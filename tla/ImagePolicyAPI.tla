--------------------------- MODULE ImagePolicyAPI ---------------------------
(***************************************************************************)
(* The ImagePolicy objects as the API server stores them, and everything   *)
(* that changes them or the registries from outside the operator's policy  *)
(* controller: users who create, edit and delete policies, the webhook     *)
(* receiver's annotation patch, and images pushed to a repository.         *)
(*                                                                         *)
(* Both the promise (PolicyStatus) and the controller that keeps it        *)
(* (ImagePolicyController) are written over these three variables.         *)
(***************************************************************************)
EXTENDS Naturals

CONSTANTS
    Policies,       \* names of ImagePolicy objects, all in one namespace
    Repos,          \* values of spec.imageRepository
    Tags,           \* tags a repository can offer
    None,           \* no object, no image or no tag
    MaxGeneration   \* bound on the spec edits of one object

ASSUME NoneIsNoTag == None \notin Tags

VARIABLES
    api,        \* the stored object of every policy, None when there is none
    registry,   \* the tag the selection rule picks in each repository now
    fresh       \* history: per policy, the tags its repository has offered
                \* since the object was last written

apiVars == <<api, registry, fresh>>

-----------------------------------------------------------------------------
\* status.latestTag and status.latestImage are written together, always as
\* one image; None is the empty string of a policy never scanned.
Image == [repo: Repos, tag: Tags]

\* repo and suspend stand for the whole spec: an edit of any other field is a
\* new generation whose rule may pick another tag.
ImagePolicy ==
    [ repo       : Repos,
      suspend    : BOOLEAN,
      generation : Nat,
      latest     : Image \cup {None},
      ready      : {"Unknown", "True", "False"},
      observed   : Nat ]

ASSUME NoneIsNoObject == None \notin ImagePolicy /\ None \notin Image

NewPolicy(r, s) ==
    [ repo |-> r, suspend |-> s, generation |-> 1,
      latest |-> None, ready |-> "Unknown", observed |-> 0 ]

\* A spec edit leaves the status subresource alone and increments
\* metadata.generation.
EditedPolicy(ip, r, s) ==
    [ip EXCEPT !.repo = r, !.suspend = s, !.generation = @ + 1]

\* A policy the controller scans.
Active(ip) == ip # None /\ ~ip.suspend

StatusOf(ip) == <<ip.latest, ip.ready, ip.observed>>

APITypeOK ==
    /\ api \in [Policies -> ImagePolicy \cup {None}]
    /\ registry \in [Repos -> Tags \cup {None}]
    /\ fresh \in [Policies -> SUBSET Tags]

-----------------------------------------------------------------------------
\* What a write of policy p leaves in the API server. Whatever was listed
\* before the write says nothing about the object as it is after it.
Put(p, obj) ==
    /\ api' = [api EXCEPT ![p] = obj]
    /\ fresh' = [fresh EXCEPT ![p] =
                    IF obj = None THEN {} ELSE {registry[obj.repo]} \ {None}]
    /\ UNCHANGED registry

\* A push, or the deletion of a tag: another tag is the one to select, or none.
PushTo(r, t) ==
    /\ registry[r] # t
    /\ registry' = [registry EXCEPT ![r] = t]
    /\ fresh' = [p \in Policies |->
                    IF api[p] # None /\ t # None /\ api[p].repo = r
                    THEN fresh[p] \cup {t} ELSE fresh[p]]
    /\ UNCHANGED api

APIInit ==
    /\ api = [p \in Policies |-> None]
    /\ registry \in [Repos -> Tags \cup {None}]
    /\ fresh = [p \in Policies |-> {}]
=============================================================================
