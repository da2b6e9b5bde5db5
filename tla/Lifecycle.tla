----------------------------- MODULE Lifecycle -----------------------------
(***************************************************************************)
(* What BenchmarkRun relies on when it calls Create and Delete of a        *)
(* resource (BaseResource, resource.py): Create once, on a new object,     *)
(* then Delete any number of times, each of which may raise at any point.  *)
(* A resource is on record only once it is there, nothing takes away one   *)
(* that is not on record, and the mark `deleted` is set on one that is on  *)
(* record only when it is gone.  Tries, polls, restoring and dependencies  *)
(* are not visible.                                                        *)
(***************************************************************************)
VARIABLES exists,            \* in the cloud, and not being deleted
          created, deleted,  \* the object's attributes
          call,              \* "none", or the call under way
          outcome            \* how the last call ended

object == <<exists, created, deleted>>
lifeVars == <<object, call, outcome>>

LifeInit ==
    /\ exists = FALSE /\ created = FALSE /\ deleted = FALSE
    /\ call = "none" /\ outcome = "none"

Begin ==
    /\ call = "none"
    /\ \/ call' = "create" /\ outcome = "none"
       \/ call' = "delete"
    /\ UNCHANGED <<object, outcome>>

\* _Create and _Delete take effect in the cloud.
Appear ==
    /\ call = "create"
    /\ exists' = TRUE /\ UNCHANGED <<created, deleted>>

Vanish ==
    /\ call = "delete" /\ created /\ ~deleted
    /\ exists' = FALSE /\ UNCHANGED <<created, deleted>>

\* The attributes are set.
Record ==
    /\ call = "create" /\ exists
    /\ created' = TRUE /\ UNCHANGED <<exists, deleted>>

Mark ==
    /\ call = "delete" /\ (created => ~exists)
    /\ deleted' = TRUE /\ UNCHANGED <<exists, created>>

Work == (Appear \/ Vanish \/ Record \/ Mark) /\ UNCHANGED <<call, outcome>>

\* The call returns, having frozen the resource perhaps.
Return ==
    /\ \/ call = "create" /\ exists /\ created /\ outcome' = "created"
       \/ call = "delete" /\ exists /\ outcome' = "frozen"
       \/ call = "delete" /\ deleted /\ outcome' = "deleted"
    /\ call' = "none"
    /\ UNCHANGED object

\* The call raises; the method that raised may have taken effect.
Fail ==
    /\ call # "none"
    /\ call' = "none" /\ outcome' = "raised"
    /\ Appear \/ Vanish \/ UNCHANGED object

LifeNext == Begin \/ Work \/ Return \/ Fail

LifeSpec == LifeInit /\ [][LifeNext]_lifeVars
=============================================================================
