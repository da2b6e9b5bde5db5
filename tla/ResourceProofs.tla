--------------------------- MODULE ResourceProofs ---------------------------
(***************************************************************************)
(* Resource for every combination of options, any number of attempts,      *)
(* polls and Deletes, and whatever the provider's methods and the user's   *)
(* interrupts do: a confirmed resource that is marked deleted is gone, no  *)
(* negative duration is reported, and a call that returns has done what it *)
(* was called for.                                                         *)
(***************************************************************************)
EXTENDS Resource, TLAPS

\* Statements of Create.
Creating == {"new", "restore", "restore_timeout", "create_dependencies",
             "create_resource", "create", "check_exists", "wait_running",
             "mark_created", "wait_ready", "post_create"}

\* Create runs before any Delete, and never on a user-managed resource
\* beyond its setup: so nothing is created after it was marked deleted.
CreateBeforeDelete ==
    /\ self.user_managed => pc \in {"new", "idle"}
    /\ ~self.user_managed /\ pc \in Creating => ~deleted

\* Control reaches the mark on a confirmed resource only past the test that
\* it is gone.
MarkIsEarned ==
    pc = "mark_deleted" /\ self.has_exists /\ created => cloud = "absent"

Gone == CreateBeforeDelete /\ MarkIsEarned /\ DeletedIsGone
GoneInv == TypeOK /\ Gone

\* Every timestamp was read from the clock; an end is only there together
\* with the flag that keeps the start from being written again.
StampInv ==
    /\ start_created < now /\ end_created < now /\ ready < now
    /\ start_deleted < now /\ end_deleted < now
    /\ ~created => end_created = 0 /\ ready = 0
    /\ ~deleted => end_deleted = 0
    /\ pc \in {"wait_ready", "post_create"} => created

\* The type invariant is kept by every statement of Create and Delete.
LEMMA TypeInductive == TypeOK /\ [Next]_vars => TypeOK'
<1> SUFFICES ASSUME TypeOK, [Next]_vars PROVE TypeOK'
  OBVIOUS
<1> USE DEF TypeOK, Labels, Goto, End, Raise, RetryOr, Tick, attributes,
            stamps, backend, counters
<1>1. ASSUME NEW restore \in BOOLEAN, CallCreate(restore) PROVE TypeOK'
  BY <1>1 DEF CallCreate, CreateCalled
<1>2. CASE Restore
  BY <1>2 DEF Restore
<1>3. CASE CreateDependencies
  BY <1>3 DEF CreateDependencies
<1>4. CASE CreateStart
  BY <1>4 DEF CreateStart
<1>5. CASE Create
  BY <1>5 DEF Create
<1>6. CASE CheckExists
  BY <1>6 DEF CheckExists
<1>7. CASE WaitUntilRunning
  BY <1>7 DEF WaitUntilRunning
<1>8. CASE MarkCreated
  BY <1>8 DEF MarkCreated
<1>9. CASE WaitUntilReady
  BY <1>9 DEF WaitUntilReady
<1>10. CASE PostCreate
  BY <1>10 DEF PostCreate
<1>11. CASE UpdateTimeout
  BY <1>11 DEF UpdateTimeout
<1>12. ASSUME NEW freeze \in BOOLEAN, CallDelete(freeze) PROVE TypeOK'
  BY <1>12 DEF CallDelete
<1>13. CASE Freeze
  BY <1>13 DEF Freeze
<1>14. CASE PreDelete
  BY <1>14 DEF PreDelete
<1>15. CASE DeleteStart
  BY <1>15 DEF DeleteStart
<1>16. CASE DoDelete
  BY <1>16 DEF DoDelete
<1>17. CASE WaitUntilDeleted
  BY <1>17 DEF WaitUntilDeleted
<1>18. CASE CheckGone
  BY <1>18 DEF CheckGone
<1>19. CASE MarkDeleted
  BY <1>19 DEF MarkDeleted
<1>20. CASE DeleteDependencies
  BY <1>20 DEF DeleteDependencies
<1>21. CASE Interrupt
  BY <1>21 DEF Interrupt
<1>22. CASE BackendDeletes
  BY <1>22 DEF BackendDeletes
<1>23. CASE UNCHANGED vars
  BY <1>23 DEF vars
<1> QED
  BY <1>1, <1>2, <1>3, <1>4, <1>5, <1>6, <1>7, <1>8, <1>9, <1>10, <1>11,
     <1>12, <1>13, <1>14, <1>15, <1>16, <1>17, <1>18, <1>19, <1>20, <1>21,
     <1>22, <1>23 DEF Next, CreateStep, DeleteStep

\* Every statement keeps the three facts behind DeletedIsGone.  The ones that
\* matter: _Create runs only before the mark, and the mark is reached from
\* CheckGone (the resource is absent), or from the first guard of
\* _DeleteResource (never created, or marked before).
LEMMA GoneInductive == TypeOK /\ Gone /\ [Next]_vars => Gone'
<1> SUFFICES ASSUME TypeOK, Gone, [Next]_vars PROVE Gone'
  OBVIOUS
<1> USE DEF Gone, CreateBeforeDelete, MarkIsEarned, DeletedIsGone, Creating,
            TypeOK, Options, Goto, End, Raise, RetryOr, Tick, attributes,
            stamps, backend, counters
<1>1. ASSUME NEW restore \in BOOLEAN, CallCreate(restore) PROVE Gone'
  BY <1>1 DEF CallCreate, CreateCalled
<1>2. CASE Restore
  BY <1>2 DEF Restore
<1>3. CASE CreateDependencies
  BY <1>3 DEF CreateDependencies
<1>4. CASE CreateStart
  BY <1>4 DEF CreateStart
<1>5. CASE Create
  BY <1>5 DEF Create
<1>6. CASE CheckExists
  BY <1>6 DEF CheckExists
<1>7. CASE WaitUntilRunning
  BY <1>7 DEF WaitUntilRunning
<1>8. CASE MarkCreated
  BY <1>8 DEF MarkCreated
<1>9. CASE WaitUntilReady
  BY <1>9 DEF WaitUntilReady
<1>10. CASE PostCreate
  BY <1>10 DEF PostCreate
<1>11. CASE UpdateTimeout
  BY <1>11 DEF UpdateTimeout
<1>12. ASSUME NEW freeze \in BOOLEAN, CallDelete(freeze) PROVE Gone'
  BY <1>12 DEF CallDelete
<1>13. CASE Freeze
  BY <1>13 DEF Freeze
<1>14. CASE PreDelete
  BY <1>14 DEF PreDelete
<1>15. CASE DeleteStart
  BY <1>15 DEF DeleteStart
<1>16. CASE DoDelete
  BY <1>16 DEF DoDelete
<1>17. CASE WaitUntilDeleted
  BY <1>17 DEF WaitUntilDeleted
<1>18. CASE CheckGone
  BY <1>18 DEF CheckGone
<1>19. CASE MarkDeleted
  BY <1>19 DEF MarkDeleted
<1>20. CASE DeleteDependencies
  BY <1>20 DEF DeleteDependencies
<1>21. CASE Interrupt
  BY <1>21 DEF Interrupt
<1>22. CASE BackendDeletes
  BY <1>22 DEF BackendDeletes
<1>23. CASE UNCHANGED vars
  BY <1>23 DEF vars
<1> QED
  BY <1>1, <1>2, <1>3, <1>4, <1>5, <1>6, <1>7, <1>8, <1>9, <1>10, <1>11,
     <1>12, <1>13, <1>14, <1>15, <1>16, <1>17, <1>18, <1>19, <1>20, <1>21,
     <1>22, <1>23 DEF Next, CreateStep, DeleteStep

\* A fresh object and one from a restore file satisfy both invariants.
LEMMA InitEstablishes == Init => GoneInv /\ StampInv
<1> SUFFICES ASSUME Init PROVE GoneInv /\ StampInv
  OBVIOUS
<1>1. CASE Fresh
  <2>0. self \in Options /\ self.user_managed \in BOOLEAN
    BY DEF Init, Options
  <2>1. TypeOK
    <3>1. created \in BOOLEAN /\ deleted \in BOOLEAN
      BY <1>1, <2>0 DEF Fresh
    <3>2. restored \in BOOLEAN /\ frozen \in BOOLEAN /\ deps \in BOOLEAN
      BY <1>1 DEF Fresh
    <3> QED
      BY <1>1, <2>0, <3>1, <3>2 DEF Init, Fresh, TypeOK, Labels
  <2>2. Gone
    BY <1>1 DEF Init, Fresh, Options, Gone, Creating, CreateBeforeDelete,
                MarkIsEarned, DeletedIsGone
  <2>3. StampInv
    BY <1>1 DEF Init, Fresh, StampInv
  <2> QED
    BY <2>1, <2>2, <2>3 DEF GoneInv
<1>2. CASE Frozen
  <2>1. TypeOK
    <3>1. created \in BOOLEAN /\ deleted \in BOOLEAN /\ restored \in BOOLEAN
      BY <1>2 DEF Frozen
    <3>2. frozen \in BOOLEAN /\ deps \in BOOLEAN
      BY <1>2, Zenon DEF Frozen
    <3> QED
      BY <1>2, <3>1, <3>2 DEF Init, Frozen, TypeOK, Labels
  <2>2. Gone
    BY <1>2 DEF Init, Frozen, Options, Gone, Creating, CreateBeforeDelete,
                MarkIsEarned, DeletedIsGone
  <2>3. StampInv
    BY <1>2 DEF Init, Frozen, StampInv
  <2> QED
    BY <2>1, <2>2, <2>3 DEF GoneInv
<1> QED
  BY <1>1, <1>2, ResourceAssumption DEF Init, Options

\* The facts behind DeletedIsGone hold in every state.
THEOREM GoneInvariant == Spec => []GoneInv
<1>1. GoneInv /\ [Next]_vars => GoneInv'
  BY TypeInductive, GoneInductive DEF GoneInv
<1> QED
  BY <1>1, InitEstablishes, PTL DEF Spec

\* The object's attributes and the Retry counters keep their types.
THEOREM TypeCorrect == Spec => []TypeOK
  BY GoneInvariant, PTL DEF GoneInv

\* Marked deleted and confirmed created: gone from the cloud.
THEOREM DeletedResourceIsGone == Spec => []DeletedIsGone
<1>1. GoneInv => DeletedIsGone
  BY DEF GoneInv, Gone
<1> QED
  BY <1>1, GoneInvariant, PTL

\* Every statement keeps the order of the timestamps; only six of them touch
\* a timestamp or a flag.
LEMMA StampInductive == TypeOK /\ StampInv /\ [Next]_vars => StampInv'
<1> SUFFICES ASSUME TypeOK, StampInv, [Next]_vars PROVE StampInv'
  OBVIOUS
<1> USE DEF TypeOK, StampInv, Goto, End, Raise, RetryOr, Tick, attributes,
            stamps, backend, counters
<1>1. CASE CreateStart
  BY <1>1 DEF CreateStart
<1>2. CASE MarkCreated
  BY <1>2 DEF MarkCreated
<1>3. CASE WaitUntilReady
  BY <1>3 DEF WaitUntilReady
<1>4. CASE DeleteStart
  BY <1>4 DEF DeleteStart
<1>5. CASE MarkDeleted
  BY <1>5 DEF MarkDeleted
<1>6. CASE \/ \E restore \in BOOLEAN : CallCreate(restore)
           \/ Restore \/ CreateDependencies \/ Create \/ CheckExists
  BY <1>6 DEF CallCreate, CreateCalled, Restore, CreateDependencies, Create, CheckExists
<1>7. CASE WaitUntilRunning \/ PostCreate \/ UpdateTimeout \/ Interrupt
           \/ BackendDeletes
  BY <1>7 DEF WaitUntilRunning, PostCreate, UpdateTimeout, Interrupt,
              BackendDeletes
<1>8. CASE \/ \E freeze \in BOOLEAN : CallDelete(freeze)
           \/ Freeze \/ PreDelete \/ DoDelete
  BY <1>8 DEF CallDelete, Freeze, PreDelete, DoDelete
<1>9. CASE WaitUntilDeleted \/ CheckGone \/ DeleteDependencies
  BY <1>9 DEF WaitUntilDeleted, CheckGone, DeleteDependencies
<1>10. CASE UNCHANGED vars
  BY <1>10 DEF vars
<1> QED
  BY <1>1, <1>2, <1>3, <1>4, <1>5, <1>6, <1>7, <1>8, <1>9, <1>10
     DEF Next, CreateStep, DeleteStep

\* What keeps GetSamples from reporting a negative duration, as an invariant
\* of its own: each end is later than the start it is paired with.
PairInv ==
    /\ end_created # 0 => start_created <= end_created
    /\ ready # 0 => start_created <= ready
    /\ end_deleted # 0 /\ start_deleted # 0 => start_deleted <= end_deleted

\* A start is written only while the ends it is paired with are unset, an end
\* is the latest reading of the clock.
LEMMA PairInductive ==
    TypeOK /\ StampInv /\ PairInv /\ [Next]_vars => PairInv'
<1> SUFFICES ASSUME TypeOK, StampInv, PairInv, [Next]_vars PROVE PairInv'
  OBVIOUS
<1> USE DEF TypeOK, StampInv, PairInv, Tick, attributes, stamps, backend,
            counters
<1>1. CASE CreateStart
  BY <1>1 DEF CreateStart
<1>2. CASE MarkCreated
  BY <1>2 DEF MarkCreated
<1>3. CASE WaitUntilReady
  BY <1>3 DEF WaitUntilReady
<1>4. CASE DeleteStart
  BY <1>4 DEF DeleteStart
<1>5. CASE MarkDeleted
  BY <1>5 DEF MarkDeleted
<1>6. CASE UNCHANGED stamps
  BY <1>6
<1>7. \/ CreateStart \/ MarkCreated \/ WaitUntilReady \/ DeleteStart
      \/ MarkDeleted \/ UNCHANGED stamps
  BY DEF Next, CreateStep, DeleteStep, CallCreate, CreateCalled, Restore, CreateDependencies,
         Create, CheckExists, WaitUntilRunning, PostCreate, UpdateTimeout,
         CallDelete, Freeze, PreDelete, DoDelete, WaitUntilDeleted, CheckGone,
         DeleteDependencies, Interrupt, BackendDeletes, vars
<1> QED
  BY <1>1, <1>2, <1>3, <1>4, <1>5, <1>6, <1>7

\* GetSamples never reports a negative duration.
THEOREM DurationsSound == Spec => []DurationsNotNegative
<1>1. Init => PairInv
  <2> SUFFICES ASSUME Init PROVE PairInv
    OBVIOUS
  <2>1. Fresh \/ Frozen
    BY ResourceAssumption DEF Init, Options
  <2> QED
    BY <2>1 DEF Init, Fresh, Frozen, PairInv
<1>2. TypeOK /\ PairInv => DurationsNotNegative
  <2> SUFFICES ASSUME TypeOK, PairInv, NEW s \in GetSamples
               PROVE  s.start <= s.end
    BY DEF DurationsNotNegative
  <2>1. s.start # 0 /\ s.end # 0
    BY DEF GetSamples
  <2>2. CASE s = Interval("Time to Create", start_created, end_created)
    <3>1. s.start = start_created /\ s.end = end_created
      BY <2>2 DEF Interval
    <3> QED
      BY <2>1, <3>1 DEF PairInv, TypeOK
  <2>3. CASE s = Interval("Time to Ready", start_created, ready)
    <3>1. s.start = start_created /\ s.end = ready
      BY <2>3 DEF Interval
    <3> QED
      BY <2>1, <3>1 DEF PairInv, TypeOK
  <2>4. CASE s = Interval("Time to Delete", start_deleted, end_deleted)
    <3>1. s.start = start_deleted /\ s.end = end_deleted
      BY <2>4 DEF Interval
    <3> QED
      BY <2>1, <3>1 DEF PairInv, TypeOK
  <2> QED
    BY <2>2, <2>3, <2>4 DEF GetSamples
<1> QED
  BY <1>1, <1>2, InitEstablishes, StampInductive, PairInductive, TypeCorrect,
     PTL DEF Spec

-----------------------------------------------------------------------------
\* What a call has established by the time it reaches a statement: nothing was
\* tried before _CreateResource, which tries again only what is not on record;
\* past _Exists the resource is there, and past the mark it is on record; the
\* last statements of Freeze and Delete are reached with their work done.
Progress ==
    /\ pc \in {"new", "restore", "restore_timeout", "create_dependencies"}
         => tries = 0
    /\ pc = "create_resource" /\ tries > 0 => ~created
    /\ pc \in {"create", "check_exists", "wait_running"} => ~created
    /\ pc \in {"wait_running", "mark_created"} /\ self.has_exists
         => cloud = "exists"
    /\ pc \in {"wait_ready", "post_create"} =>
         created /\ (self.has_exists /\ tries > 0 => cloud = "exists")
    /\ pc = "freeze_timeout" => frozen /\ ~restored /\ cloud = "exists"
    /\ pc = "delete_dependencies" => deleted

OutcomeInv == Progress /\ CallOutcome

\* Every statement hands on what the next one relies on.  BackendDeletes
\* cannot take a resource away that exists, only one being deleted.
LEMMA OutcomeInductive == TypeOK /\ OutcomeInv /\ [Next]_vars => OutcomeInv'
<1> SUFFICES ASSUME TypeOK, OutcomeInv, [Next]_vars PROVE OutcomeInv'
  OBVIOUS
<1> USE DEF OutcomeInv, Progress, CallOutcome, TypeOK, Goto, End, Raise,
            RetryOr, Tick, attributes, stamps, backend, counters
<1>1. ASSUME NEW restore \in BOOLEAN, CallCreate(restore) PROVE OutcomeInv'
  BY <1>1 DEF CallCreate, CreateCalled
<1>2. CASE Restore \/ UpdateTimeout
  BY <1>2 DEF Restore, UpdateTimeout
<1>3. CASE CreateDependencies
  <2>1. tries = 0 /\ UNCHANGED <<self, attributes, cloud, frozen, tries>>
    BY <1>3 DEF CreateDependencies
  <2>2. pc' = "create_resource" \/ (pc' = "idle" /\ result' = "raised")
    BY <1>3 DEF CreateDependencies
  <2> QED
    BY <2>1, <2>2
<1>4. CASE CreateStart
  BY <1>4 DEF CreateStart
<1>5. CASE Create
  BY <1>5 DEF Create
<1>6. CASE CheckExists
  BY <1>6 DEF CheckExists
<1>7. CASE WaitUntilRunning \/ MarkCreated
  BY <1>7 DEF WaitUntilRunning, MarkCreated
<1>8. CASE WaitUntilReady
  BY <1>8 DEF WaitUntilReady
<1>9. CASE PostCreate
  BY <1>9 DEF PostCreate
<1>10. ASSUME NEW freeze \in BOOLEAN, CallDelete(freeze) PROVE OutcomeInv'
  BY <1>10 DEF CallDelete
<1>11. CASE Freeze \/ PreDelete
  BY <1>11 DEF Freeze, PreDelete
<1>12. CASE DeleteStart \/ DoDelete
  BY <1>12 DEF DeleteStart, DoDelete
<1>13. CASE WaitUntilDeleted \/ CheckGone
  BY <1>13 DEF WaitUntilDeleted, CheckGone
<1>14. CASE MarkDeleted \/ DeleteDependencies
  BY <1>14 DEF MarkDeleted, DeleteDependencies
<1>15. CASE Interrupt \/ BackendDeletes
  BY <1>15 DEF Interrupt, BackendDeletes
<1>16. CASE UNCHANGED vars
  BY <1>16 DEF vars
<1> QED
  BY <1>1, <1>2, <1>3, <1>4, <1>5, <1>6, <1>7, <1>8, <1>9, <1>10, <1>11,
     <1>12, <1>13, <1>14, <1>15, <1>16 DEF Next, CreateStep, DeleteStep

\* A Create, Freeze or Delete that returns has done its work, however often
\* its parts failed and were repeated before.
THEOREM OutcomeSound == Spec => []CallOutcome
<1>1. Init => OutcomeInv
  BY DEF Init, OutcomeInv, Progress, CallOutcome
<1>2. OutcomeInv => CallOutcome
  BY DEF OutcomeInv
<1> QED
  BY <1>1, <1>2, OutcomeInductive, TypeCorrect, PTL DEF Spec

-----------------------------------------------------------------------------
(***************************************************************************)
(* Resource implements Lifecycle.                                          *)
(***************************************************************************)
\* What the refinement needs of an ordinary resource beyond the invariants
\* above: before _CreateResource it is neither there nor on record, so that
\* there is nothing to restore; _Create is not tried again on one that is on
\* record; and _Delete is called only on one that is on record and unmarked.
OrdinaryInv ==
    /\ ~self.user_managed /\ self.has_exists
    /\ pc = "new" => result = "none"
    /\ pc \in {"new", "restore", "create_dependencies"} =>
         ~created /\ cloud # "exists"
    /\ pc = "create_resource" => ~created
    /\ pc # "restore_timeout"
    /\ pc \in {"wait_ready", "post_create"} => created /\ cloud = "exists"
    /\ pc \in {"delete", "wait_deleted", "check_gone"} => created /\ ~deleted

\* Every statement keeps it.
LEMMA OrdinaryInductive ==
    TypeOK /\ OutcomeInv /\ OrdinaryInv /\ [Next]_vars => OrdinaryInv'
<1> SUFFICES ASSUME TypeOK, OutcomeInv, OrdinaryInv, [Next]_vars
             PROVE  OrdinaryInv'
  OBVIOUS
<1> USE DEF OrdinaryInv, OutcomeInv, Progress, TypeOK, Goto, End, Raise,
            RetryOr, Tick, attributes, stamps, backend, counters
<1>1. ASSUME NEW restore \in BOOLEAN, CallCreate(restore) PROVE OrdinaryInv'
  BY <1>1 DEF CallCreate, CreateCalled
<1>2. CASE Restore \/ UpdateTimeout
  BY <1>2 DEF Restore, UpdateTimeout
<1>3. CASE CreateDependencies
  BY <1>3 DEF CreateDependencies
<1>4. CASE CreateStart
  BY <1>4 DEF CreateStart
<1>5. CASE Create
  BY <1>5 DEF Create
<1>6. CASE CheckExists
  BY <1>6 DEF CheckExists
<1>7. CASE WaitUntilRunning \/ MarkCreated
  BY <1>7 DEF WaitUntilRunning, MarkCreated
<1>8. CASE WaitUntilReady \/ PostCreate
  BY <1>8 DEF WaitUntilReady, PostCreate
<1>9. ASSUME NEW freeze \in BOOLEAN, CallDelete(freeze) PROVE OrdinaryInv'
  BY <1>9 DEF CallDelete
<1>10. CASE Freeze \/ PreDelete
  BY <1>10 DEF Freeze, PreDelete
<1>11. CASE DeleteStart \/ DoDelete
  BY <1>11 DEF DeleteStart, DoDelete
<1>12. CASE WaitUntilDeleted \/ CheckGone
  BY <1>12 DEF WaitUntilDeleted, CheckGone
<1>13. CASE MarkDeleted \/ DeleteDependencies
  BY <1>13 DEF MarkDeleted, DeleteDependencies
<1>14. CASE Interrupt \/ BackendDeletes
  BY <1>14 DEF Interrupt, BackendDeletes
<1>15. CASE UNCHANGED vars
  BY <1>15 DEF vars
<1> QED
  BY <1>1, <1>2, <1>3, <1>4, <1>5, <1>6, <1>7, <1>8, <1>9, <1>10, <1>11,
     <1>12, <1>13, <1>14, <1>15 DEF Next, CreateStep, DeleteStep

\* The call a statement belongs to.
LEMMA CallOf ==
    /\ pc \in {"new", "idle"} => CallState = "none"
    /\ pc \in InCreate => CallState = "create"
    /\ pc \in Labels \ (InCreate \cup {"new", "idle"}) => CallState = "delete"
  BY DEF CallState, InCreate, Labels

\* The same after a step.
LEMMA CallOfNext ==
    /\ pc' \in {"new", "idle"} => CallState' = "none"
    /\ pc' \in InCreate => CallState' = "create"
    /\ pc' \in Labels \ (InCreate \cup {"new", "idle"}) => CallState' = "delete"
  BY DEF CallState, InCreate, Labels

\* Steps that are not visible.
LEMMA Hidden ==
  ASSUME UNCHANGED <<created, deleted, result>>,
         (cloud = "exists") = (cloud' = "exists"), CallState' = CallState
  PROVE  UNCHANGED Life!lifeVars
  BY DEF Life!lifeVars, Life!object

\* A call that raises with the object as it was.
LEMMA Raises ==
  ASSUME pc \in Labels \ {"new", "idle"}, Raise,
         UNCHANGED <<created, deleted, cloud>>
  PROVE  Life!LifeNext
<1>1. CallState # "none" /\ CallState' = "none" /\ result' = "raised"
  BY CallOf, CallOfNext DEF Raise, End, InCreate, Labels
<1> QED
  BY <1>1 DEF Life!LifeNext, Life!Fail, Life!object

\* Create is a Create of Lifecycle.
LEMMA CreateImplements ==
  ASSUME TypeOK, GoneInv, OutcomeInv, OrdinaryInv, CreateStep
  PROVE  Life!LifeNext \/ UNCHANGED Life!lifeVars
<1> USE DEF attributes, stamps, backend, counters
<1>1. CASE \E restore \in BOOLEAN : CallCreate(restore)
  <2>1. pc = "new" /\ result = "none" /\ UNCHANGED <<attributes, backend, result>>
        /\ pc' \in {"restore", "create_dependencies"}
    BY <1>1 DEF CallCreate, CreateCalled, OrdinaryInv, Goto
  <2>2. CallState = "none" /\ CallState' = "create"
    BY <2>1, CallOf, CallOfNext DEF InCreate
  <2> QED
    BY <2>1, <2>2 DEF Life!LifeNext, Life!Begin, Life!object
<1>2. CASE Restore
  <2>1. UNCHANGED <<attributes, cloud>> /\ pc = "restore"
    BY <1>2 DEF Restore, OrdinaryInv
  <2>2. CASE Raise
    BY <2>1, <2>2, Raises DEF Labels
  <2>3. CASE Goto("create_dependencies")
    BY <2>1, <2>3, CallOf, CallOfNext, Hidden DEF InCreate, Goto
  <2> QED
    BY <1>2, <2>2, <2>3 DEF Restore, OrdinaryInv
<1>3. CASE CreateDependencies
  <2>1. CASE Raise
    BY <1>3, <2>1, Raises DEF CreateDependencies, Labels
  <2>2. CASE Goto("create_resource")
    BY <1>3, <2>2, CallOf, CallOfNext, Hidden DEF CreateDependencies, InCreate, Goto
  <2> QED
    BY <1>3, <2>1, <2>2 DEF CreateDependencies
<1>4. CASE CreateStart
  <2>1. pc' \in {"wait_ready", "create"} /\ UNCHANGED <<attributes, cloud, result>>
    BY <1>4 DEF CreateStart, Goto
  <2> QED
    BY <1>4, <2>1, CallOf, CallOfNext, Hidden DEF CreateStart, InCreate
<1>5. CASE Create
  <2>1. /\ pc = "create" /\ UNCHANGED <<created, deleted>>
        /\ cloud' = cloud \/ cloud' = "exists"
    BY <1>5 DEF Create
  <2>2. CallState = "create"
    BY <2>1, CallOf DEF InCreate
  <2>3. CASE Raise
    <3>1. CallState' = "none" /\ result' = "raised"
      BY <2>3, CallOfNext DEF Raise, End
    <3> QED
      BY <2>1, <2>2, <3>1
         DEF Life!LifeNext, Life!Fail, Life!Appear, Life!object
  <2>4. CASE Goto("check_exists") \/ Goto("create_resource")
    <3>1. CallState' = "create" /\ result' = result
      BY <2>4, CallOfNext DEF Goto, InCreate
    <3>2. CASE cloud' = "exists"
      BY <2>1, <2>2, <3>1, <3>2
         DEF Life!LifeNext, Life!Work, Life!Appear
    <3>3. CASE cloud' = cloud
      BY <2>1, <2>2, <3>1, <3>3, Hidden
    <3> QED
      BY <2>1, <3>2, <3>3
  <2> QED
    BY <1>5, <2>3, <2>4 DEF Create, RetryOr
<1>6. CASE CheckExists \/ WaitUntilRunning
  <2>1. /\ pc \in {"check_exists", "wait_running"}
        /\ UNCHANGED <<attributes, cloud>>
    BY <1>6 DEF CheckExists, WaitUntilRunning
  <2>2. CASE Raise
    BY <2>1, <2>2, Raises DEF Labels
  <2>3. CASE Goto("wait_running") \/ Goto("create_resource") \/ Goto("mark_created")
    BY <2>1, <2>3, CallOf, CallOfNext, Hidden DEF InCreate, Goto
  <2> QED
    BY <1>6, <2>2, <2>3 DEF CheckExists, WaitUntilRunning, RetryOr
<1>7. CASE MarkCreated
  <2>1. /\ pc = "mark_created" /\ pc' = "wait_ready" /\ created' = TRUE
        /\ UNCHANGED <<cloud, deleted, result>>
    BY <1>7 DEF MarkCreated, Goto
  <2>2. cloud = "exists"
    BY <2>1 DEF OutcomeInv, Progress, OrdinaryInv
  <2>3. CallState = "create" /\ CallState' = "create"
    BY <2>1, CallOf, CallOfNext DEF InCreate
  <2> QED
    BY <2>1, <2>2, <2>3 DEF Life!LifeNext, Life!Work, Life!Record
<1>8. CASE WaitUntilReady
  <2>1. pc = "wait_ready" /\ UNCHANGED <<attributes, cloud>>
    BY <1>8 DEF WaitUntilReady
  <2>2. CASE Raise
    BY <2>1, <2>2, Raises DEF Labels
  <2>3. CASE Goto("wait_ready") \/ Goto("post_create")
    BY <2>1, <2>3, CallOf, CallOfNext, Hidden DEF InCreate, Goto
  <2> QED
    BY <1>8, <2>2, <2>3 DEF WaitUntilReady
<1>9. CASE PostCreate
  <2>1. pc = "post_create" /\ UNCHANGED <<attributes, cloud>>
    BY <1>9 DEF PostCreate
  <2>2. CASE Raise
    BY <2>1, <2>2, Raises DEF Labels
  <2>3. CASE End("created")
    <3>1. CallState = "create" /\ CallState' = "none" /\ result' = "created"
      BY <2>1, <2>3, CallOf, CallOfNext DEF InCreate, End
    <3>2. created /\ cloud = "exists"
      BY <2>1 DEF OrdinaryInv
    <3> QED
      BY <2>1, <3>1, <3>2 DEF Life!LifeNext, Life!Return, Life!object
  <2> QED
    BY <1>9, <2>2, <2>3 DEF PostCreate
<1> QED
  BY <1>1, <1>2, <1>3, <1>4, <1>5, <1>6, <1>7, <1>8, <1>9 DEF CreateStep

\* Delete is a Delete of Lifecycle.
LEMMA DeleteImplements ==
  ASSUME TypeOK, GoneInv, OutcomeInv, OrdinaryInv, DeleteStep
  PROVE  Life!LifeNext \/ UNCHANGED Life!lifeVars
<1> USE DEF attributes, stamps, backend, counters
<1>1. CASE \E freeze \in BOOLEAN : CallDelete(freeze)
  <2>1. /\ pc \in {"new", "idle"} /\ UNCHANGED <<attributes, backend, result>>
        /\ pc' \in {"freeze", "pre_delete"}
    BY <1>1 DEF CallDelete, OrdinaryInv, Goto
  <2>2. CallState = "none" /\ CallState' = "delete"
    BY <2>1, CallOf, CallOfNext DEF InCreate, Labels
  <2> QED
    BY <2>1, <2>2 DEF Life!LifeNext, Life!Begin, Life!object
<1>2. CASE Freeze
  <2>1. UNCHANGED <<created, deleted, cloud>> /\ pc = "freeze"
    BY <1>2 DEF Freeze
  <2>2. CASE Raise
    BY <2>1, <2>2, Raises DEF Labels
  <2>3. CASE Goto("freeze_timeout") \/ Goto("pre_delete")
    BY <2>1, <2>3, CallOf, CallOfNext, Hidden DEF InCreate, Labels, Goto
  <2> QED
    BY <1>2, <2>2, <2>3 DEF Freeze
<1>3. CASE PreDelete
  <2>1. CASE Raise
    BY <1>3, <2>1, Raises DEF PreDelete, Labels
  <2>2. CASE Goto("delete_resource")
    BY <1>3, <2>2, CallOf, CallOfNext, Hidden
       DEF PreDelete, InCreate, Labels, Goto
  <2> QED
    BY <1>3, <2>1, <2>2 DEF PreDelete
<1>4. CASE DeleteStart
  <2>1. /\ pc = "delete_resource" /\ pc' \in {"mark_deleted", "delete"}
        /\ UNCHANGED <<attributes, cloud, result>>
    BY <1>4 DEF DeleteStart, Goto
  <2> QED
    BY <2>1, CallOf, CallOfNext, Hidden DEF InCreate, Labels
<1>5. CASE DoDelete
  <2>1. /\ pc = "delete" /\ UNCHANGED <<created, deleted>>
        /\ cloud' = cloud \/ cloud' \in {"absent", "deleting"}
    BY <1>5 DEF DoDelete
  <2>2. CallState = "delete" /\ created /\ ~deleted
    BY <2>1, CallOf DEF InCreate, Labels, OrdinaryInv
  <2>3. CASE Raise
    <3>1. CallState' = "none" /\ result' = "raised"
      BY <2>3, CallOfNext DEF Raise, End
    <3> QED
      BY <2>1, <2>2, <3>1
         DEF Life!LifeNext, Life!Fail, Life!Vanish, Life!object
  <2>4. CASE Goto("wait_deleted")
    <3>1. CallState' = "delete" /\ result' = result
      BY <2>4, CallOfNext DEF Goto, InCreate, Labels
    <3>2. CASE cloud' \in {"absent", "deleting"}
      BY <2>1, <2>2, <3>1, <3>2
         DEF Life!LifeNext, Life!Work, Life!Vanish
    <3>3. CASE cloud' = cloud
      BY <2>1, <2>2, <3>1, <3>3, Hidden
    <3> QED
      BY <2>1, <3>2, <3>3
  <2> QED
    BY <1>5, <2>3, <2>4 DEF DoDelete
<1>6. CASE WaitUntilDeleted \/ CheckGone
  <2>1. /\ pc \in {"wait_deleted", "check_gone"}
        /\ UNCHANGED <<attributes, cloud>>
    BY <1>6 DEF WaitUntilDeleted, CheckGone
  <2>2. CASE Raise
    BY <2>1, <2>2, Raises DEF Labels
  <2>3. CASE \/ Goto("wait_deleted") \/ Goto("check_gone")
             \/ Goto("mark_deleted") \/ Goto("delete_resource")
    BY <2>1, <2>3, CallOf, CallOfNext, Hidden DEF InCreate, Labels, Goto
  <2> QED
    BY <1>6, <2>2, <2>3 DEF WaitUntilDeleted, CheckGone, RetryOr
<1>7. CASE MarkDeleted
  <2>1. /\ pc = "mark_deleted" /\ pc' = "delete_dependencies"
        /\ deleted' = TRUE /\ UNCHANGED <<cloud, created, result>>
    BY <1>7 DEF MarkDeleted, Goto
  <2>2. created => cloud # "exists"
    BY <2>1 DEF GoneInv, Gone, MarkIsEarned, OrdinaryInv
  <2>3. CallState = "delete" /\ CallState' = "delete"
    BY <2>1, CallOf, CallOfNext DEF InCreate, Labels
  <2> QED
    BY <2>1, <2>2, <2>3 DEF Life!LifeNext, Life!Work, Life!Mark
<1>8. CASE DeleteDependencies
  <2>1. pc = "delete_dependencies" /\ UNCHANGED <<attributes, cloud>>
    BY <1>8 DEF DeleteDependencies
  <2>2. CASE Raise
    BY <2>1, <2>2, Raises DEF Labels
  <2>3. CASE End("deleted")
    <3>1. CallState = "delete" /\ CallState' = "none" /\ result' = "deleted"
      BY <2>1, <2>3, CallOf, CallOfNext DEF InCreate, Labels, End
    <3>2. deleted
      BY <2>1 DEF OutcomeInv, Progress
    <3> QED
      BY <2>1, <3>1, <3>2 DEF Life!LifeNext, Life!Return, Life!object
  <2> QED
    BY <1>8, <2>2, <2>3 DEF DeleteDependencies
<1> QED
  BY <1>1, <1>2, <1>3, <1>4, <1>5, <1>6, <1>7, <1>8 DEF DeleteStep

\* Every step of a resource is one of Lifecycle, or not visible there.
LEMMA StepImplements ==
    TypeOK /\ GoneInv /\ OutcomeInv /\ OrdinaryInv /\ [Next]_vars
      => [Life!LifeNext]_(Life!lifeVars)
<1> SUFFICES ASSUME TypeOK, GoneInv, OutcomeInv, OrdinaryInv, [Next]_vars
             PROVE  Life!LifeNext \/ UNCHANGED Life!lifeVars
  OBVIOUS
<1> USE DEF attributes, stamps, backend, counters
<1>1. CASE UpdateTimeout
  <2>1. pc = "freeze_timeout" /\ UNCHANGED <<attributes, cloud>>
    BY <1>1 DEF UpdateTimeout, OrdinaryInv
  <2>2. CASE Raise
    BY <2>1, <2>2, Raises DEF Labels
  <2>3. CASE End("frozen")
    <3>1. CallState = "delete" /\ CallState' = "none" /\ result' = "frozen"
      BY <2>1, <2>3, CallOf, CallOfNext DEF InCreate, Labels, End
    <3>2. cloud = "exists"
      BY <2>1 DEF OutcomeInv, Progress
    <3> QED
      BY <2>1, <3>1, <3>2 DEF Life!LifeNext, Life!Return, Life!object
  <2> QED
    BY <1>1, <2>1, <2>2, <2>3 DEF UpdateTimeout
<1>2. CASE Interrupt
  <2>1. pc \in Labels \ {"new", "idle"}
    BY <1>2 DEF Interrupt, TypeOK
  <2> QED
    BY <1>2, <2>1, Raises DEF Interrupt
<1>3. CASE BackendDeletes
  <2>1. CallState' = CallState
    BY <1>3 DEF BackendDeletes, CallState
  <2> QED
    BY <1>3, <2>1, Hidden DEF BackendDeletes
<1>4. CASE UNCHANGED vars
  <2>1. CallState' = CallState
    BY <1>4 DEF vars, CallState
  <2> QED
    BY <1>4, <2>1, Hidden DEF vars
<1> QED
  BY <1>1, <1>2, <1>3, <1>4, CreateImplements, DeleteImplements DEF Next

\* The constructor's arguments do not change, nor where the object came from.
LEMMA SelfIsFixed == [Next]_vars => UNCHANGED self
<1> USE DEF attributes, stamps, backend, counters
<1>1. CreateStep => UNCHANGED self
  BY DEF CreateStep, CallCreate, CreateCalled, Restore, CreateDependencies,
     CreateStart, Create, CheckExists, WaitUntilRunning, MarkCreated,
     WaitUntilReady, PostCreate
<1>2. DeleteStep => UNCHANGED self
  BY DEF DeleteStep, CallDelete, Freeze, PreDelete, DeleteStart, DoDelete,
     WaitUntilDeleted, CheckGone, MarkDeleted, DeleteDependencies
<1> QED
  BY <1>1, <1>2 DEF Next, UpdateTimeout, Interrupt, BackendDeletes, vars

\* An ordinary resource begins like one of Lifecycle.
LEMMA OrdinaryInit == Init /\ Ordinary => OrdinaryInv /\ Life!LifeInit
<1> SUFFICES ASSUME Init, Ordinary PROVE OrdinaryInv /\ Life!LifeInit
  OBVIOUS
<1>1. cloud = "absent" /\ created = FALSE /\ deleted = FALSE
  BY DEF Init, Ordinary, Fresh, Options
<1>2. CallState = "none"
  BY CallOf DEF Init
<1> QED
  BY <1>1, <1>2 DEF Init, Ordinary, OrdinaryInv, Life!LifeInit

\* BaseResource keeps the contract BenchmarkRun relies on: Create and Delete
\* of a resource with an _Exists behave like those of Lifecycle, whatever
\* the provider does, for any number of tries, polls and Deletes.
THEOREM LifecycleRefinement == Spec => ImplementsLifecycle
<1>1. Init => OutcomeInv
  BY DEF Init, OutcomeInv, Progress, CallOutcome
<1>2. Spec => []OutcomeInv
  BY <1>1, OutcomeInductive, TypeCorrect, PTL DEF Spec
<1>3. Init => (Ordinary => OrdinaryInv)
  BY OrdinaryInit
<1>4. TypeOK /\ OutcomeInv /\ (Ordinary => OrdinaryInv) /\ [Next]_vars
        => (Ordinary => OrdinaryInv)'
  BY SelfIsFixed, OrdinaryInductive DEF Ordinary
<1>5. Spec => [](Ordinary => OrdinaryInv)
  BY <1>2, <1>3, <1>4, TypeCorrect, PTL DEF Spec
<1>6. Init => (Ordinary => Life!LifeInit)
  BY OrdinaryInit
<1>7. TypeOK /\ GoneInv /\ OutcomeInv /\ (Ordinary => OrdinaryInv) /\ [Next]_vars
        => [Ordinary => Life!LifeNext]_(Life!lifeVars)
  BY StepImplements
<1> QED
  BY <1>2, <1>5, <1>6, <1>7, TypeCorrect, GoneInvariant, PTL
     DEF Spec, ImplementsLifecycle

\* In particular, the behaviours of an ordinary resource, without what is not
\* visible in them, are behaviours of Lifecycle.
THEOREM OrdinaryRefinement == Spec /\ Ordinary => Life!LifeSpec
<1>1. Ordinary /\ [Next]_vars => Ordinary'
  BY SelfIsFixed DEF Ordinary
<1>2. Spec /\ Ordinary => []Ordinary
  BY <1>1, PTL DEF Spec
<1>3. Ordinary /\ [Ordinary => Life!LifeNext]_(Life!lifeVars)
        => [Life!LifeNext]_(Life!lifeVars)
  OBVIOUS
<1> QED
  BY <1>2, <1>3, LifecycleRefinement, PTL
     DEF ImplementsLifecycle, Life!LifeSpec
=============================================================================
