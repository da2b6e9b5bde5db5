------------------------------ MODULE Resource ------------------------------
(***************************************************************************)
(* BaseResource of resource.py: one resource object, the calls made on it  *)
(* (Create once, when the benchmark is provisioned, then Delete any number *)
(* of times: teardown, teardown again in a later run of the same spec) and *)
(* the cloud behind it.                                                    *)
(*                                                                         *)
(* The methods a provider overrides (_Create, _Exists, _Delete, ...) are   *)
(* external: each may succeed, raise, or, for the many providers that      *)
(* issue their command with raise_on_failure=False, fail without saying    *)
(* so; a call that raises may have taken effect all the same.  A           *)
(* KeyboardInterrupt may strike between any two statements.                *)
(***************************************************************************)
EXTENDS Integers

CONSTANTS Origin,    \* where the object comes from: "fresh" (constructed) or
                     \* "frozen" (unpickled from a --freeze file)
          MaxTries,  \* bound: attempts of one vm_util.Retry loop
          MaxPolls,  \* bound: readiness or deletion polls
          CheckErrorsEvery, \* CHECK_FOR_ERRORS_EVERY_N_READY_POLLS
          MaxDeletes \* bound: calls of Delete

ASSUME ResourceAssumption ==
    /\ Origin \subseteq {"fresh", "frozen"}
    /\ MaxTries \in Nat /\ MaxPolls \in Nat /\ MaxDeletes \in Nat
    /\ CheckErrorsEvery \in Nat \ {0}

VARIABLES self,     \* the constructor's arguments, and what the class overrides
          created, deleted, restored,    \* attributes of the object
          start_created, end_created, ready, start_deleted, end_deleted,
                    \* its five timestamps; 0 is None
          now,      \* time.time(): a tick per reading
          cloud,    \* the resource in the cloud: "absent", "exists", "deleting"
          frozen,   \* ... is in the state _Freeze leaves it in
          deps,     \* its dependencies exist in the cloud
          pc,       \* next statement of the call under way
          tries, polls,  \* counters of the Retry loops
          deletes,  \* Deletes called so far
          result    \* how the last call ended

attributes == <<created, deleted, restored>>
stamps == <<start_created, end_created, ready, start_deleted, end_deleted, now>>
backend == <<cloud, frozen, deps>>
counters == <<tries, polls, deletes>>
vars == <<self, attributes, stamps, backend, pc, counters, result>>

Options == [origin : Origin,
            user_managed : BOOLEAN,
            enable_freeze_restore : BOOLEAN,
            create_on_restore_error : BOOLEAN,
            delete_on_freeze_error : BOOLEAN,
            retry_on_capacity : BOOLEAN,  \* --retry_on_insufficient_capacity...
            has_exists : BOOLEAN,         \* the class implements _Exists
            has_is_deleting : BOOLEAN]    \* the class implements _IsDeleting

\* __init__; a user-managed resource exists before and after.
Fresh ==
    /\ created = self.user_managed /\ deleted = self.user_managed
    /\ start_created = 0 /\ end_created = 0 /\ ready = 0 /\ now = 1
    /\ cloud = IF self.user_managed THEN "exists" ELSE "absent"
    /\ frozen = FALSE /\ deps = FALSE /\ restored = FALSE

\* The object as BenchmarkSpec.Freeze pickled it after a benchmark and before
\* the resource's own Freeze: created, not deleted, `restored` if that
\* benchmark had restored it; frozen in the cloud since, or expired.
Frozen ==
    /\ ~self.user_managed /\ self.enable_freeze_restore
    /\ created = TRUE /\ deleted = FALSE
    /\ start_created = 1 /\ end_created = 2 /\ ready = 3 /\ now = 4
    /\ cloud \in {"absent", "exists"} /\ frozen = (cloud = "exists")
    /\ deps = (cloud = "exists") /\ restored \in BOOLEAN

Init ==
    /\ self \in Options
    /\ self.origin = "fresh" => Fresh
    /\ self.origin = "frozen" => Frozen
    /\ start_deleted = 0 /\ end_deleted = 0
    /\ pc = "new" /\ result = "none"
    /\ tries = 0 /\ polls = 0 /\ deletes = 0

-----------------------------------------------------------------------------
(***************************************************************************)
(* Steps within a call.                                                    *)
(***************************************************************************)
Goto(label) == pc' = label /\ UNCHANGED result

\* The call ends: with a value, or with an exception.
End(how) == pc' = "idle" /\ result' = how
Raise == End("raised")

\* vm_util.Retry around a function that raised a retryable exception: the
\* loop goes on, or the deadline has passed.
RetryOr(label, n) ==
    \/ n < MaxTries /\ Goto(label)
    \/ Raise

\* time.time()
Tick == now' = now + 1

-----------------------------------------------------------------------------
(***************************************************************************)
(* Faulty variants: bugs this code could have had, one per property.       *)
(***************************************************************************)
\* _CreateResource without its first guard.
CreateStartAlways ==
    /\ pc = "create_resource"
    /\ Goto("create") /\ Tick /\ start_created' = now
    /\ tries' = tries + 1
    /\ UNCHANGED <<self, attributes, end_created, ready, start_deleted,
                   end_deleted, backend, polls, deletes>>

\* A creation that _Exists does not confirm is accepted.
CheckExistsTrusting ==
    /\ pc = "check_exists"
    /\ Goto("wait_running")
    /\ UNCHANGED <<self, attributes, stamps, backend, counters>>

\* A deletion that _Exists refutes is accepted.
CheckGoneTrusting ==
    /\ pc = "check_gone"
    /\ Goto("mark_deleted")
    /\ UNCHANGED <<self, attributes, stamps, backend, counters>>

\* Delete does not look whether the resource is on record.
DeleteStartUnrecorded ==
    /\ pc = "delete_resource"
    /\ IF deleted
       THEN Goto("mark_deleted") /\ UNCHANGED <<start_deleted, now, tries>>
       ELSE /\ Goto("delete") /\ tries' = tries + 1
            /\ IF start_deleted = 0 THEN Tick /\ start_deleted' = now
                                    ELSE UNCHANGED <<start_deleted, now>>
    /\ UNCHANGED <<self, attributes, start_created, end_created, ready,
                   end_deleted, backend, polls, deletes>>

-----------------------------------------------------------------------------
(***************************************************************************)
(* Create(restore).                                                        *)
(***************************************************************************)
\* The first statements of Create.
CreateCalled(restore) ==
    /\ IF self.user_managed
       THEN End("created") \/ Raise               \* _UserManagedSetup
       ELSE Goto(IF restore /\ self.enable_freeze_restore
                 THEN "restore" ELSE "create_dependencies")
    /\ UNCHANGED <<self, attributes, stamps, backend, counters>>

\* Provision creates each object once, one that comes from a restore file
\* with restore=True.
CallCreate(restore) ==
    /\ pc = "new"
    /\ created => restore \/ self.user_managed
    /\ CreateCalled(restore)

\* Restore(): _Restore needs a frozen resource; whatever it raises becomes a
\* RestoreError, which Create swallows only with create_on_restore_error.
Restore ==
    /\ pc = "restore"
    /\ \/ /\ cloud = "exists"
          /\ restored' = TRUE /\ frozen' = FALSE
          /\ Goto("restore_timeout")
       \/ /\ UNCHANGED <<restored, frozen>>
          /\ IF self.create_on_restore_error THEN Goto("create_dependencies")
                                             ELSE Raise
    /\ UNCHANGED <<self, created, deleted, stamps, cloud, deps, counters>>

\* UpdateTimeout, the last statement of Restore and of Freeze: its errors
\* are not RestoreErrors or FreezeErrors.
UpdateTimeout ==
    /\ \/ pc = "restore_timeout" /\ End("created")
       \/ pc = "freeze_timeout" /\ End("frozen")
       \/ pc \in {"restore_timeout", "freeze_timeout"} /\ Raise
    /\ UNCHANGED <<self, attributes, stamps, backend, counters>>

CreateDependencies ==
    /\ pc = "create_dependencies"
    /\ \/ deps' = TRUE /\ Goto("create_resource")
       \/ deps' \in {deps, TRUE} /\ Raise
    /\ UNCHANGED <<self, attributes, stamps, cloud, frozen, counters>>

\* _CreateResource, up to the call of _Create.
CreateStart ==
    /\ pc = "create_resource"
    /\ IF created
       THEN Goto("wait_ready") /\ UNCHANGED <<start_created, now, tries>>
       ELSE /\ Goto("create") /\ Tick /\ start_created' = now
            /\ tries' = tries + 1
    /\ UNCHANGED <<self, attributes, end_created, ready, start_deleted,
                   end_deleted, backend, polls, deletes>>

\* _Create succeeds, fails silently, meets a lack of capacity, or raises with
\* or without having created something.
Create ==
    /\ pc = "create"
    /\ \/ cloud' = "exists" /\ Goto("check_exists")
       \/ cloud' = cloud /\ Goto("check_exists")
       \/ /\ cloud' = cloud
          /\ IF self.retry_on_capacity THEN RetryOr("create_resource", tries)
                                       ELSE Raise
       \/ cloud' \in {cloud, "exists"} /\ Raise
    /\ UNCHANGED <<self, attributes, stamps, frozen, deps, counters>>

CheckExists ==
    /\ pc = "check_exists"
    /\ \/ ~self.has_exists /\ Goto("wait_running")
       \/ self.has_exists /\ cloud = "exists" /\ Goto("wait_running")
       \/ self.has_exists /\ cloud # "exists" /\ RetryOr("create_resource", tries)
       \/ self.has_exists /\ Raise                \* the describe call fails
    /\ UNCHANGED <<self, attributes, stamps, backend, counters>>

WaitUntilRunning ==
    /\ pc = "wait_running"
    /\ \/ Goto("mark_created")
       \/ RetryOr("create_resource", tries)       \* a RetryableCreationError
       \/ Raise
    /\ UNCHANGED <<self, attributes, stamps, backend, counters>>

MarkCreated ==
    /\ pc = "mark_created"
    /\ created' = TRUE
    /\ Tick /\ end_created' = now
    /\ Goto("wait_ready")
    /\ UNCHANGED <<self, deleted, restored, start_created, ready,
                   start_deleted, end_deleted, backend, counters>>

\* _WaitUntilReady: polls _IsReady, looking deeper every N polls.
WaitUntilReady ==
    /\ pc = "wait_ready"
    /\ \/ Goto("post_create") /\ polls' = 0
          /\ IF ready = 0 THEN Tick /\ ready' = now
                          ELSE UNCHANGED <<ready, now>>
       \/ /\ polls < MaxPolls /\ polls' = polls + 1
          /\ \/ Goto("wait_ready")
             \/ (polls + 1) % CheckErrorsEvery = 0 /\ Raise
          /\ UNCHANGED <<ready, now>>
       \/ Raise /\ UNCHANGED <<polls, ready, now>>
    /\ UNCHANGED <<self, attributes, start_created, end_created, start_deleted,
                   end_deleted, backend, tries, deletes>>

PostCreate ==
    /\ pc = "post_create"
    /\ End("created") \/ Raise
    /\ UNCHANGED <<self, attributes, stamps, backend, counters>>

-----------------------------------------------------------------------------
(***************************************************************************)
(* Delete(freeze).                                                         *)
(***************************************************************************)
\* Delete is also called on resources whose Create was never reached.
CallDelete(freeze) ==
    /\ pc \in {"new", "idle"} /\ deletes < MaxDeletes
    /\ deletes' = deletes + 1 /\ tries' = 0 /\ polls' = 0
    /\ IF self.user_managed
       THEN End("deleted")
       ELSE Goto(IF freeze /\ self.enable_freeze_restore
                 THEN "freeze" ELSE "pre_delete")
    /\ UNCHANGED <<self, attributes, stamps, backend>>

Freeze ==
    /\ pc = "freeze"
    /\ \/ /\ cloud = "exists"
          /\ restored' = FALSE /\ frozen' = TRUE
          /\ Goto("freeze_timeout")
       \/ /\ UNCHANGED <<restored, frozen>>
          /\ IF self.delete_on_freeze_error THEN Goto("pre_delete") ELSE Raise
    /\ UNCHANGED <<self, created, deleted, stamps, cloud, deps, counters>>

PreDelete ==
    /\ pc = "pre_delete"
    /\ Goto("delete_resource") \/ Raise
    /\ UNCHANGED <<self, attributes, stamps, backend, counters>>

\* _DeleteResource, up to the call of _Delete.
DeleteStart ==
    /\ pc = "delete_resource"
    /\ IF deleted \/ ~created
       THEN Goto("mark_deleted") /\ UNCHANGED <<start_deleted, now, tries>>
       ELSE /\ Goto("delete") /\ tries' = tries + 1
            /\ IF start_deleted = 0 THEN Tick /\ start_deleted' = now
                                    ELSE UNCHANGED <<start_deleted, now>>
    /\ UNCHANGED <<self, attributes, start_created, end_created, ready,
                   end_deleted, backend, polls, deletes>>

\* _Delete: done at once, done in the background, not done, or an error.
DoDelete ==
    /\ pc = "delete"
    /\ \/ cloud' \in {"absent", cloud} /\ Goto("wait_deleted")
       \/ cloud = "exists" /\ cloud' = "deleting" /\ Goto("wait_deleted")
       \/ cloud' \in {"absent", cloud} /\ Raise
    /\ UNCHANGED <<self, attributes, stamps, frozen, deps, counters>>

\* WaitUntilDeleted: polls _IsDeleting; giving up is an error of its own.
WaitUntilDeleted ==
    /\ pc = "wait_deleted"
    /\ IF self.has_is_deleting /\ cloud = "deleting"
       THEN \/ polls < MaxPolls /\ polls' = polls + 1 /\ Goto("wait_deleted")
            \/ polls' = polls /\ Raise
       ELSE polls' = 0 /\ Goto("check_gone")
    /\ UNCHANGED <<self, attributes, stamps, backend, tries, deletes>>

\* _Exists, where a class has it, is taken to tell the truth or to raise: a
\* provider that answers from an outdated listing is outside this model.
CheckGone ==
    /\ pc = "check_gone"
    /\ \/ ~self.has_exists /\ Goto("mark_deleted")
       \/ self.has_exists /\ cloud = "absent" /\ Goto("mark_deleted")
       \/ self.has_exists /\ cloud # "absent" /\ RetryOr("delete_resource", tries)
       \/ self.has_exists /\ Raise                \* the describe call fails
    /\ UNCHANGED <<self, attributes, stamps, backend, counters>>

MarkDeleted ==
    /\ pc = "mark_deleted"
    /\ deleted' = TRUE
    /\ Tick /\ end_deleted' = now
    /\ Goto("delete_dependencies")
    /\ UNCHANGED <<self, created, restored, start_created, end_created, ready,
                   start_deleted, backend, counters>>

DeleteDependencies ==
    /\ pc = "delete_dependencies"
    /\ \/ deps' = FALSE /\ End("deleted")
       \/ deps' \in {deps, FALSE} /\ Raise
    /\ UNCHANGED <<self, attributes, stamps, cloud, frozen, counters>>

-----------------------------------------------------------------------------
\* A KeyboardInterrupt, between any two statements of a call.
Interrupt ==
    /\ pc \notin {"new", "idle"}
    /\ Raise
    /\ UNCHANGED <<self, attributes, stamps, backend, counters>>

\* The cloud finishes a deletion it was asked for.
BackendDeletes ==
    /\ cloud = "deleting"
    /\ cloud' = "absent"
    /\ UNCHANGED <<self, attributes, stamps, frozen, deps, pc, counters, result>>

CreateStep ==
    \/ \E restore \in BOOLEAN : CallCreate(restore)
    \/ Restore \/ CreateDependencies \/ CreateStart \/ Create \/ CheckExists
    \/ WaitUntilRunning \/ MarkCreated \/ WaitUntilReady \/ PostCreate

DeleteStep ==
    \/ \E freeze \in BOOLEAN : CallDelete(freeze)
    \/ Freeze \/ PreDelete \/ DeleteStart \/ DoDelete \/ WaitUntilDeleted
    \/ CheckGone \/ MarkDeleted \/ DeleteDependencies

Next == CreateStep \/ UpdateTimeout \/ DeleteStep \/ Interrupt \/ BackendDeletes

Spec == Init /\ [][Next]_vars

-----------------------------------------------------------------------------
(***************************************************************************)
(* Properties.                                                             *)
(***************************************************************************)
Labels ==
    {"new", "idle", "restore", "restore_timeout", "create_dependencies",
     "create_resource", "create", "check_exists", "wait_running",
     "mark_created", "wait_ready", "post_create", "freeze", "freeze_timeout",
     "pre_delete", "delete_resource", "delete", "wait_deleted", "check_gone",
     "mark_deleted", "delete_dependencies"}

TypeOK ==
    /\ self \in Options
    /\ created \in BOOLEAN /\ deleted \in BOOLEAN /\ restored \in BOOLEAN
    /\ start_created \in Nat /\ end_created \in Nat /\ ready \in Nat
    /\ start_deleted \in Nat /\ end_deleted \in Nat /\ now \in Nat \ {0}
    /\ cloud \in {"absent", "exists", "deleting"}
    /\ frozen \in BOOLEAN /\ deps \in BOOLEAN
    /\ pc \in Labels
    /\ tries \in Nat /\ polls \in Nat /\ deletes \in Nat
    /\ result \in {"none", "created", "frozen", "deleted", "raised"}

\* A resource whose creation was confirmed and that is marked deleted is gone
\* from the cloud, whatever _Delete failed to do or say on the way: nothing
\* but a negative _Exists lets Delete mark it.
DeletedIsGone ==
    ~self.user_managed /\ self.has_exists /\ created /\ deleted
      => cloud = "absent"

\* GetSamples: a duration for each pair of timestamps that is set.
Interval(metric, start, end) == [metric |-> metric, start |-> start, end |-> end]

GetSamples ==
    {s \in {Interval("Time to Create", start_created, end_created),
            Interval("Time to Ready", start_created, ready),
            Interval("Time to Delete", start_deleted, end_deleted)} :
       s.start # 0 /\ s.end # 0}

\* No negative duration is ever reported, however the calls failed and were
\* repeated: the start of a try is never later than the end it is paired with.
DurationsNotNegative == \A s \in GetSamples : s.start <= s.end

\* What a call leaves behind when it returns.  Create that got as far as
\* _Create: the resource is there and recorded as created, so that a later
\* Delete will remove it.  Delete that froze it: it is there, to be restored,
\* and may still be deleted later.  Delete otherwise: it was marked and its
\* dependencies are gone.
CallOutcome ==
    pc = "idle" /\ ~self.user_managed =>
      /\ result = "created" /\ self.has_exists /\ tries > 0
           => cloud = "exists" /\ created
      /\ result = "frozen" => frozen /\ ~restored /\ cloud = "exists"
      /\ result = "deleted" => deleted /\ ~deps

-----------------------------------------------------------------------------
(***************************************************************************)
(* Resource implements Lifecycle, for the resources BenchmarkRun is about: *)
(* constructed by this process, not user-managed, with an _Exists.  One    *)
(* that is being deleted counts as gone.                                   *)
(***************************************************************************)
Ordinary == self.origin = "fresh" /\ ~self.user_managed /\ self.has_exists

\* The statements of Create; a failed freeze goes on with those of Delete.
InCreate == {"restore", "restore_timeout", "create_dependencies",
             "create_resource", "create", "check_exists", "wait_running",
             "mark_created", "wait_ready", "post_create"}

CallState == CASE pc \in {"new", "idle"} -> "none"
               [] pc \in InCreate -> "create"
               [] OTHER -> "delete"

Life == INSTANCE Lifecycle
          WITH exists <- cloud = "exists", call <- CallState, outcome <- result

\* What Create and Delete leave behind, wherever they fail, are interrupted
\* or called again, is what BenchmarkRun takes them to leave behind: on
\* record only if it is there, untouched by Delete unless on record, marked
\* deleted only if gone.
ImplementsLifecycle ==
    /\ Ordinary => Life!LifeInit
    /\ [][Ordinary => Life!LifeNext]_(Life!lifeVars)
=============================================================================
