----------------------------- MODULE FifoQueue -----------------------------
(***************************************************************************)
(* What background_tasks.py promises of its two queues                     *)
(* (_SingleReaderQueue, _NonPollingSingleReaderQueue): "multiple threads   *)
(* write but only one thread reads", items come out once each and in the   *)
(* order they went in, and a reader that waits while items are there is    *)
(* served.  How the reader is woken (polling or a lock) is not visible.    *)
(***************************************************************************)
EXTENDS Sequences

CONSTANT Item        \* what the writers put

VARIABLES contents,  \* items written and not yet taken
          reader     \* "idle" | "waiting" | "served": the one reader's call

fifoVars == <<contents, reader>>

FifoInit == contents = << >> /\ reader = "idle"

\* Put(item): never blocks.
Write(item) ==
    /\ contents' = Append(contents, item)
    /\ UNCHANGED reader

\* Get() is called ...
CallGet ==
    /\ reader = "idle"
    /\ reader' = "waiting"
    /\ UNCHANGED contents

\* ... takes the oldest item ...
Take ==
    /\ reader = "waiting" /\ contents # << >>
    /\ reader' = "served"
    /\ contents' = Tail(contents)

\* ... and returns it.
Return ==
    /\ reader = "served"
    /\ reader' = "idle"
    /\ UNCHANGED contents

FifoNext == (\E item \in Item : Write(item)) \/ CallGet \/ Take \/ Return

FifoSafety == FifoInit /\ [][FifoNext]_fifoVars

\* A waiting reader is served once an item is there, and its call returns.
FifoSpec == FifoSafety /\ WF_fifoVars(Take) /\ WF_fifoVars(Return)
=============================================================================
