----------------------------- MODULE MCRunPhase -----------------------------
(***************************************************************************)
(* RunPhase for TLC: a publisher of each kind, in the order of             *)
(* _PublishersFromFlags, so that the second can fail when the first has    *)
(* the samples, and as many as three runs.                                 *)
(***************************************************************************)
EXTENDS RunPhase

Option(time, iterations, retries, after, period) ==
    [time |-> time, iterations |-> iterations, retries |-> retries,
     publish_after_run |-> after, publish_period |-> period]

MCOptions ==
    {Option(FALSE, iterations, retries, after, period) :
       iterations \in 1..3, retries \in 0..2, after, period \in BOOLEAN}
    \cup {Option(TRUE, 0, retries, TRUE, TRUE) : retries \in 0..2}

MCKind == <<"append", "overwrite", "silent">>
OneKind == <<"append">>

OneRetry == {Option(FALSE, 1, 1, FALSE, FALSE)}
=============================================================================
