------------------------------ MODULE MCRetries -----------------------------
(***************************************************************************)
(* Retries for TLC: two regions, one with three zones of which one lacks   *)
(* the machine types, one with a single zone.                              *)
(***************************************************************************)
EXTENDS Retries

MCRegionOf == [z \in {"a1", "a2", "a3", "b1"} |-> IF z = "b1" THEN "b" ELSE "a"]

Flag(zone, retries, quota, capacity, stop) ==
    [zone |-> zone, retries |-> retries, quota |-> quota,
     capacity |-> capacity, stop |-> stop, parallel |-> FALSE]

\* Plain retries, stopping at the first failure, each smart retry, both, and
\* zone "any".
AllFlags ==
    {Flag("a1", 1, FALSE, FALSE, FALSE), Flag("a1", 1, FALSE, FALSE, TRUE),
     Flag("a1", 3, FALSE, TRUE, FALSE), Flag("a2", 3, TRUE, FALSE, FALSE),
     Flag("a1", 3, TRUE, TRUE, FALSE), Flag("any", 0, FALSE, FALSE, FALSE)}
InParallel == {[Flag("a1", 2, FALSE, capacity, stop) EXCEPT !.parallel = TRUE] :
                 capacity, stop \in BOOLEAN}
SeriesAndParallel == AllFlags \cup InParallel
=============================================================================
