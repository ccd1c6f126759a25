-------------------------------- MODULE Runs --------------------------------
(***************************************************************************)
(* The run-length form in which a manifest ack reports the chunks that are *)
(* already staged (protocol.rs: runs_from_sorted, runs_contain).           *)
(*                                                                         *)
(* A run is a pair <<start, len>>.  RunsOf(h) is the set of runs the       *)
(* encoder produces for the staged set h; RunsContain is the decoder's     *)
(* membership test.  The loop of the encoder itself is in RunsLoop, where  *)
(* TLC compares it with RunsOf.                                            *)
(***************************************************************************)
EXTENDS Integers, FiniteSets

\* The maximal runs of consecutive indices of the set h: what
\* runs_from_sorted returns for the sorted elements of h.
RunsOf(h) ==
    {r \in h \X (1..Cardinality(h)) :
        /\ r[1]..(r[1] + r[2] - 1) \subseteq h
        /\ r[1] - 1 \notin h
        /\ r[1] + r[2] \notin h}

\* Wrong variant: the end of a run counts as inside.
ClosedRunsContain(runs, i) == \E r \in runs : i >= r[1] /\ i <= r[1] + r[2]
\* runs_contain: is chunk i inside one of the runs?
RunsContain(runs, i) == \E r \in runs : i >= r[1] /\ i < r[1] + r[2]
=============================================================================
