------------------------------ MODULE RunsLoop ------------------------------
(***************************************************************************)
(* The encoder of protocol.rs, runs_from_sorted, against RunsOf: the set   *)
(* of maximal runs that the rest of the project, and the proofs, use for   *)
(* its result.                                                             *)
(***************************************************************************)
EXTENDS Runs, Sequences
LOCAL INSTANCE SequencesExt

\* One turn of the loop: an index that directly follows the last run extends
\* it; any other starts a run of its own.
Extend(runs, i) ==
    LET last == runs[Len(runs)] IN
    IF runs # <<>> /\ last[1] + last[2] = i
    THEN [runs EXCEPT ![Len(runs)] = <<last[1], last[2] + 1>>]
    ELSE Append(runs, <<i, 1>>)

\* The loop over the staged chunks in ascending order.
RunsFromSorted(have) == FoldLeft(Extend, <<>>, SetToSortSeq(have, <))

\* bound: the largest chunk index of the sets below
MaxChunk == 6

\* The vector holds exactly the maximal runs of the staged set, each once.  (That
\* runs_contain then decides membership is proved in RunsProofs.)
ASSUME EncodesRuns ==
    \A have \in SUBSET (0..MaxChunk) :
        LET runs == RunsFromSorted(have)
            runSet == {runs[k] : k \in 1..Len(runs)} IN
        /\ runSet = RunsOf(have)
        /\ Cardinality(runSet) = Len(runs)
=============================================================================
