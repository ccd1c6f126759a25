-------------------------- MODULE MCStreamTransfer --------------------------
(***************************************************************************)
(* Payloads for model-checking StreamTransfer.  a and b are two payloads   *)
(* of two chunks with the same name that differ in both chunks, b's being  *)
(* alike; e is an empty file.                                              *)
(***************************************************************************)
EXTENDS StreamTransferInv, RunsLoop

CONSTANTS a, b, e, x, y, z, zero

MCSize == [s \in Source |-> IF s = e THEN 0 ELSE 2]
MCBlocks == {x, y, z, zero}
MCContent ==
    [s \in Source |-> [i \in 0..(MCSize[s] - 1) |->
        IF s = b THEN y ELSE IF i = 0 THEN x ELSE z]]

\* Every payload has its own metadata.
MCTid == [s \in Source |-> s]

\* Every payload has the same name, size and modification second.
MCSameTid == [s \in Source |-> a]

MCBuilds == {OurBuild}
MCOtherBuilds == {OurBuild, [version |-> 2, chunk_size |-> 1],
                  [version |-> 1, chunk_size |-> 2]}
=============================================================================
