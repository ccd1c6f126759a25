------------------------ MODULE StreamTransferProofs ------------------------
(***************************************************************************)
(* Proofs about StreamTransfer for every set of payloads, every bound on   *)
(* the faults and every combination of flags: StreamInv is an invariant,   *)
(* and with it the safety properties of the module.                        *)
(***************************************************************************)
EXTENDS StreamTransferInv, RunsProofs

-----------------------------------------------------------------------------
(* Queues.                                                                 *)

\* Taking the head off a queue.
LEMMA TailFacts ==
    ASSUME NEW S, NEW q \in Seq(S), q # <<>>
    PROVE  /\ Head(q) \in S /\ Head(q) = q[1]
           /\ Tail(q) \in Seq(S) /\ Len(Tail(q)) = Len(q) - 1
           /\ Len(q) \in Nat /\ Len(q) >= 1
           /\ \A k \in 1..(Len(q) - 1) : Tail(q)[k] = q[k + 1]
  OBVIOUS

\* What is left of a queue when its end goes away.
LEMMA PrefixFacts ==
    ASSUME NEW S, NEW q \in Seq(S), NEW p \in Prefixes(q)
    PROVE  /\ p \in Seq(S) /\ Len(p) \in 0..Len(q)
           /\ \A k \in 1..Len(p) : p[k] = q[k]
<1>1. PICK n \in 0..Len(q) : p = SubSeq(q, 1, n)
  BY DEF Prefixes
<1> QED BY <1>1

\* What is left of a queue when its end goes away without flushing.
LEMMA CutFacts ==
    ASSUME NEW S, NEW q \in Seq(S), NEW p \in Cut(q)
    PROVE  /\ p \in Seq(S) /\ Len(p) \in 0..Len(q)
           /\ \A k \in 1..Len(p) : p[k] = q[k]
<1>1. CASE p = q
  BY <1>1
<1>2. CASE p \in Prefixes(q)
  BY <1>2, PrefixFacts
<1> QED BY <1>1, <1>2 DEF Cut

\* Sending a frame.
LEMMA PushFacts ==
    ASSUME NEW S, NEW q \in Seq(S), NEW f \in S
    PROVE  /\ Push(q, f) \in Seq(S)
           /\ link # "up" => Push(q, f) = q
           /\ link = "up" =>
                 /\ Push(q, f) = Append(q, f)
                 /\ Len(Push(q, f)) = Len(q) + 1
                 /\ \A k \in 1..Len(q) : Push(q, f)[k] = q[k]
                 /\ Push(q, f)[Len(q) + 1] = f
  BY DEF Push

-----------------------------------------------------------------------------
(* Types.                                                                  *)

\* stream_manifest yields a well-formed manifest frame.
LEMMA ManifestType ==
    ASSUME NEW job \in Source \cup {TextJob}, NEW build \in Builds \cup {OurBuild}
    PROVE  /\ Manifest(job, build) \in ManifestSet
           /\ Frame(0, Manifest(job, build)) \in ToReceiver
  BY SourceAssumption, FlagAssumption
     DEF Manifest, ManifestSet, OurBuild, Frame, ToReceiver

\* Payloads, their sizes and their chunks.
LEMMA ContentType ==
    ASSUME NEW s \in Source
    PROVE  /\ Content[s] \in Payloads
           /\ Size[s] \in Nat
           /\ \A i \in 0..(Size[s] - 1) : Content[s][i] \in Block
  BY SourceAssumption DEF Payloads, Chunks

\* A chunk or commit frame is well formed.
LEMMA ChunkFrameType ==
    ASSUME NEW n \in Nat \ {0}, NEW body \in Block \cup Payloads
    PROVE  Frame(n, body) \in ToReceiver
  BY DEF Frame, ToReceiver

\* A manifest ack is well formed.
LEMMA AckType ==
    ASSUME NEW c \in BOOLEAN, NEW d \in BOOLEAN, NEW runs \in SUBSET (Nat \X Nat)
    PROVE  /\ ManifestAck(c, d, runs) \in AckSet
           /\ Frame(0, ManifestAck(c, d, runs)) \in ToSender
  BY DEF ManifestAck, AckSet, Frame, ToSender

\* A commit ack is well formed.
LEMMA CommitAckType ==
    ASSUME NEW b \in BOOLEAN
    PROVE  Frame(1, b) \in ToSender
  BY DEF Frame, ToSender

\* What the frames of the two queues carry.
LEMMA FrameTypes ==
    /\ \A f \in ToReceiver : f.idx \in Nat /\ (f.idx = 0 => f.body \in ManifestSet)
    /\ \A f \in ToSender : /\ f.idx \in {0, 1}
                           /\ f.idx = 0 => f.body \in AckSet
                           /\ f.idx = 1 => f.body \in BOOLEAN
  BY DEF ToReceiver, ToSender

\* Counting a fault keeps the counters' type.
LEMMA LoseType ==
    ASSUME TypeOK, NEW k \in FaultKinds, Lose(k)
    PROVE  faults' \in [FaultKinds -> Nat]
  BY DEF TypeOK, Lose

\* A sender that leaves early keeps the types.
LEMMA SenderLeavesType ==
    ASSUME TypeOK, faults' \in [FaultKinds -> Nat],
           NEW res \in {"BadFrame", "Declined", "ReadError", "NotFinalized",
                        "Lost", "Killed"},
           SenderLeaves(res)
    PROVE  TypeOK'
<1>1. toR' \in Seq(ToReceiver)
  BY CutFacts DEF TypeOK, SenderLeaves
<1> QED BY <1>1 DEF TypeOK, SenderLeaves, rvars, dvars

\* A sender that is done keeps the types.
LEMMA SenderDoneType ==
    ASSUME TypeOK, faults' \in [FaultKinds -> Nat], SenderDone
    PROVE  TypeOK'
  BY DEF TypeOK, SenderDone, rvars, dvars

\* What is staged is finite and inside the payload, so that the ack that
\* reports it is well formed.
LEMMA HaveFinite ==
    ASSUME TypeOK, HaveInv, rpc \in Staging
    PROVE  IsFiniteSet(rhave) /\ RunsOf(rhave) \in SUBSET (Nat \X Nat)
<1>1. rman.size \in Nat /\ rhave \in SUBSET Nat
  BY DEF TypeOK, ManifestSet
<1>2. rhave \in SUBSET (0..(rman.size - 1)) /\ IsFiniteSet(0..(rman.size - 1))
  BY <1>1, FS_Interval DEF HaveInv
<1>3. IsFiniteSet(rhave)
  BY <1>2, FS_Subset
<1> QED BY <1>1, <1>3, RunsType

\* send_source keeps the types.
LEMMA SenderTypeStep ==
    ASSUME TypeOK, JobInv, SenderSteps
    PROVE  TypeOK'
<1> USE DEF rvars, dvars, chan
<1>1. CASE SendManifest
  BY <1>1, ManifestType, PushFacts DEF SendManifest, TypeOK
<1>2. CASE RecvAck
  <2>1. faults' \in [FaultKinds -> Nat]
    BY <1>2 DEF RecvAck, TypeOK
  <2>2. Head(toS) \in ToSender /\ Tail(toS) \in Seq(ToSender)
    BY <1>2, TailFacts DEF RecvAck, TypeOK
  <2>3. CASE SenderLeaves("BadFrame") \/ SenderLeaves("Declined")
    BY <2>1, <2>3, SenderLeavesType
  <2>4. CASE SenderDone
    BY <2>1, <2>4, SenderDoneType
  <2>5. CASE /\ Head(toS).idx = 0
             /\ spc' = "Payload" /\ sack' = Head(toS).body /\ si' = 0
             /\ toS' = Tail(toS)
             /\ UNCHANGED <<file, sjob, sbuild, scommit, sres,
                            link, toR, rvars, dvars>>
    BY <2>1, <2>2, <2>5, FrameTypes DEF TypeOK
  <2> QED BY <1>2, <2>3, <2>4, <2>5 DEF RecvAck
<1>3. CASE SkipChunk
  BY <1>3 DEF SkipChunk, TypeOK
<1>4. CASE SendChunk
  <2>1. faults' \in [FaultKinds -> Nat]
    BY <1>4 DEF SendChunk, TypeOK
  <2>2. CASE SenderLeaves("ReadError")
    BY <2>1, <2>2, SenderLeavesType
  <2>3. CASE /\ si < Size[Readable]
             /\ toR' = Push(toR, Frame(1 + si, Content[Readable][si]))
             /\ si' = si + 1
             /\ UNCHANGED <<file, spc, sjob, sbuild, sack, scommit, sres,
                            link, toS, rvars, dvars>>
    <3>1. Readable \in Source
      BY <1>4 DEF SendChunk, Readable, TypeOK, JobInv
    <3>2. si \in 0..(Size[Readable] - 1) /\ 1 + si \in Nat \ {0}
      BY <2>3, <3>1, ContentType DEF TypeOK
    <3>3. Content[Readable][si] \in Block
      BY <3>1, <3>2, ContentType
    <3>4. Frame(1 + si, Content[Readable][si]) \in ToReceiver
      BY <3>2, <3>3, ChunkFrameType
    <3> QED BY <2>1, <2>3, <3>4, PushFacts DEF TypeOK
  <2> QED BY <1>4, <2>2, <2>3 DEF SendChunk
<1>5. CASE SendCommit
  <2>1. Readable \in Source /\ Size[sjob] \in Nat
    BY <1>5, ContentType DEF SendCommit, Readable, TypeOK, JobInv
  <2>2. Content[Readable] \in Payloads
    BY <2>1, ContentType
  <2>3. Frame(1 + Size[sjob], Content[Readable]) \in ToReceiver
    BY <2>1, <2>2, ChunkFrameType
  <2> QED BY <1>5, <2>2, <2>3, PushFacts DEF SendCommit, TypeOK
<1>6. CASE RecvCommitAck
  <2>1. faults' \in [FaultKinds -> Nat]
    BY <1>6 DEF RecvCommitAck, TypeOK
  <2>2. SenderDone \/ SenderLeaves("BadFrame") \/ SenderLeaves("NotFinalized")
    BY <1>6 DEF RecvCommitAck
  <2> QED BY <2>1, <2>2, SenderLeavesType, SenderDoneType
<1>7. CASE SenderLost
  <2>1. faults' \in [FaultKinds -> Nat] /\ SenderLeaves("Lost")
    BY <1>7 DEF SenderLost, TypeOK
  <2> QED BY <2>1, SenderLeavesType
<1> QED BY <1>1, <1>2, <1>3, <1>4, <1>5, <1>6, <1>7 DEF SenderSteps

\* recv_into, the store and finalize keep the types.
LEMMA ReceiverTypeStep ==
    ASSUME TypeOK, HaveInv, ReceiverSteps
    PROVE  TypeOK'
<1> USE DEF svars, dvars, chan
<1>1. CASE RecvManifest
  <2>1. Head(toR) \in ToReceiver /\ Tail(toR) \in Seq(ToReceiver)
    BY <1>1, TailFacts DEF RecvManifest, TypeOK
  <2>2. CASE Head(toR).idx # 0
    BY <1>1, <2>2, CutFacts DEF RecvManifest, ReceiverExits, TypeOK
  <2>3. CASE Head(toR).idx = 0
    <3>1. rman' \in ManifestSet
      BY <1>1, <2>1, <2>3, FrameTypes DEF RecvManifest
    <3>2. rpc' \in {"Decline", "AckText", "Open"}
      BY <1>1, <2>3 DEF RecvManifest
    <3>3. toR' = Tail(toR) /\ UNCHANGED <<link, toS, svars, rhave, rskip, ri, rok, dvars, faults>>
      BY <1>1, <2>3 DEF RecvManifest
    <3> QED BY <2>1, <3>1, <3>2, <3>3 DEF TypeOK
  <2> QED BY <2>2, <2>3
<1>2. CASE SendDecline
  <2>1. Push(toS, Frame(0, Decline)) \in Seq(ToSender)
    BY PushFacts, AckType DEF TypeOK, Decline
  <2>2. toS' \in Seq(ToSender)
    BY <1>2, <2>1, CutFacts DEF SendDecline
  <2> QED BY <1>2, <2>2 DEF SendDecline, TypeOK
<1>3. CASE SendAckText
  <2>1. toS' \in Seq(ToSender)
    BY <1>3, PushFacts, AckType DEF SendAckText, TypeOK
  <2>2. /\ rpc' = "Linger"
        /\ UNCHANGED <<svars, link, toR, rman, rhave, rskip, ri, rok, dvars, faults>>
    BY <1>3 DEF SendAckText
  <2> QED BY <2>1, <2>2 DEF TypeOK
<1>4. CASE OpenStore
  BY <1>4 DEF OpenStore, Reusable, TypeOK
<1>5. CASE PersistOpen
  BY <1>5 DEF PersistOpen, TypeOK, Staged, ManifestSet
<1>6. CASE SendAck
  <2>1. IsComplete \in BOOLEAN /\ RunsOf(rhave) \in SUBSET (Nat \X Nat)
    BY <1>6, HaveFinite DEF IsComplete, SendAck, Staging
  <2>2. toS' \in Seq(ToSender)
    BY <1>6, <2>1, PushFacts, AckType DEF SendAck, TypeOK
  <2>3. /\ rpc' = "Recv" /\ ri' = 0
        /\ UNCHANGED <<svars, link, toR, rman, rhave, rskip, rok, dvars, faults>>
    BY <1>6 DEF SendAck
  <2> QED BY <2>2, <2>3 DEF TypeOK
<1>7. CASE RecvSkip
  BY <1>7 DEF RecvSkip, TypeOK
<1>8. CASE RecvChunk
  <2>1. Tail(toR) \in Seq(ToReceiver)
    BY <1>8, TailFacts DEF RecvChunk, TypeOK
  <2>2. toR' \in Seq(ToReceiver) /\ toS' \in Seq(ToSender)
    <3>1. CASE ReceiverExits
      BY <3>1, CutFacts DEF ReceiverExits, TypeOK
    <3>2. CASE toR' = Tail(toR) /\ UNCHANGED toS
      BY <3>2, <2>1 DEF TypeOK
    <3> QED BY <1>8, <3>1, <3>2 DEF RecvChunk
  <2> QED BY <1>8, <2>2 DEF RecvChunk, ReceiverExits, TypeOK
<1>9. CASE PersistChunk
  BY <1>9 DEF PersistChunk, TypeOK, Staged, ManifestSet
<1>10. CASE RecvCommit
  <2>1. Tail(toR) \in Seq(ToReceiver)
    BY <1>10, TailFacts DEF RecvCommit, TypeOK
  <2>2. toR' \in Seq(ToReceiver) /\ toS' \in Seq(ToSender)
    <3>1. CASE ReceiverExits
      BY <3>1, CutFacts DEF ReceiverExits, TypeOK
    <3>2. CASE toR' = Tail(toR) /\ UNCHANGED toS
      BY <3>2, <2>1 DEF TypeOK
    <3> QED BY <1>10, <3>1, <3>2 DEF RecvCommit
  <2>3. rok' \in BOOLEAN
    BY <1>10 DEF RecvCommit, Verified, TypeOK
  <2> QED BY <1>10, <2>2, <2>3 DEF RecvCommit, ReceiverExits, TypeOK
<1>11. CASE Install
  BY <1>11 DEF Install, TypeOK
<1>12. CASE Unpacked
  BY <1>12 DEF Unpacked, TypeOK
<1>13. CASE RemoveStaging
  BY <1>13 DEF RemoveStaging, TypeOK
<1>14. CASE SendCommitAck
  <2>1. Push(toS, Frame(1, rok)) \in Seq(ToSender)
    BY PushFacts, CommitAckType DEF TypeOK
  <2>2. toS' \in Seq(ToSender)
    BY <1>14, <2>1, CutFacts DEF SendCommitAck
  <2>3. /\ rpc' \in {"Linger", "Exited"}
        /\ link' = link \/ link' = "down"
        /\ toR' = toR \/ toR' = <<>>
        /\ UNCHANGED <<svars, rman, rhave, rskip, ri, rok, dvars, faults>>
    BY <1>14 DEF SendCommitAck
  <2>4. toR' \in Seq(ToReceiver) /\ link' \in {"up", "down"}
    <3>1. toR \in Seq(ToReceiver) /\ link \in {"up", "down"}
      BY DEF TypeOK
    <3>2. <<>> \in Seq(ToReceiver)
      OBVIOUS
    <3> QED BY <2>3, <3>1, <3>2
  <2>5. rpc' \in {"Linger", "Exited"}
    BY <2>3
  <2>6. UNCHANGED <<svars, rman, rhave, rskip, ri, rok, dvars, faults>>
    BY <2>3
  <2> QED BY <2>2, <2>4, <2>5, <2>6 DEF TypeOK
<1>15. CASE LingerEnd
  BY <1>15 DEF LingerEnd, TypeOK
<1>16. CASE ReceiverLost
  BY <1>16 DEF ReceiverLost, TypeOK
<1> QED BY <1>1, <1>2, <1>3, <1>4, <1>5, <1>6, <1>7, <1>8, <1>9, <1>10, <1>11,
           <1>12, <1>13, <1>14, <1>15, <1>16 DEF ReceiverSteps

\* The channel, the users and the faults keep the types.
LEMMA OtherTypeStep ==
    ASSUME TypeOK, Connect \/ UserSteps \/ Faults
    PROVE  TypeOK'
<1> USE DEF svars, rvars, dvars, chan
<1>1. CASE Connect
  BY <1>1 DEF Connect, TypeOK
<1>2. CASE StartBlob
  BY <1>2 DEF StartBlob, SendStart, TypeOK
<1>3. CASE StartText
  BY <1>3 DEF StartText, SendStart, TypeOK
<1>4. CASE ReceiveStart
  BY <1>4 DEF ReceiveStart, TypeOK
<1>5. CASE Disconnect
  <2>1. faults' \in [FaultKinds -> Nat]
    BY <1>5, LoseType DEF Disconnect, FaultKinds
  <2>2. toR' \in Seq(ToReceiver) /\ toS' \in Seq(ToSender)
    BY <1>5, PrefixFacts DEF Disconnect, TypeOK
  <2> QED BY <1>5, <2>1, <2>2 DEF Disconnect, TypeOK
<1>6. CASE SenderKilled
  <2>1. faults' \in [FaultKinds -> Nat] /\ SenderLeaves("Killed")
    BY <1>6, LoseType DEF SenderKilled, FaultKinds
  <2> QED BY <2>1, SenderLeavesType
<1>7. CASE ReceiverCrash
  <2>1. faults' \in [FaultKinds -> Nat]
    BY <1>7, LoseType DEF ReceiverCrash, FaultKinds
  <2>2. toR' \in Seq(ToReceiver) /\ toS' \in Seq(ToSender)
    BY <1>7, CutFacts DEF ReceiverCrash, ReceiverExits, TypeOK
  <2> QED BY <1>7, <2>1, <2>2 DEF ReceiverCrash, ReceiverExits, TypeOK
<1>8. CASE FinalizeFails
  <2>1. faults' \in [FaultKinds -> Nat]
    BY <1>8, LoseType DEF FinalizeFails, FaultKinds
  <2>2. rok' \in BOOLEAN /\ rpc' = "CommitAck"
    BY <1>8 DEF FinalizeFails
  <2>3. UNCHANGED <<svars, chan, rman, rhave, rskip, ri, dvars>>
    BY <1>8 DEF FinalizeFails
  <2> QED BY <2>1, <2>2, <2>3 DEF TypeOK
<1>9. ASSUME NEW s \in Source, PickSource(s) \/ EditDuringSend(s) PROVE TypeOK'
  <2>1. faults' \in [FaultKinds -> Nat]
    BY <1>9, LoseType DEF PickSource, EditDuringSend, FaultKinds
  <2> QED BY <1>9, <2>1 DEF PickSource, EditDuringSend, TypeOK
<1> QED BY <1>1, <1>2, <1>3, <1>4, <1>5, <1>6, <1>7, <1>8, <1>9
        DEF UserSteps, Faults

-----------------------------------------------------------------------------
(* What is staged, and the sender's job.                                   *)

\* Every step preserves JobInv.
LEMMA JobStep ==
    ASSUME TypeOK, JobInv, Next
    PROVE  JobInv'
<1>1. CASE SenderSteps
  BY <1>1, SourceAssumption
     DEF TypeOK, JobInv, SenderSteps, SendManifest, RecvAck, SkipChunk, SendChunk,
         SendCommit, RecvCommitAck, SenderLost, SenderLeaves, SenderDone
<1>2. CASE ReceiverSteps
  BY <1>2
     DEF JobInv, ReceiverSteps, RecvManifest, SendDecline, SendAckText, OpenStore,
         PersistOpen, SendAck, RecvSkip, RecvChunk, PersistChunk, RecvCommit, Install,
         Unpacked, RemoveStaging, SendCommitAck, LingerEnd, ReceiverLost, svars
<1>3. CASE Connect \/ UserSteps \/ Faults
  BY <1>3
     DEF JobInv, Connect, UserSteps, StartBlob, StartText, SendStart, ReceiveStart,
         Faults, Disconnect, SenderKilled, SenderLeaves, ReceiverCrash,
         FinalizeFails, PickSource, EditDuringSend, svars
<1> QED BY <1>1, <1>2, <1>3 DEF Next

\* Every step preserves HaveInv.
LEMMA HaveStep ==
    ASSUME TypeOK, HaveInv, Next
    PROVE  HaveInv'
<1> USE DEF HaveInv, Staging, InLoop
<1>1. CASE SenderSteps
  BY <1>1
     DEF SenderSteps, SendManifest, RecvAck, SkipChunk, SendChunk, SendCommit,
         RecvCommitAck, SenderLost, SenderLeaves, SenderDone, rvars, dvars
<1>2. CASE OpenStore
  BY <1>2 DEF OpenStore, Reusable
<1>3. CASE PersistOpen
  BY <1>3 DEF PersistOpen, Staged
<1>4. CASE SendAck
  BY <1>4 DEF SendAck, dvars, TypeOK, ManifestSet
<1>5. CASE RecvSkip
  BY <1>5 DEF RecvSkip, dvars, TypeOK, ManifestSet
<1>6. CASE RecvChunk
  BY <1>6 DEF RecvChunk, ReceiverExits, TypeOK, ManifestSet
<1>7. CASE PersistChunk
  BY <1>7 DEF PersistChunk, Staged, TypeOK, ManifestSet
<1>8. CASE RecvManifest \/ RecvCommit
  BY <1>8 DEF RecvManifest, RecvCommit, ReceiverExits, dvars
<1>9. CASE SendDecline \/ SendAckText \/ Install \/ Unpacked \/ RemoveStaging
              \/ SendCommitAck \/ LingerEnd \/ ReceiverLost
  BY <1>9 DEF SendDecline, SendAckText, Install, Unpacked, RemoveStaging,
              SendCommitAck, LingerEnd, ReceiverLost, dvars
<1>10. CASE Connect \/ UserSteps \/ Faults
  BY <1>10
     DEF Connect, UserSteps, StartBlob, StartText, SendStart, ReceiveStart,
         Faults, Disconnect, SenderKilled, SenderLeaves, ReceiverCrash, ReceiverExits,
         FinalizeFails, PickSource, EditDuringSend, rvars, dvars
<1> QED BY <1>1, <1>2, <1>3, <1>4, <1>5, <1>6, <1>7, <1>8, <1>9, <1>10
        DEF Next, ReceiverSteps

-----------------------------------------------------------------------------
(* The connection.                                                         *)

\* Every step preserves LinkInv.
LEMMA LinkStep ==
    ASSUME TypeOK, LinkInv, Next
    PROVE  LinkInv'
<1> USE DEF LinkInv, SenderOnChannel, ReceiverOnChannel
<1>1. CASE SenderSteps
  BY <1>1
     DEF SenderSteps, SendManifest, RecvAck, SkipChunk, SendChunk, SendCommit,
         RecvCommitAck, SenderLost, SenderLeaves, SenderDone, rvars, chan
<1>2. CASE ReceiverSteps
  BY <1>2
     DEF ReceiverSteps, RecvManifest, SendDecline, SendAckText, OpenStore,
         PersistOpen, SendAck, RecvSkip, RecvChunk, PersistChunk, RecvCommit, Install,
         Unpacked, RemoveStaging, SendCommitAck, LingerEnd, ReceiverLost,
         ReceiverExits, svars, chan
<1>3. CASE Connect \/ UserSteps \/ Faults
  BY <1>3
     DEF Connect, UserSteps, StartBlob, StartText, SendStart, ReceiveStart,
         Faults, Disconnect, SenderKilled, SenderLeaves, ReceiverCrash, ReceiverExits,
         FinalizeFails, PickSource, EditDuringSend, svars, rvars, chan
<1> QED BY <1>1, <1>2, <1>3 DEF Next

\* Every step preserves KindInv.
LEMMA KindStep ==
    ASSUME TypeOK, KindInv, Next
    PROVE  KindInv'
<1> USE DEF KindInv
<1>1. CASE SenderSteps
  BY <1>1
     DEF SenderSteps, SendManifest, RecvAck, SkipChunk, SendChunk, SendCommit,
         RecvCommitAck, SenderLost, SenderLeaves, SenderDone, rvars
<1>2. CASE ReceiverSteps
  BY <1>2
     DEF ReceiverSteps, RecvManifest, SendDecline, SendAckText, OpenStore,
         PersistOpen, SendAck, RecvSkip, RecvChunk, PersistChunk, RecvCommit, Install,
         Unpacked, RemoveStaging, SendCommitAck, LingerEnd, ReceiverLost, ReceiverExits
<1>3. CASE Connect \/ UserSteps \/ Faults
  BY <1>3
     DEF Connect, UserSteps, StartBlob, StartText, SendStart, ReceiveStart,
         Faults, Disconnect, SenderKilled, SenderLeaves, ReceiverCrash, ReceiverExits,
         FinalizeFails, PickSource, EditDuringSend, rvars
<1> QED BY <1>1, <1>2, <1>3 DEF Next

\* The replies: each end only ever has the one it waits for.
LEMMA ReplyStep ==
    ASSUME TypeOK, LinkInv, ReplyInv, SessionInv, Next
    PROVE  ReplyInv'
<1> USE DEF ReplyInv
<1>1. CASE SenderSteps
  BY <1>1, TailFacts
     DEF SenderSteps, SendManifest, RecvAck, SkipChunk, SendChunk, SendCommit,
         RecvCommitAck, SenderLost, SenderLeaves, SenderDone, chan, TypeOK
<1>2. CASE SendDecline
  <2> DEFINE q == Push(toS, Frame(0, Decline))
  <2>1. CASE link # "up"
    BY <1>2, <2>1 DEF SendDecline, Push, Cut, svars
  <2>2. CASE link = "up" /\ spc = "AwaitAck"
    <3>1. toS = <<>>
      BY <1>2, <2>2 DEF SendDecline, SessionInv, AckPhase
    <3>2. q \in Seq(ToSender) /\ Len(q) = 1 /\ q[1].idx = 0
      <4>1. PICK f \in ToSender : f = Frame(0, Decline)
        BY AckType DEF Decline
      <4>2. f.idx = 0
        BY <4>1 DEF Frame
      <4>3. Push(toS, f) = <<f>>
        BY <2>2, <3>1 DEF Push
      <4>4. q = <<f>>
        BY <4>1, <4>3
      <4> HIDE DEF q
      <4> QED BY <4>2, <4>4
    <3>3. toS' \in Cut(q) /\ spc' = spc
      BY <1>2 DEF SendDecline, svars
    <3>4. Len(toS') \in 0..1 /\ \A k \in 1..Len(toS') : toS'[k] = q[k]
      BY <3>2, <3>3, CutFacts
    <3> HIDE DEF q
    <3> QED BY <2>2, <3>2, <3>3, <3>4
  <2>3. link = "up" => spc = "AwaitAck"
    BY <1>2 DEF SendDecline, SessionInv, PayloadPhase, CommitPhase, LinkInv,
                SenderOnChannel, TypeOK, InLoop, BeforeAck
  <2> QED BY <2>1, <2>2, <2>3
<1>3. CASE SendAckText
  <2>1. link = "up" => spc = "AwaitAck" /\ toS = <<>>
    BY <1>3 DEF SendAckText, SessionInv, AckPhase, PayloadPhase, CommitPhase, LinkInv,
                SenderOnChannel, TypeOK, InLoop, BeforeAck
  <2> QED BY <1>3, <2>1 DEF SendAckText, Push, Frame, svars
<1>4. CASE SendAck
  <2>1. link = "up" => spc = "AwaitAck" /\ toS = <<>>
    BY <1>4 DEF SendAck, SessionInv, AckPhase, PayloadPhase, CommitPhase, LinkInv,
                SenderOnChannel, TypeOK, InLoop, BeforeAck
  <2> QED BY <1>4, <2>1 DEF SendAck, Push, Frame, svars
<1>5. CASE SendCommitAck
  <2> DEFINE q == Push(toS, Frame(1, rok))
  <2>1. link = "up" => spc = "AwaitCommitAck" /\ toS = <<>>
    BY <1>5 DEF SendCommitAck, SessionInv, AckPhase, PayloadPhase, CommitPhase, LinkInv,
                SenderOnChannel, TypeOK, InLoop, BeforeAck
  <2>2. CASE link # "up"
    BY <1>5, <2>2 DEF SendCommitAck, Push, Cut, svars
  <2>3. CASE link = "up"
    <3>1. q \in Seq(ToSender) /\ Len(q) = 1 /\ q[1].idx = 1
      <4>1. PICK f \in ToSender : f = Frame(1, rok)
        BY CommitAckType DEF TypeOK
      <4>2. f.idx = 1
        BY <4>1 DEF Frame
      <4>3. Push(toS, f) = <<f>>
        BY <2>1, <2>3 DEF Push
      <4>4. q = <<f>>
        BY <4>1, <4>3
      <4> HIDE DEF q
      <4> QED BY <4>2, <4>4
    <3>2. (toS' = q \/ toS' \in Cut(q)) /\ spc' = spc
      BY <1>5 DEF SendCommitAck, svars
    <3>3. Len(toS') \in 0..1 /\ \A k \in 1..Len(toS') : toS'[k] = q[k]
      BY <3>1, <3>2, CutFacts
    <3> HIDE DEF q
    <3> QED BY <2>1, <2>3, <3>1, <3>2, <3>3
  <2> QED BY <2>2, <2>3
<1>6. CASE RecvManifest \/ RecvChunk \/ RecvCommit \/ ReceiverCrash
  <2>1. toS' = toS \/ toS' \in Cut(toS)
    BY <1>6 DEF RecvManifest, RecvChunk, RecvCommit, ReceiverCrash, ReceiverExits
  <2>2. Len(toS') \in 0..Len(toS) /\ \A k \in 1..Len(toS') : toS'[k] = toS[k]
    BY <2>1, CutFacts DEF TypeOK
  <2>3. spc' = spc
    BY <1>6 DEF RecvManifest, RecvChunk, RecvCommit, ReceiverCrash, svars
  <2>4. toS' \in Seq(ToSender)
    BY <2>1, CutFacts DEF TypeOK
  <2> QED BY <2>2, <2>3, <2>4 DEF TypeOK
<1>7. CASE OpenStore \/ PersistOpen \/ RecvSkip \/ PersistChunk \/ Install \/ Unpacked
             \/ RemoveStaging \/ LingerEnd \/ ReceiverLost \/ FinalizeFails
             \/ ReceiveStart
  BY <1>7 DEF OpenStore, PersistOpen, RecvSkip, PersistChunk, Install, Unpacked,
              RemoveStaging, LingerEnd, ReceiverLost, FinalizeFails, ReceiveStart,
              svars, chan
<1>8. CASE Disconnect
  <2>1. toS' \in Seq(ToSender) /\ Len(toS') \in 0..Len(toS)
        /\ \A k \in 1..Len(toS') : toS'[k] = toS[k]
    BY <1>8, PrefixFacts DEF Disconnect, TypeOK
  <2>2. spc' = spc
    BY <1>8 DEF Disconnect, svars
  <2> QED BY <2>1, <2>2 DEF TypeOK
<1>9. CASE Connect \/ StartBlob \/ StartText \/ SenderKilled
             \/ \E s \in Source : PickSource(s) \/ EditDuringSend(s)
  BY <1>9 DEF Connect, StartBlob, StartText, SendStart, SenderKilled, SenderLeaves,
              PickSource, EditDuringSend, chan
<1> QED BY <1>1, <1>2, <1>3, <1>4, <1>5, <1>6, <1>7, <1>8, <1>9
        DEF Next, ReceiverSteps, UserSteps, Faults

-----------------------------------------------------------------------------
(* The frames on their way to recv_into.                                   *)

\* A prefix of an initial part is an initial part.
LEMMA PrefixInitialPart ==
    ASSUME NEW q \in Seq(ToReceiver), NEW p \in Seq(ToReceiver), NEW P \in SUBSET Nat,
           InitialPart(q, P),
           Len(p) \in 0..Len(q), \A k \in 1..Len(p) : p[k] = q[k]
    PROVE  InitialPart(p, P)
<1>1. \A k \in 1..Len(q) : q[k].idx \in Nat
  BY FrameTypes
<1>2. Len(q) \in Nat /\ Len(p) \in Nat /\ Len(p) <= Len(q)
  OBVIOUS
<1>3. \A k \in 1..Len(p) : k \in 1..Len(q) /\ p[k] = q[k]
  BY <1>2
<1>4. ASSUME NEW k \in 1..Len(p), NEW n \in P, n < p[k].idx
      PROVE  \E m \in 1..Len(p) : p[m].idx = n
  <2>1. k \in 1..Len(q) /\ n < q[k].idx
    BY <1>3, <1>4
  <2>2. PICK m \in 1..Len(q) : q[m].idx = n
    BY <2>1 DEF InitialPart
  <2>3. k < m => q[k].idx < q[m].idx
    BY <2>1 DEF InitialPart
  <2>4. m < k
    BY <1>1, <1>2, <2>1, <2>2, <2>3
  <2>5. m \in 1..Len(p)
    BY <1>2, <2>4
  <2> QED BY <1>3, <2>2, <2>5
<1>5. \A k \in 1..Len(p) : p[k].idx \in P
  BY <1>3 DEF InitialPart
<1>6. \A k, m \in 1..Len(p) : k < m => p[k].idx < p[m].idx
  BY <1>3 DEF InitialPart
<1> QED BY <1>4, <1>5, <1>6 DEF InitialPart

\* The head of an initial part is its least element, and the tail is an
\* initial part of the rest.
LEMMA TailInitialPart ==
    ASSUME NEW q \in Seq(ToReceiver), q # <<>>, NEW P \in SUBSET Nat,
           InitialPart(q, P)
    PROVE  /\ Head(q).idx \in P
           /\ \A n \in P : Head(q).idx <= n
           /\ InitialPart(Tail(q), P \ {Head(q).idx})
<1>1. /\ Head(q) = q[1] /\ Tail(q) \in Seq(ToReceiver)
      /\ Len(Tail(q)) = Len(q) - 1 /\ Len(q) \in Nat /\ Len(q) >= 1
      /\ \A k \in 1..(Len(q) - 1) : Tail(q)[k] = q[k + 1]
  BY TailFacts
<1>2. \A k \in 1..Len(q) : q[k].idx \in Nat
  BY FrameTypes
<1>3. q[1].idx \in P
  BY <1>1 DEF InitialPart
<1>4. ASSUME NEW n \in P PROVE q[1].idx <= n
  <2>1. SUFFICES ASSUME n < q[1].idx PROVE FALSE
    BY <1>1, <1>2
  <2>2. PICK m \in 1..Len(q) : q[m].idx = n
    BY <1>1, <2>1 DEF InitialPart
  <2>3. m = 1 \/ q[1].idx < q[m].idx
    BY <1>1 DEF InitialPart
  <2> QED BY <1>1, <1>2, <2>1, <2>2, <2>3
<1>5. ASSUME NEW k \in 1..Len(Tail(q))
      PROVE  Tail(q)[k].idx \in P \ {q[1].idx}
  <2>1. k + 1 \in 1..Len(q) /\ 1 \in 1..Len(q) /\ 1 < k + 1
    BY <1>1
  <2>2. q[k + 1].idx \in P /\ q[1].idx < q[k + 1].idx
    BY <2>1 DEF InitialPart
  <2> QED BY <1>1, <1>2, <2>1, <2>2
<1>6. ASSUME NEW k \in 1..Len(Tail(q)), NEW m \in 1..Len(Tail(q)), k < m
      PROVE  Tail(q)[k].idx < Tail(q)[m].idx
  <2>1. k + 1 \in 1..Len(q) /\ m + 1 \in 1..Len(q) /\ k + 1 < m + 1
    BY <1>1, <1>6
  <2> QED BY <1>1, <2>1 DEF InitialPart
<1>7. ASSUME NEW k \in 1..Len(Tail(q)), NEW n \in P \ {q[1].idx}, n < Tail(q)[k].idx
      PROVE  \E m \in 1..Len(Tail(q)) : Tail(q)[m].idx = n
  <2>1. k + 1 \in 1..Len(q) /\ n < q[k + 1].idx
    BY <1>1, <1>7
  <2>2. PICK m \in 1..Len(q) : q[m].idx = n
    BY <2>1 DEF InitialPart
  <2>3. m # 1
    BY <2>2
  <2>4. m - 1 \in 1..Len(Tail(q)) /\ Tail(q)[m - 1] = q[m]
    BY <1>1, <2>3
  <2> QED BY <2>2, <2>4
<1> QED BY <1>1, <1>3, <1>4, <1>5, <1>6, <1>7 DEF InitialPart

\* Appending the next element keeps an initial part.
LEMMA AppendInitialPart ==
    ASSUME NEW q \in Seq(ToReceiver), NEW P \in SUBSET Nat, NEW f \in ToReceiver,
           InitialPart(q, P), f.idx \in P,
           \A k \in 1..Len(q) : q[k].idx < f.idx,
           \A n \in P : n < f.idx => \E k \in 1..Len(q) : q[k].idx = n
    PROVE  InitialPart(Append(q, f), P)
<1> DEFINE a == Append(q, f)
<1>1. /\ Len(q) \in Nat /\ Len(a) = Len(q) + 1
      /\ \A k \in 1..Len(q) : a[k] = q[k]
      /\ a[Len(q) + 1] = f
  OBVIOUS
<1>2. \A k \in 1..Len(a) : k \in 1..Len(q) \/ k = Len(q) + 1
  BY <1>1
<1>3. /\ f.idx \in Nat /\ \A k \in 1..Len(q) : q[k].idx \in Nat
  BY FrameTypes
<1> HIDE DEF a
<1>4. ASSUME NEW k \in 1..Len(a) PROVE a[k].idx \in P
  BY <1>1, <1>2 DEF InitialPart
<1>5. ASSUME NEW k \in 1..Len(a), NEW m \in 1..Len(a), k < m
      PROVE  a[k].idx < a[m].idx
  <2>1. k \in 1..Len(q)
    BY <1>1, <1>2, <1>5
  <2> QED BY <1>1, <1>2, <1>5, <2>1 DEF InitialPart
<1>6. ASSUME NEW k \in 1..Len(a), NEW n \in P, n < a[k].idx
      PROVE  \E m \in 1..Len(a) : a[m].idx = n
  <2>1. PICK m \in 1..Len(q) : q[m].idx = n
    BY <1>1, <1>2, <1>6 DEF InitialPart
  <2>2. m \in 1..Len(a)
    BY <1>1
  <2> QED BY <1>1, <2>1, <2>2
<1>7. InitialPart(a, P)
  BY <1>4, <1>5, <1>6 DEF InitialPart
<1> QED BY <1>7 DEF a

\* What recv_into still expects, and how its loop consumes it.
LEMMA PendingFacts ==
    ASSUME TypeOK
    PROVE  /\ Pending \in SUBSET Nat /\ 1 + rman.size \in Pending
           /\ \A j \in From..(rman.size - 1) : j \notin rskip => 1 + j \in Pending
           /\ \A n \in Pending : n >= 1 + From \/ n = 1 + rman.size
           /\ \A n \in Pending : n = 1 + rman.size \/ n - 1 \in (From..(rman.size - 1)) \ rskip
  BY DEF Pending, From, TypeOK, ManifestSet

\* Passing a staged chunk does not change what is expected.
LEMMA SkipPending ==
    ASSUME TypeOK, RecvSkip
    PROVE  Pending' = Pending
  BY DEF TypeOK, ManifestSet, RecvSkip, Pending, From

\* Receiving a chunk removes its index from what is expected.
LEMMA ChunkPending ==
    ASSUME TypeOK, rpc = "Recv", ri < rman.size, ri \notin rskip,
           rpc' = "Persist", UNCHANGED <<ri, rman, rskip>>
    PROVE  Pending' = Pending \ {1 + ri}
  BY DEF TypeOK, ManifestSet, Pending, From

\* Persisting a received chunk does not change what is expected.
LEMMA PersistPending ==
    ASSUME TypeOK, PersistChunk
    PROVE  Pending' = Pending
  BY DEF TypeOK, ManifestSet, PersistChunk, Pending, From

\* PipeInv survives when the queue only loses frames at its end and the
\* receiver does not move.
LEMMA PipeCut ==
    ASSUME TypeOK, PipeInv, UNCHANGED rvars,
           toR' \in Seq(ToReceiver), Len(toR') \in 0..Len(toR),
           \A k \in 1..Len(toR') : toR'[k] = toR[k]
    PROVE  PipeInv'
<1>1. Pending' = Pending /\ Pending \in SUBSET Nat
  BY PendingFacts DEF Pending, From, rvars
<1>2. toR \in Seq(ToReceiver)
  BY DEF TypeOK
<1>3. CASE rpc = "Manifest"
  BY <1>2, <1>3 DEF PipeInv, rvars, BeforeAck, InLoop
<1>4. CASE rpc \in BeforeAck
  BY <1>2, <1>4 DEF PipeInv, rvars, BeforeAck, InLoop
<1>5. CASE rpc \in InLoop
  <2>1. InitialPart(toR', Pending)
    BY <1>1, <1>2, <1>5, PrefixInitialPart DEF PipeInv
  <2>2. \A k \in 1..Len(toR') : toR'[k].idx = 1 + rman.size => toR'[k].body \in Payloads
    BY <1>2, <1>5 DEF PipeInv
  <2> QED BY <1>1, <1>5, <2>1, <2>2 DEF PipeInv, rvars, BeforeAck, InLoop
<1>6. CASE rpc \notin {"Manifest"} \cup BeforeAck \cup InLoop
  BY <1>6 DEF PipeInv, rvars, BeforeAck, InLoop
<1> QED BY <1>3, <1>4, <1>5, <1>6

\* The frame send_source pushes during a session that is up is the next one
\* recv_into expects after those in flight.
LEMMA PushPipe ==
    ASSUME TypeOK, PipeInv, link = "up", PayloadPhase,
           NEW f \in ToReceiver, f.idx = 1 + si, f.idx \in Pending,
           f.idx = 1 + rman.size => f.body \in Payloads,
           toR' = Push(toR, f), UNCHANGED rvars
    PROVE  PipeInv'
<1>1. toR \in Seq(ToReceiver) /\ rpc \in InLoop /\ Pending \in SUBSET Nat
  BY PendingFacts DEF TypeOK, PayloadPhase
<1>2. toR' = Append(toR, f) /\ Pending' = Pending
  BY DEF Push, Pending, From, rvars
<1>3. InitialPart(Append(toR, f), Pending)
  BY <1>1, AppendInitialPart DEF PipeInv, PayloadPhase
<1>4. \A k \in 1..Len(Append(toR, f)) :
         Append(toR, f)[k].idx = 1 + rman.size => Append(toR, f)[k].body \in Payloads
  BY <1>1 DEF PipeInv
<1> QED BY <1>1, <1>2, <1>3, <1>4 DEF PipeInv, rvars, BeforeAck, InLoop

\* The manifest of a payload announces its size and kind.
LEMMA ManifestSize ==
    ASSUME NEW s \in Source, NEW build
    PROVE  Manifest(s, build).size = Size[s] /\ Manifest(s, build).kind = Kind
  BY SourceAssumption DEF Manifest

\* The chunk send_source sends next is one recv_into still expects.
LEMMA ChunkIsPending ==
    ASSUME TypeOK, JobInv, spc = "Payload", PayloadPhase,
           si < Size[sjob], ~Skipped(si)
    PROVE  1 + si \in Pending /\ rman.size = Size[sjob] /\ si \notin rskip
<1>1. sjob \in Source /\ rman.size = Size[sjob] /\ Size[sjob] \in Nat /\ si \in Nat
  BY ManifestSize, ContentType DEF JobInv, PayloadPhase, TypeOK
<1>2. si \in 0..(rman.size - 1) /\ si \in si..(rman.size - 1)
  BY <1>1
<1>3. si \notin rskip
  BY <1>2 DEF PayloadPhase, SkipAgree, Skipped
<1>4. From <= si /\ From \in Nat
  BY <1>2, <1>3 DEF PayloadPhase, From, TypeOK
<1>5. si \in From..(rman.size - 1)
  BY <1>1, <1>2, <1>4
<1> QED BY <1>1, <1>3, <1>5, PendingFacts

\* Every step preserves PipeInv.
LEMMA PipeStep ==
    ASSUME TypeOK, LinkInv, JobInv, PipeInv, SessionInv, Next
    PROVE  PipeInv'
<1>1. CASE SendManifest
  <2>1. CASE link # "up"
    BY <1>1, <2>1, PipeCut DEF SendManifest, Push, TypeOK
  <2>2. CASE link = "up"
    <3>1. rpc = "Manifest" /\ toR = <<>>
      BY <1>1, <2>2 DEF SendManifest, SessionInv
    <3>2. toR' = <<Frame(0, Manifest(sjob, sbuild))>> /\ rpc' = rpc
      BY <1>1, <2>2, <3>1 DEF SendManifest, Push, rvars
    <3>3. Frame(0, Manifest(sjob, sbuild)).idx = 0
      BY DEF Frame
    <3> HIDE DEF Frame
    <3> QED BY <3>1, <3>2, <3>3 DEF PipeInv, BeforeAck, InLoop
  <2> QED BY <2>1, <2>2
<1>2. CASE SendChunk
  <2>1. CASE SenderLeaves("ReadError")
    BY <2>1, CutFacts, PipeCut DEF SenderLeaves, TypeOK
  <2>2. CASE link # "up" /\ toR' = Push(toR, Frame(1 + si, Content[Readable][si]))
                /\ UNCHANGED rvars
    BY <2>2, PipeCut DEF Push, TypeOK
  <2>3. CASE /\ link = "up" /\ si < Size[Readable]
             /\ toR' = Push(toR, Frame(1 + si, Content[Readable][si]))
             /\ UNCHANGED rvars
    <3>1. PayloadPhase
      BY <1>2, <2>3 DEF SendChunk, SessionInv
    <3>2. 1 + si \in Pending /\ rman.size = Size[sjob]
      BY <1>2, <3>1, ChunkIsPending DEF SendChunk
    <3>3. Readable \in Source /\ sjob \in Source /\ si \in Nat
      BY <1>2 DEF SendChunk, Readable, JobInv, TypeOK
    <3>4. si \in 0..(Size[Readable] - 1) /\ 1 + si # 1 + rman.size
      BY <1>2, <2>3, <3>2, <3>3, ContentType DEF SendChunk
    <3>5. Content[Readable][si] \in Block
      BY <3>3, <3>4, ContentType
    <3>6. PICK f \in ToReceiver : f = Frame(1 + si, Content[Readable][si])
      BY <3>3, <3>5, ChunkFrameType
    <3>7. f.idx = 1 + si
      BY <3>6 DEF Frame
    <3> QED BY <2>3, <3>1, <3>2, <3>4, <3>6, <3>7, PushPipe
  <2> QED BY <1>2, <2>1, <2>2, <2>3 DEF SendChunk
<1>3. CASE SendCommit
  <2>1. CASE link # "up"
    BY <1>3, <2>1, PipeCut DEF SendCommit, Push, TypeOK
  <2>2. CASE link = "up"
    <3>1. PayloadPhase
      BY <1>3, <2>2 DEF SendCommit, SessionInv
    <3>2. Readable \in Source /\ sjob \in Source
      BY <1>3 DEF SendCommit, Readable, JobInv, TypeOK
    <3>3. rman.size = Size[sjob] /\ Size[sjob] \in Nat /\ Content[Readable] \in Payloads
      BY <3>1, <3>2, ManifestSize, ContentType DEF PayloadPhase
    <3>4. PICK f \in ToReceiver : f = Frame(1 + Size[sjob], Content[Readable])
      BY <3>3, ChunkFrameType
    <3>5. f.idx = 1 + si /\ f.body \in Payloads /\ f.idx \in Pending
      BY <1>3, <3>3, <3>4, PendingFacts DEF Frame, SendCommit
    <3>6. toR' = Push(toR, f) /\ UNCHANGED rvars
      BY <1>3, <3>4 DEF SendCommit
    <3> QED BY <2>2, <3>1, <3>5, <3>6, PushPipe
  <2> QED BY <2>1, <2>2
<1>4. CASE RecvAck \/ RecvCommitAck \/ SenderLost \/ SenderKilled \/ SkipChunk
  <2>1. UNCHANGED rvars /\ (toR' = toR \/ toR' \in Cut(toR))
    BY <1>4 DEF RecvAck, RecvCommitAck, SenderLost, SenderKilled, SkipChunk,
                SenderLeaves, SenderDone, chan
  <2>2. toR' \in Seq(ToReceiver) /\ Len(toR') \in 0..Len(toR)
        /\ \A k \in 1..Len(toR') : toR'[k] = toR[k]
    BY <2>1, CutFacts DEF TypeOK
  <2> QED BY <2>1, <2>2, PipeCut
<1>5. CASE Disconnect
  BY <1>5, PrefixFacts, PipeCut DEF Disconnect, TypeOK
<1>6. CASE RecvManifest
  <2>1. CASE rpc' = "Exited"
    BY <2>1 DEF PipeInv, BeforeAck, InLoop
  <2>2. CASE toR' = Tail(toR) /\ rpc' \in {"Decline", "AckText", "Open"}
    <3>1. toR' = <<>>
      BY <1>6, <2>2 DEF RecvManifest, PipeInv, TypeOK
    <3> QED BY <2>2, <3>1 DEF PipeInv, BeforeAck, InLoop
  <2> QED BY <1>6, <2>1, <2>2 DEF RecvManifest, ReceiverExits
<1>7. CASE OpenStore \/ PersistOpen
  BY <1>7 DEF OpenStore, PersistOpen, PipeInv, BeforeAck, InLoop, chan
<1>8. CASE SendAck
  BY <1>8 DEF SendAck, PipeInv, InitialPart, BeforeAck, InLoop
<1>9. CASE RecvSkip
  BY <1>9, SkipPending DEF RecvSkip, PipeInv, BeforeAck, InLoop, chan
<1>10. CASE PersistChunk
  BY <1>10, PersistPending DEF PersistChunk, PipeInv, BeforeAck, InLoop, chan
<1>11. CASE RecvChunk
  <2>1. CASE rpc' = "Exited"
    BY <2>1 DEF PipeInv, BeforeAck, InLoop
  <2>2. CASE Head(toR).idx = 1 + ri /\ toR' = Tail(toR) /\ rpc' = "Persist"
    <3>1. toR \in Seq(ToReceiver) /\ toR # <<>> /\ Pending \in SUBSET Nat
          /\ InitialPart(toR, Pending)
      BY <1>11, PendingFacts DEF RecvChunk, TypeOK, PipeInv, InLoop
    <3>2. InitialPart(Tail(toR), Pending \ {1 + ri})
      BY <2>2, <3>1, TailInitialPart
    <3>3. Pending' = Pending \ {1 + ri} /\ rman' = rman
      BY <1>11, <2>2, ChunkPending DEF RecvChunk
    <3>4. \A k \in 1..Len(Tail(toR)) :
             Tail(toR)[k].idx = 1 + rman.size => Tail(toR)[k].body \in Payloads
      <4>1. \A k \in 1..Len(toR) : toR[k].idx = 1 + rman.size => toR[k].body \in Payloads
        BY <1>11 DEF RecvChunk, PipeInv, InLoop
      <4> QED BY <3>1, <4>1, TailFacts
    <3> QED BY <2>2, <3>2, <3>3, <3>4 DEF PipeInv, BeforeAck, InLoop
  <2> QED BY <1>11, <2>1, <2>2 DEF RecvChunk, ReceiverExits
<1>12. CASE SendDecline \/ SendAckText \/ RecvCommit \/ Install \/ Unpacked
              \/ RemoveStaging \/ SendCommitAck \/ LingerEnd \/ ReceiverLost
              \/ ReceiverCrash \/ FinalizeFails \/ ReceiveStart
  <2>1. rpc' \notin {"Manifest"} \cup BeforeAck \cup InLoop
    BY <1>12 DEF SendDecline, SendAckText, RecvCommit, Install, Unpacked,
                 RemoveStaging, SendCommitAck, LingerEnd, ReceiverLost, ReceiverCrash,
                 FinalizeFails, ReceiveStart, ReceiverExits, BeforeAck, InLoop
  <2> QED BY <2>1 DEF PipeInv
<1>13. CASE Connect
  BY <1>13 DEF Connect, PipeInv, BeforeAck, InLoop
<1>14. CASE StartBlob \/ StartText \/ \E s \in Source : PickSource(s) \/ EditDuringSend(s)
  <2>1. UNCHANGED rvars /\ toR' = toR
    BY <1>14 DEF StartBlob, StartText, SendStart, PickSource, EditDuringSend, chan
  <2> QED BY <2>1, PipeCut DEF TypeOK
<1> QED BY <1>1, <1>2, <1>3, <1>4, <1>5, <1>6, <1>7, <1>8, <1>9, <1>10, <1>11,
           <1>12, <1>13, <1>14
        DEF Next, SenderSteps, ReceiverSteps, UserSteps, Faults

-----------------------------------------------------------------------------
(* The two ends of a connection that is up.                                *)

\* Only `b2p send --text` announces a text.
LEMMA ManifestKind ==
    ASSUME NEW job \in Source \cup {TextJob}, NEW build
    PROVE  Manifest(job, build).kind = "Text" <=> job = TextJob
  BY SourceAssumption, FlagAssumption DEF Manifest

\* The set of staged chunks has as many elements as the payload has chunks
\* only if it is the whole payload.
LEMMA CompleteMeansAll ==
    ASSUME TypeOK, HaveInv, rpc = "Ack", IsComplete
    PROVE  rhave = 0..(rman.size - 1)
<1>1. rman.size \in Nat /\ rhave \in SUBSET (0..(rman.size - 1))
  BY DEF TypeOK, ManifestSet, HaveInv, Staging
<1>2. /\ IsFiniteSet(0..(rman.size - 1))
      /\ Cardinality(0..(rman.size - 1)) = rman.size
  <2>1. 0 \in Int /\ rman.size - 1 \in Int
    BY <1>1
  <2>2. /\ IsFiniteSet(0..(rman.size - 1))
        /\ Cardinality(0..(rman.size - 1)) =
              IF 0 > rman.size - 1 THEN 0 ELSE (rman.size - 1) - 0 + 1
    BY <2>1, FS_Interval, Zenon
  <2> QED BY <1>1, <2>2
<1>3. Cardinality(rhave) = Cardinality(0..(rman.size - 1))
  BY <1>2 DEF IsComplete
<1> QED BY <1>1, <1>2, <1>3, FS_Subset

\* The ack of a manifest tells the sender exactly what the receiver skips.
LEMMA AckTellsSkips ==
    ASSUME TypeOK, HaveInv, rpc = "Ack"
    PROVE  SkipAgree(ManifestAck(TRUE, IsComplete, RunsOf(rhave)))
<1>1. rhave \in SUBSET Nat /\ IsFiniteSet(rhave) /\ rskip = rhave
  BY HaveFinite DEF TypeOK, HaveInv, Staging
<1>2. ASSUME NEW i \in 0..(rman.size - 1)
      PROVE  IsComplete \/ RunsContain(RunsOf(rhave), i) <=> i \in rskip
  <2>1. i \in Nat
    BY DEF TypeOK, ManifestSet
  <2>2. RunsContain(RunsOf(rhave), i) <=> i \in rhave
    BY <1>1, <2>1, RunsExact
  <2> QED BY <1>1, <2>2, CompleteMeansAll
<1> QED BY <1>2 DEF SkipAgree, ManifestAck

\* The receiver's steps while the sender waits for the manifest ack.
LEMMA AckPhaseReceiver ==
    ASSUME TypeOK, HaveInv, KindInv, PipeInv, AckPhase, link = "up", link' = "up",
           ReceiverSteps \/ FinalizeFails
    PROVE  AckPhase'
<1> USE DEF svars, dvars, chan
<1>0. sjob' = sjob /\ sbuild' = sbuild
  BY DEF ReceiverSteps, RecvManifest, SendDecline, SendAckText, OpenStore,
         PersistOpen, SendAck, RecvSkip, RecvChunk, PersistChunk, RecvCommit, Install,
         Unpacked, RemoveStaging, SendCommitAck, LingerEnd, ReceiverLost, FinalizeFails
<1>1. CASE RecvManifest
  <2>1. toS = <<>> /\ toR = <<Frame(0, Manifest(sjob, sbuild))>>
    BY <1>1 DEF RecvManifest, AckPhase, BeforeAck
  <2>2. Head(toR).idx = 0 /\ Head(toR).body = Manifest(sjob, sbuild)
    BY <2>1 DEF Frame
  <2>3. /\ rman' = Manifest(sjob, sbuild) /\ toS' = toS
        /\ rpc' \in {"Decline", "AckText", "Open"}
    BY <1>1, <2>2 DEF RecvManifest
  <2>4. rman' = Manifest(sjob', sbuild')
    BY <1>0, <2>3
  <2> HIDE DEF Manifest
  <2> QED BY <2>1, <2>3, <2>4 DEF AckPhase, BeforeAck
<1>2. CASE SendAckText
  <2>1. rman = Manifest(sjob, sbuild) /\ rman.kind = "Text"
    BY <1>2 DEF SendAckText, AckPhase, BeforeAck, KindInv
  <2>2. sjob = TextJob
    BY <2>1, ManifestKind DEF TypeOK
  <2>3. rpc' = "Linger"
    BY <1>2 DEF SendAckText
  <2> QED BY <1>0, <2>2, <2>3 DEF AckPhase
<1>3. CASE OpenStore \/ PersistOpen
  <2>1. rpc \in BeforeAck /\ rpc' \in BeforeAck /\ rpc # "Recv" /\ rpc # "Manifest" /\ rpc # "Linger"
    BY <1>3 DEF OpenStore, PersistOpen, BeforeAck
  <2>2. rman' = rman /\ toS' = toS
    BY <1>3 DEF OpenStore, PersistOpen
  <2>3. toS = <<>> /\ rman = Manifest(sjob, sbuild)
    BY <2>1 DEF AckPhase
  <2>4. rpc' \in BeforeAck /\ toS' = <<>> /\ rman' = Manifest(sjob', sbuild')
    BY <1>0, <2>1, <2>2, <2>3
  <2> QED BY <2>4 DEF AckPhase, BeforeAck
<1>4. CASE SendAck
  <2> DEFINE ack == ManifestAck(TRUE, IsComplete, RunsOf(rhave))
  <2>1. rpc = "Ack" /\ toR = <<>> /\ toS = <<>> /\ rman = Manifest(sjob, sbuild)
    BY <1>4 DEF SendAck, AckPhase, PipeInv, BeforeAck
  <2>2. sjob \in Source
    <3>1. rman.kind # "Text"
      BY <2>1 DEF KindInv
    <3> QED BY <2>1, <3>1, ManifestKind DEF TypeOK
  <2>3. SkipAgree(ack)
    BY <2>1, AckTellsSkips
  <2>4. /\ rpc' = "Recv" /\ toR' = toR /\ ri' = 0
        /\ rman' = rman /\ rskip' = rskip /\ toS' = Push(toS, Frame(0, ack))
    BY <1>4 DEF SendAck
  <2> HIDE DEF ack
  <2>5. toS' = <<Frame(0, ack)>>
    BY <2>1, <2>4 DEF Push
  <2>6. toS'[1].body = ack /\ toS' # <<>>
    BY <2>5 DEF Frame
  <2>7. SkipAgree(toS[1].body)'
    BY <2>3, <2>4, <2>6 DEF SkipAgree
  <2>8. rman' = Manifest(sjob', sbuild')
    BY <1>0, <2>1, <2>4
  <2>9. \A j \in 0..(rman'.size - 1) : j \notin rskip' => ri' <= j
    BY <2>4 DEF TypeOK, ManifestSet
  <2> QED BY <1>0, <2>1, <2>2, <2>4, <2>6, <2>7, <2>8, <2>9 DEF AckPhase
<1>5. CASE RecvSkip
  <2>1. /\ rpc = "Recv" /\ ri \in rskip /\ rpc' = rpc /\ ri' = ri + 1
        /\ UNCHANGED <<toR, toS, rman, rskip>>
    BY <1>5 DEF RecvSkip
  <2>2. /\ toR = <<>> /\ toS # <<>> /\ sjob \in Source /\ rman = Manifest(sjob, sbuild)
        /\ SkipAgree(toS[1].body)
        /\ \A j \in 0..(rman.size - 1) : j \notin rskip => ri <= j
    BY <2>1 DEF AckPhase, BeforeAck
  <2>3. SkipAgree(toS[1].body)'
    BY <2>1, <2>2 DEF SkipAgree
  <2>4. \A j \in 0..(rman.size - 1) : j \notin rskip => ri' <= j
    BY <2>1, <2>2 DEF TypeOK, ManifestSet
  <2>5. rman' = Manifest(sjob', sbuild')
    BY <1>0, <2>1, <2>2
  <2> QED BY <1>0, <2>1, <2>2, <2>3, <2>4, <2>5 DEF AckPhase
<1>6. CASE RecvChunk \/ RecvCommit
  BY <1>6 DEF RecvChunk, RecvCommit, AckPhase, BeforeAck
<1>7. CASE SendDecline \/ LingerEnd \/ ReceiverLost
  BY <1>7 DEF SendDecline, LingerEnd, ReceiverLost
<1>8. CASE PersistChunk \/ Install \/ Unpacked \/ RemoveStaging \/ SendCommitAck
             \/ FinalizeFails
  BY <1>8 DEF PersistChunk, Install, Unpacked, RemoveStaging, SendCommitAck,
              FinalizeFails, AckPhase, BeforeAck
<1> QED BY <1>1, <1>2, <1>3, <1>4, <1>5, <1>6, <1>7, <1>8 DEF ReceiverSteps

\* The receiver's steps while the sender sends chunks.
LEMMA PayloadPhaseReceiver ==
    ASSUME TypeOK, JobInv, PipeInv, PayloadPhase, spc = "Payload",
           link = "up", link' = "up", ReceiverSteps \/ FinalizeFails
    PROVE  PayloadPhase'
<1> USE DEF svars, dvars, chan
<1>0. /\ sjob' = sjob /\ sbuild' = sbuild /\ sack' = sack /\ si' = si
  BY DEF ReceiverSteps, RecvManifest, SendDecline, SendAckText, OpenStore,
         PersistOpen, SendAck, RecvSkip, RecvChunk, PersistChunk, RecvCommit, Install,
         Unpacked, RemoveStaging, SendCommitAck, LingerEnd, ReceiverLost, FinalizeFails
<1>1. /\ rpc \in InLoop /\ rman = Manifest(sjob, sbuild) /\ SkipAgree(sack)
      /\ \A k \in 1..Len(toR) : toR[k].idx < 1 + si
      /\ \A n \in Pending : n < 1 + si => \E k \in 1..Len(toR) : toR[k].idx = n
      /\ \A j \in si..(rman.size - 1) : j \notin rskip => From <= j
  BY DEF PayloadPhase
<1>2. /\ si \in Nat /\ ri \in Nat /\ rman.size \in Nat /\ si <= rman.size
      /\ toR \in Seq(ToReceiver)
  <2>1. sjob \in Source /\ si <= Size[sjob]
    BY DEF JobInv
  <2> QED BY <1>1, <2>1, ManifestSize DEF TypeOK, ManifestSet
<1>3. CASE RecvSkip
  <2>1. /\ rpc = "Recv" /\ rpc' = "Recv" /\ ri \in rskip /\ ri' = ri + 1
        /\ UNCHANGED <<toR, rman, rskip>>
    BY <1>3 DEF RecvSkip
  <2>2. Pending' = Pending
    BY <1>3, SkipPending
  <2>3. \A j \in si..(rman.size - 1) : j \notin rskip => From' <= j
    BY <1>1, <1>2, <2>1 DEF From
  <2>4. rman' = Manifest(sjob', sbuild') /\ SkipAgree(sack)'
    BY <1>0, <1>1, <2>1 DEF SkipAgree
  <2> QED BY <1>0, <1>1, <2>1, <2>2, <2>3, <2>4 DEF PayloadPhase, InLoop
<1>4. CASE PersistChunk
  <2>1. /\ rpc = "Persist" /\ rpc' = "Recv" /\ ri' = ri + 1
        /\ UNCHANGED <<toR, rman, rskip>>
    BY <1>4 DEF PersistChunk
  <2>2. Pending' = Pending
    BY <1>4, PersistPending
  <2>3. From' = From
    BY <2>1 DEF From
  <2>4. rman' = Manifest(sjob', sbuild') /\ SkipAgree(sack)'
    BY <1>0, <1>1, <2>1 DEF SkipAgree
  <2> QED BY <1>0, <1>1, <2>1, <2>2, <2>3, <2>4 DEF PayloadPhase, InLoop
<1>5. CASE RecvChunk
  <2>1. /\ rpc = "Recv" /\ rpc' = "Persist" /\ ri < rman.size /\ ri \notin rskip
        /\ toR # <<>> /\ Head(toR).idx = 1 + ri /\ toR' = Tail(toR)
        /\ UNCHANGED <<ri, rman, rskip>>
    BY <1>5 DEF RecvChunk, ReceiverExits
  <2>2. Pending' = Pending \ {1 + ri}
    BY <2>1, ChunkPending
  <2>3. /\ Head(toR) = toR[1] /\ Len(toR') = Len(toR) - 1
        /\ Len(toR) \in Nat /\ Len(toR) >= 1
        /\ \A k \in 1..(Len(toR) - 1) : toR'[k] = toR[k + 1]
    BY <1>2, <2>1, TailFacts
  <2>4. ri < si
    <3>1. toR[1].idx < 1 + si
      BY <1>1, <2>3
    <3> QED BY <1>2, <2>1, <2>3, <3>1
  <2>5. \A j \in si..(rman.size - 1) : j \notin rskip => From' <= j
    BY <1>2, <2>1, <2>4 DEF From
  <2>6. \A k \in 1..Len(toR') : toR'[k].idx < 1 + si
    BY <1>1, <2>3
  <2>7. ASSUME NEW n \in Pending', n < 1 + si
        PROVE  \E k \in 1..Len(toR') : toR'[k].idx = n
    <3>1. n \in Pending /\ n # 1 + ri
      BY <2>2, <2>7
    <3>2. PICK k \in 1..Len(toR) : toR[k].idx = n
      BY <1>1, <2>7, <3>1
    <3>3. k # 1
      BY <2>1, <2>3, <3>1, <3>2
    <3>4. k - 1 \in 1..Len(toR') /\ toR'[k - 1] = toR[k]
      BY <2>3, <3>3
    <3> QED BY <3>2, <3>4
  <2>8. rman' = Manifest(sjob', sbuild') /\ SkipAgree(sack)'
    BY <1>0, <1>1, <2>1 DEF SkipAgree
  <2> QED BY <1>0, <2>1, <2>5, <2>6, <2>7, <2>8 DEF PayloadPhase, InLoop
<1>6. CASE RecvCommit
  <2>1. toR # <<>> /\ Head(toR).idx = 1 + rman.size
    BY <1>6 DEF RecvCommit, ReceiverExits
  <2>2. Head(toR) = toR[1] /\ 1 \in 1..Len(toR)
    BY <1>2, <2>1, TailFacts
  <2>3. toR[1].idx < 1 + si
    BY <1>1, <2>2
  <2> QED BY <1>2, <2>1, <2>2, <2>3
<1>7. CASE RecvManifest \/ SendDecline \/ SendAckText \/ OpenStore \/ PersistOpen
             \/ SendAck \/ Install \/ Unpacked \/ RemoveStaging \/ SendCommitAck
             \/ LingerEnd \/ ReceiverLost \/ FinalizeFails
  BY <1>1, <1>7
     DEF RecvManifest, SendDecline, SendAckText, OpenStore, PersistOpen, SendAck,
         Install, Unpacked, RemoveStaging, SendCommitAck, LingerEnd, ReceiverLost,
         FinalizeFails, InLoop
<1> QED BY <1>3, <1>4, <1>5, <1>6, <1>7 DEF ReceiverSteps

\* The receiver's steps while the sender waits for the commit ack.
LEMMA CommitPhaseReceiver ==
    ASSUME TypeOK, CommitPhase, link = "up", link' = "up",
           ReceiverSteps \/ FinalizeFails
    PROVE  CommitPhase'
<1> USE DEF svars, dvars, chan, BeforeAck, InLoop, Finalizing
<1>0. scommit' = scommit
  BY DEF ReceiverSteps, RecvManifest, SendDecline, SendAckText, OpenStore,
         PersistOpen, SendAck, RecvSkip, RecvChunk, PersistChunk, RecvCommit, Install,
         Unpacked, RemoveStaging, SendCommitAck, LingerEnd, ReceiverLost, FinalizeFails
<1>1. CASE RecvSkip \/ PersistChunk
  BY <1>0, <1>1 DEF RecvSkip, PersistChunk, CommitPhase
<1>2. CASE RecvChunk
  <2>1. /\ rpc = "Recv" /\ rpc' = "Persist" /\ toR # <<>> /\ toR' = Tail(toR)
        /\ UNCHANGED <<toS, rman>>
    BY <1>2 DEF RecvChunk, ReceiverExits
  <2>2. \A k \in 1..Len(toR') : toR'[k].idx = 1 + rman.size => toR'[k].body = scommit
    <3>1. \A k \in 1..Len(toR) : toR[k].idx = 1 + rman.size => toR[k].body = scommit
      BY <2>1 DEF CommitPhase
    <3>2. toR \in Seq(ToReceiver)
      BY DEF TypeOK
    <3> QED BY <2>1, <3>1, <3>2, TailFacts
  <2> QED BY <1>0, <2>1, <2>2 DEF CommitPhase
<1>3. CASE RecvCommit
  <2>1. /\ rpc = "Recv" /\ toR # <<>> /\ Head(toR).idx = 1 + rman.size
        /\ rok' = (IsComplete /\ data = Head(toR).body)
        /\ rpc' = IF rok' THEN "Install" ELSE "CommitAck"
        /\ UNCHANGED <<toS, data>>
    BY <1>3 DEF RecvCommit, Verified, ReceiverExits
  <2>2. Head(toR) = toR[1] /\ 1 \in 1..Len(toR)
    BY <2>1, TailFacts DEF TypeOK
  <2>3. Head(toR).body = scommit
    BY <2>1, <2>2 DEF CommitPhase
  <2>4. toS = <<>>
    BY <2>1 DEF CommitPhase
  <2>5. CASE rok'
    BY <1>0, <2>1, <2>3, <2>4, <2>5 DEF CommitPhase
  <2>6. CASE ~rok'
    BY <1>0, <2>1, <2>4, <2>6 DEF CommitPhase
  <2> QED BY <2>5, <2>6
<1>4. CASE Install
  BY <1>0, <1>4 DEF Install, CommitPhase
<1>5. CASE Unpacked
  BY <1>0, <1>5 DEF Unpacked, CommitPhase
<1>6. CASE RemoveStaging
  BY <1>0, <1>6 DEF RemoveStaging, CommitPhase
<1>7. CASE SendCommitAck
  BY <1>0, <1>7 DEF SendCommitAck, CommitPhase
<1>8. CASE FinalizeFails
  BY <1>0, <1>8 DEF FinalizeFails, CommitPhase
<1>9. CASE RecvManifest \/ SendDecline \/ SendAckText \/ OpenStore \/ PersistOpen
             \/ SendAck \/ LingerEnd \/ ReceiverLost
  BY <1>9 DEF RecvManifest, SendDecline, SendAckText, OpenStore, PersistOpen, SendAck,
              LingerEnd, ReceiverLost, CommitPhase
<1> QED BY <1>1, <1>2, <1>3, <1>4, <1>5, <1>6, <1>7, <1>8, <1>9 DEF ReceiverSteps

\* The sender's steps on a connection that stays up.
LEMMA SessionSender ==
    ASSUME TypeOK, JobInv, ReplyInv, SessionInv, link = "up", link' = "up", SenderSteps
    PROVE  SessionInv'
<1> USE DEF rvars, dvars, chan
<1>0. UNCHANGED <<sjob, sbuild, rpc, rman, rskip, ri, rok, data, dest>>
  BY DEF SenderSteps, SendManifest, RecvAck, SkipChunk, SendChunk, SendCommit,
         RecvCommitAck, SenderLost, SenderLeaves, SenderDone
<1>1. CASE SendManifest
  <2>1. spc = "Manifest" /\ spc' = "AwaitAck" /\ toS' = toS
        /\ toR' = Push(toR, Frame(0, Manifest(sjob, sbuild)))
    BY <1>1 DEF SendManifest
  <2>2. rpc = "Manifest" /\ toR = <<>> /\ toS = <<>>
    BY <2>1 DEF SessionInv, ReplyInv
  <2>3. toR' = <<Frame(0, Manifest(sjob, sbuild))>>
    BY <2>1, <2>2 DEF Push
  <2>4. toR' = <<Frame(0, Manifest(sjob', sbuild'))>>
    BY <1>0, <2>3
  <2>5. AckPhase'
    BY <1>0, <2>1, <2>2, <2>4 DEF AckPhase
  <2> QED BY <2>1, <2>5 DEF SessionInv
<1>2. CASE RecvAck
  <2>1. /\ spc = "AwaitAck" /\ toS # <<>> /\ sjob # TextJob
        /\ spc' = "Payload" /\ sack' = Head(toS).body /\ si' = 0 /\ toR' = toR
    BY <1>2 DEF RecvAck, SenderLeaves, SenderDone
  <2>2. /\ rpc = "Recv" /\ toR = <<>> /\ rman = Manifest(sjob, sbuild)
        /\ SkipAgree(toS[1].body)
        /\ \A j \in 0..(rman.size - 1) : j \notin rskip => ri <= j
    BY <2>1 DEF SessionInv, AckPhase, BeforeAck
  <2>3. Head(toS) = toS[1]
    BY <2>1, TailFacts DEF TypeOK
  <2>4. SkipAgree(sack)'
    BY <1>0, <2>1, <2>2, <2>3 DEF SkipAgree
  <2>5. Pending' = Pending /\ From' = From /\ From = ri
    BY <1>0, <2>2 DEF Pending, From
  <2>6. \A n \in Pending : ~(n < 1)
    BY PendingFacts DEF TypeOK, ManifestSet, From
  <2>7. rman' = Manifest(sjob', sbuild')
    BY <1>0, <2>2
  <2>8. toR' = <<>>
    BY <2>1, <2>2
  <2>9. PayloadPhase'
    BY <1>0, <2>1, <2>2, <2>4, <2>5, <2>6, <2>7, <2>8 DEF PayloadPhase, InLoop
  <2> QED BY <2>1, <2>9 DEF SessionInv
<1>3. CASE SkipChunk
  <2>1. /\ spc = "Payload" /\ si < Size[sjob] /\ Skipped(si) /\ si' = si + 1
        /\ UNCHANGED <<spc, sack, toR>>
    BY <1>3 DEF SkipChunk
  <2>2. PayloadPhase
    BY <2>1 DEF SessionInv
  <2>3. /\ rman.size = Size[sjob] /\ rman.size \in Nat /\ si \in Nat
        /\ toR \in Seq(ToReceiver) /\ \A k \in 1..Len(toR) : toR[k].idx \in Nat
    <3>1. sjob \in Source
      BY <2>1 DEF JobInv
    <3> QED BY <2>2, <3>1, ManifestSize, FrameTypes DEF PayloadPhase, TypeOK, ManifestSet
  <2>4. si \in rskip
    BY <2>1, <2>2, <2>3 DEF PayloadPhase, SkipAgree, Skipped
  <2>5. Pending' = Pending /\ From' = From
    BY <1>0 DEF Pending, From
  <2>6. ASSUME NEW n \in Pending, n < 1 + (si + 1)
        PROVE  \E k \in 1..Len(toR) : toR[k].idx = n
    <3>1. n \in Nat /\ n # 1 + si
      BY <2>1, <2>3, <2>4, PendingFacts
    <3>2. n < 1 + si
      BY <2>3, <2>6, <3>1
    <3> QED BY <2>2, <3>2 DEF PayloadPhase
  <2>7. \A k \in 1..Len(toR) : toR[k].idx < 1 + (si + 1)
    BY <2>2, <2>3 DEF PayloadPhase
  <2>8. \A j \in (si + 1)..(rman.size - 1) : j \notin rskip => From <= j
    BY <2>2, <2>3 DEF PayloadPhase
  <2>9. rman' = Manifest(sjob', sbuild') /\ SkipAgree(sack)'
    BY <1>0, <2>1, <2>2 DEF PayloadPhase, SkipAgree
  <2>10. PayloadPhase'
    BY <1>0, <2>1, <2>2, <2>5, <2>6, <2>7, <2>8, <2>9 DEF PayloadPhase
  <2> QED BY <2>1, <2>10 DEF SessionInv
<1>4. CASE SendChunk
  <2>1. /\ spc = "Payload" /\ si < Size[sjob] /\ ~Skipped(si) /\ si' = si + 1
        /\ si < Size[Readable]
        /\ toR' = Push(toR, Frame(1 + si, Content[Readable][si]))
        /\ UNCHANGED <<spc, sack>>
    BY <1>4 DEF SendChunk, SenderLeaves
  <2>2. PayloadPhase
    BY <2>1 DEF SessionInv
  <2>3. /\ rman.size = Size[sjob] /\ rman.size \in Nat /\ si \in Nat
        /\ toR \in Seq(ToReceiver) /\ \A k \in 1..Len(toR) : toR[k].idx \in Nat
    BY <2>1, <2>2, ChunkIsPending, FrameTypes DEF TypeOK, ManifestSet
  <2>4. PICK f : f = Frame(1 + si, Content[Readable][si])
    OBVIOUS
  <2>5. f.idx = 1 + si
    BY <2>4 DEF Frame
  <2>6. /\ Len(toR) \in Nat /\ Len(toR') = Len(toR) + 1
        /\ \A k \in 1..Len(toR) : toR'[k] = toR[k]
        /\ toR'[Len(toR) + 1] = f
    <3>1. f \in ToReceiver
      <4>1. Readable \in Source
        BY <2>1 DEF Readable, JobInv, TypeOK
      <4>2. si \in 0..(Size[Readable] - 1)
        BY <2>1, <2>3, <4>1, ContentType
      <4> QED BY <2>3, <2>4, <4>1, <4>2, ContentType, ChunkFrameType
    <3>2. toR' = Append(toR, f)
      BY <2>1, <2>4 DEF Push
    <3> QED BY <2>3, <3>1, <3>2
  <2>7. Pending' = Pending /\ From' = From
    BY <1>0 DEF Pending, From
  <2>8. ASSUME NEW n \in Pending, n < 1 + (si + 1)
        PROVE  \E k \in 1..Len(toR') : toR'[k].idx = n
    <3>1. CASE n = 1 + si
      BY <2>5, <2>6, <3>1
    <3>2. CASE n # 1 + si
      <4>1. n < 1 + si
        BY <2>3, <2>8, <3>2, PendingFacts
      <4>2. PICK k \in 1..Len(toR) : toR[k].idx = n
        BY <2>2, <4>1 DEF PayloadPhase
      <4> QED BY <2>6, <4>2
    <3> QED BY <3>1, <3>2
  <2>9. \A k \in 1..Len(toR') : toR'[k].idx < 1 + (si + 1)
    <3>1. \A k \in 1..Len(toR') : k \in 1..Len(toR) \/ k = Len(toR) + 1
      BY <2>6
    <3>2. \A k \in 1..Len(toR) : toR[k].idx < 1 + si
      BY <2>2 DEF PayloadPhase
    <3> QED BY <2>3, <2>5, <2>6, <3>1, <3>2
  <2>10. \A j \in (si + 1)..(rman.size - 1) : j \notin rskip => From <= j
    BY <2>2, <2>3 DEF PayloadPhase
  <2>11. rman' = Manifest(sjob', sbuild') /\ SkipAgree(sack)'
    BY <1>0, <2>1, <2>2 DEF PayloadPhase, SkipAgree
  <2>12. PayloadPhase'
    BY <1>0, <2>1, <2>2, <2>7, <2>8, <2>9, <2>10, <2>11 DEF PayloadPhase
  <2> QED BY <2>1, <2>12 DEF SessionInv
<1>5. CASE SendCommit
  <2>1. /\ spc = "Payload" /\ si = Size[sjob] /\ spc' = "AwaitCommitAck"
        /\ scommit' = Content[Readable] /\ toS' = toS
        /\ toR' = Push(toR, Frame(1 + Size[sjob], scommit'))
    BY <1>5 DEF SendCommit
  <2>2. PayloadPhase /\ toS = <<>>
    BY <2>1 DEF SessionInv, ReplyInv
  <2>3. /\ sjob \in Source /\ rman.size = Size[sjob] /\ rman.size \in Nat
        /\ Readable \in Source /\ toR \in Seq(ToReceiver)
    BY <2>1, <2>2, ManifestSize DEF JobInv, Readable, PayloadPhase, TypeOK, ManifestSet
  <2>4. PICK f \in ToReceiver : f = Frame(1 + Size[sjob], scommit')
    BY <2>1, <2>3, ContentType, ChunkFrameType
  <2>5. f.body = scommit'
    BY <2>4 DEF Frame
  <2>6. /\ Len(toR) \in Nat /\ Len(toR') = Len(toR) + 1
        /\ \A k \in 1..Len(toR) : toR'[k] = toR[k]
        /\ toR'[Len(toR) + 1] = f
    <3>1. toR' = Append(toR, f)
      BY <2>1, <2>4 DEF Push
    <3> QED BY <2>3, <2>4, <3>1
  <2>7. ASSUME NEW k \in 1..Len(toR'), toR'[k].idx = 1 + rman.size
        PROVE  toR'[k].body = scommit'
    <3>1. CASE k \in 1..Len(toR)
      <4>1. toR[k].idx < 1 + si
        BY <2>2, <3>1 DEF PayloadPhase
      <4> QED BY <2>1, <2>3, <2>6, <2>7, <3>1, <4>1
    <3>2. CASE k = Len(toR) + 1
      BY <2>5, <2>6, <3>2
    <3> QED BY <2>6, <3>1, <3>2
  <2>8. CommitPhase'
    BY <1>0, <2>1, <2>2, <2>7 DEF CommitPhase, PayloadPhase, BeforeAck, InLoop, Finalizing
  <2> QED BY <2>1, <2>8 DEF SessionInv
<1>6. CASE RecvCommitAck \/ SenderLost
  BY <1>6 DEF RecvCommitAck, SenderLost, SenderLeaves, SenderDone
<1> QED BY <1>1, <1>2, <1>3, <1>4, <1>5, <1>6 DEF SenderSteps

\* The receiver's steps on a connection that stays up.
LEMMA SessionReceiver ==
    ASSUME TypeOK, HaveInv, LinkInv, JobInv, KindInv, PipeInv, SessionInv,
           link = "up", link' = "up", ReceiverSteps \/ FinalizeFails
    PROVE  SessionInv'
<1>1. spc' = spc
  BY DEF ReceiverSteps, RecvManifest, SendDecline, SendAckText, OpenStore,
         PersistOpen, SendAck, RecvSkip, RecvChunk, PersistChunk, RecvCommit, Install,
         Unpacked, RemoveStaging, SendCommitAck, LingerEnd, ReceiverLost, FinalizeFails,
         svars
<1>2. CASE spc = "Manifest"
  <2>1. rpc = "Manifest" /\ toR = <<>>
    BY <1>2 DEF SessionInv
  <2> QED BY <2>1
          DEF ReceiverSteps, RecvManifest, SendDecline, SendAckText, OpenStore,
              PersistOpen, SendAck, RecvSkip, RecvChunk, PersistChunk, RecvCommit,
              Install, Unpacked, RemoveStaging, SendCommitAck, LingerEnd, ReceiverLost,
              FinalizeFails
<1>3. CASE spc = "AwaitAck"
  BY <1>1, <1>3, AckPhaseReceiver DEF SessionInv
<1>4. CASE spc = "Payload"
  BY <1>1, <1>4, PayloadPhaseReceiver DEF SessionInv
<1>5. CASE spc = "AwaitCommitAck"
  BY <1>1, <1>5, CommitPhaseReceiver DEF SessionInv
<1>6. CASE spc \in {"Idle", "Dialing"}
  BY <1>1, <1>6 DEF SessionInv
<1> QED BY <1>2, <1>3, <1>4, <1>5, <1>6 DEF TypeOK

\* Every step preserves SessionInv.
LEMMA SessionStep ==
    ASSUME TypeOK, HaveInv, LinkInv, JobInv, KindInv, PipeInv, ReplyInv, SessionInv, Next
    PROVE  SessionInv'
<1>1. CASE link' # "up"
  BY <1>1 DEF SessionInv
<1>2. CASE Connect
  BY <1>2 DEF Connect, SessionInv
<1>3. CASE SenderSteps /\ link = "up" /\ link' = "up"
  BY <1>3, SessionSender
<1>4. CASE (ReceiverSteps \/ FinalizeFails) /\ link = "up" /\ link' = "up"
  BY <1>4, SessionReceiver
<1>5. CASE StartBlob \/ StartText \/ ReceiveStart \/ \E s \in Source : PickSource(s)
  <2>1. link # "up" /\ link' = link
    BY <1>5 DEF StartBlob, StartText, SendStart, ReceiveStart, PickSource, LinkInv,
                SenderOnChannel, ReceiverOnChannel, chan
  <2> QED BY <2>1 DEF SessionInv
<1>6. ASSUME NEW s \in Source, EditDuringSend(s), link = "up", link' = "up"
      PROVE  SessionInv'
  <2>1. UNCHANGED <<spc, sjob, sbuild, sack, si, scommit, toR, toS, rpc, rman, rskip,
                    ri, rok, data, dest>>
    BY <1>6 DEF EditDuringSend, chan, rvars, dvars
  <2>2. Pending' = Pending /\ From' = From
    BY <2>1 DEF Pending, From
  <2>3. spc = "AwaitAck" => AckPhase'
    <3>1. Frame(0, Manifest(sjob, sbuild))' = Frame(0, Manifest(sjob, sbuild))
          /\ Manifest(sjob, sbuild)' = Manifest(sjob, sbuild)
      BY <2>1
    <3>2. SkipAgree(toS[1].body)' <=> SkipAgree(toS[1].body)
      BY <2>1 DEF SkipAgree
    <3> QED BY <1>6, <2>1, <3>1, <3>2 DEF SessionInv, AckPhase
  <2>4. spc = "Payload" => PayloadPhase'
    BY <1>6, <2>1, <2>2 DEF SessionInv, PayloadPhase, SkipAgree
  <2>5. spc = "AwaitCommitAck" => CommitPhase'
    BY <1>6, <2>1 DEF SessionInv, CommitPhase
  <2> QED BY <1>6, <2>1, <2>3, <2>4, <2>5 DEF SessionInv
<1>7. CASE Disconnect \/ SenderKilled \/ ReceiverCrash
  BY <1>7, <1>1 DEF Disconnect, SenderKilled, SenderLeaves, ReceiverCrash, ReceiverExits
<1>8. CASE link # "up" /\ link' = "up"
  BY <1>2, <1>5, <1>7, <1>8
     DEF Next, SenderSteps, ReceiverSteps, UserSteps, Faults, SendManifest, RecvAck,
         SkipChunk, SendChunk, SendCommit, RecvCommitAck, SenderLost, SenderLeaves,
         SenderDone, RecvManifest, SendDecline, SendAckText, OpenStore, PersistOpen,
         SendAck, RecvSkip, RecvChunk, PersistChunk, RecvCommit, Install, Unpacked,
         RemoveStaging, SendCommitAck, LingerEnd, ReceiverLost, ReceiverExits,
         FinalizeFails, EditDuringSend, chan
<1> QED BY <1>1, <1>2, <1>3, <1>4, <1>5, <1>6, <1>7, <1>8 DEF Next, UserSteps, Faults

-----------------------------------------------------------------------------
(* What is put in place, and what the sender may conclude.                 *)

\* Every step preserves VerifiedInv.
LEMMA VerifiedStep ==
    ASSUME TypeOK, PipeInv, VerifiedInv, Next
    PROVE  VerifiedInv'
<1> USE DEF VerifiedInv, Finalizing
<1>1. CASE RecvCommit
  <2>1. CASE rpc' # "Install"
    BY <1>1, <2>1 DEF RecvCommit, ReceiverExits
  <2>2. CASE rpc' = "Install"
    <3>1. /\ rpc = "Recv" /\ toR # <<>> /\ Head(toR).idx = 1 + rman.size
          /\ data = Head(toR).body /\ data' = data
      BY <1>1, <2>2 DEF RecvCommit, Verified, ReceiverExits, dvars
    <3>2. Head(toR) = toR[1] /\ 1 \in 1..Len(toR)
      BY <3>1, TailFacts DEF TypeOK
    <3>3. Head(toR).body \in Payloads
      BY <3>1, <3>2 DEF PipeInv, InLoop
    <3> QED BY <3>1, <3>3
  <2> QED BY <2>1, <2>2
<1>2. CASE Install
  BY <1>2 DEF Install
<1>3. CASE SenderSteps \/ Connect \/ StartBlob \/ StartText
             \/ (\E s \in Source : PickSource(s) \/ EditDuringSend(s))
             \/ Disconnect \/ SenderKilled
  BY <1>3
     DEF SenderSteps, SendManifest, RecvAck, SkipChunk, SendChunk, SendCommit,
         RecvCommitAck, SenderLost, SenderLeaves, SenderDone, Connect, StartBlob,
         StartText, SendStart, PickSource, EditDuringSend, Disconnect, SenderKilled,
         rvars, dvars
<1>4. CASE RecvManifest
  BY <1>4 DEF RecvManifest, ReceiverExits
<1>5. CASE SendDecline \/ SendAckText \/ OpenStore \/ PersistOpen
             \/ SendAck \/ RecvSkip \/ RecvChunk \/ PersistChunk \/ Unpacked
             \/ RemoveStaging \/ SendCommitAck \/ LingerEnd \/ ReceiverLost
             \/ ReceiveStart \/ ReceiverCrash \/ FinalizeFails
  BY <1>5
     DEF SendDecline, SendAckText, OpenStore, PersistOpen, SendAck,
         RecvSkip, RecvChunk, PersistChunk, Unpacked, RemoveStaging, SendCommitAck,
         LingerEnd, ReceiverLost, ReceiveStart, ReceiverCrash, FinalizeFails,
         ReceiverExits
<1> QED BY <1>1, <1>2, <1>3, <1>4, <1>5 DEF Next, ReceiverSteps, UserSteps, Faults

\* Only finalize changes what is delivered.
LEMMA DestSteps ==
    ASSUME Next
    PROVE  dest' = dest \/ Install \/ Unpacked
<1>1. CASE SenderSteps \/ Connect \/ UserSteps \/ Faults
  BY <1>1
     DEF SenderSteps, SendManifest, RecvAck, SkipChunk, SendChunk, SendCommit,
         RecvCommitAck, SenderLost, SenderLeaves, SenderDone, Connect, UserSteps,
         StartBlob, StartText, SendStart, ReceiveStart, Faults, PickSource,
         EditDuringSend, Disconnect, SenderKilled, ReceiverCrash, FinalizeFails, dvars
<1>2. CASE ReceiverSteps
  BY <1>2
     DEF ReceiverSteps, RecvManifest, SendDecline, SendAckText, OpenStore, PersistOpen,
         SendAck, RecvSkip, RecvChunk, PersistChunk, RecvCommit, RemoveStaging,
         SendCommitAck, LingerEnd, ReceiverLost, dvars
<1> QED BY <1>1, <1>2 DEF Next

\* Every step preserves DeliveredWhole.
LEMMA DeliveredStep ==
    ASSUME VerifiedInv, DeliveredWhole, Next
    PROVE  DeliveredWhole'
  BY DestSteps DEF VerifiedInv, Finalizing, DeliveredWhole, Install, Unpacked

\* A receiver that is not busy with a session stays so until Connect.
LEMMA GoneSteps ==
    ASSUME rpc \in Gone, Next
    PROVE  (rpc' \in Gone /\ dest' = dest) \/ Connect
<1>1. CASE SenderSteps \/ UserSteps \/ Faults
  BY <1>1
     DEF SenderSteps, SendManifest, RecvAck, SkipChunk, SendChunk, SendCommit,
         RecvCommitAck, SenderLost, SenderLeaves, SenderDone, UserSteps,
         StartBlob, StartText, SendStart, ReceiveStart, Faults, PickSource,
         EditDuringSend, Disconnect, SenderKilled, ReceiverCrash, ReceiverExits,
         FinalizeFails, rvars, dvars, Gone
<1>2. CASE ReceiverSteps
  BY <1>2
     DEF ReceiverSteps, RecvManifest, SendDecline, SendAckText, OpenStore, PersistOpen,
         SendAck, RecvSkip, RecvChunk, PersistChunk, RecvCommit, Install, Unpacked,
         RemoveStaging, SendCommitAck, LingerEnd, ReceiverLost, dvars, Gone
<1> QED BY <1>1, <1>2 DEF Next

\* Every step preserves SuccessInv.
LEMMA SuccessStep ==
    ASSUME TypeOK, LinkInv, JobInv, ReplyInv, SessionInv, SuccessInv, Next
    PROVE  SuccessInv'
<1> USE DEF rvars, dvars, chan
<1>1. ASSUME spc' = "AwaitCommitAck", toS' # <<>>, toS'[1].body
      PROVE  dest' = scommit' /\ rpc' \in Gone
  <2>1. CASE SendCommit
    BY <1>1, <2>1 DEF SendCommit, ReplyInv
  <2>2. (spc = "AwaitCommitAck" /\ scommit' = scommit) \/ SendCommit
    BY <1>1
       DEF Next, SenderSteps, ReceiverSteps, UserSteps, Faults, SendManifest, RecvAck,
           SkipChunk, SendChunk, RecvCommitAck, SenderLost, SenderLeaves, SenderDone,
           RecvManifest, SendDecline, SendAckText, OpenStore, PersistOpen, SendAck,
           RecvSkip, RecvChunk, PersistChunk, RecvCommit, Install, Unpacked,
           RemoveStaging, SendCommitAck, LingerEnd, ReceiverLost, Connect, StartBlob,
           StartText, SendStart, ReceiveStart, Disconnect, SenderKilled, ReceiverCrash,
           FinalizeFails, PickSource, EditDuringSend, svars
  <2>3. CASE /\ spc = "AwaitCommitAck" /\ scommit' = scommit
             /\ toS # <<>> /\ toS'[1] = toS[1]
    <3>1. dest = scommit /\ rpc \in Gone
      BY <1>1, <2>3 DEF SuccessInv
    <3>2. ~Connect
      BY <2>3 DEF Connect
    <3> QED BY <2>3, <3>1, <3>2, GoneSteps
  <2>4. CASE SendCommitAck /\ link = "up" /\ spc = "AwaitCommitAck" /\ scommit' = scommit
    <3>1. CommitPhase /\ rpc = "CommitAck" /\ toS = <<>>
      BY <2>4 DEF SessionInv, CommitPhase, SendCommitAck
    <3>2. PICK f \in ToSender : f = Frame(1, rok)
      BY CommitAckType DEF TypeOK
    <3>3. f.body = rok
      BY <3>2 DEF Frame
    <3>4. Push(toS, Frame(1, rok)) = <<f>>
      BY <2>4, <3>1, <3>2 DEF Push
    <3>5. CASE rok
      BY <2>4, <3>1, <3>5 DEF CommitPhase, SendCommitAck, Gone
    <3>6. CASE ~rok
      <4>1. toS' \in Cut(<<f>>)
        BY <2>4, <3>4, <3>6 DEF SendCommitAck
      <4>2. <<f>> \in Seq(ToSender) /\ Len(<<f>>) = 1 /\ <<f>>[1] = f
        OBVIOUS
      <4>3. toS' \in Seq(ToSender) /\ \A k \in 1..Len(toS') : toS'[k] = <<f>>[k]
        BY <4>1, <4>2, CutFacts
      <4>4. 1 \in 1..Len(toS')
        BY <1>1, <4>3
      <4> QED BY <1>1, <3>3, <3>6, <4>2, <4>3, <4>4
    <3> QED BY <3>5, <3>6
  <2>5. ASSUME spc = "AwaitCommitAck" /\ ~SendCommit,
               SendCommitAck => link # "up"
        PROVE  toS # <<>> /\ toS'[1] = toS[1]
    <3>1. toS \in Seq(ToSender)
      BY DEF TypeOK
    <3>2. link = "up" => ~SendDecline /\ ~SendAckText /\ ~SendAck
      BY <2>5 DEF SessionInv, CommitPhase, BeforeAck, SendDecline, SendAckText, SendAck
    <3>3. \/ toS' = toS \/ toS' \in Cut(toS) \/ toS' \in Prefixes(toS)
          \/ toS' = <<>>
      BY <2>5, <3>2
         DEF Next, SenderSteps, ReceiverSteps, UserSteps, Faults, SendManifest, RecvAck,
             SkipChunk, SendChunk, RecvCommitAck, SenderLost, SenderLeaves, SenderDone,
             RecvManifest, SendDecline, SendAckText, OpenStore, PersistOpen, SendAck,
             RecvSkip, RecvChunk, PersistChunk, RecvCommit, Install, Unpacked,
             RemoveStaging, SendCommitAck, LingerEnd, ReceiverLost, ReceiverExits,
             Connect, StartBlob, StartText, SendStart, ReceiveStart, Disconnect,
             SenderKilled, ReceiverCrash, FinalizeFails, PickSource, EditDuringSend,
             Push, Cut
    <3>4. \/ toS' = toS
          \/ toS' \in Seq(ToSender) /\ Len(toS') \in 0..Len(toS)
             /\ \A k \in 1..Len(toS') : toS'[k] = toS[k]
      BY <1>1, <3>1, <3>3, CutFacts, PrefixFacts
    <3> QED BY <1>1, <3>1, <3>4
  <2> QED BY <1>1, <2>1, <2>2, <2>3, <2>4, <2>5
<1>2. ASSUME sres' = "Ok"
      PROVE  spc' = "Idle" /\ (sjob' # TextJob => dest' = scommit' /\ rpc' \in Gone)
  <2>1. CASE RecvAck
    <3>1. spc = "AwaitAck" /\ sres # "Ok"
      BY <2>1 DEF RecvAck, SuccessInv
    <3> QED BY <1>2, <2>1, <3>1 DEF RecvAck, SenderLeaves, SenderDone
  <2>2. CASE RecvCommitAck
    <3>1. /\ spc = "AwaitCommitAck" /\ toS # <<>> /\ Head(toS).idx = 1
          /\ Head(toS).body /\ SenderDone
      <4>1. Head(toS) \in ToSender /\ spc = "AwaitCommitAck" /\ toS # <<>>
        BY <2>2, TailFacts DEF RecvCommitAck, TypeOK
      <4>2. SenderDone /\ ~(Head(toS).idx # 1) /\ ~(Head(toS).idx = 1 /\ ~Head(toS).body)
        BY <1>2, <2>2 DEF RecvCommitAck, SenderLeaves
      <4> QED BY <4>1, <4>2
    <3>2. Head(toS) = toS[1]
      BY <3>1, TailFacts DEF TypeOK
    <3>3. dest = scommit /\ rpc \in Gone
      BY <3>1, <3>2 DEF SuccessInv
    <3> QED BY <3>1, <3>3 DEF SenderDone
  <2>3. CASE ~RecvAck /\ ~RecvCommitAck
    <3>1. sres = "Ok"
      BY <1>2, <2>3
         DEF Next, SenderSteps, ReceiverSteps, UserSteps, Faults, SendManifest,
             SkipChunk, SendChunk, SendCommit, SenderLost, SenderLeaves,
             RecvManifest, SendDecline, SendAckText, OpenStore, PersistOpen, SendAck,
             RecvSkip, RecvChunk, PersistChunk, RecvCommit, Install, Unpacked,
             RemoveStaging, SendCommitAck, LingerEnd, ReceiverLost, Connect, StartBlob,
             StartText, SendStart, ReceiveStart, Disconnect, SenderKilled,
             ReceiverCrash, FinalizeFails, PickSource, EditDuringSend, svars
    <3>2. spc = "Idle" /\ (sjob # TextJob => dest = scommit /\ rpc \in Gone)
      BY <3>1 DEF SuccessInv
    <3>3. UNCHANGED <<spc, sjob, scommit>> /\ ~Connect
      BY <1>2, <2>3, <3>2
         DEF Next, SenderSteps, ReceiverSteps, UserSteps, Faults, SendManifest,
             SkipChunk, SendChunk, SendCommit, SenderLost, SenderOnChannel,
             RecvManifest, SendDecline, SendAckText, OpenStore, PersistOpen, SendAck,
             RecvSkip, RecvChunk, PersistChunk, RecvCommit, Install, Unpacked,
             RemoveStaging, SendCommitAck, LingerEnd, ReceiverLost, Connect, StartBlob,
             StartText, SendStart, ReceiveStart, Disconnect, SenderKilled,
             ReceiverCrash, FinalizeFails, PickSource, EditDuringSend, svars
    <3> QED BY <3>2, <3>3, GoneSteps
  <2> QED BY <2>1, <2>2, <2>3
<1> QED BY <1>1, <1>2 DEF SuccessInv

-----------------------------------------------------------------------------
(* The staging directory.                                                  *)

\* The steps of the sender, the network and the users leave the receiver's store alone.
LEMMA OutsideSteps ==
    ASSUME Next
    PROVE  \/ UNCHANGED <<rpc, rman, rhave, rskip, ri, rok, dvars>>
           \/ Connect \/ ReceiveStart \/ ReceiverCrash \/ FinalizeFails \/ ReceiverSteps
  BY DEF Next, SenderSteps, SendManifest, RecvAck, SkipChunk, SendChunk, SendCommit,
         RecvCommitAck, SenderLost, SenderLeaves, SenderDone, UserSteps, StartBlob, StartText,
         SendStart, Faults, Disconnect, SenderKilled, PickSource, EditDuringSend, rvars

\* Every step preserves EmptiedInv.
LEMMA EmptiedStep ==
    ASSUME KindInv, EmptiedInv, Next
    PROVE  EmptiedInv'
<1> USE DEF EmptiedInv, dvars
<1>1. CASE UNCHANGED <<rpc, rman, rhave, rskip, ri, rok, dvars>>
  BY <1>1
<1>2. CASE Connect \/ ReceiveStart \/ ReceiverCrash \/ FinalizeFails
  BY <1>2 DEF Connect, ReceiveStart, ReceiverCrash, FinalizeFails, ReceiverExits
<1>3. CASE SendAckText
  BY <1>3 DEF SendAckText, KindInv
<1>4. CASE RecvManifest \/ RecvChunk \/ RecvCommit
  BY <1>4 DEF RecvManifest, RecvChunk, RecvCommit, ReceiverExits
<1>5. CASE SendDecline \/ OpenStore \/ PersistOpen \/ SendAck \/ RecvSkip \/ PersistChunk
             \/ Install \/ Unpacked \/ RemoveStaging \/ SendCommitAck \/ LingerEnd \/ ReceiverLost
  BY <1>5 DEF SendDecline, OpenStore, PersistOpen, SendAck, RecvSkip, PersistChunk, Install,
              Unpacked, RemoveStaging, SendCommitAck, LingerEnd, ReceiverLost
<1> QED BY <1>1, <1>2, <1>3, <1>4, <1>5, OutsideSteps DEF ReceiverSteps

\* Every step preserves StoreInv.
LEMMA StoreStep ==
    ASSUME StoreInv, Next
    PROVE  StoreInv'
<1> USE DEF StoreInv, dvars
<1>1. CASE UNCHANGED <<rpc, rman, rhave, rskip, ri, rok, dvars>>
  BY <1>1 DEF Reusable
<1>2. CASE Connect \/ ReceiveStart \/ ReceiverCrash \/ FinalizeFails
  BY <1>2 DEF Connect, ReceiveStart, ReceiverCrash, FinalizeFails, ReceiverExits
<1>3. CASE OpenStore
  BY <1>3 DEF OpenStore, Reusable
<1>4. CASE PersistOpen \/ PersistChunk
  BY <1>4 DEF PersistOpen, PersistChunk
<1>5. CASE RecvManifest \/ RecvChunk \/ RecvCommit
  BY <1>5 DEF RecvManifest, RecvChunk, RecvCommit, ReceiverExits
<1>6. CASE SendDecline \/ SendAckText \/ SendAck \/ RecvSkip
             \/ Install \/ Unpacked \/ RemoveStaging \/ SendCommitAck \/ LingerEnd \/ ReceiverLost
  BY <1>6 DEF SendDecline, SendAckText, SendAck, RecvSkip, Install,
              Unpacked, RemoveStaging, SendCommitAck, LingerEnd, ReceiverLost
<1> QED BY <1>1, <1>2, <1>3, <1>4, <1>5, <1>6, OutsideSteps DEF ReceiverSteps

\* What a step does to the frames on their way to the receiver: some are lost,
\* the first is taken, or the sender adds one.
LEMMA PipeSteps ==
    ASSUME TypeOK, Next
    PROVE  \/ \A k \in 1..Len(toR') : \E m \in 1..Len(toR) : toR'[k] = toR[m]
           \/ SendManifest /\ link = "up"
           \/ SendChunk /\ link = "up" /\ spc' = "Payload"
           \/ SendCommit /\ link = "up"
<1>1. toR \in Seq(ToReceiver)
  BY DEF TypeOK
<1>2. ASSUME toR' \in Cut(toR) \cup Prefixes(toR) \cup {toR}
      PROVE  \A k \in 1..Len(toR') : \E m \in 1..Len(toR) : toR'[k] = toR[m]
  <2>1. Len(toR') \in 0..Len(toR) /\ \A k \in 1..Len(toR') : toR'[k] = toR[k]
    BY <1>1, <1>2, CutFacts, PrefixFacts
  <2>2. Len(toR) \in Nat
    BY <1>1
  <2> QED BY <2>1, <2>2
<1>3. ASSUME toR # <<>>, toR' = Tail(toR)
      PROVE  \A k \in 1..Len(toR') : \E m \in 1..Len(toR) : toR'[k] = toR[m]
  <2>1. /\ Len(toR) \in Nat /\ Len(toR') = Len(toR) - 1
        /\ \A k \in 1..(Len(toR) - 1) : toR'[k] = toR[k + 1]
    BY <1>1, <1>3, TailFacts
  <2>2. \A k \in 1..Len(toR') : k + 1 \in 1..Len(toR)
    BY <2>1
  <2> QED BY <2>1, <2>2
<1>4. ASSUME toR' = <<>>
      PROVE  \A k \in 1..Len(toR') : \E m \in 1..Len(toR) : toR'[k] = toR[m]
  BY <1>4
<1>5. CASE SenderSteps
  <2>1. CASE SendManifest \/ SendCommit
    BY <1>2, <2>1 DEF SendManifest, SendCommit, Push
  <2>2. CASE SendChunk
    BY <1>2, <2>2 DEF SendChunk, Push, SenderLeaves
  <2>3. CASE RecvAck \/ SkipChunk \/ RecvCommitAck \/ SenderLost
    BY <1>2, <2>3 DEF RecvAck, SkipChunk, RecvCommitAck, SenderLost, SenderLeaves, SenderDone, chan
  <2> QED BY <1>5, <2>1, <2>2, <2>3 DEF SenderSteps
<1>6. CASE ReceiverSteps
  <2>1. CASE RecvManifest \/ RecvChunk \/ RecvCommit
    BY <1>3, <1>4, <2>1 DEF RecvManifest, RecvChunk, RecvCommit, ReceiverExits
  <2>2. CASE SendDecline \/ SendAckText \/ OpenStore \/ PersistOpen \/ SendAck \/ RecvSkip
               \/ PersistChunk \/ Install \/ Unpacked \/ RemoveStaging \/ SendCommitAck
               \/ LingerEnd \/ ReceiverLost
    BY <1>2, <1>4, <2>2 DEF SendDecline, SendAckText, OpenStore, PersistOpen, SendAck, RecvSkip,
       PersistChunk, Install, Unpacked, RemoveStaging, SendCommitAck, LingerEnd, ReceiverLost, chan
  <2> QED BY <1>6, <2>1, <2>2 DEF ReceiverSteps
<1>7. CASE Connect \/ UserSteps \/ Faults
  BY <1>2, <1>4, <1>7 DEF Connect, UserSteps, StartBlob, StartText, SendStart, ReceiveStart, Faults,
     Disconnect, SenderKilled, SenderLeaves, ReceiverCrash, ReceiverExits, FinalizeFails,
     PickSource, EditDuringSend, chan
<1> QED BY <1>5, <1>6, <1>7 DEF Next

\* stream_manifest is about its payload.
LEMMA ManifestAbout ==
    ASSUME NEW job \in Source \cup {TextJob}, NEW build
    PROVE  About(Manifest(job, build))
  BY DEF About, Manifest

\* Every step preserves ManifestInv.
LEMMA ManifestStep ==
    ASSUME TypeOK, KindInv, ManifestInv, Next
    PROVE  ManifestInv'
<1>1. toR \in Seq(ToReceiver)
  BY DEF TypeOK
<1>2. ASSUME NEW k \in 1..Len(toR'), toR'[k].idx = 0 PROVE About(toR'[k].body)
  <2>1. CASE \A j \in 1..Len(toR') : \E m \in 1..Len(toR) : toR'[j] = toR[m]
    BY <1>2, <2>1 DEF ManifestInv
  <2>2. ASSUME NEW f \in ToReceiver, toR' = Append(toR, f), f.idx = 0 => About(f.body)
        PROVE  About(toR'[k].body)
    <3>1. /\ Len(toR') = Len(toR) + 1 /\ Len(toR) \in Nat /\ toR'[Len(toR) + 1] = f
          /\ \A j \in 1..Len(toR) : toR'[j] = toR[j]
      BY <1>1, <2>2
    <3>2. CASE k = Len(toR) + 1
      BY <1>2, <2>2, <3>1, <3>2
    <3>3. CASE k \in 1..Len(toR)
      BY <1>2, <3>1, <3>3 DEF ManifestInv
    <3> QED BY <3>1, <3>2, <3>3
  <2>3. CASE SendManifest /\ link = "up"
    <3> DEFINE f == Frame(0, Manifest(sjob, sbuild))
    <3>1. f \in ToReceiver /\ About(Manifest(sjob, sbuild))
      BY ManifestType, ManifestAbout DEF TypeOK
    <3>2. f.body = Manifest(sjob, sbuild) /\ toR' = Append(toR, f)
      BY <2>3 DEF Frame, SendManifest, Push
    <3> HIDE DEF f
    <3> QED BY <2>2, <3>1, <3>2
  <2>4. ASSUME NEW n \in Nat \ {0}, NEW b \in Block \cup Payloads,
               toR' = Append(toR, Frame(n, b))
        PROVE  About(toR'[k].body)
    <3>1. Frame(n, b) \in ToReceiver /\ Frame(n, b).idx # 0
      BY ChunkFrameType DEF Frame
    <3> QED BY <2>2, <2>4, <3>1
  <2>5. CASE SendChunk /\ link = "up" /\ spc' = "Payload"
    <3>1. /\ toR' = Append(toR, Frame(1 + si, Content[Readable][si]))
          /\ si < Size[Readable] /\ spc = "Payload" /\ si \in Nat
      BY <2>5 DEF SendChunk, SenderLeaves, Push, TypeOK
    <3>2. Readable \in Source \/ Readable = TextJob
      BY DEF Readable, TypeOK
    <3>3. 1 + si \in Nat \ {0}
      BY <3>1
    <3>4. CASE Readable \in Source
      <4>1. Content[Readable][si] \in Block
        BY <3>1, <3>4, ContentType
      <4> QED BY <2>4, <3>1, <3>3, <4>1
    <3>5. CASE Readable = TextJob
      <4>1. Frame(1 + si, Content[Readable][si]).idx # 0
        BY <3>1 DEF Frame
      <4>2. /\ Len(toR') = Len(toR) + 1 /\ Len(toR) \in Nat
            /\ toR'[Len(toR) + 1] = Frame(1 + si, Content[Readable][si])
            /\ \A j \in 1..Len(toR) : toR'[j] = toR[j]
        BY <1>1, <3>1
      <4>3. k \in 1..Len(toR)
        BY <1>2, <4>1, <4>2
      <4> QED BY <1>2, <4>2, <4>3 DEF ManifestInv
    <3> QED BY <3>2, <3>4, <3>5
  <2>6. CASE SendCommit /\ link = "up"
    <3>1. toR' = Append(toR, Frame(1 + Size[sjob], Content[Readable])) /\ si = Size[sjob] /\ si \in Nat
      BY <2>6 DEF SendCommit, Push, TypeOK
    <3>2. Frame(1 + Size[sjob], Content[Readable]).idx # 0
      BY <3>1 DEF Frame
    <3>3. /\ Len(toR') = Len(toR) + 1 /\ Len(toR) \in Nat
          /\ toR'[Len(toR) + 1] = Frame(1 + Size[sjob], Content[Readable])
          /\ \A j \in 1..Len(toR) : toR'[j] = toR[j]
      BY <1>1, <3>1
    <3>4. k \in 1..Len(toR)
      BY <1>2, <3>2, <3>3
    <3> QED BY <1>2, <3>3, <3>4 DEF ManifestInv
  <2> QED BY <2>1, <2>3, <2>5, <2>6, PipeSteps
<1>3. /\ About(rman)'
      /\ rpc' \in Staging => rman'.kind # "Text"
  <2>1. CASE RecvManifest
    <3>1. CASE Head(toR).idx # 0
      BY <2>1, <3>1 DEF RecvManifest, ReceiverExits, ManifestInv, Staging, About
    <3>2. CASE Head(toR).idx = 0
      <4>1. toR # <<>> /\ rman' = Head(toR).body /\ rpc' \in {"Decline", "AckText", "Open"}
        BY <2>1, <3>2 DEF RecvManifest
      <4>2. Head(toR) = toR[1] /\ 1 \in 1..Len(toR)
        BY <1>1, <4>1, TailFacts
      <4>3. About(toR[1].body)
        BY <3>2, <4>2 DEF ManifestInv
      <4> QED BY <4>1, <4>2, <4>3 DEF About, Staging
    <3> QED BY <3>1, <3>2
  <2>2. CASE rman' = rman /\ (rpc' \in Staging => rpc \in Staging \cup {"Open"})
    BY <2>2 DEF ManifestInv, KindInv, About
  <2>3. CASE Connect \/ ReceiveStart \/ ReceiverCrash \/ FinalizeFails
    BY <2>2, <2>3 DEF Connect, ReceiveStart, ReceiverCrash, FinalizeFails, ReceiverExits, Staging
  <2>4. CASE RecvChunk \/ RecvCommit
    BY <2>2, <2>4 DEF RecvChunk, RecvCommit, ReceiverExits, Staging
  <2>5. CASE SendDecline \/ SendAckText \/ OpenStore \/ PersistOpen \/ SendAck \/ RecvSkip
               \/ PersistChunk \/ Install \/ Unpacked \/ RemoveStaging \/ SendCommitAck
               \/ LingerEnd \/ ReceiverLost
    BY <2>2, <2>5 DEF SendDecline, SendAckText, OpenStore, PersistOpen, SendAck, RecvSkip,
       PersistChunk, Install, Unpacked, RemoveStaging, SendCommitAck, LingerEnd, ReceiverLost, Staging
  <2> QED BY <2>1, <2>2, <2>3, <2>4, <2>5, OutsideSteps DEF ReceiverSteps
<1> QED BY <1>2, <1>3 DEF ManifestInv, About

\* The fault counters only grow: what is still untouched was so before.
LEMMA FaultSteps ==
    ASSUME TypeOK, Next
    PROVE  /\ Untouched' => Untouched
           /\ faults'.crashes = 0 => faults.crashes = 0 /\ ~ReceiverCrash
           /\ faults'.ioerrs = 0 => faults.ioerrs = 0 /\ ~FinalizeFails
           /\ Untouched' /\ Kind # "Tar" => \A s \in Source : ~EditDuringSend(s)
<1>1. /\ faults \in [FaultKinds -> Nat]
      /\ faults.edits \in Nat /\ faults.crashes \in Nat /\ faults.ioerrs \in Nat
  BY DEF TypeOK, FaultKinds
<1>2. ASSUME NEW kind \in FaultKinds, Lose(kind)
      PROVE  /\ faults'.edits >= faults.edits /\ faults'.crashes >= faults.crashes
             /\ faults'.ioerrs >= faults.ioerrs
             /\ kind = "edits" => faults'.edits > 0
             /\ kind = "crashes" => faults'.crashes > 0
             /\ kind = "ioerrs" => faults'.ioerrs > 0
             /\ faults'.edits \in Nat /\ faults'.crashes \in Nat /\ faults'.ioerrs \in Nat
  BY <1>1, <1>2 DEF Lose, FaultKinds
<1>3. CASE faults' = faults
  <2>1. ~ReceiverCrash /\ ~FinalizeFails /\ \A s \in Source : ~EditDuringSend(s)
    <3>1. ASSUME NEW kind \in {"crashes", "ioerrs", "edits"}, Lose(kind) PROVE FALSE
      BY <1>1, <1>3, <3>1 DEF Lose, FaultKinds
    <3> QED BY <3>1 DEF ReceiverCrash, FinalizeFails, EditDuringSend
  <2> QED BY <1>3, <2>1 DEF Untouched
<1>4. CASE Faults
  <2>1. PICK kind \in FaultKinds : Lose(kind)
    BY <1>4 DEF Faults, Disconnect, SenderKilled, ReceiverCrash, FinalizeFails, PickSource,
                EditDuringSend, FaultKinds
  <2>2. (ReceiverCrash => faults'.crashes > 0) /\ (FinalizeFails => faults'.ioerrs > 0)
        /\ \A s \in Source : EditDuringSend(s) => faults'.edits > 0
    BY <1>2 DEF ReceiverCrash, FinalizeFails, EditDuringSend, FaultKinds
  <2> QED BY <1>1, <1>2, <2>1, <2>2 DEF Untouched
<1>5. CASE Connect \/ SenderSteps \/ ReceiverSteps \/ UserSteps
  <2>1. faults' = faults
    BY <1>5 DEF Connect, SenderSteps, SendManifest, RecvAck, SkipChunk, SendChunk, SendCommit,
       RecvCommitAck, SenderLost, UserSteps, StartBlob, StartText, SendStart, ReceiveStart,
       ReceiverSteps, RecvManifest, SendDecline, SendAckText, OpenStore, PersistOpen, SendAck,
       RecvSkip, RecvChunk, PersistChunk, RecvCommit, Install, Unpacked, RemoveStaging,
       SendCommitAck, LingerEnd, ReceiverLost
  <2> QED BY <1>3, <2>1
<1> QED BY <1>4, <1>5 DEF Next

\* Every step preserves ChunkInv.
LEMMA ChunkStep ==
    ASSUME TypeOK, HaveInv, JobInv, PipeInv, SessionInv, ChunkInv, Next
    PROVE  ChunkInv'
<1> SUFFICES ASSUME Untouched' PROVE ChunkInv'
  BY DEF ChunkInv
<1>0. Untouched
  BY FaultSteps
<1>1. ASSUME spc' # "Idle", sjob' # TextJob PROVE Readable' = sjob'
  <2>1. CASE Kind = "Tar"
    BY <2>1 DEF Readable
  <2>2. CASE Kind # "Tar"
    <3>1. Kind = "File" /\ \A s \in Source : ~EditDuringSend(s)
      BY <2>2, FlagAssumption, FaultSteps
    <3>2. CASE \E job \in Source \cup {TextJob}, build \in Builds : SendStart(job, build)
      BY <1>1, <3>1, <3>2 DEF SendStart, Readable
    <3>3. CASE UNCHANGED <<file, sjob>> /\ spc # "Idle"
      BY <1>0, <1>1, <3>3 DEF ChunkInv, Readable
    <3>4. CASE SenderSteps \/ Disconnect \/ SenderKilled \/ Connect
      <4>1. UNCHANGED <<file, sjob>> /\ (spc' # "Idle" => spc # "Idle")
        BY <3>4 DEF SenderSteps, SendManifest, RecvAck, SkipChunk, SendChunk, SendCommit,
           RecvCommitAck, SenderLost, SenderLeaves, SenderDone, Disconnect, SenderKilled, Connect,
           svars
      <4> QED BY <1>1, <3>3, <4>1
    <3>5. CASE ReceiverSteps \/ ReceiveStart \/ ReceiverCrash \/ FinalizeFails
      <4>1. UNCHANGED <<file, sjob, spc>>
        BY <3>5 DEF ReceiverSteps, RecvManifest, SendDecline, SendAckText, OpenStore, PersistOpen,
           SendAck, RecvSkip, RecvChunk, PersistChunk, RecvCommit, Install, Unpacked, RemoveStaging,
           SendCommitAck, LingerEnd, ReceiverLost, ReceiveStart, ReceiverCrash, FinalizeFails, svars
      <4> QED BY <1>1, <3>3, <4>1
    <3>6. CASE \E s \in Source : PickSource(s)
      BY <1>1, <3>6 DEF PickSource
    <3>7. CASE StartBlob \/ StartText
      <4>1. file \in Source
        BY DEF TypeOK
      <4> QED BY <3>2, <3>7, <4>1 DEF StartBlob, StartText
    <3> QED BY <3>1, <3>4, <3>5, <3>6, <3>7, Zenon DEF Next, UserSteps, Faults
  <2> QED BY <2>1, <2>2
<1>2. toR \in Seq(ToReceiver) /\ si \in Nat /\ rman.size \in Nat
  BY DEF TypeOK, ManifestSet
<1>3. ASSUME rpc' \in InLoop, NEW k \in 1..Len(toR'), toR'[k].idx <= rman'.size
      PROVE  Original(rman'.tid, toR'[k].idx - 1, toR'[k].body)
  <2>1. CASE SendAck
    <3>1. toR' = <<>>
      BY <2>1 DEF SendAck, PipeInv, BeforeAck
    <3> QED BY <1>3, <3>1
  <2>2. CASE ~SendAck
    <3>1. rpc \in InLoop /\ rman' = rman
      <4>1. CASE UNCHANGED <<rpc, rman, rhave, rskip, ri, rok, dvars>>
        BY <1>3, <4>1
      <4>2. CASE Connect \/ ReceiveStart \/ ReceiverCrash \/ FinalizeFails
        BY <1>3, <4>2 DEF Connect, ReceiveStart, ReceiverCrash, FinalizeFails, ReceiverExits, InLoop
      <4>3. CASE RecvManifest \/ RecvChunk \/ RecvCommit
        BY <1>3, <4>3 DEF RecvManifest, RecvChunk, RecvCommit, ReceiverExits, InLoop
      <4>4. CASE SendDecline \/ SendAckText \/ OpenStore \/ PersistOpen \/ RecvSkip
                   \/ PersistChunk \/ Install \/ Unpacked \/ RemoveStaging \/ SendCommitAck
                   \/ LingerEnd \/ ReceiverLost
        BY <1>3, <4>4 DEF SendDecline, SendAckText, OpenStore, PersistOpen, RecvSkip,
           PersistChunk, Install, Unpacked, RemoveStaging, SendCommitAck, LingerEnd, ReceiverLost,
           InLoop
      <4> QED BY <2>2, <4>1, <4>2, <4>3, <4>4, OutsideSteps DEF ReceiverSteps
    <3>2. CASE \A j \in 1..Len(toR') : \E m \in 1..Len(toR) : toR'[j] = toR[m]
      BY <1>0, <1>3, <3>1, <3>2 DEF ChunkInv
    <3>3. CASE SendManifest /\ link = "up"
      BY <3>1, <3>3 DEF SendManifest, SessionInv, InLoop
    <3>4. CASE SendChunk /\ link = "up" /\ spc' = "Payload"
      <4>1. /\ toR' = Append(toR, Frame(1 + si, Content[Readable][si]))
            /\ si < Size[Readable] /\ spc = "Payload" /\ PayloadPhase
        BY <3>4 DEF SendChunk, SenderLeaves, Push, SessionInv
      <4>2. sjob \in Source /\ rman = Manifest(sjob, sbuild)
        BY <4>1 DEF JobInv, PayloadPhase
      <4>3. Readable = sjob /\ rman.tid = Tid[sjob] /\ Size[sjob] \in Nat
        BY <1>0, <4>1, <4>2, SourceAssumption DEF ChunkInv, Manifest
      <4>4. Original(rman.tid, si, Content[Readable][si])
        BY <1>2, <4>1, <4>2, <4>3 DEF Original, Chunks
      <4>5. /\ Len(toR') = Len(toR) + 1 /\ Len(toR) \in Nat
            /\ toR'[Len(toR) + 1] = Frame(1 + si, Content[Readable][si])
            /\ \A j \in 1..Len(toR) : toR'[j] = toR[j]
        BY <1>2, <4>1
      <4>6. CASE k \in 1..Len(toR)
        BY <1>0, <1>3, <3>1, <4>5, <4>6 DEF ChunkInv
      <4>7. CASE k = Len(toR) + 1
        <5>1. toR'[k].idx - 1 = si /\ toR'[k].body = Content[Readable][si]
          BY <1>2, <4>5, <4>7 DEF Frame
        <5> QED BY <3>1, <4>4, <5>1
      <4> QED BY <4>5, <4>6, <4>7
    <3>5. CASE SendCommit /\ link = "up"
      <4>1. /\ toR' = Append(toR, Frame(1 + Size[sjob], Content[Readable]))
            /\ spc = "Payload" /\ PayloadPhase
        BY <3>5 DEF SendCommit, Push, SessionInv
      <4>2. sjob \in Source /\ rman = Manifest(sjob, sbuild)
        BY <4>1 DEF JobInv, PayloadPhase
      <4>3. rman.size = Size[sjob]
        BY <4>2, ManifestSize
      <4>4. /\ Len(toR') = Len(toR) + 1 /\ Len(toR) \in Nat
            /\ toR'[Len(toR) + 1].idx = 1 + rman.size
            /\ \A j \in 1..Len(toR) : toR'[j] = toR[j]
        BY <1>2, <4>1, <4>3 DEF Frame
      <4>5. k \in 1..Len(toR)
        BY <1>2, <1>3, <3>1, <4>4
      <4> QED BY <1>0, <1>3, <3>1, <4>4, <4>5 DEF ChunkInv
    <3> QED BY <3>2, <3>3, <3>4, <3>5, PipeSteps
  <2> QED BY <2>1, <2>2
<1>4. \A k \in 1..Len(toR') : rpc' \in InLoop /\ toR'[k].idx <= rman'.size
         => Original(rman'.tid, toR'[k].idx - 1, toR'[k].body)
  BY <1>3
<1> QED BY <1>1, <1>4 DEF ChunkInv, Original

\* What open_or_create and write_chunk leave in the data file.
LEMMA SetLenFacts ==
    ASSUME NEW s \in Source, NEW d, NEW tid, NEW have \in SUBSET (0..(Size[s] - 1)),
           have # {} => /\ d # NoFile /\ d \in [0..(Size[s] - 1) -> Block]
                        /\ \A i \in have : Original(tid, i, d[i])
    PROVE  LET e == SetLen(IF have = {} THEN NoFile ELSE d, Size[s]) IN
           /\ e # NoFile /\ e \in [0..(Size[s] - 1) -> Block]
           /\ \A i \in have : Original(tid, i, e[i])
<1> DEFINE e == SetLen(IF have = {} THEN NoFile ELSE d, Size[s])
<1> HIDE DEF Original
<1>1. CASE have = {}
  <2>1. e = [i \in 0..(Size[s] - 1) |-> Hole]
    BY <1>1 DEF SetLen
  <2>2. e \in [0..(Size[s] - 1) -> Block]
    BY <2>1, SourceAssumption
  <2> QED BY <1>1, <2>2, FileAssumption DEF Chunks
<1>2. CASE have # {}
  <2>1. e = [i \in 0..(Size[s] - 1) |-> d[i]]
    BY <1>2 DEF SetLen
  <2>2. e \in [0..(Size[s] - 1) -> Block] /\ \A i \in have : e[i] = d[i]
    BY <1>2, <2>1
  <2> QED BY <1>2, <2>2, FileAssumption DEF Chunks
<1> QED BY <1>1, <1>2

\* Every step preserves DataInv.
LEMMA DataStep ==
    ASSUME TypeOK, HaveInv, KindInv, StoreInv, ManifestInv, ChunkInv, DataInv, Next
    PROVE  DataInv'
<1> SUFFICES ASSUME Untouched', faults'.crashes = 0, faults'.ioerrs = 0
             PROVE  /\ state' # None /\ rpc' \notin {"PersistOpen", "Remove"} =>
                          Holds(state.tid, state.size, state.have)'
                    /\ rpc' \in Staging => Holds(rman.tid, rman.size, rhave)'
                    /\ rpc' = "Persist" => Original(rman.tid, ri, data[ri])'
  BY DEF DataInv
<1>1. /\ Untouched /\ ~ReceiverCrash /\ ~FinalizeFails
      /\ state # None /\ rpc \notin {"PersistOpen", "Remove"} =>
            Holds(state.tid, state.size, state.have)
      /\ rpc \in Staging => Holds(rman.tid, rman.size, rhave)
      /\ rpc = "Persist" => Original(rman.tid, ri, data[ri])
  BY FaultSteps DEF DataInv
<1>2. ASSUME UNCHANGED <<state, data>>, rpc' # "Persist",
             rpc' \in Staging => rpc \in Staging /\ UNCHANGED <<rman, rhave>>,
             rpc \in {"PersistOpen", "Remove"} => rpc' = "Remove"
      PROVE  /\ state' # None /\ rpc' \notin {"PersistOpen", "Remove"} =>
                   Holds(state.tid, state.size, state.have)'
             /\ rpc' \in Staging => Holds(rman.tid, rman.size, rhave)'
             /\ rpc' = "Persist" => Original(rman.tid, ri, data[ri])'
  BY <1>1, <1>2 DEF Holds, Original
<1>3. CASE UNCHANGED <<rpc, rman, rhave, rskip, ri, rok, dvars>>
  BY <1>1, <1>3 DEF Holds, Original, dvars
<1>4. CASE Connect \/ ReceiveStart
  BY <1>2, <1>4 DEF Connect, ReceiveStart, dvars, Staging
<1>5. CASE RecvManifest \/ RecvCommit
  BY <1>2, <1>5 DEF RecvManifest, RecvCommit, ReceiverExits, dvars, Staging
<1>6. CASE SendDecline \/ SendAckText \/ SendAck \/ RecvSkip \/ Unpacked
             \/ SendCommitAck \/ LingerEnd \/ ReceiverLost
  BY <1>2, <1>6 DEF SendDecline, SendAckText, SendAck, RecvSkip, Unpacked, SendCommitAck,
                    LingerEnd, ReceiverLost, dvars, Staging
<1>7. CASE OpenStore
  <2>1. /\ rpc = "Open" /\ rpc' = "PersistOpen" /\ rhave' = IF Reusable THEN state.have ELSE {}
        /\ data' = SetLen(IF rhave' = {} THEN NoFile ELSE data, rman.size)
        /\ rman' = rman
    BY <1>7 DEF OpenStore, OpenedData
  <2>2. PICK s \in Source : rman.tid = Tid[s] /\ rman.size = Size[s]
    BY <2>1 DEF ManifestInv, KindInv, About
  <2>3. rhave' \in SUBSET (0..(Size[s] - 1))
    BY <2>1, <2>2 DEF HaveInv, Reusable
  <2>4. rhave' # {} => /\ data # NoFile /\ data \in [0..(Size[s] - 1) -> Block]
                       /\ \A i \in rhave' : Original(rman.tid, i, data[i])
    BY <1>1, <2>1, <2>2 DEF Reusable, Holds
  <2>5. /\ data' # NoFile /\ data' \in [0..(Size[s] - 1) -> Block]
        /\ \A i \in rhave' : Original(rman.tid, i, data'[i])
    <3> HIDE DEF Original
    <3>1. \A h \in SUBSET (0..(Size[s] - 1)) :
             (h # {} => /\ data # NoFile /\ data \in [0..(Size[s] - 1) -> Block]
                        /\ \A i \in h : Original(rman.tid, i, data[i]))
             => LET e == SetLen(IF h = {} THEN NoFile ELSE data, Size[s]) IN
                /\ e # NoFile /\ e \in [0..(Size[s] - 1) -> Block]
                /\ \A i \in h : Original(rman.tid, i, e[i])
      BY SetLenFacts
    <3> QED BY <2>1, <2>2, <2>3, <2>4, <3>1
  <2> QED BY <2>1, <2>2, <2>5 DEF Holds, Original
<1>8. CASE PersistOpen
  <2>1. /\ rpc = "PersistOpen" /\ rpc' = "Ack" /\ data' = data
        /\ state' = Staged(rman.tid, rman.size, rhave) /\ UNCHANGED <<rman, rhave>>
    BY <1>8 DEF PersistOpen
  <2>2. state'.tid = rman.tid /\ state'.size = rman.size /\ state'.have = rhave
    BY <2>1 DEF Staged
  <2>3. Holds(rman.tid, rman.size, rhave)
    BY <1>1, <2>1 DEF Staging
  <2> QED BY <2>1, <2>2, <2>3 DEF Holds, Original
<1>9. CASE RecvChunk
  <2>1. CASE Head(toR).idx # 1 + ri
    BY <1>2, <1>9, <2>1 DEF RecvChunk, ReceiverExits, Staging
  <2>2. CASE Head(toR).idx = 1 + ri
    <3>1. /\ rpc = "Recv" /\ rpc' = "Persist" /\ toR # <<>> /\ ri < rman.size /\ ri \notin rskip
          /\ data' = [data EXCEPT ![ri] = Head(toR).body] /\ UNCHANGED <<state, rman, rhave, ri>>
      BY <1>9, <2>2 DEF RecvChunk
    <3>2. Head(toR) = toR[1] /\ 1 \in 1..Len(toR) /\ ri \in Nat /\ rman.size \in Nat
      BY <3>1, TailFacts DEF TypeOK, ManifestSet
    <3>3. Original(rman.tid, ri, Head(toR).body)
      <4>1. toR[1].idx <= rman.size /\ toR[1].idx - 1 = ri
        BY <2>2, <3>1, <3>2
      <4>2. Original(rman.tid, toR[1].idx - 1, toR[1].body)
        BY <1>1, <3>1, <3>2, <4>1 DEF ChunkInv, InLoop
      <4> QED BY <3>2, <4>1, <4>2
    <3>4. Head(toR).body \in Block
      BY <3>3, ContentType DEF Original, Chunks
    <3>5. state.tid = rman.tid /\ state.size = rman.size /\ state.have = rhave
      BY <3>1 DEF StoreInv, Staged
    <3>6. ri \notin rhave /\ rhave \subseteq 0..(rman.size - 1)
      BY <3>1, <3>2 DEF HaveInv, InLoop, Staging
    <3>7. PICK s \in Source : rman.size = Size[s]
      BY <3>1 DEF ManifestInv, About, Staging
    <3>8. Holds(rman.tid, rman.size, rhave)
      BY <1>1, <3>1 DEF Staging
    <3>9. /\ data' \in [0..(rman.size - 1) -> Block] /\ data'[ri] = Head(toR).body
          /\ \A i \in rhave : data'[i] = data[i]
      BY <3>1, <3>2, <3>4, <3>6, <3>8 DEF Holds
    <3>10. data' # NoFile
      BY <3>7, <3>9, FileAssumption DEF Chunks
    <3>11. Holds(rman.tid, rman.size, rhave)'
      BY <3>1, <3>8, <3>9, <3>10 DEF Holds, Original
    <3>12. Original(rman.tid, ri, data[ri])'
      BY <3>1, <3>3, <3>9 DEF Original
    <3> QED BY <3>1, <3>5, <3>11, <3>12 DEF Holds, Original
  <2> QED BY <2>1, <2>2
<1>10. CASE PersistChunk
  <2>1. /\ rpc = "Persist" /\ rpc' = "Recv" /\ data' = data
        /\ state' = Staged(rman.tid, rman.size, rhave \cup {ri})
        /\ rhave' = rhave \cup {ri} /\ rman' = rman
    BY <1>10 DEF PersistChunk
  <2>2. state'.tid = rman.tid /\ state'.size = rman.size /\ state'.have = rhave \cup {ri}
    BY <2>1 DEF Staged
  <2>3. Holds(rman.tid, rman.size, rhave) /\ Original(rman.tid, ri, data[ri])
    BY <1>1, <2>1 DEF Staging
  <2>4. \A i \in rhave \cup {ri} : Original(rman.tid, i, data[i])
    BY <2>3 DEF Holds
  <2> QED BY <2>1, <2>2, <2>3, <2>4 DEF Holds, Original
<1>11. CASE Install
  BY <1>1, <1>11 DEF Install, Holds, Original, Staging
<1>12. CASE RemoveStaging
  BY <1>12 DEF RemoveStaging, Staging
<1> QED BY <1>1, <1>3, <1>4, <1>5, <1>6, <1>7, <1>8, <1>9, <1>10, <1>11, <1>12, OutsideSteps
        DEF ReceiverSteps

-----------------------------------------------------------------------------
(* The theorems.                                                           *)

\* StreamInv holds initially.
LEMMA StreamInit ==
    ASSUME Init
    PROVE  StreamInv
<1>1. TypeOK
  <2>1. rman \in ManifestSet
    BY ManifestType DEF Init
  <2>2. sack \in AckSet
    BY AckType DEF Init, Decline
  <2>3. toR \in Seq(ToReceiver) /\ toS \in Seq(ToSender)
    BY DEF Init
  <2>4. faults \in [FaultKinds -> Nat]
    BY DEF Init, FaultKinds
  <2> QED BY <2>1, <2>2, <2>3, <2>4 DEF Init, TypeOK
<1>2. HaveInv /\ LinkInv /\ JobInv /\ KindInv
  BY DEF Init, HaveInv, LinkInv, JobInv, KindInv, Staging, InLoop
<1>3. PipeInv /\ ReplyInv /\ SessionInv
  BY DEF Init, PipeInv, ReplyInv, SessionInv, BeforeAck, InLoop
<1>4. VerifiedInv /\ DeliveredWhole /\ SuccessInv
  BY DEF Init, VerifiedInv, DeliveredWhole, SuccessInv, Finalizing
<1>5. EmptiedInv /\ StoreInv /\ ChunkInv /\ DataInv
  BY DEF Init, EmptiedInv, StoreInv, ChunkInv, DataInv, InLoop, Staging
<1>6. ManifestInv
  <2>1. About(Manifest(TextJob, OurBuild))
    BY ManifestAbout
  <2> QED BY <2>1 DEF Init, ManifestInv, Staging
<1> QED BY <1>1, <1>2, <1>3, <1>4, <1>5, <1>6 DEF StreamInv

\* Every step preserves StreamInv.
LEMMA StreamNext ==
    ASSUME StreamInv, Next
    PROVE  StreamInv'
<1> USE DEF StreamInv
<1>1. TypeOK'
  BY SenderTypeStep, ReceiverTypeStep, OtherTypeStep DEF Next
<1>2. HaveInv' /\ LinkInv' /\ JobInv' /\ KindInv'
  BY HaveStep, LinkStep, JobStep, KindStep
<1>3. PipeInv' /\ ReplyInv' /\ SessionInv'
  BY PipeStep, ReplyStep, SessionStep
<1>4. VerifiedInv' /\ DeliveredWhole' /\ SuccessInv'
  BY VerifiedStep, DeliveredStep, SuccessStep
<1>5. EmptiedInv' /\ StoreInv' /\ ManifestInv' /\ ChunkInv'
  BY EmptiedStep, StoreStep, ManifestStep, ChunkStep
<1>6. DataInv'
  BY DataStep
<1> QED BY <1>1, <1>2, <1>3, <1>4, <1>5, <1>6

\* A stuttering step preserves StreamInv.
LEMMA StreamStutter ==
    ASSUME StreamInv, UNCHANGED vars
    PROVE  StreamInv'
<1> USE DEF vars, svars, chan, rvars, dvars
<1>1. UNCHANGED <<From, Pending>>
  BY DEF From, Pending
<1>2. TypeOK' /\ HaveInv' /\ LinkInv' /\ JobInv' /\ KindInv'
  BY DEF StreamInv, TypeOK, HaveInv, LinkInv, JobInv, KindInv, SenderOnChannel,
         ReceiverOnChannel
<1>3. PipeInv' /\ ReplyInv'
  BY <1>1 DEF StreamInv, PipeInv, ReplyInv
<1>4. SessionInv'
  BY <1>1 DEF StreamInv, SessionInv, AckPhase, PayloadPhase, CommitPhase, SkipAgree
<1>5. VerifiedInv' /\ DeliveredWhole' /\ SuccessInv'
  BY DEF StreamInv, VerifiedInv, DeliveredWhole, SuccessInv
<1>6. EmptiedInv' /\ StoreInv' /\ ManifestInv'
  BY DEF StreamInv, EmptiedInv, StoreInv, ManifestInv, About, Reusable
<1>7. ChunkInv'
  BY DEF StreamInv, ChunkInv, Untouched, Readable, Original
<1>8. UNCHANGED <<Holds(state.tid, state.size, state.have), Holds(rman.tid, rman.size, rhave),
                  Original(rman.tid, ri, data[ri]), Untouched>>
  BY DEF Holds, Original, Untouched
<1>9. DataInv'
  BY <1>8 DEF StreamInv, DataInv
<1> QED BY <1>2, <1>3, <1>4, <1>5, <1>6, <1>7, <1>9 DEF StreamInv

\* StreamInv is an invariant of the transfer: of send_source, recv_into, the
\* store and every fault, for every choice of payloads, flags and bounds.
THEOREM StreamInvariant == Spec => []StreamInv
<1>1. Init => StreamInv
  BY StreamInit
<1>2. StreamInv /\ [Next]_vars => StreamInv'
  BY StreamNext, StreamStutter
<1> QED BY <1>1, <1>2, PTL DEF Spec

\* Every variable keeps its type.
THEOREM StreamTypes == Spec => []TypeOK
<1>1. StreamInv => TypeOK
  BY DEF StreamInv
<1> QED BY <1>1, StreamInvariant, PTL

\* The frame at the head of the pipe is the one recv_into waits for, and the
\* reply at the head is the one send_source waits for: no frame is ever
\* opened at another nonce index than the one it was sealed at.
THEOREM StreamInStep == Spec => []InStep
<1>1. ASSUME StreamInv PROVE InStep
  <2> USE <1>1 DEF StreamInv
  <2>1. ASSUME ReceiverExpects, toR # <<>> PROVE Head(toR).idx = ExpectedIdx
    <3>1. Head(toR) = toR[1] /\ 1 \in 1..Len(toR) /\ toR \in Seq(ToReceiver)
      BY <2>1, TailFacts DEF TypeOK
    <3>2. CASE rpc = "Manifest"
      BY <3>1, <3>2 DEF PipeInv, ExpectedIdx
    <3>3. CASE rpc = "Recv"
      <4>1. InitialPart(toR, Pending) /\ Pending \in SUBSET Nat
        BY <3>3, PendingFacts DEF PipeInv, InLoop
      <4>2. ri \in Nat /\ rman.size \in Nat /\ ri <= rman.size /\ From = ri
        BY <3>3 DEF TypeOK, ManifestSet, HaveInv, InLoop, From
      <4>3. 1 + ri \in Pending
        <5>1. CASE ri = rman.size
          BY <5>1, PendingFacts
        <5>2. CASE ri < rman.size
          <6>1. ri \notin rskip /\ ri \in From..(rman.size - 1)
            BY <2>1, <3>3, <4>2, <5>2 DEF ReceiverExpects
          <6> QED BY <6>1, PendingFacts
        <5> QED BY <4>2, <5>1, <5>2
      <4>4. Head(toR).idx \in Pending /\ Head(toR).idx <= 1 + ri
        BY <2>1, <3>1, <4>1, <4>3, TailInitialPart
      <4>5. Head(toR).idx >= 1 + ri
        BY <4>2, <4>4, PendingFacts
      <4>6. Head(toR).idx \in Nat
        BY <4>1, <4>4
      <4> QED BY <3>3, <4>2, <4>4, <4>5, <4>6 DEF ExpectedIdx
    <3> QED BY <2>1, <3>2, <3>3 DEF ReceiverExpects
  <2>2. toS # <<>> => Head(toS) = toS[1] /\ 1 \in 1..Len(toS)
    BY TailFacts DEF TypeOK
  <2> QED BY <2>1, <2>2 DEF InStep, ReplyInv
<1> QED BY <1>1, StreamInvariant, PTL

\* Resume sends only what is missing.
THEOREM StreamOnlyMissingSent == Spec => []OnlyMissingSent
<1>1. ASSUME StreamInv PROVE OnlyMissingSent
  <2> USE <1>1 DEF StreamInv
  <2>1. ASSUME rpc = "Recv", NEW k \in 1..Len(toR) PROVE toR[k].idx - 1 \notin rhave
    <3>1. toR[k].idx \in Pending
      BY <2>1 DEF PipeInv, InLoop, InitialPart
    <3>2. /\ ri \in Nat /\ rman.size \in Nat /\ ri <= rman.size /\ From = ri
          /\ rhave \subseteq rskip \cup 0..(ri - 1)
          /\ rhave \subseteq 0..(rman.size - 1)
      BY <2>1 DEF TypeOK, ManifestSet, HaveInv, InLoop, Staging, From
    <3>3. \/ toR[k].idx = 1 + rman.size
          \/ toR[k].idx - 1 \in (ri..(rman.size - 1)) \ rskip
      BY <3>1, <3>2, PendingFacts
    <3>4. CASE toR[k].idx = 1 + rman.size
      BY <3>2, <3>4
    <3>5. CASE toR[k].idx - 1 \in (ri..(rman.size - 1)) \ rskip
      BY <3>2, <3>5
    <3> QED BY <3>3, <3>4, <3>5
  <2> QED BY <2>1 DEF OnlyMissingSent
<1> QED BY <1>1, StreamInvariant, PTL

\* Whatever finalize puts in place is one whole payload.
THEOREM StreamDeliveredWhole == Spec => []DeliveredWhole
<1>1. StreamInv => DeliveredWhole
  BY DEF StreamInv
<1> QED BY <1>1, StreamInvariant, PTL

\* `b2p send` reports success only when the receiver has the payload.
THEOREM StreamSuccess == Spec => []SuccessMeansDelivered
<1>1. StreamInv => SuccessMeansDelivered
  BY DEF StreamInv, SuccessInv, SuccessMeansDelivered
<1> QED BY <1>1, StreamInvariant, PTL

\* When recv_into is about to report success for a file or a bundle, nothing of
\* the staging directory is left.
THEOREM StreamSuccessLeavesNoStaging == Spec => []SuccessLeavesNoStaging
<1>1. StreamInv => SuccessLeavesNoStaging
  BY DEF StreamInv, EmptiedInv, SuccessLeavesNoStaging
<1> QED BY <1>1, StreamInvariant, PTL

\* Between sessions the chunks state.json lists are in the data file with the
\* contents of a payload of that transfer_id, unless a kill or an I/O error cut
\* the store's own steps in two or a file was edited while it was read.
THEOREM StreamStagedTruthful == Spec => []StagedTruthful
<1>1. StreamInv => StagedTruthful
  BY DEF StreamInv, DataInv, Untouched, Holds, Original, StagedTruthful
<1> QED BY <1>1, StreamInvariant, PTL

\* No step, not even a crash, a failed finalize or a foreign manifest, takes staged
\* chunks off a state.json that stays about the same payload.
THEOREM StreamProgressKept == Spec => ProgressKept
<1> DEFINE Kept == state # None /\ state' # None /\ state'.tid = state.tid
                      /\ state'.size = state.size => state.have \subseteq state'.have
<1>1. ASSUME StreamInv, [Next]_vars PROVE Kept
  <2>1. CASE state' = state
    BY <2>1
  <2>2. CASE PersistOpen
    <3>1. rpc = "PersistOpen" /\ state' = Staged(rman.tid, rman.size, rhave)
      BY <2>2 DEF PersistOpen
    <3>2. state'.tid = rman.tid /\ state'.size = rman.size /\ state'.have = rhave
      BY <3>1 DEF Staged
    <3> QED BY <1>1, <3>1, <3>2 DEF StreamInv, StoreInv, Reusable
  <2>3. CASE PersistChunk
    <3>1. /\ rpc = "Persist" /\ state' = Staged(rman.tid, rman.size, rhave \cup {ri})
      BY <2>3 DEF PersistChunk
    <3>2. state = Staged(rman.tid, rman.size, rhave)
      BY <1>1, <3>1 DEF StreamInv, StoreInv
    <3>3. state'.have = rhave \cup {ri} /\ state.have = rhave
      BY <3>1, <3>2 DEF Staged
    <3> QED BY <3>3
  <2>4. CASE RemoveStaging
    BY <2>4 DEF RemoveStaging
  <2>5. CASE UNCHANGED vars \/ Connect \/ ReceiveStart \/ ReceiverCrash \/ FinalizeFails
    BY <2>1, <2>5 DEF vars, Connect, ReceiveStart, ReceiverCrash, FinalizeFails, dvars
  <2>6. CASE RecvManifest \/ SendDecline \/ SendAckText \/ OpenStore \/ SendAck \/ RecvSkip
               \/ RecvChunk \/ RecvCommit \/ Install \/ Unpacked \/ SendCommitAck \/ LingerEnd
               \/ ReceiverLost
    BY <2>1, <2>6 DEF RecvManifest, SendDecline, SendAckText, OpenStore, SendAck, RecvSkip, RecvChunk,
       RecvCommit, Install, Unpacked, SendCommitAck, LingerEnd, ReceiverLost, dvars
  <2> QED BY <1>1, <2>1, <2>2, <2>3, <2>4, <2>5, <2>6, OutsideSteps DEF ReceiverSteps, dvars
<1>2. StreamInv /\ [Next]_vars => [Kept]_vars
  BY <1>1
<1> QED BY <1>2, StreamInvariant, PTL DEF Spec, ProgressKept

\* A step that keeps the invariant is a step of Handoff or changes nothing there:
\* finalize only writes the destination while no report is out, and a report
\* is about what is there.
LEMMA PromiseStep ==
    ASSUME StreamInv, StreamInv', [Next]_vars
    PROVE  [Promise!Next]_<<dest, Reported>>
<1>1. CASE Install \/ Unpacked
  <2>1. rpc \in Finalizing /\ rpc \notin Gone
    BY <1>1 DEF Install, Unpacked, Finalizing, Gone
  <2>2. Reported = NoFile
    BY <2>1 DEF Reported, StreamInv, SuccessInv
  <2>3. UNCHANGED <<sres, sjob, scommit>>
    BY <1>1 DEF Install, Unpacked, svars
  <2>4. Reported' = Reported
    BY <2>3 DEF Reported
  <2>5. dest' \in Payloads \cup (IF Kind = "Tar" THEN {Torn} ELSE {})
    BY <1>1, <2>1 DEF Install, Unpacked, StreamInv, VerifiedInv
  <2> QED BY <2>2, <2>4, <2>5 DEF Promise!Next, Promise!Put
<1>2. CASE dest' = dest /\ Reported' # Reported /\ Reported' # NoFile
  <2>1. Reported' = scommit' /\ dest = scommit' /\ scommit' \in Payloads
    BY <1>2 DEF Reported, StreamInv, SuccessInv, TypeOK
  <2>2. Reported = NoFile
    BY <1>2, <2>1 DEF Reported, StreamInv, SuccessInv
  <2> QED BY <1>2, <2>1, <2>2 DEF Promise!Next, Promise!Report
<1>3. CASE dest' = dest /\ Reported' = NoFile
  BY <1>3 DEF Promise!Next, Promise!Again
<1>4. CASE UNCHANGED vars
  BY <1>4 DEF vars, svars, dvars, Reported
<1>5. CASE dest' = dest /\ Reported' = Reported
  BY <1>5
<1> QED BY <1>1, <1>2, <1>3, <1>4, <1>5, DestSteps

\* The transfer implements what it promises: StreamTransfer refines Handoff.
THEOREM StreamKeepsPromise == Spec => KeepsPromise
<1>1. Init => Promise!Init
  BY DEF Init, Promise!Init, Reported
<1>2. StreamInv /\ StreamInv' /\ [Next]_vars => [Promise!Next]_<<dest, Reported>>
  BY PromiseStep
<1> QED BY <1>1, <1>2, StreamInvariant, PTL DEF Spec, KeepsPromise, Promise!Spec
=============================================================================
