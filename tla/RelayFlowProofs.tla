-------------------------- MODULE RelayFlowProofs ---------------------------
(***************************************************************************)
(* Proofs about RelayFlow for every window, ack threshold, frame limit and *)
(* number of frames: what is buffered is bounded, and no send is blocked   *)
(* on a window that nothing under way could open.                          *)
(***************************************************************************)
EXTENDS RelayFlow, TLAPS

-----------------------------------------------------------------------------
(* Climbing sequences.                                                     *)

\* A non-empty sequence has a last place.
LEMMA NonEmpty ==
    ASSUME NEW q \in Seq(Nat), q # <<>>
    PROVE  Len(q) \in Nat /\ Len(q) >= 1
  OBVIOUS

\* Taking the head off a climbing sequence raises its lower end to it.
LEMMA ClimbsTail ==
    ASSUME NEW q \in Seq(Nat), q # <<>>, NEW lo \in Nat, NEW hi \in Nat, Climbs(q, lo, hi)
    PROVE  /\ Head(q) \in Nat /\ lo < Head(q) /\ Head(q) <= hi
           /\ Tail(q) \in Seq(Nat) /\ Climbs(Tail(q), Head(q), hi)
           /\ Tail(q) = <<>> => Head(q) = q[Len(q)]
           /\ Tail(q) # <<>> => Tail(q)[Len(Tail(q))] = q[Len(q)]
<1>1. /\ Head(q) = q[1] /\ Len(q) \in Nat /\ Len(q) >= 1
      /\ Tail(q) \in Seq(Nat) /\ Len(Tail(q)) = Len(q) - 1
      /\ \A k \in 1..(Len(q) - 1) : Tail(q)[k] = q[k + 1]
  OBVIOUS
<1>2. \A k \in 1..Len(q) : q[k] \in Nat
  OBVIOUS
<1>3. Climbs(Tail(q), Head(q), hi)
  <2>1. ASSUME NEW k \in 1..Len(Tail(q))
        PROVE  Head(q) < Tail(q)[k] /\ Tail(q)[k] <= hi
    <3>1. 1 \in 1..Len(q) /\ k + 1 \in 1..Len(q) /\ 1 < k + 1
      BY <1>1
    <3> QED BY <1>1, <3>1 DEF Climbs
  <2>2. ASSUME NEW k \in 1..Len(Tail(q)), NEW m \in 1..Len(Tail(q)), k < m
        PROVE  Tail(q)[k] < Tail(q)[m]
    <3>1. k + 1 \in 1..Len(q) /\ m + 1 \in 1..Len(q) /\ k + 1 < m + 1
      BY <1>1, <2>2
    <3> QED BY <1>1, <3>1 DEF Climbs
  <2> QED BY <2>1, <2>2 DEF Climbs
<1>4. Head(q) \in Nat /\ lo < Head(q) /\ Head(q) <= hi
  BY <1>1, <1>2 DEF Climbs
<1>5. Tail(q) = <<>> => Len(q) = 1
  <2>1. Len(<<>>) = 0
    OBVIOUS
  <2>2. Tail(q) = <<>> => Len(q) - 1 = 0
    BY <1>1, <2>1, Zenon
  <2> QED BY <1>1, <2>2
<1>6. Tail(q) # <<>> => Len(Tail(q)) \in 1..(Len(q) - 1)
  <2>1. Tail(q) # <<>> => Len(Tail(q)) >= 1
    BY <1>1, NonEmpty
  <2> QED BY <1>1, <2>1
<1> QED BY <1>1, <1>3, <1>4, <1>5, <1>6

\* A larger number can be appended to a climbing sequence.
LEMMA ClimbsAppend ==
    ASSUME NEW q \in Seq(Nat), NEW lo \in Nat, NEW hi \in Nat, NEW n \in Nat,
           Climbs(q, lo, hi), lo <= hi, hi < n
    PROVE  /\ Append(q, n) \in Seq(Nat) /\ Climbs(Append(q, n), lo, n)
           /\ Append(q, n) # <<>> /\ Append(q, n)[Len(Append(q, n))] = n
<1> DEFINE a == Append(q, n)
<1>1. /\ Len(q) \in Nat /\ Len(a) = Len(q) + 1 /\ a \in Seq(Nat)
      /\ \A k \in 1..Len(q) : a[k] = q[k] /\ a[k] \in Nat
      /\ a[Len(q) + 1] = n
  OBVIOUS
<1>2. \A k \in 1..Len(a) : k \in 1..Len(q) \/ k = Len(q) + 1
  BY <1>1
<1> HIDE DEF a
<1>3. \A k \in 1..Len(q) : lo < a[k] /\ a[k] < n
  <2>1. \A k \in 1..Len(q) : lo < q[k] /\ q[k] <= hi
    BY DEF Climbs
  <2>2. ASSUME NEW k \in 1..Len(q) PROVE lo < a[k] /\ a[k] < n
    <3>1. q[k] \in Nat /\ a[k] = q[k] /\ lo < q[k] /\ q[k] <= hi
      BY <1>1, <2>1
    <3> QED BY <3>1
  <2> QED BY <2>2
<1>4. \A k \in 1..Len(a) : lo < a[k] /\ a[k] <= n
  BY <1>1, <1>2, <1>3
<1>5. ASSUME NEW k \in 1..Len(a), NEW m \in 1..Len(a), k < m PROVE a[k] < a[m]
  <2>1. k \in 1..Len(q)
    BY <1>1, <1>2, <1>5
  <2>2. CASE m = Len(q) + 1
    BY <1>1, <1>3, <2>1, <2>2
  <2>3. CASE m \in 1..Len(q)
    BY <1>1, <1>5, <2>1, <2>3 DEF Climbs
  <2> QED BY <1>2, <2>2, <2>3
<1>6. Climbs(a, lo, n)
  BY <1>4, <1>5 DEF Climbs
<1>7. a # <<>>
  BY <1>1
<1> QED BY <1>1, <1>6, <1>7 DEF a

\* A climbing sequence climbs within wider bounds.
LEMMA ClimbsWider ==
    ASSUME NEW q \in Seq(Nat), NEW lo \in Nat, NEW hi \in Nat, NEW top \in Nat,
           Climbs(q, lo, hi), hi <= top
    PROVE  Climbs(q, lo, top)
<1>1. \A k \in 1..Len(q) : q[k] \in Nat
  OBVIOUS
<1> QED BY <1>1 DEF Climbs

\* The bytes sent up to a frame.
LEMMA OffType ==
    ASSUME TypeOK, NEW i \in 0..Len(off)
    PROVE  Off(i) \in Nat
  BY DEF TypeOK, Off

-----------------------------------------------------------------------------
(* The sender.                                                             *)

\* A frame that passes the window check.
LEMMA SendPassStep ==
    ASSUME FlowInv, SendPass
    PROVE  FlowInv'
<1> USE DEF FlowInv
<1>1. UNCHANGED <<acked, taken, flushed, txio, link, wire, acks, rxvars>>
      /\ want' = 0 /\ sent' = sent + want /\ want \in Nat /\ want > 0
      /\ (app' = app \/ app' = "Lost")
  BY DEF SendPass, TypeOK
<1>2. off' = off \/ (txio # "dead" /\ off' = Append(off, sent'))
  BY DEF SendPass
<1>3. txio = "dead" => off' = off
  BY DEF SendPass
<1>4. sent' \in Nat /\ off' \in Seq(Nat)
  <2>1. sent' \in Nat /\ off \in Seq(Nat)
    BY <1>1 DEF TypeOK
  <2> QED BY <1>2, <2>1
<1>5. TypeOK'
  BY <1>1, <1>4 DEF TypeOK, rxvars
<1>6. BufferBounded'
  BY <1>1, FlowAssumption DEF SendPass, WindowOpen, Unacked, BufferBounded, Larger, WantInv, TypeOK
<1>7. CASE off' = off
  <2>1. \A i : Off(i)' = Off(i)
    BY <1>7 DEF Off
  <2>2. Len(off) \in 0..Len(off) /\ pushed \in 0..Len(off)
    BY DEF FrameInv, TypeOK
  <2>3. FrameInv'
    <3>1. txio = "dead"
      BY <1>1, <1>2, <1>7, <2>2 DEF SendPass, TypeOK
    <3>2. Off(Len(off)) \in Nat /\ Len(off') = Len(off)
      BY <1>7, <2>2, OffType
    <3> QED BY <1>1, <1>7, <2>1, <3>1, <3>2 DEF FrameInv, TypeOK, rxvars
  <2>4. AckInv' /\ WireInv' /\ WantInv'
    BY <1>1, <1>7, <2>1, FlowAssumption DEF AckInv, WireInv, WantInv, Climbs, rxvars
  <2> QED BY <1>5, <1>6, <2>3, <2>4
<1>8. CASE off' = Append(off, sent') /\ txio # "dead"
  <2>1. /\ Len(off) \in Nat /\ Len(off') = Len(off) + 1
        /\ \A i \in 1..Len(off) : off'[i] = off[i]
        /\ off'[Len(off) + 1] = sent'
    BY <1>4, <1>8 DEF TypeOK
  <2>2. \A i \in 0..Len(off) : Off(i)' = Off(i) /\ Off(i) \in Nat
    BY <2>1, OffType DEF Off
  <2>3. /\ Off(Len(off))' = sent'
        /\ \A i : i = Len(off) + 1 => Off(i)' = sent'
        /\ Off(Len(off)) = sent
    <3>1. Off(Len(off))' = off'[Len(off')]
      BY <2>1 DEF Off
    <3>2. \A i : i = Len(off) + 1 => Off(i)' = off'[Len(off) + 1]
      BY <2>1 DEF Off
    <3>3. Off(Len(off)) = sent
      BY <1>8 DEF FrameInv
    <3> QED BY <2>1, <3>1, <3>2, <3>3
  <2>4. ASSUME NEW i \in 0..Len(off'), NEW j \in 0..Len(off'), i <= j
        PROVE  Off(i)' <= Off(j)'
    <3>1. CASE j \in 0..Len(off)
      <4>1. i \in 0..Len(off)
        BY <2>1, <2>4, <3>1
      <4> QED BY <2>2, <2>4, <3>1, <4>1 DEF FrameInv
    <3>2. CASE j = Len(off) + 1
      <4>1. CASE i = j
        <5>1. Off(i)' = Off(j)' /\ Off(i)' \in Nat
          BY <1>4, <2>3, <3>2, <4>1
        <5> QED BY <5>1
      <4>2. CASE i \in 0..Len(off)
        <5>1. Off(i) <= Off(Len(off)) /\ Off(i)' = Off(i) /\ Off(i) \in Nat
          BY <2>1, <2>2, <4>2 DEF FrameInv
        <5>2. Off(j)' = sent' /\ Off(Len(off)) = sent
          BY <2>3, <3>2
        <5>3. sent <= sent' /\ sent \in Nat
          BY <1>1 DEF TypeOK
        <5> QED BY <1>4, <5>1, <5>2, <5>3
      <4> QED BY <2>1, <2>4, <3>2, <4>1, <4>2
    <3> QED BY <2>1, <3>1, <3>2
  <2>5. FrameInv'
    <3>1. /\ (got <= pushed /\ pushed <= batch /\ batch <= flushed /\ flushed <= taken)'
          /\ taken' <= Len(off')
      BY <1>1, <2>1 DEF FrameInv, TypeOK, rxvars
    <3>2. (Off(Len(off)) <= sent)'
      BY <1>4, <2>3
    <3>3. (\A i, j \in 0..Len(off) : i <= j => Off(i) <= Off(j))'
      BY <2>4
    <3> QED BY <2>3, <3>1, <3>2, <3>3 DEF FrameInv
  <2>6. AckInv'
    <3>1. pushed \in 0..Len(off) /\ Len(off) \in 0..Len(off)
      BY <2>1 DEF FrameInv, TypeOK
    <3>2. Off(pushed)' = Off(pushed)
      BY <1>1, <2>2, <3>1 DEF rxvars, Off
    <3>3. consumed' <= Off(Len(off))'
      <4>1. consumed <= sent /\ sent <= sent' /\ consumed' = consumed
        BY <1>1, <2>3 DEF AckInv, TypeOK, rxvars
      <4>2. consumed \in Nat /\ sent \in Nat
        BY DEF TypeOK
      <4> QED BY <1>4, <2>3, <4>1, <4>2
    <3> QED BY <1>1, <3>2, <3>3 DEF AckInv, Climbs, rxvars
  <2>7. WireInv' /\ WantInv'
    BY <1>1, FlowAssumption DEF WireInv, WantInv, Climbs, rxvars
  <2> QED BY <1>5, <1>6, <2>5, <2>6, <2>7
<1> QED BY <1>2, <1>7, <1>8

\* The steps of the sender that move no bytes.
LEMMA QuietTxStep ==
    ASSUME FlowInv,
           (\E len \in Lens : SendCall(len)) \/ SendGivesUp \/ Close \/ Take
              \/ TxDies \/ CloseSocket
    PROVE  FlowInv'
<1> USE DEF FlowInv
<1>1. /\ UNCHANGED <<sent, off, acked, flushed, wire, acks, rxvars>>
      /\ \A i : Off(i)' = Off(i)
  BY DEF SendCall, SendGivesUp, Close, Take, TxDies, CloseSocket, Off
<1>2. /\ link' = link \/ link' = "closing"
      /\ taken' = taken \/ taken' = Len(off)
      /\ txio # "dead" \/ txio' = txio
      /\ app' \in {"Run", "Closed", "TooBig", "Lost"}
      /\ txio' \in {"run", "closing", "dead"}
  BY DEF SendCall, SendGivesUp, Close, Take, TxDies, CloseSocket, TypeOK
<1>3. want' \in Nat /\ want' <= MaxFrame
  BY FlowAssumption
     DEF SendCall, SendGivesUp, Close, Take, TxDies, CloseSocket, TypeOK, WantInv
<1>4. TypeOK'
  BY <1>1, <1>2, <1>3 DEF TypeOK, rxvars
<1>5. FrameInv'
  BY <1>1, <1>2 DEF FrameInv, TypeOK, rxvars
<1>6. WireInv' /\ AckInv'
  BY <1>1, <1>2 DEF WireInv, AckInv, Climbs, rxvars
<1>7. WantInv' /\ BufferBounded'
  BY <1>1, <1>3 DEF WantInv, BufferBounded, Unacked
<1> QED BY <1>4, <1>5, <1>6, <1>7

\* A WS message goes out.
LEMMA FlushStep ==
    ASSUME FlowInv, Flush
    PROVE  FlowInv'
<1> USE DEF FlowInv
<1>1. PICK k \in (flushed + 1)..taken : flushed' = k /\ wire' = Append(wire, k)
  BY DEF Flush
<1>2. /\ UNCHANGED <<app, want, sent, off, acked, taken, txio, link, acks, rxvars>>
      /\ \A i : Off(i)' = Off(i)
  BY DEF Flush, Off
<1>3. k \in Nat /\ flushed < k /\ k <= taken /\ batch <= flushed
  BY <1>1 DEF TypeOK, FrameInv
<1>4. /\ wire' \in Seq(Nat) /\ Climbs(wire', batch, flushed')
      /\ wire' # <<>> /\ wire'[Len(wire')] = flushed'
  <2>1. wire \in Seq(Nat) /\ batch \in Nat /\ flushed \in Nat /\ Climbs(wire, batch, flushed)
    BY DEF TypeOK, WireInv
  <2>2. /\ Append(wire, k) \in Seq(Nat) /\ Climbs(Append(wire, k), batch, k)
        /\ Append(wire, k) # <<>> /\ Append(wire, k)[Len(Append(wire, k))] = k
    BY <1>3, <2>1, ClimbsAppend
  <2> QED BY <1>1, <2>2
<1>5. TypeOK'
  BY <1>1, <1>2, <1>3, <1>4 DEF TypeOK, rxvars
<1>6. FrameInv'
  BY <1>1, <1>2, <1>3 DEF FrameInv, TypeOK, rxvars
<1>7. WireInv'
  BY <1>2, <1>4 DEF WireInv, rxvars
<1>8. AckInv' /\ WantInv' /\ BufferBounded'
  BY <1>2 DEF AckInv, WantInv, BufferBounded, Unacked, Climbs, rxvars
<1> QED BY <1>5, <1>6, <1>7, <1>8

\* An ack arrives: the acks under way never lead past what was sent.
LEMMA GetAckStep ==
    ASSUME FlowInv, GetAck
    PROVE  FlowInv'
<1> USE DEF FlowInv
<1>1. /\ acks # <<>> /\ acked' = Head(acks) /\ acks' = Tail(acks)
      /\ UNCHANGED <<app, want, sent, off, taken, flushed, txio, link, wire, rxvars>>
      /\ \A i : Off(i)' = Off(i)
  BY DEF GetAck, Off
<1>2. /\ Head(acks) \in Nat /\ acked < Head(acks) /\ Head(acks) <= acked_out
      /\ Tail(acks) \in Seq(Nat) /\ Climbs(Tail(acks), Head(acks), acked_out)
      /\ Tail(acks) = <<>> => Head(acks) = acks[Len(acks)]
      /\ Tail(acks) # <<>> => Tail(acks)[Len(Tail(acks))] = acks[Len(acks)]
  BY <1>1, ClimbsTail DEF AckInv, TypeOK
<1>3. TypeOK'
  BY <1>1, <1>2 DEF TypeOK, rxvars
<1>4. FrameInv' /\ WireInv' /\ WantInv'
  BY <1>1 DEF FrameInv, WireInv, WantInv, Climbs, rxvars
<1>5. AckInv'
  BY <1>1, <1>2 DEF AckInv, TypeOK, rxvars
<1>6. BufferBounded'
  <2>1. Off(Len(off)) \in Nat
    BY OffType DEF TypeOK
  <2>2. acked_out <= sent
    BY <2>1 DEF AckInv, FrameInv, TypeOK
  <2> QED BY <1>1, <1>2, <2>2, FlowAssumption DEF BufferBounded, Unacked, TypeOK, Larger
<1> QED BY <1>3, <1>4, <1>5, <1>6

-----------------------------------------------------------------------------
(* The receiver.                                                           *)

\* A WS message is read.
LEMMA ReadMessageStep ==
    ASSUME FlowInv, ReadMessage
    PROVE  FlowInv'
<1> USE DEF FlowInv
<1>1. /\ wire # <<>> /\ batch' = Head(wire) /\ wire' = Tail(wire) /\ batch = pushed
      /\ UNCHANGED <<txvars, link, acks, pushed, got, consumed, acked_out, rxio, rxapp>>
      /\ \A i : Off(i)' = Off(i)
  BY DEF ReadMessage, Off, txvars
<1>2. /\ Head(wire) \in Nat /\ batch < Head(wire) /\ Head(wire) <= flushed
      /\ Tail(wire) \in Seq(Nat) /\ Climbs(Tail(wire), Head(wire), flushed)
      /\ Tail(wire) = <<>> => Head(wire) = wire[Len(wire)]
      /\ Tail(wire) # <<>> => Tail(wire)[Len(Tail(wire))] = wire[Len(wire)]
  BY <1>1, ClimbsTail DEF WireInv, TypeOK
<1>3. TypeOK'
  BY <1>1, <1>2 DEF TypeOK, txvars
<1>4. FrameInv'
  <2>1. pushed <= batch' /\ batch' <= flushed
    BY <1>1, <1>2 DEF TypeOK
  <2> QED BY <1>1, <2>1 DEF FrameInv, txvars
<1>5. WireInv'
  BY <1>1, <1>2 DEF WireInv, TypeOK, txvars
<1>6. AckInv'
  BY <1>1, <1>2 DEF AckInv, Climbs, TypeOK, txvars
<1>7. WantInv' /\ BufferBounded'
  BY <1>1 DEF WantInv, BufferBounded, Unacked, txvars
<1> QED BY <1>3, <1>4, <1>5, <1>6, <1>7

\* The bytes counted when frame pushed+1 is handled.
LEMMA ConsumedNext ==
    ASSUME FlowInv, rxio = "run", pushed < batch
    PROVE  /\ consumed + LenOf(pushed + 1) = Off(pushed + 1)
           /\ Off(pushed + 1) \in Nat
           /\ consumed <= Off(pushed + 1)
           /\ Off(pushed + 1) <= Off(Len(off)) /\ Off(Len(off)) <= sent
           /\ pushed + 1 <= Len(off)
<1> USE DEF FlowInv
<1>1. /\ pushed \in 0..Len(off) /\ pushed + 1 \in 0..Len(off) /\ Len(off) \in 0..Len(off)
  BY DEF FrameInv, TypeOK
<1>2. Off(pushed) \in Nat /\ Off(pushed + 1) \in Nat
  BY <1>1, OffType
<1>3. Off(pushed) <= Off(pushed + 1) /\ Off(pushed + 1) <= Off(Len(off))
  BY <1>1 DEF FrameInv
<1>4. LenOf(pushed + 1) = Off(pushed + 1) - Off(pushed)
  BY <1>1 DEF LenOf, Off
<1>5. consumed = Off(pushed)
  BY DEF AckInv
<1> QED BY <1>1, <1>2, <1>3, <1>4, <1>5 DEF FrameInv

\* AckIfDue(c) leaves less than AckEvery of the c bytes unacknowledged.
LEMMA AckIfDueFacts ==
    ASSUME FlowInv, NEW c \in Nat, consumed <= c, AckIfDue(c)
    PROVE  /\ acked_out' \in Nat /\ acked_out' <= c /\ acked <= acked_out'
           /\ c - acked_out' < AckEvery
           /\ acks' \in Seq(Nat) /\ Climbs(acks', acked, acked_out')
           /\ link = "up" => IF acks' = <<>> THEN acked = acked_out'
                                             ELSE acks'[Len(acks')] = acked_out'
<1> USE DEF FlowInv
<1>0. acked_out \in Nat /\ acked \in Nat /\ consumed \in Nat /\ acks \in Seq(Nat)
      /\ AckEvery \in Nat \ {0} /\ acked <= acked_out /\ acked_out <= consumed
      /\ Climbs(acks, acked, acked_out)
  BY FlowAssumption DEF TypeOK, AckInv
<1>1. CASE ~(c - acked_out >= AckEvery)
  <2>1. acked_out' = acked_out /\ acks' = acks
    BY <1>1 DEF AckIfDue
  <2>2. link = "up" => IF acks = <<>> THEN acked = acked_out ELSE acks[Len(acks)] = acked_out
    BY DEF AckInv
  <2> QED BY <1>0, <1>1, <2>1, <2>2
<1>2. CASE c - acked_out >= AckEvery
  <2>1. acked_out' = c /\ acked_out < c
        /\ (acks' = Append(acks, c) \/ (link # "up" /\ acks' = acks))
    BY <1>0, <1>2 DEF AckIfDue
  <2>2. CASE acks' = Append(acks, c)
    BY <1>0, <2>1, <2>2, ClimbsAppend
  <2>3. CASE link # "up" /\ acks' = acks
    BY <1>0, <2>1, <2>3, ClimbsWider
  <2> QED BY <2>1, <2>2, <2>3
<1> QED BY <1>1, <1>2

\* A frame is handed to the application, and acknowledged if due.
LEMMA PushStep ==
    ASSUME FlowInv, Push
    PROVE  FlowInv'
<1> USE DEF FlowInv
<1>1. /\ rxio = "run" /\ pushed < batch /\ pushed' = pushed + 1
      /\ consumed' = consumed + LenOf(pushed + 1)
      /\ UNCHANGED <<txvars, link, wire, batch, got, rxio, rxapp>>
      /\ \A i : Off(i)' = Off(i)
  BY DEF Push, Off, txvars
<1>2. /\ consumed' = Off(pushed + 1) /\ consumed' \in Nat /\ consumed <= consumed'
      /\ consumed' <= Off(Len(off))
  BY <1>1, ConsumedNext
<1>3. /\ acked_out' \in Nat /\ acked_out' <= consumed' /\ acked <= acked_out'
      /\ pushed' = batch => consumed' - acked_out' < AckEvery
      /\ acks' \in Seq(Nat) /\ Climbs(acks', acked, acked_out')
      /\ link = "up" => IF acks' = <<>> THEN acked = acked_out'
                                        ELSE acks'[Len(acks')] = acked_out'
  <2>1. CASE AckIfDue(consumed')
    BY <1>2, <2>1, AckIfDueFacts
  <2>2. CASE pushed + 1 < batch /\ UNCHANGED <<acked_out, acks>>
    BY <1>1, <1>2, <2>2 DEF AckInv, TypeOK
  <2> QED BY <2>1, <2>2 DEF Push
<1>4. TypeOK'
  BY <1>1, <1>2, <1>3 DEF TypeOK, txvars
<1>5. FrameInv'
  BY <1>1 DEF FrameInv, TypeOK, txvars
<1>6. WireInv' /\ WantInv' /\ BufferBounded'
  BY <1>1 DEF WireInv, WantInv, BufferBounded, Unacked, Climbs, txvars
<1>7. AckInv'
  <2>1. Off(pushed)' = consumed' /\ Off(Len(off))' = Off(Len(off)) /\ batch' = batch
    <3>1. off' = off
      BY <1>1 DEF txvars
    <3> QED BY <1>1, <1>2, <3>1 DEF Off
  <2>2. link' = link /\ acked' = acked /\ rxio' = rxio
    BY <1>1 DEF txvars
  <2> QED BY <1>2, <1>3, <2>1, <2>2 DEF AckInv
<1> QED BY <1>4, <1>5, <1>6, <1>7

\* A frame for an application that is gone.
LEMMA PushFailsStep ==
    ASSUME FlowInv, PushFails
    PROVE  FlowInv'
<1> USE DEF FlowInv
<1>1. /\ rxio = "run" /\ pushed < batch /\ rxio' = "closing"
      /\ consumed' = consumed + LenOf(pushed + 1) /\ AckIfDue(consumed')
      /\ UNCHANGED <<txvars, link, wire, batch, pushed, got, rxapp>>
      /\ \A i : Off(i)' = Off(i)
  BY DEF PushFails, Off, txvars
<1>2. /\ consumed' \in Nat /\ consumed <= consumed' /\ consumed' <= Off(Len(off))
  BY <1>1, ConsumedNext
<1>3. /\ acked_out' \in Nat /\ acked_out' <= consumed' /\ acked <= acked_out'
      /\ acks' \in Seq(Nat) /\ Climbs(acks', acked, acked_out')
      /\ link = "up" => IF acks' = <<>> THEN acked = acked_out'
                                        ELSE acks'[Len(acks')] = acked_out'
  BY <1>1, <1>2, AckIfDueFacts
<1>4. TypeOK'
  BY <1>1, <1>2, <1>3 DEF TypeOK, txvars
<1>5. FrameInv' /\ WireInv' /\ WantInv' /\ BufferBounded'
  BY <1>1 DEF FrameInv, WireInv, WantInv, BufferBounded, Unacked, Climbs, txvars
<1>6. AckInv'
  <2>1. Off(Len(off))' = Off(Len(off)) /\ link' = link /\ acked' = acked
    BY <1>1 DEF txvars, Off
  <2> QED BY <1>1, <1>2, <1>3, <2>1 DEF AckInv
<1> QED BY <1>4, <1>5, <1>6

\* The steps of the receiver and the network that move no bytes.
LEMMA QuietRxStep ==
    ASSUME FlowInv,
           RxNoticesGone \/ RxCloses \/ RxDies \/ Recv \/ Stall \/ Leave \/ Drop
    PROVE  FlowInv'
<1> USE DEF FlowInv
<1>1. /\ UNCHANGED <<txvars, batch, pushed, consumed, acked_out>>
      /\ \A i : Off(i)' = Off(i)
  BY DEF RxNoticesGone, RxCloses, RxDies, Recv, Stall, Leave, Drop, Off, txvars, rxvars
<1>2. /\ link' = link \/ link' = "down" \/ link' = "closed"
      /\ link' = "up" => wire' = wire /\ acks' = acks
      /\ wire' = wire \/ wire' = <<>>
      /\ acks' = acks \/ acks' = <<>>
      /\ got' = got \/ (got < pushed /\ got' = got + 1)
      /\ rxio' = rxio \/ rxio' = "closing" \/ rxio' = "dead"
      /\ rxapp' = rxapp \/ rxapp' = "stalled" \/ rxapp' = "gone"
  BY DEF RxNoticesGone, RxCloses, RxDies, Recv, Stall, Leave, Drop, rxvars
<1>3. TypeOK'
  <2>1. wire' \in Seq(Nat) /\ acks' \in Seq(Nat)
    <3>1. wire \in Seq(Nat) /\ acks \in Seq(Nat) /\ <<>> \in Seq(Nat)
      BY DEF TypeOK
    <3> QED BY <1>2, <3>1
  <2>2. got' \in Nat /\ link' \in {"up", "closing", "closed", "down"}
        /\ rxio' \in {"run", "closing", "dead"} /\ rxapp' \in {"run", "stalled", "gone"}
    BY <1>2 DEF TypeOK
  <2> QED BY <1>1, <2>1, <2>2 DEF TypeOK, txvars
<1>4. FrameInv'
  BY <1>1, <1>2 DEF FrameInv, TypeOK, txvars
<1>5. WireInv' /\ AckInv'
  BY <1>1, <1>2 DEF WireInv, AckInv, Climbs, txvars
<1>6. WantInv' /\ BufferBounded'
  BY <1>1 DEF WantInv, BufferBounded, Unacked, txvars
<1> QED BY <1>3, <1>4, <1>5, <1>6

-----------------------------------------------------------------------------
(* The theorems.                                                           *)

\* FlowInv holds initially.
LEMMA FlowInit ==
    ASSUME Init
    PROVE  FlowInv
  BY FlowAssumption
     DEF Init, FlowInv, TypeOK, FrameInv, WireInv, AckInv, WantInv, BufferBounded,
         Unacked, Larger, Climbs, Off

\* FlowInv is an invariant of the channel.
THEOREM FlowInvariant == Spec => []FlowInv
<1>1. Init => FlowInv
  BY FlowInit
<1>2. FlowInv /\ [Next]_vars => FlowInv'
  <2>1. ASSUME FlowInv, Next PROVE FlowInv'
    BY <2>1, SendPassStep, QuietTxStep, FlushStep, GetAckStep, ReadMessageStep, PushStep,
       PushFailsStep, QuietRxStep DEF Next, TxSteps, RxSteps, SendReturnSteps
  <2>2. ASSUME FlowInv, UNCHANGED vars PROVE FlowInv'
    <3>1. \A i : Off(i)' = Off(i)
      BY <2>2 DEF Off, vars, txvars
    <3> QED BY <2>2, <3>1
            DEF FlowInv, TypeOK, FrameInv, WireInv, AckInv, WantInv, BufferBounded,
                Unacked, Climbs, vars, txvars, rxvars
  <2> QED BY <2>1, <2>2
<1> QED BY <1>1, <1>2, PTL DEF Spec

\* What is sent and not acknowledged stays below max(WINDOW, frame limit) +
\* ACK_EVERY, for every window, threshold and limit.
THEOREM FlowBounded == Spec => []BufferBounded
<1>1. FlowInv => BufferBounded
  BY DEF FlowInv
<1> QED BY <1>1, FlowInvariant, PTL

\* A send is never blocked on a window that nothing under way could open.
THEOREM FlowNeverStalls == Spec => []NoFalseStall
<1>1. ASSUME FlowInv PROVE NoFalseStall
  <2>1. ASSUME link = "up", txio = "run", rxio = "run", want # 0, Drained
        PROVE  WindowOpen(want)
    <3>1. pushed = Len(off) /\ acked = acked_out /\ consumed - acked_out < AckEvery
      BY <1>1, <2>1 DEF FlowInv, FrameInv, WireInv, AckInv, Drained, TypeOK
    <3>2. consumed = sent
      BY <1>1, <2>1, <3>1 DEF FlowInv, FrameInv, AckInv
    <3> QED BY <3>1, <3>2 DEF WindowOpen, Unacked
  <2> QED BY <2>1 DEF NoFalseStall
<1> QED BY <1>1, FlowInvariant, PTL
=============================================================================
