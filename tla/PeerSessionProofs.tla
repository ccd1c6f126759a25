------------------------- MODULE PeerSessionProofs -------------------------
(***************************************************************************)
(* The safety properties of a direct transfer, proved for any number of    *)
(* attempts, candidates and messages, and any faults.                      *)
(***************************************************************************)
EXTENDS PeerSession, SequenceTheorems, TLAPS

-----------------------------------------------------------------------------
(* Types.                                                                  *)

Keys == [code : {RightCode, WrongCode, OldCode}, send : Nat, recv : Nat]
Frames ==
    [kind : {"pake"}, by : Roles, of : Nat] \cup [kind : {"confirm", "sdp"}, by : Roles, key : Keys]
        \cup [kind : {"ice"}, by : Roles, key : Keys, cand : Cands]
Items == {"chunk", "ack", Closed}

Before == {"Subscribe", "Publish", "Pake"}
After == {"Connect", "Offer", "Describe", "Negotiate", "Transfer", "Linger"}
Points == {"Idle", "Confirm"} \cup Before \cup After \cup Ended

TypeInv ==
    /\ topic \in Seq(Frames) /\ sub \in [Roles -> Int]
    /\ pc \in [Roles -> Points] /\ att \in [Roles -> Nat]
    /\ code \in [Roles -> {RightCode, WrongCode}] /\ key \in [Roles -> Keys]
    /\ n \in [Roles -> Nat]
    /\ flight \in [Roles -> Seq(Items)] /\ inbox \in [Roles -> Seq(Items)]
    /\ call \in [Roles -> [at : 0..5, msg : Items]]
    /\ \A r \in Roles : call[r].at # NoCall => pc[r] = "Transfer"

-----------------------------------------------------------------------------
(* Keys.                                                                   *)

\* A confirmation by o carries the key of one attempt of o: of the current one
\* only once that has its key.
ConfirmOk(f) ==
    /\ f.key = NoKey \/ f.key[f.by] >= 1
    /\ f.key[f.by] <= att[f.by]
    /\ f.key[f.by] = att[f.by] => key[f.by] = f.key
    /\ pc[f.by] \in Before => f.key[f.by] < att[f.by]
    /\ f.by = "recv" => f.key.code # WrongCode

Confirmed(r) ==
    \E i \in 1..Len(topic) :
        topic[i].kind = "confirm" /\ topic[i].by = Other(r) /\ topic[i].key = key[r]

KeyInv ==
    /\ code["recv"] = RightCode
    /\ att["recv"] = IF pc["recv"] = "Idle" THEN 0 ELSE 1
    /\ \A r \in Roles : pc[r] # "Idle" => att[r] >= 1
    /\ \A r \in Roles : pc[r] \in After \cup {"Confirm"} =>
          key[r].code = code[r] /\ key[r][r] = att[r]
    /\ \A i \in 1..Len(topic) : topic[i].kind = "confirm" => ConfirmOk(topic[i])
    /\ \A r \in Roles : pc[r] \in After => Confirmed(r)

-----------------------------------------------------------------------------
(* The ack.                                                                *)

HasAck(q) == \E i \in 1..Len(q) : q[i] = "ack"
Evidence ==
    \/ call["recv"].msg = "ack" \/ HasAck(flight["send"]) \/ HasAck(inbox["send"])
    \/ pc["send"] = "Ok"
AckInv ==
    /\ Evidence => n["recv"] = Chunks
    /\ pc["recv"] = "Idle" => n["recv"] = 0

-----------------------------------------------------------------------------
(* Queues of items.                                                        *)

\* Taking the head, adding at the end and losing the end of a queue: an ack in
\* the new queue was in the old one or has just been added.
LEMMA AckTail ==
    ASSUME NEW q \in Seq(Items), q # <<>>
    PROVE  /\ Tail(q) \in Seq(Items) /\ Head(q) \in Items
           /\ HasAck(Tail(q)) => HasAck(q)
           /\ Head(q) = "ack" => HasAck(q)
  <1>1. /\ Len(q) \in Nat /\ Len(q) >= 1 /\ Head(q) = q[1] /\ Tail(q) \in Seq(Items)
        /\ Len(Tail(q)) = Len(q) - 1
        /\ \A i \in 1..Len(Tail(q)) : Tail(q)[i] = q[i + 1]
    OBVIOUS
  <1>2. HasAck(Tail(q)) => HasAck(q)
    <2> SUFFICES ASSUME NEW i \in 1..Len(Tail(q)), Tail(q)[i] = "ack"
                 PROVE  HasAck(q)
      BY DEF HasAck
    <2>1. i + 1 \in 1..Len(q) /\ q[i + 1] = "ack"
      BY <1>1
    <2> QED
      BY <2>1 DEF HasAck
  <1>3. Head(q) = "ack" => HasAck(q)
    BY <1>1 DEF HasAck
  <1>4. Head(q) \in Items
    BY <1>1
  <1> QED
    BY <1>1, <1>2, <1>3, <1>4

\* Sending an item adds an acknowledgement only if it is one.
LEMMA AckAppend ==
    ASSUME NEW q \in Seq(Items), NEW m \in Items
    PROVE  /\ Append(q, m) \in Seq(Items)
           /\ HasAck(Append(q, m)) => HasAck(q) \/ m = "ack"
  <1>1. /\ Append(q, m) \in Seq(Items) /\ Len(Append(q, m)) = Len(q) + 1 /\ Len(q) \in Nat
        /\ Append(q, m)[Len(q) + 1] = m
        /\ \A i \in 1..Len(q) : Append(q, m)[i] = q[i]
    OBVIOUS
  <1>2. ASSUME NEW i \in 1..Len(Append(q, m)), Append(q, m)[i] = "ack", m # "ack"
        PROVE  HasAck(q)
    <2>1. i \in 1..Len(q) /\ q[i] = "ack"
      BY <1>1, <1>2
    <2> QED
      BY <2>1 DEF HasAck
  <1> QED
    BY <1>1, <1>2 DEF HasAck

\* Losing the end of a queue adds none.
LEMMA AckSubSeq ==
    ASSUME NEW q \in Seq(Items), NEW k \in 0..Len(q)
    PROVE  /\ SubSeq(q, 1, k) \in Seq(Items)
           /\ HasAck(SubSeq(q, 1, k)) => HasAck(q)
  <1>1. /\ SubSeq(q, 1, k) \in Seq(Items) /\ Len(SubSeq(q, 1, k)) = k /\ Len(q) \in Nat
        /\ \A i \in 1..k : SubSeq(q, 1, k)[i] = q[i]
    BY SubSeqProperties
  <1> QED
    BY <1>1 DEF HasAck

\* Nor does emptying it.
LEMMA AckEmpty == <<>> \in Seq(Items) /\ ~HasAck(<<>>)
  BY DEF HasAck

\* The call of one process moves to another point.
LEMMA CallMoves ==
    ASSUME NEW c \in [Roles -> [at : 0..5, msg : Items]], NEW r \in Roles, NEW p \in 0..5,
           NEW d, d = [c EXCEPT ![r].at = p]
    PROVE  /\ d \in [Roles -> [at : 0..5, msg : Items]]
           /\ d[r].at = p /\ \A t \in Roles : d[t].msg = c[t].msg
           /\ \A t \in Roles : t # r => d[t] = c[t]
  OBVIOUS

-----------------------------------------------------------------------------
(* Steps that touch neither keys, confirmations nor what has been received *)

KeyQuiet ==
    /\ UNCHANGED <<att, code, key>>
    /\ topic' = topic \/ \E f \in Frames : f.kind # "confirm" /\ topic' = Append(topic, f)
    /\ \A r \in Roles : \/ pc'[r] = pc[r]
                        \/ pc[r] # "Idle" /\ pc'[r] \in Ended
                        \/ pc[r] \in After /\ pc'[r] \in After
                        \/ pc[r] \in Before /\ pc'[r] \in Before
AckQuiet ==
    /\ n'["recv"] = n["recv"]
    /\ pc'["recv"] = "Idle" => pc["recv"] = "Idle"
    /\ Evidence' => Evidence
Plain == TypeInv' /\ KeyQuiet /\ AckQuiet

\* A process leaves: only a sender with an ack in hand leaves with success.
LEMMA LeavePlain ==
    ASSUME TypeInv, NEW r \in Roles, NEW res \in Ended, NEW ends, LeaveSeen(r, res, ends),
           pc[r] # "Idle", r = "send" /\ res = "Ok" => HasAck(inbox["send"])
    PROVE  Plain
  <1> DEFINE o == Other(r)
  <1>1. o \in Roles /\ o # r /\ Roles = {r, o}
    BY DEF Other, Roles
  <1>2. /\ pc' = [pc EXCEPT ![r] = res] /\ sub' = [sub EXCEPT ![r] = -1]
        /\ UNCHANGED <<topic, att, code, key, n>>
        /\ inbox' = [inbox EXCEPT ![r] = <<>>]
        /\ call' = [call EXCEPT ![r].at = NoCall]
    BY DEF LeaveSeen, Gone
  <1>3. PICK k \in 0..Len(flight[o]) :
           flight' = [flight EXCEPT ![r] = <<>>,
                                    ![o] = IF fate[o] = "up" THEN SubSeq(@, 1, k) ELSE @]
    BY DEF LeaveSeen, Gone
  <1>4. /\ SubSeq(flight[o], 1, k) \in Seq(Items)
        /\ HasAck(SubSeq(flight[o], 1, k)) => HasAck(flight[o])
    BY <1>1, AckSubSeq DEF TypeInv
  <1>5. flight'[r] = <<>> /\ (flight'[o] = flight[o] \/ flight'[o] = SubSeq(flight[o], 1, k))
    BY <1>1, <1>3 DEF TypeInv
  <1>6. flight' \in [Roles -> Seq(Items)]
    BY <1>1, <1>3, <1>4, AckEmpty DEF TypeInv
  <1>7. \A t \in Roles : HasAck(flight'[t]) => HasAck(flight[t])
    BY <1>1, <1>4, <1>5, AckEmpty
  <1>8. inbox' \in [Roles -> Seq(Items)] /\ \A t \in Roles : HasAck(inbox'[t]) => HasAck(inbox[t])
    BY <1>1, <1>2, AckEmpty DEF TypeInv
  <1>9. /\ call' \in [Roles -> [at : 0..5, msg : Items]]
        /\ \A t \in Roles : call'[t].msg = call[t].msg
        /\ call'[r].at = NoCall /\ call'[o] = call[o]
    <2>1. NoCall \in 0..5
      BY DEF NoCall
    <2>2. call \in [Roles -> [at : 0..5, msg : Items]]
      BY DEF TypeInv
    <2> QED
      BY <1>1, <1>2, <2>1, <2>2, CallMoves
  <1>10. pc' \in [Roles -> Points] /\ pc'[r] = res /\ pc'[o] = pc[o]
    BY <1>1, <1>2 DEF TypeInv, Points
  <1>11. TypeInv'
    BY <1>1, <1>2, <1>6, <1>8, <1>9, <1>10 DEF TypeInv
  <1>12. KeyQuiet
    BY <1>1, <1>2, <1>10 DEF KeyQuiet
  <1>13. "send" \in Roles /\ "recv" \in Roles
    BY DEF Roles
  <1>14. Evidence' => Evidence
    BY <1>1, <1>7, <1>8, <1>9, <1>10, <1>13 DEF Evidence
  <1>15. pc'["recv"] = "Idle" => pc["recv"] = "Idle"
    BY <1>1, <1>10, <1>13 DEF Ended
  <1> QED
    BY <1>2, <1>11, <1>12, <1>14, <1>15 DEF Plain, AckQuiet

\* A step of the rendezvous or the negotiation leaves the channel alone.
LEMMA SignalPlain ==
    ASSUME TypeInv, UNCHANGED chan, UNCHANGED <<att, code, key, n>>,
           sub' \in [Roles -> Int],
           topic' = topic \/ \E f \in Frames : f.kind # "confirm" /\ topic' = Append(topic, f),
           pc' \in [Roles -> Points],
           \A r \in Roles : \/ pc'[r] = pc[r]
                            \/ pc[r] \in Before /\ pc'[r] \in Before
                            \/ pc[r] \in After \ {"Transfer"} /\ pc'[r] \in After
    PROVE  Plain
  <1>1. "send" \in Roles /\ "recv" \in Roles
    BY DEF Roles
  <1>2. topic' \in Seq(Frames)
    <2>1. topic \in Seq(Frames)
      BY DEF TypeInv
    <2>2. ASSUME NEW f \in Frames, topic' = Append(topic, f) PROVE topic' \in Seq(Frames)
      BY <2>1, <2>2
    <2> QED
      BY <2>1, <2>2
  <1>3. TypeInv'
    BY <1>2 DEF TypeInv, chan, Before
  <1>4. KeyQuiet
    BY DEF KeyQuiet
  <1>5. pc'["recv"] = "Idle" => pc["recv"] = "Idle"
    BY <1>1 DEF Before, After
  <1>6. pc'["send"] = "Ok" => pc["send"] = "Ok"
    BY <1>1 DEF Before, After
  <1>7. Evidence' => Evidence
    BY <1>6 DEF Evidence, chan
  <1> QED
    BY <1>3, <1>4, <1>5, <1>7 DEF Plain, AckQuiet

\* A step on the channel that leaves the points and counts of both processes alone.
LEMMA ChannelPlain ==
    ASSUME TypeInv, UNCHANGED <<topic, sub, pc, att, code, key, n>>,
           flight' \in [Roles -> Seq(Items)], inbox' \in [Roles -> Seq(Items)],
           call' \in [Roles -> [at : 0..5, msg : Items]],
           \A r \in Roles : call'[r].at # NoCall => call[r].at # NoCall \/ pc[r] = "Transfer",
           Evidence' => Evidence
    PROVE  Plain
  BY DEF Plain, TypeInv, KeyQuiet, AckQuiet

\* Every frame a peer publishes is one.
LEMMA FramesPublished ==
    ASSUME TypeInv, NEW r \in Roles
    PROVE  /\ PakeFrame(r) \in Frames /\ PakeFrame(r).kind = "pake"
           /\ SdpFrame(r) \in Frames /\ SdpFrame(r).kind = "sdp"
           /\ \A c \in Cands : IceFrame(r, c) \in Frames /\ IceFrame(r, c).kind = "ice"
           /\ \A k \in Keys : ConfirmFrame(r, k) \in Frames
  <1>1. att[r] \in Nat /\ key[r] \in Keys
    BY DEF TypeInv
  <1> HIDE DEF Keys
  <1> QED
    BY <1>1 DEF PakeFrame, SdpFrame, IceFrame, ConfirmFrame, Frames

\* The steps on the topic, except those of the keys.
LEMMA SignallingPlain ==
    ASSUME TypeInv, NEW r \in Roles,
           \/ Subscribe(r) \/ PublishPake(r) \/ SkipFrame(r) \/ Establish(r)
           \/ r = "recv" /\ (CreateOffer \/ PublishOffer)
           \/ Candidates(r) \/ PumpSkip(r) \/ PumpSdp(r) \/ PumpIce(r)
           \/ r = "send" /\ PublishAnswer
           \/ Opened(r)
    PROVE  Plain
  <1> USE DEF procs, signal
  <1>1. /\ sub \in [Roles -> Int] /\ pc \in [Roles -> Points]
    BY DEF TypeInv
  <1>2. CASE Subscribe(r)
    BY <1>1, <1>2, SignalPlain DEF Subscribe, SinceWindow, Before, Points
  <1>3. CASE PublishPake(r)
    BY <1>1, <1>3, SignalPlain, FramesPublished DEF PublishPake, Publish, Before, Points
  <1>4. CASE SkipFrame(r)
    BY <1>1, <1>4, SignalPlain DEF SkipFrame, Taken
  <1>5. CASE Establish(r)
    BY <1>1, <1>5, SignalPlain DEF Establish, SinceWindow, After, Points
  <1>6. CASE r = "recv" /\ CreateOffer
    BY <1>1, <1>6, SignalPlain DEF CreateOffer, After, Points
  <1>7. CASE r = "recv" /\ PublishOffer
    BY <1>1, <1>7, SignalPlain, FramesPublished DEF PublishOffer, Publish, After, Points
  <1>8. CASE Candidates(r)
    BY <1>1, <1>8, SignalPlain, FramesPublished DEF Candidates, OnIceCandidate, Publish
  <1>9. CASE PumpSkip(r)
    BY <1>1, <1>9, SignalPlain DEF PumpSkip, Taken
  <1>10. CASE PumpSdp(r)
    BY <1>1, <1>10, SignalPlain DEF PumpSdp, Taken
  <1>11. CASE PumpIce(r)
    BY <1>1, <1>11, SignalPlain DEF PumpIce, Taken
  <1>12. CASE r = "send" /\ PublishAnswer
    BY <1>1, <1>12, SignalPlain, FramesPublished DEF PublishAnswer, Publish
  <1>13. CASE Opened(r)
    BY <1>1, <1>13, SignalPlain DEF Opened, After, Points
  <1> QED
    BY <1>2, <1>3, <1>4, <1>5, <1>6, <1>7, <1>8, <1>9, <1>10, <1>11, <1>12, <1>13

\* The ways a run fails, and a receiver that has lingered.
LEMMA LeavingPlain ==
    ASSUME TypeInv, NEW r \in Roles,
           \/ Timeout(r) \/ Kill(r) \/ StreamEnds(r) \/ PublishFails(r)
           \/ SendFailed(r) \/ RecvFails(r)
           \/ r = "recv" /\ LingerEnds
           \/ r = "send" /\ GetAck
    PROVE  Plain
  <1>1. /\ sub \in [Roles -> Int] /\ pc \in [Roles -> Points]
        /\ \A t \in Roles : call[t].at # NoCall => pc[t] = "Transfer"
    BY DEF TypeInv
  <1>2. {"Ok", "Establish", "Error", "Killed"} = Ended
    BY DEF Ended
  <1>3. CASE Timeout(r)
    <2>1. Leave(r, "Establish") /\ pc[r] # "Idle"
      BY <1>3 DEF Timeout, Handshaking, Pumping
    <2> QED
      BY <1>2, <2>1, LeavePlain DEF Leave
  <1>4. CASE Kill(r)
    <2>1. LeaveSeen(r, "Killed", {"dead"}) /\ pc[r] # "Idle"
      BY <1>4 DEF Kill, Running
    <2> QED
      BY <1>2, <2>1, LeavePlain
  <1>5. CASE StreamEnds(r)
    <2>1. CASE Handshaking(r) /\ Leave(r, "Establish")
      BY <1>2, <2>1, LeavePlain DEF Leave, Handshaking
    <2>2. CASE sub' = [sub EXCEPT ![r] = -1] /\ UNCHANGED <<topic, procs, signal, chan>>
      BY <1>1, <2>2, SignalPlain DEF procs
    <2> QED
      BY <1>5, <2>1, <2>2 DEF StreamEnds
  <1>6. CASE PublishFails(r)
    <2>1. CASE pc[r] \in {"Subscribe", "Publish", "Connect", "Describe", "Pake"}
               /\ Leave(r, "Establish")
      BY <1>2, <2>1, LeavePlain DEF Leave
    <2>2. CASE UNCHANGED <<topic, sub, procs, chan>>
      BY <1>1, <2>2, SignalPlain DEF procs
    <2> QED
      BY <1>6, <2>1, <2>2 DEF PublishFails
  <1>7. CASE SendFailed(r)
    <2>1. Leave(r, "Error") /\ pc[r] = "Transfer"
      BY <1>1, <1>7 DEF SendFailed, SentErr, NoCall
    <2> QED
      BY <1>2, <2>1, LeavePlain DEF Leave
  <1>8. CASE RecvFails(r)
    <2>1. Leave(r, "Error") /\ pc[r] = "Transfer"
      BY <1>8 DEF RecvFails, Between
    <2> QED
      BY <1>2, <2>1, LeavePlain DEF Leave
  <1>9. CASE r = "recv" /\ LingerEnds
    <2>1. Leave(r, "Ok") /\ pc[r] = "Linger"
      BY <1>9 DEF LingerEnds
    <2> QED
      BY <1>2, <1>9, <2>1, LeavePlain DEF Leave
  <1>10. CASE r = "send" /\ GetAck
    <2>1. /\ Leave(r, "Ok") /\ pc[r] = "Transfer"
          /\ inbox["send"] # <<>> /\ Head(inbox["send"]) = "ack"
      BY <1>10 DEF GetAck, Acked, Between
    <2>2. inbox["send"] \in Seq(Items)
      BY DEF TypeInv, Roles
    <2>3. HasAck(inbox["send"])
      BY <2>1, <2>2, AckTail
    <2> QED
      BY <1>2, <2>1, <2>3, LeavePlain DEF Leave
  <1> QED
    BY <1>3, <1>4, <1>5, <1>6, <1>7, <1>8, <1>9, <1>10

\* The engine delivers and the callbacks close.
LEMMA DeliveryPlain ==
    ASSUME TypeInv, NEW r \in Roles, Delivery(r) \/ \E h \in Callbacks : Closing(r, h)
    PROVE  Plain
  <1> USE DEF procs
  <1>1. /\ flight \in [Roles -> Seq(Items)] /\ inbox \in [Roles -> Seq(Items)]
        /\ call \in [Roles -> [at : 0..5, msg : Items]] /\ "send" \in Roles
    BY DEF TypeInv, Roles
  <1>2. CASE Delivery(r)
    <2>1. /\ flight[r] # <<>> /\ flight' = [flight EXCEPT ![r] = Tail(@)]
          /\ inbox' = [inbox EXCEPT ![r] = Append(@, Head(flight[r]))]
          /\ UNCHANGED <<topic, sub, pc, att, code, key, n, call>>
      BY <1>2 DEF Delivery, OnMessage, Push
    <2>2. /\ Tail(flight[r]) \in Seq(Items) /\ Head(flight[r]) \in Items
          /\ HasAck(Tail(flight[r])) => HasAck(flight[r])
          /\ Head(flight[r]) = "ack" => HasAck(flight[r])
      BY <1>1, <2>1, AckTail
    <2>3. /\ Append(inbox[r], Head(flight[r])) \in Seq(Items)
          /\ HasAck(Append(inbox[r], Head(flight[r])))
                => HasAck(inbox[r]) \/ Head(flight[r]) = "ack"
      BY <1>1, <2>2, AckAppend
    <2>4. flight' \in [Roles -> Seq(Items)] /\ inbox' \in [Roles -> Seq(Items)]
      BY <1>1, <2>1, <2>2, <2>3
    <2>5. HasAck(flight'["send"]) => HasAck(flight["send"])
      BY <1>1, <2>1, <2>2
    <2>6. HasAck(inbox'["send"]) => HasAck(inbox["send"]) \/ HasAck(flight["send"])
      BY <1>1, <2>1, <2>2, <2>3
    <2>7. Evidence' => Evidence
      BY <2>1, <2>5, <2>6 DEF Evidence
    <2> QED
      BY <1>1, <2>1, <2>4, <2>7, ChannelPlain
  <1>3. ASSUME NEW h \in Callbacks, Closing(r, h) PROVE Plain
    <2>1. UNCHANGED <<topic, sub, pc, att, code, key, n, call, flight>>
      BY <1>3 DEF Closing, CloseCallback
    <2>2. inbox' = inbox \/ inbox' = [inbox EXCEPT ![r] = Append(@, Closed)]
      BY <1>3 DEF Closing, CloseCallback, Push
    <2>3. /\ Append(inbox[r], Closed) \in Seq(Items)
          /\ HasAck(Append(inbox[r], Closed)) => HasAck(inbox[r])
      <3>1. Closed \in Items /\ Closed # "ack"
        BY DEF Items, Closed
      <3> QED
        BY <1>1, <3>1, AckAppend
    <2>4. inbox' \in [Roles -> Seq(Items)] /\ (HasAck(inbox'["send"]) => HasAck(inbox["send"]))
      BY <1>1, <2>2, <2>3
    <2>5. Evidence' => Evidence
      BY <2>1, <2>4 DEF Evidence
    <2> QED
      BY <1>1, <2>1, <2>4, <2>5, ChannelPlain
  <1> QED
    BY <1>2, <1>3

\* Steps of a call to send: what dc.send hands over is the message of the call.
LEMMA SendStepsPlain ==
    ASSUME TypeInv, NEW r \in Roles, SendSteps(r)
    PROVE  Plain
  <1> USE DEF procs
  <1>1. /\ flight \in [Roles -> Seq(Items)] /\ inbox \in [Roles -> Seq(Items)]
        /\ call \in [Roles -> [at : 0..5, msg : Items]] /\ "send" \in Roles /\ "recv" \in Roles
        /\ Other(r) \in Roles
    BY DEF TypeInv, Roles, Other
  <1>2. UNCHANGED <<topic, sub, pc, att, code, key, n, inbox>> /\ call[r].at # NoCall
    BY DEF SendSteps, SendPrologue, DcSend, DcSendFails, Notified, Select, NoCall
  <1>3. \E p \in 0..5 : call' = [call EXCEPT ![r].at = p]
    <2>1. CASE SendPrologue(r)
      <3>1. call[r].at \in 1..2
        BY <2>1 DEF SendPrologue
      <3>2. call[r].at + 1 \in 0..5 /\ SentErr \in 0..5
        BY <3>1 DEF SentErr
      <3>3. \/ call' = [call EXCEPT ![r].at = @ + 1] \/ call' = [call EXCEPT ![r].at = SentErr]
        BY <2>1 DEF SendPrologue, Returns
      <3> QED
        BY <3>2, <3>3
    <2>2. CASE DcSend(r) \/ DcSendFails(r) \/ Notified(r)
      <3>1. SentOk \in 0..5 /\ SentErr \in 0..5
        BY DEF SentOk, SentErr
      <3> QED
        BY <2>2, <3>1 DEF DcSend, DcSendFails, Notified, Returns
    <2> QED
      BY <2>1, <2>2 DEF SendSteps
  <1>4. /\ call' \in [Roles -> [at : 0..5, msg : Items]]
        /\ \A t \in Roles : call'[t].msg = call[t].msg /\ (t # r => call'[t] = call[t])
    <2>1. PICK p \in 0..5 : call' = [call EXCEPT ![r].at = p]
      BY <1>3
    <2>2. /\ call' \in [Roles -> [at : 0..5, msg : Items]]
          /\ \A t \in Roles : call'[t].msg = call[t].msg
          /\ \A t \in Roles : t # r => call'[t] = call[t]
      <3>1. call \in [Roles -> [at : 0..5, msg : Items]]
        BY <1>1
      <3> QED
        BY <2>1, <3>1, CallMoves
    <2> QED
      BY <2>2
  <1>5. \/ flight' = flight
        \/ flight' = [flight EXCEPT ![Other(r)] = Append(@, call[r].msg)]
    BY DEF SendSteps, SendPrologue, DcSend, DcSendFails, Notified
  <1>6. /\ Append(flight[Other(r)], call[r].msg) \in Seq(Items)
        /\ HasAck(Append(flight[Other(r)], call[r].msg))
              => HasAck(flight[Other(r)]) \/ call[r].msg = "ack"
    BY <1>1, AckAppend
  <1>7. flight' \in [Roles -> Seq(Items)]
    BY <1>1, <1>5, <1>6
  <1>8. HasAck(flight'["send"]) => HasAck(flight["send"]) \/ call["recv"].msg = "ack"
    BY <1>1, <1>5, <1>6 DEF Other, Roles
  <1>9. Evidence' => Evidence
    BY <1>1, <1>2, <1>4, <1>8 DEF Evidence
  <1> QED
    BY <1>1, <1>2, <1>4, <1>7, <1>9, ChannelPlain

\* The connection comes up and breaks.
LEMMA LinkPlain ==
    ASSUME TypeInv, LinkForms \/ Cut
    PROVE  Plain
  <1> USE DEF procs
  <1>1. /\ flight \in [Roles -> Seq(Items)] /\ inbox \in [Roles -> Seq(Items)]
        /\ call \in [Roles -> [at : 0..5, msg : Items]] /\ "send" \in Roles /\ "recv" \in Roles
    BY DEF TypeInv, Roles
  <1>2. UNCHANGED <<topic, sub, pc, att, code, key, n, inbox, call>>
    BY DEF LinkForms, ChannelOpens, Cut
  <1>3. flight' \in [Roles -> Seq(Items)] /\ (HasAck(flight'["send"]) => HasAck(flight["send"]))
    <2>1. CASE LinkForms
      BY <1>1, <2>1 DEF LinkForms, ChannelOpens
    <2>2. CASE Cut
      <3>1. PICK i \in 0..Len(flight["send"]), j \in 0..Len(flight["recv"]) :
               flight' = [flight EXCEPT !["send"] = SubSeq(@, 1, i), !["recv"] = SubSeq(@, 1, j)]
        BY <2>2 DEF Cut
      <3>2. /\ SubSeq(flight["send"], 1, i) \in Seq(Items)
            /\ HasAck(SubSeq(flight["send"], 1, i)) => HasAck(flight["send"])
            /\ SubSeq(flight["recv"], 1, j) \in Seq(Items)
        BY <1>1, AckSubSeq
      <3>3. flight'["send"] = SubSeq(flight["send"], 1, i)
        BY <1>1, <3>1
      <3>4. flight' \in [Roles -> Seq(Items)]
        BY <1>1, <3>1, <3>2
      <3> QED
        BY <3>2, <3>3, <3>4
    <2> QED
      BY <2>1, <2>2
  <1>4. Evidence' => Evidence
    BY <1>2, <1>3 DEF Evidence
  <1> QED
    BY <1>1, <1>2, <1>3, <1>4, ChannelPlain

\* A call begins or has returned.
LEMMA CallPlain ==
    ASSUME TypeInv, SendChunk \/ Sent("send") \/ Sent("recv")
    PROVE  Plain
  <1>1. /\ call \in [Roles -> [at : 0..5, msg : Items]] /\ "send" \in Roles /\ "recv" \in Roles
        /\ pc \in [Roles -> Points] /\ n \in [Roles -> Nat] /\ "send" # "recv"
        /\ \A t \in Roles : call[t].at # NoCall => pc[t] = "Transfer"
    BY DEF TypeInv, Roles
  <1>2. UNCHANGED <<topic, sub, att, code, key, flight, inbox>>
    BY DEF SendChunk, Sent, elsewhere, chanButCall
  <1>3. CASE SendChunk
    <2>1. /\ call' = [call EXCEPT !["send"] = [at |-> 1, msg |-> "chunk"]]
          /\ UNCHANGED <<pc, n>> /\ pc["send"] = "Transfer"
      BY <1>3 DEF SendChunk, SendBegin, Between
    <2>2. call' \in [Roles -> [at : 0..5, msg : Items]] /\ call'["recv"] = call["recv"]
      BY <1>1, <2>1 DEF Items
    <2>3. \A t \in Roles : t # "send" => call'[t] = call[t]
      BY <1>1, <2>1
    <2>4. Evidence' => Evidence
      BY <1>2, <2>1, <2>2 DEF Evidence
    <2>5. flight' \in [Roles -> Seq(Items)] /\ inbox' \in [Roles -> Seq(Items)]
      BY <1>2 DEF TypeInv
    <2> QED
      BY <1>2, <2>1, <2>2, <2>3, <2>4, <2>5, ChannelPlain
  <1>4. ASSUME NEW r \in Roles, Sent(r) PROVE Plain
    <2>1. call' = [call EXCEPT ![r].at = NoCall] /\ pc[r] = "Transfer"
      BY <1>1, <1>4 DEF Sent, SentOk, NoCall
    <2>2. /\ call' \in [Roles -> [at : 0..5, msg : Items]] /\ call'[r].at = NoCall
          /\ \A t \in Roles : call'[t].msg = call[t].msg /\ (t # r => call'[t] = call[t])
      BY <1>1, <2>1, CallMoves DEF NoCall
    <2>3. CASE r = "recv"
      <3>1. pc' = [pc EXCEPT !["recv"] = "Linger"] /\ n' = n
        BY <1>4, <2>3 DEF Sent
      <3>2. pc' \in [Roles -> Points] /\ \A t \in Roles : t # r => pc'[t] = pc[t]
        BY <1>1, <2>3, <3>1 DEF Points, After
      <3>3. pc'["recv"] = "Linger" /\ pc'["send"] = pc["send"]
        BY <1>1, <3>1
      <3>4. TypeInv'
        BY <1>2, <2>2, <2>3, <3>1, <3>2 DEF TypeInv
      <3>5. KeyQuiet
        BY <1>2, <2>1, <2>3, <3>2, <3>3 DEF KeyQuiet, After
      <3>6. Evidence' => Evidence
        BY <1>1, <1>2, <2>2, <3>3 DEF Evidence
      <3> QED
        BY <3>1, <3>3, <3>4, <3>5, <3>6 DEF Plain, AckQuiet
    <2>4. CASE r = "send"
      <3>1. pc' = pc /\ n' = [n EXCEPT !["send"] = @ + 1]
        BY <1>4, <2>4 DEF Sent
      <3>2. n' \in [Roles -> Nat] /\ n'["recv"] = n["recv"]
        BY <1>1, <3>1
      <3>3. TypeInv'
        BY <1>2, <2>2, <2>4, <3>1, <3>2 DEF TypeInv
      <3>4. Evidence' => Evidence
        BY <1>1, <1>2, <2>2, <3>1 DEF Evidence
      <3> QED
        BY <1>2, <3>1, <3>2, <3>3, <3>4 DEF Plain, KeyQuiet, AckQuiet
    <2> QED
      BY <2>3, <2>4 DEF Roles
  <1> QED
    BY <1>1, <1>3, <1>4

-----------------------------------------------------------------------------
(* The steps that are not plain.                                           *)

\* The receiver acks once it has everything.
LEMMA SendAckStep ==
    ASSUME TypeInv, AckInv, SendAck
    PROVE  TypeInv' /\ KeyQuiet /\ AckInv'
  <1>1. /\ call' = [call EXCEPT !["recv"] = [at |-> 1, msg |-> "ack"]]
        /\ UNCHANGED <<topic, sub, pc, att, code, key, n, flight, inbox>>
        /\ pc["recv"] = "Transfer" /\ n["recv"] = Chunks
    BY DEF SendAck, SendBegin, Between, elsewhere, chanButCall
  <1>2. call' \in [Roles -> [at : 0..5, msg : Items]]
    BY <1>1 DEF TypeInv, Items, Roles
  <1>3. \A t \in Roles : t # "recv" => call'[t] = call[t]
    BY <1>1 DEF TypeInv
  <1>4. TypeInv'
    BY <1>1, <1>2, <1>3 DEF TypeInv
  <1> QED
    BY <1>1, <1>4 DEF KeyQuiet, AckInv

\* While messages are missing there is no ack.
LEMMA GetChunkStep ==
    ASSUME TypeInv, AckInv, GetChunk
    PROVE  TypeInv' /\ KeyQuiet /\ AckInv'
  <1>1. /\ n' = [n EXCEPT !["recv"] = @ + 1] /\ n["recv"] < Chunks
        /\ inbox["recv"] # <<>> /\ inbox' = [inbox EXCEPT !["recv"] = Tail(@)]
        /\ UNCHANGED <<topic, sub, pc, att, code, key, flight, call>>
        /\ pc["recv"] = "Transfer"
    BY DEF GetChunk, Recv, Between, elsewhere, chanButInbox
  <1>2. /\ inbox \in [Roles -> Seq(Items)] /\ "send" \in Roles /\ "recv" \in Roles
        /\ n \in [Roles -> Nat]
    BY DEF TypeInv, Roles
  <1>3. Tail(inbox["recv"]) \in Seq(Items)
    BY <1>1, <1>2, AckTail
  <1>4. inbox' \in [Roles -> Seq(Items)] /\ inbox'["send"] = inbox["send"]
    BY <1>1, <1>2, <1>3
  <1>5. n' \in [Roles -> Nat]
    BY <1>1, <1>2
  <1>6. TypeInv'
    BY <1>1, <1>4, <1>5 DEF TypeInv
  <1>7. ~Evidence /\ (Evidence' => Evidence)
    BY <1>1, <1>2, <1>4, PeerAssumption DEF Evidence, AckInv
  <1> QED
    BY <1>1, <1>6, <1>7 DEF KeyQuiet, AckInv

\* A new run has no key yet, and its attempt is a new one.
LEMMA StartStep ==
    ASSUME TypeInv, KeyInv, AckInv, StartReceive \/ StartSend \/ StartWrong
    PROVE  TypeInv' /\ KeyInv' /\ AckInv'
  <1>1. PICK r \in Roles, c \in {RightCode, WrongCode} :
           /\ Start(r, c)
           /\ r = "recv" => pc["recv"] = "Idle" /\ c = RightCode
           /\ r = "send" => pc["send"] \in {"Idle", "Establish", "Error", "Killed"}
    BY DEF StartReceive, StartSend, StartWrong, SendDue, Roles
  <1>2. /\ pc' = [pc EXCEPT ![r] = "Subscribe"] /\ att' = [att EXCEPT ![r] = @ + 1]
        /\ code' = [code EXCEPT ![r] = c] /\ key' = [key EXCEPT ![r] = NoKey]
        /\ n' = [n EXCEPT ![r] = 0]
        /\ UNCHANGED <<topic, sub, flight, inbox, call>>
    BY <1>1 DEF Start, chan
  <1>3. "send" \in Roles /\ "recv" \in Roles /\ Other(r) \in Roles /\ Other(r) # r
    BY DEF Roles, Other
  <1>4. /\ pc \in [Roles -> Points] /\ att \in [Roles -> Nat] /\ key \in [Roles -> Keys]
        /\ code \in [Roles -> {RightCode, WrongCode}] /\ n \in [Roles -> Nat]
        /\ topic \in Seq(Frames)
    BY DEF TypeInv
  <1>5. NoKey \in Keys
    BY DEF NoKey, Keys
  <1>6. /\ pc' \in [Roles -> Points] /\ att' \in [Roles -> Nat]
        /\ key' \in [Roles -> Keys]
        /\ code' \in [Roles -> {RightCode, WrongCode}] /\ n' \in [Roles -> Nat]
    BY <1>2, <1>4, <1>5 DEF Points, Before
  <1>7. /\ pc'[r] = "Subscribe" /\ att'[r] = att[r] + 1 /\ code'[r] = c /\ n'[r] = 0
        /\ \A t \in Roles : t # r => /\ pc'[t] = pc[t] /\ att'[t] = att[t] /\ code'[t] = code[t]
                                     /\ key'[t] = key[t] /\ n'[t] = n[t]
    BY <1>2, <1>4
  <1>8. TypeInv'
    <2>1. call[r].at = NoCall
      BY <1>1 DEF TypeInv, Roles
    <2> QED
      BY <1>2, <1>6, <1>7, <2>1 DEF TypeInv
  <1>9. AckInv'
    <2>1. CASE r = "recv"
      <3>1. n["recv"] = 0 /\ ~Evidence
        BY <1>1, <2>1, PeerAssumption DEF AckInv
      <3>2. ~Evidence'
        BY <1>2, <1>3, <1>7, <2>1, <3>1 DEF Evidence
      <3> QED
        BY <1>7, <2>1, <3>2 DEF AckInv
    <2>2. CASE r = "send"
      <3>1. Evidence' => Evidence
        BY <1>2, <1>7, <2>2 DEF Evidence
      <3> QED
        BY <1>3, <1>7, <2>2, <3>1 DEF AckInv
    <2> QED
      BY <2>1, <2>2 DEF Roles
  <1>10. ASSUME NEW f \in Frames, f.kind = "confirm", ConfirmOk(f)
         PROVE  ConfirmOk(f)'
    <2> DEFINE o == f.by
    <2>1. o \in Roles /\ f.key \in Keys
      BY <1>10 DEF Frames
    <2>2. f.key[o] \in Nat /\ att[o] \in Nat
      BY <1>4, <2>1 DEF Keys, Roles
    <2>3. CASE o = r
      BY <1>7, <1>10, <2>1, <2>2, <2>3 DEF ConfirmOk
    <2>4. CASE o # r
      BY <1>7, <1>10, <2>1, <2>2, <2>4 DEF ConfirmOk
    <2> QED
      BY <2>3, <2>4
  <1>11. ASSUME NEW t \in Roles, pc'[t] \in After PROVE Confirmed(t)'
    <2>1. t # r
      BY <1>7, <1>11 DEF After
    <2>2. Confirmed(t)
      BY <1>7, <1>11, <2>1 DEF KeyInv
    <2> QED
      BY <1>2, <1>7, <2>1, <2>2 DEF Confirmed
  <1>12. KeyInv'
    <2>1. code'["recv"] = RightCode
      BY <1>1, <1>3, <1>7 DEF KeyInv
    <2>2. att'["recv"] = IF pc'["recv"] = "Idle" THEN 0 ELSE 1
      BY <1>1, <1>3, <1>7 DEF KeyInv
    <2>3. \A t \in Roles : pc'[t] # "Idle" => att'[t] >= 1
      <3>1. \A t \in Roles : att[t] >= 0
        BY <1>4
      <3>2. att'[r] >= 1
        BY <1>4, <1>7
      <3> QED
        BY <1>7, <3>2 DEF KeyInv
    <2>4. \A t \in Roles : pc'[t] \in After \cup {"Confirm"} =>
             key'[t].code = code'[t] /\ key'[t][t] = att'[t]
      BY <1>7 DEF KeyInv, After
    <2>5. \A i \in 1..Len(topic) : topic[i].kind = "confirm" => ConfirmOk(topic[i])'
      <3> SUFFICES ASSUME NEW i \in 1..Len(topic), topic[i].kind = "confirm"
                   PROVE  ConfirmOk(topic[i])'
        OBVIOUS
      <3>1. topic[i] \in Frames /\ ConfirmOk(topic[i]) /\ topic'[i] = topic[i]
        BY <1>2, <1>4 DEF KeyInv
      <3> QED
        BY <1>10, <3>1 DEF ConfirmOk
    <2> QED
      BY <1>2, <1>11, <2>1, <2>2, <2>3, <2>4, <2>5 DEF KeyInv
  <1> QED
    BY <1>8, <1>9, <1>12

\* The topic only grows.
LEMMA TopicGrows ==
    ASSUME TypeInv, NEW f \in Frames, topic' = Append(topic, f)
    PROVE  /\ topic' \in Seq(Frames) /\ Len(topic) \in Nat /\ Len(topic') = Len(topic) + 1
           /\ topic'[Len(topic) + 1] = f
           /\ \A i \in 1..Len(topic) : topic'[i] = topic[i]
  <1>1. topic \in Seq(Frames)
    BY DEF TypeInv
  <1> HIDE DEF Frames
  <1> QED
    BY <1>1

\* A confirmation that is on the topic stays there.
LEMMA ConfirmedStays ==
    ASSUME TypeInv, NEW t \in Roles, Confirmed(t), key'[t] = key[t],
           topic' = topic \/ \E f \in Frames : topic' = Append(topic, f)
    PROVE  Confirmed(t)'
  <1>1. CASE topic' = topic
    BY <1>1 DEF Confirmed
  <1>2. ASSUME NEW f \in Frames, topic' = Append(topic, f) PROVE Confirmed(t)'
    <2>1. PICK i \in 1..Len(topic) :
             topic[i].kind = "confirm" /\ topic[i].by = Other(t) /\ topic[i].key = key[t]
      BY DEF Confirmed
    <2>2. i \in 1..Len(topic') /\ topic'[i] = topic[i]
      BY <1>2, <2>1, TopicGrows
    <2> QED
      BY <2>1, <2>2 DEF Confirmed
  <1> QED
    BY <1>1, <1>2

\* Points move within what the keys are about.
LEMMA KeyQuietStep ==
    ASSUME TypeInv, TypeInv', KeyInv, KeyQuiet
    PROVE  KeyInv'
  <1>1. /\ att' = att /\ code' = code /\ key' = key /\ "recv" \in Roles
        /\ topic' = topic \/ \E f \in Frames : f.kind # "confirm" /\ topic' = Append(topic, f)
    BY DEF KeyQuiet, Roles
  <1>2. ASSUME NEW t \in Roles
        PROVE  /\ pc'[t] = "Idle" <=> pc[t] = "Idle"
               /\ pc'[t] \in After \cup {"Confirm"} => pc[t] \in After \cup {"Confirm"}
               /\ pc'[t] \in After => pc[t] \in After
               /\ pc'[t] \in Before => pc[t] \in Before
    BY DEF KeyQuiet, Before, After, Ended
  <1>3. ASSUME NEW f \in Frames, f.kind = "confirm", ConfirmOk(f)
        PROVE  ConfirmOk(f)'
    <2>1. f.by \in Roles
      BY <1>3 DEF Frames
    <2> QED
      BY <1>1, <1>2, <1>3, <2>1 DEF ConfirmOk
  <1>4. \A i \in 1..Len(topic') : topic'[i].kind = "confirm" => ConfirmOk(topic[i])'
    <2> SUFFICES ASSUME NEW i \in 1..Len(topic'), topic'[i].kind = "confirm"
                 PROVE  ConfirmOk(topic[i])'
      OBVIOUS
    <2>1. topic \in Seq(Frames)
      BY DEF TypeInv
    <2>2. i \in 1..Len(topic) /\ topic'[i] = topic[i]
      <3>1. CASE topic' = topic
        BY <3>1
      <3>2. ASSUME NEW f \in Frames, f.kind # "confirm", topic' = Append(topic, f)
            PROVE  i \in 1..Len(topic) /\ topic'[i] = topic[i]
        BY <3>2, TopicGrows
      <3> QED
        BY <1>1, <3>1, <3>2
    <2>3. topic[i] \in Frames /\ ConfirmOk(topic[i])
      BY <2>1, <2>2 DEF KeyInv
    <2> QED
      BY <1>3, <2>2, <2>3 DEF ConfirmOk
  <1>5. ASSUME NEW t \in Roles, pc'[t] \in After PROVE Confirmed(t)'
    BY <1>1, <1>2, <1>5, ConfirmedStays DEF KeyInv
  <1>6. \A t \in Roles : pc'[t] # "Idle" => att'[t] >= 1
    BY <1>1, <1>2 DEF KeyInv
  <1>7. \A t \in Roles : pc'[t] \in After \cup {"Confirm"} =>
           key'[t].code = code'[t] /\ key'[t][t] = att'[t]
    BY <1>1, <1>2 DEF KeyInv
  <1>8. code'["recv"] = RightCode /\ att'["recv"] = IF pc'["recv"] = "Idle" THEN 0 ELSE 1
    BY <1>1, <1>2 DEF KeyInv
  <1> QED
    BY <1>4, <1>5, <1>6, <1>7, <1>8 DEF KeyInv

\* A key is made for the current attempt, which has confirmed nothing before.
LEMMA GetPakeStep ==
    ASSUME TypeInv, KeyInv, AckInv, NEW r \in Roles, GetPake(r)
    PROVE  TypeInv' /\ KeyInv' /\ AckInv'
  <1> DEFINE k == KeyOf(r, Frame(r).of)
             f == ConfirmFrame(r, k)
  <1>1. /\ pc[r] = "Pake" /\ HasFrame(r) /\ Wanted(r)
        /\ key' = [key EXCEPT ![r] = k] /\ topic' = Append(topic, f)
        /\ sub' = [sub EXCEPT ![r] = @ + 1] /\ pc' = [pc EXCEPT ![r] = "Confirm"]
        /\ UNCHANGED <<att, code, n, flight, inbox, call>>
    BY DEF GetPake, Publish, Taken, chan
  <1>2. /\ pc \in [Roles -> Points] /\ att \in [Roles -> Nat] /\ key \in [Roles -> Keys]
        /\ code \in [Roles -> {RightCode, WrongCode}] /\ sub \in [Roles -> Int]
        /\ topic \in Seq(Frames) /\ "recv" \in Roles /\ "send" \in Roles
    BY DEF TypeInv, Roles
  <1>3. Frame(r) \in Frames /\ Frame(r).kind = "pake"
    <2>1. sub[r] + 1 \in 1..Len(topic)
      BY <1>1, <1>2 DEF HasFrame
    <2> QED
      BY <1>1, <1>2, <2>1 DEF Frame, Wanted
  <1>4. Frame(r).of \in Nat
    BY <1>3 DEF Frames
  <1>5. k \in Keys /\ k.code = code[r] /\ k[r] = att[r]
    BY <1>2, <1>4 DEF KeyOf, Keys, Roles
  <1> HIDE DEF k
  <1>6. f \in Frames /\ f.kind = "confirm" /\ f.by = r /\ f.key = k
    BY <1>5, FramesPublished DEF ConfirmFrame
  <1> HIDE DEF f
  <1>7. /\ pc' \in [Roles -> Points] /\ key' \in [Roles -> Keys] /\ sub' \in [Roles -> Int]
        /\ pc'[r] = "Confirm" /\ key'[r] = k
        /\ \A t \in Roles : t # r => pc'[t] = pc[t] /\ key'[t] = key[t]
    BY <1>1, <1>2, <1>5 DEF Points
  <1>8. /\ topic' \in Seq(Frames) /\ Len(topic) \in Nat /\ Len(topic') = Len(topic) + 1
        /\ topic'[Len(topic) + 1] = f
        /\ \A i \in 1..Len(topic) : topic'[i] = topic[i]
    BY <1>1, <1>6, TopicGrows
  <1>9. TypeInv'
    BY <1>1, <1>7, <1>8 DEF TypeInv
  <1>10. AckInv'
    <2>1. Evidence' => Evidence
      BY <1>1, <1>2, <1>7 DEF Evidence
    <2> QED
      BY <1>1, <1>2, <1>7, <2>1 DEF AckInv
  <1>11. ASSUME NEW g \in Frames, g.kind = "confirm", ConfirmOk(g)
         PROVE  ConfirmOk(g)'
    <2>1. g.by \in Roles /\ g.key \in Keys
      BY <1>11 DEF Frames
    <2>2. g.key[g.by] \in Nat /\ att[g.by] \in Nat
      BY <1>2, <2>1 DEF Keys, Roles
    <2>3. CASE g.by = r
      <3>1. g.key[g.by] < att[g.by]
        BY <1>1, <1>11, <2>3 DEF ConfirmOk, Before
      <3> QED
        BY <1>1, <1>7, <1>11, <2>2, <2>3, <3>1 DEF ConfirmOk, Before
    <2>4. CASE g.by # r
      BY <1>1, <1>7, <1>11, <2>1, <2>4 DEF ConfirmOk
    <2> QED
      BY <2>3, <2>4
  <1>12. att[r] >= 1 /\ att[r] \in Nat
    BY <1>1, <1>2 DEF KeyInv
  <1>13. /\ f.key[f.by] = att'[f.by] /\ f.key[f.by] >= 1 /\ f.key[f.by] <= att'[f.by]
         /\ key'[f.by] = f.key /\ pc'[f.by] \notin Before
         /\ f.by = "recv" => f.key.code # WrongCode
    BY <1>1, <1>5, <1>6, <1>7, <1>12, PeerAssumption DEF KeyInv, Before
  <1>14. \A i \in 1..Len(topic') : topic'[i].kind = "confirm" => ConfirmOk(topic[i])'
    <2> SUFFICES ASSUME NEW i \in 1..Len(topic'), topic'[i].kind = "confirm"
                 PROVE  ConfirmOk(topic[i])'
      OBVIOUS
    <2>1. CASE i = Len(topic) + 1
      BY <1>8, <1>13, <2>1 DEF ConfirmOk
    <2>2. CASE i # Len(topic) + 1
      <3>1. i \in 1..Len(topic) /\ topic'[i] = topic[i]
        BY <1>8, <2>2
      <3>2. topic[i] \in Frames /\ ConfirmOk(topic[i])
        BY <1>2, <3>1 DEF KeyInv
      <3> QED
        BY <1>11, <3>1, <3>2 DEF ConfirmOk
    <2> QED
      BY <2>1, <2>2
  <1>15. ASSUME NEW t \in Roles, pc'[t] \in After PROVE Confirmed(t)'
    <2>1. t # r
      BY <1>7, <1>15 DEF After
    <2>2. Confirmed(t) /\ key'[t] = key[t]
      BY <1>7, <1>15, <2>1 DEF KeyInv
    <2> QED
      BY <1>1, <1>6, <2>2, ConfirmedStays
  <1>16. \A t \in Roles : pc'[t] # "Idle" => att'[t] >= 1
    BY <1>1, <1>7, <1>12 DEF KeyInv
  <1>17. \A t \in Roles : pc'[t] \in After \cup {"Confirm"} =>
            key'[t].code = code'[t] /\ key'[t][t] = att'[t]
    BY <1>1, <1>5, <1>7 DEF KeyInv
  <1>18. code'["recv"] = RightCode /\ att'["recv"] = IF pc'["recv"] = "Idle" THEN 0 ELSE 1
    BY <1>1, <1>2, <1>7 DEF KeyInv
  <1> QED
    BY <1>9, <1>10, <1>14, <1>15, <1>16, <1>17, <1>18 DEF KeyInv

\* A peer that goes on has read a confirmation of its key.
LEMMA GetConfirmStep ==
    ASSUME TypeInv, KeyInv, AckInv, NEW r \in Roles, GetConfirm(r)
    PROVE  TypeInv' /\ KeyInv' /\ AckInv'
  <1>1. CASE Leave(r, "Establish")
    <2>1. Plain
      BY <1>1, LeavePlain DEF Leave, GetConfirm, Ended
    <2> QED
      BY <2>1, KeyQuietStep DEF Plain, AckQuiet, AckInv
  <1>2. CASE Confirms(r) /\ pc' = [pc EXCEPT ![r] = "Connect"] /\ sub' = [sub EXCEPT ![r] = -1]
             /\ UNCHANGED <<topic, att, code, key, n, signal, chan>>
    <2>1. /\ pc[r] = "Confirm" /\ HasFrame(r) /\ Wanted(r) /\ Confirms(r)
          /\ UNCHANGED <<topic, att, code, key, n, flight, inbox, call>>
      BY <1>2 DEF GetConfirm, chan
    <2>2. pc \in [Roles -> Points] /\ sub \in [Roles -> Int] /\ topic \in Seq(Frames)
          /\ "recv" \in Roles /\ "send" \in Roles
      BY DEF TypeInv, Roles
    <2>3. /\ pc' \in [Roles -> Points] /\ sub' \in [Roles -> Int] /\ pc'[r] = "Connect"
          /\ \A t \in Roles : t # r => pc'[t] = pc[t]
      BY <1>2, <2>2 DEF Points, After
    <2>4. TypeInv'
      BY <2>1, <2>3 DEF TypeInv
    <2>5. AckInv'
      <3>1. Evidence' => Evidence
        BY <2>1, <2>2, <2>3 DEF Evidence
      <3> QED
        BY <2>1, <2>2, <2>3, <3>1 DEF AckInv
    <2>6. Confirmed(r)
      <3>1. sub[r] + 1 \in 1..Len(topic)
        BY <2>1, <2>2 DEF HasFrame
      <3> QED
        BY <2>1, <3>1 DEF Wanted, Confirms, Frame, Confirmed
    <2>7. \A t \in Roles : pc'[t] \in After => Confirmed(t)'
      BY <2>1, <2>3, <2>6 DEF KeyInv, Confirmed
    <2>8. \A i \in 1..Len(topic') : topic'[i].kind = "confirm" => ConfirmOk(topic[i])'
      <3> SUFFICES ASSUME NEW i \in 1..Len(topic), topic[i].kind = "confirm"
                   PROVE  ConfirmOk(topic[i])'
        BY <2>1
      <3>1. topic[i] \in Frames /\ ConfirmOk(topic[i]) /\ topic'[i] = topic[i]
        BY <2>1, <2>2 DEF KeyInv
      <3>2. topic[i].by \in Roles
        BY <3>1 DEF Frames
      <3>3. pc'[topic[i].by] \in Before => pc[topic[i].by] \in Before
        BY <2>3, <3>2 DEF Before
      <3> QED
        BY <2>1, <3>1, <3>3 DEF ConfirmOk
    <2>9. /\ \A t \in Roles : pc'[t] # "Idle" => att'[t] >= 1
          /\ \A t \in Roles : pc'[t] \in After \cup {"Confirm"} =>
                key'[t].code = code'[t] /\ key'[t][t] = att'[t]
          /\ code'["recv"] = RightCode /\ att'["recv"] = IF pc'["recv"] = "Idle" THEN 0 ELSE 1
      BY <2>1, <2>2, <2>3 DEF KeyInv
    <2> QED
      BY <2>4, <2>5, <2>7, <2>8, <2>9 DEF KeyInv
  <1> QED
    BY <1>1, <1>2 DEF GetConfirm

-----------------------------------------------------------------------------
(* The theorems.                                                           *)

PeerInv == TypeInv /\ KeyInv /\ AckInv

\* Stale frames of an earlier transfer carry the attempt 0.
LEMMA PeerInit == Init => PeerInv
  <1> SUFFICES ASSUME Init PROVE PeerInv
    OBVIOUS
  <1> USE DEF Init, ChannelInit
  <1>1. NoKey \in Keys /\ NoKey.send = 0 /\ NoKey.recv = 0 /\ NoKey.code = OldCode
    BY DEF NoKey, Keys
  <1>2. \A i \in 1..4 : /\ OldFrames[i] \in Frames
                        /\ OldFrames[i].kind = "confirm" => OldFrames[i].key = NoKey
    <2>1. /\ OldFrames[1] \in Frames /\ OldFrames[1].kind = "pake"
          /\ OldFrames[2] \in Frames /\ OldFrames[2].kind = "pake"
      BY DEF OldFrames, Frames, Roles
    <2>2. /\ OldFrames[3] \in Frames /\ OldFrames[3].key = NoKey
          /\ OldFrames[4] \in Frames /\ OldFrames[4].key = NoKey
      BY <1>1 DEF OldFrames, Frames, Roles
    <2>3. \A i \in 1..4 : i = 1 \/ i = 2 \/ i = 3 \/ i = 4
      OBVIOUS
    <2> QED
      BY <2>1, <2>2, <2>3
  <1>3. /\ topic \in Seq(Frames)
        /\ \A i \in 1..Len(topic) : topic[i].kind = "confirm" => topic[i].key = NoKey
    <2>1. CASE topic = <<>>
      BY <2>1
    <2>2. CASE topic \in StaleTopics
      <3>1. PICK a \in 1..4, b \in 1..4 : topic = SubSeq(OldFrames, a, b)
        BY <2>2 DEF StaleTopics
      <3>2. \A i \in a..b : OldFrames[i] \in Frames
        BY <1>2
      <3>3. a <= b
        BY <2>2, <3>1, SubSeqEmpty DEF StaleTopics
      <3>4. /\ SubSeq(OldFrames, a, b) \in Seq(Frames)
            /\ Len(SubSeq(OldFrames, a, b)) = b - a + 1
            /\ \A i \in 1..b - a + 1 : SubSeq(OldFrames, a, b)[i] = OldFrames[a + i - 1]
        <4>1. a \in Int /\ b \in Int
          OBVIOUS
        <4> HIDE DEF Init, OldFrames, Frames
        <4> QED
          BY <3>2, <3>3, <4>1, SubSeqProperties
      <3>5. /\ topic \in Seq(Frames) /\ Len(topic) = b - a + 1
            /\ \A i \in 1..Len(topic) : topic[i] = OldFrames[a + i - 1]
        BY <3>1, <3>4
      <3>6. \A i \in 1..Len(topic) : a + i - 1 \in 1..4
        BY <3>5
      <3> QED
        BY <1>2, <3>5, <3>6
    <2> QED
      BY <2>1, <2>2
  <1>4. TypeInv
    <2>1. 0 \in 0..5 /\ Closed \in Items /\ <<>> \in Seq(Items) /\ "Idle" \in Points
      BY DEF Items, Points
    <2> QED
      BY <1>1, <1>3, <2>1 DEF TypeInv, NoCall
  <1>5. ASSUME NEW i \in 1..Len(topic), topic[i].kind = "confirm"
        PROVE  ConfirmOk(topic[i])
    <2>1. topic[i] \in Frames /\ topic[i].key = NoKey
      BY <1>3, <1>5
    <2>2. topic[i].by \in Roles
      BY <1>5, <2>1 DEF Frames
    <2>3. NoKey[topic[i].by] = 0
      BY <1>1, <2>2 DEF Roles
    <2> QED
      BY <1>1, <2>1, <2>2, <2>3, PeerAssumption DEF ConfirmOk, Before
  <1>6. KeyInv
    BY <1>5 DEF KeyInv, After, Roles
  <1>7. AckInv
    BY DEF AckInv, Evidence, HasAck, Closed, Roles
  <1> QED
    BY <1>4, <1>6, <1>7 DEF PeerInv

\* Every step keeps the invariant.
LEMMA PeerStep == PeerInv /\ [Next]_vars => PeerInv'
  <1> SUFFICES ASSUME PeerInv, [Next]_vars PROVE PeerInv'
    OBVIOUS
  <1>1. TypeInv /\ KeyInv /\ AckInv
    BY DEF PeerInv
  <1>2. ASSUME Plain PROVE PeerInv'
    BY <1>1, <1>2, KeyQuietStep DEF Plain, AckQuiet, AckInv, PeerInv
  <1>3. ASSUME NEW r \in Roles, Works(r) \/ Candidates(r) \/ Delivery(r) \/ Timeout(r)
        PROVE  PeerInv'
    <2>1. CASE GetPake(r)
      BY <1>1, <2>1, GetPakeStep DEF PeerInv
    <2>2. CASE GetConfirm(r)
      BY <1>1, <2>2, GetConfirmStep DEF PeerInv
    <2>3. CASE r = "recv" /\ GetChunk
      BY <1>1, <2>3, GetChunkStep, KeyQuietStep DEF PeerInv
    <2>4. CASE r = "recv" /\ SendAck
      BY <1>1, <2>4, SendAckStep, KeyQuietStep DEF PeerInv
    <2>5. CASE \/ Subscribe(r) \/ PublishPake(r) \/ SkipFrame(r) \/ Negotiation(r)
               \/ Candidates(r)
      BY <1>1, <1>2, <2>5, SignallingPlain DEF Negotiation
    <2>6. CASE \/ Timeout(r) \/ SendFailed(r) \/ RecvFails(r)
               \/ r = "recv" /\ LingerEnds
               \/ r = "send" /\ GetAck
      BY <1>1, <1>2, <2>6, LeavingPlain
    <2>7. CASE Delivery(r)
      BY <1>1, <1>2, <2>7, DeliveryPlain
    <2>8. CASE SendSteps(r)
      BY <1>1, <1>2, <2>8, SendStepsPlain
    <2>9. CASE Sent(r) \/ (r = "send" /\ SendChunk)
      <3>1. r = "send" \/ r = "recv"
        BY DEF Roles
      <3> QED
        BY <1>1, <1>2, <2>9, <3>1, CallPlain
    <2> QED
      BY <1>3, <2>1, <2>2, <2>3, <2>4, <2>5, <2>6, <2>7, <2>8, <2>9, Zenon
         DEF Works, Handshake, Transfer
  <1>4. CASE Users \/ StartWrong
    BY <1>1, <1>4, StartStep DEF Users, PeerInv
  <1>5. CASE LinkForms \/ Cut
    BY <1>1, <1>2, <1>5, LinkPlain
  <1>6. ASSUME NEW r \in Roles, StreamEnds(r) \/ PublishFails(r) \/ Kill(r) PROVE PeerInv'
    BY <1>1, <1>2, <1>6, LeavingPlain
  <1>7. ASSUME NEW r \in Roles, NEW h \in Callbacks, Closing(r, h) PROVE PeerInv'
    BY <1>1, <1>2, <1>7, DeliveryPlain
  <1>8. CASE UNCHANGED vars
    BY <1>1, <1>8 DEF PeerInv, TypeInv, KeyInv, AckInv, ConfirmOk, Confirmed, Evidence,
       vars, procs, signal, chan
  <1> QED
    BY <1>3, <1>4, <1>5, <1>6, <1>7, <1>8, Zenon DEF Next, Faulty

\* The invariant of a direct transfer.
THEOREM PeerInvariant == Spec => []PeerInv
  BY PeerInit, PeerStep, PTL DEF Spec

\* Whatever stale, replayed or foreign frames the topic holds, and however often
\* `b2p send` is run: a peer only leaves the key exchange with a key of the right
\* code and its own attempt, and two peers past it hold the same key.  A sender
\* past it has a confirmation by the receiver for its key, and the receiver's only
\* run has confirmed one key.
THEOREM PeerSameKey == Spec => []SameKey
  <1>1. PeerInv => SameKey
    <2> SUFFICES ASSUME PeerInv PROVE SameKey
      OBVIOUS
    <2>1. TypeInv /\ KeyInv
      BY DEF PeerInv
    <2>2. /\ pc \in [Roles -> Points] /\ att \in [Roles -> Nat] /\ key \in [Roles -> Keys]
          /\ topic \in Seq(Frames) /\ code \in [Roles -> {RightCode, WrongCode}]
      BY <2>1 DEF TypeInv
    <2>3. ASSUME NEW r \in Roles, Trusted(r) PROVE pc[r] \in After
      BY <2>2, <2>3 DEF Trusted, Running, Handshaking, Points, Before
    <2>4. ASSUME NEW r \in Roles, pc[r] \in After
          PROVE  \E f \in Frames : /\ f.kind = "confirm" /\ f.by = Other(r) /\ f.key = key[r]
                                   /\ ConfirmOk(f)
      <3>1. PICK i \in 1..Len(topic) :
               topic[i].kind = "confirm" /\ topic[i].by = Other(r) /\ topic[i].key = key[r]
        BY <2>1, <2>4 DEF KeyInv, Confirmed
      <3>2. topic[i] \in Frames /\ ConfirmOk(topic[i])
        BY <2>1, <2>2, <3>1 DEF KeyInv
      <3> QED
        BY <3>1, <3>2
    <2>5. ASSUME NEW r \in Roles, pc[r] \in After
          PROVE  key[r].code = RightCode /\ key[r][r] = att[r] /\ att[r] >= 1
      <3>1. key[r].code = code[r] /\ key[r][r] = att[r] /\ att[r] >= 1
        BY <2>1, <2>5 DEF KeyInv, After
      <3>2. CASE r = "recv"
        BY <2>1, <3>1, <3>2 DEF KeyInv
      <3>3. CASE r = "send"
        <4>1. PICK f \in Frames : f.by = "recv" /\ f.key = key[r] /\ ConfirmOk(f)
          BY <2>4, <2>5, <3>3 DEF Other
        <4>2. key[r].code # WrongCode
          BY <4>1 DEF ConfirmOk
        <4> QED
          BY <2>2, <3>1, <4>2
      <3> QED
        BY <3>2, <3>3 DEF Roles
    <2>6. ASSUME pc["send"] \in After, pc["recv"] \in After PROVE key["send"] = key["recv"]
      <3>1. "send" \in Roles /\ "recv" \in Roles
        BY DEF Roles
      <3>2. PICK f \in Frames : f.by = "recv" /\ f.key = key["send"] /\ ConfirmOk(f)
        BY <2>4, <2>6, <3>1 DEF Other
      <3>3. key["send"].send >= 1
        BY <2>5, <2>6, <3>1
      <3>4. f.key # NoKey
        BY <3>2, <3>3 DEF NoKey
      <3>5. f.key["recv"] >= 1 /\ f.key["recv"] <= att["recv"]
        BY <3>2, <3>4 DEF ConfirmOk
      <3>6. att["recv"] = 1
        BY <2>1, <2>6 DEF KeyInv, After
      <3>7. f.key["recv"] \in Nat
        BY <2>2, <3>1, <3>2 DEF Keys
      <3> QED
        BY <3>2, <3>5, <3>6, <3>7 DEF ConfirmOk
    <2> QED
      BY <2>3, <2>5, <2>6 DEF SameKey, Other, Roles
  <1> QED
    BY <1>1, PeerInvariant, PTL

\* Whatever is cut, killed or closed: a `b2p send` that reports success has read an
\* ack, and an ack is only ever sent by a receiver that has everything.
THEOREM PeerSuccessMeansReceived == Spec => []SuccessMeansReceived
  <1>1. PeerInv => SuccessMeansReceived
    BY DEF PeerInv, AckInv, Evidence, SuccessMeansReceived
  <1> QED
    BY <1>1, PeerInvariant, PTL

-----------------------------------------------------------------------------
(* Bounds and types.                                                       *)

\* The queues of the channel.
QueueInv == \A r \in Roles : Len(inbox[r]) <= InboxCap /\ Len(flight[r]) <= Window

\* The peer that goes away empties its queues, and may cut the other's.
LEMMA QueueGone ==
    ASSUME TypeInv, QueueInv, NEW r \in Roles, NEW ends, Gone(r, ends)
    PROVE  QueueInv'
  <1> DEFINE o == Other(r)
  <1>1. /\ flight \in [Roles -> Seq(Items)] /\ inbox \in [Roles -> Seq(Items)]
        /\ o \in Roles /\ o # r /\ InboxCap \in Nat /\ Window \in Nat
        /\ \A q \in Roles : q = r \/ q = o
    BY ChannelAssumption DEF TypeInv, Roles, Other
  <1>2. PICK k \in 0..Len(flight[o]) :
           flight' = [flight EXCEPT ![r] = <<>>, ![o] = IF fate[o] = "up" THEN SubSeq(@, 1, k) ELSE @]
    BY DEF Gone
  <1> HIDE DEF o, Items
  <1> DEFINE z == SubSeq(flight[o], 1, k)
  <1>3. Len(z) = k /\ k <= Len(flight[o]) /\ Len(flight[o]) \in Nat
    BY <1>1, <1>2, SubSeqProperties
  <1>4. flight'[r] = <<>> /\ (flight'[o] = z \/ flight'[o] = flight[o])
    BY <1>1, <1>2
  <1> HIDE DEF z
  <1>5. \A q \in Roles : Len(flight'[q]) <= Window
    <2>1. Len(flight'[r]) <= Window
      BY <1>1, <1>4
    <2>2. Len(flight'[o]) <= Window
      BY <1>1, <1>3, <1>4 DEF QueueInv
    <2> QED
      BY <1>1, <2>1, <2>2
  <1>6. \A q \in Roles : Len(inbox'[q]) <= InboxCap
    BY <1>1 DEF Gone, QueueInv
  <1> QED
    BY <1>5, <1>6 DEF QueueInv

\* The callbacks wait for room, and send for the engine.
LEMMA QueueStep == TypeInv /\ QueueInv /\ [Next]_vars => QueueInv'
  <1> SUFFICES ASSUME TypeInv, QueueInv, [Next]_vars PROVE QueueInv'
    OBVIOUS
  <1> HIDE DEF Items
  <1>1. /\ flight \in [Roles -> Seq(Items)] /\ inbox \in [Roles -> Seq(Items)]
        /\ InboxCap \in Nat /\ Window \in Nat /\ "send" \in Roles /\ "recv" \in Roles
        /\ \A r \in Roles : call[r].msg \in Items
    BY ChannelAssumption DEF TypeInv, Roles
  <1>2. ASSUME UNCHANGED <<flight, inbox>> PROVE QueueInv'
    BY <1>2 DEF QueueInv
  <1>3. ASSUME NEW r \in Roles, NEW res, Leave(r, res) PROVE QueueInv'
    BY <1>3, QueueGone DEF Leave, LeaveSeen
  <1>4. ASSUME NEW r \in Roles, Delivery(r) PROVE QueueInv'
    <2> DEFINE m == Head(flight[r])
    <2>1. /\ flight[r] # <<>> /\ Len(inbox[r]) < InboxCap /\ inbox' = [inbox EXCEPT ![r] = Append(@, m)]
          /\ flight' = [flight EXCEPT ![r] = Tail(@)]
      BY <1>4 DEF Delivery, OnMessage, Room, Push
    <2> HIDE DEF m
    <2>2. Len(inbox'[r]) = Len(inbox[r]) + 1 /\ Len(flight'[r]) = Len(flight[r]) - 1
      BY <1>1, <2>1
    <2>3. Len(inbox[r]) \in Nat /\ Len(flight[r]) \in Nat
      BY <1>1
    <2>4. \A q \in Roles : q # r => inbox'[q] = inbox[q] /\ flight'[q] = flight[q]
      BY <1>1, <2>1
    <2> QED
      BY <1>1, <2>1, <2>2, <2>3, <2>4 DEF QueueInv
  <1>5. ASSUME NEW r \in Roles, NEW h \in Callbacks, Closing(r, h) PROVE QueueInv'
    <2>1. CASE inbox' = inbox
      BY <1>2, <1>5, <2>1 DEF Closing, CloseCallback
    <2>2. CASE inbox' # inbox
      <3>1. /\ Len(inbox[r]) < InboxCap /\ inbox' = [inbox EXCEPT ![r] = Append(@, Closed)]
            /\ flight' = flight
        BY <1>5, <2>2 DEF Closing, CloseCallback, Room, Push
      <3>2. Len(inbox'[r]) = Len(inbox[r]) + 1 /\ Len(inbox[r]) \in Nat
        BY <1>1, <3>1
      <3>3. \A q \in Roles : q # r => inbox'[q] = inbox[q]
        BY <1>1, <3>1
      <3> QED
        BY <1>1, <3>1, <3>2, <3>3 DEF QueueInv
    <2> QED
      BY <2>1, <2>2
  <1>6. ASSUME NEW r \in Roles, SendSteps(r) PROVE QueueInv'
    <2>1. CASE DcSend(r)
      <3> DEFINE o == Other(r)
                 m == call[r].msg
      <3>1. /\ Len(flight[o]) < Window /\ flight' = [flight EXCEPT ![o] = Append(@, m)]
            /\ inbox' = inbox /\ o \in Roles
        BY <2>1 DEF DcSend, Other, Roles
      <3> HIDE DEF o, m
      <3>2. Len(flight'[o]) = Len(flight[o]) + 1 /\ Len(flight[o]) \in Nat
        BY <1>1, <3>1
      <3>3. \A q \in Roles : q # o => flight'[q] = flight[q]
        BY <1>1, <3>1
      <3> QED
        BY <1>1, <3>1, <3>2, <3>3 DEF QueueInv
    <2>2. CASE ~DcSend(r)
      BY <1>2, <1>6, <2>2 DEF SendSteps, SendPrologue, DcSendFails, Notified
    <2> QED
      BY <2>1, <2>2
  <1>7. CASE GetChunk
    <2>1. /\ inbox["recv"] # <<>> /\ inbox' = [inbox EXCEPT !["recv"] = Tail(@)] /\ flight' = flight
      BY <1>7 DEF GetChunk, Recv, chanButInbox
    <2>2. /\ Len(inbox'["recv"]) = Len(inbox["recv"]) - 1 /\ Len(inbox["recv"]) \in Nat
          /\ \A q \in Roles : q # "recv" => inbox'[q] = inbox[q]
      BY <1>1, <2>1
    <2> QED
      BY <1>1, <2>1, <2>2 DEF QueueInv
  <1>8. CASE Cut
    <2>1. PICK i \in 0..Len(flight["send"]), j \in 0..Len(flight["recv"]) :
             flight' = [flight EXCEPT !["send"] = SubSeq(@, 1, i), !["recv"] = SubSeq(@, 1, j)]
      BY <1>8 DEF Cut
    <2> DEFINE y == SubSeq(flight["send"], 1, i)
               z == SubSeq(flight["recv"], 1, j)
    <2>2. /\ Len(y) = i /\ Len(z) = j /\ i <= Len(flight["send"]) /\ j <= Len(flight["recv"])
          /\ Len(flight["send"]) \in Nat /\ Len(flight["recv"]) \in Nat
      BY <1>1, <2>1, SubSeqProperties
    <2>3. flight' = [flight EXCEPT !["send"] = y, !["recv"] = z]
      BY <2>1
    <2> HIDE DEF y, z
    <2>4. flight'["send"] = y /\ flight'["recv"] = z /\ inbox' = inbox
      BY <1>1, <1>8, <2>3 DEF Cut
    <2> QED
      BY <1>1, <2>2, <2>4 DEF QueueInv, Roles
  <1>9. ASSUME NEW r \in Roles, Handshake(r) PROVE QueueInv'
    BY <1>2, <1>3, <1>9 DEF Handshake, Subscribe, PublishPake, GetPake, GetConfirm, SkipFrame, chan
  <1>10. ASSUME NEW r \in Roles, Negotiation(r) \/ Candidates(r) PROVE QueueInv'
    BY <1>2, <1>10 DEF Negotiation, Candidates, Establish, PumpSkip, PumpSdp, PumpIce, Opened,
       CreateOffer, PublishOffer, PublishAnswer, OnIceCandidate, chan
  <1>11. ASSUME NEW r \in Roles, Transfer(r) PROVE QueueInv'
    BY <1>1, <1>2, <1>3, <1>7, <1>11 DEF Transfer, Sent, SendFailed, RecvFails, SendAck, LingerEnds,
       SendChunk, GetAck, chanButCall
  <1>12. CASE Users \/ StartWrong \/ LinkForms
    BY <1>2, <1>12 DEF Users, StartReceive, StartSend, StartWrong, Start, LinkForms, ChannelOpens, chan
  <1>13. ASSUME NEW r \in Roles, StreamEnds(r) \/ PublishFails(r) \/ Kill(r) \/ Timeout(r) PROVE QueueInv'
    BY <1>2, <1>3, <1>13, QueueGone DEF StreamEnds, PublishFails, Kill, Timeout, LeaveSeen, chan
  <1>14. CASE UNCHANGED vars
    BY <1>2, <1>14 DEF vars, chan
  <1> QED
    BY <1>4, <1>5, <1>6, <1>8, <1>9, <1>10, <1>11, <1>12, <1>13, <1>14, Zenon DEF Next, Works, Faulty

\* The points of a sender and of a receiver.
PointsOf(r) ==
    {"Idle", "Subscribe", "Publish", "Pake", "Confirm", "Connect", "Negotiate", "Transfer"}
        \cup Ended \cup IF r = "recv" THEN {"Offer", "Describe", "Linger"} ELSE {}

\* Where a peer is, what it has read of the topic, and what it has sent or received: a
\* sender that is sending a message has one to send.
PlaceInv ==
    /\ \A r \in Roles : /\ pc[r] \in PointsOf(r) /\ sub[r] >= -1 /\ sub[r] <= Len(topic)
                        /\ n[r] <= Chunks
    /\ call["send"].at # NoCall => n["send"] < Chunks
    /\ faults \subseteq Happen

\* A peer that moves on, by at most one frame, in a topic that only grows.
LEMMA PlaceKept ==
    ASSUME TypeInv, PlaceInv, NEW r \in Roles, NEW next \in PointsOf(r),
           pc' = [pc EXCEPT ![r] = next],
           NEW s, sub' = [sub EXCEPT ![r] = s], s \in {-1, 0, sub[r]} \/ (HasFrame(r) /\ s = sub[r] + 1),
           topic' = topic \/ \E f \in Frames : topic' = Append(topic, f),
           n' = n \/ n' = [n EXCEPT ![r] = 0],
           call'["send"].at = call["send"].at \/ call'["send"].at = NoCall \/ n'["send"] < Chunks,
           faults' \subseteq Happen
    PROVE  PlaceInv'
  <1> HIDE DEF Frames
  <1>1. /\ pc \in [Roles -> Points] /\ sub \in [Roles -> Int] /\ n \in [Roles -> Nat]
        /\ topic \in Seq(Frames) /\ Chunks \in Nat /\ Chunks > 0 /\ "send" \in Roles
    BY PeerAssumption DEF TypeInv, Roles
  <1>2. Len(topic') >= Len(topic) /\ Len(topic) \in Nat /\ Len(topic') \in Nat
    BY <1>1
  <1>3. \A q \in Roles : pc'[q] \in PointsOf(q)
    BY <1>1 DEF PlaceInv
  <1>4. sub'[r] >= -1 /\ sub'[r] <= Len(topic')
    <2>1. sub[r] \in Int /\ sub'[r] = s /\ sub[r] >= -1 /\ sub[r] <= Len(topic)
      BY <1>1 DEF PlaceInv
    <2>2. HasFrame(r) => sub[r] < Len(topic)
      BY DEF HasFrame
    <2> QED
      BY <1>2, <2>1, <2>2
  <1>5. \A q \in Roles : sub'[q] >= -1 /\ sub'[q] <= Len(topic')
    <2> SUFFICES ASSUME NEW q \in Roles, q # r PROVE sub'[q] >= -1 /\ sub'[q] <= Len(topic')
      BY <1>4
    <2>1. sub'[q] = sub[q] /\ sub[q] \in Int /\ sub[q] >= -1 /\ sub[q] <= Len(topic)
      BY <1>1 DEF PlaceInv
    <2> QED
      BY <1>2, <2>1
  <1>6. \A q \in Roles : n'[q] <= Chunks
    BY <1>1 DEF PlaceInv
  <1>7. call'["send"].at # NoCall => n'["send"] < Chunks
    BY <1>1 DEF PlaceInv
  <1> QED
    BY <1>3, <1>5, <1>6, <1>7 DEF PlaceInv

\* Every step keeps it.
LEMMA PlaceStep == TypeInv /\ PlaceInv /\ [Next]_vars => PlaceInv'
  <1> SUFFICES ASSUME TypeInv, PlaceInv, [Next]_vars PROVE PlaceInv'
    OBVIOUS
  <1> HIDE DEF Frames, Items, Keys
  <1>1. /\ pc \in [Roles -> Points] /\ sub \in [Roles -> Int] /\ n \in [Roles -> Nat]
        /\ topic \in Seq(Frames) /\ Chunks \in Nat /\ Chunks > 0 /\ "send" \in Roles /\ "recv" \in Roles
        /\ call \in [Roles -> [at : 0..5, msg : Items]] /\ faults \subseteq Happen
        /\ \A r \in Roles : r = "send" \/ r = "recv"
    BY PeerAssumption DEF TypeInv, Roles, PlaceInv
  <1>2. \A k : Fault(k) => faults' \subseteq Happen
    BY <1>1 DEF Fault
  <1>3. ASSUME UNCHANGED <<pc, sub, topic, n>>, faults' \subseteq Happen,
               call'["send"].at = NoCall \/ call["send"].at # NoCall \/ n["send"] < Chunks
        PROVE  PlaceInv'
    BY <1>3 DEF PlaceInv
  <1>4. ASSUME NEW r \in Roles, NEW res \in Ended, NEW ends, LeaveSeen(r, res, ends),
               faults' \subseteq Happen
        PROVE  PlaceInv'
    <2>1. res \in PointsOf(r)
      BY DEF PointsOf
    <2>2. call'["send"].at = call["send"].at \/ call'["send"].at = NoCall
      BY <1>1, <1>4 DEF LeaveSeen, Gone
    <2> QED
      BY <1>4, <2>1, <2>2, PlaceKept DEF LeaveSeen
  <1>5. "Establish" \in Ended /\ "Error" \in Ended /\ "Ok" \in Ended /\ "Killed" \in Ended
    BY DEF Ended
  <1>6. ASSUME NEW r \in Roles, NEW next \in PointsOf(r), pc' = [pc EXCEPT ![r] = next],
               sub' = sub \/ sub' = [sub EXCEPT ![r] = -1] \/ sub' = [sub EXCEPT ![r] = 0]
                  \/ (HasFrame(r) /\ sub' = [sub EXCEPT ![r] = @ + 1]),
               topic' = topic \/ \E f \in Frames : topic' = Append(topic, f),
               n' = n \/ n' = [n EXCEPT ![r] = 0], call' = call, faults' \subseteq Happen
        PROVE  PlaceInv'
    <2>1. sub' = sub => sub' = [sub EXCEPT ![r] = sub[r]]
      BY <1>1
    <2>2. PICK s : /\ sub' = [sub EXCEPT ![r] = s]
                   /\ s \in {-1, 0, sub[r]} \/ (HasFrame(r) /\ s = sub[r] + 1)
      BY <1>6, <2>1
    <2> QED
      BY <1>6, <2>2, PlaceKept
  <1>7. ASSUME NEW r \in Roles, pc' = pc,
               sub' = sub \/ sub' = [sub EXCEPT ![r] = -1] \/ (HasFrame(r) /\ sub' = [sub EXCEPT ![r] = @ + 1]),
               topic' = topic \/ \E f \in Frames : topic' = Append(topic, f),
               n' = n, call' = call, faults' \subseteq Happen
        PROVE  PlaceInv'
    <2>1. pc' = [pc EXCEPT ![r] = pc[r]] /\ pc[r] \in PointsOf(r)
      BY <1>1, <1>7 DEF PlaceInv
    <2> QED
      BY <1>6, <1>7, <2>1
  <1>8. ASSUME NEW r \in Roles PROVE PakeFrame(r) \in Frames /\ SdpFrame(r) \in Frames
                                     /\ \A c \in Cands : IceFrame(r, c) \in Frames
    BY FramesPublished
  <1>9. ASSUME NEW r \in Roles, Subscribe(r) \/ PublishPake(r) \/ SkipFrame(r) PROVE PlaceInv'
    <2>1. "Publish" \in PointsOf(r) /\ "Pake" \in PointsOf(r)
      BY DEF PointsOf
    <2> QED
      BY <1>1, <1>6, <1>7, <1>8, <1>9, <2>1
         DEF Subscribe, SinceWindow, PublishPake, Publish, SkipFrame, Taken, chan, procs
  <1>10. ASSUME NEW r \in Roles, GetPake(r) PROVE PlaceInv'
    <2> DEFINE k == KeyOf(r, Frame(r).of)
    <2>1. /\ pc[r] = "Pake" /\ HasFrame(r) /\ Wanted(r)
          /\ topic' = Append(topic, ConfirmFrame(r, k)) /\ sub' = [sub EXCEPT ![r] = @ + 1]
          /\ pc' = [pc EXCEPT ![r] = "Confirm"] /\ n' = n /\ call' = call /\ faults' = faults
      BY <1>10 DEF GetPake, Publish, Taken, chan
    <2>2. Frame(r) \in Frames /\ Frame(r).kind = "pake"
      BY <1>1, <2>1 DEF HasFrame, Frame, Wanted
    <2>3. Frame(r).of \in Nat
      BY <2>2 DEF Frames
    <2>4. k \in Keys
      BY <2>3 DEF KeyOf, Keys, TypeInv, Roles
    <2> HIDE DEF k
    <2>5. ConfirmFrame(r, k) \in Frames /\ "Confirm" \in PointsOf(r)
      BY <2>4, FramesPublished DEF PointsOf
    <2> QED
      BY <1>1, <1>6, <2>1, <2>5
  <1>11. ASSUME NEW r \in Roles, GetConfirm(r) PROVE PlaceInv'
    <2>1. "Connect" \in PointsOf(r)
      BY DEF PointsOf
    <2> QED
      BY <1>1, <1>4, <1>5, <1>6, <1>11, <2>1 DEF GetConfirm, Leave, chan
  <1>12. ASSUME NEW r \in Roles, Negotiation(r) PROVE PlaceInv'
    <2>1. /\ (IF r = "recv" THEN "Offer" ELSE "Negotiate") \in PointsOf(r)
          /\ "Transfer" \in PointsOf(r)
          /\ r = "recv" => "Describe" \in PointsOf(r) /\ "Negotiate" \in PointsOf(r)
      BY DEF PointsOf
    <2>2. CASE Establish(r) \/ Opened(r)
      BY <1>1, <1>6, <2>1, <2>2 DEF Establish, SinceWindow, Opened, chan
    <2>3. CASE PumpSkip(r) \/ PumpSdp(r) \/ PumpIce(r)
      BY <1>1, <1>7, <2>3 DEF PumpSkip, PumpSdp, PumpIce, PumpReads, Taken, chan, procs
    <2>4. CASE r = "recv" /\ (CreateOffer \/ PublishOffer)
      BY <1>1, <1>6, <1>8, <2>1, <2>4 DEF CreateOffer, PublishOffer, Publish, chan
    <2>5. CASE r = "send" /\ PublishAnswer
      BY <1>1, <1>7, <1>8, <2>5 DEF PublishAnswer, Publish, chan, procs
    <2> QED
      BY <1>12, <2>2, <2>3, <2>4, <2>5 DEF Negotiation
  <1>13. ASSUME NEW r \in Roles, Candidates(r) PROVE PlaceInv'
    BY <1>1, <1>7, <1>8, <1>13 DEF Candidates, OnIceCandidate, Publish, chan, procs
  <1>14. ASSUME NEW r \in Roles, SendSteps(r) PROVE PlaceInv'
    <2>1. UNCHANGED <<pc, sub, topic, n, faults>>
      BY <1>14 DEF SendSteps, procs
    <2>2. call[r].at # NoCall /\ \A q \in Roles : q # r => call'[q] = call[q]
      BY <1>1, <1>14 DEF SendSteps, SendPrologue, DcSend, DcSendFails, Notified, Returns, NoCall, Select
    <2> QED
      BY <1>1, <1>3, <2>1, <2>2
  <1>15. ASSUME NEW r \in Roles, Delivery(r) \/ \E h \in Callbacks : Closing(r, h) PROVE PlaceInv'
    BY <1>1, <1>3, <1>15 DEF Delivery, OnMessage, Closing, CloseCallback, procs
  <1>16. ASSUME NEW r \in Roles, Sent(r) PROVE PlaceInv'
    <2>1. /\ call[r].at = SentOk /\ call' = [call EXCEPT ![r].at = NoCall]
          /\ UNCHANGED <<sub, topic, faults>>
      BY <1>16 DEF Sent, elsewhere
    <2>2. CASE r = "recv"
      <3>1. /\ pc' = [pc EXCEPT ![r] = "Linger"] /\ n' = n /\ "Linger" \in PointsOf(r)
            /\ call'["send"] = call["send"]
        BY <1>1, <1>16, <2>1, <2>2 DEF Sent, PointsOf
      <3> QED
        BY <1>1, <2>1, <3>1 DEF PlaceInv
    <2>3. CASE r = "send"
      <3>1. /\ pc' = pc /\ n' = [n EXCEPT !["send"] = @ + 1] /\ n["send"] < Chunks
            /\ call'["send"].at = NoCall
        BY <1>1, <1>16, <2>1, <2>3 DEF Sent, PlaceInv, SentOk, NoCall
      <3> QED
        BY <1>1, <2>1, <3>1 DEF PlaceInv
    <2> QED
      BY <1>1, <2>2, <2>3
  <1>17. CASE SendChunk \/ SendAck
    <2>1. UNCHANGED <<pc, sub, topic, n, faults>>
      BY <1>17 DEF SendChunk, SendAck, elsewhere
    <2>2. n["send"] < Chunks \/ call'["send"] = call["send"]
      BY <1>1, <1>17 DEF SendChunk, SendAck, SendBegin
    <2> QED
      BY <1>1, <1>3, <2>1, <2>2
  <1>18. CASE GetChunk
    <2>1. /\ n["recv"] < Chunks /\ n' = [n EXCEPT !["recv"] = @ + 1]
          /\ UNCHANGED <<pc, sub, topic, faults, call>>
      BY <1>18 DEF GetChunk, elsewhere, chanButInbox
    <2> QED
      BY <1>1, <2>1 DEF PlaceInv
  <1>19. ASSUME NEW r \in Roles, SendFailed(r) \/ RecvFails(r) \/ Timeout(r) \/ Kill(r) PROVE PlaceInv'
    BY <1>1, <1>2, <1>4, <1>5, <1>19 DEF SendFailed, RecvFails, Timeout, Kill, Leave
  <1>20. CASE GetAck \/ LingerEnds
    BY <1>1, <1>2, <1>4, <1>5, <1>20 DEF GetAck, LingerEnds, Leave
  <1>21. ASSUME NEW r \in Roles, StreamEnds(r) \/ PublishFails(r) PROVE PlaceInv'
    <2>1. faults' \subseteq Happen
      BY <1>2, <1>21 DEF StreamEnds, PublishFails
    <2>2. CASE Leave(r, "Establish")
      BY <1>4, <1>5, <2>1, <2>2 DEF Leave
    <2>3. CASE ~Leave(r, "Establish")
      BY <1>7, <1>21, <2>1, <2>3 DEF StreamEnds, PublishFails, chan, procs
    <2> QED
      BY <2>2, <2>3
  <1>22. CASE Users \/ StartWrong
    <2>1. PICK r \in Roles : (\E c : Start(r, c)) /\ faults' \subseteq Happen
      BY <1>1, <1>2, <1>22 DEF Users, StartReceive, StartSend, StartWrong
    <2>2. "Subscribe" \in PointsOf(r)
      BY DEF PointsOf
    <2> QED
      BY <1>6, <2>1, <2>2 DEF Start, chan
  <1>23. CASE LinkForms \/ Cut
    BY <1>1, <1>2, <1>3, <1>23 DEF LinkForms, ChannelOpens, Cut, procs
  <1>24. CASE UNCHANGED vars
    BY <1>1, <1>3, <1>24 DEF vars, procs, chan
  <1>25. ASSUME NEW r \in Roles, Works(r) PROVE PlaceInv'
    BY <1>9, <1>10, <1>11, <1>12, <1>14, <1>16, <1>17, <1>18, <1>19, <1>20, <1>25
       DEF Works, Handshake, Transfer
  <1> QED
    BY <1>13, <1>15, <1>19, <1>21, <1>22, <1>23, <1>24, <1>25 DEF Next, Faulty

-----------------------------------------------------------------------------

\* The candidates, one's own and the other's, that a peer has dealt with.
CandInv ==
    /\ applied \in [Roles -> SUBSET Cands] /\ pending_ice \in [Roles -> SUBSET Cands]
    /\ iced \in [Roles -> SUBSET Cands]

\* Every step keeps their types: a candidate on the topic is one.
LEMMA CandStep == TypeInv /\ CandInv /\ [Next]_vars => CandInv'
  <1> SUFFICES ASSUME TypeInv, CandInv, [Next]_vars PROVE CandInv'
    OBVIOUS
  <1> HIDE DEF Keys, Frames
  <1>1. "send" \in Roles /\ "recv" \in Roles
    BY DEF Roles
  <1>2. ASSUME UNCHANGED <<applied, pending_ice, iced>> PROVE CandInv'
    BY <1>2 DEF CandInv
  <1>3. ASSUME NEW r \in Roles, Establish(r) \/ PumpSdp(r) PROVE CandInv'
    BY <1>3 DEF Establish, PumpSdp, CandInv
  <1>4. ASSUME NEW r \in Roles, PumpIce(r) PROVE CandInv'
    <2>1. topic \in Seq(Frames) /\ sub[r] \in Int
      BY DEF TypeInv
    <2>2. Frame(r) \in Frames /\ Frame(r).kind = "ice"
      BY <1>4, <2>1 DEF PumpIce, PumpReads, HasFrame, Frame
    <2>3. Frame(r).cand \in Cands
      BY <2>2 DEF Frames
    <2> QED
      BY <1>4, <2>3 DEF PumpIce, AddCandidate, CandInv
  <1>5. ASSUME NEW r \in Roles, Candidates(r) PROVE CandInv'
    BY <1>5 DEF Candidates, OnIceCandidate, CandInv
  <1>6. ASSUME NEW r \in Roles, PublishFails(r) PROVE CandInv'
    BY <1>6 DEF PublishFails, Leave, LeaveSeen, CandInv
  <1>7. ASSUME NEW r \in Roles, Handshake(r) PROVE CandInv'
    BY <1>2, <1>7 DEF Handshake, Subscribe, PublishPake, GetPake, GetConfirm, SkipFrame, Leave,
       LeaveSeen, signal
  <1>8. ASSUME NEW r \in Roles, Negotiation(r) PROVE CandInv'
    BY <1>2, <1>3, <1>4, <1>8 DEF Negotiation, PumpSkip, Opened, CreateOffer, PublishOffer,
       PublishAnswer, signal
  <1>9. ASSUME NEW r \in Roles, Transfer(r) PROVE CandInv'
    BY <1>2, <1>9 DEF Transfer, Sent, SendFailed, RecvFails, GetChunk, SendAck, LingerEnds,
       SendChunk, GetAck, Leave, LeaveSeen, elsewhere, signal
  <1>10. ASSUME NEW r \in Roles,
                \/ SendSteps(r) \/ Delivery(r) \/ Timeout(r) \/ StreamEnds(r) \/ Kill(r)
                \/ \E h \in Callbacks : Closing(r, h)
         PROVE  CandInv'
    BY <1>2, <1>10 DEF SendSteps, Delivery, Timeout, StreamEnds, Kill, Closing, Leave, LeaveSeen, signal
  <1>11. CASE Users \/ StartWrong \/ LinkForms \/ Cut \/ UNCHANGED vars
    BY <1>2, <1>11 DEF Users, StartReceive, StartSend, StartWrong, Start, LinkForms, Cut, vars, signal
  <1> QED
    BY <1>5, <1>6, <1>7, <1>8, <1>9, <1>10, <1>11 DEF Next, Works, Faulty

\* For any number of attempts, candidates, messages and faults: the types.  The mpsc channel and
\* the engine's buffer keep within their bounds, and a peer never counts more messages than there
\* are, nor reads beyond the end of the topic.
THEOREM PeerTypeOK == Spec => []TypeOK
  <1>1. ASSUME Init PROVE QueueInv /\ PlaceInv /\ CandInv
    <2>1. CandInv
      BY <1>1 DEF Init, CandInv
    <2>2. QueueInv
      BY <1>1, ChannelAssumption DEF Init, ChannelInit, QueueInv
    <2>3. TypeInv
      BY <1>1, PeerInit DEF PeerInv
    <2>4. Len(topic) \in Nat /\ Chunks \in Nat /\ Chunks > 0
      BY <2>3, PeerAssumption DEF TypeInv
    <2>5. faults \subseteq Happen
      BY <1>1 DEF Init
    <2>6. \A r \in Roles : sub[r] = -1 /\ n[r] = 0 /\ pc[r] \in PointsOf(r) /\ call[r].at = NoCall
      BY <1>1 DEF Init, ChannelInit, PointsOf
    <2> QED
      BY <2>1, <2>2, <2>4, <2>5, <2>6 DEF PlaceInv, Roles
  <1>2. TypeInv /\ QueueInv /\ PlaceInv /\ CandInv => TypeOK
    <2> SUFFICES ASSUME TypeInv, QueueInv, PlaceInv, CandInv PROVE TypeOK
      OBVIOUS
    <2>1. \A r \in Roles : sub[r] \in -1..Len(topic)
      <3>1. sub \in [Roles -> Int] /\ Len(topic) \in Nat
        BY DEF TypeInv
      <3> QED
        BY <3>1 DEF PlaceInv
    <2>2. n \in [Roles -> 0..Chunks]
      BY PeerAssumption DEF TypeInv, PlaceInv
    <2>3. \A r \in Roles : applied[r] \cup pending_ice[r] \cup iced[r] \subseteq Cands
      BY DEF CandInv
    <2>4. pc["send"] \in PointsOf("send") /\ pc["recv"] \in PointsOf("recv")
      BY DEF PlaceInv, Roles
    <2> QED
      BY <2>1, <2>2, <2>3, <2>4 DEF TypeOK, QueueInv, PlaceInv, PointsOf, Ended
  <1>3. PeerInv => TypeInv
    BY DEF PeerInv
  <1> QED
    BY <1>1, <1>2, <1>3, QueueStep, PlaceStep, CandStep, PeerInvariant, PTL DEF Spec
=============================================================================
