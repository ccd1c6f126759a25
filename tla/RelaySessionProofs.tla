------------------------- MODULE RelaySessionProofs -------------------------
(***************************************************************************)
(* The safety properties of a meeting in a relay room, proved for any      *)
(* sockets, rounds and faults, with late messages or without.              *)
(***************************************************************************)
EXTENDS RelaySession, SequenceTheorems, TLAPS

-----------------------------------------------------------------------------
(* The room's alarm.                                                       *)

AlarmInv == listed \subseteq Sockets /\ PairedNeverExpires

\* A socket of a role has its tag.
LEMMA RoleOf ==
    ASSUME NEW r \in Roles, NEW s \in Named(r)
    PROVE  role(s) = r /\ s \in Sockets
  BY RoomAssumption DEF role, Named, Roles, Sockets

\* And a socket carries one of the two tags.
LEMMA NamedRole ==
    ASSUME NEW s \in Sockets
    PROVE  role(s) \in Roles /\ Other(role(s)) \in Roles /\ s \in Named(role(s))
  BY DEF role, Named, Roles, Sockets, Other

\* A fresh name is one of the role's sockets that nothing refers to.
LEMMA FreshSocket ==
    ASSUME NEW r \in Roles, Fresh(r) # {}
    PROVE  (CHOOSE t \in Fresh(r) : TRUE) \in Named(r) \ InUse
  <1>1. (CHOOSE t \in Fresh(r) : TRUE) \in Fresh(r)
    BY Zenon
  <1> QED
    BY <1>1 DEF Fresh

\* The room only sets its alarm when it sees a role without a socket, and only a
\* join, which resets it, adds one.
LEMMA AlarmStep == AlarmInv /\ [Next]_vars => AlarmInv'
  <1> SUFFICES ASSUME AlarmInv, [Next]_vars PROVE AlarmInv'
    OBVIOUS
  <1> USE DEF AlarmInv, PairedNeverExpires
  <1>1. ASSUME UNCHANGED <<listed, alarm>> PROVE AlarmInv'
    BY <1>1 DEF Tagged
  <1>2. ASSUME NEW s \in Sockets, Departed(s) PROVE AlarmInv'
    <2>1. listed' = listed \ {s}
      BY <1>2 DEF Departed
    <2>2. CASE alarm' = alarm
      BY <2>1, <2>2 DEF Tagged
    <2>3. CASE Tagged(role(s)) \ {s} = {}
      <3>1. \A t \in listed' : role(t) # role(s)
        BY <2>1, <2>3 DEF Tagged
      <3>2. role(s) = "send" \/ role(s) = "recv"
        BY DEF role
      <3> QED
        BY <2>1, <3>1, <3>2 DEF Tagged
    <2> QED
      BY <1>2, <2>2, <2>3 DEF Departed
  <1>3. ASSUME NEW r \in Roles, Dial(r) PROVE AlarmInv'
    <2> DEFINE s == CHOOSE t \in Fresh(r) : TRUE
    <2>1. s \in Named(r) /\ Join(s, r)
      BY <1>3, FreshSocket DEF Dial
    <2>2. role(s) = r /\ s \in Sockets
      BY <2>1, RoleOf
    <2> HIDE DEF s
    <2>3. /\ listed' = (listed \ Tagged(r)) \cup {s}
          /\ alarm' = (Tagged(Other(r)) = {})
      BY <2>1 DEF Join
    <2>4. alarm' => Tagged(Other(r))' = {}
      <3> SUFFICES ASSUME Tagged(Other(r)) = {}
                   PROVE  \A t \in listed' : role(t) # Other(r)
        BY <2>3 DEF Tagged
      <3> QED
        BY <2>2, <2>3 DEF Tagged, Other, Roles
    <2> QED
      BY <2>2, <2>3, <2>4 DEF Other, Roles
  <1>4. ASSUME NEW s \in Sockets, RoomHandles(s) \/ RoomReaps(s) PROVE AlarmInv'
    BY <1>1, <1>2, <1>4 DEF RoomHandles, RoomReaps
  <1>5. CASE Expire
    BY <1>5 DEF Expire, Tagged
  <1>6. ASSUME NEW r \in Roles, Steps(r) \/ Mistaken(r) \/ Break(r) PROVE AlarmInv'
    BY <1>1, <1>3, <1>6 DEF Steps, GetJoined, GetPake, GetConfirm, Skip, Lost, Timeout,
       BadFrame, Mistaken, Break, Exchange, Rearm, Hangup
  <1>7. CASE ReceiverRound \/ LingerEnd \/ SenderRound
    BY <1>1, <1>7 DEF ReceiverRound, LingerEnd, SenderRound, Exchange, Hangup
  <1>8. CASE StartRight \/ StartWrong \/ StartHurried \/ SenderKilled
    BY <1>1, <1>8 DEF StartRight, StartWrong, StartHurried, SenderKilled, SendStart, Hangup, room
  <1>9. CASE UNCHANGED vars
    BY <1>1, <1>9 DEF vars, room
  <1>10. "send" \in Roles /\ "recv" \in Roles
    BY DEF Roles
  <1> QED
    BY <1>4, <1>5, <1>6, <1>7, <1>8, <1>9, <1>10, Zenon
       DEF Next, RoomSteps, ReceiverSteps, SenderSteps

\* For any number of sockets: the alarm of a room is only pending while a role is
\* missing, so a room never expires under two peers, whatever the order in which
\* joins, takeovers and late close events are handled.
THEOREM RoomPairedNeverExpires == Spec => []PairedNeverExpires
  <1>1. Init => AlarmInv
    BY DEF Init, AlarmInv, PairedNeverExpires
  <1>2. AlarmInv => PairedNeverExpires
    BY DEF AlarmInv
  <1> QED
    BY <1>1, <1>2, AlarmStep, PTL DEF Spec

-----------------------------------------------------------------------------
(* Types.                                                                  *)

Names == Sockets \cup {NoSocket}
Keys == [code : {RightCode, WrongCode, "none"}, send : Names, recv : Names]
Control == {Joined, Left, CloseMsg}
Msgs ==
    Control \cup [t : {"pake"}, of : Names] \cup [t : {"confirm"}, key : Keys]
        \cup [t : {"sealed"}, key : Keys, round : Nat]
Points == {"Idle", "Dial", "Wait", "Pake", "Confirm", "Session", "Linger", "Done", "Failed"}

TypeInv ==
    /\ listed \subseteq Sockets
    /\ up \in [Sockets -> Seq(Msgs)] /\ down \in [Sockets -> Seq(Msgs)]
    /\ pc \in [Roles -> Points] /\ key \in [Roles -> Keys] /\ n \in [Roles -> Nat]
    /\ code \in [Roles -> {RightCode, WrongCode}] /\ code["recv"] = RightCode
    /\ sock \in [Roles -> Names] /\ \A r \in Roles : OnSocket(r) => sock[r] \in Named(r)
    /\ \A r \in Roles : pc[r] \in {"Confirm", "Session", "Linger"} =>
          key[r].code = code[r] /\ key[r][r] = sock[r]

-----------------------------------------------------------------------------
(* Messages under way.                                                     *)

In(m, q) == \E i \in 1..Len(q) : q[i] = m

\* Message m of a process of role r, on its way through the room.
UnderWay(r, m) ==
    (\E s \in Named(r) : In(m, up[s])) \/ (\E s \in Named(Other(r)) : In(m, down[s]))

\* A confirmation by the socket the sender uses now carries the sender's key, and
\* so does the key of a receiver in a session with that socket.
KeyInv ==
    /\ \A k \in Keys :
          UnderWay("send", ConfirmMsg(k)) /\ OnSocket("send") /\ k.send = sock["send"]
             => pc["send"] \in {"Confirm", "Session"} /\ key["send"] = k
    /\ pc["recv"] \in {"Session", "Linger"} /\ OnSocket("send") /\ key["recv"].send = sock["send"]
          => pc["send"] \in {"Confirm", "Session"} /\ key["send"] = key["recv"]

\* The last answer of a receiver is under way, or has been read, only once it lingers.
LastAnswer(m) == m.t = "sealed" /\ m.round = Rounds
AnswerInv ==
    /\ \A m \in Msgs : UnderWay("recv", m) /\ LastAnswer(m) => pc["recv"] \in {"Linger", "Done"}
    /\ SuccessMeansReceived

-----------------------------------------------------------------------------
(* Queues.                                                                 *)

\* Taking the first message: the others, and it, were in the queue.
LEMMA InTail ==
    ASSUME NEW q \in Seq(Msgs), q # <<>>
    PROVE  /\ Tail(q) \in Seq(Msgs) /\ Head(q) \in Msgs /\ In(Head(q), q)
           /\ \A m : In(m, Tail(q)) => In(m, q)
  <1> HIDE DEF Msgs
  <1>1. /\ Len(q) \in Nat /\ Len(q) >= 1 /\ Head(q) = q[1] /\ Tail(q) \in Seq(Msgs)
        /\ Len(Tail(q)) = Len(q) - 1
        /\ \A i \in 1..Len(Tail(q)) : Tail(q)[i] = q[i + 1]
    OBVIOUS
  <1>2. ASSUME NEW m, In(m, Tail(q)) PROVE In(m, q)
    <2>1. PICK i \in 1..Len(Tail(q)) : Tail(q)[i] = m
      BY <1>2 DEF In
    <2>2. i + 1 \in 1..Len(q) /\ q[i + 1] = m
      BY <1>1, <2>1
    <2> QED
      BY <2>2 DEF In
  <1>3. 1 \in 1..Len(q) /\ q[1] \in Msgs
    BY <1>1
  <1> QED
    BY <1>1, <1>2, <1>3 DEF In

\* Sending a message adds it.
LEMMA InAppend ==
    ASSUME NEW q \in Seq(Msgs), NEW x \in Msgs
    PROVE  /\ Append(q, x) \in Seq(Msgs)
           /\ \A m : In(m, Append(q, x)) => In(m, q) \/ m = x
  <1> HIDE DEF Msgs
  <1>1. /\ Append(q, x) \in Seq(Msgs) /\ Len(Append(q, x)) = Len(q) + 1 /\ Len(q) \in Nat
        /\ Append(q, x)[Len(q) + 1] = x
        /\ \A i \in 1..Len(q) : Append(q, x)[i] = q[i]
    OBVIOUS
  <1>2. ASSUME NEW m, In(m, Append(q, x)), m # x PROVE In(m, q)
    <2>1. PICK i \in 1..Len(Append(q, x)) : Append(q, x)[i] = m
      BY <1>2 DEF In
    <2>2. i \in 1..Len(q) /\ q[i] = m
      BY <1>1, <1>2, <2>1
    <2> QED
      BY <2>2 DEF In
  <1> QED
    BY <1>1, <1>2

\* A broken connection keeps a part of what was under way.
LEMMA InSubSeq ==
    ASSUME NEW q \in Seq(Msgs), NEW k \in 0..Len(q)
    PROVE  /\ SubSeq(q, 1, k) \in Seq(Msgs)
           /\ \A m : In(m, SubSeq(q, 1, k)) => In(m, q)
  <1> HIDE DEF Msgs
  <1>1. /\ SubSeq(q, 1, k) \in Seq(Msgs) /\ Len(SubSeq(q, 1, k)) = k /\ Len(q) \in Nat
        /\ \A i \in 1..k : SubSeq(q, 1, k)[i] = q[i]
    BY SubSeqProperties
  <1> QED
    BY <1>1 DEF In

\* An empty queue holds nothing, and a queue of one message that message.
LEMMA InShort ==
    /\ <<>> \in Seq(Msgs) /\ \A m : ~In(m, <<>>)
    /\ \A x \in Msgs : <<x>> \in Seq(Msgs) /\ \A m : In(m, <<x>>) => m = x
  <1> HIDE DEF Msgs
  <1> QED
    BY DEF In

\* The messages of the protocol.
LEMMA MsgTypes ==
    /\ Joined \in Msgs /\ Left \in Msgs /\ CloseMsg \in Msgs
    /\ \A s \in Names : PakeMsg(s) \in Msgs
    /\ \A k \in Keys : ConfirmMsg(k) \in Msgs
    /\ \A k \in Keys, i \in Nat : Sealed(k, i) \in Msgs
  <1> HIDE DEF Keys, Names
  <1>1. Joined \in Control /\ Left \in Control /\ CloseMsg \in Control
    BY DEF Control
  <1>2. \A s \in Names : PakeMsg(s) \in [t : {"pake"}, of : Names]
    BY DEF PakeMsg
  <1>3. \A k \in Keys : ConfirmMsg(k) \in [t : {"confirm"}, key : Keys]
    BY DEF ConfirmMsg
  <1>4. \A k \in Keys, i \in Nat : Sealed(k, i) \in [t : {"sealed"}, key : Keys, round : Nat]
    BY DEF Sealed
  <1> QED
    BY <1>1, <1>2, <1>3, <1>4, Zenon DEF Msgs

-----------------------------------------------------------------------------
(* What a step adds to the messages under way.                             *)

\* Apart from control messages, only what is in M, by role r.
Adds(r, M) ==
    /\ up' \in [Sockets -> Seq(Msgs)] /\ down' \in [Sockets -> Seq(Msgs)]
    /\ \A q \in Roles, m \in Msgs \ Control :
          UnderWay(q, m)' => UnderWay(q, m) \/ (q = r /\ m \in M)

\* The queues lose something and gain control messages or messages of r.
LEMMA AddsFrom ==
    ASSUME TypeInv, NEW r \in Roles, NEW M \in SUBSET Msgs,
           up' \in [Sockets -> Seq(Msgs)], down' \in [Sockets -> Seq(Msgs)],
           \A s \in Sockets, m \in Msgs \ Control :
              In(m, up'[s]) => In(m, up[s]) \/ (s \in Named(r) /\ m \in M),
           \A s \in Sockets, m \in Msgs \ Control : In(m, down'[s]) => In(m, down[s])
    PROVE  Adds(r, M)
  <1> SUFFICES ASSUME NEW q \in Roles, NEW m \in Msgs \ Control, UnderWay(q, m)',
                      ~UnderWay(q, m)
               PROVE  q = r /\ m \in M
    BY DEF Adds
  <1> HIDE DEF Msgs, Control
  <1>1. Named(q) \subseteq Sockets /\ Named(Other(q)) \subseteq Sockets
    BY DEF Named, Sockets
  <1>2. CASE \E s \in Named(q) : In(m, up[s])'
    <2>1. PICK s \in Named(q) : In(m, up'[s])
      BY <1>2 DEF In
    <2>2. s \in Named(r) /\ m \in M
      BY <1>1, <2>1 DEF UnderWay
    <2>3. role(s) = q /\ role(s) = r
      BY <2>1, <2>2, RoleOf
    <2> QED
      BY <2>2, <2>3
  <1>3. CASE \E s \in Named(Other(q)) : In(m, down[s])'
    <2>1. PICK s \in Named(Other(q)) : In(m, down'[s])
      BY <1>3 DEF In
    <2> QED
      BY <1>1, <2>1 DEF UnderWay
  <1> QED
    BY <1>2, <1>3 DEF UnderWay

\* A message to one peer from the room.
LEMMA ToPeerIn ==
    ASSUME TypeInv, NEW t \in Sockets, NEW x \in Msgs, NEW d, d = ToPeer(t, x)
    PROVE  /\ d \in [Sockets -> Seq(Msgs)]
           /\ \A s \in Sockets, m \in Msgs : In(m, d[s]) => In(m, down[s]) \/ (s = t /\ m = x)
  <1> HIDE DEF Msgs
  <1>1. down \in [Sockets -> Seq(Msgs)]
    BY DEF TypeInv
  <1>2. /\ Append(down[t], x) \in Seq(Msgs)
        /\ \A m : In(m, Append(down[t], x)) => In(m, down[t]) \/ m = x
    BY <1>1, InAppend
  <1>3. d = down \/ d = [down EXCEPT ![t] = Append(@, x)]
    BY DEF ToPeer
  <1> QED
    BY <1>1, <1>2, <1>3

\* departed only tells the survivor that its peer left.
LEMMA DepartedAdds ==
    ASSUME TypeInv, NEW s \in Sockets, Departed(s)
    PROVE  /\ down' \in [Sockets -> Seq(Msgs)] /\ listed' \subseteq Sockets
           /\ \A t \in Sockets, m \in Msgs \ Control : In(m, down'[t]) => In(m, down[t])
  <1> HIDE DEF Msgs
  <1>1. listed' = listed \ {s} /\ listed \subseteq Sockets /\ down \in [Sockets -> Seq(Msgs)]
    BY DEF Departed, TypeInv
  <1>2. CASE down' = down
    BY <1>1, <1>2
  <1>3. CASE Tagged(Other(role(s))) # {} /\ down' = ToPeer(CHOOSE t \in Tagged(Other(role(s))) : TRUE, Left)
    <2>1. PICK t \in Tagged(Other(role(s))) : down' = ToPeer(t, Left)
      BY <1>3, Zenon
    <2>2. t \in Sockets /\ Left \in Msgs /\ Left \in Control
      BY <1>1, MsgTypes DEF Tagged, Control
    <2>3. /\ down' \in [Sockets -> Seq(Msgs)]
          /\ \A u \in Sockets, m \in Msgs : In(m, down'[u]) => In(m, down[u]) \/ (u = t /\ m = Left)
      BY <2>1, <2>2, ToPeerIn
    <2> QED
      BY <1>1, <2>2, <2>3
  <1> QED
    BY <1>2, <1>3 DEF Departed

\* The room handles an event of a socket: it passes a message on to the other
\* role, tells the survivor, or drops the message.
LEMMA RoomHandlesAdds ==
    ASSUME TypeInv, NEW s \in Sockets, RoomHandles(s)
    PROVE  Adds("send", {}) /\ listed' \subseteq Sockets
  <1> HIDE DEF Msgs, Control
  <1> DEFINE x == Head(up[s])
             peer == Tagged(Other(role(s)))
  <1>1. /\ up[s] # <<>> /\ up' = [up EXCEPT ![s] = Tail(@)]
        /\ up \in [Sockets -> Seq(Msgs)] /\ down \in [Sockets -> Seq(Msgs)]
        /\ listed \subseteq Sockets /\ {} \in SUBSET Msgs /\ "send" \in Roles
    BY DEF RoomHandles, TypeInv, Roles
  <1>2. /\ Tail(up[s]) \in Seq(Msgs) /\ x \in Msgs /\ In(x, up[s])
        /\ \A m : In(m, Tail(up[s])) => In(m, up[s])
    BY <1>1, InTail
  <1>3. /\ up' \in [Sockets -> Seq(Msgs)]
        /\ \A t \in Sockets, m \in Msgs : In(m, up'[t]) => In(m, up[t])
    BY <1>1, <1>2
  <1>4. CASE Departed(s)
    BY <1>1, <1>3, <1>4, DepartedAdds, AddsFrom
  <1>5. CASE UNCHANGED <<listed, down>>
    BY <1>1, <1>3, <1>5, AddsFrom
  <1>6. CASE peer # {} /\ down' = ToPeer(CHOOSE t \in peer : TRUE, x) /\ UNCHANGED listed
    <2>1. PICK t \in peer : down' = ToPeer(t, x)
      <3>1. (CHOOSE t \in peer : TRUE) \in peer
        BY <1>6, Zenon
      <3> QED
        BY <1>6, <3>1, Zenon
    <2>2. t \in Sockets /\ role(t) = Other(role(s))
      BY <1>1, <2>1 DEF Tagged
    <2>3. t \in Named(Other(role(s))) /\ s \in Named(role(s)) /\ role(s) \in Roles
      BY <2>2, NamedRole
    <2>4. /\ down' \in [Sockets -> Seq(Msgs)]
          /\ \A u \in Sockets, m \in Msgs : In(m, down'[u]) => In(m, down[u]) \/ (u = t /\ m = x)
      <3> HIDE DEF x
      <3>1. x \in Msgs
        BY <1>2
      <3> QED
        BY <2>1, <2>2, <3>1, ToPeerIn
    <2>5. UnderWay(role(s), x)
      BY <1>2, <2>3 DEF UnderWay
    <2>6. ASSUME NEW q \in Roles, NEW m \in Msgs, UnderWay(q, m)' PROVE UnderWay(q, m)
      <3>1. Named(q) \subseteq Sockets /\ Named(Other(q)) \subseteq Sockets
        BY DEF Named, Sockets
      <3>2. CASE \E u \in Named(q) : In(m, up[u])'
        <4>1. PICK u \in Named(q) : In(m, up'[u])
          BY <3>2 DEF In
        <4> QED
          BY <1>3, <3>1, <4>1 DEF UnderWay
      <3>3. CASE \E u \in Named(Other(q)) : In(m, down[u])'
        <4>1. PICK u \in Named(Other(q)) : In(m, down'[u])
          BY <3>3 DEF In
        <4>2. CASE In(m, down[u])
          BY <4>1, <4>2 DEF UnderWay
        <4>3. CASE u = t /\ m = x
          <5>1. Other(q) \in Roles
            BY DEF Other, Roles
          <5>2. role(u) = Other(q)
            BY <4>1, <5>1, RoleOf
          <5>3. q = role(s)
            BY <2>2, <2>3, <4>3, <5>2 DEF Other, Roles
          <5> QED
            BY <2>5, <4>3, <5>3
        <4> QED
          BY <2>4, <3>1, <4>1, <4>2, <4>3
      <3> QED
        BY <2>6, <3>2, <3>3 DEF UnderWay
    <2> QED
      BY <1>1, <1>3, <1>6, <2>4, <2>6 DEF Adds
  <1> QED
    BY <1>4, <1>5, <1>6 DEF RoomHandles

\* The other steps of the room and the network.
LEMMA RoomAdds ==
    ASSUME TypeInv,
           \/ \E s \in Sockets : RoomReaps(s)
           \/ Expire
           \/ \E r \in Roles : Break(r)
    PROVE  Adds("send", {}) /\ listed' \subseteq Sockets
  <1> HIDE DEF Msgs, Control
  <1>1. /\ up \in [Sockets -> Seq(Msgs)] /\ down \in [Sockets -> Seq(Msgs)]
        /\ listed \subseteq Sockets /\ {} \in SUBSET Msgs /\ "send" \in Roles
    BY DEF TypeInv, Roles
  <1>2. ASSUME NEW s \in Sockets, RoomReaps(s)
        PROVE  Adds("send", {}) /\ listed' \subseteq Sockets
    <2>1. up' = up /\ Departed(s)
      BY <1>2 DEF RoomReaps
    <2> QED
      BY <1>1, <2>1, DepartedAdds, AddsFrom
  <1>3. CASE Expire
    <2>1. /\ up' = up /\ listed' = {}
          /\ down' = [t \in Sockets |->
                IF t \in listed /\ Read(t) THEN Append(down[t], CloseMsg) ELSE down[t]]
      BY <1>3 DEF Expire
    <2>2. CloseMsg \in Msgs /\ CloseMsg \in Control
      BY MsgTypes DEF Control
    <2>3. ASSUME NEW t \in Sockets
          PROVE  /\ down'[t] \in Seq(Msgs)
                 /\ \A m \in Msgs \ Control : In(m, down'[t]) => In(m, down[t])
      <3>1. down[t] \in Seq(Msgs)
        BY <1>1
      <3>2. /\ Append(down[t], CloseMsg) \in Seq(Msgs)
            /\ \A m : In(m, Append(down[t], CloseMsg)) => In(m, down[t]) \/ m = CloseMsg
        BY <2>2, <3>1, InAppend
      <3>3. down'[t] = Append(down[t], CloseMsg) \/ down'[t] = down[t]
        BY <2>1
      <3> QED
        BY <2>2, <3>1, <3>2, <3>3
    <2>4. down' \in [Sockets -> Seq(Msgs)]
      <3>1. down' = [t \in Sockets |-> down'[t]]
        BY <2>1
      <3> QED
        BY <2>3, <3>1
    <2> QED
      BY <1>1, <2>1, <2>3, <2>4, AddsFrom
  <1>4. ASSUME NEW r \in Roles, Break(r)
        PROVE  Adds("send", {}) /\ listed' \subseteq Sockets
    <2> DEFINE s == sock[r]
    <2>1. s \in Sockets /\ listed' = listed
      BY <1>4, RoleOf DEF Break, TypeInv
    <2>2. PICK i \in 0..Len(up[s]) : up' = [up EXCEPT ![s] = SubSeq(@, 1, i)]
      BY <1>4 DEF Break
    <2>3. PICK j \in 0..Len(down[s]) : down' = [down EXCEPT ![s] = SubSeq(@, 1, j)]
      BY <1>4 DEF Break
    <2> HIDE DEF s
    <2>4. /\ SubSeq(up[s], 1, i) \in Seq(Msgs)
          /\ \A m : In(m, SubSeq(up[s], 1, i)) => In(m, up[s])
      BY <1>1, <2>1, InSubSeq
    <2>5. /\ SubSeq(down[s], 1, j) \in Seq(Msgs)
          /\ \A m : In(m, SubSeq(down[s], 1, j)) => In(m, down[s])
      BY <1>1, <2>1, InSubSeq
    <2>6. up' \in [Sockets -> Seq(Msgs)] /\ \A t \in Sockets, m \in Msgs : In(m, up'[t]) => In(m, up[t])
      BY <1>1, <2>2, <2>4
    <2>7. /\ down' \in [Sockets -> Seq(Msgs)]
          /\ \A t \in Sockets, m \in Msgs : In(m, down'[t]) => In(m, down[t])
      BY <1>1, <2>3, <2>5
    <2> QED
      BY <1>1, <2>1, <2>6, <2>7, AddsFrom
  <1> QED
    BY <1>2, <1>3, <1>4

\* A process on its socket takes a message, or drops all of them, and sends one.
LEMMA ProcessAdds ==
    ASSUME TypeInv, NEW r \in Roles, OnSocket(r), NEW x \in Msgs,
           up' = up \/ up' = Post(up, sock[r], x),
           (HasMsg(r) /\ down' = Taken(r)) \/ down' = [down EXCEPT ![sock[r]] = <<>>]
    PROVE  Adds(r, {x})
  <1> HIDE DEF Msgs, Control
  <1> DEFINE s == sock[r]
  <1>1. /\ up \in [Sockets -> Seq(Msgs)] /\ down \in [Sockets -> Seq(Msgs)]
        /\ s \in Named(r) /\ {x} \in SUBSET Msgs
    BY DEF TypeInv
  <1>2. s \in Sockets
    BY <1>1, RoleOf
  <1>3. /\ up' = up \/ up' = [up EXCEPT ![s] = Append(@, x)]
        /\ (down[s] # <<>> /\ down' = [down EXCEPT ![s] = Tail(@)])
              \/ down' = [down EXCEPT ![s] = <<>>]
    BY DEF Post, Taken, HasMsg
  <1> HIDE DEF s
  <1>4. /\ Append(up[s], x) \in Seq(Msgs)
        /\ \A m : In(m, Append(up[s], x)) => In(m, up[s]) \/ m = x
    BY <1>1, <1>2, InAppend
  <1>5. /\ up' \in [Sockets -> Seq(Msgs)]
        /\ \A t \in Sockets, m \in Msgs : In(m, up'[t]) => In(m, up[t]) \/ (t = s /\ m = x)
    BY <1>1, <1>2, <1>3, <1>4
  <1>6. CASE down[s] # <<>> /\ down' = [down EXCEPT ![s] = Tail(@)]
    <2>1. Tail(down[s]) \in Seq(Msgs) /\ \A m : In(m, Tail(down[s])) => In(m, down[s])
      BY <1>1, <1>2, <1>6, InTail
    <2>2. /\ down' \in [Sockets -> Seq(Msgs)]
          /\ \A t \in Sockets, m \in Msgs : In(m, down'[t]) => In(m, down[t])
      BY <1>1, <1>2, <1>6, <2>1
    <2> QED
      BY <1>1, <1>5, <2>2, AddsFrom
  <1>7. CASE down' = [down EXCEPT ![s] = <<>>]
    <2>1. /\ down' \in [Sockets -> Seq(Msgs)]
          /\ \A t \in Sockets, m \in Msgs : In(m, down'[t]) => In(m, down[t])
      BY <1>1, <1>2, <1>7, InShort
    <2> QED
      BY <1>1, <1>5, <2>1, AddsFrom
  <1> QED
    BY <1>3, <1>6, <1>7

-----------------------------------------------------------------------------
(* What keeps the two invariants.                                          *)

RelayInv == TypeInv /\ KeyInv /\ AnswerInv

\* Confirmations and sealed frames are not control messages.
LEMMA NotControl ==
    /\ \A k : ConfirmMsg(k) \notin Control
    /\ \A m : m.t \in {"pake", "confirm", "sealed"} => m \notin Control
  BY DEF Control, ConfirmMsg, Joined, Left, CloseMsg

\* KeyInv holds after a step that changes neither a connected sender's socket and
\* key nor lets the sender confirm a key or the receiver enter a session.
LEMMA KeyKept ==
    ASSUME TypeInv, KeyInv, NEW r \in Roles, NEW M \in SUBSET Msgs, Adds(r, M),
           r = "send" => \A k \in Keys : ConfirmMsg(k) \notin M,
           OnSocket("send")' => /\ OnSocket("send")
                                /\ sock'["send"] = sock["send"] /\ key'["send"] = key["send"],
           OnSocket("send")' /\ pc["send"] \in {"Confirm", "Session"}
              => pc'["send"] \in {"Confirm", "Session"},
           pc'["recv"] \in {"Session", "Linger"}
              => pc["recv"] \in {"Session", "Linger"} /\ key'["recv"] = key["recv"]
    PROVE  KeyInv'
  <1> HIDE DEF Msgs, Keys, Control
  <1>1. ASSUME NEW k \in Keys, UnderWay("send", ConfirmMsg(k))', OnSocket("send")',
               k.send = sock'["send"]
        PROVE  pc'["send"] \in {"Confirm", "Session"} /\ key'["send"] = k
    <2>1. ConfirmMsg(k) \in Msgs \ Control /\ "send" \in Roles
      BY NotControl, MsgTypes DEF Roles
    <2>2. UnderWay("send", ConfirmMsg(k))
      BY <1>1, <2>1 DEF Adds
    <2> QED
      BY <1>1, <2>2 DEF KeyInv
  <1>2. ASSUME pc'["recv"] \in {"Session", "Linger"}, OnSocket("send")',
               key'["recv"].send = sock'["send"]
        PROVE  pc'["send"] \in {"Confirm", "Session"} /\ key'["send"] = key'["recv"]
    BY <1>2 DEF KeyInv
  <1> QED
    BY <1>1, <1>2 DEF KeyInv

\* AnswerInv holds after a step that sends no last answer, leaves a receiver that
\* has completed a session there, and reports no success of its own.
LEMMA AnswerKept ==
    ASSUME TypeInv, AnswerInv, NEW r \in Roles, NEW M \in SUBSET Msgs, Adds(r, M),
           r = "recv" => \A m \in M : ~LastAnswer(m),
           pc["recv"] \in {"Linger", "Done"} => pc'["recv"] \in {"Linger", "Done"},
           result' = "Ok" => result = "Ok" \/ pc["recv"] \in {"Linger", "Done"}
    PROVE  AnswerInv'
  <1> HIDE DEF Msgs, Control
  <1>1. ASSUME NEW m \in Msgs, UnderWay("recv", m)', LastAnswer(m)
        PROVE  pc'["recv"] \in {"Linger", "Done"}
    <2>1. m \in Msgs \ Control /\ "recv" \in Roles
      BY <1>1, NotControl DEF LastAnswer, Roles
    <2>2. UnderWay("recv", m)
      BY <1>1, <2>1 DEF Adds
    <2> QED
      BY <1>1, <2>2 DEF AnswerInv
  <1>2. SuccessMeansReceived'
    BY DEF AnswerInv, SuccessMeansReceived
  <1>3. \A m \in Msgs : UnderWay("recv", m)' /\ LastAnswer(m) => pc'["recv"] \in {"Linger", "Done"}
    BY <1>1
  <1> QED
    BY <1>2, <1>3 DEF AnswerInv, LastAnswer

-----------------------------------------------------------------------------
(* The steps.                                                              *)

\* The room, the network and a process that skips a message.
LEMMA PassiveStep ==
    ASSUME RelayInv, UNCHANGED procs, NEW r \in Roles, NEW x \in Control, Adds(r, {x}),
           listed' \subseteq Sockets
    PROVE  RelayInv'
  <1> HIDE DEF Msgs
  <1>1. {x} \in SUBSET Msgs /\ x.t \notin {"confirm", "sealed"}
    BY MsgTypes DEF Control, Joined, Left, CloseMsg
  <1>2. (\A k \in Keys : ConfirmMsg(k) \notin {x}) /\ \A m \in {x} : ~LastAnswer(m)
    BY <1>1 DEF ConfirmMsg, LastAnswer
  <1>3. UNCHANGED <<pc, sock, code, key, n, result>>
    BY DEF procs
  <1>4. TypeInv'
    BY <1>3 DEF RelayInv, TypeInv, Adds, OnSocket
  <1>5. KeyInv'
    BY <1>1, <1>2, <1>3, KeyKept DEF RelayInv, OnSocket
  <1>6. AnswerInv'
    BY <1>1, <1>2, <1>3, AnswerKept DEF RelayInv
  <1> QED
    BY <1>4, <1>5, <1>6 DEF RelayInv

\* A process leaves its socket.
LEMMA HangupStep ==
    ASSUME RelayInv, NEW r \in Roles, OnSocket(r),
           NEW next \in {"Idle", "Dial", "Done", "Failed"}, Hangup(r, next),
           r = "recv" /\ pc["recv"] = "Linger" => next = "Done",
           result' = "Ok" => result = "Ok" \/ pc["recv"] \in {"Linger", "Done"}
    PROVE  RelayInv'
  <1> HIDE DEF Msgs
  <1>1. CloseMsg \in Msgs /\ {CloseMsg} \in SUBSET Msgs
    BY MsgTypes
  <1>2. Adds(r, {CloseMsg})
    BY <1>1, ProcessAdds DEF Hangup, RelayInv
  <1>3. (\A k \in Keys : ConfirmMsg(k) \notin {CloseMsg}) /\ \A m \in {CloseMsg} : ~LastAnswer(m)
    BY DEF ConfirmMsg, LastAnswer, CloseMsg
  <1>4. /\ pc \in [Roles -> Points] /\ sock \in [Roles -> Names] /\ key \in [Roles -> Keys]
        /\ n \in [Roles -> Nat]
    BY DEF RelayInv, TypeInv
  <1>5. /\ pc' = [pc EXCEPT ![r] = next] /\ sock' = [sock EXCEPT ![r] = NoSocket]
        /\ key' = [key EXCEPT ![r] = NoKey] /\ n' = [n EXCEPT ![r] = 0]
        /\ UNCHANGED <<listed, code>>
    BY DEF Hangup
  <1>6. NoKey \in Keys
    BY DEF NoKey, Keys, Names
  <1>7. TypeInv'
    <2> HIDE DEF Keys
    <2>1. pc' \in [Roles -> Points] /\ sock' \in [Roles -> Names]
      BY <1>4, <1>5 DEF Points, Names
    <2>2. key' \in [Roles -> Keys] /\ n' \in [Roles -> Nat]
      BY <1>4, <1>5, <1>6
    <2>3. ASSUME NEW q \in Roles
          PROVE  /\ OnSocket(q)' => sock'[q] \in Named(q)
                 /\ pc'[q] \in {"Confirm", "Session", "Linger"} =>
                       key'[q].code = code'[q] /\ key'[q][q] = sock'[q]
      <3>1. CASE q = r
        BY <1>4, <1>5, <3>1 DEF OnSocket
      <3>2. CASE q # r
        BY <1>4, <1>5, <3>2 DEF OnSocket, RelayInv, TypeInv
      <3> QED
        BY <3>1, <3>2
    <2> QED
      BY <1>2, <1>5, <2>1, <2>2, <2>3 DEF RelayInv, TypeInv, Adds
  <1>8. KeyInv'
    <2>1. CASE r = "send"
      BY <1>1, <1>2, <1>3, <1>4, <1>5, <2>1, KeyKept DEF RelayInv, OnSocket, Roles
    <2>2. CASE r = "recv"
      BY <1>1, <1>2, <1>3, <1>4, <1>5, <2>2, KeyKept DEF RelayInv, OnSocket, Roles
    <2> QED
      BY <2>1, <2>2 DEF Roles
  <1>9. AnswerInv'
    BY <1>1, <1>2, <1>3, <1>4, <1>5, AnswerKept DEF RelayInv, OnSocket, Roles
  <1> QED
    BY <1>7, <1>8, <1>9 DEF RelayInv

\* The next message of a process is one of the other role under way to it.
LEMMA NextMsg ==
    ASSUME TypeInv, NEW r \in Roles, OnSocket(r), HasMsg(r)
    PROVE  Msg(r) \in Msgs /\ UnderWay(Other(r), Msg(r))
  <1> HIDE DEF Msgs
  <1>1. sock[r] \in Named(r) /\ down \in [Sockets -> Seq(Msgs)]
    BY DEF TypeInv
  <1>2. sock[r] \in Sockets /\ Other(Other(r)) = r
    BY <1>1, RoleOf DEF Other, Roles
  <1>3. Msg(r) \in Msgs /\ In(Msg(r), down[sock[r]])
    BY <1>1, <1>2, InTail DEF HasMsg, Msg
  <1> QED
    BY <1>1, <1>2, <1>3 DEF UnderWay

\* What the messages that carry something carry.
LEMMA MsgParts ==
    ASSUME NEW m \in Msgs
    PROVE  /\ m.t = "pake" => m.of \in Names
           /\ m.t = "confirm" => m.key \in Keys /\ m = ConfirmMsg(m.key)
           /\ m.t = "sealed" => m.key \in Keys /\ m.round \in Nat
  <1> HIDE DEF Names, Keys
  <1>1. CASE m \in Control
    BY <1>1 DEF Control, Joined, Left, CloseMsg
  <1>2. CASE m \in [t : {"pake"}, of : Names]
    BY <1>2
  <1>3. CASE m \in [t : {"confirm"}, key : Keys]
    BY <1>3 DEF ConfirmMsg
  <1>4. CASE m \in [t : {"sealed"}, key : Keys, round : Nat]
    BY <1>4
  <1> QED
    BY <1>1, <1>2, <1>3, <1>4 DEF Msgs

\* A process stays on its socket: types.
LEMMA StayTypes ==
    ASSUME TypeInv, NEW r \in Roles, OnSocket(r), NEW M, Adds(r, M),
           NEW next \in {"Pake", "Confirm", "Session", "Linger"}, pc' = [pc EXCEPT ![r] = next],
           UNCHANGED <<listed, sock, code>>, n' \in [Roles -> Nat],
           NEW k \in Keys, key' = [key EXCEPT ![r] = k],
           next # "Pake" => k.code = code[r] /\ k[r] = sock[r]
    PROVE  TypeInv'
  <1> HIDE DEF Msgs, Keys
  <1>1. /\ pc \in [Roles -> Points] /\ key \in [Roles -> Keys] /\ sock \in [Roles -> Names]
    BY DEF TypeInv
  <1>2. pc' \in [Roles -> Points] /\ key' \in [Roles -> Keys]
    BY <1>1 DEF Points
  <1>3. ASSUME NEW q \in Roles
        PROVE  /\ OnSocket(q)' => sock'[q] \in Named(q)
               /\ pc'[q] \in {"Confirm", "Session", "Linger"} =>
                     key'[q].code = code'[q] /\ key'[q][q] = sock'[q]
    <2>1. CASE q = r
      BY <1>1, <2>1 DEF TypeInv
    <2>2. CASE q # r
      BY <1>1, <2>2 DEF OnSocket, TypeInv
    <2> QED
      BY <2>1, <2>2
  <1> QED
    BY <1>1, <1>2, <1>3 DEF TypeInv, Adds

\* A peer has joined.
LEMMA JoinedStep ==
    ASSUME RelayInv, NEW r \in Roles, GetJoined(r)
    PROVE  RelayInv'
  <1> HIDE DEF Msgs, Keys
  <1> DEFINE x == PakeMsg(sock[r])
  <1>1. /\ pc[r] = "Wait" /\ HasMsg(r) /\ OnSocket(r)
        /\ pc' = [pc EXCEPT ![r] = "Pake"] /\ down' = Taken(r) /\ up' = Post(up, sock[r], x)
        /\ UNCHANGED <<listed, sock, code, result, key, n>>
    BY DEF GetJoined, Exchange, OnSocket
  <1>2. /\ pc \in [Roles -> Points] /\ key \in [Roles -> Keys] /\ n \in [Roles -> Nat]
        /\ sock[r] \in Names /\ TypeInv /\ KeyInv /\ AnswerInv
    BY DEF RelayInv, TypeInv
  <1>3. x \in Msgs /\ {x} \in SUBSET Msgs
    BY <1>2, MsgTypes
  <1>4. (\A k \in Keys : ConfirmMsg(k) \notin {x}) /\ \A m \in {x} : ~LastAnswer(m)
    BY DEF ConfirmMsg, LastAnswer, PakeMsg
  <1> HIDE DEF x
  <1>5. Adds(r, {x})
    BY <1>1, <1>2, <1>3, ProcessAdds
  <1>6. key' = [key EXCEPT ![r] = key[r]] /\ key[r] \in Keys
    BY <1>1, <1>2
  <1>7. TypeInv'
    BY <1>1, <1>2, <1>5, <1>6, StayTypes
  <1>8. KeyInv'
    BY <1>1, <1>2, <1>3, <1>4, <1>5, KeyKept DEF OnSocket, Roles
  <1>9. AnswerInv'
    BY <1>1, <1>2, <1>3, <1>4, <1>5, AnswerKept DEF Roles
  <1> QED
    BY <1>7, <1>8, <1>9 DEF RelayInv

\* A process derives its key and confirms it.  A sender has confirmed nothing on
\* this socket before, and a receiver is in no session with it.
LEMMA PakeStep ==
    ASSUME RelayInv, NEW r \in Roles, GetPake(r)
    PROVE  RelayInv'
  <1> HIDE DEF Msgs, Keys
  <1> DEFINE k == KeyOf(r, sock[r], Msg(r).of)
             x == ConfirmMsg(k)
  <1>1. /\ pc[r] = "Pake" /\ HasMsg(r) /\ OnSocket(r) /\ Msg(r).t = "pake"
        /\ pc' = [pc EXCEPT ![r] = "Confirm"] /\ down' = Taken(r) /\ up' = Post(up, sock[r], x)
        /\ key' = [key EXCEPT ![r] = k]
        /\ UNCHANGED <<listed, sock, code, result, n>>
    BY DEF GetPake, Exchange, OnSocket
  <1>2. /\ pc \in [Roles -> Points] /\ key \in [Roles -> Keys] /\ n \in [Roles -> Nat]
        /\ sock[r] \in Names /\ code[r] \in {RightCode, WrongCode}
        /\ TypeInv /\ KeyInv /\ AnswerInv
    BY DEF RelayInv, TypeInv
  <1>3. Msg(r).of \in Names
    BY <1>1, <1>2, NextMsg, MsgParts
  <1>4. k \in Keys /\ k.code = code[r] /\ k[r] = sock[r]
    BY <1>2, <1>3 DEF KeyOf, Keys, Roles
  <1> HIDE DEF k
  <1>5. x \in Msgs /\ {x} \in SUBSET Msgs
    BY <1>4, MsgTypes
  <1>6. \A m \in {x} : ~LastAnswer(m)
    BY DEF ConfirmMsg, LastAnswer
  <1>7. \A j \in Keys : ConfirmMsg(j) = x => j = k
    BY DEF ConfirmMsg
  <1> HIDE DEF x
  <1>8. Adds(r, {x})
    BY <1>1, <1>2, <1>5, ProcessAdds
  <1>9. TypeInv'
    BY <1>1, <1>2, <1>4, <1>8, StayTypes
  <1>10. KeyInv'
    <2>1. CASE r = "recv"
      BY <1>1, <1>2, <1>5, <1>8, <2>1, KeyKept DEF OnSocket, Roles
    <2>2. CASE r = "send"
      <3>1. /\ pc'["send"] = "Confirm" /\ key'["send"] = k /\ sock'["send"] = sock["send"]
            /\ pc'["recv"] = pc["recv"] /\ key'["recv"] = key["recv"]
            /\ OnSocket("send") /\ pc["send"] = "Pake"
        BY <1>1, <1>2, <2>2 DEF Roles
      <3>2. ASSUME NEW j \in Keys, UnderWay("send", ConfirmMsg(j))', j.send = sock'["send"]
            PROVE  j = k
        <4>1. ConfirmMsg(j) \in Msgs \ Control /\ "send" \in Roles
          BY NotControl, MsgTypes DEF Roles
        <4>2. UnderWay("send", ConfirmMsg(j)) \/ ConfirmMsg(j) = x
          BY <1>8, <3>2, <4>1 DEF Adds
        <4>3. ~UnderWay("send", ConfirmMsg(j))
          BY <1>2, <3>1, <3>2 DEF KeyInv
        <4> QED
          BY <1>7, <4>2, <4>3
      <3>3. ~(pc["recv"] \in {"Session", "Linger"} /\ key["recv"].send = sock["send"])
        BY <1>2, <3>1 DEF KeyInv
      <3> QED
        BY <3>1, <3>2, <3>3 DEF KeyInv
    <2> QED
      BY <2>1, <2>2 DEF Roles
  <1>11. AnswerInv'
    BY <1>1, <1>2, <1>5, <1>6, <1>8, AnswerKept DEF Roles
  <1> QED
    BY <1>9, <1>10, <1>11 DEF RelayInv

\* A process in a session, or confirmed, goes on with a sealed frame that is not
\* the receiver's last answer.
LEMMA SealedStep ==
    ASSUME RelayInv, NEW r \in Roles, pc[r] \in {"Confirm", "Session"}, HasMsg(r),
           pc[r] = "Confirm" => r = "send",
           NEW i \in Nat, r = "recv" => i # Rounds,
           pc' = [pc EXCEPT ![r] = "Session"], down' = Taken(r),
           up' = Post(up, sock[r], Sealed(key[r], i)),
           UNCHANGED <<listed, sock, code, key, result>>, n' \in [Roles -> Nat]
    PROVE  RelayInv'
  <1> HIDE DEF Msgs, Keys
  <1> DEFINE x == Sealed(key[r], i)
  <1>1. /\ pc \in [Roles -> Points] /\ key \in [Roles -> Keys]
        /\ TypeInv /\ KeyInv /\ AnswerInv
    BY DEF RelayInv, TypeInv
  <1>2. OnSocket(r) /\ key[r].code = code[r] /\ key[r][r] = sock[r] /\ key[r] \in Keys
    BY <1>1 DEF OnSocket, TypeInv
  <1>3. x \in Msgs /\ {x} \in SUBSET Msgs
    BY <1>1, MsgTypes
  <1>4. /\ \A k \in Keys : ConfirmMsg(k) \notin {x}
        /\ r = "recv" => \A m \in {x} : ~LastAnswer(m)
    BY DEF ConfirmMsg, LastAnswer, Sealed
  <1> HIDE DEF x
  <1>5. Adds(r, {x})
    BY <1>1, <1>2, <1>3, ProcessAdds DEF x
  <1>6. key' = [key EXCEPT ![r] = key[r]]
    BY <1>1
  <1>7. TypeInv'
    BY <1>1, <1>2, <1>5, <1>6, StayTypes
  <1>8. KeyInv'
    <2>1. CASE r = "send"
      BY <1>1, <1>2, <1>3, <1>4, <1>5, <2>1, KeyKept DEF OnSocket, Roles
    <2>2. CASE r = "recv"
      BY <1>1, <1>2, <1>3, <1>4, <1>5, <2>2, KeyKept DEF OnSocket, Roles
    <2> QED
      BY <2>1, <2>2 DEF Roles
  <1>9. AnswerInv'
    BY <1>1, <1>3, <1>4, <1>5, AnswerKept DEF Roles
  <1> QED
    BY <1>7, <1>8, <1>9 DEF RelayInv

\* A confirmation arrives.  The receiver that accepts it has read the sender's key.
LEMMA ConfirmStep ==
    ASSUME RelayInv, NEW r \in Roles, GetConfirm(r)
    PROVE  RelayInv'
  <1> HIDE DEF Msgs, Keys
  <1>1. /\ pc[r] = "Confirm" /\ HasMsg(r) /\ OnSocket(r) /\ Msg(r).t = "confirm"
        /\ TypeInv /\ KeyInv /\ AnswerInv
        /\ pc \in [Roles -> Points] /\ key \in [Roles -> Keys] /\ n \in [Roles -> Nat]
    BY DEF GetConfirm, OnSocket, RelayInv, TypeInv
  <1>2. CASE Rearm(r) /\ Ended(r, "CodeMismatch")
    <2>1. result' = "Ok" => result = "Ok"
      BY <1>2 DEF Ended
    <2>2. CASE r = "recv"
      BY <1>1, <1>2, <2>1, <2>2, HangupStep DEF Rearm
    <2>3. CASE r = "send"
      BY <1>1, <1>2, <2>1, <2>3, HangupStep DEF Rearm
    <2> QED
      BY <2>2, <2>3 DEF Roles
  <1>3. CASE /\ Confirms(r)
             /\ n' = [n EXCEPT ![r] = 0]
             /\ pc' = [pc EXCEPT ![r] = "Session"]
             /\ down' = Taken(r)
             /\ up' = IF r = "send" THEN Post(up, sock[r], Sealed(key[r], 1)) ELSE up
             /\ UNCHANGED <<listed, alarm, cut, sock, code, key, result>>
    <2>1. n' \in [Roles -> Nat]
      BY <1>1, <1>3
    <2>2. CASE r = "send"
      BY <1>1, <1>3, <2>1, <2>2, SealedStep
    <2>3. CASE r = "recv"
      <3>1. CloseMsg \in Msgs /\ {CloseMsg} \in SUBSET Msgs /\ "send" \in Roles
        BY MsgTypes DEF Roles
      <3>2. Adds("recv", {CloseMsg}) /\ up' = up
        BY <1>1, <1>3, <2>3, <3>1, ProcessAdds
      <3>3. \A m \in {CloseMsg} : ~LastAnswer(m)
        BY DEF LastAnswer, CloseMsg
      <3>4. key' = [key EXCEPT ![r] = key[r]] /\ key[r] \in Keys
        BY <1>1, <1>3
      <3>5. key[r].code = code[r] /\ key[r][r] = sock[r]
        BY <1>1 DEF TypeInv
      <3>6. TypeInv'
        BY <1>1, <1>3, <2>1, <2>3, <3>2, <3>4, <3>5, StayTypes
      <3>7. /\ pc'["send"] = pc["send"] /\ key' = key /\ sock' = sock
            /\ OnSocket("send")' => OnSocket("send")
        BY <1>1, <1>3, <2>3 DEF OnSocket, Roles
      <3>8. ASSUME NEW k \in Keys, UnderWay("send", ConfirmMsg(k))', OnSocket("send")',
                   k.send = sock'["send"]
            PROVE  pc'["send"] \in {"Confirm", "Session"} /\ key'["send"] = k
        <4>1. ConfirmMsg(k) \in Msgs \ Control
          BY NotControl, MsgTypes
        <4>2. UnderWay("send", ConfirmMsg(k))
          BY <3>1, <3>2, <3>8, <4>1 DEF Adds
        <4> QED
          BY <1>1, <3>7, <3>8, <4>2 DEF KeyInv
      <3>9. UnderWay("send", ConfirmMsg(key["recv"]))
        <4>1. Msg(r) \in Msgs /\ UnderWay("send", Msg(r))
          BY <1>1, <2>3, NextMsg DEF Other
        <4>2. Msg(r) = ConfirmMsg(Msg(r).key) /\ Msg(r).key = key["recv"]
          BY <1>1, <1>3, <2>3, <4>1, MsgParts DEF Confirms
        <4> QED
          BY <4>1, <4>2
      <3>10. KeyInv'
        <4>1. OnSocket("send") /\ key["recv"].send = sock["send"]
                 => pc["send"] \in {"Confirm", "Session"} /\ key["send"] = key["recv"]
          BY <1>1, <2>3, <3>4, <3>9 DEF KeyInv
        <4> QED
          BY <3>7, <3>8, <4>1 DEF KeyInv
      <3>11. AnswerInv'
        BY <1>1, <1>3, <2>3, <3>1, <3>2, <3>3, AnswerKept DEF Roles
      <3> QED
        BY <3>6, <3>10, <3>11 DEF RelayInv
    <2> QED
      BY <2>2, <2>3 DEF Roles
  <1> QED
    BY <1>2, <1>3 DEF GetConfirm

\* A receiver's round.  It lingers exactly when its answer is the last.
LEMMA ReceiverRoundStep ==
    ASSUME RelayInv, ReceiverRound
    PROVE  RelayInv'
  <1> HIDE DEF Msgs, Keys
  <1> DEFINE i == n["recv"] + 1
             x == Sealed(key["recv"], i)
  <1>1. /\ pc["recv"] = "Session" /\ HasMsg("recv") /\ OnSocket("recv") /\ "recv" \in Roles
        /\ TypeInv /\ KeyInv /\ AnswerInv
        /\ pc \in [Roles -> Points] /\ key \in [Roles -> Keys] /\ n \in [Roles -> Nat]
    BY DEF ReceiverRound, OnSocket, RelayInv, TypeInv, Roles
  <1>2. n' = [n EXCEPT !["recv"] = i] /\ n'["recv"] = i /\ i \in Nat /\ n' \in [Roles -> Nat]
    BY <1>1 DEF ReceiverRound
  <1>3. /\ pc' = [pc EXCEPT !["recv"] = IF i = Rounds THEN "Linger" ELSE "Session"]
        /\ down' = Taken("recv") /\ up' = Post(up, sock["recv"], x)
        /\ UNCHANGED <<listed, sock, code, key, result>>
    BY <1>2 DEF ReceiverRound, Exchange
  <1> HIDE DEF i
  <1>4. CASE i # Rounds
    BY <1>1, <1>2, <1>3, <1>4, SealedStep
  <1>5. CASE i = Rounds
    <2>1. /\ key["recv"].code = code["recv"] /\ key["recv"]["recv"] = sock["recv"]
          /\ key["recv"] \in Keys /\ key' = [key EXCEPT !["recv"] = key["recv"]]
      BY <1>1, <1>3 DEF TypeInv
    <2>2. x \in Msgs /\ {x} \in SUBSET Msgs
      BY <1>2, <2>1, MsgTypes
    <2> HIDE DEF x
    <2>3. Adds("recv", {x})
      BY <1>1, <1>3, <2>2, ProcessAdds
    <2>4. pc' = [pc EXCEPT !["recv"] = "Linger"] /\ pc'["recv"] = "Linger" /\ pc'["send"] = pc["send"]
      BY <1>1, <1>3, <1>5 DEF Roles
    <2>5. TypeInv'
      BY <1>1, <1>2, <1>3, <2>1, <2>3, <2>4, StayTypes
    <2>6. KeyInv'
      BY <1>1, <1>3, <2>2, <2>3, <2>4, KeyKept DEF OnSocket, Roles
    <2>7. AnswerInv'
      BY <2>4 DEF AnswerInv, SuccessMeansReceived
    <2> QED
      BY <2>5, <2>6, <2>7 DEF RelayInv
  <1> QED
    BY <1>4, <1>5

\* A sender's round.  The one that ends it has read the receiver's last answer.
LEMMA SenderRoundStep ==
    ASSUME RelayInv, SenderRound
    PROVE  RelayInv'
  <1> HIDE DEF Msgs, Keys
  <1>1. /\ pc["send"] = "Session" /\ HasMsg("send") /\ OnSocket("send") /\ "send" \in Roles
        /\ Opens("send") /\ TypeInv /\ AnswerInv /\ n \in [Roles -> Nat]
    BY DEF SenderRound, OnSocket, RelayInv, TypeInv, Roles
  <1>2. CASE /\ n["send"] + 1 < Rounds
             /\ n' = [n EXCEPT !["send"] = @ + 1]
             /\ Exchange("send", "Session", Sealed(key["send"], n["send"] + 2))
             /\ UNCHANGED key
    <2>1. n["send"] + 2 \in Nat /\ n' \in [Roles -> Nat]
      BY <1>1, <1>2
    <2> QED
      BY <1>1, <1>2, <2>1, SealedStep DEF Exchange
  <1>3. CASE n["send"] + 1 = Rounds /\ Hangup("send", "Idle")
    <2>1. Msg("send") \in Msgs /\ UnderWay("recv", Msg("send"))
      BY <1>1, NextMsg DEF Other
    <2>2. LastAnswer(Msg("send"))
      BY <1>1, <1>3 DEF Opens, LastAnswer
    <2>3. pc["recv"] \in {"Linger", "Done"}
      BY <1>1, <2>1, <2>2 DEF AnswerInv
    <2> QED
      BY <1>1, <1>3, <2>3, HangupStep
  <1> QED
    BY <1>2, <1>3 DEF SenderRound

\* The socket of a confirmation under way is in use, and so is a key's.
LEMMA UsedSockets ==
    ASSUME TypeInv
    PROVE  /\ \A k \in Keys : UnderWay("send", ConfirmMsg(k)) => k.send \in InUse
           /\ \A r \in Roles : key[r].send \in InUse
  <1> HIDE DEF Msgs, Keys
  <1>1. ASSUME NEW s \in Sockets, NEW k \in Keys,
               In(ConfirmMsg(k), up[s]) \/ In(ConfirmMsg(k), down[s])
        PROVE  k.send \in InUse
    <2>1. up[s] \in Seq(Msgs) /\ down[s] \in Seq(Msgs)
      BY DEF TypeInv
    <2>2. ConfirmMsg(k) \in Range(up[s]) \cup Range(down[s])
      BY <1>1, <2>1 DEF In, Range
    <2>3. k.send \in MsgSockets(ConfirmMsg(k))
      BY DEF MsgSockets, ConfirmMsg, KeySockets
    <2>4. ConfirmMsg(k) \in UNION {Range(up[t]) \cup Range(down[t]) : t \in Sockets}
      BY <2>2, Zenon
    <2>5. k.send \in UNION {MsgSockets(m) : m \in
              UNION {Range(up[t]) \cup Range(down[t]) : t \in Sockets}}
      BY <2>3, <2>4, Zenon
    <2> QED
      BY <2>5, Zenon DEF InUse
  <1>2. ASSUME NEW k \in Keys, UnderWay("send", ConfirmMsg(k)) PROVE k.send \in InUse
    <2>1. Named("send") \subseteq Sockets /\ Named(Other("send")) \subseteq Sockets
      BY DEF Named, Sockets
    <2> QED
      BY <1>1, <1>2, <2>1 DEF UnderWay
  <1>3. ASSUME NEW r \in Roles PROVE key[r].send \in InUse
    <2>1. key[r].send \in KeySockets(key[r])
      BY DEF KeySockets
    <2>2. key[r].send \in UNION {KeySockets(key[q]) : q \in Roles}
      BY <2>1, Zenon
    <2> QED
      BY <2>2, Zenon DEF InUse
  <1> QED
    BY <1>2, <1>3

\* A join empties the queues of the new socket and posts control messages.
LEMMA DialAdds ==
    ASSUME TypeInv, NEW r \in Roles, NEW s \in Named(r), Join(s, r),
           up' = [up EXCEPT ![s] = <<>>]
    PROVE  Adds(r, {}) /\ listed' \subseteq Sockets
  <1> HIDE DEF Msgs, Control
  <1>1. /\ up \in [Sockets -> Seq(Msgs)] /\ down \in [Sockets -> Seq(Msgs)]
        /\ listed \subseteq Sockets /\ s \in Sockets /\ {} \in SUBSET Msgs
    BY RoleOf DEF TypeInv
  <1>2. /\ up' \in [Sockets -> Seq(Msgs)]
        /\ \A t \in Sockets, m \in Msgs : In(m, up'[t]) => In(m, up[t])
    BY <1>1, InShort
  <1>3. CloseMsg \in Msgs \cap Control /\ Joined \in Msgs \cap Control
    BY MsgTypes DEF Control
  <1>4. /\ down' = [t \in Sockets |-> down'[t]]
        /\ \A t \in Sockets : down'[t] \in {<<Joined>>, <<>>, Append(down[t], CloseMsg),
                                            Append(down[t], Joined), down[t]}
    BY DEF Join
  <1>5. ASSUME NEW t \in Sockets
        PROVE  /\ down'[t] \in Seq(Msgs)
               /\ \A m \in Msgs \ Control : In(m, down'[t]) => In(m, down[t])
    <2>1. down[t] \in Seq(Msgs)
      BY <1>1
    <2>2. /\ Append(down[t], CloseMsg) \in Seq(Msgs) /\ Append(down[t], Joined) \in Seq(Msgs)
          /\ \A m : In(m, Append(down[t], CloseMsg)) => In(m, down[t]) \/ m = CloseMsg
          /\ \A m : In(m, Append(down[t], Joined)) => In(m, down[t]) \/ m = Joined
      BY <1>3, <2>1, InAppend
    <2>3. /\ <<Joined>> \in Seq(Msgs) /\ <<>> \in Seq(Msgs)
          /\ \A m : ~In(m, <<>>) /\ (In(m, <<Joined>>) => m = Joined)
      BY <1>3, InShort
    <2> QED
      BY <1>3, <1>4, <2>1, <2>2, <2>3
  <1>6. down' \in [Sockets -> Seq(Msgs)]
    BY <1>4, <1>5
  <1>7. listed' \subseteq Sockets
    BY <1>1 DEF Join
  <1> QED
    BY <1>1, <1>2, <1>5, <1>6, <1>7, AddsFrom

\* A process dials under a name that no key and no confirmation refers to.
LEMMA DialStep ==
    ASSUME RelayInv, NEW r \in Roles, Dial(r)
    PROVE  RelayInv'
  <1> HIDE DEF Msgs, Keys
  <1> DEFINE s == CHOOSE t \in Fresh(r) : TRUE
  <1>1. /\ s \in Named(r) \ InUse /\ Join(s, r) /\ up' = [up EXCEPT ![s] = <<>>]
        /\ sock' = [sock EXCEPT ![r] = s] /\ pc' = [pc EXCEPT ![r] = "Wait"]
        /\ UNCHANGED <<code, key, n, result>> /\ pc[r] = "Dial"
    BY FreshSocket DEF Dial
  <1> HIDE DEF s
  <1>2. /\ TypeInv /\ KeyInv /\ AnswerInv /\ {} \in SUBSET Msgs
        /\ pc \in [Roles -> Points] /\ sock \in [Roles -> Names]
    BY DEF RelayInv, TypeInv
  <1>3. Adds(r, {}) /\ listed' \subseteq Sockets /\ s \in Sockets
    BY <1>1, <1>2, DialAdds, RoleOf
  <1>4. TypeInv'
    <2>1. pc' \in [Roles -> Points] /\ sock' \in [Roles -> Names]
      BY <1>1, <1>2, <1>3 DEF Points, Names
    <2>2. ASSUME NEW q \in Roles
          PROVE  /\ OnSocket(q)' => sock'[q] \in Named(q)
                 /\ pc'[q] \in {"Confirm", "Session", "Linger"} =>
                       key'[q].code = code'[q] /\ key'[q][q] = sock'[q]
      <3>1. CASE q = r
        BY <1>1, <1>2, <3>1
      <3>2. CASE q # r
        BY <1>1, <1>2, <3>2 DEF OnSocket, TypeInv
      <3> QED
        BY <3>1, <3>2
    <2> QED
      BY <1>1, <1>2, <1>3, <2>1, <2>2 DEF TypeInv, Adds
  <1>5. KeyInv'
    <2>1. CASE r = "recv"
      BY <1>1, <1>2, <1>3, <2>1, KeyKept DEF OnSocket, Roles
    <2>2. CASE r = "send"
      <3>1. sock'["send"] = s /\ key' = key /\ "send" \in Roles /\ "recv" \in Roles
        BY <1>1, <1>2, <2>2 DEF Roles
      <3>2. ASSUME NEW k \in Keys, UnderWay("send", ConfirmMsg(k))' PROVE k.send # s
        <4>1. ConfirmMsg(k) \in Msgs \ Control
          BY NotControl, MsgTypes
        <4>2. UnderWay("send", ConfirmMsg(k))
          BY <1>3, <3>1, <3>2, <4>1 DEF Adds
        <4> QED
          BY <1>1, <1>2, <4>2, UsedSockets
      <3>3. key["recv"].send # s
        BY <1>1, <1>2, <3>1, UsedSockets
      <3> QED
        BY <3>1, <3>2, <3>3 DEF KeyInv
    <2> QED
      BY <2>1, <2>2 DEF Roles
  <1>6. AnswerInv'
    BY <1>1, <1>2, <1>3, AnswerKept DEF Roles
  <1> QED
    BY <1>4, <1>5, <1>6 DEF RelayInv

\* The user runs `b2p send`.
LEMMA SendStartStep ==
    ASSUME RelayInv, NEW c \in {RightCode, WrongCode}, SendStart(c)
    PROVE  RelayInv'
  <1> HIDE DEF Msgs, Keys
  <1>1. /\ pc["send"] = "Idle" /\ pc' = [pc EXCEPT !["send"] = "Dial"]
        /\ code' = [code EXCEPT !["send"] = c] /\ result' = "None"
        /\ UNCHANGED <<listed, up, down, sock, key, n>>
    BY DEF SendStart, Ended, room
  <1>2. /\ TypeInv /\ KeyInv /\ AnswerInv /\ {} \in SUBSET Msgs
        /\ pc \in [Roles -> Points] /\ code \in [Roles -> {RightCode, WrongCode}]
    BY DEF RelayInv, TypeInv
  <1>3. pc'["send"] = "Dial" /\ pc'["recv"] = pc["recv"] /\ code'["recv"] = code["recv"]
    BY <1>1, <1>2 DEF Roles
  <1>4. TypeInv'
    <2>1. pc' \in [Roles -> Points] /\ code' \in [Roles -> {RightCode, WrongCode}]
      BY <1>1, <1>2 DEF Points
    <2>2. ASSUME NEW q \in Roles
          PROVE  /\ OnSocket(q)' => sock'[q] \in Named(q)
                 /\ pc'[q] \in {"Confirm", "Session", "Linger"} =>
                       key'[q].code = code'[q] /\ key'[q][q] = sock'[q]
      BY <1>1, <1>2, <1>3 DEF TypeInv, OnSocket, Roles
    <2> QED
      BY <1>1, <1>2, <1>3, <2>1, <2>2 DEF TypeInv
  <1>5. KeyInv'
    BY <1>3 DEF KeyInv, OnSocket
  <1>6. \A m \in Msgs : UnderWay("recv", m)' => UnderWay("recv", m)
    BY <1>1 DEF UnderWay
  <1>7. AnswerInv'
    BY <1>1, <1>2, <1>3, <1>6 DEF AnswerInv, SuccessMeansReceived
  <1> QED
    BY <1>4, <1>5, <1>7 DEF RelayInv

-----------------------------------------------------------------------------
(* The theorems.                                                           *)

\* Every step keeps the invariant.
LEMMA RelayStep == RelayInv /\ [Next]_vars => RelayInv'
  <1> SUFFICES ASSUME RelayInv, [Next]_vars PROVE RelayInv'
    OBVIOUS
  <1> HIDE DEF RelayInv
  <1>1. TypeInv /\ CloseMsg \in Control /\ "send" \in Roles /\ "recv" \in Roles
    BY DEF RelayInv, Control, Roles
  <1>2. ASSUME Adds("send", {}), listed' \subseteq Sockets, UNCHANGED procs PROVE RelayInv'
    <2>1. Adds("send", {CloseMsg})
      BY <1>2 DEF Adds
    <2> QED
      BY <1>1, <1>2, <2>1, PassiveStep
  <1>3. ASSUME NEW s \in Sockets, RoomHandles(s) \/ RoomReaps(s) PROVE RelayInv'
    <2>1. UNCHANGED procs
      BY <1>3 DEF RoomHandles, RoomReaps
    <2> QED
      BY <1>1, <1>2, <1>3, <2>1, RoomHandlesAdds, RoomAdds
  <1>4. ASSUME Expire \/ \E r \in Roles : Break(r) PROVE RelayInv'
    <2>1. UNCHANGED procs
      BY <1>4 DEF Expire, Break
    <2> QED
      BY <1>1, <1>2, <1>4, <2>1, RoomAdds
  <1>5. ASSUME NEW r \in Roles, Skip(r) PROVE RelayInv'
    <2>1. /\ OnSocket(r) /\ HasMsg(r) /\ down' = Taken(r) /\ up' = up
          /\ UNCHANGED <<listed, procs>> /\ CloseMsg \in Msgs /\ listed \subseteq Sockets
      BY <1>1, <1>5, MsgTypes DEF Skip, TypeInv
    <2>2. Adds(r, {CloseMsg})
      BY <1>1, <2>1, ProcessAdds
    <2> QED
      BY <1>1, <2>1, <2>2, PassiveStep
  <1>6. ASSUME NEW r \in Roles, OnSocket(r), pc[r] # "Linger", Rearm(r),
               NEW res \in {"Lost", "Establish"}, Ended(r, res)
        PROVE  RelayInv'
    <2>1. result' = "Ok" => result = "Ok"
      BY <1>6 DEF Ended
    <2>2. (IF r = "recv" THEN "Dial" ELSE "Idle") \in {"Idle", "Dial", "Done", "Failed"}
      OBVIOUS
    <2> QED
      BY <1>6, <2>1, <2>2, HangupStep DEF Rearm
  <1>7. ASSUME NEW r \in Roles, Lost(r) \/ Timeout(r) \/ Mistaken(r) PROVE RelayInv'
    <2>1. OnSocket(r) /\ pc[r] # "Linger"
      BY <1>7 DEF Lost, Timeout, Mistaken, OnSocket, Handshaking
    <2> QED
      BY <1>6, <1>7, <2>1 DEF Lost, Timeout, Mistaken
  <1>8. ASSUME NEW r \in Roles, BadFrame(r) PROVE RelayInv'
    <2>1. OnSocket(r) /\ pc[r] = "Session" /\ (result' = "Ok" => result = "Ok")
      BY <1>8 DEF BadFrame, OnSocket, Ended
    <2>2. (IF r = "recv" THEN "Failed" ELSE "Idle") \in {"Idle", "Dial", "Done", "Failed"}
      OBVIOUS
    <2> QED
      BY <1>8, <2>1, <2>2, HangupStep DEF BadFrame
  <1>9. CASE LingerEnd
    BY <1>1, <1>9, HangupStep DEF LingerEnd, OnSocket
  <1>10. CASE SenderKilled
    <2>1. result' = "Killed"
      BY <1>10 DEF SenderKilled, Ended
    <2> QED
      BY <1>1, <1>10, <2>1, HangupStep DEF SenderKilled
  <1>11. CASE StartRight \/ StartWrong \/ StartHurried
    BY <1>11, SendStartStep DEF StartRight, StartWrong, StartHurried
  <1>12. ASSUME NEW r \in Roles, Steps(r) PROVE RelayInv'
    BY <1>5, <1>7, <1>8, <1>12, DialStep, JoinedStep, PakeStep, ConfirmStep, Zenon DEF Steps
  <1>13. CASE UNCHANGED vars
    BY <1>13 DEF vars, room, procs, RelayInv, TypeInv, KeyInv, AnswerInv, UnderWay, OnSocket,
       SuccessMeansReceived
  <1> QED
    BY <1>1, <1>3, <1>4, <1>7, <1>9, <1>10, <1>11, <1>12, <1>13, ReceiverRoundStep,
       SenderRoundStep, Zenon DEF Next, RoomSteps, ReceiverSteps, SenderSteps

\* Types, keys and answers, for any sockets, rounds and faults: the inductive
\* invariant of a meeting, an invariant of the specification.
THEOREM RelayInvariant == Spec => []RelayInv
  <1>1. ASSUME Init PROVE RelayInv
    <2> HIDE DEF Msgs
    <2>1. \A s \in Sockets : up[s] = <<>> /\ down[s] = <<>>
      BY <1>1 DEF Init
    <2>2. Named("send") \subseteq Sockets /\ Named("recv") \subseteq Sockets
      BY DEF Named, Sockets
    <2>3. \A r \in Roles : \A m : ~UnderWay(r, m)
      BY <2>1, <2>2, InShort DEF UnderWay, Roles, Other
    <2>4. NoKey \in Keys
      BY DEF NoKey, Keys, Names
    <2>5. TypeInv
      <3> HIDE DEF Keys
      <3>1. /\ up \in [Sockets -> Seq(Msgs)] /\ down \in [Sockets -> Seq(Msgs)]
        BY <1>1, InShort DEF Init
      <3> QED
        BY <1>1, <2>4, <3>1 DEF Init, TypeInv, OnSocket, Roles, Points, Names
    <2>6. KeyInv /\ AnswerInv
      BY <1>1, <2>3 DEF Init, KeyInv, AnswerInv, OnSocket, SuccessMeansReceived, Roles
    <2> QED
      BY <2>5, <2>6 DEF RelayInv
  <1> QED
    BY <1>1, RelayStep, PTL DEF Spec

\* For any sockets, rounds and faults: a receiver in a session has its own code, and
\* the sender run it is in session with has derived the very same key, whatever
\* takeovers, late messages, wrong codes and breaks there are.
THEOREM RelaySameKey == Spec => []SameKey
  <1>1. RelayInv => SameKey
    BY DEF RelayInv, TypeInv, KeyInv, SameKey, OnSocket, Roles
  <1> QED
    BY <1>1, RelayInvariant, PTL

\* Likewise: `b2p send` reports success only if the receiver has completed a session.
THEOREM RelaySuccessMeansReceived == Spec => []SuccessMeansReceived
  <1>1. RelayInv => SuccessMeansReceived
    BY DEF RelayInv, AnswerInv
  <1> QED
    BY <1>1, RelayInvariant, PTL

-----------------------------------------------------------------------------
(* The order of a sender's messages.                                       *)

IsFrame(m) == m.t \in {"pake", "confirm", "sealed"}
\* The place of a frame among those a run of send makes,
Rank(m) == IF m.t = "pake" THEN 1 ELSE IF m.t = "confirm" THEN 2 ELSE 2 + m.round
\* and the socket it makes them for.
Maker(m) == IF m.t = "pake" THEN m.of ELSE m.key.send

Sorted(q) ==
    \A i, j \in 1..Len(q) :
        i < j /\ IsFrame(q[i]) /\ IsFrame(q[j]) => Rank(q[i]) < Rank(q[j])
Before(p, q) ==
    \A m, x \in Msgs : In(m, p) /\ In(x, q) /\ IsFrame(m) /\ IsFrame(x) => Rank(m) < Rank(x)

\* A sender's frames keep their order, through the room to the receiver.
OrderInv ==
    /\ \A s \in SendSockets : Sorted(up[s])
    /\ \A r \in RecvSockets : Sorted(down[r])
    /\ \A r \in RecvSockets, s \in SendSockets : Before(down[r], up[s])

\* The rank of the last frame the sender has made.
Sent ==
    IF pc["send"] = "Session" THEN 3 + n["send"]
    ELSE IF pc["send"] = "Confirm" THEN 2
    ELSE IF pc["send"] = "Pake" THEN 1
    ELSE 0

\* All frames under way from a sender are of one run, the present one if there is
\* one, with key k once it has one; a receiver in a session is in one with that run,
\* and has left behind what came before.
RunInv(k) ==
    /\ \A m \in Msgs : UnderWay("send", m) /\ IsFrame(m) =>
          /\ Maker(m) = k.send /\ (m.t # "pake" => m.key = k)
          /\ OnSocket("send") => Rank(m) <= Sent
          /\ pc["recv"] \in {"Session", "Linger"} => Rank(m) > 2 + n["recv"]
    /\ \A s \in SendSockets, m \in Msgs : In(m, up[s]) /\ IsFrame(m) => s = k.send
    /\ OnSocket("send") => sock["send"] = k.send
    /\ pc["send"] \in {"Confirm", "Session"} => key["send"] = k
    /\ OnSocket("send") /\ pc["recv"] \in {"Session", "Linger"} => 2 + n["recv"] <= Sent
    /\ pc["recv"] \in {"Confirm", "Session", "Linger"} => key["recv"].send = k.send
    /\ pc["recv"] \in {"Session", "Linger"} => key["recv"] = k

\* Before a sender dials, nothing is left of the run before.
QuietInv ==
    pc["send"] = "Dial" =>
        /\ Tagged("send") = {} /\ \A s \in SendSockets : up[s] = <<>>
        /\ pc["recv"] \in {"Dial", "Wait", "Done"}
        /\ \A r \in RecvSockets, m \in Msgs : In(m, down[r]) => m # Joined /\ ~IsFrame(m)

\* What holds while no send has been run too soon.
Orderly == ReceiverSurvives /\ OrderInv /\ QuietInv /\ \E k \in Keys : RunInv(k)
UnhurriedInv == "hurry" \notin faults => Orderly

\* A sealed frame, after the first, is made when the one before it has been
\* answered, and answered when it has been read.
InSession(k) == pc["recv"] \in {"Session", "Linger"} /\ key["recv"] = k
CauseInv ==
    /\ \A r \in Roles : ~OnSocket(r) => sock[r] = NoSocket
    /\ OnSocket("recv") =>
          /\ \A m \in Msgs : UnderWay("recv", m) /\ m.t = "sealed" /\ m.key.recv = sock["recv"]
                => InSession(m.key) /\ m.round <= n["recv"]
          /\ \A m \in Msgs : UnderWay("send", m) /\ m.t = "sealed" /\ m.key.recv = sock["recv"]
                => m.round <= 1 \/ (InSession(m.key) /\ m.round <= n["recv"] + 1)
          /\ pc["send"] = "Session" /\ key["send"].recv = sock["recv"]
                => n["send"] = 0 \/ (InSession(key["send"]) /\ n["send"] <= n["recv"])

-----------------------------------------------------------------------------
(* Causes.                                                                 *)

\* CauseInv holds after a step that seals nothing, leaves a connected receiver on
\* its socket and in its session, and a sender in its round.
LEMMA CauseKept ==
    ASSUME TypeInv, CauseInv, NEW r \in Roles, NEW M, Adds(r, M),
           \A m \in M : m.t = "sealed" => r = "send" /\ m.round = 1,
           \A q \in Roles : ~OnSocket(q)' => sock'[q] = NoSocket,
           OnSocket("recv")' => OnSocket("recv") /\ sock'["recv"] = sock["recv"],
           OnSocket("recv")' /\ pc["recv"] \in {"Session", "Linger"} =>
              /\ pc'["recv"] \in {"Session", "Linger"} /\ key'["recv"] = key["recv"]
              /\ n'["recv"] = n["recv"],
           pc'["send"] = "Session" =>
              \/ n'["send"] = 0
              \/ pc["send"] = "Session" /\ key'["send"] = key["send"] /\ n'["send"] = n["send"]
    PROVE  CauseInv'
  <1> HIDE DEF Msgs, Control
  <1>1. SUFFICES ASSUME OnSocket("recv")'
                 PROVE  /\ \A m \in Msgs : UnderWay("recv", m)' /\ m.t = "sealed" /\ m.key.recv = sock'["recv"]
                              => InSession(m.key)' /\ m.round <= n'["recv"]
                        /\ \A m \in Msgs : UnderWay("send", m)' /\ m.t = "sealed" /\ m.key.recv = sock'["recv"]
                              => m.round <= 1 \/ (InSession(m.key)' /\ m.round <= n'["recv"] + 1)
                        /\ pc'["send"] = "Session" /\ key'["send"].recv = sock'["recv"]
                              => n'["send"] = 0 \/ (InSession(key["send"])' /\ n'["send"] <= n'["recv"])
    BY DEF CauseInv, InSession, Roles
  <1>2. \A k : InSession(k) => InSession(k)' /\ n'["recv"] = n["recv"]
    BY <1>1 DEF InSession
  <1>3. ASSUME NEW q \in Roles, NEW m \in Msgs, UnderWay(q, m)', m.t = "sealed"
        PROVE  UnderWay(q, m) \/ (q = "send" /\ m.round = 1)
    BY <1>3, NotControl DEF Adds
  <1>4. "send" \in Roles /\ "recv" \in Roles
    BY DEF Roles
  <1>5. ASSUME NEW m \in Msgs, UnderWay("recv", m)', m.t = "sealed", m.key.recv = sock'["recv"]
        PROVE  InSession(m.key)' /\ m.round <= n'["recv"]
    BY <1>1, <1>2, <1>3, <1>4, <1>5 DEF CauseInv
  <1>6. ASSUME NEW m \in Msgs, UnderWay("send", m)', m.t = "sealed", m.key.recv = sock'["recv"]
        PROVE  m.round <= 1 \/ (InSession(m.key)' /\ m.round <= n'["recv"] + 1)
    BY <1>1, <1>2, <1>3, <1>4, <1>6 DEF CauseInv
  <1>7. ASSUME pc'["send"] = "Session", key'["send"].recv = sock'["recv"], n'["send"] # 0
        PROVE  InSession(key["send"])' /\ n'["send"] <= n'["recv"] /\ key'["send"] = key["send"]
    BY <1>1, <1>2, <1>7 DEF CauseInv
  <1> QED
    BY <1>5, <1>6, <1>7 DEF InSession

\* The room, the network and a process that skips a message seal nothing.
LEMMA CausePassive ==
    ASSUME TypeInv, CauseInv, UNCHANGED procs, NEW r \in Roles, NEW x \in Control, Adds(r, {x})
    PROVE  CauseInv'
  <1>1. x.t # "sealed"
    BY DEF Control, Joined, Left, CloseMsg
  <1>2. UNCHANGED <<pc, sock, code, key, n, result>>
    BY DEF procs
  <1> QED
    BY <1>1, <1>2, CauseKept DEF OnSocket, CauseInv

\* A process leaves its socket.
LEMMA CauseHangup ==
    ASSUME TypeInv, CauseInv, NEW r \in Roles, OnSocket(r),
           NEW next \in {"Idle", "Dial", "Done", "Failed"}, Hangup(r, next)
    PROVE  CauseInv'
  <1> HIDE DEF Msgs
  <1>1. CloseMsg \in Msgs /\ CloseMsg.t # "sealed"
    BY MsgTypes DEF CloseMsg
  <1>2. Adds(r, {CloseMsg})
    BY <1>1, ProcessAdds DEF Hangup
  <1>3. /\ pc \in [Roles -> Points] /\ sock \in [Roles -> Names] /\ key \in [Roles -> Keys]
        /\ n \in [Roles -> Nat]
    BY DEF TypeInv
  <1>4. /\ pc' = [pc EXCEPT ![r] = next] /\ sock' = [sock EXCEPT ![r] = NoSocket]
        /\ key' = [key EXCEPT ![r] = NoKey] /\ n' = [n EXCEPT ![r] = 0]
    BY DEF Hangup
  <1>5. \A q \in Roles : q # r => pc'[q] = pc[q] /\ sock'[q] = sock[q] /\ key'[q] = key[q] /\ n'[q] = n[q]
    BY <1>3, <1>4
  <1>6. pc'[r] = next /\ sock'[r] = NoSocket
    BY <1>3, <1>4
  <1> HIDE DEF Keys, Names, Points
  <1>7. \A q \in Roles : ~OnSocket(q)' => sock'[q] = NoSocket
    BY <1>5, <1>6 DEF OnSocket, CauseInv
  <1>8. /\ OnSocket("recv")' => r # "recv"
        /\ pc'["send"] = "Session" => r # "send"
    BY <1>6 DEF OnSocket
  <1>9. "send" \in Roles /\ "recv" \in Roles
    BY DEF Roles
  <1> QED
    BY <1>1, <1>2, <1>5, <1>7, <1>8, <1>9, CauseKept DEF OnSocket

\* A process stays on its socket and seals nothing but a sender's first frame.
LEMMA CauseStay ==
    ASSUME TypeInv, CauseInv, NEW r \in Roles, OnSocket(r), NEW x \in Msgs, Adds(r, {x}),
           x.t = "sealed" => r = "send" /\ x.round = 1,
           NEW next \in {"Pake", "Confirm", "Session"}, pc' = [pc EXCEPT ![r] = next],
           pc[r] \in {"Wait", "Pake", "Confirm"}, sock' = sock,
           \A q \in Roles : q # r => key'[q] = key[q] /\ n'[q] = n[q],
           next = "Session" => n'[r] = 0
    PROVE  CauseInv'
  <1> HIDE DEF Msgs
  <1>1. pc'[r] = next /\ \A q \in Roles : q # r => pc'[q] = pc[q]
    BY DEF TypeInv
  <1>2. \A q \in Roles : OnSocket(q)' = OnSocket(q)
    BY <1>1 DEF OnSocket
  <1>3. \A q \in Roles : ~OnSocket(q)' => sock'[q] = NoSocket
    BY <1>2 DEF CauseInv
  <1>4. "send" \in Roles /\ "recv" \in Roles
    BY DEF Roles
  <1> QED
    BY <1>1, <1>2, <1>3, <1>4, CauseKept

\* A receiver answers the frame it has read.
LEMMA CauseReceiverRound ==
    ASSUME RelayInv, CauseInv, ReceiverRound
    PROVE  CauseInv'
  <1> HIDE DEF Msgs, Keys, Control
  <1> DEFINE i == n["recv"] + 1
             x == Sealed(key["recv"], i)
  <1>1. /\ pc["recv"] = "Session" /\ HasMsg("recv") /\ OnSocket("recv")
        /\ "recv" \in Roles /\ "send" \in Roles /\ TypeInv
        /\ pc \in [Roles -> Points] /\ key \in [Roles -> Keys] /\ n \in [Roles -> Nat]
    BY DEF ReceiverRound, OnSocket, RelayInv, TypeInv, Roles
  <1>2. n' = [n EXCEPT !["recv"] = i] /\ n'["recv"] = i /\ i \in Nat /\ n'["send"] = n["send"]
    BY <1>1 DEF ReceiverRound
  <1>3. /\ pc' = [pc EXCEPT !["recv"] = IF i = Rounds THEN "Linger" ELSE "Session"]
        /\ down' = Taken("recv") /\ up' = Post(up, sock["recv"], x)
        /\ sock' = sock /\ key' = key
    BY <1>2 DEF ReceiverRound, Exchange
  <1>4. pc'["recv"] \in {"Session", "Linger"} /\ pc'["send"] = pc["send"]
    BY <1>1, <1>3
  <1>5. x \in Msgs /\ x.key = key["recv"] /\ x.round = i /\ key["recv"].recv = sock["recv"]
    BY <1>1, <1>2, MsgTypes DEF TypeInv, Sealed
  <1>6. Adds("recv", {x})
    BY <1>1, <1>3, <1>5, ProcessAdds
  <1> HIDE DEF x
  <1>7. \A k : InSession(k)' <=> key["recv"] = k
    BY <1>3, <1>4 DEF InSession
  <1>8. \A k : InSession(k) <=> key["recv"] = k
    BY <1>1 DEF InSession
  <1>9. i > n["recv"] /\ n["recv"] \in Nat
    BY <1>1
  <1>10. ASSUME NEW m \in Msgs, UnderWay("recv", m)', m.t = "sealed", m.key.recv = sock'["recv"]
         PROVE  InSession(m.key)' /\ m.round <= n'["recv"]
    <2>1. UnderWay("recv", m) \/ m = x
      BY <1>1, <1>6, <1>10, NotControl DEF Adds
    <2>2. CASE m = x
      BY <1>2, <1>5, <1>7, <2>2
    <2>3. CASE UnderWay("recv", m)
      <3>1. InSession(m.key) /\ m.round <= n["recv"] /\ m.round \in Nat
        BY <1>1, <1>3, <1>10, <2>3, MsgParts DEF CauseInv
      <3> QED
        BY <1>2, <1>7, <1>8, <1>9, <3>1
    <2> QED
      BY <2>1, <2>2, <2>3
  <1>11. ASSUME NEW m \in Msgs, UnderWay("send", m)', m.t = "sealed", m.key.recv = sock'["recv"]
         PROVE  m.round <= 1 \/ (InSession(m.key)' /\ m.round <= n'["recv"] + 1)
    <2>1. UnderWay("send", m)
      BY <1>1, <1>6, <1>11, NotControl DEF Adds
    <2>2. m.round <= 1 \/ (InSession(m.key) /\ m.round <= n["recv"] + 1)
      BY <1>1, <1>3, <1>11, <2>1 DEF CauseInv
    <2>3. m.round \in Nat
      BY <1>11, MsgParts
    <2> QED
      BY <1>2, <1>7, <1>8, <1>9, <2>2, <2>3
  <1>12. ASSUME pc'["send"] = "Session", key'["send"].recv = sock'["recv"]
         PROVE  n'["send"] = 0 \/ (InSession(key["send"])' /\ n'["send"] <= n'["recv"])
    <2>1. n["send"] = 0 \/ (InSession(key["send"]) /\ n["send"] <= n["recv"])
      BY <1>1, <1>3, <1>4, <1>12 DEF CauseInv
    <2>2. InSession(key["send"]) => InSession(key["send"])'
      BY <1>3, <1>4 DEF InSession
    <2> QED
      BY <1>1, <1>2, <1>9, <2>1, <2>2
  <1>13. \A q \in Roles : ~OnSocket(q)' => sock'[q] = NoSocket
    BY <1>1, <1>3, <1>4 DEF OnSocket, CauseInv, Roles
  <1> QED
    BY <1>10, <1>11, <1>12, <1>13 DEF CauseInv

\* A sender seals the next frame when it has read the answer to the last.
LEMMA CauseSenderRound ==
    ASSUME RelayInv, CauseInv, SenderRound
    PROVE  CauseInv'
  <1> HIDE DEF Msgs, Keys, Control
  <1> DEFINE i == n["send"] + 1
             x == Sealed(key["send"], i + 1)
  <1>1. /\ pc["send"] = "Session" /\ HasMsg("send") /\ OnSocket("send") /\ Opens("send")
        /\ "recv" \in Roles /\ "send" \in Roles /\ TypeInv
        /\ pc \in [Roles -> Points] /\ key \in [Roles -> Keys] /\ n \in [Roles -> Nat]
    BY DEF SenderRound, OnSocket, RelayInv, TypeInv, Roles
  <1>2. CASE Hangup("send", "Idle")
    BY <1>1, <1>2, CauseHangup
  <1>3. CASE /\ n' = [n EXCEPT !["send"] = @ + 1]
             /\ Exchange("send", "Session", Sealed(key["send"], n["send"] + 2))
             /\ UNCHANGED key
    <2>1. /\ n'["send"] = i /\ n'["recv"] = n["recv"] /\ i \in Nat /\ n["send"] + 2 = i + 1
          /\ n["recv"] \in Nat
      BY <1>1, <1>3
    <2>2. /\ pc' = [pc EXCEPT !["send"] = "Session"] /\ down' = Taken("send")
          /\ up' = Post(up, sock["send"], x) /\ sock' = sock /\ key' = key
      BY <1>3, <2>1 DEF Exchange
    <2>3. pc' = pc
      BY <1>1, <2>2
    <2>4. x \in Msgs /\ x.key = key["send"] /\ x.round = i + 1
      BY <1>1, <2>1, MsgTypes DEF Sealed
    <2>5. Adds("send", {x})
      BY <1>1, <2>2, <2>4, ProcessAdds
    <2> HIDE DEF x
    <2>6. /\ Msg("send") \in Msgs /\ UnderWay("recv", Msg("send"))
          /\ Msg("send").t = "sealed" /\ Msg("send").key = key["send"] /\ Msg("send").round = i
      BY <1>1, NextMsg DEF Other, Opens
    <2>7. OnSocket("recv") /\ key["send"].recv = sock["recv"] => InSession(key["send"]) /\ i <= n["recv"]
      BY <2>6 DEF CauseInv
    <2> HIDE DEF i
    <2>8. \A k : InSession(k)' <=> InSession(k)
      BY <2>2, <2>3 DEF InSession
    <2>9. OnSocket("recv")' = OnSocket("recv")
      BY <2>3 DEF OnSocket
    <2>10. ASSUME OnSocket("recv"), NEW m \in Msgs, UnderWay("recv", m)', m.t = "sealed", m.key.recv = sock'["recv"]
          PROVE  InSession(m.key)' /\ m.round <= n'["recv"]
      <3>1. UnderWay("recv", m)
        BY <1>1, <2>5, <2>10, NotControl DEF Adds
      <3> QED
        BY <2>1, <2>2, <2>8, <2>10, <3>1 DEF CauseInv
    <2>11. ASSUME OnSocket("recv"), NEW m \in Msgs, UnderWay("send", m)', m.t = "sealed", m.key.recv = sock'["recv"]
           PROVE  m.round <= 1 \/ (InSession(m.key)' /\ m.round <= n'["recv"] + 1)
      <3>1. UnderWay("send", m) \/ m = x
        BY <1>1, <2>5, <2>11, NotControl DEF Adds
      <3>2. CASE m = x
        BY <2>1, <2>2, <2>4, <2>7, <2>8, <2>11, <3>2
      <3>3. CASE UnderWay("send", m)
        BY <2>1, <2>2, <2>8, <2>11, <3>3 DEF CauseInv
      <3> QED
        BY <3>1, <3>2, <3>3
    <2>12. ASSUME OnSocket("recv"), key'["send"].recv = sock'["recv"]
           PROVE  InSession(key["send"])' /\ n'["send"] <= n'["recv"]
      BY <2>1, <2>2, <2>3, <2>7, <2>12 DEF InSession
    <2>13. \A q \in Roles : ~OnSocket(q)' => sock'[q] = NoSocket
      BY <2>2, <2>3 DEF OnSocket, CauseInv
    <2> QED
      BY <2>9, <2>10, <2>11, <2>12, <2>13 DEF CauseInv
  <1> QED
    BY <1>2, <1>3 DEF SenderRound

\* The sockets a sealed frame under way refers to are in use, and so are a key's.
LEMMA UsedReceivers ==
    ASSUME TypeInv
    PROVE  /\ \A q \in Roles, m \in Msgs :
                 UnderWay(q, m) /\ m.t = "sealed" => m.key.recv \in InUse
           /\ \A r \in Roles : key[r].recv \in InUse
  <1> HIDE DEF Msgs, Keys
  <1>1. ASSUME NEW s \in Sockets, NEW m \in Msgs, m.t = "sealed",
               In(m, up[s]) \/ In(m, down[s])
        PROVE  m.key.recv \in InUse
    <2>1. up[s] \in Seq(Msgs) /\ down[s] \in Seq(Msgs)
      BY DEF TypeInv
    <2>2. m \in Range(up[s]) \cup Range(down[s])
      BY <1>1, <2>1 DEF In, Range
    <2>3. m.key.recv \in MsgSockets(m)
      BY <1>1 DEF MsgSockets, KeySockets
    <2>4. m \in UNION {Range(up[t]) \cup Range(down[t]) : t \in Sockets}
      BY <2>2, Zenon
    <2>5. m.key.recv \in UNION {MsgSockets(x) : x \in
              UNION {Range(up[t]) \cup Range(down[t]) : t \in Sockets}}
      BY <2>3, <2>4, Zenon
    <2> QED
      BY <2>5, Zenon DEF InUse
  <1>2. ASSUME NEW q \in Roles, NEW m \in Msgs, UnderWay(q, m), m.t = "sealed"
        PROVE  m.key.recv \in InUse
    <2>1. Named(q) \subseteq Sockets /\ Named(Other(q)) \subseteq Sockets
      BY DEF Named, Sockets
    <2> QED
      BY <1>1, <1>2, <2>1 DEF UnderWay
  <1>3. ASSUME NEW r \in Roles PROVE key[r].recv \in InUse
    <2>1. key[r].recv \in KeySockets(key[r])
      BY DEF KeySockets
    <2>2. key[r].recv \in UNION {KeySockets(key[q]) : q \in Roles}
      BY <2>1, Zenon
    <2> QED
      BY <2>2, Zenon DEF InUse
  <1> QED
    BY <1>2, <1>3

\* A receiver dials under a name that no sealed frame refers to.
LEMMA CauseDial ==
    ASSUME RelayInv, CauseInv, NEW r \in Roles, Dial(r)
    PROVE  CauseInv'
  <1> HIDE DEF Msgs, Keys, Control
  <1> DEFINE s == CHOOSE t \in Fresh(r) : TRUE
  <1>1. /\ s \in Named(r) \ InUse /\ Join(s, r) /\ up' = [up EXCEPT ![s] = <<>>]
        /\ sock' = [sock EXCEPT ![r] = s] /\ pc' = [pc EXCEPT ![r] = "Wait"]
        /\ UNCHANGED <<code, key, n, result>> /\ pc[r] = "Dial"
    BY FreshSocket DEF Dial
  <1> HIDE DEF s
  <1>2. /\ TypeInv /\ {} \in SUBSET Msgs
        /\ pc \in [Roles -> Points] /\ sock \in [Roles -> Names]
        /\ "recv" \in Roles /\ "send" \in Roles
    BY DEF RelayInv, TypeInv, Roles
  <1>3. Adds(r, {})
    BY <1>1, <1>2, DialAdds
  <1>4. /\ pc'[r] = "Wait" /\ sock'[r] = s
        /\ \A q \in Roles : q # r => pc'[q] = pc[q] /\ sock'[q] = sock[q]
    BY <1>1, <1>2
  <1>5. \A q \in Roles : ~OnSocket(q)' => sock'[q] = NoSocket
    BY <1>4 DEF OnSocket, CauseInv
  <1>6. CASE r = "send"
    BY <1>1, <1>2, <1>3, <1>4, <1>5, <1>6, CauseKept DEF OnSocket
  <1>7. CASE r = "recv"
    <2>1. \A q \in Roles, m \in Msgs : UnderWay(q, m)' /\ m.t = "sealed" => m.key.recv # s
      <3> SUFFICES ASSUME NEW q \in Roles, NEW m \in Msgs, UnderWay(q, m)', m.t = "sealed"
                   PROVE  m.key.recv # s
        OBVIOUS
      <3>1. UnderWay(q, m)
        BY <1>3, NotControl DEF Adds
      <3> QED
        BY <1>1, <1>2, <3>1, UsedReceivers
    <2>2. key'["send"].recv # s
      BY <1>1, <1>2, UsedReceivers
    <2> QED
      BY <1>2, <1>4, <1>5, <1>7, <2>1, <2>2 DEF CauseInv
  <1> QED
    BY <1>6, <1>7 DEF Roles

\* Every step keeps it.
LEMMA CauseStep == RelayInv /\ CauseInv /\ [Next]_vars => CauseInv'
  <1> SUFFICES ASSUME RelayInv, CauseInv, [Next]_vars PROVE CauseInv'
    OBVIOUS
  <1> HIDE DEF RelayInv, CauseInv
  <1>1. /\ TypeInv /\ CloseMsg \in Control /\ "send" \in Roles /\ "recv" \in Roles
        /\ CloseMsg \in Msgs
    BY MsgTypes DEF RelayInv, Control, Roles
  <1>2. ASSUME Adds("send", {}), UNCHANGED procs PROVE CauseInv'
    <2>1. Adds("send", {CloseMsg})
      BY <1>2 DEF Adds
    <2> QED
      BY <1>1, <1>2, <2>1, CausePassive
  <1>3. ASSUME NEW s \in Sockets, RoomHandles(s) \/ RoomReaps(s) PROVE CauseInv'
    <2>1. UNCHANGED procs
      BY <1>3 DEF RoomHandles, RoomReaps
    <2> QED
      BY <1>1, <1>2, <1>3, <2>1, RoomHandlesAdds, RoomAdds
  <1>4. ASSUME Expire \/ \E r \in Roles : Break(r) PROVE CauseInv'
    <2>1. UNCHANGED procs
      BY <1>4 DEF Expire, Break
    <2> QED
      BY <1>1, <1>2, <1>4, <2>1, RoomAdds
  <1>5. ASSUME NEW r \in Roles, Skip(r) PROVE CauseInv'
    <2>1. OnSocket(r) /\ HasMsg(r) /\ down' = Taken(r) /\ up' = up /\ UNCHANGED procs
      BY <1>5 DEF Skip
    <2>2. Adds(r, {CloseMsg})
      BY <1>1, <2>1, ProcessAdds
    <2> QED
      BY <1>1, <2>1, <2>2, CausePassive
  <1>6. ASSUME NEW r \in Roles, Lost(r) \/ Timeout(r) \/ Mistaken(r) \/ BadFrame(r) PROVE CauseInv'
    <2>1. OnSocket(r)
      BY <1>6 DEF Lost, Timeout, Mistaken, BadFrame, OnSocket, Handshaking
    <2>2. PICK next \in {"Idle", "Dial", "Done", "Failed"} : Hangup(r, next)
      BY <1>6 DEF Lost, Timeout, Mistaken, BadFrame, Rearm
    <2> QED
      BY <1>1, <2>1, <2>2, CauseHangup
  <1>7. CASE LingerEnd \/ SenderKilled
    BY <1>1, <1>7, CauseHangup DEF LingerEnd, SenderKilled, OnSocket
  <1>8. CASE StartRight \/ StartWrong \/ StartHurried
    <2>1. PICK c : SendStart(c)
      BY <1>8 DEF StartRight, StartWrong, StartHurried
    <2>2. /\ pc["send"] = "Idle" /\ pc' = [pc EXCEPT !["send"] = "Dial"]
          /\ UNCHANGED <<up, down, sock, key, n>> /\ pc \in [Roles -> Points]
      BY <1>1, <2>1 DEF SendStart, room, TypeInv
    <2>3. pc'["send"] = "Dial" /\ pc'["recv"] = pc["recv"]
      BY <2>2 DEF Roles
    <2>4. Adds("send", {})
      BY <1>1, <2>2 DEF Adds, UnderWay, TypeInv
    <2>5. \A q \in Roles : ~OnSocket(q)' => sock'[q] = NoSocket
      BY <2>2, <2>3 DEF OnSocket, CauseInv, Roles
    <2> QED
      BY <1>1, <2>2, <2>3, <2>4, <2>5, CauseKept DEF OnSocket
  <1>9. ASSUME NEW r \in Roles, GetJoined(r) PROVE CauseInv'
    <2> DEFINE x == PakeMsg(sock[r])
    <2>1. /\ pc[r] = "Wait" /\ HasMsg(r) /\ OnSocket(r)
          /\ pc' = [pc EXCEPT ![r] = "Pake"] /\ down' = Taken(r) /\ up' = Post(up, sock[r], x)
          /\ UNCHANGED <<sock, key, n>>
      BY <1>9 DEF GetJoined, Exchange, OnSocket
    <2>2. x \in Msgs /\ x.t # "sealed"
      BY <1>1, MsgTypes DEF PakeMsg, TypeInv
    <2>3. Adds(r, {x})
      BY <1>1, <2>1, <2>2, ProcessAdds
    <2> HIDE DEF x, Msgs
    <2> QED
      BY <1>1, <2>1, <2>2, <2>3, CauseStay
  <1>10. ASSUME NEW r \in Roles, GetPake(r) PROVE CauseInv'
    <2> DEFINE k == KeyOf(r, sock[r], Msg(r).of)
               x == ConfirmMsg(k)
    <2>1. /\ pc[r] = "Pake" /\ HasMsg(r) /\ OnSocket(r) /\ Msg(r).t = "pake"
          /\ pc' = [pc EXCEPT ![r] = "Confirm"] /\ down' = Taken(r) /\ up' = Post(up, sock[r], x)
          /\ key' = [key EXCEPT ![r] = k]
          /\ UNCHANGED <<sock, n>>
      BY <1>10 DEF GetPake, Exchange, OnSocket
    <2>2. /\ sock[r] \in Names /\ code[r] \in {RightCode, WrongCode} /\ key \in [Roles -> Keys]
      BY <1>1 DEF TypeInv
    <2>3. Msg(r).of \in Names
      BY <1>1, <2>1, NextMsg, MsgParts
    <2>4. k \in Keys
      BY <2>2, <2>3 DEF KeyOf, Keys, Roles
    <2>5. \A q \in Roles : q # r => key'[q] = key[q]
      BY <2>1, <2>2
    <2> HIDE DEF k, Msgs, Keys
    <2>6. x \in Msgs /\ x.t # "sealed"
      BY <2>4, MsgTypes DEF ConfirmMsg
    <2>7. Adds(r, {x})
      BY <1>1, <2>1, <2>6, ProcessAdds
    <2> HIDE DEF x
    <2> QED
      BY <1>1, <2>1, <2>5, <2>6, <2>7, CauseStay
  <1>11. ASSUME NEW r \in Roles, GetConfirm(r) PROVE CauseInv'
    <2> DEFINE x == Sealed(key[r], 1)
    <2>1. pc[r] = "Confirm" /\ HasMsg(r) /\ OnSocket(r)
      BY <1>11 DEF GetConfirm, OnSocket
    <2>2. CASE Rearm(r)
      BY <1>1, <2>1, <2>2, CauseHangup DEF Rearm
    <2>3. CASE ~Rearm(r)
      <3>1. /\ n' = [n EXCEPT ![r] = 0] /\ pc' = [pc EXCEPT ![r] = "Session"] /\ down' = Taken(r)
            /\ up' = IF r = "send" THEN Post(up, sock[r], x) ELSE up
            /\ UNCHANGED <<sock, key>>
        BY <1>11, <2>3 DEF GetConfirm
      <3>2. n'[r] = 0 /\ \A q \in Roles : q # r => key'[q] = key[q] /\ n'[q] = n[q]
        BY <1>1, <3>1 DEF TypeInv
      <3> HIDE DEF Msgs, Keys
      <3>3. x \in Msgs /\ x.round = 1
        BY <1>1, MsgTypes DEF Sealed, TypeInv
      <3> HIDE DEF x
      <3>4. CASE r = "send"
        <4>1. Adds(r, {x})
          BY <1>1, <2>1, <3>1, <3>3, <3>4, ProcessAdds
        <4> QED
          BY <1>1, <2>1, <3>1, <3>2, <3>3, <3>4, <4>1, CauseStay
      <3>5. CASE r = "recv"
        <4>1. Adds(r, {CloseMsg}) /\ CloseMsg.t # "sealed"
          BY <1>1, <2>1, <3>1, <3>5, ProcessAdds DEF CloseMsg
        <4> QED
          BY <1>1, <2>1, <3>1, <3>2, <3>5, <4>1, CauseStay
      <3> QED
        BY <3>4, <3>5 DEF Roles
    <2> QED
      BY <2>2, <2>3
  <1>12. ASSUME NEW r \in Roles, Steps(r) PROVE CauseInv'
    BY <1>5, <1>6, <1>9, <1>10, <1>11, <1>12, CauseDial, Zenon DEF Steps
  <1>13. CASE UNCHANGED vars
    BY <1>13 DEF vars, room, procs, CauseInv, UnderWay, OnSocket, InSession
  <1> QED
    BY <1>1, <1>3, <1>4, <1>6, <1>7, <1>8, <1>12, <1>13, CauseReceiverRound,
       CauseSenderRound, Zenon DEF Next, RoomSteps, ReceiverSteps, SenderSteps

-----------------------------------------------------------------------------
(* Order.                                                                  *)

\* p has no frame that q has not, and in the same order.
Thins(p, q) ==
    /\ Sorted(q) => Sorted(p)
    /\ \A m \in Msgs : In(m, p) /\ IsFrame(m) => In(m, q)

\* What happens to a queue, apart from a frame that is added.
LEMMA ThinQueues ==
    ASSUME NEW q \in Seq(Msgs)
    PROVE  /\ Thins(q, q) /\ Thins(<<>>, q) /\ Thins(<<Joined>>, q)
           /\ q # <<>> => Thins(Tail(q), q)
           /\ \A x \in Control : Thins(Append(q, x), q)
           /\ \A k \in 0..Len(q) : Thins(SubSeq(q, 1, k), q)
  <1> HIDE DEF Msgs
  <1>1. Thins(q, q)
    BY DEF Thins
  <1>2. Thins(<<>>, q)
    BY DEF Thins, Sorted, In
  <1>3. Thins(<<Joined>>, q)
    BY DEF Thins, Sorted, In, IsFrame, Joined
  <1>4. ASSUME q # <<>> PROVE Thins(Tail(q), q)
    <2>1. /\ Len(q) \in Nat /\ Len(Tail(q)) = Len(q) - 1
          /\ \A i \in 1..Len(Tail(q)) : i + 1 \in 1..Len(q) /\ Tail(q)[i] = q[i + 1]
      BY <1>4
    <2>2. Sorted(q) => Sorted(Tail(q))
      BY <2>1 DEF Sorted
    <2>3. \A m : In(m, Tail(q)) => In(m, q)
      BY <1>4, InTail
    <2> QED
      BY <2>2, <2>3 DEF Thins
  <1>5. ASSUME NEW x \in Control PROVE Thins(Append(q, x), q)
    <2>1. /\ Len(q) \in Nat /\ Len(Append(q, x)) = Len(q) + 1 /\ Append(q, x)[Len(q) + 1] = x
          /\ \A i \in 1..Len(q) : Append(q, x)[i] = q[i]
      OBVIOUS
    <2>2. ~IsFrame(x) /\ x \in Msgs
      BY NotControl, MsgTypes DEF IsFrame, Control
    <2>3. Sorted(q) => Sorted(Append(q, x))
      BY <2>1, <2>2 DEF Sorted
    <2>4. \A m : In(m, Append(q, x)) => In(m, q) \/ m = x
      BY <2>2, InAppend
    <2> QED
      BY <2>2, <2>3, <2>4 DEF Thins
  <1>6. ASSUME NEW k \in 0..Len(q) PROVE Thins(SubSeq(q, 1, k), q)
    <2>1. /\ Len(SubSeq(q, 1, k)) = k /\ Len(q) \in Nat
          /\ \A i \in 1..k : SubSeq(q, 1, k)[i] = q[i]
      BY SubSeqProperties
    <2>2. Sorted(q) => Sorted(SubSeq(q, 1, k))
      <3> DEFINE z == SubSeq(q, 1, k)
      <3>1. Len(z) = k /\ Len(q) \in Nat /\ \A i \in 1..k : z[i] = q[i] /\ i \in 1..Len(q)
        BY <2>1
      <3> HIDE DEF z
      <3>2. Sorted(q) => Sorted(z)
        BY <3>1 DEF Sorted
      <3> QED
        BY <3>2 DEF z
    <2>3. \A m : In(m, SubSeq(q, 1, k)) => In(m, q)
      BY InSubSeq
    <2> QED
      BY <2>2, <2>3 DEF Thins
  <1> QED
    BY <1>1, <1>2, <1>3, <1>4, <1>5, <1>6

\* A step adds no frame of a sender's, and moves none.
Thin ==
    /\ \A s \in SendSockets : Thins(up'[s], up[s])
    /\ \A r \in RecvSockets : Thins(down'[r], down[r])

\* Then it adds none to those under way, and they stay in order.
LEMMA ThinKeeps ==
    ASSUME Thin
    PROVE  /\ \A m \in Msgs : UnderWay("send", m)' /\ IsFrame(m) => UnderWay("send", m)
           /\ \A s \in SendSockets, m \in Msgs : In(m, up'[s]) /\ IsFrame(m) => In(m, up[s])
           /\ OrderInv => OrderInv'
  <1> HIDE DEF Msgs
  <1>1. \A s \in SendSockets, m \in Msgs : In(m, up'[s]) /\ IsFrame(m) => In(m, up[s])
    BY DEF Thin, Thins
  <1>2. \A r \in RecvSockets, m \in Msgs : In(m, down'[r]) /\ IsFrame(m) => In(m, down[r])
    BY DEF Thin, Thins
  <1>3. ASSUME NEW m \in Msgs, UnderWay("send", m)', IsFrame(m) PROVE UnderWay("send", m)
    <2>1. (\E s \in SendSockets : In(m, up'[s])) \/ (\E r \in RecvSockets : In(m, down'[r]))
      BY <1>3 DEF UnderWay, Named, Other, In
    <2> QED
      BY <1>1, <1>2, <1>3, <2>1 DEF UnderWay, Named, Other
  <1>4. ASSUME OrderInv PROVE OrderInv'
    <2>1. \A s \in SendSockets : Sorted(up[s])'
      BY <1>4 DEF OrderInv, Thin, Thins, Sorted
    <2>2. \A r \in RecvSockets : Sorted(down[r])'
      BY <1>4 DEF OrderInv, Thin, Thins, Sorted
    <2>3. \A r \in RecvSockets, s \in SendSockets : Before(down'[r], up'[s])
      BY <1>1, <1>2, <1>4 DEF OrderInv, Before
    <2> QED
      BY <2>1, <2>2, <2>3 DEF OrderInv, Before, In
  <1> QED
    BY <1>1, <1>3, <1>4

\* A sender adds a frame behind all others.
LEMMA OrderPost ==
    ASSUME TypeInv, OrderInv, NEW s \in SendSockets, NEW x \in Msgs, IsFrame(x),
           \A m \in Msgs : UnderWay("send", m) /\ IsFrame(m) => Rank(m) < Rank(x),
           up' = [up EXCEPT ![s] = Append(@, x)],
           \A r \in RecvSockets : down'[r] = down[r]
    PROVE  OrderInv'
  <1> HIDE DEF Msgs
  <1> DEFINE q == up[s]
  <1>1. /\ q \in Seq(Msgs) /\ s \in Sockets /\ up'[s] = Append(q, x)
        /\ \A t \in SendSockets : t # s => up'[t] = up[t]
    BY DEF TypeInv, Sockets
  <1>2. /\ Len(q) \in Nat /\ Len(Append(q, x)) = Len(q) + 1 /\ Append(q, x)[Len(q) + 1] = x
        /\ \A i \in 1..Len(q) : Append(q, x)[i] = q[i] /\ q[i] \in Msgs /\ In(q[i], q)
    BY <1>1 DEF In
  <1>3. \A m \in Msgs : In(m, q) => UnderWay("send", m)
    BY DEF UnderWay, Named
  <1>4. Sorted(q)
    BY DEF OrderInv
  <1>5. \A m : In(m, Append(q, x)) => In(m, q) \/ m = x
    BY <1>1, InAppend
  <1> HIDE DEF q
  <1>6. Sorted(Append(q, x))
    <2> SUFFICES ASSUME NEW i \in 1..Len(Append(q, x)), NEW j \in 1..Len(Append(q, x)), i < j,
                        IsFrame(Append(q, x)[i]), IsFrame(Append(q, x)[j])
                 PROVE  Rank(Append(q, x)[i]) < Rank(Append(q, x)[j])
      BY DEF Sorted
    <2>1. i \in 1..Len(q) /\ (j \in 1..Len(q) \/ j = Len(q) + 1)
      BY <1>2
    <2>2. CASE j \in 1..Len(q)
      BY <1>2, <1>4, <2>1, <2>2 DEF Sorted
    <2>3. CASE j = Len(q) + 1
      BY <1>2, <1>3, <2>1, <2>3
    <2> QED
      BY <2>1, <2>2, <2>3
  <1>7. \A t \in SendSockets : Sorted(up'[t])
    BY <1>1, <1>6 DEF OrderInv
  <1>8. \A r \in RecvSockets : Sorted(down'[r])
    BY DEF OrderInv
  <1>9. ASSUME NEW r \in RecvSockets, NEW t \in SendSockets PROVE Before(down'[r], up'[t])
    <2>1. Before(down[r], up[t]) /\ down'[r] = down[r]
      BY DEF OrderInv
    <2>2. CASE t # s
      BY <1>1, <2>1, <2>2
    <2>3. CASE t = s
      <3>1. \A m \in Msgs : In(m, down[r]) => UnderWay("send", m)
        BY DEF UnderWay, Named, Other
      <3> QED
        BY <1>1, <1>5, <2>1, <2>3, <3>1 DEF Before, q
    <2> QED
      BY <2>2, <2>3
  <1> QED
    BY <1>7, <1>8, <1>9 DEF OrderInv, Sorted, Before, In

\* The room passes a sender's frame on.
LEMMA OrderForward ==
    ASSUME TypeInv, OrderInv, NEW s \in SendSockets, up[s] # <<>>,
           up' = [up EXCEPT ![s] = Tail(@)],
           NEW t \in RecvSockets, down' = [down EXCEPT ![t] = Append(@, Head(up[s]))],
           \A u \in SendSockets, m \in Msgs : In(m, up[u]) /\ IsFrame(m) /\ IsFrame(Head(up[s])) => u = s
    PROVE  OrderInv'
  <1> HIDE DEF Msgs
  <1> DEFINE q == up[s]
             p == down[t]
             x == Head(q)
  <1>1. /\ q \in Seq(Msgs) /\ s \in Sockets /\ up'[s] = Tail(q) /\ q # <<>>
        /\ \A u \in SendSockets : u # s => up'[u] = up[u]
        /\ p \in Seq(Msgs) /\ t \in Sockets /\ down'[t] = Append(p, x)
        /\ \A r \in RecvSockets : r # t => down'[r] = down[r]
    BY DEF TypeInv, Sockets
  <1>2. /\ Thins(Tail(q), q) /\ x \in Msgs /\ In(x, q)
    BY <1>1, ThinQueues, InTail
  <1>3. /\ Len(q) \in Nat /\ Len(Tail(q)) = Len(q) - 1 /\ x = q[1] /\ 1 \in 1..Len(q)
        /\ \A i \in 1..Len(Tail(q)) : i + 1 \in 1..Len(q) /\ Tail(q)[i] = q[i + 1]
    BY <1>1
  <1>4. Sorted(q) /\ Sorted(p) /\ Before(p, q)
    BY DEF OrderInv
  <1>5. \A u \in SendSockets, m \in Msgs : In(m, up[u]) /\ IsFrame(m) /\ IsFrame(x) => u = s
    OBVIOUS
  <1> HIDE DEF q, p, x
  <1>6. \A m \in Msgs : In(m, Tail(q)) /\ IsFrame(m) /\ IsFrame(x) => Rank(x) < Rank(m)
    <2> SUFFICES ASSUME NEW i \in 1..Len(Tail(q)), IsFrame(Tail(q)[i]), IsFrame(x)
                 PROVE  Rank(x) < Rank(Tail(q)[i])
      BY DEF In
    <2>1. 1 < i + 1
      BY <1>3
    <2> QED
      BY <1>3, <1>4, <2>1 DEF Sorted
  <1>7. /\ Len(p) \in Nat /\ Len(Append(p, x)) = Len(p) + 1 /\ Append(p, x)[Len(p) + 1] = x
        /\ \A i \in 1..Len(p) : Append(p, x)[i] = p[i] /\ p[i] \in Msgs /\ In(p[i], p)
    BY <1>1 DEF In
  <1>8. Sorted(Append(p, x))
    <2> SUFFICES ASSUME NEW i \in 1..Len(Append(p, x)), NEW j \in 1..Len(Append(p, x)), i < j,
                        IsFrame(Append(p, x)[i]), IsFrame(Append(p, x)[j])
                 PROVE  Rank(Append(p, x)[i]) < Rank(Append(p, x)[j])
      BY DEF Sorted
    <2>1. i \in 1..Len(p) /\ (j \in 1..Len(p) \/ j = Len(p) + 1)
      BY <1>7
    <2>2. CASE j \in 1..Len(p)
      BY <1>4, <1>7, <2>1, <2>2 DEF Sorted
    <2>3. CASE j = Len(p) + 1
      BY <1>2, <1>4, <1>7, <2>1, <2>3 DEF Before
    <2> QED
      BY <2>1, <2>2, <2>3
  <1>9. \A u \in SendSockets : Sorted(up'[u])
    BY <1>1, <1>2, <1>4 DEF OrderInv, Thins
  <1>10. \A r \in RecvSockets : Sorted(down'[r])
    BY <1>1, <1>8 DEF OrderInv
  <1>11. \A u \in SendSockets, m \in Msgs : In(m, up'[u]) /\ IsFrame(m) => In(m, up[u])
    BY <1>1, <1>2 DEF Thins, q
  <1>12. \A m : In(m, Append(p, x)) => In(m, p) \/ m = x
    BY <1>1, <1>2, InAppend
  <1>13. ASSUME NEW r \in RecvSockets, NEW u \in SendSockets PROVE Before(down'[r], up'[u])
    <2> SUFFICES ASSUME NEW m \in Msgs, NEW y \in Msgs, In(m, down'[r]), In(y, up'[u]),
                        IsFrame(m), IsFrame(y)
                 PROVE  Rank(m) < Rank(y)
      BY DEF Before
    <2>1. Before(down[r], up[u]) /\ In(y, up[u])
      BY <1>11 DEF OrderInv
    <2>2. CASE In(m, down[r])
      BY <2>1, <2>2 DEF Before
    <2>3. CASE ~In(m, down[r])
      <3>1. r = t /\ m = x
        BY <1>1, <1>12, <2>3 DEF p
      <3>2. u = s /\ In(y, Tail(q))
        BY <1>1, <1>5, <2>1, <3>1
      <3> QED
        BY <1>6, <3>1, <3>2
    <2> QED
      BY <2>2, <2>3
  <1> QED
    BY <1>9, <1>10, <1>13 DEF OrderInv, Sorted, Before, In

-----------------------------------------------------------------------------
(* The steps that add no frame of a sender's.                              *)

\* The queues of a role that matter, apart from those of the other.
LEMMA Sides ==
    /\ SendSockets \subseteq Sockets /\ RecvSockets \subseteq Sockets
    /\ \A s \in Sockets : s \in SendSockets <=> s \notin RecvSockets
    /\ Named("send") = SendSockets /\ Named("recv") = RecvSockets
    /\ \A s \in SendSockets : role(s) = "send"
    /\ \A s \in RecvSockets : role(s) = "recv"
  BY RoomAssumption DEF Sockets, Named, role

\* A process takes a message, or drops all of them, and posts what is no frame of a
\* sender's.
LEMMA ThinProcess ==
    ASSUME TypeInv, NEW r \in Roles, OnSocket(r), NEW x \in Msgs,
           up' = up \/ (up' = Post(up, sock[r], x) /\ (r = "recv" \/ x \in Control)),
           (HasMsg(r) /\ down' = Taken(r)) \/ down' = [down EXCEPT ![sock[r]] = <<>>]
    PROVE  Thin
  <1> HIDE DEF Msgs, Control
  <1> DEFINE s == sock[r]
  <1>1. /\ up \in [Sockets -> Seq(Msgs)] /\ down \in [Sockets -> Seq(Msgs)]
        /\ s \in Named(r) /\ s \in Sockets
    BY RoleOf DEF TypeInv
  <1>2. /\ \/ up' = up
           \/ up' = [up EXCEPT ![s] = Append(@, x)] /\ (r = "recv" \/ x \in Control)
        /\ (down[s] # <<>> /\ down' = [down EXCEPT ![s] = Tail(@)])
              \/ down' = [down EXCEPT ![s] = <<>>]
    BY DEF Post, Taken, HasMsg
  <1>3. r = "recv" => s \notin SendSockets
    BY <1>1, Sides
  <1> HIDE DEF s
  <1>4. ASSUME NEW t \in SendSockets PROVE Thins(up'[t], up[t])
    <2>1. t \in Sockets /\ up[t] \in Seq(Msgs)
      BY <1>1, Sides
    <2>2. up'[t] = up[t] \/ (x \in Control /\ up'[t] = Append(up[t], x))
      BY <1>1, <1>2, <1>3, <2>1
    <2> QED
      BY <2>1, <2>2, ThinQueues
  <1>5. ASSUME NEW t \in RecvSockets PROVE Thins(down'[t], down[t])
    <2>1. t \in Sockets /\ down[t] \in Seq(Msgs)
      BY <1>1, Sides
    <2>2. down'[t] = down[t] \/ down'[t] = <<>> \/ (down[t] # <<>> /\ down'[t] = Tail(down[t]))
      BY <1>1, <1>2, <2>1
    <2> QED
      BY <2>1, <2>2, ThinQueues
  <1> QED
    BY <1>4, <1>5 DEF Thin

\* A join.
LEMMA ThinDial ==
    ASSUME TypeInv, NEW r \in Roles, NEW s \in Named(r), Join(s, r),
           up' = [up EXCEPT ![s] = <<>>]
    PROVE  Thin
  <1> HIDE DEF Msgs, Control
  <1>1. /\ up \in [Sockets -> Seq(Msgs)] /\ down \in [Sockets -> Seq(Msgs)]
        /\ s \in Sockets /\ CloseMsg \in Control /\ Joined \in Control
    BY RoleOf DEF TypeInv, Control
  <1>2. \A t \in Sockets : down'[t] \in {<<Joined>>, <<>>, Append(down[t], CloseMsg),
                                         Append(down[t], Joined), down[t]}
    BY DEF Join
  <1>3. ASSUME NEW t \in SendSockets PROVE Thins(up'[t], up[t])
    <2>1. t \in Sockets /\ up[t] \in Seq(Msgs) /\ (up'[t] = up[t] \/ up'[t] = <<>>)
      BY <1>1, Sides
    <2> QED
      BY <2>1, ThinQueues
  <1>4. ASSUME NEW t \in RecvSockets PROVE Thins(down'[t], down[t])
    <2>1. t \in Sockets /\ down[t] \in Seq(Msgs)
      BY <1>1, Sides
    <2> QED
      BY <1>1, <1>2, <2>1, ThinQueues
  <1> QED
    BY <1>3, <1>4 DEF Thin

\* The room tells the survivor.
LEMMA ThinDeparted ==
    ASSUME TypeInv, NEW s \in Sockets, Departed(s), NEW t \in RecvSockets
    PROVE  Thins(down'[t], down[t])
  <1> HIDE DEF Msgs, Control
  <1>1. down \in [Sockets -> Seq(Msgs)] /\ t \in Sockets /\ Left \in Control /\ down[t] \in Seq(Msgs)
    BY Sides DEF TypeInv, Control
  <1>2. down' = down \/ \E u : down' = ToPeer(u, Left)
    BY DEF Departed
  <1>3. down'[t] = down[t] \/ down'[t] = Append(down[t], Left)
    BY <1>1, <1>2 DEF ToPeer
  <1> QED
    BY <1>1, <1>3, ThinQueues

\* The edge, the alarm and the network.
LEMMA ThinRoom ==
    ASSUME TypeInv,
           \/ \E s \in Sockets : RoomReaps(s)
           \/ Expire
           \/ \E r \in Roles : Break(r)
    PROVE  Thin
  <1> HIDE DEF Msgs, Control
  <1>1. /\ up \in [Sockets -> Seq(Msgs)] /\ down \in [Sockets -> Seq(Msgs)]
        /\ CloseMsg \in Control
    BY DEF TypeInv, Control
  <1>2. \A t \in Sockets : up[t] \in Seq(Msgs) /\ down[t] \in Seq(Msgs)
    BY <1>1
  <1>3. ASSUME NEW s \in Sockets, RoomReaps(s) PROVE Thin
    BY <1>2, <1>3, ThinDeparted, ThinQueues, Sides DEF RoomReaps, Thin
  <1>4. CASE Expire
    <2>1. up' = up /\ \A t \in Sockets : down'[t] = down[t] \/ down'[t] = Append(down[t], CloseMsg)
      BY <1>4 DEF Expire
    <2>2. ASSUME NEW t \in Sockets PROVE Thins(up'[t], up[t]) /\ Thins(down'[t], down[t])
      BY <1>1, <1>2, <2>1, ThinQueues
    <2> QED
      BY <2>2, Sides DEF Thin
  <1>5. ASSUME NEW r \in Roles, Break(r) PROVE Thin
    <2> DEFINE s == sock[r]
    <2>1. PICK i \in 0..Len(up[s]) : up' = [up EXCEPT ![s] = SubSeq(@, 1, i)]
      BY <1>5 DEF Break
    <2>2. PICK j \in 0..Len(down[s]) : down' = [down EXCEPT ![s] = SubSeq(@, 1, j)]
      BY <1>5 DEF Break
    <2> HIDE DEF s
    <2>3. ASSUME NEW t \in Sockets PROVE Thins(up'[t], up[t]) /\ Thins(down'[t], down[t])
      <3>1. CASE t = s
        <4>1. up'[t] = SubSeq(up[t], 1, i) /\ down'[t] = SubSeq(down[t], 1, j)
          BY <1>1, <2>1, <2>2, <3>1
        <4>2. i \in 0..Len(up[t]) /\ j \in 0..Len(down[t])
          BY <2>1, <2>2, <3>1
        <4> QED
          BY <1>2, <4>1, <4>2, ThinQueues
      <3>2. CASE t # s
        <4>1. up'[t] = up[t] /\ down'[t] = down[t]
          BY <1>1, <2>1, <2>2, <3>2
        <4> QED
          BY <1>2, <4>1, ThinQueues
      <3> QED
        BY <3>1, <3>2
    <2> QED
      BY <2>3, Sides DEF Thin
  <1> QED
    BY <1>3, <1>4, <1>5

\* An event of a socket, unless it is a sender's frame that is passed on.
LEMMA ThinHandles ==
    ASSUME TypeInv, NEW s \in Sockets, RoomHandles(s)
    PROVE  \/ Thin
           \/ /\ s \in SendSockets /\ up[s] # <<>> /\ up' = [up EXCEPT ![s] = Tail(@)]
              /\ \E t \in RecvSockets : down' = [down EXCEPT ![t] = Append(@, Head(up[s]))]
  <1> HIDE DEF Msgs, Control
  <1>1. /\ up \in [Sockets -> Seq(Msgs)] /\ down \in [Sockets -> Seq(Msgs)]
        /\ up[s] # <<>> /\ up' = [up EXCEPT ![s] = Tail(@)] /\ listed \subseteq Sockets
    BY DEF TypeInv, RoomHandles
  <1>2. \A t \in SendSockets : Thins(up'[t], up[t])
    <2> SUFFICES ASSUME NEW t \in SendSockets PROVE Thins(up'[t], up[t])
      OBVIOUS
    <2>1. t \in Sockets /\ up[t] \in Seq(Msgs)
      BY <1>1, Sides
    <2>2. up'[t] = up[t] \/ (up[t] # <<>> /\ up'[t] = Tail(up[t]))
      BY <1>1, <2>1
    <2> QED
      BY <2>1, <2>2, ThinQueues
  <1>3. CASE Departed(s)
    BY <1>2, <1>3, ThinDeparted DEF Thin
  <1>4. ASSUME \A t \in RecvSockets : down'[t] = down[t] PROVE Thin
    <2>1. \A t \in RecvSockets : down[t] \in Seq(Msgs)
      BY <1>1, Sides
    <2> QED
      BY <1>2, <1>4, <2>1, ThinQueues DEF Thin
  <1>5. CASE /\ Tagged(Other(role(s))) # {}
             /\ down' = ToPeer(CHOOSE t \in Tagged(Other(role(s))) : TRUE, Head(up[s]))
    <2>1. PICK t \in Tagged(Other(role(s))) : down' = ToPeer(t, Head(up[s]))
      BY <1>5, Zenon
    <2>2. t \in Sockets /\ role(t) = Other(role(s))
      BY <1>1, <2>1 DEF Tagged
    <2>3. CASE down' = down
      BY <1>4, <2>3
    <2>4. CASE down' = [down EXCEPT ![t] = Append(@, Head(up[s]))]
      <3>1. CASE s \in SendSockets
        <4>1. t \in RecvSockets
          BY <2>2, <3>1, Sides DEF Other
        <4> QED
          BY <1>1, <2>4, <3>1, <4>1
      <3>2. CASE s \in RecvSockets
        <4>1. t \in SendSockets
          BY <2>2, <3>2, Sides DEF Other
        <4>2. \A r \in RecvSockets : down'[r] = down[r]
          BY <1>1, <2>4, <4>1, Sides
        <4> QED
          BY <1>4, <4>2
      <3> QED
        BY <3>1, <3>2, Sides
    <2> QED
      BY <2>1, <2>3, <2>4 DEF ToPeer
  <1>6. CASE down' = down
    BY <1>4, <1>6
  <1> QED
    BY <1>3, <1>5, <1>6 DEF RoomHandles

-----------------------------------------------------------------------------
(* One run.                                                                *)

\* RunInv holds after a step that adds no frame of a sender's, and leaves what
\* it speaks of alone.
LEMMA RunKept ==
    ASSUME NEW k \in Keys, RunInv(k),
           \A m \in Msgs : UnderWay("send", m)' /\ IsFrame(m) => UnderWay("send", m),
           \A s \in SendSockets, m \in Msgs : In(m, up'[s]) /\ IsFrame(m) => In(m, up[s]),
           OnSocket("send")' =>
              /\ OnSocket("send") /\ pc'["send"] = pc["send"] /\ sock'["send"] = sock["send"]
              /\ key'["send"] = key["send"] /\ n'["send"] = n["send"],
           pc'["recv"] \in {"Confirm", "Session", "Linger"} =>
              pc'["recv"] = pc["recv"] /\ key'["recv"] = key["recv"] /\ n'["recv"] = n["recv"]
    PROVE  RunInv(k)'
  <1> HIDE DEF Msgs, Keys
  <1>1. OnSocket("send")' => Sent' = Sent
    BY DEF Sent
  <1>2. pc'["send"] \in {"Confirm", "Session"} => OnSocket("send")'
    BY DEF OnSocket
  <1>3. ASSUME NEW m \in Msgs, UnderWay("send", m)', IsFrame(m)
        PROVE  /\ Maker(m) = k.send /\ (m.t # "pake" => m.key = k)
               /\ OnSocket("send")' => Rank(m) <= Sent'
               /\ pc'["recv"] \in {"Session", "Linger"} => Rank(m) > 2 + n'["recv"]
    BY <1>1, <1>3 DEF RunInv
  <1>4. \A s \in SendSockets, m \in Msgs : In(m, up'[s]) /\ IsFrame(m) => s = k.send
    BY DEF RunInv
  <1>5. /\ OnSocket("send")' => sock'["send"] = k.send
        /\ OnSocket("send")' /\ pc'["recv"] \in {"Session", "Linger"} => 2 + n'["recv"] <= Sent'
        /\ pc'["send"] \in {"Confirm", "Session"} => key'["send"] = k
        /\ pc'["recv"] \in {"Confirm", "Session", "Linger"} => key'["recv"].send = k.send
        /\ pc'["recv"] \in {"Session", "Linger"} => key'["recv"] = k
    BY <1>1, <1>2 DEF RunInv
  <1> QED
    BY <1>3, <1>4, <1>5 DEF RunInv, In

\* The room, the network and a process that skips a message.
LEMMA OrderlyPassive ==
    ASSUME Orderly, UNCHANGED procs, Thin, QuietInv'
    PROVE  Orderly'
  <1> HIDE DEF Msgs, Keys
  <1>1. UNCHANGED <<pc, sock, key, n>>
    BY DEF procs
  <1>2. PICK k \in Keys : RunInv(k)
    BY DEF Orderly
  <1>3. RunInv(k)'
    BY <1>1, <1>2, ThinKeeps, RunKept DEF OnSocket
  <1> QED
    BY <1>1, <1>3, ThinKeeps DEF Orderly, ReceiverSurvives

\* The room passes a frame on.
LEMMA OrderlyForward ==
    ASSUME TypeInv, Orderly, UNCHANGED procs, QuietInv', Adds("send", {}),
           NEW s \in SendSockets, up[s] # <<>>,
           up' = [up EXCEPT ![s] = Tail(@)],
           NEW t \in RecvSockets, down' = [down EXCEPT ![t] = Append(@, Head(up[s]))]
    PROVE  Orderly'
  <1> HIDE DEF Msgs, Keys
  <1>1. UNCHANGED <<pc, sock, key, n>>
    BY DEF procs
  <1>2. PICK k \in Keys : RunInv(k)
    BY DEF Orderly
  <1>3. /\ up \in [Sockets -> Seq(Msgs)] /\ s \in Sockets /\ SendSockets \subseteq Sockets
        /\ "send" \in Roles
    BY Sides DEF TypeInv, Roles
  <1>4. Head(up[s]) \in Msgs /\ In(Head(up[s]), up[s]) /\ \A m : In(m, Tail(up[s])) => In(m, up[s])
    BY <1>3, InTail
  <1>5. \A u \in SendSockets, m \in Msgs : In(m, up'[u]) => In(m, up[u])
    BY <1>3, <1>4
  <1>6. \A u \in SendSockets, m \in Msgs : In(m, up[u]) /\ IsFrame(m) /\ IsFrame(Head(up[s])) => u = s
    BY <1>2, <1>4 DEF RunInv
  <1>7. OrderInv'
    BY <1>6, OrderForward DEF Orderly
  <1>8. \A m \in Msgs : UnderWay("send", m)' /\ IsFrame(m) => UnderWay("send", m)
    BY <1>3, NotControl DEF Adds, IsFrame
  <1>9. RunInv(k)'
    BY <1>1, <1>2, <1>5, <1>8, RunKept DEF OnSocket
  <1> QED
    BY <1>1, <1>7, <1>9 DEF Orderly, ReceiverSurvives

\* A process leaves its socket.
LEMMA OrderlyHangup ==
    ASSUME TypeInv, Orderly, NEW r \in Roles, OnSocket(r),
           NEW next \in {"Idle", "Dial", "Done", "Failed"}, Hangup(r, next),
           r = "recv" => next \in {"Dial", "Done"}, r = "send" => next = "Idle"
    PROVE  Orderly'
  <1> HIDE DEF Msgs, Keys
  <1>1. /\ pc \in [Roles -> Points] /\ sock \in [Roles -> Names] /\ key \in [Roles -> Keys]
        /\ n \in [Roles -> Nat] /\ CloseMsg \in Control /\ CloseMsg \in Msgs
        /\ "send" \in Roles /\ "recv" \in Roles
    BY MsgTypes DEF TypeInv, Control, Roles
  <1>2. /\ pc' = [pc EXCEPT ![r] = next] /\ sock' = [sock EXCEPT ![r] = NoSocket]
        /\ key' = [key EXCEPT ![r] = NoKey] /\ n' = [n EXCEPT ![r] = 0] /\ listed' = listed
        /\ up' = Post(up, sock[r], CloseMsg) /\ down' = [down EXCEPT ![sock[r]] = <<>>]
    BY DEF Hangup
  <1>3. /\ pc'[r] = next
        /\ \A q \in Roles : q # r => /\ pc'[q] = pc[q] /\ sock'[q] = sock[q]
                                     /\ key'[q] = key[q] /\ n'[q] = n[q]
    BY <1>1, <1>2
  <1>4. Thin
    BY <1>1, <1>2, ThinProcess
  <1>5. PICK k \in Keys : RunInv(k)
    BY DEF Orderly
  <1>6. /\ OnSocket("send")' => r # "send"
        /\ pc'["recv"] \in {"Confirm", "Session", "Linger"} => r # "recv"
    BY <1>3 DEF OnSocket
  <1>7. RunInv(k)'
    BY <1>1, <1>3, <1>4, <1>5, <1>6, ThinKeeps, RunKept DEF OnSocket
  <1>8. ReceiverSurvives'
    BY <1>1, <1>3 DEF Orderly, ReceiverSurvives
  <1>9. QuietInv'
    <2> SUFFICES ASSUME pc'["send"] = "Dial" PROVE QuietInv'
      BY DEF QuietInv
    <2>1. r = "recv" /\ pc["send"] = "Dial"
      BY <1>1, <1>3 DEF Roles
    <2>2. next \in {"Dial", "Done"}
      BY <2>1
    <2>3. sock["recv"] \in RecvSockets /\ sock["recv"] \in Sockets
      BY <2>1, Sides DEF TypeInv
    <2>4. /\ up \in [Sockets -> Seq(Msgs)] /\ down \in [Sockets -> Seq(Msgs)]
      BY DEF TypeInv
    <2>5. \A s \in SendSockets : up'[s] = up[s]
      BY <1>2, <2>1, <2>3, <2>4, Sides DEF Post
    <2>6. \A t \in RecvSockets, m \in Msgs : In(m, down'[t]) => In(m, down[t])
      BY <1>2, <2>1, <2>3, <2>4, Sides, InShort
    <2> QED
      BY <1>2, <1>3, <2>1, <2>2, <2>5, <2>6 DEF QuietInv, Orderly, Tagged, In
  <1> QED
    BY <1>4, <1>7, <1>8, <1>9, ThinKeeps DEF Orderly

-----------------------------------------------------------------------------
(* Who reads.                                                              *)

\* Messages only wait on a socket that a process uses.
ReadInv == \A s \in Sockets : s # sock[role(s)] => down[s] = <<>>

\* A process leaves its socket and what waits on it.
LEMMA ReadHangup ==
    ASSUME TypeInv, ReadInv, NEW r \in Roles, OnSocket(r), NEW next, Hangup(r, next)
    PROVE  ReadInv'
  <1> HIDE DEF Msgs
  <1>1. /\ sock' = [sock EXCEPT ![r] = NoSocket] /\ down' = [down EXCEPT ![sock[r]] = <<>>]
        /\ sock \in [Roles -> Names] /\ down \in [Sockets -> Seq(Msgs)]
        /\ sock[r] \in Sockets /\ role(sock[r]) = r
    BY RoleOf DEF Hangup, TypeInv
  <1> SUFFICES ASSUME NEW s \in Sockets, s # sock'[role(s)] PROVE down'[s] = <<>>
    BY DEF ReadInv, role
  <1>2. role(s) \in Roles
    BY NamedRole
  <1> QED
    BY <1>1, <1>2 DEF ReadInv

\* A process takes a message.
LEMMA ReadTaken ==
    ASSUME TypeInv, ReadInv, NEW r \in Roles, OnSocket(r), sock' = sock, down' = Taken(r)
    PROVE  ReadInv'
  <1> HIDE DEF Msgs
  <1>1. down \in [Sockets -> Seq(Msgs)] /\ sock[r] \in Sockets /\ role(sock[r]) = r
    BY RoleOf DEF TypeInv
  <1> SUFFICES ASSUME NEW s \in Sockets, s # sock[role(s)] PROVE down'[s] = <<>>
    BY DEF ReadInv, role
  <1> QED
    BY <1>1 DEF ReadInv, Taken

\* The room only delivers to a socket that is read.
LEMMA ReadToPeer ==
    ASSUME TypeInv, ReadInv, sock' = sock, NEW t \in Sockets, NEW m, down' = ToPeer(t, m)
    PROVE  ReadInv'
  <1> HIDE DEF Msgs
  <1>1. down \in [Sockets -> Seq(Msgs)]
    BY DEF TypeInv
  <1> SUFFICES ASSUME NEW s \in Sockets, s # sock[role(s)] PROVE down'[s] = <<>>
    BY DEF ReadInv, role
  <1> QED
    BY <1>1 DEF ReadInv, ToPeer, Read

\* A process without a socket dials.
LEMMA ReadDial ==
    ASSUME TypeInv, CauseInv, ReadInv, NEW r \in Roles, Dial(r)
    PROVE  ReadInv'
  <1> HIDE DEF Msgs
  <1> DEFINE s == CHOOSE t \in Fresh(r) : TRUE
  <1>1. s \in Named(r) /\ Join(s, r) /\ sock' = [sock EXCEPT ![r] = s] /\ pc[r] = "Dial"
    BY FreshSocket DEF Dial
  <1> HIDE DEF s
  <1>2. s \in Sockets /\ role(s) = r /\ sock \in [Roles -> Names] /\ sock[r] = NoSocket
    BY <1>1, RoleOf DEF TypeInv, CauseInv, OnSocket
  <1> SUFFICES ASSUME NEW t \in Sockets, t # sock'[role(t)] PROVE down'[t] = <<>>
    BY DEF ReadInv, role
  <1>3. role(t) \in Roles /\ t # NoSocket
    BY NamedRole, RoomAssumption
  <1>4. t # s /\ t # sock[role(t)]
    BY <1>1, <1>2, <1>3
  <1> QED
    BY <1>1, <1>4 DEF ReadInv, Join, Read

\* Every step keeps it.
LEMMA ReadStep == RelayInv /\ CauseInv /\ ReadInv /\ [Next]_vars => ReadInv'
  <1> SUFFICES ASSUME RelayInv, CauseInv, ReadInv, [Next]_vars PROVE ReadInv'
    OBVIOUS
  <1> HIDE DEF RelayInv, CauseInv, ReadInv, Msgs
  <1>1. TypeInv /\ listed \subseteq Sockets /\ "send" \in Roles /\ "recv" \in Roles
    BY DEF RelayInv, TypeInv, Roles
  <1>2. ASSUME UNCHANGED <<down, sock>> PROVE ReadInv'
    BY <1>2 DEF ReadInv, role
  <1>3. ASSUME NEW s \in Sockets, NEW m, Tagged(Other(role(s))) # {}, sock' = sock,
               down' = ToPeer(CHOOSE t \in Tagged(Other(role(s))) : TRUE, m)
        PROVE  ReadInv'
    <2>1. PICK t \in Tagged(Other(role(s))) : down' = ToPeer(t, m)
      BY <1>3, Zenon
    <2>2. t \in Sockets
      BY <1>1, <2>1 DEF Tagged
    <2> QED
      BY <1>1, <1>3, <2>1, <2>2, ReadToPeer
  <1>4. ASSUME NEW s \in Sockets, RoomHandles(s) \/ RoomReaps(s) PROVE ReadInv'
    <2>1. sock' = sock
      BY <1>4 DEF RoomHandles, RoomReaps, procs
    <2>2. \/ down' = down
          \/ /\ Tagged(Other(role(s))) # {}
             /\ \E m : down' = ToPeer(CHOOSE t \in Tagged(Other(role(s))) : TRUE, m)
      BY <1>4 DEF RoomHandles, RoomReaps, Departed
    <2> QED
      BY <1>2, <1>3, <2>1, <2>2
  <1>5. CASE Expire
    <2>1. sock' = sock /\ \A t \in Sockets : down'[t] = down[t] \/ t = sock[role(t)]
      BY <1>5 DEF Expire, procs, Read
    <2> QED
      BY <2>1 DEF ReadInv, role
  <1>6. ASSUME NEW r \in Roles, Break(r) PROVE ReadInv'
    <2>1. PICK j \in 0..Len(down[sock[r]]) : down' = [down EXCEPT ![sock[r]] = SubSeq(@, 1, j)]
      BY <1>6 DEF Break
    <2>2. sock' = sock /\ role(sock[r]) = r /\ down \in [Sockets -> Seq(Msgs)]
      BY <1>1, <1>6, RoleOf DEF Break, procs, TypeInv
    <2>3. \A t \in Sockets : down'[t] = down[t] \/ t = sock[role(t)]
      BY <2>1, <2>2
    <2> QED
      BY <2>2, <2>3 DEF ReadInv, role
  <1>7. ASSUME NEW r \in Roles, GetJoined(r) \/ GetPake(r) \/ Skip(r) PROVE ReadInv'
    <2>1. OnSocket(r) /\ sock' = sock /\ down' = Taken(r)
      BY <1>7 DEF GetJoined, GetPake, Skip, Exchange, OnSocket, procs
    <2> QED
      BY <1>1, <2>1, ReadTaken
  <1>8. ASSUME NEW r \in Roles, Lost(r) \/ Timeout(r) \/ Mistaken(r) \/ BadFrame(r) PROVE ReadInv'
    <2>1. OnSocket(r) /\ \E next : Hangup(r, next)
      BY <1>8 DEF Lost, Timeout, Mistaken, BadFrame, OnSocket, Handshaking, Rearm
    <2> QED
      BY <1>1, <2>1, ReadHangup
  <1>9. ASSUME NEW r \in Roles, GetConfirm(r) PROVE ReadInv'
    <2>1. OnSocket(r) /\ ((sock' = sock /\ down' = Taken(r)) \/ \E next : Hangup(r, next))
      BY <1>9 DEF GetConfirm, OnSocket, Rearm
    <2> QED
      BY <1>1, <2>1, ReadTaken, ReadHangup
  <1>10. CASE ReceiverRound \/ SenderRound \/ LingerEnd \/ SenderKilled
    <2>1. \E r \in Roles : /\ OnSocket(r)
                           /\ (sock' = sock /\ down' = Taken(r)) \/ \E next : Hangup(r, next)
      BY <1>1, <1>10 DEF ReceiverRound, SenderRound, LingerEnd, SenderKilled, Exchange, OnSocket
    <2> QED
      BY <1>1, <2>1, ReadTaken, ReadHangup
  <1>11. CASE StartRight \/ StartWrong \/ StartHurried
    BY <1>2, <1>11 DEF StartRight, StartWrong, StartHurried, SendStart, room
  <1>12. ASSUME NEW r \in Roles, Steps(r) PROVE ReadInv'
    BY <1>1, <1>7, <1>8, <1>9, <1>12, ReadDial, Zenon DEF Steps
  <1>13. CASE UNCHANGED vars
    BY <1>2, <1>13 DEF vars, room, procs
  <1> QED
    BY <1>1, <1>4, <1>5, <1>6, <1>8, <1>10, <1>11, <1>12, <1>13, Zenon
       DEF Next, RoomSteps, ReceiverSteps, SenderSteps

\* A frame of a sender's is on its way to the room, or waits for the receiver.
LEMMA UnderWayTo ==
    ASSUME TypeInv, ReadInv, NEW m \in Msgs, UnderWay("send", m)
    PROVE  \/ \E s \in SendSockets : In(m, up[s])
           \/ sock["recv"] \in RecvSockets /\ In(m, down[sock["recv"]])
  <1> HIDE DEF Msgs
  <1>1. CASE \E s \in SendSockets : In(m, up[s])
    BY <1>1
  <1>2. CASE \E s \in RecvSockets : In(m, down[s])
    <2>1. PICK s \in RecvSockets : In(m, down[s])
      BY <1>2
    <2>2. s \in Sockets /\ role(s) = "recv" /\ down[s] # <<>>
      BY <2>1, Sides, InShort
    <2> QED
      BY <2>1, <2>2 DEF ReadInv
  <1> QED
    BY <1>1, <1>2 DEF UnderWay, Named, Other

-----------------------------------------------------------------------------
(* The steps of the room and the network.                                  *)

\* Nothing new is left of the run before.
LEMMA QuietKept ==
    ASSUME Orderly, pc' = pc,
           pc["send"] = "Dial" =>
              /\ listed' \subseteq listed /\ \A s \in SendSockets : up'[s] = up[s]
              /\ \A r \in RecvSockets, m \in Msgs :
                    In(m, down'[r]) => In(m, down[r]) \/ m \in {Left, CloseMsg}
    PROVE  QuietInv'
  <1> HIDE DEF Msgs
  <1> SUFFICES ASSUME pc'["send"] = "Dial"
               PROVE  /\ Tagged("send")' = {} /\ \A s \in SendSockets : up'[s] = <<>>
                      /\ pc'["recv"] \in {"Dial", "Wait", "Done"}
                      /\ \A r \in RecvSockets, m \in Msgs :
                            In(m, down'[r]) => m # Joined /\ ~IsFrame(m)
    BY DEF QuietInv, In
  <1>1. Left # Joined /\ CloseMsg # Joined /\ ~IsFrame(Left) /\ ~IsFrame(CloseMsg)
    BY DEF Left, CloseMsg, Joined, IsFrame
  <1>2. Tagged("send")' = {}
    BY DEF Orderly, QuietInv, Tagged
  <1> QED
    BY <1>1, <1>2 DEF Orderly, QuietInv

\* An event of a socket, or the end of a broken connection.
LEMMA OrderlyRoom ==
    ASSUME TypeInv, Orderly, NEW s \in Sockets, RoomHandles(s) \/ RoomReaps(s)
    PROVE  Orderly'
  <1> HIDE DEF Msgs
  <1>1. UNCHANGED procs /\ pc' = pc /\ up \in [Sockets -> Seq(Msgs)]
    BY DEF RoomHandles, RoomReaps, procs, TypeInv
  <1>2. ASSUME pc["send"] = "Dial"
        PROVE  /\ listed' \subseteq listed /\ \A t \in SendSockets : up'[t] = up[t]
               /\ down' = down
    <2>1. Tagged("send") = {} /\ \A t \in SendSockets : up[t] = <<>>
      BY <1>2 DEF Orderly, QuietInv
    <2>2. s \in RecvSockets
      <3>1. CASE RoomHandles(s)
        BY <2>1, <3>1, Sides DEF RoomHandles
      <3>2. CASE RoomReaps(s)
        BY <2>1, <3>2, Sides DEF RoomReaps, Tagged
      <3> QED
        BY <3>1, <3>2
    <2>3. Tagged(Other(role(s))) = {}
      BY <2>1, <2>2, Sides DEF Other
    <2>4. up' = up \/ up' = [up EXCEPT ![s] = Tail(@)]
      BY DEF RoomHandles, RoomReaps
    <2>5. listed' \subseteq listed /\ down' = down
      BY <2>3 DEF RoomHandles, RoomReaps, Departed
    <2> QED
      BY <1>1, <2>2, <2>4, <2>5, Sides
  <1>3. QuietInv'
    BY <1>1, <1>2, QuietKept
  <1>4. CASE Thin
    BY <1>1, <1>3, <1>4, OrderlyPassive
  <1>5. CASE ~Thin
    <2>1. RoomHandles(s)
      BY <1>5, ThinRoom
    <2>2. Adds("send", {})
      BY <2>1, RoomHandlesAdds
    <2> QED
      BY <1>1, <1>3, <1>5, <2>1, <2>2, ThinHandles, OrderlyForward
  <1> QED
    BY <1>4, <1>5

\* A room expiry, a broken connection, and a message that is skipped.
LEMMA OrderlyQuiet ==
    ASSUME TypeInv, Orderly, Expire \/ \E r \in Roles : Break(r) \/ Skip(r)
    PROVE  Orderly'
  <1> HIDE DEF Msgs
  <1>1. /\ down \in [Sockets -> Seq(Msgs)] /\ up \in [Sockets -> Seq(Msgs)]
        /\ CloseMsg \in Msgs /\ RecvSockets \subseteq Sockets
    BY MsgTypes, Sides DEF TypeInv
  <1>2. CASE Expire
    <2>1. UNCHANGED <<procs, pc, up>> /\ listed' = {}
      BY <1>2 DEF Expire, procs
    <2>2. ASSUME NEW t \in RecvSockets, NEW m \in Msgs, In(m, down'[t])
          PROVE  In(m, down[t]) \/ m \in {Left, CloseMsg}
      <3>1. down'[t] = down[t] \/ down'[t] = Append(down[t], CloseMsg)
        BY <1>1, <1>2 DEF Expire
      <3> QED
        BY <1>1, <2>2, <3>1, InAppend
    <2>3. QuietInv'
      BY <2>1, <2>2, QuietKept
    <2> QED
      BY <1>2, <2>1, <2>3, ThinRoom, OrderlyPassive
  <1>3. ASSUME NEW r \in Roles, Break(r) PROVE Orderly'
    <2>1. PICK i : up' = [up EXCEPT ![sock[r]] = SubSeq(@, 1, i)]
      BY <1>3 DEF Break
    <2>2. PICK j \in 0..Len(down[sock[r]]) : down' = [down EXCEPT ![sock[r]] = SubSeq(@, 1, j)]
      BY <1>3 DEF Break
    <2>3. UNCHANGED <<procs, pc, listed>> /\ OnSocket(r) /\ sock[r] \in Named(r) /\ sock[r] \in Sockets
      BY <1>3, RoleOf DEF Break, procs, TypeInv
    <2> DEFINE z == SubSeq(down[sock[r]], 1, j)
    <2>4. \A m : In(m, z) => In(m, down[sock[r]])
      BY <1>1, <2>2, <2>3, InSubSeq
    <2>5. down' = [down EXCEPT ![sock[r]] = z]
      BY <2>2
    <2> HIDE DEF z
    <2>6. \A t \in RecvSockets, m \in Msgs : In(m, down'[t]) => In(m, down[t])
      BY <1>1, <2>3, <2>4, <2>5
    <2>7. pc["send"] = "Dial" => \A t \in SendSockets : up'[t] = up[t]
      <3> SUFFICES ASSUME pc["send"] = "Dial" PROVE \A t \in SendSockets : up'[t] = up[t]
        OBVIOUS
      <3>1. r = "recv"
        BY <2>3 DEF OnSocket, Roles
      <3>2. sock[r] \in RecvSockets
        BY <2>3, <3>1, Sides
      <3> QED
        BY <1>1, <2>1, <3>2, Sides
    <2>8. QuietInv'
      BY <2>3, <2>6, <2>7, QuietKept
    <2> QED
      BY <1>3, <2>3, <2>8, ThinRoom, OrderlyPassive
  <1>4. ASSUME NEW r \in Roles, Skip(r) PROVE Orderly'
    <2>1. /\ UNCHANGED <<procs, pc, listed, up>> /\ OnSocket(r) /\ HasMsg(r) /\ down' = Taken(r)
          /\ sock[r] \in Sockets
      BY <1>4, RoleOf DEF Skip, procs, TypeInv
    <2>2. Thin
      BY <1>1, <2>1, ThinProcess
    <2>3. \A m : In(m, Tail(down[sock[r]])) => In(m, down[sock[r]])
      BY <1>1, <2>1, InTail DEF HasMsg
    <2>4. \A t \in RecvSockets, m \in Msgs : In(m, down'[t]) => In(m, down[t])
      BY <1>1, <2>1, <2>3 DEF Taken
    <2>5. QuietInv'
      BY <2>1, <2>4, QuietKept
    <2> QED
      BY <2>1, <2>2, <2>5, OrderlyPassive
  <1> QED
    BY <1>2, <1>3, <1>4

-----------------------------------------------------------------------------
(* A dial.                                                                 *)

\* A receiver joins again, and is paired with no sender if none has dialled.
LEMMA OrderlyDialReceiver ==
    ASSUME TypeInv, Orderly, Dial("recv")
    PROVE  Orderly'
  <1> HIDE DEF Msgs, Keys
  <1> DEFINE s == CHOOSE t \in Fresh("recv") : TRUE
  <1>1. "recv" \in Roles /\ "send" \in Roles /\ Fresh("recv") # {}
    BY DEF Roles, Dial
  <1>2. /\ s \in Named("recv") /\ Join(s, "recv") /\ up' = [up EXCEPT ![s] = <<>>]
        /\ sock' = [sock EXCEPT !["recv"] = s] /\ pc' = [pc EXCEPT !["recv"] = "Wait"]
        /\ UNCHANGED <<code, key, n, result>>
    BY <1>1, FreshSocket DEF Dial
  <1> HIDE DEF s
  <1>3. /\ pc'["recv"] = "Wait" /\ pc'["send"] = pc["send"] /\ sock'["send"] = sock["send"]
        /\ s \in RecvSockets /\ s \in Sockets /\ role(s) = "recv"
        /\ up \in [Sockets -> Seq(Msgs)] /\ down \in [Sockets -> Seq(Msgs)]
    BY <1>1, <1>2, Sides DEF TypeInv
  <1>4. Thin
    BY <1>1, <1>2, ThinDial
  <1>5. PICK k \in Keys : RunInv(k)
    BY DEF Orderly
  <1>6. RunInv(k)'
    BY <1>2, <1>3, <1>4, <1>5, ThinKeeps, RunKept DEF OnSocket
  <1>7. QuietInv'
    <2> SUFFICES ASSUME pc["send"] = "Dial"
                 PROVE  /\ Tagged("send")' = {} /\ \A t \in SendSockets : up'[t] = <<>>
                        /\ \A r \in RecvSockets, m \in Msgs :
                              In(m, down'[r]) => m # Joined /\ ~IsFrame(m)
      BY <1>3 DEF QuietInv, In
    <2>1. /\ Tagged("send") = {} /\ \A t \in SendSockets : up[t] = <<>>
          /\ \A r \in RecvSockets, m \in Msgs : In(m, down[r]) => m # Joined /\ ~IsFrame(m)
      BY DEF Orderly, QuietInv
    <2>2. Tagged(Other("recv")) = {}
      BY <2>1 DEF Other
    <2>3. Tagged("send")' = {}
      BY <1>2, <1>3, <2>1 DEF Join, Tagged
    <2>4. \A t \in Sockets : down'[t] \in {<<>>, Append(down[t], CloseMsg), down[t]}
      BY <1>2, <2>2 DEF Join
    <2>5. CloseMsg \in Msgs /\ CloseMsg # Joined /\ ~IsFrame(CloseMsg)
      BY MsgTypes DEF CloseMsg, Joined, IsFrame
    <2>6. ASSUME NEW r \in RecvSockets, NEW m \in Msgs, In(m, down'[r])
          PROVE  m # Joined /\ ~IsFrame(m)
      <3>1. r \in Sockets /\ down[r] \in Seq(Msgs)
        BY <1>3, Sides
      <3>2. In(m, down[r]) \/ m = CloseMsg
        BY <2>4, <2>5, <2>6, <3>1, InAppend, InShort
      <3> QED
        BY <2>1, <2>5, <3>2
    <2> QED
      BY <1>2, <1>3, <2>1, <2>3, <2>6, Sides
  <1> QED
    BY <1>3, <1>4, <1>6, <1>7, ThinKeeps DEF Orderly, ReceiverSurvives

\* A sender finds nothing of an earlier run, and starts one.
LEMMA OrderlyDialSender ==
    ASSUME TypeInv, Orderly, Dial("send")
    PROVE  Orderly'
  <1>1. "recv" \in Roles /\ "send" \in Roles /\ Fresh("send") # {} /\ pc["send"] = "Dial"
    BY DEF Roles, Dial
  <1>2. PICK s \in Named("send") :
              /\ Join(s, "send") /\ up' = [up EXCEPT ![s] = <<>>]
              /\ sock' = [sock EXCEPT !["send"] = s] /\ pc' = [pc EXCEPT !["send"] = "Wait"]
    BY <1>1, FreshSocket DEF Dial
  <1> DEFINE k == [code |-> RightCode, send |-> s, recv |-> NoSocket]
  <1>3. s \in Sockets
    BY <1>1, <1>2, RoleOf
  <1>4. k \in Keys /\ k.send = s
    BY <1>3 DEF Keys, Names
  <1> HIDE DEF Msgs, Keys, k
  <1>5. pc'["send"] = "Wait" /\ pc'["recv"] = pc["recv"] /\ sock'["send"] = s
    BY <1>1, <1>2 DEF TypeInv
  <1>6. Thin
    BY <1>1, <1>2, ThinDial
  <1>7. /\ pc["recv"] \in {"Dial", "Wait", "Done"} /\ \A t \in SendSockets : up[t] = <<>>
        /\ \A r \in RecvSockets, m \in Msgs : In(m, down[r]) => ~IsFrame(m)
    BY <1>1 DEF Orderly, QuietInv
  <1>8. \A m \in Msgs : ~(UnderWay("send", m) /\ IsFrame(m))
    BY <1>7, InShort, Sides DEF UnderWay, Other
  <1>9. \A m \in Msgs : ~(UnderWay("send", m)' /\ IsFrame(m))
    BY <1>6, <1>8, ThinKeeps
  <1>10. \A t \in SendSockets, m \in Msgs : ~(In(m, up'[t]) /\ IsFrame(m))
    BY <1>6, <1>7, InShort, ThinKeeps
  <1>11. RunInv(k)'
    BY <1>4, <1>5, <1>7, <1>9, <1>10 DEF RunInv, In
  <1>12. ReceiverSurvives' /\ QuietInv'
    BY <1>5, <1>7 DEF ReceiverSurvives, QuietInv
  <1> QED
    BY <1>4, <1>6, <1>11, <1>12, ThinKeeps DEF Orderly

-----------------------------------------------------------------------------
(* A sender makes its next frame.                                          *)

\* The frames are numbered from 1.
LEMMA Ranks ==
    ASSUME NEW m \in Msgs, IsFrame(m)
    PROVE  /\ Rank(m) \in Nat /\ (m.t # "pake" => Rank(m) >= 2)
           /\ m.t = "sealed" => m.round \in Nat
  <1> HIDE DEF Msgs
  <1> QED
    BY MsgParts DEF Rank, IsFrame

\* It is behind all the others of the run.
LEMMA OrderlyPost ==
    ASSUME TypeInv, Orderly, OnSocket("send"), HasMsg("send"), down' = Taken("send"),
           NEW x \in Msgs, up' = Post(up, sock["send"], x),
           IsFrame(x), Maker(x) = sock["send"], Rank(x) = Sent + 1, Sent' = Sent + 1,
           NEW next \in {"Pake", "Confirm", "Session"}, pc' = [pc EXCEPT !["send"] = next],
           sock' = sock, key'["recv"] = key["recv"], n'["recv"] = n["recv"],
           NEW c \in Keys, c.send = sock["send"], x.t # "pake" => x.key = c,
           pc["send"] \in {"Confirm", "Session"} => key["send"] = c,
           next \in {"Confirm", "Session"} => key'["send"] = c
    PROVE  Orderly'
  <1> HIDE DEF Msgs, Keys, Control
  <1>1. /\ "send" \in Roles /\ "recv" \in Roles /\ Sent \in Nat /\ n["recv"] \in Nat
        /\ sock["send"] \in SendSockets /\ sock["send"] \in Sockets
        /\ up \in [Sockets -> Seq(Msgs)] /\ down \in [Sockets -> Seq(Msgs)]
    BY Sides DEF Roles, Sent, TypeInv
  <1>2. pc'["send"] = next /\ pc'["recv"] = pc["recv"]
    BY <1>1 DEF TypeInv
  <1>3. PICK k \in Keys : RunInv(k)
    BY DEF Orderly
  <1>4. RunInv(c)
    <2>1. k.send = c.send
      BY <1>3 DEF RunInv
    <2>2. CASE pc["send"] \in {"Confirm", "Session"}
      BY <1>3, <2>2 DEF RunInv
    <2>3. CASE pc["send"] \notin {"Confirm", "Session"}
      <3>1. Sent <= 1
        BY <2>3 DEF Sent
      <3>2. pc["recv"] \notin {"Session", "Linger"}
        BY <1>1, <1>3, <3>1 DEF RunInv
      <3>3. \A m \in Msgs : UnderWay("send", m) /\ IsFrame(m) => m.t = "pake"
        BY <1>1, <1>3, <3>1, Ranks DEF RunInv
      <3> QED
        BY <1>3, <2>1, <2>3, <3>2, <3>3 DEF RunInv
    <2> QED
      BY <2>2, <2>3
  <1>5. \A m \in Msgs : UnderWay("send", m)' /\ IsFrame(m) => UnderWay("send", m) \/ m = x
    <2>1. Adds("send", {x})
      BY <1>1, ProcessAdds
    <2> QED
      BY <1>1, <2>1, NotControl DEF Adds, IsFrame
  <1>6. \A t \in SendSockets, m \in Msgs : In(m, up'[t]) => In(m, up[t]) \/ t = sock["send"]
    BY <1>1, Sides DEF Post
  <1>7. \A m \in Msgs : UnderWay("send", m) /\ IsFrame(m) => Rank(m) < Rank(x)
    BY <1>1, <1>4, Ranks DEF RunInv
  <1>8. OnSocket("send")'
    BY <1>2 DEF OnSocket
  <1>9. ASSUME NEW m \in Msgs, UnderWay("send", m)', IsFrame(m)
        PROVE  /\ Maker(m) = c.send /\ (m.t # "pake" => m.key = c)
               /\ Rank(m) <= Sent'
               /\ pc'["recv"] \in {"Session", "Linger"} => Rank(m) > 2 + n'["recv"]
    <2>1. CASE m = x
      BY <1>1, <1>2, <1>4, <2>1 DEF RunInv
    <2>2. CASE UnderWay("send", m)
      BY <1>1, <1>2, <1>4, <1>9, <2>2, Ranks DEF RunInv
    <2> QED
      BY <1>5, <1>9, <2>1, <2>2
  <1>10. \A s \in SendSockets, m \in Msgs : In(m, up'[s]) /\ IsFrame(m) => s = c.send
    BY <1>4, <1>6 DEF RunInv
  <1>11. /\ sock'["send"] = c.send
         /\ pc'["recv"] \in {"Session", "Linger"} => 2 + n'["recv"] <= Sent'
         /\ pc'["send"] \in {"Confirm", "Session"} => key'["send"] = c
         /\ pc'["recv"] \in {"Confirm", "Session", "Linger"} => key'["recv"].send = c.send
         /\ pc'["recv"] \in {"Session", "Linger"} => key'["recv"] = c
    BY <1>1, <1>2, <1>4 DEF RunInv
  <1>12. RunInv(c)'
    BY <1>9, <1>10, <1>11 DEF RunInv, In
  <1>13. \A r \in RecvSockets : down'[r] = down[r]
    BY <1>1, Sides DEF Taken
  <1>14. OrderInv'
    <2>1. CASE sock["send"] \in cut
      <3>1. up' = up
        BY <2>1 DEF Post
      <3>2. Thin
        BY <1>1, <1>13, <3>1, Sides, ThinQueues DEF Thin
      <3> QED
        BY <3>2, ThinKeeps DEF Orderly
    <2>2. CASE sock["send"] \notin cut
      <3>1. up' = [up EXCEPT ![sock["send"]] = Append(@, x)]
        BY <2>2 DEF Post
      <3> QED
        BY <1>1, <1>7, <1>13, <3>1, OrderPost DEF Orderly
    <2> QED
      BY <2>1, <2>2
  <1>15. ReceiverSurvives' /\ QuietInv'
    BY <1>2 DEF ReceiverSurvives, QuietInv, Orderly
  <1> QED
    BY <1>12, <1>14, <1>15 DEF Orderly

\* Its PAKE message, its confirmation, its first sealed frame and the next one.
LEMMA OrderlySender ==
    ASSUME TypeInv, Orderly, GetJoined("send") \/ GetPake("send") \/ GetConfirm("send") \/ SenderRound
    PROVE  Orderly'
  <1> HIDE DEF Msgs, Keys
  <1>1. /\ "send" \in Roles /\ "recv" \in Roles
        /\ pc \in [Roles -> Points] /\ key \in [Roles -> Keys] /\ n \in [Roles -> Nat]
        /\ sock["send"] \in Names /\ code["send"] \in {RightCode, WrongCode}
    BY DEF Roles, TypeInv
  <1>2. OnSocket("send") /\ HasMsg("send")
    BY DEF GetJoined, GetPake, GetConfirm, SenderRound, OnSocket
  <1>3. CASE Hangup("send", "Idle")
    BY <1>1, <1>2, <1>3, OrderlyHangup
  <1>4. CASE GetJoined("send")
    <2> DEFINE x == PakeMsg(sock["send"])
               c == [code |-> RightCode, send |-> sock["send"], recv |-> NoSocket]
    <2>1. /\ pc["send"] = "Wait" /\ pc' = [pc EXCEPT !["send"] = "Pake"] /\ down' = Taken("send")
          /\ up' = Post(up, sock["send"], x) /\ UNCHANGED <<sock, key, n>>
      BY <1>4 DEF GetJoined, Exchange
    <2>2. x \in Msgs /\ IsFrame(x) /\ Maker(x) = sock["send"] /\ Rank(x) = 1 /\ x.t = "pake"
      BY <1>1, MsgTypes DEF PakeMsg, IsFrame, Maker, Rank
    <2>3. c \in Keys /\ c.send = sock["send"]
      BY <1>1 DEF Keys, Names
    <2>4. Sent = 0 /\ Sent' = 1
      BY <1>1, <2>1 DEF Sent
    <2> HIDE DEF x, c
    <2> QED
      BY <1>2, <2>1, <2>2, <2>3, <2>4, OrderlyPost
  <1>5. CASE GetPake("send")
    <2> DEFINE c == KeyOf("send", sock["send"], Msg("send").of)
               x == ConfirmMsg(c)
    <2>1. /\ pc["send"] = "Pake" /\ pc' = [pc EXCEPT !["send"] = "Confirm"] /\ down' = Taken("send")
          /\ up' = Post(up, sock["send"], x) /\ key' = [key EXCEPT !["send"] = c]
          /\ UNCHANGED <<sock, n>> /\ Msg("send").t = "pake"
      BY <1>5 DEF GetPake, Exchange
    <2>2. Msg("send").of \in Names
      BY <1>1, <1>2, <2>1, NextMsg, MsgParts
    <2>3. c \in Keys /\ c.send = sock["send"]
      BY <1>1, <2>2 DEF KeyOf, Keys
    <2> HIDE DEF c
    <2>4. /\ x \in Msgs /\ IsFrame(x) /\ Maker(x) = sock["send"] /\ Rank(x) = 2 /\ x.key = c
      BY <2>3, MsgTypes DEF ConfirmMsg, IsFrame, Maker, Rank
    <2>5. Sent = 1 /\ Sent' = 2
      BY <1>1, <2>1 DEF Sent
    <2>6. key'["send"] = c /\ key'["recv"] = key["recv"]
      BY <1>1, <2>1
    <2> HIDE DEF x
    <2> QED
      BY <1>2, <2>1, <2>3, <2>4, <2>5, <2>6, OrderlyPost
  <1>6. ASSUME NEW i \in Nat, pc["send"] \in {"Confirm", "Session"}, down' = Taken("send"),
               up' = Post(up, sock["send"], Sealed(key["send"], i)),
               pc' = [pc EXCEPT !["send"] = "Session"], UNCHANGED <<sock, key>>,
               2 + i = Sent + 1, Sent' = Sent + 1, n'["recv"] = n["recv"]
        PROVE  Orderly'
    <2> DEFINE c == key["send"]
               x == Sealed(c, i)
    <2>1. c \in Keys /\ c.send = sock["send"]
      BY <1>1, <1>6 DEF TypeInv
    <2> HIDE DEF c
    <2>2. /\ x \in Msgs /\ IsFrame(x) /\ Maker(x) = sock["send"] /\ Rank(x) = 2 + i /\ x.key = c
      BY <2>1, MsgTypes DEF Sealed, IsFrame, Maker, Rank
    <2>3. key["send"] = c /\ up' = Post(up, sock["send"], x)
      BY <1>6 DEF c
    <2> HIDE DEF x
    <2> QED
      BY <1>2, <1>6, <2>1, <2>2, <2>3, OrderlyPost
  <1>7. CASE GetConfirm("send") /\ ~Hangup("send", "Idle")
    <2>1. /\ pc["send"] = "Confirm" /\ pc' = [pc EXCEPT !["send"] = "Session"]
          /\ down' = Taken("send") /\ up' = Post(up, sock["send"], Sealed(key["send"], 1))
          /\ n' = [n EXCEPT !["send"] = 0] /\ UNCHANGED <<sock, key>>
      BY <1>7 DEF GetConfirm, Rearm
    <2>2. Sent = 2 /\ Sent' = 3 /\ n'["recv"] = n["recv"]
      BY <1>1, <2>1 DEF Sent
    <2>3. 1 \in Nat /\ 2 + 1 = Sent + 1 /\ Sent' = Sent + 1
      BY <2>2
    <2> QED
      BY <1>6, <2>1, <2>2, <2>3
  <1>8. CASE SenderRound /\ ~Hangup("send", "Idle")
    <2>1. /\ pc["send"] = "Session" /\ pc' = [pc EXCEPT !["send"] = "Session"]
          /\ down' = Taken("send")
          /\ up' = Post(up, sock["send"], Sealed(key["send"], n["send"] + 2))
          /\ n' = [n EXCEPT !["send"] = @ + 1] /\ UNCHANGED <<sock, key>>
      BY <1>8 DEF SenderRound, Exchange
    <2>2. /\ Sent = 3 + n["send"] /\ Sent' = 4 + n["send"] /\ n'["recv"] = n["recv"]
          /\ n["send"] \in Nat
      BY <1>1, <2>1 DEF Sent
    <2>3. /\ n["send"] + 2 \in Nat /\ 2 + (n["send"] + 2) = Sent + 1 /\ Sent' = Sent + 1
      BY <2>2
    <2> QED
      BY <1>6, <2>1, <2>2, <2>3
  <1> QED
    BY <1>3, <1>4, <1>5, <1>7, <1>8

-----------------------------------------------------------------------------
(* A receiver reads the sender's next frame.                               *)

\* It comes from the run all others under way are of, and they rank behind it.
LEMMA OrderlyReceive ==
    ASSUME TypeInv, Orderly, ReadInv, OnSocket("recv"), HasMsg("recv"), down' = Taken("recv"),
           NEW x \in Msgs, up' = up \/ up' = Post(up, sock["recv"], x),
           NEW next \in {"Pake", "Confirm", "Session", "Linger"},
           pc' = [pc EXCEPT !["recv"] = next],
           sock' = sock, key'["send"] = key["send"], n'["send"] = n["send"],
           Msg("recv") = Joined \/ IsFrame(Msg("recv")),
           next # "Pake" => IsFrame(Msg("recv")) /\ key'["recv"].send = Maker(Msg("recv")),
           next \in {"Session", "Linger"} =>
              /\ Msg("recv").t # "pake" /\ key'["recv"] = Msg("recv").key
              /\ 2 + n'["recv"] = Rank(Msg("recv"))
    PROVE  Orderly'
  <1> HIDE DEF Msgs, Keys, Control
  <1> DEFINE s == sock["recv"]
             h == Msg("recv")
             q == down[s]
  <1>1. /\ "send" \in Roles /\ "recv" \in Roles /\ s \in RecvSockets /\ s \in Sockets
        /\ up \in [Sockets -> Seq(Msgs)] /\ down \in [Sockets -> Seq(Msgs)]
        /\ q \in Seq(Msgs) /\ q # <<>> /\ h = Head(q) /\ pc \in [Roles -> Points]
    BY Sides DEF Roles, TypeInv, HasMsg, Msg
  <1>2. pc'["recv"] = next /\ pc'["send"] = pc["send"]
    BY <1>1
  <1>3. h \in Msgs /\ In(h, q) /\ UnderWay("send", h)
    BY <1>1, InTail DEF UnderWay, Named, Other
  <1>4. pc["send"] # "Dial"
    BY <1>1, <1>3 DEF Orderly, QuietInv
  <1>5. Thin
    BY <1>1, ThinProcess
  <1>6. PICK k \in Keys : RunInv(k)
    BY DEF Orderly
  <1>7. next # "Pake" => k.send = Maker(h)
    BY <1>3, <1>6 DEF RunInv
  <1>8. next \in {"Session", "Linger"} => h.key = k
    BY <1>3, <1>6 DEF RunInv
  <1>9. /\ \A t \in SendSockets : up'[t] = up[t]
        /\ down'[s] = Tail(q) /\ \A t \in RecvSockets : t # s => down'[t] = <<>>
    <2>1. \A t \in RecvSockets : t # s => down[t] = <<>>
      BY Sides DEF ReadInv
    <2> QED
      BY <1>1, <2>1, Sides DEF Post, Taken
  <1>10. Sorted(q) /\ \A t \in SendSockets : Before(q, up[t])
    BY <1>1 DEF Orderly, OrderInv
  <1>11. ASSUME NEW m \in Msgs, UnderWay("send", m)', IsFrame(m), IsFrame(h)
         PROVE  Rank(h) < Rank(m)
    <2>1. (\E t \in SendSockets : In(m, up'[t])) \/ (\E t \in RecvSockets : In(m, down'[t]))
      BY <1>11 DEF UnderWay, Named, Other, In
    <2>2. CASE \E t \in SendSockets : In(m, up'[t])
      BY <1>3, <1>9, <1>10, <1>11, <2>2 DEF Before
    <2>3. CASE \E t \in RecvSockets : In(m, down'[t])
      <3>1. In(m, Tail(q))
        BY <1>9, <2>3, InShort
      <3> HIDE DEF q, h
      <3>2. PICK i \in 1..Len(Tail(q)) : Tail(q)[i] = m
        BY <3>1 DEF In
      <3>3. 1 \in 1..Len(q) /\ i + 1 \in 1..Len(q) /\ 1 < i + 1 /\ q[1] = h /\ q[i + 1] = m
        BY <1>1, <3>2
      <3> QED
        BY <1>10, <1>11, <3>3 DEF Sorted
    <2> QED
      BY <2>1, <2>2, <2>3
  <1>12. OnSocket("send")' = OnSocket("send") /\ Sent' = Sent
    BY <1>2 DEF OnSocket, Sent
  <1>13. ASSUME NEW m \in Msgs, UnderWay("send", m)', IsFrame(m)
         PROVE  /\ Maker(m) = k.send /\ (m.t # "pake" => m.key = k)
                /\ OnSocket("send")' => Rank(m) <= Sent'
                /\ pc'["recv"] \in {"Session", "Linger"} => Rank(m) > 2 + n'["recv"]
    <2>1. UnderWay("send", m)
      BY <1>5, <1>13, ThinKeeps
    <2>2. pc'["recv"] \in {"Session", "Linger"} => Rank(m) > 2 + n'["recv"]
      BY <1>2, <1>3, <1>11, <1>13, Ranks
    <2> QED
      BY <1>6, <1>12, <1>13, <2>1, <2>2 DEF RunInv
  <1>14. \A t \in SendSockets, m \in Msgs : In(m, up'[t]) /\ IsFrame(m) => t = k.send
    BY <1>6, <1>9 DEF RunInv
  <1>15. /\ OnSocket("send")' => sock'["send"] = k.send
         /\ OnSocket("send")' /\ pc'["recv"] \in {"Session", "Linger"} => 2 + n'["recv"] <= Sent'
         /\ pc'["send"] \in {"Confirm", "Session"} => key'["send"] = k
         /\ pc'["recv"] \in {"Confirm", "Session", "Linger"} => key'["recv"].send = k.send
         /\ pc'["recv"] \in {"Session", "Linger"} => key'["recv"] = k
    BY <1>2, <1>3, <1>6, <1>7, <1>8, <1>12 DEF RunInv
  <1>16. RunInv(k)'
    BY <1>13, <1>14, <1>15 DEF RunInv, In
  <1>17. ReceiverSurvives' /\ QuietInv'
    BY <1>2, <1>4 DEF ReceiverSurvives, QuietInv
  <1> QED
    BY <1>5, <1>16, <1>17, ThinKeeps DEF Orderly

\* Word of a peer, its PAKE message, a confirmation that verifies, and a sealed frame.
LEMMA OrderlyReceiver ==
    ASSUME TypeInv, Orderly, ReadInv,
           GetJoined("recv") \/ GetPake("recv") \/ GetConfirm("recv") \/ ReceiverRound
    PROVE  Orderly'
  <1> HIDE DEF Msgs, Keys
  <1>1. /\ "send" \in Roles /\ "recv" \in Roles
        /\ pc \in [Roles -> Points] /\ key \in [Roles -> Keys] /\ n \in [Roles -> Nat]
        /\ sock["recv"] \in Names /\ code["recv"] \in {RightCode, WrongCode}
        /\ CloseMsg \in Msgs
    BY MsgTypes DEF Roles, TypeInv
  <1>2. OnSocket("recv") /\ HasMsg("recv")
    BY DEF GetJoined, GetPake, GetConfirm, ReceiverRound, OnSocket
  <1>3. CASE GetJoined("recv")
    <2> DEFINE x == PakeMsg(sock["recv"])
    <2>1. /\ pc' = [pc EXCEPT !["recv"] = "Pake"] /\ down' = Taken("recv")
          /\ up' = Post(up, sock["recv"], x) /\ UNCHANGED <<sock, key, n>>
          /\ Msg("recv") = Joined
      BY <1>3 DEF GetJoined, Exchange
    <2>2. x \in Msgs
      BY <1>1, MsgTypes
    <2> HIDE DEF x
    <2> QED
      BY <1>2, <2>1, <2>2, OrderlyReceive
  <1>4. CASE GetPake("recv")
    <2> DEFINE c == KeyOf("recv", sock["recv"], Msg("recv").of)
               x == ConfirmMsg(c)
    <2>1. /\ pc' = [pc EXCEPT !["recv"] = "Confirm"] /\ down' = Taken("recv")
          /\ up' = Post(up, sock["recv"], x) /\ key' = [key EXCEPT !["recv"] = c]
          /\ UNCHANGED <<sock, n>> /\ Msg("recv").t = "pake"
      BY <1>4 DEF GetPake, Exchange
    <2>2. Msg("recv").of \in Names
      BY <1>1, <1>2, <2>1, NextMsg, MsgParts
    <2>3. c \in Keys /\ c.send = Msg("recv").of
      BY <1>1, <2>2 DEF KeyOf, Keys
    <2> HIDE DEF c
    <2>4. x \in Msgs
      BY <2>3, MsgTypes
    <2>5. key'["send"] = key["send"] /\ key'["recv"].send = Maker(Msg("recv")) /\ IsFrame(Msg("recv"))
      BY <1>1, <2>1, <2>3 DEF Maker, IsFrame
    <2> HIDE DEF x
    <2> QED
      BY <1>2, <2>1, <2>4, <2>5, OrderlyReceive
  <1>5. CASE GetConfirm("recv") /\ Hangup("recv", "Dial")
    BY <1>1, <1>2, <1>5, OrderlyHangup
  <1>6. CASE GetConfirm("recv") /\ ~Hangup("recv", "Dial")
    <2>1. /\ pc' = [pc EXCEPT !["recv"] = "Session"] /\ down' = Taken("recv") /\ up' = up
          /\ n' = [n EXCEPT !["recv"] = 0] /\ UNCHANGED <<sock, key>>
          /\ Msg("recv").t = "confirm" /\ Msg("recv").key = key["recv"]
      BY <1>6 DEF GetConfirm, Confirms, Rearm
    <2>2. /\ IsFrame(Msg("recv")) /\ Maker(Msg("recv")) = key["recv"].send
          /\ Rank(Msg("recv")) = 2 /\ n'["recv"] = 0 /\ n'["send"] = n["send"]
      BY <1>1, <2>1 DEF IsFrame, Maker, Rank
    <2>3. 2 + n'["recv"] = Rank(Msg("recv"))
      BY <2>2
    <2> QED
      BY <1>1, <1>2, <2>1, <2>2, <2>3, OrderlyReceive
  <1>7. CASE ReceiverRound
    <2> DEFINE i == n["recv"] + 1
               x == Sealed(key["recv"], i)
               next == IF i = Rounds THEN "Linger" ELSE "Session"
    <2>1. /\ n'["recv"] = i /\ n'["send"] = n["send"] /\ i \in Nat
      BY <1>1, <1>7 DEF ReceiverRound
    <2>2. /\ pc' = [pc EXCEPT !["recv"] = next] /\ down' = Taken("recv")
          /\ up' = Post(up, sock["recv"], x) /\ UNCHANGED <<sock, key>>
          /\ Msg("recv").t = "sealed" /\ Msg("recv").key = key["recv"] /\ Msg("recv").round = i
      BY <1>7, <2>1 DEF ReceiverRound, Exchange, Opens
    <2>3. x \in Msgs /\ next \in {"Session", "Linger"}
      BY <1>1, <2>1, MsgTypes
    <2> HIDE DEF x, next
    <2>4. /\ IsFrame(Msg("recv")) /\ Maker(Msg("recv")) = key["recv"].send
          /\ 2 + n'["recv"] = Rank(Msg("recv"))
      BY <2>1, <2>2 DEF IsFrame, Maker, Rank
    <2> QED
      BY <1>2, <2>1, <2>2, <2>3, <2>4, OrderlyReceive
  <1> QED
    BY <1>3, <1>4, <1>5, <1>6, <1>7

\* The frame a receiver in a session finds is the one it waits for.
LEMMA NextOpens ==
    ASSUME TypeInv, Orderly, CauseInv, pc["recv"] = "Session", HasMsg("recv"),
           Msg("recv") \notin {Joined, Left, CloseMsg}
    PROVE  Opens("recv")
  <1> HIDE DEF Keys
  <1> DEFINE h == Msg("recv")
  <1>1. /\ OnSocket("recv") /\ "recv" \in Roles /\ n["recv"] \in Nat
        /\ key["recv"].recv = sock["recv"] /\ Other("recv") = "send"
    BY DEF OnSocket, Roles, TypeInv, Other
  <1>2. h \in Msgs /\ UnderWay("send", h)
    BY <1>1, NextMsg
  <1> HIDE DEF h
  <1>3. IsFrame(h)
    BY <1>2 DEF h, Msgs, Control, IsFrame
  <1> HIDE DEF Msgs
  <1>4. PICK k \in Keys : RunInv(k)
    BY DEF Orderly
  <1>5. Rank(h) > 2 + n["recv"] /\ (h.t # "pake" => h.key = k) /\ key["recv"] = k
    BY <1>2, <1>3, <1>4 DEF RunInv
  <1>6. h.t = "sealed"
    BY <1>1, <1>3, <1>5 DEF Rank, IsFrame
  <1>7. h.round > n["recv"] /\ h.round \in Nat /\ h.key = key["recv"]
    BY <1>1, <1>2, <1>3, <1>5, <1>6, Ranks DEF Rank
  <1>8. h.round <= 1 \/ h.round <= n["recv"] + 1
    BY <1>1, <1>2, <1>6, <1>7 DEF CauseInv
  <1>9. h.round = n["recv"] + 1
    BY <1>1, <1>7, <1>8
  <1> QED
    BY <1>6, <1>7, <1>9 DEF Opens, h

-----------------------------------------------------------------------------
(* Users.                                                                  *)

\* When a user runs send only after the last run's end, nothing is left of it.
LEMMA OrderlyStart ==
    ASSUME TypeInv, CauseInv, Orderly, Settled, NEW c, SendStart(c)
    PROVE  Orderly'
  <1> HIDE DEF Msgs, Keys
  <1>1. /\ "send" \in Roles /\ "recv" \in Roles
        /\ UNCHANGED <<listed, up, down, sock, key, n>>
        /\ up \in [Sockets -> Seq(Msgs)] /\ down \in [Sockets -> Seq(Msgs)]
    BY DEF Roles, SendStart, room, TypeInv
  <1>2. pc'["send"] = "Dial" /\ pc'["recv"] = pc["recv"]
    BY <1>1 DEF SendStart, TypeInv
  <1>3. Thin
    BY <1>1, Sides, ThinQueues DEF Thin
  <1>4. PICK k \in Keys : RunInv(k)
    BY DEF Orderly
  <1>5. RunInv(k)'
    BY <1>1, <1>2, <1>3, <1>4, ThinKeeps, RunKept DEF OnSocket
  <1>6. ReceiverSurvives' /\ pc["recv"] \in {"Wait", "Done"}
    BY <1>2 DEF Orderly, ReceiverSurvives, Settled
  <1>7. Tagged("send") = {}
    <2> SUFFICES ASSUME NEW s \in listed, role(s) = "send" PROVE FALSE
      BY DEF Tagged
    <2>1. s = sock["recv"] /\ s \in Sockets
      BY DEF Settled, TypeInv
    <2>2. sock["recv"] = NoSocket \/ sock["recv"] \in RecvSockets
      BY <1>1, Sides DEF CauseInv, TypeInv
    <2> QED
      BY <2>1, <2>2, Sides, RoomAssumption
  <1>8. QuietInv'
    <2>1. \A s \in Sockets : up'[s] = <<>> /\ down'[s] = <<>>
      BY <1>1 DEF Settled
    <2>2. \A r \in RecvSockets, m \in Msgs : ~In(m, down'[r])
      BY <2>1, Sides, InShort
    <2> QED
      BY <1>1, <1>2, <1>6, <1>7, <2>1, <2>2, Sides DEF QuietInv, Tagged, In
  <1> QED
    BY <1>3, <1>5, <1>6, <1>8, ThinKeeps DEF Orderly

\* What has happened has happened.
LEMMA FaultsGrow ==
    ASSUME [Next]_vars
    PROVE  faults \subseteq faults'
  <1>1. ASSUME NEW r \in Roles, Steps(r) \/ Break(r) \/ Mistaken(r) PROVE faults \subseteq faults'
    BY <1>1 DEF Steps, Dial, GetJoined, GetPake, GetConfirm, Skip, Lost, Timeout, BadFrame,
       Break, Mistaken, Exchange, Fault
  <1>2. CASE RoomSteps \/ Expire
    BY <1>2 DEF RoomSteps, RoomHandles, RoomReaps, Expire, Fault
  <1>3. CASE ReceiverRound \/ LingerEnd \/ SenderRound
    BY <1>3 DEF ReceiverRound, LingerEnd, SenderRound, Exchange
  <1>4. CASE StartRight \/ StartWrong \/ StartHurried \/ SenderKilled
    BY <1>4 DEF StartRight, StartWrong, StartHurried, SenderKilled, Fault
  <1>5. CASE UNCHANGED vars
    BY <1>5 DEF vars
  <1> QED
    BY <1>1, <1>2, <1>3, <1>4, <1>5 DEF Next, ReceiverSteps, SenderSteps, Roles

\* Every step of an unhurried user's keeps the order.
LEMMA OrderlyStep ==
    ASSUME RelayInv, CauseInv, ReadInv, Orderly, [Next]_vars, "hurry" \notin faults'
    PROVE  Orderly'
  <1> HIDE DEF RelayInv, CauseInv, ReadInv, Orderly, Msgs, Keys
  <1>1. TypeInv /\ "send" \in Roles /\ "recv" \in Roles
    BY DEF RelayInv, Roles
  <1>2. ASSUME NEW r \in Roles, Lost(r) \/ Timeout(r) \/ Mistaken(r) PROVE Orderly'
    <2>1. OnSocket(r)
      BY <1>2 DEF Lost, Timeout, Mistaken, OnSocket, Handshaking
    <2>2. Hangup(r, IF r = "recv" THEN "Dial" ELSE "Idle")
      BY <1>2 DEF Lost, Timeout, Mistaken, Rearm
    <2> QED
      BY <1>1, <2>1, <2>2, OrderlyHangup
  <1>3. ASSUME NEW r \in Roles, BadFrame(r) PROVE Orderly'
    <2>1. /\ pc[r] = "Session" /\ HasMsg(r) /\ OnSocket(r) /\ ~Opens(r)
          /\ Msg(r) \notin {Joined, Left, CloseMsg}
          /\ Hangup(r, IF r = "recv" THEN "Failed" ELSE "Idle")
      BY <1>3 DEF BadFrame, OnSocket
    <2>2. r = "send"
      BY <1>1, <2>1, NextOpens DEF Roles
    <2> QED
      BY <1>1, <2>1, <2>2, OrderlyHangup
  <1>4. CASE LingerEnd
    BY <1>1, <1>4, OrderlyHangup DEF LingerEnd, OnSocket
  <1>5. CASE SenderKilled
    BY <1>1, <1>5, OrderlyHangup DEF SenderKilled
  <1>6. CASE StartRight \/ StartWrong
    BY <1>1, <1>6, OrderlyStart DEF StartRight, StartWrong
  <1>7. ~StartHurried
    BY DEF StartHurried, Fault
  <1>8. ASSUME NEW r \in Roles, Steps(r) PROVE Orderly'
    <2>1. r = "send" \/ r = "recv"
      BY DEF Roles
    <2> QED
      BY <1>1, <1>2, <1>3, <1>8, <2>1, OrderlyDialReceiver, OrderlyDialSender, OrderlySender,
         OrderlyReceiver, OrderlyQuiet DEF Steps
  <1>9. CASE UNCHANGED vars
    BY <1>9 DEF vars, room, procs, Orderly, ReceiverSurvives, OrderInv, QuietInv, RunInv,
       UnderWay, OnSocket, Tagged, Sent
  <1> QED
    BY <1>1, <1>2, <1>4, <1>5, <1>6, <1>7, <1>8, <1>9, OrderlyRoom, OrderlyQuiet,
       OrderlySender, OrderlyReceiver DEF Next, RoomSteps, ReceiverSteps, SenderSteps

\* For any sockets, rounds and faults, with late messages or without: a wrong code, a
\* killed sender, a broken connection, a room expiry and a timeout that races an answer
\* leave the receiver waiting, never failed, unless `b2p send` was run again before the
\* room had handled the end of the last run.
THEOREM RelaySurvivesUnhurried == Spec => []SurvivesUnhurried
  <1>1. ASSUME Init PROVE CauseInv /\ ReadInv /\ Orderly
    <2> HIDE DEF Msgs
    <2>1. /\ \A s \in Sockets : up[s] = <<>> /\ down[s] = <<>>
          /\ pc["send"] = "Idle" /\ pc["recv"] = "Dial" /\ \A r \in Roles : sock[r] = NoSocket
      BY <1>1 DEF Init, Roles
    <2>2. CauseInv /\ ReadInv
      BY <2>1 DEF CauseInv, ReadInv, OnSocket
    <2>3. \A m : ~UnderWay("send", m)
      BY <2>1, Sides, InShort DEF UnderWay, Other
    <2>4. OrderInv
      BY <2>1, Sides, InShort DEF OrderInv, Sorted, Before
    <2>5. NoKey \in Keys
      BY DEF NoKey, Keys, Names
    <2>6. RunInv(NoKey)
      BY <2>1, <2>3, Sides, InShort DEF RunInv, OnSocket
    <2> QED
      BY <2>1, <2>2, <2>4, <2>5, <2>6 DEF Orderly, ReceiverSurvives, QuietInv
  <1>2. Init => CauseInv /\ ReadInv /\ UnhurriedInv
    BY <1>1 DEF UnhurriedInv
  <1>3. ASSUME RelayInv, CauseInv, ReadInv, UnhurriedInv, [Next]_vars
        PROVE  CauseInv' /\ ReadInv' /\ UnhurriedInv'
    <2>1. CauseInv' /\ ReadInv'
      BY <1>3, CauseStep, ReadStep
    <2>2. ASSUME "hurry" \notin faults' PROVE Orderly'
      <3>1. "hurry" \notin faults
        BY <1>3, <2>2, FaultsGrow
      <3>2. Orderly
        BY <1>3, <3>1 DEF UnhurriedInv, Orderly
      <3> QED
        BY <1>3, <2>2, <3>2, OrderlyStep
    <2> QED
      BY <2>1, <2>2 DEF UnhurriedInv, Orderly
  <1>4. UnhurriedInv => SurvivesUnhurried
    BY DEF UnhurriedInv, Orderly, SurvivesUnhurried
  <1> QED
    BY <1>2, <1>3, <1>4, RelayInvariant, PTL DEF Spec

-----------------------------------------------------------------------------
(* Types.                                                                  *)

\* A process is at a point of its own program, and in a session it has a round to go.
PointInv ==
    /\ pc["send"] \in {"Idle", "Dial", "Wait", "Pake", "Confirm", "Session"}
    /\ pc["recv"] \in {"Dial", "Wait", "Pake", "Confirm", "Session", "Linger", "Done", "Failed"}
    /\ \A r \in Roles : n[r] <= Rounds /\ (pc[r] # "Linger" => n[r] < Rounds)
    /\ faults \subseteq Happen

\* Every step keeps it.
LEMMA PointStep == TypeInv /\ PointInv /\ [Next]_vars => PointInv'
  <1> SUFFICES ASSUME TypeInv, PointInv, [Next]_vars PROVE PointInv'
    OBVIOUS
  <1> HIDE DEF TypeInv
  <1>1. /\ pc \in [Roles -> Points] /\ n \in [Roles -> Nat] /\ Rounds \in Nat /\ Rounds > 0
        /\ "send" \in Roles /\ "recv" \in Roles /\ \A r \in Roles : r = "send" \/ r = "recv"
    BY RoomAssumption DEF TypeInv, Roles
  <1>2. \A k : Fault(k) => faults' \subseteq Happen
    BY DEF Fault, PointInv
  <1>3. ASSUME NEW r \in Roles, NEW next, pc' = [pc EXCEPT ![r] = next],
               n' = n \/ n' = [n EXCEPT ![r] = 0], faults' \subseteq Happen,
               pc[r] # "Linger" \/ n' = [n EXCEPT ![r] = 0],
               \/ r = "send" /\ next \in {"Idle", "Dial", "Wait", "Pake", "Confirm", "Session"}
               \/ r = "recv" /\ next \in {"Dial", "Wait", "Pake", "Confirm", "Session", "Done", "Failed"}
        PROVE  PointInv'
    BY <1>1, <1>3 DEF PointInv
  <1>4. ASSUME NEW r \in Roles, NEW next, Hangup(r, next), faults' \subseteq Happen,
               \/ r = "send" /\ next = "Idle"
               \/ r = "recv" /\ next \in {"Dial", "Done", "Failed"}
        PROVE  PointInv'
    BY <1>3, <1>4 DEF Hangup
  <1>5. ASSUME UNCHANGED procs, faults' \subseteq Happen PROVE PointInv'
    BY <1>5 DEF procs, PointInv
  <1>6. faults \subseteq Happen
    BY DEF PointInv
  <1>7. CASE RoomSteps \/ Expire
    BY <1>2, <1>5, <1>6, <1>7 DEF RoomSteps, RoomHandles, RoomReaps, Expire
  <1>8. ASSUME NEW r \in Roles, Break(r) \/ Skip(r) PROVE PointInv'
    BY <1>2, <1>5, <1>6, <1>8 DEF Break, Skip
  <1>9. ASSUME NEW r \in Roles, Lost(r) \/ Timeout(r) \/ Mistaken(r) \/ BadFrame(r) PROVE PointInv'
    BY <1>1, <1>2, <1>4, <1>6, <1>9 DEF Lost, Timeout, Mistaken, BadFrame, Rearm
  <1>10. ASSUME NEW r \in Roles, Dial(r) \/ GetJoined(r) \/ GetPake(r) PROVE PointInv'
    BY <1>1, <1>3, <1>6, <1>10 DEF Dial, GetJoined, GetPake, Exchange
  <1>11. ASSUME NEW r \in Roles, GetConfirm(r) PROVE PointInv'
    BY <1>1, <1>3, <1>4, <1>6, <1>11 DEF GetConfirm, Rearm
  <1>12. CASE ReceiverRound
    <2>1. /\ n["recv"] < Rounds /\ n' = [n EXCEPT !["recv"] = @ + 1] /\ faults' = faults
          /\ pc' = [pc EXCEPT !["recv"] = IF n'["recv"] = Rounds THEN "Linger" ELSE "Session"]
      BY <1>1, <1>12 DEF ReceiverRound, Exchange, PointInv
    <2> QED
      BY <1>1, <2>1 DEF PointInv
  <1>13. CASE SenderRound
    <2>1. CASE Hangup("send", "Idle")
      BY <1>1, <1>4, <1>6, <1>13, <2>1 DEF SenderRound, Exchange
    <2>2. CASE ~Hangup("send", "Idle")
      <3>1. /\ n["send"] + 1 < Rounds /\ n' = [n EXCEPT !["send"] = @ + 1] /\ faults' = faults
            /\ pc' = [pc EXCEPT !["send"] = "Session"]
        BY <1>13, <2>2 DEF SenderRound, Exchange
      <3> QED
        BY <1>1, <3>1 DEF PointInv
    <2> QED
      BY <2>1, <2>2
  <1>14. CASE LingerEnd \/ SenderKilled
    BY <1>1, <1>2, <1>4, <1>6, <1>14 DEF LingerEnd, SenderKilled
  <1>15. CASE StartRight \/ StartWrong \/ StartHurried
    BY <1>1, <1>2, <1>3, <1>6, <1>15 DEF StartRight, StartWrong, StartHurried, SendStart
  <1>16. CASE UNCHANGED vars
    BY <1>5, <1>6, <1>16 DEF vars
  <1> QED
    BY <1>1, <1>7, <1>8, <1>9, <1>10, <1>11, <1>12, <1>13, <1>14, <1>15, <1>16
       DEF Next, Steps, ReceiverSteps, SenderSteps

\* The room's alarm and the broken connections.
RoomInv == cut \subseteq Sockets /\ alarm \in BOOLEAN

\* Every step keeps their types.
LEMMA RoomStep == TypeInv /\ RoomInv /\ [Next]_vars => RoomInv'
  <1> SUFFICES ASSUME TypeInv, RoomInv, [Next]_vars PROVE RoomInv'
    OBVIOUS
  <1> HIDE DEF TypeInv
  <1>1. ASSUME UNCHANGED <<cut, alarm>> PROVE RoomInv'
    BY <1>1 DEF RoomInv
  <1>2. ASSUME NEW s \in Sockets, RoomHandles(s) \/ RoomReaps(s) PROVE RoomInv'
    BY <1>2 DEF RoomHandles, RoomReaps, Departed, RoomInv
  <1>3. CASE Expire
    BY <1>3 DEF Expire, RoomInv
  <1>4. ASSUME NEW r \in Roles, Break(r) PROVE RoomInv'
    <2>1. sock[r] \in Sockets /\ cut' = cut \cup {sock[r]} /\ alarm' = alarm
      BY <1>4, RoleOf DEF Break, TypeInv
    <2> QED
      BY <2>1 DEF RoomInv
  <1>5. ASSUME NEW r \in Roles, Dial(r) PROVE RoomInv'
    <2>1. \E s : cut' = cut \ {s} /\ alarm' \in BOOLEAN
      BY <1>5 DEF Dial, Join
    <2> QED
      BY <2>1 DEF RoomInv
  <1>6. ASSUME NEW r \in Roles, Steps(r) \/ Mistaken(r) PROVE RoomInv'
    BY <1>1, <1>5, <1>6 DEF Steps, GetJoined, GetPake, GetConfirm, Skip, Lost, Timeout, BadFrame,
       Mistaken, Exchange, Rearm, Hangup
  <1>7. CASE ReceiverRound \/ LingerEnd \/ SenderRound \/ SenderKilled
    BY <1>1, <1>7 DEF ReceiverRound, LingerEnd, SenderRound, SenderKilled, Exchange, Hangup
  <1>8. CASE StartRight \/ StartWrong \/ StartHurried
    BY <1>1, <1>8 DEF StartRight, StartWrong, StartHurried, SendStart, room
  <1>9. CASE UNCHANGED vars
    BY <1>1, <1>9 DEF vars, room
  <1> QED
    BY <1>2, <1>3, <1>4, <1>6, <1>7, <1>8, <1>9
       DEF Next, RoomSteps, ReceiverSteps, SenderSteps, Roles

\* For any sockets, rounds and faults: the types.  A process has a socket exactly while
\* it is at a point where it uses one, and completes no more rounds than a session has.
THEOREM RelayTypeOK == Spec => []TypeOK
  <1>1. ASSUME Init PROVE CauseInv /\ PointInv /\ RoomInv
    <2>1. RoomInv
      BY <1>1 DEF Init, RoomInv
    <2>2. /\ pc["send"] = "Idle" /\ pc["recv"] = "Dial" /\ faults = {} /\ 0 < Rounds /\ 0 <= Rounds
          /\ \A r \in Roles : sock[r] = NoSocket /\ n[r] = 0
      BY <1>1, RoomAssumption DEF Init, Roles
    <2> QED
      BY <2>1, <2>2 DEF CauseInv, PointInv, OnSocket
  <1>2. RelayInv /\ CauseInv /\ PointInv /\ RoomInv => TypeOK
    <2> SUFFICES ASSUME RelayInv, CauseInv, PointInv, RoomInv PROVE TypeOK
      OBVIOUS
    <2>1. TypeInv
      BY DEF RelayInv
    <2>2. \A r \in Roles : sock[r] \in Sockets <=> OnSocket(r)
      BY <2>1, RoleOf, RoomAssumption DEF TypeInv, CauseInv
    <2>3. n \in [Roles -> 0..Rounds]
      BY <2>1, RoomAssumption DEF TypeInv, PointInv
    <2>4. listed \subseteq Sockets /\ code["recv"] = RightCode /\ code["send"] \in {RightCode, WrongCode}
      BY <2>1 DEF TypeInv, Roles
    <2> QED
      BY <2>2, <2>3, <2>4 DEF TypeOK, PointInv, RoomInv
  <1>3. RelayInv => TypeInv
    BY DEF RelayInv
  <1> QED
    BY <1>1, <1>2, <1>3, CauseStep, PointStep, RoomStep, RelayInvariant, PTL DEF Spec
=============================================================================
