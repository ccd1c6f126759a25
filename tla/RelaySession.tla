---------------------------- MODULE RelaySession ----------------------------
(***************************************************************************)
(* Meeting in a relay room: the Durable Object that pairs one sender with  *)
(* one receiver (relay-worker/src/index.js), relay::connect, the key       *)
(* exchange over the channel (handshake.rs) and the loops around them      *)
(* (session.rs, main.rs), when connections break, senders are killed and   *)
(* run again, and somebody uses a wrong code.                              *)
(*                                                                         *)
(* Abstractions.  The session after the key exchange is Rounds exchanges   *)
(* of a sealed frame and its answer (StreamTransfer has the details).  A   *)
(* SPAKE2 key is the code together with both messages, a message being     *)
(* named by the socket it was made for.  A socket is two queues; keepalive *)
(* pings, acks and the framing of messages are left out.                   *)
(***************************************************************************)
EXTENDS Integers, Sequences, FiniteSets, Functions

CONSTANTS
    SendSockets,    \* bound: names of a sender's sockets, reused when nothing
    RecvSockets,    \*   refers to one, and of a receiver's
    NoSocket,
    RightCode, WrongCode,
    Rounds,         \* exchanges in a session
    Late,           \* are messages of a socket the room has closed delivered?
    Breakable,      \* the roles whose connections break
    Happen,         \* bound: the kinds of fault that happen, each once,
    MaxFaults       \*   and how many of them in one behaviour

Roles == {"send", "recv"}
Sockets == SendSockets \cup RecvSockets

\* A sender with a wrong code, a killed sender, a broken connection, a room
\* expiry, a timeout that races an answer, and a `b2p send` that is run again
\* before the room has handled the end of the last one.
FaultKinds == {"wrong", "kill", "break", "expire", "early", "hurry"}

ASSUME RoomAssumption ==
    /\ IsFiniteSet(Sockets) /\ NoSocket \notin Sockets
    /\ SendSockets \cap RecvSockets = {}
    /\ RightCode # WrongCode
    /\ Rounds \in Nat \ {0}
    /\ Late \in BOOLEAN /\ Breakable \subseteq Roles
    /\ Happen \subseteq FaultKinds /\ MaxFaults \in Nat

VARIABLES
    \* The room
    listed,     \* the sockets getWebSockets returns
    alarm,      \* is the expiry alarm set?
    up, down,   \* messages to and from the room, by socket
    cut,        \* sockets whose connection is broken
    \* The two processes, by role
    pc,         \* control point
    sock,       \* the socket in use
    code,       \* the code in use
    key,        \* the session key, once derived
    n,          \* rounds completed
    result,     \* how the last `b2p send` ended
    faults      \* the kinds of fault that have happened

room == <<listed, alarm, up, down, cut>>
procs == <<pc, sock, code, key, n, result>>
vars == <<room, procs, faults>>

\* The tag a socket was accepted with.
role(s) == IF s \in SendSockets THEN "send" ELSE "recv"
Named(r) == IF r = "send" THEN SendSockets ELSE RecvSockets
Other(r) == IF r = "send" THEN "recv" ELSE "send"

Fault(k) ==
    /\ k \in Happen \ faults /\ Cardinality(faults) < MaxFaults
    /\ faults' = faults \cup {k}

-----------------------------------------------------------------------------
(* Messages.                                                               *)

Joined == [t |-> "joined"]
Left == [t |-> "left"]
CloseMsg == [t |-> "close"]
PakeMsg(s) == [t |-> "pake", of |-> s]
ConfirmMsg(k) == [t |-> "confirm", key |-> k]
Sealed(k, i) == [t |-> "sealed", key |-> k, round |-> i]

NoKey == [code |-> "none", send |-> NoSocket, recv |-> NoSocket]

\* Pake::finish: both ends get the same key exactly when they use the same
\* code and each has the other's message.
KeyOf(r, mine, theirs) ==
    [code |-> code[r],
     send |-> IF r = "send" THEN mine ELSE theirs,
     recv |-> IF r = "recv" THEN mine ELSE theirs]

\* Queue q of socket s after a message has been sent on it.
Post(q, s, m) == IF s \in cut THEN q ELSE [q EXCEPT ![s] = Append(@, m)]

\* Somebody reads what the room sends on socket s.
Read(s) == s \notin cut /\ s = sock[role(s)]
ToPeer(s, m) == IF Read(s) THEN [down EXCEPT ![s] = Append(@, m)] ELSE down

-----------------------------------------------------------------------------
(* The room.                                                               *)

\* getWebSockets(role).  The platform is taken to stop returning a socket once
\* the room has closed it.
Tagged(r) == {s \in listed : role(s) = r}

\* fetch: a join replaces the sockets of the same role and pairs with the
\* other.
Join(s, r) ==
    LET old == Tagged(r)
        peer == Tagged(Other(r)) IN
    /\ listed' = (listed \ old) \cup {s}
    /\ down' = [t \in Sockets |->
           CASE t = s -> IF peer # {} THEN <<Joined>> ELSE <<>>
             [] t \in old /\ Read(t) -> Append(down[t], CloseMsg)
             [] t \in peer /\ Read(t) -> Append(down[t], Joined)
             [] OTHER -> down[t]]
    /\ alarm' = (peer = {})
    /\ cut' = cut \ {s}

\* Wrong variant: a replaced socket is announced as a peer that left.
DepartedAlways(s) ==
    LET peer == Tagged(Other(role(s))) IN
    /\ listed' = listed \ {s}
    /\ IF peer # {}
       THEN /\ down' = ToPeer(CHOOSE t \in peer : TRUE, Left)
            /\ alarm' = TRUE
       ELSE UNCHANGED <<down, alarm>>
\* Wrong variant: the survivor is not told.
DepartedSilently(s) == listed' = listed \ {s} /\ UNCHANGED <<down, alarm>>
\* departed: the survivor is told and the alarm set, unless the socket has
\* been replaced.
Departed(s) ==
    LET others == Tagged(role(s)) \ {s}
        peer == Tagged(Other(role(s))) IN
    /\ listed' = listed \ {s}
    /\ IF others = {} /\ peer # {}
       THEN /\ down' = ToPeer(CHOOSE t \in peer : TRUE, Left)
            /\ alarm' = TRUE
       ELSE UNCHANGED <<down, alarm>>

\* webSocketMessage and webSocketClose.  A message of a socket the room has
\* closed may still be handled.
RoomHandles(s) ==
    /\ up[s] # <<>>
    /\ up' = [up EXCEPT ![s] = Tail(@)]
    /\ LET m == Head(up[s])
           peer == Tagged(Other(role(s))) IN
       \/ /\ m = CloseMsg
          /\ Departed(s)
       \/ /\ m # CloseMsg /\ peer # {} /\ (s \in listed \/ Late)
          /\ down' = ToPeer(CHOOSE t \in peer : TRUE, m)
          /\ UNCHANGED <<listed, alarm>>
       \/ /\ m # CloseMsg /\ (peer = {} \/ s \notin listed)
          /\ UNCHANGED <<listed, down, alarm>>
    /\ UNCHANGED <<cut, procs, faults>>

\* webSocketError: the edge gives up on a broken connection.
RoomReaps(s) ==
    /\ s \in cut /\ s \in listed /\ up[s] = <<>>
    /\ Departed(s)
    /\ UNCHANGED <<up, cut, procs, faults>>

Expire ==
    /\ alarm
    /\ alarm' = FALSE
    /\ listed' = {}
    /\ down' = [t \in Sockets |->
           IF t \in listed /\ Read(t) THEN Append(down[t], CloseMsg) ELSE down[t]]
    /\ Fault("expire")
    /\ UNCHANGED <<up, cut, procs>>

-----------------------------------------------------------------------------
(* Both processes: relay::connect and handshake_over_channel.              *)

OnSocket(r) == pc[r] \in {"Wait", "Pake", "Confirm", "Session", "Linger"}
Handshaking(r) == pc[r] \in {"Pake", "Confirm"}

\* What a message or a key refers to.
KeySockets(k) == {k.send, k.recv}
MsgSockets(m) ==
    CASE m.t = "pake" -> {m.of}
      [] m.t \in {"confirm", "sealed"} -> KeySockets(m.key)
      [] OTHER -> {}
InUse ==
    listed \cup {sock[r] : r \in Roles} \cup (UNION {KeySockets(key[r]) : r \in Roles})
        \cup {s \in Sockets : up[s] # <<>>}
        \cup (UNION {MsgSockets(m) : m \in UNION {Range(up[s]) \cup Range(down[s]) : s \in Sockets}})
Fresh(r) == Named(r) \ InUse

\* dial, with the room's handling of the join.
Dial(r) ==
    /\ pc[r] = "Dial" /\ Fresh(r) # {}
    /\ LET s == CHOOSE t \in Fresh(r) : TRUE IN
       /\ Join(s, r)
       /\ sock' = [sock EXCEPT ![r] = s]
       /\ up' = [up EXCEPT ![s] = <<>>]
    /\ pc' = [pc EXCEPT ![r] = "Wait"]
    /\ UNCHANGED <<code, key, n, result, faults>>

\* The channel is dropped: its io_task closes the socket.  A receiver that
\* may re-arm does; a sender's process ends.
Hangup(r, next) ==
    /\ pc' = [pc EXCEPT ![r] = next]
    /\ up' = Post(up, sock[r], CloseMsg)
    /\ down' = [down EXCEPT ![sock[r]] = <<>>]
    /\ sock' = [sock EXCEPT ![r] = NoSocket]
    /\ key' = [key EXCEPT ![r] = NoKey]
    /\ n' = [n EXCEPT ![r] = 0]
    /\ UNCHANGED <<listed, alarm, cut, code>>
Rearm(r) == Hangup(r, IF r = "recv" THEN "Dial" ELSE "Idle")
\* How a `b2p send` ends.
Ended(r, res) == result' = IF r = "send" THEN res ELSE result

\* The next message for process r.
HasMsg(r) == down[sock[r]] # <<>>
Msg(r) == Head(down[sock[r]])
Taken(r) == [down EXCEPT ![sock[r]] = Tail(@)]

\* The process takes its message, sends reply and goes on at next.
Exchange(r, next, reply) ==
    /\ pc' = [pc EXCEPT ![r] = next]
    /\ down' = Taken(r)
    /\ up' = Post(up, sock[r], reply)
    /\ UNCHANGED <<listed, alarm, cut, sock, code, result, faults>>

GetJoined(r) ==
    /\ pc[r] = "Wait" /\ HasMsg(r) /\ Msg(r) = Joined
    /\ Exchange(r, "Pake", PakeMsg(sock[r]))
    /\ UNCHANGED <<key, n>>

GetPake(r) ==
    /\ pc[r] = "Pake" /\ HasMsg(r) /\ Msg(r).t = "pake"
    /\ LET k == KeyOf(r, sock[r], Msg(r).of) IN
       /\ key' = [key EXCEPT ![r] = k]
       /\ Exchange(r, "Confirm", ConfirmMsg(k))
    /\ UNCHANGED n

\* Wrong variant: the confirmation is not verified.
ConfirmsAnything(r) == TRUE
\* verify_confirmation
Confirms(r) == Msg(r).key = key[r]

\* A confirmed sender goes on with its first sealed frame.
GetConfirm(r) ==
    /\ pc[r] = "Confirm" /\ HasMsg(r) /\ Msg(r).t = "confirm"
    /\ \/ /\ Confirms(r)
          /\ n' = [n EXCEPT ![r] = 0]
          /\ pc' = [pc EXCEPT ![r] = "Session"]
          /\ down' = Taken(r)
          /\ up' = IF r = "send" THEN Post(up, sock[r], Sealed(key[r], 1)) ELSE up
          /\ UNCHANGED <<listed, alarm, cut, sock, code, key, result>>
       \/ ~Confirms(r) /\ Rearm(r) /\ Ended(r, "CodeMismatch")
    /\ UNCHANGED faults

\* connect drops everything but peer-joined and a close; recv_kind skips the
\* frames it does not wait for, and io_task a second peer-joined.
Ignored(r) ==
    CASE pc[r] = "Wait" -> Msg(r) \notin {Joined, CloseMsg}
      [] pc[r] = "Pake" -> Msg(r).t \in {"joined", "confirm", "sealed"}
      [] pc[r] = "Confirm" -> Msg(r).t \in {"joined", "pake", "sealed"}
      [] pc[r] = "Session" -> Msg(r) = Joined
      [] OTHER -> FALSE
Skip(r) ==
    /\ OnSocket(r) /\ HasMsg(r) /\ Ignored(r)
    /\ down' = Taken(r)
    /\ UNCHANGED <<listed, alarm, up, cut, procs, faults>>

\* Sealed bytes may look like a frame of the key exchange, which then fails.
Mistaken(r) ==
    /\ Handshaking(r) /\ HasMsg(r) /\ Msg(r).t = "sealed"
    /\ Rearm(r) /\ Ended(r, "Establish")
    /\ UNCHANGED faults

\* Wrong variant: the end of a wait is fatal for a receiver too.
LostFatal(r) ==
    /\ OnSocket(r) /\ pc[r] # "Linger"
    /\ \/ HasMsg(r) /\ Msg(r) = CloseMsg
       \/ HasMsg(r) /\ Msg(r) = Left /\ pc[r] # "Wait"
       \/ ~HasMsg(r) /\ sock[r] \in cut
    /\ Hangup(r, IF r = "send" THEN "Idle" ELSE IF pc[r] = "Wait" THEN "Failed" ELSE "Dial")
    /\ Ended(r, "Lost")
    /\ UNCHANGED faults
\* The channel is gone: peer-left, a close, or a broken connection.
Lost(r) ==
    /\ OnSocket(r) /\ pc[r] # "Linger"
    /\ \/ HasMsg(r) /\ Msg(r) = CloseMsg
       \/ HasMsg(r) /\ Msg(r) = Left /\ pc[r] # "Wait"
       \/ ~HasMsg(r) /\ sock[r] \in cut
    /\ Rearm(r) /\ Ended(r, "Lost")
    /\ UNCHANGED faults

\* Nothing is under way that could end the wait of process r.
Silent(r) ==
    /\ ~HasMsg(r) /\ \A s \in Sockets : up[s] = <<>>
    /\ pc[Other(r)] # "Dial"
    /\ OnSocket(Other(r)) => ~HasMsg(Other(r)) /\ sock[Other(r)] \notin cut

\* Wrong variant: a sender waits for its peer without a limit.
TimeoutNoWait(r) ==
    /\ Handshaking(r)
    /\ \/ Silent(r) /\ UNCHANGED faults
       \/ Fault("early")
    /\ Rearm(r) /\ Ended(r, "Establish")
\* HANDSHAKE_TIMEOUT, and the 45 s a sender waits for a peer.
Timeout(r) ==
    /\ Handshaking(r) \/ (r = "send" /\ pc[r] = "Wait")
    /\ \/ Silent(r) /\ UNCHANGED faults
       \/ Fault("early")
    /\ Rearm(r) /\ Ended(r, "Establish")

-----------------------------------------------------------------------------
(* The session.                                                            *)

\* The frame opens under this session's key at the expected index.
Opens(r) == Msg(r).t = "sealed" /\ Msg(r).key = key[r] /\ Msg(r).round = n[r] + 1

ReceiverRound ==
    /\ pc["recv"] = "Session" /\ HasMsg("recv") /\ Opens("recv")
    /\ n' = [n EXCEPT !["recv"] = @ + 1]
    /\ Exchange("recv", IF n'["recv"] = Rounds THEN "Linger" ELSE "Session",
                Sealed(key["recv"], n'["recv"]))
    /\ UNCHANGED key

\* Wrong variant: success is reported without the receiver's answer.
SenderRoundNoAnswer ==
    /\ pc["send"] = "Session"
    /\ Hangup("send", "Idle") /\ Ended("send", "Ok")
    /\ UNCHANGED faults
SenderRound ==
    /\ pc["send"] = "Session" /\ HasMsg("send") /\ Opens("send")
    /\ \/ /\ n["send"] + 1 < Rounds
          /\ n' = [n EXCEPT !["send"] = @ + 1]
          /\ Exchange("send", "Session", Sealed(key["send"], n["send"] + 2))
          /\ UNCHANGED key
       \/ /\ n["send"] + 1 = Rounds
          /\ Hangup("send", "Idle") /\ Ended("send", "Ok")
          /\ UNCHANGED faults

\* Any other frame is a plain error, which ends either process.
BadFrame(r) ==
    /\ pc[r] = "Session" /\ HasMsg(r)
    /\ Msg(r) \notin {Joined, Left, CloseMsg} /\ ~Opens(r)
    /\ Hangup(r, IF r = "recv" THEN "Failed" ELSE "Idle")
    /\ Ended(r, "BadFrame")
    /\ UNCHANGED faults

LingerEnd ==
    /\ pc["recv"] = "Linger"
    /\ Hangup("recv", "Done")
    /\ UNCHANGED <<result, faults>>

-----------------------------------------------------------------------------
(* Users and faults.                                                       *)

\* Seconds after a failed run: what was under way has been handled, and the
\* receiver waits in the room again.
Settled ==
    /\ \A s \in Sockets : up[s] = <<>> /\ down[s] = <<>>
    /\ listed \subseteq {sock["recv"]} /\ sock["recv"] \notin cut
    /\ pc["recv"] \in {"Wait", "Done", "Failed"}

\* The user runs `b2p send`, until a transfer succeeds.
SendStart(c) ==
    /\ pc["send"] = "Idle" /\ result # "Ok"
    /\ pc' = [pc EXCEPT !["send"] = "Dial"]
    /\ code' = [code EXCEPT !["send"] = c]
    /\ Ended("send", "None")
    /\ UNCHANGED <<room, sock, key, n>>

StartRight == Settled /\ SendStart(RightCode) /\ UNCHANGED faults
StartWrong ==
    /\ Settled /\ SendStart(WrongCode)
    /\ Fault("wrong")
StartHurried ==
    /\ ~Settled /\ SendStart(RightCode)
    /\ Fault("hurry")

SenderKilled ==
    /\ OnSocket("send")
    /\ Hangup("send", "Idle") /\ Ended("send", "Killed")
    /\ Fault("kill")

\* A connection breaks, with what is under way on it, without either end being told.
Break(r) ==
    /\ r \in Breakable /\ OnSocket(r) /\ sock[r] \notin cut
    /\ cut' = cut \cup {sock[r]}
    /\ \E i \in 0..Len(up[sock[r]]) : up' = [up EXCEPT ![sock[r]] = SubSeq(@, 1, i)]
    /\ \E i \in 0..Len(down[sock[r]]) : down' = [down EXCEPT ![sock[r]] = SubSeq(@, 1, i)]
    /\ Fault("break")
    /\ UNCHANGED <<listed, alarm, procs>>

-----------------------------------------------------------------------------

Init ==
    /\ listed = {} /\ alarm = FALSE
    /\ up = [s \in Sockets |-> <<>>] /\ down = [s \in Sockets |-> <<>>] /\ cut = {}
    /\ pc = [r \in Roles |-> IF r = "recv" THEN "Dial" ELSE "Idle"]
    /\ sock = [r \in Roles |-> NoSocket]
    /\ code = [r \in Roles |-> RightCode]
    /\ key = [r \in Roles |-> NoKey] /\ n = [r \in Roles |-> 0]
    /\ result = "None"
    /\ faults = {}

RoomSteps == \E s \in Sockets : RoomHandles(s) \/ RoomReaps(s)
Steps(r) ==
    \/ Dial(r) \/ GetJoined(r) \/ GetPake(r) \/ GetConfirm(r) \/ Skip(r)
    \/ Lost(r) \/ Timeout(r) \/ BadFrame(r)
ReceiverSteps == Steps("recv") \/ ReceiverRound \/ LingerEnd
SenderSteps == Steps("send") \/ SenderRound

Next ==
    \/ RoomSteps \/ ReceiverSteps \/ SenderSteps \/ StartRight \/ StartWrong \/ StartHurried
    \/ SenderKilled \/ Expire \/ \E r \in Roles : Break(r) \/ Mistaken(r)

Spec == Init /\ [][Next]_vars

\* The room handles the events of every socket and the edge notices a broken
\* one, both processes keep working, and the user runs `b2p send` with the right
\* code again.  The receiver's handshake timer runs on whatever senders come and
\* go meanwhile, hence strong fairness.
Fairness ==
    /\ \A s \in Sockets : WF_vars(RoomHandles(s)) /\ WF_vars(RoomReaps(s))
    /\ WF_vars(ReceiverSteps) /\ WF_vars(SenderSteps)
    /\ WF_vars(StartRight)
    /\ SF_vars(Timeout("recv"))

FairSpec == Spec /\ Fairness

-----------------------------------------------------------------------------
(* Properties.                                                             *)

\* Every variable has its type.
TypeOK ==
    /\ listed \subseteq Sockets /\ cut \subseteq Sockets /\ alarm \in BOOLEAN
    /\ pc["send"] \in {"Idle", "Dial", "Wait", "Pake", "Confirm", "Session"}
    /\ pc["recv"] \in {"Dial", "Wait", "Pake", "Confirm", "Session", "Linger",
                       "Done", "Failed"}
    /\ \A r \in Roles : sock[r] \in Sockets <=> OnSocket(r)
    /\ code["recv"] = RightCode /\ code["send"] \in {RightCode, WrongCode}
    /\ n \in [Roles -> 0..Rounds]
    /\ faults \subseteq Happen

\* A room never expires under two peers: the alarm is only pending while a
\* role is missing, whatever the order in which joins, takeovers and late
\* close events of replaced sockets are handled.
PairedNeverExpires == alarm => Tagged("send") = {} \/ Tagged("recv") = {}

\* The receiver only enters a session with a sender run that has its code and
\* has derived the very same key from the same two messages.
SameKey ==
    pc["recv"] \in {"Session", "Linger"} =>
        /\ key["recv"].code = RightCode
        /\ sock["send"] = key["recv"].send /\ pc["send"] \in {"Confirm", "Session"}
              => key["send"] = key["recv"] /\ code["send"] = RightCode

\* `b2p send` reports success only if the receiver has completed a session.
SuccessMeansReceived == result = "Ok" => pc["recv"] \in {"Linger", "Done"}

\* README, Resume: when the connection drops, the receiver keeps waiting and
\* the code stays valid.
ReceiverSurvives == pc["recv"] # "Failed"

\* Neither a wrong code, a killed sender, a broken connection, a room expiry
\* nor a timeout racing an answer ends the receiver, as long as `b2p send` is
\* only run again once the room has handled the end of the last run.
SurvivesUnhurried == "hurry" \notin faults => ReceiverSurvives

\* A `b2p send` comes to an end.
SendEnds == pc["send"] # "Idle" ~> pc["send"] = "Idle"

\* A receiver that waits is served once a sender with its code comes again,
\* with the same proviso.
EventuallyDone == <>(pc["recv"] = "Done" \/ "hurry" \in faults)
=============================================================================
