---------------------------- MODULE PeerSession ----------------------------
(***************************************************************************)
(* A direct transfer (--p2p): both peers meet on a topic of the ntfy       *)
(* rendezvous, run the key exchange there (handshake.rs), negotiate a      *)
(* WebRTC connection over the same topic (transport/webrtc.rs, establish)  *)
(* and move the payload through the channel (session.rs, receive_p1 and    *)
(* send_p1).                                                               *)
(*                                                                         *)
(* Abstractions.  The transfer is Chunks messages and their ack            *)
(* (StreamTransfer has the details).  A SPAKE2 key is the code together    *)
(* with both messages, a message being named by its role and attempt.  A   *)
(* sealed frame is its kind and its key.  The frames of the topic are the  *)
(* ones still in the service's cache window.                               *)
(***************************************************************************)
EXTENDS WebRtcChannel, Integers, FiniteSets

CONSTANTS
    RightCode, WrongCode, OldCode,
    Cands,          \* a peer's local ICE candidates
    Usable,         \* the one whose path works
    Chunks,         \* messages of a payload
    MaxAttempts,    \* bound: runs of `b2p send`
    Happen,         \* bound: the kinds of fault that happen, each once,
    MaxFaults       \*   and how many of them in one behaviour

\* A sender with a wrong code, either process killed, a subscription that ends,
\* a request to the rendezvous that fails, a network without a UDP path, a connection that
\* breaks, a timeout that races an answer, and frames of an earlier transfer
\* on the same channel number.
FaultKinds == {"wrong", "kill send", "kill recv", "stream", "publish", "blocked",
               "cut", "early", "stale"}

ASSUME PeerAssumption ==
    /\ RightCode # WrongCode /\ RightCode # OldCode /\ WrongCode # OldCode
    /\ IsFiniteSet(Cands) /\ Usable \in Cands
    /\ Chunks \in Nat \ {0} /\ MaxAttempts \in Nat
    /\ Happen \subseteq FaultKinds /\ MaxFaults \in Nat

VARIABLES
    topic,      \* the frames of the topic
    sub,        \* how far each peer has read its subscription; -1: none
    pc,         \* control point, by role
    att,        \* the attempt, by role
    code,       \* the code in use, by role
    key,        \* the session key, by role
    local,      \* is the local description set?
    remote,     \* is the remote description set?
    answering,  \* has the sender's pump still to publish its answer?
    pending_ice,\* candidates that came before the remote description
    applied,    \* candidates given to add_ice_candidate
    iced,       \* own candidates on_ice_candidate has been called for
    n,          \* messages of the payload sent or received, by role
    faults      \* the kinds of fault that have happened

signal == <<local, remote, answering, pending_ice, applied, iced>>
procs == <<pc, att, code, key, n>>
vars == <<topic, sub, procs, signal, faults, chan>>

Fault(k) ==
    /\ k \in Happen \ faults /\ Cardinality(faults) < MaxFaults
    /\ faults' = faults \cup {k}

Ended == {"Ok", "Establish", "Error", "Killed"}
Running(r) == pc[r] \notin Ended \cup {"Idle"}
Handshaking(r) == pc[r] \in {"Pake", "Confirm"}
Pumping(r) == pc[r] \in {"Offer", "Describe", "Negotiate"}

-----------------------------------------------------------------------------
(* The rendezvous.                                                         *)

NoKey == [code |-> OldCode, send |-> 0, recv |-> 0]
PakeFrame(r) == [kind |-> "pake", by |-> r, of |-> att[r]]
ConfirmFrame(r, k) == [kind |-> "confirm", by |-> r, key |-> k]
SdpFrame(r) == [kind |-> "sdp", by |-> r, key |-> key[r]]
IceFrame(r, c) == [kind |-> "ice", by |-> r, key |-> key[r], cand |-> c]

\* What the cache window holds of an earlier transfer with the same channel
\* number: any stretch of its key exchange.
OldFrames ==
    <<[kind |-> "pake", by |-> "recv", of |-> 0], [kind |-> "pake", by |-> "send", of |-> 0],
      [kind |-> "confirm", by |-> "recv", key |-> NoKey],
      [kind |-> "confirm", by |-> "send", key |-> NoKey]>>
StaleTopics == {SubSeq(OldFrames, i, j) : i \in 1..4, j \in 1..4} \ {<<>>}

\* Wrong variant: only frames from now on.
LiveOnly == Len(topic)
\* subscribe: since=3m, so the subscription starts with the cached frames.
SinceWindow == 0

Publish(f) == topic' = Append(topic, f)
HasFrame(r) == sub[r] >= 0 /\ sub[r] < Len(topic)
Frame(r) == topic[sub[r] + 1]
Taken(r) == sub' = [sub EXCEPT ![r] = @ + 1]

-----------------------------------------------------------------------------
(* How a run ends.                                                         *)

\* The process ends: its subscription, its pump and its channel go with it.
LeaveSeen(r, res, ends) ==
    /\ pc' = [pc EXCEPT ![r] = res]
    /\ sub' = [sub EXCEPT ![r] = -1]
    /\ answering' = IF r = "send" THEN FALSE ELSE answering
    /\ Gone(r, ends)
    /\ UNCHANGED <<topic, att, code, key, n, local, remote, pending_ice, applied, iced>>
Leave(r, res) == LeaveSeen(r, res, {"clean", "dead"})

-----------------------------------------------------------------------------
(* handshake_inner.                                                        *)

Subscribe(r) ==
    /\ pc[r] = "Subscribe"
    /\ sub' = [sub EXCEPT ![r] = SinceWindow]
    /\ pc' = [pc EXCEPT ![r] = "Publish"]
    /\ UNCHANGED <<topic, att, code, key, n, signal, faults, chan>>

PublishPake(r) ==
    /\ pc[r] = "Publish"
    /\ Publish(PakeFrame(r))
    /\ pc' = [pc EXCEPT ![r] = "Pake"]
    /\ UNCHANGED <<sub, att, code, key, n, signal, faults, chan>>

\* wait_for: the frame is of this kind and from the other role.
Wanted(r) == Frame(r).by = Other(r) /\ Frame(r).kind = (IF pc[r] = "Pake" THEN "pake" ELSE "confirm")

\* Pake::finish: both ends get the same key exactly when they use the same
\* code and each has the other's message.
KeyOf(r, theirs) ==
    [code |-> code[r],
     send |-> IF r = "send" THEN att[r] ELSE theirs,
     recv |-> IF r = "recv" THEN att[r] ELSE theirs]

GetPake(r) ==
    /\ pc[r] = "Pake" /\ HasFrame(r) /\ Wanted(r)
    /\ LET k == KeyOf(r, Frame(r).of) IN
       /\ key' = [key EXCEPT ![r] = k]
       /\ Publish(ConfirmFrame(r, k))
    /\ Taken(r)
    /\ pc' = [pc EXCEPT ![r] = "Confirm"]
    /\ UNCHANGED <<att, code, n, signal, faults, chan>>

\* Wrong variant: the confirmation is not verified.
ConfirmsAnything(r) == TRUE
\* verify_confirmation
Confirms(r) == Frame(r).key = key[r]

GetConfirm(r) ==
    /\ pc[r] = "Confirm" /\ HasFrame(r) /\ Wanted(r)
    /\ \/ /\ Confirms(r)
          /\ pc' = [pc EXCEPT ![r] = "Connect"]
          /\ sub' = [sub EXCEPT ![r] = -1]
          /\ UNCHANGED <<topic, att, code, key, n, signal, chan>>
       \/ ~Confirms(r) /\ Leave(r, "Establish")
    /\ UNCHANGED faults

\* Echoes of one's own frames and frames of other kinds are skipped.
SkipFrame(r) ==
    /\ Handshaking(r) /\ HasFrame(r) /\ ~Wanted(r)
    /\ Taken(r)
    /\ UNCHANGED <<topic, procs, signal, faults, chan>>

-----------------------------------------------------------------------------
(* establish.                                                              *)

\* Handlers are wired, a new subscription feeds the pump.
Establish(r) ==
    /\ pc[r] = "Connect"
    /\ sub' = [sub EXCEPT ![r] = SinceWindow]
    /\ pc' = [pc EXCEPT ![r] = IF r = "recv" THEN "Offer" ELSE "Negotiate"]
    /\ local' = [local EXCEPT ![r] = FALSE] /\ remote' = [remote EXCEPT ![r] = FALSE]
    /\ pending_ice' = [pending_ice EXCEPT ![r] = {}]
    /\ applied' = [applied EXCEPT ![r] = {}] /\ iced' = [iced EXCEPT ![r] = {}]
    /\ UNCHANGED <<topic, att, code, key, n, answering, faults, chan>>

\* The receiver drives the offer: candidates start to come before it is
\* published.
CreateOffer ==
    /\ pc["recv"] = "Offer"
    /\ local' = [local EXCEPT !["recv"] = TRUE]
    /\ pc' = [pc EXCEPT !["recv"] = "Describe"]
    /\ UNCHANGED <<topic, sub, att, code, key, n, remote, answering, pending_ice, applied, iced,
                   faults, chan>>
PublishOffer ==
    /\ pc["recv"] = "Describe"
    /\ Publish(SdpFrame("recv"))
    /\ pc' = [pc EXCEPT !["recv"] = "Negotiate"]
    /\ UNCHANGED <<sub, att, code, key, n, signal, faults, chan>>

\* wire_local_ice: on_ice_candidate publishes each candidate.
OnIceCandidate(r, c) ==
    /\ Pumping(r) /\ local[r] /\ c \notin iced[r]
    /\ iced' = [iced EXCEPT ![r] = @ \cup {c}]
    /\ Publish(IceFrame(r, c))
    /\ UNCHANGED <<sub, procs, local, remote, answering, pending_ice, applied, faults, chan>>

\* The pump takes frames of the other role that open under the session's key.
Opens(r) == Frame(r).by = Other(r) /\ Frame(r).kind \in {"sdp", "ice"} /\ Frame(r).key = key[r]
PumpReads(r) == Pumping(r) /\ HasFrame(r) /\ ~(r = "send" /\ answering)

PumpSkip(r) ==
    /\ PumpReads(r) /\ ~Opens(r)
    /\ Taken(r)
    /\ UNCHANGED <<topic, procs, signal, faults, chan>>

\* set_remote_description, the buffered candidates, and the sender's answer.
PumpSdp(r) ==
    /\ PumpReads(r) /\ Opens(r) /\ Frame(r).kind = "sdp"
    /\ Taken(r)
    /\ remote' = [remote EXCEPT ![r] = TRUE]
    /\ applied' = [applied EXCEPT ![r] = @ \cup pending_ice[r]]
    /\ pending_ice' = [pending_ice EXCEPT ![r] = {}]
    /\ IF r = "send"
       THEN local' = [local EXCEPT ![r] = TRUE] /\ answering' = TRUE
       ELSE UNCHANGED <<local, answering>>
    /\ UNCHANGED <<topic, procs, iced, faults, chan>>

PublishAnswer ==
    /\ Pumping("send") /\ answering
    /\ answering' = FALSE
    /\ Publish(SdpFrame("send"))
    /\ UNCHANGED <<sub, procs, local, remote, pending_ice, applied, iced, faults, chan>>

\* add_ice_candidate needs a remote description: earlier ones are buffered.
AddCandidate(r, c) ==
    IF remote[r]
    THEN applied' = [applied EXCEPT ![r] = @ \cup {c}] /\ UNCHANGED pending_ice
    ELSE pending_ice' = [pending_ice EXCEPT ![r] = @ \cup {c}] /\ UNCHANGED applied
PumpIce(r) ==
    /\ PumpReads(r) /\ Opens(r) /\ Frame(r).kind = "ice"
    /\ Taken(r)
    /\ AddCandidate(r, Frame(r).cand)
    /\ UNCHANGED <<topic, procs, local, remote, answering, iced, faults, chan>>

\* The engine: both ends know each other's description and the candidate pair
\* that works.
Reachable ==
    /\ "blocked" \notin faults
    /\ key["recv"] = key["send"] /\ fate = [r \in Roles |-> "none"]
    /\ \A r \in Roles : pc[r] = "Negotiate" /\ local[r] /\ remote[r] /\ Usable \in applied[r]
LinkForms ==
    /\ Reachable /\ ChannelOpens
    /\ UNCHANGED <<topic, sub, procs, signal, faults>>

\* on_open: establish returns and its pump is aborted.
Opened(r) ==
    /\ pc[r] = "Negotiate" /\ fate[r] # "none"
    /\ pc' = [pc EXCEPT ![r] = "Transfer"]
    /\ sub' = [sub EXCEPT ![r] = -1]
    /\ UNCHANGED <<topic, att, code, key, n, signal, faults, chan>>

-----------------------------------------------------------------------------
(* receive_p1 and send_p1 on the open channel.                             *)

chanButCall == <<flight, fate, inbox, closed_flag, waiter, handler>>
chanButInbox == <<flight, fate, closed_flag, call, waiter, handler>>
elsewhere == <<topic, sub, att, code, key, signal, faults>>

\* The driver of r is between two calls.
Between(r) == pc[r] = "Transfer" /\ call[r].at = NoCall

SendChunk ==
    /\ Between("send") /\ n["send"] < Chunks
    /\ SendBegin("send", "chunk")
    /\ UNCHANGED <<elsewhere, pc, n, chanButCall>>
SendAck ==
    /\ Between("recv") /\ n["recv"] = Chunks
    /\ SendBegin("recv", "ack")
    /\ UNCHANGED <<elsewhere, pc, n, chanButCall>>

\* A receiver whose ack is sent waits for the sender to close.
Sent(r) ==
    /\ call[r].at = SentOk
    /\ call' = [call EXCEPT ![r].at = NoCall]
    /\ IF r = "recv"
       THEN pc' = [pc EXCEPT ![r] = "Linger"] /\ UNCHANGED n
       ELSE n' = [n EXCEPT ![r] = @ + 1] /\ UNCHANGED pc
    /\ UNCHANGED <<elsewhere, chanButCall>>
SendFailed(r) ==
    /\ call[r].at = SentErr
    /\ Leave(r, "Error")
    /\ UNCHANGED faults

GetChunk ==
    /\ Between("recv") /\ n["recv"] < Chunks
    /\ Recv("recv", "chunk")
    /\ n' = [n EXCEPT !["recv"] = @ + 1]
    /\ UNCHANGED <<elsewhere, pc, chanButInbox>>

\* Wrong variant: success is reported once everything is sent.
AckAssumed == Between("send") /\ n["send"] = Chunks
\* The sender has its answer.
Acked == Between("send") /\ n["send"] = Chunks /\ inbox["send"] # <<>> /\ Head(inbox["send"]) = "ack"
GetAck ==
    /\ Acked
    /\ Leave("send", "Ok")
    /\ UNCHANGED faults

\* recv fails; a sender only calls it once it has sent everything.
RecvFails(r) ==
    /\ Between(r) /\ (r = "send" <=> n[r] = Chunks)
    /\ inbox[r] # <<>> /\ Head(inbox[r]) = Closed
    /\ Leave(r, "Error")
    /\ UNCHANGED faults

\* Whatever ends the wait, or its ten seconds, the receiver has succeeded.
LingerEnds ==
    /\ pc["recv"] = "Linger"
    /\ \/ inbox["recv"] # <<>> /\ UNCHANGED faults
       \/ Fault("early")
    /\ Leave("recv", "Ok")

-----------------------------------------------------------------------------
(* Users, timeouts and faults.                                             *)

Start(r, c) ==
    /\ pc' = [pc EXCEPT ![r] = "Subscribe"]
    /\ att' = [att EXCEPT ![r] = @ + 1]
    /\ code' = [code EXCEPT ![r] = c]
    /\ key' = [key EXCEPT ![r] = NoKey] /\ n' = [n EXCEPT ![r] = 0]
    /\ UNCHANGED <<topic, sub, signal, chan>>

StartReceive == pc["recv"] = "Idle" /\ Start("recv", RightCode) /\ UNCHANGED faults
\* `b2p send` may be run again, with the same code, when it has failed.
SendDue == pc["send"] \in {"Idle", "Establish", "Error", "Killed"} /\ att["send"] < MaxAttempts
StartSend == SendDue /\ Start("send", RightCode) /\ UNCHANGED faults
StartWrong == SendDue /\ Start("send", WrongCode) /\ Fault("wrong")

\* Process r has something to do, other than to wait.
Busy(r) ==
    \/ pc[r] \in {"Subscribe", "Publish", "Connect", "Offer", "Describe"}
    \/ (Handshaking(r) \/ Pumping(r)) /\ HasFrame(r)
    \/ Pumping(r) /\ local[r] /\ iced[r] # Cands
    \/ pc[r] = "Negotiate" /\ fate[r] # "none"
\* Nothing is under way that could end the wait of a peer.
Silent ==
    /\ ~Busy("send") /\ ~Busy("recv") /\ ~answering /\ ~Reachable
    /\ pc["recv"] # "Idle" /\ ~SendDue

\* HANDSHAKE_TIMEOUT (120 s) and CONNECT_TIMEOUT (45 s).
Timeout(r) ==
    /\ Handshaking(r) \/ Pumping(r)
    /\ \/ Silent /\ UNCHANGED faults
       \/ Fault("early")
    /\ Leave(r, "Establish")

\* A subscription ends: fatal for wait_for, silent for the pump.
StreamEnds(r) ==
    /\ sub[r] >= 0 /\ Fault("stream")
    /\ \/ Handshaking(r) /\ Leave(r, "Establish")
       \/ /\ Pumping(r)
          /\ sub' = [sub EXCEPT ![r] = -1]
          /\ UNCHANGED <<topic, procs, signal, chan>>

\* A request to the rendezvous fails, or hangs until the deadline: fatal for a
\* subscription, the key exchange and the offer, ignored for a candidate and
\* the answer.
PublishFails(r) ==
    /\ Fault("publish")
    /\ \/ pc[r] \in {"Subscribe", "Publish", "Connect", "Describe"} /\ Leave(r, "Establish")
       \/ pc[r] = "Pake" /\ HasFrame(r) /\ Wanted(r) /\ Leave(r, "Establish")
       \/ /\ Pumping(r) /\ local[r]
          /\ \E c \in Cands \ iced[r] : iced' = [iced EXCEPT ![r] = @ \cup {c}]
          /\ UNCHANGED <<topic, sub, procs, local, remote, answering, pending_ice, applied, chan>>
       \/ /\ r = "send" /\ Pumping(r) /\ answering
          /\ answering' = FALSE
          /\ UNCHANGED <<topic, sub, procs, local, remote, pending_ice, applied, iced, chan>>

Kill(r) ==
    /\ Running(r) /\ Fault(IF r = "send" THEN "kill send" ELSE "kill recv")
    /\ LeaveSeen(r, "Killed", {"dead"})

\* The network between the peers goes away, with what was under way.
Cut ==
    /\ fate = [r \in Roles |-> "up"] /\ Fault("cut")
    /\ fate' = [r \in Roles |-> "dead"]
    /\ \E i \in 0..Len(flight["send"]), j \in 0..Len(flight["recv"]) :
          flight' = [flight EXCEPT !["send"] = SubSeq(@, 1, i), !["recv"] = SubSeq(@, 1, j)]
    /\ UNCHANGED <<topic, sub, procs, signal, inbox, closed_flag, call, waiter, handler>>

-----------------------------------------------------------------------------
Init ==
    /\ faults \in {{}} \cup {{k} : k \in Happen \cap {"blocked", "stale"}}
    /\ topic \in IF "stale" \in faults THEN StaleTopics ELSE {<<>>}
    /\ sub = [r \in Roles |-> -1]
    /\ pc = [r \in Roles |-> "Idle"] /\ att = [r \in Roles |-> 0]
    /\ code = [r \in Roles |-> RightCode] /\ key = [r \in Roles |-> NoKey]
    /\ n = [r \in Roles |-> 0]
    /\ local = [r \in Roles |-> FALSE] /\ remote = [r \in Roles |-> FALSE]
    /\ answering = FALSE
    /\ pending_ice = [r \in Roles |-> {}] /\ applied = [r \in Roles |-> {}]
    /\ iced = [r \in Roles |-> {}]
    /\ ChannelInit

\* The engine's steps at one end.
Delivery(r) == OnMessage(r) /\ UNCHANGED <<topic, sub, procs, signal, faults>>
Closing(r, h) == CloseCallback(r, h) /\ UNCHANGED <<topic, sub, procs, signal, faults>>
SendSteps(r) ==
    /\ SendPrologue(r) \/ DcSend(r) \/ DcSendFails(r) \/ Notified(r)
    /\ UNCHANGED <<topic, sub, procs, signal, faults>>
Handshake(r) ==
    Subscribe(r) \/ PublishPake(r) \/ GetPake(r) \/ GetConfirm(r) \/ SkipFrame(r)
\* The task of establish, its pump and its callbacks.
Negotiation(r) ==
    \/ Establish(r) \/ PumpSkip(r) \/ PumpSdp(r) \/ PumpIce(r) \/ Opened(r)
    \/ r = "recv" /\ (CreateOffer \/ PublishOffer)
    \/ r = "send" /\ PublishAnswer
Candidates(r) == \E c \in Cands : OnIceCandidate(r, c)
Transfer(r) ==
    \/ Sent(r) \/ SendFailed(r) \/ RecvFails(r)
    \/ r = "recv" /\ (GetChunk \/ SendAck \/ LingerEnds)
    \/ r = "send" /\ (SendChunk \/ GetAck)

Works(r) == Handshake(r) \/ Negotiation(r) \/ SendSteps(r) \/ Transfer(r)
Users == StartReceive \/ StartSend
Faulty ==
    \/ StartWrong \/ Cut
    \/ \E r \in Roles : StreamEnds(r) \/ PublishFails(r) \/ Kill(r)

Next ==
    \/ Users \/ LinkForms \/ Faulty
    \/ \E r \in Roles : Works(r) \/ Candidates(r) \/ Delivery(r) \/ Timeout(r)
    \/ \E r \in Roles, h \in Callbacks : Closing(r, h)

Spec == Init /\ [][Next]_vars

\* Both processes, their callbacks and the engine keep working, a wait ends with
\* its deadline, and the user runs both commands.
Fairness ==
    /\ WF_vars(StartReceive) /\ WF_vars(StartSend) /\ WF_vars(LinkForms)
    /\ \A r \in Roles :
          /\ WF_vars(Works(r)) /\ WF_vars(Candidates(r)) /\ WF_vars(Delivery(r))
          /\ WF_vars(Timeout(r))
          /\ \A h \in Callbacks : WF_vars(Closing(r, h))

FairSpec == Spec /\ Fairness

-----------------------------------------------------------------------------
(* Properties.                                                             *)

\* Every variable has its type.
TypeOK ==
    /\ \A r \in Roles : sub[r] \in -1..Len(topic)
    /\ pc["send"] \in {"Idle", "Subscribe", "Publish", "Pake", "Confirm", "Connect",
                       "Negotiate", "Transfer"} \cup Ended
    /\ pc["recv"] \in {"Idle", "Subscribe", "Publish", "Pake", "Confirm", "Connect",
                       "Offer", "Describe", "Negotiate", "Transfer", "Linger"} \cup Ended
    /\ \A r \in Roles : applied[r] \cup pending_ice[r] \cup iced[r] \subseteq Cands
    /\ n \in [Roles -> 0..Chunks]
    /\ \A r \in Roles : Len(inbox[r]) <= InboxCap /\ Len(flight[r]) <= Window
    /\ faults \subseteq Happen

\* The peer has passed the key exchange.
Trusted(r) == Running(r) /\ ~Handshaking(r) /\ pc[r] \notin {"Subscribe", "Publish"}

\* A peer only goes on from the key exchange with a key that its own code and
\* attempt went into and, if the other is past it too, with the other's key:
\* whatever stale, replayed or foreign frames the topic holds.
SameKey ==
    \A r \in Roles : Trusted(r) =>
        /\ key[r].code = RightCode /\ key[r][r] = att[r]
        /\ Trusted(Other(r)) => key[Other(r)] = key[r]

\* `b2p send` reports success only if the receiver has received everything.
SuccessMeansReceived == pc["send"] = "Ok" => n["recv"] = Chunks

\* Every run of either command ends: with a peer that dies at any step, a
\* rendezvous that fails, a network without a path, a full buffer.
EveryRunEnds == \A r \in Roles : Running(r) ~> ~Running(r)

\* When nothing goes wrong both commands succeed: no frame, candidate or ack is
\* lost to the order in which the peers come to subscribe, describe, open
\* and leave.
BothSucceed == <>(faults # {} \/ \A r \in Roles : pc[r] = "Ok")
=============================================================================
