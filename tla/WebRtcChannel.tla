---------------------------- MODULE WebRtcChannel ----------------------------
(***************************************************************************)
(* The two ends of an open WebRTC data channel as transport/webrtc.rs      *)
(* wraps them: send, which races SCTP backpressure against a close latch,  *)
(* the callbacks of the engine, which feed one bounded queue, and what     *)
(* Drop leaves to the peer.                                                *)
(*                                                                         *)
(* The WebRTC engine is external.  It delivers in order what has been      *)
(* handed to it; when a peer is gone it either closes the data channel     *)
(* (the peer ran pc.close) or reports a failed connection.                 *)
(***************************************************************************)
EXTENDS Naturals, Sequences

CONSTANTS
    InboxCap,       \* capacity of the mpsc channel (64)
    Window          \* messages the engine takes before send blocks (128 MiB)

ASSUME ChannelAssumption == InboxCap \in Nat \ {0} /\ Window \in Nat \ {0}

Roles == {"recv", "send"}
Other(r) == IF r = "send" THEN "recv" ELSE "send"

VARIABLES
    flight,         \* by role: messages on their way to this end
    fate,           \* the engine's view of the connection, by role
    inbox,          \* the mpsc channel of Items, by role
    closed_flag,    \* the close latch, by role
    call,           \* the send call in progress, by role
    waiter,         \* its Notified future, by role
    handler         \* progress of the two close callbacks, by role

chan == <<flight, fate, inbox, closed_flag, call, waiter, handler>>

Closed == "closed"                      \* Item::Closed; any other item is a message
Callbacks == {"on_close", "on_state"}

-----------------------------------------------------------------------------
(* send                                                                    *)

\* Wrong variant: the flag is read before the waiter is registered.
CheckFirst == <<"check", "enable">>
\* The Notified future is enabled before closed_flag is read.
SendOrder == <<"enable", "check">>

\* Points of a call: none, the two steps above, the select, and its result.
NoCall == 0
Select == 3
SentOk == 4
SentErr == 5

SendBegin(r, m) == call' = [call EXCEPT ![r] = [at |-> 1, msg |-> m]]
Returns(r, res) ==
    /\ call' = [call EXCEPT ![r].at = res]
    /\ waiter' = [waiter EXCEPT ![r] = "none"]

SendPrologue(r) ==
    /\ call[r].at \in 1..2
    /\ LET step == SendOrder[call[r].at] IN
       \/ /\ step = "enable"
          /\ waiter' = [waiter EXCEPT ![r] = "enabled"]
          /\ call' = [call EXCEPT ![r].at = @ + 1]
       \/ /\ step = "check" /\ ~closed_flag[r]
          /\ call' = [call EXCEPT ![r].at = @ + 1]
          /\ UNCHANGED waiter
       \/ /\ step = "check" /\ closed_flag[r]
          /\ Returns(r, SentErr)
    /\ UNCHANGED <<flight, fate, inbox, closed_flag, handler>>

\* dc.send: the message is handed to the engine, as soon as it takes it.
DcSend(r) ==
    /\ call[r].at = Select /\ Len(flight[Other(r)]) < Window
    /\ flight' = [flight EXCEPT ![Other(r)] = Append(@, call[r].msg)]
    /\ Returns(r, SentOk)
    /\ UNCHANGED <<fate, inbox, closed_flag, handler>>

\* dc.send may fail on a channel the peer has closed.
DcSendFails(r) ==
    /\ call[r].at = Select /\ fate[r] = "clean"
    /\ Returns(r, SentErr)
    /\ UNCHANGED <<flight, fate, inbox, closed_flag, handler>>

\* The other branch of the select.
Notified(r) ==
    /\ call[r].at = Select /\ waiter[r] = "woken"
    /\ Returns(r, SentErr)
    /\ UNCHANGED <<flight, fate, inbox, closed_flag, handler>>

-----------------------------------------------------------------------------
(* Callbacks                                                               *)

\* The queue has room for one more item.
Room(r) == Len(inbox[r]) < InboxCap
Push(r, item) == inbox' = [inbox EXCEPT ![r] = Append(@, item)]

\* on_message: waits for room.
OnMessage(r) ==
    /\ fate[r] # "none" /\ flight[r] # <<>> /\ Room(r)
    /\ handler[r]["on_close"] = 0
    /\ Push(r, Head(flight[r]))
    /\ flight' = [flight EXCEPT ![r] = Tail(@)]
    /\ UNCHANGED <<fate, closed_flag, call, waiter, handler>>

\* The engine calls on_close after the messages of a channel its peer has
\* closed, and the state change handler whenever the connection has failed.
Fires(r, h) ==
    IF h = "on_close" THEN fate[r] = "clean" /\ flight[r] = <<>>
    ELSE fate[r] \in {"clean", "dead"}

\* Both callbacks set the latch, wake the waiters that are registered, and
\* then wait for room for Item::Closed.
CloseCallback(r, h) ==
    /\ handler' = [handler EXCEPT ![r][h] = @ + 1]
    /\ \/ /\ handler[r][h] = 0 /\ Fires(r, h)
          /\ closed_flag' = [closed_flag EXCEPT ![r] = TRUE]
          /\ UNCHANGED <<inbox, waiter>>
       \/ /\ handler[r][h] = 1
          /\ waiter' = [waiter EXCEPT ![r] = IF @ = "enabled" THEN "woken" ELSE @]
          /\ UNCHANGED <<inbox, closed_flag>>
       \/ /\ handler[r][h] = 2 /\ Room(r)
          /\ Push(r, Closed)
          /\ UNCHANGED <<closed_flag, waiter>>
    /\ UNCHANGED <<flight, fate, call>>

\* recv: the next item is taken.
Recv(r, item) ==
    /\ inbox[r] # <<>> /\ Head(inbox[r]) = item
    /\ inbox' = [inbox EXCEPT ![r] = Tail(@)]

-----------------------------------------------------------------------------
(* The connection                                                          *)

ChannelInit ==
    /\ flight = [r \in Roles |-> <<>>] /\ fate = [r \in Roles |-> "none"]
    /\ inbox = [r \in Roles |-> <<>>] /\ closed_flag = [r \in Roles |-> FALSE]
    /\ call = [r \in Roles |-> [at |-> NoCall, msg |-> Closed]]
    /\ waiter = [r \in Roles |-> "none"]
    /\ handler = [r \in Roles |-> [h \in Callbacks |-> 0]]

\* ICE, DTLS and SCTP are up.
ChannelOpens ==
    /\ fate = [r \in Roles |-> "none"]
    /\ fate' = [r \in Roles |-> "up"]
    /\ UNCHANGED <<flight, inbox, closed_flag, call, waiter, handler>>

\* One end is gone.  Drop gives the engine a second to flush and closes the
\* connection, but a process that exits takes that task with it: the peer sees
\* either kind of end, after any part of what was under way.
Gone(r, ends) ==
    LET o == Other(r) IN
    /\ \E e \in ends, k \in 0..Len(flight[o]) :
          /\ fate' = [fate EXCEPT ![r] = "none", ![o] = IF @ = "up" THEN e ELSE @]
          /\ flight' = [flight EXCEPT ![r] = <<>>, ![o] = IF fate[o] = "up" THEN SubSeq(@, 1, k) ELSE @]
    /\ inbox' = [inbox EXCEPT ![r] = <<>>]
    /\ closed_flag' = [closed_flag EXCEPT ![r] = FALSE]
    /\ call' = [call EXCEPT ![r].at = NoCall]
    /\ waiter' = [waiter EXCEPT ![r] = "none"]
    /\ handler' = [handler EXCEPT ![r] = [h \in Callbacks |-> 0]]
=============================================================================
