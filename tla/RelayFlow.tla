------------------------------ MODULE RelayFlow ------------------------------
(***************************************************************************)
(* Flow control of a relay channel (transport/relay.rs): RelayChannel's    *)
(* send, recv and close on both ends and their io_tasks, for the frames of *)
(* one direction and the acks that come back.                              *)
(*                                                                         *)
(* Abstractions.  Frames are numbered in the order they are sent; off[i]   *)
(* is the number of bytes sent up to and including frame i.  A FIFO queue  *)
(* of frames between two stages is the interval between two counters:      *)
(*                                                                         *)
(*    taken+1..Len(off)    out_rx, the unbounded queue to the io task      *)
(*    flushed+1..taken     pending                                         *)
(*    pushed+1..batch      frames of the WS message being handled          *)
(*    got+1..pushed        in_rx, of capacity InCap                        *)
(*                                                                         *)
(* A WS message is the number of the last frame it completes: which frames *)
(* pack_frames puts in one message depends on their sizes, so any number   *)
(* of them may go, and a frame split over several messages counts in the   *)
(* one that completes it.                                                  *)
(***************************************************************************)
EXTENDS Integers, Sequences

CONSTANTS
    Window,         \* WINDOW
    AckEvery,       \* ACK_EVERY
    MaxFrame,       \* MAX_LOGICAL_FRAME
    InCap,          \* capacity of the channel between io_task and recv
    Lens,           \* lengths of the frames the application sends
    MaxFrames,      \* bound: frames sent
    Upsets          \* what may go wrong: "drop", "stall", "leave"

ASSUME FlowAssumption ==
    /\ Window \in Nat \ {0} /\ AckEvery \in Nat \ {0} /\ MaxFrame \in Nat \ {0}
    /\ InCap \in Nat \ {0} /\ MaxFrames \in Nat
    /\ Lens \subseteq Nat \ {0}
    /\ Upsets \subseteq {"drop", "stall", "leave"}

VARIABLES
    app,        \* the sending application: "Run", "Closed", "TooBig" or "Lost"
    want,       \* length of the frame its send() holds, 0 when not in send()
    sent,       \* RelayChannel.sent
    off,        \* off[i]: value of sent once frame i was sent
    acked,      \* the watch channel acked_tx feeds
    taken, flushed,
    txio,       \* the sender's io_task: "run", "closing" or "dead"
    link,       \* "up", "closing" and then "closed" by the sender, or "down"
    wire,       \* WS messages on their way to the receiver
    acks,       \* ack controls on their way to the sender
    batch, pushed, got,
    consumed, acked_out,
    rxio,       \* the receiver's io_task
    rxapp       \* the receiving application: "run", "stalled" or "gone"

txvars == <<app, want, sent, off, acked, taken, flushed, txio>>
rxvars == <<batch, pushed, got, consumed, acked_out, rxio, rxapp>>
vars == <<txvars, link, wire, acks, rxvars>>

-----------------------------------------------------------------------------
(* The sending application.                                                *)

Unacked == sent - acked

\* Wrong variants: no escape for a frame larger than the window; the length of
\* the frame is not counted.
NoEscape(len) == Unacked + len <= Window
LateCheck(len) == Unacked <= Window \/ Unacked < AckEvery
\* The window check of send(): a frame may go when it fits the window, or
\* when the pipe is as drained as threshold-batched acks can show it to be.
WindowOpen(len) == Unacked + len <= Window \/ Unacked < AckEvery

SendCall(len) ==
    /\ app = "Run" /\ want = 0 /\ Len(off) < MaxFrames
    /\ \/ len > MaxFrame /\ app' = "TooBig" /\ UNCHANGED want
       \/ len <= MaxFrame /\ want' = len /\ UNCHANGED app
    /\ UNCHANGED <<sent, off, acked, taken, flushed, txio, link, wire, acks, rxvars>>

\* The frame is counted, then queued for the io task if that still runs.
SendPass ==
    /\ want # 0 /\ WindowOpen(want)
    /\ sent' = sent + want
    /\ want' = 0
    /\ \/ txio # "dead" /\ off' = Append(off, sent') /\ UNCHANGED app
       \/ txio = "dead" /\ app' = "Lost" /\ UNCHANGED off
    /\ UNCHANGED <<acked, taken, flushed, txio, link, wire, acks, rxvars>>

\* A blocked send fails when the io task has ended, or when a receiver that
\* no longer reads lets PROGRESS_TIMEOUT pass without an ack.
SendGivesUp ==
    /\ want # 0 /\ ~WindowOpen(want)
    /\ txio = "dead" \/ rxapp = "stalled"
    /\ app' = "Lost" /\ want' = 0
    /\ UNCHANGED <<sent, off, acked, taken, flushed, txio, link, wire, acks, rxvars>>

\* close() queues OutMsg::Close behind the frames.
Close ==
    /\ app = "Run" /\ want = 0
    /\ app' = "Closed"
    /\ UNCHANGED <<want, sent, off, acked, taken, flushed, txio, link, wire, acks, rxvars>>

-----------------------------------------------------------------------------
(* The sender's io_task.                                                   *)

\* It takes all that is queued, and the Close (or the end of the queue)
\* after it.
Take ==
    /\ txio = "run" /\ flushed = taken
    /\ taken < Len(off) \/ app # "Run"
    /\ taken' = Len(off)
    /\ txio' = IF app # "Run" THEN "closing" ELSE "run"
    /\ UNCHANGED <<app, want, sent, off, acked, flushed, link, wire, acks, rxvars>>

Flush ==
    /\ txio # "dead" /\ link = "up"
    /\ \E k \in (flushed + 1)..taken :
          flushed' = k /\ wire' = Append(wire, k)
    /\ UNCHANGED <<app, want, sent, off, acked, taken, txio, link, acks, rxvars>>

\* Wrong variant: what is pending is not flushed first.
HastyCloseSocket ==
    /\ txio = "closing" /\ link = "up"
    /\ txio' = "dead" /\ link' = "closing"
    /\ UNCHANGED <<app, want, sent, off, acked, taken, flushed, wire, acks, rxvars>>
\* Everything pending goes out before the socket is closed.
CloseSocket ==
    /\ txio = "closing" /\ flushed = taken /\ link = "up"
    /\ txio' = "dead" /\ link' = "closing"
    /\ UNCHANGED <<app, want, sent, off, acked, taken, flushed, wire, acks, rxvars>>

GetAck ==
    /\ txio = "run" /\ flushed = taken /\ acks # <<>>
    /\ acked' = Head(acks) /\ acks' = Tail(acks)
    /\ UNCHANGED <<app, want, sent, off, taken, flushed, txio, link, wire, rxvars>>

TxDies ==
    /\ txio # "dead" /\ link = "down"
    /\ txio' = "dead"
    /\ UNCHANGED <<app, want, sent, off, acked, taken, flushed, link, wire, acks, rxvars>>

-----------------------------------------------------------------------------
(* The receiver's io_task and application.                                 *)

ReadMessage ==
    /\ rxio = "run" /\ batch = pushed /\ wire # <<>>
    /\ batch' = Head(wire) /\ wire' = Tail(wire)
    /\ UNCHANGED <<txvars, link, acks, pushed, got, consumed, acked_out, rxio, rxapp>>

\* Bytes of frame i.
LenOf(i) == off[i] - (IF i = 1 THEN 0 ELSE off[i - 1])

\* Wrong variant: the threshold is off by one.
LazyAckIfDue(c) ==
    IF c - acked_out > AckEvery
    THEN /\ acked_out' = c
         /\ acks' = IF link = "up" THEN Append(acks, c) ELSE acks
    ELSE UNCHANGED <<acked_out, acks>>
\* After a WS message has been handled, its bytes are acknowledged if enough
\* have gathered.
AckIfDue(c) ==
    IF c - acked_out >= AckEvery
    THEN /\ acked_out' = c
         /\ acks' = IF link = "up" THEN Append(acks, c) ELSE acks
    ELSE UNCHANGED <<acked_out, acks>>

\* Each frame of the message is handed to the application, waiting for room.
Push ==
    /\ rxio = "run" /\ pushed < batch /\ rxapp # "gone" /\ pushed - got < InCap
    /\ pushed' = pushed + 1
    /\ consumed' = consumed + LenOf(pushed + 1)
    /\ \/ pushed + 1 = batch /\ AckIfDue(consumed')
       \/ pushed + 1 < batch /\ UNCHANGED <<acked_out, acks>>
    /\ UNCHANGED <<txvars, link, wire, batch, got, rxio, rxapp>>

\* The application has dropped the channel: the frame is counted, the rest of
\* the message is not looked at, and the task winds down.
PushFails ==
    /\ rxio = "run" /\ pushed < batch /\ rxapp = "gone"
    /\ consumed' = consumed + LenOf(pushed + 1)
    /\ AckIfDue(consumed')
    /\ rxio' = "closing"
    /\ UNCHANGED <<txvars, link, wire, batch, pushed, got, rxapp>>

RxNoticesGone ==
    /\ rxio = "run" /\ pushed = batch /\ rxapp = "gone"
    /\ rxio' = "closing"
    /\ UNCHANGED <<txvars, link, wire, acks, batch, pushed, got, consumed, acked_out, rxapp>>

RxCloses ==
    /\ rxio = "closing"
    /\ rxio' = "dead" /\ link' = "down" /\ wire' = <<>> /\ acks' = <<>>
    /\ UNCHANGED <<txvars, batch, pushed, got, consumed, acked_out, rxapp>>

RxDies ==
    /\ rxio = "run" /\ pushed = batch
    /\ link = "down" \/ (link = "closing" /\ wire = <<>>)
    /\ rxio' = "dead" /\ acks' = <<>>
    /\ link' = IF link = "closing" THEN "closed" ELSE "down"
    /\ UNCHANGED <<txvars, wire, batch, pushed, got, consumed, acked_out, rxapp>>

Recv ==
    /\ rxapp = "run" /\ got < pushed
    /\ got' = got + 1
    /\ UNCHANGED <<txvars, link, wire, acks, batch, pushed, consumed, acked_out, rxio, rxapp>>

\* The receiving application wedges, or drops the channel.
Stall ==
    /\ "stall" \in Upsets /\ rxapp = "run"
    /\ rxapp' = "stalled"
    /\ UNCHANGED <<txvars, link, wire, acks, batch, pushed, got, consumed, acked_out, rxio>>

Leave ==
    /\ "leave" \in Upsets /\ rxapp = "run"
    /\ rxapp' = "gone"
    /\ UNCHANGED <<txvars, link, wire, acks, batch, pushed, got, consumed, acked_out, rxio>>

\* The connection breaks; what has not been read is lost.
Drop ==
    /\ "drop" \in Upsets /\ link \in {"up", "closing"}
    /\ link' = "down" /\ wire' = <<>> /\ acks' = <<>>
    /\ UNCHANGED <<txvars, rxvars>>

-----------------------------------------------------------------------------
Init ==
    /\ app = "Run" /\ want = 0 /\ sent = 0 /\ off = <<>> /\ acked = 0
    /\ taken = 0 /\ flushed = 0 /\ txio = "run"
    /\ link = "up" /\ wire = <<>> /\ acks = <<>>
    /\ batch = 0 /\ pushed = 0 /\ got = 0 /\ consumed = 0 /\ acked_out = 0
    /\ rxio = "run" /\ rxapp = "run"

TxSteps == Take \/ Flush \/ CloseSocket \/ GetAck \/ TxDies
RxSteps == ReadMessage \/ Push \/ PushFails \/ RxNoticesGone \/ RxCloses \/ RxDies
SendReturnSteps == SendPass \/ SendGivesUp

Next ==
    \/ \E len \in Lens : SendCall(len)
    \/ SendReturnSteps \/ Close
    \/ TxSteps \/ RxSteps \/ Recv
    \/ Stall \/ Leave \/ Drop

Spec == Init /\ [][Next]_vars

\* Both io tasks run, a send that can return does, the select polls acks as
\* well as queued frames, and the application reads until it stalls.
Fairness ==
    /\ WF_vars(SendReturnSteps)
    /\ WF_vars(Take) /\ WF_vars(Flush) /\ WF_vars(CloseSocket)
    /\ WF_vars(GetAck) /\ WF_vars(TxDies)
    /\ WF_vars(RxSteps) /\ WF_vars(Recv)

FairSpec == Spec /\ Fairness

-----------------------------------------------------------------------------
(* Properties.                                                             *)

\* Every variable has its type.
TypeOK ==
    /\ app \in {"Run", "Closed", "TooBig", "Lost"}
    /\ want \in Nat /\ sent \in Nat /\ acked \in Nat
    /\ off \in Seq(Nat)
    /\ taken \in Nat /\ flushed \in Nat
    /\ txio \in {"run", "closing", "dead"}
    /\ link \in {"up", "closing", "closed", "down"}
    /\ wire \in Seq(Nat) /\ acks \in Seq(Nat)
    /\ batch \in Nat /\ pushed \in Nat /\ got \in Nat
    /\ consumed \in Nat /\ acked_out \in Nat
    /\ rxio \in {"run", "closing", "dead"}
    /\ rxapp \in {"run", "stalled", "gone"}

Larger(m, n) == IF m > n THEN m ELSE n

\* The comment at send(): relay buffering stays bounded by max(WINDOW, frame
\* size) + ACK_EVERY.  What has been sent and not acknowledged never exceeds
\* that, however late the acks arrive, and acks never overtake what was sent
\* (so saturating_sub never saturates).
BufferBounded ==
    /\ acked <= sent
    /\ Unacked < Larger(Window, MaxFrame) + AckEvery

\* Everything that was sent has been consumed and every ack has arrived.
Drained ==
    /\ taken = Len(off) /\ flushed = taken /\ wire = <<>>
    /\ pushed = batch /\ acks = <<>>

\* "unacked < ACK_EVERY is the true drained floor": a send is never blocked on
\* a window that no ack still under way could open.
NoFalseStall ==
    link = "up" /\ txio = "run" /\ rxio = "run" /\ want # 0 /\ Drained
        => WindowOpen(want)

\* A send() in progress returns: the frame goes, or the caller learns of the
\* loss, even when the receiving application wedges.
SendReturns == want # 0 ~> want = 0

\* Frames sent before close() all reach the application at the other end,
\* unless the connection breaks or that application stops reading.
CloseFlushes ==
    app = "Closed" ~> (got = Len(off) \/ link = "down" \/ rxapp # "run")

-----------------------------------------------------------------------------
(* The inductive invariant.                                                *)

\* Bytes of the first i frames.
Off(i) == IF i = 0 THEN 0 ELSE off[i]

\* A sequence of numbers grows strictly and stays within lo+1..hi.
Climbs(q, lo, hi) ==
    /\ \A k \in 1..Len(q) : lo < q[k] /\ q[k] <= hi
    /\ \A k, m \in 1..Len(q) : k < m => q[k] < q[m]

\* Frames only move forward, and their bytes add up.
FrameInv ==
    /\ got <= pushed /\ pushed <= batch /\ batch <= flushed
    /\ flushed <= taken /\ taken <= Len(off)
    /\ \A i, j \in 0..Len(off) : i <= j => Off(i) <= Off(j)
    /\ Off(Len(off)) <= sent
    /\ txio # "dead" => sent = Off(Len(off))

\* The messages in flight are those flushed and not yet read.
WireInv ==
    /\ Climbs(wire, batch, flushed)
    /\ link = "up" => IF wire = <<>> THEN batch = flushed ELSE wire[Len(wire)] = flushed

\* The acks in flight lead from what the sender knows to what the receiver
\* has acknowledged, which is less than AckEvery behind what it consumed.
AckInv ==
    /\ consumed <= Off(Len(off))
    /\ rxio = "run" => consumed = Off(pushed)
    /\ acked <= acked_out /\ acked_out <= consumed
    /\ Climbs(acks, acked, acked_out)
    /\ link = "up" => IF acks = <<>> THEN acked = acked_out ELSE acks[Len(acks)] = acked_out
    /\ rxio = "run" /\ pushed = batch => consumed - acked_out < AckEvery

WantInv == want <= MaxFrame

FlowInv == TypeOK /\ FrameInv /\ WireInv /\ AckInv /\ WantInv /\ BufferBounded
=============================================================================
