------------------------------ MODULE Batching ------------------------------
(***************************************************************************)
(* How a relay channel carries frames in WebSocket messages                *)
(* (transport/relay.rs: pack_frames and Debatcher): several small frames   *)
(* share a message, a large one is split over several, and the other end   *)
(* puts them together again.  One action per iteration of the two loops.   *)
(*                                                                         *)
(* A frame is the sequence of its bytes; byte j of frame n is <<n, j>>, so *)
(* that no two frames can be mistaken for each other.  A message is a      *)
(* sequence of pieces, each Header bytes longer than its body.  A piece    *)
(* also records where it was taken from: a history that no step looks at.  *)
(***************************************************************************)
EXTENDS Integers, Sequences

CONSTANTS
    MaxPayload,     \* MAX_WS_PAYLOAD
    Header,         \* bytes of a piece header (4)
    MaxLogical,     \* MAX_LOGICAL_FRAME
    Lens,           \* lengths of the frames to send
    MaxFrames       \* bound: frames sent

ASSUME BatchAssumption ==
    /\ MaxPayload \in Nat /\ Header \in Nat /\ MaxLogical \in Nat /\ MaxFrames \in Nat
    /\ MaxPayload > Header
    /\ Lens \subseteq Nat

VARIABLES
    frames,     \* the frames sent so far
    queue,      \* those the io task has not taken yet
    pending,    \* its deque; the front may be the rest of a split frame
    buf,        \* the payload pack_frames is building
    used,       \* buf.len()
    full,       \* has pack_frames split a frame, and so ended its loop?
    packed,     \* history: the frame it is at, and how many of its bytes are packed
    wire,       \* messages under way
    msg,        \* pieces of the message Debatcher::push is working on
    partial,    \* Debatcher.partial
    out,        \* frames that came out
    bailed      \* did Debatcher::push give up?

txvars == <<frames, queue, pending, buf, used, full, packed>>
rxvars == <<msg, partial, out, bailed>>
vars == <<txvars, wire, rxvars>>

Bytes(n, len) == [j \in 1..len |-> <<n, j>>]

\* A piece is added to the payload, with its header.
Extend(body, cont) ==
    /\ buf' = Append(buf, [body |-> body, cont |-> cont, at |-> packed])
    /\ used' = used + Header + Len(body)
    /\ packed' = IF cont THEN [packed EXCEPT !.byte = @ + Len(body)]
                 ELSE [frame |-> packed.frame + 1, byte |-> 0]

-----------------------------------------------------------------------------
\* Wrong variant: the header of the next piece is not counted.
NoHeaderRoom == IF used > MaxPayload THEN 0 ELSE MaxPayload - used
\* Body bytes that still fit: MAX_WS_PAYLOAD.saturating_sub(buf.len() + 4).
Room == IF used + Header > MaxPayload THEN 0 ELSE MaxPayload - (used + Header)

\* RelayChannel::send refuses a frame the other end would not put together.
Send(len) ==
    /\ Len(frames) < MaxFrames /\ len <= MaxLogical
    /\ LET f == Bytes(Len(frames) + 1, len) IN
       frames' = Append(frames, f) /\ queue' = Append(queue, f)
    /\ UNCHANGED <<pending, buf, used, full, packed, wire, rxvars>>

\* io_task takes all that is queued once it has flushed what it had.
Take ==
    /\ pending = <<>> /\ buf = <<>> /\ queue # <<>>
    /\ pending' = queue /\ queue' = <<>>
    /\ UNCHANGED <<frames, buf, used, full, packed, wire, rxvars>>

PackWhole ==
    /\ pending # <<>> /\ ~full /\ Room # 0
    /\ Len(Head(pending)) <= Room
    /\ Extend(Head(pending), FALSE)
    /\ pending' = Tail(pending)
    /\ UNCHANGED <<frames, queue, full, wire, rxvars>>

\* Wrong variant: the piece does not announce its continuation.
ForgetCont ==
    /\ pending # <<>> /\ ~full /\ Room # 0
    /\ Len(Head(pending)) > Room
    /\ Extend(SubSeq(Head(pending), 1, Room), FALSE)
    /\ pending' = [pending EXCEPT ![1] = SubSeq(@, Room + 1, Len(@))]
    /\ full' = TRUE
    /\ UNCHANGED <<frames, queue, wire, rxvars>>
\* A frame that does not fit is split, and the payload is full.
PackSplit ==
    /\ pending # <<>> /\ ~full /\ Room # 0
    /\ Len(Head(pending)) > Room
    /\ Extend(SubSeq(Head(pending), 1, Room), TRUE)
    /\ pending' = [pending EXCEPT ![1] = SubSeq(@, Room + 1, Len(@))]
    /\ full' = TRUE
    /\ UNCHANGED <<frames, queue, wire, rxvars>>

\* The loop ends and io_task sends the payload.
SendPayload ==
    /\ pending = <<>> \/ full \/ Room = 0
    /\ buf # <<>>
    /\ wire' = Append(wire, buf)
    /\ buf' = <<>> /\ used' = 0 /\ full' = FALSE
    /\ UNCHANGED <<frames, queue, pending, packed, rxvars>>

-----------------------------------------------------------------------------
\* Debatcher::push is called with the next message.
Receive ==
    /\ msg = <<>> /\ wire # <<>> /\ ~bailed
    /\ msg' = Head(wire) /\ wire' = Tail(wire)
    /\ UNCHANGED <<txvars, partial, out, bailed>>

\* Wrong variant: a frame of the largest allowed size is refused.
TightUnpack ==
    /\ msg # <<>> /\ ~bailed
    /\ LET whole == partial \o Head(msg).body IN
       \/ /\ Len(whole) >= MaxLogical
          /\ bailed' = TRUE
          /\ UNCHANGED <<msg, partial, out>>
       \/ /\ Len(whole) < MaxLogical
          /\ msg' = Tail(msg)
          /\ partial' = IF Head(msg).cont THEN whole ELSE <<>>
          /\ out' = IF Head(msg).cont THEN out ELSE Append(out, whole)
          /\ UNCHANGED bailed
    /\ UNCHANGED <<txvars, wire>>
\* It appends each piece to what it has, and hands out the frame when no
\* continuation is announced.
Unpack ==
    /\ msg # <<>> /\ ~bailed
    /\ LET whole == partial \o Head(msg).body IN
       IF Len(whole) > MaxLogical
       THEN bailed' = TRUE /\ UNCHANGED <<msg, partial, out>>
       ELSE /\ msg' = Tail(msg)
            /\ partial' = IF Head(msg).cont THEN whole ELSE <<>>
            /\ out' = IF Head(msg).cont THEN out ELSE Append(out, whole)
            /\ UNCHANGED bailed
    /\ UNCHANGED <<txvars, wire>>

-----------------------------------------------------------------------------
Init ==
    /\ frames = <<>> /\ queue = <<>> /\ pending = <<>> /\ buf = <<>> /\ used = 0 /\ full = FALSE
    /\ packed = [frame |-> 1, byte |-> 0]
    /\ wire = <<>> /\ msg = <<>> /\ partial = <<>> /\ out = <<>> /\ bailed = FALSE

TxWork == Take \/ PackWhole \/ PackSplit \/ SendPayload
RxWork == Receive \/ Unpack

Next == TxWork \/ RxWork \/ \E len \in Lens : Send(len)

Spec == Init /\ [][Next]_vars

\* Both io tasks keep working; frames need not keep coming.
FairSpec == Spec /\ WF_vars(TxWork) /\ WF_vars(RxWork)

-----------------------------------------------------------------------------
(* Properties.                                                             *)

\* No message is larger than the relay accepts, headers included.
PayloadFits == used <= MaxPayload

\* What comes out is what went in: the same frames, whole and in order,
\* however they were packed and split.
Reassembles == Len(out) <= Len(frames) /\ \A i \in 1..Len(out) : out[i] = frames[i]

\* A frame send() lets through is never refused by the Debatcher at the other
\* end, which would end the connection and be retried for ever.
NeverBails == ~bailed

\* Every frame handed to the io task comes out: splitting always makes
\* progress.
AllArrive == <>[](out = frames)
=============================================================================
