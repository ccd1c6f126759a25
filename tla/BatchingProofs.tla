--------------------------- MODULE BatchingProofs ---------------------------
(***************************************************************************)
(* What pack_frames and Debatcher promise, proved for frames of any length *)
(* and number, and any limits.                                             *)
(***************************************************************************)
EXTENDS Batching, SequenceTheorems, TLAPS

Byte == Nat \X Nat
Frame == Seq(Byte)
Position == [frame : Nat \ {0}, byte : Nat]
Piece == [body : Frame, cont : BOOLEAN, at : Position]

TypeInv ==
    /\ frames \in Seq(Frame) /\ queue \in Seq(Frame) /\ pending \in Seq(Frame)
    /\ buf \in Seq(Piece) /\ used \in Nat /\ packed \in Position
    /\ wire \in Seq(Seq(Piece)) /\ msg \in Seq(Piece)
    /\ partial \in Frame /\ out \in Seq(Frame)

-----------------------------------------------------------------------------
(* The inductive invariant.                                                *)

\* These are bytes of frame n of fs, after the first k.
Part(fs, s, n, k) ==
    /\ n \in 1..Len(fs) /\ k + Len(s) <= Len(fs[n])
    /\ \A j \in 1..Len(s) : s[j] = fs[n][k + j]
\* And the last ones.
Rest(fs, s, n, k) == Part(fs, s, n, k) /\ k + Len(s) = Len(fs[n])

\* The position after a piece.
After(p) ==
    IF p.cont THEN [frame |-> p.at.frame, byte |-> p.at.byte + Len(p.body)]
    ELSE [frame |-> p.at.frame + 1, byte |-> 0]
\* A piece holds the bytes it was cut from, and says whether there are more.
Honest(fs, p) ==
    /\ Part(fs, p.body, p.at.frame, p.at.byte)
    /\ ~p.cont => Rest(fs, p.body, p.at.frame, p.at.byte)

\* Pieces that lead from position a to position b, each beginning where the one
\* before it ends.
Chain(fs, s, a, b) ==
    /\ \A i \in 1..Len(s) : Honest(fs, s[i])
    /\ \A i \in 1..Len(s) - 1 : s[i + 1].at = After(s[i])
    /\ IF s = <<>> THEN a = b ELSE s[1].at = a /\ After(s[Len(s)]) = b

First(m) == m[1].at
Past(m) == After(m[Len(m)])
\* Messages that do.
Messages(fs, w, a, b) ==
    /\ \A k \in 1..Len(w) : w[k] # <<>> /\ Chain(fs, w[k], First(w[k]), Past(w[k]))
    /\ \A k \in 1..Len(w) - 1 : First(w[k + 1]) = Past(w[k])
    /\ IF w = <<>> THEN a = b ELSE First(w[1]) = a /\ Past(w[Len(w)]) = b

\* The frames that are left to pack, of which the first may be begun.
LeftInv ==
    /\ packed.frame + Len(pending) + Len(queue) = Len(frames) + 1
    /\ pending = <<>> => packed.byte = 0
    /\ pending # <<>> => Rest(frames, pending[1], packed.frame, packed.byte)
    /\ \A k \in 2..Len(pending) : pending[k] = frames[packed.frame + k - 1]
    /\ \A k \in 1..Len(queue) : queue[k] = frames[packed.frame + Len(pending) + k - 1]

\* Where the Debatcher is.
Unpacked == [frame |-> Len(out) + 1, byte |-> Len(partial)]
\* What it has.
GotInv ==
    /\ Reassembles
    /\ partial # <<>> => Part(frames, partial, Len(out) + 1, 0)

\* All that is between the two, in order.
StreamInv ==
    \E a, b \in Position :
        /\ Chain(frames, msg, Unpacked, a) /\ Messages(frames, wire, a, b)
        /\ Chain(frames, buf, b, packed)

SizeInv == \A n \in 1..Len(frames) : Len(frames[n]) <= MaxLogical

BatchInv ==
    /\ TypeInv /\ PayloadFits /\ NeverBails
    /\ SizeInv /\ LeftInv /\ GotInv /\ StreamInv

-----------------------------------------------------------------------------
(* Pieces and messages in order.                                           *)

\* A sequence without its first element.
LEMMA TailFacts ==
    ASSUME NEW S, NEW s \in Seq(S), s # <<>>
    PROVE  /\ Head(s) = s[1] /\ Head(s) \in S /\ Tail(s) \in Seq(S)
           /\ Len(s) \in Nat \ {0} /\ Len(Tail(s)) = Len(s) - 1
           /\ \A i \in 1..Len(s) - 1 : i + 1 \in 1..Len(s) /\ Tail(s)[i] = s[i + 1]
           /\ Tail(s) = <<>> <=> Len(s) = 1
  <1>1. Len(s) \in Nat \ {0} /\ Head(s) = s[1]
    BY EmptySeq
  <1>2. /\ Head(s) \in S /\ Tail(s) \in Seq(S) /\ Len(Tail(s)) = Len(s) - 1
        /\ \A i \in 1..Len(Tail(s)) : Tail(s)[i] = s[i + 1]
    BY HeadTailProperties
  <1>3. Tail(s) = <<>> <=> Len(Tail(s)) = 0
    BY <1>2, EmptySeq
  <1> QED
    BY <1>1, <1>2, <1>3

\* The position after a piece is one.
LEMMA AfterPosition == \A p \in Piece : After(p) \in Position
  BY DEF After, Piece, Position, Frame

\* What holds of a piece holds when more frames are sent.
LEMMA HonestGrows ==
    ASSUME NEW fs \in Seq(Frame), NEW f \in Frame, NEW p \in Piece, Honest(fs, p)
    PROVE  Honest(Append(fs, f), p)
  BY DEF Honest, Part, Rest, Piece, Position

\* So it does of pieces in a row,
LEMMA ChainGrows ==
    ASSUME NEW fs \in Seq(Frame), NEW f \in Frame, NEW s \in Seq(Piece), NEW a, NEW b,
           Chain(fs, s, a, b)
    PROVE  Chain(Append(fs, f), s, a, b)
  <1>1. \A i \in 1..Len(s) : s[i] \in Piece
    OBVIOUS
  <1>2. \A i \in 1..Len(s) : Honest(Append(fs, f), s[i])
    BY <1>1, HonestGrows DEF Chain
  <1> QED
    BY <1>2 DEF Chain

\* and of messages.
LEMMA MessagesGrow ==
    ASSUME NEW fs \in Seq(Frame), NEW f \in Frame, NEW w \in Seq(Seq(Piece)), NEW a, NEW b,
           Messages(fs, w, a, b)
    PROVE  Messages(Append(fs, f), w, a, b)
  <1>1. \A k \in 1..Len(w) : w[k] \in Seq(Piece)
    OBVIOUS
  <1>2. \A k \in 1..Len(w) : Chain(Append(fs, f), w[k], First(w[k]), Past(w[k]))
    BY <1>1, ChainGrows DEF Messages
  <1> QED
    BY <1>2 DEF Messages

\* A piece is added at the end.
LEMMA ChainAppend ==
    ASSUME NEW fs \in Seq(Frame), NEW s \in Seq(Piece), NEW p \in Piece, NEW a, NEW b,
           Chain(fs, s, a, b), Honest(fs, p), p.at = b
    PROVE  Chain(fs, Append(s, p), a, After(p))
  <1> DEFINE t == Append(s, p)
  <1>1. /\ t # <<>> /\ Len(t) = Len(s) + 1 /\ Len(s) \in Nat /\ t[Len(t)] = p
        /\ \A i \in 1..Len(s) : t[i] = s[i]
    OBVIOUS
  <1> HIDE DEF t
  <1>2. \A i \in 1..Len(t) : Honest(fs, t[i])
    BY <1>1 DEF Chain
  <1>3. \A i \in 1..Len(t) - 1 : t[i + 1].at = After(t[i])
    <2>1. CASE s = <<>>
      BY <1>1, <2>1
    <2>2. CASE s # <<>>
      BY <1>1, <2>2 DEF Chain
    <2> QED
      BY <2>1, <2>2
  <1>4. t[1].at = a /\ After(t[Len(t)]) = After(p)
    BY <1>1 DEF Chain
  <1> QED
    BY <1>1, <1>2, <1>3, <1>4 DEF Chain, t

\* A piece is taken from the front.
LEMMA ChainTail ==
    ASSUME NEW fs \in Seq(Frame), NEW s \in Seq(Piece), s # <<>>, NEW a, NEW b,
           Chain(fs, s, a, b)
    PROVE  /\ Head(s) \in Piece /\ Honest(fs, Head(s)) /\ Head(s).at = a
           /\ Tail(s) \in Seq(Piece) /\ Chain(fs, Tail(s), After(Head(s)), b)
  <1> DEFINE t == Tail(s)
  <1>1. /\ t \in Seq(Piece) /\ Len(s) \in Nat \ {0} /\ Len(t) = Len(s) - 1
        /\ \A i \in 1..Len(t) : i + 1 \in 1..Len(s) /\ t[i] = s[i + 1]
        /\ Head(s) = s[1] /\ Head(s) \in Piece
        /\ t = <<>> <=> Len(s) = 1
    BY TailFacts
  <1> HIDE DEF t
  <1>2. \A i \in 1..Len(t) : Honest(fs, t[i])
    BY <1>1 DEF Chain
  <1>3. \A i \in 1..Len(t) - 1 : t[i + 1].at = After(t[i])
    BY <1>1 DEF Chain
  <1>4. IF t = <<>> THEN After(Head(s)) = b ELSE t[1].at = After(Head(s)) /\ After(t[Len(t)]) = b
    BY <1>1 DEF Chain
  <1>5. Honest(fs, Head(s)) /\ Head(s).at = a
    BY <1>1 DEF Chain
  <1> QED
    BY <1>1, <1>2, <1>3, <1>4, <1>5 DEF Chain, t

\* A message is added at the end.
LEMMA MessagesAppend ==
    ASSUME NEW fs \in Seq(Frame), NEW w \in Seq(Seq(Piece)), NEW m \in Seq(Piece), m # <<>>,
           NEW a, NEW b, NEW c, Messages(fs, w, a, b), Chain(fs, m, b, c)
    PROVE  Messages(fs, Append(w, m), a, c)
  <1> DEFINE v == Append(w, m)
  <1>1. /\ v # <<>> /\ Len(v) = Len(w) + 1 /\ Len(w) \in Nat /\ v[Len(v)] = m
        /\ \A i \in 1..Len(w) : v[i] = w[i]
    BY LenProperties, AppendProperties
  <1>2. First(m) = b /\ Past(m) = c
    BY DEF Chain, First, Past
  <1> HIDE DEF v
  <1>3. ASSUME NEW k \in 1..Len(v)
        PROVE  v[k] # <<>> /\ Chain(fs, v[k], First(v[k]), Past(v[k]))
    <2>1. CASE k = Len(v)
      BY <1>1, <1>2, <2>1
    <2>2. CASE k # Len(v)
      <3>1. k \in 1..Len(w) /\ v[k] = w[k]
        BY <1>1, <2>2
      <3> QED
        BY <3>1 DEF Messages
    <2> QED
      BY <2>1, <2>2
  <1>4. \A k \in 1..Len(v) - 1 : First(v[k + 1]) = Past(v[k])
    <2>1. CASE w = <<>>
      BY <1>1, <2>1
    <2>2. CASE w # <<>>
      BY <1>1, <1>2, <2>2 DEF Messages
    <2> QED
      BY <2>1, <2>2
  <1>5. First(v[1]) = a /\ Past(v[Len(v)]) = c
    BY <1>1, <1>2 DEF Messages
  <1> QED
    BY <1>1, <1>3, <1>4, <1>5 DEF Messages, v

\* A message is taken from the front.
LEMMA MessagesTail ==
    ASSUME NEW fs \in Seq(Frame), NEW w \in Seq(Seq(Piece)), w # <<>>, NEW a, NEW b,
           Messages(fs, w, a, b)
    PROVE  /\ Head(w) \in Seq(Piece) /\ Head(w) # <<>> /\ Tail(w) \in Seq(Seq(Piece))
           /\ Chain(fs, Head(w), a, Past(Head(w))) /\ Messages(fs, Tail(w), Past(Head(w)), b)
           /\ Past(Head(w)) \in Position
  <1> DEFINE v == Tail(w)
             h == Head(w)
  <1>1. /\ v \in Seq(Seq(Piece)) /\ Len(w) \in Nat \ {0} /\ Len(v) = Len(w) - 1
        /\ \A i \in 1..Len(v) : i + 1 \in 1..Len(w) /\ v[i] = w[i + 1]
        /\ h = w[1] /\ h \in Seq(Piece)
        /\ v = <<>> <=> Len(w) = 1
    BY TailFacts
  <1> HIDE DEF v, h
  <1>2. h # <<>> /\ Chain(fs, h, First(h), Past(h)) /\ First(h) = a
    BY <1>1 DEF Messages
  <1>3. \A k \in 1..Len(v) : v[k] # <<>> /\ Chain(fs, v[k], First(v[k]), Past(v[k]))
    BY <1>1 DEF Messages
  <1>4. ASSUME NEW k \in 1..Len(v) - 1 PROVE First(v[k + 1]) = Past(v[k])
    <2>1. k \in 1..Len(v) /\ k + 1 \in 1..Len(v) /\ k + 1 \in 1..Len(w) - 1
      BY <1>1
    <2>2. v[k] = w[k + 1] /\ v[k + 1] = w[(k + 1) + 1]
      BY <1>1, <2>1
    <2>3. \A j \in 1..Len(w) - 1 : First(w[j + 1]) = Past(w[j])
      BY DEF Messages
    <2>4. First(w[(k + 1) + 1]) = Past(w[k + 1])
      BY <2>1, <2>3
    <2> QED
      BY <2>2, <2>4
  <1>5. IF v = <<>> THEN Past(h) = b ELSE First(v[1]) = Past(h) /\ Past(v[Len(v)]) = b
    <2>1. CASE Len(w) = 1
      BY <1>1, <2>1 DEF Messages
    <2>2. CASE Len(w) # 1
      <3>1. v # <<>> /\ v[1] = w[1 + 1] /\ v[Len(v)] = w[Len(w)] /\ 1 \in 1..Len(w) - 1 /\ w # <<>>
        BY <1>1, <2>2
      <3> QED
        BY <1>1, <3>1 DEF Messages
    <2> QED
      BY <2>1, <2>2
  <1>6. Past(h) \in Position
    <2>1. h[Len(h)] \in Piece
      BY <1>1, <1>2
    <2> QED
      BY <2>1, AfterPosition DEF Past
  <1> QED
    BY <1>1, <1>2, <1>3, <1>4, <1>5, <1>6 DEF Messages, v, h

-----------------------------------------------------------------------------
(* Parts of frames.                                                        *)

\* A frame is all of itself.
LEMMA WholeRest ==
    ASSUME NEW fs \in Seq(Frame), NEW n \in 1..Len(fs)
    PROVE  Rest(fs, fs[n], n, 0)
  <1>1. fs[n] \in Frame /\ Len(fs[n]) \in Nat
    BY DEF Frame
  <1> QED
    BY <1>1 DEF Rest, Part

\* What is left of a frame stays so when another frame is sent.
LEMMA RestGrows ==
    ASSUME NEW fs \in Seq(Frame), NEW f \in Frame, NEW s, NEW n, NEW k
    PROVE  /\ Part(fs, s, n, k) => Part(Append(fs, f), s, n, k)
           /\ Rest(fs, s, n, k) => Rest(Append(fs, f), s, n, k)
  BY DEF Part, Rest

\* The end of a frame is cut in two.
LEMMA CutRest ==
    ASSUME NEW fs \in Seq(Frame), NEW s \in Frame, NEW n, NEW k \in Nat, Rest(fs, s, n, k),
           NEW r \in Nat, r < Len(s)
    PROVE  /\ SubSeq(s, 1, r) \in Frame /\ Len(SubSeq(s, 1, r)) = r
           /\ SubSeq(s, r + 1, Len(s)) \in Frame
           /\ Part(fs, SubSeq(s, 1, r), n, k)
           /\ Rest(fs, SubSeq(s, r + 1, Len(s)), n, k + r)
  <1> DEFINE x == SubSeq(s, 1, r)
             y == SubSeq(s, r + 1, Len(s))
  <1>1. Len(s) \in Nat /\ \A i \in 1..Len(s) : s[i] \in Byte
    BY DEF Frame
  <1>2. x \in Frame /\ Len(x) = r /\ \A i \in 1..r : x[i] = s[i]
    <2>1. \A i \in 1..r : s[i] \in Byte
      BY <1>1
    <2>2. /\ x \in Seq(Byte) /\ Len(x) = (IF 1 <= r THEN r - 1 + 1 ELSE 0)
          /\ \A i \in 1..r - 1 + 1 : x[i] = s[1 + i - 1]
      BY <2>1, SubSeqProperties
    <2> HIDE DEF x
    <2> QED
      BY <2>2 DEF Frame
  <1>3. y \in Frame /\ Len(y) = Len(s) - r /\ \A i \in 1..Len(s) - r : y[i] = s[r + i]
    <2>1. \A i \in r + 1..Len(s) : s[i] \in Byte
      BY <1>1
    <2>2. /\ y \in Seq(Byte)
          /\ Len(y) = (IF r + 1 <= Len(s) THEN Len(s) - (r + 1) + 1 ELSE 0)
          /\ \A i \in 1..Len(s) - (r + 1) + 1 : y[i] = s[(r + 1) + i - 1]
      BY <1>1, <2>1, SubSeqProperties
    <2>3. \A i \in 1..Len(s) - r : (r + 1) + i - 1 = r + i
      BY <1>1
    <2> HIDE DEF y
    <2>4. Len(y) = Len(s) - r /\ Len(s) - (r + 1) + 1 = Len(s) - r
      BY <1>1, <2>2
    <2> QED
      BY <2>2, <2>3, <2>4 DEF Frame
  <1>4. n \in 1..Len(fs) /\ k + Len(s) = Len(fs[n]) /\ \A j \in 1..Len(s) : s[j] = fs[n][k + j]
    BY DEF Rest, Part
  <1> HIDE DEF x, y
  <1>5. Part(fs, x, n, k)
    <2>1. Len(fs[n]) \in Nat /\ k + Len(x) <= Len(fs[n])
      BY <1>1, <1>2, <1>4
    <2>2. \A j \in 1..Len(x) : j \in 1..Len(s) /\ x[j] = s[j]
      BY <1>1, <1>2
    <2> QED
      BY <1>4, <2>1, <2>2 DEF Part
  <1>6. ASSUME NEW j \in 1..Len(y) PROVE y[j] = fs[n][(k + r) + j]
    <2>1. j \in 1..Len(s) - r /\ r + j \in 1..Len(s) /\ (k + r) + j = k + (r + j)
      BY <1>1, <1>3
    <2> QED
      BY <1>3, <1>4, <2>1
  <1>7. Rest(fs, y, n, k + r)
    <2>1. (k + r) + Len(y) = Len(fs[n]) /\ Len(fs[n]) \in Nat
      <3>1. Len(s) \in Nat /\ Len(y) = Len(s) - r /\ Len(fs[n]) = k + Len(s)
        BY <1>1, <1>3, <1>4
      <3> QED
        BY <3>1
    <2>2. (k + r) + Len(y) <= Len(fs[n])
      BY <2>1
    <2>3. \A j \in 1..Len(y) : y[j] = fs[n][(k + r) + j]
      BY <1>6
    <2> QED
      BY <1>4, <2>1, <2>2, <2>3, Zenon DEF Rest, Part
  <1> QED
    BY <1>2, <1>3, <1>5, <1>7 DEF x, y

\* The beginning of a frame and what follows it.
LEMMA JoinParts ==
    ASSUME NEW fs \in Seq(Frame), NEW s \in Frame, NEW t \in Frame, NEW n,
           s # <<>> => Part(fs, s, n, 0), Part(fs, t, n, Len(s))
    PROVE  /\ s \o t \in Frame /\ Len(s \o t) = Len(s) + Len(t) /\ Part(fs, s \o t, n, 0)
           /\ Rest(fs, t, n, Len(s)) => s \o t = fs[n]
  <1> DEFINE u == s \o t
  <1>1. /\ u \in Frame /\ Len(u) = Len(s) + Len(t) /\ Len(s) \in Nat /\ Len(t) \in Nat
        /\ \A i \in 1..Len(s) + Len(t) : u[i] = IF i <= Len(s) THEN s[i] ELSE t[i - Len(s)]
    BY ConcatProperties DEF Frame
  <1>2. n \in 1..Len(fs) /\ fs[n] \in Frame /\ Len(fs[n]) \in Nat
    BY DEF Part, Frame
  <1> HIDE DEF u
  <1>3. ASSUME NEW i \in 1..Len(u) PROVE u[i] = fs[n][i]
    <2>1. CASE i <= Len(s)
      <3>1. s # <<>> /\ i \in 1..Len(s) /\ u[i] = s[i] /\ 0 + i = i
        BY <1>1, <2>1
      <3> QED
        BY <3>1 DEF Part
    <2>2. CASE i > Len(s)
      <3>1. i - Len(s) \in 1..Len(t) /\ u[i] = t[i - Len(s)] /\ Len(s) + (i - Len(s)) = i
        BY <1>1, <2>2
      <3> QED
        BY <3>1 DEF Part
    <2> QED
      BY <1>1, <2>1, <2>2
  <1>4. Part(fs, u, n, 0)
    BY <1>1, <1>2, <1>3 DEF Part
  <1>5. ASSUME Rest(fs, t, n, Len(s)) PROVE u = fs[n]
    <2>1. Len(u) = Len(fs[n])
      BY <1>1, <1>5 DEF Rest
    <2> QED
      BY <1>1, <1>2, <1>3, <2>1, SeqEqual DEF Frame
  <1> QED
    BY <1>1, <1>4, <1>5 DEF u

-----------------------------------------------------------------------------
(* The steps.                                                              *)

\* A frame is sent.
LEMMA SendStep ==
    ASSUME BatchInv, NEW len \in Lens, Send(len)
    PROVE  BatchInv'
  <1> DEFINE f == Bytes(Len(frames) + 1, len)
  <1>1. len \in Nat /\ len <= MaxLogical /\ MaxLogical \in Nat
    BY BatchAssumption DEF Send
  <1>2. /\ TypeInv /\ SizeInv /\ LeftInv /\ GotInv /\ StreamInv
        /\ frames' = Append(frames, f) /\ queue' = Append(queue, f)
        /\ UNCHANGED <<pending, buf, used, packed, wire, msg, partial, out, bailed>>
    BY DEF BatchInv, Send, rxvars
  <1>3. f \in Frame /\ Len(f) = len
    <2>1. Len(frames) \in Nat
      BY <1>2 DEF TypeInv
    <2> QED
      BY <1>1, <2>1 DEF Bytes, Byte, Frame
  <1> HIDE DEF f, Frame, Piece, Position
  <1>4. /\ frames' \in Seq(Frame) /\ queue' \in Seq(Frame)
        /\ Len(frames') = Len(frames) + 1 /\ Len(queue') = Len(queue) + 1
        /\ Len(frames) \in Nat /\ Len(queue) \in Nat /\ Len(pending) \in Nat
        /\ frames'[Len(frames) + 1] = f /\ queue'[Len(queue) + 1] = f
        /\ \A n \in 1..Len(frames) : frames'[n] = frames[n]
        /\ \A n \in 1..Len(queue) : queue'[n] = queue[n]
    <2>1. frames \in Seq(Frame) /\ queue \in Seq(Frame) /\ pending \in Seq(Frame)
      BY <1>2 DEF TypeInv
    <2> QED
      BY <1>2, <1>3, <2>1, AppendProperties, LenProperties
  <1>5. TypeInv'
    BY <1>2, <1>4 DEF TypeInv
  <1>6. SizeInv'
    BY <1>1, <1>2, <1>3, <1>4 DEF SizeInv
  <1>7. LeftInv'
    <2>1. packed.frame \in Nat \ {0}
      BY <1>2 DEF TypeInv, Position
    <2>2. packed.frame + Len(pending) + Len(queue) = Len(frames) + 1
      BY <1>2 DEF LeftInv
    <2>3. pending # <<>> => Rest(frames, pending[1], packed.frame, packed.byte)'
      BY <1>2, <1>3, RestGrows DEF LeftInv, TypeInv
    <2>4. ASSUME NEW k \in 2..Len(pending) PROVE pending[k] = frames'[packed.frame + k - 1]
      <3>1. packed.frame + k - 1 \in 1..Len(frames)
        BY <1>4, <2>1, <2>2
      <3> QED
        BY <1>2, <1>4, <3>1 DEF LeftInv
    <2>5. ASSUME NEW k \in 1..Len(queue')
          PROVE  queue'[k] = frames'[packed.frame + Len(pending) + k - 1]
      <3>1. CASE k = Len(queue) + 1
        <4>1. packed.frame + Len(pending) + k - 1 = Len(frames) + 1
          BY <1>4, <2>1, <2>2, <3>1
        <4> QED
          BY <1>4, <3>1, <4>1
      <3>2. CASE k # Len(queue) + 1
        <4>1. k \in 1..Len(queue) /\ packed.frame + Len(pending) + k - 1 \in 1..Len(frames)
          BY <1>4, <2>1, <2>2, <3>2
        <4> QED
          BY <1>2, <1>4, <4>1 DEF LeftInv
      <3> QED
        BY <3>1, <3>2
    <2>6. (packed.frame + Len(pending) + Len(queue) = Len(frames) + 1)'
      BY <1>2, <1>4, <2>1, <2>2
    <2>7. (pending = <<>> => packed.byte = 0)'
      BY <1>2 DEF LeftInv
    <2> QED
      BY <1>2, <2>3, <2>4, <2>5, <2>6, <2>7 DEF LeftInv
  <1>8. GotInv'
    <2>1. Reassembles'
      <3>1. Len(out) \in Nat
        BY <1>2, LenProperties DEF TypeInv
      <3> QED
        BY <1>2, <1>4, <3>1 DEF GotInv, Reassembles
    <2>2. partial # <<>> => Part(frames, partial, Len(out) + 1, 0)'
      BY <1>2, <1>3, RestGrows DEF GotInv, TypeInv
    <2> QED
      BY <1>2, <2>1, <2>2 DEF GotInv
  <1>9. StreamInv'
    <2>1. PICK a \in Position, b \in Position :
             /\ Chain(frames, msg, Unpacked, a) /\ Messages(frames, wire, a, b)
             /\ Chain(frames, buf, b, packed)
      BY <1>2 DEF StreamInv
    <2>2. frames \in Seq(Frame) /\ msg \in Seq(Piece) /\ wire \in Seq(Seq(Piece)) /\ buf \in Seq(Piece)
      BY <1>2 DEF TypeInv
    <2>3. /\ Chain(frames', msg, Unpacked, a) /\ Messages(frames', wire, a, b)
          /\ Chain(frames', buf, b, packed)
      BY <1>2, <1>3, <2>1, <2>2, ChainGrows, MessagesGrow
    <2> QED
      BY <1>2, <2>3 DEF StreamInv, Unpacked
  <1>10. PayloadFits' /\ NeverBails'
    BY <1>2 DEF BatchInv, PayloadFits, NeverBails
  <1> QED
    BY <1>5, <1>6, <1>7, <1>8, <1>9, <1>10 DEF BatchInv

\* io_task takes what is queued.
LEMMA TakeStep ==
    ASSUME BatchInv, Take
    PROVE  BatchInv'
  <1> HIDE DEF Frame, Piece, Position
  <1>1. /\ TypeInv /\ SizeInv /\ LeftInv /\ GotInv /\ StreamInv
        /\ pending = <<>> /\ queue # <<>> /\ pending' = queue /\ queue' = <<>>
        /\ UNCHANGED <<frames, buf, used, packed, wire, msg, partial, out, bailed>>
    BY DEF BatchInv, Take, rxvars
  <1>2. TypeInv'
    BY <1>1 DEF TypeInv
  <1>3. LeftInv'
    <2>1. /\ packed.frame \in Nat \ {0} /\ Len(queue) \in Nat \ {0} /\ Len(frames) \in Nat
          /\ frames \in Seq(Frame)
      BY <1>1, EmptySeq, LenProperties DEF TypeInv, Position
    <2>2. /\ packed.frame + Len(queue) = Len(frames) + 1 /\ packed.byte = 0
          /\ \A k \in 1..Len(queue) : queue[k] = frames[packed.frame + k - 1]
      BY <1>1, <2>1 DEF LeftInv
    <2>3. packed.frame \in 1..Len(frames) /\ queue[1] = frames[packed.frame]
      BY <2>1, <2>2
    <2>4. Rest(frames, queue[1], packed.frame, 0)
      BY <2>1, <2>3, WholeRest
    <2>5. \A k \in 2..Len(queue) : queue[k] = frames[packed.frame + k - 1]
      BY <2>1, <2>2
    <2>6. packed.frame + Len(queue) + 0 = Len(frames) + 1
      BY <2>1, <2>2
    <2> QED
      BY <1>1, <2>2, <2>4, <2>5, <2>6 DEF LeftInv
  <1>4. SizeInv' /\ GotInv' /\ PayloadFits' /\ NeverBails'
    BY <1>1 DEF BatchInv, SizeInv, GotInv, Reassembles, PayloadFits, NeverBails
  <1>5. StreamInv'
    BY <1>1 DEF StreamInv, Unpacked
  <1> QED
    BY <1>2, <1>3, <1>4, <1>5 DEF BatchInv

\* The body bytes that fit leave room for their header.
LEMMA RoomFacts ==
    ASSUME TypeInv
    PROVE  Room \in Nat /\ (Room # 0 => used + Header + Room <= MaxPayload)
  BY BatchAssumption DEF TypeInv, Room

\* A piece of the frame at hand is added to the payload.
LEMMA ExtendStep ==
    ASSUME BatchInv, NEW body \in Frame, NEW cont \in BOOLEAN, Extend(body, cont),
           Part(frames, body, packed.frame, packed.byte),
           ~cont => Rest(frames, body, packed.frame, packed.byte),
           Room # 0, Len(body) <= Room,
           UNCHANGED <<frames, queue, wire, rxvars>>, pending' \in Seq(Frame), LeftInv'
    PROVE  BatchInv'
  <1> DEFINE p == [body |-> body, cont |-> cont, at |-> packed]
  <1>1. /\ TypeInv /\ SizeInv /\ GotInv /\ StreamInv
        /\ UNCHANGED <<frames, queue, wire, msg, partial, out, bailed>>
    BY DEF BatchInv, rxvars
  <1>2. Len(body) \in Nat /\ packed \in Position /\ packed.frame \in Nat \ {0} /\ packed.byte \in Nat
    BY <1>1 DEF TypeInv, Position, Frame
  <1>3. buf' = Append(buf, p) /\ used' = used + Header + Len(body)
    BY DEF Extend
  <1>4. p \in Piece /\ p.at = packed /\ Honest(frames, p)
    BY <1>2 DEF Piece, Honest
  <1>5. packed' = After(p)
    BY <1>2 DEF Extend, After, Position
  <1>6. packed' \in Position
    BY <1>4, <1>5, AfterPosition
  <1>7. used' \in Nat /\ PayloadFits'
    BY <1>1, <1>2, <1>3, RoomFacts, BatchAssumption DEF TypeInv, PayloadFits
  <1> HIDE DEF p, Frame, Piece, Position
  <1>8. TypeInv'
    BY <1>1, <1>3, <1>4, <1>6, <1>7 DEF TypeInv
  <1>9. StreamInv'
    <2>1. PICK a \in Position, b \in Position :
             /\ Chain(frames, msg, Unpacked, a) /\ Messages(frames, wire, a, b)
             /\ Chain(frames, buf, b, packed)
      BY <1>1 DEF StreamInv
    <2>2. frames \in Seq(Frame) /\ buf \in Seq(Piece)
      BY <1>1 DEF TypeInv
    <2>3. Chain(frames, buf', b, packed')
      BY <1>3, <1>4, <1>5, <2>1, <2>2, ChainAppend
    <2> QED
      BY <1>1, <2>1, <2>3 DEF StreamInv, Unpacked
  <1>10. SizeInv' /\ GotInv' /\ NeverBails'
    BY <1>1 DEF BatchInv, SizeInv, GotInv, Reassembles, NeverBails
  <1> QED
    BY <1>7, <1>8, <1>9, <1>10 DEF BatchInv

\* A frame is packed as a whole.
LEMMA PackWholeStep ==
    ASSUME BatchInv, PackWhole
    PROVE  BatchInv'
  <1> DEFINE h == Head(pending)
  <1> HIDE DEF Frame, Piece, Position
  <1>1. /\ TypeInv /\ LeftInv /\ pending # <<>> /\ Room # 0 /\ Len(h) <= Room
        /\ Extend(h, FALSE) /\ pending' = Tail(pending)
        /\ UNCHANGED <<frames, queue, wire, rxvars>>
    BY DEF BatchInv, PackWhole
  <1>2. /\ frames \in Seq(Frame) /\ pending \in Seq(Frame) /\ queue \in Seq(Frame)
        /\ packed.frame \in Nat \ {0} /\ Len(frames) \in Nat /\ Len(queue) \in Nat
    BY <1>1, LenProperties DEF TypeInv, Position
  <1>3. /\ h = pending[1] /\ h \in Frame /\ pending' \in Seq(Frame)
        /\ Len(pending) \in Nat \ {0} /\ Len(pending') = Len(pending) - 1
        /\ \A i \in 1..Len(pending) - 1 : i + 1 \in 1..Len(pending) /\ pending'[i] = pending[i + 1]
        /\ pending' = <<>> <=> Len(pending) = 1
    BY <1>1, <1>2, TailFacts
  <1>4. packed' = [frame |-> packed.frame + 1, byte |-> 0]
    BY <1>1 DEF Extend
  <1>5. Rest(frames, h, packed.frame, packed.byte) /\ Part(frames, h, packed.frame, packed.byte)
    BY <1>1, <1>3 DEF LeftInv, Rest
  <1>6. LeftInv'
    <2>1. /\ packed.frame + Len(pending) + Len(queue) = Len(frames) + 1
          /\ \A k \in 2..Len(pending) : pending[k] = frames[packed.frame + k - 1]
          /\ \A k \in 1..Len(queue) : queue[k] = frames[packed.frame + Len(pending) + k - 1]
      BY <1>1 DEF LeftInv
    <2>2. packed'.frame + Len(pending') + Len(queue) = Len(frames) + 1
      BY <1>2, <1>3, <1>4, <2>1
    <2>3. ASSUME NEW k \in 1..Len(pending') PROVE pending'[k] = frames[packed'.frame + k - 1]
      <3>1. k \in 1..Len(pending) - 1 /\ k + 1 \in 2..Len(pending)
            /\ packed.frame + (k + 1) - 1 = packed'.frame + k - 1
        BY <1>2, <1>3, <1>4
      <3>2. pending'[k] = pending[k + 1] /\ pending[k + 1] = frames[packed.frame + (k + 1) - 1]
        BY <1>3, <2>1, <3>1
      <3> QED
        BY <3>1, <3>2
    <2>4. ASSUME pending' # <<>> PROVE Rest(frames, pending'[1], packed'.frame, packed'.byte)
      <3>1. /\ 1 \in 1..Len(pending') /\ packed'.frame \in 1..Len(frames)
            /\ packed'.frame + 1 - 1 = packed'.frame
        BY <1>2, <1>3, <1>4, <2>1, <2>4
      <3>2. pending'[1] = frames[packed'.frame]
        BY <2>3, <3>1
      <3> QED
        BY <1>2, <1>4, <3>1, <3>2, WholeRest
    <2>5. ASSUME NEW k \in 1..Len(queue)
          PROVE  queue[k] = frames[packed'.frame + Len(pending') + k - 1]
      <3>1. packed'.frame + Len(pending') + k - 1 = packed.frame + Len(pending) + k - 1
        BY <1>2, <1>3, <1>4
      <3> QED
        BY <2>1, <3>1
    <2>6. packed'.byte = 0 /\ \A k \in 2..Len(pending') : k \in 1..Len(pending')
      BY <1>2, <1>3, <1>4
    <2> QED
      BY <1>1, <2>2, <2>3, <2>4, <2>5, <2>6 DEF LeftInv
  <1> QED
    BY <1>1, <1>3, <1>5, <1>6, ExtendStep

\* A frame is split.
LEMMA PackSplitStep ==
    ASSUME BatchInv, PackSplit
    PROVE  BatchInv'
  <1> DEFINE h == pending[1]
             x == SubSeq(h, 1, Room)
             y == SubSeq(h, Room + 1, Len(h))
  <1> HIDE DEF Frame, Piece, Position
  <1>1. /\ TypeInv /\ LeftInv /\ pending # <<>> /\ Room # 0 /\ Room < Len(h) /\ Room \in Nat
        /\ Extend(x, TRUE) /\ pending' = [pending EXCEPT ![1] = y]
        /\ UNCHANGED <<frames, queue, wire, rxvars>>
    <2>1. TypeInv /\ LeftInv /\ pending # <<>>
      BY DEF BatchInv, PackSplit
    <2>2. Head(pending) = h /\ Room \in Nat /\ Len(h) \in Nat
      BY <2>1, TailFacts, RoomFacts, LenProperties DEF TypeInv, Frame
    <2> QED
      BY <2>1, <2>2 DEF PackSplit
  <1>2. /\ frames \in Seq(Frame) /\ pending \in Seq(Frame) /\ Len(pending) \in Nat \ {0}
        /\ 1 \in 1..Len(pending) /\ h \in Frame
        /\ packed.frame \in Nat \ {0} /\ packed.byte \in Nat
    BY <1>1, EmptySeq DEF TypeInv, Position
  <1>3. Rest(frames, h, packed.frame, packed.byte)
    BY <1>1 DEF LeftInv
  <1> HIDE DEF h, Room
  <1>4. /\ x \in Frame /\ Len(x) = Room /\ y \in Frame
        /\ Part(frames, x, packed.frame, packed.byte)
        /\ Rest(frames, y, packed.frame, packed.byte + Room)
    BY <1>1, <1>2, <1>3, CutRest
  <1> HIDE DEF x, y
  <1>5. packed'.frame = packed.frame /\ packed'.byte = packed.byte + Room
    BY <1>1, <1>2, <1>4 DEF Extend, TypeInv, Position
  <1>6. /\ pending' \in Seq(Frame) /\ Len(pending') = Len(pending) /\ pending'[1] = y
        /\ \A k \in 2..Len(pending) : pending'[k] = pending[k]
        /\ pending' # <<>>
    <2>1. /\ pending' \in Seq(Frame) /\ Len(pending') = Len(pending)
          /\ \A j \in 1..Len(pending) : pending'[j] = IF j = 1 THEN y ELSE pending[j]
      BY <1>1, <1>2, <1>4, ExceptSeq
    <2>2. pending' # <<>>
      BY <1>2, <2>1, EmptySeq
    <2> QED
      BY <1>2, <2>1, <2>2
  <1>7. LeftInv'
    BY <1>1, <1>4, <1>5, <1>6 DEF LeftInv
  <1>8. Len(x) <= Room
    BY <1>1, <1>4
  <1> QED
    BY <1>1, <1>4, <1>6, <1>7, <1>8, ExtendStep

\* A payload goes out.
LEMMA SendPayloadStep ==
    ASSUME BatchInv, SendPayload
    PROVE  BatchInv'
  <1> HIDE DEF Frame, Piece, Position
  <1>1. /\ TypeInv /\ SizeInv /\ LeftInv /\ GotInv /\ StreamInv
        /\ buf # <<>> /\ wire' = Append(wire, buf) /\ buf' = <<>> /\ used' = 0
        /\ UNCHANGED <<frames, queue, pending, packed, msg, partial, out, bailed>>
    BY DEF BatchInv, SendPayload, rxvars
  <1>2. TypeInv' /\ PayloadFits'
    BY <1>1, BatchAssumption DEF TypeInv, PayloadFits
  <1>3. SizeInv' /\ LeftInv' /\ GotInv' /\ NeverBails'
    BY <1>1 DEF BatchInv, SizeInv, LeftInv, GotInv, Reassembles, NeverBails
  <1>4. StreamInv'
    <2>1. PICK a \in Position, b \in Position :
             /\ Chain(frames, msg, Unpacked, a) /\ Messages(frames, wire, a, b)
             /\ Chain(frames, buf, b, packed)
      BY <1>1 DEF StreamInv
    <2>2. frames \in Seq(Frame) /\ buf \in Seq(Piece) /\ wire \in Seq(Seq(Piece)) /\ packed \in Position
      BY <1>1 DEF TypeInv
    <2>3. Messages(frames, wire', a, packed)
      BY <1>1, <2>1, <2>2, MessagesAppend
    <2>4. Chain(frames, <<>>, packed, packed)
      BY DEF Chain
    <2> QED
      BY <1>1, <2>1, <2>2, <2>3, <2>4 DEF StreamInv, Unpacked
  <1> QED
    BY <1>2, <1>3, <1>4 DEF BatchInv

\* The next message is looked at.
LEMMA ReceiveStep ==
    ASSUME BatchInv, Receive
    PROVE  BatchInv'
  <1> HIDE DEF Frame, Piece, Position
  <1>1. /\ TypeInv /\ SizeInv /\ LeftInv /\ GotInv /\ StreamInv
        /\ msg = <<>> /\ wire # <<>> /\ msg' = Head(wire) /\ wire' = Tail(wire)
        /\ UNCHANGED <<frames, queue, pending, buf, used, packed, partial, out, bailed>>
    BY DEF BatchInv, Receive, txvars
  <1>2. PICK a \in Position, b \in Position :
           /\ Chain(frames, msg, Unpacked, a) /\ Messages(frames, wire, a, b)
           /\ Chain(frames, buf, b, packed)
    BY <1>1 DEF StreamInv
  <1>3. frames \in Seq(Frame) /\ wire \in Seq(Seq(Piece)) /\ a = Unpacked
    BY <1>1, <1>2 DEF TypeInv, Chain
  <1>4. /\ msg' \in Seq(Piece) /\ wire' \in Seq(Seq(Piece)) /\ Past(msg') \in Position
        /\ Chain(frames, msg', a, Past(msg')) /\ Messages(frames, wire', Past(msg'), b)
    BY <1>1, <1>2, <1>3, MessagesTail
  <1>5. TypeInv'
    BY <1>1, <1>4 DEF TypeInv
  <1>6. SizeInv' /\ LeftInv' /\ GotInv' /\ NeverBails' /\ PayloadFits'
    BY <1>1 DEF BatchInv, SizeInv, LeftInv, GotInv, Reassembles, NeverBails, PayloadFits
  <1>7. StreamInv'
    BY <1>1, <1>2, <1>3, <1>4 DEF StreamInv, Unpacked
  <1> QED
    BY <1>5, <1>6, <1>7 DEF BatchInv

\* A piece is unpacked: it continues what the Debatcher has, and so is never
\* too long.
LEMMA UnpackStep ==
    ASSUME BatchInv, Unpack
    PROVE  BatchInv'
  <1> DEFINE h == Head(msg)
             n == Len(out) + 1
             whole == partial \o h.body
  <1> HIDE DEF Frame, Piece, Position
  <1>1. /\ TypeInv /\ SizeInv /\ LeftInv /\ GotInv /\ StreamInv /\ msg # <<>>
        /\ UNCHANGED <<frames, queue, pending, buf, used, packed, wire>>
    BY DEF BatchInv, Unpack, txvars
  <1>2. PICK a \in Position, b \in Position :
           /\ Chain(frames, msg, Unpacked, a) /\ Messages(frames, wire, a, b)
           /\ Chain(frames, buf, b, packed)
    BY <1>1 DEF StreamInv
  <1>3. /\ frames \in Seq(Frame) /\ msg \in Seq(Piece) /\ partial \in Frame /\ out \in Seq(Frame)
        /\ Len(out) \in Nat /\ Len(frames) \in Nat
    BY <1>1, LenProperties DEF TypeInv
  <1>4. /\ h \in Piece /\ Honest(frames, h) /\ h.at = Unpacked
        /\ Tail(msg) \in Seq(Piece) /\ Chain(frames, Tail(msg), After(h), a)
    BY <1>1, <1>2, <1>3, ChainTail
  <1>5. h.body \in Frame /\ h.cont \in BOOLEAN /\ h.at.frame = n /\ h.at.byte = Len(partial)
    BY <1>4 DEF Piece, Unpacked
  <1>6. /\ Part(frames, h.body, n, Len(partial))
        /\ ~h.cont => Rest(frames, h.body, n, Len(partial))
    BY <1>4, <1>5 DEF Honest
  <1>7. partial # <<>> => Part(frames, partial, n, 0)
    BY <1>1 DEF GotInv
  <1> HIDE DEF h
  <1>8. /\ whole \in Frame /\ Len(whole) = Len(partial) + Len(h.body) /\ Part(frames, whole, n, 0)
        /\ ~h.cont => whole = frames[n]
    BY <1>3, <1>5, <1>6, <1>7, JoinParts
  <1> HIDE DEF whole
  <1>9. n \in 1..Len(frames) /\ Len(whole) \in Nat /\ Len(whole) <= MaxLogical
    <2>1. n \in 1..Len(frames) /\ 0 + Len(whole) <= Len(frames[n])
      BY <1>8 DEF Part
    <2>2. Len(whole) \in Nat /\ Len(frames[n]) \in Nat
      BY <1>3, <1>8, <2>1, LenProperties DEF Frame
    <2>3. Len(frames[n]) <= MaxLogical /\ MaxLogical \in Nat
      BY <1>1, <2>1, BatchAssumption DEF SizeInv
    <2> QED
      BY <2>1, <2>2, <2>3
  <1>10. /\ msg' = Tail(msg) /\ bailed' = bailed
         /\ partial' = IF h.cont THEN whole ELSE <<>>
         /\ out' = IF h.cont THEN out ELSE Append(out, whole)
    <2>1. ~(Len(whole) > MaxLogical)
      BY <1>9, BatchAssumption
    <2> QED
      BY <2>1 DEF Unpack, h, whole
  <1>11. SizeInv' /\ LeftInv' /\ NeverBails' /\ PayloadFits'
    BY <1>1, <1>10 DEF BatchInv, SizeInv, LeftInv, NeverBails, PayloadFits
  <1>12. CASE h.cont
    <2>1. partial' = whole /\ out' = out
      BY <1>10, <1>12
    <2>2. After(h) = Unpacked'
      BY <1>5, <1>8, <1>12, <2>1 DEF After, Unpacked
    <2>3. TypeInv'
      BY <1>1, <1>4, <1>8, <1>10, <2>1 DEF TypeInv
    <2>4. GotInv'
      BY <1>1, <1>8, <2>1 DEF GotInv, Reassembles
    <2>5. StreamInv'
      BY <1>1, <1>2, <1>4, <1>10, <2>2 DEF StreamInv
    <2> QED
      BY <1>11, <2>3, <2>4, <2>5 DEF BatchInv
  <1>13. CASE ~h.cont
    <2>1. partial' = <<>> /\ out' = Append(out, whole) /\ whole = frames[n]
      BY <1>8, <1>10, <1>13
    <2>2. /\ out' \in Seq(Frame) /\ Len(out') = Len(out) + 1 /\ out'[n] = whole
          /\ \A i \in 1..Len(out) : out'[i] = out[i]
      BY <1>3, <1>8, <2>1, AppendProperties
    <2>3. After(h) = Unpacked'
      BY <1>3, <1>5, <1>13, <2>1, <2>2 DEF After, Unpacked
    <2>4. TypeInv'
      <3>1. <<>> \in Frame
        BY DEF Frame
      <3> QED
        BY <1>1, <1>4, <1>10, <2>1, <2>2, <3>1 DEF TypeInv
    <2>5. GotInv'
      <3>1. Reassembles
        BY <1>1 DEF GotInv
      <3> QED
        BY <1>1, <1>3, <1>9, <2>1, <2>2, <3>1 DEF GotInv, Reassembles
    <2>6. StreamInv'
      BY <1>1, <1>2, <1>4, <1>10, <2>3 DEF StreamInv
    <2> QED
      BY <1>11, <2>4, <2>5, <2>6 DEF BatchInv
  <1> QED
    BY <1>5, <1>12, <1>13

-----------------------------------------------------------------------------
(* The theorems.                                                           *)

\* Nothing is sent at first.
LEMMA BatchInitially == Init => BatchInv
  <1> SUFFICES ASSUME Init PROVE BatchInv
    OBVIOUS
  <1> DEFINE o == [frame |-> 1, byte |-> 0]
  <1>1. o \in Position /\ packed = o
    BY DEF Init, Position
  <1>2. TypeInv
    <2>1. <<>> \in Frame
      BY DEF Frame
    <2> HIDE DEF Frame, Piece, Position, o
    <2> QED
      BY <1>1, <2>1 DEF Init, TypeInv
  <1>3. PayloadFits /\ NeverBails /\ SizeInv /\ GotInv
    BY BatchAssumption DEF Init, PayloadFits, NeverBails, SizeInv, GotInv, Reassembles
  <1>4. LeftInv
    BY DEF Init, LeftInv
  <1>5. Unpacked = o
    BY DEF Init, Unpacked
  <1>6. Chain(frames, <<>>, o, o) /\ Messages(frames, <<>>, o, o)
    BY DEF Chain, Messages
  <1> HIDE DEF o, Position
  <1>7. StreamInv
    BY <1>1, <1>5, <1>6 DEF Init, StreamInv
  <1> QED
    BY <1>2, <1>3, <1>4, <1>7 DEF BatchInv

\* A step that changes nothing.
LEMMA BatchStutter ==
    ASSUME BatchInv, UNCHANGED vars
    PROVE  BatchInv'
  BY DEF BatchInv, TypeInv, PayloadFits, NeverBails, SizeInv, LeftInv, GotInv, Reassembles,
         StreamInv, Unpacked, vars, txvars, rxvars

\* The invariant of the relay's framing: the pieces under way, the frames still
\* to be packed and what the Debatcher has are one unbroken stream of the bytes sent.
THEOREM BatchInvariant == Spec => []BatchInv
  <1>1. BatchInv /\ [Next]_vars => BatchInv'
    BY SendStep, TakeStep, PackWholeStep, PackSplitStep, SendPayloadStep, ReceiveStep, UnpackStep,
       BatchStutter, Zenon DEF Next, TxWork, RxWork
  <1> QED
    BY <1>1, BatchInitially, PTL DEF Spec

\* No message is larger than the relay accepts.
THEOREM BatchPayloadFits == Spec => []PayloadFits
  <1>1. BatchInv => PayloadFits
    BY DEF BatchInv
  <1> QED
    BY <1>1, BatchInvariant, PTL

\* What comes out of Debatcher::push are the frames handed to send, whole and in order.
THEOREM BatchReassembles == Spec => []Reassembles
  <1>1. BatchInv => Reassembles
    BY DEF BatchInv, GotInv
  <1> QED
    BY <1>1, BatchInvariant, PTL

\* Debatcher::push never refuses a frame that send let through.
THEOREM BatchNeverBails == Spec => []NeverBails
  <1>1. BatchInv => NeverBails
    BY DEF BatchInv
  <1> QED
    BY <1>1, BatchInvariant, PTL
=============================================================================
