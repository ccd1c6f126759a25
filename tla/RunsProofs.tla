----------------------------- MODULE RunsProofs -----------------------------
(***************************************************************************)
(* The run-length form of a manifest ack loses and adds nothing, for every *)
(* finite set of chunk indices.                                            *)
(***************************************************************************)
EXTENDS Runs, FiniteSetTheorems, WellFoundedInduction, TLAPS

\* A non-empty set of naturals has a least element.
LEMMA LeastNat ==
    ASSUME NEW T \in SUBSET Nat, T # {}
    PROVE  \E m \in T : \A k \in T : m <= k
<1>1. PICK m \in T : \A k \in T : ~(<<k, m>> \in OpToRel(<, Nat))
  BY WFMin, NatLessThanWellFounded
<1>2. ASSUME NEW k \in T PROVE m <= k
  <2>1. ~(k < m)
    BY <1>1 DEF OpToRel
  <2> QED BY <2>1
<1> QED BY <1>2

\* The encoder's runs are pairs of naturals (a u64 start and length).
LEMMA RunsType ==
    ASSUME NEW h \in SUBSET Nat, IsFiniteSet(h)
    PROVE  RunsOf(h) \in SUBSET (Nat \X Nat)
<1>1. Cardinality(h) \in Nat
  BY FS_CardinalityType
<1>2. ASSUME NEW r \in RunsOf(h) PROVE r \in Nat \X Nat
  <2>1. r \in h \X (1..Cardinality(h))
    BY DEF RunsOf
  <2>2. 1..Cardinality(h) \in SUBSET Nat
    BY <1>1
  <2> QED BY <2>1, <2>2
<1> QED BY <1>2

\* runs_contain(runs_from_sorted(h), i) holds exactly when i is in h: the
\* sender skips exactly the chunks the receiver reports as staged.
THEOREM RunsExact ==
    ASSUME NEW h \in SUBSET Nat, IsFiniteSet(h), NEW i \in Nat
    PROVE  RunsContain(RunsOf(h), i) <=> i \in h
<1>1. ASSUME RunsContain(RunsOf(h), i) PROVE i \in h
  <2>1. PICK r \in RunsOf(h) : i >= r[1] /\ i < r[1] + r[2]
    BY <1>1 DEF RunsContain
  <2>2. /\ r[1] \in Nat /\ r[2] \in Nat
        /\ r[1]..(r[1] + r[2] - 1) \subseteq h
    BY RunsType DEF RunsOf
  <2> QED BY <2>1, <2>2
<1>2. ASSUME i \in h PROVE RunsContain(RunsOf(h), i)
  <2> DEFINE Starts == {s \in Nat : s..i \subseteq h}
  <2>1. i \in Starts
    BY <1>2
  <2>2. PICK s \in Starts : \A k \in Starts : s <= k
    <3>1. Starts \in SUBSET Nat /\ Starts # {}
      BY <2>1
    <3> HIDE DEF Starts
    <3> QED BY <3>1, LeastNat
  <2>3. s \in Nat /\ s <= i /\ s..i \subseteq h
    BY <2>1, <2>2
  <2>4. s - 1 \notin h
    <3>1. SUFFICES ASSUME s - 1 \in h PROVE FALSE
      OBVIOUS
    <3>2. s - 1 \in Nat /\ (s - 1)..i \subseteq h
      BY <3>1, <2>3
    <3>3. s - 1 \in Starts
      BY <3>2
    <3> QED BY <3>3, <2>2, <2>3
  <2> DEFINE Ends == {l \in Nat : s + l \notin h /\ l > 0}
  <2>5. \E l \in Nat : l > 0 /\ s + l \notin h
    <3>1. SUFFICES ASSUME \A l \in Nat : l > 0 => s + l \in h PROVE FALSE
      OBVIOUS
    <3> DEFINE c == Cardinality(h)
    <3>2. c \in Nat
      BY FS_CardinalityType
    <3>3. (s + 1)..(s + 1 + c) \in SUBSET h
      <4>1. ASSUME NEW j \in (s + 1)..(s + 1 + c) PROVE j \in h
        <5>1. j - s \in Nat /\ j - s > 0 /\ s + (j - s) = j
          BY <2>3, <3>2
        <5> QED BY <5>1, <3>1
      <4> QED BY <4>1
    <3>4. Cardinality((s + 1)..(s + 1 + c)) = c + 1
      <4>1. PICK p \in Int : p = s + 1
        BY <2>3
      <4>2. PICK q \in Int : q = s + 1 + c
        BY <2>3, <3>2
      <4>3. Cardinality(p..q) = IF p > q THEN 0 ELSE q - p + 1
        BY FS_Interval
      <4>4. Cardinality(p..q) = c + 1
        BY <4>1, <4>2, <4>3, <2>3, <3>2
      <4> QED BY <4>1, <4>2, <4>4
    <3>5. c + 1 <= c
      BY <3>3, <3>4, FS_Subset
    <3> QED BY <3>5, <3>2
  <2>6. PICK l \in Ends : \A k \in Ends : l <= k
    <3>1. Ends \in SUBSET Nat /\ Ends # {}
      BY <2>5
    <3> HIDE DEF Ends
    <3> QED BY <3>1, LeastNat
  <2>7. s..(s + l - 1) \subseteq h
    <3>1. SUFFICES ASSUME NEW j \in s..(s + l - 1), j \notin h PROVE FALSE
      OBVIOUS
    <3>2. j # s
      BY <2>3, <3>1
    <3>3. j - s \in Nat /\ j - s > 0 /\ s + (j - s) = j /\ j - s < l
      BY <2>3, <3>2, <3>1
    <3>4. j - s \in Ends
      BY <3>1, <3>3
    <3> QED BY <3>3, <3>4, <2>6
  <2>8. l \in 1..Cardinality(h)
    <3>1. s \in Int /\ s + l - 1 \in Int /\ l \in Nat /\ l > 0
      BY <2>3, <2>6
    <3>2. Cardinality(s..(s + l - 1)) =
            IF s > s + l - 1 THEN 0 ELSE s + l - 1 - s + 1
      BY <3>1, FS_Interval
    <3>3. Cardinality(s..(s + l - 1)) = l
      BY <3>1, <3>2
    <3>4. l <= Cardinality(h)
      BY <2>7, <3>3, FS_Subset
    <3>5. Cardinality(h) \in Nat
      BY FS_CardinalityType
    <3> QED BY <3>1, <3>4, <3>5
  <2>9. i < s + l
    <3>1. SUFFICES ASSUME i >= s + l PROVE FALSE
      BY <2>3, <2>6
    <3>2. s + l \in s..i
      BY <3>1, <2>3, <2>6
    <3> QED BY <3>2, <2>3, <2>6
  <2>10. <<s, l>> \in RunsOf(h)
    <3>1. s \in h
      BY <2>3
    <3>2. s + l \notin h
      BY <2>6
    <3>3. <<s, l>> \in h \X (1..Cardinality(h))
      BY <3>1, <2>8
    <3> QED BY <3>2, <3>3, <2>7, <2>4 DEF RunsOf
  <2>11. i >= <<s, l>>[1] /\ i < <<s, l>>[1] + <<s, l>>[2]
    BY <2>3, <2>9
  <2> QED BY <2>10, <2>11 DEF RunsContain
<1> QED BY <1>1, <1>2
=============================================================================
