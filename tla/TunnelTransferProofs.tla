------------------------ MODULE TunnelTransferProofs ------------------------
(***************************************************************************)
(* The safety properties of the tunnel path, proved for any payloads,      *)
(* number of chunks, requests, files and faults.                           *)
(***************************************************************************)
EXTENDS TunnelTransfer, TLAPS

-----------------------------------------------------------------------------
(* Types.                                                                  *)

Kinds == {"manifest", "chunk", "commit", None}
Points == {"free", "new", "read", "opened", "tmp", "ready", "written", "verified",
           "installed", "half", "unlinked", "answered"}
Answers == {None, "declined", "complete", "error", "accepted", "refused", "ok", "notok", "lost"}
Stores == [of : Source, have : SUBSET Chunks, file : Files \cup {None}]
Staged == [of : Source, have : SUBSET Chunks]
Payloads == Source \cup {TextJob}
Reqs ==
    [kind : Kinds, of : Payloads \cup {None}, chunk : Chunks \cup {None}, at : Points,
     live : BOOLEAN, store : Stores \cup {None}, ans : Answers]

TypeInv ==
    /\ DOMAIN content = Files /\ {data, dest} \subseteq Files \cup {None}
    /\ state \in Staged \cup {None} /\ tmp \in Staged \cup {None}
    /\ active \in Stores \cup {None} /\ lock \in Slots \cup {None}
    /\ req \in [Slots -> Reqs]
    /\ job \in Payloads \cup {None} /\ todo \subseteq Chunks
    /\ spc \in {"Idle", "Manifest", "Upload", "Commit"}

-----------------------------------------------------------------------------
(* The inductive invariant.                                                *)

Has(q, k) == req[q] # Free /\ req[q].kind = k

\* The steps a handler takes with the guard of App.transfer in hand.
Locked(q) ==
    \/ Has(q, "chunk") /\ req[q].at \in {"written", "tmp"}
    \/ Has(q, "commit") /\ req[q].at \in {"verified", "installed", "half", "unlinked"}
LockInv == \A q \in Slots : Locked(q) => lock = q

\* The server's requests are those of one sender run: a manifest is alone, and a
\* commit is the only one.
ReqInv ==
    /\ \A q \in Slots : req[q] # Free =>
          req[q].of = job /\ job \in Payloads /\ req[q].kind \in {"manifest", "chunk", "commit"}
    /\ \A p, q \in Slots : Has(p, "manifest") /\ req[q] # Free => p = q
    /\ \A p, q \in Slots : Has(p, "commit") /\ Has(q, "commit") => p = q
    /\ \A q \in Slots : Has(q, "chunk") \/ Has(q, "commit") => job \in Source
    /\ \A q \in Slots : Has(q, "chunk") => req[q].chunk \in Chunks
    /\ spc \in {"Upload", "Commit"} => job \in Source /\ \A q \in Slots : ~Has(q, "manifest")
    /\ spc = "Upload" => \A q \in Slots : ~Has(q, "commit")

\* The ActiveTransfer writes to the staged file, which is not the delivered one.
FileInv ==
    /\ data # None => data # dest
    /\ active # None => active.file = data /\ data \in Files

\* What a request in the middle of its handler, or its answer, stands for.
ManifestInv(q) ==
    /\ Has(q, "manifest") /\ req[q].at \in {"read", "opened", "tmp", "ready"} =>
          req[q].of \in Source /\ req[q].store \in Stores /\ req[q].store.of = req[q].of
    /\ Has(q, "manifest") /\ req[q].at \in {"opened", "tmp", "ready"} =>
          req[q].store.file = data /\ data \in Files
    /\ Has(q, "manifest") /\ req[q].at = "answered" /\ req[q].ans = "accepted" =>
          /\ req[q].of \in Source
          /\ ActiveFor(job) => req[q].store.have \subseteq active.have
    /\ Has(q, "manifest") /\ req[q].at = "answered" /\ req[q].ans = "complete" =>
          req[q].of = TextJob /\ shown
ChunkInv(q) ==
    /\ Has(q, "chunk") /\ Locked(q) => ActiveFor(job)
    /\ Has(q, "chunk") /\ ActiveFor(job)
          /\ (Locked(q) \/ (req[q].at = "answered" /\ req[q].ans = "ok")) =>
       req[q].chunk \in active.have
CommitInv(q) ==
    /\ Has(q, "commit") /\ Locked(q) => active = None
    /\ Has(q, "commit") /\ req[q].at = "verified" =>
          data \in Files /\ content[data] = Whole(req[q].of)
    /\ Has(q, "commit") /\ (\/ req[q].at \in {"installed", "half", "unlinked"}
                            \/ req[q].at = "answered" /\ req[q].ans = "ok") =>
          dest \in Files /\ content[dest] = Whole(req[q].of)

\* What a successful run leaves behind.
SuccessInv ==
    result = "Ok" =>
        /\ spc = "Idle" /\ \A q \in Slots : ~Has(q, "manifest") /\ ~Has(q, "commit")
        /\ IF job = TextJob THEN shown ELSE dest # None /\ content[dest] = Whole(job)

OrderlyInv ==
    /\ TypeInv /\ LockInv
    /\ ReqInv /\ FileInv /\ DeliveredWhole
    /\ \A q \in Slots : ManifestInv(q) /\ ChunkInv(q) /\ CommitInv(q)
    /\ AckedHeld /\ SuccessInv

\* Once the requests of two senders have met, nothing is claimed.
TunnelInv == ~overlapped => OrderlyInv

-----------------------------------------------------------------------------
(* Requests.                                                               *)

\* A slot without a request.
LEMMA FreeFacts ==
    /\ Free \in Reqs /\ Free.at = "free" /\ Free.live = FALSE
    /\ \A k, s, i : Request(k, s, i) # Free
  BY DEF Free, Request, Reqs, Kinds, Points, Answers

\* Request q becomes r: it is answered, dropped or moves on.
Moves(q, r) ==
    /\ req' = [req EXCEPT ![q] = r] /\ r \in Reqs
    /\ \/ r = Free
       \/ req[q] # Free /\ r.kind = req[q].kind /\ r.of = req[q].of /\ r.chunk = req[q].chunk

\* An answer that is read, or nobody's.
LEMMA AnswerMoves ==
    ASSUME TypeInv, NEW q \in Slots, req[q].at # "free", NEW a \in Answers, Answer(q, a)
    PROVE  \E r : /\ Moves(q, r)
                  /\ r # Free => r.at = "answered" /\ r.ans = a /\ r.store = req[q].store
  <1> HIDE DEF Stores, Payloads, Answers, Kinds, Chunks
  <1>1. req \in [Slots -> Reqs] /\ req[q] \in Reqs /\ req[q] # Free
    BY FreeFacts DEF TypeInv
  <1> DEFINE t == [req[q] EXCEPT !.at = "answered", !.ans = a]
  <1>2. /\ t \in Reqs /\ t.at = "answered" /\ t.ans = a /\ t.store = req[q].store
        /\ t.kind = req[q].kind /\ t.of = req[q].of /\ t.chunk = req[q].chunk
    BY <1>1 DEF Reqs, Points
  <1>3. req' = [req EXCEPT ![q] = IF req[q].live THEN t ELSE Free]
    BY <1>1 DEF Answer
  <1> HIDE DEF t
  <1>4. CASE req[q].live
    BY <1>1, <1>2, <1>3, <1>4 DEF Moves
  <1>5. CASE ~req[q].live
    BY <1>3, <1>5, FreeFacts DEF Moves
  <1> QED
    BY <1>4, <1>5

\* The handler goes on.
LEMMA GotoMoves ==
    ASSUME TypeInv, NEW q \in Slots, req[q].at # "free", NEW at \in Points \ {"free"}, Goto(q, at)
    PROVE  \E r : /\ Moves(q, r) /\ r # Free
                  /\ r.at = at /\ r.store = req[q].store /\ r.ans = req[q].ans
  <1> HIDE DEF Stores, Payloads, Answers, Kinds, Chunks
  <1>1. req \in [Slots -> Reqs] /\ req[q] \in Reqs /\ req[q] # Free
    BY FreeFacts DEF TypeInv
  <1> DEFINE t == [req[q] EXCEPT !.at = at]
  <1>2. /\ t \in Reqs /\ t.at = at /\ t.ans = req[q].ans /\ t.store = req[q].store
        /\ t.kind = req[q].kind /\ t.of = req[q].of /\ t.chunk = req[q].chunk
    BY <1>1 DEF Reqs
  <1>3. req' = [req EXCEPT ![q] = t] /\ t # Free
    BY <1>1, <1>2, FreeFacts DEF Goto
  <1> HIDE DEF t
  <1> QED
    BY <1>1, <1>2, <1>3 DEF Moves

\* The other requests do not change.
LEMMA MovesOthers ==
    ASSUME TypeInv, NEW q \in Slots, NEW r, Moves(q, r)
    PROVE  /\ req' \in [Slots -> Reqs] /\ req'[q] = r
           /\ \A p \in Slots : p # q => req'[p] = req[p]
           /\ \A p \in Slots : req'[p] # Free =>
                 /\ req[p] # Free /\ req'[p].kind = req[p].kind
                 /\ req'[p].of = req[p].of /\ req'[p].chunk = req[p].chunk
  <1> HIDE DEF Reqs
  <1> QED
    BY DEF TypeInv, Moves

\* No request is added and the sender goes on where it is, or ends.
LEMMA ReqKept ==
    ASSUME ReqInv, job' = job, spc' = spc \/ spc' = "Idle",
           \A p \in Slots : req'[p] # Free =>
              /\ req[p] # Free /\ req'[p].kind = req[p].kind
              /\ req'[p].of = req[p].of /\ req'[p].chunk = req[p].chunk
    PROVE  ReqInv'
  <1>1. \A p \in Slots : \A k : Has(p, k)' => Has(p, k)
    BY DEF Has
  <1>2. \A p \in Slots : Has(p, "chunk")' => req'[p].chunk = req[p].chunk
    BY DEF Has
  <1> HIDE DEF Has, Chunks, Payloads
  <1>3. \A p \in Slots : Has(p, "chunk")' => req'[p].chunk \in Chunks'
    BY <1>1, <1>2 DEF ReqInv, Chunks
  <1> QED
    BY <1>1, <1>3 DEF ReqInv, Payloads

\* The mutex after one handler's step.
LEMMA LockKept ==
    ASSUME TypeInv, LockInv, NEW q \in Slots, \A p \in Slots : p # q => req'[p] = req[p],
           \/ lock' = lock
           \/ lock = None /\ lock' = q
           \/ lock = q /\ lock' = None,
           Locked(q)' => lock' = q
    PROVE  LockInv'
  <1>1. \A p \in Slots : p # q /\ Locked(p)' => Locked(p)
    BY DEF Locked, Has
  <1> QED
    BY <1>1, TunnelAssumption DEF LockInv

Slot(p) == ManifestInv(p) /\ ChunkInv(p) /\ CommitInv(p)

\* A request that stays where it is keeps its meaning while nothing it is about changes.
LEMMA SlotKept ==
    ASSUME NEW p \in Slots, Slot(p), UNCHANGED <<content, data, dest, active, job>>,
           shown => shown',
           \/ req'[p] = Free
           \/ /\ req[p] # Free
              /\ req'[p].kind = req[p].kind /\ req'[p].of = req[p].of
              /\ req'[p].chunk = req[p].chunk /\ req'[p].at = req[p].at
              /\ req'[p].store = req[p].store /\ req'[p].ans = req[p].ans
    PROVE  Slot(p)'
  <1>1. CASE req'[p] = Free
    BY <1>1 DEF Slot, ManifestInv, ChunkInv, CommitInv, Has
  <1>2. CASE req'[p] # Free
    <2>1. ManifestInv(p)'
      BY <1>2 DEF Slot, ManifestInv, Has, ActiveFor
    <2>2. ChunkInv(p)'
      <3>1. /\ Has(p, "chunk")' => Has(p, "chunk") /\ req'[p].chunk = req[p].chunk
            /\ Locked(p)' => Locked(p)
            /\ ActiveFor(job)' <=> ActiveFor(job)
        BY <1>2 DEF Has, Locked, ActiveFor
      <3> QED
        BY <1>2, <3>1 DEF Slot, ChunkInv
    <2>3. CommitInv(p)'
      BY <1>2 DEF Slot, CommitInv, Has, Locked
    <2> QED
      BY <2>1, <2>2, <2>3 DEF Slot
  <1> QED
    BY <1>1, <1>2

\* A handler's step that leaves the files and the ActiveTransfer alone.
LEMMA QuietStep ==
    ASSUME OrderlyInv, NEW q \in Slots, NEW r, Moves(q, r),
           UNCHANGED <<content, data, dest, active, sender>>, shown => shown',
           state' \in Staged \cup {None}, tmp' \in Staged \cup {None},
           lock' = lock \/ (lock = q /\ lock' = None),
           Locked(q)' => lock' = q,
           Slot(q)'
    PROVE  OrderlyInv'
  <1> HIDE DEF Reqs, Stores, Staged, Payloads
  <1>1. TypeInv /\ LockInv /\ UNCHANGED <<job, spc, todo, result, overlapped>>
    BY DEF OrderlyInv, sender
  <1>2. /\ req' \in [Slots -> Reqs]
        /\ \A p \in Slots : p # q => req'[p] = req[p]
        /\ \A p \in Slots : req'[p] # Free =>
              /\ req[p] # Free /\ req'[p].kind = req[p].kind
              /\ req'[p].of = req[p].of /\ req'[p].chunk = req[p].chunk
    BY <1>1, MovesOthers
  <1>3. TypeInv'
    BY <1>1, <1>2 DEF TypeInv
  <1>4. LockInv'
    BY <1>1, <1>2, LockKept
  <1>5. ReqInv'
    BY <1>1, <1>2, ReqKept DEF OrderlyInv
  <1>6. \A p \in Slots : Slot(p)'
    <2>1. ASSUME NEW p \in Slots, p # q PROVE Slot(p)'
      BY <1>1, <1>2, <2>1, SlotKept DEF OrderlyInv, Slot, Has, ManifestInv, ChunkInv, CommitInv
    <2> QED
      BY <2>1
  <1>7. FileInv' /\ DeliveredWhole' /\ AckedHeld'
    BY <1>1 DEF OrderlyInv, FileInv, DeliveredWhole, AckedHeld, ActiveFor
  <1>8. SuccessInv'
    BY <1>1, <1>2 DEF OrderlyInv, SuccessInv, Has
  <1> QED
    BY <1>3, <1>4, <1>5, <1>6, <1>7, <1>8 DEF OrderlyInv, Slot

\* A request answered with anything but a success stands for nothing.
LEMMA SettledSlot ==
    ASSUME TypeInv, NEW q \in Slots, NEW r, Moves(q, r),
           r # Free => r.at = "answered" /\ r.ans \notin {"accepted", "complete", "ok"}
    PROVE  Slot(q)' /\ ~Locked(q)'
  <1> HIDE DEF Reqs, Stores
  <1>1. req'[q] = r
    BY MovesOthers
  <1> QED
    BY <1>1 DEF Slot, ManifestInv, ChunkInv, CommitInv, Has, Locked

Settled == {"declined", "error", "refused", "notok"}

\* A handler that gives up, leaving the files and the ActiveTransfer alone.
LEMMA GiveUp ==
    ASSUME OrderlyInv, NEW q \in Slots, req[q].at # "free", NEW a \in Settled, Answer(q, a),
           UNCHANGED <<content, data, dest, active, shown, sender, state, tmp>>,
           lock' = lock \/ (lock = q /\ lock' = None)
    PROVE  OrderlyInv'
  <1> HIDE DEF Staged, Stores, Reqs
  <1>1. TypeInv /\ a \in Answers /\ a \notin {"accepted", "complete", "ok"}
    BY DEF OrderlyInv, Settled, Answers
  <1>2. PICK r : Moves(q, r) /\ (r # Free => r.at = "answered" /\ r.ans = a)
    BY <1>1, AnswerMoves
  <1>3. Slot(q)' /\ ~Locked(q)'
    BY <1>1, <1>2, SettledSlot
  <1>4. state' \in Staged \cup {None} /\ tmp' \in Staged \cup {None}
    BY <1>1 DEF TypeInv
  <1> QED
    BY <1>2, <1>3, <1>4, QuietStep

-----------------------------------------------------------------------------
(* Handlers that leave the files and the ActiveTransfer alone.             *)

\* A declined manifest.
LEMMA ManifestDeclinedStep ==
    ASSUME OrderlyInv, NEW q \in Slots, ManifestDeclined(q), UNCHANGED sender
    PROVE  OrderlyInv'
  <1>1. /\ req[q].at # "free" /\ Answer(q, "declined") /\ "declined" \in Settled
        /\ UNCHANGED <<content, data, dest, active, shown, sender, state, tmp>> /\ lock' = lock
    BY DEF ManifestDeclined, Is, disk, server, Settled
  <1> QED
    BY <1>1, GiveUp

\* A text, which is complete once it is printed.
LEMMA ManifestTextStep ==
    ASSUME OrderlyInv, NEW q \in Slots, ManifestText(q), UNCHANGED sender
    PROVE  OrderlyInv'
  <1> HIDE DEF Staged, Stores, Reqs
  <1>1. /\ TypeInv /\ "complete" \in Answers /\ req[q].at # "free" /\ Answer(q, "complete")
        /\ req[q].of = TextJob /\ req[q].kind = "manifest"
        /\ UNCHANGED <<content, data, dest, active, sender, state, tmp, lock>> /\ shown'
    BY DEF OrderlyInv, ManifestText, Is, disk, Answers
  <1>2. PICK r : Moves(q, r) /\ (r # Free => r.at = "answered" /\ r.ans = "complete")
    BY <1>1, AnswerMoves
  <1>3. req'[q] = r /\ (r # Free => r.kind = "manifest" /\ r.of = TextJob)
    BY <1>1, <1>2, MovesOthers DEF Moves
  <1>4. Slot(q)' /\ ~Locked(q)'
    BY <1>1, <1>2, <1>3 DEF Slot, ManifestInv, ChunkInv, CommitInv, Has, Locked
  <1>5. state' \in Staged \cup {None} /\ tmp' \in Staged \cup {None}
    BY <1>1 DEF TypeInv
  <1> QED
    BY <1>1, <1>2, <1>4, <1>5, QuietStep

\* open_or_create reads state.json: what it finds is about this payload, or nothing.
LEMMA ManifestReadStep ==
    ASSUME OrderlyInv, NEW q \in Slots, ManifestRead(q), UNCHANGED sender
    PROVE  OrderlyInv'
  <1> DEFINE s == req[q].of
             h == IF Reusable(s) THEN state.have ELSE {}
             st == [of |-> s, have |-> h, file |-> None]
             r == [req[q] EXCEPT !.at = "read", !.store = st]
  <1>1. /\ TypeInv /\ ReqInv /\ Is(q, "manifest", "new") /\ req[q].of # TextJob
        /\ UNCHANGED <<content, data, dest, active, sender, state, tmp, lock, shown>>
        /\ req' = [req EXCEPT ![q] = r]
    BY DEF OrderlyInv, ManifestRead, server
  <1>2. req[q] # Free /\ req[q] \in Reqs /\ req[q].kind = "manifest" /\ s \in Source
    <2>1. req[q] # Free /\ req[q] \in Reqs
      BY <1>1, FreeFacts DEF TypeInv, Is
    <2>2. s \in Payloads
      BY <1>1, <2>1 DEF ReqInv
    <2> QED
      BY <1>1, <2>1, <2>2 DEF Is, Payloads
  <1>3. st \in Stores /\ st.of = s
    BY <1>1, <1>2 DEF TypeInv, Stores, Staged, Reusable
  <1>4. Moves(q, r) /\ r # Free /\ r.at = "read" /\ r.store = st /\ r.kind = "manifest" /\ r.of = s
    <2> HIDE DEF st, Stores
    <2>1. r \in Reqs
      BY <1>2, <1>3 DEF Reqs, Points
    <2>2. r.at = "read" /\ r.store = st /\ r.kind = req[q].kind /\ r.of = s /\ r.chunk = req[q].chunk
      BY <1>2 DEF Reqs
    <2> HIDE DEF r
    <2> QED
      BY <1>1, <1>2, <2>1, <2>2, FreeFacts DEF Moves
  <1> HIDE DEF r, st, h, Stores, Reqs
  <1>5. req'[q] = r
    BY <1>1, <1>4, MovesOthers
  <1>6. Slot(q)' /\ ~Locked(q)'
    BY <1>2, <1>3, <1>4, <1>5 DEF Slot, ManifestInv, ChunkInv, CommitInv, Has, Locked
  <1>7. state' \in Staged \cup {None} /\ tmp' \in Staged \cup {None}
    BY <1>1 DEF TypeInv
  <1> QED
    BY <1>1, <1>4, <1>6, <1>7, QuietStep

\* The manifest's state is written to state.json.tmp,
LEMMA ManifestTmpStep ==
    ASSUME OrderlyInv, NEW q \in Slots, ManifestTmp(q), UNCHANGED sender
    PROVE  OrderlyInv'
  <1> HIDE DEF Reqs
  <1>1. /\ TypeInv /\ ManifestInv(q) /\ req[q].at = "opened" /\ req[q].kind = "manifest"
        /\ UNCHANGED <<content, data, dest, active, sender, state, lock, shown>>
    BY DEF OrderlyInv, ManifestTmp, Is
  <1>2. CASE Answer(q, "error") /\ UNCHANGED tmp
    <2>1. "error" \in Settled /\ req[q].at # "free"
      BY <1>1 DEF Settled
    <2> QED
      BY <1>1, <1>2, <2>1, GiveUp
  <1>3. CASE WriteTmp(req[q].store) /\ Goto(q, "tmp")
    <2>1. PICK r : /\ Moves(q, r) /\ r # Free
                   /\ r.at = "tmp" /\ r.store = req[q].store /\ r.ans = req[q].ans
      <3>1. "tmp" \in Points \ {"free"} /\ req[q].at # "free"
        BY <1>1 DEF Points
      <3> QED
        BY <1>1, <1>3, <3>1, GotoMoves
    <2>2. req'[q] = r /\ req[q] # Free /\ r.kind = req[q].kind /\ r.of = req[q].of
      BY <1>1, <2>1, MovesOthers DEF Moves
    <2>3. tmp' \in Staged \cup {None} /\ state' \in Staged \cup {None}
      BY <1>1, <1>3, <2>2 DEF TypeInv, WriteTmp, ManifestInv, Has, Stores, Staged
    <2> HIDE DEF Stores
    <2>4. Slot(q)' /\ ~Locked(q)'
      BY <1>1, <2>1, <2>2 DEF Slot, ManifestInv, ChunkInv, CommitInv, Has, Locked
    <2> QED
      BY <1>1, <2>1, <2>3, <2>4, QuietStep
  <1> QED
    BY <1>2, <1>3 DEF ManifestTmp

\* and renamed.
LEMMA ManifestRenameStep ==
    ASSUME OrderlyInv, NEW q \in Slots, ManifestRename(q), UNCHANGED sender
    PROVE  OrderlyInv'
  <1> HIDE DEF Reqs, Stores, Staged
  <1>1. /\ TypeInv /\ ManifestInv(q) /\ req[q].at = "tmp" /\ req[q].kind = "manifest"
        /\ UNCHANGED <<content, data, dest, active, sender, lock, shown>>
    BY DEF OrderlyInv, ManifestRename, Is
  <1>2. CASE Answer(q, "error") /\ UNCHANGED <<tmp, state>>
    <2>1. "error" \in Settled /\ req[q].at # "free"
      BY <1>1 DEF Settled
    <2> QED
      BY <1>1, <1>2, <2>1, GiveUp
  <1>3. CASE RenameTmp /\ Goto(q, "ready")
    <2>1. PICK r : /\ Moves(q, r) /\ r # Free
                   /\ r.at = "ready" /\ r.store = req[q].store /\ r.ans = req[q].ans
      <3>1. "ready" \in Points \ {"free"} /\ req[q].at # "free"
        BY <1>1 DEF Points
      <3> QED
        BY <1>1, <1>3, <3>1, GotoMoves
    <2>2. req'[q] = r /\ req[q] # Free /\ r.kind = req[q].kind /\ r.of = req[q].of
      BY <1>1, <2>1, MovesOthers DEF Moves
    <2>3. tmp' \in Staged \cup {None} /\ state' \in Staged \cup {None}
      BY <1>1, <1>3 DEF TypeInv, RenameTmp
    <2>4. Slot(q)' /\ ~Locked(q)'
      BY <1>1, <2>1, <2>2 DEF Slot, ManifestInv, ChunkInv, CommitInv, Has, Locked
    <2> QED
      BY <1>1, <2>1, <2>3, <2>4, QuietStep
  <1> QED
    BY <1>2, <1>3 DEF ManifestRename

\* A chunk or a commit that the ActiveTransfer is not for.
LEMMA RefusedStep ==
    ASSUME OrderlyInv, NEW q \in Slots, ChunkRefused(q) \/ CommitRefused(q), UNCHANGED sender
    PROVE  OrderlyInv'
  <1>1. /\ req[q].at # "free" /\ Answer(q, "refused") /\ "refused" \in Settled
        /\ UNCHANGED <<content, data, dest, active, shown, sender, state, tmp>> /\ lock' = lock
    BY DEF ChunkRefused, CommitRefused, Is, disk, server, Settled
  <1> QED
    BY <1>1, GiveUp

\* The state after a chunk is written to state.json.tmp, under the mutex,
LEMMA ChunkTmpStep ==
    ASSUME OrderlyInv, NEW q \in Slots, ChunkTmp(q), UNCHANGED sender
    PROVE  OrderlyInv'
  <1> HIDE DEF Reqs
  <1>1. /\ TypeInv /\ ChunkInv(q) /\ req[q].at = "written" /\ req[q].kind = "chunk"
        /\ UNCHANGED <<content, data, dest, active, sender, state, shown>>
        /\ req[q] # Free
    BY FreeFacts DEF OrderlyInv, ChunkTmp, Is
  <1>2. lock = q /\ ActiveFor(job) /\ req[q].chunk \in active.have
    BY <1>1 DEF OrderlyInv, LockInv, Locked, Has, ChunkInv
  <1>3. CASE Answer(q, "error") /\ lock' = None /\ UNCHANGED tmp
    <2>1. "error" \in Settled /\ req[q].at # "free"
      BY <1>1 DEF Settled
    <2> QED
      BY <1>1, <1>2, <1>3, <2>1, GiveUp
  <1>4. CASE WriteTmp(active) /\ Goto(q, "tmp") /\ UNCHANGED lock
    <2>1. PICK r : /\ Moves(q, r) /\ r # Free
                   /\ r.at = "tmp" /\ r.store = req[q].store /\ r.ans = req[q].ans
      <3>1. "tmp" \in Points \ {"free"} /\ req[q].at # "free"
        BY <1>1 DEF Points
      <3> QED
        BY <1>1, <1>4, <3>1, GotoMoves
    <2>2. req'[q] = r /\ r.kind = "chunk" /\ r.chunk = req[q].chunk
      BY <1>1, <2>1, MovesOthers DEF Moves
    <2>3. tmp' \in Staged \cup {None} /\ state' \in Staged \cup {None}
      BY <1>1, <1>2, <1>4 DEF TypeInv, WriteTmp, ActiveFor, Stores, Staged
    <2>4. ActiveFor(job)' /\ req'[q].chunk \in active'.have
      BY <1>1, <1>2, <2>2 DEF ActiveFor, sender
    <2> HIDE DEF Stores, ActiveFor
    <2>5. Slot(q)'
      BY <1>1, <2>1, <2>2, <2>4 DEF Slot, ManifestInv, ChunkInv, CommitInv, Has
    <2> QED
      BY <1>1, <1>2, <1>4, <2>1, <2>3, <2>5, QuietStep
  <1> QED
    BY <1>3, <1>4 DEF ChunkTmp

\* and renamed; the chunk that is acknowledged is in the ActiveTransfer.
LEMMA ChunkRenameStep ==
    ASSUME OrderlyInv, NEW q \in Slots, ChunkRename(q), UNCHANGED sender
    PROVE  OrderlyInv'
  <1> HIDE DEF Reqs, Stores, Staged
  <1>1. /\ TypeInv /\ ChunkInv(q) /\ req[q].at = "tmp" /\ req[q].kind = "chunk"
        /\ UNCHANGED <<content, data, dest, active, sender, shown>>
        /\ req[q] # Free /\ lock' = None
    BY FreeFacts DEF OrderlyInv, ChunkRename, Is
  <1>2. lock = q /\ ActiveFor(job) /\ req[q].chunk \in active.have
    BY <1>1 DEF OrderlyInv, LockInv, Locked, Has, ChunkInv
  <1>3. CASE Answer(q, "error") /\ UNCHANGED <<tmp, state>>
    <2>1. "error" \in Settled /\ req[q].at # "free"
      BY <1>1 DEF Settled
    <2> QED
      BY <1>1, <1>2, <1>3, <2>1, GiveUp
  <1>4. CASE RenameTmp /\ Answer(q, "ok")
    <2>1. PICK r : Moves(q, r) /\ (r # Free => r.at = "answered" /\ r.ans = "ok")
      <3>1. "ok" \in Answers /\ req[q].at # "free"
        BY <1>1 DEF Answers
      <3> QED
        BY <1>1, <1>4, <3>1, AnswerMoves
    <2>2. req'[q] = r /\ (r # Free => r.kind = "chunk" /\ r.chunk = req[q].chunk)
      BY <1>1, <2>1, MovesOthers DEF Moves
    <2>3. tmp' \in Staged \cup {None} /\ state' \in Staged \cup {None}
      BY <1>1, <1>4 DEF TypeInv, RenameTmp
    <2>4. Slot(q)' /\ ~Locked(q)'
      BY <1>1, <1>2, <2>1, <2>2 DEF Slot, ManifestInv, ChunkInv, CommitInv, Has, Locked
    <2> QED
      BY <1>1, <1>2, <2>1, <2>3, <2>4, QuietStep
  <1> QED
    BY <1>3, <1>4 DEF ChunkRename

\* The commit ends: an "ok" means that the payload is in place.
LEMMA CommitRmdirStep ==
    ASSUME OrderlyInv, NEW q \in Slots, CommitRmdir(q), UNCHANGED sender
    PROVE  OrderlyInv'
  <1> HIDE DEF Reqs, Stores, Staged
  <1>1. /\ TypeInv /\ CommitInv(q) /\ req[q].at = "unlinked" /\ req[q].kind = "commit"
        /\ UNCHANGED <<content, data, dest, active, sender, shown, state, tmp>>
        /\ req[q] # Free /\ lock' = None
    BY FreeFacts DEF OrderlyInv, CommitRmdir, Is
  <1>2. lock = q /\ dest \in Files /\ content[dest] = Whole(req[q].of)
    BY <1>1 DEF OrderlyInv, LockInv, Locked, Has, CommitInv
  <1>3. CASE Answer(q, "notok")
    <2>1. "notok" \in Settled /\ req[q].at # "free"
      BY <1>1 DEF Settled
    <2> QED
      BY <1>1, <1>2, <1>3, <2>1, GiveUp
  <1>4. CASE Answer(q, "ok")
    <2>1. PICK r : Moves(q, r) /\ (r # Free => r.at = "answered" /\ r.ans = "ok")
      <3>1. "ok" \in Answers /\ req[q].at # "free"
        BY <1>1 DEF Answers
      <3> QED
        BY <1>1, <1>4, <3>1, AnswerMoves
    <2>2. req'[q] = r /\ (r # Free => r.kind = "commit" /\ r.of = req[q].of)
      BY <1>1, <2>1, MovesOthers DEF Moves
    <2>3. tmp' \in Staged \cup {None} /\ state' \in Staged \cup {None}
      BY <1>1 DEF TypeInv
    <2>4. Slot(q)' /\ ~Locked(q)'
      BY <1>1, <1>2, <2>1, <2>2 DEF Slot, ManifestInv, ChunkInv, CommitInv, Has, Locked, Whole
    <2> QED
      BY <1>1, <1>2, <2>1, <2>3, <2>4, QuietStep
  <1> QED
    BY <1>3, <1>4 DEF CommitRmdir

\* A handler dropped with its connection.
LEMMA DroppedStep ==
    ASSUME OrderlyInv, NEW q \in Slots, Dropped(q), UNCHANGED sender
    PROVE  OrderlyInv'
  <1> HIDE DEF Reqs, Stores, Staged
  <1>1. /\ TypeInv /\ Moves(q, Free)
        /\ UNCHANGED <<content, data, dest, active, sender, shown, state, tmp, lock>>
    BY FreeFacts DEF OrderlyInv, Dropped, Moves, disk, server
  <1>2. Slot(q)' /\ ~Locked(q)'
    BY <1>1, SettledSlot
  <1>3. state' \in Staged \cup {None} /\ tmp' \in Staged \cup {None}
    BY <1>1 DEF TypeInv
  <1> QED
    BY <1>1, <1>2, <1>3, QuietStep

-----------------------------------------------------------------------------
(* Handlers that change the files or the ActiveTransfer.                   *)

\* An empty slot stands for nothing.
LEMMA EmptySlot ==
    ASSUME NEW p \in Slots, req[p]' = Free
    PROVE  Slot(p)' /\ ~Locked(p)'
  BY DEF Slot, ManifestInv, ChunkInv, CommitInv, Has, Locked

\* The parts that every step of a handler keeps.
LEMMA HandlerStep ==
    ASSUME OrderlyInv, NEW q \in Slots, NEW r, Moves(q, r), UNCHANGED sender,
           DOMAIN content' = Files, {data', dest'} \subseteq Files \cup {None},
           state' \in Staged \cup {None}, tmp' \in Staged \cup {None},
           active' \in Stores \cup {None},
           lock' = lock \/ (lock = None /\ lock' = q) \/ (lock = q /\ lock' = None),
           Locked(q)' => lock' = q
    PROVE  TypeInv' /\ LockInv' /\ ReqInv'
  <1> HIDE DEF Reqs, Stores, Staged, Payloads
  <1>1. TypeInv /\ LockInv /\ ReqInv /\ UNCHANGED <<job, spc, todo>>
    BY DEF OrderlyInv, sender
  <1>2. /\ req' \in [Slots -> Reqs]
        /\ \A p \in Slots : p # q => req'[p] = req[p]
        /\ \A p \in Slots : req'[p] # Free =>
              /\ req[p] # Free /\ req'[p].kind = req[p].kind
              /\ req'[p].of = req[p].of /\ req'[p].chunk = req[p].chunk
    BY <1>1, MovesOthers
  <1>3. lock' \in Slots \cup {None}
    BY <1>1 DEF TypeInv
  <1>4. TypeInv'
    BY <1>1, <1>2, <1>3 DEF TypeInv
  <1>5. LockInv'
    BY <1>1, <1>2, LockKept
  <1>6. ReqInv'
    BY <1>1, <1>2, ReqKept
  <1> QED
    BY <1>4, <1>5, <1>6

\* A file that nothing refers to.
LEMMA FreshFacts ==
    ASSUME Files \ InUse # {}
    PROVE  FreshFile \in Files /\ FreshFile # data /\ FreshFile # dest
  <1>1. FreshFile \in Files \ InUse
    BY Zenon DEF FreshFile
  <1>2. data \in InUse /\ dest \in InUse
    BY DEF InUse
  <1> QED
    BY <1>1, <1>2

\* The data file is opened or made, and maybe truncated: it is never the delivered one.
LEMMA ManifestOpenStep ==
    ASSUME OrderlyInv, NEW q \in Slots, ManifestOpen(q), UNCHANGED sender
    PROVE  OrderlyInv'
  <1> HIDE DEF Payloads, Staged, InUse, FreshFile
  <1>1. /\ TypeInv /\ ReqInv /\ FileInv /\ ManifestInv(q) /\ req[q].at = "read"
        /\ req[q].kind = "manifest" /\ req[q] # Free /\ req[q] \in Reqs
    BY FreeFacts DEF OrderlyInv, ManifestOpen, Is, TypeInv
  <1>2. CASE ~dir /\ Answer(q, "error") /\ UNCHANGED <<disk, up, active, lock, bad, shown>>
    <2>1. "error" \in Settled /\ req[q].at # "free" /\ UNCHANGED <<content, data, dest, state, tmp>>
      BY <1>1, <1>2 DEF Settled, disk
    <2> QED
      BY <1>2, <2>1, GiveUp
  <1>3. CASE /\ data = None => Files \ InUse # {}
             /\ data' = IF data = None THEN FreshFile ELSE data
             /\ content' = IF data = None \/ req[q].store.have = {}
                           THEN [content EXCEPT ![data'] = Holes] ELSE content
             /\ req' = [req EXCEPT ![q] = [@ EXCEPT !.at = "opened", !.store.file = data']]
             /\ UNCHANGED <<state, tmp, dir, dest, server>>
    <2> DEFINE r == [req[q] EXCEPT !.at = "opened", !.store.file = data']
    <2>1. data' \in Files /\ data' # dest /\ (data # None => data' = data)
      BY <1>1, <1>3, FreshFacts, TunnelAssumption DEF TypeInv, FileInv
    <2>2. DOMAIN content' = Files /\ (dest # None => content'[dest] = content[dest])
      <3> HIDE DEF Holes
      <3> QED
        BY <1>1, <1>3, <2>1 DEF TypeInv
    <2>3. req[q].store \in Stores /\ req[q].store.of = req[q].of /\ req[q].of \in Source
      BY <1>1 DEF ManifestInv, Has
    <2>4. /\ r \in Reqs /\ r.kind = "manifest" /\ r.of = req[q].of /\ r.chunk = req[q].chunk
          /\ r.at = "opened" /\ r.store \in Stores /\ r.store.file = data' /\ r.store.of = r.of
      <3> DEFINE st == [req[q].store EXCEPT !.file = data']
      <3>1. st \in Stores /\ st.file = data' /\ st.of = req[q].of
        BY <2>1, <2>3 DEF Stores
      <3>2. r = [req[q] EXCEPT !.at = "opened", !.store = st]
        BY <1>1 DEF Reqs
      <3> HIDE DEF st, r, Stores
      <3> QED
        BY <1>1, <3>1, <3>2 DEF Reqs, Points
    <2>5. Moves(q, r) /\ r # Free
      <3>1. req' = [req EXCEPT ![q] = r]
        BY <1>3
      <3> HIDE DEF r, Reqs
      <3> QED
        BY <1>1, <2>4, <3>1, FreeFacts DEF Moves
    <2>6. UNCHANGED <<state, tmp, dest, active, lock, shown, job, spc, todo, result, overlapped>>
      BY <1>3 DEF server, sender
    <2> HIDE DEF r, Reqs, Stores
    <2>7. req'[q] = r /\ \A p \in Slots : p # q => req'[p] = Free
      BY <1>1, <2>5, MovesOthers DEF ReqInv, Has
    <2>8. Slot(q)' /\ ~Locked(q)'
      BY <2>1, <2>3, <2>4, <2>7 DEF Slot, ManifestInv, ChunkInv, CommitInv, Has, Locked
    <2>9. \A p \in Slots : Slot(p)'
      BY <2>7, <2>8, EmptySlot
    <2>10. TypeInv' /\ LockInv' /\ ReqInv'
      BY <1>1, <2>1, <2>2, <2>5, <2>6, <2>8, HandlerStep DEF TypeInv
    <2>11. FileInv'
      BY <1>1, <2>1, <2>6, TunnelAssumption DEF FileInv
    <2>12. DeliveredWhole'
      BY <2>2, <2>6 DEF OrderlyInv, DeliveredWhole, Whole
    <2>13. AckedHeld'
      BY <2>6 DEF OrderlyInv, AckedHeld, ActiveFor
    <2>14. SuccessInv'
      BY <1>1, <2>6 DEF OrderlyInv, SuccessInv, Has
    <2> QED
      BY <2>9, <2>10, <2>11, <2>12, <2>13, <2>14 DEF OrderlyInv, Slot
  <1> QED
    BY <1>2, <1>3 DEF ManifestOpen

\* The ActiveTransfer is replaced by a Store on the staged file.
LEMMA ManifestInstallStep ==
    ASSUME OrderlyInv, NEW q \in Slots, ManifestInstall(q), UNCHANGED sender
    PROVE  OrderlyInv'
  <1> HIDE DEF Payloads, Staged, Stores, Reqs
  <1>1. /\ TypeInv /\ ReqInv /\ FileInv /\ ManifestInv(q) /\ req[q].at = "ready"
        /\ req[q].kind = "manifest" /\ req[q] # Free
        /\ active' = req[q].store /\ Answer(q, "accepted")
        /\ UNCHANGED <<content, data, dest, state, tmp, lock, shown>>
        /\ UNCHANGED <<job, spc, todo, result, overlapped>>
    BY FreeFacts DEF OrderlyInv, ManifestInstall, Is, disk, sender
  <1>2. /\ req[q].store \in Stores /\ req[q].of \in Source
        /\ req[q].store.file = data /\ data \in Files
    BY <1>1 DEF ManifestInv, Has
  <1>3. PICK r : /\ Moves(q, r)
                 /\ r # Free => r.at = "answered" /\ r.ans = "accepted" /\ r.store = req[q].store
    <2>1. "accepted" \in Answers /\ req[q].at # "free"
      BY <1>1 DEF Answers
    <2> QED
      BY <1>1, <2>1, AnswerMoves
  <1>4. req'[q] = r /\ \A p \in Slots : p # q => req'[p] = Free
    BY <1>1, <1>3, MovesOthers DEF ReqInv, Has
  <1>5. Slot(q)' /\ ~Locked(q)'
    BY <1>1, <1>2, <1>3, <1>4 DEF Slot, ManifestInv, ChunkInv, CommitInv, Has, Locked, Moves
  <1>6. \A p \in Slots : Slot(p)'
    BY <1>4, <1>5, EmptySlot
  <1>7. TypeInv' /\ LockInv' /\ ReqInv'
    BY <1>1, <1>2, <1>3, <1>5, HandlerStep DEF TypeInv
  <1>8. FileInv' /\ DeliveredWhole'
    BY <1>1, <1>2 DEF FileInv, OrderlyInv, DeliveredWhole
  <1>9. AckedHeld' /\ SuccessInv'
    BY <1>1 DEF OrderlyInv, AckedHeld, SuccessInv, ReqInv, Has
  <1> QED
    BY <1>6, <1>7, <1>8, <1>9 DEF OrderlyInv, Slot

\* A chunk is written to the staged file; no other handler holds the mutex.
LEMMA ChunkWriteStep ==
    ASSUME OrderlyInv, NEW q \in Slots, ChunkWrite(q), UNCHANGED sender
    PROVE  OrderlyInv'
  <1> DEFINE f == active.file
             i == req[q].chunk
  <1> HIDE DEF Payloads, Staged, Reqs
  <1>1. /\ TypeInv /\ ReqInv /\ FileInv /\ LockInv /\ lock = None /\ req[q].at = "new"
        /\ req[q].kind = "chunk" /\ req[q] # Free /\ active # None /\ active.of = job
        /\ content' = [content EXCEPT ![f][i] = <<req[q].of, i>>]
        /\ active' = [active EXCEPT !.have = @ \cup {i}]
        /\ lock' = q /\ Goto(q, "written")
        /\ UNCHANGED <<data, dest, state, tmp, shown>>
        /\ UNCHANGED <<job, spc, todo, result, overlapped>>
    BY FreeFacts DEF OrderlyInv, ChunkWrite, Is, ActiveFor, sender, ReqInv
  <1>2. PICK r : /\ Moves(q, r) /\ r # Free
                 /\ r.at = "written" /\ r.store = req[q].store /\ r.ans = req[q].ans
    <2>1. "written" \in Points \ {"free"} /\ req[q].at # "free"
      BY <1>1 DEF Points
    <2> QED
      BY <1>1, <2>1, GotoMoves
  <1>3. req'[q] = r /\ (\A p \in Slots : p # q => req'[p] = req[p]) /\ r.kind = "chunk" /\ r.chunk = i
    BY <1>1, <1>2, MovesOthers DEF Moves
  <1>4. DOMAIN content' = Files /\ (dest # None => content'[dest] = content[dest])
    <2>1. DOMAIN content = Files /\ f = data /\ data \in Files /\ dest \in Files \cup {None}
      BY <1>1 DEF TypeInv, FileInv
    <2>2. data # dest
      BY <1>1, <2>1, TunnelAssumption DEF FileInv
    <2> HIDE DEF f, i
    <2> QED
      BY <1>1, <2>1, <2>2
  <1>5. \A p \in Slots : p # q => ~Has(p, "manifest") /\ ~Locked(p)
    BY <1>1, TunnelAssumption DEF ReqInv, Has, LockInv
  <1>6. /\ active' \in Stores \cup {None} /\ i \in active'.have
        /\ active.have \subseteq active'.have /\ (ActiveFor(job)' <=> ActiveFor(job))
    <2>1. active \in Stores
      BY <1>1 DEF TypeInv
    <2>2. i \in Chunks
      BY <1>1 DEF ReqInv, Has
    <2>4. /\ active' \in Stores /\ active'.of = active.of
          /\ active'.have = active.have \cup {i}
      BY <1>1, <2>1, <2>2 DEF Stores
    <2>5. active' # None
      BY <2>4, TunnelAssumption DEF Stores
    <2> QED
      BY <1>1, <2>1, <2>4, <2>5 DEF ActiveFor
  <1> HIDE DEF i, f, Stores
  <1>7. ASSUME NEW p \in Slots PROVE Slot(p)'
    <2>1. CASE p = q
      BY <1>1, <1>2, <1>3, <1>6, <2>1 DEF Slot, ManifestInv, ChunkInv, CommitInv, Has, Locked, ActiveFor, i
    <2>2. CASE p # q
      <3>1. /\ ~Has(p, "manifest")' /\ ~Locked(p)' /\ req'[p] = req[p]
            /\ \A k : Has(p, k)' => Has(p, k)
        BY <1>3, <1>5, <2>2 DEF Has, Locked
      <3>2. ChunkInv(p) /\ CommitInv(p)
        BY DEF OrderlyInv
      <3>3. ManifestInv(p)'
        BY <3>1 DEF ManifestInv
      <3>4. ChunkInv(p)'
        BY <1>6, <3>1, <3>2 DEF ChunkInv
      <3>5. CommitInv(p)'
        <4>1. ~(Has(p, "commit")' /\ req'[p].at \in {"verified", "installed", "half", "unlinked"})
          BY <3>1 DEF Locked, Has
        <4> QED
          BY <1>1, <1>4, <3>1, <3>2, <4>1, TunnelAssumption DEF CommitInv, Whole
      <3> QED
        BY <3>3, <3>4, <3>5 DEF Slot
    <2> QED
      BY <2>1, <2>2
  <1>8. TypeInv' /\ LockInv' /\ ReqInv'
    <2>1. UNCHANGED sender
      OBVIOUS
    <2> QED
      BY <1>1, <1>2, <1>4, <1>6, <2>1, HandlerStep DEF TypeInv
  <1>9. FileInv'
    <2>1. active'.file = active.file
      BY <1>1 DEF TypeInv, Stores
    <2> QED
      BY <1>1, <2>1 DEF FileInv
  <1>10. DeliveredWhole' /\ AckedHeld'
    BY <1>1, <1>4, <1>6 DEF OrderlyInv, DeliveredWhole, AckedHeld, Whole
  <1>11. SuccessInv'
    BY <1>1, <1>3, <1>4 DEF OrderlyInv, SuccessInv, Has, Whole
  <1> QED
    BY <1>7, <1>8, <1>9, <1>10, <1>11 DEF OrderlyInv, Slot

\* Next to a commit there are chunks only.
LEMMA BesideCommit ==
    ASSUME ReqInv, LockInv, NEW q \in Slots, Has(q, "commit"), lock = q \/ lock = None
    PROVE  \A p \in Slots : p # q =>
              /\ ~Has(p, "manifest") /\ ~Has(p, "commit") /\ ~Locked(p)
              /\ req[p] # Free => Has(p, "chunk")
  BY TunnelAssumption DEF ReqInv, Has, LockInv

\* A commit that has moved the file, or unpacked the archive, goes on.
LEMMA CommittedStep ==
    ASSUME OrderlyInv, NEW q \in Slots, UNCHANGED sender, Has(q, "commit"), Locked(q),
           NEW at \in {"installed", "half", "unlinked"}, Goto(q, at),
           UNCHANGED <<active, lock, shown>>,
           DOMAIN content' = Files, data' \in Files \cup {None}, data' # None => data' # dest',
           dest' \in Files, content'[dest'] = Whole(req[q].of),
           state' \in Staged \cup {None}, tmp' \in Staged \cup {None}
    PROVE  OrderlyInv'
  <1> HIDE DEF Payloads, Staged, Reqs, Stores
  <1>1. /\ TypeInv /\ ReqInv /\ LockInv /\ lock = q /\ active = None /\ active' = None
        /\ req[q].of = job /\ job \in Source
        /\ UNCHANGED <<job, spc, todo, result, overlapped>>
    BY DEF OrderlyInv, LockInv, CommitInv, ReqInv, Has, sender
  <1>2. PICK r : /\ Moves(q, r) /\ r # Free
                 /\ r.at = at /\ r.store = req[q].store /\ r.ans = req[q].ans
    <2>1. at \in Points \ {"free"} /\ req[q].at # "free"
      BY DEF Points, Locked
    <2> QED
      BY <1>1, <2>1, GotoMoves
  <1>3. /\ req'[q] = r /\ (\A p \in Slots : p # q => req'[p] = req[p])
        /\ r.kind = "commit" /\ r.of = req[q].of
    BY <1>1, <1>2, MovesOthers DEF Moves, Has
  <1>4. \A p \in Slots : p # q =>
           ~Has(p, "manifest")' /\ ~Has(p, "commit")' /\ ~Locked(p)' /\ ~ActiveFor(job)'
    BY <1>1, <1>3, BesideCommit DEF Has, Locked, ActiveFor
  <1>5. ASSUME NEW p \in Slots, p # q PROVE Slot(p)'
    BY <1>4, <1>5 DEF Slot, ManifestInv, ChunkInv, CommitInv
  <1>6. Slot(q)'
    BY <1>1, <1>2, <1>3 DEF Slot, ManifestInv, ChunkInv, CommitInv, Has, Whole
  <1>7. TypeInv' /\ LockInv' /\ ReqInv'
    BY <1>1, <1>2, HandlerStep DEF TypeInv
  <1>8. FileInv' /\ AckedHeld'
    BY <1>1 DEF FileInv, AckedHeld, ActiveFor
  <1>9. DeliveredWhole'
    BY <1>1 DEF DeliveredWhole, Whole
  <1>10. SuccessInv'
    BY <1>1 DEF OrderlyInv, SuccessInv
  <1> QED
    BY <1>5, <1>6, <1>7, <1>8, <1>9, <1>10 DEF OrderlyInv, Slot

\* finalize checks the store and takes it from the App.
LEMMA CommitCheckStep ==
    ASSUME OrderlyInv, NEW q \in Slots, CommitCheck(q), UNCHANGED sender
    PROVE  OrderlyInv'
  <1> HIDE DEF Payloads, Staged, Reqs, Stores
  <1>1. /\ TypeInv /\ ReqInv /\ LockInv /\ lock = None /\ req[q].at = "new" /\ Has(q, "commit")
        /\ active' = None /\ req[q].of = job
        /\ UNCHANGED <<content, data, dest, state, tmp, shown>>
        /\ UNCHANGED <<job, spc, todo, result, overlapped>>
    BY FreeFacts DEF OrderlyInv, CommitCheck, Is, Has, ReqInv, sender, disk
  <1>2. PICK r : /\ Moves(q, r)
                 /\ \/ r # Free /\ r.at = "verified" /\ Verified(req[q].of) /\ lock' = q
                    \/ (r # Free => r.at = "answered" /\ r.ans = "notok") /\ lock' = lock
    <2>1. "verified" \in Points \ {"free"} /\ "notok" \in Answers /\ req[q].at # "free"
      BY <1>1 DEF Points, Answers
    <2>2. CASE Answer(q, "notok") /\ UNCHANGED lock
      BY <1>1, <2>1, <2>2, AnswerMoves
    <2>3. CASE Verified(req[q].of) /\ lock' = q /\ Goto(q, "verified")
      BY <1>1, <2>1, <2>3, GotoMoves
    <2> QED
      BY <2>2, <2>3 DEF CommitCheck
  <1>3. /\ req'[q] = r /\ (\A p \in Slots : p # q => req'[p] = req[p])
        /\ r # Free => r.kind = "commit" /\ r.of = req[q].of
    BY <1>1, <1>2, MovesOthers DEF Moves, Has
  <1>4. \A p \in Slots : p # q =>
           ~Has(p, "manifest")' /\ ~Has(p, "commit")' /\ ~Locked(p)' /\ ~ActiveFor(job)'
    BY <1>1, <1>3, BesideCommit DEF Has, Locked, ActiveFor
  <1>5. ASSUME NEW p \in Slots, p # q PROVE Slot(p)'
    BY <1>4, <1>5 DEF Slot, ManifestInv, ChunkInv, CommitInv
  <1>6. Slot(q)' /\ (Locked(q)' => lock' = q)
    <2>1. CASE r # Free /\ r.at = "verified" /\ Verified(req[q].of) /\ lock' = q
      <3>1. data \in Files /\ content[data] = Whole(req[q].of)
        BY <1>1, <2>1 DEF TypeInv, Verified
      <3> QED
        BY <1>1, <1>3, <2>1, <3>1 DEF Slot, ManifestInv, ChunkInv, CommitInv, Has, Whole
    <2>2. CASE r # Free => r.at = "answered" /\ r.ans = "notok"
      BY <1>1, <1>2, <2>2, SettledSlot
    <2> QED
      BY <1>2, <2>1, <2>2
  <1>7. TypeInv' /\ LockInv' /\ ReqInv'
    BY <1>1, <1>2, <1>6, HandlerStep DEF TypeInv
  <1>8. FileInv' /\ AckedHeld' /\ DeliveredWhole'
    BY <1>1 DEF OrderlyInv, FileInv, AckedHeld, ActiveFor, DeliveredWhole
  <1>9. SuccessInv'
    BY <1>1 DEF OrderlyInv, SuccessInv
  <1> QED
    BY <1>5, <1>6, <1>7, <1>8, <1>9 DEF OrderlyInv, Slot

\* The file is moved, or the archive unpacked: what was checked is what is delivered.
LEMMA CommitInstallStep ==
    ASSUME OrderlyInv, NEW q \in Slots, CommitInstall(q), UNCHANGED sender
    PROVE  OrderlyInv'
  <1> HIDE DEF Staged, FreshFile, InUse, Whole
  <1>1. /\ TypeInv /\ req[q].at = "verified" /\ Has(q, "commit") /\ Locked(q)
        /\ Goto(q, "installed") /\ UNCHANGED <<state, tmp, active, lock, shown>>
    BY FreeFacts DEF OrderlyInv, CommitInstall, Is, Has, Locked, server
  <1>2. /\ data \in Files /\ content[data] = Whole(req[q].of)
        /\ DOMAIN content = Files /\ state' \in Staged \cup {None} /\ tmp' \in Staged \cup {None}
    BY <1>1 DEF OrderlyInv, CommitInv, TypeInv
  <1>3. CASE dest' = data /\ data' = None /\ UNCHANGED content
    BY <1>1, <1>2, <1>3, CommittedStep
  <1>4. CASE /\ Files \ InUse # {} /\ dest' = FreshFile
             /\ content' = [content EXCEPT ![dest'] = content[data]]
             /\ UNCHANGED data
    <2>1. dest' \in Files /\ dest' # data
      BY <1>4, FreshFacts
    <2>2. DOMAIN content' = Files /\ content'[dest'] = Whole(req[q].of)
      BY <1>2, <1>4, <2>1
    <2> QED
      BY <1>1, <1>2, <1>4, <2>1, <2>2, CommittedStep
  <1> QED
    BY <1>3, <1>4 DEF CommitInstall

\* The staged files are removed; the delivered one is not among them.
LEMMA CommitUnlinkStep ==
    ASSUME OrderlyInv, NEW q \in Slots, CommitUnlink(q), UNCHANGED sender
    PROVE  OrderlyInv'
  <1> HIDE DEF Staged, Whole
  <1>1. /\ TypeInv /\ req[q].at \in {"installed", "half"} /\ Has(q, "commit") /\ Locked(q)
        /\ UNCHANGED <<content, dest, active, lock, shown>>
        /\ data' \in {data, None} /\ state' \in {state, None} /\ tmp' \in {tmp, None}
        /\ Goto(q, "half") \/ Goto(q, "unlinked")
    BY FreeFacts DEF OrderlyInv, CommitUnlink, Is, Has, Locked, server
  <1>2. /\ dest \in Files /\ content[dest] = Whole(req[q].of) /\ DOMAIN content = Files
        /\ data \in Files \cup {None} /\ (data # None => data # dest)
    BY <1>1 DEF OrderlyInv, CommitInv, TypeInv, FileInv
  <1>3. /\ state' \in Staged \cup {None} /\ tmp' \in Staged \cup {None}
        /\ data' \in Files \cup {None} /\ (data' # None => data' # dest')
        /\ DOMAIN content' = Files /\ content'[dest'] = Whole(req[q].of) /\ dest' \in Files
    BY <1>1, <1>2 DEF TypeInv
  <1>4. CASE Goto(q, "half")
    BY <1>1, <1>3, <1>4, CommittedStep
  <1>5. CASE Goto(q, "unlinked")
    BY <1>1, <1>3, <1>5, CommittedStep
  <1> QED
    BY <1>1, <1>4, <1>5

\* Every handler keeps the invariant.
LEMMA HandlersStep ==
    ASSUME OrderlyInv, NEW q \in Slots, Handlers(q)
    PROVE  OrderlyInv'
  BY ManifestDeclinedStep, ManifestTextStep, ManifestReadStep, ManifestOpenStep,
     ManifestTmpStep, ManifestRenameStep, ManifestInstallStep, RefusedStep, ChunkWriteStep,
     ChunkTmpStep, ChunkRenameStep, CommitCheckStep, CommitInstallStep, CommitUnlinkStep,
     CommitRmdirStep, DroppedStep, Zenon DEF Handlers, Handle

-----------------------------------------------------------------------------
(* The rest of the server, and a sender that forgets requests.             *)

\* The request at slot p is gone, is no longer waited for, or was cut off.
Fades(p) ==
    \/ req'[p] = Free
    \/ /\ req[p] # Free /\ req'[p].kind = req[p].kind
       /\ req'[p].of = req[p].of /\ req'[p].chunk = req[p].chunk
       /\ \/ req'[p].at = req[p].at /\ req'[p].store = req[p].store /\ req'[p].ans = req[p].ans
          \/ req'[p].at = "answered" /\ req'[p].ans = "lost"

\* The server goes on, or loses all that is not on the disk.
LEMMA FadeStep ==
    ASSUME OrderlyInv, req' \in [Slots -> Reqs], \A p \in Slots : Fades(p),
           UNCHANGED <<content, data, dest, state, tmp, shown, job>>,
           spc' \in {spc, "Idle"}, todo' \subseteq Chunks,
           \/ UNCHANGED <<active, lock>>
           \/ /\ active' = None /\ lock' = None
              /\ \A p \in Slots : req'[p] # Free => req'[p].at = "answered",
           AckedHeld', SuccessInv'
    PROVE  OrderlyInv'
  <1> HIDE DEF Payloads, Staged, Reqs, Stores
  <1>1. TypeInv /\ LockInv /\ ReqInv
    BY DEF OrderlyInv
  <1>2. TypeInv'
    BY <1>1 DEF TypeInv
  <1>3. \A p \in Slots : Locked(p)' => Locked(p) /\ UNCHANGED <<active, lock>>
    BY DEF Fades, Locked, Has
  <1>4. LockInv'
    BY <1>1, <1>3 DEF LockInv
  <1>5. ReqInv'
    BY <1>1, ReqKept DEF Fades
  <1>6. FileInv' /\ DeliveredWhole'
    BY DEF OrderlyInv, FileInv, DeliveredWhole
  <1>7. ASSUME NEW p \in Slots PROVE Slot(p)'
    <2>1. Slot(p)
      BY DEF OrderlyInv, Slot
    <2>2. CASE req'[p] = Free
      BY <2>2, EmptySlot
    <2>3. CASE req'[p] # Free /\ req'[p].at = "answered" /\ req'[p].ans = "lost"
      BY <2>3 DEF Slot, ManifestInv, ChunkInv, CommitInv, Has, Locked
    <2>4. CASE /\ req[p] # Free /\ req'[p].kind = req[p].kind
               /\ req'[p].of = req[p].of /\ req'[p].chunk = req[p].chunk
               /\ req'[p].at = req[p].at /\ req'[p].store = req[p].store
               /\ req'[p].ans = req[p].ans
      <3>1. CASE UNCHANGED <<active, lock>>
        BY <2>1, <2>4, <3>1, SlotKept
      <3>2. CASE active' = None /\ (req'[p] # Free => req'[p].at = "answered")
        <4>1. ~ActiveFor(job)' /\ ~Locked(p)'
          BY <3>2 DEF ActiveFor, Locked, Has
        <4>2. ManifestInv(p)'
          BY <2>1, <2>4, <3>2, <4>1 DEF Slot, ManifestInv, Has
        <4>3. ChunkInv(p)'
          BY <4>1 DEF ChunkInv
        <4>4. CommitInv(p)'
          BY <2>1, <2>4, <3>2, <4>1 DEF Slot, CommitInv, Has, Whole
        <4> QED
          BY <4>2, <4>3, <4>4 DEF Slot
      <3> QED
        BY <3>1, <3>2
    <2> QED
      BY <2>2, <2>3, <2>4 DEF Fades
  <1> QED
    BY <1>2, <1>4, <1>5, <1>6, <1>7 DEF OrderlyInv, Slot

\* Steps that touch none of this.
LEMMA BadAuthStep ==
    ASSUME OrderlyInv, BadAuth \/ Receive \/ UNCHANGED vars
    PROVE  OrderlyInv'
  <1>1. /\ UNCHANGED <<content, data, dest, state, tmp, shown, active, lock, req>>
        /\ UNCHANGED <<job, spc, todo, result, overlapped>>
    BY DEF BadAuth, Receive, vars, disk, server, sender
  <1> HIDE DEF Reqs
  <1>2. req' \in [Slots -> Reqs] /\ todo' \subseteq Chunks /\ \A p \in Slots : Fades(p)
    BY <1>1 DEF OrderlyInv, TypeInv, Fades
  <1>3. AckedHeld' /\ SuccessInv'
    BY <1>1 DEF OrderlyInv, AckedHeld, SuccessInv, ActiveFor, Has
  <1> QED
    BY <1>1, <1>2, <1>3, FadeStep

\* The receiver's process ends: what it has answered still holds.
LEMMA DownStep ==
    ASSUME OrderlyInv, Down
    PROVE  OrderlyInv'
  <1> DEFINE cut(q) == [req[q] EXCEPT !.at = "answered", !.ans = "lost"]
  <1>1. /\ UNCHANGED <<content, data, dest, state, tmp, shown>> /\ active' = None /\ lock' = None
        /\ UNCHANGED <<job, spc, todo, result, overlapped>>
    BY DEF Down, disk, sender
  <1>2. \A q \in Slots : req[q] \in Reqs /\ req[q].live \in BOOLEAN
    BY DEF OrderlyInv, TypeInv, Reqs
  <1>3. \A q \in Slots : req[q].live => req[q] # Free
    BY FreeFacts
  <1>4. \A q \in Slots :
           /\ cut(q) \in Reqs /\ cut(q).at = "answered" /\ cut(q).ans = "lost"
           /\ cut(q).kind = req[q].kind /\ cut(q).of = req[q].of /\ cut(q).chunk = req[q].chunk
    <2> HIDE DEF Stores, Payloads, Kinds, Chunks
    <2> QED
      BY <1>2 DEF Reqs, Points, Answers
  <1>5. req' = [q \in Slots |->
           IF ~req[q].live THEN Free ELSE IF req[q].at = "answered" THEN req[q] ELSE cut(q)]
    BY DEF Down
  <1> HIDE DEF cut, Reqs
  <1>6. ASSUME NEW q \in Slots
        PROVE  req'[q] \in Reqs /\ Fades(q) /\ (req'[q] # Free => req'[q].at = "answered")
    <2>1. CASE ~req[q].live
      <3>1. req'[q] = Free
        BY <1>5, <2>1
      <3> QED
        BY <3>1, FreeFacts DEF Fades
    <2>2. CASE req[q].live /\ req[q].at = "answered"
      BY <1>2, <1>3, <1>5, <2>2 DEF Fades
    <2>3. CASE req[q].live /\ req[q].at # "answered"
      <3>1. req'[q] = cut(q)
        BY <1>5, <2>3
      <3> QED
        BY <1>3, <1>4, <2>3, <3>1 DEF Fades
    <2> QED
      BY <2>1, <2>2, <2>3
  <1>7. req' \in [Slots -> Reqs]
    BY <1>5, <1>6
  <1>8. AckedHeld'
    BY <1>1 DEF AckedHeld, ActiveFor
  <1>9. SuccessInv'
    <2>1. \A p \in Slots : \A k : Has(p, k)' => Has(p, k)
      BY <1>6 DEF Fades, Has
    <2> QED
      BY <1>1, <2>1 DEF OrderlyInv, SuccessInv, Whole
  <1>10. todo' \subseteq Chunks
    BY <1>1 DEF OrderlyInv, TypeInv
  <1> QED
    BY <1>1, <1>6, <1>7, <1>8, <1>9, <1>10, FadeStep

\* The requests of a sender that is gone.
LEMMA OrphanedFacts ==
    ASSUME TypeInv, req' = Orphaned
    PROVE  /\ req' \in [Slots -> Reqs] /\ \A p \in Slots : Fades(p)
           /\ \A p \in Slots : req[p].live /\ req[p].at = "answered" => req'[p] = Free
  <1> DEFINE left(q) == [req[q] EXCEPT !.live = FALSE]
  <1>1. \A q \in Slots : req[q] \in Reqs /\ req[q].live \in BOOLEAN
    BY DEF TypeInv, Reqs
  <1>2. \A q \in Slots : req[q].live => req[q] # Free
    BY FreeFacts
  <1>3. \A q \in Slots :
           /\ left(q) \in Reqs /\ left(q).at = req[q].at /\ left(q).ans = req[q].ans
           /\ left(q).store = req[q].store
           /\ left(q).kind = req[q].kind /\ left(q).of = req[q].of /\ left(q).chunk = req[q].chunk
    <2> HIDE DEF Stores, Payloads, Kinds, Chunks, Points, Answers
    <2> QED
      BY <1>1 DEF Reqs
  <1>4. req' = [q \in Slots |->
           IF ~req[q].live THEN req[q] ELSE IF req[q].at = "answered" THEN Free ELSE left(q)]
    BY DEF Orphaned
  <1> HIDE DEF left, Reqs
  <1>5. ASSUME NEW q \in Slots
        PROVE  /\ req'[q] \in Reqs /\ Fades(q)
               /\ req[q].live /\ req[q].at = "answered" => req'[q] = Free
    <2>1. CASE ~req[q].live
      <3>1. req'[q] = req[q]
        BY <1>4, <2>1
      <3> QED
        BY <1>1, <2>1, <3>1 DEF Fades
    <2>2. CASE req[q].live /\ req[q].at = "answered"
      BY <1>4, <2>2, FreeFacts DEF Fades
    <2>3. CASE req[q].live /\ req[q].at # "answered"
      <3>1. req'[q] = left(q)
        BY <1>4, <2>3
      <3> QED
        BY <1>2, <1>3, <2>3, <3>1 DEF Fades
    <2> QED
      BY <2>1, <2>2, <2>3
  <1> QED
    BY <1>4, <1>5

-----------------------------------------------------------------------------
(* The sender.                                                             *)

\* send() ends; if it reports success, what it sent is there.
LEMMA EndsStep ==
    ASSUME OrderlyInv, NEW res, Ends(res),
           res = "Ok" =>
              /\ \A p \in Slots : Has(p, "manifest") \/ Has(p, "commit") =>
                    req[p].live /\ req[p].at = "answered"
              /\ IF job = TextJob THEN shown ELSE dest # None /\ content[dest] = Whole(job)
    PROVE  OrderlyInv'
  <1> HIDE DEF Reqs, Chunks
  <1>1. /\ spc' = "Idle" /\ result' = res /\ todo' = {} /\ req' = Orphaned
        /\ UNCHANGED <<content, data, dest, state, tmp, shown, job, active, lock, overlapped>>
    BY DEF Ends, disk, server
  <1>2. /\ req' \in [Slots -> Reqs] /\ \A p \in Slots : Fades(p)
        /\ \A p \in Slots : req[p].live /\ req[p].at = "answered" => req'[p] = Free
    BY <1>1, OrphanedFacts DEF OrderlyInv
  <1>3. AckedHeld'
    BY <1>1 DEF AckedHeld
  <1>4. SuccessInv'
    <2>1. \A p \in Slots : \A k : Has(p, k)' => Has(p, k) /\ req'[p] # Free
      BY <1>2 DEF Fades, Has
    <2> QED
      BY <1>1, <1>2, <2>1 DEF SuccessInv, Whole
  <1>5. todo' \subseteq Chunks
    BY <1>1
  <1> QED
    BY <1>1, <1>2, <1>3, <1>4, <1>5, FadeStep

\* A run that reports no success.
LEMMA FailedStep ==
    ASSUME OrderlyInv, Ends("Failed") \/ Ends("Killed")
    PROVE  OrderlyInv'
  BY EndsStep

\* The manifest's answer: the chunks it lists are in the ActiveTransfer.
LEMMA ManifestAckStep ==
    ASSUME OrderlyInv, NEW q \in Slots, ManifestAck(q)
    PROVE  OrderlyInv'
  <1> HIDE DEF Reqs, Payloads, Stores, Staged
  <1>1. /\ TypeInv /\ ReqInv /\ LockInv /\ ManifestInv(q) /\ Has(q, "manifest")
        /\ req[q].live /\ req[q].at = "answered"
        /\ \A p \in Slots : p # q => req[p] = Free
    <2>1. req[q].live /\ req[q].kind = "manifest" /\ req[q].at = "answered"
      BY DEF ManifestAck, Answered, Mine
    <2>2. Has(q, "manifest")
      BY <2>1, FreeFacts DEF Has
    <2> QED
      BY <2>1, <2>2 DEF OrderlyInv, ReqInv
  <1>2. CASE req[q].ans = "complete" /\ Ends("Ok")
    <2>1. job = TextJob /\ shown
      BY <1>1, <1>2 DEF ManifestInv, ReqInv, Has
    <2>2. \A p \in Slots : Has(p, "manifest") \/ Has(p, "commit") =>
             req[p].live /\ req[p].at = "answered"
      BY <1>1 DEF Has
    <2> QED
      BY <1>2, <2>1, <2>2, EndsStep
  <1>3. CASE Ends("Failed")
    BY <1>3, FailedStep
  <1>4. CASE /\ req[q].ans = "accepted"
             /\ spc' = "Upload" /\ todo' = Chunks \ req[q].store.have
             /\ req' = [req EXCEPT ![q] = Free]
             /\ UNCHANGED <<disk, server, job, overlapped, tries, result>>
    <2> HIDE DEF Chunks
    <2>1. UNCHANGED <<content, data, dest, state, tmp, shown, job, active, lock, result>>
      BY <1>4 DEF disk, server
    <2>2. (\A p \in Slots : req'[p] = Free) /\ req' \in [Slots -> Reqs]
      BY <1>1, <1>4, FreeFacts DEF TypeInv
    <2>3. job \in Source /\ (ActiveFor(job) => req[q].store.have \subseteq active.have)
      BY <1>1, <1>4 DEF ManifestInv, ReqInv, Has
    <2>4. TypeInv'
      BY <1>1, <1>4, <2>1, <2>2 DEF TypeInv
    <2>5. LockInv' /\ \A p \in Slots : Slot(p)'
      BY <2>2, EmptySlot DEF LockInv
    <2>6. ReqInv'
      BY <1>4, <2>1, <2>2, <2>3 DEF ReqInv, Has
    <2>7. FileInv' /\ DeliveredWhole'
      BY <2>1 DEF OrderlyInv, FileInv, DeliveredWhole
    <2>8. AckedHeld'
      BY <1>4, <2>1, <2>3 DEF AckedHeld, ActiveFor
    <2>9. SuccessInv'
      BY <1>1, <2>1 DEF OrderlyInv, SuccessInv
    <2> QED
      BY <2>4, <2>5, <2>6, <2>7, <2>8, <2>9 DEF OrderlyInv, Slot
  <1> QED
    BY <1>2, <1>3, <1>4 DEF ManifestAck

\* The acknowledgement of a chunk.
LEMMA ChunkOkStep ==
    ASSUME OrderlyInv, NEW q \in Slots, ChunkOk(q)
    PROVE  OrderlyInv'
  <1> HIDE DEF Reqs
  <1>1. /\ TypeInv /\ ChunkInv(q) /\ Has(q, "chunk") /\ req[q].at = "answered" /\ req[q].ans = "ok"
        /\ todo' = todo \ {req[q].chunk} /\ req' = [req EXCEPT ![q] = Free]
        /\ UNCHANGED <<content, data, dest, state, tmp, shown, job, active, lock>>
        /\ UNCHANGED <<spc, result, overlapped>>
    BY FreeFacts DEF OrderlyInv, ChunkOk, Answered, Mine, Has, disk, server
  <1>2. /\ req' \in [Slots -> Reqs] /\ \A p \in Slots : req'[p] \in {req[p], Free}
        /\ todo' \subseteq Chunks
    BY <1>1, FreeFacts DEF TypeInv
  <1>3. \A p \in Slots : Fades(p)
    BY <1>2 DEF Fades
  <1>4. AckedHeld'
    BY <1>1 DEF OrderlyInv, AckedHeld, ActiveFor, ChunkInv
  <1>5. SuccessInv'
    BY <1>1, <1>2 DEF OrderlyInv, SuccessInv, Has, Whole
  <1> QED
    BY <1>1, <1>2, <1>3, <1>4, <1>5, FadeStep

\* A failed or late attempt, whose request may still be handled.
LEMMA RetryStep ==
    ASSUME OrderlyInv, NEW q \in Slots, ChunkFailed(q) \/ ChunkTimeout(q)
    PROVE  OrderlyInv'
  <1>1. CASE Ends("Failed")
    BY <1>1, FailedStep
  <1>2. CASE /\ req' \in {[req EXCEPT ![q] = Free], [req EXCEPT ![q].live = FALSE]}
             /\ UNCHANGED <<disk, server, sender>>
    <2> DEFINE left == [req[q] EXCEPT !.live = FALSE]
    <2>1. TypeInv /\ req \in [Slots -> Reqs] /\ req[q] \in Reqs /\ req[q] # Free
      BY FreeFacts DEF OrderlyInv, TypeInv, ChunkFailed, ChunkTimeout, Answered, Mine
    <2>2. /\ left \in Reqs /\ left.at = req[q].at /\ left.ans = req[q].ans
          /\ left.store = req[q].store
          /\ left.kind = req[q].kind /\ left.of = req[q].of /\ left.chunk = req[q].chunk
      <3> HIDE DEF Stores, Payloads, Kinds, Chunks, Points, Answers
      <3> QED
        BY <2>1 DEF Reqs
    <2>3. req' = [req EXCEPT ![q] = Free] \/ req' = [req EXCEPT ![q] = left]
      BY <1>2
    <2> HIDE DEF left, Reqs
    <2>4. /\ req' \in [Slots -> Reqs]
          /\ \A p \in Slots : req'[p] = Free \/ req'[p] = req[p] \/ (p = q /\ req'[p] = left)
      BY <2>1, <2>2, <2>3, FreeFacts
    <2>5. \A p \in Slots : Fades(p)
      BY <2>1, <2>2, <2>4 DEF Fades
    <2>6. UNCHANGED <<content, data, dest, state, tmp, shown, job, active, lock,
                      spc, todo, result, overlapped>>
      BY <1>2 DEF disk, server, sender
    <2>7. AckedHeld'
      BY <2>6 DEF OrderlyInv, AckedHeld, ActiveFor
    <2>8. SuccessInv'
      <3>1. \A p \in Slots : \A k : Has(p, k)' => Has(p, k)
        BY <2>5 DEF Fades, Has
      <3> QED
        BY <2>6, <3>1 DEF OrderlyInv, SuccessInv, Whole
    <2>9. todo' \subseteq Chunks
      BY <2>1, <2>6 DEF TypeInv
    <2> QED
      BY <2>4, <2>5, <2>6, <2>7, <2>8, <2>9, FadeStep
  <1> QED
    BY <1>1, <1>2 DEF ChunkFailed, ChunkTimeout, Retry

\* The commit's answer.
LEMMA CommitAckStep ==
    ASSUME OrderlyInv, NEW q \in Slots, CommitAck(q)
    PROVE  OrderlyInv'
  <1>1. /\ ReqInv /\ CommitInv(q) /\ Has(q, "commit") /\ req[q].live /\ req[q].at = "answered"
        /\ Ends(IF req[q].ans = "ok" THEN "Ok" ELSE "Failed")
    BY FreeFacts DEF OrderlyInv, CommitAck, Answered, Mine, Has
  <1>2. CASE req[q].ans = "ok"
    <2>1. /\ req[q].of = job /\ job \in Source /\ dest \in Files
          /\ content[dest] = Whole(req[q].of)
      BY <1>1, <1>2 DEF ReqInv, Has, CommitInv
    <2>2. IF job = TextJob THEN shown ELSE dest # None /\ content[dest] = Whole(job)
      BY <2>1, TunnelAssumption
    <2>3. \A p \in Slots : Has(p, "manifest") \/ Has(p, "commit") => p = q
      BY <1>1 DEF ReqInv, Has
    <2> QED
      BY <1>1, <1>2, <2>2, <2>3, EndsStep
  <1>3. CASE req[q].ans # "ok"
    BY <1>1, <1>3, FailedStep
  <1> QED
    BY <1>2, <1>3

\* The slot of a new request.
LEMMA PostFacts ==
    ASSUME TypeInv, NEW r \in Reqs, r # Free, r.at = "new", Post(r)
    PROVE  \E q \in Slots :
              /\ req[q] = Free /\ req'[q] = r /\ req' \in [Slots -> Reqs]
              /\ \A p \in Slots : p # q => req'[p] = req[p]
  <1> DEFINE free == {q \in Slots : req[q] = Free}
             w == CHOOSE q \in free : TRUE
  <1>1. free # {} /\ req' = [req EXCEPT ![w] = r]
    BY DEF Post
  <1>2. w \in free
    BY <1>1, Zenon
  <1> HIDE DEF w, Reqs
  <1> QED
    BY <1>1, <1>2 DEF TypeInv

\* A request for a chunk or a commit, next to those of the same sender.
LEMMA PostStep ==
    ASSUME OrderlyInv, spc = "Upload", NEW k \in {"chunk", "commit"}, NEW i \in Chunks \cup {None},
           k = "chunk" => i \in Chunks, Post(Request(k, job, i)),
           spc' = IF k = "chunk" THEN "Upload" ELSE "Commit",
           UNCHANGED <<disk, server, job, overlapped, todo, result>>
    PROVE  OrderlyInv'
  <1> DEFINE r == Request(k, job, i)
  <1>1. /\ TypeInv /\ LockInv /\ ReqInv /\ job \in Source
        /\ \A p \in Slots : ~Has(p, "manifest") /\ ~Has(p, "commit")
        /\ UNCHANGED <<content, data, dest, state, tmp, shown, job, active, lock,
                       todo, result, overlapped>>
    BY DEF OrderlyInv, ReqInv, disk, server
  <1>2. /\ r \in Reqs /\ r # Free /\ r.at = "new"
        /\ r.kind = k /\ r.of = job /\ r.chunk = i
    BY <1>1, FreeFacts DEF Request, Reqs, Kinds, Points, Answers, Payloads
  <1>3. Post(r)
    OBVIOUS
  <1> HIDE DEF r, Reqs, Payloads, Stores, Staged, Chunks
  <1>4. PICK q \in Slots : /\ req[q] = Free /\ req'[q] = r /\ req' \in [Slots -> Reqs]
                           /\ \A p \in Slots : p # q => req'[p] = req[p]
    BY <1>1, <1>2, <1>3, PostFacts
  <1>5. TypeInv'
    BY <1>1, <1>4 DEF TypeInv
  <1>6. ~Locked(q)' /\ \A p \in Slots : p # q => (Locked(p)' => Locked(p))
    BY <1>2, <1>4 DEF Locked, Has
  <1>7. LockInv'
    BY <1>1, <1>6 DEF LockInv
  <1>8. ReqInv'
    <2>1. \A p \in Slots : p # q => ~Has(p, "manifest")' /\ ~Has(p, "commit")'
      BY <1>1, <1>4 DEF Has
    <2>2. ~Has(q, "manifest")' /\ (Has(q, "commit")' => k = "commit") /\ (Has(q, "chunk")' => k = "chunk")
      BY <1>2, <1>4 DEF Has
    <2>3. \A p \in Slots : req'[p] # Free =>
             req'[p].of = job' /\ job' \in Payloads' /\ req'[p].kind \in {"manifest", "chunk", "commit"}
      BY <1>1, <1>2, <1>4 DEF ReqInv, Payloads
    <2>4. \A p \in Slots : Has(p, "chunk")' => req'[p].chunk \in Chunks'
      BY <1>1, <1>2, <1>4, <2>2 DEF ReqInv, Has, Chunks
    <2> QED
      BY <1>1, <2>1, <2>2, <2>3, <2>4 DEF ReqInv
  <1>9. Slot(q)'
    BY <1>2, <1>4, <1>6 DEF Slot, ManifestInv, ChunkInv, CommitInv, Has
  <1>10. ASSUME NEW p \in Slots, p # q PROVE Slot(p)'
    <2>1. Slot(p)
      BY DEF OrderlyInv, Slot
    <2>2. CASE req[p] = Free
      BY <1>4, <1>10, <2>2, EmptySlot
    <2>3. CASE req[p] # Free
      BY <1>1, <1>4, <1>10, <2>1, <2>3, SlotKept
    <2> QED
      BY <2>2, <2>3
  <1>11. FileInv' /\ DeliveredWhole' /\ AckedHeld'
    BY <1>1 DEF OrderlyInv, FileInv, DeliveredWhole, AckedHeld, ActiveFor
  <1>12. SuccessInv'
    BY <1>1 DEF OrderlyInv, SuccessInv
  <1> QED
    BY <1>5, <1>7, <1>8, <1>9, <1>10, <1>11, <1>12 DEF OrderlyInv, Slot

\* A chunk or the commit is sent.
LEMMA UploadStep ==
    ASSUME OrderlyInv, (\E i \in Chunks : Upload(i)) \/ Commit
    PROVE  OrderlyInv'
  <1>1. ASSUME NEW i \in Chunks, Upload(i) PROVE OrderlyInv'
    <2>1. /\ spc = "Upload" /\ spc' = "Upload" /\ Post(Request("chunk", job, i))
          /\ UNCHANGED <<disk, server, job, overlapped, todo, result>>
      BY <1>1 DEF Upload
    <2> QED
      BY <2>1, PostStep
  <1>2. CASE Commit
    <2>1. /\ spc = "Upload" /\ spc' = "Commit" /\ Post(Request("commit", job, None))
          /\ UNCHANGED <<disk, server, job, overlapped, todo, result>>
      BY <1>2 DEF Commit
    <2> QED
      BY <2>1, PostStep
  <1> QED
    BY <1>1, <1>2

\* A run starts when the server has no request of an earlier one.
LEMMA StartStep ==
    ASSUME OrderlyInv, NEW s \in Jobs, Start(s), ~overlapped'
    PROVE  OrderlyInv'
  <1> DEFINE r == Request("manifest", s, None)
  <1>1. /\ TypeInv /\ \A p \in Slots : req[p] = Free
        /\ UNCHANGED <<content, data, dest, state, tmp, shown, active, lock, todo>>
        /\ spc' = "Manifest" /\ job' = s /\ result' = None /\ Post(r)
    BY DEF OrderlyInv, Start, disk, server
  <1>2. s \in Payloads
    BY TunnelAssumption DEF Payloads
  <1>3. /\ r \in Reqs /\ r # Free /\ r.at = "new"
        /\ r.kind = "manifest" /\ r.of = s
    BY <1>2, FreeFacts DEF Request, Reqs, Kinds, Points, Answers
  <1> HIDE DEF r, Reqs, Payloads, Stores, Staged, Chunks
  <1>4. PICK q \in Slots : /\ req[q] = Free /\ req'[q] = r /\ req' \in [Slots -> Reqs]
                           /\ \A p \in Slots : p # q => req'[p] = req[p]
    BY <1>1, <1>3, PostFacts
  <1>5. TypeInv'
    BY <1>1, <1>2, <1>4 DEF TypeInv
  <1>6. ReqInv'
    <2>1. \A p \in Slots : \A k : Has(p, k)' => p = q /\ k = "manifest"
      BY <1>1, <1>3, <1>4 DEF Has
    <2>2. \A p \in Slots : req'[p] # Free => p = q
      BY <1>1, <1>4
    <2> QED
      BY <1>1, <1>2, <1>3, <1>4, <2>1, <2>2 DEF ReqInv, Payloads
  <1>7. Slot(q)' /\ ~Locked(q)'
    BY <1>3, <1>4 DEF Slot, ManifestInv, ChunkInv, CommitInv, Has, Locked
  <1>8. \A p \in Slots : Slot(p)' /\ ~Locked(p)'
    BY <1>1, <1>4, <1>7, EmptySlot
  <1>9. LockInv'
    BY <1>8 DEF LockInv
  <1>10. FileInv' /\ DeliveredWhole' /\ AckedHeld'
    BY <1>1 DEF OrderlyInv, FileInv, DeliveredWhole, AckedHeld
  <1>11. SuccessInv'
    BY <1>1, TunnelAssumption DEF SuccessInv
  <1> QED
    BY <1>5, <1>6, <1>8, <1>9, <1>10, <1>11 DEF OrderlyInv, Slot

-----------------------------------------------------------------------------
(* The theorems.                                                           *)

\* The invariant holds at first.
LEMMA TunnelInitially == Init => TunnelInv
  <1> SUFFICES ASSUME Init PROVE OrderlyInv
    BY DEF TunnelInv
  <1> HIDE DEF Reqs, Payloads, Stores, Staged
  <1>1. req \in [Slots -> Reqs] /\ \A q \in Slots : req[q] = Free
    BY FreeFacts DEF Init
  <1>2. TypeInv
    BY <1>1 DEF Init, TypeInv
  <1>3. ReqInv /\ LockInv
    BY <1>1 DEF Init, ReqInv, LockInv, Has, Locked
  <1>4. \A q \in Slots : ManifestInv(q) /\ ChunkInv(q) /\ CommitInv(q)
    BY <1>1 DEF ManifestInv, ChunkInv, CommitInv, Has
  <1>5. FileInv /\ DeliveredWhole /\ AckedHeld /\ SuccessInv
    BY TunnelAssumption DEF Init, FileInv, DeliveredWhole, AckedHeld, SuccessInv
  <1> QED
    BY <1>2, <1>3, <1>4, <1>5 DEF OrderlyInv

\* Every step keeps it.
LEMMA TunnelStep ==
    ASSUME TunnelInv, [Next]_vars
    PROVE  TunnelInv'
  <1> SUFFICES ASSUME ~overlapped' PROVE OrderlyInv'
    BY DEF TunnelInv
  <1>1. ~overlapped
    <2>1. ASSUME NEW q \in Slots, Handlers(q) \/ ChunkTimeout(q) PROVE overlapped' = overlapped
      BY <2>1 DEF Handlers, ChunkTimeout, Retry, Ends, sender
    <2>2. CASE SenderSteps
      BY <2>2 DEF SenderSteps, ManifestAck, ChunkOk, ChunkFailed, Retry, CommitAck, Upload,
                  Commit, Refused, Ends, sender
    <2>3. ASSUME NEW s \in Jobs, Start(s) PROVE ~overlapped
      BY <2>3 DEF Start
    <2>4. CASE BadAuth \/ Exit \/ ReceiverKilled \/ Receive \/ SenderKilled \/ UNCHANGED vars
      BY <2>4 DEF BadAuth, Exit, ReceiverKilled, Receive, SenderKilled, Down, Ends, sender, vars
    <2> QED
      BY <2>1, <2>2, <2>3, <2>4 DEF Next
  <1>2. OrderlyInv
    BY <1>1 DEF TunnelInv
  <1>3. ASSUME NEW q \in Slots, Handlers(q) \/ ChunkTimeout(q) PROVE OrderlyInv'
    BY <1>2, <1>3, HandlersStep, RetryStep
  <1>4. CASE SenderSteps
    <2>1. CASE Refused
      BY <1>2, <2>1, FailedStep DEF Refused
    <2> QED
      BY <1>2, <1>4, <2>1, ManifestAckStep, ChunkOkStep, RetryStep, CommitAckStep, UploadStep,
         Zenon DEF SenderSteps
  <1>5. ASSUME NEW s \in Jobs, Start(s) PROVE OrderlyInv'
    BY <1>2, <1>5, StartStep
  <1>6. CASE BadAuth \/ Receive \/ UNCHANGED vars
    BY <1>2, <1>6, BadAuthStep
  <1>7. CASE Exit \/ ReceiverKilled
    BY <1>2, <1>7, DownStep DEF Exit, ReceiverKilled
  <1>8. CASE SenderKilled
    BY <1>2, <1>8, FailedStep DEF SenderKilled
  <1> QED
    BY <1>3, <1>4, <1>5, <1>6, <1>7, <1>8, Zenon DEF Next

\* The invariant of the tunnel path: until handle_manifest runs next to the
\* requests of an earlier sender, every request and every answer stands for what
\* server.rs did.
THEOREM TunnelInvariant == Spec => []TunnelInv
  BY TunnelInitially, TunnelStep, PTL DEF Spec

\* What finalize puts in place is one whole payload, whatever was repeated,
\* resumed or interrupted, unless the requests of two senders have met.
THEOREM TunnelWholeUnlessOverlapped == Spec => []WholeUnlessOverlapped
  <1>1. TunnelInv => WholeUnlessOverlapped
    BY DEF TunnelInv, OrderlyInv, WholeUnlessOverlapped
  <1> QED
    BY <1>1, TunnelInvariant, PTL

\* The chunks that send() believes to be at the receiver are in the ActiveTransfer.
THEOREM TunnelAckedHeld == Spec => []AckedHeld
  <1>1. TunnelInv => AckedHeld
    BY DEF TunnelInv, OrderlyInv, AckedHeld
  <1> QED
    BY <1>1, TunnelInvariant, PTL

\* A sender that reports success has delivered what it sent.
THEOREM TunnelSuccessMeansDelivered == Spec => []SuccessMeansDelivered
  <1>1. TunnelInv => SuccessMeansDelivered
    BY DEF TunnelInv, OrderlyInv, SuccessInv, SuccessMeansDelivered
  <1> QED
    BY <1>1, TunnelInvariant, PTL

-----------------------------------------------------------------------------
(* The mutex, and the bound on attempts, however requests overlap.         *)

Fields == {"kind", "of", "chunk", "at", "live", "store", "ans"}
Zeros == [i \in Chunks |-> 0]

FilesInv == DOMAIN content = Files /\ {data, dest} \subseteq Files \cup {None}

\* The steps a handler takes with the guard of App.transfer in hand, as TypeOK has them.
HoldsAt(k, at) ==
    \/ at \in {"written", "verified", "installed", "half", "unlinked"}
    \/ at = "tmp" /\ k = "chunk"
Holds(r) == HoldsAt(r.kind, r.at)
\* The mutex has one holder, and nothing runs in a server that is down.
MutexInv ==
    /\ DOMAIN req = Slots /\ \A q \in Slots : DOMAIN req[q] = Fields
    /\ \A q \in Slots : lock = q <=> Holds(req[q])
    /\ ~up => active = None /\ lock = None /\ \A q \in Slots : req[q].at \in {"free", "answered"}

\* An upload that is not under way may be tried once more.
TriesInv ==
    /\ todo \subseteq Chunks /\ tries \in [Chunks -> 0..Attempts]
    /\ spc \in {"Idle", "Manifest", "Upload", "Commit"}
    /\ spc \in {"Idle", "Manifest"} => tries = Zeros
    /\ \A q \in Mine("manifest") : spc = "Manifest"
    /\ \A p, q \in Mine("manifest") : p = q
    /\ spc = "Upload" => \A i \in todo :
          (\A q \in Mine("chunk") : req[q].chunk # i) => tries[i] < Attempts

SafeInv == FilesInv /\ MutexInv /\ TriesInv

\* To its sender, s is the same request as r.
Same(r, s) == (s.live <=> r.live) /\ (r.live => s.kind = r.kind /\ s.chunk = r.chunk)

\* The server's requests change, not those the sender waits for.
LEMMA TriesKept ==
    ASSUME TriesInv, UNCHANGED <<todo, tries, spc>>, \A q \in Slots : Same(req[q], req'[q])
    PROVE  TriesInv'
  <1>1. ASSUME NEW k PROVE Mine(k)' = Mine(k)
    BY DEF Mine, Same
  <1>2. \A q \in Mine("chunk") : req'[q].chunk = req[q].chunk
    BY DEF Mine, Same
  <1> HIDE DEF Mine, Chunks, Zeros
  <1>3. Mine("chunk")' = Mine("chunk") /\ Mine("manifest")' = Mine("manifest")
    BY <1>1
  <1>4. /\ todo' \subseteq Chunks' /\ tries' \in [Chunks' -> 0..Attempts]
        /\ spc' \in {"Idle", "Manifest"} => tries' = Zeros'
    BY DEF TriesInv, Chunks, Zeros
  <1> QED
    BY <1>2, <1>3, <1>4 DEF TriesInv

\* One handler's step: it goes to s, and takes, keeps or releases the mutex.
LEMMA MutexKept ==
    ASSUME MutexInv, TriesInv, NEW q \in Slots, NEW s, req' = [req EXCEPT ![q] = s],
           DOMAIN s = Fields, Same(req[q], s), req[q].at \notin {"free", "answered"},
           lock' = q <=> Holds(s),
           lock' = lock \/ (lock = None /\ lock' = q) \/ (lock = q /\ lock' = None),
           UNCHANGED <<up, sender>>
    PROVE  MutexInv' /\ TriesInv'
  <1>1. /\ req'[q] = s /\ \A p \in Slots : p # q => req'[p] = req[p]
        /\ DOMAIN req' = Slots
    BY DEF MutexInv
  <1>2. up
    BY DEF MutexInv
  <1>3. \A p \in Slots : DOMAIN (req'[p]) = Fields
    BY <1>1 DEF MutexInv
  <1>4. \A p \in Slots : lock' = p <=> Holds(req'[p])
    <2> HIDE DEF Holds
    <2> QED
      BY <1>1, TunnelAssumption DEF MutexInv
  <1>5. MutexInv'
    BY <1>1, <1>2, <1>3, <1>4 DEF MutexInv, Holds
  <1>6. \A p \in Slots : Same(req[p], req'[p])
    BY <1>1 DEF Same
  <1> QED
    BY <1>5, <1>6, TriesKept DEF sender

\* A slot without a request, and a request that is made.
LEMMA FreeFields ==
    /\ DOMAIN Free = Fields /\ ~Free.live /\ ~Holds(Free) /\ Free.at = "free"
    /\ \A k, s, i : /\ DOMAIN Request(k, s, i) = Fields /\ Request(k, s, i).at = "new"
                    /\ Request(k, s, i).live /\ Request(k, s, i).kind = k
                    /\ Request(k, s, i).chunk = i
  <1>1. ~Free.live /\ Free.at = "free" /\ DOMAIN Free = Fields
    BY DEF Free, Request, Fields
  <1>2. ~Holds(Free)
    <2> HIDE DEF Free
    <2> QED
      BY <1>1 DEF Holds, HoldsAt
  <1>3. ASSUME NEW k, NEW s, NEW i
        PROVE  /\ DOMAIN Request(k, s, i) = Fields /\ Request(k, s, i).at = "new"
               /\ Request(k, s, i).live /\ Request(k, s, i).kind = k
               /\ Request(k, s, i).chunk = i
    BY DEF Request, Fields
  <1> QED
    BY <1>1, <1>2, <1>3

\* An answer ends the handler.
LEMMA AnswerKeeps ==
    ASSUME MutexInv, TriesInv, NEW q \in Slots, NEW a, Answer(q, a),
           req[q].at \notin {"free", "answered"},
           IF Holds(req[q]) THEN lock' = None ELSE lock' = lock,
           UNCHANGED <<up, sender>>
    PROVE  MutexInv' /\ TriesInv'
  <1> DEFINE t == [req[q] EXCEPT !.at = "answered", !.ans = a]
             s == IF req[q].live THEN t ELSE Free
  <1>1. DOMAIN req[q] = Fields /\ req' = [req EXCEPT ![q] = s]
    BY DEF MutexInv, Answer
  <1>2. /\ DOMAIN t = Fields /\ t.at = "answered"
        /\ t.live = req[q].live /\ t.kind = req[q].kind /\ t.chunk = req[q].chunk
    BY <1>1 DEF Fields
  <1> HIDE DEF t
  <1>3. DOMAIN s = Fields /\ Same(req[q], s) /\ ~Holds(s)
    <2>1. CASE req[q].live
      BY <1>2, <2>1 DEF Same, Holds, HoldsAt
    <2>2. CASE ~req[q].live
      <3>1. s = Free /\ s.live = FALSE
        BY <2>2 DEF Free, Request
      <3>2. Same(req[q], s)
        BY <2>2, <3>1, FreeFields DEF Same
      <3> QED
        BY <3>1, <3>2, FreeFields
    <2> QED
      BY <2>1, <2>2
  <1>4. lock = q <=> Holds(req[q])
    BY DEF MutexInv
  <1>5. /\ lock' = q <=> Holds(s)
        /\ lock' = lock \/ (lock = None /\ lock' = q) \/ (lock = q /\ lock' = None)
    BY <1>3, <1>4, TunnelAssumption
  <1> HIDE DEF s, Holds, Same, Fields
  <1> QED
    BY <1>1, <1>3, <1>5, MutexKept

\* The handler goes on with request s, in or out of the mutex.
LEMMA MoveKeeps ==
    ASSUME MutexInv, TriesInv, NEW q \in Slots, NEW s, req' = [req EXCEPT ![q] = s],
           DOMAIN s = Fields, s.live = req[q].live, s.kind = req[q].kind, s.chunk = req[q].chunk,
           req[q].at \notin {"free", "answered"},
           IF HoldsAt(req[q].kind, s.at) THEN lock' = q /\ lock \in {None, q}
           ELSE lock # q /\ lock' = lock,
           UNCHANGED <<up, sender>>
    PROVE  MutexInv' /\ TriesInv'
  <1>1. Same(req[q], s)
    BY DEF Same
  <1>2. /\ lock' = q <=> Holds(s)
        /\ lock' = lock \/ (lock = None /\ lock' = q) \/ (lock = q /\ lock' = None)
    BY TunnelAssumption DEF Holds
  <1> HIDE DEF Holds, Same, Fields
  <1> QED
    BY <1>1, <1>2, MutexKept

\* A step to another point of the handler.
LEMMA GotoKeeps ==
    ASSUME MutexInv, TriesInv, NEW q \in Slots, NEW at, Goto(q, at),
           req[q].at \notin {"free", "answered"},
           IF HoldsAt(req[q].kind, at) THEN lock' = q /\ lock \in {None, q}
           ELSE lock # q /\ lock' = lock,
           UNCHANGED <<up, sender>>
    PROVE  MutexInv' /\ TriesInv'
  <1> DEFINE s == [req[q] EXCEPT !.at = at]
  <1>1. DOMAIN req[q] = Fields /\ req' = [req EXCEPT ![q] = s]
    BY DEF MutexInv, Goto
  <1>2. /\ DOMAIN s = Fields /\ s.at = at
        /\ s.live = req[q].live /\ s.kind = req[q].kind /\ s.chunk = req[q].chunk
    BY <1>1 DEF Fields
  <1> HIDE DEF s, HoldsAt, Fields
  <1> QED
    BY <1>1, <1>2, MoveKeeps

\* Each step of a handler takes and releases the mutex where it should.
LEMMA HandlerKeeps ==
    ASSUME MutexInv, TriesInv, NEW q \in Slots, Handlers(q)
    PROVE  MutexInv' /\ TriesInv'
  <1>1. UNCHANGED sender /\ (lock = q <=> HoldsAt(req[q].kind, req[q].at)) /\ DOMAIN req[q] = Fields
    BY DEF Handlers, MutexInv, Holds
  <1>2. q # None
    BY TunnelAssumption
  <1>3. CASE ManifestDeclined(q) \/ ManifestText(q)
    <2>1. PICK a : Answer(q, a)
      BY <1>3 DEF ManifestDeclined, ManifestText
    <2>2. req[q].at = "new" /\ UNCHANGED <<up, lock>> /\ ~Holds(req[q])
      BY <1>3 DEF ManifestDeclined, ManifestText, Is, server, Holds, HoldsAt
    <2> HIDE DEF Holds
    <2> QED
      BY <1>1, <2>1, <2>2, AnswerKeeps
  <1>4. CASE ManifestRead(q)
    <2> DEFINE st == [of |-> req[q].of, have |-> IF Reusable(req[q].of) THEN state.have ELSE {},
                      file |-> None]
               s == [req[q] EXCEPT !.at = "read", !.store = st]
    <2>1. /\ req' = [req EXCEPT ![q] = s] /\ req[q].at = "new" /\ UNCHANGED <<up, lock>>
      BY <1>4 DEF ManifestRead, Is, server
    <2> HIDE DEF st
    <2>2. /\ DOMAIN s = Fields /\ s.at = "read"
          /\ s.live = req[q].live /\ s.kind = req[q].kind /\ s.chunk = req[q].chunk
      BY <1>1 DEF Fields
    <2>3. ~HoldsAt(req[q].kind, s.at) /\ lock # q
      BY <1>1, <2>1, <2>2 DEF HoldsAt
    <2> HIDE DEF s, HoldsAt, Fields
    <2> QED
      BY <1>1, <2>1, <2>2, <2>3, MoveKeeps
  <1>5. CASE ManifestOpen(q)
    <2>1. req[q].at = "read" /\ UNCHANGED <<up, lock>> /\ lock # q /\ ~HoldsAt(req[q].kind, req[q].at)
      BY <1>1, <1>5 DEF ManifestOpen, Is, server, HoldsAt
    <2>2. CASE Answer(q, "error")
      <3> HIDE DEF HoldsAt
      <3> QED
        BY <1>1, <2>1, <2>2, AnswerKeeps DEF Holds
    <2>3. CASE req' = [req EXCEPT ![q] = [@ EXCEPT !.at = "opened", !.store.file = data']]
      <3> DEFINE s == [req[q] EXCEPT !.at = "opened", !.store.file = data']
      <3>1. req' = [req EXCEPT ![q] = s]
        BY <2>3
      <3>2. /\ DOMAIN s = Fields /\ s.at = "opened"
            /\ s.live = req[q].live /\ s.kind = req[q].kind /\ s.chunk = req[q].chunk
        BY <1>1 DEF Fields
      <3>3. ~HoldsAt(req[q].kind, s.at)
        BY <3>2 DEF HoldsAt
      <3> HIDE DEF s, HoldsAt, Fields
      <3> QED
        BY <1>1, <2>1, <3>1, <3>2, <3>3, MoveKeeps
    <2> QED
      BY <1>5, <2>2, <2>3 DEF ManifestOpen
  <1>6. CASE ManifestTmp(q) \/ ManifestRename(q) \/ ManifestInstall(q)
    <2>1. /\ req[q].at \in {"opened", "tmp", "ready"} /\ req[q].kind = "manifest"
          /\ UNCHANGED <<up, lock>>
          /\ ~HoldsAt(req[q].kind, req[q].at) /\ ~HoldsAt(req[q].kind, "tmp") /\ ~HoldsAt(req[q].kind, "ready")
      BY <1>6 DEF ManifestTmp, ManifestRename, ManifestInstall, Is, HoldsAt
    <2>2. lock # q
      BY <1>1, <2>1
    <2>3. (\E a : Answer(q, a)) \/ (\E at \in {"tmp", "ready"} : Goto(q, at))
      BY <1>6 DEF ManifestTmp, ManifestRename, ManifestInstall
    <2> HIDE DEF HoldsAt
    <2>4. CASE \E a : Answer(q, a)
      BY <1>1, <2>1, <2>4, AnswerKeeps DEF Holds
    <2>5. CASE \E at \in {"tmp", "ready"} : Goto(q, at)
      BY <1>1, <2>1, <2>2, <2>5, GotoKeeps
    <2> QED
      BY <2>3, <2>4, <2>5
  <1>7. CASE ChunkRefused(q) \/ CommitRefused(q)
    <2>1. /\ Answer(q, "refused") /\ req[q].at = "new" /\ UNCHANGED <<up, lock>>
          /\ ~Holds(req[q])
      BY <1>7 DEF ChunkRefused, CommitRefused, Is, server, Holds, HoldsAt
    <2> HIDE DEF Holds
    <2> QED
      BY <1>1, <2>1, AnswerKeeps
  <1>8. CASE ChunkWrite(q)
    <2>1. /\ Goto(q, "written") /\ req[q].at = "new" /\ lock = None /\ lock' = q /\ up' = up
          /\ HoldsAt(req[q].kind, "written")
      BY <1>8 DEF ChunkWrite, Is, HoldsAt
    <2> HIDE DEF HoldsAt
    <2> QED
      BY <1>1, <2>1, GotoKeeps
  <1>9. CASE ChunkTmp(q) \/ ChunkRename(q)
    <2>1. /\ req[q].at \in {"written", "tmp"} /\ HoldsAt(req[q].kind, req[q].at) /\ up' = up
          /\ HoldsAt(req[q].kind, "tmp")
      BY <1>9 DEF ChunkTmp, ChunkRename, Is, HoldsAt
    <2>2. \/ (\E a : Answer(q, a)) /\ lock' = None
          \/ Goto(q, "tmp") /\ lock' = lock
      BY <1>9 DEF ChunkTmp, ChunkRename
    <2> HIDE DEF HoldsAt
    <2>3. CASE (\E a : Answer(q, a)) /\ lock' = None
      BY <1>1, <2>1, <2>3, AnswerKeeps DEF Holds
    <2>4. CASE Goto(q, "tmp") /\ lock' = lock
      BY <1>1, <2>1, <2>4, GotoKeeps
    <2> QED
      BY <2>2, <2>3, <2>4
  <1>10. CASE CommitCheck(q)
    <2>1. /\ req[q].at = "new" /\ up' = up /\ lock = None
          /\ HoldsAt(req[q].kind, "verified") /\ ~HoldsAt(req[q].kind, req[q].at)
          /\ \/ Answer(q, "notok") /\ lock' = lock
             \/ Goto(q, "verified") /\ lock' = q
      BY <1>10 DEF CommitCheck, Is, HoldsAt
    <2> HIDE DEF HoldsAt
    <2>3. CASE Answer(q, "notok") /\ lock' = lock
      BY <1>1, <2>1, <2>3, AnswerKeeps DEF Holds
    <2>4. CASE Goto(q, "verified") /\ lock' = q
      BY <1>1, <2>1, <2>4, GotoKeeps
    <2> QED
      BY <2>1, <2>3, <2>4
  <1>11. CASE CommitInstall(q) \/ CommitUnlink(q)
    <2>1. /\ req[q].at \in {"verified", "installed", "half"} /\ UNCHANGED <<up, lock>>
          /\ HoldsAt(req[q].kind, req[q].at)
          /\ \E at \in {"installed", "half", "unlinked"} : Goto(q, at) /\ HoldsAt(req[q].kind, at)
      BY <1>11 DEF CommitInstall, CommitUnlink, Is, HoldsAt, server
    <2> HIDE DEF HoldsAt
    <2> QED
      BY <1>1, <2>1, GotoKeeps
  <1>12. CASE CommitRmdir(q)
    <2>1. /\ req[q].at = "unlinked" /\ up' = up /\ lock' = None /\ Holds(req[q])
          /\ \E a : Answer(q, a)
      BY <1>12 DEF CommitRmdir, Is, Holds, HoldsAt
    <2> HIDE DEF Holds
    <2> QED
      BY <1>1, <2>1, AnswerKeeps
  <1>13. CASE Dropped(q)
    <2>1. /\ req' = [req EXCEPT ![q] = Free] /\ UNCHANGED <<up, lock>> /\ ~req[q].live
          /\ req[q].at \in {"new", "ready"} /\ lock # q
      BY <1>1, <1>13 DEF Dropped, server, HoldsAt
    <2>2. Same(req[q], Free)
      BY <2>1, FreeFields DEF Same
    <2> HIDE DEF Free, Same, Holds, Fields
    <2> QED
      BY <1>1, <2>1, <2>2, FreeFields, MutexKept
  <1> QED
    BY <1>3, <1>4, <1>5, <1>6, <1>7, <1>8, <1>9, <1>10, <1>11, <1>12, <1>13 DEF Handlers, Handle

\* The server's process ends, with every handler wherever it is.
LEMMA DownKeeps ==
    ASSUME MutexInv, TriesInv, Down
    PROVE  MutexInv' /\ TriesInv'
  <1> DEFINE cut(q) == [req[q] EXCEPT !.at = "answered", !.ans = "lost"]
  <1>1. up' = FALSE /\ active' = None /\ lock' = None /\ UNCHANGED <<todo, tries, spc>>
    BY DEF Down, sender
  <1>2. \A q \in Slots :
           /\ DOMAIN cut(q) = Fields /\ cut(q).at = "answered" /\ cut(q).live = req[q].live
           /\ cut(q).kind = req[q].kind /\ cut(q).chunk = req[q].chunk
    BY DEF MutexInv, Fields
  <1>3. req' = [q \in Slots |->
           IF ~req[q].live THEN Free ELSE IF req[q].at = "answered" THEN req[q] ELSE cut(q)]
    BY DEF Down
  <1> HIDE DEF cut, Free, Fields
  <1>4. ASSUME NEW q \in Slots
        PROVE  /\ DOMAIN (req'[q]) = Fields /\ Same(req[q], req'[q])
               /\ req'[q].at \in {"free", "answered"}
    <2>1. CASE ~req[q].live
      BY <1>3, <2>1, FreeFields DEF Same
    <2>2. CASE req[q].live /\ req[q].at = "answered"
      BY <1>3, <2>2 DEF Same, MutexInv
    <2>3. CASE req[q].live /\ req[q].at # "answered"
      <3>1. req'[q] = cut(q)
        BY <1>3, <2>3
      <3> QED
        BY <1>2, <3>1 DEF Same
    <2> QED
      BY <2>1, <2>2, <2>3
  <1>5. \A q \in Slots : ~Holds(req'[q]) /\ lock' # q
    BY <1>1, <1>4, TunnelAssumption DEF Holds, HoldsAt
  <1>6. DOMAIN req' = Slots
    BY <1>3
  <1>7. MutexInv'
    BY <1>1, <1>4, <1>5, <1>6 DEF MutexInv, Holds, Fields
  <1> QED
    BY <1>1, <1>4, <1>7, TriesKept

\* The sender never touches the mutex: it only forgets requests that are not in it.
LEMMA MutexBeside ==
    ASSUME MutexInv, UNCHANGED <<up, active, lock>>, DOMAIN req' = Slots,
           \A p \in Slots :
              /\ DOMAIN (req'[p]) = Fields
              /\ \/ req'[p].at = req[p].at /\ req'[p].kind = req[p].kind
                 \/ req[p].at = "answered" /\ req'[p].at = "free"
    PROVE  MutexInv'
  <1>1. \A p \in Slots : Holds(req'[p]) <=> Holds(req[p])
    BY DEF Holds, HoldsAt
  <1>2. \A p \in Slots : req[p].at \in {"free", "answered"} => req'[p].at \in {"free", "answered"}
    OBVIOUS
  <1> HIDE DEF Holds, Fields
  <1> QED
    BY <1>1, <1>2 DEF MutexInv, Holds, Fields

\* send() ends; its requests are left to the server.
LEMMA EndsKeeps ==
    ASSUME MutexInv, TriesInv, NEW res, Ends(res)
    PROVE  MutexInv' /\ TriesInv'
  <1> DEFINE left(q) == [req[q] EXCEPT !.live = FALSE]
  <1>1. UNCHANGED <<up, active, lock>> /\ spc' = "Idle" /\ todo' = {} /\ tries' = Zeros
    BY DEF Ends, server, Zeros
  <1>2. \A q \in Slots :
           DOMAIN left(q) = Fields /\ left(q).at = req[q].at /\ left(q).kind = req[q].kind /\ ~left(q).live
    BY DEF MutexInv, Fields
  <1>3. req' = [q \in Slots |->
           IF ~req[q].live THEN req[q] ELSE IF req[q].at = "answered" THEN Free ELSE left(q)]
    BY DEF Ends, Orphaned
  <1> HIDE DEF left, Free, Fields
  <1>4. ASSUME NEW q \in Slots
        PROVE  /\ DOMAIN (req'[q]) = Fields /\ ~req'[q].live
               /\ \/ req'[q].at = req[q].at /\ req'[q].kind = req[q].kind
                  \/ req[q].at = "answered" /\ req'[q].at = "free"
    <2>1. CASE ~req[q].live
      BY <1>3, <2>1 DEF MutexInv
    <2>2. CASE req[q].live /\ req[q].at = "answered"
      BY <1>3, <2>2, FreeFields
    <2>3. CASE req[q].live /\ req[q].at # "answered"
      <3>1. req'[q] = left(q)
        BY <1>3, <2>3
      <3> QED
        BY <1>2, <3>1
    <2> QED
      BY <2>1, <2>2, <2>3
  <1>5. DOMAIN req' = Slots
    BY <1>3
  <1>6. MutexInv'
    BY <1>1, <1>4, <1>5, MutexBeside
  <1>7. TriesInv'
    <2>1. \A k : Mine(k)' = {}
      BY <1>4 DEF Mine
    <2>2. tries' \in [Chunks -> 0..Attempts] /\ tries' = Zeros'
      BY <1>1, TunnelAssumption DEF Zeros
    <2> HIDE DEF Mine, Zeros, Chunks
    <2> QED
      BY <1>1, <2>1, <2>2 DEF TriesInv, Chunks
  <1> QED
    BY <1>6, <1>7

\* A request that was answered is read, and its slot free again.
LEMMA ReadKeeps ==
    ASSUME MutexInv, NEW q \in Slots, req[q].at = "answered", req' = [req EXCEPT ![q] = Free],
           UNCHANGED <<up, active, lock>>
    PROVE  /\ MutexInv' /\ ~req'[q].live
           /\ \A p \in Slots : p # q => req'[p] = req[p]
  <1> HIDE DEF Free, Fields
  <1>1. DOMAIN req' = Slots /\ req'[q] = Free /\ \A p \in Slots : p # q => req'[p] = req[p]
    BY DEF MutexInv
  <1>2. \A p \in Slots :
           /\ DOMAIN (req'[p]) = Fields
           /\ \/ req'[p].at = req[p].at /\ req'[p].kind = req[p].kind
              \/ req[p].at = "answered" /\ req'[p].at = "free"
    BY <1>1, FreeFields DEF MutexInv
  <1> QED
    BY <1>1, <1>2, FreeFields, MutexBeside

\* One request less for the sender to wait for.
LEMMA MineLess ==
    ASSUME NEW q \in Slots, ~req'[q].live, \A p \in Slots : p # q => req'[p] = req[p]
    PROVE  \A k : Mine(k)' = Mine(k) \ {q}
  BY DEF Mine

\* The manifest's answer starts the uploads, none of which was tried yet, or ends the run.
LEMMA ManifestAckKeeps ==
    ASSUME MutexInv, TriesInv, NEW q \in Slots, ManifestAck(q)
    PROVE  MutexInv' /\ TriesInv'
  <1>1. CASE \E res : Ends(res)
    BY <1>1, EndsKeeps
  <1>2. CASE /\ spc' = "Upload" /\ todo' = Chunks \ req[q].store.have
             /\ req' = [req EXCEPT ![q] = Free] /\ UNCHANGED <<server, tries>>
    <2>1. q \in Mine("manifest") /\ req[q].at = "answered" /\ UNCHANGED <<up, active, lock>>
      BY <1>2 DEF ManifestAck, Answered, server
    <2> HIDE DEF Free
    <2>2. MutexInv' /\ ~req'[q].live /\ \A p \in Slots : p # q => req'[p] = req[p]
      BY <1>2, <2>1, ReadKeeps
    <2>3. \A k : Mine(k)' = Mine(k) \ {q}
      BY <2>2, MineLess
    <2> HIDE DEF Mine
    <2>4. Mine("manifest")' = {} /\ spc = "Manifest"
      BY <2>1, <2>3 DEF TriesInv
    <2>5. tries' = Zeros /\ \A i \in Chunks : tries'[i] < Attempts
      BY <1>2, <2>4, TunnelAssumption DEF TriesInv, Zeros
    <2>6. todo' \subseteq Chunks /\ tries' \in [Chunks -> 0..Attempts]
      BY <1>2 DEF TriesInv
    <2> HIDE DEF Chunks, Zeros
    <2> QED
      BY <1>2, <2>2, <2>4, <2>5, <2>6 DEF TriesInv, Chunks
  <1> QED
    BY <1>1, <1>2 DEF ManifestAck

\* An acknowledged chunk is no longer to be sent.
LEMMA ChunkOkKeeps ==
    ASSUME MutexInv, TriesInv, NEW q \in Slots, ChunkOk(q)
    PROVE  MutexInv' /\ TriesInv'
  <1>1. /\ q \in Mine("chunk") /\ req[q].at = "answered" /\ UNCHANGED <<up, active, lock, spc, tries>>
        /\ req' = [req EXCEPT ![q] = Free] /\ todo' = todo \ {req[q].chunk}
    BY DEF ChunkOk, Answered, server
  <1> HIDE DEF Free
  <1>2. MutexInv' /\ ~req'[q].live /\ \A p \in Slots : p # q => req'[p] = req[p]
    BY <1>1, ReadKeeps
  <1>3. \A k : Mine(k)' = Mine(k) \ {q}
    BY <1>2, MineLess
  <1>4. \A k : Mine(k) \subseteq Slots
    BY DEF Mine
  <1> HIDE DEF Mine, Chunks, Zeros
  <1>5. \A p \in Mine("chunk")' : p # q /\ req'[p] = req[p] /\ p \in Mine("chunk")
    BY <1>2, <1>3, <1>4
  <1>6. spc' = "Upload" => \A i \in todo' :
           (\A p \in Mine("chunk")' : req'[p].chunk # i) => tries'[i] < Attempts
    <2> SUFFICES ASSUME spc = "Upload", NEW i \in todo, i # req[q].chunk,
                        \A p \in Mine("chunk")' : req'[p].chunk # i
                 PROVE  tries[i] < Attempts
      BY <1>1
    <2>1. \A p \in Mine("chunk") : req[p].chunk # i
      BY <1>2, <1>3, <1>4
    <2> QED
      BY <2>1 DEF TriesInv
  <1>7. /\ \A p \in Mine("manifest")' : p \in Mine("manifest")
        /\ todo' \subseteq Chunks /\ tries' \in [Chunks -> 0..Attempts]
        /\ spc' \in {"Idle", "Manifest"} => tries' = Zeros
    BY <1>1, <1>3 DEF TriesInv
  <1> QED
    BY <1>1, <1>2, <1>6, <1>7 DEF TriesInv, Chunks, Zeros

\* An attempt failed or timed out: it was not the last one, or the run ends.
LEMMA RetryKeeps ==
    ASSUME MutexInv, TriesInv, NEW q \in Slots, ChunkFailed(q) \/ ChunkTimeout(q)
    PROVE  MutexInv' /\ TriesInv'
  <1>1. CASE \E res : Ends(res)
    BY <1>1, EndsKeeps
  <1>2. CASE /\ tries[req[q].chunk] < Attempts /\ UNCHANGED <<disk, server, sender>>
             /\ \/ req[q].at = "answered" /\ req' = [req EXCEPT ![q] = Free]
                \/ req' = [req EXCEPT ![q].live = FALSE]
    <2>1. UNCHANGED <<up, active, lock, spc, tries, todo>>
      BY <1>2 DEF server, sender
    <2>2. MutexInv' /\ ~req'[q].live /\ \A p \in Slots : p # q => req'[p] = req[p]
      <3>1. CASE req[q].at = "answered" /\ req' = [req EXCEPT ![q] = Free]
        BY <2>1, <3>1, ReadKeeps
      <3>2. CASE req' = [req EXCEPT ![q].live = FALSE]
        <4> DEFINE t == [req[q] EXCEPT !.live = FALSE]
        <4>1. req' = [req EXCEPT ![q] = t]
          BY <3>2
        <4>2. DOMAIN t = Fields /\ t.at = req[q].at /\ t.kind = req[q].kind /\ ~t.live
          BY DEF MutexInv, Fields
        <4> HIDE DEF t, Fields
        <4>3. DOMAIN req' = Slots /\ req'[q] = t /\ \A p \in Slots : p # q => req'[p] = req[p]
          BY <4>1 DEF MutexInv
        <4>4. \A p \in Slots : DOMAIN (req'[p]) = Fields /\ req'[p].at = req[p].at /\ req'[p].kind = req[p].kind
          BY <4>2, <4>3 DEF MutexInv
        <4> QED
          BY <2>1, <4>2, <4>3, <4>4, MutexBeside
      <3> QED
        BY <1>2, <3>1, <3>2
    <2>3. \A k : Mine(k)' = Mine(k) \ {q}
      BY <2>2, MineLess
    <2>4. \A k : Mine(k) \subseteq Slots
      BY DEF Mine
    <2> HIDE DEF Mine, Chunks, Zeros
    <2>5. spc' = "Upload" => \A i \in todo' :
             (\A p \in Mine("chunk")' : req'[p].chunk # i) => tries'[i] < Attempts
      <3> SUFFICES ASSUME spc = "Upload", NEW i \in todo, i # req[q].chunk,
                          \A p \in Mine("chunk")' : req'[p].chunk # i
                   PROVE  tries[i] < Attempts
        BY <1>2, <2>1
      <3>1. \A p \in Mine("chunk") : req[p].chunk # i
        BY <2>2, <2>3, <2>4
      <3> QED
        BY <3>1 DEF TriesInv
    <2>6. /\ \A p \in Mine("manifest")' : p \in Mine("manifest")
          /\ todo' \subseteq Chunks /\ tries' \in [Chunks -> 0..Attempts]
          /\ spc' \in {"Idle", "Manifest"} => tries' = Zeros
      BY <2>1, <2>3 DEF TriesInv
    <2> QED
      BY <2>1, <2>2, <2>5, <2>6 DEF TriesInv, Chunks, Zeros
  <1> QED
    BY <1>1, <1>2 DEF ChunkFailed, ChunkTimeout, Retry, Answered

\* A new request waits outside the mutex.
LEMMA PostKeeps ==
    ASSUME MutexInv, NEW k, NEW s, NEW i, Post(Request(k, s, i)), UNCHANGED <<up, active, lock>>
    PROVE  \E q \in Slots :
              /\ MutexInv' /\ req'[q] = Request(k, s, i) /\ ~req[q].live
              /\ \A p \in Slots : p # q => req'[p] = req[p]
  <1> DEFINE free == {q \in Slots : req[q] = Free}
             w == CHOOSE q \in free : TRUE
             r == Request(k, s, i)
  <1>1. up /\ free # {} /\ req' = [req EXCEPT ![w] = r]
    BY DEF Post
  <1>2. w \in free
    BY <1>1, Zenon
  <1>3. DOMAIN r = Fields /\ r.at = "new"
    BY FreeFields
  <1> HIDE DEF w, r, Fields, Free
  <1>4. w \in Slots /\ req[w] = Free
    BY <1>2
  <1>5. DOMAIN req' = Slots /\ req'[w] = r /\ \A p \in Slots : p # w => req'[p] = req[p]
    BY <1>1, <1>4 DEF MutexInv
  <1>6. \A p \in Slots : DOMAIN (req'[p]) = Fields
    BY <1>3, <1>4, <1>5 DEF MutexInv
  <1>7. ~Holds(r)
    BY <1>3 DEF Holds, HoldsAt
  <1> HIDE DEF Holds
  <1>8. \A p \in Slots : lock' = p <=> Holds(req'[p])
    BY <1>4, <1>5, <1>7, FreeFields DEF MutexInv
  <1>9. MutexInv'
    BY <1>1, <1>5, <1>6, <1>8 DEF MutexInv, Holds, Fields
  <1> QED
    BY <1>4, <1>5, <1>9, FreeFields DEF r

\* One request more, which the sender waits for.
LEMMA MineMore ==
    ASSUME NEW q \in Slots, NEW k, NEW s, NEW i, req'[q] = Request(k, s, i), ~req[q].live,
           \A p \in Slots : p # q => req'[p] = req[p]
    PROVE  /\ Mine(k)' = Mine(k) \cup {q} /\ q \notin Mine(k)
           /\ \A j : j # k => Mine(j)' = Mine(j)
           /\ req'[q].chunk = i
  <1>1. req'[q].live /\ req'[q].kind = k /\ req'[q].chunk = i
    BY FreeFields
  <1> HIDE DEF Request
  <1> QED
    BY <1>1 DEF Mine

\* An attempt at an upload that was not under way.
LEMMA UploadKeeps ==
    ASSUME MutexInv, TriesInv, NEW i \in Chunks, Upload(i)
    PROVE  MutexInv' /\ TriesInv'
  <1>1. /\ spc = "Upload" /\ i \in todo /\ \A q \in Mine("chunk") : req[q].chunk # i
        /\ UNCHANGED <<up, active, lock, spc, todo>>
        /\ tries' = [tries EXCEPT ![i] = @ + 1]
        /\ Post(Request("chunk", job, i))
    BY DEF Upload, server
  <1>2. PICK q \in Slots : /\ MutexInv' /\ req'[q] = Request("chunk", job, i) /\ ~req[q].live
                           /\ \A p \in Slots : p # q => req'[p] = req[p]
    BY <1>1, PostKeeps
  <1>3. /\ Mine("chunk")' = Mine("chunk") \cup {q} /\ q \notin Mine("chunk")
        /\ Mine("manifest")' = Mine("manifest") /\ req'[q].chunk = i
    BY <1>2, MineMore
  <1>4. tries \in [Chunks -> 0..Attempts] /\ tries[i] < Attempts
    BY <1>1 DEF TriesInv
  <1>5. tries' \in [Chunks -> 0..Attempts] /\ \A j \in Chunks : j # i => tries'[j] = tries[j]
    <2> HIDE DEF Chunks
    <2>1. tries[i] + 1 \in 0..Attempts
      BY <1>4, TunnelAssumption
    <2> QED
      BY <1>1, <1>4, <2>1
  <1>6. \A p \in Mine("chunk") : p \in Slots /\ p # q
    BY <1>3 DEF Mine
  <1>7. todo \subseteq Chunks
    BY DEF TriesInv
  <1> HIDE DEF Mine, Chunks, Zeros, Request
  <1>8. \A j \in todo' : (\A p \in Mine("chunk")' : req'[p].chunk # j) => tries'[j] < Attempts
    <2> SUFFICES ASSUME NEW j \in todo, \A p \in Mine("chunk")' : req'[p].chunk # j
                 PROVE  tries'[j] < Attempts
      BY <1>1
    <2>1. j # i
      BY <1>3
    <2>2. \A p \in Mine("chunk") : req[p].chunk # j
      BY <1>2, <1>3, <1>6
    <2>3. tries[j] < Attempts
      BY <1>1, <2>2 DEF TriesInv
    <2> QED
      BY <1>5, <1>7, <2>1, <2>3
  <1> QED
    BY <1>1, <1>2, <1>3, <1>5, <1>7, <1>8 DEF TriesInv, Chunks

\* The commit, after the last chunk.
LEMMA CommitKeeps ==
    ASSUME MutexInv, TriesInv, Commit
    PROVE  MutexInv' /\ TriesInv'
  <1>1. /\ spc = "Upload" /\ spc' = "Commit" /\ UNCHANGED <<up, active, lock, todo, tries>>
        /\ Post(Request("commit", job, None))
    BY DEF Commit, server
  <1>2. PICK q \in Slots : /\ MutexInv' /\ req'[q] = Request("commit", job, None) /\ ~req[q].live
                           /\ \A p \in Slots : p # q => req'[p] = req[p]
    BY <1>1, PostKeeps
  <1>3. Mine("manifest")' = Mine("manifest")
    BY <1>2, MineMore
  <1> HIDE DEF Mine, Chunks, Zeros
  <1> QED
    BY <1>1, <1>2, <1>3 DEF TriesInv, Chunks

\* A sender starts with its manifest alone.
LEMMA StartKeeps ==
    ASSUME MutexInv, TriesInv, NEW s \in Jobs, Start(s)
    PROVE  MutexInv' /\ TriesInv'
  <1>1. /\ spc = "Idle" /\ spc' = "Manifest" /\ UNCHANGED <<up, active, lock, todo, tries>>
        /\ Post(Request("manifest", s, None))
    BY DEF Start, server
  <1>2. PICK q \in Slots : /\ MutexInv' /\ req'[q] = Request("manifest", s, None) /\ ~req[q].live
                           /\ \A p \in Slots : p # q => req'[p] = req[p]
    BY <1>1, PostKeeps
  <1>3. Mine("manifest")' = Mine("manifest") \cup {q}
    BY <1>2, MineMore
  <1> HIDE DEF Mine, Chunks, Zeros
  <1>4. Mine("manifest")' = {q}
    BY <1>1, <1>3 DEF TriesInv
  <1> QED
    BY <1>1, <1>2, <1>4 DEF TriesInv, Chunks, Zeros

\* Files are made under names that are free, and only moved.
LEMMA FilesStep ==
    ASSUME FilesInv, [Next]_vars
    PROVE  FilesInv'
  <1> HIDE DEF Holes, InUse, FreshFile
  <1>1. CASE UNCHANGED disk
    BY <1>1 DEF FilesInv, disk
  <1>2. ASSUME NEW q \in Slots, ManifestOpen(q) PROVE FilesInv'
    <2>1. CASE UNCHANGED disk
      BY <1>1, <2>1
    <2>2. CASE /\ data = None => Files \ InUse # {}
               /\ data' = IF data = None THEN FreshFile ELSE data
               /\ \/ content' = [content EXCEPT ![data'] = Holes]
                  \/ content' = content
               /\ dest' = dest
      BY <2>2, FreshFacts DEF FilesInv
    <2> QED
      BY <1>2, <2>1, <2>2 DEF ManifestOpen
  <1>3. ASSUME NEW q \in Slots, ChunkWrite(q) PROVE FilesInv'
    BY <1>3 DEF ChunkWrite, FilesInv
  <1>4. ASSUME NEW q \in Slots, CommitInstall(q) PROVE FilesInv'
    <2>1. CASE dest' = data /\ data' = None /\ UNCHANGED content
      BY <2>1 DEF FilesInv
    <2>2. CASE /\ Files \ InUse # {} /\ dest' = FreshFile /\ UNCHANGED data
               /\ content' = [content EXCEPT ![dest'] = content[data]]
      BY <2>2, FreshFacts DEF FilesInv
    <2> QED
      BY <1>4, <2>1, <2>2 DEF CommitInstall
  <1>5. ASSUME NEW q \in Slots, CommitUnlink(q) PROVE FilesInv'
    BY <1>5 DEF CommitUnlink, FilesInv
  <1>6. ASSUME NEW q \in Slots, Handlers(q) PROVE FilesInv'
    <2>1. CASE \/ ManifestDeclined(q) \/ ManifestText(q) \/ ManifestRead(q) \/ ManifestTmp(q)
               \/ ManifestRename(q) \/ ManifestInstall(q) \/ ChunkRefused(q) \/ ChunkTmp(q)
               \/ ChunkRename(q) \/ CommitRefused(q) \/ CommitCheck(q) \/ CommitRmdir(q)
               \/ Dropped(q)
      <3>1. UNCHANGED <<content, data, dest>>
        BY <2>1 DEF ManifestDeclined, ManifestText, ManifestRead, ManifestTmp, ManifestRename,
                    ManifestInstall, ChunkRefused, ChunkTmp, ChunkRename, CommitRefused,
                    CommitCheck, CommitRmdir, Dropped, disk
      <3> QED
        BY <3>1 DEF FilesInv
    <2> QED
      BY <1>2, <1>3, <1>4, <1>5, <1>6, <2>1 DEF Handlers, Handle
  <1>7. ASSUME NEW q \in Slots, ChunkTimeout(q) PROVE UNCHANGED disk
    BY <1>7 DEF ChunkTimeout, Retry, Ends
  <1>8. CASE SenderSteps
    <2>1. UNCHANGED disk
      BY <1>8 DEF SenderSteps, ManifestAck, ChunkOk, ChunkFailed, Retry, CommitAck, Upload,
                  Commit, Refused, Ends
    <2> QED
      BY <1>1, <2>1
  <1>9. ASSUME NEW s \in Jobs, Start(s) PROVE UNCHANGED disk
    BY <1>9 DEF Start
  <1>10. CASE BadAuth \/ Exit \/ ReceiverKilled \/ Receive \/ SenderKilled \/ UNCHANGED vars
    <2>1. UNCHANGED disk
      BY <1>10 DEF BadAuth, Exit, ReceiverKilled, Receive, SenderKilled, Down, Ends, vars
    <2> QED
      BY <1>1, <2>1
  <1> QED
    BY <1>1, <1>6, <1>7, <1>8, <1>9, <1>10 DEF Next

\* Every step keeps the mutex and the bound on attempts.
LEMMA SafeStep ==
    ASSUME SafeInv, [Next]_vars
    PROVE  SafeInv'
  <1>1. FilesInv'
    BY FilesStep DEF SafeInv
  <1> SUFFICES MutexInv' /\ TriesInv'
    BY <1>1 DEF SafeInv
  <1>2. MutexInv /\ TriesInv
    BY DEF SafeInv
  <1>3. ASSUME NEW q \in Slots, Handlers(q) \/ ChunkTimeout(q) PROVE MutexInv' /\ TriesInv'
    BY <1>2, <1>3, HandlerKeeps, RetryKeeps
  <1>4. CASE Refused \/ SenderKilled \/ \E q \in Slots : CommitAck(q)
    <2>1. \E res : Ends(res)
      BY <1>4 DEF Refused, SenderKilled, CommitAck
    <2> QED
      BY <1>2, <2>1, EndsKeeps
  <1>5. CASE SenderSteps
    BY <1>2, <1>4, <1>5, ManifestAckKeeps, ChunkOkKeeps, RetryKeeps, UploadKeeps, CommitKeeps,
       Zenon DEF SenderSteps
  <1>6. ASSUME NEW s \in Jobs, Start(s) PROVE MutexInv' /\ TriesInv'
    BY <1>2, <1>6, StartKeeps
  <1>7. CASE Exit \/ ReceiverKilled
    BY <1>2, <1>7, DownKeeps DEF Exit, ReceiverKilled
  <1>8. CASE BadAuth \/ Receive \/ UNCHANGED vars
    <2>1. UNCHANGED <<active, lock, req, todo, tries, spc>> /\ (up => up')
      BY <1>8 DEF BadAuth, Receive, vars, server, sender
    <2>2. MutexInv'
      BY <1>2, <2>1 DEF MutexInv, Holds, HoldsAt, Fields
    <2>3. \A q \in Slots : Same(req[q], req'[q])
      BY <2>1 DEF Same
    <2> QED
      BY <1>2, <2>1, <2>2, <2>3, TriesKept
  <1> QED
    BY <1>3, <1>4, <1>5, <1>6, <1>7, <1>8, Zenon DEF Next

\* Types and the mutex, for any number of senders whose requests the server has at
\* once: exactly the handler that server.rs has let past App.transfer.lock() holds
\* it, no upload is tried more than Attempts times, and a process that is down
\* holds neither a transfer nor the mutex.
THEOREM TunnelTypeOK == Spec => []TypeOK
  <1>1. Init => SafeInv
    <2> SUFFICES ASSUME Init PROVE SafeInv
      OBVIOUS
    <2>1. FilesInv
      BY DEF Init, FilesInv
    <2> HIDE DEF Free, Fields, Chunks
    <2>2. req = [q \in Slots |-> Free] /\ lock = None /\ up = TRUE
      BY DEF Init
    <2>3. \A q \in Slots : req[q] = Free
      BY <2>2
    <2>4. \A q \in Slots : ~Holds(req[q]) /\ DOMAIN req[q] = Fields /\ ~req[q].live
      BY <2>3, FreeFields
    <2>5. MutexInv
      BY <2>2, <2>4, TunnelAssumption DEF MutexInv
    <2>6. \A k : Mine(k) = {}
      BY <2>4 DEF Mine
    <2>7. spc = "Idle" /\ todo = {} /\ tries = Zeros /\ tries \in [Chunks -> 0..Attempts]
      BY TunnelAssumption DEF Init, Zeros
    <2> HIDE DEF Mine, Zeros
    <2>8. TriesInv
      BY <2>6, <2>7 DEF TriesInv
    <2> QED
      BY <2>1, <2>5, <2>8 DEF SafeInv
  <1>2. SafeInv => TypeOK
    BY DEF SafeInv, FilesInv, MutexInv, TriesInv, TypeOK, Holds, HoldsAt, Is
  <1> QED
    BY <1>1, <1>2, SafeStep, PTL DEF Spec
=============================================================================
