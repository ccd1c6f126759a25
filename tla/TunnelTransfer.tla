--------------------------- MODULE TunnelTransfer ---------------------------
(***************************************************************************)
(* The tunnel path: an HTTP server at the receiver (server.rs), whose      *)
(* handlers share one ActiveTransfer behind a mutex and one staging        *)
(* directory behind none, and a sender that uploads chunks in parallel and *)
(* retries them (send.rs).  Requests outlive the sender that made them.    *)
(*                                                                         *)
(* A block of a payload is named by the payload and its position, and a    *)
(* file by its inode: a Store keeps the file it has opened when the path   *)
(* goes to another one.  All payloads have the same name and size.  The    *)
(* runtime has several threads: handlers interleave at every system call   *)
(* that another one can see.                                               *)
(***************************************************************************)
EXTENDS Integers, FiniteSets

CONSTANTS
    Source,         \* payloads, each with its own transfer_id
    TextJob,        \* a text, which is complete with its manifest
    Jobs,           \* what the user sends
    NChunks,
    Slots,          \* bound: requests at the server
    Files,          \* bound: names of inodes, reused when nothing refers to one
    Tars,           \* the payloads of Kind::Tar; the others are Kind::File
    Yes, Overwrite, \* the receiver's options
    Parallel,       \* PARALLEL_UPLOADS
    Attempts,       \* CHUNK_ATTEMPTS
    MaxAuth,        \* MAX_AUTH_FAILURES
    Faults,         \* the kinds of fault that may happen
    MaxFaults,      \* bound: how many do
    None

Chunks == 0 .. NChunks - 1

ASSUME TunnelAssumption ==
    /\ Jobs \subseteq Source \cup {TextJob} /\ TextJob \notin Source
    /\ NChunks \in Nat /\ IsFiniteSet(Files) /\ IsFiniteSet(Slots)
    /\ Tars \subseteq Source /\ Yes \in BOOLEAN /\ Overwrite \in BOOLEAN
    /\ Parallel \in Nat \ {0} /\ Attempts \in Nat \ {0} /\ MaxAuth \in Nat \ {0}
    /\ Faults \subseteq {"bad", "kill", "crash", "late", "no", "switch"} /\ MaxFaults \in Nat
    /\ None \notin Source \cup {TextJob} \cup Slots \cup Files /\ None \notin {"Ok"}
    /\ None \notin [of : Source, have : SUBSET Chunks, file : Files \cup {None}]

VARIABLES
    \* The disk of the receiver
    content,    \* the blocks of each file
    data,       \* the file at NAME.b2p-partial/data
    state,      \* state.json
    tmp,        \* state.json.tmp
    dir,        \* does NAME.b2p-partial exist?
    dest,       \* the file delivered
    \* The server
    up,
    req,        \* the requests it has, by slot
    active,     \* App.transfer
    lock,       \* the request that holds its mutex
    event,      \* the event that ends receive_tunnel
    bad,        \* auth_failures
    shown,      \* has a text been printed?
    \* The sender
    job,        \* what it sends
    spc,        \* control point
    todo,       \* chunks not yet acknowledged
    tries,      \* attempts made, by chunk
    result,     \* how the last run ended
    overlapped, \* has it started while the server had requests of another?
    faults      \* how many there have been

disk == <<content, data, state, tmp, dir, dest>>
server == <<up, active, lock, event, bad, shown>>
sender == <<job, spc, todo, tries, result, overlapped>>
vars == <<disk, server, req, sender, faults>>

Hole == <<None, 0>>
\* bad: a request with a wrong token; kill: a sender killed, or giving up on a
\* manifest or a commit; crash: a receiver killed; late: a chunk upload that times
\* out; no: a transfer the user declines; switch: another payload is sent.
Fault(k) == k \in Faults /\ faults < MaxFaults /\ faults' = faults + 1

Holes == [i \in Chunks |-> Hole]
Whole(s) == [i \in Chunks |-> <<s, i>>]

-----------------------------------------------------------------------------
(* Requests.                                                               *)

Request(k, s, i) ==
    [kind |-> k, of |-> s, chunk |-> i, at |-> "new", live |-> TRUE,
     store |-> None, ans |-> None]
Free == [Request(None, None, None) EXCEPT !.at = "free", !.live = FALSE]

Is(q, k, at) == req[q].at = at /\ req[q].kind = k
Mine(k) == {q \in Slots : req[q].live /\ req[q].kind = k}
Answered(q, k) == q \in Mine(k) /\ req[q].at = "answered"

\* A slot for a request the sender makes.
Post(r) ==
    LET free == {q \in Slots : req[q] = Free} IN
    up /\ free # {} /\ req' = [req EXCEPT ![CHOOSE q \in free : TRUE] = r]

\* The response, which nobody reads once the sender is gone.
Answer(q, a) ==
    req' = [req EXCEPT ![q] =
        IF @.live THEN [@ EXCEPT !.at = "answered", !.ans = a] ELSE Free]
Goto(q, at) == req' = [req EXCEPT ![q].at = at]

\* The sender forgets all its requests; the server still has them.
Orphaned == [q \in Slots |->
    IF ~req[q].live THEN req[q]
    ELSE IF req[q].at = "answered" THEN Free
    ELSE [req[q] EXCEPT !.live = FALSE]]

-----------------------------------------------------------------------------
(* The staging directory.                                                  *)

InUse ==
    {data, dest} \cup (IF active = None THEN {} ELSE {active.file})
        \cup {req[q].store.file : q \in {p \in Slots : req[p].at # "free" /\ req[p].store # None}}
FreshFile == CHOOSE f \in Files \ InUse : TRUE

Ended(e) == event' = IF event = None THEN e ELSE event

\* persist_state, first half: state.json.tmp is written.
WriteTmp(st) == tmp' = [of |-> st.of, have |-> st.have]
\* Second half: it is renamed.
RenameTmp == state' = tmp /\ tmp' = None

-----------------------------------------------------------------------------
(* handle_manifest.                                                        *)

\* --yes refuses only what would overwrite a file.
Clobbers(s) == dest # None /\ s \in Source \ Tars /\ ~Overwrite
MayAccept(s) == ~Yes \/ ~Clobbers(s)

ManifestDeclined(q) ==
    /\ Is(q, "manifest", "new")
    /\ IF Yes THEN Clobbers(req[q].of) /\ UNCHANGED faults ELSE Fault("no")
    /\ Answer(q, "declined")
    /\ UNCHANGED <<disk, server>>

ManifestText(q) ==
    /\ Is(q, "manifest", "new") /\ req[q].of = TextJob
    /\ MayAccept(TextJob)
    /\ shown' = TRUE /\ Ended("Done")
    /\ Answer(q, "complete")
    /\ UNCHANGED <<disk, up, active, lock, bad>>

\* Wrong variant: a state.json of another payload is resumed from.
ReusableAny(s) == state # None
\* The state.json found is about this payload.
Reusable(s) == state # None /\ state.of = s

\* open_or_create: read state.json,
ManifestRead(q) ==
    /\ Is(q, "manifest", "new") /\ req[q].of # TextJob
    /\ MayAccept(req[q].of)
    /\ LET s == req[q].of
           h == IF Reusable(s) THEN state.have ELSE {} IN
       req' = [req EXCEPT ![q] = [@ EXCEPT !.at = "read",
                  !.store = [of |-> s, have |-> h, file |-> None]]]
    /\ dir' = TRUE
    /\ UNCHANGED <<content, data, state, tmp, dest, server>>

\* open the data file, truncated if there is nothing to resume from,
ManifestOpen(q) ==
    /\ Is(q, "manifest", "read")
    /\ \/ /\ ~dir
          /\ Ended("Failed") /\ Answer(q, "error")
          /\ UNCHANGED <<disk, up, active, lock, bad, shown>>
       \/ /\ dir
          /\ data = None => Files \ InUse # {}
          /\ data' = IF data = None THEN FreshFile ELSE data
          /\ content' = IF data = None \/ req[q].store.have = {}
                        THEN [content EXCEPT ![data'] = Holes] ELSE content
          /\ req' = [req EXCEPT ![q] = [@ EXCEPT !.at = "opened", !.store.file = data']]
          /\ UNCHANGED <<state, tmp, dir, dest, server>>

\* write state.json.tmp and rename it,
ManifestTmp(q) ==
    /\ Is(q, "manifest", "opened")
    /\ \/ ~dir /\ Ended("Failed") /\ Answer(q, "error") /\ UNCHANGED tmp
       \/ dir /\ WriteTmp(req[q].store) /\ Goto(q, "tmp") /\ UNCHANGED event
    /\ UNCHANGED <<content, data, state, dir, dest, up, active, lock, bad, shown>>
ManifestRename(q) ==
    /\ Is(q, "manifest", "tmp")
    /\ \/ tmp = None /\ Ended("Failed") /\ Answer(q, "error") /\ UNCHANGED <<tmp, state>>
       \/ tmp # None /\ RenameTmp /\ Goto(q, "ready") /\ UNCHANGED event
    /\ UNCHANGED <<content, data, dir, dest, up, active, lock, bad, shown>>

\* Wrong variant: the ActiveTransfer starts empty though the ack lists chunks.
ManifestInstallFresh(q) ==
    /\ Is(q, "manifest", "ready") /\ lock = None
    /\ active' = [req[q].store EXCEPT !.have = {}]
    /\ Answer(q, "accepted")
    /\ UNCHANGED <<disk, up, lock, event, bad, shown>>
\* and replace the ActiveTransfer.
ManifestInstall(q) ==
    /\ Is(q, "manifest", "ready") /\ lock = None
    /\ active' = req[q].store
    /\ Answer(q, "accepted")
    /\ UNCHANGED <<disk, up, lock, event, bad, shown>>

-----------------------------------------------------------------------------
(* handle_chunk, under the mutex.                                          *)

\* Only a body sealed for the transfer_id of the ActiveTransfer opens.
ActiveFor(s) == active # None /\ active.of = s

ChunkRefused(q) ==
    /\ Is(q, "chunk", "new") /\ lock = None
    /\ ~ActiveFor(req[q].of)
    /\ Answer(q, "refused")
    /\ UNCHANGED <<disk, server>>

\* The chunk is written and counted,
ChunkWrite(q) ==
    /\ Is(q, "chunk", "new") /\ lock = None
    /\ ActiveFor(req[q].of)
    /\ content' = [content EXCEPT ![active.file][req[q].chunk] = <<req[q].of, req[q].chunk>>]
    /\ active' = [active EXCEPT !.have = @ \cup {req[q].chunk}]
    /\ lock' = q
    /\ Goto(q, "written")
    /\ UNCHANGED <<data, state, tmp, dir, dest, up, event, bad, shown>>

\* and the state persisted.
ChunkTmp(q) ==
    /\ Is(q, "chunk", "written")
    /\ \/ ~dir /\ Answer(q, "error") /\ lock' = None /\ UNCHANGED tmp
       \/ dir /\ WriteTmp(active) /\ Goto(q, "tmp") /\ UNCHANGED lock
    /\ UNCHANGED <<content, data, state, dir, dest, up, active, event, bad, shown>>

ChunkRename(q) ==
    /\ Is(q, "chunk", "tmp")
    /\ \/ tmp = None /\ Answer(q, "error") /\ UNCHANGED <<tmp, state>>
       \/ tmp # None /\ RenameTmp /\ Answer(q, "ok")
    /\ lock' = None
    /\ UNCHANGED <<content, data, dir, dest, up, active, event, bad, shown>>

-----------------------------------------------------------------------------
(* handle_commit, under the mutex.                                         *)

CommitRefused(q) ==
    /\ Is(q, "commit", "new") /\ lock = None
    /\ ~ActiveFor(req[q].of)
    /\ Answer(q, "refused")
    /\ UNCHANGED <<disk, server>>

\* Wrong variant: the hash is not checked.
VerifiedUnhashed(s) == active.have = Chunks /\ data # None
\* finalize: the store is complete and its data has the sender's hash.
Verified(s) ==
    active.have = Chunks /\ data # None /\ content[data] = Whole(s)

CommitCheck(q) ==
    /\ Is(q, "commit", "new") /\ lock = None
    /\ ActiveFor(req[q].of)
    /\ active' = None
    /\ \/ ~Verified(req[q].of) /\ Ended("Failed") /\ Answer(q, "notok") /\ UNCHANGED lock
       \/ Verified(req[q].of) /\ lock' = q /\ Goto(q, "verified") /\ UNCHANGED event
    /\ UNCHANGED <<disk, up, bad, shown>>

\* The file is moved, or the archive unpacked,
CommitInstall(q) ==
    /\ Is(q, "commit", "verified")
    /\ \/ /\ req[q].of \notin Tars
          /\ dest' = data /\ data' = None
          /\ UNCHANGED content
       \/ /\ req[q].of \in Tars /\ Files \ InUse # {}
          /\ dest' = FreshFile
          /\ content' = [content EXCEPT ![dest'] = content[data]]
          /\ UNCHANGED data
    /\ Goto(q, "installed")
    /\ UNCHANGED <<state, tmp, dir, server>>

\* the staged files are removed, in the order the directory lists them,
CommitUnlink(q) ==
    /\ \/ /\ Is(q, "commit", "installed") /\ Goto(q, "half")
          /\ \/ data' = None /\ UNCHANGED <<state, tmp>>
             \/ state' = None /\ tmp' = None /\ UNCHANGED data
       \/ /\ Is(q, "commit", "half") /\ Goto(q, "unlinked")
          /\ data' = None /\ state' = None /\ tmp' = None
    /\ UNCHANGED <<content, dir, dest, server>>

DirEmpty == data = None /\ state = None /\ tmp = None
\* and their directory, which must be empty.
CommitRmdir(q) ==
    /\ Is(q, "commit", "unlinked")
    /\ \/ DirEmpty /\ dir' = FALSE /\ Ended("Done") /\ Answer(q, "ok")
       \/ ~DirEmpty /\ UNCHANGED dir /\ Ended("Failed") /\ Answer(q, "notok")
    /\ lock' = None
    /\ UNCHANGED <<content, data, state, tmp, dest, up, active, bad, shown>>

-----------------------------------------------------------------------------
(* The rest of the server.                                                 *)

\* axum drops a handler whose client is gone, where it waits.
Dropped(q) ==
    /\ ~req[q].live /\ req[q].at \in {"new", "ready"}
    /\ req' = [req EXCEPT ![q] = Free]
    /\ UNCHANGED <<disk, server>>

Handle(q) ==
    \/ ManifestText(q) \/ ManifestRead(q) \/ ManifestOpen(q)
    \/ ManifestTmp(q) \/ ManifestRename(q) \/ ManifestInstall(q)
    \/ ChunkRefused(q) \/ ChunkWrite(q) \/ ChunkTmp(q) \/ ChunkRename(q)
    \/ CommitRefused(q) \/ CommitCheck(q) \/ CommitInstall(q) \/ CommitUnlink(q)
    \/ CommitRmdir(q)
    \/ Dropped(q)
Handlers(q) ==
    /\ \/ Handle(q) /\ UNCHANGED faults
       \/ ManifestDeclined(q)
    /\ UNCHANGED sender

\* auth_mw: a wrong token is counted, and too many end the server.
BadAuth ==
    /\ up /\ Fault("bad")
    /\ bad' = bad + 1
    /\ IF bad' >= MaxAuth THEN Ended("Failed") ELSE UNCHANGED event
    /\ UNCHANGED <<disk, up, active, lock, shown, req, sender>>

\* The process ends, with every handler wherever it is.
Down ==
    /\ up' = FALSE /\ active' = None /\ lock' = None /\ event' = None /\ bad' = 0
    /\ req' = [q \in Slots |->
           IF ~req[q].live THEN Free
           ELSE IF req[q].at = "answered" THEN req[q]
           ELSE [req[q] EXCEPT !.at = "answered", !.ans = "lost"]]
    /\ UNCHANGED <<disk, shown, sender>>

\* receive_tunnel leaves its loop on the first Done or Failed.  The runtime is
\* dropped, which waits for every handler to reach an await or its end.
Exit ==
    /\ up /\ event # None
    /\ \A q \in Slots : req[q].at \in {"free", "new", "ready", "answered"}
    /\ Down /\ UNCHANGED faults
ReceiverKilled ==
    /\ up /\ Fault("crash")
    /\ Down

\* The user runs `b2p receive` again, which has a code for the next sender.
Receive ==
    /\ ~up /\ spc = "Idle" /\ result # "Ok"
    /\ up' = TRUE
    /\ UNCHANGED <<disk, active, lock, event, bad, shown, req, sender, faults>>

-----------------------------------------------------------------------------
(* send.                                                                   *)

Ends(res) ==
    /\ spc' = "Idle" /\ result' = res /\ todo' = {} /\ tries' = [i \in Chunks |-> 0]
    /\ req' = Orphaned
    /\ UNCHANGED <<disk, server, job, overlapped>>

Start(s) ==
    /\ spc = "Idle" /\ result # "Ok"
    /\ overlapped' = (overlapped \/ \E q \in Slots : req[q] # Free)
    /\ Post(Request("manifest", s, None))
    /\ IF job \in {None, s} THEN UNCHANGED faults ELSE Fault("switch")
    /\ spc' = "Manifest" /\ job' = s /\ result' = None
    /\ UNCHANGED <<disk, server, todo, tries>>

ManifestAck(q) ==
    /\ Answered(q, "manifest")
    /\ \/ req[q].ans = "complete" /\ Ends("Ok")
       \/ req[q].ans \in {"declined", "error", "lost"} /\ Ends("Failed")
       \/ /\ req[q].ans = "accepted"
          /\ spc' = "Upload" /\ todo' = Chunks \ req[q].store.have
          /\ req' = [req EXCEPT ![q] = Free]
          /\ UNCHANGED <<disk, server, job, overlapped, tries, result>>
    /\ UNCHANGED faults

\* try_for_each_concurrent starts the uploads in order, Parallel of them at a time;
\* one that is between two attempts goes on.
Upload(i) ==
    /\ spc = "Upload" /\ i \in todo
    /\ \A q \in Mine("chunk") : req[q].chunk # i
    /\ LET begun == {j \in todo : tries[j] > 0} IN
       \/ i \in begun
       \/ Cardinality(begun) < Parallel /\ \A j \in todo \ begun : i <= j
    /\ Post(Request("chunk", job, i))
    /\ tries' = [tries EXCEPT ![i] = @ + 1]
    /\ UNCHANGED <<disk, server, job, overlapped, spc, todo, result, faults>>

\* upload_with_retry
ChunkOk(q) ==
    /\ Answered(q, "chunk") /\ req[q].ans = "ok"
    /\ todo' = todo \ {req[q].chunk}
    /\ req' = [req EXCEPT ![q] = Free]
    /\ UNCHANGED <<disk, server, job, overlapped, spc, tries, result, faults>>

\* After a failed attempt the upload is tried again, or the run ends.
Retry(q, r) ==
    \/ tries[req[q].chunk] = Attempts /\ Ends("Failed")
    \/ /\ tries[req[q].chunk] < Attempts
       /\ req' = r
       /\ UNCHANGED <<disk, server, sender>>
ChunkFailed(q) ==
    /\ Answered(q, "chunk") /\ req[q].ans # "ok"
    /\ Retry(q, [req EXCEPT ![q] = Free])
    /\ UNCHANGED faults
ChunkTimeout(q) ==
    /\ q \in Mine("chunk") /\ req[q].at # "answered"
    /\ Fault("late")
    /\ Retry(q, [req EXCEPT ![q].live = FALSE])

Commit ==
    /\ spc = "Upload" /\ todo = {}
    /\ Post(Request("commit", job, None))
    /\ spc' = "Commit"
    /\ UNCHANGED <<disk, server, job, overlapped, todo, tries, result, faults>>

\* Wrong variant: what the answer says is not looked at.
CommitAckAny(q) == Answered(q, "commit") /\ Ends("Ok") /\ UNCHANGED faults
CommitAck(q) ==
    /\ Answered(q, "commit")
    /\ Ends(IF req[q].ans = "ok" THEN "Ok" ELSE "Failed")
    /\ UNCHANGED faults

\* Wrong variant: uploads to a server that is gone are retried without limit.
RefusedNotUploads ==
    /\ spc \in {"Manifest", "Commit"} /\ ~up
    /\ Ends("Failed") /\ UNCHANGED faults
\* The server cannot be reached, and what it answered may be lost; all attempts
\* at an upload meet the same fate.
Refused == spc # "Idle" /\ ~up /\ Ends("Failed") /\ UNCHANGED faults

SenderKilled ==
    /\ spc # "Idle" /\ Fault("kill")
    /\ Ends("Killed")

-----------------------------------------------------------------------------
Init ==
    /\ content = [f \in Files |-> Holes]
    /\ data = None /\ state = None /\ tmp = None /\ dir = FALSE /\ dest = None
    /\ up = TRUE /\ active = None /\ lock = None /\ event = None /\ bad = 0
    /\ shown = FALSE
    /\ req = [q \in Slots |-> Free]
    /\ job = None /\ spc = "Idle" /\ todo = {} /\ tries = [i \in Chunks |-> 0]
    /\ result = None
    /\ faults = 0 /\ overlapped = FALSE

SenderSteps ==
    \/ \E q \in Slots : ManifestAck(q) \/ ChunkOk(q) \/ ChunkFailed(q) \/ CommitAck(q)
    \/ \E i \in Chunks : Upload(i)
    \/ Commit \/ Refused

Next ==
    \/ \E q \in Slots : Handlers(q) \/ ChunkTimeout(q)
    \/ SenderSteps \/ \E s \in Jobs : Start(s)
    \/ BadAuth \/ Exit \/ ReceiverKilled \/ Receive \/ SenderKilled

Spec == Init /\ [][Next]_vars

\* The runtime polls every handler, the sender keeps going, receive_tunnel takes
\* the events it is sent, and the user runs both commands again.
Fairness ==
    /\ \A q \in Slots : WF_vars(Handlers(q))
    /\ WF_vars(SenderSteps) /\ WF_vars(Exit) /\ WF_vars(Receive)
    /\ WF_vars(\E s \in Jobs : Start(s))

FairSpec == Spec /\ Fairness

-----------------------------------------------------------------------------
(* Properties.                                                             *)

\* Every variable has its type, and exactly the steps that server.rs takes with
\* the guard of App.transfer in hand hold the mutex.
TypeOK ==
    /\ DOMAIN content = Files /\ {data, dest} \subseteq Files \cup {None}
    /\ todo \subseteq Chunks /\ tries \in [Chunks -> 0..Attempts]
    /\ spc \in {"Idle", "Manifest", "Upload", "Commit"}
    /\ \A q \in Slots : lock = q <=>
          \/ req[q].at \in {"written", "verified", "installed", "half", "unlinked"}
          \/ Is(q, "chunk", "tmp")
    /\ ~up => active = None /\ lock = None

\* What finalize puts in place is one whole payload ("receiver verifies before
\* unpacking or renaming anything").
DeliveredWhole == dest # None => \E s \in Source : content[dest] = Whole(s)

\* So it is, whatever uploads were repeated, resumed or interrupted before, as
\* long as handle_manifest never ran next to the requests of an earlier sender.
WholeUnlessOverlapped == ~overlapped => DeliveredWhole

\* A chunk that send() believes to be at the receiver, because the manifest's ack
\* lists it or its upload was acknowledged, is one the ActiveTransfer has: the
\* commit is not refused as incomplete.
AckedHeld ==
    ~overlapped /\ spc \in {"Upload", "Commit"} /\ ActiveFor(job) =>
        Chunks \ todo \subseteq active.have

\* A sender that reports success has delivered what it sent: the file or archive
\* is in place as a whole, or the text was printed.
SuccessMeansDelivered ==
    ~overlapped /\ result = "Ok" =>
        IF job = TextJob THEN shown ELSE dest # None /\ content[dest] = Whole(job)

\* send() comes to an end, whatever becomes of the server and its requests, and
\* however the handlers of several senders disturb each other.
SendEnds == spc # "Idle" ~> spc = "Idle"

\* Running both commands again delivers ("re-run the same command to resume").
EventuallyDelivered == <>(dest # None \/ shown \/ overlapped)
=============================================================================
