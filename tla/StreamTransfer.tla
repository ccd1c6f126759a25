--------------------------- MODULE StreamTransfer ---------------------------
(***************************************************************************)
(* The payload transfer of b2p over one reliable ordered message channel   *)
(* (stream.rs: send_source, recv_into, finalize) with the receiver's       *)
(* staging directory on disk (store.rs), run again and again: the channel  *)
(* may be lost, either process may be killed between any two steps that    *)
(* leave a trace, the user re-runs `b2p send` and `b2p receive`, and a     *)
(* receiver that lost its channel re-arms (main.rs: receive_relay_cli).    *)
(*                                                                         *)
(* Abstractions.  A payload is a function from chunk indices to blocks and *)
(* its BLAKE3 hash is that function itself.  A sealed frame is a record    *)
(* with the nonce index it was sealed at; opening it at another index      *)
(* fails.  Establishing the channel and agreeing on a fresh session key is *)
(* one step, Connect.                                                      *)
(***************************************************************************)
EXTENDS Runs, Sequences

CONSTANTS
    Source,         \* the payloads the user can run `b2p send` on
    Block,          \* the contents one chunk can have
    Hole,           \* the block of zeros File::set_len leaves
    Size,           \* Size[s]: number of chunks of payload s
    Content,        \* Content[s]: its blocks, a function on 0..Size[s]-1
    Tid,            \* Tid[s]: transfer_id, a fingerprint of file metadata
    TextJob,        \* the job `b2p send --text`
    Jobs,           \* what the user runs: "Blob", "Text" or both
    Kind,           \* "File": one file; "Tar": a spooled bundle
    Builds,         \* the (version, chunk_size) pairs of the senders around
    Yes,            \* receive --yes: accept without asking
    Overwrite,      \* receive --overwrite
    None, NoFile, Torn,       \* no state.json; no such file; half unpacked
    MaxLost,        \* bound: connections lost
    MaxKill,        \* bound: senders killed
    MaxCrash,       \* bound: receivers killed
    MaxPick,        \* bound: times the user turns to another payload
    MaxEdit,        \* bound: times the file changes while it is being sent
    MaxIoErr        \* bound: I/O errors while finalizing

\* What one b2p build puts in its manifests (PROTOCOL_VERSION and
\* STREAM_FRAME_SIZE; the unit of chunk_size is one frame).
OurBuild == [version |-> 1, chunk_size |-> 1]

Chunks(s) == 0..(Size[s] - 1)
Payloads == {Content[s] : s \in Source}

ASSUME SourceAssumption ==
    /\ Source # {}
    /\ Size \in [Source -> Nat]
    /\ Hole \in Block
    /\ DOMAIN Content = Source
    /\ \A s \in Source : Content[s] \in [Chunks(s) -> Block]
    /\ DOMAIN Tid = Source
    /\ TextJob \notin Source
ASSUME FileAssumption == \A s \in Source : NoFile \notin [Chunks(s) -> Block]
ASSUME FlagAssumption ==
    /\ Jobs \subseteq {"Blob", "Text"}
    /\ Kind \in {"File", "Tar"}
    /\ Yes \in BOOLEAN
    /\ Overwrite \in BOOLEAN
    /\ Builds \subseteq [version : Nat, chunk_size : Nat]
ASSUME BoundAssumption ==
    /\ MaxLost \in Nat /\ MaxKill \in Nat /\ MaxCrash \in Nat
    /\ MaxPick \in Nat /\ MaxEdit \in Nat /\ MaxIoErr \in Nat

VARIABLES
    \* The sender's machine
    file,       \* the payload now at the path the user sends
    spc,        \* control point of `b2p send`
    sjob,       \* what prepare() captured: a payload or TextJob
    sbuild,     \* the build of the sending b2p
    sack,       \* the manifest ack, once received
    si,         \* loop index of send_source
    scommit,    \* the payload hashed into the commit
    sres,       \* how the last `b2p send` ended
    \* The channel
    link,       \* "up" or "down"
    toR, toS,   \* frames in flight, one queue per direction
    \* The receiver's process
    rpc,        \* control point of `b2p receive`
    rman,       \* the manifest
    rhave,      \* Store.state.have
    rskip,      \* have_set: the staged chunks reported in the ack
    ri,         \* loop index of recv_into
    rok,        \* did finalize succeed?
    \* The receiver's disk
    state,      \* state.json of the staging directory
    data,       \* the staged data file
    dest,       \* the delivered file or unpacked folder
    \* Fault counters
    faults

svars == <<file, spc, sjob, sbuild, sack, si, scommit, sres>>
rvars == <<rpc, rman, rhave, rskip, ri, rok>>
dvars == <<state, data, dest>>
chan == <<link, toR, toS>>
vars == <<svars, chan, rvars, dvars, faults>>

-----------------------------------------------------------------------------
(* Frames.  idx is the nonce index: 0 for the manifest and its ack, 1+i    *)
(* for chunk i, 1+n for the commit, 1 for the commit ack.                  *)

Frame(idx, body) == [idx |-> idx, body |-> body]

\* stream_manifest
Manifest(job, build) ==
    [version |-> build.version, chunk_size |-> build.chunk_size,
     kind |-> IF job = TextJob THEN "Text" ELSE Kind,
     tid |-> IF job = TextJob THEN None ELSE Tid[job],
     size |-> IF job = TextJob THEN 0 ELSE Size[job]]

ManifestAck(accepted, complete, runs) ==
    [accepted |-> accepted, complete |-> complete, have_runs |-> runs]

Decline == ManifestAck(FALSE, FALSE, {})

\* Wrong variant: a partial resume is ignored.
SkippedIfComplete(i) == sack.complete
\* The sender's test for a chunk it need not send.
Skipped(i) == sack.complete \/ RunsContain(sack.have_runs, i)

\* The payload that reading the sent path gives now: a single file is read
\* in place, a bundle from the spool file prepare() made.
Readable == IF Kind = "File" THEN file ELSE sjob

-----------------------------------------------------------------------------
(* The channel: MsgChannel::send and recv, and what becomes of frames in   *)
(* flight when an end goes away.                                           *)

Prefixes(q) == {SubSeq(q, 1, k) : k \in 0..Len(q)}

\* A frame handed to a channel that is already dead is dropped.
Push(q, f) == IF link = "up" THEN Append(q, f) ELSE q

\* The frames of queue q that still reach the other end when this end goes
\* away without flushing.
Cut(q) == IF link = "up" THEN Prefixes(q) ELSE {q}

SenderOnChannel == spc \notin {"Idle", "Dialing"}
ReceiverOnChannel == rpc \notin {"Exited", "Waiting"}

Lose(kind) == faults' = [faults EXCEPT ![kind] = @ + 1]

Connect ==
    /\ spc = "Dialing" /\ rpc = "Waiting"
    /\ link' = "up" /\ toR' = <<>> /\ toS' = <<>>
    /\ spc' = "Manifest" /\ rpc' = "Manifest"
    /\ UNCHANGED <<file, sjob, sbuild, sack, si, scommit, sres,
                   rman, rhave, rskip, ri, rok, dvars, faults>>

Disconnect ==
    /\ link = "up" /\ faults.lost < MaxLost
    /\ link' = "down"
    /\ toR' \in Prefixes(toR)
    /\ toS' \in Prefixes(toS)
    /\ Lose("lost")
    /\ UNCHANGED <<svars, rvars, dvars>>

-----------------------------------------------------------------------------
(* The sender: do_send, send_relay and send_source.                        *)

\* The sender leaves with result res; its unflushed frames may be lost.
SenderLeaves(res) ==
    /\ spc' = "Idle" /\ sres' = res
    /\ link' = "down"
    /\ toS' = <<>>
    /\ toR' \in Cut(toR)
    /\ UNCHANGED <<file, sjob, sbuild, sack, si, scommit, rvars, dvars>>

\* The sender is done: RelayChannel::close flushes before it closes.
SenderDone ==
    /\ spc' = "Idle" /\ sres' = "Ok"
    /\ link' = "down"
    /\ toS' = <<>>
    /\ UNCHANGED <<file, sjob, sbuild, sack, si, scommit, toR, rvars, dvars>>

\* The user runs `b2p send`: prepare() or prepare_text() captures the job.
SendStart(job, build) ==
    /\ spc = "Idle"
    /\ job = TextJob \/ job = file
    /\ spc' = "Dialing" /\ sjob' = job /\ sbuild' = build /\ sres' = "None"
    /\ UNCHANGED <<file, sack, si, scommit, chan, rvars, dvars, faults>>

\* The user turns to another payload with the same name, or edits the file
\* between two runs.
PickSource(s) ==
    /\ spc = "Idle" /\ s # file /\ faults.picks < MaxPick
    /\ file' = s
    /\ Lose("picks")
    /\ UNCHANGED <<spc, sjob, sbuild, sack, si, scommit, sres, chan, rvars, dvars>>

\* The file changes while `b2p send` runs.
EditDuringSend(s) ==
    /\ spc # "Idle" /\ s # file /\ faults.edits < MaxEdit
    /\ file' = s
    /\ Lose("edits")
    /\ UNCHANGED <<spc, sjob, sbuild, sack, si, scommit, sres, chan, rvars, dvars>>

SendManifest ==
    /\ spc = "Manifest"
    /\ toR' = Push(toR, Frame(0, Manifest(sjob, sbuild)))
    /\ spc' = "AwaitAck"
    /\ UNCHANGED <<file, sjob, sbuild, sack, si, scommit, sres,
                   link, toS, rvars, dvars, faults>>

RecvAck ==
    /\ spc = "AwaitAck" /\ toS # <<>>
    /\ LET ack == Head(toS).body IN
       CASE Head(toS).idx # 0 -> SenderLeaves("BadFrame")
         [] Head(toS).idx = 0 /\ ~ack.accepted -> SenderLeaves("Declined")
         [] Head(toS).idx = 0 /\ ack.accepted /\ sjob = TextJob -> SenderDone
         [] OTHER ->
              /\ spc' = "Payload" /\ sack' = ack /\ si' = 0
              /\ toS' = Tail(toS)
              /\ UNCHANGED <<file, sjob, sbuild, scommit, sres,
                             link, toR, rvars, dvars>>
    /\ UNCHANGED faults

SkipChunk ==
    /\ spc = "Payload" /\ si < Size[sjob] /\ Skipped(si)
    /\ si' = si + 1
    /\ UNCHANGED <<file, spc, sjob, sbuild, sack, scommit, sres,
                   chan, rvars, dvars, faults>>

\* Wrong variant: chunk i is sealed at nonce index i.
SendChunkAtIndex ==
    /\ spc = "Payload" /\ si < Size[sjob] /\ ~Skipped(si)
    /\ si < Size[Readable]
    /\ toR' = Push(toR, Frame(si, Content[Readable][si]))
    /\ si' = si + 1
    /\ UNCHANGED <<file, spc, sjob, sbuild, sack, scommit, sres,
                   link, toS, rvars, dvars, faults>>
\* read_chunk fails when the file has become too short for chunk si.
SendChunk ==
    /\ spc = "Payload" /\ si < Size[sjob] /\ ~Skipped(si)
    /\ \/ /\ si < Size[Readable]
          /\ toR' = Push(toR, Frame(1 + si, Content[Readable][si]))
          /\ si' = si + 1
          /\ UNCHANGED <<file, spc, sjob, sbuild, sack, scommit, sres,
                         link, toS, rvars, dvars>>
       \/ /\ si >= Size[Readable]
          /\ SenderLeaves("ReadError")
    /\ UNCHANGED faults

\* blake3_file hashes whatever the path holds by now.
SendCommit ==
    /\ spc = "Payload" /\ si = Size[sjob]
    /\ scommit' = Content[Readable]
    /\ toR' = Push(toR, Frame(1 + Size[sjob], Content[Readable]))
    /\ spc' = "AwaitCommitAck"
    /\ UNCHANGED <<file, sjob, sbuild, sack, si, sres,
                   link, toS, rvars, dvars, faults>>

\* Wrong variant: any commit ack is taken for success.
RecvAnyCommitAck ==
    /\ spc = "AwaitCommitAck" /\ toS # <<>>
    /\ SenderDone
    /\ UNCHANGED faults
RecvCommitAck ==
    /\ spc = "AwaitCommitAck" /\ toS # <<>>
    /\ CASE Head(toS).idx # 1 -> SenderLeaves("BadFrame")
         [] Head(toS).idx = 1 /\ ~Head(toS).body -> SenderLeaves("NotFinalized")
         [] OTHER -> SenderDone
    /\ UNCHANGED faults

\* Wrong variant: only a send notices a dead channel.
SenderLostOnSend ==
    /\ SenderOnChannel /\ link = "down"
    /\ spc \notin {"AwaitAck", "AwaitCommitAck"}
    /\ SenderLeaves("Lost")
    /\ UNCHANGED faults
\* A send or recv on a dead channel fails with TransportLost; recv first
\* hands out what had already arrived.
SenderLost ==
    /\ SenderOnChannel /\ link = "down"
    /\ spc \in {"AwaitAck", "AwaitCommitAck"} => toS = <<>>
    /\ SenderLeaves("Lost")
    /\ UNCHANGED faults

SenderKilled ==
    /\ spc # "Idle" /\ faults.kills < MaxKill
    /\ SenderLeaves("Killed")
    /\ Lose("kills")

-----------------------------------------------------------------------------
(* The receiver: receive_relay_cli's loop, receive_relay and recv_into.    *)

\* The receiver's process ends with an error; frames its channel has not
\* flushed may be lost.
ReceiverExits ==
    /\ rpc' = "Exited"
    /\ link' = "down"
    /\ toR' = <<>>
    /\ toS' \in Cut(toS)

\* The user runs `b2p receive`.
ReceiveStart ==
    /\ rpc = "Exited"
    /\ rpc' = "Waiting"
    /\ UNCHANGED <<svars, chan, rman, rhave, rskip, ri, rok, dvars, faults>>

\* A dead channel is TransportLost: receive_relay_cli keeps the code and
\* waits again, whatever recv_into was doing on the channel.
ReceiverLost ==
    /\ link = "down"
    /\ \/ rpc \in {"Decline", "AckText", "Ack", "CommitAck"}
       \/ rpc \in {"Manifest", "Recv"} /\ toR = <<>>
    /\ rpc' = "Waiting"
    /\ toR' = <<>>
    /\ UNCHANGED <<svars, link, toS, rman, rhave, rskip, ri, rok, dvars, faults>>

\* Ctrl-C, or an I/O error of the staging area.
ReceiverCrash ==
    /\ rpc # "Exited" /\ faults.crashes < MaxCrash
    /\ ReceiverExits
    /\ Lose("crashes")
    /\ UNCHANGED <<svars, rman, rhave, rskip, ri, rok, dvars>>

\* accept_decision: --yes refuses only to overwrite; otherwise the user is
\* asked.
AcceptChoices(man) ==
    LET clobber == man.kind = "File" /\ dest # NoFile IN
    IF Yes THEN {~(clobber /\ ~Overwrite)} ELSE BOOLEAN

Acceptable(man) ==
    /\ man.version = OurBuild.version
    /\ man.kind = "Text" \/ man.chunk_size = OurBuild.chunk_size

RecvManifest ==
    /\ rpc = "Manifest" /\ toR # <<>>
    /\ LET man == Head(toR).body IN
       IF Head(toR).idx # 0
       THEN ReceiverExits /\ UNCHANGED rman
       ELSE /\ rman' = man
            /\ toR' = Tail(toR)
            /\ \E accept \in AcceptChoices(man) :
                  rpc' = IF ~Acceptable(man) \/ ~accept THEN "Decline"
                         ELSE IF man.kind = "Text" THEN "AckText" ELSE "Open"
            /\ UNCHANGED <<link, toS>>
    /\ UNCHANGED <<svars, rhave, rskip, ri, rok, dvars, faults>>

\* The declining ack is queued, then the process ends.
SendDecline ==
    /\ rpc = "Decline"
    /\ rpc' = "Exited"
    /\ link' = "down" /\ toR' = <<>>
    /\ LET q == Push(toS, Frame(0, Decline)) IN toS' \in Cut(q)
    /\ UNCHANGED <<svars, rman, rhave, rskip, ri, rok, dvars, faults>>

\* A text completes with the ack of its manifest.
SendAckText ==
    /\ rpc = "AckText"
    /\ toS' = Push(toS, Frame(0, ManifestAck(TRUE, FALSE, {})))
    /\ rpc' = "Linger"
    /\ UNCHANGED <<svars, link, toR, rman, rhave, rskip, ri, rok, dvars, faults>>

-----------------------------------------------------------------------------
(* The staging area: Store.                                                *)

\* File::set_len(n chunks) on file content d.
SetLen(d, n) ==
    [i \in 0..(n - 1) |-> IF d # NoFile /\ i \in DOMAIN d THEN d[i] ELSE Hole]

Staged(tid, size, have) == [tid |-> tid, size |-> size, have |-> have]

\* Wrong variants: nothing is resumed; anything of the same size is.
NothingReusable == FALSE
SameSizeReusable == state # None /\ state.size = rman.size
\* Is state.json about this payload?  (The chunk sizes it compares too are equal
\* here: recv_into refuses any but its own.)
Reusable == state # None /\ state.tid = rman.tid /\ state.size = rman.size

\* Wrong variant: the data file is truncated on every open.
TruncatedData(have) == SetLen(NoFile, rman.size)
\* The data file is truncated unless something is staged.
OpenedData(have) == SetLen(IF have = {} THEN NoFile ELSE data, rman.size)

\* open_or_create up to persist_state.
OpenStore ==
    /\ rpc = "Open"
    /\ rhave' = IF Reusable THEN state.have ELSE {}
    /\ data' = OpenedData(rhave')
    /\ rpc' = "PersistOpen"
    /\ UNCHANGED <<svars, chan, rman, rskip, ri, rok, state, dest, faults>>

PersistOpen ==
    /\ rpc = "PersistOpen"
    /\ state' = Staged(rman.tid, rman.size, rhave)
    /\ rskip' = rhave
    /\ rpc' = "Ack"
    /\ UNCHANGED <<svars, chan, rman, rhave, ri, rok, data, dest, faults>>

IsComplete == Cardinality(rhave) = rman.size

SendAck ==
    /\ rpc = "Ack"
    /\ toS' = Push(toS, Frame(0, ManifestAck(TRUE, IsComplete, RunsOf(rhave))))
    /\ ri' = 0
    /\ rpc' = "Recv"
    /\ UNCHANGED <<svars, link, toR, rman, rhave, rskip, rok, dvars, faults>>

RecvSkip ==
    /\ rpc = "Recv" /\ ri < rman.size /\ ri \in rskip
    /\ ri' = ri + 1
    /\ UNCHANGED <<svars, chan, rpc, rman, rhave, rskip, rok, dvars, faults>>

\* write_chunk up to persist_state.
RecvChunk ==
    /\ rpc = "Recv" /\ ri < rman.size /\ ri \notin rskip /\ toR # <<>>
    /\ IF Head(toR).idx # 1 + ri
       THEN ReceiverExits /\ UNCHANGED data
       ELSE /\ data' = [data EXCEPT ![ri] = Head(toR).body]
            /\ rpc' = "Persist"
            /\ toR' = Tail(toR)
            /\ UNCHANGED <<link, toS>>
    /\ UNCHANGED <<svars, rman, rhave, rskip, ri, rok, state, dest, faults>>

PersistChunk ==
    /\ rpc = "Persist"
    /\ rhave' = rhave \cup {ri}
    /\ state' = Staged(rman.tid, rman.size, rhave')
    /\ ri' = ri + 1
    /\ rpc' = "Recv"
    /\ UNCHANGED <<svars, chan, rman, rskip, rok, data, dest, faults>>

\* Wrong variant: the hash is not compared.
UnhashedVerified == IsComplete
\* finalize's checks: nothing is missing and the hash is the committed one.
Verified == IsComplete /\ data = Head(toR).body

\* finalize up to its first change on disk.
RecvCommit ==
    /\ rpc = "Recv" /\ ri = rman.size /\ toR # <<>>
    /\ IF Head(toR).idx # 1 + rman.size
       THEN ReceiverExits /\ UNCHANGED rok
       ELSE /\ rok' = Verified
            /\ rpc' = IF rok' THEN "Install" ELSE "CommitAck"
            /\ toR' = Tail(toR)
            /\ UNCHANGED <<link, toS>>
    /\ UNCHANGED <<svars, rman, rhave, rskip, ri, dvars, faults>>

\* finalize_file renames the data file into place; a bundle is unpacked.
Install ==
    /\ rpc = "Install"
    /\ \/ /\ Kind = "File"
          /\ dest' = data /\ data' = NoFile
          /\ rpc' = "Remove"
       \/ /\ Kind = "Tar"
          /\ dest' = Torn
          /\ rpc' = "Unpack"
          /\ UNCHANGED data
    /\ UNCHANGED <<svars, chan, rman, rhave, rskip, ri, rok, state, faults>>

Unpacked ==
    /\ rpc = "Unpack"
    /\ dest' = data
    /\ rpc' = "Remove"
    /\ UNCHANGED <<svars, chan, rman, rhave, rskip, ri, rok, state, data, faults>>

\* The rename, the unpacking or the removal of the staging directory fails:
\* the commit is answered with the error and what is staged stays.
FinalizeFails ==
    /\ rpc \in {"Install", "Unpack", "Remove"} /\ faults.ioerrs < MaxIoErr
    /\ rok' = FALSE
    /\ rpc' = "CommitAck"
    /\ Lose("ioerrs")
    /\ UNCHANGED <<svars, chan, rman, rhave, rskip, ri, dvars>>

\* Wrong variant: the removal stops after one file.
RemoveOneFile ==
    /\ rpc = "Remove"
    /\ \/ data # NoFile /\ data' = NoFile /\ UNCHANGED state
       \/ state # None /\ state' = None /\ UNCHANGED data
    /\ rpc' = "CommitAck"
    /\ UNCHANGED <<svars, chan, rman, rhave, rskip, ri, rok, dest, faults>>
\* remove_dir_all of the staging directory, one file at a time.
RemoveStaging ==
    /\ rpc = "Remove"
    /\ \/ data # NoFile /\ data' = NoFile /\ UNCHANGED state
       \/ state # None /\ state' = None /\ UNCHANGED data
    /\ rpc' = IF data' = NoFile /\ state' = None THEN "CommitAck" ELSE "Remove"
    /\ UNCHANGED <<svars, chan, rman, rhave, rskip, ri, rok, dest, faults>>

\* After a failed finalize recv_into returns the error and the process ends;
\* after a good one receive_relay waits for the sender to close.
SendCommitAck ==
    /\ rpc = "CommitAck"
    /\ LET q == Push(toS, Frame(1, rok)) IN
       \/ rok /\ rpc' = "Linger" /\ toS' = q /\ UNCHANGED <<link, toR>>
       \/ ~rok /\ rpc' = "Exited" /\ link' = "down" /\ toR' = <<>> /\ toS' \in Cut(q)
    /\ UNCHANGED <<svars, rman, rhave, rskip, ri, rok, dvars, faults>>

\* The bounded wait of receive_relay ends (sender gone, or 10 s), and
\* RelayChannel::close flushes before it closes.
LingerEnd ==
    /\ rpc = "Linger"
    /\ rpc' = "Exited"
    /\ link' = "down" /\ toR' = <<>>
    /\ UNCHANGED <<svars, toS, rman, rhave, rskip, ri, rok, dvars, faults>>

-----------------------------------------------------------------------------
Init ==
    /\ file \in Source
    /\ spc = "Idle" /\ sjob = TextJob /\ sbuild = OurBuild /\ sack = Decline
    /\ si = 0 /\ scommit = NoFile /\ sres = "None"
    /\ link = "down" /\ toR = <<>> /\ toS = <<>>
    /\ rpc = "Exited" /\ rman = Manifest(TextJob, OurBuild)
    /\ rhave = {} /\ rskip = {} /\ ri = 0 /\ rok = FALSE
    /\ state = None /\ data = NoFile /\ dest = NoFile
    /\ faults = [k \in {"lost", "kills", "crashes", "picks", "edits", "ioerrs"} |-> 0]

SenderSteps ==
    \/ SendManifest \/ RecvAck \/ SkipChunk \/ SendChunk
    \/ SendCommit \/ RecvCommitAck \/ SenderLost

ReceiverSteps ==
    \/ RecvManifest \/ SendDecline \/ SendAckText \/ OpenStore \/ PersistOpen
    \/ SendAck \/ RecvSkip \/ RecvChunk \/ PersistChunk \/ RecvCommit
    \/ Install \/ Unpacked \/ RemoveStaging \/ SendCommitAck
    \/ LingerEnd \/ ReceiverLost

StartBlob == "Blob" \in Jobs /\ \E build \in Builds : SendStart(file, build)
StartText == "Text" \in Jobs /\ \E build \in Builds : SendStart(TextJob, build)

UserSteps == StartBlob \/ StartText \/ ReceiveStart

Faults ==
    \/ Disconnect \/ SenderKilled \/ ReceiverCrash \/ FinalizeFails
    \/ \E s \in Source : PickSource(s) \/ EditDuringSend(s)

Next == Connect \/ SenderSteps \/ ReceiverSteps \/ UserSteps \/ Faults

Spec == Init /\ [][Next]_vars

\* Both processes keep running, both sides get connected, and the user keeps
\* re-running whichever command has ended.  No fairness on the faults.
Fairness ==
    /\ WF_vars(SenderSteps)
    /\ WF_vars(ReceiverSteps)
    /\ WF_vars(Connect)
    /\ WF_vars(StartBlob)
    /\ WF_vars(ReceiveStart)

FairSpec == Spec /\ Fairness

-----------------------------------------------------------------------------
(* Properties.                                                             *)

FaultKinds == {"lost", "kills", "crashes", "picks", "edits", "ioerrs"}
ManifestSet ==
    [version : Nat, chunk_size : Nat, kind : {"Text", "File", "Tar"},
     tid : {None} \cup {Tid[s] : s \in Source}, size : Nat]
AckSet ==
    [accepted : BOOLEAN, complete : BOOLEAN, have_runs : SUBSET (Nat \X Nat)]
ToReceiver ==
    [idx : {0}, body : ManifestSet] \cup [idx : Nat \ {0}, body : Block \cup Payloads]
ToSender == [idx : {0}, body : AckSet] \cup [idx : {1}, body : BOOLEAN]

\* Every variable has its type: control points, frames and counters.
TypeOK ==
    /\ file \in Source
    /\ spc \in {"Idle", "Dialing", "Manifest", "AwaitAck", "Payload", "AwaitCommitAck"}
    /\ sjob \in Source \cup {TextJob}
    /\ sbuild \in Builds \cup {OurBuild}
    /\ sack \in AckSet
    /\ si \in Nat
    /\ scommit \in Payloads \cup {NoFile}
    /\ sres \in {"None", "Ok", "BadFrame", "Declined", "ReadError",
                 "NotFinalized", "Lost", "Killed"}
    /\ link \in {"up", "down"}
    /\ toR \in Seq(ToReceiver)
    /\ toS \in Seq(ToSender)
    /\ rpc \in {"Exited", "Waiting", "Manifest", "Decline", "AckText", "Open",
                "PersistOpen", "Ack", "Recv", "Persist", "Install", "Unpack",
                "Remove", "CommitAck", "Linger"}
    /\ rman \in ManifestSet
    /\ rhave \in SUBSET Nat
    /\ rskip \in SUBSET Nat
    /\ ri \in Nat
    /\ rok \in BOOLEAN
    /\ state \in [tid : {None} \cup {Tid[s] : s \in Source}, size : Nat,
                  have : SUBSET Nat] \cup {None}
    /\ faults \in [FaultKinds -> Nat]

\* The point at which recv_into waits for a frame, and the nonce index it
\* will try to open that frame with.
ReceiverExpects ==
    \/ rpc = "Manifest"
    \/ rpc = "Recv" /\ (ri = rman.size \/ ri \notin rskip)
ExpectedIdx == IF rpc = "Manifest" THEN 0 ELSE 1 + ri

\* Both loops skip the same chunks (stream.rs: "skipping staged chunks creates
\* no nonce ambiguity on either side"): within a session every frame is
\* opened at the index it was sealed at, whatever was staged before, whatever
\* was lost, and whether or not the peer is still there.
InStep ==
    /\ ReceiverExpects /\ toR # <<>> => Head(toR).idx = ExpectedIdx
    /\ spc = "AwaitAck" /\ toS # <<>> => Head(toS).idx = 0
    /\ spc = "AwaitCommitAck" /\ toS # <<>> => Head(toS).idx = 1

\* Resume sends only what is missing: no chunk frame on its way to recv_into
\* is about a chunk that is already staged.
OnlyMissingSent ==
    rpc = "Recv" => \A k \in 1..Len(toR) : toR[k].idx - 1 \notin rhave

\* Whatever finalize puts in place is one payload as the sender's path held
\* it at one moment, never a mix of two and never a hole, although resume
\* trusts metadata, the file may change while it is read and the staging
\* area survives crashes.  Only an interrupted unpacking is visible.
DeliveredWhole ==
    dest \in Payloads \cup {NoFile} \/ (Kind = "Tar" /\ dest = Torn)

\* `b2p send` reports success only when the receiver has in place exactly the
\* payload that was hashed into the commit.
SuccessMeansDelivered ==
    sres = "Ok" /\ sjob # TextJob => dest = scommit

\* When recv_into is about to report success for a file or a bundle, nothing
\* of the staging directory is left to be resumed from.
SuccessLeavesNoStaging ==
    rpc = "Linger" /\ rman.kind # "Text" => state = None /\ data = NoFile

\* Between sessions every chunk state.json lists is in the data file, with a
\* content that some payload with that transfer_id has there, as long as no kill
\* has cut open_or_create or finalize_file in two, finalizing has not failed and no
\* single file has changed while it was being sent.
StagedTruthful ==
    /\ faults.crashes = 0 /\ faults.ioerrs = 0 /\ (faults.edits = 0 \/ Kind = "Tar")
    /\ rpc \in {"Exited", "Waiting"} /\ state # None
    =>  /\ data # NoFile
        /\ \A i \in state.have : \E s \in Source :
              /\ Tid[s] = state.tid /\ i \in Chunks(s)
              /\ data[i] = Content[s][i]

\* Staged chunks of a payload are never forgotten while state.json is about
\* that payload.
ProgressKept ==
    [][state # None /\ state' # None /\ state'.tid = state.tid
          /\ state'.size = state.size
       => state.have \subseteq state'.have]_vars

\* No session hangs: a sender on a channel is answered, or learns that the
\* channel is gone, and leaves.
SessionEnds == SenderOnChannel ~> spc = "Idle"

\* "resume is the universal recovery path": once the faults are over, users
\* that keep re-running both commands get the payload across.
EventuallyDelivered == <>(dest = Content[file])

\* A kill has cut finalize_file between the rename and the removal of
\* state.json: the payload is in place, the staged data is gone, and state.json
\* still claims all of it.
StagingCut == rpc = "Exited" /\ state # None /\ data = NoFile

\* Re-running works however often it is done: users who repeat both commands for
\* ever see one transfer after the other succeed, also when the ack of a payload
\* already in place was lost.  The one exception is a StagingCut: the payload is in
\* place, but from then on each re-run takes a data file of holes for complete.
RerunsSucceed ==
    \/ []<>(sres = "Ok" /\ dest = Content[file])
    \/ <>(StagingCut /\ dest = Content[file])

\* What the sender has reported as delivered.
Reported == IF sres = "Ok" /\ sjob # TextJob THEN scommit ELSE NoFile

Promise == INSTANCE Handoff
    WITH Payload <- Payloads, Nothing <- NoFile, Part <- Torn, Bundles <- (Kind = "Tar"),
         told <- Reported

\* The transfer keeps its promise: seen from outside, every step of send_source,
\* recv_into, finalize and the store either puts a whole payload in place
\* while no sender claims success, reports exactly what is in place, or
\* changes nothing; no crash, edit, loss or foreign build makes it do anything
\* else.
KeepsPromise == Promise!Spec
=============================================================================
