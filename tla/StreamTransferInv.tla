------------------------- MODULE StreamTransferInv --------------------------
(***************************************************************************)
(* The inductive invariant of StreamTransfer, in named parts.  TLC checks  *)
(* it on the small instances and StreamTransferProofs proves it.           *)
(***************************************************************************)
EXTENDS StreamTransfer

\* The receiver's control points by the part of recv_into they belong to.
BeforeAck == {"Decline", "AckText", "Open", "PersistOpen", "Ack"}
Staging == {"PersistOpen", "Ack", "Recv", "Persist"}
InLoop == {"Recv", "Persist"}
Finalizing == {"Install", "Unpack"}
Gone == {"Linger", "Exited", "Waiting"}

\* A connection that is up has both ends.
LinkInv == link = "up" => SenderOnChannel /\ ReceiverOnChannel

\* What state.json and the open store list lies inside the payload, and the
\* loop of recv_into adds exactly the chunks it has passed.
HaveInv ==
    /\ state # None => state.have \subseteq 0..(state.size - 1)
    /\ rpc \in Staging => rhave \subseteq 0..(rman.size - 1)
    /\ rpc = "Ack" => rskip = rhave
    /\ rpc \in InLoop => ri <= rman.size /\ rhave \subseteq rskip \cup 0..(ri - 1)
    /\ rpc = "Persist" => ri < rman.size

\* send_source's job and loop index.
JobInv ==
    /\ spc \in {"Payload", "AwaitCommitAck"} => sjob \in Source
    /\ spc = "Payload" => si <= Size[sjob]

\* The manifest says which of the two ways through recv_into is taken.
KindInv ==
    /\ rpc = "AckText" => rman.kind = "Text"
    /\ rpc \in {"Open", "PersistOpen", "Ack"} => rman.kind # "Text"

\* The first chunk index recv_into has not yet passed.
From == IF rpc = "Persist" THEN ri + 1 ELSE ri

\* The nonce indices recv_into still expects in this session.
Pending ==
    {1 + j : j \in {i \in From..(rman.size - 1) : i \notin rskip}}
        \cup {1 + rman.size}

\* The indices of queue q are an initial part of the set P, in order.
InitialPart(q, P) ==
    /\ \A k \in 1..Len(q) : q[k].idx \in P
    /\ \A k, m \in 1..Len(q) : k < m => q[k].idx < q[m].idx
    /\ \A k \in 1..Len(q) : \A n \in P :
          n < q[k].idx => \E m \in 1..Len(q) : q[m].idx = n

\* The frames on their way to recv_into: an initial part of what it expects.
PipeInv ==
    /\ rpc = "Manifest" => Len(toR) <= 1 /\ \A k \in 1..Len(toR) : toR[k].idx = 0
    /\ rpc \in BeforeAck => toR = <<>>
    /\ rpc \in InLoop =>
        /\ InitialPart(toR, Pending)
        /\ \A k \in 1..Len(toR) :
              toR[k].idx = 1 + rman.size => toR[k].body \in Payloads

\* The replies on their way to send_source: at most the one it waits for.
ReplyInv ==
    /\ spc \in {"Manifest", "Payload"} => toS = <<>>
    /\ spc = "AwaitAck" => Len(toS) <= 1 /\ \A k \in 1..Len(toS) : toS[k].idx = 0
    /\ spc = "AwaitCommitAck" =>
          Len(toS) <= 1 /\ \A k \in 1..Len(toS) : toS[k].idx = 1

\* The sender's reading of the ack is the receiver's have_set.
SkipAgree(ack) ==
    \A i \in 0..(rman.size - 1) :
        ack.complete \/ RunsContain(ack.have_runs, i) <=> i \in rskip

\* Where the two ends of a connection that is up can be relative to each other.
AckPhase ==
    \/ /\ rpc = "Manifest" /\ toS = <<>>
       /\ toR = <<Frame(0, Manifest(sjob, sbuild))>>
    \/ rpc \in BeforeAck /\ toS = <<>> /\ rman = Manifest(sjob, sbuild)
    \/ rpc = "Linger" /\ sjob = TextJob
    \/ /\ rpc = "Recv" /\ toR = <<>> /\ toS # <<>>
       /\ sjob \in Source /\ rman = Manifest(sjob, sbuild)
       /\ SkipAgree(toS[1].body)
       /\ \A j \in 0..(rman.size - 1) : j \notin rskip => ri <= j

PayloadPhase ==
    /\ rpc \in InLoop
    /\ rman = Manifest(sjob, sbuild)
    /\ SkipAgree(sack)
    /\ \A k \in 1..Len(toR) : toR[k].idx < 1 + si
    /\ \A n \in Pending : n < 1 + si => \E k \in 1..Len(toR) : toR[k].idx = n
    /\ \A j \in si..(rman.size - 1) : j \notin rskip => From <= j

CommitPhase ==
    /\ rpc \notin BeforeAck \cup {"Manifest"}
    /\ rpc # "Linger" => toS = <<>>
    /\ rpc \in InLoop =>
          \A k \in 1..Len(toR) : toR[k].idx = 1 + rman.size => toR[k].body = scommit
    /\ rpc \in Finalizing => data = scommit
    /\ rpc \in {"Remove", "Linger"} => dest = scommit
    /\ rpc = "CommitAck" /\ rok => dest = scommit

SessionInv ==
    link = "up" =>
        /\ spc = "Manifest" => rpc = "Manifest" /\ toR = <<>>
        /\ spc = "AwaitAck" => AckPhase
        /\ spc = "Payload" => PayloadPhase
        /\ spc = "AwaitCommitAck" => CommitPhase

\* What finalize has verified, and what an ok commit ack stands for.
VerifiedInv == rpc \in Finalizing => data \in Payloads

SuccessInv ==
    /\ spc = "AwaitCommitAck" /\ toS # <<>> /\ toS[1].body =>
          dest = scommit /\ rpc \in Gone
    /\ sres = "Ok" =>
          spc = "Idle" /\ (sjob # TextJob => dest = scommit /\ rpc \in Gone)

\* Before an ok commit ack goes out the staging directory is gone.
EmptiedInv ==
    (rpc = "CommitAck" /\ rok) \/ (rpc = "Linger" /\ rman.kind # "Text") =>
        state = None /\ data = NoFile

\* state.json is what the open store has in memory, and open_or_create forgets
\* nothing that it could resume from.
StoreInv ==
    /\ rpc = "PersistOpen" /\ Reusable => state.have \subseteq rhave
    /\ rpc \in {"Ack", "Recv", "Persist"} => state = Staged(rman.tid, rman.size, rhave)

\* Manifests are about payloads.
About(man) ==
    man.kind # "Text" => \E s \in Source : man.tid = Tid[s] /\ man.size = Size[s]
ManifestInv ==
    /\ About(rman)
    /\ \A k \in 1..Len(toR) : toR[k].idx = 0 => About(toR[k].body)
    /\ rpc \in Staging => rman.kind # "Text"

\* Block b is chunk i of a payload with transfer_id tid.
Original(tid, i, b) ==
    \E s \in Source : Tid[s] = tid /\ i \in Chunks(s) /\ b = Content[s][i]

\* No payload has changed under a sender that reads it in place.
Untouched == faults.edits = 0 \/ Kind = "Tar"

\* The chunks on their way are those of the payload the manifest is about.
ChunkInv ==
    Untouched =>
        /\ spc # "Idle" /\ sjob # TextJob => Readable = sjob
        /\ rpc \in InLoop => \A k \in 1..Len(toR) :
              toR[k].idx <= rman.size => Original(rman.tid, toR[k].idx - 1, toR[k].body)

\* The data file has the chunks in have, of a payload of that id and size.
Holds(tid, size, have) ==
    /\ data # NoFile /\ data \in [0..(size - 1) -> Block]
    /\ \A i \in have : Original(tid, i, data[i])

\* It has what the open store and state.json list, the latter except while
\* open_or_create is about to replace state.json and while the staging directory
\* is being removed.
DataInv ==
    Untouched /\ faults.crashes = 0 /\ faults.ioerrs = 0 =>
        /\ state # None /\ rpc \notin {"PersistOpen", "Remove"} =>
              Holds(state.tid, state.size, state.have)
        /\ rpc \in Staging => Holds(rman.tid, rman.size, rhave)
        /\ rpc = "Persist" => Original(rman.tid, ri, data[ri])

StreamInv ==
    /\ TypeOK /\ HaveInv
    /\ LinkInv /\ JobInv /\ KindInv
    /\ PipeInv /\ ReplyInv /\ SessionInv
    /\ VerifiedInv /\ DeliveredWhole /\ SuccessInv
    /\ EmptiedInv /\ StoreInv /\ ManifestInv /\ ChunkInv /\ DataInv
=============================================================================
