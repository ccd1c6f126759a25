# b2p: a verification project

b2p moves a file, a folder or a text from one machine to another.  The receiver
runs `b2p receive` and gets a short code; the sender runs `b2p send CODE FILES`.
By default all traffic goes through a relay the operator runs, sealed end to end
with a key both sides derive from the code.  What makes the program interesting is
what happens when things break: connections drop, either process is stopped with
Ctrl-C, and running the same command again is supposed to continue where it
stopped.  This directory holds TLA+ models of that machinery, the TLC runs that
check them on small instances, and TLAPS proofs that hold for every instance.

Run them from this directory, with the community modules on the library path:

    tlc -config stream_faults.cfg MCStreamTransfer
    tlapm StreamTransferProofs.tla

## 1. Inventory

| Component (source) | State | Operations | Talks to |
|---|---|---|---|
| Stream transfer (`stream.rs`) | loop index, manifest, ack, have_set | `send_source`, `recv_into`, `finalize` | the channel, the store, the session drivers |
| Staging store (`store.rs`) | `NAME.b2p-partial/data`, `state.json`, `Store.state` | `open_or_create`, `write_chunk`, `persist_state`, `is_complete`, `file_hash`, `finalize_file`, `cleanup` | `recv_into`, the v1 server |
| Archive (`archive.rs`) | spool file of a bundle | `prepare`, `prepare_text`, `fingerprint`, `unpack_tar` | `do_send`, `finalize` |
| Chunk runs (`protocol.rs`) | none | `runs_from_sorted`, `runs_contain` | the manifest ack |
| Relay channel (`transport/relay.rs`) | `sent`, `acked`, `pending`, `consumed`, `acked_out`, queues | `connect`, `send`, `recv`, `close`, `io_task` | the relay room, the stream transfer |
| Relay framing (`transport/relay.rs`) | `pending`, `Debatcher.partial` | `pack_frames`, `Debatcher::push` | `io_task` |
| Relay room (`relay-worker/src/index.js`) | two sockets by role, an alarm | join with takeover, forward, departed, alarm | both relay channels |
| Session drivers (`session.rs`, `main.rs`) | retry counter, the code | `send_relay`, `receive_relay`, `receive_relay_cli`, `send_p1`, `receive_p1` | everything above |
| Handshake (`handshake.rs`, `pake.rs`) | SPAKE2 state, key | `handshake`, `handshake_over_channel` | a channel or a rendezvous topic |
| Tunnel server and sender (`server.rs`, `send.rs`) | `ActiveTransfer`, auth failures | four HTTP handlers, parallel uploads with retry | the store, the user prompt |
| WebRTC channel (`transport/webrtc.rs`) | close latch, bounded inbox, buffered ICE | `send`, `recv`, event handlers, signaling pump | the rendezvous, the stream transfer |
| Rendezvous (`rendezvous/`) | a topic on ntfy | `publish`, `subscribe` | handshake, WebRTC |
| Configuration (`config.rs`) | config file | `load`, `save`, `resolve_relay` | the command line |
| Codes (`code.rs`, `rvcode.rs`, `words.rs`) | none | `parse`, `is_rendezvous_code`, two spellings | the command line, configuration |
| Commands (`main.rs`) | the retry counter, what a command was given | one function per command | everything |
| Diagnostics (`doctor.rs`, `stun.rs`, `tlsprobe.rs`, `doh.rs`) | one shared UDP socket | `nat_mapping`, four other checks, `verdict` | the command line, also after a failed connection |
| cloudflared (`tunnel.rs`) | the binary on disk, a child process | `ensure_binary`, `start_cloudflared`, `parse_tunnel_url` | `receive_tunnel` |
| Crypto helpers, HTTP client, TURN flags, progress bar | little or none | library calls, parsing | the command line |

How they interact.  `b2p receive` loops: dial the relay room, wait for a sender,
derive a session key, run `recv_into`; a lost transport starts the loop again with
the same code, any other error ends the process.  `b2p send` does the same once.
`recv_into` writes through the store after every chunk, so that what is on disk,
not what is in memory, decides what the next session asks for.  All messages of a
session are sealed under the session key at a nonce index both sides compute: the
manifest and its ack at 0, chunk *i* at 1+*i*, the commit at 1+*n*, the commit ack
at 1.  A relay channel is a task per end between two queues, with a byte window
and cumulative acks across the relay.

What is hard here, and what must be true of each part:

- *Agreement without negotiation.*  Both loops decide on their own which chunks to
  skip; a single disagreement opens every later frame at the wrong index
  (`InStep`, `OnlyMissingSent`).
- *Crashes.*  The store changes two files and a directory; the process may be
  killed between any two of these changes (`ProgressKept`, `RerunsSucceed`,
  `EventuallyDelivered`), and what it leaves must still be true (`StagedTruthful`,
  `SuccessLeavesNoStaging`, where no kill came in between).
- *Stale data.*  Resume trusts a fingerprint of metadata, and a single file is read
  while it may change (`DeliveredWhole`, `KeepsPromise`).
- *Waiting.*  The sender waits for acks the receiver only sends above a threshold; a
  peer that is gone must be noticed (`NoFalseStall`, `SendReturns`, `SessionEnds`).
- *Reconnecting.*  A peer replaces its own stale socket, both ends time out on their
  own, late events of old sockets come after the joins of new ones (`SameKey`,
  `SuccessMeansReceived`, `PairedNeverExpires`, `SurvivesUnhurried`, `SendEnds`,
  `EventuallyDone`).
- *Shared staging.*  The handlers of the tunnel server share a mutex for the transfer in
  memory, but not for the staging directory, and requests outlive the sender that made
  them (`WholeUnlessOverlapped`, `AckedHeld`, `DeliveredWhole`).
- *Meeting without a server of one's own.*  Over the public rendezvous every frame may be
  an echo, stale, or from another transfer; the two peers subscribe, describe and gather
  in any order, and the one that is done first must not take the last message with it
  (`SameKey`, `SuccessMeansReceived`, `BothSucceed`).
- *Lost wakeups.*  A blocked WebRTC send learns of a dead peer only through a latch that
  two callbacks set (`EveryRunEnds`).
- *Whom to trust.*  Relay and token come from a flag, a code a stranger wrote, the
  environment and a file (`TokenStaysHome`, `SameRoom`); a binary is installed in several
  steps (`OnlyVerifiedRuns`); late datagrams reach a later query (`HonestDoctor`); a
  counter decides when a receiver gives up (`BusyPatience`).
- *Limits.*  Frames around the payload limit, the window and the largest frame
  (`BufferBounded`, `PayloadFits`, `Reassembles`, `NeverBails`, `AllArrive`,
  `CloseFlushes`).

`PROJECT.json` lists every hazard at its line.

## 2. Plan

Done, in this order: the transfer with its store, the runs, the flow control of the
relay channel, its framing, meeting in a relay room, the tunnel path, the direct path with
its rendezvous and data channel, the commands with their configuration and diagnosis, and
the abstract specification `Handoff` with the proof that the transfer implements it; then
the safety of every module, proved for all values of its constants.

Left: `chunk_len`, `expected_len` and `read_chunk` at size boundaries, as operators.

## 3. Modules

**Runs** defines `RunsOf` (the maximal runs of a set of chunks, as (start, length)
pairs) and `RunsContain`.  **RunsLoop** is the loop of `runs_from_sorted` as a fold over the
sorted indices; its assumption `EncodesRuns`, which TLC evaluates with every run of
`MCStreamTransfer`, says that it computes `RunsOf` for every set of chunks up to 6.

**StreamTransfer** is the transfer.  Its variables come in four groups: the sender's
process (`spc`, `sjob`, `si`, ...), the channel (`link` and one queue of frames per
direction), the receiver's process (`rpc`, `rhave`, `rskip`, `ri`, ...) and the
receiver's disk (`state` for `state.json`, `data` for the staged data file, `dest` for
what was delivered).  `spc` and `rpc` are control points in `send_source` and
`recv_into`; a function of the source is cut into several actions exactly where a kill
would leave a different state behind:

| Source | Actions |
|---|---|
| `do_send`, `prepare` | `SendStart`, `StartBlob`, `StartText` |
| `send_source` | `SendManifest`, `RecvAck`, `SkipChunk`, `SendChunk`, `SendCommit`, `RecvCommitAck`, `SenderLost` |
| `receive_relay_cli`, `receive_relay` | `ReceiveStart`, `ReceiverLost`, `LingerEnd` |
| `recv_into` | `RecvManifest`, `SendDecline`, `SendAckText`, `SendAck`, `RecvSkip`, `RecvChunk`, `RecvCommit`, `SendCommitAck` |
| `Store::open_or_create` | `OpenStore` (up to `set_len`), `PersistOpen` |
| `Store::write_chunk` | `RecvChunk` (the bytes), `PersistChunk` (the state) |
| `finalize`, `finalize_file`, `cleanup`, `unpack_tar` | `RecvCommit` (the checks), `Install`, `Unpacked`, `RemoveStaging`, `FinalizeFails` |
| environment | `Connect`, `Disconnect`, `SenderKilled`, `ReceiverCrash`, `PickSource`, `EditDuringSend` |

A payload is a function from chunk numbers to blocks, and its BLAKE3 hash is that
function: collisions are excluded.  A sealed frame is a record with the index it was
sealed at, and opening it at another index fails.  `File::set_len` extends with the
block `Hole`.  A kill ends a process, not the machine: what has been written stays
written (the code never calls fsync, so a power loss is outside what it could promise).
Frames in flight when an end goes away without flushing survive as an arbitrary prefix.

**Handoff** is what a transfer promises, with the protocol left out: a destination with
nothing, a part or a whole payload in it, and a report that is only made of what is there.
`KeepsPromise` in `StreamTransfer` says that the transfer implements it, with `dest` mapped
to `dest` and a sender that has reported success mapped to the payload it hashed into
its commit.

**StreamTransferInv** holds the inductive invariant, **MCStreamTransfer** the payloads
used for model checking: `a` and `b` of two chunks each that differ in both, and an
empty `e`.

**RelayFlow** models `RelayChannel::send/recv/close` and the two io tasks for frames in
one direction and acks in the other.  Frames are numbered, and every queue between two
stages is the interval between two counters; `off[i]` is the byte count after frame
*i*.  A message may carry any number of whole frames, which covers every batching the
framing can produce.  `Stall` is a receiving application that stops reading, `Leave` one
that drops the channel, `Drop` a broken connection.  The 5 s bound of `close()` only
matters on a dead path and is part of `Drop`.  `PROGRESS_TIMEOUT` fires only when the
receiver stopped reading: acks of a reading receiver are assumed to arrive within its
five minutes.

**Batching** models `pack_frames` and `Debatcher::push`, one action per loop iteration.
Bytes carry the number of their frame and their position, so any loss, duplication or
mix-up shows.  `used` is `buf.len()`.  `packed`, the position `pack_frames` has reached, and the
field `at` of a piece, the position it was cut from, are a history for the proof; no step
reads them.

**RelaySession** composes the room of `index.js` (`Join`, `RoomHandles`, `RoomReaps`,
`Expire`) with what both processes do in it: `dial` and `connect` (`Dial`, `GetJoined`),
`handshake_over_channel` (`GetPake`, `GetConfirm`, `Skip`, `Timeout`), the session
(`ReceiverRound`, `SenderRound`, `BadFrame`, `LingerEnd`) and the loops around them (`Lost`
and `Rearm`).  A session is a number of sealed rounds, a key is the code together with
both SPAKE2 messages, a socket is two queues.  Frames are whole: a frame split over two
relay messages when its sender is replaced is outside this module.  `Timeout` fires
when nothing is under way that could end the wait, and, as the fault "early", at any other
moment.  `Mistaken` covers sealed bytes that happen to look like a frame of the key
exchange.

What the platform does is an assumption: once the room has closed a socket,
`getWebSockets` no longer returns it, and its close event may still come.  Whether
messages it sent before are still delivered is the constant `Late`.  A platform that keeps
returning a socket while it is closing would let `peerOf` pick it; that is not covered.

**TunnelTransfer** is the tunnel path.  A request occupies a slot from the moment it is
made until its answer is read, and `at` is its control point in the handler: the steps of
`handle_manifest` (`ManifestRead`, `ManifestOpen`, `ManifestTmp`, `ManifestRename`, the four
system calls of `open_or_create` that others can see, and `ManifestInstall`, which takes the
mutex), of `handle_chunk` (`ChunkWrite`, `ChunkTmp`, `ChunkRename`) and of `handle_commit`
(`CommitCheck`, `CommitInstall`, `CommitUnlink`, `CommitRmdir`) interleave as the threads of
the runtime can.  The staging directory is `data`, `state`, `tmp` and `dir`; `data` names an
inode, because an open `Store` and a renamed file keep the one they had.  `Exit` is
`receive_tunnel` leaving its loop on the first `Done` or `Failed`; the sender may lose an
answer with it (`Refused`).  A sender that is killed, or gives up on a manifest or a commit,
leaves its requests behind (`Orphaned`), and axum may drop them where they wait (`Dropped`).
`overlapped` is a history variable: it records that a sender started while the server still
had requests of an earlier one.  What `StreamTransfer` covers is not repeated: the file that
changes while it is read, colliding fingerprints, failures of the disk.

**WebRtcChannel** is an open data channel as `transport/webrtc.rs` wraps it: `send` in its
steps (the waiter is enabled, the latch is read, `dc.send` races the waiter), the message
callback and the two close callbacks (latch, wake-up and `Item::Closed`, one step each,
because they run beside `send`), and the bounded queue between them and `recv`.  The engine is
an assumption: it keeps the order of messages, stops taking them when `Window` are under
way, calls `on_close` only for a channel its peer has closed, after its messages, and
reports a failed connection otherwise.

**PeerSession** composes it with the way there.  `topic` is what the rendezvous has in its
cache window and every subscription reads it from the start.  `Subscribe` to `SkipFrame`
are `handshake_inner` and `wait_for`; `Establish` to `Opened` are `establish`, its pump and its
callbacks; `SendChunk` to `LingerEnds` are `receive_p1` and `send_p1` around a transfer that is
reduced to a number of messages and an ack.  `Gone` is a process that ends: `Drop` leaves a
flush of at most a second to a task that may die with the process, so the peer sees a clean
close or a dead connection, after any part of what was under way.

**RelayConfig** has the addresses, the two spellings of a code and `resolve_relay` as
operators; **Diagnosis** has the STUN probe, step by step on a UDP socket that loses, delays
and duplicates, and the verdict over all checks; **Commands** composes both with the commands
of one machine, which is a unix or a Windows one: `relay set` (truncate and write apart), `doctor`, the three ways to receive, `send`,
the loop with `busy_retries`, the installation and start of cloudflared.  A command is killed
at any step by `Kill`.  What a command does once it is connected is one step here, and the subject of the other
modules.  **MCCommands** has the addresses for TLC.

## 4. Runs

| Run | Checks | Instance |
|---|---|---|
| `stream_faults` | `StreamInv` (which contains the type invariant), `InStep`, `OnlyMissingSent`, `DeliveredWhole`, `SuccessMeansDelivered`, `SuccessLeavesNoStaging`, `StagedTruthful`, `ProgressKept` | two bundles, one loss, one kill of each process, one failed finalize, two changes of payload, the user may decline |
| `stream_edits` | `KeepsPromise`, the refinement of `Handoff` | two files with one `transfer_id` and an empty one, one edit during a send, texts, other builds, `--yes` without `--overwrite` |
| `stream_resume` | `SessionEnds`, `RerunsSucceed` | one file, two receiver kills, a loss and a sender kill, `--yes --overwrite` |
| `stream_crash_window` | `EventuallyDelivered`, **violated** | two bundles, one receiver kill |
| `flow` | `BufferBounded`, `NoFalseStall`, `FlowInv`, `SendReturns`, `CloseFlushes` | window 4, ack every 2, frames of 1 to 5 (and one of 7, which is refused), three frames, inbox of 1 |
| `batching` | `PayloadFits`, `Reassembles`, `NeverBails`, `AllArrive` | payload 5, header 2, frames of 0, 1, 3, 4, 7, three frames; 8 is refused |
| `meet` | `PairedNeverExpires`, `SameKey`, `SuccessMeansReceived`, `SurvivesUnhurried`, `SendEnds`, `EventuallyDone` | two of: a wrong code, a kill, a broken connection, an expiry, an early timeout, a hurried re-run; late messages delivered or not; sessions of two rounds |
| `meet_takeover` | `ReceiverSurvives`, **violated** | one kill, a hurried re-run |
| `tunnel` | `WholeUnlessOverlapped`, `AckedHeld`, `SuccessMeansDelivered`, `SendEnds`, `EventuallyDelivered` | a file, an archive of the same name and a text, two chunks, two requests at a time, two faults of any kind, `--yes` without `--overwrite` |
| `tunnel_race` | `DeliveredWhole`, **violated** | two files of one name, one sender gives up, one change of payload |
| `p2p` | `SameKey`, `SuccessMeansReceived`, `EveryRunEnds`, `BothSucceed` | two runs of send, two messages and an ack, queue and window of one, one fault of any of nine kinds |
| `commands` | `TokenStaysHome`, `SameRoom`, `BusyPatience`, `OnlyVerifiedRuns`, `HonestDoctor` | three commands, two own relays and a text that is none, a receiver elsewhere with TLS, without, and with a path, two copies of an answer |

The type invariants `TypeOK` of `RelaySession`, `TunnelTransfer` and `PeerSession` are proved
(section 6) and left out of the configurations of `meet`, `tunnel` and `p2p`.

The three violations are disagreements between the documentation and the code.

- *Crash window* (`store.rs:55`).  A receiver that opens the staging area for payload B
  truncates the data file before it replaces the `state.json` of payload A.  Killed in
  between, it leaves a state that claims chunks of A which are now zeros.  A later
  transfer of A resumes onto them, fails its hash check, and keeps the staging area,
  so re-running never helps.  The design document says "resume is the universal recovery
  path".  It takes two payloads with one name (every bundle is called
  `b2p-bundle.tar`).

  The same sentence of the design document ("Ctrl-C anywhere: both sides always leave resumable
  state", line 124) fails at a second place, `store.rs:146-148`, for one payload: a receiver
  killed after the data file was renamed into place (or, for a bundle, removed) and before
  `state.json` is removed leaves a state that claims everything, without its data.  The payload
  has been delivered, but the sender was not told so, and each re-run creates a data file of
  holes, takes it for complete and fails the hash check.  This is the exception `StagingCut` of
  `RerunsSucceed`: `stream_resume` shows that it is the only one, and without the exception
  TLC finds this run.
- *Takeover* (`index.js:40`).  A sender that is killed, or loses its connection, in a
  session and is run again before the room has handled the close of its first socket
  replaces that socket; the receiver is told that a peer joined, which it ignores, but
  not that one left.  The new sender's first key-exchange frame does not open under the
  old session's key, which is a plain error, and the receiver exits.  The README says
  that it keeps waiting.  `SurvivesUnhurried` shows that it does when the user waits until
  the room has seen the old socket go.

- *Race* (`server.rs:221`).  `handle_manifest` opens the staging directory before it takes
  the mutex.  A sender gives up on its commit while the receiver is still finalizing, and
  another payload with the same name is sent to the same receiver: its manifest truncates
  the data file after `finalize` has checked the hash and before it moves or unpacks the
  file, so zeros are put in place and reported as done.  The design document says "receiver
  verifies before unpacking or renaming anything".  `tunnel` shows that this takes two
  senders whose requests overlap at the server.

In the first one `DeliveredWhole` and `SuccessMeansDelivered` still hold: the hash check
keeps a wrong file from being delivered or reported, the transfer just cannot finish.
The same happens when two versions of a file written within a second share a
`transfer_id`, which `fingerprint` (`archive.rs:79`) computes from names, sizes and
modification seconds: the second is resumed onto chunks of the first and refused by the
hash check; `stream_edits` shows that it is never delivered as a mixture.

Met while modelling, and worth knowing although no text of the repository disagrees:

- The long code names a relay by host only.  For a relay without TLS, or below a path, it
  leads a sender elsewhere or does not parse; `SameRoom` is stated for the others.
- A `receive --tunnel` killed while it installs cloudflared leaves a file that every later one
  takes for the binary (`tunnel.rs:79`).  On unix it is not executable yet, because
  `set_permissions` comes last: nothing incomplete is run, but each later `receive --tunnel` fails to
  start it until someone removes it, which the invariant `OnlyVerifiedRuns` does not speak of.
  On Windows there is no such permission (`tunnel.rs:130` is `#[cfg(unix)]`), and the
  incomplete file is handed to `spawn` (`tunnel.rs:143`): it may run or fail to load.  There
  `OnlyVerifiedRuns` only says that the command which downloads the binary does not run it
  before it is complete.
- The token is sent to any relay the user names: the one kept in the config file goes to
  another relay under `--relay` or `B2P_RELAY` (`config.rs:91-95`).  `TokenStaysHome` says that
  it goes to no relay that only a code names.
- A killed `relay set` can leave an empty config file, which reads as no configuration.
- Behind a symmetric NAT with only one STUN server answering, the mapping is unclassified and
  the verdict is that of a clean network; `HonestDoctor` speaks of two answers.
- `doctor` accepts "a b2p code" as its target but only understands the tunnel's; a short code is looked up as
  a host name and a `b2p://` code is refused.

**Why the bounds are enough.**  Two chunks are the least number with a proper partial
resume, a run that ends before the payload does, and a skipped chunk before and after a
sent one; two payloads that differ in every chunk make every mixture of them
distinguishable.  One fault of each kind already reaches every pair of control points,
and where a second of one kind matters (a loss during the recovery from a loss, a kill
during the recovery from a kill) the run has two.  For flow control the window, the
threshold and the frame sizes are chosen so that a frame can fit, just not fit, and
exceed the window, and unacknowledged bytes can sit just below and at the threshold.
Two socket names for each role are one in use and one that has been replaced; a name is
reused when nothing refers to it any more, so the number of connections is not bounded.
Which free name a new socket, file or request gets is left to `CHOOSE`, because nothing
depends on it.
In `tunnel`, two slots hold two parallel uploads, or a request of one sender and one of the
next.  Two faults are the least with which a sender can be stopped and another payload
sent; with four, `EventuallyDelivered` meets the crash window above (stop, change of
payload, kill of the receiver, change back).
In `p2p`, a queue and a window of one make every blocking point of the data channel reachable
with two messages, and one candidate that must get through is the hardest case for the
pump; the nine kinds of fault are taken one at a time, because each ends at least one of
the two runs.  In `commands`, three commands are the least for `relay set`, a killed second one,
and a `send` that resolves what is left; a receiver's loop is not bounded, its counter is by
the code.
The safety properties do not rest on the bounds at all: they are
proved (section 6).

## 5. Fairness

`StreamTransfer` assumes weak fairness of the sender's and the receiver's own steps
(tokio keeps polling a task that can run, and a blocked `recv` ends when the channel
dies), of `Connect`, and of the two commands being run again after they ended: the
documented recovery is that the user re-runs them (`RerunsSucceed` lets them go on after a
success: with `--overwrite` a repeated transfer is one more that has to succeed).  Faults are bounded and have no
fairness.  In `RelayFlow` each branch of the io task is weakly fair by itself, because
`tokio::select!` picks among ready branches at random; the application reads until it
stalls or leaves.  In `Batching` each io task keeps working.  In `RelaySession` the room handles every
socket's events, the edge notices a broken connection in the end, both processes take
their steps, and the user runs `b2p send` again with the right code.  In `TunnelTransfer` the runtime
polls every handler, the sender goes on, `receive_tunnel` takes the events it is sent, and
the user runs both commands again.  Strong fairness is
assumed of the receiver's handshake timer in `RelaySession` only: it is started once per attempt and runs
on while senders come and go.  `EventuallyDone` and `SurvivesUnhurried` speak of behaviours without the fault "hurry": with a
user who re-runs at once, each end's departure can spoil the other's next attempt again and
again.  In `PeerSession` both processes, each callback and the engine keep working, a wait
ends with its deadline (120 s for the key exchange, 45 s for the connection), and the user
runs both commands; the engine reports a dead connection in the end, which its ICE timeouts
do.  `Commands` has no liveness.  Deadlock is not checked
where the system really stops: a channel that has been closed, a loop that has ended.

## 6. Proofs

`RunsProofs`: `RunsExact`, for every finite set of naturals *S*, *i* is in *S* exactly
when `RunsContain(RunsOf(S), i)`.  It finds the start of the run around *i* and its end
with the least-number principle.

`StreamTransferProofs`: `Spec => []StreamInv`, and from it `TypeOK`, `InStep`,
`OnlyMissingSent`, `DeliveredWhole`, `SuccessMeansDelivered`, `SuccessLeavesNoStaging`,
`StagedTruthful`, `ProgressKept` and `KeepsPromise`, for all payloads,
fingerprints (colliding ones too), builds, flags and fault bounds.  `InStep` is not
inductive: that the next frame has the right index says nothing about the one behind
it.  The invariant therefore describes the whole session: the frames on their way are an
initial part, in order, of the set of indices `recv_into` still expects (`PipeInv`);
while the connection is up, everything the sender has passed is on its way or
received, and the sender's reading of the ack is the receiver's `have_set`
(`SessionInv`, which rests on `RunsExact`); a reply on its way is the one the sender
waits for (`ReplyInv`); and an affirmative commit ack, on its way or received, means
that what is in place is what the commit hashed (`SuccessInv`).  One lemma per action
shows that it preserves the parts it can disturb.

The properties of the staging area need four more parts.  `EmptiedInv`: nothing is staged once
an affirmative commit ack is due.  `StoreInv`: while a store is open, `state.json` is what it
has in memory, and `open_or_create` keeps what it can resume from.  `ManifestInv` and
`ChunkInv`: a manifest, and the chunks behind it, are of one payload, as long as no file is
edited under its sender.  `DataInv`: the data file has what the store and `state.json` list,
with the two windows of the code taken out, between truncating and `persist_state` and during
`cleanup`.  The proof showed that an edit during a send breaks `StagedTruthful` for a
single file (the chunks of the new version are staged under the old `transfer_id`), so the
property says so; a bundle is sent from its spool and is not affected.

`StreamKeepsPromise` is the refinement of
`Handoff`: under `StreamInv`, the steps that put something in place are steps of a transfer
without a report, the step that reads the commit ack reports what is in place, and every other
step leaves both alone.

`RelayFlowProofs`: `Spec => []FlowInv`, and from it `BufferBounded` and `NoFalseStall`,
for every window, threshold, inbox capacity and frame size.  `FlowInv` adds to the bound
that frames only move forward (`FrameInv`), that messages in flight lead from what the
receiver has read to what the sender flushed (`WireInv`), and that acks in flight lead
from what the sender knows to what the receiver has acknowledged, which lags less than
the threshold behind what it consumed (`AckInv`).  In a drained pipe these add up to
fewer than `AckEvery` unacknowledged bytes, which is the escape in the window check.

`BatchingProofs`: `Spec => []BatchInv`, and from it `PayloadFits`, `Reassembles` and
`NeverBails`, for every payload limit, header, largest frame and sequence of frames.  The
invariant places everything between the two ends on one line of positions (frame, byte): the
pieces in `msg`, the messages on the wire and the pieces in `buf` each begin where the one
before ends, from what the Debatcher has (`Unpacked`) to what `pack_frames` has reached
(`StreamInv`); every piece holds the bytes it was cut from, and announces a continuation
unless it ends its frame; `LeftInv` says that what is pending and queued is the rest of the
frames, and `GotInv` that the Debatcher's `partial` is the beginning of the next one.
`NeverBails` follows, since a partial frame is never longer than the frame that `send` accepted.

`RelaySessionProofs`, for any sockets, rounds and faults, with late messages or without.
`PairedNeverExpires` has an invariant of its own, about the room alone.  `RelayInv` gives
`SameKey` and `SuccessMeansReceived`: a confirmation on its way that names the sender's
present socket carries the key the sender has (`KeyInv`; it rests on a fresh socket being
named by nothing under way), and an answer to the last round is on its way only when the
receiver lingers or is done (`AnswerInv`).

`SurvivesUnhurried` is about the order of messages, of which `RelayInv` says nothing, and has
an invariant of its own, `UnhurriedInv`, for behaviours without the fault "hurry".  All that is
under way from a sender is of one run and sealed with one key (`RunInv`), and follows the order
in which it was made, through the room to the receiver (`OrderInv`); when a sender
dials, nothing of the run before is left (`QuietInv`), which is what an unhurried user waits
for; and only a socket in use holds messages (`ReadInv`).  A sealed frame after the first is
made only when the one before was answered, and answered only when it was read (`CauseInv`).
So the frame that a receiver in a session finds is always the one it waits for, and a sender's
end only sends it back to waiting.  `RelayTypeOK` is the type invariant: a client
has a socket at exactly the control points that use one, and no round is past the last
(`PointInv`: before the end of a session there is always one to go).

`PeerSessionProofs`, for any number of attempts, candidates, messages and faults: `PeerInv`
gives `SameKey` and `SuccessMeansReceived`.  `KeyInv` says what the topic may hold: a confirmation
of the current attempt of a peer carries the key that peer has, and a peer past the key exchange
has found its own key confirmed.  `AckInv` follows the ack through the call to `send`,
the engine and the inbox.  `PeerTypeOK` is the type invariant with the bounds of the queues:
the inbox never holds more than `InboxCap` messages and the data channel no more than `Window`,
no message index exceeds the number of chunks, and no subscription is past the end of the topic.

`TunnelTransferProofs`, for any payloads, chunks, slots, files and faults: `TunnelInv`, and from
it `WholeUnlessOverlapped`, `AckedHeld` and `SuccessMeansDelivered`.  All three speak of
behaviours in which the requests of two senders do not meet, so the invariant is
`~overlapped => OrderlyInv`: the steps under the mutex hold it (`LockInv`); all requests are of
the present run of one sender, a manifest or a commit being alone (`ReqInv`); the
`ActiveTransfer` writes the staged file, which is not the delivered one (`FileInv`); and for
each control point of the three handlers, what it has read still holds (`ManifestInv`,
`ChunkInv`, `CommitInv`).  Without the proviso the last is false: that is the race above.

`TunnelTypeOK` has no such proviso, so it does not follow from `TunnelInv`: `SafeInv` holds however
the requests of several senders overlap.  Exactly the handler that is past `transfer.lock()`
holds the mutex, and a process that is down holds nothing (`MutexInv`); an upload that has no
attempt under way has one left (`TriesInv`), so none is tried more than `Attempts` times.  The
race above is therefore not one between two holders of the mutex: it is between one holder
and `handle_manifest`, which works on the staging directory before it takes it.

`CommandsProofs`, for all addresses, codes, environments and configurations, any number of
commands and of copies of a datagram: `OnlyVerifiedRuns`, `TokenStaysHome`, `SameRoom`, `BusyPatience`
and `HonestDoctor`, each with an invariant over the variables it is about.  `TokenOnlyToNamed`
is the fact about `resolve_relay` behind the second, `DelaysAddUp` the arithmetic of the back-off
behind the fourth; the first needs that a file which is executable before it is whole is one
on Windows, and that a command which finds a file was not the first; the fifth needs that an answer of the first STUN server is never
taken for one of the second, whenever it arrives.

The proofs assume only what the modules' ASSUMEs state: types of the constants, a
non-empty set of payloads, positive window, threshold and queues, a payload limit above
the header, and that names which stand for "nothing" (`None`, `NoFile`, `NoSocket`) are not
values of something.

Only model-checked: the liveness properties (fairness is outside the prover), and `RunsLoop`,
whose statement for all inputs needs induction over data.

## 7. Not modelled

In `TunnelTransfer` `handle_status`, which only reads, and the version check of a manifest
are left out, and a new receiver is only started when no sender is running: it has a new
address and a new code.  In `RelaySession` a dial succeeds; a dial that fails, and the 409
that relays older than this worker answer, are in `Commands`.  A receiver's wait has no end (24 hours in
the code).  Within `StreamTransfer`, dialing the room and agreeing on a key are one step,
`Connect`, between a dialing sender and a waiting receiver; lengths in bytes are not
modelled, a chunk being one block.  In `PeerSession` a candidate is refused by nobody and an
SDP always parses; in `Commands` one command runs at a time, so two first runs that
install cloudflared at once are outside, and a torn config file is an empty one.

Small differences of timing: in `TunnelTransfer` the process ends on `Failed` only once its
handlers have reached an await (`process::exit` cuts them anywhere, which `ReceiverKilled` does
too), and a text counts as shown when its event is sent, not when it is printed.  In
`RelaySession` a receiver whose last answer goes to a dead channel lingers instead of waiting
again; in `PeerSession` messages sent after a `Cut` may still arrive until an end notices it.

Left out for good: the word table and base58 (a code is its channel and its words), the
AEAD, SPAKE2 and hash functions (libraries), ICE, DTLS and SCTP, the ntfy service and the
Durable Object platform (assumptions named in section 3), the reading of certificates and
DNS-over-HTTPS answers by the doctor, the HTTP client, the derivation of TURN credentials and
the progress bar (one-shot I/O), and the mock transport (a test double).
