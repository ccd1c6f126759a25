----------------------------- MODULE Commands -----------------------------
(***************************************************************************)
(* The commands of b2p on one machine (main.rs), one at a time: which      *)
(* transport and relay a command uses, what it keeps on disk (the config   *)
(* file, the cloudflared binary), the loop of the relay receiver and the   *)
(* diagnosis that follows a failed connection.  Any command may be killed  *)
(* at any step.                                                            *)
(*                                                                         *)
(* What happens on an open connection is in RelaySession, PeerSession and  *)
(* TunnelTransfer; here an attempt just ends in one of its ways.           *)
(***************************************************************************)
EXTENDS RelayConfig, Diagnosis

CONSTANTS
    Typed,          \* relay addresses the user types or exports
    PeerUrls,       \* where a receiver elsewhere may wait (normalized)
    TheirCode,      \* the code that receiver has printed
    MyCode,         \* the code a receiver on this machine prints
    MaxCommands     \* bound: commands run

ASSUME CommandsAssumption == MaxCommands \in Nat /\ TheirCode # MyCode

\* Where a receiver waits is an address, and an address has a host.
ASSUME PeerAssumption ==
    \A u \in PeerUrls : u = Url(u.scheme, u.host, u.path) /\ u.host # None /\ u.path \in BOOLEAN

VARIABLES
    os,             \* the platform b2p was built for
    env,            \* B2P_RELAY and B2P_RELAY_TOKEN
    peer,           \* the relay of the receiver elsewhere
    conf,           \* the config file
    bin,            \* the cloudflared binary on disk
    pc,             \* control point of the running command
    cfg,            \* `relay set`: the configuration to save
    flag,           \* --relay
    text,           \* the code `b2p send` was given
    relay,          \* the RelayCfg in use
    meeting,        \* topic and secret in use
    dialed,         \* what has been shown to a relay: its address and the token
    busy_retries,   \* the counter of receive_relay_cli
    stretch,        \* history: 409 answers in a row, and seconds slept in between
    ran,            \* history: what was executed as cloudflared
    commands        \* commands started

machine == <<os, env, peer>>
disk == <<conf, bin>>
session == <<cfg, flag, text, relay, meeting, dialed, busy_retries, stretch, ran>>
vars == <<machine, disk, pc, session, commands, diag>>

NoConf == [relay |-> None, token |-> None]
NoRelay == [url |-> None, token |-> None]
NoBin == [data |-> "none", exec |-> FALSE]
NoStretch == [busy |-> 0, waited |-> 0]

\* A new process.
Fresh ==
    /\ cfg' = NoConf /\ flag' = None /\ text' = NoCode /\ relay' = NoRelay /\ meeting' = None
    /\ dialed' = NoRelay /\ busy_retries' = 0 /\ stretch' = NoStretch /\ ran' = "nothing"
    /\ nat' = "cone" /\ query' = 0 /\ asked' = FALSE /\ wire' = NoWire /\ mapped' = <<>>
    /\ verdict' = "none" /\ healthy' = TRUE

Starts == pc = "Shell" /\ commands < MaxCommands /\ commands' = commands + 1
\* The command is over; its process is gone.
Ends == pc' = "Shell" /\ Fresh /\ UNCHANGED <<machine, disk, commands>>

-----------------------------------------------------------------------------
(* b2p relay set                                                           *)

RelaySet(url, token) ==
    /\ Starts /\ ~Refused(url)
    /\ cfg' = [relay |-> Normalize(url), token |-> First(token, conf.token)]
    /\ pc' = "Save"
    /\ UNCHANGED <<machine, disk, flag, text, relay, meeting, dialed, busy_retries, stretch, ran, diag>>

\* config::save: fs::write empties the file before it writes it, and an empty
\* file reads as the default configuration.
SaveTruncates ==
    /\ pc = "Save"
    /\ conf' = NoConf
    /\ pc' = "Write"
    /\ UNCHANGED <<machine, bin, session, commands, diag>>
SaveWrites ==
    /\ pc = "Write"
    /\ conf' = cfg
    /\ pc' = "Shell" /\ Fresh
    /\ UNCHANGED <<machine, bin, commands>>

-----------------------------------------------------------------------------
(* Diagnosis, as a command and after a failed connection.                  *)

\* connect_failed_relay and connect_failed; what the command was about is over.
Diagnose(r) ==
    /\ pc' = "Diagnose"
    /\ relay' = r
    /\ text' = NoCode /\ meeting' = None /\ busy_retries' = 0
    /\ Probe

Doctor ==
    /\ Starts
    /\ Diagnose(IF Resolvable(None, None, env, conf) THEN ResolveRelay(None, None, env, conf)
                ELSE NoRelay)
    /\ UNCHANGED <<machine, disk, cfg, flag, dialed, stretch, ran>>

\* The relay check dials the relay.
Examine ==
    /\ pc = "Diagnose"
    /\ DiagnosisStep(relay.url # None)
    /\ dialed' = IF query = 3 THEN relay ELSE dialed
    /\ UNCHANGED <<machine, disk, pc, cfg, flag, text, relay, meeting, busy_retries, stretch, ran,
                   commands>>
DoctorEnds == pc = "Diagnose" /\ verdict # "none" /\ Ends

-----------------------------------------------------------------------------
(* b2p receive, through the relay                                          *)

ReceiveRelay(f) ==
    /\ Starts /\ Resolvable(f, None, env, conf)
    /\ relay' = ResolveRelay(f, None, env, conf)
    /\ flag' = f /\ meeting' = Meeting(MyCode)
    /\ pc' = "Receive"
    /\ UNCHANGED <<machine, disk, cfg, text, dialed, busy_retries, stretch, ran, diag>>

\* A session ends: done, or with an error that is not about the connection.
ReceiveEnds == pc = "Receive" /\ Ends

\* Wrong variant: only a lost connection resets the counter.
RearmKeepsCount(why) ==
    IF why = "TransportLost" THEN busy_retries' = 0 ELSE UNCHANGED busy_retries
\* WaitClosed, TransportLost and CodeMismatch reset it.
RearmResets(why) == busy_retries' = 0
ReceiveRearms(why) ==
    /\ pc = "Receive"
    /\ RearmResets(why)
    /\ stretch' = NoStretch /\ dialed' = relay
    /\ UNCHANGED <<machine, disk, pc, cfg, flag, text, relay, meeting, ran, commands, diag>>

MaxBusy == 8
Doubled == [i \in 0..MaxBusy |-> 2 ^ (i + 1)]
Delay(i) == IF Doubled[i] < 20 THEN Doubled[i] ELSE 20

\* The relay answers 409.
RoomBusy ==
    /\ pc = "Receive"
    /\ dialed' = relay
    /\ stretch' = [busy |-> stretch.busy + 1,
                   waited |-> stretch.waited + IF busy_retries < MaxBusy THEN Delay(busy_retries) ELSE 0]
    /\ \/ /\ busy_retries < MaxBusy
          /\ busy_retries' = busy_retries + 1
          /\ UNCHANGED <<pc, relay, text, meeting, diag>>
       \/ /\ busy_retries >= MaxBusy
          /\ Diagnose(relay)
    /\ UNCHANGED <<machine, disk, cfg, flag, ran, commands>>

\* Any other failure to connect: no relay there, no answer, a token is missing.
ReceiveFails ==
    /\ pc = "Receive"
    /\ dialed' = relay /\ stretch' = NoStretch
    /\ Diagnose(relay)
    /\ UNCHANGED <<machine, disk, cfg, flag, ran, commands>>

-----------------------------------------------------------------------------
(* b2p send                                                                *)

\* turn::resolve: only udp, and addresses and credentials go together.
TurnOk(url, cred) == (url = "none" /\ cred = "none") \/ (url = "udp" /\ cred \in {"secret", "static"})

\* The code and the TURN flags are judged before anything is prepared.
DoSend(t, f, p2p, url, cred) ==
    /\ Starts /\ Parses(t) /\ TurnOk(url, cred) /\ (~p2p => url = "none" /\ cred = "none")
    /\ text' = t /\ flag' = f
    /\ pc' = IF ~IsRendezvous(t) THEN "SendTunnel" ELSE IF p2p THEN "P2p" ELSE "Prepare"
    /\ UNCHANGED <<machine, disk, cfg, relay, meeting, dialed, busy_retries, stretch, ran, diag>>

\* The payload is prepared, then the relay is chosen.
SendResolves ==
    /\ pc = "Prepare" /\ Resolvable(flag, RelayHost(text), env, conf)
    /\ relay' = ResolveRelay(flag, RelayHost(text), env, conf)
    /\ meeting' = ParsedMeeting(text)
    /\ dialed' = relay'
    /\ pc' = "Send"
    /\ UNCHANGED <<machine, disk, cfg, flag, text, busy_retries, stretch, ran, commands, diag>>
SendFails ==
    /\ pc = "Send"
    /\ Diagnose(relay)
    /\ UNCHANGED <<machine, disk, cfg, flag, dialed, stretch, ran, commands>>

\* The payload cannot be read, no relay is known, or the transfer is over.
SendEnds ==
    /\ pc \in {"Prepare", "Send", "SendTunnel"}
    /\ Ends

-----------------------------------------------------------------------------
(* b2p receive --p2p; the sender's side of it joins here.                  *)

ReceiveP2p(url, cred) ==
    /\ Starts /\ TurnOk(url, cred)
    /\ pc' = "P2p"
    /\ UNCHANGED <<machine, disk, session, diag>>
P2pFails ==
    /\ pc = "P2p"
    /\ Diagnose(NoRelay)
    /\ UNCHANGED <<machine, disk, cfg, flag, dialed, stretch, ran, commands>>
P2pEnds == pc = "P2p" /\ Ends

-----------------------------------------------------------------------------
(* b2p receive --tunnel                                                    *)

\* ensure_binary: a file of this name is used as it is.
ReceiveTunnel ==
    /\ Starts
    /\ pc' = IF bin.data # "none" THEN "Spawn" ELSE "Download"
    /\ UNCHANGED <<machine, disk, session, diag>>

\* Only a download with the pinned checksum is written.
DownloadVerified ==
    /\ pc = "Download"
    /\ pc' = "Create"
    /\ UNCHANGED <<machine, disk, session, commands, diag>>
\* The download fails or is something else.
DownloadRefused == pc = "Download" /\ Ends

\* Wrong variant: the file is created executable.
CreatedExec == [data |-> "part", exec |-> TRUE]
\* fs::write creates a plain file, which only Windows would start as it is.
Created == [data |-> "part", exec |-> os = "windows"]
WriteCreates ==
    /\ pc = "Create"
    /\ bin' = Created
    /\ pc' = "Fill"
    /\ UNCHANGED <<machine, conf, session, commands, diag>>
WriteFills ==
    /\ pc = "Fill"
    /\ bin' = [bin EXCEPT !.data = "whole"]
    /\ pc' = IF os = "unix" THEN "Chmod" ELSE "Spawn"
    /\ UNCHANGED <<machine, conf, session, commands, diag>>
\* On unix only.
SetPermissions ==
    /\ pc = "Chmod"
    /\ bin' = [bin EXCEPT !.exec = TRUE]
    /\ pc' = "Spawn"
    /\ UNCHANGED <<machine, conf, session, commands, diag>>

\* start_cloudflared: a file that is not executable cannot be started.  What
\* was written of an executable one may run or fail to load.
Spawn ==
    /\ pc = "Spawn" /\ bin.exec
    /\ ran' = bin.data
    /\ pc' = "Watch"
    /\ UNCHANGED <<machine, disk, cfg, flag, text, relay, meeting, dialed, busy_retries, stretch,
                   commands, diag>>
SpawnFails == pc = "Spawn" /\ (bin.exec => bin.data # "whole") /\ Ends

\* What cloudflared prints: the banner, the address of its registration
\* service, the line of a failure, anything else.
Lines == {"banner", "api", "failure", "other"}
\* parse_tunnel_url: a generated subdomain with no path.
IsTunnelUrl(line) == line = "banner"
\* The code is only printed for a tunnel; other lines are skipped.
Watch(line) ==
    /\ pc = "Watch" /\ IsTunnelUrl(line)
    /\ pc' = "Tunnel"
    /\ UNCHANGED <<machine, disk, session, commands, diag>>
\* A line of failure, the end of cloudflared, or thirty seconds.
WatchFails(line) == pc = "Watch" /\ ~IsTunnelUrl(line) /\ line = "failure" /\ Ends
TunnelEnds == pc \in {"Watch", "Tunnel"} /\ Ends

\* --direct needs no cloudflared.
ReceiveDirect ==
    /\ Starts
    /\ pc' = "Tunnel"
    /\ UNCHANGED <<machine, disk, session, diag>>

-----------------------------------------------------------------------------
Kill == pc # "Shell" /\ Ends

Init ==
    /\ os \in {"unix", "windows"}
    /\ env \in [url : {None} \cup Typed, token : {None, "env"}]
    /\ peer \in PeerUrls
    /\ conf = NoConf /\ bin = NoBin /\ pc = "Shell"
    /\ cfg = NoConf /\ flag = None /\ text = NoCode /\ relay = NoRelay /\ meeting = None
    /\ dialed = NoRelay /\ busy_retries = 0 /\ stretch = NoStretch /\ ran = "nothing"
    /\ commands = 0
    /\ DiagnosisInit

Flags == {None} \cup Typed
Texts == {Short(TheirCode), Long(TheirCode, peer), TunnelText, NoCode}
\* turns: and transport=tcp are refused like anything that is no TURN address.
TurnUrls == {"none", "udp", "other"}
TurnCreds == {"none", "secret", "static"}

Next ==
    \/ \E u \in Typed, t \in {None, "file"} : RelaySet(u, t)
    \/ SaveTruncates \/ SaveWrites
    \/ Doctor \/ Examine \/ DoctorEnds
    \/ \E f \in Flags : ReceiveRelay(f)
    \/ \E why \in {"WaitClosed", "TransportLost", "CodeMismatch"} : ReceiveRearms(why)
    \/ ReceiveEnds \/ RoomBusy \/ ReceiveFails
    \/ \E t \in Texts, f \in Flags, p2p \in BOOLEAN, u \in TurnUrls, c \in TurnCreds :
          DoSend(t, f, p2p, u, c)
    \/ SendResolves \/ SendFails \/ SendEnds
    \/ \E u \in TurnUrls, c \in TurnCreds : ReceiveP2p(u, c)
    \/ P2pFails \/ P2pEnds
    \/ ReceiveTunnel \/ DownloadVerified \/ DownloadRefused
    \/ WriteCreates \/ WriteFills \/ SetPermissions \/ Spawn \/ SpawnFails
    \/ \E line \in Lines : Watch(line) \/ WatchFails(line)
    \/ TunnelEnds \/ ReceiveDirect
    \/ Kill

Spec == Init /\ [][Next]_vars

-----------------------------------------------------------------------------
(* Properties.                                                             *)

\* The addresses the user of this machine has given for the running command.
Named == {Normalize(u) : u \in {flag, env.url, conf.relay} \ {None}}

\* The token is private to the user's own relay: whatever host a code names, no
\* command shows it to a relay the user did not name, neither when it connects
\* nor when it examines the relay after a failure.
TokenStaysHome == dialed.token # None => dialed.url \in Named

\* The long code leads there: a sender that is given it, and no --relay, meets
\* the receiver at its relay, in its room and with its secret, whatever this
\* machine has configured, and shows the token it keeps if that relay is its
\* own.  A relay without TLS or with a path is spelled by no code.
SameRoom ==
    pc = "Send" /\ flag = None /\ text.form = "url" /\ peer.scheme = "wss" /\ ~peer.path =>
        /\ relay.url = peer
        /\ meeting = Meeting(TheirCode)
        /\ LET own == First(env.url, conf.relay) IN
           own # None => (Normalize(own) = peer => relay.token = First(env.token, conf.token))

\* A receiver only gives up on a busy room after nine refusals in a row, spread
\* over the two minutes the edge may hold a dead socket, however many it had
\* met before in its life.
BusyPatience ==
    pc = "Diagnose" /\ stretch.busy > 0 => stretch.busy = MaxBusy + 1 /\ stretch.waited >= 110

\* On unix only a complete binary with the pinned checksum is executed, also
\* after a run that was killed at any step of its installation: ensure_binary
\* takes what that run left, but it has no permission to be started.  Windows
\* asks for none; there the command that installs the binary still runs a
\* complete one, and only a later command may run what was cut short.
OnlyVerifiedRuns == ran = "part" => os = "windows" /\ commands > 1
=============================================================================
