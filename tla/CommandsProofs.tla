-------------------------- MODULE CommandsProofs --------------------------
(***************************************************************************)
(* The invariants of Commands and Diagnosis, proved for every set of       *)
(* addresses, every code and any number of commands and of copies of a     *)
(* datagram.  Each property has an inductive invariant of its own, over    *)
(* the variables it is about.                                              *)
(***************************************************************************)
EXTENDS Commands, SequenceTheorems, TLAPS

-----------------------------------------------------------------------------
(* The steps, sorted by what they touch.                                   *)

\* A step of the tunnel, or the start of a command, that only moves pc.
Moves ==
    /\ pc \in {"Shell", "Download", "Watch"}
    /\ pc' \in {"P2p", "Spawn", "Download", "Create", "Tunnel"}
    /\ pc' = "Spawn" => pc = "Shell" /\ bin.data # "none"
    /\ commands' = IF pc = "Shell" THEN commands + 1 ELSE commands
    /\ UNCHANGED <<machine, disk, session, diag>>

\* All the ways a command comes to its end leave the machine in the same state,
\* and several steps do no more than move the control point.
LEMMA StepKinds ==
    Next => \/ Ends \/ Moves
            \/ \E u \in Typed, t \in {None, "file"} : RelaySet(u, t)
            \/ SaveTruncates \/ SaveWrites \/ Doctor \/ Examine
            \/ \E f \in Flags : ReceiveRelay(f)
            \/ \E why \in {"WaitClosed", "TransportLost", "CodeMismatch"} : ReceiveRearms(why)
            \/ RoomBusy \/ ReceiveFails
            \/ \E t \in Texts, f \in Flags, p2p \in BOOLEAN, u \in TurnUrls, c \in TurnCreds :
                  DoSend(t, f, p2p, u, c)
            \/ SendResolves \/ SendFails \/ P2pFails
            \/ WriteCreates \/ WriteFills \/ SetPermissions \/ Spawn
  <1> SUFFICES ASSUME Next
               PROVE  \/ Ends \/ Moves
                      \/ \E u \in Typed, t \in {None, "file"} : RelaySet(u, t)
                      \/ SaveTruncates \/ SaveWrites \/ Doctor \/ Examine
                      \/ \E f \in Flags : ReceiveRelay(f)
                      \/ \E why \in {"WaitClosed", "TransportLost", "CodeMismatch"} :
                            ReceiveRearms(why)
                      \/ RoomBusy \/ ReceiveFails
                      \/ \E t \in Texts, f \in Flags, p2p \in BOOLEAN, u \in TurnUrls,
                            c \in TurnCreds : DoSend(t, f, p2p, u, c)
                      \/ SendResolves \/ SendFails \/ P2pFails
                      \/ WriteCreates \/ WriteFills \/ SetPermissions \/ Spawn
    OBVIOUS
  <1>1. DoctorEnds \/ ReceiveEnds \/ SendEnds \/ P2pEnds => Ends
    BY DEF DoctorEnds, ReceiveEnds, SendEnds, P2pEnds
  <1>2. DownloadRefused \/ SpawnFails \/ TunnelEnds \/ Kill => Ends
    BY DEF DownloadRefused, SpawnFails, TunnelEnds, Kill
  <1>3. ASSUME NEW line \in Lines PROVE WatchFails(line) => Ends
    BY DEF WatchFails
  <1>4. ASSUME NEW u \in TurnUrls, NEW c \in TurnCreds PROVE ReceiveP2p(u, c) => Moves
    BY DEF ReceiveP2p, Starts, Moves
  <1>5. ReceiveTunnel \/ DownloadVerified \/ ReceiveDirect => Moves
    BY DEF ReceiveTunnel, DownloadVerified, ReceiveDirect, Starts, Moves
  <1>6. ASSUME NEW line \in Lines PROVE Watch(line) => Moves
    BY DEF Watch, Moves
  <1> QED
    BY <1>1, <1>2, <1>3, <1>4, <1>5, <1>6, Zenon DEF Next

-----------------------------------------------------------------------------
(* The binary.                                                             *)

BinInv ==
    /\ bin \in [data : {"none", "part", "whole"}, exec : BOOLEAN]
    /\ bin.exec /\ bin.data # "whole" => os = "windows"
    /\ pc = "Chmod" => bin.data = "whole"
    /\ commands \in Nat
    /\ pc # "Shell" \/ bin.data # "none" => commands > 0
    /\ pc = "Spawn" /\ bin.data # "whole" => commands > 1
    /\ OnlyVerifiedRuns

\* On unix the file becomes executable after it is whole, and a new download starts
\* it as a plain file; a command that finds a file was not the first.
LEMMA BinStep == BinInv /\ Next => BinInv'
  <1> SUFFICES ASSUME BinInv, Next PROVE BinInv'
    OBVIOUS
  <1> USE DEF BinInv, OnlyVerifiedRuns, machine, disk, session
  <1>1. CASE Ends \/ SaveWrites
    BY <1>1 DEF Ends, Fresh, SaveWrites
  <1>2. CASE Moves
    BY <1>2 DEF Moves
  <1>3. ASSUME NEW u \in Typed, NEW t \in {None, "file"}, RelaySet(u, t)
       PROVE  BinInv'
    BY <1>3 DEF RelaySet, Starts
  <1>4. CASE SaveTruncates
    BY <1>4 DEF SaveTruncates
  <1>5. CASE Doctor \/ Examine
    BY <1>5 DEF Doctor, Starts, Diagnose, Examine
  <1>6. ASSUME NEW f \in Flags, ReceiveRelay(f)
       PROVE  BinInv'
    BY <1>6 DEF ReceiveRelay, Starts
  <1>7. ASSUME NEW why \in {"WaitClosed", "TransportLost", "CodeMismatch"}, ReceiveRearms(why)
       PROVE  BinInv'
    BY <1>7 DEF ReceiveRearms, RearmResets
  <1>8. CASE RoomBusy \/ ReceiveFails \/ SendFails \/ P2pFails
    BY <1>8 DEF RoomBusy, Diagnose, ReceiveFails, SendFails, P2pFails
  <1>9. ASSUME NEW t \in Texts, NEW f \in Flags, NEW p2p \in BOOLEAN,
             NEW u \in TurnUrls, NEW c \in TurnCreds, DoSend(t, f, p2p, u, c)
       PROVE  BinInv'
    BY <1>9 DEF DoSend, Starts
  <1>10. CASE SendResolves
    BY <1>10 DEF SendResolves
  <1>11. CASE WriteCreates
    BY <1>11 DEF WriteCreates, Created
  <1>12. CASE WriteFills
    BY <1>12 DEF WriteFills
  <1>13. CASE SetPermissions
    BY <1>13 DEF SetPermissions
  <1>14. CASE Spawn
    BY <1>14 DEF Spawn
  <1> QED
    BY <1>1, <1>2, <1>3, <1>4, <1>5, <1>6, <1>7, <1>8, <1>9, <1>10, <1>11, <1>12, <1>13,
       <1>14, StepKinds, Zenon


-----------------------------------------------------------------------------
(* The token.  Only `relay set` changes the addresses the user has given,  *)
(* and it dials nothing.                                                   *)

TokenInv ==
    /\ relay.token # None => relay.url \in Named
    /\ TokenStaysHome
    /\ pc \in {"Shell", "Save", "Write"} => relay = NoRelay /\ dialed = NoRelay

\* resolve_relay only gives a token to a relay that the flag, the environment or
\* the configuration names, whatever host the code names.
LEMMA TokenOnlyToNamed ==
    ASSUME NEW f, NEW host, NEW e, NEW c,
           Resolvable(f, host, e, c), ResolveRelay(f, host, e, c).token # None
    PROVE  ResolveRelay(f, host, e, c).url
              \in {Normalize(u) : u \in {f, e.url, c.relay} \ {None}}
  <1> DEFINE own == Own(f, e, c)
  <1>1. Trusted(f, host, e, c)
    BY DEF ResolveRelay
  <1>2. own # None
    BY <1>1 DEF Resolvable, Trusted, Own, First
  <1>3. own \in {f, e.url, c.relay} \ {None}
    BY <1>2 DEF Own, First
  <1>4. ResolvedUrl(f, host, e, c) = Normalize(own)
    BY <1>1 DEF Trusted, ResolvedUrl
  <1> QED
    BY <1>3, <1>4, Zenon DEF ResolveRelay

\* A relay in use with a token is one the user has named.
LEMMA TokenStep == TokenInv /\ Next => TokenInv'
  <1> SUFFICES ASSUME TokenInv, Next PROVE TokenInv'
    OBVIOUS
  <1> USE DEF TokenInv, TokenStaysHome, Named, NoRelay, machine, disk, session
  <1>1. CASE Ends
    BY <1>1 DEF Ends, Fresh
  <1>2. CASE Moves
    BY <1>2 DEF Moves
  <1>3. ASSUME NEW u \in Typed, NEW t \in {None, "file"}, RelaySet(u, t)
       PROVE  TokenInv'
    BY <1>3 DEF RelaySet, Starts
  <1>4. CASE SaveTruncates
    BY <1>4 DEF SaveTruncates
  <1>5. CASE SaveWrites
    BY <1>5 DEF SaveWrites, Fresh
  <1>6. CASE Doctor
    <2>1. relay'.token # None
            => relay'.url \in {Normalize(u) : u \in {None, env.url, conf.relay} \ {None}}
      BY <1>6, TokenOnlyToNamed DEF Doctor, Diagnose
    <2>2. dialed = NoRelay /\ dialed' = dialed /\ pc' = "Diagnose"
      BY <1>6 DEF Doctor, Diagnose, Starts
    <2>3. env' = env /\ conf' = conf /\ flag' = flag
      BY <1>6 DEF Doctor
    <2> QED
      BY <2>1, <2>2, <2>3
  <1>7. CASE Examine
    BY <1>7 DEF Examine
  <1>8. ASSUME NEW f \in Flags, ReceiveRelay(f)
       PROVE  TokenInv'
    <2>1. relay'.token # None
            => relay'.url \in {Normalize(u) : u \in {f, env.url, conf.relay} \ {None}}
      BY <1>8, TokenOnlyToNamed DEF ReceiveRelay
    <2>2. dialed = NoRelay /\ dialed' = dialed /\ pc' = "Receive"
      BY <1>8 DEF ReceiveRelay, Starts
    <2>3. env' = env /\ conf' = conf /\ flag' = f
      BY <1>8 DEF ReceiveRelay
    <2> QED
      BY <2>1, <2>2, <2>3
  <1>9. ASSUME NEW why \in {"WaitClosed", "TransportLost", "CodeMismatch"}, ReceiveRearms(why)
       PROVE  TokenInv'
    BY <1>9 DEF ReceiveRearms, RearmResets
  <1>10. CASE RoomBusy
    BY <1>10 DEF RoomBusy, Diagnose
  <1>11. CASE ReceiveFails
    BY <1>11 DEF ReceiveFails, Diagnose
  <1>12. ASSUME NEW t \in Texts, NEW f \in Flags, NEW p2p \in BOOLEAN,
             NEW u \in TurnUrls, NEW c \in TurnCreds, DoSend(t, f, p2p, u, c)
       PROVE  TokenInv'
    BY <1>12 DEF DoSend, Starts
  <1>13. CASE SendResolves
    <2>1. relay'.token # None
            => relay'.url \in {Normalize(u) : u \in {flag, env.url, conf.relay} \ {None}}
      BY <1>13, TokenOnlyToNamed DEF SendResolves
    <2>2. dialed' = relay' /\ pc' = "Send"
      BY <1>13 DEF SendResolves
    <2>3. env' = env /\ conf' = conf /\ flag' = flag
      BY <1>13 DEF SendResolves
    <2> QED
      BY <2>1, <2>2, <2>3
  <1>14. CASE SendFails
    BY <1>14 DEF SendFails, Diagnose
  <1>15. CASE P2pFails
    BY <1>15 DEF P2pFails, Diagnose
  <1>16. CASE WriteCreates
    BY <1>16 DEF WriteCreates, Created
  <1>17. CASE WriteFills
    BY <1>17 DEF WriteFills
  <1>18. CASE SetPermissions
    BY <1>18 DEF SetPermissions
  <1>19. CASE Spawn
    BY <1>19 DEF Spawn
  <1> QED
    BY <1>1, <1>2, <1>3, <1>4, <1>5, <1>6, <1>7, <1>8, <1>9, <1>10, <1>11, <1>12, <1>13,
       <1>14, <1>15, <1>16, <1>17, <1>18, <1>19, StepKinds, Zenon


-----------------------------------------------------------------------------
(* The room of a sender.                                                   *)

RoomInv ==
    /\ peer \in PeerUrls
    /\ pc \in {"Prepare", "Send"} => text \in Texts
    /\ pc = "Send" => /\ relay = ResolveRelay(flag, RelayHost(text), env, conf)
                      /\ meeting = ParsedMeeting(text)

\* The code and the relay of a sender stay what they were when it resolved them.
LEMMA RoomStep == RoomInv /\ Next => RoomInv'
  <1> SUFFICES ASSUME RoomInv, Next PROVE RoomInv'
    OBVIOUS
  <1> USE DEF RoomInv, Texts, machine, disk, session
  <1>1. CASE Ends
    BY <1>1 DEF Ends, Fresh
  <1>2. CASE Moves
    BY <1>2 DEF Moves
  <1>3. ASSUME NEW u \in Typed, NEW t \in {None, "file"}, RelaySet(u, t)
       PROVE  RoomInv'
    BY <1>3 DEF RelaySet, Starts
  <1>4. CASE SaveTruncates
    BY <1>4 DEF SaveTruncates
  <1>5. CASE SaveWrites
    BY <1>5 DEF SaveWrites, Fresh
  <1>6. CASE Doctor
    BY <1>6 DEF Doctor, Starts, Diagnose
  <1>7. CASE Examine
    BY <1>7 DEF Examine
  <1>8. ASSUME NEW f \in Flags, ReceiveRelay(f)
       PROVE  RoomInv'
    BY <1>8 DEF ReceiveRelay, Starts
  <1>9. ASSUME NEW why \in {"WaitClosed", "TransportLost", "CodeMismatch"}, ReceiveRearms(why)
       PROVE  RoomInv'
    BY <1>9 DEF ReceiveRearms, RearmResets
  <1>10. CASE RoomBusy
    BY <1>10 DEF RoomBusy, Diagnose
  <1>11. CASE ReceiveFails
    BY <1>11 DEF ReceiveFails, Diagnose
  <1>12. ASSUME NEW t \in Texts, NEW f \in Flags, NEW p2p \in BOOLEAN,
             NEW u \in TurnUrls, NEW c \in TurnCreds, DoSend(t, f, p2p, u, c)
       PROVE  RoomInv'
    BY <1>12 DEF DoSend, Starts
  <1>13. CASE SendResolves
    BY <1>13 DEF SendResolves
  <1>14. CASE SendFails
    BY <1>14 DEF SendFails, Diagnose
  <1>15. CASE P2pFails
    BY <1>15 DEF P2pFails, Diagnose
  <1>16. CASE WriteCreates
    BY <1>16 DEF WriteCreates, Created
  <1>17. CASE WriteFills
    BY <1>17 DEF WriteFills
  <1>18. CASE SetPermissions
    BY <1>18 DEF SetPermissions
  <1>19. CASE Spawn
    BY <1>19 DEF Spawn
  <1> QED
    BY <1>1, <1>2, <1>3, <1>4, <1>5, <1>6, <1>7, <1>8, <1>9, <1>10, <1>11, <1>12, <1>13,
       <1>14, <1>15, <1>16, <1>17, <1>18, <1>19, StepKinds, Zenon


-----------------------------------------------------------------------------
(* The patience of a receiver.                                             *)

\* Seconds slept before the i-th refusal after the first.
Slept == [i \in 0..MaxBusy |-> IF i <= 4 THEN Doubled[i] - 2 ELSE 30 + 20 * (i - 4)]

BusyInv ==
    /\ pc = "Receive" => /\ busy_retries \in 0..MaxBusy
                         /\ stretch = [busy |-> busy_retries, waited |-> Slept[busy_retries]]
    /\ pc \notin {"Receive", "Diagnose"} => busy_retries = 0 /\ stretch = NoStretch
    /\ BusyPatience

\* The delays 2, 4, 8, 16, 20, 20, 20, 20 add up to 110 seconds.
LEMMA DelaysAddUp ==
    /\ Slept[0] = 0 /\ Slept[MaxBusy] = 110
    /\ \A i \in 0..MaxBusy - 1 : Slept[i + 1] = Slept[i] + Delay(i)
    /\ \A i \in 0..MaxBusy : Slept[i] \in Nat
  <1>1. /\ Doubled[0] = 2 /\ Doubled[1] = 4 /\ Doubled[2] = 8 /\ Doubled[3] = 16
        /\ Doubled[4] = 32 /\ Doubled[5] = 64 /\ Doubled[6] = 128 /\ Doubled[7] = 256
    BY DEF Doubled, MaxBusy
  <1>2. /\ Slept[0] = 0 /\ Slept[1] = 2 /\ Slept[2] = 6 /\ Slept[3] = 14 /\ Slept[4] = 30
        /\ Slept[5] = 50 /\ Slept[6] = 70 /\ Slept[7] = 90 /\ Slept[8] = 110
    BY <1>1 DEF Slept, MaxBusy
  <1>3. /\ Delay(0) = 2 /\ Delay(1) = 4 /\ Delay(2) = 8 /\ Delay(3) = 16
        /\ Delay(4) = 20 /\ Delay(5) = 20 /\ Delay(6) = 20 /\ Delay(7) = 20
    BY <1>1 DEF Delay
  <1>4. ASSUME NEW i \in 0..MaxBusy - 1 PROVE Slept[i + 1] = Slept[i] + Delay(i)
    <2>1. i \in {0, 1, 2, 3, 4, 5, 6, 7}
      BY DEF MaxBusy
    <2> QED
      BY <2>1, <1>2, <1>3
  <1>5. ASSUME NEW i \in 0..MaxBusy PROVE Slept[i] \in Nat
    <2>1. i \in {0, 1, 2, 3, 4, 5, 6, 7, 8}
      BY DEF MaxBusy
    <2> QED
      BY <2>1, <1>2
  <1> QED
    BY <1>2, <1>4, <1>5 DEF MaxBusy

\* While it waits, a receiver has counted every refusal of the stretch.
LEMMA BusyStep == BusyInv /\ Next => BusyInv'
  <1> SUFFICES ASSUME BusyInv, Next PROVE BusyInv'
    OBVIOUS
  <1> USE DEF BusyInv, BusyPatience, NoStretch, MaxBusy, machine, disk, session
  <1>1. CASE Ends
    BY <1>1 DEF Ends, Fresh
  <1>2. CASE Moves
    BY <1>2 DEF Moves
  <1>3. ASSUME NEW u \in Typed, NEW t \in {None, "file"}, RelaySet(u, t)
       PROVE  BusyInv'
    BY <1>3 DEF RelaySet, Starts
  <1>4. CASE SaveTruncates
    BY <1>4 DEF SaveTruncates
  <1>5. CASE SaveWrites
    BY <1>5 DEF SaveWrites, Fresh
  <1>6. CASE Doctor
    BY <1>6 DEF Doctor, Starts, Diagnose
  <1>7. CASE Examine
    BY <1>7 DEF Examine
  <1>8. ASSUME NEW f \in Flags, ReceiveRelay(f)
       PROVE  BusyInv'
    BY <1>8, DelaysAddUp DEF ReceiveRelay, Starts
  <1>9. ASSUME NEW why \in {"WaitClosed", "TransportLost", "CodeMismatch"}, ReceiveRearms(why)
       PROVE  BusyInv'
    BY <1>9, DelaysAddUp DEF ReceiveRearms, RearmResets
  <1>10. CASE RoomBusy
    <2>1. CASE busy_retries < MaxBusy
      BY <1>10, <2>1, DelaysAddUp DEF RoomBusy
    <2>2. CASE busy_retries >= MaxBusy
      BY <1>10, <2>2, DelaysAddUp DEF RoomBusy, Diagnose
    <2> QED
      BY <1>10, <2>1, <2>2 DEF RoomBusy
  <1>11. CASE ReceiveFails
    BY <1>11 DEF ReceiveFails, Diagnose
  <1>12. ASSUME NEW t \in Texts, NEW f \in Flags, NEW p2p \in BOOLEAN,
             NEW u \in TurnUrls, NEW c \in TurnCreds, DoSend(t, f, p2p, u, c)
       PROVE  BusyInv'
    BY <1>12 DEF DoSend, Starts
  <1>13. CASE SendResolves
    BY <1>13 DEF SendResolves
  <1>14. CASE SendFails
    BY <1>14 DEF SendFails, Diagnose
  <1>15. CASE P2pFails
    BY <1>15 DEF P2pFails, Diagnose
  <1>16. CASE WriteCreates
    BY <1>16 DEF WriteCreates, Created
  <1>17. CASE WriteFills
    BY <1>17 DEF WriteFills
  <1>18. CASE SetPermissions
    BY <1>18 DEF SetPermissions
  <1>19. CASE Spawn
    BY <1>19 DEF Spawn
  <1> QED
    BY <1>1, <1>2, <1>3, <1>4, <1>5, <1>6, <1>7, <1>8, <1>9, <1>10, <1>11, <1>12, <1>13,
       <1>14, <1>15, <1>16, <1>17, <1>18, <1>19, StepKinds, Zenon


-----------------------------------------------------------------------------
(* The probe of the NAT.  Server s has answered at most once, and only     *)
(* while it was asked; nothing answers through a blocked network.          *)

ProbeInv ==
    /\ nat \in Nats /\ query \in 0..3 /\ wire \in [Servers -> Nat]
    /\ \/ mapped = <<>>
       \/ \E s \in Servers : s < query /\ mapped = <<Mapping(s)>>
       \/ query = 3 /\ mapped = <<Mapping(1), Mapping(2)>>
    /\ nat = "blocked" => mapped = <<>> /\ \A s \in Servers : wire[s] = 0
    /\ verdict # "none" => query = 3
    /\ HonestDoctor

\* What the probe has seen depends on nothing but its own variables.
LEMMA ProbeRestarts ==
    ASSUME Probe
    PROVE  ProbeInv'
  BY DEF Probe, ProbeInv, HonestDoctor, NoWire, Servers

\* The socket is fresh, or the next server is asked.
LEMMA NextQueryWire ==
    ASSUME ProbeInv, query \in Servers, NEW left \in [Servers -> Nat], NextQuery(left),
           \A s \in Servers : left[s] <= wire[s]
    PROVE  /\ query' = query + 1 /\ query' \in 0..3
           /\ wire' \in [Servers -> Nat]
           /\ nat = "blocked" => \A s \in Servers : wire'[s] = 0
  BY DEF ProbeInv, NextQuery, NoWire, Servers

\* A second answer makes a pair.
LEMMA AppendToOne ==
    ASSUME NEW a, NEW b
    PROVE  Append(<<a>>, b) = <<a, b>>
  <1> DEFINE s == Append(<<a>>, b)
             t == <<a, b>>
  <1>1. <<a>> \in Seq({a, b}) /\ t \in Seq({a, b})
    OBVIOUS
  <1>2. Len(s) = 2 /\ Len(t) = 2
    BY <1>1
  <1>3. s[1] = a /\ s[2] = b /\ t[1] = a /\ t[2] = b
    BY <1>1
  <1>4. s \in Seq({a, b})
    BY <1>1
  <1> HIDE DEF s, t
  <1>5. \A i \in 1..Len(s) : s[i] = t[i]
    BY <1>2, <1>3
  <1>6. s = t
    BY <1>1, <1>2, <1>4, <1>5, SeqEqual
  <1> QED
    BY <1>6 DEF s, t

\* A server adds at most its own answer, and only while it is asked.
LEMMA ArrivesStep ==
    ASSUME ProbeInv, NEW s \in Servers, Arrives(s)
    PROVE  ProbeInv'
  <1> DEFINE left == [wire EXCEPT ![s] = @ - 1]
  <1>1. left \in [Servers -> Nat] /\ \A r \in Servers : left[r] <= wire[r]
    BY DEF Arrives, ProbeInv, Servers
  <1>2. nat' = nat /\ verdict' = verdict /\ healthy' = healthy /\ query \in Servers /\ nat # "blocked"
    BY DEF Arrives, ProbeInv
  <1>3. verdict = "none"
    BY <1>2 DEF ProbeInv, Servers
  <1>4. CASE IsOurs(s)
    <2>1. mapped' = Append(mapped, Mapping(s)) /\ NextQuery(left) /\ s = query
      BY <1>4 DEF Arrives, IsOurs
    <2>2. query' = query + 1 /\ query' \in 0..3 /\ wire' \in [Servers -> Nat]
      BY <2>1, <1>1, <1>2, NextQueryWire
    <2>3. \A r \in Servers : Mapping(r)' = Mapping(r)
      BY <1>2 DEF Mapping
    <2>4. CASE query = 1
      <3>1. mapped = <<>>
        BY <2>4 DEF ProbeInv, Servers
      <3>2. mapped' = <<Mapping(1)>>
        BY <3>1, <2>1, <2>4
      <3> QED
        BY <3>2, <2>2, <2>3, <2>4, <1>2, <1>3 DEF ProbeInv, HonestDoctor, Servers
    <2>5. CASE query = 2
      <3>1. mapped = <<>> \/ mapped = <<Mapping(1)>>
        BY <2>5 DEF ProbeInv, Servers
      <3>2. mapped' = <<Mapping(2)>> \/ mapped' = <<Mapping(1), Mapping(2)>>
        <4>1. CASE mapped = <<>>
          BY <4>1, <2>1, <2>5
        <4>2. CASE mapped = <<Mapping(1)>>
          <5>1. Append(<<Mapping(1)>>, Mapping(2)) = <<Mapping(1), Mapping(2)>>
            BY AppendToOne
          <5> QED
            BY <5>1, <4>2, <2>1, <2>5
        <4> QED
          BY <3>1, <4>1, <4>2
      <3> QED
        BY <3>2, <2>2, <2>3, <2>5, <1>2, <1>3 DEF ProbeInv, HonestDoctor, Servers
    <2> QED
      BY <2>4, <2>5, <1>2 DEF Servers
  <1>5. CASE ~IsOurs(s)
    <2>1. wire' = left /\ mapped' = mapped /\ query' = query
      BY <1>5 DEF Arrives
    <2>2. \A r \in Servers : Mapping(r)' = Mapping(r)
      BY <1>2 DEF Mapping
    <2> QED
      BY <2>1, <2>2, <1>1, <1>2, <1>3 DEF ProbeInv, HonestDoctor, Servers
  <1> QED
    BY <1>4, <1>5

\* The steps of a probe without an answer.
LEMMA SilentStep ==
    ASSUME ProbeInv, Ask \/ CannotAsk \/ Expires
    PROVE  ProbeInv'
  <1>1. /\ nat' = nat /\ verdict' = verdict /\ healthy' = healthy /\ mapped' = mapped
        /\ query \in Servers
    BY DEF Ask, CannotAsk, Expires
  <1>2. verdict = "none" /\ \A r \in Servers : Mapping(r)' = Mapping(r)
    BY <1>1 DEF ProbeInv, Servers, Mapping
  <1>3. CASE Ask
    <2>1. PICK k \in 0..MaxCopies : (nat = "blocked" => k = 0) /\ wire' = [wire EXCEPT ![query] = k]
      BY <1>3 DEF Ask
    <2>2. k \in Nat
      BY DiagnosisAssumption
    <2>3. query' = query
      BY <1>3 DEF Ask
    <2> QED
      BY <2>1, <2>2, <2>3, <1>1, <1>2 DEF ProbeInv, HonestDoctor, Servers
  <1>4. CASE CannotAsk \/ Expires
    <2>1. NextQuery(wire) /\ wire \in [Servers -> Nat] /\ \A s \in Servers : wire[s] <= wire[s]
      BY <1>4 DEF CannotAsk, Expires, ProbeInv
    <2>2. /\ query' = query + 1 /\ query' \in 0..3 /\ wire' \in [Servers -> Nat]
          /\ nat = "blocked" => \A s \in Servers : wire'[s] = 0
      BY <2>1, <1>1, NextQueryWire
    <2> QED
      BY <2>2, <1>1, <1>2 DEF ProbeInv, HonestDoctor, Servers
  <1> QED
    BY <1>3, <1>4

\* classify_mapping, on what a probe can have seen: two answers are told apart
\* exactly when the NAT maps by destination.
LEMMA NatMappingRight ==
    ASSUME ProbeInv
    PROVE  /\ NatMapping = "Symmetric" => nat \in {"ports", "addresses"}
           /\ NatMapping # "Symmetric" /\ Len(mapped) = 2 => nat = "cone"
  <1>1. CASE mapped = <<>>
    BY <1>1 DEF NatMapping
  <1>2. CASE \E s \in Servers : mapped = <<Mapping(s)>>
    BY <1>2 DEF NatMapping
  <1>3. CASE mapped = <<Mapping(1), Mapping(2)>>
    <2>1. mapped # <<>> /\ Len(mapped) = 2 /\ DOMAIN mapped = {1, 2}
      BY <1>3
    <2>2. nat # "blocked"
      BY <2>1 DEF ProbeInv
    <2>3. NatMapping = "Symmetric" <=> Mapping(1) # Mapping(2)
      BY <1>3, <2>1 DEF NatMapping
    <2>4. Mapping(1) # Mapping(2) <=> nat \in {"ports", "addresses"}
      BY DEF Mapping
    <2> QED
      BY <2>1, <2>2, <2>3, <2>4 DEF ProbeInv, Nats
  <1> QED
    BY <1>1, <1>2, <1>3 DEF ProbeInv

\* The verdict over the checks: "no blockers" leaves no layer broken, and
\* "symmetric" is said of the NAT that was seen.
LEMMA ReportStep ==
    ASSUME ProbeInv, NEW hasRelay \in BOOLEAN, Report(hasRelay)
    PROVE  ProbeInv'
  <1>1. /\ nat' = nat /\ query' = query /\ wire' = wire /\ mapped' = mapped /\ query = 3
    BY DEF Report
  <1>2. PICK ips \in Lookups, tls \in Tls, health \in Health, rl \in Probes \cup {"none"} :
           /\ verdict' = Verdict(ips, tls, health, rl)
           /\ healthy' = Healthy(ips, tls, health, rl)
    BY DEF Report
  <1>3. ~DnsFails(ips) => ips # <<>> /\ \A i \in DOMAIN ips : ips[i] \in {"public", "literal"}
    BY DEF DnsFails, Lookups
  <1>4. ~TlsFails(tls) => tls \in {"public", "inspected"}
    BY DEF Tls, TlsFails
  <1>5. verdict' = "no blockers" => healthy' /\ NatMapping # "Symmetric"
    BY <1>2, <1>3, <1>4 DEF Verdict, Healthy, Health
  <1>6. verdict' = "symmetric" => NatMapping = "Symmetric"
    BY <1>2 DEF Verdict
  <1>7. HonestDoctor'
    BY <1>1, <1>5, <1>6, NatMappingRight DEF HonestDoctor
  <1>8. \A r \in Servers : Mapping(r)' = Mapping(r)
    BY <1>1 DEF Mapping
  <1> QED
    BY <1>1, <1>7, <1>8 DEF ProbeInv, Servers

\* A process that is new has seen nothing.
LEMMA FreshProbe ==
    ASSUME Fresh
    PROVE  ProbeInv'
  BY DEF Fresh, ProbeInv, HonestDoctor, NoWire, Servers, Nats

\* Commands that do not diagnose leave the probe alone.
LEMMA IdleProbe ==
    ASSUME ProbeInv, UNCHANGED diag
    PROVE  ProbeInv'
  BY DEF ProbeInv, HonestDoctor, diag, Mapping

\* A command probes afresh, goes on with its probe, or leaves it.
LEMMA ProbeStep == ProbeInv /\ Next => ProbeInv'
  <1> SUFFICES ASSUME ProbeInv, Next PROVE ProbeInv'
    OBVIOUS
  <1>1. CASE Ends
    BY <1>1, FreshProbe DEF Ends
  <1>2. CASE Moves
    BY <1>2, IdleProbe DEF Moves
  <1>3. ASSUME NEW u \in Typed, NEW t \in {None, "file"}, RelaySet(u, t)
       PROVE  ProbeInv'
    BY <1>3, IdleProbe DEF RelaySet
  <1>4. CASE SaveTruncates
    BY <1>4, IdleProbe DEF SaveTruncates
  <1>5. CASE SaveWrites
    BY <1>5, FreshProbe DEF SaveWrites
  <1>6. CASE Doctor
    BY <1>6, ProbeRestarts DEF Doctor, Diagnose
  <1>7. CASE Examine
    BY <1>7, SilentStep, ReportStep, ArrivesStep DEF Examine, DiagnosisStep
  <1>8. ASSUME NEW f \in Flags, ReceiveRelay(f)
       PROVE  ProbeInv'
    BY <1>8, IdleProbe DEF ReceiveRelay
  <1>9. ASSUME NEW why \in {"WaitClosed", "TransportLost", "CodeMismatch"}, ReceiveRearms(why)
       PROVE  ProbeInv'
    BY <1>9, IdleProbe DEF ReceiveRearms
  <1>10. CASE RoomBusy
    BY <1>10, ProbeRestarts, IdleProbe DEF RoomBusy, Diagnose
  <1>11. CASE ReceiveFails
    BY <1>11, ProbeRestarts DEF ReceiveFails, Diagnose
  <1>12. ASSUME NEW t \in Texts, NEW f \in Flags, NEW p2p \in BOOLEAN,
             NEW u \in TurnUrls, NEW c \in TurnCreds, DoSend(t, f, p2p, u, c)
       PROVE  ProbeInv'
    BY <1>12, IdleProbe DEF DoSend
  <1>13. CASE SendResolves
    BY <1>13, IdleProbe DEF SendResolves
  <1>14. CASE SendFails
    BY <1>14, ProbeRestarts DEF SendFails, Diagnose
  <1>15. CASE P2pFails
    BY <1>15, ProbeRestarts DEF P2pFails, Diagnose
  <1>16. CASE WriteCreates
    BY <1>16, IdleProbe DEF WriteCreates
  <1>17. CASE WriteFills
    BY <1>17, IdleProbe DEF WriteFills
  <1>18. CASE SetPermissions
    BY <1>18, IdleProbe DEF SetPermissions
  <1>19. CASE Spawn
    BY <1>19, IdleProbe DEF Spawn
  <1> QED
    BY <1>1, <1>2, <1>3, <1>4, <1>5, <1>6, <1>7, <1>8, <1>9, <1>10, <1>11, <1>12, <1>13,
       <1>14, <1>15, <1>16, <1>17, <1>18, <1>19, StepKinds, Zenon


-----------------------------------------------------------------------------
(* The theorems.                                                           *)

\* Wherever the commands that installed it were killed: on unix only a complete
\* binary with the pinned checksum is ever executed, and on Windows an incomplete
\* one by no command but one that found it there.
THEOREM CommandsOnlyVerifiedRuns == Spec => []OnlyVerifiedRuns
  <1>1. Init => BinInv
    BY DEF Init, BinInv, OnlyVerifiedRuns, NoBin
  <1>2. BinInv /\ [Next]_vars => BinInv'
    <2>1. CASE UNCHANGED vars
      BY <2>1 DEF BinInv, OnlyVerifiedRuns, vars, machine, disk, session
    <2> QED
      BY <2>1, BinStep
  <1>3. BinInv => OnlyVerifiedRuns
    BY DEF BinInv
  <1> QED
    BY <1>1, <1>2, <1>3, PTL DEF Spec

\* For every address and every code: no command shows the token to a relay that
\* the user of this machine has not named.
THEOREM CommandsTokenStaysHome == Spec => []TokenStaysHome
  <1>1. Init => TokenInv
    BY DEF Init, TokenInv, TokenStaysHome, NoRelay
  <1>2. TokenInv /\ [Next]_vars => TokenInv'
    <2>1. CASE UNCHANGED vars
      BY <2>1 DEF TokenInv, TokenStaysHome, Named, vars, machine, disk, session
    <2> QED
      BY <2>1, TokenStep
  <1>3. TokenInv => TokenStaysHome
    BY DEF TokenInv
  <1> QED
    BY <1>1, <1>2, <1>3, PTL DEF Spec

\* For every receiver elsewhere whose relay a code can spell, the long code leads
\* a sender to its relay, its room and its secret, with the token kept for it.
THEOREM CommandsSameRoom == Spec => []SameRoom
  <1>1. Init => RoomInv
    BY DEF Init, RoomInv
  <1>2. RoomInv /\ [Next]_vars => RoomInv'
    <2>1. CASE UNCHANGED vars
      BY <2>1 DEF RoomInv, Texts, vars, machine, disk, session
    <2> QED
      BY <2>1, RoomStep
  <1>3. RoomInv => SameRoom
    <2> SUFFICES ASSUME RoomInv, pc = "Send", flag = None, text.form = "url",
                        peer.scheme = "wss", ~peer.path
                 PROVE  /\ relay.url = peer
                        /\ meeting = Meeting(TheirCode)
                        /\ LET own == First(env.url, conf.relay) IN
                           own # None => (Normalize(own) = peer
                                          => relay.token = First(env.token, conf.token))
      BY DEF SameRoom
    <2>1. text = Long(TheirCode, peer)
      BY DEF RoomInv, Texts, Short, TunnelText, NoCode
    <2>2. RelayHost(text) = peer.host /\ ParsedMeeting(text) = Meeting(TheirCode)
      BY <2>1 DEF RelayHost, ParsedMeeting, Long
    <2>3. peer = Url("wss", peer.host, FALSE) /\ peer.host # None
      BY PeerAssumption DEF RoomInv
    <2>4. ResolvedUrl(flag, peer.host, env, conf) = peer
      BY <2>3 DEF ResolvedUrl
    <2>5. Own(flag, env, conf) = First(env.url, conf.relay)
      BY DEF Own, First
    <2> QED
      BY <2>2, <2>4, <2>5 DEF RoomInv, ResolveRelay, Trusted
  <1> QED
    BY <1>1, <1>2, <1>3, PTL DEF Spec

\* A receiver only gives up on a busy room after nine refusals in a row and 110
\* seconds of sleep between them, whatever it has met before.
THEOREM CommandsBusyPatience == Spec => []BusyPatience
  <1>1. Init => BusyInv
    BY DEF Init, BusyInv, BusyPatience, NoStretch
  <1>2. BusyInv /\ [Next]_vars => BusyInv'
    <2>1. CASE UNCHANGED vars
      BY <2>1 DEF BusyInv, BusyPatience, vars, machine, disk, session
    <2> QED
      BY <2>1, BusyStep
  <1>3. BusyInv => BusyPatience
    BY DEF BusyInv
  <1> QED
    BY <1>1, <1>2, <1>3, PTL DEF Spec

\* With any number of late and duplicated answers on the shared socket, the doctor
\* gives no false all-clear and does not blame a friendly NAT.
THEOREM CommandsHonestDoctor == Spec => []HonestDoctor
  <1>1. Init => ProbeInv
    BY DEF Init, DiagnosisInit, ProbeInv, HonestDoctor, NoWire, Servers, Nats
  <1>2. ProbeInv /\ [Next]_vars => ProbeInv'
    <2>1. CASE UNCHANGED vars
      BY <2>1, IdleProbe DEF vars
    <2> QED
      BY <2>1, ProbeStep
  <1>3. ProbeInv => HonestDoctor
    BY DEF ProbeInv
  <1> QED
    BY <1>1, <1>2, <1>3, PTL DEF Spec
=============================================================================
