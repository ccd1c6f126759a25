----------------------------- MODULE Diagnosis -----------------------------
(***************************************************************************)
(* b2p doctor: the STUN probe of the NAT from one shared socket (stun.rs), *)
(* the other checks and the verdict over all of them (doctor.rs).          *)
(*                                                                         *)
(* UDP loses, delays and duplicates datagrams.  A transaction id is the    *)
(* number of the server it was made for: every query makes a fresh one.    *)
(***************************************************************************)
EXTENDS Naturals, Sequences

CONSTANTS
    MaxCopies       \* bound: copies of one answer the network delivers

ASSUME DiagnosisAssumption == MaxCopies \in Nat

Servers == 1..2     \* STUN_SERVERS
Nats == {"cone", "ports", "addresses", "blocked"}

VARIABLES
    nat,        \* how this network maps a socket
    query,      \* the server being asked; 0: no probe is running
    asked,      \* has its request been sent?
    wire,       \* answers under way to the socket, by transaction
    mapped,     \* the mapped addresses seen
    verdict,    \* the verdict of the report
    healthy     \* history: no layer was broken when it was made

diag == <<nat, query, asked, wire, mapped, verdict, healthy>>

NoWire == [s \in Servers |-> 0]

DiagnosisInit ==
    /\ nat = "cone" /\ query = 0 /\ asked = FALSE /\ wire = NoWire /\ mapped = <<>>
    /\ verdict = "none" /\ healthy = TRUE

-----------------------------------------------------------------------------
(* nat_mapping and query_mapped.                                           *)

\* What server s sees: a symmetric NAT uses another port, or another address,
\* for each.
Mapping(s) ==
    [ip |-> IF nat = "addresses" THEN s ELSE 0, port |-> IF nat = "ports" THEN s ELSE 0]

Probe ==
    /\ \E k \in Nats : nat' = k
    /\ query' = 1 /\ asked' = FALSE /\ wire' = NoWire /\ mapped' = <<>>
    /\ verdict' = "none" /\ healthy' = TRUE

\* The next server; the socket is dropped after the last.
NextQuery(left) ==
    /\ query' = query + 1 /\ asked' = FALSE
    /\ wire' = IF query = 2 THEN NoWire ELSE left

\* The name resolves to an IPv4 address and the request is sent.
Ask ==
    /\ query \in Servers /\ ~asked
    /\ asked' = TRUE
    /\ \E k \in 0..MaxCopies :
          /\ nat = "blocked" => k = 0
          /\ wire' = [wire EXCEPT ![query] = k]
    /\ UNCHANGED <<nat, query, mapped, verdict, healthy>>
\* It does not, or the send fails.
CannotAsk ==
    /\ query \in Servers /\ ~asked
    /\ NextQuery(wire)
    /\ UNCHANGED <<nat, mapped, verdict, healthy>>

\* Wrong variant: any STUN answer will do.
AnyTransaction(s) == TRUE
\* parse_xor_mapped_address: the datagram answers the transaction of this query.
IsOurs(s) == s = query

Arrives(s) ==
    /\ query \in Servers /\ asked /\ wire[s] > 0
    /\ LET left == [wire EXCEPT ![s] = @ - 1] IN
       \/ /\ IsOurs(s)
          /\ mapped' = Append(mapped, Mapping(s))
          /\ NextQuery(left)
       \/ /\ ~IsOurs(s)
          /\ wire' = left
          /\ UNCHANGED <<mapped, query, asked>>
    /\ UNCHANGED <<nat, verdict, healthy>>

\* The three seconds are over, possibly just before the answer.
Expires ==
    /\ query \in Servers /\ asked
    /\ NextQuery(wire)
    /\ UNCHANGED <<nat, mapped, verdict, healthy>>

\* classify_mapping
NatMapping ==
    IF mapped = <<>> THEN "NoResponse"
    ELSE IF Len(mapped) = 1 THEN "OneResponse"
    ELSE IF \A i \in DOMAIN mapped : mapped[i] = mapped[1] THEN "EndpointIndependent"
    ELSE "Symmetric"

-----------------------------------------------------------------------------
(* The other checks.                                                       *)

\* What a resolver can say: addresses, the block page of a filter, a sinkhole.
Lookups == {<<"public">>, <<"public", "blockpage">>, <<"sinkhole">>, <<>>, <<"literal">>}
\* classify_ips and dns_check
DnsFails(ips) == ips = <<>> \/ \E i \in DOMAIN ips : ips[i] \in {"blockpage", "sinkhole"}
\* tls_check: an inspecting proxy the OS trusts is a warning only.
Tls == {"public", "inspected", "untrusted", "unreachable"}
TlsFails(t) == t \in {"untrusted", "unreachable"}
\* rendezvous_check: an unexpected answer is a warning only.
Health == {"ok", "odd", "down"}
\* relay_check, when there is a relay.
Probes == {"ok", "refused", "silent", "closed"}

\* verdict: the first layer that is broken.
Verdict(ips, tls, health, relay) ==
    IF DnsFails(ips) THEN "dns"
    ELSE IF TlsFails(tls) THEN "tls"
    ELSE IF relay \in Probes \ {"ok"} THEN "relay"
    ELSE IF health = "down" THEN "rendezvous"
    ELSE IF NatMapping = "Symmetric" THEN "symmetric"
    ELSE "no blockers"

\* What the verdict is about: no layer is in fact broken.
Healthy(ips, tls, health, relay) ==
    /\ ips # <<>> /\ \A i \in DOMAIN ips : ips[i] \in {"public", "literal"}
    /\ tls \in {"public", "inspected"} /\ relay \in {"ok", "none"} /\ health \in {"ok", "odd"}

\* The checks do not touch each other: run joins them and judges.
Report(hasRelay) ==
    /\ query = 3 /\ verdict = "none"
    /\ \E ips \in Lookups, tls \in Tls, health \in Health,
          relay \in IF hasRelay THEN Probes ELSE {"none"} :
          /\ verdict' = Verdict(ips, tls, health, relay)
          /\ healthy' = Healthy(ips, tls, health, relay)
    /\ UNCHANGED <<nat, query, asked, wire, mapped>>

DiagnosisStep(hasRelay) ==
    Ask \/ CannotAsk \/ Expires \/ Report(hasRelay) \/ \E s \in Servers : Arrives(s)

-----------------------------------------------------------------------------
\* The doctor gives no false all-clear, and does not blame the NAT for nothing:
\* when both STUN servers answered, a NAT that maps by destination is never
\* called friendly and a friendly one never symmetric, whatever is late or
\* duplicated on the shared socket; and "no blockers" means no broken layer.
HonestDoctor ==
    /\ verdict = "no blockers" => healthy /\ (Len(mapped) = 2 => nat = "cone")
    /\ verdict = "symmetric" => nat \in {"ports", "addresses"}
=============================================================================
