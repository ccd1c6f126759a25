---------------------------- MODULE RelayConfig ----------------------------
(***************************************************************************)
(* Where to meet: relay addresses (transport/relay.rs), codes (rvcode.rs)  *)
(* and the choice of a relay and its token (config.rs).                    *)
(*                                                                         *)
(* A relay address is its scheme, its host and whether it has a path; "no" *)
(* is a text without a scheme.  The text of a code is what it spells.      *)
(***************************************************************************)
EXTENDS Naturals

CONSTANTS None      \* an Option without a value

First(a, b) == IF a # None THEN a ELSE b

-----------------------------------------------------------------------------
(* Relay addresses.                                                        *)

Url(scheme, host, path) == [scheme |-> scheme, host |-> host, path |-> path]

\* normalize_relay_url: https and http mean wss and ws; a text without one of
\* the four schemes is refused.
Refused(u) == u.scheme = "no"
Normalize(u) ==
    [u EXCEPT !.scheme = CASE @ = "https" -> "wss" [] @ = "http" -> "ws" [] OTHER -> @]

-----------------------------------------------------------------------------
(* Codes.                                                                  *)

\* A code is its channel and its words: the channel alone makes the topic, the
\* whole is the secret of the key exchange.
Meeting(e) == [topic |-> e.channel, secret |-> e]

\* Both spellings of a code that `b2p receive` prints: the short one, and the
\* long one, which names the relay by what follows its scheme.
Short(e) == [form |-> "human", e |-> e]
Long(e, url) == [form |-> "url", host |-> url.host, path |-> url.path, meeting |-> Meeting(e)]

\* A code of the tunnel, and a text that is no code.
TunnelText == [form |-> "tunnel"]
NoCode == [form |-> "garbage"]

\* is_rendezvous_code, rvcode::parse and Code::parse.  The host ends at the
\* first slash, and what follows must be a topic: a path is no base58.
IsRendezvous(text) == text.form \in {"human", "url"}
Parses(text) ==
    \/ text.form \in {"human", "tunnel"}
    \/ text.form = "url" /\ ~text.path
ParsedMeeting(text) == IF text.form = "human" THEN Meeting(text.e) ELSE text.meeting
RelayHost(text) == IF text.form = "human" THEN None ELSE text.host

-----------------------------------------------------------------------------
(* resolve_relay.  env is [url, token], file [relay, token].               *)

\* The user's own relay, if any.
Own(flag, env, file) == First(flag, First(env.url, file.relay))

\* An own relay that does not parse is an error, even when it is not used.
Resolvable(flag, host, env, file) ==
    LET own == Own(flag, env, file) IN
    /\ own # None \/ host # None
    /\ own # None => ~Refused(own)

\* Wrong variants: the environment goes before the code; the token goes along
\* with every code.
EnvFirstUrl(flag, host, env, file) ==
    LET own == Own(flag, env, file) IN
    IF flag = None /\ env.url = None /\ host # None THEN Url("wss", host, FALSE) ELSE Normalize(own)
TrustedAlways(flag, host, env, file) == TRUE

\* The flag, then the code's host, then the user's own relay.
ResolvedUrl(flag, host, env, file) ==
    IF flag = None /\ host # None THEN Url("wss", host, FALSE)
    ELSE Normalize(Own(flag, env, file))
\* The user named this relay: a code's host has to match the own one.
Trusted(flag, host, env, file) ==
    LET own == Own(flag, env, file) IN
    \/ flag # None
    \/ host = None
    \/ own # None /\ ResolvedUrl(flag, host, env, file) = Normalize(own)

ResolveRelay(flag, host, env, file) ==
    [url |-> ResolvedUrl(flag, host, env, file),
     token |-> IF Trusted(flag, host, env, file) THEN First(env.token, file.token) ELSE None]
=============================================================================
