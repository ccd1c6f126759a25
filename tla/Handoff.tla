------------------------------ MODULE Handoff ------------------------------
(***************************************************************************)
(* What a transfer promises, without its protocol: at the destination      *)
(* there is nothing, or one whole payload (or, while a bundle is being     *)
(* unpacked, a part of one), and a sender that says "done" says it of      *)
(* what is there, until it is run again.                                   *)
(***************************************************************************)
CONSTANTS
    Payload,    \* the payloads
    Nothing,    \* no payload
    Part,       \* a bundle that is partly unpacked
    Bundles     \* are payloads unpacked bundles?

VARIABLES
    dest,       \* what is at the destination
    told        \* the payload the sender has reported as delivered, or Nothing

Init == dest = Nothing /\ told = Nothing

\* The receiver puts a payload in place, while no report is out.
Put ==
    /\ told = Nothing
    /\ dest' \in Payload \cup (IF Bundles THEN {Part} ELSE {})
    /\ UNCHANGED told

\* The sender reports what is in place.
Report ==
    /\ told = Nothing /\ dest \in Payload
    /\ told' = dest
    /\ UNCHANGED dest

\* The sender is run again.
Again ==
    /\ told' = Nothing
    /\ UNCHANGED dest

Next == Put \/ Report \/ Again

Spec == Init /\ [][Next]_<<dest, told>>
=============================================================================
