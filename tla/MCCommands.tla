---------------------------- MODULE MCCommands ----------------------------
(* Addresses and codes for model-checking Commands. *)
EXTENDS Commands

MCTyped == {Url("https", "a", FALSE), Url("wss", "b", FALSE), Url("no", "a", FALSE)}
MCPeerUrls == {Url("wss", "a", FALSE), Url("ws", "a", FALSE), Url("wss", "a", TRUE)}
MCTheirCode == [channel |-> 7, words |-> 1]
MCMyCode == [channel |-> 7, words |-> 2]
=============================================================================
