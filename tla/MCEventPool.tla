----------------------------- MODULE MCEventPool -----------------------------
(* Instance of EventPool for TLC: two or three buffers are enough for a       *)
(* packet to be posted while one is held and others are on both release       *)
(* lists.  "event" stands for every packet that decodes, "undecodable" for    *)
(* one from_hci_bytes refuses, "aliased" for an ACL packet of a connection    *)
(* handle whose low byte is 0x0E or 0x0F.                                     *)
EXTENDS EventPool
CONSTANTS b1, b2, b3
===============================================================================
