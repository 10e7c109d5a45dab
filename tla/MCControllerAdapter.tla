------------------------- MODULE MCControllerAdapter -------------------------
(* Instances of ControllerAdapter for TLC.  Two clients call without end, so  *)
(* every pair of calls meets, with the two opcodes, HCI_Reset and one other,  *)
(* matching or not.  Three numbers always leave one for a new call while none *)
(* is dropped; where calls are dropped they bound the commands CPU2 holds.    *)
EXTENDS ControllerAdapter

CONSTANTS c1, c2, b1, b2, main, reset, other

(* main.rs joins the reader and its caller in one task; here two callers are. *)
OneTask == [c \in Clients |-> main]
===============================================================================
