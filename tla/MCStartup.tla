------------------------------- MODULE MCStartup -------------------------------
(* Instance of Startup for TLC: two writers that write without end meet at    *)
(* the mutex, wait for CPU2, fail and are dropped in every order.  Three      *)
(* numbers are enough for their packets and the one in the buffer.            *)
EXTENDS Startup
CONSTANTS w1, w2
===============================================================================
