------------------------------ MODULE BufferLoan ------------------------------
(* What the IPCC transport promises about the event buffers of shared SRAM,   *)
(* whatever queues and flags it uses: "CPU2 owns event buffers until host     *)
(* returns them through the memory-manager channel".  Every buffer goes round *)
(* one loop, CPU2 -> posted -> held by the host -> returning -> CPU2, and the *)
(* host holds at most one packet at a time.                                   *)

CONSTANT Buffers

VARIABLE place        \* where each buffer stands in the loop

(* The buffer of the system-ready event may be on its way back at the start.  *)
Init == place \in [Buffers -> {"cpu2", "returning"}]

Move(b, from, to) ==
  /\ place[b] = from
  /\ place' = [place EXCEPT ![b] = to]

Post(b) == Move(b, "cpu2", "posted")

(* The host keeps the packet it handed to its caller until the next read.     *)
Take(b) ==
  /\ \A other \in Buffers : place[other] # "held"
  /\ Move(b, "posted", "held")

(* A packet that does not decode is returned at once.                         *)
Discard(b) == Move(b, "posted", "returning")

Drop(b) == Move(b, "held", "returning")

Reclaim(b) == Move(b, "returning", "cpu2")

Next ==
  \E b \in Buffers :
    \/ Post(b)
    \/ Take(b)
    \/ Discard(b)
    \/ Drop(b)
    \/ Reclaim(b)

Spec == Init /\ [][Next]_place

===============================================================================
