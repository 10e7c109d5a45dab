-------------------------------- MODULE Startup --------------------------------
(* The two sending channels of examples/embassy beside BLE commands: the      *)
(* system channel of the start-up, and the ACL channel of the adapter that    *)
(* main creates once its BLE initialisation is answered.                      *)
EXTENDS SystemChannel, AclChannel

vars == <<systemVars, aclVars>>

Init == SystemInit /\ AclInit

SystemStep(step) == step /\ UNCHANGED aclVars

(* The adapter exists, and with it its writers.                               *)
AclStep(step) == main = "running" /\ step /\ UNCHANGED systemVars

Next == SystemStep(SystemNext) \/ AclStep(AclNext)

Spec == Init /\ [][Next]_vars

(* The executor polls main and the writers; CPU2 posts its ready event,       *)
(* serves its interrupts and reads what it was handed.                        *)
Fairness ==
  /\ WF_vars(SystemStep(ReadReady \/ ReadNoEvent))
  /\ WF_vars(SystemStep(WriteCommand \/ ReadStatus))
  /\ WF_vars(SystemStep(\E event \in SystemEvents : Cpu2SystemEvent(event)))
  /\ WF_vars(SystemStep(Cpu2SystemNotify))
  /\ WF_vars(SystemStep(\E status \in Statuses : Cpu2Execute(status)))
  /\ WF_vars(SystemStep(Cpu2SystemDone))
  /\ \A w \in Writers : WF_vars(AclStep(WriterStep(w)))
  /\ WF_vars(AclStep(Cpu2TakePacket))

FairSpec == Spec /\ Fairness

(* Start-up does not hang: each flag the host waits on is handed back.        *)
StartupEnds == <>(main \in {"running", "stopped"})

(* Another writer gets the mutex first: who is polled first takes it.         *)
Preceded(w) == \E v \in Writers \ {w} : aclPc[v] = "lock" /\ aclPc'[v] # "lock"

(* Writers do not block each other, however many are dropped or fail: the one *)
(* that holds the mutex sends its packet, and one that waits for it gets it   *)
(* unless others take it first again and again.                               *)
WritesEnd ==
  \A w \in Writers :
    /\ aclPc[w] = "poll" ~> aclPc[w] = "idle"
    /\ (aclPc[w] = "lock" ~> aclPc[w] # "lock") \/ []<><<Preceded(w)>>_vars
===============================================================================
