----------------------------- MODULE SystemChannel -----------------------------
(* How main.rs of examples/embassy brings the BLE stack up over the system    *)
(* channel of transport.rs: it waits for CPU2's ready event, spawns the       *)
(* memory manager, sends SHCI_C2_BLE_Init and reads its status.               *)
(*                                                                            *)
(* Command and response share SYS_CMD_BUF: the host owns it while the flag of *)
(* the system command channel is clear, CPU2 while it is set.  Returning the  *)
(* buffer of the ready event is EventPool's business (PoolInit).              *)
EXTENDS SequencesExt, Naturals

CONSTANTS
  SystemEvents,     \* what CPU2 may post on the system event channel
  WirelessFw,       \* ready, with the wireless firmware running
  Statuses,         \* the status bytes CPU2 may answer with
  Success,          \* its code for a command that worked
  Assigned,         \* those SysCommandStatus has a variant for
  MaxSystemEvents   \* bound on the number of system events

ASSUME SystemAssumption ==
  /\ WirelessFw \in SystemEvents
  /\ Assigned \subseteq Statuses
  /\ Success \in Assigned
  /\ MaxSystemEvents \in Nat

VARIABLES
  main,           \* where main() is suspended
  systemEvents,   \* SYSTEM_EVT_QUEUE
  systemEvtFlag,  \* system event channel: TRUE while the host owns the queue
  posted,         \* number of system events so far
  sysCmdBuf,      \* SYS_CMD_BUF: "zero", "command" or the status of a response
  sysCmdFlag,     \* system command channel: TRUE while CPU2 owns SYS_CMD_BUF
  stack           \* the BLE stack on CPU2: "down", "up" or "refused"

eventVars == <<systemEvents, systemEvtFlag, posted>>
sysCmdVars == <<sysCmdBuf, sysCmdFlag, stack>>
systemVars == <<main, eventVars, sysCmdVars>>

SystemInit ==
  /\ main = "ready"
  /\ systemEvents = <<>>
  /\ systemEvtFlag = FALSE
  /\ posted = 0
  /\ sysCmdBuf = "zero"
  /\ sysCmdFlag = FALSE
  /\ stack = "down"

-------------------------------------------------------------------------------
(* The host.                                                                  *)

(* Mutant of ReadReady: main waits for another event.                         *)
ReadReadyWaits ==
  /\ main = "ready"
  /\ systemEvtFlag
  /\ systemEvents # <<>>
  /\ systemEvents' = Tail(systemEvents)
  /\ main' = IF Head(systemEvents) = WirelessFw THEN "send" ELSE "ready"
  /\ UNCHANGED <<systemEvtFlag, posted, sysCmdVars>>

(* read_ready: any other event, or firmware, ends main.                       *)
ReadReady ==
  /\ main = "ready"
  /\ systemEvtFlag
  /\ systemEvents # <<>>
  /\ systemEvents' = Tail(systemEvents)
  /\ main' = IF Head(systemEvents) = WirelessFw THEN "send" ELSE "stopped"
  /\ UNCHANGED <<systemEvtFlag, posted, sysCmdVars>>

(* `receive` gives the empty queue back to CPU2.                              *)
ReadNoEvent ==
  /\ main = "ready"
  /\ systemEvtFlag
  /\ systemEvents = <<>>
  /\ systemEvtFlag' = FALSE
  /\ UNCHANGED <<main, systemEvents, posted, sysCmdVars>>

(* Sys::write, then the flag.                                                 *)
WriteCommand ==
  /\ main = "send"
  /\ ~sysCmdFlag
  /\ sysCmdBuf' = "command"
  /\ sysCmdFlag' = TRUE
  /\ main' = "flush"
  /\ UNCHANGED <<eventVars, stack>>

(* Mutant of ReadStatus: the response is read without `flush`.                *)
ReadStatusEarly ==
  /\ main = "flush"
  /\ main' = IF sysCmdBuf \in Assigned THEN "running" ELSE "stopped"
  /\ UNCHANGED <<eventVars, sysCmdVars>>

(* flush, then from_cmd_buffer; main returns if the status is an error.       *)
ReadStatus ==
  /\ main = "flush"
  /\ ~sysCmdFlag
  /\ main' = IF sysCmdBuf \in Assigned THEN "running" ELSE "stopped"
  /\ UNCHANGED <<eventVars, sysCmdVars>>

-------------------------------------------------------------------------------
(* CPU2, external.                                                            *)

Cpu2SystemEvent(event) ==
  /\ ~systemEvtFlag
  /\ posted < MaxSystemEvents
  /\ posted' = posted + 1
  /\ systemEvents' = Append(systemEvents, event)
  /\ UNCHANGED <<main, systemEvtFlag, sysCmdVars>>

Cpu2SystemNotify ==
  /\ ~systemEvtFlag
  /\ systemEvents # <<>>
  /\ systemEvtFlag' = TRUE
  /\ UNCHANGED <<main, systemEvents, posted, sysCmdVars>>

(* The response is written over the command, "after channel clears".          *)
Cpu2Execute(status) ==
  /\ sysCmdFlag
  /\ sysCmdBuf = "command"
  /\ sysCmdBuf' = status
  /\ stack' = IF status = Success THEN "up" ELSE "refused"
  /\ UNCHANGED <<main, eventVars, sysCmdFlag>>

Cpu2SystemDone ==
  /\ sysCmdFlag
  /\ sysCmdBuf # "command"
  /\ sysCmdFlag' = FALSE
  /\ UNCHANGED <<main, eventVars, sysCmdBuf, stack>>

SystemNext ==
  \/ ReadReady
  \/ ReadNoEvent
  \/ WriteCommand
  \/ ReadStatus
  \/ \E event \in SystemEvents : Cpu2SystemEvent(event)
  \/ Cpu2SystemNotify
  \/ \E status \in Statuses : Cpu2Execute(status)
  \/ Cpu2SystemDone

-------------------------------------------------------------------------------
(* Properties.                                                                *)

(* "System command responses are written back into SYS_CMD_BUF after channel  *)
(* clears": main goes on with what CPU2 answered, never with a byte of its    *)
(* own command, and CPU2 no longer owns the buffer.                           *)
RunsAfterAnswer ==
  main = "running" => ~sysCmdFlag /\ sysCmdBuf \in Assigned /\ stack # "down"
===============================================================================
