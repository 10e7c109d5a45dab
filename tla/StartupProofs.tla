----------------------------- MODULE StartupProofs -----------------------------
(* For any system events, statuses and writers: main leaves the start-up with *)
(* the answer of CPU2 to its command, whatever happens on the event channel   *)
(* and on the ACL channel, and CPU2 reads every ACL packet reported Ok.       *)
EXTENDS Startup, TLAPS

(* SYS_CMD_BUF and its flag follow main: nothing is sent before "flush", the  *)
(* answer is awaited there, and nothing is sent after.                        *)
CommandPending == sysCmdFlag /\ sysCmdBuf = "command"

SystemInv ==
  /\ main \in {"ready", "send", "flush", "running", "stopped"}
  /\ sysCmdFlag \in BOOLEAN
  /\ main \in {"ready", "send"} => ~sysCmdFlag
  /\ main = "flush" => CommandPending \/ stack # "down"
  /\ RunsAfterAnswer

LEMMA SystemInvInit == Init => SystemInv
BY DEF Init, SystemInit, SystemInv, RunsAfterAnswer

(* Only the host's WriteCommand lets CPU2 own the buffer, only CPU2's answer  *)
(* replaces the command, and only then is the flag given back.                *)
LEMMA SystemInvStep == SystemInv /\ SystemNext => SystemInv'
<1> SUFFICES ASSUME SystemInv, SystemNext PROVE SystemInv'
  OBVIOUS
<1>1. CASE ReadReady
  BY <1>1 DEF SystemInv, CommandPending, RunsAfterAnswer, ReadReady, sysCmdVars
<1>2. CASE ReadNoEvent
  BY <1>2 DEF SystemInv, CommandPending, RunsAfterAnswer, ReadNoEvent, sysCmdVars
<1>3. CASE WriteCommand
  BY <1>3 DEF SystemInv, CommandPending, RunsAfterAnswer, WriteCommand
<1>4. CASE ReadStatus
  BY <1>4 DEF SystemInv, CommandPending, RunsAfterAnswer, ReadStatus, sysCmdVars
<1>5. ASSUME NEW event \in SystemEvents, Cpu2SystemEvent(event) PROVE SystemInv'
  BY <1>5 DEF SystemInv, CommandPending, RunsAfterAnswer, Cpu2SystemEvent, sysCmdVars
<1>6. CASE Cpu2SystemNotify
  BY <1>6 DEF SystemInv, CommandPending, RunsAfterAnswer, Cpu2SystemNotify, sysCmdVars
<1>7. ASSUME NEW status \in Statuses, Cpu2Execute(status) PROVE SystemInv'
  BY <1>7 DEF SystemInv, CommandPending, RunsAfterAnswer, Cpu2Execute
<1>8. CASE Cpu2SystemDone
  BY <1>8 DEF SystemInv, CommandPending, RunsAfterAnswer, Cpu2SystemDone
<1> QED BY <1>1, <1>2, <1>3, <1>4, <1>5, <1>6, <1>7, <1>8 DEF SystemNext

LEMMA SystemInvUnchanged == SystemInv /\ UNCHANGED systemVars => SystemInv'
BY DEF SystemInv, CommandPending, RunsAfterAnswer, systemVars, sysCmdVars

(* main goes on with the status CPU2 answered, in a buffer CPU2 has given     *)
(* back (read_ready and command of transport.rs, main.rs), and the writers of *)
(* ACL data that start then leave it so.                                      *)
THEOREM StartupRunsAfterAnswer == Spec => []RunsAfterAnswer
<1>1. SystemInv /\ [Next]_vars => SystemInv'
  BY SystemInvStep, SystemInvUnchanged DEF Next, SystemStep, AclStep, vars
<1>2. SystemInv => RunsAfterAnswer
  BY DEF SystemInv
<1> QED BY SystemInvInit, <1>1, <1>2, PTL DEF Spec

-------------------------------------------------------------------------------
(* The packet a writer hands over was not read before, and CPU2 has read all  *)
(* the ones before it: both ways to `send` wait for the flag.                 *)
LEMMA HandOverDelivers ==
  ASSUME NEW w \in Writers, AclDelivery, ~aclFlag, HandOver(w)
  PROVE  AclDelivery'
<1>1. unread = <<>>
  BY DEF AclDelivery
<1>2. aclFlag' /\ aclBuffer' = packet[w]
  BY DEF HandOver
<1>3. unread' = IF packet[w].fits THEN Append(unread, packet[w]) ELSE unread
  BY DEF HandOver
<1> QED BY <1>1, <1>2, <1>3 DEF AclDelivery

(* CPU2 reads what was handed over, whoever has asked for the channel since.  *)
LEMMA TakeDelivers == ASSUME AclDelivery, Cpu2TakePacket PROVE AclDelivery'
BY DEF AclDelivery, Cpu2TakePacket, writerVars

LEMMA AclDeliveryStep == ASSUME AclDelivery, AclNext PROVE AclDelivery'
<1>1. ASSUME NEW w \in Writers, LockAndSend(w) \/ PollAndSend(w) PROVE AclDelivery'
  BY <1>1, HandOverDelivers DEF LockAndSend, PollAndSend
<1>2. ASSUME NEW w \in Writers,
             \/ \E fits \in BOOLEAN : WriteAclData(w, fits)
             \/ LockAndYield(w)
             \/ CancelWrite(w)
      PROVE  AclDelivery'
  BY <1>2 DEF AclDelivery, WriteAclData, LockAndYield, CancelWrite
<1> QED BY <1>1, <1>2, TakeDelivers DEF AclNext

(* For any writers and packets, with writers dropped at any point and packets *)
(* too long for HCI_ACL_DATA_BUFFER: what `send` reported Ok, CPU2 reads      *)
(* whole, once and in that order.                                             *)
THEOREM StartupAclDelivery == Spec => []AclDelivery
<1>1. Init => AclDelivery
  BY DEF Init, AclInit, AclDelivery
<1>2. AclDelivery /\ [Next]_vars => AclDelivery'
  <2>1. UNCHANGED aclVars /\ AclDelivery => AclDelivery'
    BY DEF AclDelivery, aclVars, writerVars
  <2> QED BY <2>1, AclDeliveryStep DEF Next, SystemStep, AclStep, vars
<1> QED BY <1>1, <1>2, PTL DEF Spec
===============================================================================
