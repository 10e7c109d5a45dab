------------------------ MODULE ControllerAdapterProofs ------------------------
(* For any clients, tasks, opcodes and numbers, with calls dropped, writes    *)
(* failing and answers garbled or not: the slot serialises the calls, and a   *)
(* signal never outlives its call.  With one executor task no blocked client  *)
(* is forgotten; with no call dropped and no write failing, the adapter is an *)
(* exchange: each caller gets the answer to its own command.                  *)
EXTENDS ControllerAdapter, EventPoolProofs

(* Every step is a step of the pool, or leaves it alone.                      *)
LEMMA StepIsPoolStep == ASSUME [Next]_vars PROVE [PoolNext]_poolVars
<1>1. ASSUME NEW c \in Clients,
             \/ \E op \in Opcodes, fits \in CommandFits : Call(c, op, fits)
             \/ GrabBlocked(c) \/ GrabSend(c) \/ GrabFlush(c)
             \/ FlushedSend(c) \/ Return(c) \/ Cancel(c)
      PROVE  UNCHANGED poolVars
  BY <1>1 DEF Call, GrabBlocked, GrabSend, GrabFlush, FlushedSend, Return, Cancel
<1>2. (\E task \in Tasks : OtherPoll(task)) \/ Cpu2Accept => UNCHANGED poolVars
  BY DEF OtherPoll, Cpu2Accept
<1>3. Read => ReadStart
  BY DEF Read
<1>4. ReadPacket \/ ReadNoStatus => \E node \in Nodes : ReceivePacket(node)
  BY DEF ReadPacket, ReadNoStatus, Nodes
<1>5. ReadError => \E node \in Nodes : ReceiveError(node)
  BY DEF ReadError
<1>6. ReadResponse => ReceiveResponse
  BY DEF ReadResponse
<1>7. Cpu2Answer \/ Cpu2Garble \/ Cpu2Nop => Cpu2Respond
  BY DEF Cpu2Answer, Cpu2Garble, Cpu2Nop
<1> QED
  BY <1>1, <1>2, <1>3, <1>4, <1>5, <1>6, <1>7 DEF Next, PoolNext, PoolStep, vars

(* The theorems about EventPool hold of the adapter.                          *)
LEMMA AdapterPoolSpec == Spec => PoolSpec
<1>1. Init => PoolInit
  BY DEF Init
<1> QED BY <1>1, StepIsPoolStep, PTL DEF Spec, PoolSpec

-------------------------------------------------------------------------------
(* The slot.                                                                  *)

(* SlotMatchesOwner and SignalHasOwner are inductive once the types and what  *)
(* the suspended clients hold are known.                                      *)
SlotInv ==
  /\ AdapterTypeOK
  /\ \A c \in Clients : pc[c] # "idle" => command[c] \in Commands
  /\ \A c \in asleep : pc[c] = "grab"
  /\ SlotMatchesOwner
  /\ SignalHasOwner

LEMMA SlotInitInv == ASSUME Init PROVE SlotInv
<1> USE AdapterAssumption DEF Init
<1>1. /\ pc \in [Clients -> PcStates]
      /\ command \in [Clients -> Commands \cup {None}]
  BY DEF PcStates
<1>2. accepted \in Seq(Commands)
  OBVIOUS
<1>3. AdapterTypeOK
  BY <1>1, <1>2 DEF AdapterTypeOK
<1>4. SlotMatchesOwner /\ SignalHasOwner
  BY DEF SlotMatchesOwner, SignalHasOwner, Owns
<1> QED BY <1>3, <1>4 DEF SlotInv

(* The number of a new command is free.                                       *)
LEMMA NewCommand ==
  ASSUME NEW c \in Clients, NEW op \in Opcodes, NEW fits \in CommandFits,
         Call(c, op, fits)
  PROVE  \E id \in FreeIds :
           /\ [id |-> id, op |-> op, fits |-> fits] \in Commands
           /\ command' = [command EXCEPT ![c] = [id |-> id, op |-> op, fits |-> fits]]
<1>1. (CHOOSE id \in FreeIds : TRUE) \in FreeIds
  BY DEF Call
<1>2. FreeIds \subseteq Ids
  BY DEF FreeIds
<1> QED BY <1>1, <1>2 DEF Call, Commands

LEMMA CallInv ==
  ASSUME SlotInv, NEW c \in Clients, NEW op \in Opcodes, NEW fits \in CommandFits,
         Call(c, op, fits)
  PROVE  SlotInv'
<1> USE AdapterAssumption DEF SlotInv
<1>1. PICK new \in Commands : command' = [command EXCEPT ![c] = new]
  BY NewCommand
<1>2. /\ pc[c] = "idle" /\ pc' = [pc EXCEPT ![c] = "grab"]
      /\ UNCHANGED <<outcome, slotVars, wakeVars, cmdBuffer, cpu2Vars>>
  BY DEF Call
<1> USE <1>1, <1>2 DEF slotVars, wakeVars, cpu2Vars
<1>3. AdapterTypeOK'
  BY DEF AdapterTypeOK, PcStates
<1>4. \A d \in Clients : Owns(d)' <=> Owns(d)
  BY DEF AdapterTypeOK, Owns
<1>5. SlotMatchesOwner' /\ SignalHasOwner'
  BY <1>4 DEF SlotMatchesOwner, SignalHasOwner, AdapterTypeOK, Owns
<1>6. /\ \A d \in Clients : pc'[d] # "idle" => command'[d] \in Commands
      /\ \A d \in asleep' : pc'[d] = "grab"
  BY DEF AdapterTypeOK
<1> QED BY <1>3, <1>5, <1>6

LEMMA GrabBlockedInv ==
  ASSUME SlotInv, NEW c \in Clients, GrabBlocked(c)
  PROVE  SlotInv'
<1> USE AdapterAssumption
        DEF SlotInv, GrabBlocked, Polled, clientVars, slotVars, cpu2Vars
<1>1. AdapterTypeOK'
  BY DEF AdapterTypeOK
<1>2. SlotMatchesOwner' /\ SignalHasOwner'
  BY DEF SlotMatchesOwner, SignalHasOwner, Owns
<1> QED BY <1>1, <1>2

(* A free slot has no owner and no signal.                                    *)
LEMMA FreeSlot ==
  ASSUME SlotInv, slot = None
  PROVE  signal = "empty" /\ \A c \in Clients : ~Owns(c)
  BY AdapterAssumption
     DEF SlotInv, SlotMatchesOwner, SignalHasOwner, AdapterTypeOK, Owns, Commands

(* What a client that is the only owner does leaves the slot free or its own. *)
LEMMA SendCommandInv ==
  ASSUME SlotInv, NEW c \in Clients, NEW task \in Tasks \cup {None},
         pc[c] # "idle", c \notin asleep,
         \A d \in Clients : Owns(d) => d = c,
         SendCommand(c, task),
         waker' \in Tasks \cup {None},
         UNCHANGED <<ccNoStatus, cpu2Vars>>
  PROVE  SlotInv'
<1> USE AdapterAssumption DEF SlotInv, cpu2Vars
<1>1. command[c] \in Commands
  OBVIOUS
<1>2. CASE command[c].fits
  <2>1. /\ cmdBuffer' = command[c]
        /\ pc' = [pc EXCEPT ![c] = "wait"]
        /\ slot' = command[c].op
        /\ UNCHANGED <<command, outcome, signal, asleep>>
    BY <1>2 DEF SendCommand
  <2>2. AdapterTypeOK'
    BY <1>1, <2>1 DEF AdapterTypeOK, PcStates, Commands
  <2>3. \A d \in Clients : Owns(d)' <=> d = c
    BY <2>1 DEF AdapterTypeOK, Owns
  <2>4. SlotMatchesOwner' /\ SignalHasOwner'
    BY <2>1, <2>3 DEF SlotMatchesOwner, SignalHasOwner
  <2>5. /\ \A d \in Clients : pc'[d] # "idle" => command'[d] \in Commands
        /\ \A d \in asleep' : pc'[d] = "grab"
    BY <1>1, <2>1 DEF AdapterTypeOK
  <2> QED BY <2>2, <2>4, <2>5
<1>3. CASE ~command[c].fits
  <2>1. /\ cmdBuffer' = command[c]
        /\ pc' = [pc EXCEPT ![c] = "idle"]
        /\ command' = [command EXCEPT ![c] = None]
        /\ outcome' = WriteError
        /\ slot' = None
        /\ signal' = "empty"
        /\ asleep' \subseteq asleep
    BY <1>3 DEF SendCommand, Finish, DropGuard
  <2>2. AdapterTypeOK'
    BY <1>1, <2>1 DEF AdapterTypeOK, PcStates
  <2>3. \A d \in Clients : ~Owns(d)'
    BY <2>1 DEF AdapterTypeOK, Owns
  <2>4. SlotMatchesOwner' /\ SignalHasOwner'
    BY <2>1, <2>3 DEF SlotMatchesOwner, SignalHasOwner
  <2>5. /\ \A d \in Clients : pc'[d] # "idle" => command'[d] \in Commands
        /\ \A d \in asleep' : pc'[d] = "grab"
    BY <2>1 DEF AdapterTypeOK
  <2> QED BY <2>2, <2>4, <2>5
<1> QED BY <1>2, <1>3

LEMMA GrabInv ==
  ASSUME SlotInv, NEW c \in Clients, GrabSend(c) \/ GrabFlush(c)
  PROVE  SlotInv'
<1>1. /\ pc[c] = "grab"
      /\ c \notin asleep
      /\ slot = None
      /\ waker' = TaskOf[c]
      /\ TaskOf[c] \in Tasks
  BY AdapterAssumption DEF GrabSend, GrabFlush, Polled, Blocked
<1>2. signal = "empty" /\ \A d \in Clients : ~Owns(d)
  BY <1>1, FreeSlot
<1>3. CASE GrabSend(c)
  <2>1. SendCommand(c, TaskOf[c]) /\ UNCHANGED <<ccNoStatus, cpu2Vars>>
    BY <1>3 DEF GrabSend
  <2> QED BY <1>1, <1>2, <2>1, SendCommandInv
<1>4. CASE GrabFlush(c)
  <2> USE AdapterAssumption DEF SlotInv, GrabFlush, cpu2Vars
  <2>1. AdapterTypeOK'
    BY <1>1, <1>4 DEF AdapterTypeOK, PcStates, Commands
  <2>2. \A d \in Clients : Owns(d)' <=> d = c
    BY <1>2, <1>4 DEF AdapterTypeOK, Owns
  <2>3. SlotMatchesOwner' /\ SignalHasOwner'
    BY <1>1, <1>4, <2>2 DEF SlotMatchesOwner, SignalHasOwner
  <2>4. /\ \A d \in Clients : pc'[d] # "idle" => command'[d] \in Commands
        /\ \A d \in asleep' : pc'[d] = "grab"
    BY <1>1, <1>4 DEF AdapterTypeOK
  <2> QED BY <2>1, <2>3, <2>4
<1> QED BY <1>3, <1>4

LEMMA FlushedSendInv ==
  ASSUME SlotInv, NEW c \in Clients, FlushedSend(c)
  PROVE  SlotInv'
<1>1. /\ pc[c] = "flush"
      /\ SendCommand(c, waker)
      /\ UNCHANGED <<ccNoStatus, waker, cpu2Vars>>
  BY DEF FlushedSend
<1>2. c \notin asleep /\ waker \in Tasks \cup {None}
  BY <1>1 DEF SlotInv, AdapterTypeOK
<1>3. \A d \in Clients : Owns(d) => d = c
  BY <1>1 DEF SlotInv, SlotMatchesOwner, Owns
<1> QED BY <1>1, <1>2, <1>3, SendCommandInv

(* A call ends and drops its guard.                                           *)
LEMMA EndCallInv ==
  ASSUME SlotInv, NEW c \in Clients, Return(c) \/ Cancel(c)
  PROVE  SlotInv'
<1> USE AdapterAssumption DEF SlotInv
<1>1. /\ pc' = [pc EXCEPT ![c] = "idle"]
      /\ command' = [command EXCEPT ![c] = None]
      /\ outcome' \in Commands \cup {None, Nop, Garbled, Cancelled, WriteError}
      /\ asleep' \subseteq asleep
      /\ UNCHANGED <<ccNoStatus, waker, cmdBuffer, cpu2Vars>>
  BY DEF Return, Cancel, Finish, DropGuard, AdapterTypeOK
<1>2. \/ Owns(c) /\ slot' = None /\ signal' = "empty"
      \/ pc[c] = "grab" /\ c \notin asleep' /\ UNCHANGED <<slot, signal>>
  BY DEF Return, Cancel, DropGuard, AdapterTypeOK, PcStates, Owns
<1>3. AdapterTypeOK'
  BY <1>1, <1>2 DEF AdapterTypeOK, PcStates, cpu2Vars
<1>4. \A d \in Clients : Owns(d)' <=> Owns(d) /\ d # c
  BY <1>1 DEF AdapterTypeOK, Owns
<1>5. SlotMatchesOwner' /\ SignalHasOwner'
  <2>1. CASE Owns(c) /\ slot' = None /\ signal' = "empty"
    BY <1>4, <2>1 DEF SlotMatchesOwner, SignalHasOwner
  <2>2. CASE pc[c] = "grab" /\ UNCHANGED <<slot, signal>>
    <3>1. ~Owns(c)
      BY <2>2 DEF Owns
    <3>2. \A d \in Clients : Owns(d)' => Owns(d) /\ command'[d] = command[d]
      BY <1>1, <1>4 DEF AdapterTypeOK
    <3> QED BY <1>4, <2>2, <3>1, <3>2 DEF SlotMatchesOwner, SignalHasOwner
  <2> QED BY <1>2, <2>1, <2>2
<1>6. \A d \in Clients : pc'[d] # "idle" => command'[d] \in Commands
  BY <1>1 DEF AdapterTypeOK
<1>7. \A d \in asleep' : pc'[d] = "grab"
  BY <1>1, <1>2 DEF AdapterTypeOK, Owns
<1> QED BY <1>3, <1>5, <1>6, <1>7

LEMMA OtherPollInv ==
  ASSUME SlotInv, NEW task \in Tasks, OtherPoll(task)
  PROVE  SlotInv'
<1> USE DEF SlotInv, OtherPoll, clientVars, slotVars, cpu2Vars
<1>1. AdapterTypeOK'
  BY DEF AdapterTypeOK
<1>2. SlotMatchesOwner' /\ SignalHasOwner'
  BY DEF SlotMatchesOwner, SignalHasOwner, Owns
<1> QED BY <1>1, <1>2

(* signal_cmd raises the signal only while a call owns the slot.              *)
LEMMA ReaderInv ==
  ASSUME SlotInv, Read \/ ReadNoStatus \/ ReadResponse
  PROVE  SlotInv'
<1> USE AdapterAssumption DEF SlotInv, clientVars, slotVars, wakeVars, cpu2Vars
<1>1. /\ signal' \in {"empty", "event", "none"}
      /\ signal' # "empty" => signal # "empty" \/ slot # None
      /\ asleep' \subseteq asleep
      /\ ccNoStatus' \in BOOLEAN
      /\ UNCHANGED <<clientVars, slot, waker, cmdBuffer, cpu2Vars>>
  <2>1. CASE Read
    BY <2>1 DEF Read, AdapterTypeOK
  <2>2. CASE ReadNoStatus
    BY <2>2 DEF ReadNoStatus, AdapterTypeOK
  <2>3. CASE ReadResponse
    <3>1. response.op \in Opcodes
      BY <2>3 DEF ReadResponse, Commands
    <3> QED BY <2>3, <3>1 DEF ReadResponse, Signalled, AdapterTypeOK
  <2> QED BY <2>1, <2>2, <2>3
<1>2. AdapterTypeOK'
  BY <1>1 DEF AdapterTypeOK
<1>3. SlotMatchesOwner' /\ SignalHasOwner'
  BY <1>1 DEF SlotMatchesOwner, SignalHasOwner, Owns
<1>4. /\ \A d \in Clients : pc'[d] # "idle" => command'[d] \in Commands
      /\ \A d \in asleep' : pc'[d] = "grab"
  BY <1>1
<1> QED BY <1>2, <1>3, <1>4

LEMMA Cpu2StepInv ==
  ASSUME SlotInv, Cpu2Accept \/ Cpu2Answer \/ Cpu2Garble \/ Cpu2Nop
  PROVE  SlotInv'
<1> USE AdapterAssumption DEF SlotInv, clientVars, slotVars, wakeVars
<1>1. UNCHANGED <<clientVars, slotVars, wakeVars>>
  BY DEF Cpu2Accept, Cpu2Answer, Cpu2Garble, Cpu2Nop
<1>2. /\ cmdBuffer' \in Commands \cup {None}
      /\ accepted' \in Seq(Commands)
      /\ response' \in Commands \cup {Nop, Garbled}
  <2>1. CASE Cpu2Accept
    BY <2>1 DEF Cpu2Accept, AdapterTypeOK
  <2>2. CASE Cpu2Answer
    <3>1. Head(accepted) \in Commands /\ Tail(accepted) \in Seq(Commands)
      BY <2>2, TailElements DEF Cpu2Answer, AdapterTypeOK
    <3> QED BY <2>2, <3>1 DEF Cpu2Answer, AdapterTypeOK
  <2>3. CASE Cpu2Garble \/ Cpu2Nop
    BY <2>3, TailElements DEF Cpu2Garble, Cpu2Nop, AdapterTypeOK
  <2> QED BY <2>1, <2>2, <2>3
<1>3. AdapterTypeOK'
  BY <1>1, <1>2 DEF AdapterTypeOK
<1>4. SlotMatchesOwner' /\ SignalHasOwner'
  BY <1>1 DEF SlotMatchesOwner, SignalHasOwner, Owns
<1> QED BY <1>1, <1>3, <1>4

LEMMA AdapterUnchangedInv ==
  ASSUME SlotInv, UNCHANGED adapterVars
  PROVE  SlotInv'
  BY DEF SlotInv, AdapterTypeOK, SlotMatchesOwner, SignalHasOwner, Owns, adapterVars,
         clientVars, slotVars, wakeVars, cpu2Vars

LEMMA SlotNextInv == ASSUME SlotInv, [Next]_vars PROVE SlotInv'
<1>1. ASSUME NEW c \in Clients, NEW op \in Opcodes, NEW fits \in CommandFits,
             Call(c, op, fits)
      PROVE  SlotInv'
  BY <1>1, CallInv
<1>2. ASSUME NEW c \in Clients, GrabBlocked(c) PROVE SlotInv'
  BY <1>2, GrabBlockedInv
<1>3. ASSUME NEW c \in Clients, GrabSend(c) \/ GrabFlush(c) PROVE SlotInv'
  BY <1>3, GrabInv
<1>4. ASSUME NEW c \in Clients, FlushedSend(c) PROVE SlotInv'
  BY <1>4, FlushedSendInv
<1>5. ASSUME NEW c \in Clients, Return(c) \/ Cancel(c) PROVE SlotInv'
  BY <1>5, EndCallInv
<1>6. ASSUME NEW task \in Tasks, OtherPoll(task) PROVE SlotInv'
  BY <1>6, OtherPollInv
<1>7. CASE Read \/ ReadNoStatus \/ ReadResponse
  BY <1>7, ReaderInv
<1>8. CASE Cpu2Accept \/ Cpu2Answer \/ Cpu2Garble \/ Cpu2Nop
  BY <1>8, Cpu2StepInv
<1>9. CASE UNCHANGED adapterVars
  BY <1>9, AdapterUnchangedInv
<1> QED
  BY <1>1, <1>2, <1>3, <1>4, <1>5, <1>6, <1>7, <1>8, <1>9
     DEF Next, PoolStep, ReadPacket, ReadError, vars

(* Every reachable state satisfies the inductive invariant of the slot.       *)
THEOREM SlotInvariant == Spec => []SlotInv
  BY SlotInitInv, SlotNextInv, PTL DEF Spec

(* The variables of the adapter and of its pool keep their types.             *)
THEOREM AdapterTypeCorrect == Spec => []TypeOK
<1>1. SlotInv => AdapterTypeOK
  BY DEF SlotInv
<1> QED
  BY <1>1, SlotInvariant, AdapterPoolSpec, PoolTypeCorrect, PTL DEF TypeOK

(* At most one call is between grab_slot and its end, and the slot holds its  *)
(* opcode, whatever calls are dropped or fail.                                *)
THEOREM SlotSerialisesCalls == Spec => []SlotMatchesOwner
<1>1. SlotInv => SlotMatchesOwner
  BY DEF SlotInv
<1> QED BY <1>1, SlotInvariant, PTL

(* No signal is left over for a later call.                                   *)
THEOREM SignalsHaveOwners == Spec => []SignalHasOwner
<1>1. SlotInv => SignalHasOwner
  BY DEF SlotInv
<1> QED BY <1>1, SlotInvariant, PTL

-------------------------------------------------------------------------------
(* The waker.                                                                 *)

(* With the wake-up of every sleeper registered, no call that ends forgets    *)
(* one of them.                                                               *)
WakeInv == asleep # {} => Blocked /\ waker \in Tasks

(* One task: its wake-up is everybody's.                                      *)
LEMMA OneTaskWakesAll ==
  ASSUME NEW CONSTANT task, Tasks = {task}, SlotInv, WakeInv, DropGuard(waker)
  PROVE  asleep' = {}
<1>1. asleep \subseteq Clients
  BY DEF SlotInv, AdapterTypeOK
<1>2. CASE asleep = {}
  BY <1>2 DEF DropGuard
<1>3. CASE asleep # {}
  <2>1. ClientsOf(waker) = Clients
    BY <1>3, AdapterAssumption DEF WakeInv, ClientsOf
  <2> QED BY <1>1, <2>1 DEF DropGuard
<1> QED BY <1>2, <1>3

LEMMA WakeNextInv ==
  ASSUME NEW CONSTANT task, Tasks = {task}, SlotInv, WakeInv, [Next]_vars
  PROVE  WakeInv'
<1>1. ASSUME NEW c \in Clients, NEW op \in Opcodes, NEW fits \in CommandFits,
             Call(c, op, fits)
      PROVE  WakeInv'
  BY <1>1 DEF Call, WakeInv, Blocked, slotVars, wakeVars
<1>2. ASSUME NEW c \in Clients, GrabBlocked(c)
      PROVE  WakeInv'
  BY <1>2, AdapterAssumption DEF GrabBlocked, WakeInv, Blocked, slotVars
<1>3. ASSUME NEW c \in Clients, GrabSend(c) \/ GrabFlush(c)
      PROVE  WakeInv'
  <2>1. asleep = {}
    BY <1>3 DEF GrabSend, GrabFlush, WakeInv
  <2>2. asleep' = {}
    BY <1>3, <2>1 DEF GrabSend, GrabFlush, SendCommand, DropGuard
  <2> QED BY <2>2 DEF WakeInv
<1>4. ASSUME NEW c \in Clients, FlushedSend(c)
      PROVE  WakeInv'
  <2>1. command[c] \in Commands
    BY <1>4 DEF FlushedSend, SlotInv
  <2>2. CASE command[c].fits
    BY <1>4, <2>1, <2>2, AdapterAssumption
       DEF FlushedSend, SendCommand, WakeInv, Blocked, Commands
  <2>3. CASE ~command[c].fits
    BY <1>4, <2>3, OneTaskWakesAll DEF FlushedSend, SendCommand, WakeInv
  <2> QED BY <2>2, <2>3
<1>5. ASSUME NEW c \in Clients, Return(c)
      PROVE  WakeInv'
  BY <1>5, OneTaskWakesAll DEF Return, WakeInv
<1>6. ASSUME NEW c \in Clients, Cancel(c)
      PROVE  WakeInv'
  <2>1. CASE DropGuard(waker)
    BY <2>1, OneTaskWakesAll DEF WakeInv
  <2>2. CASE asleep' = asleep \ {c} /\ UNCHANGED <<slot, signal>>
    BY <1>6, <2>2 DEF Cancel, WakeInv, Blocked
  <2> QED BY <1>6, <2>1, <2>2 DEF Cancel
<1>7. ASSUME NEW t \in Tasks, OtherPoll(t)
      PROVE  WakeInv'
  BY <1>7 DEF OtherPoll, WakeInv, Blocked, slotVars
<1>8. CASE Read
  <2>1. CASE ccNoStatus
    <3>1. asleep \subseteq Clients
      BY DEF SlotInv, AdapterTypeOK
    <3>2. asleep # {} => ClientsOf(waker) = Clients
      BY AdapterAssumption DEF WakeInv, ClientsOf
    <3> QED BY <1>8, <2>1, <3>1, <3>2 DEF Read, WakeInv
  <2>2. CASE ~ccNoStatus
    BY <1>8, <2>2 DEF Read, WakeInv, Blocked
  <2> QED BY <2>1, <2>2
<1>9. CASE ReadNoStatus
  BY <1>9 DEF ReadNoStatus, WakeInv, Blocked, wakeVars
<1>10. CASE ReadResponse
  BY <1>10 DEF ReadResponse, WakeInv, Blocked, wakeVars
<1>11. CASE Cpu2Accept \/ Cpu2Answer \/ Cpu2Garble \/ Cpu2Nop
  BY <1>11 DEF Cpu2Accept, Cpu2Answer, Cpu2Garble, Cpu2Nop, WakeInv, Blocked, slotVars, wakeVars
<1>12. CASE UNCHANGED adapterVars
  BY <1>12 DEF adapterVars, slotVars, wakeVars, WakeInv, Blocked
<1> QED
  BY <1>1, <1>2, <1>3, <1>4, <1>5, <1>6, <1>7, <1>8, <1>9, <1>10, <1>11, <1>12
     DEF Next, PoolStep, ReadPacket, ReadError, vars

(* While one task polls every caller of exec, as main.rs does, a caller left  *)
(* asleep in grab_slot is really blocked: no wake-up is lost.                 *)
THEOREM OneTaskLosesNoWakeup ==
  ASSUME NEW CONSTANT task, Tasks = {task}
  PROVE  Spec => []SleepersAreBlocked
<1>1. Init => WakeInv
  BY DEF Init, WakeInv
<1>2. SlotInv /\ WakeInv /\ [Next]_vars => WakeInv'
  BY WakeNextInv
<1>3. WakeInv => SleepersAreBlocked
  BY DEF WakeInv, SleepersAreBlocked
<1> QED BY <1>1, <1>2, <1>3, SlotInvariant, PTL DEF Spec

-------------------------------------------------------------------------------
(* The exchange, when no future is dropped and no write fails.                *)

Undisturbed == CanCancel = FALSE /\ CommandFits = {TRUE}

Waits(c) == pc[c] = "wait"

(* Where the command of a waiting client is: in BLE_CMD_BUFFER, with CPU2, in *)
(* the event queue as an answer, or signalled; or its answer was garbled, and *)
(* it waits in vain.                                                          *)
Progress(c) ==
  \/ /\ cmdBuffer = command[c] /\ accepted = <<>>
     /\ signal = "empty" /\ response # command[c]
  \/ /\ cmdBuffer = None /\ accepted = <<command[c]>>
     /\ signal = "empty" /\ response # command[c]
  \/ /\ cmdBuffer = None /\ accepted = <<>>
     /\ signal = IF Rsp \in ToSet(evtQueue) THEN "empty" ELSE "event"
     /\ response = command[c]
  \/ /\ cmdBuffer = None /\ accepted = <<>>
     /\ signal = "empty" /\ response \in {Nop, Garbled}

(* Calls that are not over have numbers of their own.                         *)
CallsDistinct ==
  \A c, d \in Clients :
    pc[c] # "idle" /\ pc[d] # "idle" /\ c # d => command[c].id # command[d].id

(* What CPU2 has in hand is the waiting client's command, and what it put in  *)
(* the response node last is an answer to it, to a command before, or Nop.    *)
ExchangeInv ==
  /\ CallsDistinct
  /\ \A c \in Clients : pc[c] # "flush"
  /\ \A c \in Clients : Waits(c) => Progress(c)
  /\ (\E c \in Clients : Waits(c)) \/ (cmdBuffer = None /\ accepted = <<>>)
  /\ Rsp \in ToSet(evtQueue) =>
       \/ response \in {Nop, Garbled}
       \/ \E c \in Clients : Waits(c) /\ response = command[c]
  /\ \A c \in Clients : pc[c] = "grab" => response # command[c]

LEMMA ExchangeInitInv == ASSUME Init PROVE ExchangeInv
<1> USE AdapterAssumption
<1>1. ToSet(evtQueue) = {}
  BY DEF Init, PoolInit, ToSet
<1> QED BY <1>1 DEF Init, ExchangeInv, CallsDistinct, Waits

(* Only CPU2 answering and the reader removing the answer move the response   *)
(* node.                                                                      *)
LEMMA ResponseNode ==
  ASSUME PoolInv
  PROVE  /\ Cpu2Respond => Rsp \notin ToSet(evtQueue) /\ Rsp \in ToSet(evtQueue')
         /\ \A node \in Nodes : RemoveHead(node) =>
              IF node = Rsp
              THEN Rsp \in ToSet(evtQueue) /\ Rsp \notin ToSet(evtQueue')
              ELSE (Rsp \in ToSet(evtQueue') <=> Rsp \in ToSet(evtQueue))
         /\ \A b \in Buffers, kind \in Kinds : Cpu2Post(b, kind) =>
              (Rsp \in ToSet(evtQueue') <=> Rsp \in ToSet(evtQueue))
<1> USE NodeAssumption DEF PoolInv, PoolTypeOK
<1>1. ASSUME Cpu2Respond PROVE Rsp \notin ToSet(evtQueue) /\ Rsp \in ToSet(evtQueue')
  <2>1. evtQueue \in Seq(Nodes) /\ Rsp \in Nodes
    BY DEF Nodes
  <2>2. evtQueue' = Append(evtQueue, Rsp) /\ Rsp \notin ToSet(evtQueue)
    BY <1>1 DEF Cpu2Respond
  <2> QED BY <2>1, <2>2, AppendElements
<1>2. ASSUME NEW node \in Nodes, RemoveHead(node)
      PROVE  /\ node \in ToSet(evtQueue)
             /\ ToSet(evtQueue') = ToSet(evtQueue) \ {node}
  BY <1>2, TailElements DEF RemoveHead, OneOwner
<1>3. ASSUME NEW b \in Buffers, NEW kind \in Kinds, Cpu2Post(b, kind)
      PROVE  ToSet(evtQueue') = ToSet(evtQueue) \cup {b}
  <2>1. evtQueue \in Seq(Nodes) /\ b \in Nodes
    BY DEF Nodes
  <2>2. evtQueue' = Append(evtQueue, b)
    BY <1>3 DEF Cpu2Post
  <2> QED BY <2>1, <2>2, AppendElements
<1> QED BY <1>1, <1>2, <1>3

(* Steps that move neither commands nor the response node.                    *)
LEMMA ExchangeKept ==
  ASSUME ExchangeInv, UNCHANGED <<clientVars, slot, signal, cmdBuffer, accepted, response>>,
         Rsp \in ToSet(evtQueue') <=> Rsp \in ToSet(evtQueue)
  PROVE  ExchangeInv'
<1>1. UNCHANGED <<pc, command>>
  BY DEF clientVars
<1>2. \A c \in Clients : (Waits(c)' <=> Waits(c)) /\ (Progress(c)' <=> Progress(c))
  BY <1>1 DEF Waits, Progress
<1> QED BY <1>1, <1>2 DEF ExchangeInv, CallsDistinct

(* The number of a new command is neither that of a call in progress nor of   *)
(* what the response node holds.                                              *)
LEMMA NewIsFresh ==
  ASSUME SlotInv, NEW id \in FreeIds, NEW op \in Opcodes, NEW fits \in CommandFits
  PROVE  /\ response # [id |-> id, op |-> op, fits |-> fits]
         /\ \A d \in Clients : pc[d] # "idle" => command[d].id # id
<1>1. \A inHand \in InHand : inHand.id # id
  BY DEF FreeIds
<1>2. \A d \in Clients : pc[d] # "idle" => command[d] \in InHand
  BY DEF InHand
<1>3. response \in InHand
  BY DEF InHand
<1> QED BY <1>1, <1>2, <1>3

LEMMA ExchangeCallInv ==
  ASSUME SlotInv, ExchangeInv, NEW c \in Clients, NEW op \in Opcodes,
         NEW fits \in CommandFits, Call(c, op, fits)
  PROVE  ExchangeInv'
<1>1. PICK id \in FreeIds :
        command' = [command EXCEPT ![c] = [id |-> id, op |-> op, fits |-> fits]]
  BY NewCommand
<1> DEFINE new == [id |-> id, op |-> op, fits |-> fits]
<1>2. /\ pc[c] = "idle" /\ pc' = [pc EXCEPT ![c] = "grab"]
      /\ UNCHANGED <<evtQueue, signal, cmdBuffer, accepted, response>>
  BY DEF Call, poolVars, slotVars, cpu2Vars
<1>3. /\ pc \in [Clients -> PcStates]
      /\ command \in [Clients -> Commands \cup {None}]
  BY DEF SlotInv, AdapterTypeOK
<1>4. response # new /\ new.id = id /\ \A d \in Clients : pc[d] # "idle" => command[d].id # id
  BY NewIsFresh
<1>5. command' = [command EXCEPT ![c] = new]
  BY <1>1
<1> HIDE DEF new
<1>6. /\ command'[c] = new /\ pc'[c] = "grab"
      /\ \A d \in Clients \ {c} : command'[d] = command[d] /\ pc'[d] = pc[d]
  BY <1>2, <1>3, <1>5
<1>7. CallsDistinct'
  BY <1>2, <1>4, <1>6 DEF ExchangeInv, CallsDistinct
<1>8. \A d \in Clients : (Waits(d)' <=> Waits(d)) /\ (Waits(d) => d # c)
  BY <1>2, <1>6 DEF Waits
<1>9. \A d \in Clients : Waits(d) => (Progress(d)' <=> Progress(d)) /\ command'[d] = command[d]
  BY <1>2, <1>6, <1>8 DEF Progress
<1> QED BY <1>2, <1>4, <1>6, <1>7, <1>8, <1>9 DEF ExchangeInv

(* A client that gets the slot is alone: CPU2 has nothing in hand.            *)
LEMMA FreeSlotIdle ==
  ASSUME SlotInv, ExchangeInv, slot = None
  PROVE  cmdBuffer = None /\ accepted = <<>> /\ \A c \in Clients : ~Waits(c)
  BY FreeSlot DEF ExchangeInv, Waits, Owns

LEMMA ExchangeGrabInv ==
  ASSUME Undisturbed, SlotInv, ExchangeInv, NEW c \in Clients, GrabSend(c)
  PROVE  /\ ExchangeInv'
         /\ pc[c] = "grab" /\ \A d \in Clients : ~Waits(d)
         /\ pc' = [pc EXCEPT ![c] = "wait"]
         /\ response # command[c]
         /\ UNCHANGED <<command, outcome, response, accepted>>
<1>1. pc[c] = "grab" /\ slot = None
  BY DEF GrabSend, Polled, Blocked
<1>2. /\ cmdBuffer = None /\ accepted = <<>> /\ signal = "empty"
      /\ \A d \in Clients : ~Waits(d)
  BY <1>1, FreeSlot, FreeSlotIdle
<1>3. command[c] \in Commands /\ command[c].fits
  BY <1>1 DEF SlotInv, Commands, Undisturbed
<1>4. /\ cmdBuffer' = command[c] /\ pc' = [pc EXCEPT ![c] = "wait"]
      /\ UNCHANGED <<command, outcome, signal, accepted, response, evtQueue>>
  BY <1>3 DEF GrabSend, SendCommand, poolVars, cpu2Vars
<1>5. /\ pc \in [Clients -> PcStates] /\ pc'[c] = "wait"
      /\ \A d \in Clients \ {c} : pc'[d] = pc[d]
  BY <1>4 DEF SlotInv, AdapterTypeOK
<1>6. response # command[c]
  BY <1>1 DEF ExchangeInv
<1>7. Waits(c)' /\ Progress(c)' /\ \A d \in Clients : Waits(d)' => d = c
  BY <1>2, <1>4, <1>5, <1>6 DEF Waits, Progress
<1>8. Rsp \in ToSet(evtQueue') => response' \in {Nop, Garbled}
  BY <1>2, <1>4 DEF ExchangeInv
<1>9. CallsDistinct'
  BY <1>1, <1>4, <1>5 DEF ExchangeInv, CallsDistinct
<1>10. ExchangeInv'
  BY <1>4, <1>5, <1>7, <1>8, <1>9 DEF ExchangeInv
<1> QED BY <1>1, <1>2, <1>4, <1>6, <1>10

(* The command channel is never found busy.                                   *)
LEMMA NeverFlushes ==
  ASSUME SlotInv, ExchangeInv, NEW c \in Clients
  PROVE  ~GrabFlush(c) /\ ~FlushedSend(c)
<1>1. ASSUME GrabFlush(c) PROVE FALSE
  BY <1>1, FreeSlotIdle DEF GrabFlush, Blocked
<1>2. ASSUME FlushedSend(c) PROVE FALSE
  BY <1>2 DEF FlushedSend, ExchangeInv
<1> QED BY <1>1, <1>2

LEMMA ExchangeReturnInv ==
  ASSUME SlotInv, ExchangeInv, NEW c \in Clients, Return(c)
  PROVE  /\ ExchangeInv'
         /\ pc[c] = "wait" /\ response = command[c]
         /\ pc' = [pc EXCEPT ![c] = "idle"]
         /\ command' = [command EXCEPT ![c] = None]
         /\ outcome' = command[c]
         /\ response' = response
<1>1. /\ pc[c] = "wait" /\ signal # "empty"
      /\ pc' = [pc EXCEPT ![c] = "idle"]
      /\ command' = [command EXCEPT ![c] = None]
      /\ outcome' = IF signal = "none" THEN Cancelled ELSE response
      /\ signal' = "empty"
      /\ UNCHANGED <<cmdBuffer, accepted, response, evtQueue>>
  BY DEF Return, Finish, DropGuard, poolVars, cpu2Vars
<1>2. /\ cmdBuffer = None /\ accepted = <<>> /\ signal = "event"
      /\ Rsp \notin ToSet(evtQueue) /\ response = command[c]
  BY <1>1 DEF ExchangeInv, Waits, Progress
<1>3. /\ pc \in [Clients -> PcStates] /\ command \in [Clients -> Commands \cup {None}]
      /\ pc'[c] = "idle"
      /\ \A d \in Clients \ {c} : pc'[d] = pc[d] /\ command'[d] = command[d]
  BY <1>1 DEF SlotInv, AdapterTypeOK
<1>4. \A d \in Clients : ~Waits(d)'
  BY <1>1, <1>3 DEF SlotInv, SlotMatchesOwner, Owns, Waits
<1>5. CallsDistinct'
  BY <1>1, <1>3 DEF ExchangeInv, CallsDistinct
<1>6. ExchangeInv'
  BY <1>1, <1>2, <1>3, <1>4, <1>5 DEF ExchangeInv
<1> QED BY <1>1, <1>2, <1>6

LEMMA CommandsRespond == Nop \notin Commands /\ Garbled \notin Commands
BY AdapterAssumption DEF Commands, Nop, Garbled

(* signal_cmd matches the answer to the waiting client: its opcode is that of *)
(* the slot.                                                                  *)
LEMMA ExchangeResponseInv ==
  ASSUME PoolInv, SlotInv, ExchangeInv, ReadResponse
  PROVE  ExchangeInv'
<1>1. /\ response \in Commands /\ RemoveHead(Rsp)
      /\ signal' = Signalled(response.op)
      /\ UNCHANGED <<clientVars, slot, cmdBuffer, accepted, response>>
  BY DEF ReadResponse, ReceiveResponse, cpu2Vars
<1>2. Rsp \in ToSet(evtQueue) /\ Rsp \notin ToSet(evtQueue')
  BY <1>1, ResponseNode DEF Nodes
<1>3. PICK c \in Clients : Waits(c) /\ response = command[c]
  BY <1>1, <1>2, CommandsRespond DEF ExchangeInv
<1>4. slot = command[c].op
  BY <1>3 DEF SlotInv, SlotMatchesOwner, Owns, Waits
<1>5. signal' = "event" /\ cmdBuffer = None /\ accepted = <<>>
  BY <1>1, <1>3, <1>4 DEF ExchangeInv, Progress, Signalled
<1>6. UNCHANGED <<pc, command>>
  BY <1>1 DEF clientVars
<1>7. \A d \in Clients : (Waits(d)' <=> Waits(d)) /\ (Waits(d) => d = c)
  BY <1>3, <1>6 DEF Waits, SlotInv, SlotMatchesOwner, Owns
<1>8. Progress(c)'
  BY <1>1, <1>2, <1>3, <1>5, <1>6 DEF Progress
<1> QED BY <1>1, <1>2, <1>3, <1>6, <1>7, <1>8 DEF ExchangeInv, CallsDistinct

(* The Nop in the response node goes to the caller of `read`.                 *)
LEMMA ExchangeNoStatusInv ==
  ASSUME PoolInv, SlotInv, ExchangeInv, ReadNoStatus
  PROVE  ExchangeInv'
<1>1. /\ response = Nop /\ RemoveHead(Rsp)
      /\ UNCHANGED <<clientVars, slot, signal, cmdBuffer, accepted, response>>
  BY DEF ReadNoStatus, ReceivePacket, cpu2Vars
<1>2. Rsp \notin ToSet(evtQueue')
  BY <1>1, ResponseNode DEF Nodes
<1>3. \A c \in Clients : Waits(c) => response # command[c]
  BY <1>1, CommandsRespond DEF SlotInv, Waits
<1>4. UNCHANGED <<pc, command>>
  BY <1>1 DEF clientVars
<1>5. \A c \in Clients : (Waits(c)' <=> Waits(c)) /\ (Waits(c) /\ Progress(c) => Progress(c)')
  BY <1>1, <1>3, <1>4 DEF Waits, Progress
<1> QED BY <1>1, <1>2, <1>4, <1>5 DEF ExchangeInv, CallsDistinct

LEMMA ExchangeAcceptInv ==
  ASSUME SlotInv, ExchangeInv, Cpu2Accept
  PROVE  ExchangeInv'
<1>1. /\ cmdBuffer # None /\ cmdBuffer' = None /\ accepted' = Append(accepted, cmdBuffer)
      /\ UNCHANGED <<pc, command, signal, response, evtQueue>>
  BY DEF Cpu2Accept, poolVars, clientVars, slotVars
<1>2. PICK c \in Clients : Waits(c)
  BY <1>1 DEF ExchangeInv
<1>3. /\ cmdBuffer = command[c] /\ accepted = <<>>
      /\ signal = "empty" /\ response # command[c]
  BY <1>1, <1>2 DEF ExchangeInv, Progress
<1>4. accepted' = <<command[c]>>
  BY <1>1, <1>3
<1>5. \A d \in Clients : (Waits(d)' <=> Waits(d)) /\ (Waits(d) => d = c)
  BY <1>1, <1>2 DEF Waits, SlotInv, SlotMatchesOwner, Owns
<1>6. Progress(c)'
  BY <1>1, <1>3, <1>4 DEF Progress
<1> QED BY <1>1, <1>2, <1>5, <1>6 DEF ExchangeInv, CallsDistinct

LEMMA ExchangeAnswerInv ==
  ASSUME PoolInv, SlotInv, ExchangeInv, Cpu2Answer
  PROVE  /\ ExchangeInv'
         /\ UNCHANGED <<pc, command, outcome>>
         /\ \E c \in Clients : /\ Waits(c) /\ response # command[c]
                               /\ response' = command[c]
<1>1. /\ Cpu2Respond /\ accepted # <<>>
      /\ response' = Head(accepted) /\ accepted' = Tail(accepted)
      /\ UNCHANGED <<pc, command, outcome, signal, cmdBuffer>>
  BY DEF Cpu2Answer, clientVars, slotVars
<1>2. Rsp \notin ToSet(evtQueue) /\ Rsp \in ToSet(evtQueue')
  BY <1>1, ResponseNode
<1>3. PICK c \in Clients : Waits(c)
  BY <1>1 DEF ExchangeInv
<1>4. /\ cmdBuffer = None /\ accepted = <<command[c]>>
      /\ signal = "empty" /\ response # command[c]
  BY <1>1, <1>3 DEF ExchangeInv, Progress
<1>5. response' = command[c] /\ accepted' = <<>>
  BY <1>1, <1>4
<1>6. \A d \in Clients : (Waits(d)' <=> Waits(d)) /\ (Waits(d) => d = c)
  BY <1>1, <1>3 DEF Waits, SlotInv, SlotMatchesOwner, Owns
<1>7. Progress(c)'
  BY <1>1, <1>2, <1>4, <1>5 DEF Progress
<1>8. \A d \in Clients : pc[d] = "grab" => response' # command[d]
  BY <1>1, <1>3, <1>5 DEF ExchangeInv, CallsDistinct, Waits
<1>9. ExchangeInv'
  BY <1>1, <1>3, <1>5, <1>6, <1>7, <1>8 DEF ExchangeInv, CallsDistinct
<1> QED BY <1>1, <1>3, <1>4, <1>5, <1>9

(* CPU2 leaves an answer alone until its command's call is over and another   *)
(* command is in its hands; a garbled one answers nobody.                     *)
LEMMA ExchangeNopInv ==
  ASSUME PoolInv, SlotInv, ExchangeInv, Cpu2Garble \/ Cpu2Nop
  PROVE  /\ ExchangeInv'
         /\ UNCHANGED <<pc, command, outcome>>
         /\ \A c \in Clients : Waits(c) => response # command[c] /\ response' # command[c]
<1>1. /\ Cpu2Respond /\ (response \in {Nop, Garbled} \/ accepted # <<>>)
      /\ response' \in {Nop, Garbled}
      /\ accepted' = accepted \/ (accepted # <<>> /\ accepted' = Tail(accepted))
      /\ UNCHANGED <<pc, command, outcome, signal, cmdBuffer>>
  BY DEF Cpu2Garble, Cpu2Nop, clientVars, slotVars
<1>2. Rsp \notin ToSet(evtQueue) /\ Rsp \in ToSet(evtQueue')
  BY <1>1, ResponseNode
<1>3. \A c \in Clients : pc[c] # "idle" => command[c] \notin {Nop, Garbled}
  BY CommandsRespond DEF SlotInv
<1>4. \A c \in Clients : Waits(c) => response # command[c]
  BY <1>1, <1>3 DEF ExchangeInv, Progress, Waits
<1>5. ASSUME NEW c \in Clients, Waits(c) PROVE Progress(c)'
  <2>1. Progress(c)
    BY <1>5 DEF ExchangeInv
  <2>2. accepted = <<>> \/ accepted = <<command[c]>>
    BY <2>1 DEF Progress
  <2>3. accepted' = accepted \/ (accepted' = <<>> /\ cmdBuffer = None)
    <3>1. CASE accepted = <<>>
      BY <1>1, <3>1
    <3>2. CASE accepted = <<command[c]>>
      <4>1. cmdBuffer = None
        BY <2>1, <3>2 DEF Progress
      <4>2. Tail(accepted) = <<>>
        BY <3>2
      <4> QED BY <1>1, <4>1, <4>2
    <3> QED BY <2>2, <3>1, <3>2
  <2>4. signal = "empty" /\ response # command[c] /\ response' # command[c]
    BY <1>1, <1>3, <1>4, <1>5, <2>1 DEF Progress, Waits
  <2> QED BY <1>1, <2>1, <2>3, <2>4 DEF Progress
<1>6. \A c \in Clients : Waits(c)' <=> Waits(c)
  BY <1>1 DEF Waits
<1>7. (\E c \in Clients : Waits(c)) \/ (cmdBuffer' = None /\ accepted' = <<>>)
  BY <1>1 DEF ExchangeInv
<1>8. ExchangeInv'
  BY <1>1, <1>3, <1>5, <1>6, <1>7 DEF ExchangeInv, CallsDistinct
<1> QED BY <1>1, <1>3, <1>4, <1>8 DEF Waits

LEMMA PhasesStay ==
  ASSUME UNCHANGED <<pc, command, response>>
  PROVE  [c \in Clients |-> PhaseOf(c)]' = [c \in Clients |-> PhaseOf(c)]
BY DEF PhaseOf

LEMMA OneTurn ==
  ASSUME SlotInv, NEW c \in Clients, Waits(c)
  PROVE  \A d \in Clients : Waits(d) => d = c
BY DEF Waits, SlotInv, SlotMatchesOwner, Owns

(* A step keeps the invariant, and is one of the exchange or none.            *)
ExchangeStep ==
  /\ ExchangeInv'
  /\ [Exchange!Next]_<<[c \in Clients |-> PhaseOf(c)], command, outcome>>

LEMMA CallStep ==
  ASSUME SlotInv, ExchangeInv, NEW c \in Clients, NEW op \in Opcodes,
         NEW fits \in CommandFits, Call(c, op, fits)
  PROVE  ExchangeStep
<1>1. PICK new \in Commands : command' = [command EXCEPT ![c] = new]
  BY NewCommand
<1>2. /\ pc[c] = "idle" /\ pc' = [pc EXCEPT ![c] = "grab"]
      /\ UNCHANGED <<outcome, response>>
  BY DEF Call, cpu2Vars
<1>3. /\ pc \in [Clients -> PcStates] /\ command \in [Clients -> Commands \cup {None}]
      /\ pc'[c] = "grab" /\ \A d \in Clients \ {c} : pc'[d] = pc[d] /\ command'[d] = command[d]
  BY <1>1, <1>2 DEF SlotInv, AdapterTypeOK
<1>4. /\ PhaseOf(c) = "idle" /\ PhaseOf(c)' = "waiting"
      /\ \A d \in Clients \ {c} : PhaseOf(d)' = PhaseOf(d)
  BY <1>2, <1>3 DEF PhaseOf
<1>5. Exchange!Request(c, new)
  BY <1>1, <1>2, <1>4 DEF Exchange!Request
<1> QED BY <1>5, ExchangeCallInv DEF ExchangeStep, Exchange!Next

LEMMA GrabStep ==
  ASSUME Undisturbed, SlotInv, ExchangeInv, NEW c \in Clients, GrabSend(c)
  PROVE  ExchangeStep
<1>1. /\ ExchangeInv'
      /\ pc[c] = "grab" /\ \A d \in Clients : ~Waits(d)
      /\ pc' = [pc EXCEPT ![c] = "wait"]
      /\ response # command[c]
      /\ UNCHANGED <<command, outcome, response>>
  BY ExchangeGrabInv
<1>2. pc'[c] = "wait" /\ \A d \in Clients \ {c} : pc'[d] = pc[d]
  BY <1>1 DEF SlotInv, AdapterTypeOK
<1>3. /\ PhaseOf(c) = "waiting" /\ PhaseOf(c)' = "sent"
      /\ \A d \in Clients \ {c} : PhaseOf(d)' = PhaseOf(d)
      /\ \A d \in Clients : PhaseOf(d) \notin {"sent", "answered"}
  BY <1>1, <1>2 DEF PhaseOf, Waits
<1>4. Exchange!Send(c)
  BY <1>1, <1>3 DEF Exchange!Send
<1> QED BY <1>1, <1>4 DEF ExchangeStep, Exchange!Next

LEMMA ReturnStep ==
  ASSUME SlotInv, ExchangeInv, NEW c \in Clients, Return(c)
  PROVE  ExchangeStep
<1>1. /\ ExchangeInv'
      /\ pc[c] = "wait" /\ response = command[c]
      /\ pc' = [pc EXCEPT ![c] = "idle"]
      /\ command' = [command EXCEPT ![c] = None]
      /\ outcome' = command[c]
      /\ response' = response
  BY ExchangeReturnInv
<1>2. pc'[c] = "idle" /\ \A d \in Clients \ {c} : pc'[d] = pc[d] /\ command'[d] = command[d]
  BY <1>1 DEF SlotInv, AdapterTypeOK
<1>3. /\ PhaseOf(c) = "answered" /\ PhaseOf(c)' = "idle"
      /\ \A d \in Clients \ {c} : PhaseOf(d)' = PhaseOf(d)
  BY <1>1, <1>2 DEF PhaseOf
<1>4. Exchange!Return(c)
  BY <1>1, <1>3 DEF Exchange!Return
<1> QED BY <1>1, <1>4 DEF ExchangeStep, Exchange!Next

LEMMA AnswerStep ==
  ASSUME PoolInv, SlotInv, ExchangeInv, Cpu2Answer
  PROVE  ExchangeStep
<1>1. PICK c \in Clients : /\ Waits(c) /\ response # command[c]
                           /\ response' = command[c]
  BY ExchangeAnswerInv
<1>2. ExchangeInv' /\ UNCHANGED <<pc, command, outcome>>
  BY ExchangeAnswerInv
<1>3. \A d \in Clients : Waits(d) => d = c
  BY <1>1, OneTurn
<1>4. /\ PhaseOf(c) = "sent" /\ PhaseOf(c)' = "answered"
      /\ \A d \in Clients \ {c} : PhaseOf(d)' = PhaseOf(d)
  BY <1>1, <1>2, <1>3 DEF PhaseOf, Waits
<1>5. Exchange!Answer(c)
  BY <1>2, <1>4 DEF Exchange!Answer
<1> QED BY <1>2, <1>5 DEF ExchangeStep, Exchange!Next

LEMMA NopStep ==
  ASSUME PoolInv, SlotInv, ExchangeInv, Cpu2Garble \/ Cpu2Nop
  PROVE  ExchangeStep
<1>1. /\ ExchangeInv' /\ UNCHANGED <<pc, command, outcome>>
      /\ \A c \in Clients : Waits(c) => response # command[c] /\ response' # command[c]
  BY ExchangeNopInv
<1>2. \A c \in Clients : PhaseOf(c)' = PhaseOf(c)
  BY <1>1 DEF PhaseOf, Waits
<1> QED BY <1>1, <1>2 DEF ExchangeStep

(* The reader's and CPU2's steps that leave the clients alone.                *)
LEMMA QuietStep ==
  ASSUME ExchangeInv', UNCHANGED <<pc, command, outcome, response>>
  PROVE  ExchangeStep
BY PhasesStay DEF ExchangeStep

LEMMA KeptStep ==
  ASSUME ExchangeInv, UNCHANGED <<clientVars, slot, signal, cmdBuffer, accepted, response>>,
         Rsp \in ToSet(evtQueue') <=> Rsp \in ToSet(evtQueue)
  PROVE  ExchangeStep
BY ExchangeKept, QuietStep DEF clientVars

(* A garbled answer is dropped: nobody is told.                               *)
LEMMA GarbledStep ==
  ASSUME PoolInv, SlotInv, ExchangeInv, response = Garbled, RemoveHead(Rsp),
         UNCHANGED adapterVars
  PROVE  ExchangeStep
<1>1. UNCHANGED <<pc, command, outcome, signal, cmdBuffer, accepted, response>>
  BY DEF adapterVars, clientVars, slotVars, cpu2Vars
<1>2. Rsp \notin ToSet(evtQueue')
  BY ResponseNode DEF Nodes
<1>3. \A c \in Clients : Waits(c) => response # command[c]
  BY CommandsRespond DEF SlotInv, Waits
<1>4. \A c \in Clients : (Waits(c)' <=> Waits(c)) /\ (Waits(c) /\ Progress(c) => Progress(c)')
  BY <1>1, <1>3 DEF Waits, Progress
<1>5. ExchangeInv'
  BY <1>1, <1>2, <1>4 DEF ExchangeInv, CallsDistinct
<1> QED BY <1>1, <1>5, QuietStep

LEMMA NextStep ==
  ASSUME Undisturbed, PoolInv, SlotInv, ExchangeInv, [Next]_vars
  PROVE  ExchangeStep
<1>1. ASSUME NEW c \in Clients, NEW op \in Opcodes, NEW fits \in CommandFits,
             Call(c, op, fits)
      PROVE  ExchangeStep
  BY <1>1, CallStep
<1>2. ASSUME NEW c \in Clients, GrabSend(c) \/ GrabFlush(c) \/ FlushedSend(c) PROVE ExchangeStep
  BY <1>2, GrabStep, NeverFlushes
<1>3. ASSUME NEW c \in Clients, Return(c) PROVE ExchangeStep
  BY <1>3, ReturnStep
<1>4. ASSUME NEW c \in Clients, Cancel(c) PROVE FALSE
  BY <1>4 DEF Cancel, Undisturbed
<1>5. CASE \/ \E c \in Clients : GrabBlocked(c)
           \/ \E task \in Tasks : OtherPoll(task)
           \/ Read
           \/ UNCHANGED vars
  <2>1. UNCHANGED <<clientVars, slot, signal, cmdBuffer, accepted, response, evtQueue>>
    BY <1>5 DEF GrabBlocked, OtherPoll, Read, ReadStart, vars, poolVars, adapterVars,
                slotVars, cpu2Vars
  <2> QED BY <2>1, KeptStep
<1>6. CASE ReadPacket \/ ReadError
  <2>1. CASE \E b \in Buffers : RemoveHead(b)
    <3>1. Rsp \in ToSet(evtQueue') <=> Rsp \in ToSet(evtQueue)
      BY <2>1, ResponseNode, NodeAssumption DEF Nodes
    <3> QED BY <1>6, <3>1, KeptStep
         DEF ReadPacket, ReadError, adapterVars, slotVars, cpu2Vars
  <2>2. CASE response = Garbled /\ ReceiveError(Rsp) /\ UNCHANGED adapterVars
    BY <2>2, GarbledStep DEF ReceiveError
  <2> QED BY <1>6, <2>1, <2>2 DEF ReadPacket, ReadError, ReceivePacket, ReceiveError, Nodes
<1>7. CASE ReadNoStatus
  BY <1>7, ExchangeNoStatusInv, QuietStep DEF ReadNoStatus, clientVars, cpu2Vars
<1>8. CASE ReadResponse
  BY <1>8, ExchangeResponseInv, QuietStep DEF ReadResponse, clientVars, cpu2Vars
<1>9. CASE Cpu2Accept
  BY <1>9, ExchangeAcceptInv, QuietStep DEF Cpu2Accept, clientVars
<1>10. CASE Cpu2Answer
  BY <1>10, AnswerStep
<1>11. CASE Cpu2Garble \/ Cpu2Nop
  BY <1>11, NopStep
<1>12. CASE \E b \in Buffers, kind \in Kinds : PoolStep(Cpu2Post(b, kind))
  BY <1>12, ResponseNode, KeptStep DEF PoolStep, adapterVars, slotVars, cpu2Vars
<1>13. CASE \/ PoolStep(ReceiveNothing) \/ PoolStep(ReadCancelled)
            \/ PoolStep(Cpu2Notify) \/ PoolStep(Cpu2Reclaim) \/ PoolStep(Cpu2ReleaseDone)
            \/ PoolStep(MmPoll) \/ PoolStep(MmFlushed)
  <2>1. UNCHANGED <<adapterVars, evtQueue>>
    BY <1>13 DEF PoolStep, ReceiveNothing, ReadCancelled, Cpu2Notify, Cpu2Reclaim,
                 Cpu2ReleaseDone, MmPoll, MmFlushed
  <2> QED BY <2>1, KeptStep DEF adapterVars, slotVars, cpu2Vars
<1> QED
  BY <1>1, <1>2, <1>3, <1>4, <1>5, <1>6, <1>7, <1>8, <1>9, <1>10, <1>11, <1>12, <1>13
     DEF Next

LEMMA AdapterPoolInvariant == Spec => []PoolInv
BY AdapterPoolSpec, PoolInvariant, PTL

(* While no future of exec is dropped and every command can be written, every *)
(* reachable state satisfies the inductive invariant of the exchange.         *)
THEOREM ExchangeInvariant == ASSUME Undisturbed PROVE Spec => []ExchangeInv
<1>1. PoolInv /\ SlotInv /\ ExchangeInv /\ [Next]_vars => ExchangeInv'
  BY NextStep DEF ExchangeStep
<1> QED BY <1>1, ExchangeInitInv, AdapterPoolInvariant, SlotInvariant, PTL DEF Spec

(* While no future of exec is dropped and every command can be written: when  *)
(* the signal is raised, the response buffer holds the answer to the very     *)
(* command of the client that waits on it, though responses are matched by    *)
(* opcode alone.                                                              *)
THEOREM AnswersAreOwn == ASSUME Undisturbed PROVE Spec => []AnswerIsOwn
<1>1. SlotInv /\ ExchangeInv => AnswerIsOwn
  <2> SUFFICES ASSUME SlotInv, ExchangeInv, signal # "empty" PROVE AnswerIsOwn
    BY DEF AnswerIsOwn
  <2>1. PICK c \in Clients : Waits(c)
    BY DEF SlotInv, SignalHasOwner, Owns, ExchangeInv, Waits
  <2> QED BY <2>1 DEF ExchangeInv, Progress, AnswerIsOwn, Waits
<1> QED BY <1>1, ExchangeInvariant, SlotInvariant, PTL

(* exec is what CommandExchange promises: one command at a time, each         *)
(* answered by its own answer, for any clients, tasks and opcodes.            *)
THEOREM AdapterImplementsExchange ==
  ASSUME Undisturbed PROVE Spec => ImplementsExchange
<1>1. Init => Exchange!Init
  BY DEF Init, Exchange!Init, PhaseOf
<1>2. /\ PoolInv /\ SlotInv /\ ExchangeInv /\ [Next]_vars
      => [Exchange!Next]_<<[c \in Clients |-> PhaseOf(c)], command, outcome>>
  BY NextStep DEF ExchangeStep
<1> QED BY <1>1, <1>2, ExchangeInvariant, AdapterPoolInvariant, SlotInvariant, PTL
        DEF Spec, ImplementsExchange, Exchange!Spec, Exchange!vars
===============================================================================
