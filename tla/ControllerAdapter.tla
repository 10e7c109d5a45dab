--------------------------- MODULE ControllerAdapter ---------------------------
(* bt-hci's Controller over the mailbox: ControllerAdapter of                 *)
(* examples/embassy/src/transport.rs, on top of the buffers of EventPool.     *)
(*                                                                            *)
(* Clients call `exec`; one caller loops over `read`.  A client takes the     *)
(* slot for its opcode, writes the command, rings the command channel and     *)
(* waits on the signal.  `read` matches each response to the slot and         *)
(* signals; the client then decodes the response buffer and drops the guard.  *)
(* A future runs without interruption between two awaits, so each action of a *)
(* client or of the reader is what one poll does; CPU2 runs at any time.      *)
(*                                                                            *)
(* The waker of blocked clients is embassy's AtomicWaker: one registration,   *)
(* that a later one replaces without waking, and that `wake` keeps.           *)
EXTENDS EventPool

CONSTANTS
  Clients,      \* callers of `exec`
  Tasks,        \* executor tasks
  TaskOf,       \* the task that polls the exec future of each client
  Opcodes,
  Reset,        \* the opcode of HCI_Reset
  Cancelled,    \* exec returns OPERATION_CANCELLED_BY_HOST
  WriteError,   \* exec returns the error of the writer
  CommandFits,  \* whether the commands can be too long for the writer
  CanCancel,    \* whether a caller may drop the future of `exec`
  Ids           \* names for the commands in hand: more than there are clients,
                \* and a bound on the commands of dropped calls CPU2 may hold

ASSUME AdapterAssumption ==
  /\ TaskOf \in [Clients -> Tasks]
  /\ Reset \in Opcodes
  /\ None \notin Opcodes \cup Tasks
  /\ CommandFits \subseteq BOOLEAN
  /\ CanCancel \in BOOLEAN
  /\ None \notin Ids

VARIABLES
  pc,          \* where each client's exec is suspended
  command,     \* the command of its current call
  outcome,     \* what the last call that ended returned
  asleep,      \* clients blocked in grab_slot and not due to be polled
  waker,       \* the task registered in `waker`
  slot,        \* the opcode awaiting a response
  signal,      \* the content of `signal`
  ccNoStatus,  \* cc_no_status
  cmdBuffer,   \* the command in BLE_CMD_BUFFER while the flag of the BLE
               \* command channel is set, None once CPU2 has cleared it
  accepted,    \* commands CPU2 read and has not answered
  response     \* the content of the response node

clientVars == <<pc, command, outcome>>
slotVars == <<slot, signal, ccNoStatus>>
wakeVars == <<asleep, waker>>
cpu2Vars == <<accepted, response>>
adapterVars == <<clientVars, slotVars, wakeVars, cmdBuffer, cpu2Vars>>
vars == <<poolVars, adapterVars>>

Commands == [id : Ids, op : Opcodes, fits : CommandFits]

(* A Command Complete without status, or a buffer never written.              *)
Nop == [id |-> None, op |-> None, fits |-> TRUE]

(* A response whose bytes do not decode.                                      *)
Garbled == [id |-> None, op |-> None, fits |-> FALSE]

PcStates == {"idle", "grab", "flush", "wait"}

AdapterTypeOK ==
  /\ pc \in [Clients -> PcStates]
  /\ command \in [Clients -> Commands \cup {None}]
  /\ outcome \in Commands \cup {None, Nop, Garbled, Cancelled, WriteError}
  /\ asleep \subseteq Clients
  /\ waker \in Tasks \cup {None}
  /\ slot \in Opcodes \cup {None}
  /\ signal \in {"empty", "event", "none"}
  /\ ccNoStatus \in BOOLEAN
  /\ cmdBuffer \in Commands \cup {None}
  /\ accepted \in Seq(Commands)
  /\ response \in Commands \cup {Nop, Garbled}

TypeOK == PoolTypeOK /\ AdapterTypeOK

Init ==
  /\ PoolInit
  /\ pc = [c \in Clients |-> "idle"]
  /\ command = [c \in Clients |-> None]
  /\ outcome = None
  /\ asleep = {}
  /\ waker = None
  /\ slot = None
  /\ signal = "empty"
  /\ ccNoStatus = FALSE
  /\ cmdBuffer = None
  /\ accepted = <<>>
  /\ response = Nop

-------------------------------------------------------------------------------
(* The clients.                                                               *)

ClientsOf(task) == {c \in Clients : TaskOf[c] = task}

(* The commands between a caller and CPU2, and the one the response node      *)
(* answers.                                                                   *)
InHand ==
  {command[c] : c \in {d \in Clients : pc[d] # "idle"}}
    \cup ({cmdBuffer} \ {None}) \cup ToSet(accepted) \cup {response}

FreeIds == Ids \ {inHand.id : inHand \in InHand}

Call(c, op, fits) ==
  /\ pc[c] = "idle"
  /\ FreeIds # {}
  /\ op = Reset => fits      \* it has no parameters
  /\ command' = [command EXCEPT ![c] =
                    [id |-> CHOOSE id \in FreeIds : TRUE, op |-> op, fits |-> fits]]
  /\ pc' = [pc EXCEPT ![c] = "grab"]
  /\ UNCHANGED <<poolVars, outcome, slotVars, wakeVars, cmdBuffer, cpu2Vars>>

(* Mutants of DropGuard: a signal is left over; nobody is woken.              *)
DropGuardKeepsSignal(task) ==
  /\ slot' = None
  /\ asleep' = asleep \ ClientsOf(task)
  /\ UNCHANGED signal

DropGuardSilently(task) ==
  /\ slot' = None
  /\ signal' = "empty"
  /\ UNCHANGED asleep

(* SlotGuard::drop, with `task` registered in the waker.                      *)
DropGuard(task) ==
  /\ slot' = None
  /\ signal' = "empty"
  /\ asleep' = asleep \ ClientsOf(task)

Finish(c, result) ==
  /\ pc' = [pc EXCEPT ![c] = "idle"]
  /\ command' = [command EXCEPT ![c] = None]
  /\ outcome' = result

(* The closure of `cmd.send` and the flag set after it, which a write error   *)
(* does not prevent, then `ret?` or the wait for the signal.                  *)
SendCommand(c, task) ==
  /\ cmdBuffer' = command[c]
  /\ \/ command[c].fits
        /\ pc' = [pc EXCEPT ![c] = "wait"]
        /\ slot' = command[c].op
        /\ UNCHANGED <<command, outcome, signal, asleep>>
     \/ ~command[c].fits
        /\ Finish(c, WriteError)
        /\ DropGuard(task)

(* Mutant of Blocked: the slot is not checked.                                *)
BlockedByNoStatus == ccNoStatus

Blocked == slot # None \/ ccNoStatus

Polled(c) == pc[c] = "grab" /\ c \notin asleep

(* grab_slot returns Pending.                                                 *)
GrabBlocked(c) ==
  /\ Polled(c)
  /\ Blocked
  /\ waker' = TaskOf[c]
  /\ asleep' = asleep \cup {c}
  /\ UNCHANGED <<poolVars, clientVars, slotVars, cmdBuffer, cpu2Vars>>

(* grab_slot returns the guard, and the command channel is free.              *)
GrabSend(c) ==
  /\ Polled(c)
  /\ ~Blocked
  /\ cmdBuffer = None
  /\ waker' = TaskOf[c]
  /\ SendCommand(c, TaskOf[c])
  /\ UNCHANGED <<poolVars, ccNoStatus, cpu2Vars>>

(* grab_slot returns the guard, and CPU2 has not read the last command yet.   *)
GrabFlush(c) ==
  /\ Polled(c)
  /\ ~Blocked
  /\ cmdBuffer # None
  /\ waker' = TaskOf[c]
  /\ slot' = command[c].op
  /\ pc' = [pc EXCEPT ![c] = "flush"]
  /\ UNCHANGED <<poolVars, command, outcome, signal, ccNoStatus, asleep,
                 cmdBuffer, cpu2Vars>>

FlushedSend(c) ==
  /\ pc[c] = "flush"
  /\ cmdBuffer = None
  /\ SendCommand(c, waker)
  /\ UNCHANGED <<poolVars, ccNoStatus, waker, cpu2Vars>>

(* The signal is taken, the response buffer decoded and the guard dropped.    *)
Return(c) ==
  /\ pc[c] = "wait"
  /\ signal # "empty"
  /\ Finish(c, IF signal = "none" THEN Cancelled ELSE response)
  /\ DropGuard(waker)
  /\ UNCHANGED <<poolVars, ccNoStatus, waker, cmdBuffer, cpu2Vars>>

(* Mutant of Cancel: the slot is not guarded until the command is sent.       *)
CancelUnguarded(c) ==
  /\ CanCancel
  /\ pc[c] # "idle"
  /\ Finish(c, None)
  /\ \/ pc[c] = "wait" /\ DropGuard(waker)
     \/ pc[c] # "wait" /\ asleep' = asleep \ {c} /\ UNCHANGED <<slot, signal>>
  /\ UNCHANGED <<poolVars, ccNoStatus, waker, cmdBuffer, cpu2Vars>>

(* The caller drops the future: the guard, if it was taken, goes with it.     *)
Cancel(c) ==
  /\ CanCancel
  /\ pc[c] # "idle"
  /\ Finish(c, None)
  /\ \/ pc[c] = "grab" /\ asleep' = asleep \ {c} /\ UNCHANGED <<slot, signal>>
     \/ pc[c] # "grab" /\ DropGuard(waker)
  /\ UNCHANGED <<poolVars, ccNoStatus, waker, cmdBuffer, cpu2Vars>>

(* Another event of its task polls a blocked client again.                    *)
OtherPoll(task) ==
  /\ asleep \cap ClientsOf(task) # {}
  /\ asleep' = asleep \ ClientsOf(task)
  /\ UNCHANGED <<poolVars, clientVars, slotVars, waker, cmdBuffer, cpu2Vars>>

-------------------------------------------------------------------------------
(* The reader.                                                                *)

(* Mutant of Read: cc_no_status is cleared without a wake-up.                 *)
ReadSilently ==
  /\ ReadStart
  /\ ccNoStatus' = FALSE
  /\ UNCHANGED <<clientVars, slot, signal, wakeVars, cmdBuffer, cpu2Vars>>

Read ==
  /\ ReadStart
  /\ ccNoStatus' = FALSE
  /\ asleep' = IF ccNoStatus THEN asleep \ ClientsOf(waker) ELSE asleep
  /\ UNCHANGED <<clientVars, slot, signal, waker, cmdBuffer, cpu2Vars>>

ReadPacket ==
  /\ \E b \in Buffers : ReceivePacket(b)
  /\ UNCHANGED adapterVars

(* The `?` of read_pkt and of the two decoders of responses.  An answer that  *)
(* ends here reaches nobody.                                                  *)
ReadError ==
  /\ \E node \in Nodes :
       /\ ReceiveError(node)
       /\ node = Rsp => response = Garbled
  /\ UNCHANGED adapterVars

(* "Store the pending event and block commands until the next read".          *)
ReadNoStatus ==
  /\ response = Nop
  /\ ReceivePacket(Rsp)
  /\ ccNoStatus' = TRUE
  /\ UNCHANGED <<clientVars, slot, signal, wakeVars, cmdBuffer, cpu2Vars>>

(* Mutant of Signalled: Reset is looked at before the slot.                   *)
SignalledResetFirst(op) ==
  IF slot # None /\ op = Reset THEN "none"
  ELSE IF slot = op THEN "event"
  ELSE signal

(* signal_cmd.                                                                *)
Signalled(op) ==
  IF slot = op THEN "event"
  ELSE IF slot # None /\ op = Reset THEN "none"
  ELSE signal

ReadResponse ==
  /\ response \in Commands
  /\ ReceiveResponse
  /\ signal' = Signalled(response.op)
  /\ UNCHANGED <<clientVars, slot, ccNoStatus, wakeVars, cmdBuffer, cpu2Vars>>

-------------------------------------------------------------------------------
(* CPU2, external.                                                            *)

Cpu2Accept ==
  /\ cmdBuffer # None
  /\ cmdBuffer' = None
  /\ accepted' = Append(accepted, cmdBuffer)
  /\ UNCHANGED <<poolVars, clientVars, slotVars, wakeVars, response>>

Cpu2Answer ==
  /\ Cpu2Respond
  /\ accepted # <<>>
  /\ response' = Head(accepted)
  /\ accepted' = Tail(accepted)
  /\ UNCHANGED <<clientVars, slotVars, wakeVars, cmdBuffer>>

(* The answer is no Command Complete or Command Status that decodes.          *)
Cpu2Garble ==
  /\ Cpu2Respond
  /\ accepted # <<>>
  /\ response' = Garbled
  /\ accepted' = Tail(accepted)
  /\ UNCHANGED <<clientVars, slotVars, wakeVars, cmdBuffer>>

(* A Command Complete without status.  Between an answer and the next command *)
(* CPU2 leaves the response node alone, as `exec` needs to decode it.         *)
Cpu2Nop ==
  /\ Cpu2Respond
  /\ response \in {Nop, Garbled} \/ accepted # <<>>
  /\ response' = Nop
  /\ UNCHANGED <<clientVars, slotVars, wakeVars, cmdBuffer, accepted>>

(* Steps of EventPool that do not involve commands.                           *)
PoolStep(step) == step /\ UNCHANGED adapterVars

-------------------------------------------------------------------------------
Next ==
  \/ \E c \in Clients :
       \/ \E op \in Opcodes, fits \in CommandFits : Call(c, op, fits)
       \/ GrabBlocked(c)
       \/ GrabSend(c)
       \/ GrabFlush(c)
       \/ FlushedSend(c)
       \/ Return(c)
       \/ Cancel(c)
  \/ \E task \in Tasks : OtherPoll(task)
  \/ Read
  \/ ReadPacket
  \/ ReadError
  \/ ReadNoStatus
  \/ ReadResponse
  \/ PoolStep(ReceiveNothing)
  \/ PoolStep(ReadCancelled)
  \/ Cpu2Accept
  \/ Cpu2Answer
  \/ Cpu2Garble
  \/ Cpu2Nop
  \/ \E b \in Buffers, kind \in Kinds : PoolStep(Cpu2Post(b, kind))
  \/ PoolStep(Cpu2Notify)
  \/ PoolStep(Cpu2Reclaim)
  \/ PoolStep(Cpu2ReleaseDone)
  \/ PoolStep(MmPoll)
  \/ PoolStep(MmFlushed)

Spec == Init /\ [][Next]_vars

Grab(c) == GrabBlocked(c) \/ GrabSend(c) \/ GrabFlush(c)

ReadReceives ==
  ReadPacket \/ ReadError \/ ReadNoStatus \/ ReadResponse \/ PoolStep(ReceiveNothing)

(* A client that is due to be polled is polled; the application keeps reading *)
(* ("Events must be read, as below, for commands to complete"); CPU2 serves   *)
(* its interrupts and answers what it accepted.  OtherPoll, Call, Cancel and  *)
(* CPU2's own events owe nothing.                                             *)
Fairness ==
  /\ \A c \in Clients :
       WF_vars(Grab(c)) /\ WF_vars(FlushedSend(c)) /\ WF_vars(Return(c))
  /\ WF_vars(Read)
  /\ SF_vars(ReadReceives)
  /\ WF_vars(Cpu2Accept)
  /\ SF_vars(Cpu2Answer)
  /\ WF_vars(PoolStep(Cpu2Notify))
  /\ WF_vars(PoolStep(Cpu2Reclaim))
  /\ WF_vars(PoolStep(Cpu2ReleaseDone))
  /\ WF_vars(PoolStep(MmPoll))
  /\ WF_vars(PoolStep(MmFlushed))

FairSpec == Spec /\ Fairness

-------------------------------------------------------------------------------
(* Properties.                                                                *)

Owns(c) == pc[c] \in {"flush", "wait"}

(* The slot serialises calls that span several polls: at most one client is   *)
(* past grab_slot, and the slot holds the opcode of its command.              *)
SlotMatchesOwner ==
  /\ \A c, d \in Clients : Owns(c) /\ Owns(d) => c = d
  /\ \A c \in Clients : Owns(c) => slot = command[c].op
  /\ slot # None => \E c \in Clients : Owns(c)

(* A signal never outlives the call it was raised for, even when that call    *)
(* was dropped or failed: a new command does not start with an old answer.    *)
SignalHasOwner == signal # "empty" => \E c \in Clients : Owns(c)

(* A blocked client that nobody will poll is really blocked: whoever frees    *)
(* the slot or clears cc_no_status has woken it.                              *)
SleepersAreBlocked == asleep # {} => Blocked

(* "Store the pending event and block commands until the next read": while    *)
(* cc_no_status is set no command is handed to CPU2 (transport.rs:498).       *)
(* grab_slot alone looks at it, so a call past it that waits for the command  *)
(* channel hands its command over all the same.                               *)
CommandsHeldBack == [][ccNoStatus /\ cmdBuffer' # None => cmdBuffer # None]_vars

(* When the signal is raised the response buffer holds the answer to the very *)
(* command of the waiting client, and stays so until the client decodes it.   *)
AnswerIsOwn ==
  signal # "empty" =>
    /\ signal = "event"
    /\ \E c \in Clients : pc[c] = "wait" /\ response = command[c]

(* Another call leaves grab_slot, or the next command is held back, while a   *)
(* call may be waiting for its turn: grab_slot is first come, first served.   *)
Overtaken(c) ==
  \/ \E d \in Clients \ {c} : pc[d] = "grab" /\ pc'[d] # "grab"
  \/ ~ccNoStatus /\ ccNoStatus'

(* "Events must be read, as below, for commands to complete": with a caller   *)
(* that keeps reading, and answers that decode, a call that has the slot      *)
(* returns, and one that has not gets it unless others, or Command Completes  *)
(* without status, are before it again and again.                             *)
ExecCompletes ==
  [](response # Garbled) =>
    \A c \in Clients :
      /\ Owns(c) ~> pc[c] = "idle"
      /\ (pc[c] = "grab" ~> pc[c] # "grab") \/ []<><<Overtaken(c)>>_vars

(* How far the call of a client is: a command is in CPU2's hands until the    *)
(* response node holds its answer.                                            *)
PhaseOf(c) ==
  IF pc[c] = "wait" THEN IF response = command[c] THEN "answered" ELSE "sent"
  ELSE IF pc[c] = "idle" THEN "idle"
  ELSE "waiting"

(* Without dropped futures and write errors, calls are an exchange of one     *)
(* command at a time, each answered by its own answer.                        *)
Exchange == INSTANCE CommandExchange WITH
  phase <- [c \in Clients |-> PhaseOf(c)],
  request <- command,
  got <- outcome

ImplementsExchange == Exchange!Spec
===============================================================================
