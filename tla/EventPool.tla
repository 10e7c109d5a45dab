------------------------------- MODULE EventPool -------------------------------
(* The life of an event buffer between the two cores of the STM32WB55, in     *)
(* examples/embassy/src/transport.rs.                                         *)
(*                                                                            *)
(* CPU2 (external) fills a buffer of EVT_POOL, appends it to EVT_QUEUE and    *)
(* sets the flag of the BLE event channel.  The host's `read` removes the     *)
(* head; the packet it returns stays in `pending_evt` until the next `read`.  *)
(* Dropping an EvtBox puts the buffer on LOCAL_FREE_BUF_QUEUE and wakes the   *)
(* memory-manager task, which moves the list to FREE_BUF_QUEUE and sets the   *)
(* flag of the release channel; CPU2 takes the buffers back and clears it.    *)
(*                                                                            *)
(* An IPCC flag is the ownership of the shared list behind it.  embassy's     *)
(* `receive(f)` calls f while the flag is set and clears the flag only when f *)
(* returns None; its `send(f)` calls f while the flag is clear, then sets it. *)
(* CPU2 answers a command through a node outside the pool, `Rsp` ("Packets    *)
(* with CC or CS opcode are not managed by the memory manager").              *)
EXTENDS SequencesExt

CONSTANTS
  Buffers,        \* the CFG_TL_BLE_EVT_QUEUE_LENGTH buffers of EVT_POOL
  Rsp,            \* the node CPU2 answers commands through
  None,           \* no packet
  Kinds,          \* the packets CPU2 sends in a pool buffer
  Undecodable,    \* those from_hci_bytes refuses
  ResponseCoded   \* those whose byte at evt_code is 0x0E or 0x0F

Nodes == Buffers \cup {Rsp}

ASSUME NodeAssumption == Rsp \notin Buffers /\ None \notin Nodes

ASSUME KindAssumption == Undecodable \subseteq Kinds /\ ResponseCoded \subseteq Kinds

VARIABLES
  pool,        \* EVT_POOL buffers CPU2 may fill
  contents,    \* what each pool buffer holds
  evtQueue,    \* EVT_QUEUE, first to remove at the head
  evtFlag,     \* BLE event channel: TRUE while the host owns EVT_QUEUE
  reading,     \* a `read` is past its first statements and inside `receive`
  pending,     \* pending_evt
  localFree,   \* LOCAL_FREE_BUF_QUEUE
  freeQueue,   \* FREE_BUF_QUEUE
  relFlag,     \* release channel: TRUE while CPU2 owns FREE_BUF_QUEUE
  mm           \* run_queue: "ready" to be polled, "asleep" or in "flush"

hostVars == <<reading, pending>>
releaseVars == <<localFree, freeQueue, relFlag, mm>>
poolVars == <<pool, contents, evtQueue, evtFlag, hostVars, releaseVars>>

MmStates == {"ready", "asleep", "flush"}

PoolTypeOK ==
  /\ pool \subseteq Buffers
  /\ contents \in [Buffers -> Kinds]
  /\ evtQueue \in Seq(Nodes)
  /\ evtFlag \in BOOLEAN
  /\ reading \in BOOLEAN
  /\ pending \in Nodes \cup {None}
  /\ localFree \in Seq(Buffers)
  /\ freeQueue \in Seq(Buffers)
  /\ relFlag \in BOOLEAN
  /\ mm \in MmStates

(* The buffer of the system-ready event, if it came from the pool, was        *)
(* dropped by Sys::read_ready before run_queue is spawned.                    *)
PoolInit ==
  /\ localFree \in {<<>>} \cup {<<early>> : early \in Buffers}
  /\ pool = Buffers \ ToSet(localFree)
  /\ contents \in [Buffers -> Kinds]
  /\ evtQueue = <<>>
  /\ freeQueue = <<>>
  /\ evtFlag = FALSE
  /\ relFlag = FALSE
  /\ reading = FALSE
  /\ pending = None
  /\ mm = "ready"

-------------------------------------------------------------------------------
(* CPU2, external: it works on a shared list only while it owns its flag.     *)

Cpu2Post(b, kind) ==
  /\ ~evtFlag
  /\ b \in pool
  /\ pool' = pool \ {b}
  /\ contents' = [contents EXCEPT ![b] = kind]
  /\ evtQueue' = Append(evtQueue, b)
  /\ UNCHANGED <<evtFlag, hostVars, releaseVars>>

Cpu2Respond ==
  /\ ~evtFlag
  /\ Rsp \notin ToSet(evtQueue)
  /\ evtQueue' = Append(evtQueue, Rsp)
  /\ UNCHANGED <<pool, contents, evtFlag, hostVars, releaseVars>>

Cpu2Notify ==
  /\ ~evtFlag
  /\ evtQueue # <<>>
  /\ evtFlag' = TRUE
  /\ UNCHANGED <<pool, contents, evtQueue, hostVars, releaseVars>>

Cpu2Reclaim ==
  /\ relFlag
  /\ freeQueue # <<>>
  /\ pool' = pool \cup {Head(freeQueue)}
  /\ freeQueue' = Tail(freeQueue)
  /\ UNCHANGED <<contents, evtQueue, evtFlag, hostVars, localFree, relFlag, mm>>

Cpu2ReleaseDone ==
  /\ relFlag
  /\ freeQueue = <<>>
  /\ relFlag' = FALSE
  /\ UNCHANGED <<pool, contents, evtQueue, evtFlag, hostVars, localFree, freeQueue, mm>>

-------------------------------------------------------------------------------
(* The host.                                                                  *)

(* Mutant of Woken: drop_event_packet does not wake the task.                 *)
WokenNever(state) == state

(* MM_WAKER.wake: only a task that registered and found nothing needs it.     *)
Woken(state) == IF state = "asleep" THEN "ready" ELSE state

(* EvtBox<Ble>::drop.                                                         *)
DropEvt(node) ==
  IF node \in Buffers /\ contents[node] \notin ResponseCoded
  THEN /\ localFree' = Cons(node, localFree)
       /\ mm' = Woken(mm)
  ELSE UNCHANGED <<localFree, mm>>

(* Mutant of ReadStart: the pending packet is dropped but not taken.          *)
ReadStartNotTaken ==
  /\ ~reading
  /\ reading' = TRUE
  /\ DropEvt(pending)
  /\ UNCHANGED <<pool, contents, evtQueue, evtFlag, pending, freeQueue, relFlag>>

(* `read` up to its first await: the packet of the last read is dropped.      *)
ReadStart ==
  /\ ~reading
  /\ reading' = TRUE
  /\ pending' = None
  /\ DropEvt(pending)
  /\ UNCHANGED <<pool, contents, evtQueue, evtFlag, freeQueue, relFlag>>

(* Mutant of RemoveHead: the node stays linked.                               *)
PeekHead(node) ==
  /\ reading
  /\ evtFlag
  /\ evtQueue # <<>>
  /\ node = Head(evtQueue)
  /\ UNCHANGED <<pool, contents, evtQueue, evtFlag, freeQueue, relFlag>>

(* remove_head inside `receive`: the flag stays set.                          *)
RemoveHead(node) ==
  /\ reading
  /\ evtFlag
  /\ evtQueue # <<>>
  /\ node = Head(evtQueue)
  /\ evtQueue' = Tail(evtQueue)
  /\ UNCHANGED <<pool, contents, evtFlag, freeQueue, relFlag>>

(* Mutants of ReceivePacket: the flag is cleared after each packet; the       *)
(* packet is dropped when `read` returns it.                                  *)
ReceivePacketClears(node) ==
  /\ reading
  /\ evtFlag
  /\ evtQueue # <<>>
  /\ node = Head(evtQueue)
  /\ evtQueue' = Tail(evtQueue)
  /\ evtFlag' = FALSE
  /\ pending' = node
  /\ reading' = FALSE
  /\ UNCHANGED <<pool, contents, releaseVars>>

ReceivePacketDropped(node) ==
  /\ RemoveHead(node)
  /\ pending' = node
  /\ reading' = FALSE
  /\ DropEvt(node)

(* A packet for the caller: stored until the next read.                       *)
ReceivePacket(node) ==
  /\ RemoveHead(node)
  /\ node \in Buffers => contents[node] \notin Undecodable
  /\ pending' = node
  /\ reading' = FALSE
  /\ UNCHANGED <<localFree, mm>>

(* Mutant of ReceiveError: the node of a packet that does not decode is lost. *)
ReceiveErrorForgets(node) ==
  /\ RemoveHead(node)
  /\ node \in Buffers => contents[node] \in Undecodable
  /\ reading' = FALSE
  /\ UNCHANGED <<pending, localFree, mm>>

(* `read` returns an error: `?` drops the EvtBox.                             *)
ReceiveError(node) ==
  /\ RemoveHead(node)
  /\ node \in Buffers => contents[node] \in Undecodable
  /\ reading' = FALSE
  /\ DropEvt(node)
  /\ UNCHANGED pending

(* A response with a status goes to signal_cmd and `read` continues.          *)
ReceiveResponse ==
  /\ RemoveHead(Rsp)
  /\ UNCHANGED <<hostVars, localFree, mm>>

(* The list is empty: `receive` gives it back to CPU2 and keeps waiting.      *)
ReceiveNothing ==
  /\ reading
  /\ evtFlag
  /\ evtQueue = <<>>
  /\ evtFlag' = FALSE
  /\ UNCHANGED <<pool, contents, evtQueue, hostVars, releaseVars>>

(* The caller drops the future of `read` while it waits.                      *)
ReadCancelled ==
  /\ reading
  /\ reading' = FALSE
  /\ UNCHANGED <<pool, contents, evtQueue, evtFlag, pending, releaseVars>>

-------------------------------------------------------------------------------
(* MemoryManager::run_queue.                                                  *)

(* Mutant of HandBack: the flag is not set.                                   *)
HandBackSilently ==
  /\ freeQueue' = Reverse(localFree) \o freeQueue
  /\ localFree' = <<>>
  /\ mm' = "asleep"
  /\ UNCHANGED relFlag

(* The closure of `release.send` and the flag set after it; the loop then     *)
(* registers the waker and finds the list empty.                              *)
HandBack ==
  /\ freeQueue' = Reverse(localFree) \o freeQueue
  /\ localFree' = <<>>
  /\ relFlag' = TRUE
  /\ mm' = "asleep"

MmPoll ==
  /\ mm = "ready"
  /\ \/ localFree = <<>> /\ mm' = "asleep" /\ UNCHANGED <<localFree, freeQueue, relFlag>>
     \/ localFree # <<>> /\ relFlag /\ mm' = "flush"
        /\ UNCHANGED <<localFree, freeQueue, relFlag>>
     \/ localFree # <<>> /\ ~relFlag /\ HandBack
  /\ UNCHANGED <<pool, contents, evtQueue, evtFlag, hostVars>>

MmFlushed ==
  /\ mm = "flush"
  /\ ~relFlag
  /\ HandBack
  /\ UNCHANGED <<pool, contents, evtQueue, evtFlag, hostVars>>

-------------------------------------------------------------------------------
Receive ==
  \/ \E node \in Nodes : ReceivePacket(node) \/ ReceiveError(node)
  \/ ReceiveResponse
  \/ ReceiveNothing

PoolNext ==
  \/ \E b \in Buffers, kind \in Kinds : Cpu2Post(b, kind)
  \/ Cpu2Respond
  \/ Cpu2Notify
  \/ Cpu2Reclaim
  \/ Cpu2ReleaseDone
  \/ ReadStart
  \/ \E node \in Nodes : ReceivePacket(node)
  \/ \E node \in Nodes : ReceiveError(node)
  \/ ReceiveResponse
  \/ ReceiveNothing
  \/ ReadCancelled
  \/ MmPoll
  \/ MmFlushed

PoolSpec == PoolInit /\ [][PoolNext]_poolVars

(* The executor polls a woken task; CPU2 serves its mailbox interrupts; the   *)
(* application keeps reading.  A read whose first poll finds the flag set     *)
(* receives in that poll, so cancelled reads cannot starve Receive: SF.       *)
PoolFairness ==
  /\ WF_poolVars(Cpu2Notify)
  /\ WF_poolVars(Cpu2Reclaim)
  /\ WF_poolVars(Cpu2ReleaseDone)
  /\ WF_poolVars(ReadStart)
  /\ SF_poolVars(Receive)
  /\ WF_poolVars(MmPoll)
  /\ WF_poolVars(MmFlushed)

FairPoolSpec == PoolSpec /\ PoolFairness

-------------------------------------------------------------------------------
(* Properties.                                                                *)

Posted == ToSet(evtQueue) \cap Buffers
Held == {pending} \cap Buffers
Returning == ToSet(localFree) \cup ToSet(freeQueue)

(* A buffer has one owner: no shared list holds it twice, and no two of the   *)
(* pool, the event queue, the pending packet and the two release lists share  *)
(* one.  A second insert_head of a listed node would corrupt both lists.      *)
OneOwner ==
  /\ IsInjective(evtQueue)
  /\ IsInjective(localFree)
  /\ IsInjective(freeQueue)
  /\ ToSet(localFree) \cap ToSet(freeQueue) = {}
  /\ pool \cap (Posted \cup Held \cup Returning) = {}
  /\ Posted \cap (Held \cup Returning) = {}
  /\ Held \cap Returning = {}

(* No path of `read` loses a buffer: what CPU2 cannot fill is posted, held by *)
(* the caller or on its way back.                                             *)
NothingLost == Buffers = pool \cup Posted \cup Held \cup Returning

(* What `read` returned is still linked to nothing, and CPU2 does not own the *)
(* event channel, so it cannot reuse the response node under the caller.      *)
PendingProtected ==
  pending # None => evtFlag /\ ~reading /\ pending \notin ToSet(evtQueue)

(* A buffer on its way back does not wait for the next drop: whatever the     *)
(* task was doing when the buffer came, it is due to run again, and a list    *)
(* already moved is announced to CPU2.                                        *)
ReturnUnderWay ==
  /\ localFree # <<>> => mm # "asleep"
  /\ freeQueue # <<>> => relFlag

(* A step that does not touch the packet the caller looks at.                 *)
KeepsPacket ==
  \A b \in Buffers : pending = b =>
    /\ contents'[b] = contents[b]
    /\ b \notin pool'

(* From one read to the next the packet the caller looks at does not change:  *)
(* its buffer stays out of CPU2's hands until a read drops it.                *)
PacketStable == [][KeepsPacket]_poolVars

(* Every buffer CPU2 fills comes back to it, as long as the host reads.       *)
BuffersComeBack == \A b \in Buffers : b \notin pool ~> b \in pool

(* The queues and flags keep the promise of BufferLoan.                       *)
PlaceOf(b) ==
  IF b \in pool THEN "cpu2"
  ELSE IF b \in Posted THEN "posted"
  ELSE IF b \in Held THEN "held"
  ELSE "returning"

Loan == INSTANCE BufferLoan WITH place <- [b \in Buffers |-> PlaceOf(b)]

ImplementsLoan == Loan!Spec
===============================================================================
