---------------------------- MODULE EventPoolProofs ----------------------------
(* For any number of buffers and any packets: the buffers of EventPool have   *)
(* one owner, none is lost, and the queues implement the loan of BufferLoan.  *)
(*                                                                            *)
(* OneOwner alone is not inductive: that `read` may remove the head needs the *)
(* pending packet to be gone, and that the head is not yet back with CPU2     *)
(* needs the flag; PendingProtected says both.                                *)
EXTENDS EventPool, SequenceLemmas

PoolInv == PoolTypeOK /\ OneOwner /\ PendingProtected /\ ReturnUnderWay

LEMMA PoolInitInv == ASSUME PoolInit PROVE PoolInv
<1> USE NodeAssumption DEF PoolInit
<1>1. IsInjective(<<>>) /\ ToSet(<<>>) = {}
  BY DEF IsInjective, ToSet
<1>2. localFree \in Seq(Buffers) /\ IsInjective(localFree)
  <2>1. CASE localFree = <<>>
    BY <1>1, <2>1
  <2>2. CASE localFree \in {<<early>> : early \in Buffers}
    <3>1. PICK early \in Buffers : localFree = <<early>>
      BY <2>2
    <3>2. DOMAIN localFree = {1} /\ localFree \in Seq(Buffers)
      BY <3>1
    <3> QED BY <3>2 DEF IsInjective
  <2> QED BY <2>1, <2>2
<1>3. PoolTypeOK
  <2>1. evtQueue \in Seq(Nodes) /\ freeQueue \in Seq(Buffers)
    OBVIOUS
  <2>2. mm \in MmStates /\ evtFlag \in BOOLEAN /\ relFlag \in BOOLEAN /\ reading \in BOOLEAN
    BY DEF MmStates
  <2>3. pool \subseteq Buffers /\ contents \in [Buffers -> Kinds] /\ pending \in Nodes \cup {None}
    OBVIOUS
  <2> QED BY <1>2, <2>1, <2>2, <2>3 DEF PoolTypeOK
<1>4. OneOwner
  BY <1>1, <1>2 DEF OneOwner, Posted, Held, Returning, Nodes
<1>5. PendingProtected /\ ReturnUnderWay
  BY DEF PendingProtected, ReturnUnderWay
<1> QED BY <1>3, <1>4, <1>5 DEF PoolInv

LEMMA Cpu2PostInv ==
  ASSUME PoolInv, NEW b \in Buffers, NEW kind \in Kinds, Cpu2Post(b, kind)
  PROVE  PoolInv'
<1> USE NodeAssumption
        DEF PoolInv, Cpu2Post, hostVars, releaseVars
<1>1. b \in Nodes /\ b \notin ToSet(evtQueue)
  BY DEF OneOwner, Posted, Nodes
<1>2. /\ ToSet(evtQueue') = ToSet(evtQueue) \cup {b}
      /\ IsInjective(evtQueue')
  BY <1>1, AppendElements DEF PoolTypeOK, OneOwner
<1>3. PoolTypeOK'
  BY <1>1 DEF PoolTypeOK, MmStates
<1>4. OneOwner'
  BY <1>2 DEF PoolTypeOK, OneOwner, Posted, Held, Returning
<1>5. PendingProtected' /\ ReturnUnderWay'
  BY DEF PendingProtected, ReturnUnderWay
<1> QED BY <1>3, <1>4, <1>5

LEMMA Cpu2RespondInv == ASSUME PoolInv, Cpu2Respond PROVE PoolInv'
<1> USE NodeAssumption
        DEF PoolInv, Cpu2Respond, hostVars, releaseVars
<1>1. /\ ToSet(evtQueue') = ToSet(evtQueue) \cup {Rsp}
      /\ IsInjective(evtQueue')
  BY AppendElements DEF PoolTypeOK, OneOwner, Nodes
<1>2. PoolTypeOK'
  BY DEF PoolTypeOK, Nodes
<1>3. OneOwner'
  BY <1>1 DEF OneOwner, Posted, Held, Returning
<1>4. PendingProtected' /\ ReturnUnderWay'
  BY DEF PendingProtected, ReturnUnderWay
<1> QED BY <1>2, <1>3, <1>4

LEMMA Cpu2ReclaimInv == ASSUME PoolInv, Cpu2Reclaim PROVE PoolInv'
<1> USE NodeAssumption
        DEF PoolInv, Cpu2Reclaim, hostVars
<1> DEFINE b == Head(freeQueue)
<1>1. /\ b \in Buffers
      /\ b \in ToSet(freeQueue)
      /\ freeQueue' \in Seq(Buffers)
      /\ IsInjective(freeQueue')
      /\ ToSet(freeQueue') = ToSet(freeQueue) \ {b}
  BY TailElements DEF PoolTypeOK, OneOwner
<1> HIDE DEF b
<1>2. pool' = pool \cup {b}
  BY DEF b
<1>3. PoolTypeOK'
  BY <1>1, <1>2 DEF PoolTypeOK
<1>4. OneOwner'
  BY <1>1, <1>2 DEF OneOwner, Posted, Held, Returning
<1>5. PendingProtected' /\ ReturnUnderWay'
  BY DEF PendingProtected, ReturnUnderWay
<1> QED BY <1>3, <1>4, <1>5

(* Steps that move no buffer.                                                 *)
LEMMA FlagStepInv ==
  ASSUME PoolInv,
         Cpu2Notify \/ Cpu2ReleaseDone \/ ReceiveNothing \/ ReadCancelled
  PROVE  PoolInv'
<1> USE DEF PoolInv, Cpu2Notify, Cpu2ReleaseDone, ReceiveNothing, ReadCancelled,
            hostVars, releaseVars
<1>1. PoolTypeOK'
  BY DEF PoolTypeOK
<1>2. OneOwner'
  BY DEF OneOwner, Posted, Held, Returning
<1>3. PendingProtected'
  BY DEF PendingProtected
<1>4. ReturnUnderWay'
  BY DEF ReturnUnderWay
<1> QED BY <1>1, <1>2, <1>3, <1>4

(* EvtBox<Ble>::drop of a node no list and no owner holds any more.           *)
LEMMA DropEvtEffect ==
  ASSUME PoolInv, NEW node, DropEvt(node)
  PROVE  /\ localFree' \in Seq(Buffers)
         /\ mm' \in MmStates
         /\ localFree' # <<>> => mm' # "asleep"
         /\ \/ ToSet(localFree') = ToSet(localFree) /\ localFree' = localFree
            \/ /\ node \in Buffers
               /\ ToSet(localFree') = ToSet(localFree) \cup {node}
               /\ node \notin ToSet(localFree) => IsInjective(localFree')
<1>0. /\ localFree \in Seq(Buffers)
      /\ IsInjective(localFree)
      /\ mm \in MmStates
      /\ localFree # <<>> => mm # "asleep"
  BY DEF PoolInv, PoolTypeOK, OneOwner, ReturnUnderWay
<1>1. CASE node \in Buffers /\ contents[node] \notin ResponseCoded
  <2>1. localFree' = Cons(node, localFree) /\ mm' = Woken(mm)
    BY <1>1 DEF DropEvt
  <2>2. mm' \in MmStates /\ mm' # "asleep"
    BY <1>0, <2>1 DEF Woken, MmStates
  <2>3. /\ localFree' \in Seq(Buffers)
        /\ ToSet(localFree') = ToSet(localFree) \cup {node}
        /\ node \notin ToSet(localFree) => IsInjective(localFree')
    <3>1. /\ Cons(node, localFree) \in Seq(Buffers)
          /\ ToSet(Cons(node, localFree)) = ToSet(localFree) \cup {node}
          /\ node \notin ToSet(localFree) => IsInjective(Cons(node, localFree))
      <4>1. localFree \in Seq(Buffers) /\ node \in Buffers /\ IsInjective(localFree)
        BY <1>0, <1>1
      <4>2. Cons(node, localFree) \in Seq(Buffers)
        BY <4>1, ConsElements
      <4>3. ToSet(Cons(node, localFree)) = ToSet(localFree) \cup {node}
        BY <4>1, ConsElements
      <4>4. node \notin ToSet(localFree) => IsInjective(Cons(node, localFree))
        BY <4>1, ConsElements
      <4> QED BY <4>2, <4>3, <4>4
    <3> QED BY <2>1, <3>1
  <2> QED BY <1>1, <2>2, <2>3
<1>2. CASE ~(node \in Buffers /\ contents[node] \notin ResponseCoded)
  BY <1>0, <1>2 DEF DropEvt
<1> QED BY <1>1, <1>2

LEMMA ReadStartInv == ASSUME PoolInv, ReadStart PROVE PoolInv'
<1> USE NodeAssumption DEF PoolInv, ReadStart
<1>1. PoolTypeOK'
  BY DropEvtEffect DEF PoolTypeOK
<1>2. OneOwner'
  BY DropEvtEffect DEF OneOwner, Posted, Held, Returning, Nodes
<1>3. PendingProtected' /\ ReturnUnderWay'
  BY DropEvtEffect DEF PendingProtected, ReturnUnderWay
<1> QED BY <1>1, <1>2, <1>3

(* remove_head takes exactly the head out of EVT_QUEUE.                       *)
LEMMA RemoveHeadEffect ==
  ASSUME PoolInv, NEW node, RemoveHead(node)
  PROVE  /\ node \in Nodes
         /\ node \in ToSet(evtQueue)
         /\ evtQueue' \in Seq(Nodes)
         /\ IsInjective(evtQueue')
         /\ ToSet(evtQueue') = ToSet(evtQueue) \ {node}
         /\ pending = None
  BY TailElements DEF PoolInv, PoolTypeOK, OneOwner, PendingProtected, RemoveHead

LEMMA ReceivePacketInv ==
  ASSUME PoolInv, NEW node \in Nodes, ReceivePacket(node)
  PROVE  PoolInv'
<1> USE NodeAssumption DEF PoolInv, ReceivePacket, RemoveHead
<1>1. PoolTypeOK'
  BY RemoveHeadEffect DEF PoolTypeOK
<1>2. OneOwner'
  BY RemoveHeadEffect DEF OneOwner, Posted, Held, Returning, Nodes
<1>3. PendingProtected' /\ ReturnUnderWay'
  BY RemoveHeadEffect DEF PendingProtected, ReturnUnderWay
<1> QED BY <1>1, <1>2, <1>3

LEMMA ReceiveErrorInv ==
  ASSUME PoolInv, NEW node \in Nodes, ReceiveError(node)
  PROVE  PoolInv'
<1> USE NodeAssumption DEF PoolInv, ReceiveError
<1>1. RemoveHead(node) /\ DropEvt(node)
  OBVIOUS
<1>2. PoolTypeOK'
  BY <1>1, RemoveHeadEffect, DropEvtEffect DEF PoolTypeOK, RemoveHead
<1>3. OneOwner'
  BY <1>1, RemoveHeadEffect, DropEvtEffect
     DEF OneOwner, Posted, Held, Returning, Nodes, RemoveHead
<1>4. PendingProtected' /\ ReturnUnderWay'
  BY <1>1, RemoveHeadEffect, DropEvtEffect
     DEF PendingProtected, ReturnUnderWay, RemoveHead
<1> QED BY <1>2, <1>3, <1>4

LEMMA ReceiveResponseInv == ASSUME PoolInv, ReceiveResponse PROVE PoolInv'
<1> USE NodeAssumption DEF PoolInv, ReceiveResponse, hostVars
<1>1. RemoveHead(Rsp)
  OBVIOUS
<1>2. PoolTypeOK'
  BY <1>1, RemoveHeadEffect DEF PoolTypeOK, RemoveHead
<1>3. OneOwner'
  BY <1>1, RemoveHeadEffect DEF OneOwner, Posted, Held, Returning, RemoveHead
<1>4. PendingProtected' /\ ReturnUnderWay'
  BY <1>1, RemoveHeadEffect DEF PendingProtected, ReturnUnderWay, RemoveHead
<1> QED BY <1>2, <1>3, <1>4

(* The closure of release.send moves every buffer and loses none.             *)
LEMMA HandBackEffect ==
  ASSUME PoolInv, HandBack
  PROVE  /\ freeQueue' \in Seq(Buffers)
         /\ IsInjective(freeQueue')
         /\ localFree' = <<>>
         /\ ToSet(localFree') = {}
         /\ IsInjective(localFree')
         /\ ToSet(freeQueue') = ToSet(localFree) \cup ToSet(freeQueue)
<1>1. IsInjective(<<>>) /\ ToSet(<<>>) = {}
  BY DEF IsInjective, ToSet
<1> QED
  BY <1>1, ReverseConcatElements DEF PoolInv, PoolTypeOK, OneOwner, HandBack

LEMMA MmInv == ASSUME PoolInv, MmPoll \/ MmFlushed PROVE PoolInv'
<1>1. CASE HandBack /\ UNCHANGED <<pool, contents, evtQueue, evtFlag, hostVars>>
  <2> USE <1>1 DEF PoolInv, hostVars
  <2>1. PoolTypeOK'
    BY HandBackEffect DEF PoolTypeOK, HandBack, MmStates
  <2>2. OneOwner'
    BY HandBackEffect DEF OneOwner, Posted, Held, Returning
  <2>3. PendingProtected' /\ ReturnUnderWay'
    BY HandBackEffect DEF PendingProtected, ReturnUnderWay, HandBack
  <2> QED BY <2>1, <2>2, <2>3
<1>2. CASE /\ localFree # <<>> => mm' = "flush"
           /\ mm' \in {"asleep", "flush"}
           /\ UNCHANGED <<pool, contents, evtQueue, evtFlag, hostVars, localFree,
                          freeQueue, relFlag>>
  BY <1>2 DEF PoolInv, PoolTypeOK, MmStates, OneOwner, Posted, Held, Returning,
              PendingProtected, ReturnUnderWay, hostVars
<1> QED BY <1>1, <1>2 DEF MmPoll, MmFlushed

LEMMA PoolNextInv == ASSUME PoolInv, [PoolNext]_poolVars PROVE PoolInv'
<1>1. CASE \E b \in Buffers, kind \in Kinds : Cpu2Post(b, kind)
  BY <1>1, Cpu2PostInv
<1>2. CASE Cpu2Respond
  BY <1>2, Cpu2RespondInv
<1>3. CASE Cpu2Notify \/ Cpu2ReleaseDone \/ ReceiveNothing \/ ReadCancelled
  BY <1>3, FlagStepInv
<1>4. CASE Cpu2Reclaim
  BY <1>4, Cpu2ReclaimInv
<1>5. CASE ReadStart
  BY <1>5, ReadStartInv
<1>6. CASE \E node \in Nodes : ReceivePacket(node)
  BY <1>6, ReceivePacketInv
<1>7. CASE \E node \in Nodes : ReceiveError(node)
  BY <1>7, ReceiveErrorInv
<1>8. CASE ReceiveResponse
  BY <1>8, ReceiveResponseInv
<1>9. CASE MmPoll \/ MmFlushed
  BY <1>9, MmInv
<1>10. CASE UNCHANGED poolVars
  BY <1>10 DEF PoolInv, PoolTypeOK, OneOwner, Posted, Held, Returning,
               PendingProtected, ReturnUnderWay, poolVars, hostVars, releaseVars
<1> QED
  BY <1>1, <1>2, <1>3, <1>4, <1>5, <1>6, <1>7, <1>8, <1>9, <1>10 DEF PoolNext

(* Every reachable state satisfies the inductive invariant.                   *)
THEOREM PoolInvariant == PoolSpec => []PoolInv
  BY PoolInitInv, PoolNextInv, PTL DEF PoolSpec

(* The variables of the pool keep their types.                                *)
THEOREM PoolTypeCorrect == PoolSpec => []PoolTypeOK
<1>1. PoolInv => PoolTypeOK
  BY DEF PoolInv
<1> QED BY <1>1, PoolInvariant, PTL

(* No buffer is ever linked twice or owned by two of CPU2, the event queue,   *)
(* the caller of `read` and the release lists.                                *)
THEOREM BuffersHaveOneOwner == PoolSpec => []OneOwner
<1>1. PoolInv => OneOwner
  BY DEF PoolInv
<1> QED BY <1>1, PoolInvariant, PTL

(* The packet `read` returned stays out of CPU2's reach until the next read.  *)
THEOREM PendingIsProtected == PoolSpec => []PendingProtected
<1>1. PoolInv => PendingProtected
  BY DEF PoolInv
<1> QED BY <1>1, PoolInvariant, PTL

(* run_queue never sleeps over a buffer to return, nor returns one without    *)
(* ringing the release channel.                                               *)
THEOREM ReturnsAreUnderWay == PoolSpec => []ReturnUnderWay
<1>1. PoolInv => ReturnUnderWay
  BY DEF PoolInv
<1> QED BY <1>1, PoolInvariant, PTL

-------------------------------------------------------------------------------
(* No buffer is lost, unless a packet carries 0x0E or 0x0F at evt_code.       *)

InUse == pool \cup Posted \cup Held \cup Returning

LEMMA DropEvtReturns ==
  ASSUME PoolInv, ResponseCoded = {}, NEW node, DropEvt(node)
  PROVE  /\ node \in Buffers => ToSet(localFree') = ToSet(localFree) \cup {node}
         /\ node \notin Buffers => localFree' = localFree
<1>1. localFree \in Seq(Buffers)
  BY DEF PoolInv, PoolTypeOK
<1>2. CASE node \in Buffers
  <2>1. localFree' = Cons(node, localFree)
    BY <1>2 DEF DropEvt
  <2>2. ToSet(Cons(node, localFree)) = ToSet(localFree) \cup {node}
    BY <1>1, <1>2, ConsElements
  <2> QED BY <1>2, <2>1, <2>2
<1>3. CASE node \notin Buffers
  BY <1>3 DEF DropEvt
<1> QED BY <1>2, <1>3

LEMMA InUseKept ==
  ASSUME PoolInv, ResponseCoded = {}, [PoolNext]_poolVars
  PROVE  InUse' = InUse
<1> USE NodeAssumption DEF InUse, Posted, Held, Returning, hostVars, releaseVars
<1>1. ASSUME NEW b \in Buffers, NEW kind \in Kinds, Cpu2Post(b, kind)
      PROVE  InUse' = InUse
  <2>1. b \in Nodes /\ ToSet(evtQueue') = ToSet(evtQueue) \cup {b}
    <3>1. evtQueue \in Seq(Nodes) /\ b \in Nodes
      BY <1>1 DEF PoolInv, PoolTypeOK, Nodes
    <3>2. evtQueue' = Append(evtQueue, b)
      BY <1>1 DEF Cpu2Post
    <3> QED BY <3>1, <3>2, AppendElements
  <2> QED BY <1>1, <2>1 DEF Cpu2Post
<1>2. CASE Cpu2Respond
  <2>1. ToSet(evtQueue') = ToSet(evtQueue) \cup {Rsp}
    <3>1. evtQueue \in Seq(Nodes) /\ Rsp \in Nodes
      BY DEF PoolInv, PoolTypeOK, Nodes
    <3>2. evtQueue' = Append(evtQueue, Rsp)
      BY <1>2 DEF Cpu2Respond
    <3> QED BY <3>1, <3>2, AppendElements
  <2> QED BY <1>2, <2>1 DEF Cpu2Respond
<1>3. CASE Cpu2Notify \/ Cpu2ReleaseDone \/ ReceiveNothing \/ ReadCancelled
  BY <1>3 DEF Cpu2Notify, Cpu2ReleaseDone, ReceiveNothing, ReadCancelled
<1>4. CASE Cpu2Reclaim
  <2>1. /\ Head(freeQueue) \in ToSet(freeQueue)
        /\ ToSet(freeQueue') = ToSet(freeQueue) \ {Head(freeQueue)}
    BY <1>4, TailElements DEF PoolInv, PoolTypeOK, OneOwner, Cpu2Reclaim
  <2> QED BY <1>4, <2>1 DEF Cpu2Reclaim
<1>5. CASE ReadStart
  <2>1. DropEvt(pending) /\ pending' = None
    BY <1>5 DEF ReadStart
  <2>2. CASE pending \in Buffers
    BY <1>5, <2>1, <2>2, DropEvtReturns DEF ReadStart, Nodes
  <2>3. CASE pending \notin Buffers
    BY <1>5, <2>1, <2>3, DropEvtReturns DEF ReadStart, Nodes
  <2> QED BY <2>2, <2>3
<1>6. ASSUME NEW node \in Nodes, ReceivePacket(node)
      PROVE  InUse' = InUse
  <2>1. RemoveHead(node) /\ pending' = node
    BY <1>6 DEF ReceivePacket
  <2> QED
    BY <1>6, <2>1, RemoveHeadEffect DEF ReceivePacket, RemoveHead, Nodes
<1>7. ASSUME NEW node \in Nodes, ReceiveError(node)
      PROVE  InUse' = InUse
  <2>1. RemoveHead(node) /\ DropEvt(node) /\ pending' = pending
    BY <1>7 DEF ReceiveError
  <2>2. CASE node \in Buffers
    BY <2>1, <2>2, RemoveHeadEffect, DropEvtReturns DEF RemoveHead
  <2>3. CASE node \notin Buffers
    BY <2>1, <2>3, RemoveHeadEffect, DropEvtReturns DEF RemoveHead
  <2> QED BY <2>2, <2>3
<1>8. CASE ReceiveResponse
  <2>1. RemoveHead(Rsp)
    BY <1>8 DEF ReceiveResponse
  <2> QED BY <1>8, <2>1, RemoveHeadEffect DEF ReceiveResponse, RemoveHead
<1>9. CASE MmPoll \/ MmFlushed
  <2>1. CASE HandBack
    BY <1>9, <2>1, HandBackEffect DEF MmPoll, MmFlushed
  <2>2. CASE UNCHANGED <<localFree, freeQueue>>
    BY <1>9, <2>2 DEF MmPoll, MmFlushed
  <2> QED BY <1>9, <2>1, <2>2 DEF MmPoll, MmFlushed
<1>10. CASE UNCHANGED poolVars
  BY <1>10 DEF poolVars
<1> QED
  BY <1>1, <1>2, <1>3, <1>4, <1>5, <1>6, <1>7, <1>8, <1>9, <1>10 DEF PoolNext

(* As long as no packet is mistaken for a response when it is dropped, every  *)
(* buffer CPU2 cannot fill is posted, held or on its way back.                *)
THEOREM NoBufferIsLost ==
  ASSUME ResponseCoded = {}
  PROVE  PoolSpec => []NothingLost
<1>1. PoolInit => NothingLost
  <2> SUFFICES ASSUME PoolInit PROVE NothingLost
    OBVIOUS
  <2>1. localFree \in Seq(Buffers)
    BY PoolInitInv DEF PoolInv, PoolTypeOK
  <2>2. ToSet(localFree) \subseteq Buffers /\ ToSet(<<>>) = {}
    BY <2>1 DEF ToSet
  <2> QED
    BY <2>2, NodeAssumption
       DEF PoolInit, NothingLost, Posted, Held, Returning, Nodes
<1>2. PoolInv /\ NothingLost /\ [PoolNext]_poolVars => NothingLost'
  BY InUseKept DEF InUse, NothingLost
<1> QED BY <1>1, <1>2, PoolInvariant, PTL DEF PoolSpec

-------------------------------------------------------------------------------
(* What the caller holds does not change under it.                            *)

LEMMA StepKeepsPacket ==
  ASSUME PoolInv, [PoolNext]_poolVars, NEW b \in Buffers, pending = b
  PROVE  contents'[b] = contents[b] /\ b \notin pool'
<1>1. b \notin pool /\ evtFlag /\ ~reading
  BY NodeAssumption DEF PoolInv, OneOwner, Held, PendingProtected, Nodes
<1>2. b \notin ToSet(freeQueue)
  BY DEF PoolInv, OneOwner, Held, Returning
<1>3. CASE Cpu2Reclaim
  <2>1. Head(freeQueue) \in ToSet(freeQueue)
    BY <1>3, TailElements DEF PoolInv, PoolTypeOK, Cpu2Reclaim
  <2> QED BY <1>1, <1>2, <1>3, <2>1 DEF Cpu2Reclaim
<1>4. CASE UNCHANGED <<pool, contents>>
  BY <1>1, <1>4
<1> QED
  BY <1>1, <1>3, <1>4
     DEF PoolNext, poolVars, Cpu2Post, Cpu2Respond, Cpu2Notify, Cpu2ReleaseDone,
         ReadStart, ReceivePacket, ReceiveError, ReceiveResponse, RemoveHead,
         ReceiveNothing, ReadCancelled, MmPoll, MmFlushed

(* The packet of the last read stays as it was received, out of the pool, in  *)
(* every step until a later read drops it.                                    *)
THEOREM PendingPacketIsStable == PoolSpec => PacketStable
<1>1. PoolInv /\ [PoolNext]_poolVars => [KeepsPacket]_poolVars
  BY StepKeepsPacket DEF KeepsPacket
<1> QED BY <1>1, PoolInvariant, PTL DEF PoolSpec, PacketStable

-------------------------------------------------------------------------------
(* Refinement of BufferLoan.  PlaceOf depends on the pool, the posted buffers *)
(* and the held one only.                                                     *)

LEMMA PlacesFollow ==
  ASSUME NEW b \in Buffers, NEW from, NEW to,
         PlaceOf(b) = from, PlaceOf(b)' = to,
         \A c \in Buffers \ {b} : PlaceOf(c)' = PlaceOf(c)
  PROVE  Loan!Move(b, from, to)
  BY DEF Loan!Move

LEMMA PlacesStay ==
  ASSUME pool' = pool, Posted' = Posted, Held' = Held
  PROVE  UNCHANGED [b \in Buffers |-> PlaceOf(b)]
<1>1. \A b \in Buffers : PlaceOf(b)' = PlaceOf(b)
  BY DEF PlaceOf
<1> QED BY <1>1

LEMMA StepIsLoanStep ==
  ASSUME PoolInv, [PoolNext]_poolVars
  PROVE  [Loan!Next]_([b \in Buffers |-> PlaceOf(b)])
<1> USE NodeAssumption
<1>1. ASSUME NEW b \in Buffers, NEW kind \in Kinds, Cpu2Post(b, kind)
      PROVE  Loan!Post(b)
  <2>1. b \in Nodes /\ ToSet(evtQueue') = ToSet(evtQueue) \cup {b}
    <3>1. evtQueue \in Seq(Nodes) /\ b \in Nodes
      BY <1>1 DEF PoolInv, PoolTypeOK, Nodes
    <3>2. evtQueue' = Append(evtQueue, b)
      BY <1>1 DEF Cpu2Post
    <3> QED BY <3>1, <3>2, AppendElements
  <2>2. pool' = pool \ {b} /\ Posted' = Posted \cup {b} /\ Held' = Held /\ b \in pool
    BY <1>1, <2>1 DEF Cpu2Post, Posted, Held, hostVars
  <2>3. PlaceOf(b) = "cpu2" /\ PlaceOf(b)' = "posted"
    BY <2>2 DEF PlaceOf
  <2>4. \A c \in Buffers \ {b} : PlaceOf(c)' = PlaceOf(c)
    BY <2>2 DEF PlaceOf
  <2> QED BY <2>3, <2>4, PlacesFollow DEF Loan!Post
<1>2. CASE Cpu2Reclaim
  <2>0. Head(freeQueue) \in Buffers /\ Head(freeQueue) \in ToSet(freeQueue)
    BY <1>2, TailElements DEF PoolInv, PoolTypeOK, Cpu2Reclaim
  <2>1. PICK b \in Buffers : b = Head(freeQueue) /\ b \in ToSet(freeQueue)
    BY <2>0
  <2>2. pool' = pool \cup {b} /\ Posted' = Posted /\ Held' = Held
    BY <1>2, <2>1 DEF Cpu2Reclaim, Posted, Held, hostVars
  <2>3. b \notin pool /\ b \notin Posted /\ b \notin Held
    BY <2>1 DEF PoolInv, OneOwner, Returning
  <2>4. PlaceOf(b) = "returning" /\ PlaceOf(b)' = "cpu2"
    BY <2>2, <2>3 DEF PlaceOf
  <2>5. \A c \in Buffers \ {b} : PlaceOf(c)' = PlaceOf(c)
    BY <2>2 DEF PlaceOf
  <2>6. Loan!Reclaim(b)
    BY <2>1, <2>4, <2>5, PlacesFollow DEF Loan!Reclaim
  <2> QED BY <2>1, <2>6 DEF Loan!Next
<1>3. CASE ReadStart
  <2>1. pool' = pool /\ Posted' = Posted /\ Held' = {}
    BY <1>3 DEF ReadStart, Posted, Held, Nodes
  <2>2. CASE pending \in Buffers
    <3>1. Held = {pending} /\ pending \notin pool /\ pending \notin Posted
      BY <2>2 DEF PoolInv, OneOwner, Held
    <3>2. PlaceOf(pending) = "held"
      BY <3>1 DEF PlaceOf
    <3>3. \A c \in Buffers : c = pending => PlaceOf(c)' = "returning"
      BY <2>1, <3>1 DEF PlaceOf
    <3>4. \A c \in Buffers \ {pending} : PlaceOf(c)' = PlaceOf(c)
      BY <2>1, <3>1 DEF PlaceOf
    <3>5. PICK b \in Buffers : b = pending
      BY <2>2
    <3>6. PlaceOf(b) = "held" /\ PlaceOf(b)' = "returning"
      BY <3>2, <3>3, <3>5
    <3>7. \A c \in Buffers \ {b} : PlaceOf(c)' = PlaceOf(c)
      BY <3>4, <3>5
    <3>8. Loan!Drop(b)
      BY <3>6, <3>7, PlacesFollow DEF Loan!Drop
    <3> QED BY <3>8 DEF Loan!Next
  <2>3. CASE pending \notin Buffers
    BY <2>1, <2>3, PlacesStay DEF Held
  <2> QED BY <2>2, <2>3
<1>4. ASSUME NEW node \in Nodes, RemoveHead(node)
      PROVE  /\ pool' = pool
             /\ Posted' = Posted \ {node}
             /\ Held = {}
             /\ node \in Buffers => node \in Posted /\ node \notin pool
  BY <1>4, RemoveHeadEffect
     DEF RemoveHead, PoolInv, OneOwner, Posted, Held, Nodes
<1>5. ASSUME NEW node \in Nodes, ReceivePacket(node)
      PROVE  [Loan!Next]_([b \in Buffers |-> PlaceOf(b)])
  <2>1. RemoveHead(node) /\ Held' = {node} \cap Buffers
    BY <1>5 DEF ReceivePacket, Held
  <2>2. CASE node \in Buffers
    <3>1. PlaceOf(node) = "posted" /\ PlaceOf(node)' = "held"
      BY <1>4, <2>1, <2>2 DEF PlaceOf
    <3>2. \A c \in Buffers \ {node} : PlaceOf(c)' = PlaceOf(c)
      BY <1>4, <2>1, <2>2 DEF PlaceOf
    <3>3. \A c \in Buffers : PlaceOf(c) # "held"
      BY <1>4, <2>1 DEF PlaceOf
    <3>4. Loan!Take(node)
      BY <2>2, <3>1, <3>2, <3>3, PlacesFollow DEF Loan!Take
    <3> QED BY <2>2, <3>4 DEF Loan!Next
  <2>3. CASE node \notin Buffers
    <3>1. pool' = pool /\ Posted' = Posted /\ Held' = Held
      BY <1>4, <2>1, <2>3 DEF Posted
    <3> QED BY <3>1, PlacesStay
  <2> QED BY <2>2, <2>3
<1>6. ASSUME NEW node \in Nodes, ReceiveError(node)
      PROVE  [Loan!Next]_([b \in Buffers |-> PlaceOf(b)])
  <2>1. RemoveHead(node) /\ Held' = Held
    BY <1>6 DEF ReceiveError, Held
  <2>2. CASE node \in Buffers
    <3>1. PlaceOf(node) = "posted" /\ PlaceOf(node)' = "returning"
      BY <1>4, <2>1, <2>2 DEF PlaceOf
    <3>2. \A c \in Buffers \ {node} : PlaceOf(c)' = PlaceOf(c)
      BY <1>4, <2>1, <2>2 DEF PlaceOf
    <3>3. Loan!Discard(node)
      BY <2>2, <3>1, <3>2, PlacesFollow DEF Loan!Discard
    <3> QED BY <2>2, <3>3 DEF Loan!Next
  <2>3. CASE node \notin Buffers
    <3>1. pool' = pool /\ Posted' = Posted /\ Held' = Held
      BY <1>4, <2>1, <2>3 DEF Posted
    <3> QED BY <3>1, PlacesStay
  <2> QED BY <2>2, <2>3
<1>7. CASE Cpu2Respond
  <2>1. ToSet(evtQueue') = ToSet(evtQueue) \cup {Rsp}
    <3>1. evtQueue \in Seq(Nodes) /\ Rsp \in Nodes
      BY DEF PoolInv, PoolTypeOK, Nodes
    <3>2. evtQueue' = Append(evtQueue, Rsp)
      BY <1>7 DEF Cpu2Respond
    <3> QED BY <3>1, <3>2, AppendElements
  <2>2. pool' = pool /\ Posted' = Posted /\ Held' = Held
    BY <1>7, <2>1 DEF Cpu2Respond, Posted, Held, hostVars
  <2> QED BY <2>2, PlacesStay
<1>8. CASE ReceiveResponse
  <2>1. RemoveHead(Rsp) /\ Held' = Held
    BY <1>8 DEF ReceiveResponse, Held, hostVars
  <2>2. pool' = pool /\ Posted' = Posted
    BY <1>4, <2>1 DEF Posted, Nodes
  <2> QED BY <2>1, <2>2, PlacesStay
<1>9. CASE UNCHANGED <<pool, evtQueue, pending>>
  <2>1. Posted' = Posted /\ Held' = Held
    BY <1>9 DEF Posted, Held
  <2> QED BY <1>9, <2>1, PlacesStay
<1> QED
  BY <1>1, <1>2, <1>3, <1>5, <1>6, <1>7, <1>8, <1>9
     DEF PoolNext, Loan!Next, poolVars, hostVars, releaseVars, Cpu2Notify,
         Cpu2ReleaseDone, ReceiveNothing, ReadCancelled, MmPoll, MmFlushed

(* The queues, flags and the memory-manager task implement the loan: buffers  *)
(* go round CPU2, posted, held, returning in this order, one held at a time.  *)
THEOREM PoolImplementsLoan == PoolSpec => ImplementsLoan
<1>1. PoolInit => Loan!Init
  <2> SUFFICES ASSUME PoolInit PROVE Loan!Init
    OBVIOUS
  <2>1. Posted = {} /\ Held = {}
    BY NodeAssumption DEF PoolInit, Posted, Held, ToSet, Nodes
  <2>2. \A b \in Buffers : PlaceOf(b) \in {"cpu2", "returning"}
    BY <2>1 DEF PlaceOf
  <2> QED BY <2>2 DEF Loan!Init
<1>2. PoolInv /\ [PoolNext]_poolVars => [Loan!Next]_([b \in Buffers |-> PlaceOf(b)])
  BY StepIsLoanStep
<1> QED BY <1>1, <1>2, PoolInvariant, PTL DEF PoolSpec, ImplementsLoan, Loan!Spec
===============================================================================
