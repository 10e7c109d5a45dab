------------------------------ MODULE LinkedList ------------------------------
(* LinkedListNode of examples/embassy/src/transport.rs: circular, doubly      *)
(* linked, intrusive lists in the memory both cores share.  `memory` is that  *)
(* memory, one {next, prev} structure per cell, always written whole.         *)
(* `lists` is an auxiliary variable, the sequence each list is meant to hold; *)
(* no step of the code reads it.                                              *)
(*                                                                            *)
(* insert_head and remove_head run inside a critical section, on a list CPU2  *)
(* does not own: each is one step.  CPU2's insertion at the tail is external. *)
EXTENDS SequencesExt, Naturals

CONSTANTS
  Heads,      \* EVT_QUEUE, LOCAL_FREE_BUF_QUEUE, FREE_BUF_QUEUE, ...
  Nodes,      \* the headers of the buffers
  None

Cells == Heads \cup Nodes

ASSUME CellAssumption == Heads \cap Nodes = {} /\ None \notin Cells

VARIABLES memory, lists, removed

vars == <<memory, lists, removed>>

LinkedListNodes == [next : Cells \cup {None}, prev : Cells \cup {None}]

TypeOK ==
  /\ memory \in [Cells -> LinkedListNodes]
  /\ lists \in [Heads -> Seq(Nodes)]
  /\ removed \in Nodes \cup {None}

Link(next, prev) == [next |-> next, prev |-> prev]

(* The shared memory is zeroed, then init_head makes each head point to       *)
(* itself.                                                                    *)
Init ==
  /\ memory = [c \in Cells |-> IF c \in Heads THEN Link(c, c) ELSE Link(None, None)]
  /\ lists = [h \in Heads |-> <<>>]
  /\ removed = None

IsEmpty(h) == memory[h].next = h

(* Mutant of InsertFirst: the empty list is not a case of its own.            *)
InsertFirstForward(h, n) ==
  LET first == memory[h].next
  IN  [memory EXCEPT ![n] = Link(first, h), ![h] = Link(n, memory[h].prev)]

(* The cells insert_head writes: the node, the old first node if there is     *)
(* one, and the head.                                                         *)
InsertFirst(h, n) ==
  LET first == memory[h].next
  IN  IF IsEmpty(h)
      THEN [memory EXCEPT ![n] = Link(first, h), ![h] = Link(n, n)]
      ELSE [memory EXCEPT ![n] = Link(first, h),
                          ![first] = Link(memory[first].next, n),
                          ![h] = Link(n, memory[h].prev)]

(* Mutant of Unlink: a node whose neighbours are one cell is no case of its   *)
(* own, and the second of two copies of that cell wins.                       *)
UnlinkTwice(n) ==
  LET next == memory[n].next
      prev == memory[n].prev
  IN  [memory EXCEPT ![next] = Link(memory[next].next, prev),
                     ![prev] = Link(next, memory[prev].prev)]

(* The cells remove_node writes: both neighbours of the node, or the head     *)
(* alone when it is both.                                                     *)
Unlink(n) ==
  LET next == memory[n].next
      prev == memory[n].prev
  IN  IF next # prev
      THEN [memory EXCEPT ![next] = Link(memory[next].next, prev),
                          ![prev] = Link(next, memory[prev].prev)]
      ELSE [memory EXCEPT ![next] = Link(next, prev)]

(* CPU2 inserts before the head.                                              *)
InsertLast(h, n) ==
  LET last == memory[h].prev
  IN  IF IsEmpty(h)
      THEN [memory EXCEPT ![n] = Link(h, last), ![h] = Link(n, n)]
      ELSE [memory EXCEPT ![n] = Link(h, last),
                          ![last] = Link(n, memory[last].prev),
                          ![h] = Link(memory[h].next, n)]

Unlisted(n) == \A h \in Heads : n \notin ToSet(lists[h])

(* Callers insert a node they own: one that a remove_head took out.           *)
InsertHead(h, n) ==
  /\ Unlisted(n)
  /\ memory' = InsertFirst(h, n)
  /\ lists' = [lists EXCEPT ![h] = Cons(n, @)]
  /\ UNCHANGED removed

(* CPU2 posts an event.                                                       *)
InsertTail(h, n) ==
  /\ Unlisted(n)
  /\ memory' = InsertLast(h, n)
  /\ lists' = [lists EXCEPT ![h] = Append(@, n)]
  /\ UNCHANGED removed

RemoveHead(h) ==
  \/ /\ IsEmpty(h)
     /\ removed' = None
     /\ UNCHANGED <<memory, lists>>
  \/ /\ ~IsEmpty(h)
     /\ memory' = Unlink(memory[h].next)
     /\ removed' = memory[h].next
     /\ lists' = [lists EXCEPT ![h] = Tail(@)]

Next ==
  \/ \E h \in Heads, n \in Nodes : InsertHead(h, n)
  \/ \E h \in Heads, n \in Nodes : InsertTail(h, n)
  \/ \E h \in Heads : RemoveHead(h)

Spec == Init /\ [][Next]_vars

-------------------------------------------------------------------------------
(* The i-th cell of the ring of h: the head itself before the first node and  *)
(* after the last one.                                                        *)
At(h, i) == IF i \in 1..Len(lists[h]) THEN lists[h][i] ELSE h

(* The pointers of a list form one ring through its head, the same forwards   *)
(* and backwards: neither direction skips or repeats a node after any         *)
(* sequence of insertions and removals, a list of one node included.          *)
RingsMatch ==
  \A h \in Heads : \A i \in 0..Len(lists[h]) :
    /\ memory[At(h, i)].next = At(h, i + 1)
    /\ memory[At(h, i + 1)].prev = At(h, i)

(* What remove_head reads from the memory is the first node of the list.      *)
Queues == INSTANCE NodeQueues

ImplementsQueues == Queues!Spec
===============================================================================
