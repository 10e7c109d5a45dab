---------------------------- MODULE LinkedListProofs ----------------------------
(* For any lists and nodes: the pointers LinkedListNode writes always form the *)
(* rings of the sequences they stand for, and the lists behave as NodeQueues.  *)
EXTENDS LinkedList, SequenceLemmas

(* No node is in two lists or twice in one.                                   *)
NodesListedOnce ==
  /\ \A h \in Heads : IsInjective(lists[h])
  /\ \A g, h \in Heads : g # h => ToSet(lists[g]) \cap ToSet(lists[h]) = {}

ListInv == TypeOK /\ NodesListedOnce /\ RingsMatch

(* The cells of the rings are pairwise different.                             *)
LEMMA AtIsInjective ==
  ASSUME ListInv, NEW g \in Heads, NEW h \in Heads,
         NEW i \in 0..Len(lists[g]), NEW j \in 0..Len(lists[h]),
         At(g, i) = At(h, j)
  PROVE  g = h /\ i = j
<1>1. /\ lists[g] \in Seq(Nodes) /\ lists[h] \in Seq(Nodes)
      /\ IsInjective(lists[g])
      /\ g # h => ToSet(lists[g]) \cap ToSet(lists[h]) = {}
  BY DEF ListInv, TypeOK, NodesListedOnce
<1>2. \A k \in 1..Len(lists[g]) : lists[g][k] \in Nodes /\ lists[g][k] \in ToSet(lists[g])
  BY <1>1 DEF ToSet
<1>3. \A k \in 1..Len(lists[h]) : lists[h][k] \in Nodes /\ lists[h][k] \in ToSet(lists[h])
  BY <1>1 DEF ToSet
<1>4. CASE i = 0 \/ j = 0
  BY <1>1, <1>2, <1>3, <1>4, CellAssumption DEF At
<1>5. CASE i # 0 /\ j # 0
  <2>1. i \in 1..Len(lists[g]) /\ j \in 1..Len(lists[h])
    BY <1>1, <1>5
  <2>2. lists[g][i] = lists[h][j]
    BY <2>1 DEF At
  <2>3. g = h
    BY <1>1, <1>2, <1>3, <2>1, <2>2
  <2>4. DOMAIN lists[g] = 1..Len(lists[g])
    BY <1>1
  <2>5. i = j
    BY <1>1, <2>1, <2>2, <2>3, <2>4 DEF IsInjective
  <2> QED BY <2>3, <2>5
<1> QED BY <1>4, <1>5

(* Where the cells of a ring lie.                                             *)
LEMMA AtCells ==
  ASSUME ListInv, NEW h \in Heads
  PROVE  /\ Len(lists[h]) \in Nat
         /\ At(h, 0) = h
         /\ At(h, Len(lists[h]) + 1) = h
         /\ \A i \in 1..Len(lists[h]) : /\ At(h, i) = lists[h][i]
                                        /\ At(h, i) \in Nodes
                                        /\ At(h, i) \in ToSet(lists[h])
                                        /\ At(h, i) # h
         /\ \A i \in 0..(Len(lists[h]) + 1) : At(h, i) \in Cells
<1>1. lists[h] \in Seq(Nodes)
  BY DEF ListInv, TypeOK
<1>2. \A i \in 1..Len(lists[h]) : lists[h][i] \in Nodes /\ lists[h][i] \in ToSet(lists[h])
  BY <1>1 DEF ToSet
<1> QED BY <1>1, <1>2, CellAssumption DEF At, Cells

LEMMA ListInitInv == ASSUME Init PROVE ListInv
<1>1. \A h \in Heads : Len(lists[h]) = 0 /\ IsInjective(lists[h]) /\ ToSet(lists[h]) = {}
  BY DEF Init, IsInjective, ToSet
<1>2. TypeOK
  <2>1. \A c \in Cells : Link(c, c) \in LinkedListNodes /\ Link(None, None) \in LinkedListNodes
    BY DEF Link, LinkedListNodes
  <2> QED BY <2>1 DEF Init, TypeOK
<1>3. NodesListedOnce
  BY <1>1 DEF NodesListedOnce
<1>4. RingsMatch
  <2> SUFFICES ASSUME NEW h \in Heads, NEW i \in 0..Len(lists[h])
               PROVE  memory[At(h, i)].next = At(h, i + 1) /\ memory[At(h, i + 1)].prev = At(h, i)
    BY DEF RingsMatch
  <2>1. At(h, i) = h /\ At(h, i + 1) = h
    BY <1>1 DEF At
  <2>2. memory[h] = Link(h, h)
    BY DEF Init, Cells
  <2> QED BY <2>1, <2>2 DEF Link
<1> QED BY <1>2, <1>3, <1>4 DEF ListInv

-------------------------------------------------------------------------------
(* insert_head.                                                               *)

(* The pointers insert_head changes, empty list or not.                       *)
LEMMA InsertHeadWrites ==
  ASSUME ListInv, NEW h \in Heads, NEW n \in Nodes, InsertHead(h, n)
  PROVE  /\ memory' \in [Cells -> LinkedListNodes]
         /\ n # h /\ n # At(h, 1)
         /\ \A c \in Cells :
              /\ memory'[c].next = IF c = h THEN n
                                   ELSE IF c = n THEN At(h, 1) ELSE memory[c].next
              /\ memory'[c].prev = IF c = n THEN h
                                   ELSE IF c = At(h, 1) THEN n ELSE memory[c].prev
<1> DEFINE first == memory[h].next
<1>1. n # h /\ n \in Cells /\ h \in Cells
  BY CellAssumption DEF Cells
<1>2. first = At(h, 1) /\ first \in Cells
  BY AtCells DEF ListInv, RingsMatch
<1>3. memory[h].prev \in Cells /\ first # n
  <2>1. memory[At(h, Len(lists[h]) + 1)].prev = At(h, Len(lists[h]))
    BY AtCells DEF ListInv, RingsMatch
  <2>2. first = h \/ first \in ToSet(lists[h])
    BY <1>2, AtCells DEF At
  <2> QED BY <1>1, <2>1, <2>2, AtCells DEF InsertHead, Unlisted
<1>4. memory \in [Cells -> LinkedListNodes] /\ memory' = InsertFirst(h, n)
  BY DEF ListInv, TypeOK, InsertHead
<1> HIDE DEF first
<1>5. CASE IsEmpty(h)
  <2>1. first = h
    BY <1>5 DEF IsEmpty, first
  <2>2. memory' = [memory EXCEPT ![n] = Link(h, h), ![h] = Link(n, n)]
    BY <1>4, <1>5, <2>1 DEF InsertFirst, first
  <2> QED BY <1>1, <1>2, <1>3, <1>4, <2>1, <2>2 DEF Link, LinkedListNodes
<1>6. CASE ~IsEmpty(h)
  <2>1. first # h
    BY <1>6 DEF IsEmpty, first
  <2>2. memory' = [memory EXCEPT ![n] = Link(first, h),
                                 ![first] = Link(memory[first].next, n),
                                 ![h] = Link(n, memory[h].prev)]
    BY <1>4, <1>6 DEF InsertFirst, first
  <2>3. memory[first].next \in Cells \cup {None}
    BY <1>2, <1>4 DEF LinkedListNodes
  <2> QED BY <1>1, <1>2, <1>3, <1>4, <2>1, <2>2, <2>3 DEF Link, LinkedListNodes
<1> QED BY <1>5, <1>6

LEMMA InsertHeadInv ==
  ASSUME ListInv, NEW h \in Heads, NEW n \in Nodes, InsertHead(h, n)
  PROVE  ListInv'
<1>1. /\ lists' = [lists EXCEPT ![h] = Cons(n, lists[h])]
      /\ lists \in [Heads -> Seq(Nodes)]
      /\ \A g \in Heads : n \notin ToSet(lists[g])
      /\ removed' = removed
  BY DEF ListInv, TypeOK, InsertHead, Unlisted
<1>2. /\ Cons(n, lists[h]) \in Seq(Nodes)
      /\ ToSet(Cons(n, lists[h])) = ToSet(lists[h]) \cup {n}
      /\ IsInjective(Cons(n, lists[h]))
  <2>1. lists[h] \in Seq(Nodes) /\ IsInjective(lists[h]) /\ n \notin ToSet(lists[h])
    BY <1>1 DEF ListInv, NodesListedOnce
  <2>2. /\ Cons(n, lists[h]) \in Seq(Nodes)
        /\ ToSet(Cons(n, lists[h])) = ToSet(lists[h]) \cup {n}
        /\ IsInjective(lists[h]) /\ n \notin ToSet(lists[h]) => IsInjective(Cons(n, lists[h]))
    BY <2>1, ConsElements
  <2> QED BY <2>1, <2>2
<1>3. lists'[h] = Cons(n, lists[h]) /\ \A g \in Heads : g # h => lists'[g] = lists[g]
  BY <1>1
<1>4. TypeOK'
  BY <1>1, <1>2, InsertHeadWrites DEF ListInv, TypeOK
<1>5. NodesListedOnce'
  BY <1>1, <1>2, <1>3 DEF ListInv, NodesListedOnce
<1> DEFINE m == Len(lists[h])
<1>6. Len(lists'[h]) = m + 1 /\ m \in Nat
  BY <1>1, <1>3 DEF Cons
<1>7. /\ At(h, 0)' = h
      /\ At(h, 1)' = n
      /\ \A i \in 2..(m + 2) : At(h, i)' = At(h, i - 1)
  <2>1. \A i \in 2..(m + 1) : Cons(n, lists[h])[i] = lists[h][i - 1]
    BY <1>1 DEF Cons
  <2>2. Cons(n, lists[h])[1] = n
    BY <1>1 DEF Cons
  <2> QED BY <1>1, <1>3, <1>6, <2>1, <2>2 DEF At
<1>8. RingsMatch'
  <2> SUFFICES ASSUME NEW g \in Heads, NEW i \in 0..Len(lists'[g])
               PROVE  /\ memory'[At(g, i)'].next = At(g, i + 1)'
                      /\ memory'[At(g, i + 1)'].prev = At(g, i)'
    BY DEF RingsMatch, At
  <2> HIDE DEF m
  <2>1. CASE g # h
    <3>1. At(g, i)' = At(g, i) /\ At(g, i + 1)' = At(g, i + 1) /\ i \in 0..Len(lists[g])
      BY <1>3, <2>1 DEF At
    <3>2. memory[At(g, i)].next = At(g, i + 1) /\ memory[At(g, i + 1)].prev = At(g, i)
      BY <3>1 DEF ListInv, RingsMatch
    <3>3. /\ At(g, i) \in Cells /\ At(g, i + 1) \in Cells
          /\ At(g, i) # n /\ At(g, i + 1) # n
          /\ At(g, i) # h /\ At(g, i + 1) # h
          /\ At(g, i + 1) # At(h, 1)
      <4>1. /\ At(g, i) \in Cells /\ At(g, i + 1) \in Cells
            /\ At(g, i) # n /\ At(g, i + 1) # n
        BY <1>1, <3>1, AtCells, CellAssumption DEF Cells, At
      <4>2. /\ At(g, i) \in ToSet(lists[g]) \cup {g}
            /\ At(g, i + 1) \in ToSet(lists[g]) \cup {g}
            /\ At(h, 1) \in ToSet(lists[h]) \cup {h}
        BY <3>1, AtCells DEF At
      <4>3. /\ ToSet(lists[g]) \cap ToSet(lists[h]) = {}
            /\ ToSet(lists[g]) \subseteq Nodes
            /\ ToSet(lists[h]) \subseteq Nodes
        <5>1. ToSet(lists[g]) \cap ToSet(lists[h]) = {}
          BY <2>1 DEF ListInv, NodesListedOnce
        <5>2. lists[g] \in Seq(Nodes) /\ lists[h] \in Seq(Nodes)
          BY <1>1
        <5> QED BY <5>1, <5>2, ElementsInSet
      <4> QED BY <2>1, <4>1, <4>2, <4>3, CellAssumption
    <3> QED BY <3>1, <3>2, <3>3, InsertHeadWrites
  <2>2. CASE g = h /\ i = 0
    BY <1>7, <2>2, InsertHeadWrites DEF Cells
  <2>3. CASE g = h /\ i = 1
    <3>1. At(h, 1)' = n /\ At(h, 2)' = At(h, 1)
      BY <1>6, <1>7
    <3>2. At(h, 1) \in Cells /\ n \in Cells
      BY AtCells DEF Cells
    <3> QED BY <2>3, <3>1, <3>2, InsertHeadWrites
  <2>4. CASE g = h /\ i \in 2..(m + 1)
    <3>1. /\ At(h, i)' = At(h, i - 1) /\ At(h, i + 1)' = At(h, i)
          /\ i - 1 \in 1..m /\ i - 1 + 1 = i
      BY <1>6, <1>7, <2>4
    <3>2. memory[At(h, i - 1)].next = At(h, i) /\ memory[At(h, i)].prev = At(h, i - 1)
      <4>1. i - 1 \in 0..Len(lists[h])
        BY <1>6, <3>1 DEF m
      <4> QED BY <3>1, <4>1 DEF ListInv, RingsMatch
    <3>3. At(h, i - 1) \in Cells /\ At(h, i) \in Cells /\ At(h, i - 1) # h
      BY <1>6, <2>4, <3>1, AtCells DEF m
    <3>4. At(h, i - 1) # n /\ At(h, i) # n
      <4>1. At(h, i - 1) \in ToSet(lists[h]) \cup {h} /\ At(h, i) \in ToSet(lists[h]) \cup {h}
        BY <1>6, <2>4, <3>1, AtCells DEF m
      <4> QED BY <1>1, <4>1, InsertHeadWrites
    <3>5. At(h, i) # At(h, 1)
      <4>1. CASE i \in 2..m
        <5>1. i \in 0..Len(lists[h]) /\ 1 \in 0..Len(lists[h]) /\ i # 1
          BY <1>6, <4>1 DEF m
        <5> QED BY <5>1, AtIsInjective
      <4>2. CASE i = m + 1
        <5>1. At(h, i) = h /\ 1 \in 1..Len(lists[h])
          BY <1>6, <2>4, <4>2, AtCells DEF m
        <5> QED BY <5>1, AtCells
      <4> QED BY <1>6, <2>4, <4>1, <4>2
    <3> QED BY <2>4, <3>1, <3>2, <3>3, <3>4, <3>5, InsertHeadWrites
  <2> QED BY <1>6, <2>1, <2>2, <2>3, <2>4
<1> QED BY <1>4, <1>5, <1>8 DEF ListInv

-------------------------------------------------------------------------------
(* CPU2's insertion at the tail.                                              *)

LEMMA InsertTailWrites ==
  ASSUME ListInv, NEW h \in Heads, NEW n \in Nodes, InsertTail(h, n)
  PROVE  /\ memory' \in [Cells -> LinkedListNodes]
         /\ n # h /\ n # At(h, Len(lists[h]))
         /\ \A c \in Cells :
              /\ memory'[c].next = IF c = n THEN h
                                   ELSE IF c = At(h, Len(lists[h])) THEN n
                                   ELSE memory[c].next
              /\ memory'[c].prev = IF c = h THEN n
                                   ELSE IF c = n THEN At(h, Len(lists[h]))
                                   ELSE memory[c].prev
<1> DEFINE last == memory[h].prev
<1>1. n # h /\ n \in Cells /\ h \in Cells
  BY CellAssumption DEF Cells
<1>2. last = At(h, Len(lists[h])) /\ last \in Cells
  <2>1. memory[At(h, Len(lists[h]) + 1)].prev = At(h, Len(lists[h]))
    BY AtCells DEF ListInv, RingsMatch
  <2> QED BY <2>1, AtCells
<1>3. memory[h].next = At(h, 1) /\ memory[h].next \in Cells
  BY AtCells DEF ListInv, RingsMatch
<1>4. last # n
  <2>1. last = h \/ last \in ToSet(lists[h])
    BY <1>2, AtCells DEF At
  <2> QED BY <1>1, <2>1 DEF InsertTail, Unlisted
<1>5. memory \in [Cells -> LinkedListNodes] /\ memory' = InsertLast(h, n)
  BY DEF ListInv, TypeOK, InsertTail
<1>6. IsEmpty(h) <=> last = h
  <2>1. CASE Len(lists[h]) = 0
    BY <1>2, <1>3, <2>1 DEF IsEmpty, At
  <2>2. CASE Len(lists[h]) # 0
    <3>1. 1 \in 1..Len(lists[h]) /\ Len(lists[h]) \in 1..Len(lists[h])
      BY <2>2, AtCells
    <3> QED BY <1>2, <1>3, <3>1, AtCells DEF IsEmpty
  <2> QED BY <2>1, <2>2
<1> HIDE DEF last
<1>7. CASE IsEmpty(h)
  <2>1. memory' = [memory EXCEPT ![n] = Link(h, h), ![h] = Link(n, n)]
    BY <1>5, <1>6, <1>7 DEF InsertLast, last
  <2> QED BY <1>1, <1>2, <1>4, <1>5, <1>6, <1>7, <2>1 DEF Link, LinkedListNodes
<1>8. CASE ~IsEmpty(h)
  <2>1. memory' = [memory EXCEPT ![n] = Link(h, last),
                                 ![last] = Link(n, memory[last].prev),
                                 ![h] = Link(memory[h].next, n)]
    BY <1>5, <1>8 DEF InsertLast, last
  <2>2. memory[last].prev \in Cells \cup {None}
    BY <1>2, <1>5 DEF LinkedListNodes
  <2> QED
    BY <1>1, <1>2, <1>3, <1>4, <1>5, <1>6, <1>8, <2>1, <2>2 DEF Link, LinkedListNodes
<1> QED BY <1>7, <1>8

LEMMA InsertTailInv ==
  ASSUME ListInv, NEW h \in Heads, NEW n \in Nodes, InsertTail(h, n)
  PROVE  ListInv'
<1>1. /\ lists' = [lists EXCEPT ![h] = Append(lists[h], n)]
      /\ lists \in [Heads -> Seq(Nodes)]
      /\ \A g \in Heads : n \notin ToSet(lists[g])
      /\ removed' = removed
  BY DEF ListInv, TypeOK, InsertTail, Unlisted
<1>2. /\ Append(lists[h], n) \in Seq(Nodes)
      /\ ToSet(Append(lists[h], n)) = ToSet(lists[h]) \cup {n}
      /\ IsInjective(Append(lists[h], n))
  BY <1>1, AppendElements DEF ListInv, NodesListedOnce
<1>3. lists'[h] = Append(lists[h], n) /\ \A g \in Heads : g # h => lists'[g] = lists[g]
  BY <1>1
<1>4. TypeOK'
  BY <1>1, <1>2, InsertTailWrites DEF ListInv, TypeOK
<1>5. NodesListedOnce'
  BY <1>1, <1>2, <1>3 DEF ListInv, NodesListedOnce
<1>0. PICK m \in Nat : m = Len(lists[h])
  BY <1>1
<1>6. Len(lists'[h]) = m + 1
  BY <1>0, <1>1, <1>3
<1>7. /\ At(h, m + 1)' = n
      /\ At(h, m + 2)' = h
      /\ \A i \in 0..m : At(h, i)' = At(h, i)
  <2>1. /\ Append(lists[h], n)[m + 1] = n
        /\ \A i \in 1..m : Append(lists[h], n)[i] = lists[h][i]
    BY <1>0, <1>1
  <2> QED BY <1>0, <1>1, <1>3, <1>6, <2>1 DEF At
<1>8. RingsMatch'
  <2> SUFFICES ASSUME NEW g \in Heads, NEW i \in 0..Len(lists'[g])
               PROVE  /\ memory'[At(g, i)'].next = At(g, i + 1)'
                      /\ memory'[At(g, i + 1)'].prev = At(g, i)'
    BY DEF RingsMatch, At
  <2>1. CASE g # h
    <3>1. At(g, i)' = At(g, i) /\ At(g, i + 1)' = At(g, i + 1) /\ i \in 0..Len(lists[g])
      BY <1>3, <2>1 DEF At
    <3>2. memory[At(g, i)].next = At(g, i + 1) /\ memory[At(g, i + 1)].prev = At(g, i)
      BY <3>1 DEF ListInv, RingsMatch
    <3>3. /\ At(g, i) \in Cells /\ At(g, i + 1) \in Cells
          /\ At(g, i) # n /\ At(g, i + 1) # n
          /\ At(g, i) # h /\ At(g, i + 1) # h
          /\ At(g, i) # At(h, Len(lists[h]))
      <4>1. /\ At(g, i) \in Cells /\ At(g, i + 1) \in Cells
            /\ At(g, i) # n /\ At(g, i + 1) # n
        BY <1>1, <3>1, AtCells, CellAssumption DEF Cells, At
      <4>2. /\ At(g, i) \in ToSet(lists[g]) \cup {g}
            /\ At(g, i + 1) \in ToSet(lists[g]) \cup {g}
            /\ At(h, Len(lists[h])) \in ToSet(lists[h]) \cup {h}
        BY <3>1, AtCells DEF At
      <4>3. ToSet(lists[g]) \cap ToSet(lists[h]) = {}
        BY <2>1 DEF ListInv, NodesListedOnce
      <4>4. ToSet(lists[g]) \subseteq Nodes /\ ToSet(lists[h]) \subseteq Nodes
        <5>1. lists[g] \in Seq(Nodes) /\ lists[h] \in Seq(Nodes)
          BY <1>1
        <5> QED BY <5>1, ElementsInSet
      <4> QED BY <2>1, <4>1, <4>2, <4>3, <4>4, CellAssumption
    <3> QED BY <3>1, <3>2, <3>3, InsertTailWrites
  <2>2. CASE g = h /\ i = m + 1
    <3>1. At(h, i)' = n /\ At(h, i + 1)' = h
      <4>1. i + 1 = m + 2
        BY <2>2
      <4> QED BY <1>7, <2>2, <4>1
    <3> QED BY <2>2, <3>1, InsertTailWrites DEF Cells
  <2>3. CASE g = h /\ i = m
    <3>1. At(h, i)' = At(h, m) /\ At(h, i + 1)' = n /\ At(h, m) \in Cells
      BY <1>0, <1>6, <1>7, <2>3, AtCells
    <3>2. At(h, m) # n
      BY <1>0, InsertTailWrites
    <3> QED BY <2>3, <3>1, <3>2, InsertTailWrites, <1>0 DEF Cells
  <2>4. CASE g = h /\ i \in 0..(m - 1)
    <3>1. /\ At(h, i)' = At(h, i) /\ At(h, i + 1)' = At(h, i + 1)
          /\ i \in 0..m /\ i + 1 \in 1..m
      BY <1>6, <1>7, <2>4
    <3>2. memory[At(h, i)].next = At(h, i + 1) /\ memory[At(h, i + 1)].prev = At(h, i)
      BY <1>0, <3>1 DEF ListInv, RingsMatch
    <3>3. /\ At(h, i) \in Cells /\ At(h, i + 1) \in Cells /\ At(h, i + 1) # h
          /\ At(h, i) \in ToSet(lists[h]) \cup {h}
          /\ At(h, i + 1) \in ToSet(lists[h])
      BY <1>6, <3>1, AtCells, <1>0 DEF At
    <3>4. At(h, i) # n /\ At(h, i + 1) # n
      BY <1>1, <3>3, InsertTailWrites
    <3>5. At(h, i) # At(h, Len(lists[h]))
      <4>1. i \in 0..Len(lists[h]) /\ Len(lists[h]) \in 0..Len(lists[h]) /\ i # Len(lists[h])
        BY <1>0, <1>6, <2>4
      <4> QED BY <4>1, AtIsInjective
    <3> QED BY <2>4, <3>1, <3>2, <3>3, <3>4, <3>5, InsertTailWrites
  <2> QED BY <1>6, <2>1, <2>2, <2>3, <2>4
<1> QED BY <1>4, <1>5, <1>8 DEF ListInv

-------------------------------------------------------------------------------
(* remove_head.                                                               *)

(* The heads alone tell whether a list is empty, and which node is first.     *)
LEMMA FirstNode ==
  ASSUME ListInv, NEW h \in Heads
  PROVE  /\ memory[h].next = At(h, 1)
         /\ IsEmpty(h) <=> lists[h] = <<>>
         /\ lists[h] # <<>> => memory[h].next = Head(lists[h])
<1>1. lists[h] \in Seq(Nodes)
  BY DEF ListInv, TypeOK
<1>2. memory[h].next = At(h, 1)
  BY AtCells DEF ListInv, RingsMatch
<1>3. CASE lists[h] = <<>>
  BY <1>2, <1>3 DEF IsEmpty, At
<1>4. CASE lists[h] # <<>>
  <2>1. 1 \in 1..Len(lists[h]) /\ Head(lists[h]) = lists[h][1]
    BY <1>1, <1>4
  <2> QED BY <1>2, <1>4, <2>1, AtCells DEF IsEmpty
<1> QED BY <1>2, <1>3, <1>4

(* The pointers remove_node changes, whichever branch it takes.               *)
LEMMA UnlinkWrites ==
  ASSUME ListInv, NEW h \in Heads, lists[h] # <<>>, memory' = Unlink(memory[h].next)
  PROVE  /\ memory' \in [Cells -> LinkedListNodes]
         /\ \A c \in Cells :
              /\ memory'[c].next = IF c = h THEN At(h, 2) ELSE memory[c].next
              /\ memory'[c].prev = IF c = At(h, 2) THEN h ELSE memory[c].prev
<1> DEFINE n == memory[h].next
           next == memory[n].next
           prev == memory[n].prev
<1>1. lists[h] \in Seq(Nodes) /\ memory \in [Cells -> LinkedListNodes]
  BY DEF ListInv, TypeOK
<1>2. n = At(h, 1) /\ 1 \in 0..Len(lists[h]) /\ 0 \in 0..Len(lists[h])
  BY <1>1, FirstNode
<1>3. memory[At(h, 1)].next = At(h, 1 + 1) /\ memory[At(h, 0 + 1)].prev = At(h, 0)
  BY <1>2 DEF ListInv, RingsMatch
<1>4. next = At(h, 2) /\ prev = h
  BY <1>2, <1>3, AtCells
<1>5. next \in Cells /\ h \in Cells
  BY <1>2, <1>4, AtCells DEF Cells
<1> HIDE DEF n, next, prev
<1>6. CASE next # prev
  <2>1. memory' = [memory EXCEPT ![next] = Link(memory[next].next, prev),
                                 ![prev] = Link(next, memory[prev].prev)]
    BY <1>6 DEF Unlink, next, prev, n
  <2>2. /\ memory[next].next \in Cells \cup {None}
        /\ memory[prev].prev \in Cells \cup {None}
    BY <1>1, <1>4, <1>5 DEF LinkedListNodes
  <2> QED BY <1>1, <1>4, <1>5, <1>6, <2>1, <2>2 DEF Link, LinkedListNodes
<1>7. CASE next = prev
  <2>1. memory' = [memory EXCEPT ![next] = Link(next, prev)]
    BY <1>7 DEF Unlink, next, prev, n
  <2> QED BY <1>1, <1>4, <1>5, <1>7, <2>1 DEF Link, LinkedListNodes
<1> QED BY <1>6, <1>7

LEMMA RemoveHeadInv ==
  ASSUME ListInv, NEW h \in Heads, RemoveHead(h)
  PROVE  ListInv'
<1>1. CASE IsEmpty(h)
  <2>1. removed' = None /\ UNCHANGED <<memory, lists>>
    BY <1>1 DEF RemoveHead
  <2> QED BY <2>1 DEF ListInv, TypeOK, NodesListedOnce, RingsMatch, At
<1>2. CASE ~IsEmpty(h)
  <2>1. /\ lists[h] # <<>>
        /\ lists[h] \in Seq(Nodes)
        /\ lists \in [Heads -> Seq(Nodes)]
        /\ memory' = Unlink(memory[h].next)
        /\ removed' = Head(lists[h])
        /\ lists' = [lists EXCEPT ![h] = Tail(lists[h])]
    BY <1>2, FirstNode DEF RemoveHead, ListInv, TypeOK
  <2>2. /\ Head(lists[h]) \in Nodes
        /\ Tail(lists[h]) \in Seq(Nodes)
        /\ IsInjective(Tail(lists[h]))
        /\ ToSet(Tail(lists[h])) \subseteq ToSet(lists[h])
    BY <2>1, TailElements DEF ListInv, NodesListedOnce
  <2>3. lists'[h] = Tail(lists[h]) /\ \A g \in Heads : g # h => lists'[g] = lists[g]
    BY <2>1
  <2>4. TypeOK'
    BY <2>1, <2>2, UnlinkWrites DEF ListInv, TypeOK
  <2>5. NodesListedOnce'
    BY <2>2, <2>3 DEF ListInv, NodesListedOnce
  <2> DEFINE m == Len(lists[h])
  <2>6. Len(lists'[h]) = m - 1 /\ m \in Nat /\ m >= 1
    BY <2>1, <2>3
  <2>7. At(h, 0)' = h /\ \A i \in 1..m : At(h, i)' = At(h, i + 1)
    <3>1. \A i \in 1..(m - 1) : Tail(lists[h])[i] = lists[h][i + 1]
      BY <2>1
    <3> QED BY <2>3, <2>6, <3>1 DEF At
  <2>8. RingsMatch'
    <3> SUFFICES ASSUME NEW g \in Heads, NEW i \in 0..Len(lists'[g])
                 PROVE  /\ memory'[At(g, i)'].next = At(g, i + 1)'
                        /\ memory'[At(g, i + 1)'].prev = At(g, i)'
      BY DEF RingsMatch, At
    <3> HIDE DEF m
    <3>1. CASE g # h
      <4>1. At(g, i)' = At(g, i) /\ At(g, i + 1)' = At(g, i + 1) /\ i \in 0..Len(lists[g])
        BY <2>3, <3>1 DEF At
      <4>2. memory[At(g, i)].next = At(g, i + 1) /\ memory[At(g, i + 1)].prev = At(g, i)
        BY <4>1 DEF ListInv, RingsMatch
      <4>3. /\ At(g, i) \in Cells /\ At(g, i + 1) \in Cells
            /\ At(g, i) \in ToSet(lists[g]) \cup {g}
            /\ At(g, i + 1) \in ToSet(lists[g]) \cup {g}
            /\ At(h, 2) \in ToSet(lists[h]) \cup {h}
        BY <4>1, AtCells DEF At
      <4>4. ToSet(lists[g]) \cap ToSet(lists[h]) = {}
        BY <3>1 DEF ListInv, NodesListedOnce
      <4>5. ToSet(lists[g]) \subseteq Nodes /\ ToSet(lists[h]) \subseteq Nodes
        <5>1. lists[g] \in Seq(Nodes) /\ lists[h] \in Seq(Nodes)
          BY <2>1
        <5> QED BY <5>1, ElementsInSet
      <4>6. At(g, i) # h /\ At(g, i + 1) # At(h, 2)
        BY <3>1, <4>3, <4>4, <4>5, CellAssumption
      <4> QED BY <2>1, <4>1, <4>2, <4>3, <4>6, UnlinkWrites
    <3>2. CASE g = h /\ i = 0
      <4>1. At(h, 0)' = h /\ At(h, 1)' = At(h, 2) /\ At(h, 2) \in Cells
        BY <2>6, <2>7, AtCells DEF m
      <4> QED BY <2>1, <3>2, <4>1, UnlinkWrites DEF Cells
    <3>3. CASE g = h /\ i \in 1..(m - 1)
      <4>1. /\ At(h, i)' = At(h, i + 1) /\ At(h, i + 1)' = At(h, i + 2)
            /\ i + 1 \in 2..m /\ i + 1 + 1 = i + 2
        BY <2>6, <2>7, <3>3
      <4>2. memory[At(h, i + 1)].next = At(h, i + 2) /\ memory[At(h, i + 2)].prev = At(h, i + 1)
        <5>1. i + 1 \in 0..Len(lists[h])
          BY <2>6, <4>1 DEF m
        <5> QED BY <4>1, <5>1 DEF ListInv, RingsMatch
      <4>3. At(h, i + 1) \in Cells /\ At(h, i + 2) \in Cells /\ At(h, i + 1) # h
        BY <2>6, <3>3, <4>1, AtCells DEF m
      <4>4. At(h, i + 2) # At(h, 2)
        <5>1. CASE i \in 1..(m - 2)
          <6>1. i + 2 \in 0..Len(lists[h]) /\ 2 \in 0..Len(lists[h]) /\ i + 2 # 2
            BY <2>6, <5>1 DEF m
          <6> QED BY <6>1, AtIsInjective
        <5>2. CASE i = m - 1
          <6>1. At(h, i + 2) = h /\ 2 \in 1..Len(lists[h])
            BY <2>6, <3>3, <5>2, AtCells DEF m
          <6> QED BY <6>1, AtCells
        <5>3. i \in 1..(m - 2) \/ i = m - 1
          <6>1. m \in Nat
            BY <2>6
          <6> HIDE DEF m
          <6> QED BY <3>3, <6>1
        <5> QED BY <5>1, <5>2, <5>3
      <4>5. memory'[At(h, i + 1)].next = At(h, i + 2)
        BY <2>1, <4>2, <4>3, UnlinkWrites
      <4>6. memory'[At(h, i + 2)].prev = At(h, i + 1)
        BY <2>1, <4>2, <4>3, <4>4, UnlinkWrites
      <4> QED BY <3>3, <4>1, <4>5, <4>6
    <3>4. g = h => i \in 0..(m - 1)
      BY <2>6
    <3> QED BY <2>6, <3>1, <3>2, <3>3, <3>4
  <2> QED BY <2>4, <2>5, <2>8 DEF ListInv
<1> QED BY <1>1, <1>2

-------------------------------------------------------------------------------
LEMMA ListNextInv == ASSUME ListInv, [Next]_vars PROVE ListInv'
<1>1. ASSUME NEW h \in Heads, NEW n \in Nodes, InsertHead(h, n) PROVE ListInv'
  BY <1>1, InsertHeadInv
<1>2. ASSUME NEW h \in Heads, NEW n \in Nodes, InsertTail(h, n) PROVE ListInv'
  BY <1>2, InsertTailInv
<1>3. ASSUME NEW h \in Heads, RemoveHead(h) PROVE ListInv'
  BY <1>3, RemoveHeadInv
<1>4. CASE UNCHANGED vars
  BY <1>4 DEF vars, ListInv, TypeOK, NodesListedOnce, RingsMatch, At
<1> QED BY <1>1, <1>2, <1>3, <1>4 DEF Next

(* The inductive invariant: the rings can only be followed because no node is *)
(* in two of them.                                                            *)
THEOREM ListInvariant == Spec => []ListInv
  BY ListInitInv, ListNextInv, PTL DEF Spec

(* Whatever nodes are inserted and removed, the pointers form the rings of    *)
(* the sequences they stand for.                                              *)
THEOREM RingsAlwaysMatch == Spec => []RingsMatch
<1>1. ListInv => RingsMatch
  BY DEF ListInv
<1> QED BY <1>1, ListInvariant, PTL

LEMMA StepIsQueueStep ==
  ASSUME ListInv, [Next]_vars
  PROVE  [Queues!Next]_(Queues!vars)
<1>1. ASSUME NEW h \in Heads, NEW n \in Nodes, InsertHead(h, n)
      PROVE  Queues!InsertHead(h, n)
  BY <1>1 DEF InsertHead, Unlisted, Cons, ToSet, Queues!InsertHead, Queues!Unlisted,
               Queues!Cons, Queues!ToSet
<1>2. ASSUME NEW h \in Heads, NEW n \in Nodes, InsertTail(h, n)
      PROVE  Queues!InsertTail(h, n)
  BY <1>2 DEF InsertTail, Unlisted, ToSet, Queues!InsertTail, Queues!Unlisted,
               Queues!ToSet
<1>3. ASSUME NEW h \in Heads, RemoveHead(h)
      PROVE  Queues!RemoveHead(h)
  BY <1>3, FirstNode DEF RemoveHead, Queues!RemoveHead
<1>4. CASE UNCHANGED vars
  BY <1>4 DEF vars, Queues!vars
<1> QED BY <1>1, <1>2, <1>3, <1>4 DEF Next, Queues!Next

(* insert_head and remove_head implement the queues of nodes: what is read    *)
(* from memory is the first node of the sequence.                             *)
THEOREM ListsImplementQueues == Spec => ImplementsQueues
<1>1. Init => Queues!Init
  BY DEF Init, Queues!Init
<1>2. ListInv /\ [Next]_vars => [Queues!Next]_(Queues!vars)
  BY StepIsQueueStep
<1> QED BY <1>1, <1>2, ListInvariant, PTL DEF Spec, ImplementsQueues, Queues!Spec
===============================================================================
