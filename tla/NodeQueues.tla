------------------------------ MODULE NodeQueues ------------------------------
(* What the intrusive lists of the mailbox promise: a node is in at most one  *)
(* list, insert_head puts it first, remove_head returns the first one.        *)
EXTENDS SequencesExt

CONSTANTS Heads, Nodes, None

VARIABLES
  lists,      \* the nodes of each list, first to remove at the head
  removed     \* what the last remove_head returned

vars == <<lists, removed>>

Init ==
  /\ lists = [h \in Heads |-> <<>>]
  /\ removed = None

Unlisted(n) == \A h \in Heads : n \notin ToSet(lists[h])

InsertHead(h, n) ==
  /\ Unlisted(n)
  /\ lists' = [lists EXCEPT ![h] = Cons(n, @)]
  /\ UNCHANGED removed

InsertTail(h, n) ==
  /\ Unlisted(n)
  /\ lists' = [lists EXCEPT ![h] = Append(@, n)]
  /\ UNCHANGED removed

RemoveHead(h) ==
  \/ lists[h] = <<>> /\ removed' = None /\ UNCHANGED lists
  \/ /\ lists[h] # <<>>
     /\ removed' = Head(lists[h])
     /\ lists' = [lists EXCEPT ![h] = Tail(@)]

Next ==
  \E h \in Heads :
    \/ \E n \in Nodes : InsertHead(h, n) \/ InsertTail(h, n)
    \/ RemoveHead(h)

Spec == Init /\ [][Next]_vars
===============================================================================
