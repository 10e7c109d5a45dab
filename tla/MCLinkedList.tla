----------------------------- MODULE MCLinkedList -----------------------------
(* Instance of LinkedList for TLC: two lists and four nodes, so that nodes    *)
(* move between lists of zero, one, two and more nodes.                       *)
EXTENDS LinkedList
CONSTANTS local, free, n1, n2, n3, n4
===============================================================================
