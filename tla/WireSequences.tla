------------------------------ MODULE WireSequences ------------------------------
(* Sums and selections of sequences, as recursive functions of the number of  *)
(* elements.                                                                  *)
EXTENDS Sequences, Naturals

(* The sum of the first n elements, for each n.                               *)
Sums(s) == LET upTo[n \in 0..Len(s)] == IF n = 0 THEN 0 ELSE upTo[n - 1] + s[n]
           IN  upTo

Total(s) == Sums(s)[Len(s)]

(* The elements whose positions are in `chosen`, in their order.              *)
Select(s, chosen) ==
  LET upTo[n \in 0..Len(s)] ==
        IF n = 0 THEN <<>>
        ELSE IF n \in chosen THEN Append(upTo[n - 1], s[n]) ELSE upTo[n - 1]
  IN  upTo[Len(s)]
================================================================================
