------------------------------ MODULE MCDirectCall ------------------------------
(* Instance of DirectCall for TLC: commands with every kind of field, one     *)
(* whose return type refuses a handle of 0, and three no call is generated    *)
(* for, given every encoding of up to five bytes.                             *)
EXTENDS DirectCall

Scalar(name, width) ==
  [name |-> name, kind |-> "scalar", width |-> width, signed |-> FALSE]
Counted8(name, count, width, capacity) ==
  [name |-> name, kind |-> "counted", element |-> [width |-> width],
   count |-> count, capacity |-> capacity]
Union(name, selector, variants) ==
  [name |-> name, kind |-> "union", selector |-> selector, variants |-> variants]
Variant(tag, width) == [tag |-> tag, width |-> width]

MCStructs ==
  [Pair  |-> <<Scalar("a", 1), Scalar("b", 1)>>,
   Outer |-> <<[name |-> "p", kind |-> "struct", of |-> "Pair"],
               [name |-> "q", kind |-> "array", element |-> [width |-> 1], len |-> 1]>>,
   Huge  |-> <<[name |-> "h", kind |-> "array", element |-> [of |-> "Pair"], len |-> 40000]>>,
   Loop  |-> <<[name |-> "l", kind |-> "struct", of |-> "Loop"]>>]

Complete(params, returns) ==
  [params |-> params, returns |-> <<Scalar("Status", 1)>> \o returns, completes |-> TRUE,
   undecoded |-> {}]
Status(params) ==
  [params |-> params, returns |-> <<>>, completes |-> FALSE, undecoded |-> {}]

Len8 == Scalar("Len", 1)
Type8 == Scalar("Type", 1)
Data(capacity) == Counted8("Data", "Len", 1, capacity)
StructField(name, of) == [name |-> name, kind |-> "struct", of |-> of]

MCCommands ==
  {Complete(<<Len8, Data(2)>>, <<>>),
   Status(<<Scalar("Len", 2), Data(3)>>),
   Status(<<Len8, [Counted8("Pairs", "Len", 1, 2) EXCEPT !.element = [of |-> "Pair"]]>>),
   Complete(<<Len8, Data(1), Counted8("Wide", "Len", 2, 2)>>, <<>>),
   [Complete(<<Type8, Union("Uuid", "Type", <<Variant(1, 1), Variant(2, 2)>>)>>, <<Scalar("Handle", 2)>>)
      EXCEPT !.undecoded = {<<0, 0>>}],
   Status(<<Type8, Union("Uuid", "Type", <<Variant(2, 2), Variant(Other, 1)>>), Scalar("End", 1)>>),
   Status(<<[name |-> "Header", kind |-> "array", element |-> [width |-> 1], len |-> 1], Scalar("Phys", 1),
            [name |-> "Sets", kind |-> "sets", phys |-> "Phys", allowed |-> {0, 1}, width |-> 1, capacity |-> 3]>>),
   Status(<<Scalar("Phys", 1),
            [name |-> "Sets", kind |-> "sets", phys |-> "Phys", allowed |-> {1}, width |-> 2, capacity |-> 3]>>),
   Complete(<<Scalar("Offset", 1)>>, <<Len8, Scalar("Offset", 1), Data(2)>>),
   Complete(<<StructField("Entry", "Outer")>>, <<StructField("Entry", "Outer"), StructField("P", "Pair")>>),
   Complete(<<Len8, Data(1)>>, <<Data(1)>>),
   Status(<<StructField("Big", "Huge")>>),
   Status(<<StructField("Ring", "Loop")>>),
   Status(<<Scalar("Mode", 1), [name |-> "Source", kind |-> "optional", width |-> 1]>>)}

MCEncodings == BoundedSeq(Byte, 5)
==============================================================================
