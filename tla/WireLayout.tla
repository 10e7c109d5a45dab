------------------------------- MODULE WireLayout -------------------------------
(* Layouts of stm32wb-catalog (layout.rs): the fields of a command's          *)
(* parameters or returns and the number of bytes each takes.  A field is      *)
(*   scalar    an integer of `width` bytes                                    *)
(*   struct    the packed structure `of`                                      *)
(*   array     `len` elements                                                 *)
(*   counted   as many elements as the earlier field `count` says, in a       *)
(*             buffer for `capacity`                                          *)
(*   union     bytes, as many as the earlier field `selector` chooses         *)
(*   optional  a trailing integer that may be left out                        *)
(*   sets      one parameter set for each bit of the earlier field `phys`,    *)
(*             which direct.rs reads by hand for the extended scan and        *)
(*             connect commands                                               *)
(* An element is an integer (`width`) or a structure (`of`).                  *)
EXTENDS WireSequences, SequencesExt, FiniteSetsExt, Naturals

CONSTANTS
  Base,     \* values of a byte, 256 outside small instances
  Other,    \* the tag of the variant for every value not listed
  None,
  Structs   \* the packed structures, by name

Elements == [width : Nat] \cup [of : STRING]

Variants == [tag : Nat \cup {Other}, width : Nat]

Fields ==
  [name : STRING, kind : {"scalar"}, width : Nat, signed : BOOLEAN]
    \cup [name : STRING, kind : {"struct"}, of : STRING]
    \cup [name : STRING, kind : {"array"}, element : Elements, len : Nat]
    \cup [name : STRING, kind : {"counted"}, element : Elements,
          count : STRING, capacity : Nat]
    \cup [name : STRING, kind : {"union"}, selector : STRING,
          variants : Seq(Variants)]
    \cup [name : STRING, kind : {"optional"}, width : Nat]
    \cup [name : STRING, kind : {"sets"}, phys : STRING, allowed : SUBSET (0..7),
          width : Nat, capacity : Nat]

ASSUME BaseAssumption == Base \in Nat \ {0, 1}
ASSUME NoneAssumption == None \notin Nat
ASSUME StructAssumption == \A name \in DOMAIN Structs : Structs[name] \in Seq(Fields)

Byte == 0..(Base - 1)

(* A little-endian integer.                                                   *)
Number(bytes) ==
  LET high[n \in 0..Len(bytes)] ==   \* what the last n bytes make
        IF n = 0 THEN 0 ELSE bytes[Len(bytes) - n + 1] + Base * high[n - 1]
  IN  high[Len(bytes)]

(* How many values `width` bytes have.                                        *)
Power(width) ==
  LET upTo[n \in 0..width] == IF n = 0 THEN 1 ELSE Base * upTo[n - 1]
  IN  upTo[width]

(* Little-endian bytes of an integer, cut to `width` of them.                 *)
LittleEndian(n, width) ==
  LET rest[i \in 0..width] == IF i = 0 THEN n ELSE rest[i - 1] \div Base
  IN  [i \in 1..width |-> rest[i - 1] % Base]

MaxU16 == 65535

------------------------------------------------------------------------------
(* struct_width: None for a structure that is not defined, not of fixed width *)
(* or wider than a u16 holds.  `depth` bounds the nesting, which the code     *)
(* leaves to the stack.                                                       *)
Fits(width) == IF width \in 0..MaxU16 THEN width ELSE None

StructWidths[depth \in Nat] ==
  LET OfElement(e) ==
        IF "of" \notin DOMAIN e THEN e.width
        ELSE IF depth = 0 \/ e.of \notin DOMAIN Structs THEN None
        ELSE StructWidths[depth - 1][e.of]
      OfField(f) ==
        CASE f.kind = "scalar" -> f.width
          [] f.kind = "struct" -> OfElement(f)
          [] f.kind = "array"  ->
               IF OfElement(f.element) = None THEN None
               ELSE Fits(OfElement(f.element) * f.len)
          [] OTHER -> None
  IN [name \in DOMAIN Structs |->
        LET widths == [i \in DOMAIN Structs[name] |-> OfField(Structs[name][i])]
        IN IF None \in Range(widths) THEN None ELSE Fits(Total(widths))]

ElementWidth(e) ==
  IF "of" \notin DOMAIN e THEN e.width
  ELSE IF e.of \notin DOMAIN Structs THEN None
  ELSE Fits(StructWidths[Cardinality(DOMAIN Structs)][e.of])

------------------------------------------------------------------------------
(* The checks of `envelope`.                                                  *)
Unsigned(fields, i, name) ==
  \E j \in 1..(i - 1) :
    fields[j].name = name /\ fields[j].kind = "scalar" /\ ~fields[j].signed

WellFormed(fields, i) ==
  LET f == fields[i] IN
  /\ \A j \in 1..(i - 1) : fields[j].name # f.name
  /\ \A j \in 1..(i - 1) : fields[j].kind = "optional" => f.kind = "optional"
  /\ f.kind = "struct" => ElementWidth(f) # None
  /\ f.kind \in {"array", "counted"} => ElementWidth(f.element) # None
  /\ f.kind = "counted" => Unsigned(fields, i, f.count)
  /\ f.kind = "sets" => Unsigned(fields, i, f.phys)
  /\ f.kind = "union" =>
       /\ Unsigned(fields, i, f.selector)
       /\ f.variants # <<>>
       /\ \A j, k \in DOMAIN f.variants :
            f.variants[j].tag = f.variants[k].tag => j = k

Sound(fields) == \A i \in DOMAIN fields : WellFormed(fields, i)

MinWidth(f) ==
  CASE f.kind \in {"counted", "optional", "sets"} -> 0
    [] f.kind = "scalar" -> f.width
    [] f.kind = "struct" -> ElementWidth(f)
    [] f.kind = "array"  -> ElementWidth(f.element) * f.len
    [] f.kind = "union"  -> Min({f.variants[j].width : j \in DOMAIN f.variants})

MaxWidth(f) ==
  CASE f.kind = "counted" -> ElementWidth(f.element) * f.capacity
    [] f.kind \in {"scalar", "optional"} -> f.width
    [] f.kind = "struct" -> ElementWidth(f)
    [] f.kind = "array"  -> ElementWidth(f.element) * f.len
    [] f.kind = "union"  -> Max({f.variants[j].width : j \in DOMAIN f.variants})
    [] f.kind = "sets"   -> f.width * f.capacity

(* The size envelope of a sound layout.                                       *)
Envelope(fields) ==
  [min |-> Total([i \in DOMAIN fields |-> MinWidth(fields[i])]),
   max |-> Total([i \in DOMAIN fields |-> MaxWidth(fields[i])])]
------------------------------------------------------------------------------
(* What a layout means as a whole, whatever reads or writes it.               *)
(* The bits set in a byte.                                                    *)
Bits(n) == {b \in 0..7 : (n \div (2^b)) % 2 = 1}

(* `cut` divides `bytes` among the fields of a layout: field i is what lies   *)
(* between cut[i - 1] and cut[i], as wide as the layout says, with counts and *)
(* selectors read where their fields lie.  It is the layout's meaning as a    *)
(* whole, where the reader goes field by field.                               *)
Field(bytes, cut, i) == SubSeq(bytes, cut[i - 1] + 1, cut[i])

Divides(cut, fields, bytes) ==
  LET Of(name) == Number(Field(bytes, cut, CHOOSE j \in DOMAIN fields : fields[j].name = name))
      width(i) == cut[i] - cut[i - 1]
  IN
  /\ cut[0] = 0 /\ cut[Len(fields)] = Len(bytes)
  /\ \A i \in DOMAIN fields : cut[i - 1] <= cut[i]
  /\ \A i \in DOMAIN fields :
       LET f == fields[i] IN
       /\ f.kind \in {"scalar", "struct", "array"} => width(i) = MaxWidth(f)
       /\ f.kind = "counted" =>
            /\ Of(f.count) \in 0..f.capacity
            /\ width(i) = Of(f.count) * ElementWidth(f.element)
       /\ f.kind = "union" =>
            \E k \in DOMAIN f.variants :
              /\ f.variants[k].width = width(i)
              /\ \/ f.variants[k].tag = Of(f.selector)
                 \/ /\ f.variants[k].tag = Other
                    /\ \A l \in DOMAIN f.variants : f.variants[l].tag # Of(f.selector)
       /\ f.kind = "sets" =>
            /\ Bits(Of(f.phys)) \subseteq f.allowed
            /\ width(i) = Cardinality(Bits(Of(f.phys))) * f.width
       /\ f.kind = "optional" =>
            /\ width(i) \in {0, f.width}
            /\ i > 1 /\ fields[i - 1].kind = "optional" /\ width(i - 1) = 0 => width(i) = 0

Cuts(fields, bytes) == [0..Len(fields) -> 0..Len(bytes)]

LaidOut(fields, bytes) == \E cut \in Cuts(fields, bytes) : Divides(cut, fields, bytes)
==============================================================================
