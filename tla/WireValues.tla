------------------------------- MODULE WireValues ------------------------------
(* The Rust types that stand for members of a layout (stm32wb-hci's wire.rs): *)
(* which integers a type has values for, what it makes of the others, and the *)
(* compile-time checks of a type against the values the catalog documents.    *)
(*                                                                            *)
(* A plain type is the constants of HciWireType:                              *)
(*   width, len      bytes of its encoding, elements if it is an array or 1   *)
(*   integer         a primitive integer, or an array of them                 *)
(*   values          what wire_values! lists, or None                         *)
(*   bits            the flags wire_flags! lists, as bit positions, or None   *)
(*   ranges          the <<first, last>> of wire_duration! and wire_range!,   *)
(*                   their special values included, or None                   *)
(*   unit, lengths   the duration of a unit, the length of the data at each   *)
(*                   value, or None                                           *)
(*   fallback        OrUnknown keeps what the type has no value for           *)
(*   last            of AttBearer, the last enhanced bearer; 0 otherwise      *)
(*   struct          the C structure it stands for, or None                   *)
(* Lists (slices, BoundedArray, Elements), Option and unions are built from   *)
(* plain types.                                                               *)
EXTENDS WireLayout

CONSTANTS
  LastConnection,   \* the last connection handle, 0x0EFF
  FirstEnhanced,    \* the first enhanced ATT bearer, 0xEA00
  FlagBits          \* bound: the bit positions of a flags member

ASSUME BearerAssumption ==
  LastConnection \in Nat /\ FirstEnhanced \in Nat /\ LastConnection < FirstEnhanced

ASSUME FlagAssumption == FlagBits \subseteq Nat

Ranges == SUBSET (Nat \X Nat)

PlainTypes ==
  [shape : {"plain"}, width : Nat, len : Nat, integer : BOOLEAN,
   values : SUBSET Nat \cup {None}, bits : SUBSET FlagBits \cup {None},
   ranges : Ranges \cup {None}, unit : Nat \cup {None},
   lengths : UNION {[V -> Nat] : V \in SUBSET Nat} \cup {None},
   fallback : BOOLEAN, last : Nat, struct : STRING \cup {None}]

Types ==
  PlainTypes
    \cup [shape : {"slice", "elements", "option"}, item : PlainTypes]
    \cup [shape : {"bounded"}, item : PlainTypes, capacity : Nat]
    \cup [shape : {"union"}, variants : Seq([tag : Nat, width : Nat])]

Given(x) == IF x = None THEN {} ELSE x

Numbers(ranges) == UNION {r[1]..r[2] : r \in ranges}

Points(values) == {<<v, v>> : v \in values}

FlagsOf(n) == {b \in FlagBits : (n \div (2^b)) % 2 = 1}

FlagNumber(flags) == SumSet({2^b : b \in flags})

Whole(width) == 0..(Power(width) - 1)

------------------------------------------------------------------------------
(* What a type encodes and decodes.                                           *)
Stands(type) == type.values # None \/ type.bits # None \/ type.ranges # None

(* AttBearer::from_raw.                                                       *)
Bearers(last) == 0..LastConnection \cup FirstEnhanced..last

ItemWidth(type) == type.width \div type.len

(* The integers the type, or each element of an array of it, has a value for: *)
(* TryFrom and from_raw of the wire macros, from_bits of flags; every integer *)
(* for a type standing for none in particular.                                *)
Known(type) ==
  IF type.bits # None THEN {n \in Whole(ItemWidth(type)) : FlagsOf(n) \subseteq type.bits}
  ELSE IF type.last # 0 THEN Bearers(type.last)
  ELSE IF Stands(type) THEN Given(type.values) \cup Numbers(Given(type.ranges))
  ELSE Whole(ItemWidth(type))

(* Decoding fails on the others, or keeps them (OrUnknown).                   *)
Decodes(type, n) == n \in Known(type) \/ type.fallback

(* from_units, from_micros and as_micros of a duration, `special` being its   *)
(* values that are no durations.                                              *)
FromMicros(first, last, unit, micros) ==
  IF micros % unit # 0 \/ micros \div unit \notin first..last
  THEN None
  ELSE micros \div unit

AsMicros(first, last, unit, n) == IF n \in first..last THEN n * unit ELSE None

------------------------------------------------------------------------------
(* The compile-time checks.  What is documented for a member is nothing,      *)
(* something unreadable, values (ranges, unit, lengths) or flags.             *)
Documents ==
  [kind : {"nothing", "unreadable"}]
    \cup [kind : {"values"}, ranges : Ranges, unit : Nat \cup {None},
          lengths : UNION {[V -> Nat] : V \in SUBSET Nat}]
    \cup [kind : {"flags"}, bits : SUBSET FlagBits]

(* first..last lies in the union of the ranges: the loop goes on after the    *)
(* farthest end of those that hold the next value.                            *)
Covered(first, last, ranges) ==
  LET Ends(next) == {r[2] : r \in {q \in ranges : q[1] <= next /\ next <= q[2]}}
      From[next \in Nat] ==
        /\ Ends(next) # {}
        /\ Max(Ends(next)) >= last \/ From[Max(Ends(next)) + 1]
  IN From[first]

ValuesDocumented(type, ranges) ==
  /\ type.bits = None
  /\ \A r \in Points(Given(type.values)) \cup Given(type.ranges) :
       Covered(r[1], r[2], ranges)

DocumentedValuesDeclared(type, ranges) ==
  /\ type.bits = None
  /\ Stands(type) =>
       \A r \in ranges :
         Covered(r[1], r[2], Points(Given(type.values)) \cup Given(type.ranges))

DocumentedFlagsDeclared(type, bits) ==
  /\ type.ranges = None
  /\ IF type.bits # None THEN bits \subseteq type.bits
     ELSE type.values # None =>
            /\ Cardinality(bits) <= 16
            /\ \A flags \in SUBSET bits : FlagNumber(flags) \in type.values

FlagsDocumented(type, bits) ==
  /\ type.ranges = None /\ type.lengths = None
  /\ IF type.bits # None THEN type.bits \subseteq bits
     ELSE \A v \in Given(type.values) : FlagsOf(v) \subseteq bits

(* A status type stands for exactly the documented values.                    *)
ValuesExactly(type, values) == type.values = values

UnitDocumented(type, unit) == type.unit = unit

LengthsDocumented(type, lengths) ==
  type.lengths # None =>
    \A v \in DOMAIN type.lengths :
      v \in DOMAIN lengths /\ lengths[v] = type.lengths[v]

IsOpaque(type) == ~Stands(type) /\ type.unit = None /\ type.lengths = None

(* Mutant of DecodesAny: an enumeration is taken to have every value.         *)
DecodesAnyListed(type) == type.fallback \/ (type.bits = None /\ type.ranges = None)

DecodesAny(type) == type.fallback \/ ~Stands(type)

(* union_matches: `variants` of the type against those of the catalog, and    *)
(* every tag within the selector's `width`.                                   *)
UnionMatches(type, variants, width) ==
  LET catalog == [tag \in {variants[k].tag : k \in DOMAIN variants} |->
                    variants[CHOOSE k \in DOMAIN variants : variants[k].tag = tag].width]
      WidthOf(tag) == IF tag \in DOMAIN catalog THEN catalog[tag]
                      ELSE IF Other \in DOMAIN catalog THEN catalog[Other] ELSE None
      tags == {type.variants[k].tag : k \in DOMAIN type.variants}
  IN  /\ \A k \in DOMAIN type.variants :
           /\ type.variants[k].tag \in Whole(width)
           /\ type.variants[k].width = WidthOf(type.variants[k].tag)
      /\ DOMAIN catalog \ {Other} \subseteq tags

(* `without`: the range that holds an omitted value is split around it.       *)
Without(ranges, v) ==
  UNION {IF v \in r[1]..r[2]
         THEN {q \in {<<r[1], v - 1>>, <<v + 1, r[2]>>} : q[1] <= q[2]}
         ELSE {r} : r \in ranges}
==============================================================================
