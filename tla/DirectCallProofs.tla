---------------------------- MODULE DirectCallProofs ----------------------------
(* Proofs about DirectCall, for every command, layout and encoding: what the  *)
(* stack's function receives is the parameters, cut where the layout says,    *)
(* and what the caller receives is the returns, cut where theirs does.        *)
EXTENDS DirectCall, SequenceLemmas

------------------------------------------------------------------------------
(* Facts about numbers.                                                       *)

(* Bytes make a natural number.                                               *)
LEMMA NumberType ==
  ASSUME NEW bytes \in Seq(Byte)
  PROVE  Number(bytes) \in Nat
<1> DEFINE N == Len(bytes)
           Step(f, n) == IF n = 0 THEN 0 ELSE bytes[N - n + 1] + Base * f[n - 1]
           S == {m \in Nat : \E f : f = [n \in 0..m |-> Step(f, n)]}
<1>1. 0 \in S
  <2> DEFINE f == [n \in 0..0 |-> 0]
  <2>1. f = [n \in 0..0 |-> Step(f, n)]
    OBVIOUS
  <2> QED BY <2>1
<1>2. ASSUME NEW m \in Nat, m \in S PROVE m + 1 \in S
  <2>1. PICK f : f = [n \in 0..m |-> Step(f, n)]
    BY <1>2
  <2> DEFINE last == Step(f, m + 1)
             g == [n \in 0..(m + 1) |-> IF n = m + 1 THEN last ELSE f[n]]
  <2>2. \A n \in 0..m : f[n] = Step(f, n)
    <3> HIDE DEF Step
    <3> QED BY <2>1
  <2>3. \A n \in 0..m : g[n] = f[n]
    OBVIOUS
  <2>4. g[m + 1] = last
    OBVIOUS
  <2> HIDE DEF g
  <2>5. ASSUME NEW n \in 0..(m + 1) PROVE g[n] = Step(g, n)
    <3>1. CASE n = m + 1
      <4>1. g[n - 1] = f[n - 1] /\ n # 0
        BY <2>3, <3>1
      <4> QED BY <2>4, <3>1, <4>1
    <3>2. CASE n # m + 1
      <4>1. n \in 0..m /\ (n # 0 => n - 1 \in 0..m)
        BY <3>2
      <4>2. g[n] = f[n] /\ (n # 0 => g[n - 1] = f[n - 1])
        BY <2>3, <4>1
      <4>3. f[n] = Step(f, n)
        BY <2>2, <4>1
      <4> QED BY <4>2, <4>3
    <3> QED BY <3>1, <3>2
  <2>6. g = [n \in 0..(m + 1) |-> g[n]]
    BY DEF g
  <2>7. g = [n \in 0..(m + 1) |-> Step(g, n)]
    <3> HIDE DEF Step
    <3> QED BY <2>5, <2>6
  <2> HIDE DEF Step
  <2> QED BY <2>7
<1>3. N \in Nat /\ DOMAIN bytes = 1..N /\ N \in S
  <2>1. N \in Nat /\ DOMAIN bytes = 1..N
    OBVIOUS
  <2> HIDE DEF S, N
  <2> QED BY <1>1, <1>2, <2>1, SetInduction
<1> DEFINE high == CHOOSE f : f = [n \in 0..N |-> Step(f, n)]
<1>4. high = [n \in 0..N |-> Step(high, n)]
  BY <1>3
<1>5. Number(bytes) = high[N]
  BY DEF Number
<1> HIDE DEF high
<1>6. ASSUME NEW n \in 0..N PROVE high[n] = Step(high, n)
  <2> HIDE DEF Step, N
  <2> QED BY <1>4
<1> DEFINE H == {n \in Nat : n <= N => high[n] \in Nat}
<1>7. 0 \in H
  BY <1>3, <1>6
<1>8. ASSUME NEW n \in Nat, n \in H, n + 1 <= N PROVE high[n + 1] \in Nat
  <2>1. n + 1 \in 0..N /\ n + 1 # 0 /\ n + 1 - 1 = n /\ N - (n + 1) + 1 \in 1..N
    BY <1>3, <1>8
  <2>2. high[n + 1] = bytes[N - (n + 1) + 1] + Base * high[n]
    BY <1>6, <2>1
  <2>3. high[n] \in Nat
    BY <1>8
  <2>4. bytes[N - (n + 1) + 1] \in Nat
    <3>1. bytes[N - (n + 1) + 1] \in Byte
      BY <2>1
    <3> QED BY <3>1, BaseAssumption DEF Byte
  <2>5. Base \in Nat
    BY BaseAssumption
  <2>6. Base * high[n] \in Nat
    BY <2>3, <2>5
  <2> QED BY <2>2, <2>4, <2>6
<1>9. Nat \subseteq H
  <2>1. \A n \in Nat : n \in H => n + 1 \in H
    BY <1>8
  <2> HIDE DEF H
  <2> QED BY <1>7, <2>1, SetInduction
<1> QED BY <1>3, <1>5, <1>9

------------------------------------------------------------------------------
(* Facts about layouts.                                                       *)

(* What a field of each kind carries.                                         *)
LEMMA FieldParts ==
  ASSUME NEW f \in Fields
  PROVE  /\ f.kind \in {"scalar", "struct", "array", "counted", "union", "optional", "sets"}
         /\ f.kind \in {"scalar", "optional", "sets"} => f.width \in Nat
         /\ f.kind \in {"array", "counted"} => f.element \in Elements
         /\ f.kind = "array" => f.len \in Nat
         /\ f.kind = "counted" => f.capacity \in Nat
         /\ f.kind = "union" => f.variants \in Seq(Variants)
         /\ f.kind = "struct" => "of" \in DOMAIN f
         /\ f.kind = "sets" => f.allowed \in SUBSET (0..7)
BY DEF Fields

(* An element's width is a number, unless it has none.                        *)
LEMMA ElementWidths ==
  ASSUME NEW e, e \in Elements \/ "of" \in DOMAIN e
  PROVE  ElementWidth(e) \in Nat \cup {None}
<1>1. CASE "of" \in DOMAIN e
  <2>1. \A width : Fits(width) \in Nat \cup {None}
    BY DEF Fits
  <2>2. QED
    BY <1>1, <2>1 DEF ElementWidth
<1>2. CASE "of" \notin DOMAIN e
  <2>1. e \in [width : Nat]
    BY <1>2 DEF Elements
  <2>2. QED
    BY <1>2, <2>1 DEF ElementWidth
<1>3. QED
  BY <1>1, <1>2

(* The field a count or a selector names is the only one of its name, and     *)
(* comes earlier.                                                             *)
LEMMA ReferencesAreEarlier ==
  ASSUME NEW fields \in Seq(Fields), Sound(fields),
         NEW i \in DOMAIN fields, NEW name, Unsigned(fields, i, name)
  PROVE  \E j \in 1..(i - 1) :
           /\ fields[j].name = name
           /\ \A k \in DOMAIN fields : fields[k].name = name => k = j
<1>1. PICK j \in 1..(i - 1) : fields[j].name = name
  BY DEF Unsigned
<1>2. j \in DOMAIN fields
  OBVIOUS
<1>3. \A k \in DOMAIN fields : fields[k].name = name => k = j
  <2>1. SUFFICES ASSUME NEW k \in DOMAIN fields, fields[k].name = name, k # j
                 PROVE  FALSE
    OBVIOUS
  <2>2. CASE k < j
    BY <1>1, <1>2, <2>1, <2>2 DEF Sound, WellFormed
  <2>3. CASE j < k
    BY <1>1, <1>2, <2>1, <2>3 DEF Sound, WellFormed
  <2>4. QED
    BY <1>2, <2>1, <2>2, <2>3
<1>4. QED
  BY <1>1, <1>3

(* The reader's decision is the layout's: where it finds a width at all, it   *)
(* is a number.                                                               *)
LEMMA FixedWidths ==
  ASSUME NEW fields \in Seq(Fields), Sound(fields), NEW i \in DOMAIN fields,
         fields[i].kind \in {"scalar", "struct", "array"}
  PROVE  MaxWidth(fields[i]) \in Nat
<1> DEFINE f == fields[i]
<1>1. f \in Fields
  OBVIOUS
<1>2. WellFormed(fields, i)
  BY DEF Sound
<1>3. CASE f.kind = "scalar"
  BY <1>1, <1>3, FieldParts DEF MaxWidth
<1>4. CASE f.kind = "struct"
  <2>1. ElementWidth(f) \in Nat
    BY <1>1, <1>2, <1>4, FieldParts, ElementWidths DEF WellFormed
  <2>2. QED
    BY <1>4, <2>1 DEF MaxWidth
<1>5. CASE f.kind = "array"
  <2>1. ElementWidth(f.element) \in Nat
    BY <1>1, <1>2, <1>5, FieldParts, ElementWidths DEF WellFormed
  <2>2. f.len \in Nat
    BY <1>1, <1>5, FieldParts
  <2>3. QED
    BY <1>5, <2>1, <2>2 DEF MaxWidth
<1>6. QED
  BY <1>3, <1>4, <1>5

(* The greatest of finitely many widths.                                      *)
LEMMA GreatestWidth ==
  ASSUME NEW widths \in Seq(Nat), widths # <<>>
  PROVE  LET W == {widths[k] : k \in DOMAIN widths}
         IN  Max(W) \in Nat /\ \A w \in W : w <= Max(W)
<1> DEFINE W == {widths[k] : k \in DOMAIN widths}
<1>1. \A k \in DOMAIN widths :
        Sums(widths)[k - 1] \in Nat /\ Sums(widths)[k] = Sums(widths)[k - 1] + widths[k]
        /\ Sums(widths)[k] <= Total(widths) /\ widths[k] \in Nat
  <2>1. /\ \A n \in 1..Len(widths) : Sums(widths)[n] = Sums(widths)[n - 1] + widths[n]
        /\ \A n \in 0..Len(widths) : Sums(widths)[n] \in Nat /\ Sums(widths)[n] <= Total(widths)
    BY SumsRecursion, SumsGrow
  <2>2. \A k \in DOMAIN widths :
          k \in 1..Len(widths) /\ k \in 0..Len(widths) /\ k - 1 \in 0..Len(widths)
          /\ widths[k] \in Nat
    OBVIOUS
  <2> QED BY <2>1, <2>2
<1>2. Total(widths) \in Nat /\ \A w \in W : w <= Total(widths)
  <2>1. Total(widths) \in Nat
    BY SumsGrow
  <2>2. \A a, b, c, d \in Nat : c = a + b /\ c <= d => b <= d
    OBVIOUS
  <2>3. \A k \in DOMAIN widths : Sums(widths)[k] \in Nat
    <3>1. \A k \in DOMAIN widths : k \in 0..Len(widths)
      OBVIOUS
    <3> QED BY <3>1, SumsGrow
  <2> QED BY <1>1, <2>1, <2>2, <2>3
<1>3. W \in SUBSET Nat /\ W # {}
  <2>1. 1 \in DOMAIN widths
    OBVIOUS
  <2>2. widths[1] \in W
    BY <2>1
  <2>3. W \in SUBSET Nat
    OBVIOUS
  <2> HIDE DEF W
  <2> QED BY <2>2, <2>3
<1>4. PICK w \in W : \A v \in W : v <= w
  <2> HIDE DEF W
  <2> QED BY <1>2, <1>3, GreatestNatural
<1>5. \A v \in W : w >= v
  BY <1>3, <1>4
<1>6. Max(W) \in W /\ \A v \in W : Max(W) >= v
  <2> HIDE DEF W
  <2> QED BY <1>5 DEF Max
<1> HIDE DEF W
<1> QED BY <1>3, <1>6 DEF W

(* The most a field of a sound layout takes.                                  *)
LEMMA MaxWidths ==
  ASSUME NEW fields \in Seq(Fields), Sound(fields), NEW i \in DOMAIN fields
  PROVE  /\ MaxWidth(fields[i]) \in Nat
         /\ fields[i].kind = "union" => \A k \in DOMAIN fields[i].variants :
              fields[i].variants[k].width <= MaxWidth(fields[i])
<1> DEFINE f == fields[i]
<1>1. f \in Fields /\ WellFormed(fields, i)
  BY DEF Sound
<1>2. CASE f.kind \in {"scalar", "struct", "array"}
  BY <1>2, FixedWidths
<1>3. CASE f.kind = "counted"
  <2>1. ElementWidth(f.element) \in Nat
    BY <1>1, <1>3, FieldParts, ElementWidths DEF WellFormed
  <2>2. f.capacity \in Nat
    BY <1>1, <1>3, FieldParts
  <2> QED BY <1>3, <2>1, <2>2 DEF MaxWidth
<1>4. CASE f.kind = "optional"
  BY <1>1, <1>4, FieldParts DEF MaxWidth
<1>5. CASE f.kind = "sets"
  <2>1. f.width \in Nat /\ f.capacity \in Nat
    BY <1>1, <1>5 DEF Fields
  <2> QED BY <1>5, <2>1 DEF MaxWidth
<1>6. CASE f.kind = "union"
  <2>1. f.variants \in Seq(Variants) /\ f.variants # <<>>
    BY <1>1, <1>6, FieldParts DEF WellFormed
  <2> DEFINE widths == [k \in 1..Len(f.variants) |-> f.variants[k].width]
  <2>2. widths \in Seq(Nat) /\ widths # <<>> /\ DOMAIN widths = DOMAIN f.variants
    <3>1. \A k \in DOMAIN f.variants : f.variants[k] \in Variants
      BY <2>1
    <3>2. \A k \in 1..Len(f.variants) : f.variants[k].width \in Nat
      BY <2>1, <3>1 DEF Variants
    <3>3. Len(f.variants) \in Nat /\ Len(f.variants) # 0
      BY <2>1
    <3> QED BY <2>1, <3>2, <3>3
  <2>3. MaxWidth(f) = Max({widths[k] : k \in DOMAIN widths})
    <3>1. {widths[k] : k \in DOMAIN widths} = {f.variants[j].width : j \in DOMAIN f.variants}
      BY <2>1, <2>2
    <3> HIDE DEF widths
    <3> QED BY <1>6, <3>1 DEF MaxWidth
  <2>4. \A k \in DOMAIN f.variants : widths[k] = f.variants[k].width
    BY <2>1
  <2> HIDE DEF widths
  <2> QED BY <2>2, <2>3, <2>4, GreatestWidth
<1> QED BY <1>1, <1>2, <1>3, <1>4, <1>5, <1>6, FieldParts

(* The envelope of a sound layout is a number.                                *)
LEMMA EnvelopeType ==
  ASSUME NEW fields \in Seq(Fields), Sound(fields)
  PROVE  Envelope(fields).max \in Nat
<1> DEFINE widths == [i \in DOMAIN fields |-> MaxWidth(fields[i])]
<1>1. widths \in Seq(Nat)
  <2>1. \A i \in 1..Len(fields) : MaxWidth(fields[i]) \in Nat
    BY MaxWidths
  <2>2. widths = [i \in 1..Len(fields) |-> MaxWidth(fields[i])] /\ Len(fields) \in Nat
    OBVIOUS
  <2>3. widths \in [1..Len(fields) -> Nat]
    BY <2>1, <2>2
  <2> HIDE DEF widths
  <2> QED BY <2>2, <2>3
<1>2. Envelope(fields).max = Total(widths)
  BY DEF Envelope
<1> HIDE DEF widths
<1> QED BY <1>1, <1>2, SumsGrow

(* What is divided as a layout says is no longer than its envelope.           *)
LEMMA WithinEnvelope ==
  ASSUME NEW fields \in Seq(Fields), Sound(fields), NEW m \in 0..Len(fields),
         NEW cut \in [0..m -> Nat], cut[0] = 0,
         \A i \in 1..m : cut[i] - cut[i - 1] <= MaxWidth(fields[i])
  PROVE  cut[m] <= Envelope(fields).max
<1> DEFINE widths == [i \in DOMAIN fields |-> MaxWidth(fields[i])]
<1>1. widths \in Seq(Nat) /\ Len(widths) = Len(fields)
  <2>1. \A i \in 1..Len(fields) : MaxWidth(fields[i]) \in Nat
    BY MaxWidths
  <2>2. DOMAIN fields = 1..Len(fields) /\ Len(fields) \in Nat
    OBVIOUS
  <2>3. widths = [i \in 1..Len(fields) |-> MaxWidth(fields[i])]
    BY <2>2
  <2>4. widths \in [1..Len(fields) -> Nat]
    BY <2>1, <2>3
  <2>5. Len(fields) \in Nat /\ widths \in [1..Len(fields) -> Nat] /\ DOMAIN widths = 1..Len(fields)
    BY <2>2, <2>3, <2>4
  <2> HIDE DEF widths
  <2>6. \A n \in Nat : \A w \in [1..n -> Nat] : w \in Seq(Nat) /\ Len(w) = n
    OBVIOUS
  <2> QED BY <2>5, <2>6
<1>2. \A i \in 1..m : cut[i] - cut[i - 1] <= widths[i]
  OBVIOUS
<1>3. Envelope(fields).max = Total(widths)
  BY DEF Envelope
<1> HIDE DEF widths
<1>4. cut[m] <= Sums(widths)[m]
  BY <1>1, <1>2, CutsWithinSums
<1>5. Sums(widths)[m] \in Nat /\ Sums(widths)[m] <= Total(widths) /\ Total(widths) \in Nat
  BY <1>1, SumsGrow
<1>6. cut[m] \in Nat
  OBVIOUS
<1> QED BY <1>3, <1>4, <1>5, <1>6

------------------------------------------------------------------------------
(* The inductive invariant.  The arguments tile what the reader has taken,    *)
(* and each is as wide as the layout says.                                    *)

EndOf(i) == IF i = 0 THEN 0 ELSE args[i].at + args[i].width

ValueIn(name) ==
  Number(Bytes(args[CHOOSE j \in DOMAIN command.params : command.params[j].name = name]))

AsWide(f, width) ==
  /\ f.kind \in {"scalar", "struct", "array"} => width = MaxWidth(f)
  /\ f.kind = "counted" =>
       /\ ValueIn(f.count) \in 0..f.capacity
       /\ width = ValueIn(f.count) * ElementWidth(f.element)
  /\ f.kind = "union" =>
       \E k \in DOMAIN f.variants :
         /\ f.variants[k].width = width
         /\ \/ f.variants[k].tag = ValueIn(f.selector)
            \/ /\ f.variants[k].tag = Other
               /\ \A l \in DOMAIN f.variants : f.variants[l].tag # ValueIn(f.selector)
  /\ f.kind = "sets" =>
       /\ Bits(ValueIn(f.phys)) \subseteq f.allowed
       /\ width = Cardinality(Bits(ValueIn(f.phys))) * f.width

Reading ==
  /\ command \in Commands /\ Generated(command)
  /\ encoded \in Encodings
  /\ Len(args) <= Len(command.params)
  /\ at = EndOf(Len(args)) /\ at <= Len(encoded)
  /\ \A i \in DOMAIN args :
       /\ args[i].at = EndOf(i - 1) /\ EndOf(i) <= at
       /\ AsWide(command.params[i], args[i].width)

IInv ==
  /\ pc \in {"idle", "reading", "called", "putting", "returned"}
  /\ at \in Nat
  /\ args \in Seq(Places)
  /\ pc = "idle" => at = 0 /\ args = <<>> /\ passed = None
  /\ pc = "reading" => passed = None
  /\ pc # "idle" => Reading
  /\ passed # None =>
       passed = args /\ Len(args) = Len(command.params) /\ at = Len(encoded)

(* The value a count or selector has for the reader is the one it has in the  *)
(* finished reading.                                                          *)
LEMMA ValueOfReference ==
  ASSUME Reading, args \in Seq(Places), NEW i \in DOMAIN command.params,
         NEW name, Unsigned(command.params, i, name),
         i <= Len(args) + 1
  PROVE  Value(name) = ValueIn(name)
<1>1. command.params \in Seq(Fields) /\ Sound(command.params)
  BY CommandAssumption DEF Reading, Generated
<1>2. PICK j \in 1..(i - 1) :
        /\ command.params[j].name = name
        /\ \A k \in DOMAIN command.params : command.params[k].name = name => k = j
  BY <1>1, ReferencesAreEarlier
<1>3. j \in DOMAIN args /\ j \in DOMAIN command.params
  BY <1>1
<1>4. DOMAIN args \subseteq DOMAIN command.params
  BY <1>1 DEF Reading
<1>5. (CHOOSE k \in DOMAIN args : command.params[k].name = name) = j
  BY <1>2, <1>3, <1>4
<1>6. (CHOOSE k \in DOMAIN command.params : command.params[k].name = name) = j
  BY <1>2, <1>3
<1>7. QED
  BY <1>5, <1>6 DEF Value, ValueIn

(* Every field refers to an earlier one, if to any.                           *)
Refers(f, name) ==
  \/ f.kind = "counted" /\ name = f.count
  \/ f.kind = "union" /\ name = f.selector
  \/ f.kind = "sets" /\ name = f.phys

LEMMA References ==
  ASSUME NEW fields, Sound(fields), NEW i \in DOMAIN fields,
         NEW name, Refers(fields[i], name)
  PROVE  Unsigned(fields, i, name)
BY DEF Sound, WellFormed, Refers

(* Where the code finds a width, it is the layout's.                          *)
LEMMA WidthIsTheLayouts ==
  ASSUME Reading, args \in Seq(Places), Len(args) < Len(command.params)
  PROVE  LET f == command.params[Len(args) + 1] IN
         Width(f) # None => Width(f) \in Nat /\ AsWide(f, Width(f))
<1> DEFINE i == Len(args) + 1
           f == command.params[i]
<1>1. command.params \in Seq(Fields) /\ Sound(command.params)
  BY CommandAssumption DEF Reading, Generated
<1>2. i \in DOMAIN command.params /\ f \in Fields
  BY <1>1
<1>3. \A name : Refers(f, name) => Value(name) = ValueIn(name)
  BY <1>1, <1>2, References, ValueOfReference
<1>4. WellFormed(command.params, i)
  BY <1>1, <1>2 DEF Sound
<1> SUFFICES ASSUME Width(f) # None
             PROVE  Width(f) \in Nat /\ AsWide(f, Width(f))
  OBVIOUS
<1>5. CASE f.kind \in {"scalar", "struct", "array"}
  <2>1. Width(f) = MaxWidth(f)
    BY <1>5 DEF Width
  <2>2. MaxWidth(f) \in Nat
    BY <1>1, <1>2, <1>5, FixedWidths
  <2>3. QED
    BY <1>5, <2>1, <2>2 DEF AsWide
<1>6. CASE f.kind = "counted"
  <2>1. Value(f.count) = ValueIn(f.count)
    BY <1>3, <1>6 DEF Refers
  <2>2. Value(f.count) \in 0..f.capacity /\ Width(f) = Value(f.count) * ElementWidth(f.element)
    BY <1>6 DEF Width
  <2>3. ElementWidth(f.element) \in Nat
    BY <1>2, <1>4, <1>6, FieldParts, ElementWidths DEF WellFormed
  <2>4. f.capacity \in Nat
    BY <1>2, <1>6, FieldParts
  <2>5. Width(f) \in Nat
    BY <2>2, <2>3, <2>4
  <2>6. QED
    BY <1>6, <2>1, <2>2, <2>5 DEF AsWide
<1>7. CASE f.kind = "union"
  <2>1. Value(f.selector) = ValueIn(f.selector)
    BY <1>3, <1>7 DEF Refers
  <2>2. Width(f) = Selected(f, Value(f.selector))
    BY <1>7 DEF Width
  <2>3. f.variants \in Seq(Variants)
    BY <1>2, <1>7, FieldParts
  <2> DEFINE v == Value(f.selector)
             tags == {f.variants[k].tag : k \in DOMAIN f.variants}
             tag == IF v \in tags THEN v ELSE Other
  <2>4. tag \in tags
    BY <2>2 DEF Selected
  <2>5. PICK k \in DOMAIN f.variants :
          f.variants[k].tag = tag /\ Width(f) = f.variants[k].width
    BY <2>2, <2>4 DEF Selected
  <2>6. Width(f) \in Nat
    <3>1. f.variants[k] \in Variants
      BY <2>3, <2>5
    <3>2. QED
      BY <2>5, <3>1 DEF Variants
  <2>7. \/ f.variants[k].tag = v
        \/ f.variants[k].tag = Other /\ \A l \in DOMAIN f.variants : f.variants[l].tag # v
    BY <2>5
  <2>8. QED
    BY <1>7, <2>1, <2>5, <2>6, <2>7 DEF AsWide
<1>8. CASE f.kind = "sets"
  <2>1. Value(f.phys) = ValueIn(f.phys)
    BY <1>3, <1>8 DEF Refers
  <2>2. /\ Bits(Value(f.phys)) \subseteq f.allowed
        /\ Width(f) = Cardinality(Bits(Value(f.phys))) * f.width
    BY <1>8 DEF Width
  <2>3. IsFiniteSet(Bits(Value(f.phys)))
    <3>1. \A n : Bits(n) \subseteq 0..7
      BY DEF Bits
    <3>2. IsFiniteSet(0..7)
      <4>1. 0 \in Int /\ 7 \in Int
        OBVIOUS
      <4>2. QED
        BY <4>1, FS_Interval, Zenon
    <3>3. QED
      BY <3>1, <3>2, FS_Subset
  <2>4. Width(f) \in Nat
    BY <1>2, <1>8, <2>2, <2>3, FS_CardinalityType, FieldParts
  <2>5. QED
    BY <1>8, <2>1, <2>2, <2>4 DEF AsWide
<1>9. f.kind # "optional"
  BY <1>2 DEF Reading, Generated
<1>10. QED
  BY <1>2, <1>5, <1>6, <1>7, <1>8, <1>9, FieldParts

------------------------------------------------------------------------------
(* The invariant is inductive.                                                *)

(* Another argument leaves the values of the references so far alone.         *)
LEMMA ReadKeepsValues ==
  ASSUME Reading, args \in Seq(Places),
         NEW place \in Places, args' = Append(args, place),
         UNCHANGED <<command, encoded>>,
         NEW i \in DOMAIN command.params, i <= Len(args) + 1,
         NEW width
  PROVE  AsWide(command.params[i], width) => AsWide(command.params[i], width)'
<1>1. command.params \in Seq(Fields) /\ Sound(command.params)
  BY CommandAssumption DEF Reading, Generated
<1>earlier. \A name : Unsigned(command.params, i, name) =>
        \E j \in 1..(i - 1) :
          /\ command.params[j].name = name
          /\ \A k \in DOMAIN command.params : command.params[k].name = name => k = j
  BY <1>1, ReferencesAreEarlier
<1> DEFINE f == command.params[i]
<1>2. \A name : Refers(f, name) => ValueIn(name)' = ValueIn(name)
  <2>1. SUFFICES ASSUME NEW name, Refers(f, name)
                 PROVE  ValueIn(name)' = ValueIn(name)
    OBVIOUS
  <2>2. PICK j \in 1..(i - 1) :
          /\ command.params[j].name = name
          /\ \A k \in DOMAIN command.params : command.params[k].name = name => k = j
    <3>1. Unsigned(command.params, i, name)
      BY <1>1, <2>1, References
    <3> QED BY <1>earlier, <3>1
  <2>3. j \in DOMAIN args /\ j \in DOMAIN command.params
    BY <1>1
  <2>4. (CHOOSE k \in DOMAIN command.params : command.params[k].name = name) = j
    BY <2>2, <2>3
  <2>5. args'[j] = args[j]
    BY <2>3
  <2>6. QED
    BY <2>4, <2>5 DEF ValueIn, Bytes
<1>3. CASE f.kind = "counted"
  <2>1. ValueIn(f.count)' = ValueIn(f.count)
    BY <1>2, <1>3 DEF Refers
  <2>2. QED
    BY <1>3, <2>1 DEF AsWide
<1>4. CASE f.kind = "union"
  <2>1. ValueIn(f.selector)' = ValueIn(f.selector)
    BY <1>2, <1>4 DEF Refers
  <2>2. QED
    BY <1>4, <2>1 DEF AsWide
<1>5. CASE f.kind = "sets"
  <2>1. ValueIn(f.phys)' = ValueIn(f.phys)
    BY <1>2, <1>5 DEF Refers
  <2>2. QED
    BY <1>5, <2>1 DEF AsWide
<1>6. CASE f.kind \notin {"counted", "union", "sets"}
  BY <1>6 DEF AsWide
<1>7. QED
  BY <1>3, <1>4, <1>5, <1>6

LEMMA SameReading ==
  ASSUME Reading, UNCHANGED <<command, encoded, at, args>>
  PROVE  Reading'
<1>1. \A name : ValueIn(name)' = ValueIn(name)
  BY DEF ValueIn, Bytes
<1>2. ASSUME NEW f, NEW width, AsWide(f, width)
      PROVE  AsWide(f, width)'
  <2>1. f.kind = "counted" => ValueIn(f.count)' = ValueIn(f.count)
    BY <1>1
  <2>2. f.kind = "union" => ValueIn(f.selector)' = ValueIn(f.selector)
    BY <1>1
  <2>3. f.kind = "sets" => ValueIn(f.phys)' = ValueIn(f.phys)
    BY <1>1
  <2>4. QED
    BY <1>2, <2>1, <2>2, <2>3 DEF AsWide
<1>3. \A i : EndOf(i)' = EndOf(i)
  BY DEF EndOf
<1>4. ASSUME NEW i \in DOMAIN args'
      PROVE  /\ args'[i].at = EndOf(i - 1)' /\ EndOf(i)' <= at'
             /\ AsWide(command.params[i], args[i].width)'
  <2>1. /\ args[i].at = EndOf(i - 1) /\ EndOf(i) <= at
        /\ AsWide(command.params[i], args[i].width)
    BY DEF Reading
  <2>2. PICK f, width : f = command.params[i] /\ width = args[i].width
    OBVIOUS
  <2>3. AsWide(f, width)
    BY <2>1, <2>2
  <2>4. AsWide(f, width)'
    BY <1>2, <2>3
  <2>5. f = command'.params[i] /\ width = args'[i].width
    BY <2>2
  <2>6. AsWide(command.params[i], args[i].width)'
    BY <2>4, <2>5 DEF AsWide
  <2>7. QED
    BY <1>3, <2>1, <2>6
<1>5. QED
  BY <1>3, <1>4 DEF Reading

LEMMA Inductive == IInv /\ [Next]_vars => IInv'
<1> SUFFICES ASSUME IInv, [Next]_vars
             PROVE  IInv'
  OBVIOUS
<1>1. ASSUME NEW c \in Commands, NEW bytes \in Encodings, Start(c, bytes)
      PROVE  IInv'
  <2>1. Len(bytes) \in Nat
    BY EncodingAssumption
  <2>2. pc = "idle" /\ at = 0 /\ args = <<>> /\ passed = None
    BY <1>1 DEF Start, IInv
  <2>3. pc' \in {"reading", "returned"} /\ UNCHANGED <<at, args, passed>>
    BY <1>1 DEF Start, End
  <2>4. c.params \in Seq(Fields)
    BY CommandAssumption
  <2>5. Reading'
    BY <1>1, <2>1, <2>2, <2>3, <2>4 DEF Start, Reading, EndOf
  <2>6. QED
    BY <2>2, <2>3, <2>5 DEF IInv
<1>2. ASSUME Read
      PROVE  IInv'
  <2> DEFINE i == Len(args) + 1
             f == command.params[i]
             place == [at |-> at, width |-> Width(f)]
  <2>1. pc = "reading" /\ Reading /\ passed = None /\ args \in Seq(Places) /\ at \in Nat
    BY <1>2 DEF Read, IInv
  <2>2. UNCHANGED <<command, encoded, passed>>
    BY <1>2 DEF Read
  <2>3. CASE pc' = "returned" /\ UNCHANGED <<at, args>>
    <3>1. Reading'
      BY <2>1, <2>2, <2>3, SameReading
    <3>2. QED
      BY <2>1, <2>2, <2>3, <3>1 DEF IInv
  <2>4. CASE ~(Width(f) = None \/ at + Width(f) > Len(encoded))
    <3>1. args' = Append(args, place) /\ at' = at + Width(f) /\ pc' = "reading"
      BY <1>2, <2>1, <2>4 DEF Read
    <3>2. Width(f) \in Nat /\ AsWide(f, Width(f))
      BY <1>2, <2>1, <2>4, WidthIsTheLayouts DEF Read
    <3>3. place \in Places
      BY <2>1, <3>2 DEF Places
    <3>4. command.params \in Seq(Fields)
      BY <2>1, CommandAssumption DEF Reading
    <3>5. Len(args) < Len(command.params)
      BY <1>2 DEF Read
    <3>6. Len(encoded) \in Nat
      BY <2>1, EncodingAssumption DEF Reading
    <3>7. args' \in Seq(Places) /\ Len(args') = i /\ at' \in Nat /\ at' <= Len(encoded)
      BY <2>1, <2>4, <3>1, <3>2, <3>3, <3>6
    <3>8. at' = EndOf(Len(args))'
      BY <2>1, <3>1, <3>7 DEF EndOf
    <3>9. ASSUME NEW k \in DOMAIN args'
          PROVE  /\ args'[k].at = EndOf(k - 1)' /\ EndOf(k)' <= at'
                 /\ AsWide(command.params[k], args[k].width)'
      <4>1. CASE k = i
        <5>1. args'[k] = place
          BY <2>1, <3>1, <4>1
        <5>2. at = EndOf(Len(args))
          BY <2>1 DEF Reading
        <5>3. EndOf(k - 1)' = EndOf(Len(args))
          BY <2>1, <3>1, <4>1 DEF EndOf
        <5>4. PICK w : w = Width(f)
          OBVIOUS
        <5>5. AsWide(command.params[k], w)'
          <6>1. AsWide(command.params[k], w)
            BY <3>2, <4>1, <5>4
          <6>2. k \in DOMAIN command.params /\ k <= Len(args) + 1
            BY <2>1, <3>4, <3>5, <4>1
          <6>3. QED
            BY <2>1, <2>2, <3>1, <3>3, <6>1, <6>2, ReadKeepsValues
        <5>6. w = args'[k].width
          BY <5>1, <5>4
        <5>7. AsWide(command.params[k], args[k].width)'
          BY <5>5, <5>6 DEF AsWide
        <5>8. EndOf(k)' <= at'
          BY <3>7, <3>8, <4>1
        <5>9. QED
          BY <5>1, <5>2, <5>3, <5>7, <5>8
      <4>2. CASE k # i
        <5>1. k \in DOMAIN args /\ args'[k] = args[k]
          BY <2>1, <3>1, <3>3, <3>7, <4>2
        <5>2. /\ args[k].at = EndOf(k - 1) /\ EndOf(k) <= at
              /\ AsWide(command.params[k], args[k].width)
          BY <2>1, <5>1 DEF Reading
        <5>3. EndOf(k - 1)' = EndOf(k - 1)
          BY <2>1, <3>1, <5>1 DEF EndOf
        <5>4. AsWide(command.params[k], args[k].width) => AsWide(command.params[k], args[k].width)'
          <6> DEFINE width == args[k].width
          <6>1. k \in DOMAIN command.params /\ k <= Len(args) + 1
            BY <2>1, <3>4, <3>5, <5>1
          <6>2. AsWide(command.params[k], args[k].width) =>
                  \A w : w = args[k].width => AsWide(command.params[k], w)'
            BY <2>1, <2>2, <3>1, <3>3, <6>1, ReadKeepsValues
          <6>3. QED
            BY <5>1, <6>2 DEF AsWide
        <5>5. EndOf(k)' <= at'
          <6>1. EndOf(k)' = EndOf(k) /\ EndOf(k) \in Nat
            <7>1. args[k] \in Places
              BY <2>1, <5>1
            <7>2. QED
              BY <5>1, <7>1 DEF EndOf, Places
          <6>2. QED
            BY <2>1, <3>1, <3>2, <5>2, <6>1
        <5>6. QED
          BY <5>1, <5>2, <5>3, <5>4, <5>5
      <4>3. QED
        BY <4>1, <4>2
    <3>10. Reading'
      BY <2>1, <2>2, <3>5, <3>7, <3>8, <3>9 DEF Reading
    <3>11. QED
      BY <2>1, <2>2, <3>1, <3>7, <3>10 DEF IInv
  <2>5. QED
    BY <1>2, <2>3, <2>4 DEF Read, End
<1>3. ASSUME Call
      PROVE  IInv'
  <2>1. Reading'
    BY <1>3, SameReading DEF Call, IInv
  <2>2. QED
    BY <1>3, <2>1 DEF Call, IInv, End
<1>4. ASSUME UNCHANGED <<command, encoded, at, args, passed>>,
             pc \notin {"idle", "reading"}, pc' \in {"putting", "returned"}
      PROVE  IInv'
  <2>1. Reading'
    BY <1>4, SameReading DEF IInv
  <2>2. QED
    BY <1>4, <2>1 DEF IInv
<1>5. CASE Refused
  BY <1>4, <1>5 DEF Refused, End
<1>6. CASE Succeeded
  BY <1>4, <1>6 DEF Succeeded, End
<1>7. CASE Put
  BY <1>4, <1>7 DEF Put, End
<1>8. CASE Finish
  BY <1>4, <1>8 DEF Finish, End
<1>9. CASE Return
  BY <1>9 DEF Return, IInv
<1>10. CASE UNCHANGED vars
  <2>1. Reading => Reading'
    BY <1>10, SameReading DEF vars
  <2>2. QED
    BY <1>10, <2>1 DEF vars, IInv
<1>11. QED
  BY <1>1, <1>2, <1>3, <1>5, <1>6, <1>7, <1>8, <1>9, <1>10 DEF Next

THEOREM Invariance == Spec => []IInv
<1>1. Init => IInv
  BY DEF Init, IInv, Places
<1>2. QED
  BY <1>1, Inductive, PTL DEF Spec

------------------------------------------------------------------------------
(* What the invariant says of a call.                                         *)

LEMMA ArgumentsTile == IInv => ArgumentsAreParameters
<1> SUFFICES ASSUME IInv, passed # None
             PROVE  /\ Len(passed) = Len(command.params)
                    /\ Divides([i \in 0..Len(passed) |->
                                  IF i = 0 THEN 0 ELSE passed[i].at + passed[i].width],
                               command.params, encoded)
                    /\ \A i \in DOMAIN passed :
                         passed[i].at =
                           IF i = 1 THEN 0 ELSE passed[i - 1].at + passed[i - 1].width
  BY DEF ArgumentsAreParameters
<1> DEFINE cut == [i \in 0..Len(passed) |->
                     IF i = 0 THEN 0 ELSE passed[i].at + passed[i].width]
<1>1. /\ passed = args /\ args \in Seq(Places) /\ Reading
      /\ Len(args) = Len(command.params) /\ at = Len(encoded)
  BY DEF IInv
<1>2. /\ command.params \in Seq(Fields) /\ Sound(command.params)
      /\ \A i \in DOMAIN command.params : command.params[i].kind # "optional"
  BY <1>1, CommandAssumption DEF Reading, Generated
<1>3. DOMAIN args = DOMAIN command.params
  BY <1>1, <1>2
<1>4. \A i \in 0..Len(args) : cut[i] = EndOf(i)
  BY <1>1 DEF EndOf
<1>5. ASSUME NEW i \in DOMAIN args
      PROVE  /\ args[i].at = EndOf(i - 1) /\ EndOf(i) <= at
             /\ AsWide(command.params[i], args[i].width)
             /\ args[i].at \in Nat /\ args[i].width \in Nat
  <2>1. args[i] \in Places
    BY <1>1
  <2>2. QED
    BY <1>1, <2>1 DEF Reading, Places
<1>6. \A i \in DOMAIN args : cut[i - 1] = args[i].at /\ cut[i] = args[i].at + args[i].width
  <2>1. \A i \in DOMAIN args :
          i # 0 /\ i \in 0..Len(args) /\ i - 1 \in 0..Len(args)
    BY <1>1
  <2> HIDE DEF cut
  <2> QED BY <1>4, <1>5, <2>1 DEF EndOf
<1>7. \A i \in DOMAIN args : Field(encoded, cut, i) = Bytes(args[i])
  BY <1>6 DEF Field, Bytes
<1>8. \A i \in DOMAIN args : \A name :
        Refers(command.params[i], name) =>
          Number(Field(encoded, cut,
                       CHOOSE j \in DOMAIN command.params : command.params[j].name = name))
            = ValueIn(name)
  <2>1. SUFFICES ASSUME NEW i \in DOMAIN args, NEW name, Refers(command.params[i], name)
                 PROVE  Number(Field(encoded, cut, CHOOSE j \in DOMAIN command.params :
                                 command.params[j].name = name)) = ValueIn(name)
    OBVIOUS
  <2>2. \E j \in DOMAIN command.params : command.params[j].name = name
    BY <1>2, <1>3, <2>1, References DEF Unsigned
  <2>3. QED
    BY <1>3, <1>7, <2>2 DEF ValueIn
<1>9. cut[0] = 0 /\ cut[Len(command.params)] = Len(encoded)
  BY <1>1, <1>4 DEF Reading, EndOf
<1>10. ASSUME NEW i \in DOMAIN command.params
       PROVE  cut[i - 1] <= cut[i] /\ cut[i] - cut[i - 1] = args[i].width
  <2> HIDE DEF cut
  <2>1. i \in DOMAIN args
    BY <1>3
  <2>2. QED
    BY <1>5, <1>6, <2>1
<1>11. Divides(cut, command.params, encoded)
  <2> HIDE DEF cut
  <2> DEFINE Of(name) == Number(Field(encoded, cut,
               CHOOSE j \in DOMAIN command.params : command.params[j].name = name))
             width(i) == cut[i] - cut[i - 1]
  <2>1. ASSUME NEW i \in DOMAIN command.params
        PROVE  LET f == command.params[i] IN
               /\ f.kind \in {"scalar", "struct", "array"} => width(i) = MaxWidth(f)
               /\ f.kind = "counted" =>
                    /\ Of(f.count) \in 0..f.capacity
                    /\ width(i) = Of(f.count) * ElementWidth(f.element)
               /\ f.kind = "union" =>
                    \E k \in DOMAIN f.variants :
                      /\ f.variants[k].width = width(i)
                      /\ \/ f.variants[k].tag = Of(f.selector)
                         \/ /\ f.variants[k].tag = Other
                            /\ \A l \in DOMAIN f.variants : f.variants[l].tag # Of(f.selector)
               /\ f.kind = "sets" =>
                    /\ Bits(Of(f.phys)) \subseteq f.allowed
                    /\ width(i) = Cardinality(Bits(Of(f.phys))) * f.width
               /\ f.kind = "optional" =>
                    /\ width(i) \in {0, f.width}
                    /\ i > 1 /\ command.params[i - 1].kind = "optional" /\ width(i - 1) = 0
                         => width(i) = 0
    <3> DEFINE f == command.params[i]
    <3>1. AsWide(f, args[i].width) /\ width(i) = args[i].width
      BY <1>3, <1>5, <1>10
    <3>2. \A name : Refers(f, name) => Of(name) = ValueIn(name)
      BY <1>3, <1>8
    <3> HIDE DEF Of, width
    <3>3. f.kind = "counted" => Of(f.count) = ValueIn(f.count)
      BY <3>2 DEF Refers
    <3>4. f.kind = "union" => Of(f.selector) = ValueIn(f.selector)
      BY <3>2 DEF Refers
    <3>5. f.kind = "sets" => Of(f.phys) = ValueIn(f.phys)
      BY <3>2 DEF Refers
    <3>6. f.kind # "optional"
      BY <1>2
    <3>7. QED
      BY <3>1, <3>3, <3>4, <3>5, <3>6 DEF AsWide
  <2>2. \A i \in DOMAIN command.params : cut[i - 1] <= cut[i]
    BY <1>10
  <2>3. QED
    BY <1>9, <2>1, <2>2 DEF Divides
<1>12. \A i \in DOMAIN passed :
         passed[i].at = IF i = 1 THEN 0 ELSE passed[i - 1].at + passed[i - 1].width
  BY <1>1, <1>5 DEF EndOf
<1>13. QED
  BY <1>1, <1>11, <1>12

(* The function of the stack gets the parameters as they are encoded, field   *)
(* by field, as the layout of its release says.                               *)
THEOREM DirectArguments == Spec => []ArgumentsAreParameters
BY Invariance, ArgumentsTile, PTL

------------------------------------------------------------------------------
(* The layout leaves the reader no choice.                                    *)

(* A division of the encoded parameters agrees with the arguments so far.     *)
Agrees(cut) == \A i \in 0..Len(args) : cut[i] = EndOf(i)

Divisions == {cut \in Cuts(command.params, encoded) : Divides(cut, command.params, encoded)}

(* Every division agrees with the reader; where the call was rejected, there  *)
(* is none.                                                                   *)
CallInv ==
  /\ pc # "idle" => \A cut \in Divisions : Agrees(cut)
  /\ pc \in {"called", "putting"} => passed # None
  /\ pc = "returned" /\ passed = None => Divisions = {}

(* Of what the reader has read, a division reads the same values.             *)
LEMMA DivisionValues ==
  ASSUME Reading, args \in Seq(Places), NEW cut, Agrees(cut),
         NEW i \in DOMAIN command.params, i <= Len(args) + 1,
         NEW name, Unsigned(command.params, i, name)
  PROVE  Number(Field(encoded, cut, CHOOSE j \in DOMAIN command.params :
                                      command.params[j].name = name)) = Value(name)
<1>1. command.params \in Seq(Fields) /\ Sound(command.params)
  BY CommandAssumption DEF Reading, Generated
<1>2. PICK j \in 1..(i - 1) :
        /\ command.params[j].name = name
        /\ \A k \in DOMAIN command.params : command.params[k].name = name => k = j
  BY <1>1, ReferencesAreEarlier
<1>3. j \in DOMAIN args /\ j \in DOMAIN command.params /\ j - 1 \in 0..Len(args) /\ j \in 0..Len(args)
  BY <1>1
<1>4. (CHOOSE k \in DOMAIN command.params : command.params[k].name = name) = j
  BY <1>2, <1>3
<1>5. Field(encoded, cut, j) = Bytes(args[j])
  <2>1. cut[j - 1] = EndOf(j - 1) /\ cut[j] = EndOf(j)
    BY <1>3 DEF Agrees
  <2>2. args[j].at = EndOf(j - 1)
    BY <1>3 DEF Reading
  <2>3. EndOf(j) = args[j].at + args[j].width
    BY <1>3 DEF EndOf
  <2> QED BY <2>1, <2>2, <2>3 DEF Field, Bytes
<1>6. Value(name) = ValueIn(name)
  BY <1>1, ValueOfReference
<1> QED BY <1>4, <1>5, <1>6 DEF ValueIn

(* The next field of a division is as wide as the reader takes it to be.      *)
LEMMA DivisionWidth ==
  ASSUME Reading, args \in Seq(Places), Len(args) < Len(command.params),
         NEW cut \in Divisions, Agrees(cut)
  PROVE  LET f == command.params[Len(args) + 1]
         IN  /\ Width(f) # None
             /\ cut[Len(args) + 1] - cut[Len(args)] = Width(f)
<1> DEFINE i == Len(args) + 1
           f == command.params[i]
           Of(name) == Number(Field(encoded, cut, CHOOSE j \in DOMAIN command.params :
                                                    command.params[j].name = name))
           width == cut[i] - cut[i - 1]
<1>1. command.params \in Seq(Fields) /\ Sound(command.params) /\ Len(args) \in Nat
  BY CommandAssumption DEF Reading, Generated
<1>2. i \in DOMAIN command.params /\ f \in Fields /\ i <= Len(args) + 1 /\ i - 1 = Len(args)
  BY <1>1
<1>3. \A name : Refers(f, name) => Of(name) = Value(name)
  BY <1>1, <1>2, References, DivisionValues
<1>4. WellFormed(command.params, i) /\ f.kind # "optional"
  BY <1>1, <1>2 DEF Sound, Reading, Generated
<1>5. width \in Nat
  <2>1. cut \in [0..Len(command.params) -> 0..Len(encoded)]
    BY DEF Divisions, Cuts
  <2>2. cut[i - 1] <= cut[i]
    BY <1>2 DEF Divisions, Divides
  <2>3. i \in 0..Len(command.params) /\ i - 1 \in 0..Len(command.params)
    BY <1>1, <1>2
  <2>4. Len(encoded) \in Nat
    BY EncodingAssumption DEF Reading
  <2>5. cut[i] \in Nat /\ cut[i - 1] \in Nat
    BY <2>1, <2>3, <2>4
  <2> QED BY <2>2, <2>5
<1>6. width # None
  BY <1>5, NoneAssumption
<1>7. /\ f.kind \in {"scalar", "struct", "array"} => width = MaxWidth(f)
      /\ f.kind = "counted" =>
           Of(f.count) \in 0..f.capacity /\ width = Of(f.count) * ElementWidth(f.element)
      /\ f.kind = "union" =>
           \E k \in DOMAIN f.variants :
             /\ f.variants[k].width = width
             /\ \/ f.variants[k].tag = Of(f.selector)
                \/ /\ f.variants[k].tag = Other
                   /\ \A l \in DOMAIN f.variants : f.variants[l].tag # Of(f.selector)
      /\ f.kind = "sets" =>
           Bits(Of(f.phys)) \subseteq f.allowed /\ width = Cardinality(Bits(Of(f.phys))) * f.width
  BY <1>2 DEF Divisions, Divides
<1> HIDE DEF Of, width
<1>8. Width(f) = width
  <2>1. CASE f.kind \in {"scalar", "struct", "array"}
    BY <1>7, <2>1 DEF Width
  <2>2. CASE f.kind = "counted"
    <3>1. Of(f.count) = Value(f.count)
      BY <1>3, <2>2 DEF Refers
    <3> QED BY <1>7, <2>2, <3>1 DEF Width
  <2>3. CASE f.kind = "union"
    <3>1. Of(f.selector) = Value(f.selector)
      BY <1>3, <2>3 DEF Refers
    <3>2. Width(f) = Selected(f, Value(f.selector))
      BY <2>3 DEF Width
    <3> DEFINE v == Value(f.selector)
               tags == {f.variants[k].tag : k \in DOMAIN f.variants}
               tag == IF v \in tags THEN v ELSE Other
    <3>3. PICK k \in DOMAIN f.variants :
            f.variants[k].width = width /\ f.variants[k].tag = tag
      BY <1>7, <2>3, <3>1
    <3>4. \A j \in DOMAIN f.variants : f.variants[j].tag = tag => j = k
      BY <1>4, <2>3, <3>3 DEF WellFormed
    <3>5. tag \in tags
      BY <3>3
    <3> DEFINE chosen == CHOOSE j \in DOMAIN f.variants : f.variants[j].tag = tag
    <3>6. chosen = k
      BY <3>3, <3>4
    <3>7. Selected(f, v) = f.variants[chosen].width
      BY <3>5 DEF Selected
    <3> HIDE DEF chosen
    <3> QED BY <3>2, <3>3, <3>6, <3>7
  <2>4. CASE f.kind = "sets"
    <3>1. Of(f.phys) = Value(f.phys)
      BY <1>3, <2>4 DEF Refers
    <3> QED BY <1>7, <2>4, <3>1 DEF Width
  <2> QED BY <1>2, <1>4, <2>1, <2>2, <2>3, <2>4, FieldParts
<1> QED BY <1>2, <1>6, <1>8 DEF width

(* A field as wide as the layout says, for whatever value it refers to, is no *)
(* wider than the room made for it.                                           *)
LEMMA WidthBounded ==
  ASSUME NEW c \in Commands, Generated(c), NEW i \in DOMAIN c.params,
         NEW width \in Int, NEW v,
         LET f == c.params[i]
         IN  /\ f.kind \in {"scalar", "struct", "array"} => width = MaxWidth(f)
             /\ f.kind = "counted" =>
                  v \in 0..f.capacity /\ width = v * ElementWidth(f.element)
             /\ f.kind = "union" => \E k \in DOMAIN f.variants : f.variants[k].width = width
             /\ f.kind = "sets" =>
                  Bits(v) \subseteq f.allowed /\ width = Cardinality(Bits(v)) * f.width
  PROVE  width <= MaxWidth(c.params[i])
<1> DEFINE f == c.params[i]
<1>1. /\ c.params \in Seq(Fields) /\ Sound(c.params)
      /\ f \in Fields /\ WellFormed(c.params, i) /\ f.kind # "optional"
  BY CommandAssumption DEF Generated, Sound
<1>2. MaxWidth(f) \in Nat
  BY <1>1, MaxWidths
<1>3. CASE f.kind \in {"scalar", "struct", "array"}
  BY <1>2, <1>3
<1>4. CASE f.kind = "counted"
  <2>1. ElementWidth(f.element) \in Nat /\ f.capacity \in Nat
    BY <1>1, <1>4, FieldParts, ElementWidths DEF WellFormed
  <2>2. \A n \in 0..f.capacity :
          n * ElementWidth(f.element) <= ElementWidth(f.element) * f.capacity
    BY <2>1
  <2>3. MaxWidth(f) = ElementWidth(f.element) * f.capacity
    BY <1>4 DEF MaxWidth
  <2> QED BY <1>4, <2>2, <2>3
<1>5. CASE f.kind = "union"
  <2>1. \A k \in DOMAIN f.variants : f.variants[k].width <= MaxWidth(f)
    BY <1>1, <1>5, MaxWidths
  <2> QED BY <1>5, <2>1
<1>6. CASE f.kind = "sets"
  <2>1. f.width \in Nat /\ f.capacity \in Nat /\ f.allowed \in SUBSET (0..7)
    BY <1>1, <1>6 DEF Fields
  <2>2. Cardinality(f.allowed) <= f.capacity
    BY <1>6, SetsAssumption
  <2>3. IsFiniteSet(f.allowed)
    <3>1. 0 \in Int /\ 7 \in Int
      OBVIOUS
    <3>2. IsFiniteSet(0..7)
      BY <3>1, FS_Interval, Zenon
    <3> QED BY <2>1, <3>2, FS_Subset
  <2>4. /\ Cardinality(Bits(v)) <= Cardinality(f.allowed)
        /\ Cardinality(Bits(v)) \in Nat /\ Cardinality(f.allowed) \in Nat
    <3>1. IsFiniteSet(Bits(v)) /\ Cardinality(Bits(v)) <= Cardinality(f.allowed)
      BY <1>6, <2>3, FS_Subset
    <3> QED BY <2>3, <3>1, FS_CardinalityType
  <2>5. \A n, a \in Nat : n <= a /\ a <= f.capacity => n * f.width <= f.width * f.capacity
    BY <2>1
  <2>6. MaxWidth(f) = f.width * f.capacity
    BY <1>6 DEF MaxWidth
  <2> QED BY <1>6, <2>2, <2>4, <2>5, <2>6
<1> QED BY <1>1, <1>3, <1>4, <1>5, <1>6, FieldParts

(* What is longer than the buffer does not have the layout.                   *)
LEMMA TooLong ==
  ASSUME NEW c \in Commands, Generated(c), NEW bytes \in Encodings,
         NEW cut \in Cuts(c.params, bytes), Divides(cut, c.params, bytes)
  PROVE  Len(bytes) <= Envelope(c.params).max
<1> DEFINE Of(name) == Number(Field(bytes, cut, CHOOSE j \in DOMAIN c.params :
                                                  c.params[j].name = name))
<1>1. c.params \in Seq(Fields) /\ Sound(c.params) /\ Len(bytes) \in Nat
  BY CommandAssumption, EncodingAssumption DEF Generated
<1>2. cut \in [0..Len(c.params) -> Nat] /\ cut[0] = 0 /\ cut[Len(c.params)] = Len(bytes)
  BY <1>1 DEF Cuts, Divides
<1>3. ASSUME NEW i \in 1..Len(c.params)
      PROVE  cut[i] - cut[i - 1] <= MaxWidth(c.params[i])
  <2> DEFINE f == c.params[i]
             width == cut[i] - cut[i - 1]
             v == IF f.kind = "counted" THEN Of(f.count) ELSE Of(f.phys)
  <2>1. i \in DOMAIN c.params
    BY <1>1
  <2>2. /\ f.kind \in {"scalar", "struct", "array"} => width = MaxWidth(f)
        /\ f.kind = "counted" =>
             Of(f.count) \in 0..f.capacity /\ width = Of(f.count) * ElementWidth(f.element)
        /\ f.kind = "union" => \E k \in DOMAIN f.variants : f.variants[k].width = width
        /\ f.kind = "sets" =>
             Bits(Of(f.phys)) \subseteq f.allowed /\ width = Cardinality(Bits(Of(f.phys))) * f.width
    BY <2>1 DEF Divides
  <2>3. width \in Int
    <3>1. i \in 0..Len(c.params) /\ i - 1 \in 0..Len(c.params)
      BY <1>1
    <3>2. cut[i] \in Nat /\ cut[i - 1] \in Nat
      BY <1>2, <3>1
    <3> QED BY <3>2
  <2> HIDE DEF Of, width
  <2>4. width <= MaxWidth(f)
    BY <2>1, <2>2, <2>3, WidthBounded
  <2> QED BY <2>4 DEF width
<1>4. Len(c.params) \in 0..Len(c.params)
  BY <1>1
<1>5. cut[Len(c.params)] <= Envelope(c.params).max
  BY <1>1, <1>2, <1>3, <1>4, WithinEnvelope
<1> QED BY <1>2, <1>5

LEMMA CallSame ==
  ASSUME CallInv, IInv, UNCHANGED <<command, encoded, args, passed>>, pc # "idle",
         pc' \in {"called", "putting"} => passed # None,
         pc' = "returned" => pc \in {"called", "putting", "returned"}
  PROVE  CallInv'
<1>1. (\A i : EndOf(i)' = EndOf(i)) /\ Divisions' = Divisions
  BY DEF EndOf, Divisions
<1>2. \A cut \in Divisions : Agrees(cut)
  BY DEF CallInv
<1>3. \A cut \in Divisions' : Agrees(cut)'
  BY <1>1, <1>2 DEF Agrees
<1>4. pc' = "returned" /\ passed' = None => Divisions' = {}
  BY <1>1 DEF CallInv
<1> QED BY <1>3, <1>4 DEF CallInv

LEMMA CallInductive == IInv /\ IInv' /\ CallInv /\ [Next]_vars => CallInv'
<1> SUFFICES ASSUME IInv, IInv', CallInv, [Next]_vars
             PROVE  CallInv'
  OBVIOUS
<1>1. ASSUME NEW c \in Commands, NEW bytes \in Encodings, Start(c, bytes)
      PROVE  CallInv'
  <2>1. /\ command' = c /\ encoded' = bytes /\ args' = <<>> /\ passed' = None
        /\ Generated(c) /\ pc' \in {"reading", "returned"}
        /\ pc' = "returned" => Len(bytes) > Envelope(c.params).max
    BY <1>1 DEF Start, End, IInv
  <2>2. Divisions' = {cut \in Cuts(c.params, bytes) : Divides(cut, c.params, bytes)}
    BY <2>1 DEF Divisions
  <2>3. \A cut \in Divisions' : cut[0] = 0
    BY <2>2 DEF Divides
  <2>4. \A cut \in Divisions' : Agrees(cut)'
    BY <2>1, <2>3 DEF Agrees, EndOf
  <2>5. pc' = "returned" => Divisions' = {}
    <3> SUFFICES ASSUME pc' = "returned", NEW cut \in Divisions' PROVE FALSE
      OBVIOUS
    <3>1. Len(bytes) <= Envelope(c.params).max
      BY <2>1, <2>2, TooLong
    <3>2. Len(bytes) > Envelope(c.params).max
      BY <2>1
    <3>3. Len(bytes) \in Nat /\ Envelope(c.params).max \in Nat
      <4>1. Len(bytes) \in Nat
        BY EncodingAssumption
      <4> QED BY <2>1, <4>1, EnvelopeType, CommandAssumption DEF Generated
    <3> QED BY <3>1, <3>2, <3>3
  <2> QED BY <2>1, <2>4, <2>5 DEF CallInv
<1>2. ASSUME Read
      PROVE  CallInv'
  <2> DEFINE i == Len(args) + 1
             f == command.params[i]
  <2>1. /\ pc = "reading" /\ Reading /\ passed = None /\ args \in Seq(Places) /\ at \in Nat
        /\ Len(args) < Len(command.params) /\ UNCHANGED <<command, encoded, passed>>
        /\ command.params \in Seq(Fields) /\ Len(encoded) \in Nat
    BY <1>2, CommandAssumption, EncodingAssumption DEF Read, IInv, Reading
  <2>2. Divisions' = Divisions
    BY <2>1 DEF Divisions
  <2>3. ASSUME NEW cut \in Divisions
        PROVE  /\ Agrees(cut) /\ Width(f) # None /\ Width(f) \in Nat
               /\ cut[i] = at + Width(f) /\ cut[i] <= Len(encoded)
    <3>1. Agrees(cut)
      BY <2>1 DEF CallInv
    <3>2. Width(f) # None /\ cut[i] - cut[i - 1] = Width(f)
      <4>1. i - 1 = Len(args)
        BY <2>1
      <4> QED BY <2>1, <3>1, <4>1, DivisionWidth
    <3>3. Width(f) \in Nat
      BY <2>1, <3>2, WidthIsTheLayouts
    <3>4. cut[Len(args)] = at /\ i - 1 = Len(args)
      BY <2>1, <3>1 DEF Agrees, Reading
    <3>5. cut[i] \in 0..Len(encoded)
      <4>1. i \in 0..Len(command.params)
        BY <2>1
      <4> QED BY <4>1 DEF Divisions, Cuts
    <3> QED BY <2>1, <3>1, <3>2, <3>3, <3>4, <3>5
  <2>4. CASE Width(f) = None \/ at + Width(f) > Len(encoded)
    <3>1. pc' = "returned" /\ UNCHANGED args
      BY <1>2, <2>4 DEF Read, End
    <3>2. Divisions = {}
      BY <2>1, <2>3, <2>4
    <3> QED BY <2>2, <3>1, <3>2 DEF CallInv
  <2>5. CASE ~(Width(f) = None \/ at + Width(f) > Len(encoded))
    <3>1. args' = Append(args, [at |-> at, width |-> Width(f)]) /\ pc' = "reading"
      BY <1>2, <2>1, <2>5 DEF Read
    <3>2. ASSUME NEW cut \in Divisions PROVE Agrees(cut)'
      <4>1. Agrees(cut) /\ cut[i] = at + Width(f)
        BY <2>3
      <4>2. Len(args') = i /\ args'[i] = [at |-> at, width |-> Width(f)]
            /\ \A k \in 1..Len(args) : args'[k] = args[k]
        BY <2>1, <3>1
      <4>3. ASSUME NEW k \in 0..Len(args') PROVE cut[k] = EndOf(k)'
        <5>1. CASE k = i
          <6>1. i # 0 /\ EndOf(k)' = args'[i].at + args'[i].width
            BY <2>1, <5>1 DEF EndOf
          <6> HIDE DEF f, i
          <6> QED BY <4>1, <4>2, <5>1, <6>1
        <5>2. CASE k # i
          <6>1. k \in 0..Len(args) /\ (k # 0 => k \in 1..Len(args))
            BY <2>1, <4>2, <4>3, <5>2
          <6>2. k # 0 => args'[k] = args[k]
            BY <4>2, <6>1
          <6>3. EndOf(k)' = EndOf(k)
            BY <6>2 DEF EndOf
          <6> QED BY <4>1, <6>1, <6>3 DEF Agrees
        <5> QED BY <5>1, <5>2
      <4> QED BY <4>3 DEF Agrees
    <3> QED BY <2>1, <2>2, <3>1, <3>2 DEF CallInv
  <2> QED BY <2>4, <2>5
<1>3. ASSUME Call
      PROVE  CallInv'
  <2>1. /\ pc = "reading" /\ Reading /\ passed = None /\ args \in Seq(Places)
        /\ Len(args) = Len(command.params) /\ UNCHANGED <<command, encoded, args>>
    BY <1>3 DEF Call, IInv
  <2>2. Divisions' = Divisions /\ \A k : EndOf(k)' = EndOf(k)
    BY <2>1 DEF Divisions, EndOf
  <2>3. \A cut \in Divisions : Agrees(cut)
    BY <2>1 DEF CallInv
  <2>4. \A cut \in Divisions' : Agrees(cut)'
    BY <2>1, <2>2, <2>3 DEF Agrees
  <2>5. CASE at = Len(encoded)
    <3>1. pc' = "called" /\ passed' = args
      BY <1>3, <2>5 DEF Call
    <3>2. args # None
      BY <2>1, NoSequenceAssumption
    <3> QED BY <2>4, <3>1, <3>2 DEF CallInv
  <2>6. CASE at # Len(encoded)
    <3>1. pc' = "returned"
      BY <1>3, <2>6 DEF Call, End
    <3>2. ASSUME NEW cut \in Divisions PROVE FALSE
      <4>1. cut[Len(args)] = EndOf(Len(args))
        BY <2>1, <2>3 DEF Agrees
      <4>2. cut[Len(args)] = Len(encoded)
        BY <2>1 DEF Divisions, Divides
      <4> QED BY <2>1, <2>6, <4>1, <4>2 DEF Reading
    <3> QED BY <2>2, <2>4, <3>1, <3>2 DEF CallInv
  <2> QED BY <2>5, <2>6
<1>4. CASE Refused \/ Succeeded \/ Put \/ Finish
  <2>1. /\ pc \in {"called", "putting"} /\ UNCHANGED <<command, encoded, args, passed>>
    BY <1>4 DEF Refused, Succeeded, Put, Finish
  <2> QED BY <2>1, CallSame DEF CallInv
<1>5. CASE Return
  BY <1>5 DEF Return, CallInv
<1>6. CASE UNCHANGED vars
  <2>1. CASE pc = "idle"
    BY <1>6, <2>1 DEF vars, CallInv
  <2>2. CASE pc # "idle"
    BY <1>6, <2>2, CallSame DEF vars, CallInv
  <2> QED BY <2>1, <2>2
<1> QED BY <1>1, <1>2, <1>3, <1>4, <1>5, <1>6 DEF Next

(* What does not have the layout never reaches the function: one half of      *)
(* CalledIffLaidOut.  The other half needs what a sum of widths is.           *)
CalledOnlyIfLaidOut == passed # None => LaidOut(command.params, encoded)

LEMMA CalledIsLaidOut == IInv => CalledOnlyIfLaidOut
<1> SUFFICES ASSUME IInv, passed # None
             PROVE  LaidOut(command.params, encoded)
  BY DEF CalledOnlyIfLaidOut
<1> DEFINE cut == [i \in 0..Len(passed) |->
                     IF i = 0 THEN 0 ELSE passed[i].at + passed[i].width]
<1>1. Len(passed) = Len(command.params) /\ Divides(cut, command.params, encoded)
  BY ArgumentsTile DEF ArgumentsAreParameters
<1>2. cut \in Cuts(command.params, encoded)
  <2>1. passed = args /\ args \in Seq(Places) /\ Reading
    BY DEF IInv
  <2>2. ASSUME NEW i \in 1..Len(args)
        PROVE  args[i].at + args[i].width \in 0..Len(encoded)
    <3>1. args[i] \in Places
      BY <2>1
    <3>2. EndOf(i) <= at /\ at <= Len(encoded) /\ at = EndOf(Len(args))
      BY <2>1 DEF Reading
    <3>3. at \in Nat /\ Len(encoded) \in Nat
      BY <2>1, EncodingAssumption DEF IInv, Reading
    <3>4. QED
      BY <3>1, <3>2, <3>3 DEF EndOf, Places
  <2>3. Len(encoded) \in Nat
    BY <2>1, EncodingAssumption DEF Reading
  <2>4. QED
    BY <1>1, <2>1, <2>2, <2>3 DEF Cuts
<1>3. QED
  BY <1>1, <1>2 DEF LaidOut

(* The function of the stack is called for exactly the encodings its layout   *)
(* allows: no buffer is too small for one, and no count or selector misread.  *)
THEOREM DirectCalls == Spec => []CalledIffLaidOut
<1>1. Init => CallInv
  BY DEF Init, CallInv
<1>2. IInv /\ CallInv => CalledIffLaidOut
  <2> SUFFICES ASSUME IInv, CallInv, pc = "returned"
               PROVE  passed # None <=> LaidOut(command.params, encoded)
    BY DEF CalledIffLaidOut
  <2>1. passed = None => Divisions = {}
    BY DEF CallInv
  <2>2. LaidOut(command.params, encoded) => Divisions # {}
    BY DEF LaidOut, Divisions
  <2> QED BY <2>1, <2>2, CalledIsLaidOut DEF CalledOnlyIfLaidOut
<1> QED BY <1>1, <1>2, Invariance, CallInductive, PTL DEF Spec

------------------------------------------------------------------------------
(* What comes back.                                                           *)

(* The returns of a generated call.                                           *)
LEMMA ReturnedType ==
  ASSUME NEW c \in Commands, Generated(c)
  PROVE  /\ Returned(c) \in Seq(Fields) /\ Sound(Returned(c))
         /\ ~c.completes => Returned(c) = <<>>
         /\ \A i \in DOMAIN Returned(c) : Returned(c)[i].kind # "sets"
<1>1. c.returns \in Seq(Fields)
  BY CommandAssumption
<1>2. CASE Returned(c) = <<>>
  BY <1>2 DEF Generated
<1>3. CASE Returned(c) # <<>>
  <2>1. Returned(c) = Tail(c.returns) /\ c.completes /\ c.returns # <<>>
    BY <1>3 DEF Returned
  <2>2. \A i \in DOMAIN Tail(c.returns) :
          i + 1 \in DOMAIN c.returns /\ Tail(c.returns)[i] = c.returns[i + 1]
    BY <1>1, <2>1
  <2>3. Tail(c.returns) \in Seq(Fields)
    BY <1>1, <2>1
  <2> QED BY <2>1, <2>2, <2>3, SetsAssumption DEF Generated
<1> QED BY <1>2, <1>3

(* The function fills each of its output buffers.                             *)
LEMMA OutputType ==
  ASSUME NEW c \in Commands, Generated(c), NEW o \in Written(c), NEW i \in Outputs(c)
  PROVE  o[i] \in Seq(Byte) /\ Len(o[i]) = MaxWidth(Returned(c)[i])
<1>1. PICK k \in Outputs(c) : o[i] \in [1..MaxWidth(Returned(c)[k]) -> Byte]
  BY DEF Written
<1>2. MaxWidth(Returned(c)[k]) \in Nat
  BY ReturnedType, MaxWidths DEF Outputs
<1>3. Len(o[i]) = MaxWidth(Returned(c)[i])
  BY DEF Written
<1>4. o[i] \in Seq(Byte)
  BY <1>1, <1>2
<1> QED BY <1>3, <1>4

(* An argument holds as many bytes as it is wide.                             *)
LEMMA ArgumentBytes ==
  ASSUME Reading, args \in Seq(Places), at \in Nat, NEW j \in DOMAIN args
  PROVE  /\ Bytes(args[j]) \in Seq(Byte) /\ Len(Bytes(args[j])) = args[j].width
         /\ args[j].width \in Nat
<1>1. args[j] \in Places /\ encoded \in Seq(Byte)
  BY EncodingAssumption DEF Reading
<1>2. args[j].at \in Nat /\ args[j].width \in Nat
  BY <1>1 DEF Places
<1>3. args[j].at + args[j].width <= Len(encoded)
  <2>1. EndOf(j) <= at /\ at <= Len(encoded) /\ j # 0
    BY DEF Reading
  <2>2. EndOf(j) = args[j].at + args[j].width
    BY <2>1 DEF EndOf
  <2>3. Len(encoded) \in Nat
    BY <1>1
  <2> QED BY <1>2, <2>1, <2>2, <2>3
<1> DEFINE a == args[j].at
           w == args[j].width
<1>4. Bytes(args[j]) = SubSeq(encoded, a + 1, a + w)
  BY DEF Bytes
<1>5. a \in Nat /\ w \in Nat /\ a + w <= Len(encoded)
  BY <1>2, <1>3
<1> HIDE DEF a, w
<1>6. SubSeq(encoded, a + 1, a + w) \in Seq(Byte) /\ Len(SubSeq(encoded, a + 1, a + w)) = w
  BY <1>1, <1>5
<1> QED BY <1>2, <1>4, <1>6 DEF w

(* A return that echoes a parameter is that parameter.                        *)
LEMMA EchoedParameter ==
  ASSUME Reading, args \in Seq(Places), at \in Nat, Len(args) = Len(command.params),
         NEW i \in DOMAIN Returned(command), i \notin Outputs(command)
  PROVE  \E j \in DOMAIN args :
           /\ j \in DOMAIN command.params
           /\ command.params[j] = Returned(command)[i]
           /\ Piece(i) = Bytes(args[j])
           /\ AsWide(Returned(command)[i], args[j].width)
<1> DEFINE f == Returned(command)[i]
           j == CHOOSE k \in DOMAIN command.params : command.params[k].name = f.name
<1>1. \E k \in DOMAIN command.params : command.params[k].name = f.name
  BY DEF Outputs, Echoes
<1>2. j \in DOMAIN command.params /\ command.params[j].name = f.name
  BY <1>1
<1>3. Piece(i) = Bytes(args[j])
  BY DEF Piece
<1> HIDE DEF j
<1>4. command \in Commands /\ command.params \in Seq(Fields)
  BY CommandAssumption DEF Reading
<1>5. command.params[j] = f
  BY <1>2, <1>4, EchoAssumption
<1>6. j \in DOMAIN args
  BY <1>2, <1>4
<1>7. AsWide(f, args[j].width)
  BY <1>5, <1>6 DEF Reading
<1> QED BY <1>2, <1>3, <1>5, <1>6, <1>7

(* What is put for a return fits in the room made for it; there is none only  *)
(* for a count that exceeds the capacity.                                     *)
LEMMA PieceFits ==
  ASSUME Reading, args \in Seq(Places), at \in Nat, Len(args) = Len(command.params),
         outputs \in Written(command), NEW i \in DOMAIN Returned(command)
  PROVE  LET f == Returned(command)[i]
         IN  /\ Piece(i) # None => /\ Piece(i) \in Seq(Byte)
                                   /\ Len(Piece(i)) \in Nat /\ Len(Piece(i)) <= MaxWidth(f)
             /\ i \in Outputs(command) /\ f.kind = "counted" /\ Piece(i) # None =>
                  /\ Counted(f) \in 0..f.capacity
                  /\ Len(Piece(i)) = Counted(f) * ElementWidth(f.element)
             /\ Piece(i) = None =>
                  i \in Outputs(command) /\ f.kind = "counted" /\ Counted(f) > f.capacity
<1> DEFINE f == Returned(command)[i]
<1>1. /\ command \in Commands /\ Generated(command)
      /\ Returned(command) \in Seq(Fields) /\ Sound(Returned(command))
      /\ f \in Fields /\ WellFormed(Returned(command), i)
  BY ReturnedType DEF Reading, Sound
<1>2. CASE i \notin Outputs(command)
  <2>1. PICK j \in DOMAIN args :
          /\ j \in DOMAIN command.params
          /\ command.params[j] = f /\ Piece(i) = Bytes(args[j])
          /\ AsWide(f, args[j].width)
    BY <1>2, EchoedParameter
  <2>2. Piece(i) \in Seq(Byte) /\ Len(Piece(i)) = args[j].width /\ args[j].width \in Nat
    BY <2>1, ArgumentBytes
  <2> DEFINE v == IF f.kind = "counted" THEN ValueIn(f.count) ELSE ValueIn(f.phys)
             width == args[j].width
  <2> DEFINE g == command.params[j]
  <2>3. /\ g.kind \in {"scalar", "struct", "array"} => width = MaxWidth(g)
        /\ g.kind = "counted" => v \in 0..g.capacity /\ width = v * ElementWidth(g.element)
        /\ g.kind = "union" => \E k \in DOMAIN g.variants : g.variants[k].width = width
        /\ g.kind = "sets" => Bits(v) \subseteq g.allowed /\ width = Cardinality(Bits(v)) * g.width
    BY <2>1 DEF AsWide
  <2>4. width <= MaxWidth(f)
    <3>1. width \in Int
      BY <2>2
    <3> HIDE DEF v, width
    <3>2. width <= MaxWidth(command.params[j])
      BY <1>1, <2>1, <2>3, <3>1, WidthBounded
    <3> QED BY <2>1, <3>2
  <2>5. Piece(i) # None
    BY <2>2, NoSequenceAssumption
  <2> QED BY <1>2, <2>2, <2>4, <2>5
<1>3. CASE i \in Outputs(command)
  <2>1. outputs[i] \in Seq(Byte) /\ Len(outputs[i]) = MaxWidth(f) /\ MaxWidth(f) \in Nat
    BY <1>1, <1>3, OutputType, MaxWidths
  <2>2. CASE f.kind # "counted"
    <3>1. Piece(i) = outputs[i]
      BY <1>3, <2>2 DEF Piece
    <3>2. Piece(i) # None
      BY <2>1, <3>1, NoSequenceAssumption
    <3> QED BY <2>1, <2>2, <3>1, <3>2
  <2>3. CASE f.kind = "counted"
    <3> DEFINE n == Counted(f)
               width == ElementWidth(f.element)
    <3>1. width \in Nat /\ f.capacity \in Nat /\ MaxWidth(f) = width * f.capacity
      BY <1>1, <2>3, FieldParts, ElementWidths DEF WellFormed, MaxWidth
    <3>2. n \in Nat
      <4>1. PICK k \in Outputs(command) : Returned(command)[k].name = f.count
        BY <1>1, <1>3, <2>3 DEF Generated
      <4> DEFINE counter == CHOOSE m \in Outputs(command) : Returned(command)[m].name = f.count
      <4>2. counter \in Outputs(command)
        BY <4>1
      <4>3. n = Number(outputs[counter])
        BY DEF Counted
      <4> HIDE DEF counter, n
      <4>4. outputs[counter] \in Seq(Byte)
        BY <1>1, <4>2, OutputType
      <4> QED BY <4>3, <4>4, NumberType
    <3> HIDE DEF n
    <3>3. CASE n \notin 0..f.capacity
      <4>1. Piece(i) = None
        BY <1>3, <2>3, <3>3 DEF Piece, n
      <4>2. n > f.capacity
        BY <3>1, <3>2, <3>3
      <4> QED BY <1>3, <2>3, <4>1, <4>2 DEF n
    <3>4. CASE n \in 0..f.capacity
      <4>1. Piece(i) = SubSeq(outputs[i], 1, n * width)
        BY <1>3, <2>3, <3>4 DEF Piece, n
      <4>2. n * width \in Nat /\ n * width <= MaxWidth(f)
        <5> HIDE DEF width
        <5>1. \A k \in 0..f.capacity : k * width \in Nat /\ k * width <= width * f.capacity
          <6>1. \A a, b, c \in Nat : a <= b => a * c \in Nat /\ a * c <= c * b
            BY SMTT(30)
          <6>2. width \in Nat /\ f.capacity \in Nat
            BY <3>1
          <6>3. \A k \in 0..f.capacity : k \in Nat /\ k <= f.capacity
            BY <6>2
          <6> QED BY <6>1, <6>2, <6>3
        <5> QED BY <3>1, <3>4, <5>1
      <4> DEFINE m == n * width
      <4>3. SubSeq(outputs[i], 1, m) \in Seq(Byte) /\ Len(SubSeq(outputs[i], 1, m)) = m
        <5> HIDE DEF m
        <5>1. m \in Nat /\ m <= MaxWidth(f)
          BY <4>2 DEF m
        <5> QED BY <2>1, <5>1
      <4>4. Piece(i) # None
        BY <4>1, <4>3, NoSequenceAssumption
      <4> QED BY <1>3, <2>3, <3>4, <4>1, <4>2, <4>3, <4>4 DEF n
    <3> QED BY <3>3, <3>4
  <2> QED BY <2>2, <2>3
<1> QED BY <1>2, <1>3

(* What is put so far is the pieces of the returns so far, one after another. *)
Tiles(cut) ==
  /\ cut \in [0..puts -> Nat]
  /\ cut[0] = 0 /\ cut[puts] = Len(written)
  /\ \A i \in 1..puts :
       /\ cut[i - 1] <= cut[i] /\ cut[i] <= Len(written)
       /\ Piece(i) # None
       /\ Field(written, cut, i) = Piece(i)

Putting ==
  /\ passed # None
  /\ outputs \in Written(command)
  /\ puts \in 0..Len(Returned(command)) /\ written \in Seq(Byte)
  /\ \E cut : Tiles(cut)

(* Why a call whose function succeeded can be invalid.                        *)
Refusal == CountedTooMuch \/ (Putting /\ puts = Len(Returned(command)) /\ written \in command.undecoded)

Rejected == pc = "returned" /\ passed # None /\ outcome = Invalid

ReturnInv ==
  /\ pc \in {"idle", "reading", "called"} => puts = 0 /\ written = <<>>
  /\ pc = "putting" \/ (pc = "returned" /\ "ok" \in DOMAIN outcome) => Putting
  /\ pc = "returned" /\ "ok" \in DOMAIN outcome =>
       outcome.ok = written /\ puts = Len(Returned(command))
  /\ Rejected => Refusal

(* The bytes so far and the next piece fit in the buffer: the largest returns *)
(* are as long as its envelope says.                                          *)
LEMMA PutFits ==
  ASSUME Reading, args \in Seq(Places), at \in Nat, Len(args) = Len(command.params),
         Putting, puts < Len(Returned(command)), Piece(puts + 1) # None
  PROVE  /\ Piece(puts + 1) \in Seq(Byte)
         /\ Len(written) + Len(Piece(puts + 1)) <= Envelope(Returned(command)).max
         /\ Envelope(Returned(command)).max \in Nat
<1> DEFINE R == Returned(command)
           n == puts + 1
           piece == Piece(n)
<1>1. command \in Commands /\ Generated(command) /\ R \in Seq(Fields) /\ Sound(R)
  BY ReturnedType DEF Reading
<1>2. puts \in Nat /\ Len(R) \in Nat /\ DOMAIN R = 1..Len(R) /\ n \in 1..Len(R)
      /\ written \in Seq(Byte) /\ outputs \in Written(command)
  BY <1>1 DEF Putting
<1>3. piece \in Seq(Byte) /\ Len(piece) \in Nat /\ Len(piece) <= MaxWidth(R[n])
  BY <1>2, PieceFits
<1>4. PICK cut : Tiles(cut)
  BY DEF Putting
<1> DEFINE longer == [i \in 0..n |-> IF i = n THEN Len(written) + Len(piece) ELSE cut[i]]
<1>5. ASSUME NEW i \in 1..puts
      PROVE  /\ cut[i] \in Nat /\ cut[i - 1] \in Nat
             /\ cut[i] - cut[i - 1] <= MaxWidth(R[i])
  <2>1. /\ cut[i - 1] <= cut[i] /\ cut[i] <= Len(written)
        /\ Piece(i) # None /\ Field(written, cut, i) = Piece(i)
    BY <1>4 DEF Tiles
  <2>2. cut[i] \in Nat /\ cut[i - 1] \in Nat
    <3>1. i \in 0..puts /\ i - 1 \in 0..puts
      BY <1>2
    <3> QED BY <1>4, <3>1 DEF Tiles
  <2> DEFINE a == cut[i - 1]
             b == cut[i]
  <2>3. Len(SubSeq(written, a + 1, b)) = b - a
    <3>1. a \in Nat /\ b \in Nat /\ a <= b /\ b <= Len(written)
      BY <2>1, <2>2
    <3> HIDE DEF a, b
    <3> QED BY <1>2, <3>1
  <2>4. Len(Piece(i)) = cut[i] - cut[i - 1]
    BY <2>1, <2>3 DEF Field
  <2>5. Len(Piece(i)) <= MaxWidth(R[i])
    <3>1. i \in DOMAIN R
      BY <1>2
    <3> QED BY <1>2, <2>1, <3>1, PieceFits
  <2> QED BY <2>2, <2>4, <2>5
<1>6. longer \in [0..n -> Nat] /\ longer[0] = 0 /\ longer[n] = Len(written) + Len(piece)
  <2>1. Len(written) \in Nat
    BY <1>2
  <2>2. cut \in [0..puts -> Nat] /\ cut[0] = 0
    BY <1>4 DEF Tiles
  <2> HIDE DEF piece
  <2> QED BY <1>2, <1>3, <2>1, <2>2
<1>7. ASSUME NEW i \in 1..n PROVE longer[i] - longer[i - 1] <= MaxWidth(R[i])
  <2>1. CASE i = n
    <3>1. longer[i - 1] = cut[puts] /\ longer[i] = Len(written) + Len(piece)
      BY <1>2, <2>1
    <3>2. cut[puts] = Len(written) /\ Len(written) \in Nat
      BY <1>2, <1>4 DEF Tiles
    <3> HIDE DEF longer, piece
    <3>3. longer[i] - longer[i - 1] = Len(piece)
      BY <1>3, <3>1, <3>2
    <3> QED BY <1>3, <2>1, <3>3
  <2>2. CASE i # n
    <3>1. i \in 1..puts /\ longer[i] = cut[i] /\ longer[i - 1] = cut[i - 1]
      BY <1>2, <2>2
    <3> HIDE DEF longer
    <3> QED BY <1>5, <3>1
  <2> QED BY <2>1, <2>2
<1>8. longer[n] <= Envelope(R).max
  <2>1. n \in 0..Len(R)
    BY <1>2
  <2> HIDE DEF longer, n, R
  <2> QED BY <1>1, <1>6, <1>7, <2>1, WithinEnvelope
<1> QED BY <1>1, <1>3, <1>6, <1>8, EnvelopeType

(* The pieces depend on the command, its arguments and outputs only.          *)
LEMMA SamePieces ==
  ASSUME UNCHANGED <<command, encoded, args, outputs>>, NEW i
  PROVE  Piece(i)' = Piece(i)
<1>1. Returned(command)' = Returned(command) /\ Outputs(command)' = Outputs(command)
  OBVIOUS
<1>2. CASE i \notin Outputs(command)
  <2>1. PICK j : j = CHOOSE k \in DOMAIN command.params :
                        command.params[k].name = Returned(command)[i].name
    OBVIOUS
  <2>2. j = CHOOSE k \in DOMAIN command'.params :
                command'.params[k].name = Returned(command')[i].name
    BY <2>1
  <2>3. Piece(i) = Bytes(args[j])
    BY <1>2, <2>1 DEF Piece
  <2>4. Piece(i)' = Bytes(args[j])'
    BY <1>1, <1>2, <2>2 DEF Piece
  <2>5. Bytes(args[j])' = Bytes(args[j])
    BY DEF Bytes
  <2> QED BY <2>3, <2>4, <2>5
<1>3. CASE i \in Outputs(command) /\ Returned(command)[i].kind # "counted"
  BY <1>1, <1>3 DEF Piece
<1>4. CASE i \in Outputs(command) /\ Returned(command)[i].kind = "counted"
  BY <1>1, <1>4 DEF Piece, Counted
<1> QED BY <1>2, <1>3, <1>4

(* Another piece behind the others.                                           *)
LEMMA PutTiles ==
  ASSUME Reading, args \in Seq(Places), at \in Nat, Len(args) = Len(command.params),
         Putting, puts < Len(Returned(command)), Piece(puts + 1) # None,
         written' = written \o Piece(puts + 1), puts' = puts + 1,
         UNCHANGED <<command, encoded, args, passed, outputs>>
  PROVE  Putting'
<1> DEFINE n == puts + 1
           piece == Piece(n)
<1>1. puts \in Nat /\ Len(Returned(command)) \in Nat /\ n \in 0..Len(Returned(command))
      /\ written \in Seq(Byte) /\ piece \in Seq(Byte)
      /\ Len(written) \in Nat /\ Len(piece) \in Nat
  BY PutFits, ReturnedType DEF Putting, Reading
<1>2. PICK cut : Tiles(cut)
  BY DEF Putting
<1> DEFINE longer == [i \in 0..n |-> IF i = n THEN Len(written) + Len(piece) ELSE cut[i]]
<1>3. \A i : Piece(i)' = Piece(i)
  BY SamePieces
<1>4. /\ written' \in Seq(Byte) /\ Len(written') = Len(written) + Len(piece)
      /\ SubSeq(written', Len(written) + 1, Len(written) + Len(piece)) = piece
      /\ \A a, b \in Nat : a <= b /\ b <= Len(written) =>
           SubSeq(written', a + 1, b) = SubSeq(written, a + 1, b)
  <2> HIDE DEF piece
  <2> DEFINE u == written \o piece
  <2>1. written' = u
    BY DEF piece
  <2>2. /\ u \in Seq(Byte) /\ Len(u) = Len(written) + Len(piece)
        /\ SubSeq(u, Len(written) + 1, Len(written) + Len(piece)) = piece
        /\ \A a, b \in Nat : a <= b /\ b <= Len(written) =>
             SubSeq(u, a + 1, b) = SubSeq(written, a + 1, b)
    BY <1>1, EndToEnd
  <2> HIDE DEF u
  <2> QED BY <2>1, <2>2
<1>5. /\ cut \in [0..puts -> Nat] /\ cut[0] = 0 /\ cut[puts] = Len(written)
      /\ \A i \in 1..puts :
           /\ cut[i - 1] <= cut[i] /\ cut[i] <= Len(written)
           /\ Piece(i) # None /\ Field(written, cut, i) = Piece(i)
  BY <1>2 DEF Tiles
<1>6. /\ longer \in [0..puts' -> Nat] /\ longer[0] = 0 /\ longer[puts'] = Len(written')
  <2> HIDE DEF piece
  <2> QED BY <1>1, <1>4, <1>5
<1>7. ASSUME NEW i \in 1..puts'
      PROVE  /\ longer[i - 1] <= longer[i] /\ longer[i] <= Len(written')
             /\ Piece(i)' # None /\ Field(written', longer, i) = Piece(i)'
  <2>1. CASE i = n
    <3>1. longer[i - 1] = Len(written) /\ longer[i] = Len(written) + Len(piece)
      BY <1>1, <1>5, <2>1
    <3> HIDE DEF longer
    <3>2. Field(written', longer, i) = piece
      BY <1>4, <3>1 DEF Field
    <3>3. Piece(i)' = piece
      BY <1>3, <2>1
    <3> HIDE DEF piece
    <3>4. piece # None
      BY <1>1, NoSequenceAssumption
    <3> QED BY <1>1, <1>4, <3>1, <3>2, <3>3, <3>4
  <2>2. CASE i # n
    <3>1. i \in 1..puts /\ longer[i] = cut[i] /\ longer[i - 1] = cut[i - 1]
      BY <1>1, <2>2
    <3>2. cut[i] \in Nat /\ cut[i - 1] \in Nat
      <4>1. i \in 0..puts /\ i - 1 \in 0..puts
        BY <1>1, <3>1
      <4> QED BY <1>5, <4>1
    <3>3. SubSeq(written', cut[i - 1] + 1, cut[i]) = SubSeq(written, cut[i - 1] + 1, cut[i])
      BY <1>4, <1>5, <3>1, <3>2
    <3> HIDE DEF longer, piece
    <3>4. Field(written', longer, i) = Piece(i)
      BY <1>5, <3>1, <3>3 DEF Field
    <3>5. cut[i] <= Len(written')
      <4>1. cut[i] <= Len(written)
        BY <1>5, <3>1
      <4> QED BY <1>1, <1>4, <3>2, <4>1
    <3> QED BY <1>3, <1>5, <3>1, <3>4, <3>5
  <2> QED BY <2>1, <2>2
<1>8. PICK f : f = longer
  OBVIOUS
<1>9. Tiles(f)'
  <2> HIDE DEF longer
  <2>1. /\ f \in [0..puts' -> Nat] /\ f[0] = 0 /\ f[puts'] = Len(written')
        /\ \A i \in 1..puts' :
             /\ f[i - 1] <= f[i] /\ f[i] <= Len(written')
             /\ Piece(i)' # None /\ Field(written', f, i) = Piece(i)'
    BY <1>6, <1>7, <1>8
  <2> QED BY <2>1 DEF Tiles
<1>10. Written(command)' = Written(command) /\ Returned(command)' = Returned(command)
  BY DEF Written
<1> QED BY <1>1, <1>4, <1>9, <1>10 DEF Putting

LEMMA SamePutting ==
  ASSUME Putting, UNCHANGED <<command, encoded, args, passed, outputs, puts, written>>
  PROVE  Putting'
<1>1. PICK cut : Tiles(cut)
  BY DEF Putting
<1>2. \A i : Piece(i)' = Piece(i)
  BY SamePieces
<1>3. Tiles(cut)'
  <2>1. /\ cut \in [0..puts' -> Nat] /\ cut[0] = 0 /\ cut[puts'] = Len(written')
        /\ \A i \in 1..puts' :
             /\ cut[i - 1] <= cut[i] /\ cut[i] <= Len(written')
             /\ Piece(i)' # None /\ Field(written', cut, i) = Piece(i)'
    BY <1>1, <1>2 DEF Tiles
  <2> QED BY <2>1 DEF Tiles
<1>4. Written(command)' = Written(command) /\ Returned(command)' = Returned(command)
  OBVIOUS
<1> QED BY <1>3, <1>4 DEF Putting

LEMMA ReturnInductive == IInv /\ CallInv /\ ReturnInv /\ [Next]_vars => ReturnInv'
<1> SUFFICES ASSUME IInv, CallInv, ReturnInv, [Next]_vars
             PROVE  ReturnInv'
  OBVIOUS
<1>1. ASSUME pc \in {"idle", "reading"}, UNCHANGED <<puts, written>>,
             pc' \in {"reading", "called", "returned"}, pc' = "returned" => outcome' = Invalid,
             pc' = "returned" => passed' = None
      PROVE  ReturnInv'
  <2>1. puts' = 0 /\ written' = <<>>
    BY <1>1 DEF ReturnInv
  <2>2. "ok" \notin DOMAIN Invalid
    BY DEF Invalid
  <2> QED BY <1>1, <2>1, <2>2 DEF ReturnInv, Rejected
<1>2. ASSUME NEW c \in Commands, NEW bytes \in Encodings, Start(c, bytes)
      PROVE  ReturnInv'
  BY <1>1, <1>2 DEF Start, End, IInv
<1>3. CASE Read
  BY <1>1, <1>3 DEF Read, End, IInv
<1>4. CASE Call
  BY <1>1, <1>4 DEF Call, End, IInv
<1>5. CASE Refused
  <2>1. pc' = "returned" /\ outcome' = [error |-> "Hci"]
    BY <1>5 DEF Refused, End
  <2>2. outcome' # Invalid /\ "ok" \notin DOMAIN outcome'
    <3>1. outcome'.error = "Hci" /\ Invalid.error = "Invalid" /\ "Hci" # "Invalid"
      BY <2>1 DEF Invalid
    <3> QED BY <2>1, <3>1
  <2> QED BY <2>1, <2>2 DEF ReturnInv, Rejected
<1>6. CASE Succeeded
  <2>1. /\ pc = "called" /\ outputs' \in Written(command)
        /\ UNCHANGED <<command, encoded, at, args, passed, puts, written>>
        /\ pc' = "putting" \/ (~command.completes /\ pc' = "returned" /\ outcome' = [ok |-> <<>>])
    BY <1>6 DEF Succeeded, End
  <2>2. puts = 0 /\ written = <<>> /\ passed # None
    BY <2>1 DEF ReturnInv, CallInv
  <2>3. Reading /\ command \in Commands /\ Generated(command) /\ Returned(command) \in Seq(Fields)
    BY <2>1, ReturnedType DEF IInv, Reading
  <2>4. Putting'
    <3>1. PICK cut : cut = [i \in 0..0 |-> 0]
      OBVIOUS
    <3>2. puts' = 0 /\ written' = <<>> /\ passed' # None
      BY <2>1, <2>2
    <3>3. cut \in [0..puts' -> Nat] /\ cut[0] = 0 /\ cut[puts'] = Len(written') /\ 1..puts' = {}
      BY <3>1, <3>2
    <3>4. Tiles(cut)'
      BY <3>3 DEF Tiles
    <3>5. puts' \in 0..Len(Returned(command)) /\ written' \in Seq(Byte)
      BY <2>3, <3>2
    <3> QED BY <2>1, <3>2, <3>4, <3>5 DEF Putting
  <2>5. CASE pc' = "putting"
    BY <2>4, <2>5 DEF ReturnInv, Rejected
  <2>6. CASE ~command.completes /\ pc' = "returned" /\ outcome' = [ok |-> <<>>]
    <3>1. Returned(command) = <<>>
      BY <2>3, <2>6, ReturnedType
    <3>2. outcome' # Invalid
      <4>1. "ok" \in DOMAIN outcome' /\ "ok" \notin DOMAIN Invalid
        BY <2>6 DEF Invalid
      <4> QED BY <4>1
    <3>3. outcome'.ok = written' /\ puts' = Len(Returned(command)')
      BY <2>1, <2>2, <2>6, <3>1
    <3> QED BY <2>4, <2>6, <3>2, <3>3 DEF ReturnInv, Rejected
  <2> QED BY <2>1, <2>5, <2>6
<1>7. CASE Put
  <2>1. /\ pc = "putting" /\ puts < Len(Returned(command))
        /\ UNCHANGED <<command, encoded, at, args, passed, outputs>>
    BY <1>7 DEF Put
  <2>2. /\ Putting /\ Reading /\ args \in Seq(Places) /\ at \in Nat /\ passed # None
        /\ Len(args) = Len(command.params)
    BY <2>1 DEF ReturnInv, IInv, CallInv
  <2>3. CASE Piece(puts + 1) = None
    <3>1. pc' = "returned" /\ outcome' = Invalid
      BY <1>7, <2>3 DEF Put, End
    <3>2. puts + 1 \in DOMAIN Returned(command) /\ outputs \in Written(command)
      <4>1. puts \in Nat /\ outputs \in Written(command) /\ Returned(command) \in Seq(Fields)
        BY <2>2, ReturnedType DEF Putting, Reading
      <4> QED BY <2>1, <4>1
    <3>3. /\ puts + 1 \in Outputs(command)
          /\ Returned(command)[puts + 1].kind = "counted"
          /\ Counted(Returned(command)[puts + 1]) > Returned(command)[puts + 1].capacity
      BY <2>2, <2>3, <3>2, PieceFits
    <3>4. PICK i : i = puts + 1
      OBVIOUS
    <3>5. Counted(Returned(command)[i])' = Counted(Returned(command)[i])
      BY <2>1 DEF Counted
    <3>6. /\ i \in Outputs(command)'
          /\ Returned(command)[i]'.kind = "counted"
          /\ Counted(Returned(command)[i])' > Returned(command)[i]'.capacity
      BY <2>1, <3>3, <3>4, <3>5
    <3>7. Refusal'
      BY <3>6 DEF Refusal, CountedTooMuch
    <3>8. "ok" \notin DOMAIN outcome'
      BY <3>1 DEF Invalid
    <3> QED BY <3>1, <3>7, <3>8 DEF ReturnInv
  <2>4. CASE Piece(puts + 1) # None
    <3>1. ~(Len(written) + Len(Piece(puts + 1)) > Envelope(Returned(command)).max)
      <4>1. /\ Piece(puts + 1) \in Seq(Byte)
            /\ Len(written) + Len(Piece(puts + 1)) <= Envelope(Returned(command)).max
            /\ Envelope(Returned(command)).max \in Nat
        BY <2>1, <2>2, <2>4, PutFits
      <4>2. Len(Piece(puts + 1)) \in Nat /\ Len(written) \in Nat
        BY <2>2, <4>1 DEF Putting
      <4> QED BY <4>1, <4>2
    <3>2. written' = written \o Piece(puts + 1) /\ puts' = puts + 1 /\ pc' = "putting"
      BY <1>7, <2>1, <2>4, <3>1 DEF Put
    <3>3. Putting'
      BY <2>1, <2>2, <2>4, <3>2, PutTiles
    <3> QED BY <3>2, <3>3 DEF ReturnInv, Rejected
  <2> QED BY <2>3, <2>4
<1>8. CASE Finish
  <2>1. /\ pc = "putting" /\ puts = Len(Returned(command)) /\ pc' = "returned"
        /\ outcome' = IF written \in command.undecoded THEN Invalid ELSE [ok |-> written]
        /\ UNCHANGED <<command, encoded, args, passed, outputs, puts, written>>
    BY <1>8 DEF Finish, End
  <2>2. Putting'
    BY <2>1, SamePutting DEF ReturnInv
  <2>3. CASE written \in command.undecoded
    <3>1. outcome' = Invalid /\ "ok" \notin DOMAIN outcome'
      BY <2>1, <2>3 DEF Invalid
    <3>2. Refusal'
      BY <2>1, <2>2, <2>3 DEF Refusal
    <3> QED BY <2>1, <3>1, <3>2 DEF ReturnInv
  <2>4. CASE written \notin command.undecoded
    <3>1. outcome' = [ok |-> written]
      BY <2>1, <2>4
    <3>2. outcome' # Invalid
      <4>1. "ok" \in DOMAIN outcome' /\ "ok" \notin DOMAIN Invalid
        BY <3>1 DEF Invalid
      <4> QED BY <4>1
    <3>3. outcome'.ok = written' /\ puts' = Len(Returned(command)')
      BY <2>1, <3>1
    <3> QED BY <2>1, <2>2, <3>2, <3>3 DEF ReturnInv, Rejected
  <2> QED BY <2>3, <2>4
<1>9. CASE Return
  BY <1>9 DEF Return, ReturnInv, Rejected
<1>10. CASE UNCHANGED vars
  <2>1. Putting => Putting'
    BY <1>10, SamePutting DEF vars
  <2>2. (Rejected => Refusal)'
    <3>1. \A i : Counted(Returned(command)[i])' = Counted(Returned(command)[i])
      <4>1. ASSUME NEW i PROVE Counted(Returned(command)[i])' = Counted(Returned(command)[i])
        BY <1>10 DEF vars, Counted
      <4> QED BY <4>1
    <3>2. CountedTooMuch => CountedTooMuch'
      BY <1>10, <3>1 DEF vars, CountedTooMuch
    <3>3. Refusal => Refusal'
      BY <1>10, <2>1, <3>2 DEF vars, Refusal
    <3>4. Rejected' => Rejected
      BY <1>10 DEF vars, Rejected
    <3> QED BY <3>3, <3>4 DEF ReturnInv
  <2>3. Returned(command)' = Returned(command)
    BY <1>10 DEF vars
  <2> QED BY <1>10, <2>1, <2>2, <2>3 DEF vars, ReturnInv
<1> QED BY <1>2, <1>3, <1>4, <1>5, <1>6, <1>7, <1>8, <1>9, <1>10 DEF Next

(* A count or selector among the returns has the value that sized the field   *)
(* it goes with: the one its parameter had, or the function wrote.            *)
LEMMA ReturnedValues ==
  ASSUME Reading, args \in Seq(Places), at \in Nat, Len(args) = Len(command.params),
         Putting, puts = Len(Returned(command)), NEW cut, Tiles(cut),
         NEW i \in DOMAIN Returned(command), NEW name, Refers(Returned(command)[i], name)
  PROVE  LET value == Number(Field(written, cut, CHOOSE j \in DOMAIN Returned(command) :
                                                   Returned(command)[j].name = name))
         IN  IF i \in Outputs(command) THEN value = Counted(Returned(command)[i])
             ELSE value = ValueIn(name)
<1> DEFINE R == Returned(command)
           f == R[i]
<1>1. command \in Commands /\ Generated(command) /\ R \in Seq(Fields) /\ Sound(R)
  BY ReturnedType DEF Reading
<1>2. Unsigned(R, i, name)
  BY <1>1, References
<1>3. PICK k \in 1..(i - 1) :
        R[k].name = name /\ \A m \in DOMAIN R : R[m].name = name => m = k
  <2>1. i \in DOMAIN R
    OBVIOUS
  <2> HIDE DEF R
  <2> QED BY <1>1, <1>2, <2>1, ReferencesAreEarlier
<1>4. k \in DOMAIN R /\ k \in 1..puts
  BY <1>1
<1>5. (CHOOSE j \in DOMAIN R : R[j].name = name) = k
  BY <1>3, <1>4
<1>6. Field(written, cut, k) = Piece(k)
  BY <1>4 DEF Tiles
<1>7. CASE i \in Outputs(command)
  <2>1. f.kind = "counted" /\ name = f.count
    BY <1>1, <1>7, ReturnedType DEF Refers, Generated
  <2>2. PICK m \in Outputs(command) : R[m].name = name
    BY <1>1, <1>7, <2>1 DEF Generated
  <2>3. m = k /\ k \in Outputs(command)
    BY <1>3, <2>2 DEF Outputs
  <2>4. (CHOOSE j \in Outputs(command) : R[j].name = name) = k
    <3>1. \A j \in Outputs(command) : R[j].name = name => j = k
      BY <1>3 DEF Outputs
    <3> QED BY <1>3, <2>3, <3>1
  <2>5. Counted(f) = Number(outputs[k])
    BY <2>1, <2>4 DEF Counted
  <2>6. R[k].kind = "scalar"
    <3>1. \E j \in 1..(i - 1) : R[j].name = name /\ R[j].kind = "scalar"
      BY <1>2 DEF Unsigned
    <3> QED BY <1>1, <1>3, <3>1
  <2>7. Piece(k) = outputs[k]
    BY <2>3, <2>6 DEF Piece
  <2> QED BY <1>5, <1>6, <1>7, <2>5, <2>7
<1>8. CASE i \notin Outputs(command)
  <2>1. PICK j \in DOMAIN args :
          j \in DOMAIN command.params /\ command.params[j] = f
    BY <1>8, EchoedParameter
  <2>2. Unsigned(command.params, j, name)
    <3>1. Sound(command.params)
      BY <1>1 DEF Generated
    <3> QED BY <2>1, <3>1, References
  <2>3. Echoes(command, R[k])
    <3>1. PICK m \in 1..(j - 1) : command.params[m].name = name
      BY <2>2 DEF Unsigned
    <3>2. m \in DOMAIN command.params
      BY <1>1, <2>1, CommandAssumption
    <3> QED BY <1>3, <3>1, <3>2 DEF Echoes
  <2>4. k \notin Outputs(command)
    BY <2>3 DEF Outputs
  <2>5. Piece(k) = Bytes(args[CHOOSE m \in DOMAIN command.params : command.params[m].name = R[k].name])
    BY <2>4 DEF Piece
  <2>6. Number(Piece(k)) = ValueIn(name)
    BY <1>3, <2>5 DEF ValueIn
  <2> QED BY <1>5, <1>6, <1>8, <2>6
<1> QED BY <1>7, <1>8

(* All pieces together have the layout of the returns.                        *)
LEMMA ReturnsDivide ==
  ASSUME Reading, args \in Seq(Places), at \in Nat, Len(args) = Len(command.params),
         Putting, puts = Len(Returned(command)), NEW cut, Tiles(cut)
  PROVE  cut \in Cuts(Returned(command), written) /\ Divides(cut, Returned(command), written)
<1> DEFINE R == Returned(command)
           Of(name) == Number(Field(written, cut, CHOOSE j \in DOMAIN R : R[j].name = name))
           width(i) == cut[i] - cut[i - 1]
<1>1. /\ command \in Commands /\ Generated(command) /\ R \in Seq(Fields) /\ Sound(R)
      /\ written \in Seq(Byte) /\ Len(written) \in Nat /\ outputs \in Written(command)
      /\ DOMAIN R = 1..puts /\ puts = Len(R) /\ puts \in Nat
  <2>1. command \in Commands /\ Generated(command) /\ R \in Seq(Fields) /\ Sound(R)
    BY ReturnedType DEF Reading
  <2> QED BY <2>1 DEF Putting
<1>2. cut \in [0..Len(R) -> 0..Len(written)]
  <2>1. cut \in [0..puts -> Nat] /\ cut[0] = 0 /\ \A i \in 1..puts : cut[i] <= Len(written)
    BY DEF Tiles
  <2>2. \A i \in 0..puts : i = 0 \/ i \in 1..puts
    BY <1>1
  <2>3. \A i \in 0..puts : cut[i] \in 0..Len(written)
    BY <1>1, <2>1, <2>2
  <2> QED BY <1>1, <2>1, <2>3
<1>3. ASSUME NEW i \in DOMAIN R
      PROVE  /\ cut[i - 1] <= cut[i] /\ width(i) = Len(Piece(i)) /\ width(i) \in Nat
             /\ Piece(i) # None
  <2>1. /\ cut[i - 1] <= cut[i] /\ cut[i] <= Len(written)
        /\ Piece(i) # None /\ Field(written, cut, i) = Piece(i)
    BY <1>1 DEF Tiles
  <2> DEFINE a == cut[i - 1]
             b == cut[i]
  <2>2. a \in Nat /\ b \in Nat
    <3>1. i \in 0..Len(R) /\ i - 1 \in 0..Len(R)
      BY <1>1
    <3> QED BY <1>1, <1>2, <3>1
  <2>3. Len(SubSeq(written, a + 1, b)) = b - a /\ b - a \in Nat
    <3>1. a <= b /\ b <= Len(written)
      BY <2>1
    <3> HIDE DEF a, b
    <3> QED BY <1>1, <2>2, <3>1
  <2>4. Piece(i) = SubSeq(written, a + 1, b)
    BY <2>1 DEF Field
  <2>5. width(i) = b - a
    OBVIOUS
  <2>6. Len(Piece(i)) = b - a
    BY <2>3, <2>4
  <2> QED BY <2>1, <2>3, <2>5, <2>6
<1>4. ASSUME NEW i \in DOMAIN R
      PROVE  LET f == R[i] IN
             /\ f.kind \in {"scalar", "struct", "array"} => width(i) = MaxWidth(f)
             /\ f.kind = "counted" =>
                  /\ Of(f.count) \in 0..f.capacity
                  /\ width(i) = Of(f.count) * ElementWidth(f.element)
             /\ f.kind = "union" =>
                  \E k \in DOMAIN f.variants :
                    /\ f.variants[k].width = width(i)
                    /\ \/ f.variants[k].tag = Of(f.selector)
                       \/ /\ f.variants[k].tag = Other
                          /\ \A l \in DOMAIN f.variants : f.variants[l].tag # Of(f.selector)
             /\ f.kind = "sets" =>
                  /\ Bits(Of(f.phys)) \subseteq f.allowed
                  /\ width(i) = Cardinality(Bits(Of(f.phys))) * f.width
             /\ f.kind = "optional" =>
                  /\ width(i) \in {0, f.width}
                  /\ i > 1 /\ R[i - 1].kind = "optional" /\ width(i - 1) = 0 => width(i) = 0
  <2> DEFINE f == R[i]
  <2>1. width(i) = Len(Piece(i)) /\ Piece(i) # None
    BY <1>3
  <2>2. f.kind # "sets"
    BY <1>1, ReturnedType
  <2>3. \A name : Refers(f, name) =>
          IF i \in Outputs(command) THEN Of(name) = Counted(f) ELSE Of(name) = ValueIn(name)
    BY ReturnedValues
  <2> HIDE DEF Of, width
  <2>4. CASE i \in Outputs(command)
    <3>1. f.kind \notin {"union", "optional"}
      BY <1>1, <2>4 DEF Generated
    <3>2. CASE f.kind = "counted"
      <4>1. Of(f.count) = Counted(f)
        BY <2>3, <2>4, <3>2 DEF Refers
      <4>2. Counted(f) \in 0..f.capacity /\ Len(Piece(i)) = Counted(f) * ElementWidth(f.element)
        BY <1>1, <2>1, <2>4, <3>2, PieceFits
      <4> QED BY <2>1, <3>2, <4>1, <4>2
    <3>3. CASE f.kind # "counted"
      <4>1. Piece(i) = outputs[i]
        BY <2>4, <3>3 DEF Piece
      <4>2. Len(outputs[i]) = MaxWidth(f)
        BY <1>1, <2>4, OutputType
      <4> QED BY <2>1, <2>2, <3>1, <3>3, <4>1, <4>2
    <3> QED BY <3>2, <3>3
  <2>5. CASE i \notin Outputs(command)
    <3>1. PICK j \in DOMAIN args :
            /\ j \in DOMAIN command.params /\ command.params[j] = f
            /\ Piece(i) = Bytes(args[j]) /\ AsWide(f, args[j].width)
      BY <2>5, EchoedParameter
    <3>2. width(i) = args[j].width
      BY <2>1, <3>1, ArgumentBytes
    <3>3. f.kind # "optional"
      BY <1>1, <3>1 DEF Generated
    <3>4. f.kind = "counted" => Of(f.count) = ValueIn(f.count)
      BY <2>3, <2>5 DEF Refers
    <3>5. f.kind = "union" => Of(f.selector) = ValueIn(f.selector)
      BY <2>3, <2>5 DEF Refers
    <3> QED BY <2>2, <3>1, <3>2, <3>3, <3>4, <3>5 DEF AsWide
  <2> QED BY <2>4, <2>5
<1>5. cut[0] = 0 /\ cut[Len(R)] = Len(written) /\ \A i \in DOMAIN R : cut[i - 1] <= cut[i]
  BY <1>1, <1>3 DEF Tiles
<1> QED BY <1>2, <1>4, <1>5 DEF Cuts, Divides

LEMMA ReturnsAreBack == IInv /\ ReturnInv => ReturnsComeBack
<1> SUFFICES ASSUME IInv, ReturnInv, pc = "returned", "ok" \in DOMAIN outcome
             PROVE  \E cut \in Cuts(Returned(command), written) :
                      /\ Divides(cut, Returned(command), written)
                      /\ \A i \in DOMAIN Returned(command) :
                           IF i \in Outputs(command)
                           THEN IsPrefix(Field(written, cut, i), outputs[i])
                           ELSE \E j \in DOMAIN passed :
                                  /\ command.params[j].name = Returned(command)[i].name
                                  /\ Field(written, cut, i) = Bytes(passed[j])
  BY DEF ReturnInv, ReturnsComeBack
<1>1. /\ Putting /\ puts = Len(Returned(command)) /\ passed # None
  BY DEF ReturnInv, Putting
<1>2. /\ Reading /\ args \in Seq(Places) /\ at \in Nat
      /\ passed = args /\ Len(args) = Len(command.params)
  BY <1>1 DEF IInv
<1>3. PICK cut : Tiles(cut)
  BY <1>1 DEF Putting
<1>4. cut \in Cuts(Returned(command), written) /\ Divides(cut, Returned(command), written)
  BY <1>1, <1>2, <1>3, ReturnsDivide
<1>5. ASSUME NEW i \in DOMAIN Returned(command), i \in Outputs(command)
      PROVE  IsPrefix(Field(written, cut, i), outputs[i])
  <2>1. Field(written, cut, i) = Piece(i) /\ Piece(i) # None
    <3>1. i \in 1..puts
      BY <1>1, <1>2, ReturnedType DEF Reading
    <3> QED BY <1>3, <3>1 DEF Tiles
  <2>2. outputs[i] \in Seq(Byte) /\ Len(outputs[i]) \in Nat
    BY <1>1, <1>2, <1>5, OutputType DEF Putting, Reading
  <2>3. CASE Returned(command)[i].kind # "counted"
    <3>1. Piece(i) = outputs[i]
      BY <1>5, <2>3 DEF Piece
    <3> QED BY <2>1, <2>2, <3>1 DEF IsPrefix
  <2>4. CASE Returned(command)[i].kind = "counted"
    <3> DEFINE n == Counted(Returned(command)[i]) * ElementWidth(Returned(command)[i].element)
    <3>1. Piece(i) = SubSeq(outputs[i], 1, n)
      BY <1>5, <2>1, <2>4 DEF Piece
    <3>2. Len(Piece(i)) = n /\ n \in Nat /\ n <= Len(outputs[i])
      <4>1. Len(Piece(i)) = n /\ Len(Piece(i)) \in Nat
            /\ Len(Piece(i)) <= MaxWidth(Returned(command)[i])
        BY <1>1, <1>2, <1>5, <2>1, <2>4, PieceFits DEF Putting
      <4>2. Len(outputs[i]) = MaxWidth(Returned(command)[i])
        BY <1>1, <1>2, <1>5, OutputType DEF Putting, Reading
      <4> QED BY <4>1, <4>2
    <3> HIDE DEF n
    <3>3. SubSeq(SubSeq(outputs[i], 1, n), 1, n) = SubSeq(outputs[i], 1, n)
      <4> DEFINE p == SubSeq(outputs[i], 1, n)
      <4>1. p \in Seq(Byte) /\ Len(p) = n
        BY <2>2, <3>2
      <4> HIDE DEF p
      <4>2. SubSeq(p, 1, n) = p
        BY <3>2, <4>1
      <4> QED BY <4>2 DEF p
    <3> QED BY <2>1, <2>2, <3>1, <3>2, <3>3 DEF IsPrefix
  <2> QED BY <2>3, <2>4
<1>6. ASSUME NEW i \in DOMAIN Returned(command), i \notin Outputs(command)
      PROVE  \E j \in DOMAIN passed :
               /\ command.params[j].name = Returned(command)[i].name
               /\ Field(written, cut, i) = Bytes(passed[j])
  <2>1. Field(written, cut, i) = Piece(i)
    <3>1. i \in 1..puts
      BY <1>1, <1>2, ReturnedType DEF Reading
    <3> QED BY <1>3, <3>1 DEF Tiles
  <2> QED BY <1>2, <1>6, <2>1, EchoedParameter
<1> QED BY <1>4, <1>5, <1>6

LEMMA ReturnInvariant == Spec => [](IInv /\ ReturnInv)
<1>1. Init => IInv /\ CallInv /\ ReturnInv
  BY DEF Init, IInv, CallInv, ReturnInv, Rejected, Places
<1>2. (IInv /\ CallInv /\ ReturnInv) /\ [Next]_vars => (IInv /\ CallInv /\ ReturnInv)'
  BY Inductive, CallInductive, ReturnInductive
<1> QED BY <1>1, <1>2, PTL DEF Spec

(* The caller gets the returns of its release: parameters as they were sent,  *)
(* outputs as the function wrote them, lists as long as it counted.           *)
THEOREM DirectReturns == Spec => []ReturnsComeBack
BY ReturnInvariant, ReturnsAreBack, PTL

(* A success of the function becomes an error for two reasons only: a count   *)
(* above its capacity, or a return type that refuses bytes laid out as the    *)
(* returns.  No buffer for the returns is too small.                          *)
THEOREM DirectRejects == Spec => []RejectedForItsReturns
<1>1. ASSUME IInv, ReturnInv PROVE RejectedForItsReturns
  <2> SUFFICES ASSUME Rejected, ~CountedTooMuch
               PROVE  written \in command.undecoded /\ LaidOut(Returned(command), written)
    BY DEF Rejected, RejectedForItsReturns
  <2>1. Putting /\ puts = Len(Returned(command)) /\ written \in command.undecoded
    BY <1>1 DEF ReturnInv, Refusal
  <2>2. /\ Reading /\ args \in Seq(Places) /\ at \in Nat
        /\ passed = args /\ Len(args) = Len(command.params)
    BY <1>1, <2>1 DEF IInv, Putting
  <2>3. PICK cut : Tiles(cut)
    BY <2>1 DEF Putting
  <2>4. cut \in Cuts(Returned(command), written) /\ Divides(cut, Returned(command), written)
    BY <2>1, <2>2, <2>3, ReturnsDivide
  <2> QED BY <2>1, <2>4 DEF LaidOut
<1> QED BY <1>1, ReturnInvariant, PTL
==============================================================================
