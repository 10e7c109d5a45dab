--------------------------- MODULE DeclarationProofs ---------------------------
(* For any number of releases, any profiles, any history of a command or      *)
(* event and any declaration of it: the variants the macros make of it are    *)
(* enabled on each target exactly as the catalog defines the name there, what *)
(* a command built of one writes is laid out as the catalog says there, and   *)
(* so is what a response or event built of one reads, whatever it holds.      *)
EXTENDS Declaration, SequenceLemmas

------------------------------------------------------------------------------
(* Segments.                                                                  *)
IsDeclared == declared.c_name \in DOMAIN Histories

(* The releases are finitely many, counted from 1.                            *)
LEMMA CountOfReleases == Cardinality(Releases) \in Nat /\ Releases \subseteq Nat \ {0}
<1>1. Cardinality(Releases) \in Nat
  BY ReleaseAssumption, FS_CardinalityType
<1> QED BY <1>1, ReleaseAssumption

(* What it is to be a segment, of the declared name.                          *)
LEMMA SegmentsAre ==
  ASSUME IsDeclared
  PROVE  Segments =
    {s \in [first : Releases, last : Releases] :
       /\ s.first <= s.last /\ Entry(s.first) # None
       /\ \A v \in s.first..s.last : Entry(v) = Entry(s.first)
       /\ s.first = 1 \/ Entry(s.first - 1) # Entry(s.first)
       /\ s.last + 1 \notin Releases \/ Entry(s.last + 1) # Entry(s.first)}
BY DEF IsDeclared, Segments, SegmentsOf, Entry, history

(* A release that defines the name is in a segment: that of the releases      *)
(* before and after it with the same entry.                                   *)
LEMMA SegmentAt ==
  ASSUME IsDeclared, NEW v \in Releases, Entry(v) # None
  PROVE  \E s \in Segments : v \in s.first..s.last
<1> DEFINE n == Cardinality(Releases)
           Firsts == {f \in 1..v : \A w \in f..v : Entry(w) = Entry(v)}
           Lasts == {l \in v..n : \A w \in v..l : Entry(w) = Entry(v)}
<1>1. n \in Nat /\ Releases = 1..n /\ v \in 1..n
  BY ReleaseAssumption, CountOfReleases
<1> HIDE DEF n
<1>2. v \in Firsts /\ v \in Lasts
  BY <1>1
<1>3. PICK f \in Firsts : \A g \in Firsts : f <= g
  <2>1. Firsts \subseteq 1..v /\ 1..v \subseteq Nat
    OBVIOUS
  <2> HIDE DEF Firsts
  <2> QED BY <1>2, <2>1, LeastNatural
<1>4. PICK l \in Lasts : \A m \in Lasts : m <= l
  <2>1. Lasts \subseteq v..n
    OBVIOUS
  <2>2. v..n \subseteq Nat /\ \A m \in v..n : m <= n
    BY <1>1
  <2> HIDE DEF Lasts
  <2>3. Lasts \in SUBSET Nat /\ Lasts # {} /\ \A m \in Lasts : m <= n
    BY <1>2, <2>1, <2>2
  <2> QED BY <1>1, <2>3, GreatestNatural
<1>5. /\ f \in 1..v /\ \A w \in f..v : Entry(w) = Entry(v)
      /\ l \in v..n /\ \A w \in v..l : Entry(w) = Entry(v)
  OBVIOUS
<1>6. f = 1 \/ Entry(f - 1) # Entry(f)
  <2> SUFFICES ASSUME f # 1, Entry(f - 1) = Entry(f) PROVE FALSE
    OBVIOUS
  <2>1. f - 1 \in 1..v
    BY <1>1, <1>5
  <2>2. ASSUME NEW w \in (f - 1)..v PROVE Entry(w) = Entry(v)
    <3>1. w = f - 1 \/ w \in f..v
      BY <1>1, <1>5
    <3>2. f \in f..v
      BY <1>1, <1>5
    <3> QED BY <1>5, <3>1, <3>2
  <2>3. f - 1 \in Firsts
    BY <2>1, <2>2
  <2> QED BY <1>1, <1>3, <1>5, <2>3
<1>7. l + 1 \notin Releases \/ Entry(l + 1) # Entry(v)
  <2> SUFFICES ASSUME l + 1 \in Releases, Entry(l + 1) = Entry(v) PROVE FALSE
    OBVIOUS
  <2>1. l + 1 \in v..n
    BY <1>1, <1>5
  <2>2. ASSUME NEW w \in v..(l + 1) PROVE Entry(w) = Entry(v)
    <3>1. w = l + 1 \/ w \in v..l
      BY <1>1, <1>5
    <3> QED BY <1>5, <3>1
  <2>3. l + 1 \in Lasts
    BY <2>1, <2>2
  <2> QED BY <1>1, <1>4, <1>5, <2>3
<1> HIDE DEF Firsts, Lasts
<1>8. Entry(f) = Entry(v)
  BY <1>1, <1>5
<1>9. ASSUME NEW w \in f..l PROVE Entry(w) = Entry(v)
  <2>1. w \in f..v \/ w \in v..l
    BY <1>1, <1>5
  <2> QED BY <1>5, <2>1
<1> DEFINE s == [first |-> f, last |-> l]
<1>10. s \in [first : Releases, last : Releases] /\ s.first <= s.last
  BY <1>1, <1>5
<1>11. s \in Segments
  BY <1>6, <1>7, <1>8, <1>9, <1>10, SegmentsAre
<1> QED BY <1>1, <1>5, <1>11

(* A segment has one entry.                                                   *)
LEMMA SegmentFacts ==
  ASSUME IsDeclared, NEW s \in Segments
  PROVE  /\ s.first \in Releases /\ s.last \in Releases /\ Facts(s) # None
         /\ \A v \in s.first..s.last : v \in Releases /\ Entry(v) = Facts(s)
<1>1. /\ s.first \in Releases /\ s.last \in Releases /\ Entry(s.first) # None
      /\ \A v \in s.first..s.last : Entry(v) = Entry(s.first)
  BY SegmentsAre
<1>2. \A v \in s.first..s.last : v \in Releases
  BY <1>1, ReleaseAssumption, CountOfReleases
<1> QED BY <1>1, <1>2 DEF Facts

(* A release is in one segment only.                                          *)
LEMMA SegmentsApart ==
  ASSUME IsDeclared, NEW r \in Segments, NEW s \in Segments,
         NEW v \in r.first..r.last, v \in s.first..s.last
  PROVE  r = s
<1> DEFINE n == Cardinality(Releases)
<1>1. n \in Nat /\ Releases = 1..n
  BY ReleaseAssumption, CountOfReleases
<1> HIDE DEF n
<1>2. ASSUME NEW p \in Segments, NEW q \in Segments, NEW w \in p.first..p.last,
             w \in q.first..q.last
      PROVE  p.first >= q.first /\ p.last <= q.last
  <2>1. /\ p.first \in 1..n /\ p.last \in 1..n /\ q.first \in 1..n /\ q.last \in 1..n
        /\ Entry(p.first) = Entry(w) /\ Entry(q.first) = Entry(w)
        /\ \A u \in p.first..p.last : Entry(u) = Entry(w)
        /\ q.first = 1 \/ Entry(q.first - 1) # Entry(w)
        /\ q.last + 1 \notin 1..n \/ Entry(q.last + 1) # Entry(w)
    BY <1>1, <1>2, SegmentsAre
  <2>2. ASSUME p.first < q.first PROVE FALSE
    <3>1. q.first - 1 \in p.first..p.last /\ q.first # 1
      BY <1>2, <2>1, <2>2
    <3> QED BY <2>1, <3>1
  <2>3. ASSUME q.last < p.last PROVE FALSE
    <3>1. q.last + 1 \in p.first..p.last /\ q.last + 1 \in 1..n
      BY <1>1, <1>2, <2>1, <2>3
    <3> QED BY <2>1, <3>1
  <2> QED BY <1>1, <2>1, <2>2, <2>3
<1>3. r.first = s.first /\ r.last = s.last
  <2>1. r.first >= s.first /\ r.last <= s.last
    BY <1>2
  <2>2. s.first >= r.first /\ s.last <= r.last
    BY <1>2
  <2>3. r.first \in 1..n /\ r.last \in 1..n /\ s.first \in 1..n /\ s.last \in 1..n
    BY <1>1, SegmentFacts
  <2> QED BY <1>1, <2>1, <2>2, <2>3
<1>4. r \in [first : Releases, last : Releases] /\ s \in [first : Releases, last : Releases]
  BY SegmentsAre
<1> QED BY <1>3, <1>4

------------------------------------------------------------------------------
(* Variants.                                                                  *)

(* Variants share no segments and leave none out.                             *)
LEMMA VariantsPartition ==
  /\ \A variant \in Compiled : variant \subseteq Segments
  /\ \A s \in Segments : \E variant \in Compiled : s \in variant
  /\ \A s \in Segments : \A c, d \in Compiled : s \in c /\ s \in d => c = d
<1> DEFINE With(key) == {s \in Segments : Key(s) = key}
<1>1. \A c : c \in Compiled <=> \E r \in Segments : c = With(Key(r))
  BY Zenon DEF Compiled
<1>2. \A key : \A s : s \in With(key) <=> s \in Segments /\ Key(s) = key
  OBVIOUS
<1> HIDE DEF With
<1>3. \A variant \in Compiled : variant \subseteq Segments
  BY <1>1, <1>2
<1>4. \A s \in Segments : \E variant \in Compiled : s \in variant
  BY <1>1, <1>2
<1>5. \A s \in Segments : \A c, d \in Compiled : s \in c /\ s \in d => c = d
  BY <1>1, <1>2
<1> QED BY <1>3, <1>4, <1>5

(* The targets a variant is enabled on are those its segments' releases are   *)
(* shipped for: the predicate for all targets is one of a variant that covers *)
(* them.                                                                      *)
LEMMA EnabledWhere ==
  ASSUME IsDeclared, NEW variant \in SUBSET Segments, NEW t \in Targets
  PROVE  Enabled(On(variant), t)
           <=> \E s \in variant : t[1] \in s.first..s.last /\ t[2] \in Facts(s).profiles
<1> DEFINE Reached == Covering(On(variant))
<1>0. /\ \A s \in variant :
           \E r \in On(variant) :
             r.first = s.first /\ r.last = s.last /\ r.profiles = Facts(s).profiles
      /\ \A r \in On(variant) :
           \E s \in variant :
             r.first = s.first /\ r.last = s.last /\ r.profiles = Facts(s).profiles
  <2> DEFINE Item(s) == [first |-> s.first, last |-> s.last, profiles |-> Facts(s).profiles]
  <2>1. \A s \in variant : Item(s) \in On(variant)
    BY Zenon DEF On
  <2>2. \A r \in On(variant) : \E s \in variant : r = Item(s)
    BY Zenon DEF On
  <2>3. \A s : /\ Item(s).first = s.first /\ Item(s).last = s.last
               /\ Item(s).profiles = Facts(s).profiles
    OBVIOUS
  <2> HIDE DEF Item
  <2> QED BY <2>1, <2>2, <2>3
<1>1. \A x : x \in Reached
               <=> \E s \in variant : x \in (s.first..s.last) \X Facts(s).profiles
  <2>1. \A x : x \in Reached
                 <=> \E r \in On(variant) : x \in (r.first..r.last) \X r.profiles
    BY DEF Covering
  <2> HIDE DEF Reached
  <2> QED BY <1>0, <2>1
<1>2. \A s \in variant : (s.first..s.last) \X Facts(s).profiles \subseteq Targets
  <2> SUFFICES ASSUME NEW s \in variant, NEW v \in s.first..s.last, NEW p \in Facts(s).profiles
               PROVE  <<v, p>> \in Targets
    OBVIOUS
  <2>1. v \in Releases /\ Entry(v) = Facts(s) /\ Facts(s) # None
    BY SegmentFacts
  <2>2. declared.c_name \in DOMAIN Histories /\ Entry(v) = Histories[declared.c_name].entries[v]
    BY DEF IsDeclared, Entry, history
  <2> QED BY <2>1, <2>2, HistoryAssumption
<1>3. Reached \in SUBSET Targets
  <2> HIDE DEF Reached
  <2> QED BY <1>1, <1>2
<1>4. Cardinality(Reached) = Cardinality(Targets) => Reached = Targets
  <2> HIDE DEF Reached
  <2> QED BY <1>3, TargetAssumption, FS_Subset
<1>5. t = <<t[1], t[2]>>
  BY TargetAssumption
<1>6. t \in Reached
        <=> \E s \in variant : t[1] \in s.first..s.last /\ t[2] \in Facts(s).profiles
  <2> HIDE DEF Reached
  <2> QED BY <1>1, <1>5
<1>7. (\E s \in On(variant) : t[1] \in s.first..s.last /\ t[2] \in s.profiles)
        <=> \E s \in variant : t[1] \in s.first..s.last /\ t[2] \in Facts(s).profiles
  BY <1>0
<1>8. Enabled(On(variant), t)
        <=> \/ Cardinality(Reached) = Cardinality(Targets)
            \/ \E s \in On(variant) : t[1] \in s.first..s.last /\ t[2] \in s.profiles
  BY DEF Enabled
<1> HIDE DEF Reached
<1> QED BY <1>4, <1>6, <1>7, <1>8

(* A target is enabled in the variant of the segment of its release, and in   *)
(* no other.                                                                  *)
LEMMA EnabledOnce ==
  ASSUME IsDeclared, NEW t \in Targets
  PROVE  Cardinality({variant \in Compiled : Enabled(On(variant), t)})
           = IF Entry(t[1]) # None /\ t[2] \in Entry(t[1]).profiles THEN 1 ELSE 0
<1> DEFINE Chosen == {variant \in Compiled : Enabled(On(variant), t)}
           Here(s) == t[1] \in s.first..s.last /\ t[2] \in Facts(s).profiles
<1>1. t[1] \in Releases
  BY TargetAssumption
<1>2. \A variant \in Compiled : Enabled(On(variant), t) <=> \E s \in variant : Here(s)
  BY EnabledWhere, VariantsPartition
<1>3. ASSUME Entry(t[1]) # None, t[2] \in Entry(t[1]).profiles
      PROVE  Cardinality(Chosen) = 1
  <2>1. PICK s \in Segments : t[1] \in s.first..s.last
    BY <1>1, <1>3, SegmentAt
  <2>2. Here(s)
    BY <1>3, <2>1, SegmentFacts
  <2>3. PICK c \in Compiled : s \in c
    BY VariantsPartition
  <2>4. ASSUME NEW d \in Compiled, NEW r \in d, Here(r) PROVE d = c
    <3>1. r \in Segments
      BY <2>4, VariantsPartition
    <3>2. r = s
      BY <2>1, <2>4, <3>1, SegmentsApart
    <3> QED BY <2>3, <2>4, <3>2, VariantsPartition
  <2>5. Chosen = {c}
    BY <1>2, <2>2, <2>3, <2>4
  <2> HIDE DEF Chosen
  <2> QED BY <2>5, FS_Singleton
<1>4. ASSUME ~(Entry(t[1]) # None /\ t[2] \in Entry(t[1]).profiles)
      PROVE  Cardinality(Chosen) = 0
  <2>1. ASSUME NEW d \in Compiled, NEW r \in d, Here(r) PROVE FALSE
    <3>1. r \in Segments
      BY <2>1, VariantsPartition
    <3> QED BY <1>4, <2>1, <3>1, SegmentFacts
  <2>2. Chosen = {}
    BY <1>2, <2>1
  <2> HIDE DEF Chosen
  <2> QED BY <2>2, FS_EmptySet
<1> QED BY <1>3, <1>4

------------------------------------------------------------------------------
(* No step changes what is declared.                                          *)
DeclaredInv == declared \in Declarations

(* A declaration is always one of Declarations.                               *)
LEMMA AlwaysDeclared == Spec => []DeclaredInv
<1>1. Init => DeclaredInv
  BY DEF Init, DeclaredInv
<1>2. DeclaredInv /\ [Next]_vars => DeclaredInv'
  <2> SUFFICES ASSUME DeclaredInv, [Next]_vars PROVE declared' = declared
    BY DEF DeclaredInv
  <2>1. CASE Expand
    BY <2>1 DEF Expand
  <2>2. CASE \E t \in Targets : Build(t)
    BY <2>2 DEF Build
  <2>3. CASE \E v \in Supplied : New(v)
    BY <2>3 DEF New
  <2>4. CASE Write
    BY <2>4 DEF Write
  <2>5. CASE Finish
    BY <2>5 DEF Finish
  <2>6. CASE \E bytes \in Answers[declared.c_name] : Answer(bytes)
    BY <2>6 DEF Answer
  <2>7. CASE Decode
    BY <2>7 DEF Decode
  <2>8. CASE ReadHci
    BY <2>8 DEF ReadHci
  <2>9. CASE UNCHANGED vars
    BY <2>9 DEF vars
  <2> QED BY <2>1, <2>2, <2>3, <2>4, <2>5, <2>6, <2>7, <2>8, <2>9 DEF Next, Stop
<1> QED BY <1>1, <1>2, PTL DEF Spec

(* Every declaration the macro accepts is one item on each target whose       *)
(* release defines the name and ships it for the profile, and none on the     *)
(* others: whatever the releases, the profiles, the history and the bounds of *)
(* the declared fields (cfg.rs: predicate; command.rs: variants).             *)
THEOREM DeclarationOneVariant == Spec => []OneVariant
<1>1. DeclaredInv => OneVariant
  <2>1. DeclaredInv => IsDeclared
    BY DeclarationAssumption DEF DeclaredInv, IsDeclared
  <2> QED BY <2>1, EnabledOnce DEF OneVariant
<1> QED BY <1>1, AlwaysDeclared, PTL

------------------------------------------------------------------------------
(* Bytes.                                                                     *)

(* The recursive function of Power exists.                                    *)
Powers(f, w) == f = [n \in 0..w |-> IF n = 0 THEN 1 ELSE Base * f[n - 1]]

(* The powers of the base, computed one from the other.                       *)
LEMMA PowersExist ==
  ASSUME NEW w \in Nat
  PROVE  \E f : /\ Powers(f, w) /\ Power(w) = f[w] /\ f[0] = 1
                /\ \A n \in 0..w : f[n] \in Nat \ {0}
                /\ \A n \in 1..w : f[n] = Base * f[n - 1]
<1> DEFINE R == Nat \ {0}
           step == [n \in 1..w |-> [r \in R |-> Base * r]]
           upTo == CHOOSE f : Powers(f, w)
<1>0. Base \in Nat /\ Base # 0
  BY BaseAssumption
<1>1. \A r \in R : Base * r \in R
  BY <1>0
<1>2. step \in [1..w -> [R -> R]] /\ 1 \in R /\ \A n \in 1..w, r \in R : step[n][r] = Base * r
  BY <1>1
<1> HIDE DEF step
<1>3. PICK f \in [0..w -> R] : Computes(f, w, 1, step)
  <2> HIDE DEF R, upTo
  <2> QED BY <1>2, StepByStep
<1>4. \A n \in 1..w : n - 1 \in 0..w
  OBVIOUS
<1>5. \A n \in 1..w : f[n] = Base * f[n - 1]
  <2> HIDE DEF R
  <2>1. \A n \in 1..w : f[n - 1] \in R
    BY <1>4
  <2> QED BY <1>2, <1>3, <2>1 DEF Computes
<1>6. Powers(f, w)
  <2>1. f = [n \in 0..w |-> f[n]]
    OBVIOUS
  <2>2. \A n \in 0..w : f[n] = IF n = 0 THEN 1 ELSE Base * f[n - 1]
    BY <1>3, <1>5 DEF Computes
  <2> QED BY <2>1, <2>2 DEF Powers
<1>7. Powers(upTo, w)
  BY <1>6
<1>8. Power(w) = upTo[w]
  BY DEF Power, Powers
<1> HIDE DEF upTo
<1>9. \A n \in 0..w : upTo[n] = IF n = 0 THEN 1 ELSE Base * upTo[n - 1]
  BY <1>7 DEF Powers
<1>10. upTo[0] = 1 /\ \A n \in 1..w : upTo[n] = Base * upTo[n - 1]
  <2>1. 0 \in 0..w /\ \A n \in 1..w : n \in 0..w /\ n # 0
    OBVIOUS
  <2> QED BY <1>9, <2>1
<1> DEFINE N == {n \in Nat : n <= w => upTo[n] \in R}
<1>11. 0 \in N
  BY <1>10
<1>12. ASSUME NEW n \in Nat, n \in N PROVE n + 1 \in N
  <2>1. n + 1 \in Nat /\ n + 1 - 1 = n
    OBVIOUS
  <2>2. ASSUME n + 1 <= w PROVE upTo[n + 1] \in R
    <3>1. n + 1 \in 1..w /\ upTo[n] \in R
      BY <1>12, <2>2
    <3> HIDE DEF R
    <3>2. upTo[n + 1] = Base * upTo[n]
      BY <1>10, <2>1, <3>1
    <3> QED BY <1>1, <3>1, <3>2
  <2> HIDE DEF R
  <2> QED BY <2>1, <2>2
<1>13. \A n \in 0..w : upTo[n] \in Nat \ {0}
  <2> HIDE DEF N
  <2>1. Nat \subseteq N
    BY <1>11, <1>12, SetInduction
  <2> QED BY <2>1 DEF N
<1> QED BY <1>7, <1>8, <1>10, <1>13

(* The values of one byte more are Base times as many.                        *)
LEMMA PowerOf ==
  ASSUME NEW w \in Nat
  PROVE  Power(0) = 1 /\ Power(w) \in Nat \ {0} /\ Power(w + 1) = Base * Power(w)
<1>1. PICK f : /\ Powers(f, w) /\ Power(w) = f[w] /\ f[0] = 1
               /\ \A n \in 0..w : f[n] \in Nat \ {0}
               /\ \A n \in 1..w : f[n] = Base * f[n - 1]
  BY PowersExist, Zenon
<1>2. PICK g : /\ Powers(g, w + 1) /\ Power(w + 1) = g[w + 1] /\ g[0] = 1
               /\ \A n \in 0..(w + 1) : g[n] \in Nat \ {0}
               /\ \A n \in 1..(w + 1) : g[n] = Base * g[n - 1]
  <2>1. w + 1 \in Nat
    OBVIOUS
  <2> QED BY <2>1, PowersExist, Zenon
<1>3. Power(0) = 1
  <2>1. 0 \in Nat
    OBVIOUS
  <2> QED BY <2>1, PowersExist
<1> DEFINE N == {n \in Nat : n <= w => f[n] = g[n]}
<1>4. 0 \in N
  BY <1>1, <1>2
<1>5. ASSUME NEW n \in Nat, n \in N PROVE n + 1 \in N
  <2>1. n + 1 \in Nat /\ n + 1 - 1 = n
    OBVIOUS
  <2>2. ASSUME n + 1 <= w PROVE f[n + 1] = g[n + 1]
    <3>1. n + 1 \in 1..w /\ n + 1 \in 1..(w + 1) /\ f[n] = g[n]
      BY <1>5, <2>2
    <3> QED BY <1>1, <1>2, <2>1, <3>1
  <2> QED BY <2>1, <2>2
<1>6. f[w] = g[w]
  <2> HIDE DEF N
  <2>1. w \in N
    BY <1>4, <1>5, SetInduction
  <2> QED BY <2>1 DEF N
<1>7. w + 1 \in 1..(w + 1) /\ w + 1 - 1 = w /\ w \in 0..w
  OBVIOUS
<1> QED BY <1>1, <1>2, <1>3, <1>6, <1>7

(* Division by the number of values of a byte.                                *)
LEMMA ByteDivision ==
  ASSUME NEW n \in Nat
  PROVE  \E q, r \in Nat :
           /\ q = n \div Base /\ r = n % Base /\ n = q * Base + r
           /\ \A c \in Nat : n < c * Base => q < c
<1>1. Base \in Nat /\ Base > 0
  BY BaseAssumption
<1>2. n \div Base \in Nat
  BY <1>1
<1>3. n % Base \in Nat
  BY <1>1
<1>4. n = (n \div Base) * Base + (n % Base)
  BY <1>1
<1>5. PICK q \in Nat : q = n \div Base
  BY <1>2
<1>6. PICK r \in Nat : r = n % Base
  BY <1>3
<1>7. n = q * Base + r
  BY <1>4, <1>5, <1>6
<1>8. ASSUME NEW c \in Nat, n < c * Base, ~(q < c) PROVE FALSE
  <2>1. PICK d \in Nat : q = c + d
    <3>1. q - c \in Nat /\ q = c + (q - c)
      BY <1>8
    <3> QED BY <3>1
  <2>2. q * Base = c * Base + d * Base /\ d * Base \in Nat /\ c * Base \in Nat
    BY <1>1, <2>1
  <2> QED BY <1>7, <1>8, <2>2
<1>9. \A c \in Nat : n < c * Base => q < c
  BY <1>8
<1> QED BY <1>5, <1>6, <1>7, <1>9

(* The bytes of anything, as many as its width.                               *)
LEMMA LittleEndianLength ==
  ASSUME NEW n, NEW w \in Nat
  PROVE  /\ \E S : LittleEndian(n, w) \in Seq(S)
         /\ DOMAIN LittleEndian(n, w) = 1..w /\ Len(LittleEndian(n, w)) = w
<1> DEFINE Rests(f) == f = [i \in 0..w |-> IF i = 0 THEN n ELSE f[i - 1] \div Base]
           rest == CHOOSE f : Rests(f)
           byte(i) == rest[i - 1] % Base
           bytes == [i \in 1..w |-> byte(i)]
           S == {byte(i) : i \in 1..w}
<1>1. LittleEndian(n, w) = bytes
  BY DEF LittleEndian
<1> HIDE DEF rest, byte
<1>2. bytes \in [1..w -> S] /\ DOMAIN bytes = 1..w
  OBVIOUS
<1> HIDE DEF bytes, S
<1>3. bytes \in Seq(S) /\ Len(bytes) = w
  BY <1>2
<1> QED BY <1>1, <1>2, <1>3

(* Bytes read back are the integer, if they can hold it.                      *)
LEMMA LittleEndianNumber ==
  ASSUME NEW n \in Nat, NEW w \in Nat
  PROVE  /\ LittleEndian(n, w) \in Seq(Nat)
         /\ n < Power(w) => Number(LittleEndian(n, w)) = n
<1> DEFINE Rests(f) == f = [i \in 0..w |-> IF i = 0 THEN n ELSE f[i - 1] \div Base]
           rest == CHOOSE f : Rests(f)
           bytes == [i \in 1..w |-> rest[i - 1] % Base]
<1>1. LittleEndian(n, w) = bytes
  BY DEF LittleEndian
<1>2. Base \in Nat /\ Base # 0
  BY BaseAssumption
<1>3. \A m \in Nat : m \div Base \in Nat
  BY ByteDivision
<1>4. Rests(rest)
  <2> DEFINE step == [i \in 1..w |-> [m \in Nat |-> m \div Base]]
  <2>1. step \in [1..w -> [Nat -> Nat]] /\ \A i \in 1..w, m \in Nat : step[i][m] = m \div Base
    BY <1>3
  <2> HIDE DEF step
  <2>2. PICK f \in [0..w -> Nat] : Computes(f, w, n, step)
    <3> HIDE DEF rest, Rests
    <3> QED BY <2>1, StepByStep
  <2>3. \A i \in 1..w : i \in 0..w /\ i - 1 \in 0..w /\ i # 0
    OBVIOUS
  <2>4. \A i \in 1..w : f[i] = f[i - 1] \div Base
    <3>1. \A i \in 1..w : f[i - 1] \in Nat
      BY <2>3
    <3> QED BY <2>1, <2>2, <3>1 DEF Computes
  <2>5. f[0] = n
    BY <2>2 DEF Computes
  <2>6. ASSUME NEW i \in 0..w PROVE f[i] = IF i = 0 THEN n ELSE f[i - 1] \div Base
    <3>1. i # 0 => i \in 1..w
      OBVIOUS
    <3> QED BY <2>4, <2>5, <3>1
  <2>7. f = [i \in 0..w |-> f[i]]
    OBVIOUS
  <2>8. Rests(f)
    BY <2>6, <2>7
  <2> HIDE DEF Rests
  <2> QED BY <2>8
<1> HIDE DEF rest
<1>5. rest[0] = n /\ \A i \in 1..w : rest[i] = rest[i - 1] \div Base
  <2>1. \A i \in 0..w : rest[i] = IF i = 0 THEN n ELSE rest[i - 1] \div Base
    BY <1>4
  <2>2. 0 \in 0..w /\ \A i \in 1..w : i \in 0..w /\ i # 0
    OBVIOUS
  <2> QED BY <2>1, <2>2
<1> HIDE DEF Rests
<1> DEFINE N == {i \in Nat : i <= w => rest[i] \in Nat}
<1>6. \A i \in 0..w : rest[i] \in Nat
  <2>1. 0 \in N
    BY <1>5
  <2>2. ASSUME NEW i \in Nat, i \in N PROVE i + 1 \in N
    <3>1. i + 1 \in Nat /\ i + 1 - 1 = i
      OBVIOUS
    <3>2. ASSUME i + 1 <= w PROVE rest[i + 1] \in Nat
      <4>1. i + 1 \in 1..w /\ rest[i] \in Nat
        BY <2>2, <3>2
      <4> QED BY <1>3, <1>5, <3>1, <4>1
    <3> QED BY <3>1, <3>2
  <2>3. Nat \subseteq N
    <3> HIDE DEF N
    <3> QED BY <2>1, <2>2, SetInduction
  <2> QED BY <2>3
<1> HIDE DEF N
<1>7. ASSUME NEW i \in 1..w
      PROVE  /\ rest[i - 1] = rest[i] * Base + bytes[i] /\ bytes[i] \in Nat
             /\ rest[i - 1] \in Nat /\ rest[i] \in Nat
             /\ \A c \in Nat : rest[i - 1] < c * Base => rest[i] < c
  <2>1. i - 1 \in 0..w /\ i \in 0..w
    OBVIOUS
  <2>2. rest[i - 1] \in Nat /\ rest[i] \in Nat /\ rest[i] = rest[i - 1] \div Base
    BY <1>5, <1>6, <2>1
  <2>3. bytes[i] = rest[i - 1] % Base
    OBVIOUS
  <2> DEFINE m == rest[i - 1]
  <2>4. m \in Nat /\ rest[i] = m \div Base /\ bytes[i] = m % Base
    BY <2>2, <2>3
  <2> HIDE DEF m, bytes
  <2>5. /\ m = rest[i] * Base + bytes[i] /\ bytes[i] \in Nat
        /\ \A c \in Nat : m < c * Base => rest[i] < c
    BY <2>4, ByteDivision
  <2> QED BY <2>2, <2>5 DEF m
<1>8. DOMAIN bytes = 1..w /\ bytes \in [1..w -> Nat]
  BY <1>7
<1> HIDE DEF bytes
<1>9. bytes \in Seq(Nat) /\ Len(bytes) = w
  BY <1>8
<1>10. ASSUME n < Power(w) PROVE rest[w] = 0
  <2> DEFINE M == {i \in Nat : i <= w => rest[i] < Power(w - i)}
  <2>1. 0 \in M
    BY <1>5, <1>10
  <2>2. ASSUME NEW i \in Nat, i \in M PROVE i + 1 \in M
    <3>1. i + 1 \in Nat /\ i + 1 - 1 = i
      OBVIOUS
    <3>2. ASSUME i + 1 <= w PROVE rest[i + 1] < Power(w - (i + 1))
      <4> DEFINE v == w - (i + 1)
      <4>1. v \in Nat /\ w - i = v + 1 /\ i + 1 \in 1..w /\ i <= w
        BY <3>2
      <4> HIDE DEF v
      <4>2. rest[i] < Power(v + 1)
        BY <2>2, <4>1
      <4>3. Power(v + 1) = Base * Power(v) /\ Power(v) \in Nat
        BY <4>1, PowerOf
      <4>4. Power(v + 1) = Power(v) * Base
        BY <1>2, <4>3
      <4>5. rest[i + 1] < Power(v)
        BY <1>7, <3>1, <4>1, <4>2, <4>3, <4>4
      <4> QED BY <4>5 DEF v
    <3> QED BY <3>1, <3>2
  <2>3. Nat \subseteq M
    <3> HIDE DEF M
    <3> QED BY <2>1, <2>2, SetInduction
  <2>4. rest[w] < Power(w - w) /\ w - w = 0
    BY <2>3
  <2>5. rest[w] \in Nat /\ Power(0) = 1
    BY <1>6, PowerOf
  <2> QED BY <2>4, <2>5
<1>11. ASSUME n < Power(w) PROVE Number(bytes) = n
  <2> DEFINE Highs(f) == f = [i \in 0..w |-> IF i = 0 THEN 0 ELSE bytes[w - i + 1] + Base * f[i - 1]]
             high == CHOOSE f : Highs(f)
  <2>1. Number(bytes) = high[w]
    BY <1>9 DEF Number
  <2>2. \A i \in 1..w : w - i + 1 \in 1..w /\ bytes[w - i + 1] \in Nat /\ i \in 0..w /\ i - 1 \in 0..w
    <3>1. \A i \in 1..w : w - i + 1 \in 1..w
      OBVIOUS
    <3> QED BY <1>8, <3>1
  <2>3. Highs(high)
    <3> DEFINE step == [i \in 1..w |-> [m \in Nat |-> bytes[w - i + 1] + Base * m]]
    <3>1. \A i \in 1..w, m \in Nat : bytes[w - i + 1] + Base * m \in Nat
      BY <1>2, <2>2
    <3>2. step \in [1..w -> [Nat -> Nat]]
          /\ \A i \in 1..w, m \in Nat : step[i][m] = bytes[w - i + 1] + Base * m
      BY <3>1
    <3> HIDE DEF step
    <3>3. PICK f \in [0..w -> Nat] : Computes(f, w, 0, step)
      <4> HIDE DEF high, Highs
      <4> QED BY <3>2, StepByStep
    <3>4. \A i \in 1..w : f[i] = bytes[w - i + 1] + Base * f[i - 1]
      <4>1. \A i \in 1..w : f[i - 1] \in Nat
        BY <2>2
      <4> QED BY <3>2, <3>3, <4>1 DEF Computes
    <3>5. f[0] = 0
      BY <3>3 DEF Computes
    <3>6. ASSUME NEW i \in 0..w
          PROVE  f[i] = IF i = 0 THEN 0 ELSE bytes[w - i + 1] + Base * f[i - 1]
      <4>1. i # 0 => i \in 1..w
        OBVIOUS
      <4> QED BY <3>4, <3>5, <4>1
    <3>7. f = [i \in 0..w |-> f[i]]
      OBVIOUS
    <3>8. Highs(f)
      BY <3>6, <3>7
    <3> HIDE DEF Highs
    <3> QED BY <3>8
  <2> HIDE DEF high
  <2>4. \A i \in 0..w : high[i] = IF i = 0 THEN 0 ELSE bytes[w - i + 1] + Base * high[i - 1]
    BY <2>3
  <2> HIDE DEF Highs
  <2> DEFINE M == {i \in Nat : i <= w => high[i] = rest[w - i]}
  <2>5. 0 \in M
    <3>1. 0 \in 0..w /\ w - 0 = w
      OBVIOUS
    <3> QED BY <1>10, <1>11, <2>4, <3>1
  <2>6. ASSUME NEW i \in Nat, i \in M PROVE i + 1 \in M
    <3>1. i + 1 \in Nat /\ i + 1 - 1 = i
      OBVIOUS
    <3>2. ASSUME i + 1 <= w PROVE high[i + 1] = rest[w - (i + 1)]
      <4> DEFINE v == w - i
      <4>1. v \in 1..w /\ v - 1 = w - (i + 1) /\ w - (i + 1) + 1 = v /\ i + 1 \in 0..w /\ i + 1 # 0
        BY <3>2
      <4>2. high[i] = rest[v]
        BY <2>6, <3>2
      <4> HIDE DEF v
      <4>3. high[i + 1] = bytes[v] + Base * rest[v]
        BY <2>4, <3>1, <4>1, <4>2
      <4>4. rest[v - 1] = rest[v] * Base + bytes[v] /\ bytes[v] \in Nat /\ rest[v] \in Nat
        BY <1>7, <4>1
      <4> QED BY <1>2, <4>1, <4>3, <4>4
    <3> QED BY <3>1, <3>2
  <2>7. Nat \subseteq M
    <3> HIDE DEF M
    <3> QED BY <2>5, <2>6, SetInduction
  <2>8. high[w] = rest[w - w] /\ w - w = 0
    BY <2>7
  <2> QED BY <1>5, <2>1, <2>8
<1> QED BY <1>1, <1>9, <1>11

------------------------------------------------------------------------------
(* Layouts.                                                                   *)

(* The least of one number is that number.                                    *)
LEMMA MinOfOne == ASSUME NEW q \in Nat PROVE Min({q}) = q
<1>1. \E x \in {q} : \A y \in {q} : x <= y
  OBVIOUS
<1>2. Min({q}) = CHOOSE x \in {q} : \A y \in {q} : x <= y
  BY DEF Min
<1>3. Min({q}) \in {q}
  BY <1>1, <1>2
<1> QED BY <1>3

(* The members of a layout that loads.                                        *)
LEMMA LoadedMembers ==
  ASSUME NEW members, Loads(members)
  PROVE  /\ members \in Seq(Fields) /\ Len(members) \in Nat /\ DOMAIN members = 1..Len(members)
         /\ \A p \in 1..Len(members) : members[p] \in Fields /\ WellFormed(members, p)
         /\ \A p, q \in 1..Len(members) : members[p].name = members[q].name => p = q
<1>1. members \in Seq(Fields) /\ Sound(members)
  BY Zenon DEF Loads
<1>2. /\ Len(members) \in Nat /\ DOMAIN members = 1..Len(members)
      /\ \A p \in 1..Len(members) : members[p] \in Fields
  BY <1>1
<1>3. \A p \in 1..Len(members) : WellFormed(members, p)
  BY <1>1, <1>2 DEF Sound
<1>4. \A p \in 1..Len(members) : \A q \in 1..(p - 1) : members[q].name # members[p].name
  BY <1>3, Zenon DEF WellFormed
<1>5. ASSUME NEW p \in 1..Len(members), NEW q \in 1..Len(members),
             members[p].name = members[q].name, p # q
      PROVE  FALSE
  <2>1. p \in 1..(q - 1) \/ q \in 1..(p - 1)
    BY <1>5
  <2> QED BY <1>4, <1>5, <2>1
<1> QED BY <1>1, <1>2, <1>3, <1>5

(* The member of a name.                                                      *)
Named(members, name, q) ==
  /\ q \in 1..Len(members) /\ members[q].name = name
  /\ \A r \in 1..Len(members) : members[r].name = name => r = q

(* The integer a member counts or selects by comes before it.                 *)
LEMMA Referred ==
  ASSUME NEW members, Loads(members), NEW p \in 1..Len(members), NEW name,
         \/ members[p].kind = "counted" /\ members[p].count = name
         \/ members[p].kind = "union" /\ members[p].selector = name
  PROVE  \E q : Named(members, name, q) /\ q < p /\ members[q].kind = "scalar"
<1>1. Unsigned(members, p, name)
  <2>1. WellFormed(members, p)
    BY LoadedMembers
  <2>2. /\ members[p].kind = "counted" => Unsigned(members, p, members[p].count)
        /\ members[p].kind = "union" => Unsigned(members, p, members[p].selector)
    BY <2>1, Zenon DEF WellFormed
  <2> QED BY <2>2
<1>2. PICK q \in 1..(p - 1) : members[q].name = name /\ members[q].kind = "scalar"
  BY <1>1, Zenon DEF Unsigned
<1>3. Len(members) \in Nat
  BY LoadedMembers
<1>4. q \in 1..Len(members) /\ q < p
  BY <1>3
<1>5. \A r \in 1..Len(members) : members[r].name = name => r = q
  BY <1>2, <1>4, LoadedMembers
<1> QED BY <1>2, <1>4, <1>5 DEF Named

(* Who uses the name of a member: nobody, or one list or union, and then it   *)
(* is an integer.                                                             *)
LEMMA DependentsOf ==
  ASSUME NEW members, Loads(members), NEW p \in 1..Len(members)
  PROVE  /\ \A q \in Dependents(members, members[p].name) :
              /\ q \in 1..Len(members) /\ members[q].kind \in {"counted", "union"}
              /\ members[p].kind = "scalar" /\ p < q
              /\ Dependents(members, members[p].name) = {q}
         /\ members[p].kind # "scalar" => ~Hidden(members, p)
<1>1. DOMAIN members = 1..Len(members) /\ Len(members) \in Nat
  BY LoadedMembers
<1>2. ASSUME NEW q \in Dependents(members, members[p].name)
      PROVE  /\ q \in 1..Len(members) /\ members[q].kind \in {"counted", "union"}
             /\ members[p].kind = "scalar" /\ p < q
             /\ Dependents(members, members[p].name) = {q}
  <2>1. /\ q \in 1..Len(members)
        /\ \/ members[q].kind = "counted" /\ members[q].count = members[p].name
           \/ members[q].kind = "union" /\ members[q].selector = members[p].name
    BY <1>1, <1>2 DEF Dependents
  <2> DEFINE name == members[p].name
  <2>2. PICK r : Named(members, name, r) /\ r < q /\ members[r].kind = "scalar"
    <3>1. \/ members[q].kind = "counted" /\ members[q].count = name
          \/ members[q].kind = "union" /\ members[q].selector = name
      BY <2>1
    <3> HIDE DEF name
    <3> QED BY <2>1, <3>1, Referred
  <2>3. p = r
    BY <2>2 DEF Named
  <2>4. \A o \in Dependents(members, members[p].name) : o = q
    BY <1>1, <1>2, Zenon DEF Loads
  <2>5. Dependents(members, members[p].name) = {q}
    BY <1>2, <2>4
  <2> QED BY <2>1, <2>2, <2>3, <2>5
<1>3. members[p].kind # "scalar" => ~Hidden(members, p)
  BY <1>2 DEF Hidden
<1> QED BY <1>2, <1>3

(* The visible members, in order.                                             *)
LEMMA VisibleMembers ==
  ASSUME NEW members, Loads(members)
  PROVE  /\ Len(Visible(members)) \in Nat /\ DOMAIN Visible(members) = 1..Len(Visible(members))
         /\ \A k \in 1..Len(Visible(members)) :
              Visible(members)[k] \in 1..Len(members) /\ ~Hidden(members, Visible(members)[k])
         /\ \A p \in 1..Len(members) : ~Hidden(members, p) =>
              \E k \in 1..Len(Visible(members)) : Visible(members)[k] = p
         /\ \A k, l \in 1..Len(Visible(members)) :
              Visible(members)[k] = Visible(members)[l] => k = l
<1> DEFINE n == Len(members)
           s == [p \in 1..n |-> p]
           chosen == {p \in 1..n : ~Hidden(members, p)}
<1>1. n \in Nat /\ DOMAIN members = 1..n
  BY LoadedMembers
<1>2. Visible(members) = Select(s, chosen)
  BY <1>1 DEF Visible
<1>3. s \in Seq(1..n) /\ Len(s) = n /\ \A p \in 1..n : s[p] = p
  BY <1>1
<1>4. \A p : p \in chosen <=> p \in 1..n /\ ~Hidden(members, p)
  OBVIOUS
<1> HIDE DEF s, chosen, n
<1>5. chosen \in SUBSET (1..Len(s))
  BY <1>3, <1>4
<1> DEFINE v == Select(s, chosen)
<1>6. /\ v \in Seq(1..n)
      /\ \A k \in 1..Len(v) : \E i \in chosen : v[k] = s[i]
      /\ \A i \in chosen : \E k \in 1..Len(v) : v[k] = s[i]
      /\ (\A i, j \in 1..Len(s) : s[i] = s[j] => i = j) =>
           \A k, l \in 1..Len(v) : v[k] = v[l] => k = l
  <2> DEFINE R == 1..n
  <2>1. s \in Seq(R)
    BY <1>3
  <2> HIDE DEF R
  <2>2. v \in Seq(R)
    BY <1>5, <2>1, SelectElements
  <2>3. \A k \in 1..Len(v) : \E i \in chosen : v[k] = s[i]
    BY <1>5, <2>1, SelectElements
  <2>4. \A i \in chosen : \E k \in 1..Len(v) : v[k] = s[i]
    BY <1>5, <2>1, SelectElements
  <2>5. (\A i, j \in 1..Len(s) : s[i] = s[j] => i = j) =>
          \A k, l \in 1..Len(v) : v[k] = v[l] => k = l
    BY <1>5, <2>1, SelectElements
  <2> QED BY <2>2, <2>3, <2>4, <2>5 DEF R
<1> HIDE DEF v
<1>7. \A k \in 1..Len(v) : v[k] \in chosen
  BY <1>3, <1>4, <1>6
<1>8. \A p \in chosen : \E k \in 1..Len(v) : v[k] = p
  BY <1>3, <1>4, <1>6
<1>9. \A k, l \in 1..Len(v) : v[k] = v[l] => k = l
  BY <1>3, <1>6
<1>10. Len(v) \in Nat /\ DOMAIN v = 1..Len(v)
  BY <1>6
<1>11. Visible(members) = v
  BY <1>2 DEF v
<1> QED BY <1>4, <1>7, <1>8, <1>9, <1>10, <1>11 DEF n

(* The field of a visible member, and of an integer the list or union that    *)
(* goes with it.                                                              *)
LEMMA FieldsOf ==
  ASSUME NEW members, Loads(members), NEW p \in 1..Len(members)
  PROVE  /\ \A k \in 1..Len(Visible(members)) :
              Visible(members)[k] = p => FieldOf(members, p) = k
         /\ \A q \in Dependents(members, members[p].name) :
              FieldOf(members, p) = FieldOf(members, q)
<1> DEFINE v == Visible(members)
<1>1. /\ DOMAIN v = 1..Len(v)
      /\ \A k \in 1..Len(v) : v[k] \in 1..Len(members) /\ ~Hidden(members, v[k])
      /\ \A o \in 1..Len(members) : ~Hidden(members, o) => \E k \in 1..Len(v) : v[k] = o
      /\ \A k, l \in 1..Len(v) : v[k] = v[l] => k = l
  BY VisibleMembers
<1>2. Len(members) \in Nat
  BY LoadedMembers
<1> HIDE DEF v
<1>3. ASSUME NEW k \in 1..Len(v), v[k] = p PROVE FieldOf(members, p) = k
  <2>1. ~Hidden(members, p)
    BY <1>1, <1>3
  <2>2. FieldOf(members, p) = CHOOSE l \in DOMAIN v : v[l] = p
    BY <2>1 DEF FieldOf, v
  <2> QED BY <1>1, <1>3, <2>2
<1>4. ASSUME NEW q \in Dependents(members, members[p].name)
      PROVE  FieldOf(members, p) = FieldOf(members, q)
  <2>1. Hidden(members, p)
    BY Zenon DEF Hidden
  <2>2. q \in 1..Len(members) /\ Dependents(members, members[p].name) = {q}
    BY DependentsOf
  <2>3. ~Hidden(members, q)
    BY DependentsOf
  <2>4. Min(Dependents(members, members[p].name)) = q
    BY <1>2, <2>2, MinOfOne
  <2>5. FieldOf(members, p) = CHOOSE l \in DOMAIN v : v[l] = q
    BY <2>1, <2>4, Zenon DEF FieldOf, v
  <2>6. FieldOf(members, q) = CHOOSE l \in DOMAIN v : v[l] = q
    BY <2>3, Zenon DEF FieldOf, v
  <2> QED BY <2>5, <2>6
<1> QED BY <1>3, <1>4 DEF v

(* The position of a name.                                                    *)
Place(members, name) == CHOOSE q \in DOMAIN members : members[q].name = name

(* The only member with a name is at its place.                               *)
LEMMA PlaceOf ==
  ASSUME NEW members, Loads(members), NEW name, NEW q, Named(members, name, q)
  PROVE  Place(members, name) = q
<1>1. DOMAIN members = 1..Len(members)
  BY LoadedMembers
<1> QED BY <1>1 DEF Named, Place

(* What Shape keeps of a member: all but its name and those it refers to.     *)
LEMMA ShapeOf ==
  ASSUME NEW members, NEW p, members[p] \in Fields
  PROVE  /\ Shape(members, p).kind = members[p].kind
         /\ members[p].kind \in {"scalar", "optional"} =>
              Shape(members, p).width = members[p].width
         /\ members[p].kind = "scalar" => Shape(members, p).signed = members[p].signed
         /\ members[p].kind = "struct" => Shape(members, p).of = members[p].of
         /\ members[p].kind = "array" => /\ Shape(members, p).element = members[p].element
                                         /\ Shape(members, p).len = members[p].len
         /\ members[p].kind = "counted" =>
              /\ Shape(members, p).element = members[p].element
              /\ Shape(members, p).capacity = members[p].capacity
              /\ Shape(members, p).count = Place(members, members[p].count)
         /\ members[p].kind = "union" =>
              /\ Shape(members, p).variants = members[p].variants
              /\ Shape(members, p).selector = Place(members, members[p].selector)
<1> DEFINE m == members[p]
           f == [m EXCEPT !.name = ""]
<1>1. Shape(members, p) =
        CASE f.kind = "counted" -> [f EXCEPT !.count = Place(members, f.count)]
          [] f.kind = "union"   -> [f EXCEPT !.selector = Place(members, f.selector)]
          [] OTHER -> f
  BY Zenon DEF Shape, Place
<1>2. m \in Fields
  OBVIOUS
<1> DEFINE s == Shape(members, p)
<1> HIDE DEF m, s
<1>3. CASE m.kind = "counted"
  <2>1. m \in [name : STRING, kind : {"counted"}, element : Elements, count : STRING, capacity : Nat]
    BY <1>2, <1>3 DEF Fields
  <2>2. f.kind = "counted" /\ f.count = m.count /\ f.element = m.element /\ f.capacity = m.capacity
    BY <2>1
  <2>3. DOMAIN f = {"name", "kind", "element", "count", "capacity"}
    BY <2>1
  <2> HIDE DEF f
  <2>4. s = [f EXCEPT !.count = Place(members, m.count)]
    BY <1>1, <2>2 DEF s
  <2>5. s.kind = f.kind /\ s.element = f.element /\ s.capacity = f.capacity
        /\ s.count = Place(members, m.count)
    BY <2>3, <2>4
  <2> QED BY <1>3, <2>2, <2>5 DEF m, s
<1>4. CASE m.kind = "union"
  <2>1. m \in [name : STRING, kind : {"union"}, selector : STRING, variants : Seq(Variants)]
    BY <1>2, <1>4 DEF Fields
  <2>2. f.kind = "union" /\ f.selector = m.selector /\ f.variants = m.variants
    BY <2>1
  <2>3. DOMAIN f = {"name", "kind", "selector", "variants"}
    BY <2>1
  <2> HIDE DEF f
  <2>4. s = [f EXCEPT !.selector = Place(members, m.selector)]
    BY <1>1, <2>2 DEF s
  <2>5. s.kind = f.kind /\ s.variants = f.variants /\ s.selector = Place(members, m.selector)
    BY <2>3, <2>4
  <2> QED BY <1>4, <2>2, <2>5 DEF m, s
<1>5. CASE m.kind \notin {"counted", "union"}
  <2>1. f.kind = m.kind
    BY <1>2 DEF Fields
  <2>2. s = f
    BY <1>1, <1>5, <2>1 DEF s
  <2>3. /\ m.kind \in {"scalar", "optional"} => f.width = m.width
        /\ m.kind = "scalar" => f.signed = m.signed
        /\ m.kind = "struct" => f.of = m.of
        /\ m.kind = "array" => f.element = m.element /\ f.len = m.len
    BY <1>2 DEF Fields
  <2> QED BY <1>5, <2>1, <2>2, <2>3 DEF m, s
<1> QED BY <1>3, <1>4, <1>5

(* Layouts that are the same hide the same members and give each its width.   *)
LEMMA AlikeMembers ==
  ASSUME NEW members, Loads(members), NEW others, Loads(others), SameLayout(members, others)
  PROVE  /\ Len(members) = Len(others)
         /\ \A p \in 1..Len(members) :
              /\ members[p].kind = others[p].kind
              /\ members[p].kind \in {"scalar", "optional"} => members[p].width = others[p].width
              /\ members[p].kind \in {"scalar", "struct", "array"} =>
                   MaxWidth(members[p]) = MaxWidth(others[p])
              /\ members[p].kind = "counted" =>
                   /\ members[p].element = others[p].element
                   /\ members[p].capacity = others[p].capacity
                   /\ Place(members, members[p].count) = Place(others, others[p].count)
              /\ members[p].kind = "union" =>
                   /\ members[p].variants = others[p].variants
                   /\ Place(members, members[p].selector) = Place(others, others[p].selector)
<1>1. /\ Len(members) = Len(others) /\ DOMAIN members = 1..Len(members)
      /\ \A p \in 1..Len(members) : Shape(members, p) = Shape(others, p)
  BY LoadedMembers DEF SameLayout
<1> SUFFICES ASSUME NEW p \in 1..Len(members)
             PROVE
              /\ members[p].kind = others[p].kind
              /\ members[p].kind \in {"scalar", "optional"} => members[p].width = others[p].width
              /\ members[p].kind \in {"scalar", "struct", "array"} =>
                   MaxWidth(members[p]) = MaxWidth(others[p])
              /\ members[p].kind = "counted" =>
                   /\ members[p].element = others[p].element
                   /\ members[p].capacity = others[p].capacity
                   /\ Place(members, members[p].count) = Place(others, others[p].count)
              /\ members[p].kind = "union" =>
                   /\ members[p].variants = others[p].variants
                   /\ Place(members, members[p].selector) = Place(others, others[p].selector)
  BY <1>1
<1>2. members[p] \in Fields /\ others[p] \in Fields
  BY <1>1, LoadedMembers
<1> DEFINE m == members[p]
           o == others[p]
           s == Shape(members, p)
<1>3. /\ s.kind = m.kind
      /\ m.kind \in {"scalar", "optional"} => s.width = m.width
      /\ m.kind = "struct" => s.of = m.of
      /\ m.kind = "array" => s.element = m.element /\ s.len = m.len
      /\ m.kind = "counted" => /\ s.element = m.element /\ s.capacity = m.capacity
                               /\ s.count = Place(members, m.count)
      /\ m.kind = "union" => /\ s.variants = m.variants /\ s.selector = Place(members, m.selector)
  BY <1>2, ShapeOf
<1>4. /\ s.kind = o.kind
      /\ o.kind \in {"scalar", "optional"} => s.width = o.width
      /\ o.kind = "struct" => s.of = o.of
      /\ o.kind = "array" => s.element = o.element /\ s.len = o.len
      /\ o.kind = "counted" => /\ s.element = o.element /\ s.capacity = o.capacity
                               /\ s.count = Place(others, o.count)
      /\ o.kind = "union" => /\ s.variants = o.variants /\ s.selector = Place(others, o.selector)
  <2>1. s = Shape(others, p)
    BY <1>1
  <2> HIDE DEF s
  <2> QED BY <1>2, <2>1, ShapeOf
<1> HIDE DEF s
<1>5. m.kind = "scalar" => MaxWidth(m) = MaxWidth(o)
  BY <1>3, <1>4 DEF MaxWidth
<1>6. m.kind = "array" => MaxWidth(m) = MaxWidth(o)
  BY <1>3, <1>4 DEF MaxWidth
<1>7. m.kind = "struct" => MaxWidth(m) = MaxWidth(o)
  <2> SUFFICES ASSUME m.kind = "struct" PROVE MaxWidth(m) = MaxWidth(o)
    OBVIOUS
  <2>1. /\ m \in [name : STRING, kind : {"struct"}, of : STRING]
        /\ o \in [name : STRING, kind : {"struct"}, of : STRING]
    BY <1>2, <1>3, <1>4 DEF Fields
  <2>2. "of" \in DOMAIN m /\ "of" \in DOMAIN o /\ m.of = o.of
    BY <1>3, <1>4, <2>1
  <2>3. ElementWidth(m) = ElementWidth(o)
    BY <2>2 DEF ElementWidth
  <2> QED BY <1>3, <1>4, <2>3 DEF MaxWidth
<1> QED BY <1>3, <1>4, <1>5, <1>6, <1>7

------------------------------------------------------------------------------
(* A list's count or a union's selector is the member at a position.          *)
Refers(members, q, p) ==
  \/ members[q].kind = "counted" /\ Place(members, members[q].count) = p
  \/ members[q].kind = "union" /\ Place(members, members[q].selector) = p

(* The dependents of a member are those that refer to its place: names do not *)
(* matter, places do.                                                         *)
LEMMA DependentsReferTo ==
  ASSUME NEW members, Loads(members), NEW p \in 1..Len(members)
  PROVE  Dependents(members, members[p].name) = {q \in 1..Len(members) : Refers(members, q, p)}
<1> DEFINE name == members[p].name
<1>1. DOMAIN members = 1..Len(members)
  BY LoadedMembers
<1> SUFFICES ASSUME NEW q \in 1..Len(members)
             PROVE  \/ members[q].kind = "counted" /\ members[q].count = name
                    \/ members[q].kind = "union" /\ members[q].selector = name
                    <=> Refers(members, q, p)
  BY <1>1 DEF Dependents
<1>2. ASSUME NEW used, \/ members[q].kind = "counted" /\ members[q].count = used
                       \/ members[q].kind = "union" /\ members[q].selector = used
      PROVE  used = name <=> Place(members, used) = p
  <2>1. PICK r : Named(members, used, r)
    BY <1>2, Referred
  <2>2. Place(members, used) = r
    BY <2>1, PlaceOf
  <2> QED BY <2>1, <2>2 DEF Named
<1>3. members[q].kind = "counted" =>
        (members[q].count = name <=> Place(members, members[q].count) = p)
  BY <1>2
<1>4. members[q].kind = "union" =>
        (members[q].selector = name <=> Place(members, members[q].selector) = p)
  BY <1>2
<1> QED BY <1>3, <1>4 DEF Refers

(* Layouts that are the same hide the same members.                           *)
LEMMA AlikeDependents ==
  ASSUME NEW members, Loads(members), NEW others, Loads(others), SameLayout(members, others)
  PROVE  /\ \A p \in 1..Len(members) :
              /\ Dependents(members, members[p].name) = Dependents(others, others[p].name)
              /\ Hidden(members, p) <=> Hidden(others, p)
         /\ Visible(members) = Visible(others)
<1>1. Len(members) = Len(others)
  BY AlikeMembers
<1>2. ASSUME NEW p \in 1..Len(members)
      PROVE  Dependents(members, members[p].name) = Dependents(others, others[p].name)
  <2>1. \A q \in 1..Len(members) : Refers(members, q, p) <=> Refers(others, q, p)
    BY AlikeMembers DEF Refers
  <2>2. Dependents(members, members[p].name) = {q \in 1..Len(members) : Refers(members, q, p)}
    BY DependentsReferTo
  <2>3. Dependents(others, others[p].name) = {q \in 1..Len(others) : Refers(others, q, p)}
    BY <1>1, DependentsReferTo
  <2> QED BY <1>1, <2>1, <2>2, <2>3
<1>3. \A p \in 1..Len(members) : Hidden(members, p) <=> Hidden(others, p)
  BY <1>2 DEF Hidden
<1>4. DOMAIN members = 1..Len(members) /\ DOMAIN others = 1..Len(members)
  BY <1>1, LoadedMembers
<1>5. {p \in DOMAIN members : ~Hidden(members, p)} = {p \in DOMAIN others : ~Hidden(others, p)}
  BY <1>3, <1>4
<1>6. [p \in DOMAIN members |-> p] = [p \in DOMAIN others |-> p]
  BY <1>4
<1>7. Visible(members) = Visible(others)
  BY <1>5, <1>6 DEF Visible
<1> QED BY <1>2, <1>3, <1>7

------------------------------------------------------------------------------
(* The bytes of a field.                                                      *)

(* The elements of a list, each in `w` bytes.                                 *)
LEMMA ElementBytes ==
  ASSUME NEW x, NEW n \in Nat, DOMAIN x = 1..n, NEW w \in Nat
  PROVE  LET bytes == FlattenSeq([i \in DOMAIN x |-> LittleEndian(x[i], w)])
         IN  IsSequence(bytes) /\ Len(bytes) = n * w
<1> DEFINE item(i) == LittleEndian(x[i], w)
           S == UNION {Range(item(i)) : i \in 1..n}
           pieces == [i \in 1..n |-> item(i)]
<1>1. \A i \in 1..n : IsSequence(item(i)) /\ Len(item(i)) = w
  <2> SUFFICES ASSUME NEW i \in 1..n PROVE IsSequence(item(i)) /\ Len(item(i)) = w
    OBVIOUS
  <2>1. PICK T : item(i) \in Seq(T)
    BY LittleEndianLength
  <2>2. Len(item(i)) = w
    BY LittleEndianLength
  <2> HIDE DEF item
  <2> QED BY <2>1, <2>2, SequencesOf
<1> HIDE DEF item
<1>2. \A i \in 1..n : Range(item(i)) \subseteq S
  OBVIOUS
<1> HIDE DEF S
<1>3. \A i \in 1..n : item(i) \in Seq(S)
  BY <1>1, <1>2, SequencesOf
<1> DEFINE Q == Seq(S)
<1>4. pieces \in [1..n -> Q] /\ \A i \in 1..n : pieces[i] = item(i)
  BY <1>3
<1> HIDE DEF pieces
<1>5. pieces \in Seq(Q) /\ Len(pieces) = n
  <2> HIDE DEF Q
  <2> QED BY <1>4
<1>6. \A i \in 1..Len(pieces) : Len(pieces[i]) = w
  BY <1>1, <1>4, <1>5
<1>7. FlattenSeq(pieces) \in Seq(S) /\ Len(FlattenSeq(pieces)) = n * w
  <2>1. pieces \in Seq(Seq(S))
    BY <1>5
  <2> HIDE DEF Q
  <2>2. FlattenSeq(pieces) \in Seq(S) /\ Len(FlattenSeq(pieces)) = Len(pieces) * w
    BY <1>6, <2>1, FlattenEven
  <2> QED BY <1>5, <2>2
<1>8. [i \in DOMAIN x |-> LittleEndian(x[i], w)] = pieces
  BY DEF pieces, item
<1>9. IsSequence(FlattenSeq(pieces))
  BY <1>7, SequencesOf
<1> QED BY <1>7, <1>8, <1>9

(* A list that is supplied has one of the lengths that are tried.             *)
LEMMA ListsLength ==
  ASSUME NEW lengths \in SUBSET Nat, NEW values, NEW x \in Lists(lengths, values)
  PROVE  Len(x) \in lengths /\ IsSequence(x)
<1>1. PICK n \in lengths, a \in values, b \in values : x = [i \in 1..n |-> IF i = 1 THEN a ELSE b]
  BY DEF Lists
<1> DEFINE T == {a, b}
<1>2. x \in [1..n -> T] /\ n \in Nat
  BY <1>1
<1>3. x \in Seq(T) /\ Len(x) = n
  <2> HIDE DEF T
  <2> QED BY <1>2
<1>4. IsSequence(x)
  <2> HIDE DEF T
  <2> QED BY <1>3, SequencesOf
<1> QED BY <1>3, <1>4

(* What UnionMatches says of one variant of the type.                         *)
LEMMA UnionVariant ==
  ASSUME NEW variants, variants \in Seq(Variants), NEW width, NEW type,
         type.variants \in Seq([tag : Nat, width : Nat]),
         UnionMatches(type, variants, width), NEW j \in DOMAIN type.variants
  PROVE  LET v == type.variants[j]
         IN  /\ v.tag \in Nat /\ v.width \in Nat /\ v.tag \in Whole(width)
             /\ \E k \in DOMAIN variants :
                  /\ variants[k].width = v.width
                  /\ \/ variants[k].tag = v.tag
                     \/ /\ variants[k].tag = Other
                        /\ \A l \in DOMAIN variants : variants[l].tag # v.tag
<1> DEFINE tags == {variants[k].tag : k \in DOMAIN variants}
           first(tag) == CHOOSE k \in DOMAIN variants : variants[k].tag = tag
           catalog == [tag \in tags |-> variants[first(tag)].width]
           v == type.variants[j]
<1>1. v.tag \in Nat /\ v.width \in Nat
  <2> DEFINE T == [tag : Nat, width : Nat]
  <2>1. v \in T
    <3> HIDE DEF T
    <3>1. type.variants \in Seq(T)
      BY DEF T
    <3> QED BY <3>1
  <2> QED BY <2>1
<1>2. /\ v.tag \in Whole(width)
      /\ v.width = IF v.tag \in DOMAIN catalog THEN catalog[v.tag]
                   ELSE IF Other \in DOMAIN catalog THEN catalog[Other] ELSE None
  BY Zenon DEF UnionMatches
<1>3. \A tag \in tags : first(tag) \in DOMAIN variants /\ variants[first(tag)].tag = tag
  OBVIOUS
<1> HIDE DEF first
<1>4. DOMAIN catalog = tags /\ \A tag \in tags : catalog[tag] = variants[first(tag)].width
  OBVIOUS
<1>5. \A l \in DOMAIN variants : variants[l].tag \in tags
  OBVIOUS
<1> HIDE DEF catalog, tags, v
<1>6. CASE v.tag \in tags
  <2> DEFINE k == first(v.tag)
  <2>1. k \in DOMAIN variants /\ variants[k].tag = v.tag /\ catalog[v.tag] = variants[k].width
    BY <1>3, <1>4, <1>6
  <2>2. variants[k].width = v.width
    BY <1>2, <1>4, <1>6, <2>1
  <2> HIDE DEF k
  <2> QED BY <1>1, <1>2, <2>1, <2>2 DEF v
<1>7. CASE v.tag \notin tags /\ Other \in tags
  BY <1>1, <1>2, <1>3, <1>4, <1>5, <1>7 DEF v
<1>8. CASE v.tag \notin tags /\ Other \notin tags
  BY <1>1, <1>2, <1>4, <1>8, NoneAssumption
<1> QED BY <1>1, <1>2, <1>6, <1>7, <1>8 DEF v

(* A type for a visible member, of its width.                                 *)
FieldFits(members, p, type) ==
  LET m == members[p]
  IN  /\ Encodes(type)
      /\ m.kind \in {"scalar", "struct", "array", "counted", "optional", "union"}
      /\ m.kind \in {"scalar", "struct", "array"} =>
           type.shape = "plain" /\ type.width = MaxWidth(m)
      /\ m.kind = "counted" =>
           /\ type.shape = "slice" /\ type.item.width = ElementWidth(m.element)
           /\ CountFits(members, p)
      /\ m.kind = "optional" => type.shape = "option" /\ type.item.width = m.width
      /\ m.kind = "union" =>
           /\ type.shape = "union"
           /\ UnionMatches(type, m.variants, members[Place(members, m.selector)].width)

(* The bytes of what a field may be given.                                    *)
LEMMA FieldLength ==
  ASSUME NEW members, Loads(members), NEW p \in 1..Len(members),
         NEW type, FieldFits(members, p, type), NEW x \in Inputs(members[p], type)
  PROVE  LET m == members[p]
             bytes == FieldBytes(type, x)
         IN  /\ IsSequence(bytes)
             /\ m.kind \in {"scalar", "struct", "array"} => Len(bytes) = MaxWidth(m)
             /\ m.kind = "counted" =>
                  /\ Len(x) \in Nat /\ ElementWidth(m.element) \in Nat
                  /\ Len(bytes) = Len(x) * ElementWidth(m.element)
             /\ m.kind = "optional" =>
                  /\ m.width \in Nat \ {0}
                  /\ Len(bytes) = IF x = <<>> THEN 0 ELSE m.width
             /\ m.kind = "union" =>
                  \E j \in DOMAIN type.variants :
                    x[1] = type.variants[j].tag /\ Len(bytes) = type.variants[j].width
<1> DEFINE m == members[p]
           bytes == FieldBytes(type, x)
<1>1. m \in Fields
  BY LoadedMembers
<1>2. Encodes(type) /\ x \in Inputs(m, type)
  BY Zenon DEF FieldFits
<1>3. CASE m.kind \in {"scalar", "struct", "array"}
  <2>1. type.shape = "plain" /\ type.width = MaxWidth(m)
    BY <1>3, Zenon DEF FieldFits
  <2>2. /\ type.len \in Nat \ {0} /\ ItemWidth(type) \in Nat
        /\ type.width = type.len * ItemWidth(type)
    BY <1>2, <2>1 DEF Encodes
  <2>3. x \in Lists({type.len}, Ends(type))
    BY <1>2, <2>1 DEF Inputs
  <2>4. Len(x) = type.len /\ DOMAIN x = 1..type.len
    <3>1. {type.len} \in SUBSET Nat
      BY <2>2
    <3> QED BY <2>3, <3>1, ListsLength DEF IsSequence
  <2>5. bytes = FlattenSeq([i \in DOMAIN x |-> LittleEndian(x[i], ItemWidth(type))])
    BY <2>1 DEF FieldBytes
  <2>6. IsSequence(bytes) /\ Len(bytes) = type.len * ItemWidth(type)
    <3> DEFINE n == type.len
               w == ItemWidth(type)
    <3>1. n \in Nat /\ w \in Nat /\ DOMAIN x = 1..n
      BY <2>2, <2>4
    <3> HIDE DEF n, w, bytes
    <3>2. bytes = FlattenSeq([i \in DOMAIN x |-> LittleEndian(x[i], w)])
      BY <2>5 DEF w
    <3>3. IsSequence(bytes) /\ Len(bytes) = n * w
      BY <3>1, <3>2, ElementBytes
    <3> QED BY <3>3 DEF n, w
  <2> QED BY <1>3, <2>1, <2>2, <2>6
<1>4. CASE m.kind = "counted"
  <2>1. type.shape = "slice" /\ type.item.width = ElementWidth(m.element)
    BY <1>4, Zenon DEF FieldFits
  <2>2. type.item.width \in Nat
    BY <1>2, <2>1 DEF Encodes
  <2>3. m.capacity \in Nat
    BY <1>1, <1>4 DEF Fields
  <2>4. x \in Lists(0..(m.capacity + 1), Ends(type.item))
    BY <1>2, <2>1 DEF Inputs
  <2>5. Len(x) \in Nat /\ DOMAIN x = 1..Len(x)
    <3>1. 0..(m.capacity + 1) \in SUBSET Nat
      BY <2>3
    <3> QED BY <2>4, <3>1, ListsLength DEF IsSequence
  <2>6. bytes = FlattenSeq([i \in DOMAIN x |-> LittleEndian(x[i], type.item.width)])
    BY <2>1 DEF FieldBytes
  <2>7. IsSequence(bytes) /\ Len(bytes) = Len(x) * type.item.width
    <3> DEFINE n == Len(x)
               w == type.item.width
    <3>1. n \in Nat /\ w \in Nat /\ DOMAIN x = 1..n
      BY <2>2, <2>5
    <3> HIDE DEF n, w, bytes
    <3>2. bytes = FlattenSeq([i \in DOMAIN x |-> LittleEndian(x[i], w)])
      BY <2>6 DEF w
    <3>3. IsSequence(bytes) /\ Len(bytes) = n * w
      BY <3>1, <3>2, ElementBytes
    <3> QED BY <3>3 DEF n, w
  <2> QED BY <1>4, <2>1, <2>2, <2>5, <2>7
<1>5. CASE m.kind = "optional"
  <2>1. type.shape = "option" /\ type.item.width = m.width
    BY <1>5, Zenon DEF FieldFits
  <2>2. m.width \in Nat \ {0}
    <3>1. m.width \in Nat
      BY <1>1, <1>5 DEF Fields
    <3>2. m.width # 0
      BY <1>5, LoadedMembers, Zenon DEF Loads
    <3> QED BY <3>1, <3>2
  <2>3. x \in Lists({0, 1}, Ends(type.item))
    BY <1>2, <2>1 DEF Inputs
  <2>4. Len(x) \in {0, 1} /\ IsSequence(x)
    <3>1. {0, 1} \in SUBSET Nat
      OBVIOUS
    <3> QED BY <2>3, <3>1, ListsLength
  <2>5. bytes = FlattenSeq([i \in DOMAIN x |-> LittleEndian(x[i], type.item.width)])
    BY <2>1 DEF FieldBytes
  <2>6. IsSequence(bytes) /\ Len(bytes) = Len(x) * m.width
    <3> DEFINE n == Len(x)
               w == m.width
    <3>1. n \in Nat /\ w \in Nat /\ DOMAIN x = 1..n
      BY <2>2, <2>4 DEF IsSequence
    <3> HIDE DEF n, w, bytes
    <3>2. bytes = FlattenSeq([i \in DOMAIN x |-> LittleEndian(x[i], w)])
      BY <2>1, <2>5 DEF w
    <3>3. IsSequence(bytes) /\ Len(bytes) = n * w
      BY <3>1, <3>2, ElementBytes
    <3> QED BY <3>3 DEF n, w
  <2>7. x = <<>> <=> Len(x) = 0
    <3> DEFINE T == Range(x)
    <3>1. x \in Seq(T)
      BY <2>4 DEF IsSequence
    <3> HIDE DEF T
    <3> QED BY <3>1
  <2>8. 0 * m.width = 0 /\ 1 * m.width = m.width
    BY <2>2
  <2> HIDE DEF bytes
  <2>9. Len(bytes) = IF x = <<>> THEN 0 ELSE m.width
    BY <2>4, <2>6, <2>7, <2>8
  <2> QED BY <1>5, <2>2, <2>6, <2>9 DEF bytes
<1>6. CASE m.kind = "union"
  <2>1. type.shape = "union"
    BY <1>6, Zenon DEF FieldFits
  <2>2. type.variants \in Seq([tag : Nat, width : Nat])
    BY <1>2, <2>1 DEF Encodes
  <2> DEFINE Of(v) == {<<v.tag>> \o rest : rest \in Lists({v.width}, {0, Base - 1})}
  <2>3. PICK v \in Range(type.variants) : x \in Of(v)
    <3>1. x \in UNION {Of(v) : v \in Range(type.variants)}
      BY <1>2, <2>1 DEF Inputs
    <3> HIDE DEF Of
    <3> QED BY <3>1
  <2>13. PICK rest \in Lists({v.width}, {0, Base - 1}) : x = <<v.tag>> \o rest
    BY <2>3
  <2> HIDE DEF Of
  <2>4. PICK j \in DOMAIN type.variants : v = type.variants[j]
    BY <2>3 DEF Range
  <2>5. v.width \in Nat /\ v.tag \in Nat
    <3> DEFINE T == [tag : Nat, width : Nat]
    <3>1. type.variants \in Seq(T)
      BY <2>2
    <3> HIDE DEF T
    <3>2. v \in T
      BY <2>4, <3>1
    <3> QED BY <3>2 DEF T
  <2>6. Len(rest) = v.width /\ IsSequence(rest)
    <3>1. {v.width} \in SUBSET Nat
      BY <2>5
    <3> QED BY <3>1, ListsLength
  <2> DEFINE S == Range(rest) \cup {v.tag}
             tag == <<v.tag>>
  <2>7. rest \in Seq(S) /\ tag \in Seq(S) /\ Len(tag) = 1 /\ tag[1] = v.tag
    <3>1. Range(rest) \subseteq S /\ v.tag \in S
      OBVIOUS
    <3> HIDE DEF S
    <3> QED BY <2>6, <3>1, SequencesOf
  <2> HIDE DEF S, tag
  <2>8. x = tag \o rest
    BY <2>13 DEF tag
  <2>9. x \in Seq(S) /\ Len(x) = v.width + 1 /\ x[1] = v.tag
    <3>1. /\ tag \o rest \in Seq(S) /\ Len(tag \o rest) = Len(tag) + Len(rest)
          /\ \A i \in 1..Len(tag) : (tag \o rest)[i] = tag[i]
      BY <2>7, Elementwise
    <3>2. 1 \in 1..Len(tag) /\ Len(tag) + Len(rest) = v.width + 1
      BY <2>5, <2>6, <2>7
    <3> QED BY <2>7, <2>8, <3>1, <3>2
  <2>10. Tail(x) \in Seq(S) /\ Len(Tail(x)) = v.width
    BY <2>5, <2>9
  <2>11. bytes = Tail(x)
    BY <2>1 DEF FieldBytes
  <2>12. IsSequence(bytes)
    BY <2>10, <2>11, SequencesOf
  <2> HIDE DEF bytes
  <2> QED BY <1>6, <2>4, <2>9, <2>10, <2>11, <2>12 DEF bytes
<1> QED
  <2>1. m.kind \in {"scalar", "struct", "array", "counted", "optional", "union"}
    BY Zenon DEF FieldFits
  <2> QED BY <1>3, <1>4, <1>5, <1>6, <2>1

------------------------------------------------------------------------------
(* A command encoded: from a layout, the fields of its visible members and    *)
(* what they are given.                                                       *)

(* The bytes of a member, as MemberBytes.                                     *)
Piece(members, fields, t, v, p) ==
  LET k == FieldOf(members, p)
      of == members[Visible(members)[k]]
  IN  IF ~Hidden(members, p) THEN FieldBytes(fields[k].type[t], v[k])
      ELSE IF of.kind = "union" THEN LittleEndian(v[k][1], members[p].width)
      ELSE LittleEndian(Len(v[k]), members[p].width)

(* Fields for a layout, which `others` is laid out as.                        *)
Fitted(members, fields, t, others) ==
  /\ Loads(members) /\ Loads(others) /\ SameLayout(members, others)
  /\ Len(fields) = Len(Visible(members))
  /\ \A k \in 1..Len(Visible(members)) :
       FieldFits(members, Visible(members)[k], fields[k].type[t])

(* What new takes.                                                            *)
Taken(members, fields, t, v) ==
  /\ DOMAIN v = 1..Len(Visible(members))
  /\ \A k \in 1..Len(Visible(members)) :
       v[k] \in Inputs(members[Visible(members)[k]], fields[k].type[t])
  /\ \A p \in Kinds(members, "counted") : Len(v[FieldOf(members, p)]) <= members[p].capacity
  /\ \A p \in Kinds(members, "optional") :
       p + 1 \in Kinds(members, "optional") /\ v[FieldOf(members, p + 1)] # <<>>
         => v[FieldOf(members, p)] # <<>>

(* A member that is not hidden has a field of its own, and its bytes are      *)
(* those of that field.                                                       *)
LEMMA VisiblePiece ==
  ASSUME NEW members, NEW fields, NEW t, NEW others, Fitted(members, fields, t, others),
         NEW v, Taken(members, fields, t, v), NEW p \in 1..Len(members), ~Hidden(members, p)
  PROVE  \E k \in 1..Len(Visible(members)) :
           /\ Visible(members)[k] = p /\ FieldOf(members, p) = k
           /\ Piece(members, fields, t, v, p) = FieldBytes(fields[k].type[t], v[k])
           /\ FieldFits(members, p, fields[k].type[t])
           /\ v[k] \in Inputs(members[p], fields[k].type[t])
<1>0. Loads(members)
  BY DEF Fitted
<1>1. PICK k \in 1..Len(Visible(members)) : Visible(members)[k] = p
  BY <1>0, VisibleMembers
<1>2. FieldOf(members, p) = k
  BY <1>0, <1>1, FieldsOf
<1>3. Piece(members, fields, t, v, p) = FieldBytes(fields[k].type[t], v[k])
  BY <1>2, Zenon DEF Piece
<1>4. FieldFits(members, p, fields[k].type[t])
  BY <1>1 DEF Fitted
<1>5. v[k] \in Inputs(members[p], fields[k].type[t])
  BY <1>1 DEF Taken
<1> QED BY <1>1, <1>2, <1>3, <1>4, <1>5

(* A count holds the length of its list, and a selector the tag of its union. *)
LEMMA HiddenPiece ==
  ASSUME NEW members, NEW fields, NEW t, NEW others, Fitted(members, fields, t, others),
         NEW v, Taken(members, fields, t, v), NEW q \in 1..Len(members),
         NEW p \in 1..Len(members), q \in Dependents(members, members[p].name)
  PROVE  LET piece == Piece(members, fields, t, v, p)
             x == v[FieldOf(members, q)]
         IN  /\ members[p].kind = "scalar" /\ members[p].width \in Nat
             /\ IsSequence(piece) /\ Len(piece) = members[p].width
             /\ members[q].kind = "counted" =>
                  Len(x) <= members[q].capacity /\ Number(piece) = Len(x)
             /\ members[q].kind = "union" => Number(piece) = x[1]
<1> DEFINE piece == Piece(members, fields, t, v, p)
           x == v[FieldOf(members, q)]
           w == members[p].width
<1>0. Loads(members)
  BY DEF Fitted
<1>1. /\ members[p].kind = "scalar" /\ Dependents(members, members[p].name) = {q}
      /\ members[q].kind \in {"counted", "union"} /\ Hidden(members, p)
  BY <1>0, DependentsOf DEF Hidden
<1>2. w \in Nat
  BY <1>0, <1>1, LoadedMembers DEF Fields
<1>3. ~Hidden(members, q)
  BY <1>0, <1>1, DependentsOf
<1>4. FieldOf(members, p) = FieldOf(members, q)
  BY <1>0, FieldsOf
<1>5. PICK k \in 1..Len(Visible(members)) :
        /\ Visible(members)[k] = q /\ FieldOf(members, q) = k
        /\ FieldFits(members, q, fields[k].type[t])
        /\ v[k] \in Inputs(members[q], fields[k].type[t])
  BY <1>3, VisiblePiece
<1>6. piece = IF members[q].kind = "union" THEN LittleEndian(x[1], w) ELSE LittleEndian(Len(x), w)
  BY <1>1, <1>4, <1>5, Zenon DEF Piece
<1> DEFINE type == fields[k].type[t]
           Read(n) == n \in Nat /\ n < Power(w) /\ piece = LittleEndian(n, w)
<1>7. Refers(members, q, p)
  BY <1>0, <1>1, DependentsReferTo
<1>8. CASE members[q].kind = "counted"
  <2>1. Len(x) \in Nat
    BY <1>0, <1>5, <1>8, FieldLength
  <2>2. Len(x) <= members[q].capacity
    <3>1. q \in Kinds(members, "counted")
      BY <1>0, <1>8, LoadedMembers DEF Kinds
    <3> QED BY <3>1 DEF Taken
  <2>3. members[q].capacity \in Nat
    BY <1>0, <1>8, LoadedMembers DEF Fields
  <2>4. members[q].capacity < Power(w)
    <3>1. CountFits(members, q)
      BY <1>5, <1>8, Zenon DEF FieldFits
    <3>2. Place(members, members[q].count) = p
      BY <1>7, <1>8 DEF Refers
    <3>3. members[q].capacity < Power(members[Place(members, members[q].count)].width)
      BY <3>1 DEF CountFits, Place
    <3> QED BY <3>2, <3>3
  <2>5. Power(w) \in Nat
    BY <1>2, PowerOf
  <2> DEFINE n == Len(x)
  <2>6. n \in Nat /\ n < Power(w)
    BY <2>1, <2>2, <2>3, <2>4, <2>5
  <2>7. piece = LittleEndian(n, w)
    BY <1>6, <1>8
  <2> HIDE DEF n, w, piece
  <2>8. Number(piece) = n /\ piece \in Seq(Nat)
    BY <1>2, <2>6, <2>7, LittleEndianNumber
  <2>9. Len(piece) = w
    BY <1>2, <2>7, LittleEndianLength
  <2>10. IsSequence(piece)
    BY <2>8, SequencesOf
  <2> QED BY <1>1, <1>2, <1>8, <2>2, <2>8, <2>9, <2>10 DEF n, w, piece
<1>9. CASE members[q].kind = "union"
  <2>0. FieldFits(members, q, type) /\ x \in Inputs(members[q], type)
    BY <1>5
  <2> HIDE DEF type, x
  <2>1. PICK j \in DOMAIN type.variants :
          x[1] = type.variants[j].tag /\ Len(FieldBytes(type, x)) = type.variants[j].width
    BY <1>0, <1>9, <2>0, FieldLength
  <2> USE DEF type, x
  <2>2. members[q].variants \in Seq(Variants)
    BY <1>0, <1>9, LoadedMembers DEF Fields
  <2>3. /\ type.variants \in Seq([tag : Nat, width : Nat])
        /\ UnionMatches(type, members[q].variants, w)
    <3>1. /\ type.shape = "union" /\ Encodes(type)
          /\ UnionMatches(type, members[q].variants, members[Place(members, members[q].selector)].width)
      BY <1>5, <1>9, Zenon DEF FieldFits
    <3>2. Place(members, members[q].selector) = p
      BY <1>7, <1>9 DEF Refers
    <3>3. type.variants \in Seq([tag : Nat, width : Nat])
      BY <3>1 DEF Encodes
    <3> QED BY <3>1, <3>2, <3>3
  <2> DEFINE n == x[1]
             u == type.variants[j]
  <2>4. u.tag \in Nat /\ u.tag \in Whole(w)
    <3> HIDE DEF w, type
    <3> QED BY <2>2, <2>3, UnionVariant
  <2>5. Power(w) \in Nat
    BY <1>2, PowerOf
  <2>6. n \in Nat /\ n < Power(w)
    BY <2>1, <2>4, <2>5 DEF Whole
  <2>7. piece = LittleEndian(n, w)
    BY <1>6, <1>9
  <2> HIDE DEF n, w, piece
  <2>8. Number(piece) = n /\ piece \in Seq(Nat)
    BY <1>2, <2>6, <2>7, LittleEndianNumber
  <2>9. Len(piece) = w
    BY <1>2, <2>7, LittleEndianLength
  <2>10. IsSequence(piece)
    BY <2>8, SequencesOf
  <2> QED BY <1>1, <1>2, <1>9, <2>8, <2>9, <2>10 DEF n, w, piece
<1> QED BY <1>1, <1>8, <1>9

(* The bytes of every member, hidden or not, are a sequence.                  *)
LEMMA PieceSequence ==
  ASSUME NEW members, NEW fields, NEW t, NEW others, Fitted(members, fields, t, others),
         NEW v, Taken(members, fields, t, v), NEW p \in 1..Len(members)
  PROVE  IsSequence(Piece(members, fields, t, v, p))
<1>0. Loads(members)
  BY DEF Fitted
<1>1. CASE Hidden(members, p)
  <2>1. PICK q : q \in Dependents(members, members[p].name)
    BY <1>1, Zenon DEF Hidden
  <2>2. q \in 1..Len(members)
    BY <1>0, <2>1, DependentsOf
  <2> QED BY <2>1, <2>2, HiddenPiece
<1>2. CASE ~Hidden(members, p)
  <2>1. PICK k \in 1..Len(Visible(members)) :
          /\ Piece(members, fields, t, v, p) = FieldBytes(fields[k].type[t], v[k])
          /\ FieldFits(members, p, fields[k].type[t])
          /\ v[k] \in Inputs(members[p], fields[k].type[t])
    BY <1>2, VisiblePiece
  <2>2. IsSequence(FieldBytes(fields[k].type[t], v[k]))
    BY <1>0, <2>1, FieldLength
  <2> QED BY <2>1, <2>2
<1> QED BY <1>1, <1>2

(* The widths of the members, as they are written.                            *)
Widths(members, fields, t, v) ==
  [p \in 1..Len(members) |-> Len(Piece(members, fields, t, v, p))]

(* The widths and where each member ends.                                     *)
LEMMA WidthsAre ==
  ASSUME NEW members, NEW fields, NEW t, NEW others, Fitted(members, fields, t, others),
         NEW v, Taken(members, fields, t, v)
  PROVE  LET w == Widths(members, fields, t, v)
         IN  /\ w \in Seq(Nat) /\ Len(w) = Len(members) /\ Len(members) \in Nat
             /\ \A p \in 1..Len(members) : w[p] = Len(Piece(members, fields, t, v, p))
             /\ Sums(w)[0] = 0
             /\ \A n \in 0..Len(members) : Sums(w)[n] \in Nat
             /\ \A n \in 1..Len(members) : Sums(w)[n] = Sums(w)[n - 1] + w[n]
<1> DEFINE w == Widths(members, fields, t, v)
           n == Len(members)
<1>1. n \in Nat
  BY LoadedMembers DEF Fitted
<1>2. \A p \in 1..n : Len(Piece(members, fields, t, v, p)) \in Nat
  BY PieceSequence DEF IsSequence
<1>3. w \in [1..n -> Nat] /\ \A p \in 1..n : w[p] = Len(Piece(members, fields, t, v, p))
  BY <1>2 DEF Widths
<1> HIDE DEF w, n
<1>4. w \in Seq(Nat) /\ Len(w) = n
  BY <1>1, <1>3
<1>5. /\ Sums(w)[0] = 0 /\ \A i \in 1..Len(w) : Sums(w)[i] = Sums(w)[i - 1] + w[i]
      /\ \A i \in 0..Len(w) : Sums(w)[i] \in Nat
  <2>1. Len(w) \in Nat
    BY <1>1, <1>4
  <2>2. /\ Sums(w)[0] = 0 /\ \A i \in 1..Len(w) : Sums(w)[i] = Sums(w)[i - 1] + w[i]
    BY <2>1, SumsRecursion
  <2>3. \A i \in 0..Len(w) : Sums(w)[i] \in Nat
    BY <1>4, SumsGrow
  <2> QED BY <2>2, <2>3
<1> QED BY <1>1, <1>3, <1>4, <1>5 DEF w, n

(* The first n members written, one behind the other.                         *)
Written(members, fields, t, v, n, bytes) ==
  LET ends == Sums(Widths(members, fields, t, v))
  IN  /\ IsSequence(bytes) /\ Len(bytes) = ends[n]
      /\ \A p \in 1..n : SubSeq(bytes, ends[p - 1] + 1, ends[p]) = Piece(members, fields, t, v, p)

(* The bytes of one more member after what is written is one more member      *)
(* written.                                                                   *)
LEMMA WriteNext ==
  ASSUME NEW members, NEW fields, NEW t, NEW others, Fitted(members, fields, t, others),
         NEW v, Taken(members, fields, t, v)
  PROVE  /\ Written(members, fields, t, v, 0, <<>>)
         /\ \A n \in Nat : \A bytes : n < Len(members) /\ Written(members, fields, t, v, n, bytes) =>
              Written(members, fields, t, v, n + 1, bytes \o Piece(members, fields, t, v, n + 1))
<1> DEFINE w == Widths(members, fields, t, v)
           ends == Sums(w)
           piece(p) == Piece(members, fields, t, v, p)
           l == Len(members)
<1>1. /\ l \in Nat /\ \A p \in 1..l : w[p] = Len(piece(p))
      /\ ends[0] = 0 /\ (\A n \in 0..l : ends[n] \in Nat)
      /\ \A n \in 1..l : ends[n] = ends[n - 1] + w[n]
  BY WidthsAre
<1>2. \A p \in 1..l : IsSequence(piece(p))
  BY PieceSequence
<1>3. \A n, bytes : Written(members, fields, t, v, n, bytes) <=>
        /\ IsSequence(bytes) /\ Len(bytes) = ends[n]
        /\ \A p \in 1..n : SubSeq(bytes, ends[p - 1] + 1, ends[p]) = piece(p)
  BY DEF Written
<1> HIDE DEF ends, w, piece, l
<1>4. Written(members, fields, t, v, 0, <<>>)
  <2>1. <<>> \in Seq({}) /\ Len(<<>>) = 0 /\ 1..0 = {}
    OBVIOUS
  <2>2. IsSequence(<<>>)
    BY <2>1, SequencesOf
  <2> QED BY <1>1, <1>3, <2>1, <2>2
<1>5. ASSUME NEW n \in Nat, NEW bytes, n < l, Written(members, fields, t, v, n, bytes)
      PROVE  Written(members, fields, t, v, n + 1, bytes \o piece(n + 1))
  <2> DEFINE next == piece(n + 1)
             all == bytes \o next
             S == Range(bytes) \cup Range(next)
  <2>1. n + 1 \in 1..l /\ n \in 0..l /\ n + 1 - 1 = n
    BY <1>1, <1>5
  <2>2. IsSequence(bytes) /\ Len(bytes) = ends[n] /\ IsSequence(next)
    BY <1>2, <1>3, <1>5, <2>1
  <2>3. ends[n + 1] = ends[n] + Len(next)
    BY <1>1, <2>1
  <2> HIDE DEF next
  <2>4. bytes \in Seq(S) /\ next \in Seq(S)
    <3>1. Range(bytes) \subseteq S /\ Range(next) \subseteq S
      OBVIOUS
    <3> HIDE DEF S
    <3> QED BY <2>2, <3>1, SequencesOf
  <2> HIDE DEF S
  <2>5. /\ all \in Seq(S) /\ Len(all) = Len(bytes) + Len(next)
        /\ SubSeq(all, Len(bytes) + 1, Len(bytes) + Len(next)) = next
        /\ \A a, b \in Nat : a <= b /\ b <= Len(bytes) => SubSeq(all, a + 1, b) = SubSeq(bytes, a + 1, b)
    BY <2>4, EndToEnd
  <2> HIDE DEF all
  <2>6. ASSUME NEW p \in 1..n PROVE SubSeq(all, ends[p - 1] + 1, ends[p]) = piece(p)
    <3>1. p \in 1..l /\ p - 1 \in 0..l /\ p \in 0..l
      BY <1>1, <2>1
    <3>2. ends[p - 1] \in Nat /\ ends[p] \in Nat /\ ends[p - 1] <= ends[p]
      <4>1. w[p] \in Nat
        BY <1>1, <1>2, <3>1 DEF IsSequence
      <4> QED BY <1>1, <3>1, <4>1
    <3>3. ends[p] <= ends[n]
      <4> DEFINE N == {d \in Nat : p + d <= n => ends[p] <= ends[p + d]}
      <4>1. 0 \in N
        BY <3>2
      <4>2. ASSUME NEW d \in Nat, d \in N PROVE d + 1 \in N
        <5>1. ASSUME p + (d + 1) <= n PROVE ends[p] <= ends[p + (d + 1)]
          <6>1. p + (d + 1) \in 1..l /\ p + (d + 1) - 1 = p + d /\ p + d \in 0..l /\ p + (d + 1) \in 0..l
            BY <1>1, <2>1, <5>1
          <6>2. w[p + (d + 1)] \in Nat
            BY <1>1, <1>2, <6>1 DEF IsSequence
          <6>3. ends[p + (d + 1)] = ends[p + d] + w[p + (d + 1)]
            BY <1>1, <6>1
          <6>4. ends[p] <= ends[p + d]
            BY <4>2, <5>1
          <6>5. ends[p + d] \in Nat
            BY <1>1, <6>1
          <6> QED BY <3>2, <6>2, <6>3, <6>4, <6>5
        <5> QED BY <5>1
      <4>3. Nat \subseteq N
        <5> HIDE DEF N
        <5> QED BY <4>1, <4>2, SetInduction
      <4>4. n - p \in Nat /\ p + (n - p) = n
        OBVIOUS
      <4>5. n - p \in N
        <5> HIDE DEF N
        <5> QED BY <4>3, <4>4
      <4> QED BY <4>4, <4>5
    <3>4. SubSeq(bytes, ends[p - 1] + 1, ends[p]) = piece(p)
      BY <1>3, <1>5
    <3>5. SubSeq(all, ends[p - 1] + 1, ends[p]) = SubSeq(bytes, ends[p - 1] + 1, ends[p])
      BY <2>2, <2>5, <3>2, <3>3
    <3> QED BY <3>4, <3>5
  <2>7. SubSeq(all, ends[n + 1 - 1] + 1, ends[n + 1]) = next
    BY <2>1, <2>2, <2>3, <2>5
  <2>8. \A p \in 1..(n + 1) : SubSeq(all, ends[p - 1] + 1, ends[p]) = piece(p)
    <3> SUFFICES ASSUME NEW p \in 1..(n + 1)
                 PROVE  SubSeq(all, ends[p - 1] + 1, ends[p]) = piece(p)
      OBVIOUS
    <3>1. CASE p = n + 1
      BY <2>7, <3>1 DEF next
    <3>2. CASE p # n + 1
      BY <2>6, <3>2
    <3> QED BY <3>1, <3>2
  <2>9. IsSequence(all) /\ Len(all) = ends[n + 1]
    BY <2>2, <2>3, <2>5, SequencesOf
  <2> QED BY <1>3, <2>8, <2>9 DEF all, next
<1> QED BY <1>4, <1>5 DEF l, piece

(* What Divides says of one member, its count or selector by its position.    *)
Divided(members, cut, bytes, p) ==
  LET m == members[p]
      Of(name) == Number(Field(bytes, cut, Place(members, name)))
      width(i) == cut[i] - cut[i - 1]
  IN  /\ m.kind \in {"scalar", "struct", "array"} => width(p) = MaxWidth(m)
      /\ m.kind = "counted" =>
           /\ Of(m.count) \in 0..m.capacity
           /\ width(p) = Of(m.count) * ElementWidth(m.element)
      /\ m.kind = "union" =>
           \E k \in DOMAIN m.variants :
             /\ m.variants[k].width = width(p)
             /\ \/ m.variants[k].tag = Of(m.selector)
                \/ /\ m.variants[k].tag = Other
                   /\ \A l \in DOMAIN m.variants : m.variants[l].tag # Of(m.selector)
      /\ m.kind # "sets"
      /\ m.kind = "optional" =>
           /\ width(p) \in {0, m.width}
           /\ p > 1 /\ members[p - 1].kind = "optional" /\ width(p - 1) = 0 => width(p) = 0

(* Bytes divided between all the members, one behind the other, are divided   *)
(* as the layout says.                                                        *)
LEMMA DividedAll ==
  ASSUME NEW members, DOMAIN members = 1..Len(members), NEW cut, NEW bytes,
         cut[0] = 0, cut[Len(members)] = Len(bytes),
         \A p \in 1..Len(members) : cut[p - 1] <= cut[p] /\ Divided(members, cut, bytes, p)
  PROVE  Divides(cut, members, bytes)
BY DEF Divides, Divided, Place

(* The member at the position of a count or selector.                         *)
LEMMA ReferredPlace ==
  ASSUME NEW members, Loads(members), NEW p \in 1..Len(members), NEW name,
         \/ members[p].kind = "counted" /\ members[p].count = name
         \/ members[p].kind = "union" /\ members[p].selector = name
  PROVE  /\ Place(members, name) \in 1..Len(members)
         /\ p \in Dependents(members, members[Place(members, name)].name)
<1>1. PICK r : Named(members, name, r)
  BY Referred
<1>2. Place(members, name) = r
  BY <1>1, PlaceOf
<1>3. r \in 1..Len(members) /\ members[r].name = name
  BY <1>1 DEF Named
<1>4. p \in DOMAIN members
  BY LoadedMembers
<1> QED BY <1>2, <1>3, <1>4 DEF Dependents

(* All members written are laid out as both layouts say, each field in the    *)
(* place of its member.                                                       *)
LEMMA WrittenDivides ==
  ASSUME NEW members, NEW fields, NEW t, NEW others, Fitted(members, fields, t, others),
         NEW v, Taken(members, fields, t, v),
         NEW bytes, Written(members, fields, t, v, Len(members), bytes),
         NEW cut, \A n \in 0..Len(members) : cut[n] = Sums(Widths(members, fields, t, v))[n]
  PROVE  /\ Divides(cut, others, bytes)
         /\ \A k \in 1..Len(Visible(others)) :
              Field(bytes, cut, Visible(others)[k]) = FieldBytes(fields[k].type[t], v[k])
<1> DEFINE w == Widths(members, fields, t, v)
           l == Len(members)
           piece(p) == Piece(members, fields, t, v, p)
<1>0. Loads(members) /\ Loads(others) /\ SameLayout(members, others)
  BY DEF Fitted
<1>1. /\ l \in Nat /\ w \in Seq(Nat) /\ Len(w) = l
      /\ \A p \in 1..l : w[p] = Len(piece(p))
      /\ cut[0] = 0 /\ (\A n \in 0..l : cut[n] \in Nat)
      /\ \A n \in 1..l : cut[n] = cut[n - 1] + w[n]
  <2>1. /\ l \in Nat /\ w \in Seq(Nat) /\ Len(w) = l
        /\ \A p \in 1..l : w[p] = Len(piece(p))
        /\ Sums(w)[0] = 0 /\ (\A n \in 0..l : Sums(w)[n] \in Nat)
        /\ \A n \in 1..l : Sums(w)[n] = Sums(w)[n - 1] + w[n]
    BY WidthsAre
  <2>2. \A n \in 0..l : cut[n] = Sums(w)[n]
    OBVIOUS
  <2> HIDE DEF w, l, piece
  <2>3. \A n \in 1..l : n \in 0..l /\ n - 1 \in 0..l
    BY <2>1
  <2>4. 0 \in 0..l
    BY <2>1
  <2> QED BY <2>1, <2>2, <2>3, <2>4
<1>2. Len(bytes) = cut[l] /\ \A p \in 1..l : Field(bytes, cut, p) = piece(p)
  <2>1. /\ Len(bytes) = Sums(w)[l]
        /\ \A p \in 1..l : SubSeq(bytes, Sums(w)[p - 1] + 1, Sums(w)[p]) = piece(p)
    BY DEF Written
  <2>2. \A n \in 0..l : cut[n] = Sums(w)[n]
    OBVIOUS
  <2> HIDE DEF w, piece, l
  <2>3. l \in 0..l /\ \A n \in 1..l : n \in 0..l /\ n - 1 \in 0..l
    BY <1>1
  <2> QED BY <2>1, <2>2, <2>3 DEF Field
<1>3. ASSUME NEW p \in 1..l
      PROVE  cut[p] - cut[p - 1] = Len(piece(p)) /\ cut[p - 1] <= cut[p] /\ Len(piece(p)) \in Nat
  <2>1. p \in 0..l /\ p - 1 \in 0..l
    BY <1>1
  <2>2. w[p] \in Nat
    <3> HIDE DEF w
    <3> QED BY <1>1
  <2>3. cut[p] \in Nat /\ cut[p - 1] \in Nat /\ cut[p] = cut[p - 1] + w[p]
    <3> HIDE DEF w, piece
    <3> QED BY <1>1, <2>1
  <2>4. w[p] = Len(piece(p))
    BY <1>1
  <2> HIDE DEF w, piece
  <2> QED BY <2>2, <2>3, <2>4
<1>4. /\ Len(others) = l
      /\ \A p \in 1..l :
           /\ members[p].kind = others[p].kind
           /\ members[p].kind \in {"scalar", "optional"} => members[p].width = others[p].width
           /\ members[p].kind \in {"scalar", "struct", "array"} =>
                MaxWidth(members[p]) = MaxWidth(others[p])
           /\ members[p].kind = "counted" =>
                /\ members[p].element = others[p].element
                /\ members[p].capacity = others[p].capacity
                /\ Place(members, members[p].count) = Place(others, others[p].count)
           /\ members[p].kind = "union" =>
                /\ members[p].variants = others[p].variants
                /\ Place(members, members[p].selector) = Place(others, others[p].selector)
  BY <1>0, AlikeMembers
<1>5. ASSUME NEW p \in 1..l, ~Hidden(members, p)
      PROVE  \E k \in 1..Len(Visible(members)) :
               /\ FieldOf(members, p) = k
               /\ piece(p) = FieldBytes(fields[k].type[t], v[k])
               /\ FieldFits(members, p, fields[k].type[t])
               /\ v[k] \in Inputs(members[p], fields[k].type[t])
  BY <1>5, VisiblePiece
<1>6. ASSUME NEW p \in 1..l PROVE Divided(others, cut, bytes, p)
  <2> DEFINE m == members[p]
             o == others[p]
             width(i) == cut[i] - cut[i - 1]
             Of(name) == Number(Field(bytes, cut, Place(others, name)))
  <2>1. width(p) = Len(piece(p)) /\ m.kind = o.kind
    BY <1>3, <1>4
  <2>2. ASSUME Hidden(members, p) PROVE o.kind = "scalar" /\ width(p) = MaxWidth(o)
    <3>1. PICK q : q \in Dependents(members, members[p].name)
      BY <2>2, Zenon DEF Hidden
    <3>2. q \in 1..Len(members)
      BY <1>0, <3>1, DependentsOf
    <3>3. m.kind = "scalar" /\ Len(piece(p)) = m.width
      BY <3>1, <3>2, HiddenPiece
    <3>4. MaxWidth(m) = m.width
      BY <3>3 DEF MaxWidth
    <3> QED BY <1>4, <2>1, <3>3, <3>4
  <2>3. CASE Hidden(members, p)
    BY <2>2, <2>3 DEF Divided
  <2>4. CASE ~Hidden(members, p)
    <3>1. PICK k \in 1..Len(Visible(members)) :
            /\ FieldOf(members, p) = k
            /\ piece(p) = FieldBytes(fields[k].type[t], v[k])
            /\ FieldFits(members, p, fields[k].type[t])
            /\ v[k] \in Inputs(members[p], fields[k].type[t])
      BY <1>5, <2>4
    <3> DEFINE type == fields[k].type[t]
               x == v[k]
    <3>0. FieldFits(members, p, type) /\ x \in Inputs(m, type) /\ piece(p) = FieldBytes(type, x)
      BY <3>1
    <3> HIDE DEF type, x, piece
    <3>2. /\ m.kind \in {"scalar", "struct", "array"} => Len(piece(p)) = MaxWidth(m)
          /\ m.kind = "counted" =>
               /\ Len(x) \in Nat /\ ElementWidth(m.element) \in Nat
               /\ Len(piece(p)) = Len(x) * ElementWidth(m.element)
          /\ m.kind = "optional" =>
               /\ m.width \in Nat \ {0}
               /\ Len(piece(p)) = IF x = <<>> THEN 0 ELSE m.width
          /\ m.kind = "union" =>
               \E j \in DOMAIN type.variants :
                 x[1] = type.variants[j].tag /\ Len(piece(p)) = type.variants[j].width
      BY <1>0, <3>0, FieldLength
    <3> USE DEF type, x, piece
    <3>3. m.kind \in {"scalar", "struct", "array", "counted", "optional", "union"}
      BY <3>1, Zenon DEF FieldFits
    <3>4. CASE m.kind \in {"scalar", "struct", "array"}
      <4>1. width(p) = MaxWidth(o)
        BY <1>4, <2>1, <3>2, <3>4
      <4> QED BY <2>1, <3>4, <4>1 DEF Divided
    <3>5. CASE m.kind = "counted"
      <4> DEFINE c == Place(members, m.count)
      <4>1. c \in 1..l /\ p \in Dependents(members, members[c].name)
        BY <1>0, <3>5, ReferredPlace
      <4>2. Len(x) <= m.capacity /\ Number(piece(c)) = Len(x)
        BY <3>1, <3>5, <4>1, HiddenPiece
      <4>3. c = Place(others, o.count) /\ m.element = o.element /\ m.capacity = o.capacity
        BY <1>4, <3>5
      <4>4. Of(o.count) = Len(x)
        BY <1>2, <4>1, <4>2, <4>3
      <4>5. m.capacity \in Nat
        BY <1>0, <3>5, LoadedMembers DEF Fields
      <4>6. Of(o.count) \in 0..o.capacity /\ width(p) = Of(o.count) * ElementWidth(o.element)
        <5> HIDE DEF Of, width
        <5> QED BY <2>1, <3>2, <3>5, <4>2, <4>3, <4>4, <4>5
      <4> QED BY <2>1, <3>5, <4>6 DEF Divided
    <3>6. CASE m.kind = "union"
      <4> DEFINE c == Place(members, m.selector)
      <4>1. c \in 1..l /\ p \in Dependents(members, members[c].name)
        BY <1>0, <3>6, ReferredPlace
      <4>2. Number(piece(c)) = x[1]
        BY <3>1, <3>6, <4>1, HiddenPiece
      <4>3. c = Place(others, o.selector) /\ m.variants = o.variants
        BY <1>4, <3>6
      <4>4. Of(o.selector) = x[1]
        BY <1>2, <4>1, <4>2, <4>3
      <4>5. PICK j \in DOMAIN type.variants :
              x[1] = type.variants[j].tag /\ Len(piece(p)) = type.variants[j].width
        BY <3>2, <3>6
      <4>6. m.variants \in Seq(Variants)
        BY <1>0, <3>6, LoadedMembers DEF Fields
      <4>7. /\ type.variants \in Seq([tag : Nat, width : Nat])
            /\ UnionMatches(type, m.variants, members[c].width)
        <5>1. /\ type.shape = "union" /\ Encodes(type)
              /\ UnionMatches(type, m.variants, members[Place(members, m.selector)].width)
          BY <3>1, <3>6, Zenon DEF FieldFits
        <5>2. type.variants \in Seq([tag : Nat, width : Nat])
          BY <5>1 DEF Encodes
        <5> QED BY <5>1, <5>2
      <4>8. \E i \in DOMAIN m.variants :
              /\ m.variants[i].width = type.variants[j].width
              /\ \/ m.variants[i].tag = type.variants[j].tag
                 \/ /\ m.variants[i].tag = Other
                    /\ \A h \in DOMAIN m.variants : m.variants[h].tag # type.variants[j].tag
        <5> DEFINE s == members[c].width
                   u == m.variants
        <5> HIDE DEF s, type, u
        <5>1. u \in Seq(Variants) /\ UnionMatches(type, u, s)
          BY <4>6, <4>7 DEF s, u
        <5>2. \E i \in DOMAIN u :
              /\ u[i].width = type.variants[j].width
              /\ \/ u[i].tag = type.variants[j].tag
                 \/ /\ u[i].tag = Other
                    /\ \A h \in DOMAIN u : u[h].tag # type.variants[j].tag
          BY <4>7, <5>1, UnionVariant
        <5> QED BY <5>2 DEF u
      <4>9. \E i \in DOMAIN o.variants :
              /\ o.variants[i].width = width(p)
              /\ \/ o.variants[i].tag = Of(o.selector)
                 \/ /\ o.variants[i].tag = Other
                    /\ \A h \in DOMAIN o.variants : o.variants[h].tag # Of(o.selector)
        <5> HIDE DEF Of, width, type
        <5> QED BY <2>1, <4>3, <4>4, <4>5, <4>8
      <4> QED BY <2>1, <3>6, <4>9 DEF Divided
    <3>7. CASE m.kind = "optional"
      <4>1. o.width = m.width /\ width(p) \in {0, o.width}
        BY <1>4, <2>1, <3>2, <3>7
      <4>2. ASSUME p > 1, others[p - 1].kind = "optional", width(p - 1) = 0 PROVE width(p) = 0
        <5> DEFINE r == p - 1
        <5>1. r \in 1..l /\ r + 1 = p
          BY <1>1, <4>2
        <5>2. members[r].kind = "optional"
          BY <1>4, <4>2, <5>1
        <5>3. ~Hidden(members, r)
          BY <1>0, <5>1, <5>2, DependentsOf
        <5>4. PICK h \in 1..Len(Visible(members)) :
                /\ FieldOf(members, r) = h
                /\ piece(r) = FieldBytes(fields[h].type[t], v[h])
                /\ FieldFits(members, r, fields[h].type[t])
                /\ v[h] \in Inputs(members[r], fields[h].type[t])
          BY <1>5, <5>1, <5>3
        <5>5. /\ members[r].width \in Nat \ {0}
              /\ Len(piece(r)) = IF v[h] = <<>> THEN 0 ELSE members[r].width
          BY <1>0, <5>1, <5>2, <5>4, FieldLength
        <5>6. width(r) = Len(piece(r))
          BY <1>3, <5>1
        <5>7. v[h] = <<>>
          BY <4>2, <5>5, <5>6
        <5>8. r \in Kinds(members, "optional") /\ p \in Kinds(members, "optional")
          <6>1. DOMAIN members = 1..l
            BY <1>0, LoadedMembers
          <6> QED BY <3>7, <5>1, <5>2, <6>1 DEF Kinds
        <5>9. v[FieldOf(members, p)] = <<>>
          <6>1. \A i \in Kinds(members, "optional") :
                  i + 1 \in Kinds(members, "optional") /\ v[FieldOf(members, i + 1)] # <<>>
                    => v[FieldOf(members, i)] # <<>>
            BY DEF Taken
          <6> HIDE DEF r
          <6> QED BY <5>1, <5>4, <5>7, <5>8, <6>1
        <5>10. x = <<>>
          BY <3>1, <5>9
        <5> QED BY <2>1, <3>2, <3>7, <5>10
      <4> QED BY <2>1, <3>7, <4>1, <4>2 DEF Divided
    <3> QED BY <3>3, <3>4, <3>5, <3>6, <3>7
  <2> QED BY <2>3, <2>4
<1>7. Divides(cut, others, bytes)
  <2>1. \A p \in 1..Len(others) : cut[p - 1] <= cut[p] /\ Divided(others, cut, bytes, p)
    BY <1>3, <1>4, <1>6
  <2>2. cut[0] = 0 /\ cut[Len(others)] = Len(bytes)
    BY <1>1, <1>2, <1>4
  <2> QED BY <1>0, <2>1, <2>2, DividedAll
<1>8. ASSUME NEW k \in 1..Len(Visible(others))
      PROVE  Field(bytes, cut, Visible(others)[k]) = FieldBytes(fields[k].type[t], v[k])
  <2>1. Visible(others) = Visible(members)
    BY <1>0, AlikeDependents
  <2> DEFINE p == Visible(members)[k]
  <2>2. p \in 1..l /\ ~Hidden(members, p)
    BY <1>0, <2>1, VisibleMembers
  <2>3. FieldOf(members, p) = k
    BY <1>0, <2>1, <2>2, FieldsOf
  <2>4. Field(bytes, cut, p) = piece(p)
    BY <1>2, <2>2
  <2>5. piece(p) = FieldBytes(fields[k].type[t], v[k])
    BY <2>2, <2>3, Zenon DEF Piece
  <2> QED BY <2>1, <2>4, <2>5
<1> QED BY <1>7, <1>8

------------------------------------------------------------------------------
(* The variant built.                                                         *)

(* The facts of a variant are those of one of its segments.                   *)
LEMMA LatestIn ==
  ASSUME IsDeclared, NEW variant \in Compiled
  PROVE  \E s \in variant : Latest(variant) = Facts(s)
<1> DEFINE Lasts == {s.last : s \in variant}
           n == Cardinality(Releases)
           Greatest(s) == s \in variant /\ \A r \in variant : r.last <= s.last
<1>1. variant \subseteq Segments
  BY VariantsPartition
<1>2. variant # {}
  BY DEF Compiled
<1>3. n \in Nat /\ Releases = 1..n /\ \A s \in variant : s.last \in 1..n
  BY <1>1, ReleaseAssumption, CountOfReleases, SegmentFacts
<1> HIDE DEF n
<1>4. Lasts \in SUBSET Nat /\ Lasts # {} /\ \A m \in Lasts : m <= n
  BY <1>2, <1>3
<1>5. PICK l \in Lasts : \A m \in Lasts : m <= l
  <2> HIDE DEF Lasts
  <2> QED BY <1>3, <1>4, GreatestNatural
<1>6. PICK s \in variant : l = s.last
  OBVIOUS
<1>7. Greatest(s)
  BY <1>5, <1>6
<1> DEFINE c == CHOOSE r \in variant : \A q \in variant : q.last <= r.last
<1>8. Greatest(c)
  BY <1>7
<1>9. Latest(variant) = Facts(c)
  BY DEF Latest
<1> HIDE DEF c
<1> QED BY <1>8, <1>9

(* What TypeAssumption says of a field.                                       *)
Typed(f, t) ==
  /\ Encodes(f.type[t])
  /\ \A u \in Targets :
       /\ f.type[t].shape = f.type[u].shape
       /\ f.type[t].shape = "bounded" => f.type[t].capacity = f.type[u].capacity

(* The fields a segment has are declared ones.                                *)
LEMMA FieldsDeclared ==
  ASSUME declared \in Declarations, NEW listed \in {declared.params, declared.returns},
         NEW s, NEW t \in Targets
  PROVE  /\ Len(FieldsIn(listed, s)) \in Nat
         /\ DOMAIN FieldsIn(listed, s) = 1..Len(FieldsIn(listed, s))
         /\ \A k \in 1..Len(FieldsIn(listed, s)) :
              /\ Typed(FieldsIn(listed, s)[k], t)
              /\ \E i \in DOMAIN listed : FieldsIn(listed, s)[k] = listed[i]
<1> DEFINE R == Range(listed)
           chosen == {i \in DOMAIN listed : ExistsIn(listed[i], s)}
           fields == FieldsIn(listed, s)
<1>1. listed \in Seq(R)
  BY TypeAssumption
<1>2. \A f \in R : \E i \in DOMAIN listed : f = listed[i]
  BY DEF Range
<1> HIDE DEF R
<1>3. chosen \in SUBSET (1..Len(listed))
  BY <1>1
<1>4. fields = Select(listed, chosen)
  BY DEF FieldsIn
<1> HIDE DEF chosen, fields
<1>5. fields \in Seq(R)
  BY <1>1, <1>3, <1>4, SelectElements
<1>6. Len(fields) \in Nat /\ DOMAIN fields = 1..Len(fields) /\ \A k \in 1..Len(fields) : fields[k] \in R
  BY <1>5
<1>7. ASSUME NEW k \in 1..Len(fields)
      PROVE  Typed(fields[k], t) /\ \E i \in DOMAIN listed : fields[k] = listed[i]
  <2>1. PICK i \in DOMAIN listed : fields[k] = listed[i]
    BY <1>2, <1>6
  <2>2. ASSUME NEW u \in Targets
        PROVE  /\ listed[i].type[t].shape = listed[i].type[u].shape
               /\ listed[i].type[t].shape = "bounded" =>
                    listed[i].type[t].capacity = listed[i].type[u].capacity
    BY TypeAssumption
  <2>3. Encodes(listed[i].type[t])
    BY TypeAssumption
  <2>4. Typed(listed[i], t)
    BY <2>2, <2>3 DEF Typed
  <2> QED BY <2>1, <2>4
<1> QED BY <1>6, <1>7 DEF fields

(* What the macro has checked of every variant.                               *)
Expanded == Resolvable /\ \A variant \in Compiled : Expandable(variant)

(* The plan of a variant and the widths it asserts on a target make its       *)
(* fields fit the layout of the release built for.                            *)
LEMMA BuiltFits ==
  ASSUME declared \in Declarations, Expanded, NEW variant \in Compiled, NEW t \in Targets,
         Enabled(On(variant), t), Asserted(variant, t)
  PROVE  Fitted(Latest(variant).params, FieldsIn(declared.params, CHOOSE s \in variant : TRUE),
                t, Entry(t[1]).params)
<1>0. PICK c : c = CHOOSE s \in variant : TRUE
  OBVIOUS
<1> DEFINE members == Latest(variant).params
           fields == FieldsIn(declared.params, c)
           others == Entry(t[1]).params
<1>1. IsDeclared
  BY DeclarationAssumption DEF IsDeclared
<1>2. variant \subseteq Segments
  BY VariantsPartition
<1>3. PICK s \in variant : t[1] \in s.first..s.last
  BY <1>1, <1>2, EnabledWhere
<1>4. Entry(t[1]) = Facts(s)
  BY <1>1, <1>2, <1>3, SegmentFacts
<1>5. PICK r \in variant : Latest(variant) = Facts(r)
  BY <1>1, LatestIn
<1>6. \A q \in variant : Loads(Facts(q).params)
  <2> SUFFICES ASSUME NEW q \in variant PROVE Loads(Facts(q).params)
    OBVIOUS
  <2>1. q.first \in Releases /\ Facts(q) # None
    BY <1>1, <1>2, SegmentFacts
  <2>2. Facts(q) = Histories[declared.c_name].entries[q.first]
    BY DEF Facts, Entry, history
  <2> QED BY <1>1, <2>1, <2>2, EntryAssumption DEF IsDeclared
<1>7. SameLayout(members, others)
  <2>1. SameWire(Facts(r), Facts(s))
    BY DEF Expanded, Resolvable
  <2> QED BY <1>4, <1>5, <2>1 DEF SameWire
<1>8. /\ Len(fields) \in Nat /\ DOMAIN fields = 1..Len(fields)
      /\ \A k \in 1..Len(fields) : Typed(fields[k], t)
  BY FieldsDeclared
<1>9. Side(Latest(variant), "params") = members
  BY DEF Side
<1> DEFINE one == CHOOSE u \in Targets : TRUE
<1>10. /\ Len(fields) = Len(Visible(members))
       /\ \A k \in DOMAIN fields : Shaped(members, Visible(members)[k], fields[k].type[one], "params")
  <2>1. Planned(fields, variant, "params")
    <3>1. Expandable(variant)
      BY DEF Expanded
    <3> QED BY <1>0, <3>1, Zenon DEF Expandable
  <2> HIDE DEF fields, members
  <2> QED BY <1>9, <2>1, Zenon DEF Planned
<1>11. WidthsAssert(fields, variant, "params", t)
  <2>1. "params" \in {"params", "returns"}
    OBVIOUS
  <2> DEFINE side == "params"
  <2>2. WidthsAssert(FieldsIn(IF side = "params" THEN declared.params ELSE declared.returns, c),
                     variant, side, t)
    <3> HIDE DEF side
    <3>1. side \in {"params", "returns"}
      BY <2>1 DEF side
    <3> QED BY <1>0, <3>1, Zenon DEF Asserted
  <2> QED BY <2>2
<1>12. one \in Targets
  OBVIOUS
<1> HIDE DEF fields, members, others, one
<1>13. ASSUME NEW k \in 1..Len(Visible(members))
       PROVE  FieldFits(members, Visible(members)[k], fields[k].type[t])
  <2> DEFINE p == Visible(members)[k]
             m == members[p]
             type == fields[k].type[t]
  <2>1. k \in DOMAIN fields
    BY <1>8, <1>10
  <2>2. Encodes(type) /\ type.shape = fields[k].type[one].shape
    BY <1>8, <1>12, <2>1 DEF Typed
  <2>3. Shaped(members, p, fields[k].type[one], "params")
    BY <1>10, <2>1
  <2>4. /\ m.kind \in {"scalar", "struct", "array"} => type.shape = "plain"
        /\ m.kind = "counted" => type.shape = "slice" /\ CountFits(members, p)
        /\ m.kind = "optional" => type.shape = "option"
        /\ m.kind = "union" => type.shape = "union"
        /\ m.kind \in {"scalar", "struct", "array", "counted", "optional", "union"}
    <3> HIDE DEF p, type
    <3> QED BY <2>2, <2>3 DEF Shaped
  <2>5. /\ m.kind \in {"scalar", "struct", "array"} => type.width = MaxWidth(m)
        /\ m.kind = "counted" => type.item.width = ElementWidth(m.element)
        /\ m.kind = "optional" => type.item.width = m.width
        /\ m.kind = "union" =>
             UnionMatches(type, m.variants, members[Place(members, m.selector)].width)
    <3> DEFINE Fit ==
          CASE m.kind = "scalar"   -> StandsFor(type, <<>>, m.width)
            [] m.kind = "struct"   -> StandsFor(type, m, MaxWidth(m))
            [] m.kind = "array"    -> StandsFor(type, m.element, MaxWidth(m))
            [] m.kind = "counted"  -> StandsFor(type.item, m.element, ElementWidth(m.element))
            [] m.kind = "optional" -> StandsFor(type.item, <<>>, m.width)
            [] m.kind = "union"    ->
                 UnionMatches(type, m.variants, members[Place(members, m.selector)].width)
    <3>1. Fit
      BY <1>9, <1>11, <2>1, Zenon DEF WidthsAssert, Place
    <3> HIDE DEF m, p, type
    <3>2. m.kind = "scalar" => type.width = MaxWidth(m)
      BY <3>1 DEF StandsFor, MaxWidth
    <3> QED BY <3>1, <3>2 DEF StandsFor
  <2> QED BY <2>2, <2>4, <2>5 DEF FieldFits
<1> QED BY <1>0, <1>4, <1>5, <1>6, <1>7, <1>10, <1>13 DEF Fitted, members, others, fields

(* The values the application may give: to each field one of its own.         *)
LEMMA SuppliedAre ==
  ASSUME Len(FieldsBuilt(declared.params)) \in Nat, NEW v \in Supplied
  PROVE  /\ DOMAIN v = 1..Len(FieldsBuilt(declared.params))
         /\ \A k \in 1..Len(FieldsBuilt(declared.params)) :
              v[k] \in Inputs(Members("params")[Visible(Members("params"))[k]],
                              TypeOf(declared.params, k))
<1> DEFINE l == Len(FieldsBuilt(declared.params))
           Of(k) == Inputs(Members("params")[Visible(Members("params"))[k]],
                           TypeOf(declared.params, k))
           More(n, given) == {Append(u, x) : u \in given, x \in Of(n)}
           Computed(f) == f = [n \in 0..l |-> IF n = 0 THEN {<<>>} ELSE More(n, f[n - 1])]
           upTo == CHOOSE f : Computed(f)
           T == UNION {Of(k) : k \in 1..l}
<1>1. Supplied = upTo[l]
  BY DEF Supplied
<1>2. l \in Nat
  OBVIOUS
<1> HIDE DEF l, Of
<1>3. \A k \in 1..l : Of(k) \subseteq T
  OBVIOUS
<1> HIDE DEF T
<1> DEFINE Q == Seq(T)
           R == SUBSET Q
           none == {<<>>}
           step == [n \in 1..l |-> [given \in R |-> More(n, given)]]
<1>4. ASSUME NEW n \in 1..l, NEW given \in R PROVE More(n, given) \in R
  <2> SUFFICES ASSUME NEW u \in given, NEW x \in Of(n) PROVE Append(u, x) \in Q
    OBVIOUS
  <2>1. u \in Seq(T) /\ x \in T
    BY <1>3
  <2> QED BY <2>1
<1>5. none \in R
  OBVIOUS
<1>6. step \in [1..l -> [R -> R]] /\ \A n \in 1..l, given \in R : step[n][given] = More(n, given)
  <2> HIDE DEF R, More
  <2> QED BY <1>4
<1> HIDE DEF step
<1>7. PICK f \in [0..l -> R] : Computes(f, l, none, step)
  <2> HIDE DEF R, More, none, Computed, upTo
  <2> QED BY <1>2, <1>5, <1>6, StepByStep
<1>8. \A n \in 1..l : f[n] = More(n, f[n - 1])
  <2> HIDE DEF R, More
  <2>1. \A n \in 1..l : f[n - 1] \in R
    <3>1. \A n \in 1..l : n - 1 \in 0..l
      BY <1>2
    <3> QED BY <3>1
  <2> QED BY <1>6, <1>7, <2>1 DEF Computes
<1>9. Computed(f)
  <2> HIDE DEF R, More, none
  <2>1. \A n \in 0..l : f[n] = IF n = 0 THEN none ELSE More(n, f[n - 1])
    <3>1. \A n \in 0..l : n # 0 => n \in 1..l
      BY <1>2
    <3> QED BY <1>7, <1>8, <3>1 DEF Computes
  <2>2. f = [n \in 0..l |-> f[n]]
    OBVIOUS
  <2> QED BY <2>1, <2>2 DEF none
<1>10. Computed(upTo)
  <2> HIDE DEF Computed
  <2> QED BY <1>9
<1> HIDE DEF upTo, More
<1>11. upTo[0] = none /\ \A n \in 1..l : upTo[n] = More(n, upTo[n - 1])
  <2>1. \A n \in 0..l : upTo[n] = IF n = 0 THEN {<<>>} ELSE More(n, upTo[n - 1])
    BY <1>10
  <2>2. 0 \in 0..l /\ \A n \in 1..l : n \in 0..l /\ n # 0
    BY <1>2
  <2> QED BY <2>1, <2>2
<1> HIDE DEF Computed
<1> DEFINE Suits(n) ==
             \A u \in upTo[n] : u \in Seq(T) /\ Len(u) = n /\ \A k \in 1..n : u[k] \in Of(k)
           N == {n \in Nat : n <= l => Suits(n)}
<1>12. 0 \in N
  <2>1. upTo[0] = {<<>>}
    BY <1>11
  <2>2. <<>> \in Seq(T) /\ Len(<<>>) = 0 /\ 1..0 = {}
    OBVIOUS
  <2>3. Suits(0)
    BY <2>1, <2>2
  <2> QED BY <2>3
<1>13. ASSUME NEW n \in Nat, n \in N PROVE n + 1 \in N
  <2> SUFFICES ASSUME n + 1 <= l, NEW w \in upTo[n + 1]
               PROVE  w \in Seq(T) /\ Len(w) = n + 1 /\ \A k \in 1..(n + 1) : w[k] \in Of(k)
    OBVIOUS
  <2>1. n + 1 \in 1..l /\ n + 1 - 1 = n /\ n <= l
    BY <1>2
  <2>2. upTo[n + 1] = More(n + 1, upTo[n])
    BY <1>11, <2>1
  <2>3. PICK u \in upTo[n], x \in Of(n + 1) : w = Append(u, x)
    BY <2>2 DEF More
  <2>4. u \in Seq(T) /\ Len(u) = n /\ \A k \in 1..n : u[k] \in Of(k)
    BY <1>13, <2>1
  <2>5. x \in T
    BY <1>3, <2>1
  <2>6. w \in Seq(T) /\ Len(w) = n + 1 /\ w[n + 1] = x /\ \A k \in 1..n : w[k] = u[k]
    BY <2>3, <2>4, <2>5
  <2>7. \A k \in 1..(n + 1) : k = n + 1 \/ k \in 1..n
    OBVIOUS
  <2> QED BY <2>4, <2>6, <2>7
<1>14. Suits(l)
  <2> HIDE DEF Suits
  <2>1. \A n \in Nat : n \in N => n + 1 \in N
    BY <1>13
  <2> HIDE DEF N
  <2>2. l \in N
    BY <1>2, <1>12, <2>1, SetInduction
  <2> QED BY <1>2, <2>2 DEF N
<1>15. v \in Seq(T) /\ Len(v) = l /\ \A k \in 1..l : v[k] \in Of(k)
  BY <1>1, <1>14
<1>16. DOMAIN v = 1..l
  BY <1>2, <1>15
<1> QED BY <1>15, <1>16 DEF l, Of

------------------------------------------------------------------------------
(* The layout built, its fields and the layout of the target's release.       *)
Built == Members("params")
BuiltFields == FieldsBuilt(declared.params)
BuiltFor == Entry(target[1]).params

(* A command is built of a plan that fits the layout, and what is written of  *)
(* it are the bytes of its members so far.                                    *)
EncodingInv ==
  /\ declared \in Declarations
  /\ pc = "expanded" => Expanded
  /\ pc \in {"declared", "expanded", "built"} => written = 0 /\ encoded = <<>>
  /\ pc \in {"built", "new", "encoded"} /\ built # None =>
       Fitted(Built, BuiltFields, target, BuiltFor)
  /\ pc \in {"new", "encoded"} =>
       /\ built # None /\ Taken(Built, BuiltFields, target, value)
       /\ written \in 0..Len(Built)
       /\ Written(Built, BuiltFields, target, value, written, encoded)
  /\ pc = "encoded" => written = Len(Built)

(* The layout and the fields do not change while the same variant is built    *)
(* for the same target.                                                       *)
LEMMA SameBuilt ==
  ASSUME declared' = declared, target' = target, built' = built
  PROVE  Built' = Built /\ BuiltFields' = BuiltFields /\ BuiltFor' = BuiltFor
BY DEF Built, BuiltFields, BuiltFor, Members, FieldsBuilt, Latest, Facts, Entry, history

(* Whether the macros accept a declaration depends on nothing else.           *)
LEMMA SameExpanded ==
  ASSUME declared' = declared
  PROVE  Expanded' = Expanded
BY SMT DEF Expanded, Resolvable, Expandable, Planned, Latest, Declares, NamesAt, BoundsHold,
           Compiled, Segments, Key, IsEvent, Facts, Entry, history, DeclaredFields

(* What the generated write_hci writes of a member are the bytes of the field *)
(* it belongs to.                                                             *)
LEMMA MemberBytesPiece ==
  \A v, p : MemberBytes(v, p) = Piece(Built, BuiltFields, target, v, p)
BY DEF MemberBytes, Piece, Built, BuiltFields, TypeOf

(* When all is written, the cuts of the layout are the sums of the widths of  *)
(* the written members, so what is written divides as the layout of the       *)
(* target's release says: its members are those of the layout built, up to    *)
(* names.                                                                     *)
LEMMA EncodesWhat == EncodingInv => EncodesLayout
<1> SUFFICES ASSUME EncodingInv, pc = "encoded"
             PROVE  LET members == BuiltFor
                        cut == Ended(members)
                    IN  /\ Divides(cut, members, encoded)
                        /\ \A k \in DOMAIN value :
                             Field(encoded, cut, Visible(members)[k])
                               = FieldBytes(TypeOf(declared.params, k), value[k])
  BY DEF EncodesLayout, BuiltFor
<1> DEFINE members == BuiltFor
           cut == Ended(members)
           w == Widths(Built, BuiltFields, target, value)
<1>1. /\ Fitted(Built, BuiltFields, target, members) /\ Taken(Built, BuiltFields, target, value)
      /\ Written(Built, BuiltFields, target, value, Len(Built), encoded)
  BY DEF EncodingInv
<1>2. Len(members) = Len(Built) /\ Visible(members) = Visible(Built)
  BY <1>1, AlikeMembers, AlikeDependents DEF Fitted
<1>3. /\ Len(w) = Len(Built) /\ Len(Built) \in Nat
      /\ \A p \in 1..Len(Built) : w[p] = Len(MemberBytes(value, p))
  BY <1>1, WidthsAre, MemberBytesPiece
<1>4. ASSUME NEW n \in 0..Len(Built) PROVE cut[n] = Sums(w)[n]
  <2>1. cut[n] = Total([p \in 1..n |-> Len(MemberBytes(value, p))])
    BY <1>2 DEF Ended
  <2>2. [p \in 1..n |-> Len(MemberBytes(value, p))] = [p \in 1..n |-> w[p]]
    BY <1>3
  <2> HIDE DEF w
  <2>3. Total([p \in 1..n |-> w[p]]) = Sums(w)[n]
    BY <1>3, PrefixTotal
  <2> QED BY <2>1, <2>2, <2>3
<1> HIDE DEF cut, members
<1>5. /\ Divides(cut, members, encoded)
      /\ \A k \in 1..Len(Visible(members)) :
           Field(encoded, cut, Visible(members)[k]) = FieldBytes(BuiltFields[k].type[target], value[k])
  BY <1>1, <1>4, WrittenDivides
<1>6. DOMAIN value = 1..Len(Visible(members))
  BY <1>1, <1>2 DEF Taken
<1> QED BY <1>5, <1>6 DEF TypeOf, BuiltFields, cut, members

(* Nothing is built at first.                                                 *)
LEMMA EncodingInit == Init => EncodingInv
BY DEF Init, EncodingInv

(* What the target enables has fields that fit: the declaration was expanded, *)
(* so a variant has a plan, its assertions hold, and the layout of its facts  *)
(* is that of the target's release.                                           *)
LEMMA EncodingBuild ==
  ASSUME EncodingInv, NEW t \in Targets, Build(t)
  PROVE  EncodingInv'
<1> DEFINE enabled == {variant \in Compiled : Enabled(On(variant), t)}
<1>1. /\ pc = "expanded" /\ target' = t /\ declared' = declared /\ written' = written
      /\ encoded' = encoded
      /\ \/ pc' = "refused"
         \/ /\ pc' = "built" /\ \A variant \in enabled : Asserted(variant, t)
            /\ built' \in IF enabled = {} THEN {None} ELSE enabled
  BY Zenon DEF Build
<1>2. declared \in Declarations /\ Expanded /\ written = 0 /\ encoded = <<>>
  BY <1>1 DEF EncodingInv
<1>3. ASSUME pc' = "built", built' # None
      PROVE  Fitted(Built, BuiltFields, target, BuiltFor)'
  <2>1. PICK variant \in Compiled : /\ built' = variant /\ Enabled(On(variant), t)
                                    /\ Asserted(variant, t)
    BY <1>1, <1>3
  <2>2. Fitted(Latest(variant).params, FieldsIn(declared.params, CHOOSE s \in variant : TRUE),
               t, Entry(t[1]).params)
    BY <1>2, <2>1, BuiltFits
  <2>3. Built' = Latest(variant).params
    BY <1>1, <2>1 DEF Built, Members, Side, Latest, Facts, Entry, history
  <2>4. BuiltFields' = FieldsIn(declared.params, CHOOSE s \in variant : TRUE)
    BY <1>1, <2>1 DEF BuiltFields, FieldsBuilt
  <2>5. BuiltFor' = Entry(t[1]).params
    BY <1>1 DEF BuiltFor, Entry, history
  <2> QED BY <1>1, <2>2, <2>3, <2>4, <2>5
<1> QED BY <1>1, <1>2, <1>3 DEF EncodingInv

(* try_new leaves only lists within their capacity, and optionals without a   *)
(* gap: what new takes. Nothing is written yet.                               *)
LEMMA EncodingNew ==
  ASSUME EncodingInv, built # None, NEW v \in Supplied, New(v)
  PROVE  EncodingInv'
<1>1. /\ pc = "built" /\ declared' = declared /\ target' = target /\ built' = built
      /\ written' = written /\ encoded' = encoded
      /\ \/ Constructible(v) /\ pc' = "new" /\ value' = v
         \/ pc' = "rejected"
  BY DEF New
<1>2. /\ declared \in Declarations /\ written = 0 /\ encoded = <<>>
      /\ Fitted(Built, BuiltFields, target, BuiltFor)
  BY <1>1 DEF EncodingInv
<1>3. Built' = Built /\ BuiltFields' = BuiltFields /\ BuiltFor' = BuiltFor
  BY <1>1, SameBuilt
<1>4. ASSUME Constructible(v) PROVE Taken(Built, BuiltFields, target, v)
  <2>1. Len(BuiltFields) = Len(Visible(Built)) /\ Len(Visible(Built)) \in Nat
    BY <1>2, VisibleMembers DEF Fitted
  <2>2. /\ DOMAIN v = 1..Len(Visible(Built))
        /\ \A k \in 1..Len(Visible(Built)) :
             v[k] \in Inputs(Built[Visible(Built)[k]], BuiltFields[k].type[target])
    <3>1. Len(FieldsBuilt(declared.params)) \in Nat
      BY <2>1 DEF BuiltFields
    <3>2. /\ DOMAIN v = 1..Len(FieldsBuilt(declared.params))
          /\ \A k \in 1..Len(FieldsBuilt(declared.params)) :
               v[k] \in Inputs(Members("params")[Visible(Members("params"))[k]],
                               TypeOf(declared.params, k))
      BY <3>1, SuppliedAre
    <3> QED BY <2>1, <3>2 DEF Built, BuiltFields, TypeOf
  <2>3. /\ \A p \in Kinds(Built, "counted") : Len(v[FieldOf(Built, p)]) <= Built[p].capacity
        /\ \A p \in Kinds(Built, "optional") :
             p + 1 \in Kinds(Built, "optional") /\ v[FieldOf(Built, p + 1)] # <<>>
               => v[FieldOf(Built, p)] # <<>>
    BY <1>4, Zenon DEF Constructible, Built
  <2> QED BY <2>2, <2>3 DEF Taken
<1>5. ASSUME Constructible(v)
      PROVE  /\ Written(Built, BuiltFields, target, v, 0, <<>>)
             /\ Len(Built) \in Nat
  BY <1>2, <1>4, <1>5, WriteNext, LoadedMembers DEF Fitted
<1>6. CASE Constructible(v) /\ pc' = "new" /\ value' = v
  <2>1. 0 \in 0..Len(Built)
    BY <1>5, <1>6
  <2> QED BY <1>1, <1>2, <1>3, <1>4, <1>5, <1>6, <2>1 DEF EncodingInv
<1>7. CASE pc' = "rejected"
  BY <1>1, <1>2, <1>7 DEF EncodingInv
<1> QED BY <1>1, <1>6, <1>7

(* One member more.                                                           *)
LEMMA EncodingWrite == ASSUME EncodingInv, Write PROVE EncodingInv'
<1>1. /\ pc = "new" /\ written < Len(Built) /\ written' = written + 1
      /\ encoded' = encoded \o MemberBytes(value, written + 1)
      /\ pc' = pc /\ declared' = declared /\ target' = target /\ built' = built /\ value' = value
  BY DEF Write, Built
<1>2. /\ declared \in Declarations /\ built # None
      /\ Fitted(Built, BuiltFields, target, BuiltFor)
      /\ Taken(Built, BuiltFields, target, value) /\ written \in 0..Len(Built)
      /\ Written(Built, BuiltFields, target, value, written, encoded)
  BY <1>1 DEF EncodingInv
<1>3. Built' = Built /\ BuiltFields' = BuiltFields /\ BuiltFor' = BuiltFor
  BY <1>1, SameBuilt
<1>4. Len(Built) \in Nat
  BY <1>2, LoadedMembers DEF Fitted
<1>5. encoded' = encoded \o Piece(Built, BuiltFields, target, value, written + 1)
  BY <1>1, MemberBytesPiece
<1>6. written \in Nat /\ written + 1 \in 0..Len(Built)
  BY <1>1, <1>2, <1>4
<1>7. Written(Built, BuiltFields, target, value, written + 1, encoded')
  BY <1>1, <1>2, <1>5, <1>6, WriteNext
<1> QED BY <1>1, <1>2, <1>3, <1>6, <1>7 DEF EncodingInv

(* The other steps write nothing and build nothing.                           *)
LEMMA EncodingStep == EncodingInv /\ [Next]_vars => EncodingInv'
<1> SUFFICES ASSUME EncodingInv, [Next]_vars PROVE EncodingInv'
  OBVIOUS
<1>1. CASE Expand
  <2>1. /\ declared' = declared /\ written' = written /\ encoded' = encoded
        /\ pc = "declared" /\ pc' \in {"expanded", "refused"}
        /\ pc' = "expanded" => Expanded
    BY <1>1 DEF Expand, Expanded
  <2>2. Expanded' = Expanded
    BY <2>1, SameExpanded
  <2> QED BY <2>1, <2>2 DEF EncodingInv
<1>2. CASE \E t \in Targets : Build(t)
  BY <1>2, EncodingBuild
<1>3. CASE built # None /\ \E v \in Supplied : New(v)
  BY <1>3, EncodingNew
<1>4. CASE Write
  BY <1>4, EncodingWrite
<1>5. CASE Finish
  <2>1. /\ pc = "new" /\ written = Len(Built) /\ pc' = "encoded"
        /\ declared' = declared /\ target' = target /\ built' = built /\ value' = value
        /\ written' = written /\ encoded' = encoded
    BY <1>5 DEF Finish, Built
  <2>2. Built' = Built /\ BuiltFields' = BuiltFields /\ BuiltFor' = BuiltFor
    BY <2>1, SameBuilt
  <2> QED BY <2>1, <2>2 DEF EncodingInv
<1>6. CASE \E bytes \in Answers[declared.c_name] : Answer(bytes)
  BY <1>6 DEF Answer, EncodingInv
<1>7. CASE Decode
  BY <1>7 DEF Decode, EncodingInv
<1>8. CASE ReadHci
  BY <1>8 DEF ReadHci, EncodingInv
<1>9. CASE UNCHANGED vars
  <2>1. /\ pc' = pc /\ declared' = declared /\ target' = target /\ built' = built /\ value' = value
        /\ written' = written /\ encoded' = encoded
    BY <1>9 DEF vars
  <2>2. Built' = Built /\ BuiltFields' = BuiltFields /\ BuiltFor' = BuiltFor
        /\ Expanded' = Expanded
    BY <2>1, SameBuilt, SameExpanded
  <2> QED BY <2>1, <2>2 DEF EncodingInv
<1> QED BY <1>1, <1>2, <1>3, <1>4, <1>5, <1>6, <1>7, <1>8, <1>9 DEF Next, Stop

(* Whatever the history of a command, the declaration and the target: when    *)
(* the macros accept the declaration and the build passes, the bytes that     *)
(* write_hci of the command's struct puts out divide, without a gap or a      *)
(* rest, as the layout the catalog has for the name in the target's release   *)
(* says, a count or a selector holding what the list or the union behind it   *)
(* has, and each field's own bytes are where that layout puts its member. The *)
(* plan of the generated code (command.rs) is made once for a variant, of the *)
(* facts of its latest segment, and serves all the releases in it.            *)
THEOREM DeclarationEncodesLayout == Spec => []EncodesLayout
<1>1. Init => EncodingInv
  BY EncodingInit
<1>2. EncodingInv /\ [Next]_vars => EncodingInv'
  BY EncodingStep
<1>3. EncodingInv => EncodesLayout
  BY EncodesWhat
<1> QED BY <1>1, <1>2, <1>3, PTL DEF Spec

------------------------------------------------------------------------------
(* What is read: numbers, and the recursion of what has been decoded.         *)

(* Bytes hold less than their number of values.                               *)
LEMMA NumberBound ==
  ASSUME NEW bytes \in Seq(Byte)
  PROVE  Number(bytes) \in Nat /\ Number(bytes) < Power(Len(bytes))
<1> DEFINE w == Len(bytes)
           Highs(f) == f = [i \in 0..w |-> IF i = 0 THEN 0 ELSE bytes[w - i + 1] + Base * f[i - 1]]
           high == CHOOSE f : Highs(f)
<1>1. Base \in Nat /\ Base > 0 /\ w \in Nat
  BY BaseAssumption
<1>2. \A i \in 1..w : bytes[i] \in Nat /\ bytes[i] <= Base - 1
  BY <1>1 DEF Byte
<1>3. Number(bytes) = high[w]
  BY DEF Number
<1> HIDE DEF w
<1>4. \A i \in 1..w : w - i + 1 \in 1..w /\ i \in 0..w /\ i - 1 \in 0..w /\ i # 0
  BY <1>1
<1>5. \A i \in 1..w : bytes[w - i + 1] \in Nat /\ bytes[w - i + 1] <= Base - 1
  BY <1>2, <1>4
<1>6. Highs(high)
  <2> DEFINE step == [n \in 1..w |-> [m \in Nat |-> bytes[w - n + 1] + Base * m]]
  <2>1. step \in [1..w -> [Nat -> Nat]]
        /\ \A n \in 1..w, m \in Nat : step[n][m] = bytes[w - n + 1] + Base * m
    <3>1. \A n \in 1..w, m \in Nat : bytes[w - n + 1] + Base * m \in Nat
      BY <1>1, <1>5
    <3> QED BY <3>1
  <2> HIDE DEF step
  <2>2. PICK f \in [0..w -> Nat] : Computes(f, w, 0, step)
    <3> HIDE DEF high, Highs
    <3> QED BY <1>1, <2>1, StepByStep
  <2>3. \A i \in 1..w : f[i] = bytes[w - i + 1] + Base * f[i - 1]
    <3>1. \A i \in 1..w : f[i - 1] \in Nat
      BY <1>4
    <3> QED BY <2>1, <2>2, <3>1 DEF Computes
  <2>4. f[0] = 0
    BY <2>2 DEF Computes
  <2>5. \A i \in 0..w : f[i] = IF i = 0 THEN 0 ELSE bytes[w - i + 1] + Base * f[i - 1]
    <3>1. \A i \in 0..w : i # 0 => i \in 1..w
      BY <1>1
    <3> QED BY <2>3, <2>4, <3>1
  <2>6. f = [i \in 0..w |-> f[i]]
    OBVIOUS
  <2>7. Highs(f)
    BY <2>5, <2>6
  <2> HIDE DEF Highs
  <2> QED BY <2>7
<1> HIDE DEF high
<1>7. high[0] = 0 /\ \A i \in 1..w : high[i] = bytes[w - i + 1] + Base * high[i - 1]
  <2>1. \A i \in 0..w : high[i] = IF i = 0 THEN 0 ELSE bytes[w - i + 1] + Base * high[i - 1]
    BY <1>6
  <2>2. 0 \in 0..w
    BY <1>1
  <2> QED BY <1>4, <2>1, <2>2
<1> HIDE DEF Highs
<1> DEFINE Bounded(i) == high[i] \in Nat /\ high[i] < Power(i)
           N == {i \in Nat : i <= w => Bounded(i)}
<1>8. Bounded(0)
  BY <1>7, PowerOf, 0 \in Nat
<1>9. ASSUME NEW i \in Nat, i + 1 <= w, Bounded(i) PROVE Bounded(i + 1)
  <2>1. i + 1 \in 1..w /\ i + 1 - 1 = i
    BY <1>1, <1>9
  <2> DEFINE h == high[i]
             b == bytes[w - (i + 1) + 1]
             q == Power(i)
  <2>2. high[i + 1] = b + Base * h
    BY <1>7, <2>1
  <2>3. b \in Nat /\ b <= Base - 1
    BY <1>5, <2>1
  <2>4. q \in Nat /\ Power(i + 1) = Base * q
    BY PowerOf
  <2>5. h \in Nat /\ h < q
    BY <1>9
  <2> HIDE DEF h, b, q
  <2>6. PICK d \in Nat : q = h + 1 + d
    <3>1. q - h - 1 \in Nat /\ q = h + 1 + (q - h - 1)
      BY <2>4, <2>5
    <3> QED BY <3>1
  <2>7. Base * q = Base * h + Base + Base * d /\ Base * d \in Nat /\ Base * h \in Nat
    BY <1>1, <2>4, <2>5, <2>6
  <2> QED BY <1>1, <2>2, <2>3, <2>4, <2>7
<1>10. Bounded(w)
  <2> HIDE DEF Bounded
  <2>1. 0 \in N
    BY <1>8
  <2>2. \A n \in Nat : n \in N => n + 1 \in N
    <3> SUFFICES ASSUME NEW n \in Nat, n \in N PROVE n + 1 \in N
      OBVIOUS
    <3>1. n + 1 \in Nat /\ (n + 1 <= w => n <= w)
      BY <1>1
    <3> QED BY <1>9, <3>1
  <2> HIDE DEF N
  <2>3. w \in N
    BY <1>1, <2>1, <2>2, SetInduction
  <2> QED BY <1>1, <2>3 DEF N
<1> QED BY <1>3, <1>10 DEF w

(* Elements of one width lie within the bytes.                                *)
LEMMA ElementsWithin ==
  ASSUME NEW w \in Nat, NEW chunk \in Nat \ {0}, NEW i \in 0..((w \div chunk) - 1)
  PROVE  i * chunk \in Nat /\ (i + 1) * chunk \in Nat /\ (i + 1) * chunk <= w
         /\ (i + 1) * chunk - i * chunk = chunk
<1> DEFINE q == w \div chunk
           r == w % chunk
<1>1. q \in Nat
  OBVIOUS
<1>2. r \in Nat
  OBVIOUS
<1>3. w = q * chunk + r
  OBVIOUS
<1>4. i \in 0..(q - 1)
  OBVIOUS
<1> HIDE DEF q, r
<1>5. PICK d \in Nat : q = i + 1 + d
  <2>1. q - i - 1 \in Nat /\ q = i + 1 + (q - i - 1)
    BY <1>1, <1>4
  <2> QED BY <2>1
<1>6. q * chunk = i * chunk + chunk + d * chunk /\ d * chunk \in Nat /\ i * chunk \in Nat
  BY <1>4, <1>5
<1>7. (i + 1) * chunk = i * chunk + chunk
  BY <1>4
<1> QED BY <1>2, <1>3, <1>6, <1>7

(* What has been read after each member.                                      *)
Runs(members, fields, f) ==
  /\ f[0] = [rest |-> answer, used |-> 0, counts |-> <<>>, fields |-> <<>>, failed |-> FALSE]
  /\ \A n \in 1..Len(members) : f[n] = DecodedMember(members, fields, f[n - 1], n)

(* A member is decoded after the other.                                       *)
LEMMA DecodedRecursion ==
  ASSUME NEW members, NEW fields, Len(members) \in Nat
  PROVE  \E f : Decoded(members, fields) = f[Len(members)] /\ Runs(members, fields, f)
<1> DEFINE l == Len(members)
           start == [rest |-> answer, used |-> 0, counts |-> <<>>, fields |-> <<>>, failed |-> FALSE]
           Member(so, n) == DecodedMember(members, fields, so, n)
           Step(f, n) == IF n = 0 THEN start ELSE Member(f[n - 1], n)
           S == {m \in Nat : \E f : f = [n \in 0..m |-> Step(f, n)]}
           upTo == CHOOSE f : f = [n \in 0..l |-> Step(f, n)]
<1>0. Decoded(members, fields) = upTo[l]
  BY DEF Decoded
<1> HIDE DEF Member, start
<1>1. 0 \in S
  <2> DEFINE f == [n \in 0..0 |-> start]
  <2>1. f = [n \in 0..0 |-> Step(f, n)]
    OBVIOUS
  <2> QED BY <2>1
<1>2. ASSUME NEW m \in Nat, m \in S PROVE m + 1 \in S
  <2>1. PICK f : f = [n \in 0..m |-> Step(f, n)]
    BY <1>2
  <2> DEFINE last == Step(f, m + 1)
             g == [n \in 0..(m + 1) |-> IF n = m + 1 THEN last ELSE f[n]]
  <2>2. \A n \in 0..m : f[n] = Step(f, n)
    <3> HIDE DEF Step
    <3> QED BY <2>1
  <2>3. \A n \in 0..m : g[n] = f[n]
    OBVIOUS
  <2>4. g[m + 1] = last
    OBVIOUS
  <2> HIDE DEF g
  <2>5. ASSUME NEW n \in 0..(m + 1) PROVE g[n] = Step(g, n)
    <3>1. CASE n = m + 1
      <4>1. g[n - 1] = f[n - 1] /\ n # 0
        BY <2>3, <3>1
      <4> QED BY <2>4, <3>1, <4>1
    <3>2. CASE n # m + 1
      <4>1. n \in 0..m /\ (n # 0 => n - 1 \in 0..m)
        BY <3>2
      <4>2. g[n] = f[n] /\ (n # 0 => g[n - 1] = f[n - 1])
        BY <2>3, <4>1
      <4>3. f[n] = Step(f, n)
        BY <2>2, <4>1
      <4> QED BY <4>2, <4>3
    <3> QED BY <3>1, <3>2
  <2>6. g = [n \in 0..(m + 1) |-> g[n]]
    BY DEF g
  <2>7. g = [n \in 0..(m + 1) |-> Step(g, n)]
    <3> HIDE DEF Step
    <3> QED BY <2>5, <2>6
  <2> QED BY <2>7
<1>3. l \in S
  <2> HIDE DEF S
  <2> QED BY <1>1, <1>2, SetInduction
<1>4. upTo = [n \in 0..l |-> Step(upTo, n)]
  BY <1>3
<1> HIDE DEF upTo
<1>5. \A n \in 0..l : upTo[n] = Step(upTo, n)
  <2> HIDE DEF Step
  <2> QED BY <1>4
<1>6. upTo[0] = start /\ \A n \in 1..l : upTo[n] = Member(upTo[n - 1], n)
  <2>1. 0 \in 0..l /\ \A n \in 1..l : n \in 0..l /\ n # 0
    OBVIOUS
  <2> QED BY <1>5, <2>1
<1>7. Runs(members, fields, upTo)
  BY <1>6 DEF Runs, Member, start
<1> QED BY <1>0, <1>7

------------------------------------------------------------------------------
(* Types that decode whatever they read.                                      *)

(* What has been read so far, as Decoded has it.                              *)
IsReading(so) ==
  /\ so = [rest |-> so.rest, used |-> so.used, counts |-> so.counts, fields |-> so.fields,
           failed |-> so.failed]
  /\ so.rest \in Seq(Byte) /\ so.used \in Nat /\ so.fields \in Seq(Seq(Byte))
  /\ so.failed \in BOOLEAN

(* A type for a visible member of a response or event, and what it decodes:   *)
(* everything in its width, a bearer apart, which is that of the entry built  *)
(* for.                                                                       *)
ReadFits(members, p, type, e) ==
  LET m == members[p]
  IN  /\ Encodes(type)
      /\ m.kind \in {"scalar", "struct", "array", "counted"}
      /\ m.kind # "counted" =>
           /\ type.shape = "plain" /\ type.width = MaxWidth(m) /\ DecodesAny(type)
           /\ type.last # 0 =>
                /\ IsEvent /\ type.len = 1 /\ e.returns[p].name \in DOMAIN e.bearers
                /\ type.last = e.bearers[e.returns[p].name]
      /\ m.kind = "counted" =>
           /\ type.shape \in {"slice", "elements", "bounded"}
           /\ type.item.width = ElementWidth(m.element)
           /\ type.item.len = 1 /\ type.item.last = 0 /\ DecodesAny(type.item)
           /\ IF IsEvent THEN type.shape # "bounded"
              ELSE type.shape = "bounded" /\ type.capacity = m.capacity

(* A type that decodes anything decodes what its bytes hold, a bearer apart.  *)
LEMMA AnyDecoded ==
  ASSUME NEW type, DecodesAny(type), NEW n \in Nat, n < Power(ItemWidth(type)),
         ItemWidth(type) \in Nat, type.last # 0 => n \in Bearers(type.last)
  PROVE  Decodes(type, n)
<1>1. CASE type.fallback
  BY <1>1 DEF Decodes
<1>2. CASE ~type.fallback
  <2>1. ~Stands(type) /\ type.bits = None
    BY <1>2 DEF DecodesAny, Stands
  <2>2. Power(ItemWidth(type)) \in Nat
    BY PowerOf
  <2>3. n \in Whole(ItemWidth(type))
    BY <2>2 DEF Whole
  <2> QED BY <2>1, <2>3 DEF Decodes, Known
<1> QED BY <1>1, <1>2

(* The elements of a field read.                                              *)
ElementsOf(bytes, width, chunk) ==
  {Number(SubSeq(bytes, i * chunk + 1, (i + 1) * chunk)) : i \in 0..(width \div chunk - 1)}

(* Each is less than the values its width has, and a single one is the field. *)
LEMMA ElementsBound ==
  ASSUME NEW bytes \in Seq(Byte), NEW width \in Nat, Len(bytes) = width, NEW chunk \in Nat \ {0}
  PROVE  /\ \A n \in ElementsOf(bytes, width, chunk) : n \in Nat /\ n < Power(chunk)
         /\ chunk = width => ElementsOf(bytes, width, chunk) \subseteq {Number(bytes)}
<1> DEFINE Part(i) == SubSeq(bytes, i * chunk + 1, (i + 1) * chunk)
           q == (width \div chunk) - 1
<1>1. \A n \in ElementsOf(bytes, width, chunk) : \E i \in 0..q : n = Number(Part(i))
  BY Zenon DEF ElementsOf
<1>2. ASSUME NEW i \in 0..q PROVE Part(i) \in Seq(Byte) /\ Len(Part(i)) = chunk
  <2> DEFINE a == i * chunk
             b == (i + 1) * chunk
  <2>1. a \in Nat /\ b \in Nat /\ b <= width /\ b - a = chunk
    BY ElementsWithin
  <2>2. Part(i) = SubSeq(bytes, a + 1, b)
    OBVIOUS
  <2> HIDE DEF a, b, Part
  <2>3. a <= b /\ b <= Len(bytes)
    BY <2>1
  <2>4. SubSeq(bytes, a + 1, b) \in Seq(Byte) /\ Len(SubSeq(bytes, a + 1, b)) = b - a
    <3> DEFINE T == Byte
    <3>1. bytes \in Seq(T)
      OBVIOUS
    <3> HIDE DEF T
    <3>2. SubSeq(bytes, a + 1, b) \in Seq(T) /\ Len(SubSeq(bytes, a + 1, b)) = b - a
      BY <2>1, <2>3, <3>1, PartOf
    <3> QED BY <3>2 DEF T
  <2> QED BY <2>1, <2>2, <2>4
<1>3. ASSUME NEW i \in 0..q PROVE Number(Part(i)) \in Nat /\ Number(Part(i)) < Power(chunk)
  <2> DEFINE t == Part(i)
  <2>1. t \in Seq(Byte) /\ Len(t) = chunk
    BY <1>2
  <2> HIDE DEF t
  <2>2. Number(t) \in Nat /\ Number(t) < Power(Len(t))
    BY <2>1, NumberBound
  <2> QED BY <2>1, <2>2 DEF t
<1>4. ASSUME chunk = width, NEW i \in 0..q PROVE Part(i) = bytes
  <2>1. (i + 1) * chunk <= width /\ (i + 1) * chunk \in Nat /\ i * chunk \in Nat
        /\ (i + 1) * chunk - i * chunk = chunk
    BY ElementsWithin
  <2>2. i * chunk = 0 /\ (i + 1) * chunk = width
    BY <1>4, <2>1
  <2>3. Part(i) = SubSeq(bytes, 0 + 1, Len(bytes)) /\ 0 + 1 = 1
    BY <2>2
  <2> HIDE DEF Part
  <2>4. SubSeq(bytes, 1, Len(bytes)) = bytes
    <3> DEFINE T == Byte
    <3>1. bytes \in Seq(T)
      OBVIOUS
    <3> HIDE DEF T
    <3> QED BY <3>1, PartAll
  <2> QED BY <2>3, <2>4
<1> HIDE DEF Part, q
<1> QED BY <1>1, <1>3, <1>4

------------------------------------------------------------------------------
(* One member read.                                                           *)

(* How much is read for a member.                                             *)
ReadWidth(members, so, p) ==
  IF members[p].kind # "counted" THEN MaxWidth(members[p])
  ELSE so.counts[p] * ElementWidth(members[p].element)

(* The field a member belongs to is of a type.                                *)
Readable(members, fields, p, e) ==
  ~Hidden(members, p) => ReadFits(members, p, fields[FieldOf(members, p)].type[target], e)

(* What the types accept.                                                     *)
Accepts(members, fields, p, so, bytes) ==
  LET type == fields[FieldOf(members, p)].type[target]
  IN  ~Hidden(members, p) =>
        /\ members[p].kind # "counted" /\ type.last # 0 => Number(bytes) \in Bearers(type.last)
        /\ type.shape = "bounded" => so.counts[p] <= type.capacity

(* The width of a member read is a number, positive for the elements.         *)
LEMMA ReadWidths ==
  ASSUME NEW members, Loads(members), NEW fields, NEW e, NEW p \in 1..Len(members),
         Readable(members, fields, p, e),
         NEW so, members[p].kind = "counted" => so.counts[p] \in Nat
  PROVE  /\ members[p].kind # "counted" =>
              MaxWidth(members[p]) \in Nat /\ ReadWidth(members, so, p) = MaxWidth(members[p])
         /\ members[p].kind = "counted" =>
              /\ ElementWidth(members[p].element) \in Nat \ {0}
              /\ ReadWidth(members, so, p) = so.counts[p] * ElementWidth(members[p].element)
         /\ ReadWidth(members, so, p) \in Nat
         /\ members[p].kind \in {"scalar", "struct", "array", "counted"}
<1> DEFINE m == members[p]
           type == fields[FieldOf(members, p)].type[target]
<1>1. CASE Hidden(members, p)
  <2>1. PICK q : q \in Dependents(members, m.name)
    BY <1>1, Zenon DEF Hidden
  <2>2. m.kind = "scalar"
    BY <2>1, DependentsOf
  <2>3. m.width \in Nat
    BY <2>2, LoadedMembers DEF Fields
  <2> QED BY <2>2, <2>3 DEF ReadWidth, MaxWidth
<1>2. CASE ~Hidden(members, p)
  <2>1. ReadFits(members, p, type, e)
    BY <1>2 DEF Readable
  <2> HIDE DEF type
  <2>2. CASE m.kind # "counted"
    <3>1. type.shape = "plain" /\ type.width = MaxWidth(m) /\ Encodes(type)
          /\ m.kind \in {"scalar", "struct", "array", "counted"}
      BY <2>1, <2>2, Zenon DEF ReadFits
    <3>2. type.len \in Nat \ {0} /\ ItemWidth(type) \in Nat /\ type.width = type.len * ItemWidth(type)
      BY <3>1 DEF Encodes
    <3> QED BY <2>2, <3>1, <3>2 DEF ReadWidth
  <2>3. CASE m.kind = "counted"
    <3>1. /\ type.shape \in {"slice", "elements", "bounded"} /\ Encodes(type)
          /\ type.item.width = ElementWidth(m.element)
      BY <2>1, <2>3, Zenon DEF ReadFits
    <3>2. type.item.width \in Nat \ {0}
      BY <3>1 DEF Encodes
    <3> QED BY <2>3, <3>1, <3>2 DEF ReadWidth
  <2> QED BY <2>2, <2>3
<1> QED BY <1>1, <1>2

(* What Decoded makes of what is read so far: it stops, or a member of `w`    *)
(* bytes is read, for its count or for its field.                             *)
Stopped(so) == [so EXCEPT !.failed = TRUE]
Moved(so, w) == [so EXCEPT !.rest = SubSeq(@, w + 1, Len(@)), !.used = @ + w]
Counted(so, w, q, n) == [Moved(so, w) EXCEPT !.counts = Noted(@, q, n)]
Kept(so, w, bytes) == [Moved(so, w) EXCEPT !.fields = Append(@, bytes)]

(* They change its parts one by one.                                          *)
LEMMA ReadingParts ==
  \A r, u, c, s, f, so :
    so = [rest |-> r, used |-> u, counts |-> c, fields |-> s, failed |-> f]
      => so.rest = r /\ so.used = u /\ so.counts = c /\ so.fields = s /\ so.failed = f
OBVIOUS

(* Stopping leaves the rest as it is.                                         *)
LEMMA StoppedReading ==
  \A so : IsReading(so) => IsReading(Stopped(so)) /\ Stopped(so).failed
<1> SUFFICES ASSUME NEW so, IsReading(so) PROVE IsReading(Stopped(so)) /\ Stopped(so).failed
  OBVIOUS
<1> DEFINE Is(t, f) == t.failed = f /\ (f \in BOOLEAN => IsReading(t))
<1>1. \A f : Is([so EXCEPT !.failed = f], f)
  <2> SUFFICES ASSUME NEW f PROVE Is([so EXCEPT !.failed = f], f)
    OBVIOUS
  <2> DEFINE t == [so EXCEPT !.failed = f]
  <2>1. t = [rest |-> so.rest, used |-> so.used, counts |-> so.counts, fields |-> so.fields,
             failed |-> f]
    <3>1. PICK r, u, c, s, g :
            /\ so = [rest |-> r, used |-> u, counts |-> c, fields |-> s, failed |-> g]
            /\ r = so.rest /\ u = so.used /\ c = so.counts /\ s = so.fields
      BY Zenon DEF IsReading
    <3>2. t = [rest |-> r, used |-> u, counts |-> c, fields |-> s, failed |-> f]
      BY <3>1
    <3> QED BY <3>1, <3>2, Zenon
  <2>2. so.rest \in Seq(Byte) /\ so.used \in Nat /\ so.fields \in Seq(Seq(Byte))
    BY DEF IsReading
  <2> HIDE DEF t
  <2>3. /\ t.rest = so.rest /\ t.used = so.used /\ t.counts = so.counts
        /\ t.fields = so.fields /\ t.failed = f
    BY <2>1
  <2>4. t = [rest |-> t.rest, used |-> t.used, counts |-> t.counts, fields |-> t.fields,
             failed |-> t.failed]
    BY <2>1, <2>3, Zenon
  <2>5. f \in BOOLEAN => IsReading(t)
    BY <2>2, <2>3, <2>4, Zenon DEF IsReading
  <2> QED BY <2>3, <2>5, Zenon DEF t
<1> HIDE DEF Is
<1>2. \A f : f = TRUE => Is([so EXCEPT !.failed = f], f)
  BY <1>1
<1>3. Is(Stopped(so), TRUE)
  BY <1>2, Zenon DEF Stopped
<1>4. Stopped(so).failed = TRUE /\ IsReading(Stopped(so))
  BY <1>3, Zenon DEF Is
<1> QED BY <1>4

(* A member decoded: it takes its width of the rest, and fails only for want  *)
(* of bytes, a count beyond the capacity or what is no bearer.                *)
StepRead(members, fields, p, so, next) ==
  LET width == ReadWidth(members, so, p)
      bytes == SubSeq(so.rest, 1, width)
  IN  /\ IsReading(next)
      /\ ~next.failed =>
           /\ ~so.failed /\ width <= Len(so.rest)
           /\ next.used = so.used + width
           /\ next.rest = SubSeq(so.rest, width + 1, Len(so.rest))
           /\ Hidden(members, p) =>
                /\ next.fields = so.fields
                /\ next.counts =
                     Noted(so.counts, Min(Dependents(members, members[p].name)), Number(bytes))
           /\ ~Hidden(members, p) =>
                /\ next.fields = Append(so.fields, bytes) /\ next.counts = so.counts
                /\ LET type == fields[FieldOf(members, p)].type[target]
                   IN  type.shape = "bounded" => so.counts[p] <= type.capacity
      /\ ~so.failed /\ width <= Len(so.rest) /\ Accepts(members, fields, p, so, bytes)
           => ~next.failed

(* Reading a member that fits fails only where the bytes end too soon, a list *)
(* is longer than its buffer or a bearer is none of its release's.            *)
LEMMA DecodedStep ==
  ASSUME NEW members, Loads(members), NEW fields, NEW e, NEW p \in 1..Len(members),
         Readable(members, fields, p, e),
         NEW so, IsReading(so), members[p].kind = "counted" => so.counts[p] \in Nat
  PROVE  StepRead(members, fields, p, so, DecodedMember(members, fields, so, p))
<1> DEFINE m == members[p]
           next == DecodedMember(members, fields, so, p)
           width == ReadWidth(members, so, p)
           bytes == SubSeq(so.rest, 1, width)
           type == fields[FieldOf(members, p)].type[target]
           item == IF type.shape = "plain" THEN type ELSE type.item
           chunk == IF type.shape = "plain" THEN ItemWidth(type) ELSE item.width
           elements == ElementsOf(bytes, width, chunk)
           list == Min(Dependents(members, m.name))
           count == Number(bytes)
           fits == type.shape = "bounded" => so.counts[p] <= type.capacity
           refuses == \/ \E n \in elements : ~Decodes(item, n)
                      \/ type.shape = "bounded" /\ so.counts[p] > type.capacity
<1>1. next = IF so.failed \/ width > Len(so.rest) THEN Stopped(so)
             ELSE IF Hidden(members, p) THEN Counted(so, width, list, count)
             ELSE IF refuses THEN Stopped(so) ELSE Kept(so, width, bytes)
  BY Zenon DEF DecodedMember, ReadWidth, ElementsOf, Stopped, Moved, Counted, Kept
<1>2. width \in Nat /\ m.kind \in {"scalar", "struct", "array", "counted"}
  BY ReadWidths
<1>3. PICK r, u, c, s, f :
        /\ r \in Seq(Byte) /\ u \in Nat /\ s \in Seq(Seq(Byte)) /\ f \in BOOLEAN /\ Len(r) \in Nat
        /\ so = [rest |-> r, used |-> u, counts |-> c, fields |-> s, failed |-> f]
        /\ so.rest = r /\ so.used = u /\ so.counts = c /\ so.fields = s /\ so.failed = f
  BY DEF IsReading
<1> DEFINE after == SubSeq(so.rest, width + 1, Len(so.rest))
<1>5. /\ Counted(so, width, list, count) = [rest |-> after, used |-> u + width,
           counts |-> Noted(c, list, count), fields |-> s, failed |-> f]
      /\ Kept(so, width, bytes) = [rest |-> after, used |-> u + width,
           counts |-> c, fields |-> Append(s, bytes), failed |-> f]
  <2> HIDE DEF width, list, count, bytes
  <2> DEFINE moved == Moved(so, width)
             rest == SubSeq(r, width + 1, Len(r))
  <2>1. moved = [rest |-> rest, used |-> u + width, counts |-> c, fields |-> s, failed |-> f]
    <3>1. moved = [so EXCEPT !.rest = rest, !.used = u + width]
      BY <1>3 DEF Moved
    <3> HIDE DEF rest, moved
    <3> QED BY <1>3, <3>1
  <2>2. after = rest
    BY <1>3
  <2>3. Counted(so, width, list, count) = [moved EXCEPT !.counts = Noted(@, list, count)]
        /\ Kept(so, width, bytes) = [moved EXCEPT !.fields = Append(@, bytes)]
    BY DEF Counted, Kept
  <2> HIDE DEF moved, rest, after
  <2>4. Counted(so, width, list, count)
          = [rest |-> rest, used |-> u + width, counts |-> Noted(c, list, count), fields |-> s, failed |-> f]
    <3>1. moved.counts = c
      BY <2>1
    <3> DEFINE d == Noted(c, list, count)
    <3>2. Counted(so, width, list, count) = [moved EXCEPT !.counts = d]
      BY <2>3, <3>1
    <3> HIDE DEF d
    <3>3. [moved EXCEPT !.counts = d]
            = [rest |-> rest, used |-> u + width, counts |-> d, fields |-> s, failed |-> f]
      BY <2>1
    <3> QED BY <3>2, <3>3 DEF d
  <2>5. Kept(so, width, bytes)
          = [rest |-> rest, used |-> u + width, counts |-> c, fields |-> Append(s, bytes),
             failed |-> f]
    <3>1. moved.fields = s
      BY <2>1
    <3> DEFINE d == Append(s, bytes)
    <3>2. Kept(so, width, bytes) = [moved EXCEPT !.fields = d]
      BY <2>3, <3>1
    <3> HIDE DEF d
    <3>3. [moved EXCEPT !.fields = d]
            = [rest |-> rest, used |-> u + width, counts |-> c, fields |-> d, failed |-> f]
      BY <2>1
    <3> QED BY <3>2, <3>3 DEF d
  <2> QED BY <2>2, <2>4, <2>5
<1> HIDE DEF width
<1>4. ASSUME width <= Len(so.rest)
      PROVE  bytes \in Seq(Byte) /\ Len(bytes) = width /\ after \in Seq(Byte)
  <2> DEFINE T == Byte
  <2>1. r \in Seq(T) /\ Len(r) \in Nat
    BY <1>3
  <2> HIDE DEF T
  <2> HIDE DEF bytes, after
  <2>2. SubSeq(r, 0 + 1, width) \in Seq(T) /\ Len(SubSeq(r, 0 + 1, width)) = width - 0
    <3>1. 0 <= width /\ width <= Len(r)
      BY <1>2, <1>3, <1>4
    <3> QED BY <1>2, <2>1, <3>1, PartOf
  <2>3. SubSeq(r, width + 1, Len(r)) \in Seq(T)
    BY <1>2, <1>3, <1>4, <2>1, PartOf
  <2>4. 0 + 1 = 1 /\ width - 0 = width
    BY <1>2
  <2> QED BY <1>3, <2>2, <2>3, <2>4 DEF T, after, bytes
<1> HIDE DEF bytes, after
<1>6. ASSUME width <= Len(so.rest), ~Hidden(members, p)
      PROVE  /\ ~refuses => fits
             /\ Accepts(members, fields, p, so, bytes) => ~refuses
  <2>1. ReadFits(members, p, type, e)
    BY <1>6 DEF Readable
  <2>2. bytes \in Seq(Byte) /\ Len(bytes) = width
    BY <1>4, <1>6
  <2>3. Accepts(members, fields, p, so, bytes) <=>
          /\ m.kind # "counted" /\ type.last # 0 => Number(bytes) \in Bearers(type.last)
          /\ fits
    BY <1>6 DEF Accepts
  <2> HIDE DEF type
  <2>4. CASE m.kind # "counted"
    <3>1. /\ type.shape = "plain" /\ type.width = MaxWidth(m) /\ DecodesAny(type) /\ Encodes(type)
          /\ type.last # 0 => type.len = 1
      BY <2>1, <2>4, Zenon DEF ReadFits
    <3>2. /\ type.len \in Nat \ {0} /\ ItemWidth(type) \in Nat \ {0}
          /\ type.width = type.len * ItemWidth(type)
      BY <3>1 DEF Encodes
    <3>3. width = type.width
      BY <2>4, <3>1, ReadWidths DEF width
    <3>4. chunk = ItemWidth(type) /\ item = type
      BY <3>1
    <3> HIDE DEF chunk, item, m
    <3>5. /\ \A n \in elements : n \in Nat /\ n < Power(ItemWidth(type))
          /\ type.last # 0 => elements \subseteq {Number(bytes)}
      <4>1. type.last # 0 => chunk = width
        BY <3>1, <3>2, <3>3, <3>4
      <4> QED BY <1>2, <2>2, <3>2, <3>4, <4>1, ElementsBound
    <3>6. ASSUME type.last # 0 => Number(bytes) \in Bearers(type.last), NEW n \in elements
          PROVE  Decodes(type, n)
      BY <3>1, <3>2, <3>5, <3>6, AnyDecoded
    <3> QED BY <2>3, <2>4, <3>1, <3>4, <3>6 DEF m
  <2>5. CASE m.kind = "counted"
    <3>1. /\ type.shape \in {"slice", "elements", "bounded"} /\ Encodes(type)
          /\ type.item.width = ElementWidth(m.element)
          /\ type.item.len = 1 /\ type.item.last = 0 /\ DecodesAny(type.item)
      BY <2>1, <2>5, Zenon DEF ReadFits
    <3>2. type.item.width \in Nat \ {0}
      BY <3>1 DEF Encodes
    <3>3. ItemWidth(type.item) = type.item.width
      BY <3>1, <3>2 DEF ItemWidth
    <3>4. chunk = type.item.width /\ item = type.item
      BY <3>1
    <3> HIDE DEF chunk, item, m
    <3>5. \A n \in elements : n \in Nat /\ n < Power(type.item.width)
      BY <1>2, <2>2, <3>2, <3>4, ElementsBound
    <3>6. \A n \in elements : Decodes(type.item, n)
      BY <3>1, <3>2, <3>3, <3>5, AnyDecoded
    <3>8. so.counts[p] \in Nat
      BY <2>5 DEF m
    <3>9. type.shape = "bounded" => type.capacity \in Nat
      <4>1. type.shape = "bounded" => type.capacity = m.capacity
        BY <2>1, <2>5, Zenon DEF ReadFits, m
      <4>2. m.capacity \in Nat
        BY <2>5, LoadedMembers DEF Fields, m
      <4> QED BY <4>1, <4>2
    <3> QED BY <2>3, <3>4, <3>6, <3>8, <3>9
  <2> QED BY <1>2, <2>4, <2>5
<1> DEFINE passes == ~so.failed /\ width <= Len(so.rest)
<1> HIDE DEF refuses, fits
<1>7. so.failed \/ width > Len(so.rest) <=> ~passes
  BY <1>2, <1>3
<1> HIDE DEF next, list, count
<1> SUFFICES StepRead(members, fields, p, so, next)
  BY DEF next
<1>8. CASE ~passes
  <2>1. next = Stopped(so)
    BY <1>1, <1>7, <1>8
  <2>2. IsReading(next) /\ next.failed
    BY <2>1, StoppedReading, Zenon
  <2> QED BY <1>8, <2>2 DEF StepRead, width
<1>9. CASE passes /\ Hidden(members, p)
  <2>1. next = Counted(so, width, list, count)
    BY <1>1, <1>7, <1>9
  <2>2. after \in Seq(Byte)
    BY <1>4, <1>9
  <2>3. so.used + width \in Nat
    BY <1>2, <1>3
  <2>4. /\ IsReading(next) /\ next.rest = after /\ next.used = so.used + width
        /\ next.counts = Noted(so.counts, list, count) /\ next.fields = so.fields /\ ~next.failed
    <3> DEFINE d == Noted(c, list, count)
    <3>1. next = [rest |-> after, used |-> u + width, counts |-> d, fields |-> s, failed |-> f]
      BY <1>5, <2>1, Zenon
    <3> HIDE DEF d
    <3>2. u + width \in Nat /\ s \in Seq(Seq(Byte))
      BY <1>3, <2>3
    <3>3. /\ next.rest = after /\ next.used = u + width /\ next.counts = d
          /\ next.fields = s /\ next.failed = f
      BY <3>1, ReadingParts, Zenon
    <3>4. IsReading(next)
      <4>1. next = [rest |-> next.rest, used |-> next.used, counts |-> next.counts,
                    fields |-> next.fields, failed |-> next.failed]
        BY <3>1, <3>3, Zenon
      <4>2. after \in Seq(Byte) /\ f \in BOOLEAN
        BY <1>3, <2>2, Zenon
      <4> QED BY <3>2, <3>3, <4>1, <4>2, Zenon DEF IsReading
    <3>5. next.failed = so.failed
      BY <1>3, <3>3, Zenon
    <3>6. ~next.failed
      BY <1>9, <3>5
    <3> QED BY <1>3, <3>3, <3>4, <3>6 DEF d
  <2> QED BY <1>9, <2>4 DEF StepRead, after, bytes, width, list, count
<1>10. CASE passes /\ ~Hidden(members, p) /\ refuses
  <2>1. next = Stopped(so)
    BY <1>1, <1>7, <1>10
  <2>2. ~Accepts(members, fields, p, so, bytes)
    BY <1>6, <1>10
  <2>3. IsReading(next) /\ next.failed
    BY <2>1, StoppedReading, Zenon
  <2> QED BY <1>10, <2>2, <2>3 DEF StepRead, width, bytes
<1>11. CASE passes /\ ~Hidden(members, p) /\ ~refuses
  <2>1. next = Kept(so, width, bytes)
    BY <1>1, <1>7, <1>11
  <2>2. after \in Seq(Byte) /\ bytes \in Seq(Byte)
    BY <1>4, <1>11
  <2>3. so.used + width \in Nat
    BY <1>2, <1>3
  <2>4. Append(so.fields, bytes) \in Seq(Seq(Byte))
    BY <1>3, <2>2
  <2>5. fits
    BY <1>6, <1>11
  <2>6. /\ IsReading(next) /\ next.rest = after /\ next.used = so.used + width
        /\ next.counts = so.counts /\ next.fields = Append(so.fields, bytes) /\ ~next.failed
    <3>1. next = [rest |-> after, used |-> u + width, counts |-> c,
                  fields |-> Append(s, bytes), failed |-> f]
      BY <1>5, <2>1, Zenon
    <3>2. u + width \in Nat /\ Append(s, bytes) \in Seq(Seq(Byte))
      BY <1>3, <2>3, <2>4
    <3>3. /\ next.rest = after /\ next.used = u + width /\ next.counts = c
          /\ next.fields = Append(s, bytes) /\ next.failed = f
      BY <3>1, ReadingParts, Zenon
    <3>4. IsReading(next)
      <4>1. next = [rest |-> next.rest, used |-> next.used, counts |-> next.counts,
                    fields |-> next.fields, failed |-> next.failed]
        BY <3>1, <3>3, Zenon
      <4>2. after \in Seq(Byte) /\ f \in BOOLEAN
        BY <1>3, <2>2, Zenon
      <4> QED BY <3>2, <3>3, <4>1, <4>2, Zenon DEF IsReading
    <3>5. next.failed = so.failed
      BY <1>3, <3>3, Zenon
    <3>6. ~next.failed
      BY <1>11, <3>5
    <3> QED BY <1>3, <3>3, <3>4, <3>6
  <2> QED BY <1>11, <2>5, <2>6 DEF StepRead, fits, width, bytes, after
<1> QED BY <1>8, <1>9, <1>10, <1>11

------------------------------------------------------------------------------
(* The members read, one after the other.                                     *)

(* Fields to read a layout with, on a target whose release has `e`.           *)
ReadsFitted(members, fields, e) ==
  /\ Loads(members) /\ Loads(e.returns) /\ SameLayout(members, e.returns)
  /\ \A p \in 1..Len(members) : Readable(members, fields, p, e)

(* The visible members among the first ones, after each.                      *)
Keeps(members, g) ==
  /\ Visible(members) = g[Len(members)] /\ g[0] = <<>>
  /\ \A n \in 1..Len(members) :
       g[n] = IF ~Hidden(members, n) THEN Append(g[n - 1], n) ELSE g[n - 1]

(* Select goes through the members one by one.                                *)
LEMMA KeepsExists ==
  ASSUME NEW members, Loads(members)
  PROVE  \E g : Keeps(members, g)
<1> DEFINE l == Len(members)
           s == [p \in 1..l |-> p]
           chosen == {p \in 1..l : ~Hidden(members, p)}
<1>1. l \in Nat /\ DOMAIN members = 1..l
  BY LoadedMembers
<1>2. Visible(members) = Select(s, chosen)
  BY <1>1 DEF Visible
<1>3. s \in Seq(Nat) /\ Len(s) = l /\ \A n \in 1..l : s[n] = n
  <2> HIDE DEF l
  <2> QED BY <1>1
<1>4. \A n \in 1..l : n \in chosen <=> ~Hidden(members, n)
  OBVIOUS
<1> HIDE DEF s, chosen, l
<1>5. PICK g : /\ Select(s, chosen) = g[Len(s)] /\ g[0] = <<>>
               /\ \A n \in 1..Len(s) :
                    g[n] = IF n \in chosen THEN Append(g[n - 1], s[n]) ELSE g[n - 1]
  <2> DEFINE T == Nat
  <2>1. s \in Seq(T)
    BY <1>3
  <2> HIDE DEF T
  <2>2. \E h : /\ Select(s, chosen) = h[Len(s)] /\ h[0] = <<>>
               /\ \A n \in 1..Len(s) :
                    h[n] = IF n \in chosen THEN Append(h[n - 1], s[n]) ELSE h[n - 1]
    BY <2>1, SelectSteps
  <2> QED BY <2>2, Zenon
<1>6. Keeps(members, g)
  BY <1>2, <1>3, <1>4, <1>5 DEF Keeps, l
<1> QED BY <1>6

(* The bytes of a member read.                                                *)
ReadPart(f, p) == SubSeq(answer, f[p - 1].used + 1, f[p].used)

(* A member read takes the width its layout gives it, a list what its count   *)
(* says.                                                                      *)
ReadMember(members, f, p) ==
  LET m == members[p]
      width == f[p].used - f[p - 1].used
      of == Number(ReadPart(f, Place(members, m.count)))
  IN  /\ f[p - 1].used \in Nat /\ f[p].used \in Nat
      /\ f[p - 1].used <= f[p].used /\ f[p].used <= Len(answer)
      /\ m.kind \in {"scalar", "struct", "array", "counted"}
      /\ m.kind # "counted" => width = MaxWidth(m)
      /\ m.kind = "counted" =>
           width = of * ElementWidth(m.element) /\ (~IsEvent => of <= m.capacity)

(* The counts read are kept for the lists behind them.                        *)
CountsRead(members, f, n) ==
  \A c \in 1..n : \A q \in Dependents(members, members[c].name) :
    q \in DOMAIN f[n].counts /\ f[n].counts[q] = Number(ReadPart(f, c))

(* What is read of the first n members, if reading has not failed.            *)
ReadUpTo(members, f, g, n) ==
  /\ IsReading(f[n]) /\ g[n] \in Seq(Nat)
  /\ ~f[n].failed =>
       /\ f[n].used <= Len(answer)
       /\ f[n].rest = SubSeq(answer, f[n].used + 1, Len(answer))
       /\ \A p \in 1..n : ReadMember(members, f, p)
       /\ CountsRead(members, f, n)
       /\ f[n].fields = [k \in 1..Len(g[n]) |-> ReadPart(f, g[n][k])]

(* Parts of the answer.                                                       *)
LEMMA ReadPartBytes ==
  ASSUME answer \in Seq(Byte), NEW members, NEW f, NEW p, ReadMember(members, f, p)
  PROVE  ReadPart(f, p) \in Seq(Byte) /\ Len(ReadPart(f, p)) = f[p].used - f[p - 1].used
<1> DEFINE T == Byte
           a == f[p - 1].used
           b == f[p].used
<1>1. a \in Nat /\ b \in Nat /\ a <= b /\ b <= Len(answer)
  BY Zenon DEF ReadMember
<1>2. answer \in Seq(T)
  OBVIOUS
<1> HIDE DEF T, a, b
<1>3. SubSeq(answer, a + 1, b) \in Seq(T) /\ Len(SubSeq(answer, a + 1, b)) = b - a
  BY <1>1, <1>2, PartOf
<1> QED BY <1>3 DEF T, a, b, ReadPart

(* A list's count is read before it.                                          *)
LEMMA CountOfList ==
  ASSUME NEW members, Loads(members), NEW p \in 1..Len(members), members[p].kind = "counted"
  PROVE  /\ Place(members, members[p].count) \in 1..(p - 1)
         /\ Place(members, members[p].count) \in 1..Len(members)
         /\ p \in Dependents(members, members[Place(members, members[p].count)].name)
         /\ members[Place(members, members[p].count)].kind = "scalar"
         /\ Hidden(members, Place(members, members[p].count))
<1> DEFINE c == Place(members, members[p].count)
<1>1. c \in 1..Len(members) /\ p \in Dependents(members, members[c].name)
  BY ReferredPlace
<1> HIDE DEF c
<1>2. c < p /\ members[c].kind = "scalar"
  BY <1>1, DependentsOf
<1>3. Len(members) \in Nat
  BY LoadedMembers
<1>4. c \in 1..(p - 1)
  BY <1>1, <1>2, <1>3
<1>5. Hidden(members, c)
  BY <1>1 DEF Hidden
<1> QED BY <1>1, <1>2, <1>4, <1>5 DEF c

(* One dependent of one member.                                               *)
LEMMA DependentsApart ==
  ASSUME NEW members, Loads(members), NEW b \in 1..Len(members), NEW c \in 1..Len(members),
         NEW q, q \in Dependents(members, members[b].name), q \in Dependents(members, members[c].name)
  PROVE  b = c
<1>1. members[b].name = members[c].name
  BY DEF Dependents
<1> QED BY <1>1, LoadedMembers

(* What is left of the answer, and what is read of it next.                   *)
LEMMA RestOfAnswer ==
  ASSUME answer \in Seq(Byte), NEW u \in Nat, u <= Len(answer),
         NEW rest, rest = SubSeq(answer, u + 1, Len(answer)), NEW w \in Nat
  PROVE  /\ Len(rest) = Len(answer) - u /\ Len(answer) \in Nat
         /\ w <= Len(rest) =>
              /\ u + w <= Len(answer) /\ SubSeq(rest, 1, w) = SubSeq(answer, u + 1, u + w)
              /\ SubSeq(rest, w + 1, Len(rest)) = SubSeq(answer, u + w + 1, Len(answer))
<1> DEFINE T == Byte
           l == Len(answer)
<1>1. answer \in Seq(T) /\ l \in Nat
  OBVIOUS
<1> HIDE DEF T
<1>2. Len(rest) = l - u
  BY <1>1, PartOf
<1>3. ASSUME w <= Len(rest)
      PROVE  /\ u + w <= l /\ SubSeq(rest, 1, w) = SubSeq(answer, u + 1, u + w)
             /\ SubSeq(rest, w + 1, Len(rest)) = SubSeq(answer, u + w + 1, l)
  <2>1. w <= l - u /\ u + w <= l /\ l - u \in Nat /\ u <= l /\ l <= Len(answer)
    BY <1>1, <1>2, <1>3
  <2> DEFINE left == SubSeq(SubSeq(answer, u + 1, l), 0 + 1, w)
             right == SubSeq(SubSeq(answer, u + 1, l), w + 1, l - u)
  <2>2. left = SubSeq(answer, u + 0 + 1, u + w)
    <3> HIDE DEF l
    <3>1. 0 <= w
      OBVIOUS
    <3> QED BY <1>1, <2>1, <3>1, PartOfPart
  <2>3. right = SubSeq(answer, u + w + 1, u + (l - u))
    <3> HIDE DEF l
    <3>1. l - u <= l - u
      BY <2>1
    <3> QED BY <1>1, <2>1, <3>1, PartOfPart
  <2>4. left = SubSeq(rest, 1, w) /\ right = SubSeq(rest, w + 1, Len(rest))
    BY <1>2
  <2>5. u + 0 + 1 = u + 1 /\ u + (l - u) = l
    BY <1>1
  <2> HIDE DEF left, right, l
  <2> QED BY <2>1, <2>2, <2>3, <2>4, <2>5
<1> QED BY <1>1, <1>2, <1>3

(* The counts kept once a member of a width and bytes is read.                *)
LEMMA CountsNext ==
  ASSUME NEW members, Loads(members), NEW f, NEW n \in Nat, n + 1 \in 1..Len(members),
         CountsRead(members, f, n),
         LET p == n + 1
         IN  /\ Hidden(members, p) => f[p].counts =
                  Noted(f[n].counts, Min(Dependents(members, members[p].name)), Number(ReadPart(f, p)))
             /\ ~Hidden(members, p) => f[p].counts = f[n].counts
  PROVE  CountsRead(members, f, n + 1)
<1> DEFINE p == n + 1
           on == Dependents(members, members[p].name)
           now == f[p].counts
           before == f[n].counts
           number == Number(ReadPart(f, p))
<1>0. 1..p = 1..n \cup {p} /\ p \in 1..Len(members) /\ \A c \in 1..n : c \in 1..Len(members) /\ c # p
  BY LoadedMembers
<1>1. /\ Hidden(members, p) => now = Noted(before, Min(on), number)
      /\ ~Hidden(members, p) => now = before /\ on = {}
  BY DEF Hidden
<1>2. Hidden(members, p) => \E q \in Nat : on = {q}
  <2>1. \A q \in on : q \in 1..Len(members) /\ on = {q}
    BY <1>0, DependentsOf
  <2>2. Hidden(members, p) => \E q : q \in on
    BY Zenon DEF Hidden
  <2> QED BY <2>1, <2>2
<1> SUFFICES ASSUME NEW c \in 1..p, NEW q \in Dependents(members, members[c].name)
             PROVE  q \in DOMAIN now /\ now[q] = Number(ReadPart(f, c))
  BY DEF CountsRead
<1> HIDE DEF p
<1>3. CASE c = p
  <2>1. q \in on /\ Hidden(members, p)
    BY <1>3 DEF Hidden
  <2>2. on = {q} /\ q \in Nat
    BY <1>2, <2>1
  <2>3. Min(on) = q
    BY <2>2, MinOfOne
  <2> HIDE DEF on, now, before, number
  <2>4. now = Noted(before, q, number)
    BY <1>1, <2>1, <2>3
  <2>5. q \in DOMAIN now /\ now[q] = number
    BY <2>4 DEF Noted
  <2> QED BY <1>3, <2>5 DEF number
<1>4. CASE c \in 1..n
  <2>1. q \in DOMAIN before /\ before[q] = Number(ReadPart(f, c))
    BY <1>4, Zenon DEF CountsRead
  <2>2. q \notin on
    BY <1>0, <1>4, DependentsApart
  <2>3. CASE ~Hidden(members, p)
    BY <1>1, <2>1, <2>3
  <2>4. CASE Hidden(members, p)
    <3>1. PICK r \in Nat : on = {r}
      BY <1>2, <2>4
    <3>2. Min(on) = r /\ q # r
      BY <2>2, <3>1, MinOfOne
    <3> HIDE DEF on, now, before, number
    <3>3. now = Noted(before, r, number)
      BY <1>1, <2>4, <3>2
    <3>4. q \in DOMAIN now /\ now[q] = before[q]
      BY <2>1, <3>2, <3>3 DEF Noted
    <3> QED BY <2>1, <3>4 DEF before
  <2> QED BY <2>3, <2>4
<1> QED BY <1>0, <1>3, <1>4

(* The next member is read as decoding one says, a list with the count read   *)
(* for it.                                                                    *)
LEMMA NextRead ==
  ASSUME answer \in Seq(Byte), NEW members, NEW fields, NEW e, ReadsFitted(members, fields, e),
         NEW f, Runs(members, fields, f), NEW g,
         NEW n \in Nat, n < Len(members), ReadUpTo(members, f, g, n), ~f[n].failed
  PROVE  /\ StepRead(members, fields, n + 1, f[n], f[n + 1])
         /\ members[n + 1].kind = "counted" =>
              LET c == Place(members, members[n + 1].count)
              IN  /\ c \in 1..n /\ f[n].counts[n + 1] = Number(ReadPart(f, c))
                  /\ f[n].counts[n + 1] \in Nat
<1> DEFINE p == n + 1
           so == f[n]
           next == f[p]
           m == members[p]
           c == Place(members, m.count)
<1>0. Loads(members) /\ Len(members) \in Nat
  BY LoadedMembers DEF ReadsFitted
<1>1. p \in 1..Len(members) /\ p - 1 = n
  BY <1>0
<1>2. next = DecodedMember(members, fields, so, p)
  BY <1>1 DEF Runs
<1>3. IsReading(so)
  BY Zenon DEF ReadUpTo
<1>4. Readable(members, fields, p, e)
  BY <1>1 DEF ReadsFitted
<1>5. /\ \A q \in 1..n : ReadMember(members, f, q)
      /\ CountsRead(members, f, n)
  BY Zenon DEF ReadUpTo
<1>6. ASSUME m.kind = "counted"
      PROVE  /\ c \in 1..n /\ so.counts[p] = Number(ReadPart(f, c)) /\ so.counts[p] \in Nat
  <2>1. c \in 1..n /\ p \in Dependents(members, members[c].name)
    BY <1>0, <1>1, <1>6, CountOfList
  <2> HIDE DEF c, p
  <2>2. so.counts[p] = Number(ReadPart(f, c)) /\ ReadMember(members, f, c)
    BY <1>5, <2>1 DEF CountsRead
  <2>3. ReadPart(f, c) \in Seq(Byte)
    BY <2>2, ReadPartBytes
  <2>4. Number(ReadPart(f, c)) \in Nat
    BY <2>3, NumberBound
  <2> QED BY <2>1, <2>2, <2>4
<1>7. StepRead(members, fields, p, so, next)
  <2>1. members[p].kind = "counted" => so.counts[p] \in Nat
    BY <1>6
  <2> HIDE DEF p, so, next
  <2> QED BY <1>0, <1>1, <1>2, <1>3, <1>4, <2>1, DecodedStep
<1> QED BY <1>6, <1>7

(* Reading one member more.                                                   *)
LEMMA ReadNext ==
  ASSUME answer \in Seq(Byte), NEW members, NEW fields, NEW e, ReadsFitted(members, fields, e),
         NEW f, Runs(members, fields, f), NEW g, Keeps(members, g),
         NEW n \in Nat, n < Len(members), ReadUpTo(members, f, g, n)
  PROVE  ReadUpTo(members, f, g, n + 1)
<1> DEFINE p == n + 1
           so == f[n]
           next == f[p]
           m == members[p]
           width == ReadWidth(members, so, p)
           bytes == SubSeq(so.rest, 1, width)
<1>0. Loads(members) /\ Len(members) \in Nat
  BY LoadedMembers DEF ReadsFitted
<1>1. p \in 1..Len(members) /\ p - 1 = n /\ n + 1 = p /\ p \in Nat /\ 1..p = 1..n \cup {p} /\ p \notin 1..n
  BY <1>0
<1>2. /\ next = DecodedMember(members, fields, so, p)
      /\ g[p] = IF ~Hidden(members, p) THEN Append(g[n], p) ELSE g[n]
  BY <1>1 DEF Runs, Keeps
<1>3. IsReading(so) /\ g[n] \in Seq(Nat)
  BY Zenon DEF ReadUpTo
<1>4. Readable(members, fields, p, e)
  BY <1>1 DEF ReadsFitted
<1>5. g[p] \in Seq(Nat) /\ Len(g[n]) \in Nat
  <2> HIDE DEF p
  <2> QED BY <1>1, <1>2, <1>3
<1>6. CASE so.failed
  <2>1. next = Stopped(so)
    BY <1>2, <1>6, Zenon DEF DecodedMember, Stopped
  <2>2. IsReading(next) /\ next.failed
    BY <1>3, <2>1, StoppedReading, Zenon
  <2> QED BY <1>5, <2>2 DEF ReadUpTo
<1>7. CASE ~so.failed
  <2>1. /\ so.used <= Len(answer)
        /\ so.rest = SubSeq(answer, so.used + 1, Len(answer))
        /\ \A q \in 1..n : ReadMember(members, f, q)
        /\ CountsRead(members, f, n)
        /\ so.fields = [k \in 1..Len(g[n]) |-> ReadPart(f, g[n][k])]
    BY <1>7, Zenon DEF ReadUpTo
  <2> DEFINE c == Place(members, m.count)
  <2>3. /\ StepRead(members, fields, p, so, next)
        /\ m.kind = "counted" =>
             c \in 1..n /\ so.counts[p] = Number(ReadPart(f, c)) /\ so.counts[p] \in Nat
    BY <1>7, NextRead
  <2>2. m.kind = "counted" =>
          c \in 1..n /\ so.counts[p] = Number(ReadPart(f, c)) /\ so.counts[p] \in Nat
    BY <2>3
  <2>4. ASSUME ~next.failed
        PROVE  /\ next.used <= Len(answer)
               /\ next.rest = SubSeq(answer, next.used + 1, Len(answer))
               /\ \A q \in 1..p : ReadMember(members, f, q)
               /\ CountsRead(members, f, p)
               /\ next.fields = [k \in 1..Len(g[p]) |-> ReadPart(f, g[p][k])]
    <3>1. /\ width <= Len(so.rest) /\ next.used = so.used + width
          /\ next.rest = SubSeq(so.rest, width + 1, Len(so.rest))
          /\ Hidden(members, p) =>
               /\ next.fields = so.fields
               /\ next.counts =
                    Noted(so.counts, Min(Dependents(members, members[p].name)), Number(bytes))
          /\ ~Hidden(members, p) =>
               /\ next.fields = Append(so.fields, bytes) /\ next.counts = so.counts
               /\ LET type == fields[FieldOf(members, p)].type[target]
                  IN  type.shape = "bounded" => so.counts[p] <= type.capacity
      BY <2>3, <2>4, Zenon DEF StepRead
    <3>2. /\ m.kind # "counted" => width = MaxWidth(m)
          /\ m.kind = "counted" => width = so.counts[p] * ElementWidth(m.element)
          /\ width \in Nat /\ m.kind \in {"scalar", "struct", "array", "counted"}
      <4>1. m.kind = "counted" => so.counts[p] \in Nat
        BY <2>2
      <4> HIDE DEF p, so
      <4> QED BY <1>0, <1>1, <1>4, <4>1, ReadWidths
    <3>3. so.used \in Nat
      BY <1>3 DEF IsReading
    <3> DEFINE part == ReadPart(f, p)
    <3>4. part = SubSeq(answer, so.used + 1, next.used)
      BY <1>1 DEF ReadPart
    <3> HIDE DEF width, p, so, next, part
    <3>5. /\ next.used <= Len(answer) /\ next.used \in Nat /\ so.used <= next.used
          /\ next.rest = SubSeq(answer, next.used + 1, Len(answer))
          /\ bytes = part /\ next.used - so.used = width
      <4>1. /\ so.used + width <= Len(answer)
            /\ SubSeq(so.rest, 1, width) = SubSeq(answer, so.used + 1, so.used + width)
            /\ SubSeq(so.rest, width + 1, Len(so.rest))
                 = SubSeq(answer, so.used + width + 1, Len(answer))
        <5> DEFINE u == so.used
                   rest == so.rest
        <5>1. u \in Nat /\ u <= Len(answer) /\ rest = SubSeq(answer, u + 1, Len(answer))
              /\ width \in Nat /\ width <= Len(rest)
          BY <2>1, <3>1, <3>2, <3>3
        <5> HIDE DEF u, rest
        <5>2. /\ u + width <= Len(answer)
              /\ SubSeq(rest, 1, width) = SubSeq(answer, u + 1, u + width)
              /\ SubSeq(rest, width + 1, Len(rest)) = SubSeq(answer, u + width + 1, Len(answer))
          BY <5>1, RestOfAnswer
        <5> QED BY <5>2 DEF u, rest
      <4>2. /\ so.used + width \in Nat /\ so.used <= so.used + width
            /\ so.used + width - so.used = width
        BY <3>2, <3>3
      <4>3. next.used <= Len(answer) /\ next.used \in Nat /\ so.used <= next.used
            /\ next.used - so.used = width
        <5>1. next.used = so.used + width
          BY <3>1, Zenon
        <5>2. so.used + width <= Len(answer)
          BY <4>1, Zenon
        <5>3. next.used <= Len(answer)
          BY <5>1, <5>2, Zenon
        <5>4. width \in Nat /\ so.used \in Nat
          BY <3>2, <3>3, Zenon
        <5> HIDE DEF width
        <5> QED BY <5>1, <5>3, <5>4
      <4>4. next.rest = SubSeq(answer, next.used + 1, Len(answer)) /\ bytes = part
        BY <3>1, <3>4, <4>1
      <4> QED BY <4>3, <4>4
    <3> HIDE DEF bytes
    <3>6. ReadMember(members, f, p)
      <4>1. f[p - 1] = so /\ f[p] = next
        BY <1>1 DEF so, next
      <4>2. ASSUME m.kind = "counted", ~IsEvent PROVE so.counts[p] <= m.capacity
        <5>1. ~Hidden(members, p)
          BY <1>0, <1>1, <4>2, DependentsOf
        <5> DEFINE type == fields[FieldOf(members, p)].type[target]
        <5>2. ReadFits(members, p, type, e)
          BY <1>4, <5>1, Zenon DEF Readable
        <5> HIDE DEF type
        <5>3. type.shape = "bounded" /\ type.capacity = m.capacity
          BY <4>2, <5>2, Zenon DEF ReadFits
        <5> QED BY <3>1, <5>1, <5>3 DEF type
      <4>3. m.kind = "counted" => Number(ReadPart(f, Place(members, m.count))) = so.counts[p]
        BY <2>2
      <4> DEFINE of == Number(ReadPart(f, Place(members, m.count)))
      <4> HIDE DEF of, m
      <4>4. /\ so.used \in Nat /\ next.used \in Nat
            /\ so.used <= next.used /\ next.used <= Len(answer)
            /\ m.kind \in {"scalar", "struct", "array", "counted"}
            /\ m.kind # "counted" => next.used - so.used = MaxWidth(m)
            /\ m.kind = "counted" =>
                 next.used - so.used = of * ElementWidth(m.element) /\ (~IsEvent => of <= m.capacity)
        BY <3>2, <3>3, <3>5, <4>2, <4>3 DEF of
      <4> QED BY <4>1, <4>4, Zenon DEF ReadMember, of, m
    <3>7. CountsRead(members, f, p)
      <4>1. /\ n + 1 \in 1..Len(members)
            /\ LET o == n + 1
               IN  /\ Hidden(members, o) => f[o].counts =
                       Noted(f[n].counts, Min(Dependents(members, members[o].name)),
                             Number(ReadPart(f, o)))
                   /\ ~Hidden(members, o) => f[o].counts = f[n].counts
        BY <1>1, <3>1, <3>5 DEF so, next, part
      <4>2. CountsRead(members, f, n + 1)
        BY <1>0, <2>1, <4>1, CountsNext
      <4> QED BY <1>1, <4>2
    <3>8. next.fields = [k \in 1..Len(g[p]) |-> ReadPart(f, g[p][k])]
      <4>1. CASE Hidden(members, p)
        BY <1>2, <2>1, <3>1, <4>1
      <4>2. CASE ~Hidden(members, p)
        <5> DEFINE old == [k \in 1..Len(g[n]) |-> ReadPart(f, g[n][k])]
                   all == Append(g[n], p)
                   L == Len(g[n])
        <5>1. next.fields = Append(old, part) /\ g[p] = all
          BY <1>2, <2>1, <3>1, <3>5, <4>2
        <5>2. Len(all) = L + 1 /\ all[L + 1] = p /\ \A k \in 1..L : all[k] = g[n][k]
          BY <1>3, <1>5
        <5>3. DOMAIN old = 1..L /\ Len(old) = L
          BY <1>5
        <5>4. Append(old, part) = [k \in 1..(L + 1) |-> IF k = L + 1 THEN part ELSE old[k]]
          <6>1. old \in Seq({ReadPart(f, g[n][k]) : k \in 1..L})
            BY <1>5
          <6> DEFINE S == {ReadPart(f, g[n][k]) : k \in 1..L} \cup {part}
                     h == Append(old, part)
          <6>2. old \in Seq(S) /\ part \in S
            BY <5>3, <6>1
          <6> HIDE DEF old, L, S
          <6>3. /\ h \in Seq(S) /\ Len(h) = L + 1
                /\ \A k \in 1..(L + 1) : h[k] = IF k = L + 1 THEN part ELSE old[k]
            BY <5>3, <6>2
          <6> HIDE DEF h
          <6>4. h = [k \in 1..(L + 1) |-> h[k]]
            BY <6>3
          <6> QED BY <6>3, <6>4 DEF h
        <5>5. ASSUME NEW k \in 1..(L + 1)
              PROVE  (IF k = L + 1 THEN part ELSE old[k]) = ReadPart(f, all[k])
          <6>1. CASE k = L + 1
            BY <5>2, <6>1 DEF part
          <6>2. CASE k # L + 1
            <7>1. k \in 1..L
              BY <1>5, <6>2
            <7>2. old[k] = ReadPart(f, g[n][k])
              BY <7>1
            <7> HIDE DEF old, all, L
            <7> QED BY <5>2, <6>2, <7>1, <7>2
          <6> QED BY <6>1, <6>2
        <5> HIDE DEF old, all, L
        <5> QED BY <5>1, <5>2, <5>4, <5>5
      <4> QED BY <4>1, <4>2
    <3>9. \A q \in 1..p : ReadMember(members, f, q)
      BY <1>1, <2>1, <3>6
    <3> QED BY <3>5, <3>7, <3>8, <3>9
  <2>5. IsReading(next)
    BY <2>3, Zenon DEF StepRead
  <2> QED BY <1>5, <2>4, <2>5 DEF ReadUpTo
<1> QED BY <1>6, <1>7

------------------------------------------------------------------------------
(* What is read divides the answer.                                           *)

(* A part of what is used of the answer is a part of the answer.              *)
LEMMA PartOfUsed ==
  ASSUME answer \in Seq(Byte), NEW u \in Nat, u <= Len(answer),
         NEW a \in Nat, NEW b \in Nat, a <= b, b <= u
  PROVE  /\ SubSeq(SubSeq(answer, 1, u), a + 1, b) = SubSeq(answer, a + 1, b)
         /\ SubSeq(answer, 1, u) \in Seq(Byte) /\ Len(SubSeq(answer, 1, u)) = u
<1> DEFINE T == Byte
           o == 0
<1>1. answer \in Seq(T) /\ Len(answer) \in Nat /\ o \in Nat /\ o <= u
  OBVIOUS
<1>2. b <= u - o /\ u - o = u /\ o + 1 = 1 /\ o + a + 1 = a + 1 /\ o + b = b
  OBVIOUS
<1> HIDE DEF T, o
<1>3. SubSeq(SubSeq(answer, o + 1, u), a + 1, b) = SubSeq(answer, o + a + 1, o + b)
  BY <1>1, <1>2, PartOfPart
<1>4. SubSeq(answer, o + 1, u) \in Seq(T) /\ Len(SubSeq(answer, o + 1, u)) = u - o
  BY <1>1, PartOf
<1> QED BY <1>2, <1>3, <1>4 DEF T

(* Nothing is read at first.                                                  *)
LEMMA ReadStart ==
  ASSUME answer \in Seq(Byte), NEW members, NEW fields, NEW f, Runs(members, fields, f),
         NEW g, Keeps(members, g)
  PROVE  ReadUpTo(members, f, g, 0) /\ ~f[0].failed /\ f[0].used = 0
<1> DEFINE so == f[0]
           none == <<>>
<1>1. so = [rest |-> answer, used |-> 0, counts |-> none, fields |-> none, failed |-> FALSE]
  BY Zenon DEF Runs
<1>2. g[0] = <<>>
  BY Zenon DEF Keeps
<1> HIDE DEF none, so
<1>3. so.rest = answer /\ so.used = 0 /\ so.counts = none /\ so.fields = none
  BY <1>1
<1>4. so.failed = FALSE
  BY <1>1
<1>5. so = [rest |-> so.rest, used |-> so.used, counts |-> so.counts, fields |-> so.fields,
            failed |-> so.failed]
  BY <1>1, <1>3, <1>4, Zenon
<1>6. none \in Seq(Seq(Byte)) /\ 0 \in Nat
  BY DEF none
<1>7. so.failed \in BOOLEAN
  BY <1>4
<1>8. IsReading(so)
  BY <1>3, <1>5, <1>6, <1>7, Zenon DEF IsReading
<1>9. /\ 0 <= Len(answer) /\ answer = SubSeq(answer, 0 + 1, Len(answer))
  <2> DEFINE T == Byte
  <2>1. answer \in Seq(T)
    OBVIOUS
  <2> HIDE DEF T
  <2> QED BY <2>1, PartAll
<1>10. <<>> \in Seq(Nat) /\ Len(<<>>) = 0 /\ 1..0 = {}
  OBVIOUS
<1>11. none = [k \in 1..Len(g[0]) |-> ReadPart(f, g[0][k])]
  <2>1. 1..Len(g[0]) = {}
    BY <1>2, <1>10
  <2>2. [k \in {} |-> ReadPart(f, g[0][k])] = <<>>
    OBVIOUS
  <2> QED BY <2>1, <2>2 DEF none
<1>12. (\A p \in 1..0 : ReadMember(members, f, p)) /\ CountsRead(members, f, 0)
  BY <1>10 DEF CountsRead
<1> QED BY <1>2, <1>3, <1>4, <1>8, <1>9, <1>10, <1>11, <1>12 DEF ReadUpTo, so

(* So all members are read, unless reading fails.                             *)
LEMMA ReadAll ==
  ASSUME answer \in Seq(Byte), NEW members, NEW fields, NEW e, ReadsFitted(members, fields, e),
         NEW f, Runs(members, fields, f), NEW g, Keeps(members, g)
  PROVE  \A n \in 0..Len(members) : ReadUpTo(members, f, g, n)
<1> DEFINE N == {n \in Nat : n <= Len(members) => ReadUpTo(members, f, g, n)}
<1>0. Len(members) \in Nat
  BY LoadedMembers DEF ReadsFitted
<1>1. 0 \in N
  BY ReadStart
<1>2. ASSUME NEW n \in Nat, n \in N PROVE n + 1 \in N
  <2> SUFFICES ASSUME n + 1 <= Len(members) PROVE ReadUpTo(members, f, g, n + 1)
    OBVIOUS
  <2>1. n < Len(members) /\ ReadUpTo(members, f, g, n)
    BY <1>0, <1>2
  <2> QED BY <2>1, ReadNext
<1> HIDE DEF N
<1>3. \A n \in Nat : n \in N
  BY <1>1, <1>2, SetInduction
<1> QED BY <1>0, <1>3 DEF N

(* A layout whose lists may fill any count differs in their capacity only.    *)
LEMMA UncappedAlike ==
  ASSUME NEW others, Loads(others)
  PROVE  /\ DOMAIN Uncapped(others) = 1..Len(others) /\ Len(Uncapped(others)) = Len(others)
         /\ \A name : Place(Uncapped(others), name) = Place(others, name)
         /\ \A p \in 1..Len(others) :
              LET f == Uncapped(others)[p]
                  m == others[p]
              IN  /\ f.kind = m.kind
                  /\ m.kind # "counted" => f = m
                  /\ m.kind = "counted" =>
                       /\ f.count = m.count /\ f.element = m.element
                       /\ f.capacity = IF IsEvent THEN Power(others[Place(others, m.count)].width)
                                       ELSE m.capacity
<1> DEFINE l == Len(others)
           capacity(p) == Power(others[Place(others, others[p].count)].width)
           u == [p \in 1..l |-> IF IsEvent /\ others[p].kind = "counted"
                                THEN [others[p] EXCEPT !.capacity = capacity(p)] ELSE others[p]]
<1>1. l \in Nat /\ DOMAIN others = 1..l /\ \A p \in 1..l : others[p] \in Fields
  BY LoadedMembers
<1>2. Uncapped(others) = u
  BY <1>1 DEF Uncapped, Place
<1> HIDE DEF l, capacity
<1>3. ASSUME NEW p \in 1..l
      PROVE  /\ u[p].name = others[p].name /\ u[p].kind = others[p].kind
             /\ others[p].kind # "counted" => u[p] = others[p]
             /\ others[p].kind = "counted" =>
                  /\ u[p].count = others[p].count /\ u[p].element = others[p].element
                  /\ u[p].capacity = IF IsEvent THEN capacity(p) ELSE others[p].capacity
  <2>1. u[p] = IF IsEvent /\ others[p].kind = "counted"
               THEN [others[p] EXCEPT !.capacity = capacity(p)] ELSE others[p]
    OBVIOUS
  <2>2. others[p].kind = "counted" =>
          others[p] \in [name : STRING, kind : {"counted"}, element : Elements,
                         count : STRING, capacity : Nat]
    BY <1>1 DEF Fields
  <2> HIDE DEF u
  <2> QED BY <2>1, <2>2
<1>4. DOMAIN u = 1..l /\ Len(u) = l
  <2>1. u \in Seq(Range(u))
    BY <1>1 DEF Range
  <2>2. DOMAIN u = 1..l
    OBVIOUS
  <2> HIDE DEF u
  <2> QED BY <1>1, <2>1, <2>2
<1>5. ASSUME NEW name PROVE Place(u, name) = Place(others, name)
  <2> HIDE DEF u
  <2>1. \A q \in 1..l : u[q].name = name <=> others[q].name = name
    BY <1>3
  <2> QED BY <1>1, <1>4, <2>1 DEF Place
<1> HIDE DEF u
<1> QED BY <1>2, <1>3, <1>4, <1>5 DEF capacity, l

(* The bytes used divide as a layout says, each field where it puts its       *)
(* member.                                                                    *)
ReadAs(others, so, used, cut) ==
  /\ cut \in Cuts(others, used) /\ Divides(cut, Uncapped(others), used)
  /\ so.fields = [k \in DOMAIN Visible(others) |-> Field(used, cut, Visible(others)[k])]

(* What is read is laid out as the layout of the release says.                *)
LEMMA ReadDivides ==
  ASSUME answer \in Seq(Byte), NEW members, NEW fields, NEW e, ReadsFitted(members, fields, e),
         NEW f, Runs(members, fields, f), NEW g, Keeps(members, g),
         ReadUpTo(members, f, g, Len(members)), ~f[Len(members)].failed,
         NEW u, u = f[Len(members)].used, NEW used, used = SubSeq(answer, 1, u),
         NEW cut, cut = [n \in 0..Len(members) |-> f[n].used]
  PROVE  ReadAs(e.returns, f[Len(members)], used, cut)
<1> DEFINE l == Len(members)
           others == e.returns
           others2 == Uncapped(others)
<1>0. /\ Loads(members) /\ Loads(others) /\ SameLayout(members, others) /\ l \in Nat
      /\ Len(others) = l
  BY LoadedMembers, AlikeMembers DEF ReadsFitted
<1>1. /\ IsReading(f[l])
      /\ u <= Len(answer)
      /\ \A p \in 1..l : ReadMember(members, f, p)
      /\ f[l].fields = [k \in 1..Len(g[l]) |-> ReadPart(f, g[l][k])]
  BY Zenon DEF ReadUpTo
<1>2. u \in Nat /\ f[0].used = 0
  BY <1>1, ReadStart, Zenon DEF IsReading
<1>3. /\ \A n \in 0..l : cut[n] = f[n].used
      /\ \A n \in 0..l : cut[n] \in Nat /\ cut[n] <= u
      /\ cut[0] = 0 /\ cut[l] = u /\ \A p \in 1..l : cut[p - 1] <= cut[p]
  <2>1. \A n \in 0..l : cut[n] = f[n].used
    OBVIOUS
  <2>2. \A p \in 1..l : f[p].used \in Nat /\ f[p - 1].used <= f[p].used
    BY <1>1, Zenon DEF ReadMember
  <2>3. ASSUME NEW n \in 0..l PROVE f[n].used \in Nat
    <3>1. CASE n = 0
      BY <1>2, <3>1
    <3>2. CASE n # 0
      <4>1. n \in 1..l
        BY <1>0, <3>2
      <4> QED BY <2>2, <4>1
    <3> QED BY <3>1, <3>2
  <2>4. 0 \in 0..l /\ l \in 0..l /\ \A p \in 1..l : p \in 0..l /\ p - 1 \in 0..l
    BY <1>0
  <2> HIDE DEF l
  <2>5. cut \in [0..l -> Nat] /\ \A p \in 1..l : cut[p - 1] <= cut[p]
    <3>1. \A p \in 1..l : cut[p - 1] <= cut[p]
      BY <2>1, <2>2, <2>4
    <3>2. cut = [n \in 0..l |-> f[n].used]
      BY DEF l
    <3> QED BY <2>3, <3>1, <3>2
  <2>6. \A n \in 0..l : cut[n] <= cut[l]
    BY <1>0, <2>5, NeverFalls
  <2>7. cut[l] = u /\ cut[0] = 0
    BY <1>2, <2>1, <2>4 DEF l
  <2> QED BY <2>1, <2>3, <2>5, <2>6, <2>7
<1>4. Len(used) = u /\ used \in Seq(Byte)
  <2>1. 0 \in Nat /\ 0 <= 0 /\ 0 <= u
    BY <1>2
  <2> QED BY <1>1, <1>2, <2>1, PartOfUsed
<1>5. cut \in Cuts(others, used)
  <2>1. cut \in [0..l -> 0..u]
    <3>1. \A n \in 0..l : cut[n] \in 0..u
      BY <1>2, <1>3
    <3>2. cut = [n \in 0..l |-> f[n].used]
      OBVIOUS
    <3> HIDE DEF l
    <3> QED BY <1>3, <3>1, <3>2
  <2> QED BY <1>0, <1>4, <2>1 DEF Cuts
<1>6. ASSUME NEW p \in 1..l PROVE Field(used, cut, p) = ReadPart(f, p)
  <2> DEFINE a == cut[p - 1]
             b == cut[p]
  <2>1. p \in 0..l /\ p - 1 \in 0..l
    BY <1>0
  <2>2. a \in Nat /\ b \in Nat /\ a <= b /\ b <= u
    BY <1>3, <2>1, Zenon
  <2>3. a = f[p - 1].used /\ b = f[p].used
    BY <1>3, <2>1, Zenon
  <2> HIDE DEF a, b
  <2>4. SubSeq(used, a + 1, b) = SubSeq(answer, a + 1, b)
    BY <1>1, <1>2, <2>2, PartOfUsed
  <2> QED BY <2>3, <2>4 DEF Field, ReadPart, a, b
<1>7. Divides(cut, others2, used)
  <2>1. /\ DOMAIN others2 = 1..l /\ Len(others2) = l
        /\ \A name : Place(others2, name) = Place(others, name)
    BY <1>0, UncappedAlike
  <2>2. ASSUME NEW p \in 1..l PROVE Divided(others2, cut, used, p)
    <3> DEFINE m == members[p]
               o == others[p]
               h == others2[p]
               c == Place(members, m.count)
               n == Number(ReadPart(f, c))
               width == cut[p] - cut[p - 1]
    <3>1. /\ h.kind = o.kind
          /\ o.kind # "counted" => h = o
          /\ o.kind = "counted" =>
               /\ h.count = o.count /\ h.element = o.element
               /\ h.capacity = IF IsEvent THEN Power(others[Place(others, o.count)].width)
                               ELSE o.capacity
      BY <1>0, UncappedAlike
    <3>2. /\ m.kind = o.kind
          /\ m.kind \in {"scalar", "struct", "array"} => MaxWidth(m) = MaxWidth(o)
          /\ m.kind = "counted" =>
               m.element = o.element /\ m.capacity = o.capacity /\ c = Place(others, o.count)
      BY <1>0, AlikeMembers
    <3>3. /\ m.kind \in {"scalar", "struct", "array", "counted"}
          /\ m.kind # "counted" => width = MaxWidth(m)
          /\ m.kind = "counted" =>
               width = n * ElementWidth(m.element) /\ (~IsEvent => n <= m.capacity)
      <4>1. cut[p] = f[p].used /\ cut[p - 1] = f[p - 1].used
        BY <1>0, <1>3
      <4> QED BY <1>1, <4>1, Zenon DEF ReadMember
    <3>4. ASSUME m.kind = "counted"
          PROVE  /\ Number(Field(used, cut, Place(others2, h.count))) = n
                 /\ n \in 0..h.capacity
      <4>1. c \in 1..l /\ members[c].kind = "scalar"
        BY <1>0, <3>4, CountOfList
      <4>2. Place(others2, h.count) = c
        BY <2>1, <3>1, <3>2, <3>4
      <4>3. Field(used, cut, c) = ReadPart(f, c)
        BY <1>6, <4>1
      <4>4. ReadMember(members, f, c)
        BY <1>1, <4>1
      <4>5. ReadPart(f, c) \in Seq(Byte) /\ Len(ReadPart(f, c)) = f[c].used - f[c - 1].used
        <5> HIDE DEF c
        <5> QED BY <4>4, ReadPartBytes
      <4>6. Len(ReadPart(f, c)) = members[c].width
        <5> HIDE DEF c
        <5>1. f[c].used - f[c - 1].used = MaxWidth(members[c])
          BY <4>1, <4>4, Zenon DEF ReadMember
        <5> QED BY <4>1, <4>5, <5>1 DEF MaxWidth
      <4>7. members[c].width = others[c].width
        BY <1>0, <4>1, AlikeMembers
      <4>8. n \in Nat /\ n < Power(others[c].width)
        <5>1. n \in Nat /\ n < Power(Len(ReadPart(f, c)))
          BY <4>5, NumberBound
        <5> QED BY <4>6, <4>7, <5>1
      <4>9. others[c].width \in Nat
        <5>1. others[c].kind = "scalar" /\ others[c] \in Fields
          BY <1>0, <4>1, AlikeMembers, LoadedMembers
        <5> QED BY <5>1 DEF Fields
      <4>10. o.capacity \in Nat
        <5>1. o.kind = "counted" /\ o \in Fields
          BY <1>0, <3>2, <3>4, LoadedMembers
        <5> QED BY <5>1 DEF Fields
      <4> HIDE DEF c, n, m, o, h
      <4>11. n \in 0..h.capacity
        <5>1. CASE IsEvent
          <6>1. h.capacity = Power(others[c].width)
            BY <3>1, <3>2, <3>4, <5>1
          <6>2. Power(others[c].width) \in Nat
            BY <4>9, PowerOf
          <6> QED BY <4>8, <6>1, <6>2
        <5>2. CASE ~IsEvent
          <6>1. h.capacity = o.capacity /\ n <= o.capacity
            BY <3>1, <3>2, <3>3, <3>4, <5>2
          <6> QED BY <4>8, <4>10, <6>1
        <5> QED BY <5>1, <5>2
      <4> QED BY <4>2, <4>3, <4>11 DEF n
    <3> HIDE DEF m, o, h, c, n, width, others2
    <3>5. /\ h.kind \in {"scalar", "struct", "array"} => width = MaxWidth(h)
          /\ h.kind = "counted" =>
               /\ Number(Field(used, cut, Place(others2, h.count))) \in 0..h.capacity
               /\ width = Number(Field(used, cut, Place(others2, h.count))) * ElementWidth(h.element)
          /\ h.kind \in {"scalar", "struct", "array", "counted"}
      <4>1. h.kind = m.kind
        BY <3>1, <3>2
      <4>2. CASE m.kind = "counted"
        BY <3>1, <3>2, <3>3, <3>4, <4>1, <4>2
      <4>3. CASE m.kind # "counted"
        <5>1. h = o /\ width = MaxWidth(m)
          BY <3>1, <3>2, <3>3, <4>3
        <5>2. m.kind \in {"scalar", "struct", "array"}
          BY <3>3, <4>3
        <5> QED BY <3>2, <4>1, <4>3, <5>1, <5>2
      <4> QED BY <4>2, <4>3
    <3> QED BY <3>5 DEF Divided, h, width
  <2>3. \A p \in 1..l : cut[p - 1] <= cut[p]
    BY <1>3
  <2> HIDE DEF others2, l
  <2> QED BY <1>3, <1>4, <2>1, <2>2, <2>3, DividedAll
<1>8. f[l].fields = [k \in DOMAIN Visible(others) |-> Field(used, cut, Visible(others)[k])]
  <2> DEFINE v == Visible(others)
  <2>1. v = Visible(members) /\ v = g[l]
    BY <1>0, AlikeDependents DEF Keeps
  <2>2. DOMAIN v = 1..Len(v) /\ \A k \in 1..Len(v) : v[k] \in 1..l
    BY <1>0, VisibleMembers
  <2> HIDE DEF v, l
  <2>3. \A k \in 1..Len(v) : ReadPart(f, v[k]) = Field(used, cut, v[k])
    BY <1>6, <2>2
  <2> QED BY <1>1, <2>1, <2>2, <2>3 DEF v
<1> QED BY <1>4, <1>5, <1>7, <1>8, Zenon DEF ReadAs, others2

------------------------------------------------------------------------------
(* What divides the answer is read.                                           *)

(* What a division says of a member read.                                     *)
LEMMA DividedMember ==
  ASSUME NEW others, Loads(others), NEW cut, Divides(cut, others, answer),
         cut \in Cuts(others, answer), answer \in Seq(Byte), NEW p \in 1..Len(others)
  PROVE  LET f == others[p]
             of == Number(Field(answer, cut, Place(others, f.count)))
         IN  /\ cut[p - 1] \in Nat /\ cut[p] \in Nat
             /\ cut[p - 1] <= cut[p] /\ cut[p] <= Len(answer)
             /\ f.kind \in {"scalar", "struct", "array"} => cut[p] - cut[p - 1] = MaxWidth(f)
             /\ f.kind = "counted" =>
                  /\ of \in 0..f.capacity
                  /\ cut[p] - cut[p - 1] = of * ElementWidth(f.element)
<1>1. DOMAIN others = 1..Len(others) /\ Len(others) \in Nat
  BY LoadedMembers
<1>2. Len(answer) \in Nat
  OBVIOUS
<1>3. p \in 0..Len(others) /\ p - 1 \in 0..Len(others)
  BY <1>1
<1>4. cut[p - 1] \in 0..Len(answer) /\ cut[p] \in 0..Len(answer)
  BY <1>3 DEF Cuts
<1>5. /\ cut[p - 1] <= cut[p]
      /\ others[p].kind \in {"scalar", "struct", "array"} => cut[p] - cut[p - 1] = MaxWidth(others[p])
      /\ others[p].kind = "counted" =>
           /\ Number(Field(answer, cut, Place(others, others[p].count))) \in 0..others[p].capacity
           /\ cut[p] - cut[p - 1] = Number(Field(answer, cut, Place(others, others[p].count)))
                                      * ElementWidth(others[p].element)
  BY <1>1, Zenon DEF Divides, Place
<1> QED BY <1>2, <1>4, <1>5

(* Bearers are what the release's are.                                        *)
HeldIn(e, cut) ==
  \A p \in 1..Len(e.returns) :
    IsEvent /\ e.returns[p].name \in DOMAIN e.bearers =>
      Number(Field(answer, cut, p)) \in Bearers(e.bearers[e.returns[p].name])

(* Reading follows a division of the answer as the release's layout says, and *)
(* does not fail.                                                             *)
LEMMA ReadsDivision ==
  ASSUME answer \in Seq(Byte), NEW members, NEW fields, NEW e, ReadsFitted(members, fields, e),
         NEW f, Runs(members, fields, f), NEW g, Keeps(members, g),
         NEW cut, cut \in Cuts(e.returns, answer), Divides(cut, e.returns, answer), HeldIn(e, cut)
  PROVE  ~f[Len(members)].failed /\ f[Len(members)].used = Len(answer)
<1> DEFINE l == Len(members)
           others == e.returns
           Follows(n) == ~f[n].failed /\ f[n].used = cut[n]
           N == {n \in Nat : n <= l => \A j \in 0..n : Follows(j)}
<1>0. /\ Loads(members) /\ Loads(others) /\ SameLayout(members, others) /\ l \in Nat
      /\ Len(others) = l /\ Len(answer) \in Nat
  BY LoadedMembers, AlikeMembers DEF ReadsFitted
<1>1. cut[0] = 0 /\ cut[l] = Len(answer)
  BY <1>0, Zenon DEF Divides
<1>2. 0 \in N
  <2>1. Follows(0)
    BY <1>1, ReadStart
  <2> QED BY <2>1
<1>3. ASSUME NEW n \in Nat, n \in N PROVE n + 1 \in N
  <2>0. SUFFICES ASSUME n + 1 <= l PROVE Follows(n + 1)
    BY <1>3
  <2> DEFINE p == n + 1
             so == f[n]
             next == f[p]
             m == members[p]
             o == others[p]
             c == Place(members, m.count)
             width == ReadWidth(members, so, p)
             bytes == SubSeq(so.rest, 1, width)
             of == Number(Field(answer, cut, c))
  <2>1. p \in 1..l /\ p - 1 = n /\ n \in 0..l /\ n < l /\ \A j \in 1..n : j \in 0..n /\ j - 1 \in 0..n
    BY <1>0, <2>0
  <2>2. \A j \in 0..n : Follows(j)
    BY <1>3, <2>0
  <2>3. ReadUpTo(members, f, g, n) /\ ~so.failed /\ so.used = cut[n]
    BY <2>1, <2>2, ReadAll
  <2>4. /\ StepRead(members, fields, p, so, next)
        /\ m.kind = "counted" =>
             c \in 1..n /\ so.counts[p] = Number(ReadPart(f, c)) /\ so.counts[p] \in Nat
    BY <2>1, <2>3, NextRead
  <2>5. Readable(members, fields, p, e)
    BY <2>1 DEF ReadsFitted
  <2>6. /\ m.kind # "counted" => width = MaxWidth(m)
        /\ m.kind = "counted" => width = so.counts[p] * ElementWidth(m.element)
        /\ width \in Nat /\ m.kind \in {"scalar", "struct", "array", "counted"}
    <3>1. m.kind = "counted" => so.counts[p] \in Nat
      BY <2>4
    <3> HIDE DEF p, so
    <3> QED BY <1>0, <2>1, <2>5, <3>1, ReadWidths
  <2>7. m.kind = "counted" => so.counts[p] = of
    <3>1. ASSUME m.kind = "counted" PROVE ReadPart(f, c) = Field(answer, cut, c)
      <4>1. f[c - 1].used = cut[c - 1] /\ f[c].used = cut[c]
        <5>1. c \in 1..n
          BY <2>4, <3>1
        <5> HIDE DEF c
        <5> QED BY <2>1, <2>2, <5>1
      <4> QED BY <4>1 DEF ReadPart, Field
    <3> QED BY <2>4, <3>1
  <2>8. /\ m.kind = o.kind
        /\ m.kind \in {"scalar", "struct", "array"} => MaxWidth(m) = MaxWidth(o)
        /\ m.kind = "counted" =>
             m.element = o.element /\ m.capacity = o.capacity /\ c = Place(others, o.count)
    BY <1>0, <2>1, AlikeMembers
  <2>9. /\ cut[n] \in Nat /\ cut[p] \in Nat /\ cut[n] <= cut[p] /\ cut[p] <= Len(answer)
        /\ o.kind \in {"scalar", "struct", "array"} => cut[p] - cut[n] = MaxWidth(o)
        /\ o.kind = "counted" =>
             /\ Number(Field(answer, cut, Place(others, o.count))) \in 0..o.capacity
             /\ cut[p] - cut[n] = Number(Field(answer, cut, Place(others, o.count)))
                                    * ElementWidth(o.element)
    <3> DEFINE b == p - 1
    <3>1. /\ cut[b] \in Nat /\ cut[p] \in Nat /\ cut[b] <= cut[p] /\ cut[p] <= Len(answer)
          /\ o.kind \in {"scalar", "struct", "array"} => cut[p] - cut[b] = MaxWidth(o)
          /\ o.kind = "counted" =>
             /\ Number(Field(answer, cut, Place(others, o.count))) \in 0..o.capacity
             /\ cut[p] - cut[b] = Number(Field(answer, cut, Place(others, o.count)))
                                    * ElementWidth(o.element)
      <4> HIDE DEF p
      <4> QED BY <1>0, <2>1, DividedMember
    <3>2. b = n
      BY <2>1
    <3> HIDE DEF b
    <3> QED BY <3>1, <3>2, Zenon
  <2> HIDE DEF m, o, c, width, p, so, next
  <2>10. width = cut[p] - cut[n] /\ (m.kind = "counted" => so.counts[p] <= m.capacity)
    <3>1. CASE m.kind = "counted"
      <4>1. of \in 0..o.capacity /\ cut[p] - cut[n] = of * ElementWidth(o.element)
        BY <2>8, <2>9, <3>1
      <4>2. o.capacity \in Nat
        <5>1. o.kind = "counted" /\ o \in Fields
          BY <1>0, <2>1, <2>8, <3>1, LoadedMembers DEF o
        <5> QED BY <5>1 DEF Fields
      <4> HIDE DEF of
      <4> QED BY <2>6, <2>7, <2>8, <3>1, <4>1, <4>2
    <3>2. CASE m.kind # "counted"
      BY <2>6, <2>8, <2>9, <3>2
    <3> QED BY <3>1, <3>2
  <2>11. width <= Len(so.rest) /\ bytes = Field(answer, cut, p)
    <3> DEFINE u == cut[n]
               rest == so.rest
    <3>1. u <= Len(answer) /\ rest = SubSeq(answer, u + 1, Len(answer))
      BY <2>3, Zenon DEF ReadUpTo, so
    <3>2. u \in Nat /\ width \in Nat
      BY <2>6, <2>9
    <3> HIDE DEF u, rest
    <3>3. /\ Len(rest) = Len(answer) - u
          /\ width <= Len(rest) => SubSeq(rest, 1, width) = SubSeq(answer, u + 1, u + width)
      BY <3>1, <3>2, RestOfAnswer
    <3>4. u + width = cut[p]
      BY <2>9, <2>10 DEF u
    <3>5. width <= Len(rest)
      BY <1>0, <2>9, <3>2, <3>3, <3>4
    <3>6. cut[p - 1] = u
      BY <2>1 DEF u
    <3> QED BY <3>3, <3>4, <3>5, <3>6 DEF Field, rest
  <2>12. Accepts(members, fields, p, so, bytes)
    <3> HIDE DEF bytes
    <3> DEFINE type == fields[FieldOf(members, p)].type[target]
    <3> SUFFICES ASSUME ~Hidden(members, p)
                 PROVE  /\ m.kind # "counted" /\ type.last # 0 => Number(bytes) \in Bearers(type.last)
                        /\ type.shape = "bounded" => so.counts[p] <= type.capacity
      BY Zenon DEF Accepts, m
    <3>1. ReadFits(members, p, type, e)
      BY <2>5, Zenon DEF Readable
    <3> HIDE DEF type
    <3>2. ASSUME m.kind # "counted", type.last # 0 PROVE Number(bytes) \in Bearers(type.last)
      <4>1. /\ IsEvent /\ e.returns[p].name \in DOMAIN e.bearers
            /\ type.last = e.bearers[e.returns[p].name]
        BY <3>1, <3>2, Zenon DEF ReadFits, m
      <4>2. p \in 1..Len(e.returns)
        BY <1>0, <2>1
      <4>3. Number(Field(answer, cut, p)) \in Bearers(e.bearers[e.returns[p].name])
        BY <4>1, <4>2, Zenon DEF HeldIn
      <4> QED BY <2>11, <4>1, <4>3
    <3>3. ASSUME type.shape = "bounded" PROVE so.counts[p] <= type.capacity
      <4>1. m.kind = "counted"
        BY <3>1, <3>3 DEF ReadFits, m
      <4>2. type.capacity = m.capacity
        BY <3>1, <3>3, <4>1, Zenon DEF ReadFits, m
      <4> QED BY <2>10, <4>1, <4>2
    <3> QED BY <3>2, <3>3
  <2>13. ~next.failed
    BY <2>3, <2>4, <2>11, <2>12, Zenon DEF StepRead, width, bytes, so
  <2>14. next.used = cut[n] + width
    BY <2>3, <2>4, <2>13, Zenon DEF StepRead, width, so
  <2>15. next.used = cut[p]
    BY <2>6, <2>9, <2>10, <2>14
  <2> QED BY <2>13, <2>15 DEF next, p
<1> HIDE DEF N
<1>4. \A n \in Nat : n \in N
  BY <1>2, <1>3, SetInduction
<1>5. l \in 0..l
  BY <1>0
<1>6. Follows(l)
  BY <1>0, <1>4, <1>5 DEF N
<1> QED BY <1>1, <1>6

------------------------------------------------------------------------------
(* Fields that fit the returns of the release built for.                      *)

(* A group of what is documented is enabled on a target of the variant.       *)
LEMMA GroupEnabled ==
  ASSUME IsDeclared, NEW variant \in SUBSET Segments, NEW side, NEW t, NEW s \in variant,
         t[1] \in s.first..s.last, t[2] \in Facts(s).profiles
  PROVE  \E g \in Groups(variant, side) : Enabled(g.on, t)
<1> DEFINE v == t[1]
           by == [p \in Facts(s).profiles |-> DocumentsOn(s, side, v, p)]
           documented == Documented(variant, side)
<1>1. PICK part : /\ part \in IF \A p, q \in DOMAIN by : by[p] = by[q] THEN {DOMAIN by}
                              ELSE {{p} : p \in DOMAIN by}
                  /\ t[2] \in part
  <2>1. t[2] \in DOMAIN by
    OBVIOUS
  <2> HIDE DEF by
  <2> QED BY <2>1
<1> DEFINE d == [documents |-> by[CHOOSE p \in part : TRUE],
                 on |-> [first |-> v, last |-> v, profiles |-> part]]
<1>2. d \in ProfileDocuments(by, v)
  <2> HIDE DEF by, v
  <2> QED BY <1>1, Zenon DEF ProfileDocuments
<1>3. d \in documented
  <2> HIDE DEF d
  <2>1. v \in s.first..s.last
    OBVIOUS
  <2> HIDE DEF v
  <2> DEFINE On1(w) == ProfileDocuments([p \in Facts(s).profiles |-> DocumentsOn(s, side, w, p)], w)
             Of1(r) == UNION {ProfileDocuments(
                               [p \in Facts(r).profiles |-> DocumentsOn(r, side, w, p)], w)
                             : w \in r.first..r.last}
  <2>2. d \in On1(v)
    BY <1>2
  <2>3. documented = UNION {Of1(r) : r \in variant}
    BY DEF Documented
  <2>4. Of1(s) = UNION {On1(w) : w \in s.first..s.last}
    OBVIOUS
  <2> HIDE DEF On1, Of1, documented
  <2>5. d \in Of1(s)
    BY <2>1, <2>2, <2>4
  <2> QED BY <2>3, <2>5
<1> DEFINE g == [documents |-> d.documents,
                 on |-> {e.on : e \in {f \in documented : f.documents = d.documents}}]
<1>4. g \in Groups(variant, side)
  <2> HIDE DEF d
  <2> QED BY <1>3, Zenon DEF Groups, Grouped
<1>5. d.on \in g.on
  <2> HIDE DEF d, documented
  <2>1. d \in {f \in documented : f.documents = d.documents}
    BY <1>3
  <2> QED BY <2>1
<1>6. d.on.first = v /\ d.on.last = v /\ d.on.profiles = part
  <2> HIDE DEF by, v
  <2> QED OBVIOUS
<1>7. v \in v..v
  <2>1. s.first \in Nat /\ s.last \in Nat
    BY SegmentFacts, CountOfReleases
  <2> QED BY <2>1
<1> HIDE DEF g, d, v
<1>8. Enabled(g.on, t)
  BY <1>1, <1>5, <1>6, <1>7 DEF Enabled, v
<1> QED BY <1>4, <1>8

(* Fields for the returns of a layout, on a target whose release has `e`.     *)
FittedReturns(members, fields, t, e) ==
  /\ Loads(members) /\ Loads(e.returns) /\ SameLayout(members, e.returns)
  /\ \A k \in 1..Len(Visible(members)) : ReadFits(members, Visible(members)[k], fields[k].type[t], e)

(* Each member is then read by the type of the field it belongs to.           *)
LEMMA FittedRead ==
  ASSUME NEW members, NEW fields, NEW e, FittedReturns(members, fields, target, e)
  PROVE  ReadsFitted(members, fields, e)
<1>0. Loads(members) /\ Loads(e.returns) /\ SameLayout(members, e.returns)
  BY Zenon DEF FittedReturns
<1>1. ASSUME NEW p \in 1..Len(members), ~Hidden(members, p)
      PROVE  ReadFits(members, p, fields[FieldOf(members, p)].type[target], e)
  <2>1. PICK k \in 1..Len(Visible(members)) : Visible(members)[k] = p
    BY <1>0, <1>1, VisibleMembers
  <2>2. FieldOf(members, p) = k
    BY <1>0, <2>1, FieldsOf
  <2>3. ReadFits(members, Visible(members)[k], fields[k].type[target], e)
    BY Zenon DEF FittedReturns
  <2> QED BY <2>1, <2>2, <2>3
<1> QED BY <1>0, <1>1, Zenon DEF ReadsFitted, Readable

(* A member is the same as far as a plan looks at it in all the layouts its   *)
(* names are taken from.                                                      *)
LEMMA NamedAlike ==
  ASSUME NEW members, NEW others, NEW p \in Nat, p \in 1..Len(members), p \in 1..Len(others),
         members \in Seq(Fields), others \in Seq(Fields),
         \/ SameLayout(members, others)
         \/ SameLayout(SubSeq(members, 1, p), SubSeq(others, 1, p))
  PROVE  /\ members[p].kind = others[p].kind
         /\ members[p].kind = "scalar" => /\ members[p].width = others[p].width
                                          /\ members[p].signed = others[p].signed
<1> DEFINE Same(l, r) == /\ l[p].kind = r[p].kind
                         /\ l[p].kind = "scalar" => /\ l[p].width = r[p].width
                                                    /\ l[p].signed = r[p].signed
<1>1. ASSUME NEW l, NEW r, Shape(l, p) = Shape(r, p), l[p] \in Fields, r[p] \in Fields
      PROVE  Same(l, r)
  BY <1>1, ShapeOf
<1>2. members[p] \in Fields /\ others[p] \in Fields
  OBVIOUS
<1>3. CASE SameLayout(members, others)
  <2>1. Shape(members, p) = Shape(others, p)
    BY <1>3 DEF SameLayout
  <2> QED BY <1>1, <1>2, <2>1
<1>4. CASE SameLayout(SubSeq(members, 1, p), SubSeq(others, 1, p))
  <2> DEFINE T == Fields
             l == SubSeq(members, 1, p)
             r == SubSeq(others, 1, p)
  <2>1. /\ l \in Seq(T) /\ r \in Seq(T) /\ l[p] = members[p] /\ r[p] = others[p]
        /\ p \in DOMAIN l
    <3>1. members \in Seq(T) /\ others \in Seq(T) /\ p >= 1 /\ p <= Len(members) /\ p <= Len(others)
      OBVIOUS
    <3> HIDE DEF T
    <3> QED BY <3>1
  <2>2. Shape(l, p) = Shape(r, p)
    BY <1>4, <2>1 DEF SameLayout
  <2> HIDE DEF l, r
  <2>3. Same(l, r)
    BY <1>1, <1>2, <2>1, <2>2
  <2> QED BY <2>1, <2>3
<1> QED BY <1>3, <1>4

(* The segment of a variant whose release is the target's, and its layouts.   *)
LEMMA ReleaseBuilt ==
  ASSUME declared \in Declarations, Expanded, NEW variant \in Compiled, NEW t \in Targets,
         Enabled(On(variant), t)
  PROVE  /\ IsDeclared /\ variant \in SUBSET Segments
         /\ \E s \in variant : /\ t[1] \in s.first..s.last /\ t[2] \in Facts(s).profiles
                               /\ Entry(t[1]) = Facts(s)
         /\ \E s \in variant : Latest(variant) = Facts(s)
         /\ \A s \in Segments : /\ Loads(Facts(s).returns)
                                /\ \E v \in Releases : Facts(s) = Histories[declared.c_name].entries[v]
                                /\ Facts(s) # None
         /\ \A r, s \in variant : SameLayout(Facts(r).returns, Facts(s).returns)
<1>1. IsDeclared
  BY DeclarationAssumption DEF IsDeclared
<1>2. variant \subseteq Segments
  BY VariantsPartition
<1>3. PICK s \in variant : t[1] \in s.first..s.last /\ t[2] \in Facts(s).profiles
  BY <1>1, <1>2, EnabledWhere
<1>4. Entry(t[1]) = Facts(s)
  BY <1>1, <1>2, <1>3, SegmentFacts
<1>5. \E r \in variant : Latest(variant) = Facts(r)
  BY <1>1, LatestIn
<1>6. ASSUME NEW q \in Segments
      PROVE  /\ Loads(Facts(q).returns)
             /\ \E v \in Releases : Facts(q) = Histories[declared.c_name].entries[v]
             /\ Facts(q) # None
  <2>1. q.first \in Releases /\ Facts(q) # None
    BY <1>1, <1>2, SegmentFacts
  <2>2. Facts(q) = Histories[declared.c_name].entries[q.first]
    BY DEF Facts, Entry, history
  <2>3. Loads(Facts(q).returns)
    BY <1>1, <2>1, <2>2, EntryAssumption DEF IsDeclared
  <2> QED BY <2>1, <2>2, <2>3
<1>7. ASSUME NEW q \in variant, NEW r \in variant
      PROVE  SameLayout(Facts(q).returns, Facts(r).returns)
  <2>1. SameWire(Facts(q), Facts(r))
    BY DEF Expanded, Resolvable
  <2> QED BY <2>1 DEF SameWire
<1> QED BY <1>1, <1>2, <1>3, <1>4, <1>5, <1>6, <1>7

(* AttBearer is declared for unsigned members of two bytes.                   *)
IsU16(m) == m.kind = "scalar" /\ m.width = 2 /\ ~m.signed

LEMMA BearerDeclared ==
  ASSUME declared \in Declarations, Expanded, NEW variant \in Compiled, NEW t \in Targets,
         Enabled(On(variant), t), NEW side, side # "params",
         NEW i \in DOMAIN declared.returns,
         LET type == declared.returns[i].type[t] IN type.shape = "plain" /\ type.last # 0,
         NEW p \in 1..Len(Latest(variant).returns),
         Declares(declared.returns[i], variant, side, p)
  PROVE  /\ declared.returns[i].type[t].len = 1
         /\ IsU16(Latest(variant).returns[p])
<1> DEFINE f == declared.returns[i]
           members == Latest(variant).returns
           Layout(s) == Facts(s).returns
<1>1. \A e : Side(e, side) = e.returns
  BY DEF Side
<1>2. /\ IsDeclared /\ variant \in SUBSET Segments
      /\ \E s \in variant : Latest(variant) = Facts(s)
      /\ \A s \in Segments : /\ Loads(Layout(s))
                             /\ \E v \in Releases : Facts(s) = Histories[declared.c_name].entries[v]
                             /\ Facts(s) # None
      /\ \A r, s \in variant : SameLayout(Layout(r), Layout(s))
  BY ReleaseBuilt
<1>3. PICK s \in Segments : /\ Matches(f, Layout(s)[p].name)
                            /\ \/ s \in variant
                               \/ /\ p <= Len(Layout(s))
                                  /\ SameLayout(SubSeq(members, 1, p), SubSeq(Layout(s), 1, p))
  <2>1. PICK name \in NamesAt(variant, side, p) : Matches(f, name)
    BY Zenon DEF Declares
  <2>2. \E s \in Segments : /\ name = Layout(s)[p].name
                            /\ \/ s \in variant
                               \/ /\ p <= Len(Layout(s))
                                  /\ SameLayout(SubSeq(members, 1, p), SubSeq(Layout(s), 1, p))
    BY <1>1, <2>1 DEF NamesAt
  <2> QED BY <2>1, <2>2
<1> DEFINE others == Layout(s)
<1>4. /\ Loads(members) /\ Loads(others)
      /\ \/ SameLayout(members, others)
         \/ SameLayout(SubSeq(members, 1, p), SubSeq(others, 1, p))
      /\ s \in variant => SameLayout(members, others)
  BY <1>2, <1>3
<1>5. /\ members \in Seq(Fields) /\ others \in Seq(Fields) /\ DOMAIN others = 1..Len(others)
      /\ Len(members) \in Nat /\ Len(others) \in Nat
  BY <1>4, LoadedMembers
<1>6. p \in 1..Len(others) /\ p \in Nat
  BY <1>3, <1>4, <1>5 DEF SameLayout
<1>7. PICK v \in Releases : Facts(s) = Histories[declared.c_name].entries[v]
  BY <1>2
<1>8. f.type[t].len = 1 /\ IsU16(others[p])
  <2> DEFINE type == f.type[t]
  <2>1. /\ type.shape = "plain" /\ type.last # 0 =>
             /\ type.len = 1
             /\ \A w \in Releases :
                  LET e == Histories[declared.c_name].entries[w]
                  IN  e # None => \A q \in DOMAIN e.returns :
                        Matches(f, e.returns[q].name) => IsU16(e.returns[q])
    BY DecodingAssumption, Zenon DEF IsU16
  <2>2. type.shape = "plain" /\ type.last # 0
    OBVIOUS
  <2>3. p \in DOMAIN others
    BY <1>5, <1>6
  <2> DEFINE TwoBytes(e) == \A q \in DOMAIN e.returns :
                            Matches(f, e.returns[q].name) => IsU16(e.returns[q])
  <2>4. type.len = 1 /\ \A w \in Releases :
          Histories[declared.c_name].entries[w] # None => TwoBytes(Histories[declared.c_name].entries[w])
    <3> HIDE DEF type
    <3> QED BY <2>1, <2>2
  <2> HIDE DEF TwoBytes
  <2>5. TwoBytes(Facts(s))
    BY <1>2, <1>7, <2>4
  <2>6. IsU16(others[p])
    BY <1>3, <2>3, <2>5 DEF TwoBytes
  <2> QED BY <2>4, <2>6
<1>10. p \in 1..Len(members)
  OBVIOUS
<1> HIDE DEF members, others
<1>9. /\ members[p].kind = others[p].kind
      /\ members[p].kind = "scalar" => /\ members[p].width = others[p].width
                                       /\ members[p].signed = others[p].signed
  BY <1>4, <1>5, <1>6, <1>10, NamedAlike
<1> QED BY <1>8, <1>9 DEF members, IsU16

(* Only an event has bearers to decode, those of the release built for.       *)
LEMMA BearerBuilt ==
  ASSUME declared \in Declarations, Expanded, NEW variant \in Compiled, NEW t \in Targets,
         Enabled(On(variant), t), NEW fields, BearersAssert(fields, variant, "returns", t),
         NEW members, members = Latest(variant).returns,
         NEW p \in 1..Len(members), ~Hidden(members, p),
         IsU16(members[p]),
         NEW last, last = fields[FieldOf(members, p)].type[t].last, last # 0
  PROVE  /\ IsEvent /\ Entry(t[1]).returns[p].name \in DOMAIN Entry(t[1]).bearers
         /\ last = Entry(t[1]).bearers[Entry(t[1]).returns[p].name]
<1>1. /\ IsDeclared /\ variant \in SUBSET Segments
      /\ \E s \in variant : Latest(variant) = Facts(s)
      /\ \A s \in Segments : Loads(Facts(s).returns)
      /\ \A r, s \in variant : SameLayout(Facts(r).returns, Facts(s).returns)
  BY ReleaseBuilt
<1>2. PICK s \in variant : /\ t[1] \in s.first..s.last /\ t[2] \in Facts(s).profiles
                           /\ Entry(t[1]) = Facts(s)
  BY ReleaseBuilt
<1>3. Side(Latest(variant), "returns") = members
  BY DEF Side
<1> DEFINE groups == IF "returns" = BearerSide THEN BearerGroups(variant)
                     ELSE {[last |-> [q \in DOMAIN members |-> 0], on |-> On(variant)]}
<1>4. \A g \in groups : Enabled(g.on, t) => last = g.last[p]
  <2>1. p \in DOMAIN members
    <3>1. Loads(members)
      BY <1>1
    <3> QED BY <3>1, LoadedMembers
  <2> DEFINE m == Side(Latest(variant), "returns")
             all == IF "returns" = BearerSide THEN BearerGroups(variant)
                    ELSE {[last |-> [q \in DOMAIN m |-> 0], on |-> On(variant)]}
  <2>2. \A g \in {h \in all : Enabled(h.on, t)}, q \in DOMAIN m :
           IsU16(m[q]) /\ ~Hidden(m, q) => fields[FieldOf(m, q)].type[t].last = g.last[q]
    BY Zenon DEF BearersAssert, IsU16
  <2>3. m = members
    BY <1>3
  <2>4. all = groups
    <3> HIDE DEF m
    <3> QED BY <2>3
  <2> HIDE DEF m, all
  <2>5. \A g \in {h \in groups : Enabled(h.on, t)}, q \in DOMAIN members :
           IsU16(members[q]) /\ ~Hidden(members, q) =>
             fields[FieldOf(members, q)].type[t].last = g.last[q]
    <3> HIDE DEF groups
    <3> QED BY <2>2, <2>3, <2>4, Zenon
  <2> HIDE DEF groups
  <2> QED BY <2>1, <2>5
<1>5. p \in DOMAIN Facts(s).returns
  <2>1. Loads(members) /\ Loads(Facts(s).returns) /\ SameLayout(members, Facts(s).returns)
    BY <1>1
  <2>2. Len(members) = Len(Facts(s).returns) /\ DOMAIN Facts(s).returns = 1..Len(Facts(s).returns)
    BY <2>1, LoadedMembers DEF SameLayout
  <2> QED BY <2>2
<1>6. IsEvent
  <2> SUFFICES ASSUME ~IsEvent PROVE FALSE
    OBVIOUS
  <2> DEFINE none == [q \in DOMAIN members |-> 0]
             g == [last |-> none, on |-> On(variant)]
  <2>1. groups = {g}
    BY DEF BearerSide
  <2>2. g.last = none /\ g.on = On(variant)
    OBVIOUS
  <2>3. p \in DOMAIN members
    <3>1. Loads(members)
      BY <1>1
    <3> QED BY <3>1, LoadedMembers
  <2>4. none[p] = 0
    BY <2>3
  <2> HIDE DEF g, none, groups
  <2> QED BY <1>4, <2>1, <2>2, <2>4
<1>7. last = BearersOf(s)[p]
  <2> DEFINE part == {r \in variant : BearersOf(r) = BearersOf(s)}
             g == [last |-> BearersOf(s), on |-> On(part)]
  <2>1. g \in groups
    <3>1. "returns" = BearerSide
      BY <1>6 DEF BearerSide
    <3>2. groups = BearerGroups(variant)
      BY <3>1
    <3> HIDE DEF groups
    <3>3. g \in BearerGroups(variant)
      BY Zenon DEF BearerGroups
    <3> QED BY <3>2, <3>3
  <2>2. g.last = BearersOf(s) /\ g.on = On(part)
    OBVIOUS
  <2>3. s \in part /\ part \in SUBSET Segments
    BY <1>1
  <2> HIDE DEF g, part, groups
  <2>4. Enabled(On(part), t)
    BY <1>1, <1>2, <2>3, EnabledWhere
  <2> QED BY <1>4, <2>1, <2>2, <2>4
<1>8. Side(Facts(s), BearerSide) = Facts(s).returns
  BY <1>6 DEF Side, BearerSide
<1> DEFINE name == Facts(s).returns[p].name
<1>9. last = IF name \in DOMAIN Facts(s).bearers THEN Facts(s).bearers[name] ELSE 0
  BY <1>5, <1>7, <1>8 DEF BearersOf
<1> QED BY <1>2, <1>6, <1>9

(* Types of members that are read decode anything, a bearer apart.            *)
LEMMA DecodesDeclared ==
  ASSUME declared \in Declarations, Expanded, NEW variant \in Compiled, NEW t \in Targets,
         Enabled(On(variant), t), NEW fields, ValuesAssert(fields, variant, "returns", t),
         NEW members, members = Latest(variant).returns, NEW p \in 1..Len(members),
         ~Hidden(members, p), members[p].kind \in {"scalar", "struct", "array"},
         NEW i \in DOMAIN declared.returns, fields[FieldOf(members, p)] = declared.returns[i],
         NEW type, type = declared.returns[i].type[t], type.shape = "plain"
  PROVE  DecodesAny(type)
<1>1. CASE type.integer
  BY <1>1, DecodingAssumption DEF DecodesAny
<1>2. CASE ~type.integer
  <2>1. PICK s \in variant : t[1] \in s.first..s.last /\ t[2] \in Facts(s).profiles
    BY ReleaseBuilt
  <2>2. IsDeclared /\ variant \in SUBSET Segments
    BY ReleaseBuilt
  <2>3. PICK g \in Groups(variant, "returns") : Enabled(g.on, t)
    BY <2>1, <2>2, GroupEnabled
  <2> DEFINE side == "returns"
             m == Side(Latest(variant), side)
             checked == {q \in DOMAIN m : /\ ~Hidden(m, q)
                                          /\ m[q].kind \in {"scalar", "struct", "array", "optional"}}
             decodes == side # "params"
             Whole1(q) == fields[FieldOf(m, q)].type[t]
             TypeAt(q) == IF Whole1(q).shape = "option" THEN Whole1(q).item ELSE Whole1(q)
  <2>4. \A q \in checked : ~TypeAt(q).integer =>
           \A h \in {h \in Groups(variant, side) : Enabled(h.on, t)} :
             decodes => DecodesAny(TypeAt(q))
    <3>1. ValuesAssert(fields, variant, side, t)
      OBVIOUS
    <3> HIDE DEF side
    <3>2. \A q \in checked :
            LET f == fields[FieldOf(m, q)]
                whole == f.type[t]
                item == IF whole.shape = "option" THEN whole.item ELSE whole
            IN  /\ f.omitted # {} => ~decodes /\ ~item.integer
                /\ ~item.integer =>
                     /\ \A v \in f.omitted : DocumentedIn(Groups(variant, side), q, v)
                     /\ \A h \in {h \in Groups(variant, side) : Enabled(h.on, t)} :
                          /\ TypeDocumented(h.documents[q], item)
                          /\ IF decodes THEN DecodesAny(item)
                             ELSE EachSendable(h.documents[q], item, f.omitted)
      BY <3>1, Zenon DEF ValuesAssert
    <3> HIDE DEF m, checked, decodes
    <3> QED BY <3>2
  <2>5. m = members
    BY DEF Side
  <2>6. p \in DOMAIN members
    <3>1. Loads(members)
      BY ReleaseBuilt
    <3> QED BY <3>1, LoadedMembers
  <2>7. p \in checked
    <3> HIDE DEF m
    <3> QED BY <2>5, <2>6
  <2>8. TypeAt(p) = type
    <3>1. Whole1(p) = type
      <4> HIDE DEF m
      <4> QED BY <2>5
    <3> HIDE DEF Whole1
    <3> QED BY <3>1
  <2>9. g \in {h \in Groups(variant, side) : Enabled(h.on, t)}
    BY <2>3
  <2>10. decodes
    OBVIOUS
  <2> HIDE DEF checked, TypeAt, decodes, side
  <2> QED BY <1>2, <2>4, <2>7, <2>8, <2>9, <2>10
<1> QED BY <1>1, <1>2

(* The plan of a variant, what it asserts on a target and what is declared    *)
(* make its fields fit the returns of the release built for.                  *)
LEMMA ReturnsFit ==
  ASSUME declared \in Declarations, Expanded, NEW variant \in Compiled, NEW t \in Targets,
         Enabled(On(variant), t), Asserted(variant, t)
  PROVE  FittedReturns(Latest(variant).returns,
                       FieldsIn(declared.returns, CHOOSE s \in variant : TRUE), t, Entry(t[1]))
<1>0. PICK c : c = CHOOSE s \in variant : TRUE
  OBVIOUS
<1> DEFINE members == Latest(variant).returns
           fields == FieldsIn(declared.returns, c)
           e == Entry(t[1])
           side == IF IsEvent THEN "event" ELSE "returns"
           one == CHOOSE u \in Targets : TRUE
<1>1. Loads(members) /\ Loads(e.returns) /\ SameLayout(members, e.returns)
  BY ReleaseBuilt
<1>2. /\ Len(fields) \in Nat /\ DOMAIN fields = 1..Len(fields)
      /\ \A k \in 1..Len(fields) :
           Typed(fields[k], t) /\ \E i \in DOMAIN declared.returns : fields[k] = declared.returns[i]
  <2> DEFINE listed == declared.returns
  <2>1. listed \in {declared.params, declared.returns}
    OBVIOUS
  <2> HIDE DEF listed
  <2>2. /\ Len(FieldsIn(listed, c)) \in Nat
        /\ DOMAIN FieldsIn(listed, c) = 1..Len(FieldsIn(listed, c))
        /\ \A k \in 1..Len(FieldsIn(listed, c)) :
             /\ Typed(FieldsIn(listed, c)[k], t)
             /\ \E i \in DOMAIN listed : FieldsIn(listed, c)[k] = listed[i]
    BY <2>1, FieldsDeclared
  <2> QED BY <2>2 DEF listed
<1>3. side # "params" /\ Side(Latest(variant), side) = members
      /\ Side(Latest(variant), "returns") = members
  BY DEF Side
<1>4. /\ Len(fields) = Len(Visible(members))
      /\ \A k \in DOMAIN fields :
           /\ Declares(fields[k], variant, side, Visible(members)[k])
           /\ Shaped(members, Visible(members)[k], fields[k].type[one], side)
  <2>1. Planned(fields, variant, side)
    <3>1. Expandable(variant)
      BY DEF Expanded
    <3> QED BY <1>0, <3>1, Zenon DEF Expandable
  <2> HIDE DEF fields, members, side
  <2> QED BY <1>3, <2>1, Zenon DEF Planned
<1>5. /\ WidthsAssert(fields, variant, "returns", t)
      /\ ValuesAssert(fields, variant, "returns", t)
      /\ BearersAssert(fields, variant, "returns", t)
  <2> DEFINE x == "returns"
             all == FieldsIn(IF x = "params" THEN declared.params ELSE declared.returns, c)
  <2>1. x \in {"params", "returns"}
    OBVIOUS
  <2>2. WidthsAssert(all, variant, x, t) /\ ValuesAssert(all, variant, x, t)
        /\ BearersAssert(all, variant, x, t)
    <3> HIDE DEF x
    <3> QED BY <1>0, <2>1, Zenon DEF Asserted
  <2>3. all = fields
    OBVIOUS
  <2> QED BY <2>2, <2>3
<1>6. one \in Targets
  OBVIOUS
<1>7. /\ Len(Visible(members)) \in Nat
      /\ \A k \in 1..Len(Visible(members)) :
           Visible(members)[k] \in 1..Len(members) /\ ~Hidden(members, Visible(members)[k])
  BY <1>1, VisibleMembers
<1> HIDE DEF fields, members, e, side, one
<1>8. ASSUME NEW k \in 1..Len(Visible(members))
      PROVE  ReadFits(members, Visible(members)[k], fields[k].type[t], e)
  <2> DEFINE p == Visible(members)[k]
             m == members[p]
             type == fields[k].type[t]
  <2>1. k \in DOMAIN fields /\ k \in 1..Len(fields)
    BY <1>2, <1>4
  <2>2. /\ Encodes(type) /\ type.shape = fields[k].type[one].shape
        /\ type.shape = "bounded" => type.capacity = fields[k].type[one].capacity
    BY <1>2, <1>6, <2>1 DEF Typed
  <2>3. PICK i \in DOMAIN declared.returns : fields[k] = declared.returns[i]
    BY <1>2, <2>1
  <2>4. Shaped(members, p, fields[k].type[one], side) /\ Declares(fields[k], variant, side, p)
    BY <1>4, <2>1
  <2>5. p \in 1..Len(members) /\ ~Hidden(members, p) /\ FieldOf(members, p) = k
    BY <1>1, <1>7, FieldsOf
  <2>6. /\ m.kind \in {"scalar", "struct", "array", "counted"}
        /\ m.kind # "counted" => type.shape = "plain"
        /\ m.kind = "counted" =>
             IF IsEvent THEN type.shape \in {"slice", "elements"}
             ELSE type.shape = "bounded" /\ type.capacity = m.capacity
    <3> HIDE DEF p, type
    <3> QED BY <2>2, <2>4 DEF Shaped, side
  <2>7. /\ m.kind # "counted" => type.width = MaxWidth(m)
        /\ m.kind = "counted" => type.item.width = ElementWidth(m.element)
    <3> DEFINE Fit ==
          CASE m.kind = "scalar"   -> StandsFor(type, <<>>, m.width)
            [] m.kind = "struct"   -> StandsFor(type, m, MaxWidth(m))
            [] m.kind = "array"    -> StandsFor(type, m.element, MaxWidth(m))
            [] m.kind = "counted"  -> StandsFor(type.item, m.element, ElementWidth(m.element))
            [] m.kind = "optional" -> StandsFor(type.item, <<>>, m.width)
            [] m.kind = "union"    ->
                 UnionMatches(type, m.variants, members[Place(members, m.selector)].width)
    <3>1. Fit
      BY <1>3, <1>5, <2>1, Zenon DEF WidthsAssert, Place
    <3> HIDE DEF m, p, type
    <3>2. m.kind = "scalar" => type.width = MaxWidth(m)
      BY <3>1 DEF StandsFor, MaxWidth
    <3> QED BY <2>6, <3>1, <3>2 DEF StandsFor
  <2>8. ASSUME m.kind = "counted"
        PROVE  type.item.len = 1 /\ type.item.last = 0 /\ DecodesAny(type.item)
    <3>1. type.shape \in {"slice", "elements", "bounded"}
      BY <2>6, <2>8
    <3>2. type = declared.returns[i].type[t]
      BY <2>3
    <3> HIDE DEF type
    <3> QED BY <3>1, <3>2, DecodingAssumption
  <2>9. ASSUME m.kind # "counted" PROVE DecodesAny(type)
    <3>1. m.kind \in {"scalar", "struct", "array"} /\ type.shape = "plain"
      BY <2>6, <2>9
    <3>2. type = declared.returns[i].type[t] /\ members = Latest(variant).returns
          /\ fields[FieldOf(members, p)] = declared.returns[i]
      BY <2>3, <2>5 DEF members
    <3> HIDE DEF type, p
    <3> QED BY <1>5, <2>5, <3>1, <3>2, DecodesDeclared DEF m
  <2>10. ASSUME m.kind # "counted", type.last # 0
         PROVE  /\ IsEvent /\ type.len = 1 /\ e.returns[p].name \in DOMAIN e.bearers
                /\ type.last = e.bearers[e.returns[p].name]
    <3>1. type.shape = "plain" /\ members = Latest(variant).returns
      BY <2>6, <2>10 DEF members
    <3>2. /\ type = declared.returns[i].type[t] /\ fields[FieldOf(members, p)].type[t] = type
          /\ Declares(declared.returns[i], variant, side, p)
      BY <2>3, <2>4, <2>5
    <3> HIDE DEF type, p
    <3>3. type.len = 1 /\ IsU16(m)
      <4>1. declared.returns[i].type[t].shape = "plain" /\ declared.returns[i].type[t].last # 0
        BY <2>10, <3>1, <3>2
      <4>2. p \in 1..Len(Latest(variant).returns)
        BY <2>5, <3>1
      <4>3. /\ declared.returns[i].type[t].len = 1
            /\ IsU16(Latest(variant).returns[p])
        BY <1>3, <3>2, <4>1, <4>2, BearerDeclared
      <4> QED BY <3>1, <3>2, <4>3 DEF m
    <3> DEFINE last == type.last
    <3>4. last = fields[FieldOf(members, p)].type[t].last /\ last # 0
      BY <2>10, <3>2
    <3> HIDE DEF last
    <3>5. /\ IsEvent /\ e.returns[p].name \in DOMAIN e.bearers
          /\ last = e.bearers[e.returns[p].name]
      BY <1>5, <2>5, <3>1, <3>3, <3>4, BearerBuilt DEF m, e
    <3> QED BY <3>3, <3>5 DEF last
  <2>11. IsEvent => type.shape # "bounded" \/ m.kind # "counted"
    BY <2>6
  <2>12. m.kind = "counted" => type.shape \in {"slice", "elements", "bounded"}
    BY <2>6
  <2>13. m.kind # "counted" => type.shape = "plain" /\ type.width = MaxWidth(m) /\ DecodesAny(type)
    BY <2>6, <2>7, <2>9
  <2> HIDE DEF p, type, m
  <2>14. ReadFits(members, p, type, e)
    BY <2>2, <2>6, <2>7, <2>8, <2>10, <2>11, <2>12, <2>13 DEF ReadFits, m
  <2> QED BY <2>14 DEF p, type
<1> QED BY <1>0, <1>1, <1>8, Zenon DEF FittedReturns, members, fields, e

------------------------------------------------------------------------------
(* The buffer of a response.                                                  *)

(* As many elements as a list may have are no wider than its buffer.          *)
LEMMA ElementsInCapacity ==
  ASSUME NEW n \in Nat, NEW capacity \in Nat, n <= capacity, NEW w \in Nat
  PROVE  n * w <= w * capacity /\ w * capacity \in Nat
<1> DEFINE d == capacity - n
<1>1. d \in Nat /\ n + d = capacity
  OBVIOUS
<1> HIDE DEF d
<1>2. (n + d) * w = n * w + d * w
  BY <1>1
<1>3. n * w \in Nat /\ d * w \in Nat /\ w * capacity = capacity * w
  BY <1>1
<1> QED BY <1>1, <1>2, <1>3

(* What a response's reading uses is no more than the buffer for the largest. *)
LEMMA ReadWithinEnvelope ==
  ASSUME answer \in Seq(Byte), NEW members, NEW fields, NEW e, ReadsFitted(members, fields, e),
         NEW f, Runs(members, fields, f), NEW g, Keeps(members, g), ~IsEvent,
         ~f[Len(members)].failed
  PROVE  f[Len(members)].used <= Envelope(members).max /\ Envelope(members).max \in Nat
<1> DEFINE l == Len(members)
           s == [p \in 1..l |-> MaxWidth(members[p])]
           cut == [n \in 0..l |-> f[n].used]
<1>1. /\ Loads(members) /\ l \in Nat /\ DOMAIN members = 1..l
      /\ \A p \in 1..l : members[p] \in Fields
  BY LoadedMembers DEF ReadsFitted
<1>2. \A n \in 0..l : ReadUpTo(members, f, g, n)
  BY ReadAll
<1>3. l \in 0..l /\ 0 \in 0..l
  BY <1>1
<1>4. \A p \in 1..l : ReadMember(members, f, p)
  BY <1>2, <1>3, Zenon DEF ReadUpTo
<1>5. ASSUME NEW p \in 1..l
      PROVE  /\ MaxWidth(members[p]) \in Nat
             /\ f[p].used - f[p - 1].used <= MaxWidth(members[p])
  <2> DEFINE so == [counts |-> [q \in {p} |-> 0]]
             m == members[p]
             of == Number(ReadPart(f, Place(members, m.count)))
  <2>1. so.counts[p] \in Nat
    OBVIOUS
  <2>2. Readable(members, fields, p, e)
    BY DEF ReadsFitted
  <2> HIDE DEF so
  <2>3. /\ m.kind # "counted" => MaxWidth(m) \in Nat
        /\ m.kind = "counted" => ElementWidth(m.element) \in Nat
    <3>1. /\ members[p].kind # "counted" => MaxWidth(members[p]) \in Nat
          /\ members[p].kind = "counted" => ElementWidth(members[p].element) \in Nat \ {0}
      BY <1>1, <2>1, <2>2, ReadWidths
    <3> QED BY <3>1
  <2>4. /\ f[p].used - f[p - 1].used = IF m.kind = "counted" THEN of * ElementWidth(m.element)
                                       ELSE MaxWidth(m)
        /\ m.kind = "counted" => of <= m.capacity
    <3>1. ReadMember(members, f, p)
      BY <1>4
    <3> HIDE DEF m, of
    <3> QED BY <3>1, Zenon DEF ReadMember, m, of
  <2>5. CASE m.kind = "counted"
    <3>1. Place(members, m.count) \in 1..l
      BY <1>1, <2>5, CountOfList
    <3>2. of \in Nat
      <4> DEFINE part == ReadPart(f, Place(members, m.count))
      <4>1. part \in Seq(Byte)
        BY <1>4, <3>1, ReadPartBytes
      <4> HIDE DEF part
      <4>2. Number(part) \in Nat
        BY <4>1, NumberBound
      <4> QED BY <4>2 DEF part
    <3>3. m.capacity \in Nat /\ MaxWidth(m) = ElementWidth(m.element) * m.capacity
      <4>1. m \in Fields
        BY <1>1
      <4> HIDE DEF m
      <4>2. m.capacity \in Nat
        BY <2>5, <4>1 DEF Fields
      <4>3. MaxWidth(m) = ElementWidth(m.element) * m.capacity
        BY <2>5 DEF MaxWidth
      <4> QED BY <4>2, <4>3
    <3> HIDE DEF of, m
    <3>4. of * ElementWidth(m.element) <= ElementWidth(m.element) * m.capacity
          /\ ElementWidth(m.element) * m.capacity \in Nat
      BY <2>3, <2>4, <2>5, <3>2, <3>3, ElementsInCapacity
    <3> QED BY <2>4, <2>5, <3>3, <3>4 DEF m
  <2>6. CASE m.kind # "counted"
    BY <2>3, <2>4, <2>6
  <2> QED BY <2>5, <2>6
<1>6. s \in Seq(Nat) /\ Len(s) = l
  BY <1>1, <1>5
<1>7. cut \in [0..l -> Nat] /\ cut[0] = 0
  <2>1. \A n \in 0..l : f[n].used \in Nat
    BY <1>2, Zenon DEF ReadUpTo, IsReading
  <2>2. f[0].used = 0
    BY ReadStart
  <2> QED BY <1>3, <2>1, <2>2
<1>8. \A p \in 1..l : cut[p] - cut[p - 1] <= s[p]
  <2> SUFFICES ASSUME NEW p \in 1..l PROVE cut[p] - cut[p - 1] <= s[p]
    OBVIOUS
  <2>1. p \in 0..l /\ p - 1 \in 0..l
    BY <1>1
  <2> QED BY <1>5, <2>1
<1>9. cut[l] = f[l].used
  BY <1>3
<1>10. Envelope(members).max = Total(s)
  BY <1>1 DEF Envelope
<1> HIDE DEF s, cut
<1>11. cut[l] <= Sums(s)[l]
  BY <1>3, <1>6, <1>7, <1>8, CutsWithinSums
<1>12. Total(s) \in Nat
  BY <1>6, SumsGrow
<1> QED BY <1>6, <1>9, <1>10, <1>11, <1>12 DEF Total

------------------------------------------------------------------------------
(* The answer decoded.                                                        *)

(* The layout built of what is read, its fields and what reading gives.       *)
Returned == Members("returns")
ReturnFields == FieldsBuilt(declared.returns)
EntryBuilt == Entry(target[1])
Reading == Decoded(Returned, ReturnFields)

What(so) == [fields |-> so.fields, used |-> so.used]

(* What is read is built of a plan that fits the returns of the target's      *)
(* release, and decoding gives what reading the answer does.                  *)
DecodingInv ==
  /\ declared \in Declarations
  /\ pc = "expanded" => Expanded
  /\ pc \in {"built", "new", "encoded", "answered", "decoded"} /\ built # None =>
       FittedReturns(Returned, ReturnFields, target, EntryBuilt)
  /\ pc \in {"answered", "decoded"} => built # None /\ answer \in Seq(Byte)
  /\ pc = "decoded" =>
       \/ decoded = IF Reading.failed \/ Reading.rest # <<>> THEN None ELSE What(Reading)
       \/ /\ ~IsEvent
          /\ decoded = IF Reading.failed \/ Reading.used > Envelope(Returned).max
                       THEN None ELSE What(Reading)

(* Nothing of it changes but with the build, the answer and the declaration.  *)
LEMMA SameReturned ==
  ASSUME declared' = declared, target' = target, built' = built
  PROVE  /\ Returned' = Returned /\ ReturnFields' = ReturnFields /\ EntryBuilt' = EntryBuilt
         /\ IsEvent' = IsEvent
BY DEF Returned, ReturnFields, EntryBuilt, Members, FieldsBuilt, Latest, Facts, Entry, history,
       IsEvent

(* Nor does what fits.                                                        *)
LEMMA SameFitted ==
  ASSUME declared' = declared, target' = target, built' = built
  PROVE  FittedReturns(Returned, ReturnFields, target, EntryBuilt)'
           = FittedReturns(Returned, ReturnFields, target, EntryBuilt)
<1>1. /\ Returned' = Returned /\ ReturnFields' = ReturnFields /\ EntryBuilt' = EntryBuilt
      /\ IsEvent' = IsEvent
  BY SameReturned
<1> QED BY <1>1 DEF FittedReturns, ReadFits

(* Nor what reading the same answer gives.                                    *)
LEMMA SameReading ==
  ASSUME declared' = declared, target' = target, built' = built, answer' = answer
  PROVE  Reading' = Reading
<1>1. Returned' = Returned /\ ReturnFields' = ReturnFields
  BY SameReturned
<1> QED BY <1>1 DEF Reading, Decoded, DecodedMember

(* What is decoded of an answer.                                              *)
LEMMA DecodedWhat ==
  ASSUME NEW so, IsReading(so)
  PROVE  What(so) # None /\ What(so).fields = so.fields /\ What(so).used = so.used
<1>1. so.fields \in Seq(Seq(Byte)) /\ so.used \in Nat
  BY Zenon DEF IsReading
<1>2. What(so) \in Decodings
  BY <1>1 DEF What, Decodings
<1> QED BY <1>2, DecodedAssumption DEF What

(* What is decoded is what the layout of the release built for divides the    *)
(* answer into.                                                               *)
LEMMA ReadsWhat == DecodingInv => ReadsReturns
<1> SUFFICES ASSUME DecodingInv, pc = "decoded"
             PROVE  LET members == EntryBuilt.returns
                    IN  /\ decoded # None =>
                             LET used == SubSeq(answer, 1, decoded.used) IN
                             \E cut \in Cuts(members, used) :
                               /\ Divides(cut, Uncapped(members), used)
                               /\ decoded.fields = [k \in DOMAIN Visible(members) |->
                                                     Field(used, cut, Visible(members)[k])]
                        /\ (\E cut \in Cuts(members, answer) :
                               Divides(cut, members, answer) /\ BearersHeld(members, cut))
                             => decoded # None /\ decoded.used = Len(answer)
  BY DEF ReadsReturns, EntryBuilt
<1> DEFINE members == Returned
           fields == ReturnFields
           e == EntryBuilt
           others == e.returns
           l == Len(members)
           so == Reading
<1>1. /\ FittedReturns(members, fields, target, e) /\ answer \in Seq(Byte)
      /\ \/ decoded = IF so.failed \/ so.rest # <<>> THEN None ELSE What(so)
         \/ /\ ~IsEvent
            /\ decoded = IF so.failed \/ so.used > Envelope(members).max THEN None ELSE What(so)
  BY DEF DecodingInv
<1>2. ReadsFitted(members, fields, e)
  BY <1>1, FittedRead
<1>3. Loads(members) /\ Len(members) \in Nat
  BY <1>2, LoadedMembers DEF ReadsFitted
<1>4. PICK f : so = f[l] /\ Runs(members, fields, f)
  <2>1. \E f : Decoded(members, fields) = f[Len(members)] /\ Runs(members, fields, f)
    <3> HIDE DEF members, fields
    <3> QED BY <1>3, DecodedRecursion
  <2> QED BY <2>1, Zenon DEF Reading
<1>5. PICK g : Keeps(members, g)
  BY <1>3, KeepsExists
<1>6. ReadUpTo(members, f, g, l)
  <2>1. l \in 0..l
    BY <1>3
  <2> QED BY <1>1, <1>2, <1>4, <1>5, <2>1, ReadAll
<1>7. What(so) # None /\ What(so).fields = so.fields /\ What(so).used = so.used
  <2>1. IsReading(so)
    BY <1>4, <1>6, Zenon DEF ReadUpTo
  <2> QED BY <2>1, DecodedWhat
<1> HIDE DEF members, fields, e, so
<1>8. ASSUME decoded # None
      PROVE  \E cut \in Cuts(others, SubSeq(answer, 1, decoded.used)) :
               /\ Divides(cut, Uncapped(others), SubSeq(answer, 1, decoded.used))
               /\ decoded.fields = [k \in DOMAIN Visible(others) |->
                                     Field(SubSeq(answer, 1, decoded.used), cut, Visible(others)[k])]
  <2>1. ~so.failed /\ decoded = What(so)
    BY <1>1, <1>8
  <2> DEFINE u == f[l].used
             used == SubSeq(answer, 1, u)
             cut == [n \in 0..l |-> f[n].used]
  <2>2. u = decoded.used /\ decoded.fields = f[l].fields /\ ~f[l].failed
    BY <1>4, <1>7, <2>1
  <2>5. u = f[l].used /\ used = SubSeq(answer, 1, u) /\ cut = [n \in 0..Len(members) |-> f[n].used]
    OBVIOUS
  <2> HIDE DEF u, used, cut
  <2>3. ReadAs(others, f[l], used, cut)
    BY <1>1, <1>2, <1>4, <1>5, <1>6, <2>2, <2>5, ReadDivides
  <2>4. used = SubSeq(answer, 1, decoded.used)
    BY <2>2 DEF used
  <2> QED BY <2>2, <2>3, <2>4, Zenon DEF ReadAs
<1>9. ASSUME NEW cut \in Cuts(others, answer), Divides(cut, others, answer),
             BearersHeld(others, cut)
      PROVE  decoded # None /\ decoded.used = Len(answer)
  <2>1. HeldIn(e, cut)
    <3> SUFFICES ASSUME NEW p \in 1..Len(others), IsEvent, others[p].name \in DOMAIN e.bearers
                 PROVE  Number(Field(answer, cut, p)) \in Bearers(e.bearers[others[p].name])
      BY Zenon DEF HeldIn
    <3>1. p \in DOMAIN others
      <4>1. Loads(others)
        BY <1>2 DEF ReadsFitted
      <4> QED BY <4>1, LoadedMembers
    <3> DEFINE bearers == IF IsEvent THEN Entry(target[1]).bearers ELSE <<>>
    <3>2. bearers = e.bearers
      BY DEF e, EntryBuilt
    <3>3. \A q \in DOMAIN others : others[q].name \in DOMAIN bearers =>
            Number(Field(answer, cut, q)) \in Bearers(bearers[others[q].name])
      BY <1>9, Zenon DEF BearersHeld
    <3> HIDE DEF bearers
    <3> QED BY <3>1, <3>2, <3>3
  <2>2. ~so.failed /\ so.used = Len(answer)
    BY <1>1, <1>2, <1>4, <1>5, <1>9, <2>1, ReadsDivision
  <2>3. so.rest = <<>>
    <3> DEFINE T == Byte
               n == Len(answer)
    <3>1. so.rest = SubSeq(answer, n + 1, n)
      BY <1>4, <1>6, <2>2, Zenon DEF ReadUpTo
    <3>2. answer \in Seq(T)
      BY <1>1
    <3> HIDE DEF T
    <3>3. SubSeq(answer, n + 1, n) = <<>>
      BY <3>2
    <3> QED BY <3>1, <3>3
  <2>4. ~IsEvent => ~(so.used > Envelope(members).max)
    <3> SUFFICES ASSUME ~IsEvent PROVE ~(so.used > Envelope(members).max)
      OBVIOUS
    <3> DEFINE n == Len(answer)
               max == Envelope(members).max
    <3>1. so.used <= max /\ max \in Nat
      BY <1>1, <1>2, <1>4, <1>5, <2>2, ReadWithinEnvelope
    <3> HIDE DEF max
    <3>3. so.used \in Nat
      BY <1>1, <2>2
    <3> QED BY <3>1, <3>3 DEF max
  <2>5. decoded = What(so)
    BY <1>1, <2>2, <2>3, <2>4
  <2> QED BY <1>7, <2>2, <2>5
<1> QED BY <1>8, <1>9, Zenon DEF e

(* Nothing is read at first.                                                  *)
LEMMA DecodingInit == Init => DecodingInv
BY DEF Init, DecodingInv

(* What the target enables has returns that fit.                              *)
LEMMA DecodingBuild ==
  ASSUME DecodingInv, NEW t \in Targets, Build(t)
  PROVE  DecodingInv'
<1> DEFINE enabled == {variant \in Compiled : Enabled(On(variant), t)}
<1>1. /\ pc = "expanded" /\ target' = t /\ declared' = declared
      /\ \/ pc' = "refused"
         \/ /\ pc' = "built" /\ \A variant \in enabled : Asserted(variant, t)
            /\ built' \in IF enabled = {} THEN {None} ELSE enabled
  BY Zenon DEF Build
<1>2. declared \in Declarations /\ Expanded
  BY <1>1 DEF DecodingInv
<1>3. ASSUME pc' = "built", built' # None
      PROVE  FittedReturns(Returned, ReturnFields, target, EntryBuilt)'
  <2>1. PICK variant \in Compiled : /\ built' = variant /\ Enabled(On(variant), t)
                                    /\ Asserted(variant, t)
    BY <1>1, <1>3
  <2> DEFINE members == Latest(variant).returns
             fields == FieldsIn(declared.returns, CHOOSE s \in variant : TRUE)
             e == Entry(t[1])
  <2>2. FittedReturns(members, fields, t, e)
    BY <1>2, <2>1, ReturnsFit
  <2>3. Returned' = members
    BY <1>1, <2>1 DEF Returned, Members, Side, Latest, Facts, Entry, history
  <2>4. ReturnFields' = fields
    BY <1>1, <2>1 DEF ReturnFields, FieldsBuilt
  <2>5. EntryBuilt' = e /\ IsEvent' = IsEvent
    BY <1>1 DEF EntryBuilt, Entry, history, IsEvent
  <2> HIDE DEF members, fields, e
  <2> QED BY <1>1, <2>2, <2>3, <2>4, <2>5, SMTT(30) DEF FittedReturns, ReadFits
<1> QED BY <1>1, <1>2, <1>3 DEF DecodingInv

(* The declaration and the build stay when an answer is read.                 *)
LEMMA DecodingRead ==
  ASSUME DecodingInv, Decode \/ ReadHci
  PROVE  DecodingInv'
<1>1. /\ pc = "answered" /\ pc' = "decoded"
      /\ declared' = declared /\ target' = target /\ built' = built /\ answer' = answer
  BY DEF Decode, ReadHci
<1>2. \/ decoded' = IF Reading.failed \/ Reading.rest # <<>> THEN None ELSE What(Reading)
      \/ /\ ~IsEvent
         /\ decoded' = IF Reading.failed \/ Reading.used > Envelope(Returned).max
                       THEN None ELSE What(Reading)
  <2>1. CASE Decode
    BY <2>1, Zenon DEF Decode, Reading, Returned, ReturnFields, What
  <2>2. CASE ReadHci
    BY <2>2, Zenon DEF ReadHci, Reading, Returned, ReturnFields, What
  <2> QED BY <2>1, <2>2
<1>3. /\ Returned' = Returned /\ Reading' = Reading /\ IsEvent' = IsEvent
      /\ FittedReturns(Returned, ReturnFields, target, EntryBuilt)'
           = FittedReturns(Returned, ReturnFields, target, EntryBuilt)
  BY <1>1, SameReturned, SameFitted, SameReading
<1>4. Envelope(Returned)' = Envelope(Returned) /\ What(Reading)' = What(Reading)
  BY <1>3 DEF Envelope, What
<1>5. /\ declared \in Declarations /\ built # None /\ answer \in Seq(Byte)
      /\ FittedReturns(Returned, ReturnFields, target, EntryBuilt)
  BY <1>1 DEF DecodingInv
<1> QED BY <1>1, <1>2, <1>3, <1>4, <1>5 DEF DecodingInv

(* A step that builds nothing and reads nothing.                              *)
LEMMA DecodingOther ==
  ASSUME DecodingInv, declared' = declared, target' = target, built' = built,
         pc' \notin {"expanded", "decoded"},
         pc' \in {"built", "new", "encoded", "answered"} =>
           pc \in {"built", "new", "encoded", "answered"},
         pc' = "answered" => built # None /\ answer' \in Seq(Byte)
  PROVE  DecodingInv'
<1>1. FittedReturns(Returned, ReturnFields, target, EntryBuilt)'
        = FittedReturns(Returned, ReturnFields, target, EntryBuilt)
  BY SameFitted
<1> QED BY <1>1 DEF DecodingInv

(* A declaration is expanded, a target built, an answer arrives and is read:  *)
(* the other steps leave what is read alone.                                  *)
LEMMA DecodingStep == DecodingInv /\ [Next]_vars => DecodingInv'
<1> SUFFICES ASSUME DecodingInv, [Next]_vars PROVE DecodingInv'
  OBVIOUS
<1>1. CASE Expand
  <2>1. /\ declared' = declared /\ pc' \in {"expanded", "refused"}
        /\ pc' = "expanded" => Expanded
    BY <1>1 DEF Expand, Expanded
  <2>2. Expanded' = Expanded
    BY <2>1, SameExpanded
  <2> QED BY <2>1, <2>2 DEF DecodingInv
<1>2. CASE \E t \in Targets : Build(t)
  BY <1>2, DecodingBuild
<1>3. CASE \E v \in Supplied : New(v)
  <2>1. /\ pc = "built" /\ pc' \in {"new", "rejected"}
        /\ declared' = declared /\ target' = target /\ built' = built
    BY <1>3 DEF New
  <2> QED BY <2>1, DecodingOther
<1>4. CASE Write \/ Finish
  <2>1. /\ pc = "new" /\ pc' \in {"new", "encoded"}
        /\ declared' = declared /\ target' = target /\ built' = built
    BY <1>4 DEF Write, Finish
  <2> QED BY <2>1, DecodingOther
<1>5. CASE \E bytes \in Answers[declared.c_name] : Answer(bytes)
  <2>1. PICK bytes \in Answers[declared.c_name] : Answer(bytes)
    BY <1>5
  <2>2. /\ pc \in {"built", "encoded"} /\ pc' = "answered" /\ built # None /\ answer' = bytes
        /\ declared' = declared /\ target' = target /\ built' = built
    BY <2>1 DEF Answer
  <2>3. bytes \in Seq(Byte)
    BY AnswerAssumption DEF DecodingInv
  <2> QED BY <2>2, <2>3, DecodingOther
<1>6. CASE Decode \/ ReadHci
  BY <1>6, DecodingRead
<1>7. CASE UNCHANGED vars
  <2>1. /\ pc' = pc /\ declared' = declared /\ target' = target /\ built' = built
        /\ answer' = answer /\ decoded' = decoded
    BY <1>7 DEF vars
  <2>2. /\ Expanded' = Expanded /\ Returned' = Returned /\ Reading' = Reading
        /\ IsEvent' = IsEvent
        /\ FittedReturns(Returned, ReturnFields, target, EntryBuilt)'
             = FittedReturns(Returned, ReturnFields, target, EntryBuilt)
    BY <2>1, SameExpanded, SameReturned, SameFitted, SameReading
  <2>3. Envelope(Returned)' = Envelope(Returned) /\ What(Reading)' = What(Reading)
    BY <2>2 DEF Envelope, What
  <2> QED BY <2>1, <2>2, <2>3 DEF DecodingInv
<1> QED BY <1>1, <1>2, <1>3, <1>4, <1>5, <1>6, <1>7 DEF Next, Stop

(* Whatever the history of a command or event, the declaration, the target    *)
(* and the bytes that arrive: what from_hci_bytes_complete or read_hci of the *)
(* generated struct decodes are the parts the release built for divides the   *)
(* bytes into, each field that of its member and each list as long as its     *)
(* count says; and bytes that the release's layout divides are decoded, to    *)
(* the last one, whatever their members hold, a bearer outside its release's  *)
(* apart.  The macros refuse a declaration of which this would not hold:      *)
(* counts are hidden, lists of a response have the catalog's capacity, and a  *)
(* type that does not stand for every integer keeps the others.               *)
THEOREM DeclarationReadsReturns == Spec => []ReadsReturns
<1>1. Init => DecodingInv
  BY DecodingInit
<1>2. DecodingInv /\ [Next]_vars => DecodingInv'
  BY DecodingStep
<1>3. DecodingInv => ReadsReturns
  BY ReadsWhat
<1> QED BY <1>1, <1>2, <1>3, PTL DEF Spec
================================================================================
