---------------------------- MODULE SequenceLemmas ----------------------------
(* What the sequence operators that model the intrusive lists do to the set   *)
(* of listed nodes and to the absence of repetitions; induction on the length *)
(* of a sequence, as least elements of sets of naturals; and what the         *)
(* recursive functions of WireSequences compute.                              *)
EXTENDS WireSequences, SequencesExt, FiniteSetTheorems, WellFoundedInduction, TLAPS

(* The elements of a sequence over S are in S.                                *)
LEMMA ElementsInSet ==
  ASSUME NEW S, NEW s \in Seq(S)
  PROVE  ToSet(s) \subseteq S
<1>1. \A i \in DOMAIN s : s[i] \in S
  OBVIOUS
<1> QED BY <1>1 DEF ToSet

(* Appending an unlisted element adds it, once.                               *)
LEMMA AppendElements ==
  ASSUME NEW S, NEW s \in Seq(S), NEW e \in S
  PROVE  /\ ToSet(Append(s, e)) = ToSet(s) \cup {e}
         /\ IsInjective(s) /\ e \notin ToSet(s) => IsInjective(Append(s, e))
<1>1. Len(Append(s, e)) = Len(s) + 1 /\ Append(s, e)[Len(s) + 1] = e
  OBVIOUS
<1>2. \A i \in 1..Len(s) : Append(s, e)[i] = s[i]
  OBVIOUS
<1>3. DOMAIN Append(s, e) = 1..(Len(s) + 1) /\ DOMAIN s = 1..Len(s) /\ Len(s) \in Nat
  OBVIOUS
<1>4. ToSet(Append(s, e)) = ToSet(s) \cup {e}
  BY <1>1, <1>2, <1>3 DEF ToSet
<1>5. IsInjective(s) /\ e \notin ToSet(s) => IsInjective(Append(s, e))
  BY <1>1, <1>2, <1>3 DEF ToSet, IsInjective
<1> QED BY <1>4, <1>5

(* Removing the head of a list without repetitions removes exactly the head.  *)
LEMMA TailElements ==
  ASSUME NEW S, NEW s \in Seq(S), s # <<>>
  PROVE  /\ Head(s) \in S
         /\ Head(s) \in ToSet(s)
         /\ Tail(s) \in Seq(S)
         /\ IsInjective(s) => /\ IsInjective(Tail(s))
                              /\ ToSet(Tail(s)) = ToSet(s) \ {Head(s)}
<1>1. Len(s) \in Nat /\ Len(s) >= 1 /\ DOMAIN s = 1..Len(s) /\ Head(s) = s[1]
  OBVIOUS
<1>2. Tail(s) \in Seq(S) /\ Len(Tail(s)) = Len(s) - 1
  OBVIOUS
<1>3. \A i \in 1..(Len(s) - 1) : Tail(s)[i] = s[i + 1]
  OBVIOUS
<1>4. DOMAIN Tail(s) = 1..(Len(s) - 1)
  BY <1>2
<1>5. Head(s) \in S /\ Head(s) \in ToSet(s)
  BY <1>1 DEF ToSet
<1>6. ASSUME IsInjective(s) PROVE IsInjective(Tail(s))
  BY <1>1, <1>3, <1>4, <1>6 DEF IsInjective
<1>7. ASSUME IsInjective(s) PROVE ToSet(Tail(s)) = ToSet(s) \ {Head(s)}
  <2>1. \A x \in ToSet(Tail(s)) : x \in ToSet(s) /\ x # Head(s)
    BY <1>1, <1>3, <1>4, <1>7 DEF ToSet, IsInjective
  <2>2. ASSUME NEW x \in ToSet(s), x # Head(s) PROVE x \in ToSet(Tail(s))
    <3>1. PICK i \in 1..Len(s) : x = s[i]
      BY <1>1 DEF ToSet
    <3>2. i - 1 \in 1..(Len(s) - 1) /\ Tail(s)[i - 1] = x
      BY <1>1, <1>3, <2>2, <3>1
    <3> QED BY <1>4, <3>2 DEF ToSet
  <2> QED BY <2>1, <2>2
<1> QED BY <1>2, <1>5, <1>6, <1>7

(* insert_head adds an unlisted element, once.                                *)
LEMMA ConsElements ==
  ASSUME NEW S, NEW s \in Seq(S), NEW e \in S
  PROVE  /\ Cons(e, s) \in Seq(S)
         /\ Cons(e, s) # <<>>
         /\ ToSet(Cons(e, s)) = ToSet(s) \cup {e}
         /\ IsInjective(s) /\ e \notin ToSet(s) => IsInjective(Cons(e, s))
<1> DEFINE t == Cons(e, s)
<1>1. t \in Seq(S) /\ Len(t) = Len(s) + 1 /\ Len(s) \in Nat
  BY DEF Cons
<1>2. t[1] = e /\ \A i \in 1..Len(s) : t[i + 1] = s[i]
  BY DEF Cons
<1>3. DOMAIN t = 1..(Len(s) + 1) /\ DOMAIN s = 1..Len(s)
  BY <1>1
<1>4. \A i \in 2..(Len(s) + 1) : i - 1 \in 1..Len(s) /\ t[i] = s[i - 1]
  BY <1>1, <1>2
<1> HIDE DEF t
<1>5. ToSet(t) = ToSet(s) \cup {e}
  <2>1. \A x \in ToSet(t) : x \in ToSet(s) \cup {e}
    BY <1>1, <1>2, <1>3, <1>4 DEF ToSet
  <2>2. \A x \in ToSet(s) \cup {e} : x \in ToSet(t)
    BY <1>1, <1>2, <1>3 DEF ToSet
  <2> QED BY <2>1, <2>2
<1>6. ASSUME IsInjective(s), e \notin ToSet(s) PROVE IsInjective(t)
  <2> SUFFICES ASSUME NEW i \in 1..(Len(s) + 1), NEW j \in 1..(Len(s) + 1), t[i] = t[j]
               PROVE  i = j
    BY <1>3 DEF IsInjective
  <2>1. \A k \in 1..Len(s) : s[k] # e
    BY <1>3, <1>6 DEF ToSet
  <2>2. CASE i = 1 /\ j = 1
    BY <2>2
  <2>3. CASE i = 1 /\ j \in 2..(Len(s) + 1)
    BY <1>2, <1>4, <2>1, <2>3
  <2>4. CASE j = 1 /\ i \in 2..(Len(s) + 1)
    BY <1>2, <1>4, <2>1, <2>4
  <2>5. CASE i \in 2..(Len(s) + 1) /\ j \in 2..(Len(s) + 1)
    <3>1. i - 1 \in 1..Len(s) /\ j - 1 \in 1..Len(s) /\ s[i - 1] = s[j - 1]
      BY <1>4, <2>5
    <3>2. i - 1 = j - 1
      BY <1>3, <1>6, <3>1 DEF IsInjective
    <3> QED BY <3>2, <2>5, <1>1
  <2> QED BY <2>2, <2>3, <2>4, <2>5, <1>1
<1>7. t # <<>>
  BY <1>1
<1> QED BY <1>1, <1>5, <1>6, <1>7 DEF t

(* Moving a list to the front of another one, head first.                     *)
LEMMA ReverseConcatElements ==
  ASSUME NEW S, NEW s \in Seq(S), NEW t \in Seq(S)
  PROVE  /\ Reverse(s) \o t \in Seq(S)
         /\ ToSet(Reverse(s) \o t) = ToSet(s) \cup ToSet(t)
         /\ /\ IsInjective(s)
            /\ IsInjective(t)
            /\ ToSet(s) \cap ToSet(t) = {}
            => IsInjective(Reverse(s) \o t)
<1> DEFINE r == Reverse(s)
           n == Len(s)
<1>1. r \in Seq(S) /\ Len(r) = n /\ n \in Nat
  BY DEF Reverse
<1>2. \A i \in 1..n : n - i + 1 \in 1..n /\ r[i] = s[n - i + 1]
  BY DEF Reverse
<1> HIDE DEF r
<1> DEFINE u == r \o t
           m == Len(t)
<1>3. u \in Seq(S) /\ Len(u) = n + m /\ m \in Nat
  BY <1>1
<1>4. \A i \in 1..n : u[i] = r[i]
  BY <1>1
<1>5. \A i \in 1..m : u[n + i] = t[i]
  BY <1>1
<1>6. DOMAIN u = 1..(n + m) /\ DOMAIN s = 1..n /\ DOMAIN t = 1..m
  BY <1>3
<1>7. \A i \in (n + 1)..(n + m) : i - n \in 1..m /\ u[i] = t[i - n]
  BY <1>1, <1>3, <1>5
<1> HIDE DEF u, n, m
<1>8. \A i \in 1..n : u[i] = s[n - i + 1] /\ u[n - i + 1] = s[i]
  BY <1>1, <1>2, <1>4
<1>9. ToSet(u) = ToSet(s) \cup ToSet(t)
  <2>1. \A x \in ToSet(u) : x \in ToSet(s) \cup ToSet(t)
    <3> SUFFICES ASSUME NEW i \in 1..(n + m) PROVE u[i] \in ToSet(s) \cup ToSet(t)
      BY <1>6 DEF ToSet
    <3>1. CASE i \in 1..n
      BY <3>1, <1>2, <1>6, <1>8 DEF ToSet
    <3>2. CASE i \in (n + 1)..(n + m)
      BY <3>2, <1>6, <1>7 DEF ToSet
    <3> QED BY <3>1, <3>2, <1>1, <1>3
  <2>2. \A x \in ToSet(s) : x \in ToSet(u)
    <3> SUFFICES ASSUME NEW i \in 1..n PROVE s[i] \in ToSet(u)
      BY <1>6 DEF ToSet
    <3>1. n - i + 1 \in 1..(n + m) /\ u[n - i + 1] = s[i]
      BY <1>1, <1>2, <1>3, <1>8
    <3> QED BY <3>1, <1>6 DEF ToSet
  <2>3. \A x \in ToSet(t) : x \in ToSet(u)
    <3> SUFFICES ASSUME NEW i \in 1..m PROVE t[i] \in ToSet(u)
      BY <1>6 DEF ToSet
    <3>1. n + i \in 1..(n + m) /\ u[n + i] = t[i]
      BY <1>1, <1>3, <1>5 DEF u
    <3> QED BY <3>1, <1>6 DEF ToSet
  <2> QED BY <2>1, <2>2, <2>3
<1>10. ASSUME IsInjective(s), IsInjective(t), ToSet(s) \cap ToSet(t) = {}
       PROVE  IsInjective(u)
  <2> SUFFICES ASSUME NEW i \in 1..(n + m), NEW j \in 1..(n + m), u[i] = u[j]
               PROVE  i = j
    BY <1>6 DEF IsInjective
  <2>1. \A k, l \in 1..n : s[k] = s[l] => k = l
    BY <1>6, <1>10 DEF IsInjective
  <2>2. \A k, l \in 1..m : t[k] = t[l] => k = l
    BY <1>6, <1>10 DEF IsInjective
  <2>3. \A k \in 1..n, l \in 1..m : s[k] # t[l]
    BY <1>6, <1>10 DEF ToSet
  <2>4. CASE i \in 1..n /\ j \in 1..n
    <3>1. n - i + 1 = n - j + 1
      BY <1>2, <1>8, <2>1, <2>4
    <3> QED BY <3>1, <1>1
  <2>5. CASE i \in (n + 1)..(n + m) /\ j \in (n + 1)..(n + m)
    <3>1. i - n = j - n
      BY <1>7, <2>2, <2>5
    <3> QED BY <3>1, <1>1
  <2>6. CASE i \in 1..n /\ j \in (n + 1)..(n + m)
    BY <1>2, <1>7, <1>8, <2>3, <2>6
  <2>7. CASE i \in (n + 1)..(n + m) /\ j \in 1..n
    BY <1>2, <1>7, <1>8, <2>3, <2>7
  <2> QED BY <2>4, <2>5, <2>6, <2>7, <1>1, <1>3
<1> QED BY <1>3, <1>9, <1>10 DEF u, r

------------------------------------------------------------------------------
(* A set of naturals that is not empty has a least element: the one with the  *)
(* fewest numbers below it.                                                   *)
LEMMA LeastNatural ==
  ASSUME NEW S \in SUBSET Nat, S # {}
  PROVE  \E n \in S : \A m \in S : n <= m
<1> DEFINE Below(n) == 0..(n - 1)
           T == {Below(n) : n \in S}
<1>1. T \subseteq FiniteSubsetsOf(Nat)
  <2> SUFFICES ASSUME NEW n \in S PROVE Below(n) \in SUBSET Nat /\ IsFiniteSet(Below(n))
    BY DEF FiniteSubsetsOf
  <2>1. 0 \in Int /\ n - 1 \in Int
    OBVIOUS
  <2>2. IsFiniteSet(0..(n - 1))
    BY <2>1, FS_Interval
  <2> QED BY <2>1, <2>2
<1>2. T # {}
  OBVIOUS
<1>3. PICK d \in T : \A e \in T : ~(<<e, d>> \in StrictSubsetOrdering(Nat))
  <2> HIDE DEF T
  <2> QED BY <1>1, <1>2, FS_StrictSubsetOrderingWellFounded, WFMin
<1>4. PICK n \in S : d = Below(n)
  OBVIOUS
<1>5. ASSUME NEW m \in S, m < n PROVE FALSE
  <2>1. Below(m) \in T
    OBVIOUS
  <2>2. Below(m) \subseteq Nat /\ d \subseteq Nat /\ Below(m) \subseteq d
    BY <1>4, <1>5
  <2>3. m \in d /\ m \notin Below(m)
    BY <1>4, <1>5
  <2>4. <<Below(m), d>> \in (SUBSET Nat) \X (SUBSET Nat)
    BY <2>2
  <2> HIDE DEF T, Below
  <2>5. <<Below(m), d>> \in StrictSubsetOrdering(Nat)
    BY <2>2, <2>3, <2>4 DEF StrictSubsetOrdering
  <2> QED BY <1>3, <2>1, <2>5
<1>6. ASSUME NEW m \in S PROVE n <= m
  <2>1. n \in Nat /\ m \in Nat
    OBVIOUS
  <2> QED BY <1>5, <2>1
<1> QED BY <1>6

(* One that is bounded has a greatest.                                        *)
LEMMA GreatestNatural ==
  ASSUME NEW S \in SUBSET Nat, S # {}, NEW b \in Nat, \A n \in S : n <= b
  PROVE  \E n \in S : \A m \in S : m <= n
<1> DEFINE Below == {b - n : n \in S}
<1>1. ASSUME NEW n \in S PROVE n \in Nat /\ b - n \in Nat
  <2>1. n \in Nat /\ n <= b
    OBVIOUS
  <2> QED BY <2>1
<1>2. Below \in SUBSET Nat /\ Below # {}
  BY <1>1
<1>3. PICK d \in Below : \A e \in Below : d <= e
  <2> HIDE DEF Below
  <2> QED BY <1>2, LeastNatural
<1>4. PICK n \in S : d = b - n
  OBVIOUS
<1>5. ASSUME NEW m \in S PROVE m <= n
  <2>1. b - m \in Below
    OBVIOUS
  <2>2. b - n <= b - m
    BY <1>3, <1>4, <2>1
  <2>3. m \in Nat /\ n \in Nat
    BY <1>1
  <2> QED BY <2>2, <2>3
<1> QED BY <1>5

(* A set of naturals with 0 and the successor of each of its elements has     *)
(* them all.                                                                  *)
LEMMA SetInduction ==
  ASSUME NEW S, 0 \in S, \A n \in Nat : n \in S => n + 1 \in S
  PROVE  Nat \subseteq S
<1> DEFINE Others == Nat \ S
<1>1. ASSUME Others # {} PROVE FALSE
  <2>1. PICK n \in Others : \A m \in Others : n <= m
    <3>1. Others \in SUBSET Nat
      OBVIOUS
    <3> HIDE DEF Others
    <3> QED BY <1>1, <3>1, LeastNatural
  <2>2. n \in Nat /\ n # 0 /\ n \notin S
    BY <2>1
  <2>3. n - 1 \in Nat /\ n - 1 + 1 = n /\ ~(n <= n - 1)
    BY <2>2
  <2>4. n - 1 \in S
    BY <2>1, <2>3
  <2> QED BY <2>2, <2>3, <2>4
<1> QED BY <1>1

------------------------------------------------------------------------------
(* Sums.                                                                      *)

(* The recursive function of Sums exists.                                     *)
LEMMA SumsRecursion ==
  ASSUME NEW s, Len(s) \in Nat
  PROVE  /\ Sums(s)[0] = 0
         /\ \A n \in 1..Len(s) : Sums(s)[n] = Sums(s)[n - 1] + s[n]
<1> DEFINE Step(f, n) == IF n = 0 THEN 0 ELSE f[n - 1] + s[n]
           S == {m \in Nat : \E f : f = [n \in 0..m |-> Step(f, n)]}
<1>1. 0 \in S
  <2> DEFINE f == [n \in 0..0 |-> 0]
  <2>1. f = [n \in 0..0 |-> Step(f, n)]
    OBVIOUS
  <2> QED BY <2>1
<1>2. ASSUME NEW m \in Nat, m \in S PROVE m + 1 \in S
  <2>1. PICK f : f = [n \in 0..m |-> Step(f, n)]
    BY <1>2
  <2> DEFINE last == Step(f, m + 1)
             g == [n \in 0..(m + 1) |-> IF n = m + 1 THEN last ELSE f[n]]
  <2>2. \A n \in 0..m : f[n] = Step(f, n)
    <3> HIDE DEF Step
    <3> QED BY <2>1
  <2>3. \A n \in 0..m : g[n] = f[n]
    OBVIOUS
  <2>4. g[m + 1] = last
    OBVIOUS
  <2> HIDE DEF g
  <2>5. ASSUME NEW n \in 0..(m + 1) PROVE g[n] = Step(g, n)
    <3>1. CASE n = m + 1
      <4>1. g[n - 1] = f[n - 1] /\ n # 0
        BY <2>3, <3>1
      <4> QED BY <2>4, <3>1, <4>1
    <3>2. CASE n # m + 1
      <4>1. n \in 0..m /\ (n # 0 => n - 1 \in 0..m)
        BY <3>2
      <4>2. g[n] = f[n] /\ (n # 0 => g[n - 1] = f[n - 1])
        BY <2>3, <4>1
      <4>3. f[n] = Step(f, n)
        BY <2>2, <4>1
      <4> QED BY <4>2, <4>3
    <3> QED BY <3>1, <3>2
  <2>6. g = [n \in 0..(m + 1) |-> g[n]]
    BY DEF g
  <2>7. g = [n \in 0..(m + 1) |-> Step(g, n)]
    <3> HIDE DEF Step
    <3> QED BY <2>5, <2>6
  <2> QED BY <2>7
<1>3. Len(s) \in S
  <2> HIDE DEF S
  <2> QED BY <1>1, <1>2, SetInduction
<1> DEFINE upTo == CHOOSE f : f = [n \in 0..Len(s) |-> Step(f, n)]
<1>4. upTo = [n \in 0..Len(s) |-> Step(upTo, n)]
  BY <1>3
<1>5. Sums(s) = upTo
  BY DEF Sums
<1> HIDE DEF upTo
<1>6. ASSUME NEW n \in 0..Len(s) PROVE upTo[n] = Step(upTo, n)
  <2> HIDE DEF Step
  <2> QED BY <1>4
<1> QED BY <1>5, <1>6

(* Partial sums of naturals are naturals that grow, each at most the whole.   *)
LEMMA SumsGrow ==
  ASSUME NEW s \in Seq(Nat)
  PROVE  /\ \A n \in 0..Len(s) : Sums(s)[n] \in Nat /\ Sums(s)[n] <= Total(s)
         /\ Total(s) \in Nat
<1>1. /\ Sums(s)[0] = 0
      /\ \A n \in 1..Len(s) : Sums(s)[n] = Sums(s)[n - 1] + s[n] /\ s[n] \in Nat
      /\ Len(s) \in Nat
  BY SumsRecursion
<1> DEFINE S == {n \in Nat : n <= Len(s) => Sums(s)[n] \in Nat}
           T == {d \in Nat : d <= Len(s) => Sums(s)[Len(s) - d] <= Total(s)}
<1>0. Total(s) = Sums(s)[Len(s)]
  BY DEF Total
<1>2. \A n \in 0..Len(s) : Sums(s)[n] \in Nat
  <2>1. 0 \in S
    BY <1>1
  <2>2. ASSUME NEW n \in Nat, n \in S, n + 1 <= Len(s) PROVE Sums(s)[n + 1] \in Nat
    <3>1. Sums(s)[n] \in Nat /\ n + 1 \in 1..Len(s) /\ n + 1 - 1 = n
      BY <1>1, <2>2
    <3>2. Sums(s)[n + 1] = Sums(s)[n] + s[n + 1] /\ s[n + 1] \in Nat
      BY <1>1, <3>1
    <3> QED BY <3>1, <3>2
  <2>3. Nat \subseteq S
    <3>1. \A n \in Nat : n \in S => n + 1 \in S
      BY <2>2
    <3> HIDE DEF S
    <3> QED BY <2>1, <3>1, SetInduction
  <2> QED BY <2>3
<1>3. \A n \in 0..Len(s) : Sums(s)[n] <= Total(s)
  <2>1. 0 \in T
    <3>1. Len(s) - 0 = Len(s) /\ Len(s) \in 0..Len(s)
      BY <1>1
    <3>2. Total(s) \in Nat
      BY <1>0, <1>2, <3>1
    <3> QED BY <1>0, <3>1, <3>2
  <2>2. ASSUME NEW d \in Nat, d \in T, d + 1 <= Len(s)
        PROVE  Sums(s)[Len(s) - (d + 1)] <= Total(s)
    <3> DEFINE n == Len(s) - d
    <3>1. n \in 1..Len(s) /\ n - 1 = Len(s) - (d + 1)
      BY <1>1, <2>2
    <3>2. Sums(s)[n] <= Total(s) /\ Sums(s)[n] = Sums(s)[n - 1] + s[n] /\ s[n] \in Nat
      BY <1>1, <2>2, <3>1
    <3>3. Sums(s)[n - 1] \in Nat /\ Sums(s)[n] \in Nat /\ Total(s) \in Nat
      <4>1. n - 1 \in 0..Len(s) /\ n \in 0..Len(s) /\ Len(s) \in 0..Len(s)
        BY <1>1, <3>1
      <4> QED BY <1>0, <1>2, <4>1
    <3>4. Sums(s)[n - 1] <= Total(s)
      <4> HIDE DEF n
      <4> QED BY <3>2, <3>3
    <3> QED BY <3>1, <3>4
  <2>3. Nat \subseteq T
    <3>1. ASSUME NEW d \in Nat, d \in T PROVE d + 1 \in T
      <4>1. d + 1 \in Nat
        OBVIOUS
      <4>2. d + 1 <= Len(s) => Sums(s)[Len(s) - (d + 1)] <= Total(s)
        <5> HIDE DEF T
        <5> QED BY <2>2, <3>1
      <4> QED BY <4>1, <4>2
    <3> HIDE DEF T
    <3> QED BY <2>1, <3>1, SetInduction
  <2>4. ASSUME NEW n \in 0..Len(s) PROVE Sums(s)[n] <= Total(s)
    <3>1. Len(s) - n \in Nat /\ Len(s) - n <= Len(s) /\ Len(s) - (Len(s) - n) = n
      BY <1>1
    <3> QED BY <2>3, <3>1
  <2> QED BY <2>4
<1>4. Total(s) \in Nat
  <2>1. Len(s) \in 0..Len(s)
    BY <1>1
  <2> QED BY <1>0, <1>2, <2>1
<1> QED BY <1>2, <1>3, <1>4

(* Pieces cut one after the other, each at most as wide as its bound, end at  *)
(* most at the sum of the bounds.                                             *)
LEMMA CutsWithinSums ==
  ASSUME NEW s \in Seq(Nat), NEW m \in 0..Len(s), NEW cut \in [0..m -> Nat], cut[0] = 0,
         \A i \in 1..m : cut[i] - cut[i - 1] <= s[i]
  PROVE  cut[m] <= Sums(s)[m]
<1> DEFINE S == {n \in Nat : n <= m => cut[n] <= Sums(s)[n]}
<1>1. /\ Sums(s)[0] = 0 /\ Len(s) \in Nat
      /\ \A n \in 1..Len(s) : Sums(s)[n] = Sums(s)[n - 1] + s[n] /\ s[n] \in Nat
      /\ \A n \in 0..Len(s) : Sums(s)[n] \in Nat
  BY SumsRecursion, SumsGrow
<1>2. 0 \in S
  BY <1>1
<1>3. ASSUME NEW n \in Nat, n \in S, n + 1 <= m PROVE cut[n + 1] <= Sums(s)[n + 1]
  <2>1. cut[n] <= Sums(s)[n] /\ n + 1 \in 1..m /\ n + 1 - 1 = n /\ n + 1 \in 1..Len(s)
    BY <1>1, <1>3
  <2>2. cut[n + 1] - cut[n] <= s[n + 1] /\ Sums(s)[n + 1] = Sums(s)[n] + s[n + 1]
    BY <1>1, <2>1
  <2>3. cut[n] \in Nat /\ cut[n + 1] \in Nat
    <3>1. n \in 0..m /\ n + 1 \in 0..m
      BY <2>1
    <3> QED BY <3>1
  <2>4. s[n + 1] \in Nat /\ Sums(s)[n] \in Nat
    BY <1>1, <2>1
  <2>5. \A a, b, c, d, e \in Nat : a <= d /\ b - a <= c /\ e = d + c => b <= e
    OBVIOUS
  <2>6. Sums(s)[n + 1] \in Nat
    BY <1>1, <2>1
  <2> HIDE DEF S
  <2> QED BY <2>1, <2>2, <2>3, <2>4, <2>5, <2>6, Zenon
<1>4. Nat \subseteq S
  <2>1. \A n \in Nat : n \in S => n + 1 \in S
    BY <1>3
  <2> HIDE DEF S
  <2> QED BY <1>2, <2>1, SetInduction
<1> QED BY <1>4

(* The sum of a prefix.                                                       *)
LEMMA PrefixTotal ==
  ASSUME NEW s, Len(s) \in Nat, NEW n \in 0..Len(s)
  PROVE  Total([p \in 1..n |-> s[p]]) = Sums(s)[n]
<1> DEFINE r == [p \in 1..n |-> s[p]]
           T == {s[p] : p \in 1..n}
<1>1. n \in Nat /\ r \in [1..n -> T] /\ \A p \in 1..n : r[p] = s[p]
  OBVIOUS
<1> HIDE DEF r, T
<1>2. Len(r) = n
  <2>1. r \in Seq(T)
    BY <1>1
  <2> QED BY <1>1, <2>1
<1>3. Sums(r)[0] = 0 /\ \A i \in 1..n : Sums(r)[i] = Sums(r)[i - 1] + r[i]
  BY <1>1, <1>2, SumsRecursion
<1>4. Sums(s)[0] = 0 /\ \A i \in 1..Len(s) : Sums(s)[i] = Sums(s)[i - 1] + s[i]
  BY SumsRecursion
<1> DEFINE N == {i \in Nat : i <= n => Sums(r)[i] = Sums(s)[i]}
<1>5. 0 \in N
  BY <1>3, <1>4
<1>6. ASSUME NEW i \in Nat, i \in N PROVE i + 1 \in N
  <2> SUFFICES ASSUME i + 1 <= n PROVE Sums(r)[i + 1] = Sums(s)[i + 1]
    OBVIOUS
  <2>1. i + 1 \in 1..n /\ i + 1 \in 1..Len(s) /\ i + 1 - 1 = i /\ i <= n
    BY <1>1
  <2>2. Sums(r)[i] = Sums(s)[i]
    BY <1>6, <2>1
  <2>3. Sums(r)[i + 1] = Sums(r)[i] + r[i + 1]
    BY <1>3, <2>1
  <2>4. Sums(s)[i + 1] = Sums(s)[i] + s[i + 1]
    BY <1>4, <2>1
  <2> QED BY <1>1, <2>1, <2>2, <2>3, <2>4
<1>7. Sums(r)[n] = Sums(s)[n]
  <2> HIDE DEF N
  <2>1. n \in N
    BY <1>1, <1>5, <1>6, SetInduction
  <2> QED BY <2>1 DEF N
<1> QED BY <1>2, <1>7 DEF Total, r

------------------------------------------------------------------------------
(* Sequences one behind the other.                                            *)

(* Concatenation leaves both sequences as they are.                           *)
LEMMA EndToEnd ==
  ASSUME NEW S, NEW s \in Seq(S), NEW t \in Seq(S)
  PROVE  /\ s \o t \in Seq(S) /\ Len(s \o t) = Len(s) + Len(t)
         /\ SubSeq(s \o t, Len(s) + 1, Len(s) + Len(t)) = t
         /\ \A a, b \in Nat : a <= b /\ b <= Len(s) => SubSeq(s \o t, a + 1, b) = SubSeq(s, a + 1, b)
<1>1. s \o t \in Seq(S) /\ Len(s \o t) = Len(s) + Len(t) /\ Len(s) \in Nat /\ Len(t) \in Nat
  OBVIOUS
<1>2. /\ \A i \in 1..Len(s) : (s \o t)[i] = s[i]
      /\ \A i \in 1..Len(t) : (s \o t)[Len(s) + i] = t[i]
  OBVIOUS
<1> DEFINE u == s \o t
<1> HIDE DEF u
<1>3. u \in Seq(S) /\ Len(u) = Len(s) + Len(t)
      /\ (\A i \in 1..Len(s) : u[i] = s[i]) /\ \A i \in 1..Len(t) : u[Len(s) + i] = t[i]
  BY <1>1, <1>2 DEF u
<1>4. SubSeq(u, Len(s) + 1, Len(s) + Len(t)) = t
  <2> DEFINE v == SubSeq(u, Len(s) + 1, Len(s) + Len(t))
  <2>1. v \in Seq(S) /\ Len(v) = Len(t)
    BY <1>1, <1>3
  <2>2. \A i \in 1..Len(t) : v[i] = u[Len(s) + i]
    BY <1>1, <1>3
  <2> HIDE DEF v
  <2>3. \A i \in 1..Len(t) : v[i] = t[i]
    BY <1>3, <2>2
  <2>4. v = t
    BY <2>1, <2>3
  <2> QED BY <2>4 DEF v
<1>5. ASSUME NEW a \in Nat, NEW b \in Nat, a <= b, b <= Len(s)
      PROVE  SubSeq(u, a + 1, b) = SubSeq(s, a + 1, b)
  <2> DEFINE v == SubSeq(u, a + 1, b)
             w == SubSeq(s, a + 1, b)
  <2>1. v \in Seq(S) /\ Len(v) = b - a /\ w \in Seq(S) /\ Len(w) = b - a
    BY <1>1, <1>3, <1>5
  <2>2. \A i \in 1..(b - a) : v[i] = u[a + i] /\ w[i] = s[a + i] /\ a + i \in 1..Len(s)
    BY <1>1, <1>3, <1>5
  <2>3. \A i \in 1..(b - a) : v[i] = w[i]
    BY <1>3, <2>2
  <2> HIDE DEF v, w
  <2>4. v = w
    BY <2>1, <2>3
  <2> QED BY <2>4 DEF v, w
<1> QED BY <1>1, <1>4, <1>5 DEF u

(* A part of a sequence.                                                      *)
LEMMA PartOf ==
  ASSUME NEW S, NEW s \in Seq(S), NEW a \in Nat, NEW b \in Nat, a <= b, b <= Len(s)
  PROVE  /\ SubSeq(s, a + 1, b) \in Seq(S) /\ Len(SubSeq(s, a + 1, b)) = b - a
         /\ \A i \in 1..(b - a) : SubSeq(s, a + 1, b)[i] = s[a + i]
<1>1. Len(s) \in Nat /\ \A i \in (a + 1)..b : s[i] \in S
  OBVIOUS
<1> QED BY <1>1

(* A sequence that never falls is nowhere above its last.                     *)
LEMMA NeverFalls ==
  ASSUME NEW b \in Nat, NEW c \in [0..b -> Nat], \A p \in 1..b : c[p - 1] <= c[p]
  PROVE  \A n \in 0..b : c[n] <= c[b]
<1> DEFINE N == {i \in Nat : i <= b => c[b - i] <= c[b]}
<1>1. 0 \in N
  <2>1. b \in 0..b /\ b - 0 = b
    OBVIOUS
  <2>2. c[b] \in Nat
    BY <2>1
  <2> QED BY <2>1, <2>2
<1>2. ASSUME NEW i \in Nat, i \in N PROVE i + 1 \in N
  <2>0. SUFFICES ASSUME i + 1 <= b PROVE c[b - (i + 1)] <= c[b]
    OBVIOUS
  <2>1. b - i \in 1..b /\ b - (i + 1) = b - i - 1 /\ b - i \in 0..b /\ b - (i + 1) \in 0..b /\ b \in 0..b
    BY <2>0
  <2>2. c[b - i - 1] <= c[b - i] /\ c[b - i] <= c[b]
    BY <1>2, <2>0, <2>1
  <2>3. c[b - i] \in Nat /\ c[b - (i + 1)] \in Nat /\ c[b] \in Nat
    BY <2>1
  <2> QED BY <2>1, <2>2, <2>3
<1>3. ASSUME NEW n \in 0..b PROVE c[n] <= c[b]
  <2>1. PICK j \in Nat : j <= b /\ b - j = n
    <3>1. b - n \in Nat /\ b - n <= b /\ b - (b - n) = n
      OBVIOUS
    <3> QED BY <3>1
  <2>2. j \in N
    <3> HIDE DEF N
    <3> QED BY <1>1, <1>2, SetInduction
  <2> QED BY <2>1, <2>2
<1> QED BY <1>3

(* A part of a part is a part.                                                *)
LEMMA PartOfPart ==
  ASSUME NEW S, NEW s \in Seq(S), NEW a \in Nat, NEW b \in Nat, a <= b, b <= Len(s),
         NEW c \in Nat, NEW d \in Nat, c <= d, d <= b - a
  PROVE  SubSeq(SubSeq(s, a + 1, b), c + 1, d) = SubSeq(s, a + c + 1, a + d)
<1> DEFINE t == SubSeq(s, a + 1, b)
           u == SubSeq(t, c + 1, d)
           v == SubSeq(s, a + c + 1, a + d)
<1>1. t \in Seq(S) /\ Len(t) = b - a /\ \A i \in 1..(b - a) : t[i] = s[a + i]
  BY PartOf
<1> HIDE DEF t
<1>2. u \in Seq(S) /\ Len(u) = d - c /\ \A i \in 1..(d - c) : u[i] = t[c + i]
  BY <1>1, PartOf
<1>3. v \in Seq(S) /\ Len(v) = d - c /\ \A i \in 1..(d - c) : v[i] = s[a + c + i]
  <2> DEFINE e == a + c
             f == a + d
  <2>1. e \in Nat /\ f \in Nat /\ e <= f /\ f <= Len(s) /\ f - e = d - c
    BY <1>1
  <2> HIDE DEF e, f
  <2>2. /\ SubSeq(s, e + 1, f) \in Seq(S) /\ Len(SubSeq(s, e + 1, f)) = f - e
        /\ \A i \in 1..(f - e) : SubSeq(s, e + 1, f)[i] = s[e + i]
    BY <2>1, PartOf
  <2> QED BY <2>1, <2>2 DEF e, f
<1> HIDE DEF u, v
<1>4. \A i \in 1..(d - c) : u[i] = v[i]
  <2> SUFFICES ASSUME NEW i \in 1..(d - c) PROVE u[i] = v[i]
    OBVIOUS
  <2>1. c + i \in 1..(b - a) /\ a + (c + i) = a + c + i
    OBVIOUS
  <2> QED BY <1>1, <1>2, <1>3, <2>1
<1>5. u = v
  BY <1>2, <1>3, <1>4
<1> QED BY <1>5 DEF t, u, v

(* All of a sequence, and nothing of it.                                      *)
LEMMA PartAll ==
  ASSUME NEW S, NEW s \in Seq(S)
  PROVE  SubSeq(s, 1, Len(s)) = s /\ SubSeq(s, Len(s) + 1, Len(s)) = <<>>
<1>1. Len(s) \in Nat
  OBVIOUS
<1> DEFINE u == SubSeq(s, 0 + 1, Len(s))
           v == SubSeq(s, Len(s) + 1, Len(s))
<1>2. u \in Seq(S) /\ Len(u) = Len(s) - 0 /\ \A i \in 1..(Len(s) - 0) : u[i] = s[0 + i]
  BY <1>1, PartOf
<1>3. v \in Seq(S) /\ Len(v) = Len(s) - Len(s)
  BY <1>1, PartOf
<1> HIDE DEF u, v
<1>4. u = s
  BY <1>1, <1>2
<1>5. v = <<>>
  BY <1>1, <1>3
<1>6. 0 + 1 = 1
  OBVIOUS
<1> QED BY <1>4, <1>5, <1>6 DEF u, v

(* Concatenation, element by element.                                         *)
LEMMA Elementwise ==
  ASSUME NEW S, NEW s \in Seq(S), NEW t \in Seq(S)
  PROVE  /\ s \o t \in Seq(S) /\ Len(s \o t) = Len(s) + Len(t)
         /\ \A i \in 1..Len(s) : (s \o t)[i] = s[i]
OBVIOUS

(* A sequence, of its own elements.                                           *)
IsSequence(s) == s \in Seq(Range(s)) /\ Len(s) \in Nat /\ DOMAIN s = 1..Len(s)

(* Being a sequence of something is being one of its own elements.            *)
LEMMA SequencesOf ==
  ASSUME NEW s
  PROVE  /\ \A S : s \in Seq(S) => IsSequence(s)
         /\ \A S : IsSequence(s) /\ Range(s) \subseteq S => s \in Seq(S)
<1>1. ASSUME NEW S, s \in Seq(S) PROVE IsSequence(s)
  <2>1. Len(s) \in Nat /\ DOMAIN s = 1..Len(s) /\ s = [i \in 1..Len(s) |-> s[i]]
    BY <1>1
  <2>2. \A i \in 1..Len(s) : s[i] \in Range(s)
    BY <2>1 DEF Range
  <2> DEFINE T == Range(s)
             n == Len(s)
  <2>3. s \in [1..n -> T]
    BY <2>1, <2>2
  <2> HIDE DEF T
  <2>4. s \in Seq(T)
    BY <2>1, <2>3
  <2> QED BY <2>1, <2>4 DEF IsSequence, T
<1>2. ASSUME NEW S, IsSequence(s), Range(s) \subseteq S PROVE s \in Seq(S)
  <2> DEFINE T == Range(s)
  <2>1. s \in Seq(T) /\ T \subseteq S
    BY <1>2 DEF IsSequence
  <2> HIDE DEF T
  <2> QED BY <2>1
<1> QED BY <1>1, <1>2

------------------------------------------------------------------------------
(* Recursive functions of a number.                                           *)

(* A function computed from each number to the next.                          *)
Computes(f, b, base, step) ==
  f[0] = base /\ \A n \in 1..b : f[n] = step[n][f[n - 1]]

(* It exists.                                                                 *)
LEMMA StepByStep ==
  ASSUME NEW R, NEW base \in R, NEW b \in Nat, NEW step \in [1..b -> [R -> R]]
  PROVE  \E f \in [0..b -> R] : Computes(f, b, base, step)
<1> DEFINE S == {m \in Nat : m <= b => \E f \in [0..m -> R] : Computes(f, m, base, step)}
<1>1. 0 \in S
  <2> DEFINE f == [n \in 0..0 |-> base]
  <2>1. f \in [0..0 -> R] /\ f[0] = base
    OBVIOUS
  <2> HIDE DEF f
  <2>2. Computes(f, 0, base, step)
    BY <2>1 DEF Computes
  <2> QED BY <2>1, <2>2
<1>2. ASSUME NEW m \in Nat, m \in S PROVE m + 1 \in S
  <2> SUFFICES ASSUME m + 1 <= b PROVE \E f \in [0..(m + 1) -> R] : Computes(f, m + 1, base, step)
    <3>1. m + 1 \in Nat
      OBVIOUS
    <3> QED BY <3>1
  <2>1. PICK f \in [0..m -> R] : Computes(f, m, base, step)
    <3>1. m <= b
      OBVIOUS
    <3> QED BY <1>2, <3>1
  <2> DEFINE next == step[m + 1][f[m]]
             g == [n \in 0..(m + 1) |-> IF n = m + 1 THEN next ELSE f[n]]
  <2>2. next \in R
    <3>1. m + 1 \in 1..b /\ f[m] \in R
      OBVIOUS
    <3> QED BY <3>1
  <2> HIDE DEF next
  <2>3. g \in [0..(m + 1) -> R] /\ g[m + 1] = next /\ \A n \in 0..m : g[n] = f[n]
    BY <2>2
  <2> HIDE DEF g
  <2>4. ASSUME NEW n \in 1..(m + 1) PROVE g[n] = step[n][g[n - 1]]
    <3>1. CASE n = m + 1
      <4>1. g[n - 1] = f[m] /\ m + 1 - 1 = m
        BY <2>3, <3>1
      <4> QED BY <2>3, <3>1, <4>1 DEF next
    <3>2. CASE n # m + 1
      <4>1. n \in 1..m /\ n \in 0..m /\ n - 1 \in 0..m
        BY <3>2
      <4> QED BY <2>1, <2>3, <4>1 DEF Computes
    <3> QED BY <3>1, <3>2
  <2>5. g[0] = base
    <3>1. 0 \in 0..m
      OBVIOUS
    <3> QED BY <2>1, <2>3, <3>1 DEF Computes
  <2>6. Computes(g, m + 1, base, step)
    BY <2>4, <2>5 DEF Computes
  <2> QED BY <2>3, <2>6
<1>3. b \in S
  <2> HIDE DEF S
  <2>1. Nat \subseteq S
    BY <1>1, <1>2, SetInduction
  <2> QED BY <2>1
<1> QED BY <1>3

(* What Select keeps, step by step.                                           *)
LEMMA SelectSteps ==
  ASSUME NEW S, NEW s \in Seq(S), NEW chosen
  PROVE  \E f : /\ Select(s, chosen) = f[Len(s)] /\ f[0] = <<>>
                /\ \A n \in 1..Len(s) :
                     f[n] = IF n \in chosen THEN Append(f[n - 1], s[n]) ELSE f[n - 1]
<1> DEFINE b == Len(s)
           Step(n, kept) == IF n \in chosen THEN Append(kept, s[n]) ELSE kept
           Computed(f) == f = [n \in 0..b |-> IF n = 0 THEN <<>> ELSE Step(n, f[n - 1])]
           upTo == CHOOSE f : Computed(f)
<1>1. b \in Nat
  OBVIOUS
<1>2. \A n \in 1..b : s[n] \in S
  OBVIOUS
<1>3. Computed(upTo)
  <2> DEFINE step == [n \in 1..b |-> [kept \in Seq(S) |-> Step(n, kept)]]
  <2>1. step \in [1..b -> [Seq(S) -> Seq(S)]]
    BY <1>2
  <2>2. \A n \in 1..b, kept \in Seq(S) : step[n][kept] = Step(n, kept)
    <3> HIDE DEF Step
    <3> QED OBVIOUS
  <2>3. <<>> \in Seq(S)
    OBVIOUS
  <2> HIDE DEF step
  <2> DEFINE R == Seq(S)
             none == <<>>
  <2>4. PICK f \in [0..b -> R] : Computes(f, b, none, step)
    <3>1. step \in [1..b -> [R -> R]] /\ none \in R
      BY <2>1, <2>3
    <3> HIDE DEF R, b, none, Step, Computed, upTo
    <3> QED BY <1>1, <3>1, StepByStep
  <2>5. \A n \in 1..b : f[n] = Step(n, f[n - 1])
    <3> SUFFICES ASSUME NEW n \in 1..b PROVE f[n] = Step(n, f[n - 1])
      OBVIOUS
    <3> HIDE DEF Step
    <3>1. n - 1 \in 0..b
      BY <1>1
    <3>2. f[n - 1] \in Seq(S)
      BY <3>1
    <3> QED BY <2>2, <2>4, <3>2 DEF Computes
  <2>6. Computed(f)
    <3> HIDE DEF Step
    <3>1. f = [n \in 0..b |-> f[n]]
      OBVIOUS
    <3>2. \A n \in 0..b : f[n] = IF n = 0 THEN <<>> ELSE Step(n, f[n - 1])
      <4> SUFFICES ASSUME NEW n \in 0..b, n # 0 PROVE f[n] = Step(n, f[n - 1])
        BY <2>4 DEF Computes
      <4>1. n \in 1..b
        BY <1>1
      <4> QED BY <2>5, <4>1
    <3> QED BY <3>1, <3>2
  <2> HIDE DEF Computed
  <2> QED BY <2>6
<1>4. Select(s, chosen) = upTo[b]
  BY DEF Select
<1>5. upTo[0] = <<>> /\ \A n \in 1..b : upTo[n] = Step(n, upTo[n - 1])
  <2> HIDE DEF upTo, Step
  <2>1. \A n \in 0..b : upTo[n] = IF n = 0 THEN <<>> ELSE Step(n, upTo[n - 1])
    BY <1>3
  <2>2. 0 \in 0..b /\ \A n \in 1..b : n \in 0..b /\ n # 0
    BY <1>1
  <2> QED BY <2>1, <2>2
<1> HIDE DEF upTo, Computed
<1> QED BY <1>4, <1>5

(* What Select keeps of a sequence.                                           *)
LEMMA SelectElements ==
  ASSUME NEW S, NEW s \in Seq(S), NEW chosen \in SUBSET (1..Len(s))
  PROVE  /\ Select(s, chosen) \in Seq(S)
         /\ \A k \in 1..Len(Select(s, chosen)) : \E i \in chosen : Select(s, chosen)[k] = s[i]
         /\ \A i \in chosen : \E k \in 1..Len(Select(s, chosen)) : Select(s, chosen)[k] = s[i]
         /\ (\A i, j \in 1..Len(s) : s[i] = s[j] => i = j) =>
              \A k, l \in 1..Len(Select(s, chosen)) :
                Select(s, chosen)[k] = Select(s, chosen)[l] => k = l
<1> DEFINE b == Len(s)
           Step(n, kept) == IF n \in chosen THEN Append(kept, s[n]) ELSE kept
<1>1. b \in Nat
  OBVIOUS
<1>2. \A n \in 1..b : s[n] \in S
  OBVIOUS
<1>3. PICK upTo : /\ Select(s, chosen) = upTo[b] /\ upTo[0] = <<>>
                  /\ \A n \in 1..b :
                       upTo[n] = IF n \in chosen THEN Append(upTo[n - 1], s[n]) ELSE upTo[n - 1]
  BY SelectSteps
<1>4. Select(s, chosen) = upTo[b]
  BY <1>3
<1>5. upTo[0] = <<>> /\ \A n \in 1..b : upTo[n] = Step(n, upTo[n - 1])
  BY <1>3
<1> DEFINE Kept(n) ==
             /\ upTo[n] \in Seq(S)
             /\ \A k \in 1..Len(upTo[n]) : \E i \in chosen : i <= n /\ upTo[n][k] = s[i]
             /\ \A i \in chosen : i <= n => \E k \in 1..Len(upTo[n]) : upTo[n][k] = s[i]
             /\ (\A i, j \in 1..b : s[i] = s[j] => i = j) =>
                  \A k, l \in 1..Len(upTo[n]) : upTo[n][k] = upTo[n][l] => k = l
           N == {n \in Nat : n <= b => Kept(n)}
<1>6. Kept(0)
  BY <1>5
<1>7. ASSUME NEW n \in Nat, n + 1 <= b, Kept(n) PROVE Kept(n + 1)
  <2> DEFINE u == upTo[n]
             v == upTo[n + 1]
  <2>1. n + 1 \in 1..b /\ n + 1 - 1 = n
    BY <1>1, <1>7
  <2>2. v = Step(n + 1, u)
    <3> HIDE DEF Step
    <3> QED BY <1>5, <2>1
  <2>3. s[n + 1] \in S /\ u \in Seq(S)
    BY <1>2, <1>7, <2>1
  <2>4. \A k \in 1..Len(u) : \E i \in chosen : i <= n /\ u[k] = s[i]
    BY <1>7
  <2>5. \A i \in chosen : i <= n => \E k \in 1..Len(u) : u[k] = s[i]
    BY <1>7
  <2>6. (\A i, j \in 1..b : s[i] = s[j] => i = j) =>
            \A k, l \in 1..Len(u) : u[k] = u[l] => k = l
    BY <1>7
  <2>7. \A i \in chosen : i \in 1..b
    OBVIOUS
  <2> HIDE DEF u, v
  <2>8. CASE n + 1 \in chosen
    <3>1. v = Append(u, s[n + 1])
      BY <2>2, <2>8
    <3>2. v \in Seq(S) /\ Len(v) = Len(u) + 1 /\ Len(u) \in Nat
      BY <2>3, <3>1
    <3>3. v[Len(u) + 1] = s[n + 1] /\ \A k \in 1..Len(u) : v[k] = u[k]
      BY <2>3, <3>1
    <3>4. ASSUME NEW k \in 1..Len(v) PROVE \E i \in chosen : i <= n + 1 /\ v[k] = s[i]
      <4>1. CASE k = Len(u) + 1
        BY <2>8, <3>3, <4>1
      <4>2. CASE k # Len(u) + 1
        <5>1. k \in 1..Len(u)
          BY <3>2, <4>2
        <5>2. PICK i \in chosen : i <= n /\ u[k] = s[i]
          BY <2>4, <5>1
        <5>3. i <= n + 1
          BY <2>7, <5>2
        <5> QED BY <3>3, <5>1, <5>2, <5>3
      <4> QED BY <4>1, <4>2
    <3>5. ASSUME NEW i \in chosen, i <= n + 1 PROVE \E k \in 1..Len(v) : v[k] = s[i]
      <4>1. CASE i = n + 1
        <5>1. Len(u) + 1 \in 1..Len(v)
          BY <3>2
        <5> QED BY <3>3, <4>1, <5>1
      <4>2. CASE i # n + 1
        <5>1. i <= n
          BY <2>7, <3>5, <4>2
        <5>2. PICK k \in 1..Len(u) : u[k] = s[i]
          BY <2>5, <5>1
        <5>3. k \in 1..Len(v)
          BY <3>2
        <5> QED BY <3>3, <5>2, <5>3
      <4> QED BY <4>1, <4>2
    <3>6. ASSUME \A i, j \in 1..b : s[i] = s[j] => i = j,
                 NEW k \in 1..Len(v), NEW l \in 1..Len(v), v[k] = v[l]
          PROVE  k = l
      <4>1. \A m \in 1..Len(u) : u[m] # s[n + 1]
        <5> SUFFICES ASSUME NEW m \in 1..Len(u), u[m] = s[n + 1] PROVE FALSE
          OBVIOUS
        <5>1. PICK i \in chosen : i <= n /\ u[m] = s[i]
          BY <2>4
        <5>2. i = n + 1
          BY <2>1, <2>7, <3>6, <5>1
        <5> QED BY <5>1, <5>2
      <4>2. k \in 1..Len(u) \/ k = Len(u) + 1
        BY <3>2
      <4>3. l \in 1..Len(u) \/ l = Len(u) + 1
        BY <3>2
      <4> QED BY <2>6, <3>3, <3>6, <4>1, <4>2, <4>3
    <3> QED BY <3>2, <3>4, <3>5, <3>6 DEF v
  <2>9. CASE n + 1 \notin chosen
    <3>1. v = u
      BY <2>2, <2>9
    <3>2. \A i \in chosen : i <= n + 1 <=> i <= n
      <4> SUFFICES ASSUME NEW i \in chosen PROVE i <= n + 1 <=> i <= n
        OBVIOUS
      <4>1. i \in 1..b /\ i # n + 1
        BY <2>7, <2>9
      <4> QED BY <4>1
    <3> QED BY <2>3, <2>4, <2>5, <2>6, <3>1, <3>2 DEF v
  <2> QED BY <2>8, <2>9
<1>8. Kept(b)
  <2> HIDE DEF Kept
  <2>1. 0 \in N
    BY <1>6
  <2>2. \A n \in Nat : n \in N => n + 1 \in N
    <3> SUFFICES ASSUME NEW n \in Nat, n \in N PROVE n + 1 \in N
      OBVIOUS
    <3>1. n + 1 \in Nat /\ (n + 1 <= b => n <= b)
      BY <1>1
    <3> QED BY <1>7, <3>1
  <2> HIDE DEF N
  <2>3. b \in N
    BY <1>1, <2>1, <2>2, SetInduction
  <2> QED BY <1>1, <2>3 DEF N
<1>9. \A i \in chosen : i <= b
  BY <1>1
<1> DEFINE r == Select(s, chosen)
<1>10. r = upTo[b]
  BY <1>4
<1> HIDE DEF r
<1>11. /\ r \in Seq(S)
       /\ \A k \in 1..Len(r) : \E i \in chosen : r[k] = s[i]
       /\ \A i \in chosen : \E k \in 1..Len(r) : r[k] = s[i]
       /\ (\A i, j \in 1..b : s[i] = s[j] => i = j) =>
            \A k, l \in 1..Len(r) : r[k] = r[l] => k = l
  BY <1>8, <1>9, <1>10
<1> QED BY <1>11 DEF r

(* Pieces of one length end to end.                                           *)
LEMMA FlattenEven ==
  ASSUME NEW S, NEW s \in Seq(Seq(S)), NEW w \in Nat, \A i \in 1..Len(s) : Len(s[i]) = w
  PROVE  FlattenSeq(s) \in Seq(S) /\ Len(FlattenSeq(s)) = Len(s) * w
<1> DEFINE b == Len(s)
           Computed(f) == f = [i \in 1..b |-> IF i = 1 THEN s[i] ELSE f[i - 1] \o s[i]]
           flatten == CHOOSE f : Computed(f)
<1>1. b \in Nat /\ \A n \in 1..b : s[n] \in Seq(S)
  OBVIOUS
<1>2. CASE b = 0
  <2>1. s = <<>> /\ FlattenSeq(s) = s
    BY <1>2 DEF FlattenSeq
  <2>2. <<>> \in Seq(S) /\ Len(<<>>) = 0 /\ 0 * w = 0
    OBVIOUS
  <2>3. FlattenSeq(s) = <<>> /\ Len(s) = 0
    BY <1>2, <2>1
  <2> QED BY <2>2, <2>3
<1>3. CASE b # 0
  <2>1. Computed(flatten)
    <3> DEFINE R == Seq(S)
               none == <<>>
               step == [n \in 1..b |-> [t \in R |-> t \o s[n]]]
    <3>1. step \in [1..b -> [R -> R]] /\ none \in R
      BY <1>1
    <3>2. \A n \in 1..b, t \in R : step[n][t] = t \o s[n]
      OBVIOUS
    <3> HIDE DEF step
    <3>3. PICK f \in [0..b -> R] : Computes(f, b, none, step)
      <4> HIDE DEF R, b, none, Computed, flatten
      <4> QED BY <1>1, <3>1, StepByStep
    <3> DEFINE g == [i \in 1..b |-> f[i]]
    <3>4. \A i \in 1..b : g[i] = f[i] /\ i - 1 \in 0..b /\ (i # 1 => i - 1 \in 1..b)
      BY <1>1
    <3>5. \A i \in 1..b : f[i] = f[i - 1] \o s[i]
      <4> HIDE DEF b
      <4>1. \A i \in 1..b : f[i - 1] \in R
        BY <3>4
      <4> QED BY <3>2, <3>3, <4>1 DEF Computes
    <3>6. ASSUME NEW i \in 1..b PROVE g[i] = IF i = 1 THEN s[i] ELSE g[i - 1] \o s[i]
      <4>1. CASE i = 1
        <5>1. f[0] = <<>>
          BY <3>3 DEF Computes
        <5>2. s[i] \in Seq(S) /\ f[i] = f[i - 1] \o s[i]
          BY <1>1, <3>5
        <5>3. i - 1 = 0
          BY <4>1
        <5>4. <<>> \o s[i] = s[i]
          BY <5>2
        <5> HIDE DEF g
        <5> QED BY <3>4, <4>1, <5>1, <5>2, <5>3, <5>4
      <4>2. CASE i # 1
        <5>1. g[i] = f[i] /\ g[i - 1] = f[i - 1]
          BY <3>4, <4>2
        <5> HIDE DEF g
        <5> QED BY <3>5, <4>2, <5>1
      <4> QED BY <4>1, <4>2
    <3>7. g = [i \in 1..b |-> g[i]]
      OBVIOUS
    <3>8. Computed(g)
      <4> HIDE DEF g
      <4> QED BY <3>6, <3>7
    <3> HIDE DEF g, Computed
    <3> QED BY <3>8
  <2>2. FlattenSeq(s) = flatten[b]
    BY <1>3 DEF FlattenSeq
  <2> HIDE DEF flatten
  <2>3. \A i \in 1..b : flatten[i] = IF i = 1 THEN s[i] ELSE flatten[i - 1] \o s[i]
    BY <2>1
  <2> HIDE DEF Computed
  <2> DEFINE Even(n) == flatten[n] \in Seq(S) /\ Len(flatten[n]) = n * w
             N == {n \in Nat : n + 1 <= b => Even(n + 1)}
  <2>4. 0 \in N
    <3>1. 1 \in 1..b /\ 0 + 1 = 1 /\ 1 * w = w
      BY <1>1, <1>3
    <3>2. flatten[1] = s[1] /\ s[1] \in Seq(S) /\ Len(s[1]) = w
      BY <1>1, <2>3, <3>1
    <3> QED BY <3>1, <3>2
  <2>5. ASSUME NEW n \in Nat, n \in N PROVE n + 1 \in N
    <3>1. n + 1 \in Nat /\ n + 1 + 1 \in Nat /\ n + 1 + 1 - 1 = n + 1 /\ n + 1 + 1 # 1
      OBVIOUS
    <3> SUFFICES ASSUME n + 1 + 1 <= b PROVE Even(n + 1 + 1)
      <4> HIDE DEF Even
      <4> QED BY <3>1
    <3>2. n + 1 <= b /\ n + 1 + 1 \in 1..b
      BY <1>1, <3>1
    <3> DEFINE m == n + 1
               before == flatten[m]
               last == s[m + 1]
    <3>3. Even(m)
      <4> HIDE DEF Even
      <4> QED BY <2>5, <3>2
    <3>4. m + 1 \in 1..b /\ m + 1 # 1 /\ m + 1 - 1 = m /\ m \in Nat
      BY <3>1, <3>2
    <3> HIDE DEF m
    <3>5. flatten[m + 1] = before \o last
      <4> DEFINE k == m + 1
      <4>1. k \in 1..b /\ k # 1 /\ k - 1 = m
        BY <3>4
      <4> HIDE DEF k, b
      <4>2. flatten[k] = flatten[k - 1] \o s[k]
        BY <2>3, <4>1
      <4> QED BY <4>1, <4>2 DEF k
    <3>6. last \in Seq(S) /\ Len(last) = w
      BY <1>1, <3>4
    <3>7. before \in Seq(S) /\ Len(before) = m * w
      BY <3>3
    <3> HIDE DEF before, last, b
    <3>8. before \o last \in Seq(S) /\ Len(before \o last) = Len(before) + Len(last)
      BY <3>6, <3>7
    <3>9. m * w + w = (m + 1) * w
      BY <3>4
    <3> QED BY <3>5, <3>6, <3>7, <3>8, <3>9 DEF m
  <2>6. Even(b)
    <3> HIDE DEF Even
    <3>1. \A n \in Nat : n \in N => n + 1 \in N
      BY <2>5
    <3> HIDE DEF N
    <3>2. b - 1 \in Nat /\ b - 1 + 1 = b
      BY <1>1, <1>3
    <3>3. b - 1 \in N
      BY <2>4, <3>1, <3>2, SetInduction
    <3> QED BY <1>1, <3>2, <3>3 DEF N
  <2> QED BY <2>2, <2>6
<1> QED BY <1>2, <1>3
==============================================================================
