---------------------------- MODULE CatalogProofs -----------------------------
(* What holds of the catalog, and of a crate compiled against it, for every   *)
(* set of releases, commands, values, annotations and programs.  It is proved *)
(* in four steps.  An invariant of the merge: after `index` releases each     *)
(* history is faithful to what those releases state.  An invariant of the     *)
(* file: it answers for each release what its sources state.  Of any file     *)
(* with that invariant, the segments of a name are faithful in the same sense *)
(* to the entries active in each release.  What the macros require and        *)
(* generate is then about the commands of the target's own sources.           *)
EXTENDS Completeness, SequenceLemmas, SequenceTheorems

(* `runs` are the history of the first n elements of `stated`, each the set   *)
(* with the value a release states, or empty.                                 *)
InRange(runs, n) ==
  \A j \in DOMAIN runs : /\ runs[j].first \in 1..n
                         /\ runs[j].last \in runs[j].first..n

Stated(runs, stated) ==
  \A j \in DOMAIN runs : \A i \in runs[j].first..runs[j].last :
    stated[i] = {runs[j].value}

RunsInOrder(runs) ==
  \A j, l \in DOMAIN runs : j < l => runs[j].last < runs[l].first

Complete(runs, stated, n) ==
  \A i \in 1..n : stated[i] # {} =>
    \E j \in DOMAIN runs : i \in runs[j].first..runs[j].last

Maximal(runs) ==
  \A j \in 1..(Len(runs) - 1) :
    runs[j].value = runs[j + 1].value => runs[j].last + 1 < runs[j + 1].first

Faithful(runs, stated, n) ==
  /\ InRange(runs, n)
  /\ Stated(runs, stated)
  /\ RunsInOrder(runs)
  /\ Complete(runs, stated, n)
  /\ Maximal(runs)

-------------------------------------------------------------------------------
(* Coalesced returns a sequence of runs.  The segments of a name are coalesced *)
(* like a history, so the values may be any.                                  *)
RunsOf(V) == [first : Indexes, last : Indexes, value : V]

LEMMA CoalescedType ==
  ASSUME NEW V, NEW runs \in Seq(RunsOf(V)), NEW i \in Indexes, NEW value \in V
  PROVE  Coalesced(runs, i, value) \in Seq(RunsOf(V))
<1>. DEFINE new == [first |-> i, last |-> i, value |-> value]
<1>1. new \in RunsOf(V)
  BY DEF RunsOf, Indexes
<1>2. Append(runs, new) \in Seq(RunsOf(V))
  BY <1>1
<1>3. ASSUME runs # <<>>
      PROVE  [runs EXCEPT ![Len(runs)].last = i] \in Seq(RunsOf(V))
  <2>1. Len(runs) \in DOMAIN runs
    BY <1>3
  <2>2. runs[Len(runs)] \in RunsOf(V)
    BY <2>1
  <2>3. [runs[Len(runs)] EXCEPT !.last = i] \in RunsOf(V)
    BY <2>2 DEF RunsOf, Indexes
  <2>. QED
    BY <2>1, <2>3
<1>. QED
  BY <1>2, <1>3 DEF Coalesced

(* An entry extends a faithful history.                                       *)
LEMMA CoalescedFaithful ==
  ASSUME NEW n \in Nat, NEW stated, NEW V, NEW runs \in Seq(RunsOf(V)),
         Faithful(runs, stated, n),
         NEW value, stated[n + 1] = {value}
  PROVE  Faithful(Coalesced(runs, n + 1, value), stated, n + 1)
<1>. DEFINE last == Len(runs)
            new == [first |-> n + 1, last |-> n + 1, value |-> value]
<1>t. \A j \in DOMAIN runs : /\ runs[j].first \in Nat
                             /\ runs[j].last \in Nat
                             /\ DOMAIN runs[j] = {"first", "last", "value"}
  <2>1. \A j \in DOMAIN runs : runs[j] \in RunsOf(V)
    OBVIOUS
  <2>. QED
    BY <2>1 DEF RunsOf, Indexes
<1>1. CASE /\ runs # <<>>
           /\ runs[last].last + 1 = n + 1
           /\ runs[last].value = value
  <2>. DEFINE r == [runs EXCEPT ![last].last = n + 1]
  <2>1. Coalesced(runs, n + 1, value) = r
    BY <1>1 DEF Coalesced
  <2>2. /\ last \in Nat \ {0}
        /\ DOMAIN runs = 1..last
        /\ DOMAIN r = 1..last
        /\ Len(r) = last
    BY <1>1
  <2>3. \A j \in 1..last : /\ r[j].first = runs[j].first
                           /\ r[j].value = runs[j].value
                           /\ r[j].last = IF j = last THEN n + 1 ELSE runs[j].last
    BY <2>2, <1>t
  <2>4. InRange(r, n + 1)
    BY <2>2, <2>3, <1>t DEF Faithful, InRange
  <2>5. Stated(r, stated)
    <3>. SUFFICES ASSUME NEW j \in 1..last, NEW i \in r[j].first..r[j].last
                  PROVE  stated[i] = {r[j].value}
      BY <2>2 DEF Stated
    <3>1. CASE i = n + 1
      <4>1. j = last
        BY <3>1, <2>2, <2>3, <1>t DEF Faithful, InRange
      <4>. QED
        BY <4>1, <3>1, <2>3, <1>1
    <3>2. CASE i # n + 1
      <4>1. i \in runs[j].first..runs[j].last
        BY <3>2, <2>2, <2>3, <1>t, <1>1
      <4>. QED
        BY <4>1, <2>2, <2>3 DEF Faithful, Stated
    <3>. QED
      BY <3>1, <3>2
  <2>6. RunsInOrder(r)
    BY <2>2, <2>3, <1>t DEF Faithful, RunsInOrder
  <2>7. Complete(r, stated, n + 1)
    <3>. SUFFICES ASSUME NEW i \in 1..(n + 1), stated[i] # {}
                  PROVE  \E j \in 1..last : i \in r[j].first..r[j].last
      BY <2>2 DEF Complete
    <3>1. CASE i = n + 1
      BY <3>1, <2>2, <2>3, <1>t DEF Faithful, InRange
    <3>2. CASE i # n + 1
      <4>1. PICK j \in 1..last : i \in runs[j].first..runs[j].last
        BY <3>2, <2>2 DEF Faithful, Complete
      <4>. QED
        BY <4>1, <2>2, <2>3, <1>t, <1>1
    <3>. QED
      BY <3>1, <3>2
  <2>8. Maximal(r)
    <3>. SUFFICES ASSUME NEW j \in 1..(last - 1), r[j].value = r[j + 1].value
                  PROVE  r[j].last + 1 < r[j + 1].first
      BY <2>2 DEF Maximal
    <3>1. j \in 1..last /\ j + 1 \in 1..last /\ j # last
      BY <2>2
    <3>. QED
      BY <3>1, <2>2, <2>3 DEF Faithful, Maximal
  <2>. QED
    BY <2>1, <2>4, <2>5, <2>6, <2>7, <2>8 DEF Faithful
<1>2. CASE ~ (/\ runs # <<>>
              /\ runs[last].last + 1 = n + 1
              /\ runs[last].value = value)
  <2>. DEFINE r == Append(runs, new)
  <2>1. Coalesced(runs, n + 1, value) = r
    BY <1>2 DEF Coalesced
  <2>2. /\ last \in Nat
        /\ DOMAIN runs = 1..last
        /\ DOMAIN r = 1..(last + 1)
        /\ Len(r) = last + 1
    OBVIOUS
  <2>3. /\ \A j \in 1..last : r[j] = runs[j]
        /\ r[last + 1] = new
    BY <2>2
  <2>4. InRange(r, n + 1)
    BY <2>2, <2>3, <1>t DEF Faithful, InRange
  <2>5. Stated(r, stated)
    <3>. SUFFICES ASSUME NEW j \in 1..(last + 1), NEW i \in r[j].first..r[j].last
                  PROVE  stated[i] = {r[j].value}
      BY <2>2 DEF Stated
    <3>1. CASE j = last + 1
      <4>1. i = n + 1
        BY <3>1, <2>3
      <4>. QED
        BY <4>1, <3>1, <2>3
    <3>2. CASE j # last + 1
      <4>1. j \in 1..last
        BY <3>2, <2>2
      <4>. QED
        BY <4>1, <2>2, <2>3 DEF Faithful, Stated
    <3>. QED
      BY <3>1, <3>2
  <2>6. RunsInOrder(r)
    <3>. SUFFICES ASSUME NEW j \in 1..(last + 1), NEW l \in 1..(last + 1), j < l
                  PROVE  r[j].last < r[l].first
      BY <2>2 DEF RunsInOrder
    <3>1. j \in 1..last
      BY <2>2
    <3>2. CASE l = last + 1
      BY <3>1, <3>2, <2>2, <2>3, <1>t DEF Faithful, InRange
    <3>3. CASE l # last + 1
      <4>1. l \in 1..last
        BY <3>3, <2>2
      <4>. QED
        BY <3>1, <4>1, <2>2, <2>3 DEF Faithful, RunsInOrder
    <3>. QED
      BY <3>2, <3>3
  <2>7. Complete(r, stated, n + 1)
    <3>. SUFFICES ASSUME NEW i \in 1..(n + 1), stated[i] # {}
                  PROVE  \E j \in 1..(last + 1) : i \in r[j].first..r[j].last
      BY <2>2 DEF Complete
    <3>1. CASE i = n + 1
      BY <3>1, <2>2, <2>3
    <3>2. CASE i # n + 1
      <4>1. PICK j \in 1..last : i \in runs[j].first..runs[j].last
        BY <3>2, <2>2 DEF Faithful, Complete
      <4>. QED
        BY <4>1, <2>2, <2>3
    <3>. QED
      BY <3>1, <3>2
  <2>8. Maximal(r)
    <3>. SUFFICES ASSUME NEW j \in 1..last, r[j].value = r[j + 1].value
                  PROVE  r[j].last + 1 < r[j + 1].first
      BY <2>2 DEF Maximal
    <3>1. CASE j = last
      BY <3>1, <1>2, <2>2, <2>3, <1>t DEF Faithful, InRange
    <3>2. CASE j # last
      <4>1. j \in 1..(last - 1) /\ j + 1 \in 1..last
        BY <3>2, <2>2
      <4>. QED
        BY <4>1, <2>2, <2>3 DEF Faithful, Maximal
    <3>. QED
      BY <3>1, <3>2
  <2>. QED
    BY <2>1, <2>4, <2>5, <2>6, <2>7, <2>8 DEF Faithful
<1>. QED
  BY <1>1, <1>2

(* A release without the item leaves a faithful history faithful.             *)
LEMMA SkippedFaithful ==
  ASSUME NEW n \in Nat, NEW stated, NEW V, NEW runs \in Seq(RunsOf(V)),
         Faithful(runs, stated, n), stated[n + 1] = {}
  PROVE  Faithful(runs, stated, n + 1)
<1>1. InRange(runs, n + 1)
  BY DEF Faithful, InRange, RunsOf, Indexes
<1>2. Complete(runs, stated, n + 1)
  <2>. SUFFICES ASSUME NEW i \in 1..(n + 1), stated[i] # {}
                PROVE  \E j \in DOMAIN runs : i \in runs[j].first..runs[j].last
    BY DEF Complete
  <2>1. i \in 1..n
    OBVIOUS
  <2>. QED
    BY <2>1 DEF Faithful, Complete
<1>. QED
  BY <1>1, <1>2 DEF Faithful

-------------------------------------------------------------------------------
(* What the releases of this extract state of a fact of a command.            *)
StatedBy(op, k) ==
  [i \in DOMAIN releases |-> {c[k] : c \in CommandsOf(i, op)}]

(* The invariant of the merge.  A release in the file or in this extract has  *)
(* its snapshot, which nothing changes any more.                              *)
MergeInv ==
  /\ Ascending(releases)
  /\ ToSet(releases) \subseteq DOMAIN cube
  /\ Described \subseteq DOMAIN cube
  /\ pc = "idle" => index = 0 /\ merged = NoHistories
  /\ pc = "merging" => releases # <<>>
  /\ \A op \in Opcodes, k \in Facts :
       Faithful(merged[op][k], StatedBy(op, k), index)

(* A fact of a command is a value.                                            *)
LEMMA FactType ==
  ASSUME NEW c \in Commands, NEW k \in Facts
  PROVE  c[k] \in Values
<1>1. CASE k = "name"
  BY <1>1 DEF Commands, Values
<1>2. CASE k = "profiles"
  BY <1>2 DEF Commands, Values
<1>3. CASE k = "definition"
  BY <1>3 DEF Commands, Values
<1>. QED
  BY <1>1, <1>2, <1>3 DEF Facts

(* No history at all is faithful to no release.                               *)
LEMMA EmptyFaithful ==
  ASSUME NEW stated
  PROVE  Faithful(<<>>, stated, 0)
BY DEF Faithful, InRange, Stated, RunsInOrder, Complete, Maximal

LEMMA NoHistoriesType == NoHistories \in Histories(Indexes)
BY DEF NoHistories, Histories

(* The merged histories in versions are a catalog.                            *)
LEMMA MergedCatalogType ==
  ASSUME TypeOK, MergeInv
  PROVE  MergedCatalog \in Catalogs
<1>1. ASSUME NEW op \in Opcodes, NEW k \in Facts
      PROVE  MergedCatalog.commands[op][k] \in Seq(Runs(Versions))
  <2>. DEFINE runs == merged[op][k]
  <2>1. runs \in Seq(Runs(Indexes)) /\ Faithful(runs, StatedBy(op, k), index)
    BY DEF TypeOK, Histories, MergeInv
  <2>2. ASSUME NEW j \in DOMAIN runs
        PROVE  [first |-> releases[runs[j].first], last |-> releases[runs[j].last],
                value |-> runs[j].value] \in Runs(Versions)
    <3>1. runs[j] \in Runs(Indexes)
      BY <2>1
    <3>2. runs[j].first \in 1..index /\ runs[j].last \in runs[j].first..index
      BY <2>1 DEF Faithful, InRange
    <3>3. runs[j].first \in DOMAIN releases /\ runs[j].last \in DOMAIN releases
      BY <3>1, <3>2 DEF TypeOK, Runs, Indexes
    <3>4. releases[runs[j].first] \in Versions /\ releases[runs[j].last] \in Versions
      BY <3>3 DEF TypeOK
    <3>. QED
      BY <3>1, <3>4 DEF Runs, Indexes
  <2>3. DOMAIN runs = 1..Len(runs) /\ Len(runs) \in Nat
    BY <2>1
  <2>4. MergedCatalog.commands[op][k] =
          [j \in 1..Len(runs) |->
             [first |-> releases[runs[j].first], last |-> releases[runs[j].last],
              value |-> runs[j].value]]
    BY <2>3 DEF MergedCatalog
  <2>. HIDE DEF runs
  <2>. QED
    BY <2>2, <2>3, <2>4
<1>2. MergedCatalog.commands =
        [op \in Opcodes |-> [k \in Facts |-> MergedCatalog.commands[op][k]]]
  BY DEF MergedCatalog
<1>3. MergedCatalog.commands \in Histories(Versions)
  BY <1>1, <1>2 DEF Histories
<1>4. /\ MergedCatalog.releases = releases
      /\ MergedCatalog = [releases |-> MergedCatalog.releases,
                          commands |-> MergedCatalog.commands]
  BY DEF MergedCatalog
<1>. QED
  BY <1>3, <1>4 DEF Catalogs, TypeOK

-------------------------------------------------------------------------------
LEMMA InitMerge == Init => TypeOK /\ MergeInv
<1>. SUFFICES ASSUME Init
              PROVE  TypeOK /\ MergeInv
  OBVIOUS
<1>1. TypeOK
  BY NoHistoriesType DEF Init, TypeOK
<1>2. \A op \in Opcodes, k \in Facts : merged[op][k] = <<>>
  BY DEF Init, NoHistories
<1>3. Ascending(releases) /\ ToSet(releases) \subseteq DOMAIN cube
  BY DEF Init, Ascending, ToSet
<1>. QED
  BY <1>1, <1>2, <1>3, EmptyFaithful DEF Init, MergeInv, Described

(* The file's releases are a finite set of versions.                          *)
LEMMA DescribedType ==
  ASSUME TypeOK
  PROVE  Described \subseteq Versions /\ IsFiniteSet(Described)
<1>1. CASE file = None
  BY <1>1, FS_EmptySet DEF Described
<1>2. CASE file # None
  <2>1. file.releases \in Seq(Versions)
    BY <1>2 DEF TypeOK, Catalogs
  <2>. DEFINE s == file.releases
  <2>2. ToSet(s) = {s[i] : i \in 1..Len(s)} /\ Len(s) \in Nat
    BY <2>1 DEF ToSet
  <2>3. IsFiniteSet(1..Len(s))
    BY <2>2, FS_Interval
  <2>4. IsFiniteSet(ToSet(s))
    <3>1. s \in Surjection(1..Len(s), ToSet(s))
      BY <2>1, <2>2 DEF Surjection
    <3>. QED
      BY <3>1, <2>3, FS_Surjection
  <2>5. {s[i] : i \in 1..Len(s)} \subseteq Versions
    BY <2>1
  <2>. QED
    BY <1>2, <2>2, <2>4, <2>5 DEF Described
<1>. QED
  BY <1>1, <1>2

LEMMA ExtractMerge ==
  ASSUME TypeOK, MergeInv,
         NEW wanted \in SUBSET Versions, IsFiniteSet(wanted), Extract(wanted)
  PROVE  TypeOK' /\ MergeInv'
<1>1. PICK source \in [wanted \ DOMAIN cube -> Snapshots] :
        cube' = [v \in DOMAIN cube \cup wanted |->
                   IF v \in DOMAIN cube THEN cube[v] ELSE source[v]]
  BY DEF Extract
<1>2. /\ releases' \in [1..Cardinality(wanted) -> wanted]
      /\ ToSet(releases') = wanted
      /\ Ascending(releases')
  BY DEF Extract
<1>3. Cardinality(wanted) \in Nat
  BY FS_CardinalityType
<1>4. releases' \in Seq(wanted) /\ releases' \in Seq(Versions)
  BY <1>2, <1>3
<1>5. /\ wanted # {}
      /\ pc = "idle" /\ pc' = "merging"
      /\ file' = file /\ index' = index /\ merged' = merged
      /\ index = 0 /\ merged = NoHistories
  BY DEF Extract, MergeInv
<1>6. /\ DOMAIN cube' = DOMAIN cube \cup wanted
      /\ cube' \in [DOMAIN cube' -> Snapshots]
  BY <1>1 DEF TypeOK
<1>7. Described' = Described
  BY <1>5 DEF Described
<1>8. TypeOK'
  BY <1>4, <1>5, <1>6 DEF TypeOK
<1>9. releases' # <<>>
  <2>1. PICK i \in DOMAIN releases' : releases'[i] \in wanted
    BY <1>2, <1>5 DEF ToSet
  <2>2. DOMAIN <<>> = {}
    OBVIOUS
  <2>. QED
    BY <2>1, <2>2
<1>10. \A op \in Opcodes, k \in Facts : merged'[op][k] = <<>>
  BY <1>5 DEF NoHistories
<1>11. \A op \in Opcodes, k \in Facts :
         Faithful(merged'[op][k], StatedBy(op, k)', index')
  BY <1>5, <1>10, EmptyFaithful
<1>. QED
  BY <1>2, <1>5, <1>6, <1>7, <1>8, <1>9, <1>11 DEF MergeInv

(* A process that ends leaves nothing to prove of its data.                   *)
LEMMA ExitMerge ==
  ASSUME TypeOK, Exit, cube' = cube, Described' \subseteq DOMAIN cube,
         file' = None \/ file' \in Catalogs
  PROVE  TypeOK' /\ MergeInv'
<1>1. /\ pc' = "idle" /\ releases' = <<>> /\ index' = 0
      /\ merged' = NoHistories
  BY DEF Exit
<1>2. TypeOK'
  BY <1>1, NoHistoriesType DEF TypeOK
<1>3. \A op \in Opcodes, k \in Facts : merged'[op][k] = <<>>
  BY <1>1 DEF NoHistories
<1>4. \A op \in Opcodes, k \in Facts :
        Faithful(merged'[op][k], StatedBy(op, k)', index')
  BY <1>1, <1>3, EmptyFaithful
<1>5. Ascending(releases') /\ ToSet(releases') \subseteq DOMAIN cube'
  BY <1>1 DEF Ascending, ToSet
<1>. QED
  BY <1>1, <1>2, <1>4, <1>5 DEF MergeInv

LEMMA SnapshotMerge ==
  ASSUME TypeOK, MergeInv, MergeSnapshot
  PROVE  TypeOK' /\ MergeInv'
<1>1. cube' = cube /\ file' = file /\ Described' = Described
  BY DEF MergeSnapshot, Described
<1>2. CASE HasDuplicate(index + 1) /\ Exit
  BY <1>1, <1>2, ExitMerge DEF TypeOK, MergeInv
<1>3. CASE /\ ~HasDuplicate(index + 1)
           /\ index' = index + 1
           /\ merged' = [op \in Opcodes |-> [k \in Facts |->
                Entered(merged[op][k], index + 1, op, k)]]
           /\ UNCHANGED <<pc, releases>>
  <2>1. /\ index \in Nat /\ index + 1 \in DOMAIN releases
        /\ index' \in 0..Len(releases)
    BY <1>3 DEF MergeSnapshot, TypeOK
  <2>2. SnapshotOf(index + 1) \subseteq Commands
    <3>1. releases[index + 1] \in DOMAIN cube
      BY <2>1 DEF MergeInv, ToSet
    <3>. QED
      BY <3>1, SnapshotAssumption DEF SnapshotOf, TypeOK
  <2>r. Seq(Runs(Indexes)) = Seq(RunsOf(Values))
    BY DEF Runs, RunsOf
  <2>3. ASSUME NEW op \in Opcodes, NEW k \in Facts
        PROVE  /\ merged'[op][k] \in Seq(Runs(Indexes))
               /\ Faithful(merged'[op][k], StatedBy(op, k)', index')
    <3>. DEFINE runs == merged[op][k]
                stated == StatedBy(op, k)
    <3>1. runs \in Seq(Runs(Indexes)) /\ Faithful(runs, stated, index)
      BY DEF TypeOK, Histories, MergeInv
    <3>2. stated[index + 1] = {c[k] : c \in CommandsOf(index + 1, op)}
      BY <2>1 DEF StatedBy
    <3>3. StatedBy(op, k)' = stated
      BY <1>1, <1>3 DEF StatedBy, CommandsOf, SnapshotOf
    <3>4. CASE CommandsOf(index + 1, op) = {}
      <4>1. merged'[op][k] = runs
        BY <1>3, <3>4 DEF Entered
      <4>2. stated[index + 1] = {}
        BY <3>2, <3>4
      <4>. HIDE DEF runs, stated
      <4>3. Faithful(runs, stated, index + 1)
        BY <2>r, <2>1, <3>1, <4>2, SkippedFaithful
      <4>. QED
        BY <1>3, <3>1, <3>3, <4>1, <4>3
    <3>5. CASE CommandsOf(index + 1, op) # {}
      <4>. DEFINE c == CHOOSE c \in CommandsOf(index + 1, op) : TRUE
      <4>1. c \in CommandsOf(index + 1, op) /\ c \in Commands
        BY <3>5, <2>2 DEF CommandsOf
      <4>2. \A d \in CommandsOf(index + 1, op) : d = c
        BY <4>1, <1>3 DEF HasDuplicate, CommandsOf
      <4>3. merged'[op][k] = Coalesced(runs, index + 1, c[k])
        BY <1>3, <3>5 DEF Entered
      <4>. HIDE DEF c
      <4>4. stated[index + 1] = {c[k]}
        BY <3>2, <4>1, <4>2
      <4>5. c[k] \in Values
        BY <4>1, FactType
      <4>. HIDE DEF runs, stated
      <4>6. Coalesced(runs, index + 1, c[k]) \in Seq(Runs(Indexes))
        BY <2>r, <2>1, <3>1, <4>5, CoalescedType DEF Indexes
      <4>7. Faithful(Coalesced(runs, index + 1, c[k]), stated, index + 1)
        BY <2>r, <2>1, <3>1, <4>4, CoalescedFaithful
      <4>. QED
        BY <1>3, <3>3, <4>3, <4>6, <4>7
    <3>. QED
      BY <3>4, <3>5
  <2>4. merged' = [op \in Opcodes |-> [k \in Facts |-> merged'[op][k]]]
    BY <1>3
  <2>5. merged' \in Histories(Indexes)
    BY <2>3, <2>4 DEF Histories
  <2>6. TypeOK'
    BY <1>1, <1>3, <2>1, <2>5 DEF TypeOK
  <2>. QED
    BY <1>1, <1>3, <2>3, <2>6 DEF MergeInv, MergeSnapshot
<1>. QED
  BY <1>2, <1>3 DEF MergeSnapshot

LEMMA WriteMerge ==
  ASSUME TypeOK, MergeInv, WriteCatalog
  PROVE  TypeOK' /\ MergeInv'
<1>1. cube' = cube /\ Exit
  BY DEF WriteCatalog
<1>2. CASE file' = file
  <2>1. Described' = Described
    BY <1>2 DEF Described
  <2>. QED
    BY <1>1, <1>2, <2>1, ExitMerge DEF TypeOK, MergeInv
<1>3. CASE file' = MergedCatalog
  <2>1. MergedCatalog \in Catalogs
    BY MergedCatalogType
  <2>2. MergedCatalog.releases = releases
    BY DEF MergedCatalog
  <2>3. Described' \subseteq DOMAIN cube
    BY <1>3, <2>2 DEF Described, MergeInv
  <2>. QED
    BY <1>1, <1>3, <2>1, <2>3, ExitMerge
<1>. QED
  BY <1>2, <1>3 DEF WriteCatalog

LEMMA StepMerge == TypeOK /\ MergeInv /\ [Next]_vars => TypeOK' /\ MergeInv'
<1>. SUFFICES ASSUME TypeOK, MergeInv, [Next]_vars
              PROVE  TypeOK' /\ MergeInv'
  OBVIOUS
<1>1. CASE ExtractRequested
  BY <1>1, ExtractMerge, RequestAssumption DEF ExtractRequested
<1>2. CASE ExtractAdded
  <2>1. PICK added \in SUBSET Versions :
               IsFiniteSet(added) /\ Extract(Described \cup added)
    BY <1>2 DEF ExtractAdded
  <2>2. /\ Described \cup added \subseteq Versions
        /\ IsFiniteSet(Described \cup added)
    BY <2>1, DescribedType, FS_Union
  <2>. QED
    BY <2>1, <2>2, ExtractMerge
<1>3. CASE MergeSnapshot
  BY <1>3, SnapshotMerge
<1>4. CASE WriteCatalog
  BY <1>4, WriteMerge
<1>5. CASE UNCHANGED vars
  <2>1. TypeOK'
    BY <1>5 DEF TypeOK, vars
  <2>2. \A op, k : StatedBy(op, k)' = StatedBy(op, k)
    BY <1>5 DEF StatedBy, CommandsOf, SnapshotOf, vars
  <2>3. Described' = Described
    BY <1>5 DEF Described, vars
  <2>. QED
    BY <1>5, <2>1, <2>2, <2>3 DEF MergeInv, vars
<1>. QED
  BY <1>1, <1>2, <1>3, <1>4, <1>5 DEF Next

(* The merge, and the file it leaves, have the types of TypeOK.               *)
THEOREM CatalogTypeCorrect == Spec => []TypeOK
<1>1. Spec => [](TypeOK /\ MergeInv)
  BY InitMerge, StepMerge, PTL DEF Spec
<1>. QED
  BY <1>1, PTL

-------------------------------------------------------------------------------
(* A run of the merged catalog is one of `merged` in versions, and holds a    *)
(* release exactly if that holds the release's index.                         *)
LEMMA MergedRuns ==
  ASSUME TypeOK, MergeInv, NEW op \in Opcodes, NEW k \in Facts
  PROVE  LET runs == merged[op][k]
             out == MergedCatalog.commands[op][k]
         IN  /\ Len(out) = Len(runs)
             /\ Len(runs) \in Nat
             /\ DOMAIN runs = 1..Len(runs)
             /\ DOMAIN out = 1..Len(runs)
             /\ \A j \in 1..Len(runs) :
                  /\ runs[j].first \in DOMAIN releases
                  /\ runs[j].last \in DOMAIN releases
                  /\ runs[j].first <= runs[j].last
                  /\ out[j] = [first |-> releases[runs[j].first],
                               last |-> releases[runs[j].last],
                               value |-> runs[j].value]
<1>. DEFINE runs == merged[op][k]
            out == MergedCatalog.commands[op][k]
<1>1. runs \in Seq(Runs(Indexes)) /\ InRange(runs, index)
  BY DEF TypeOK, Histories, MergeInv, Faithful
<1>2. Len(runs) \in Nat /\ DOMAIN runs = 1..Len(runs)
  BY <1>1
<1>3. out = [j \in 1..Len(runs) |->
               [first |-> releases[runs[j].first],
                last |-> releases[runs[j].last],
                value |-> runs[j].value]]
  BY <1>2 DEF MergedCatalog
<1>4. Len(out) = Len(runs)
  BY <1>2, <1>3
<1>5. ASSUME NEW j \in 1..Len(runs)
      PROVE  /\ runs[j].first \in DOMAIN releases
             /\ runs[j].last \in DOMAIN releases
             /\ runs[j].first <= runs[j].last
  <2>1. runs[j] \in Runs(Indexes)
    BY <1>1, <1>2
  <2>2. runs[j].first \in 1..index /\ runs[j].last \in runs[j].first..index
    BY <1>1, <1>2 DEF InRange
  <2>. QED
    BY <2>1, <2>2 DEF TypeOK, Runs, Indexes
<1>. QED
  BY <1>2, <1>3, <1>4, <1>5

LEMMA AscendingOrder ==
  ASSUME TypeOK, MergeInv, NEW a \in DOMAIN releases, NEW b \in DOMAIN releases
  PROVE  /\ a \in Nat /\ b \in Nat
         /\ releases[a] \in Nat /\ releases[b] \in Nat
         /\ releases[a] <= releases[b] <=> a <= b
<1>1. a \in Nat /\ b \in Nat
  BY DEF TypeOK
<1>2. releases[a] \in Nat /\ releases[b] \in Nat
  BY VersionAssumption DEF TypeOK
<1>3. /\ a < b => releases[a] < releases[b]
      /\ b < a => releases[b] < releases[a]
  BY DEF MergeInv, Ascending
<1>. QED
  BY <1>1, <1>2, <1>3

LEMMA MergedHolds ==
  ASSUME TypeOK, MergeInv, NEW op \in Opcodes, NEW k \in Facts,
         NEW i \in DOMAIN releases, NEW j \in DOMAIN merged[op][k]
  PROVE  Holds(MergedCatalog.commands[op][k][j], releases[i]) <=>
           i \in merged[op][k][j].first..merged[op][k][j].last
<1>. DEFINE run == merged[op][k][j]
<1>1. /\ run.first \in DOMAIN releases /\ run.last \in DOMAIN releases
      /\ MergedCatalog.commands[op][k][j] =
           [first |-> releases[run.first], last |-> releases[run.last],
            value |-> run.value]
  <2>. DEFINE runs == merged[op][k]
              out == MergedCatalog.commands[op][k]
  <2>1. /\ DOMAIN runs = 1..Len(runs)
        /\ \A l \in 1..Len(runs) :
             /\ runs[l].first \in DOMAIN releases
             /\ runs[l].last \in DOMAIN releases
             /\ out[l] = [first |-> releases[runs[l].first],
                          last |-> releases[runs[l].last],
                          value |-> runs[l].value]
    BY MergedRuns
  <2>2. j \in DOMAIN runs
    OBVIOUS
  <2>3. out[j] = [first |-> releases[runs[j].first],
                  last |-> releases[runs[j].last],
                  value |-> runs[j].value]
        /\ runs[j].first \in DOMAIN releases /\ runs[j].last \in DOMAIN releases
    <3>. HIDE DEF runs, out
    <3>. QED
      BY <2>1, <2>2
  <2>. QED
    BY <2>3
<1>2. /\ releases[run.first] <= releases[i] <=> run.first <= i
      /\ releases[i] <= releases[run.last] <=> i <= run.last
      /\ i \in Nat /\ run.first \in Nat /\ run.last \in Nat
  BY <1>1, AscendingOrder
<1>. QED
  BY <1>1, <1>2 DEF Holds

(* The merged history of a fact covers the releases that state it, at most    *)
(* once each, with what they state.                                           *)
LEMMA MergedCovers ==
  ASSUME TypeOK, MergeInv, index = Len(releases),
         NEW op \in Opcodes, NEW k \in Facts, NEW i \in DOMAIN releases
  PROVE  LET out == MergedCatalog.commands[op][k]
         IN  /\ CommandsOf(i, op) = {} =>
                  \A j \in DOMAIN out : ~Holds(out[j], releases[i])
             /\ CommandsOf(i, op) # {} =>
                  \E j \in DOMAIN out :
                    /\ Holds(out[j], releases[i])
                    /\ {c[k] : c \in CommandsOf(i, op)} = {out[j].value}
                    /\ \A l \in DOMAIN out : Holds(out[l], releases[i]) => l = j
<1>. DEFINE runs == merged[op][k]
            out == MergedCatalog.commands[op][k]
            stated == {c[k] : c \in CommandsOf(i, op)}
<1>1. /\ Len(runs) \in Nat
      /\ DOMAIN runs = 1..Len(runs) /\ DOMAIN out = 1..Len(runs)
      /\ \A j \in DOMAIN out : out[j].value = runs[j].value
  <2>1. /\ Len(runs) \in Nat
        /\ DOMAIN runs = 1..Len(runs) /\ DOMAIN out = 1..Len(runs)
    BY MergedRuns
  <2>2. ASSUME NEW j \in 1..Len(runs)
        PROVE  out[j].value = runs[j].value
    <3>1. out[j] = [first |-> releases[runs[j].first],
                    last |-> releases[runs[j].last],
                    value |-> runs[j].value]
      BY MergedRuns
    <3>. HIDE DEF runs, out
    <3>. QED
      BY <3>1
  <2>. HIDE DEF runs, out
  <2>. QED
    BY <2>1, <2>2
<1>2. \A j \in DOMAIN out :
        Holds(out[j], releases[i]) <=> i \in runs[j].first..runs[j].last
  BY <1>1, MergedHolds
<1>3. Faithful(runs, StatedBy(op, k), index) /\ StatedBy(op, k)[i] = stated
  BY DEF MergeInv, StatedBy
<1>4. \A j \in DOMAIN out :
        i \in runs[j].first..runs[j].last => stated = {out[j].value}
  BY <1>1, <1>3 DEF Faithful, Stated
<1>5. i \in 1..index
  BY DEF TypeOK
<1>6. stated # {} => \E j \in DOMAIN out : i \in runs[j].first..runs[j].last
  BY <1>1, <1>3, <1>5 DEF Faithful, Complete
<1>7. ASSUME NEW j \in DOMAIN out, NEW l \in DOMAIN out,
             i \in runs[j].first..runs[j].last, i \in runs[l].first..runs[l].last
      PROVE  j = l
  <2>1. /\ runs[j].first \in Nat /\ runs[j].last \in Nat
        /\ runs[l].first \in Nat /\ runs[l].last \in Nat
    BY <1>1, MergedRuns, AscendingOrder
  <2>2. /\ j < l => runs[j].last < runs[l].first
        /\ l < j => runs[l].last < runs[j].first
    BY <1>1, <1>3 DEF Faithful, RunsInOrder
  <2>3. j \in Nat /\ l \in Nat /\ i \in Nat
    BY <1>1, <1>5
  <2>4. /\ runs[j].first <= i /\ i <= runs[j].last
        /\ runs[l].first <= i /\ i <= runs[l].last
    BY <1>7, <2>1, <2>3
  <2>. HIDE DEF runs, out
  <2>. QED
    BY <2>1, <2>2, <2>3, <2>4
<1>. HIDE DEF runs, out
<1>8. CASE CommandsOf(i, op) = {}
  <2>1. stated = {}
    BY <1>8
  <2>. QED
    BY <1>2, <1>4, <1>8, <2>1 DEF out
<1>9. CASE CommandsOf(i, op) # {}
  <2>1. stated # {}
    BY <1>9
  <2>2. PICK j \in DOMAIN out : i \in runs[j].first..runs[j].last
    BY <1>6, <2>1
  <2>3. /\ Holds(out[j], releases[i]) /\ stated = {out[j].value}
        /\ \A l \in DOMAIN out : Holds(out[l], releases[i]) => l = j
    BY <1>2, <1>4, <1>7, <2>2
  <2>. QED
    BY <1>9, <2>3 DEF out
<1>. QED
  BY <1>8, <1>9

(* The merged catalog answers for its releases what their sources state.      *)
LEMMA MergedReadsBack ==
  ASSUME TypeOK, MergeInv, index = Len(releases),
         NEW v \in ToSet(releases), NEW op \in Opcodes, NEW k \in Facts
  PROVE  LET out == MergedCatalog.commands[op][k]
         IN  IF \E c \in cube[v] : c.opcode = op
             THEN \E c \in cube[v] : c.opcode = op /\ ValueAt(out, v) = c[k]
             ELSE RunAt(out, v) = 0
<1>. DEFINE out == MergedCatalog.commands[op][k]
<1>1. PICK i \in DOMAIN releases : v = releases[i]
  BY DEF ToSet
<1>2. CommandsOf(i, op) = {c \in cube[v] : c.opcode = op}
  BY <1>1 DEF CommandsOf, SnapshotOf
<1>3. CASE CommandsOf(i, op) = {}
  <2>1. {j \in DOMAIN out : Holds(out[j], v)} = {}
    BY <1>1, <1>3, MergedCovers
  <2>2. RunAt(out, v) = 0
    BY <2>1 DEF RunAt
  <2>. QED
    BY <1>2, <1>3, <2>2
<1>4. CASE CommandsOf(i, op) # {}
  <2>1. PICK j \in DOMAIN out :
               /\ Holds(out[j], v)
               /\ {c[k] : c \in CommandsOf(i, op)} = {out[j].value}
               /\ \A l \in DOMAIN out : Holds(out[l], v) => l = j
    BY <1>1, <1>4, MergedCovers
  <2>2. j \in Nat \ {0}
    BY <2>1, MergedRuns
  <2>. HIDE DEF out
  <2>3. {l \in DOMAIN out : Holds(out[l], v)} = {j}
    BY <2>1
  <2>4. RunAt(out, v) = j
    BY <2>2, <2>3 DEF RunAt, Min
  <2>5. ValueAt(out, v) = out[j].value
    BY <2>2, <2>4 DEF ValueAt
  <2>6. PICK c \in CommandsOf(i, op) : c[k] = out[j].value
    BY <2>1, <1>4
  <2>. QED
    BY <1>2, <2>5, <2>6 DEF out
<1>. QED
  BY <1>3, <1>4

(* Two neighbours of the merged catalog are in order and, if they have one    *)
(* value, a release lies between them.                                        *)
LEMMA MergedRunsMaximal ==
  ASSUME TypeOK, MergeInv, NEW op \in Opcodes, NEW k \in Facts
  PROVE  LET out == MergedCatalog.commands[op][k]
         IN  \A j \in 1..(Len(out) - 1) :
               /\ out[j].last < out[j + 1].first
               /\ out[j].value = out[j + 1].value =>
                    \E v \in ToSet(releases) : out[j].last < v /\ v < out[j + 1].first
<1>. DEFINE runs == merged[op][k]
            out == MergedCatalog.commands[op][k]
<1>1. Len(runs) \in Nat /\ DOMAIN runs = 1..Len(runs) /\ Len(out) = Len(runs)
  BY MergedRuns
<1>. SUFFICES ASSUME NEW j \in 1..(Len(runs) - 1)
              PROVE  /\ out[j].last < out[j + 1].first
                     /\ out[j].value = out[j + 1].value =>
                          \E v \in ToSet(releases) :
                            out[j].last < v /\ v < out[j + 1].first
  BY <1>1
<1>2. j \in 1..Len(runs) /\ j + 1 \in 1..Len(runs) /\ j < j + 1
  BY <1>1
<1>. DEFINE a == runs[j].last
            b == runs[j + 1].first
<1>3. a \in DOMAIN releases /\ b \in DOMAIN releases
  BY <1>2, MergedRuns
<1>4. /\ out[j].last = releases[a]
      /\ out[j + 1].first = releases[b]
      /\ out[j].value = runs[j].value /\ out[j + 1].value = runs[j + 1].value
  <2>1. /\ out[j] = [first |-> releases[runs[j].first], last |-> releases[a],
                     value |-> runs[j].value]
        /\ out[j + 1] = [first |-> releases[b],
                         last |-> releases[runs[j + 1].last],
                         value |-> runs[j + 1].value]
    BY <1>2, MergedRuns
  <2>. HIDE DEF a, b, runs, out
  <2>. QED
    BY <2>1
<1>5. RunsInOrder(runs) /\ Maximal(runs)
  BY DEF MergeInv, Faithful
<1>6. a < b /\ (runs[j].value = runs[j + 1].value => a + 1 < b)
  BY <1>1, <1>2, <1>5 DEF RunsInOrder, Maximal
<1>. HIDE DEF a, b, runs, out
<1>7. out[j].last < out[j + 1].first
  BY <1>3, <1>4, <1>6, AscendingOrder
<1>8. ASSUME a + 1 < b
      PROVE  \E v \in ToSet(releases) : releases[a] < v /\ v < releases[b]
  <2>1. a + 1 \in DOMAIN releases
    BY <1>3, <1>8 DEF TypeOK
  <2>2. releases[a] < releases[a + 1] /\ releases[a + 1] < releases[b]
    BY <1>3, <1>8, <2>1, AscendingOrder
  <2>3. releases[a + 1] \in ToSet(releases)
    BY <2>1 DEF ToSet
  <2>. QED
    BY <2>2, <2>3
<1>. QED
  BY <1>4, <1>6, <1>7, <1>8

(* A step that leaves the file leaves what its releases were found to state.  *)
LEMMA FileUnchanged ==
  ASSUME TypeOK, MergeInv, file' = file,
         \A v \in DOMAIN cube : cube'[v] = cube[v]
  PROVE  /\ ReadsBack => ReadsBack'
         /\ RunsMaximal => RunsMaximal'
<1>1. Described' = Described
  BY DEF Described
<1>2. \A v \in Described : cube'[v] = cube[v]
  BY DEF MergeInv
<1>. QED
  BY <1>1, <1>2 DEF ReadsBack, RunsMaximal

(* The file a merge writes.                                                   *)
LEMMA FileWritten ==
  ASSUME TypeOK, MergeInv, index = Len(releases), cube' = cube,
         file' = MergedCatalog
  PROVE  ReadsBack' /\ RunsMaximal'
<1>1. file'.releases = releases /\ file'.commands = MergedCatalog.commands
  BY DEF MergedCatalog
<1>2. Described' \subseteq ToSet(releases)
  BY <1>1 DEF Described
<1>3. file' # None => Described' = ToSet(releases)
  BY <1>1 DEF Described
<1>4. ReadsBack'
  BY <1>1, <1>2, MergedReadsBack DEF ReadsBack
<1>5. RunsMaximal'
  BY <1>1, <1>3, MergedRunsMaximal DEF RunsMaximal
<1>. QED
  BY <1>4, <1>5

(* Steps other than the write leave the file, and what was extracted.         *)
LEMMA StepFile ==
  ASSUME TypeOK, MergeInv, [Next]_vars
  PROVE  \/ /\ file' = file
            /\ \A v \in DOMAIN cube : cube'[v] = cube[v]
         \/ /\ index = Len(releases)
            /\ cube' = cube
            /\ file' = MergedCatalog
<1>1. ASSUME NEW wanted, Extract(wanted)
      PROVE  file' = file /\ \A v \in DOMAIN cube : cube'[v] = cube[v]
  BY <1>1 DEF Extract
<1>2. CASE ExtractRequested \/ ExtractAdded
  BY <1>1, <1>2 DEF ExtractRequested, ExtractAdded
<1>3. CASE MergeSnapshot
  BY <1>3 DEF MergeSnapshot
<1>4. CASE WriteCatalog
  BY <1>4 DEF WriteCatalog
<1>5. CASE UNCHANGED vars
  BY <1>5 DEF vars
<1>. QED
  BY <1>2, <1>3, <1>4, <1>5 DEF Next

LEMMA CatalogInvariant ==
  Spec => [](TypeOK /\ MergeInv /\ ReadsBack /\ RunsMaximal)
<1>1. Init => ReadsBack /\ RunsMaximal
  BY DEF Init, ReadsBack, RunsMaximal
<1>2. TypeOK /\ MergeInv /\ ReadsBack /\ RunsMaximal /\ [Next]_vars
        => ReadsBack' /\ RunsMaximal'
  BY StepFile, FileUnchanged, FileWritten
<1>. QED
  BY <1>1, <1>2, InitMerge, StepMerge, PTL DEF Spec

(* Whatever releases are extracted and added in whatever order, the catalog   *)
(* answers for each of its releases what that release's sources state.        *)
THEOREM CatalogReadsBack == Spec => []ReadsBack
BY CatalogInvariant, PTL

(* The runs of every history are ordered, apart, and never split needlessly.  *)
THEOREM CatalogRunsMaximal == Spec => []RunsMaximal
BY CatalogInvariant, PTL

-------------------------------------------------------------------------------
(* A merged history covers the releases that have the command, whatever the   *)
(* fact, and its ranges neither overlap nor reach outside.                    *)
LEMMA MergedHistory ==
  ASSUME TypeOK, MergeInv, index = Len(releases),
         NEW op \in Opcodes, NEW k \in Facts
  PROVE  LET out == MergedCatalog.commands[op][k]
         IN  /\ Covered(MergedCatalog, out) =
                  {releases[i] : i \in {n \in DOMAIN releases : CommandsOf(n, op) # {}}}
             /\ \A j, l \in DOMAIN out : j # l => ~Overlap(out[j], out[l])
             /\ \A j \in DOMAIN out :
                  {out[j].first, out[j].last} \subseteq ToSet(releases)
<1>. DEFINE runs == merged[op][k]
            out == MergedCatalog.commands[op][k]
<1>1. MergedCatalog.releases = releases
  BY DEF MergedCatalog
<1>2. ASSUME NEW i \in DOMAIN releases
      PROVE  (\E j \in DOMAIN out : Holds(out[j], releases[i])) <=>
               CommandsOf(i, op) # {}
  BY MergedCovers
<1>3. ToSet(releases) = {releases[i] : i \in DOMAIN releases}
  BY DEF ToSet
<1>4. Covered(MergedCatalog, out) =
        {releases[i] : i \in {n \in DOMAIN releases : CommandsOf(n, op) # {}}}
  <2>. HIDE DEF out
  <2>. QED
    BY <1>1, <1>2, <1>3 DEF Covered
<1>5. DOMAIN out = 1..Len(runs) /\ DOMAIN runs = 1..Len(runs) /\ Len(runs) \in Nat
  BY MergedRuns
<1>6. ASSUME NEW j \in 1..Len(runs)
      PROVE  /\ runs[j].first \in DOMAIN releases
             /\ runs[j].last \in DOMAIN releases
             /\ out[j].first = releases[runs[j].first]
             /\ out[j].last = releases[runs[j].last]
  <2>1. /\ runs[j].first \in DOMAIN releases
        /\ runs[j].last \in DOMAIN releases
        /\ out[j] = [first |-> releases[runs[j].first],
                     last |-> releases[runs[j].last],
                     value |-> runs[j].value]
    BY MergedRuns
  <2>. HIDE DEF runs, out
  <2>. QED
    BY <2>1
<1>7. RunsInOrder(runs)
  BY DEF MergeInv, Faithful
<1>. HIDE DEF runs, out
<1>8. ASSUME NEW j \in 1..Len(runs), NEW l \in 1..Len(runs), j < l
      PROVE  out[j].last < out[l].first
  <2>1. runs[j].last < runs[l].first
    BY <1>5, <1>7, <1>8 DEF RunsInOrder
  <2>. QED
    BY <2>1, <1>6, AscendingOrder
<1>9. ASSUME NEW j \in 1..Len(runs), NEW l \in 1..Len(runs), j # l
      PROVE  ~Overlap(out[j], out[l])
  <2>1. /\ out[j].first \in Nat /\ out[j].last \in Nat
        /\ out[l].first \in Nat /\ out[l].last \in Nat
    BY <1>6, AscendingOrder
  <2>2. j < l \/ l < j
    BY <1>5, <1>9
  <2>. QED
    BY <1>8, <2>1, <2>2 DEF Overlap
<1>10. \A j \in DOMAIN out :
         {out[j].first, out[j].last} \subseteq ToSet(releases)
  BY <1>3, <1>5, <1>6
<1>. QED
  BY <1>4, <1>5, <1>9, <1>10 DEF out

LEMMA MergeFaults == TypeOK /\ MergeInv => MergedFaults
<1>. SUFFICES ASSUME TypeOK, MergeInv, pc = "merging", index = Len(releases)
              PROVE  ValidCatalog(MergedCatalog) <=>
                       \A i \in DOMAIN releases : \A c \in SnapshotOf(i) :
                         c.profiles # {}
  BY DEF MergedFaults
<1>. DEFINE out == MergedCatalog.commands
<1>1. /\ MergedCatalog.releases = releases
      /\ releases # <<>>
      /\ Ascending(releases)
  BY DEF MergedCatalog, MergeInv
<1>2. {"name", "profiles", "definition"} \subseteq Facts
  BY DEF Facts
<1>3. ASSUME NEW op \in Opcodes
      PROVE  /\ BoundedRanges(MergedCatalog, out[op])
             /\ ValidHistory(MergedCatalog, out[op]) <=>
                  \A j \in DOMAIN out[op]["profiles"] :
                    out[op]["profiles"][j].value # {}
  BY <1>1, <1>2, MergedHistory DEF BoundedRanges, ValidHistory
<1>4. ASSUME NEW i \in DOMAIN releases, NEW c \in SnapshotOf(i)
      PROVE  /\ c.opcode \in Opcodes
             /\ c \in CommandsOf(i, c.opcode)
  <2>1. SnapshotOf(i) \subseteq Commands
    BY SnapshotAssumption DEF SnapshotOf, TypeOK, MergeInv, ToSet
  <2>. QED
    BY <2>1 DEF Commands, CommandsOf
<1>5. ASSUME NEW op \in Opcodes, NEW j \in DOMAIN out[op]["profiles"]
      PROVE  \E i \in DOMAIN releases : \E c \in SnapshotOf(i) :
               c.profiles = out[op]["profiles"][j].value
  <2>. DEFINE runs == merged[op]["profiles"]
  <2>1. j \in DOMAIN runs /\ runs[j].first \in DOMAIN releases
        /\ runs[j].first <= runs[j].last
    <3>1. "profiles" \in Facts
      BY <1>2
    <3>2. /\ DOMAIN runs = 1..Len(runs) /\ DOMAIN out[op]["profiles"] = 1..Len(runs)
          /\ \A l \in 1..Len(runs) : runs[l].first \in DOMAIN releases
                                      /\ runs[l].first <= runs[l].last
      BY <3>1, MergedRuns
    <3>. QED
      BY <3>2
  <2>. DEFINE i == runs[j].first
  <2>2. i \in runs[j].first..runs[j].last
    BY <2>1, <1>2, MergedRuns, AscendingOrder
  <2>3. Holds(out[op]["profiles"][j], releases[i])
    BY <1>2, <2>1, <2>2, MergedHolds
  <2>. HIDE DEF i
  <2>4. PICK l \in DOMAIN out[op]["profiles"] :
               /\ {c["profiles"] : c \in CommandsOf(i, op)}
                    = {out[op]["profiles"][l].value}
               /\ j = l
    BY <1>2, <2>1, <2>3, MergedCovers DEF i
  <2>5. PICK c \in CommandsOf(i, op) :
               c["profiles"] = out[op]["profiles"][j].value
    BY <2>4
  <2>. QED
    BY <2>1, <2>5 DEF CommandsOf, i
<1>6. ASSUME NEW i \in DOMAIN releases, NEW c \in SnapshotOf(i)
      PROVE  /\ c.opcode \in Listed(MergedCatalog)
             /\ \E j \in DOMAIN out[c.opcode]["profiles"] :
                  out[c.opcode]["profiles"][j].value = c.profiles
  <2>. DEFINE op == c.opcode
  <2>1. op \in Opcodes /\ c \in CommandsOf(i, op)
    BY <1>4
  <2>. HIDE DEF op
  <2>2. PICK j \in DOMAIN out[op]["definition"] :
               Holds(out[op]["definition"][j], releases[i])
    BY <1>2, <2>1, MergedCovers
  <2>3. out[op]["definition"] # <<>>
    BY <2>2
  <2>4. PICK l \in DOMAIN out[op]["profiles"] :
               {d["profiles"] : d \in CommandsOf(i, op)}
                 = {out[op]["profiles"][l].value}
    BY <1>2, <2>1, MergedCovers
  <2>5. out[op]["profiles"][l].value = c.profiles
    BY <2>1, <2>4
  <2>. QED
    BY <2>1, <2>3, <2>5 DEF Listed, op
<1>7. ValidCatalog(MergedCatalog) <=>
        \A op \in Listed(MergedCatalog) :
          \A j \in DOMAIN out[op]["profiles"] : out[op]["profiles"][j].value # {}
  BY <1>1, <1>3 DEF ValidCatalog, Listed
<1>8. Listed(MergedCatalog) \subseteq Opcodes
  BY DEF Listed
<1>. HIDE DEF out
<1>. QED
  BY <1>5, <1>6, <1>7, <1>8

(* Merging neither makes nor hides a fault: a merged catalog is refused if    *)
(* and only if some release lists a command without profiles.                 *)
THEOREM CatalogMergedFaults == Spec => []MergedFaults
BY CatalogInvariant, MergeFaults, PTL

-------------------------------------------------------------------------------
(* What the readers of the file rely on.                                      *)

(* A fact of a command at a release is in a run exactly if the sources state  *)
(* it, with the value they state.                                             *)
Answers(v, op, k) ==
  LET runs == file.commands[op][k]
      own == {c \in cube[v] : c.opcode = op}
  IN  /\ own = {} => RunAt(runs, v) = 0
      /\ own # {} => /\ RunAt(runs, v) \in DOMAIN runs
                     /\ \A c \in own : runs[RunAt(runs, v)].value = c[k]

(* The value of each run is stated by a release the file describes.           *)
Grounded(op, k) ==
  \A j \in DOMAIN file.commands[op][k] : \E v \in Described : \E c \in cube[v] :
    c.opcode = op /\ file.commands[op][k][j].value = c[k]

FileInv ==
  file # None =>
    /\ Ascending(file.releases)
    /\ \A v \in Described : \A c, d \in cube[v] : c.opcode = d.opcode => c = d
    /\ \A v \in Described, op \in Opcodes, k \in Facts : Answers(v, op, k)
    /\ \A op \in Opcodes, k \in Facts : Grounded(op, k)

(* A release that is merged has a command once.                               *)
LEMMA MergedSingle ==
  ASSUME TypeOK, MergeInv, index = Len(releases), NEW i \in DOMAIN releases,
         NEW c \in SnapshotOf(i), NEW d \in SnapshotOf(i), c.opcode = d.opcode
  PROVE  c = d
<1>1. c \in Commands /\ d \in Commands
  <2>1. releases[i] \in DOMAIN cube
    BY DEF MergeInv, ToSet
  <2>2. cube[releases[i]] \in Snapshots
    BY <2>1 DEF TypeOK
  <2> QED BY <2>2, SnapshotAssumption DEF SnapshotOf
<1>2. c.opcode \in Opcodes
  BY <1>1 DEF Commands
<1>3. c \in CommandsOf(i, c.opcode) /\ d \in CommandsOf(i, c.opcode)
  BY DEF CommandsOf
<1>4. ASSUME NEW k \in Facts PROVE c[k] = d[k]
  <2>1. \E x : {e[k] : e \in CommandsOf(i, c.opcode)} = {x}
    BY <1>2, <1>3, MergedCovers
  <2> QED BY <1>3, <2>1
<1>5. c.name = d.name /\ c.profiles = d.profiles /\ c.definition = d.definition
  BY <1>4 DEF Facts
<1> QED BY <1>1, <1>5 DEF Commands

(* A merged history answers as FileInv says.                                  *)
LEMMA MergedAnswers ==
  ASSUME TypeOK, MergeInv, index = Len(releases),
         NEW v \in ToSet(releases), NEW op \in Opcodes, NEW k \in Facts
  PROVE  LET runs == MergedCatalog.commands[op][k]
             own == {c \in cube[v] : c.opcode = op}
         IN  /\ own = {} => RunAt(runs, v) = 0
             /\ own # {} => /\ RunAt(runs, v) \in DOMAIN runs
                            /\ \A c \in own : runs[RunAt(runs, v)].value = c[k]
<1> DEFINE runs == MergedCatalog.commands[op][k]
<1>1. PICK i \in DOMAIN releases : v = releases[i]
  BY DEF ToSet
<1>2. CommandsOf(i, op) = {c \in cube[v] : c.opcode = op}
  BY <1>1 DEF CommandsOf, SnapshotOf
<1>3. CommandsOf(i, op) = {} => RunAt(runs, v) = 0
  BY <1>1, <1>2, MergedReadsBack
<1>4. ASSUME CommandsOf(i, op) # {}
      PROVE  /\ RunAt(runs, v) \in DOMAIN runs
             /\ \A c \in CommandsOf(i, op) : runs[RunAt(runs, v)].value = c[k]
  <2>1. PICK j \in DOMAIN runs :
               /\ Holds(runs[j], v)
               /\ {c[k] : c \in CommandsOf(i, op)} = {runs[j].value}
               /\ \A l \in DOMAIN runs : Holds(runs[l], v) => l = j
    BY <1>1, <1>4, MergedCovers
  <2>2. j \in Nat \ {0}
    BY <2>1, MergedRuns
  <2> HIDE DEF runs
  <2>3. {l \in DOMAIN runs : Holds(runs[l], v)} = {j}
    BY <2>1
  <2>4. RunAt(runs, v) = j
    BY <2>2, <2>3 DEF RunAt, Min
  <2> QED BY <2>1, <2>4
<1> QED BY <1>2, <1>3, <1>4

(* Each run of a merged history starts at a release that states its value.    *)
LEMMA MergedGrounded ==
  ASSUME TypeOK, MergeInv, NEW op \in Opcodes, NEW k \in Facts,
         NEW j \in DOMAIN MergedCatalog.commands[op][k]
  PROVE  \E v \in ToSet(releases) : \E c \in cube[v] :
           c.opcode = op /\ MergedCatalog.commands[op][k][j].value = c[k]
<1> DEFINE runs == merged[op][k]
           i == runs[j].first
<1>0. j \in 1..Len(runs) /\ DOMAIN runs = 1..Len(runs)
  BY MergedRuns
<1>1. /\ j \in DOMAIN runs /\ i \in DOMAIN releases /\ runs[j].first <= runs[j].last
      /\ runs[j].last \in DOMAIN releases
      /\ MergedCatalog.commands[op][k][j] =
           [first |-> releases[runs[j].first], last |-> releases[runs[j].last],
            value |-> runs[j].value]
  BY <1>0, MergedRuns
<1>2. i \in runs[j].first..runs[j].last
  BY <1>1 DEF TypeOK
<1>3. StatedBy(op, k)[i] = {runs[j].value}
  BY <1>1, <1>2 DEF MergeInv, Faithful, Stated
<1>4. {c[k] : c \in CommandsOf(i, op)} = {runs[j].value}
  BY <1>1, <1>3 DEF StatedBy
<1>5. PICK c \in CommandsOf(i, op) : c[k] = runs[j].value
  BY <1>4
<1>6. c \in cube[releases[i]] /\ c.opcode = op /\ releases[i] \in ToSet(releases)
  BY <1>1, <1>5 DEF CommandsOf, SnapshotOf, ToSet
<1>7. MergedCatalog.commands[op][k][j].value = runs[j].value
  BY <1>1
<1> QED BY <1>5, <1>6, <1>7

LEMMA FileInvStep ==
  ASSUME TypeOK, MergeInv, FileInv, [Next]_vars
  PROVE  FileInv'
<1>1. ASSUME file' = file, \A v \in DOMAIN cube : cube'[v] = cube[v]
      PROVE  FileInv'
  <2>1. Described' = Described
    BY <1>1 DEF Described
  <2>2. \A v \in Described : cube'[v] = cube[v]
    BY <1>1 DEF MergeInv
  <2> QED BY <1>1, <2>1, <2>2 DEF FileInv, Answers, Grounded
<1>2. ASSUME index = Len(releases), cube' = cube, file' = MergedCatalog
      PROVE  FileInv'
  <2>1. file'.releases = releases /\ file'.commands = MergedCatalog.commands
    BY <1>2 DEF MergedCatalog
  <2> SUFFICES ASSUME file' # None PROVE FileInv'
    BY DEF FileInv
  <2>2. Described' = ToSet(releases)
    BY <2>1 DEF Described
  <2>3. Ascending(file'.releases)
    BY <2>1 DEF MergeInv
  <2>4. \A v \in Described' : \A c, d \in cube'[v] : c.opcode = d.opcode => c = d
    BY <1>2, <2>2, MergedSingle DEF ToSet, SnapshotOf
  <2>5. \A v \in Described', op \in Opcodes, k \in Facts : Answers(v, op, k)'
    BY <1>2, <2>1, <2>2, MergedAnswers DEF Answers
  <2>6. \A op \in Opcodes, k \in Facts : Grounded(op, k)'
    BY <1>2, <2>1, <2>2, MergedGrounded DEF Grounded
  <2> QED BY <2>3, <2>4, <2>5, <2>6 DEF FileInv
<1> QED BY <1>1, <1>2, StepFile

LEMMA FileInvariant == Spec => [](TypeOK /\ MergeInv /\ FileInv)
<1>1. Init => FileInv
  BY DEF Init, FileInv
<1> QED BY <1>1, InitMerge, StepMerge, FileInvStep, PTL DEF Spec

-------------------------------------------------------------------------------
LEMMA SingletonCardinality ==
  ASSUME NEW S, \A x, y \in S : x = y
  PROVE  IsFiniteSet(S) /\ Cardinality(S) <= 1 /\ (Cardinality(S) = 1 <=> S # {})
<1>1. CASE S = {}
  BY <1>1, FS_EmptySet
<1>2. CASE S # {}
  <2>1. PICK x \in S : TRUE
    BY <1>2
  <2>2. S = {x}
    BY <2>1
  <2>3. IsFiniteSet({x}) /\ Cardinality({x}) = 1
    BY FS_Singleton
  <2> QED BY <1>2, <2>2, <2>3
<1> QED BY <1>1, <1>2

(* A command of a described release is found there, fact by fact.             *)
LEMMA StatedIsFound ==
  ASSUME TypeOK, MergeInv, FileInv, file # None, NEW v \in Described, NEW c \in cube[v]
  PROVE  /\ c \in Commands /\ c.opcode \in Opcodes
         /\ \A d \in cube[v] : d.opcode = c.opcode => d = c
         /\ \A k \in Facts :
              /\ RunAt(file.commands[c.opcode][k], v) \in DOMAIN file.commands[c.opcode][k]
              /\ RunAt(file.commands[c.opcode][k], v) # 0
              /\ ValueAt(file.commands[c.opcode][k], v) = c[k]
<1>1. c \in Commands /\ c.opcode \in Opcodes
  <2>1. cube[v] \in Snapshots
    BY DEF MergeInv, TypeOK
  <2> QED BY <2>1, SnapshotAssumption DEF Commands
<1>2. \A d \in cube[v] : d.opcode = c.opcode => d = c
  BY DEF FileInv
<1>3. ASSUME NEW k \in Facts
      PROVE  /\ RunAt(file.commands[c.opcode][k], v) \in DOMAIN file.commands[c.opcode][k]
             /\ RunAt(file.commands[c.opcode][k], v) # 0
             /\ ValueAt(file.commands[c.opcode][k], v) = c[k]
  <2> DEFINE runs == file.commands[c.opcode][k]
  <2>1. runs \in Seq(Runs(Versions))
    BY <1>1 DEF TypeOK, Catalogs, Histories
  <2>2. Answers(v, c.opcode, k)
    BY <1>1 DEF FileInv
  <2>3. RunAt(runs, v) \in DOMAIN runs /\ runs[RunAt(runs, v)].value = c[k]
    BY <2>2 DEF Answers
  <2>4. RunAt(runs, v) # 0
    BY <2>1, <2>3
  <2> QED BY <2>3, <2>4 DEF ValueAt
<1> QED BY <1>1, <1>2, <1>3

(* A command the sources lack is undefined.                                   *)
LEMMA LackingIsUndefined ==
  ASSUME TypeOK, FileInv, file # None,
         NEW v \in Described, NEW op \in Opcodes, NEW k \in Facts
  PROVE  RunAt(file.commands[op][k], v) # 0 <=> \E c \in cube[v] : c.opcode = op
<1> DEFINE runs == file.commands[op][k]
<1>1. 0 \notin DOMAIN runs
  <2>1. runs \in Seq(Runs(Versions))
    BY DEF TypeOK, Catalogs, Histories
  <2> QED BY <2>1
<1>2. /\ {c \in cube[v] : c.opcode = op} = {} => RunAt(runs, v) = 0
      /\ {c \in cube[v] : c.opcode = op} # {} => RunAt(runs, v) \in DOMAIN runs
  BY DEF FileInv, Answers
<1> QED BY <1>1, <1>2

(* Two annotations with one fact that apply to one release overlap.           *)
LEMMA ApplyTogether ==
  ASSUME NEW left \in Annotations, NEW right \in Annotations, NEW v \in Versions,
         Applies(left, v), Applies(right, v)
  PROVE  RangesOverlap(left.releases, right.releases)
<1> SUFFICES ASSUME left.releases # None, right.releases # None
             PROVE  Overlap(left.releases, right.releases)
  BY DEF RangesOverlap
<1>1. /\ left.releases \in [first : Versions, last : Versions]
      /\ right.releases \in [first : Versions, last : Versions]
  BY DEF Annotations
<1>2. Holds(left.releases, v) /\ Holds(right.releases, v)
  BY DEF Applies
<1>3. /\ left.releases.first \in Nat /\ left.releases.last \in Nat
      /\ right.releases.first \in Nat /\ right.releases.last \in Nat /\ v \in Nat
  BY <1>1, VersionAssumption
<1> QED BY <1>2, <1>3 DEF Holds, Overlap

LEMMA MatchingApart ==
  ASSUME NEW a \in Audited, NEW name, NEW v \in Versions,
         NEW i \in Matching(a, name, v), NEW j \in Matching(a, name, v),
         FactsOverlap(a[i], a[j])
  PROVE  i = j
<1>1. a \in Seq(Annotations) /\ Audit(a)
  BY AnnotationAssumption DEF Audited
<1>2. i \in DOMAIN a /\ j \in DOMAIN a /\ a[i] \in Annotations /\ a[j] \in Annotations
  BY <1>1 DEF Matching
<1>3. a[i].name = name /\ a[j].name = name /\ Applies(a[i], v) /\ Applies(a[j], v)
  BY DEF Matching
<1>4. SameFact(a[i], a[j]) /\ SameFact(a[j], a[i])
  BY <1>2, <1>3, ApplyTogether DEF SameFact, FactsOverlap
<1>5. ~(i < j) /\ ~(j < i)
  BY <1>1, <1>2, <1>4 DEF Audit
<1> QED BY <1>1, <1>2, <1>5

(* The entry an audited annotation is about is the one that has its name.     *)
LEMMA AuditedEntry ==
  ASSUME TypeOK, MergeInv, FileInv, file # None, NEW v \in Described, NEW c \in cube[v],
         Entry(c.name)
  PROVE  Carriers(c.name) = {c.opcode}
<1>1. c.opcode \in Opcodes
  BY StatedIsFound
<1>2. Carries(c.opcode, c.name)
  <2> DEFINE runs == file.commands[c.opcode]["name"]
  <2>1. RunAt(runs, v) \in DOMAIN runs /\ RunAt(runs, v) # 0 /\ ValueAt(runs, v) = c["name"]
    BY StatedIsFound DEF Facts
  <2>2. runs[RunAt(runs, v)].value = c.name
    BY <2>1 DEF ValueAt
  <2> QED BY <2>1, <2>2 DEF Carries
<1>3. IsFiniteSet(Carriers(c.name))
  BY OpcodeAssumption, FS_Subset DEF Carriers
<1>4. PICK op : Carriers(c.name) = {op}
  BY <1>3, FS_Singleton DEF Entry
<1> QED BY <1>1, <1>2, <1>4 DEF Carriers

LEMMA AuditedLayout ==
  ASSUME TypeOK, MergeInv, FileInv, file # None, NEW v \in Described, NEW c \in cube[v],
         NEW a \in Audited, NEW i \in Matching(a, c.name, v), a[i].layout # None
  PROVE  FitsExtracted(a[i], c.definition)
<1>1. a \in Seq(Annotations) /\ Audit(a)
  BY AnnotationAssumption DEF Audited
<1>2. i \in DOMAIN a /\ a[i].name = c.name /\ Applies(a[i], v)
  BY DEF Matching
<1>3. AuditOne(a[i])
  BY <1>1, <1>2 DEF Audit
<1>4. Carriers(a[i].name) = {c.opcode}
  BY <1>2, <1>3, AuditedEntry DEF AuditOne
<1>5. (CHOOSE op \in Carriers(a[i].name) : TRUE) = c.opcode
  BY <1>4
<1>6. Defined(c.opcode, v) /\ ValueAt(file.commands[c.opcode]["definition"], v) = c.definition
  BY StatedIsFound DEF Defined, DefinitionAt, Facts
<1> QED BY <1>2, <1>3, <1>5, <1>6 DEF AuditOne

LEMMA AgreementHolds ==
  ASSUME TypeOK, MergeInv, FileInv PROVE AnnotationsAgree
<1> SUFFICES ASSUME Published, NEW a \in Audited, NEW v \in Described, NEW c \in cube[v]
             PROVE  LET layouts == {i \in Matching(a, c.name, v) : a[i].layout # None}
                        exclusions == {i \in Matching(a, c.name, v) : a[i].exclude}
                    IN  /\ Cardinality(layouts) <= 1
                        /\ Cardinality(exclusions) <= 1
                        /\ \A i \in layouts :
                             IF a[i].override
                             THEN c.definition \notin {Unresolved, a[i].layout}
                             ELSE c.definition = Unresolved
  BY DEF AnnotationsAgree
<1> DEFINE layouts == {i \in Matching(a, c.name, v) : a[i].layout # None}
           exclusions == {i \in Matching(a, c.name, v) : a[i].exclude}
<1>1. file # None /\ v \in Versions
  BY DescribedType DEF Published
<1>2. \A i, j \in layouts : i = j
  BY <1>1, MatchingApart DEF FactsOverlap
<1>3. \A i, j \in exclusions : i = j
  BY <1>1, MatchingApart DEF FactsOverlap
<1>4. \A i \in layouts : FitsExtracted(a[i], c.definition)
  BY <1>1, AuditedLayout
<1>5. Cardinality(layouts) <= 1 /\ Cardinality(exclusions) <= 1
  <2> HIDE DEF layouts, exclusions
  <2> QED BY <1>2, <1>3, SingletonCardinality
<1> QED BY <1>4, <1>5 DEF FitsExtracted

(* Annotations the audit lets pass apply in one way only, and never contradict *)
(* the sources silently, for any catalog and any annotation files.            *)
THEOREM CatalogAnnotationsAgree == Spec => []AnnotationsAgree
BY FileInvariant, AgreementHolds, PTL

-------------------------------------------------------------------------------
(* What an element of an interface says of a command.                         *)
Meaning(a, x) ==
  <<x[1], IF x[3] = 0 THEN file.commands[x[1]]["definition"][x[2]].value
          ELSE a[x[3]].layout, x[4]>>

Accepts(t) == {c \in cube[t.release] : t.profile \in c.profiles}

Item(a, op, v) ==
  LET active == ActiveCommand(a, op, v)
  IN  <<active.command, active.definition, active.layout, active.excluded>>

(* What the sources and the annotations say of a command.                     *)
Said(a, c, v) ==
  LET r == Resolved(a, c, v)
  IN  <<r.opcode, r.definition, ExclusionFor(a, c.name, v)>>

Supported(t) ==
  {op \in Opcodes : /\ RunAt(file.commands[op]["profiles"], t.release) # 0
                    /\ t.profile \in ValueAt(file.commands[op]["profiles"], t.release)}

LEMMA SupportedAccepts ==
  ASSUME TypeOK, MergeInv, FileInv, file # None, NEW t \in Targets
  PROVE  Supported(t) = {c.opcode : c \in Accepts(t)}
<1> DEFINE v == t.release
<1>1. v \in Described
  BY DEF Targets
<1>2. ASSUME NEW c \in cube[v]
      PROVE  /\ c.opcode \in Opcodes
             /\ RunAt(file.commands[c.opcode]["profiles"], v) # 0
             /\ ValueAt(file.commands[c.opcode]["profiles"], v) = c.profiles
  BY <1>1, StatedIsFound DEF Facts
<1>3. ASSUME NEW op \in Opcodes, RunAt(file.commands[op]["profiles"], v) # 0
      PROVE  \E c \in cube[v] : c.opcode = op
  BY <1>1, <1>3, LackingIsUndefined DEF Facts
<1> QED BY <1>2, <1>3 DEF Supported, Accepts

LEMMA ItemMeans ==
  ASSUME TypeOK, MergeInv, FileInv, file # None, NEW v \in Described,
         NEW c \in cube[v], NEW a
  PROVE  Meaning(a, Item(a, c.opcode, v)) = Said(a, c, v)
<1> DEFINE op == c.opcode
           lay == LayoutFor(a, c.name, v)
<1>1. ValueAt(file.commands[op]["name"], v) = c.name
  BY StatedIsFound DEF Facts
<1>2. /\ DefinitionAt(op, v) # 0
      /\ file.commands[op]["definition"][DefinitionAt(op, v)].value = c.definition
  BY StatedIsFound DEF Facts, DefinitionAt, ValueAt
<1>3. Item(a, op, v) = <<op, DefinitionAt(op, v), lay, ExclusionFor(a, c.name, v)>>
  BY <1>1 DEF Item, ActiveCommand
<1>4. c \in Commands
  BY StatedIsFound
<1>5. /\ Resolved(a, c, v).opcode = op
      /\ Resolved(a, c, v).definition = IF lay = 0 THEN c.definition ELSE a[lay].layout
  BY <1>4 DEF Resolved, Commands
<1> QED BY <1>2, <1>3, <1>5 DEF Meaning, Said

(* Targets with one interface accept the same commands.                       *)
LEMMA InterfaceMeans ==
  ASSUME TypeOK, MergeInv, FileInv, file # None, NEW a, NEW t \in Targets
  PROVE  {Said(a, c, t.release) : c \in Accepts(t)} = {Meaning(a, x) : x \in Interface(a, t)}
<1> DEFINE v == t.release
<1>1. Interface(a, t) = {Item(a, op, v) : op \in Supported(t)}
  BY DEF Interface, ViewCommands, Supported, Item
<1>2. {Meaning(a, x) : x \in Interface(a, t)} =
        {Meaning(a, Item(a, c.opcode, v)) : c \in Accepts(t)}
  BY <1>1, SupportedAccepts
<1>3. \A c \in Accepts(t) : Meaning(a, Item(a, c.opcode, v)) = Said(a, c, v)
  BY ItemMeans DEF Accepts, Targets
<1> QED BY <1>2, <1>3

(* Of the targets with one interface, the least is distinct.                  *)
LEMMA LeastTarget ==
  ASSUME TypeOK, NEW a, NEW t \in Targets
  PROVE  \E u \in DistinctTargets(a) : Interface(a, u) = Interface(a, t)
<1> DEFINE Same == {u \in Targets : Interface(a, u) = Interface(a, t)}
           Rs == {u.release : u \in Same}
<1>1. \A u \in Targets : u.release \in Nat /\ u.profile \in Nat
  BY DescribedType, VersionAssumption, ProfileAssumption DEF Targets
<1>2. PICK r \in Rs : \A s \in Rs : r <= s
  <2>1. Rs \in SUBSET Nat /\ Rs # {}
    BY <1>1
  <2> HIDE DEF Rs
  <2> QED BY <2>1, LeastNatural
<1> DEFINE Ps == {u.profile : u \in {w \in Same : w.release = r}}
<1>3. PICK p \in Ps : \A q \in Ps : p <= q
  <2>1. Ps \in SUBSET Nat /\ Ps # {}
    BY <1>1
  <2> HIDE DEF Ps
  <2> QED BY <2>1, LeastNatural
<1>4. PICK u \in Same : u.release = r /\ u.profile = p
  BY <1>3
<1>5. ASSUME NEW w \in Targets, Before(w, u), Interface(a, w) = Interface(a, u)
      PROVE  FALSE
  <2>1. w \in Same
    BY <1>4, <1>5
  <2>2. r <= w.release
    BY <1>2, <2>1
  <2>3. w.release = r => p <= w.profile
    BY <1>3, <2>1
  <2> QED BY <1>1, <1>4, <1>5, <2>2, <2>3 DEF Before
<1> QED BY <1>4, <1>5 DEF DistinctTargets

-------------------------------------------------------------------------------
(* The segments of a name are the history of what is active under it.         *)
LEMMA CardinalityAtMostOne ==
  ASSUME NEW S, IsFiniteSet(S)
  PROVE  /\ Cardinality(S) \in Nat
         /\ Cardinality(S) > 1 <=> \E x, y \in S : x # y
<1>1. Cardinality(S) \in Nat
  BY FS_CardinalityType
<1>2. ASSUME \A x, y \in S : x = y PROVE Cardinality(S) <= 1
  BY <1>2, SingletonCardinality
<1>3. ASSUME NEW x \in S, NEW y \in S, x # y PROVE Cardinality(S) > 1
  <2>1. Cardinality(S) # 0
    BY FS_EmptySet, <1>3
  <2>2. Cardinality(S) # 1
    BY FS_Singleton, <1>3
  <2> QED BY <1>1, <2>1, <2>2
<1> QED BY <1>1, <1>2, <1>3

Active(a, name) ==
  [n \in DOMAIN file.releases |-> ActiveEntries(a, name, file.releases[n])]

SegmentStart == [segments |-> <<>>, adjacent |-> FALSE, failed |-> FALSE]

(* The loop over the releases goes through as many states.                    *)
LEMMA SegmentsRecursion ==
  ASSUME NEW a, NEW name, file.releases \in Seq(Versions)
  PROVE  \E f : /\ f[0] = SegmentStart
                /\ \A n \in 1..Len(file.releases) :
                     f[n] = Segmented(f[n - 1], Active(a, name)[n], file.releases[n])
                /\ Segments(a, name) = f[Len(file.releases)]
<1> DEFINE N == Len(file.releases)
           Step(f, n) == IF n = 0 THEN SegmentStart
                         ELSE Segmented(f[n - 1], ActiveEntries(a, name, file.releases[n]),
                                        file.releases[n])
           S == {m \in Nat : \E f : f = [n \in 0..m |-> Step(f, n)]}
<1>1. 0 \in S
  <2> DEFINE f == [n \in 0..0 |-> SegmentStart]
  <2>1. f = [n \in 0..0 |-> Step(f, n)]
    OBVIOUS
  <2> QED BY <2>1
<1>2. ASSUME NEW m \in Nat, m \in S PROVE m + 1 \in S
  <2>1. PICK f : f = [n \in 0..m |-> Step(f, n)]
    BY <1>2
  <2> DEFINE last == Step(f, m + 1)
             g == [n \in 0..(m + 1) |-> IF n = m + 1 THEN last ELSE f[n]]
  <2>2. \A n \in 0..m : f[n] = Step(f, n)
    <3> HIDE DEF Step
    <3> QED BY <2>1
  <2>3. \A n \in 0..m : g[n] = f[n]
    OBVIOUS
  <2>4. g[m + 1] = last
    OBVIOUS
  <2> HIDE DEF g
  <2>5. ASSUME NEW n \in 0..(m + 1) PROVE g[n] = Step(g, n)
    <3>1. CASE n = m + 1
      <4>1. g[n - 1] = f[n - 1] /\ n # 0
        BY <2>3, <3>1
      <4> QED BY <2>4, <3>1, <4>1
    <3>2. CASE n # m + 1
      <4>1. n \in 0..m /\ (n # 0 => n - 1 \in 0..m)
        BY <3>2
      <4>2. g[n] = f[n] /\ (n # 0 => g[n - 1] = f[n - 1])
        BY <2>3, <4>1
      <4>3. f[n] = Step(f, n)
        BY <2>2, <4>1
      <4> QED BY <4>2, <4>3
    <3> QED BY <3>1, <3>2
  <2>6. g = [n \in 0..(m + 1) |-> g[n]]
    BY DEF g
  <2>7. g = [n \in 0..(m + 1) |-> Step(g, n)]
    <3> HIDE DEF Step
    <3> QED BY <2>5, <2>6
  <2> QED BY <2>7
<1>3. N \in Nat /\ DOMAIN file.releases = 1..N
  OBVIOUS
<1>4. N \in S
  <2> HIDE DEF S, N
  <2> QED BY <1>1, <1>2, <1>3, SetInduction
<1> DEFINE after == CHOOSE f : f = [n \in 0..N |-> Step(f, n)]
<1>5. after = [n \in 0..N |-> Step(after, n)]
  BY <1>4
<1>6. Segments(a, name) = after[N]
  BY DEF Segments, SegmentStart
<1> HIDE DEF after
<1>7. after[0] = SegmentStart
  BY <1>3, <1>5
<1>8. ASSUME NEW n \in 1..N
      PROVE  after[n] = Segmented(after[n - 1], Active(a, name)[n], file.releases[n])
  <2>1. n \in 0..N /\ n # 0
    BY <1>3
  <2>2. after[n] = Step(after, n)
    <3> HIDE DEF Step
    <3> QED BY <1>5, <2>1
  <2> QED BY <1>3, <2>1, <2>2 DEF Active
<1> QED BY <1>6, <1>7, <1>8

(* Runs over the indexes of releases as segments.                             *)
Outline(runs) ==
  [j \in 1..Len(runs) |->
     [first |-> file.releases[runs[j].first], last |-> file.releases[runs[j].last],
      facts |-> runs[j].value]]

LEMMA OutlineCoalesced ==
  ASSUME NEW V, NEW runs \in Seq(RunsOf(V)), NEW n, NEW value
  PROVE  LET segments == Outline(runs)
             v == file.releases[n]
         IN  Outline(Coalesced(runs, n, value)) =
               IF /\ runs # <<>>
                  /\ runs[Len(runs)].last + 1 = n
                  /\ runs[Len(runs)].value = value
               THEN Extended(segments, v)
               ELSE Started(segments, value, v)
<1> DEFINE last == Len(runs)
           segments == Outline(runs)
           v == file.releases[n]
<1>1. /\ last \in Nat /\ DOMAIN runs = 1..last
      /\ \A j \in 1..last : DOMAIN runs[j] = {"first", "last", "value"}
  <2>1. \A j \in DOMAIN runs : runs[j] \in RunsOf(V)
    OBVIOUS
  <2> QED BY <2>1 DEF RunsOf
<1>2. Len(segments) = last /\ DOMAIN segments = 1..last
  BY <1>1 DEF Outline
<1>3. CASE runs # <<>> /\ runs[last].last + 1 = n /\ runs[last].value = value
  <2> DEFINE r == [runs EXCEPT ![last].last = n]
  <2>1. Coalesced(runs, n, value) = r
    BY <1>3 DEF Coalesced
  <2>2. last \in 1..last /\ Len(r) = last
    BY <1>1, <1>3
  <2>3. \A j \in 1..last : /\ r[j].first = runs[j].first
                           /\ r[j].value = runs[j].value
                           /\ r[j].last = IF j = last THEN n ELSE runs[j].last
    BY <1>1
  <2>4. Outline(r) =
          [j \in 1..last |->
             [first |-> file.releases[runs[j].first],
              last |-> file.releases[IF j = last THEN n ELSE runs[j].last],
              facts |-> runs[j].value]]
    <3> HIDE DEF r
    <3> QED BY <2>2, <2>3 DEF Outline
  <2>5. Extended(segments, v) =
          [j \in 1..last |->
             [first |-> file.releases[runs[j].first],
              last |-> IF j = last THEN v ELSE file.releases[runs[j].last],
              facts |-> runs[j].value]]
    <3>1. /\ segments = [j \in 1..last |-> segments[j]]
          /\ \A j \in 1..last : segments[j] =
               [first |-> file.releases[runs[j].first],
                last |-> file.releases[runs[j].last], facts |-> runs[j].value]
      BY DEF Outline
    <3>2. Extended(segments, v) = [segments EXCEPT ![last] = [segments[last] EXCEPT !.last = v]]
      BY <1>2 DEF Extended
    <3>3. [segments[last] EXCEPT !.last = v] =
            [first |-> file.releases[runs[last].first], last |-> v,
             facts |-> runs[last].value]
      <4>1. segments[last] = [first |-> file.releases[runs[last].first],
                              last |-> file.releases[runs[last].last],
                              facts |-> runs[last].value]
        BY <2>2, <3>1
      <4>2. \A f, l, q : [[first |-> f, last |-> l, facts |-> q] EXCEPT !.last = v] =
                           [first |-> f, last |-> v, facts |-> q]
        OBVIOUS
      <4> HIDE DEF segments, v
      <4> QED BY <4>1, <4>2
    <3> HIDE DEF segments, v
    <3> QED BY <2>2, <3>1, <3>2, <3>3
  <2>6. \A j \in 1..last : file.releases[IF j = last THEN n ELSE runs[j].last] =
                             IF j = last THEN v ELSE file.releases[runs[j].last]
    OBVIOUS
  <2>7. Outline(r) = Extended(segments, v)
    <3> HIDE DEF r, segments, v, last
    <3> QED BY <2>4, <2>5, <2>6
  <2> QED BY <1>3, <2>1, <2>7
<1>4. CASE ~(runs # <<>> /\ runs[last].last + 1 = n /\ runs[last].value = value)
  <2> DEFINE new == [first |-> n, last |-> n, value |-> value]
             r == Append(runs, new)
             segment == [first |-> v, last |-> v, facts |-> value]
  <2>1. Coalesced(runs, n, value) = r
    BY <1>4 DEF Coalesced
  <2>2. Len(r) = last + 1 /\ r[last + 1] = new /\ \A j \in 1..last : r[j] = runs[j]
    BY <1>1
  <2>3. Outline(r) = [j \in 1..(last + 1) |->
                        IF j = last + 1 THEN segment
                        ELSE [first |-> file.releases[runs[j].first],
                              last |-> file.releases[runs[j].last],
                              facts |-> runs[j].value]]
    <3>1. \A j \in 1..(last + 1) : j # last + 1 => j \in 1..last
      BY <1>1
    <3> HIDE DEF r
    <3> QED BY <2>2, <3>1 DEF Outline
  <2>4. Started(segments, value, v) = Append(segments, segment)
    BY DEF Started
  <2>5. \A j \in 1..last : segments[j] =
          [first |-> file.releases[runs[j].first],
           last |-> file.releases[runs[j].last], facts |-> runs[j].value]
    BY DEF Outline
  <2>6. segments = [j \in 1..last |-> segments[j]]
    BY DEF Outline
  <2>7. Append(segments, segment) =
          [j \in 1..(last + 1) |-> IF j = last + 1 THEN segment ELSE segments[j]]
    <3> HIDE DEF segments, segment
    <3> QED BY <1>1, <1>2, <2>6
  <2>8. \A j \in 1..(last + 1) : j # last + 1 => j \in 1..last
    BY <1>1
  <2>9. Outline(r) = Append(segments, segment)
    <3> HIDE DEF r, segments, segment, last
    <3> QED BY <2>3, <2>5, <2>7, <2>8
  <2> QED BY <1>4, <2>1, <2>4, <2>9
<1> QED BY <1>3, <1>4

(* After n releases either two entries were active in one, or the segments    *)
(* are the faithful history of the entries active in each.                    *)
SegmentInv(a, name, so, n) ==
  LET active == Active(a, name)
      V == UNION {active[i] : i \in DOMAIN active}
  IN  /\ so = [segments |-> so.segments, adjacent |-> so.adjacent, failed |-> so.failed]
      /\ so.failed \in BOOLEAN /\ so.adjacent \in BOOLEAN
      /\ so.failed <=> \E i \in 1..n : Cardinality(active[i]) > 1
      /\ ~so.failed => \E runs \in Seq(RunsOf(V)) :
           /\ Faithful(runs, active, n)
           /\ so.segments = Outline(runs)
           /\ so.adjacent <=> runs # <<>> /\ runs[Len(runs)].last = n

LEMMA SegmentInvStep ==
  ASSUME NEW a, NEW name, NEW so, NEW n \in Nat, file.releases \in Seq(Versions),
         n + 1 \in DOMAIN file.releases, SegmentInv(a, name, so, n),
         IsFiniteSet(Active(a, name)[n + 1])
  PROVE  SegmentInv(a, name, Segmented(so, Active(a, name)[n + 1], file.releases[n + 1]), n + 1)
<1> DEFINE active == Active(a, name)
           now == active[n + 1]
           v == file.releases[n + 1]
           V == UNION {active[i] : i \in DOMAIN active}
           next == Segmented(so, now, v)
<1> SUFFICES SegmentInv(a, name, next, n + 1)
  OBVIOUS
<1>1. /\ so = [segments |-> so.segments, adjacent |-> so.adjacent, failed |-> so.failed]
      /\ so.failed \in BOOLEAN /\ so.adjacent \in BOOLEAN
      /\ so.failed <=> \E i \in 1..n : Cardinality(active[i]) > 1
  BY DEF SegmentInv
<1>2. 1..(n + 1) = 1..n \cup {n + 1}
  OBVIOUS
<1>3. CASE so.failed
  <2>1. next = so
    BY <1>3 DEF Segmented
  <2> QED BY <1>1, <1>2, <1>3, <2>1 DEF SegmentInv
<1>4. CASE ~so.failed /\ Cardinality(now) > 1
  <2>1. next = [so EXCEPT !.failed = TRUE]
    BY <1>4 DEF Segmented
  <2>2. /\ next.failed = TRUE /\ next.adjacent = so.adjacent
        /\ next = [segments |-> next.segments, adjacent |-> next.adjacent,
                   failed |-> next.failed]
    <3> HIDE DEF next
    <3> QED BY <1>1, <2>1
  <2> HIDE DEF next
  <2> QED BY <1>1, <1>2, <1>4, <2>2 DEF SegmentInv
<1>5. CASE ~so.failed /\ ~(Cardinality(now) > 1)
  <2>1. PICK runs \in Seq(RunsOf(V)) :
          /\ Faithful(runs, active, n)
          /\ so.segments = Outline(runs)
          /\ so.adjacent <=> runs # <<>> /\ runs[Len(runs)].last = n
    BY <1>5 DEF SegmentInv
  <2>2. \A j \in DOMAIN runs : runs[j].last \in Nat /\ runs[j].last <= n
    <3>1. \A j \in DOMAIN runs : runs[j] \in RunsOf(V)
      OBVIOUS
    <3> QED BY <2>1, <3>1 DEF Faithful, InRange, RunsOf, Indexes
  <2>3. CASE now = {}
    <3>1. next = [so EXCEPT !.adjacent = FALSE]
      BY <1>5, <2>3 DEF Segmented
    <3>2. /\ next.failed = FALSE /\ next.adjacent = FALSE /\ next.segments = so.segments
          /\ next = [segments |-> next.segments, adjacent |-> next.adjacent,
                     failed |-> next.failed]
      <4> HIDE DEF next
      <4> QED BY <1>1, <1>5, <3>1
    <3>3. Faithful(runs, active, n + 1)
      <4> HIDE DEF active, V
      <4> QED BY <2>1, <2>3, SkippedFaithful
    <3>4. ~(runs # <<>> /\ runs[Len(runs)].last = n + 1)
      <4>1. runs # <<>> => Len(runs) \in DOMAIN runs
        OBVIOUS
      <4> QED BY <2>2, <4>1
    <3>5. ~\E i \in 1..(n + 1) : Cardinality(active[i]) > 1
      BY <1>1, <1>2, <1>5
    <3> HIDE DEF next
    <3> QED BY <2>1, <3>2, <3>3, <3>4, <3>5 DEF SegmentInv
  <2>4. CASE now # {}
    <3> DEFINE facts == CHOOSE facts \in now : TRUE
               last == so.segments[Len(so.segments)]
               r == Coalesced(runs, n + 1, facts)
               Extends == /\ runs # <<>>
                          /\ runs[Len(runs)].last + 1 = n + 1
                          /\ runs[Len(runs)].value = facts
    <3>1. facts \in now /\ now = {facts}
      BY <1>5, <2>4, CardinalityAtMostOne
    <3>2. facts \in V
      BY <3>1 DEF Active
    <3> HIDE DEF facts
    <3>3. so.adjacent /\ so.segments # <<>> /\ last.facts = facts <=> Extends
      <4>1. Len(runs) \in Nat /\ Len(Outline(runs)) = Len(runs)
        BY DEF Outline
      <4>2. runs # <<>> => /\ Len(runs) \in 1..Len(runs)
                           /\ runs[Len(runs)].last \in Nat
        BY <2>2
      <4>3. runs # <<>> <=> so.segments # <<>>
        BY <2>1, <4>1
      <4>4. runs # <<>> => last.facts = runs[Len(runs)].value
        BY <2>1, <4>1, <4>2 DEF Outline
      <4>5. runs # <<>> => (runs[Len(runs)].last + 1 = n + 1 <=> runs[Len(runs)].last = n)
        BY <4>2
      <4> QED BY <2>1, <4>3, <4>4, <4>5
    <3>4. Outline(r) = IF Extends THEN Extended(so.segments, v)
                       ELSE Started(so.segments, facts, v)
      BY <2>1, OutlineCoalesced
    <3>5. /\ Faithful(r, active, n + 1)
          /\ r \in Seq(RunsOf(V))
      <4>1. active[n + 1] = {facts} /\ n + 1 \in Indexes
        BY <3>1 DEF Indexes
      <4> HIDE DEF active, V
      <4>2. Faithful(r, active, n + 1)
        BY <2>1, <4>1, CoalescedFaithful
      <4>3. r \in Seq(RunsOf(V))
        BY <2>1, <3>2, <4>1, CoalescedType
      <4> QED BY <4>2, <4>3
    <3>6. r # <<>> /\ r[Len(r)].last = n + 1
      <4>1. CASE Extends
        <5>1. r = [runs EXCEPT ![Len(runs)].last = n + 1]
          BY <4>1 DEF Coalesced
        <5>2. Len(runs) \in DOMAIN runs /\ runs[Len(runs)] \in RunsOf(V)
          BY <4>1
        <5>3. Len(r) = Len(runs) /\ r[Len(runs)].last = n + 1
          BY <5>1, <5>2 DEF RunsOf
        <5> QED BY <5>2, <5>3
      <4>2. CASE ~Extends
        <5>1. r = Append(runs, [first |-> n + 1, last |-> n + 1, value |-> facts])
          BY <4>2 DEF Coalesced
        <5> QED BY <5>1
      <4> QED BY <4>1, <4>2
    <3>7. ~\E i \in 1..(n + 1) : Cardinality(active[i]) > 1
      BY <1>1, <1>2, <1>5
    <3>8. next = IF so.adjacent /\ so.segments # <<>> /\ last.facts = facts
                 THEN [so EXCEPT !.segments = Extended(@, v)]
                 ELSE [so EXCEPT !.adjacent = TRUE, !.segments = Started(@, facts, v)]
      <4>1. facts = CHOOSE x \in now : TRUE
        BY DEF facts
      <4> HIDE DEF now, v
      <4> QED BY <1>5, <2>4, <4>1 DEF Segmented
    <3>9. /\ next.failed = FALSE /\ next.adjacent = TRUE /\ next.segments = Outline(r)
          /\ next = [segments |-> next.segments, adjacent |-> next.adjacent,
                     failed |-> next.failed]
      <4> HIDE DEF next, last, r
      <4>1. CASE Extends
        <5> HIDE DEF Extends
        <5>1. next = [so EXCEPT !.segments = Outline(r)]
          BY <3>3, <3>4, <3>8, <4>1
        <5>2. so.adjacent = TRUE
          BY <1>1, <3>3, <4>1
        <5> QED BY <1>1, <1>5, <5>1, <5>2
      <4>2. CASE ~Extends
        <5> HIDE DEF Extends
        <5>1. next = [so EXCEPT !.adjacent = TRUE, !.segments = Outline(r)]
          BY <3>3, <3>4, <3>8, <4>2
        <5> QED BY <1>1, <1>5, <5>1
      <4> QED BY <4>1, <4>2
    <3> HIDE DEF next, r
    <3> QED BY <3>5, <3>6, <3>7, <3>9 DEF SegmentInv
  <2> QED BY <2>3, <2>4
<1> QED BY <1>3, <1>4, <1>5

(* The entries a name ever had in the file are those it had in the sources.   *)
LEMMA CarriersAreNamed ==
  ASSUME TypeOK, MergeInv, FileInv, file # None, NEW name \in Names
  PROVE  EverNamed(name) = Carriers(name)
<1>1. ASSUME NEW v \in Described, NEW c \in cube[v]
      PROVE  c.opcode \in Carriers(c.name)
  <2> DEFINE runs == file.commands[c.opcode]["name"]
  <2>1. RunAt(runs, v) \in DOMAIN runs /\ RunAt(runs, v) # 0 /\ ValueAt(runs, v) = c["name"]
    BY StatedIsFound DEF Facts
  <2>2. runs[RunAt(runs, v)].value = c.name
    BY <2>1 DEF ValueAt
  <2>3. c.opcode \in Opcodes
    BY StatedIsFound
  <2> QED BY <2>1, <2>2, <2>3 DEF Carriers, Carries
<1>2. ASSUME NEW op \in Carriers(name)
      PROVE  \E v \in Described : \E c \in cube[v] : c.opcode = op /\ c.name = name
  <2>1. op \in Opcodes /\ Grounded(op, "name")
    BY DEF Carriers, FileInv, Facts
  <2>2. PICK j \in DOMAIN file.commands[op]["name"] :
               file.commands[op]["name"][j].value = name
    BY DEF Carriers, Carries
  <2> QED BY <2>1, <2>2 DEF Grounded
<1>3. EverNamed(name) \subseteq Carriers(name)
  BY <1>1 DEF EverNamed
<1>4. Carriers(name) \subseteq EverNamed(name)
  BY <1>2 DEF EverNamed
<1> QED BY <1>3, <1>4

(* The commands of a release that ever had the name, and their facts.         *)
Named(name, v) == {c \in cube[v] : c.opcode \in EverNamed(name)}

FactsOf(a, c, v) ==
  [profiles |-> RunAt(file.commands[c.opcode]["profiles"], v),
   entry |-> ActiveCommand(a, c.opcode, v)]

LEMMA ActiveAreNamed ==
  ASSUME TypeOK, MergeInv, FileInv, file # None, NEW a, NEW name \in Names,
         NEW v \in Described
  PROVE  /\ IsFiniteSet(Named(name, v))
         /\ IsFiniteSet(ActiveEntries(a, name, v))
         /\ ActiveEntries(a, name, v) = {FactsOf(a, c, v) : c \in Named(name, v)}
         /\ \A c, d \in Named(name, v) : FactsOf(a, c, v) = FactsOf(a, d, v) => c = d
<1> DEFINE named == Named(name, v)
           defined == {op \in Carriers(name) : Defined(op, v)}
<1>1. \A c, d \in named : c.opcode = d.opcode => c = d
  BY DEF Named, FileInv
<1>2. defined = {c.opcode : c \in named}
  <2>1. \A c \in cube[v] : c.opcode \in Opcodes /\ Defined(c.opcode, v)
    BY StatedIsFound DEF Defined, DefinitionAt, Facts
  <2>2. \A op \in Opcodes : Defined(op, v) => \E c \in cube[v] : c.opcode = op
    BY LackingIsUndefined DEF Defined, DefinitionAt, Facts
  <2> QED BY <2>1, <2>2, CarriersAreNamed DEF Named, Carriers
<1>3. IsFiniteSet(defined)
  BY OpcodeAssumption, FS_Subset DEF Carriers
<1>4. IsFiniteSet(named)
  <2> DEFINE f == [c \in named |-> c.opcode]
  <2>1. f \in Injection(named, defined)
    BY <1>1, <1>2 DEF Injection, IsInjective
  <2> QED BY <1>3, <2>1, FS_Injection
<1>5. ActiveEntries(a, name, v) = {FactsOf(a, c, v) : c \in named}
  <2>1. ActiveEntries(a, name, v) =
          {[profiles |-> RunAt(file.commands[op]["profiles"], v),
            entry |-> ActiveCommand(a, op, v)] : op \in defined}
    BY DEF ActiveEntries
  <2> HIDE DEF defined, named
  <2> QED BY <1>2, <2>1 DEF FactsOf
<1>6. IsFiniteSet({FactsOf(a, c, v) : c \in named})
  <2> HIDE DEF named
  <2>1. [c \in named |-> FactsOf(a, c, v)] \in
          Surjection(named, {FactsOf(a, c, v) : c \in named})
    BY DEF Surjection
  <2> QED BY <1>4, <2>1, FS_Surjection
<1>7. ASSUME NEW c \in named, NEW d \in named, FactsOf(a, c, v) = FactsOf(a, d, v)
      PROVE  c = d
  <2>1. /\ FactsOf(a, c, v).entry.command = c.opcode
        /\ FactsOf(a, d, v).entry.command = d.opcode
    BY DEF FactsOf, ActiveCommand
  <2> QED BY <1>1, <1>7, <2>1
<1> QED BY <1>4, <1>5, <1>6, <1>7

LEMMA SegmentsFaithful ==
  ASSUME TypeOK, MergeInv, FileInv, file # None, NEW a, NEW name \in Names
  PROVE  SegmentInv(a, name, Segments(a, name), Len(file.releases))
<1>1. file.releases \in Seq(Versions)
  BY DEF TypeOK, Catalogs
<1> DEFINE N == Len(file.releases)
<1>2. N \in Nat /\ DOMAIN file.releases = 1..N
  BY <1>1
<1>3. PICK f : /\ f[0] = SegmentStart
               /\ \A n \in 1..N :
                    f[n] = Segmented(f[n - 1], Active(a, name)[n], file.releases[n])
               /\ Segments(a, name) = f[N]
  BY <1>1, SegmentsRecursion
<1> DEFINE S == {n \in Nat : n <= N => SegmentInv(a, name, f[n], n)}
<1>4. 0 \in S
  <2> DEFINE V == UNION {Active(a, name)[i] : i \in DOMAIN Active(a, name)}
  <2>1. Outline(<<>>) = <<>> /\ <<>> \in Seq(RunsOf(V))
    BY DEF Outline
  <2>2. Faithful(<<>>, Active(a, name), 0)
    BY EmptyFaithful
  <2>3. /\ f[0] = [segments |-> f[0].segments, adjacent |-> f[0].adjacent,
                   failed |-> f[0].failed]
        /\ f[0].segments = <<>> /\ f[0].adjacent = FALSE /\ f[0].failed = FALSE
    BY <1>3 DEF SegmentStart
  <2>4. ~\E i \in 1..0 : Cardinality(Active(a, name)[i]) > 1
    OBVIOUS
  <2>5. \E runs \in Seq(RunsOf(V)) :
          /\ Faithful(runs, Active(a, name), 0)
          /\ f[0].segments = Outline(runs)
          /\ f[0].adjacent <=> runs # <<>> /\ runs[Len(runs)].last = 0
    <3> HIDE DEF V
    <3> QED BY <2>1, <2>2, <2>3
  <2>6. SegmentInv(a, name, f[0], 0)
    <3> DEFINE so == f[0]
    <3> HIDE DEF so
    <3> QED BY <2>3, <2>4, <2>5 DEF SegmentInv, so
  <2> QED BY <2>6
<1>5. ASSUME NEW n \in Nat, n \in S PROVE n + 1 \in S
  <2> SUFFICES ASSUME n + 1 <= N PROVE SegmentInv(a, name, f[n + 1], n + 1)
    OBVIOUS
  <2>1. SegmentInv(a, name, f[n], n) /\ n + 1 \in 1..N /\ n + 1 - 1 = n
    BY <1>2, <1>5
  <2>2. IsFiniteSet(Active(a, name)[n + 1])
    <3>1. file.releases[n + 1] \in Described
      BY <1>2, <2>1 DEF Described, ToSet
    <3> QED BY <1>2, <2>1, <3>1, ActiveAreNamed DEF Active
  <2>3. f[n + 1] = Segmented(f[n], Active(a, name)[n + 1], file.releases[n + 1])
    BY <1>3, <2>1
  <2> QED BY <1>1, <1>2, <2>1, <2>2, <2>3, SegmentInvStep
<1>6. N \in S
  <2> HIDE DEF S, N
  <2> QED BY <1>2, <1>4, <1>5, SetInduction
<1> QED BY <1>2, <1>3, <1>6

LEMMA FileOrder ==
  ASSUME TypeOK, FileInv, file # None,
         NEW i \in DOMAIN file.releases, NEW j \in DOMAIN file.releases
  PROVE  file.releases[i] <= file.releases[j] <=> i <= j
<1>1. file.releases \in Seq(Versions)
  BY DEF TypeOK, Catalogs
<1>2. i \in Nat /\ j \in Nat /\ file.releases[i] \in Nat /\ file.releases[j] \in Nat
  <2>1. DOMAIN file.releases = 1..Len(file.releases) /\ Len(file.releases) \in Nat
    BY <1>1
  <2>2. file.releases[i] \in Versions /\ file.releases[j] \in Versions
    BY <1>1, <2>1
  <2>3. i \in Nat /\ j \in Nat
    BY <2>1
  <2>4. file.releases[i] \in Nat /\ file.releases[j] \in Nat
    BY <2>2, VersionAssumption
  <2> QED BY <2>3, <2>4
<1>3. /\ i < j => file.releases[i] < file.releases[j]
      /\ j < i => file.releases[j] < file.releases[i]
  BY DEF FileInv, Ascending
<1> QED BY <1>2, <1>3

(* A segment holds a release whose index its run holds.                       *)
LEMMA OutlineHolds ==
  ASSUME TypeOK, FileInv, file # None, NEW V, NEW runs \in Seq(RunsOf(V)),
         InRange(runs, Len(file.releases)), NEW i \in DOMAIN file.releases,
         NEW j \in 1..Len(runs)
  PROVE  /\ runs[j].first \in DOMAIN file.releases
         /\ runs[j].last \in DOMAIN file.releases
         /\ Outline(runs)[j].facts = runs[j].value
         /\ Outline(runs)[j].first = file.releases[runs[j].first]
         /\ Outline(runs)[j].last = file.releases[runs[j].last]
         /\ Holds(Outline(runs)[j], file.releases[i]) <=> i \in runs[j].first..runs[j].last
<1> DEFINE N == Len(file.releases)
<1>1. file.releases \in Seq(Versions)
  BY DEF TypeOK, Catalogs
<1>2. N \in Nat /\ DOMAIN file.releases = 1..N
  BY <1>1
<1>3. j \in DOMAIN runs
  OBVIOUS
<1>4. runs[j] \in RunsOf(V)
  BY <1>3
<1>5. runs[j].first \in 1..N /\ runs[j].last \in runs[j].first..N
  BY <1>3 DEF InRange
<1>6. runs[j].first \in DOMAIN file.releases /\ runs[j].last \in DOMAIN file.releases
  BY <1>2, <1>4, <1>5 DEF RunsOf, Indexes
<1>7. /\ Outline(runs)[j].facts = runs[j].value
      /\ Outline(runs)[j].first = file.releases[runs[j].first]
      /\ Outline(runs)[j].last = file.releases[runs[j].last]
  BY DEF Outline
<1>8. /\ file.releases[runs[j].first] <= file.releases[i] <=> runs[j].first <= i
      /\ file.releases[i] <= file.releases[runs[j].last] <=> i <= runs[j].last
  BY <1>6, FileOrder
<1>9. i \in Nat /\ runs[j].first \in Nat /\ runs[j].last \in Nat
  BY <1>2, <1>6
<1> QED BY <1>6, <1>7, <1>8, <1>9 DEF Holds

(* The facts of an entry, resolved, are what its sources and the annotations  *)
(* say of it.                                                                 *)
LEMMA FactsResolved ==
  ASSUME TypeOK, MergeInv, FileInv, file # None, NEW a, NEW v \in Described,
         NEW c \in cube[v]
  PROVE  /\ ResolvedEntry(a, FactsOf(a, c, v)) = Resolved(a, c, v)
         /\ FactsOf(a, c, v).entry.excluded = ExclusionFor(a, c.name, v)
<1> DEFINE op == c.opcode
           lay == LayoutFor(a, c.name, v)
           facts == FactsOf(a, c, v)
<1>1. ValueAt(file.commands[op]["name"], v) = c.name
  BY StatedIsFound DEF Facts
<1>2. /\ file.commands[op]["name"][RunAt(file.commands[op]["name"], v)].value = c.name
      /\ file.commands[op]["profiles"][RunAt(file.commands[op]["profiles"], v)].value = c.profiles
      /\ file.commands[op]["definition"][DefinitionAt(op, v)].value = c.definition
  BY StatedIsFound DEF Facts, DefinitionAt, ValueAt
<1>3. /\ facts.profiles = RunAt(file.commands[op]["profiles"], v)
      /\ facts.entry.command = op
      /\ facts.entry.name = RunAt(file.commands[op]["name"], v)
      /\ facts.entry.definition = DefinitionAt(op, v)
      /\ facts.entry.layout = lay
      /\ facts.entry.excluded = ExclusionFor(a, c.name, v)
  BY <1>1 DEF FactsOf, ActiveCommand
<1>4. c \in Commands
  BY StatedIsFound
<1> HIDE DEF facts, lay
<1>5. ResolvedEntry(a, facts) =
        [opcode |-> op, name |-> c.name, profiles |-> c.profiles,
         definition |-> IF lay # 0 THEN a[lay].layout ELSE c.definition]
  BY <1>2, <1>3 DEF ResolvedEntry
<1>6. Resolved(a, c, v) =
        [opcode |-> op, name |-> c.name, profiles |-> c.profiles,
         definition |-> IF lay # 0 THEN a[lay].layout ELSE c.definition]
  BY <1>4 DEF Resolved, Commands, lay
<1> QED BY <1>3, <1>5, <1>6 DEF facts

LEMMA SegmentsOf ==
  ASSUME TypeOK, MergeInv, FileInv, file # None, NEW a, NEW name \in Names
  PROVE  LET so == Segments(a, name)
             segments == so.segments
             around(v) == {n \in DOMAIN segments : Holds(segments[n], v)}
         IN  /\ so.failed <=> \E v \in Described : Cardinality(Named(name, v)) > 1
             /\ ~so.failed =>
                  /\ \A v \in Described :
                       /\ Cardinality(around(v)) = Cardinality(Named(name, v))
                       /\ \A n \in around(v) : \A c \in Named(name, v) :
                            /\ ResolvedEntry(a, segments[n].facts) = Resolved(a, c, v)
                            /\ segments[n].facts.entry.excluded = ExclusionFor(a, c.name, v)
                  /\ \A n \in 1..(Len(segments) - 1) :
                       segments[n].facts = segments[n + 1].facts =>
                         \E v \in Described : /\ segments[n].last < v
                                              /\ v < segments[n + 1].first
<1> DEFINE so == Segments(a, name)
           segments == so.segments
           around(v) == {n \in DOMAIN segments : Holds(segments[n], v)}
           active == Active(a, name)
           N == Len(file.releases)
           V == UNION {active[i] : i \in DOMAIN active}
<1>1. SegmentInv(a, name, so, N)
  BY SegmentsFaithful
<1>2. N \in Nat /\ DOMAIN file.releases = 1..N
  BY DEF TypeOK, Catalogs
<1>3. \A v \in Described : \E i \in 1..N : v = file.releases[i]
  BY <1>2 DEF Described, ToSet
<1>4. \A i \in 1..N : file.releases[i] \in Described
  BY <1>2 DEF Described, ToSet
<1>5. \A i \in 1..N : active[i] = ActiveEntries(a, name, file.releases[i])
  BY <1>2 DEF Active
<1>6. \A v \in Described :
        /\ Cardinality(ActiveEntries(a, name, v)) > 1 <=> Cardinality(Named(name, v)) > 1
        /\ ActiveEntries(a, name, v) = {} <=> Named(name, v) = {}
  <2> SUFFICES ASSUME NEW v \in Described
               PROVE  /\ Cardinality(ActiveEntries(a, name, v)) > 1
                           <=> Cardinality(Named(name, v)) > 1
                      /\ ActiveEntries(a, name, v) = {} <=> Named(name, v) = {}
    OBVIOUS
  <2>1. /\ IsFiniteSet(Named(name, v)) /\ IsFiniteSet(ActiveEntries(a, name, v))
        /\ ActiveEntries(a, name, v) = {FactsOf(a, c, v) : c \in Named(name, v)}
        /\ \A c, d \in Named(name, v) : FactsOf(a, c, v) = FactsOf(a, d, v) => c = d
    BY ActiveAreNamed
  <2> QED BY <2>1, CardinalityAtMostOne
<1>7. so.failed <=> \E v \in Described : Cardinality(Named(name, v)) > 1
  <2>1. so.failed <=> \E i \in 1..N : Cardinality(active[i]) > 1
    BY <1>1 DEF SegmentInv
  <2> HIDE DEF so, active
  <2> QED BY <1>3, <1>4, <1>5, <1>6, <2>1
<1>8. ASSUME ~so.failed
      PROVE  /\ \A v \in Described :
                  /\ Cardinality(around(v)) = Cardinality(Named(name, v))
                  /\ \A n \in around(v) : \A c \in Named(name, v) :
                       /\ ResolvedEntry(a, segments[n].facts) = Resolved(a, c, v)
                       /\ segments[n].facts.entry.excluded = ExclusionFor(a, c.name, v)
             /\ \A n \in 1..(Len(segments) - 1) :
                  segments[n].facts = segments[n + 1].facts =>
                    \E v \in Described : /\ segments[n].last < v
                                         /\ v < segments[n + 1].first
  <2>1. PICK runs \in Seq(RunsOf(V)) :
          /\ Faithful(runs, active, N)
          /\ segments = Outline(runs)
    BY <1>1, <1>8 DEF SegmentInv
  <2>2. /\ InRange(runs, N) /\ RunsInOrder(runs) /\ Stated(runs, active)
        /\ Complete(runs, active, N) /\ Maximal(runs)
    BY <2>1 DEF Faithful
  <2>3. /\ Len(runs) \in Nat /\ DOMAIN runs = 1..Len(runs)
        /\ DOMAIN segments = 1..Len(runs) /\ Len(segments) = Len(runs)
    BY <2>1 DEF Outline
  <2>4. \A j \in 1..Len(runs) :
          /\ runs[j].first \in 1..N
          /\ runs[j].last \in 1..N
          /\ segments[j].facts = runs[j].value
          /\ segments[j].first = file.releases[runs[j].first]
          /\ segments[j].last = file.releases[runs[j].last]
          /\ \A i \in 1..N :
               Holds(segments[j], file.releases[i]) <=> i \in runs[j].first..runs[j].last
    <3> HIDE DEF V
    <3> SUFFICES ASSUME NEW j \in 1..Len(runs)
                 PROVE  /\ runs[j].first \in 1..N
                        /\ runs[j].last \in 1..N
                        /\ segments[j].facts = runs[j].value
                        /\ segments[j].first = file.releases[runs[j].first]
                        /\ segments[j].last = file.releases[runs[j].last]
                        /\ \A i \in 1..N : Holds(segments[j], file.releases[i])
                                             <=> i \in runs[j].first..runs[j].last
      OBVIOUS
    <3>1. runs[j].first \in DOMAIN file.releases
      BY <1>2, <2>2, <2>3 DEF InRange
    <3>2. /\ runs[j].last \in DOMAIN file.releases
          /\ Outline(runs)[j].facts = runs[j].value
          /\ Outline(runs)[j].first = file.releases[runs[j].first]
          /\ Outline(runs)[j].last = file.releases[runs[j].last]
      BY <2>2, <3>1, OutlineHolds
    <3>3. \A i \in DOMAIN file.releases : Holds(Outline(runs)[j], file.releases[i])
                                            <=> i \in runs[j].first..runs[j].last
      BY <2>2, OutlineHolds
    <3> QED BY <1>2, <2>1, <3>1, <3>2, <3>3
  <2> HIDE DEF V, so, active, N
  <2>5. ASSUME NEW v \in Described
        PROVE  /\ Cardinality(around(v)) = Cardinality(Named(name, v))
               /\ \A n \in around(v) : \A c \in Named(name, v) :
                    /\ ResolvedEntry(a, segments[n].facts) = Resolved(a, c, v)
                    /\ segments[n].facts.entry.excluded = ExclusionFor(a, c.name, v)
    <3>1. PICK i \in 1..N : v = file.releases[i]
      BY <1>3
    <3>2. around(v) = {j \in 1..Len(runs) : i \in runs[j].first..runs[j].last}
      BY <2>3, <2>4, <3>1
    <3>3. \A j \in around(v) : active[i] = {segments[j].facts}
      BY <2>2, <2>3, <2>4, <3>2 DEF Stated
    <3>4. active[i] # {} => around(v) # {}
      BY <2>2, <2>3, <3>2 DEF Complete
    <3>5. \A j, l \in around(v) : j = l
      <4>1. \A j, l \in around(v) : ~(j < l)
        <5> SUFFICES ASSUME NEW j \in around(v), NEW l \in around(v), j < l PROVE FALSE
          OBVIOUS
        <5>1. runs[j].last < runs[l].first
          BY <2>2, <2>3, <3>2 DEF RunsInOrder
        <5>2. /\ runs[j].last \in Nat /\ runs[l].first \in Nat /\ i \in Nat
              /\ runs[l].first <= i /\ i <= runs[j].last
          BY <1>2, <2>4, <3>2
        <5> QED BY <5>1, <5>2
      <4>2. around(v) \subseteq Nat
        BY <2>3, <3>2
      <4> HIDE DEF around
      <4> QED BY <4>1, <4>2
    <3>6. active[i] = ActiveEntries(a, name, v)
      BY <1>5, <3>1
    <3>7. /\ IsFiniteSet(Named(name, v))
          /\ active[i] = {FactsOf(a, c, v) : c \in Named(name, v)}
      BY <3>6, ActiveAreNamed
    <3>8. ~(Cardinality(Named(name, v)) > 1)
      BY <1>7, <1>8
    <3>9. \A c, d \in Named(name, v) : c = d
      BY <3>7, <3>8, CardinalityAtMostOne
    <3>10. around(v) # {} <=> Named(name, v) # {}
      <4>1. active[i] = {} <=> Named(name, v) = {}
        BY <3>7
      <4> HIDE DEF around
      <4> QED BY <3>3, <3>4, <4>1
    <3>11. Cardinality(around(v)) = Cardinality(Named(name, v))
      <4> HIDE DEF around
      <4>1. /\ Cardinality(around(v)) \in Nat /\ Cardinality(around(v)) <= 1
            /\ Cardinality(around(v)) = 1 <=> around(v) # {}
        BY <3>5, SingletonCardinality, CardinalityAtMostOne
      <4>2. /\ Cardinality(Named(name, v)) \in Nat /\ Cardinality(Named(name, v)) <= 1
            /\ Cardinality(Named(name, v)) = 1 <=> Named(name, v) # {}
        BY <3>9, SingletonCardinality, CardinalityAtMostOne
      <4> QED BY <3>10, <4>1, <4>2
    <3>12. ASSUME NEW n \in around(v), NEW c \in Named(name, v)
           PROVE  /\ ResolvedEntry(a, segments[n].facts) = Resolved(a, c, v)
                  /\ segments[n].facts.entry.excluded = ExclusionFor(a, c.name, v)
      <4>1. segments[n].facts = FactsOf(a, c, v)
        BY <3>3, <3>7
      <4>2. c \in cube[v]
        BY DEF Named
      <4> QED BY <4>1, <4>2, FactsResolved
    <3> QED BY <3>11, <3>12
  <2>6. ASSUME NEW n \in 1..(Len(segments) - 1), segments[n].facts = segments[n + 1].facts
        PROVE  \E v \in Described : segments[n].last < v /\ v < segments[n + 1].first
    <3>1. n \in 1..Len(runs) /\ n + 1 \in 1..Len(runs)
      BY <2>3
    <3>2. runs[n].last + 1 < runs[n + 1].first
      BY <1>2, <2>2, <2>3, <2>4, <2>6, <3>1 DEF Maximal
    <3> DEFINE l == runs[n].last
               f == runs[n + 1].first
    <3>3. l \in 1..N /\ f \in 1..N /\ l + 1 < f
      BY <2>4, <3>1, <3>2
    <3>4. /\ segments[n].last = file.releases[l]
          /\ segments[n + 1].first = file.releases[f]
      BY <2>4, <3>1
    <3> HIDE DEF l, f
    <3>5. l + 1 \in 1..N
      BY <1>2, <3>3
    <3>6. file.releases[l] < file.releases[l + 1] /\ file.releases[l + 1] < file.releases[f]
      BY <1>2, <3>3, <3>5 DEF FileInv, Ascending
    <3> QED BY <1>4, <3>4, <3>5, <3>6
  <2> QED BY <2>5, <2>6
<1> QED BY <1>7, <1>8

LEMMA SegmentsHold ==
  ASSUME TypeOK, MergeInv, FileInv PROVE SegmentsExact
<1> SUFFICES ASSUME Published, NEW a \in Audited, NEW name \in Names
             PROVE  LET so == Segments(a, name)
                        segments == so.segments
                        around(v) == {n \in DOMAIN segments : Holds(segments[n], v)}
                    IN  /\ so.failed <=> \E v \in Described : Cardinality(Named(name, v)) > 1
                        /\ ~so.failed =>
                             /\ \A v \in Described :
                                  /\ Cardinality(around(v)) = Cardinality(Named(name, v))
                                  /\ \A n \in around(v) : \A c \in Named(name, v) :
                                       /\ ResolvedEntry(a, segments[n].facts) = Resolved(a, c, v)
                                       /\ segments[n].facts.entry.excluded =
                                            ExclusionFor(a, c.name, v)
                             /\ \A n \in 1..(Len(segments) - 1) :
                                  segments[n].facts = segments[n + 1].facts =>
                                    \E v \in Described : /\ segments[n].last < v
                                                         /\ v < segments[n + 1].first
  BY DEF SegmentsExact, Named
<1> QED BY SegmentsOf DEF Published

(* The variants a name compiles to are its history, for any releases,         *)
(* opcodes, names and annotations.                                            *)
THEOREM CatalogSegmentsExact == Spec => []SegmentsExact
BY FileInvariant, SegmentsHold, PTL


-------------------------------------------------------------------------------
(* What the macros read in the segments of a name, for a target: the command  *)
(* of the target's own sources that ever had the name, if it has one.         *)
Reads(a, segment, c, v) ==
  /\ segment.facts.entry.command = c.opcode
  /\ file.commands[c.opcode]["profiles"][segment.facts.profiles].value = c.profiles
  /\ ResolvedEntry(a, segment.facts) = Resolved(a, c, v)
  /\ segment.facts.entry.excluded = ExclusionFor(a, c.name, v)

LEMMA OutlinedSegments ==
  ASSUME TypeOK, MergeInv, FileInv, file # None, NEW a, NEW name \in Names,
         ~Segments(a, name).failed
  PROVE  LET segments == Segments(a, name).segments
         IN  /\ IsFiniteSet(DOMAIN segments)
             /\ \A n \in DOMAIN segments :
                  segments[n].first \in Described /\ Holds(segments[n], segments[n].first)
<1> DEFINE so == Segments(a, name)
           segments == so.segments
           active == Active(a, name)
           N == Len(file.releases)
           V == UNION {active[i] : i \in DOMAIN active}
<1>1. PICK runs \in Seq(RunsOf(V)) : InRange(runs, N) /\ segments = Outline(runs)
  BY SegmentsFaithful DEF SegmentInv, Faithful
<1>2. DOMAIN segments = 1..Len(runs) /\ Len(runs) \in Nat /\ DOMAIN runs = 1..Len(runs)
  BY <1>1 DEF Outline
<1>3. IsFiniteSet(DOMAIN segments)
  BY <1>2, FS_Interval
<1>4. ASSUME NEW n \in DOMAIN segments
      PROVE  segments[n].first \in Described /\ Holds(segments[n], segments[n].first)
  <2> HIDE DEF V, segments
  <2>1. n \in 1..Len(runs)
    BY <1>2
  <2>2. runs[n].first \in DOMAIN file.releases /\ runs[n].first \in runs[n].first..runs[n].last
    <3>1. /\ runs[n].first \in 1..N /\ runs[n].last \in runs[n].first..N
          /\ N \in Nat /\ DOMAIN file.releases = 1..N
      BY <1>1, <1>2, <2>1 DEF InRange, TypeOK, Catalogs
    <3> QED BY <3>1
  <2>3. /\ segments[n].first = file.releases[runs[n].first]
        /\ Holds(segments[n], file.releases[runs[n].first])
    BY <1>1, <2>1, <2>2, OutlineHolds
  <2> QED BY <2>2, <2>3 DEF Described, ToSet
<1> QED BY <1>3, <1>4

LEMMA SegmentReads ==
  ASSUME TypeOK, MergeInv, FileInv, file # None, NEW a, NEW name \in Names,
         ~Segments(a, name).failed, NEW v \in Described
  PROVE  LET here == {segment \in Range(Segments(a, name).segments) : Holds(segment, v)}
         IN  /\ \A c, d \in Named(name, v) : c = d
             /\ Named(name, v) # {} => here # {}
             /\ here # {} => Named(name, v) # {}
             /\ \A segment \in here, c \in Named(name, v) : Reads(a, segment, c, v)
<1> DEFINE segments == Segments(a, name).segments
           around == {n \in DOMAIN segments : Holds(segments[n], v)}
           here == {segment \in Range(segments) : Holds(segment, v)}
<1>1. /\ ~(Cardinality(Named(name, v)) > 1)
      /\ Cardinality(around) = Cardinality(Named(name, v))
      /\ \A n \in around : \A c \in Named(name, v) :
           /\ ResolvedEntry(a, segments[n].facts) = Resolved(a, c, v)
           /\ segments[n].facts.entry.excluded = ExclusionFor(a, c.name, v)
  BY SegmentsOf
<1>2. IsFiniteSet(Named(name, v))
  BY ActiveAreNamed
<1>3. \A c, d \in Named(name, v) : c = d
  BY <1>1, <1>2, CardinalityAtMostOne
<1>4. IsFiniteSet(around)
  <2>1. IsFiniteSet(DOMAIN segments)
    BY OutlinedSegments
  <2> HIDE DEF segments
  <2> QED BY <2>1, FS_Subset
<1>5. around = {} <=> Named(name, v) = {}
  <2> HIDE DEF around
  <2> QED BY <1>1, <1>2, <1>4, FS_EmptySet
<1>6. here = {segments[n] : n \in around}
  BY DEF Range
<1>7. ASSUME NEW segment \in here, NEW c \in Named(name, v) PROVE Reads(a, segment, c, v)
  <2>1. PICK n \in around : segment = segments[n]
    BY <1>6
  <2>2. /\ ResolvedEntry(a, segment.facts) = Resolved(a, c, v)
        /\ segment.facts.entry.excluded = ExclusionFor(a, c.name, v)
    BY <1>1, <2>1
  <2>3. c \in Commands
    BY StatedIsFound DEF Named
  <2>4. Resolved(a, c, v).opcode = c.opcode /\ Resolved(a, c, v).profiles = c.profiles
    BY <2>3 DEF Resolved, Commands
  <2>5. /\ ResolvedEntry(a, segment.facts).opcode = segment.facts.entry.command
        /\ ResolvedEntry(a, segment.facts).profiles =
             file.commands[segment.facts.entry.command]["profiles"][segment.facts.profiles].value
    BY DEF ResolvedEntry
  <2> QED BY <2>2, <2>4, <2>5 DEF Reads
<1> HIDE DEF around
<1> QED BY <1>3, <1>5, <1>6, <1>7

LEMMA SegmentsNamed ==
  ASSUME TypeOK, MergeInv, FileInv, file # None, NEW a, NEW name \in Names,
         ~Segments(a, name).failed, NEW segment \in Range(Segments(a, name).segments)
  PROVE  segment.facts.entry.command \in EverNamed(name)
<1> DEFINE segments == Segments(a, name).segments
<1>1. PICK n \in DOMAIN segments : segment = segments[n]
  BY DEF Range
<1>2. segment.first \in Described /\ Holds(segment, segment.first)
  BY <1>1, OutlinedSegments
<1>3. PICK c \in Named(name, segment.first) : Reads(a, segment, c, segment.first)
  BY <1>2, SegmentReads
<1> QED BY <1>3 DEF Reads, Named

LEMMA CataloguedNames ==
  ASSUME TypeOK, MergeInv, FileInv, file # None
  PROVE  /\ \A v \in Described : \A c \in cube[v] : c.opcode \in Catalogued
         /\ \A op \in Catalogued : LatestName(op) \in Names /\ op \in EverNamed(LatestName(op))
<1>1. ASSUME NEW v \in Described, NEW c \in cube[v] PROVE c.opcode \in Catalogued
  <2>1. c.opcode \in Opcodes /\ RunAt(file.commands[c.opcode]["name"], v)
                                  \in DOMAIN file.commands[c.opcode]["name"]
    BY StatedIsFound DEF Facts
  <2> QED BY <2>1 DEF Catalogued
<1>2. ASSUME NEW op \in Catalogued
      PROVE  LatestName(op) \in Names /\ op \in EverNamed(LatestName(op))
  <2> DEFINE runs == file.commands[op]["name"]
             j == Len(runs)
  <2>1. op \in Opcodes /\ runs # <<>>
    BY DEF Catalogued
  <2>2. runs \in Seq(Runs(Versions))
    BY <2>1 DEF TypeOK, Catalogs, Histories, Facts
  <2>3. j \in DOMAIN runs
    BY <2>1, <2>2
  <2>4. Grounded(op, "name")
    BY <2>1 DEF FileInv, Facts
  <2>5. PICK v \in Described : \E c \in cube[v] : c.opcode = op /\ runs[j].value = c["name"]
    BY <2>3, <2>4 DEF Grounded
  <2>6. PICK c \in cube[v] : c.opcode = op /\ runs[j].value = c.name
    BY <2>5
  <2>7. LatestName(op) = c.name
    BY <2>6 DEF LatestName, Last
  <2>8. c \in Commands
    BY StatedIsFound
  <2> QED BY <2>6, <2>7, <2>8 DEF EverNamed, Commands
<1> QED BY <1>1, <1>2

(* A segment that covers a target reads a command the target accepts.         *)
LEMMA AtReads ==
  ASSUME TypeOK, MergeInv, FileInv, file # None, NEW a, NEW name \in Names,
         ~Segments(a, name).failed, NEW t \in Targets,
         NEW segment \in At(AllSegments(a), name, t)
  PROVE  \E c \in Named(name, t.release) :
           t.profile \in c.profiles /\ Reads(a, segment, c, t.release)
<1>1. t.release \in Described
  BY DEF Targets
<1>2. segment \in Range(Segments(a, name).segments) /\ t \in SegmentTargets(segment)
  BY DEF At, AllSegments
<1>3. /\ Holds(segment, t.release)
      /\ t.profile \in
           file.commands[segment.facts.entry.command]["profiles"][segment.facts.profiles].value
  BY <1>2 DEF SegmentTargets
<1>4. PICK c \in Named(name, t.release) : Reads(a, segment, c, t.release)
  BY <1>1, <1>2, <1>3, SegmentReads
<1> QED BY <1>3, <1>4 DEF Reads

(* What the target's own sources and the annotations have it implement.       *)
Own(a, t) ==
  {c \in cube[t.release] :
     t.profile \in c.profiles /\ ExclusionFor(a, c.name, t.release) = 0}

LEMMA OwnMarked ==
  ASSUME TypeOK, MergeInv, FileInv, file # None, NEW a, NEW name \in Names,
         ~Segments(a, name).failed, NEW t \in Targets,
         NEW c \in Own(a, t), c.opcode \in EverNamed(name)
  PROVE  LET all == AllSegments(a)
             marker == LatestName(c.opcode)
         IN  /\ At(all, name, t) # {}
             /\ \A segment \in At(all, name, t) :
                  Reads(a, segment, c, t.release) /\ ~Excluded(segment)
             /\ marker \in DOMAIN Entries(all, name)
             /\ t \in Entries(all, name)[marker]
<1> DEFINE all == AllSegments(a)
           v == t.release
           marker == LatestName(c.opcode)
           counted == {s \in Range(all[name].segments) : ~Excluded(s)}
<1>1. v \in Described /\ c \in Named(name, v) /\ all[name] = Segments(a, name)
  BY DEF Targets, Own, Named, AllSegments
<1>2. ASSUME NEW segment \in At(all, name, t)
      PROVE  Reads(a, segment, c, v) /\ ~Excluded(segment)
  <2>1. segment \in Range(Segments(a, name).segments) /\ Holds(segment, v)
    BY <1>1 DEF At, SegmentTargets
  <2>2. Reads(a, segment, c, v)
    BY <1>1, <2>1, SegmentReads
  <2> QED BY <2>2 DEF Reads, Excluded, Own
<1>3. PICK s \in Range(Segments(a, name).segments) : Holds(s, v)
  BY <1>1, SegmentReads
<1>4. Reads(a, s, c, v)
  BY <1>1, <1>3, SegmentReads
<1>5. s \in At(all, name, t)
  BY <1>1, <1>3, <1>4 DEF At, SegmentTargets, Reads, Own
<1>6. s \in counted /\ LatestIn(s) = marker /\ t \in SegmentTargets(s)
  BY <1>1, <1>2, <1>4, <1>5 DEF At, LatestIn, Reads
<1>7. Entries(all, name) = ByLatest(counted)
  BY DEF Entries
<1> HIDE DEF counted
<1>8. marker \in DOMAIN ByLatest(counted) /\ t \in ByLatest(counted)[marker]
  BY <1>6 DEF ByLatest, CoveredBy
<1> QED BY <1>2, <1>5, <1>7, <1>8

LEMMA MarkedOwn ==
  ASSUME TypeOK, MergeInv, FileInv, file # None, NEW a, NEW name \in Names,
         ~Segments(a, name).failed, NEW t \in Targets,
         NEW marker \in DOMAIN Entries(AllSegments(a), name),
         t \in Entries(AllSegments(a), name)[marker]
  PROVE  \E c \in Own(a, t) : c.opcode \in EverNamed(name) /\ LatestName(c.opcode) = marker
<1> DEFINE all == AllSegments(a)
           counted == {s \in Range(all[name].segments) : ~Excluded(s)}
<1>1. Entries(all, name) = ByLatest(counted)
  BY DEF Entries
<1>2. PICK s \in counted : LatestIn(s) = marker /\ t \in SegmentTargets(s)
  <2> HIDE DEF counted
  <2> QED BY <1>1 DEF ByLatest, CoveredBy
<1>3. s \in At(all, name, t)
  BY <1>2 DEF At
<1>4. PICK c \in Named(name, t.release) :
             t.profile \in c.profiles /\ Reads(a, s, c, t.release)
  BY <1>3, AtReads
<1>5. c \in Own(a, t)
  BY <1>2, <1>4 DEF Named, Own, Reads, Excluded
<1> QED BY <1>2, <1>4, <1>5 DEF Named, Reads, LatestIn

(* A marker of a name is the latest name of an entry that has had the name.   *)
LEMMA MarkersOf ==
  ASSUME TypeOK, MergeInv, FileInv, file # None, NEW a, NEW name \in Names,
         ~Segments(a, name).failed, NEW marker \in DOMAIN Entries(AllSegments(a), name)
  PROVE  \E op \in Catalogued : op \in EverNamed(name) /\ LatestName(op) = marker
<1> DEFINE counted == {s \in Range(AllSegments(a)[name].segments) : ~Excluded(s)}
<1>1. Entries(AllSegments(a), name) = ByLatest(counted)
  BY DEF Entries
<1>2. PICK s \in counted : LatestIn(s) = marker
  <2> HIDE DEF counted
  <2> QED BY <1>1 DEF ByLatest
<1>3. s \in Range(Segments(a, name).segments)
  BY <1>2 DEF AllSegments
<1>4. s.facts.entry.command \in EverNamed(name)
  BY <1>3, SegmentsNamed
<1>5. s.facts.entry.command \in Catalogued
  BY <1>4, CataloguedNames DEF EverNamed
<1> QED BY <1>2, <1>4, <1>5 DEF LatestIn

(* The loop over the entries goes through as many states.                     *)
LEMMA RequiredRecursion ==
  ASSUME NEW all
  PROVE  \E f : /\ f[0] = <<>>
                /\ \A n \in 1..Len(OpcodeOrder) :
                     f[n] = Demanded(all, f[n - 1], OpcodeOrder[n])
                /\ Required(all) = f[Len(OpcodeOrder)]
<1> DEFINE N == Len(OpcodeOrder)
           Step(f, n) == IF n = 0 THEN <<>> ELSE Demanded(all, f[n - 1], OpcodeOrder[n])
           S == {m \in Nat : \E f : f = [n \in 0..m |-> Step(f, n)]}
<1>1. 0 \in S
  <2> DEFINE f == [n \in 0..0 |-> <<>>]
  <2>1. f = [n \in 0..0 |-> Step(f, n)]
    OBVIOUS
  <2> QED BY <2>1
<1>2. ASSUME NEW m \in Nat, m \in S PROVE m + 1 \in S
  <2>1. PICK f : f = [n \in 0..m |-> Step(f, n)]
    BY <1>2
  <2> DEFINE last == Step(f, m + 1)
             g == [n \in 0..(m + 1) |-> IF n = m + 1 THEN last ELSE f[n]]
  <2>2. \A n \in 0..m : f[n] = Step(f, n)
    <3> HIDE DEF Step
    <3> QED BY <2>1
  <2>3. \A n \in 0..m : g[n] = f[n]
    OBVIOUS
  <2>4. g[m + 1] = last
    OBVIOUS
  <2> HIDE DEF g
  <2>5. ASSUME NEW n \in 0..(m + 1) PROVE g[n] = Step(g, n)
    <3>1. CASE n = m + 1
      <4>1. g[n - 1] = f[n - 1] /\ n # 0
        BY <2>3, <3>1
      <4> QED BY <2>4, <3>1, <4>1
    <3>2. CASE n # m + 1
      <4>1. n \in 0..m /\ (n # 0 => n - 1 \in 0..m)
        BY <3>2
      <4>2. g[n] = f[n] /\ (n # 0 => g[n - 1] = f[n - 1])
        BY <2>3, <4>1
      <4>3. f[n] = Step(f, n)
        BY <2>2, <4>1
      <4> QED BY <4>2, <4>3
    <3> QED BY <3>1, <3>2
  <2>6. g = [n \in 0..(m + 1) |-> g[n]]
    BY DEF g
  <2>7. g = [n \in 0..(m + 1) |-> Step(g, n)]
    <3> HIDE DEF Step
    <3> QED BY <2>5, <2>6
  <2> QED BY <2>7
<1>3. N \in Nat
  BY OrderAssumption
<1>4. N \in S
  <2> HIDE DEF S, N
  <2> QED BY <1>1, <1>2, <1>3, SetInduction
<1> DEFINE after == CHOOSE f : f = [n \in 0..N |-> Step(f, n)]
<1>5. after = [n \in 0..N |-> Step(after, n)]
  BY <1>4
<1>6. Required(all) = after[N]
  BY DEF Required
<1> HIDE DEF after
<1>7. after[0] = <<>>
  BY <1>3, <1>5
<1>8. ASSUME NEW n \in 1..N PROVE after[n] = Demanded(all, after[n - 1], OpcodeOrder[n])
  <2>1. n \in 0..N /\ n # 0
    BY <1>3
  <2>2. after[n] = Step(after, n)
    <3> HIDE DEF Step
    <3> QED BY <1>5, <2>1
  <2> QED BY <2>1, <2>2
<1> QED BY <1>6, <1>7, <1>8

(* After n entries, each marker required so far is so by a latest name that   *)
(* does not fail, wherever that name's entries are; and of those n entries    *)
(* the marker is required, unless its own name makes nothing of it.           *)
RequiredInv(all, required, n) ==
  required # None =>
    /\ \A marker \in DOMAIN required : \E name \in LatestNames :
         /\ ~Fails(all, name)
         /\ marker \in DOMAIN Entries(all, name)
         /\ Entries(all, name)[marker] \subseteq required[marker]
    /\ \A i \in 1..n : OpcodeOrder[i] \in Catalogued =>
         LET name == LatestName(OpcodeOrder[i])
         IN  \/ name \in DOMAIN required
             \/ ~Fails(all, name) /\ name \notin DOMAIN Entries(all, name)

LEMMA RequiredInvStep ==
  ASSUME NEW all, NEW required, NEW n \in Nat, RequiredInv(all, required, n)
  PROVE  RequiredInv(all, Demanded(all, required, OpcodeOrder[n + 1]), n + 1)
<1> DEFINE op == OpcodeOrder[n + 1]
           name == LatestName(op)
           now == Entries(all, name)
           next == Demanded(all, required, op)
<1> SUFFICES ASSUME next # None PROVE RequiredInv(all, next, n + 1)
  BY DEF RequiredInv
<1>1. required # None
  BY DEF Demanded
<1>2. \A i \in 1..(n + 1) : i \in 1..n \/ OpcodeOrder[i] = op
  OBVIOUS
<1>3. CASE op \notin Catalogued
  <2>1. next = required
    BY <1>3 DEF Demanded
  <2> HIDE DEF next, op
  <2> QED BY <1>2, <1>3, <2>1 DEF RequiredInv
<1>4. CASE op \in Catalogued /\ name \in DOMAIN required
  <2>1. next = required
    BY <1>4 DEF Demanded
  <2> HIDE DEF next, op
  <2> QED BY <1>2, <1>4, <2>1 DEF RequiredInv
<1>5. CASE op \in Catalogued /\ name \notin DOMAIN required
  <2>1. ~Fails(all, name) /\ next = Merged(required, now)
    BY <1>1, <1>5 DEF Demanded
  <2>2. DOMAIN next = DOMAIN required \cup DOMAIN now
    BY <2>1 DEF Merged
  <2>3. /\ \A marker \in DOMAIN required : required[marker] \subseteq next[marker]
        /\ \A marker \in DOMAIN now : now[marker] \subseteq next[marker]
    BY <2>1 DEF Merged
  <2>4. name \in LatestNames
    BY <1>5 DEF LatestNames
  <2> HIDE DEF next
  <2>5. ASSUME NEW marker \in DOMAIN next
        PROVE  \E m \in LatestNames : /\ ~Fails(all, m)
                                      /\ marker \in DOMAIN Entries(all, m)
                                      /\ Entries(all, m)[marker] \subseteq next[marker]
    <3>1. CASE marker \in DOMAIN required
      <4>1. PICK m \in LatestNames : /\ ~Fails(all, m)
                                     /\ marker \in DOMAIN Entries(all, m)
                                     /\ Entries(all, m)[marker] \subseteq required[marker]
        BY <1>1, <3>1 DEF RequiredInv
      <4> QED BY <2>3, <3>1, <4>1
    <3>2. CASE marker \in DOMAIN now
      BY <2>1, <2>3, <2>4, <3>2
    <3> QED BY <2>2, <2>5, <3>1, <3>2
  <2> HIDE DEF op, now
  <2>6. \A i \in 1..(n + 1) : OpcodeOrder[i] \in Catalogued =>
          \/ LatestName(OpcodeOrder[i]) \in DOMAIN next
          \/ /\ ~Fails(all, LatestName(OpcodeOrder[i]))
             /\ LatestName(OpcodeOrder[i]) \notin DOMAIN Entries(all, LatestName(OpcodeOrder[i]))
    BY <1>1, <1>2, <2>1, <2>2 DEF RequiredInv, now
  <2> QED BY <2>5, <2>6 DEF RequiredInv
<1> QED BY <1>3, <1>4, <1>5

LEMMA RequiredFaithful ==
  ASSUME NEW all PROVE RequiredInv(all, Required(all), Len(OpcodeOrder))
<1> DEFINE N == Len(OpcodeOrder)
<1>1. PICK f : /\ f[0] = <<>>
               /\ \A n \in 1..N : f[n] = Demanded(all, f[n - 1], OpcodeOrder[n])
               /\ Required(all) = f[N]
  BY RequiredRecursion
<1> DEFINE S == {n \in Nat : n <= N => RequiredInv(all, f[n], n)}
<1>2. N \in Nat
  BY OrderAssumption
<1> HIDE DEF N
<1>3. 0 \in S
  BY <1>1 DEF RequiredInv
<1>4. ASSUME NEW n \in Nat, n \in S PROVE n + 1 \in S
  <2> SUFFICES ASSUME n + 1 <= N PROVE RequiredInv(all, f[n + 1], n + 1)
    OBVIOUS
  <2>1. RequiredInv(all, f[n], n)
    BY <1>2, <1>4
  <2>2. n + 1 \in 1..N /\ (n + 1) - 1 = n
    BY <1>2
  <2>3. f[n + 1] = Demanded(all, f[n], OpcodeOrder[n + 1])
    BY <1>1, <2>2
  <2> QED BY <2>1, <2>3, RequiredInvStep
<1>5. N \in S
  <2> HIDE DEF S
  <2> QED BY <1>2, <1>3, <1>4, SetInduction
<1> QED BY <1>1, <1>2, <1>5 DEF N

(* A declaration is required of what a target's own sources have it implement *)
(* under some latest name the entry has had, that does not fail.              *)
LEMMA RequiredCovers ==
  ASSUME TypeOK, MergeInv, FileInv, file # None, MarkersWhole(LatestNames),
         NEW a, Required(AllSegments(a)) # None, NEW t \in Targets, NEW c \in Own(a, t)
  PROVE  LET required == Required(AllSegments(a))
             marker == LatestName(c.opcode)
         IN  /\ marker \in DOMAIN required /\ t \in required[marker]
             /\ \E name \in LatestNames : /\ name \in Names
                                          /\ ~Segments(a, name).failed
                                          /\ c.opcode \in EverNamed(name)
<1> DEFINE all == AllSegments(a)
           required == Required(all)
           marker == LatestName(c.opcode)
<1>1. c.opcode \in Catalogued /\ marker \in LatestNames
  BY CataloguedNames DEF LatestNames, Own, Targets
<1>2. \A name \in LatestNames : name \in Names /\ all[name] = Segments(a, name)
  BY CataloguedNames DEF LatestNames, AllSegments
<1>3. \A name \in LatestNames : ~Fails(all, name) => ~Segments(a, name).failed
  BY <1>2 DEF Fails
<1>4. c.opcode \in EverNamed(marker)
  BY <1>1, CataloguedNames
<1>5. marker \in DOMAIN required
  <2>1. PICK i \in DOMAIN OpcodeOrder : OpcodeOrder[i] = c.opcode
    BY <1>1, OrderAssumption DEF Catalogued, ToSet
  <2>2. i \in 1..Len(OpcodeOrder)
    BY OrderAssumption
  <2>3. \/ marker \in DOMAIN required
        \/ ~Fails(all, marker) /\ marker \notin DOMAIN Entries(all, marker)
    BY <1>1, <2>1, <2>2, RequiredFaithful DEF RequiredInv
  <2>4. ~Fails(all, marker) => marker \in DOMAIN Entries(all, marker)
    BY <1>1, <1>2, <1>3, <1>4, OwnMarked
  <2> QED BY <2>3, <2>4
<1>6. PICK name \in LatestNames : /\ ~Fails(all, name)
                                  /\ marker \in DOMAIN Entries(all, name)
                                  /\ Entries(all, name)[marker] \subseteq required[marker]
  BY <1>5, RequiredFaithful DEF RequiredInv
<1>7. PICK op \in Catalogued : op \in EverNamed(name) /\ LatestName(op) = marker
  BY <1>2, <1>3, <1>6, MarkersOf
<1>8. c.opcode \in EverNamed(name)
  <2>1. Carries(op, name)
    BY <1>2, <1>7, CarriersAreNamed DEF Carriers
  <2>2. Carries(c.opcode, name)
    BY <1>1, <1>7, <2>1 DEF MarkersWhole
  <2> QED BY <1>1, <1>2, <2>2, CarriersAreNamed DEF Carriers, Catalogued
<1>9. t \in Entries(all, name)[marker]
  BY <1>2, <1>3, <1>6, <1>8, OwnMarked
<1> QED BY <1>2, <1>3, <1>5, <1>6, <1>8, <1>9

-------------------------------------------------------------------------------
(* A program that compiles for a target.                                      *)
LEMMA Concatenated ==
  ASSUME NEW S, NEW s \in Seq(S), NEW u \in Seq(S)
  PROVE  /\ DOMAIN (s \o u) = 1..(Len(s) + Len(u))
         /\ \A i \in 1..Len(s) : (s \o u)[i] = s[i]
         /\ \A i \in 1..(Len(s) + Len(u)) : i > Len(s) => (s \o u)[i] = u[i - Len(s)]
OBVIOUS

LEMMA Elements ==
  ASSUME NEW S, NEW s \in Seq(S) PROVE \A i \in DOMAIN s : s[i] \in S
OBVIOUS

LEMMA DeclaringNames ==
  ASSUME NEW p \in Programs
  PROVE  /\ IsFiniteSet(DOMAIN Declaring(p))
         /\ \A i \in DOMAIN Declaring(p) :
              /\ Declaring(p)[i] \in Names
              /\ IF i > Len(p.declares)
                 THEN /\ i - Len(p.declares) \in DOMAIN p.lists
                      /\ Declaring(p)[i] = p.lists[i - Len(p.declares)].name
                 ELSE Declaring(p)[i] \in Range(p.declares)
<1> DEFINE listed == [i \in DOMAIN p.lists |-> p.lists[i].name]
           d == Len(p.declares)
           l == Len(p.lists)
<1>0. /\ p.declares \in Seq(Names)
      /\ p.lists \in Seq([name : Names, code : Opcodes, width : Nat])
  BY ProgramAssumption, Zenon
<1>1. p.declares \in Seq(Names) /\ d \in Nat /\ DOMAIN p.declares = 1..d
  BY <1>0
<1>2. l \in Nat /\ DOMAIN p.lists = 1..l
  BY <1>0
<1>3. \A i \in 1..l : p.lists[i].name \in Names
  <2>1. \A i \in DOMAIN p.lists : p.lists[i] \in [name : Names, code : Opcodes, width : Nat]
    BY <1>0, Elements
  <2> QED BY <1>2, <2>1
<1>4. listed \in Seq(Names) /\ Len(listed) = l
  BY <1>2, <1>3
<1>5. Declaring(p) = p.declares \o listed
  BY DEF Declaring
<1> HIDE DEF listed
<1>6. /\ DOMAIN Declaring(p) = 1..(d + l)
      /\ \A i \in 1..d : Declaring(p)[i] = p.declares[i]
      /\ \A i \in 1..(d + l) : i > d => Declaring(p)[i] = listed[i - d]
  <2> DEFINE s == p.declares
             joined == s \o listed
  <2>1. s \in Seq(Names)
    BY <1>1
  <2> HIDE DEF s
  <2>2. /\ DOMAIN joined = 1..(Len(s) + Len(listed))
        /\ \A i \in 1..Len(s) : joined[i] = s[i]
        /\ \A i \in 1..(Len(s) + Len(listed)) : i > Len(s) => joined[i] = listed[i - Len(s)]
    BY <1>4, <2>1, Concatenated
  <2> QED BY <1>4, <1>5, <2>2 DEF s
<1>7. \A i \in 1..l : listed[i] = p.lists[i].name
  BY <1>2 DEF listed
<1> HIDE DEF d, l
<1>8. IsFiniteSet(DOMAIN Declaring(p))
  <2>1. d + l \in Int /\ 1 \in Int
    BY <1>1, <1>2
  <2> QED BY <1>6, <2>1, FS_Interval
<1>9. ASSUME NEW i \in DOMAIN Declaring(p), i > d
      PROVE  i - d \in 1..l /\ Declaring(p)[i] = p.lists[i - d].name
  <2>1. i - d \in 1..l
    BY <1>1, <1>2, <1>6, <1>9
  <2> QED BY <1>6, <1>7, <1>9, <2>1
<1>10. ASSUME NEW i \in DOMAIN Declaring(p), ~(i > d)
       PROVE  i \in DOMAIN p.declares /\ Declaring(p)[i] = p.declares[i]
  <2>1. i \in 1..d
    BY <1>1, <1>2, <1>6, <1>10
  <2> QED BY <1>1, <1>6, <2>1
<1>11. \A i \in DOMAIN p.declares : p.declares[i] \in Names /\ p.declares[i] \in Range(p.declares)
  BY <1>1 DEF Range
<1> QED BY <1>2, <1>3, <1>8, <1>9, <1>10, <1>11 DEF d

LEMMA NamesStand ==
  ASSUME NEW a, NEW required, NEW p \in Programs,
         Accepted(a, AllSegments(a), required, p), NEW i \in DOMAIN Declaring(p)
  PROVE  /\ Declaring(p)[i] \in Names
         /\ ~Segments(a, Declaring(p)[i]).failed
         /\ \A segment \in Range(Segments(a, Declaring(p)[i]).segments) :
              segment.facts.entry.command \in Core <=> i > Len(p.declares)
<1> DEFINE all == AllSegments(a)
           name == Declaring(p)[i]
           d == Len(p.declares)
<1>1. name \in Names /\ all[name] = Segments(a, name)
  BY DeclaringNames DEF AllSegments
<1>3. CASE i > d
  <2>1. i - d \in DOMAIN p.lists /\ name = p.lists[i - d].name
    BY <1>3, DeclaringNames
  <2>2. /\ ~Fails(all, name)
        /\ \A segment \in Range(all[name].segments) : segment.facts.entry.command \in Core
    BY <2>1 DEF Accepted, Lists
  <2> QED BY <1>1, <1>3, <2>2 DEF Fails
<1>4. CASE ~(i > d)
  <2>2. name \in Range(p.declares)
    BY <1>4, DeclaringNames
  <2>3. /\ ~Fails(all, name)
        /\ \A segment \in Range(all[name].segments) : segment.facts.entry.command \notin Core
    BY <2>2 DEF Accepted, Declares
  <2> QED BY <1>1, <1>4, <2>3 DEF Fails
<1> QED BY <1>3, <1>4

(* Exactly one declaration is about a command of the target.                  *)
LEMMA OneDeclaration ==
  ASSUME TypeOK, MergeInv, FileInv, file # None, MarkersWhole(LatestNames), NEW a,
         NEW p \in Programs, Accepted(a, AllSegments(a), Required(AllSegments(a)), p),
         NEW t \in Targets,
         Compiles(a, AllSegments(a), Required(AllSegments(a)), p, t),
         NEW c \in Own(a, t)
  PROVE  \E i \in DOMAIN Declaring(p) : DeclaredFor(p, c) = {i}
<1> DEFINE all == AllSegments(a)
           required == Required(all)
           marker == LatestName(c.opcode)
           implementing == Implementations(all, p, marker, t)
<1>0. t.release \in Described /\ c \in cube[t.release]
  BY DEF Targets, Own
<1>1. required # None
  BY DEF Accepted
<1>2. marker \in DOMAIN required /\ t \in required[marker]
  BY <1>1, RequiredCovers
<1>3. PICK name \in LatestNames : /\ name \in Names
                                  /\ ~Segments(a, name).failed
                                  /\ c.opcode \in EverNamed(name)
  BY <1>1, RequiredCovers
<1>4. c.opcode \in Catalogued /\ marker \in Names
  BY <1>0, CataloguedNames
<1>5. Cardinality(implementing) <= 1 /\ implementing # {}
  BY <1>2, <1>4 DEF Compiles, MarkersFit, MarkerFits
<1>6. IsFiniteSet(implementing)
  <2>1. IsFiniteSet(DOMAIN Declaring(p))
    BY DeclaringNames
  <2>2. implementing \subseteq DOMAIN Declaring(p)
    BY DEF Implementations
  <2> QED BY <2>1, <2>2, FS_Subset
<1>7. \A i, j \in implementing : i = j
  <2> HIDE DEF implementing
  <2>1. Cardinality(implementing) \in Nat
    BY <1>6, FS_CardinalityType
  <2>2. ~(Cardinality(implementing) > 1)
    BY <1>5, <2>1
  <2> QED BY <1>6, <2>2, CardinalityAtMostOne
<1>8. PICK i \in implementing : TRUE
  BY <1>5
<1>9. i \in DOMAIN Declaring(p)
  BY <1>8 DEF Implementations
<1>10. c.opcode \in EverNamed(Declaring(p)[i])
  <2>1. /\ marker \in DOMAIN Entries(all, Declaring(p)[i])
        /\ t \in Entries(all, Declaring(p)[i])[marker]
    BY <1>8 DEF Implementations
  <2>2. PICK e \in Own(a, t) :
               e.opcode \in EverNamed(Declaring(p)[i]) /\ LatestName(e.opcode) = marker
    BY <1>9, <2>1, NamesStand, MarkedOwn
  <2>3. e \in cube[t.release] /\ e.opcode \in Catalogued
    BY <1>0, CataloguedNames DEF Own
  <2>4. e.opcode \in EverNamed(name)
    <3>1. Carries(c.opcode, name)
      BY <1>3, CarriersAreNamed DEF Carriers
    <3>2. Carries(e.opcode, name)
      BY <1>3, <1>4, <2>2, <2>3, <3>1 DEF MarkersWhole
    <3> QED BY <1>3, <2>3, <3>2, CarriersAreNamed DEF Carriers, Catalogued
  <2>5. e = c
    BY <1>0, <1>3, <2>3, <2>4, SegmentReads DEF Named
  <2> QED BY <2>2, <2>5
<1>11. ASSUME NEW j \in DeclaredFor(p, c) PROVE j = i
  <2>1. j \in DOMAIN Declaring(p) /\ c.opcode \in EverNamed(Declaring(p)[j])
    BY DEF DeclaredFor
  <2>2. /\ marker \in DOMAIN Entries(all, Declaring(p)[j])
        /\ t \in Entries(all, Declaring(p)[j])[marker]
    BY <2>1, NamesStand, OwnMarked
  <2>3. j \in implementing
    BY <2>1, <2>2 DEF Implementations
  <2> QED BY <1>7, <1>8, <2>3
<1>12. i \in DeclaredFor(p, c)
  BY <1>9, <1>10 DEF DeclaredFor
<1> QED BY <1>9, <1>11, <1>12

LEMMA CompiledIsRight ==
  ASSUME TypeOK, MergeInv, FileInv, file # None, MarkersWhole(LatestNames), NEW a,
         NEW p \in Programs, Accepted(a, AllSegments(a), Required(AllSegments(a)), p),
         NEW t \in Targets,
         Compiles(a, AllSegments(a), Required(AllSegments(a)), p, t),
         NEW r \in Implemented(a, t)
  PROVE  DeclaredOnce(p, r) /\ CoreFits(p, r) /\ StructFits(p, r)
<1> DEFINE all == AllSegments(a)
           required == Required(all)
           v == t.release
<1>1. PICK c \in Own(a, t) : r = Resolved(a, c, v)
  BY DEF Implemented, Own
<1>2. v \in Described /\ c \in cube[v]
  BY DEF Targets, Own
<1>3. r.opcode = c.opcode
  <2>1. c \in Commands
    BY <1>2, StatedIsFound
  <2> QED BY <1>1, <2>1 DEF Resolved, Commands
<1>4. PICK i \in DOMAIN Declaring(p) : DeclaredFor(p, c) = {i}
  BY OneDeclaration
<1>5. DeclaredFor(p, r) = {i} /\ c.opcode \in EverNamed(Declaring(p)[i])
  BY <1>3, <1>4 DEF DeclaredFor
<1> DEFINE name == Declaring(p)[i]
<1>6. PICK s \in At(all, name, t) : Reads(a, s, c, v) /\ ~Excluded(s)
  BY <1>5, NamesStand, OwnMarked
<1>7. s.facts.entry.command = c.opcode /\ ResolvedEntry(a, s.facts) = r
  BY <1>1, <1>6 DEF Reads
<1>8. c.opcode \in Core <=> i > Len(p.declares)
  <2>1. s \in Range(Segments(a, name).segments)
    BY <1>6, NamesStand DEF At, AllSegments
  <2> QED BY <1>7, <2>1, NamesStand
<1>9. DeclaredOnce(p, r)
  <2>1. Cardinality({i}) = 1
    BY FS_Singleton
  <2> QED BY <1>3, <1>5, <1>8, <2>1 DEF DeclaredOnce
<1>10. CoreFits(p, r)
  <2> SUFFICES ASSUME i > Len(p.declares)
               PROVE  LET type == p.lists[i - Len(p.declares)]
                      IN  /\ type.code = r.opcode
                          /\ \/ r.opcode \in CoreEvents
                             \/ Widths[r.definition] \in {None, type.width}
    BY <1>5 DEF CoreFits
  <2>1. i - Len(p.declares) \in DOMAIN p.lists /\ name = p.lists[i - Len(p.declares)].name
    BY DeclaringNames
  <2>2. FactsHold(a, all, p.lists[i - Len(p.declares)], t)
    BY <2>1 DEF Compiles
  <2> QED BY <1>3, <1>6, <1>7, <2>1, <2>2 DEF FactsHold
<1>11. StructFits(p, r)
  <2> SUFFICES ASSUME c.opcode \notin Core, StructIn[r.definition] # None
               PROVE  StructIn[r.definition] = p.struct
    BY <1>3 DEF StructFits
  <2>2. name \in Range(p.declares)
    BY <1>8, DeclaringNames
  <2>3. p.struct # None
    BY <1>6, <1>7, <2>2 DEF Compiles, StructFound
  <2>4. {StructIn[ResolvedEntry(a, segment.facts).definition] : segment \in Users(a, all)}
          = {p.struct}
    BY <2>3 DEF Accepted, StructExpands
  <2>5. required # None
    BY DEF Accepted
  <2>6. PICK m \in LatestNames : /\ m \in Names
                                 /\ ~Segments(a, m).failed
                                 /\ c.opcode \in EverNamed(m)
    BY <2>5, RequiredCovers
  <2>7. PICK u \in At(all, m, t) : Reads(a, u, c, v)
    BY <2>6, OwnMarked
  <2>8. ResolvedEntry(a, u.facts) = r /\ u \in Range(all[m].segments)
    BY <1>1, <2>7 DEF Reads, At
  <2>9. ~Fails(all, m)
    <3>1. all[m] = Segments(a, m)
      BY <2>6 DEF AllSegments
    <3>2. all[m].segments # <<>>
      BY <2>8 DEF Range
    <3> QED BY <2>6, <3>1, <3>2 DEF Fails
  <2>10. u \in Users(a, all)
    BY <2>6, <2>8, <2>9 DEF Users, LatestNames
  <2> QED BY <2>4, <2>8, <2>10
<1> QED BY <1>9, <1>10, <1>11

(* LAST_ENHANCED of a release is what each of its definitions documents.      *)
LEMMA BearerDocumented ==
  ASSUME TypeOK, MergeInv, FileInv, file # None, Bearers,
         NEW v \in Described, NEW c \in cube[v], BearerIn[c.definition] # None
  PROVE  BearerIn[c.definition] = LastEnhanced(v)
<1> DEFINE defined == {op \in Opcodes : Defined(op, v)}
           bearer(op) == BearerIn[ValueAt(file.commands[op]["definition"], v)]
<1>1. /\ c.opcode \in Opcodes /\ Defined(c.opcode, v)
      /\ ValueAt(file.commands[c.opcode]["definition"], v) = c.definition
  BY StatedIsFound DEF Facts, Defined, DefinitionAt
<1>2. BearerIn[c.definition] \in Documented(v)
  BY <1>1 DEF Documented
<1>3. IsFiniteSet(Documented(v))
  <2>1. IsFiniteSet(defined)
    BY OpcodeAssumption, FS_Subset
  <2> HIDE DEF defined
  <2>2. [op \in defined |-> bearer(op)] \in Surjection(defined, {bearer(op) : op \in defined})
    BY DEF Surjection
  <2>3. IsFiniteSet({bearer(op) : op \in defined})
    BY <2>1, <2>2, FS_Surjection
  <2> QED BY <2>3, FS_Subset DEF Documented, defined
<1>4. Cardinality(Documented(v)) = 1
  BY DEF Bearers
<1>5. \A x, y \in Documented(v) : x = y
  BY <1>3, <1>4, CardinalityAtMostOne
<1> QED BY <1>2, <1>5 DEF LastEnhanced

LEMMA FirstIsFirst ==
  ASSUME NEW S \in SUBSET (Nat \ {0})
  PROVE  /\ First(S) = 0 <=> S = {}
         /\ S # {} => First(S) \in S
<1>1. CASE S = {}
  BY <1>1 DEF First
<1>2. CASE S # {}
  <2>1. PICK n \in S : \A m \in S : n <= m
    BY <1>2, LeastNatural
  <2>2. Min(S) \in S
    BY <2>1 DEF Min
  <2> QED BY <1>2, <2>2 DEF First
<1> QED BY <1>1, <1>2

(* The name a variant's type must bear is a marker of the variant's name.     *)
LEMMA FirstMarker ==
  ASSUME NEW entries, DOMAIN entries \subseteq Names, DOMAIN entries # {}
  PROVE  FirstOf(entries) \in DOMAIN entries
<1> DEFINE S == {i \in DOMAIN NameOrder : NameOrder[i] \in DOMAIN entries}
<1>1. S \in SUBSET (Nat \ {0})
  BY OrderAssumption
<1>2. S # {}
  BY OrderAssumption DEF ToSet
<1>3. Min(S) \in S
  <2> HIDE DEF S
  <2> QED BY <1>1, <1>2, FirstIsFirst DEF First
<1> QED BY <1>3 DEF FirstOf

LEMMA VariantsStand ==
  ASSUME TypeOK, MergeInv, FileInv, file # None, NEW a,
         NEW p \in Programs, Accepted(a, AllSegments(a), Required(AllSegments(a)), p),
         NEW i \in DOMAIN p.variants
  PROVE  LET variant == p.variants[i]
             all == AllSegments(a)
         IN  /\ variant.name \in Names /\ ~Segments(a, variant.name).failed
             /\ variant.type \in Names /\ ~Segments(a, variant.type).failed
             /\ \A segment \in Range(all[variant.type].segments) :
                  segment.facts.entry.command \notin Core /\ ~Excluded(segment)
             /\ FirstOf(Entries(all, variant.name)) \in DOMAIN Entries(all, variant.name)
<1> DEFINE variant == p.variants[i]
           all == AllSegments(a)
<1>1. /\ p.declares \in Seq(Names)
      /\ p.variants \in Seq([name : Names, type : ToSet(p.declares)])
  BY ProgramAssumption, Zenon
<1>2. variant \in [name : Names, type : ToSet(p.declares)]
  BY <1>1, Elements
<1>3. variant.name \in Names /\ variant.type \in ToSet(p.declares)
  BY <1>2
<1>4. variant.type \in Names /\ variant.type \in Range(p.declares)
  <2>1. \A j \in DOMAIN p.declares : p.declares[j] \in Names
    BY <1>1, Elements
  <2> QED BY <1>3, <2>1 DEF ToSet, Range
<1>5. /\ ~Fails(all, variant.type)
      /\ \A segment \in Range(all[variant.type].segments) :
           segment.facts.entry.command \notin Core /\ ~Excluded(segment)
  BY <1>4 DEF Accepted, Declares
<1>6. ~Fails(all, variant.name) /\ DOMAIN Entries(all, variant.name) # {}
  BY DEF Accepted, Expands, VariantExpands
<1>7. ~Segments(a, variant.name).failed /\ ~Segments(a, variant.type).failed
  BY <1>3, <1>4, <1>5, <1>6 DEF Fails, AllSegments
<1>8. DOMAIN Entries(all, variant.name) \subseteq Names
  BY <1>3, <1>7, MarkersOf, CataloguedNames
<1>9. FirstOf(Entries(all, variant.name)) \in DOMAIN Entries(all, variant.name)
  BY <1>6, <1>8, FirstMarker
<1> QED BY <1>3, <1>4, <1>5, <1>7, <1>9

(* An entry with a marker of a variant's name has had that name itself.       *)
LEMMA MarkedCarries ==
  ASSUME TypeOK, MergeInv, FileInv, file # None, NEW a,
         NEW names, MarkersWhole(names), NEW name \in Names, name \in names,
         ~Segments(a, name).failed,
         NEW op \in Catalogued, LatestName(op) \in DOMAIN Entries(AllSegments(a), name)
  PROVE  op \in EverNamed(name)
<1>1. PICK other \in Catalogued :
             other \in EverNamed(name) /\ LatestName(other) = LatestName(op)
  BY MarkersOf
<1>2. Carries(other, name)
  BY <1>1, CarriersAreNamed DEF Carriers
<1>3. Carries(op, name)
  BY <1>1, <1>2 DEF MarkersWhole
<1> QED BY <1>3, CarriersAreNamed DEF Carriers, Catalogued

LEMMA DecodesRight ==
  ASSUME TypeOK, MergeInv, FileInv, file # None, NEW a,
         NEW p \in Programs, Accepted(a, AllSegments(a), Required(AllSegments(a)), p),
         NEW t \in Targets,
         Compiles(a, AllSegments(a), Required(AllSegments(a)), p, t),
         MarkersWhole(VariantNames(p.variants)), NEW code \in Opcodes
  PROVE  DecodesOwn(AllSegments(a), p, t, code, Implemented(a, t))
<1> DEFINE all == AllSegments(a)
           v == t.release
           own == {c \in Own(a, t) : c.opcode = code /\ code \notin Core}
           variant(i) == p.variants[i]
           selected == {i \in DOMAIN p.variants :
                          /\ Enabled(all, p.variants[i], t)
                          /\ \E segment \in At(all, p.variants[i].type, t) :
                               segment.facts.entry.command = code}
<1>1. v \in Described
  BY DEF Targets
<1>2. \A c \in cube[v] : c.opcode \in Catalogued
  BY <1>1, CataloguedNames
<1>3. ASSUME NEW i \in DOMAIN p.variants, NEW op \in Catalogued,
             LatestName(op) \in DOMAIN Entries(all, variant(i).name)
      PROVE  op \in EverNamed(variant(i).name)
  <2>1. variant(i).name \in VariantNames(p.variants)
    BY DEF VariantNames, Range
  <2>2. variant(i).name \in Names /\ ~Segments(a, variant(i).name).failed
    BY VariantsStand
  <2> QED BY <1>3, <2>1, <2>2, MarkedCarries
(* The type of an enabled variant is declared for the entry of its name.      *)
<1>4. ASSUME NEW i \in DOMAIN p.variants, Enabled(all, variant(i), t),
             NEW segment \in At(all, variant(i).type, t)
      PROVE  \E c \in Own(a, t) : /\ c.opcode = segment.facts.entry.command
                                  /\ c.opcode \notin Core
                                  /\ c.opcode \in EverNamed(variant(i).type)
                                  /\ c.opcode \in EverNamed(variant(i).name)
  <2>1. PICK c \in Named(variant(i).type, v) :
               t.profile \in c.profiles /\ Reads(a, segment, c, v)
    BY VariantsStand, AtReads
  <2>2. segment.facts.entry.command \notin Core /\ ~Excluded(segment)
    BY VariantsStand DEF At
  <2>3. c \in Own(a, t) /\ c.opcode \in EverNamed(variant(i).type)
    BY <2>1, <2>2 DEF Named, Own, Reads, Excluded
  <2>4. LatestIn(segment) = FirstOf(Entries(all, variant(i).name))
    BY <1>4 DEF Compiles, TypeChecked
  <2>5. LatestName(c.opcode) \in DOMAIN Entries(all, variant(i).name)
    BY <2>1, <2>4, VariantsStand DEF LatestIn, Reads
  <2>6. c.opcode \in Catalogued
    BY <1>2, <2>3 DEF Own
  <2>7. c.opcode \in EverNamed(variant(i).name)
    BY <1>3, <2>5, <2>6
  <2> QED BY <2>1, <2>2, <2>3, <2>7 DEF Reads
<1>5. ASSUME NEW i \in selected
      PROVE  own # {} /\ code \in EverNamed(variant(i).name) \cap EverNamed(variant(i).type)
  <2>1. PICK segment \in At(all, variant(i).type, t) : segment.facts.entry.command = code
    OBVIOUS
  <2>2. PICK c \in Own(a, t) : /\ c.opcode = code
                               /\ c.opcode \notin Core
                               /\ c.opcode \in EverNamed(variant(i).type)
                               /\ c.opcode \in EverNamed(variant(i).name)
    BY <1>4, <2>1
  <2> QED BY <2>2
<1>6. ASSUME NEW c \in own PROVE selected # {}
  <2> DEFINE marker == LatestName(c.opcode)
  <2>1. /\ c \in Own(a, t) /\ c \in cube[v] /\ c.opcode = code /\ c.opcode \notin Core
        /\ c.opcode \in Catalogued
    BY <1>2 DEF Own
  <2>2. marker \in VendorNames /\ marker \in Names /\ c.opcode \in EverNamed(marker)
    BY <2>1, CataloguedNames DEF VendorNames
  <2>3. ~Fails(all, marker)
    BY <2>2 DEF Accepted, Expands
  <2>4. marker \in DOMAIN Entries(all, marker)
    BY <2>1, <2>2, <2>3, OwnMarked DEF Fails, AllSegments
  <2>5. PICK i \in DOMAIN p.variants : marker \in DOMAIN Entries(all, variant(i).name)
    BY <2>2, <2>4 DEF Accepted, Expands
  <2>6. c.opcode \in EverNamed(variant(i).name)
    BY <1>3, <2>1, <2>5
  <2>7. t \in Entries(all, variant(i).name)[marker]
    BY <2>1, <2>6, VariantsStand, OwnMarked
  <2>8. Enabled(all, variant(i), t)
    BY <2>5, <2>7 DEF Enabled, TargetsOf, Range
  <2>9. PICK segment \in At(all, variant(i).type, t) : TRUE
    BY <2>8 DEF Compiles, TypeChecked
  <2>10. PICK e \in Own(a, t) : /\ e.opcode = segment.facts.entry.command
                                /\ e.opcode \in EverNamed(variant(i).name)
    BY <1>4, <2>8, <2>9
  <2>11. e = c
    BY <1>1, <2>1, <2>6, <2>10, VariantsStand, SegmentReads DEF Named, Own
  <2> QED BY <2>1, <2>5, <2>8, <2>9, <2>10, <2>11
<1>7. selected \in SUBSET (Nat \ {0})
  <2>1. p.variants \in Seq([name : Names, type : ToSet(p.declares)])
    BY ProgramAssumption, Zenon
  <2>2. DOMAIN p.variants = 1..Len(p.variants) /\ Len(p.variants) \in Nat
    BY <2>1
  <2> QED BY <2>2
<1>8. Decoded(all, p.variants, t, code) = First(selected)
  BY DEF Decoded
<1>9. {c \in Implemented(a, t) : c.opcode = code /\ code \notin Core} = {} <=> own = {}
  <2>1. Implemented(a, t) = {Resolved(a, c, v) : c \in Own(a, t)}
    BY DEF Implemented, Own
  <2>2. \A c \in Own(a, t) : Resolved(a, c, v).opcode = c.opcode
    BY <1>1, StatedIsFound DEF Own, Resolved, Commands
  <2> QED BY <2>1, <2>2
<1> HIDE DEF selected, own, variant
<1>10. selected = {} <=> own = {}
  BY <1>5, <1>6
<1>11. /\ First(selected) = 0 <=> selected = {}
       /\ selected # {} => First(selected) \in selected
  BY <1>7, FirstIsFirst
<1> QED BY <1>5, <1>8, <1>9, <1>10, <1>11 DEF DecodesOwn, variant

LEMMA BuiltIsRight ==
  ASSUME TypeOK, MergeInv, FileInv PROVE CompiledFits /\ DispatchExact
<1>1. ASSUME NEW a \in Audited, NEW built \in Compiled(a, AllSegments(a))
      PROVE  /\ built[1] \in Programs /\ built[2] \in Targets
             /\ Accepted(a, AllSegments(a), Required(AllSegments(a)), built[1])
             /\ Compiles(a, AllSegments(a), Required(AllSegments(a)), built[1], built[2])
  BY DEF Compiled
<1>2. CompiledFits
  BY <1>1, CompiledIsRight, BearerDocumented DEF CompiledFits, Published
<1>3. DispatchExact
  BY <1>1, DecodesRight DEF DispatchExact, Published
<1> QED BY <1>2, <1>3

(* For any catalog, annotations and programs: on a target a crate compiles    *)
(* for, it declares each command and event of the target's own sources once,  *)
(* as the right kind and with the right facts, if entries that share a marker *)
(* have had the same latest names.                                            *)
THEOREM CatalogCompiledFits == Spec => []CompiledFits
<1>1. TypeOK /\ MergeInv /\ FileInv => CompiledFits
  BY BuiltIsRight
<1> QED BY <1>1, FileInvariant, PTL

(* And each event code of the target decodes into the variant of its event.   *)
THEOREM CatalogDispatchExact == Spec => []DispatchExact
<1>1. TypeOK /\ MergeInv /\ FileInv => DispatchExact
  BY BuiltIsRight
<1> QED BY <1>1, FileInvariant, PTL

-------------------------------------------------------------------------------
(* Targets with one interface.  Different segments may cover them, but what   *)
(* covers one target has a counterpart that covers the other.                 *)
SayTheSame(a, s, o) ==
  /\ s.facts.entry.command = o.facts.entry.command
  /\ ResolvedEntry(a, s.facts).definition = ResolvedEntry(a, o.facts).definition
  /\ s.facts.entry.excluded = o.facts.entry.excluded

LEMMA AlikeAt ==
  ASSUME TypeOK, MergeInv, FileInv, file # None, NEW a, NEW name \in Names,
         ~Segments(a, name).failed, NEW t \in Targets, NEW u \in Targets,
         Interface(a, t) = Interface(a, u), NEW s \in At(AllSegments(a), name, t)
  PROVE  \E o \in At(AllSegments(a), name, u) : SayTheSame(a, s, o)
<1> DEFINE v == t.release
           w == u.release
<1>1. v \in Described /\ w \in Described
  BY DEF Targets
<1>2. PICK c \in Named(name, v) : t.profile \in c.profiles /\ Reads(a, s, c, v)
  BY AtReads
<1>3. Said(a, c, v) \in {Said(a, d, w) : d \in Accepts(u)}
  <2>1. c \in Accepts(t)
    BY <1>2 DEF Named, Accepts
  <2> QED BY <2>1, InterfaceMeans
<1>4. PICK d \in Accepts(u) : Said(a, c, v) = Said(a, d, w)
  BY <1>3
<1>5. c \in cube[v] /\ d \in cube[w] /\ c \in Commands /\ d \in Commands
  BY <1>1, <1>2, StatedIsFound DEF Named, Accepts
<1>6. /\ c.opcode = d.opcode
      /\ Resolved(a, c, v).definition = Resolved(a, d, w).definition
      /\ ExclusionFor(a, c.name, v) = ExclusionFor(a, d.name, w)
  <2>1. Resolved(a, c, v).opcode = c.opcode /\ Resolved(a, d, w).opcode = d.opcode
    BY <1>5 DEF Resolved, Commands
  <2> QED BY <1>4, <2>1 DEF Said
<1>7. d \in Named(name, w)
  BY <1>2, <1>5, <1>6 DEF Named
<1>8. PICK o \in Range(Segments(a, name).segments) : Holds(o, w) /\ Reads(a, o, d, w)
  BY <1>1, <1>7, SegmentReads
<1>9. o \in At(AllSegments(a), name, u)
  BY <1>8 DEF At, AllSegments, SegmentTargets, Reads, Accepts
<1> QED BY <1>2, <1>6, <1>8, <1>9 DEF SayTheSame, Reads

LEMMA AlikeEntries ==
  ASSUME TypeOK, MergeInv, FileInv, file # None, NEW a, NEW name \in Names,
         ~Segments(a, name).failed, NEW t \in Targets, NEW u \in Targets,
         Interface(a, t) = Interface(a, u),
         NEW marker \in DOMAIN Entries(AllSegments(a), name)
  PROVE  LET entries == Entries(AllSegments(a), name)
         IN  t \in entries[marker] => u \in entries[marker]
<1> DEFINE all == AllSegments(a)
           counted == {s \in Range(all[name].segments) : ~Excluded(s)}
<1> SUFFICES ASSUME t \in Entries(all, name)[marker] PROVE u \in Entries(all, name)[marker]
  OBVIOUS
<1>1. Entries(all, name) = ByLatest(counted)
  BY DEF Entries
<1>2. PICK s \in counted : LatestIn(s) = marker /\ t \in SegmentTargets(s)
  <2> HIDE DEF counted
  <2> QED BY <1>1 DEF ByLatest, CoveredBy
<1>3. s \in At(all, name, t)
  BY <1>2 DEF At
<1>4. PICK o \in At(all, name, u) : SayTheSame(a, s, o)
  BY <1>3, AlikeAt
<1>5. o \in counted /\ LatestIn(o) = marker /\ u \in SegmentTargets(o)
  BY <1>2, <1>4 DEF At, LatestIn, SayTheSame, Excluded
<1> QED
  <2> HIDE DEF counted
  <2> QED BY <1>1, <1>5 DEF ByLatest, CoveredBy

LEMMA AlikeRequired ==
  ASSUME TypeOK, MergeInv, FileInv, file # None, NEW a, NEW t \in Targets, NEW u \in Targets,
         Interface(a, t) = Interface(a, u), Required(AllSegments(a)) # None,
         NEW marker \in DOMAIN Required(AllSegments(a))
  PROVE  t \in Required(AllSegments(a))[marker] => u \in Required(AllSegments(a))[marker]
<1> DEFINE all == AllSegments(a)
           N == Len(OpcodeOrder)
           Covers(required) ==
             required # None =>
               \A m \in DOMAIN required : t \in required[m] => u \in required[m]
<1>1. PICK f : /\ f[0] = <<>>
               /\ \A n \in 1..N : f[n] = Demanded(all, f[n - 1], OpcodeOrder[n])
               /\ Required(all) = f[N]
  BY RequiredRecursion
<1> DEFINE S == {n \in Nat : n <= N => Covers(f[n])}
<1>2. N \in Nat
  BY OrderAssumption
<1>3. 0 \in S
  BY <1>1
<1>4. ASSUME NEW n \in Nat, n \in S PROVE n + 1 \in S
  <2> SUFFICES ASSUME n + 1 <= N PROVE Covers(f[n + 1])
    OBVIOUS
  <2> DEFINE op == OpcodeOrder[n + 1]
             name == LatestName(op)
             required == f[n]
             entries == Entries(all, name)
  <2>1. Covers(required)
    BY <1>2, <1>4
  <2>2. f[n + 1] = Demanded(all, required, op)
    <3>1. n + 1 \in 1..N /\ (n + 1) - 1 = n
      BY <1>2
    <3> QED BY <1>1, <3>1
  <2>3. CASE required = None \/ op \notin Catalogued \/ name \in DOMAIN required
    BY <2>1, <2>2, <2>3 DEF Demanded
  <2>4. CASE Fails(all, name) /\ ~(op \notin Catalogued \/ name \in DOMAIN required \/ required = None)
    BY <2>2, <2>4 DEF Demanded
  <2>5. CASE /\ required # None /\ op \in Catalogued
             /\ name \notin DOMAIN required /\ ~Fails(all, name)
    <3>1. f[n + 1] = Merged(required, entries)
      BY <2>2, <2>5 DEF Demanded
    <3>2. name \in Names /\ ~Segments(a, name).failed
      BY <2>5, CataloguedNames DEF Fails, AllSegments
    <3>3. \A m \in DOMAIN entries : t \in entries[m] => u \in entries[m]
      BY <3>2, AlikeEntries
    <3>4. \A m \in DOMAIN required : t \in required[m] => u \in required[m]
      BY <2>1, <2>5
    <3> HIDE DEF required, entries
    <3> QED BY <3>1, <3>3, <3>4 DEF Merged
  <2> QED BY <2>3, <2>4, <2>5
<1>5. N \in S
  <2> HIDE DEF S, N
  <2> QED BY <1>2, <1>3, <1>4, SetInduction
<1>6. Covers(Required(all))
  BY <1>1, <1>2, <1>5
<1> QED BY <1>6

LEMMA AlikeCompile ==
  ASSUME TypeOK, MergeInv, FileInv, file # None, NEW a, NEW t \in Targets, NEW u \in Targets,
         Interface(a, t) = Interface(a, u), NEW p \in Programs,
         Accepted(a, AllSegments(a), Required(AllSegments(a)), p),
         Compiles(a, AllSegments(a), Required(AllSegments(a)), p, u)
  PROVE  Compiles(a, AllSegments(a), Required(AllSegments(a)), p, t)
<1> DEFINE all == AllSegments(a)
           required == Required(all)
<1>1. required # None
  BY DEF Accepted
<1>2. MarkersFit(all, required, p, t)
  <2> SUFFICES ASSUME NEW entry \in Names
               PROVE  MarkerFits(Implementations(all, p, entry, t), required, entry, t)
    BY DEF MarkersFit
  <2>1. Implementations(all, p, entry, t) = Implementations(all, p, entry, u)
    <3>1. ASSUME NEW i \in DOMAIN Declaring(p), entry \in DOMAIN Entries(all, Declaring(p)[i])
          PROVE  t \in Entries(all, Declaring(p)[i])[entry] <=>
                   u \in Entries(all, Declaring(p)[i])[entry]
      BY <3>1, NamesStand, AlikeEntries
    <3> QED BY <3>1 DEF Implementations
  <2>2. MarkerFits(Implementations(all, p, entry, u), required, entry, u)
    BY DEF Compiles, MarkersFit
  <2>3. entry \in DOMAIN required /\ t \in required[entry] => u \in required[entry]
    BY <1>1, AlikeRequired
  <2> QED BY <2>1, <2>2, <2>3 DEF MarkerFits
<1>3. ASSUME NEW i \in DOMAIN p.lists PROVE FactsHold(a, all, p.lists[i], t)
  <2> DEFINE type == p.lists[i]
  <2>1. type.name \in Names /\ ~Segments(a, type.name).failed
    <3>1. p.lists \in Seq([name : Names, code : Opcodes, width : Nat])
      BY ProgramAssumption, Zenon
    <3>2. type \in [name : Names, code : Opcodes, width : Nat]
      BY <3>1, Elements
    <3>3. type.name \in Names /\ ~Fails(all, type.name)
      BY <3>2 DEF Accepted, Lists
    <3> QED BY <3>3 DEF Fails, AllSegments
  <2>2. FactsHold(a, all, type, u)
    BY DEF Compiles
  <2>3. \A s \in At(all, type.name, t) : \E o \in At(all, type.name, u) : SayTheSame(a, s, o)
    BY <2>1, AlikeAt
  <2> QED BY <2>2, <2>3 DEF FactsHold, SayTheSame
<1>4. ASSUME NEW i \in DOMAIN p.variants, Enabled(all, p.variants[i], t)
      PROVE  TypeChecked(all, p.variants[i], t)
  <2> DEFINE variant == p.variants[i]
  <2>1. Enabled(all, variant, u)
    <3>1. PICK entry \in DOMAIN Entries(all, variant.name) : t \in Entries(all, variant.name)[entry]
      BY <1>4 DEF Enabled, TargetsOf, Range
    <3>2. u \in Entries(all, variant.name)[entry]
      BY <3>1, VariantsStand, AlikeEntries
    <3> QED BY <3>1, <3>2 DEF Enabled, TargetsOf, Range
  <2>2. TypeChecked(all, variant, u)
    BY <2>1 DEF Compiles
  <2>3. \A s \in At(all, variant.type, t) : \E o \in At(all, variant.type, u) : SayTheSame(a, s, o)
    BY VariantsStand, AlikeAt
  <2>4. \A s \in At(all, variant.type, u) : \E o \in At(all, variant.type, t) : SayTheSame(a, s, o)
    BY VariantsStand, AlikeAt
  <2> QED BY <2>2, <2>3, <2>4 DEF TypeChecked, SayTheSame, LatestIn
<1>5. ASSUME NEW name \in Range(p.declares), NEW s \in At(all, name, t),
             StructIn[ResolvedEntry(a, s.facts).definition] # None
      PROVE  p.struct # None /\ t \in CoveredBy(Users(a, all))
  <2>1. name \in Names /\ ~Segments(a, name).failed
    <3>1. p.declares \in Seq(Names)
      BY ProgramAssumption, Zenon
    <3>2. name \in Names
      BY <3>1, Elements DEF Range
    <3>3. ~Fails(all, name)
      BY DEF Accepted, Declares
    <3> QED BY <3>2, <3>3 DEF Fails, AllSegments
  <2>2. PICK o \in At(all, name, u) : SayTheSame(a, s, o)
    BY <2>1, AlikeAt
  <2>3. p.struct # None /\ u \in CoveredBy(Users(a, all))
    BY <1>5, <2>2 DEF Compiles, StructFound, SayTheSame
  <2>4. PICK x \in Users(a, all) : u \in SegmentTargets(x)
    BY <2>3 DEF CoveredBy
  <2>5. PICK op \in Catalogued :
               /\ ~Fails(all, LatestName(op))
               /\ x \in Range(all[LatestName(op)].segments)
               /\ StructIn[ResolvedEntry(a, x.facts).definition] # None
    BY <2>4 DEF Users
  <2> DEFINE m == LatestName(op)
  <2>6. m \in Names /\ ~Segments(a, m).failed /\ x \in At(all, m, u)
    BY <2>4, <2>5, CataloguedNames DEF Fails, AllSegments, At
  <2>7. PICK y \in At(all, m, t) : SayTheSame(a, x, y)
    BY <2>6, AlikeAt
  <2>8. y \in Users(a, all) /\ t \in SegmentTargets(y)
    BY <2>5, <2>7 DEF Users, At, SayTheSame
  <2> QED BY <2>3, <2>8 DEF CoveredBy
<1> QED BY <1>2, <1>3, <1>4, <1>5 DEF Compiles, StructFound

(* For any catalog, annotations and programs: a crate that compiles for the   *)
(* first target of each interface compiles for every target.                  *)
THEOREM CatalogDistinctSuffice == Spec => []DistinctSuffice
<1>1. ASSUME TypeOK, MergeInv, FileInv PROVE DistinctSuffice
  <2> SUFFICES ASSUME Published, NEW a \in Audited, NEW p \in Programs,
                      Accepted(a, AllSegments(a), Required(AllSegments(a)), p),
                      \A u \in DistinctTargets(a) :
                        Compiles(a, AllSegments(a), Required(AllSegments(a)), p, u),
                      NEW t \in Targets
               PROVE  Compiles(a, AllSegments(a), Required(AllSegments(a)), p, t)
    BY DEF DistinctSuffice
  <2>1. PICK u \in DistinctTargets(a) : Interface(a, u) = Interface(a, t)
    BY LeastTarget, <1>1
  <2>2. u \in Targets
    BY DEF DistinctTargets
  <2> QED BY <1>1, <2>1, <2>2, AlikeCompile DEF Published
<1>2. TypeOK /\ MergeInv /\ FileInv => DistinctSuffice
  BY <1>1
<1> QED BY <1>2, FileInvariant, PTL
===============================================================================
