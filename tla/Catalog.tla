-------------------------------- MODULE Catalog --------------------------------
(* The catalog of stm32wb-catalog: what each Cube release says of a command,  *)
(* merged into histories.  A history is a sequence of runs, each a value and  *)
(* the range of releases carrying it.  A command has three histories, of its  *)
(* names, of the profiles supporting it and of its definitions; events have   *)
(* the same three, and binaries, statuses and documented values one each.     *)
(*                                                                            *)
(* The module follows one `extract` of stm32wb-catalog-extract: the releases  *)
(* are chosen and sorted, their snapshots merged one at a time, the result is *)
(* validated and replaces the catalog file.  A version is a number; only its  *)
(* order matters.  Sorting and deduplicating profiles makes them a set.       *)
EXTENDS SequencesExt, FiniteSets, Naturals

CONSTANTS
  Versions,     \* the tagged releases of STM32Cube
  Opcodes,
  Names,        \* C names of commands
  Profiles,
  Layouts,      \* what a definition may state, Unresolved included
  Snapshots,    \* what the extraction of a release may find, sets of Commands
  Requests,     \* the releases --release may ask for
  None

Commands == [opcode : Opcodes, name : Names, profiles : SUBSET Profiles,
             definition : Layouts]

Facts == {"name", "profiles", "definition"}

ASSUME VersionAssumption == Versions \subseteq Nat
ASSUME RequestAssumption ==
  \A wanted \in Requests : wanted \subseteq Versions /\ IsFiniteSet(wanted)
ASSUME SnapshotAssumption == Snapshots \subseteq SUBSET Commands

VARIABLES
  cube,       \* what the sources of each release extracted so far state
  file,       \* the checked-in catalog, or None
  pc,         \* "idle", or "merging" inside an extract
  releases,   \* the releases of this extract, in ascending order
  index,      \* how many of them are merged
  merged      \* the histories, with indexes into `releases` for ranges

vars == <<cube, file, pc, releases, index, merged>>

Values == Names \cup (SUBSET Profiles) \cup Layouts

Indexes == Nat \ {0}

Runs(range) == [first : range, last : range, value : Values]

Histories(range) == [Opcodes -> [Facts -> Seq(Runs(range))]]

Catalogs == [releases : Seq(Versions), commands : Histories(Versions)]

TypeOK ==
  /\ DOMAIN cube \subseteq Versions
  /\ cube \in [DOMAIN cube -> Snapshots]
  /\ file = None \/ file \in Catalogs
  /\ pc \in {"idle", "merging"}
  /\ releases \in Seq(Versions)
  /\ index \in 0..Len(releases)
  /\ merged \in Histories(Indexes)

NoHistories == [op \in Opcodes |-> [k \in Facts |-> <<>>]]

Init ==
  /\ cube = <<>>
  /\ file = None
  /\ pc = "idle"
  /\ releases = <<>>
  /\ index = 0
  /\ merged = NoHistories

Ascending(s) == \A i, j \in DOMAIN s : i < j => s[i] < s[j]

Described == IF file = None THEN {} ELSE ToSet(file.releases)

(* Extract the releases `wanted`.  A tag never changes: a release extracted   *)
(* before has the same snapshot again.  They are sorted and deduplicated, and *)
(* merge_snapshots sorts them once more.                                      *)
Extract(wanted) ==
  /\ pc = "idle"
  /\ wanted # {}
  /\ \E source \in [wanted \ DOMAIN cube -> Snapshots] :
       cube' = [v \in DOMAIN cube \cup wanted |->
                  IF v \in DOMAIN cube THEN cube[v] ELSE source[v]]
  /\ \E order \in [1..Cardinality(wanted) -> wanted] :
       /\ ToSet(order) = wanted
       /\ Ascending(order)
       /\ releases' = order
  /\ pc' = "merging"
  /\ UNCHANGED <<file, index, merged>>

(* `extract --release ...`, and `extract` with any number of `--add`.         *)
ExtractRequested == \E wanted \in Requests : Extract(wanted)

ExtractAdded ==
  \E added \in SUBSET Versions :
    IsFiniteSet(added) /\ Extract(Described \cup added)

(* The process ends; its data goes.                                           *)
Exit ==
  /\ pc' = "idle"
  /\ releases' = <<>>
  /\ index' = 0
  /\ merged' = NoHistories

SnapshotOf(i) == cube[releases[i]]

CommandsOf(i, op) == {c \in SnapshotOf(i) : c.opcode = op}

HasDuplicate(i) ==
  \E c, d \in SnapshotOf(i) : c # d /\ c.opcode = d.opcode

(* Mutants of Coalesced: a gap does not end a run, and every release is a run *)
(* of its own.                                                                *)
CoalescedOverGaps(runs, i, value) ==
  IF runs # <<>> /\ runs[Len(runs)].value = value
  THEN [runs EXCEPT ![Len(runs)].last = i]
  ELSE Append(runs, [first |-> i, last |-> i, value |-> value])

NeverCoalesced(runs, i, value) ==
  Append(runs, [first |-> i, last |-> i, value |-> value])

(* One entry of a history: it extends the last run if that ends just before   *)
(* it with the same value, and starts another one otherwise.                  *)
Coalesced(runs, i, value) ==
  IF /\ runs # <<>>
     /\ runs[Len(runs)].last + 1 = i
     /\ runs[Len(runs)].value = value
  THEN [runs EXCEPT ![Len(runs)].last = i]
  ELSE Append(runs, [first |-> i, last |-> i, value |-> value])

(* What release i adds to one history of a command.                           *)
Entered(runs, i, op, k) ==
  LET c == CHOOSE c \in CommandsOf(i, op) : TRUE
  IN  IF CommandsOf(i, op) = {} THEN runs ELSE Coalesced(runs, i, c[k])

(* The entries of the next release join their histories.  A command listed    *)
(* twice fails the merge, and the file stays as it was.  merge_snapshots      *)
(* collects the entries of all releases before it coalesces them; as each     *)
(* history takes its own entries in the order of releases, the outcome is the *)
(* same.                                                                      *)
MergeSnapshot ==
  /\ pc = "merging"
  /\ index < Len(releases)
  /\ \/ /\ HasDuplicate(index + 1)
        /\ Exit
     \/ /\ ~HasDuplicate(index + 1)
        /\ index' = index + 1
        /\ merged' = [op \in Opcodes |-> [k \in Facts |->
             Entered(merged[op][k], index + 1, op, k)]]
        /\ UNCHANGED <<pc, releases>>
  /\ UNCHANGED <<cube, file>>

(* The merged histories with versions for indexes.                            *)
MergedCatalog ==
  [releases |-> releases,
   commands |-> [op \in Opcodes |-> [k \in Facts |->
     [j \in DOMAIN merged[op][k] |->
        [first |-> releases[merged[op][k][j].first],
         last |-> releases[merged[op][k][j].last],
         value |-> merged[op][k][j].value]]]]]

Holds(run, v) == run.first <= v /\ v <= run.last

Overlap(run, other) == run.first <= other.last /\ other.first <= run.last

Covered(catalog, runs) ==
  {v \in ToSet(catalog.releases) : \E j \in DOMAIN runs : Holds(runs[j], v)}

(* The commands of a catalog, those with an entry.                            *)
Listed(catalog) ==
  {op \in Opcodes : catalog.commands[op]["definition"] # <<>>}

(* validate_history: the ranges of each history do not overlap, the three     *)
(* histories cover the same releases, and some profile supports the command.  *)
ValidHistory(catalog, history) ==
  /\ \A k \in Facts : \A i, j \in DOMAIN history[k] :
       i # j => ~Overlap(history[k][i], history[k][j])
  /\ \A k \in Facts :
       Covered(catalog, history[k]) = Covered(catalog, history["definition"])
  /\ \A j \in DOMAIN history["profiles"] : history["profiles"][j].value # {}

(* Every range is bounded by declared releases.                               *)
BoundedRanges(catalog, history) ==
  \A k \in Facts : \A j \in DOMAIN history[k] :
    {history[k][j].first, history[k][j].last} \subseteq ToSet(catalog.releases)

(* Mutant of ValidCatalog: availability without profiles is accepted.         *)
ProfilesUnchecked(catalog) ==
  /\ Ascending(catalog.releases)
  /\ \A op \in Listed(catalog) : BoundedRanges(catalog, catalog.commands[op])

ValidCatalog(catalog) ==
  /\ catalog.releases # <<>>
  /\ Ascending(catalog.releases)
  /\ \A op \in Listed(catalog) :
       /\ ValidHistory(catalog, catalog.commands[op])
       /\ BoundedRanges(catalog, catalog.commands[op])

(* The catalog is written if it is valid.  The audit of the annotations comes *)
(* after the write and does not undo it.                                      *)
WriteCatalog ==
  /\ pc = "merging"
  /\ index = Len(releases)
  /\ \/ /\ ValidCatalog(MergedCatalog)
        /\ file' = MergedCatalog
     \/ /\ ~ValidCatalog(MergedCatalog)
        /\ UNCHANGED file
  /\ Exit
  /\ UNCHANGED cube

Next ==
  \/ ExtractRequested
  \/ ExtractAdded
  \/ MergeSnapshot
  \/ WriteCatalog

Spec == Init /\ [][Next]_vars

-------------------------------------------------------------------------------
(* The run a release finds in a history, the first that holds it; 0 is none.  *)
RunAt(runs, v) ==
  LET hits == {j \in DOMAIN runs : Holds(runs[j], v)}
  IN  IF hits = {} THEN 0 ELSE Min(hits)

(* name_at, profiles_at and definition_at.                                    *)
ValueAt(runs, v) ==
  IF RunAt(runs, v) = 0 THEN None ELSE runs[RunAt(runs, v)].value

(* The catalog answers for every release it describes what that release's own *)
(* sources state, and nothing for a command they lack, whatever releases were *)
(* added in whatever order, with changes, gaps and reappearances between.     *)
ReadsBack ==
  file # None =>
    \A v \in Described, op \in Opcodes, k \in Facts :
      LET value == ValueAt(file.commands[op][k], v)
      IN  IF \E c \in cube[v] : c.opcode = op
          THEN \E c \in cube[v] : c.opcode = op /\ value = c[k]
          ELSE RunAt(file.commands[op][k], v) = 0

(* Consecutive runs of a history are in order, and two with one value are     *)
(* separated by a described release: identical facts of neighbours are one    *)
(* range (what segments and distinct_targets compare is the identity of runs).*)
RunsMaximal ==
  file # None =>
    \A op \in Opcodes, k \in Facts :
      LET runs == file.commands[op][k]
      IN  \A j \in 1..(Len(runs) - 1) :
            /\ runs[j].last < runs[j + 1].first
            /\ runs[j].value = runs[j + 1].value =>
                 \E v \in Described : runs[j].last < v /\ v < runs[j + 1].first

(* Merging neither makes nor hides a fault: the merged catalog is valid       *)
(* exactly if every release by itself is, that is, supports each of its       *)
(* commands in some profile.                                                  *)
MergedFaults ==
  (pc = "merging" /\ index = Len(releases)) =>
    (ValidCatalog(MergedCatalog) <=>
       \A i \in DOMAIN releases : \A c \in SnapshotOf(i) : c.profiles # {})
===============================================================================
