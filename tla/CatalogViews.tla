------------------------------ MODULE CatalogViews -----------------------------
(* How the catalog file is read: the annotations audited against it, the      *)
(* command a release defines with every layer resolved, the segments of a     *)
(* command's history that become its compiled variants, and the targets with  *)
(* distinct interfaces.  References to an item of the catalog, compared with  *)
(* ptr::eq, are the item's position; 0 is no item.                            *)
EXTENDS Catalog

CONSTANTS
  Unresolved,        \* the definition whose layout the extractor left open
  AnnotationFiles    \* the annotation files to audit, sequences of Annotations

ASSUME UnresolvedAssumption == Unresolved \in Layouts

(* Opcodes and event codes are numbers of 16 bits.                            *)
ASSUME OpcodeAssumption == IsFiniteSet(Opcodes)

(* A profile is its position in Profile::ALL.                                 *)
ASSUME ProfileAssumption == Profiles \subseteq Nat

(* An annotation of a command, by C name, for a range of releases or for all; *)
(* it supplies a layout or excludes the command.                              *)
Annotations ==
  [name : Names, releases : [first : Versions, last : Versions] \cup {None},
   layout : (Layouts \ {Unresolved}) \cup {None}, exclude : BOOLEAN,
   override : BOOLEAN]

ASSUME AnnotationAssumption == AnnotationFiles \subseteq Seq(Annotations)

Applies(annotation, v) ==
  annotation.releases # None => Holds(annotation.releases, v)

Carries(op, name) ==
  \E j \in DOMAIN file.commands[op]["name"] :
    file.commands[op]["name"][j].value = name

Carriers(name) == {op \in Opcodes : Carries(op, name)}

DefinitionAt(op, v) == RunAt(file.commands[op]["definition"], v)

Defined(op, v) == DefinitionAt(op, v) # 0

(* The name selects one entry, among all names ever carried.                  *)
Entry(name) == Cardinality(Carriers(name)) = 1

(* A layout fills an unresolved one, or overrides one that differs.           *)
FitsExtracted(annotation, extracted) ==
  IF annotation.override
  THEN extracted \notin {Unresolved, annotation.layout}
  ELSE extracted = Unresolved

AuditOne(annotation) ==
  /\ annotation.exclude <=> annotation.layout = None
  /\ ~(annotation.exclude /\ annotation.override)
  /\ Entry(annotation.name)
  /\ LET op == CHOOSE op \in Carriers(annotation.name) : TRUE
         range == annotation.releases
         applied == {v \in Described : Applies(annotation, v)}
     IN  /\ range # None =>
              /\ {range.first, range.last} \subseteq Described
              /\ \A v \in applied : Defined(op, v)
         /\ annotation.layout # None =>
              \A v \in applied : Defined(op, v) =>
                FitsExtracted(annotation, ValueAt(file.commands[op]["definition"], v))

RangesOverlap(left, right) ==
  (left # None /\ right # None) => Overlap(left, right)

FactsOverlap(left, right) ==
  \/ left.exclude /\ right.exclude
  \/ left.layout # None /\ right.layout # None

SameFact(left, right) ==
  /\ left.name = right.name
  /\ RangesOverlap(left.releases, right.releases)
  /\ FactsOverlap(left, right)

(* Mutant of Audit: annotations are not compared with each other.             *)
AuditEach(annotations) == \A i \in DOMAIN annotations : AuditOne(annotations[i])

Audit(annotations) ==
  /\ \A i \in DOMAIN annotations : AuditOne(annotations[i])
  /\ \A i, j \in DOMAIN annotations :
       i < j => ~SameFact(annotations[i], annotations[j])

-------------------------------------------------------------------------------
First(S) == IF S = {} THEN 0 ELSE Min(S)

Matching(annotations, name, v) ==
  {i \in DOMAIN annotations :
     annotations[i].name = name /\ Applies(annotations[i], v)}

LayoutFor(annotations, name, v) ==
  First({i \in Matching(annotations, name, v) : annotations[i].layout # None})

ExclusionFor(annotations, name, v) ==
  First({i \in Matching(annotations, name, v) : annotations[i].exclude})

(* A command as defined in a release, with every layer resolved.              *)
ActiveCommand(annotations, op, v) ==
  LET name == ValueAt(file.commands[op]["name"], v)
  IN  [command |-> op,
       name |-> RunAt(file.commands[op]["name"], v),
       definition |-> DefinitionAt(op, v),
       layout |-> LayoutFor(annotations, name, v),
       excluded |-> ExclusionFor(annotations, name, v)]

(* What one release contributes to the segments of a name: the entries it     *)
(* defines among those that ever carried the name.                            *)
ActiveEntries(annotations, name, v) ==
  {[profiles |-> RunAt(file.commands[op]["profiles"], v),
    entry |-> ActiveCommand(annotations, op, v)] :
     op \in {o \in Carriers(name) : Defined(o, v)}}

Extended(segments, v) == [segments EXCEPT ![Len(segments)].last = v]

Started(segments, facts, v) ==
  Append(segments, [first |-> v, last |-> v, facts |-> facts])

(* Mutant of Segmented: profiles are not compared.                            *)
SegmentedByEntry(so, active, v) ==
  LET facts == CHOOSE facts \in active : TRUE
      last == so.segments[Len(so.segments)]
  IN  IF so.failed THEN so
      ELSE IF Cardinality(active) > 1 THEN [so EXCEPT !.failed = TRUE]
      ELSE IF active = {} THEN [so EXCEPT !.adjacent = FALSE]
      ELSE IF so.adjacent /\ so.segments # <<>> /\ last.facts.entry = facts.entry
      THEN [so EXCEPT !.segments = Extended(@, v)]
      ELSE [so EXCEPT !.adjacent = TRUE, !.segments = Started(@, facts, v)]

(* One release in the loop of Bundled::segments.  Two entries fail; none ends *)
(* the segment; the same facts as the release before extend it.               *)
Segmented(so, active, v) ==
  LET facts == CHOOSE facts \in active : TRUE
      last == so.segments[Len(so.segments)]
  IN  IF so.failed THEN so
      ELSE IF Cardinality(active) > 1 THEN [so EXCEPT !.failed = TRUE]
      ELSE IF active = {} THEN [so EXCEPT !.adjacent = FALSE]
      ELSE IF so.adjacent /\ so.segments # <<>> /\ last.facts = facts
      THEN [so EXCEPT !.segments = Extended(@, v)]
      ELSE [so EXCEPT !.adjacent = TRUE, !.segments = Started(@, facts, v)]

(* Bundled::command_segments; no segments at all are an error too.            *)
Segments(annotations, name) ==
  LET after[n \in 0..Len(file.releases)] ==
        LET v == file.releases[n]
        IN  IF n = 0 THEN [segments |-> <<>>, adjacent |-> FALSE, failed |-> FALSE]
            ELSE Segmented(after[n - 1], ActiveEntries(annotations, name, v), v)
  IN  after[Len(file.releases)]

(* The commands a target accepts.                                             *)
ViewCommands(annotations, target) ==
  {ActiveCommand(annotations, op, target.release) : op \in
     {o \in Opcodes : /\ RunAt(file.commands[o]["profiles"], target.release) # 0
                      /\ target.profile \in
                           ValueAt(file.commands[o]["profiles"], target.release)}}

Targets == [release : Described, profile : Profiles]

(* Mutant of Interface: annotations are no part of it.                        *)
ExtractedInterface(annotations, target) ==
  {<<active.command, active.definition>> : active \in ViewCommands(annotations, target)}

(* The identity of a target's interface; names are no part of it.             *)
Interface(annotations, target) ==
  {<<active.command, active.definition, active.layout, active.excluded>> :
     active \in ViewCommands(annotations, target)}

Before(t, u) ==
  \/ t.release < u.release
  \/ t.release = u.release /\ t.profile < u.profile

(* distinct_targets: the first target of each interface.                      *)
DistinctTargets(annotations) ==
  {t \in Targets : ~\E u \in Targets :
     Before(u, t) /\ Interface(annotations, u) = Interface(annotations, t)}

-------------------------------------------------------------------------------
(* What the properties compare the views with: a command in the sources of a  *)
(* release, its layout replaced by the annotation that applies.               *)
Resolved(annotations, c, v) ==
  LET i == LayoutFor(annotations, c.name, v)
  IN  [c EXCEPT !.definition = IF i = 0 THEN @ ELSE annotations[i].layout]

ResolvedEntry(annotations, facts) ==
  LET e == facts.entry
      history == file.commands[e.command]
  IN  [opcode |-> e.command,
       name |-> history["name"][e.name].value,
       profiles |-> history["profiles"][facts.profiles].value,
       definition |-> IF e.layout # 0 THEN annotations[e.layout].layout
                      ELSE history["definition"][e.definition].value]

EverNamed(name) ==
  {c.opcode : c \in {d \in UNION {cube[v] : v \in Described} : d.name = name}}

Audited == {a \in AnnotationFiles : Audit(a)}

Published == pc = "idle" /\ file # None

(* The segments of a name, the variants a declaration is compiled to, state   *)
(* for each release exactly what its sources and the audited annotations say  *)
(* of the commands that ever had the name; a release without one is in no     *)
(* segment, one with two is an error, and neighbours with the same facts are  *)
(* never two variants.                                                        *)
SegmentsExact ==
  Published => \A a \in Audited, name \in Names :
    LET so == Segments(a, name)
        segments == so.segments
        named(v) == {c \in cube[v] : c.opcode \in EverNamed(name)}
        around(v) == {n \in DOMAIN segments : Holds(segments[n], v)}
    IN  /\ so.failed <=> \E v \in Described : Cardinality(named(v)) > 1
        /\ ~so.failed =>
             /\ \A v \in Described :
                  /\ Cardinality(around(v)) = Cardinality(named(v))
                  /\ \A n \in around(v) : \A c \in named(v) :
                       /\ ResolvedEntry(a, segments[n].facts) = Resolved(a, c, v)
                       /\ segments[n].facts.entry.excluded = ExclusionFor(a, c.name, v)
             /\ \A n \in 1..(Len(segments) - 1) :
                  segments[n].facts = segments[n + 1].facts =>
                    \E v \in Described : /\ segments[n].last < v
                                         /\ v < segments[n + 1].first

(* After an audit, annotations apply in one way only, whatever their order in *)
(* the file, and never contradict the sources silently: each one in force for *)
(* a command of a release fills a layout those sources left open, or is       *)
(* marked as an override and differs from them.  The audit goes by any name a *)
(* command ever had, the resolution by its name in that release.              *)
AnnotationsAgree ==
  Published => \A a \in Audited, v \in Described : \A c \in cube[v] :
    LET layouts == {i \in Matching(a, c.name, v) : a[i].layout # None}
        exclusions == {i \in Matching(a, c.name, v) : a[i].exclude}
    IN  /\ Cardinality(layouts) <= 1
        /\ Cardinality(exclusions) <= 1
        /\ \A i \in layouts :
             IF a[i].override
             THEN c.definition \notin {Unresolved, a[i].layout}
             ELSE c.definition = Unresolved
===============================================================================
