----------------------------- MODULE Completeness ------------------------------
(* What the macros of stm32wb-hci-macros make of the whole catalog when the   *)
(* crate is compiled for a target: that every command and event has exactly   *)
(* one declaration (complete.rs), that the enum of events decodes each into   *)
(* its own variant (dispatch.rs), that the types of bt-hci standing for the   *)
(* entries of the Bluetooth Core fit them (standard.rs), that a structure has *)
(* one definition (structs.rs), and the last enhanced bearer (bearer.rs).     *)
(*                                                                            *)
(* Commands and events have the same histories, and the macros treat them     *)
(* alike: an entry of the catalog here stands for either.  `all` is the       *)
(* segments of every name, all[name] = Segments(a, name).                     *)
EXTENDS CatalogViews

CONSTANTS
  Core,           \* the opcodes of the Bluetooth Core; the others are ST's
  CoreEvents,     \* those that are codes of events
  OpcodeOrder,    \* the order of the entries in the catalog
  NameOrder,      \* the alphabet
  Widths,         \* by layout: its width if fixed, or None
  StructIn,       \* by layout: the definition of the structure it holds, or None
  BearerIn,       \* by layout: the last enhanced bearer documented, or None
  Programs

ASSUME OrderAssumption ==
  /\ OpcodeOrder \in Seq(Opcodes) /\ ToSet(OpcodeOrder) = Opcodes
  /\ NameOrder \in Seq(Names) /\ ToSet(NameOrder) = Names
  /\ CoreEvents \subseteq Core

(* The crate: the names vendor_command!, vendor_event! and the like declare,  *)
(* the types standard_commands! and standard_events! list, the variants of    *)
(* the enum of events, each with the type declared for the name `type`, and   *)
(* the definition of the one vendor_struct!, or None.                         *)
ASSUME ProgramAssumption ==
  \A p \in Programs :
    /\ p.declares \in Seq(Names) /\ IsInjective(p.declares)
    /\ p.lists \in Seq([name : Names, code : Opcodes, width : Nat])
    /\ p.variants \in Seq([name : Names, type : ToSet(p.declares)])
    /\ p.struct \in Range(StructIn) \cup {None}

(* Mutant of Catalogued: entries of the Bluetooth Core are left out.          *)
VendorCatalogued == {op \in Opcodes \ Core : file.commands[op]["name"] # <<>>}

(* The entries of the catalog; OpcodeOrder is their order.                    *)
Catalogued == {op \in Opcodes : file.commands[op]["name"] # <<>>}

LatestName(op) == Last(file.commands[op]["name"]).value

Fails(all, name) == all[name].failed \/ all[name].segments = <<>>

(* The targets a segment covers, for which its items are compiled.            *)
SegmentTargets(segment) ==
  {t \in Targets :
     /\ Holds(segment, t.release)
     /\ t.profile \in
          file.commands[segment.facts.entry.command]["profiles"][segment.facts.profiles].value}

CoveredBy(segments) == UNION {SegmentTargets(segment) : segment \in segments}

At(all, name, t) ==
  {segment \in Range(all[name].segments) : t \in SegmentTargets(segment)}

LatestIn(segment) == LatestName(segment.facts.entry.command)

Excluded(segment) == segment.facts.entry.excluded # 0

(* entries: the targets of each entry carrying a name, by its latest name,    *)
(* which its marker has.                                                      *)
ByLatest(segments) ==
  [entry \in {LatestIn(segment) : segment \in segments} |->
     CoveredBy({segment \in segments : LatestIn(segment) = entry})]

Entries(all, name) ==
  ByLatest({segment \in Range(all[name].segments) : ~Excluded(segment)})

TargetsOf(entries) == UNION Range(entries)

------------------------------------------------------------------------------
(* platform_checks: the targets on which each marker must be implemented.  A  *)
(* name that is the marker of an entry before is not looked at again.         *)
Merged(required, entries) ==
  [entry \in DOMAIN required \cup DOMAIN entries |->
     (IF entry \in DOMAIN required THEN required[entry] ELSE {})
       \cup IF entry \in DOMAIN entries THEN entries[entry] ELSE {}]

Demanded(all, required, op) ==
  IF required = None \/ op \notin Catalogued THEN required
  ELSE IF LatestName(op) \in DOMAIN required THEN required
  ELSE IF Fails(all, LatestName(op)) THEN None
  ELSE Merged(required, Entries(all, LatestName(op)))

Required(all) ==
  LET after[n \in 0..Len(OpcodeOrder)] ==
        IF n = 0 THEN <<>> ELSE Demanded(all, after[n - 1], OpcodeOrder[n])
  IN  after[Len(OpcodeOrder)]

(* A declaration of one name, with every layout resolved.                     *)
Declares(annotations, all, name) ==
  /\ ~Fails(all, name)
  /\ \A segment \in Range(all[name].segments) :
       /\ segment.facts.entry.command \notin Core
       /\ ~Excluded(segment)
       /\ ResolvedEntry(annotations, segment.facts).definition # Unresolved

(* expand_entry and expand_event: an entry is listed once, by any name.       *)
Lists(all, lists) ==
  LET latest(i) == LatestIn(Last(all[lists[i].name].segments))
  IN  /\ \A i \in DOMAIN lists : ~Fails(all, lists[i].name)
      /\ \A i, j \in DOMAIN lists : latest(i) = latest(j) => i = j
      /\ \A i \in DOMAIN lists : \A segment \in Range(all[lists[i].name].segments) :
           segment.facts.entry.command \in Core /\ ~Excluded(segment)

(* The facts asserted of a listed type on a target, when it is compiled: the  *)
(* width of an event's type is left to a test that is generated.              *)
FactsHold(annotations, all, type, t) ==
  \A segment \in At(all, type.name, t) :
    /\ type.code = segment.facts.entry.command
    /\ \/ segment.facts.entry.command \in CoreEvents
       \/ Widths[ResolvedEntry(annotations, segment.facts).definition] \in {None, type.width}

------------------------------------------------------------------------------
(* expand_on_platform: the variants of the enum.  The scope of a name is that *)
(* of the first entry carrying it.                                            *)
ScopeOf(name) ==
  OpcodeOrder[Min({i \in DOMAIN OpcodeOrder : Carries(OpcodeOrder[i], name)})]

VariantExpands(all, name) ==
  /\ Carriers(name) # {} /\ ScopeOf(name) \notin Core
  /\ ~Fails(all, name) /\ DOMAIN Entries(all, name) # {}

VendorNames == {LatestName(op) : op \in Catalogued \ Core}

Expands(all, variants) ==
  /\ \A i \in DOMAIN variants : VariantExpands(all, variants[i].name)
  /\ \A i, j \in DOMAIN variants :
       i # j => DOMAIN Entries(all, variants[i].name) \cap DOMAIN Entries(all, variants[j].name) = {}
  /\ \A name \in VendorNames :
       /\ ~Fails(all, name)
       /\ \A entry \in DOMAIN Entries(all, name) : \E i \in DOMAIN variants :
            entry \in DOMAIN Entries(all, variants[i].name)

Enabled(all, variant, t) == t \in TargetsOf(Entries(all, variant.name))

(* The name a variant's type must bear, the first of its entries'.            *)
FirstOf(entries) ==
  NameOrder[Min({i \in DOMAIN NameOrder : NameOrder[i] \in DOMAIN entries})]

(* Mutant of TypeChecked: any type that exists on the target will do.         *)
TypeExists(all, variant, t) == At(all, variant.type, t) # {}

(* The variant's type exists on the target, as that event.                    *)
TypeChecked(all, variant, t) ==
  /\ At(all, variant.type, t) # {}
  /\ \A segment \in At(all, variant.type, t) :
       LatestIn(segment) = FirstOf(Entries(all, variant.name))

(* from_vendor_params: the first variant whose type has the code, or 0.       *)
Decoded(all, variants, t, code) ==
  First({i \in DOMAIN variants :
           /\ Enabled(all, variants[i], t)
           /\ \E segment \in At(all, variants[i].type, t) :
                segment.facts.entry.command = code})

------------------------------------------------------------------------------
(* vendor_struct!: every layout holding the structure agrees on it, and it    *)
(* exists on the targets of those.  A name that fails is passed over.         *)
Users(annotations, all) ==
  UNION {{segment \in Range(all[name].segments) :
            StructIn[ResolvedEntry(annotations, segment.facts).definition] # None} :
           name \in {LatestName(op) : op \in {o \in Catalogued : ~Fails(all, LatestName(o))}}}

StructExpands(annotations, all, struct) ==
  struct # None =>
    {StructIn[ResolvedEntry(annotations, segment.facts).definition] :
       segment \in Users(annotations, all)} = {struct}

(* A declaration whose layout holds the structure finds its type.             *)
StructFound(annotations, all, p, t) ==
  \A name \in Range(p.declares) : \A segment \in At(all, name, t) :
    StructIn[ResolvedEntry(annotations, segment.facts).definition] # None =>
      p.struct # None /\ t \in CoveredBy(Users(annotations, all))

(* bearer.rs: what the definitions of a release document, one for all.        *)
Documented(v) ==
  {BearerIn[ValueAt(file.commands[op]["definition"], v)] :
     op \in {o \in Opcodes : Defined(o, v)}} \ {None}

Bearers == \A v \in Described : Cardinality(Documented(v)) = 1

LastEnhanced(v) == CHOOSE bearer \in Documented(v) : TRUE

------------------------------------------------------------------------------
(* The names of the declarations and lists that implement markers.            *)
Declaring(p) == p.declares \o [i \in DOMAIN p.lists |-> p.lists[i].name]

(* Every macro of the crate expands.                                          *)
Accepted(annotations, all, required, p) ==
  /\ required # None
  /\ \A name \in Range(p.declares) : Declares(annotations, all, name)
  /\ Lists(all, p.lists)
  /\ Expands(all, p.variants)
  /\ StructExpands(annotations, all, p.struct)

Implementations(all, p, entry, t) ==
  {i \in DOMAIN Declaring(p) :
     LET entries == Entries(all, Declaring(p)[i])
     IN  entry \in DOMAIN entries /\ t \in entries[entry]}

(* No marker is implemented twice on the target, none required is missing.    *)
MarkerFits(implementations, required, entry, t) ==
  /\ Cardinality(implementations) <= 1
  /\ implementations # {} => entry \in DOMAIN required
  /\ entry \in DOMAIN required /\ t \in required[entry] => implementations # {}

MarkersFit(all, required, p, t) ==
  \A entry \in Names : MarkerFits(Implementations(all, p, entry, t), required, entry, t)

(* What the macros generate compiles for the target.                          *)
Compiles(annotations, all, required, p, t) ==
  /\ MarkersFit(all, required, p, t)
  /\ \A i \in DOMAIN p.lists : FactsHold(annotations, all, p.lists[i], t)
  /\ \A i \in DOMAIN p.variants :
       Enabled(all, p.variants[i], t) => TypeChecked(all, p.variants[i], t)
  /\ StructFound(annotations, all, p, t)

------------------------------------------------------------------------------
(* What the sources of a release and the annotations say a target implements. *)
Implemented(annotations, t) ==
  {Resolved(annotations, c, t.release) :
     c \in {d \in cube[t.release] :
              t.profile \in d.profiles /\ ExclusionFor(annotations, d.name, t.release) = 0}}

DeclaredFor(p, c) == {i \in DOMAIN Declaring(p) : c.opcode \in EverNamed(Declaring(p)[i])}

(* On a target the crate compiles for, each command and event of the target's *)
(* own sources has exactly one declaration, of the right kind.                *)
DeclaredOnce(p, c) ==
  /\ Cardinality(DeclaredFor(p, c)) = 1
  /\ \A i \in DeclaredFor(p, c) : c.opcode \in Core <=> i > Len(p.declares)

(* The type of bt-hci listed for it has its opcode and, if it is a command,   *)
(* its width, where that is fixed.                                            *)
CoreFits(p, c) ==
  \A i \in DeclaredFor(p, c) :
    i > Len(p.declares) =>
      LET type == p.lists[i - Len(p.declares)]
      IN  /\ type.code = c.opcode
          /\ c.opcode \in CoreEvents \/ Widths[c.definition] \in {None, type.width}

(* The structure in the layout of a declared one is as the crate defines it.  *)
StructFits(p, c) ==
  c.opcode \notin Core => StructIn[c.definition] \in {None, p.struct}

(* A code decodes into the variant named after the event that has it on the   *)
(* target, of the type declared for that event, and no other code decodes.    *)
DecodesOwn(all, p, t, code, emitted) ==
  LET i == Decoded(all, p.variants, t, code)
      own == {c \in emitted : c.opcode = code /\ code \notin Core}
  IN  /\ own = {} <=> i = 0
      /\ i # 0 =>
           code \in EverNamed(p.variants[i].name) \cap EverNamed(p.variants[i].type)

AllSegments(annotations) == [name \in Names |-> Segments(annotations, name)]

(* The programs that compile, each with a target it compiles for.             *)
Compiled(annotations, all) ==
  LET required == Required(all)
      accepted == {p \in Programs : Accepted(annotations, all, required, p)}
  IN  {built \in accepted \X Targets :
         Compiles(annotations, all, required, built[1], built[2])}

(* Entries with the same latest name, which share a marker, have had the same *)
(* of these names.  The code takes it for granted: without it, an entry that  *)
(* takes over the latest name of another is passed over by the checks.        *)
MarkersWhole(names) ==
  \A op, other \in Catalogued :
    LatestName(op) = LatestName(other) =>
      \A name \in names : Carries(op, name) <=> Carries(other, name)

LatestNames == {LatestName(op) : op \in Catalogued}

VariantNames(variants) == {variant.name : variant \in Range(variants)}

(* A crate that compiles for a target is complete and right for it, whatever  *)
(* was renamed, moved to another code, removed and brought back, excluded or  *)
(* annotated on the way: nothing the target implements is undeclared or       *)
(* declared twice, and types written by hand agree with the target's sources. *)
(* LAST_ENHANCED, where it is generated, is what the release documents.       *)
CompiledFits ==
  Published =>
    /\ MarkersWhole(LatestNames) =>
         \A a \in Audited : \A built \in Compiled(a, AllSegments(a)) :
           \A c \in Implemented(a, built[2]) :
             /\ DeclaredOnce(built[1], c)
             /\ CoreFits(built[1], c)
             /\ StructFits(built[1], c)
    /\ Bearers => \A v \in Described : \A c \in cube[v] :
                    BearerIn[c.definition] \in {None, LastEnhanced(v)}

(* Every event packet of a target is decoded into the variant of its event,   *)
(* by the layout declared for it.                                             *)
DispatchExact ==
  Published =>
    \A a \in Audited :
      LET all == AllSegments(a)
      IN  \A built \in Compiled(a, all) :
            MarkersWhole(VariantNames(built[1].variants)) =>
              \A code \in Opcodes :
                DecodesOwn(all, built[1], built[2], code, Implemented(a, built[2]))

(* Building the distinct targets finds what building every target would: a    *)
(* crate whose macros expand and whose generated items compile for each of    *)
(* them compiles for every target, although releases of one interface rename  *)
(* commands, and so are covered by different segments.  What a declaration    *)
(* takes from documents besides layouts is not in Interface, see Declaration. *)
DistinctSuffice ==
  Published => \A a \in Audited :
    LET all == AllSegments(a)
        required == Required(all)
        builds(p, t) == Compiles(a, all, required, p, t)
    IN  \A p \in {q \in Programs : Accepted(a, all, required, q)} :
          (\A t \in DistinctTargets(a) : builds(p, t)) => \A t \in Targets : builds(p, t)
==============================================================================
