------------------------------- MODULE Declaration -----------------------------
(* A command or event declared once for every release (stm32wb-hci-macros'    *)
(* command.rs and event.rs): which declarations the macros accept, the        *)
(* variants they compile for a target, and what a variant encodes and         *)
(* decodes.                                                                   *)
(*                                                                            *)
(* The catalog's history of the name gives for each release the entry that    *)
(* defines it, or None, and what the headers document for its members.  An    *)
(* entry says whether the declaration's channel carries it, and its returns   *)
(* are those after the status.  A declared field names the member it stands   *)
(* for, the releases it exists in, the documented values it omits and its     *)
(* type, whose values cfg attributes may vary with the release.  An event has *)
(* its parameters as `returns`: it is only decoded.                           *)
EXTENDS Domains

CONSTANTS
  Releases,       \* 1..n
  Targets,        \* the <<release, profile>> the catalog describes
  Spelling,       \* the Rust spelling of each member name: snake_case
  Declarations,
  Histories,      \* the history of each name
  Answers,        \* what a controller may answer with, or report, by name
  MaxParams       \* the longest parameters a command can have, 255

FieldDecls ==
  [name : STRING, wire : STRING \cup {None}, on : BOOLEAN,
   since : Nat \cup {None}, before : Nat \cup {None},
   omitted : SUBSET Nat, type : [Targets -> Types]]

Entries ==
  [code : Nat, carried : BOOLEAN, excluded : BOOLEAN, resolved : BOOLEAN,
   completes : BOOLEAN, status : BOOLEAN,
   params : Seq(Fields), returns : Seq(Fields),
   bearers : UNION {[M -> Nat] : M \in SUBSET STRING},
   profiles : SUBSET {t[2] : t \in Targets}]

ASSUME ReleaseAssumption ==
  IsFiniteSet(Releases) /\ Releases = 1..Cardinality(Releases)

ASSUME TargetAssumption == IsFiniteSet(Targets) /\ Targets \subseteq Releases \X STRING

ASSUME DeclarationAssumption == \A d \in Declarations : d.c_name \in DOMAIN Histories

(* What is decoded of an answer.                                              *)
Decodings == [fields : Seq(Seq(Byte)), used : Nat]

ASSUME DecodedAssumption == None \notin Decodings

ASSUME AnswerAssumption == \A d \in Declarations : Answers[d.c_name] \subseteq Seq(Byte)

(* The elements of an array are as wide as each other.                        *)
Encodes(type) ==
  CASE type.shape = "plain" ->
         /\ type.len \in Nat \ {0} /\ ItemWidth(type) \in Nat \ {0}
         /\ type.width = type.len * ItemWidth(type)
    [] type.shape = "union" -> type.variants \in Seq([tag : Nat, width : Nat])
    [] OTHER -> type.item.width \in Nat \ {0}

(* What cfg attributes vary are the values of a type, not its shape and not   *)
(* the capacity it is declared with.                                          *)
ASSUME TypeAssumption ==
  \A d \in Declarations :
    \A fields \in {d.params, d.returns} :
      /\ fields \in Seq(Range(fields))
      /\ \A i \in DOMAIN fields, t, u \in Targets :
           /\ Encodes(fields[i].type[t])
           /\ fields[i].type[t].shape = fields[i].type[u].shape
           /\ fields[i].type[t].shape = "bounded" =>
                fields[i].type[t].capacity = fields[i].type[u].capacity

ASSUME HistoryAssumption ==
  \A name \in DOMAIN Histories, v \in Releases :
    LET e == Histories[name].entries[v]
    IN  e # None => \A p \in e.profiles : <<v, p>> \in Targets

VARIABLES
  pc,        \* "declared", "expanded", "built", "new", "encoded", "answered",
             \* "decoded"; "refused" by the compiler, "rejected" at run time
  declared,  \* the declaration
  target,    \* the target built
  built,     \* the variant compiled for it
  value,     \* the fields of a command, in order: the numbers of each
  written,   \* how many members are written
  encoded,   \* their bytes
  answer,    \* what the controller sends
  decoded    \* the bytes of each field decoded, or None

vars == <<pc, declared, target, built, value, written, encoded, answer, decoded>>

IsEvent == declared.kind = "event"

(* The history of the declared name.                                          *)
history == Histories[declared.c_name]

Entry(v) == history.entries[v]

------------------------------------------------------------------------------
(* The segments of a history: the longest runs of releases with one entry.    *)
SegmentsOf ==
  [name \in DOMAIN Histories |->
     LET entries == Histories[name].entries
     IN  {s \in [first : Releases, last : Releases] :
            /\ s.first <= s.last /\ entries[s.first] # None
            /\ \A v \in s.first..s.last : entries[v] = entries[s.first]
            /\ s.first = 1 \/ entries[s.first - 1] # entries[s.first]
            /\ s.last + 1 \notin Releases \/ entries[s.last + 1] # entries[s.first]}]

Segments == SegmentsOf[declared.c_name]

Facts(s) == Entry(s.first)

DeclaredFields == declared.params \o declared.returns

ExistsIn(f, s) ==
  /\ f.on
  /\ f.since # None => f.since <= s.first
  /\ f.before # None => s.last < f.before

FieldsIn(fields, s) == Select(fields, {i \in DOMAIN fields : ExistsIn(fields[i], s)})

(* check_bounds.                                                              *)
BoundsHold ==
  \A i \in DOMAIN DeclaredFields :
    LET f == DeclaredFields[i]
        bounds == {f.since, f.before} \ {None}
        inside == {s \in Segments : ExistsIn(f, s)}
    IN  /\ f.since # None /\ f.before # None => f.since < f.before
        /\ f.on => /\ bounds \subseteq Releases
                   /\ \A b \in bounds, s \in Segments : ~(s.first < b /\ b <= s.last)
                   /\ bounds # {} => inside # {} /\ inside # Segments

(* What segments must share to be one variant: the fields they have and, of   *)
(* an event, the code.                                                        *)
Key(s) ==
  <<IF IsEvent THEN Facts(s).code ELSE 0,
    [i \in DOMAIN DeclaredFields |-> ExistsIn(DeclaredFields[i], s)]>>

(* The variants, as their segments.                                           *)
Compiled == {{s \in Segments : Key(s) = key} : key \in {Key(s) : s \in Segments}}

(* A member's type with the members it refers to by position.                 *)
Shape(members, p) ==
  LET f == [members[p] EXCEPT !.name = ""]
      Position(name) == CHOOSE q \in DOMAIN members : members[q].name = name
  IN  CASE f.kind = "counted" -> [f EXCEPT !.count = Position(f.count)]
        [] f.kind = "union"   -> [f EXCEPT !.selector = Position(f.selector)]
        [] OTHER -> f

SameLayout(left, right) ==
  /\ Len(left) = Len(right)
  /\ \A p \in DOMAIN left : Shape(left, p) = Shape(right, p)

(* A name of a structure stands for its name in C and its definition: one     *)
(* redefined between releases has two names in Structs, so that layouts alike *)
(* have the same structures.                                                  *)
SameWire(e, f) ==
  /\ e.code = f.code /\ e.completes = f.completes /\ e.status = f.status
  /\ SameLayout(e.params, f.params) /\ SameLayout(e.returns, f.returns)

(* The facts of a variant are those of its last segment.                      *)
Latest(variant) == Facts(CHOOSE s \in variant : \A r \in variant : r.last <= s.last)

(* Every name the member at a position had: in the variant's segments, and    *)
(* in any other as long as the members up to it are laid out alike.           *)
Side(e, side) == IF side = "params" THEN e.params ELSE e.returns

NamesAt(variant, side, p) ==
  LET members == Side(Latest(variant), side)
      Alike(other) == /\ p <= Len(other)
                      /\ SameLayout(SubSeq(members, 1, p), SubSeq(other, 1, p))
  IN  {Side(Facts(s), side)[p].name :
         s \in {r \in Segments : r \in variant \/ Alike(Side(Facts(r), side))}}

Matches(f, name) ==
  IF f.wire # None THEN f.wire = name ELSE f.name = Spelling[name]

(* What the assertions leave to the declarations: elements of a list and      *)
(* integers decode whatever they hold, and AttBearer is declared for unsigned *)
(* integers of two bytes.                                                     *)
ASSUME DecodingAssumption ==
  \A d \in Declarations : \A i \in DOMAIN d.returns, t \in Targets :
    LET f == d.returns[i]
        type == f.type[t]
    IN  /\ type.shape = "plain" =>
             /\ type.integer => ~Stands(type) /\ type.last = 0
             /\ type.last # 0 =>
                  /\ type.len = 1
                  /\ \A v \in Releases :
                       LET e == Histories[d.c_name].entries[v]
                       IN  e # None => \A p \in DOMAIN e.returns :
                             Matches(f, e.returns[p].name) =>
                               /\ e.returns[p].kind = "scalar"
                               /\ e.returns[p].width = 2 /\ ~e.returns[p].signed
        /\ type.shape \in {"slice", "elements", "bounded"} =>
             type.item.len = 1 /\ type.item.last = 0 /\ DecodesAny(type.item)

Declares(f, variant, side, p) == \E name \in NamesAt(variant, side, p) : Matches(f, name)

------------------------------------------------------------------------------
(* The plan: what each member is encoded from.                                *)
Dependents(members, name) ==
  {q \in DOMAIN members :
     \/ members[q].kind = "counted" /\ members[q].count = name
     \/ members[q].kind = "union" /\ members[q].selector = name}

Hidden(members, p) == Dependents(members, members[p].name) # {}

Visible(members) ==
  Select([p \in DOMAIN members |-> p], {p \in DOMAIN members : ~Hidden(members, p)})

(* A layout the catalog loads.  Optional integers have a width, and a count   *)
(* or selector goes with one list or union: parameters that share a count are *)
(* in no catalog, and the macros would encode the length of the first.        *)
Loads(params) ==
  /\ params \in Seq(Fields) /\ Sound(params)
  /\ \A p \in DOMAIN params :
       /\ params[p].kind = "optional" => params[p].width # 0
       /\ \A q, r \in Dependents(params, params[p].name) : q = r

ASSUME EntryAssumption ==
  \A name \in DOMAIN Histories, v \in Releases :
    LET e == Histories[name].entries[v]
    IN  e # None => Loads(e.params) /\ Loads(e.returns)

(* The field a member is encoded from: its own, or that of the first member   *)
(* it counts or selects.                                                      *)
FieldOf(members, p) ==
  LET q == IF Hidden(members, p) THEN Min(Dependents(members, members[p].name)) ELSE p
  IN  CHOOSE k \in DOMAIN Visible(members) : Visible(members)[k] = q

(* The count can express the capacity.                                        *)
CountFits(members, p) ==
  LET count == CHOOSE q \in DOMAIN members : members[q].name = members[p].count
  IN  members[p].capacity < Power(members[count].width)

(* How a member may be declared on a side.                                    *)
Shaped(members, p, type, side) ==
  LET m == members[p]
  IN  CASE m.kind \in {"scalar", "struct", "array"} -> type.shape = "plain"
        [] m.kind = "counted" ->
             /\ CountFits(members, p)
             /\ \/ side = "params" /\ type.shape = "slice"
                \/ /\ side = "event"
                   /\ type.shape = IF m.element = [width |-> 1] THEN "slice" ELSE "elements"
                \/ side = "returns" /\ type.shape = "bounded" /\ type.capacity = m.capacity
        [] m.kind \in {"union", "optional"} ->
             side = "params" /\ type.shape = IF m.kind = "union" THEN "union" ELSE "option"
        [] OTHER -> FALSE

Planned(fields, variant, side) ==
  LET members == Side(Latest(variant), side)
      visible == Visible(members)
  IN  /\ \A k \in DOMAIN fields, p \in DOMAIN members :
           Hidden(members, p) => ~Declares(fields[k], variant, side, p)
      /\ Len(fields) = Len(visible)
      /\ \A k \in DOMAIN fields :
           /\ Declares(fields[k], variant, side, visible[k])
           /\ Shaped(members, visible[k], fields[k].type[CHOOSE t \in Targets : TRUE], side)

Kinds(members, kind) == {p \in DOMAIN members : members[p].kind = kind}

(* expand_variant: the plans of both sides.  The code for a second list with  *)
(* one count would use a count it has not read, and several optional members  *)
(* beside lists are not supported.                                            *)
Expandable(variant) ==
  LET e == Latest(variant)
      s == CHOOSE s \in variant : TRUE
      side == IF IsEvent THEN "event" ELSE "returns"
      Read(members) ==
        \A p \in Kinds(members, "counted") : p = Min(Dependents(members, members[p].count))
  IN  /\ IsEvent \/ (e.completes => e.status)
      /\ Read(e.returns)
      /\ Planned(FieldsIn(declared.params, s), variant, "params")
      /\ Planned(FieldsIn(declared.returns, s), variant, side)
      /\ Kinds(e.params, "counted") # {} => Cardinality(Kinds(e.params, "optional")) <= 1

(* resolve.                                                                   *)
Resolvable ==
  /\ Segments # {}
  /\ \A s \in Segments : Facts(s).carried /\ ~Facts(s).excluded /\ Facts(s).resolved
  /\ BoundsHold
  /\ \A variant \in Compiled : \A r, s \in variant : SameWire(Facts(r), Facts(s))

------------------------------------------------------------------------------
(* The predicates that enable an item on targets, and what a variant asserts  *)
(* on each.                                                                   *)
Covering(segments) ==
  UNION {(s.first..s.last) \X s.profiles : s \in segments}

(* Mutant of Enabled: releases and profiles are enabled apart.                *)
EnabledApart(segments, t) ==
  /\ t[1] \in UNION {s.first..s.last : s \in segments}
  /\ t[2] \in UNION {s.profiles : s \in segments}

(* cfg::targets: everywhere if it covers every target of the catalog.         *)
Enabled(segments, t) ==
  \/ Cardinality(Covering(segments)) = Cardinality(Targets)
  \/ \E s \in segments : t[1] \in s.first..s.last /\ t[2] \in s.profiles

On(variant) ==
  {[first |-> s.first, last |-> s.last, profiles |-> Facts(s).profiles] : s \in variant}

(* What is documented for the members of a variant, by position, on a release *)
(* and profile of one of its segments.                                        *)
DomainsOf(member, side, v) ==
  {d \in history.domains : d.member = member /\ d.side = side /\ v \in d.first..d.last}

DocumentsOn(s, side, v, p) ==
  [q \in DOMAIN Side(Facts(s), side) |->
     LET listed == DomainsOf(Side(Facts(s), side)[q].name, side, v)
     IN  IF listed = {} THEN [kind |-> "nothing"]
         ELSE DocumentsFor(CHOOSE d \in listed : TRUE, p)]

(* Mutant of Documented: one profile speaks for all.                          *)
DocumentedOnce(variant, side) ==
  UNION {UNION {
    LET profiles == Facts(s).profiles
    IN  {[documents |-> DocumentsOn(s, side, v, CHOOSE p \in profiles : TRUE),
          on |-> [first |-> v, last |-> v, profiles |-> profiles]]}
    : v \in s.first..s.last} : s \in variant}

(* profile_documents: each release's documents, for all its profiles if they  *)
(* agree and for each otherwise.                                              *)
ProfileDocuments(by, v) ==
  LET parts == IF \A p, q \in DOMAIN by : by[p] = by[q] THEN {DOMAIN by}
               ELSE {{p} : p \in DOMAIN by}
  IN  {[documents |-> by[CHOOSE p \in part : TRUE],
        on |-> [first |-> v, last |-> v, profiles |-> part]] : part \in parts}

Documented(variant, side) ==
  UNION {UNION {
    ProfileDocuments([p \in Facts(s).profiles |-> DocumentsOn(s, side, v, p)], v)
    : v \in s.first..s.last} : s \in variant}

(* Releases documenting the same are one group.                               *)
Grouped(documented) ==
  {[documents |-> d.documents,
    on |-> {e.on : e \in {f \in documented : f.documents = d.documents}}] : d \in documented}

Groups(variant, side) == Grouped(Documented(variant, side))

BearerSide == IF IsEvent THEN "returns" ELSE "params"

BearersOf(s) ==
  [p \in DOMAIN Side(Facts(s), BearerSide) |->
     LET name == Side(Facts(s), BearerSide)[p].name
     IN  IF name \in DOMAIN Facts(s).bearers THEN Facts(s).bearers[name] ELSE 0]

(* bearer_groups.                                                             *)
BearerGroups(variant) ==
  {[last |-> BearersOf(s),
    on |-> On({r \in variant : BearersOf(r) = BearersOf(s)})] : s \in variant}

DocumentedIn(groups, p, v) ==
  \E g \in groups :
    LET d == g.documents[p]
    IN  CASE d.kind = "values" -> v \in Numbers(d.ranges)
          [] d.kind = "flags"  -> v > 0 /\ FlagsOf(v) \subseteq d.bits
          [] OTHER -> FALSE

(* reverse_assertion: every documented value but the omitted can be sent.     *)
EachSendable(d, type, omitted) ==
  CASE d.kind = "values" ->
         DocumentedValuesDeclared(
           type, FoldSet(LAMBDA v, ranges : Without(ranges, v), d.ranges, omitted))
    [] d.kind = "flags" ->
         DocumentedFlagsDeclared(type, d.bits \ UNION {FlagsOf(v) : v \in omitted})
    [] OTHER -> TRUE

(* The checks of a type against what one group documents for its member.      *)
TypeDocumented(d, type) ==
  /\ d.kind = "values" =>
       /\ LengthsDocumented(type, d.lengths)
       /\ UnitDocumented(type, d.unit)
       /\ ValuesDocumented(type, d.ranges)
  /\ d.kind = "flags" => FlagsDocumented(type, d.bits)
  /\ d.kind \in {"nothing", "unreadable"} => IsOpaque(type)

StandsFor(type, element, width) ==
  /\ type.width = width
  /\ "of" \in DOMAIN element => type.struct = element.of

(* width_assertions: the width of each type, and what structure it stands for.*)
WidthsAssert(fields, variant, side, t) ==
  LET members == Side(Latest(variant), side)
      Fit(m, type) ==
        CASE m.kind = "scalar"   -> StandsFor(type, <<>>, m.width)
          [] m.kind = "struct"   -> StandsFor(type, m, MaxWidth(m))
          [] m.kind = "array"    -> StandsFor(type, m.element, MaxWidth(m))
          [] m.kind = "counted"  -> StandsFor(type.item, m.element, ElementWidth(m.element))
          [] m.kind = "optional" -> StandsFor(type.item, <<>>, m.width)
          [] m.kind = "union"    ->
               UnionMatches(type, m.variants,
                 members[CHOOSE q \in DOMAIN members : members[q].name = m.selector].width)
  IN  \A k \in DOMAIN fields : Fit(members[Visible(members)[k]], fields[k].type[t])

(* value_assertions, for the members of fixed width and the optional ones.    *)
ValuesAssert(fields, variant, side, t) ==
  LET members == Side(Latest(variant), side)
      groups == Groups(variant, side)
      checked == {p \in DOMAIN members :
                    /\ ~Hidden(members, p)
                    /\ members[p].kind \in {"scalar", "struct", "array", "optional"}}
      decodes == side # "params"
  IN  \A p \in checked :
        LET f == fields[FieldOf(members, p)]
            whole == f.type[t]
            type == IF whole.shape = "option" THEN whole.item ELSE whole
        IN  /\ f.omitted # {} => ~decodes /\ ~type.integer
            /\ ~type.integer =>
                 /\ \A v \in f.omitted : DocumentedIn(groups, p, v)
                 /\ \A g \in {h \in groups : Enabled(h.on, t)} :
                      /\ TypeDocumented(g.documents[p], type)
                      /\ IF decodes THEN DecodesAny(type)
                         ELSE EachSendable(g.documents[p], type, f.omitted)

(* bearer_assertions: of the members that are u16, those and only those the   *)
(* catalog lists as bearers are AttBearer; no return is one.                  *)
BearersAssert(fields, variant, side, t) ==
  LET members == Side(Latest(variant), side)
      groups == IF side = BearerSide THEN BearerGroups(variant)
                ELSE {[last |-> [p \in DOMAIN members |-> 0], on |-> On(variant)]}
  IN  \A g \in {h \in groups : Enabled(h.on, t)}, p \in DOMAIN members :
        /\ members[p].kind = "scalar" /\ members[p].width = 2 /\ ~members[p].signed
        /\ ~Hidden(members, p)
        => fields[FieldOf(members, p)].type[t].last = g.last[p]

Asserted(variant, t) ==
  LET s == CHOOSE s \in variant : TRUE
  IN  \A side \in {"params", "returns"} :
        LET fields == FieldsIn(IF side = "params" THEN declared.params ELSE declared.returns, s)
        IN  /\ WidthsAssert(fields, variant, side, t)
            /\ ValuesAssert(fields, variant, side, t)
            /\ BearersAssert(fields, variant, side, t)

------------------------------------------------------------------------------
Init ==
  /\ pc = "declared"
  /\ declared \in Declarations
  /\ target = None /\ built = None /\ value = None /\ written = 0
  /\ encoded = <<>> /\ answer = None /\ decoded = None

(* The macro expands every variant, whatever is built, from a catalog that    *)
(* loads.                                                                     *)
Expand ==
  /\ pc = "declared"
  /\ pc' = IF /\ ValidDomains(history.domains, history.entries, {t[2] : t \in Targets})
              /\ Resolvable
              /\ \A variant \in Compiled : Expandable(variant)
           THEN "expanded" ELSE "refused"
  /\ UNCHANGED <<declared, target, built, value, written, encoded, answer, decoded>>

(* The compiler keeps the variants enabled for the target and evaluates their *)
(* assertions; two of one name are an error of their own.                     *)
Build(t) ==
  /\ pc = "expanded"
  /\ target' = t
  /\ LET enabled == {variant \in Compiled : Enabled(On(variant), t)} IN
     IF Cardinality(enabled) > 1 \/ \E variant \in enabled : ~Asserted(variant, t)
     THEN pc' = "refused" /\ built' = None
     ELSE pc' = "built" /\ built' \in IF enabled = {} THEN {None} ELSE enabled
  /\ UNCHANGED <<declared, value, written, encoded, answer, decoded>>

FieldsBuilt(fields) == FieldsIn(fields, CHOOSE s \in built : TRUE)

Members(side) == Side(Latest(built), side)

TypeOf(fields, k) == FieldsBuilt(fields)[k].type[target]

(* What the application may give a field: of a type's values the least and    *)
(* the greatest, of lists up to one element too many, the first and the       *)
(* others apart, and any bytes for a union.                                   *)
Ends(type) ==
  IF Stands(type) \/ type.last # 0 THEN {Min(Known(type)), Max(Known(type))}
  ELSE {1, Power(ItemWidth(type)) - 1}

Lists(lengths, values) ==
  {[i \in 1..n |-> IF i = 1 THEN v ELSE w] : n \in lengths, v \in values, w \in values}

Inputs(member, type) ==
  CASE type.shape = "plain"  -> Lists({type.len}, Ends(type))
    [] type.shape = "slice"  -> Lists(0..(member.capacity + 1), Ends(type.item))
    [] type.shape = "option" -> Lists({0, 1}, Ends(type.item))
    [] type.shape = "union"  ->
         UNION {{<<v.tag>> \o bytes : bytes \in Lists({v.width}, {0, Base - 1})} :
                  v \in Range(type.variants)}

(* The bytes written for a field.                                             *)
FieldBytes(type, v) ==
  CASE type.shape = "union" -> Tail(v)
    [] type.shape = "plain" ->
         FlattenSeq([i \in DOMAIN v |-> LittleEndian(v[i], ItemWidth(type))])
    [] OTHER -> FlattenSeq([i \in DOMAIN v |-> LittleEndian(v[i], type.item.width)])

(* Mutant: the count is taken from the bytes of a list.                       *)
MemberBytesCounted(v, p) ==
  LET members == Members("params")
      k == FieldOf(members, p)
      of == members[Visible(members)[k]]
      type == TypeOf(declared.params, k)
  IN  IF ~Hidden(members, p) THEN FieldBytes(type, v[k])
      ELSE IF of.kind = "union" THEN LittleEndian(v[k][1], members[p].width)
      ELSE LittleEndian(Len(FieldBytes(type, v[k])), members[p].width)

(* The bytes written for a member: of a hidden one the length of the list it  *)
(* counts, or the selector of the union.                                      *)
MemberBytes(v, p) ==
  LET members == Members("params")
      k == FieldOf(members, p)
      of == members[Visible(members)[k]]
      type == TypeOf(declared.params, k)
  IN  IF ~Hidden(members, p) THEN FieldBytes(type, v[k])
      ELSE IF of.kind = "union" THEN LittleEndian(v[k][1], members[p].width)
      ELSE LittleEndian(Len(v[k]), members[p].width)

Size(v) ==
  LET members == Members("params")
  IN  Total([p \in DOMAIN members |-> Len(MemberBytes(v, p))])

(* new, or what try_new checks.                                               *)
Constructible(v) ==
  LET members == Members("params")
      at(p) == v[FieldOf(members, p)]
      lists == Kinds(members, "counted")
      optional == Kinds(members, "optional")
  IN  /\ \A p \in lists : Len(at(p)) <= members[p].capacity
      /\ Cardinality(lists) > 1 => Size(v) <= MaxParams
      /\ \A p \in optional : p + 1 \in optional /\ at(p + 1) # <<>> => at(p) # <<>>

Supplied ==
  LET members == Members("params")
      Of(k) == Inputs(members[Visible(members)[k]], TypeOf(declared.params, k))
      upTo[n \in 0..Len(FieldsBuilt(declared.params))] ==
        IF n = 0 THEN {<<>>} ELSE {Append(v, x) : v \in upTo[n - 1], x \in Of(n)}
  IN  upTo[Len(FieldsBuilt(declared.params))]

New(v) ==
  /\ pc = "built" /\ built # None /\ ~IsEvent
  /\ IF Constructible(v) THEN pc' = "new" /\ value' = v ELSE pc' = "rejected" /\ UNCHANGED value
  /\ UNCHANGED <<declared, target, built, written, encoded, answer, decoded>>

(* write_hci: the next member.                                                *)
Write ==
  /\ pc = "new" /\ written < Len(Members("params"))
  /\ written' = written + 1
  /\ encoded' = encoded \o MemberBytes(value, written')
  /\ UNCHANGED <<pc, declared, target, built, value, answer, decoded>>

Finish ==
  /\ pc = "new" /\ written = Len(Members("params"))
  /\ pc' = "encoded"
  /\ UNCHANGED <<declared, target, built, value, written, encoded, answer, decoded>>

(* The command is sent and forgotten; the answer is any bytes.                *)
Answer(bytes) ==
  /\ pc = IF IsEvent THEN "built" ELSE "encoded"
  /\ built # None
  /\ pc' = "answered" /\ answer' = bytes
  /\ value' = None /\ written' = 0 /\ encoded' = <<>>
  /\ UNCHANGED <<declared, target, built, decoded>>

(* A count kept for the list at a position.                                   *)
Noted(counts, list, n) ==
  [q \in DOMAIN counts \cup {list} |-> IF q = list THEN n ELSE counts[q]]

(* A member decoded from `rest`, or its bytes kept for the list they count,   *)
(* which is the first of those it counts.                                     *)
DecodedMember(members, fields, so, p) ==
  LET m == members[p]
      width == IF m.kind # "counted" THEN MaxWidth(m)
               ELSE so.counts[p] * ElementWidth(m.element)
      bytes == SubSeq(so.rest, 1, width)
      type == fields[FieldOf(members, p)].type[target]
      item == IF type.shape = "plain" THEN type ELSE type.item
      chunk == IF type.shape = "plain" THEN ItemWidth(type) ELSE item.width
      elements == {Number(SubSeq(bytes, i * chunk + 1, (i + 1) * chunk)) :
                     i \in 0..(width \div chunk - 1)}
      next == [so EXCEPT !.rest = SubSeq(@, width + 1, Len(@)), !.used = @ + width]
  IN  IF so.failed \/ width > Len(so.rest) THEN [so EXCEPT !.failed = TRUE]
      ELSE IF Hidden(members, p)
      THEN [next EXCEPT !.counts =
              Noted(@, Min(Dependents(members, m.name)), Number(bytes))]
      ELSE IF \/ \E n \in elements : ~Decodes(item, n)
              \/ type.shape = "bounded" /\ so.counts[p] > type.capacity
      THEN [so EXCEPT !.failed = TRUE]
      ELSE [next EXCEPT !.fields = Append(@, bytes)]

(* The members decoded one after the other.                                   *)
Decoded(members, fields) ==
  LET upTo[n \in 0..Len(members)] ==
        IF n = 0
        THEN [rest |-> answer, used |-> 0, counts |-> <<>>, fields |-> <<>>, failed |-> FALSE]
        ELSE DecodedMember(members, fields, upTo[n - 1], n)
  IN  upTo[Len(members)]

(* from_hci_bytes_complete.                                                   *)
Decode ==
  /\ pc = "answered"
  /\ LET so == Decoded(Members("returns"), FieldsBuilt(declared.returns)) IN
     decoded' = IF so.failed \/ so.rest # <<>> THEN None
                ELSE [fields |-> so.fields, used |-> so.used]
  /\ pc' = "decoded"
  /\ UNCHANGED <<declared, target, built, value, written, encoded, answer>>

(* read_hci: reads only the bytes of the returns, into a buffer for the       *)
(* largest.                                                                   *)
ReadHci ==
  /\ pc = "answered" /\ ~IsEvent
  /\ LET so == Decoded(Members("returns"), FieldsBuilt(declared.returns)) IN
     decoded' = IF so.failed \/ so.used > Envelope(Members("returns")).max THEN None
                ELSE [fields |-> so.fields, used |-> so.used]
  /\ pc' = "decoded"
  /\ UNCHANGED <<declared, target, built, value, written, encoded, answer>>

Done == pc \in {"refused", "rejected", "decoded"} \/ (pc = "built" /\ built = None)

(* Nothing follows a refusal or an answer.                                    *)
Stop == Done /\ UNCHANGED vars

Next ==
  \/ Expand
  \/ \E t \in Targets : Build(t)
  \/ /\ pc = "built" /\ built # None /\ ~IsEvent
     /\ \E v \in Supplied : New(v)
  \/ Write \/ Finish
  \/ \E bytes \in Answers[declared.c_name] : Answer(bytes)
  \/ Decode \/ ReadHci \/ Stop

Spec == Init /\ [][Next]_vars

------------------------------------------------------------------------------
(* A declaration the macro accepts is one item on every target whose release  *)
(* defines the name and profile carries it, and none on the others: the       *)
(* predicates of its variants neither overlap nor leave a target out, though  *)
(* a segment may differ in profiles from the next (cfg.rs).                   *)
OneVariant ==
  pc = "expanded" =>
    \A t \in Targets :
      Cardinality({variant \in Compiled : Enabled(On(variant), t)})
        = IF Entry(t[1]) # None /\ t[2] \in Entry(t[1]).profiles THEN 1 ELSE 0

(* Where the members end of a command encoded for the target.                 *)
Ended(members) ==
  [i \in 0..Len(members) |-> Total([p \in 1..i |-> Len(MemberBytes(value, p))])]

(* What a command encodes is laid out as the release built for says, though   *)
(* the plan is that of the variant's last segment and the declaration has no  *)
(* counts and selectors: they are those of the lists and unions they go with, *)
(* optional members stop at the first absent one, and each field's bytes lie  *)
(* where its member's do (command.rs: plan, write_hci, try_new).              *)
EncodesLayout ==
  pc = "encoded" =>
    LET members == Entry(target[1]).params
        cut == Ended(members)
    IN  /\ Divides(cut, members, encoded)
        /\ \A k \in DOMAIN value :
             Field(encoded, cut, Visible(members)[k])
               = FieldBytes(TypeOf(declared.params, k), value[k])

(* What the headers document for a parameter on a target: the values or bits  *)
(* of the items its profile accepts, those for it alone in place of those for *)
(* the others.                                                                *)
DocumentedFor(t, member) ==
  LET domains == DomainsOf(member, "params", t[1])
      d == CHOOSE d \in domains : TRUE
      own == {i \in Range(d.items) : i.condition.kind = "profiles" /\ t[2] \in i.condition.of}
      others == {i \in Range(d.items) :
                   \/ i.condition.kind = "none"
                   \/ i.condition.kind = "platform" /\ t[2] \in i.condition.of
                   \/ i.condition.kind = "otherwise" /\ own = {}}
      numbers == UNION {i.first..i.last : i \in own \cup others}
  IN  IF domains = {} THEN [kind |-> "nothing"]
      ELSE [kind |-> d.kind, unit |-> d.unit, numbers |-> numbers,
            bits |-> UNION {FlagsOf(n) : n \in numbers}]

(* A type has a value for exactly the documented values, the omitted apart.   *)
StandsForDocumented(type, omitted, d) ==
  LET Flagged == {n \in Whole(type.width) : FlagsOf(n) \subseteq d.bits}
      Dropped == {n \in Flagged : \E v \in omitted : FlagsOf(n) \cap FlagsOf(v) # {}}
  IN  CASE d.kind = "values" ->
             /\ Known(type) \subseteq d.numbers
             /\ d.numbers \ omitted \subseteq Known(type)
             /\ type.unit = d.unit
        [] d.kind = "flags" ->
             Known(type) \subseteq Flagged /\ Flagged \ Dropped \subseteq Known(type)
        [] OTHER -> FALSE

(* A parameter's type, unless it is an integer, has a value for exactly the   *)
(* documented values of the target built, the omitted apart, and stands for   *)
(* no values where none are documented; a bearer's is AttBearer with the last *)
(* bearer of the release.  The checks are of constants under the predicates   *)
(* of groups of releases and profiles that document alike, by the positions   *)
(* of the variant's members (command.rs: value_assertions, reverse_assertion, *)
(* bearer_assertions; wire.rs: covered).                                      *)
SendsDocumented ==
  pc = "built" /\ built # None =>
    LET members == Entry(target[1]).params
        bearers == Entry(target[1]).bearers
    IN  \A k \in DOMAIN Visible(members) :
      LET m == members[Visible(members)[k]]
          whole == TypeOf(declared.params, k)
          type == IF whole.shape = "option" THEN whole.item ELSE whole
      IN  m.kind \in {"scalar", "optional"} =>
            /\ ~type.integer /\ Stands(type) =>
                 StandsForDocumented(type, FieldsBuilt(declared.params)[k].omitted,
                                     DocumentedFor(target, m.name))
            /\ m.kind = "scalar" /\ m.width = 2 /\ ~m.signed =>
                 type.last = IF m.name \in DOMAIN bearers THEN bearers[m.name] ELSE 0

(* A decoded list is not compared with the capacity of its buffer in an event *)
(* and may fill any count.                                                    *)
Uncapped(members) ==
  [p \in DOMAIN members |->
     IF IsEvent /\ members[p].kind = "counted"
     THEN [members[p] EXCEPT !.capacity =
             LET q == CHOOSE q \in DOMAIN members : members[q].name = members[p].count
             IN  Power(members[q].width)]
     ELSE members[p]]

(* Bearers hold a handle or a bearer of the release.                          *)
BearersHeld(members, cut) ==
  LET bearers == IF IsEvent THEN Entry(target[1]).bearers ELSE <<>>
  IN  \A p \in DOMAIN members : members[p].name \in DOMAIN bearers =>
        Number(Field(answer, cut, p)) \in Bearers(bearers[members[p].name])

(* What is decoded is laid out as the release built for says, and every       *)
(* answer laid out so is decoded, whatever its members hold, a bearer apart:  *)
(* no value, documented or not, makes a response or event unreadable          *)
(* (command.rs: return_struct, plan; event.rs: expand_variant; wire.rs:       *)
(* decodes_any).                                                              *)
ReadsReturns ==
  pc = "decoded" =>
    LET members == Entry(target[1]).returns
    IN  /\ decoded # None =>
             LET used == SubSeq(answer, 1, decoded.used) IN
             \E cut \in Cuts(members, used) :
               /\ Divides(cut, Uncapped(members), used)
               /\ decoded.fields =
                    [k \in DOMAIN Visible(members) |-> Field(used, cut, Visible(members)[k])]
        /\ (\E cut \in Cuts(members, answer) :
               Divides(cut, members, answer) /\ BearersHeld(members, cut))
             => decoded # None /\ decoded.used = Len(answer)

(* The byte of a command's header for the length of its parameters, of which  *)
(* bt-hci makes size() as u8.                                                 *)
LengthByte(v) == Size(v) % Base

(* The length byte of a command counts its parameters.  (wire.rs says of      *)
(* TooLong that it is returned when the fields fit their capacities but not   *)
(* the 255 bytes of the parameters together; command.rs compares the total    *)
(* only where there is more than one list.)                                   *)
ParametersFit == pc = "new" => LengthByte(value) = Size(value)
==============================================================================
