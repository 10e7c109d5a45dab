----------------------------- MODULE MCDeclaration -----------------------------
(* Declaration on small instances: three releases of two profiles, bytes of   *)
(* two bits, and histories in which members are renamed, added and removed,   *)
(* profiles differ and documented values change, each met with families of    *)
(* declarations that fit some of them and not others.                         *)
EXTENDS Declaration

MCReleases == 1..3
MCTargets == MCReleases \X {"full", "light"}
MCSpelling == [n \in {"Num", "List", "Num2", "List2", "Mode", "Mask", "Kind", "Uuid",
                      "Opt", "Opt2", "Conn", "State", "Old", "Handle", "Both"} |->
                 CASE n = "Num" -> "num" [] n = "List" -> "list" [] n = "Num2" -> "num2"
                   [] n = "List2" -> "list2" [] n = "Mode" -> "mode" [] n = "Mask" -> "mask"
                   [] n = "Kind" -> "kind" [] n = "Uuid" -> "uuid" [] n = "Opt" -> "opt"
                   [] n = "Opt2" -> "opt2" [] n = "Conn" -> "conn" [] n = "State" -> "state"
                   [] n = "Old" -> "old" [] n = "Handle" -> "handle"
                   [] n = "Both" -> "both"]
MCFlagBits == 0..3
------------------------------------------------------------------------------
(* Members and entries.                                                       *)
Scalar(name, width) == [name |-> name, kind |-> "scalar", width |-> width, signed |-> FALSE]
Counted(name, width, count, capacity) ==
  [name |-> name, kind |-> "counted", element |-> [width |-> width], count |-> count,
   capacity |-> capacity]
Union(name, selector, variants) ==
  [name |-> name, kind |-> "union", selector |-> selector, variants |-> variants]
Optional(name) == [name |-> name, kind |-> "optional", width |-> 1]

Struct(name, of) == [name |-> name, kind |-> "struct", of |-> of]

\* The structure Pair, and as it is redefined.
MCStructs ==
  [n \in {"Pair", "Pair, redefined"} |->
     <<[name |-> "Both", kind |-> "scalar", width |-> 2, signed |-> n = "Pair"]>>]

Base0 ==
  [code |-> 1, carried |-> TRUE, excluded |-> FALSE, resolved |-> TRUE, completes |-> TRUE,
   status |-> TRUE, params |-> <<>>, returns |-> <<>>, bearers |-> <<>>,
   profiles |-> {"full", "light"}]

Of(params, returns) == [Base0 EXCEPT !.params = params, !.returns = returns]

Item(first, last, condition) ==
  [first |-> first, last |-> last, condition |-> condition, length |-> None]
Plain(first, last) == Item(first, last, [kind |-> "none"])
Only(first, last, profile) == Item(first, last, [kind |-> "profiles", of |-> {profile}])
Otherwise(first, last) == Item(first, last, [kind |-> "otherwise"])
Unsupported(first, last) == Item(first, last, [kind |-> "unsupported"])
OtherPlatform(first, last) == Item(first, last, [kind |-> "platform", of |-> {}])

Domain(member, side, first, last, kind, items) ==
  [member |-> member, side |-> side, first |-> first, last |-> last, kind |-> kind,
   items |-> items, unit |-> None]
ModeDomain(first, last, items) == Domain("Mode", "params", first, last, "values", items)

History(one, two, three, domains) ==
  [entries |-> <<one, two, three>>, domains |-> domains]

Undocumented == {}

Coded == [Of(<<Scalar("Mode", 1)>>, <<Scalar("State", 1)>>) EXCEPT !.profiles = {"full"}]

Lists1 == <<Scalar("Num", 1), Counted("List", 1, "Num", 2)>>
Lists2 == Lists1 \o <<Scalar("Num2", 1), Counted("List2", 2, "Num2", 1)>>

\* values, gap: documented values that differ by release and profile, or are
\* missing; conditional, outside, overlapping, undefined: domains no catalog
\* loads; flags: by profile; profiles, uneven: releases and profiles that
\* define the command unevenly; lists: a second list, of wider elements, from
\* release 2; union, options: members renamed; bearers: enhanced from release
\* 2, more in release 3; returned: a count behind a new member; reordered,
\* recounted: counts change places; wide: a list that one byte does not count;
\* structured: a structure redefined in release 2.
Refused(domains) == History(Of(<<Scalar("Mode", 1)>>, <<>>), None, None, domains)

MCHistories ==
  "values" :> History(Of(<<Scalar("Mode", 1)>>, <<Scalar("State", 1)>>),
            Of(<<Scalar("Mode", 1)>>, <<Scalar("State", 1)>>),
            Of(<<Scalar("Mode", 1)>>, <<Scalar("State", 1)>>),
            {Domain("State", "returns", 1, 3, "values", <<Plain(0, 1)>>),
             ModeDomain(1, 1, <<Only(0, 0, "full"), Otherwise(0, 1), Only(2, 2, "full"), Unsupported(3, 3)>>),
             ModeDomain(2, 2, <<Plain(0, 2), OtherPlatform(3, 3)>>),
             ModeDomain(3, 3, <<Plain(0, 1), Plain(2, 2), Only(3, 3, "full")>>)})
  @@ "gap" :> History(Of(<<Scalar("Mode", 1)>>, <<>>), None, Of(<<Scalar("Mode", 1)>>, <<>>),
            {ModeDomain(3, 3, <<Plain(0, 1)>>)})
  @@ "conditional" :> Refused({ModeDomain(1, 1, <<Plain(0, 0), Item(1, 1, [kind |-> "uninterpretable"])>>)})
  @@ "outside" :> Refused({ModeDomain(1, 1, <<Plain(-3, 1)>>)})
  @@ "overlapping" :> Refused({ModeDomain(1, 1, <<Plain(0, 0)>>), ModeDomain(1, 2, <<Plain(0, 1)>>)})
  @@ "undefined" :> Refused({ModeDomain(1, 2, <<Plain(0, 1)>>)})
  @@ "flags" :> History(Of(<<Scalar("Mask", 1)>>, <<>>), Of(<<Scalar("Mask", 1)>>, <<>>), None,
            {Domain("Mask", "params", 1, 2, "flags", <<Plain(1, 1), Only(2, 2, "full")>>)})
  @@ "profiles" :> History(Coded, [Coded EXCEPT !.profiles = {"full", "light"}, !.returns = <<>>],
            [Coded EXCEPT !.profiles = {"light"}], Undocumented)
  @@ "uneven" :> History(Coded, [Coded EXCEPT !.profiles = {"full", "light"}],
            [Coded EXCEPT !.profiles = {"light"}], Undocumented)
  @@ "lists" :> History(Of(Lists1, <<>>), Of(Lists2, <<>>), None, Undocumented)
  @@ "union" :> History(Of(<<Scalar("Kind", 1), Union("Uuid", "Kind", <<[tag |-> 1, width |-> 1],
                                                             [tag |-> 2, width |-> 2]>>)>>, <<>>),
            Of(<<Scalar("Old", 1), Union("Uuid", "Old", <<[tag |-> 1, width |-> 1],
                                                            [tag |-> 2, width |-> 2]>>)>>, <<>>),
            None, Undocumented)
  @@ "options" :> History(Of(<<Scalar("Mode", 1), Optional("Opt"), Optional("Opt2")>>, <<>>), None,
            Of(<<Scalar("Old", 1), Optional("Opt"), Optional("Opt2")>>, <<>>), Undocumented)
  @@ "bearers" :> History(Of(<<Scalar("Conn", 2)>>, <<Scalar("Conn", 2)>>),
            [Of(<<Scalar("Conn", 2)>>, <<Scalar("Conn", 2)>>) EXCEPT !.bearers = "Conn" :> 10],
            [Of(<<Scalar("Conn", 2)>>, <<Scalar("Conn", 2)>>) EXCEPT !.bearers = "Conn" :> 11],
            Undocumented)
  @@ "returned" :> History(Of(<<>>, Lists1), Of(<<>>, Lists1), Of(<<>>, <<Scalar("Handle", 1)>> \o Lists1),
            Undocumented)
  @@ "recoded" :> History(Of(<<>>, Lists1), [Of(<<>>, Lists1) EXCEPT !.code = 2],
            Of(<<>>, <<Scalar("Handle", 1)>> \o Lists1), Undocumented)
  @@ "bearer_event" :> History(Of(<<>>, <<Scalar("Conn", 2)>>),
            [Of(<<>>, <<Scalar("Conn", 2)>>) EXCEPT !.bearers = "Conn" :> 10], None, Undocumented)
  @@ "reordered" :> History(Of(Lists2, <<>>), None,
            Of(<<Scalar("Num2", 1), Scalar("Num", 1), Counted("List", 1, "Num", 2),
                 Counted("List2", 2, "Num2", 1)>>, <<>>), Undocumented)
  @@ "recounted" :> History(Of(<<Scalar("Num", 1), Scalar("Num2", 1), Counted("List", 1, "Num", 2)>>, <<>>),
            Of(<<Scalar("Num", 1), Scalar("Num2", 1), Counted("List", 1, "Num2", 2)>>, <<>>),
            None, Undocumented)
  @@ "structured" :> History(Of(<<Struct("Both", "Pair")>>, <<>>),
            Of(<<Struct("Both", "Pair, redefined")>>, <<>>), None, Undocumented)
  @@ "wide" :> History(Of(<<Scalar("Num", 1), Counted("List", 1, "Num", 4)>>, <<>>), None, None, Undocumented)

MCAnswers ==
  [name \in DOMAIN MCHistories |->
     IF \E v \in MCReleases : MCHistories[name].entries[v] # None
                              /\ Len(MCHistories[name].entries[v].returns) > 1
     THEN BoundedSeq(Byte, 4) ELSE BoundedSeq(Byte, IF name \in {"bearers", "bearer_event"} THEN 2 ELSE 1)]

------------------------------------------------------------------------------
(* Types and fields.                                                          *)
Integer(width) ==
  [shape |-> "plain", width |-> width, len |-> 1, integer |-> TRUE, values |-> None,
   bits |-> None, ranges |-> None, unit |-> None, lengths |-> None, fallback |-> FALSE,
   last |-> 0, struct |-> None]
Opaque(width) == [Integer(width) EXCEPT !.integer = FALSE]
Enum(values) == [Opaque(1) EXCEPT !.values = values]
OrUnknown(type) == [type EXCEPT !.fallback = TRUE]
FlagsType(bits) == [Opaque(1) EXCEPT !.bits = bits]
RangeType(ranges, unit) == [Opaque(1) EXCEPT !.ranges = ranges, !.unit = unit]
AttBearer(last) == [Opaque(2) EXCEPT !.last = last]
Slice(item) == [shape |-> "slice", item |-> item]
ElementsOf(item) == [shape |-> "elements", item |-> item]
Bounded(item, capacity) == [shape |-> "bounded", item |-> item, capacity |-> capacity]
Option(item) == [shape |-> "option", item |-> item]
UnionType(variants) == [shape |-> "union", variants |-> variants]

Always(type) == [t \in MCTargets |-> type]

FieldDecl(name, types) ==
  [name |-> name, wire |-> None, on |-> TRUE, since |-> None, before |-> None,
   omitted |-> {}, type |-> types]

IntField(name) == FieldDecl(name, Always(Integer(1)))

Command(c_name, params, returns) ==
  [c_name |-> c_name, kind |-> "command", params |-> params, returns |-> returns]
Event(c_name, params) ==
  [c_name |-> c_name, kind |-> "event", params |-> <<>>, returns |-> params]

(* One type on some targets and another elsewhere.                            *)
Splits == {{2, 3} \X {"full", "light"}, {<<1, "light">>}, MCReleases \X {"full"}}
Varying(types) ==
  {[t \in MCTargets |-> IF t \in split THEN a ELSE b] : split \in Splits, a \in types, b \in types}

ModeTypes ==
  {Integer(1), Opaque(1), Enum({0, 1}), Enum({0, 1, 2}), Enum({0, 2}),
   RangeType({<<0, 2>>}, None), RangeType({<<0, 2>>}, 5), RangeType({<<0, 3>>}, None)}

ModeDeclarations ==
  {Command("values", <<[FieldDecl("mode", types) EXCEPT !.omitted = omitted]>>, <<IntField("state")>>) :
     types \in Varying(ModeTypes), omitted \in {{}, {0}, {2}, {3}}}
  \cup {Command(c_name, <<FieldDecl("mode", types)>>, <<>>) :
          c_name \in {"gap", "conditional", "outside", "overlapping", "undefined"},
          types \in Varying({Opaque(1), Enum({0, 1})})}

MaskDeclarations ==
  {Command("flags", <<[FieldDecl("mask", types) EXCEPT !.omitted = omitted]>>, <<>>) :
     types \in Varying({Opaque(1), FlagsType({0}), FlagsType({0, 1}), FlagsType({0, 2}),
                        Enum({0, 1}), Enum({0, 1, 2, 3}), RangeType({<<0, 3>>}, None)}),
     omitted \in {{}, {1}, {2}, {3}, {0}}}

StateDeclarations ==
  {Command(c_name, <<IntField("mode")>>,
           <<[FieldDecl("state", Always(type)) EXCEPT !.since = since, !.before = before]>>) :
     c_name \in {"values", "profiles", "uneven"},
     type \in {Integer(1), Opaque(1), Enum({0, 1}), OrUnknown(Enum({0, 1}))},
     since \in {None, 2, 3}, before \in {None, 2, 3}}
  \cup {Command("profiles", <<IntField("mode")>>, <<[IntField("state") EXCEPT !.before = 2],
                                                    [IntField("state") EXCEPT !.since = 3]>>)}

ListDeclarations ==
  {Command(c_name, first \o second, <<>>) :
     c_name \in {"lists", "reordered", "recounted", "wide"},
     first \in {<<FieldDecl("list", Always(Slice(a)))>> : a \in {Integer(1), Integer(2)}}
               \cup {<<IntField(name), FieldDecl("list", Always(Slice(Integer(1))))>> :
                        name \in {"num", "num2"}},
     second \in {<<>>} \cup {<<[FieldDecl("list2", Always(Slice(b))) EXCEPT !.since = since]>> :
                               b \in {Integer(1), Integer(2)}, since \in {None, 2, 3}}}

UnionDeclarations ==
  {Command("union", <<FieldDecl("uuid", Always(UnionType(variants)))>>, <<>>) :
     variants \in {<<[tag |-> 1, width |-> 1], [tag |-> 2, width |-> 2]>>,
                   <<[tag |-> 2, width |-> 2]>>,
                   <<[tag |-> 1, width |-> 2], [tag |-> 2, width |-> 1]>>}}

OptionDeclarations ==
  {Command("options",
           <<[IntField(name) EXCEPT !.wire = wire], FieldDecl("opt", Always(Option(Integer(1)))),
             FieldDecl("opt2", Always(Option(Integer(1))))>>, <<>>) :
     name \in {"mode", "old", "other"}, wire \in {None, "Old"}}

ConnDeclarations ==
  {Command("bearers", <<FieldDecl("conn", types)>>, <<FieldDecl("conn", Always(type))>>) :
     types \in {[t \in MCTargets |-> CASE t[1] = 1 -> a [] t[1] = 2 -> b [] OTHER -> c] :
                  a \in {Integer(2), AttBearer(10)}, b, c \in {Integer(2), AttBearer(10), AttBearer(11)}},
     type \in {Integer(2), AttBearer(10)}}
  \cup {Event("bearer_event", <<FieldDecl("conn", types)>>) :
          types \in {[t \in MCTargets |-> IF t[1] = 1 THEN a ELSE b] :
                       a, b \in {Integer(2), AttBearer(10)}}}

StructDeclarations ==
  LET Standing(struct) == FieldDecl("both", Always([Opaque(2) EXCEPT !.struct = struct]))
  IN  {Command("structured", <<Standing(struct)>>, <<>>) : struct \in DOMAIN MCStructs}
        \cup {Command("structured", <<[Standing(a) EXCEPT !.before = 2], [Standing(b) EXCEPT !.since = 2]>>,
                      <<>>) : a, b \in DOMAIN MCStructs}

ReturnedDeclarations ==
  {Command("returned", <<>>, <<[IntField("handle") EXCEPT !.since = since],
                               FieldDecl("list", Always(Bounded(Integer(1), capacity)))>>) :
     since \in {None, 2, 3}, capacity \in {1, 2}}

EventDeclarations ==
  {Event(c_name, <<[IntField("handle") EXCEPT !.since = since], FieldDecl("list", Always(type))>>) :
     c_name \in {"returned", "recoded"}, since \in {None, 3},
     type \in {Slice(Integer(1)), ElementsOf(Integer(1)), Bounded(Integer(1), 2)}}
  \cup {Event("values", <<IntField("state")>>)}

MCDeclarations ==
  ModeDeclarations \cup MaskDeclarations \cup StateDeclarations \cup ListDeclarations
    \cup UnionDeclarations \cup OptionDeclarations \cup ConnDeclarations
    \cup StructDeclarations
    \cup ReturnedDeclarations \cup EventDeclarations
==============================================================================
