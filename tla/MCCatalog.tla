------------------------------- MODULE MCCatalog -------------------------------
(* Instance of Completeness for TLC.  Command A is present with either name,  *)
(* layout and availability, B with one name, Z of the Bluetooth Core with its *)
(* own, and E is an event of the Core; a snapshot may list A twice, or        *)
(* without profiles.  Three releases leave a gap, a change and a reappearance *)
(* room, and the annotation files cover fills, overrides, exclusions, ranges  *)
(* and overlaps.  The programs declare each name and both, miss some, or use  *)
(* the wrong type.                                                            *)
EXTENDS Completeness
CONSTANTS A, B, Z, E, x, y, z, ev, L, M, Narrow, Wide

Full == 0
Light == 1

Command(op, name, profiles, definition) ==
  [opcode |-> op, name |-> name, profiles |-> profiles, definition |-> definition]

MCCommands ==
  {Command(A, x, {Full, Light}, Unresolved), Command(A, x, {Full}, Unresolved),
   Command(A, y, {Full, Light}, Unresolved), Command(A, x, {Full}, L)}

OfB == Command(B, x, {Full}, L)

OfZ == Command(Z, z, {Full}, L)

OfE == Command(E, ev, {Full}, L)

Sound == {{}} \cup {{c} : c \in MCCommands}

MCSnapshots ==
  Sound \cup {S \cup {OfB} : S \in Sound}
        \cup {{Command(A, x, {Full}, Unresolved), Command(A, x, {Full}, L)},
              {Command(A, x, {}, L)}, {OfZ}, {OfE}, {OfZ, OfB},
              {OfZ, Command(A, y, {Full}, L)}}

Annotate(name, range, layout, exclude, override) ==
  [name |-> name, releases |-> range, layout |-> layout, exclude |-> exclude,
   override |-> override]

Between(f, l) == [first |-> f, last |-> l]

MCAnnotationFiles ==
  {<<>>,
   <<Annotate(x, None, M, FALSE, FALSE)>>,
   <<Annotate(y, None, L, FALSE, FALSE)>>,
   <<Annotate(x, Between(1, 1), M, FALSE, FALSE)>>,
   <<Annotate(x, None, M, FALSE, FALSE), Annotate(x, Between(1, 1), L, FALSE, FALSE)>>,
   <<Annotate(x, Between(1, 1), M, FALSE, FALSE), Annotate(x, Between(3, 3), M, FALSE, TRUE)>>,
   <<Annotate(z, Between(1, 1), M, FALSE, TRUE)>>,
   <<Annotate(x, Between(2, 3), None, TRUE, FALSE), Annotate(y, Between(2, 2), L, FALSE, FALSE)>>}

MCOpcodeOrder == <<A, B, Z, E>>
MCNameOrder == <<ev, x, y, z>>

MCWidths == L :> 2 @@ M :> None @@ Unresolved :> None
MCStructIn == L :> Wide @@ M :> Narrow @@ Unresolved :> None
MCBearerIn == L :> 2 @@ M :> None @@ Unresolved :> 1

Program(declares, lists, variants, struct) ==
  [declares |-> declares, lists |-> lists, variants |-> variants, struct |-> struct]

Own(name) == [name |-> name, type |-> name]

Listing(width) == <<[name |-> z, code |-> Z, width |-> width]>>

ListingE == <<[name |-> ev, code |-> E, width |-> 1]>>

Plain(names, lists, struct) == Program(names, lists, [i \in DOMAIN names |-> Own(names[i])], struct)

MCPrograms ==
  {Plain(names, lists, Wide) : names \in {<<>>, <<x>>, <<y>>, <<x, y>>}, lists \in {<<>>, Listing(2)}}
  \cup {Plain(<<x>>, <<>>, Narrow), Plain(<<x>>, <<>>, None), Plain(<<x>>, Listing(1), Wide),
        Plain(<<>>, Listing(1), None), Plain(<<>>, Listing(2), None), Plain(<<>>, ListingE, Wide),
        Program(<<x>>, <<[name |-> z, code |-> A, width |-> 2]>>, <<Own(x)>>, Wide),
        Program(<<x, y>>, <<>>, <<[name |-> x, type |-> y], [name |-> y, type |-> x]>>, Wide),
        Program(<<y>>, <<>>, <<[name |-> x, type |-> y]>>, Wide), Program(<<x, y>>, <<>>, <<Own(x)>>, Wide),
        Program(<<x>>, <<>>, <<[name |-> y, type |-> x]>>, Wide)}
===============================================================================
