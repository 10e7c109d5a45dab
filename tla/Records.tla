-------------------------------- MODULE Records --------------------------------
(* ST's packed structures as libclang shows them (stm32wb-catalog-extract's   *)
(* c.rs), and the layouts read from them alone (declared.rs).  A member is    *)
(*   scalar    an integer of `width` bytes                                    *)
(*   record    a typedef'd structure or union `of`                            *)
(*   array     `len` elements                                                 *)
(*   buffer    an array whose length is what the longest parameters leave     *)
(*   other     a pointer, or what is no integer, of `width` bytes             *)
(* and an element an integer (`width`) or a record (`of`).                    *)
EXTENDS WireLayout

CONSTANT Records   \* the typedef'd structures and unions, by name

CFields ==
  [name : STRING, kind : {"scalar"}, width : Nat, signed : BOOLEAN]
    \cup [name : STRING, kind : {"record"}, of : STRING]
    \cup [name : STRING, kind : {"array", "buffer"}, element : Elements, len : Nat]
    \cup [name : STRING, kind : {"other"}, width : Nat, pointer : BOOLEAN]

CRecords ==
  [union : BOOLEAN, packed : BOOLEAN, size : Nat, fields : Seq(CFields)]

IsStructure(record) == ~record.union /\ record.packed

(* element_type: structures are defined with what they hold.                  *)
ElementSupported(e) == "of" \in DOMAIN e => e.of \in DOMAIN Structs

(* fixed_field: the catalog's field for a member of fixed width, or None.     *)
FixedField(f) ==
  CASE f.kind = "scalar" -> f
    [] f.kind = "record" ->
         IF f.of \in DOMAIN Structs THEN [name |-> f.name, kind |-> "struct", of |-> f.of]
         ELSE None
    [] f.kind = "array" -> IF ElementSupported(f.element) THEN f ELSE None
    [] OTHER -> None

(* define_struct defines a record that is a packed structure of such members. *)
ASSUME StructsAreRecords ==
  \A name \in DOMAIN Records :
    LET r == Records[name]
        converted == [i \in DOMAIN r.fields |-> FixedField(r.fields[i])]
    IN  IF IsStructure(r) /\ None \notin Range(converted)
        THEN name \in DOMAIN Structs /\ Structs[name] = converted
        ELSE name \notin DOMAIN Structs

(* element_width, and the size of a member.                                   *)
WidthOf(e) == IF "of" \in DOMAIN e THEN Records[e.of].size ELSE e.width

SizeOf(f) ==
  CASE f.kind \in {"scalar", "other"} -> f.width
    [] f.kind = "record" -> Records[f.of].size
    [] OTHER -> WidthOf(f.element) * f.len

(* Where member i lies in a packed record.                                    *)
Offset(record, i) ==
  IF record.union THEN 0 ELSE Total([j \in 1..(i - 1) |-> SizeOf(record.fields[j])])

------------------------------------------------------------------------------
(* record_fields: the members of a structure after those of `fields`.  A      *)
(* buffer is counted by the unsigned integer right before it.                 *)
Appended(fields, f) ==
  LET previous == Last(fields) IN
  IF f.kind # "buffer" THEN FixedField(f)
  ELSE IF /\ fields # <<>> /\ previous.kind = "scalar" /\ ~previous.signed
          /\ ElementSupported(f.element)
  THEN [name |-> f.name, kind |-> "counted", element |-> f.element,
        count |-> previous.name, capacity |-> f.len]
  ELSE None

RecordFields(fields, record) ==
  IF fields = None \/ ~IsStructure(record) THEN None
  ELSE FoldLeft(LAMBDA so, f : IF so = None \/ Appended(so, f) = None THEN None
                               ELSE Append(so, Appended(so, f)),
                fields, record.fields)

Status == [name |-> "Status", kind |-> "scalar", width |-> 1, signed |-> FALSE]

(* declared::params: the parts <name>_cpN from 0 on, by N; one after a gap is *)
(* an error.                                                                  *)
DeclaredParams(parts) ==
  LET count == CHOOSE n \in 0..Cardinality(DOMAIN parts) :
                 0..(n - 1) \subseteq DOMAIN parts /\ n \notin DOMAIN parts
  IN  IF DOMAIN parts # 0..(count - 1) THEN None
      ELSE FoldLeft(LAMBDA so, k : RecordFields(so, parts[k - 1]), <<>>,
                    [k \in 1..count |-> k])

(* Of the structure <name>_rp0 of a command or an event, or None.             *)
DeclaredReturns(result) ==
  IF result = None THEN <<Status>> ELSE RecordFields(<<>>, result)

DeclaredPayload(result) ==
  IF result = None THEN <<>> ELSE RecordFields(<<>>, result)
==============================================================================
