------------------------------- MODULE Extraction ------------------------------
(* How stm32wb-catalog-extract reads a release of STM32WB: the code of each   *)
(* command wrapper gives the layouts of its parameters and returns            *)
(* (commands.rs), that of each process function the payload of its event      *)
(* (events.rs), every layout is compared with what the structures alone give, *)
(* and the release is matched with the interface document (snapshot.rs).      *)
(* STM32WBA ships headers without code: wba.rs trusts the structures.         *)
(*                                                                            *)
(* Against the analysis stands what the C code does when it runs: the bytes a *)
(* wrapper sends, the parts of a reply it hands over, and what a process      *)
(* function forwards to its callback.                                         *)
(*                                                                            *)
(* A wrapper of a BLE command is (SystemWrappers has those of the system's)   *)
(*   scope, request      its scope, the assignments to rq as <<field, value>> *)
(*   parts, result       its structures <name>_cpN, by N, and <name>_rp0      *)
(*   views               by N, the lengths adding up to where cpN starts      *)
(*   body                what fills the command buffer, a sequence of         *)
(*     assign  the member `to` = <<N, name>> from parameter `from`, or None   *)
(*             for another expression, of value `value`                       *)
(*     copy    `length` bytes of parameter `from` to the member `to`          *)
(*     advance index_input += length                                          *)
(*     choose  `local` = the width of the first of the `cases` that holds, as *)
(*             [on, tag, width], else `other`; Return leaves the function     *)
(*   reads               what reads the reply: `store` of a member to the     *)
(*                       parameter `to`, `copy` of `length` bytes of it       *)
(*   signature, maximum  its parameters in the header, and the members whose  *)
(*                       size the header calls a maximum                      *)
(* A length counts `unit` bytes at a time                                     *)
(*   constant (value), parameter, local, member (of resp), pointee (what name *)
(*   points to) or opaque, which `length` does not recognise.                 *)
(* A process function is                                                      *)
(*   scope, code         the entry of the event table                         *)
(*   shape               bare, forward or procedural                          *)
(*   result              its structure, or None                               *)
(*   through, cast       the event whose structure it casts to, the structure *)
(*   forwarded           the members it passes on                             *)
EXTENDS SystemWrappers, TLC

CONSTANTS
  Releases,       \* the wrappers, the process functions and the document
  Arguments(_),   \* of a wrapper: arguments its callers pass
  Replies,        \* return parameters that may come back
  Payloads,       \* payloads of events that may arrive
  Capacity,       \* bytes of the command buffer, BLE_CMD_MAX_PARAM_LEN
  Return,         \* leaves the function
  Unwritten       \* a byte of the command buffer before it is written

VARIABLES
  release,     \* the release being extracted
  phase,       \* commands, events, document, then published or refused
  commands,    \* what is extracted so far
  events,
  request,     \* a wrapper called and what it sent, or None
  handed       \* what was handed to the application, or None

vars == <<release, phase, commands, events, request, handed>>

Constant(n) == [kind |-> "constant", value |-> n, unit |-> 1]

(* Prefix of a wrapper's C identifiers: the structure of view n.              *)
View(w, n) == w.parts[n]

Members(w) ==
  LET of(n) == [i \in DOMAIN View(w, n).fields |->
                  [to |-> <<n, View(w, n).fields[i].name>>, field |-> View(w, n).fields[i]]]
  IN  FlattenSeq([k \in 1..Cardinality(DOMAIN w.views) |-> of(k - 1)])

------------------------------------------------------------------------------
(* The analysis of a wrapper.                                                 *)
(* Every write to a member, with the increment that follows it; None if one   *)
(* has none, if an increment follows none or a member is written twice.       *)
Scanned(w) ==
  LET step(scan, node) ==
        IF scan = None THEN None
        ELSE IF node.op = "advance"
        THEN IF scan.pending = None
                \/ \E k \in DOMAIN scan.writes : scan.writes[k].to = scan.pending.to
             THEN None
             ELSE [pending |-> None,
                   writes |-> Append(scan.writes, [to |-> scan.pending.to,
                                                   node |-> scan.pending, by |-> node.length])]
        ELSE IF node.op \in {"assign", "copy"} /\ node.to[1] \in DOMAIN w.views
        THEN IF scan.pending # None THEN None ELSE [scan EXCEPT !.pending = node]
        ELSE scan
      scan == FoldLeft(step, [pending |-> None, writes |-> <<>>], w.body)
  IN  IF scan = None THEN None ELSE IF scan.pending # None THEN None ELSE scan.writes

(* The first choice of a local variable.                                      *)
Choice(w, local) ==
  LET choices == SelectSeq(w.body, LAMBDA node : node.op = "choose" /\ node.local = local)
  IN  IF choices = <<>> THEN None ELSE Head(choices)

(* union_variants: the parameter the size is chosen by, and the widths.       *)
UnionOf(f, node, on, variants, stored) ==
  IF /\ Cardinality(on) = 1 /\ on \subseteq DOMAIN stored
     /\ \A k \in DOMAIN variants : variants[k].width <= Records[f.of].size
  THEN [name |-> f.name, kind |-> "union", selector |-> stored[CHOOSE p \in on : TRUE],
        variants |-> variants]
  ELSE None

UnionField(f, by, node, stored) ==
  IF by.kind # "local" \/ node = None THEN None
  ELSE UnionOf(f, node, {node.cases[k].on : k \in DOMAIN node.cases},
               [k \in DOMAIN node.cases |->
                  [tag |-> node.cases[k].tag, width |-> node.cases[k].width]]
                 \o IF node.other = Return THEN <<>>
                    ELSE <<[tag |-> Other, width |-> node.other]>>,
               stored)

(* Mutant of BufferField: a count of bytes is taken for one of elements.      *)
BufferFieldUnscaled(f, count, unit) ==
  IF ElementSupported(f.element)
  THEN [name |-> f.name, kind |-> "counted", element |-> f.element, count |-> count,
        capacity |-> f.len]
  ELSE None

(* A buffer of elements, or of bytes where the code counts bytes.             *)
BufferField(f, count, unit) ==
  IF unit = WidthOf(f.element) /\ ElementSupported(f.element)
  THEN [name |-> f.name, kind |-> "counted", element |-> f.element, count |-> count,
        capacity |-> f.len]
  ELSE IF unit = 1 /\ WidthOf(f.element) # 1
  THEN [name |-> f.name, kind |-> "counted", element |-> [width |-> 1], count |-> count,
        capacity |-> WidthOf(f.element) * f.len]
  ELSE None

(* member_type: a scalar is assigned, anything else copied, and index_input   *)
(* grows by what was written.                                                 *)
MemberField(w, f, node, by, stored) ==
  IF f.kind = "scalar"
  THEN IF node.op = "assign" /\ by = Constant(f.width) THEN f ELSE None
  ELSE IF node.op # "copy" \/ by.kind = "opaque" \/ node.length # by THEN None
  ELSE IF f.kind = "record" /\ Records[f.of].union
  THEN UnionField(f, by, Choice(w, by.name), stored)
  ELSE IF f.kind \in {"record", "array"}
  THEN IF by = Constant(SizeOf(f)) THEN FixedField(f) ELSE None
  ELSE IF f.kind = "buffer" /\ by.kind = "parameter" /\ by.name \in DOMAIN stored
  THEN BufferField(f, stored[by.name], by.unit)
  ELSE None

(* A member read into the layout.  `counts` holds the buffers whose count the *)
(* code proves, as <<buffer, whether the count is right before it>>, and      *)
(* `bytes` those it counts in bytes: both stay when a later member leaves the *)
(* layout unresolved.                                                         *)
Adding(so, f, node, field) ==
  IF field = None THEN [so EXCEPT !.fields = None]
  ELSE [fields |-> Append(so.fields, field),
        stored |-> IF node.op = "assign" /\ node.from # None
                   THEN node.from :> f.name @@ so.stored ELSE so.stored,
        counts |-> IF f.kind # "buffer" THEN so.counts
                   ELSE so.counts \cup
                          {<<f.name, so.fields # <<>> /\ Last(so.fields).name = field.count>>},
        bytes |-> IF f.kind = "buffer" /\ field.element # f.element
                  THEN so.bytes \cup {f.name} ELSE so.bytes]

Nothing == [fields |-> <<>>, stored |-> <<>>, counts |-> {}, bytes |-> {}]

(* params_layout: every member in the order of the structures, each written   *)
(* once and in that order.                                                    *)
ParamsOver(w, writes, members) ==
  LET of(so, f, write) == Adding(so, f, write.node, MemberField(w, f, write.node, write.by, so.stored))
      step(so, member) ==
        IF so.fields = None THEN so
        ELSE IF \/ ~IsStructure(View(w, member.to[1]))
                \/ \A k \in DOMAIN writes : writes[k].to # member.to
        THEN [so EXCEPT !.fields = None]
        ELSE of(so, member.field, writes[CHOOSE k \in DOMAIN writes : writes[k].to = member.to])
      complete(read) ==
        IF /\ \A n \in DOMAIN w.views : IsStructure(View(w, n))
           /\ [k \in DOMAIN writes |-> writes[k].to] = [k \in DOMAIN members |-> members[k].to]
        THEN read
        ELSE [read EXCEPT !.fields = None]
  IN  IF writes = None THEN [Nothing EXCEPT !.fields = None]
      ELSE complete(FoldLeft(step, Nothing, members))

ParamsLayout(w) ==
  IF DOMAIN w.views # 0..(Cardinality(DOMAIN w.views) - 1)
  THEN [Nothing EXCEPT !.fields = None]
  ELSE ParamsOver(w, Scanned(w), Members(w))

(* Mutant of Dereferenced: whatever the parameter, the last member stored.    *)
DereferencedLast(w, parameter) ==
  SelectSeq(w.reads, LAMBDA read : read.op = "store")

(* What stores a member of resp where a parameter points to.                  *)
Dereferenced(w, parameter) ==
  SelectSeq(w.reads, LAMBDA read : read.op = "store" /\ read.to = parameter)

(* A member of resp.  A buffer is counted by the member of resp its copy      *)
(* counts, which `*parameter` stands for if the code stores it there.         *)
ReturnField(w, f) ==
  LET copies == SelectSeq(w.reads, LAMBDA read : read.op = "copy" /\ read.member = f.name)
      by == Last(copies).length
      stores == Dereferenced(w, by.name)
  IN  IF f.kind # "buffer" THEN FixedField(f)
      ELSE IF copies = <<>> THEN None
      ELSE IF by.kind = "member" THEN BufferField(f, by.name, by.unit)
      ELSE IF by.kind = "pointee" /\ stores # <<>>
      THEN BufferField(f, Last(stores).member, by.unit)
      ELSE None

(* returns_layout, with the buffers it counts in bytes: those before a member *)
(* that leaves it unresolved stay.                                            *)
ReturnsLayout(w) ==
  LET record == w.result
      fields == [i \in DOMAIN record.fields |-> ReturnField(w, record.fields[i])]
      begins == fields # <<>> /\ fields[1] = Status
      inBytes == {i \in DOMAIN fields : /\ record.fields[i].kind = "buffer"
                                        /\ \A j \in 1..i : fields[j] # None
                                        /\ fields[i].element # record.fields[i].element}
  IN  IF record = None THEN [fields |-> None, bytes |-> {}]
      ELSE IF ~IsStructure(record) THEN [fields |-> None, bytes |-> {}]
      ELSE [fields |-> IF None \in Range(fields) \/ ~begins THEN None ELSE fields,
            bytes |-> {fields[i].name : i \in inBytes}]

------------------------------------------------------------------------------
(* analyze and shci.rs: what identifies a command must be plain, or the       *)
(* release is refused.                                                        *)
Assigned(w, field) ==
  LET at == {k \in DOMAIN w.request : w.request[k][1] = field}
  IN  IF at = {} THEN None ELSE w.request[CHOOSE k \in at : TRUE][2]

CommandStatus(w) == Assigned(w, "event") # None

Identified(w) ==
  IF w.scope = "system" THEN w.opcode \div 1024 = 63 ELSE
  /\ \A j, k \in DOMAIN w.request : w.request[j][1] = w.request[k][1] => j = k
  /\ Assigned(w, "ogf") \in 0..63 /\ Assigned(w, "ocf") \in 0..1023
  /\ w.scope = "vendor" <=> Assigned(w, "ogf") = 63
  /\ Assigned(w, "event") \in {None, 15}
  /\ Assigned(w, "rparam") \in (IF CommandStatus(w) THEN {"status"} ELSE {"status", "resp"})

ExtractedSystem(w) ==
  [name |-> w.name, key |-> <<"command", "system", w.opcode>>, completion |-> "complete",
   params |-> SystemParams(w), returns |-> SystemReturns(w), counts |-> {}, bytes |-> {}]

(* A Command Status command returns nothing, here <<>>.                       *)
ExtractedBle(w) ==
  LET params == ParamsLayout(w)
      returns == IF CommandStatus(w) THEN [fields |-> <<>>, bytes |-> {}]
                 ELSE IF Assigned(w, "rparam") = "status"
                 THEN [fields |-> <<Status>>, bytes |-> {}]
                 ELSE ReturnsLayout(w)
  IN  [name |-> w.name,
       key |-> <<"command", w.scope, Assigned(w, "ogf") * 1024 + Assigned(w, "ocf")>>,
       completion |-> IF CommandStatus(w) THEN "status" ELSE "complete",
       params |-> params.fields, returns |-> returns.fields,
       counts |-> params.counts, bytes |-> params.bytes \cup returns.bytes]

Extracted(w) == IF w.scope = "system" THEN ExtractedSystem(w) ELSE ExtractedBle(w)

(* The payload of an event: without parameters if its callback takes none, or *)
(* the members of the structure it reads, all passed on in order.             *)
ExtractedEvent(e) ==
  LET record == e.result
  IN  [name |-> e.name, key |-> <<"event", e.scope, e.code>>,
       payload |-> CASE e.shape = "bare" -> <<>>
                     [] /\ e.shape = "forward" /\ e.through = e.name /\ record # None
                        /\ e.forwarded = [i \in DOMAIN record.fields |-> record.fields[i].name]
                        -> RecordFields(<<>>, record)
                     [] OTHER -> None]

------------------------------------------------------------------------------
(* compare_declared and the rule of the structures: a layout the code proves  *)
(* must be the one the structures give, unless the code counts in bytes.      *)
(* Parameters the structures leave unresolved end the comparison.             *)
ParamsCompared(w, c) ==
  w.scope # "system" /\ c.params # None /\ DeclaredParams(w.parts) # None

ReturnsCompared(w, c) ==
  /\ w.scope # "system"
  /\ c.completion = "complete" /\ c.returns # None /\ DeclaredReturns(w.result) # None
  /\ c.params = None \/ DeclaredParams(w.parts) # None

Contradicts(w, c) ==
  /\ c.bytes = {}
  /\ \/ ParamsCompared(w, c) /\ c.params # DeclaredParams(w.parts)
     \/ ReturnsCompared(w, c) /\ c.returns # DeclaredReturns(w.result)

(* compare_declared_event: the structures may leave a payload unresolved, not *)
(* resolve one the code decodes procedurally.                                 *)
EventContradicts(process, e) ==
  DeclaredPayload(process.result) # None /\ e.payload # DeclaredPayload(process.result)

TransportEvents == {<<"event", "standard", 14>>, <<"event", "standard", 15>>}

(* Every entry has its row in the interface document, which lists no other.   *)
(* It does not list the system channel.                                       *)
Documented(entries, document) ==
  /\ \A entry \in {e \in entries : e.key[2] # "system"} :
       entry.key \in DOMAIN document /\ document[entry.key].name = entry.name
  /\ DOMAIN document \subseteq {entry.key : entry \in entries} \cup TransportEvents

CompletionsAgree(document) ==
  \A c \in Range(commands) :
    c.key[2] # "system" => document[c.key].completion \in {None, c.completion}

CountsPrecede == \A c \in Range(commands) : \A count \in c.counts : count[2]

------------------------------------------------------------------------------
(* The extraction of a release.                                               *)
Init ==
  /\ release \in Releases
  /\ phase = "commands"
  /\ commands = <<>> /\ events = <<>>
  /\ request = None /\ handed = None

Refuse == phase' = "refused" /\ UNCHANGED <<commands, events>>

ExtractCommand ==
  LET w == release.functions[Len(commands) + 1]
      c == Extracted(w)
  IN
  /\ phase = "commands" /\ Len(commands) < Len(release.functions)
  /\ IF ~Identified(w) THEN Refuse
     ELSE IF Contradicts(w, c) THEN Refuse
     ELSE commands' = Append(commands, c) /\ UNCHANGED <<phase, events>>
  /\ UNCHANGED <<release, request, handed>>

ExtractEvent ==
  LET process == release.processes[Len(events) + 1]
      e == ExtractedEvent(process)
  IN
  /\ phase = "commands" /\ Len(commands) = Len(release.functions)
  /\ Len(events) < Len(release.processes)
  /\ IF EventContradicts(process, e) THEN Refuse
     ELSE events' = Append(events, e) /\ UNCHANGED <<phase, commands>>
  /\ UNCHANGED <<release, request, handed>>

Publish ==
  LET entries == Range(commands) \cup Range(events) IN
  /\ phase = "commands" /\ Len(commands) = Len(release.functions)
  /\ Len(events) = Len(release.processes)
  /\ phase' = IF /\ CountsPrecede
                 /\ Documented(entries, release.document)
                 /\ CompletionsAgree(release.document)
              THEN "published" ELSE "refused"
  /\ UNCHANGED <<release, commands, events, request, handed>>

------------------------------------------------------------------------------
(* What the C code does.                                                      *)
(* The bytes a length counts, given the arguments and the reply read.         *)
Selected(w, local, args) ==
  LET node == Choice(w, local)
      holding == SelectSeq(node.cases, LAMBDA case : args[case.on] = case.tag)
  IN  IF holding = <<>> THEN node.other ELSE Head(holding).width

Lies(record, name, bytes) ==
  LET i == MemberOf(record, name)
  IN  SubSeq(bytes, Offset(record, i) + 1, Offset(record, i) + SizeOf(record.fields[i]))

Measured(w, length, args, resp) ==
  LET stores == SelectSeq(w.reads, LAMBDA read : read.op = "store" /\ read.to = length.name)
      name == IF length.kind = "pointee" THEN Last(stores).member ELSE length.name
      count == CASE length.kind \in {"constant", "opaque"} -> length.value
                 [] length.kind = "parameter" -> args[length.name]
                 [] length.kind = "local" -> Selected(w, length.name, args)
                 [] OTHER -> Number(Lies(w.result, name, resp))
  IN  count * length.unit

(* Where a member of the command buffer begins.                               *)
Target(w, to, args) ==
  LET n == to[1]
      record == View(w, n)
      starts == [k \in DOMAIN w.views[n] |-> Measured(w, w.views[n][k], args, None)]
  IN  Total(starts) + Offset(record, MemberOf(record, to[2]))

Written(w, node, args) ==
  LET record == View(w, node.to[1])
      field == record.fields[MemberOf(record, node.to[2])]
  IN  IF node.op = "copy" THEN SubSeq(args[node.from], 1, Measured(w, node.length, args, None))
      ELSE LittleEndian(IF node.from = None THEN node.value ELSE args[node.from], SizeOf(field))

(* The wrapper runs to hci_send_req: the first index_input bytes of its       *)
(* buffer, or None if it returns before.                                      *)
SentBle(w, args) ==
  LET step(run, node) ==
        IF run = None THEN None
        ELSE IF node.op = "choose"
        THEN IF Selected(w, node.local, args) = Return THEN None ELSE run
        ELSE IF node.op = "advance"
        THEN [run EXCEPT !.index = @ + Measured(w, node.length, args, None)]
        ELSE LET at == Target(w, node.to, args)
                 bytes == Written(w, node, args)
             IN  [run EXCEPT !.buffer = [k \in DOMAIN @ |->
                    IF k \in at + 1..at + Len(bytes) THEN bytes[k - at] ELSE @[k]]]
      run == FoldLeft(step, [buffer |-> [k \in 1..Capacity |-> Unwritten], index |-> 0], w.body)
  IN  IF run = None THEN None ELSE SubSeq(run.buffer, 1, run.index)

Sent(w, args) ==
  IF w.scope # "system" THEN SentBle(w, args)
  ELSE IF w.length = None THEN None ELSE SystemSent(w, args, Unwritten)

(* A reply is padded to the structure it is read through.                     *)
Padded(reply, size) == [k \in 1..size |-> IF k <= Len(reply) THEN reply[k] ELSE 0]

Call(w, args) ==
  /\ phase = "published" /\ request = None /\ handed = None
  /\ request' = [wrapper |-> w, args |-> args, sent |-> Sent(w, args)]
  /\ UNCHANGED <<release, phase, commands, events, handed>>

(* hci_send_req returns: what the wrapper hands to its caller, unless the     *)
(* status says that the command failed.                                       *)
Outputs(w, args, reply) ==
  LET record == w.result
      resp == Padded(reply, Total([i \in DOMAIN record.fields |-> SizeOf(record.fields[i])]))
      of(read) == IF read.op = "store" THEN Lies(record, read.member, resp)
                  ELSE SubSeq(Lies(record, read.member, resp), 1,
                              Measured(w, read.length, args, resp))
  IN  [k \in DOMAIN w.reads |-> of(w.reads[k])]

(* A system command's reply is read where it lies.                            *)
SystemOutputs(w, reply) ==
  [k \in DOMAIN w.reads |->
     SubSeq(Padded(reply, Capacity), w.reads[k].at + 1, w.reads[k].at + w.reads[k].copied)]

Complete(reply) ==
  LET w == request.wrapper IN
  /\ request # None /\ handed = None
  /\ request.sent # None /\ reply[1] = 0
  /\ \/ /\ w.scope # "system" /\ Assigned(w, "rparam") = "resp"
        /\ handed' = [name |-> w.name, bytes |-> reply, parts |-> Outputs(w, request.args, reply)]
     \/ /\ w.scope = "system"
        /\ handed' = [name |-> w.name, bytes |-> reply, parts |-> SystemOutputs(w, reply)]
  /\ UNCHANGED <<release, phase, commands, events, request>>

(* The process function of an event passes members of the payload on, a       *)
(* buffer as a pointer to the rest.                                           *)
Deliver(e, payload) ==
  LET record == e.cast
      size == Total([i \in DOMAIN record.fields |-> SizeOf(record.fields[i])])
      of(name) == IF record.fields[MemberOf(record, name)].kind = "buffer"
                  THEN SubSeq(payload, Offset(record, MemberOf(record, name)) + 1, Len(payload))
                  ELSE Lies(record, name, Padded(payload, size))
  IN
  /\ phase = "published" /\ handed = None
  /\ e.shape # "procedural"
  /\ handed' = [name |-> e.name, bytes |-> payload,
                parts |-> IF e.shape = "bare" THEN <<>>
                          ELSE [k \in DOMAIN e.forwarded |-> of(e.forwarded[k])]]
  /\ UNCHANGED <<release, phase, commands, events, request>>

Next ==
  \/ ExtractCommand
  \/ ExtractEvent
  \/ Publish
  \/ \E w \in Range(release.functions) : \E args \in Arguments(w) : Call(w, args)
  \/ \E reply \in Replies : Complete(reply)
  \/ \E e \in Range(release.processes) : \E payload \in Payloads : Deliver(e, payload)

Spec == Init /\ [][Next]_vars

------------------------------------------------------------------------------
(* wba.rs: the layouts of a function the headers alone declare.               *)
(* bounded_by_maximum: a member whose size is only a maximum repeats by its   *)
(* own lengths.  (One that is no fixed array refuses the release.)            *)
BoundedByMaximum(fields, members) ==
  IF fields # None /\ members = {} THEN fields ELSE None

(* returned_in_order: the function's parameters are those of the command and  *)
(* the returns after Status that do not echo one.                             *)
ReturnedInOrder(params, returns, signature) ==
  LET names(fields) == [i \in DOMAIN fields |-> fields[i].name]
      fresh == SelectSeq(names(Tail(returns)), LAMBDA name : name \notin Range(names(params)))
  IN  IF params = None \/ returns = None THEN returns
      ELSE IF names(params) \o fresh = signature THEN returns
      ELSE None

HeaderParams(w) == BoundedByMaximum(DeclaredParams(w.parts), w.maximum)

HeaderReturns(w) == ReturnedInOrder(HeaderParams(w), DeclaredReturns(w.result), w.signature)

------------------------------------------------------------------------------
(* What a wrapper writes, by the name of the member.                          *)
Writes(w, args) ==
  IF w.scope = "system" THEN SystemWrites(w, args)
  ELSE LET nodes == SelectSeq(w.body, LAMBDA node : node.op \in {"assign", "copy"})
       IN  [k \in DOMAIN nodes |-> [name |-> nodes[k].to[2], bytes |-> Written(w, nodes[k], args)]]

(* The bytes sent are the fields of a layout, one after the other, each what  *)
(* the wrapper writes to the member of that name.                             *)
Consists(fields, writes, of(_), cut) ==
  /\ \A i \in DOMAIN fields : \E k \in DOMAIN writes : writes[k].name = fields[i].name
  /\ Range(request.sent) \subseteq Byte
  /\ Divides(cut, fields, request.sent)
  /\ \A i \in DOMAIN fields : Field(request.sent, cut, i) = of(fields[i].name)

SentAs(fields) ==
  LET among(writes) ==
        LET of(name) == SelectSeq(writes, LAMBDA write : write.name = name)[1].bytes
        IN  Consists(fields, writes, of,
                     [i \in 0..Len(fields) |-> Total([j \in 1..i |-> Len(of(fields[j].name))])])
  IN  among(Writes(request.wrapper, request.args))

(* If what came back is laid out so, with only the last field of any width,   *)
(* the parts of `members` handed over are its fields.                         *)
HandsOver(fields, members, cut) ==
  Divides(cut, fields, handed.bytes) =>
    \A k \in {k \in DOMAIN members : members[k] # None} :
      \E i \in DOMAIN fields :
        fields[i].name = members[k] /\ handed.parts[k] = Field(handed.bytes, cut, i)

ReadAs(fields, members) ==
  HandsOver(fields, members,
            [i \in 0..Len(fields) |->
               IF i = Len(fields) THEN Len(handed.bytes)
               ELSE Total([j \in 1..i |-> MaxWidth(fields[j])])])

Read(w) == [k \in DOMAIN w.reads |-> w.reads[k].member]

Parameters(e) ==
  IF e.result = None THEN <<>>
  ELSE [i \in DOMAIN e.result.fields |-> e.result.fields[i].name]

SentBy(w) == request # None /\ request.wrapper = w /\ request.sent # None

HandedBy(function) == handed # None /\ handed.name = function.name

(* Whatever a wrapper of a published release is called with, the bytes it     *)
(* sends are what the layout extracted from its code says, to the byte: sizes *)
(* added up statement by statement, counts traced through parameters, and     *)
(* union widths through switches.                                             *)
LayoutsAreSent ==
  phase = "published" =>
    \A k \in DOMAIN commands :
      SentBy(release.functions[k]) /\ commands[k].params # None => SentAs(commands[k].params)

(* A reply or payload that is laid out as extracted is handed to the          *)
(* application member by member: each output of a wrapper, and each argument  *)
(* of a callback, is the field of its name, as long as its count says.        *)
LayoutsAreRead ==
  phase = "published" =>
    /\ \A k \in DOMAIN commands :
         HandedBy(release.functions[k]) /\ commands[k].returns # None =>
           ReadAs(commands[k].returns, Read(release.functions[k]))
    /\ \A k \in DOMAIN events :
         HandedBy(release.processes[k]) /\ events[k].payload # None =>
           ReadAs(events[k].payload, Parameters(release.processes[k]))
==============================================================================
