----------------------------- MODULE MCExtraction -----------------------------
(* Extraction on wrappers in the idiom of ST's generator, after the fixtures  *)
(* of stm32wb-catalog-extract's tests: variable buffers that split the        *)
(* parameters, unions chosen by switches and conditionals, counts behind      *)
(* pointers, lists of structures, and wrappers whose code is not of a shape   *)
(* the analysis knows or disagrees with its own structures.                   *)
EXTENDS Extraction

U(name, width) == [name |-> name, kind |-> "scalar", width |-> width, signed |-> FALSE]
Rec(name, of) == [name |-> name, kind |-> "record", of |-> of]
Arr(name, width, len) == [name |-> name, kind |-> "array", element |-> [width |-> width], len |-> len]
Buf(name, width, len) == [name |-> name, kind |-> "buffer", element |-> [width |-> width], len |-> len]
BufOf(name, of, len) == [name |-> name, kind |-> "buffer", element |-> [of |-> of], len |-> len]

Packed(size, fields) == [union |-> FALSE, packed |-> TRUE, size |-> size, fields |-> fields]

MCRecords ==
  "Entry_t" :> Packed(2, <<U("Kind", 1), U("Value", 1)>>)
  @@ "Uuid_t" :> [union |-> TRUE, packed |-> TRUE, size |-> 2,
                  fields |-> <<U("Uuid_16", 1), Arr("Uuid_128", 1, 2)>>]
  @@ "Init_t" :> Packed(5, <<[name |-> "Buffer", kind |-> "other", width |-> 4, pointer |-> TRUE], U("Kind", 1)>>)
  @@ "Config_t" :> Packed(3, <<U("Kind", 1), U("Value", 2)>>)
  @@ "Holder_t" :> Packed(2, <<Rec("Uuid", "Uuid_t")>>)

MCStructs ==
  "Entry_t" :> <<U("Kind", 1), U("Value", 1)>> @@ "Config_t" :> <<U("Kind", 1), U("Value", 2)>>

------------------------------------------------------------------------------
(* Statements.                                                                *)
Bytes(n) == Constant(n)
Times(name, unit) == [kind |-> "parameter", name |-> name, unit |-> unit]
Local(name) == [kind |-> "local", name |-> name, unit |-> 1]
Of(name, unit) == [kind |-> "member", name |-> name, unit |-> unit]
At(name, unit) == [kind |-> "pointee", name |-> name, unit |-> unit]

Advance(length) == [op |-> "advance", length |-> length]
Assign(n, name) == [op |-> "assign", to |-> <<n, name>>, from |-> name, value |-> 0]
Copy(n, name, length) == [op |-> "copy", to |-> <<n, name>>, from |-> name, length |-> length]
Put(n, name, width) == <<Assign(n, name), Advance(Bytes(width))>>
PutAll(n, name, length) == <<Copy(n, name, length), Advance(length)>>
Case(on, tag, width) == [on |-> on, tag |-> tag, width |-> width]
Choose(local, cases, other) == <<[op |-> "choose", local |-> local, cases |-> cases, other |-> other]>>

LookAt(at) == [member |-> None, at |-> at, width |-> 1, copied |-> 1]
Reads(member, at, width, copied) == [member |-> member, at |-> at, width |-> width, copied |-> copied]

Store(member) == [op |-> "store", member |-> member, to |-> member]
CopyOut(member, length) == [op |-> "copy", member |-> member, length |-> length]

Rq(ocf, rparam) == <<<<"ogf", 63>>, <<"ocf", ocf>>, <<"rparam", rparam>>>>
Late(rq) == rq \o <<<<"event", 15>>>>

Wrapper(name, rq, views, body, reads, signature) ==
  [name |-> name, scope |-> "vendor", request |-> rq, views |-> views, body |-> body,
   reads |-> reads, signature |-> signature, maximum |-> {}, parts |-> <<>>, result |-> None]

Listed == Put(0, "Mode", 1) \o Put(0, "Num", 1) \o PutAll(0, "List", Times("Num", 1))
ListParts == 0 :> Packed(6, <<U("Mode", 1), U("Num", 1), Buf("List", 1, 4)>>)
Starts(views) == [n \in 0..(Len(views) - 1) |-> views[n + 1]]
AfterList == Starts(<<<<>>, <<Bytes(2), Times("Num", 1)>>>>)
Interval == 1 :> Packed(2, <<U("Interval", 2)>>)
Mode == 0 :> Packed(1, <<U("Mode", 1)>>)

With(wrapper, parts, result) == [wrapper EXCEPT !.parts = parts, !.result = result]

(* Wrappers the analysis resolves.                                            *)
Plain ==
  {With(Wrapper("set_name", Late(Rq(1, "status")), AfterList, Listed \o Put(1, "Interval", 2), <<>>,
                 <<"Mode", "Num", "List", "Interval">>),
         ListParts @@ Interval, None),
   With(Wrapper("add", Rq(2, "resp"), Starts(<<<<>>, <<Bytes(1), Local("size")>>>>),
                 Put(0, "Type", 1)
                   \o Choose("size", <<Case("Type", 1, 1), Case("Type", 2, 2)>>, Return)
                   \o PutAll(0, "Uuid", Local("size")) \o Put(1, "Interval", 2),
                 <<Store("Handle")>>, <<"Type", "Uuid", "Interval", "Handle">>),
         0 :> Packed(3, <<U("Type", 1), Rec("Uuid", "Uuid_t")>>) @@ Interval,
         Packed(3, <<Status, U("Handle", 2)>>)),
   With(Wrapper("include", Rq(3, "status"), Starts(<<<<>>>>),
                 Choose("size", <<Case("Type", 2, 2)>>, 1) \o Put(0, "Type", 1)
                   \o PutAll(0, "Uuid", Local("size")), <<>>, <<"Type", "Uuid">>),
         0 :> Packed(3, <<U("Type", 1), Rec("Uuid", "Uuid_t")>>), None),
   With(Wrapper("read", Rq(4, "resp"), Starts(<<<<>>>>), Put(0, "Mode", 1),
                 <<Store("Num"), CopyOut("List", At("Num", 1))>>, <<"Mode", "Num", "List">>),
         Mode, Packed(4, <<Status, U("Num", 1), Buf("List", 1, 2)>>)),
   With(Wrapper("read_two", Rq(5, "resp"), Starts(<<>>), <<>>,
                 <<Store("Num"), CopyOut("List", Of("Num", 2))>>, <<"Num", "List">>),
         <<>>, Packed(6, <<Status, U("Num", 1), Buf("List", 2, 2)>>)),
   With(Wrapper("entries", Rq(6, "status"), Starts(<<<<>>>>),
                 Put(0, "Num", 1) \o PutAll(0, "List", Times("Num", 2)), <<>>, <<"Num", "List">>),
         0 :> Packed(5, <<U("Num", 1), BufOf("List", "Entry_t", 2)>>), None),
   With(Wrapper("fixed", Rq(7, "status"), Starts(<<<<>>>>),
                 PutAll(0, "Addr", Bytes(2)) \o PutAll(0, "Entry", Bytes(2))
                   \o <<[Assign(0, "Mode") EXCEPT !.from = None, !.value = 3], Advance(Bytes(1))>>,
                 <<>>, <<"Addr", "Entry", "Mode">>),
         0 :> Packed(5, <<Arr("Addr", 1, 2), Rec("Entry", "Entry_t"), U("Mode", 1)>>), None)}

(* Wrappers at odds with their structures or beyond the analysis.             *)
Odd ==
  {With(Wrapper("wrong_size", Rq(8, "status"), AfterList,
                 <<Assign(0, "Mode"), Advance(Bytes(2))>> \o SubSeq(Listed, 3, 6) \o Put(1, "Interval", 2),
                 <<>>, <<"Mode", "Num", "List", "Interval">>),
         ListParts @@ Interval, None),
   With(Wrapper("reordered", Rq(9, "status"), AfterList,
                 Put(0, "Num", 1) \o Put(0, "Mode", 1) \o SubSeq(Listed, 5, 6) \o Put(1, "Interval", 2),
                 <<>>, <<"Mode", "Num", "List", "Interval">>),
         ListParts @@ Interval, None),
   With(Wrapper("short", Rq(10, "status"), Starts(<<<<>>>>),
                 Put(0, "Num", 1) \o <<Copy(0, "List", Times("Num", 2)), Advance(Times("Num", 1))>>,
                 <<>>, <<"Num", "List">>),
         0 :> Packed(5, <<U("Num", 1), BufOf("List", "Entry_t", 2)>>), None),
   With(Wrapper("in_bytes", Rq(21, "status"), Starts(<<<<>>>>),
                 Put(0, "Num", 1) \o PutAll(0, "List", Times("Num", 1)), <<>>, <<"Num", "List">>),
         0 :> Packed(5, <<U("Num", 1), BufOf("List", "Entry_t", 2)>>), None),
   With(Wrapper("excused", Rq(11, "resp"), Starts(<<<<>>>>),
                 Put(0, "Num", 1) \o PutAll(0, "List", Times("Num", 1)),
                 <<Store("A"), Store("B"), CopyOut("Data", At("A", 1))>>,
                 <<"Num", "List", "A", "B", "Data">>),
         0 :> Packed(5, <<U("Num", 1), BufOf("List", "Entry_t", 2)>>),
         Packed(5, <<Status, U("A", 1), U("B", 1), Buf("Data", 1, 2)>>)),
   With(Wrapper("apart", Rq(12, "status"), Starts(<<<<>>>>),
                 Put(0, "Num", 1) \o Put(0, "Mode", 1) \o PutAll(0, "List", Times("Num", 1)),
                 <<>>, <<"Num", "Mode", "List">>),
         0 :> Packed(6, <<U("Num", 1), U("Mode", 1), Buf("List", 1, 4)>>), None),
   With(Wrapper("crossed", Rq(13, "resp"), Starts(<<<<>>>>), Put(0, "Mode", 1),
                 <<Store("A"), Store("B"), CopyOut("Data", At("A", 1))>>, <<"Mode", "A", "B", "Data">>),
         Mode, Packed(5, <<Status, U("A", 1), U("B", 1), Buf("Data", 1, 2)>>)),
   With(Wrapper("crossed_union", Rq(14, "resp"), Starts(<<<<>>>>),
                 Put(0, "Type", 1) \o Choose("size", <<Case("Type", 2, 2)>>, 1)
                   \o PutAll(0, "Uuid", Local("size")),
                 <<Store("A"), Store("B"), CopyOut("Data", At("A", 1))>>,
                 <<"Type", "Uuid", "A", "B", "Data">>),
         0 :> Packed(3, <<U("Type", 1), Rec("Uuid", "Uuid_t")>>),
         Packed(5, <<Status, U("A", 1), U("B", 1), Buf("Data", 1, 2)>>)),
   With([Wrapper("repeated", Rq(15, "status"), Starts(<<<<>>>>),
                  Put(0, "Num", 1) \o PutAll(0, "List", Times("Num", 1)), <<>>, <<"Num", "List">>)
            EXCEPT !.maximum = {"List"}],
         0 :> Packed(3, <<U("Num", 1), Arr("List", 1, 2)>>), None),
   With(Wrapper("undeclared", Rq(16, "status"), Starts(<<<<>>>>), Put(0, "Mode", 1), <<>>, <<"Mode">>),
         Mode @@ Interval, None),
   With(Wrapper("gap", Rq(17, "status"), 0 :> <<>> @@ 2 :> <<Bytes(1)>>, Put(0, "Mode", 1), <<>>,
                 <<"Mode">>),
         Mode @@ 2 :> Packed(2, <<U("Interval", 2)>>), None),
   With(Wrapper("echo", Rq(18, "resp"), Starts(<<<<>>>>), Put(0, "Mode", 1),
                 <<Store("Handle")>>, <<"Mode", "Handle">>),
         Mode, Packed(4, <<Status, U("Mode", 1), U("Handle", 2)>>)),
   With(Wrapper("unstatused", Rq(19, "resp"), Starts(<<<<>>>>), Put(0, "Mode", 1),
                 <<Store("Handle")>>, <<"Mode", "Handle">>),
         Mode, Packed(2, <<U("Handle", 2)>>)),
   With(Wrapper("no_ocf", <<<<"ogf", 63>>, <<"rparam", "status">>>>, Starts(<<>>), <<>>, <<>>, <<>>),
         <<>>, None),
   With(Wrapper("standard", <<<<"ogf", 8>>, <<"ocf", 1>>, <<"rparam", "status">>>>, Starts(<<>>), <<>>,
                 <<>>, <<>>), <<>>, None),
   With(Wrapper("late", Late(Rq(20, "resp")), Starts(<<>>), <<>>, <<>>, <<>>), <<>>,
         Packed(1, <<Status>>))}

(* Wrappers of system commands.                                               *)
System(name, ocf, sends, length, through) ==
  [name |-> name, scope |-> "system", opcode |-> 63 * 1024 + ocf, sends |-> sends, length |-> length,
   through |-> through, bytes |-> <<>>, members |-> <<>>, reads |-> <<LookAt(0)>>, maximum |-> {}]

ByteAt(at, from) == [at |-> at, from |-> from]
MemberFrom(member, from) == [member |-> member, from |-> from]

SystemFunctions ==
  {System("s_none", 101, "none", 0, None),
   System("s_pointer", 102, "pointer", 5, "Init_t"),
   System("s_resized", 103, "pointer", 3, "Init_t"),
   System("s_running", 104, "pointer", None, "Init_t"),
   [System("s_bytes", 105, "local", 2, None) EXCEPT !.bytes = <<ByteAt(1, "Num"), ByteAt(0, "Mode")>>],
   [System("s_hole", 106, "local", 3, None) EXCEPT !.bytes = <<ByteAt(0, "Mode"), ByteAt(2, "Num")>>],
   [System("s_twice", 107, "local", 1, None) EXCEPT !.bytes = <<ByteAt(0, "Mode"), ByteAt(0, "Num")>>],
   [System("s_cast", 108, "local", 3, "Config_t") EXCEPT
      !.members = <<MemberFrom("Value", "Interval"), MemberFrom("Kind", "Mode")>>],
   [System("s_both", 109, "local", 3, "Config_t") EXCEPT
      !.members = <<MemberFrom("Value", "Interval")>>, !.bytes = <<ByteAt(0, "Mode")>>],
   [System("s_reads", 110, "none", 0, None) EXCEPT
      !.reads = <<LookAt(0), Reads("Value", 2, 2, 2), Reads("Kind", 1, 1, 1)>>],
   [System("s_unread", 111, "none", 0, None) EXCEPT !.reads = <<LookAt(0), LookAt(1)>>],
   [System("s_skipped", 112, "none", 0, None) EXCEPT !.reads = <<LookAt(0), Reads("Kind", 2, 1, 1)>>],
   [System("s_cut", 113, "none", 0, None) EXCEPT !.reads = <<LookAt(0), Reads("Value", 1, 2, 1)>>],
   [System("s_blind", 114, "none", 0, None) EXCEPT !.reads = <<Reads("Kind", 1, 1, 1)>>],
   [System("s_standard", 0, "none", 0, None) EXCEPT !.opcode = 8 * 1024]}

Process(name, code, shape, forwarded, result) ==
  [name |-> name, scope |-> "standard", code |-> code, shape |-> shape, result |-> result,
   through |-> name, cast |-> result, forwarded |-> forwarded]

Modified == Packed(5, <<U("Handle", 2), U("Num", 1), Buf("List", 1, 2)>>)

MCProcesses ==
  {Process("done", 1, "bare", <<>>, None),
   Process("modified", 2, "forward", <<"Handle", "Num", "List">>, Modified),
   Process("swapped", 3, "forward", <<"Handle", "List", "Num">>, Modified),
   Process("report", 4, "procedural", <<>>, Packed(3, <<U("Num", 1), Rec("Uuid", "Uuid_t")>>)),
   Process("guessed", 5, "procedural", <<>>, Modified)}

------------------------------------------------------------------------------
(* Rows of the interface document.                                            *)
KeyOf(w) ==
  <<"command", "vendor",
    63 * 1024 + IF Assigned(w, "ocf") = None THEN 0 ELSE Assigned(w, "ocf")>>

Row(w, completion) == KeyOf(w) :> [name |-> w.name, completion |-> completion]

Right(w) == Row(w, IF CommandStatus(w) THEN "status" ELSE "complete")

EventRow(e) == <<"event", "standard", e.code>> :> [name |-> e.name, completion |-> None]

Extra(code) == <<"event", "standard", code>> :> [name |-> "extra", completion |-> None]

Release(functions, processes, document) ==
  [functions |-> functions, processes |-> processes, document |-> document]

(* One release for each wrapper and each process function, and documents that *)
(* disagree: over a completion, a name, an entry too many or too few.         *)
Lone(functions) == {Release(<<w>>, <<>>, Right(w)) : w \in functions}

Disagreeing(w) ==
  {Release(<<w>>, <<>>, document) :
     document \in {Row(w, None), Row(w, "status"), Row(w, "complete"), <<>>, Right(w) @@ Extra(13),
                   Right(w) @@ Extra(14), KeyOf(w) :> [name |-> "other", completion |-> None]}}

Reporting(processes) == {Release(<<>>, <<e>>, EventRow(e)) : e \in processes}

Both(v, w, e) ==
  {Release(<<v, w>>, <<e>>, Right(v) @@ Right(w) @@ EventRow(e)),
   Release(<<v, w>>, <<e>>, Right(v) @@ EventRow(e)), Release(<<v, w>>, <<e>>, Right(v) @@ Right(w))}

Named(functions, name) == CHOOSE f \in functions : f.name = name

MCReleases ==
  Lone(Plain \cup Odd)
  \cup {Release(<<w>>, <<>>, <<>>) : w \in SystemFunctions}
  \cup Reporting(MCProcesses)
  \cup Disagreeing(Named(Plain, "set_name"))
  \cup Both(Named(Plain, "read"), Named(Plain, "add"), Named(MCProcesses, "done"))

MCArguments(w) ==
  LET numbers(modes, most) ==
        {"Mode" :> m @@ "Num" :> n @@ "List" :> <<1, 2, 3, 1>> @@ "Interval" :> 6
           @@ "Buffer" :> <<3, 2, 1, 0>> @@ "Kind" :> <<2>> : m \in modes, n \in 0..most}
  IN  CASE w.scope = "system" -> numbers(0..3, 3)
        [] w.name \in {"add", "include", "crossed_union"} ->
             {"Type" :> t @@ "Uuid" :> <<3, 2>> @@ "Interval" :> 9 : t \in 0..3}
        [] w.name = "fixed" -> {"Addr" :> <<1, 2>> @@ "Entry" :> <<2, 3>>}
        [] w.name \in {"entries", "short", "repeated"} -> numbers({1}, 2)
        [] OTHER -> numbers({1}, 3)

MCReplies == {<<s>> \o rest : s \in {0, 1}, rest \in BoundedSeq(0..2, 4)}

MCPayloads == BoundedSeq(0..2, 5)
==============================================================================
