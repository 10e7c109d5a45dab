----------------------------- MODULE SystemWrappers ----------------------------
(* The wrappers of system commands, which shci.rs of stm32wb-catalog-extract  *)
(* reads: each calls shci_send(opcode, length, parameters, response) once.    *)
(* A wrapper is                                                               *)
(*   sends    none, a pointer to a structure, or a local buffer               *)
(*   length   the constant length it passes, or None if computed at run time  *)
(*   through  the structure pointed to, or the local buffer is cast to; None  *)
(*   bytes    of a local buffer: [at, from], byte `at` = parameter `from`, a  *)
(*            constant index or None                                          *)
(*   members  of a local buffer cast to a structure: [member, from]           *)
(*   reads    of the reply: [member, at, width, copied], `copied` bytes from  *)
(*            payload[at] on for a member `width` wide, or only looked at if  *)
(*            `member` is None                                                *)
EXTENDS Records

MemberOf(record, name) == CHOOSE i \in DOMAIN record.fields : record.fields[i].name = name

------------------------------------------------------------------------------
(* record_fields: pointers stand as integers of their width.                  *)
SystemFields(name) ==
  LET record == Records[name]
      of(f) == IF f.kind = "other" /\ f.pointer
               THEN [name |-> f.name, kind |-> "scalar", width |-> f.width, signed |-> FALSE]
               ELSE FixedField(f)
      fields == [i \in DOMAIN record.fields |-> of(record.fields[i])]
  IN  IF ~IsStructure(record) \/ None \in Range(fields) THEN None ELSE fields

(* params_layout and local_buffer.                                            *)
OfStructure(w) ==
  IF Records[w.through].size # w.length THEN None ELSE SystemFields(w.through)

OfBytes(w) ==
  LET at(k) == CHOOSE i \in DOMAIN w.bytes : w.bytes[i].at = k
      places == [i \in DOMAIN w.bytes |-> w.bytes[i].at]
  IN  IF IsInjective(places) /\ Range(places) = 0..(w.length - 1)
      THEN [k \in 1..w.length |-> [name |-> w.bytes[at(k - 1)].from, kind |-> "scalar",
                                   width |-> 1, signed |-> FALSE]]
      ELSE None

SystemParams(w) ==
  IF w.length = None THEN None
  ELSE IF w.length = 0 THEN IF w.sends = "none" THEN <<>> ELSE None
  ELSE IF \/ w.sends = "pointer"
          \/ w.sends = "local" /\ w.bytes = <<>> /\ w.members # <<>>
  THEN OfStructure(w)
  ELSE IF w.sends = "local" /\ w.bytes # <<>> /\ w.members = <<>> THEN OfBytes(w)
  ELSE None

(* returns_layout: the status and what is stored after it, without a gap and  *)
(* with nothing beyond.                                                       *)
SystemReturns(w) ==
  LET stored == SetToSortSeq({k \in DOMAIN w.reads : w.reads[k].member # None},
                             LAMBDA j, k : w.reads[j].at < w.reads[k].at)
      read(i) == w.reads[stored[i]]
      end(i) == 1 + Total([j \in 1..i |-> read(j).width])
  IN  IF /\ \E k \in DOMAIN w.reads : w.reads[k].at = 0
         /\ \A i \in DOMAIN stored : read(i).at = end(i - 1) /\ read(i).copied = read(i).width
         /\ \A k \in DOMAIN w.reads : w.reads[k].at < end(Len(stored))
      THEN <<Status>> \o [i \in DOMAIN stored |->
             [name |-> read(i).member, kind |-> "scalar", width |-> read(i).width, signed |-> FALSE]]
      ELSE None

------------------------------------------------------------------------------
(* What the wrapper does: the parameters it sends, and the parts of the reply *)
(* it stores.  Each byte of a buffer filled byte by byte is cut to a byte.    *)
SystemWrites(w, args) ==
  CASE w.sends = "pointer" ->
         [i \in DOMAIN Records[w.through].fields |->
            LET f == Records[w.through].fields[i]
            IN  [name |-> f.name, at |-> Offset(Records[w.through], i), bytes |-> args[f.name]]]
    [] w.sends = "local" ->
         [k \in DOMAIN w.bytes |-> [name |-> w.bytes[k].from, at |-> w.bytes[k].at,
                                    bytes |-> LittleEndian(args[w.bytes[k].from], 1)]]
         \o [k \in DOMAIN w.members |->
              LET record == Records[w.through]
                  i == MemberOf(record, w.members[k].member)
              IN  [name |-> record.fields[i].name, at |-> Offset(record, i),
                   bytes |-> LittleEndian(args[w.members[k].from], SizeOf(record.fields[i]))]]
    [] OTHER -> <<>>

SystemSent(w, args, unwritten) ==
  FoldLeft(LAMBDA sent, write : [k \in DOMAIN sent |->
             IF k \in write.at + 1..write.at + Len(write.bytes) THEN write.bytes[k - write.at]
             ELSE sent[k]],
           [k \in 1..w.length |-> unwritten], SystemWrites(w, args))
==============================================================================
