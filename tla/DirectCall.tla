------------------------------- MODULE DirectCall -------------------------------
(* A command executed by calling the stack's C function: the code that        *)
(* stm32wb-hci-macros/src/direct.rs generates from a command's layouts and    *)
(* the helpers of stm32wb-hci/src/direct.rs it uses.                          *)
(*                                                                            *)
(* The parameters are encoded into a buffer, then read field by field: each   *)
(* becomes an argument, a place in the buffer (integers are copied from       *)
(* theirs).  The function gets the arguments and one output buffer for each   *)
(* return parameter after the status that no parameter echoes.  If it reports *)
(* success, the returns are put together and decoded.                         *)
(*                                                                            *)
(* A command is its layouts, whether it completes with Command Complete or    *)
(* with Command Status, and the returns its return type does not decode.      *)
EXTENDS WireLayout

CONSTANTS
  Commands,
  Encodings   \* what the parameters of a command may be encoded as

ASSUME CommandAssumption ==
  \A c \in Commands :
    /\ c.params \in Seq(Fields) /\ c.returns \in Seq(Fields)
    /\ c.completes \in BOOLEAN
    /\ c.undecoded \subseteq Seq(Byte)
ASSUME EncodingAssumption == Encodings \subseteq Seq(Byte)

(* Parameter sets are parameters, of which a PHY that is allowed selects one. *)
ASSUME SetsAssumption ==
  \A c \in Commands :
    /\ \A j \in DOMAIN c.params :
         c.params[j].kind = "sets" => Cardinality(c.params[j].allowed) <= c.params[j].capacity
    /\ \A j \in DOMAIN c.returns : c.returns[j].kind # "sets"

VARIABLES
  pc,        \* "idle", "reading", "called", "putting", "returned"
  command,
  encoded,   \* the encoded parameters
  at,        \* how many of these bytes the Reader has taken
  args,      \* the arguments so far: a place and a width in `encoded` each
  passed,    \* the arguments the function was called with, or None
  outputs,   \* what the function wrote, by position among the returns
  puts,      \* how many returns are put together
  written,   \* their bytes
  outcome    \* what the call returned

vars == <<pc, command, encoded, at, args, passed, outputs, puts, written, outcome>>

Places == [at : Nat, width : Nat]

(* None stands for an Option without a value.                                 *)
ASSUME NoSequenceAssumption == None \notin Seq(Places) \cup Seq(Byte)

------------------------------------------------------------------------------
(* What the generator makes of a command.                                     *)
Returned(c) ==
  IF c.completes /\ c.returns # <<>> THEN Tail(c.returns) ELSE <<>>

Echoes(c, f) == \E j \in DOMAIN c.params : c.params[j].name = f.name

(* The code goes by the name alone (direct.rs:260).  Wherever a layout of     *)
(* stm32wba.toml returns a parameter, it is the same field.                   *)
ASSUME EchoAssumption ==
  \A c \in Commands : \A i \in DOMAIN Returned(c), j \in DOMAIN c.params :
    Returned(c)[i].name = c.params[j].name => Returned(c)[i] = c.params[j]

Outputs(c) == {i \in DOMAIN Returned(c) : ~Echoes(c, Returned(c)[i])}

(* `call` and `expand` generate nothing for the rest: optional members, a     *)
(* status that does not come first, outputs of a kind the C function has no   *)
(* pointer for, a count that is not an output itself.                         *)
Generated(c) ==
  /\ Sound(c.params)
  /\ \A j \in DOMAIN c.params : c.params[j].kind # "optional"
  /\ c.completes /\ c.returns # <<>> =>
       /\ c.returns[1].name = "Status"
       /\ c.returns[1].kind = "scalar" /\ c.returns[1].width = 1
       /\ ~c.returns[1].signed
  /\ Sound(Returned(c))
  /\ \A i \in Outputs(c) :
       LET f == Returned(c)[i] IN
       /\ f.kind \notin {"union", "optional"}
       /\ f.kind = "counted" =>
            \E j \in Outputs(c) : Returned(c)[j].name = f.count

Init ==
  /\ pc = "idle"
  /\ command = None /\ encoded = None
  /\ at = 0 /\ args = <<>> /\ passed = None
  /\ outputs = <<>> /\ puts = 0 /\ written = <<>>
  /\ outcome = None

End(result) ==
  /\ pc' = "returned"
  /\ outcome' = result

Invalid == [error |-> "Invalid"]

(* Reader::new: the buffer holds the largest parameters of the layout.        *)
Start(c, bytes) ==
  /\ pc = "idle"
  /\ Generated(c)
  /\ command' = c
  /\ encoded' = bytes
  /\ IF Len(bytes) > Envelope(c.params).max
     THEN End(Invalid)
     ELSE pc' = "reading" /\ UNCHANGED outcome
  /\ UNCHANGED <<at, args, passed, outputs, puts, written>>

Bytes(place) == SubSeq(encoded, place.at + 1, place.at + place.width)

(* The value of a parameter already read.                                     *)
Value(name) ==
  LET j == CHOOSE k \in DOMAIN args : command.params[k].name = name
  IN Number(Bytes(args[j]))

(* The width of the variant `v` selects, or None.                             *)
Selected(f, v) ==
  LET tags == {f.variants[k].tag : k \in DOMAIN f.variants}
      tag  == IF v \in tags THEN v ELSE Other
  IN IF tag \notin tags THEN None
     ELSE f.variants[CHOOSE k \in DOMAIN f.variants : f.variants[k].tag = tag].width

(* How many bytes a parameter takes, given the values read before it, or None *)
(* where the code returns Invalid: `count`, the match on a selector, `sets`.  *)
Width(f) ==
  CASE f.kind \in {"scalar", "struct", "array"} -> MaxWidth(f)
    [] f.kind = "counted" ->
         IF Value(f.count) \notin 0..f.capacity THEN None
         ELSE Value(f.count) * ElementWidth(f.element)
    [] f.kind = "union" -> Selected(f, Value(f.selector))
    [] f.kind = "sets" ->
         IF ~(Bits(Value(f.phys)) \subseteq f.allowed) THEN None
         ELSE Cardinality(Bits(Value(f.phys))) * f.width

(* Mutant: the Reader looks at the next bytes without taking them.            *)
ReadPeeks ==
  /\ pc = "reading"
  /\ Len(args) < Len(command.params)
  /\ LET width == Width(command.params[Len(args) + 1]) IN
     IF width = None \/ at + width > Len(encoded)
     THEN End(Invalid) /\ UNCHANGED args
     ELSE /\ args' = Append(args, [at |-> at, width |-> width])
          /\ UNCHANGED <<pc, outcome>>
  /\ at' = IF Len(args) + 1 = Len(command.params) THEN Len(encoded) ELSE at
  /\ UNCHANGED <<command, encoded, passed, outputs, puts, written>>

(* The next parameter becomes an argument.                                    *)
Read ==
  /\ pc = "reading"
  /\ Len(args) < Len(command.params)
  /\ LET width == Width(command.params[Len(args) + 1]) IN
     IF width = None \/ at + width > Len(encoded)
     THEN End(Invalid) /\ UNCHANGED <<at, args>>
     ELSE /\ args' = Append(args, [at |-> at, width |-> width])
          /\ at' = at + width
          /\ UNCHANGED <<pc, outcome>>
  /\ UNCHANGED <<command, encoded, passed, outputs, puts, written>>

(* Mutant: the call without Reader::finish.                                   *)
CallUnfinished ==
  /\ pc = "reading"
  /\ Len(args) = Len(command.params)
  /\ pc' = "called" /\ passed' = args
  /\ UNCHANGED <<command, encoded, at, args, outputs, puts, written, outcome>>

(* Reader::finish, and the call.                                              *)
Call ==
  /\ pc = "reading"
  /\ Len(args) = Len(command.params)
  /\ IF at = Len(encoded)
     THEN pc' = "called" /\ passed' = args /\ UNCHANGED outcome
     ELSE End(Invalid) /\ UNCHANGED passed
  /\ UNCHANGED <<command, encoded, at, args, outputs, puts, written>>

(* The function reports an error; what it wrote is not looked at.             *)
Refused ==
  /\ pc = "called"
  /\ End([error |-> "Hci"])
  /\ UNCHANGED <<command, encoded, at, args, passed, outputs, puts, written>>

(* The function succeeds, and has written what it likes in its outputs.       *)
Written(c) ==
  {o \in [Outputs(c) -> UNION {[1..MaxWidth(Returned(c)[i]) -> Byte] : i \in Outputs(c)}] :
     \A i \in Outputs(c) : Len(o[i]) = MaxWidth(Returned(c)[i])}

Succeeded ==
  /\ pc = "called"
  /\ \E o \in Written(command) : outputs' = o
  /\ IF command.completes
     THEN pc' = "putting" /\ UNCHANGED outcome
     ELSE End([ok |-> <<>>])
  /\ UNCHANGED <<command, encoded, at, args, passed, puts, written>>

(* The number of elements an output counts.                                   *)
Counted(f) ==
  LET j == CHOOSE k \in Outputs(command) : Returned(command)[k].name = f.count
  IN Number(outputs[j])

(* Mutant: a counted output is put whole.                                     *)
PieceWhole(i) ==
  LET f == Returned(command)[i] IN
  IF i \notin Outputs(command)
  THEN Bytes(args[CHOOSE j \in DOMAIN command.params : command.params[j].name = f.name])
  ELSE outputs[i]

(* What is put for return `i`: the parameter it echoes, or what the function  *)
(* wrote, of a counted output only the elements counted; None for a count     *)
(* above the capacity.                                                        *)
Piece(i) ==
  LET f == Returned(command)[i] IN
  IF i \notin Outputs(command)
  THEN Bytes(args[CHOOSE j \in DOMAIN command.params : command.params[j].name = f.name])
  ELSE IF f.kind # "counted" THEN outputs[i]
  ELSE IF Counted(f) \notin 0..f.capacity THEN None
  ELSE SubSeq(outputs[i], 1, Counted(f) * ElementWidth(f.element))

(* Mutant: a buffer for the smallest returns.                                 *)
PutShort ==
  /\ pc = "putting"
  /\ puts < Len(Returned(command))
  /\ LET piece == Piece(puts + 1) IN
     IF piece = None \/ Len(written) + Len(piece) > Envelope(Returned(command)).min
     THEN End(Invalid) /\ UNCHANGED <<puts, written>>
     ELSE /\ written' = written \o piece
          /\ puts' = puts + 1
          /\ UNCHANGED <<pc, outcome>>
  /\ UNCHANGED <<command, encoded, at, args, passed, outputs>>

(* Writer::put, into a buffer for the largest returns.                        *)
Put ==
  /\ pc = "putting"
  /\ puts < Len(Returned(command))
  /\ LET piece == Piece(puts + 1) IN
     IF piece = None \/ Len(written) + Len(piece) > Envelope(Returned(command)).max
     THEN End(Invalid) /\ UNCHANGED <<puts, written>>
     ELSE /\ written' = written \o piece
          /\ puts' = puts + 1
          /\ UNCHANGED <<pc, outcome>>
  /\ UNCHANGED <<command, encoded, at, args, passed, outputs>>

(* Writer::finish hands the bytes to the return type's decoder, whose every   *)
(* error is Invalid.                                                          *)
Finish ==
  /\ pc = "putting"
  /\ puts = Len(Returned(command))
  /\ End(IF written \in command.undecoded THEN Invalid ELSE [ok |-> written])
  /\ UNCHANGED <<command, encoded, at, args, passed, outputs, puts, written>>

(* The caller has its result; another call starts afresh.                     *)
Return ==
  /\ pc = "returned"
  /\ pc' = "idle"
  /\ command' = None /\ encoded' = None
  /\ at' = 0 /\ args' = <<>> /\ passed' = None
  /\ outputs' = <<>> /\ puts' = 0 /\ written' = <<>>
  /\ outcome' = None

Next ==
  \/ \E c \in Commands, bytes \in Encodings : Start(c, bytes)
  \/ Read \/ Call \/ Refused \/ Succeeded \/ Put \/ Finish \/ Return

Spec == Init /\ [][Next]_vars

------------------------------------------------------------------------------
(* The function is called exactly if the encoded parameters have the layout   *)
(* it takes (Error::Invalid, direct.rs:42): nothing well-formed is rejected   *)
(* by a buffer too small or a count misread, nothing else reaches the stack.  *)
CalledIffLaidOut ==
  pc = "returned" => (passed # None <=> LaidOut(command.params, encoded))

(* The arguments are the parameters, in order, and nothing else: they cover   *)
(* the encoding without gap or overlap, one argument for each field.          *)
ArgumentsAreParameters ==
  passed # None =>
    /\ Len(passed) = Len(command.params)
    /\ Divides([i \in 0..Len(passed) |-> IF i = 0 THEN 0 ELSE passed[i].at + passed[i].width],
               command.params, encoded)
    /\ \A i \in DOMAIN passed :
         passed[i].at = IF i = 1 THEN 0 ELSE passed[i - 1].at + passed[i - 1].width

(* What the caller gets is laid out as the returns: the echoed parameters as  *)
(* they were sent, the outputs as the function wrote them, cut to their       *)
(* counts.                                                                    *)
ReturnsComeBack ==
  pc = "returned" /\ "ok" \in DOMAIN outcome =>
    \E cut \in Cuts(Returned(command), outcome.ok) :
      /\ Divides(cut, Returned(command), outcome.ok)
      /\ \A i \in DOMAIN Returned(command) :
           IF i \in Outputs(command)
           THEN IsPrefix(Field(outcome.ok, cut, i), outputs[i])
           ELSE \E j \in DOMAIN passed :
                  /\ command.params[j].name = Returned(command)[i].name
                  /\ Field(outcome.ok, cut, i) = Bytes(passed[j])

(* The stack wrote back more than the return parameters hold.                 *)
CountedTooMuch ==
  \E i \in Outputs(command) :
    /\ Returned(command)[i].kind = "counted"
    /\ Counted(Returned(command)[i]) > Returned(command)[i].capacity

(* Once the function was called and succeeded, the result is invalid only     *)
(* because it counted too much, or because the return type refuses bytes that *)
(* are laid out as the returns: no buffer is too small, no return left out or *)
(* cut elsewhere than its count says (Writer of direct.rs).                   *)
RejectedForItsReturns ==
  pc = "returned" /\ passed # None /\ outcome = Invalid =>
    \/ CountedTooMuch
    \/ written \in command.undecoded /\ LaidOut(Returned(command), written)
==============================================================================
