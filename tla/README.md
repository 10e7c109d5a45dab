# stm32wb-hci in TLA+

TLA+ models, TLC runs and TLAPS proofs about `stm32wb-hci`: the crates that
declare the HCI of the STM32WB and STM32WBA, the catalog of wireless binaries
they are checked against, and the IPCC transport of `examples/embassy`.
Line numbers below and in PROJECT.json are those of the repository's files.

## The system

| Part | Keeps | Does |
|---|---|---|
| `transport.rs`: event buffers | `EVT_QUEUE`, `pending_evt`, `LOCAL_FREE_BUF_QUEUE`, `FREE_BUF_QUEUE`, two IPCC flags, `MM_WAKER` | CPU2 posts events in a pool of five buffers; `read` hands one at a time to its caller; `run_queue` returns dropped buffers |
| `transport.rs`: `ControllerAdapter` | `slot`, `signal`, `waker`, `cc_no_status`, `BLE_CMD_BUFFER` and its flag | `exec` sends one command at a time and waits for the response `read` matches by opcode |
| `transport.rs`: `LinkedListNode` | pointers in shared SRAM | circular lists, `insert_head`, `remove_head`, `remove_node` |
| `transport.rs`, `main.rs`: system channel | `SYS_CMD_BUF`, `SYSTEM_EVT_QUEUE`, two flags | waits for CPU2's ready event, sends `SHCI_C2_BLE_Init`, reads the status |
| `transport.rs`: `AclChannel` | `HCI_ACL_DATA_BUFFER`, its flag, a mutex | `write_acl_data` polls the flag and hands packets over |
| `stm32wb-hci`: wire, direct, aci, shci, standard | nothing | encodes commands, decodes returns and events |
| `stm32wb-catalog` | the catalog file: histories of items over releases; annotations | merges releases, validates, audits annotations, answers what a target supports |
| `stm32wb-hci-macros` | nothing at run time | checks declarations against the catalog at compile time, generates codecs and dispatch |
| `stm32wb-catalog-extract` | nothing | scrapes ST's C sources into a snapshot per release, rewrites the catalog file |

Two processors share the SRAM: the host (CPU1, running an embassy executor) and
the wireless core (CPU2, not part of the repository and modelled as an
environment, `external` in PROJECT.json). They communicate through lists and
buffers, each guarded by an IPCC flag that says who owns it. embassy's
`receive(f)` calls `f` while the flag is set, returns without clearing it when
`f` yields something, and clears it when `f` yields nothing; `send(f)` waits for
the flag to be clear, calls `f` and sets the flag, whatever `f` did.

On the host, a future runs uninterrupted between two awaits, tasks and CPU2
interleave, and any future may be dropped at an await. That is where the hard
behaviour is: buffers whose owner changes five times per event, a wake-up per
change, responses that carry only an opcode, and callers that give up.

## Modules

**EventPool** (implements **BufferLoan**). One buffer's way round: pool, event
queue, pending packet, local list, shared list, pool. `reading` says whether a
`read` is inside `receive`; `mm` is where `run_queue` is suspended. `ReadStart`
is `read` up to its first await; `ReceivePacket`, `ReceiveError`,
`ReceiveResponse` and `ReceiveNothing` are one call of the closure of `receive`
with what `read` then does; `MmPoll` and `MmFlushed` are one poll of
`run_queue`. The response node `Rsp` is outside the pool. Packets are
told apart by what the code does with them (`Kinds`): those that do not decode
(`Undecodable`), and those whose byte at `evt_code` reads as a response
(`ResponseCoded`), which `EvtBox<Ble>::drop` does not return.

**ControllerAdapter** (extends EventPool, implements **CommandExchange**). Adds
the clients of `exec`. One action per poll: `GrabBlocked`, `GrabSend`,
`GrabFlush`, `FlushedSend`, `Return`; `Cancel` drops the future anywhere. A
command is a name that tells it from the others in hand (`Ids`), its opcode and
whether the writer accepts it, so that callers may call without end. `ReadError`
is every error of `read`: a packet or, once CPU2 has put one in the response
node (`Garbled`), an answer that does not decode. `cmdBuffer` is `None` while
the flag of the command channel is clear. `asleep` holds the clients that
`grab_slot` left pending and nobody woke; `waker` is the AtomicWaker's one
registration, by task, as waking a task polls everything joined in it.

**LinkedList** (implements **NodeQueues**). The lists as memory cells
`{next, prev}` written whole, as `ptr::write_volatile` does; `lists` is an
auxiliary variable with what each list should hold.

**SystemChannel**, **AclChannel**, composed in **Startup**: `main` up to the
adapter, and from there the writers of ACL data. `unread` holds the packets
reported sent that CPU2 has not read, and writers write without end
(`PacketIds`).

**Catalog**. The `extract` command: the releases already in the file and those
added are sorted, the snapshot of each joins the histories (`MergeSnapshot`,
where `Coalesced` is `runs` of merge.rs, one entry at a time), the result is
validated and replaces the file. `cube` remembers what the sources of a release
state, which a tag fixes; the properties compare the file with it. A command has
the three histories of the code: names, profiles, definitions.

**CatalogViews** (extends Catalog). What is computed from a catalog: `Audit` of
an annotation file, `ActiveCommand`, `Segments` (a recursive function of the
number of releases, as the loop of history.rs) and `DistinctTargets`. Where the
code compares with `ptr::eq`, the model compares positions.

**WireSequences**, **WireLayout**. The layouts of the catalog: kinds of fields,
widths of packed structures (`StructWidths`, a recursive function of the
nesting), the checks of `envelope` (`Sound`) and the envelope itself. A byte has
`Base` values. Sums, selections, powers and the bytes of an integer are
recursive functions of a number, so that the proofs reach them.

**DirectCall** (extends WireLayout). `Direct::call` as the macros generate it
from a command's layouts: `Generated` says for which commands, `Start` encodes
the parameters, `Read` takes one of them, `Call`, `Refused` and `Succeeded` are
the C function, `Put` and `Finish` put its returns together and decode them; the
bytes the return type has no value for (`undecoded`) are part of the command. An
argument is a place in the encoded parameters, which is what the code passes for
arrays and structures; integers are copied from theirs. The commands direct.rs
writes by hand are layouts with a field of kind `sets`. What a command's
parameters encode to is an input, any bytes: bt-hci's types write what they
like. `Divides` is the meaning of a layout stated as a whole, without a reader.

**WireValues** (extends WireLayout). The Rust types that stand for members:
which integers a type has values for (`Known`), what decoding makes of the
others, and the `const` checks of wire.rs against documented values, flags,
units and lengths (`Covered` is the loop of `covered`).

**Domains** (extends WireValues). What the headers document for a member, as
items with conditions: which of them a profile's stack accepts (`Accepted`),
what the macros read of them (`DocumentsFor`) and which domains a catalog may
hold (`ValidDomain`, `ValidDomains`). A label is the condition it states.

**Declaration** (extends Domains). One `vendor_command!` or `vendor_event!` over
the history of its name: `Expand` is the macro, which groups segments into
variants and plans each; `Build` is the compiler for one target, which keeps the
variants whose predicate holds and evaluates their assertions; `New`, `Write`,
`Finish`, `Decode` and `ReadHci` are the generated code. An event has its
parameters as `returns`. Fields name members through renames (`NamesAt`); hidden
counts and selectors are encoded from the field they go with (`FieldOf`). The
name of a structure stands for its C name and its definition there, so that
layouts that have the same names have the same structures (`SameWire`).
**MCDeclaration** meets families of declarations with small histories,
**MCDescriptor** has one real command in bytes of eight bits.

**Records**, **SystemWrappers**, **Extraction**. Records is ST's structures as
libclang shows them, with the rule of declared.rs. SystemWrappers is shci.rs,
Extraction commands.rs, events.rs and snapshot.rs: `ExtractCommand`,
`ExtractEvent` and `Publish` take a release through the extraction, wrapper by
wrapper, the comparison with the structures and with the interface document.
Beside the analysis stands what the C code does when it is run (`Call`,
`Complete`, `Deliver`): the properties compare the published layouts with the
bytes sent and the parts read. What the rule for STM32WBA makes of the
structures (`HeaderParams`, `HeaderReturns`) decides what is published.
Wrappers, process functions and the document are carried by the state.

**Completeness** (extends CatalogViews). The crate compiled for a target: what
`complete.rs`, `dispatch.rs`, `standard.rs`, `structs.rs` and `bearer.rs` accept
of a program, and the enum that results. Commands and events have the same
histories and are treated alike, so an entry stands for either. `Required` is
the map complete.rs builds, entry by entry in the order of the catalog.
`Compiles` says whether the generated items of a program, accepted by the
macros, compile for a target, which is what building the distinct targets is to
find out for all (`DistinctSuffice`). `MarkersWhole` is the hypothesis of
`CompiledFits` and `DispatchExact`, see below.

**EventPoolProofs**, **ControllerAdapterProofs**, **LinkedListProofs**,
**CatalogProofs**, **DirectCallProofs**, **StartupProofs**,
**DeclarationProofs** hold the
theorems, **SequenceLemmas** the facts about sequences, least and greatest
numbers and induction over them they rest on. The `MC`
modules give TLC its constants. Operators commented as mutants are broken
versions of the definition that follows; TLC finds the property they are meant
to break violated when one replaces its original.

## Runs

| Run | Instance | Shows |
|---|---|---|
| `pool` | 3 buffers, good and undecodable packets | one owner per buffer, none lost, the caller's packet stable and protected, no lost wake-up, every buffer comes back, `BufferLoan` implemented |
| `pool_aliased` | packets with 0x0E or 0x0F at `evt_code` | **violation**: a dropped buffer is lost |
| `adapter_join` | 2 clients in one task that call without end, 2 opcodes (one is Reset), 1 buffer, answers that do not decode | a signal finds the answer to the waiting call's command, `CommandExchange` implemented; a call that has the slot returns, one that waits for it is overtaken for ever or gets it |
| `adapter_cancel` | the same with dropped futures and write errors, no pool buffer | slot, signal and wake-ups survive |
| `adapter_late` | 2 clients, 2 opcodes, dropped futures | **violation**: a command is sent although a Command Complete without status should hold it back |
| `list` | 2 lists, 4 nodes | pointers form rings, `NodeQueues` implemented |
| `startup` | 2 system events, 2 ACL writers that write without end | the status read is CPU2's answer, start-up ends, ACL packets arrive once, whole, in order, a writer that waits is overtaken for ever or writes |
| `catalog` | 3 releases, 4 entries (two of the Bluetooth Core, one of them an event), 4 names, 3 layouts, 2 profiles, 8 annotation files, 19 programs | the catalog reads back what each release states, runs are maximal, merging makes and hides no fault; segments are exact, audited annotations never ambiguous or stale; a program that compiles for the distinct targets compiles for all, and declares everything of a target once, with types that fit, and decodes each event into its own variant |
| `direct` | 14 commands, 4 values of a byte, every encoding of up to 5 bytes, every output | the stack function is called exactly for encodings of the layout, with the parameters in order as arguments; its outputs come back, or are invalid for their counts or for the return type |
| `declaration` | 1703 declarations, 3 releases, 2 profiles, 4 values of a byte | an accepted declaration is one item on every target, has values for exactly what is documented there, encodes the layout of the release and decodes whatever it lays out |
| `parameters_fit` | aci_gatt_add_char_desc, 256 values of a byte | **violation**: 256 bytes of parameters, length byte 0 |
| `extraction` | 38 wrappers, 5 process functions, 4 values of a byte, arguments, replies and payloads of up to 5 bytes | what is published is what the code sends and what it reads |

Types are proved rather than run: those of EventPool, ControllerAdapter,
LinkedList and Catalog are part of the inductive invariants below.

Bounds. Three buffers put one in each of posted, held and returning, with both
release lists in play; one more only repeats this. Two clients calling without
end make a call meet the leftovers of any other, matching opcode or not; a third
client matters only to the waker, where three tasks are the least that lose a
wake-up. `Ids` has three names: where nobody is dropped at most two commands are
in hand, and the response node keeps the name of a third, so that no call ever
waits for a name; where calls are dropped they bound the commands of dropped
calls that CPU2 may hold. Of the three `PacketIds` the packet in the buffer
keeps one and the other writer another, so that no packet waits for a name. Four
nodes make lists of zero, one, two and more, and moves between lists.
`MaxSystemEvents` is the only counter: system events are finitely many, and one
before the ready event is as good as any number. Three releases are the least in
which a history has a gap, changes and changes back, or is extended at either
end or in the middle; a third command or profile would meet the same ones again,
as histories are independent: the other two entries are there for the Bluetooth
Core. The snapshots include one with a command listed twice and one without
profiles. The programs declare each name, both or none, list the Core's command
with the right and a wrong width, give a structure its two definitions and an
event the type of another, or give one name's type to the variant of another:
without `MarkersWhole` that one violates `DispatchExact`. Four values of a byte
give counts below, at and above each capacity, selectors listed and not, and
every choice of two PHYs; five bytes hold every encoding of each layout, and
longer ones for most. `MaxParams` is 5 in `declaration`, where a second list
reaches it. The histories of `declaration` rename, add and reorder members, let
profiles differ and documents change, and have one of each kind of domain that
no catalog loads. A command buffer of 10 bytes in `extraction` holds every
request there; a release there has one or two functions, as the analysis keeps
nothing from one to the next but the release's structures. `startup` may stop
legitimately: main returns when the first event is not the ready event, or when
it cannot decode the status.

Fairness. Weak fairness of each task's steps: the executor polls a woken task.
CPU2 serves interrupts and answers what it accepted. The application keeps
calling `read`, as README.md:56 requires. `Receive`, `ReadReceives` and
`Cpu2Answer` get strong fairness: a read that finds the flag set receives in its
first poll, so dropped reads, or CPU2's own events, cannot starve them. Calls,
dropped futures, unrelated wake-ups and CPU2's own events owe nothing.

What liveness does not promise. `grab_slot` is first come, first served, and a
call that ends wakes the others, who find the slot taken again if its caller
calls at once; the mutex of the ACL channel is no queue either, and a writer
that holds it polls. So `ExecCompletes` and `WritesEnd` say that whoever waits
gets its turn or is overtaken for ever (`Overtaken`, `Preceded`), and TLC finds
them violated without that way out. A call is overtaken, too, when a Command
Complete without status comes between. `ExecCompletes` has answers that decode
as its premise: one that does not makes `read` return an error
(transport.rs:490-510) and its call waits for ever, as nothing in the code times
out. And it is of one task, see "Also seen", and of calls that nobody drops. A
call returns only if it is polled: a future kept without polling it holds the
slot, as it does in the code.

Assumptions about CPU2, none visible in `src/`: it touches a shared list or
buffer only while it owns its flag; it answers each command once, through a node
outside the pool ("Packets with CC or CS opcode are not managed by the memory
manager", transport.rs:429); and between an answer and the next command it
leaves that node alone, without which `exec` could not decode its response
safely at all.

Assumptions about ST's C code, which is not in the repository either and is
modelled after the fixtures of the extractor's tests: a view cpN starts where
the member before it ended and only the last member of a view or of rp0 is of
variable size; locals that hold a size have distinct names; requests are
written unconditionally; what a pointer is read for is stored before; callers
keep counts within the capacity of the lists; a structure that a local buffer
of a system command is cast to is written whole.

## Where code and documents disagree

1. `Ble::drop_event_packet` (transport.rs:223) tells responses from pool
   packets by one byte, without looking at the packet kind. ACL data of a handle
   whose low byte is 0x0E or 0x0F loses its buffer.
2. Only commands with several lists are compared with the 255 bytes of their
   length (command.rs:916). A union is of variable length too. The value of
   aci_gatt_add_char_desc has at most 243 bytes whatever the UUID: 255 less the
   12 of its other members. Behind a 16-bit UUID they are 14, so that 242 bytes
   of value already make 256 bytes of parameters, whose length byte is 0, and
   243 make 257; behind a 128-bit UUID they are 28, and parameters go up to 271.
3. "Store the pending event and block commands until the next read"
   (transport.rs:498): `cc_no_status` is looked at where the slot is taken. A
   call past that, waiting for CPU2 to read the command of a dropped call, sends
   its own while the event is being looked at.

Also seen:

- `main.rs:84` takes any status it can decode for success: `Sys::command`
  returns Ok for every status that `SysCommandStatus` has a variant for
  (transport.rs:692), and main goes on to HCI_Reset after CPU2 refused
  SHCI_C2_BLE_Init. `ReadStatus` models it, so `RunsAfterAnswer` says that the
  status read is CPU2's answer, not that it is a success.
- `Error::Invalid` is documented as parameters of another layout or returns
  counted above their capacity (direct.rs:42). `Writer::finish` returns it also
  where the type of the returns has no value for what the stack wrote, which is
  the last case of `RejectedForItsReturns`.
- view.rs:151-155 says that a target "compiles exactly the same declarations" as
  the distinct target with its interface. What headers document for a profile,
  which assertions compare a declaration's types with, is not part of the
  interface: a type may be refused for one target and accepted for another of
  its interface. `DistinctSuffice` is about everything but the documents.
- declared.rs:13 and wba.rs:13 say the rule for STM32WBA is checked against
  every layout the code of STM32WB proves. The comparison ends at parameters the
  rule leaves unresolved (snapshot.rs:508), so the returns behind a union are
  never compared, and it excuses wrappers that count a buffer of wider elements
  in bytes; `crossed_union` and `excused` of MCExtraction are such wrappers, and
  are published.
- The AtomicWaker of the adapter holds one registration: callers of `exec` in
  three tasks can leave one blocked for ever, although events are read. Joined
  in one task, as in `main.rs`, it cannot happen (proved).
- annotations.rs:45: an annotation without `releases` applies to "every defined
  release by default". It is audited against all of them, whatever the command
  was called, but found only by the name the command has in a release
  (view.rs:204): after a rename it applies on one side only.
- A name that moves to another opcode makes its segments fail if the old command
  lives on under another name (history.rs:127; `SegmentsExact` says exactly
  when), and `adjacent` in history.rs is redundant for a validated catalog, as a
  gap ends every run.
- `Documented::Unreadable` (command.rs:1538) is never reached: a catalog with a
  condition it cannot interpret does not load (domain.rs:408), and values are
  never read as flags.
- "`OrUnknown<T>`, which keeps them, or as an integer" is asked of a decoded
  member of fixed width only: the assertions pass over lists (command.rs:1742),
  so an element type that cannot decode every value would compile. The lists
  declared are of structures and bytes. Likewise `AttBearer` is compared with
  the catalog's bearers for unsigned integers of two bytes; an array of two
  bytes declared as one would not be. `DecodingAssumption` says what the
  declarations do.
- direct.rs:260 of the macros takes a return for the echo of a parameter by its
  name alone, and answers with the bytes of the parameter. All 45 such returns
  of stm32wba.toml are the parameter's field; nothing compares them
  (`EchoAssumption`).
- `dependent` of command.rs:2517 gives a member the first list or union that
  refers to it. Of two lists with one count, the length of the second is never
  written, nor compared with the first. The catalog loads such a layout and the
  macros accept it; neither catalog file has one (`EntryAssumption`).
- complete.rs:144 skips a name that is already required, and requires a marker
  where the first name that has it is defined. complete.rs:7 says "A missing
  declaration fails to compile". With opcodes A, B and C in this order, where
  release 1 has B named x, release 2 has B named y and release 3 has A named x
  and C named y, A's name x puts marker y in the map with the targets of B only,
  and C is passed over: a program that declares x alone compiles for release 3.
- dispatch.rs decodes a code into the variants of its names. Where release 1 has
  B named x, release 2 has A named y and release 3 has A named x, a program
  that declares x, in a variant named y, compiles; the variant is enabled where
  A is, and B's events of release 1 are not decoded.

TLC found the last two by leaving out `MarkersWhole`: entries with the same
latest name have had the same of these names (all latest ones for
`CompiledFits`, those of the variants for `DispatchExact`). The catalogs in the
repository satisfy it: only HAL events that moved to another code share a latest
name, such as aci_hal_end_of_radio_activity_event, and those were never renamed.
Nothing in the code checks it.

## Proofs

All for arbitrary constants, under the named ASSUMEs of the modules (distinct
nodes, opcodes and `None`; bounds are naturals), which TLC also evaluates.

*EventPool.* `PoolInv` strengthens `OneOwner` with the types, the protection of
the pending packet and the state of the flags: a buffer can only be shown to
enter a list it is not in if one knows who may hold it, so ownership and types
are proved together, one step per action. From it: `PoolTypeCorrect`,
`BuffersHaveOneOwner`, `PendingIsProtected`, `ReturnsAreUnderWay`,
`PendingPacketIsStable` (an action property) and `PoolImplementsLoan` (every
step is a step of `BufferLoan` or a stutter). `NoBufferIsLost` needs one more
hypothesis, `ResponseCoded = {}`; `pool_aliased` shows that it is needed.

*ControllerAdapter.* Every step of the adapter is a step of the pool or leaves
it alone, by the way it is written, so the pool's theorems hold here
(`AdapterPoolSpec`, a lemma). `SlotInv` adds to `SlotMatchesOwner` and
`SignalHasOwner` the types, that a client with a call has a command, and that
only blocked clients are asleep; with it `SlotSerialisesCalls` and
`SignalsHaveOwners` hold with dropped futures and write errors.
`OneTaskLosesNoWakeup` assumes a single task, with any number of clients. What
an answer is worth is proved where no future of `exec` is dropped and every
command can be written (`Undisturbed`); with dropped futures a late answer meets
a new call with its opcode. `ExchangeInv` says where the command of the waiting
client is (`Progress`: in the buffer, accepted by CPU2, or in the response node,
and in one of them only, or its answer did not decode and it waits in vain),
that no two commands in hand share a name, and that nothing of a finished call
is left on the way but its answer in the response node. `AnswersAreOwn` and
`AdapterImplementsExchange` follow, for any clients, tasks, opcodes and names.

*LinkedList.* The invariant relates the cells to the auxiliary sequences, ring
by ring; `RingsAlwaysMatch` and `ListsImplementQueues` follow for any number of
lists and nodes.

*Catalog.* `MergeInv` says that after `index` releases every history is
`Faithful` to what they state: its runs lie in range, hold only indexes that
state their value, are in order, miss none, and are maximal. Each clause is
needed to extend the last run by the next entry (`CoalescedFaithful`). The
sources of the releases in the file never change (`Described \subseteq DOMAIN
cube`). From it, with the order of versions: `CatalogReadsBack`,
`CatalogRunsMaximal`, `CatalogMergedFaults`, for any finite or infinite set of
versions and any snapshots.

*CatalogViews.* `FileInv` says of the file what `MergeInv` says of the merge: it
answers for each of its releases and each field of an entry what the sources
state, and every run is `Grounded`, in a release that states it. The three
properties are then about definitions. `CatalogAnnotationsAgree`: what an
annotation is audited against is what the sources of its releases say.
`CatalogSegmentsExact`: `SegmentInv` says that after n releases the segments are
the `Faithful` history of the entry active under the name, or that the name
belonged to two entries; induction on n goes through `SetInduction`.

*Completeness.* `RequiredInv` says of the map after n entries that each marker
in it stands for a latest name and asks for at least that name's targets, and
that the name of every entry so far is in it. That a declared type then covers
the entry, not merely its name, is where `MarkersWhole` is needed
(`CatalogCompiledFits`, `CatalogDispatchExact`). Opcodes are assumed finite:
they have 16 bits.

`CatalogDistinctSuffice` compares two targets with equal interfaces, which may
lie in different releases, after renames, and so in different segments. Equal
interfaces hold the same items, so whatever segment a name has at one target, it
has one at the other that says the same (`AlikeAt`); the items that entries
become are then the same at both (`AlikeEntries`), the markers that must be
declared too (`AlikeRequired`), and what compiles for one compiles for the other
(`AlikeCompile`). Among the targets of an interface the least is distinct.

*DirectCall.* `IInv` says that the arguments so far tile the bytes taken and
that each is as wide as `Divides` would have it. It is inductive because a count
or selector is an earlier field, the only one of its name
(`ReferencesAreEarlier`, from `Sound`): reading on does not change its value. At
the call it gives `DirectArguments` and the half of `CalledIffLaidOut` that
keeps anything else from the stack. The other half is `CallInv`: every division
of the encoding that has the layout agrees with what is read so far, so there is
none once the call is refused. It needs that no such encoding is longer than the
envelope (`WithinEnvelope`), a fact about sums of widths, by `SetInduction` on
the partial sums. With both, `DirectCalls` states the equivalence.

`ReturnInv` says that the bytes put so far are the pieces of the returns so far,
one after another. No piece overruns the buffer (`PutFits`, the envelope again),
which leaves two reasons for an error: a count above its capacity, or bytes that
divide as the layout says and that the return type has no value for
(`DirectRejects`); and when all pieces are put, the places where they meet
divide the answer as the layout says (`ReturnsDivide`, `DirectReturns`). Three
assumptions go with this. `SetsAssumption`: PHYs that may be set number at most
the capacity of the field they size, and returns have none. `EchoAssumption`: a
return with the name of a parameter is the same field; see "Also seen".
`NoSequenceAssumption`: the value that stands for "none" is not a sequence.

*Startup.* `SystemInv` relates the main program, the channel's flag and the
command buffer: the flag is down until the command is written, and while the
main program waits either the flag is up with the command in the buffer or CPU2
has executed it. `StartupRunsAfterAnswer` follows for any system events.
`StartupAclDelivery` needs no more than itself: `AclDelivery` is inductive, for
writers dropped anywhere and packets longer than the buffer.

*Declaration.* `DeclarationOneVariant` needs no induction over steps, since no
step changes the declaration; it is about the definitions. A release that
defines the name lies in exactly one segment (`SegmentAt`, by the least and the
greatest release with its entry around it, and `SegmentsApart`), a segment in
exactly one variant (`VariantsPartition`), and the predicate "every target",
chosen by comparing two cardinalities, is chosen only when the variant covers
every target (`EnabledWhere`, from `HistoryAssumption`: a release is shipped for
no profile the catalog does not list).

`DeclarationEncodesLayout` is about what a built command writes. `EncodingInv`
says, state by state, what the next one relies on:

- *expanded*: every variant has a plan. The compiler sees the plan of the
  variant's latest segment only, and decides on a target of any of its segments.
- *built*: the fields are `Fitted` to the layout they were planned for, and that
  layout is laid out as the one of the target's release: same kinds, widths and
  places of counts and selectors, under other names (`BuiltFits`). The first
  comes from the plan and the assertions together, the second from the key that
  groups segments.
- *new*: the values are `Taken`, which is what `try_new` leaves of all inputs.
- *writing*: what is written is the bytes of the members so far, one behind the
  other (`Written`), each where the sums of the widths say (`WriteNext`).

Then everything is written and has to divide as a layout says that no step has
looked at (`WrittenDivides`). A count holds the length of its list because the
list has at most its capacity, the plan has compared the capacity with the width
of the count, and `LittleEndian` is the inverse of `Number` below the power of
the width (`LittleEndianNumber`); a selector holds the tag of its union because
the assertion has compared the tags; a member that another layout calls by
another name is hidden in both or in neither (`AlikeDependents`). Two
assumptions go with this. `TypeAssumption`: a `cfg` in a type changes which
values it has, not whether it is an integer, a list or a union, nor a capacity.
`EntryAssumption`: the layouts of the catalog are `Sound`, an optional integer
has a width, and a count or selector goes with one list or union; see "Also
seen". (With the last, `Expandable` never refuses returns for a second list with
one count, and a count is kept for one list.)

`DeclarationReadsReturns` is about what a built response or event reads.
`DecodingInv` says that its fields are `FittedReturns` for the layout planned
and for that of the target's release, from the step that builds it on, and that
what is decoded is what reading the answer member by member gives (`Reading`).
That the fields fit is where the checks of the macros meet (`ReturnsFit`): the
plan gives each field's type its shape and a list of a response the capacity of
the catalog, the assertions its width, and that it decodes anything it reads
(`DecodesDeclared`; the target is in one of the groups of what is documented,
`GroupEnabled`), but for a bearer, which only an event has, that of its release
(`BearerDeclared`, `BearerBuilt`). Then two inductions over the members, on the
same recursive function (`DecodedRecursion`):

- nothing is invented (`ReadDivides`): after n members without a failure, the
  bytes used are the first n parts of a division, the counts kept are the
  numbers at the places where the release's layout has them (`CountsRead`),
  though the plan's layout calls them by other names, and the fields so far are
  the parts of the visible members (`ReadUpTo`);
- nothing is refused (`ReadsDivision`): along a division of the answer, each
  member finds its bytes, no list is above its capacity and every element
  decodes (`AnyDecoded`, with `NumberBound`: bytes hold less than the power of
  their number). What `read_hci` reads this way fits the buffer it is given
  (`ReadWithinEnvelope`).

An event's lists are not compared with the catalog's capacity; the theorem says
of them what `Uncapped` says, that their count is what was read. Further
assumptions: `AnswerAssumption`, what arrives are bytes; `DecodedAssumption`,
`None` is not what is decoded; `DecodingAssumption`, what the assertions leave
to the declarations, see "Also seen".

Induction. The library's induction theorems take an operator, which the provers
cannot instantiate. `SetInduction` states the same of a set of naturals, and it
suffices for recursive functions of a number (`Segments`, `Required`,
`StructWidths`, `Sums`, `Number`, `Power`, `LittleEndian`, `Select`).
`StepByStep` gives the existence of such a function once for all. It does not
reach `FoldLeft`, which is a fold over a function with its own choice of order,
nor RECURSIVE operators.

Only model-checked: `SendsDocumented`, which counts values type by type and
group by group, `LayoutsAreSent` and `LayoutsAreRead`, whose definitions fold
over members, and liveness (`BuffersComeBack`, `ExecCompletes`,
`StartupEnds`, `WritesEnd`).

## Not modelled

- `adv_data.rs`, and bt-hci's own packets around an event: formatting of data,
  and an external crate. transport.rs:875 (a command of 252 to 255 parameter
  bytes does not fit the transport's writer) and transport.rs:1019 (`serial`
  sizes ACL data by the wrong byte) show in the models as a command the writer
  refuses and a packet that does not decode.
- The declarations in `aci/`, `shci.rs` and `standard.rs`, the values, ranges
  and flags they name, the catalog's TOML: data. What every declaration must
  satisfy is in Declaration and Completeness, and MCDescriptor has one of them.
- The text of C headers and documentation pages, their tables of values and
  statuses (`docs.rs`, `domains.rs` of the extractor), SHCI events, the binaries
  of a release: text scraping. Extraction takes what libclang shows of the code.
- STM32WBA. A catalog is of one platform; the rule that reads WBA's structures
  (`HeaderParams`, `HeaderReturns`) is applied to those of WB, as the comparison
  in the code does, and the scraping of WBA's headers in wba.rs is left out.
- Validation of bearers, opcode groups, structure domains and statuses, and
  status types: comparisons of one item with another.
- Lifetimes, spans, diagnostics and the parsing of the macros' input. In
  Completeness the recursion of structures in structures is one structure per
  layout (`StructIn`), that a bearer type is refused is not part of what
  compiles, and neither are the widths of events, which a generated test
  compares (standard.rs:226-243) and a build does not.
- `fmt.rs` (formatting), the reference tables `init` writes, the other examples.

Worth doing next: the scans of Extraction as recursive functions, with them
`LayoutsAreSent` and `LayoutsAreRead`, and `SendsDocumented`, for which the
ranges of a type and of the documents have to be compared as sets of numbers.
