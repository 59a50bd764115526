# A formal model of on-dhcp-proxy

`on-dhcp-proxy` listens beside an ordinary DHCP server. To a machine that asks
for an address over PXE it answers with a second, "proxy" acknowledgement that
names a boot file, so that RackHD can boot it into a workflow. Beside that, a
poller reads the lease file of ISC dhcpd and tells RackHD's lookup service which
machine has which address.

This directory holds TLA+ modules of that program, TLC configurations that check
them on small instances, and proofs that TLAPS checks for every instance.

## Inventory

| part | code | state it keeps | operations |
|---|---|---|---|
| message handler | `lib/message-handler.js` | none of its own; each datagram's promise chain holds `packetData`, the node document and the verdict in closures | `handleDhcpPacket`, `isBootFileNameSent`, `getDefaultBootfile` |
| parser | `lib/parser.js` | `this.len`, `this.packet`, rewritten by each call | `parse` and its `read...` helpers |
| acknowledgement, packet buffer | `lib/packet.js` | a buffer and a cursor per call | `createProxyDhcpAck`, `createPacketBuffer` |
| protocol tables | `lib/dhcp-protocol.js` | constants | `get` of each enumeration |
| server | `lib/server.js` | the UDP socket, two output ports | `start`, `send`, `stop`, the `message` and `error` events |
| lease poller | `lib/isc-dhcp-lease-poller.js` | a `Tail`, a `PromiseQueue` | `run`, `_onLine`, `parseLeaseData`, `_queueError`, `_tailError`, `_cleanup` |
| startup | `index.js` | none | starts core, then the server; exits on an error |
| on-core (external) | used from `lib/` | node, task and lookup records | `macAddressToNode`, `discovered`, `activeTaskExists`, `requestProfile`, `setIpAddress` |

How they interact. The socket's `message` event calls the handler, which parses
the datagram and starts a chain of promises. The chain makes up to four service
calls, each of which may be slow or fail, then builds a packet and calls back
into the server's `send`. Many chains run at once. `start` also creates one
poller, which shares only the lookup service with the handler.

What is hard, and what has to be right:

* **Chains interleave.** Between any two callbacks of one chain, callbacks of
  others run, records change, and the server may be stopped. A machine must be
  answered at most once, with what its own datagram determines, and only if what
  the services said of it excuses the verdict.
* **Answers are not a snapshot.** Four answers come from four moments, and
  `bootSettings` from a document read at the first of them.
* **Failures are part of the control flow.** "No active task", "no profile" and
  "no such node" are rejections, like a broken connection. Nested catches sort
  them.
* **Two places decide about EFI**: the port in `packet.js`, the file in
  `message-handler.js`. They must agree.
* **A cursor over an uncleared buffer.** Every field must end up where the
  client looks for it, and each name must end.
* **A parser over bytes nobody has checked.** Each of twenty-six cases moves the
  cursor by arithmetic of its own. The next code must be read from a code, a value
  from its own option, and the parse must end. One object parses every datagram,
  while chains still hold what it returned before.
* **Two sides of one format.** `packet.js` writes options, `parser.js` reads them,
  and they share no code.
* **A process that may fail half-way.** The socket is bound before the poller is
  built; an error ends the process a tick later; `stop` may come before `bind`
  has called back, and chains run on after it.
* **A queue behind a growing file.** Leases must reach the lookup service in
  order, whatever fails, and only while they run.

`PROJECT.json` lists the hazards line by line, with the properties that cover
each, and says of the others why nothing does yet.

## Modules

```
BootPolicy      what is decided about one datagram: accepted? file, port, fit
  Inventory     what services know of a machine; what excuses a verdict
    BootService     abstract: what the proxy promises
    MessageHandler  detailed: the promise chains         <- implements BootService
      MC_MessageHandler      small instances for TLC
      MessageHandlerProofs   invariant, verdicts, refinement
      ProxyServer            index.js and server.js around the chains
        MC_ProxyServer, ProxyServerProofs                <- implements MessageHandler
DHCPOptions     which option has which form, and the enumerations
  PacketBuffer      createPacketBuffer on an acknowledgement, byte for byte
    MC_PacketBuffer, PacketBufferProofs
  OptionParser      parse: the header and the loop over the options
    MC_OptionParser, OptionParserProofs
    RoundTrip       OptionWriter's packet read by OptionParser, among others
      MC_RoundTrip
      RoundTripLayout        what the writer leaves in the buffer
        RoundTripProofs      and what the parser makes of it
  OptionWriter      createPacketBuffer on all options it can write
LeaseBook       abstract: leases granted, written or lost, in order
LeasePoller     the poller, its queue, dhcpd's file and the clock
                                                         <- implements LeaseBook
  MC_LeasePoller, LeasePollerProofs
Recursion       lemmas: recursion and induction over the numbers up to a bound
```

**BootPolicy** is pure. A datagram is a record of the parsed fields that some
decision reads; strings are classes the code tells apart (a vendor class
"starts with Arista", "starts with PXEClient:Arch:00000:UNDI", another one,
none). `getDefaultBootfile` has the seven-step order of the source, its constants
as they are spelled there. A boot file has a name, the length that decides
whether it fits, and the addresses in its query.

**MessageHandler** has one action per callback. `pc[r]` says which callback the
chain of request `r` waits for.

| action | code (`lib/message-handler.js` unless said) |
|---|---|
| `Accept`, `Discard` | parse and the two assertions, 44-51 |
| `ReadConfig` | the first `then`, 54-84 |
| `LookupAnswers` | `macAddressToNode` resolves, or rejects with NotFoundError: 118, 153-156 |
| `DiscoveredAnswers` | `node.discovered()`: 120-122, 147-150 |
| `TaskAnswers` | `activeTaskExists` resolves, or rejects: 123, 137-145 |
| `ProfileAnswers` | `requestProfile` resolves, or rejects: 125-135 |
| `ServiceFails` | any of these rejects for another reason: 131, 137, 153-161 |
| `SendReply` | file, `createProxyDhcpAck`, `send`: 85-95, `lib/server.js` 28-43 |
| `StaySilent` | no verdict, no file, or an exception: 96-106 |
| `Stop` | `lib/server.js` 72-75 |
| `NodeChanges` | another RackHD service writes the record (external) |

A service answers from the record as it is at that moment. `seen[r]` and
`fault[r]` are history: the states the machine's record has been in since the
datagram came, and whether a call made for it failed. The resolved chain of
`getDefaultBootfile`, `createProxyDhcpAck` and `send` is one action, because no
other callback can change anything it reads, the socket excepted, which is read
once, by `send`. `SendReply` puts the answer in `reply`; whether the network
delivers it is not part of the program.

**BootService** has no chain: a request is idle, pending, answered or silent.
`Answer` needs `MayBoot`, `Decline` needs `MayWithhold` or a reason that does not
depend on the record. The two operators (module `Inventory`) say what a history
excuses; both may hold when the record moved. The refinement mapping replaces
`phase` by a function of `pc` and `reply`.

**ProxyServer** extends `MessageHandler` with the life of the process (waiting for
core, started, about to exit, exited), the state of the binding and the poller's.

| action | code |
|---|---|
| `CoreFails`, `Start`, `StartFails` | `index.js` 20-38 with `lib/server.js` 45-71 |
| `Exit` | the `process.nextTick` of `index.js` and of the `error` listener |
| `Listening`, `SocketError` | the callback of `bind`, the `error` event |
| `Message` | the `message` event: `Accept` or `Discard` of the handler |
| `StopServer` | `stop`: the handler's `Stop`, and no callback of `bind` after it |
| `Callback`, `RecordChanges` | the handler's chains and the inventory, while the process lives |

A process about to exit takes up no datagram, since what is due at the next tick
comes first, but callbacks already due may still run. `stop` leaves the poller as it
is: `start` keeps no reference to it.

**PacketBuffer** writes one field per action at a cursor `i` over a buffer `p`
whose bytes say what was last written there, `"stale"` for what
`new Buffer(1500)` contained. Only the lengths of the two names and the hardware
type matter. The options are the two an acknowledgement carries, 53 and 67.

**OptionParser** parses a datagram given as its bytes from offset 240, whether it is
cut before that, and the length of its hardware address, which `readAddressRaw`
reads up to. One action per case of the switch reads a whole option;
the cases with a loop (address lists, the parameter list, the vendor options) have
one action that begins it and one per pass, with `len` as the source uses it. A
value is kept as the parts of the datagram it came from, so a property can say
whose bytes they are. A read past the end, a failed assertion on a length or a
value is `Throw`, which leaves the packet half-made. `packets` holds every packet
the one parser object has made; the last is `this.packet`.

**OptionWriter** writes any of the 25 options, one per action, in ascending order:
code, declared length and payload, `p.write...` throwing past the end of the buffer and
`copy` dropping what does not fit. Values that count as false are skipped, as the
`if`s of the source skip them. **RoundTrip** sends what it returned through
`OptionParser`, which reads other datagrams before or after. Writer and parser are each
synchronous, so they are not interleaved.

**LeasePoller** keeps a piece of the lease file as the sequence of the lines
`parseLeaseData` reads. `Reduce` is its `_.reduce` over these lines, a recursive
function whose state has the three variables of the source (`ip`, `expired`,
`lease`) and whether an assertion threw.
The queue makes one call at a time; a call resolves or fails; `Cleanup` can come
at any moment. dhcpd (`AppendPiece`) and the clock (`Tick`) are external.

**LeaseBook** has no file and no queue: leases are granted while the poller runs,
and the oldest one waiting is written to the book or lost before the next. Under
the refinement mapping what waits is the call under way and the queue behind it,
and the book is the lookup service's.

## Runs

Bounds are the numbers of requests, datagrams and record states in
`MC_MessageHandler`, the lengths in `MC_PacketBuffer`, `BufferSize` (400 of the 1500
bytes: nothing of an acknowledgement reaches further), `MaxPieces` and `MaxTime` of
`LeasePoller`, the bytes and shapes in `MC_OptionParser`, `MaxDatagrams`, and `Room`
(300 of the 1260 bytes behind offset 240, so that few options fill the buffer).

| run | checks | instance, and why it is enough |
|---|---|---|
| `life` | `TypeOK`, `IInv`, `StableVerdict`, refinement of `BootService`, `EveryRequestSettles` | one request of five kinds (a boot, a client without a vendor class, one cut short, one without an address, one with a 16-byte hardware address); a record that moves freely between unknown, new, idle, installing, working and with boot settings. A chain reads at most four moments, all orders of states between them occur. Under `FairSpec`. |
| `race` | `StableVerdict`, refinement | two requests, of one machine or of two; three states. Two are enough for one chain to pick up what belongs to another. Requests are symmetric. |
| `policy` | `FirmwareMatchesPort` | all 576 combinations of four cards, address or none, three user classes, four vendor classes, six architectures; pre-check off, so every one is answered |
| `flexboot` | `FlexbootGetsNoRom`: **violated** | as `policy` |
| `server` | `WholeStart`, `AnswersWhileListening`, `HandlerInProcess`, `StartupSettles`, `SettlesOrExits` | two requests of three kinds and two record states in one process whose start, socket and services may fail and which may be stopped at any moment: one chain can be cut off by what another, or the socket, does |
| `layout` | `LaidOut`, `NamesTerminated` | 14 lengths of the server's name by 21 of the file's, both sides of every boundary: the two limits, the 300-byte minimum, odd and even ends |
| `padding` | `FileNamePadded`: **violated** | addresses of 7 to 15 characters, the real boot files |
| `hwtype` | `HardwareTypeGiven`: **violated** | the first and last type of the table and one beyond it |
| `parse` | `Framed`, `ValuesInFrame`, `CursorAdvances`, `EveryParseEnds` | every run of up to four bytes out of eleven (a code of each kind, small and large lengths), and any two of 33 options (each kind well formed, empty, too short, too long, with a rejected value) one after the other, cut at any byte: a case can only hurt the option behind it, or the end |
| `roundtrip` | `ReadsBack`, `PacketsKeepStill` | any two options with any of their values (client identifiers of types with and without a name), all at once, values at the limit of the length byte, texts and vendor values that bring the cursor to every place around the end of the buffer; the same parser reads a PXE request, one that throws half-way or one cut in its header before or after |
| `poll` | `TypeOK`, `NothingLostInQueue`, `LookupIsCurrent`, `TakesUpLiveLeases`, refinement of `LeaseBook` (`KeepsBook`), `CatchesUp` | three pieces of seven shapes, two machines, three instants: enough for one call under way with one lease waiting behind it and one unread, and for a lease before, at and after its end. Under `FairSpec`. |
| `endless` | `TakesUpEndlessLeases`: **violated** | as `poll` |

Each property of a passing run has a mutant (an operator commented "Mutant"
before the definition it replaces): a plausible bug in the code under which
TLC finds that property violated.

### What the violated ones show

* `message-handler.js:204` spells a Mellanox prefix `7c:fe,90`. No address
  starts so; cards of that prefix get the iPXE ROM the comment above it says
  they must not be given.
* `packet.js:188` pads the file field by the length of the *server's* name. With
  an address of 14 or 15 characters and `monorail.ipxe` (13), one or two bytes of
  the field keep what was in memory. `NamesTerminated` still holds, and theorem
  `PaddedUnlessShorter` gives the exact condition.
* `isc-dhcp-lease-poller.js:199` cuts a date out of `ends never;` and gets an
  invalid one, which compares false: a lease without an end counts as expired.
* `packet.js:148` compares `typeof` with `undefined`, never equal. The branch for
  a type the table does not name is dead: the datagram is answered with hardware
  type 0, although `createProxyDhcpAck` has set `htype` to Ethernet.

`Framed` and `ValuesInFrame` state three limits of the parser rather than hide
them: inner vendor options may carry the cursor past the outer one
(`parser.js:192`), and a client identifier or domain name of length 0 reads one
byte of what follows (`parser.js:286`). No doc or test says otherwise, and nothing
in the program reads these options. `ReadsBack` states what does not come back:
values that count as false (an architecture of 0, every BIOS, is one), addresses
that start with 0, message type 8, and the type of a client identifier when it is
0 or from 10 to 255: the last two have no name in `dhcp-protocol.js`, and a name is
what the parser stores (`parser.js:234`, `285`).

## Fairness

`MessageHandler!FairSpec` is weak fairness of each request's chain: the event
loop runs every callback that is ready, and every service call ends, by an
answer or by an error. The first is Node's; the second is an assumption on
on-core, whose requests over the message bus time out. Nothing is assumed of
new datagrams, of records, or of `Stop`.

`LeasePoller!FairSpec` is weak fairness of reading the file, of the queue's
dispatch, and of the end of the call under way. Nothing is assumed of dhcpd, of
the clock, or of `Run`: `CatchesUp` speaks of a poller that is running.

`OptionParser!FairSpec` is weak fairness of a step within a parse: `parse` is one
synchronous call. Nothing is assumed of datagrams.

`ProxyServer!ProxyFairSpec`: core starts or fails (on-core's promise settles),
`bind` calls back or fails and ticks pass (Node's), and callbacks run, as above.
Nothing is assumed of datagrams, of errors of a bound socket, of `stop` or of
records. `StartupSettles` therefore allows a process that was stopped, and
`SettlesOrExits` one that exits under its chains.

## Proofs

All are for every value of the constants that satisfies the named assumptions,
which TLC also evaluates on every run:

* `PolicyAssumption`, `InventoryAssumption`, `ServerAssumption`,
  `PacketAssumption`, `PollerAssumption`: the types of the constants.
* `ParserAssumption`: datagrams are byte strings, and `Undefined` is no part of one.
* `WriterAssumption`: of `pkt.options` it asks that each value has the form its
  option is written with (`IsValue`: four bytes of an address, as many bytes of a
  number as `p.write...` writes, a key for each vendor option, texts of bytes below
  128, since `toString('ascii')` makes others of the rest; a
  message type of at most 8: the writer writes a larger one too, and the parser
  refuses it); of the buffer, that there is room for the
  300 bytes every packet is filled up to. Client identifiers may have any type.
* `BlockAssumption`: a piece of the lease file has the lines of one block at
  most, its `lease` line first. This is how dhcpd writes and where `always-tail`
  cuts, at braces. `NothingLostInQueue`, `LookupIsCurrent` and the
  refinement do not use it.

**MessageHandlerProofs.** `StableVerdict` and the refinement are not inductive:
when a chain decides, nothing in the present state says why. `IInv` adds, for
each request, `Evidence` (how far the chain came is evidence of states in
`seen[r]`: past the lookup, a known node with the boot settings that `doc[r]`
remembers; past `discovered`, a discovered one; past the task, one with a task),
`Excused` (a verdict is excused by that), `Outcome` (a settled request has the
answer its datagram determines, or a reason for silence), and that the present
record is always in `seen[r]`. Each action has a lemma that it keeps its own
request good; `OthersKeep` says it leaves the others alone; `NodeChangesKeeps`
that growing histories excuse no less. From `Invariance` follow

* `TypeCorrect`, `VerdictIsStable` (`StableVerdict`), `FileSuitsPort`
  (`FirmwareMatchesPort`, by cases over the policy), and
* `Implements`: every behaviour of the chains is one of `BootService`. A callback
  that asks on or decides is a stutter, `ServiceFails` is `Fail`, `SendReply` is
  `Answer` and `StaySilent` is `Decline`, both enabled by `Excused`.

**PacketBufferProofs.** `LaidOut` says of every byte behind the cursor what it
holds. It is inductive once `Ahead` says that, before the file name is written,
nothing beyond the cursor has been: that is where the stale bytes of the file
field come from. `Layout`, `Termination` and `PaddedUnlessShorter` follow for
names of all lengths.

**ProxyServerProofs.** `HandlerRefined`: every step of the process is a step of
`MessageHandler` or leaves it alone, so `VerdictIsStable`, `Implements` and the
others hold of the proxy. `StartedWhole` (`WholeStart`) and `AnswersHeard`
(`AnswersWhileListening`) need an invariant that ties the three parts of the
state: only a started process has taken up a datagram, and an open socket of a
process with chains is bound.

**OptionParserProofs.** For every datagram, not the short ones TLC can list.

* `IInv` says where the cursor is: at the end of the option read last, past it by
  the overrun after vendor options, and within a loop short of the end by what is
  left in `len`. A list reaches its end exactly because its length is a multiple
  of 4. `Framing` and `Advancing` follow; the second, with the end of the datagram
  as a bound, is the argument that every parse ends.
* `OneInParse` says that of the packets only the last can be under construction.
  Each case replaces its options or its state, so `FinishedKeepStill`
  (`PacketsKeepStill`) follows.
* `Entries` says that every option stored lies in its frame, that a loop has
  opened the entry it adds to, and that it is past its length. `ValuesFramed`
  (`ValuesInFrame`) follows, with one lemma for storing an entry, one for adding to
  it, and a case per case of the switch.

**RoundTripLayout** and **RoundTripProofs.** That the two files agree on the format,
for any options, values of any length and buffers of any content. It is proved
from both sides of a description of the buffer, and `ReadsBack` is where they meet.

* `Laid` says of one option that its code, its length and its value are at a place,
  the value part by part, each where the parts before it end (`Ends`, the sums of
  their lengths). `Layout` says of a set of options that they are laid one behind
  the other, in ascending order: behind each stands the next (`Stands`), behind
  the last the end. `PayloadIs` is the heart of it: what the cursor passes is as
  long as the length byte says, for each form of value. `Declared` counts
  parts in one way and `Payload` joins them in another.
* `WInv`: as long as the cursor is in the buffer, the options written so far have a
  `Layout`. An option written past the end is cut off; then the cursor is past the
  end too, `EndFits` fails, and the packet is not returned. `LaysOut`: a returned
  packet is `Complete`.
* `Progress` says where the parser is in such a packet: between two options,
  those before read whole; or in the loop of one, with so many of its parts read
  and the cursor where these end; or behind the end option. Each case of the switch
  has a lemma that it goes from one such place to the next (`ReadIpIs` to
  `NextVendorOptionIs`), `NoThrow` says that none of its tests fails, and
  `ReturnIs` that it does not return early.
* `RInv` puts this into the system: nothing is parsed before the packet is
  returned (`WritesFirst`), its parse, if one is under way, has made `Progress`
  (`OnItsWay`), and of those that are over all options have been read (`Arrived`), for
  the packets before it and after it are left alone (`OthersStill`).
  `ReadsEverythingBack` (`ReadsBack`) and `ReadStaysRead` (`PacketsKeepStill`)
  follow: what is read is what was given, but for the parts `Returned` names.

**LeasePollerProofs.** `QueueKeepsLeases`: what was heard is what was settled, is
under way and waits, in that order, for files of any length and any failures.
The invariant adds only the types; the three lemmas on concatenation are the
three ways a lease moves. `LookupHasLast` (`LookupIsCurrent`) says of each machine
that its address is that of its last lease that was written. `Implements`
(`KeepsBook`): every step of the poller is one of `LeaseBook` or a stutter.

What `parseLeaseData` computes: `ReduceIs` says that `Reduce` is the recursion it
is written as, so that every state of it has its type (`TypeCorrect`). `TakesUp`
(`TakesUpLiveLeases`) goes through the lines with what is known after each
(`KnowsBlock`): `ip` is the one of the block, `expired` is false once an end still to
come was read, and there is a lease only behind the hardware line. `KnowsMore`
takes this over one line; `NoBlock` is the piece that starts without a `lease`
line.

**Recursion.** The library's induction theorems take an operator, which the provers
cannot instantiate. `SetInduction` and `BoundedInduction` say the same of a
set that has 0 and successors; they are proved from the well-foundedness of `<`.
With a step given as a function, `Iteration` is existence for recursive
definitions. These carry the sums of `Ends`, the joining of parts, and `Reduce`.

Only model-checked: liveness (`EveryRequestSettles`, `CatchesUp`,
`EveryParseEnds`, `StartupSettles`, `SettlesOrExits`), which is out of the
prover's reach. Every safety invariant and action property of a passing run is
also a theorem.

## Not modelled

* Logging, wherever it stands, and the arguments it formats.
* Of the header, `OptionParser` keeps what can throw or move the cursor: the length
  of the datagram and of the hardware address. The fields the decisions read are in
  `BootPolicy`'s datagrams; the two views are not composed.
* Texts are strings of bytes below 128: what `toString` makes of others is not
  modelled. Nor are the bytes a vendor option has when the datagram ends in it: they are
  what a new buffer contained.
* The constructor of the poller choosing a path, `_tailError`, which only logs,
  and what `always-tail` does when dhcpd rewrites its file. What the promise queue
  does with an error once its listeners are gone is the library's.
* Time zones: the code reads dhcpd's UTC dates in local time. An instant here is
  a number.
* The delivery of answers over the network. on-core is modelled from how it is
  called.
* `gruntfile.js`, packaging, CI and the tests: no run-time behaviour.

## What could follow

The core, the parser, the writer and the process are done. What is left is
smaller: the decisions of `BootPolicy` on the packets `OptionParser` makes instead
of on records of their own.
