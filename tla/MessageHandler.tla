--------------------------- MODULE MessageHandler ---------------------------
(***************************************************************************)
(* lib/message-handler.js: the promise chain that handleDhcpPacket starts  *)
(* for every datagram, interleaved with the chains of other datagrams,     *)
(* with the services it asks (Services.Lookup, the node model,             *)
(* Protocol.Task) and with the life of the machine it asks about.          *)
(*                                                                         *)
(* One action per callback of the chain.  A service answers from the state *)
(* the inventory is in at that moment, or fails; between two answers the   *)
(* inventory may change.  nodes is owned by other RackHD services; seen    *)
(* and fault only record history for the properties.                       *)
(***************************************************************************)
EXTENDS Inventory

VARIABLES
  pc,       \* where each request's chain is
  packet,   \* packetData, captured by the chain's callbacks
  doc,      \* has the node document the lookup returned bootSettings?
  allow,    \* what isBootFileNameSent resolved to
  reply,    \* what was handed to the socket
  nodes, seen, fault,
  socket    \* the server's dgram socket

chainVars == <<pc, packet, doc, allow, reply>>
vars == <<pc, packet, doc, allow, reply, nodes, seen, fault, socket>>

Asking == {"lookup", "discovered", "task", "profile"}
InFlight == {"chain", "decided"} \cup Asking

\* The record of the machine a request is about.
Node(r) == nodes[packet[r].mac]

Init ==
  /\ pc = [r \in Requests |-> "free"]
  /\ packet = [r \in Requests |-> NoPacket]
  /\ doc = [r \in Requests |-> FALSE]
  /\ allow = [r \in Requests |-> FALSE]
  /\ reply = [r \in Requests |-> NoReply]
  /\ nodes \in [Macs -> NodeStates]
  /\ seen = [r \in Requests |-> {}]
  /\ fault = [r \in Requests |-> FALSE]
  /\ socket = "open"

-----------------------------------------------------------------------------
(* The 'message' event: parse, assert, start the chain. *)

Accept(r, d) ==
  /\ pc[r] = "free" /\ socket = "open" /\ Acceptable(d)
  /\ pc' = [pc EXCEPT ![r] = "chain"]
  /\ packet' = [packet EXCEPT ![r] = d]
  /\ seen' = [seen EXCEPT ![r] = {nodes[d.mac]}]
  /\ UNCHANGED <<doc, allow, reply, nodes, fault, socket>>

Discard(r, d) ==
  /\ pc[r] = "free" /\ socket = "open" /\ ~Acceptable(d)
  /\ pc' = [pc EXCEPT ![r] = "done"]
  /\ packet' = [packet EXCEPT ![r] = d]
  /\ UNCHANGED <<doc, allow, reply, nodes, seen, fault, socket>>

-----------------------------------------------------------------------------
(* isBootFileNameSent.  Ask: the chain goes on to the next question.        *)
(* Decide: the whole of isBootFileNameSent resolves to a boolean.           *)

Ask(r, next) ==
  /\ pc' = [pc EXCEPT ![r] = next]
  /\ UNCHANGED <<allow, fault>>

Decide(r, verdict) ==
  /\ pc' = [pc EXCEPT ![r] = "decided"]
  /\ allow' = [allow EXCEPT ![r] = verdict]

Settled(r) == UNCHANGED <<packet, reply, nodes, seen, socket>>

\* dhcpSendBootFileName switches the pre-check off.
ReadConfig(r) ==
  /\ pc[r] = "chain"
  /\ \/ SendBootFileName /\ Ask(r, "lookup")
     \/ ~SendBootFileName /\ Decide(r, TRUE) /\ UNCHANGED fault
  /\ UNCHANGED doc /\ Settled(r)

\* Mutant: the node is kept on the handler and not in the chain's closure.
LookupAnswersShared(r) ==
  /\ pc[r] = "lookup"
  /\ \/ Node(r).known /\ doc' = [q \in Requests |-> Node(r).bootSettings]
        /\ Ask(r, "discovered")
     \/ ~Node(r).known /\ Decide(r, TRUE) /\ UNCHANGED <<doc, fault>>
  /\ Settled(r)

\* macAddressToNode: the document is a copy, the chain keeps it to the end.
LookupAnswers(r) ==
  /\ pc[r] = "lookup"
  /\ \/ /\ Node(r).known
        /\ doc' = [doc EXCEPT ![r] = Node(r).bootSettings]
        /\ Ask(r, "discovered")
     \/ /\ ~Node(r).known                 \* NotFoundError
        /\ Decide(r, TRUE)
        /\ UNCHANGED <<doc, fault>>
  /\ Settled(r)

\* Mutant: an undiscovered machine is refused like an idle one.
DiscoveredAnswersRefuse(r) ==
  /\ pc[r] = "discovered"
  /\ \/ Node(r).discovered /\ Ask(r, "task")
     \/ ~Node(r).discovered /\ Decide(r, FALSE) /\ UNCHANGED fault
  /\ UNCHANGED doc /\ Settled(r)

\* node.discovered(): a rejection with NotFoundError reaches the same catch
\* as one of the lookup, and counts as an unknown machine.
DiscoveredAnswers(r) ==
  /\ pc[r] = "discovered"
  /\ \/ Node(r).discovered /\ Ask(r, "task")
     \/ ~Node(r).discovered /\ Decide(r, TRUE) /\ UNCHANGED fault
  /\ UNCHANGED doc /\ Settled(r)

\* Mutant: without a task, the boot settings are not looked at.
TaskAnswersTrue(r) ==
  /\ pc[r] = "task"
  /\ \/ Node(r).task /\ Ask(r, "profile")
     \/ ~Node(r).task /\ Decide(r, TRUE) /\ UNCHANGED fault
  /\ UNCHANGED doc /\ Settled(r)

\* activeTaskExists resolves, or rejects when there is no active task.
TaskAnswers(r) ==
  /\ pc[r] = "task"
  /\ \/ Node(r).task /\ Ask(r, "profile")
     \/ ~Node(r).task /\ Decide(r, doc[r]) /\ UNCHANGED fault
  /\ UNCHANGED doc /\ Settled(r)

\* requestProfile resolves, or rejects when there is no profile.
ProfileAnswers(r) ==
  /\ pc[r] = "profile"
  /\ Decide(r, Node(r).profile)
  /\ UNCHANGED <<doc, fault>> /\ Settled(r)

\* A service call fails: an error that is not NotFoundError, or a timeout.
\* A failing activeTaskExists is taken for "no active task".
ServiceFails(r) ==
  /\ pc[r] \in Asking
  /\ Decide(r, IF pc[r] = "task" THEN doc[r] ELSE FALSE)
  /\ fault' = [fault EXCEPT ![r] = TRUE]
  /\ UNCHANGED doc /\ Settled(r)

-----------------------------------------------------------------------------
(* The rest of the chain: name a boot file, build the acknowledgement, send *)
(* it.  An exception anywhere (no room for a name, a closed socket) ends in *)
(* the chain's catch, like a verdict or a file that is missing: in silence. *)

\* Mutant: the pre-check's verdict is not looked at.
CanReplyUnchecked(r) == Answerable(packet[r]) /\ socket = "open"

\* A boot file was allowed, one is named, it fits, and it can be sent.
CanReply(r) == allow[r] /\ Answerable(packet[r]) /\ socket = "open"

\* Mutant: packetData belongs to the handler, so a later datagram replaces it.
SendReplyToAny(r) ==
  /\ pc[r] = "decided" /\ CanReply(r)
  /\ pc' = [pc EXCEPT ![r] = "done"]
  /\ \E q \in Requests : packet[q] # NoPacket /\ Answerable(packet[q])
       /\ reply' = [reply EXCEPT ![r] = ReplyTo(packet[q])]
  /\ UNCHANGED <<packet, doc, allow, nodes, seen, fault, socket>>

SendReply(r) ==
  /\ pc[r] = "decided" /\ CanReply(r)
  /\ pc' = [pc EXCEPT ![r] = "done"]
  /\ reply' = [reply EXCEPT ![r] = ReplyTo(packet[r])]
  /\ UNCHANGED <<packet, doc, allow, nodes, seen, fault, socket>>

\* Mutant: what send throws on a closed socket is not caught.
StaySilentUncaught(r) ==
  /\ pc[r] = "decided" /\ ~CanReply(r) /\ socket = "open"
  /\ pc' = [pc EXCEPT ![r] = "done"]
  /\ UNCHANGED <<packet, doc, allow, reply, nodes, seen, fault, socket>>

StaySilent(r) ==
  /\ pc[r] = "decided" /\ ~CanReply(r)
  /\ pc' = [pc EXCEPT ![r] = "done"]
  /\ UNCHANGED <<packet, doc, allow, reply, nodes, seen, fault, socket>>

-----------------------------------------------------------------------------
(* The environment. *)

\* Another service writes to the machine's record.
NodeChanges(m, s) ==
  /\ nodes[m] # s
  /\ nodes' = [nodes EXCEPT ![m] = s]
  /\ seen' = [r \in Requests |->
                IF pc[r] \in InFlight /\ packet[r].mac = m
                THEN seen[r] \cup {s} ELSE seen[r]]
  /\ UNCHANGED <<chainVars, fault, socket>>

\* Server.stop closes the socket under the chains still running.
Stop ==
  /\ socket = "open"
  /\ socket' = "closed"
  /\ UNCHANGED <<chainVars, nodes, seen, fault>>

ChainStep(r) ==
  \/ ReadConfig(r) \/ LookupAnswers(r) \/ DiscoveredAnswers(r)
  \/ TaskAnswers(r) \/ ProfileAnswers(r) \/ ServiceFails(r)
  \/ SendReply(r) \/ StaySilent(r)

Next ==
  \/ \E r \in Requests :
       \/ \E d \in Datagrams : Accept(r, d) \/ Discard(r, d)
       \/ ChainStep(r)
  \/ \E m \in Macs, s \in NodeStates : NodeChanges(m, s)
  \/ Stop

Spec == Init /\ [][Next]_vars

\* Every call is answered or fails (a request over the message bus times
\* out), and the event loop runs every callback that is ready.
FairSpec == Spec /\ \A r \in Requests : WF_vars(ChainStep(r))

-----------------------------------------------------------------------------
(* Properties. *)

\* Every variable keeps to its set of values.
TypeOK ==
  /\ pc \in [Requests -> {"free", "done"} \cup InFlight]
  /\ packet \in [Requests -> Datagrams \cup {NoPacket}]
  /\ doc \in [Requests -> BOOLEAN]
  /\ allow \in [Requests -> BOOLEAN]
  /\ reply \in [Requests -> Reply \cup {NoReply}]
  /\ nodes \in [Macs -> NodeStates]
  /\ seen \in [Requests -> SUBSET NodeStates]
  /\ fault \in [Requests -> BOOLEAN]
  /\ socket \in {"open", "closed"}

\* The chain of promises of handleDhcpPacket does what BootService promises,
\* whatever else is in flight and however the inventory moves under it: one
\* settlement per datagram, the answer that datagram's own fields determine,
\* and no verdict without an excuse.
phaseBar == [r \in Requests |->
  IF pc[r] = "free" THEN "idle"
  ELSE IF pc[r] \in InFlight THEN "pending"
  ELSE IF reply[r] = NoReply THEN "silent" ELSE "answered"]

Service == INSTANCE BootService WITH phase <- phaseBar

KeepsServicePromise == Service!Spec

\* When a record holds still and every service answers, a request's verdict
\* is the decision table of isBootFileNameSent's log messages: lines 127
\* (task and profile), 132 (task, no profile), 139 (boot settings), 142
\* (neither), 148 (not discovered) and 155 (no lookup record).
ShouldBoot(s) ==
  \/ ~s.known
  \/ ~s.discovered
  \/ s.task /\ s.profile
  \/ ~s.task /\ s.bootSettings

StableVerdict ==
  \A r \in Requests : \A s \in seen[r] :
    /\ pc[r] = "done" /\ seen[r] = {s} /\ ~fault[r]
    /\ SendBootFileName /\ Answerable(packet[r]) /\ socket = "open"
    => (reply[r] # NoReply <=> ShouldBoot(s))

\* EFI firmware is told apart in two places, packet.js:53 for the port and
\* message-handler.js:233 for the file, from different fields.  They agree:
\* what goes to the EFI port is an EFI file unless a MAC or vendor rule
\* chose the file first, and an EFI file goes to the legacy port only when
\* the client named a user class.
FirmwareMatchesPort ==
  \A r \in Requests : reply[r] # NoReply =>
    LET d == packet[r]
        efi == reply[r].file \in {Efi64Rom, Efi32Rom}
    IN /\ reply[r].port = EFIPort =>
            \/ efi
            \/ d.vendorClass = "Arista"
            \/ d.mac.oui \in mellanox \cup {"ec:a8:6b"}
       /\ efi /\ reply[r].port = LegacyPort => d.userClass = "other"

\* message-handler.js:202: a card of Mellanox has Flexboot and is never handed
\* an iPXE ROM.  The vendor's seven prefixes, in the notation of addresses.
FlexbootOui == {"f4:52:14", "ec:0d:9a", "e4:1d:2d", "7c:fe:90", "24:8a:07",
                "00:25:8b", "00:02:c9"}

FlexbootGetsNoRom ==
  \A r \in Requests :
    reply[r] # NoReply /\ packet[r].mac.oui \in FlexbootOui
    => reply[r].file.name \in {"profiles", "profiles?macs"}

\* Every datagram that is taken up is settled: no chain is left waiting,
\* whichever callback fails and whenever the socket is closed.
EveryRequestSettles ==
  \A r \in Requests : pc[r] \in InFlight ~> pc[r] = "done"

-----------------------------------------------------------------------------
(* The inductive invariant: what the answers a chain has heard so far say   *)
(* about the history of the machine's record.                               *)

\* A request not yet received has left no trace.
Untouched(r) ==
  pc[r] = "free" => packet[r] = NoPacket /\ reply[r] = NoReply /\ seen[r] = {}

\* A chain runs for a datagram that was accepted, and the record's present
\* state is among those seen.
Running(r) ==
  pc[r] \in InFlight =>
    /\ packet[r] \in Datagrams /\ Acceptable(packet[r])
    /\ Node(r) \in seen[r]
    /\ reply[r] = NoReply

\* How far a chain came is evidence of states the record was in.
Evidence(r) ==
  /\ pc[r] \in Asking => SendBootFileName
  /\ pc[r] \in {"discovered", "task", "profile"} =>
       \E s \in seen[r] : s.known /\ s.bootSettings = doc[r]
  /\ pc[r] \in {"task", "profile"} => \E s \in seen[r] : s.discovered
  /\ pc[r] = "profile" => \E s \in seen[r] : s.task

\* A verdict is excused by that evidence.
Excused(r) ==
  pc[r] = "decided" =>
    IF SendBootFileName
    THEN /\ allow[r] => MayBoot(seen[r], fault[r])
         /\ ~allow[r] => MayWithhold(seen[r], fault[r])
    ELSE allow[r]

\* A settled request carries the answer its datagram determines or a reason
\* for its silence.
Outcome(r) ==
  pc[r] = "done" =>
    /\ packet[r] \in Datagrams
    /\ reply[r] # NoReply =>
         /\ Acceptable(packet[r]) /\ Answerable(packet[r])
         /\ reply[r] = ReplyTo(packet[r])
         /\ SendBootFileName => MayBoot(seen[r], fault[r])
    /\ reply[r] = NoReply =>
         \/ ~Acceptable(packet[r]) /\ seen[r] = {}
         \/ ~Answerable(packet[r])
         \/ socket = "closed"
         \/ SendBootFileName /\ MayWithhold(seen[r], fault[r])

\* All of the above for every request: strong enough to be kept by every
\* step of the chains, and to yield StableVerdict and FirmwareMatchesPort.
IInv ==
  /\ TypeOK
  /\ \A r \in Requests :
       Untouched(r) /\ Running(r) /\ Evidence(r) /\ Excused(r) /\ Outcome(r)
=============================================================================
