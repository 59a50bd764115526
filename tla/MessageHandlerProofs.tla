------------------------ MODULE MessageHandlerProofs ------------------------
(***************************************************************************)
(* Proofs about MessageHandler: its inductive invariant, the safety        *)
(* properties that follow from it, and that every step of the promise      *)
(* chains is a step of BootService.                                        *)
(***************************************************************************)
EXTENDS MessageHandler, TLAPS

\* A request's part of the inductive invariant.
Good(r) == Untouched(r) /\ Running(r) /\ Evidence(r) /\ Excused(r) /\ Outcome(r)

-----------------------------------------------------------------------------
(* Facts about the decision itself. *)

\* Whatever the datagram, getDefaultBootfile names a boot file (or none).
LEMMA FileType ==
  ASSUME NEW d \in Datagram
  PROVE  getDefaultBootfile(d) \in BootFile
<1> DEFINE IsFile(f) == f \in BootFile
<1>1. IsFile(AristaUrl(d.mac))
  BY PolicyAssumption DEF AristaUrl, BootFile, FileName, Datagram
<1>2. IsFile(ProfilesUrl)
  BY PolicyAssumption DEF ProfilesUrl, Rom, BootFile, FileName
<1>3. IsFile(NoFile) /\ IsFile(IntelRom) /\ IsFile(Efi64Rom)
  BY DEF NoFile, IntelRom, Efi64Rom, Rom, BootFile, FileName
<1>4. IsFile(Efi32Rom) /\ IsFile(UndiRom) /\ IsFile(DefaultRom)
  BY DEF Efi32Rom, UndiRom, DefaultRom, Rom, BootFile, FileName
<1> HIDE DEF IsFile
<1>5. IsFile(getDefaultBootfile(d))
  BY <1>1, <1>2, <1>3, <1>4 DEF getDefaultBootfile
<1>6. QED BY <1>5 DEF IsFile

\* An accepted datagram determines a well-formed answer.
LEMMA ReplyType ==
  ASSUME NEW d \in Datagrams, Acceptable(d)
  PROVE  ReplyTo(d) \in Reply /\ ReplyTo(d) # NoReply
<1>1. d \in Datagram BY InventoryAssumption
<1>2. getDefaultBootfile(d) \in BootFile BY <1>1, FileType
<1>3. ReplyTo(d) \in Reply
  BY <1>1, <1>2 DEF ReplyTo, createProxyDhcpAck, Reply, Datagram, Acceptable
<1>4. QED BY <1>3, InventoryAssumption

\* More history excuses no less.
LEMMA ExcusesGrow ==
  ASSUME NEW S, NEW T, S \subseteq T, NEW f
  PROVE  /\ MayBoot(S, f) => MayBoot(T, f)
         /\ MayWithhold(S, f) => MayWithhold(T, f)
BY DEF MayBoot, MayWithhold

-----------------------------------------------------------------------------
(* The inductive invariant. *)

\* A request is not disturbed by what happens to others.
LEMMA Frame ==
  ASSUME NEW q \in Requests, Good(q),
         pc'[q] = pc[q], packet'[q] = packet[q], doc'[q] = doc[q],
         allow'[q] = allow[q], reply'[q] = reply[q], seen'[q] = seen[q],
         fault'[q] = fault[q], nodes' = nodes, socket' = socket
  PROVE  Good(q)'
BY DEF Good, Untouched, Running, Evidence, Excused, Outcome, Node

\* Before any datagram the invariant holds.
LEMMA InitIInv == Init => IInv
BY DEF Init, IInv, TypeOK, Untouched, Running, Evidence, Excused, Outcome,
   InFlight, Asking

\* One action per callback: each keeps the types and its own request good.
LEMMA AcceptKeeps ==
  ASSUME IInv, NEW r \in Requests, NEW d \in Datagrams, Accept(r, d)
  PROVE  TypeOK' /\ Good(r)'
<1>1. d.mac \in Macs BY InventoryAssumption DEF Datagram
<1>2. TypeOK' BY <1>1 DEF IInv, TypeOK, Accept, InFlight, Asking
<1>3. Good(r)'
  BY <1>1, <1>2 DEF IInv, TypeOK, Accept, Good, Untouched, Running, Evidence,
     Excused, Outcome, Node, InFlight, Asking
<1>4. QED BY <1>2, <1>3

\* A datagram the parser rejects, or one without an address, is settled at once.
LEMMA DiscardKeeps ==
  ASSUME IInv, NEW r \in Requests, NEW d \in Datagrams, Discard(r, d)
  PROVE  TypeOK' /\ Good(r)'
<1>1. TypeOK' BY DEF IInv, TypeOK, Discard, InFlight, Asking
<1>2. Good(r)'
  BY DEF IInv, TypeOK, Discard, Good, Untouched, Running, Evidence, Excused,
     Outcome, InFlight, Asking
<1>3. QED BY <1>1, <1>2

\* dhcpSendBootFileName: the chain asks on, or allows every boot file.
LEMMA ReadConfigKeeps ==
  ASSUME IInv, NEW r \in Requests, ReadConfig(r)
  PROVE  TypeOK' /\ Good(r)'
<1>1. TypeOK'
  BY DEF IInv, TypeOK, ReadConfig, Ask, Decide, Settled, InFlight, Asking
<1>2. Good(r)'
  BY DEF IInv, TypeOK, ReadConfig, Ask, Decide, Settled, InFlight, Asking,
     Good, Untouched, Running, Evidence, Excused, Outcome, Node
<1>3. QED BY <1>1, <1>2

\* The node that was found, or that there is none, is in the history.
LEMMA LookupAnswersKeeps ==
  ASSUME IInv, NEW r \in Requests, LookupAnswers(r)
  PROVE  TypeOK' /\ Good(r)'
<1>1. packet[r] \in Datagram /\ Node(r) \in NodeStates /\ Node(r) \in NodeState
  BY InventoryAssumption
  DEF LookupAnswers, IInv, TypeOK, Running, Node, InFlight, Asking, Datagram
<1>2. TypeOK'
  BY <1>1 DEF IInv, TypeOK, LookupAnswers, Ask, Decide, Settled, InFlight,
     Asking, NodeState
<1>3. Good(r)'
  BY <1>1 DEF IInv, TypeOK, LookupAnswers, Ask, Decide, Settled, InFlight,
     Asking, Good, Untouched, Running, Evidence, Excused, Outcome, Node,
     NodeState, MayBoot, MayWithhold
<1>4. QED BY <1>2, <1>3

\* That the machine was discovered, or was not, is in the history.
LEMMA DiscoveredAnswersKeeps ==
  ASSUME IInv, NEW r \in Requests, DiscoveredAnswers(r)
  PROVE  TypeOK' /\ Good(r)'
<1>1. packet[r] \in Datagram /\ Node(r) \in NodeStates /\ Node(r) \in NodeState
  BY InventoryAssumption
  DEF DiscoveredAnswers, IInv, TypeOK, Running, Node, InFlight, Asking, Datagram
<1>2. TypeOK'
  BY <1>1 DEF IInv, TypeOK, DiscoveredAnswers, Ask, Decide, Settled, InFlight,
     Asking, NodeState
<1>3. Good(r)'
  BY <1>1 DEF IInv, TypeOK, DiscoveredAnswers, Ask, Decide, Settled, InFlight,
     Asking, Good, Untouched, Running, Evidence, Excused, Outcome, Node,
     NodeState, MayBoot, MayWithhold
<1>4. QED BY <1>2, <1>3

\* Without a task the boot settings of the document decide: both are history.
LEMMA TaskAnswersKeeps ==
  ASSUME IInv, NEW r \in Requests, TaskAnswers(r)
  PROVE  TypeOK' /\ Good(r)'
<1>1. packet[r] \in Datagram /\ Node(r) \in NodeStates /\ Node(r) \in NodeState
  BY InventoryAssumption
  DEF TaskAnswers, IInv, TypeOK, Running, Node, InFlight, Asking, Datagram
<1>2. TypeOK'
  BY <1>1 DEF IInv, TypeOK, TaskAnswers, Ask, Decide, Settled, InFlight,
     Asking, NodeState
<1>3. Good(r)'
  BY <1>1 DEF IInv, TypeOK, TaskAnswers, Ask, Decide, Settled, InFlight,
     Asking, Good, Untouched, Running, Evidence, Excused, Outcome, Node,
     NodeState, MayBoot, MayWithhold
<1>4. QED BY <1>2, <1>3

\* With a task the profile decides: both are history.
LEMMA ProfileAnswersKeeps ==
  ASSUME IInv, NEW r \in Requests, ProfileAnswers(r)
  PROVE  TypeOK' /\ Good(r)'
<1>1. packet[r] \in Datagram /\ Node(r) \in NodeStates /\ Node(r) \in NodeState
  BY InventoryAssumption
  DEF ProfileAnswers, IInv, TypeOK, Running, Node, InFlight, Asking, Datagram
<1>2. TypeOK'
  BY <1>1 DEF IInv, TypeOK, ProfileAnswers, Ask, Decide, Settled, InFlight,
     Asking, NodeState
<1>3. Good(r)'
  BY <1>1 DEF IInv, TypeOK, ProfileAnswers, Ask, Decide, Settled, InFlight,
     Asking, Good, Untouched, Running, Evidence, Excused, Outcome, Node,
     NodeState, MayBoot, MayWithhold
<1>4. QED BY <1>2, <1>3

\* A failed call excuses silence, and boot settings without a task.
LEMMA ServiceFailsKeeps ==
  ASSUME IInv, NEW r \in Requests, ServiceFails(r)
  PROVE  TypeOK' /\ Good(r)'
<1>1. packet[r] \in Datagram /\ Node(r) \in NodeStates /\ Node(r) \in NodeState
  BY InventoryAssumption
  DEF ServiceFails, IInv, TypeOK, Running, Node, InFlight, Asking, Datagram
<1>2. TypeOK'
  BY <1>1 DEF IInv, TypeOK, ServiceFails, Ask, Decide, Settled, InFlight,
     Asking, NodeState
<1>3. Good(r)'
  BY <1>1 DEF IInv, TypeOK, ServiceFails, Ask, Decide, Settled, InFlight,
     Asking, Good, Untouched, Running, Evidence, Excused, Outcome, Node,
     NodeState, MayBoot, MayWithhold
<1>4. QED BY <1>2, <1>3

\* The answer is the one the datagram determines, and the verdict excuses it.
LEMMA SendReplyKeeps ==
  ASSUME IInv, NEW r \in Requests, SendReply(r)
  PROVE  TypeOK' /\ Good(r)'
<1>1. packet[r] \in Datagrams /\ Acceptable(packet[r])
  BY DEF SendReply, IInv, Running, InFlight
<1>2. ReplyTo(packet[r]) \in Reply /\ ReplyTo(packet[r]) # NoReply
  BY <1>1, ReplyType
<1>3. TypeOK' BY <1>2 DEF IInv, TypeOK, SendReply, InFlight, Asking
<1>4. Good(r)'
  BY <1>1, <1>2 DEF IInv, TypeOK, SendReply, CanReply, InFlight, Asking, Good,
     Untouched, Running, Evidence, Excused, Outcome
<1>5. QED BY <1>3, <1>4

\* Silence has a reason: the verdict, the file, its length or the socket.
LEMMA StaySilentKeeps ==
  ASSUME IInv, NEW r \in Requests, StaySilent(r)
  PROVE  TypeOK' /\ Good(r)'
<1>1. TypeOK' BY DEF IInv, TypeOK, StaySilent, InFlight, Asking
<1>2. Good(r)'
  BY DEF IInv, TypeOK, StaySilent, CanReply, InFlight, Asking, Good,
     Untouched, Running, Evidence, Excused, Outcome
<1>3. QED BY <1>1, <1>2

\* What happens to the machine's record is added to the history of the
\* requests that are about it.
LEMMA NodeChangesKeeps ==
  ASSUME IInv, NEW m \in Macs, NEW s \in NodeStates, NodeChanges(m, s)
  PROVE  TypeOK' /\ \A q \in Requests : Good(q)'
<1>1. TypeOK' BY DEF IInv, TypeOK, NodeChanges, chainVars
<1>2. ASSUME NEW q \in Requests PROVE Good(q)'
  <2>1. UNCHANGED <<pc, packet, doc, allow, reply, fault, socket>> /\ Good(q)
    BY DEF NodeChanges, chainVars, IInv, Good
  <2>2. /\ seen[q] \subseteq seen'[q]
        /\ pc[q] \in {"free", "done"} => seen'[q] = seen[q]
    BY DEF NodeChanges, IInv, TypeOK, InFlight, Asking
  <2>3. Running(q)'
    <3> SUFFICES ASSUME pc[q] \in InFlight PROVE Running(q)'
      BY <2>1 DEF Running
    <3>1. packet[q] \in Datagram BY <2>1, InventoryAssumption DEF Good, Running
    <3>2. packet[q].mac \in Macs BY <3>1 DEF Datagram
    <3>3. Node(q)' \in seen'[q]
      <4>1. CASE packet[q].mac = m
        BY <2>1, <3>2, <4>1 DEF NodeChanges, Node, IInv, TypeOK
      <4>2. CASE packet[q].mac # m
        BY <2>1, <2>2, <3>2, <4>2
        DEF NodeChanges, Node, IInv, TypeOK, Good, Running
      <4>3. QED BY <4>1, <4>2
    <3>4. QED BY <2>1, <3>3 DEF Good, Running
  <2>4. Evidence(q)' BY <2>1, <2>2 DEF Good, Evidence
  <2>5. /\ MayBoot(seen[q], fault[q]) => MayBoot(seen'[q], fault[q])
        /\ MayWithhold(seen[q], fault[q]) => MayWithhold(seen'[q], fault[q])
    BY <2>2, ExcusesGrow
  <2>6. Excused(q)' /\ Outcome(q)'
    BY <2>1, <2>2, <2>5 DEF Good, Excused, Outcome
  <2>7. QED BY <2>1, <2>2, <2>3, <2>4, <2>6 DEF Good, Untouched
<1>3. QED BY <1>1, <1>2

\* Closing the socket excuses the silence of the requests already settled.
LEMMA StopKeeps ==
  ASSUME IInv, Stop
  PROVE  TypeOK' /\ \A q \in Requests : Good(q)'
<1>1. TypeOK' BY DEF IInv, TypeOK, Stop, chainVars
<1>2. ASSUME NEW q \in Requests PROVE Good(q)'
  BY <1>2 DEF Stop, chainVars, IInv, Good, Untouched, Running, Evidence,
     Excused, Outcome, Node
<1>3. QED BY <1>1, <1>2

\* An action of one request leaves the others' state alone.
LEMMA OthersKeep ==
  ASSUME IInv, NEW r \in Requests, NEW q \in Requests, q # r,
         ChainStep(r) \/ \E d \in Datagrams : Accept(r, d) \/ Discard(r, d)
  PROVE  Good(q)'
<1>1. Good(q) BY DEF IInv, Good
<1>2. /\ pc'[q] = pc[q] /\ packet'[q] = packet[q] /\ doc'[q] = doc[q]
      /\ allow'[q] = allow[q] /\ reply'[q] = reply[q] /\ seen'[q] = seen[q]
      /\ fault'[q] = fault[q] /\ nodes' = nodes /\ socket' = socket
  BY DEF IInv, TypeOK, ChainStep, Accept, Discard, ReadConfig, LookupAnswers,
     DiscoveredAnswers, TaskAnswers, ProfileAnswers, ServiceFails, SendReply,
     StaySilent, Ask, Decide, Settled
<1>3. QED BY <1>1, <1>2, Frame

\* Every step of the chains and of their environment keeps the invariant.
LEMMA NextIInv == IInv /\ [Next]_vars => IInv'
<1> SUFFICES ASSUME IInv, [Next]_vars
             PROVE  TypeOK' /\ \A q \in Requests : Good(q)'
  BY DEF IInv, Good
<1>1. ASSUME NEW r \in Requests, NEW d \in Datagrams, Accept(r, d) \/ Discard(r, d)
      PROVE  TypeOK' /\ \A q \in Requests : Good(q)'
  BY <1>1, AcceptKeeps, DiscardKeeps, OthersKeep
<1>2. ASSUME NEW r \in Requests, ChainStep(r)
      PROVE  TypeOK' /\ \A q \in Requests : Good(q)'
  <2>1. TypeOK' /\ Good(r)'
    BY <1>2, ReadConfigKeeps, LookupAnswersKeeps, DiscoveredAnswersKeeps,
       TaskAnswersKeeps, ProfileAnswersKeeps, ServiceFailsKeeps,
       SendReplyKeeps, StaySilentKeeps DEF ChainStep
  <2>2. QED BY <1>2, <2>1, OthersKeep
<1>3. ASSUME NEW m \in Macs, NEW s \in NodeStates, NodeChanges(m, s)
      PROVE  TypeOK' /\ \A q \in Requests : Good(q)'
  BY <1>3, NodeChangesKeeps
<1>4. CASE Stop
  BY <1>4, StopKeeps
<1>5. CASE UNCHANGED vars
  BY <1>5 DEF vars, IInv, TypeOK, Good, Untouched, Running, Evidence, Excused,
     Outcome, Node
<1>6. QED BY <1>1, <1>2, <1>3, <1>4, <1>5 DEF Next

\* The invariant holds in every behaviour of the chains.
THEOREM Invariance == Spec => []IInv
BY InitIInv, NextIInv, PTL DEF Spec

\* Type correctness.
THEOREM TypeCorrect == Spec => []TypeOK
<1>1. IInv => TypeOK BY DEF IInv
<1>2. QED BY <1>1, Invariance, PTL

\* A record that holds still and services that answer leave no choice: the
\* verdict is the decision table of isBootFileNameSent.
THEOREM VerdictIsStable == Spec => []StableVerdict
<1>1. ASSUME NEW s \in NodeState, s.discovered => s.known
      PROVE  /\ MayBoot({s}, FALSE) => ShouldBoot(s)
             /\ MayWithhold({s}, FALSE) => ~ShouldBoot(s)
  BY <1>1 DEF MayBoot, MayWithhold, ShouldBoot, NodeState
<1>2. IInv => StableVerdict
  <2> SUFFICES ASSUME IInv, NEW r \in Requests, NEW s \in seen[r],
                      pc[r] = "done", seen[r] = {s}, ~fault[r],
                      SendBootFileName, Answerable(packet[r]), socket = "open"
               PROVE  reply[r] # NoReply <=> ShouldBoot(s)
    BY DEF StableVerdict
  <2>1. s \in NodeStates BY DEF IInv, TypeOK
  <2>2. s \in NodeState /\ (s.discovered => s.known)
    BY <2>1, InventoryAssumption
  <2>3. fault[r] = FALSE BY DEF IInv, TypeOK
  <2>4. CASE reply[r] # NoReply
    BY <1>1, <2>2, <2>3, <2>4 DEF IInv, Outcome
  <2>5. CASE reply[r] = NoReply
    BY <1>1, <2>2, <2>3, <2>5 DEF IInv, Outcome
  <2>6. QED BY <2>4, <2>5
<1>3. QED BY <1>2, Invariance, PTL

\* The port that packet.js chooses and the file that message-handler.js
\* chooses agree, for every datagram and every configuration.
THEOREM FileSuitsPort == Spec => []FirmwareMatchesPort
<1>1. ASSUME NEW d \in Datagram
      PROVE  LET efi == getDefaultBootfile(d) \in {Efi64Rom, Efi32Rom}
             IN /\ efi => d.arch \in {6, 7, 9} /\ d.userClass # "MonoRail"
                /\ d.arch \in {6, 7, 9} /\ d.userClass = "none" =>
                     \/ efi
                     \/ getDefaultBootfile(d) = NoFile
                     \/ d.vendorClass = "Arista"
                     \/ d.mac.oui \in mellanox \cup {"ec:a8:6b"}
  BY DEF Datagram, getDefaultBootfile, Rom, AristaUrl, NoFile, ProfilesUrl,
     IntelRom, Efi64Rom, Efi32Rom, UndiRom, DefaultRom
<1>2. IInv => FirmwareMatchesPort
  <2> SUFFICES ASSUME IInv, NEW r \in Requests, reply[r] # NoReply
               PROVE  LET d == packet[r]
                          efi == reply[r].file \in {Efi64Rom, Efi32Rom}
                      IN /\ reply[r].port = EFIPort =>
                              \/ efi
                              \/ d.vendorClass = "Arista"
                              \/ d.mac.oui \in mellanox \cup {"ec:a8:6b"}
                         /\ efi /\ reply[r].port = LegacyPort =>
                              d.userClass = "other"
    BY DEF FirmwareMatchesPort
  <2>1. /\ packet[r] \in Datagram /\ Answerable(packet[r])
        /\ reply[r] = ReplyTo(packet[r])
    <3>1. pc[r] = "done"
      BY DEF IInv, TypeOK, Untouched, Running
    <3>2. QED BY <3>1, InventoryAssumption DEF IInv, Outcome
  <2>2. /\ reply[r].file = getDefaultBootfile(packet[r])
        /\ reply[r].port = IF isPXEefi(packet[r]) THEN EFIPort ELSE LegacyPort
    BY <2>1 DEF ReplyTo, createProxyDhcpAck
  <2>3. packet[r].userClass \in {"none", "MonoRail", "other"}
    BY <2>1 DEF Datagram
  <2>4. getDefaultBootfile(packet[r]) # NoFile BY <2>1 DEF Answerable
  <2>5. QED
    BY <1>1, <2>1, <2>2, <2>3, <2>4, PolicyAssumption DEF isPXEefi
<1>3. QED BY <1>2, Invariance, PTL

-----------------------------------------------------------------------------
(* MessageHandler implements BootService. *)

\* The refinement mapping takes the initial states to initial states.
LEMMA InitService == Init => Service!Init
BY DEF Init, Service!Init, phaseBar

\* An action of request r moves phaseBar at r alone, to the phase its new pc
\* and reply say.
LEMMA PhaseMoves ==
  ASSUME IInv, NEW r \in Requests, NEW p,
         \A q \in Requests \ {r} : pc'[q] = pc[q] /\ reply'[q] = reply[q],
         p = (IF pc'[r] = "free" THEN "idle"
              ELSE IF pc'[r] \in InFlight THEN "pending"
              ELSE IF reply'[r] = NoReply THEN "silent" ELSE "answered")
  PROVE  phaseBar' = [phaseBar EXCEPT ![r] = p]
BY DEF phaseBar

\* A callback that only asks on, or decides, is invisible to the service
\* unless a call failed.
LEMMA ThinkingStutters ==
  ASSUME IInv, NEW r \in Requests,
         \/ ReadConfig(r) \/ LookupAnswers(r) \/ DiscoveredAnswers(r)
         \/ TaskAnswers(r) \/ ProfileAnswers(r)
  PROVE  UNCHANGED Service!vars
<1>1. UNCHANGED <<packet, reply, nodes, seen, fault, socket>>
  BY DEF ReadConfig, LookupAnswers, DiscoveredAnswers, TaskAnswers,
     ProfileAnswers, Ask, Decide, Settled
<1>2. pc[r] \in InFlight /\ pc'[r] \in InFlight
  BY DEF IInv, TypeOK, ReadConfig, LookupAnswers, DiscoveredAnswers,
     TaskAnswers, ProfileAnswers, Ask, Decide, InFlight, Asking
<1>3. \A q \in Requests \ {r} : pc'[q] = pc[q]
  BY DEF IInv, TypeOK, ReadConfig, LookupAnswers, DiscoveredAnswers,
     TaskAnswers, ProfileAnswers, Ask, Decide
<1>4. phaseBar' = phaseBar
  BY <1>1, <1>2, <1>3 DEF phaseBar, InFlight, Asking
<1>5. QED BY <1>1, <1>4 DEF Service!vars

\* BootService's copy of the boot policy is the same policy.
LEMMA SamePolicy ==
  ASSUME NEW d
  PROVE  /\ Service!Answerable(d) <=> Answerable(d)
         /\ Service!ReplyTo(d) = ReplyTo(d)
<1>1. Service!getDefaultBootfile(d) = getDefaultBootfile(d)
  BY DEF getDefaultBootfile, Service!getDefaultBootfile, NoFile,
     Service!NoFile, ProfilesUrl, Service!ProfilesUrl, IntelRom,
     Service!IntelRom, Efi64Rom, Service!Efi64Rom, Efi32Rom, Service!Efi32Rom,
     UndiRom, Service!UndiRom, DefaultRom, Service!DefaultRom, AristaUrl,
     Service!AristaUrl, mellanox, Service!mellanox, Rom, Service!Rom
<1>2. Service!NoFile = NoFile BY DEF NoFile, Service!NoFile, Rom, Service!Rom
<1>3. QED
  BY <1>1, <1>2 DEF Answerable, Service!Answerable, AckFits, Service!AckFits,
     ReplyTo, Service!ReplyTo, createProxyDhcpAck, Service!createProxyDhcpAck,
     isPXEefi, Service!isPXEefi

\* It takes every step to a step of the service or to a stutter.
LEMMA StepService ==
  IInv /\ IInv' /\ [Next]_vars => [Service!Next]_(Service!vars)
<1> SUFFICES ASSUME IInv, IInv', [Next]_vars
             PROVE  Service!Next \/ UNCHANGED Service!vars
  OBVIOUS
<1> USE DEF IInv, TypeOK
<1>1. ASSUME NEW r \in Requests, NEW d \in Datagrams, Accept(r, d)
      PROVE  Service!Accept(r, d)
  <2>1. phaseBar' = [phaseBar EXCEPT ![r] = "pending"]
    BY <1>1, PhaseMoves DEF Accept, InFlight
  <2>2. phaseBar[r] = "idle" BY <1>1 DEF Accept, phaseBar
  <2>3. QED BY <1>1, <2>1, <2>2
    DEF Accept, Service!Accept, Acceptable, Service!Acceptable
<1>2. ASSUME NEW r \in Requests, NEW d \in Datagrams, Discard(r, d)
      PROVE  Service!Discard(r, d)
  <2>1. reply'[r] = NoReply BY <1>2 DEF Discard, Untouched
  <2>2. phaseBar' = [phaseBar EXCEPT ![r] = "silent"]
    BY <1>2, <2>1, PhaseMoves DEF Discard, InFlight, Asking
  <2>3. phaseBar[r] = "idle" BY <1>2 DEF Discard, phaseBar
  <2>4. QED BY <1>2, <2>2, <2>3
    DEF Discard, Service!Discard, Acceptable, Service!Acceptable
<1>3. ASSUME NEW r \in Requests, ServiceFails(r)
      PROVE  Service!Fail(r)
  <2>1. phaseBar' = [phaseBar EXCEPT ![r] = "pending"]
    BY <1>3, PhaseMoves DEF ServiceFails, Decide, Settled, InFlight
  <2>2. phaseBar[r] = "pending"
    BY <1>3 DEF ServiceFails, phaseBar, InFlight, Asking
  <2>3. phaseBar' = phaseBar BY <2>1, <2>2 DEF phaseBar
  <2>4. QED BY <1>3, <2>2, <2>3 DEF ServiceFails, Settled, Service!Fail
<1>4. ASSUME NEW r \in Requests, SendReply(r)
      PROVE  Service!Answer(r)
  <2>1. ReplyTo(packet[r]) # NoReply
    BY <1>4, ReplyType DEF SendReply, Running, InFlight
  <2>2. phaseBar' = [phaseBar EXCEPT ![r] = "answered"]
    BY <1>4, <2>1, PhaseMoves DEF SendReply, InFlight, Asking
  <2>3. phaseBar[r] = "pending" BY <1>4 DEF SendReply, phaseBar, InFlight
  <2>4. SendBootFileName => MayBoot(seen[r], fault[r])
    BY <1>4 DEF SendReply, CanReply, Excused
  <2>5. QED
    BY <1>4, <2>2, <2>3, <2>4, SamePolicy DEF SendReply, CanReply, Service!Answer,
       MayBoot, Service!MayBoot
<1>5. ASSUME NEW r \in Requests, StaySilent(r)
      PROVE  Service!Decline(r)
  <2>1. reply'[r] = NoReply
    BY <1>5 DEF StaySilent, Running, InFlight
  <2>2. phaseBar' = [phaseBar EXCEPT ![r] = "silent"]
    BY <1>5, <2>1, PhaseMoves DEF StaySilent, InFlight, Asking
  <2>3. phaseBar[r] = "pending" BY <1>5 DEF StaySilent, phaseBar, InFlight
  <2>4. \/ ~Answerable(packet[r]) \/ socket = "closed"
        \/ SendBootFileName /\ MayWithhold(seen[r], fault[r])
    BY <1>5, InventoryAssumption DEF StaySilent, CanReply, Excused
  <2>5. QED
    BY <1>5, <2>2, <2>3, <2>4, SamePolicy DEF StaySilent, Service!Decline,
       MayWithhold, Service!MayWithhold
<1>6. ASSUME NEW m \in Macs, NEW s \in NodeStates, NodeChanges(m, s)
      PROVE  Service!NodeChanges(m, s)
  <2>1. phaseBar' = phaseBar BY <1>6 DEF NodeChanges, chainVars, phaseBar
  <2>2. \A r \in Requests : phaseBar[r] = "pending" <=> pc[r] \in InFlight
    BY DEF phaseBar, InFlight, Asking
  <2>3. QED
    BY <1>6, <2>1, <2>2 DEF NodeChanges, chainVars, Service!NodeChanges
<1>7. CASE Stop
  <2>1. phaseBar' = phaseBar BY <1>7 DEF Stop, chainVars, phaseBar
  <2>2. QED BY <1>7, <2>1 DEF Stop, chainVars, Service!Stop, Service!Next
<1>8. CASE UNCHANGED vars
  BY <1>8 DEF vars, Service!vars, phaseBar
<1>9. QED
  BY <1>1, <1>2, <1>3, <1>4, <1>5, <1>6, <1>7, <1>8, ThinkingStutters
  DEF Next, ChainStep, Service!Next

\* Every behaviour of the promise chains is one the service promises.
THEOREM Implements == Spec => KeepsServicePromise
BY InitService, StepService, Invariance, PTL
DEF Spec, KeepsServicePromise, Service!Spec
=============================================================================
