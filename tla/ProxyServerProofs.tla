-------------------------- MODULE ProxyServerProofs --------------------------
(***************************************************************************)
(* The proxy's process adds nothing to its handler, and its socket and its *)
(* poller are as a handled datagram and an answer need them.               *)
(***************************************************************************)
EXTENDS ProxyServer, TLAPS

\* What a request that was taken up says of the process around it.
LifeInv ==
  /\ process = "started" => poller = IF Active THEN "polling" ELSE "idle"
  /\ \A r \in Requests :
       /\ pc[r] # "free" =>
            /\ process \in {"started", "exiting", "exited"}
            /\ poller = IF Active THEN "polling" ELSE "idle"
       /\ pc[r] \in InFlight /\ socket = "open" => bound = "listening"
  /\ pc \in [Requests -> {"free", "done"} \cup InFlight]

\* Before core has started nothing has been taken up.
LEMMA InitLifeInv == ProxyInit => LifeInv
BY DEF ProxyInit, Init, LifeInv, InFlight, Asking

\* Only the message event takes a request up, and a callback that ends a
\* chain does so for good.
LEMMA CallbackMoves ==
  ASSUME NEW r \in Requests, ChainStep(r), LifeInv
  PROVE  /\ pc[r] \in InFlight /\ socket' = socket
         /\ pc' \in [Requests -> {"free", "done"} \cup InFlight]
         /\ \A q \in Requests : pc'[q] # pc[q] =>
              q = r /\ pc'[q] \in InFlight \cup {"done"}
<1>1. \E next \in InFlight \cup {"done"} : pc' = [pc EXCEPT ![r] = next]
  BY DEF ChainStep, ReadConfig, LookupAnswers, DiscoveredAnswers, TaskAnswers,
         ProfileAnswers, ServiceFails, SendReply, StaySilent, Ask, Decide,
         InFlight, Asking
<1>2. pc[r] \in InFlight /\ socket' = socket
  BY DEF ChainStep, ReadConfig, LookupAnswers, DiscoveredAnswers, TaskAnswers,
         ProfileAnswers, ServiceFails, SendReply, StaySilent, Settled,
         InFlight, Asking
<1>3. QED BY <1>1, <1>2 DEF LifeInv

\* Every step of the process, its socket and its chains keeps the invariant.
LEMMA NextLifeInv == LifeInv /\ [ProxyNext]_proxyVars => LifeInv'
<1> SUFFICES ASSUME LifeInv, [ProxyNext]_proxyVars PROVE LifeInv'
  OBVIOUS
<1>1. CASE Startup \/ Listening \/ SocketError \/ Exit
  <2>1. pc' = pc /\ socket' = socket
    BY <1>1 DEF Startup, CoreFails, Start, StartFails, Listening, SocketError,
                Exit, vars
  <2>2. CASE Startup
    <3>1. \A r \in Requests : pc[r] = "free"
      BY <2>2 DEF Startup, CoreFails, Start, StartFails, LifeInv
    <3>2. QED
      BY <2>1, <2>2, <3>1 DEF Startup, CoreFails, Start, StartFails, LifeInv,
                              InFlight, Asking
  <2>3. CASE Listening \/ SocketError
    BY <2>1, <2>3 DEF Listening, SocketError, Alive, LifeInv
  <2>4. CASE Exit
    BY <2>1, <2>4 DEF Exit, LifeInv
  <2>5. QED BY <1>1, <2>2, <2>3, <2>4
<1>2. CASE StopServer
  BY <1>2 DEF StopServer, Stop, LifeInv, chainVars
<1>3. ASSUME NEW r \in Requests, NEW d \in Datagrams, Message(r, d)
      PROVE  LifeInv'
  <2>1. /\ \E next \in {"chain", "done"} : pc' = [pc EXCEPT ![r] = next]
        /\ process = "started" /\ bound = "listening" /\ UNCHANGED lifeVars
    BY <1>3 DEF Message, Accept, Discard
  <2>2. QED BY <2>1 DEF LifeInv, lifeVars, InFlight, Asking
<1>4. ASSUME NEW r \in Requests, Callback(r) PROVE LifeInv'
  <2>1. ChainStep(r) /\ UNCHANGED lifeVars BY <1>4 DEF Callback
  <2>2. pc[r] # "free" BY <2>1, CallbackMoves DEF InFlight, Asking
  <2>3. QED BY <2>1, <2>2, CallbackMoves DEF LifeInv, lifeVars
<1>5. ASSUME NEW m \in Macs, NEW s \in NodeStates, RecordChanges(m, s)
      PROVE  LifeInv'
  BY <1>5 DEF RecordChanges, NodeChanges, chainVars, lifeVars, LifeInv
<1>6. CASE UNCHANGED proxyVars
  BY <1>6 DEF proxyVars, vars, lifeVars, LifeInv
<1>7. QED BY <1>1, <1>2, <1>3, <1>4, <1>5, <1>6 DEF ProxyNext

\* A datagram is only ever handled by a process that was started whole.
THEOREM StartedWhole == ProxySpec => []WholeStart
<1>1. LifeInv => WholeStart BY DEF LifeInv, WholeStart
<1>2. QED BY <1>1, InitLifeInv, NextLifeInv, PTL DEF ProxySpec

\* An answer leaves only a socket that is bound and not closed.
THEOREM AnswersHeard == ProxySpec => AnswersWhileListening
<1>1. LifeInv /\ [ProxyNext]_proxyVars =>
        [reply' # reply => Alive /\ bound = "listening"]_proxyVars
  <2> SUFFICES ASSUME LifeInv, ProxyNext, reply' # reply
               PROVE  Alive /\ bound = "listening"
    OBVIOUS
  <2>1. PICK r \in Requests : Callback(r)
    BY DEF ProxyNext, Startup, CoreFails, Start, StartFails, Listening,
           SocketError, Exit, StopServer, Stop, Message, Accept, Discard,
           RecordChanges, NodeChanges, vars, chainVars
  <2>2. pc[r] = "decided" /\ socket = "open"
    BY <2>1 DEF Callback, ChainStep, ReadConfig, LookupAnswers,
           DiscoveredAnswers, TaskAnswers, ProfileAnswers, ServiceFails,
           SendReply, StaySilent, Settled, CanReply
  <2>3. QED BY <2>1, <2>2 DEF LifeInv, Callback, InFlight
<1>2. QED BY <1>1, InitLifeInv, NextLifeInv, PTL
  DEF ProxySpec, AnswersWhileListening

\* Every behaviour of the proxy is one of its handler: the theorems of
\* MessageHandlerProofs are theorems about the proxy.
THEOREM HandlerRefined == ProxySpec => HandlerInProcess
<1>1. ProxyInit => Init BY DEF ProxyInit
<1>2. [ProxyNext]_proxyVars => [Next]_vars
  <2> SUFFICES ASSUME [ProxyNext]_proxyVars PROVE [Next]_vars
    OBVIOUS
  <2>1. CASE Startup \/ Listening \/ SocketError \/ Exit
    BY <2>1 DEF Startup, CoreFails, Start, StartFails, Listening, SocketError,
                Exit
  <2>2. CASE StopServer BY <2>2 DEF StopServer, Next
  <2>3. ASSUME NEW r \in Requests, NEW d \in Datagrams, Message(r, d)
        PROVE  Next
    BY <2>3 DEF Message, Next
  <2>4. ASSUME NEW r \in Requests, Callback(r) PROVE Next
    BY <2>4 DEF Callback, Next
  <2>5. ASSUME NEW m \in Macs, NEW s \in NodeStates, RecordChanges(m, s)
        PROVE  Next
    BY <2>5 DEF RecordChanges, Next
  <2>6. CASE UNCHANGED proxyVars BY <2>6 DEF proxyVars
  <2>7. QED BY <2>1, <2>2, <2>3, <2>4, <2>5, <2>6 DEF ProxyNext
<1>3. QED BY <1>1, <1>2, PTL DEF ProxySpec, HandlerInProcess, Spec
=============================================================================
