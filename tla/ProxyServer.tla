----------------------------- MODULE ProxyServer -----------------------------
(***************************************************************************)
(* index.js and lib/server.js: the life of the process around the chains   *)
(* of MessageHandler.  Core starts, the server binds its socket and builds *)
(* a lease poller; an error ends the process at the next tick; stop closes *)
(* the socket and nothing else.                                            *)
(*                                                                         *)
(* What is due at the next tick comes before any datagram: a process that  *)
(* is about to exit takes up none, but a bind or a callback that was due   *)
(* first still runs.                                                       *)
(***************************************************************************)
EXTENDS MessageHandler

CONSTANT Active  \* configuration dhcpPollerActive

ASSUME ServerAssumption == Active \in BOOLEAN

VARIABLES
  process,  \* waiting for core, started, about to exit, or exited
  bound,    \* no, binding or listening
  poller    \* none, idle or polling

lifeVars == <<process, bound, poller>>
proxyVars == <<vars, lifeVars>>

ProxyInit ==
  /\ Init
  /\ process = "core"
  /\ bound = "no"
  /\ poller = "none"

Alive == process \in {"started", "exiting"}

-----------------------------------------------------------------------------
(* index.js.  Any rejection, of core or of start, ends in its catch. *)

CoreFails ==
  /\ process = "core" /\ process' = "exiting"
  /\ UNCHANGED <<vars, bound, poller>>

\* create and start: the listeners, bind, then the poller.
Start ==
  /\ process = "core" /\ process' = "started"
  /\ bound' = "binding"
  /\ poller' = IF Active THEN "polling" ELSE "idle"
  /\ UNCHANGED vars

\* Mutant: a poller that cannot be built is no reason to exit.
StartRegardless ==
  /\ process = "core" /\ process' = "started"
  /\ bound' = "binding"
  /\ UNCHANGED <<vars, poller>>

\* The poller's constructor throws on a platform it does not know, its run
\* when there is no lease file to watch; bind has been called by then.
StartFails ==
  /\ process = "core" /\ process' = "exiting"
  /\ bound' = "binding"
  /\ UNCHANGED <<vars, poller>>

Exit ==
  /\ process = "exiting" /\ process' = "exited"
  /\ UNCHANGED <<vars, bound, poller>>

-----------------------------------------------------------------------------
(* The socket. *)

\* The callback of bind, which also switches broadcasting on.
Listening ==
  /\ Alive /\ bound = "binding" /\ socket = "open"
  /\ bound' = "listening"
  /\ UNCHANGED <<vars, process, poller>>

\* Mutant: an error of the socket is logged like one of send.
SocketErrorLogged ==
  /\ Alive /\ bound # "no" /\ socket = "open"
  /\ bound' = IF bound = "binding" THEN "no" ELSE bound
  /\ UNCHANGED <<vars, process, poller>>

\* The error event: bind has failed, or the bound socket has.
SocketError ==
  /\ Alive /\ bound # "no" /\ socket = "open"
  /\ process' = "exiting"
  /\ bound' = IF bound = "binding" THEN "no" ELSE bound
  /\ UNCHANGED <<vars, poller>>

\* Mutant: a datagram the socket has received is handled after stop.
MessageAnyway(r, d) ==
  /\ process = "started" /\ (socket = "open" => bound = "listening")
  /\ pc[r] = "free" /\ Acceptable(d)
  /\ pc' = [pc EXCEPT ![r] = "chain"]
  /\ packet' = [packet EXCEPT ![r] = d]
  /\ seen' = [seen EXCEPT ![r] = {nodes[d.mac]}]
  /\ UNCHANGED <<doc, allow, reply, nodes, fault, socket, lifeVars>>

\* The message event.
Message(r, d) ==
  /\ process = "started" /\ bound = "listening"
  /\ Accept(r, d) \/ Discard(r, d)
  /\ UNCHANGED lifeVars

\* Mutant: stop removes the listeners and leaves the socket open.
StopListening ==
  /\ process = "started" /\ socket = "open"
  /\ bound' = "no"
  /\ UNCHANGED <<vars, process, poller>>

\* Also before bind has called back, which then never happens.
StopServer ==
  /\ process = "started" /\ Stop
  /\ bound' = "no"
  /\ UNCHANGED <<process, poller>>

-----------------------------------------------------------------------------

Callback(r) == Alive /\ ChainStep(r) /\ UNCHANGED lifeVars

\* The other services outlive the process.
RecordChanges(m, s) == NodeChanges(m, s) /\ UNCHANGED lifeVars

Startup == CoreFails \/ Start \/ StartFails

ProxyNext ==
  \/ Startup \/ Listening \/ SocketError \/ StopServer \/ Exit
  \/ \E r \in Requests :
       Callback(r) \/ \E d \in Datagrams : Message(r, d)
  \/ \E m \in Macs, s \in NodeStates : RecordChanges(m, s)

ProxySpec == ProxyInit /\ [][ProxyNext]_proxyVars

\* Core starts or fails to, a bind is called back or fails, ticks pass, and
\* callbacks run; nothing is assumed of datagrams, errors or stop.
ProxyFairSpec ==
  /\ ProxySpec
  /\ WF_proxyVars(Startup) /\ WF_proxyVars(Listening) /\ WF_proxyVars(Exit)
  /\ \A r \in Requests : WF_proxyVars(Callback(r))

-----------------------------------------------------------------------------
(* Properties. *)

\* A start that fails half-way leaves a bound socket with its listeners
\* behind, but no datagram is ever taken up by it: the process that handles
\* one has its poller, running if it is to.
WholeStart ==
  \A r \in Requests :
    pc[r] # "free" => poller = IF Active THEN "polling" ELSE "idle"

\* Whatever chain ends after whatever event of the socket, an answer is only
\* sent by a server that is listening.
AnswersWhileListening ==
  [][reply' # reply => Alive /\ bound = "listening"]_proxyVars

\* Within its process the handler is what MessageHandler says, so all that is
\* shown of the chains holds of the proxy.
HandlerInProcess == Spec

\* The proxy comes up or the process ends: it is never left half-started,
\* unless it is stopped meanwhile.
StartupSettles ==
  process = "core" ~>
    bound = "listening" \/ process = "exited" \/ socket = "closed"

\* A datagram taken up is settled, unless the process exits under its chain.
SettlesOrExits ==
  \A r \in Requests :
    pc[r] \in InFlight ~> pc[r] = "done" \/ process = "exited"
=============================================================================
