----------------------------- MODULE BootService ----------------------------
(***************************************************************************)
(* What the proxy promises a booting machine, with no promise chain in it: *)
(* a datagram is discarded at once or becomes pending; a pending one is    *)
(* settled once, by the one answer its own fields determine or by silence; *)
(* and either verdict must be excused by what the inventory said about the *)
(* machine, or by a service that failed, while the datagram was pending.   *)
(***************************************************************************)
EXTENDS Inventory

VARIABLES
  phase,    \* idle, pending, answered or silent, per request
  packet,   \* the datagram of each request
  reply,    \* the answer to each request
  nodes,    \* the inventory, owned by other RackHD services
  seen,     \* states the machine's record was in while the request was pending
  fault,    \* did a service call made for the request fail?
  socket

vars == <<phase, packet, reply, nodes, seen, fault, socket>>

Init ==
  /\ phase = [r \in Requests |-> "idle"]
  /\ packet = [r \in Requests |-> NoPacket]
  /\ reply = [r \in Requests |-> NoReply]
  /\ nodes \in [Macs -> NodeStates]
  /\ seen = [r \in Requests |-> {}]
  /\ fault = [r \in Requests |-> FALSE]
  /\ socket = "open"

Accept(r, d) ==
  /\ phase[r] = "idle" /\ socket = "open" /\ Acceptable(d)
  /\ phase' = [phase EXCEPT ![r] = "pending"]
  /\ packet' = [packet EXCEPT ![r] = d]
  /\ seen' = [seen EXCEPT ![r] = {nodes[d.mac]}]
  /\ UNCHANGED <<reply, nodes, fault, socket>>

Discard(r, d) ==
  /\ phase[r] = "idle" /\ socket = "open" /\ ~Acceptable(d)
  /\ phase' = [phase EXCEPT ![r] = "silent"]
  /\ packet' = [packet EXCEPT ![r] = d]
  /\ UNCHANGED <<reply, nodes, seen, fault, socket>>

Fail(r) ==
  /\ phase[r] = "pending"
  /\ fault' = [fault EXCEPT ![r] = TRUE]
  /\ UNCHANGED <<phase, packet, reply, nodes, seen, socket>>

Answer(r) ==
  /\ phase[r] = "pending" /\ socket = "open"
  /\ Answerable(packet[r])
  /\ SendBootFileName => MayBoot(seen[r], fault[r])
  /\ phase' = [phase EXCEPT ![r] = "answered"]
  /\ reply' = [reply EXCEPT ![r] = ReplyTo(packet[r])]
  /\ UNCHANGED <<packet, nodes, seen, fault, socket>>

Decline(r) ==
  /\ phase[r] = "pending"
  /\ \/ ~Answerable(packet[r])
     \/ socket = "closed"
     \/ SendBootFileName /\ MayWithhold(seen[r], fault[r])
  /\ phase' = [phase EXCEPT ![r] = "silent"]
  /\ UNCHANGED <<packet, reply, nodes, seen, fault, socket>>

NodeChanges(m, s) ==
  /\ nodes' = [nodes EXCEPT ![m] = s]
  /\ seen' = [r \in Requests |->
                IF phase[r] = "pending" /\ packet[r].mac = m
                THEN seen[r] \cup {s} ELSE seen[r]]
  /\ UNCHANGED <<phase, packet, reply, fault, socket>>

Stop ==
  /\ socket' = "closed"
  /\ UNCHANGED <<phase, packet, reply, nodes, seen, fault>>

Next ==
  \/ \E r \in Requests :
       \/ \E d \in Datagrams : Accept(r, d) \/ Discard(r, d)
       \/ Fail(r) \/ Answer(r) \/ Decline(r)
  \/ \E m \in Macs, s \in NodeStates : NodeChanges(m, s)
  \/ Stop

Spec == Init /\ [][Next]_vars
=============================================================================
