----------------------------- MODULE Inventory -----------------------------
(***************************************************************************)
(* What the proxy can learn about a machine from the other RackHD          *)
(* services, and which verdicts on a boot file that information excuses.   *)
(* Shared by the abstract BootService and the detailed MessageHandler.     *)
(***************************************************************************)
EXTENDS BootPolicy

CONSTANTS
  Requests,          \* one identity per datagram received
  Datagrams,         \* the datagrams that may arrive
  NodeStates,        \* the states a machine's record passes through
  SendBootFileName,  \* configuration dhcpSendBootFileName
  NoPacket, NoReply

\* known: the lookup finds a node for the address; discovered: it has a
\* catalog; task: an active task exists; profile: that task has a profile;
\* bootSettings: the node document has that property.
NodeState == [known : BOOLEAN, discovered : BOOLEAN, task : BOOLEAN,
              profile : BOOLEAN, bootSettings : BOOLEAN]

\* A machine nobody knows has not been discovered.
ASSUME InventoryAssumption ==
  /\ Datagrams \subseteq Datagram
  /\ NodeStates \subseteq NodeState
  /\ \A s \in NodeStates : s.discovered => s.known
  /\ SendBootFileName \in BOOLEAN
  /\ NoPacket \notin Datagram
  /\ NoReply \notin Reply

\* The two verdicts given the set S of states the record was in while the
\* request was pending, and whether a service call made for it failed (f).
\*
\* A boot file may be named: the machine was unknown, or not discovered yet,
\* or had a task and a profile, or had boot settings and (as far as could be
\* told) no task.
MayBoot(S, f) ==
  \/ \E s \in S : ~s.known \/ ~s.discovered
  \/ (\E s \in S : s.task) /\ (\E s \in S : s.profile)
  \/ (\E s \in S : s.known /\ s.bootSettings) /\ (f \/ \E s \in S : ~s.task)

\* It may be withheld: a service failed, or the machine was discovered and
\* had a task without a profile, or neither task nor boot settings.
MayWithhold(S, f) ==
  \/ f
  \/ /\ \E s \in S : s.discovered
     /\ \/ (\E s \in S : s.task) /\ (\E s \in S : ~s.profile)
        \/ (\E s \in S : ~s.task) /\ (\E s \in S : s.known /\ ~s.bootSettings)
=============================================================================
