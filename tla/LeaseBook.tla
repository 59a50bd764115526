------------------------------ MODULE LeaseBook ------------------------------
(***************************************************************************)
(* What the lease poller promises the lookup service, with no file and no  *)
(* promise queue in it: a book of addresses, written by nobody else here,  *)
(* and the leases that still wait to be written.  A lease is granted only  *)
(* while the poller runs; the oldest one waiting is written or lost before *)
(* the next.                                                               *)
(***************************************************************************)
EXTENDS Naturals, Sequences

CONSTANT Leases  \* leases that may be granted: records with an ip and a mac

VARIABLES
  poller,   \* off, running or cleaned up
  waiting,  \* leases granted and neither written nor lost, oldest first
  book      \* the address of each machine that has one

vars == <<poller, waiting, book>>

Init == poller = "off" /\ waiting = <<>> /\ book = <<>>

Open ==
  /\ poller = "off" /\ poller' = "running"
  /\ UNCHANGED <<waiting, book>>

Close ==
  /\ poller # "cleaned" /\ poller' = "cleaned"
  /\ UNCHANGED <<waiting, book>>

Grant(lease) ==
  /\ poller = "running"
  /\ waiting' = waiting \o <<lease>>
  /\ UNCHANGED <<poller, book>>

\* An address replaces the one the machine had.
Entered(b, lease) ==
  [m \in DOMAIN b \cup {lease.mac} |->
     IF m = lease.mac THEN lease.ip ELSE b[m]]

Settle ==
  /\ waiting # <<>>
  /\ waiting' = Tail(waiting)
  /\ book' \in {book, Entered(book, Head(waiting))}
  /\ UNCHANGED poller

Next == Open \/ Close \/ Settle \/ \E lease \in Leases : Grant(lease)

Spec == Init /\ [][Next]_vars
=============================================================================
