----------------------------- MODULE LeasePoller -----------------------------
(***************************************************************************)
(* lib/isc-dhcp-lease-poller.js: dhcpd appends lease blocks to its file, a *)
(* Tail cuts the file at every "}" and emits the pieces, _onLine parses    *)
(* each piece and queues Services.Lookup.setIpAddress for a lease that is  *)
(* not expired, and a promise queue makes one such call at a time.         *)
(*                                                                         *)
(* A piece is the sequence of those of its lines parseLeaseData reads.     *)
(***************************************************************************)
EXTENDS Integers, Sequences

CONSTANTS
  Macs, Ips,
  NoIp,        \* no lease line was read
  Bad,         \* text that is no MAC (or IP) address
  Never,       \* the date of "ends never;"
  NoLease,     \* undefined
  Pieces,      \* what dhcpd may append
  Active,      \* configuration dhcpPollerActive
  MaxPieces,   \* bound: pieces dhcpd appends
  MaxTime      \* bound: the clock stops there

Date == Nat \cup {Never}

Lease == [ip : Ips, mac : Macs]

Line == [kind : {"lease"}, ip : Ips \cup {Bad}]
        \cup [kind : {"ends"}, at : Date]
        \cup [kind : {"hardware"}, mac : Macs \cup {Bad}]

ASSUME PollerAssumption ==
  /\ NoIp \notin Ips \cup {Bad} /\ Bad \notin Ips \cup Macs
  /\ Never \notin Nat
  /\ NoLease \notin Lease
  /\ \A piece \in Pieces : piece \in Seq(Line)
  /\ Active \in BOOLEAN
  /\ MaxPieces \in Nat /\ MaxTime \in Nat

\* A piece ends with the block it is of: if dhcpd's "lease ... {" is in it, it
\* comes first, and a block has one hardware line.
ASSUME BlockAssumption ==
  \A piece \in Pieces : \A j, k \in DOMAIN piece :
    /\ piece[k].kind = "lease" => k = 1
    /\ piece[j].kind = "hardware" /\ piece[k].kind = "hardware" => j = k

-----------------------------------------------------------------------------
(* parseLeaseData. *)

\* Mutant: a lease that ends this very moment counts as running.
EndsLaterOrNow(at, now) == at # Never /\ at >= now

\* What follows "ends" in "ends never;" is no date: it compares false.
EndsLater(at, now) == at # Never /\ at > now

Start == [ip |-> NoIp, expired |-> TRUE, lease |-> NoLease, thrown |-> FALSE]

ReadLease(st, line) == [st EXCEPT !.ip = line.ip]

ReadEnds(st, line, now) ==
  [st EXCEPT !.expired = @ /\ ~EndsLater(line.at, now)]

\* Mutant: the two assertions are missing.
ReadHardwareUnchecked(st, line) ==
  IF st.ip = NoIp THEN st
  ELSE [st EXCEPT !.lease = IF st.expired THEN @
                            ELSE [ip |-> st.ip, mac |-> line.mac],
                  !.expired = TRUE]

\* Without an address read before it, the line is passed over; an address
\* that is none makes an assertion throw.
ReadHardware(st, line) ==
  IF st.ip = NoIp THEN st
  ELSE IF st.ip = Bad \/ line.mac = Bad THEN [st EXCEPT !.thrown = TRUE]
  ELSE [st EXCEPT !.lease = IF st.expired THEN @
                            ELSE [ip |-> st.ip, mac |-> line.mac],
                  !.expired = TRUE]

ReadLine(st, line, now) ==
  IF st.thrown THEN st
  ELSE IF line.kind = "lease" THEN ReadLease(st, line)
  ELSE IF line.kind = "ends" THEN ReadEnds(st, line, now)
  ELSE ReadHardware(st, line)

\* What reduce has made of the first n lines.
Reduce(piece, now) ==
  LET st[n \in 0 .. Len(piece)] ==
        IF n = 0 THEN Start ELSE ReadLine(st[n - 1], piece[n], now)
  IN st

\* The last lease of the piece that has not expired; NoLease also when an
\* assertion threw, which _onLine logs.
parseLeaseData(piece, now) ==
  LET end == Reduce(piece, now)[Len(piece)]
  IN IF end.thrown THEN NoLease ELSE end.lease

-----------------------------------------------------------------------------

VARIABLES
  poller,  \* off, running or cleaned up
  file,    \* the pieces dhcpd has appended
  tailed,  \* how many of them the Tail has emitted
  queue,   \* leases whose setIpAddress waits in the promise queue
  call,    \* the lease whose setIpAddress is under way, <<>> or <<lease>>
  lookup,  \* the address of each machine the lookup service has one for
  now,
  heard,   \* history: what parseLeaseData returned, in order
  settled  \* history: the calls that ended, and whether they succeeded

vars == <<poller, file, tailed, queue, call, lookup, now, heard, settled>>

Init ==
  /\ poller = "off"
  /\ file = <<>> /\ tailed = 0
  /\ queue = <<>> /\ call = <<>>
  /\ lookup = <<>>
  /\ now = 0
  /\ heard = <<>> /\ settled = <<>>

\* Off by default: run does nothing then, and its promise never resolves.
\* Whether the Tail starts with what the file holds or at its end is the
\* library's affair.
Run ==
  /\ poller = "off" /\ Active
  /\ poller' = "running"
  /\ tailed' \in {0, Len(file)}
  /\ UNCHANGED <<file, queue, call, lookup, now, heard, settled>>

\* Mutant: what an assertion throws is not caught, and the piece is read again.
OnLineUncaught ==
  /\ poller = "running" /\ tailed < Len(file)
  /\ LET lease == parseLeaseData(file[tailed + 1], now)
     IN /\ lease # NoLease
        /\ tailed' = tailed + 1
        /\ queue' = Append(queue, lease)
        /\ heard' = Append(heard, [lease |-> lease, at |-> tailed',
                                  time |-> now])
  /\ UNCHANGED <<poller, file, call, lookup, now, settled>>

\* Tail and _onLine.
OnLine ==
  /\ poller = "running" /\ tailed < Len(file)
  /\ tailed' = tailed + 1
  /\ LET lease == parseLeaseData(file[tailed + 1], now)
     IN \/ lease = NoLease /\ UNCHANGED <<queue, heard>>
        \/ /\ lease # NoLease
           /\ queue' = Append(queue, lease)
           /\ heard' = Append(heard, [lease |-> lease, at |-> tailed',
                                      time |-> now])
  /\ UNCHANGED <<poller, file, call, lookup, now, settled>>

\* The promise queue makes the next call when none is under way.
CallNext ==
  /\ poller = "running" /\ call = <<>> /\ queue # <<>>
  /\ call' = <<Head(queue)>> /\ queue' = Tail(queue)
  /\ UNCHANGED <<poller, file, tailed, lookup, now, heard, settled>>

\* The address is entered, or replaces the one the machine had.
SetIpAddressResolves ==
  /\ call # <<>>
  /\ lookup' = [m \in DOMAIN lookup \cup {call[1].mac} |->
                  IF m = call[1].mac THEN call[1].ip ELSE lookup[m]]
  /\ settled' = Append(settled, [lease |-> call[1], ok |-> TRUE])
  /\ call' = <<>>
  /\ UNCHANGED <<poller, file, tailed, queue, now, heard>>

\* Mutant: _queueError puts the call back, behind the leases heard since.
SetIpAddressRequeues ==
  /\ call # <<>>
  /\ queue' = queue \o call
  /\ call' = <<>>
  /\ UNCHANGED <<poller, file, tailed, lookup, now, heard, settled>>

\* _queueError logs it; the call is not made again.
SetIpAddressFails ==
  /\ call # <<>>
  /\ settled' = Append(settled, [lease |-> call[1], ok |-> FALSE])
  /\ call' = <<>>
  /\ UNCHANGED <<poller, file, tailed, queue, lookup, now, heard>>

\* Mutant: the queue is dropped along with the Tail.
CleanupDropsQueue ==
  /\ poller' = "cleaned" /\ poller # "cleaned"
  /\ queue' = <<>>
  /\ UNCHANGED <<file, tailed, call, lookup, now, heard, settled>>

\* The Tail is unwatched and the queue stopped; a call under way goes on.
Cleanup ==
  /\ poller' = "cleaned" /\ poller # "cleaned"
  /\ UNCHANGED <<file, tailed, queue, call, lookup, now, heard, settled>>

\* dhcpd, and time.
AppendPiece(piece) ==
  /\ Len(file) < MaxPieces
  /\ file' = Append(file, piece)
  /\ UNCHANGED <<poller, tailed, queue, call, lookup, now, heard, settled>>

Tick ==
  /\ now < MaxTime /\ now' = now + 1
  /\ UNCHANGED <<poller, file, tailed, queue, call, lookup, heard, settled>>

Next ==
  \/ Run \/ OnLine \/ CallNext \/ SetIpAddressResolves \/ SetIpAddressFails
  \/ Cleanup \/ Tick
  \/ \E piece \in Pieces : AppendPiece(piece)

Spec == Init /\ [][Next]_vars

\* Watching the file, the queue's dispatch and the lookup service's answers
\* go on; nobody need append, clean up or start the poller.
FairSpec ==
  /\ Spec
  /\ WF_vars(OnLine) /\ WF_vars(CallNext)
  /\ WF_vars(SetIpAddressResolves \/ SetIpAddressFails)

-----------------------------------------------------------------------------
(* Properties. *)

\* Every variable keeps to its set of values; in particular nothing but an
\* address of a machine is queued, whatever the lease file says.
TypeOK ==
  /\ poller \in {"off", "running", "cleaned"}
  /\ file \in Seq(Seq(Line)) /\ tailed \in 0 .. Len(file)
  /\ queue \in Seq(Lease) /\ call \in Seq(Lease) /\ Len(call) <= 1
  /\ DOMAIN lookup \subseteq Macs /\ \A m \in DOMAIN lookup : lookup[m] \in Ips
  /\ now \in 0 .. MaxTime
  /\ heard \in Seq([lease : Lease, at : Nat, time : Nat])
  /\ settled \in Seq([lease : Lease, ok : BOOLEAN])

LeasesOf(s) == [k \in DOMAIN s |-> s[k].lease]

\* Between the Tail and the lookup service no lease is lost, doubled or
\* overtaken, whenever a call fails or the poller is cleaned up: what was
\* heard is what has been settled, is under way and waits, in that order.
NothingLostInQueue ==
  LeasesOf(heard) = LeasesOf(settled) \o call \o queue

\* The piece gives the machine mac the address ip until a date after t: a
\* lease line, an end and a hardware line, in this order and in one block.
Grants(piece, lease, t) ==
  \E a, b, c \in DOMAIN piece :
    /\ a < b /\ b < c
    /\ piece[a] = [kind |-> "lease", ip |-> lease.ip]
    /\ piece[b].kind = "ends" /\ piece[b].at # Never /\ piece[b].at > t
    /\ piece[c] = [kind |-> "hardware", mac |-> lease.mac]
    /\ \A k \in a + 1 .. c : piece[k].kind # "lease"

\* Of each piece, _onLine takes up exactly the lease that has an end still to
\* come when the piece is read: one, none for a lease that is over, has no
\* machine, or names no valid address, and never a lease of an earlier piece.
TakesUpLiveLeases ==
  [][poller = "running" /\ tailed' = tailed + 1 =>
       LET piece == file[tailed']
           granted == {l \in Lease : Grants(piece, l, now)}
       IN IF granted = {} THEN heard' = heard
          ELSE \E l \in granted :
                 LeasesOf(heard') = Append(LeasesOf(heard), l)]_vars

\* isc-dhcp-lease-poller.js:201, "Checks to see if the lease is not expired":
\* a lease whose block says "ends never;" is not expired either.
TakesUpEndlessLeases ==
  [][poller = "running" /\ tailed' = tailed + 1 =>
       \A l \in Lease :
         file[tailed'] = <<[kind |-> "lease", ip |-> l.ip],
                           [kind |-> "ends", at |-> Never],
                           [kind |-> "hardware", mac |-> l.mac]>>
         => heard' # heard]_vars

\* When no lease waits, the lookup service has for each machine the address
\* of the last lease of it whose call did not fail.
LookupIsCurrent ==
  queue = <<>> /\ call = <<>> =>
    \A k \in DOMAIN heard :
      LET mac == heard[k].lease.mac
      IN settled[k].ok =>
           \/ mac \in DOMAIN lookup /\ lookup[mac] = heard[k].lease.ip
           \/ \E j \in k + 1 .. Len(heard) :
                settled[j].ok /\ heard[j].lease.mac = mac

\* The poller with its file, its Tail and its queue does what LeaseBook says:
\* the lookup service is only ever told of the oldest lease that waits.
Leases == {parseLeaseData(piece, t) : piece \in Pieces, t \in 0 .. MaxTime}

Book == INSTANCE LeaseBook WITH waiting <- call \o queue, book <- lookup,
                                Leases <- Leases \ {NoLease}

KeepsBook == Book!Spec

\* While the poller is not cleaned up it catches up with the file: every piece
\* is read and every lease heard is settled, one way or the other.
CatchesUp ==
  \A n \in 1 .. MaxPieces :
    poller = "running" /\ Len(file) >= n
    ~> poller = "cleaned" \/ (tailed >= n /\ Len(settled) = Len(heard))
=============================================================================
