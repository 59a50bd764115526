------------------------- MODULE LeasePollerProofs -------------------------
(***************************************************************************)
(* No lease is lost, doubled or overtaken between the Tail and the lookup  *)
(* service, which is left with the last address it took: for every lease   *)
(* file and every pattern of failing calls.                                *)
(***************************************************************************)
EXTENDS LeasePoller, Recursion, SequenceTheorems, TLAPS

-----------------------------------------------------------------------------
(* What reduce computes. *)

State == [ip : Ips \cup {Bad, NoIp}, expired : BOOLEAN,
          lease : Lease \cup {NoLease}, thrown : BOOLEAN]

\* reduce starts in a state,
LEMMA StartTyped == Start \in State
BY DEF Start, State

\* and a line leads from one state to another: an address that is none never
\* gets into a lease.
LEMMA ReadLineTyped ==
  ASSUME NEW st \in State, NEW line \in Line, NEW t \in Nat
  PROVE  ReadLine(st, line, t) \in State
<1>1. CASE st.thrown BY <1>1 DEF ReadLine
<1>2. CASE ~st.thrown /\ line.kind = "lease"
  <2>1. line.ip \in Ips \cup {Bad} BY <1>2 DEF Line
  <2>2. QED BY <1>2, <2>1 DEF ReadLine, ReadLease, State
<1>3. CASE ~st.thrown /\ line.kind = "ends"
  <2>1. (st.expired /\ ~EndsLater(line.at, t)) \in BOOLEAN BY DEF State
  <2>2. QED BY <1>3, <2>1 DEF ReadLine, ReadEnds, State
<1>4. CASE ~st.thrown /\ line.kind = "hardware"
  <2>1. line.mac \in Macs \cup {Bad} BY <1>4 DEF Line
  <2>2. ReadLine(st, line, t) = ReadHardware(st, line)
    BY <1>4 DEF ReadLine
  <2>3. CASE st.ip = NoIp BY <2>2, <2>3 DEF ReadHardware
  <2>4. CASE st.ip # NoIp /\ (st.ip = Bad \/ line.mac = Bad)
    BY <2>2, <2>4 DEF ReadHardware, State
  <2>5. CASE st.ip # NoIp /\ st.ip # Bad /\ line.mac # Bad
    <3>1. [ip |-> st.ip, mac |-> line.mac] \in Lease
      BY <2>1, <2>5 DEF Lease, State
    <3>2. QED BY <2>2, <2>5, <3>1 DEF ReadHardware, State
  <2>6. QED BY <2>3, <2>4, <2>5
<1>5. QED BY <1>1, <1>2, <1>3, <1>4 DEF Line

\* reduce is what its definition says, and every state of it is typed.
LEMMA ReduceIs ==
  ASSUME NEW piece \in Seq(Line), NEW t \in Nat
  PROVE  /\ Reduce(piece, t) \in [0 .. Len(piece) -> State]
         /\ Reduce(piece, t)[0] = Start
         /\ \A n \in 1 .. Len(piece) :
              Reduce(piece, t)[n] =
                ReadLine(Reduce(piece, t)[n - 1], piece[n], t)
<1> DEFINE N == Len(piece)
           step == [x \in State \X (1 .. N) |->
                      ReadLine(x[1], piece[x[2]], t)]
           Is(g) == g = [n \in 0 .. N |->
                           IF n = 0 THEN Start
                           ELSE ReadLine(g[n - 1], piece[n], t)]
<1>1. N \in Nat /\ \A n \in 1 .. N : piece[n] \in Line
  BY LenProperties, ElementOfSeq
<1>2. step \in [State \X (1 .. N) -> State] BY <1>1, ReadLineTyped
<1>3. \A st \in State, n \in 1 .. N :
        step[<<st, n>>] = ReadLine(st, piece[n], t)
  OBVIOUS
<1> HIDE DEF step, N
<1>4. PICK g \in [0 .. N -> State] :
        g[0] = Start /\ \A n \in 1 .. N : g[n] = step[<<g[n - 1], n>>]
  <2>1. \E g : Iterates(g, State, Start, N, step)
    BY <1>1, <1>2, StartTyped, Iteration
  <2>2. QED BY <2>1 DEF Iterates
<1>5. \A n \in 1 .. N : g[n] = ReadLine(g[n - 1], piece[n], t)
  <2> SUFFICES ASSUME NEW n \in 1 .. N
               PROVE  g[n] = ReadLine(g[n - 1], piece[n], t)
    OBVIOUS
  <2>1. n - 1 \in 0 .. N BY <1>1
  <2>2. g[n - 1] \in State BY <2>1
  <2>3. QED BY <1>3, <1>4, <2>2
<1>6. Is(g)
  <2> DEFINE h == [n \in 0 .. N |-> IF n = 0 THEN Start
                                   ELSE ReadLine(g[n - 1], piece[n], t)]
  <2>1. \A n \in 0 .. N : g[n] = h[n] BY <1>1, <1>4, <1>5
  <2>2. DOMAIN g = 0 .. N /\ DOMAIN h = 0 .. N OBVIOUS
  <2>3. g = [n \in 0 .. N |-> g[n]] OBVIOUS
  <2>4. g = h BY <2>1, <2>3
  <2>5. QED BY <2>4
<1>7. Reduce(piece, t) = CHOOSE f : Is(f) BY DEF Reduce, N
<1>8. Is(Reduce(piece, t)) BY <1>6, <1>7
<1> DEFINE f == Reduce(piece, t)
<1> HIDE DEF f
<1>9. f = [n \in 0 .. N |-> IF n = 0 THEN Start
                            ELSE ReadLine(f[n - 1], piece[n], t)]
  BY <1>8 DEF f
<1>10. /\ f[0] = Start
       /\ \A n \in 1 .. N : f[n] = ReadLine(f[n - 1], piece[n], t)
       /\ DOMAIN f = 0 .. N /\ f = [n \in 0 .. N |-> f[n]]
  BY <1>1, <1>9
<1>11. \A n \in 0 .. N : f[n] \in State
  <2> DEFINE Good == {n \in 0 .. N : f[n] \in State}
  <2>1. 0 \in Good BY <1>1, <1>10, StartTyped
  <2>2. \A n \in 0 .. N - 1 : n \in Good => n + 1 \in Good
    <3> SUFFICES ASSUME NEW n \in 0 .. N - 1, f[n] \in State
                 PROVE  f[n + 1] \in State
      BY <1>1
    <3>1. n + 1 \in 1 .. N /\ (n + 1) - 1 = n BY <1>1
    <3>2. f[n + 1] = ReadLine(f[n], piece[n + 1], t) BY <1>10, <3>1
    <3>3. QED BY <1>1, <3>1, <3>2, ReadLineTyped DEF N
  <2>3. \A n \in 0 .. N : n \in Good BY <1>1, <2>1, <2>2, BoundedInduction
  <2>4. QED BY <2>3
<1>12. f \in [0 .. N -> State] BY <1>10, <1>11
<1>13. QED BY <1>10, <1>12 DEF f, N

\* Only an address of a machine comes out of a piece, whatever is in it.
LEMMA ParsedTyped ==
  ASSUME NEW piece \in Seq(Line), NEW t \in Nat
  PROVE  parseLeaseData(piece, t) \in Lease \cup {NoLease}
<1> DEFINE end == Reduce(piece, t)[Len(piece)]
<1>1. end \in State BY ReduceIs, LenProperties
<1>2. end.lease \in Lease \cup {NoLease} BY <1>1 DEF State
<1>3. QED BY <1>2 DEF parseLeaseData

-----------------------------------------------------------------------------
(* The queue. *)

Heard   == [lease : Lease, at : Nat, time : Nat]
Settled == [lease : Lease, ok : BOOLEAN]

\* The invariant, with the types it needs.
IInv ==
  /\ poller \in {"off", "running", "cleaned"}
  /\ file \in Seq(Seq(Line)) /\ tailed \in 0 .. Len(file)
  /\ now \in 0 .. MaxTime
  /\ queue \in Seq(Lease)
  /\ call = <<>> \/ \E lease \in Lease : call = <<lease>>
  /\ DOMAIN lookup \subseteq Macs /\ \A m \in DOMAIN lookup : lookup[m] \in Ips
  /\ heard \in Seq(Heard) /\ settled \in Seq(Settled)
  /\ NothingLostInQueue

\* The leases of a sequence of history records are a sequence of leases.
LEMMA LeasesType ==
  ASSUME NEW P, NEW R, NEW s \in Seq(R), \A e \in R : e.lease \in P
  PROVE  LeasesOf(s) \in Seq(P)
<1>1. /\ Len(s) \in Nat /\ DOMAIN s = 1 .. Len(s)
      /\ \A k \in 1 .. Len(s) : s[k] \in R
  BY LenProperties, ElementOfSeq
<1>2. LeasesOf(s) \in [1 .. Len(s) -> P] BY <1>1 DEF LeasesOf
<1>3. QED BY <1>1, <1>2, SeqDef

\* A record appended to a history appends its lease.
LEMMA LeasesAppend ==
  ASSUME NEW R, NEW s \in Seq(R), NEW e \in R
  PROVE  LeasesOf(Append(s, e)) = Append(LeasesOf(s), e.lease)
BY DEF LeasesOf

\* The three ways a lease moves along settled, call and queue.
LEMMA EnqueueMoves ==
  ASSUME NEW P, NEW s \in Seq(P), NEW c \in Seq(P), NEW q \in Seq(P),
         NEW l \in P
  PROVE  (s \o c \o q) \o <<l>> = s \o c \o (q \o <<l>>)
<1>1. s \o c \in Seq(P) BY ConcatProperties
<1>2. <<l>> \in Seq(P) OBVIOUS
<1>3. QED BY <1>1, <1>2, ConcatAssociative

\* The head of the queue becomes the call under way.
LEMMA DequeueMoves ==
  ASSUME NEW P, NEW s \in Seq(P), NEW q \in Seq(P), q # <<>>
  PROVE  s \o <<>> \o q = s \o <<Head(q)>> \o Tail(q)
<1>1. Head(q) \in P /\ Tail(q) \in Seq(P) /\ <<Head(q)>> \in Seq(P)
  BY HeadTailProperties
<1>2. q = <<Head(q)>> \o Tail(q)
  BY <1>1
<1>3. s \o <<>> = s BY ConcatEmptySeq
<1>4. QED BY <1>1, <1>2, <1>3, ConcatAssociative

\* The call under way becomes the last that is settled.
LEMMA SettleMoves ==
  ASSUME NEW P, NEW s \in Seq(P), NEW q \in Seq(P), NEW l \in P
  PROVE  s \o <<l>> \o q = Append(s, l) \o <<>> \o q
<1>1. Append(s, l) \in Seq(P) /\ Append(s, l) = s \o <<l>> OBVIOUS
<1>2. Append(s, l) \o <<>> = Append(s, l) BY <1>1, ConcatEmptySeq
<1>3. QED BY <1>1, <1>2

\* Nothing was heard and nothing waits.
LEMMA InitIInv == Init => IInv
BY PollerAssumption DEF Init, IInv, NothingLostInQueue, LeasesOf

\* The invariant has the types the three lemmas need.
LEMMA Typed ==
  ASSUME IInv
  PROVE  /\ call \in Seq(Lease) /\ queue \in Seq(Lease)
         /\ LeasesOf(settled) \in Seq(Lease) /\ LeasesOf(heard) \in Seq(Lease)
<1>1. /\ \A e \in Heard : e.lease \in Lease
      /\ \A e \in Settled : e.lease \in Lease
  BY DEF Heard, Settled
<1>2. LeasesOf(heard) \in Seq(Lease)
  <2>1. heard \in Seq(Heard) BY DEF IInv
  <2>2. QED BY <1>1, <2>1, LeasesType
<1>3. LeasesOf(settled) \in Seq(Lease)
  <2>1. settled \in Seq(Settled) BY DEF IInv
  <2>2. QED BY <1>1, <2>1, LeasesType
<1>4. call \in Seq(Lease)
  <2>1. CASE call = <<>> BY <2>1, EmptySeq
  <2>2. CASE call # <<>>
    <3>1. PICK l \in Lease : call = <<l>> BY <2>2 DEF IInv
    <3>2. QED BY <3>1
  <2>3. QED BY <2>1, <2>2
<1>5. QED BY <1>2, <1>3, <1>4 DEF IInv

\* Every step, of the poller, of its queue or of dhcpd, keeps the invariant.
LEMMA NextIInv == IInv /\ [Next]_vars => IInv'
<1> SUFFICES ASSUME IInv, [Next]_vars PROVE IInv'
  OBVIOUS
<1> USE DEF IInv
<1>1. CASE Run
  BY <1>1 DEF Run, NothingLostInQueue
<1>2. CASE OnLine
  <2> PICK lease : lease = parseLeaseData(file[tailed + 1], now)
    OBVIOUS
  <2>1. CASE lease = NoLease
    BY <1>2, <2>1 DEF OnLine, NothingLostInQueue
  <2>2. CASE lease # NoLease
    <3> DEFINE entry == [lease |-> lease, at |-> tailed', time |-> now]
    <3>1. /\ queue' = Append(queue, lease) /\ heard' = Append(heard, entry)
          /\ tailed' = tailed + 1 /\ tailed + 1 \in 1 .. Len(file)
          /\ UNCHANGED <<poller, file, call, lookup, now, settled>>
      BY <1>2, <2>2 DEF OnLine
    <3>2. lease \in Lease
      BY <2>2, <3>1, ElementOfSeq, ParsedTyped
    <3>3. entry \in Heard BY <3>1, <3>2 DEF Heard
    <3>4. LeasesOf(heard') = Append(LeasesOf(heard), lease)
      BY <3>1, <3>3, LeasesAppend
    <3>5. Append(LeasesOf(heard), lease)
            = LeasesOf(settled) \o call \o Append(queue, lease)
      <4>1. /\ LeasesOf(settled) \in Seq(Lease) /\ call \in Seq(Lease)
            /\ LeasesOf(heard) \in Seq(Lease) /\ queue \in Seq(Lease)
        BY Typed
      <4>2. LeasesOf(heard) = LeasesOf(settled) \o call \o queue
        BY DEF NothingLostInQueue
      <4> HIDE DEF IInv
      <4>3. LeasesOf(heard) \o <<lease>>
              = LeasesOf(settled) \o call \o (queue \o <<lease>>)
        BY <3>2, <4>1, <4>2, EnqueueMoves
      <4>4. /\ Append(LeasesOf(heard), lease) = LeasesOf(heard) \o <<lease>>
            /\ Append(queue, lease) = queue \o <<lease>>
        BY <3>2, <4>1, AppendIsConcat
      <4>5. QED BY <4>3, <4>4
    <3>6. NothingLostInQueue'
      BY <3>1, <3>4, <3>5 DEF NothingLostInQueue
    <3>7. queue' \in Seq(Lease) /\ heard' \in Seq(Heard)
      BY <3>1, <3>2, <3>3, AppendProperties
    <3>8. QED BY <3>1, <3>6, <3>7
  <2>3. QED BY <2>1, <2>2
<1>3. CASE CallNext
  <2>1. /\ call = <<>> /\ queue # <<>> /\ call' = <<Head(queue)>>
        /\ queue' = Tail(queue)
        /\ UNCHANGED <<poller, file, tailed, lookup, now, heard, settled>>
    BY <1>3 DEF CallNext
  <2>2. Head(queue) \in Lease /\ Tail(queue) \in Seq(Lease)
    BY <2>1, HeadTailProperties
  <2>3. LeasesOf(settled) \o <<>> \o queue
          = LeasesOf(settled) \o <<Head(queue)>> \o Tail(queue)
    BY <2>1, Typed, DequeueMoves
  <2>4. QED BY <2>1, <2>2, <2>3 DEF NothingLostInQueue
<1>4. ASSUME NEW ok \in BOOLEAN, call # <<>>, call' = <<>>,
             settled' = Append(settled, [lease |-> call[1], ok |-> ok]),
             UNCHANGED <<poller, file, tailed, queue, now, heard>>,
             DOMAIN lookup' \subseteq Macs,
             \A m \in DOMAIN lookup' : lookup'[m] \in Ips
      PROVE  IInv'
  <2>1. PICK l \in Lease : call = <<l>> BY <1>4
  <2>2. [lease |-> l, ok |-> ok] \in Settled BY DEF Settled
  <2>3. LeasesOf(settled') = Append(LeasesOf(settled), l)
    BY <1>4, <2>1, <2>2, LeasesAppend
  <2>4. LeasesOf(settled) \o <<l>> \o queue
          = Append(LeasesOf(settled), l) \o <<>> \o queue
    BY Typed, SettleMoves
  <2>5. NothingLostInQueue'
    BY <1>4, <2>1, <2>3, <2>4 DEF NothingLostInQueue
  <2>6. settled' \in Seq(Settled) BY <1>4, <2>1, <2>2, AppendProperties
  <2>7. QED BY <1>4, <2>5, <2>6
<1>5. CASE SetIpAddressResolves \/ SetIpAddressFails
  <2>1. PICK l \in Lease : call = <<l>>
    BY <1>5 DEF SetIpAddressResolves, SetIpAddressFails
  <2>2. call[1] = l /\ l.mac \in Macs /\ l.ip \in Ips
    BY <2>1 DEF Lease
  <2>3. /\ DOMAIN lookup' \subseteq Macs
        /\ \A m \in DOMAIN lookup' : lookup'[m] \in Ips
    BY <1>5, <2>2 DEF SetIpAddressResolves, SetIpAddressFails
  <2>4. QED
    BY <1>4, <1>5, <2>3 DEF SetIpAddressResolves, SetIpAddressFails
<1>6. CASE Cleanup
  BY <1>6 DEF Cleanup, NothingLostInQueue
<1>7. ASSUME NEW piece \in Pieces, AppendPiece(piece) PROVE IInv'
  BY <1>7, PollerAssumption DEF AppendPiece, NothingLostInQueue
<1>8. CASE Tick
  BY <1>8, PollerAssumption DEF Tick, NothingLostInQueue
<1>9. CASE UNCHANGED vars
  BY <1>9 DEF vars, NothingLostInQueue
<1>10. QED
  BY <1>1, <1>2, <1>3, <1>5, <1>6, <1>7, <1>8, <1>9 DEF Next

\* Whatever the lease file says, nothing but addresses of machines is queued
\* and entered.
THEOREM TypeCorrect == Spec => []TypeOK
<1>1. IInv => TypeOK
  <2> SUFFICES ASSUME IInv PROVE TypeOK
    OBVIOUS
  <2>1. call \in Seq(Lease) BY Typed
  <2>2. Len(call) <= 1
    <3>1. CASE call = <<>> BY <3>1
    <3>2. ASSUME NEW l \in Lease, call = <<l>> PROVE Len(call) <= 1
      BY <3>2
    <3>3. QED BY <3>1, <3>2 DEF IInv
  <2>3. QED BY <2>1, <2>2 DEF IInv, TypeOK, Heard, Settled
<1>2. QED BY <1>1, InitIInv, NextIInv, PTL DEF Spec

\* The promise queue keeps what it was given, in the order it was given.
THEOREM QueueKeepsLeases == Spec => []NothingLostInQueue
<1>1. IInv => NothingLostInQueue BY DEF IInv
<1>2. QED BY <1>1, InitIInv, NextIInv, PTL DEF Spec

-----------------------------------------------------------------------------
(* What the lookup service has. *)

\* A call that did not fail has been written, and only a later one of the
\* same machine replaces what it wrote.
Written ==
  \A k \in DOMAIN settled : settled[k].ok =>
    LET lease == settled[k].lease
    IN \/ lease.mac \in DOMAIN lookup /\ lookup[lease.mac] = lease.ip
       \/ \E j \in k + 1 .. Len(settled) :
            settled[j].ok /\ settled[j].lease.mac = lease.mac

\* The call that ends is the last in the history and the last to be written.
LEMMA SettleWrites ==
  ASSUME IInv, Written, NEW ok \in BOOLEAN, NEW l \in Lease, call = <<l>>,
         settled' = Append(settled, [lease |-> l, ok |-> ok]),
         lookup' = IF ok THEN [m \in DOMAIN lookup \cup {l.mac} |->
                                IF m = l.mac THEN l.ip ELSE lookup[m]]
                   ELSE lookup
  PROVE  Written'
<1> DEFINE last == [lease |-> l, ok |-> ok]
           n == Len(settled)
<1>1. last \in Settled BY DEF Settled
<1>2. settled \in Seq(Settled) /\ n \in Nat /\ DOMAIN settled = 1 .. n
  BY LenProperties DEF IInv
<1>3. /\ settled' \in Seq(Settled) /\ Len(settled') = n + 1
      /\ \A k \in 1 .. n : settled'[k] = settled[k]
      /\ settled'[n + 1] = last
  BY <1>1, <1>2, AppendProperties
<1>4. DOMAIN settled' = 1 .. n + 1 BY <1>3, LenProperties
<1> SUFFICES ASSUME NEW k \in DOMAIN settled', settled'[k].ok
             PROVE  \/ /\ settled'[k].lease.mac \in DOMAIN lookup'
                       /\ lookup'[settled'[k].lease.mac] = settled'[k].lease.ip
                    \/ \E j \in k + 1 .. Len(settled') :
                         /\ settled'[j].ok
                         /\ settled'[j].lease.mac = settled'[k].lease.mac
  BY DEF Written
<1>5. CASE k = n + 1
  BY <1>3, <1>5
<1>6. CASE k # n + 1
  <2>1. k \in 1 .. n /\ k \in Int /\ settled'[k] = settled[k]
    BY <1>2, <1>3, <1>4, <1>6
  <2>2. CASE ok /\ settled[k].lease.mac = l.mac
    <3>1. n + 1 \in k + 1 .. n + 1 BY <1>2, <2>1
    <3>2. settled'[n + 1].ok /\ settled'[n + 1].lease.mac = settled'[k].lease.mac
      BY <1>3, <2>1, <2>2
    <3>3. QED BY <3>1, <3>2
  <2>3. CASE ~(ok /\ settled[k].lease.mac = l.mac)
    <3>1. settled[k].ok BY <2>1
    <3>2. CASE /\ settled[k].lease.mac \in DOMAIN lookup
               /\ lookup[settled[k].lease.mac] = settled[k].lease.ip
      BY <2>1, <2>3, <3>2
    <3>3. ASSUME NEW j \in k + 1 .. n, settled[j].ok,
                 settled[j].lease.mac = settled[k].lease.mac
          PROVE  \E i \in k + 1 .. n + 1 :
                   /\ settled'[i].ok
                   /\ settled'[i].lease.mac = settled'[k].lease.mac
      <4>1. j \in k + 1 .. n + 1 /\ j \in 1 .. n BY <1>2, <2>1
      <4>2. settled'[j] = settled[j] BY <1>3, <4>1
      <4>3. QED BY <2>1, <3>3, <4>1, <4>2
    <3>4. QED BY <1>2, <2>1, <3>1, <3>2, <3>3 DEF Written
  <2>4. QED BY <2>2, <2>3
<1>7. QED BY <1>5, <1>6

\* Nothing else touches the history or the lookup service.
LEMMA NextWritten == IInv /\ Written /\ [Next]_vars => Written'
<1> SUFFICES ASSUME IInv, Written, [Next]_vars PROVE Written'
  OBVIOUS
<1>1. CASE UNCHANGED <<settled, lookup>>
  BY <1>1 DEF Written
<1>2. CASE SetIpAddressResolves \/ SetIpAddressFails
  <2>1. PICK l \in Lease : call = <<l>>
    BY <1>2 DEF SetIpAddressResolves, SetIpAddressFails, IInv
  <2>2. call[1] = l BY <2>1
  <2>3. CASE SetIpAddressResolves
    BY <2>1, <2>2, <2>3, SettleWrites DEF SetIpAddressResolves
  <2>4. CASE SetIpAddressFails
    BY <2>1, <2>2, <2>4, SettleWrites DEF SetIpAddressFails
  <2>5. QED BY <1>2, <2>3, <2>4
<1>3. CASE Run \/ OnLine \/ CallNext \/ Cleanup \/ Tick \/ UNCHANGED vars
  <2>1. settled' = settled /\ lookup' = lookup
    BY <1>3 DEF vars, Run, OnLine, CallNext, Cleanup, Tick
  <2>2. QED BY <1>1, <2>1
<1>4. ASSUME NEW piece \in Pieces, AppendPiece(piece) PROVE Written'
  BY <1>1, <1>4 DEF AppendPiece
<1>5. QED BY <1>2, <1>3, <1>4 DEF Next

\* With no lease waiting, what was heard is what was settled, and the lookup
\* service has the last address of each machine it was told.
THEOREM LookupHasLast == Spec => []LookupIsCurrent
<1>1. Init => Written BY DEF Init, Written
<1>2. IInv /\ Written => LookupIsCurrent
  <2> SUFFICES ASSUME IInv, Written, queue = <<>>, call = <<>>
               PROVE  LookupIsCurrent
    BY DEF LookupIsCurrent
  <2>1. LeasesOf(settled) \in Seq(Lease) BY Typed
  <2>2. LeasesOf(heard) = LeasesOf(settled)
    <3>1. LeasesOf(settled) \o <<>> = LeasesOf(settled)
      BY <2>1, ConcatEmptySeq
    <3>2. QED BY <3>1 DEF IInv, NothingLostInQueue
  <2>3. DOMAIN heard = DOMAIN settled BY <2>2 DEF LeasesOf
  <2>4. \A k \in DOMAIN heard : heard[k].lease = settled[k].lease
    BY <2>2, <2>3 DEF LeasesOf
  <2>5. /\ DOMAIN heard = 1 .. Len(heard) /\ Len(heard) \in Nat
        /\ DOMAIN settled = 1 .. Len(settled) /\ Len(settled) \in Nat
    BY LenProperties DEF IInv
  <2>6. Len(heard) = Len(settled)
    <3>1. \A m, n \in Nat : 1 .. m = 1 .. n => m = n
      <4>1. SUFFICES ASSUME NEW m \in Nat, NEW n \in Nat, 1 .. m = 1 .. n,
                            m # n
                     PROVE  FALSE
        OBVIOUS
      <4>2. m \in 1 .. m <=> m \in 1 .. n BY <4>1
      <4>3. n \in 1 .. n <=> n \in 1 .. m BY <4>1
      <4>4. QED BY <4>1, <4>2, <4>3
    <3>2. QED BY <2>3, <2>5, <3>1
  <2> HIDE DEF IInv
  <2> SUFFICES ASSUME NEW k \in DOMAIN heard, settled[k].ok
               PROVE  \/ /\ heard[k].lease.mac \in DOMAIN lookup
                         /\ lookup[heard[k].lease.mac] = heard[k].lease.ip
                      \/ \E j \in k + 1 .. Len(heard) :
                           /\ settled[j].ok
                           /\ heard[j].lease.mac = heard[k].lease.mac
    BY DEF LookupIsCurrent
  <2>7. heard[k].lease = settled[k].lease /\ k \in 1 .. Len(heard)
    BY <2>4, <2>5
  <2>8. \A j \in k + 1 .. Len(heard) : heard[j].lease = settled[j].lease
    BY <2>4, <2>5, <2>7
  <2>9. QED BY <2>3, <2>6, <2>7, <2>8 DEF Written
<1>3. QED BY <1>1, <1>2, InitIInv, NextIInv, NextWritten, PTL DEF Spec

-----------------------------------------------------------------------------
(* The refinement of LeaseBook. *)

\* What the poller reads is a piece, at a time the clock shows.
Bounded == file \in Seq(Pieces) /\ now \in 0 .. MaxTime

\* dhcpd appends pieces, and the clock stops at its bound.
LEMMA NextBounded == Bounded /\ [Next]_vars => Bounded'
<1> SUFFICES ASSUME Bounded, [Next]_vars PROVE Bounded'
  OBVIOUS
<1>1. CASE UNCHANGED <<file, now>>
  BY <1>1 DEF Bounded
<1>2. CASE Run \/ OnLine \/ CallNext \/ Cleanup \/ UNCHANGED vars
  BY <1>1, <1>2 DEF vars, Run, OnLine, CallNext, Cleanup
<1>3. CASE SetIpAddressResolves \/ SetIpAddressFails
  BY <1>1, <1>3 DEF SetIpAddressResolves, SetIpAddressFails
<1>4. ASSUME NEW piece \in Pieces, AppendPiece(piece) PROVE Bounded'
  BY <1>4, AppendProperties DEF AppendPiece, Bounded
<1>5. CASE Tick BY <1>5, PollerAssumption DEF Tick, Bounded
<1>6. QED BY <1>2, <1>3, <1>4, <1>5 DEF Next

\* Every step of the poller and its surroundings is a step of the book, or
\* none.
LEMMA StepBook ==
  IInv /\ Bounded /\ [Next]_vars => [Book!Next]_(Book!vars)
<1> SUFFICES ASSUME IInv, Bounded, [Next]_vars
             PROVE  [Book!Next]_(Book!vars)
  OBVIOUS
<1> DEFINE waiting == call \o queue
<1>1. call \in Seq(Lease) /\ queue \in Seq(Lease) BY Typed
<1>2. CASE Run BY <1>2 DEF Run, Book!Next, Book!Open
<1>3. CASE OnLine
  <2> DEFINE lease == parseLeaseData(file[tailed + 1], now)
  <2>1. CASE lease = NoLease
    BY <1>3, <2>1 DEF OnLine, Book!vars
  <2>2. CASE lease # NoLease
    <3>1. /\ poller = "running" /\ queue' = Append(queue, lease)
          /\ tailed + 1 \in 1 .. Len(file)
          /\ UNCHANGED <<poller, call, lookup>>
      BY <1>3, <2>2 DEF OnLine, IInv
    <3>2. file[tailed + 1] \in Pieces BY <3>1, ElementOfSeq DEF Bounded
    <3>3. lease \in Leases \ {NoLease} BY <2>2, <3>2 DEF Leases, Bounded
    <3>4. lease \in Lease
      BY <2>2, <3>2, PollerAssumption, ParsedTyped DEF Bounded
    <3> HIDE DEF lease
    <3>5. queue' = queue \o <<lease>> BY <1>1, <3>1, <3>4, AppendIsConcat
    <3>6. <<lease>> \in Seq(Lease) BY <3>4
    <3>7. call \o (queue \o <<lease>>) = (call \o queue) \o <<lease>>
      BY <1>1, <3>6, ConcatAssociative
    <3>8. Book!Grant(lease) BY <3>1, <3>5, <3>7 DEF Book!Grant
    <3>9. QED BY <3>3, <3>8 DEF Book!Next
  <2>3. QED BY <2>1, <2>2
<1>4. CASE CallNext
  <2>1. /\ call = <<>> /\ queue # <<>> /\ call' = <<Head(queue)>>
        /\ queue' = Tail(queue) /\ UNCHANGED <<poller, lookup>>
    BY <1>4 DEF CallNext
  <2>2. <<>> \o queue = queue BY <1>1, ConcatEmptySeq
  <2>3. queue = <<Head(queue)>> \o Tail(queue) BY <1>1, <2>1
  <2>4. QED BY <2>1, <2>2, <2>3 DEF Book!vars
<1>5. CASE SetIpAddressResolves \/ SetIpAddressFails
  <2>1. PICK l \in Lease : call = <<l>>
    BY <1>5 DEF SetIpAddressResolves, SetIpAddressFails, IInv
  <2>2. /\ call[1] = l /\ call' = <<>> /\ UNCHANGED <<poller, queue>>
        /\ lookup' = lookup \/ lookup' = Book!Entered(lookup, l)
    BY <1>5, <2>1 DEF SetIpAddressResolves, SetIpAddressFails, Book!Entered
  <2>3. waiting # <<>> /\ Head(waiting) = l /\ Tail(waiting) = queue
    BY <1>1, <2>1
  <2>4. <<>> \o queue = queue BY <1>1, ConcatEmptySeq
  <2>5. Book!Settle BY <2>2, <2>3, <2>4 DEF Book!Settle
  <2>6. QED BY <2>5 DEF Book!Next
<1>6. CASE Cleanup BY <1>6 DEF Cleanup, Book!Next, Book!Close
<1>7. ASSUME NEW piece \in Pieces, AppendPiece(piece)
      PROVE  UNCHANGED Book!vars
  BY <1>7 DEF AppendPiece, Book!vars
<1>8. CASE Tick BY <1>8 DEF Tick, Book!vars
<1>9. CASE UNCHANGED vars BY <1>9 DEF vars, Book!vars
<1>10. QED
  BY <1>2, <1>3, <1>4, <1>5, <1>6, <1>7, <1>8, <1>9 DEF Next

\* The poller keeps the book: the lookup service hears of the oldest lease
\* that waits and of no other, and each is written or lost once.
THEOREM Implements == Spec => KeepsBook
<1>1. Init => Book!Init BY DEF Init, Book!Init
<1>2. Init => Bounded BY PollerAssumption DEF Init, Bounded
<1>3. QED BY <1>1, <1>2, InitIInv, NextIInv, NextBounded, StepBook, PTL
  DEF Spec, KeepsBook, Book!Spec

-----------------------------------------------------------------------------
(* What parseLeaseData makes of a block. *)

\* A lease line comes first, and there is one hardware line.
Block(piece) ==
  \A j, k \in DOMAIN piece :
    /\ piece[k].kind = "lease" => k = 1
    /\ piece[j].kind = "hardware" /\ piece[k].kind = "hardware" => j = k

\* One of the first n lines is an end still to come.
Live(piece, n, t) ==
  \E b \in 1 .. n : piece[b].kind = "ends" /\ EndsLater(piece[b].at, t)

\* What reduce knows after n lines of a block that begins with a lease: until
\* the hardware line, whether an end is to come; then the lease, if one was.
Knows(piece, t, n, st) ==
  /\ st.ip = piece[1].ip
  /\ (\A c \in 1 .. n : piece[c].kind # "hardware") =>
       ~st.thrown /\ st.lease = NoLease /\ (st.expired <=> ~Live(piece, n, t))
  /\ \A c \in 1 .. n : piece[c].kind = "hardware" =>
       IF st.ip = Bad \/ piece[c].mac = Bad THEN st.thrown
       ELSE /\ ~st.thrown
            /\ st.lease = IF Live(piece, c - 1, t)
                          THEN [ip |-> st.ip, mac |-> piece[c].mac]
                          ELSE NoLease

\* The three kinds of line.
LEMMA LineKinds ==
  ASSUME NEW line \in Line
  PROVE  \/ line.kind = "lease" /\ line = [kind |-> "lease", ip |-> line.ip]
         \/ line.kind = "ends"
         \/ line.kind = "hardware" /\ line = [kind |-> "hardware", mac |-> line.mac]
BY DEF Line

\* A line more of a block, and reduce knows as much of it.
LEMMA KnowsMore ==
  ASSUME NEW piece \in Seq(Line), Block(piece), NEW t \in Nat,
         NEW n \in 1 .. Len(piece) - 1, NEW st \in State,
         Knows(piece, t, n, st), piece[1].kind = "lease"
  PROVE  Knows(piece, t, n + 1, ReadLine(st, piece[n + 1], t))
<1> DEFINE line == piece[n + 1]
           next == ReadLine(st, line, t)
<1>1. /\ Len(piece) \in Nat /\ DOMAIN piece = 1 .. Len(piece)
      /\ n \in Nat /\ 1 \in 1 .. n /\ n + 1 \in DOMAIN piece
      /\ line \in Line /\ piece[1] \in Line
  BY LenProperties, ElementOfSeq
<1>2. line.kind # "lease" BY <1>1 DEF Block
<1>3. st.ip # NoIp
  <2>1. piece[1].ip \in Ips \cup {Bad} BY <1>1 DEF Line
  <2>2. QED BY <2>1, PollerAssumption DEF Knows
<1>4. 1 .. n + 1 = (1 .. n) \cup {n + 1} BY <1>1
<1>5. CASE line.kind = "ends"
  <2>1. \/ st.thrown /\ next = st
        \/ ~st.thrown /\ next = ReadEnds(st, line, t)
    BY <1>5 DEF ReadLine
  <2>2. /\ next.ip = st.ip /\ next.lease = st.lease /\ next.thrown = st.thrown
        /\ ~st.thrown =>
             (next.expired <=> st.expired /\ ~EndsLater(line.at, t))
    BY <2>1 DEF ReadEnds, State
  <2>3. Live(piece, n + 1, t) <=> Live(piece, n, t) \/ EndsLater(line.at, t)
    BY <1>4, <1>5 DEF Live
  <2>4. QED BY <1>4, <1>5, <2>2, <2>3 DEF Knows
<1>6. CASE line.kind = "hardware"
  <2>1. \A c \in 1 .. n : piece[c].kind # "hardware"
    BY <1>1, <1>6 DEF Block
  <2>2. /\ ~st.thrown /\ st.lease = NoLease
        /\ st.expired <=> ~Live(piece, n, t)
    BY <2>1 DEF Knows
  <2>3. next = ReadHardware(st, line) BY <1>6, <2>2 DEF ReadLine
  <2>4. next.ip = st.ip BY <2>3 DEF ReadHardware, State
  <2>5. IF st.ip = Bad \/ line.mac = Bad THEN next.thrown
        ELSE /\ ~next.thrown
             /\ next.lease = IF Live(piece, n, t)
                             THEN [ip |-> st.ip, mac |-> line.mac]
                             ELSE NoLease
    BY <1>3, <2>2, <2>3 DEF ReadHardware, State
  <2>6. (n + 1) - 1 = n BY <1>1
  <2>7. QED BY <1>4, <1>6, <2>1, <2>4, <2>5, <2>6 DEF Knows
<1>7. QED BY <1>1, <1>2, <1>5, <1>6, LineKinds

\* What reduce knows when it has read a whole block.
LEMMA KnowsBlock ==
  ASSUME NEW piece \in Seq(Line), Block(piece), NEW t \in Nat,
         piece # <<>>, piece[1].kind = "lease"
  PROVE  Knows(piece, t, Len(piece), Reduce(piece, t)[Len(piece)])
<1> DEFINE N == Len(piece)
           st == Reduce(piece, t)
           S == {n \in 0 .. N : n # 0 => Knows(piece, t, n, st[n])}
<1>1. /\ N \in Nat /\ N # 0 /\ DOMAIN piece = 1 .. N
      /\ st \in [0 .. N -> State] /\ st[0] = Start
      /\ \A n \in 1 .. N : st[n] = ReadLine(st[n - 1], piece[n], t)
  BY LenProperties, EmptySeq, ReduceIs
<1> HIDE DEF st
<1>2. 0 \in S BY <1>1
<1>3. Knows(piece, t, 1, st[1])
  <2>1. st[1] = ReadLine(Start, piece[1], t) BY <1>1
  <2>2. st[1] = ReadLease(Start, piece[1])
    BY <2>1 DEF ReadLine, Start
  <2>3. /\ st[1].ip = piece[1].ip /\ ~st[1].thrown /\ st[1].lease = NoLease
        /\ st[1].expired
    BY <2>2 DEF ReadLease, Start
  <2>4. \A c \in 1 .. 1 : c = 1 OBVIOUS
  <2>5. ~Live(piece, 1, t) BY <2>4 DEF Live
  <2>6. QED BY <2>3, <2>4, <2>5 DEF Knows
<1>4. ASSUME NEW n \in 0 .. N - 1, n \in S PROVE n + 1 \in S
  <2>1. CASE n = 0 BY <1>1, <1>3, <2>1
  <2>2. CASE n # 0
    <3>1. /\ n \in 1 .. N - 1 /\ n \in 0 .. N /\ n + 1 \in 1 .. N
          /\ (n + 1) - 1 = n
      BY <1>1, <2>2
    <3>2. st[n] \in State /\ st[n + 1] = ReadLine(st[n], piece[n + 1], t)
      BY <1>1, <3>1
    <3>3. Knows(piece, t, n, st[n]) BY <1>4, <2>2
    <3>4. Knows(piece, t, n + 1, st[n + 1])
      BY <3>1, <3>2, <3>3, KnowsMore
    <3>5. QED BY <3>1, <3>4
  <2>3. QED BY <2>1, <2>2
<1> HIDE DEF S
<1>5. N \in S
  <2>1. \A n \in 0 .. N : n \in S BY <1>1, <1>2, <1>4, BoundedInduction
  <2>2. QED BY <1>1, <2>1
<1>6. QED BY <1>1, <1>5 DEF S, st

\* Without a lease line, nothing comes out of a piece.
LEMMA NoBlock ==
  ASSUME NEW piece \in Seq(Line), NEW t \in Nat,
         \A k \in DOMAIN piece : piece[k].kind # "lease"
  PROVE  parseLeaseData(piece, t) = NoLease
<1> DEFINE N == Len(piece)
           st == Reduce(piece, t)
           Idle(s) == s.ip = NoIp /\ s.lease = NoLease
           S == {n \in 0 .. N : Idle(st[n])}
<1>1. /\ N \in Nat /\ DOMAIN piece = 1 .. N
      /\ \A n \in 1 .. N : piece[n] \in Line
      /\ st \in [0 .. N -> State] /\ st[0] = Start
      /\ \A n \in 1 .. N : st[n] = ReadLine(st[n - 1], piece[n], t)
  BY LenProperties, ElementOfSeq, ReduceIs
<1> HIDE DEF st, N
<1>2. 0 \in S BY <1>1 DEF Start
<1>3. ASSUME NEW n \in 0 .. N - 1, n \in S PROVE n + 1 \in S
  <2>1. n + 1 \in 1 .. N /\ (n + 1) - 1 = n /\ n + 1 \in 0 .. N BY <1>1
  <2>2. st[n] \in State /\ st[n + 1] = ReadLine(st[n], piece[n + 1], t)
    BY <1>1, <2>1
  <2>3. piece[n + 1].kind # "lease" BY <1>1, <2>1
  <2>4. Idle(st[n]) BY <1>3
  <2>5. Idle(ReadLine(st[n], piece[n + 1], t))
    BY <2>2, <2>3, <2>4 DEF ReadLine, ReadEnds, ReadHardware, State
  <2>6. QED BY <2>1, <2>2, <2>5
<1> HIDE DEF S
<1>4. N \in S
  <2>1. \A n \in 0 .. N : n \in S BY <1>1, <1>2, <1>3, BoundedInduction
  <2>2. QED BY <1>1, <2>1
<1>5. QED BY <1>4 DEF S, st, N, parseLeaseData

\* Of a block, parseLeaseData returns the lease it grants and no other.
LEMMA ParsesGrant ==
  ASSUME NEW piece \in Seq(Line), Block(piece), NEW t \in Nat,
         NEW l \in Lease
  PROVE  parseLeaseData(piece, t) = l <=> Grants(piece, l, t)
<1> DEFINE N == Len(piece)
           end == Reduce(piece, t)[N]
<1>1. /\ N \in Nat /\ DOMAIN piece = 1 .. N
      /\ \A n \in 1 .. N : piece[n] \in Line
  BY LenProperties, ElementOfSeq
<1>2. l \in [ip : Ips, mac : Macs] /\ l # NoLease
  BY PollerAssumption DEF Lease
<1>3. CASE \A k \in DOMAIN piece : piece[k].kind # "lease"
  <2>1. parseLeaseData(piece, t) # l BY <1>2, <1>3, NoBlock
  <2>2. ~Grants(piece, l, t) BY <1>3 DEF Grants
  <2>3. QED BY <2>1, <2>2
<1>4. CASE \E k \in DOMAIN piece : piece[k].kind = "lease"
  <2>1. 1 \in 1 .. N /\ piece[1].kind = "lease" BY <1>1, <1>4 DEF Block
  <2>2. piece # <<>> BY <1>1, <2>1, EmptySeq
  <2>3. Knows(piece, t, N, end) BY <2>1, <2>2, KnowsBlock
  <2>4. parseLeaseData(piece, t) = IF end.thrown THEN NoLease ELSE end.lease
    BY DEF parseLeaseData
  <2> HIDE DEF end
  <2>5. ASSUME Grants(piece, l, t) PROVE parseLeaseData(piece, t) = l
    <3>1. PICK a, b, c \in 1 .. N :
            /\ a < b /\ b < c
            /\ piece[a] = [kind |-> "lease", ip |-> l.ip]
            /\ piece[b].kind = "ends" /\ EndsLater(piece[b].at, t)
            /\ piece[c] = [kind |-> "hardware", mac |-> l.mac]
      BY <1>1, <2>5 DEF Grants, EndsLater
    <3>2. a = 1 BY <1>1, <3>1 DEF Block
    <3>3. /\ end.ip = l.ip /\ l.ip # Bad /\ piece[c].kind = "hardware"
          /\ piece[c].mac = l.mac /\ l.mac # Bad
      BY <1>2, <2>3, <3>1, <3>2, PollerAssumption DEF Knows
    <3>4. Live(piece, c - 1, t)
      <4>1. b \in 1 .. c - 1 BY <1>1, <3>1
      <4>2. QED BY <3>1, <4>1 DEF Live
    <3>5. ~end.thrown /\ end.lease = [ip |-> l.ip, mac |-> l.mac]
      BY <2>3, <3>3, <3>4 DEF Knows
    <3>6. QED BY <1>2, <2>4, <3>5
  <2>6. ASSUME parseLeaseData(piece, t) = l PROVE Grants(piece, l, t)
    <3>1. ~end.thrown /\ end.lease = l BY <1>2, <2>4, <2>6
    <3>2. PICK c \in 1 .. N : piece[c].kind = "hardware"
      BY <1>2, <2>3, <3>1 DEF Knows
    <3>3. Live(piece, c - 1, t) /\ l = [ip |-> end.ip, mac |-> piece[c].mac]
      BY <1>2, <2>3, <3>1, <3>2 DEF Knows
    <3>4. PICK b \in 1 .. c - 1 :
            piece[b].kind = "ends" /\ EndsLater(piece[b].at, t)
      BY <3>3 DEF Live
    <3>5. b \in 1 .. N /\ 1 < b /\ b < c /\ b # 1
      BY <1>1, <2>1, <3>4
    <3>6. piece[1] = [kind |-> "lease", ip |-> l.ip]
      <4>1. l.ip = piece[1].ip BY <2>3, <3>3 DEF Knows
      <4>2. QED BY <1>1, <2>1, <4>1, LineKinds
    <3>7. piece[c] = [kind |-> "hardware", mac |-> l.mac]
      <4>1. l.mac = piece[c].mac BY <3>3
      <4>2. QED BY <1>1, <3>2, <4>1, LineKinds
    <3>8. \A k \in 1 + 1 .. c : piece[k].kind # "lease"
      BY <1>1 DEF Block
    <3>9. QED BY <1>1, <2>1, <3>4, <3>5, <3>6, <3>7, <3>8
      DEF Grants, EndsLater
  <2>7. QED BY <2>5, <2>6
<1>5. QED BY <1>3, <1>4

\* The step of the Tail.
LEMMA OnLineTakesUp ==
  ASSUME IInv, Bounded, OnLine
  PROVE  LET piece == file[tailed']
             granted == {l \in Lease : Grants(piece, l, now)}
         IN IF granted = {} THEN heard' = heard
            ELSE \E l \in granted :
                   LeasesOf(heard') = Append(LeasesOf(heard), l)
<1> DEFINE piece == file[tailed']
           granted == {l \in Lease : Grants(piece, l, now)}
<1>1. /\ tailed' = tailed + 1 /\ tailed + 1 \in 1 .. Len(file)
      /\ now \in Nat
  BY DEF OnLine, IInv
<1>2. piece \in Pieces /\ piece \in Seq(Line) /\ Block(piece)
  BY <1>1, ElementOfSeq, PollerAssumption, BlockAssumption
  DEF Bounded, Block
<1> PICK lease : lease = parseLeaseData(piece, now)
  OBVIOUS
<1>3. \A l \in Lease : lease = l <=> Grants(piece, l, now)
  BY <1>1, <1>2, ParsesGrant
<1>4. lease \in Lease \cup {NoLease} BY <1>1, <1>2, ParsedTyped
<1>5. CASE lease = NoLease
  <2>1. granted = {} BY <1>3, <1>5, PollerAssumption
  <2>2. heard' = heard BY <1>1, <1>5 DEF OnLine
  <2>3. QED BY <2>1, <2>2
<1>6. CASE lease # NoLease
  <2> DEFINE entry == [lease |-> lease, at |-> tailed', time |-> now]
  <2>1. lease \in granted BY <1>3, <1>4, <1>6
  <2>2. heard' = Append(heard, entry) BY <1>1, <1>6 DEF OnLine
  <2>3. entry \in Heard /\ heard \in Seq(Heard)
    BY <1>1, <1>4, <1>6 DEF Heard, IInv
  <2>4. LeasesOf(heard') = Append(LeasesOf(heard), lease)
    BY <2>2, <2>3, LeasesAppend
  <2>5. QED BY <2>1, <2>4
<1>7. QED BY <1>5, <1>6

\* Whatever dhcpd writes, and whenever it is read: of each piece the lease
\* that is still running is taken up, and nothing else.
THEOREM TakesUp == Spec => TakesUpLiveLeases
<1>1. IInv /\ Bounded /\ [Next]_vars =>
        [poller = "running" /\ tailed' = tailed + 1 =>
           LET piece == file[tailed']
               granted == {l \in Lease : Grants(piece, l, now)}
           IN IF granted = {} THEN heard' = heard
              ELSE \E l \in granted :
                     LeasesOf(heard') = Append(LeasesOf(heard), l)]_vars
  <2> SUFFICES ASSUME IInv, Bounded, Next, poller = "running",
                      tailed' = tailed + 1
               PROVE  LET piece == file[tailed']
                          granted == {l \in Lease : Grants(piece, l, now)}
                      IN IF granted = {} THEN heard' = heard
                         ELSE \E l \in granted :
                                LeasesOf(heard') = Append(LeasesOf(heard), l)
    OBVIOUS
  <2>1. tailed' # tailed BY DEF IInv
  <2>2. OnLine
    BY <2>1 DEF Next, Run, CallNext, SetIpAddressResolves,
      SetIpAddressFails, Cleanup, Tick, AppendPiece
  <2>3. QED BY <2>2, OnLineTakesUp
<1>2. Init => Bounded BY PollerAssumption DEF Init, Bounded
<1>3. QED BY <1>1, <1>2, InitIInv, NextIInv, NextBounded, PTL
  DEF Spec, TakesUpLiveLeases
=============================================================================
