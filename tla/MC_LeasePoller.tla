--------------------------- MODULE MC_LeasePoller ---------------------------
(***************************************************************************)
(* Small instances of LeasePoller: two machines, two addresses, and one    *)
(* piece of each shape a lease file cut at its braces can have.            *)
(***************************************************************************)
EXTENDS LeasePoller

CONSTANTS m1, m2, ip1, ip2

Of(ip)   == [kind |-> "lease", ip |-> ip]
Ends(at) == [kind |-> "ends", at |-> at]
For(mac) == [kind |-> "hardware", mac |-> mac]

Block(ip, at, mac) == <<Of(ip), Ends(at), For(mac)>>

\* What dhcpd writes for running, ending and renewed leases.
Blocks == {Block(ip1, 2, m1), Block(ip2, 2, m1), Block(ip2, 1, m2)}

\* A lease without an end, one not bound to a machine, one whose hardware is
\* no Ethernet address, and the two halves of a block with a brace in a string.
OddPieces == {Block(ip1, Never, m1), <<Of(ip1), Ends(2)>>, Block(ip1, 2, Bad),
              <<Ends(2), For(m2)>>}

AllPieces == Blocks \cup OddPieces
=============================================================================
