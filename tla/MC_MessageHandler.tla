-------------------------- MODULE MC_MessageHandler --------------------------
(***************************************************************************)
(* Small instances of MessageHandler: a few datagrams that race, and one   *)
(* datagram of every kind.                                                 *)
(***************************************************************************)
EXTENDS MessageHandler, TLC

CONSTANTS r1, r2, ip

Card(oui) == [oui |-> oui]

PlainCard   == Card("08:00:27")
OtherCard   == Card("52:54:00")
NucCard     == Card("ec:a8:6b")
FlexbootCard == Card("f4:52:14")
\* Mellanox Technologies too: the prefix the source spells "7c:fe,90".
ConnectXCard == Card("7c:fe:90")

OneCard  == {PlainCard}
TwoCards == {PlainCard, OtherCard}
AllCards == {PlainCard, NucCard, FlexbootCard, ConnectXCard}

\* A DHCP request of a PXE BIOS.
BiosRequest == [whole |-> TRUE, xid |-> 1, mac |-> PlainCard, hlen |-> 6,
                ciaddr |-> ip, userClass |-> "none", vendorClass |-> "UNDI",
                arch |-> 0]

\* An EFI client, a machine that is not booting, a request cut short, one of
\* a second card, one from a client without an address, and one whose
\* hardware address is no Ethernet address.
EfiRequest    == [BiosRequest EXCEPT !.xid = 2, !.arch = 7]
PlainRequest  == [BiosRequest EXCEPT !.vendorClass = "none"]
CutRequest    == [BiosRequest EXCEPT !.whole = FALSE]
OtherRequest  == [BiosRequest EXCEPT !.mac = OtherCard]
LostRequest   == [BiosRequest EXCEPT !.ciaddr = NoAddr]
OddRequest    == [BiosRequest EXCEPT !.hlen = 16]

LifeDatagrams ==
  {BiosRequest, PlainRequest, CutRequest, LostRequest, OddRequest}
RacingDatagrams == {EfiRequest, OtherRequest}

EveryDatagram ==
  {[whole |-> TRUE, xid |-> 1, mac |-> m, hlen |-> 6, ciaddr |-> a,
    userClass |-> u, vendorClass |-> v, arch |-> n] :
     m \in AllCards, a \in {ip, NoAddr}, u \in {"none", "MonoRail", "other"},
     v \in {"none", "Arista", "UNDI", "other"}, n \in {0, 6, 7, 9, 11, NoArch}}

\* The life of a machine as the inventory records it.
Unknown      == [known |-> FALSE, discovered |-> FALSE, task |-> FALSE,
                 profile |-> FALSE, bootSettings |-> FALSE]
New          == [Unknown EXCEPT !.known = TRUE]
Discovering  == [New EXCEPT !.task = TRUE, !.profile = TRUE]
Idle         == [New EXCEPT !.discovered = TRUE]
Installing   == [Idle EXCEPT !.task = TRUE, !.profile = TRUE]
Working      == [Idle EXCEPT !.task = TRUE]
WithSettings == [Idle EXCEPT !.bootSettings = TRUE]

WholeLife == {Unknown, New, Idle, Installing, Working, WithSettings}
BusyLife  == {Idle, Installing, WithSettings}
AnyLife   == {Idle}

Symmetric == Permutations(Requests)
=============================================================================
