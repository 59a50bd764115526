----------------------------- MODULE BootPolicy -----------------------------
(***************************************************************************)
(* What on-dhcp-proxy decides about one DHCP datagram without looking at   *)
(* anything else: whether lib/message-handler.js handles it at all, which  *)
(* boot file lib/message-handler.js names, and to which address and port   *)
(* lib/packet.js and lib/server.js send the answer.                        *)
(*                                                                         *)
(* A datagram is the record of those parsed fields a decision reads.       *)
(* Strings stand for the classes the code tells apart: a user class is     *)
(* absent, "MonoRail" or another one; a vendor class is absent (or empty), *)
(* starts with "Arista" or with the BIOS UNDI prefix, or is another one.   *)
(***************************************************************************)
EXTENDS Naturals

CONSTANTS
  Macs,        \* hardware addresses: records with the first three octets (oui)
  Addrs,       \* client IP addresses
  NoAddr,      \* ciaddr when its first octet is zero (readIpRaw: undefined)
  LegacyPort,  \* dhcpProxyOutPort
  EFIPort,     \* dhcpProxyEFIOutPort
  UrlLength,   \* length of http://<address>:<port>/api/current/profiles
  SnameLength  \* length of tftpBindAddress, written into the sname field

ASSUME PolicyAssumption ==
  /\ \A m \in Macs : m.oui \in STRING
  /\ NoAddr \notin Addrs
  /\ LegacyPort # EFIPort
  /\ UrlLength \in Nat
  /\ SnameLength \in Nat

NoArch == 65536  \* archType when option 93 is absent: no 16-bit value

\* The hardware type is one of those lib/dhcp-protocol.js lists.
Datagram ==
  [whole : BOOLEAN,      \* parser.parse returns and does not throw
   xid : Nat,
   mac : Macs,
   hlen : Nat,
   ciaddr : Addrs \cup {NoAddr},
   userClass : {"none", "MonoRail", "other"},
   vendorClass : {"none", "Arista", "UNDI", "other"},
   arch : 0 .. NoArch]

\* Mutant: the assertion on ciaddr is missing.
AcceptableWithoutAddress(d) == d.whole /\ d.hlen > 0

\* handleDhcpPacket drops what the parser rejects and what has no hardware
\* address or no client address.
Acceptable(d) == d.whole /\ d.hlen > 0 /\ d.ciaddr # NoAddr

-----------------------------------------------------------------------------
(* The boot file: its name, its length in bytes, the addresses in its query. *)

FileName == {"none", "profiles", "profiles?macs", "monorail.intel.ipxe",
             "monorail-efi64-snponly.efi", "monorail-efi32-snponly.efi",
             "monorail-undionly.kpxe", "monorail.ipxe"}

BootFile == [name : FileName, length : Nat, macs : SUBSET Macs]

Rom(n, l) == [name |-> n, length |-> l, macs |-> {}]

NoFile      == Rom("none", 0)
ProfilesUrl == Rom("profiles", UrlLength)
IntelRom    == Rom("monorail.intel.ipxe", 19)
Efi64Rom    == Rom("monorail-efi64-snponly.efi", 26)
Efi32Rom    == Rom("monorail-efi32-snponly.efi", 26)
UndiRom     == Rom("monorail-undionly.kpxe", 22)
DefaultRom  == Rom("monorail.ipxe", 13)

\* "?macs=" and a 17-character address follow the profiles URL.
AristaUrl(m) ==
  [name |-> "profiles?macs", length |-> UrlLength + 23, macs |-> {m}]

\* The prefixes exactly as the source spells them.
mellanox == {"f4:52:14", "ec:0d:9a", "e4:1d:2d", "7c:fe,90", "24:8a:07",
             "00:25:8b", "00:02:c9"}

getDefaultBootfile(d) ==
  IF d.userClass = "MonoRail"          THEN ProfilesUrl
  ELSE IF d.vendorClass = "Arista"     THEN AristaUrl(d.mac)
  ELSE IF d.mac.oui \in mellanox       THEN ProfilesUrl
  ELSE IF d.mac.oui = "ec:a8:6b"       THEN IntelRom
  ELSE IF d.vendorClass = "none"       THEN NoFile
  ELSE IF d.arch \in {7, 9}            THEN Efi64Rom
  ELSE IF d.arch = 6                   THEN Efi32Rom
  ELSE IF d.arch = 0 /\ d.vendorClass = "UNDI" THEN UndiRom
  ELSE DefaultRom

-----------------------------------------------------------------------------
(* The answer. *)

\* Mutant: the newer EFI architecture is forgotten here, not in the file choice.
isPXEefiOf7(d) == d.userClass = "none" /\ d.arch \in {6, 7}

\* Which machines wait for the answer on the EFI port.
isPXEefi(d) == d.userClass = "none" /\ d.arch \in {6, 7, 9}

\* createPacketBuffer throws on a hardware address that is not six bytes long
\* and on names that do not fit their fields.
AckFits(d, file) == d.hlen = 6 /\ SnameLength <= 64 /\ file.length <= 128

Answerable(d) ==
  /\ getDefaultBootfile(d) # NoFile
  /\ AckFits(d, getDefaultBootfile(d))

Reply == [xid : Nat, mac : Macs, dst : Addrs, file : BootFile,
          port : {LegacyPort, EFIPort}]

createProxyDhcpAck(d, file) ==
  [xid  |-> d.xid,
   mac  |-> d.mac,
   dst  |-> d.ciaddr,
   file |-> file,
   port |-> IF isPXEefi(d) THEN EFIPort ELSE LegacyPort]

ReplyTo(d) == createProxyDhcpAck(d, getDefaultBootfile(d))
=============================================================================
