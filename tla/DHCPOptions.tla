----------------------------- MODULE DHCPOptions -----------------------------
(***************************************************************************)
(* The options lib/parser.js reads and lib/packet.js writes, by the form   *)
(* of their value, and the enumerations of lib/dhcp-protocol.js.           *)
(***************************************************************************)
EXTENDS Integers

AddressOptions == {1, 28, 50, 54, 118}
NumberOptions  == {2, 51, 52, 53, 57, 58, 59, 93}
ListOptions    == {3, 4, 6}
TextOptions    == {12, 15, 60, 67, 77}

VendorOptions        == 43
ParameterRequestList == 55
ClientIdentifier     == 61
QualifiedDomainName  == 81

Handled ==
  AddressOptions \cup NumberOptions \cup ListOptions \cup TextOptions \cup
  {VendorOptions, ParameterRequestList, ClientIdentifier, QualifiedDomainName}

\* Bytes of a number.
Width(c) == IF c \in {52, 53} THEN 1 ELSE IF c \in {57, 93} THEN 2 ELSE 4

\* The numbers the enumerations have a name for; get finds no other.
DHCPMessageType == 1 .. 7
ARPHardwareType == 1 .. 9
=============================================================================
