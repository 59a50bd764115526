--------------------------- MODULE MC_PacketBuffer ---------------------------
(* Lengths at and around every boundary of the layout. *)
EXTENDS PacketBuffer

\* "1.1.1.1" to "255.255.255.255".
RealAddressLengths == 7 .. 15

\* And the limits of the field.
AddressLengths == {0, 1, 63, 64, 65} \cup RealAddressLengths

\* The ROMs have 13 to 26 bytes, the profiles URLs 36 to 75; 52 and 53 are on
\* either side of the 300-byte minimum, 128 is the field.
NameLengths == {1, 12, 13, 14, 15, 19, 22, 26, 39, 51, 52, 53, 54, 62, 63, 64,
                65, 75, 127, 128, 129}

\* The names the proxy really sends.
BootFileLengths == {13, 19, 22, 26, 39}

\* Both ends of the table, and one that is in none.
Types == {1, 9, 10}
=============================================================================
