--------------------------- MODULE MC_ProxyServer ---------------------------
(* The datagrams and records of MC_MessageHandler within one process. *)
EXTENDS ProxyServer, TLC

CONSTANTS r1, r2, ip

PlainCard == [oui |-> "08:00:27"]
OneCard == {PlainCard}

\* A machine that is booting, and one that is not.
BiosRequest == [whole |-> TRUE, xid |-> 1, mac |-> PlainCard, hlen |-> 6,
                ciaddr |-> ip, userClass |-> "none", vendorClass |-> "UNDI",
                arch |-> 0]
PlainRequest == [BiosRequest EXCEPT !.vendorClass = "none"]

ServerDatagrams == {BiosRequest, PlainRequest, [BiosRequest EXCEPT !.whole = FALSE]}

Idle == [known |-> TRUE, discovered |-> TRUE, task |-> FALSE,
         profile |-> FALSE, bootSettings |-> FALSE]
Installing == [Idle EXCEPT !.task = TRUE, !.profile = TRUE]
BusyLife == {Idle, Installing}
=============================================================================
