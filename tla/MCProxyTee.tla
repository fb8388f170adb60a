----------------------------- MODULE MCProxyTee -----------------------------
(***************************************************************************)
(* One proxied response among background jobs and imports of other         *)
(* repositories.                                                           *)
(***************************************************************************)
EXTENDS ProxyTee, TLC

CONSTANTS r1, c1, c2, main

F(t) == <<[type |-> t, data |-> 0, part |-> 1], [type |-> t, data |-> 0, part |-> 2]>>
Band(n) == <<[type |-> "band1", data |-> n, part |-> 1], [type |-> "band1", data |-> n, part |-> 2]>>
Raw(n) == <<[type |-> "raw", data |-> n, part |-> 1]>>
Flush == <<[type |-> "flush", data |-> 0, part |-> 1]>>

Clone(wire, sideband) ==
    [wire |-> wire, sideband |-> sideband, tee |-> TRUE, publish |-> TRUE, wants |-> {main}]

Multiplexed == Clone(F("nak") \o Band(1) \o F("band2") \o Band(2) \o Flush, TRUE)
Unmultiplexed == Clone(F("ack") \o F("nak") \o Raw(1) \o Raw(2), FALSE)
RemoteError == Clone(F("nak") \o Band(1) \o F("band3"), TRUE)
TooLong == Clone(F("nak") \o Band(1) \o Band(2) \o Band(3) \o Band(4), TRUE)
Shallow == [Multiplexed EXCEPT !.tee = FALSE, !.publish = FALSE]

MCKinds == r1 :> {Multiplexed, Unmultiplexed, RemoteError, TooLong, Shallow}
MCFirst == main :> c1
MCLater == main :> c2

\* Theorems about the spool are stated for wires like these.
ASSUME MCWires == WellFormedWires
=============================================================================
