-------------------------- MODULE MCDeviceChannels --------------------------
(***************************************************************************)
(* Small brokers of DeviceChannels for TLC.                                *)
(***************************************************************************)
EXTENDS DeviceChannels, TLC

CONSTANTS c1, c2, c3, d1, d2, r1, r2

\* The devices the requests to connect name.
OneDevice == [c \in Conns |-> d1]
SecondDevice == [c \in Conns |-> IF c = c2 THEN d2 ELSE d1]

\* Requests of the API: r1 sends, r2 kicks, both to all devices.
SendAndKick == [r \in Reqs |-> IF r = r1 THEN "frame" ELSE "kick"]
ToAll == [r \in Reqs |-> Devices]

\* They are of one device.
SameConns == Permutations(Conns)
=============================================================================
