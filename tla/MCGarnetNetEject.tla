-------------------------- MODULE MCGarnetNetEject --------------------------
(***************************************************************************)
(* One router between NIs a and b whose ejection buffers hold one message: *)
(* tails stall at the NI and are ejected by the dequeue callback.          *)
(***************************************************************************)
EXTENDS GarnetNet, TLC

CONSTANTS a, b, r0

MCRouters == {r0}
MCNIs == {a, b}
MCInPorts == r0 :> <<<<a, r0>>, <<b, r0>>>>
MCOutPorts == r0 :> <<<<r0, a>>, <<r0, b>>>>
MCChannels == {<<a, r0>>, <<r0, a>>, <<b, r0>>, <<r0, b>>}
MCRoute == r0 :> ((a :> <<r0, a>>) @@ (b :> <<r0, b>>))
MCBuffers == [vn \in Vnets |-> 1]
MCLinkLatency == [ch \in Channels |-> 1]
MCOutSize == [vn \in Vnets |-> 1]
MCUnbounded == [vn \in Vnets |-> 0]

(* a sends to b and b to itself, so that the two input ports compete for   *)
(* the output port.  With two virtual networks, m3 uses the second one.    *)
Names == {"m1", "m2", "m3", "m4"}
MCProgram == (a :> <<"m1", "m2", "m3">>) @@ (b :> <<"m4">>)
MCShortProgram == (a :> <<"m1", "m2">>) @@ (b :> <<"m4">>)
MCMsgVnet == [m \in Names |-> IF m = "m3" THEN NumVnets - 1 ELSE 0]
MCMsgDests == [m \in Names |-> <<b>>]
(* m2 as a multicast: while m1 holds a VC there is one for one copy only.  *)
MCMulticast == [m \in Names |-> IF m = "m2" THEN <<b, a>> ELSE <<b>>]
MCMsgFlits == [m \in Names |-> IF m = "m2" THEN 2 ELSE 1]
=============================================================================
