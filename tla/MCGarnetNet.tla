----------------------------- MODULE MCGarnetNet -----------------------------
(***************************************************************************)
(* Two routers in a row, NI a behind r0 and NI b behind r1.  a sends to b  *)
(* across both; b sends to itself, so that two-flit packets from two input *)
(* ports compete for the output port of r1 towards b and, for want of      *)
(* credits, packets of a wait behind each other at r0.                     *)
(***************************************************************************)
EXTENDS GarnetNet, TLC

CONSTANTS a, b, r0, r1

MCRouters == {r0, r1}
MCNIs == {a, b}
MCInPorts == (r0 :> <<<<a, r0>>, <<r1, r0>>>>) @@ (r1 :> <<<<b, r1>>, <<r0, r1>>>>)
MCOutPorts == (r0 :> <<<<r0, a>>, <<r0, r1>>>>) @@ (r1 :> <<<<r1, b>>, <<r1, r0>>>>)
MCChannels ==
    {<<a, r0>>, <<r0, a>>, <<b, r1>>, <<r1, b>>, <<r0, r1>>, <<r1, r0>>}
MCRoute ==
    (r0 :> ((a :> <<r0, a>>) @@ (b :> <<r0, r1>>))) @@
    (r1 :> ((a :> <<r1, r0>>) @@ (b :> <<r1, b>>)))
MCBuffers == [vn \in Vnets |-> 1]
(* The link between the routers is slow: credits come back late.           *)
MCLinkLatency == [ch \in Channels |-> IF {ch[1], ch[2]} = Routers THEN 2 ELSE 1]
MCOutSize == [vn \in Vnets |-> 0]

(* m1 and m3 are two-flit messages.  m2 has two destinations and follows   *)
(* m1, whose VC may still be held: then there is a VC for one copy only.   *)
Names == {"m1", "m2", "m3"}
MCProgram == (a :> <<"m1", "m2">>) @@ (b :> <<"m3">>)
MCMsgVnet == [m \in Names |-> 0]
MCMsgDests == [m \in Names |-> IF m = "m2" THEN <<b, a>> ELSE <<b>>]
MCMsgFlits == [m \in Names |-> IF m = "m2" THEN 1 ELSE 2]
=============================================================================
