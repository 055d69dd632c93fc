-------------------------- MODULE MCNetworkBridge --------------------------
(* Two VCs, each with packets of one and of several flits, over links that *)
(* widen, narrow, or do both, with fast and slow clocks.                   *)
EXTENDS NetworkBridge, TLC

MCMessages == ("v1" :> <<5, 1>>) @@ ("v2" :> <<2>>)

Cfg(w, p) ==
    [width |-> [src |-> w[1], link |-> w[2], dst |-> w[3]],
     period |-> [src |-> p[1], link |-> p[2], dst |-> p[3], net |-> p[4]],
     cdc |-> [src |-> w[1] = w[2] \/ p[1] # p[2], dst |-> w[3] = w[2] \/ p[3] # p[2]]]

(* Widths and clock periods of <<src, link, dst>> and the network; a side  *)
(* has CDC on when its clocks differ or its widths do not.                 *)
MCConfigs ==
    {Cfg(<<1, 2, 4>>, <<1, 1, 1, 1>>), Cfg(<<1, 4, 1>>, <<1, 2, 1, 1>>),
     Cfg(<<2, 1, 4>>, <<1, 1, 2, 2>>), Cfg(<<4, 2, 1>>, <<1, 1, 1, 1>>),
     Cfg(<<4, 1, 2>>, <<1, 1, 1, 2>>), Cfg(<<1, 1, 2>>, <<2, 1, 1, 1>>),
     Cfg(<<2, 4, 2>>, <<1, 1, 1, 1>>)}
=============================================================================
