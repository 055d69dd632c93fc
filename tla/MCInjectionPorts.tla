-------------------------- MODULE MCInjectionPorts --------------------------
(***************************************************************************)
(* Two virtual networks with two VCs each, the first one ordered, on one   *)
(* port or on two.  A message has two flits and two destinations, which    *)
(* may get their VCs one after the other.                                  *)
(***************************************************************************)
EXTENDS InjectionPorts

MCPortMaps == {<<"a", "a">>, <<"a", "b">>}
MCPorts == {[vn \in Vnets |-> m[vn + 1]] : m \in MCPortMaps}
MCMessages == {[flits |-> 2, dests |-> 2]}
MCOrdered == {0}
=============================================================================
