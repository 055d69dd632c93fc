----------------------------- MODULE RoutingUnit -----------------------------
(***************************************************************************)
(* RoutingUnit::outportCompute(), and the way of a packet through a mesh   *)
(* whose routers use it: by routing table (the default) or by XY.          *)
(***************************************************************************)
EXTENDS Topology

CONSTANT NoPacket

(* outportComputeXY() goes by the directions of ports, which only          *)
(* Mesh_XY.py sets.  On the links of Mesh_westfirst.py every direction is  *)
(* unknown, and a packet leaves by port 0, to whatever NI that leads.      *)
ASSUME XYAssumption == \A m \in Meshes : m.algorithm = "XY_" => m.kind = "Mesh_XY"

VARIABLE pkt    \* the packet: its destination endpoint, the switch it is at
                \* and the one it came from, the direction of its input port,
                \* and whether its virtual network is ordered

vars == <<topologyVars, pkt>>

(* Slip: the weights of the candidate links are not compared.              *)
LookupRoutingTableUnweighted(r, n, ordered) ==
    LET candidates == {o \in Outports(r) : n \in RoutingTableEntry(r, o)}
        first == Min({o.next : o \in candidates})
    IN  IF ordered THEN {o \in candidates : o.next = first} ELSE candidates

(* The ports lookupRoutingTable() may return.  Of the lightest candidates  *)
(* an ordered virtual network takes the first port (ports are numbered by  *)
(* the switch behind them) and an unordered one any, by rand().            *)
LookupRoutingTable(r, n, ordered) ==
    LET candidates == {o \in Outports(r) : n \in RoutingTableEntry(r, o)}
        minWeight == Min({o.weight : o \in candidates})
        lightest == {o \in candidates : o.weight = minWeight}
        first == Min({o.next : o \in lightest})
    IN  IF ordered THEN {o \in lightest : o.next = first} ELSE lightest

(* The port m_outports_dirn2idx[] gives for a direction: of one it does    *)
(* not know, the index 0 that the access puts there.                       *)
OutportOfDirection(r, dirn) ==
    LET known == {o \in Outports(r) : o.dirn = dirn}
        first == Min({o.next : o \in Outports(r)})
    IN  IF known # {} THEN known ELSE {o \in Outports(r) : o.next = first}

(* The assertions of outportComputeXY() on the packet's input port.        *)
TurnAsserted(inport, dirn) ==
    CASE dirn = "East" -> inport \in {"Local", "West"}
      [] dirn = "West" -> inport \in {"Local", "East"}
      [] OTHER -> inport # dirn

(* The port outportComputeXY() returns, none if an assertion fails, which  *)
(* ends the simulation.                                                    *)
OutportComputeXY(r, n, inport) ==
    LET s == RouterOf(n)
        dirn == CASE X(s) > X(r) -> "East"
                  [] X(s) < X(r) -> "West"
                  [] X(s) = X(r) /\ Y(s) > Y(r) -> "North"
                  [] OTHER -> "South"
    IN  IF TurnAsserted(inport, dirn) THEN OutportOfDirection(r, dirn) ELSE {}

(* At the destination router the table names the exact port.               *)
OutportCompute(r, n, inport, ordered) ==
    IF RouterOf(n) = r \/ mesh.algorithm = "TABLE_"
    THEN LookupRoutingTable(r, n, ordered)
    ELSE OutportComputeXY(r, n, inport)

-----------------------------------------------------------------------------
Init == TopologyInit /\ pkt = NoPacket

BuildTables == ExtendShortestPath /\ UNCHANGED pkt

InNetwork == pkt # NoPacket /\ pkt.at \notin Endpoints

(* An NI hands a packet to its router.                                     *)
Inject ==
    /\ ready
    /\ ~InNetwork
    /\ \E e \in Endpoints, n \in Endpoints, ordered \in BOOLEAN :
          pkt' = [dest |-> n, at |-> Switch(RouterOf(e)), from |-> e,
                  inport |-> "Local", ordered |-> ordered]
    /\ UNCHANGED topologyVars

(* Slip: the input port is named like the output port it is joined to.     *)
OppositeSame(dirn) == dirn

(* dst_inport, the direction of the input port at the other end of a link: *)
(* like src_outport, "" where the topology does not set it.                *)
Opposite(dirn) ==
    CASE dirn = "East" -> "West"
      [] dirn = "West" -> "East"
      [] dirn = "North" -> "South"
      [] dirn = "South" -> "North"
      [] dirn \in {"Local", ""} -> dirn

Here == pkt.at - Switch(0)

(* The router computes the outport and the packet crosses its link.        *)
Hop ==
    /\ InNetwork
    /\ \E o \in OutportCompute(Here, pkt.dest, pkt.inport, pkt.ordered) :
          pkt' = [pkt EXCEPT !.at = o.next, !.from = pkt.at, !.inport = Opposite(o.dirn)]
    /\ UNCHANGED topologyVars

Next == BuildTables \/ Inject \/ Hop

Spec == Init /\ [][Next]_vars

(* The tables are built, and a packet in the network goes on: its router   *)
(* is woken (EveryMessageDelivered of GarnetNet).                          *)
FairSpec == Spec /\ WF_vars(BuildTables) /\ WF_vars(Hop)

-----------------------------------------------------------------------------
(* The packet is nowhere or at a switch of the mesh, having come in by the *)
(* input port that its router has towards the switch it came from, under   *)
(* the direction the topology gives that port.                             *)
TypeOK ==
    /\ mesh \in Meshes
    /\ dist \in [(0 .. LastSwitch) \X (0 .. LastSwitch) -> Nat]
    /\ pair \in (0 .. LastSwitch) \X (0 .. LastSwitch)
    /\ change \in BOOLEAN /\ ready \in BOOLEAN
    /\ pkt # NoPacket =>
          /\ pkt.dest \in Endpoints /\ pkt.at \in 0 .. LastSwitch
          /\ InNetwork =>
                \/ pkt.from \in Endpoints /\ RouterOf(pkt.from) = Here /\ pkt.inport = "Local"
                \/ \E d \in Directions(Here) : /\ pkt.from = Switch(Neighbour(Here, d))
                                              /\ pkt.inport = SrcOutport(d)

(* "XY routing is enforced (using link weights)" (Mesh_XY.py): with its    *)
(* weights the table's only choice is the one of outportComputeXY().       *)
TableFollowsXY ==
    (ready /\ mesh.kind = "Mesh_XY") =>
        \A r \in Routers, n \in Endpoints, ordered \in BOOLEAN :
            RouterOf(n) # r =>
                LookupRoutingTable(r, n, ordered) = OutportComputeXY(r, n, "Local")

(* A number for each channel, the link from a switch into router r: those  *)
(* of the NIs first, then all west channels, then column by column from    *)
(* the west the vertical channels and the channels east.                   *)
ChannelNumber(from, r) ==
    LET s == from - Switch(0)
        column == X(r) * (mesh.rows + 1)
    IN  IF from \in Endpoints THEN -1 - mesh.cols
        ELSE CASE X(s) > X(r) -> -1 - X(r)
               [] X(s) < X(r) -> column - 1
               [] X(s) = X(r) /\ Y(s) < Y(r) -> column + Y(r)
               [] OTHER -> column + mesh.rows - 1 - Y(r)

(* "to guarantee deadlock freedom" (Mesh_XY.py, Mesh_westfirst.py): every  *)
(* packet takes channels in increasing order, so that packets holding VCs  *)
(* never wait for each other in a cycle.                                   *)
ChannelsInOrder ==
    [][(Hop /\ InNetwork') =>
          ChannelNumber(pkt.from, Here) < ChannelNumber(pkt'.from, Here')]_vars

Hops(r, s) == Abs(X(s) - X(r)) + Abs(Y(s) - Y(r))

(* Every hop brings the packet one router closer, and it leaves the        *)
(* network only at its destination.                                        *)
EveryHopIsCloser ==
    [][Hop => IF InNetwork'
              THEN Hops(Here', RouterOf(pkt.dest)) = Hops(Here, RouterOf(pkt.dest)) - 1
              ELSE pkt'.at = pkt.dest]_vars

Ejected == pkt # NoPacket /\ pkt.at = pkt.dest

(* Every packet gets out of the network, at the NI it is for; no assertion *)
(* of outportComputeXY() stops it on the way.                              *)
EveryPacketEjected == InNetwork ~> Ejected
=============================================================================
