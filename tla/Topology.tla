------------------------------ MODULE Topology ------------------------------
(***************************************************************************)
(* Topology::createLinks(): the all-pairs shortest paths of a mesh, from   *)
(* which the routing tables of the routers are made.                       *)
(*                                                                         *)
(* Switches are numbered as in Topology.cc: first the endpoints, here only *)
(* their output side (nothing is routed to the input side), then the       *)
(* routers.  Endpoint n belongs to router n % NumRouters.                  *)
(***************************************************************************)
EXTENDS Integers, FiniteSetsExt

CONSTANTS
    Meshes,     \* records: rows, cols, perRouter (endpoints), kind (of
                \* weights), algorithm (of routing)
    Infinite    \* INFINITE_LATENCY, 10000 in the code

VARIABLES
    mesh,       \* the network that was configured
    dist,       \* the distance matrix of shortest_path()
    pair,       \* the pair <<i, j>> the sweep is at
    change,     \* did this sweep change a distance?
    ready       \* the tables are made

topologyVars == <<mesh, dist, pair, change, ready>>

NumRouters == mesh.rows * mesh.cols
Routers == 0 .. NumRouters - 1
Endpoints == 0 .. NumRouters * mesh.perRouter - 1
RouterOf(n) == n % NumRouters
Switch(r) == NumRouters * mesh.perRouter + r
LastSwitch == Switch(NumRouters - 1)

X(r) == r % mesh.cols
Y(r) == r \div mesh.cols

(***************************************************************************)
(* The links of Mesh_XY.py and Mesh_westfirst.py, by the side of the       *)
(* router they leave at, and the weights that are to enforce XY or         *)
(* west-first routing.                                                     *)
(***************************************************************************)
Neighbour(r, dirn) ==
    CASE dirn = "East" -> r + 1
      [] dirn = "West" -> r - 1
      [] dirn = "North" -> r + mesh.cols
      [] dirn = "South" -> r - mesh.cols

Directions(r) ==
    (IF X(r) + 1 < mesh.cols THEN {"East"} ELSE {})
        \cup (IF X(r) > 0 THEN {"West"} ELSE {})
        \cup (IF Y(r) + 1 < mesh.rows THEN {"North"} ELSE {})
        \cup (IF Y(r) > 0 THEN {"South"} ELSE {})

LinkWeight(dirn) ==
    CASE mesh.kind = "Mesh_XY" -> IF dirn \in {"East", "West"} THEN 1 ELSE 2
      [] mesh.kind = "Mesh_westfirst" -> IF dirn = "West" THEN 1 ELSE 2

(* src_outport of a link: Mesh_XY.py names the side, Mesh_westfirst.py     *)
(* names nothing and leaves the default of BasicLink.py.                   *)
SrcOutport(side) == IF mesh.kind = "Mesh_XY" THEN side ELSE ""

(* The output ports of a router: switch and weight behind each, and the    *)
(* direction by which the router knows the port.  External links have the  *)
(* default weight 1.                                                       *)
Outports(r) ==
    {[next |-> n, weight |-> 1, dirn |-> "Local"] :
        n \in {e \in Endpoints : RouterOf(e) = r}}
    \cup {[next |-> Switch(Neighbour(r, d)), weight |-> LinkWeight(d),
            dirn |-> SrcOutport(d)] : d \in Directions(r)}

(* topology_weights as createLinks() fills it.                             *)
TopologyWeights ==
    [p \in (0 .. LastSwitch) \X (0 .. LastSwitch) |->
        LET links == {o \in UNION {Outports(r) : r \in {q \in Routers : Switch(q) = p[1]}} :
                         o.next = p[2]}
        IN  IF p[1] = p[2] THEN 0
            ELSE IF links = {} THEN Infinite
            ELSE (CHOOSE o \in links : TRUE).weight]

TopologyInit ==
    /\ mesh \in Meshes
    /\ dist = TopologyWeights
    /\ pair = <<0, 0>>
    /\ change = FALSE
    /\ ready = FALSE

(* Slip: one sweep is taken to be enough.                                  *)
SweepAgainNever(changed) == FALSE

SweepAgain(changed) == changed

(***************************************************************************)
(* extend_shortest_path(), one pair: the distance is lowered, in place, to *)
(* the best way over any switch.  Sweeps are repeated while they change    *)
(* something.                                                              *)
(***************************************************************************)
ExtendShortestPath ==
    LET i == pair[1]
        j == pair[2]
        minimum == Min({dist[i, j]} \cup {dist[i, k] + dist[k, j] : k \in 0 .. LastSwitch})
        changed == change \/ minimum # dist[i, j]
    IN  /\ ~ready
        /\ dist' = [dist EXCEPT ![i, j] = minimum]
        /\ CASE j < LastSwitch ->
                  pair' = <<i, j + 1>> /\ change' = changed /\ UNCHANGED ready
             [] j = LastSwitch /\ i < LastSwitch ->
                  pair' = <<i + 1, 0>> /\ change' = changed /\ UNCHANGED ready
             [] OTHER ->
                  pair' = <<0, 0>> /\ change' = FALSE /\ ready' = ~SweepAgain(changed)
        /\ UNCHANGED mesh

(* Slip: a link that does not lengthen the way counts as on it.            *)
LinkIsShortestPathToNodeLoose(r, port, n) ==
    port.weight + dist[port.next, n] >= dist[Switch(r), n]

LinkIsShortestPathToNode(r, port, n) ==
    port.weight + dist[port.next, n] = dist[Switch(r), n]

(* Slip: the entry is kept by router, for the first of its endpoints.      *)
RoutingTableEntryByRouter(r, port) ==
    {n \in Endpoints : LinkIsShortestPathToNode(r, port, RouterOf(n))}

(* shortest_path_to_node(): the endpoints in the port's table entry.       *)
RoutingTableEntry(r, port) == {n \in Endpoints : LinkIsShortestPathToNode(r, port, n)}

-----------------------------------------------------------------------------
Abs(i) == IF i < 0 THEN -i ELSE i

(* The least total weight of a way from router r to router s of the mesh.  *)
MeshDistance(r, s) ==
    Abs(X(s) - X(r)) * LinkWeight(IF X(s) > X(r) THEN "East" ELSE "West")
        + Abs(Y(s) - Y(r)) * LinkWeight("North")

(* The in-place sweeps of extend_shortest_path() end with the true         *)
(* shortest distances of the mesh, although each sweep mixes old and new   *)
(* entries; endpoints are one further than their router.                   *)
DistIsShortest ==
    ready => \A r \in Routers :
        /\ \A s \in Routers : dist[Switch(r), Switch(s)] = MeshDistance(r, s)
        /\ \A n \in Endpoints : dist[Switch(r), n] = MeshDistance(r, RouterOf(n)) + 1
=============================================================================
