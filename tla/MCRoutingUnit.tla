---------------------------- MODULE MCRoutingUnit ----------------------------
(* Meshes up to three by three: both topologies routed by table, Mesh_XY   *)
(* also by XY; the two by two mesh has two endpoints at each router.       *)
EXTENDS RoutingUnit

MCMeshes ==
    {[rows |-> s[1], cols |-> s[2], perRouter |-> s[3], kind |-> k[1], algorithm |-> k[2]] :
        s \in {<<1, 3, 1>>, <<2, 2, 2>>, <<2, 3, 1>>, <<3, 3, 1>>},
        k \in {<<"Mesh_XY", "TABLE_">>, <<"Mesh_XY", "XY_">>, <<"Mesh_westfirst", "TABLE_">>}}
=============================================================================
