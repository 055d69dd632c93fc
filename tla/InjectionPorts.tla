--------------------------- MODULE InjectionPorts ---------------------------
(***************************************************************************)
(* The injection side of a NetworkInterface with several output ports, for *)
(* traffic without end: VC allocation with its deadlock counter, and the   *)
(* arbitration of each port.  A wakeup is two steps with nothing between   *)
(* them; the NI runs in every cycle in which it has a message, a flit or a *)
(* credit.  A message waits in the buffer of its virtual network until all *)
(* its destinations have a VC.                                             *)
(***************************************************************************)
EXTENDS Integers, FiniteSets, FiniteSetsExt

CONSTANTS
    NumVnets, VcPerVnet,
    PortMaps,      \* which port a virtual network uses: the maps considered
    Ordered,       \* virtual networks with point-to-point order
    Buffers,       \* buffer slots of a VC
    Messages,      \* [flits, dests] of the messages the protocol sends
    Threshold,     \* m_deadlock_threshold
    Watch,         \* the VCs one of which is watched
    MaxHeld        \* heldFor is counted up to this bound

Vnets == 0 .. NumVnets - 1
VCs == 0 .. NumVnets * VcPerVnet - 1
VnetOf(v) == v \div VcPerVnet
VcsOf(vn) == {v \in VCs : VnetOf(v) = vn}

VARIABLES
    portOf,            \* the configuration
    watched,           \* any one of the VCs, for the properties
    waiting,           \* the message at the head of a virtual network's buffer
    alloc,             \* m_vc_allocator
    busy,              \* vc_busy_counter
    active,            \* VCs whose outVcState is ACTIVE_
    flits,             \* flits left in niOutVcs
    older,             \* VCs whose enqueue time is before that of a VC
    flying,            \* flits of a VC whose credits are out
    rr,                \* _vcRoundRobin of the ports
    heldFor,           \* wakeups since the watched VC was allocated (history)
    linking,           \* the wakeup has done with the messages
    panicked

config == <<portOf, watched>>
vars == <<config, waiting, alloc, busy, active, flits, older, flying, rr, heldFor,
          linking, panicked>>

None == [flits |-> 0, dests |-> 0]
Ports == {portOf[vn] : vn \in Vnets}
PortVcs(p) == {v \in VCs : portOf[VnetOf(v)] = p}
Credits(v) == Buffers - flying[v]

Init ==
    /\ portOf \in PortMaps /\ watched \in Watch
    /\ waiting = [vn \in Vnets |-> None]
    /\ alloc = [vn \in Vnets |-> 0]
    /\ busy = [vn \in Vnets |-> 0]
    /\ active = {}
    /\ flits = [v \in VCs |-> 0]
    /\ older = [v \in VCs |-> {}]
    /\ flying = [v \in VCs |-> 0]
    /\ rr = [p \in Ports |-> 0]
    /\ heldFor = 0
    /\ linking = FALSE /\ panicked = FALSE

Enqueue(vn) ==
    /\ ~panicked /\ ~linking /\ waiting[vn] = None
    /\ \E m \in Messages : waiting' = [waiting EXCEPT ![vn] = m]
    /\ UNCHANGED <<config, alloc, busy, active, flits, older, flying, rr, heldFor, linking,
                   panicked>>
-----------------------------------------------------------------------------
(* When the search of calculateVC in its virtual network comes to a VC *)
Turn(v) == (v - alloc[VnetOf(v)]) % VcPerVnet

(* The first idle VCs of a virtual network, as many as the message has     *)
(* destinations                                                            *)
Acquired(vn) ==
    LET idle == VcsOf(vn) \ active
    IN  {v \in idle : Cardinality({w \in idle : Turn(w) < Turn(v)}) < waiting[vn].dests}

Fails(vn) == Cardinality(Acquired(vn)) < waiting[vn].dests

(* Slip: a free VC does not reset the counter *)
BusyCountKeeps(vn) == IF Fails(vn) THEN busy[vn] + 1 ELSE busy[vn]

(* Slip: the counter starts anew with each search *)
BusyCountRestarts(vn) == IF Fails(vn) THEN 1 ELSE 0

(* Each free VC resets vc_busy_counter; the call without one counts it up *)
BusyCount(vn) ==
    IF waiting[vn] = None THEN busy[vn]
    ELSE (IF Acquired(vn) # {} THEN 0 ELSE busy[vn]) + (IF Fails(vn) THEN 1 ELSE 0)

(* The first part of wakeup(): flitisize the messages.  The alarm ends the *)
(* simulation.                                                             *)
FlitisizeMessages ==
    LET IsFresh(v) == v \in Acquired(VnetOf(v))
    IN
    /\ ~panicked /\ ~linking
    /\ busy' = [vn \in Vnets |-> BusyCount(vn)]
    /\ panicked' = \E vn \in Vnets : busy'[vn] > Threshold
    /\ linking' = TRUE
    /\ waiting' = [vn \in Vnets |->
         IF Fails(vn) THEN [waiting[vn] EXCEPT !.dests = @ - Cardinality(Acquired(vn))] ELSE None]
    /\ alloc' = [vn \in Vnets |->
         IF Acquired(vn) = {} THEN alloc[vn]
         ELSE (alloc[vn] + 1 + Max({Turn(v) : v \in Acquired(vn)})) % VcPerVnet]
    /\ active' = active \cup {v \in VCs : IsFresh(v)}
    /\ flits' = [v \in VCs |-> IF IsFresh(v) THEN waiting[VnetOf(v)].flits ELSE flits[v]]
    /\ older' = [v \in VCs |-> IF IsFresh(v) THEN {w \in VcsOf(VnetOf(v)) : flits[w] > 0}
                               ELSE older[v]]
    /\ heldFor' = IF IsFresh(watched) THEN 1
                  ELSE IF watched \in active /\ heldFor < MaxHeld THEN heldFor + 1 ELSE heldFor
    /\ UNCHANGED <<config, flying, rr>>
-----------------------------------------------------------------------------
MaySend(v) ==
    /\ flits[v] > 0
    /\ Credits(v) > 0
    /\ VnetOf(v) \in Ordered => older[v] = {}

After(p, v) == (v - rr[p] - 1) % Cardinality(VCs)    \* turns from the last winner
First(p, vcs) == {v \in vcs : \A w \in vcs : After(p, v) <= After(p, w)}

(* Slip: a port takes the turns of all VCs, also those of other ports *)
ScheduledAnyPort(p) ==
    {v \in First(p, {w \in VCs : flits[w] > 0}) : v \in PortVcs(p) /\ MaySend(v)}

(* scheduleOutputPort: the next VC after the last winner that may send *)
Scheduled(p) == First(p, {v \in PortVcs(p) : MaySend(v)})

(* What comes back over the credit links: one credit of a port in a cycle, *)
(* when the router likes                                                   *)
Returns == {r \in SUBSET {v \in VCs : flying[v] > 0} :
               \A v, w \in r : portOf[VnetOf(v)] = portOf[VnetOf(w)] => v = w}

(* The rest: one flit on the link of each port, then one credit from each *)
ScheduleOutputLink ==
    /\ ~panicked /\ linking
    /\ \E returned \in Returns :
         LET IsSent(v) == v \in Scheduled(portOf[VnetOf(v)])
             freed == {v \in returned : flying[v] = 1 /\ flits[v] = 0}
         IN
         /\ flits' = [v \in VCs |-> IF IsSent(v) THEN flits[v] - 1 ELSE flits[v]]
         /\ older' = [v \in VCs |-> {w \in older[v] : flits'[w] > 0}]
         /\ flying' = [v \in VCs |->
              flying[v] + (IF IsSent(v) THEN 1 ELSE 0) - (IF v \in returned THEN 1 ELSE 0)]
         /\ rr' = [p \in Ports |-> IF Scheduled(p) = {} THEN rr[p]
                                   ELSE CHOOSE v \in Scheduled(p) : TRUE]
         /\ active' = active \ freed
         /\ heldFor' = IF watched \in freed THEN 0 ELSE heldFor
    /\ linking' = FALSE
    /\ UNCHANGED <<config, waiting, alloc, busy, panicked>>

Wakeup == FlitisizeMessages \/ ScheduleOutputLink
Next == (\E vn \in Vnets : Enqueue(vn)) \/ Wakeup

Spec == Init /\ [][Next]_vars

(* The NI is woken as long as there is something to do *)
FairSpec == Spec /\ WF_vars(Wakeup)
-----------------------------------------------------------------------------
(* The alarm "Possible network deadlock" is never raised by several short  *)
(* waits, nor by those of different messages: every VC of the virtual      *)
(* network has been held by one packet for more than the threshold.        *)
AlarmMeansHeld ==
    busy[VnetOf(watched)] > Threshold => heldFor > Threshold

(* A message gets its VCs or the alarm is raised, whatever the router does *)
TakenOrReported == \A vn \in Vnets : waiting[vn] # None ~> waiting[vn] = None \/ panicked

(* A port whose router goes on returning credits sends all it is given,    *)
(* whatever becomes of the other ports and virtual networks                *)
PortsAreIndependent ==
    (\A w \in VCs : []<>(flying[w] = 0 \/ portOf[VnetOf(w)] # portOf[VnetOf(watched)]))
      => (flits[watched] > 0 ~> flits[watched] = 0 \/ panicked)
=============================================================================
