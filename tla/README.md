# Verification of the parallel Garnet network

The repository is a copy of gem5 whose Garnet network-on-chip simulator was
changed to wake its routers from a global event that may use a team of OpenMP
threads. This directory models five layers of it:

- **the wakeup layer**: who wakes a router, when, and on which of two paths
  (`Consumer`, `GarnetWakeup`, its service `WakeupService`, proofs in
  `GarnetWakeupProofs`);
- **the data path**: what network interfaces (NIs), links and routers do when
  they are woken (`GarnetTypes`, `NetworkLink`, `Router`, `NetworkInterface`,
  composed in `GarnetNet`), and the service it gives (`NetworkService`);
  `InjectionPorts` (an NI with several ports) and `NetworkBridge` (links
  between widths and clocks) treat two parts of it on their own;
- **routing**: how the routing tables are made and used (`Topology`,
  `RoutingUnit`);
- **the CPU's side**: the Ruby sequencer between CPU ports and the cache
  hierarchy (`Sequencer`, `CpuPorts`, proofs in `CpuPortsProofs`);
- **draining**: how the simulator empties all objects before a checkpoint
  (`DrainManager`, proofs in `DrainManagerProofs`).

Paths below are relative to `src/FinalProject/gem5/src/mem/ruby/`; `garnet/`
stands for `network/garnet/`. `sim/` and `python/` are under
`src/FinalProject/gem5/src/`.

## Inventory

| Part | State | Operations | Hard behaviour | Properties |
|---|---|---|---|---|
| Consumer (`common/Consumer.cc`) | pending ticks, one event | scheduleEventAbsolute, recordEvent, tryConsumeTick, processCurrentEvent, scheduleNextWakeup | recordEvent schedules no event; an event can fire for a tick already taken | PendingTicksCovered, TicksLeaveByService, EveryPendingTickTaken |
| Global wakeup (`garnet/GarnetNetwork.cc`) | ring of 128 masks, bitmap of used slots, deferred schedules per thread | registerWakeup, globalWakeup, runRoutersFromMask, computeNextWakeupTick, drainDeferredSchedules | two wakeup paths ordered only by event priority; the ring wraps; OpenMP may give fewer threads | WokenOncePerTick, GlobalFindsNothing, ActiveBitmapInSync, GlobalGoesToNextSlot |
| Links (`garnet/NetworkLink.cc`) | source queue, link buffer | wakeup | latency, one item per wakeup | OneReadyPerLink |
| Router (`garnet/Router.cc` and its units) | input VCs, output VC states, round-robin pointers | wakeup of InputUnit, OutputUnit, SwitchAllocator, CrossbarSwitch | credits and VC frees seen late; competition for a VC; order between VCs | CreditsConserved, IdleOutVcIsUnused, OutVcHeldOnce, OnePacketPerVc |
| NI (`garnet/NetworkInterface.cc`) | output VCs, stall queue, callbacks | wakeup (flitisize, send, eject, stall, reschedule), dequeueCallback | runs only when woken; room checked against an old size; multicast served in part | NothingStranded, CallbackWhileStalled, EjectionBufferBounded |
| Message buffers (`network/MessageBuffer.cc`) | queue, size at the start of the cycle | enqueue, dequeue, areNSlotsAvailable | a dequeue is seen one cycle later | EjectionBufferBounded |
| Network | all of the above | | | ImplementsService, EveryMessageDelivered |
| Topology (`network/Topology.cc`, `configs/topologies/Mesh_*.py`) | distance matrix | createLinks, extend_shortest_path | distances lowered in place | DistIsShortest |
| Routing unit (`garnet/RoutingUnit.cc`) | routing and weight tables | lookupRoutingTable, outportComputeXY, outportCompute | deadlock freedom by link weights; random choice | TableFollowsXY, ChannelsInOrder, EveryHopIsCloser, EveryPacketEjected |
| NI injection (`garnet/NetworkInterface.cc`) | VC allocator, busy counters, round robin per port | flitisizeMessage, calculateVC, scheduleOutputPort | several ports; a deadlock alarm counted per virtual network | AlarmMeansHeld, TakenOrReported, PortsAreIndependent |
| Network bridge (`garnet/NetworkBridge.cc`) | packet lengths and credit ratios per VC | flitisizeAndSend, neutralize, scheduleFlit, wakeup | flits split and joined; credits converted back much later; clock crossing | AssertionsHold, PacketsArriveIntact, IdleVcHasAllCredits, EverythingCrosses |
| Sequencer (`system/Sequencer.cc`, `RubyPort.cc`) | request table, count, retry list, deadlock check | recvTimingReq, makeRequest, the callbacks, trySendRetries, wakeup, drain | retries call back into the walk over a line's requests | OneRubyRequestPerLine, RetryWillCome; proved: see below |
| Drain manager (`sim/drain.cc`, `python/m5/simulate.py`) | manager and object states, count, exit events | drain, tryDrain, signalDrainDone, resume | objects disturb each other after signalling | DrainedMeansIdle, DrainEnds; proved: see below |

## The wakeup layer

`Consumer.tla` has the methods of a Consumer as operators on a record: `ticks`
(the sorted vector `m_wakeup_ticks`, as a set) and `when` (the tick of
`m_wakeup_event`).

`GarnetWakeup.tla` is the state machine. One action is one event of the queue
(`RouterEvent`, `LinkEvent`, `OutputUnitEvent`, `NIEvent`, `ControllerEvent`)
or one part of `globalWakeup`: `GlobalWakeup` takes the slot and opens the
region, `RunRouter` is one iteration of `runRoutersFromMask` on one thread, so
that the threads interleave, and `GlobalDone` is the barrier, the drain and
the rescheduling. What the objects compute is left to nondeterminism: a wakeup
may make any of the scheduling calls its code can make. Clock periods differ
per object. Events of equal tick and priority run in any order, which includes
the stack order of the code.

`registerWakeup` changes a slot and its bitmap bit in one step: the workers
only set bits, with atomic operations, and nobody reads either word before the
barrier. `MaybeLock` is left out for the same reason: each Consumer method is
atomic, by its lock inside the region and by having one thread outside.

`WakeupService.tla` is what waking promises: a requested tick stays pending
until its consumer is woken at it, once. `ImplementsWakeupService` maps it onto
`GarnetWakeup`, where two paths share the work.

## The data path

A channel `<<x, y>>` stands for the link from x to y, its credit link, the
output port of x and the input port of y. Ticks are relative to the current
one, and `Tick` moves everything one cycle closer when no event is left in
the cycle. All objects share one clock. The wakeup layer is replaced by a set
of pending ticks per consumer. This is justified by what is proved of it: each
pending tick gets its event, no tick is served twice, `globalWakeup` never
runs a router, and together they implement `WakeupService`.

`RouterWakeup` is the whole of `Router::wakeup`: buffer write with route
computation, credits, the two arbitration rounds, VC allocation, crossbar, and
the wakeups asked for. `NIWakeup` is the whole of `NetworkInterface::wakeup`.
`Enqueue` and `Dequeue` are the controllers' side of the message buffers.
Messages are names with a virtual network, a list of destinations and a number
of flits. Enqueue times are kept as ranks within a port's virtual network,
since the code only compares them there. The routing table is a constant
(`Route`); routing has its own modules.

`NetworkService.tla` is the abstract specification: a message is handed to
each of its destinations at most once, only after it was sent, and in an
ordered virtual network in the order its sender sent it. `ImplementsService`
maps it onto the history variables `sent` and `got` of `GarnetNet`.

`InjectionPorts.tla` is the injection side of one NI with several output ports
under traffic without end. A wakeup is two steps with nothing between them:
`FlitisizeMessages` (with `vc_busy_counter` and its panic) and
`ScheduleOutputLink` (one flit per port, and the credits that come back). The
router behind a port is external and returns credits when it likes. `heldFor`
is a history of one watched VC.

`NetworkBridge.tla` is a link with a bridge at each end, for flits in one
direction and credits in the other. The objects at its ends are reduced to what
they do with flits and credits.

## Routing

`Topology.tla` builds the two mesh topologies of the repository from their
links and weights and runs `extend_shortest_path` one pair of switches per
step, in place as the code does. `RoutingUnit.tla` then sends one packet at a
time through the mesh: `Inject` chooses a source, a destination and whether
the virtual network is ordered, `Hop` is one `outportCompute` and the link
behind the port. The choice of `rand()` is nondeterministic. A failed assertion
of `outportComputeXY` ends the simulation: the packet has no port and stays.

`outportComputeXY` finds ports by the name of their direction. `Mesh_XY.py` names
the ends of its links; `Mesh_westfirst.py` does not, so that there every
direction is unknown and `m_outports_dirn2idx[...]` inserts and returns port 0,
the way to some NI of the router the packet is at. The model has this
(`SrcOutport`, `OutportOfDirection`), and `XYAssumption` therefore confines XY
routing to `Mesh_XY`; west-first meshes are routed by table, the default.

`ChannelsInOrder` is the usual argument for freedom from deadlock: there is a
numbering of the channels that every route follows upwards, so that packets
holding channels cannot wait for each other in a cycle. One numbering (west
channels, then column by column the vertical channels and the channels east)
serves both topologies, and XY routing on `Mesh_XY`. Channels are numbered by
where they lead in the mesh, not by the names of ports.

## The sequencer

Requests of one cache line share one request to the cache hierarchy, and its
answer is walked over all of them. Each hit sends retries, which call back into
`makeRequest` before the walk goes on. The walk is therefore several actions
(`Callback`, `HitCallback`, `Reissue`, `PopFront`), with `RecvReqRetry` of the
ports between them and nothing else. `CpuPorts.tla` adds ports that hold a
refused packet, locked read-modify-writes, a hierarchy that answers the lines in
any order, and draining at any time.

## Draining

`DrainManager.tla` is the loop of `drain()` in `python/m5/simulate.py` over
`sim/drain.cc`. Objects hold pieces of work and hand them to each other, also
to objects that have already signalled. Objects without work may be made at any
time. `script` says where the configuration script is.

## Slips

Definitions marked *Slip* are wrong variants of the definition after them.
They are used only to show that a property notices such a mistake.

## Runs

| Run | Configuration | Shows |
|---|---|---|
| `wakeup_clocks` | `MCGarnetWakeup.cfg` | A router at half speed, 7 ticks: ticks are covered, leave only by a wakeup, and are eventually taken. |
| `wakeup_ring` | `MCGarnetWakeupRing.cfg` | Two routers, two threads, a ring of 3 slots that wraps, 4 ticks: no double wakeup, bitmap in step, next slot exact, nothing left for `globalWakeup`. |
| `parallel_work` | `MCGarnetWakeupWork.cfg` | **Violated**: the parallel region opens without a router to run. |
| `network` | `MCGarnetNet.cfg` | Two routers, a slow link between them, one buffer per VC, two-flit packets from two input ports competing for an output port, and a multicast that may get its VCs one after the other: flow control, VC ownership, order, no lost wakeup, the service. |
| `ejection` | `MCGarnetNetEject.cfg` | Two virtual networks and ejection buffers of one message: buffers bounded, callbacks exact, order through the stall queue. |
| `delivery` | `MCGarnetNetLive.cfg` | Unbounded ejection buffers and a two-stage router: every message arrives, a multicast that was served in part at each of its destinations. |
| `routing` | `MCRoutingUnit.cfg` | Meshes 1x3, 2x2 (two NIs per router), 2x3 and 3x3, both weightings by table and `Mesh_XY` also by XY, all sources and destinations: true shortest paths, XY enforced by the weights, minimal routes, no cyclic dependency, every packet ejected at its NI. |
| `bridge` | `MCNetworkBridge.cfg` | Seven combinations of widths and clocks: packets cross intact and in order, the code's assertions hold, an idle VC has all its credits, everything gets across (with the buffers assumed below). |
| `injection` | `MCInjectionPorts.cfg` | Two virtual networks on one port or two: the alarm means a packet held its VC beyond the threshold; a message is taken or the alarm raised; a port that gets credits sends, whatever the others do. |
| `sequencer` | `MCCpuPorts.cfg` | Two ports, two lines: one request per line in the hierarchy, and a refused port always has something left that will retry it (`RetryWillCome`; without software prefetches, see below). |
| `drain` | `MCDrainManager.cfg` | Three objects, three pieces of work, two late objects: `drain()` returns, and then nothing is left anywhere. |
| `stuck_tail` | `MCGarnetNetStuck.cfg` | **Violated**: with a bounded ejection buffer a message may never be ejected. |

**Bounds.** `MaxTick` bounds the served ticks of the wakeup runs; the system
goes on beyond it, so these two configurations do not check deadlock. The ring
is small so that it wraps within the horizon, and `Delays` lets a router ask
for a tick that makes `globalWakeup` skip a slot. The data path is bounded by
`Program`, the finite list of messages each controller sends, and time itself
is unbounded because ticks are relative. One buffer per VC and a link of
latency 2 make credits run out; two VCs let packets of one virtual network
overtake if the order check fails. In `network` the two-flit messages m1 (from a)
and m3 (from b) meet at the output port of r1 towards b, each holding one of its
two VCs. In `network` and `delivery` the multicast m2 follows m1 at the same NI:
while m1 holds a VC there is one left for two destinations, and when m1 is gone
there are two. A 3x3 mesh has every kind of
router (corner, edge, inner) and every turn.

`bridge` has as many buffers per VC as the largest ratio of widths. This is an
assumption: with fewer, a deserializer that waits to fill a wide flit and a
sender without credits wait for each other, so that `EverythingCrosses` says
nothing about that deadlock. Its widths divide one another.
`injection` watches the first VC of the ordered virtual network, with a
threshold of 1, counts `heldFor` to 2, and has messages of two flits for two
destinations, which get their VCs together or one after the other. The alarm
ends a simulation, so deadlock is not checked there. `sequencer` has a limit of
two requests, so that requests are refused, and a threshold of two cycles;
instruction fetches are left to loads, which they are treated like. Ages are
counted to twice the threshold. It does not check deadlock either: the check's
panic is an end. In `drain` work is handed on at most twice.

**Fairness.** `GarnetWakeup!FairSpec` is weak fairness of the whole next-state
relation: the simulation loop serves the head of the queue as long as there is
one, and OpenMP threads run to the barrier. `GarnetNet!FairSpec` is weak
fairness of `NetworkStep` (the same loop, and time) and of each `Dequeue`: a
controller takes what is delivered to it. No fairness is assumed of sending.
`NetworkBridge!FairSpec` is weak fairness of the event loop, and strong fairness
of draining each VC at the destination, whose switch allocator is a round robin.
`InjectionPorts!FairSpec` is weak fairness of the NI's wakeup (the NI
reschedules itself while it has work); nothing is assumed of the router, except
in the hypothesis of `PortsAreIndependent`. `DrainManager!FairSpec` is weak
fairness of each piece of work, of `FinishedDrain` and of `TryDrain`: the
event loop serves what is scheduled, and the script goes on.
`RoutingUnit!FairSpec` is weak fairness of `BuildTables` (a loop run to its end
at start-up) and of `Hop` (a router with a packet is woken again).

## What the violated properties show

- `ParallelRegionHasWork`: `globalWakeupEvent` has priority `Default_Pri + 1`
  (`garnet/GarnetNetwork.cc:118`), so at its tick the routers' own events have
  run and `tryConsumeTick` fails for every router of the mask. The comment at
  `garnet/GarnetNetwork.hh:305` says per-cycle work is dispatched to the
  thread pool. The simulation stays correct, but runs sequentially.
- `EveryMessageDelivered` with a bounded ejection buffer: a tail arriving in
  the cycle in which the controller took the buffer's last message is stalled,
  because `areNSlotsAvailable` does not see the dequeue before the next cycle.
  The callback it registers (`garnet/NetworkInterface.cc:297`) waits for a
  dequeue of a buffer that is empty, and `checkReschedule` does not look at
  the stall queue. Unless other traffic wakes the NI, the message stays there.
  Unbounded buffers, the default, are not affected (`delivery`).

## Proofs

`GarnetWakeupProofs.tla` proves the following for every topology, assignment
of clock periods, ring size, number of threads, threshold and horizon:

| Theorem | Statement |
|---|---|
| `TypeCorrect` | `Spec => []TypeOK` |
| `NoWakeupLost` | `Spec => []PendingTicksCovered` |
| `NeverWokenTwice` | `Spec => []WokenOncePerTick` |
| `GlobalNeverRunsRouter` | `Spec => []GlobalFindsNothing` |
| `BitmapMirrorsMasks` | `Spec => []ActiveBitmapInSync` |
| `TicksOnlyLeaveByService` | `Spec => TicksLeaveByService` |
| `GarnetImplementsWakeups` | `Spec => ImplementsWakeupService` |

Assumptions: `NeverAssumption`, `ConstantsAssumption` (types of the topology,
positive periods, delays and latency) and `KindsAssumption` (routers, links,
units, NIs and controllers are different objects).

`PendingTicksCovered` is not inductive: serving an event moves `now`, and only
ticks on a consumer's clock edge are found by `processCurrentEvent`. The
invariant `IInv` therefore says of every consumer that its ticks are on edges
of its clock, not past, and not before its event (`Covered`). It adds that
`globalWakeup` is not overdue, that while it runs every Consumer event is
strictly later than `now` (this is where the priority enters), and that
nothing is ever deferred. From the last two, no router of a mask has the
current tick pending, so `RunRouter` only empties the mask. The lemmas before
it treat clock arithmetic, the minimum of a set, and one Consumer operator
each. One lemma, `ConsumerEventStep`, covers every event that only asks for
later ticks, and each of the five kinds of event is shown to be of that form.

`CpuPortsProofs.tla` proves, for every set of lines and ports, every limit and
threshold and every mix of requests (assumption: `SequencerAssumption`, both
limits positive):

| Theorem | Statement |
|---|---|
| `SequencerTyped` | `Spec => []TypeOK` (never more requests than the limit) |
| `HeadIsIssued` | `Spec => []OneRubyRequestPerLine` |
| `CallbacksFit` | `Spec => []CallbackFitsRequest` |
| `CountIsExact` | `Spec => []CountMatchesTable` |
| `NoPortIsForgotten` | `Spec => []RefusedIsListed` |
| `DeadlockIsReported` | `Spec => []StuckIsReported` |
| `DrainEndsWithHit` | `Spec => [](NoCheckWhileDraining /\ DrainNotMissed)` |

None is inductive alone, because they only speak of the state between
callbacks. `DrainNotMissed`, like `RetryWillCome`, holds of the model, which leaves
out software prefetches: the hit of one returns (`system/Sequencer.cc:746-749`)
before `trySendRetries` and the test for the end of a drain, and if it is the
last request nothing is left that would do either. `IInv` says what holds inside
a callback: the line that is walked has a
front and nothing in the hierarchy; the refused ports are on the retry list or
on the copy that is worked on, not on both; the count is one behind the table
while a request is reported; a drain waits for a request unless its hit is being
reported; and a request's age plus the time to the check stays below two
thresholds.

`DrainManagerProofs.tla` proves, for any number of objects and pieces of work
(assumption: `DrainAssumption`, finitely many objects, different from the late
ones):

| Theorem | Statement |
|---|---|
| `DrainIsComplete` | `Spec => []DrainedMeansIdle` |
| `CountIsOfDraining` | `Spec => []CountsDraining` |
| `DrainNeverPanics` | `Spec => []NoPanic` |
| `ExitBelongsToDrain` | `Spec => []FinishedIsOurs` |
| `ResumeIsComplete` | `Spec => []ResumedMeansRunning` |

`DrainEnds` of the run `drain` would notice a missing exit event;
`ExitBelongsToDrain` is about one too many. `IInv` is a disjunction of five phases (running, drained, resuming,
draining, asking again), each fixing the states the objects may be in.

Properties that are proved and in no run: `CallbackFitsRequest`,
`CountMatchesTable`, `RefusedIsListed`, `StuckIsReported`,
`NoCheckWhileDraining`, `DrainNotMissed`, `CountsDraining`, `NoPanic`,
`FinishedIsOurs`, `ResumedMeansRunning`, and `TypeOK` of `CpuPorts`.

Only model-checked: all liveness (out of the prover's reach), `RetryWillCome`,
`GlobalGoesToNextSlot`, and all properties of the data path, the bridge, the
injection ports and routing.

## Not modelled

The repository holds the whole of gem5, over a million lines; the models cover
the parts that carry the parallel Garnet network and what stands next to it, a
fraction of a percent of them. The project is kept to a dozen runs, so that all
of it can be checked again in one go; of the parts below, those named first
could be modelled the same way and were left out for that reason.

- The event queue's linked bins, parallel event queues with their barriers, the
  stall maps, recycling and random delays of `MessageBuffer`, statistics, and
  the synthetic traffic tester with its traffic patterns.
- Of the sequencer: LL/SC, TLBI, HTM, MemSync and invL1, software prefetches,
  cache warm-up and cool-down, atomic and functional accesses. That refused
  ports are served in a fair order is not checked.
- Of draining: the destruction of objects, and the invalidation of iterators
  when `resume()` makes an object be registered in its loop (`sim/drain.cc:120`).
- Several input ports of an NI; a bound on how long a prompt router leaves a VC
  held.
- Bridges between widths that do not divide one another.
- Wiring of links and ports (`makeExtInLink` and the like): constants of the
  wakeup and data path models.
- Links that carry some virtual networks only, and the other topology scripts.
- Different clocks in `GarnetNet`; `OutputUnit`'s own event there.
- Functional access, the protocols and their controllers, the simple network.
- The experiment scripts (process and file I/O) and the rest of gem5.

## Plan

1. Proofs about the data path: `TypeOK`, `CreditsConserved` and
   `IdleOutVcIsUnused` for every topology and buffer size.
2. Proofs about XY routing: `ChannelsInOrder` and `EveryHopIsCloser` for every
   mesh size.
3. The data path with several clocks, and with bridges in it.
