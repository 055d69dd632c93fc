------------------------- MODULE GarnetWakeupProofs -------------------------
(***************************************************************************)
(* Proofs about GarnetWakeup, for every topology, clock assignment, ring   *)
(* size, number of threads and threshold.                                  *)
(***************************************************************************)
EXTENDS GarnetWakeup, TLAPS, WellFoundedInduction

-----------------------------------------------------------------------------
(* Clock edges and minima *)

(* EdgeAt rounds up to a tick of the clock *)
LEMMA EdgeAtFacts ==
    ASSUME NEW p \in Nat \ {0}, NEW t \in Nat
    PROVE  /\ EdgeAt(t, p) \in Nat
           /\ t <= EdgeAt(t, p)
           /\ OnEdge(EdgeAt(t, p), p)
  BY DEF EdgeAt, OnEdge

(* A tick of the clock is its own edge *)
LEMMA EdgeAtOnEdge ==
    ASSUME NEW p \in Nat \ {0}, NEW t \in Nat, OnEdge(t, p)
    PROVE  EdgeAt(t, p) = t
<1>1. PICK k \in Nat : t = k * p
  BY DEF OnEdge
<1>2. (k * p + p - 1) \div p = k
  OBVIOUS
<1> QED BY <1>1, <1>2 DEF EdgeAt

(* EdgeAt(t, p) is the first tick of the clock at or after t *)
LEMMA EdgeAtIsFirst ==
    ASSUME NEW p \in Nat \ {0}, NEW t \in Nat, NEW u \in Nat,
           OnEdge(u, p), t <= u
    PROVE  EdgeAt(t, p) <= u
<1>1. PICK k \in Nat : u = k * p
  BY DEF OnEdge
<1>2. (t + p - 1) \div p <= k
  BY <1>1
<1>3. ASSUME NEW a \in Nat, a <= k PROVE a * p <= k * p
  BY <1>3
<1>4. (t + p - 1) \div p \in Nat
  OBVIOUS
<1> QED BY <1>1, <1>2, <1>3, <1>4 DEF EdgeAt

(* clockEdge(Cycles(d)) is later than the current tick for d > 0 *)
LEMMA ClockEdgeFacts ==
    ASSUME NEW p \in Nat \ {0}, NEW t \in Nat, NEW d \in Nat \ {0}
    PROVE  /\ ClockEdge(t, p, d) \in Nat
           /\ t < ClockEdge(t, p, d)
           /\ OnEdge(ClockEdge(t, p, d), p)
<1>1. PICK k \in Nat : EdgeAt(t, p) = k * p
  BY DEF EdgeAt
<1>2. d * p \in Nat /\ d * p >= 1
  OBVIOUS
<1>3. k * p + d * p = (k + d) * p
  OBVIOUS
<1>4. ((k + d) * p) \div p = k + d
  OBVIOUS
<1>5. ClockEdge(t, p, d) = (k + d) * p
  BY <1>1, <1>3 DEF ClockEdge
<1>6. OnEdge(ClockEdge(t, p, d), p)
  BY <1>5, <1>4 DEF OnEdge
<1>7. EdgeAt(t, p) \in Nat /\ t <= EdgeAt(t, p)
  BY EdgeAtFacts
<1>8. ASSUME NEW e \in Nat, t <= e, NEW x \in Nat, x >= 1
      PROVE  e + x \in Nat /\ t < e + x
  BY <1>8
<1>9. ClockEdge(t, p, d) \in Nat /\ t < ClockEdge(t, p, d)
  BY <1>2, <1>7, <1>8 DEF ClockEdge
<1> QED BY <1>6, <1>9

(* The order < on the naturals, as a relation *)
Less == OpToRel(<, Nat)

(* Min of a non-empty set of naturals is its least element *)
LEMMA MinFacts ==
    ASSUME NEW T \in SUBSET Nat, T # {}
    PROVE  Min(T) \in T /\ \A t \in T : Min(T) <= t
<1>1. IsWellFoundedOn(Less, Nat)
  BY NatLessThanWellFounded, Zenon DEF Less
<1>2. Less = {ss \in Nat \X Nat : ss[1] < ss[2]}
  BY DEF Less, OpToRel
<1>3. PICK x \in T : \A y \in T : <<y, x>> \notin Less
  BY <1>1, WFMin
<1>4. \A y \in T : x <= y
  <2> SUFFICES ASSUME NEW y \in T, y < x PROVE FALSE
    OBVIOUS
  <2>1. <<y, x>> \in Less
    BY <1>2
  <2> QED BY <1>3, <2>1
<1> QED BY <1>4 DEF Min
-----------------------------------------------------------------------------
(* One consumer *)

(* What holds of a consumer with clock period p at tick at, outside its    *)
(* own wakeup(): its pending ticks and its event are clock edges that are  *)
(* not past, and the event is at or before every pending tick.             *)
Covered(c, p, at) ==
    /\ c \in ConsumerState
    /\ \A t \in c.ticks : /\ OnEdge(t, p)
                          /\ at <= t
                          /\ c.when # Never
                          /\ c.when <= t
    /\ c.when # Never => OnEdge(c.when, p) /\ at <= c.when

(* scheduleNextWakeup covers every tick that is not past, and moves the    *)
(* event nowhere else.                                                     *)
LEMMA ScheduleNextWakeupFacts ==
    ASSUME NEW c \in ConsumerState, NEW edge \in Nat
    PROVE  LET d == ScheduleNextWakeup(c, edge)
           IN  /\ d \in ConsumerState
               /\ d.ticks = c.ticks
               /\ d.when = c.when \/ (d.when \in c.ticks /\ edge <= d.when)
               /\ \A t \in c.ticks : edge <= t => d.when # Never /\ d.when <= t
<1> DEFINE due == {t \in c.ticks : t >= edge}
<1>1. c.ticks \in SUBSET Nat /\ c.when \in Nat \cup {Never}
      /\ c = [ticks |-> c.ticks, when |-> c.when]
  BY DEF ConsumerState
<1>2. CASE due = {}
  <2>1. ScheduleNextWakeup(c, edge) = c
    BY <1>2 DEF ScheduleNextWakeup
  <2> QED BY <1>1, <1>2, <2>1
<1>3. CASE due # {}
  <2>1. Min(due) \in due /\ \A t \in due : Min(due) <= t
    BY <1>1, <1>3, MinFacts
  <2>2. CASE c.when = Never \/ Min(due) < c.when
    <3>1. ScheduleNextWakeup(c, edge) = [c EXCEPT !.when = Min(due)]
      BY <1>3, <2>2 DEF ScheduleNextWakeup
    <3>2. /\ ScheduleNextWakeup(c, edge).ticks = c.ticks
          /\ ScheduleNextWakeup(c, edge).when = Min(due)
          /\ ScheduleNextWakeup(c, edge) \in ConsumerState
      BY <1>1, <2>1, <3>1 DEF ConsumerState
    <3> QED BY <1>1, <2>1, <3>2, NeverAssumption
  <2>3. CASE ~(c.when = Never \/ Min(due) < c.when)
    <3>1. ScheduleNextWakeup(c, edge) = c
      BY <2>3 DEF ScheduleNextWakeup
    <3> QED BY <1>1, <2>1, <2>3, <3>1
  <2> QED BY <2>2, <2>3
<1> QED BY <1>2, <1>3

(* Scheduling ticks that are still to come keeps a consumer covered *)
LEMMA ScheduleKeepsCovered ==
    ASSUME NEW p \in Nat \ {0}, NEW at \in Nat, NEW c, Covered(c, p, at),
           NEW ts \in SUBSET Nat, \A t \in ts : at <= t
    PROVE  LET d == ScheduleEventAbsolute(c, ts, at, p)
           IN  /\ Covered(d, p, at)
               /\ c.ticks \subseteq d.ticks
               /\ \A t \in d.ticks \ c.ticks : \E u \in ts : u <= t
               /\ d.when = c.when \/ (d.when # Never /\ d.when \in d.ticks)
<1>1. CASE ts = {}
  <2>1. ScheduleEventAbsolute(c, ts, at, p) = c
    BY <1>1 DEF ScheduleEventAbsolute
  <2> QED BY <2>1
<1>2. CASE ts # {}
  <2> DEFINE more == {EdgeAt(t, p) : t \in ts}
             b    == [c EXCEPT !.ticks = @ \cup more]
             edge == EdgeAt(at, p)
             d    == ScheduleNextWakeup(b, edge)
  <2>1. ScheduleEventAbsolute(c, ts, at, p) = d
    BY <1>2 DEF ScheduleEventAbsolute
  <2>2. /\ more \in SUBSET Nat
        /\ \A t \in more : at <= t /\ OnEdge(t, p) /\ \E u \in ts : u <= t
    <3>1. \A t \in ts : /\ EdgeAt(t, p) \in Nat
                        /\ at <= EdgeAt(t, p)
                        /\ t <= EdgeAt(t, p)
                        /\ OnEdge(EdgeAt(t, p), p)
      <4> TAKE t \in ts
      <4>1. t \in Nat /\ at <= t
        OBVIOUS
      <4>2. /\ EdgeAt(t, p) \in Nat
            /\ t <= EdgeAt(t, p)
            /\ OnEdge(EdgeAt(t, p), p)
        BY <4>1, EdgeAtFacts
      <4> QED BY <4>1, <4>2
    <3> QED BY <3>1
  <2>3. /\ c.ticks \in SUBSET Nat
        /\ c.when \in Nat \cup {Never}
        /\ c = [ticks |-> c.ticks, when |-> c.when]
    BY DEF Covered, ConsumerState
  <2>4. b = [ticks |-> c.ticks \cup more, when |-> c.when]
    BY <2>3
  <2>5. b \in ConsumerState /\ b.ticks = c.ticks \cup more /\ b.when = c.when
    BY <2>2, <2>3, <2>4 DEF ConsumerState
  <2>6. \A t \in b.ticks : OnEdge(t, p) /\ at <= t
    BY <2>2, <2>3, <2>5 DEF Covered
  <2>7. edge \in Nat /\ at <= edge
    BY EdgeAtFacts
  <2>8. \A t \in b.ticks : edge <= t
    BY <2>2, <2>3, <2>5, <2>6, EdgeAtIsFirst
  <2> HIDE DEF more, b, edge
  <2>9. /\ d \in ConsumerState
        /\ d.ticks = b.ticks
        /\ d.when = c.when \/ (d.when \in b.ticks /\ edge <= d.when)
        /\ \A t \in b.ticks : d.when # Never /\ d.when <= t
    BY <2>5, <2>7, <2>8, ScheduleNextWakeupFacts
  <2> HIDE DEF d
  <2>10. Covered(d, p, at)
    <3>1. d.when # Never => OnEdge(d.when, p) /\ at <= d.when
      BY <2>6, <2>9 DEF Covered
    <3> QED BY <2>6, <2>9, <3>1 DEF Covered
  <2>11. d.when = c.when \/ (d.when # Never /\ d.when \in d.ticks)
    BY <2>9
  <2>12. \A t \in d.ticks \ c.ticks : \E u \in ts : u <= t
    BY <2>2, <2>5, <2>9
  <2> QED BY <2>1, <2>5, <2>9, <2>10, <2>11, <2>12
<1> QED BY <1>1, <1>2

(* processCurrentEvent at the tick of the event leaves the consumer        *)
(* covered, and without the current tick.                                  *)
LEMMA ProcessKeepsCovered ==
    ASSUME NEW p \in Nat \ {0}, NEW at \in Nat, NEW c, Covered(c, p, at),
           c.when = at,
           NEW asked \in SUBSET Nat, \A t \in asked : at < t /\ OnEdge(t, p)
    PROVE  LET d == ProcessCurrentEvent(c, asked, at, p)
           IN  /\ Covered(d, p, at)
               /\ at \notin d.ticks
               /\ c.ticks \ d.ticks \subseteq {at}
               /\ \A t \in d.ticks \ c.ticks : at \in c.ticks /\ at < t
               /\ EdgeAt(at, p) = at
<1>1. /\ c.ticks \in SUBSET Nat
      /\ c = [ticks |-> c.ticks, when |-> c.when]
      /\ at # Never
      /\ OnEdge(at, p)
  BY NeverAssumption DEF Covered, ConsumerState
<1>2. EdgeAt(at, p) = at
  BY <1>1, EdgeAtOnEdge
<1> DEFINE rest == IF at \in c.ticks THEN (c.ticks \ {at}) \cup asked
                                     ELSE c.ticks \ {at}
           b    == [ticks |-> rest, when |-> Never]
           d    == ScheduleNextWakeup(b, at)
<1>3. ProcessCurrentEvent(c, asked, at, p) = d
  <2> DEFINE left == [ConsumeTick(c, at) EXCEPT !.when = Never]
  <2>0. ConsumeTick(c, at) = [ticks |-> c.ticks \ {at}, when |-> c.when]
    BY <1>1 DEF ConsumeTick
  <2>1. left = [ticks |-> c.ticks \ {at}, when |-> Never]
    BY <2>0
  <2> HIDE DEF left
  <2>2. RecordEvent(left, asked) = [ticks |-> (c.ticks \ {at}) \cup asked,
                                   when |-> Never]
    BY <2>1 DEF RecordEvent
  <2>3. (IF at \in c.ticks THEN RecordEvent(left, asked) ELSE left) = b
    BY <2>1, <2>2
  <2> QED BY <1>2, <2>3 DEF ProcessCurrentEvent, left
<1>4. rest \in SUBSET Nat /\ \A t \in rest : OnEdge(t, p) /\ at < t
  BY <1>1 DEF Covered
<1> HIDE DEF rest
<1>5. b \in ConsumerState /\ b.ticks = rest /\ b.when = Never
  BY <1>4 DEF ConsumerState
<1> HIDE DEF b
<1>6. /\ d \in ConsumerState
      /\ d.ticks = rest
      /\ d.when = Never \/ (d.when \in rest /\ at <= d.when)
      /\ \A t \in rest : d.when # Never /\ d.when <= t
  BY <1>4, <1>5, ScheduleNextWakeupFacts
<1> HIDE DEF d
<1>7. Covered(d, p, at)
  BY <1>4, <1>6 DEF Covered
<1>8. at \notin d.ticks
  BY <1>4, <1>6
<1>9. c.ticks \ d.ticks \subseteq {at}
  BY <1>6 DEF rest
<1>10. \A t \in d.ticks \ c.ticks : at \in c.ticks /\ at < t
  BY <1>4, <1>6 DEF rest
<1> QED BY <1>2, <1>3, <1>7, <1>8, <1>9, <1>10

(* Time may pass up to the event of a covered consumer *)
LEMMA CoveredLater ==
    ASSUME NEW p, NEW at \in Nat, NEW c, Covered(c, p, at), NEW later \in Nat,
           c.when # Never => later <= c.when
    PROVE  Covered(c, p, later)
  BY DEF Covered, ConsumerState
-----------------------------------------------------------------------------
(* The inductive invariant.  Beyond the properties it says that globalWakeup *)
(* is never overdue, that it runs only when every Consumer event is later,  *)
(* and that nothing is ever deferred.                                       *)
IInv ==
    /\ TypeOK
    /\ \A c \in Consumers : Covered(cons[c], Period[c], now)
    /\ now <= globalWhen
    /\ phase = "run" => \A c \in Consumers : cons[c].when # Never => now < cons[c].when
    /\ \A t \in Threads : deferred[t] = {}
    /\ WokenOncePerTick

(* While globalWakeup runs no consumer has the current tick pending *)
LEMMA NothingPendingInRun ==
    ASSUME IInv, phase = "run", NEW c \in Consumers
    PROVE  now \notin cons[c].ticks
<1>1. \A t \in cons[c].ticks : cons[c].when # Never /\ cons[c].when <= t
  BY DEF IInv, Covered
<1>2. cons[c].when # Never => now < cons[c].when
  BY DEF IInv
<1>3. now \in Nat /\ cons[c].when \in Nat \cup {Never}
  BY DEF IInv, TypeOK, ConsumerState
<1> QED BY <1>1, <1>2, <1>3

(* The initial states satisfy the invariant *)
LEMMA InitIInv == Init => IInv
<1> SUFFICES ASSUME Init PROVE IInv
  OBVIOUS
<1> USE DEF Init
<1>1. \A p : Covered(IdleConsumer, p, 0)
  BY DEF IdleConsumer, Covered, ConsumerState
<1>2. ASSUME NEW c \in Consumers PROVE Covered(cons[c], Period[c], 0)
  <2>1. CASE c \in Controllers
    <3>1. cons[c] = ScheduleEventAbsolute(IdleConsumer, {0}, 0, Period[c])
      BY <2>1
    <3>2. Period[c] \in Nat \ {0}
      BY ConstantsAssumption
    <3>3. Covered(ScheduleEventAbsolute(IdleConsumer, {0}, 0, Period[c]), Period[c], 0)
      BY <1>1, <3>2, ScheduleKeepsCovered
    <3> QED BY <3>1, <3>3
  <2>2. CASE c \notin Controllers
    BY <1>1, <2>2
  <2> QED BY <2>1, <2>2
<1>3. TypeOK
  <2>1. \A c \in Consumers : cons[c] \in ConsumerState
    BY <1>2 DEF Covered
  <2> QED BY <2>1, ConstantsAssumption DEF TypeOK
<1>4. now <= globalWhen /\ phase # "run" /\ served = {}
  BY ConstantsAssumption
<1>5. \A t \in Threads : deferred[t] = {}
  OBVIOUS
<1>6. \A c \in Consumers : Covered(cons[c], Period[c], now)
  BY <1>2
<1> HIDE DEF Init
<1> QED BY <1>3, <1>4, <1>5, <1>6 DEF IInv, WokenOncePerTick

(* Registrations keep the types of the ring and its companion bitmap *)
LEMMA RegisterType ==
    ASSUME TypeOK, NEW regs \in SUBSET (Routers \X Nat), RegisterWakeup(regs)
    PROVE  mask' \in [Slots -> SUBSET Routers] /\ active' \in SUBSET Slots
<1>1. \A t \in Nat : SlotOf(t) \in Slots
  BY ConstantsAssumption DEF SlotOf, Slots
<1>2. \A x \in regs : x[1] \in Routers /\ x[2] \in Nat
  OBVIOUS
<1> QED BY <1>1, <1>2 DEF TypeOK, RegisterWakeup

(* ScheduleCalls(cs, calls, at) keeps every consumer covered and adds only *)
(* later ticks, when the calls are for later ticks.                        *)
LEMMA ScheduleCallsFacts ==
    ASSUME NEW cs, NEW at \in Nat, NEW calls \in SUBSET (Consumers \X Nat),
           \A x \in calls : at < x[2],
           NEW c \in Consumers, Covered(cs[c], Period[c], at)
    PROVE  LET d == ScheduleCalls(cs, calls, at)[c]
           IN  /\ Covered(d, Period[c], at)
               /\ cs[c].ticks \subseteq d.ticks
               /\ \A t \in d.ticks \ cs[c].ticks : at < t
<1> DEFINE ts == {x[2] : x \in {y \in calls : y[1] = c}}
<1>1. ts \in SUBSET Nat /\ \A t \in ts : at < t
  OBVIOUS
<1>2. ScheduleCalls(cs, calls, at)[c] = ScheduleEventAbsolute(cs[c], ts, at, Period[c])
  BY DEF ScheduleCalls
<1>3. Period[c] \in Nat \ {0}
  BY ConstantsAssumption
<1> HIDE DEF ts
<1> DEFINE d == ScheduleEventAbsolute(cs[c], ts, at, Period[c])
<1>4. \A t \in ts : at <= t
  BY <1>1
<1>5. /\ Covered(d, Period[c], at)
      /\ cs[c].ticks \subseteq d.ticks
      /\ \A t \in d.ticks \ cs[c].ticks : \E u \in ts : u <= t
  BY <1>1, <1>3, <1>4, ScheduleKeepsCovered
<1> HIDE DEF d
<1>6. d.ticks \in SUBSET Nat
  BY <1>5 DEF Covered, ConsumerState
<1>7. \A t \in d.ticks \ cs[c].ticks : at < t
  BY <1>1, <1>5, <1>6
<1> QED BY <1>2, <1>5, <1>7 DEF d

(* Serving a Consumer event preserves the invariant, whatever later ticks  *)
(* the wakeup() asks for, calls with and registers.                        *)
LEMMA ConsumerEventStep ==
    ASSUME IInv, NEW c \in Consumers,
           NEW asked \in SUBSET Nat,
           \A t \in asked : cons[c].when < t /\ OnEdge(t, Period[c]),
           NEW calls \in SUBSET (Consumers \X Nat),
           \A x \in calls : cons[c].when < x[2],
           NEW regs \in SUBSET (Routers \X Nat),
           ConsumerEvent(c, asked, calls, regs)
    PROVE  IInv'
<1> DEFINE tick    == cons[c].when
           pending == EdgeAt(tick, Period[c]) \in cons[c].ticks
           made    == IF pending THEN calls ELSE {}
           done    == IF pending THEN regs ELSE {}
           next    == ScheduleCalls(cons, made, tick)
           mine    == ProcessCurrentEvent(cons[c], asked, tick, Period[c])
<1>1. /\ TypeOK
      /\ phase = "events"
      /\ \A d \in Consumers : Covered(cons[d], Period[d], now)
  BY DEF IInv, ConsumerEvent, HeadOfQueue
<1>2. /\ tick \in Nat
      /\ tick <= globalWhen
      /\ now <= tick
      /\ \A d \in Consumers : cons[d].when # Never => tick <= cons[d].when
  BY <1>1 DEF ConsumerEvent, HeadOfQueue, Covered, ConsumerState
<1>3. \A d \in Consumers : Covered(cons[d], Period[d], tick)
  BY <1>1, <1>2, CoveredLater DEF TypeOK
<1>4. Period[c] \in Nat \ {0}
  BY ConstantsAssumption
<1>5. /\ now' = tick
      /\ cons' = [next EXCEPT ![c] = mine]
      /\ RegisterWakeup(done)
      /\ served' = (IF tick = now THEN served ELSE {})
                      \cup (IF pending THEN {c} ELSE {})
      /\ UNCHANGED <<globalWhen, phase, parallel, todo, deferred>>
  BY DEF ConsumerEvent
<1>6. /\ made \in SUBSET (Consumers \X Nat) /\ \A x \in made : tick < x[2]
      /\ done \in SUBSET (Routers \X Nat)
  OBVIOUS
<1>7. /\ Covered(mine, Period[c], tick)
      /\ tick \notin mine.ticks
  BY <1>2, <1>3, <1>4, ProcessKeepsCovered
<1>8. \A d \in Consumers : /\ Covered(next[d], Period[d], tick)
                          /\ \A t \in next[d].ticks \ cons[d].ticks : tick < t
  BY <1>2, <1>3, <1>6, ScheduleCallsFacts
<1>9. mask' \in [Slots -> SUBSET Routers] /\ active' \in SUBSET Slots
  BY <1>1, <1>5, <1>6, RegisterType
<1>10. next \in [Consumers -> ConsumerState] /\ mine \in ConsumerState
  <2>1. \A d \in Consumers : next[d] \in ConsumerState
    BY <1>8 DEF Covered
  <2>2. next = [d \in Consumers |-> next[d]]
    BY DEF ScheduleCalls
  <2> QED BY <1>7, <2>1, <2>2 DEF Covered
<1> HIDE DEF tick, pending, made, done, next, mine
<1>11. cons'[c] = mine /\ \A d \in Consumers : d # c => cons'[d] = next[d]
  BY <1>5, <1>10
<1>12. TypeOK'
  BY <1>1, <1>2, <1>5, <1>9, <1>10 DEF TypeOK
<1>13. \A d \in Consumers : Covered(cons'[d], Period[d], now')
  BY <1>5, <1>7, <1>8, <1>11
<1>14. WokenOncePerTick'
  <2> SUFFICES ASSUME NEW d \in served' PROVE tick \notin cons'[d].ticks
    BY <1>5 DEF WokenOncePerTick
  <2>1. CASE d = c
    BY <1>7, <1>11, <2>1
  <2>2. CASE d # c
    <3>1. d \in served /\ tick = now /\ d \in Consumers
      BY <1>1, <1>5, <2>2 DEF TypeOK
    <3>2. tick \notin cons[d].ticks
      BY <3>1 DEF IInv, WokenOncePerTick
    <3> QED BY <1>2, <1>8, <1>11, <2>2, <3>1, <3>2
  <2> QED BY <2>1, <2>2
<1> QED BY <1>1, <1>2, <1>5, <1>12, <1>13, <1>14 DEF IInv

(* The clock edges a served consumer computes are later than its event *)
LEMMA InFacts ==
    ASSUME IInv, NEW c \in Consumers, HeadOfQueue(c), NEW d \in Nat \ {0}
    PROVE  /\ In(c, d) \in Nat
           /\ cons[c].when < In(c, d)
           /\ OnEdge(In(c, d), Period[c])
<1>1. cons[c].when \in Nat
  BY DEF HeadOfQueue, IInv, TypeOK, ConsumerState
<1>2. Period[c] \in Nat \ {0}
  BY ConstantsAssumption
<1> QED BY <1>1, <1>2, ClockEdgeFacts DEF In

(* computeNextWakeupTick returns a later tick *)
LEMMA NextWakeupTickLater ==
    ASSUME TypeOK, NEW at \in Nat
    PROVE  /\ ComputeNextWakeupTick(at) \in Nat
           /\ at < ComputeNextWakeupTick(at)
<1> DEFINE idx   == SlotOf(at)
           after == {i \in active : i > idx}
           dist  == IF after # {} THEN Min(after) - idx
                    ELSE IF active # {} THEN RingSize - (idx - Min(active))
                    ELSE 1
<1>1. idx \in 0..(RingSize - 1) /\ RingSize \in Nat /\ NetPeriod \in Nat \ {0}
  BY ConstantsAssumption DEF SlotOf
<1>2. active \in SUBSET Nat
  BY ConstantsAssumption DEF TypeOK, Slots
<1>3. dist \in Nat \ {0}
  <2> HIDE DEF idx
  <2>1. CASE after # {}
    <3>1. Min(after) \in after
      BY <1>2, <2>1, MinFacts
    <3> HIDE DEF after
    <3>2. Min(after) \in Nat /\ Min(after) > idx
      BY <1>2, <3>1 DEF after
    <3> QED BY <1>1, <2>1, <3>2
  <2>2. CASE after = {} /\ active # {}
    <3>1. Min(active) \in Nat
      BY <1>2, <2>2, MinFacts
    <3> QED BY <1>1, <2>2, <3>1
  <2>3. CASE after = {} /\ active = {}
    BY <2>3
  <2> QED BY <2>1, <2>2, <2>3
<1>4. ComputeNextWakeupTick(at) = at + dist * NetPeriod
  BY DEF ComputeNextWakeupTick
<1> HIDE DEF dist
<1>5. dist * NetPeriod \in Nat /\ dist * NetPeriod >= 1
  BY <1>1, <1>3
<1> QED BY <1>4, <1>5

(* A Consumer event whose wakeup() asks for, calls with and registers only *)
(* later ticks                                                             *)
LaterEvent ==
    \E c \in Consumers, asked \in SUBSET Nat,
       calls \in SUBSET (Consumers \X Nat), regs \in SUBSET (Routers \X Nat) :
        /\ \A t \in asked : cons[c].when < t /\ OnEdge(t, Period[c])
        /\ \A x \in calls : cons[c].when < x[2]
        /\ ConsumerEvent(c, asked, calls, regs)

(* Introduction rule for LaterEvent *)
LEMMA LaterEventIntro ==
    ASSUME NEW c \in Consumers,
           NEW asked \in SUBSET Nat,
           \A t \in asked : cons[c].when < t /\ OnEdge(t, Period[c]),
           NEW calls \in SUBSET (Consumers \X Nat),
           \A x \in calls : cons[c].when < x[2],
           NEW regs \in SUBSET (Routers \X Nat),
           ConsumerEvent(c, asked, calls, regs)
    PROVE  LaterEvent
  BY Zenon DEF LaterEvent

(* Every event of a router, link, output unit, NI or controller is one *)
LEMMA EventsAskForLaterTicks ==
    ASSUME IInv, Next
    PROVE  \/ LaterEvent
           \/ GlobalWakeup
           \/ \E t \in Threads : RunRouter(t)
           \/ GlobalDone
<1>1. ASSUME NEW r \in Routers, RouterEvent(r) PROVE LaterEvent
  <2>1. PICK ds \in SUBSET Delays, out \in SUBSET RouterOut[r] :
           ConsumerEvent(r, {In(r, d) : d \in ds},
                         {<<x, In(r, 1)>> : x \in out},
                         {<<r, In(r, d)>> : d \in ds})
    BY <1>1 DEF RouterEvent
  <2>2. r \in Consumers /\ out \subseteq Consumers /\ ds \subseteq Nat \ {0}
    BY ConstantsAssumption DEF Consumers
  <2>3. HeadOfQueue(r)
    BY <2>1 DEF ConsumerEvent
  <2>4. \A d \in ds \cup {1} : /\ In(r, d) \in Nat
                              /\ cons[r].when < In(r, d)
                              /\ OnEdge(In(r, d), Period[r])
    <3> TAKE d \in ds \cup {1}
    <3>1. d \in Nat \ {0}
      BY <2>2
    <3> QED BY <2>2, <2>3, <3>1, InFacts
  <2> DEFINE asked == {In(r, d) : d \in ds}
             calls == {<<x, In(r, 1)>> : x \in out}
             regs  == {<<r, In(r, d)>> : d \in ds}
  <2>5. asked \in SUBSET Nat /\ \A t \in asked : cons[r].when < t /\ OnEdge(t, Period[r])
    BY <2>4
  <2>6. calls \in SUBSET (Consumers \X Nat) /\ \A x \in calls : cons[r].when < x[2]
    BY <2>2, <2>4
  <2>7. regs \in SUBSET (Routers \X Nat)
    BY <2>4
  <2>8. ConsumerEvent(r, asked, calls, regs)
    BY <2>1
  <2> HIDE DEF asked, calls, regs
  <2> QED BY <2>2, <2>5, <2>6, <2>7, <2>8, LaterEventIntro
<1>2. ASSUME NEW l \in Links, LinkEvent(l) PROVE LaterEvent
  <2>1. PICK ready \in BOOLEAN, more \in BOOLEAN :
           ConsumerEvent(l, IF more THEN {In(l, 1)} ELSE {},
                         IF ready THEN {<<LinkConsumer[l], In(l, LinkLatency)>>}
                                  ELSE {},
                         {})
    BY <1>2 DEF LinkEvent
  <2>2. l \in Consumers /\ LinkConsumer[l] \in Consumers /\ LinkLatency \in Nat \ {0}
    BY ConstantsAssumption DEF Consumers
  <2>3. HeadOfQueue(l)
    BY <2>1 DEF ConsumerEvent
  <2>4. \A d \in {1, LinkLatency} : /\ In(l, d) \in Nat
                                   /\ cons[l].when < In(l, d)
                                   /\ OnEdge(In(l, d), Period[l])
    BY <2>2, <2>3, InFacts
  <2> DEFINE asked == IF more THEN {In(l, 1)} ELSE {}
             calls == IF ready THEN {<<LinkConsumer[l], In(l, LinkLatency)>>} ELSE {}
  <2>5. asked \in SUBSET Nat /\ \A t \in asked : cons[l].when < t /\ OnEdge(t, Period[l])
    BY <2>4
  <2>6. calls \in SUBSET (Consumers \X Nat) /\ \A x \in calls : cons[l].when < x[2]
    BY <2>2, <2>4
  <2>7. ConsumerEvent(l, asked, calls, {})
    BY <2>1
  <2> HIDE DEF asked, calls
  <2> QED BY <2>2, <2>5, <2>6, <2>7, LaterEventIntro
<1>3. ASSUME NEW o \in OutputUnits, OutputUnitEvent(o) PROVE LaterEvent
  <2>1. PICK more \in BOOLEAN :
           ConsumerEvent(o, IF more THEN {In(o, 1)} ELSE {}, {}, {})
    BY <1>3 DEF OutputUnitEvent
  <2>2. o \in Consumers
    BY DEF Consumers
  <2>3. HeadOfQueue(o)
    BY <2>1 DEF ConsumerEvent
  <2>4. In(o, 1) \in Nat /\ cons[o].when < In(o, 1) /\ OnEdge(In(o, 1), Period[o])
    BY <2>2, <2>3, InFacts
  <2> DEFINE asked == IF more THEN {In(o, 1)} ELSE {}
  <2>5. asked \in SUBSET Nat /\ \A t \in asked : cons[o].when < t /\ OnEdge(t, Period[o])
    BY <2>4
  <2>6. ConsumerEvent(o, asked, {}, {})
    BY <2>1
  <2> HIDE DEF asked
  <2> QED BY <2>2, <2>5, <2>6, LaterEventIntro
<1>4. ASSUME NEW n \in NIs, NIEvent(n) PROVE LaterEvent
  <2>1. PICK flits \in SUBSET NIFlitLinks[n], credits \in SUBSET NICreditLinks[n],
             up \in SUBSET {k \in Controllers : NIOf[k] = n}, more \in BOOLEAN :
           ConsumerEvent(n, IF more THEN {In(n, 1)} ELSE {},
                         {<<x, In(n, 1)>> : x \in flits \cup credits \cup up},
                         {<<NIRouter[n], In(n, 1)>> : x \in flits})
    BY <1>4 DEF NIEvent
  <2>2. n \in Consumers /\ flits \cup credits \cup up \subseteq Consumers
    BY ConstantsAssumption DEF Consumers
  <2>3. NIRouter[n] \in Routers
    BY ConstantsAssumption
  <2>4. HeadOfQueue(n)
    BY <2>1 DEF ConsumerEvent
  <2>5. In(n, 1) \in Nat /\ cons[n].when < In(n, 1) /\ OnEdge(In(n, 1), Period[n])
    BY <2>2, <2>4, InFacts
  <2> DEFINE asked == IF more THEN {In(n, 1)} ELSE {}
             calls == {<<x, In(n, 1)>> : x \in flits \cup credits \cup up}
             regs  == {<<NIRouter[n], In(n, 1)>> : x \in flits}
  <2>6. asked \in SUBSET Nat /\ \A t \in asked : cons[n].when < t /\ OnEdge(t, Period[n])
    BY <2>5
  <2>7. calls \in SUBSET (Consumers \X Nat) /\ \A x \in calls : cons[n].when < x[2]
    BY <2>2, <2>5
  <2>8. regs \in SUBSET (Routers \X Nat)
    BY <2>3, <2>5
  <2>9. ConsumerEvent(n, asked, calls, regs)
    BY <2>1
  <2> HIDE DEF asked, calls, regs
  <2> QED BY <2>2, <2>6, <2>7, <2>8, <2>9, LaterEventIntro
<1>5. ASSUME NEW k \in Controllers, ControllerEvent(k) PROVE LaterEvent
  <2>1. PICK d \in ThinkTimes, msg \in BOOLEAN :
           ConsumerEvent(k, {In(k, d)},
                         IF msg THEN {<<NIOf[k], In(k, 1)>>} ELSE {}, {})
    BY <1>5 DEF ControllerEvent
  <2>2. k \in Consumers /\ NIOf[k] \in Consumers /\ d \in Nat \ {0}
    BY ConstantsAssumption DEF Consumers
  <2>3. HeadOfQueue(k)
    BY <2>1 DEF ConsumerEvent
  <2>4. /\ In(k, d) \in Nat /\ cons[k].when < In(k, d) /\ OnEdge(In(k, d), Period[k])
        /\ In(k, 1) \in Nat /\ cons[k].when < In(k, 1)
    BY <2>2, <2>3, InFacts
  <2> DEFINE asked == {In(k, d)}
             calls == IF msg THEN {<<NIOf[k], In(k, 1)>>} ELSE {}
  <2>5. asked \in SUBSET Nat /\ \A t \in asked : cons[k].when < t /\ OnEdge(t, Period[k])
    BY <2>4
  <2>6. calls \in SUBSET (Consumers \X Nat) /\ \A x \in calls : cons[k].when < x[2]
    BY <2>2, <2>4
  <2>7. ConsumerEvent(k, asked, calls, {})
    BY <2>1
  <2> HIDE DEF asked, calls
  <2> QED BY <2>2, <2>5, <2>6, <2>7, LaterEventIntro
<1> QED BY <1>1, <1>2, <1>3, <1>4, <1>5 DEF Next

(* Every step preserves the invariant *)
LEMMA NextIInv == IInv /\ [Next]_vars => IInv'
<1> SUFFICES ASSUME IInv, [Next]_vars PROVE IInv'
  OBVIOUS
<1>1. ASSUME LaterEvent PROVE IInv'
  BY <1>1, ConsumerEventStep DEF LaterEvent
<1>2. ASSUME GlobalWakeup PROVE IInv'
  <2>1. /\ TypeOK
        /\ \A c \in Consumers : Covered(cons[c], Period[c], now)
        /\ now <= globalWhen
        /\ \A c \in Consumers : cons[c].when # Never => globalWhen < cons[c].when
        /\ now' = globalWhen
        /\ UNCHANGED <<cons, globalWhen, deferred>>
        /\ served' = IF globalWhen = now THEN served ELSE {}
    BY <1>2 DEF IInv, GlobalWakeup, GlobalEventIsHead
  <2>2. globalWhen \in Nat /\ SlotOf(globalWhen) \in Slots
    BY <2>1, ConstantsAssumption DEF TypeOK, SlotOf, Slots
  <2>3. TypeOK'
    BY <1>2, <2>1, <2>2 DEF TypeOK, GlobalWakeup
  <2>4. \A c \in Consumers : Covered(cons[c], Period[c], globalWhen)
    <3> TAKE c \in Consumers
    <3>1. cons[c].when # Never => globalWhen <= cons[c].when
      BY <2>1 DEF TypeOK, ConsumerState
    <3> QED BY <2>1, <2>2, <3>1, CoveredLater DEF TypeOK
  <2>5. WokenOncePerTick'
    BY <2>1 DEF IInv, WokenOncePerTick
  <2>6. \A t \in Threads : deferred'[t] = {}
    BY <2>1 DEF IInv
  <2>7. now' <= globalWhen'
    BY <2>1, <2>2
  <2> QED BY <2>1, <2>3, <2>4, <2>5, <2>6, <2>7 DEF IInv
<1>3. ASSUME NEW t \in Threads, RunRouter(t) PROVE IInv'
  <2> DEFINE r == Min(todo[t])
  <2>1. r \in Routers /\ r \in Consumers
    BY <1>3, MinFacts, ConstantsAssumption DEF RunRouter, IInv, TypeOK, Consumers
  <2>2. now \notin cons[r].ticks
    BY <1>3, <2>1, NothingPendingInRun DEF RunRouter
  <2>3. UNCHANGED <<now, cons, globalWhen, mask, active, phase, parallel, deferred, served>>
        /\ todo' = [todo EXCEPT ![t] = @ \ {r}]
    BY <1>3, <2>2 DEF RunRouter
  <2> HIDE DEF r
  <2> QED BY <2>3 DEF IInv, TypeOK, WokenOncePerTick
<1>4. ASSUME GlobalDone PROVE IInv'
  <2>1. UNION {deferred[t] : t \in Threads} = {}
    BY DEF IInv
  <2>2. ScheduleCalls(cons, {}, now) = cons
    BY DEF ScheduleCalls, ScheduleEventAbsolute, IInv, TypeOK
  <2>3. /\ cons' = cons
        /\ deferred' = [t \in Threads |-> {}]
        /\ globalWhen' = ComputeNextWakeupTick(now)
        /\ parallel' = FALSE
        /\ phase' = "events"
        /\ UNCHANGED <<now, mask, active, todo, served>>
    BY <1>4, <2>1, <2>2 DEF GlobalDone
  <2>4. globalWhen' \in Nat /\ now <= globalWhen'
    BY <2>3, NextWakeupTickLater DEF IInv, TypeOK
  <2> QED BY <2>3, <2>4 DEF IInv, TypeOK, WokenOncePerTick
<1>5. CASE UNCHANGED vars
  BY <1>5 DEF vars, IInv, TypeOK, WokenOncePerTick
<1> QED BY <1>1, <1>2, <1>3, <1>4, <1>5, EventsAskForLaterTicks

(* IInv is an invariant *)
THEOREM IInvInvariant == Spec => []IInv
<1>1. Init => IInv
  BY InitIInv
<1>2. IInv /\ [Next]_vars => IInv'
  BY NextIInv
<1> QED BY <1>1, <1>2, PTL DEF Spec

(* The variables keep their types *)
THEOREM TypeCorrect == Spec => []TypeOK
<1>1. IInv => TypeOK
  BY DEF IInv
<1> QED BY <1>1, IInvInvariant, PTL

(* No wakeup is lost: although Router::schedule_wakeup records ticks       *)
(* without scheduling an event, and whatever clock domains the consumers   *)
(* are in, every pending tick is to come and covered by the consumer's own *)
(* event.                                                                  *)
THEOREM NoWakeupLost == Spec => []PendingTicksCovered
<1>1. IInv => PendingTicksCovered
  BY DEF IInv, PendingTicksCovered, Covered
<1> QED BY <1>1, IInvInvariant, PTL

(* No consumer's wakeup() runs twice for one tick, on either path *)
THEOREM NeverWokenTwice == Spec => []WokenOncePerTick
<1>1. IInv => WokenOncePerTick
  BY DEF IInv
<1> QED BY <1>1, IInvInvariant, PTL

(* globalWakeup never runs a router, inline or on its threads: for any     *)
(* number of threads, threshold, ring size and clocks, tryConsumeTick      *)
(* fails for every router of every mask.                                   *)
THEOREM GlobalNeverRunsRouter == Spec => []GlobalFindsNothing
<1>1. IInv => GlobalFindsNothing
  <2> SUFFICES ASSUME IInv, phase = "run", NEW t \in Threads, NEW r \in todo[t]
               PROVE  now \notin cons[r].ticks
    BY DEF GlobalFindsNothing
  <2>1. r \in Consumers
    BY DEF IInv, TypeOK, Consumers
  <2> QED BY <2>1, NothingPendingInRun
<1> QED BY <1>1, IInvInvariant, PTL

(* The companion bitmap mirrors the ring of masks *)
THEOREM BitmapMirrorsMasks == Spec => []ActiveBitmapInSync
<1>1. Init => ActiveBitmapInSync
  BY DEF Init, ActiveBitmapInSync
<1>2. IInv /\ ActiveBitmapInSync /\ [Next]_vars => ActiveBitmapInSync'
  <2> SUFFICES ASSUME IInv, ActiveBitmapInSync, [Next]_vars
               PROVE  ActiveBitmapInSync'
    OBVIOUS
  <2> USE DEF ActiveBitmapInSync
  <2>1. ASSUME NEW regs \in SUBSET (Routers \X Nat), RegisterWakeup(regs)
        PROVE  ActiveBitmapInSync'
    <3>1. \A x \in regs : SlotOf(x[2]) \in Slots
      BY ConstantsAssumption DEF SlotOf, Slots
    <3>2. \A i \in Slots : mask'[i] # {} <=>
              mask[i] # {} \/ \E x \in regs : SlotOf(x[2]) = i
      BY <2>1 DEF RegisterWakeup
    <3>3. active' = active \cup {SlotOf(x[2]) : x \in regs}
      BY <2>1 DEF RegisterWakeup
    <3>4. \A i : i \in active' <=> i \in Slots /\ mask'[i] # {}
      BY <3>1, <3>2, <3>3
    <3> QED BY <3>4
  <2>2. CASE LaterEvent
    <3>1. PICK c \in Consumers, asked \in SUBSET Nat,
               calls \in SUBSET (Consumers \X Nat),
               regs \in SUBSET (Routers \X Nat) :
             ConsumerEvent(c, asked, calls, regs)
      BY <2>2 DEF LaterEvent
    <3>2. RegisterWakeup(regs) \/ RegisterWakeup({})
      BY <3>1 DEF ConsumerEvent
    <3> QED BY <2>1, <3>2
  <2>3. CASE GlobalWakeup
    <3>1. SlotOf(globalWhen) \in Slots
      BY ConstantsAssumption DEF SlotOf, Slots, IInv, TypeOK
    <3> QED BY <2>3, <3>1 DEF GlobalWakeup, IInv, TypeOK
  <2>4. ASSUME NEW t \in Threads, RunRouter(t) PROVE ActiveBitmapInSync'
    <3>1. Min(todo[t]) \in Consumers
      BY <2>4, MinFacts, ConstantsAssumption DEF RunRouter, IInv, TypeOK, Consumers
    <3>2. now \notin cons[Min(todo[t])].ticks
      BY <2>4, <3>1, NothingPendingInRun DEF RunRouter
    <3> QED BY <2>4, <3>2 DEF RunRouter
  <2>5. CASE GlobalDone
    BY <2>5 DEF GlobalDone
  <2>6. CASE UNCHANGED vars
    BY <2>6 DEF vars
  <2> QED BY <2>2, <2>3, <2>4, <2>5, <2>6, EventsAskForLaterTicks
<1> QED BY <1>1, <1>2, IInvInvariant, PTL DEF Spec

(* A Consumer event is a step of the service: a wakeup if the consumer has *)
(* the tick pending, and otherwise time passing.                           *)
LEMMA LaterEventIsServiceStep ==
    ASSUME IInv, LaterEvent
    PROVE  Wakeups!Next
<1>1. PICK c \in Consumers, asked \in SUBSET Nat,
           calls \in SUBSET (Consumers \X Nat),
           regs \in SUBSET (Routers \X Nat) :
         /\ \A t \in asked : cons[c].when < t /\ OnEdge(t, Period[c])
         /\ \A x \in calls : cons[c].when < x[2]
         /\ ConsumerEvent(c, asked, calls, regs)
  BY DEF LaterEvent
<1> DEFINE tick    == cons[c].when
           pending == EdgeAt(tick, Period[c]) \in cons[c].ticks
           made    == IF pending THEN calls ELSE {}
           next    == ScheduleCalls(cons, made, tick)
           mine    == ProcessCurrentEvent(cons[c], asked, tick, Period[c])
<1>2. /\ tick \in Nat
      /\ now <= tick
      /\ \A d \in Consumers : cons[d].when # Never => tick <= cons[d].when
      /\ now' = tick
      /\ cons' = [next EXCEPT ![c] = mine]
      /\ served' = (IF tick = now THEN served ELSE {})
                      \cup (IF pending THEN {c} ELSE {})
  BY <1>1 DEF ConsumerEvent, HeadOfQueue, IInv, TypeOK, ConsumerState, Covered
<1>3. \A d \in Consumers : Covered(cons[d], Period[d], tick)
  BY <1>2, CoveredLater DEF IInv, TypeOK
<1>4. Period[c] \in Nat \ {0}
  BY ConstantsAssumption
<1>5. /\ tick \notin mine.ticks
      /\ cons[c].ticks \ mine.ticks \subseteq {tick}
      /\ \A t \in mine.ticks \ cons[c].ticks : tick \in cons[c].ticks /\ tick < t
      /\ EdgeAt(tick, Period[c]) = tick
      /\ mine.ticks \in SUBSET Nat
  <2>1. /\ Covered(mine, Period[c], tick)
        /\ tick \notin mine.ticks
        /\ cons[c].ticks \ mine.ticks \subseteq {tick}
        /\ \A t \in mine.ticks \ cons[c].ticks : tick \in cons[c].ticks /\ tick < t
        /\ EdgeAt(tick, Period[c]) = tick
    BY <1>1, <1>2, <1>3, <1>4, ProcessKeepsCovered
  <2> HIDE DEF mine, tick
  <2> QED BY <2>1 DEF Covered, ConsumerState
<1>6. made \in SUBSET (Consumers \X Nat) /\ \A x \in made : tick < x[2]
  BY <1>1
<1>7. \A d \in Consumers : /\ cons[d].ticks \subseteq next[d].ticks
                           /\ \A t \in next[d].ticks \ cons[d].ticks : tick < t
                           /\ next[d].ticks \in SUBSET Nat
  <2>1. \A d \in Consumers : /\ Covered(next[d], Period[d], tick)
                             /\ cons[d].ticks \subseteq next[d].ticks
                             /\ \A t \in next[d].ticks \ cons[d].ticks : tick < t
    BY <1>2, <1>3, <1>6, ScheduleCallsFacts
  <2> HIDE DEF next, tick
  <2> QED BY <2>1 DEF Covered, ConsumerState
<1>8. DOMAIN next = Consumers
  BY DEF ScheduleCalls
<1>9. ~pending => next = cons
  BY DEF ScheduleCalls, ScheduleEventAbsolute, IInv, TypeOK
<1>10. tick \in cons[c].ticks <=> pending
  BY <1>5
<1> HIDE DEF next, mine, made, tick, pending
<1>11. cons'[c] = mine /\ \A d \in Consumers : d # c => cons'[d] = next[d]
  BY <1>2, <1>8
<1>12. Wakeups!Advance
  BY <1>2, <1>3 DEF Wakeups!Advance, Covered
<1>13. Wakeups!AlreadyWoken = IF tick = now THEN served ELSE {}
  BY <1>2 DEF Wakeups!AlreadyWoken
<1>14. CASE pending
  <2>1. c \notin Wakeups!AlreadyWoken
    BY <1>10, <1>13, <1>14 DEF IInv, WokenOncePerTick
  <2>2. ASSUME NEW d \in Consumers
        PROVE  LET kept == cons[d].ticks \ (IF d = c THEN {tick} ELSE {})
               IN  /\ kept \subseteq cons'[d].ticks
                   /\ \A u \in cons'[d].ticks \ kept : u \in Nat /\ tick < u
    <3>1. CASE d = c
      BY <1>5, <1>11, <3>1
    <3>2. CASE d # c
      BY <1>7, <1>11, <3>2
    <3> QED BY <3>1, <3>2
  <2>3. Wakeups!Wake(c)
    BY <1>2, <1>10, <1>12, <1>13, <1>14, <2>1, <2>2 DEF Wakeups!Wake
  <2> QED BY <2>3 DEF Wakeups!Next
<1>15. CASE ~pending
  <2>1. \A d \in Consumers : cons'[d].ticks = cons[d].ticks
    <3>1. mine.ticks = cons[c].ticks
      BY <1>5, <1>10, <1>15
    <3>2. \A d \in Consumers : d # c => cons'[d] = cons[d]
      BY <1>9, <1>11, <1>15
    <3> QED BY <1>11, <3>1, <3>2
  <2>2. Wakeups!Pass
    BY <1>2, <1>12, <1>13, <1>15, <2>1 DEF Wakeups!Pass
  <2> QED BY <2>2 DEF Wakeups!Next
<1> QED BY <1>14, <1>15

(* Every step of the wakeup machinery is a step of the service or leaves   *)
(* its state alone.                                                        *)
LEMMA NextIsServiceStep ==
    ASSUME IInv, [Next]_vars
    PROVE  [Wakeups!Next]_(Wakeups!vars)
<1>1. CASE LaterEvent
  BY <1>1, LaterEventIsServiceStep
<1>2. CASE GlobalWakeup
  <2>1. /\ \A c \in Consumers : cons[c].when # Never => globalWhen < cons[c].when
        /\ now' = globalWhen
        /\ cons' = cons
        /\ served' = IF globalWhen = now THEN served ELSE {}
    BY <1>2 DEF GlobalWakeup, GlobalEventIsHead
  <2>2. /\ now <= globalWhen
        /\ globalWhen \in Nat
        /\ \A c \in Consumers : Covered(cons[c], Period[c], now)
    BY DEF IInv, TypeOK
  <2>3. Wakeups!Advance
    BY <2>1, <2>2 DEF Wakeups!Advance, Covered, ConsumerState
  <2>4. Wakeups!Pass
    BY <2>1, <2>3 DEF Wakeups!Pass, Wakeups!AlreadyWoken
  <2> QED BY <2>4 DEF Wakeups!Next
<1>3. ASSUME NEW t \in Threads, RunRouter(t) PROVE UNCHANGED Wakeups!vars
  <2>1. Min(todo[t]) \in Consumers
    BY <1>3, MinFacts, ConstantsAssumption DEF RunRouter, IInv, TypeOK, Consumers
  <2>2. now \notin cons[Min(todo[t])].ticks
    BY <1>3, <2>1, NothingPendingInRun DEF RunRouter
  <2> QED BY <1>3, <2>2 DEF RunRouter, Wakeups!vars
<1>4. CASE GlobalDone
  <2>1. UNION {deferred[t] : t \in Threads} = {}
    BY DEF IInv
  <2>2. cons' = cons
    BY <1>4, <2>1 DEF GlobalDone, ScheduleCalls, ScheduleEventAbsolute, IInv, TypeOK
  <2> QED BY <1>4, <2>2 DEF GlobalDone, Wakeups!vars
<1>5. CASE UNCHANGED vars
  BY <1>5 DEF vars, Wakeups!vars
<1> QED BY <1>1, <1>2, <1>3, <1>4, <1>5, EventsAskForLaterTicks

(* The wakeup machinery implements the abstract service of waking: for     *)
(* every topology, clocks, ring, team and threshold, each consumer is      *)
(* woken once at every tick it asked for and at no other.                  *)
THEOREM GarnetImplementsWakeups == Spec => ImplementsWakeupService
<1>1. Init => Wakeups!Init
  <2> SUFFICES ASSUME Init PROVE Wakeups!Init
    OBVIOUS
  <2>1. ASSUME NEW c \in Consumers PROVE cons[c].ticks \in SUBSET {0}
    <3>1. CASE c \in Controllers
      <4>1. Period[c] \in Nat \ {0}
        BY ConstantsAssumption
      <4>2. EdgeAt(0, Period[c]) = 0
        BY <4>1, EdgeAtOnEdge DEF OnEdge
      <4>3. cons[c] = ScheduleNextWakeup([IdleConsumer EXCEPT !.ticks = @ \cup {0}], 0)
        BY <3>1, <4>2 DEF Init, ScheduleEventAbsolute
      <4>4. [IdleConsumer EXCEPT !.ticks = @ \cup {0}] = [ticks |-> {0}, when |-> Never]
        BY DEF IdleConsumer
      <4>5. [ticks |-> {0}, when |-> Never] \in ConsumerState
        BY DEF ConsumerState
      <4> DEFINE b == [ticks |-> {0}, when |-> Never]
      <4>6. cons[c] = ScheduleNextWakeup(b, 0) /\ b.ticks = {0}
        BY <4>3, <4>4
      <4> HIDE DEF b
      <4>7. ScheduleNextWakeup(b, 0).ticks = b.ticks
        BY <4>5, ScheduleNextWakeupFacts DEF b
      <4> QED BY <4>6, <4>7
    <3>2. CASE c \notin Controllers
      BY <3>2 DEF Init, IdleConsumer
    <3> QED BY <3>1, <3>2
  <2> QED BY <2>1 DEF Init, Wakeups!Init
<1>2. IInv /\ [Next]_vars => [Wakeups!Next]_(Wakeups!vars)
  BY NextIsServiceStep
<1> QED BY <1>1, <1>2, IInvInvariant, PTL DEF Spec, ImplementsWakeupService, Wakeups!Spec

(* A pending tick is given up only by waking the consumer at that tick *)
THEOREM TicksOnlyLeaveByService == Spec => TicksLeaveByService
<1> DEFINE Served == \A c \in Consumers : \A t \in cons[c].ticks \ cons'[c].ticks :
                        t = now' /\ c \in served'
<1>1. IInv /\ [Next]_vars => [Served]_vars
  <2> SUFFICES ASSUME IInv, Next PROVE Served
    OBVIOUS
  <2>1. [Wakeups!Next]_(Wakeups!vars)
    BY NextIsServiceStep
  <2>2. ASSUME NEW c \in Consumers, Wakeups!Wake(c) PROVE Served
    BY <2>2 DEF Wakeups!Wake
  <2>3. CASE Wakeups!Pass \/ UNCHANGED Wakeups!vars
    <3>1. [c \in Consumers |-> cons'[c].ticks] = [c \in Consumers |-> cons[c].ticks]
      BY <2>3 DEF Wakeups!Pass, Wakeups!vars
    <3>2. \A c \in Consumers : cons'[c].ticks = cons[c].ticks
      BY <3>1
    <3> QED BY <3>2
  <2> QED BY <2>1, <2>2, <2>3 DEF Wakeups!Next
<1> QED BY <1>1, IInvInvariant, PTL DEF Spec, TicksLeaveByService
=============================================================================
