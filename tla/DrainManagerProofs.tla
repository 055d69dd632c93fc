------------------------- MODULE DrainManagerProofs -------------------------
(***************************************************************************)
(* The drain protocol for any number of objects and any work among them.   *)
(***************************************************************************)
EXTENDS DrainManager, FiniteSetTheorems, TLAPS

States == {"Running", "Draining", "Drained", "Resuming"}

Typed ==
    /\ objState \in [Objects \cup Late -> States \cup {"none"}]
    /\ \A o \in Objects : objState[o] # "none"
    /\ at \in [Items -> Objects \cup {Nowhere}]
    /\ finished \in Nat
    /\ todo \subseteq Created

Idle == \A i \in Items : at[i] = Nowhere
OnlyIn(S) == \A o \in Created : objState[o] \in S
Waiting == {o \in Objects : objState[o] = "Draining"}

(* The five phases of the protocol *)
Runs ==
    /\ script \in {"start", "user", "tryDrain", "simulate"} /\ state = "Running"
    /\ OnlyIn({"Running"}) /\ finished = 0 /\ todo = {}
    /\ script = "start" => Idle
HasDrained ==
    /\ script = "user" /\ state = "Drained"
    /\ OnlyIn({"Drained"}) /\ Idle /\ finished = 0 /\ todo = {}
Resumes ==
    /\ script = "resume" /\ state = "Resuming"
    /\ OnlyIn({"Drained", "Resuming", "Running"}) /\ Idle /\ finished = 0
    /\ \A o \in todo : objState[o] \in {"Drained", "Resuming"}
Drains ==
    /\ script = "drainLoop" /\ state = "Draining"
    /\ OnlyIn({"Draining", "Drained"}) /\ todo = {}
    /\ finished > 0 => finished = 1 /\ count = 0
AsksAgain ==
    /\ script = "tryDrain" /\ state = "Draining"
    /\ OnlyIn({"Draining", "Drained"}) /\ finished = 0 /\ count = 0 /\ todo = {}

IInv == Typed /\ CountsDraining /\ (Runs \/ HasDrained \/ Resumes \/ Drains \/ AsksAgain)

-----------------------------------------------------------------------------
LEMMA WaitingIsFinite ==
    /\ IsFiniteSet(Waiting) /\ Cardinality(Waiting) \in Nat
    /\ IsFiniteSet(Waiting') /\ Cardinality(Waiting') \in Nat
  <1>1. Waiting \subseteq Objects /\ Waiting' \subseteq Objects
    BY DEF Waiting
  <1>2. IsFiniteSet(Waiting) /\ IsFiniteSet(Waiting')
    BY <1>1, DrainAssumption, FS_Subset
  <1> QED  BY <1>2, FS_CardinalityType

(* Outside the loop nothing is counted *)
LEMMA NothingCounted ==
    ASSUME Typed, CountsDraining, NEW S, "Draining" \notin S, OnlyIn(S)
    PROVE  count = 0
  <1>1. Waiting = {}
    BY DEF Waiting, OnlyIn, Created, Typed
  <1> QED  BY <1>1, FS_EmptySet DEF CountsDraining, Waiting

LEMMA InitIInv == Init => IInv
  <1> SUFFICES ASSUME Init PROVE IInv
    OBVIOUS
  <1>1. Typed
    BY DEF Init, Typed, States, Created
  <1>2. OnlyIn({"Running"}) /\ Waiting = {}
    BY DEF Init, OnlyIn, Created, Waiting
  <1>3. CountsDraining
    BY <1>2, FS_EmptySet DEF Init, CountsDraining, Waiting
  <1>4. Runs
    BY <1>2 DEF Init, Runs, Idle
  <1> QED  BY <1>1, <1>3, <1>4 DEF IInv

(* signalDrainDone of an object that holds work *)
LEMMA SignalKeeps ==
    ASSUME Typed, CountsDraining, NEW o \in Objects, SignalDrainDone(o)
    PROVE  /\ objState' \in [Objects \cup Late -> States \cup {"none"}]
           /\ \A p \in Objects \cup Late : objState[p] = "none" <=> objState'[p] = "none"
           /\ CountsDraining'
           /\ OnlyIn({"Draining", "Drained"}) => OnlyIn({"Draining", "Drained"})'
           /\ OnlyIn({"Running"}) => UNCHANGED <<objState, count, finished>>
           /\ finished' \in Nat
           /\ (finished > 0 => finished = 1 /\ count = 0) =>
                 (finished' > 0 => finished' = 1 /\ count' = 0)
  <1>1. CASE objState[o] = "Draining"
    <2>1. /\ objState' = [objState EXCEPT ![o] = "Drained"] /\ count' = count - 1
          /\ finished' = IF count' = 0 THEN finished + 1 ELSE finished
      BY <1>1 DEF SignalDrainDone
    <2>2. Waiting' = Waiting \ {o} /\ o \in Waiting
      BY <1>1, <2>1 DEF Waiting, Typed
    <2>3. Cardinality(Waiting') = Cardinality(Waiting) - 1
      BY <2>2, WaitingIsFinite, FS_RemoveElement
    <2>4. count = Cardinality(Waiting) /\ count \in Nat \ {0}
      BY <2>2, <2>3, WaitingIsFinite DEF CountsDraining, Waiting
    <2>5. CountsDraining'
      BY <2>1, <2>3, <2>4 DEF CountsDraining, Waiting
    <2>6. /\ objState' \in [Objects \cup Late -> States \cup {"none"}]
          /\ \A p \in Objects \cup Late : objState[p] = "none" <=> objState'[p] = "none"
      BY <1>1, <2>1 DEF Typed, States
    <2>7. OnlyIn({"Draining", "Drained"}) => OnlyIn({"Draining", "Drained"})'
      BY <2>1 DEF OnlyIn, Created, Typed
    <2>8. ~OnlyIn({"Running"})
      BY <1>1 DEF OnlyIn, Created
    <2>9. /\ finished' \in Nat
          /\ (finished > 0 => finished = 1 /\ count = 0) =>
                (finished' > 0 => finished' = 1 /\ count' = 0)
      BY <2>1, <2>4 DEF Typed
    <2> QED  BY <2>5, <2>6, <2>7, <2>8, <2>9
  <1>2. CASE objState[o] # "Draining"
    <2>1. UNCHANGED <<objState, count, finished>>
      BY <1>2 DEF SignalDrainDone
    <2> QED  BY <2>1 DEF Typed, CountsDraining, OnlyIn, Created
  <1> QED  BY <1>1, <1>2

-----------------------------------------------------------------------------
(* One step per action.  A step that leaves the objects alone keeps the     *)
(* types and the count.                                                     *)
LEMMA UntouchedObjects ==
    ASSUME Typed, CountsDraining, UNCHANGED <<objState, count, at>>,
           finished' \in Nat, todo' \subseteq Created
    PROVE  Typed' /\ CountsDraining'
  BY DEF Typed, CountsDraining, Created

LEMMA StartKeeps ==
    ASSUME IInv, PreCheckpointRestore \/ InitState
    PROVE  IInv'
  <1>1. Typed /\ CountsDraining /\ Runs /\ script = "start"
    BY DEF IInv, PreCheckpointRestore, InitState, Runs, HasDrained, Resumes, Drains, AsksAgain
  <1>2. CASE InitState
    <2>1. Typed' /\ CountsDraining'
      BY <1>1, <1>2, UntouchedObjects DEF InitState, work, Typed
    <2>2. Runs'
      BY <1>1, <1>2 DEF InitState, Runs, OnlyIn, Created, work
    <2> QED  BY <2>1, <2>2 DEF IInv
  <1>3. CASE PreCheckpointRestore
    <2>1. Typed'
      BY <1>1, <1>3 DEF PreCheckpointRestore, Typed, States, Created, work, Runs
    <2>2. Waiting' = {} /\ count = 0
      <3>1. count = 0
        BY <1>1, NothingCounted DEF Runs
      <3> QED  BY <1>1, <1>3, <3>1 DEF PreCheckpointRestore, Typed, Waiting, Created
    <2>3. CountsDraining'
      BY <2>2, <1>3, FS_EmptySet DEF CountsDraining, Waiting, PreCheckpointRestore
    <2>4. HasDrained'
      BY <1>1, <1>3 DEF PreCheckpointRestore, HasDrained, OnlyIn, Created, Idle, work, Runs, Typed
    <2> QED  BY <2>1, <2>3, <2>4 DEF IInv
  <1> QED  BY <1>2, <1>3

(* An object made while the others drain is not counted, and takes part in *)
(* the next phase as one of the others                                     *)
LEMMA DrainableKeeps ==
    ASSUME IInv, NEW o \in Late, Drainable(o)
    PROVE  IInv'
  <1>1. /\ Typed /\ CountsDraining /\ script # "start" /\ objState[o] = "none"
        /\ objState' = [objState EXCEPT ![o] = state]
        /\ UNCHANGED <<script, state, count, finished, todo, at>>
    BY DEF IInv, Drainable, work
  <1>2. o \notin Objects /\ state \in States
    BY DrainAssumption DEF IInv, Runs, HasDrained, Resumes, Drains, AsksAgain, States
  <1>3. Typed'
    BY <1>1, <1>2 DEF Typed, Created, States
  <1>4. CountsDraining'
    <2>1. \A p \in Objects : objState'[p] = objState[p]
      BY <1>1, <1>2 DEF Typed
    <2> QED  BY <1>1, <2>1 DEF CountsDraining
  <1>5. ASSUME NEW S, OnlyIn(S), state \in S PROVE OnlyIn(S)'
    BY <1>1, <1>5 DEF OnlyIn, Created, Typed
  <1>6. o \notin todo
    BY <1>1 DEF Typed, Created
  <1>7. Runs => Runs'
    BY <1>1, <1>5 DEF Runs
  <1>8. HasDrained => HasDrained'
    BY <1>1, <1>5 DEF HasDrained, Idle
  <1>9. Resumes => Resumes'
    <2> SUFFICES ASSUME Resumes PROVE Resumes'
      OBVIOUS
    <2>1. \A p \in todo' : objState'[p] \in {"Drained", "Resuming"}
      BY <1>1, <1>6 DEF Resumes, Typed, Created
    <2> QED  BY <1>1, <1>5, <2>1 DEF Resumes, Idle
  <1>10. Drains => Drains'
    BY <1>1, <1>5 DEF Drains
  <1>11. AsksAgain => AsksAgain'
    BY <1>1, <1>5 DEF AsksAgain
  <1> QED  BY <1>3, <1>4, <1>7, <1>8, <1>9, <1>10, <1>11 DEF IInv

LEMMA BeginKeeps ==
    ASSUME IInv, NEW i \in Items, NEW o \in Objects, Begin(i, o)
    PROVE  IInv'
  <1>1. /\ Typed /\ CountsDraining /\ Simulating /\ objState[o] = "Running"
        /\ at' = [at EXCEPT ![i] = o]
        /\ UNCHANGED <<script, state, objState, count, finished, todo>>
    BY DEF IInv, Begin
  <1>2. Typed' /\ CountsDraining'
    BY <1>1 DEF Typed, CountsDraining, Created
  <1>3. ~Drains
    BY <1>1 DEF Drains, OnlyIn, Created
  <1>4. Runs /\ script = "simulate"
    BY <1>1, <1>3 DEF IInv, Simulating, Runs, HasDrained, Resumes, AsksAgain
  <1>5. Runs'
    BY <1>1, <1>4 DEF Runs, OnlyIn, Created
  <1> QED  BY <1>2, <1>5 DEF IInv

LEMMA ProcessKeeps ==
    ASSUME IInv, NEW i \in Items, Process(i)
    PROVE  IInv'
  <1> DEFINE o == at[i]
  <1>1. /\ Typed /\ CountsDraining /\ Simulating /\ o \in Objects
        /\ SignalIfIdle(o) /\ UNCHANGED <<script, state, todo>>
    BY DEF IInv, Process, Typed
  <1>2. at' \in [Items -> Objects \cup {Nowhere}]
    BY DEF IInv, Process, Typed
  <1>3. (Runs /\ script = "simulate") \/ Drains
    BY <1>1 DEF IInv, Simulating, Runs, HasDrained, Resumes, AsksAgain
  <1> HIDE DEF o
  <1>4. CASE SignalDrainDone(o)
    <2>1. /\ objState' \in [Objects \cup Late -> States \cup {"none"}]
          /\ \A p \in Objects \cup Late : objState[p] = "none" <=> objState'[p] = "none"
          /\ CountsDraining' /\ finished' \in Nat
      BY <1>1, <1>4, SignalKeeps
    <2>2. Typed'
      BY <1>1, <1>2, <2>1 DEF Typed, Created
    <2>3. CASE Runs /\ script = "simulate"
      <3>1. UNCHANGED <<objState, count, finished>>
        BY <1>1, <1>4, <2>3, SignalKeeps DEF Runs
      <3>2. Runs'
        BY <1>1, <2>3, <3>1 DEF Runs, OnlyIn, Created
      <3> QED  BY <2>1, <2>2, <3>2 DEF IInv
    <2>4. CASE Drains
      <3>1. /\ OnlyIn({"Draining", "Drained"})'
            /\ finished' > 0 => finished' = 1 /\ count' = 0
        BY <1>1, <1>4, <2>4, SignalKeeps DEF Drains
      <3>2. Drains'
        BY <1>1, <2>4, <3>1 DEF Drains
      <3> QED  BY <2>1, <2>2, <3>2 DEF IInv
    <2> QED  BY <1>3, <2>3, <2>4
  <1>5. CASE UNCHANGED <<objState, count, finished>>
    <2>1. Typed' /\ CountsDraining'
      BY <1>1, <1>2, <1>5 DEF Typed, CountsDraining, Created
    <2>2. Runs' \/ Drains'
      BY <1>1, <1>3, <1>5 DEF Runs, Drains, OnlyIn, Created
    <2> QED  BY <2>1, <2>2 DEF IInv
  <1> QED  BY <1>1, <1>4, <1>5 DEF SignalIfIdle

(* drainResume of every object, in passes, until all are running           *)
LEMMA ResumeKeeps ==
    ASSUME IInv, NEW o \in Objects \cup Late, ResumeObject(o)
    PROVE  IInv'
  <1>1. /\ Typed /\ CountsDraining /\ o \in todo /\ script = "resume"
        /\ objState' = [objState EXCEPT ![o] = "Running"] /\ todo' = todo \ {o}
        /\ UNCHANGED <<script, state, count, finished, at>>
    BY DEF IInv, ResumeObject, work
  <1>2. Resumes
    BY <1>1 DEF IInv, Runs, HasDrained, Drains, AsksAgain
  <1>3. Typed'
    BY <1>1 DEF Typed, Created, States
  <1>4. OnlyIn({"Drained", "Resuming", "Running"})'
    BY <1>1, <1>2 DEF Resumes, OnlyIn, Created, Typed
  <1>5. CountsDraining'
    <2>1. count = 0
      BY <1>1, <1>2, NothingCounted DEF Resumes
    <2>2. Waiting' = {}
      BY <1>3, <1>4 DEF Waiting, OnlyIn, Created, Typed
    <2> QED  BY <1>1, <2>1, <2>2, FS_EmptySet DEF CountsDraining, Waiting
  <1>6. \A p \in todo' : objState'[p] \in {"Drained", "Resuming"}
    BY <1>1, <1>2 DEF Resumes, Typed, Created
  <1>7. Resumes'
    BY <1>1, <1>2, <1>4, <1>6 DEF Resumes, Idle
  <1> QED  BY <1>3, <1>5, <1>7 DEF IInv

LEMMA ScriptKeeps ==
    ASSUME IInv, Simulate \/ EndPass \/ ExitEvent \/ DropExitEvent \/ Drain \/ FinishedDrain
    PROVE  IInv'
  <1>1. /\ Typed /\ CountsDraining /\ UNCHANGED <<objState, count, at>>
        /\ finished' \in Nat /\ todo' \subseteq Created
    BY DEF IInv, Typed, Simulate, EndPass, ExitEvent, DropExitEvent, Drain, FinishedDrain, work, vars
  <1>2. Typed' /\ CountsDraining'
    BY <1>1, UntouchedObjects
  <1>3. \A S : OnlyIn(S)' <=> OnlyIn(S)
    BY <1>1 DEF OnlyIn, Created
  <1>4. Idle' <=> Idle
    BY <1>1 DEF Idle
  <1>5. CASE Simulate
    <2>1. CASE state = "Drained"
      <3>1. HasDrained
        BY <1>5, <2>1 DEF IInv, Simulate, Runs, Resumes, Drains, AsksAgain
      <3>2. /\ script' = "resume" /\ state' = "Resuming" /\ todo' = Created /\ finished' = 0
            /\ OnlyIn({"Drained"})
        BY <1>5, <2>1, <3>1 DEF Simulate, HasDrained
      <3>3. /\ OnlyIn({"Drained", "Resuming", "Running"})'
            /\ \A o \in todo' : objState'[o] \in {"Drained", "Resuming"}
        BY <1>1, <3>2 DEF OnlyIn, Created
      <3>4. Resumes'
        BY <1>4, <3>1, <3>2, <3>3 DEF Resumes, HasDrained
      <3> QED  BY <1>2, <3>4 DEF IInv
    <2>2. CASE state # "Drained"
      <3>1. Runs
        BY <1>5, <2>2 DEF IInv, Simulate, HasDrained, Resumes, Drains, AsksAgain
      <3>2. Runs'
        BY <1>3, <1>5, <2>2, <3>1 DEF Simulate, Runs
      <3> QED  BY <1>2, <3>2 DEF IInv
    <2> QED  BY <2>1, <2>2
  <1>6. CASE EndPass
    <2> DEFINE rest == {o \in Created : objState[o] # "Running"}
    <2>1. Resumes /\ todo = {} /\ finished' = finished
      BY <1>6 DEF IInv, EndPass, Runs, HasDrained, Drains, AsksAgain
    <2>2. CASE rest = {}
      <3>1. OnlyIn({"Running"})'
        BY <1>3, <2>2 DEF OnlyIn
      <3>2. Runs'
        BY <1>6, <2>1, <2>2, <3>1 DEF EndPass, Resumes, Runs
      <3> QED  BY <1>2, <3>2 DEF IInv
    <2>3. CASE rest # {}
      <3>1. todo' = rest /\ UNCHANGED <<state, script>>
        BY <1>6, <2>3 DEF EndPass
      <3>2. \A o \in todo' : objState'[o] \in {"Drained", "Resuming"}
        BY <1>1, <2>1, <3>1 DEF Resumes, OnlyIn
      <3>3. Resumes'
        BY <1>3, <1>4, <2>1, <3>1, <3>2 DEF Resumes
      <3> QED  BY <1>2, <3>3 DEF IInv
    <2> QED  BY <2>2, <2>3
  <1>7. CASE ExitEvent
    <2>1. Runs /\ Runs'
      BY <1>3, <1>7 DEF IInv, ExitEvent, Runs, HasDrained, Resumes, Drains, AsksAgain
    <2> QED  BY <1>2, <2>1 DEF IInv
  <1>8. CASE DropExitEvent
    <2>1. Drains /\ Drains'
      BY <1>3, <1>8 DEF IInv, DropExitEvent, Runs, HasDrained, Resumes, Drains, AsksAgain, vars
    <2> QED  BY <1>2, <2>1 DEF IInv
  <1>9. CASE Drain
    <2>1. Runs /\ Runs'
      BY <1>3, <1>9 DEF IInv, Drain, Runs, HasDrained, Resumes, Drains, AsksAgain
    <2> QED  BY <1>2, <2>1 DEF IInv
  <1>10. CASE FinishedDrain
    <2>1. Drains
      BY <1>10 DEF IInv, FinishedDrain, Runs, HasDrained, Resumes, AsksAgain
    <2>2. AsksAgain'
      BY <1>3, <1>10, <2>1 DEF FinishedDrain, Drains, AsksAgain
    <2> QED  BY <1>2, <2>2 DEF IInv
  <1> QED  BY <1>5, <1>6, <1>7, <1>8, <1>9, <1>10

(* Every object is asked anew, so a disturbed one is found *)
LEMMA TryDrainKeeps ==
    ASSUME IInv, TryDrain
    PROVE  IInv'
  <1> DEFINE B == {o \in Objects : Busy(o)}
  <1>1. /\ Typed /\ CountsDraining
        /\ objState' = [o \in DOMAIN objState |-> IF o \notin Created THEN "none"
                                              ELSE IF Busy(o) THEN "Draining" ELSE "Drained"]
        /\ count' = count + Cardinality(B)
        /\ UNCHANGED <<finished, todo, at>>
    BY DEF IInv, TryDrain, work
  <1>2. count = 0 /\ finished = 0 /\ todo = {}
    <2>1. Runs \/ AsksAgain
      BY DEF IInv, TryDrain, HasDrained, Resumes, Drains
    <2>2. Runs => count = 0
      BY <1>1, NothingCounted DEF Runs
    <2> QED  BY <2>1, <2>2 DEF Runs, AsksAgain
  <1>3. Typed'
    BY <1>1, <1>2 DEF Typed, States, Created
  <1>4. Waiting' = B
    BY <1>1 DEF Waiting, Typed, Created
  <1>5. Cardinality(B) \in Nat /\ IsFiniteSet(B)
    BY <1>4, WaitingIsFinite
  <1>6. count' = Cardinality(B)
    BY <1>1, <1>2, <1>5
  <1>7. CountsDraining'
    BY <1>4, <1>6 DEF CountsDraining, Waiting
  <1>8. OnlyIn({"Draining", "Drained"})'
    BY <1>1 DEF OnlyIn, Created, Typed
  <1>9. CASE count' = 0
    <2>1. B = {}
      BY <1>5, <1>6, <1>9, FS_EmptySet
    <2>2. Idle
      BY <1>1, <2>1 DEF Idle, Busy, Typed
    <2>3. OnlyIn({"Drained"})'
      <3>1. \A o \in Objects \cup Late : ~Busy(o)
        BY <2>2, DrainAssumption DEF Idle, Busy
      <3> QED  BY <1>1, <3>1 DEF OnlyIn, Created, Typed
    <2>4. HasDrained'
      BY <1>1, <1>2, <1>9, <2>2, <2>3 DEF TryDrain, HasDrained, Idle
    <2> QED  BY <1>3, <1>7, <2>4 DEF IInv
  <1>10. CASE count' # 0
    <2>1. Drains'
      BY <1>1, <1>2, <1>8, <1>10 DEF TryDrain, Drains
    <2> QED  BY <1>3, <1>7, <2>1 DEF IInv
  <1> QED  BY <1>9, <1>10

LEMMA NextIInv == IInv /\ [Next]_vars => IInv'
  <1> SUFFICES ASSUME IInv, [Next]_vars PROVE IInv'
    OBVIOUS
  <1>1. CASE Next
    BY <1>1, StartKeeps, DrainableKeeps, BeginKeeps, ProcessKeeps, ResumeKeeps,
       ScriptKeeps, TryDrainKeeps DEF Next
  <1>2. CASE UNCHANGED vars
    BY <1>2 DEF vars, work, IInv, Typed, CountsDraining, Runs, HasDrained, Resumes, Drains,
       AsksAgain, OnlyIn, Created, Idle
  <1> QED  BY <1>1, <1>2

LEMMA IInvHolds == Spec => []IInv
  BY InitIInv, NextIInv, PTL DEF Spec

-----------------------------------------------------------------------------
(* drain() returns only when no object holds work, for any number of       *)
(* objects and any way in which they hand work to objects that had already *)
(* signalled: tryDrain asks every object anew before it says Drained       *)
THEOREM DrainIsComplete == Spec => []DrainedMeansIdle
  <1>1. IInv => DrainedMeansIdle
    BY DEF IInv, DrainedMeansIdle, Runs, HasDrained, Resumes, Drains, AsksAgain, OnlyIn, Idle
  <1> QED  BY <1>1, IInvHolds, PTL

(* _count of the manager is the number of the objects that will signal     *)
THEOREM CountIsOfDraining == Spec => []CountsDraining
  <1>1. IInv => CountsDraining
    BY DEF IInv
  <1> QED  BY <1>1, IInvHolds, PTL

(* The panics of tryDrain and resume are never reached                     *)
THEOREM DrainNeverPanics == Spec => []NoPanic
  <1>1. ASSUME IInv PROVE NoPanic
    <2>1. Runs => count = 0
      BY <1>1, NothingCounted DEF IInv, Runs
    <2>2. Resumes => count = 0
      BY <1>1, NothingCounted DEF IInv, Resumes
    <2> QED  BY <1>1, <2>1, <2>2 DEF IInv, NoPanic, Runs, HasDrained, Resumes, Drains, AsksAgain
  <1> QED  BY <1>1, IInvHolds, PTL

(* At most one "Finished drain" is ever queued, and the drain it belongs   *)
(* to receives it                                                          *)
THEOREM ExitBelongsToDrain == Spec => []FinishedIsOurs
  <1>1. IInv => FinishedIsOurs
    BY DEF IInv, Typed, FinishedIsOurs, Runs, HasDrained, Resumes, Drains, AsksAgain
  <1> QED  BY <1>1, IInvHolds, PTL

(* Simulation starts with every object running, those made on the way      *)
(* included                                                                *)
THEOREM ResumeIsComplete == Spec => []ResumedMeansRunning
  <1>1. IInv => ResumedMeansRunning
    BY DEF IInv, ResumedMeansRunning, Runs, HasDrained, Resumes, Drains, AsksAgain, OnlyIn
  <1> QED  BY <1>1, IInvHolds, PTL
=============================================================================
