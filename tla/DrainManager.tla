---------------------------- MODULE DrainManager ----------------------------
(***************************************************************************)
(* Draining: the drain() loop of simulate.py over DrainManager, for        *)
(* objects that hold work, hand it on to one another and signal when they  *)
(* hold none.  An object that has drained is disturbed by the work of      *)
(* another, and its drain state does not show it.                          *)
(***************************************************************************)
EXTENDS Integers, FiniteSets

CONSTANTS
    Objects,    \* Drainable objects that hold work, made by instantiate
    Late,       \* objects without work, made at any time
    Items,      \* pieces of work
    MaxHops     \* how often a piece of work is handed on

Nowhere == "nowhere"    \* where a piece of work is before and after

ASSUME DrainAssumption ==
    /\ IsFiniteSet(Objects)
    /\ Objects \cap Late = {}
    /\ Nowhere \notin Objects \cup Late
    /\ MaxHops \in Nat

VARIABLES
    script,      \* where the configuration script is
    state,       \* _state of the manager
    objState,    \* _drainState of the objects; "none" before their constructor
    count,       \* _count
    finished,    \* "Finished drain" exit events in the queue
    todo,        \* objects the loop of resume has still to visit
    at, left     \* where a piece of work is, and how far it still goes

work == <<at, left>>
vars == <<script, state, objState, count, finished, todo, work>>

Created == {o \in Objects \cup Late : objState[o] # "none"}
Busy(o) == \E i \in Items : at[i] = o
Simulating == script \in {"simulate", "drainLoop"}

Init ==
    /\ script = "start"
    /\ state = "Running"
    /\ objState = [o \in Objects \cup Late |-> IF o \in Objects THEN "Running" ELSE "none"]
    /\ count = 0
    /\ finished = 0
    /\ todo = {}
    /\ at = [i \in Items |-> Nowhere]
    /\ left = [i \in Items |-> 0]
-----------------------------------------------------------------------------
(* instantiate, from a checkpoint or not *)
PreCheckpointRestore ==
    /\ script = "start" /\ state = "Running"
    /\ state' = "Drained"
    /\ objState' = [o \in DOMAIN objState |-> IF o \in Created THEN "Drained" ELSE "none"]
    /\ script' = "user"
    /\ UNCHANGED <<count, finished, todo, work>>

InitState ==
    /\ script = "start"
    /\ script' = "user"
    /\ UNCHANGED <<state, objState, count, finished, todo, work>>

(* The constructor takes the state of the manager *)
Drainable(o) ==
    /\ script # "start" /\ objState[o] = "none"
    /\ objState' = [objState EXCEPT ![o] = state]
    /\ UNCHANGED <<script, state, count, finished, todo, work>>

(* An object that runs takes up new work *)
Begin(i, o) ==
    /\ Simulating /\ objState[o] = "Running" /\ at[i] = Nowhere
    /\ at' = [at EXCEPT ![i] = o]
    /\ left' = [left EXCEPT ![i] = MaxHops]
    /\ UNCHANGED <<script, state, objState, count, finished, todo>>

SignalDrainDone(o) ==
    IF objState[o] = "Draining"
    THEN /\ objState' = [objState EXCEPT ![o] = "Drained"]
         /\ count' = count - 1
         /\ finished' = IF count' = 0 THEN finished + 1 ELSE finished
    ELSE UNCHANGED <<objState, count, finished>>

(* Slip: an object signals when it completes work, not when it hands it on *)
SignalIfIdleAtEnd(o) ==
    IF \A i \in Items : at'[i] # o /\ (at[i] = o => at'[i] = Nowhere)
    THEN SignalDrainDone(o) ELSE UNCHANGED <<objState, count, finished>>

(* What an object does after each piece of work, as in testDrainComplete *)
SignalIfIdle(o) ==
    IF \A i \in Items : at'[i] # o
    THEN SignalDrainDone(o) ELSE UNCHANGED <<objState, count, finished>>

(* An object hands a piece of work on, or completes it *)
Process(i) ==
    /\ Simulating /\ at[i] # Nowhere
    /\ \/ left[i] = 0 /\ at' = [at EXCEPT ![i] = Nowhere] /\ UNCHANGED left
       \/ left[i] > 0 /\ \E o \in Objects \ {at[i]} : at' = [at EXCEPT ![i] = o]
                      /\ left' = [left EXCEPT ![i] = @ - 1]
    /\ SignalIfIdle(at[i])
    /\ UNCHANGED <<script, state, todo>>
-----------------------------------------------------------------------------
(* simulate(): a drained system is resumed first *)
Simulate ==
    /\ script = "user"
    /\ IF state = "Drained"
       THEN state' = "Resuming" /\ todo' = Created /\ script' = "resume"
       ELSE script' = "simulate" /\ UNCHANGED <<state, todo>>
    /\ UNCHANGED <<objState, count, finished, work>>

ResumeObject(o) ==
    /\ script = "resume" /\ o \in todo
    /\ objState' = [objState EXCEPT ![o] = "Running"]
    /\ todo' = todo \ {o}
    /\ UNCHANGED <<script, state, count, finished, work>>

(* do ... while (!allInState(Running)) *)
EndPass ==
    /\ script = "resume" /\ todo = {}
    /\ LET rest == {o \in Created : objState[o] # "Running"} IN
       IF rest = {} THEN state' = "Running" /\ script' = "simulate" /\ UNCHANGED todo
       ELSE todo' = rest /\ UNCHANGED <<state, script>>
    /\ UNCHANGED <<objState, count, finished, work>>

(* An exit event that is not ours *)
ExitEvent ==
    /\ script = "simulate"
    /\ script' = "user"
    /\ UNCHANGED <<state, objState, count, finished, todo, work>>

(* Inside the loop of drain it is dropped, and simulation goes on *)
DropExitEvent == script = "drainLoop" /\ UNCHANGED vars

(* drain(), for a checkpoint, a switch of CPUs or a fork *)
Drain ==
    /\ script = "user" /\ state # "Drained"
    /\ script' = "tryDrain"
    /\ UNCHANGED <<state, objState, count, finished, todo, work>>

TryDrain ==
    /\ script = "tryDrain"
    /\ objState' = [o \in DOMAIN objState |-> IF o \notin Created THEN "none"
                                              ELSE IF Busy(o) THEN "Draining" ELSE "Drained"]
    /\ count' = count + Cardinality({o \in Objects : Busy(o)})
    /\ IF count' = 0 THEN state' = "Drained" /\ script' = "user"
       ELSE state' = "Draining" /\ script' = "drainLoop"
    /\ UNCHANGED <<finished, todo, work>>

(* Slip: once all objects have signalled the system is taken as drained *)
FinishedDrainTrusts ==
    /\ Simulating /\ finished > 0
    /\ finished' = finished - 1
    /\ state' = "Drained" /\ script' = "user"
    /\ UNCHANGED <<objState, count, todo, work>>

(* The exit event ends whichever simulation is running *)
FinishedDrain ==
    /\ Simulating /\ finished > 0
    /\ finished' = finished - 1
    /\ script' = IF script = "drainLoop" THEN "tryDrain" ELSE "user"
    /\ UNCHANGED <<state, objState, count, todo, work>>

Next ==
    \/ PreCheckpointRestore
    \/ InitState
    \/ \E o \in Late : Drainable(o)
    \/ \E i \in Items, o \in Objects : Begin(i, o)
    \/ \E i \in Items : Process(i)
    \/ Simulate
    \/ \E o \in Objects \cup Late : ResumeObject(o)
    \/ EndPass
    \/ ExitEvent
    \/ DropExitEvent
    \/ Drain
    \/ TryDrain
    \/ FinishedDrain

Spec == Init /\ [][Next]_vars

(* The event loop runs every event, the script goes on *)
FairSpec ==
    /\ Spec
    /\ \A i \in Items : WF_vars(Process(i))
    /\ WF_vars(FinishedDrain)
    /\ WF_vars(TryDrain)
-----------------------------------------------------------------------------
(* What a checkpoint, a switch of CPUs and a fork rely on: when drain()    *)
(* has returned there is no work in any object, whatever the objects did   *)
(* to one another after they had signalled.                                *)
DrainedMeansIdle ==
    script = "user" /\ state = "Drained" =>
        /\ \A i \in Items : at[i] = Nowhere
        /\ \A o \in Created : objState[o] = "Drained"

(* _count is the number of objects that will still signal: the wait for    *)
(* "Finished drain" is for them, and ends with the last of them.           *)
CountsDraining ==
    count = Cardinality({o \in Objects : objState[o] = "Draining"})

(* The panics of tryDrain and resume, and the assertion on the states of   *)
(* the objects that resume                                                 *)
NoPanic ==
    /\ script = "tryDrain" => state # "Drained" /\ count = 0
    /\ script = "resume" => /\ count = 0
                            /\ \A o \in todo : objState[o] \in {"Drained", "Resuming"}

(* "Finished drain" ends the loop of the drain it belongs to, never a      *)
(* simulation of the user                                                  *)
FinishedIsOurs == finished > 0 => finished = 1 /\ script = "drainLoop" /\ count = 0

(* A system that was resumed is running in all its objects, those made on  *)
(* the way included                                                        *)
ResumedMeansRunning ==
    script = "simulate" => state = "Running" /\ \A o \in Created : objState[o] = "Running"

(* drain() returns *)
DrainEnds == script = "tryDrain" ~> state = "Drained"
=============================================================================
