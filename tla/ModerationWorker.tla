-------------------------- MODULE ModerationWorker --------------------------
(***************************************************************************)
(* The background worker of internal/service/moderation_service.go:        *)
(* StartWorker, StopWorker and the goroutine they start and stop, over the *)
(* fields workerMu, workerCtx, workerCancel and workerWg.                  *)
(*                                                                         *)
(* The goroutine reads workerCtx without the mutex, each time around its   *)
(* loop; StopWorker keeps the mutex while it waits for the goroutine.      *)
(* What a pass over the queue does is module Moderation's subject: here it *)
(* is a number of items that are processed one after the other.            *)
(***************************************************************************)
EXTENDS Integers, FiniteSets

CONSTANTS
    Callers,    \* goroutines that call StartWorker and StopWorker
    Workers,    \* identities for the goroutines StartWorker creates
    BatchSize,  \* most items one ProcessQueue works on
    None

ASSUME NoneAssumption == None \notin Callers
ASSUME WorkersAssumption == IsFiniteSet(Workers)
ASSUME BatchAssumption == BatchSize \in Nat

VARIABLES
    mutex,      \* workerMu: the caller that holds it, None when it is free
    cancel,     \* workerCancel # nil
    ctx,        \* workerCtx: "nil", "live" or "done"
    wg,         \* workerWg
    caller,     \* caller[c]: "out", "starting", "stopping" or "waiting"
    worker,     \* worker[w]: "none", "processing" or "selecting"
    left,       \* left[w]: items of the batch still to process
    tick        \* workers with a tick in the channel of their ticker

vars == <<mutex, cancel, ctx, wg, caller, worker, left, tick>>

TypeOK ==
    /\ mutex \in Callers \cup {None}
    /\ cancel \in BOOLEAN
    /\ ctx \in {"nil", "live", "done"}
    /\ wg \in Nat
    /\ caller \in [Callers -> {"out", "starting", "stopping", "waiting"}]
    /\ worker \in [Workers -> {"none", "processing", "selecting"}]
    /\ left \in [Workers -> 0..BatchSize]
    /\ tick \in SUBSET Workers

Init ==
    /\ mutex = None
    /\ cancel = FALSE
    /\ ctx = "nil"
    /\ wg = 0
    /\ caller = [c \in Callers |-> "out"]
    /\ worker = [w \in Workers |-> "none"]
    /\ left = [w \in Workers |-> 0]
    /\ tick = {}

Running == {w \in Workers : worker[w] # "none"}

-----------------------------------------------------------------------------
Enter(c, step) ==
    /\ caller[c] = "out"
    /\ caller' = [caller EXCEPT ![c] = step]
    /\ UNCHANGED <<mutex, cancel, ctx, wg, worker, left, tick>>

Leave(c) == caller' = [caller EXCEPT ![c] = "out"]

Call(c) == Enter(c, "starting") \/ Enter(c, "stopping")

\* StartWorker, under the mutex from its first line to its last: when a worker
\* is there already it only warns.
StartWorker(c) ==
    /\ caller[c] = "starting"
    /\ mutex = None
    /\ ~cancel
    /\ \E w \in Workers \ Running, n \in 0..BatchSize :
         /\ worker' = [worker EXCEPT ![w] = "processing"]
         /\ left' = [left EXCEPT ![w] = n]
    /\ cancel' = TRUE
    /\ ctx' = "live"
    /\ wg' = wg + 1
    /\ Leave(c)
    /\ UNCHANGED <<mutex, tick>>

StartWorkerAgain(c) ==
    /\ caller[c] = "starting"
    /\ mutex = None
    /\ cancel
    /\ Leave(c)
    /\ UNCHANGED <<mutex, cancel, ctx, wg, worker, left, tick>>

\* Fault: the fields are cleared before the goroutine has ended.
StopWorkerClears(c) ==
    /\ caller[c] = "stopping"
    /\ mutex = None
    /\ cancel
    /\ mutex' = c
    /\ ctx' = "nil"
    /\ caller' = [caller EXCEPT ![c] = "waiting"]
    /\ UNCHANGED <<cancel, wg, worker, left, tick>>

\* StopWorker takes the mutex, cancels the context ...
StopWorker(c) ==
    /\ caller[c] = "stopping"
    /\ mutex = None
    /\ cancel
    /\ mutex' = c
    /\ ctx' = "done"
    /\ caller' = [caller EXCEPT ![c] = "waiting"]
    /\ UNCHANGED <<cancel, wg, worker, left, tick>>

\* ... waits for the goroutine, clears the fields and releases the mutex.
StopWorkerWaited(c) ==
    /\ caller[c] = "waiting"
    /\ wg = 0
    /\ cancel' = FALSE
    /\ ctx' = "nil"
    /\ mutex' = None
    /\ Leave(c)
    /\ UNCHANGED <<wg, worker, left, tick>>

StopWorkerNone(c) ==
    /\ caller[c] = "stopping"
    /\ mutex = None
    /\ ~cancel
    /\ Leave(c)
    /\ UNCHANGED <<mutex, cancel, ctx, wg, worker, left, tick>>

-----------------------------------------------------------------------------
\* processItem runs on context.Background(): a cancelled worker finishes its
\* batch.
ProcessItem(w) ==
    /\ worker[w] = "processing"
    /\ left[w] > 0
    /\ left' = [left EXCEPT ![w] = @ - 1]
    /\ UNCHANGED <<mutex, cancel, ctx, wg, caller, worker, tick>>

ProcessQueueEnd(w) ==
    /\ worker[w] = "processing"
    /\ left[w] = 0
    /\ worker' = [worker EXCEPT ![w] = "selecting"]
    /\ UNCHANGED <<mutex, cancel, ctx, wg, caller, left, tick>>

\* The ticker's channel holds one tick; later ones are dropped.
Tick(w) ==
    /\ w \in Running \ tick
    /\ tick' = tick \cup {w}
    /\ UNCHANGED <<mutex, cancel, ctx, wg, caller, worker, left>>

\* The two cases of the select; when both are ready, either may run.
SelectTick(w) ==
    /\ worker[w] = "selecting"
    /\ w \in tick
    /\ tick' = tick \ {w}
    /\ worker' = [worker EXCEPT ![w] = "processing"]
    /\ \E n \in 0..BatchSize : left' = [left EXCEPT ![w] = n]
    /\ UNCHANGED <<mutex, cancel, ctx, wg, caller>>

\* Faults: Done is not called, or it is called twice.
SelectDoneForgets(w) ==
    /\ worker[w] = "selecting"
    /\ ctx = "done"
    /\ worker' = [worker EXCEPT ![w] = "none"]
    /\ tick' = tick \ {w}
    /\ UNCHANGED <<mutex, cancel, ctx, wg, caller, left>>

SelectDoneTwice(w) ==
    /\ worker[w] = "selecting"
    /\ ctx = "done"
    /\ worker' = [worker EXCEPT ![w] = "none"]
    /\ tick' = tick \ {w}
    /\ wg' = wg - 2
    /\ UNCHANGED <<mutex, cancel, ctx, caller, left>>

SelectDone(w) ==
    /\ worker[w] = "selecting"
    /\ ctx = "done"
    /\ worker' = [worker EXCEPT ![w] = "none"]
    /\ tick' = tick \ {w}
    /\ wg' = wg - 1
    /\ UNCHANGED <<mutex, cancel, ctx, caller, left>>

-----------------------------------------------------------------------------
LockedStep(c) ==
    \/ StartWorker(c) \/ StartWorkerAgain(c)
    \/ StopWorker(c) \/ StopWorkerWaited(c) \/ StopWorkerNone(c)

Next ==
    \/ \E c \in Callers : Call(c) \/ LockedStep(c)
    \/ \E w \in Workers :
        \/ ProcessItem(w) \/ ProcessQueueEnd(w)
        \/ Tick(w) \/ SelectTick(w) \/ SelectDone(w)

Spec == Init /\ [][Next]_vars

-----------------------------------------------------------------------------
\* Whatever the order of the calls, at most one goroutine processes the queue,
\* and the wait group counts exactly the goroutines there are.
OneWorker ==
    /\ Cardinality(Running) <= 1
    /\ wg = Cardinality(Running)

\* The goroutine never finds workerCtx nil (s.workerCtx.Done() would panic)
\* although it reads the field without the mutex.
ContextForWorker == Running # {} => ctx # "nil"

\* Once StopWorker has returned and until the next StartWorker, no goroutine
\* is left: nothing touches the queue after the shutdown of the server.
StoppedIsQuiet == (mutex = None /\ ~cancel) => Running = {}
=============================================================================
