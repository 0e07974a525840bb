------------------------------- MODULE Server -------------------------------
(***************************************************************************)
(* One process of the service, from its start to its end: func main of     *)
(* cmd/server/main.go, and InitApp of bridge/app.go for the serverless     *)
(* deployment.  It composes the moderation worker (only main starts and    *)
(* stops it) with requests that are being served (those of Profiles).      *)
(*                                                                         *)
(* Opening the pool, the Redis client and the R2 client is one step: when  *)
(* one of them fails the process exits with log.Fatal before it serves     *)
(* anything, which changes nothing here.  Failing migrations are only      *)
(* logged.  The row of the user outlives the process; the worker's fields  *)
(* and the requests do not.  The goroutines that count views are left out. *)
(***************************************************************************)
EXTENDS ModerationWorker, Profiles

CONSTANT main       \* the goroutine of func main

ASSUME MainAssumption == main \in Callers

VARIABLES
    phase,          \* where the process is, "down" when there is none
    pool            \* dbPool: "none", "open" or "closed"

lifeVars == <<phase, pool>>
serverVars == <<vars, profileVars, lifeVars>>

Phases == {"down", "starting", "serving", "shutdown", "stopping", "closing",
           "ended", "invoked", "degraded"}

\* The listener is open; the serverless platform calls the engine directly.
Listening == phase \in {"starting", "serving", "invoked"}

ServerTypeOK ==
    /\ TypeOK /\ ProfileTypeOK
    /\ phase \in Phases
    /\ pool \in {"none", "open", "closed"}

ServerInit == Init /\ ProfileInit /\ phase = "down" /\ pool = "none"

-----------------------------------------------------------------------------
\* NewPostgresPool connects and pings.
OpenPool == pool' = "open"

\* "Infrastructure": the pool and the rest; then a goroutine listens.
Boot ==
    /\ phase = "down"
    /\ phase' = "starting"
    /\ OpenPool
    /\ Enter(main, "starting")
    /\ UNCHANGED profileVars

\* InitApp: no worker, no listener, and no deferred close; without a database
\* every route answers 503 until the instance is replaced.
InitApp ==
    /\ phase = "down"
    /\ \/ phase' = "invoked" /\ OpenPool
       \/ phase' = "degraded" /\ UNCHANGED pool
    /\ UNCHANGED <<vars, profileVars>>

\* Requests may already be served while main starts the worker.
MainStartsWorker ==
    /\ phase = "starting"
    /\ StartWorker(main)
    /\ phase' = "serving"
    /\ UNCHANGED <<pool, profileVars>>

\* SIGINT or SIGTERM ends <-quit, and Shutdown closes the listener ...
Quit ==
    /\ phase = "serving"
    /\ phase' = "shutdown"
    /\ UNCHANGED <<vars, profileVars, pool>>

\* Fault: Close, which does not wait for the handlers.
ShutdownReturnsEarly ==
    /\ phase = "shutdown"
    /\ phase' = "stopping"
    /\ Enter(main, "stopping")
    /\ UNCHANGED <<pool, profileVars>>

\* ... returns when no request is left ...
ShutdownReturns ==
    /\ phase = "shutdown"
    /\ editing = {}
    /\ phase' = "stopping"
    /\ Enter(main, "stopping")
    /\ UNCHANGED <<pool, profileVars>>

MainStopsWorker ==
    /\ phase = "stopping"
    /\ StopWorker(main)
    /\ UNCHANGED <<lifeVars, profileVars>>

MainStopped ==
    /\ phase = "stopping"
    /\ StopWorkerWaited(main)
    /\ phase' = "closing"
    /\ UNCHANGED <<pool, profileVars>>

\* The deferred calls: dbPool.Close comes last.
ClosePool ==
    /\ phase = "closing"
    /\ phase' = "ended"
    /\ pool' = "closed"
    /\ UNCHANGED <<vars, profileVars>>

\* The process is gone, with every goroutine and every request in it.
Vanish ==
    /\ phase' = "down"
    /\ pool' = "none"
    /\ mutex' = None /\ cancel' = FALSE /\ ctx' = "nil" /\ wg' = 0
    /\ caller' = [c \in Callers |-> "out"]
    /\ worker' = [w \in Workers |-> "none"]
    /\ left' = [w \in Workers |-> 0]
    /\ tick' = {}
    /\ editing' = {}
    /\ copy' = [e \in Editors |-> Blank]
    /\ given' = [e \in Editors |-> Kept]
    /\ passed' = [e \in Editors |-> {}]
    /\ UNCHANGED <<row, word, raced>>

\* ... or gives up after ten seconds: log.Fatal, which runs no deferred call
\* and does not stop the worker.
ShutdownTimesOut == phase = "shutdown" /\ editing # {} /\ Vanish

MainReturns == phase = "ended" /\ Vanish

\* ListenAndServe fails (log.Fatal), the process is killed, or the platform
\* reclaims the instance.
Die == phase \notin {"down", "ended"} /\ Vanish

-----------------------------------------------------------------------------
\* A connection accepted before Shutdown may still bring its first request.
Serve(e) ==
    /\ \/ /\ Listening \/ phase = "shutdown"
          /\ \E nick \in Nicknames \cup {Kept} : UpdateMeLoad(e, nick)
       \/ UpdateMeWrite(e)
       \/ AbandonEdit(e)
    /\ UNCHANGED <<vars, lifeVars>>

\* An operator works on the database, whether or not the service runs.
Operate ==
    /\ \E s \in {"active", "banned"} : SetStatus(s)
    /\ UNCHANGED <<vars, lifeVars>>

WorkerMoves(w) ==
    /\ ProcessItem(w) \/ ProcessQueueEnd(w) \/ Tick(w) \/ SelectTick(w) \/ SelectDone(w)
    /\ UNCHANGED <<profileVars, lifeVars>>

MainMoves ==
    \/ MainStartsWorker \/ ShutdownReturns \/ ShutdownTimesOut
    \/ MainStopsWorker \/ MainStopped \/ ClosePool \/ MainReturns

ServerNext ==
    \/ Boot \/ InitApp \/ Quit \/ MainMoves \/ Die
    \/ \E e \in Editors : Serve(e)
    \/ \E w \in Workers : WorkerMoves(w)
    \/ Operate

ServerSpec == ServerInit /\ [][ServerNext]_serverVars

\* The goroutines of main and of the worker run, an item ends, ten seconds
\* pass, and a select that finds two cases ready chooses at random (SF).
\* Nothing obliges clients, operators or the ticker.
ServerFairness ==
    /\ WF_serverVars(MainMoves)
    /\ \A w \in Workers :
        /\ WF_serverVars((ProcessItem(w) \/ ProcessQueueEnd(w)) /\ UNCHANGED <<profileVars, lifeVars>>)
        /\ SF_serverVars(SelectDone(w) /\ UNCHANGED <<profileVars, lifeVars>>)

FairServer == ServerSpec /\ ServerFairness

-----------------------------------------------------------------------------
\* Whoever uses the pool finds it open: neither the worker nor a request is
\* left when main closes it, whatever the order of requests, ticks and the
\* signal (Shutdown, then StopWorker, then the deferred calls).  It does not
\* speak of the goroutines of IncrementView, which nobody waits for.
NothingAfterClose == pool # "open" => Running = {} /\ editing = {}

\* A shutdown ends: it waits ten seconds for requests, and for the worker with
\* the mutex held, but the worker never needs the mutex and never misses the
\* cancellation for good.
ShutdownEnds == phase = "shutdown" ~> phase = "down"
=============================================================================
