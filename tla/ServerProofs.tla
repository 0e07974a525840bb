---------------------------- MODULE ServerProofs ----------------------------
(***************************************************************************)
(* Theorems about Server and the modules it is composed of: first the      *)
(* worker by itself (ModerationWorker), for any callers of StartWorker and *)
(* StopWorker, any finite set of identities for the goroutine and any      *)
(* batch size; then a process with its worker and the edits of a profile   *)
(* that it serves.  The end of the process, which no lifecycle of the      *)
(* worker knows, is added to the worker's invariant there.                 *)
(***************************************************************************)
EXTENDS Server, FiniteSetTheorems, TLAPS

USE MainAssumption, NoneAssumption, BatchAssumption

\* workerMu is held by exactly the caller that waits for the goroutine.
MutexHeld == \A c \in Callers : caller[c] = "waiting" <=> mutex = c

\* What workerCancel and workerCtx say about each other and about the mutex.
FieldsAgree ==
    /\ cancel <=> ctx # "nil"
    /\ ctx = "done" <=> mutex # None

\* There is no goroutine, or one; without workerCancel there is none.
WorkerAgrees ==
    /\ \/ Running = {} /\ wg = 0
       \/ \E w \in Workers : Running = {w} /\ wg = 1
    /\ ~cancel => Running = {}

IInv ==
    /\ TypeOK
    /\ MutexHeld
    /\ FieldsAgree
    /\ WorkerAgrees

LEMMA InitInv == Init => IInv
<1> SUFFICES ASSUME Init PROVE IInv
  OBVIOUS
<1>1. TypeOK
  <2>1. cancel \in BOOLEAN
    BY DEF Init
  <2>2. /\ mutex \in Callers \cup {None} /\ ctx \in {"nil", "live", "done"}
        /\ wg \in Nat /\ tick \in SUBSET Workers
    BY DEF Init
  <2>3. caller \in [Callers -> {"out", "starting", "stopping", "waiting"}]
    BY DEF Init
  <2>4. worker \in [Workers -> {"none", "processing", "selecting"}]
    BY DEF Init
  <2>5. left \in [Workers -> 0..BatchSize]
    BY DEF Init
  <2> QED
    BY <2>1, <2>2, <2>3, <2>4, <2>5 DEF TypeOK
<1>2. MutexHeld
  BY DEF Init, MutexHeld
<1>3. FieldsAgree
  BY DEF Init, FieldsAgree
<1>4. WorkerAgrees
  BY DEF Init, WorkerAgrees, Running
<1> QED
  BY <1>1, <1>2, <1>3, <1>4 DEF IInv

\* Steps of the callers.
LEMMA LockedInv ==
    ASSUME IInv, NEW c \in Callers, Call(c) \/ LockedStep(c)
    PROVE  IInv'
<1> USE DEF IInv, TypeOK, MutexHeld, FieldsAgree, Leave
<1>1. CASE Call(c)
  BY <1>1 DEF Call, Enter, WorkerAgrees, Running
<1>2. CASE StartWorker(c)
  <2>1. Running = {} /\ wg = 0
    BY <1>2 DEF StartWorker, WorkerAgrees
  <2>2. PICK w \in Workers \ Running : worker' = [worker EXCEPT ![w] = "processing"]
    BY <1>2 DEF StartWorker
  <2>3. Running' = {w} /\ wg' = 1 /\ cancel'
    BY <1>2, <2>1, <2>2 DEF StartWorker, Running
  <2>4. WorkerAgrees'
    BY <2>2, <2>3 DEF WorkerAgrees
  <2>5. TypeOK'
    BY <1>2 DEF StartWorker
  <2>6. MutexHeld' /\ FieldsAgree'
    BY <1>2 DEF StartWorker
  <2> QED
    BY <2>4, <2>5, <2>6
<1>3. CASE StartWorkerAgain(c)
  BY <1>3 DEF StartWorkerAgain, WorkerAgrees, Running
<1>4. CASE StopWorker(c)
  BY <1>4 DEF StopWorker, WorkerAgrees, Running
<1>5. CASE StopWorkerWaited(c)
  <2>1. Running' = {} /\ wg' = 0
    BY <1>5 DEF StopWorkerWaited, WorkerAgrees, Running
  <2>2. TypeOK' /\ MutexHeld' /\ FieldsAgree'
    BY <1>5 DEF StopWorkerWaited
  <2> QED
    BY <2>1, <2>2 DEF WorkerAgrees
<1>6. CASE StopWorkerNone(c)
  BY <1>6 DEF StopWorkerNone, WorkerAgrees, Running
<1> QED
  BY <1>1, <1>2, <1>3, <1>4, <1>5, <1>6 DEF LockedStep

\* Steps of the goroutine and of its ticker.
LEMMA WorkerInv ==
    ASSUME IInv, NEW w \in Workers,
           \/ ProcessItem(w) \/ ProcessQueueEnd(w)
           \/ Tick(w) \/ SelectTick(w) \/ SelectDone(w)
    PROVE  IInv'
<1> USE DEF IInv, TypeOK, MutexHeld, FieldsAgree
<1>1. CASE ProcessItem(w)
  BY <1>1 DEF ProcessItem, WorkerAgrees, Running
<1>2. CASE ProcessQueueEnd(w)
  <2>1. Running' = Running
    BY <1>2 DEF ProcessQueueEnd, Running
  <2> QED
    BY <1>2, <2>1 DEF ProcessQueueEnd, WorkerAgrees
<1>3. CASE Tick(w)
  BY <1>3 DEF Tick, WorkerAgrees, Running
<1>4. CASE SelectTick(w)
  <2>1. Running' = Running
    BY <1>4 DEF SelectTick, Running
  <2> QED
    BY <1>4, <2>1 DEF SelectTick, WorkerAgrees
<1>5. CASE SelectDone(w)
  <2>1. w \in Running
    BY <1>5 DEF SelectDone, Running
  <2>2. Running = {w} /\ wg = 1 /\ cancel
    BY <2>1 DEF WorkerAgrees
  <2>3. Running' = {} /\ wg' = 0
    BY <1>5, <2>2 DEF SelectDone, Running
  <2>4. TypeOK'
    BY <1>5, <2>3 DEF SelectDone
  <2>5. MutexHeld' /\ FieldsAgree'
    BY <1>5 DEF SelectDone
  <2> QED
    BY <2>3, <2>4, <2>5 DEF WorkerAgrees
<1> QED
  BY <1>1, <1>2, <1>3, <1>4, <1>5

LEMMA NextInv == IInv /\ [Next]_vars => IInv'
<1>1. IInv /\ UNCHANGED vars => IInv'
  BY DEF vars, IInv, TypeOK, MutexHeld, FieldsAgree, WorkerAgrees, Running
<1> QED
  BY <1>1, LockedInv, WorkerInv DEF Next

LEMMA Invariance == Spec => []IInv
  BY InitInv, NextInv, PTL DEF Spec

-----------------------------------------------------------------------------
\* Every field keeps its type; in particular the wait group is never negative,
\* which would panic.
THEOREM TypeCorrect == Spec => []TypeOK
<1>1. IInv => TypeOK
  BY DEF IInv
<1> QED
  BY <1>1, Invariance, PTL

\* However StartWorker and StopWorker are called, one goroutine at most works
\* on the queue and the wait group counts it.
THEOREM AtMostOneWorker == Spec => []OneWorker
<1>1. IInv => OneWorker
  <2> SUFFICES ASSUME IInv PROVE OneWorker
    OBVIOUS
  <2>1. CASE Running = {} /\ wg = 0
    BY <2>1, FS_EmptySet DEF OneWorker
  <2>2. ASSUME NEW w \in Workers, Running = {w}, wg = 1
        PROVE  OneWorker
    <3>1. Cardinality(Running) = 1
      BY <2>2, FS_Singleton
    <3> QED
      BY <2>2, <3>1 DEF OneWorker
  <2> QED
    BY <2>1, <2>2 DEF IInv, WorkerAgrees
<1> QED
  BY <1>1, Invariance, PTL

\* The goroutine never dereferences a nil context, which it reads without the
\* mutex.
THEOREM WorkerHasContext == Spec => []ContextForWorker
<1>1. IInv => ContextForWorker
  BY DEF IInv, FieldsAgree, WorkerAgrees, ContextForWorker
<1> QED
  BY <1>1, Invariance, PTL

\* No goroutine is left after StopWorker.
THEOREM QuietAfterStop == Spec => []StoppedIsQuiet
<1>1. IInv => StoppedIsQuiet
  BY DEF IInv, WorkerAgrees, StoppedIsQuiet
<1> QED
  BY <1>1, Invariance, PTL

-----------------------------------------------------------------------------
\* In which phases there may be a worker, requests and an open pool.
PhasesAgree ==
    /\ phase \in Phases
    /\ cancel => phase \in {"serving", "shutdown", "stopping"}
    /\ editing # {} => Listening \/ phase = "shutdown"
    /\ pool = "open" <=> Listening \/ phase \in {"shutdown", "stopping", "closing"}
    /\ pool \in {"none", "open", "closed"}

\* What a request read differs from what was asked for only in columns written
\* since, or in columns that were already written back by an overtaken edit.
CopiesAgree ==
    \A e \in editing :
        /\ copy[e] \in Rows
        /\ \A c \in Columns : copy[e][c] # word[c] => c \in raced \cup passed[e]

ProfileInv == ProfileTypeOK /\ CopiesAgree /\ EditsLostToOverlap

ServerInv ==
    /\ IInv
    /\ ProfileInv
    /\ PhasesAgree

-----------------------------------------------------------------------------
\* Each column is "nickname" or "status".
LEMMA RowsHaveColumns ==
    /\ Columns = {"nickname", "status"}
    /\ \A r \in Rows, nick \in Nicknames : [r EXCEPT !.nickname = nick] \in Rows
    /\ \A r \in Rows, st \in {"active", "banned"} : [r EXCEPT !.status = st] \in Rows
  BY DEF Columns, Rows

LEMMA LoadKeepsProfile ==
    ASSUME ProfileInv, NEW e \in Editors, NEW nick \in Nicknames \cup {Kept},
           UpdateMeLoad(e, nick)
    PROVE  ProfileInv'
<1> USE DEF ProfileInv, UpdateMeLoad
<1>1. row \in Rows
  BY DEF ProfileTypeOK
<1>2. ProfileTypeOK'
  BY DEF ProfileTypeOK
<1>3. CopiesAgree'
  <2> SUFFICES ASSUME NEW d \in editing'
               PROVE  /\ copy'[d] \in Rows
                      /\ \A c \in Columns :
                           copy'[d][c] # word'[c] => c \in raced' \cup passed'[d]
    BY DEF CopiesAgree
  <2>1. CASE d = e
    <3>1. copy'[d] = row
      BY <2>1 DEF ProfileTypeOK
    <3> QED
      BY <3>1, <1>1 DEF EditsLostToOverlap
  <2>2. CASE d # e
    BY <2>2 DEF CopiesAgree, ProfileTypeOK
  <2> QED
    BY <2>1, <2>2
<1>4. EditsLostToOverlap'
  BY DEF EditsLostToOverlap
<1> QED
  BY <1>2, <1>3, <1>4

LEMMA WriteKeepsProfile ==
    ASSUME ProfileInv, NEW e \in Editors, UpdateMeWrite(e)
    PROVE  ProfileInv'
<1> USE DEF ProfileInv
<1>1. e \in editing /\ copy[e] \in Rows /\ given[e] \in Nicknames \cup {Kept}
  BY DEF UpdateMeWrite, CopiesAgree, ProfileTypeOK
<1>2. row' \in Rows /\ word' \in Rows /\ Written(e) \subseteq Columns
  BY <1>1, RowsHaveColumns DEF UpdateMeWrite, Edited, Written, ProfileTypeOK
<1>3. ProfileTypeOK'
  BY <1>2 DEF UpdateMeWrite, Forget, ProfileTypeOK
\* The columns the request gives are what it wrote, the others what it read.
<1>4. ASSUME NEW c \in Columns
      PROVE  /\ c \in Written(e) => row'[c] = word'[c]
             /\ c \notin Written(e) => row'[c] = copy[e][c] /\ word'[c] = word[c]
  <2>1. CASE given[e] = Kept
    BY <2>1 DEF UpdateMeWrite, Edited, Written
  <2>2. CASE given[e] # Kept
    <3>1. given[e] \in Nicknames
      BY <1>1, <2>2
    <3>2. /\ row' = [copy[e] EXCEPT !.nickname = given[e]]
          /\ word' = [word EXCEPT !.nickname = given[e]]
          /\ Written(e) = {"nickname"}
      BY <2>2 DEF UpdateMeWrite, Edited, Written
    <3>3. copy[e] \in Rows /\ word \in Rows
      BY <1>1 DEF ProfileTypeOK
    <3> QED
      BY <3>1, <3>2, <3>3, <1>4 DEF Rows, Columns
  <2> QED
    BY <2>1, <2>2
<1>5. EditsLostToOverlap'
  <2> SUFFICES ASSUME NEW c \in Columns, row'[c] # word'[c]
               PROVE  c \in raced'
    BY DEF EditsLostToOverlap
  <2>1. c \notin Written(e) /\ copy[e][c] # word[c]
    BY <1>4
  <2>2. c \in raced \cup passed[e]
    BY <2>1, <1>1 DEF CopiesAgree
  <2> QED
    BY <2>1, <2>2 DEF UpdateMeWrite
<1>6. CopiesAgree'
  <2> SUFFICES ASSUME NEW d \in editing'
               PROVE  /\ copy'[d] \in Rows
                      /\ \A c \in Columns :
                           copy'[d][c] # word'[c] => c \in raced' \cup passed'[d]
    BY DEF CopiesAgree
  <2>1. d \in editing /\ d # e /\ copy'[d] = copy[d] /\ copy[d] \in Rows
    BY DEF UpdateMeWrite, Forget, CopiesAgree, ProfileTypeOK
  <2>2. d \in Editors /\ passed'[d] = passed[d] \cup Written(e)
    BY <2>1 DEF UpdateMeWrite, ProfileTypeOK
  <2>3. ASSUME NEW c \in Columns, copy[d][c] # word'[c]
        PROVE  c \in raced' \cup passed'[d]
    <3>1. CASE c \in Written(e)
      BY <3>1, <2>2
    <3>2. CASE c \notin Written(e)
      <4>1. c \in raced \cup passed[d]
        BY <3>2, <1>4, <2>1, <2>3 DEF CopiesAgree
      <4>2. c \in raced => c \in raced'
        BY <3>2 DEF UpdateMeWrite
      <4> QED
        BY <4>1, <4>2, <2>2
    <3> QED
      BY <3>1, <3>2
  <2> QED
    BY <2>1, <2>3
<1> QED
  BY <1>3, <1>5, <1>6

LEMMA AbandonKeepsProfile ==
    ASSUME ProfileInv, NEW e \in Editors, AbandonEdit(e)
    PROVE  ProfileInv'
<1> USE DEF ProfileInv, AbandonEdit, Forget
<1>1. ProfileTypeOK'
  BY DEF ProfileTypeOK
<1>2. CopiesAgree'
  BY DEF CopiesAgree, ProfileTypeOK
<1>3. EditsLostToOverlap'
  BY DEF EditsLostToOverlap
<1> QED
  BY <1>1, <1>2, <1>3

LEMMA StatusKeepsProfile ==
    ASSUME ProfileInv, NEW st \in {"active", "banned"}, SetStatus(st)
    PROVE  ProfileInv'
<1> USE DEF ProfileInv
<1>1. row \in Rows /\ word \in Rows
  BY DEF ProfileTypeOK
<1>2. row' \in Rows /\ word' \in Rows
  BY <1>1, RowsHaveColumns DEF SetStatus
<1>3. ProfileTypeOK'
  BY <1>2 DEF SetStatus, ProfileTypeOK, Columns
<1>4. /\ row'["status"] = word'["status"]
      /\ row'["nickname"] = row["nickname"] /\ word'["nickname"] = word["nickname"]
  BY <1>1 DEF SetStatus, Rows
<1>5. EditsLostToOverlap'
  <2> SUFFICES ASSUME NEW c \in Columns, row'[c] # word'[c]
               PROVE  c \in raced'
    BY DEF EditsLostToOverlap
  <2>1. c = "nickname"
    BY <1>4 DEF Columns
  <2>2. c \in raced
    BY <2>1, <1>4 DEF EditsLostToOverlap, Columns
  <2> QED
    BY <2>1, <2>2 DEF SetStatus
<1>6. CopiesAgree'
  <2> SUFFICES ASSUME NEW d \in editing,
                      NEW c \in Columns, copy[d][c] # word'[c]
               PROVE  c \in raced' \cup passed'[d]
    BY DEF CopiesAgree, SetStatus
  <2>1. d \in Editors /\ passed'[d] = passed[d] \cup {"status"}
    BY DEF SetStatus, ProfileTypeOK
  <2>2. CASE c = "status"
    BY <2>1, <2>2
  <2>3. CASE c = "nickname"
    <3>1. c \in raced \cup passed[d]
      BY <2>3, <1>4 DEF CopiesAgree
    <3> QED
      BY <3>1, <2>1, <2>3 DEF SetStatus
  <2> QED
    BY <2>2, <2>3 DEF Columns
<1> QED
  BY <1>3, <1>5, <1>6

-----------------------------------------------------------------------------
LEMMA ServerInitInv == ServerInit => ServerInv
<1> SUFFICES ASSUME ServerInit PROVE ServerInv
  OBVIOUS
<1>1. IInv
  BY InitInv DEF ServerInit
<1>2. ProfileTypeOK
  <2>1. row \in Rows /\ word \in Rows
    BY DEF ServerInit, ProfileInit
  <2>2. /\ editing \in SUBSET Editors /\ raced \in SUBSET Columns
        /\ copy \in [Editors -> Rows \cup {Blank}]
        /\ given \in [Editors -> Nicknames \cup {Kept}]
        /\ passed \in [Editors -> SUBSET Columns]
    BY DEF ServerInit, ProfileInit
  <2> QED
    BY <2>1, <2>2 DEF ProfileTypeOK
<1>3. CopiesAgree /\ EditsLostToOverlap
  BY DEF ServerInit, ProfileInit, CopiesAgree, EditsLostToOverlap
<1>4. PhasesAgree
  BY DEF ServerInit, Init, ProfileInit, PhasesAgree, Phases, Listening
<1> QED
  BY <1>1, <1>2, <1>3, <1>4 DEF ServerInv, ProfileInv

\* What does not touch the variables of a part keeps its invariant.
LEMMA WorkerUntouched == IInv /\ UNCHANGED vars => IInv'
  BY NextInv

LEMMA ProfileUntouched == ProfileInv /\ UNCHANGED profileVars => ProfileInv'
  BY DEF ProfileInv, ProfileTypeOK, CopiesAgree, EditsLostToOverlap, profileVars

\* The end of the process: no worker, no request, no pool is left.
LEMMA VanishInv == ASSUME ServerInv, Vanish PROVE ServerInv'
<1> USE DEF ServerInv, Vanish
<1>1. IInv'
  <2>1. TypeOK'
    <3>1. /\ caller' \in [Callers -> {"out", "starting", "stopping", "waiting"}]
          /\ worker' \in [Workers -> {"none", "processing", "selecting"}]
          /\ left' \in [Workers -> 0..BatchSize]
      OBVIOUS
    <3> QED
      BY <3>1 DEF TypeOK
  <2>2. Running' = {}
    BY DEF Running
  <2>3. MutexHeld' /\ FieldsAgree' /\ WorkerAgrees'
    BY <2>2 DEF MutexHeld, FieldsAgree, WorkerAgrees
  <2> QED
    BY <2>1, <2>3 DEF IInv
<1>2. ProfileInv'
  BY DEF ProfileInv, ProfileTypeOK, CopiesAgree, EditsLostToOverlap
<1>3. PhasesAgree'
  BY DEF PhasesAgree, Phases, Listening
<1> QED
  BY <1>1, <1>2, <1>3

\* What main does while the process goes on.
LEMMA LifeInv ==
    ASSUME ServerInv,
           \/ Boot \/ InitApp \/ Quit \/ MainStartsWorker \/ ShutdownReturns
           \/ MainStopsWorker \/ MainStopped \/ ClosePool
    PROVE  ServerInv'
<1> USE DEF ServerInv
<1>1. main \in Callers
  OBVIOUS
<1>2. ProfileInv'
  BY ProfileUntouched
     DEF Boot, InitApp, Quit, MainStartsWorker, ShutdownReturns,
         MainStopsWorker, MainStopped, ClosePool, profileVars
<1>3. CASE Boot
  <2>1. IInv'
    BY <1>1, <1>3, LockedInv DEF Boot, Call
  <2>2. PhasesAgree'
    BY <1>3 DEF Boot, OpenPool, Enter, PhasesAgree, Phases, Listening, profileVars
  <2> QED
    BY <1>2, <2>1, <2>2
<1>4. CASE InitApp
  <2>1. IInv'
    BY <1>4, WorkerUntouched DEF InitApp
  <2>2. PhasesAgree'
    BY <1>4 DEF InitApp, OpenPool, vars, PhasesAgree, Phases, Listening, profileVars
  <2> QED
    BY <1>2, <2>1, <2>2
<1>5. CASE Quit
  <2>1. IInv'
    BY <1>5, WorkerUntouched DEF Quit
  <2>2. PhasesAgree'
    BY <1>5 DEF Quit, vars, PhasesAgree, Phases, Listening, profileVars
  <2> QED
    BY <1>2, <2>1, <2>2
<1>6. CASE MainStartsWorker
  <2>1. IInv'
    BY <1>1, <1>6, LockedInv DEF MainStartsWorker, LockedStep
  <2>2. PhasesAgree'
    BY <1>6 DEF MainStartsWorker, StartWorker, PhasesAgree, Phases, Listening, profileVars
  <2> QED
    BY <1>2, <2>1, <2>2
<1>7. CASE ShutdownReturns
  <2>1. IInv'
    BY <1>1, <1>7, LockedInv DEF ShutdownReturns, Call
  <2>2. PhasesAgree'
    BY <1>7 DEF ShutdownReturns, Enter, PhasesAgree, Phases, Listening, profileVars
  <2> QED
    BY <1>2, <2>1, <2>2
<1>8. CASE MainStopsWorker
  <2>1. IInv'
    BY <1>1, <1>8, LockedInv DEF MainStopsWorker, LockedStep
  <2>2. PhasesAgree'
    BY <1>8 DEF MainStopsWorker, StopWorker, PhasesAgree, Phases, Listening,
                profileVars, lifeVars
  <2> QED
    BY <1>2, <2>1, <2>2
<1>9. CASE MainStopped
  <2>1. IInv'
    BY <1>1, <1>9, LockedInv DEF MainStopped, LockedStep
  <2>2. PhasesAgree'
    BY <1>9 DEF MainStopped, StopWorkerWaited, PhasesAgree, Phases, Listening, profileVars
  <2> QED
    BY <1>2, <2>1, <2>2
<1>10. CASE ClosePool
  <2>1. IInv'
    BY <1>10, WorkerUntouched DEF ClosePool
  <2>2. PhasesAgree'
    BY <1>10 DEF ClosePool, vars, PhasesAgree, Phases, Listening, profileVars
  <2> QED
    BY <1>2, <2>1, <2>2
<1> QED
  BY <1>3, <1>4, <1>5, <1>6, <1>7, <1>8, <1>9, <1>10

\* Requests, the operator and the worker.
LEMMA ServingInv ==
    ASSUME ServerInv,
           \/ \E e \in Editors : Serve(e)
           \/ \E w \in Workers : WorkerMoves(w)
           \/ Operate
    PROVE  ServerInv'
<1> USE DEF ServerInv
<1>1. CASE \E e \in Editors : Serve(e)
  <2> PICK e \in Editors : Serve(e)
    BY <1>1
  <2>1. IInv'
    BY WorkerUntouched DEF Serve
  <2>2. ProfileInv'
    BY LoadKeepsProfile, WriteKeepsProfile, AbandonKeepsProfile DEF Serve
  <2>3. editing' # {} => Listening \/ phase = "shutdown"
    BY DEF Serve, UpdateMeLoad, UpdateMeWrite, AbandonEdit, Forget, PhasesAgree
  <2>4. PhasesAgree'
    BY <2>3 DEF Serve, PhasesAgree, Listening, lifeVars, vars
  <2> QED
    BY <2>1, <2>2, <2>4
<1>2. CASE Operate
  <2>1. IInv'
    BY <1>2, WorkerUntouched DEF Operate
  <2>2. ProfileInv'
    BY <1>2, StatusKeepsProfile DEF Operate
  <2>3. PhasesAgree'
    BY <1>2 DEF Operate, SetStatus, PhasesAgree, Listening, lifeVars, vars
  <2> QED
    BY <2>1, <2>2, <2>3
<1>3. CASE \E w \in Workers : WorkerMoves(w)
  <2> PICK w \in Workers : WorkerMoves(w)
    BY <1>3
  <2>1. IInv'
    BY WorkerInv DEF WorkerMoves
  <2>2. ProfileInv'
    BY ProfileUntouched DEF WorkerMoves
  <2>3. cancel' = cancel
    BY DEF WorkerMoves, ProcessItem, ProcessQueueEnd, Tick, SelectTick, SelectDone
  <2>4. PhasesAgree'
    BY <2>3 DEF WorkerMoves, PhasesAgree, Listening, lifeVars, profileVars
  <2> QED
    BY <2>1, <2>2, <2>4
<1> QED
  BY <1>1, <1>2, <1>3

LEMMA ServerNextInv == ServerInv /\ [ServerNext]_serverVars => ServerInv'
<1> SUFFICES ASSUME ServerInv, [ServerNext]_serverVars PROVE ServerInv'
  OBVIOUS
<1>1. CASE UNCHANGED serverVars
  <2>1. IInv' /\ ProfileInv'
    BY <1>1, WorkerUntouched, ProfileUntouched DEF serverVars, ServerInv
  <2>2. PhasesAgree'
    BY <1>1 DEF serverVars, vars, profileVars, lifeVars, ServerInv, PhasesAgree, Listening
  <2> QED
    BY <2>1, <2>2 DEF ServerInv
<1>2. CASE ServerNext
  BY <1>2, VanishInv, LifeInv, ServingInv
     DEF ServerNext, MainMoves, ShutdownTimesOut, MainReturns, Die
<1> QED
  BY <1>1, <1>2

LEMMA ServerInvariance == ServerSpec => []ServerInv
  BY ServerInitInv, ServerNextInv, PTL DEF ServerSpec

-----------------------------------------------------------------------------
\* Every variable of the process, its worker and the profile keeps its type;
\* the wait group is never negative, which would panic.
THEOREM ServerTypeCorrect == ServerSpec => []ServerTypeOK
<1>1. ServerInv => ServerTypeOK
  BY DEF ServerInv, IInv, ProfileInv, PhasesAgree, ServerTypeOK
<1> QED
  BY <1>1, ServerInvariance, PTL

\* The goroutine never finds a nil context, in any process, however often the
\* process is killed and started again.
THEOREM ServerWorkerHasContext == ServerSpec => []ContextForWorker
<1>1. ServerInv => ContextForWorker
  BY DEF ServerInv, IInv, FieldsAgree, WorkerAgrees, ContextForWorker
<1> QED
  BY <1>1, ServerInvariance, PTL

\* Neither the worker nor a request is left when main closes the pool.
THEOREM PoolClosedLast == ServerSpec => []NothingAfterClose
<1>1. ServerInv => NothingAfterClose
  BY DEF ServerInv, IInv, WorkerAgrees, PhasesAgree, Listening, NothingAfterClose
<1> QED
  BY <1>1, ServerInvariance, PTL

\* For any number of overlapping edits, a column that is not what was last
\* asked for was written back by an edit that had read it before.
THEOREM EditsLostOnlyToOverlap == ServerSpec => []EditsLostToOverlap
<1>1. ServerInv => EditsLostToOverlap
  BY DEF ServerInv, ProfileInv
<1> QED
  BY <1>1, ServerInvariance, PTL
=============================================================================
