-------------------------- MODULE ModerationProofs --------------------------
(***************************************************************************)
(* Theorems about Moderation, for any memories, users, requests, batch     *)
(* size and threshold.                                                     *)
(***************************************************************************)
EXTENDS Moderation, FiniteSetTheorems, TLAPS

USE NoneAssumption, BoundsAssumption, ReviewingAssumption

\* What the next statement of request r relies on: it escalates or submits for
\* a reason, and reviews an item that is there.
Knows(r) ==
    /\ pc[r] # "idle" => subject[r] \in Memories
    /\ pc[r] \in {"exists", "create", "escalate"} => Reported(subject[r])
    /\ pc[r] = "submit" => subject[r] \in submitted
    /\ pc[r] \in {"reviewMemory", "reviewItem"} =>
         item[subject[r]] # "none" /\ verdict[r] \in Decided
    /\ pc[r] = "reviewItem" => status[subject[r]] # "pending"

RequestsKnow == \A r \in Requests : Knows(r)

\* What the worker relies on: it works on items that are there, and has tried
\* to write the status of a memory before it closes its item.
WorkerKnows ==
    /\ \A m \in batch : item[m] # "none"
    /\ wpc \in {"memory", "item"} =>
         current \in Memories /\ item[current] # "none" /\ judged # "none"
    /\ wpc = "memory" => judged \in Decided
    /\ wpc = "item" /\ judged \in Decided =>
         status[current] # "pending" \/ current \in unwritten

\* Reports come one by one.
ReportersFinite == \A m \in Memories : IsFiniteSet(reporters[m])

IInv ==
    /\ TypeOK
    /\ ReportersFinite
    /\ RequestsKnow
    /\ WorkerKnows
    /\ EscalationNeedsReports
    /\ DecidedReachesMemory

\* Rows stay: no item is deleted, no report is taken back, and no memory waits
\* again once it has a status.
RowsStay ==
    \A m \in Memories :
        /\ item[m] # "none" => item'[m] # "none"
        /\ Reported(m) => Reported(m)'
        /\ status[m] # "pending" => status'[m] # "pending"

\* What a step may do to the rows: only reports and submissions put a memory
\* into the queue, and only what is written to a memory closes its item.
RowsJustified ==
    /\ submitted \subseteq submitted'
    /\ \A m \in Memories :
        /\ item'[m] # "none" => item[m] # "none" \/ Reported(m) \/ m \in submitted
        /\ item'[m] \in Decided =>
             item[m] \in Decided \/ status[m] # "pending" \/ m \in unwritten
        /\ m \in unwritten => m \in unwritten' \/ status'[m] # "pending"

-----------------------------------------------------------------------------
LEMMA InitInv == Init => IInv
<1> SUFFICES ASSUME Init PROVE IInv
  OBVIOUS
<1>1. TypeOK
  BY DEF Init, TypeOK, ItemStatuses, Statuses, Steps, WorkerSteps, Verdicts, Decided
<1>2. ReportersFinite
  BY FS_EmptySet DEF Init, ReportersFinite
<1>3. RequestsKnow /\ WorkerKnows
  BY DEF Init, RequestsKnow, Knows, WorkerKnows
<1>4. EscalationNeedsReports /\ DecidedReachesMemory
  BY DEF Init, EscalationNeedsReports, DecidedReachesMemory, Decided
<1> QED
  BY <1>1, <1>2, <1>3, <1>4 DEF IInv

\* One more report does not make a reported memory unreported.
LEMMA ReportsGrow ==
    ASSUME IInv, NEW m \in Memories, NEW u \in Users,
           reporters' = [reporters EXCEPT ![m] = @ \cup {u}]
    PROVE  /\ ReportersFinite'
           /\ \A n \in Memories : Reported(n) => Reported(n)'
<1>1. reporters \in [Memories -> SUBSET Users] /\ ReportersFinite
  BY DEF IInv, TypeOK
<1>2. /\ IsFiniteSet(reporters[m] \cup {u})
      /\ Cardinality(reporters[m] \cup {u}) \in Nat
      /\ Cardinality(reporters[m]) \in Nat
      /\ Cardinality(reporters[m] \cup {u}) >= Cardinality(reporters[m])
  <2>1. IsFiniteSet(reporters[m])
    BY <1>1 DEF ReportersFinite
  <2>2. /\ IsFiniteSet(reporters[m] \cup {u})
        /\ \/ Cardinality(reporters[m] \cup {u}) = Cardinality(reporters[m])
           \/ Cardinality(reporters[m] \cup {u}) = Cardinality(reporters[m]) + 1
    BY <2>1, FS_AddElement
  <2>3. Cardinality(reporters[m]) \in Nat
    BY <2>1, FS_CardinalityType
  <2> QED
    BY <2>2, <2>3
<1>3. reporters'[m] = reporters[m] \cup {u}
  BY <1>1
<1>4. \A n \in Memories \ {m} : reporters'[n] = reporters[n]
  BY <1>1
<1>5. ReportersFinite'
  BY <1>1, <1>2, <1>3, <1>4 DEF ReportersFinite
<1>6. \A n \in Memories : Reported(n) => Reported(n)'
  <2> SUFFICES ASSUME NEW n \in Memories, Reported(n) PROVE Reported(n)'
    OBVIOUS
  <2>1. CASE n = m
    <3>1. Cardinality(reporters[m]) >= Threshold
      BY <2>1 DEF Reported
    <3>2. Cardinality(reporters'[m]) >= Threshold
      <4> HIDE DEF Reported
      <4>1. \A a, b, c \in Nat : a >= b /\ b >= c => a >= c
        OBVIOUS
      <4> QED
        BY <1>2, <1>3, <3>1, <4>1
    <3> QED
      BY <2>1, <3>2 DEF Reported
  <2>2. CASE n # m
    BY <1>4, <2>2 DEF Reported
  <2> QED
    BY <2>1, <2>2
<1> QED
  BY <1>5, <1>6

LEMMA ReportsKept ==
    ASSUME ReportersFinite, UNCHANGED reporters
    PROVE  /\ ReportersFinite'
           /\ \A n \in Memories : Reported(n) => Reported(n)'
  BY DEF ReportersFinite, Reported

LEMMA KnowledgeKept ==
    ASSUME IInv, RowsStay, RowsJustified, NEW q \in Requests,
           pc'[q] = pc[q], subject'[q] = subject[q], verdict'[q] = verdict[q]
    PROVE  Knows(q)'
<1> USE DEF IInv, RequestsKnow, Knows, RowsStay, RowsJustified
<1>1. pc'[q] # "idle" => subject'[q] \in Memories
  OBVIOUS
<1>2. pc'[q] \in {"exists", "create", "escalate"} => Reported(subject[q])'
  OBVIOUS
<1> QED
  BY <1>1, <1>2 DEF Reported

LEMMA WorkerKnowledgeKept ==
    ASSUME IInv, RowsStay, RowsJustified, UNCHANGED workerVars
    PROVE  WorkerKnows'
  BY DEF IInv, TypeOK, WorkerKnows, RowsStay, RowsJustified, workerVars

LEMMA RowsInv ==
    ASSUME IInv, RowsStay, RowsJustified
    PROVE  EscalationNeedsReports' /\ DecidedReachesMemory'
<1>1. EscalationNeedsReports'
  BY DEF IInv, EscalationNeedsReports, RowsStay, RowsJustified
<1>2. DecidedReachesMemory'
  BY DEF IInv, DecidedReachesMemory, RowsStay, RowsJustified
<1> QED
  BY <1>1, <1>2

LEMMA CreateItemTypes ==
    ASSUME IInv, NEW m \in Memories, CreateItem(m)
    PROVE  /\ item' \in [Memories -> ItemStatuses] /\ order' \in Seq(Memories)
           /\ dropped' \in SUBSET Memories
<1>1. item \in [Memories -> ItemStatuses] /\ order \in Seq(Memories)
  BY DEF IInv, TypeOK
<1>2. item' \in [Memories -> ItemStatuses]
  BY <1>1 DEF CreateItem, ItemStatuses
<1>3. Append(order, m) \in Seq(Memories)
  BY <1>1
<1>4. dropped' \in SUBSET Memories
  BY DEF IInv, TypeOK, CreateItem
<1> QED
  BY <1>1, <1>2, <1>3, <1>4 DEF CreateItem

LEMMA LoseTypes ==
    ASSUME IInv, NEW S, Lose(S)
    PROVE  dropped' \in SUBSET Memories
  BY DEF IInv, TypeOK, Lose

\* A step that leaves the rows and the worker alone, and after which request r
\* knows what it needs.
LEMMA QuietStep ==
    ASSUME IInv, TypeOK', NEW r \in Requests, UNCHANGED <<rows, workerVars, unwritten>>,
           submitted \subseteq submitted', Knows(r)',
           \A q \in Requests \ {r} :
             pc'[q] = pc[q] /\ subject'[q] = subject[q] /\ verdict'[q] = verdict[q]
    PROVE  RowsStay /\ IInv'
<1>1. UNCHANGED <<item, status, reporters>> /\ ReportersFinite
  BY DEF rows, IInv
<1>2. RowsStay /\ RowsJustified
  BY <1>1 DEF RowsStay, RowsJustified, Reported
<1>3. RequestsKnow'
  BY <1>2, KnowledgeKept DEF RequestsKnow
<1>4. WorkerKnows'
  BY <1>2, WorkerKnowledgeKept
<1> QED
  BY <1>1, <1>2, <1>3, <1>4, ReportsKept, RowsInv DEF IInv

\* A step of request r that ends it, and treats the rows as it should.
LEMMA LastStep ==
    ASSUME IInv, TypeOK', NEW r \in Requests, Finish(r), RowsStay, RowsJustified,
           UNCHANGED <<reporters, workerVars>>
    PROVE  IInv'
<1>1. pc'[r] = "idle"
  BY DEF Finish, IInv, TypeOK
<1>2. \A q \in Requests \ {r} :
        pc'[q] = pc[q] /\ subject'[q] = subject[q] /\ verdict'[q] = verdict[q]
  BY DEF Finish, IInv, TypeOK
<1>3. RequestsKnow'
  BY <1>1, <1>2, KnowledgeKept DEF RequestsKnow, Knows
<1> QED
  BY <1>3, WorkerKnowledgeKept, ReportsKept, RowsInv DEF IInv

-----------------------------------------------------------------------------
\* Reports and what they lead to.
LEMMA ReportInv ==
    ASSUME IInv, NEW r \in Requests, NEW m \in Memories, NEW u \in Users,
           CreateReport(r, m, u)
    PROVE  RowsStay /\ IInv'
<1> USE DEF CreateReport, Begin
<1>1. TypeOK'
  BY DEF IInv, TypeOK, Steps, workerVars, history
<1>2. RowsStay /\ ReportersFinite'
  BY ReportsGrow DEF RowsStay
<1>3. RowsJustified
  BY DEF RowsJustified, history
<1>4. RequestsKnow'
  <2>1. Knows(r)'
    BY DEF Knows, IInv, TypeOK
  <2>2. \A q \in Requests \ {r} :
          pc'[q] = pc[q] /\ subject'[q] = subject[q] /\ verdict'[q] = verdict[q]
    BY DEF IInv, TypeOK
  <2> QED
    BY <1>2, <1>3, <2>1, <2>2, KnowledgeKept DEF RequestsKnow
<1>5. WorkerKnows'
  BY <1>2, <1>3, WorkerKnowledgeKept
<1> QED
  BY <1>1, <1>2, <1>3, <1>4, <1>5, RowsInv DEF IInv

LEMMA CountInv ==
    ASSUME IInv, NEW r \in Requests, CountReports(r)
    PROVE  RowsStay /\ IInv'
<1> USE DEF CountReports
<1>1. TypeOK'
  BY DEF IInv, TypeOK, Steps, Goto, Finish, rows, workerVars, history
<1>2. Knows(r)'
  <2>1. CASE Reported(subject[r])
    BY <2>1 DEF IInv, TypeOK, RequestsKnow, Knows, Goto, Reported, rows
  <2>2. CASE ~Reported(subject[r])
    BY <2>2 DEF IInv, TypeOK, Knows, Finish, Reported
  <2> QED
    BY <2>1, <2>2
<1>3. \A q \in Requests \ {r} :
        pc'[q] = pc[q] /\ subject'[q] = subject[q] /\ verdict'[q] = verdict[q]
  BY DEF IInv, TypeOK, Goto, Finish
<1> QED
  BY <1>1, <1>2, <1>3, QuietStep DEF history

LEMMA ExistsInv ==
    ASSUME IInv, NEW r \in Requests, EscalateExists(r)
    PROVE  RowsStay /\ IInv'
<1> USE DEF EscalateExists, Goto
<1>1. TypeOK'
  BY DEF IInv, TypeOK, Steps, rows, workerVars, history
<1>2. Knows(r)'
  BY DEF IInv, TypeOK, RequestsKnow, Knows, Reported, rows
<1>3. \A q \in Requests \ {r} :
        pc'[q] = pc[q] /\ subject'[q] = subject[q] /\ verdict'[q] = verdict[q]
  BY DEF IInv, TypeOK
<1> QED
  BY <1>1, <1>2, <1>3, QuietStep DEF history

LEMMA EscalateCreateInv ==
    ASSUME IInv, NEW r \in Requests, EscalateCreate(r)
    PROVE  RowsStay /\ IInv'
<1> USE DEF EscalateCreate
<1>1. subject[r] \in Memories /\ Reported(subject[r])
  BY DEF IInv, RequestsKnow, Knows
<1>2. CASE CreateItem(subject[r]) /\ Goto(r, "escalate")
  <2> USE <1>2 DEF Goto
  <2>1. TypeOK'
    <3>1. /\ item' \in [Memories -> ItemStatuses] /\ order' \in Seq(Memories)
          /\ dropped' \in SUBSET Memories
      BY <1>1, CreateItemTypes
    <3> QED
      BY <3>1 DEF IInv, TypeOK, Steps, workerVars, history
  <2> USE DEF CreateItem
  <2>2. RowsStay
    BY <1>1 DEF RowsStay, Reported, IInv, TypeOK
  <2>3. RowsJustified
    BY <1>1 DEF RowsJustified, IInv, TypeOK, history, Decided
  <2>4. RequestsKnow'
    <3>1. Knows(r)'
      BY <1>1 DEF Knows, Reported, IInv, TypeOK
    <3>2. \A q \in Requests \ {r} :
            pc'[q] = pc[q] /\ subject'[q] = subject[q] /\ verdict'[q] = verdict[q]
      BY DEF IInv, TypeOK
    <3> QED
      BY <2>2, <2>3, <3>1, <3>2, KnowledgeKept DEF RequestsKnow
  <2> QED
    BY <2>1, <2>2, <2>3, <2>4, WorkerKnowledgeKept, ReportsKept, RowsInv DEF IInv
<1>3. CASE Lose({r}) /\ Finish(r) /\ UNCHANGED <<item, order>>
  <2> USE <1>3
  <2>1. TypeOK'
    BY LoseTypes DEF IInv, TypeOK, Steps, Finish, workerVars, history
  <2>2. Knows(r)'
    BY DEF IInv, TypeOK, Knows, Finish
  <2>3. \A q \in Requests \ {r} :
          pc'[q] = pc[q] /\ subject'[q] = subject[q] /\ verdict'[q] = verdict[q]
    BY DEF IInv, TypeOK, Finish
  <2> QED
    BY <2>1, <2>2, <2>3, QuietStep DEF history, rows
<1> QED
  BY <1>2, <1>3

LEMMA EscalateUpdateInv ==
    ASSUME IInv, NEW r \in Requests, EscalateUpdate(r)
    PROVE  RowsStay /\ IInv'
<1> USE DEF EscalateUpdate
<1>1. subject[r] \in Memories /\ Reported(subject[r])
  BY DEF IInv, RequestsKnow, Knows
<1>2. TypeOK'
  BY <1>1 DEF IInv, TypeOK, Steps, ItemStatuses, Finish, workerVars, history
<1>3. RowsStay
  BY DEF RowsStay, Reported, IInv, TypeOK
<1>4. RowsJustified
  BY <1>1 DEF RowsJustified, IInv, TypeOK, history, Decided
<1> QED
  BY <1>2, <1>3, <1>4, LastStep

-----------------------------------------------------------------------------
\* Submissions.
LEMMA SubmitInv ==
    ASSUME IInv, NEW r \in Requests, NEW m \in Memories, Submit(r, m)
    PROVE  RowsStay /\ IInv'
<1> USE DEF Submit, Begin
<1>1. TypeOK'
  BY DEF IInv, TypeOK, Steps, rows, workerVars
<1>2. Knows(r)'
  BY DEF IInv, TypeOK, Knows
<1>3. \A q \in Requests \ {r} :
        pc'[q] = pc[q] /\ subject'[q] = subject[q] /\ verdict'[q] = verdict[q]
  BY DEF IInv, TypeOK
<1> QED
  BY <1>1, <1>2, <1>3, QuietStep

LEMMA SubmitCreateInv ==
    ASSUME IInv, NEW r \in Requests, SubmitCreate(r)
    PROVE  RowsStay /\ IInv'
<1> USE DEF SubmitCreate
<1>1. subject[r] \in Memories /\ subject[r] \in submitted
  BY DEF IInv, RequestsKnow, Knows
<1>2. TypeOK'
  <2>1. /\ item' \in [Memories -> ItemStatuses] /\ order' \in Seq(Memories)
        /\ dropped' \in SUBSET Memories
    BY <1>1, CreateItemTypes DEF IInv, TypeOK
  <2> QED
    BY <2>1 DEF IInv, TypeOK, Steps, Finish, workerVars, history
<1> USE DEF CreateItem
<1>3. RowsStay
  BY DEF RowsStay, Reported, IInv, TypeOK
<1>4. RowsJustified
  BY <1>1 DEF RowsJustified, IInv, TypeOK, history, Decided
<1> QED
  BY <1>2, <1>3, <1>4, LastStep

-----------------------------------------------------------------------------
\* Reviews.
LEMMA ReviewLoadInv ==
    ASSUME IInv, NEW r \in Requests, NEW m \in Memories, NEW v \in Decided,
           ReviewLoad(r, m, v)
    PROVE  RowsStay /\ IInv'
<1> USE DEF ReviewLoad, Begin
<1>1. TypeOK'
  BY DEF IInv, TypeOK, Steps, rows, workerVars, history
<1>2. Knows(r)'
  BY DEF IInv, TypeOK, Knows, rows
<1>3. \A q \in Requests \ {r} :
        pc'[q] = pc[q] /\ subject'[q] = subject[q] /\ verdict'[q] = verdict[q]
  BY DEF IInv, TypeOK
<1> QED
  BY <1>1, <1>2, <1>3, QuietStep DEF history

LEMMA ReviewMemoryInv ==
    ASSUME IInv, NEW r \in Requests, ReviewMemory(r)
    PROVE  RowsStay /\ IInv'
<1> USE DEF ReviewMemory, Goto
<1>1. subject[r] \in Memories /\ item[subject[r]] # "none" /\ verdict[r] \in Decided
  BY DEF IInv, RequestsKnow, Knows
<1>2. MemoryStatus(verdict[r]) \in Statuses \ {"pending"}
  BY DEF MemoryStatus, Statuses
<1>3. TypeOK'
  BY <1>2 DEF IInv, TypeOK, Steps, workerVars
<1>4. RowsStay
  BY <1>2 DEF RowsStay, Reported, IInv, TypeOK
<1>5. RowsJustified
  BY <1>1, <1>2 DEF RowsJustified, IInv, TypeOK
<1>6. RequestsKnow'
  <2>1. Knows(r)'
    BY <1>1, <1>2 DEF Knows, IInv, TypeOK
  <2>2. \A q \in Requests \ {r} :
          pc'[q] = pc[q] /\ subject'[q] = subject[q] /\ verdict'[q] = verdict[q]
    BY DEF IInv, TypeOK
  <2> QED
    BY <1>4, <1>5, <2>1, <2>2, KnowledgeKept DEF RequestsKnow
<1> QED
  BY <1>3, <1>4, <1>5, <1>6, WorkerKnowledgeKept, ReportsKept, RowsInv DEF IInv

LEMMA ReviewItemInv ==
    ASSUME IInv, NEW r \in Requests, ReviewItem(r)
    PROVE  RowsStay /\ IInv'
<1> USE DEF ReviewItem
<1>1. /\ subject[r] \in Memories /\ item[subject[r]] # "none"
      /\ verdict[r] \in Decided /\ status[subject[r]] # "pending"
  BY DEF IInv, RequestsKnow, Knows
<1>2. TypeOK'
  BY <1>1 DEF IInv, TypeOK, Steps, ItemStatuses, Finish, workerVars, history
<1>3. RowsStay
  BY <1>1 DEF RowsStay, Reported, IInv, TypeOK, Decided
<1>4. RowsJustified
  BY <1>1 DEF RowsJustified, IInv, TypeOK, history, Decided
<1> QED
  BY <1>2, <1>3, <1>4, LastStep

LEMMA AbandonInv ==
    ASSUME IInv, NEW r \in Requests, Abandon(r)
    PROVE  RowsStay /\ IInv'
<1> USE DEF Abandon
<1>1. TypeOK'
  BY LoseTypes DEF IInv, TypeOK, Steps, Finish, rows, workerVars, history
<1>2. Knows(r)'
  BY DEF IInv, TypeOK, Knows, Finish
<1>3. \A q \in Requests \ {r} :
        pc'[q] = pc[q] /\ subject'[q] = subject[q] /\ verdict'[q] = verdict[q]
  BY DEF IInv, TypeOK, Finish
<1> QED
  BY <1>1, <1>2, <1>3, QuietStep DEF history

-----------------------------------------------------------------------------
\* The worker.  What the requests know survives its steps, since it changes
\* rows only as RowsJustified allows.
LEMMA WorkerStepInv ==
    ASSUME IInv, TypeOK', RowsStay, RowsJustified, UNCHANGED <<reporters, reqVars>>,
           WorkerKnows'
    PROVE  IInv'
<1>1. RequestsKnow'
  BY KnowledgeKept DEF RequestsKnow, reqVars
<1> QED
  BY <1>1, ReportsKept, RowsInv DEF IInv

LEMMA ProcessQueueInv ==
    ASSUME IInv, ProcessQueue
    PROVE  RowsStay /\ IInv'
<1> USE DEF ProcessQueue, rows
<1>1. ListPending \subseteq {m \in Memories : item[m] = "pending"}
  BY DEF ListPending
<1>2. TypeOK'
  BY <1>1 DEF IInv, TypeOK, WorkerSteps, reqVars, history
<1>3. RowsStay /\ RowsJustified
  BY DEF RowsStay, RowsJustified, Reported, history
<1>4. WorkerKnows'
  BY <1>1 DEF WorkerKnows
<1> QED
  BY <1>2, <1>3, <1>4, WorkerStepInv

\* Whatever the AI service says, the item is approved, rejected or escalated.
LEMMA JudgementsAreVerdicts == Judgements \subseteq Verdicts
<1> SUFFICES ASSUME NEW text, NEW photos PROVE Verdict(text, photos) \in Verdicts
  BY DEF Judgements
<1> QED
  BY DEF Verdict, Verdicts

LEMMA JudgeInv ==
    ASSUME IInv, NEW m \in Memories, NEW v \in Judgements, Judge(m, v)
    PROVE  RowsStay /\ IInv'
<1> USE DEF Judge, TakeItem, rows
<1>0. v \in Verdicts
  BY JudgementsAreVerdicts
<1>1. TypeOK'
  BY <1>0 DEF IInv, TypeOK, WorkerSteps, Verdicts, reqVars, history
<1>2. RowsStay /\ RowsJustified
  BY DEF RowsStay, RowsJustified, Reported, history
<1>3. WorkerKnows'
  BY <1>0 DEF IInv, WorkerKnows, Decided, Verdicts
<1> QED
  BY <1>1, <1>2, <1>3, WorkerStepInv

LEMMA WorkerMemoryInv ==
    ASSUME IInv, WorkerMemory
    PROVE  RowsStay /\ IInv'
<1> USE DEF WorkerMemory
<1>1. current \in Memories /\ item[current] # "none" /\ judged \in Decided
  BY DEF IInv, WorkerKnows
<1>2. MemoryStatus(judged) \in Statuses \ {"pending"}
  BY DEF MemoryStatus, Statuses
<1>3. TypeOK'
  <2>1. status' \in [Memories -> Statuses]
    BY <1>2 DEF IInv, TypeOK
  <2>2. unwritten' \in SUBSET Memories
    BY <1>1 DEF IInv, TypeOK
  <2> QED
    BY <2>1, <2>2 DEF IInv, TypeOK, WorkerSteps, reqVars
<1>4. RowsStay
  BY <1>2 DEF RowsStay, Reported, IInv, TypeOK
<1>5. RowsJustified
  BY <1>1, <1>2 DEF RowsJustified, IInv, TypeOK
<1>6. WorkerKnows'
  BY <1>1, <1>2 DEF WorkerKnows, IInv, TypeOK, Decided
<1> QED
  BY <1>3, <1>4, <1>5, <1>6, WorkerStepInv

LEMMA WorkerItemInv ==
    ASSUME IInv, WorkerItem
    PROVE  RowsStay /\ IInv'
<1> USE DEF WorkerItem, NextItem
<1>1. /\ current \in Memories /\ item[current] # "none" /\ judged # "none"
      /\ judged \in Decided => status[current] # "pending" \/ current \in unwritten
  BY DEF IInv, WorkerKnows
<1>2. TypeOK'
  BY <1>1 DEF IInv, TypeOK, WorkerSteps, Verdicts, ItemStatuses, Decided, reqVars, history
<1>3. RowsStay
  BY <1>1 DEF RowsStay, Reported, IInv, TypeOK
<1>4. RowsJustified
  BY <1>1 DEF RowsJustified, IInv, TypeOK, history
<1>5. WorkerKnows'
  BY <1>3 DEF WorkerKnows, RowsStay, IInv, TypeOK
<1> QED
  BY <1>2, <1>3, <1>4, <1>5, WorkerStepInv

LEMMA WorkerSkipInv ==
    ASSUME IInv, WorkerSkip
    PROVE  RowsStay /\ IInv'
<1> USE DEF WorkerSkip, NextItem, TakeItem, rows
<1>1. batch' \subseteq batch
  OBVIOUS
<1>2. TypeOK'
  BY <1>1 DEF IInv, TypeOK, WorkerSteps, Verdicts, reqVars, history
<1>3. RowsStay /\ RowsJustified
  BY DEF RowsStay, RowsJustified, Reported, history
<1>4. WorkerKnows'
  BY <1>1 DEF IInv, WorkerKnows
<1> QED
  BY <1>2, <1>3, <1>4, WorkerStepInv

LEMMA CrashInv ==
    ASSUME IInv, Crash
    PROVE  RowsStay /\ IInv'
<1> USE DEF Crash, rows
<1>1. TypeOK'
  BY LoseTypes DEF IInv, TypeOK, Steps, WorkerSteps, Verdicts, history
<1>2. RowsStay /\ RowsJustified
  BY DEF RowsStay, RowsJustified, Reported
<1>3. RequestsKnow' /\ WorkerKnows'
  BY DEF RequestsKnow, Knows, WorkerKnows
<1> QED
  BY <1>1, <1>2, <1>3, ReportsKept, RowsInv DEF IInv

-----------------------------------------------------------------------------
LEMMA NextInv == IInv /\ [Next]_vars => RowsStay /\ IInv'
<1> SUFFICES ASSUME IInv, [Next]_vars PROVE RowsStay /\ IInv'
  OBVIOUS
<1>1. ASSUME NEW r \in Requests, RequestStep(r) PROVE RowsStay /\ IInv'
  BY <1>1, CountInv, ExistsInv, EscalateCreateInv, EscalateUpdateInv, SubmitCreateInv,
     ReviewMemoryInv, ReviewItemInv DEF RequestStep
<1>2. CASE WorkerStep
  BY <1>2, ProcessQueueInv, JudgeInv, WorkerMemoryInv, WorkerItemInv DEF WorkerStep
<1>3. CASE UNCHANGED vars
  <2>1. UNCHANGED <<rows, reqVars, workerVars, history>>
    BY <1>3 DEF vars, rows, reqVars, workerVars, history
  <2>2. RowsStay /\ RowsJustified /\ TypeOK'
    BY <2>1 DEF RowsStay, RowsJustified, Reported, IInv, TypeOK, rows, reqVars,
         workerVars, history
  <2>3. WorkerKnows'
    BY <2>1, <2>2, WorkerKnowledgeKept
  <2> QED
    BY <2>1, <2>2, <2>3, WorkerStepInv DEF rows
<1> QED
  BY <1>1, <1>2, <1>3, ReportInv, SubmitInv, ReviewLoadInv, AbandonInv, WorkerSkipInv,
     CrashInv DEF Next

LEMMA Invariance == Spec => []IInv
<1>1. IInv /\ [Next]_vars => IInv'
  BY NextInv
<1> QED
  BY InitInv, <1>1, PTL DEF Spec

-----------------------------------------------------------------------------
\* Every variable keeps its type; in particular each statement of a request
\* and of the worker finds the memory and the verdict it needs.
THEOREM TypeCorrect == Spec => []TypeOK
<1>1. IInv => TypeOK
  BY DEF IInv
<1> QED
  BY <1>1, Invariance, PTL

\* Report escalates at the threshold and not before: whoever is in the queue
\* without a submission was reported by Threshold different people, however
\* reports, retries, reviews and crashes interleave.
THEOREM ReportsEscalate == Spec => []EscalationNeedsReports
<1>1. IInv => EscalationNeedsReports
  BY DEF IInv
<1> QED
  BY <1>1, Invariance, PTL

\* ManualReview and processItem close no item behind which the memory still
\* waits, unless processItem failed to write its status.
THEOREM NobodyForgotten == Spec => []DecidedReachesMemory
<1>1. IInv => DecidedReachesMemory
  BY DEF IInv
<1> QED
  BY <1>1, Invariance, PTL

\* No statement of the queue deletes an item, takes a report back or sends a
\* memory that has its status back to waiting.
THEOREM NothingTakenBack == Spec => [][RowsStay]_vars
<1>1. IInv /\ [Next]_vars => [RowsStay]_vars
  BY NextInv
<1> QED
  BY <1>1, Invariance, PTL DEF Spec

-----------------------------------------------------------------------------
\* Reports and their escalation.  A request that goes on, or whose end leaves
\* nothing to do or is on record.
LEMMA LostKept ==
    ASSUME IInv, LostByFailureOnly, RowsStay, UNCHANGED reporters, NEW r \in Requests,
           \A q \in Requests \ {r} : pc'[q] = pc[q] /\ subject'[q] = subject[q],
           \A m \in dropped : m \in dropped' \/ item'[m] # "none",
           \A m \in Memories : OnItsWay(r, m) =>
             OnItsWay(r, m)' \/ item'[m] # "none" \/ ~Reported(m) \/ m \in dropped'
    PROVE  LostByFailureOnly'
  BY DEF LostByFailureOnly, OnItsWay, RowsStay, Reported, IInv, TypeOK

LEMMA LostInv ==
    ASSUME IInv, LostByFailureOnly, [Next]_vars
    PROVE  LostByFailureOnly'
<1>1. RowsStay
  BY NextInv
<1>2. ASSUME NEW r \in Requests, NEW m \in Memories, NEW u \in Users,
             CreateReport(r, m, u)
      PROVE  LostByFailureOnly'
  <2> USE <1>2 DEF CreateReport, Begin
  <2>1. OnItsWay(r, m)'
    BY DEF OnItsWay, IInv, TypeOK
  <2>2. \A q \in Requests \ {r} : pc'[q] = pc[q] /\ subject'[q] = subject[q]
    BY DEF IInv, TypeOK
  <2>3. \A n \in Memories \ {m} : Reported(n)' => Reported(n)
    BY DEF Reported, IInv, TypeOK
  <2>4. \A n \in Memories : ~OnItsWay(r, n)
    BY DEF OnItsWay
  <2> SUFFICES ASSUME NEW n \in Memories \ {m}, Reported(n)'
               PROVE  item'[n] # "none" \/ n \in dropped' \/ \E q \in Requests : OnItsWay(q, n)'
    BY <2>1 DEF LostByFailureOnly
  <2>5. item[n] # "none" \/ n \in dropped \/ \E q \in Requests \ {r} : OnItsWay(q, n)
    BY <2>3, <2>4 DEF LostByFailureOnly
  <2> QED
    BY <1>1, <2>2, <2>5 DEF RowsStay, OnItsWay, history
<1>3. ASSUME NEW r \in Requests, RequestStep(r) \/ Abandon(r)
      PROVE  LostByFailureOnly'
  <2>1. \A q \in Requests \ {r} : pc'[q] = pc[q] /\ subject'[q] = subject[q]
    BY <1>3 DEF RequestStep, CountReports, EscalateExists, EscalateCreate, EscalateUpdate,
         SubmitCreate, ReviewMemory, ReviewItem, Abandon, Goto, Finish, IInv, TypeOK
  <2>2. UNCHANGED reporters
    BY <1>3 DEF RequestStep, CountReports, EscalateExists, EscalateCreate, EscalateUpdate,
         SubmitCreate, ReviewMemory, ReviewItem, Abandon, rows
  <2> DEFINE Kept == \A m \in dropped : m \in dropped' \/ item'[m] # "none"
             Done == \A m \in Memories : OnItsWay(r, m) =>
               OnItsWay(r, m)' \/ item'[m] # "none" \/ ~Reported(m) \/ m \in dropped'
  <2>3. ASSUME CountReports(r) PROVE Kept /\ Done
    BY <2>3 DEF CountReports, Goto, Reported, OnItsWay, history, IInv, TypeOK
  <2>4. ASSUME EscalateExists(r) PROVE Kept /\ Done
    BY <2>4 DEF EscalateExists, Goto, OnItsWay, history, rows, IInv, TypeOK
  <2>5. ASSUME NEW m \in Memories, CreateItem(m) PROVE Kept /\ item'[m] # "none"
    BY <2>5 DEF CreateItem, IInv, TypeOK
  <2>6. ASSUME Lose({r}), UNCHANGED item PROVE Kept /\ Done
    BY <2>6 DEF Lose
  <2>7. ASSUME EscalateCreate(r) PROVE Kept /\ Done
    <3>1. subject[r] \in Memories
      BY <2>7 DEF EscalateCreate, IInv, RequestsKnow, Knows
    <3>2. CASE CreateItem(subject[r])
      BY <2>5, <3>1, <3>2 DEF OnItsWay
    <3>3. CASE Lose({r}) /\ UNCHANGED item
      BY <2>6, <3>3
    <3> QED
      BY <2>7, <3>2, <3>3 DEF EscalateCreate
  <2>8. ASSUME EscalateUpdate(r) \/ ReviewMemory(r) \/ ReviewItem(r) PROVE Kept /\ Done
    BY <2>8 DEF EscalateUpdate, ReviewMemory, ReviewItem, OnItsWay, history
  <2>9. ASSUME SubmitCreate(r) PROVE Kept /\ Done
    <3>1. subject[r] \in Memories /\ pc[r] = "submit"
      BY <2>9 DEF SubmitCreate, IInv, RequestsKnow, Knows
    <3>2. Done
      BY <3>1 DEF OnItsWay
    <3>3. Kept
      BY <2>5, <2>9, <3>1 DEF SubmitCreate
    <3> QED
      BY <3>2, <3>3
  <2>10. ASSUME Abandon(r) PROVE Kept /\ Done
    BY <2>6, <2>10 DEF Abandon, rows
  <2>11. Kept /\ Done
    BY <1>3, <2>3, <2>4, <2>7, <2>8, <2>9, <2>10 DEF RequestStep
  <2> QED
    BY <1>1, <2>1, <2>2, <2>11, LostKept
<1>4. ASSUME NEW r \in Requests, NEW m \in Memories,
             Submit(r, m) \/ \E v \in Decided : ReviewLoad(r, m, v)
      PROVE  LostByFailureOnly'
  <2>1. /\ \A q \in Requests \ {r} : pc'[q] = pc[q] /\ subject'[q] = subject[q]
        /\ \A n \in Memories : ~OnItsWay(r, n)
        /\ UNCHANGED <<reporters, dropped>>
    BY <1>4 DEF Submit, ReviewLoad, Begin, OnItsWay, rows, history, IInv, TypeOK
  <2> QED
    BY <1>1, <2>1, LostKept
<1>5. CASE WorkerStep \/ WorkerSkip \/ UNCHANGED vars
  <2>1. UNCHANGED <<reporters, pc, subject, dropped>>
    BY <1>5 DEF WorkerStep, ProcessQueue, Judge, WorkerMemory, WorkerItem, WorkerSkip,
         rows, reqVars, history, vars
  <2> QED
    BY <1>1, <2>1 DEF LostByFailureOnly, OnItsWay, RowsStay, Reported
<1>6. CASE Crash
  <2>1. UNCHANGED <<reporters, item>> /\ Lose(Requests)
    BY <1>6 DEF Crash, rows
  <2> QED
    BY <2>1 DEF LostByFailureOnly, Lose, Reported
<1> QED
  BY <1>2, <1>3, <1>4, <1>5, <1>6 DEF Next

\* Report counts after it has inserted, so overlapping reports cannot miss the
\* threshold between them: whatever fails or is killed, and with the unique
\* index or without, a reported memory stays out of the queue only when the
\* statements of a request that was on its way to it were not executed.
THEOREM EscalationsAreLostByFailure == Spec => []LostByFailureOnly
<1>1. Init => LostByFailureOnly
  <2> SUFFICES ASSUME Init, NEW m \in Memories PROVE ~Reported(m)
    BY DEF LostByFailureOnly
  <2>1. Cardinality(reporters[m]) = 0
    BY FS_EmptySet DEF Init
  <2> QED
    BY <2>1 DEF Reported
<1>2. IInv /\ LostByFailureOnly /\ [Next]_vars => LostByFailureOnly'
  BY LostInv
<1> QED
  BY <1>1, <1>2, Invariance, PTL DEF Spec

-----------------------------------------------------------------------------
\* The schema as it is shipped: Create is refused, and nothing else inserts.
Empty ==
    /\ \A m \in Memories : item[m] = "none"
    /\ \A r \in Requests : pc[r] # "escalate"

LEMMA EmptyInv ==
    ASSUME ~MemoryIdUnique, IInv, Empty, [Next]_vars
    PROVE  Empty'
<1>1. /\ \A r \in Requests : pc[r] \notin {"escalate", "reviewMemory", "reviewItem"}
      /\ wpc # "item"
  BY DEF Empty, IInv, RequestsKnow, Knows, WorkerKnows
<1>2. UNCHANGED item
  BY <1>1 DEF Next, RequestStep, WorkerStep, CreateReport, CountReports, EscalateExists,
     EscalateCreate, EscalateUpdate, Submit, SubmitCreate, CreateItem, ReviewLoad,
     ReviewMemory, ReviewItem, Abandon, ProcessQueue, Judge, WorkerMemory, WorkerItem,
     WorkerSkip, Crash, rows, vars
<1>3. ASSUME NEW r \in Requests PROVE pc'[r] # "escalate"
  <2>1. ASSUME NEW q \in Requests, RequestStep(q) \/ Abandon(q) PROVE pc'[r] # "escalate"
    BY <1>1, <2>1 DEF RequestStep, CountReports, EscalateExists, EscalateCreate,
       EscalateUpdate, SubmitCreate, CreateItem, ReviewMemory, ReviewItem, Abandon,
       Goto, Finish, Empty, IInv, TypeOK, RequestsKnow, Knows
  <2>2. ASSUME NEW q \in Requests, NEW m \in Memories,
               \/ \E u \in Users : CreateReport(q, m, u)
               \/ Submit(q, m)
               \/ \E v \in Decided : ReviewLoad(q, m, v)
        PROVE  pc'[r] # "escalate"
    BY <1>1, <2>2 DEF CreateReport, Submit, ReviewLoad, Begin, IInv, TypeOK
  <2>3. CASE WorkerStep \/ WorkerSkip \/ UNCHANGED vars
    BY <1>1, <2>3 DEF WorkerStep, ProcessQueue, Judge, WorkerMemory, WorkerItem,
       WorkerSkip, reqVars, vars
  <2>4. CASE Crash
    BY <2>4 DEF Crash
  <2> QED
    BY <2>1, <2>2, <2>3, <2>4 DEF Next
<1> QED
  BY <1>2, <1>3 DEF Empty

\* With the table of the migrations the promise of Report, "auto-escalate to
\* moderation at 3 distinct reports", is never kept, and neither is that of
\* SubmitForModeration: ON CONFLICT needs an index that is not there, and the
\* queue stays empty whatever is reported or submitted.
THEOREM QueueStaysEmpty ==
    ASSUME ~MemoryIdUnique
    PROVE  Spec => [](\A m \in Memories : item[m] = "none")
<1>1. Init => Empty
  BY DEF Init, Empty
<1>2. IInv /\ Empty /\ [Next]_vars => Empty'
  BY EmptyInv
<1>3. Empty => \A m \in Memories : item[m] = "none"
  BY DEF Empty
<1> QED
  BY <1>1, <1>2, <1>3, Invariance, PTL DEF Spec

-----------------------------------------------------------------------------
\* Without faults and reviews the worker alone decides: a decided item agrees
\* with its memory, except for the one whose memory was written already.
OneDecides ==
    /\ \A r \in Requests : pc[r] \notin {"reviewMemory", "reviewItem"}
    /\ \A m \in Memories : item[m] \in Decided =>
         status[m] = MemoryStatus(item[m]) \/ (wpc = "item" /\ m = current)
    /\ wpc = "item" /\ judged \in Decided => status[current] = MemoryStatus(judged)

\* A step that decides nothing.
LEMMA OneDecidesKept ==
    ASSUME OneDecides, UNCHANGED <<status, workerVars>>,
           \A m \in Memories : item'[m] \in Decided => item'[m] = item[m],
           \A r \in Requests : pc'[r] = pc[r] \/ pc'[r] \notin {"reviewMemory", "reviewItem"}
    PROVE  OneDecides'
  BY DEF OneDecides, MemoryStatus, workerVars

LEMMA OneDecidesInv ==
    ASSUME ~Faults, Reviewing = {}, IInv, OneDecides, [Next]_vars
    PROVE  OneDecides'
<1>1. ASSUME NEW r \in Requests, NEW m \in Memories,
             (\E u \in Users : CreateReport(r, m, u)) \/ Submit(r, m)
      PROVE  OneDecides'
  <2>1. /\ UNCHANGED <<item, status, workerVars>>
        /\ \A q \in Requests : pc'[q] = pc[q] \/ pc'[q] \in {"count", "submit"}
    BY <1>1 DEF CreateReport, Submit, Begin, rows, IInv, TypeOK
  <2> QED
    BY <2>1, OneDecidesKept
<1>2. ASSUME NEW r \in Requests, RequestStep(r)
      PROVE  OneDecides'
  <2>1. ~ReviewMemory(r) /\ ~ReviewItem(r)
    BY DEF ReviewMemory, ReviewItem, OneDecides
  <2>2. UNCHANGED <<status, workerVars>>
    BY <1>2, <2>1 DEF RequestStep, CountReports, EscalateExists, EscalateCreate,
         EscalateUpdate, SubmitCreate, rows
  <2>3. \A q \in Requests :
          pc'[q] = pc[q] \/ pc'[q] \in {"idle", "exists", "create", "escalate"}
    BY <1>2, <2>1 DEF RequestStep, CountReports, EscalateExists, EscalateCreate,
         EscalateUpdate, SubmitCreate, Goto, Finish, IInv, TypeOK
  <2>4. \A m \in Memories : item'[m] = item[m] \/ item'[m] \in {"pending", "escalated"}
    BY <1>2, <2>1 DEF RequestStep, CountReports, EscalateExists, EscalateCreate,
         EscalateUpdate, SubmitCreate, CreateItem, rows, IInv, TypeOK
  <2> QED
    BY <2>2, <2>3, <2>4, OneDecidesKept DEF Decided
<1>3. CASE ProcessQueue
  BY <1>3 DEF ProcessQueue, OneDecides, MemoryStatus, rows, reqVars
<1>4. ASSUME NEW m \in Memories, NEW v \in Judgements, Judge(m, v)
      PROVE  OneDecides'
  BY <1>4 DEF Judge, OneDecides, MemoryStatus, Decided, rows, reqVars
<1>5. CASE WorkerMemory
  <2>1. /\ status' = [status EXCEPT ![current] = MemoryStatus(judged)]
        /\ wpc = "memory" /\ wpc' = "item" /\ UNCHANGED <<item, pc, current, judged>>
    BY <1>5 DEF WorkerMemory, reqVars
  <2>2. current \in Memories /\ status \in [Memories -> Statuses]
    BY <2>1 DEF IInv, WorkerKnows, TypeOK
  <2> QED
    BY <2>1, <2>2 DEF OneDecides, MemoryStatus
<1>6. CASE WorkerItem
  <2>1. /\ item' = [item EXCEPT ![current] = judged]
        /\ wpc = "item" /\ wpc' # "item" /\ UNCHANGED <<status, pc>>
    BY <1>6 DEF WorkerItem, NextItem, reqVars
  <2>2. current \in Memories /\ item \in [Memories -> ItemStatuses]
    BY <2>1 DEF IInv, WorkerKnows, TypeOK
  <2> QED
    BY <2>1, <2>2 DEF OneDecides, MemoryStatus
<1>7. CASE UNCHANGED vars
  BY <1>7, OneDecidesKept DEF vars, workerVars
<1>8. /\ ~WorkerSkip /\ ~Crash /\ \A r \in Requests : ~Abandon(r)
      /\ \A r \in Requests, m \in Memories, v \in Decided : ~ReviewLoad(r, m, v)
  BY DEF WorkerSkip, Crash, Abandon, ReviewLoad
<1> QED
  BY <1>1, <1>2, <1>3, <1>4, <1>5, <1>6, <1>7, <1>8 DEF Next, WorkerStep

\* processItem by itself keeps item and memory in agreement: where nobody else
\* decides and nothing fails, they say the same whenever nobody is at work.
THEOREM ItemAgreesWithMemory ==
    ASSUME ~Faults, Reviewing = {}
    PROVE  Spec => []DecisionsAgree
<1>1. Init => OneDecides
  BY DEF Init, OneDecides, Decided
<1>2. IInv /\ OneDecides /\ [Next]_vars => OneDecides'
  BY OneDecidesInv
<1>3. OneDecides => DecisionsAgree
  BY DEF OneDecides, DecisionsAgree, AllIdle
<1> QED
  BY <1>1, <1>2, <1>3, Invariance, PTL DEF Spec
=============================================================================
