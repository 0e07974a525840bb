----------------------------- MODULE Moderation -----------------------------
(***************************************************************************)
(* The moderation queue: who puts a memory into the table moderation_queue *)
(* (reports: interaction_service.go and interaction_repo.go; submissions)  *)
(* and who decides about it (the worker's ProcessQueue and an              *)
(* administrator's ManualReview: moderation_service.go), over the          *)
(* statements of internal/repository/moderation_repo.go.                   *)
(*                                                                         *)
(* One action per statement: the worker, the reports and the reviews       *)
(* interleave between any two.  The worker is the one goroutine that       *)
(* module ModerationWorker shows there is.                                 *)
(***************************************************************************)
EXTENDS Naturals, FiniteSets, Sequences

CONSTANTS
    Memories,
    Users,          \* people who report
    Requests,       \* request slots: Report, ManualReview, SubmitForModeration
    BatchSize,      \* most items one pass of the worker lists
    Threshold,      \* distinct reports that escalate a memory
    MemoryIdUnique, \* TRUE: moderation_queue.memory_id has the unique index
                    \* that ON CONFLICT (memory_id) needs; FALSE: as shipped
    Submitting,     \* TRUE: SubmitForModeration is called (the program has no
                    \* caller of it)
    Reviewing,      \* verdicts ManualReview is called with: {"approved"} over
                    \* HTTP, where the binding refuses approved = false
    Working,        \* TRUE: the worker runs
    Faults,         \* TRUE: a statement may fail, a request or the process stop
    None

ASSUME NoneAssumption == None \notin Memories
ASSUME BoundsAssumption == BatchSize \in Nat \ {0} /\ Threshold \in Nat \ {0}
ASSUME ReviewingAssumption == Reviewing \subseteq {"approved", "rejected"}
ASSUME SwitchesAssumption ==
    \A b \in {MemoryIdUnique, Submitting, Working, Faults} : b \in BOOLEAN

VARIABLES
    item,       \* item[m]: status of the row of m, "none" when there is no row
    order,      \* memories of the rows in the order of created_at
    status,     \* status[m]: column of memories
    reporters,  \* reporters[m]: users with a row of type report
    pc,         \* pc[r]: next statement of request r
    subject,    \* subject[r]: memory request r is about
    verdict,    \* verdict[r]: what the administrator decided
    batch,      \* memories whose items the worker listed and not yet took up
    current,    \* memory of the item it is processing
    wpc,        \* next statement of the worker
    judged,     \* what the AI said of the current item
    submitted,  \* history: memories SubmitForModeration was called for
    unwritten,  \* history: memories still pending whose status the worker
                \* could not write
    dropped     \* history: memories reported enough whose escalation was lost
                \* with a request that stopped or failed, and not made good

rows == <<item, order, status, reporters>>
reqVars == <<pc, subject, verdict>>
workerVars == <<batch, current, wpc, judged>>
vars == <<item, order, status, reporters, pc, subject, verdict, batch, current,
          wpc, judged, submitted, unwritten, dropped>>
history == <<submitted, unwritten, dropped>>

Decided == {"approved", "rejected"}
ItemStatuses == {"none", "pending", "escalated"} \cup Decided
Statuses == {"pending", "active", "rejected"}
Steps == {"idle", "count", "exists", "create", "escalate", "submit",
          "reviewMemory", "reviewItem"}
WorkerSteps == {"idle", "judge", "memory", "item"}
Verdicts == {"approved", "rejected", "escalated"}

TypeOK ==
    /\ item \in [Memories -> ItemStatuses]
    /\ order \in Seq(Memories)
    /\ status \in [Memories -> Statuses]
    /\ reporters \in [Memories -> SUBSET Users]
    /\ pc \in [Requests -> Steps]
    /\ subject \in [Requests -> Memories \cup {None}]
    /\ verdict \in [Requests -> Decided \cup {"none"}]
    /\ batch \in SUBSET Memories
    /\ current \in Memories \cup {None}
    /\ wpc \in WorkerSteps
    /\ judged \in Verdicts \cup {"none"}
    /\ submitted \in SUBSET Memories
    /\ unwritten \in SUBSET Memories
    /\ dropped \in SUBSET Memories

Init ==
    /\ item = [m \in Memories |-> "none"]
    /\ order = <<>>
    /\ status \in [Memories -> {"pending", "active"}]
    /\ reporters = [m \in Memories |-> {}]
    /\ pc = [r \in Requests |-> "idle"]
    /\ subject = [r \in Requests |-> None]
    /\ verdict = [r \in Requests |-> "none"]
    /\ batch = {}
    /\ current = None
    /\ wpc = "idle"
    /\ judged = "none"
    /\ submitted = {}
    /\ unwritten = {}
    /\ dropped = {}

Goto(r, step) ==
    /\ pc' = [pc EXCEPT ![r] = step]
    /\ UNCHANGED <<subject, verdict>>

Finish(r) ==
    /\ pc' = [pc EXCEPT ![r] = "idle"]
    /\ subject' = [subject EXCEPT ![r] = None]
    /\ verdict' = [verdict EXCEPT ![r] = "none"]

Begin(r, m, step) ==
    /\ pc[r] = "idle"
    /\ pc' = [pc EXCEPT ![r] = step]
    /\ subject' = [subject EXCEPT ![r] = m]

-----------------------------------------------------------------------------
Reported(m) == Cardinality(reporters[m]) >= Threshold

\* Request r is about to put m into the queue, or to count its reports.
OnItsWay(r, m) == subject[r] = m /\ pc[r] \in {"count", "exists", "create"}

\* The requests S end here, and with them what they were about to do.
Lose(S) ==
    dropped' = dropped \cup
        {m \in Memories : /\ Reported(m) /\ item[m] = "none"
                          /\ \E r \in S : OnItsWay(r, m)}

\* moderationRepo.Create: INSERT ... ON CONFLICT (memory_id) DO UPDATE back to
\* pending.  Without the unique index PostgreSQL refuses the statement.
CreateItem(m) ==
    /\ item' = [item EXCEPT ![m] = "pending"]
    /\ order' = IF item[m] = "none" THEN Append(order, m) ELSE order
    /\ dropped' = dropped \ {m}

\* Report: INSERT ... ON CONFLICT DO NOTHING, one report per user and memory.
CreateReport(r, m, u) ==
    /\ Begin(r, m, "count")
    /\ reporters' = [reporters EXCEPT ![m] = @ \cup {u}]
    /\ UNCHANGED <<item, order, status, verdict, workerVars, history>>

\* Faults: the count is off by one, downwards or upwards.
CountReportsEarly(r) ==
    /\ pc[r] = "count"
    /\ IF Cardinality(reporters[subject[r]]) + 1 >= Threshold
       THEN Goto(r, "exists")
       ELSE Finish(r)
    /\ UNCHANGED <<rows, workerVars, history>>

CountReportsLate(r) ==
    /\ pc[r] = "count"
    /\ IF Cardinality(reporters[subject[r]]) > Threshold
       THEN Goto(r, "exists")
       ELSE Finish(r)
    /\ UNCHANGED <<rows, workerVars, history>>

CountReports(r) ==
    /\ pc[r] = "count"
    /\ IF Cardinality(reporters[subject[r]]) >= Threshold
       THEN Goto(r, "exists")
       ELSE Finish(r)
    /\ UNCHANGED <<rows, workerVars, history>>

\* EscalateMemory: SELECT EXISTS, then UPDATE, or Create and UPDATE.
EscalateExists(r) ==
    /\ pc[r] = "exists"
    /\ Goto(r, IF item[subject[r]] = "none" THEN "create" ELSE "escalate")
    /\ UNCHANGED <<rows, workerVars, history>>

\* Report only logs the error of EscalateMemory.
EscalateCreate(r) ==
    /\ pc[r] = "create"
    /\ IF MemoryIdUnique
       THEN CreateItem(subject[r]) /\ Goto(r, "escalate")
       ELSE UNCHANGED <<item, order>> /\ Lose({r}) /\ Finish(r)
    /\ UNCHANGED <<status, reporters, workerVars, submitted, unwritten>>

EscalateUpdate(r) ==
    /\ pc[r] = "escalate"
    /\ item' = [item EXCEPT ![subject[r]] = "escalated"]
    /\ Finish(r)
    /\ UNCHANGED <<order, status, reporters, workerVars, history>>

\* SubmitForModeration.
Submit(r, m) ==
    /\ Submitting
    /\ m \notin submitted
    /\ Begin(r, m, "submit")
    /\ submitted' = submitted \cup {m}
    /\ UNCHANGED <<rows, verdict, workerVars, unwritten, dropped>>

SubmitCreate(r) ==
    /\ pc[r] = "submit"
    /\ IF MemoryIdUnique
       THEN CreateItem(subject[r])
       ELSE UNCHANGED <<item, order, dropped>>
    /\ Finish(r)
    /\ UNCHANGED <<status, reporters, workerVars, submitted, unwritten>>

-----------------------------------------------------------------------------
\* Fault: the status of the item is written to the memory.
MemoryStatusRaw(v) == v

MemoryStatus(v) == IF v = "approved" THEN "active" ELSE "rejected"

\* ManualReview: the item is read (in whatever state), the memory gets its
\* status, and then the item the verdict; each error ends the review.
ReviewLoad(r, m, v) ==
    /\ v \in Reviewing
    /\ item[m] # "none"
    /\ Begin(r, m, "reviewMemory")
    /\ verdict' = [verdict EXCEPT ![r] = v]
    /\ UNCHANGED <<rows, workerVars, history>>

ReviewMemory(r) ==
    /\ pc[r] = "reviewMemory"
    /\ status' = [status EXCEPT ![subject[r]] = MemoryStatus(verdict[r])]
    /\ unwritten' = unwritten \ {subject[r]}
    /\ Goto(r, "reviewItem")
    /\ UNCHANGED <<item, order, reporters, workerVars, submitted, dropped>>

ReviewItem(r) ==
    /\ pc[r] = "reviewItem"
    /\ item' = [item EXCEPT ![subject[r]] = verdict[r]]
    /\ Finish(r)
    /\ UNCHANGED <<order, status, reporters, workerVars, history>>

\* A statement fails, or the client goes away and its context is cancelled.
Abandon(r) ==
    /\ Faults
    /\ pc[r] # "idle"
    /\ Lose({r})
    /\ Finish(r)
    /\ UNCHANGED <<rows, workerVars, submitted, unwritten>>

-----------------------------------------------------------------------------
\* ORDER BY created_at: the row of m is older than the row of n.
Before(m, n) ==
    \E i, j \in DOMAIN order : i < j /\ order[i] = m /\ order[j] = n

\* ListPending: the oldest pending items, BatchSize at most.
ListPending ==
    LET pending == {m \in Memories : item[m] = "pending"}
    IN  {m \in pending : Cardinality({n \in pending : Before(n, m)}) < BatchSize}

ProcessQueue ==
    /\ Working
    /\ wpc = "idle"
    /\ ListPending # {}
    /\ batch' = ListPending
    /\ wpc' = "judge"
    /\ UNCHANGED <<rows, reqVars, current, judged, history>>

\* The loop of ProcessQueue takes up the items of its batch, oldest first ...
TakeItem(m) ==
    /\ m \in batch
    /\ \A n \in batch \ {m} : Before(m, n)
    /\ batch' = batch \ {m}

\* ... and goes on, whatever became of the one before.
NextItem ==
    /\ wpc' = IF batch' = {} THEN "idle" ELSE "judge"
    /\ current' = None
    /\ judged' = "none"

\* Fault: a verdict of the AI is written to the item only.
JudgeItemOnly(m, v) ==
    /\ wpc = "judge"
    /\ TakeItem(m)
    /\ current' = m
    /\ judged' = v
    /\ wpc' = "item"
    /\ UNCHANGED <<rows, reqVars, history>>

\* What one request to the AI service may come to: a server error, any other
\* error, an answer that cannot be parsed, or safe or unsafe, surely (with a
\* confidence above 0.95) or not.
Replies == {"5xx", "error", "garbled", "safe", "maybeSafe", "unsafe", "maybeUnsafe"}

\* A server error is retried once; what cannot be parsed is safe, with 0.5.
Answer(first, second) ==
    LET last == IF first = "5xx" THEN second ELSE first
    IN  IF last = "garbled" THEN "maybeSafe" ELSE last

Answers == {Answer(a, b) : a, b \in Replies}

\* processItem decides on the answers to the text and to each of the photos.
\* An error escalates and an unsafe photo too (confidence 0.5); else the text
\* decides, as far as its answer is sure: that of a photo need not be.  Photos
\* that could not be listed are none.
Verdict(text, photos) ==
    IF photos \cap {"5xx", "error", "unsafe", "maybeUnsafe"} # {} THEN "escalated"
    ELSE CASE text = "safe" -> "approved"
           [] text = "unsafe" -> "rejected"
           [] OTHER -> "escalated"

Judgements == {Verdict(text, photos) : text \in Answers, photos \in SUBSET Answers}

Judge(m, v) ==
    /\ wpc = "judge"
    /\ TakeItem(m)
    /\ current' = m
    /\ judged' = v
    /\ wpc' = IF v = "escalated" THEN "item" ELSE "memory"
    /\ UNCHANGED <<rows, reqVars, history>>

\* UpdateStatus of the memory; an error is logged and the worker goes on.
WorkerMemory ==
    /\ wpc = "memory"
    /\ \/ /\ status' = [status EXCEPT ![current] = MemoryStatus(judged)]
          /\ unwritten' = unwritten \ {current}
       \/ /\ Faults
          /\ unwritten' = IF status[current] = "pending"
                           THEN unwritten \cup {current} ELSE unwritten
          /\ UNCHANGED status
    /\ wpc' = "item"
    /\ UNCHANGED <<item, order, reporters, reqVars, batch, current, judged,
                   submitted, dropped>>

\* Fault: the item is not updated.
WorkerItemKeeps ==
    /\ wpc = "item"
    /\ UNCHANGED <<rows, reqVars, batch, history>>
    /\ NextItem

\* UpdateReview of the item, by id and whatever its status has become.
WorkerItem ==
    /\ wpc = "item"
    /\ item' = [item EXCEPT ![current] = judged]
    /\ UNCHANGED <<order, status, reporters, reqVars, batch, history>>
    /\ NextItem

\* The memory cannot be read, or UpdateReview fails: the error is logged and
\* the item stays as it is.
WorkerSkip ==
    /\ Faults
    /\ \/ wpc = "judge" /\ \E m \in Memories : TakeItem(m)
       \/ wpc = "item" /\ UNCHANGED batch
    /\ NextItem
    /\ UNCHANGED <<rows, reqVars, history>>

\* The process is killed and started again: only the tables remain.
Crash ==
    /\ Faults
    /\ pc' = [r \in Requests |-> "idle"]
    /\ subject' = [r \in Requests |-> None]
    /\ verdict' = [r \in Requests |-> "none"]
    /\ batch' = {}
    /\ current' = None
    /\ wpc' = "idle"
    /\ judged' = "none"
    /\ Lose(Requests)
    /\ UNCHANGED <<rows, submitted, unwritten>>

-----------------------------------------------------------------------------
WorkerStep ==
    \/ ProcessQueue
    \/ \E m \in Memories, v \in Judgements : Judge(m, v)
    \/ WorkerMemory
    \/ WorkerItem

RequestStep(r) ==
    \/ CountReports(r) \/ EscalateExists(r) \/ EscalateCreate(r)
    \/ EscalateUpdate(r) \/ SubmitCreate(r)
    \/ ReviewMemory(r) \/ ReviewItem(r)

Next ==
    \/ \E r \in Requests, m \in Memories :
        \/ \E u \in Users : CreateReport(r, m, u)
        \/ Submit(r, m)
        \/ \E v \in Decided : ReviewLoad(r, m, v)
    \/ \E r \in Requests : RequestStep(r) \/ Abandon(r)
    \/ WorkerStep
    \/ WorkerSkip
    \/ Crash

Spec == Init /\ [][Next]_vars

\* The ticker fires every five minutes and statements return.
Fairness == WF_vars(WorkerStep) /\ \A r \in Requests : WF_vars(RequestStep(r))
FairSpec == Spec /\ Fairness

-----------------------------------------------------------------------------
AllIdle == wpc = "idle" /\ \A r \in Requests : pc[r] = "idle"

\* Nobody lands in the queue by reports before Threshold different people
\* reported the memory, however their requests interleave.
EscalationNeedsReports ==
    \A m \in Memories : item[m] # "none" /\ m \notin submitted => Reported(m)

\* Overlapping reports do not miss the threshold between them, since the one
\* that counts last sees all the others: a memory with Threshold reports that
\* is not in the queue is about to be put there, or a statement of a request
\* that was to do it failed or was never sent, and nobody has reported the
\* memory successfully since.  (Somebody may have decided about the item, and
\* the worker may have overwritten the escalation by a verdict under way.)
LostByFailureOnly ==
    \A m \in Memories :
        Reported(m) =>
            \/ item[m] # "none"
            \/ \E r \in Requests : OnItsWay(r, m)
            \/ m \in dropped

\* When nobody is working on it, a decided item and its memory say the same,
\* as long as there is one who decides and nothing fails (processItem).
DecisionsAgree ==
    AllIdle => \A m \in Memories :
        item[m] \in Decided => status[m] = MemoryStatus(item[m])

\* An item is never closed while its memory still waits for the verdict, since
\* nobody would look at such a memory again: the status of the memory is
\* written first, and the item only after it.  This survives crashes, retries
\* and failing reviews; only processItem, which logs the error of that write
\* and goes on, closes items whose memory it left unwritten.
DecidedReachesMemory ==
    \A m \in Memories :
        item[m] \in Decided => status[m] # "pending" \/ m \in unwritten

\* No pending item is forgotten, also when there are more than a pass takes.
PendingIsHandled ==
    \A m \in Memories : item[m] = "pending" ~> item[m] # "pending"
=============================================================================
