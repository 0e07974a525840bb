--------------------------- MODULE MemoryService ---------------------------
(***************************************************************************)
(* Memories and the spatial index: internal/service/memory_service.go over *)
(* the table memories and the Redis GEO set spatial:memories               *)
(* (internal/repository/memory_repo.go, spatial_cache.go).                 *)
(*                                                                         *)
(* One action per SQL statement and per Redis command.  Update and Delete  *)
(* are refused to everybody but the owner, without effect; the requests    *)
(* below are those of the owner.  A memory never moves, so places appear   *)
(* only as the areas queries and invalidations cover.                      *)
(***************************************************************************)
EXTENDS Naturals, FiniteSets

CONSTANTS
    Memories,       \* memories that may be created
    Areas,          \* sets of memories a nearby query can cover
    Around(_),      \* Around(m): memories within 1000 metres of m, with m
    Requests,       \* request slots
    Visibilities,   \* only "public" is told apart from the others here
    Faults,         \* TRUE: a statement may fail, a request may stop
    None

ASSUME NoneAssumption == None \notin Memories
ASSUME AreasAssumption == Areas \subseteq SUBSET Memories
ASSUME AroundAssumption == \A m \in Memories : m \in Around(m)
ASSUME VisibilitiesAssumption ==
    {"private", "public"} \subseteq Visibilities /\ None \notin Visibilities
ASSUME FaultsAssumption == Faults \in BOOLEAN

VARIABLES
    visibility, \* visibility[m]: column of the row
    status,     \* status[m]: column of the row, "none" when there is no row
    index,      \* members of the GEO set
    pc,         \* pc[r]: next statement of request r
    subject,    \* subject[r]: memory a write request is about
    newVis,     \* newVis[r]: visibility Update is going to write
    todo,       \* todo[r]: members still to read, to add or to remove
    keeping,    \* history: updates that leave the visibility out, of memories
                \* whose visibility nobody changed since the update read it
    bornPublic, \* history: memories created public
    reviewed,   \* history: memories a moderation verdict was given on
    withdrawn,  \* history: memories Update last gave another visibility
    stray,      \* history: members a removal missed, because it failed or
                \* because they were added late
    leaked      \* history: memories a nearby query returned though their row,
                \* when read, was not active and public

rowVars == <<visibility, status>>
reqVars == <<pc, subject, newVis, todo, keeping>>
history == <<bornPublic, reviewed, withdrawn, leaked>>
indexVars == <<index, stray>>
vars == <<visibility, status, index, pc, subject, newVis, todo, keeping,
          bornPublic, reviewed, withdrawn, stray, leaked>>

Statuses == {"none", "active", "pending", "rejected", "deleted"}
Steps == {"idle", "cache", "write", "scan", "evict", "uncache",
          "fetch", "query", "fill"}

TypeOK ==
    /\ visibility \in [Memories -> Visibilities]
    /\ status \in [Memories -> Statuses]
    /\ index \in SUBSET Memories
    /\ pc \in [Requests -> Steps]
    /\ subject \in [Requests -> Memories \cup {None}]
    /\ newVis \in [Requests -> Visibilities]
    /\ todo \in [Requests -> SUBSET Memories]
    /\ keeping \in SUBSET Requests
    /\ bornPublic \in SUBSET Memories
    /\ reviewed \in SUBSET Memories
    /\ withdrawn \in SUBSET Memories
    /\ stray \in SUBSET Memories
    /\ leaked \in SUBSET Memories

Init ==
    /\ visibility = [m \in Memories |-> "private"]
    /\ status = [m \in Memories |-> "none"]
    /\ index = {}
    /\ pc = [r \in Requests |-> "idle"]
    /\ subject = [r \in Requests |-> None]
    /\ newVis = [r \in Requests |-> "private"]
    /\ todo = [r \in Requests |-> {}]
    /\ keeping = {}
    /\ bornPublic = {}
    /\ reviewed = {}
    /\ withdrawn = {}
    /\ stray = {}
    /\ leaked = {}

Exists(m) == status[m] # "none"
Listed == {m \in Memories : status[m] = "active" /\ visibility[m] = "public"}

\* Whether reading m by its id shows it to somebody who is not its owner; the
\* permissions and circles are not asked.
canAccess(m) ==
    status[m] # "deleted" /\ visibility[m] = "public" /\ status[m] = "active"

\* The request goes on with step and a new set of members to work through.
Continue(r, step, S) ==
    /\ pc' = [pc EXCEPT ![r] = step]
    /\ todo' = [todo EXCEPT ![r] = S]
    /\ subject' = [subject EXCEPT ![r] = None]
    /\ UNCHANGED <<newVis, keeping>>

Finish(r) ==
    /\ pc' = [pc EXCEPT ![r] = "idle"]
    /\ subject' = [subject EXCEPT ![r] = None]
    /\ newVis' = [newVis EXCEPT ![r] = "private"]
    /\ todo' = [todo EXCEPT ![r] = {}]
    /\ keeping' = keeping \ {r}

\* Members that are to leave the GEO set: deleted, or taken back by Update.
Unwanted == {m \in Memories : status[m] = "deleted"} \cup withdrawn

\* Nothing is removed, and those of S that should have been stay behind.
Miss(S) ==
    /\ UNCHANGED index
    /\ stray' = stray \cup (S \cap index)

\* GEOADD and ZREM; their errors are logged and the request goes on.  A
\* NoOpSpatialCache (serverless) is an index whose additions all get lost.
AddMemory(S) ==
    \/ /\ index' = index \cup S
       /\ stray' = stray \cup (S \cap Unwanted)
    \/ Faults /\ UNCHANGED indexVars
RemoveMembers(S) ==
    \/ index' = index \ S /\ stray' = stray \ S
    \/ Faults /\ Miss(S)

-----------------------------------------------------------------------------
\* Fault: a public memory is active at once.
CreateInsertActive(r, m, v) ==
    /\ pc[r] = "idle"
    /\ status[m] = "none"
    /\ visibility' = [visibility EXCEPT ![m] = v]
    /\ status' = [status EXCEPT ![m] = "active"]
    /\ bornPublic' = IF v = "public" THEN bornPublic \cup {m} ELSE bornPublic
    /\ pc' = [pc EXCEPT ![r] = "cache"]
    /\ subject' = [subject EXCEPT ![r] = m]
    /\ UNCHANGED <<indexVars, newVis, todo, keeping, reviewed, withdrawn, leaked>>

\* Create: "Public memories require moderation", the others are active.
CreateInsert(r, m, v) ==
    /\ pc[r] = "idle"
    /\ status[m] = "none"
    /\ visibility' = [visibility EXCEPT ![m] = v]
    /\ status' = [status EXCEPT ![m] =
                    IF v = "public" THEN "pending" ELSE "active"]
    /\ bornPublic' = IF v = "public" THEN bornPublic \cup {m} ELSE bornPublic
    /\ pc' = [pc EXCEPT ![r] = IF v = "public" THEN "idle" ELSE "cache"]
    /\ subject' = [subject EXCEPT ![r] = IF v = "public" THEN None ELSE m]
    /\ UNCHANGED <<indexVars, newVis, todo, keeping, reviewed, withdrawn, leaked>>

\* "Add to cache if not pending review".
CreateCache(r) ==
    /\ pc[r] = "cache"
    /\ AddMemory({subject[r]})
    /\ Finish(r)
    /\ UNCHANGED <<rowVars, history>>

\* Fault: a visibility the request leaves out reads as private.
UpdateLoadPrivate(r, m, v) ==
    /\ pc[r] = "idle"
    /\ Exists(m)
    /\ pc' = [pc EXCEPT ![r] = "write"]
    /\ subject' = [subject EXCEPT ![r] = m]
    /\ newVis' = [newVis EXCEPT ![r] = IF v = None THEN "private" ELSE v]
    /\ keeping' = IF v = None THEN keeping \cup {r} ELSE keeping
    /\ UNCHANGED <<rowVars, indexVars, todo, history>>

\* Update reads the row and keeps its visibility unless the request sets one.
\* The status it computes for a memory made public is never written.
UpdateLoad(r, m, v) ==
    /\ pc[r] = "idle"
    /\ Exists(m)
    /\ pc' = [pc EXCEPT ![r] = "write"]
    /\ subject' = [subject EXCEPT ![r] = m]
    /\ newVis' = [newVis EXCEPT ![r] = IF v = None THEN visibility[m] ELSE v]
    /\ keeping' = IF v = None THEN keeping \cup {r} ELSE keeping
    /\ UNCHANGED <<rowVars, indexVars, todo, history>>

\* Request r writes: those that read another visibility are overtaken.
Overtake(r) ==
    keeping' = {q \in keeping \ {r} :
                    subject[q] = subject[r] => newVis[r] = visibility[subject[r]]}

\* Fault: the status computed for a memory made public is written.
UpdateWriteStatus(r) ==
    /\ pc[r] = "write"
    /\ visibility' = [visibility EXCEPT ![subject[r]] = newVis[r]]
    /\ status' = [status EXCEPT ![subject[r]] =
                    IF newVis[r] = "public" THEN "pending" ELSE @]
    /\ pc' = [pc EXCEPT ![r] = "scan"]
    /\ newVis' = [newVis EXCEPT ![r] = "private"]
    /\ Overtake(r)
    /\ UNCHANGED <<indexVars, subject, todo, history>>

\* UPDATE memories SET title, content, visibility WHERE id.
UpdateWrite(r) ==
    /\ pc[r] = "write"
    /\ visibility' = [visibility EXCEPT ![subject[r]] = newVis[r]]
    /\ pc' = [pc EXCEPT ![r] = "scan"]
    /\ withdrawn' = IF newVis[r] = "public" THEN withdrawn \ {subject[r]}
                                            ELSE withdrawn \cup {subject[r]}
    /\ newVis' = [newVis EXCEPT ![r] = "private"]
    /\ Overtake(r)
    /\ UNCHANGED <<status, indexVars, subject, todo, bornPublic, reviewed, leaked>>

\* Fault: the memory itself is not among those around it.
InvalidateScanOthers(r) ==
    /\ pc[r] = "scan"
    /\ LET found == (index \cap Around(subject[r])) \ {subject[r]} IN
         \/ found # {} /\ Continue(r, "evict", found)
         \/ found = {} /\ Finish(r)
    /\ UNCHANGED <<rowVars, indexVars, history>>

\* Invalidate: GEOSEARCH around the memory, then ZREM of what it returned.
InvalidateScan(r) ==
    /\ pc[r] = "scan"
    /\ LET found == index \cap Around(subject[r]) IN
         \/ found # {} /\ Continue(r, "evict", found) /\ UNCHANGED indexVars
         \/ found = {} /\ Finish(r) /\ UNCHANGED indexVars
         \/ Faults /\ Finish(r) /\ Miss({subject[r]})
    /\ UNCHANGED <<rowVars, history>>

InvalidateEvict(r) ==
    /\ pc[r] = "evict"
    /\ RemoveMembers(todo[r])
    /\ Finish(r)
    /\ UNCHANGED <<rowVars, history>>

\* Delete: the row is only marked, then removed from the GEO set.
DeleteRow(r, m) ==
    /\ pc[r] = "idle"
    /\ Exists(m)
    /\ status' = [status EXCEPT ![m] = "deleted"]
    /\ pc' = [pc EXCEPT ![r] = "uncache"]
    /\ subject' = [subject EXCEPT ![r] = m]
    /\ UNCHANGED <<visibility, indexVars, newVis, todo, keeping, history>>

DeleteUncache(r) ==
    /\ pc[r] = "uncache"
    /\ RemoveMembers({subject[r]})
    /\ Finish(r)
    /\ UNCHANGED <<rowVars, history>>

-----------------------------------------------------------------------------
\* FindNearby: one cached member is enough to answer from the cache; no
\* member, or an error, falls back to the database.
NearbySearch(r, A) ==
    /\ pc[r] = "idle"
    /\ \/ A \cap index # {} /\ Continue(r, "fetch", A \cap index)
       \/ (A \cap index = {} \/ Faults) /\ Continue(r, "query", A)
    /\ UNCHANGED <<rowVars, indexVars, history>>

\* S is part of an answer.
Return(S) ==
    /\ leaked' = leaked \cup (S \ Listed)
    /\ UNCHANGED <<rowVars, indexVars, bornPublic, reviewed, withdrawn>>

\* The rows of the cached members are read one by one, by id only; a member
\* whose row cannot be read is skipped.
NearbyFetch(r, m) ==
    /\ pc[r] = "fetch"
    /\ m \in todo[r]
    /\ Return({m}) \/ (Faults /\ Return({}))
    /\ IF todo[r] = {m} THEN Finish(r) ELSE Continue(r, "fetch", todo[r] \ {m})

\* SELECT ... WHERE status = active AND visibility = public AND ST_DWithin
\* LIMIT OFFSET: one page of the memories that match, in some order.
NearbyQuery(r) ==
    /\ pc[r] = "query"
    /\ \E page \in SUBSET (todo[r] \cap Listed) :
         /\ Return(page)
         /\ IF page = {} THEN Finish(r) ELSE Continue(r, "fill", page)

\* The result is added to the GEO set member by member.
NearbyFill(r, m) ==
    /\ pc[r] = "fill"
    /\ m \in todo[r]
    /\ AddMemory({m})
    /\ IF todo[r] = {m} THEN Finish(r) ELSE Continue(r, "fill", todo[r] \ {m})
    /\ UNCHANGED <<rowVars, history>>

-----------------------------------------------------------------------------
\* UpdateStatus, as moderation calls it: by id, whatever the row holds, for
\* any memory that was queued as public or reported.
ModerationVerdict(m, s) ==
    /\ Exists(m)
    /\ status' = [status EXCEPT ![m] = s]
    /\ reviewed' = reviewed \cup {m}
    /\ UNCHANGED <<visibility, indexVars, reqVars, bornPublic, withdrawn,
                   leaked>>

\* EXPIRE of the whole GEO set: five minutes without an addition.
ExpireIndex ==
    /\ index # {}
    /\ index' = {}
    /\ stray' = {}
    /\ UNCHANGED <<rowVars, reqVars, history>>

\* What request r has still to remove from the GEO set.
Owes(r) == CASE pc[r] \in {"scan", "uncache"} -> {subject[r]}
             [] pc[r] = "evict" -> todo[r]
             [] OTHER -> {}

\* A statement fails with an error that is returned, or the request stops.
Abandon(r) ==
    /\ Faults
    /\ pc[r] # "idle"
    /\ Miss(Owes(r))
    /\ Finish(r)
    /\ UNCHANGED <<rowVars, history>>

Verdicts == {"active", "rejected"}

Next ==
    \/ \E r \in Requests, m \in Memories :
        \/ \E v \in Visibilities : CreateInsert(r, m, v)
        \/ \E v \in Visibilities \cup {None} : UpdateLoad(r, m, v)
        \/ DeleteRow(r, m)
        \/ NearbyFetch(r, m)
        \/ NearbyFill(r, m)
    \/ \E r \in Requests, A \in Areas : NearbySearch(r, A)
    \/ \E r \in Requests :
        \/ CreateCache(r) \/ UpdateWrite(r) \/ InvalidateScan(r)
        \/ InvalidateEvict(r) \/ DeleteUncache(r) \/ NearbyQuery(r)
        \/ Abandon(r)
    \/ \E m \in Memories, s \in Verdicts : ModerationVerdict(m, s)
    \/ ExpireIndex

Spec == Init /\ [][Next]_vars

-----------------------------------------------------------------------------
\* A memory created public reaches nobody before a verdict: it is not active,
\* not readable by others, not in the GEO set, not on its way into it, and no nearby query returned
\* it, whatever its owner does meanwhile (Create, Update, FindNearby).
ReviewBeforeExposure ==
    \A m \in bornPublic \ reviewed :
        /\ status[m] # "active" /\ ~canAccess(m)
        /\ m \notin index \cup leaked
        /\ \A r \in Requests : pc[r] \in {"fetch", "fill"} => m \notin todo[r]

\* A deleted memory comes back only by a moderation verdict: the service never
\* writes the status of the row it read earlier.
OnlyVerdictsRevive ==
    [][\A m \in Memories :
        status[m] = "deleted" /\ status'[m] # "deleted"
            => \E s \in Verdicts : ModerationVerdict(m, s)]_vars

\* A memory that was deleted, or that Update took back from the public, is in
\* the GEO set only while its removal is under way, or by an addition that came
\* late or a removal that failed: the invalidation around a memory reaches the
\* memory itself.  Requests served one by one, without faults, leave none.
UnwantedLeaveIndex ==
    index \cap Unwanted \subseteq stray \cup UNION {Owes(r) : r \in Requests}

\* An edit that leaves the visibility out changes it only when another edit
\* changed it after the first had read it: the row and the copy an update is
\* about to write agree until then, whatever else happens (Update).
KeptUnlessOvertaken ==
    \A r \in keeping : pc[r] = "write" /\ newVis[r] = visibility[subject[r]]

\* "Filters by visibility and status": what a nearby query returns was active
\* and public when its row was read.
NearbyListsPublicOnly == leaked = {}
=============================================================================
