------------------------------- MODULE Uploads -------------------------------
(***************************************************************************)
(* The two phases of an upload: internal/service/upload_service.go over    *)
(* the objects in R2 and the table memory_media as media_repo.go writes    *)
(* it.  A client asks for a presigned URL, puts the file there by itself,  *)
(* and then asks the server to record it.                                  *)
(*                                                                         *)
(* One action per statement or call to R2.  A storage key is generated     *)
(* with a UUID, so each is given out once; keyUser and keyMemory are what  *)
(* its path says.  A content and its SHA-256 are one value.                *)
(* Deleting a memory plays no part: GetByID finds it as before, and the    *)
(* second phase does not read it.  No row or object is ever deleted.       *)
(***************************************************************************)
EXTENDS Naturals, FiniteSets

CONSTANTS
    Users,
    Careful,    \* users whose client sends the hash of what it uploads
    Memories,
    Keys,       \* storage keys that may be generated
    Contents,   \* contents of files, and their hashes
    Requests,   \* request slots
    Faults,     \* TRUE: a statement may fail, a request may stop
    None

ASSUME NoneAssumption ==
    None \notin Users \cup Memories \cup Keys \cup Contents
ASSUME CarefulAssumption == Careful \subseteq Users
ASSUME RequestsAssumption == IsFiniteSet(Requests) /\ Requests # {}
ASSUME FaultsAssumption == Faults \in BOOLEAN

VARIABLES
    owner,      \* owner[m]: user_id of memory m, which never changes
    keyUser,    \* keyUser[k]: user in the path of k, None until it is generated
    keyMemory,  \* keyMemory[k]: memory in the path of k
    open,       \* keys whose presigned URL has not expired
    object,     \* object[k]: content of the object in R2, None when absent
    rows,       \* rows[k]: rows of memory_media with storage_key k
    hashes,     \* hashes[k]: content_hash of those rows
    pc,         \* pc[r]: next statement of request r
    who,        \* who[r]: caller of request r
    about,      \* about[r]: memory (first phase) or key (second phase)
    claim,      \* claim[r]: content_hash in request r
    asked,      \* history: asked[k] = content_hash k was generated for
    adders,     \* history: adders[k] = users whose requests inserted rows of k
    acked,      \* history: keys whose confirmation was answered with success
    reused      \* history: <<h, k>>, key k was offered for the content h

store == <<rows, hashes>>
keys == <<keyUser, keyMemory, open, asked>>
reqVars == <<pc, who, about, claim>>
history == <<adders, acked, reused>>
vars == <<owner, keyUser, keyMemory, open, object, rows, hashes, pc, who, about,
          claim, asked, adders, acked, reused>>

Steps == {"idle", "hash", "find", "insert"}

TypeOK ==
    /\ owner \in [Memories -> Users]
    /\ keyUser \in [Keys -> Users \cup {None}]
    /\ keyMemory \in [Keys -> Memories \cup {None}]
    /\ open \in SUBSET Keys
    /\ object \in [Keys -> Contents \cup {None}]
    /\ rows \in [Keys -> Nat]
    /\ hashes \in [Keys -> SUBSET Contents]
    /\ pc \in [Requests -> Steps]
    /\ who \in [Requests -> Users \cup {None}]
    /\ about \in [Requests -> Memories \cup Keys \cup {None}]
    /\ claim \in [Requests -> Contents \cup {None}]
    /\ asked \in [Keys -> Contents \cup {None}]
    /\ adders \in [Keys -> SUBSET Users]
    /\ acked \in SUBSET Keys
    /\ reused \in SUBSET (Contents \X Keys)

Init ==
    /\ owner \in [Memories -> Users]
    /\ keyUser = [k \in Keys |-> None]
    /\ keyMemory = [k \in Keys |-> None]
    /\ open = {}
    /\ object = [k \in Keys |-> None]
    /\ rows = [k \in Keys |-> 0]
    /\ hashes = [k \in Keys |-> {}]
    /\ pc = [r \in Requests |-> "idle"]
    /\ who = [r \in Requests |-> None]
    /\ about = [r \in Requests |-> None]
    /\ claim = [r \in Requests |-> None]
    /\ asked = [k \in Keys |-> None]
    /\ adders = [k \in Keys |-> {}]
    /\ acked = {}
    /\ reused = {}

Begin(r, step, u, x, h) ==
    /\ pc[r] = "idle"
    /\ pc' = [pc EXCEPT ![r] = step]
    /\ who' = [who EXCEPT ![r] = u]
    /\ about' = [about EXCEPT ![r] = x]
    /\ claim' = [claim EXCEPT ![r] = h]

Goto(r, step) ==
    /\ pc' = [pc EXCEPT ![r] = step]
    /\ UNCHANGED <<who, about, claim>>

Finish(r) ==
    /\ pc' = [pc EXCEPT ![r] = "idle"]
    /\ who' = [who EXCEPT ![r] = None]
    /\ about' = [about EXCEPT ![r] = None]
    /\ claim' = [claim EXCEPT ![r] = None]

\* Keys of the rows with a content hash, of which the query returns one, and
\* whether a key has a row.
FindByHash(h) == {k \in Keys : h \in hashes[k]}
FindByStorageKey(k) == rows[k] > 0

\* A fresh key for the caller and the memory, and a URL signed for it without
\* asking R2.
GenerateStorageKey(k, u, m) ==
    /\ keyUser[k] = None
    /\ keyUser' = [keyUser EXCEPT ![k] = u]
    /\ keyMemory' = [keyMemory EXCEPT ![k] = m]
GeneratePresignedUploadURL(k) == open' = open \cup {k}

-----------------------------------------------------------------------------
\* Fault: the owner of the memory is not compared with the caller.
RequestLoadUnowned(r, u, m, h) ==
    /\ Begin(r, "hash", u, m, h)
    /\ UNCHANGED <<owner, keys, object, store, history>>

\* RequestUpload: the memory is read and must be the caller's; then type and
\* size are looked at.  A request that is refused has changed nothing.
RequestLoad(r, u, m, h) ==
    /\ owner[m] = u
    /\ Begin(r, "hash", u, m, h)
    /\ UNCHANGED <<owner, keys, object, store, history>>

\* Fault: a key that was generated for the content counts, uploaded or not.
OfferHash(r, k) ==
    /\ pc[r] = "hash"
    /\ asked[k] = claim[r]
    /\ reused' = reused \cup {<<claim[r], k>>}
    /\ Finish(r)
    /\ UNCHANGED <<owner, keys, object, store, adders, acked>>

\* FindByHash finds a row: its key is offered and no URL is signed.
OfferExisting(r, k) ==
    /\ pc[r] = "hash"
    /\ k \in FindByHash(claim[r])
    /\ reused' = reused \cup {<<claim[r], k>>}
    /\ Finish(r)
    /\ UNCHANGED <<owner, keys, object, store, adders, acked>>

\* FindByHash finds nothing, or fails, which is only logged: a key is
\* generated and a URL signed.
SignURL(r, k) ==
    /\ pc[r] = "hash"
    /\ Faults \/ FindByHash(claim[r]) = {}
    /\ GenerateStorageKey(k, who[r], about[r])
    /\ asked' = [asked EXCEPT ![k] = claim[r]]
    /\ GeneratePresignedUploadURL(k)
    /\ Finish(r)
    /\ UNCHANGED <<owner, object, store, history>>

-----------------------------------------------------------------------------
\* The client puts a file, as often as it likes while the URL is valid.
PutObject(k, h) ==
    /\ k \in open
    /\ keyUser[k] \in Careful => h = asked[k]
    /\ object' = [object EXCEPT ![k] = h]
    /\ UNCHANGED <<owner, keys, store, reqVars, history>>

\* PreSignedURLExpiry passes.
ExpireURL(k) ==
    /\ k \in open
    /\ open' = open \ {k}
    /\ UNCHANGED <<owner, keyUser, keyMemory, asked, object, store, reqVars,
                   history>>

-----------------------------------------------------------------------------
\* ConfirmUpload: HeadObject, then FindByStorageKey, then the insertion.
\* Anybody may send any key; a careful client confirms its own keys with the
\* hash it announced.
ConfirmHead(r, u, k, h) ==
    /\ object[k] # None
    /\ u \in Careful /\ keyUser[k] = u => h = asked[k]
    /\ Begin(r, "find", u, k, h)
    /\ UNCHANGED <<owner, keys, object, store, history>>

\* Fault: a row that is there does not stop the insertion.
ConfirmFindBlind(r) ==
    /\ pc[r] = "find"
    /\ \/ keyUser[about[r]] = who[r] /\ Goto(r, "insert")
       \/ keyUser[about[r]] # who[r] /\ Finish(r)
    /\ UNCHANGED <<owner, keys, object, store, history>>

\* With a row there is "nothing to do", whoever asks; without one the user in
\* the path must be the caller.
ConfirmFind(r) ==
    /\ pc[r] = "find"
    /\ \/ /\ FindByStorageKey(about[r])
          /\ acked' = acked \cup {about[r]}
          /\ Finish(r)
       \/ /\ ~FindByStorageKey(about[r]) /\ keyUser[about[r]] = who[r]
          /\ Goto(r, "insert") /\ UNCHANGED acked
       \/ /\ ~FindByStorageKey(about[r]) /\ keyUser[about[r]] # who[r]
          /\ Finish(r) /\ UNCHANGED acked
    /\ UNCHANGED <<owner, keys, object, store, adders, reused>>

\* Fault: the error of the insertion is swallowed.
ConfirmInsertSwallow(r) ==
    /\ pc[r] = "insert"
    /\ \/ /\ rows' = [rows EXCEPT ![about[r]] = @ + 1]
          /\ hashes' = [hashes EXCEPT ![about[r]] = @ \cup {claim[r]}]
          /\ adders' = [adders EXCEPT ![about[r]] = @ \cup {who[r]}]
       \/ Faults /\ UNCHANGED <<rows, hashes, adders>>
    /\ acked' = acked \cup {about[r]}
    /\ Finish(r)
    /\ UNCHANGED <<owner, keys, object, reused>>

\* mediaRepo.Create: no index makes storage_key unique.
ConfirmInsert(r) ==
    /\ pc[r] = "insert"
    /\ rows' = [rows EXCEPT ![about[r]] = @ + 1]
    /\ hashes' = [hashes EXCEPT ![about[r]] = @ \cup {claim[r]}]
    /\ adders' = [adders EXCEPT ![about[r]] = @ \cup {who[r]}]
    /\ acked' = acked \cup {about[r]}
    /\ Finish(r)
    /\ UNCHANGED <<owner, keys, object, reused>>

\* A statement or a call to R2 fails, or the client goes away.
Abandon(r) ==
    /\ Faults
    /\ pc[r] # "idle"
    /\ Finish(r)
    /\ UNCHANGED <<owner, keys, object, store, history>>

Next ==
    \/ \E r \in Requests, u \in Users, m \in Memories, h \in Contents :
        RequestLoad(r, u, m, h)
    \/ \E r \in Requests, k \in Keys : OfferExisting(r, k) \/ SignURL(r, k)
    \/ \E k \in Keys, h \in Contents : PutObject(k, h)
    \/ \E k \in Keys : ExpireURL(k)
    \/ \E r \in Requests, u \in Users, k \in Keys, h \in Contents :
        ConfirmHead(r, u, k, h)
    \/ \E r \in Requests : ConfirmFind(r) \/ ConfirmInsert(r) \/ Abandon(r)

Spec == Init /\ [][Next]_vars

-----------------------------------------------------------------------------
\* A file has at most one row for each request that can run at once: only
\* confirmations that looked before the first row was inserted add another.
RowsPerKeyBounded == \A k \in Keys : rows[k] <= Cardinality(Requests)

\* A success of ConfirmUpload stands for a row and an object, also when the
\* insertion failed before, or was retried, or a second request was faster.
AckedIsRecorded == \A k \in acked : rows[k] > 0 /\ object[k] # None

\* Media are attached to a memory by its owner only, although the second phase
\* does not look at the memory: the key carries what the first phase checked.
OnlyOwnersAttach ==
    \A k \in Keys : \A u \in adders[k] : owner[keyMemory[k]] = u

\* A key offered instead of an upload holds the content it is offered for,
\* when its uploader's client sends the hash of what it uploads.  (The server
\* compares no hash, and the object can be replaced while its URL is valid.)
ReuseServesContent ==
    \A h \in Contents, k \in Keys :
        <<h, k>> \in reused /\ keyUser[k] \in Careful => object[k] = h
=============================================================================
