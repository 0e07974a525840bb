------------------------------ MODULE Profiles ------------------------------
(***************************************************************************)
(* The row of a user under PUT /users/me (internal/handler/user_handler.go *)
(* over internal/repository/user_repo.go): the handler reads the row,      *)
(* changes the fields the request gives and writes four columns back,      *)
(* status among them.  Nothing in the program bans a user: an operator     *)
(* does, by SQL.  Nickname, avatar and bio are treated alike; the nickname *)
(* stands for them.                                                        *)
(***************************************************************************)
CONSTANTS
    Editors,        \* slots for requests that edit the profile
    Nicknames,      \* nicknames a request may give
    Kept            \* the request leaves the nickname out

ASSUME KeptAssumption == Kept \notin Nicknames

VARIABLES
    row,            \* the row: its nickname and status
    editing,        \* editors between their SELECT and their UPDATE
    copy,           \* copy[e]: the row as e read it
    given,          \* given[e]: nickname the request gives, or Kept
    word,           \* history: what was last asked of each column
    passed,         \* history: passed[e] = columns written since e read them
    raced           \* history: columns written back by such an e

profileVars == <<row, editing, copy, given, word, passed, raced>>

Columns == {"nickname", "status"}
Rows == [nickname : Nicknames, status : {"active", "banned"}]
Blank == [nickname |-> Kept, status |-> "active"]

ProfileTypeOK ==
    /\ row \in Rows /\ word \in Rows
    /\ editing \in SUBSET Editors
    /\ copy \in [Editors -> Rows \cup {Blank}]
    /\ given \in [Editors -> Nicknames \cup {Kept}]
    /\ passed \in [Editors -> SUBSET Columns]
    /\ raced \in SUBSET Columns

ProfileInit ==
    /\ row \in {r \in Rows : r.status = "active"}
    /\ word = row
    /\ editing = {}
    /\ copy = [e \in Editors |-> Blank]
    /\ given = [e \in Editors |-> Kept]
    /\ passed = [e \in Editors |-> {}]
    /\ raced = {}

UpdateMeLoad(e, nick) ==
    /\ e \notin editing
    /\ editing' = editing \cup {e}
    /\ copy' = [copy EXCEPT ![e] = row]
    /\ given' = [given EXCEPT ![e] = nick]
    /\ UNCHANGED <<row, word, passed, raced>>

\* A request is over: nothing of it is left.
Forget(e) ==
    /\ editing' = editing \ {e}
    /\ copy' = [copy EXCEPT ![e] = Blank]
    /\ given' = [given EXCEPT ![e] = Kept]

Written(e) == IF given[e] = Kept THEN {} ELSE {"nickname"}

\* What e makes of its copy.
Edited(e) == IF given[e] = Kept THEN copy[e] ELSE [copy[e] EXCEPT !.nickname = given[e]]

\* Fault: every user who edits is active.
UpdateMeWriteActive(e) ==
    /\ e \in editing
    /\ row' = [Edited(e) EXCEPT !.status = "active"]
    /\ word' = IF given[e] = Kept THEN word ELSE [word EXCEPT !.nickname = given[e]]
    /\ Forget(e)
    /\ passed' = [d \in Editors |->
                    IF d \in editing' THEN passed[d] \cup Written(e) ELSE {}]
    /\ raced' = (raced \cup passed[e]) \ Written(e)

\* UPDATE users SET nickname, avatar_url, bio, status WHERE id.
UpdateMeWrite(e) ==
    /\ e \in editing
    /\ row' = Edited(e)
    /\ word' = IF given[e] = Kept THEN word ELSE [word EXCEPT !.nickname = given[e]]
    /\ Forget(e)
    /\ passed' = [d \in Editors |->
                    IF d \in editing' THEN passed[d] \cup Written(e) ELSE {}]
    /\ raced' = (raced \cup passed[e]) \ Written(e)

\* The request ends before its UPDATE, or the UPDATE fails.
AbandonEdit(e) ==
    /\ e \in editing
    /\ Forget(e)
    /\ passed' = [passed EXCEPT ![e] = {}]
    /\ UNCHANGED <<row, word, raced>>

\* An operator bans the user, or lifts the ban, by SQL.
SetStatus(s) ==
    /\ s # row.status
    /\ row' = [row EXCEPT !.status = s]
    /\ word' = [word EXCEPT !.status = s]
    /\ passed' = [e \in Editors |->
                    IF e \in editing THEN passed[e] \cup {"status"} ELSE {}]
    /\ raced' = raced \ {"status"}
    /\ UNCHANGED <<editing, copy, given>>

ProfileNext ==
    \/ \E e \in Editors :
        \/ \E nick \in Nicknames \cup {Kept} : UpdateMeLoad(e, nick)
        \/ UpdateMeWrite(e) \/ AbandonEdit(e)
    \/ \E s \in {"active", "banned"} : SetStatus(s)

-----------------------------------------------------------------------------
\* A column differs from what was last asked of it only if an edit that had
\* read it before wrote it back (UpdateMe): a ban outlives every edit that
\* starts after it, and edits served one by one lose nothing.
EditsLostToOverlap == \A c \in Columns : row[c] # word[c] => c \in raced
=============================================================================
