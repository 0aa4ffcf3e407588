------------------------------ MODULE NoteSharing ------------------------------
(***************************************************************************)
(* Notes, their shares and who may change them (backend/app/notes/routes.py,*)
(* sharing.py, permissions.py) against deletion of an account               *)
(* (auth/routes.py).  Every mutation takes the note's row FOR UPDATE, then  *)
(* looks at the permission, then commits; delete_account first locks every  *)
(* note the user owns or was given, lowest id first.  The handlers that      *)
(* move files, delete_account among them, take the advisory lock of the     *)
(* cleanup before any row.                                                  *)
(*                                                                          *)
(* What a note says, its attachments included, is its revision; the files   *)
(* of the attachments are the subject of AttachmentStore.                   *)
(***************************************************************************)
EXTENDS Naturals, FiniteSets

CONSTANTS
    Users,      \* accounts with a verified address of their own
    Notes,      \* note ids, ordered
    OwnerOf,    \* who creates a note
    Calls,      \* the calls that users make on notes
    Requests,   \* requests the API serves at a time
    Cleanup,    \* the FILE_CLEANUP advisory lock
    None,
    Revisions   \* bound: revisions are told apart modulo this

ASSUME NoteAssumption == Notes \subseteq Nat /\ OwnerOf \in [Notes -> Users]
ASSUME RevisionAssumption == Revisions \in Nat \ {0, 1}
ASSUME LockAssumption ==
    /\ Users \cap Notes = {} /\ Cleanup \notin Users \cup Notes
    /\ None \notin Requests \cup Users \cup Notes

Edits == {"update", "attach", "additem", "patchitem", "dropitem"}
OwnerOps == {"schedule", "delete", "undelete", "share", "previous", "reshare", "unshare"}

\* others: the recipients that a call names, permission: what they get.
ASSUME CallAssumption ==
    Calls \subseteq [user : Users, op : Edits \cup OwnerOps, note : Notes,
                     others : SUBSET Users, permission : {"none", "view", "edit"}]

VARIABLES
    exists,     \* users with an account
    note,       \* note[n]: "unborn", "active", "deleted", "late" or "gone"
    revision,   \* revision[n]: changes of its text and action items so far
    item,       \* item[n]: does the note have its action item?
    share,      \* share[n][u]: "none", "view" or "edit"
    contacts,   \* pairs of an owner and someone they once shared with
    lock,       \* holder of a note's row, an account's advisory lock, Cleanup
    request     \* request[p]: what p keeps in local variables

vars == <<exists, note, revision, item, share, contacts, lock, request>>
writing == <<revision, item>>
sharing == <<share, contacts>>
database == <<exists, note, writing, sharing>>

\* todo: notes still to lock.
Idle == [pc |-> "idle", op |-> "none", user |-> None, note |-> None,
         others |-> {}, permission |-> "none", todo |-> {}]

Init ==
    /\ exists = Users
    /\ note = [n \in Notes |-> "unborn"]
    /\ revision = [n \in Notes |-> 0] /\ item = [n \in Notes |-> FALSE]
    /\ share = [n \in Notes |-> [u \in Users |-> "none"]]
    /\ contacts = {}
    /\ lock = [r \in Notes \cup Users \cup {Cleanup} |-> None]
    /\ request = [p \in Requests |-> Idle]

------------------------------------------------------------------------------
At(p, pc) == request[p].pc = pc

Become(p, state) == request' = [request EXCEPT ![p] = state]

Goto(p, pc) == Become(p, [request[p] EXCEPT !.pc = pc])

Unlock(p) == lock' = [r \in DOMAIN lock |-> IF lock[r] = p THEN None ELSE lock[r]]

\* The request answers; its transaction ends.
Finish(p) == Become(p, Idle) /\ Unlock(p)

Stored(n) == note[n] \notin {"unborn", "gone"}

Permission(u, n) == IF OwnerOf[n] = u THEN "owner" ELSE share[n][u]

Allows(permission, op) ==
    permission = "owner" \/ (permission = "edit" /\ op \in Edits)

------------------------------------------------------------------------------
(* current_user, and for an action item the look-up of its note, come before *)
(* the lock.                                                                 *)

Call(p, c) ==
    /\ At(p, "idle") /\ c.user \in exists
    /\ c.op \in {"patchitem", "dropitem"} => item[c.note]
    /\ Become(p, [Idle EXCEPT !.pc = IF c.op = "attach" THEN "files" ELSE "lock",
                              !.op = c.op, !.user = c.user, !.note = c.note,
                              !.others = c.others, !.permission = c.permission])
    /\ UNCHANGED <<database, lock>>

\* Mutant: an attachment's handler takes the note's row first.
LockFilesLast(p) ==
    LET n == request[p].note
    IN  /\ At(p, "files")
        /\ IF lock[n] = p
           THEN lock[Cleanup] = None /\ lock' = [lock EXCEPT ![Cleanup] = p] /\ Goto(p, "check")
           ELSE /\ lock[n] = None
                /\ IF Stored(n) THEN lock' = [lock EXCEPT ![n] = p] /\ UNCHANGED request
                                ELSE Finish(p)
        /\ UNCHANGED database

\* upload and delete_attachment exclude every other mover of files first.
LockFiles(p) ==
    /\ At(p, "files") /\ lock[Cleanup] = None
    /\ lock' = [lock EXCEPT ![Cleanup] = p] /\ Goto(p, "lock")
    /\ UNCHANGED database

\* Mutant: get_note without the lock.
LockNoteNot(p) ==
    /\ At(p, "lock")
    /\ IF Stored(request[p].note) THEN Goto(p, "check") ELSE Become(p, Idle)
    /\ UNCHANGED <<database, lock>>

\* SELECT ... FOR UPDATE of the note: 404 once it is gone.
LockNote(p) ==
    LET n == request[p].note
    IN  /\ At(p, "lock") /\ lock[n] = None
        /\ IF Stored(n)
           THEN lock' = [lock EXCEPT ![n] = p] /\ Goto(p, "check")
           ELSE Finish(p)
        /\ UNCHANGED database

\* What the handler looks at before it writes.  A deleted note is there for
\* its owner's undelete only, for 15 seconds.
Passes(p) ==
    LET r == request[p]
        n == r.note
    IN  /\ note[n] = IF r.op = "undelete" THEN "deleted" ELSE "active"
        /\ Allows(Permission(r.user, n), r.op)
        /\ r.op \in {"patchitem", "dropitem"} => item[n]
        /\ r.op = "share" => r.others \subseteq exists \ {r.user}
        /\ r.op = "previous" => \A v \in r.others : <<r.user, v>> \in contacts
        /\ r.op \in {"reshare", "unshare"} => \A v \in r.others : share[n][v] # "none"

\* Mutant: the refusal leaves the transaction, and its lock, open.
CheckHoldsOn(p) ==
    /\ At(p, "check")
    /\ IF Passes(p) THEN Goto(p, "commit") ELSE Become(p, Idle)
    /\ UNCHANGED <<database, lock>>

Check(p) ==
    /\ At(p, "check")
    /\ IF Passes(p) THEN Goto(p, "commit") /\ UNCHANGED lock ELSE Finish(p)
    /\ UNCHANGED database

------------------------------------------------------------------------------
(* The commits.                                                              *)

\* update_note, and the action items and attachments of a note.
Edit(p) ==
    LET n == request[p].note
    IN  /\ At(p, "commit") /\ request[p].op \in Edits \cup {"schedule"}
        /\ revision' = [revision EXCEPT ![n] = (@ + 1) % Revisions]
        /\ item' = [item EXCEPT ![n] = CASE request[p].op = "additem" -> TRUE
                                         [] request[p].op = "dropitem" -> FALSE
                                         [] OTHER -> @]
        /\ Finish(p)
        /\ UNCHANGED <<exists, note, sharing>>

DeleteNote(p) ==
    /\ At(p, "commit") /\ request[p].op \in {"delete", "undelete"}
    /\ note' = [note EXCEPT ![request[p].note] =
           IF request[p].op = "delete" THEN "deleted" ELSE "active"]
    /\ Finish(p)
    /\ UNCHANGED <<exists, writing, sharing>>

\* upsert_share for each recipient.  The foreign keys refuse one whose account
\* is gone by now, and with it the whole transaction.
Share(p) ==
    LET n == request[p].note
    IN  /\ At(p, "commit") /\ request[p].op \in {"share", "previous"}
        /\ IF request[p].others \subseteq exists
           THEN /\ share' = [share EXCEPT ![n] = [v \in Users |->
                       IF v \in request[p].others THEN request[p].permission ELSE @[v]]]
                /\ contacts' = contacts \cup ({request[p].user} \X request[p].others)
           ELSE UNCHANGED sharing
        /\ Finish(p)
        /\ UNCHANGED <<exists, note, writing>>

\* update_share and remove_share; a row that went with its account is not
\* there to change.
ChangeShare(p) ==
    LET n == request[p].note
    IN  /\ At(p, "commit") /\ request[p].op \in {"reshare", "unshare"}
        /\ share' = [share EXCEPT ![n] = [v \in Users |->
               IF v \in request[p].others /\ @[v] # "none"
               THEN IF request[p].op = "unshare" THEN "none" ELSE request[p].permission
               ELSE @[v]]]
        /\ Finish(p)
        /\ UNCHANGED <<exists, note, writing, contacts>>

------------------------------------------------------------------------------
(* create_note and delete_account.                                           *)

Create(p, u, n) ==
    /\ At(p, "idle") /\ u \in exists /\ note[n] = "unborn" /\ OwnerOf[n] = u
    /\ Become(p, [Idle EXCEPT !.pc = "create", !.op = "create", !.user = u, !.note = n])
    /\ UNCHANGED <<database, lock>>

\* Mutant: create_note without lock_account.
InsertUnlocked(p) ==
    LET r == request[p]
    IN  /\ At(p, "create")
        /\ note' = IF r.user \in exists /\ note[r.note] = "unborn"
                   THEN [note EXCEPT ![r.note] = "active"] ELSE note
        /\ Become(p, Idle)
        /\ UNCHANGED <<exists, writing, sharing, lock>>

\* lock_account, a look whether the user is still there, the insertion.
Insert(p) ==
    LET r == request[p]
    IN  /\ At(p, "create") /\ lock[r.user] = None
        /\ note' = IF r.user \in exists /\ note[r.note] = "unborn"
                   THEN [note EXCEPT ![r.note] = "active"] ELSE note
        /\ Become(p, Idle)
        /\ UNCHANGED <<exists, writing, sharing, lock>>

Leave(p, u) ==
    /\ At(p, "idle") /\ u \in exists
    /\ Become(p, [Idle EXCEPT !.pc = "leave", !.op = "leave", !.user = u])
    /\ UNCHANGED <<database, lock>>

LockAccount(p) ==
    LET u == request[p].user
    IN  /\ At(p, "leave") /\ lock[Cleanup] = None /\ lock[u] = None
        /\ lock' = [lock EXCEPT ![Cleanup] = p, ![u] = p]
        /\ Goto(p, "select")
        /\ UNCHANGED database

\* The snapshot of the SELECT that locks the notes.
SelectNotes(p) ==
    LET u == request[p].user
    IN  /\ At(p, "select")
        /\ Become(p, [request[p] EXCEPT !.pc = "gather",
               !.todo = {n \in Notes : Stored(n) /\ (OwnerOf[n] = u \/ share[n][u] # "none")}])
        /\ UNCHANGED <<database, lock>>

Gather(p, n) ==
    /\ At(p, "gather") /\ n \in request[p].todo /\ lock[n] = None
    /\ \A m \in request[p].todo : n <= m
    /\ lock' = IF Stored(n) THEN [lock EXCEPT ![n] = p] ELSE lock
    /\ Become(p, [request[p] EXCEPT !.todo = @ \ {n}])
    /\ UNCHANGED database

\* Mutant: the shares and contacts of the account stay.
EraseUserOnly(p) ==
    LET u == request[p].user
    IN  /\ At(p, "gather") /\ request[p].todo = {}
        /\ exists' = exists \ {u}
        /\ note' = [n \in Notes |-> IF OwnerOf[n] = u /\ Stored(n) THEN "gone" ELSE note[n]]
        /\ Finish(p)
        /\ UNCHANGED <<writing, sharing>>

\* A note the deletion does not know of refuses it: notes.owner_id.
Refused(p) ==
    \E n \in Notes : Stored(n) /\ OwnerOf[n] = request[p].user /\ lock[n] # p

\* The owned notes go, then the user; shares and contacts cascade.
Erase(p) ==
    LET u == request[p].user
    IN  /\ At(p, "gather") /\ request[p].todo = {}
        /\ IF Refused(p)
           THEN UNCHANGED <<exists, note, sharing>>
           ELSE /\ exists' = exists \ {u}
                /\ note' = [n \in Notes |->
                       IF OwnerOf[n] = u /\ Stored(n) THEN "gone" ELSE note[n]]
                /\ share' = [n \in Notes |-> [v \in Users |->
                       IF v = u \/ OwnerOf[n] = u THEN "none" ELSE share[n][v]]]
                /\ contacts' = {c \in contacts : u \notin {c[1], c[2]}}
        /\ Finish(p)
        /\ UNCHANGED writing

------------------------------------------------------------------------------
(* Time: the undo window of 15 seconds, then 30 days until the purge.        *)

WindowEnds(n) ==
    /\ note[n] = "deleted"
    /\ note' = [note EXCEPT ![n] = "late"]
    /\ UNCHANGED <<exists, writing, sharing, lock, request>>

\* purge_deleted gives up at once when files are being moved.
Purge(n) ==
    /\ note[n] = "late" /\ lock[Cleanup] = None /\ lock[n] = None
    /\ note' = [note EXCEPT ![n] = "gone"]
    /\ share' = [share EXCEPT ![n] = [u \in Users |-> "none"]]
    /\ UNCHANGED <<exists, writing, contacts, lock, request>>

\* An error or a lost connection: the transaction rolls back.
Fail(p) == ~At(p, "idle") /\ Finish(p) /\ UNCHANGED database

------------------------------------------------------------------------------
Start(p) ==
    \/ \E c \in Calls : Call(p, c)
    \/ \E u \in Users : Leave(p, u) \/ \E n \in Notes : Create(p, u, n)

Step(p) ==
    \/ LockFiles(p) \/ LockNote(p) \/ Check(p)
    \/ Edit(p) \/ DeleteNote(p) \/ Share(p) \/ ChangeShare(p)
    \/ Insert(p) \/ LockAccount(p) \/ SelectNotes(p)
    \/ \E n \in Notes : Gather(p, n)
    \/ Erase(p)

Next ==
    \/ \E p \in Requests : Start(p) \/ Step(p) \/ Fail(p)
    \/ \E n \in Notes : WindowEnds(n) \/ Purge(n)

Spec == Init /\ [][Next]_vars

\* PostgreSQL serves the waiters of a lock in order.
FairSpec == Spec /\ \A p \in Requests : SF_vars(Step(p))

------------------------------------------------------------------------------
\* What a request may keep: its user and note are there as soon as it works.
States ==
    [pc : {"idle", "files", "lock", "check", "commit", "create", "leave", "select", "gather"},
     op : Edits \cup OwnerOps \cup {"none", "create", "leave"},
     user : Users \cup {None}, note : Notes \cup {None},
     others : SUBSET Users, permission : {"none", "view", "edit"},
     todo : SUBSET Notes]

\* Every variable keeps its type, and a lock is held by a request at work.
TypeOK ==
    /\ exists \subseteq Users
    /\ note \in [Notes -> {"unborn", "active", "deleted", "late", "gone"}]
    /\ revision \in [Notes -> 0..(Revisions - 1)] /\ item \in [Notes -> BOOLEAN]
    /\ share \in [Notes -> [Users -> {"none", "view", "edit"}]]
    /\ contacts \subseteq Users \X Users
    /\ lock \in [Notes \cup Users \cup {Cleanup} -> Requests \cup {None}]
    /\ request \in [Requests -> States]
    /\ \A p \in Requests :
          /\ ~At(p, "idle") => request[p].user \in Users
          /\ request[p].pc \in {"files", "lock", "check", "commit", "create"} => request[p].note \in Notes
    /\ \A r \in DOMAIN lock :
          lock[r] # None => request[lock[r]].pc \in {"lock", "check", "commit", "select", "gather"}

\* What p commits in this step.
Commits(p, ops) ==
    /\ At(p, "commit") /\ request[p].op \in ops
    /\ request'[p] # request[p] /\ revision' # revision

\* Revocation is immediate: a change of a note that commits is by someone who
\* may make it at that moment, to a note that is not deleted and an action
\* item that exists, whatever was checked before and whoever revoked, deleted
\* or purged meanwhile.  (A user deleted meanwhile is another matter.)
WritesAreAllowed ==
    [][\A p \in Requests :
          LET r == request[p] IN
          Commits(p, Edits \cup {"schedule"}) /\ r.user \in exists =>
              /\ note[r.note] = "active"
              /\ Allows(Permission(r.user, r.note), r.op)
              /\ r.op \in {"patchitem", "dropitem"} => item[r.note]]_vars

\* Everyone a note is shared with has an account and is a contact of its
\* owner; a note that is gone is shared with nobody.
SharesAreKnown ==
    \A n \in Notes, u \in Users :
        share[n][u] # "none" =>
            u \in exists /\ <<OwnerOf[n], u>> \in contacts /\ Stored(n)

\* The locks that the next statement of p waits for.
WaitsFor(p) ==
    LET r == request[p] IN
    CASE r.pc = "files" -> {Cleanup}
      [] r.pc = "lock" -> {r.note}
      [] r.pc = "create" -> {r.user}
      [] r.pc = "leave" -> {Cleanup, r.user}
      [] r.pc = "gather" -> {n \in r.todo : \A m \in r.todo : n <= m}
      [] OTHER -> {}

\* No requests wait for each other in a circle, though a deletion holds several
\* notes while it waits for one more: of any requests, one waits for none of
\* the others.
NoDeadlock ==
    \A S \in (SUBSET Requests) \ {{}} : \E p \in S :
        \A r \in WaitsFor(p) : lock[r] \notin S

\* delete_account knows every note of the user when it deletes the user: a
\* note created or shared meanwhile never makes it fail half-way.
AllGathered ==
    \A p \in Requests : At(p, "gather") /\ request[p].todo = {} => ~Refused(p)

\* A request that has looked at its note holds the note's row, and the note
\* stays in the table; one that deletes an account holds the account.
LocksAreHeld ==
    \A p \in Requests :
        /\ request[p].pc \in {"check", "commit"} =>
              lock[request[p].note] = p /\ Stored(request[p].note)
        /\ request[p].pc \in {"select", "gather"} => lock[request[p].user] = p

\* What the checks found still holds when the request commits.
ChecksHold ==
    \A p \in Requests :
        LET r == request[p] IN
        /\ At(p, "commit") /\ r.op \in OwnerOps => OwnerOf[r.note] = r.user
        /\ At(p, "commit") /\ r.op \in Edits \cup {"schedule"} /\ r.user \in exists =>
              /\ note[r.note] = "active"
              /\ Allows(Permission(r.user, r.note), r.op)
              /\ r.op \in {"patchitem", "dropitem"} => item[r.note]
        /\ At(p, "create") => OwnerOf[r.note] = r.user

\* delete_account has locked the user's notes, or is about to: none is added.
GatherIsComplete ==
    \A p \in Requests, n \in Notes :
        At(p, "gather") /\ Stored(n) /\ OwnerOf[n] = request[p].user =>
            n \in request[p].todo \/ lock[n] = p

\* Whoever waits for a note with something in hand holds the lock of the
\* cleanup, which only one can, and does not hold that note.
LockOrder ==
    \A p \in Requests :
        /\ request[p].pc \in {"select", "gather"} => lock[Cleanup] = p
        /\ At(p, "lock") => \A u \in Users : lock[u] # p
        /\ request[p].pc \in {"lock", "select"} => \A n \in Notes : lock[n] # p
        /\ At(p, "gather") => \A n \in request[p].todo : lock[n] # p

\* The strengthening that makes the properties inductive.
IInv ==
    /\ TypeOK /\ SharesAreKnown /\ LocksAreHeld /\ ChecksHold /\ GatherIsComplete
    /\ LockOrder

\* Every request answers: no wait for a lock is for ever, though deletions hold
\* several, and the cleanup's beside them.
Answered == \A p \in Requests : ~At(p, "idle") ~> At(p, "idle")
==============================================================================
