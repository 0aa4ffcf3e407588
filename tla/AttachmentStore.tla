--------------------------- MODULE AttachmentStore ---------------------------
(***************************************************************************)
(* The two-store commit of attachments: PostgreSQL rows on one side, file   *)
(* bytes on the other (backend/app/storage.py), and every code path that    *)
(* changes both: upload and delete_attachment (notes/routes.py),            *)
(* delete_account (auth/routes.py), purge_deleted and reconcile_quarantine  *)
(* (jobs.py).                                                               *)
(*                                                                          *)
(* A process is one request handler or the purge job.  Each storage call    *)
(* and each database call is a step of its own; what a process remembers    *)
(* between two calls is its record in proc.  The contents of a file are     *)
(* abstracted away: a key is a fresh UUID, written once and only ever       *)
(* copied, so a copy never differs from its original.                       *)
(***************************************************************************)
EXTENDS Naturals

CONSTANTS
    Keys,       \* attachment ids, which are also the object keys
    Notes, Users,
    Handlers,   \* API worker threads
    Purger,     \* the purge-deleted CronJob (concurrencyPolicy: Forbid)
    NoteOf,     \* the note a key is uploaded to
    OwnerOf,    \* the owner of a note
    Backend,    \* "local" or "s3": STORAGE_BACKEND
    Faults,     \* the kinds of failure the environment may inject
    MaxFaults,  \* bound on the number of injected failures
    None, InDoubt

Procs == Handlers \cup {Purger}

FaultKinds == {"write", "storage", "commit", "doubt", "refresh", "connection", "crash"}

ASSUME BackendAssumption == Backend \in {"local", "s3"}
ASSUME MapAssumption == NoteOf \in [Keys -> Notes] /\ OwnerOf \in [Notes -> Users]
ASSUME FaultAssumption == Faults \subseteq FaultKinds /\ MaxFaults \in Nat
ASSUME FreshAssumption ==
    /\ Purger \notin Handlers
    /\ None \notin Procs /\ InDoubt \notin Procs /\ None # InDoubt
    /\ None \notin Keys

VARIABLES
    rows,       \* keys with a committed row in attachments
    live, trash,\* keys with an object at the key, and under .trash/
    used,       \* keys whose UUID was generated
    notes,      \* notes[n]: "active", "deleted", "expired" (30 days) or "gone"
    lock,       \* holder of the FILE_CLEANUP advisory transaction lock
    doubt,      \* the transaction whose COMMIT got no answer
    proc,       \* proc[p]: the local state of process p
    faults      \* failures injected so far

vars == <<rows, live, trash, used, notes, lock, doubt, proc, faults>>
files == <<live, trash>>
database == <<rows, notes, doubt>>

NoTransaction == [op |-> "none", target |-> {}, drop |-> {}]

\* What a request keeps in local variables.  target: the keys of its
\* transaction; drop: the notes it deletes; todo: the rest of the loop it is
\* in; moved: the list quarantine() returns; found: the keys reconcile found
\* rows for; cur: the item between two storage calls.
Idle == [pc |-> "idle", op |-> "none", target |-> {}, drop |-> {},
         todo |-> {}, moved |-> {}, found |-> {}, cur |-> None]

Init ==
    /\ rows = {} /\ live = {} /\ trash = {} /\ used = {}
    /\ notes = [n \in Notes |-> "active"]
    /\ lock = None /\ doubt = NoTransaction
    /\ proc = [p \in Procs |-> Idle]
    /\ faults = 0

------------------------------------------------------------------------------
Fault(kind) ==
    /\ kind \in Faults /\ faults < MaxFaults
    /\ faults' = faults + 1

At(p, pc) == proc[p].pc = pc

Become(p, state) == proc' = [proc EXCEPT ![p] = state]

Goto(p, pc) == Become(p, [proc[p] EXCEPT !.pc = pc, !.cur = None])

\* Start the loop at pc over a set of keys.
Loop(p, pc, keys) ==
    Become(p, [proc[p] EXCEPT !.pc = pc, !.cur = None, !.todo = keys])

\* The session of p ends: its transaction, and the lock with it, is gone.
Release(p) == lock' = IF lock = p THEN None ELSE lock

Finish(p) == Become(p, Idle) /\ Release(p)

\* try_reconcile_quarantine: a new session that first waits for the lock.
TryReconcile(p) == Become(p, [Idle EXCEPT !.pc = "relock", !.op = "reconcile"])

KeysOf(ns) == {k \in rows : NoteOf[k] \in ns}

\* Notes whose row a transaction holds FOR UPDATE.
LockedNotes(t) == t.drop \cup {NoteOf[k] : k \in t.target}

NoteLocked(n) ==
    \/ lock = InDoubt /\ n \in LockedNotes(doubt)
    \/ lock \in Procs /\ n \in LockedNotes(proc[lock])

------------------------------------------------------------------------------
(* Requests.  A request blocks in pg_advisory_xact_lock until the lock is    *)
(* free; what it checked before is checked again under the lock.             *)

Begin(p, op, pc, target, drop, todo) ==
    /\ At(p, "idle") /\ lock = None
    /\ lock' = p
    /\ Become(p, [Idle EXCEPT !.pc = pc, !.op = op, !.target = target,
                              !.drop = drop, !.todo = todo])
    /\ UNCHANGED <<files, database, faults>>

\* Mutant: the key is only checked against the attachments that exist.
UploadReusesKey(p, k) ==
    /\ notes[NoteOf[k]] = "active" /\ k \notin rows
    /\ Begin(p, "upload", "write", {k}, {}, {})
    /\ used' = used \cup {k}

Upload(p, k) ==
    /\ notes[NoteOf[k]] = "active" /\ k \notin used
    /\ Begin(p, "upload", "write", {k}, {}, {})
    /\ used' = used \cup {k}

DeleteAttachment(p, k) ==
    /\ notes[NoteOf[k]] = "active" /\ k \in rows
    /\ Begin(p, "delete", "quarantine", {k}, {}, {k})
    /\ UNCHANGED used

DeleteAccount(p, u) ==
    LET owned == {n \in Notes : OwnerOf[n] = u /\ notes[n] # "gone"}
    IN  /\ owned # {}
        /\ Begin(p, "account", "quarantine", KeysOf(owned), owned, KeysOf(owned))
        /\ UNCHANGED used

\* Mutant: the purge does not reconcile first.
PurgeWithoutReconcile == Begin(Purger, "purge", "select", {}, {}, {}) /\ UNCHANGED used

\* pg_try_advisory_xact_lock: a busy lock ends the job with nothing done.
PurgeDeleted ==
    /\ Begin(Purger, "purge", "list", {}, {}, {})
    /\ UNCHANGED used

\* storage.write.  A failed local write unlinks its temporary file; a failed
\* S3 request may have stored the object.
Write(p) ==
    /\ At(p, "write")
    /\ \/ /\ live' = live \cup proc[p].target
          /\ Goto(p, "commit")
          /\ UNCHANGED <<lock, faults>>
       \/ /\ Fault("write")
          /\ \/ UNCHANGED live
             \/ Backend = "s3" /\ live' = live \cup proc[p].target
          /\ Release(p)
          /\ Loop(p, "quarantine", proc[p].target)
    /\ UNCHANGED <<database, trash, used>>

------------------------------------------------------------------------------
(* storage.quarantine: one rename per key locally, copy then delete on S3.   *)

\* Mutant: the local quarantine copies instead of renaming.
QuarantineLocalCopies(p, k) ==
    /\ Backend = "local" /\ At(p, "quarantine") /\ k \in proc[p].todo
    /\ trash' = trash \cup ({k} \cap live)
    /\ Become(p, [proc[p] EXCEPT !.todo = @ \ {k}, !.moved = @ \cup ({k} \cap live)])
    /\ UNCHANGED <<database, live, used, lock, faults>>

QuarantineLocal(p, k) ==
    /\ Backend = "local" /\ At(p, "quarantine") /\ k \in proc[p].todo
    /\ IF k \in live
       THEN /\ live' = live \ {k} /\ trash' = trash \cup {k}
            /\ Become(p, [proc[p] EXCEPT !.todo = @ \ {k}, !.moved = @ \cup {k}])
       ELSE /\ UNCHANGED files
            /\ Become(p, [proc[p] EXCEPT !.todo = @ \ {k}])
    /\ UNCHANGED <<database, used, lock, faults>>

QuarantineCopy(p, k) ==
    /\ Backend = "s3" /\ At(p, "quarantine") /\ proc[p].cur = None
    /\ k \in proc[p].todo
    /\ IF k \in live
       THEN /\ trash' = trash \cup {k}
            /\ Become(p, [proc[p] EXCEPT !.todo = @ \ {k}, !.moved = @ \cup {k},
                                         !.cur = k])
       ELSE /\ UNCHANGED trash
            /\ Become(p, [proc[p] EXCEPT !.todo = @ \ {k}])
    /\ UNCHANGED <<database, live, used, lock, faults>>

QuarantineDelete(p) ==
    /\ At(p, "quarantine") /\ proc[p].cur # None
    /\ live' = live \ {proc[p].cur}
    /\ Goto(p, "quarantine")
    /\ UNCHANGED <<database, trash, used, lock, faults>>

\* The handler goes on to its transaction; a failed upload to reconcile.
QuarantineDone(p) ==
    /\ At(p, "quarantine") /\ proc[p].todo = {} /\ proc[p].cur = None
    /\ IF proc[p].op = "upload" THEN TryReconcile(p) ELSE Goto(p, "commit")
    /\ UNCHANGED <<files, database, used, lock, faults>>

\* A storage error in the loop: put back what was moved, then raise.
QuarantineFails(p) ==
    /\ At(p, "quarantine") /\ Fault("storage")
    /\ proc[p].todo # {} \/ proc[p].cur # None
    /\ Loop(p, "restore", proc[p].moved)
    /\ UNCHANGED <<files, database, used, lock>>

Restore(p, k) ==
    /\ At(p, "restore") /\ proc[p].cur = None /\ k \in proc[p].todo
    /\ IF k \notin trash
       THEN UNCHANGED files /\ Become(p, [proc[p] EXCEPT !.todo = @ \ {k}])
       ELSE /\ live' = live \cup {k}
            /\ trash' = IF Backend = "local" THEN trash \ {k} ELSE trash
            /\ Become(p, [proc[p] EXCEPT !.todo = @ \ {k},
                                         !.cur = IF Backend = "local" THEN None ELSE k])
    /\ UNCHANGED <<database, used, lock, faults>>

RestoreDelete(p) ==
    /\ At(p, "restore") /\ proc[p].cur # None
    /\ trash' = trash \ {proc[p].cur}
    /\ Goto(p, "restore")
    /\ UNCHANGED <<database, live, used, lock, faults>>

\* The loop ends, or another storage error does: the exception leaves the
\* handler, except in upload, which reconciles first (its finally clause).
RestoreEnds(p) ==
    /\ At(p, "restore")
    /\ \/ proc[p].todo = {} /\ proc[p].cur = None /\ UNCHANGED faults
       \/ Fault("storage")
    /\ IF proc[p].op = "upload" THEN TryReconcile(p) /\ UNCHANGED lock
                                ELSE Finish(p)
    /\ UNCHANGED <<files, database, used>>

------------------------------------------------------------------------------
(* The transaction.  A commit can succeed, roll back, or get no answer: then *)
(* the server still holds the transaction, and its lock, until it decides.   *)

Transaction(p) == [op |-> proc[p].op, target |-> proc[p].target, drop |-> proc[p].drop]

Apply(t) ==
    /\ rows' = IF t.op = "upload" THEN rows \cup t.target ELSE rows \ t.target
    /\ notes' = [n \in Notes |-> IF n \in t.drop THEN "gone" ELSE notes[n]]

\* Mutants: a rolled-back deletion discards; a failed upload leaves its object.
AfterRollbackDiscards(p) ==
    IF proc[p].op = "upload" THEN Loop(p, "quarantine", proc[p].target)
                             ELSE Loop(p, "discard", proc[p].moved)

AfterRollbackLeavesObject(p) == TryReconcile(p)

\* The except clause after session.rollback().
AfterRollback(p) ==
    IF proc[p].op = "upload" THEN Loop(p, "quarantine", proc[p].target)
                             ELSE TryReconcile(p)

CommitOK(p) ==
    /\ At(p, "commit") /\ lock = p
    /\ Apply(Transaction(p))
    /\ lock' = None
    /\ IF proc[p].op = "upload" THEN Goto(p, "refresh")
                                ELSE Loop(p, "discard", proc[p].moved)
    /\ UNCHANGED <<files, used, doubt, faults>>

CommitFails(p) ==
    /\ At(p, "commit")
    /\ \/ lock # p /\ UNCHANGED faults      \* the connection was lost before
       \/ Fault("commit")
    /\ Release(p)
    /\ AfterRollback(p)
    /\ UNCHANGED <<files, database, used>>

CommitInDoubt(p) ==
    /\ At(p, "commit") /\ lock = p /\ Fault("doubt")
    /\ doubt' = Transaction(p)
    /\ lock' = InDoubt
    /\ AfterRollback(p)
    /\ UNCHANGED <<files, rows, notes, used>>

ResolveDoubt ==
    /\ lock = InDoubt
    /\ Apply(doubt) \/ UNCHANGED <<rows, notes>>
    /\ doubt' = NoTransaction
    /\ lock' = None
    /\ UNCHANGED <<files, used, proc, faults>>

\* session.refresh after the upload's commit.
RefreshRow(p) ==
    /\ At(p, "refresh")
    /\ \/ Become(p, Idle) /\ UNCHANGED faults
       \/ Fault("refresh") /\ Loop(p, "quarantine", proc[p].target)
    /\ UNCHANGED <<files, database, used, lock>>

\* storage.discard, after the lock is released: errors are swallowed.
Discard(p, k) ==
    /\ At(p, "discard") /\ k \in proc[p].todo
    /\ \/ trash' = trash \ {k} /\ UNCHANGED faults
       \/ Fault("storage") /\ UNCHANGED trash
    /\ Become(p, [proc[p] EXCEPT !.todo = @ \ {k}])
    /\ UNCHANGED <<database, live, used, lock>>

DiscardDone(p) ==
    /\ At(p, "discard") /\ proc[p].todo = {}
    /\ Become(p, Idle)
    /\ UNCHANGED <<files, database, used, lock, faults>>

------------------------------------------------------------------------------
(* reconcile_quarantine, in a session of its own (try_reconcile_quarantine)  *)
(* or in the purge's transaction.                                            *)

\* Mutant: reconcile runs whether it got the lock or not.
RelockAnyway(p) ==
    /\ At(p, "relock")
    /\ lock' = IF lock = None THEN p ELSE lock
    /\ Goto(p, "list")
    /\ UNCHANGED <<files, database, used, faults>>

Relock(p) ==
    /\ At(p, "relock") /\ lock = None
    /\ lock' = p
    /\ Goto(p, "list")
    /\ UNCHANGED <<files, database, used, faults>>

ListTrash(p) ==
    /\ At(p, "list")
    /\ Loop(p, IF trash = {} THEN "fix" ELSE "query", trash)
    /\ UNCHANGED <<files, database, used, lock, faults>>

QueryRows(p) ==
    /\ At(p, "query")
    /\ IF lock = p
       THEN /\ Become(p, [proc[p] EXCEPT !.pc = "fix", !.found = proc[p].todo \cap rows])
            /\ UNCHANGED lock
       ELSE Finish(p)
    /\ UNCHANGED <<files, database, used, faults>>

\* Mutant: reconcile leaves in quarantine what it should restore.
InspectItemSkips(p, k) ==
    /\ At(p, "fix") /\ k \in proc[p].todo
    /\ LET next == CASE k \in live -> "readlive"
                     [] k \notin live /\ k \in proc[p].found -> "fix"
                     [] OTHER -> "droptrash"
       IN  Become(p, [proc[p] EXCEPT !.pc = next, !.cur = k, !.todo = @ \ {k}])
    /\ UNCHANGED <<files, database, used, lock, faults>>

\* exists(): an item with no object at its key is restored or discarded.
InspectItem(p, k) ==
    /\ At(p, "fix") /\ k \in proc[p].todo
    /\ LET next == CASE k \in live -> "readlive"
                     [] k \notin live /\ k \in proc[p].found -> "putback"
                     [] OTHER -> "droptrash"
       IN  Become(p, [proc[p] EXCEPT !.pc = next, !.cur = k, !.todo = @ \ {k}])
    /\ UNCHANGED <<files, database, used, lock, faults>>

\* The comparison reads the object, then the quarantined copy; either may be
\* gone by then (ObjectNotFound).  Copies are equal.
ReadLive(p) ==
    /\ At(p, "readlive")
    /\ IF proc[p].cur \in live
       THEN Become(p, [proc[p] EXCEPT !.pc = "readtrash"]) /\ UNCHANGED lock
       ELSE Finish(p)
    /\ UNCHANGED <<files, database, used, faults>>

\* Mutant: the row decides the wrong way round which copy is dropped.
ReadTrashSwapped(p) ==
    /\ At(p, "readtrash")
    /\ IF proc[p].cur \in trash
       THEN /\ Become(p, [proc[p] EXCEPT !.pc =
                   IF proc[p].cur \in proc[p].found THEN "droplive" ELSE "droptrash"])
            /\ UNCHANGED lock
       ELSE Finish(p)
    /\ UNCHANGED <<files, database, used, faults>>

ReadTrash(p) ==
    /\ At(p, "readtrash")
    /\ IF proc[p].cur \in trash
       THEN /\ Become(p, [proc[p] EXCEPT !.pc =
                   IF proc[p].cur \in proc[p].found THEN "droptrash" ELSE "droplive"])
            /\ UNCHANGED lock
       ELSE Finish(p)
    /\ UNCHANGED <<files, database, used, faults>>

DropLive(p) ==
    /\ At(p, "droplive")
    /\ live' = live \ {proc[p].cur}
    /\ Become(p, [proc[p] EXCEPT !.pc = "droptrash"])
    /\ UNCHANGED <<database, trash, used, lock, faults>>

DropTrash(p) ==
    /\ At(p, "droptrash")
    /\ \/ trash' = trash \ {proc[p].cur} /\ UNCHANGED faults
       \/ Fault("storage") /\ UNCHANGED trash
    /\ Goto(p, "fix")
    /\ UNCHANGED <<database, live, used, lock>>

\* restore([item]): a rename locally; on S3 a copy, then the delete.
PutBack(p) ==
    /\ At(p, "putback")
    /\ IF proc[p].cur \notin trash
       THEN UNCHANGED files /\ Goto(p, "fix")
       ELSE /\ live' = live \cup {proc[p].cur}
            /\ IF Backend = "local"
               THEN trash' = trash \ {proc[p].cur} /\ Goto(p, "fix")
               ELSE UNCHANGED trash
                    /\ Become(p, [proc[p] EXCEPT !.pc = "putbackdelete"])
    /\ UNCHANGED <<database, used, lock, faults>>

PutBackDelete(p) ==
    /\ At(p, "putbackdelete")
    /\ trash' = trash \ {proc[p].cur}
    /\ Goto(p, "fix")
    /\ UNCHANGED <<database, live, used, lock, faults>>

\* Any other storage error leaves the rest of the list for a later run.
ReconcileFails(p) ==
    /\ proc[p].pc \in {"list", "fix", "readlive", "readtrash", "droplive", "putback", "putbackdelete"}
    /\ Fault("storage")
    /\ Finish(p)
    /\ UNCHANGED <<files, database, used>>

ReconcileDone(p) ==
    /\ At(p, "fix") /\ proc[p].todo = {}
    /\ IF proc[p].op = "purge"
       THEN Become(p, [proc[p] EXCEPT !.pc = "select", !.found = {}]) /\ UNCHANGED lock
       ELSE Finish(p)
    /\ UNCHANGED <<files, database, used, faults>>

\* The purge selects the expired notes and quarantines their attachments.
SelectExpired(p) ==
    LET expired == {n \in Notes : notes[n] = "expired"}
    IN  /\ At(p, "select")
        /\ IF lock = p
           THEN /\ Become(p, [proc[p] EXCEPT
                       !.pc = "quarantine", !.drop = expired,
                       !.target = KeysOf(expired), !.todo = KeysOf(expired)])
                /\ UNCHANGED lock
           ELSE Finish(p)
        /\ UNCHANGED <<files, database, used, faults>>

------------------------------------------------------------------------------
(* The environment: soft delete and undo of notes, time, lost connections    *)
(* and crashes.                                                              *)

DeleteNote(n) ==
    /\ notes[n] = "active" /\ ~NoteLocked(n)
    /\ notes' = [notes EXCEPT ![n] = "deleted"]
    /\ UNCHANGED <<files, rows, doubt, used, lock, proc, faults>>

\* Within the 15 seconds of the undo window.
UndeleteNote(n) ==
    /\ notes[n] = "deleted" /\ ~NoteLocked(n)
    /\ notes' = [notes EXCEPT ![n] = "active"]
    /\ UNCHANGED <<files, rows, doubt, used, lock, proc, faults>>

Expire(n) ==
    /\ notes[n] = "deleted"
    /\ notes' = [notes EXCEPT ![n] = "expired"]
    /\ UNCHANGED <<files, rows, doubt, used, lock, proc, faults>>

\* The server aborts a transaction whose client is gone; the client finds out
\* at its next database call.
LoseConnection(p) ==
    /\ lock = p /\ Fault("connection")
    /\ lock' = None
    /\ UNCHANGED <<files, database, used, proc>>

Crash(p) ==
    /\ ~At(p, "idle") /\ Fault("crash")
    /\ Finish(p)
    /\ UNCHANGED <<files, database, used>>

------------------------------------------------------------------------------
Request(p) ==
    \/ \E k \in Keys : Upload(p, k) \/ DeleteAttachment(p, k)
    \/ \E u \in Users : DeleteAccount(p, u)

Quarantining(p) ==
    \/ \E k \in Keys : QuarantineLocal(p, k) \/ QuarantineCopy(p, k) \/ Restore(p, k)
    \/ QuarantineDelete(p) \/ QuarantineDone(p) \/ QuarantineFails(p)
    \/ RestoreDelete(p) \/ RestoreEnds(p)

Committing(p) ==
    \/ CommitOK(p) \/ CommitFails(p) \/ CommitInDoubt(p) \/ RefreshRow(p)
    \/ \E k \in Keys : Discard(p, k)
    \/ DiscardDone(p)

Reconciling(p) ==
    \/ ListTrash(p) \/ QueryRows(p)
    \/ \E k \in Keys : InspectItem(p, k)
    \/ ReadLive(p) \/ ReadTrash(p) \/ DropLive(p) \/ DropTrash(p) \/ PutBack(p) \/ PutBackDelete(p)
    \/ ReconcileFails(p) \/ ReconcileDone(p) \/ SelectExpired(p)

Work(p) == Write(p) \/ Quarantining(p) \/ Committing(p) \/ Reconciling(p)

Environment ==
    \/ \E n \in Notes : DeleteNote(n) \/ UndeleteNote(n) \/ Expire(n)
    \/ \E p \in Procs : LoseConnection(p) \/ Crash(p)
    \/ ResolveDoubt

Next ==
    \/ \E p \in Handlers : Request(p)
    \/ PurgeDeleted
    \/ \E p \in Procs : Relock(p) \/ Work(p)
    \/ Environment

Spec == Init /\ [][Next]_vars

\* A running process takes its next step, PostgreSQL queues waiters for an
\* advisory lock first come first served and decides every commit, and the
\* CronJob starts the purge again and again.  Nothing makes a user act.
Fairness ==
    /\ \A p \in Procs : WF_vars(Work(p)) /\ SF_vars(Relock(p))
    /\ WF_vars(PurgeDeleted)
    /\ WF_vars(ResolveDoubt)

FairSpec == Spec /\ Fairness

------------------------------------------------------------------------------
PCs == {"idle", "write", "quarantine", "restore", "commit", "refresh", "discard",
        "relock", "list", "query", "fix", "readlive", "readtrash", "droplive", "droptrash", "putback",
        "putbackdelete", "select"}

Ops == {"none", "upload", "delete", "account", "purge", "reconcile"}

ProcState ==
    [pc : PCs, op : Ops, target : SUBSET Keys, drop : SUBSET Notes,
     todo : SUBSET Keys, moved : SUBSET Keys, found : SUBSET Keys,
     cur : Keys \cup {None}]

\* Every variable keeps its type.
TypeOK ==
    /\ rows \subseteq Keys /\ live \subseteq Keys /\ trash \subseteq Keys
    /\ used \subseteq Keys
    /\ notes \in [Notes -> {"active", "deleted", "expired", "gone"}]
    /\ lock \in Procs \cup {None, InDoubt}
    /\ doubt \in [op : Ops, target : SUBSET Keys, drop : SUBSET Notes]
    /\ proc \in [Procs -> ProcState]
    /\ faults \in Nat

\* The bytes of a committed attachment are never lost: they are at its key or
\* in quarantine, from which reconcile_quarantine restores them.  It is what
\* quarantine before commit and restore after rollback are for.
BytesSafe == rows \subseteq live \cup trash

\* No process moves or drops the files of a committed attachment without the
\* advisory lock.  The undo of an upload whose commit took place does, and so
\* does a request that goes on after its connection, and its lock, is lost.
Moving == {"quarantine", "restore", "fix", "readlive", "readtrash", "droplive",
           "droptrash", "putback", "putbackdelete"}

MovesUnderLock ==
    \A p \in Procs : proc[p].pc \in Moving =>
        \/ lock = p
        \/ proc[p].op = "upload" /\ proc[p].target \cap rows = {}

\* On the object store too, where a move is a copy and a delete, and with
\* connections, answers and processes lost, the lock is enough: a behaviour in
\* which files move under the lock never loses a committed attachment.
LockIsEnough == []MovesUnderLock => []BytesSafe

\* Someone answers for an object at its key: its row, the copy in quarantine
\* that the next reconcile compares it with, or the upload that stored it.
Kept(k) ==
    \/ k \in rows \cup trash
    \/ \E p \in Procs : /\ proc[p].op = "upload" /\ k \in proc[p].target
                        /\ proc[p].pc \in {"write", "commit", "refresh", "quarantine"}

\* No object escapes the bookkeeping, after which nothing would ever erase it,
\* but in the step in which its process dies or the store refuses to undo the
\* upload: neither a failed or doubtful commit nor a reconcile loses track.
NoLeak ==
    [][\A k \in Keys :
          k \in live /\ Kept(k) /\ (k \in live /\ ~Kept(k))' =>
              \E p \in Procs : Crash(p) \/ QuarantineFails(p)]_vars

\* Quarantine is transient: every item is restored, erased or discarded by the
\* request that put it there or by a later purge.
QuarantineDrains == \A k \in Keys : k \in trash ~> k \notin trash

\* A rolled-back deletion gives the attachment back, as long as files move under
\* the lock: it is downloadable again, unless a later deletion commits.
AttachmentReturns ==
    []MovesUnderLock =>
        \A k \in Keys : (k \in rows /\ k \notin live) ~> (k \in live \/ k \notin rows)

\* The refinement: a key is pending while a transaction can still attach it.
Pending(k) ==
    \/ \E p \in Procs : /\ proc[p].op = "upload" /\ k \in proc[p].target
                        /\ proc[p].pc \in {"write", "commit"}
    \/ doubt.op = "upload" /\ k \in doubt.target

Phase(k) ==
    CASE k \notin used -> "new"
      [] k \in rows    -> "attached"
      [] k \in used \ rows /\ Pending(k) -> "pending"
      [] OTHER -> "gone"

Contract == INSTANCE AttachmentContract WITH
                phase <- [k \in Keys |-> Phase(k)], bytes <- live \cup trash

\* Every step of the two-store protocol is a step of its contract.
KeepsContract == Contract!CSpec
=============================================================================
