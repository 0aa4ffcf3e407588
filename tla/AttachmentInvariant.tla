------------------------- MODULE AttachmentInvariant -------------------------
(***************************************************************************)
(* The inductive invariant behind BytesSafe for the local backend, where    *)
(* quarantine and restore are renames, when no connection is lost under a   *)
(* running process (faults of kind "connection"), and at the end the one     *)
(* behind LockIsEnough, for both backends and every failure.                 *)
(***************************************************************************)
EXTENDS AttachmentStore

Reconcile == {"list", "query", "fix", "droptrash", "putback", "select"}

\* p is in code that runs with the advisory lock held.
Critical(p) ==
    \/ proc[p].pc \in Reconcile \cup {"write", "commit"}
    \/ proc[p].pc \in {"quarantine", "restore"} /\ proc[p].op # "upload"

\* The key of an upload that may still commit.
Uploading(p) == proc[p].op = "upload" /\ proc[p].pc \in {"write", "commit"}

KeysAt(p) == proc[p].target \cup proc[p].todo \cup proc[p].moved \cup {proc[p].cur}

LockHeld == \A p \in Procs : Critical(p) => lock = p

\* A rename never leaves two copies.
OneCopy == live \cap trash = {}

\* Only generated keys occur anywhere.
OnlyUsed ==
    /\ rows \cup live \cup trash \subseteq used
    /\ \A p \in Procs : KeysAt(p) \subseteq used \cup {None}

\* The key of a running upload is nobody else's business yet.
UploadIsPrivate ==
    \A p \in Procs : Uploading(p) =>
        /\ proc[p].target \cap (rows \cup trash) = {}
        /\ proc[p].pc = "commit" => proc[p].target \subseteq live
        /\ \A q \in Procs \ {p} : proc[p].target \cap KeysAt(q) = {}

\* A transaction in doubt holds the lock; if it attaches a key (one upload has
\* no more), the bytes wait.
DoubtIsSafe ==
    /\ lock # InDoubt => doubt = NoTransaction
    /\ doubt.op = "upload" =>
          /\ \A a, b \in doubt.target : a = b
          /\ doubt.target \subseteq live \cup trash
          /\ \A q \in Procs : proc[q].pc = "discard" => doubt.target \cap proc[q].todo = {}

\* Per process: what each loop works on.
LoopsAreSafe ==
    \A p \in Procs :
        /\ proc[p].pc \in {"write", "refresh"} => proc[p].op = "upload"
        /\ proc[p].pc \notin {"droptrash", "putback"} => proc[p].cur = None
        /\ proc[p].pc \in {"droptrash", "putback"} => proc[p].cur \in Keys
        \* quarantine: a handler only moves keys its transaction deletes
        /\ proc[p].pc \in {"quarantine", "commit"} => proc[p].moved \subseteq proc[p].target
        /\ proc[p].pc = "quarantine" => proc[p].todo \subseteq proc[p].target
        /\ proc[p].pc \in {"select", "relock", "list", "query", "fix", "droptrash", "putback"} => proc[p].moved = {}
        \* the undo of an upload has one key: nothing to put back
        /\ proc[p].op = "upload" =>
              /\ \A a, b \in proc[p].target : a = b
              /\ proc[p].pc \in {"write", "commit", "refresh", "quarantine", "restore"}
        /\ proc[p].op = "upload" /\ proc[p].pc \in {"write", "commit", "refresh"} =>
              proc[p].moved = {}
        /\ proc[p].pc = "quarantine" /\ proc[p].op = "upload"
              /\ proc[p].todo # {} => proc[p].moved = {}
        /\ proc[p].pc = "restore" /\ proc[p].op = "upload" => proc[p].todo = {}
        \* what is discarded has no row
        /\ proc[p].pc = "discard" => proc[p].todo \cap rows = {}
        \* reconcile: items left have no object, and their rows are those found
        /\ proc[p].pc \in {"query", "fix", "droptrash", "putback"} =>
              proc[p].cur \notin proc[p].todo /\ proc[p].todo \cap live = {}
        /\ proc[p].pc \in {"fix", "droptrash", "putback"} =>
              proc[p].todo \cap rows \subseteq proc[p].found
        /\ proc[p].pc = "droptrash" => proc[p].cur \notin live \cup rows
        /\ proc[p].pc = "putback" => proc[p].cur \notin live
        /\ proc[p].pc \notin {"readlive", "readtrash", "droplive", "putbackdelete"}

IInv ==
    /\ TypeOK /\ BytesSafe /\ LockHeld /\ OneCopy /\ OnlyUsed
    /\ UploadIsPrivate /\ DoubtIsSafe /\ LoopsAreSafe

\* Who answers for the objects a process has to do with.  An upload whose commit
\* was answered leaves an object only if the row is there, and its undo only
\* what it has yet to move; a deletion has moved what it found, gives back only
\* what has a row, and so does reconcile.
Tracked(p) ==
    LET r == proc[p] IN
    /\ r.op = "upload" /\ r.pc = "refresh" => r.target \cap live \subseteq rows
    /\ r.op = "upload" /\ r.pc = "quarantine" => r.target \cap live \subseteq rows \cup r.todo
    /\ r.op # "upload" /\ r.pc \in {"quarantine", "restore", "commit"} => r.target \subseteq rows
    /\ r.op # "upload" /\ r.pc = "quarantine" => r.target \cap live \subseteq r.todo
    /\ r.op # "upload" /\ r.pc = "restore" => r.todo \subseteq r.target
    /\ r.op # "upload" /\ r.pc = "commit" => r.target \cap live = {}
    /\ r.pc \in {"relock", "list"} => r.found = {}
    /\ r.pc \in {"fix", "droptrash", "putback"} => r.found \subseteq rows
    /\ r.pc = "putback" => r.cur \in r.found

\* A deletion in doubt has moved what it found.
DoubtTracked == doubt.op # "upload" => doubt.target \cap live = {}

\* The strengthening of IInv behind NoLeak.
TrackedInv == IInv /\ DoubtTracked /\ \A p \in Procs : Tracked(p)

\* On a local disk reconcile never finds an object both at its key and in
\* quarantine: the "differs between storage and quarantine" errors, after which
\* no purge would get past that item, are never raised.
NeverConflicts ==
    \A p \in Procs : proc[p].pc \notin {"readlive", "readtrash", "droplive"}
------------------------------------------------------------------------------
(* Files that move under the lock: the invariant behind LockIsEnough.  Here a *)
(* move may stop between its copy and its delete, and any process may have    *)
(* lost the lock that it still works under.                                   *)

\* The keys whose bytes must survive: attached, or attached if the commit in
\* doubt turns out to have taken place.
Wanted(k) == k \in rows \/ (doubt.op = "upload" /\ k \in doubt.target)

\* p moves files and, as MovesUnderLock has it, may move those of k.
Touches(p, k) ==
    /\ proc[p].pc \in Moving
    /\ lock = p \/ (proc[p].op = "upload" /\ k \in proc[p].target \ rows)

BytesKept == \A k \in Keys : Wanted(k) => k \in live \cup trash

\* No two uploads have a key in common, and neither have one that may still commit
\* and one in doubt.
UploadsApart ==
    /\ \A p, q \in Procs : p # q /\ proc[p].op = "upload" /\ proc[q].op = "upload" =>
           proc[p].target \cap proc[q].target = {}
    /\ \A p \in Procs : Uploading(p) /\ doubt.op = "upload" =>
           proc[p].target \cap doubt.target = {}

\* A transaction in doubt holds the lock, and its upload has no row yet.
DoubtFits ==
    /\ lock # InDoubt => doubt = NoTransaction
    /\ doubt.op = "upload" => doubt.target \cap rows = {}

Inspecting == {"readlive", "readtrash", "droplive", "droptrash", "putback", "putbackdelete"}

\* Per process: what it has in hand between two calls.
LoopFits(p) ==
    LET r == proc[p] IN
    /\ r.pc \in {"write", "refresh"} => r.op = "upload"
    /\ r.op = "upload" =>
          /\ r.pc \in {"write", "commit", "refresh", "quarantine", "restore"}
          /\ lock = p => r.pc \in {"write", "commit"}
          /\ r.todo \cup r.moved \cup {r.cur} \subseteq r.target \cup {None}
    /\ r.pc \in {"quarantine", "commit"} => r.todo \cup r.moved \subseteq r.target
    /\ r.pc \in Inspecting \cup {"relock", "list", "query", "fix", "select"} => r.moved = {}
    /\ r.pc \in {"query", "fix", "select"} => r.cur = None
    \* what is discarded is not wanted any more
    /\ r.pc = "discard" => \A k \in r.todo : ~Wanted(k)
    \* between the copy and the delete the copy is there
    /\ r.pc = "quarantine" /\ r.cur # None /\ Wanted(r.cur) => r.cur \in trash
    /\ r.pc = "restore" /\ r.cur # None /\ Wanted(r.cur) => r.cur \in live
    \* reconcile knows the rows of what it has left, and drops no only copy
    /\ r.pc \in Inspecting \cup {"fix"} => rows \cap (r.todo \cup {r.cur}) \subseteq r.found
    /\ r.pc \in {"readtrash", "droptrash", "putbackdelete"} /\ r.cur \in rows => r.cur \in live
    /\ r.pc = "droplive" => r.cur \notin rows

LockInvariant ==
    /\ TypeOK /\ BytesKept /\ OnlyUsed /\ UploadIsPrivate /\ UploadsApart /\ DoubtFits
    /\ \A p \in Procs : LoopFits(p)
=============================================================================
