------------------------ MODULE AttachmentStore_proof ------------------------
(***************************************************************************)
(* Proofs about AttachmentStore: its types; for a local disk, the invariant   *)
(* behind BytesSafe, that the store then implements AttachmentContract, and   *)
(* what leaves an object behind; for both backends, that the lock is enough.  *)
(***************************************************************************)
EXTENDS AttachmentInvariant, TLAPS

------------------------------------------------------------------------------
(* A step replaces the record of one process.                                *)

\* The initial record is a process state.
LEMMA IdleTyped == Idle \in ProcState
BY DEF Idle, ProcState, PCs, Ops

\* So is a request's first record.
LEMMA BeginTyped ==
  ASSUME NEW op \in Ops, NEW pc \in PCs, NEW target \in SUBSET Keys,
         NEW drop \in SUBSET Notes, NEW todo \in SUBSET Keys
  PROVE  [Idle EXCEPT !.pc = pc, !.op = op, !.target = target,
                      !.drop = drop, !.todo = todo] \in ProcState
BY IdleTyped DEF ProcState

\* Replacing one record keeps proc a function into ProcState.
LEMMA BecomeTyped ==
  ASSUME TypeOK, NEW p \in Procs, NEW s \in ProcState, Become(p, s)
  PROVE  proc' \in [Procs -> ProcState]
BY DEF TypeOK, Become

\* The fields of a process state.
LEMMA FieldsTyped ==
  ASSUME TypeOK, NEW p \in Procs
  PROVE  /\ proc[p] \in ProcState
         /\ proc[p].pc \in PCs /\ proc[p].op \in Ops
         /\ proc[p].target \subseteq Keys /\ proc[p].drop \subseteq Notes
         /\ proc[p].todo \subseteq Keys /\ proc[p].moved \subseteq Keys
         /\ proc[p].found \subseteq Keys /\ proc[p].cur \in Keys \cup {None}
BY DEF TypeOK, ProcState

\* Goto changes the program counter and forgets the item in hand.
LEMMA GotoTyped ==
  ASSUME TypeOK, NEW p \in Procs, NEW pc \in PCs, Goto(p, pc)
  PROVE  proc' \in [Procs -> ProcState]
<1>1. [proc[p] EXCEPT !.pc = pc, !.cur = None] \in ProcState
  BY FieldsTyped DEF ProcState
<1>2. QED BY <1>1 DEF Goto, Become, TypeOK

\* Loop also sets the keys to go through.
LEMMA LoopTyped ==
  ASSUME TypeOK, NEW p \in Procs, NEW pc \in PCs, NEW keys \in SUBSET Keys,
         Loop(p, pc, keys)
  PROVE  proc' \in [Procs -> ProcState]
<1>1. [proc[p] EXCEPT !.pc = pc, !.cur = None, !.todo = keys] \in ProcState
  BY FieldsTyped DEF ProcState
<1>2. QED BY <1>1 DEF Loop, Become, TypeOK

\* try_reconcile_quarantine starts from a record of its own.
LEMMA TryReconcileTyped ==
  ASSUME TypeOK, NEW p \in Procs, TryReconcile(p)
  PROVE  proc' \in [Procs -> ProcState]
<1>1. [Idle EXCEPT !.pc = "relock", !.op = "reconcile"] \in ProcState
  BY IdleTyped DEF ProcState, PCs, Ops
<1>2. QED BY <1>1, BecomeTyped DEF TryReconcile

\* Finishing returns to the initial record and never takes the lock.
LEMMA FinishTyped ==
  ASSUME TypeOK, NEW p \in Procs, Finish(p)
  PROVE  proc' \in [Procs -> ProcState] /\ lock' \in {lock, None}
BY IdleTyped, BecomeTyped DEF Finish, Release

\* Applying a transaction keeps rows and notes well typed.
LEMMA ApplyTyped ==
  ASSUME TypeOK, NEW t \in [op : Ops, target : SUBSET Keys, drop : SUBSET Notes],
         Apply(t)
  PROVE  /\ rows' \subseteq Keys
         /\ notes' \in [Notes -> {"active", "deleted", "expired", "gone"}]
BY DEF TypeOK, Apply

\* What a commit in doubt keeps is a transaction.
LEMMA TransactionTyped ==
  ASSUME TypeOK, NEW p \in Procs
  PROVE  Transaction(p) \in [op : Ops, target : SUBSET Keys, drop : SUBSET Notes]
BY FieldsTyped DEF Transaction

\* The except clause starts a loop or a reconcile.
LEMMA AfterRollbackTyped ==
  ASSUME TypeOK, NEW p \in Procs, AfterRollback(p)
  PROVE  proc' \in [Procs -> ProcState]
BY FieldsTyped, LoopTyped, TryReconcileTyped, "quarantine" \in PCs DEF AfterRollback, PCs

\* A step of the protocol keeps every variable well typed.
LEMMA TypeStep == ASSUME TypeOK, [Next]_vars PROVE TypeOK'
<1> USE DEF files, database
<1>1. ASSUME NEW p \in Procs, NEW op \in Ops, NEW pc \in PCs,
             NEW target \in SUBSET Keys, NEW drop \in SUBSET Notes,
             NEW todo \in SUBSET Keys, Begin(p, op, pc, target, drop, todo),
             used' \in SUBSET Keys
      PROVE  TypeOK'
  <2>1. proc' \in [Procs -> ProcState]
    BY <1>1, BeginTyped, BecomeTyped DEF Begin
  <2> QED BY <1>1, <2>1 DEF Begin, TypeOK
<1>2. ASSUME NEW p \in Handlers, Request(p) PROVE TypeOK'
  <2>0. /\ p \in Procs /\ {"write", "quarantine"} \subseteq PCs
        /\ {"upload", "delete", "account"} \subseteq Ops
    BY DEF Procs, PCs, Ops
  <2>1. ASSUME NEW k \in Keys, Upload(p, k) PROVE TypeOK'
    <3>1. Begin(p, "upload", "write", {k}, {}, {}) /\ used' \in SUBSET Keys
      BY <2>1 DEF Upload, TypeOK
    <3> QED BY <1>1, <2>0, <3>1
  <2>2. ASSUME NEW k \in Keys, DeleteAttachment(p, k) PROVE TypeOK'
    <3>1. Begin(p, "delete", "quarantine", {k}, {}, {k}) /\ used' \in SUBSET Keys
      BY <2>2 DEF DeleteAttachment, TypeOK
    <3> QED BY <1>1, <2>0, <3>1
  <2>3. ASSUME NEW u \in Users, DeleteAccount(p, u) PROVE TypeOK'
    <3> DEFINE owned == {n \in Notes : OwnerOf[n] = u /\ notes[n] # "gone"}
    <3>1. /\ Begin(p, "account", "quarantine", KeysOf(owned), owned, KeysOf(owned))
          /\ used' \in SUBSET Keys
      BY <2>3 DEF DeleteAccount, TypeOK
    <3>2. owned \in SUBSET Notes /\ KeysOf(owned) \in SUBSET Keys
      BY DEF KeysOf, TypeOK
    <3> HIDE DEF owned
    <3> QED BY <1>1, <2>0, <3>1, <3>2
  <2> QED BY <1>2, <2>1, <2>2, <2>3 DEF Request
<1>3. CASE PurgeDeleted
  <2>0. Purger \in Procs /\ "list" \in PCs /\ "purge" \in Ops
    BY DEF Procs, PCs, Ops
  <2>1. Begin(Purger, "purge", "list", {}, {}, {}) /\ used' \in SUBSET Keys
    BY <1>3 DEF PurgeDeleted, TypeOK
  <2> QED BY <1>1, <2>0, <2>1
<1>4. ASSUME NEW p \in Procs, Relock(p) PROVE TypeOK'
  BY <1>4, GotoTyped DEF Relock, PCs, TypeOK
<1>5. ASSUME NEW p \in Procs, Write(p) PROVE TypeOK'
  <2>1. proc' \in [Procs -> ProcState]
    BY <1>5, GotoTyped, LoopTyped, FieldsTyped DEF Write, PCs
  <2> QED BY <1>5, <2>1, FieldsTyped DEF Write, Fault, Release, TypeOK
<1>6. ASSUME NEW p \in Procs, Quarantining(p) PROVE TypeOK'
  <2>0. {"quarantine", "restore", "relock", "commit"} \subseteq PCs
    BY DEF PCs
  <2>1. ASSUME NEW k \in Keys, QuarantineLocal(p, k) PROVE TypeOK'
    <3>1. /\ [proc[p] EXCEPT !.todo = @ \ {k}, !.moved = @ \cup {k}] \in ProcState
          /\ [proc[p] EXCEPT !.todo = @ \ {k}] \in ProcState
      BY FieldsTyped DEF ProcState
    <3>2. proc' \in [Procs -> ProcState]
      BY <2>1, <3>1, BecomeTyped DEF QuarantineLocal
    <3> QED BY <2>1, <3>2 DEF QuarantineLocal, TypeOK
  <2>2. ASSUME NEW k \in Keys, QuarantineCopy(p, k) PROVE TypeOK'
    <3>1. /\ [proc[p] EXCEPT !.todo = @ \ {k}, !.moved = @ \cup {k}, !.cur = k] \in ProcState
          /\ [proc[p] EXCEPT !.todo = @ \ {k}] \in ProcState
      BY FieldsTyped DEF ProcState
    <3>2. proc' \in [Procs -> ProcState]
      BY <2>2, <3>1, BecomeTyped DEF QuarantineCopy
    <3> QED BY <2>2, <3>2 DEF QuarantineCopy, TypeOK
  <2>3. ASSUME NEW k \in Keys, Restore(p, k) PROVE TypeOK'
    <3>1. /\ [proc[p] EXCEPT !.todo = @ \ {k}] \in ProcState
          /\ [proc[p] EXCEPT !.todo = @ \ {k},
                             !.cur = IF Backend = "local" THEN None ELSE k] \in ProcState
      BY FieldsTyped DEF ProcState
    <3>2. proc' \in [Procs -> ProcState]
      BY <2>3, <3>1, BecomeTyped DEF Restore
    <3> QED BY <2>3, <3>2 DEF Restore, TypeOK
  <2>4. CASE QuarantineDelete(p)
    BY <2>0, <2>4, GotoTyped DEF QuarantineDelete, TypeOK
  <2>5. CASE QuarantineDone(p)
    BY <2>0, <2>5, GotoTyped, TryReconcileTyped DEF QuarantineDone, TypeOK
  <2>6. CASE QuarantineFails(p)
    BY <2>0, <2>6, LoopTyped, FieldsTyped DEF QuarantineFails, Fault, TypeOK
  <2>7. CASE RestoreDelete(p)
    BY <2>0, <2>7, GotoTyped DEF RestoreDelete, TypeOK
  <2>8. CASE RestoreEnds(p)
    BY <2>8, FinishTyped, TryReconcileTyped DEF RestoreEnds, Fault, TypeOK
  <2> QED BY <1>6, <2>1, <2>2, <2>3, <2>4, <2>5, <2>6, <2>7, <2>8 DEF Quarantining
<1>7. ASSUME NEW p \in Procs, Committing(p) PROVE TypeOK'
  <2>0. {"refresh", "discard", "quarantine"} \subseteq PCs
    BY DEF PCs
  <2>1. CASE CommitOK(p)
    <3>1. proc' \in [Procs -> ProcState]
      BY <2>0, <2>1, GotoTyped, LoopTyped, FieldsTyped DEF CommitOK
    <3> QED BY <2>1, <3>1, ApplyTyped, TransactionTyped DEF CommitOK, TypeOK
  <2>2. CASE CommitFails(p)
    BY <2>2, AfterRollbackTyped DEF CommitFails, Fault, Release, TypeOK
  <2>3. CASE CommitInDoubt(p)
    BY <2>3, AfterRollbackTyped, TransactionTyped DEF CommitInDoubt, Fault, TypeOK
  <2>4. CASE RefreshRow(p)
    <3>1. proc' \in [Procs -> ProcState]
      BY <2>0, <2>4, LoopTyped, FieldsTyped, BecomeTyped, IdleTyped DEF RefreshRow
    <3> QED BY <2>4, <3>1 DEF RefreshRow, Fault, TypeOK
  <2>5. ASSUME NEW k \in Keys, Discard(p, k) PROVE TypeOK'
    <3>1. [proc[p] EXCEPT !.todo = @ \ {k}] \in ProcState
      BY FieldsTyped DEF ProcState
    <3>2. proc' \in [Procs -> ProcState]
      BY <2>5, <3>1, BecomeTyped DEF Discard
    <3> QED BY <2>5, <3>2 DEF Discard, Fault, TypeOK
  <2>6. CASE DiscardDone(p)
    BY <2>6, BecomeTyped, IdleTyped DEF DiscardDone, TypeOK
  <2> QED BY <1>7, <2>1, <2>2, <2>3, <2>4, <2>5, <2>6 DEF Committing
<1>8. ASSUME NEW p \in Procs, Reconciling(p) PROVE TypeOK'
  <2>0. {"fix", "query", "readlive", "putback", "droptrash", "readtrash",
         "droplive", "putbackdelete", "select", "quarantine"} \subseteq PCs
    BY DEF PCs
  <2>1. CASE ListTrash(p)
    BY <2>0, <2>1, LoopTyped DEF ListTrash, TypeOK
  <2>2. CASE QueryRows(p)
    <3>1. [proc[p] EXCEPT !.pc = "fix", !.found = proc[p].todo \cap rows] \in ProcState
      BY <2>0, FieldsTyped DEF ProcState
    <3> QED BY <2>2, <3>1, BecomeTyped, FinishTyped DEF QueryRows, TypeOK
  <2>3. ASSUME NEW k \in Keys, InspectItem(p, k) PROVE TypeOK'
    <3> DEFINE next == CASE k \in live -> "readlive"
                         [] k \notin live /\ k \in proc[p].found -> "putback"
                         [] OTHER -> "droptrash"
    <3>1. next \in PCs
      BY <2>0
    <3>2. Become(p, [proc[p] EXCEPT !.pc = next, !.cur = k, !.todo = @ \ {k}])
      BY <2>3 DEF InspectItem
    <3> HIDE DEF next
    <3>3. [proc[p] EXCEPT !.pc = next, !.cur = k, !.todo = @ \ {k}] \in ProcState
      BY <3>1, FieldsTyped DEF ProcState
    <3>4. proc' \in [Procs -> ProcState]
      BY <3>2, <3>3, BecomeTyped
    <3> QED BY <2>3, <3>4 DEF InspectItem, TypeOK
  <2>4. ASSUME NEW pc \in PCs, Become(p, [proc[p] EXCEPT !.pc = pc])
        PROVE  proc' \in [Procs -> ProcState]
    <3>1. [proc[p] EXCEPT !.pc = pc] \in ProcState
      BY FieldsTyped DEF ProcState
    <3> QED BY <2>4, <3>1 DEF Become, TypeOK
  <2>5. CASE ReadLive(p)
    BY <2>0, <2>4, <2>5, FinishTyped DEF ReadLive, TypeOK
  <2>6. CASE ReadTrash(p)
    <3> DEFINE next == IF proc[p].cur \in proc[p].found THEN "droptrash" ELSE "droplive"
    <3>1. next \in PCs
      BY <2>0
    <3>2. Become(p, [proc[p] EXCEPT !.pc = next]) \/ Finish(p)
      BY <2>6 DEF ReadTrash
    <3>3. ReadTrash(p) => lock' = lock \/ Finish(p)
      BY DEF ReadTrash
    <3> HIDE DEF next
    <3>4. proc' \in [Procs -> ProcState]
      BY <2>4, <3>1, <3>2, FinishTyped
    <3> QED BY <2>6, <3>3, <3>4, FinishTyped DEF ReadTrash, TypeOK
  <2>7. CASE DropLive(p)
    BY <2>0, <2>4, <2>7 DEF DropLive, TypeOK
  <2>8. CASE DropTrash(p)
    BY <2>0, <2>8, GotoTyped DEF DropTrash, Fault, TypeOK
  <2>9. CASE PutBack(p)
    <3>1. proc' \in [Procs -> ProcState]
      BY <2>0, <2>4, <2>9, GotoTyped DEF PutBack
    <3> QED BY <2>9, <3>1, FieldsTyped DEF PutBack, At, TypeOK
  <2>10. CASE PutBackDelete(p)
    BY <2>0, <2>10, GotoTyped DEF PutBackDelete, TypeOK
  <2>11. CASE ReconcileFails(p)
    BY <2>11, FinishTyped DEF ReconcileFails, Fault, TypeOK
  <2>12. CASE ReconcileDone(p)
    <3>1. [proc[p] EXCEPT !.pc = "select", !.found = {}] \in ProcState
      BY <2>0, FieldsTyped DEF ProcState
    <3> QED BY <2>12, <3>1, BecomeTyped, FinishTyped DEF ReconcileDone, TypeOK
  <2>13. CASE SelectExpired(p)
    <3> DEFINE expired == {n \in Notes : notes[n] = "expired"}
               s == [proc[p] EXCEPT !.pc = "quarantine", !.drop = expired,
                        !.target = KeysOf(expired), !.todo = KeysOf(expired)]
    <3>1. expired \subseteq Notes /\ KeysOf(expired) \subseteq Keys
      BY DEF KeysOf, TypeOK
    <3>2. (Become(p, s) /\ lock' = lock) \/ Finish(p)
      BY <2>13 DEF SelectExpired
    <3> HIDE DEF expired
    <3>3. s \in ProcState
      BY <2>0, <3>1, FieldsTyped DEF ProcState
    <3> HIDE DEF s
    <3>4. proc' \in [Procs -> ProcState] /\ lock' \in {lock, None}
      BY <3>2, <3>3, BecomeTyped, FinishTyped
    <3> QED BY <2>13, <3>4 DEF SelectExpired, TypeOK
  <2> QED BY <1>8, <2>1, <2>2, <2>3, <2>5, <2>6, <2>7, <2>8, <2>9, <2>10, <2>11,
             <2>12, <2>13 DEF Reconciling
<1>9. CASE Environment
  <2>1. ASSUME NEW n \in Notes, DeleteNote(n) \/ UndeleteNote(n) \/ Expire(n) PROVE TypeOK'
    BY <2>1 DEF DeleteNote, UndeleteNote, Expire, TypeOK
  <2>2. ASSUME NEW p \in Procs, LoseConnection(p) PROVE TypeOK'
    BY <2>2 DEF LoseConnection, Fault, TypeOK
  <2>3. ASSUME NEW p \in Procs, Crash(p) PROVE TypeOK'
    BY <2>3, FinishTyped DEF Crash, Fault, TypeOK
  <2>4. CASE ResolveDoubt
    <3>1. NoTransaction \in [op : Ops, target : SUBSET Keys, drop : SUBSET Notes]
      BY DEF NoTransaction, Ops
    <3>2. doubt \in [op : Ops, target : SUBSET Keys, drop : SUBSET Notes]
      BY DEF TypeOK
    <3> QED BY <2>4, <3>1, <3>2, ApplyTyped DEF ResolveDoubt, TypeOK
  <2> QED BY <1>9, <2>1, <2>2, <2>3, <2>4 DEF Environment
<1>10. CASE UNCHANGED vars
  BY <1>10 DEF vars, TypeOK
<1> QED BY <1>2, <1>3, <1>4, <1>5, <1>6, <1>7, <1>8, <1>9, <1>10 DEF Next, Work

\* Every reachable state is well typed, whatever the backend and the faults.
THEOREM TypeCorrect == Spec => []TypeOK
<1>1. Init => TypeOK
  <2>1. NoTransaction \in [op : Ops, target : SUBSET Keys, drop : SUBSET Notes]
    BY DEF NoTransaction, Ops
  <2> QED BY <2>1, IdleTyped DEF Init, TypeOK
<1>2. TypeOK /\ [Next]_vars => TypeOK'
  BY TypeStep
<1>3. QED BY <1>1, <1>2, PTL DEF Spec

------------------------------------------------------------------------------
(* The fields of the new record, for the steps that change several.          *)

\* What Goto and Loop leave alone.
SameRequest(t, s) ==
    /\ t.op = s.op /\ t.target = s.target /\ t.drop = s.drop
    /\ t.moved = s.moved /\ t.found = s.found

\* No other process changes.
OthersSame(p) == \A q \in Procs \ {p} : proc'[q] = proc[q]

\* Become replaces exactly one record.
LEMMA BecomeFields ==
  ASSUME TypeOK, NEW p \in Procs, NEW s, Become(p, s)
  PROVE  proc'[p] = s /\ OthersSame(p)
BY DEF TypeOK, Become, OthersSame

\* Goto, field by field.
LEMMA GotoFields ==
  ASSUME TypeOK, NEW p \in Procs, NEW pc, Goto(p, pc)
  PROVE  /\ proc'[p].pc = pc /\ proc'[p].cur = None /\ proc'[p].todo = proc[p].todo
         /\ SameRequest(proc'[p], proc[p]) /\ OthersSame(p)
<1> DEFINE t == [proc[p] EXCEPT !.pc = pc, !.cur = None]
<1>1. t.pc = pc /\ t.cur = None /\ t.todo = proc[p].todo /\ SameRequest(t, proc[p])
  BY FieldsTyped DEF ProcState, SameRequest
<1>2. proc'[p] = t /\ OthersSame(p)
  BY BecomeFields DEF Goto
<1>3. QED BY <1>1, <1>2

\* Loop, field by field.
LEMMA LoopFields ==
  ASSUME TypeOK, NEW p \in Procs, NEW pc, NEW keys, Loop(p, pc, keys)
  PROVE  /\ proc'[p].pc = pc /\ proc'[p].cur = None /\ proc'[p].todo = keys
         /\ SameRequest(proc'[p], proc[p]) /\ OthersSame(p)
<1> DEFINE t == [proc[p] EXCEPT !.pc = pc, !.cur = None, !.todo = keys]
<1>1. t.pc = pc /\ t.cur = None /\ t.todo = keys /\ SameRequest(t, proc[p])
  BY FieldsTyped DEF ProcState, SameRequest
<1>2. proc'[p] = t /\ OthersSame(p)
  BY BecomeFields DEF Loop
<1>3. QED BY <1>1, <1>2

\* try_reconcile_quarantine starts with nothing in hand.
LEMMA TryReconcileFields ==
  ASSUME TypeOK, NEW p \in Procs, TryReconcile(p)
  PROVE  /\ proc'[p].pc = "relock" /\ proc'[p].op = "reconcile"
         /\ proc'[p].target = {} /\ proc'[p].todo = {} /\ proc'[p].moved = {}
         /\ proc'[p].cur = None /\ OthersSame(p)
<1> DEFINE t == [Idle EXCEPT !.pc = "relock", !.op = "reconcile"]
<1>1. /\ t.pc = "relock" /\ t.op = "reconcile" /\ t.target = {} /\ t.todo = {}
      /\ t.moved = {} /\ t.cur = None
  BY DEF Idle
<1>2. proc'[p] = t /\ OthersSame(p)
  BY BecomeFields DEF TryReconcile
<1>3. QED BY <1>1, <1>2

\* A request's first record, field by field.
LEMMA BeginFields ==
  ASSUME TypeOK, NEW p \in Procs, NEW op, NEW pc, NEW target, NEW drop, NEW todo,
         Begin(p, op, pc, target, drop, todo)
  PROVE  /\ proc'[p].pc = pc /\ proc'[p].op = op /\ proc'[p].target = target
         /\ proc'[p].todo = todo /\ proc'[p].moved = {} /\ proc'[p].cur = None
         /\ OthersSame(p)
<1> DEFINE t == [Idle EXCEPT !.pc = pc, !.op = op, !.target = target,
                             !.drop = drop, !.todo = todo]
<1>1. /\ t.pc = pc /\ t.op = op /\ t.target = target /\ t.todo = todo
      /\ t.moved = {} /\ t.cur = None
  BY DEF Idle
<1>2. proc'[p] = t /\ OthersSame(p)
  BY BecomeFields DEF Begin
<1>3. QED BY <1>1, <1>2

\* A process that ends, by itself or in a crash, with its lock released.
LEMMA StopKeeps ==
  ASSUME IInv, TypeOK', Backend = "local", NEW p \in Procs,
         Become(p, Idle), rows' = rows, live' = live, trash' = trash, used' = used,
         doubt' = doubt, lock' = lock \/ (lock = p /\ lock' = None)
  PROVE  IInv'
<1>0. TypeOK
  BY DEF IInv
<1>1. /\ proc'[p].pc = "idle" /\ proc'[p].op = "none" /\ proc'[p].target = {}
      /\ proc'[p].todo = {} /\ proc'[p].moved = {} /\ proc'[p].cur = None
      /\ OthersSame(p)
  BY <1>0, BecomeFields DEF Idle
<1>2. rows' = rows /\ live' = live /\ trash' = trash /\ used' = used /\ doubt' = doubt
  OBVIOUS
<1> USE <1>0, <1>1, <1>2, FieldsTyped, FreshAssumption DEF SameRequest, OthersSame, IInv
<1>bytes. BytesSafe'
  BY DEF BytesSafe
<1>lock. LockHeld'
  BY DEF LockHeld, Critical, Reconcile
<1>copy. OneCopy'
  BY DEF OneCopy
<1>used. OnlyUsed'
  BY DEF OnlyUsed, KeysAt
<1>upload. UploadIsPrivate'
  BY DEF UploadIsPrivate, Uploading, KeysAt
<1>doubt. DoubtIsSafe'
  BY DEF DoubtIsSafe
<1>loops. LoopsAreSafe'
  BY DEF LoopsAreSafe
<1> QED BY <1>bytes, <1>lock, <1>copy, <1>used, <1>upload, <1>doubt, <1>loops

\* A process that goes to reconcile, its lock released or not yet held.
LEMMA TryReconcileKeeps ==
  ASSUME IInv, TypeOK', Backend = "local", NEW p \in Procs,
         TryReconcile(p), rows' = rows, live' = live, trash' = trash, used' = used,
         doubt' = doubt, lock' = lock \/ (lock = p /\ lock' = None)
  PROVE  IInv'
<1>0. TypeOK
  BY DEF IInv
<1>1. /\ proc'[p].pc = "relock" /\ proc'[p].op = "reconcile" /\ proc'[p].target = {}
      /\ proc'[p].todo = {} /\ proc'[p].moved = {} /\ proc'[p].cur = None
      /\ OthersSame(p)
  BY <1>0, TryReconcileFields
<1>2. rows' = rows /\ live' = live /\ trash' = trash /\ used' = used /\ doubt' = doubt
  OBVIOUS
<1> USE <1>0, <1>1, <1>2, FieldsTyped, FreshAssumption DEF SameRequest, OthersSame, IInv
<1>bytes. BytesSafe'
  BY DEF BytesSafe
<1>lock. LockHeld'
  BY DEF LockHeld, Critical, Reconcile
<1>copy. OneCopy'
  BY DEF OneCopy
<1>used. OnlyUsed'
  BY DEF OnlyUsed, KeysAt
<1>upload. UploadIsPrivate'
  BY DEF UploadIsPrivate, Uploading, KeysAt
<1>doubt. DoubtIsSafe'
  BY DEF DoubtIsSafe
<1>loops. LoopsAreSafe'
  BY DEF LoopsAreSafe
<1> QED BY <1>bytes, <1>lock, <1>copy, <1>used, <1>upload, <1>doubt, <1>loops

\* An upload whose transaction ended goes to quarantine its object.
LEMMA UndoKeeps ==
  ASSUME IInv, TypeOK', Backend = "local", NEW p \in Procs,
         proc[p].op = "upload", proc[p].pc \in {"write", "commit", "refresh"},
         Loop(p, "quarantine", proc[p].target), rows' = rows, live' = live, trash' = trash,
         used' = used, doubt' = doubt, lock' = lock \/ (lock = p /\ lock' = None)
  PROVE  IInv'
<1>0. TypeOK
  BY DEF IInv
<1>1. /\ proc'[p].pc = "quarantine" /\ proc'[p].cur = None /\ proc'[p].todo = proc[p].target
      /\ SameRequest(proc'[p], proc[p]) /\ OthersSame(p)
  BY <1>0, LoopFields
<1>2. rows' = rows /\ live' = live /\ trash' = trash /\ used' = used /\ doubt' = doubt
  OBVIOUS
<1> USE <1>0, <1>1, <1>2, FieldsTyped, FreshAssumption DEF SameRequest, OthersSame, IInv
<1>bytes. BytesSafe'
  BY DEF BytesSafe
<1>lock. LockHeld'
  BY DEF LockHeld, Critical, Reconcile
<1>copy. OneCopy'
  BY DEF OneCopy
<1>used. OnlyUsed'
  BY DEF OnlyUsed, KeysAt
<1>upload. UploadIsPrivate'
  BY DEF UploadIsPrivate, Uploading, KeysAt
<1>doubt. DoubtIsSafe'
  BY DEF DoubtIsSafe
<1>loops. LoopsAreSafe'
  BY DEF LoopsAreSafe
<1> QED BY <1>bytes, <1>lock, <1>copy, <1>used, <1>upload, <1>doubt, <1>loops

\* A new upload has a key nobody has seen.
LEMMA UploadKeeps ==
  ASSUME IInv, TypeOK', Backend = "local", NEW p \in Procs, NEW k \in Keys,
         Upload(p, k)
  PROVE  IInv'
<1>0. TypeOK
  BY DEF IInv
<1>1. /\ proc'[p].pc = "write" /\ proc'[p].op = "upload" /\ proc'[p].target = {k}
      /\ proc'[p].todo = {} /\ proc'[p].moved = {} /\ proc'[p].cur = None
      /\ OthersSame(p)
  BY <1>0, BeginFields DEF Upload
<1>2. /\ rows' = rows /\ live' = live /\ trash' = trash /\ doubt' = doubt
      /\ used' = used \cup {k} /\ k \notin used /\ lock = None /\ lock' = p
  BY DEF Upload, Begin, files, database
<1> USE <1>0, <1>1, <1>2, FieldsTyped, FreshAssumption DEF SameRequest, OthersSame, IInv
<1>bytes. BytesSafe'
  BY DEF BytesSafe
<1>lock. LockHeld'
  BY DEF LockHeld, Critical, Reconcile
<1>copy. OneCopy'
  BY DEF OneCopy
<1>used. OnlyUsed'
  BY DEF OnlyUsed, KeysAt
<1>upload. UploadIsPrivate'
  BY DEF UploadIsPrivate, Uploading, KeysAt, OnlyUsed
<1>doubt. DoubtIsSafe'
  BY DEF DoubtIsSafe
<1>loops. LoopsAreSafe'
  BY DEF LoopsAreSafe
<1> QED BY <1>bytes, <1>lock, <1>copy, <1>used, <1>upload, <1>doubt, <1>loops

\* A deletion, of an attachment or an account, starts to quarantine rows it read.
LEMMA DeleteBeginKeeps ==
  ASSUME IInv, TypeOK', Backend = "local", NEW p \in Procs,
         NEW op \in {"delete", "account"}, NEW target \in SUBSET rows, NEW drop,
         Begin(p, op, "quarantine", target, drop, target), used' = used
  PROVE  IInv'
<1>0. TypeOK
  BY DEF IInv
<1>1. /\ proc'[p].pc = "quarantine" /\ proc'[p].op = op /\ proc'[p].target = target
      /\ proc'[p].todo = target /\ proc'[p].moved = {} /\ proc'[p].cur = None
      /\ OthersSame(p)
  BY <1>0, BeginFields
<1>2. rows' = rows /\ live' = live /\ trash' = trash /\ used' = used /\ doubt' = doubt
      /\ lock = None /\ lock' = p
  BY DEF Begin, files, database
<1> USE <1>0, <1>1, <1>2, FieldsTyped, FreshAssumption DEF SameRequest, OthersSame, IInv
<1>bytes. BytesSafe'
  BY DEF BytesSafe
<1>lock. LockHeld'
  BY DEF LockHeld, Critical, Reconcile
<1>copy. OneCopy'
  BY DEF OneCopy
<1>used. OnlyUsed'
  BY DEF OnlyUsed, KeysAt
<1>upload. UploadIsPrivate'
  BY DEF UploadIsPrivate, Uploading, KeysAt
<1>doubt. DoubtIsSafe'
  BY DEF DoubtIsSafe
<1>loops. LoopsAreSafe'
  BY DEF LoopsAreSafe
<1> QED BY <1>bytes, <1>lock, <1>copy, <1>used, <1>upload, <1>doubt, <1>loops

\* The purge starts by listing the quarantine.
LEMMA PurgeKeeps ==
  ASSUME IInv, TypeOK', Backend = "local", PurgeDeleted, NEW p \in Procs, p = Purger
  PROVE  IInv'
<1>0. TypeOK
  BY DEF IInv
<1>1. /\ proc'[p].pc = "list" /\ proc'[p].op = "purge" /\ proc'[p].target = {}
      /\ proc'[p].todo = {} /\ proc'[p].moved = {} /\ proc'[p].cur = None
      /\ OthersSame(p)
  BY <1>0, BeginFields DEF PurgeDeleted
<1>2. rows' = rows /\ live' = live /\ trash' = trash /\ used' = used /\ doubt' = doubt
      /\ lock = None /\ lock' = p
  BY DEF PurgeDeleted, Begin, files, database
<1> USE <1>0, <1>1, <1>2, FieldsTyped, FreshAssumption DEF SameRequest, OthersSame, IInv
<1>bytes. BytesSafe'
  BY DEF BytesSafe
<1>lock. LockHeld'
  BY DEF LockHeld, Critical, Reconcile
<1>copy. OneCopy'
  BY DEF OneCopy
<1>used. OnlyUsed'
  BY DEF OnlyUsed, KeysAt
<1>upload. UploadIsPrivate'
  BY DEF UploadIsPrivate, Uploading, KeysAt
<1>doubt. DoubtIsSafe'
  BY DEF DoubtIsSafe
<1>loops. LoopsAreSafe'
  BY DEF LoopsAreSafe
<1> QED BY <1>bytes, <1>lock, <1>copy, <1>used, <1>upload, <1>doubt, <1>loops

\* The object of an upload is written.
LEMMA WriteKeeps ==
  ASSUME IInv, TypeOK', Backend = "local", NEW p \in Procs,
         proc[p].pc = "write", live' = live \cup proc[p].target, Goto(p, "commit"),
         rows' = rows, trash' = trash, used' = used, doubt' = doubt, lock' = lock
  PROVE  IInv'
<1>0. TypeOK
  BY DEF IInv
<1>1. /\ proc'[p].pc = "commit" /\ proc'[p].cur = None /\ proc'[p].todo = proc[p].todo
      /\ SameRequest(proc'[p], proc[p]) /\ OthersSame(p)
  BY <1>0, GotoFields
<1>2. proc[p].op = "upload" /\ lock = p
  BY DEF IInv, LoopsAreSafe, LockHeld, Critical, Reconcile
<1> USE <1>0, <1>1, <1>2, FieldsTyped, FreshAssumption DEF SameRequest, OthersSame, IInv
<1>bytes. BytesSafe'
  BY DEF BytesSafe
<1>lock. LockHeld'
  BY DEF LockHeld, Critical, Reconcile
<1>copy. OneCopy'
  BY DEF OneCopy, UploadIsPrivate, Uploading
<1>used. OnlyUsed'
  BY DEF OnlyUsed, KeysAt
<1>upload. UploadIsPrivate'
  BY DEF UploadIsPrivate, Uploading, KeysAt
<1>doubt. DoubtIsSafe'
  BY DEF DoubtIsSafe
<1>loops. LoopsAreSafe'
  BY DEF LoopsAreSafe, LockHeld, Critical, Reconcile
<1> QED BY <1>bytes, <1>lock, <1>copy, <1>used, <1>upload, <1>doubt, <1>loops

\* quarantine renames an object into the trash.
LEMMA MoveKeeps ==
  ASSUME IInv, TypeOK', Backend = "local", NEW p \in Procs, NEW k \in Keys,
         QuarantineLocal(p, k), k \in live
  PROVE  IInv'
<1>0. TypeOK
  BY DEF IInv
<1> DEFINE t == [proc[p] EXCEPT !.todo = @ \ {k}, !.moved = @ \cup {k}]
<1>1. /\ t.pc = proc[p].pc /\ t.op = proc[p].op /\ t.target = proc[p].target
      /\ t.cur = proc[p].cur /\ t.todo = proc[p].todo \ {k}
      /\ t.moved = proc[p].moved \cup {k}
  BY <1>0, FieldsTyped DEF ProcState, SameRequest
<1>2. proc'[p] = t /\ OthersSame(p)
  BY <1>0, BecomeFields DEF QuarantineLocal
<1>3. /\ proc'[p].pc = proc[p].pc /\ proc'[p].op = proc[p].op /\ proc'[p].target = proc[p].target
      /\ proc'[p].cur = proc[p].cur /\ proc'[p].todo = proc[p].todo \ {k}
      /\ proc'[p].moved = proc[p].moved \cup {k}
  BY <1>1, <1>2
<1> HIDE DEF t
<1>4. /\ proc[p].pc = "quarantine" /\ k \in proc[p].todo
      /\ rows' = rows /\ live' = live \ {k} /\ trash' = trash \cup {k}
      /\ used' = used /\ doubt' = doubt /\ lock' = lock
  BY DEF QuarantineLocal, At, database
<1> USE <1>0, <1>2, <1>3, <1>4, FieldsTyped, FreshAssumption DEF SameRequest, OthersSame, IInv
<1>bytes. BytesSafe'
  BY DEF BytesSafe
<1>lock. LockHeld'
  BY DEF LockHeld, Critical, Reconcile
<1>copy. OneCopy'
  BY DEF OneCopy
<1>used. OnlyUsed'
  BY DEF OnlyUsed, KeysAt
<1>upload. UploadIsPrivate'
  BY DEF UploadIsPrivate, Uploading, KeysAt
<1>doubt. DoubtIsSafe'
  BY DEF DoubtIsSafe
<1>loops. LoopsAreSafe'
  BY DEF LoopsAreSafe
<1> QED BY <1>bytes, <1>lock, <1>copy, <1>used, <1>upload, <1>doubt, <1>loops

\* A loop passes over a key.
LEMMA SkipKeeps ==
  ASSUME IInv, TypeOK', Backend = "local", NEW p \in Procs, NEW k \in Keys,
         proc[p].pc \in {"quarantine", "discard", "restore"},
         Become(p, [proc[p] EXCEPT !.todo = @ \ {k}]),
         rows' = rows, live' = live, trash' = trash, used' = used, doubt' = doubt,
         lock' = lock
  PROVE  IInv'
<1>0. TypeOK
  BY DEF IInv
<1> DEFINE t == [proc[p] EXCEPT !.todo = @ \ {k}]
<1>1. /\ t.pc = proc[p].pc /\ t.op = proc[p].op /\ t.target = proc[p].target
      /\ t.cur = proc[p].cur /\ t.todo = proc[p].todo \ {k}
      /\ t.moved = proc[p].moved
  BY <1>0, FieldsTyped DEF ProcState, SameRequest
<1>2. proc'[p] = t /\ OthersSame(p)
  BY <1>0, BecomeFields
<1>3. /\ proc'[p].pc = proc[p].pc /\ proc'[p].op = proc[p].op /\ proc'[p].target = proc[p].target
      /\ proc'[p].cur = proc[p].cur /\ proc'[p].todo = proc[p].todo \ {k}
      /\ proc'[p].moved = proc[p].moved
  BY <1>1, <1>2
<1> HIDE DEF t
<1>4. proc[p].pc \notin {"write", "commit", "refresh"}
  OBVIOUS
<1> USE <1>0, <1>2, <1>3, <1>4, FieldsTyped, FreshAssumption DEF SameRequest, OthersSame, IInv
<1>bytes. BytesSafe'
  BY DEF BytesSafe
<1>lock. LockHeld'
  BY DEF LockHeld, Critical, Reconcile
<1>copy. OneCopy'
  BY DEF OneCopy
<1>used. OnlyUsed'
  BY DEF OnlyUsed, KeysAt
<1>upload. UploadIsPrivate'
  BY DEF UploadIsPrivate, Uploading, KeysAt
<1>doubt. DoubtIsSafe'
  BY DEF DoubtIsSafe
<1>loops. LoopsAreSafe'
  BY DEF LoopsAreSafe
<1> QED BY <1>bytes, <1>lock, <1>copy, <1>used, <1>upload, <1>doubt, <1>loops

\* discard removes a quarantined object nobody can attach any more.
LEMMA DiscardKeeps ==
  ASSUME IInv, TypeOK', Backend = "local", NEW p \in Procs, NEW k \in Keys,
         Discard(p, k), trash' = trash \ {k}
  PROVE  IInv'
<1>0. TypeOK
  BY DEF IInv
<1> DEFINE t == [proc[p] EXCEPT !.todo = @ \ {k}]
<1>1. /\ t.pc = proc[p].pc /\ t.op = proc[p].op /\ t.target = proc[p].target
      /\ t.cur = proc[p].cur /\ t.todo = proc[p].todo \ {k}
      /\ t.moved = proc[p].moved
  BY <1>0, FieldsTyped DEF ProcState, SameRequest
<1>2. proc'[p] = t /\ OthersSame(p)
  BY <1>0, BecomeFields DEF Discard
<1>3. /\ proc'[p].pc = proc[p].pc /\ proc'[p].op = proc[p].op /\ proc'[p].target = proc[p].target
      /\ proc'[p].cur = proc[p].cur /\ proc'[p].todo = proc[p].todo \ {k}
      /\ proc'[p].moved = proc[p].moved
  BY <1>1, <1>2
<1> HIDE DEF t
<1>4. /\ proc[p].pc = "discard" /\ k \in proc[p].todo
      /\ rows' = rows /\ live' = live /\ used' = used /\ doubt' = doubt /\ lock' = lock
  BY DEF Discard, At, database
<1> USE <1>0, <1>2, <1>3, <1>4, FieldsTyped, FreshAssumption DEF SameRequest, OthersSame, IInv
<1>bytes. BytesSafe'
  BY DEF BytesSafe, LoopsAreSafe
<1>lock. LockHeld'
  BY DEF LockHeld, Critical, Reconcile
<1>copy. OneCopy'
  BY DEF OneCopy
<1>used. OnlyUsed'
  BY DEF OnlyUsed, KeysAt
<1>upload. UploadIsPrivate'
  BY DEF UploadIsPrivate, Uploading, KeysAt
<1>doubt. DoubtIsSafe'
  BY DEF DoubtIsSafe
<1>loops. LoopsAreSafe'
  BY DEF LoopsAreSafe
<1> QED BY <1>bytes, <1>lock, <1>copy, <1>used, <1>upload, <1>doubt, <1>loops

\* restore renames a quarantined object back.
LEMMA RestoreKeeps ==
  ASSUME IInv, TypeOK', Backend = "local", NEW p \in Procs, NEW k \in Keys,
         Restore(p, k), k \in trash
  PROVE  IInv'
<1>0. TypeOK
  BY DEF IInv
<1> DEFINE t == [proc[p] EXCEPT !.todo = @ \ {k}, !.cur = None]
<1>1. /\ t.pc = proc[p].pc /\ t.op = proc[p].op /\ t.target = proc[p].target
      /\ t.cur = None /\ t.todo = proc[p].todo \ {k}
      /\ t.moved = proc[p].moved
  BY <1>0, FieldsTyped DEF ProcState, SameRequest
<1>2. proc'[p] = t /\ OthersSame(p)
  BY <1>0, BecomeFields DEF Restore
<1>3. /\ proc'[p].pc = proc[p].pc /\ proc'[p].op = proc[p].op /\ proc'[p].target = proc[p].target
      /\ proc'[p].cur = None /\ proc'[p].todo = proc[p].todo \ {k}
      /\ proc'[p].moved = proc[p].moved
  BY <1>1, <1>2
<1> HIDE DEF t
<1>4. /\ proc[p].pc = "restore" /\ k \in proc[p].todo
      /\ rows' = rows /\ live' = live \cup {k} /\ trash' = trash \ {k}
      /\ used' = used /\ doubt' = doubt /\ lock' = lock
  BY DEF Restore, At, database
<1> USE <1>0, <1>2, <1>3, <1>4, FieldsTyped, FreshAssumption DEF SameRequest, OthersSame, IInv
<1>bytes. BytesSafe'
  BY DEF BytesSafe
<1>lock. LockHeld'
  BY DEF LockHeld, Critical, Reconcile
<1>copy. OneCopy'
  BY DEF OneCopy
<1>used. OnlyUsed'
  BY DEF OnlyUsed, KeysAt
<1>upload. UploadIsPrivate'
  BY DEF UploadIsPrivate, Uploading, KeysAt
<1>doubt. DoubtIsSafe'
  BY DEF DoubtIsSafe
<1>loops. LoopsAreSafe'
  BY DEF LoopsAreSafe, LockHeld, Critical, Reconcile
<1> QED BY <1>bytes, <1>lock, <1>copy, <1>used, <1>upload, <1>doubt, <1>loops

\* The quarantine loop of a deletion is done.
LEMMA GotoCommitKeeps ==
  ASSUME IInv, TypeOK', Backend = "local", NEW p \in Procs,
         proc[p].pc = "quarantine", proc[p].op # "upload", Goto(p, "commit"),
         rows' = rows, live' = live, trash' = trash, used' = used, doubt' = doubt,
         lock' = lock
  PROVE  IInv'
<1>0. TypeOK
  BY DEF IInv
<1>1. /\ proc'[p].pc = "commit" /\ proc'[p].cur = None /\ proc'[p].todo = proc[p].todo
      /\ SameRequest(proc'[p], proc[p]) /\ OthersSame(p)
  BY <1>0, GotoFields
<1> USE <1>0, <1>1, FieldsTyped, FreshAssumption DEF SameRequest, OthersSame, IInv
<1>bytes. BytesSafe'
  BY DEF BytesSafe
<1>lock. LockHeld'
  BY DEF LockHeld, Critical, Reconcile
<1>copy. OneCopy'
  BY DEF OneCopy
<1>used. OnlyUsed'
  BY DEF OnlyUsed, KeysAt
<1>upload. UploadIsPrivate'
  BY DEF UploadIsPrivate, Uploading, KeysAt
<1>doubt. DoubtIsSafe'
  BY DEF DoubtIsSafe
<1>loops. LoopsAreSafe'
  BY DEF LoopsAreSafe
<1> QED BY <1>bytes, <1>lock, <1>copy, <1>used, <1>upload, <1>doubt, <1>loops

\* A failed quarantine puts back what it moved.
LEMMA QuarantineFailsKeeps ==
  ASSUME IInv, TypeOK', Backend = "local", NEW p \in Procs, QuarantineFails(p)
  PROVE  IInv'
<1>0. TypeOK
  BY DEF IInv
<1>1. /\ proc'[p].pc = "restore" /\ proc'[p].cur = None /\ proc'[p].todo = proc[p].moved
      /\ SameRequest(proc'[p], proc[p]) /\ OthersSame(p)
  BY <1>0, LoopFields DEF QuarantineFails
<1>2. /\ proc[p].pc = "quarantine" /\ (proc[p].todo # {} \/ proc[p].cur # None)
      /\ rows' = rows /\ live' = live /\ trash' = trash /\ used' = used /\ doubt' = doubt
      /\ lock' = lock
  BY DEF QuarantineFails, At, files, database
<1> USE <1>0, <1>1, <1>2, FieldsTyped, FreshAssumption DEF SameRequest, OthersSame, IInv
<1>bytes. BytesSafe'
  BY DEF BytesSafe
<1>lock. LockHeld'
  BY DEF LockHeld, Critical, Reconcile
<1>copy. OneCopy'
  BY DEF OneCopy
<1>used. OnlyUsed'
  BY DEF OnlyUsed, KeysAt
<1>upload. UploadIsPrivate'
  BY DEF UploadIsPrivate, Uploading, KeysAt
<1>doubt. DoubtIsSafe'
  BY DEF DoubtIsSafe
<1>loops. LoopsAreSafe'
  BY DEF LoopsAreSafe
<1> QED BY <1>bytes, <1>lock, <1>copy, <1>used, <1>upload, <1>doubt, <1>loops

\* try_reconcile_quarantine gets the lock.
LEMMA RelockKeeps ==
  ASSUME IInv, TypeOK', Backend = "local", NEW p \in Procs, Relock(p)
  PROVE  IInv'
<1>0. TypeOK
  BY DEF IInv
<1>1. /\ proc'[p].pc = "list" /\ proc'[p].cur = None /\ proc'[p].todo = proc[p].todo
      /\ SameRequest(proc'[p], proc[p]) /\ OthersSame(p)
  BY <1>0, GotoFields DEF Relock
<1>2. /\ proc[p].pc = "relock" /\ lock = None /\ lock' = p
      /\ rows' = rows /\ live' = live /\ trash' = trash /\ used' = used /\ doubt' = doubt
  BY DEF Relock, At, files, database
<1> USE <1>0, <1>1, <1>2, FieldsTyped, FreshAssumption DEF SameRequest, OthersSame, IInv
<1>bytes. BytesSafe'
  BY DEF BytesSafe
<1>lock. LockHeld'
  BY DEF LockHeld, Critical, Reconcile
<1>copy. OneCopy'
  BY DEF OneCopy
<1>used. OnlyUsed'
  BY DEF OnlyUsed, KeysAt
<1>upload. UploadIsPrivate'
  BY DEF UploadIsPrivate, Uploading, KeysAt
<1>doubt. DoubtIsSafe'
  BY DEF DoubtIsSafe
<1>loops. LoopsAreSafe'
  BY DEF LoopsAreSafe
<1> QED BY <1>bytes, <1>lock, <1>copy, <1>used, <1>upload, <1>doubt, <1>loops

\* A commit attaches the uploaded key, or detaches what was quarantined.
LEMMA CommitOKKeeps ==
  ASSUME IInv, TypeOK', Backend = "local", NEW p \in Procs, CommitOK(p)
  PROVE  IInv'
<1>0. TypeOK
  BY DEF IInv
<1>1. CASE proc[p].op = "upload"
  <2>1. /\ proc'[p].pc = "refresh" /\ proc'[p].cur = None /\ proc'[p].todo = proc[p].todo
          /\ SameRequest(proc'[p], proc[p]) /\ OthersSame(p)
    BY <1>0, <1>1, GotoFields DEF CommitOK
  <2>2. /\ proc[p].pc = "commit" /\ lock = p /\ lock' = None /\ doubt' = doubt /\ live' = live /\ trash' = trash /\ used' = used
          /\ rows' = rows \cup proc[p].target
    BY <1>1 DEF CommitOK, Apply, Transaction, files, At
  <2> USE <1>0, <1>1, <2>1, <2>2, FieldsTyped, FreshAssumption DEF SameRequest, OthersSame, IInv
  <2>bytes. BytesSafe'
    BY DEF BytesSafe, UploadIsPrivate, Uploading
  <2>lock. LockHeld'
    BY DEF LockHeld, Critical, Reconcile
  <2>copy. OneCopy'
    BY DEF OneCopy
  <2>used. OnlyUsed'
    BY DEF OnlyUsed, KeysAt
  <2>upload. UploadIsPrivate'
    BY DEF UploadIsPrivate, Uploading, KeysAt
  <2>doubt. DoubtIsSafe'
    BY DEF DoubtIsSafe
  <2>loops. LoopsAreSafe'
    BY DEF LoopsAreSafe, LockHeld, Critical, Reconcile, UploadIsPrivate, Uploading, KeysAt
  <2> QED BY <2>bytes, <2>lock, <2>copy, <2>used, <2>upload, <2>doubt, <2>loops
<1>2. CASE proc[p].op # "upload"
  <2>1. /\ proc'[p].pc = "discard" /\ proc'[p].cur = None /\ proc'[p].todo = proc[p].moved
          /\ SameRequest(proc'[p], proc[p]) /\ OthersSame(p)
    BY <1>0, <1>2, LoopFields DEF CommitOK
  <2>2. /\ proc[p].pc = "commit" /\ lock = p /\ lock' = None /\ doubt' = doubt /\ live' = live /\ trash' = trash /\ used' = used
          /\ rows' = rows \ proc[p].target
    BY <1>2 DEF CommitOK, Apply, Transaction, files, At
  <2> USE <1>0, <1>2, <2>1, <2>2, FieldsTyped, FreshAssumption DEF SameRequest, OthersSame, IInv
  <2>bytes. BytesSafe'
    BY DEF BytesSafe
  <2>lock. LockHeld'
    BY DEF LockHeld, Critical, Reconcile
  <2>copy. OneCopy'
    BY DEF OneCopy
  <2>used. OnlyUsed'
    BY DEF OnlyUsed, KeysAt
  <2>upload. UploadIsPrivate'
    BY DEF UploadIsPrivate, Uploading, KeysAt
  <2>doubt. DoubtIsSafe'
    BY DEF DoubtIsSafe, NoTransaction
  <2>loops. LoopsAreSafe'
    BY DEF LoopsAreSafe
  <2> QED BY <2>bytes, <2>lock, <2>copy, <2>used, <2>upload, <2>doubt, <2>loops
<1> QED BY <1>1, <1>2

\* A commit without an answer keeps the lock with the transaction.
LEMMA CommitInDoubtKeeps ==
  ASSUME IInv, TypeOK', Backend = "local", NEW p \in Procs, CommitInDoubt(p)
  PROVE  IInv'
<1>0. TypeOK
  BY DEF IInv
<1>1. CASE proc[p].op = "upload"
  <2>1. /\ proc'[p].pc = "quarantine" /\ proc'[p].cur = None /\ proc'[p].todo = proc[p].target
          /\ SameRequest(proc'[p], proc[p]) /\ OthersSame(p)
    BY <1>0, <1>1, LoopFields DEF CommitInDoubt, AfterRollback
  <2>2. /\ proc[p].pc = "commit" /\ lock = p /\ lock' = InDoubt /\ rows' = rows /\ live' = live /\ trash' = trash /\ used' = used
          /\ doubt'.op = proc[p].op /\ doubt'.target = proc[p].target
    BY <1>1 DEF CommitInDoubt, Transaction, files, At
  <2> USE <1>0, <1>1, <2>1, <2>2, FieldsTyped, FreshAssumption DEF SameRequest, OthersSame, IInv
  <2>bytes. BytesSafe'
    BY DEF BytesSafe
  <2>lock. LockHeld'
    BY DEF LockHeld, Critical, Reconcile
  <2>copy. OneCopy'
    BY DEF OneCopy
  <2>used. OnlyUsed'
    BY DEF OnlyUsed, KeysAt
  <2>upload. UploadIsPrivate'
    BY DEF UploadIsPrivate, Uploading, KeysAt
  <2>doubt. DoubtIsSafe'
    BY DEF DoubtIsSafe, NoTransaction, UploadIsPrivate, Uploading, KeysAt, LoopsAreSafe
  <2>loops. LoopsAreSafe'
    BY DEF LoopsAreSafe
  <2> QED BY <2>bytes, <2>lock, <2>copy, <2>used, <2>upload, <2>doubt, <2>loops
<1>2. CASE proc[p].op # "upload"
  <2>1. /\ proc'[p].pc = "relock" /\ proc'[p].op = "reconcile" /\ proc'[p].target = {}
          /\ proc'[p].todo = {} /\ proc'[p].moved = {} /\ proc'[p].cur = None
          /\ OthersSame(p)
    BY <1>0, <1>2, TryReconcileFields DEF CommitInDoubt, AfterRollback
  <2>2. /\ proc[p].pc = "commit" /\ lock = p /\ lock' = InDoubt /\ rows' = rows /\ live' = live /\ trash' = trash /\ used' = used
          /\ doubt'.op = proc[p].op /\ doubt'.target = proc[p].target
    BY <1>2 DEF CommitInDoubt, Transaction, files, At
  <2> USE <1>0, <1>2, <2>1, <2>2, FieldsTyped, FreshAssumption DEF SameRequest, OthersSame, IInv
  <2>bytes. BytesSafe'
    BY DEF BytesSafe
  <2>lock. LockHeld'
    BY DEF LockHeld, Critical, Reconcile
  <2>copy. OneCopy'
    BY DEF OneCopy
  <2>used. OnlyUsed'
    BY DEF OnlyUsed, KeysAt
  <2>upload. UploadIsPrivate'
    BY DEF UploadIsPrivate, Uploading, KeysAt
  <2>doubt. DoubtIsSafe'
    BY DEF DoubtIsSafe
  <2>loops. LoopsAreSafe'
    BY DEF LoopsAreSafe
  <2> QED BY <2>bytes, <2>lock, <2>copy, <2>used, <2>upload, <2>doubt, <2>loops
<1> QED BY <1>1, <1>2

\* reconcile lists what is in quarantine: none of it is at its key.
LEMMA ListKeeps ==
  ASSUME IInv, TypeOK', Backend = "local", NEW p \in Procs, ListTrash(p)
  PROVE  IInv'
<1>0. TypeOK
  BY DEF IInv
<1>1. /\ proc'[p].pc = (IF trash = {} THEN "fix" ELSE "query")
      /\ proc'[p].cur = None /\ proc'[p].todo = trash
      /\ SameRequest(proc'[p], proc[p]) /\ OthersSame(p)
  BY <1>0, LoopFields DEF ListTrash
<1>2. /\ proc[p].pc = "list" /\ lock' = lock /\ trash \subseteq Keys
      /\ rows' = rows /\ live' = live /\ trash' = trash /\ used' = used /\ doubt' = doubt
  BY <1>0 DEF ListTrash, At, files, database, TypeOK
<1> USE <1>0, <1>1, <1>2, FieldsTyped, FreshAssumption DEF SameRequest, OthersSame, IInv
<1>bytes. BytesSafe'
  BY DEF BytesSafe
<1>lock. LockHeld'
  BY DEF LockHeld, Critical, Reconcile
<1>copy. OneCopy'
  BY DEF OneCopy
<1>used. OnlyUsed'
  BY DEF OnlyUsed, KeysAt
<1>upload. UploadIsPrivate'
  BY DEF UploadIsPrivate, Uploading, KeysAt
<1>doubt. DoubtIsSafe'
  BY DEF DoubtIsSafe
<1>loops. LoopsAreSafe'
  BY DEF LoopsAreSafe, OneCopy
<1> QED BY <1>bytes, <1>lock, <1>copy, <1>used, <1>upload, <1>doubt, <1>loops

\* reconcile selects the rows of the listed items.
LEMMA QueryKeeps ==
  ASSUME IInv, TypeOK', Backend = "local", NEW p \in Procs, QueryRows(p), lock = p
  PROVE  IInv'
<1>0. TypeOK
  BY DEF IInv
<1> DEFINE t == [proc[p] EXCEPT !.pc = "fix", !.found = proc[p].todo \cap rows]
<1>1. /\ t.pc = "fix" /\ t.op = proc[p].op /\ t.target = proc[p].target
      /\ t.cur = proc[p].cur /\ t.todo = proc[p].todo
      /\ t.moved = proc[p].moved /\ t.found = proc[p].todo \cap rows
  BY <1>0, FieldsTyped DEF ProcState, SameRequest
<1>2. proc'[p] = t /\ OthersSame(p)
  BY <1>0, BecomeFields DEF QueryRows
<1>3. /\ proc'[p].pc = "fix" /\ proc'[p].op = proc[p].op /\ proc'[p].target = proc[p].target
      /\ proc'[p].cur = proc[p].cur /\ proc'[p].todo = proc[p].todo
      /\ proc'[p].moved = proc[p].moved /\ proc'[p].found = proc[p].todo \cap rows
  BY <1>1, <1>2
<1> HIDE DEF t
<1>4. /\ proc[p].pc = "query" /\ lock' = lock
      /\ rows' = rows /\ live' = live /\ trash' = trash /\ used' = used /\ doubt' = doubt
  BY DEF QueryRows, At, files, database
<1> USE <1>0, <1>2, <1>3, <1>4, FieldsTyped, FreshAssumption DEF SameRequest, OthersSame, IInv
<1>bytes. BytesSafe'
  BY DEF BytesSafe
<1>lock. LockHeld'
  BY DEF LockHeld, Critical, Reconcile
<1>copy. OneCopy'
  BY DEF OneCopy
<1>used. OnlyUsed'
  BY DEF OnlyUsed, KeysAt
<1>upload. UploadIsPrivate'
  BY DEF UploadIsPrivate, Uploading, KeysAt
<1>doubt. DoubtIsSafe'
  BY DEF DoubtIsSafe
<1>loops. LoopsAreSafe'
  BY DEF LoopsAreSafe
<1> QED BY <1>bytes, <1>lock, <1>copy, <1>used, <1>upload, <1>doubt, <1>loops

\* reconcile finds no object at the key of an item.
LEMMA InspectKeeps ==
  ASSUME IInv, TypeOK', Backend = "local", NEW p \in Procs, NEW k \in Keys,
         InspectItem(p, k)
  PROVE  IInv'
<1>0. TypeOK
  BY DEF IInv
<1> DEFINE t == [proc[p] EXCEPT !.pc = CASE k \in live -> "readlive"
                                    [] k \notin live /\ k \in proc[p].found -> "putback"
                                    [] OTHER -> "droptrash",
                         !.cur = k, !.todo = @ \ {k}]
<1>1. /\ t.pc = (CASE k \in live -> "readlive"
                     [] k \notin live /\ k \in proc[p].found -> "putback"
                     [] OTHER -> "droptrash") /\ t.op = proc[p].op /\ t.target = proc[p].target
      /\ t.cur = k /\ t.todo = proc[p].todo \ {k}
      /\ t.moved = proc[p].moved /\ t.found = proc[p].found
  BY <1>0, FieldsTyped DEF ProcState, SameRequest
<1>2. proc'[p] = t /\ OthersSame(p)
  BY <1>0, BecomeFields DEF InspectItem
<1>3. /\ proc'[p].pc = (CASE k \in live -> "readlive"
                     [] k \notin live /\ k \in proc[p].found -> "putback"
                     [] OTHER -> "droptrash") /\ proc'[p].op = proc[p].op /\ proc'[p].target = proc[p].target
      /\ proc'[p].cur = k /\ proc'[p].todo = proc[p].todo \ {k}
      /\ proc'[p].moved = proc[p].moved /\ proc'[p].found = proc[p].found
  BY <1>1, <1>2
<1> HIDE DEF t
<1>4. /\ proc[p].pc = "fix" /\ k \in proc[p].todo /\ k \notin live /\ lock' = lock
      /\ rows' = rows /\ live' = live /\ trash' = trash /\ used' = used /\ doubt' = doubt
  BY DEF InspectItem, At, files, database, IInv, LoopsAreSafe
<1> USE <1>0, <1>2, <1>3, <1>4, FieldsTyped, FreshAssumption DEF SameRequest, OthersSame, IInv
<1>bytes. BytesSafe'
  BY DEF BytesSafe
<1>lock. LockHeld'
  BY DEF LockHeld, Critical, Reconcile
<1>copy. OneCopy'
  BY DEF OneCopy
<1>used. OnlyUsed'
  BY DEF OnlyUsed, KeysAt
<1>upload. UploadIsPrivate'
  BY DEF UploadIsPrivate, Uploading, KeysAt
<1>doubt. DoubtIsSafe'
  BY DEF DoubtIsSafe
<1>loops. LoopsAreSafe'
  BY DEF LoopsAreSafe
<1> QED BY <1>bytes, <1>lock, <1>copy, <1>used, <1>upload, <1>doubt, <1>loops

\* reconcile discards an item without a row.
LEMMA DropKeeps ==
  ASSUME IInv, TypeOK', Backend = "local", NEW p \in Procs, DropTrash(p)
  PROVE  IInv'
<1>0. TypeOK
  BY DEF IInv
<1>1. /\ proc'[p].pc = "fix" /\ proc'[p].cur = None /\ proc'[p].todo = proc[p].todo
      /\ SameRequest(proc'[p], proc[p]) /\ OthersSame(p)
  BY <1>0, GotoFields DEF DropTrash
<1>2. /\ proc[p].pc = "droptrash" /\ trash' \in {trash, trash \ {proc[p].cur}}
      /\ rows' = rows /\ live' = live /\ used' = used /\ doubt' = doubt /\ lock' = lock
  BY DEF DropTrash, At, database
<1> USE <1>0, <1>1, <1>2, FieldsTyped, FreshAssumption DEF SameRequest, OthersSame, IInv
<1>bytes. BytesSafe'
  BY DEF BytesSafe, LoopsAreSafe
<1>lock. LockHeld'
  BY DEF LockHeld, Critical, Reconcile
<1>copy. OneCopy'
  BY DEF OneCopy
<1>used. OnlyUsed'
  BY DEF OnlyUsed, KeysAt
<1>upload. UploadIsPrivate'
  BY DEF UploadIsPrivate, Uploading, KeysAt
<1>doubt. DoubtIsSafe'
  BY DEF DoubtIsSafe, NoTransaction, LockHeld, Critical, Reconcile
<1>loops. LoopsAreSafe'
  BY DEF LoopsAreSafe
<1> QED BY <1>bytes, <1>lock, <1>copy, <1>used, <1>upload, <1>doubt, <1>loops

\* reconcile restores an item that has a row.
LEMMA PutBackKeeps ==
  ASSUME IInv, TypeOK', Backend = "local", NEW p \in Procs, PutBack(p)
  PROVE  IInv'
<1>0. TypeOK
  BY DEF IInv
<1>1. /\ proc'[p].pc = "fix" /\ proc'[p].cur = None /\ proc'[p].todo = proc[p].todo
      /\ SameRequest(proc'[p], proc[p]) /\ OthersSame(p)
  BY <1>0, GotoFields DEF PutBack
<1>2. /\ proc[p].pc = "putback" /\ rows' = rows /\ used' = used /\ doubt' = doubt /\ lock' = lock
      /\ \/ live' = live /\ trash' = trash
         \/ /\ proc[p].cur \in trash /\ live' = live \cup {proc[p].cur}
            /\ trash' = trash \ {proc[p].cur}
  BY DEF PutBack, At, files, database
<1> USE <1>0, <1>1, <1>2, FieldsTyped, FreshAssumption DEF SameRequest, OthersSame, IInv
<1>bytes. BytesSafe'
  BY DEF BytesSafe
<1>lock. LockHeld'
  BY DEF LockHeld, Critical, Reconcile
<1>copy. OneCopy'
  BY DEF OneCopy
<1>used. OnlyUsed'
  BY DEF OnlyUsed, KeysAt
<1>upload. UploadIsPrivate'
  BY DEF UploadIsPrivate, Uploading, KeysAt
<1>doubt. DoubtIsSafe'
  BY DEF DoubtIsSafe
<1>loops. LoopsAreSafe'
  BY DEF LoopsAreSafe, LockHeld, Critical, Reconcile
<1> QED BY <1>bytes, <1>lock, <1>copy, <1>used, <1>upload, <1>doubt, <1>loops

\* The purge has reconciled.
LEMMA SelectNextKeeps ==
  ASSUME IInv, TypeOK', Backend = "local", NEW p \in Procs, proc[p].pc = "fix",
         Become(p, [proc[p] EXCEPT !.pc = "select", !.found = {}]), rows' = rows, live' = live,
         trash' = trash, used' = used, doubt' = doubt, lock' = lock, proc[p].op = "purge"
  PROVE  IInv'
<1>0. TypeOK
  BY DEF IInv
<1> DEFINE t == [proc[p] EXCEPT !.pc = "select", !.found = {}]
<1>1. /\ t.pc = "select" /\ t.op = proc[p].op /\ t.target = proc[p].target
      /\ t.cur = proc[p].cur /\ t.todo = proc[p].todo
      /\ t.moved = proc[p].moved /\ t.found = {}
  BY <1>0, FieldsTyped DEF ProcState, SameRequest
<1>2. proc'[p] = t /\ OthersSame(p)
  BY <1>0, BecomeFields
<1>3. /\ proc'[p].pc = "select" /\ proc'[p].op = proc[p].op /\ proc'[p].target = proc[p].target
      /\ proc'[p].cur = proc[p].cur /\ proc'[p].todo = proc[p].todo
      /\ proc'[p].moved = proc[p].moved /\ proc'[p].found = {}
  BY <1>1, <1>2
<1> HIDE DEF t
<1> USE <1>0, <1>2, <1>3, FieldsTyped, FreshAssumption DEF SameRequest, OthersSame, IInv
<1>bytes. BytesSafe'
  BY DEF BytesSafe
<1>lock. LockHeld'
  BY DEF LockHeld, Critical, Reconcile
<1>copy. OneCopy'
  BY DEF OneCopy
<1>used. OnlyUsed'
  BY DEF OnlyUsed, KeysAt
<1>upload. UploadIsPrivate'
  BY DEF UploadIsPrivate, Uploading, KeysAt
<1>doubt. DoubtIsSafe'
  BY DEF DoubtIsSafe
<1>loops. LoopsAreSafe'
  BY DEF LoopsAreSafe
<1> QED BY <1>bytes, <1>lock, <1>copy, <1>used, <1>upload, <1>doubt, <1>loops

\* The purge quarantines the attachments of expired notes.
LEMMA SelectKeeps ==
  ASSUME IInv, TypeOK', Backend = "local", NEW p \in Procs, NEW expired, SelectExpired(p),
         lock = p, expired = {n \in Notes : notes[n] = "expired"}
  PROVE  IInv'
<1>0. TypeOK
  BY DEF IInv
<1> DEFINE t == [proc[p] EXCEPT !.pc = "quarantine", !.drop = expired,
                         !.target = KeysOf(expired), !.todo = KeysOf(expired)]
<1>1. /\ t.pc = "quarantine" /\ t.op = proc[p].op /\ t.target = KeysOf(expired)
      /\ t.cur = proc[p].cur /\ t.todo = KeysOf(expired) /\ t.moved = proc[p].moved
  BY <1>0, FieldsTyped DEF ProcState, SameRequest
<1>2. proc'[p] = t /\ OthersSame(p)
  BY <1>0, BecomeFields DEF SelectExpired
<1>3. /\ proc'[p].pc = "quarantine" /\ proc'[p].op = proc[p].op /\ proc'[p].target = KeysOf(expired)
      /\ proc'[p].cur = proc[p].cur /\ proc'[p].todo = KeysOf(expired) /\ proc'[p].moved = proc[p].moved
  BY <1>1, <1>2
<1> HIDE DEF t
<1>4. /\ proc[p].pc = "select" /\ lock' = lock /\ KeysOf(expired) \subseteq rows
      /\ rows' = rows /\ live' = live /\ trash' = trash /\ used' = used /\ doubt' = doubt
  BY DEF SelectExpired, At, files, database, KeysOf
<1> USE <1>0, <1>2, <1>3, <1>4, FieldsTyped, FreshAssumption DEF SameRequest, OthersSame, IInv
<1>bytes. BytesSafe'
  BY DEF BytesSafe
<1>lock. LockHeld'
  BY DEF LockHeld, Critical, Reconcile
<1>copy. OneCopy'
  BY DEF OneCopy
<1>used. OnlyUsed'
  BY DEF OnlyUsed, KeysAt
<1>upload. UploadIsPrivate'
  BY DEF UploadIsPrivate, Uploading, KeysAt
<1>doubt. DoubtIsSafe'
  BY DEF DoubtIsSafe
<1>loops. LoopsAreSafe'
  BY DEF LoopsAreSafe
<1> QED BY <1>bytes, <1>lock, <1>copy, <1>used, <1>upload, <1>doubt, <1>loops

\* PostgreSQL decides the transaction in doubt.
LEMMA ResolveKeeps ==
  ASSUME IInv, TypeOK', Backend = "local", ResolveDoubt
  PROVE  IInv'
<1>0. TypeOK
  BY DEF IInv
<1>1. /\ proc' = proc /\ live' = live /\ trash' = trash /\ used' = used
      /\ doubt' = NoTransaction /\ lock = InDoubt /\ lock' = None
      /\ rows' \in {rows, IF doubt.op = "upload" THEN rows \cup doubt.target
                                               ELSE rows \ doubt.target}
  BY DEF ResolveDoubt, Apply, files
<1>2. doubt.target \subseteq Keys
  BY <1>0 DEF TypeOK
<1> USE <1>0, <1>1, <1>2, FieldsTyped, FreshAssumption DEF SameRequest, OthersSame, IInv
<1>bytes. BytesSafe'
  BY DEF BytesSafe, DoubtIsSafe
<1>lock. LockHeld'
  BY DEF LockHeld, Critical, Reconcile
<1>copy. OneCopy'
  BY DEF OneCopy
<1>used. OnlyUsed'
  BY DEF OnlyUsed, KeysAt, DoubtIsSafe
<1>upload. UploadIsPrivate'
  BY DEF UploadIsPrivate, Uploading, KeysAt, LockHeld, Critical, Reconcile
<1>doubt. DoubtIsSafe'
  BY DEF DoubtIsSafe, NoTransaction
<1>loops. LoopsAreSafe'
  BY DEF LoopsAreSafe, UploadIsPrivate, Uploading, KeysAt, LockHeld, Critical, Reconcile, OneCopy, OnlyUsed, DoubtIsSafe
<1> QED BY <1>bytes, <1>lock, <1>copy, <1>used, <1>upload, <1>doubt, <1>loops

\* Steps that touch neither files, rows nor processes.
LEMMA NotesKeep ==
  ASSUME IInv, TypeOK', UNCHANGED <<rows, live, trash, used, lock, doubt, proc>>
  PROVE  IInv'
BY DEF IInv, BytesSafe, LockHeld, Critical, OneCopy, OnlyUsed, KeysAt, UploadIsPrivate, Uploading,
       DoubtIsSafe, LoopsAreSafe

------------------------------------------------------------------------------
(* The invariant holds, and with it BytesSafe.                               *)

\* Initially nothing is stored, attached or running.
LEMMA InitIInv == Init => IInv
<1> SUFFICES ASSUME Init PROVE IInv
  OBVIOUS
<1>1. TypeOK
  <2>1. NoTransaction \in [op : Ops, target : SUBSET Keys, drop : SUBSET Notes]
    BY DEF NoTransaction, Ops
  <2> QED BY <2>1, IdleTyped DEF Init, TypeOK
<1>2. \A p \in Procs : proc[p] = Idle
  BY DEF Init
<1> USE FreshAssumption DEF Idle
<1>3. BytesSafe /\ OneCopy /\ OnlyUsed
  BY <1>2 DEF Init, BytesSafe, OneCopy, OnlyUsed, KeysAt
<1>4. LockHeld /\ UploadIsPrivate
  BY <1>2 DEF LockHeld, Critical, Reconcile, UploadIsPrivate, Uploading
<1>5. DoubtIsSafe
  BY <1>2 DEF Init, DoubtIsSafe, NoTransaction
<1>6. LoopsAreSafe
  BY <1>2 DEF LoopsAreSafe
<1> QED BY <1>1, <1>3, <1>4, <1>5, <1>6 DEF IInv

\* No step breaks the invariant: one case per action.
LEMMA IInvStep ==
  ASSUME Backend = "local", "connection" \notin Faults, IInv, [Next]_vars
  PROVE  IInv'
<1>0. TypeOK /\ TypeOK'
  BY TypeStep DEF IInv
<1> USE <1>0 DEF files, database
<1>1. ASSUME NEW p \in Handlers, Request(p) PROVE IInv'
  <2>0. p \in Procs /\ rows \subseteq Keys
    BY DEF Procs, TypeOK
  <2>1. ASSUME NEW k \in Keys, Upload(p, k) PROVE IInv'
    BY <2>0, <2>1, UploadKeeps
  <2>2. ASSUME NEW k \in Keys, DeleteAttachment(p, k) PROVE IInv'
    <3>1. /\ Begin(p, "delete", "quarantine", {k}, {}, {k}) /\ used' = used
          /\ {k} \in SUBSET rows
      BY <2>2 DEF DeleteAttachment
    <3> QED BY <2>0, <3>1, DeleteBeginKeeps
  <2>3. ASSUME NEW u \in Users, DeleteAccount(p, u) PROVE IInv'
    <3> DEFINE owned == {n \in Notes : OwnerOf[n] = u /\ notes[n] # "gone"}
    <3>1. /\ Begin(p, "account", "quarantine", KeysOf(owned), owned, KeysOf(owned))
          /\ used' = used
      BY <2>3 DEF DeleteAccount
    <3>2. KeysOf(owned) \in SUBSET rows
      BY DEF KeysOf
    <3> HIDE DEF owned
    <3> QED BY <2>0, <3>1, <3>2, DeleteBeginKeeps
  <2> QED BY <1>1, <2>1, <2>2, <2>3 DEF Request
<1>2. CASE PurgeDeleted
  BY <1>2, PurgeKeeps DEF Procs
<1>3. ASSUME NEW p \in Procs, Relock(p) PROVE IInv'
  BY <1>3, RelockKeeps
<1>4. ASSUME NEW p \in Procs, Write(p) PROVE IInv'
  <2>1. /\ proc[p].pc = "write" /\ proc[p].op = "upload"
    BY <1>4 DEF Write, At, IInv, LoopsAreSafe
  <2>2. CASE Goto(p, "commit") /\ live' = live \cup proc[p].target /\ lock' = lock
    BY <1>4, <2>1, <2>2, WriteKeeps DEF Write
  <2>3. CASE Loop(p, "quarantine", proc[p].target) /\ live' = live /\ Release(p)
    BY <1>4, <2>1, <2>3, UndoKeeps DEF Write, Release
  <2> QED BY <1>4, <2>2, <2>3 DEF Write
<1>5. ASSUME NEW p \in Procs, Quarantining(p) PROVE IInv'
  <2>0. \/ proc[p].pc \notin {"quarantine", "restore"} \/ proc[p].cur = None
    BY DEF IInv, LoopsAreSafe
  <2>1. ASSUME NEW k \in Keys, QuarantineLocal(p, k) PROVE IInv'
    <3>1. CASE k \in live
      BY <2>1, <3>1, MoveKeeps
    <3>2. CASE k \notin live
      BY <2>1, <3>2, SkipKeeps DEF QuarantineLocal, At
    <3> QED BY <3>1, <3>2
  <2>2. ASSUME NEW k \in Keys, QuarantineCopy(p, k) PROVE IInv'
    BY <2>2 DEF QuarantineCopy
  <2>3. ASSUME NEW k \in Keys, Restore(p, k) PROVE IInv'
    <3>1. CASE k \in trash
      BY <2>3, <3>1, RestoreKeeps
    <3>2. CASE k \notin trash
      BY <2>3, <3>2, SkipKeeps DEF Restore, At
    <3> QED BY <3>1, <3>2
  <2>4. CASE QuarantineDelete(p) \/ RestoreDelete(p)
    BY <2>0, <2>4 DEF QuarantineDelete, RestoreDelete, At
  <2>5. CASE QuarantineDone(p)
    <3>1. CASE proc[p].op = "upload"
      BY <2>5, <3>1, TryReconcileKeeps DEF QuarantineDone
    <3>2. CASE proc[p].op # "upload"
      BY <2>5, <3>2, GotoCommitKeeps DEF QuarantineDone, At
    <3> QED BY <3>1, <3>2
  <2>6. CASE QuarantineFails(p)
    BY <2>6, QuarantineFailsKeeps
  <2>7. CASE RestoreEnds(p)
    BY <2>7, TryReconcileKeeps, StopKeeps DEF RestoreEnds, Finish, Release
  <2> QED BY <1>5, <2>1, <2>2, <2>3, <2>4, <2>5, <2>6, <2>7 DEF Quarantining
<1>6. ASSUME NEW p \in Procs, Committing(p) PROVE IInv'
  <2>1. CASE CommitOK(p)
    BY <2>1, CommitOKKeeps
  <2>2. CASE CommitFails(p)
    <3>1. CASE proc[p].op = "upload"
      BY <2>2, <3>1, UndoKeeps DEF CommitFails, AfterRollback, At, Release
    <3>2. CASE proc[p].op # "upload"
      BY <2>2, <3>2, TryReconcileKeeps DEF CommitFails, AfterRollback, Release
    <3> QED BY <3>1, <3>2
  <2>3. CASE CommitInDoubt(p)
    BY <2>3, CommitInDoubtKeeps
  <2>4. CASE RefreshRow(p)
    <3>1. proc[p].pc = "refresh" /\ proc[p].op = "upload"
      BY <2>4 DEF RefreshRow, At, IInv, LoopsAreSafe
    <3>2. CASE Become(p, Idle)
      BY <2>4, <3>2, StopKeeps DEF RefreshRow
    <3>3. CASE Loop(p, "quarantine", proc[p].target)
      BY <2>4, <3>1, <3>3, UndoKeeps DEF RefreshRow
    <3> QED BY <2>4, <3>2, <3>3 DEF RefreshRow
  <2>5. ASSUME NEW k \in Keys, Discard(p, k) PROVE IInv'
    <3>1. CASE trash' = trash \ {k}
      BY <2>5, <3>1, DiscardKeeps
    <3>2. CASE trash' = trash
      BY <2>5, <3>2, SkipKeeps DEF Discard, At
    <3> QED BY <2>5, <3>1, <3>2 DEF Discard
  <2>6. CASE DiscardDone(p)
    BY <2>6, StopKeeps DEF DiscardDone
  <2> QED BY <1>6, <2>1, <2>2, <2>3, <2>4, <2>5, <2>6 DEF Committing
<1>7. ASSUME NEW p \in Procs, Reconciling(p) PROVE IInv'
  <2>1. CASE ListTrash(p)
    BY <2>1, ListKeeps
  <2>2. CASE QueryRows(p)
    BY <2>2, QueryKeeps, StopKeeps DEF QueryRows, Finish, Release
  <2>3. ASSUME NEW k \in Keys, InspectItem(p, k) PROVE IInv'
    BY <2>3, InspectKeeps
  <2>4. CASE ReadLive(p) \/ ReadTrash(p) \/ DropLive(p) \/ PutBackDelete(p)
    BY <2>4 DEF ReadLive, ReadTrash, DropLive, PutBackDelete, At, IInv, LoopsAreSafe
  <2>5. CASE DropTrash(p)
    BY <2>5, DropKeeps
  <2>6. CASE PutBack(p)
    BY <2>6, PutBackKeeps
  <2>7. CASE ReconcileFails(p)
    BY <2>7, StopKeeps DEF ReconcileFails, Finish, Release
  <2>8. CASE ReconcileDone(p)
    BY <2>8, SelectNextKeeps, StopKeeps DEF ReconcileDone, Finish, Release, At
  <2>9. CASE SelectExpired(p)
    BY <2>9, SelectKeeps, StopKeeps DEF SelectExpired, Finish, Release
  <2> QED BY <1>7, <2>1, <2>2, <2>3, <2>4, <2>5, <2>6, <2>7, <2>8, <2>9 DEF Reconciling
<1>8. CASE Environment
  <2>1. ASSUME NEW n \in Notes, DeleteNote(n) \/ UndeleteNote(n) \/ Expire(n) PROVE IInv'
    BY <2>1, NotesKeep DEF DeleteNote, UndeleteNote, Expire
  <2>2. ASSUME NEW p \in Procs, LoseConnection(p) PROVE IInv'
    BY <2>2 DEF LoseConnection, Fault
  <2>3. ASSUME NEW p \in Procs, Crash(p) PROVE IInv'
    BY <2>3, StopKeeps DEF Crash, Finish, Release
  <2>4. CASE ResolveDoubt
    BY <2>4, ResolveKeeps
  <2> QED BY <1>8, <2>1, <2>2, <2>3, <2>4 DEF Environment
<1>9. CASE UNCHANGED vars
  BY <1>9, NotesKeep DEF vars
<1> QED BY <1>1, <1>2, <1>3, <1>4, <1>5, <1>6, <1>7, <1>8, <1>9 DEF Next, Work

\* The strengthening is inductive: on a local disk, with connections that are
\* not lost under a running process, it holds of every reachable state.
THEOREM LocalInvariant ==
  ASSUME Backend = "local", "connection" \notin Faults
  PROVE  Spec => []IInv
<1>1. IInv /\ [Next]_vars => IInv'
  BY IInvStep
<1> QED BY InitIInv, <1>1, PTL DEF Spec

\* On a local disk, and as long as no process works on without the connection
\* that holds its lock, a committed attachment never loses its bytes: not by
\* crashes, failed or unanswered commits, storage errors or any interleaving of
\* uploads, deletions, account deletions and purges.
THEOREM LocalBytesSafe ==
  ASSUME Backend = "local", "connection" \notin Faults
  PROVE  Spec => []BytesSafe
<1>1. IInv => BytesSafe
  BY DEF IInv
<1> QED BY LocalInvariant, <1>1, PTL

\* Under the same assumptions reconcile_quarantine never finds an object both at
\* its key and in quarantine, so it never raises its "differs" errors.
THEOREM LocalNeverConflicts ==
  ASSUME Backend = "local", "connection" \notin Faults
  PROVE  Spec => []NeverConflicts
<1>1. IInv => NeverConflicts
  BY DEF IInv, LoopsAreSafe, NeverConflicts
<1> QED BY LocalInvariant, <1>1, PTL

------------------------------------------------------------------------------
(* The refinement: every step on a local disk is a step of the contract.     *)

\* What the code's state says of the phase of a key.  Only generated keys have
\* rows, so the cases exclude one another.
LEMMA PhaseIs ==
  ASSUME rows \subseteq used, NEW k \in Keys
  PROVE  /\ k \notin used => Phase(k) = "new"
         /\ k \in rows => Phase(k) = "attached"
         /\ k \in used \ rows /\ Pending(k) => Phase(k) = "pending"
         /\ k \in used \ rows /\ ~Pending(k) => Phase(k) = "gone"
<1> DEFINE P == Pending(k)
<1>1. Phase(k) = CASE k \notin used -> "new"
                   [] k \in rows -> "attached"
                   [] k \in used \ rows /\ P -> "pending"
                   [] OTHER -> "gone"
  BY DEF Phase
<1> HIDE DEF P
<1>2. /\ k \notin used => Phase(k) = "new"
      /\ k \in rows => Phase(k) = "attached"
      /\ k \in used \ rows /\ P => Phase(k) = "pending"
      /\ k \in used \ rows /\ ~P => Phase(k) = "gone"
  BY <1>1
<1> QED BY <1>2 DEF P

\* The same of the next state.
LEMMA PhaseWillBe ==
  ASSUME rows' \subseteq used', NEW k \in Keys
  PROVE  /\ k \notin used' => Phase(k)' = "new"
         /\ k \in rows' => Phase(k)' = "attached"
         /\ k \in used' \ rows' /\ Pending(k)' => Phase(k)' = "pending"
         /\ k \in used' \ rows' /\ ~Pending(k)' => Phase(k)' = "gone"
<1> DEFINE P == Pending(k)'
<1>1. Phase(k)' = CASE k \notin used' -> "new"
                    [] k \in rows' -> "attached"
                    [] k \in used' \ rows' /\ P -> "pending"
                    [] OTHER -> "gone"
  BY DEF Phase
<1> HIDE DEF P
<1>2. /\ k \notin used' => Phase(k)' = "new"
      /\ k \in rows' => Phase(k)' = "attached"
      /\ k \in used' \ rows' /\ P => Phase(k)' = "pending"
      /\ k \in used' \ rows' /\ ~P => Phase(k)' = "gone"
  BY <1>1
<1> QED BY <1>2 DEF P

\* A key keeps its phase when its row, its use and its chance to be attached do.
LEMMA PhaseKept ==
  ASSUME rows \subseteq used, rows' \subseteq used', NEW k \in Keys,
         k \in rows' <=> k \in rows, k \in used' <=> k \in used,
         k \in rows \/ (Pending(k)' <=> Pending(k))
  PROVE  Phase(k)' = Phase(k)
BY PhaseIs, PhaseWillBe

\* A stutter of the contract.
LEMMA Stutters ==
  ASSUME \A k \in Keys : Phase(k)' = Phase(k), live' \cup trash' = live \cup trash
  PROVE  [Contract!CNext]_(Contract!cvars)
<1>1. [k \in Keys |-> Phase(k)]' = [k \in Keys |-> Phase(k)]
  OBVIOUS
<1> QED BY <1>1 DEF Contract!cvars

\* A move of the contract.
LEMMA Moves ==
  ASSUME NEW K \in SUBSET Keys, NEW from, NEW to,
         \A k \in K : Phase(k) = from /\ Phase(k)' = to,
         \A k \in Keys \ K : Phase(k)' = Phase(k)
  PROVE  Contract!Move(K, from, to)
BY DEF Contract!Move

\* Used and attached keys are as before.
SameKeys == rows' = rows /\ used' = used

\* Nothing a key could be attached by has changed, apart from process p.
LEMMA PendingElsewhere ==
  ASSUME NEW p \in Procs, OthersSame(p), doubt' = doubt, NEW k \in Keys,
         (Uploading(p) /\ k \in proc[p].target)' <=> (Uploading(p) /\ k \in proc[p].target)
  PROVE  Pending(k)' <=> Pending(k)
BY DEF Pending, Uploading, OthersSame

\* The key of a running upload is pending by that upload alone.
LEMMA PendingByUpload ==
  ASSUME IInv, NEW p \in Procs, Uploading(p), NEW k \in proc[p].target
  PROVE  /\ k \in Keys /\ k \in used \ rows /\ lock = p /\ doubt = NoTransaction
         /\ Pending(k)
         /\ \A q \in Procs \ {p} : ~(Uploading(q) /\ k \in proc[q].target)
<1>1. TypeOK
  BY DEF IInv
<1>2. k \in Keys /\ k # None
  BY <1>1, FieldsTyped, FreshAssumption
<1>3. k \in used \ rows
  BY <1>2 DEF IInv, OnlyUsed, UploadIsPrivate, KeysAt
<1>4. lock = p /\ doubt = NoTransaction
  BY FreshAssumption DEF IInv, LockHeld, Critical, Uploading, Reconcile, DoubtIsSafe
<1>5. Pending(k)
  BY DEF Pending, Uploading
<1>6. \A q \in Procs \ {p} : ~(Uploading(q) /\ k \in proc[q].target)
  BY DEF IInv, UploadIsPrivate, KeysAt
<1> QED BY <1>2, <1>3, <1>4, <1>5, <1>6

\* A key that a process has in hand is not pending, unless its own upload or
\* the transaction in doubt attaches it.
LEMMA NotPending ==
  ASSUME IInv, NEW p \in Procs, ~Uploading(p), NEW k \in KeysAt(p),
         doubt.op = "upload" => k \notin doubt.target
  PROVE  ~Pending(k)
BY DEF IInv, UploadIsPrivate, Pending, Uploading

\* A step of a process that uploads nothing, before or after it, and leaves rows
\* and the bytes of every key as they are, is a stutter of the contract.
LEMMA Quiet ==
  ASSUME IInv, IInv', NEW p \in Procs, OthersSame(p), ~Uploading(p), ~Uploading(p)',
         doubt' = doubt, SameKeys, live' \cup trash' = live \cup trash
  PROVE  [Contract!CNext]_(Contract!cvars)
<1>1. rows \subseteq used /\ rows' \subseteq used'
  BY DEF IInv, OnlyUsed
<1>2. \A k \in Keys : Phase(k)' = Phase(k)
  BY <1>1, PendingElsewhere, PhaseKept DEF SameKeys
<1> QED BY <1>2, Stutters

\* An upload that ends without a row abandons its key.
LEMMA Abandons ==
  ASSUME IInv, IInv', NEW p \in Procs, OthersSame(p), Uploading(p), ~Uploading(p)',
         doubt' = doubt, SameKeys, live' \cup trash' = live \cup trash
  PROVE  [Contract!CNext]_(Contract!cvars)
<1>1. rows \subseteq used /\ rows' \subseteq used'
  BY DEF IInv, OnlyUsed
<1>2. \A a, b \in proc[p].target : a = b
  BY DEF IInv, LoopsAreSafe, Uploading
<1>3. CASE proc[p].target = {}
  <2>1. \A k \in Keys : Phase(k)' = Phase(k)
    BY <1>1, <1>3, PendingElsewhere, PhaseKept DEF SameKeys
  <2> QED BY <2>1, Stutters
<1>4. ASSUME NEW k \in proc[p].target PROVE [Contract!CNext]_(Contract!cvars)
  <2>1. /\ k \in Keys /\ k \in used \ rows /\ doubt = NoTransaction /\ Pending(k)
        /\ \A q \in Procs \ {p} : ~(Uploading(q) /\ k \in proc[q].target)
    BY PendingByUpload
  <2>2. ~Pending(k)'
    BY <2>1 DEF Pending, Uploading, OthersSame, NoTransaction
  <2>3. Phase(k) = "pending" /\ Phase(k)' = "gone"
    BY <1>1, <2>1, <2>2, PhaseIs, PhaseWillBe DEF SameKeys
  <2>4. \A j \in Keys \ {k} : Phase(j)' = Phase(j)
    BY <1>1, <1>2, PendingElsewhere, PhaseKept DEF SameKeys
  <2>5. Contract!Move({k}, "pending", "gone")
    BY <2>1, <2>3, <2>4, Moves
  <2>6. Contract!Abandon(k)
    BY <2>5 DEF Contract!Abandon
  <2> QED BY <2>1, <2>6 DEF Contract!CNext
<1> QED BY <1>3, <1>4

\* A request for an upload reserves a fresh key.
LEMMA UploadReserves ==
  ASSUME IInv, IInv', NEW p \in Procs, NEW k \in Keys, Upload(p, k)
  PROVE  [Contract!CNext]_(Contract!cvars)
<1>0. TypeOK
  BY DEF IInv
<1>1. /\ proc'[p].pc = "write" /\ proc'[p].op = "upload" /\ proc'[p].target = {k}
      /\ OthersSame(p)
  BY <1>0, BeginFields DEF Upload
<1>2. /\ rows' = rows /\ live' = live /\ trash' = trash /\ doubt' = doubt
      /\ used' = used \cup {k} /\ k \notin used /\ proc[p].pc = "idle"
  BY DEF Upload, Begin, At, files, database
<1>3. rows \subseteq used /\ rows' \subseteq used'
  BY DEF IInv, OnlyUsed
<1>4. Pending(k)'
  BY <1>1 DEF Pending
<1>5. Phase(k) = "new" /\ Phase(k)' = "pending"
  BY <1>2, <1>3, <1>4, PhaseIs, PhaseWillBe
<1>6. \A j \in Keys \ {k} : Phase(j)' = Phase(j)
  BY <1>1, <1>2, <1>3, PendingElsewhere, PhaseKept DEF Uploading
<1>7. Contract!Move({k}, "new", "pending")
  BY <1>5, <1>6, Moves
<1>8. Contract!Reserve(k)
  BY <1>2, <1>7 DEF Contract!Reserve
<1> QED BY <1>8 DEF Contract!CNext

\* storage.write stores the bytes of the pending key.
LEMMA WriteStores ==
  ASSUME IInv, IInv', NEW p \in Procs, Write(p), Goto(p, "commit"),
         live' = live \cup proc[p].target
  PROVE  [Contract!CNext]_(Contract!cvars)
<1>0. TypeOK
  BY DEF IInv
<1>1. /\ proc'[p].pc = "commit" /\ proc'[p].op = proc[p].op
      /\ proc'[p].target = proc[p].target /\ OthersSame(p)
  BY <1>0, GotoFields DEF SameRequest
<1>2. /\ proc[p].pc = "write" /\ proc[p].op = "upload"
      /\ rows' = rows /\ trash' = trash /\ used' = used /\ doubt' = doubt
  BY DEF Write, At, database, IInv, LoopsAreSafe
<1>3. rows \subseteq used /\ rows' \subseteq used'
  BY DEF IInv, OnlyUsed
<1>4. \A k \in Keys : Phase(k)' = Phase(k)
  BY <1>1, <1>2, <1>3, PendingElsewhere, PhaseKept DEF Uploading
<1>5. CASE proc[p].target = {}
  BY <1>2, <1>4, <1>5, Stutters
<1>6. ASSUME NEW k \in proc[p].target PROVE [Contract!CNext]_(Contract!cvars)
  <2>1. \A a, b \in proc[p].target : a = b
    BY <1>2 DEF IInv, LoopsAreSafe
  <2>2. k \in Keys /\ Phase(k) = "pending"
    BY <1>2, <1>3, PendingByUpload, PhaseIs DEF Uploading
  <2>3. live' \cup trash' = (live \cup trash) \cup {k}
    BY <1>2, <1>6, <2>1
  <2>4. [j \in Keys |-> Phase(j)]' = [j \in Keys |-> Phase(j)]
    BY <1>4
  <2>5. Contract!Store(k)
    BY <2>2, <2>3, <2>4 DEF Contract!Store
  <2> QED BY <2>2, <2>5 DEF Contract!CNext
<1> QED BY <1>5, <1>6

\* The row of an upload that commits attaches its key, whose bytes are stored.
LEMMA Attaches ==
  ASSUME IInv, IInv', NEW k \in Keys, k \in used \ rows, Pending(k), k \in live \cup trash,
         rows' = rows \cup {k}, UNCHANGED <<used, live, trash>>,
         \A j \in Keys \ {k} : Pending(j)' <=> Pending(j)
  PROVE  [Contract!CNext]_(Contract!cvars)
<1>1. rows \subseteq used /\ rows' \subseteq used'
  BY DEF IInv, OnlyUsed
<1>2. Phase(k) = "pending" /\ Phase(k)' = "attached"
  BY <1>1, PhaseIs, PhaseWillBe
<1>3. \A j \in Keys \ {k} : Phase(j)' = Phase(j)
  BY <1>1, PhaseKept
<1>4. Contract!Move({k}, "pending", "attached")
  BY <1>2, <1>3, Moves
<1>5. Contract!Attach(k)
  BY <1>4 DEF Contract!Attach
<1> QED BY <1>5 DEF Contract!CNext

\* A deletion that commits detaches the attachments it selected, all at once.
LEMMA Detaches ==
  ASSUME IInv, IInv', NEW K \in SUBSET Keys, rows' = rows \ K,
         UNCHANGED <<used, live, trash>>, \A k \in Keys : ~Pending(k) /\ ~Pending(k)'
  PROVE  [Contract!CNext]_(Contract!cvars)
<1>1. rows \subseteq used /\ rows' \subseteq used' /\ rows \subseteq Keys
  BY DEF IInv, OnlyUsed, TypeOK
<1> DEFINE D == K \cap rows
<1>2. \A k \in D : Phase(k) = "attached" /\ Phase(k)' = "gone"
  BY <1>1, PhaseIs, PhaseWillBe
<1>3. \A k \in Keys \ D : Phase(k)' = Phase(k)
  BY <1>1, PhaseKept
<1>4. CASE D = {}
  BY <1>3, <1>4, Stutters
<1>5. CASE D # {}
  <2>1. D \in SUBSET Keys
    OBVIOUS
  <2> HIDE DEF D
  <2>2. Contract!Move(D, "attached", "gone")
    BY <1>2, <1>3, <2>1, Moves
  <2>3. Contract!Detach(D)
    BY <1>5, <2>2 DEF Contract!Detach
  <2> QED BY <2>1, <2>3 DEF Contract!CNext
<1> QED BY <1>4, <1>5

\* While a transaction other than an upload's is at its commit, or in doubt, no
\* upload is under way: it would hold the lock.
LEMMA NothingPending ==
  ASSUME IInv, lock = InDoubt \/ (lock \in Procs /\ ~Uploading(lock)),
         doubt.op # "upload", NEW k \in Keys
  PROVE  ~Pending(k)
BY FreshAssumption DEF IInv, LockHeld, Critical, Uploading, Reconcile, Pending

\* Erasing the quarantined copy of a key that is gone: the last of its bytes, or
\* no change.
LEMMA Erases ==
  ASSUME IInv, IInv', NEW p \in Procs, OthersSame(p), ~Uploading(p), ~Uploading(p)',
         doubt' = doubt, SameKeys, live' = live, NEW k \in KeysAt(p) \cap Keys,
         k \notin rows, doubt.op = "upload" => k \notin doubt.target,
         trash' = trash \ {k}
  PROVE  [Contract!CNext]_(Contract!cvars)
<1>1. rows \subseteq used /\ rows' \subseteq used' /\ k \in used
  BY FreshAssumption DEF IInv, OnlyUsed
<1>2. \A j \in Keys : Phase(j)' = Phase(j)
  BY <1>1, PendingElsewhere, PhaseKept DEF SameKeys
<1>3. CASE k \in live
  <2>1. k \notin trash
    BY <1>3 DEF IInv, OneCopy
  <2> QED BY <1>2, <2>1, Stutters
<1>4. CASE k \notin live
  <2>1. Phase(k) = "gone"
    BY <1>1, NotPending, PhaseIs
  <2>2. live' \cup trash' = (live \cup trash) \ {k}
    BY <1>4
  <2>3. [j \in Keys |-> Phase(j)]' = [j \in Keys |-> Phase(j)]
    BY <1>2
  <2>4. Contract!Erase(k)
    BY <2>1, <2>2, <2>3 DEF Contract!Erase
  <2> QED BY <2>4 DEF Contract!CNext
<1> QED BY <1>3, <1>4

\* The commit: an upload attaches its key, a deletion detaches its keys.
LEMMA CommitMaps ==
  ASSUME IInv, IInv', NEW p \in Procs, CommitOK(p)
  PROVE  [Contract!CNext]_(Contract!cvars)
<1>0. TypeOK
  BY DEF IInv
<1>1. /\ proc[p].pc = "commit" /\ lock = p /\ doubt' = doubt
      /\ live' = live /\ trash' = trash /\ used' = used
      /\ doubt = NoTransaction
  BY FreshAssumption DEF CommitOK, At, files, IInv, DoubtIsSafe
<1>2. CASE proc[p].op = "upload"
  <2>1. proc'[p].pc = "refresh" /\ OthersSame(p)
    BY <1>0, <1>2, GotoFields DEF CommitOK
  <2>2. rows' = rows \cup proc[p].target
    BY <1>2 DEF CommitOK, Apply, Transaction
  <2>3. Uploading(p) /\ ~Uploading(p)'
    BY <1>1, <1>2, <2>1 DEF Uploading
  <2>4. CASE proc[p].target = {}
    <3>1. SameKeys
      BY <1>1, <2>2, <2>4 DEF SameKeys
    <3> QED BY <1>1, <2>1, <2>3, <3>1, Abandons
  <2>5. ASSUME NEW k \in proc[p].target PROVE [Contract!CNext]_(Contract!cvars)
    <3>1. \A a \in proc[p].target : a = k
      BY <1>2 DEF IInv, LoopsAreSafe
    <3>2. k \in Keys /\ k \in used \ rows /\ Pending(k)
      BY <2>3, PendingByUpload
    <3>3. k \in live
      BY <1>1, <2>3 DEF IInv, UploadIsPrivate
    <3>4. \A j \in Keys \ {k} : Pending(j)' <=> Pending(j)
      BY <1>1, <2>1, <2>3, <3>1, PendingElsewhere
    <3>5. rows' = rows \cup {k}
      BY <2>2, <3>1
    <3>6. k \in live \cup trash /\ UNCHANGED <<used, live, trash>>
      BY <1>1, <3>3
    <3> QED BY <3>2, <3>4, <3>5, <3>6, Attaches
  <2> QED BY <2>4, <2>5
<1>3. CASE proc[p].op # "upload"
  <2>1. proc'[p].pc = "discard" /\ OthersSame(p)
    BY <1>0, <1>3, LoopFields DEF CommitOK
  <2>2. rows' = rows \ proc[p].target /\ proc[p].target \in SUBSET Keys
    BY <1>0, <1>3, FieldsTyped DEF CommitOK, Apply, Transaction
  <2>3. ~Uploading(p) /\ ~Uploading(p)'
    BY <1>3, <2>1 DEF Uploading
  <2>4. \A k \in Keys : ~Pending(k)
    BY <1>1, <2>3, NothingPending DEF NoTransaction
  <2>5. \A k \in Keys : ~Pending(k)'
    BY <1>1, <2>1, <2>3, <2>4, PendingElsewhere
  <2> QED BY <1>1, <2>2, <2>4, <2>5, Detaches
<1> QED BY <1>2, <1>3

\* A commit without an answer decides nothing: whatever was pending still is.
LEMMA DoubtMaps ==
  ASSUME IInv, IInv', NEW p \in Procs, CommitInDoubt(p)
  PROVE  [Contract!CNext]_(Contract!cvars)
<1>0. TypeOK
  BY DEF IInv
<1>1. /\ proc[p].pc = "commit" /\ lock = p /\ doubt = NoTransaction
      /\ doubt'.op = proc[p].op /\ doubt'.target = proc[p].target
      /\ SameKeys /\ live' = live /\ trash' = trash
  BY FreshAssumption
     DEF CommitInDoubt, At, files, Transaction, SameKeys, IInv, DoubtIsSafe
<1>2. OthersSame(p) /\ proc'[p].pc \in {"quarantine", "relock"}
  BY <1>0, LoopFields, TryReconcileFields DEF CommitInDoubt, AfterRollback
<1>3. \A k \in Keys : Pending(k)' <=> Pending(k)
  BY <1>1, <1>2 DEF Pending, OthersSame, NoTransaction
<1>4. rows \subseteq used /\ rows' \subseteq used'
  BY DEF IInv, OnlyUsed
<1>5. \A k \in Keys : Phase(k)' = Phase(k)
  BY <1>1, <1>3, <1>4, PhaseKept DEF SameKeys
<1> QED BY <1>1, <1>5, Stutters

\* PostgreSQL decides: the key of an upload is attached or abandoned, those of a
\* deletion are detached or stay.
LEMMA ResolveMaps ==
  ASSUME IInv, IInv', ResolveDoubt
  PROVE  [Contract!CNext]_(Contract!cvars)
<1>0. TypeOK
  BY DEF IInv
<1>1. /\ proc' = proc /\ live' = live /\ trash' = trash /\ used' = used
      /\ doubt' = NoTransaction /\ lock = InDoubt /\ lock' = None
  BY DEF ResolveDoubt, files
<1>2. doubt.target \in SUBSET Keys /\ rows \subseteq used /\ rows' \subseteq used'
  BY <1>0 DEF TypeOK, IInv, OnlyUsed
<1>3. \A q \in Procs : ~Uploading(q)
  BY <1>1, FreshAssumption DEF IInv, LockHeld, Critical, Uploading, Reconcile
<1>4. \A k \in Keys : /\ ~Pending(k)'
                      /\ Pending(k) <=> doubt.op = "upload" /\ k \in doubt.target
  BY <1>1, <1>3 DEF Pending, Uploading, NoTransaction
<1>5. CASE doubt.op # "upload"
  <2>1. CASE rows' = rows
    <3>1. \A k \in Keys : Phase(k)' = Phase(k)
      BY <1>1, <1>2, <1>4, <1>5, <2>1, PhaseKept
    <3> QED BY <1>1, <3>1, Stutters
  <2>2. CASE rows' = rows \ doubt.target
    BY <1>1, <1>2, <1>4, <1>5, <2>2, Detaches
  <2> QED BY <1>5, <2>1, <2>2 DEF ResolveDoubt, Apply
<1>6. ASSUME doubt.op = "upload", NEW k \in doubt.target, k \notin rows
      PROVE  [Contract!CNext]_(Contract!cvars)
  <2>1. /\ \A a \in doubt.target : a = k
        /\ k \in live \cup trash /\ k \in used
    BY <1>6 DEF IInv, DoubtIsSafe, OnlyUsed
  <2>2. k \in Keys /\ Pending(k) /\ \A j \in Keys \ {k} : Pending(j)' <=> Pending(j)
    BY <1>2, <1>4, <1>6, <2>1
  <2>3. CASE rows' = rows
    <3>1. Phase(k) = "pending" /\ Phase(k)' = "gone"
      BY <1>1, <1>2, <1>4, <1>6, <2>1, <2>2, <2>3, PhaseIs, PhaseWillBe
    <3>2. \A j \in Keys \ {k} : Phase(j)' = Phase(j)
      BY <1>1, <1>2, <2>2, <2>3, PhaseKept
    <3>3. Contract!Move({k}, "pending", "gone")
      BY <2>2, <3>1, <3>2, Moves
    <3>4. Contract!Abandon(k)
      BY <1>1, <3>3 DEF Contract!Abandon
    <3> QED BY <2>2, <3>4 DEF Contract!CNext
  <2>4. CASE rows' = rows \cup doubt.target
    <3>1. rows' = rows \cup {k}
      BY <1>6, <2>1, <2>4
    <3> QED BY <1>1, <1>6, <2>1, <2>2, <3>1, Attaches
  <2> QED BY <1>6, <2>3, <2>4 DEF ResolveDoubt, Apply
<1>7. CASE doubt.op = "upload" /\ doubt.target \subseteq rows
  <2>1. rows' = rows
    BY <1>7 DEF ResolveDoubt, Apply
  <2>2. \A k \in Keys : Phase(k)' = Phase(k)
    BY <1>1, <1>2, <1>4, <1>7, <2>1, PhaseKept
  <2> QED BY <1>1, <2>2, Stutters
<1> QED BY <1>5, <1>6, <1>7

\* The end of an upload that got no row, or of anything else, by a failure or by
\* a crash.
LEMMA EndMaps ==
  ASSUME IInv, IInv', NEW p \in Procs, OthersSame(p),
         proc'[p].pc \notin {"write", "commit"}, doubt' = doubt, SameKeys,
         live' \cup trash' = live \cup trash
  PROVE  [Contract!CNext]_(Contract!cvars)
<1>1. ~Uploading(p)'
  BY DEF Uploading
<1> QED BY <1>1, Quiet, Abandons

\* storage.discard, after the commit of a deletion.
LEMMA DiscardMaps ==
  ASSUME IInv, IInv', NEW p \in Procs, NEW k \in Keys, Discard(p, k)
  PROVE  [Contract!CNext]_(Contract!cvars)
<1>0. TypeOK
  BY DEF IInv
<1> DEFINE t == [proc[p] EXCEPT !.todo = @ \ {k}]
<1>1. t.pc = proc[p].pc
  BY <1>0, FieldsTyped DEF ProcState
<1>2. proc'[p] = t /\ OthersSame(p)
  BY <1>0, BecomeFields DEF Discard
<1>3. /\ proc[p].pc = "discard" /\ k \in proc[p].todo /\ doubt' = doubt /\ SameKeys
      /\ live' = live /\ trash' \in {trash, trash \ {k}}
  BY DEF Discard, At, database, SameKeys
<1> HIDE DEF t
<1>4. ~Uploading(p) /\ ~Uploading(p)'
  BY <1>1, <1>2, <1>3 DEF Uploading
<1>5. /\ k \notin rows /\ k \in KeysAt(p)
      /\ doubt.op = "upload" => k \notin doubt.target
  BY <1>3 DEF IInv, LoopsAreSafe, DoubtIsSafe, KeysAt
<1> QED BY <1>2, <1>3, <1>4, <1>5, Quiet, Erases

\* reconcile discards what has no row.
LEMMA DropMaps ==
  ASSUME IInv, IInv', NEW p \in Procs, DropTrash(p)
  PROVE  [Contract!CNext]_(Contract!cvars)
<1>0. TypeOK
  BY DEF IInv
<1>1. proc'[p].pc = "fix" /\ OthersSame(p)
  BY <1>0, GotoFields DEF DropTrash
<1>2. /\ proc[p].pc = "droptrash" /\ doubt' = doubt /\ SameKeys
      /\ live' = live /\ trash' \in {trash, trash \ {proc[p].cur}}
  BY DEF DropTrash, At, database, SameKeys
<1>3. ~Uploading(p) /\ ~Uploading(p)'
  BY <1>1, <1>2 DEF Uploading
<1>4. proc[p].cur \in KeysAt(p) \cap Keys /\ proc[p].cur \notin rows
  BY <1>2 DEF IInv, LoopsAreSafe, KeysAt
<1>5. doubt.op # "upload"
  BY <1>2, FreshAssumption
     DEF IInv, LockHeld, Critical, Reconcile, DoubtIsSafe, NoTransaction
<1> QED BY <1>1, <1>2, <1>3, <1>4, <1>5, Quiet, Erases

\* On a local disk every step of the code is a step of the contract or none.
LEMMA ContractStep ==
  ASSUME Backend = "local", "connection" \notin Faults, IInv, IInv', [Next]_vars
  PROVE  [Contract!CNext]_(Contract!cvars)
<1>0. TypeOK
  BY DEF IInv
<1>a. ASSUME NEW p \in Procs, NEW s, Become(p, s)
      PROVE  proc'[p] = s /\ OthersSame(p)
  BY <1>0, <1>a, BecomeFields
<1>b. Idle.pc = "idle" /\ [Idle EXCEPT !.pc = "relock", !.op = "reconcile"].pc = "relock"
  BY DEF Idle
<1>1. ASSUME NEW p \in Handlers, Request(p) PROVE [Contract!CNext]_(Contract!cvars)
  <2>0. p \in Procs
    BY DEF Procs
  <2>1. ASSUME NEW k \in Keys, Upload(p, k) PROVE [Contract!CNext]_(Contract!cvars)
    BY <2>0, <2>1, UploadReserves
  <2>2. ASSUME NEW op, NEW target, NEW drop, Begin(p, op, "quarantine", target, drop, target),
               used' = used
        PROVE  [Contract!CNext]_(Contract!cvars)
    <3>1. proc'[p].pc = "quarantine" /\ OthersSame(p)
      BY <1>0, <2>0, <2>2, BeginFields
    <3>2. doubt' = doubt /\ SameKeys /\ live' \cup trash' = live \cup trash
      BY <2>2 DEF Begin, files, database, SameKeys
    <3> QED BY <2>0, <3>1, <3>2, EndMaps
  <2>3. ASSUME NEW k \in Keys, DeleteAttachment(p, k) PROVE [Contract!CNext]_(Contract!cvars)
    BY <2>2, <2>3 DEF DeleteAttachment
  <2>4. ASSUME NEW u \in Users, DeleteAccount(p, u) PROVE [Contract!CNext]_(Contract!cvars)
    BY <2>2, <2>4 DEF DeleteAccount
  <2> QED BY <1>1, <2>1, <2>3, <2>4 DEF Request
<1>2. CASE PurgeDeleted
  <2>1. Purger \in Procs
    BY DEF Procs
  <2>2. proc'[Purger].pc = "list" /\ OthersSame(Purger)
    BY <1>0, <1>2, <2>1, BeginFields DEF PurgeDeleted
  <2>3. doubt' = doubt /\ SameKeys /\ live' \cup trash' = live \cup trash
    BY <1>2 DEF PurgeDeleted, Begin, files, database, SameKeys
  <2> QED BY <2>1, <2>2, <2>3, EndMaps
<1>3. ASSUME NEW p \in Procs, Relock(p) PROVE [Contract!CNext]_(Contract!cvars)
  <2>1. proc'[p].pc = "list" /\ OthersSame(p)
    BY <1>0, <1>3, GotoFields DEF Relock
  <2>2. doubt' = doubt /\ SameKeys /\ live' \cup trash' = live \cup trash
    BY <1>3 DEF Relock, files, database, SameKeys
  <2> QED BY <2>1, <2>2, EndMaps
<1>4. ASSUME NEW p \in Procs, Write(p) PROVE [Contract!CNext]_(Contract!cvars)
  <2>1. CASE Goto(p, "commit") /\ live' = live \cup proc[p].target
    BY <1>4, <2>1, WriteStores
  <2>2. CASE Loop(p, "quarantine", proc[p].target) /\ live' = live
    <3>1. proc'[p].pc = "quarantine" /\ OthersSame(p)
      BY <1>0, <2>2, LoopFields
    <3>2. doubt' = doubt /\ SameKeys /\ live' \cup trash' = live \cup trash
      BY <1>4, <2>2 DEF Write, database, SameKeys
    <3> QED BY <3>1, <3>2, EndMaps
  <2> QED BY <1>4, <2>1, <2>2 DEF Write
<1>5. ASSUME NEW p \in Procs, Quarantining(p) PROVE [Contract!CNext]_(Contract!cvars)
  <2>0. proc[p].pc \in {"quarantine", "restore"} => proc[p].cur = None
    BY DEF IInv, LoopsAreSafe
  <2>1. doubt' = doubt /\ SameKeys
    BY <1>5 DEF Quarantining, QuarantineLocal, QuarantineCopy, Restore, QuarantineDelete,
                QuarantineDone, QuarantineFails, RestoreDelete, RestoreEnds, database, SameKeys
  <2>2. proc[p].pc \in {"quarantine", "restore"}
    BY <1>5 DEF Quarantining, QuarantineLocal, QuarantineCopy, Restore, QuarantineDelete,
                QuarantineDone, QuarantineFails, RestoreDelete, RestoreEnds, At
  <2>3. live' \cup trash' = live \cup trash
    BY <1>5, <2>0, <2>2
       DEF Quarantining, QuarantineLocal, QuarantineCopy, Restore, QuarantineDelete,
           QuarantineDone, QuarantineFails, RestoreDelete, RestoreEnds, files, At
  <2>4. ~Uploading(p)
    BY <2>2 DEF Uploading
  <2>5. ASSUME NEW k \in Keys, QuarantineLocal(p, k) \/ Restore(p, k)
        PROVE  OthersSame(p) /\ ~Uploading(p)'
    <3> DEFINE moving == [proc[p] EXCEPT !.todo = @ \ {k}, !.moved = @ \cup {k}]
               done == [proc[p] EXCEPT !.todo = @ \ {k}]
               back == [proc[p] EXCEPT !.todo = @ \ {k}, !.cur = None]
    <3>1. moving.pc = proc[p].pc /\ done.pc = proc[p].pc /\ back.pc = proc[p].pc
      BY <1>0, FieldsTyped DEF ProcState
    <3>2. Become(p, moving) \/ Become(p, done) \/ Become(p, back)
      BY <2>5 DEF QuarantineLocal, Restore
    <3> HIDE DEF moving, done, back
    <3> QED BY <1>a, <2>2, <3>1, <3>2 DEF Uploading
  <2>6. ASSUME QuarantineDone(p) PROVE OthersSame(p) /\ ~Uploading(p)'
    BY <1>0, <2>6, GotoFields, TryReconcileFields DEF QuarantineDone, Uploading, SameRequest
  <2>7. ASSUME QuarantineFails(p) PROVE OthersSame(p) /\ ~Uploading(p)'
    BY <1>0, <2>7, LoopFields DEF QuarantineFails, Uploading
  <2>8. ASSUME RestoreEnds(p) PROVE OthersSame(p) /\ ~Uploading(p)'
    BY <1>0, <1>a, <1>b, <2>8, TryReconcileFields DEF RestoreEnds, Finish, Uploading
  <2>9. OthersSame(p) /\ ~Uploading(p)'
    BY <1>5, <2>0, <2>5, <2>6, <2>7, <2>8
       DEF Quarantining, QuarantineCopy, QuarantineDelete, RestoreDelete, At
  <2> QED BY <2>1, <2>3, <2>4, <2>9, Quiet
<1>6. ASSUME NEW p \in Procs, Committing(p) PROVE [Contract!CNext]_(Contract!cvars)
  <2>1. CASE CommitOK(p)
    BY <2>1, CommitMaps
  <2>2. CASE CommitInDoubt(p)
    BY <2>2, DoubtMaps
  <2>3. ASSUME NEW k \in Keys, Discard(p, k) PROVE [Contract!CNext]_(Contract!cvars)
    BY <2>3, DiscardMaps
  <2>4. CASE CommitFails(p) \/ RefreshRow(p) \/ DiscardDone(p)
    <3>1. proc'[p].pc \in {"quarantine", "relock", "idle"} /\ OthersSame(p)
      BY <1>0, <1>a, <1>b, <2>4, LoopFields, TryReconcileFields
         DEF CommitFails, AfterRollback, RefreshRow, DiscardDone
    <3>2. doubt' = doubt /\ SameKeys /\ live' \cup trash' = live \cup trash
      BY <2>4 DEF CommitFails, RefreshRow, DiscardDone, files, database, SameKeys
    <3> QED BY <3>1, <3>2, EndMaps
  <2> QED BY <1>6, <2>1, <2>2, <2>3, <2>4 DEF Committing
<1>7. ASSUME NEW p \in Procs, Reconciling(p) PROVE [Contract!CNext]_(Contract!cvars)
  <2>0. proc[p].pc \notin {"readlive", "readtrash", "droplive", "putbackdelete"}
    BY DEF IInv, LoopsAreSafe
  <2>1. CASE DropTrash(p)
    BY <2>1, DropMaps
  <2>2. ASSUME NEW k \in Keys, InspectItem(p, k) PROVE [Contract!CNext]_(Contract!cvars)
    <3> DEFINE next == CASE k \in live -> "readlive"
                         [] k \notin live /\ k \in proc[p].found -> "putback"
                         [] OTHER -> "droptrash"
               t == [proc[p] EXCEPT !.pc = next, !.cur = k, !.todo = @ \ {k}]
    <3>1. next \notin {"write", "commit"}
      OBVIOUS
    <3>2. t.pc = next
      BY <1>0, FieldsTyped DEF ProcState
    <3>3. Become(p, t)
      BY <2>2 DEF InspectItem
    <3> HIDE DEF next, t
    <3>4. doubt' = doubt /\ SameKeys /\ live' \cup trash' = live \cup trash
      BY <2>2 DEF InspectItem, files, database, SameKeys
    <3> QED BY <1>a, <3>1, <3>2, <3>3, <3>4, EndMaps
  <2>3. CASE PutBack(p)
    <3>1. proc'[p].pc = "fix" /\ OthersSame(p)
      BY <1>0, <2>3, GotoFields DEF PutBack
    <3>2. doubt' = doubt /\ SameKeys /\ live' \cup trash' = live \cup trash
      BY <2>3 DEF PutBack, files, database, SameKeys
    <3> QED BY <3>1, <3>2, EndMaps
  <2>4. CASE \/ ListTrash(p) \/ QueryRows(p) \/ ReconcileFails(p) \/ ReconcileDone(p)
             \/ SelectExpired(p)
    <3> DEFINE found == [proc[p] EXCEPT !.pc = "fix", !.found = proc[p].todo \cap rows]
               next == [proc[p] EXCEPT !.pc = "select", !.found = {}]
               expired == {n \in Notes : notes[n] = "expired"}
               chosen == [proc[p] EXCEPT
                             !.pc = "quarantine", !.drop = expired,
                             !.target = KeysOf(expired), !.todo = KeysOf(expired)]
    <3>1. found.pc = "fix" /\ next.pc = "select" /\ chosen.pc = "quarantine"
      BY <1>0, FieldsTyped DEF ProcState
    <3>2. \/ ListTrash(p)
          \/ \E s \in {found, next, chosen, Idle} : Become(p, s)
      BY <2>4 DEF QueryRows, ReconcileFails, ReconcileDone, SelectExpired, Finish
    <3>3. doubt' = doubt /\ SameKeys /\ live' \cup trash' = live \cup trash
      BY <2>4 DEF ListTrash, QueryRows, ReconcileFails, ReconcileDone, SelectExpired,
                  files, database, SameKeys
    <3> HIDE DEF found, next, chosen
    <3>4. ListTrash(p) => proc'[p].pc \in {"fix", "query"} /\ OthersSame(p)
      BY <1>0, LoopFields DEF ListTrash
    <3>5. proc'[p].pc \notin {"write", "commit"} /\ OthersSame(p)
      BY <1>a, <1>b, <3>1, <3>2, <3>4
    <3> QED BY <3>3, <3>5, EndMaps
  <2> QED BY <1>7, <2>0, <2>1, <2>2, <2>3, <2>4
          DEF Reconciling, ReadLive, ReadTrash, DropLive, PutBackDelete, At
<1>8. CASE Environment
  <2>1. ASSUME NEW n \in Notes, DeleteNote(n) \/ UndeleteNote(n) \/ Expire(n)
        PROVE  [Contract!CNext]_(Contract!cvars)
    <3>1. UNCHANGED <<rows, live, trash, used, lock, doubt, proc>>
      BY <2>1 DEF DeleteNote, UndeleteNote, Expire, files
    <3>2. \A k \in Keys : Phase(k)' = Phase(k)
      BY <3>1, PhaseKept DEF Pending, IInv, OnlyUsed
    <3> QED BY <3>1, <3>2, Stutters
  <2>2. ASSUME NEW p \in Procs, LoseConnection(p) PROVE FALSE
    BY <2>2 DEF LoseConnection, Fault
  <2>3. ASSUME NEW p \in Procs, Crash(p) PROVE [Contract!CNext]_(Contract!cvars)
    <3>1. proc'[p].pc = "idle" /\ OthersSame(p)
      BY <1>a, <1>b, <2>3 DEF Crash, Finish
    <3>2. doubt' = doubt /\ SameKeys /\ live' \cup trash' = live \cup trash
      BY <2>3 DEF Crash, files, database, SameKeys
    <3> QED BY <3>1, <3>2, EndMaps
  <2>4. CASE ResolveDoubt
    BY <2>4, ResolveMaps
  <2> QED BY <1>8, <2>1, <2>2, <2>3, <2>4 DEF Environment
<1>9. CASE UNCHANGED vars
  <2>1. \A k \in Keys : Phase(k)' = Phase(k)
    BY <1>9, PhaseKept DEF vars, Pending, IInv, OnlyUsed
  <2> QED BY <1>9, <2>1, Stutters DEF vars
<1> QED BY <1>1, <1>2, <1>3, <1>4, <1>5, <1>6, <1>7, <1>8, <1>9 DEF Next, Work

\* The two-store protocol implements its contract on a local disk, as long as no
\* process works on without the connection that holds its lock: bytes are erased
\* only when no commit can make them visible any more, an attachment appears with
\* its bytes, and what was deleted never comes back.
THEOREM LocalKeepsContract ==
  ASSUME Backend = "local", "connection" \notin Faults
  PROVE  Spec => KeepsContract
<1>1. Init => Contract!CInit
  <2> SUFFICES ASSUME Init PROVE Contract!CInit
    OBVIOUS
  <2>1. \A k \in Keys : Phase(k) = "new"
    BY PhaseIs DEF Init
  <2>2. live \cup trash = {}
    BY DEF Init
  <2> QED BY <2>1, <2>2 DEF Contract!CInit
<1>2. IInv /\ IInv' /\ [Next]_vars => [Contract!CNext]_(Contract!cvars)
  BY ContractStep
<1> QED BY LocalInvariant, <1>1, <1>2, PTL DEF Spec, KeepsContract, Contract!CSpec

------------------------------------------------------------------------------
(* Nothing escapes the bookkeeping: who answers for an object at its key.    *)

Answering == {"write", "commit", "refresh", "quarantine"}

\* An upload goes on to answer for its object, if nothing else does.
StillAnswers(p) ==
    proc[p].op = "upload" /\ proc[p].pc \in Answering =>
        \/ proc[p].target \cap live \cap live' \subseteq rows'
        \/ /\ proc'[p].op = "upload" /\ proc'[p].pc \in Answering
           /\ proc'[p].target = proc[p].target
        \/ Crash(p) \/ QuarantineFails(p)

\* What a step of p does to the objects and rows of others, and to its own.
StepTracks(p) ==
    /\ OthersSame(p)
    /\ rows \cap live \subseteq rows'
    /\ \A q \in Procs \ {p} :
          /\ lock = q => rows \subseteq rows' /\ live' \subseteq live
          /\ \A k \in live' \ live : k \in rows' \/ k \notin KeysAt(q)
    /\ DoubtTracked' /\ Tracked(p)' /\ StillAnswers(p)

\* Who stands by is still tracked.
LEMMA BystanderTracked ==
  ASSUME IInv, NEW q \in Procs, Tracked(q), proc'[q] = proc[q],
         rows \cap live \subseteq rows',
         lock = q => rows \subseteq rows' /\ live' \subseteq live,
         \A k \in live' \ live : k \in rows' \/ k \notin KeysAt(q)
  PROVE  Tracked(q)'
<1> DEFINE r == proc[q]
<1>1. /\ r.pc \in Reconcile \cup {"write", "commit"} => lock = q
      /\ r.op # "upload" /\ r.pc \in {"quarantine", "restore"} => lock = q
  BY DEF IInv, LockHeld, Critical
<1>2. r.target \subseteq KeysAt(q)
  BY DEF KeysAt
<1> QED BY <1>1, <1>2 DEF Tracked, Reconcile

\* Most steps neither add an object nor remove a row.
LEMMA PlainTracks ==
  ASSUME TrackedInv, NEW p \in Procs, OthersSame(p), rows' = rows, live' \subseteq live,
         doubt' = doubt, Tracked(p)', StillAnswers(p)
  PROVE  StepTracks(p)
BY DEF StepTracks, TrackedInv, DoubtTracked

\* A step after which p is where nothing has to be tracked.
LEMMA RestTracks ==
  ASSUME TrackedInv, NEW p \in Procs, OthersSame(p), rows' = rows, live' \subseteq live,
         doubt' = doubt, proc'[p].pc \in {"idle", "write", "discard", "query", "select"},
         StillAnswers(p)
  PROVE  StepTracks(p)
<1>1. Tracked(p)'
  BY DEF Tracked
<1> QED BY <1>1, PlainTracks

\* A request that begins, an upload or a deletion of what has rows.
LEMMA BeginTracks ==
  ASSUME TrackedInv, NEW p \in Procs, NEW op, NEW pc, NEW target, NEW drop, NEW todo,
         Begin(p, op, pc, target, drop, todo),
         \/ pc = "write"
         \/ pc = "list"
         \/ pc = "quarantine" /\ op # "upload" /\ target \subseteq rows /\ todo = target
  PROVE  StepTracks(p)
<1>0. TypeOK
  BY DEF TrackedInv, IInv
<1> DEFINE t == [Idle EXCEPT !.pc = pc, !.op = op, !.target = target,
                             !.drop = drop, !.todo = todo]
<1>1. t.pc = pc /\ t.op = op /\ t.target = target /\ t.todo = todo /\ t.found = {}
  BY DEF Idle
<1>2. proc'[p] = t /\ OthersSame(p)
  BY <1>0, BecomeFields DEF Begin
<1> HIDE DEF t
<1>3. rows' = rows /\ live' = live /\ doubt' = doubt /\ proc[p].pc = "idle"
  BY DEF Begin, files, database, At
<1>4. Tracked(p)'
  BY <1>1, <1>2, <1>3 DEF Tracked
<1>5. StillAnswers(p)
  BY <1>3 DEF StillAnswers, Answering
<1> QED BY <1>2, <1>3, <1>4, <1>5, PlainTracks

\* The undo of an upload has everything yet to move; that of a deletion waits for
\* the lock.
LEMMA UndoTracks ==
  ASSUME TrackedInv, NEW p \in Procs, rows' = rows, live' = live, doubt' = doubt,
         \/ proc[p].op = "upload" /\ Loop(p, "quarantine", proc[p].target)
         \/ proc[p].op # "upload" /\ TryReconcile(p)
  PROVE  StepTracks(p)
<1>0. TypeOK
  BY DEF TrackedInv, IInv
<1>1. CASE proc[p].op = "upload" /\ Loop(p, "quarantine", proc[p].target)
  <2>1. /\ proc'[p].pc = "quarantine" /\ proc'[p].todo = proc[p].target
        /\ proc'[p].op = "upload" /\ proc'[p].target = proc[p].target /\ OthersSame(p)
    BY <1>0, <1>1, LoopFields DEF SameRequest
  <2>2. Tracked(p)' /\ StillAnswers(p)
    BY <2>1 DEF Tracked, StillAnswers, Answering
  <2> QED BY <2>1, <2>2, PlainTracks
<1>2. CASE proc[p].op # "upload" /\ TryReconcile(p)
  <2> DEFINE t == [Idle EXCEPT !.pc = "relock", !.op = "reconcile"]
  <2>1. t.pc = "relock" /\ t.op = "reconcile" /\ t.found = {}
    BY DEF Idle
  <2>2. proc'[p] = t /\ OthersSame(p)
    BY <1>0, <1>2, BecomeFields DEF TryReconcile
  <2> HIDE DEF t
  <2>3. Tracked(p)' /\ StillAnswers(p)
    BY <1>2, <2>1, <2>2 DEF Tracked, StillAnswers
  <2> QED BY <2>2, <2>3, PlainTracks
<1> QED BY <1>1, <1>2

\* A process that ends, and answers for nothing any more.
LEMMA EndTracks ==
  ASSUME TrackedInv, NEW p \in Procs, Become(p, Idle), rows' = rows, live' = live,
         doubt' = doubt, StillAnswers(p)
  PROVE  StepTracks(p)
<1>1. proc'[p].pc = "idle" /\ OthersSame(p)
  BY BecomeFields DEF TrackedInv, IInv, Idle
<1> QED BY <1>1, RestTracks

\* storage.write: the object of an upload that is under way.
LEMMA WriteTracks ==
  ASSUME TrackedInv, Backend = "local", NEW p \in Procs, Write(p)
  PROVE  StepTracks(p)
<1>0. TypeOK
  BY DEF TrackedInv, IInv
<1>1. /\ proc[p].pc = "write" /\ proc[p].op = "upload"
      /\ rows' = rows /\ doubt' = doubt
  BY DEF Write, At, database, TrackedInv, IInv, LoopsAreSafe
<1>2. CASE Goto(p, "commit") /\ live' = live \cup proc[p].target
  <2>1. /\ proc'[p].pc = "commit" /\ proc'[p].op = "upload"
        /\ proc'[p].target = proc[p].target /\ OthersSame(p)
    BY <1>0, <1>1, <1>2, GotoFields DEF SameRequest
  <2>2. Tracked(p)' /\ StillAnswers(p)
    BY <2>1 DEF Tracked, StillAnswers, Answering
  <2>3. lock = p /\ doubt = NoTransaction
    BY <1>1, FreshAssumption DEF TrackedInv, IInv, LockHeld, Critical, Reconcile, DoubtIsSafe
  <2>4. \A q \in Procs \ {p} : proc[p].target \cap KeysAt(q) = {}
    BY <1>1 DEF TrackedInv, IInv, UploadIsPrivate, Uploading
  <2>5. DoubtTracked'
    BY <1>1, <2>3 DEF DoubtTracked, NoTransaction
  <2> QED BY <1>1, <1>2, <2>1, <2>2, <2>3, <2>4, <2>5 DEF StepTracks
<1>3. CASE Loop(p, "quarantine", proc[p].target) /\ live' = live
  BY <1>1, <1>3, UndoTracks
<1> QED BY <1>2, <1>3 DEF Write

\* One rename into quarantine, or nothing to rename.
LEMMA MoveTracks ==
  ASSUME TrackedInv, NEW p \in Procs, NEW k \in Keys, QuarantineLocal(p, k)
  PROVE  StepTracks(p)
<1>0. TypeOK
  BY DEF TrackedInv, IInv
<1> DEFINE moving == [proc[p] EXCEPT !.todo = @ \ {k}, !.moved = @ \cup {k}]
           done == [proc[p] EXCEPT !.todo = @ \ {k}]
<1>1. \A s \in {moving, done} : /\ s.pc = proc[p].pc /\ s.op = proc[p].op
                                /\ s.target = proc[p].target /\ s.todo = proc[p].todo \ {k}
  BY <1>0, FieldsTyped DEF ProcState
<1>2. proc'[p] \in {moving, done} /\ OthersSame(p)
  BY <1>0, BecomeFields DEF QuarantineLocal
<1> HIDE DEF moving, done
<1>3. /\ proc'[p].pc = "quarantine" /\ proc[p].pc = "quarantine"
      /\ proc'[p].op = proc[p].op /\ proc'[p].target = proc[p].target
      /\ proc'[p].todo = proc[p].todo \ {k}
  BY <1>1, <1>2 DEF QuarantineLocal, At
<1>4. rows' = rows /\ doubt' = doubt /\ live' = live \ {k}
  BY DEF QuarantineLocal, database, files
<1>5. Tracked(p)' /\ StillAnswers(p)
  BY <1>3, <1>4 DEF TrackedInv, Tracked, StillAnswers, Answering
<1> QED BY <1>2, <1>4, <1>5, PlainTracks

\* Everything is moved: a deletion commits, a failed upload reconciles.
LEMMA MovedTracks ==
  ASSUME TrackedInv, NEW p \in Procs, QuarantineDone(p)
  PROVE  StepTracks(p)
<1>0. TypeOK
  BY DEF TrackedInv, IInv
<1>1. /\ proc[p].pc = "quarantine" /\ proc[p].todo = {}
      /\ rows' = rows /\ live' = live /\ doubt' = doubt
  BY DEF QuarantineDone, At, files, database
<1>2. CASE proc[p].op = "upload" /\ TryReconcile(p)
  <2> DEFINE t == [Idle EXCEPT !.pc = "relock", !.op = "reconcile"]
  <2>1. t.pc = "relock" /\ t.op = "reconcile" /\ t.found = {}
    BY DEF Idle
  <2>2. proc'[p] = t /\ OthersSame(p)
    BY <1>0, <1>2, BecomeFields DEF TryReconcile
  <2> HIDE DEF t
  <2>3. Tracked(p)' /\ StillAnswers(p)
    BY <1>1, <1>2, <2>1, <2>2 DEF Tracked, StillAnswers, TrackedInv
  <2> QED BY <1>1, <2>2, <2>3, PlainTracks
<1>3. CASE proc[p].op # "upload" /\ Goto(p, "commit")
  <2>1. /\ proc'[p].pc = "commit" /\ proc'[p].op = proc[p].op
        /\ proc'[p].target = proc[p].target /\ OthersSame(p)
    BY <1>0, <1>3, GotoFields DEF SameRequest
  <2>2. Tracked(p)' /\ StillAnswers(p)
    BY <1>1, <1>3, <2>1 DEF Tracked, StillAnswers, TrackedInv
  <2> QED BY <1>1, <2>1, <2>2, PlainTracks
<1> QED BY <1>2, <1>3 DEF QuarantineDone

\* The store refuses: what was moved is to be put back.
LEMMA RefusalTracks ==
  ASSUME TrackedInv, NEW p \in Procs, QuarantineFails(p)
  PROVE  StepTracks(p)
<1>0. TypeOK
  BY DEF TrackedInv, IInv
<1>1. /\ proc'[p].pc = "restore" /\ proc'[p].todo = proc[p].moved
      /\ proc'[p].op = proc[p].op /\ proc'[p].target = proc[p].target /\ OthersSame(p)
  BY <1>0, LoopFields DEF QuarantineFails, SameRequest
<1>2. proc[p].pc = "quarantine" /\ rows' = rows /\ live' = live /\ doubt' = doubt
  BY DEF QuarantineFails, At, files, database
<1>3. Tracked(p)'
  BY <1>1, <1>2 DEF Tracked, TrackedInv, IInv, LoopsAreSafe
<1>4. StillAnswers(p)
  BY DEF StillAnswers
<1> QED BY <1>1, <1>2, <1>3, <1>4, PlainTracks

\* A deletion gives back what it moved, which has rows.
LEMMA RestoreTracks ==
  ASSUME TrackedInv, Backend = "local", NEW p \in Procs, NEW k \in Keys, Restore(p, k)
  PROVE  StepTracks(p)
<1>0. TypeOK
  BY DEF TrackedInv, IInv
<1> DEFINE back == [proc[p] EXCEPT !.todo = @ \ {k}, !.cur = None]
           done == [proc[p] EXCEPT !.todo = @ \ {k}]
<1>1. \A s \in {back, done} : /\ s.pc = proc[p].pc /\ s.op = proc[p].op
                              /\ s.target = proc[p].target /\ s.todo = proc[p].todo \ {k}
  BY <1>0, FieldsTyped DEF ProcState
<1>2. proc'[p] \in {back, done} /\ OthersSame(p)
  BY <1>0, BecomeFields DEF Restore
<1> HIDE DEF back, done
<1>3. /\ proc'[p].pc = "restore" /\ proc[p].pc = "restore" /\ k \in proc[p].todo
      /\ proc'[p].op = proc[p].op /\ proc'[p].target = proc[p].target
      /\ proc'[p].todo = proc[p].todo \ {k}
      /\ rows' = rows /\ doubt' = doubt /\ live' \in {live, live \cup {k}}
  BY <1>1, <1>2 DEF Restore, At, database, files
<1>4. proc[p].op # "upload" /\ lock = p
  BY <1>3 DEF TrackedInv, IInv, LoopsAreSafe, LockHeld, Critical
<1>5. k \in rows
  BY <1>3, <1>4 DEF TrackedInv, Tracked
<1>6. Tracked(p)' /\ StillAnswers(p)
  BY <1>3, <1>4 DEF TrackedInv, Tracked, StillAnswers, Answering
<1>7. doubt = NoTransaction
  BY <1>4, FreshAssumption DEF TrackedInv, IInv, DoubtIsSafe
<1>8. DoubtTracked'
  BY <1>3, <1>7 DEF DoubtTracked, NoTransaction
<1> QED BY <1>2, <1>3, <1>4, <1>5, <1>6, <1>8 DEF StepTracks

\* The loop that gives back ends.
LEMMA RestoredTracks ==
  ASSUME TrackedInv, NEW p \in Procs, RestoreEnds(p)
  PROVE  StepTracks(p)
<1>0. TypeOK
  BY DEF TrackedInv, IInv
<1> DEFINE t == [Idle EXCEPT !.pc = "relock", !.op = "reconcile"]
<1>1. /\ t.pc = "relock" /\ t.op = "reconcile" /\ t.found = {}
      /\ Idle.pc = "idle" /\ Idle.op = "none"
  BY DEF Idle
<1>2. proc'[p] \in {t, Idle} /\ OthersSame(p)
  BY <1>0, BecomeFields DEF RestoreEnds, TryReconcile, Finish
<1> HIDE DEF t
<1>3. /\ proc[p].pc = "restore" /\ rows' = rows /\ live' = live /\ doubt' = doubt
  BY DEF RestoreEnds, At, files, database
<1>4. Tracked(p)' /\ StillAnswers(p)
  BY <1>1, <1>2, <1>3 DEF Tracked, StillAnswers, Answering
<1> QED BY <1>2, <1>3, <1>4, PlainTracks

\* The commit of an upload, whose object has a row from now on, and of a deletion,
\* whose rows have no object left.
LEMMA CommitTracks ==
  ASSUME TrackedInv, NEW p \in Procs, CommitOK(p)
  PROVE  StepTracks(p)
<1>0. TypeOK
  BY DEF TrackedInv, IInv
<1>1. /\ proc[p].pc = "commit" /\ lock = p /\ live' = live /\ doubt' = doubt
  BY DEF CommitOK, At, files
<1>2. DoubtTracked'
  BY <1>1 DEF DoubtTracked, TrackedInv
<1>3. CASE proc[p].op = "upload"
  <2>1. /\ proc'[p].pc = "refresh" /\ proc'[p].op = "upload"
        /\ proc'[p].target = proc[p].target /\ OthersSame(p)
    BY <1>0, <1>3, GotoFields DEF CommitOK, SameRequest
  <2>2. rows' = rows \cup proc[p].target
    BY <1>3 DEF CommitOK, Apply, Transaction
  <2>3. Tracked(p)' /\ StillAnswers(p)
    BY <2>1, <2>2 DEF Tracked, StillAnswers, Answering
  <2> QED BY <1>1, <1>2, <2>1, <2>2, <2>3 DEF StepTracks
<1>4. CASE proc[p].op # "upload"
  <2>1. proc'[p].pc = "discard" /\ OthersSame(p)
    BY <1>0, <1>4, LoopFields DEF CommitOK
  <2>2. rows' = rows \ proc[p].target
    BY <1>4 DEF CommitOK, Apply, Transaction
  <2>3. proc[p].target \cap live = {}
    BY <1>1, <1>4 DEF TrackedInv, Tracked
  <2>4. Tracked(p)' /\ StillAnswers(p)
    BY <1>4, <2>1 DEF Tracked, StillAnswers
  <2> QED BY <1>1, <1>2, <2>1, <2>2, <2>3, <2>4 DEF StepTracks
<1> QED BY <1>3, <1>4

\* A commit without an answer: the deletion in doubt has moved what it found.
LEMMA DoubtTracks ==
  ASSUME TrackedInv, NEW p \in Procs, CommitInDoubt(p)
  PROVE  StepTracks(p)
<1>0. TypeOK
  BY DEF TrackedInv, IInv
<1> DEFINE t == [Idle EXCEPT !.pc = "relock", !.op = "reconcile"]
<1>1. t.pc = "relock" /\ t.op = "reconcile" /\ t.found = {}
  BY DEF Idle
<1>2. /\ proc[p].pc = "commit" /\ lock = p /\ rows' = rows /\ live' = live
      /\ doubt'.op = proc[p].op /\ doubt'.target = proc[p].target
  BY DEF CommitInDoubt, At, files, Transaction
<1>3. DoubtTracked'
  BY <1>2 DEF DoubtTracked, TrackedInv, Tracked
<1>4. CASE proc[p].op = "upload"
  <2>1. /\ proc'[p].pc = "quarantine" /\ proc'[p].todo = proc[p].target
        /\ proc'[p].op = "upload" /\ proc'[p].target = proc[p].target /\ OthersSame(p)
    BY <1>0, <1>4, LoopFields DEF CommitInDoubt, AfterRollback, SameRequest
  <2>2. Tracked(p)' /\ StillAnswers(p)
    BY <2>1 DEF Tracked, StillAnswers, Answering
  <2> QED BY <1>2, <1>3, <2>1, <2>2 DEF StepTracks
<1>5. CASE proc[p].op # "upload"
  <2>1. proc'[p] = t /\ OthersSame(p)
    BY <1>0, <1>5, BecomeFields DEF CommitInDoubt, AfterRollback, TryReconcile
  <2> HIDE DEF t
  <2>2. Tracked(p)' /\ StillAnswers(p)
    BY <1>1, <1>5, <2>1 DEF Tracked, StillAnswers
  <2> QED BY <1>2, <1>3, <2>1, <2>2 DEF StepTracks
<1> QED BY <1>4, <1>5

\* session.refresh: the object has its row, unless a deletion took both.
LEMMA RefreshTracks ==
  ASSUME TrackedInv, NEW p \in Procs, RefreshRow(p)
  PROVE  StepTracks(p)
<1>1. /\ proc[p].pc = "refresh" /\ proc[p].op = "upload"
      /\ rows' = rows /\ live' = live /\ doubt' = doubt
  BY DEF RefreshRow, At, files, database, TrackedInv, IInv, LoopsAreSafe
<1>2. CASE Become(p, Idle)
  <2>1. StillAnswers(p)
    BY <1>1 DEF StillAnswers, TrackedInv, Tracked
  <2> QED BY <1>1, <1>2, <2>1, EndTracks
<1>3. CASE Loop(p, "quarantine", proc[p].target)
  BY <1>1, <1>3, UndoTracks
<1> QED BY <1>2, <1>3 DEF RefreshRow

\* storage.discard only touches the quarantine.
LEMMA DiscardTracks ==
  ASSUME TrackedInv, NEW p \in Procs, NEW k \in Keys, Discard(p, k)
  PROVE  StepTracks(p)
<1>0. TypeOK
  BY DEF TrackedInv, IInv
<1> DEFINE t == [proc[p] EXCEPT !.todo = @ \ {k}]
<1>1. t.pc = proc[p].pc
  BY <1>0, FieldsTyped DEF ProcState
<1>2. proc'[p] = t /\ OthersSame(p)
  BY <1>0, BecomeFields DEF Discard
<1>3. proc[p].pc = "discard" /\ rows' = rows /\ live' = live /\ doubt' = doubt
  BY DEF Discard, At, database
<1> HIDE DEF t
<1>4. StillAnswers(p)
  BY <1>3 DEF StillAnswers, Answering
<1> QED BY <1>1, <1>2, <1>3, <1>4, RestTracks

\* reconcile takes the lock, lists, looks rows up, inspects, and ends or goes on to
\* the purge: it only reads.
LEMMA ReadingTracks ==
  ASSUME TrackedInv, NEW p \in Procs,
         \/ Relock(p) \/ ListTrash(p) \/ QueryRows(p) \/ ReconcileFails(p)
         \/ ReconcileDone(p) \/ SelectExpired(p) \/ DropTrash(p)
         \/ \E k \in Keys : InspectItem(p, k)
  PROVE  StepTracks(p)
<1>0. TypeOK
  BY DEF TrackedInv, IInv
<1>1. /\ proc[p].pc \in {"relock", "list", "query", "fix", "droptrash", "putback", "select"}
      /\ rows' = rows /\ live' = live /\ doubt' = doubt
  BY DEF Relock, ListTrash, QueryRows, ReconcileFails, ReconcileDone, SelectExpired,
         DropTrash, InspectItem, At, files, database, TrackedInv, IInv, LoopsAreSafe
<1>2. StillAnswers(p)
  BY <1>1 DEF StillAnswers, Answering
<1>3. proc[p].op # "upload"
  BY <1>1 DEF TrackedInv, IInv, LoopsAreSafe
<1>4. Tracked(p)
  BY DEF TrackedInv
<1>5. CASE Relock(p)
  <2>1. proc'[p].pc = "list" /\ SameRequest(proc'[p], proc[p]) /\ OthersSame(p)
    BY <1>0, <1>5, GotoFields DEF Relock
  <2>2. Tracked(p)'
    BY <1>3, <1>4, <1>5, <2>1 DEF Tracked, SameRequest, Relock, At
  <2> QED BY <1>1, <1>2, <2>1, <2>2, PlainTracks
<1>6. CASE ListTrash(p)
  <2>1. /\ proc'[p].pc \in {"fix", "query"} /\ SameRequest(proc'[p], proc[p])
        /\ OthersSame(p)
    BY <1>0, <1>6, LoopFields DEF ListTrash
  <2>2. Tracked(p)'
    BY <1>3, <1>4, <1>6, <2>1 DEF Tracked, SameRequest, ListTrash, At
  <2> QED BY <1>1, <1>2, <2>1, <2>2, PlainTracks
<1>7. CASE Become(p, Idle)
  BY <1>1, <1>2, <1>7, EndTracks
<1>8. CASE DropTrash(p)
  <2>1. proc'[p].pc = "fix" /\ SameRequest(proc'[p], proc[p]) /\ OthersSame(p)
    BY <1>0, <1>8, GotoFields DEF DropTrash
  <2>2. Tracked(p)'
    BY <1>1, <1>3, <1>4, <1>8, <2>1 DEF Tracked, SameRequest, DropTrash, At
  <2> QED BY <1>1, <1>2, <2>1, <2>2, PlainTracks
<1>9. CASE QueryRows(p) /\ lock = p
  <2> DEFINE t == [proc[p] EXCEPT !.pc = "fix", !.found = proc[p].todo \cap rows]
  <2>1. t.pc = "fix" /\ t.op = proc[p].op /\ t.found = proc[p].todo \cap rows
    BY <1>0, FieldsTyped DEF ProcState
  <2>2. proc'[p] = t /\ OthersSame(p)
    BY <1>0, <1>9, BecomeFields DEF QueryRows
  <2> HIDE DEF t
  <2>3. Tracked(p)'
    BY <1>1, <1>3, <2>1, <2>2 DEF Tracked
  <2> QED BY <1>1, <1>2, <2>2, <2>3, PlainTracks
<1>10. ASSUME NEW k \in Keys, InspectItem(p, k) PROVE StepTracks(p)
  <2> DEFINE next == CASE k \in live -> "readlive"
                       [] k \notin live /\ k \in proc[p].found -> "putback"
                       [] OTHER -> "droptrash"
             t == [proc[p] EXCEPT !.pc = next, !.cur = k, !.todo = @ \ {k}]
  <2>1. /\ next \in {"readlive", "putback", "droptrash"}
        /\ next = "putback" => k \in proc[p].found
    OBVIOUS
  <2>2. t.pc = next /\ t.cur = k /\ t.op = proc[p].op /\ t.found = proc[p].found
    BY <1>0, FieldsTyped DEF ProcState
  <2>3. Become(p, t) /\ proc[p].pc = "fix"
    BY <1>10 DEF InspectItem, At
  <2> HIDE DEF next, t
  <2>4. proc'[p] = t /\ OthersSame(p)
    BY <1>0, <2>3, BecomeFields
  <2>5. Tracked(p)'
    BY <1>1, <1>3, <1>4, <2>1, <2>2, <2>3, <2>4 DEF Tracked
  <2> QED BY <1>1, <1>2, <2>4, <2>5, PlainTracks
<1>11. CASE ReconcileDone(p) /\ proc[p].op = "purge"
  <2> DEFINE t == [proc[p] EXCEPT !.pc = "select", !.found = {}]
  <2>1. t.pc = "select"
    BY <1>0, FieldsTyped DEF ProcState
  <2>2. proc'[p] = t /\ OthersSame(p)
    BY <1>0, <1>11, BecomeFields DEF ReconcileDone
  <2> HIDE DEF t
  <2> QED BY <1>1, <1>2, <2>1, <2>2, RestTracks
<1>12. CASE SelectExpired(p) /\ lock = p
  <2> DEFINE expired == {n \in Notes : notes[n] = "expired"}
             t == [proc[p] EXCEPT
                      !.pc = "quarantine", !.drop = expired,
                      !.target = KeysOf(expired), !.todo = KeysOf(expired)]
  <2>1. /\ t.pc = "quarantine" /\ t.op = proc[p].op
        /\ t.target = KeysOf(expired) /\ t.todo = KeysOf(expired)
    BY <1>0, FieldsTyped DEF ProcState
  <2>2. proc'[p] = t /\ OthersSame(p)
    BY <1>0, <1>12, BecomeFields DEF SelectExpired
  <2>3. KeysOf(expired) \subseteq rows
    BY DEF KeysOf
  <2> HIDE DEF t, expired
  <2>4. Tracked(p)'
    BY <1>1, <1>3, <2>1, <2>2, <2>3 DEF Tracked
  <2> QED BY <1>1, <1>2, <2>2, <2>4, PlainTracks
<1> QED BY <1>5, <1>6, <1>7, <1>8, <1>9, <1>10, <1>11, <1>12
        DEF QueryRows, ReconcileFails, ReconcileDone, SelectExpired, Finish

\* reconcile puts back only what has a row.
LEMMA PutBackTracks ==
  ASSUME TrackedInv, Backend = "local", NEW p \in Procs, PutBack(p)
  PROVE  StepTracks(p)
<1>0. TypeOK
  BY DEF TrackedInv, IInv
<1>1. /\ proc'[p].pc = "fix" /\ SameRequest(proc'[p], proc[p]) /\ OthersSame(p)
  BY <1>0, GotoFields DEF PutBack
<1>2. /\ proc[p].pc = "putback" /\ rows' = rows /\ doubt' = doubt
      /\ live' \in {live, live \cup {proc[p].cur}}
  BY DEF PutBack, At, database, files
<1>3. lock = p /\ proc[p].op # "upload"
  BY <1>2 DEF TrackedInv, IInv, LockHeld, Critical, Reconcile, LoopsAreSafe
<1>4. proc[p].cur \in rows
  BY <1>2 DEF TrackedInv, Tracked
<1>5. Tracked(p)' /\ StillAnswers(p)
  BY <1>1, <1>2, <1>3 DEF TrackedInv, Tracked, SameRequest, StillAnswers
<1>6. doubt = NoTransaction
  BY <1>3, FreshAssumption DEF TrackedInv, IInv, DoubtIsSafe
<1>7. DoubtTracked'
  BY <1>2, <1>6 DEF DoubtTracked, NoTransaction
<1> QED BY <1>1, <1>2, <1>3, <1>4, <1>5, <1>7 DEF StepTracks

\* A step of no process: notes change, or PostgreSQL decides a doubtful commit.
OutsideTracks ==
    /\ proc' = proc /\ live' = live /\ rows \cap live \subseteq rows'
    /\ DoubtTracked'
    /\ \A q \in Procs : lock = q => rows \subseteq rows'

\* Every step is one or the other.
LEMMA EveryStepTracks ==
  ASSUME Backend = "local", "connection" \notin Faults, TrackedInv, [Next]_vars
  PROVE  OutsideTracks \/ \E p \in Procs : StepTracks(p)
<1>0. IInv /\ TypeOK
  BY DEF TrackedInv, IInv
<1>1. ASSUME NEW p \in Handlers, Request(p) PROVE StepTracks(p) /\ p \in Procs
  <2>0. p \in Procs
    BY DEF Procs
  <2>1. ASSUME NEW k \in Keys, Upload(p, k) PROVE StepTracks(p)
    BY <2>0, <2>1, BeginTracks DEF Upload
  <2>2. ASSUME NEW k \in Keys, DeleteAttachment(p, k) PROVE StepTracks(p)
    <3>1. Begin(p, "delete", "quarantine", {k}, {}, {k}) /\ {k} \subseteq rows
      BY <2>2 DEF DeleteAttachment
    <3> QED BY <2>0, <3>1, BeginTracks
  <2>3. ASSUME NEW u \in Users, DeleteAccount(p, u) PROVE StepTracks(p)
    <3> DEFINE owned == {n \in Notes : OwnerOf[n] = u /\ notes[n] # "gone"}
    <3>1. Begin(p, "account", "quarantine", KeysOf(owned), owned, KeysOf(owned))
      BY <2>3 DEF DeleteAccount
    <3>2. KeysOf(owned) \subseteq rows
      BY DEF KeysOf
    <3> HIDE DEF owned
    <3> QED BY <2>0, <3>1, <3>2, BeginTracks
  <2> QED BY <1>1, <2>0, <2>1, <2>2, <2>3 DEF Request
<1>2. CASE PurgeDeleted
  BY <1>2, BeginTracks DEF PurgeDeleted, Procs
<1>3. ASSUME NEW p \in Procs, Relock(p) \/ Write(p) PROVE StepTracks(p)
  BY <1>3, ReadingTracks, WriteTracks
<1>4. ASSUME NEW p \in Procs, Quarantining(p) PROVE StepTracks(p)
  <2>1. ~QuarantineDelete(p) /\ ~RestoreDelete(p) /\ \A k \in Keys : ~QuarantineCopy(p, k)
    BY <1>0 DEF QuarantineDelete, RestoreDelete, QuarantineCopy, At, IInv, LoopsAreSafe
  <2> QED BY <1>4, <2>1, MoveTracks, MovedTracks, RefusalTracks, RestoreTracks, RestoredTracks
          DEF Quarantining
<1>5. ASSUME NEW p \in Procs, Committing(p) PROVE StepTracks(p)
  <2>1. CASE CommitFails(p)
    <3>1. /\ rows' = rows /\ live' = live /\ doubt' = doubt
          /\ \/ proc[p].op = "upload" /\ Loop(p, "quarantine", proc[p].target)
             \/ proc[p].op # "upload" /\ TryReconcile(p)
      BY <2>1 DEF CommitFails, AfterRollback, files, database
    <3> QED BY <3>1, UndoTracks
  <2>2. CASE DiscardDone(p)
    <3>1. /\ Become(p, Idle) /\ rows' = rows /\ live' = live /\ doubt' = doubt
          /\ proc[p].pc = "discard"
      BY <2>2 DEF DiscardDone, At, files, database
    <3>2. StillAnswers(p)
      BY <3>1 DEF StillAnswers, Answering
    <3> QED BY <3>1, <3>2, EndTracks
  <2> QED BY <1>5, <2>1, <2>2, CommitTracks, DoubtTracks, RefreshTracks, DiscardTracks
          DEF Committing
<1>6. ASSUME NEW p \in Procs, Reconciling(p) PROVE StepTracks(p)
  <2>1. ~ReadLive(p) /\ ~ReadTrash(p) /\ ~DropLive(p) /\ ~PutBackDelete(p)
    BY <1>0 DEF ReadLive, ReadTrash, DropLive, PutBackDelete, At, IInv, LoopsAreSafe
  <2> QED BY <1>6, <2>1, ReadingTracks, PutBackTracks DEF Reconciling
<1>7. CASE Environment
  <2>1. ASSUME NEW n \in Notes, DeleteNote(n) \/ UndeleteNote(n) \/ Expire(n)
        PROVE  OutsideTracks
    BY <2>1 DEF DeleteNote, UndeleteNote, Expire, files, OutsideTracks, TrackedInv, DoubtTracked
  <2>2. ASSUME NEW p \in Procs, LoseConnection(p) PROVE FALSE
    BY <2>2 DEF LoseConnection, Fault
  <2>3. ASSUME NEW p \in Procs, Crash(p) PROVE StepTracks(p)
    <3>1. Become(p, Idle) /\ rows' = rows /\ live' = live /\ doubt' = doubt
      BY <2>3 DEF Crash, Finish, files, database
    <3>2. StillAnswers(p)
      BY <2>3 DEF StillAnswers
    <3> QED BY <3>1, <3>2, EndTracks
  <2>4. CASE ResolveDoubt
    <3>1. /\ proc' = proc /\ live' = live /\ doubt' = NoTransaction /\ lock = InDoubt
          /\ \/ doubt.op = "upload" /\ rows \subseteq rows'
             \/ doubt.op # "upload" /\ rows' \in {rows, rows \ doubt.target}
      BY <2>4 DEF ResolveDoubt, Apply, files
    <3>2. rows \cap live \subseteq rows'
      BY <3>1 DEF TrackedInv, DoubtTracked
    <3>3. DoubtTracked'
      BY <3>1 DEF DoubtTracked, NoTransaction
    <3> QED BY <3>1, <3>2, <3>3, FreshAssumption DEF OutsideTracks
  <2> QED BY <1>7, <2>1, <2>2, <2>3, <2>4 DEF Environment
<1>8. CASE UNCHANGED vars
  BY <1>8 DEF vars, OutsideTracks, TrackedInv, DoubtTracked
<1> QED BY <1>1, <1>2, <1>3, <1>4, <1>5, <1>6, <1>7, <1>8 DEF Next, Work

\* The second strengthening is inductive, next to the first.
LEMMA TrackedStep ==
  ASSUME Backend = "local", "connection" \notin Faults, TrackedInv, [Next]_vars
  PROVE  TrackedInv'
<1>1. IInv'
  BY IInvStep DEF TrackedInv
<1>2. CASE OutsideTracks
  <2>1. ASSUME NEW q \in Procs PROVE Tracked(q)'
    BY <1>2, BystanderTracked DEF OutsideTracks, TrackedInv
  <2> QED BY <1>1, <1>2, <2>1 DEF OutsideTracks, TrackedInv
<1>3. ASSUME NEW p \in Procs, StepTracks(p) PROVE TrackedInv'
  <2>1. ASSUME NEW q \in Procs \ {p} PROVE Tracked(q)'
    <3>1. /\ proc'[q] = proc[q] /\ rows \cap live \subseteq rows'
          /\ lock = q => rows \subseteq rows' /\ live' \subseteq live
          /\ \A k \in live' \ live : k \in rows' \/ k \notin KeysAt(q)
      BY <1>3 DEF StepTracks, OthersSame
    <3> QED BY <3>1, BystanderTracked DEF TrackedInv
  <2>2. Tracked(p)' /\ DoubtTracked'
    BY <1>3 DEF StepTracks
  <2> QED BY <1>1, <2>1, <2>2 DEF TrackedInv
<1> QED BY <1>2, <1>3, EveryStepTracks

\* An object that somebody answers for is answered for after the step, unless its
\* upload crashed or the store refused to undo it.
LEMMA LeaksOnlyByFailure ==
  ASSUME Backend = "local", "connection" \notin Faults, TrackedInv, [Next]_vars,
         NEW k \in Keys, k \in live, Kept(k), k \in live', ~Kept(k)'
  PROVE  \E p \in Procs : Crash(p) \/ QuarantineFails(p)
<1>1. k \notin trash /\ k \notin rows'
  BY DEF TrackedInv, IInv, OneCopy, Kept
<1>2. rows \cap live \subseteq rows'
  BY EveryStepTracks DEF OutsideTracks, StepTracks
<1>3. PICK u \in Procs : /\ proc[u].op = "upload" /\ k \in proc[u].target
                         /\ proc[u].pc \in Answering
  BY <1>1, <1>2 DEF Kept, Answering
<1>4. ~(/\ proc'[u].op = "upload" /\ proc'[u].target = proc[u].target
        /\ proc'[u].pc \in Answering)
  BY <1>3 DEF Kept, Answering
<1>5. proc'[u] # proc[u]
  BY <1>3, <1>4
<1>6. PICK p \in Procs : StepTracks(p)
  BY <1>5, EveryStepTracks DEF OutsideTracks
<1>7. p = u
  BY <1>5, <1>6 DEF StepTracks, OthersSame
<1> QED BY <1>1, <1>3, <1>4, <1>6, <1>7 DEF StepTracks, StillAnswers

\* The invariant behind the next theorem holds of every reachable state.
THEOREM LocalTracked ==
  ASSUME Backend = "local", "connection" \notin Faults
  PROVE  Spec => []TrackedInv
<1>1. Init => TrackedInv
  <2> SUFFICES ASSUME Init PROVE TrackedInv
    OBVIOUS
  <2>1. DoubtTracked
    BY DEF Init, DoubtTracked, NoTransaction
  <2>2. \A p \in Procs : Tracked(p)
    BY DEF Init, Tracked, Idle
  <2> QED BY <2>1, <2>2, InitIInv DEF TrackedInv
<1>2. TrackedInv /\ [Next]_vars => TrackedInv'
  BY TrackedStep
<1> QED BY <1>1, <1>2, PTL DEF Spec

\* No failed or doubtful commit, no deletion and no reconcile loses track of an
\* object: one that nobody answers for any more was left by a process that died or
\* by a store that refused to undo its upload, in that very step.
THEOREM LocalNoLeak ==
  ASSUME Backend = "local", "connection" \notin Faults
  PROVE  Spec => NoLeak
<1>1. TrackedInv /\ [Next]_vars =>
        [\A k \in Keys : k \in live /\ Kept(k) /\ (k \in live /\ ~Kept(k))' =>
             \E p \in Procs : Crash(p) \/ QuarantineFails(p)]_vars
  BY LeaksOnlyByFailure
<1> QED BY LocalTracked, <1>1, PTL DEF Spec, NoLeak

------------------------------------------------------------------------------
(* The lock is enough.  As long as files move under the lock, LockInvariant   *)
(* is inductive, for both backends and with every kind of failure.            *)

\* A step of p that attaches nothing and only has to do with keys p knows or
\* reads from the tables and from the quarantine.
StaysApart(p) ==
    /\ OthersSame(p)
    /\ rows' \subseteq rows /\ used' = used
    /\ \/ doubt' = doubt /\ lock' = lock
       \/ doubt' = doubt /\ lock = p /\ lock' = None
       \/ doubt' = doubt /\ lock = None /\ lock' = p
       \/ lock = p /\ lock' = InDoubt /\ doubt'.op # "upload"
    /\ live' \subseteq live \cup KeysAt(p) /\ live \ KeysAt(p) \subseteq live'
    /\ trash' \subseteq trash \cup KeysAt(p)
    /\ KeysAt(p)' \subseteq KeysAt(p) \cup rows \cup trash \cup {None}
    /\ proc'[p].op = "upload" => proc[p].op = "upload" /\ proc'[p].target = proc[p].target
    /\ Uploading(p)' => /\ Uploading(p) /\ trash' = trash
                        /\ proc'[p].pc = "commit" => proc'[p].target \subseteq live'

\* The bytes p takes away are not wanted, or are in the keys p may move.
TakesItsOwn(p) ==
    \A k \in Keys : Wanted(k) /\ k \in (live \ live') \cup (trash \ trash') => Touches(p, k)

\* At most one process moves the files of a wanted key.
LEMMA OneMover ==
  ASSUME LockInvariant, NEW p \in Procs, NEW q \in Procs, NEW k \in Keys,
         Wanted(k), Touches(p, k), Touches(q, k)
  PROVE  p = q
<1>1. lock \in Procs => doubt.op = "none"
  BY FreshAssumption DEF LockInvariant, DoubtFits, NoTransaction
<1>2. \A r \in Procs : lock = r /\ proc[r].op = "upload" => proc[r].pc \notin Moving
  BY DEF LockInvariant, LoopFits, Moving
<1>3. \A r \in Procs : lock = r /\ Touches(r, k) => proc[r].op # "upload"
  BY <1>2 DEF Touches
<1>4. lock = p => lock = q
  BY <1>1 DEF Touches, Wanted
<1>5. lock = q => lock = p
  BY <1>1 DEF Touches, Wanted
<1>6. ASSUME lock # p, lock # q PROVE p = q
  BY <1>6 DEF LockInvariant, UploadsApart, Touches
<1> QED BY <1>4, <1>5, <1>6

\* What such a step leaves of the invariant, but for the bytes and the loops.
LEMMA ApartKeeps ==
  ASSUME LockInvariant, TypeOK', NEW p \in Procs, StaysApart(p)
  PROVE  OnlyUsed' /\ UploadIsPrivate' /\ UploadsApart' /\ DoubtFits'
<1>0. TypeOK /\ OnlyUsed /\ UploadIsPrivate /\ UploadsApart /\ DoubtFits
  BY DEF LockInvariant
<1>1. \A q \in Procs : q # p => /\ proc'[q] = proc[q] /\ KeysAt(q)' = KeysAt(q)
                                /\ Uploading(q)' <=> Uploading(q)
  BY DEF StaysApart, OthersSame, KeysAt, Uploading
<1>2. \A q \in Procs : q # p => proc'[q] = proc[q]
  BY <1>1
<1>3. /\ live' \subseteq Keys /\ trash' \subseteq Keys /\ None \notin Keys
      /\ rows \subseteq used /\ live \subseteq used /\ trash \subseteq used
      /\ \A q \in Procs : KeysAt(q) \subseteq used \cup {None}
  BY <1>0, FreshAssumption DEF TypeOK, OnlyUsed
<1>used. OnlyUsed'
  <2>1. (rows \cup live \cup trash)' \subseteq used'
    BY <1>3 DEF StaysApart
  <2>2. ASSUME NEW q \in Procs PROVE KeysAt(q)' \subseteq used' \cup {None}
    BY <1>1, <1>3 DEF StaysApart
  <2> QED BY <2>1, <2>2 DEF OnlyUsed
<1>upload. UploadIsPrivate'
  <2> SUFFICES ASSUME NEW q \in Procs, Uploading(q)'
               PROVE  /\ proc'[q].target \cap (rows \cup trash)' = {}
                      /\ proc'[q].pc = "commit" => proc'[q].target \subseteq live'
                      /\ \A r \in Procs \ {q} : proc'[q].target \cap KeysAt(r)' = {}
    BY DEF UploadIsPrivate
  <2>1. Uploading(q) /\ proc'[q].target = proc[q].target /\ proc[q].target \subseteq Keys
    BY <1>0, <1>1, FieldsTyped DEF StaysApart, Uploading
  <2>2. /\ proc[q].target \cap (rows \cup trash) = {}
        /\ proc[q].pc = "commit" => proc[q].target \subseteq live
        /\ \A r \in Procs \ {q} : proc[q].target \cap KeysAt(r) = {}
    BY <1>0, <2>1 DEF UploadIsPrivate
  <2>3. None \notin proc[q].target
    BY <1>3, <2>1
  <2>4. CASE q = p
    BY <1>1, <2>1, <2>2, <2>4 DEF StaysApart
  <2>5. CASE q # p
    <3>1. proc[q].target \cap KeysAt(p) = {} /\ proc'[q] = proc[q]
      BY <1>1, <2>2, <2>5
    <3>2. proc'[q].target \cap (rows \cup trash)' = {}
      BY <2>1, <2>2, <3>1 DEF StaysApart
    <3>3. proc'[q].pc = "commit" => proc'[q].target \subseteq live'
      BY <2>1, <2>2, <3>1 DEF StaysApart
    <3>4. ASSUME NEW r \in Procs \ {q} PROVE proc'[q].target \cap KeysAt(r)' = {}
      BY <1>1, <2>1, <2>2, <2>3, <3>1 DEF StaysApart
    <3> QED BY <3>2, <3>3, <3>4
  <2> QED BY <2>4, <2>5
<1>apart. UploadsApart'
  BY <1>0, <1>1 DEF StaysApart, UploadsApart, Uploading
<1>doubt. DoubtFits'
  <2>1. lock' # InDoubt => doubt' = NoTransaction
    BY <1>0, FreshAssumption DEF StaysApart, DoubtFits
  <2>2. doubt'.op = "upload" => doubt'.target \cap rows' = {}
    <3>1. rows' \subseteq rows /\ (doubt' = doubt \/ doubt'.op # "upload")
      BY DEF StaysApart
    <3>2. doubt.op = "upload" => doubt.target \cap rows = {}
      BY <1>0 DEF DoubtFits
    <3> QED BY <3>1, <3>2
  <2> QED BY <2>1, <2>2 DEF DoubtFits
<1> QED BY <1>used, <1>upload, <1>apart, <1>doubt

\* A bystander's loops, when nothing new is wanted.
LEMMA BystanderFits ==
  ASSUME LockInvariant, MovesUnderLock, NEW p \in Procs, NEW q \in Procs \ {p},
         proc'[q] = proc[q], rows' \subseteq rows,
         \A k \in Keys : Wanted(k)' => Wanted(k), TakesItsOwn(p),
         lock' = q => lock = q, TypeOK
  PROVE  LoopFits(q)'
<1>1. LoopFits(q) /\ q \in Procs /\ q # p
  BY DEF LockInvariant
<1>2. proc[q].cur \in Keys \cup {None} /\ proc[q].todo \subseteq Keys
  BY FieldsTyped
<1>3. ASSUME proc[q].pc \in Moving, proc[q].cur \in Keys, Wanted(proc[q].cur)
      PROVE  /\ proc[q].cur \in live => proc[q].cur \in live'
             /\ proc[q].cur \in trash => proc[q].cur \in trash'
  <2>1. Touches(q, proc[q].cur)
    BY <1>1, <1>3, FreshAssumption DEF Touches, MovesUnderLock, LoopFits
  <2> QED BY <1>1, <1>3, <2>1, OneMover DEF TakesItsOwn
<1>4. proc[q].pc \in Moving /\ proc[q].cur \in rows' =>
         (proc[q].cur \in live => proc[q].cur \in live')
  BY <1>2, <1>3, FreshAssumption DEF Wanted, LockInvariant, TypeOK
<1>5. proc[q].pc \in {"quarantine", "restore"} => proc[q].pc \in Moving
  BY DEF Moving
<1>6. proc[q].pc \in {"readtrash", "droptrash", "putbackdelete"} => proc[q].pc \in Moving
  BY DEF Moving
<1> QED BY <1>1, <1>2, <1>3, <1>4, <1>5, <1>6 DEF LoopFits, Inspecting

\* No wanted byte is dropped.
DropsNothingWanted == \A k \in Keys : Wanted(k) => k \in live' \cup trash'

\* The invariant after a step that attaches nothing: what is left to show is
\* that the bytes are there and that the process fits.
LEMMA ApartStep ==
  ASSUME LockInvariant, MovesUnderLock, TypeOK', NEW p \in Procs, StaysApart(p),
         TakesItsOwn(p), DropsNothingWanted, LoopFits(p)'
  PROVE  LockInvariant'
<1>1. \A k \in Keys : Wanted(k)' => Wanted(k)
  BY DEF StaysApart, Wanted
<1>2. ASSUME NEW q \in Procs \ {p} PROVE LoopFits(q)'
  BY <1>1, BystanderFits, FreshAssumption DEF StaysApart, OthersSame, LockInvariant
<1>3. BytesKept'
  BY <1>1 DEF BytesKept, DropsNothingWanted
<1> QED BY <1>2, <1>3, ApartKeeps DEF LockInvariant

\* A step that changes neither the files nor the tables.
Plain(p) ==
    /\ OthersSame(p)
    /\ rows' = rows /\ live' = live /\ trash' = trash /\ used' = used /\ doubt' = doubt
    /\ \/ lock' = lock
       \/ lock = p /\ lock' = None
       \/ lock = None /\ lock' = p

\* Such a step of a process that keeps its transaction.
LEMMA PlainStep ==
  ASSUME LockInvariant, MovesUnderLock, TypeOK', NEW p \in Procs, Plain(p),
         KeysAt(p)' \subseteq KeysAt(p) \cup rows \cup trash \cup {None},
         proc'[p].op = "upload" => proc[p].op = "upload" /\ proc'[p].target = proc[p].target,
         Uploading(p)' => Uploading(p) /\ proc'[p].pc = proc[p].pc,
         LoopFits(p)'
  PROVE  LockInvariant'
<1>1. StaysApart(p)
  <2>1. Uploading(p)' /\ proc'[p].pc = "commit" => proc'[p].target \subseteq live'
    BY DEF LockInvariant, UploadIsPrivate, Uploading, Plain
  <2> QED BY <2>1 DEF StaysApart, Plain
<1>2. TakesItsOwn(p) /\ DropsNothingWanted
  BY DEF TakesItsOwn, DropsNothingWanted, Plain, LockInvariant, BytesKept
<1> QED BY <1>1, <1>2, ApartStep

\* A process that ends, by itself, by an exception or in a crash.
LEMMA LockEnd ==
  ASSUME LockInvariant, MovesUnderLock, TypeOK', NEW p \in Procs, Become(p, Idle),
         rows' = rows, live' = live, trash' = trash, used' = used, doubt' = doubt,
         lock' = lock \/ (lock = p /\ lock' = None)
  PROVE  LockInvariant'
<1>1. /\ proc'[p].pc = "idle" /\ proc'[p].op = "none" /\ KeysAt(p)' = {None}
      /\ OthersSame(p)
  BY BecomeFields DEF LockInvariant, Idle, KeysAt
<1>2. LoopFits(p)' /\ ~Uploading(p)'
  BY <1>1 DEF LoopFits, Inspecting, Uploading
<1> QED BY <1>1, <1>2, PlainStep DEF Plain

\* A process that goes on to reconcile.
LEMMA LockTryReconcile ==
  ASSUME LockInvariant, MovesUnderLock, TypeOK', NEW p \in Procs, TryReconcile(p),
         rows' = rows, live' = live, trash' = trash, used' = used, doubt' = doubt,
         lock' = lock \/ (lock = p /\ lock' = None)
  PROVE  LockInvariant'
<1>1. /\ proc'[p].pc = "relock" /\ proc'[p].op = "reconcile" /\ proc'[p].moved = {}
      /\ KeysAt(p)' = {None} /\ OthersSame(p)
  BY TryReconcileFields DEF LockInvariant, KeysAt
<1>2. LoopFits(p)' /\ ~Uploading(p)'
  BY <1>1 DEF LoopFits, Inspecting, Uploading
<1> QED BY <1>1, <1>2, PlainStep DEF Plain

\* A deletion, or the purge, begins.
LEMMA LockBegin ==
  ASSUME LockInvariant, MovesUnderLock, TypeOK', NEW p \in Procs, NEW op, NEW pc,
         NEW target, NEW drop, Begin(p, op, pc, target, drop, target), used' = used,
         op # "upload", pc \in {"quarantine", "list"}, target \subseteq rows
  PROVE  LockInvariant'
<1>1. /\ proc'[p].pc = pc /\ proc'[p].op = op /\ proc'[p].target = target
      /\ proc'[p].todo = target /\ proc'[p].moved = {} /\ proc'[p].cur = None
      /\ OthersSame(p)
  BY BeginFields DEF LockInvariant
<1>2. KeysAt(p)' \subseteq rows \cup {None} /\ ~Uploading(p)'
  BY <1>1 DEF KeysAt, Uploading
<1>3. LoopFits(p)'
  BY <1>1 DEF LoopFits, Inspecting
<1>4. Plain(p)
  BY <1>1 DEF Begin, Plain, files, database
<1> QED BY <1>1, <1>2, <1>3, <1>4, PlainStep

\* The undo of an upload starts over with its key, after the lock is gone.
LEMMA LockUndo ==
  ASSUME LockInvariant, MovesUnderLock, TypeOK', NEW p \in Procs,
         proc[p].op = "upload", Loop(p, "quarantine", proc[p].target),
         rows' = rows, live' \in {live, live \cup proc[p].target}, trash' = trash,
         used' = used, doubt' = doubt, lock' # p,
         lock' = lock \/ (lock = p /\ lock' = None)
  PROVE  LockInvariant'
<1>1. /\ proc'[p].pc = "quarantine" /\ proc'[p].cur = None
      /\ proc'[p].todo = proc[p].target /\ SameRequest(proc'[p], proc[p]) /\ OthersSame(p)
  BY LoopFields DEF LockInvariant
<1>2. proc[p].moved \subseteq proc[p].target
  BY FieldsTyped, FreshAssumption DEF LockInvariant, LoopFits
<1>3. LoopFits(p)' /\ ~Uploading(p)'
  BY <1>1, <1>2 DEF LoopFits, Inspecting, Uploading, SameRequest
<1>4. KeysAt(p)' \subseteq KeysAt(p) \cup {None} /\ proc[p].target \subseteq KeysAt(p)
  BY <1>1 DEF KeysAt, SameRequest
<1>5. StaysApart(p)
  BY <1>1, <1>3, <1>4 DEF StaysApart, SameRequest
<1>6. TakesItsOwn(p) /\ DropsNothingWanted
  BY DEF TakesItsOwn, DropsNothingWanted, LockInvariant, BytesKept
<1> QED BY <1>3, <1>5, <1>6, ApartStep

\* An upload takes a key that occurs nowhere.
LEMMA LockUpload ==
  ASSUME LockInvariant, TypeOK', NEW p \in Procs, NEW k \in Keys, Upload(p, k)
  PROVE  LockInvariant'
<1>1. /\ proc'[p].pc = "write" /\ proc'[p].op = "upload" /\ proc'[p].target = {k}
      /\ proc'[p].todo = {} /\ proc'[p].moved = {} /\ proc'[p].cur = None
      /\ OthersSame(p)
  BY BeginFields DEF LockInvariant, Upload
<1>2. /\ rows' = rows /\ live' = live /\ trash' = trash /\ doubt' = doubt
      /\ used' = used \cup {k} /\ lock = None /\ lock' = p /\ proc[p].pc = "idle"
  BY DEF Upload, Begin, files, database, At
<1>3. /\ k \notin used /\ k \notin rows \cup live \cup trash /\ doubt = NoTransaction
      /\ \A q \in Procs : k \notin KeysAt(q)
  BY <1>2, FreshAssumption DEF Upload, LockInvariant, OnlyUsed, DoubtFits
<1>4. KeysAt(p)' = {k, None}
  BY <1>1 DEF KeysAt
<1>5. \A q \in Procs \ {p} : /\ proc'[q] = proc[q] /\ KeysAt(q)' = KeysAt(q)
                             /\ lock # q /\ lock' # q
  BY <1>1, <1>2, FreshAssumption DEF OthersSame, KeysAt
<1>6. doubt.op = "none"
  BY <1>3 DEF NoTransaction
<1>bytes. BytesKept'
  BY <1>2 DEF LockInvariant, BytesKept, Wanted
<1>used. OnlyUsed'
  BY <1>2, <1>4, <1>5 DEF LockInvariant, OnlyUsed
<1>upload. UploadIsPrivate'
  <2>1. UploadIsPrivate
    BY DEF LockInvariant
  <2>2. ASSUME NEW q \in Procs \ {p}, Uploading(q)'
        PROVE  /\ proc'[q].target \cap (rows \cup trash)' = {}
               /\ proc'[q].pc = "commit" => proc'[q].target \subseteq live'
               /\ \A r \in Procs \ {q} : proc'[q].target \cap KeysAt(r)' = {}
    <3>1. Uploading(q) /\ k \notin proc[q].target /\ None \notin proc[q].target
      BY <1>3, <1>5, <2>2, FieldsTyped, FreshAssumption DEF Uploading, KeysAt, LockInvariant
    <3> QED BY <1>2, <1>4, <1>5, <2>1, <3>1 DEF UploadIsPrivate
  <2>3. /\ proc'[p].target \cap (rows \cup trash)' = {} /\ proc'[p].pc # "commit"
        /\ \A r \in Procs \ {p} : proc'[p].target \cap KeysAt(r)' = {}
    BY <1>1, <1>2, <1>3, <1>5
  <2> QED BY <2>2, <2>3 DEF UploadIsPrivate
<1>apart. UploadsApart'
  <2>1. \A q \in Procs : k \notin proc[q].target
    BY <1>3 DEF KeysAt
  <2> QED BY <1>1, <1>2, <1>5, <1>6, <2>1 DEF LockInvariant, UploadsApart
<1>doubt. DoubtFits'
  BY <1>2, <1>3, <1>6 DEF DoubtFits
<1>loops. ASSUME NEW q \in Procs PROVE LoopFits(q)'
  <2>1. CASE q = p
    BY <1>1, <2>1 DEF LoopFits, Inspecting
  <2>2. CASE q # p
    <3>1. LoopFits(q)
      BY DEF LockInvariant
    <3> QED BY <1>2, <1>5, <2>2, <3>1 DEF LoopFits, Inspecting, Wanted
  <2> QED BY <2>1, <2>2
<1> QED BY <1>bytes, <1>used, <1>upload, <1>apart, <1>doubt, <1>loops DEF LockInvariant

\* storage.write, or its failure.
LEMMA LockWrite ==
  ASSUME LockInvariant, MovesUnderLock, TypeOK', NEW p \in Procs, Write(p)
  PROVE  LockInvariant'
<1>0. /\ proc[p].pc = "write" /\ proc[p].op = "upload" /\ proc[p].target \subseteq KeysAt(p)
      /\ rows' = rows /\ trash' = trash /\ used' = used /\ doubt' = doubt
  BY DEF Write, At, LockInvariant, LoopFits, KeysAt, database
<1>1. CASE /\ live' = live \cup proc[p].target /\ Goto(p, "commit") /\ lock' = lock
  <2>1. /\ proc'[p].pc = "commit" /\ proc'[p].cur = None /\ proc'[p].todo = proc[p].todo
        /\ SameRequest(proc'[p], proc[p]) /\ OthersSame(p)
    BY <1>1, GotoFields DEF LockInvariant
  <2>2. proc[p].todo \cup proc[p].moved \subseteq proc[p].target
    BY <1>0, FieldsTyped, FreshAssumption DEF LockInvariant, LoopFits
  <2>3. LoopFits(p)'
    BY <1>0, <2>1, <2>2 DEF LoopFits, Inspecting, SameRequest
  <2>4. KeysAt(p)' \subseteq KeysAt(p) \cup {None}
    BY <2>1 DEF KeysAt, SameRequest
  <2>5. Uploading(p)
    BY <1>0 DEF Uploading
  <2>6. StaysApart(p)
    BY <1>0, <1>1, <2>1, <2>4, <2>5 DEF StaysApart, SameRequest
  <2>7. TakesItsOwn(p) /\ DropsNothingWanted
    BY <1>0, <1>1 DEF TakesItsOwn, DropsNothingWanted, LockInvariant, BytesKept
  <2> QED BY <2>3, <2>6, <2>7, ApartStep
<1>2. CASE /\ live' \in {live, live \cup proc[p].target} /\ Release(p)
           /\ Loop(p, "quarantine", proc[p].target)
  <2>1. lock' # p /\ (lock' = lock \/ (lock = p /\ lock' = None))
    BY <1>2, FreshAssumption DEF Release
  <2> QED BY <1>0, <1>2, <2>1, LockUndo
<1> QED BY <1>1, <1>2 DEF Write

\* One key of the quarantine, renamed or copied.
LEMMA LockQuarantine ==
  ASSUME LockInvariant, MovesUnderLock, TypeOK', NEW p \in Procs, NEW k \in Keys,
         QuarantineLocal(p, k) \/ QuarantineCopy(p, k)
  PROVE  LockInvariant'
<1>0. /\ proc[p].pc = "quarantine" /\ k \in proc[p].todo /\ LoopFits(p) /\ TypeOK
      /\ rows' = rows /\ used' = used /\ doubt' = doubt /\ lock' = lock
      /\ k \in KeysAt(p)
  BY DEF QuarantineLocal, QuarantineCopy, At, LockInvariant, KeysAt, database
<1>1. /\ proc'[p].pc = "quarantine" /\ proc'[p].op = proc[p].op
      /\ proc'[p].target = proc[p].target /\ proc'[p].todo = proc[p].todo \ {k}
      /\ proc'[p].moved \subseteq proc[p].moved \cup {k} /\ OthersSame(p)
      /\ proc'[p].cur = proc[p].cur \/ (proc'[p].cur = k /\ k \in trash')
      /\ trash \subseteq trash' /\ trash' \subseteq trash \cup {k}
      /\ live' = live \/ (live' = live \ {k} /\ k \in trash')
  <2> DEFINE s == [proc[p] EXCEPT !.todo = @ \ {k}]
             t == [proc[p] EXCEPT !.todo = @ \ {k}, !.moved = @ \cup {k}]
             u == [proc[p] EXCEPT !.todo = @ \ {k}, !.moved = @ \cup {k}, !.cur = k]
  <2>1. /\ s.pc = proc[p].pc /\ s.op = proc[p].op /\ s.target = proc[p].target
        /\ s.todo = proc[p].todo \ {k} /\ s.moved = proc[p].moved /\ s.cur = proc[p].cur
    BY <1>0, FieldsTyped DEF ProcState
  <2>2. /\ t.pc = proc[p].pc /\ t.op = proc[p].op /\ t.target = proc[p].target
        /\ t.todo = proc[p].todo \ {k} /\ t.moved = proc[p].moved \cup {k}
        /\ t.cur = proc[p].cur
    BY <1>0, FieldsTyped DEF ProcState
  <2>3. /\ u.pc = proc[p].pc /\ u.op = proc[p].op /\ u.target = proc[p].target
        /\ u.todo = proc[p].todo \ {k} /\ u.moved = proc[p].moved \cup {k} /\ u.cur = k
    BY <1>0, FieldsTyped DEF ProcState
  <2>4. \/ Become(p, s) /\ live' = live /\ trash' = trash
        \/ Become(p, t) /\ live' = live \ {k} /\ trash' = trash \cup {k}
        \/ Become(p, u) /\ live' = live /\ trash' = trash \cup {k}
    BY DEF QuarantineLocal, QuarantineCopy, files
  <2>5. \/ proc'[p] = s /\ live' = live /\ trash' = trash
        \/ proc'[p] = t /\ live' = live \ {k} /\ trash' = trash \cup {k}
        \/ proc'[p] = u /\ live' = live /\ trash' = trash \cup {k}
    BY <1>0, <2>4, BecomeFields
  <2>6. OthersSame(p)
    BY <1>0, <2>4, BecomeFields
  <2> HIDE DEF s, t, u
  <2> QED BY <1>0, <2>1, <2>2, <2>3, <2>5, <2>6
<1>2. KeysAt(p)' \subseteq KeysAt(p)
  BY <1>0, <1>1 DEF KeysAt
<1>3. ~Uploading(p)'
  BY <1>1 DEF Uploading
<1>4. StaysApart(p)
  BY <1>0, <1>1, <1>2, <1>3 DEF StaysApart
<1>5. LoopFits(p)'
  BY <1>0, <1>1 DEF LoopFits, Inspecting, Wanted
<1>6. TakesItsOwn(p)
  <2>1. Wanted(k) => Touches(p, k)
    BY <1>0 DEF MovesUnderLock, Moving, LoopFits, Touches
  <2> QED BY <1>1, <2>1 DEF TakesItsOwn
<1>7. DropsNothingWanted
  BY <1>1 DEF DropsNothingWanted, LockInvariant, BytesKept
<1> QED BY <1>4, <1>5, <1>6, <1>7, ApartStep

\* The delete that ends a copied quarantine.
LEMMA LockQuarantineDelete ==
  ASSUME LockInvariant, MovesUnderLock, TypeOK', NEW p \in Procs, QuarantineDelete(p)
  PROVE  LockInvariant'
<1>0. /\ proc[p].pc = "quarantine" /\ proc[p].cur # None /\ LoopFits(p)
      /\ live' = live \ {proc[p].cur} /\ Goto(p, "quarantine") /\ trash' = trash
      /\ rows' = rows /\ used' = used /\ doubt' = doubt /\ lock' = lock
      /\ proc[p].cur \in KeysAt(p)
  BY DEF QuarantineDelete, At, LockInvariant, KeysAt, database
<1>1. /\ proc'[p].pc = "quarantine" /\ proc'[p].cur = None /\ proc'[p].todo = proc[p].todo
      /\ SameRequest(proc'[p], proc[p]) /\ OthersSame(p)
  BY <1>0, GotoFields DEF LockInvariant
<1>2. KeysAt(p)' \subseteq KeysAt(p) \cup {None} /\ ~Uploading(p)'
  BY <1>1 DEF KeysAt, Uploading, SameRequest
<1>3. StaysApart(p)
  BY <1>0, <1>1, <1>2 DEF StaysApart, SameRequest
<1>4. LoopFits(p)'
  BY <1>0, <1>1 DEF LoopFits, Inspecting, SameRequest
<1>5. TakesItsOwn(p)
  <2>1. Touches(p, proc[p].cur)
    BY <1>0 DEF MovesUnderLock, Moving, LoopFits, Touches
  <2> QED BY <1>0, <2>1 DEF TakesItsOwn
<1>6. DropsNothingWanted
  BY <1>0 DEF DropsNothingWanted, LockInvariant, BytesKept, LoopFits
<1> QED BY <1>3, <1>4, <1>5, <1>6, ApartStep

\* The quarantine is done, or a storage error starts the restore.
LEMMA LockQuarantineEnds ==
  ASSUME LockInvariant, MovesUnderLock, TypeOK', NEW p \in Procs,
         QuarantineDone(p) \/ QuarantineFails(p)
  PROVE  LockInvariant'
<1>0. /\ proc[p].pc = "quarantine" /\ LoopFits(p) /\ TypeOK
      /\ live' = live /\ trash' = trash /\ rows' = rows /\ used' = used
      /\ doubt' = doubt /\ lock' = lock
  BY DEF QuarantineDone, QuarantineFails, At, LockInvariant, files, database
<1>1. CASE QuarantineFails(p)
  <2>1. /\ proc'[p].pc = "restore" /\ proc'[p].cur = None /\ proc'[p].todo = proc[p].moved
        /\ SameRequest(proc'[p], proc[p]) /\ OthersSame(p)
    BY <1>0, <1>1, LoopFields DEF QuarantineFails
  <2>2. KeysAt(p)' \subseteq KeysAt(p) \cup {None} /\ ~Uploading(p)'
    BY <2>1 DEF KeysAt, Uploading, SameRequest
  <2>3. LoopFits(p)'
    BY <1>0, <2>1 DEF LoopFits, Inspecting, SameRequest
  <2> QED BY <1>0, <2>1, <2>2, <2>3, PlainStep DEF Plain, SameRequest
<1>2. CASE QuarantineDone(p) /\ proc[p].op = "upload"
  BY <1>0, <1>2, LockTryReconcile DEF QuarantineDone
<1>3. CASE QuarantineDone(p) /\ proc[p].op # "upload"
  <2>1. /\ proc'[p].pc = "commit" /\ proc'[p].cur = None /\ proc'[p].todo = proc[p].todo
        /\ SameRequest(proc'[p], proc[p]) /\ OthersSame(p)
    BY <1>0, <1>3, GotoFields DEF QuarantineDone
  <2>2. KeysAt(p)' \subseteq KeysAt(p) \cup {None} /\ ~Uploading(p)'
    BY <1>3, <2>1 DEF KeysAt, Uploading, SameRequest
  <2>3. LoopFits(p)'
    BY <1>0, <1>3, <2>1 DEF LoopFits, Inspecting, SameRequest
  <2> QED BY <1>0, <2>1, <2>2, <2>3, PlainStep DEF Plain, SameRequest
<1> QED BY <1>1, <1>2, <1>3

\* One key of the restore.
LEMMA LockRestore ==
  ASSUME LockInvariant, MovesUnderLock, TypeOK', NEW p \in Procs, NEW k \in Keys,
         Restore(p, k)
  PROVE  LockInvariant'
<1>0. /\ proc[p].pc = "restore" /\ k \in proc[p].todo /\ proc[p].cur = None
      /\ LoopFits(p) /\ TypeOK /\ k \in KeysAt(p)
      /\ rows' = rows /\ used' = used /\ doubt' = doubt /\ lock' = lock
  BY DEF Restore, At, LockInvariant, KeysAt, database
<1>1. /\ proc'[p].pc = "restore" /\ proc'[p].op = proc[p].op
      /\ proc'[p].target = proc[p].target /\ proc'[p].todo = proc[p].todo \ {k}
      /\ proc'[p].moved = proc[p].moved /\ OthersSame(p)
      /\ proc'[p].cur = None \/ (proc'[p].cur = k /\ k \in live')
      /\ live \subseteq live' /\ live' \subseteq live \cup {k}
      /\ trash' = trash \/ (trash' = trash \ {k} /\ k \in live')
  <2> DEFINE s == [proc[p] EXCEPT !.todo = @ \ {k}]
             c == IF Backend = "local" THEN None ELSE k
             t == [proc[p] EXCEPT !.todo = @ \ {k}, !.cur = c]
  <2>1. /\ s.pc = proc[p].pc /\ s.op = proc[p].op /\ s.target = proc[p].target
        /\ s.todo = proc[p].todo \ {k} /\ s.moved = proc[p].moved /\ s.cur = None
    BY <1>0, FieldsTyped DEF ProcState
  <2>2. /\ t.pc = proc[p].pc /\ t.op = proc[p].op /\ t.target = proc[p].target
        /\ t.todo = proc[p].todo \ {k} /\ t.moved = proc[p].moved /\ t.cur \in {None, k}
    BY <1>0, FieldsTyped DEF ProcState
  <2>3. \/ Become(p, s) /\ live' = live /\ trash' = trash
        \/ /\ Become(p, t) /\ live' = live \cup {k}
           /\ trash' = trash \/ trash' = trash \ {k}
    BY DEF Restore, files
  <2>4. OthersSame(p)
    BY <1>0, <2>3, BecomeFields
  <2>5. \/ proc'[p] = s /\ live' = live /\ trash' = trash
        \/ /\ proc'[p] = t /\ live' = live \cup {k}
           /\ trash' = trash \/ trash' = trash \ {k}
    BY <1>0, <2>3, BecomeFields
  <2> HIDE DEF s, t
  <2> QED BY <1>0, <2>1, <2>2, <2>4, <2>5
<1>2. KeysAt(p)' \subseteq KeysAt(p) /\ ~Uploading(p)'
  BY <1>0, <1>1 DEF KeysAt, Uploading
<1>3. StaysApart(p)
  BY <1>0, <1>1, <1>2 DEF StaysApart
<1>4. LoopFits(p)'
  BY <1>0, <1>1 DEF LoopFits, Inspecting, Wanted
<1>5. TakesItsOwn(p)
  <2>1. Wanted(k) => Touches(p, k)
    BY <1>0, FreshAssumption DEF MovesUnderLock, Moving, LoopFits, Touches
  <2> QED BY <1>1, <2>1 DEF TakesItsOwn
<1>6. DropsNothingWanted
  BY <1>1 DEF DropsNothingWanted, LockInvariant, BytesKept
<1> QED BY <1>3, <1>4, <1>5, <1>6, ApartStep

\* The delete that ends a copied restore.
LEMMA LockRestoreDelete ==
  ASSUME LockInvariant, MovesUnderLock, TypeOK', NEW p \in Procs, RestoreDelete(p)
  PROVE  LockInvariant'
<1>0. /\ proc[p].pc = "restore" /\ proc[p].cur # None /\ LoopFits(p)
      /\ trash' = trash \ {proc[p].cur} /\ Goto(p, "restore") /\ live' = live
      /\ rows' = rows /\ used' = used /\ doubt' = doubt /\ lock' = lock
      /\ proc[p].cur \in KeysAt(p)
  BY DEF RestoreDelete, At, LockInvariant, KeysAt, database
<1>1. /\ proc'[p].pc = "restore" /\ proc'[p].cur = None /\ proc'[p].todo = proc[p].todo
      /\ SameRequest(proc'[p], proc[p]) /\ OthersSame(p)
  BY <1>0, GotoFields DEF LockInvariant
<1>2. KeysAt(p)' \subseteq KeysAt(p) \cup {None} /\ ~Uploading(p)'
  BY <1>1 DEF KeysAt, Uploading, SameRequest
<1>3. StaysApart(p)
  BY <1>0, <1>1, <1>2 DEF StaysApart, SameRequest
<1>4. LoopFits(p)'
  BY <1>0, <1>1 DEF LoopFits, Inspecting, SameRequest
<1>5. TakesItsOwn(p)
  <2>1. Touches(p, proc[p].cur)
    BY <1>0 DEF MovesUnderLock, Moving, LoopFits, Touches
  <2> QED BY <1>0, <2>1 DEF TakesItsOwn
<1>6. DropsNothingWanted
  BY <1>0 DEF DropsNothingWanted, LockInvariant, BytesKept, LoopFits
<1> QED BY <1>3, <1>4, <1>5, <1>6, ApartStep

\* The restore ends, with its request or with another error.
LEMMA LockRestoreEnds ==
  ASSUME LockInvariant, MovesUnderLock, TypeOK', NEW p \in Procs, RestoreEnds(p)
  PROVE  LockInvariant'
<1>0. /\ live' = live /\ trash' = trash /\ rows' = rows /\ used' = used /\ doubt' = doubt
      /\ IF proc[p].op = "upload" THEN TryReconcile(p) /\ lock' = lock ELSE Finish(p)
  BY DEF RestoreEnds, files, database
<1> QED BY <1>0, LockTryReconcile, LockEnd DEF Finish, Release

\* An upload at its commit with the lock: its key is private and its bytes wait.
LEMMA AtItsCommit ==
  ASSUME LockInvariant, NEW p \in Procs, proc[p].pc = "commit", proc[p].op = "upload",
         lock = p
  PROVE  /\ doubt.op = "none" /\ doubt = NoTransaction
         /\ proc[p].target \subseteq live /\ proc[p].target \cap rows = {}
         /\ \A q \in Procs \ {p} : proc[p].target \cap KeysAt(q) = {}
         /\ proc[p].moved \subseteq proc[p].target /\ proc[p].target \subseteq Keys
BY FieldsTyped, FreshAssumption
   DEF LockInvariant, UploadIsPrivate, Uploading, DoubtFits, NoTransaction, LoopFits

\* The key of an upload becomes wanted, in the tables or in doubt: nobody else
\* knows it, and its object is there.
LEMMA LockAttach ==
  ASSUME LockInvariant, TypeOK', NEW p \in Procs, proc[p].pc = "commit",
         proc[p].op = "upload", lock = p, live' = live, trash' = trash, used' = used,
         OthersSame(p), lock' \in {None, InDoubt},
         proc'[p].op = "upload", proc'[p].target = proc[p].target,
         proc'[p].pc \in {"refresh", "quarantine"},
         KeysAt(p)' \subseteq KeysAt(p) \cup {None}, LoopFits(p)',
         \/ /\ rows' = rows \cup proc[p].target /\ doubt' = doubt
         \/ /\ rows' = rows /\ lock' = InDoubt
            /\ doubt'.op = "upload" /\ doubt'.target = proc[p].target
  PROVE  LockInvariant'
<1>0. /\ doubt.op = "none" /\ doubt = NoTransaction
      /\ proc[p].target \subseteq live /\ proc[p].target \cap rows = {}
      /\ \A q \in Procs \ {p} : proc[p].target \cap KeysAt(q) = {}
      /\ proc[p].target \subseteq Keys
  BY AtItsCommit
<1>1. /\ \A q \in Procs \ {p} : /\ proc'[q] = proc[q] /\ KeysAt(q)' = KeysAt(q)
                                /\ Uploading(q)' <=> Uploading(q)
      /\ ~Uploading(p)'
  BY DEF OthersSame, KeysAt, Uploading
<1>2. /\ TypeOK /\ BytesKept /\ OnlyUsed /\ UploadIsPrivate /\ UploadsApart /\ DoubtFits
      /\ \A q \in Procs : LoopFits(q)
  BY DEF LockInvariant
<1>3. /\ rows' \subseteq rows \cup proc[p].target
      /\ \A k \in Keys : Wanted(k)' => Wanted(k) \/ k \in proc[p].target
  BY <1>0 DEF Wanted
<1>bytes. BytesKept'
  BY <1>0, <1>2, <1>3 DEF BytesKept
<1>used. OnlyUsed'
  <2>1. (rows \cup live \cup trash)' \subseteq used'
    BY <1>0, <1>2, <1>3 DEF OnlyUsed
  <2>2. ASSUME NEW q \in Procs PROVE KeysAt(q)' \subseteq used' \cup {None}
    BY <1>1, <1>2 DEF OnlyUsed
  <2> QED BY <2>1, <2>2 DEF OnlyUsed
<1>upload. UploadIsPrivate'
  <2> SUFFICES ASSUME NEW q \in Procs, Uploading(q)'
               PROVE  /\ proc'[q].target \cap (rows \cup trash)' = {}
                      /\ proc'[q].pc = "commit" => proc'[q].target \subseteq live'
                      /\ \A r \in Procs \ {q} : proc'[q].target \cap KeysAt(r)' = {}
    BY DEF UploadIsPrivate
  <2>1. q # p /\ Uploading(q) /\ proc'[q] = proc[q]
    BY <1>1
  <2>2. /\ proc[q].target \cap (rows \cup trash) = {}
        /\ proc[q].pc = "commit" => proc[q].target \subseteq live
        /\ \A r \in Procs \ {q} : proc[q].target \cap KeysAt(r) = {}
        /\ proc[q].target \cap proc[p].target = {} /\ None \notin proc[q].target
    BY <1>2, <2>1, FieldsTyped, FreshAssumption DEF UploadIsPrivate, UploadsApart, Uploading
  <2> QED BY <1>1, <1>3, <2>1, <2>2
<1>apart. UploadsApart'
  <2>1. ASSUME NEW q \in Procs, NEW r \in Procs, q # r, proc'[q].op = "upload",
               proc'[r].op = "upload"
        PROVE  proc'[q].target \cap proc'[r].target = {}
    BY <1>1, <1>2, <2>1 DEF UploadsApart
  <2>2. ASSUME NEW q \in Procs, Uploading(q)', doubt'.op = "upload"
        PROVE  proc'[q].target \cap doubt'.target = {}
    BY <1>0, <1>1, <1>2, <2>2 DEF UploadsApart, Uploading
  <2> QED BY <2>1, <2>2 DEF UploadsApart
<1>doubt. DoubtFits'
  BY <1>0 DEF DoubtFits
<1>loops. ASSUME NEW q \in Procs \ {p} PROVE LoopFits(q)'
  <2>1. LoopFits(q) /\ proc'[q] = proc[q] /\ lock' # q
    BY <1>1, <1>2, FreshAssumption
  <2>2. \A k \in proc[q].todo \cup {proc[q].cur} :
           (k \in rows' => k \in rows) /\ (Wanted(k)' => Wanted(k))
    BY <1>0, <1>3, FieldsTyped DEF KeysAt, Wanted
  <2>3. rows' \cap (proc[q].todo \cup {proc[q].cur}) = rows \cap (proc[q].todo \cup {proc[q].cur})
    BY <2>2
  <2> QED BY <2>1, <2>2, <2>3 DEF LoopFits, Inspecting
<1> QED BY <1>bytes, <1>used, <1>upload, <1>apart, <1>doubt, <1>loops DEF LockInvariant

\* The commit succeeds: the upload attaches, a deletion goes on to discard what it
\* moved, which is no longer wanted.
LEMMA LockCommit ==
  ASSUME LockInvariant, MovesUnderLock, TypeOK', NEW p \in Procs, CommitOK(p)
  PROVE  LockInvariant'
<1>0. /\ proc[p].pc = "commit" /\ lock = p /\ LoopFits(p) /\ TypeOK
      /\ live' = live /\ trash' = trash /\ used' = used /\ doubt' = doubt /\ lock' = None
  BY DEF CommitOK, At, LockInvariant, files
<1>1. CASE proc[p].op = "upload"
  <2>1. rows' = rows \cup proc[p].target /\ Goto(p, "refresh")
    BY <1>1 DEF CommitOK, Apply, Transaction
  <2>2. /\ proc'[p].pc = "refresh" /\ proc'[p].cur = None /\ proc'[p].todo = proc[p].todo
        /\ SameRequest(proc'[p], proc[p]) /\ OthersSame(p)
    BY <1>0, <2>1, GotoFields
  <2>3. KeysAt(p)' \subseteq KeysAt(p) \cup {None}
    BY <2>2 DEF KeysAt, SameRequest
  <2>4. LoopFits(p)'
    BY <1>0, <1>1, <2>2, FreshAssumption DEF LoopFits, Inspecting, SameRequest
  <2> QED BY <1>0, <1>1, <2>1, <2>2, <2>3, <2>4, LockAttach DEF SameRequest
<1>2. CASE proc[p].op # "upload"
  <2>1. rows' = rows \ proc[p].target /\ Loop(p, "discard", proc[p].moved)
    BY <1>2 DEF CommitOK, Apply, Transaction
  <2>2. /\ proc'[p].pc = "discard" /\ proc'[p].cur = None /\ proc'[p].todo = proc[p].moved
        /\ SameRequest(proc'[p], proc[p]) /\ OthersSame(p)
    BY <1>0, <2>1, LoopFields
  <2>3. KeysAt(p)' \subseteq KeysAt(p) \cup {None} /\ ~Uploading(p)'
    BY <2>2 DEF KeysAt, SameRequest, Uploading
  <2>4. doubt.op = "none"
    BY <1>0, FreshAssumption DEF LockInvariant, DoubtFits, NoTransaction
  <2>5. LoopFits(p)'
    BY <1>0, <1>2, <2>1, <2>2, <2>4 DEF LoopFits, Inspecting, SameRequest, Wanted
  <2>6. StaysApart(p)
    BY <1>0, <1>2, <2>1, <2>2, <2>3 DEF StaysApart, SameRequest
  <2>7. TakesItsOwn(p) /\ DropsNothingWanted
    BY <1>0 DEF TakesItsOwn, DropsNothingWanted, LockInvariant, BytesKept
  <2> QED BY <2>5, <2>6, <2>7, ApartStep
<1> QED BY <1>1, <1>2

\* The commit rolls back: an upload undoes, a deletion reconciles.
LEMMA LockCommitFails ==
  ASSUME LockInvariant, MovesUnderLock, TypeOK', NEW p \in Procs, CommitFails(p)
  PROVE  LockInvariant'
<1>0. /\ AfterRollback(p) /\ live' = live /\ trash' = trash /\ rows' = rows
      /\ used' = used /\ doubt' = doubt
      /\ lock' # p /\ (lock' = lock \/ (lock = p /\ lock' = None))
  BY FreshAssumption DEF CommitFails, Release, files, database
<1> QED BY <1>0, LockUndo, LockTryReconcile DEF AfterRollback

\* The commit gets no answer: the key of the upload is wanted from now on.
LEMMA LockDoubt ==
  ASSUME LockInvariant, MovesUnderLock, TypeOK', NEW p \in Procs, CommitInDoubt(p)
  PROVE  LockInvariant'
<1>0. /\ proc[p].pc = "commit" /\ lock = p /\ LoopFits(p) /\ TypeOK
      /\ live' = live /\ trash' = trash /\ rows' = rows /\ used' = used /\ lock' = InDoubt
      /\ doubt'.op = proc[p].op /\ doubt'.target = proc[p].target
  BY DEF CommitInDoubt, At, LockInvariant, files, Transaction
<1>1. CASE proc[p].op = "upload"
  <2>1. Loop(p, "quarantine", proc[p].target)
    BY <1>1 DEF CommitInDoubt, AfterRollback
  <2>2. /\ proc'[p].pc = "quarantine" /\ proc'[p].cur = None
        /\ proc'[p].todo = proc[p].target /\ SameRequest(proc'[p], proc[p]) /\ OthersSame(p)
    BY <1>0, <2>1, LoopFields
  <2>3. KeysAt(p)' \subseteq KeysAt(p) \cup {None}
    BY <2>2 DEF KeysAt, SameRequest
  <2>4. LoopFits(p)'
    BY <1>0, <1>1, <2>2, AtItsCommit, FreshAssumption DEF LoopFits, Inspecting, SameRequest
  <2> QED BY <1>0, <1>1, <2>2, <2>3, <2>4, LockAttach DEF SameRequest
<1>2. CASE proc[p].op # "upload"
  <2>1. TryReconcile(p)
    BY <1>2 DEF CommitInDoubt, AfterRollback
  <2>2. /\ proc'[p].pc = "relock" /\ proc'[p].op = "reconcile" /\ proc'[p].moved = {}
        /\ KeysAt(p)' = {None} /\ OthersSame(p)
    BY <1>0, <2>1, TryReconcileFields DEF KeysAt
  <2>3. LoopFits(p)' /\ ~Uploading(p)'
    BY <2>2 DEF LoopFits, Inspecting, Uploading
  <2>4. StaysApart(p)
    BY <1>0, <1>2, <2>2, <2>3 DEF StaysApart
  <2>5. TakesItsOwn(p) /\ DropsNothingWanted
    BY <1>0 DEF TakesItsOwn, DropsNothingWanted, LockInvariant, BytesKept
  <2> QED BY <2>3, <2>4, <2>5, ApartStep
<1> QED BY <1>1, <1>2

\* PostgreSQL decides a commit in doubt: what it attaches was wanted all along,
\* and nobody reconciles meanwhile, as the transaction holds the lock.
LEMMA LockResolve ==
  ASSUME LockInvariant, MovesUnderLock, TypeOK', ResolveDoubt
  PROVE  LockInvariant'
<1>0. /\ lock = InDoubt /\ lock' = None /\ doubt' = NoTransaction
      /\ proc' = proc /\ live' = live /\ trash' = trash /\ used' = used
      /\ \/ rows' \subseteq rows
         \/ doubt.op = "upload" /\ rows' = rows \cup doubt.target
  BY DEF ResolveDoubt, Apply, files
<1>1. doubt'.op = "none"
  BY <1>0 DEF NoTransaction
<1>2. /\ TypeOK /\ BytesKept /\ OnlyUsed /\ UploadIsPrivate /\ UploadsApart /\ DoubtFits
      /\ \A q \in Procs : LoopFits(q) /\ lock # q /\ lock' # q
  BY <1>0, FreshAssumption DEF LockInvariant
<1>3. \A k \in rows' : Wanted(k)
  BY <1>0 DEF Wanted
<1>4. \A k : Wanted(k)' => Wanted(k)
  BY <1>1, <1>3 DEF Wanted
<1>bytes. BytesKept'
  BY <1>0, <1>2, <1>4 DEF BytesKept
<1>used. OnlyUsed'
  <2>1. rows' \subseteq live \cup trash
    BY <1>2, <1>3 DEF BytesKept, TypeOK
  <2> QED BY <1>0, <1>2, <2>1 DEF OnlyUsed, KeysAt
<1>upload. UploadIsPrivate'
  <2>1. ASSUME NEW q \in Procs, Uploading(q) PROVE proc[q].target \cap rows' = {}
    BY <1>0, <1>2, <2>1 DEF UploadIsPrivate, UploadsApart
  <2> QED BY <1>0, <1>2, <2>1 DEF UploadIsPrivate, Uploading, KeysAt
<1>apart. UploadsApart'
  BY <1>0, <1>1, <1>2 DEF UploadsApart
<1>doubt. DoubtFits'
  BY <1>0, <1>1 DEF DoubtFits
<1>loops. ASSUME NEW q \in Procs PROVE LoopFits(q)'
  <2>1. proc[q].pc \notin Inspecting \cup {"fix"}
    BY <1>2 DEF MovesUnderLock, Moving, Inspecting, LoopFits
  <2> QED BY <1>0, <1>2, <1>4, <2>1 DEF LoopFits, Inspecting
<1> QED BY <1>bytes, <1>used, <1>upload, <1>apart, <1>doubt, <1>loops DEF LockInvariant

\* The refresh after an upload.
LEMMA LockRefresh ==
  ASSUME LockInvariant, MovesUnderLock, TypeOK', NEW p \in Procs, RefreshRow(p)
  PROVE  LockInvariant'
<1>0. /\ live' = live /\ trash' = trash /\ rows' = rows /\ used' = used
      /\ doubt' = doubt /\ lock' = lock
      /\ Become(p, Idle) \/ Loop(p, "quarantine", proc[p].target)
  BY DEF RefreshRow, files, database
<1>1. proc[p].op = "upload" /\ lock # p
  BY DEF RefreshRow, At, LockInvariant, LoopFits
<1> QED BY <1>0, <1>1, LockUndo, LockEnd

\* One key of the discard.
LEMMA LockDiscard ==
  ASSUME LockInvariant, MovesUnderLock, TypeOK', NEW p \in Procs, NEW k \in Keys,
         Discard(p, k)
  PROVE  LockInvariant'
<1>0. /\ proc[p].pc = "discard" /\ k \in proc[p].todo /\ LoopFits(p) /\ TypeOK
      /\ live' = live /\ trash' \in {trash, trash \ {k}} /\ rows' = rows
      /\ used' = used /\ doubt' = doubt /\ lock' = lock /\ ~Wanted(k)
  BY DEF Discard, At, LockInvariant, LoopFits, database
<1>1. /\ proc'[p].pc = "discard" /\ proc'[p].op = proc[p].op
      /\ proc'[p].target = proc[p].target /\ proc'[p].todo = proc[p].todo \ {k}
      /\ proc'[p].moved = proc[p].moved /\ proc'[p].cur = proc[p].cur /\ OthersSame(p)
  <2> DEFINE s == [proc[p] EXCEPT !.todo = @ \ {k}]
  <2>1. /\ s.pc = proc[p].pc /\ s.op = proc[p].op /\ s.target = proc[p].target
        /\ s.todo = proc[p].todo \ {k} /\ s.moved = proc[p].moved /\ s.cur = proc[p].cur
    BY <1>0, FieldsTyped DEF ProcState
  <2>2. proc'[p] = s /\ OthersSame(p)
    BY <1>0, BecomeFields DEF Discard
  <2> HIDE DEF s
  <2> QED BY <1>0, <2>1, <2>2
<1>2. KeysAt(p)' \subseteq KeysAt(p) /\ ~Uploading(p)'
  BY <1>1 DEF KeysAt, Uploading
<1>3. StaysApart(p)
  BY <1>0, <1>1, <1>2 DEF StaysApart
<1>4. LoopFits(p)'
  BY <1>0, <1>1 DEF LoopFits, Inspecting, Wanted
<1>5. TakesItsOwn(p) /\ DropsNothingWanted
  BY <1>0 DEF TakesItsOwn, DropsNothingWanted, LockInvariant, BytesKept
<1> QED BY <1>3, <1>4, <1>5, ApartStep

\* A reconcile that moves on without touching the files: the record it ends with
\* has no key that it did not know or list.
LEMMA LockMovesOn ==
  ASSUME LockInvariant, MovesUnderLock, TypeOK', NEW p \in Procs, Plain(p),
         proc[p].op # "upload", proc'[p].op = proc[p].op,
         KeysAt(p)' \subseteq KeysAt(p) \cup rows \cup trash \cup {None}, LoopFits(p)'
  PROVE  LockInvariant'
<1>1. ~Uploading(p)'
  BY DEF Uploading
<1> QED BY <1>1, PlainStep

\* No upload is at work in reconcile.
LEMMA ReconcileOp ==
  ASSUME LockInvariant, NEW p \in Procs,
         proc[p].pc \in Inspecting \cup {"relock", "list", "query", "fix", "select"}
  PROVE  /\ proc[p].op # "upload" /\ proc[p].moved = {} /\ LoopFits(p) /\ TypeOK
         /\ lock = p => doubt.op = "none" /\ \A k : Wanted(k) <=> k \in rows
BY FreshAssumption DEF LockInvariant, LoopFits, Inspecting, DoubtFits, NoTransaction, Wanted

\* The lock for a reconcile of its own, and the list of the quarantine.
LEMMA LockLists ==
  ASSUME LockInvariant, MovesUnderLock, TypeOK', NEW p \in Procs, Relock(p) \/ ListTrash(p)
  PROVE  LockInvariant'
<1>0. /\ proc[p].pc \in {"relock", "list"} /\ proc[p].op # "upload"
      /\ proc[p].moved = {} /\ LoopFits(p) /\ TypeOK
      /\ rows' = rows /\ live' = live /\ trash' = trash /\ used' = used /\ doubt' = doubt
  BY ReconcileOp DEF Relock, ListTrash, At, files, database
<1>1. CASE Relock(p)
  <2>1. /\ proc'[p].pc = "list" /\ SameRequest(proc'[p], proc[p]) /\ OthersSame(p)
        /\ proc'[p].cur = None /\ proc'[p].todo = proc[p].todo
    BY <1>0, <1>1, GotoFields DEF Relock
  <2>2. KeysAt(p)' \subseteq KeysAt(p) \cup {None} /\ Plain(p)
    BY <1>0, <1>1, <2>1 DEF KeysAt, SameRequest, Plain, Relock
  <2>3. LoopFits(p)'
    BY <1>0, <2>1 DEF LoopFits, Inspecting, SameRequest
  <2> QED BY <1>0, <2>1, <2>2, <2>3, LockMovesOn DEF SameRequest
<1>2. CASE ListTrash(p)
  <2>1. PICK pc \in {"fix", "query"} : Loop(p, pc, trash) /\ (pc = "fix" => trash = {})
    BY <1>2 DEF ListTrash
  <2>2. /\ proc'[p].pc = pc /\ SameRequest(proc'[p], proc[p]) /\ OthersSame(p)
        /\ proc'[p].cur = None /\ proc'[p].todo = trash
    BY <1>0, <2>1, LoopFields
  <2>3. KeysAt(p)' \subseteq KeysAt(p) \cup trash \cup {None} /\ Plain(p)
    BY <1>0, <1>2, <2>2 DEF KeysAt, SameRequest, Plain, ListTrash
  <2>4. None \notin rows
    BY <1>0, FreshAssumption DEF TypeOK
  <2>5. LoopFits(p)'
    BY <1>0, <2>1, <2>2, <2>4 DEF LoopFits, Inspecting, SameRequest
  <2> QED BY <1>0, <2>2, <2>3, <2>5, LockMovesOn DEF SameRequest
<1> QED BY <1>1, <1>2

\* The query for the rows of the listed keys.
LEMMA LockQuery ==
  ASSUME LockInvariant, MovesUnderLock, TypeOK', NEW p \in Procs, QueryRows(p)
  PROVE  LockInvariant'
<1>0. /\ proc[p].pc = "query" /\ proc[p].op # "upload" /\ proc[p].moved = {}
      /\ LoopFits(p) /\ TypeOK
      /\ rows' = rows /\ live' = live /\ trash' = trash /\ used' = used /\ doubt' = doubt
  BY ReconcileOp DEF QueryRows, At, files, database
<1> DEFINE s == [proc[p] EXCEPT !.pc = "fix", !.found = proc[p].todo \cap rows]
<1>1. CASE Become(p, s) /\ lock' = lock
  <2>1. /\ s.pc = "fix" /\ s.op = proc[p].op /\ s.target = proc[p].target
        /\ s.todo = proc[p].todo /\ s.moved = {} /\ s.cur = None
        /\ s.found = proc[p].todo \cap rows
    BY <1>0, FieldsTyped DEF ProcState, LoopFits
  <2>2. proc'[p] = s /\ OthersSame(p)
    BY <1>0, <1>1, BecomeFields
  <2> HIDE DEF s
  <2>3. KeysAt(p)' \subseteq KeysAt(p) \cup {None} /\ Plain(p)
    BY <1>0, <1>1, <2>1, <2>2 DEF KeysAt, Plain
  <2>4. None \notin rows
    BY <1>0, FreshAssumption DEF TypeOK
  <2>5. LoopFits(p)'
    BY <1>0, <2>1, <2>2, <2>4 DEF LoopFits, Inspecting
  <2> QED BY <1>0, <2>1, <2>2, <2>3, <2>5, LockMovesOn
<1>2. CASE Finish(p)
  BY <1>0, <1>2, LockEnd DEF Finish, Release
<1> QED BY <1>1, <1>2 DEF QueryRows

\* The look at one key of the quarantine.
LEMMA LockInspect ==
  ASSUME LockInvariant, MovesUnderLock, TypeOK', NEW p \in Procs, NEW k \in Keys,
         InspectItem(p, k)
  PROVE  LockInvariant'
<1>0. /\ proc[p].pc = "fix" /\ proc[p].op # "upload" /\ proc[p].moved = {}
      /\ LoopFits(p) /\ TypeOK /\ k \in proc[p].todo /\ lock' = lock
      /\ rows' = rows /\ live' = live /\ trash' = trash /\ used' = used /\ doubt' = doubt
  BY ReconcileOp DEF InspectItem, At, files, database
<1>1. rows \cap (proc[p].todo \cup {proc[p].cur}) \subseteq proc[p].found
  BY <1>0 DEF LoopFits
<1>2. PICK next \in {"readlive", "putback", "droptrash"} :
        /\ Become(p, [proc[p] EXCEPT !.pc = next, !.cur = k, !.todo = @ \ {k}])
        /\ next = "droptrash" => k \notin proc[p].found
  BY DEF InspectItem
<1>3. /\ proc'[p].pc = next /\ proc'[p].op = proc[p].op /\ proc'[p].target = proc[p].target
      /\ proc'[p].todo = proc[p].todo \ {k} /\ proc'[p].moved = {} /\ proc'[p].cur = k
      /\ proc'[p].found = proc[p].found /\ OthersSame(p)
  <2> DEFINE s == [proc[p] EXCEPT !.pc = next, !.cur = k, !.todo = @ \ {k}]
  <2>1. /\ s.pc = next /\ s.op = proc[p].op /\ s.target = proc[p].target
        /\ s.todo = proc[p].todo \ {k} /\ s.moved = {} /\ s.cur = k
        /\ s.found = proc[p].found
    BY <1>0, FieldsTyped DEF ProcState
  <2>2. proc'[p] = s /\ OthersSame(p)
    BY <1>0, <1>2, BecomeFields
  <2> HIDE DEF s
  <2> QED BY <2>1, <2>2
<1>4. KeysAt(p)' \subseteq KeysAt(p) /\ Plain(p)
  BY <1>0, <1>3 DEF KeysAt, Plain
<1>5. next = "droptrash" => k \notin rows
  BY <1>0, <1>1, <1>2
<1>6. LoopFits(p)'
  BY <1>0, <1>1, <1>3, <1>5 DEF LoopFits, Inspecting
<1> QED BY <1>0, <1>3, <1>4, <1>6, LockMovesOn

\* The two reads of the comparison.
LEMMA LockRead ==
  ASSUME LockInvariant, MovesUnderLock, TypeOK', NEW p \in Procs,
         ReadLive(p) \/ ReadTrash(p)
  PROVE  LockInvariant'
<1>0. /\ proc[p].pc \in {"readlive", "readtrash"} /\ proc[p].op # "upload"
      /\ proc[p].moved = {} /\ LoopFits(p) /\ TypeOK
      /\ rows' = rows /\ live' = live /\ trash' = trash /\ used' = used /\ doubt' = doubt
  BY ReconcileOp DEF ReadLive, ReadTrash, At, Inspecting, files, database
<1>1. CASE Finish(p)
  BY <1>0, <1>1, LockEnd DEF Finish, Release
<1>2. CASE ~Finish(p)
  <2>1. PICK pc \in {"readtrash", "droptrash", "droplive"} :
          /\ Become(p, [proc[p] EXCEPT !.pc = pc])
          /\ pc = "readtrash" => proc[p].cur \in live
          /\ pc = "droptrash" => (proc[p].cur \in rows => proc[p].cur \in live)
          /\ pc = "droplive" => proc[p].cur \notin rows
    BY <1>0, <1>2 DEF ReadLive, ReadTrash, At, LoopFits, Inspecting
  <2>2. /\ proc'[p].pc = pc /\ proc'[p].op = proc[p].op /\ proc'[p].target = proc[p].target
        /\ proc'[p].todo = proc[p].todo /\ proc'[p].moved = {} /\ proc'[p].cur = proc[p].cur
        /\ proc'[p].found = proc[p].found /\ OthersSame(p)
    <3> DEFINE s == [proc[p] EXCEPT !.pc = pc]
    <3>1. /\ s.pc = pc /\ s.op = proc[p].op /\ s.target = proc[p].target
          /\ s.todo = proc[p].todo /\ s.moved = {} /\ s.cur = proc[p].cur
          /\ s.found = proc[p].found
      BY <1>0, FieldsTyped DEF ProcState
    <3>2. proc'[p] = s /\ OthersSame(p)
      BY <1>0, <2>1, BecomeFields
    <3> HIDE DEF s
    <3> QED BY <3>1, <3>2
  <2>3. lock' = lock
    BY <1>2 DEF ReadLive, ReadTrash
  <2>4. KeysAt(p)' \subseteq KeysAt(p) /\ Plain(p)
    BY <1>0, <2>2, <2>3 DEF KeysAt, Plain
  <2>5. LoopFits(p)'
    BY <1>0, <2>1, <2>2 DEF LoopFits, Inspecting
  <2> QED BY <1>0, <2>2, <2>4, <2>5, LockMovesOn
<1> QED BY <1>1, <1>2

\* A reconcile that drops a copy: the other one is there, or the key has no row.
LEMMA LockDrop ==
  ASSUME LockInvariant, MovesUnderLock, TypeOK', NEW p \in Procs,
         proc[p].pc \in {"droplive", "droptrash", "putbackdelete"},
         rows' = rows, used' = used, doubt' = doubt, lock' = lock,
         \/ /\ proc[p].pc = "droplive" /\ trash' = trash
            /\ live' = live \ {proc[p].cur}
            /\ Become(p, [proc[p] EXCEPT !.pc = "droptrash"])
         \/ /\ proc[p].pc # "droplive" /\ live' = live
            /\ trash' \in {trash, trash \ {proc[p].cur}}
            /\ Goto(p, "fix")
  PROVE  LockInvariant'
<1>0. /\ proc[p].op # "upload" /\ proc[p].moved = {} /\ LoopFits(p) /\ TypeOK
      /\ proc[p].cur \in KeysAt(p)
  BY ReconcileOp DEF Inspecting, KeysAt
<1>1. /\ lock = p /\ doubt.op = "none" /\ \A k : Wanted(k) <=> k \in rows
      /\ Touches(p, proc[p].cur)
  BY <1>0, ReconcileOp DEF MovesUnderLock, Moving, Inspecting, Touches
<1>2. /\ proc'[p].pc = (IF proc[p].pc = "droplive" THEN "droptrash" ELSE "fix")
      /\ proc'[p].op = proc[p].op /\ proc'[p].target = proc[p].target
      /\ proc'[p].todo = proc[p].todo /\ proc'[p].moved = {}
      /\ proc'[p].cur = (IF proc[p].pc = "droplive" THEN proc[p].cur ELSE None)
      /\ proc'[p].found = proc[p].found /\ OthersSame(p)
  <2> DEFINE s == [proc[p] EXCEPT !.pc = "droptrash"]
  <2>1. CASE proc[p].pc = "droplive" /\ Become(p, s)
    <3>1. /\ s.pc = "droptrash" /\ s.op = proc[p].op /\ s.target = proc[p].target
          /\ s.todo = proc[p].todo /\ s.moved = {} /\ s.cur = proc[p].cur
          /\ s.found = proc[p].found
      BY <1>0, FieldsTyped DEF ProcState
    <3>2. proc'[p] = s /\ OthersSame(p)
      BY <1>0, <2>1, BecomeFields
    <3> HIDE DEF s
    <3> QED BY <2>1, <3>1, <3>2
  <2>2. CASE proc[p].pc # "droplive" /\ Goto(p, "fix")
    BY <1>0, <2>2, GotoFields DEF SameRequest
  <2> QED BY <2>1, <2>2
<1>3. KeysAt(p)' \subseteq KeysAt(p) \cup {None} /\ ~Uploading(p)'
  BY <1>0, <1>2 DEF KeysAt, Uploading
<1>4. StaysApart(p)
  BY <1>0, <1>2, <1>3 DEF StaysApart
<1>5. proc[p].pc = "droplive" => proc[p].cur \notin rows
  BY <1>0 DEF LoopFits
<1>6. proc[p].pc # "droplive" /\ proc[p].cur \in rows => proc[p].cur \in live
  BY <1>0 DEF LoopFits
<1>7. None \notin rows
  BY <1>0, FreshAssumption DEF TypeOK
<1>8. LoopFits(p)'
  BY <1>0, <1>2, <1>5, <1>7 DEF LoopFits, Inspecting
<1>9. TakesItsOwn(p)
  BY <1>1 DEF TakesItsOwn
<1>10. DropsNothingWanted
  BY <1>1, <1>5, <1>6 DEF DropsNothingWanted, LockInvariant, BytesKept
<1> QED BY <1>4, <1>8, <1>9, <1>10, ApartStep

\* The copy, or the rename, that restores an attached object.
LEMMA LockPutBack ==
  ASSUME LockInvariant, MovesUnderLock, TypeOK', NEW p \in Procs, PutBack(p)
  PROVE  LockInvariant'
<1>0. /\ proc[p].pc = "putback" /\ proc[p].op # "upload" /\ proc[p].moved = {}
      /\ LoopFits(p) /\ TypeOK /\ proc[p].cur \in KeysAt(p)
      /\ rows' = rows /\ used' = used /\ doubt' = doubt /\ lock' = lock
  BY ReconcileOp DEF PutBack, At, Inspecting, KeysAt, database
<1>1. /\ lock = p /\ Touches(p, proc[p].cur)
  BY <1>0 DEF MovesUnderLock, Moving, Touches
<1> DEFINE s == [proc[p] EXCEPT !.pc = "putbackdelete"]
<1>2. \/ /\ live' = live /\ trash' = trash /\ Goto(p, "fix")
      \/ /\ live' = live \cup {proc[p].cur} /\ trash' = trash \ {proc[p].cur}
         /\ Goto(p, "fix")
      \/ /\ live' = live \cup {proc[p].cur} /\ trash' = trash /\ Become(p, s)
  BY DEF PutBack, files
<1>3. /\ s.pc = "putbackdelete" /\ s.op = proc[p].op /\ s.target = proc[p].target
      /\ s.todo = proc[p].todo /\ s.moved = {} /\ s.cur = proc[p].cur
      /\ s.found = proc[p].found
  BY <1>0, FieldsTyped DEF ProcState
<1>4. Become(p, s) => proc'[p] = s /\ OthersSame(p)
  BY <1>0, BecomeFields
<1> HIDE DEF s
<1>5. /\ \/ proc'[p].pc = "fix" /\ proc'[p].cur = None
         \/ /\ proc'[p].pc = "putbackdelete" /\ proc'[p].cur = proc[p].cur
            /\ proc[p].cur \in live'
      /\ proc'[p].op = proc[p].op /\ proc'[p].target = proc[p].target
      /\ proc'[p].todo = proc[p].todo /\ proc'[p].moved = {}
      /\ proc'[p].found = proc[p].found /\ OthersSame(p)
  <2>1. CASE Goto(p, "fix")
    BY <1>0, <2>1, GotoFields DEF SameRequest
  <2>2. CASE Become(p, s) /\ live' = live \cup {proc[p].cur}
    BY <1>3, <1>4, <2>2
  <2> QED BY <1>2, <2>1, <2>2
<1>6. KeysAt(p)' \subseteq KeysAt(p) \cup {None} /\ ~Uploading(p)'
  BY <1>0, <1>5 DEF KeysAt, Uploading
<1>7. StaysApart(p)
  BY <1>0, <1>2, <1>5, <1>6 DEF StaysApart
<1>8. None \notin rows
  BY <1>0, FreshAssumption DEF TypeOK
<1>9. LoopFits(p)'
  BY <1>0, <1>5, <1>8 DEF LoopFits, Inspecting
<1>10. TakesItsOwn(p) /\ DropsNothingWanted
  BY <1>1, <1>2 DEF TakesItsOwn, DropsNothingWanted, LockInvariant, BytesKept
<1> QED BY <1>7, <1>9, <1>10, ApartStep

\* The end of reconcile, and the selection that the purge goes on with.
LEMMA LockSelects ==
  ASSUME LockInvariant, MovesUnderLock, TypeOK', NEW p \in Procs,
         ReconcileDone(p) \/ SelectExpired(p)
  PROVE  LockInvariant'
<1>0. /\ proc[p].pc \in {"fix", "select"} /\ proc[p].op # "upload" /\ proc[p].moved = {}
      /\ LoopFits(p) /\ TypeOK
      /\ rows' = rows /\ live' = live /\ trash' = trash /\ used' = used /\ doubt' = doubt
  BY ReconcileOp DEF ReconcileDone, SelectExpired, At, files, database
<1>1. CASE Finish(p)
  BY <1>0, <1>1, LockEnd DEF Finish, Release
<1>2. CASE ReconcileDone(p) /\ ~Finish(p)
  <2> DEFINE s == [proc[p] EXCEPT !.pc = "select", !.found = {}]
  <2>1. Become(p, s) /\ lock' = lock
    BY <1>2 DEF ReconcileDone
  <2>2. /\ s.pc = "select" /\ s.op = proc[p].op /\ s.target = proc[p].target
        /\ s.todo = proc[p].todo /\ s.moved = {} /\ s.cur = proc[p].cur
    BY <1>0, FieldsTyped DEF ProcState
  <2>3. proc'[p] = s /\ OthersSame(p)
    BY <1>0, <2>1, BecomeFields
  <2> HIDE DEF s
  <2>4. KeysAt(p)' \subseteq KeysAt(p) /\ Plain(p)
    BY <1>0, <2>1, <2>2, <2>3 DEF KeysAt, Plain
  <2>5. LoopFits(p)'
    BY <1>0, <2>2, <2>3 DEF LoopFits, Inspecting
  <2> QED BY <1>0, <2>2, <2>3, <2>4, <2>5, LockMovesOn
<1>3. CASE SelectExpired(p) /\ ~Finish(p)
  <2> DEFINE expired == {n \in Notes : notes[n] = "expired"}
             s == [proc[p] EXCEPT !.pc = "quarantine", !.drop = expired,
                      !.target = KeysOf(expired), !.todo = KeysOf(expired)]
  <2>1. Become(p, s) /\ lock' = lock /\ proc[p].pc = "select"
    BY <1>3 DEF SelectExpired, At
  <2>2. KeysOf(expired) \subseteq rows
    BY DEF KeysOf
  <2> HIDE DEF expired
  <2>3. /\ s.pc = "quarantine" /\ s.op = proc[p].op /\ s.target = KeysOf(expired)
        /\ s.todo = KeysOf(expired) /\ s.moved = {} /\ s.cur = proc[p].cur
    BY <1>0, FieldsTyped DEF ProcState
  <2>4. proc'[p] = s /\ OthersSame(p)
    BY <1>0, <2>1, BecomeFields
  <2> HIDE DEF s
  <2>5. KeysAt(p)' \subseteq KeysAt(p) \cup rows /\ Plain(p)
    BY <1>0, <2>1, <2>2, <2>3, <2>4 DEF KeysAt, Plain
  <2>6. LoopFits(p)'
    BY <1>0, <2>3, <2>4 DEF LoopFits, Inspecting
  <2> QED BY <1>0, <2>3, <2>4, <2>5, <2>6, LockMovesOn
<1> QED BY <1>1, <1>2, <1>3

\* Every step, taken in a state in which files move under the lock, keeps it.
LEMMA LockStep ==
  ASSUME LockInvariant, MovesUnderLock, [Next]_vars
  PROVE  LockInvariant'
<1>0. TypeOK /\ TypeOK'
  BY TypeStep DEF LockInvariant
<1>1. ASSUME NEW p \in Handlers, Request(p) PROVE LockInvariant'
  <2>0. p \in Procs
    BY DEF Procs
  <2>1. ASSUME NEW k \in Keys, Upload(p, k) PROVE LockInvariant'
    BY <1>0, <2>0, <2>1, LockUpload
  <2>2. ASSUME NEW k \in Keys, DeleteAttachment(p, k) PROVE LockInvariant'
    <3>1. /\ Begin(p, "delete", "quarantine", {k}, {}, {k}) /\ used' = used
          /\ {k} \subseteq rows
      BY <2>2 DEF DeleteAttachment
    <3> QED BY <1>0, <2>0, <3>1, LockBegin
  <2>3. ASSUME NEW u \in Users, DeleteAccount(p, u) PROVE LockInvariant'
    <3> DEFINE owned == {n \in Notes : OwnerOf[n] = u /\ notes[n] # "gone"}
    <3>1. /\ Begin(p, "account", "quarantine", KeysOf(owned), owned, KeysOf(owned))
          /\ used' = used /\ KeysOf(owned) \subseteq rows
      BY <2>3 DEF DeleteAccount, KeysOf
    <3> HIDE DEF owned
    <3> QED BY <1>0, <2>0, <3>1, LockBegin
  <2> QED BY <1>1, <2>1, <2>2, <2>3 DEF Request
<1>2. CASE PurgeDeleted
  <2>1. Begin(Purger, "purge", "list", {}, {}, {}) /\ used' = used /\ Purger \in Procs
    BY <1>2 DEF PurgeDeleted, Procs
  <2>2. {} \subseteq rows
    OBVIOUS
  <2> QED BY <1>0, <2>1, <2>2, LockBegin
<1>3. ASSUME NEW p \in Procs, Relock(p) PROVE LockInvariant'
  BY <1>0, <1>3, LockLists
<1>4. ASSUME NEW p \in Procs, Write(p) PROVE LockInvariant'
  BY <1>0, <1>4, LockWrite
<1>5. ASSUME NEW p \in Procs, Quarantining(p) PROVE LockInvariant'
  BY <1>0, <1>5, LockQuarantine, LockQuarantineDelete, LockQuarantineEnds, LockRestore,
     LockRestoreDelete, LockRestoreEnds
     DEF Quarantining
<1>6. ASSUME NEW p \in Procs, Committing(p) PROVE LockInvariant'
  <2>1. DiscardDone(p) => LockInvariant'
    BY <1>0, LockEnd DEF DiscardDone, files, database
  <2> QED BY <1>0, <1>6, <2>1, LockCommit, LockCommitFails, LockDoubt, LockRefresh, LockDiscard
          DEF Committing
<1>7. ASSUME NEW p \in Procs, Reconciling(p) PROVE LockInvariant'
  <2>1. CASE DropLive(p) \/ DropTrash(p) \/ PutBackDelete(p)
    BY <1>0, <2>1, LockDrop DEF DropLive, DropTrash, PutBackDelete, At, database
  <2>2. CASE ReconcileFails(p)
    BY <1>0, <2>2, LockEnd DEF ReconcileFails, Finish, Release, files, database
  <2> QED BY <1>0, <1>7, <2>1, <2>2, LockLists, LockQuery, LockInspect, LockRead, LockPutBack,
             LockSelects
          DEF Reconciling
<1>8. CASE Environment
  <2>1. ASSUME NEW n \in Notes, DeleteNote(n) \/ UndeleteNote(n) \/ Expire(n)
        PROVE  LockInvariant'
    <3>1. /\ rows' = rows /\ live' = live /\ trash' = trash /\ doubt' = doubt
          /\ used' = used /\ lock' = lock /\ proc' = proc
      BY <2>1 DEF DeleteNote, UndeleteNote, Expire, files
    <3> QED BY <1>0, <3>1 DEF LockInvariant, BytesKept, Wanted, OnlyUsed, KeysAt,
               UploadIsPrivate, Uploading, UploadsApart, DoubtFits, LoopFits
  <2>2. ASSUME NEW p \in Procs, LoseConnection(p) PROVE LockInvariant'
    <3>1. /\ rows' = rows /\ live' = live /\ trash' = trash /\ doubt' = doubt
          /\ used' = used /\ lock = p /\ lock' = None /\ proc' = proc
      BY <2>2 DEF LoseConnection, files, database
    <3>2. Plain(p) /\ KeysAt(p)' = KeysAt(p) /\ (Uploading(p)' <=> Uploading(p))
      BY <3>1 DEF Plain, OthersSame, KeysAt, Uploading
    <3>3. LoopFits(p)'
      BY <3>1, FreshAssumption DEF LockInvariant, LoopFits, Wanted
    <3> QED BY <1>0, <3>1, <3>2, <3>3, PlainStep
  <2>3. ASSUME NEW p \in Procs, Crash(p) PROVE LockInvariant'
    BY <1>0, <2>3, LockEnd DEF Crash, Finish, Release, files, database
  <2>4. CASE ResolveDoubt
    BY <1>0, <2>4, LockResolve
  <2> QED BY <1>8, <2>1, <2>2, <2>3, <2>4 DEF Environment
<1>9. CASE UNCHANGED vars
  BY <1>0, <1>9 DEF vars, LockInvariant, BytesKept, Wanted, OnlyUsed, KeysAt,
                    UploadIsPrivate, Uploading, UploadsApart, DoubtFits, LoopFits
<1> QED BY <1>1, <1>2, <1>3, <1>4, <1>5, <1>6, <1>7, <1>8, <1>9 DEF Next, Work

\* It holds of the initial state.
LEMMA InitLock == Init => LockInvariant
<1> SUFFICES ASSUME Init PROVE LockInvariant
  OBVIOUS
<1>1. TypeOK
  <2>1. NoTransaction \in [op : Ops, target : SUBSET Keys, drop : SUBSET Notes]
    BY DEF NoTransaction, Ops
  <2> QED BY <2>1, IdleTyped DEF Init, TypeOK
<1>2. \A p \in Procs : proc[p] = Idle
  BY DEF Init
<1>3. Idle.pc = "idle" /\ Idle.op = "none" /\ \A p \in Procs : KeysAt(p) = {None}
  BY <1>2 DEF Idle, KeysAt
<1>4. \A p \in Procs : LoopFits(p)
  BY <1>2, <1>3 DEF LoopFits, Inspecting
<1>5. doubt = NoTransaction /\ doubt.op = "none"
  BY DEF Init, NoTransaction
<1>6. BytesKept /\ OnlyUsed /\ UploadIsPrivate /\ UploadsApart /\ DoubtFits
  BY <1>2, <1>3, <1>5 DEF Init, BytesKept, Wanted, OnlyUsed, UploadIsPrivate, Uploading,
     UploadsApart, DoubtFits
<1> QED BY <1>1, <1>4, <1>6 DEF LockInvariant

\* Whatever the backend and whatever fails, a behaviour in which files move under
\* the lock never loses a committed attachment: it is at its key or in quarantine,
\* in every state.
THEOREM LockSuffices == Spec => LockIsEnough
<1>1. Init => LockInvariant
  BY InitLock
<1>2. LockInvariant /\ MovesUnderLock /\ [Next]_vars => LockInvariant'
  BY LockStep
<1>3. LockInvariant => BytesSafe
  BY DEF LockInvariant, TypeOK, BytesKept, BytesSafe, Wanted
<1> QED BY <1>1, <1>2, <1>3, PTL DEF Spec, LockIsEnough
==============================================================================
