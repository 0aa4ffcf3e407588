--------------------------- MODULE NoteSharing_proof ---------------------------
(***************************************************************************)
(* Proofs about NoteSharing: for any number of users, notes and requests,   *)
(* in every order of their steps, a write is by someone who may make it,    *)
(* shares are known, a deletion of an account knows the user's notes, and   *)
(* no requests wait for each other in a circle.                             *)
(***************************************************************************)
EXTENDS NoteSharing, TLAPS

Working == {"lock", "check", "commit", "select", "gather"}
Locks == Notes \cup Users \cup {Cleanup}

\* The two halves of TypeOK: what is in the database, and what requests keep.
DataTyped ==
    /\ exists \subseteq Users
    /\ note \in [Notes -> {"unborn", "active", "deleted", "late", "gone"}]
    /\ revision \in [Notes -> 0..(Revisions - 1)] /\ item \in [Notes -> BOOLEAN]
    /\ share \in [Notes -> [Users -> {"none", "view", "edit"}]]
    /\ contacts \subseteq Users \X Users

ControlTyped ==
    /\ lock \in [Locks -> Requests \cup {None}]
    /\ request \in [Requests -> States]
    /\ \A p \in Requests :
          /\ ~At(p, "idle") => request[p].user \in Users
          /\ request[p].pc \in {"files", "lock", "check", "commit", "create"} => request[p].note \in Notes
    /\ \A r \in Locks : lock[r] # None => request[lock[r]].pc \in Working

LEMMA TypeSplit == TypeOK <=> DataTyped /\ ControlTyped
BY DEF TypeOK, DataTyped, ControlTyped, Locks, Working

LEMMA TypeSplitNext == TypeOK' <=> DataTyped' /\ ControlTyped'
BY DEF TypeOK, DataTyped, ControlTyped, Locks, Working, At

LEMMA IdleTyped == Idle \in States
BY DEF Idle, States

\* A step replaces the record of one request.
LEMMA BecomeFields ==
  ASSUME ControlTyped, NEW p \in Requests, NEW s \in States, Become(p, s)
  PROVE  /\ request' \in [Requests -> States] /\ request'[p] = s
         /\ \A q \in Requests \ {p} : request'[q] = request[q]
BY DEF ControlTyped, Become

\* The end of a transaction gives up the locks of its request and no other.
LEMMA FinishFields ==
  ASSUME ControlTyped, NEW p \in Requests, Finish(p)
  PROVE  /\ ControlTyped' /\ request'[p] = Idle
         /\ \A q \in Requests \ {p} : request'[q] = request[q]
         /\ \A r \in Locks : lock'[r] = IF lock[r] = p THEN None ELSE lock[r]
<1>1. /\ request' \in [Requests -> States] /\ request'[p] = Idle
      /\ \A q \in Requests \ {p} : request'[q] = request[q]
  BY IdleTyped, BecomeFields DEF Finish
<1>2. /\ lock' \in [Locks -> Requests \cup {None}]
      /\ \A r \in Locks : lock'[r] = IF lock[r] = p THEN None ELSE lock[r]
  BY DEF Finish, Unlock, ControlTyped
<1>3. \A r \in Locks : lock'[r] # None =>
          lock'[r] = lock[r] /\ lock[r] \in Requests \ {p}
  BY <1>2, LockAssumption DEF ControlTyped
<1>4. ControlTyped'
  BY <1>1, <1>2, <1>3 DEF ControlTyped, At, Idle
<1> QED BY <1>1, <1>2, <1>4

\* A transaction ends that changes only notes that nobody else has locked, that
\* adds no note and, of the others' shares, takes those of a deleted user only.
LEMMA CommitKeeps ==
  ASSUME IInv, NEW p \in Requests, Finish(p), DataTyped', SharesAreKnown',
         exists' \subseteq exists,
         \A n \in Notes : lock[n] \in Requests \ {p} =>
            /\ note'[n] = note[n] /\ item'[n] = item[n]
            /\ \A u \in exists' : share'[n][u] = share[n][u],
         \A n \in Notes : Stored(n)' => Stored(n)
  PROVE  IInv'
<1>1. /\ ControlTyped' /\ request'[p] = Idle
      /\ \A q \in Requests \ {p} : request'[q] = request[q]
      /\ \A r \in Locks : lock'[r] = IF lock[r] = p THEN None ELSE lock[r]
  BY TypeSplit, FinishFields DEF IInv
<1>2. \A q \in Requests \ {p} : request[q].pc \in {"check", "commit"} =>
          /\ request[q].note \in Notes /\ lock[request[q].note] = q
          /\ note'[request[q].note] = note[request[q].note]
          /\ item'[request[q].note] = item[request[q].note]
          /\ \A u \in exists' : share'[request[q].note][u] = share[request[q].note][u]
  BY TypeSplit DEF IInv, LocksAreHeld, ControlTyped
<1>3. TypeOK'
  BY <1>1, TypeSplitNext
<1>4. LocksAreHeld'
  <2> SUFFICES ASSUME NEW q \in Requests
               PROVE  /\ request'[q].pc \in {"check", "commit"} =>
                            (lock[request[q].note] = q /\ Stored(request[q].note))'
                      /\ request'[q].pc \in {"select", "gather"} => lock'[request'[q].user] = q
    BY DEF LocksAreHeld
  <2>1. CASE q = p
    BY <1>1, <2>1 DEF Idle
  <2>2. CASE q # p
    <3>1. /\ request[q].pc \in {"check", "commit"} =>
               lock[request[q].note] = q /\ Stored(request[q].note)
          /\ request[q].pc \in {"select", "gather"} =>
               lock[request[q].user] = q /\ request[q].user \in Users
      BY TypeSplit DEF IInv, LocksAreHeld, ControlTyped, At
    <3> QED BY <1>1, <1>2, <2>2, <3>1 DEF Locks, Stored
  <2> QED BY <2>1, <2>2
<1>5. ChecksHold'
  BY <1>1, <1>2 DEF IInv, ChecksHold, At, Permission, Idle
<1>6. GatherIsComplete'
  BY <1>1 DEF IInv, GatherIsComplete, At, Idle, Locks
<1>7. LockOrder'
  <2>1. \A r \in Locks, q \in Requests \ {p} : lock'[r] = q <=> lock[r] = q
    BY <1>1, LockAssumption
  <2>2. \A q \in Requests : request[q].todo \subseteq Notes
    BY TypeSplit DEF IInv, ControlTyped, States
  <2> QED BY <1>1, <2>1, <2>2 DEF IInv, LockOrder, At, Idle, Locks
<1> QED BY <1>3, <1>4, <1>5, <1>6, <1>7 DEF IInv

\* A step that leaves the database alone, and takes free locks at most.
LEMMA StepKeeps ==
  ASSUME IInv, NEW p \in Requests, NEW s \in States, Become(p, s), UNCHANGED database,
         lock' \in [Locks -> Requests \cup {None}],
         \A r \in Locks : lock'[r] = lock[r] \/ (lock[r] = None /\ lock'[r] = p),
         s.pc \in Working \/ (request[p].pc \notin Working /\ lock' = lock),
         s.pc # "idle" => s.user \in Users,
         s.pc \in {"files", "lock", "check", "commit", "create"} => s.note \in Notes,
         s.pc \in {"check", "commit"} => lock'[s.note] = p /\ Stored(s.note),
         s.pc \in {"select", "gather"} => lock'[s.user] = p,
         s.pc = "commit" /\ s.op \in OwnerOps => OwnerOf[s.note] = s.user,
         s.pc = "commit" /\ s.op \in Edits \cup {"schedule"} =>
            /\ note[s.note] = "active" /\ Allows(Permission(s.user, s.note), s.op)
            /\ s.op \in {"patchitem", "dropitem"} => item[s.note],
         s.pc = "create" => OwnerOf[s.note] = s.user,
         s.pc = "gather" => \A n \in Notes : Stored(n) /\ OwnerOf[n] = s.user =>
                                                n \in s.todo \/ lock'[n] = p,
         s.pc \in {"select", "gather"} => lock'[Cleanup] = p,
         s.pc = "lock" => \A u \in Users : lock'[u] # p,
         s.pc \in {"lock", "select"} => \A n \in Notes : lock'[n] # p,
         s.pc = "gather" => \A n \in s.todo : lock'[n] # p
  PROVE  IInv'
<1>1. /\ request' \in [Requests -> States] /\ request'[p] = s
      /\ \A q \in Requests \ {p} : request'[q] = request[q]
  BY TypeSplit, BecomeFields DEF IInv
<1>2. /\ exists' = exists /\ note' = note /\ revision' = revision /\ item' = item
      /\ share' = share /\ contacts' = contacts
  BY DEF database, writing, sharing
\* What others hold stays theirs.
<1>3. \A q \in Requests \ {p}, r \in Locks : lock[r] = q => lock'[r] = q
  BY LockAssumption
<1>4. DataTyped' /\ SharesAreKnown'
  BY <1>2, TypeSplit DEF IInv, DataTyped, SharesAreKnown, Stored
<1>5. ControlTyped'
  <2>1. ControlTyped
    BY TypeSplit DEF IInv
  <2>2. ASSUME NEW r \in Locks, lock'[r] # None PROVE request'[lock'[r]].pc \in Working
    <3>1. CASE lock'[r] = p
      <4>1. lock' = lock => request[p].pc \in Working
        BY <2>1, <2>2, <3>1 DEF ControlTyped
      <4> QED BY <1>1, <3>1, <4>1
    <3>2. CASE lock'[r] # p
      <4>1. lock[r] = lock'[r] /\ lock[r] \in Requests \ {p}
        BY <2>2, <3>2
      <4> QED BY <1>1, <2>1, <2>2, <4>1 DEF ControlTyped
    <3> QED BY <3>1, <3>2
  <2>3. ASSUME NEW q \in Requests
        PROVE  /\ request'[q].pc # "idle" => request'[q].user \in Users
               /\ request'[q].pc \in {"files", "lock", "check", "commit", "create"} =>
                     request'[q].note \in Notes
    <3>1. CASE q = p
      BY <1>1, <3>1
    <3>2. CASE q # p
      BY <1>1, <2>1, <3>2 DEF ControlTyped, At
    <3> QED BY <3>1, <3>2
  <2> QED BY <1>1, <2>2, <2>3 DEF ControlTyped, At, Locks
<1>6. LocksAreHeld'
  <2> SUFFICES ASSUME NEW q \in Requests
               PROVE  /\ request'[q].pc \in {"check", "commit"} =>
                            (lock[request[q].note] = q /\ Stored(request[q].note))'
                      /\ request'[q].pc \in {"select", "gather"} => lock'[request'[q].user] = q
    BY DEF LocksAreHeld
  <2>1. CASE q = p
    BY <1>1, <1>2, <2>1 DEF Stored
  <2>2. CASE q # p
    <3>1. /\ request[q].pc \in {"check", "commit"} =>
               /\ lock[request[q].note] = q /\ Stored(request[q].note)
               /\ request[q].note \in Notes
          /\ request[q].pc \in {"select", "gather"} =>
               lock[request[q].user] = q /\ request[q].user \in Users
      BY TypeSplit DEF IInv, LocksAreHeld, ControlTyped, At
    <3> QED BY <1>1, <1>2, <1>3, <2>2, <3>1 DEF Locks, Stored
  <2> QED BY <2>1, <2>2
<1>7. ChecksHold'
  BY <1>1, <1>2 DEF IInv, ChecksHold, At, Permission
<1>8. GatherIsComplete'
  BY <1>1, <1>2, <1>3 DEF IInv, GatherIsComplete, At, Stored, Locks
<1>9. LockOrder'
  <2>1. \A r \in Locks, q \in Requests \ {p} : lock'[r] = q <=> lock[r] = q
    BY LockAssumption
  <2>2. \A q \in Requests : request[q].todo \subseteq Notes
    BY TypeSplit DEF IInv, ControlTyped, States
  <2> SUFFICES ASSUME NEW q \in Requests
               PROVE  /\ request'[q].pc \in {"select", "gather"} => lock'[Cleanup] = q
                      /\ At(q, "lock")' => \A u \in Users : lock'[u] # q
                      /\ request'[q].pc \in {"lock", "select"} => \A n \in Notes : lock'[n] # q
                      /\ At(q, "gather")' => \A n \in request'[q].todo : lock'[n] # q
    BY DEF LockOrder
  <2>3. CASE q = p
    BY <1>1, <2>3 DEF At
  <2>4. CASE q # p
    BY <1>1, <2>1, <2>2, <2>4 DEF IInv, LockOrder, At, Locks
  <2> QED BY <2>3, <2>4
<1> QED BY <1>4, <1>5, <1>6, <1>7, <1>8, <1>9, TypeSplitNext DEF IInv

LEMMA InitIInv == Init => IInv
<1> SUFFICES ASSUME Init PROVE IInv
  OBVIOUS
<1>1. \A p \in Requests : request[p] = Idle
  BY DEF Init
<1>2. DataTyped /\ ControlTyped
  BY <1>1, IdleTyped, RevisionAssumption DEF Init, DataTyped, ControlTyped, Locks, At, Idle
<1>3. SharesAreKnown /\ LocksAreHeld /\ ChecksHold /\ GatherIsComplete /\ LockOrder
  BY <1>1 DEF Init, SharesAreKnown, LocksAreHeld, ChecksHold, GatherIsComplete, LockOrder,
              At, Idle
<1> QED BY <1>2, <1>3, TypeSplit DEF IInv

------------------------------------------------------------------------------
\* A request is answered and nothing is written.
LEMMA AnswerKeeps == ASSUME IInv, NEW p \in Requests, Finish(p), UNCHANGED database PROVE IInv'
<1>1. /\ exists' = exists /\ note' = note /\ revision' = revision /\ item' = item
      /\ share' = share /\ contacts' = contacts
  BY DEF database, writing, sharing
<1>2. DataTyped' /\ SharesAreKnown' /\ \A n \in Notes : Stored(n)' => Stored(n)
  BY <1>1, TypeSplit DEF IInv, DataTyped, SharesAreKnown, Stored
<1> QED BY <1>1, <1>2, CommitKeeps

\* A new request.
LEMMA StartsKeep ==
  ASSUME IInv, NEW p \in Requests, NEW s \in States, At(p, "idle"), Become(p, s),
         UNCHANGED <<database, lock>>, s.pc \in {"files", "lock", "create", "leave"},
         s.user \in Users, s.pc # "leave" => s.note \in Notes,
         s.pc = "create" => OwnerOf[s.note] = s.user
  PROVE  IInv'
<1>1. lock' \in [Locks -> Requests \cup {None}] /\ lock' = lock
  BY TypeSplit DEF IInv, ControlTyped
<1>2. \A r \in Locks : lock'[r] # p
  BY <1>1, TypeSplit, LockAssumption DEF IInv, ControlTyped, At, Working
<1> QED BY <1>1, <1>2, StepKeeps DEF At, Working, Locks

LEMMA CallKeeps ==
  ASSUME IInv, NEW p \in Requests, NEW c \in Calls, Call(p, c)
  PROVE  IInv'
<1> DEFINE pc == IF c.op = "attach" THEN "files" ELSE "lock"
           s == [Idle EXCEPT !.pc = pc, !.op = c.op, !.user = c.user, !.note = c.note,
                      !.others = c.others, !.permission = c.permission]
<1>1. At(p, "idle") /\ Become(p, s) /\ UNCHANGED <<database, lock>>
  BY DEF Call
<1>2. /\ c.user \in Users /\ c.op \in Edits \cup OwnerOps /\ c.note \in Notes
      /\ c.others \in SUBSET Users /\ c.permission \in {"none", "view", "edit"}
  BY CallAssumption
<1>3. pc \in {"files", "lock"}
  OBVIOUS
<1> HIDE DEF pc
<1>4. s \in States /\ s.pc = pc /\ s.user = c.user /\ s.note = c.note
  BY <1>2, <1>3, IdleTyped DEF States
<1> HIDE DEF s
<1> QED BY <1>1, <1>2, <1>3, <1>4, StartsKeep

LEMMA CreateKeeps ==
  ASSUME IInv, NEW p \in Requests, NEW u \in Users, NEW n \in Notes, Create(p, u, n) PROVE IInv'
<1> DEFINE s == [Idle EXCEPT !.pc = "create", !.op = "create", !.user = u, !.note = n]
<1>1. At(p, "idle") /\ OwnerOf[n] = u /\ Become(p, s) /\ UNCHANGED <<database, lock>>
  BY DEF Create
<1>2. s \in States /\ s.pc = "create" /\ s.user = u /\ s.note = n
  BY IdleTyped DEF States
<1> HIDE DEF s
<1> QED BY <1>1, <1>2, StartsKeep

LEMMA LeaveKeeps == ASSUME IInv, NEW p \in Requests, NEW u \in Users, Leave(p, u) PROVE IInv'
<1> DEFINE s == [Idle EXCEPT !.pc = "leave", !.op = "leave", !.user = u]
<1>1. At(p, "idle") /\ Become(p, s) /\ UNCHANGED <<database, lock>>
  BY DEF Leave
<1>2. s \in States /\ s.pc = "leave" /\ s.user = u
  BY IdleTyped DEF States
<1> HIDE DEF s
<1> QED BY <1>1, <1>2, StartsKeep

LEMMA StartKeeps == ASSUME IInv, NEW p \in Requests, Start(p) PROVE IInv'
BY CallKeeps, CreateKeeps, LeaveKeeps DEF Start

------------------------------------------------------------------------------
\* A request at work is one of the states, with its user and, in get_note and
\* create_note, its note.
LEMMA RequestTyped ==
  ASSUME IInv, NEW p \in Requests
  PROVE  /\ request[p] \in States /\ lock \in [Locks -> Requests \cup {None}]
         /\ request[p].pc # "idle" => request[p].user \in Users
         /\ request[p].pc \in {"files", "lock", "check", "commit", "create"} => request[p].note \in Notes
         /\ request[p].pc \notin Working => \A r \in Locks : lock[r] # p
BY TypeSplit, LockAssumption DEF IInv, ControlTyped, At

\* Only the fields named by Goto change.
LEMMA GotoFields ==
  ASSUME NEW r \in States, NEW pc \in {"lock", "check", "commit", "select", "gather"}
  PROVE  LET s == [r EXCEPT !.pc = pc]
         IN  /\ s \in States /\ s.pc = pc /\ s.op = r.op /\ s.user = r.user /\ s.note = r.note
             /\ s.others = r.others /\ s.permission = r.permission /\ s.todo = r.todo
BY DEF States

LEMMA LockFilesKeeps == ASSUME IInv, NEW p \in Requests, LockFiles(p) PROVE IInv'
<1> DEFINE s == [request[p] EXCEPT !.pc = "lock"]
<1>1. /\ request[p].pc = "files" /\ request[p].note \in Notes /\ request[p] \in States
      /\ lock \in [Locks -> Requests \cup {None}] /\ request[p].user \in Users
      /\ \A r \in Locks : lock[r] # p
  BY RequestTyped DEF LockFiles, At, Working
<1>2. /\ lock[Cleanup] = None /\ UNCHANGED database /\ Become(p, s)
      /\ lock' = [lock EXCEPT ![Cleanup] = p]
  BY DEF LockFiles, Goto
<1>3. s \in States /\ s.pc = "lock" /\ s.user = request[p].user /\ s.note = request[p].note
  BY <1>1, GotoFields
<1>4. /\ lock' \in [Locks -> Requests \cup {None}]
      /\ \A r \in Locks : lock'[r] = lock[r] \/ (lock[r] = None /\ lock'[r] = p)
      /\ \A r \in Notes \cup Users : lock'[r] # p
  BY <1>1, <1>2, LockAssumption DEF Locks
<1> HIDE DEF s
<1> QED BY <1>1, <1>2, <1>3, <1>4, StepKeeps DEF Working

LEMMA LockNoteKeeps == ASSUME IInv, NEW p \in Requests, LockNote(p) PROVE IInv'
<1> DEFINE n == request[p].note
<1> DEFINE s == [request[p] EXCEPT !.pc = "check"]
<1>1. /\ request[p].pc = "lock" /\ n \in Notes /\ lock[n] = None /\ UNCHANGED database
      /\ request[p] \in States /\ lock \in [Locks -> Requests \cup {None}]
      /\ request[p].user \in Users
  BY RequestTyped DEF LockNote, At
<1>2. CASE ~Stored(n)
  BY <1>1, <1>2, AnswerKeeps DEF LockNote
<1>3. CASE Stored(n)
  <2>1. lock' = [lock EXCEPT ![n] = p] /\ Become(p, s)
    BY <1>3 DEF LockNote, Goto
  <2>2. /\ s \in States /\ s.pc = "check" /\ s.op = request[p].op /\ s.user = request[p].user
        /\ s.note = n
    BY <1>1, GotoFields
  <2>3. /\ lock' \in [Locks -> Requests \cup {None}] /\ lock'[n] = p
        /\ \A r \in Locks : lock'[r] = lock[r] \/ (lock[r] = None /\ lock'[r] = p)
    BY <1>1, <2>1 DEF Locks
  <2> HIDE DEF s, n
  <2> QED BY <1>1, <1>3, <2>1, <2>2, <2>3, StepKeeps DEF Working
<1> QED BY <1>2, <1>3

\* A passed check is what ChecksHold says of a request that is to commit.
LEMMA PassedCheck ==
  ASSUME IInv, NEW p \in Requests, At(p, "check"), Passes(p)
  PROVE  LET r == request[p]
         IN  /\ r.op \in OwnerOps => OwnerOf[r.note] = r.user
             /\ r.op \in Edits \cup {"schedule"} =>
                   /\ note[r.note] = "active" /\ Allows(Permission(r.user, r.note), r.op)
                   /\ r.op \in {"patchitem", "dropitem"} => item[r.note]
<1>1. request[p].note \in Notes /\ request[p].user \in Users
  BY RequestTyped DEF At
<1>2. share[request[p].note][request[p].user] \in {"none", "view", "edit"}
  BY <1>1 DEF IInv, TypeOK
<1> QED BY <1>1, <1>2 DEF Passes, Allows, Permission, OwnerOps, Edits

LEMMA CheckKeeps == ASSUME IInv, NEW p \in Requests, Check(p) PROVE IInv'
<1> DEFINE s == [request[p] EXCEPT !.pc = "commit"]
<1>1. /\ At(p, "check") /\ request[p].note \in Notes /\ UNCHANGED database
      /\ request[p] \in States /\ lock \in [Locks -> Requests \cup {None}]
      /\ request[p].user \in Users
  BY RequestTyped DEF Check, At
<1>2. CASE ~Passes(p)
  BY <1>1, <1>2, AnswerKeeps DEF Check
<1>3. CASE Passes(p)
  <2>1. lock' = lock /\ Become(p, s)
    BY <1>3 DEF Check, Goto
  <2>2. /\ s \in States /\ s.pc = "commit" /\ s.op = request[p].op /\ s.user = request[p].user
        /\ s.note = request[p].note
    BY <1>1, GotoFields
  <2>3. lock[request[p].note] = p /\ Stored(request[p].note)
    BY <1>1 DEF IInv, LocksAreHeld, At
  <2>4. /\ s.op \in OwnerOps => OwnerOf[s.note] = s.user
        /\ s.op \in Edits \cup {"schedule"} =>
              /\ note[s.note] = "active" /\ Allows(Permission(s.user, s.note), s.op)
              /\ s.op \in {"patchitem", "dropitem"} => item[s.note]
    BY <1>1, <1>3, <2>2, PassedCheck
  <2> HIDE DEF s
  <2> QED BY <1>1, <2>1, <2>2, <2>3, <2>4, StepKeeps DEF Working
<1> QED BY <1>2, <1>3

------------------------------------------------------------------------------
\* A request that is to commit holds its note, which is in the table; nobody
\* else holds it.
LEMMA Committing ==
  ASSUME IInv, NEW p \in Requests, At(p, "commit")
  PROVE  /\ request[p].note \in Notes /\ lock[request[p].note] = p /\ Stored(request[p].note)
         /\ request[p] \in States /\ request[p].user \in Users
         /\ request[p].op \in OwnerOps => OwnerOf[request[p].note] = request[p].user
BY RequestTyped DEF IInv, LocksAreHeld, ChecksHold, At

LEMMA EditKeeps == ASSUME IInv, NEW p \in Requests, Edit(p) PROVE IInv'
<1> DEFINE n == request[p].note
<1>1. /\ n \in Notes /\ lock[n] = p /\ Finish(p)
  BY Committing DEF Edit
<1>2. /\ exists' = exists /\ note' = note /\ share' = share /\ contacts' = contacts
  BY DEF Edit, sharing
<1>3. revision' \in [Notes -> 0..(Revisions - 1)]
  <2>1. revision' = [revision EXCEPT ![n] = (revision[n] + 1) % Revisions]
    BY DEF Edit
  <2>2. revision \in [Notes -> 0..(Revisions - 1)] /\ revision[n] + 1 \in Nat
    BY <1>1, RevisionAssumption DEF IInv, TypeOK
  <2>3. \A k \in Nat : k % Revisions \in 0..(Revisions - 1)
    BY RevisionAssumption
  <2> QED BY <2>1, <2>2, <2>3
<1>4. item' \in [Notes -> BOOLEAN] /\ \A m \in Notes \ {n} : item'[m] = item[m]
  <2> DEFINE i == CASE request[p].op = "additem" -> TRUE [] request[p].op = "dropitem" -> FALSE
                    [] OTHER -> item[n]
  <2>1. item' = [item EXCEPT ![n] = i]
    BY DEF Edit
  <2>2. item \in [Notes -> BOOLEAN]
    BY DEF IInv, TypeOK
  <2>3. i \in BOOLEAN
    BY <1>1, <2>2
  <2> HIDE DEF i, n
  <2> QED BY <2>1, <2>2, <2>3
<1>5. DataTyped'
  BY <1>2, <1>3, <1>4, TypeSplit DEF IInv, DataTyped
<1>6. SharesAreKnown' /\ \A m \in Notes : Stored(m)' => Stored(m)
  BY <1>2 DEF IInv, SharesAreKnown, Stored
<1> QED BY <1>1, <1>2, <1>4, <1>5, <1>6, CommitKeeps

LEMMA DeleteNoteKeeps == ASSUME IInv, NEW p \in Requests, DeleteNote(p) PROVE IInv'
<1> DEFINE n == request[p].note
<1>1. n \in Notes /\ lock[n] = p /\ Stored(n) /\ Finish(p)
  BY Committing DEF DeleteNote
<1>2. /\ exists' = exists /\ revision' = revision /\ item' = item
      /\ share' = share /\ contacts' = contacts
  BY DEF DeleteNote, writing, sharing
<1>3. /\ note' \in [Notes -> {"unborn", "active", "deleted", "late", "gone"}]
      /\ note'[n] \in {"deleted", "active"} /\ \A m \in Notes \ {n} : note'[m] = note[m]
  BY <1>1 DEF DeleteNote, IInv, TypeOK
<1>4. DataTyped'
  BY <1>2, <1>3, TypeSplit DEF IInv, DataTyped
<1>5. \A m \in Notes : Stored(m)' <=> Stored(m)
  BY <1>1, <1>3 DEF Stored
<1>6. SharesAreKnown'
  BY <1>2, <1>5 DEF IInv, SharesAreKnown
<1> QED BY <1>1, <1>2, <1>3, <1>4, <1>5, <1>6, CommitKeeps

LEMMA ShareKeeps == ASSUME IInv, NEW p \in Requests, Share(p) PROVE IInv'
<1> DEFINE r == request[p]
           n == r.note
<1>1. /\ n \in Notes /\ lock[n] = p /\ Stored(n) /\ Finish(p) /\ r \in States /\ r.user \in Users
      /\ OwnerOf[n] = r.user
  BY Committing DEF Share, OwnerOps
<1>2. /\ exists' = exists /\ note' = note /\ revision' = revision /\ item' = item
  BY DEF Share, writing
<1>3. CASE ~(r.others \subseteq exists)
  <2>1. share' = share /\ contacts' = contacts
    BY <1>3 DEF Share, sharing
  <2> QED BY <1>1, <1>2, <2>1, AnswerKeeps DEF database, writing, sharing
<1>4. CASE r.others \subseteq exists
  <2>1. /\ share' = [share EXCEPT ![n] =
              [v \in Users |-> IF v \in r.others THEN r.permission ELSE share[n][v]]]
        /\ contacts' = contacts \cup ({r.user} \X r.others)
    BY <1>4 DEF Share
  <2>2. /\ share \in [Notes -> [Users -> {"none", "view", "edit"}]]
        /\ r.others \subseteq Users /\ r.permission \in {"none", "view", "edit"}
    BY <1>1 DEF IInv, TypeOK, States
  <2>3. /\ share' \in [Notes -> [Users -> {"none", "view", "edit"}]]
        /\ \A m \in Notes \ {n} : share'[m] = share[m]
        /\ \A v \in Users : share'[n][v] =
              IF v \in r.others THEN r.permission ELSE share[n][v]
    <3> DEFINE row == [v \in Users |-> IF v \in r.others THEN r.permission ELSE share[n][v]]
    <3>1. row \in [Users -> {"none", "view", "edit"}]
      BY <1>1, <2>2
    <3>2. \A v \in Users : row[v] = IF v \in r.others THEN r.permission ELSE share[n][v]
      OBVIOUS
    <3>3. share' = [share EXCEPT ![n] = row]
      BY <2>1
    <3> HIDE DEF row, n
    <3> QED BY <1>1, <2>2, <3>1, <3>2, <3>3
  <2>4. contacts' \subseteq Users \X Users /\ contacts \subseteq contacts'
    BY <1>1, <2>1, <2>2, TypeSplit DEF IInv, DataTyped
  <2>5. DataTyped'
    BY <1>2, <2>3, <2>4, TypeSplit DEF IInv, DataTyped
  <2>6. SharesAreKnown'
    <3> SUFFICES ASSUME NEW m \in Notes, NEW u \in Users, share'[m][u] # "none"
                 PROVE  /\ u \in exists' /\ <<OwnerOf[m], u>> \in contacts' /\ Stored(m)'
      BY DEF SharesAreKnown
    <3>1. CASE m = n /\ u \in r.others
      <4>1. <<OwnerOf[m], u>> \in contacts'
        BY <1>1, <2>1, <3>1
      <4> QED BY <1>1, <1>2, <1>4, <3>1, <4>1 DEF Stored
    <3>2. CASE ~(m = n /\ u \in r.others)
      <4>1. share[m][u] # "none"
        BY <2>3, <3>2
      <4> QED BY <1>2, <2>4, <4>1 DEF IInv, SharesAreKnown, Stored
    <3> QED BY <3>1, <3>2
  <2>7. \A m \in Notes : Stored(m)' => Stored(m)
    BY <1>2 DEF Stored
  <2> QED BY <1>1, <1>2, <2>3, <2>5, <2>6, <2>7, CommitKeeps
<1> QED BY <1>3, <1>4

LEMMA ChangeShareKeeps == ASSUME IInv, NEW p \in Requests, ChangeShare(p) PROVE IInv'
<1> DEFINE r == request[p]
           n == r.note
           New(v) == IF v \in r.others /\ share[n][v] # "none"
                     THEN IF r.op = "unshare" THEN "none" ELSE r.permission
                     ELSE share[n][v]
<1>1. n \in Notes /\ lock[n] = p /\ Finish(p) /\ r \in States
  BY Committing DEF ChangeShare
<1>2. /\ exists' = exists /\ note' = note /\ revision' = revision /\ item' = item
      /\ contacts' = contacts
  BY DEF ChangeShare, writing
<1>3. /\ share' = [share EXCEPT ![n] = [v \in Users |-> New(v)]]
  BY DEF ChangeShare
<1>4. /\ share \in [Notes -> [Users -> {"none", "view", "edit"}]]
      /\ r.permission \in {"none", "view", "edit"}
  BY <1>1 DEF IInv, TypeOK, States
<1>5. \A v \in Users : /\ New(v) \in {"none", "view", "edit"}
                       /\ share[n][v] = "none" => New(v) = "none"
  BY <1>1, <1>4
<1> HIDE DEF New, n
<1>6. /\ share' \in [Notes -> [Users -> {"none", "view", "edit"}]]
      /\ \A m \in Notes \ {n} : share'[m] = share[m]
      /\ \A m \in Notes, v \in Users : share[m][v] = "none" => share'[m][v] = "none"
  BY <1>1, <1>3, <1>4, <1>5
<1>7. DataTyped'
  BY <1>2, <1>6, TypeSplit DEF IInv, DataTyped
<1>8. SharesAreKnown' /\ \A m \in Notes : Stored(m)' => Stored(m)
  BY <1>2, <1>6 DEF IInv, SharesAreKnown, Stored
<1> QED BY <1>1, <1>2, <1>6, <1>7, <1>8, CommitKeeps

\* Deleting an account takes only notes that the deletion has locked, and the
\* shares of the user.
LEMMA EraseKeeps == ASSUME IInv, NEW p \in Requests, Erase(p) PROVE IInv'
<1> DEFINE u == request[p].user
<1>1. Finish(p) /\ revision' = revision /\ item' = item
  BY DEF Erase, writing
<1>2. CASE Refused(p)
  BY <1>1, <1>2, AnswerKeeps DEF Erase, database, writing, sharing
<1>3. CASE ~Refused(p)
  <2>1. /\ exists' = exists \ {u}
        /\ note' = [n \in Notes |-> IF OwnerOf[n] = u /\ Stored(n) THEN "gone" ELSE note[n]]
        /\ share' = [n \in Notes |-> [v \in Users |->
               IF v = u \/ OwnerOf[n] = u THEN "none" ELSE share[n][v]]]
        /\ contacts' = {c \in contacts : u \notin {c[1], c[2]}}
    BY <1>3 DEF Erase
  <2>2. \A n \in Notes : OwnerOf[n] = u /\ Stored(n) => lock[n] = p
    BY <1>3 DEF Refused
  <2>3. DataTyped
    BY TypeSplit DEF IInv
  <2>4. DataTyped'
    BY <1>1, <2>1, <2>3 DEF DataTyped
  <2>5. SharesAreKnown'
    <3> SUFFICES ASSUME NEW m \in Notes, NEW v \in Users, share'[m][v] # "none"
                 PROVE  /\ v \in exists' /\ <<OwnerOf[m], v>> \in contacts' /\ Stored(m)'
      BY DEF SharesAreKnown
    <3>1. v # u /\ OwnerOf[m] # u /\ share[m][v] # "none"
      BY <2>1
    <3>2. v \in exists /\ <<OwnerOf[m], v>> \in contacts /\ Stored(m)
      BY <3>1 DEF IInv, SharesAreKnown
    <3> QED BY <2>1, <3>1, <3>2 DEF Stored
  <2>6. \A n \in Notes : Stored(n)' => Stored(n)
    BY <2>1 DEF Stored
  <2>7. ASSUME NEW n \in Notes, lock[n] \in Requests \ {p}
        PROVE  note'[n] = note[n] /\ \A v \in exists' : share'[n][v] = share[n][v]
    <3>1. ~(OwnerOf[n] = u /\ Stored(n))
      BY <2>2, <2>7
    <3>2. \A v \in Users : ~Stored(n) => share[n][v] = "none"
      BY DEF IInv, SharesAreKnown
    <3> QED BY <2>1, <2>3, <3>1, <3>2 DEF DataTyped
  <2> QED BY <1>1, <2>1, <2>4, <2>5, <2>6, <2>7, CommitKeeps
<1> QED BY <1>2, <1>3

------------------------------------------------------------------------------
\* create_note adds the note only while nobody holds its owner's account, so no
\* deletion of that account is under way.
LEMMA InsertKeeps == ASSUME IInv, NEW p \in Requests, Insert(p) PROVE IInv'
<1> DEFINE r == request[p]
           n == r.note
<1>1. /\ At(p, "create") /\ n \in Notes /\ r.user \in Users /\ lock[r.user] = None
      /\ OwnerOf[n] = r.user /\ Become(p, Idle)
      /\ \A l \in Locks : lock[l] # p
  BY RequestTyped DEF Insert, IInv, ChecksHold, At, Working
<1>2. /\ exists' = exists /\ revision' = revision /\ item' = item /\ share' = share
      /\ contacts' = contacts /\ lock' = lock
  BY DEF Insert, writing, sharing
<1>3. /\ request' \in [Requests -> States] /\ request'[p] = Idle
      /\ \A q \in Requests \ {p} : request'[q] = request[q]
  BY <1>1, IdleTyped, TypeSplit, BecomeFields DEF IInv
\* At most, one note is added.
<1>4. /\ note' \in [Notes -> {"unborn", "active", "deleted", "late", "gone"}]
      /\ \A m \in Notes : note'[m] # note[m] =>
            m = n /\ note[m] = "unborn" /\ note'[m] = "active"
  <2>1. note \in [Notes -> {"unborn", "active", "deleted", "late", "gone"}]
    BY DEF IInv, TypeOK
  <2> QED BY <1>1, <2>1 DEF Insert
<1>5. \A m \in Notes : Stored(m) => note'[m] = note[m] /\ Stored(m)'
  BY <1>4 DEF Stored
<1>6. DataTyped' /\ ControlTyped'
  <2>1. DataTyped /\ ControlTyped
    BY TypeSplit DEF IInv
  <2>2. \A l \in Locks : lock[l] # None => request'[lock[l]].pc \in Working
    BY <1>1, <1>3, <2>1 DEF ControlTyped
  <2> QED BY <1>2, <1>3, <1>4, <2>1, <2>2 DEF DataTyped, ControlTyped, At, Idle
<1>7. SharesAreKnown'
  BY <1>2, <1>5 DEF IInv, SharesAreKnown
<1>8. LocksAreHeld' /\ ChecksHold'
  <2>1. \A q \in Requests \ {p} : request[q].pc \in {"check", "commit"} =>
            request[q].note \in Notes /\ Stored(request[q].note)
    BY RequestTyped DEF IInv, LocksAreHeld
  <2>2. LocksAreHeld'
    <3> SUFFICES ASSUME NEW q \in Requests
                 PROVE  /\ request'[q].pc \in {"check", "commit"} =>
                              (lock[request[q].note] = q /\ Stored(request[q].note))'
                        /\ request'[q].pc \in {"select", "gather"} => lock'[request'[q].user] = q
      BY DEF LocksAreHeld
    <3>1. CASE q = p
      BY <1>3, <3>1 DEF Idle
    <3>2. CASE q # p
      BY <1>2, <1>3, <1>5, <2>1, <3>2 DEF IInv, LocksAreHeld, Stored
    <3> QED BY <3>1, <3>2
  <2>3. ChecksHold'
    BY <1>2, <1>3, <1>5, <2>1 DEF IInv, ChecksHold, At, Permission, Idle
  <2> QED BY <2>2, <2>3
<1>9. GatherIsComplete'
  <2> SUFFICES ASSUME NEW q \in Requests, NEW m \in Notes, At(q, "gather")', Stored(m)',
                      OwnerOf[m] = request'[q].user
               PROVE  m \in request'[q].todo \/ lock'[m] = q
    BY DEF GatherIsComplete
  <2>1. q # p /\ request'[q] = request[q] /\ At(q, "gather")
    BY <1>3 DEF At, Idle
  <2>2. lock[request[q].user] = q
    BY <2>1 DEF IInv, LocksAreHeld, At
  <2>3. ~(m = n /\ r.user = request[q].user)
    BY <1>1, <2>2, LockAssumption
  <2>4. Stored(m)
    BY <1>1, <1>4, <2>1, <2>3 DEF Stored
  <2> QED BY <1>2, <2>1, <2>4 DEF IInv, GatherIsComplete
<1>10. LockOrder'
  BY <1>2, <1>3 DEF IInv, LockOrder, At, Idle
<1> QED BY <1>6, <1>7, <1>8, <1>9, <1>10, TypeSplitNext DEF IInv

LEMMA LockAccountKeeps == ASSUME IInv, NEW p \in Requests, LockAccount(p) PROVE IInv'
<1> DEFINE u == request[p].user
           s == [request[p] EXCEPT !.pc = "select"]
<1>1. /\ request[p].pc = "leave" /\ request[p] \in States /\ u \in Users
      /\ lock \in [Locks -> Requests \cup {None}] /\ \A r \in Locks : lock[r] # p
  BY RequestTyped DEF LockAccount, At, Working
<1>2. /\ lock[Cleanup] = None /\ lock[u] = None /\ UNCHANGED database /\ Become(p, s)
      /\ lock' = [lock EXCEPT ![Cleanup] = p, ![u] = p]
  BY DEF LockAccount, Goto
<1>3. s \in States /\ s.pc = "select" /\ s.user = u
  BY <1>1, GotoFields
<1>4. /\ lock' \in [Locks -> Requests \cup {None}] /\ lock'[u] = p /\ lock'[Cleanup] = p
      /\ \A r \in Locks : lock'[r] = lock[r] \/ (lock[r] = None /\ lock'[r] = p)
      /\ \A n \in Notes : lock'[n] # p
  BY <1>1, <1>2, LockAssumption DEF Locks
<1> HIDE DEF s, u
<1> QED BY <1>1, <1>2, <1>3, <1>4, StepKeeps DEF Working

LEMMA SelectNotesKeeps == ASSUME IInv, NEW p \in Requests, SelectNotes(p) PROVE IInv'
<1> DEFINE u == request[p].user
           found == {n \in Notes : Stored(n) /\ (OwnerOf[n] = u \/ share[n][u] # "none")}
           s == [request[p] EXCEPT !.pc = "gather", !.todo = found]
<1>1. /\ request[p].pc = "select" /\ request[p] \in States /\ u \in Users /\ lock[u] = p
      /\ lock \in [Locks -> Requests \cup {None}]
      /\ lock[Cleanup] = p /\ \A n \in Notes : lock[n] # p
  BY RequestTyped DEF SelectNotes, At, IInv, LocksAreHeld, LockOrder
<1>2. UNCHANGED database /\ lock' = lock /\ Become(p, s)
  BY DEF SelectNotes
<1>3. found \in SUBSET Notes /\ \A n \in Notes : Stored(n) /\ OwnerOf[n] = u => n \in found
  OBVIOUS
<1> HIDE DEF found
<1>4. s \in States /\ s.pc = "gather" /\ s.user = u /\ s.todo = found
  BY <1>1, <1>3 DEF States
<1> HIDE DEF s, u
<1> QED BY <1>1, <1>2, <1>3, <1>4, StepKeeps DEF Working

LEMMA GatherKeeps ==
  ASSUME IInv, NEW p \in Requests, NEW n \in Notes, Gather(p, n) PROVE IInv'
<1> DEFINE u == request[p].user
           s == [request[p] EXCEPT !.todo = request[p].todo \ {n}]
<1>1. /\ request[p].pc = "gather" /\ request[p] \in States /\ u \in Users /\ lock[u] = p
      /\ lock \in [Locks -> Requests \cup {None}]
      /\ lock[Cleanup] = p /\ \A m \in request[p].todo : lock[m] # p
  BY RequestTyped DEF Gather, At, IInv, LocksAreHeld, LockOrder
<1>2. /\ UNCHANGED database /\ lock[n] = None /\ Become(p, s)
      /\ lock' = IF Stored(n) THEN [lock EXCEPT ![n] = p] ELSE lock
  BY DEF Gather
<1>3. s \in States /\ s.pc = "gather" /\ s.user = u /\ s.todo = request[p].todo \ {n}
  BY <1>1 DEF States
<1>4. /\ lock' \in [Locks -> Requests \cup {None}] /\ lock'[u] = p
      /\ \A r \in Locks : lock'[r] = lock[r] \/ (lock[r] = None /\ lock'[r] = p)
      /\ Stored(n) => lock'[n] = p
      /\ lock'[Cleanup] = p
  BY <1>1, <1>2, LockAssumption DEF Locks
<1>5. \A m \in Notes : Stored(m) /\ OwnerOf[m] = u => m \in s.todo \/ lock'[m] = p
  <2>1. \A m \in Notes : Stored(m) /\ OwnerOf[m] = u => m \in request[p].todo \/ lock[m] = p
    BY <1>1 DEF IInv, GatherIsComplete, At
  <2>2. \A m \in Notes : lock[m] = p => lock'[m] = p
    BY <1>4, LockAssumption DEF Locks
  <2> QED BY <1>3, <1>4, <2>1, <2>2
<1>6. \A m \in s.todo : lock'[m] # p
  BY <1>1, <1>2, <1>3
<1> HIDE DEF s, u
<1> QED BY <1>1, <1>2, <1>3, <1>4, <1>5, <1>6, StepKeeps DEF Working

------------------------------------------------------------------------------
\* Time passes over notes that are deleted: none that a request is to change,
\* but for an undelete.
LEMMA TimeKeeps ==
  ASSUME IInv, NEW n \in Notes, WindowEnds(n) \/ Purge(n) PROVE IInv'
<1>1. /\ exists' = exists /\ revision' = revision /\ item' = item /\ contacts' = contacts
      /\ lock' = lock /\ request' = request
  BY DEF WindowEnds, Purge, writing, sharing
<1>2. /\ note' \in [Notes -> {"unborn", "active", "deleted", "late", "gone"}]
      /\ \A m \in Notes \ {n} : note'[m] = note[m]
      /\ note[n] \in {"deleted", "late"}
  BY DEF WindowEnds, Purge, IInv, TypeOK
<1>3. /\ share' \in [Notes -> [Users -> {"none", "view", "edit"}]]
      /\ \A m \in Notes \ {n} : share'[m] = share[m]
      /\ \A m \in Notes, u \in Users : share[m][u] = "none" => share'[m][u] = "none"
      /\ ~Stored(n)' => \A u \in Users : share'[n][u] = "none"
  <2>1. share \in [Notes -> [Users -> {"none", "view", "edit"}]]
    BY DEF IInv, TypeOK
  <2>2. CASE WindowEnds(n)
    <3>1. Stored(n)'
      BY <1>2, <2>2 DEF WindowEnds, Stored, IInv, TypeOK
    <3> QED BY <2>1, <2>2, <3>1 DEF WindowEnds, sharing, writing
  <2>3. CASE Purge(n)
    BY <2>1, <2>3 DEF Purge
  <2> QED BY <2>2, <2>3
<1>4. \A m \in Notes : /\ Stored(m)' => Stored(m)
                       /\ lock[m] # None => (Stored(m) => Stored(m)')
  BY <1>1, <1>2 DEF WindowEnds, Purge, Stored, IInv, TypeOK
<1>5. TypeOK'
  BY <1>1, <1>2, <1>3, TypeSplit, TypeSplitNext DEF IInv, DataTyped, ControlTyped, At
<1>6. SharesAreKnown'
  <2> SUFFICES ASSUME NEW m \in Notes, NEW u \in Users, share'[m][u] # "none"
               PROVE  u \in exists' /\ <<OwnerOf[m], u>> \in contacts' /\ Stored(m)'
    BY DEF SharesAreKnown
  <2>1. share[m][u] # "none"
    BY <1>3
  <2>2. u \in exists /\ <<OwnerOf[m], u>> \in contacts /\ Stored(m)
    BY <2>1 DEF IInv, SharesAreKnown
  <2> QED BY <1>1, <1>2, <1>3, <2>2 DEF Stored
<1>7. \A q \in Requests : request[q].pc \in {"check", "commit"} =>
          request[q].note \in Notes /\ lock[request[q].note] = q /\ Stored(request[q].note)
  BY RequestTyped DEF IInv, LocksAreHeld
<1>8. LocksAreHeld'
  <2> SUFFICES ASSUME NEW q \in Requests
               PROVE  /\ request[q].pc \in {"check", "commit"} =>
                            lock[request[q].note] = q /\ Stored(request[q].note)'
                      /\ request[q].pc \in {"select", "gather"} => lock[request[q].user] = q
    BY <1>1 DEF LocksAreHeld, Stored
  <2>1. request[q].pc \in {"check", "commit"} => Stored(request[q].note)'
    BY <1>1, <1>4, <1>7, LockAssumption DEF Stored
  <2> QED BY <1>7, <2>1 DEF IInv, LocksAreHeld
<1>9. ChecksHold' /\ GatherIsComplete'
  <2>1. ChecksHold'
    BY <1>1, <1>2, <1>3, <1>7 DEF IInv, ChecksHold, At, Permission
  <2>2. GatherIsComplete'
    BY <1>1, <1>4 DEF IInv, GatherIsComplete, At
  <2> QED BY <2>1, <2>2
<1>10. LockOrder'
  BY <1>1 DEF IInv, LockOrder, At
<1> QED BY <1>5, <1>6, <1>8, <1>9, <1>10 DEF IInv

------------------------------------------------------------------------------
LEMMA NextKeeps == IInv /\ [Next]_vars => IInv'
<1> SUFFICES ASSUME IInv, [Next]_vars PROVE IInv'
  OBVIOUS
<1>1. ASSUME NEW p \in Requests, Start(p) PROVE IInv'
  BY <1>1, StartKeeps
<1>2. ASSUME NEW p \in Requests, Step(p) PROVE IInv'
  BY <1>2, LockFilesKeeps, LockNoteKeeps, CheckKeeps, EditKeeps, DeleteNoteKeeps, ShareKeeps, ChangeShareKeeps,
     InsertKeeps, LockAccountKeeps, SelectNotesKeeps, GatherKeeps, EraseKeeps DEF Step
<1>3. ASSUME NEW p \in Requests, Fail(p) PROVE IInv'
  BY <1>3, AnswerKeeps DEF Fail
<1>4. ASSUME NEW n \in Notes, WindowEnds(n) \/ Purge(n) PROVE IInv'
  BY <1>4, TimeKeeps
<1>5. CASE UNCHANGED vars
  <2>1. /\ exists' = exists /\ note' = note /\ revision' = revision /\ item' = item
        /\ share' = share /\ contacts' = contacts /\ lock' = lock /\ request' = request
    BY <1>5 DEF vars, writing, sharing
  <2> QED BY <2>1 DEF IInv, TypeOK, SharesAreKnown, LocksAreHeld, ChecksHold, GatherIsComplete,
                      LockOrder, At, Stored, Permission
<1> QED BY <1>1, <1>2, <1>3, <1>4, <1>5 DEF Next

\* The inductive invariant holds in every reachable state.
THEOREM Invariance == Spec => []IInv
<1> QED BY InitIInv, NextKeeps, PTL DEF Spec

\* upsert_share, remove_share, purge_expired_deletions and delete_account keep
\* shares to accounts, contacts and notes that are there.
THEOREM SharesStayKnown == Spec => []SharesAreKnown
<1>1. IInv => SharesAreKnown
  BY DEF IInv
<1> QED BY <1>1, Invariance, PTL

\* When delete_account deletes the user, every note of the user is one that it
\* has locked: create_note and the shares of others never make it fail.
THEOREM DeletionIsComplete == Spec => []AllGathered
<1>1. IInv => AllGathered
  BY DEF IInv, AllGathered, GatherIsComplete, Refused
<1> QED BY <1>1, Invariance, PTL

\* The permission that get_note's caller looked at holds at the commit: no
\* write is by someone whose share was revoked or lowered meanwhile, and none
\* is to a note that was deleted meanwhile.
THEOREM RevocationIsImmediate == Spec => WritesAreAllowed
<1>1. IInv /\ [Next]_vars =>
        [\A p \in Requests :
          LET r == request[p] IN
          Commits(p, Edits \cup {"schedule"}) /\ r.user \in exists =>
              /\ note[r.note] = "active"
              /\ Allows(Permission(r.user, r.note), r.op)
              /\ r.op \in {"patchitem", "dropitem"} => item[r.note]]_vars
  BY DEF IInv, ChecksHold, Commits
<1> QED BY <1>1, Invariance, PTL DEF Spec, WritesAreAllowed

------------------------------------------------------------------------------
\* Who waits for a lock with something in hand holds that of the cleanup: the
\* handler of an attachment on its way to its note, or a deletion on its way to
\* one more; and it holds nothing that it waits for.
LEMMA WaitsInHand ==
  ASSUME IInv, NEW p \in Requests, WaitsFor(p) # {},
         NEW r \in Locks, lock[r] = p
  PROVE  /\ lock[Cleanup] = p /\ request[p].pc \in {"lock", "gather"}
         /\ \A w \in WaitsFor(p) : w \in Notes /\ lock[w] # p
<1>1. /\ request[p] \in States
      /\ request[p].pc \in {"files", "lock", "check", "commit", "create"} =>
            request[p].note \in Notes
      /\ request[p].pc \notin Working => \A l \in Locks : lock[l] # p
  BY RequestTyped
<1>2. request[p].pc \in {"lock", "gather"}
  BY <1>1 DEF WaitsFor, Working
<1>3. CASE request[p].pc = "lock"
  <2>1. WaitsFor(p) = {request[p].note}
    BY <1>3 DEF WaitsFor
  <2>2. \A l \in Notes \cup Users : lock[l] # p
    BY <1>3 DEF IInv, LockOrder, At
  <2> QED BY <1>1, <1>3, <2>1, <2>2 DEF Locks
<1>4. CASE request[p].pc = "gather"
  <2>1. WaitsFor(p) \subseteq request[p].todo
    BY <1>4 DEF WaitsFor
  <2>2. /\ request[p].todo \subseteq Notes /\ lock[Cleanup] = p
        /\ \A n \in request[p].todo : lock[n] # p
    BY <1>1, <1>4 DEF IInv, LockOrder, At, States
  <2> QED BY <1>4, <2>1, <2>2
<1> QED BY <1>2, <1>3, <1>4

\* No requests wait for each other's locks in a circle: the order in which the
\* handlers take the cleanup's lock, the account's and the notes' excludes it,
\* for any number of requests and of notes that a deletion holds.
THEOREM NoCircularWait == Spec => []NoDeadlock
<1>1. IInv => NoDeadlock
  <2> SUFFICES ASSUME IInv, NEW S \in (SUBSET Requests) \ {{}}
               PROVE  \E p \in S : \A r \in WaitsFor(p) : lock[r] \notin S
    BY DEF NoDeadlock
  <2>1. CASE \E p \in S : WaitsFor(p) = {}
    BY <2>1
  <2>2. CASE (\A p \in S : WaitsFor(p) # {}) /\ lock[Cleanup] \in S
    <3> DEFINE c == lock[Cleanup]
    <3>1. c \in S /\ c \in Requests /\ WaitsFor(c) # {} /\ Cleanup \in Locks
      BY <2>2 DEF Locks
    <3>2. \A w \in WaitsFor(c) : w \in Notes /\ lock[w] # c
      BY <3>1, WaitsInHand
    <3>3. ASSUME NEW w \in WaitsFor(c), lock[w] \in S PROVE FALSE
      <4>1. lock[w] \in Requests /\ WaitsFor(lock[w]) # {} /\ w \in Locks
        BY <2>2, <3>2, <3>3 DEF Locks
      <4>2. lock[Cleanup] = lock[w]
        BY <4>1, WaitsInHand
      <4> QED BY <3>2, <4>2
    <3> QED BY <3>1, <3>3
  <2>3. CASE (\A p \in S : WaitsFor(p) # {}) /\ lock[Cleanup] \notin S
    <3>1. ASSUME NEW r \in Locks, lock[r] \in S PROVE FALSE
      <4>1. lock[r] \in Requests /\ WaitsFor(lock[r]) # {}
        BY <2>3, <3>1
      <4>2. lock[Cleanup] = lock[r]
        BY <4>1, WaitsInHand
      <4> QED BY <2>3, <3>1, <4>2
    <3>2. PICK p \in S : TRUE
      OBVIOUS
    <3>3. WaitsFor(p) \subseteq Locks
      <4>1. /\ request[p] \in States
            /\ request[p].pc # "idle" => request[p].user \in Users
            /\ request[p].pc \in {"files", "lock", "check", "commit", "create"} =>
                  request[p].note \in Notes
        BY RequestTyped
      <4>2. request[p].todo \subseteq Notes
        BY <4>1 DEF States
      <4>3. CASE request[p].pc \in {"files", "leave"}
        <5>1. WaitsFor(p) \subseteq {Cleanup, request[p].user}
          BY <4>3 DEF WaitsFor
        <5> QED BY <4>1, <4>3, <5>1 DEF Locks
      <4>4. CASE request[p].pc \in {"lock", "create"}
        <5>1. WaitsFor(p) \in {{request[p].note}, {request[p].user}}
          BY <4>4 DEF WaitsFor
        <5> QED BY <4>1, <4>4, <5>1 DEF Locks
      <4>5. CASE request[p].pc = "gather"
        <5>1. WaitsFor(p) \subseteq request[p].todo
          BY <4>5 DEF WaitsFor
        <5> QED BY <4>2, <5>1 DEF Locks
      <4>6. CASE request[p].pc \notin {"files", "leave", "lock", "create", "gather"}
        <5>1. WaitsFor(p) = {}
          BY <4>6 DEF WaitsFor
        <5> QED BY <5>1
      <4> QED BY <4>3, <4>4, <4>5, <4>6
    <3> QED BY <3>1, <3>2, <3>3
  <2> QED BY <2>1, <2>2, <2>3
<1> QED BY <1>1, Invariance, PTL
==============================================================================
