-------------------------- MODULE Notifications_proof --------------------------
(***************************************************************************)
(* Proofs about Notifications: for any number of runs, notes and failures,  *)
(* no mail is sent twice but for a failure, and what is recorded as         *)
(* delivered was sent.                                                      *)
(***************************************************************************)
EXTENDS Notifications, FiniteSetTheorems, TLAPS

States == [pc : {"idle", "list", "next", "send", "record"}, job : Jobs,
           time : 0..MaxClock, todo : SUBSET (Notes \cup {Owner}), key : Keys \cup {None}]

LEMMA RunTyped ==
  ASSUME TypeOK
  PROVE  /\ run \in [Runs -> States] /\ lock \in [Jobs -> Runs \cup {None}]
         /\ mails \in [Keys -> Nat] /\ faults \in Nat /\ delivered \subseteq Keys
         /\ \A r \in Runs : At(r, "send") \/ At(r, "record") => run[r].key \in Keys
         /\ \A r \in Runs : At(r, "idle") \/ At(r, "list") \/ At(r, "next") => run[r].key = None
BY FaultAssumption DEF TypeOK, States, At

LEMMA IdleTyped == Idle \in States
BY TimeAssumption DEF Idle, States, Jobs

\* A step replaces the local variables of one run.
LEMMA BecomeFields ==
  ASSUME TypeOK, NEW r \in Runs, NEW s \in States, Become(r, s)
  PROVE  /\ run' \in [Runs -> States] /\ run'[r] = s
         /\ \A q \in Runs \ {r} : run'[q] = run[q]
BY RunTyped DEF Become

\* A run gives up its own locks only.
LEMMA ReleaseFields ==
  ASSUME TypeOK, NEW r \in Runs, Release(r)
  PROVE  /\ lock' \in [Jobs -> Runs \cup {None}]
         /\ \A job \in Jobs : lock'[job] = IF lock[job] = r THEN None ELSE lock[job]
BY RunTyped DEF Release

LEMMA KeyFields == ASSUME NEW k \in Keys PROVE JobOf(k) \in Jobs /\ k # None
BY NameAssumption DEF JobOf, Jobs

\* The number of the week is within its bound as long as the clock is.
LEMMA WeekBound == ASSUME NEW t \in 0..MaxClock PROVE t \div Week \in 0..(MaxClock \div Week)
<1> DEFINE q == t \div Week
           z == MaxClock \div Week
<1>1. t \in Nat /\ MaxClock \in Nat /\ Week \in Nat \ {0} /\ t <= MaxClock
  BY TimeAssumption
<1>2. /\ q \in Nat /\ z \in Nat /\ t = Week * q + (t % Week)
      /\ MaxClock = Week * z + (MaxClock % Week)
      /\ t % Week \in 0..(Week - 1) /\ MaxClock % Week \in 0..(Week - 1)
  BY <1>1
<1> HIDE DEF q, z
<1>3. ASSUME q > z PROVE FALSE
  <2>1. q >= z + 1
    BY <1>2, <1>3
  <2>2. Week * q >= Week * (z + 1)
    BY <1>1, <1>2, <2>1
  <2>3. Week * (z + 1) = Week * z + Week
    BY <1>1, <1>2
  <2> DEFINE a == Week * q
             b == Week * z
  <2>4. a \in Nat /\ b \in Nat
    BY <1>1, <1>2
  <2>5. a >= b + Week /\ t = a + (t % Week) /\ MaxClock = b + (MaxClock % Week)
    BY <1>2, <2>2, <2>3
  <2> HIDE DEF a, b
  <2> QED BY <1>1, <1>2, <2>4, <2>5
<1> QED BY <1>2, <1>3 DEF q, z

------------------------------------------------------------------------------
\* Runs are finitely many, and so are those that may send a key without a lock.
LEMMA StraysFinite ==
  ASSUME NEW k
  PROVE  IsFiniteSet(Strays(k)) /\ Cardinality(Strays(k)) \in Nat
<1>1. Strays(k) \in SUBSET Runs
  BY DEF Strays
<1>2. IsFiniteSet(Strays(k))
  BY <1>1, RunAssumption, FS_Subset
<1> QED BY <1>2, FS_CardinalityType

\* A smaller set counts less,
LEMMA Fewer ==
  ASSUME NEW S, NEW T, IsFiniteSet(S), T \subseteq S
  PROVE  Cardinality(T) <= Cardinality(S) /\ Cardinality(T) \in Nat
<1>1. IsFiniteSet(T) /\ Cardinality(T) <= Cardinality(S)
  BY FS_Subset
<1> QED BY <1>1, FS_CardinalityType

\* one member less counts at least one less,
LEMMA OneFewer ==
  ASSUME NEW S, NEW T, NEW x \in S, IsFiniteSet(S), T \subseteq S \ {x}
  PROVE  Cardinality(T) + 1 <= Cardinality(S) /\ Cardinality(T) \in Nat
<1>1. IsFiniteSet(S \ {x}) /\ Cardinality(S \ {x}) = Cardinality(S) - 1 /\ Cardinality(S) \in Nat
  BY FS_RemoveElement, FS_CardinalityType
<1>2. Cardinality(T) <= Cardinality(S \ {x}) /\ Cardinality(T) \in Nat
  BY <1>1, Fewer
<1> QED BY <1>1, <1>2

\* and one more counts at most one more.
LEMMA OneMore ==
  ASSUME NEW S, NEW T, NEW x, IsFiniteSet(S), T \subseteq S \cup {x}
  PROVE  Cardinality(T) <= Cardinality(S) + 1 /\ Cardinality(T) \in Nat
<1>0. Cardinality(S) \in Nat
  BY FS_CardinalityType
<1>1. IsFiniteSet(S \cup {x}) /\ Cardinality(S \cup {x}) <= Cardinality(S) + 1
  <2>1. /\ IsFiniteSet(S \cup {x})
        /\ Cardinality(S \cup {x}) = IF x \in S THEN Cardinality(S) ELSE Cardinality(S) + 1
    BY FS_AddElement
  <2> QED BY <1>0, <2>1
<1>2. Cardinality(T) <= Cardinality(S \cup {x}) /\ Cardinality(T) \in Nat
  BY <1>1, Fewer
<1>3. Cardinality(S) \in Nat /\ Cardinality(S \cup {x}) \in Nat
  BY <1>1, FS_CardinalityType
<1> QED BY <1>1, <1>2, <1>3

\* A key's account stays balanced in a step without failure that sends nothing,
\* adds no stray run and settles no less.
LEMMA Calm ==
  ASSUME TypeOK, MailsArePaid, mails' = mails, faults' = faults,
         \A k \in Keys : Strays(k)' \subseteq Strays(k) /\ (Settled(k) => Settled(k)')
  PROVE  MailsArePaid'
<1> SUFFICES ASSUME NEW k \in Keys
             PROVE  (mails[k] + Cardinality(Strays(k)) + (IF Settled(k) THEN 0 ELSE 1) <= 1 + faults)'
  BY DEF MailsArePaid
<1>1. mails[k] + Cardinality(Strays(k)) + (IF Settled(k) THEN 0 ELSE 1) <= 1 + faults
  BY DEF MailsArePaid
<1>2. /\ Cardinality(Strays(k)') <= Cardinality(Strays(k))
      /\ Cardinality(Strays(k)') \in Nat /\ Cardinality(Strays(k)) \in Nat
  BY StraysFinite, Fewer
<1>3. mails[k] \in Nat /\ faults \in Nat
  BY RunTyped
<1> QED BY <1>1, <1>2, <1>3

\* So it does in a step that fails: the failure pays for a mail that was
\* accepted, for a key that is no longer settled, or for a run gone astray.
LEMMA Paid ==
  ASSUME TypeOK, MailsArePaid, faults' = faults + 1,
         \A k \in Keys :
            \/ mails'[k] = mails[k] /\ Strays(k)' \subseteq Strays(k)
            \/ /\ mails'[k] = mails[k] + 1 /\ Strays(k)' \subseteq Strays(k)
               /\ Settled(k) => Settled(k)'
            \/ /\ mails'[k] = mails[k] /\ \E r \in Runs : Strays(k)' \subseteq Strays(k) \cup {r}
               /\ Settled(k) => Settled(k)'
  PROVE  MailsArePaid'
<1> SUFFICES ASSUME NEW k \in Keys
             PROVE  (mails[k] + Cardinality(Strays(k)) + (IF Settled(k) THEN 0 ELSE 1) <= 1 + faults)'
  BY DEF MailsArePaid
<1>1. mails[k] + Cardinality(Strays(k)) + (IF Settled(k) THEN 0 ELSE 1) <= 1 + faults
  BY DEF MailsArePaid
<1>2. mails[k] \in Nat /\ faults \in Nat /\ Cardinality(Strays(k)) \in Nat
  BY RunTyped, StraysFinite
<1>3. CASE mails'[k] = mails[k] /\ Strays(k)' \subseteq Strays(k)
  <2>1. Cardinality(Strays(k)') <= Cardinality(Strays(k)) /\ Cardinality(Strays(k)') \in Nat
    BY <1>3, StraysFinite, Fewer
  <2> QED BY <1>1, <1>2, <1>3, <2>1
<1>4. CASE mails'[k] = mails[k] + 1 /\ Strays(k)' \subseteq Strays(k) /\ (Settled(k) => Settled(k)')
  <2>1. Cardinality(Strays(k)') <= Cardinality(Strays(k)) /\ Cardinality(Strays(k)') \in Nat
    BY <1>4, StraysFinite, Fewer
  <2> QED BY <1>1, <1>2, <1>4, <2>1
<1>5. CASE /\ mails'[k] = mails[k] /\ \E r \in Runs : Strays(k)' \subseteq Strays(k) \cup {r}
           /\ Settled(k) => Settled(k)'
  <2>1. Cardinality(Strays(k)') <= Cardinality(Strays(k)) + 1 /\ Cardinality(Strays(k)') \in Nat
    BY <1>5, StraysFinite, OneMore
  <2> QED BY <1>1, <1>2, <1>5, <2>1
<1> QED BY <1>3, <1>4, <1>5

------------------------------------------------------------------------------
Targets(job) == IF job = "digest" THEN {Owner} ELSE Notes

\* Everything but the mails' accounts, for a step of one run.
LEMMA RunKeeps ==
  ASSUME IInv, NEW r \in Runs, NEW s \in States, Become(r, s), UNCHANGED <<clock, account>>,
         delivered' \subseteq Keys, mails' \in [Keys -> Nat], faults' \in 0..MaxFaults,
         \A k \in Keys : mails'[k] >= mails[k],
         lock' \in [Jobs -> Runs \cup {None}],
         \A job \in Jobs : lock'[job] \in {lock[job], None, r},
         \A job \in Jobs : lock'[job] = r => s.pc # "idle" /\ s.job = job,
         s.pc \in {"send", "record"} <=> s.key # None,
         s.todo \subseteq Targets(s.job),
         s.key # None => JobOf(s.key) = s.job /\ s.key[1] \notin s.todo,
         s.pc = "record" => mails'[s.key] > 0,
         \A k \in delivered' : k \in delivered \/ mails'[k] > 0
  PROVE  /\ TypeOK' /\ RunsKeepToTheirJob' /\ LocksAreOfRuns'
         /\ RecordFollowsSend' /\ RecordedWasSent'
<1>1. /\ run' \in [Runs -> States] /\ run'[r] = s
      /\ \A q \in Runs \ {r} : run'[q] = run[q]
  BY BecomeFields DEF IInv
<1>2. TypeOK'
  <2>1. \A q \in Runs : (At(q, "send") \/ At(q, "record") <=> run[q].key # None)'
    BY <1>1 DEF IInv, TypeOK, At
  <2> QED BY <1>1, <2>1 DEF IInv, TypeOK, account, States
<1>3. RunsKeepToTheirJob'
  <2> SUFFICES ASSUME NEW q \in Runs
               PROVE  (/\ run[q].todo \subseteq Targets(run[q].job)
                       /\ run[q].key # None =>
                             JobOf(run[q].key) = run[q].job /\ run[q].key[1] \notin run[q].todo)'
    BY DEF RunsKeepToTheirJob, Targets
  <2>1. CASE q = r
    BY <1>1, <2>1 DEF Targets, JobOf
  <2>2. CASE q # r
    BY <1>1, <2>2 DEF IInv, RunsKeepToTheirJob, Targets, JobOf
  <2> QED BY <2>1, <2>2
<1>4. LocksAreOfRuns'
  <2> SUFFICES ASSUME NEW job \in Jobs, lock'[job] # None
               PROVE  run'[lock'[job]].pc # "idle" /\ run'[lock'[job]].job = job
    BY DEF LocksAreOfRuns, At
  <2>1. CASE lock'[job] = r
    BY <1>1, <2>1
  <2>2. CASE lock'[job] # r
    <3>1. lock'[job] = lock[job] /\ lock[job] \in Runs \ {r}
      BY <2>2, RunTyped DEF IInv
    <3> QED BY <1>1, <3>1 DEF IInv, LocksAreOfRuns, At
  <2> QED BY <2>1, <2>2
<1>5. RecordFollowsSend'
  <2> SUFFICES ASSUME NEW q \in Runs, run'[q].pc = "record" PROVE mails'[run'[q].key] > 0
    BY DEF RecordFollowsSend, At
  <2>1. CASE q = r
    BY <1>1, <2>1
  <2>2. CASE q # r
    <3>1. run[q].pc = "record" /\ run[q].key \in Keys /\ mails[run[q].key] > 0
      BY <1>1, <2>2, RunTyped DEF IInv, RecordFollowsSend, At
    <3>2. mails[run[q].key] \in Nat /\ mails'[run[q].key] \in Nat
      BY <3>1, RunTyped DEF IInv
    <3> QED BY <1>1, <2>2, <3>1, <3>2
  <2> QED BY <2>1, <2>2
<1>6. RecordedWasSent'
  <2> SUFFICES ASSUME NEW k \in delivered', k \in delivered PROVE mails'[k] > 0
    BY DEF RecordedWasSent
  <2>1. mails[k] > 0 /\ mails[k] \in Nat /\ mails'[k] \in Nat /\ mails'[k] >= mails[k]
    BY RunTyped DEF IInv, RecordedWasSent
  <2> QED BY <2>1
<1> QED BY <1>2, <1>3, <1>4, <1>5, <1>6

\* A step of r leaves the other runs as stray as they were, and a key settled
\* unless r has or takes the lock of its job and does not settle it itself.
LEMMA RunAccounts ==
  ASSUME IInv, NEW r \in Runs, NEW s \in States, Become(r, s), delivered \subseteq delivered',
         lock' \in [Jobs -> Runs \cup {None}],
         \A job \in Jobs : lock'[job] = lock[job] \/ {lock[job], lock'[job]} = {None, r},
         NEW k \in Keys
  PROVE  /\ Strays(k)' \subseteq Strays(k) \cup {r}
         /\ MaySend(r, k)' <=> s.job = JobOf(k)
               /\ (s.pc = "list" \/ k[1] \in s.todo \/ (s.pc = "send" /\ s.key = k))
         /\ Strays(k)' \subseteq Strays(k) \/ (MaySend(r, k)' /\ lock'[JobOf(k)] # r)
         /\ lock[JobOf(k)] \notin {None, r} => (Settled(k) => Settled(k)')
         /\ lock[JobOf(k)] = None /\ lock'[JobOf(k)] = None => (Settled(k) => Settled(k)')
         /\ lock[JobOf(k)] = None => (Settled(k) => k \in delivered)
         /\ k \in delivered' /\ lock'[JobOf(k)] \in {None, r} /\ ~(s.pc = "send" /\ s.key = k)
               => Settled(k)'
         /\ lock'[JobOf(k)] = r /\ s.pc = "record" /\ s.key = k => Settled(k)'
         /\ lock[JobOf(k)] = r => (Settled(k) <=>
               \/ At(r, "record") /\ run[r].key = k
               \/ k \in delivered /\ ~(At(r, "send") /\ run[r].key = k))
<1>1. /\ run' \in [Runs -> States] /\ run'[r] = s
      /\ \A q \in Runs \ {r} : run'[q] = run[q]
  BY BecomeFields DEF IInv
<1>2. JobOf(k) \in Jobs /\ JobOf(k)' = JobOf(k)
  BY KeyFields DEF JobOf
<1>3. MaySend(r, k)' <=> s.job = JobOf(k)
               /\ (s.pc = "list" \/ k[1] \in s.todo \/ (s.pc = "send" /\ s.key = k))
  BY <1>1, <1>2 DEF MaySend, At
<1>4. /\ Strays(k)' \subseteq Strays(k) \cup {r}
      /\ Strays(k)' \subseteq Strays(k) \/ (MaySend(r, k)' /\ lock'[JobOf(k)] # r)
  <2>1. ASSUME NEW q \in Runs \ {r}, MaySend(q, k)', lock'[JobOf(k)] # q
        PROVE  MaySend(q, k) /\ lock[JobOf(k)] # q
    BY <1>1, <1>2, <2>1, NameAssumption DEF MaySend, At
  <2> QED BY <1>2, <2>1 DEF Strays
<1>5. lock[JobOf(k)] = r => (Settled(k) <=>
               \/ At(r, "record") /\ run[r].key = k
               \/ k \in delivered /\ ~(At(r, "send") /\ run[r].key = k))
  BY DEF Settled
<1>6. lock[JobOf(k)] = None => (Settled(k) => k \in delivered)
  BY NameAssumption DEF Settled
<1>7. /\ k \in delivered' /\ lock'[JobOf(k)] \in {None, r} /\ ~(s.pc = "send" /\ s.key = k)
               => Settled(k)'
      /\ lock'[JobOf(k)] = r /\ s.pc = "record" /\ s.key = k => Settled(k)'
  BY <1>1, <1>2, NameAssumption DEF Settled, At
<1>8. lock[JobOf(k)] \notin {None, r} => (Settled(k) => Settled(k)')
  <2>1. lock[JobOf(k)] \notin {None, r} => lock'[JobOf(k)] = lock[JobOf(k)]
    BY <1>2
  <2> QED BY <1>1, <1>2, <2>1 DEF Settled, At
<1>9. lock[JobOf(k)] = None /\ lock'[JobOf(k)] = None => (Settled(k) => Settled(k)')
  BY <1>2, <1>6, NameAssumption DEF Settled
<1> QED BY <1>3, <1>4, <1>5, <1>6, <1>7, <1>8, <1>9

LEMMA InitIInv == Init => IInv
<1> SUFFICES ASSUME Init PROVE IInv
  OBVIOUS
<1>1. /\ \A r \in Runs : run[r] = Idle
      /\ mails = [k \in Keys |-> 0] /\ faults = 0 /\ delivered = {}
      /\ lock = [job \in Jobs |-> None]
  BY DEF Init
<1>2. TypeOK
  <2>1. /\ clock \in 0..MaxClock /\ faults \in 0..MaxFaults
        /\ \A r \in Runs : At(r, "send") \/ At(r, "record") <=> run[r].key # None
    BY <1>1, TimeAssumption, FaultAssumption DEF Init, At, Idle
  <2>2. run \in [Runs -> States]
    BY IdleTyped DEF Init
  <2>3. wants \in [reminders : BOOLEAN, digest : BOOLEAN, lead : Leads] /\ open \in BOOLEAN
    BY DEF Init
  <2>4. note \in [Notes -> [at : Instants \cup {None}, deleted : BOOLEAN]]
    BY DEF Init
  <2>5. /\ delivered \subseteq Keys /\ lock \in [Jobs -> Runs \cup {None}]
        /\ mails \in [Keys -> Nat]
    BY <1>1
  <2> QED BY <2>1, <2>2, <2>3, <2>4, <2>5 DEF TypeOK, States
<1>3. RunsKeepToTheirJob /\ LocksAreOfRuns /\ RecordFollowsSend /\ RecordedWasSent
  BY <1>1 DEF RunsKeepToTheirJob, LocksAreOfRuns, RecordFollowsSend, RecordedWasSent, At, Idle
<1>4. MailsArePaid
  <2> SUFFICES ASSUME NEW k \in Keys
               PROVE  mails[k] + Cardinality(Strays(k)) + (IF Settled(k) THEN 0 ELSE 1) <= 1 + faults
    BY DEF MailsArePaid
  <2>1. Strays(k) = {}
    BY <1>1 DEF Strays, MaySend, At, Idle
  <2>2. Cardinality(Strays(k)) = 0
    BY <2>1, FS_EmptySet
  <2> QED BY <1>1, <2>2
<1> QED BY <1>2, <1>3, <1>4 DEF IInv

LEMMA BeginKeeps == ASSUME IInv, NEW r \in Runs, NEW job \in Jobs, Begin(r, job) PROVE IInv'
<1> DEFINE s == [Idle EXCEPT !.pc = "list", !.job = job, !.time = clock]
<1>1. /\ lock[job] = None /\ lock' = [lock EXCEPT ![job] = r] /\ Become(r, s)
      /\ delivered' = delivered /\ mails' = mails /\ faults' = faults
      /\ UNCHANGED <<clock, account>>
  BY DEF Begin
<1>2. s \in States /\ s.pc = "list" /\ s.job = job /\ s.todo = {} /\ s.key = None
  BY IdleTyped DEF States, Idle, IInv, TypeOK
<1>3. /\ lock' \in [Jobs -> Runs \cup {None}] /\ lock'[job] = r
      /\ \A j \in Jobs : lock'[j] = lock[j] \/ {lock[j], lock'[j]} = {None, r}
      /\ \A j \in Jobs : lock'[j] = r => j = job
  <2>1. lock \in [Jobs -> Runs \cup {None}] /\ \A j \in Jobs : lock[j] # r
    BY RunTyped, NameAssumption DEF IInv, Begin, LocksAreOfRuns, At
  <2> QED BY <1>1, <2>1
<1> HIDE DEF s
<1>4. TypeOK' /\ RunsKeepToTheirJob' /\ LocksAreOfRuns' /\ RecordFollowsSend' /\ RecordedWasSent'
  <2>1. delivered \subseteq Keys /\ mails \in [Keys -> Nat] /\ faults \in 0..MaxFaults
    BY DEF IInv, TypeOK
  <2> QED BY <1>1, <1>2, <1>3, <2>1, RunKeeps
<1>5. MailsArePaid'
  <2>1. ASSUME NEW k \in Keys PROVE Strays(k)' \subseteq Strays(k) /\ (Settled(k) => Settled(k)')
    <3>1. JobOf(k) \in Jobs
      BY KeyFields
    <3> QED BY <1>1, <1>2, <1>3, <3>1, RunAccounts
  <2> QED BY <1>1, <2>1, Calm DEF IInv
<1> QED BY <1>4, <1>5 DEF IInv

\* A step of a run at work that is no failure, sends nothing and takes no lock.
LEMMA CalmStep ==
  ASSUME IInv, NEW r \in Runs, NEW s \in States, Become(r, s),
         UNCHANGED <<clock, account, mails, faults>>,
         delivered \subseteq delivered', \A k \in delivered' : k \in delivered \/ mails[k] > 0,
         delivered' \subseteq Keys,
         lock' \in [Jobs -> Runs \cup {None}],
         \A job \in Jobs : lock'[job] = lock[job] \/ (lock[job] = r /\ lock'[job] = None),
         s.pc # "record", s.pc = "send" <=> s.key # None,
         \A job \in Jobs : lock'[job] = r => s.pc # "idle",
         lock' = lock \/ (s.pc = "idle" /\ s.todo = {}),
         s.pc # "idle" => s.job = run[r].job,
         s.todo \subseteq Targets(s.job),
         s.key # None => JobOf(s.key) = s.job /\ s.key[1] \notin s.todo /\ s.key \notin delivered',
         \A k \in Keys : JobOf(k) = s.job =>
              ((s.pc = "list" \/ k[1] \in s.todo \/ (s.pc = "send" /\ s.key = k)) => MaySend(r, k)),
         At(r, "record") => run[r].key \in delivered',
         ~At(r, "send")
  PROVE  IInv'
<1>1. \A job \in Jobs : lock[job] = r => run[r].job = job
  BY NameAssumption DEF IInv, LocksAreOfRuns
<1>2. TypeOK' /\ RunsKeepToTheirJob' /\ LocksAreOfRuns' /\ RecordFollowsSend' /\ RecordedWasSent'
  <2>1. mails \in [Keys -> Nat] /\ faults \in 0..MaxFaults /\ \A k \in Keys : mails[k] >= mails[k]
    BY DEF IInv, TypeOK
  <2>2. \A job \in Jobs : /\ lock'[job] \in {lock[job], None, r}
                          /\ lock'[job] = r => s.pc # "idle" /\ s.job = job
    BY <1>1, NameAssumption
  <2> QED BY <2>1, <2>2, RunKeeps
<1>3. MailsArePaid'
  <2>1. ASSUME NEW k \in Keys PROVE Strays(k)' \subseteq Strays(k) /\ (Settled(k) => Settled(k)')
    <3>1. JobOf(k) \in Jobs
      BY KeyFields
    <3>2. \A job \in Jobs : lock'[job] = lock[job] \/ {lock[job], lock'[job]} = {None, r}
      OBVIOUS
    <3>3. Strays(k)' \subseteq Strays(k)
      <4>1. Strays(k)' \subseteq Strays(k) \/ (MaySend(r, k)' /\ lock'[JobOf(k)] # r)
        BY <3>2, RunAccounts
      <4>2. ASSUME MaySend(r, k)', lock'[JobOf(k)] # r, NEW q \in Strays(k)' PROVE q \in Strays(k)
        <5>1. /\ s.job = JobOf(k)
              /\ s.pc = "list" \/ k[1] \in s.todo \/ (s.pc = "send" /\ s.key = k)
              /\ Strays(k)' \subseteq Strays(k) \cup {r}
          BY <3>2, <4>2, RunAccounts
        <5>2. lock[JobOf(k)] # r /\ MaySend(r, k)
          BY <4>2, <5>1
        <5> QED BY <5>1, <5>2 DEF Strays
      <4> QED BY <4>1, <4>2
    <3>4. Settled(k) => Settled(k)'
      <4>1. CASE lock[JobOf(k)] = r
        <5>1. Settled(k) => k \in delivered'
          BY <3>2, <4>1, RunAccounts
        <5> QED BY <3>1, <3>2, <4>1, <5>1, KeyFields, RunAccounts
      <4>2. CASE lock[JobOf(k)] # r
        <5>1. lock'[JobOf(k)] = lock[JobOf(k)]
          BY <3>1, <4>2
        <5> QED BY <3>2, <4>2, <5>1, RunAccounts
      <4> QED BY <4>1, <4>2
    <3> QED BY <3>3, <3>4
  <2> QED BY <2>1, Calm DEF IInv
<1> QED BY <1>2, <1>3 DEF IInv

LEMMA RunFields ==
  ASSUME IInv, NEW r \in Runs
  PROVE  /\ run[r] \in States /\ lock \in [Jobs -> Runs \cup {None}]
         /\ run[r].todo \subseteq Targets(run[r].job)
         /\ run[r].pc = "idle" => \A job \in Jobs : lock[job] # r
         /\ run[r].pc \in {"send", "record"} =>
               /\ run[r].key \in Keys /\ JobOf(run[r].key) = run[r].job
               /\ run[r].key[1] \notin run[r].todo
         /\ run[r].pc = "record" => mails[run[r].key] > 0
<1>1. /\ run[r] \in States /\ lock \in [Jobs -> Runs \cup {None}]
      /\ run[r].pc \in {"send", "record"} => run[r].key \in Keys
  BY RunTyped DEF IInv, At
<1> QED BY <1>1, KeyFields, NameAssumption
        DEF IInv, RunsKeepToTheirJob, LocksAreOfRuns, RecordFollowsSend, At, Targets

LEMMA ListKeeps == ASSUME IInv, NEW r \in Runs, List(r) PROVE IInv'
<1> DEFINE todo == Candidates(run[r].job, run[r].time)
           s == [run[r] EXCEPT !.pc = "next", !.todo = todo]
<1>1. /\ run[r].pc = "list" /\ run[r] \in States /\ lock \in [Jobs -> Runs \cup {None}]
      /\ run[r].key = None
  BY RunFields, RunTyped DEF List, At, IInv
<1>2. /\ Become(r, s) /\ delivered' = delivered /\ lock' = lock
      /\ UNCHANGED <<clock, account, mails, faults>> /\ delivered \subseteq Keys
  BY DEF List, IInv, TypeOK
<1>3. todo \subseteq Targets(run[r].job) /\ Targets(run[r].job) \subseteq Notes \cup {Owner}
  BY DEF Candidates, Targets
<1> HIDE DEF todo
<1>4. /\ s \in States /\ s.pc = "next" /\ s.job = run[r].job /\ s.todo = todo /\ s.key = None
  BY <1>1, <1>3 DEF States
<1> HIDE DEF s
<1>5. \A k \in Keys : JobOf(k) = s.job => MaySend(r, k)
  BY <1>1, <1>4 DEF MaySend, At
<1> QED BY <1>1, <1>2, <1>3, <1>4, <1>5, CalmStep DEF At

\* The key of a candidate that is due.
LEMMA DueKey ==
  ASSUME IInv, NEW r \in Runs, NEW c \in run[r].todo, Due(run[r].job, c, run[r].time)
  PROVE  LET key == KeyOf(run[r].job, c, run[r].time)
         IN  key \in Keys /\ key # None /\ key[1] = c /\ JobOf(key) = run[r].job
<1> DEFINE job == run[r].job
           key == KeyOf(job, c, run[r].time)
<1>1. job \in Jobs /\ run[r].time \in 0..MaxClock /\ c \in Targets(job)
  BY RunFields DEF States
<1>2. CASE job = "digest"
  <2>1. c = Owner /\ key = <<Owner, run[r].time \div Week>>
    BY <1>1, <1>2 DEF Targets, KeyOf
  <2>2. run[r].time \div Week \in 0..(MaxClock \div Week)
    BY <1>1, WeekBound
  <2> QED BY <1>2, <2>1, <2>2, NameAssumption DEF Keys, JobOf
<1>3. CASE job # "digest"
  <2>1. /\ job = "reminders" /\ c \in Notes /\ c # Owner /\ note[c].at \in Instants
        /\ key = <<c, note[c].at>>
    BY <1>1, <1>3, NameAssumption DEF Targets, KeyOf, Due, Scheduled, IInv, TypeOK, Jobs
  <2> QED BY <1>3, <2>1, NameAssumption DEF Keys, JobOf
<1> QED BY <1>2, <1>3

LEMMA LookKeeps ==
  ASSUME IInv, NEW r \in Runs, NEW c \in Notes \cup {Owner}, Look(r, c) PROVE IInv'
<1> DEFINE key == KeyOf(run[r].job, c, run[r].time)
           send == Due(run[r].job, c, run[r].time) /\ key \notin delivered
           s == [run[r] EXCEPT !.todo = run[r].todo \ {c}, !.pc = IF send THEN "send" ELSE "next",
                               !.key = IF send THEN key ELSE None]
<1>1. /\ run[r].pc = "next" /\ run[r] \in States /\ lock \in [Jobs -> Runs \cup {None}]
      /\ c \in run[r].todo /\ run[r].todo \subseteq Targets(run[r].job)
  BY RunFields DEF Look, At
<1>2. /\ Become(r, s) /\ delivered' = delivered /\ lock' = lock
      /\ UNCHANGED <<clock, account, mails, faults>> /\ delivered \subseteq Keys
  BY DEF Look, IInv, TypeOK
<1>3. send => /\ key \in Keys /\ key # None /\ key[1] = c /\ JobOf(key) = run[r].job
              /\ key \notin delivered
  BY <1>1, DueKey
<1> HIDE DEF send, key
<1>4. /\ s \in States /\ s.pc = (IF send THEN "send" ELSE "next") /\ s.job = run[r].job
      /\ s.todo = run[r].todo \ {c} /\ s.key = (IF send THEN key ELSE None)
  BY <1>1, <1>3 DEF States
<1> HIDE DEF s
<1>5. ASSUME NEW k \in Keys, JobOf(k) = s.job,
             s.pc = "list" \/ k[1] \in s.todo \/ (s.pc = "send" /\ s.key = k)
      PROVE  MaySend(r, k)
  BY <1>1, <1>3, <1>4, <1>5 DEF MaySend
<1>6. /\ s.pc # "record" /\ s.pc # "idle"
      /\ s.pc = "send" <=> s.key # None
      /\ s.todo \subseteq Targets(s.job)
      /\ s.key # None => JobOf(s.key) = s.job /\ s.key[1] \notin s.todo /\ s.key \notin delivered
  BY <1>1, <1>3, <1>4
<1> QED BY <1>1, <1>2, <1>4, <1>5, <1>6, CalmStep DEF At

LEMMA EndKeeps == ASSUME IInv, NEW r \in Runs, End(r) PROVE IInv'
<1>1. /\ run[r].pc = "next" /\ Become(r, Idle) /\ Release(r) /\ delivered' = delivered
      /\ UNCHANGED <<clock, account, mails, faults>> /\ delivered \subseteq Keys
  BY DEF End, At, IInv, TypeOK
<1>2. /\ lock' \in [Jobs -> Runs \cup {None}]
      /\ \A job \in Jobs : lock'[job] = IF lock[job] = r THEN None ELSE lock[job]
  BY <1>1, ReleaseFields DEF IInv
<1>3. /\ Idle \in States /\ Idle.pc = "idle" /\ Idle.todo = {} /\ Idle.key = None
  BY IdleTyped DEF Idle
<1>4. \A job \in Jobs : lock'[job] # r
  BY <1>2, NameAssumption
<1> QED BY <1>1, <1>2, <1>3, <1>4, CalmStep DEF At

\* What Continue makes of a run.
LEMMA ContinueFields ==
  ASSUME IInv, NEW r \in Runs
  PROVE  LET s == [run[r] EXCEPT !.pc = "next", !.key = None]
         IN  /\ s \in States /\ s.pc = "next" /\ s.job = run[r].job
             /\ s.todo = run[r].todo /\ s.key = None
<1>1. run[r] \in States
  BY RunFields
<1> QED BY <1>1 DEF States

\* A step that fails: r goes on to its next candidate, or ends and gives up its
\* lock; the mail in hand may have been accepted, the key may have committed.
LEMMA FaultStep ==
  ASSUME IInv, NEW r \in Runs, NEW s \in States, Become(r, s), Fault,
         UNCHANGED <<clock, account>>,
         delivered \subseteq delivered', delivered' \subseteq Keys,
         \A k \in delivered' : k \in delivered \/ mails[k] > 0,
         \/ mails' = mails
         \/ At(r, "send") /\ mails' = [mails EXCEPT ![run[r].key] = @ + 1] /\ lock' = lock,
         s.key = None, s.todo \subseteq run[r].todo,
         \/ lock' = lock /\ s.pc = "next" /\ s.job = run[r].job
         \/ Release(r) /\ s.pc = "idle" /\ s.todo = {}
  PROVE  IInv'
<1> DEFINE key == run[r].key
<1>1. /\ run[r] \in States /\ lock \in [Jobs -> Runs \cup {None}]
      /\ run[r].todo \subseteq Targets(run[r].job)
      /\ run[r].pc = "send" => key \in Keys
  BY RunFields
<1>2. /\ faults' = faults + 1 /\ faults' \in 0..MaxFaults
  BY FaultAssumption DEF Fault, IInv, TypeOK
<1>3. /\ mails' \in [Keys -> Nat] /\ mails \in [Keys -> Nat]
      /\ \A k \in Keys : \/ mails'[k] = mails[k]
                         \/ At(r, "send") /\ k = key /\ mails'[k] = mails[k] + 1 /\ lock' = lock
      /\ \A k \in Keys : mails'[k] >= mails[k]
  BY <1>1 DEF IInv, TypeOK, At
<1>4. /\ lock' \in [Jobs -> Runs \cup {None}]
      /\ \A job \in Jobs : lock'[job] = lock[job] \/ {lock[job], lock'[job]} = {None, r}
      /\ \A job \in Jobs : lock'[job] \in {lock[job], None, r}
      /\ \A job \in Jobs : lock'[job] = r => s.pc # "idle" /\ s.job = job
  <2>1. CASE lock' = lock /\ s.pc = "next" /\ s.job = run[r].job
    BY <1>1, <2>1, NameAssumption DEF IInv, LocksAreOfRuns
  <2>2. CASE Release(r) /\ s.pc = "idle"
    <3>1. /\ lock' \in [Jobs -> Runs \cup {None}]
          /\ \A job \in Jobs : lock'[job] = IF lock[job] = r THEN None ELSE lock[job]
      BY <2>2, ReleaseFields DEF IInv
    <3> QED BY <3>1, NameAssumption
  <2> QED BY <2>1, <2>2
<1>5. TypeOK' /\ RunsKeepToTheirJob' /\ LocksAreOfRuns' /\ RecordFollowsSend' /\ RecordedWasSent'
  <2>1. \A k \in delivered' : k \in delivered \/ mails'[k] > 0
    <3>1. ASSUME NEW k \in delivered', mails[k] > 0 PROVE mails'[k] > 0
      <4>1. mails[k] \in Nat /\ mails'[k] \in Nat /\ mails'[k] >= mails[k]
        BY <1>3
      <4> QED BY <3>1, <4>1
    <3> QED BY <3>1
  <2>2. s.todo \subseteq Targets(s.job)
    BY <1>1
  <2> QED BY <1>2, <1>3, <1>4, <2>1, <2>2, RunKeeps
<1>6. ASSUME NEW k \in Keys
      PROVE  /\ Strays(k)' \subseteq Strays(k)
             /\ At(r, "send") /\ k = key /\ lock' = lock => (Settled(k) => Settled(k)')
  <2>1. JobOf(k) \in Jobs
    BY KeyFields
  <2>2. Strays(k)' \subseteq Strays(k)
    <3>1. Strays(k)' \subseteq Strays(k) \/ (MaySend(r, k)' /\ lock'[JobOf(k)] # r)
      BY <1>4, RunAccounts
    <3>2. ASSUME MaySend(r, k)', lock'[JobOf(k)] # r, NEW q \in Strays(k)' PROVE q \in Strays(k)
      <4>1. /\ s.job = JobOf(k) /\ k[1] \in s.todo /\ Strays(k)' \subseteq Strays(k) \cup {r}
        BY <1>4, <3>2, RunAccounts
      <4>2. MaySend(r, k) /\ lock[JobOf(k)] # r
        BY <3>2, <4>1 DEF MaySend
      <4> QED BY <4>1, <4>2 DEF Strays
    <3> QED BY <3>1, <3>2
  <2>3. At(r, "send") /\ k = key /\ lock' = lock => (Settled(k) => Settled(k)')
    <3>1. CASE lock[JobOf(k)] = r
      BY <1>4, <3>1, RunAccounts DEF At
    <3>2. CASE lock[JobOf(k)] # r
      BY <1>4, <3>2, RunAccounts
    <3> QED BY <3>1, <3>2
  <2> QED BY <2>2, <2>3
<1>7. MailsArePaid'
  BY <1>2, <1>3, <1>6, Paid DEF IInv
<1> QED BY <1>5, <1>7 DEF IInv

\* The mail goes out.  What makes it affordable: r has the lock, and then the key
\* was not settled, or has lost it, and then r strays no more as to this key.
LEMMA SendKeeps == ASSUME IInv, NEW r \in Runs, Send(r) PROVE IInv'
<1> DEFINE key == run[r].key
           s == [run[r] EXCEPT !.pc = "record"]
<1>1. /\ run[r].pc = "send" /\ run[r] \in States /\ lock \in [Jobs -> Runs \cup {None}]
      /\ run[r].todo \subseteq Targets(run[r].job)
      /\ key \in Keys /\ JobOf(key) = run[r].job /\ key[1] \notin run[r].todo
  BY RunFields DEF Send, At
<1>2. /\ UNCHANGED <<clock, account>> /\ delivered' = delivered /\ lock' = lock
      /\ delivered \subseteq Keys /\ mails \in [Keys -> Nat]
      /\ \A k \in Keys : lock[JobOf(k)] = r => JobOf(k) = run[r].job
  BY KeyFields, NameAssumption DEF Send, IInv, TypeOK, LocksAreOfRuns
<1>3. CASE Fault /\ Continue(r) /\ (mails' = [mails EXCEPT ![key] = @ + 1] \/ mails' = mails)
  <2> DEFINE t == [run[r] EXCEPT !.pc = "next", !.key = None]
  <2>1. Become(r, t)
    BY <1>3 DEF Continue
  <2>2. t \in States /\ t.pc = "next" /\ t.job = run[r].job /\ t.todo = run[r].todo /\ t.key = None
    BY ContinueFields
  <2>3. At(r, "send")
    BY <1>1 DEF At
  <2> HIDE DEF t
  <2> QED BY <1>2, <1>3, <2>1, <2>2, <2>3, FaultStep
<1>4. CASE mails' = [mails EXCEPT ![key] = @ + 1] /\ Become(r, s) /\ faults' = faults
  <2>1. /\ s \in States /\ s.pc = "record" /\ s.job = run[r].job /\ s.todo = run[r].todo
        /\ s.key = key
    BY <1>1 DEF States
  <2>2. /\ mails' \in [Keys -> Nat] /\ mails'[key] = mails[key] + 1 /\ mails[key] \in Nat
        /\ \A k \in Keys \ {key} : mails'[k] = mails[k]
        /\ \A k \in Keys : mails'[k] >= mails[k]
    BY <1>1, <1>2, <1>4
  <2>3. /\ \A job \in Jobs : lock'[job] = lock[job] \/ {lock[job], lock'[job]} = {None, r}
        /\ \A job \in Jobs : lock'[job] \in {lock[job], None, r}
        /\ \A job \in Jobs : lock'[job] = r => s.pc # "idle" /\ s.job = job
    BY <1>2, <2>1, NameAssumption DEF IInv, LocksAreOfRuns
  <2>4. s \in States /\ Become(r, s) /\ delivered \subseteq delivered'
        /\ lock' \in [Jobs -> Runs \cup {None}]
    BY <1>1, <1>2, <1>4, <2>1
  <2> HIDE DEF s
  <2>5. TypeOK' /\ RunsKeepToTheirJob' /\ LocksAreOfRuns' /\ RecordFollowsSend' /\ RecordedWasSent'
    <3>1. \A k \in delivered' : k \in delivered
      BY <1>2
    <3>2. faults' \in 0..MaxFaults /\ mails'[s.key] > 0 /\ s.key # None
      BY <1>1, <1>4, <2>1, <2>2, KeyFields DEF IInv, TypeOK
    <3> QED BY <1>1, <1>2, <1>4, <2>1, <2>2, <2>3, <3>1, <3>2, RunKeeps
  <2>6. ASSUME NEW k \in Keys
        PROVE  /\ Strays(k)' \subseteq Strays(k) /\ (Settled(k) => Settled(k)')
               /\ k = key /\ lock[JobOf(k)] = r => ~Settled(k) /\ Settled(k)'
               /\ k = key /\ lock[JobOf(k)] # r => r \in Strays(k) /\ r \notin Strays(k)'
    <3>1. JobOf(k) \in Jobs
      BY KeyFields
    <3>2. MaySend(r, k)' => MaySend(r, k) /\ k # key
      <4>1. MaySend(r, k)' => s.job = JobOf(k) /\ k[1] \in s.todo
        BY <2>1, <2>3, <2>4, RunAccounts
      <4> QED BY <1>1, <2>1, <4>1 DEF MaySend
    <3>3. Strays(k)' \subseteq Strays(k)
      <4>1. /\ Strays(k)' \subseteq Strays(k) \cup {r}
            /\ Strays(k)' \subseteq Strays(k) \/ (MaySend(r, k)' /\ lock'[JobOf(k)] # r)
        BY <2>1, <2>3, <2>4, RunAccounts
      <4> QED BY <1>2, <3>2, <4>1 DEF Strays
    <3>4. /\ lock[JobOf(k)] # r => (Settled(k) => Settled(k)')
          /\ lock[JobOf(k)] = r => (Settled(k) <=> k \in delivered /\ k # key)
          /\ lock[JobOf(k)] = r /\ k = key => Settled(k)'
          /\ lock[JobOf(k)] = r /\ k \in delivered => Settled(k)'
      BY <1>1, <1>2, <2>1, <2>3, <2>4, RunAccounts DEF At
    <3>5. k = key /\ lock[JobOf(k)] # r => r \in Strays(k) /\ r \notin Strays(k)'
      BY <1>1, <3>2 DEF Strays, MaySend, At
    <3> QED BY <3>3, <3>4, <3>5
  <2>7. MailsArePaid'
    <3> SUFFICES ASSUME NEW k \in Keys
                 PROVE  (mails[k] + Cardinality(Strays(k)) + (IF Settled(k) THEN 0 ELSE 1)
                            <= 1 + faults)'
      BY DEF MailsArePaid
    <3>1. /\ mails[k] + Cardinality(Strays(k)) + (IF Settled(k) THEN 0 ELSE 1) <= 1 + faults
          /\ mails[k] \in Nat /\ faults \in Nat /\ Cardinality(Strays(k)) \in Nat
      BY RunTyped, StraysFinite DEF IInv, MailsArePaid
    <3>2. Cardinality(Strays(k)') <= Cardinality(Strays(k)) /\ Cardinality(Strays(k)') \in Nat
      BY <2>6, StraysFinite, Fewer
    <3>3. CASE k # key
      BY <1>4, <2>2, <2>6, <3>1, <3>2, <3>3
    <3>4. CASE k = key /\ lock[JobOf(k)] = r
      BY <1>4, <2>2, <2>6, <3>1, <3>2, <3>4
    <3>5. CASE k = key /\ lock[JobOf(k)] # r
      <4>1. /\ r \in Strays(k) /\ Strays(k)' \subseteq Strays(k) \ {r}
            /\ Settled(k) => Settled(k)'
        BY <2>6, <3>5
      <4>2. Cardinality(Strays(k)') + 1 <= Cardinality(Strays(k))
        BY <4>1, StraysFinite, OneFewer
      <4> QED BY <1>4, <2>2, <3>1, <3>2, <3>5, <4>1, <4>2
    <3> QED BY <3>3, <3>4, <3>5
  <2> QED BY <2>5, <2>7 DEF IInv
<1> QED BY <1>3, <1>4 DEF Send

LEMMA RecordKeeps == ASSUME IInv, NEW r \in Runs, Record(r) PROVE IInv'
<1> DEFINE key == run[r].key
           s == [run[r] EXCEPT !.pc = "next", !.key = None]
<1>1. /\ run[r].pc = "record" /\ key \in Keys /\ mails[key] > 0 /\ delivered \subseteq Keys
      /\ run[r].todo \subseteq Targets(run[r].job) /\ lock \in [Jobs -> Runs \cup {None}]
  BY RunFields DEF Record, At, IInv, TypeOK
<1>2. /\ Become(r, s) /\ UNCHANGED <<clock, account>> /\ lock' = lock /\ mails' = mails
  BY DEF Record, Continue
<1>3. s \in States /\ s.pc = "next" /\ s.job = run[r].job /\ s.todo = run[r].todo /\ s.key = None
  BY ContinueFields
<1>4. /\ delivered \subseteq delivered' /\ delivered' \subseteq Keys
      /\ \A k \in delivered' : k \in delivered \/ mails[k] > 0
  BY <1>1 DEF Record
<1> HIDE DEF s
<1>5. CASE Fault
  BY <1>2, <1>3, <1>4, <1>5, FaultStep
<1>6. CASE delivered' = delivered \cup {key} /\ faults' = faults
  <2>1. ASSUME NEW k \in Keys, JobOf(k) = s.job, k[1] \in s.todo PROVE MaySend(r, k)
    BY <1>3, <2>1 DEF MaySend
  <2>2. ~At(r, "send")
    BY <1>1 DEF At
  <2>3. key \in delivered'
    BY <1>6
  <2> HIDE DEF key
  <2> QED BY <1>1, <1>2, <1>3, <1>4, <1>6, <2>1, <2>2, <2>3, CalmStep DEF key
<1> QED BY <1>5, <1>6 DEF Record

LEMMA CrashKeeps == ASSUME IInv, NEW r \in Runs, Crash(r) PROVE IInv'
<1>1. /\ Fault /\ Release(r) /\ Become(r, Idle) /\ UNCHANGED <<clock, account>>
      /\ delivered' = delivered /\ mails' = mails /\ delivered \subseteq Keys
  BY DEF Crash, IInv, TypeOK
<1>2. Idle \in States /\ Idle.pc = "idle" /\ Idle.todo = {} /\ Idle.key = None
  BY IdleTyped DEF Idle
<1> QED BY <1>1, <1>2, FaultStep

\* The lock goes while its run goes on: one more run may stray, and what was
\* settled by its mail alone is settled no more, but never both for one key.
LEMMA LoseLockKeeps == ASSUME IInv, NEW r \in Runs, LoseLock(r) PROVE IInv'
<1> DEFINE s == run[r]
<1>1. /\ s \in States /\ run \in [Runs -> States] /\ lock \in [Jobs -> Runs \cup {None}]
      /\ s.todo \subseteq Targets(s.job)
      /\ s.pc \in {"send", "record"} =>
            s.key \in Keys /\ JobOf(s.key) = s.job /\ s.key[1] \notin s.todo
      /\ s.pc = "record" => mails[s.key] > 0
  BY RunFields, RunTyped DEF IInv
<1>2. /\ run' = run /\ UNCHANGED <<clock, account>> /\ delivered' = delivered /\ mails' = mails
      /\ faults' = faults + 1 /\ faults' \in 0..MaxFaults
      /\ delivered \subseteq Keys /\ mails \in [Keys -> Nat]
      /\ \A k \in Keys : mails[k] >= mails[k]
  BY FaultAssumption DEF LoseLock, Fault, IInv, TypeOK
<1>3. Become(r, s)
  BY <1>1, <1>2 DEF Become
<1>4. /\ lock' \in [Jobs -> Runs \cup {None}]
      /\ \A job \in Jobs : lock'[job] = IF lock[job] = r THEN None ELSE lock[job]
  BY ReleaseFields DEF IInv, LoseLock
<1>5. /\ \A job \in Jobs : lock'[job] = lock[job] \/ {lock[job], lock'[job]} = {None, r}
      /\ \A job \in Jobs : lock'[job] \in {lock[job], None, r} /\ lock'[job] # r
  BY <1>4, NameAssumption
<1>6. TypeOK' /\ RunsKeepToTheirJob' /\ LocksAreOfRuns' /\ RecordFollowsSend' /\ RecordedWasSent'
  <2>1. /\ s.pc \in {"send", "record"} <=> s.key # None
        /\ s.key # None => JobOf(s.key) = s.job /\ s.key[1] \notin s.todo
    BY <1>1 DEF IInv, TypeOK, At
  <2> QED BY <1>1, <1>2, <1>3, <1>4, <1>5, <2>1, RunKeeps
<1>7. ASSUME NEW k \in Keys
      PROVE  \/ Strays(k)' \subseteq Strays(k)
             \/ Strays(k)' \subseteq Strays(k) \cup {r} /\ (Settled(k) => Settled(k)')
  <2>1. JobOf(k) \in Jobs
    BY KeyFields
  <2>2. /\ Strays(k)' \subseteq Strays(k) \cup {r}
        /\ Strays(k)' \subseteq Strays(k) \/ MaySend(r, k)'
        /\ MaySend(r, k)' <=> s.job = JobOf(k)
               /\ (s.pc = "list" \/ k[1] \in s.todo \/ (s.pc = "send" /\ s.key = k))
        /\ lock[JobOf(k)] = r => (Settled(k) <=>
               \/ s.pc = "record" /\ s.key = k
               \/ k \in delivered /\ ~(s.pc = "send" /\ s.key = k))
        /\ lock[JobOf(k)] # r => (Settled(k) => Settled(k)')
        /\ k \in delivered /\ lock'[JobOf(k)] = None /\ ~(s.pc = "send" /\ s.key = k)
              => Settled(k)'
    <3>1. lock[JobOf(k)] = None => lock'[JobOf(k)] = None
      BY <1>4, <2>1
    <3>2. /\ delivered \subseteq delivered' /\ s.key = run[r].key
          /\ At(r, "send") <=> s.pc = "send"
          /\ At(r, "record") <=> s.pc = "record"
      BY <1>2 DEF At
    <3> HIDE DEF s
    <3> QED BY <1>1, <1>3, <1>4, <1>5, <3>1, <3>2, RunAccounts
  <2>3. CASE lock[JobOf(k)] = r
    <3>1. lock'[JobOf(k)] = None
      BY <1>4, <2>1, <2>3
    <3>2. CASE s.pc = "record" /\ s.key = k
      BY <1>1, <2>2, <3>2
    <3>3. CASE ~(s.pc = "record" /\ s.key = k)
      BY <2>2, <2>3, <3>1, <3>3
    <3> QED BY <3>2, <3>3
  <2>4. CASE lock[JobOf(k)] # r
    BY <2>2, <2>4
  <2> QED BY <2>3, <2>4
<1>8. MailsArePaid'
  BY <1>2, <1>7, Paid DEF IInv
<1> QED BY <1>6, <1>8 DEF IInv

\* What users do, and time, disturb no run.
LEMMA AccountKeeps ==
  ASSUME IInv, UNCHANGED <<delivered, lock, run, mails, faults>>,
         clock' \in 0..MaxClock, open' \in BOOLEAN,
         note' \in [Notes -> [at : Instants \cup {None}, deleted : BOOLEAN]],
         wants' \in [reminders : BOOLEAN, digest : BOOLEAN, lead : Leads]
  PROVE  IInv'
<1>1. TypeOK'
  BY DEF IInv, TypeOK, At
<1>2. RunsKeepToTheirJob' /\ LocksAreOfRuns' /\ RecordFollowsSend' /\ RecordedWasSent'
  BY DEF IInv, RunsKeepToTheirJob, LocksAreOfRuns, RecordFollowsSend, RecordedWasSent, At, JobOf
<1>3. MailsArePaid'
  BY DEF IInv, MailsArePaid, Strays, Settled, MaySend, JobOf, At
<1> QED BY <1>1, <1>2, <1>3 DEF IInv

LEMMA NextKeeps == IInv /\ [Next]_vars => IInv'
<1> SUFFICES ASSUME IInv, [Next]_vars PROVE IInv'
  OBVIOUS
<1>1. ASSUME NEW r \in Runs,
             \/ \E job \in Jobs : Begin(r, job)
             \/ Work(r) \/ Crash(r) \/ LoseLock(r)
      PROVE  IInv'
  BY <1>1, BeginKeeps, ListKeeps, LookKeeps, SendKeeps, RecordKeeps, EndKeeps,
     CrashKeeps, LoseLockKeeps DEF Work
<1>2. /\ clock \in 0..MaxClock /\ open \in BOOLEAN
      /\ note \in [Notes -> [at : Instants \cup {None}, deleted : BOOLEAN]]
      /\ wants \in [reminders : BOOLEAN, digest : BOOLEAN, lead : Leads]
  BY DEF IInv, TypeOK
<1>3. ASSUME NEW n \in Notes, Delete(n) PROVE IInv'
  BY <1>2, <1>3, AccountKeeps DEF Delete
<1>4. ASSUME NEW n \in Notes, NEW at \in Instants \cup {None}, Reschedule(n, at) PROVE IInv'
  BY <1>2, <1>4, AccountKeeps DEF Reschedule
<1>5. ASSUME NEW lead \in Leads, SetPreferences(lead) PROVE IInv'
  <2>1. wants' \in [reminders : BOOLEAN, digest : BOOLEAN, lead : Leads]
    BY <1>5 DEF SetPreferences
  <2> QED BY <1>2, <1>5, <2>1, AccountKeeps DEF SetPreferences
<1>6. CASE SetOpen
  BY <1>2, <1>6, AccountKeeps DEF SetOpen
<1>7. CASE Tick
  BY <1>2, <1>7, TimeAssumption, AccountKeeps DEF Tick, account
<1>8. CASE UNCHANGED vars
  BY <1>2, <1>8, AccountKeeps DEF vars
<1> QED BY <1>1, <1>3, <1>4, <1>5, <1>6, <1>7, <1>8 DEF Next

\* The inductive invariant holds in every reachable state.
THEOREM Invariance == Spec => []IInv
<1> QED BY InitIInv, NextKeeps, PTL DEF Spec

\* The providers accept a mail again only after a failure: overlapping runs of
\* send_reminders or send_digests never send one twice by themselves.
THEOREM DuplicatesArePaid == Spec => []NoFreeDuplicate
<1>1. IInv => NoFreeDuplicate
  <2> SUFFICES ASSUME IInv, NEW k \in Keys PROVE mails[k] <= 1 + faults
    BY DEF NoFreeDuplicate
  <2>1. /\ mails[k] + Cardinality(Strays(k)) + (IF Settled(k) THEN 0 ELSE 1) <= 1 + faults
        /\ mails[k] \in Nat /\ faults \in Nat /\ Cardinality(Strays(k)) \in Nat
    BY RunTyped, StraysFinite DEF IInv, MailsArePaid
  <2> QED BY <2>1
<1> QED BY <1>1, Invariance, PTL

\* notification_deliveries names no mail that was not sent: a failed delivery
\* stays eligible for the next run.
THEOREM FailedStaysEligible == Spec => []RecordedWasSent
<1>1. IInv => RecordedWasSent
  BY DEF IInv
<1> QED BY <1>1, Invariance, PTL
==============================================================================
