----------------------------- MODULE Notifications -----------------------------
(***************************************************************************)
(* Meeting reminders and weekly digests (backend/app/notifications/         *)
(* service.py), as python -m app.jobs runs them from two CronJobs.          *)
(*                                                                          *)
(* A run holds the job's session-level advisory lock, lists who may get a   *)
(* mail, and gives each one a transaction of its own: look again, look for  *)
(* the delivery key, send the mail, insert the key, commit.  The mail leaves*)
(* before the key commits, so the two can come apart.  One account stands   *)
(* for all: accounts share nothing but the job's lock.                      *)
(***************************************************************************)
EXTENDS Naturals, FiniteSets

CONSTANTS
    Notes, Owner,  \* an owner's notes; the owner is who a digest is for
    Instants,      \* times a meeting may be scheduled at
    Leads,         \* values of reminder_lead_minutes
    Horizon,       \* how far ahead candidates are looked for: 1440 minutes
    Week,          \* length of a week
    Runs,          \* processes that may run a job: a job's pods, or by hand
    MaxClock,      \* bound on time
    MaxFaults,     \* bound on the number of injected failures
    None

Jobs == {"reminders", "digest"}

ASSUME TimeAssumption ==
    /\ Instants \subseteq Nat /\ MaxClock \in Nat /\ Week \in Nat \ {0}
    /\ Horizon \in Nat /\ Leads # {} /\ Leads \subseteq 1..Horizon
ASSUME FaultAssumption == MaxFaults \in Nat
ASSUME RunAssumption == IsFiniteSet(Runs)

\* reminder_key and the digest's key.
Keys == (Notes \X Instants) \cup ({Owner} \X (0..(MaxClock \div Week)))

ASSUME NameAssumption ==
    /\ Owner \notin Notes
    /\ None \notin Runs \cup Notes \cup Instants \cup {Owner} /\ None \notin Keys

VARIABLES
    clock,      \* minutes
    note,       \* note[n]: when it is scheduled, and whether it is deleted
    wants,      \* the owner's preferences
    open,       \* is there anything to tell in a digest?
    delivered,  \* delivery keys committed to notification_deliveries
    lock,       \* lock[job]: the run whose session holds the advisory lock
    run,        \* run[r]: what the run keeps in local variables
    mails,      \* mails[k]: mails the provider accepted for a key
    faults      \* failures injected so far

vars == <<clock, note, wants, open, delivered, lock, run, mails, faults>>
account == <<note, wants, open>>

\* time: current_time, read once per run; todo: the rest of the candidates;
\* key: the delivery in hand.
Idle == [pc |-> "idle", job |-> "reminders", time |-> 0, todo |-> {}, key |-> None]

\* An account with both opt-ins on and its notes not yet scheduled.
Init ==
    /\ clock = 0
    /\ note = [n \in Notes |-> [at |-> None, deleted |-> FALSE]]
    /\ wants \in [reminders : {TRUE}, digest : {TRUE}, lead : Leads]
    /\ open = FALSE
    /\ delivered = {}
    /\ lock = [job \in Jobs |-> None]
    /\ run = [r \in Runs |-> Idle]
    /\ mails = [k \in Keys |-> 0]
    /\ faults = 0

------------------------------------------------------------------------------
At(r, pc) == run[r].pc = pc

Become(r, state) == run' = [run EXCEPT ![r] = state]

\* Mutant: the key of the last candidate is kept for the next.
ContinueKeepsKey(r) == Become(r, [run[r] EXCEPT !.pc = "next"])

\* On to the next candidate; the transaction of this one is over.
Continue(r) == Become(r, [run[r] EXCEPT !.pc = "next", !.key = None])

Fault == faults < MaxFaults /\ faults' = faults + 1

Release(r) == lock' = [job \in Jobs |-> IF lock[job] = r THEN None ELSE lock[job]]

\* The conditions both queries of send_reminders state.
Scheduled(n, time) ==
    wants.reminders /\ ~note[n].deleted /\ note[n].at # None /\ note[n].at > time

Candidates(job, time) ==
    IF job = "digest" THEN {Owner} \cap {o \in {Owner} : wants.digest}
    ELSE {n \in Notes : Scheduled(n, time) /\ note[n].at <= time + Horizon}

\* Does the second look confirm the candidate, and under which key?
Due(job, s, time) ==
    IF job = "digest" THEN wants.digest /\ open
    ELSE Scheduled(s, time) /\ time + wants.lead >= note[s].at

KeyOf(job, s, time) == <<s, IF job = "digest" THEN time \div Week ELSE note[s].at>>

------------------------------------------------------------------------------
\* Mutant: the job runs with or without the lock.
BeginAnyway(r, job) ==
    /\ At(r, "idle")
    /\ lock' = IF lock[job] = None THEN [lock EXCEPT ![job] = r] ELSE lock
    /\ Become(r, [Idle EXCEPT !.pc = "list", !.job = job, !.time = clock])
    /\ UNCHANGED <<clock, account, delivered, mails, faults>>

\* pg_try_advisory_lock: a run that does not get the lock ends at once.
Begin(r, job) ==
    /\ At(r, "idle") /\ lock[job] = None
    /\ lock' = [lock EXCEPT ![job] = r]
    /\ Become(r, [Idle EXCEPT !.pc = "list", !.job = job, !.time = clock])
    /\ UNCHANGED <<clock, account, delivered, mails, faults>>

List(r) ==
    /\ At(r, "list")
    /\ Become(r, [run[r] EXCEPT !.pc = "next",
                                !.todo = Candidates(run[r].job, run[r].time)])
    /\ UNCHANGED <<clock, account, delivered, lock, mails, faults>>

\* The candidate and its delivery key are looked up; no row is locked.
Look(r, s) ==
    LET job == run[r].job
        key == KeyOf(job, s, run[r].time)
        send == Due(job, s, run[r].time) /\ key \notin delivered
    IN  /\ At(r, "next") /\ s \in run[r].todo
        /\ Become(r, [run[r] EXCEPT !.todo = @ \ {s},
                                    !.pc = IF send THEN "send" ELSE "next",
                                    !.key = IF send THEN key ELSE None])
        /\ UNCHANGED <<clock, account, delivered, lock, mails, faults>>

\* Mutant: a failed mail is delivered all the same.
SendSwallows(r) ==
    /\ At(r, "send")
    /\ \/ mails' = [mails EXCEPT ![run[r].key] = @ + 1] /\ UNCHANGED faults
       \/ Fault /\ UNCHANGED mails
    /\ Become(r, [run[r] EXCEPT !.pc = "record"])
    /\ UNCHANGED <<clock, account, delivered, lock>>

\* The mail goes out, or the provider fails, perhaps after accepting it.
Send(r) ==
    /\ At(r, "send")
    /\ \/ /\ mails' = [mails EXCEPT ![run[r].key] = @ + 1]
          /\ Become(r, [run[r] EXCEPT !.pc = "record"])
          /\ UNCHANGED faults
       \/ /\ Fault
          /\ \/ mails' = [mails EXCEPT ![run[r].key] = @ + 1]
             \/ UNCHANGED mails
          /\ Continue(r)
    /\ UNCHANGED <<clock, account, delivered, lock>>

\* The insertion and the commit.  A key that is there by now is refused by its
\* unique constraint; a commit that fails may have taken place.
Record(r) ==
    /\ At(r, "record")
    /\ \/ delivered' = delivered \cup {run[r].key} /\ UNCHANGED faults
       \/ Fault /\ UNCHANGED delivered
       \/ Fault /\ delivered' = delivered \cup {run[r].key}
    /\ Continue(r)
    /\ UNCHANGED <<clock, account, lock, mails>>

\* Mutant: the lock stays with the session.
EndHoldsOn(r) ==
    /\ At(r, "next") /\ run[r].todo = {}
    /\ Become(r, Idle)
    /\ UNCHANGED <<clock, account, delivered, lock, mails, faults>>

End(r) ==
    /\ At(r, "next") /\ run[r].todo = {}
    /\ Release(r)
    /\ Become(r, Idle)
    /\ UNCHANGED <<clock, account, delivered, mails, faults>>

Crash(r) ==
    /\ ~At(r, "idle") /\ Fault
    /\ Release(r)
    /\ Become(r, Idle)
    /\ UNCHANGED <<clock, account, delivered, mails>>

\* The session that holds the lock is lost; the transactions have their own.
LoseLock(r) ==
    /\ \E job \in Jobs : lock[job] = r
    /\ Fault
    /\ Release(r)
    /\ UNCHANGED <<clock, account, delivered, run, mails>>

------------------------------------------------------------------------------
(* What users do meanwhile, and time.                                        *)

\* update_note with another scheduled_at, or none; delete and undelete.
Reschedule(n, at) ==
    /\ ~note[n].deleted
    /\ note' = [note EXCEPT ![n].at = at]
    /\ UNCHANGED <<clock, wants, open, delivered, lock, run, mails, faults>>

Delete(n) ==
    /\ note' = [note EXCEPT ![n].deleted = ~@]
    /\ UNCHANGED <<clock, wants, open, delivered, lock, run, mails, faults>>

SetPreferences(lead) ==
    /\ wants' \in [reminders : BOOLEAN, digest : BOOLEAN, lead : {lead}]
    /\ UNCHANGED <<clock, note, open, delivered, lock, run, mails, faults>>

\* A meeting of the week, or an open action item, comes or goes.
SetOpen ==
    /\ open' = ~open
    /\ UNCHANGED <<clock, note, wants, delivered, lock, run, mails, faults>>

Tick ==
    /\ clock < MaxClock
    /\ clock' = clock + 1
    /\ UNCHANGED <<account, delivered, lock, run, mails, faults>>

------------------------------------------------------------------------------
Work(r) ==
    \/ List(r)
    \/ \E s \in Notes \cup {Owner} : Look(r, s)
    \/ Send(r) \/ Record(r) \/ End(r)

Next ==
    \/ \E r \in Runs :
          \/ \E job \in Jobs : Begin(r, job)
          \/ Work(r) \/ Crash(r) \/ LoseLock(r)
    \/ \E n \in Notes : Delete(n) \/ \E at \in Instants \cup {None} : Reschedule(n, at)
    \/ \E lead \in Leads : SetPreferences(lead)
    \/ SetOpen \/ Tick

Spec == Init /\ [][Next]_vars

\* The CronJob starts the reminders again and again, every minute of a lead; the
\* digest it starts once a week, which is not enough to start one again for the
\* same week.  A run goes on to its end.
Fairness ==
    /\ SF_vars(\E r \in Runs : Begin(r, "reminders"))
    /\ \A r \in Runs : WF_vars(Work(r))

FairSpec == Spec /\ Fairness

------------------------------------------------------------------------------
\* Every variable keeps its type.
TypeOK ==
    /\ clock \in 0..MaxClock
    /\ note \in [Notes -> [at : Instants \cup {None}, deleted : BOOLEAN]]
    /\ wants \in [reminders : BOOLEAN, digest : BOOLEAN, lead : Leads]
    /\ open \in BOOLEAN
    /\ delivered \subseteq Keys
    /\ lock \in [Jobs -> Runs \cup {None}]
    /\ run \in [Runs -> [pc : {"idle", "list", "next", "send", "record"}, job : Jobs,
                         time : 0..MaxClock, todo : SUBSET (Notes \cup {Owner}),
                         key : Keys \cup {None}]]
    /\ \A r \in Runs : At(r, "send") \/ At(r, "record") <=> run[r].key # None
    /\ mails \in [Keys -> Nat] /\ faults \in 0..MaxFaults

\* A duplicate mail costs a failure: runs that overlap, however the notes and
\* the preferences change meanwhile, never send one twice by themselves.
NoFreeDuplicate == \A k \in Keys : mails[k] <= 1 + faults

\* What is recorded as delivered was sent: a failed mail stays eligible.
RecordedWasSent == \A k \in delivered : mails[k] > 0

------------------------------------------------------------------------------
JobOf(k) == IF k[1] = Owner THEN "digest" ELSE "reminders"

\* A run keeps to its job, and looks once at each candidate.
RunsKeepToTheirJob ==
    \A r \in Runs :
        /\ run[r].todo \subseteq IF run[r].job = "digest" THEN {Owner} ELSE Notes
        /\ run[r].key # None =>
              JobOf(run[r].key) = run[r].job /\ run[r].key[1] \notin run[r].todo

\* A lock is held by a run of that job at work.
LocksAreOfRuns ==
    \A job \in Jobs :
        lock[job] # None => ~At(lock[job], "idle") /\ run[lock[job]].job = job

RecordFollowsSend == \A r \in Runs : At(r, "record") => mails[run[r].key] > 0

MaySend(r, k) ==
    /\ run[r].job = JobOf(k)
    /\ At(r, "list") \/ k[1] \in run[r].todo \/ (At(r, "send") /\ run[r].key = k)

\* Runs that go on without the lock of their job, and may send k.
Strays(k) == {r \in Runs : MaySend(r, k) /\ lock[JobOf(k)] # r}

\* No run with the lock, now or later, sends k: it has been sent by the one
\* that holds the lock, or it is recorded and was before that one looked.
Settled(k) ==
    \/ \E r \in Runs : lock[JobOf(k)] = r /\ At(r, "record") /\ run[r].key = k
    \/ /\ k \in delivered
       /\ \A r \in Runs : lock[JobOf(k)] = r => ~(At(r, "send") /\ run[r].key = k)

\* Each mail of a key after the first is paid for by a failure, the mails that
\* may still follow included.
MailsArePaid ==
    \A k \in Keys :
        mails[k] + Cardinality(Strays(k)) + (IF Settled(k) THEN 0 ELSE 1) <= 1 + faults

\* The strengthening that makes the two properties inductive.
IInv ==
    /\ TypeOK /\ RunsKeepToTheirJob /\ LocksAreOfRuns
    /\ RecordFollowsSend /\ RecordedWasSent /\ MailsArePaid

\* A reminder that is due is recorded as delivered in the end, or is due no more:
\* failures, crashes and lost locks only delay it.
RemindersDelivered ==
    \A n \in Notes :
        (n \in Candidates("reminders", clock) /\ Due("reminders", n, clock)) ~>
            (n \in Candidates("reminders", clock) /\ Due("reminders", n, clock)
                => KeyOf("reminders", n, clock) \in delivered)

\* A run of the digest delivers that of its week in the end, unless a failure,
\* or a user who wants it no more or has nothing left to report, comes between.
DigestDelivered ==
    \A time \in 0..MaxClock, failed \in 0..MaxFaults :
        (/\ \E r \in Runs : At(r, "list") /\ run[r].job = "digest" /\ run[r].time = time
         /\ Due("digest", Owner, time) /\ faults = failed) ~>
            (\/ KeyOf("digest", Owner, time) \in delivered
             \/ faults > failed \/ ~Due("digest", Owner, time))

Delivered == RemindersDelivered /\ DigestDelivered
==============================================================================
