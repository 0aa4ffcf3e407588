------------------------------ MODULE RateLimits ------------------------------
(***************************************************************************)
(* The fixed-window rate limits (backend/app/rate_limits.py, limit() in     *)
(* auth/security.py) and the job that deletes expired buckets (jobs.py).    *)
(*                                                                          *)
(* A request consumes its buckets one after another: the middleware's 'api' *)
(* and then 'upload' or 'export', or an auth endpoint's own after 'api'.    *)
(* consume() is one transaction of two statements, and the row may change   *)
(* between them: that is why they are two steps here.                       *)
(***************************************************************************)
EXTENDS Integers, Sequences

CONSTANTS
    Buckets,     \* a bucket is the key of a scope and an identity
    Maximum,     \* Maximum[b]: requests allowed in a window
    Window,      \* Window[b]: length of the window, in ticks
    Plans,       \* the bucket sequences a request may have to consume
    Requests,    \* requests served at a time
    MaxSkew,     \* how far the cleanup job's clock may be ahead of the database's
    None,
    MaxClock     \* bound on time

ASSUME PlanAssumption == Plans \subseteq Seq(Buckets) \ {<<>>}
ASSUME WindowAssumption ==
    Maximum \in [Buckets -> Nat \ {0}] /\ Window \in [Buckets -> Nat \ {0}]
ASSUME ClockAssumption == MaxClock \in Nat
ASSUME SkewAssumption == MaxSkew \in Nat
ASSUME NoneAssumption == None \notin Requests \cup [hits : Nat, expires : Nat]

VARIABLES
    clock,    \* clock_timestamp() of the database
    bucket,   \* bucket[b]: None, or the row's hits and expiry
    lock,     \* lock[b]: the transaction that inserted the row and still runs
    request,  \* request[p]: where p is, the buckets left, and since: now(), when
              \* its transaction began, which consume must not go by
    ledger    \* history: for each bucket, when the window began that admitted
              \* last, how many it admitted, and how long after the one before

vars == <<clock, bucket, lock, request, ledger>>

Idle == [pc |-> "idle", plan |-> <<>>, since |-> 0]

Init ==
    /\ clock = 0
    /\ bucket = [b \in Buckets |-> None]
    /\ lock = [b \in Buckets |-> None]
    /\ request = [p \in Requests |-> Idle]
    /\ ledger = [b \in Buckets |-> [began |-> -Window[b], admitted |-> 0, gap |-> Window[b]]]

------------------------------------------------------------------------------
At(p, pc) == request[p].pc = pc

Become(p, state) == request' = [request EXCEPT ![p] = state]

Current(p) == Head(request[p].plan)

Release(b, p) == lock' = [lock EXCEPT ![b] = IF @ = p THEN None ELSE @]

Arrive(p, plan) ==
    /\ At(p, "idle")
    /\ Become(p, [Idle EXCEPT !.pc = "insert", !.plan = plan])
    /\ UNCHANGED <<clock, bucket, lock, ledger>>

\* INSERT ... ON CONFLICT DO NOTHING: a missing row is inserted, already
\* expired; the insertion of another transaction is waited for.
Insert(p) ==
    /\ At(p, "insert") /\ lock[Current(p)] = None
    /\ lock' = IF bucket[Current(p)] = None THEN [lock EXCEPT ![Current(p)] = p] ELSE lock
    /\ Become(p, [request[p] EXCEPT !.pc = "count", !.since = clock])
    /\ UNCHANGED <<clock, bucket, ledger>>

\* The row as the UPDATE finds it: expired at -infinity if p inserted it.
Found(p) ==
    IF lock[Current(p)] = p THEN [hits |-> 0, expires |-> 0] ELSE bucket[Current(p)]

\* Hits are counted up to here: beyond, every request is turned away.
Ceiling(b) == Maximum[b] + 2

\* Mutant: the last tick of a window already starts the next.
HitEarly(row, time, b) ==
    IF row.expires <= time + 1 THEN [hits |-> 1, expires |-> time + Window[b]]
    ELSE [row EXCEPT !.hits = IF @ = Ceiling(b) THEN @ ELSE @ + 1]

\* A window that has run out starts anew.
Hit(row, time, b) ==
    IF row.expires <= time THEN [hits |-> 1, expires |-> time + Window[b]]
    ELSE [row EXCEPT !.hits = IF @ = Ceiling(b) THEN @ ELSE @ + 1]

\* When the window of the last admissions ends.
Ends(b) == ledger[b].began + Window[b]

\* A window begins when the one before is over, or when its row was deleted.
Admit(b) ==
    LET window == ledger[b]
    IN  ledger' = [ledger EXCEPT ![b] =
            IF Ends(b) <= clock \/ bucket[b] = None
            THEN [began |-> clock, admitted |-> 1, gap |-> clock - window.began]
            ELSE [window EXCEPT !.admitted = @ + 1]]

\* Mutant: the clock is read before the wait for the row.
CountStale(p) ==
    LET b == Current(p)
        row == Hit(Found(p), request[p].since, b)
    IN  /\ At(p, "count") /\ lock[b] \in {None, p} /\ Found(p) # None
        /\ bucket' = [bucket EXCEPT ![b] = row]
        /\ Release(b, p)
        /\ IF row.hits > Maximum[b]
           THEN Become(p, [Idle EXCEPT !.pc = "rejected"]) /\ UNCHANGED ledger
           ELSE /\ Admit(b)
                /\ Become(p, IF Tail(request[p].plan) = <<>> THEN Idle
                             ELSE [Idle EXCEPT !.pc = "insert", !.plan = Tail(request[p].plan)])
        /\ UNCHANGED clock

\* The locked UPDATE, on the clock after the wait, and the commit.  Over the
\* maximum it is a 429, and the buckets left are not consumed.
Count(p) ==
    LET b == Current(p)
        row == Hit(Found(p), clock, b)
    IN  /\ At(p, "count") /\ lock[b] \in {None, p} /\ Found(p) # None
        /\ bucket' = [bucket EXCEPT ![b] = row]
        /\ Release(b, p)
        /\ IF row.hits > Maximum[b]
           THEN Become(p, [Idle EXCEPT !.pc = "rejected"]) /\ UNCHANGED ledger
           ELSE /\ Admit(b)
                /\ Become(p, IF Tail(request[p].plan) = <<>> THEN Idle
                             ELSE [Idle EXCEPT !.pc = "insert", !.plan = Tail(request[p].plan)])
        /\ UNCHANGED clock

\* The UPDATE finds no row: .one() raises, the answer is a 500.
CountNothing(p) ==
    /\ At(p, "count") /\ lock[Current(p)] # p /\ Found(p) = None
    /\ Become(p, [Idle EXCEPT !.pc = "error"])
    /\ UNCHANGED <<clock, bucket, lock, ledger>>

Answer(p) ==
    /\ At(p, "error") \/ At(p, "rejected")
    /\ Become(p, Idle)
    /\ UNCHANGED <<clock, bucket, lock, ledger>>

\* Mutant: the transaction outlives its request.
FailHoldsOn(p) ==
    /\ At(p, "insert") \/ At(p, "count")
    /\ Become(p, Idle)
    /\ UNCHANGED <<clock, bucket, lock, ledger>>

\* A lost connection: the transaction rolls back.
Fail(p) ==
    /\ At(p, "insert") \/ At(p, "count")
    /\ Release(Current(p), p)
    /\ Become(p, Idle)
    /\ UNCHANGED <<clock, bucket, ledger>>

\* Mutant: the DELETE has lost its condition on expires_at.
CleanupAny(b) ==
    /\ bucket[b] # None
    /\ bucket' = [bucket EXCEPT ![b] = None]
    /\ UNCHANGED <<clock, lock, request, ledger>>

\* cleanup_rate_limits compares with now() of its own host, which may be ahead
\* of the clock that consume() goes by; one that is behind only deletes later.
\* It deletes in batches and skips locked rows; row by row is what a request can
\* see of it.
Cleanup(b) ==
    /\ bucket[b] # None
    /\ \E ahead \in 0..MaxSkew : bucket[b].expires <= clock + ahead
    /\ bucket' = [bucket EXCEPT ![b] = None]
    /\ UNCHANGED <<clock, lock, request, ledger>>

Tick ==
    /\ clock < MaxClock
    /\ clock' = clock + 1
    /\ UNCHANGED <<bucket, lock, request, ledger>>

Next ==
    \/ \E p \in Requests :
          \/ \E plan \in Plans : Arrive(p, plan)
          \/ Insert(p) \/ Count(p) \/ CountNothing(p) \/ Answer(p) \/ Fail(p)
    \/ \E b \in Buckets : Cleanup(b)
    \/ Tick

Spec == Init /\ [][Next]_vars

------------------------------------------------------------------------------
\* Every variable keeps its type; a request that has buckets left is working,
\* and only one between its two statements holds a row.
TypeOK ==
    /\ clock \in 0..MaxClock
    /\ bucket \in [Buckets -> [hits : Nat, expires : Nat] \cup {None}]
    /\ lock \in [Buckets -> Requests \cup {None}]
    /\ request \in [Requests -> [pc : {"idle", "insert", "count", "error", "rejected"},
                                 plan : Seq(Buckets), since : Nat]]
    /\ \A p \in Requests : request[p].since <= clock
    /\ \A p \in Requests : request[p].plan # <<>> <=> request[p].pc \in {"insert", "count"}
    /\ ledger \in [Buckets -> [began : Int, admitted : Nat, gap : Int]]
    /\ \A b \in Buckets : ledger[b].began <= clock

\* No more than the maximum is admitted in a window, whatever the requests and
\* the cleanup do at the same time; and a window that the cleanup cut short
\* lasted all but the skew of the clocks, so that windows follow each other no
\* sooner.
NeverOver ==
    \A b \in Buckets :
        /\ ledger[b].admitted <= Maximum[b]
        /\ ledger[b].gap >= Window[b] - MaxSkew

\* Whoever holds a row inserted it, and is about to count in it.
LockIsCounting ==
    \A b \in Buckets : lock[b] # None =>
        At(lock[b], "count") /\ Current(lock[b]) = b /\ bucket[b] = None

\* A row's window is the window of the admissions, and its hits are as many as
\* they are, up to the maximum.
RowMatchesLedger ==
    \A b \in Buckets : bucket[b] # None =>
        /\ bucket[b].hits \in 1..Ceiling(b)
        /\ bucket[b].expires = Ends(b)
        /\ ledger[b].admitted =
               IF bucket[b].hits <= Maximum[b] THEN bucket[b].hits ELSE Maximum[b]

\* A window that lasts for more than the skew has a row: the cleanup takes one
\* that still counts only in the last ticks.
RunningHasRow == \A b \in Buckets : Ends(b) > clock + MaxSkew => bucket[b] # None

\* The strengthening that makes NeverOver inductive.
IInv == TypeOK /\ NeverOver /\ LockIsCounting /\ RowMatchesLedger /\ RunningHasRow

\* A request is turned away only while a window lasts that has admitted its
\* maximum, even if it waited for the row past the end of one.
RejectedWhenFull ==
    [][\A p \in Requests :
          At(p, "count") /\ request'[p].pc = "rejected" =>
              /\ Ends(Current(p)) > clock
              /\ ledger[Current(p)].admitted >= Maximum[Current(p)]]_vars

\* A request that finds its row gone between the two statements of consume, and
\* fails, has no window running but for the skew of the clocks: the cleanup takes
\* no count that matters for longer.
FailsOnlyBetweenWindows ==
    [][\A p \in Requests :
          At(p, "count") /\ request'[p].pc = "error" =>
              Ends(Current(p)) <= clock + MaxSkew]_vars
==============================================================================
