--------------------------- MODULE RateLimits_proof ---------------------------
(***************************************************************************)
(* Proofs about RateLimits: whatever the number of requests, buckets and    *)
(* ticks, and however far the cleanup job's clock is ahead, no window       *)
(* admits more than its maximum, and a request is refused or fails only     *)
(* when it may be.                                                          *)
(***************************************************************************)
EXTENDS RateLimits, SequenceTheorems, TLAPS

States == [pc : {"idle", "insert", "count", "error", "rejected"},
           plan : Seq(Buckets), since : Nat]

\* A request in one of its two statements has a bucket in hand.
LEMMA CurrentIsBucket ==
  ASSUME TypeOK, NEW p \in Requests, At(p, "insert") \/ At(p, "count")
  PROVE  Current(p) \in Buckets /\ Tail(request[p].plan) \in Seq(Buckets)
<1>1. request[p].plan \in Seq(Buckets) /\ request[p].plan # <<>>
  BY DEF TypeOK, At
<1> QED BY <1>1, HeadTailProperties DEF Current

LEMMA IdleTyped == Idle \in States
BY DEF Idle, States

\* Replacing a request's record by one of the states keeps the type.
LEMMA BecomeTyped ==
  ASSUME TypeOK, NEW p \in Requests, NEW s \in States, Become(p, s),
         clock' \in Nat, clock' >= clock, s.since <= clock',
         s.plan # <<>> <=> s.pc \in {"insert", "count"}
  PROVE  /\ request' \in [Requests -> States]
         /\ \A q \in Requests : request'[q].since <= clock'
         /\ \A q \in Requests : request'[q].plan # <<>> <=> request'[q].pc \in {"insert", "count"}
         /\ request'[p] = s /\ \A q \in Requests \ {p} : request'[q] = request[q]
<1>1. request \in [Requests -> States] /\ request' = [request EXCEPT ![p] = s]
  BY DEF TypeOK, States, Become
<1>2. clock \in Nat /\ \A q \in Requests : request[q].since \in Nat
  BY ClockAssumption DEF TypeOK
<1> QED BY <1>1, <1>2 DEF TypeOK

\* What consume() makes of a row: a new window, or one more hit up to the ceiling.
LEMMA HitCounts ==
  ASSUME NEW b \in Buckets, NEW row \in [hits : Nat, expires : Nat], NEW time \in Nat
  PROVE  /\ Hit(row, time, b) \in [hits : Nat, expires : Nat]
         /\ row.expires <= time =>
               Hit(row, time, b).hits = 1 /\ Hit(row, time, b).expires = time + Window[b]
         /\ row.expires > time =>
               /\ Hit(row, time, b).expires = row.expires
               /\ Hit(row, time, b).hits =
                     IF row.hits = Maximum[b] + 2 THEN row.hits ELSE row.hits + 1
<1>1. Maximum[b] \in Nat \ {0} /\ Window[b] \in Nat \ {0}
  BY WindowAssumption
<1> QED BY <1>1 DEF Hit, Ceiling

\* The row that the UPDATE finds is one, and expired if p has just inserted it.
LEMMA FoundIsRow ==
  ASSUME TypeOK, NEW p \in Requests, At(p, "count"), Found(p) # None
  PROVE  /\ Found(p) \in [hits : Nat, expires : Nat]
         /\ lock[Current(p)] # p => Found(p) = bucket[Current(p)]
         /\ lock[Current(p)] = p => Found(p).expires = 0
<1>1. Current(p) \in Buckets
  BY CurrentIsBucket
<1>2. bucket[Current(p)] \in [hits : Nat, expires : Nat] \cup {None}
  BY <1>1 DEF TypeOK
<1> QED BY <1>1, <1>2 DEF Found

Ledgers == [began : Int, admitted : Nat, gap : Int]

\* An admission opens a window, or is one more in the one that runs.
LEMMA AdmitCounts ==
  ASSUME NEW b \in Buckets, ledger \in [Buckets -> Ledgers],
         clock \in Nat, Window[b] \in Nat \ {0}, Admit(b)
  PROVE  /\ ledger' \in [Buckets -> Ledgers]
         /\ \A c \in Buckets \ {b} : ledger'[c] = ledger[c]
         /\ (Ends(b) <= clock \/ bucket[b] = None) =>
               /\ ledger'[b].began = clock /\ ledger'[b].admitted = 1
               /\ ledger'[b].gap = clock - ledger[b].began
         /\ ~(Ends(b) <= clock \/ bucket[b] = None) =>
               /\ ledger'[b].began = ledger[b].began /\ ledger'[b].gap = ledger[b].gap
               /\ ledger'[b].admitted = ledger[b].admitted + 1
<1>1. ledger[b] \in Ledgers
  OBVIOUS
<1>2. CASE Ends(b) <= clock \/ bucket[b] = None
  <2> DEFINE first == [began |-> clock, admitted |-> 1, gap |-> clock - ledger[b].began]
  <2>1. ledger' = [ledger EXCEPT ![b] = first]
    BY <1>2 DEF Admit
  <2>2. /\ first \in Ledgers /\ first.began = clock /\ first.admitted = 1
        /\ first.gap = clock - ledger[b].began
    BY <1>1 DEF Ledgers
  <2> HIDE DEF first
  <2> QED BY <1>2, <2>1, <2>2
<1>3. CASE ~(Ends(b) <= clock \/ bucket[b] = None)
  <2> DEFINE more == [ledger[b] EXCEPT !.admitted = @ + 1]
  <2>1. ledger' = [ledger EXCEPT ![b] = more]
    BY <1>3 DEF Admit
  <2>2. /\ more \in Ledgers /\ more.began = ledger[b].began /\ more.gap = ledger[b].gap
        /\ more.admitted = ledger[b].admitted + 1
    BY <1>1 DEF Ledgers
  <2> HIDE DEF more
  <2> QED BY <1>3, <2>1, <2>2
<1> QED BY <1>2, <1>3

LEMMA InitIInv == Init => IInv
<1> SUFFICES ASSUME Init PROVE IInv
  OBVIOUS
<1>1. TypeOK
  <2>1. <<>> \in Seq(Buckets)
    BY EmptySeq
  <2>2. \A b \in Buckets : Window[b] \in Nat
    BY WindowAssumption
  <2>3. /\ ledger \in [Buckets -> [began : Int, admitted : Nat, gap : Int]]
        /\ \A b \in Buckets : ledger[b].began <= clock
    BY <2>2 DEF Init
  <2> QED BY <2>1, <2>3, ClockAssumption DEF Init, TypeOK, Idle
<1>2. NeverOver
  <2> SUFFICES ASSUME NEW b \in Buckets
               PROVE  ledger[b].admitted <= Maximum[b] /\ ledger[b].gap >= Window[b] - MaxSkew
    BY DEF NeverOver
  <2>1. ledger[b].admitted = 0 /\ Maximum[b] \in Nat
    BY WindowAssumption DEF Init
  <2>2. ledger[b].gap = Window[b] /\ Window[b] \in Nat
    BY WindowAssumption DEF Init
  <2> QED BY <2>1, <2>2, SkewAssumption
<1>3. LockIsCounting /\ RowMatchesLedger
  BY DEF Init, LockIsCounting, RowMatchesLedger
<1>4. RunningHasRow
  <2> SUFFICES ASSUME NEW b \in Buckets PROVE ~(Ends(b) > clock + MaxSkew)
    BY DEF RunningHasRow
  <2>1. ledger[b].began = -Window[b] /\ Window[b] \in Nat /\ clock = 0
    BY WindowAssumption DEF Init
  <2> QED BY <2>1, SkewAssumption DEF Ends
<1> QED BY <1>1, <1>2, <1>3, <1>4 DEF IInv

\* A step that leaves the rows, their locks and the ledger alone, and takes no
\* request that holds a row away from its count.
LEMMA RowsUntouched ==
  ASSUME IInv, TypeOK', clock' >= clock, UNCHANGED <<bucket, lock, ledger>>,
         \A b \in Buckets : lock[b] # None => request'[lock[b]] = request[lock[b]]
  PROVE  IInv'
<1>1. NeverOver'
  BY DEF IInv, NeverOver
<1>2. LockIsCounting'
  BY DEF IInv, LockIsCounting, At, Current
<1>3. RowMatchesLedger'
  BY DEF IInv, RowMatchesLedger, Ceiling, Ends
<1>4. RunningHasRow'
  <2> SUFFICES ASSUME NEW b \in Buckets, Ends(b)' > clock' + MaxSkew PROVE bucket'[b] # None
    BY DEF RunningHasRow
  <2>1. Ends(b)' = Ends(b) /\ Ends(b) \in Int /\ clock \in Nat /\ clock' \in Nat
    BY ClockAssumption, WindowAssumption DEF IInv, TypeOK, Ends
  <2>2. Ends(b) > clock + MaxSkew
    BY <2>1, SkewAssumption
  <2> QED BY <2>2 DEF IInv, RunningHasRow
<1> QED BY <1>1, <1>2, <1>3, <1>4 DEF IInv

\* A request that is not about to count holds no row.
LEMMA HoldsNothing ==
  ASSUME IInv, NEW p \in Requests, ~At(p, "count")
  PROVE  \A b \in Buckets : lock[b] # p
BY NoneAssumption DEF IInv, LockIsCounting

LEMMA ArriveKeeps ==
  ASSUME IInv, NEW p \in Requests, NEW plan \in Plans, Arrive(p, plan)
  PROVE  IInv'
<1> DEFINE s == [Idle EXCEPT !.pc = "insert", !.plan = plan]
<1>1. s \in States /\ s.since = 0 /\ s.plan # <<>> /\ s.pc = "insert"
  BY PlanAssumption DEF States, Idle
<1>2. Become(p, s) /\ UNCHANGED <<clock, bucket, lock, ledger>> /\ ~At(p, "count")
  BY DEF Arrive, At
<1>3. clock' \in Nat /\ clock' >= clock /\ clock' >= 0
  BY <1>2, ClockAssumption DEF IInv, TypeOK
<1> HIDE DEF s
<1>4. /\ request' \in [Requests -> States]
      /\ \A q \in Requests : request'[q].since <= clock'
      /\ \A q \in Requests : request'[q].plan # <<>> <=> request'[q].pc \in {"insert", "count"}
      /\ \A q \in Requests \ {p} : request'[q] = request[q]
  BY <1>1, <1>2, <1>3, BecomeTyped DEF IInv
<1>5. TypeOK'
  BY <1>2, <1>4 DEF IInv, TypeOK, States
<1>6. \A b \in Buckets : lock[b] # None => request'[lock[b]] = request[lock[b]]
  BY <1>2, <1>4, HoldsNothing DEF IInv, TypeOK
<1> QED BY <1>2, <1>3, <1>5, <1>6, RowsUntouched

LEMMA InsertKeeps ==
  ASSUME IInv, NEW p \in Requests, Insert(p)
  PROVE  IInv'
<1> DEFINE b == Current(p)
           s == [request[p] EXCEPT !.pc = "count", !.since = clock]
<1>1. /\ At(p, "insert") /\ lock[b] = None /\ Become(p, s)
      /\ lock' = IF bucket[b] = None THEN [lock EXCEPT ![b] = p] ELSE lock
      /\ UNCHANGED <<clock, bucket, ledger>>
  BY DEF Insert
<1>2. b \in Buckets
  BY <1>1, CurrentIsBucket DEF IInv
<1>3. /\ s \in States /\ s.since = clock /\ s.plan = request[p].plan /\ s.plan # <<>>
      /\ s.pc = "count"
  <2>1. request[p] \in States /\ clock \in Nat /\ request[p].plan # <<>>
    BY <1>1, ClockAssumption DEF IInv, TypeOK, States, At
  <2> QED BY <2>1 DEF States
<1>4. clock' \in Nat /\ clock' >= clock /\ s.since <= clock'
  BY <1>1, <1>3, ClockAssumption DEF IInv, TypeOK
<1> HIDE DEF s
<1>5. /\ request' \in [Requests -> States]
      /\ \A q \in Requests : request'[q].since <= clock'
      /\ \A q \in Requests : request'[q].plan # <<>> <=> request'[q].pc \in {"insert", "count"}
      /\ request'[p] = s /\ \A q \in Requests \ {p} : request'[q] = request[q]
  BY <1>1, <1>3, <1>4, BecomeTyped DEF IInv
<1>6. TypeOK'
  BY <1>1, <1>2, <1>5 DEF IInv, TypeOK, States
<1>7. LockIsCounting'
  <2> SUFFICES ASSUME NEW c \in Buckets, lock'[c] # None
               PROVE  At(lock[c], "count")' /\ Current(lock[c])' = c /\ bucket'[c] = None
    BY DEF LockIsCounting
  <2>1. CASE lock'[c] = lock[c]
    <3>1. At(lock[c], "count") /\ Current(lock[c]) = c /\ bucket[c] = None
      BY <2>1 DEF IInv, LockIsCounting
    <3>2. lock[c] # p /\ lock[c] \in Requests
      BY <1>1, <2>1, <3>1 DEF At, IInv, TypeOK
    <3> QED BY <1>1, <1>5, <2>1, <3>1, <3>2 DEF At, Current
  <2>2. CASE lock'[c] # lock[c]
    <3>1. c = b /\ lock'[c] = p /\ bucket[c] = None
      BY <1>1, <1>2, <2>2 DEF IInv, TypeOK
    <3> QED BY <1>1, <1>3, <1>5, <3>1 DEF At, Current
  <2> QED BY <2>1, <2>2
<1>8. NeverOver' /\ RowMatchesLedger' /\ RunningHasRow'
  BY <1>1 DEF IInv, NeverOver, RowMatchesLedger, RunningHasRow, Ceiling, Ends
<1> QED BY <1>6, <1>7, <1>8 DEF IInv

\* A row lock given up by the request that held it, with the end of its count.
LEMMA ReleaseFrees ==
  ASSUME IInv, NEW p \in Requests, NEW b \in Buckets, Release(b, p),
         \A c \in Buckets : lock[c] = p => c = b
  PROVE  /\ lock' \in [Buckets -> Requests \cup {None}]
         /\ \A c \in Buckets : lock'[c] # p
         /\ \A c \in Buckets : lock'[c] # None => lock'[c] = lock[c]
         /\ \A c \in Buckets : c # b => lock'[c] = lock[c]
BY NoneAssumption DEF IInv, TypeOK, Release

\* The bucket a request counts in is the only one it may hold.
LEMMA HoldsCurrent ==
  ASSUME IInv, NEW p \in Requests
  PROVE  \A c \in Buckets : lock[c] = p => c = Current(p)
BY NoneAssumption DEF IInv, LockIsCounting

LEMMA StopKeeps ==
  ASSUME IInv, NEW p \in Requests, NEW s \in States, Become(p, s), s.since = 0, s.plan = <<>>,
         s.pc \in {"idle", "error", "rejected"}, UNCHANGED <<clock, bucket, ledger>>,
         \/ UNCHANGED lock /\ \A b \in Buckets : lock[b] # p
         \/ Release(Current(p), p) /\ Current(p) \in Buckets
  PROVE  IInv'
<1>1. clock' \in Nat /\ clock' >= clock /\ s.since <= clock'
  BY ClockAssumption DEF IInv, TypeOK
<1>2. /\ request' \in [Requests -> States]
      /\ \A q \in Requests : request'[q].since <= clock'
      /\ \A q \in Requests : request'[q].plan # <<>> <=> request'[q].pc \in {"insert", "count"}
      /\ \A q \in Requests \ {p} : request'[q] = request[q]
  BY <1>1, BecomeTyped DEF IInv
<1>3. /\ lock' \in [Buckets -> Requests \cup {None}]
      /\ \A c \in Buckets : lock'[c] # p
      /\ \A c \in Buckets : lock'[c] # None => lock'[c] = lock[c]
  <2>1. CASE UNCHANGED lock /\ \A b \in Buckets : lock[b] # p
    BY <2>1 DEF IInv, TypeOK
  <2>2. CASE Release(Current(p), p) /\ Current(p) \in Buckets
    BY <2>2, ReleaseFrees, HoldsCurrent
  <2> QED BY <2>1, <2>2
<1>4. TypeOK'
  BY <1>2, <1>3 DEF IInv, TypeOK, States
<1>5. LockIsCounting'
  <2> SUFFICES ASSUME NEW c \in Buckets, lock'[c] # None
               PROVE  At(lock[c], "count")' /\ Current(lock[c])' = c /\ bucket'[c] = None
    BY DEF LockIsCounting
  <2>1. lock'[c] = lock[c] /\ lock[c] \in Requests \ {p}
    BY <1>3 DEF IInv, TypeOK
  <2> QED BY <1>2, <2>1 DEF IInv, LockIsCounting, At, Current
<1>6. NeverOver' /\ RowMatchesLedger' /\ RunningHasRow'
  BY DEF IInv, NeverOver, RowMatchesLedger, RunningHasRow, Ceiling, Ends
<1> QED BY <1>4, <1>5, <1>6 DEF IInv

\* The UPDATE and the commit of consume(), admitted or not.
LEMMA CountKeeps ==
  ASSUME IInv, NEW p \in Requests, Count(p)
  PROVE  IInv'
<1> DEFINE b == Current(p)
           found == Found(p)
           row == Hit(found, clock, b)
           full == row.hits > Maximum[b]
<1>1. /\ At(p, "count") /\ lock[b] \in {None, p} /\ found # None
      /\ bucket' = [bucket EXCEPT ![b] = row]
      /\ Release(b, p) /\ clock' = clock
      /\ IF full
         THEN Become(p, [Idle EXCEPT !.pc = "rejected"]) /\ UNCHANGED ledger
         ELSE /\ Admit(b)
              /\ Become(p, IF Tail(request[p].plan) = <<>> THEN Idle
                           ELSE [Idle EXCEPT !.pc = "insert", !.plan = Tail(request[p].plan)])
  BY DEF Count
<1>2. b \in Buckets /\ Tail(request[p].plan) \in Seq(Buckets)
  BY <1>1, CurrentIsBucket DEF IInv
<1>3. clock \in Nat /\ Maximum[b] \in Nat \ {0} /\ Window[b] \in Nat \ {0}
  BY <1>2, ClockAssumption, WindowAssumption DEF IInv, TypeOK
<1>4. /\ found \in [hits : Nat, expires : Nat]
      /\ lock[b] # p => found = bucket[b]
      /\ lock[b] = p => found.expires = 0
  BY <1>1, FoundIsRow DEF IInv
<1>5. /\ row \in [hits : Nat, expires : Nat]
      /\ found.expires <= clock => row.hits = 1 /\ row.expires = clock + Window[b]
      /\ found.expires > clock =>
            /\ row.expires = found.expires
            /\ row.hits = IF found.hits = Maximum[b] + 2 THEN found.hits ELSE found.hits + 1
  BY <1>2, <1>3, <1>4, HitCounts
<1>6. ledger[b] \in Ledgers /\ Ends(b) = ledger[b].began + Window[b]
  BY <1>2 DEF IInv, TypeOK, Ledgers, Ends
\* Is the window that was found still running?
<1>7. /\ found.expires <= clock <=> (Ends(b) <= clock \/ bucket[b] = None)
      /\ bucket[b] = None => Ends(b) <= clock + MaxSkew
      /\ found.expires > clock =>
            /\ found.hits \in 1..(Maximum[b] + 2) /\ found.expires = Ends(b)
            /\ ledger[b].admitted = IF found.hits <= Maximum[b] THEN found.hits ELSE Maximum[b]
  <2> USE SkewAssumption
  <2>0. Ends(b) \in Int
    BY <1>3, <1>6 DEF Ledgers
  <2>1. CASE lock[b] = p
    <3>1. bucket[b] = None
      BY <1>2, <2>1, NoneAssumption DEF IInv, LockIsCounting
    <3>2. ~(Ends(b) > clock + MaxSkew)
      BY <1>2, <3>1 DEF IInv, RunningHasRow
    <3> QED BY <1>3, <1>4, <2>0, <2>1, <3>1, <3>2
  <2>2. CASE lock[b] # p
    BY <1>1, <1>2, <1>3, <1>4, <2>0, <2>2 DEF IInv, RowMatchesLedger, Ceiling
  <2> QED BY <2>1, <2>2
<1> HIDE DEF b, found, row
<1>8. \E s \in States : /\ Become(p, s) /\ s.since = 0
                        /\ s.plan # <<>> <=> s.pc \in {"insert", "count"}
                        /\ s.pc # "count"
  <2>1. CASE full
    <3>1. [Idle EXCEPT !.pc = "rejected"] \in States
      BY IdleTyped DEF States
    <3> QED BY <1>1, <2>1, <3>1 DEF Idle
  <2>2. CASE ~full /\ Tail(request[p].plan) = <<>>
    BY <1>1, <2>2, IdleTyped DEF Idle
  <2>3. CASE ~full /\ Tail(request[p].plan) # <<>>
    <3> DEFINE s == [Idle EXCEPT !.pc = "insert", !.plan = Tail(request[p].plan)]
    <3>1. s \in States /\ s.since = 0 /\ s.pc = "insert" /\ s.plan # <<>>
      BY <1>2, <2>3, IdleTyped DEF States, Idle
    <3>2. Become(p, s)
      BY <1>1, <2>3
    <3> HIDE DEF s
    <3> QED BY <3>1, <3>2
  <2> QED BY <2>1, <2>2, <2>3
<1>9. PICK s \in States : /\ Become(p, s) /\ s.since = 0
                          /\ s.plan # <<>> <=> s.pc \in {"insert", "count"}
                          /\ s.pc # "count"
  BY <1>8
<1>10. /\ request' \in [Requests -> States]
       /\ \A q \in Requests : request'[q].since <= clock'
       /\ \A q \in Requests : request'[q].plan # <<>> <=> request'[q].pc \in {"insert", "count"}
       /\ \A q \in Requests \ {p} : request'[q] = request[q]
  BY <1>1, <1>3, <1>9, BecomeTyped DEF IInv
<1>11. /\ lock' \in [Buckets -> Requests \cup {None}]
       /\ \A c \in Buckets : lock'[c] # p
       /\ \A c \in Buckets : lock'[c] # None => lock'[c] = lock[c]
       /\ lock'[b] = None
  <2>1. \A c \in Buckets : lock[c] = p => c = b
    BY HoldsCurrent DEF b
  <2> QED BY <1>1, <1>2, <2>1, ReleaseFrees DEF Release, IInv, TypeOK
<1>12. /\ bucket' \in [Buckets -> [hits : Nat, expires : Nat] \cup {None}]
       /\ bucket'[b] = row /\ row # None
       /\ \A c \in Buckets \ {b} : bucket'[c] = bucket[c]
  BY <1>1, <1>2, <1>5, NoneAssumption DEF IInv, TypeOK
\* The ledger of b after the step; the others are as they were.
<1>13. /\ ledger' \in [Buckets -> Ledgers]
       /\ \A c \in Buckets \ {b} : ledger'[c] = ledger[c]
       /\ full => ledger'[b] = ledger[b]
       /\ (~full /\ found.expires <= clock) =>
             /\ ledger'[b].began = clock /\ ledger'[b].admitted = 1
             /\ ledger'[b].gap = clock - ledger[b].began
       /\ (~full /\ found.expires > clock) =>
             /\ ledger'[b].began = ledger[b].began /\ ledger'[b].gap = ledger[b].gap
             /\ ledger'[b].admitted = ledger[b].admitted + 1
  <2>1. ledger \in [Buckets -> Ledgers]
    BY DEF IInv, TypeOK, Ledgers
  <2>2. CASE full
    BY <1>1, <2>1, <2>2
  <2>3. CASE ~full
    <3>1. Admit(b) /\ ~(found.expires <= clock /\ found.expires > clock)
      BY <1>1, <1>3, <1>4, <2>3
    <3> QED BY <1>2, <1>3, <1>7, <2>1, <2>3, <3>1, AdmitCounts
  <2> QED BY <2>2, <2>3
<1>14. /\ ledger'[b].admitted = IF row.hits <= Maximum[b] THEN row.hits ELSE Maximum[b]
       /\ row.expires = ledger'[b].began + Window[b] /\ row.hits \in 1..(Maximum[b] + 2)
       /\ ledger'[b].began <= clock
       /\ ledger'[b].gap >= Window[b] - MaxSkew
  <2>0. ledger[b].began <= clock /\ ledger[b].gap >= Window[b] - MaxSkew
    BY <1>2 DEF IInv, NeverOver, TypeOK
  <2>1. CASE found.expires <= clock
    <3>1. ~full /\ row.hits = 1 /\ row.expires = clock + Window[b]
      BY <1>3, <1>5, <2>1
    <3>2. /\ ledger'[b].began = clock /\ ledger'[b].admitted = 1
          /\ ledger'[b].gap = clock - ledger[b].began
      BY <1>13, <2>1, <3>1
    <3>3. Ends(b) <= clock + MaxSkew
      BY <1>3, <1>6, <1>7, <2>1, SkewAssumption DEF Ledgers
    <3> QED BY <1>3, <1>6, <2>0, <3>1, <3>2, <3>3, SkewAssumption DEF Ledgers
  <2>2. CASE found.expires > clock
    <3>1. /\ row.expires = Ends(b)
          /\ row.hits = IF found.hits = Maximum[b] + 2 THEN found.hits ELSE found.hits + 1
          /\ found.hits \in 1..(Maximum[b] + 2)
          /\ ledger[b].admitted = IF found.hits <= Maximum[b] THEN found.hits ELSE Maximum[b]
      BY <1>5, <1>7, <2>2
    <3>2. ledger'[b].began = ledger[b].began /\ ledger'[b].gap = ledger[b].gap
      BY <1>13, <2>2
    <3>3. ledger'[b].admitted = IF full THEN ledger[b].admitted ELSE ledger[b].admitted + 1
      BY <1>13, <2>2
    <3>4. ledger'[b].admitted = IF row.hits <= Maximum[b] THEN row.hits ELSE Maximum[b]
      BY <1>3, <1>4, <3>1, <3>3
    <3> QED BY <1>3, <1>4, <1>6, <2>0, <3>1, <3>2, <3>4
  <2> QED BY <1>3, <1>4, <2>1, <2>2
<1>15. TypeOK'
  <2>1. \A c \in Buckets : ledger'[c].began <= clock
    BY <1>13, <1>14 DEF IInv, TypeOK
  <2> QED BY <1>1, <1>10, <1>11, <1>12, <1>13, <2>1 DEF IInv, TypeOK, States, Ledgers
<1>16. NeverOver'
  <2>1. ledger'[b].admitted <= Maximum[b]
    BY <1>3, <1>5, <1>14
  <2> QED BY <1>13, <1>14, <2>1 DEF IInv, NeverOver
<1>17. LockIsCounting'
  <2> SUFFICES ASSUME NEW c \in Buckets, lock'[c] # None
               PROVE  At(lock[c], "count")' /\ Current(lock[c])' = c /\ bucket'[c] = None
    BY DEF LockIsCounting
  <2>1. lock'[c] = lock[c] /\ lock[c] \in Requests \ {p} /\ c # b
    BY <1>11 DEF IInv, TypeOK
  <2> QED BY <1>10, <1>12, <2>1 DEF IInv, LockIsCounting, At, Current
<1>18. RowMatchesLedger'
  BY <1>12, <1>13, <1>14 DEF IInv, RowMatchesLedger, Ceiling, Ends
<1>19. RunningHasRow'
  BY <1>1, <1>12, <1>13 DEF IInv, RunningHasRow, Ends
<1> QED BY <1>15, <1>16, <1>17, <1>18, <1>19 DEF IInv

LEMMA CleanupKeeps ==
  ASSUME IInv, NEW b \in Buckets, Cleanup(b)
  PROVE  IInv'
<1>1. /\ bucket' \in [Buckets -> [hits : Nat, expires : Nat] \cup {None}]
      /\ bucket'[b] = None /\ \A c \in Buckets \ {b} : bucket'[c] = bucket[c]
      /\ UNCHANGED <<clock, lock, request, ledger>>
  BY DEF Cleanup, IInv, TypeOK
<1>2. TypeOK' /\ NeverOver' /\ LockIsCounting' /\ RowMatchesLedger'
  BY <1>1 DEF IInv, TypeOK, NeverOver, LockIsCounting, At, Current, RowMatchesLedger, Ceiling, Ends
<1>3. Ends(b) <= clock + MaxSkew
  <2>1. PICK ahead \in 0..MaxSkew : bucket[b].expires <= clock + ahead
    BY DEF Cleanup
  <2>2. bucket[b].expires = Ends(b)
    BY DEF Cleanup, IInv, RowMatchesLedger
  <2>3. Ends(b) \in Int /\ clock \in Nat
    BY WindowAssumption, ClockAssumption DEF Ends, IInv, TypeOK
  <2> QED BY <2>1, <2>2, <2>3, SkewAssumption
<1>4. RunningHasRow'
  <2>1. Ends(b) \in Int /\ clock \in Nat
    BY WindowAssumption, ClockAssumption DEF Ends, IInv, TypeOK
  <2>2. ~(Ends(b) > clock + MaxSkew)
    BY <1>3, <2>1, SkewAssumption
  <2> QED BY <1>1, <2>2 DEF IInv, RunningHasRow, Ends
<1> QED BY <1>2, <1>4 DEF IInv

\* A step keeps the invariant: one step of the proof per action.
LEMMA IInvStep == ASSUME IInv, [Next]_vars PROVE IInv'
<1>1. ASSUME NEW p \in Requests, NEW plan \in Plans, Arrive(p, plan) PROVE IInv'
  BY <1>1, ArriveKeeps
<1>2. ASSUME NEW p \in Requests, Insert(p) PROVE IInv'
  BY <1>2, InsertKeeps
<1>3. ASSUME NEW p \in Requests, Count(p) PROVE IInv'
  BY <1>3, CountKeeps
<1>4. ASSUME NEW p \in Requests, CountNothing(p) PROVE IInv'
  <2> DEFINE s == [Idle EXCEPT !.pc = "error"]
  <2>1. s \in States /\ s.since = 0 /\ s.plan = <<>> /\ s.pc = "error" /\ Become(p, s)
    BY <1>4, IdleTyped DEF States, Idle, CountNothing
  <2>2. UNCHANGED <<clock, bucket, lock, ledger>> /\ \A b \in Buckets : lock[b] # p
    BY <1>4, HoldsCurrent DEF CountNothing
  <2> HIDE DEF s
  <2> QED BY <2>1, <2>2, StopKeeps
<1>5. ASSUME NEW p \in Requests, Answer(p) PROVE IInv'
  <2>1. ~At(p, "count") /\ Become(p, Idle) /\ UNCHANGED <<clock, bucket, lock, ledger>>
    BY <1>5 DEF Answer, At
  <2>2. Idle.since = 0 /\ Idle.plan = <<>> /\ Idle.pc = "idle"
    BY DEF Idle
  <2> QED BY <2>1, <2>2, IdleTyped, HoldsNothing, StopKeeps
<1>6. ASSUME NEW p \in Requests, Fail(p) PROVE IInv'
  <2>1. /\ Release(Current(p), p) /\ Become(p, Idle) /\ Current(p) \in Buckets
        /\ UNCHANGED <<clock, bucket, ledger>>
    BY <1>6, CurrentIsBucket DEF Fail, IInv
  <2>2. Idle.since = 0 /\ Idle.plan = <<>> /\ Idle.pc = "idle"
    BY DEF Idle
  <2> QED BY <2>1, <2>2, IdleTyped, StopKeeps
<1>7. ASSUME NEW b \in Buckets, Cleanup(b) PROVE IInv'
  BY <1>7, CleanupKeeps
<1>8. CASE Tick
  <2>1. clock' = clock + 1 /\ clock' \in 0..MaxClock /\ UNCHANGED <<bucket, lock, request, ledger>>
    BY <1>8, ClockAssumption DEF Tick, IInv, TypeOK
  <2>2. clock \in Nat /\ clock' >= clock
    BY <2>1, ClockAssumption DEF IInv, TypeOK
  <2>3. TypeOK'
    BY <2>1, <2>2 DEF IInv, TypeOK
  <2> QED BY <2>1, <2>2, <2>3, RowsUntouched
<1>9. CASE UNCHANGED vars
  <2>1. TypeOK' /\ clock' = clock /\ clock \in Nat
    BY <1>9, ClockAssumption DEF vars, IInv, TypeOK
  <2> QED BY <1>9, <2>1, RowsUntouched DEF vars
<1> QED BY <1>1, <1>2, <1>3, <1>4, <1>5, <1>6, <1>7, <1>8, <1>9 DEF Next

\* The invariant holds of every reachable state, for any buckets, maxima,
\* windows, plans, number of requests, length of time and skew of the clocks.
THEOREM Invariance == Spec => []IInv
<1>1. IInv /\ [Next]_vars => IInv'
  BY IInvStep
<1> QED BY InitIInv, <1>1, PTL DEF Spec

\* No window of any bucket admits more requests than its maximum, however the
\* two statements of consume() interleave with others and with the cleanup; and
\* the cleanup, whose clock may be ahead by MaxSkew, makes the next window begin
\* sooner by no more than that.
THEOREM LimitHolds == Spec => []NeverOver
<1>1. IInv => NeverOver
  BY DEF IInv
<1> QED BY Invariance, <1>1, PTL

\* Only the UPDATE turns a request that is about to count into one refused or
\* failed: a step of another request, and every other step, leaves it alone.
LEMMA Verdict ==
  ASSUME IInv, [Next]_vars, NEW p \in Requests, At(p, "count"),
         request'[p].pc \in {"rejected", "error"}
  PROVE  Count(p) \/ CountNothing(p)
<1>1. p \in Requests /\ request[p].pc = "count" /\ request \in [Requests -> States]
  BY DEF At, IInv, TypeOK, States
<1>2. ASSUME NEW q \in Requests, NEW s, Become(q, s), q # p \/ s.pc \in {"idle", "insert", "count"}
      PROVE  FALSE
  BY <1>1, <1>2 DEF Become
<1>3. ASSUME NEW q \in Requests, q # p, NEW plan \in Plans, Arrive(q, plan) PROVE FALSE
  BY <1>2, <1>3 DEF Arrive
<1>4. ASSUME NEW q \in Requests, q # p,
             Insert(q) \/ Count(q) \/ CountNothing(q) \/ Answer(q) \/ Fail(q)
      PROVE  FALSE
  BY <1>2, <1>4 DEF Insert, Count, CountNothing, Answer, Fail
<1>5. CASE Fail(p)
  BY <1>2, <1>5 DEF Fail, Idle
<1>6. CASE Insert(p) \/ Answer(p) \/ \E plan \in Plans : Arrive(p, plan)
  BY <1>1, <1>6 DEF Insert, Answer, Arrive, At
<1>7. CASE Tick \/ (\E b \in Buckets : Cleanup(b)) \/ UNCHANGED vars
  BY <1>1, <1>7 DEF Tick, Cleanup, vars
<1> QED BY <1>3, <1>4, <1>5, <1>6, <1>7 DEF Next

\* The UPDATE never fails a request, and refuses only what is over the maximum.
LEMMA CountOutcome ==
  ASSUME IInv, NEW p \in Requests, Count(p)
  PROVE  /\ request'[p].pc # "error"
         /\ request'[p].pc = "rejected" =>
               Hit(Found(p), clock, Current(p)).hits > Maximum[Current(p)]
<1> DEFINE full == Hit(Found(p), clock, Current(p)).hits > Maximum[Current(p)]
<1>1. request \in [Requests -> States]
  BY DEF IInv, TypeOK, States
<1>2. ASSUME NEW s, Become(p, s) PROVE request'[p] = s
  BY <1>1, <1>2 DEF Become
<1>3. CASE full
  <2>1. Become(p, [Idle EXCEPT !.pc = "rejected"])
    BY <1>3 DEF Count
  <2>2. request'[p].pc = "rejected"
    BY <1>2, <2>1 DEF Idle
  <2> QED BY <1>3, <2>2
<1>4. CASE ~full
  <2>1. \/ Become(p, Idle)
        \/ Become(p, [Idle EXCEPT !.pc = "insert", !.plan = Tail(request[p].plan)])
    BY <1>4 DEF Count
  <2>2. Idle.pc = "idle" /\ \A plan : [Idle EXCEPT !.pc = "insert", !.plan = plan].pc = "insert"
    BY DEF Idle
  <2>3. request'[p].pc \in {"idle", "insert"}
    BY <1>2, <2>1, <2>2
  <2> QED BY <2>3
<1> QED BY <1>3, <1>4

\* A request is turned away only while a window lasts that has admitted its
\* maximum, whatever it waited for before.
THEOREM RefusalIsRight == Spec => RejectedWhenFull
<1> DEFINE Right == \A p \in Requests :
              At(p, "count") /\ request'[p].pc = "rejected" =>
                  /\ Ends(Current(p)) > clock
                  /\ ledger[Current(p)].admitted >= Maximum[Current(p)]
<1>1. IInv /\ [Next]_vars => [Right]_vars
  <2> SUFFICES ASSUME IInv, [Next]_vars, NEW p \in Requests,
                      At(p, "count"), request'[p].pc = "rejected"
               PROVE  /\ Ends(Current(p)) > clock
                      /\ ledger[Current(p)].admitted >= Maximum[Current(p)]
    OBVIOUS
  <2> DEFINE b == Current(p)
             found == Found(p)
             row == Hit(found, clock, b)
  <2>1. b \in Buckets /\ Tail(request[p].plan) \in Seq(Buckets)
    BY CurrentIsBucket DEF IInv
  <2>2. request \in [Requests -> States]
    BY DEF IInv, TypeOK, States
  <2>3. Count(p)
    <3>1. ~CountNothing(p)
      BY <2>2 DEF CountNothing, Become, Idle
    <3> QED BY <3>1, Verdict
  <2>4. found # None /\ lock[b] \in {None, p}
    BY <2>3 DEF Count
  <2>5. row.hits > Maximum[b]
    BY <2>3, CountOutcome
  <2>6. /\ found \in [hits : Nat, expires : Nat]
        /\ lock[b] # p => found = bucket[b]
        /\ lock[b] = p => found.expires = 0
    BY <2>4, FoundIsRow DEF IInv
  <2>7. clock \in Nat /\ Maximum[b] \in Nat \ {0} /\ ledger[b].admitted \in Nat
    BY <2>1, ClockAssumption, WindowAssumption DEF IInv, TypeOK
  <2>8. /\ found.expires <= clock => row.hits = 1
        /\ found.expires > clock =>
              row.hits = IF found.hits = Maximum[b] + 2 THEN found.hits ELSE found.hits + 1
    BY <2>1, <2>6, <2>7, HitCounts
  <2> HIDE DEF b, found, row
  <2>9. found.expires > clock /\ found.hits >= Maximum[b] /\ found = bucket[b] /\ bucket[b] # None
    BY <2>4, <2>5, <2>6, <2>7, <2>8
  <2>10. /\ found.expires = Ends(b)
         /\ ledger[b].admitted = IF found.hits <= Maximum[b] THEN found.hits ELSE Maximum[b]
    BY <2>1, <2>9 DEF IInv, RowMatchesLedger
  <2>11. Ends(b) > clock /\ ledger[b].admitted >= Maximum[b]
    BY <2>6, <2>7, <2>9, <2>10
  <2> QED BY <2>11 DEF b
<1> QED BY <1>1, Invariance, PTL DEF Spec, RejectedWhenFull

\* A request that fails, because its row vanished between the two statements of
\* consume(), fails where no window is running, but for the skew of the clocks.
THEOREM FailureIsHarmless == Spec => FailsOnlyBetweenWindows
<1> DEFINE Harmless == \A p \in Requests :
              At(p, "count") /\ request'[p].pc = "error" => Ends(Current(p)) <= clock + MaxSkew
<1>1. IInv /\ [Next]_vars => [Harmless]_vars
  <2> SUFFICES ASSUME IInv, [Next]_vars, NEW p \in Requests,
                      At(p, "count"), request'[p].pc = "error"
               PROVE  Ends(Current(p)) <= clock + MaxSkew
    OBVIOUS
  <2>1. Current(p) \in Buckets /\ request \in [Requests -> States]
    BY CurrentIsBucket DEF IInv, TypeOK, States
  <2>2. CountNothing(p)
    <3>1. ~Count(p)
      BY CountOutcome
    <3> QED BY <3>1, Verdict
  <2>3. bucket[Current(p)] = None
    BY <2>2 DEF CountNothing, Found
  <2>4. clock \in Nat /\ Ends(Current(p)) \in Int
    BY <2>1, ClockAssumption, WindowAssumption DEF IInv, TypeOK, Ends
  <2>5. ~(Ends(Current(p)) > clock + MaxSkew)
    BY <2>1, <2>3 DEF IInv, RunningHasRow
  <2> QED BY <2>4, <2>5, SkewAssumption
<1> QED BY <1>1, Invariance, PTL DEF Spec, FailsOnlyBetweenWindows
==============================================================================
