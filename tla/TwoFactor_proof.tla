---------------------------- MODULE TwoFactor_proof ----------------------------
(***************************************************************************)
(* Proofs about TwoFactor: for any number of requests, secrets, sets and    *)
(* codes, whatever the order of their steps.                                *)
(***************************************************************************)
EXTENDS TwoFactor, TLAPS

\* A request that gives the account a new secret found it without a second
\* factor; one that confirms has seen a code of the secret it read.
EnrolmentReads ==
    \A p \in Requests :
        /\ At(p, "enable") => ~request[p].enabled
        /\ At(p, "confirm") => request[p].secret \in proven

\* A code is unused until it is accepted, and a set that was not given out yet
\* has no code in use.
UnusedIsFresh ==
    \A c \in Codes :
        /\ row[c] = "unused" => uses[c] = 0
        /\ c[1] > account.sets =>
              uses[c] = 0 /\ \A p \in Requests : At(p, "use") => request[p].code # c

\* A request that is about to use a code has one; it is the only one to have
\* it, and the first to use it, unless the code is tied.
UseIsFirst ==
    \A p \in Requests : At(p, "use") =>
        /\ request[p].code \in Codes
        /\ \/ request[p].code \in tied
           \/ /\ uses[request[p].code] = 0
              /\ \A q \in Requests \ {p} : At(q, "use") => request[q].code # request[p].code

IInv ==
    /\ TypeOK /\ CodesMatch /\ SecretIsProven /\ SingleUse
    /\ EnrolmentReads /\ UnusedIsFresh /\ UseIsFirst

------------------------------------------------------------------------------
LEMMA IdleTyped == Idle \in States
BY DEF Idle, States

\* A step replaces the record of one request.
LEMMA BecomeFields ==
  ASSUME TypeOK, NEW p \in Requests, NEW s \in States, Become(p, s)
  PROVE  /\ request' \in [Requests -> States] /\ request'[p] = s
         /\ \A q \in Requests \ {p} : request'[q] = request[q]
BY DEF TypeOK, Become

\* A code is a pair of its set and its number.
LEMMA CodeSet == ASSUME NEW c \in Codes PROVE c[1] \in 1..MaxSets
BY DEF Codes, Sets

LEMMA InitIInv == Init => IInv
<1> SUFFICES ASSUME Init PROVE IInv
  OBVIOUS
<1>1. /\ \A p \in Requests : request[p] = Idle
      /\ \A c \in Codes : row[c] = "none" /\ uses[c] = 0
      /\ ~account.enabled /\ account.sets = 0
  BY DEF Init
<1>2. TypeOK
  BY BoundAssumption, IdleTyped DEF Init, TypeOK
<1>3. CodesMatch /\ SecretIsProven /\ SingleUse
  BY <1>1 DEF CodesMatch, SecretIsProven, SingleUse
<1>4. EnrolmentReads /\ UnusedIsFresh /\ UseIsFirst
  BY <1>1 DEF EnrolmentReads, UnusedIsFresh, UseIsFirst, At, Idle
<1> QED BY <1>2, <1>3, <1>4 DEF IInv

\* A step of p that changes neither the codes nor their uses, and after which p
\* is not about to use one.
LEMMA CodesUntouched ==
  ASSUME IInv, NEW p \in Requests, NEW s \in States, Become(p, s), s.pc # "use",
         UNCHANGED <<row, tied, uses>>, account'.sets = account.sets,
         account'.enabled = account.enabled
  PROVE  CodesMatch' /\ SingleUse' /\ UnusedIsFresh' /\ UseIsFirst'
<1>1. /\ request'[p] = s /\ \A q \in Requests \ {p} : request'[q] = request[q]
  BY BecomeFields DEF IInv
<1>2. CodesMatch' /\ SingleUse'
  BY DEF IInv, CodesMatch, SingleUse
<1>3. UnusedIsFresh' /\ UseIsFirst'
  BY <1>1 DEF IInv, UnusedIsFresh, UseIsFirst, At
<1> QED BY <1>2, <1>3

\* A step of p that changes nothing but its record.
LEMMA RecordOnly ==
  ASSUME IInv, NEW p \in Requests, NEW s \in States, Become(p, s), s.pc # "use",
         UNCHANGED <<account, row, tied, uses, raced>>, proven \subseteq proven',
         s.pc = "enable" => ~s.enabled, s.pc = "confirm" => s.secret \in proven'
  PROVE  IInv'
<1>1. /\ request' \in [Requests -> States] /\ request'[p] = s
      /\ \A q \in Requests \ {p} : request'[q] = request[q]
  BY BecomeFields DEF IInv
<1>2. TypeOK'
  BY <1>1 DEF IInv, TypeOK
<1>3. CodesMatch' /\ SingleUse' /\ UnusedIsFresh' /\ UseIsFirst'
  BY CodesUntouched
<1>4. SecretIsProven' /\ EnrolmentReads'
  BY <1>1 DEF IInv, SecretIsProven, EnrolmentReads, At
<1> QED BY <1>2, <1>3, <1>4 DEF IInv

LEMMA EnableKeeps == ASSUME IInv, NEW p \in Requests, Enable(p) PROVE IInv'
<1> DEFINE secret == account.secrets + 1
<1>1. /\ At(p, "enable") /\ secret \in Secrets
      /\ account' = [account EXCEPT !.secret = secret, !.secrets = secret]
      /\ raced' = IF account.enabled # request[p].enabled THEN raced \cup {secret} ELSE raced
      /\ Become(p, Idle) /\ UNCHANGED <<row, proven, tied, uses>>
  BY DEF Enable
<1>2. /\ request' \in [Requests -> States] /\ request'[p] = Idle
      /\ \A q \in Requests \ {p} : request'[q] = request[q]
  BY <1>1, IdleTyped, BecomeFields DEF IInv
<1>3. /\ account' \in [enabled : BOOLEAN, secret : Secrets \cup {None},
                       secrets : 0..MaxSecrets, sets : 0..MaxSets]
      /\ account'.secret = secret /\ account'.enabled = account.enabled
      /\ account'.sets = account.sets
  <2>1. /\ account \in [enabled : BOOLEAN, secret : Secrets \cup {None},
                        secrets : 0..MaxSecrets, sets : 0..MaxSets]
        /\ secret \in Secrets /\ secret \in 0..MaxSecrets
    BY <1>1, BoundAssumption DEF IInv, TypeOK, Secrets
  <2> HIDE DEF secret
  <2> QED BY <1>1, <2>1
<1>4. TypeOK'
  BY <1>1, <1>2, <1>3 DEF IInv, TypeOK
<1>5. CodesMatch' /\ SingleUse' /\ UnusedIsFresh' /\ UseIsFirst'
  BY <1>1, <1>3, IdleTyped, CodesUntouched DEF Idle
<1>6. EnrolmentReads'
  BY <1>1, <1>2 DEF IInv, EnrolmentReads, At, Idle
\* What p read is that there was no second factor: if there is one now, the
\* secret counts as raced.
<1>7. SecretIsProven'
  <2>1. ~request[p].enabled
    BY <1>1 DEF IInv, EnrolmentReads
  <2>2. account.enabled => secret \in raced'
    <3>1. account.enabled => account.enabled # request[p].enabled
      BY <2>1
    <3> QED BY <1>1, <3>1
  <2> QED BY <1>3, <2>2 DEF SecretIsProven
<1> QED BY <1>4, <1>5, <1>6, <1>7 DEF IInv

LEMMA ConfirmKeeps == ASSUME IInv, NEW p \in Requests, Confirm(p) PROVE IInv'
<1> DEFINE set == account.sets + 1
<1>1. /\ At(p, "confirm") /\ set \in Sets
      /\ account' = [account EXCEPT !.enabled = TRUE, !.sets = set]
      /\ row' = [c \in Codes |-> IF c[1] = set THEN "unused" ELSE "none"]
      /\ raced' = IF account.secret # request[p].secret THEN raced \cup {account.secret} ELSE raced
      /\ Become(p, Idle) /\ UNCHANGED <<proven, tied, uses>>
  BY DEF Confirm
<1>2. /\ request' \in [Requests -> States] /\ request'[p] = Idle
      /\ \A q \in Requests \ {p} : request'[q] = request[q]
  BY <1>1, IdleTyped, BecomeFields DEF IInv
<1>3. /\ account' \in [enabled : BOOLEAN, secret : Secrets \cup {None},
                       secrets : 0..MaxSecrets, sets : 0..MaxSets]
      /\ account'.secret = account.secret /\ account'.enabled /\ account'.sets = set
      /\ account.sets \in Nat
  <2>1. /\ account \in [enabled : BOOLEAN, secret : Secrets \cup {None},
                        secrets : 0..MaxSecrets, sets : 0..MaxSets]
        /\ set \in 0..MaxSets /\ account.sets \in Nat
    BY <1>1, BoundAssumption DEF IInv, TypeOK, Sets
  <2> HIDE DEF set
  <2> QED BY <1>1, <2>1
<1>4. /\ row' \in [Codes -> {"none", "unused", "used"}]
      /\ \A c \in Codes : row'[c] = IF c[1] = set THEN "unused" ELSE "none"
  BY <1>1
<1> HIDE DEF set
<1>5. TypeOK'
  BY <1>1, <1>2, <1>3, <1>4 DEF IInv, TypeOK
<1>6. CodesMatch' /\ SingleUse'
  BY <1>1, <1>3, <1>4 DEF IInv, CodesMatch, SingleUse
\* The codes of the new set were never accepted.
<1>7. UnusedIsFresh'
  <2> SUFFICES ASSUME NEW c \in Codes
               PROVE  /\ row'[c] = "unused" => uses'[c] = 0
                      /\ c[1] > account'.sets =>
                            /\ uses'[c] = 0
                            /\ \A q \in Requests : At(q, "use")' => request'[q].code # c
    BY DEF UnusedIsFresh
  <2>1. c[1] \in Nat
    BY CodeSet, BoundAssumption
  <2>2. c[1] >= set => /\ uses[c] = 0
                       /\ \A q \in Requests : At(q, "use") => request[q].code # c
    BY <1>3, <2>1 DEF IInv, UnusedIsFresh, set
  <2>3. set \in Nat
    BY <1>3 DEF set
  <2> QED BY <1>1, <1>2, <1>3, <1>4, <2>1, <2>2, <2>3 DEF At, Idle
<1>8. UseIsFirst' /\ EnrolmentReads'
  BY <1>1, <1>2 DEF IInv, UseIsFirst, EnrolmentReads, At, Idle
<1>9. SecretIsProven'
  <2>1. request[p].secret \in proven
    BY <1>1 DEF IInv, EnrolmentReads
  <2> QED BY <1>1, <1>3, <2>1 DEF SecretIsProven
<1> QED BY <1>5, <1>6, <1>7, <1>8, <1>9 DEF IInv

LEMMA LookKeeps ==
  ASSUME IInv, NEW p \in Requests, NEW c \in Codes, Look(p, c)
  PROVE  IInv'
<1> DEFINE s == [request[p] EXCEPT !.pc = "use", !.code = c]
<1>1. /\ At(p, "look") /\ row[c] = "unused" /\ Become(p, s)
      /\ tied' = IF \E q \in Requests : At(q, "use") /\ request[q].code = c
                 THEN tied \cup {c} ELSE tied
      /\ UNCHANGED <<account, row, proven, raced, uses>>
  BY DEF Look
<1>2. s \in States /\ s.pc = "use" /\ s.code = c
  BY DEF IInv, TypeOK, States
<1> HIDE DEF s
<1>3. /\ request' \in [Requests -> States] /\ request'[p] = s
      /\ \A q \in Requests \ {p} : request'[q] = request[q]
  BY <1>1, <1>2, BecomeFields DEF IInv
<1>4. TypeOK' /\ CodesMatch' /\ SecretIsProven'
  BY <1>1, <1>3 DEF IInv, TypeOK, CodesMatch, SecretIsProven
<1>5. SingleUse' /\ tied \subseteq tied'
  BY <1>1 DEF IInv, SingleUse
<1>6. EnrolmentReads'
  BY <1>1, <1>2, <1>3 DEF IInv, EnrolmentReads, At
<1>7. uses[c] = 0
  BY <1>1 DEF IInv, UnusedIsFresh
\* A code that exists is not of a set still to come.
<1>8. UnusedIsFresh'
  <2>1. ~(c[1] > account.sets)
    <3>1. c[1] = account.sets /\ account.sets \in 0..MaxSets
      BY <1>1 DEF IInv, CodesMatch, TypeOK
    <3> QED BY <3>1, BoundAssumption
  <2> QED BY <1>1, <1>2, <1>3, <2>1 DEF IInv, UnusedIsFresh, At
<1>9. UseIsFirst'
  <2> SUFFICES ASSUME NEW q \in Requests, At(q, "use")'
               PROVE  /\ request'[q].code \in Codes
                      /\ \/ request'[q].code \in tied'
                         \/ /\ uses'[request'[q].code] = 0
                            /\ \A r \in Requests \ {q} :
                                  At(r, "use")' => request'[r].code # request'[q].code
    BY DEF UseIsFirst
  <2>1. CASE \E r \in Requests : At(r, "use") /\ request[r].code = c
    <3>1. c \in tied'
      BY <1>1, <2>1
    <3> QED BY <1>1, <1>2, <1>3, <1>5, <3>1 DEF IInv, UseIsFirst, At
  <2>2. CASE ~\E r \in Requests : At(r, "use") /\ request[r].code = c
    BY <1>1, <1>2, <1>3, <1>5, <1>7, <2>2 DEF IInv, UseIsFirst, At
  <2> QED BY <2>1, <2>2
<1> QED BY <1>4, <1>5, <1>6, <1>8, <1>9 DEF IInv

\* A code that is still there is accepted.
LEMMA UseKeeps ==
  ASSUME IInv, NEW p \in Requests, At(p, "use"), row[request[p].code] # "none",
         row' = [row EXCEPT ![request[p].code] = "used"],
         uses' = [uses EXCEPT ![request[p].code] = @ + 1],
         NEW s \in States, Become(p, s), s.pc \in {"idle", "disable"},
         UNCHANGED <<account, proven, raced, tied>>
  PROVE  IInv'
<1> DEFINE c == request[p].code
<1>1. /\ request' \in [Requests -> States] /\ request'[p] = s
      /\ \A q \in Requests \ {p} : request'[q] = request[q]
  BY BecomeFields DEF IInv
<1>2. /\ c \in Codes
      /\ \/ c \in tied
         \/ /\ uses[c] = 0
            /\ \A q \in Requests \ {p} : At(q, "use") => request[q].code # c
  BY DEF IInv, UseIsFirst
<1>3. /\ row' \in [Codes -> {"none", "unused", "used"}] /\ row'[c] = "used"
      /\ \A d \in Codes \ {c} : row'[d] = row[d]
      /\ uses' \in [Codes -> Nat] /\ uses'[c] = uses[c] + 1
      /\ \A d \in Codes \ {c} : uses'[d] = uses[d]
  BY <1>2 DEF IInv, TypeOK
<1>4. row[c] # "none"
  OBVIOUS
<1> HIDE DEF c
<1>5. TypeOK' /\ SecretIsProven' /\ EnrolmentReads'
  BY <1>1, <1>3 DEF IInv, TypeOK, SecretIsProven, EnrolmentReads, At
<1>6. CodesMatch'
  BY <1>2, <1>3, <1>4 DEF IInv, CodesMatch
<1>7. SingleUse'
  BY <1>2, <1>3 DEF IInv, SingleUse
<1>8. UnusedIsFresh'
  <2>1. ~(c[1] > account.sets)
    <3>1. c[1] = account.sets /\ account.sets \in 0..MaxSets
      BY <1>2, <1>4 DEF IInv, CodesMatch, TypeOK
    <3> QED BY <3>1, BoundAssumption
  <2> QED BY <1>1, <1>3, <2>1 DEF IInv, UnusedIsFresh, At
<1>9. UseIsFirst'
  <2> SUFFICES ASSUME NEW q \in Requests \ {p}, At(q, "use")'
               PROVE  /\ request'[q].code \in Codes
                      /\ \/ request'[q].code \in tied'
                         \/ /\ uses'[request'[q].code] = 0
                            /\ \A r \in Requests \ {q} :
                                  At(r, "use")' => request'[r].code # request'[q].code
    BY <1>1 DEF UseIsFirst, At
  <2>1. At(q, "use") /\ request'[q] = request[q]
    BY <1>1 DEF At
  <2>2. /\ request[q].code \in Codes
        /\ \/ request[q].code \in tied
           \/ /\ uses[request[q].code] = 0
              /\ \A r \in Requests \ {q} : At(r, "use") => request[r].code # request[q].code
    BY <2>1 DEF IInv, UseIsFirst
  <2>3. request[q].code = c => c \in tied
    BY <1>2, <2>1
  <2> QED BY <1>1, <1>3, <2>1, <2>2, <2>3 DEF At
<1> QED BY <1>5, <1>6, <1>7, <1>8, <1>9 DEF IInv

LEMMA DisableKeeps == ASSUME IInv, NEW p \in Requests, Disable(p) PROVE IInv'
<1>1. /\ account' = [account EXCEPT !.enabled = FALSE, !.secret = None]
      /\ row' = [c \in Codes |-> "none"] /\ Become(p, Idle)
      /\ UNCHANGED <<proven, raced, tied, uses>>
  BY DEF Disable
<1>2. /\ request' \in [Requests -> States] /\ request'[p] = Idle
      /\ \A q \in Requests \ {p} : request'[q] = request[q]
  BY <1>1, IdleTyped, BecomeFields DEF IInv
<1>3. /\ account' \in [enabled : BOOLEAN, secret : Secrets \cup {None},
                       secrets : 0..MaxSecrets, sets : 0..MaxSets]
      /\ ~account'.enabled /\ account'.sets = account.sets
  BY <1>1 DEF IInv, TypeOK
<1>4. row' \in [Codes -> {"none", "unused", "used"}] /\ \A c \in Codes : row'[c] = "none"
  BY <1>1
<1>5. TypeOK' /\ CodesMatch' /\ SecretIsProven' /\ SingleUse'
  BY <1>1, <1>2, <1>3, <1>4 DEF IInv, TypeOK, CodesMatch, SecretIsProven, SingleUse
<1>6. EnrolmentReads' /\ UnusedIsFresh' /\ UseIsFirst'
  BY <1>1, <1>2, <1>3, <1>4 DEF IInv, EnrolmentReads, UnusedIsFresh, UseIsFirst, At, Idle
<1> QED BY <1>5, <1>6 DEF IInv

\* A step keeps the invariant: one step of the proof per action.
LEMMA IInvStep == ASSUME IInv, [Next]_vars PROVE IInv'
<1>1. ASSUME NEW p \in Requests, AskEnable(p) PROVE IInv'
  <2> DEFINE s == [Idle EXCEPT !.pc = "enable", !.enabled = account.enabled]
  <2>1. s \in States /\ s.pc = "enable" /\ ~s.enabled
    BY <1>1 DEF AskEnable, IInv, TypeOK, States, Idle
  <2>2. Become(p, s) /\ UNCHANGED <<account, row, proven, raced, tied, uses>>
    BY <1>1 DEF AskEnable
  <2> HIDE DEF s
  <2> QED BY <2>1, <2>2, RecordOnly
<1>2. ASSUME NEW p \in Requests, Enable(p) PROVE IInv'
  BY <1>2, EnableKeeps
<1>3. ASSUME NEW p \in Requests, AskConfirm(p) PROVE IInv'
  <2> DEFINE s == [Idle EXCEPT !.pc = "confirm", !.secret = account.secret]
  <2>1. s \in States /\ s.pc = "confirm" /\ s.secret = account.secret
    BY DEF IInv, TypeOK, States, Idle
  <2>2. /\ Become(p, s) /\ UNCHANGED <<account, row, raced, tied, uses>>
        /\ proven' = proven \cup {account.secret}
    BY <1>3 DEF AskConfirm
  <2> HIDE DEF s
  <2> QED BY <2>1, <2>2, RecordOnly
<1>4. ASSUME NEW p \in Requests, Confirm(p) PROVE IInv'
  BY <1>4, ConfirmKeeps
<1>5. ASSUME NEW p \in Requests, NEW aim \in {"sign in", "disable"}, Begin(p, aim) PROVE IInv'
  <2>1. \E s \in States : s.pc \in {"look", "disable"} /\ Become(p, s)
    <3>1. /\ [Idle EXCEPT !.pc = "look", !.aim = aim] \in States
          /\ [Idle EXCEPT !.pc = "disable"] \in States
          /\ [Idle EXCEPT !.pc = "look", !.aim = aim].pc = "look"
          /\ [Idle EXCEPT !.pc = "disable"].pc = "disable"
      BY DEF Idle, States
    <3> QED BY <1>5, <3>1 DEF Begin
  <2> QED BY <1>5, <2>1, RecordOnly DEF Begin
<1>6. ASSUME NEW p \in Requests, NEW c \in Codes, Look(p, c) PROVE IInv'
  BY <1>6, LookKeeps
<1>7. ASSUME NEW p \in Requests, UseCode(p) PROVE IInv'
  <2>1. [Idle EXCEPT !.pc = "disable"] \in States /\ [Idle EXCEPT !.pc = "disable"].pc = "disable"
    BY DEF Idle, States
  <2>2. Idle \in States /\ Idle.pc = "idle"
    BY IdleTyped DEF Idle
  <2>3. CASE row[request[p].code] # "none"
    BY <1>7, <2>1, <2>2, <2>3, UseKeeps DEF UseCode
  <2>4. CASE row[request[p].code] = "none"
    BY <1>7, <2>2, <2>4, RecordOnly DEF UseCode
  <2> QED BY <2>3, <2>4
<1>8. ASSUME NEW p \in Requests, Disable(p) PROVE IInv'
  BY <1>8, DisableKeeps
<1>9. ASSUME NEW p \in Requests, Fail(p) PROVE IInv'
  BY <1>9, IdleTyped, RecordOnly DEF Fail, Idle
<1>10. CASE UNCHANGED vars
  <2>1. TypeOK' /\ CodesMatch' /\ SecretIsProven' /\ SingleUse'
    BY <1>10 DEF vars, IInv, TypeOK, CodesMatch, SecretIsProven, SingleUse
  <2>2. EnrolmentReads' /\ UnusedIsFresh' /\ UseIsFirst'
    BY <1>10 DEF vars, IInv, EnrolmentReads, UnusedIsFresh, UseIsFirst, At
  <2> QED BY <2>1, <2>2 DEF IInv
<1> QED
  BY <1>1, <1>2, <1>3, <1>4, <1>5, <1>6, <1>7, <1>8, <1>9, <1>10 DEF Next

\* The invariant holds of every reachable state.
THEOREM Invariance == Spec => []IInv
<1>1. IInv /\ [Next]_vars => IInv'
  BY IInvStep
<1> QED BY InitIInv, <1>1, PTL DEF Spec

\* The backup codes that exist are those of the last confirmation, while the
\* second factor is on, for any overlap of confirm_2fa, disable_2fa and sign-ins.
THEOREM CodesAreCurrent == Spec => []CodesMatch
<1>1. IInv => CodesMatch
  BY DEF IInv
<1> QED BY Invariance, <1>1, PTL

\* The second factor is on only with a secret its owner has proven, but for the
\* races that SecretIsProven names.
THEOREM SecretWasShown == Spec => []SecretIsProven
<1>1. IInv => SecretIsProven
  BY DEF IInv
<1> QED BY Invariance, <1>1, PTL

\* A backup code is accepted once unless two requests had looked it up at the
\* same time.
THEOREM CodesAreUsedOnce == Spec => []SingleUse
<1>1. IInv => SingleUse
  BY DEF IInv
<1> QED BY Invariance, <1>1, PTL
===============================================================================
