-------------------------- MODULE AuthSessions_proof --------------------------
(***************************************************************************)
(* Proofs about AuthSessions: for any number of requests, sessions, links,  *)
(* sign-outs and rotations, in every order of their steps.                  *)
(***************************************************************************)
EXTENDS AuthSessions, FiniteSetTheorems, TLAPS

\* The types, as functions of the number of sign-outs so far.
States(e) ==
    [pc : PCs, op : Ops, sid : Sessions \cup {None}, version : 0..e, token : 0..MaxRotations,
     link : Links \cup {None}, epoch : 0..e]

SessionRows(e) ==
    [status : {"none", "open", "expired", "revoked", "deleted"},
     version : 0..e, token : 0..MaxRotations, epoch : 0..e]

DataTyped ==
    /\ account \in [exists : BOOLEAN, version : 0..epoch]
    /\ session \in [Sessions -> SessionRows(epoch)]
    /\ link \in [Links -> {"unsent", "sent", "used", "deleted"}]
    /\ changes \in 0..MaxChanges /\ epoch \in Nat /\ lost \in BOOLEAN
    /\ spent \subseteq (Sessions \X (0..MaxRotations)) \cup Links

ControlTyped ==
    lock \in [Rows -> Requests \cup {None}] /\ request \in [Requests -> States(epoch)]

\* The types of the tables and those of the requests, which most steps treat apart.
LEMMA TypeSplit == TypeOK <=> DataTyped /\ ControlTyped /\ epoch <= changes
<1>1. changes \in 0..MaxChanges => (epoch \in 0..changes <=> epoch \in Nat /\ epoch <= changes)
  BY BoundAssumption
<1> QED BY <1>1 DEF TypeOK, DataTyped, ControlTyped, States, SessionRows

LEMMA TypeSplitNext == TypeOK' <=> DataTyped' /\ ControlTyped' /\ epoch' <= changes'
<1>1. changes' \in 0..MaxChanges =>
         (epoch' \in 0..changes' <=> epoch' \in Nat /\ epoch' <= changes')
  BY BoundAssumption
<1> QED BY <1>1 DEF TypeOK, DataTyped, ControlTyped, States, SessionRows

LEMMA IdleTyped == ASSUME NEW e \in Nat PROVE Idle \in States(e)
BY BoundAssumption DEF Idle, States, PCs, Ops

\* The types only grow.
LEMMA TypesGrow ==
  ASSUME NEW e \in Nat
  PROVE  States(e) \subseteq States(e + 1) /\ SessionRows(e) \subseteq SessionRows(e + 1)
<1>1. 0..e \subseteq 0..(e + 1)
  OBVIOUS
<1> QED BY <1>1 DEF States, SessionRows

LEMMA BecomeFields ==
  ASSUME TypeOK, NEW p \in Requests, NEW s \in States(epoch), Become(p, s)
  PROVE  /\ request' \in [Requests -> States(epoch)] /\ request'[p] = s
         /\ \A q \in Requests \ {p} : request'[q] = request[q]
BY TypeSplit DEF ControlTyped, Become

LEMMA RequestTyped ==
  ASSUME IInv, NEW p \in Requests
  PROVE  /\ request[p] \in States(epoch) /\ epoch \in Nat /\ changes \in Nat
         /\ lock \in [Rows -> Requests \cup {None}]
BY TypeSplit, BoundAssumption DEF IInv, DataTyped, ControlTyped

\* The end of a transaction gives up the locks of its request and no other.
LEMMA UnlockFields ==
  ASSUME TypeOK, NEW p \in Requests, Unlock(p)
  PROVE  /\ lock' \in [Rows -> Requests \cup {None}]
         /\ \A r \in Rows : lock[r] \in Requests \ {p} => lock'[r] = lock[r]
BY TypeSplit DEF ControlTyped, Unlock

\* Locking rows that are free takes them from nobody.
LEMMA LockFields ==
  ASSUME TypeOK, NEW p \in Requests, NEW rows \in SUBSET Rows, Free(p, rows), Lock(p, rows)
  PROVE  /\ lock' \in [Rows -> Requests \cup {None}]
         /\ \A r \in Rows : lock[r] \in Requests \ {p} => lock'[r] = lock[r]
         /\ \A r \in rows : lock'[r] = p
         /\ \A r \in Rows \ rows : lock'[r] = lock[r]
BY TypeSplit, RowAssumption DEF ControlTyped, Lock, Free

------------------------------------------------------------------------------
\* Sets of requests can be counted.
LEMMA ChangersFinite ==
  ASSUME NEW S, S \subseteq Requests
  PROVE  IsFiniteSet(S) /\ Cardinality(S) \in Nat
<1>1. IsFiniteSet(S)
  BY RequestAssumption, FS_Subset
<1> QED BY <1>1, FS_CardinalityType

\* A smaller set of requests counts less.
LEMMA FewerChangers ==
  ASSUME NEW S, NEW T, S \subseteq Requests, T \subseteq S
  PROVE  /\ Cardinality(T) <= Cardinality(S)
         /\ \A p \in S \ T : Cardinality(T) + 1 <= Cardinality(S)
<1>1. IsFiniteSet(S) /\ Cardinality(S) \in Nat /\ Cardinality(T) \in Nat
  BY ChangersFinite
<1>2. Cardinality(T) <= Cardinality(S)
  BY <1>1, FS_Subset
<1>3. ASSUME NEW p \in S \ T PROVE Cardinality(T) + 1 <= Cardinality(S)
  <2>1. T \in SUBSET (S \ {p}) /\ IsFiniteSet(S \ {p}) /\ Cardinality(S \ {p}) = Cardinality(S) - 1
    BY <1>1, <1>3, FS_RemoveElement
  <2>2. Cardinality(T) <= Cardinality(S \ {p})
    BY <2>1, FS_Subset
  <2> QED BY <1>1, <2>1, <2>2
<1> QED BY <1>2, <1>3

\* One more request counts at most one more.
LEMMA OneMoreChanger ==
  ASSUME NEW S, NEW T, NEW p \in Requests, S \subseteq Requests, T \subseteq S \cup {p}
  PROVE  Cardinality(T) <= Cardinality(S) + 1
<1>1. IsFiniteSet(S) /\ Cardinality(S) \in Nat /\ Cardinality(T) \in Nat
  BY ChangersFinite
<1>2. /\ IsFiniteSet(S \cup {p})
      /\ Cardinality(S \cup {p}) = IF p \in S THEN Cardinality(S) ELSE Cardinality(S) + 1
  BY <1>1, FS_AddElement
<1>3. Cardinality(T) <= Cardinality(S \cup {p})
  BY <1>2, FS_Subset
<1> QED BY <1>1, <1>2, <1>3

------------------------------------------------------------------------------
\* Some requests go on and the others are over; what the former hold and what a
\* sign-in among them is to insert is as it was.
LEMMA OthersGoOn ==
  ASSUME IInv, NEW Q \in SUBSET Requests,
         request' \in [Requests -> States(epoch')],
         \A q \in Q : request'[q] = request[q],
         \A q \in Requests \ Q : request'[q] = Idle,
         lock' \in [Rows -> Requests \cup {None}],
         \A r \in Rows : lock[r] \in Q => lock'[r] = lock[r],
         DataTyped', changes' = changes,
         \/ epoch' = epoch
         \/ epoch' = epoch + 1 /\ \E p \in Requests \ Q : request[p].op \in Changing,
         \A s \in Sessions : session'[s].status = "none" => session'[s] = session[s],
         \A s \in Sessions : session[s].status = "none" =>
            session'[s] = session[s] \/ \E p \in Requests \ Q : request[p].sid = s,
         \A s \in Sessions : lock[s] \in Q /\ session[s].status \in {"open", "expired"} =>
            session'[s].status \in {"open", "expired"} /\ session'[s].token = session[s].token,
         \A l \in Links : lock[l] \in Q /\ link[l] = "sent" => link'[l] = "sent",
         lock[Account] \in Q /\ account.exists => account'.exists
  PROVE  TypeOK' /\ OpsFit' /\ RowsAreHeld' /\ InsertsAreNew' /\ ChangesAreCounted'
<1>1. /\ \A q \in Requests : request[q] \in States(epoch)
      /\ epoch \in Nat /\ changes \in Nat /\ lock \in [Rows -> Requests \cup {None}]
  BY TypeSplit, BoundAssumption DEF IInv, DataTyped, ControlTyped
<1>2. Idle.pc = "idle" /\ Idle.op = "none" /\ Idle.sid = None
  BY DEF Idle
<1>3. ChangesAreCounted'
  <2>1. Changers' \subseteq Changers /\ \A p \in Requests \ Q : p \notin Changers'
    BY <1>2 DEF Changers, Changing
  <2>2. /\ Changers \subseteq Requests /\ Cardinality(Changers) + epoch <= changes
        /\ Cardinality(Changers) \in Nat /\ Cardinality(Changers') \in Nat
    BY <2>1, ChangersFinite DEF IInv, ChangesAreCounted, Changers
  <2>3. /\ Cardinality(Changers') <= Cardinality(Changers)
        /\ epoch' = epoch + 1 => Cardinality(Changers') + 1 <= Cardinality(Changers)
    <3>1. epoch' = epoch + 1 => \E p \in Changers : p \notin Changers'
      BY <1>1, <2>1 DEF Changers
    <3> QED BY <2>1, <2>2, <3>1, FewerChangers
  <2> QED BY <1>1, <2>2, <2>3 DEF ChangesAreCounted
<1>4. TypeOK'
  <2>1. Cardinality(Changers') \in Nat
    BY ChangersFinite DEF Changers
  <2>2. epoch' <= changes'
    BY <1>1, <1>3, <2>1 DEF ChangesAreCounted
  <2> QED BY <2>2, TypeSplitNext DEF ControlTyped
<1>5. OpsFit'
  BY <1>2 DEF IInv, OpsFit, At
<1>6. RowsAreHeld'
  <2> SUFFICES ASSUME NEW q \in Requests
      PROVE  LET r == request'[q] IN
             /\ r.pc = "rotate" =>
                   /\ r.sid \in Sessions /\ lock'[r.sid] = q
                   /\ session'[r.sid].status \in {"open", "expired"}
                   /\ session'[r.sid].token = r.token /\ r.token < MaxRotations
             /\ r.pc \in {"bump", "signout"} /\ r.link # None =>
                   lock'[r.link] = q /\ link'[r.link] = "sent"
             /\ r.pc = "signout" => lock'[Account] = q /\ account'.exists
    BY DEF RowsAreHeld, At
  <2>1. CASE q \notin Q
    BY <1>2, <2>1
  <2>2. CASE q \in Q
    <3>1. request[q].link \in Links \cup {None} /\ Account \in Rows
      BY <1>1 DEF States, Rows
    <3>2. request[q].pc = "rotate" =>
             /\ request[q].sid \in Sessions /\ lock[request[q].sid] = q
             /\ session[request[q].sid].status \in {"open", "expired"}
             /\ session[request[q].sid].token = request[q].token
             /\ request[q].token < MaxRotations
      BY DEF IInv, RowsAreHeld, At
    <3>3. /\ request[q].pc \in {"bump", "signout"} /\ request[q].link # None =>
                lock[request[q].link] = q /\ link[request[q].link] = "sent"
          /\ request[q].pc = "signout" => lock[Account] = q /\ account.exists
      BY DEF IInv, RowsAreHeld, At
    <3>4. Sessions \subseteq Rows /\ Links \subseteq Rows
      BY DEF Rows
    <3> QED BY <2>2, <3>1, <3>2, <3>3, <3>4
  <2> QED BY <2>1, <2>2
<1>7. InsertsAreNew'
  <2>1. ASSUME NEW q \in Requests, request'[q].pc \in {"reload", "issue"}
        PROVE  /\ request'[q].sid \in Sessions /\ session'[request'[q].sid].status = "none"
               /\ \A p \in Requests \ {q} : request'[p].sid # request'[q].sid
    <3>1. q \in Q /\ request'[q] = request[q]
      BY <1>2, <2>1
    <3>2. /\ request[q].sid \in Sessions /\ session[request[q].sid].status = "none"
          /\ \A p \in Requests \ {q} : request[p].sid # request[q].sid
      BY <2>1, <3>1 DEF IInv, InsertsAreNew, SigningIn
    <3>3. session'[request[q].sid] = session[request[q].sid]
      BY <3>1, <3>2
    <3>4. \A p \in Requests \ {q} : request'[p].sid # request[q].sid
      BY <1>2, <3>2, RowAssumption DEF Rows
    <3> QED BY <3>1, <3>2, <3>3, <3>4
  <2>2. \A s \in Sessions : session'[s].status = "none" => session'[s].token = 0
    BY DEF IInv, InsertsAreNew
  <2> QED BY <2>1, <2>2 DEF InsertsAreNew, SigningIn
<1> QED BY <1>3, <1>4, <1>5, <1>6, <1>7

\* A request goes from one statement to the next and writes nothing but locks.
LEMMA GoesOn ==
  ASSUME IInv, NEW p \in Requests, NEW s \in States(epoch), Become(p, s),
         UNCHANGED <<account, session, link, epoch, lost, spent>>,
         changes' \in 0..MaxChanges, changes' >= changes,
         s.op \in Changing => request[p].op \in Changing \/ changes' = changes + 1,
         lock' \in [Rows -> Requests \cup {None}],
         \A r \in Rows : lock[r] \in Requests \ {p} => lock'[r] = lock[r],
         s.pc = "authenticate" =>
            /\ s.op \in {"revoke", "delete", "logout-all", "change"}
            /\ s.sid \in Sessions /\ s.link = None,
         s.pc \in {"bump", "signout"} =>
            /\ s.op \in Changing /\ (s.op = "reset" <=> s.link # None)
            /\ s.op = "change" => s.sid \in Sessions,
         s.pc = "rotate" =>
            /\ s.sid \in Sessions /\ lock'[s.sid] = p
            /\ session[s.sid].status \in {"open", "expired"}
            /\ session[s.sid].token = s.token /\ s.token < MaxRotations,
         s.pc \in {"bump", "signout"} /\ s.link # None =>
            lock'[s.link] = p /\ link[s.link] = "sent",
         s.pc = "signout" => lock'[Account] = p /\ account.exists,
         s.pc \in {"reload", "issue"} =>
            /\ s.sid \in Sessions /\ session[s.sid].status = "none"
            /\ \A q \in Requests \ {p} : request[q].sid # s.sid,
         s.pc = "issue" /\ ~lost => s.version = s.epoch,
         s.sid \in {None, request[p].sid} \/
            ~\E q \in Requests \ {p} : SigningIn(q) /\ request[q].sid = s.sid
  PROVE  IInv'
<1>1. /\ request' \in [Requests -> States(epoch)] /\ request'[p] = s
      /\ \A q \in Requests \ {p} : request'[q] = request[q]
  BY BecomeFields DEF IInv
<1>2. /\ \A q \in Requests : request[q] \in States(epoch)
      /\ epoch \in Nat /\ changes \in Nat /\ lock \in [Rows -> Requests \cup {None}]
  BY TypeSplit, BoundAssumption DEF IInv, DataTyped, ControlTyped
<1>3. ChangesAreCounted'
  <2>1. /\ Changers \subseteq Requests /\ Cardinality(Changers) + epoch <= changes
        /\ Cardinality(Changers) \in Nat /\ Cardinality(Changers') \in Nat
    BY ChangersFinite DEF IInv, ChangesAreCounted, Changers
  <2>2. CASE s.op \in Changing /\ request[p].op \notin Changing
    <3>1. Changers' \subseteq Changers \cup {p} /\ changes' = changes + 1
      BY <1>1, <2>2 DEF Changers, Changing
    <3>2. Cardinality(Changers') <= Cardinality(Changers) + 1
      BY <2>1, <3>1, OneMoreChanger
    <3> QED BY <1>2, <2>1, <3>1, <3>2 DEF ChangesAreCounted
  <2>3. CASE ~(s.op \in Changing /\ request[p].op \notin Changing)
    <3>1. Changers' \subseteq Changers
      BY <1>1, <2>3 DEF Changers, Changing
    <3>2. Cardinality(Changers') <= Cardinality(Changers)
      BY <2>1, <3>1, FewerChangers
    <3> QED BY <1>2, <2>1, <3>2 DEF ChangesAreCounted
  <2> QED BY <2>2, <2>3
<1>4. TypeOK'
  <2>1. DataTyped'
    BY TypeSplit DEF IInv, DataTyped
  <2>2. epoch <= changes
    BY TypeSplit DEF IInv
  <2> QED BY <1>1, <1>2, <2>1, <2>2, TypeSplitNext DEF ControlTyped
<1>5. OpsFit'
  <2> SUFFICES ASSUME NEW q \in Requests
      PROVE  LET r == request'[q] IN
             /\ r.pc = "authenticate" =>
                   /\ r.op \in {"revoke", "delete", "logout-all", "change"}
                   /\ r.sid \in Sessions /\ r.link = None
             /\ r.pc \in {"bump", "signout"} =>
                   /\ r.op \in Changing /\ (r.op = "reset" <=> r.link # None)
                   /\ r.op = "change" => r.sid \in Sessions
    BY DEF OpsFit, At
  <2>1. CASE q = p
    BY <1>1, <2>1
  <2>2. CASE q # p
    BY <1>1, <2>2 DEF IInv, OpsFit, At
  <2> QED BY <2>1, <2>2
<1>6. RowsAreHeld'
  <2> SUFFICES ASSUME NEW q \in Requests
      PROVE  LET r == request'[q] IN
             /\ r.pc = "rotate" =>
                   /\ r.sid \in Sessions /\ lock'[r.sid] = q
                   /\ session[r.sid].status \in {"open", "expired"}
                   /\ session[r.sid].token = r.token /\ r.token < MaxRotations
             /\ r.pc \in {"bump", "signout"} /\ r.link # None =>
                   lock'[r.link] = q /\ link[r.link] = "sent"
             /\ r.pc = "signout" => lock'[Account] = q /\ account.exists
    BY DEF RowsAreHeld, At
  <2>1. CASE q = p
    BY <1>1, <2>1
  <2>2. CASE q # p
    <3>1. /\ request[q].link \in Links \cup {None} /\ Account \in Rows
          /\ Sessions \subseteq Rows /\ Links \subseteq Rows
      BY <1>2 DEF States, Rows
    <3> QED BY <1>1, <2>2, <3>1 DEF IInv, RowsAreHeld, At
  <2> QED BY <2>1, <2>2
<1>7. InsertsAreNew'
  <2>1. ASSUME NEW q \in Requests, request'[q].pc \in {"reload", "issue"}
        PROVE  /\ request'[q].sid \in Sessions /\ session[request'[q].sid].status = "none"
               /\ \A o \in Requests \ {q} : request'[o].sid # request'[q].sid
    <3>1. CASE q = p
      BY <1>1, <2>1, <3>1
    <3>2. CASE q # p
      <4>1. /\ request[q].sid \in Sessions /\ session[request[q].sid].status = "none"
            /\ \A o \in Requests \ {q} : request[o].sid # request[q].sid
        BY <1>1, <2>1, <3>2 DEF IInv, InsertsAreNew, SigningIn
      <4>2. s.sid # request[q].sid
        BY <1>1, <2>1, <3>2, <4>1, RowAssumption DEF Rows, SigningIn
      <4> QED BY <1>1, <3>2, <4>1, <4>2
    <3> QED BY <3>1, <3>2
  <2> QED BY <2>1 DEF IInv, InsertsAreNew, SigningIn
<1>8. VersionsAreEpochs' /\ SpentIsOver' /\ NothingLeft'
  <2>1. VersionsAreEpochs'
    <3> SUFFICES ASSUME ~lost, NEW q \in Requests, request'[q].pc = "issue"
                 PROVE  request'[q].version = request'[q].epoch
      BY DEF IInv, VersionsAreEpochs, At
    <3> QED BY <1>1 DEF IInv, VersionsAreEpochs, At
  <2> QED BY <2>1 DEF IInv, SpentIsOver, NothingLeft, Existing, SentLinks
<1> QED BY <1>3, <1>4, <1>5, <1>6, <1>7, <1>8 DEF IInv

\* A request is over, and wrote nothing.
LEMMA EndsKeep ==
  ASSUME IInv, NEW p \in Requests, Become(p, Idle), Unlock(p) \/ lock' = lock,
         UNCHANGED <<account, session, link, history>>
  PROVE  IInv'
<1>1. /\ epoch \in Nat /\ Idle \in States(epoch) /\ Idle.pc = "idle" /\ Idle.sid = None
      /\ Idle.op \notin Changing
  BY RequestTyped, IdleTyped DEF Idle, Changing
<1>2. /\ lock' \in [Rows -> Requests \cup {None}]
      /\ \A r \in Rows : lock[r] \in Requests \ {p} => lock'[r] = lock[r]
  BY UnlockFields, TypeSplit DEF IInv, ControlTyped
<1>3. /\ UNCHANGED <<account, session, link, epoch, lost, spent>>
      /\ changes' \in 0..MaxChanges /\ changes' >= changes
  BY BoundAssumption DEF history, IInv, TypeOK
<1> QED BY <1>1, <1>2, <1>3, GoesOn

LEMMA AbortKeeps == ASSUME IInv, NEW p \in Requests, Abort(p) PROVE IInv'
BY EndsKeep DEF Abort

------------------------------------------------------------------------------
LEMMA LoginKeeps == ASSUME IInv, NEW p \in Requests, NEW s \in Sessions, Login(p, s) PROVE IInv'
<1> DEFINE r == [Idle EXCEPT !.pc = "issue", !.op = "login", !.sid = s,
                             !.version = account.version, !.epoch = epoch]
<1>1. /\ Become(p, r) /\ UNCHANGED <<account, session, link, epoch, lost, spent>>
      /\ changes' = changes /\ lock' = lock /\ session[s].status = "none"
      /\ \A q \in Requests : request[q].sid # s
  BY DEF Login, history, Unclaimed
<1>2. /\ epoch \in Nat /\ account.version \in 0..epoch /\ epoch \in 0..epoch
      /\ changes \in 0..MaxChanges /\ changes >= changes /\ lock \in [Rows -> Requests \cup {None}]
      /\ Idle \in States(epoch)
  BY IdleTyped, TypeSplit, BoundAssumption DEF IInv, DataTyped, ControlTyped
<1>3. /\ r \in States(epoch) /\ r.pc = "issue" /\ r.sid = s /\ r.version = account.version
      /\ r.epoch = epoch /\ r.op \notin Changing
  BY <1>2 DEF States, PCs, Ops, Changing
<1>4. ~lost => account.version = epoch
  BY DEF IInv, VersionsAreEpochs
<1> HIDE DEF r
<1> QED BY <1>1, <1>2, <1>3, <1>4, GoesOn

LEMMA RedeemKeeps ==
  ASSUME IInv, NEW p \in Requests, NEW s \in Sessions, Redeem(p, s) PROVE IInv'
<1> DEFINE r == [Idle EXCEPT !.pc = "reload", !.op = "login", !.sid = s]
<1>1. /\ Become(p, r) /\ UNCHANGED <<account, session, link, epoch, lost, spent>>
      /\ changes' = changes /\ lock' = lock /\ session[s].status = "none"
      /\ \A q \in Requests : request[q].sid # s
  BY DEF Redeem, history, Unclaimed
<1>2. /\ changes \in 0..MaxChanges /\ changes >= changes /\ lock \in [Rows -> Requests \cup {None}]
      /\ epoch \in Nat /\ Idle \in States(epoch)
  BY IdleTyped, TypeSplit, BoundAssumption DEF IInv, DataTyped, ControlTyped
<1>3. r \in States(epoch) /\ r.pc = "reload" /\ r.sid = s /\ r.op \notin Changing
  BY <1>2 DEF States, PCs, Ops, Changing
<1> HIDE DEF r
<1> QED BY <1>1, <1>2, <1>3, GoesOn

\* The version read again is the number of sign-outs, as long as none was lost.
LEMMA ReloadKeeps == ASSUME IInv, NEW p \in Requests, Reload(p) PROVE IInv'
<1> DEFINE r == [request[p] EXCEPT !.pc = "issue", !.version = account.version, !.epoch = epoch]
<1>1. /\ UNCHANGED <<account, session, link, lock, history>> /\ SigningIn(p)
      /\ IF account.exists THEN Become(p, r) ELSE Become(p, Idle)
  BY DEF Reload, At, SigningIn
<1>2. CASE ~account.exists
  BY <1>1, <1>2, EndsKeep
<1>3. CASE account.exists
  <2>1. /\ epoch \in Nat /\ account.version \in 0..epoch /\ request[p] \in States(epoch)
        /\ changes \in 0..MaxChanges /\ changes >= changes
        /\ lock \in [Rows -> Requests \cup {None}]
    BY RequestTyped, TypeSplit, BoundAssumption DEF IInv, DataTyped
  <2>2. /\ r \in States(epoch) /\ r.pc = "issue" /\ r.sid = request[p].sid
        /\ r.version = account.version /\ r.epoch = epoch /\ r.op = request[p].op
    <3>1. epoch \in 0..epoch /\ "issue" \in PCs
      BY <2>1 DEF PCs
    <3> QED BY <2>1, <3>1 DEF States
  <2>3. /\ request[p].sid \in Sessions /\ session[request[p].sid].status = "none"
        /\ \A q \in Requests \ {p} : request[q].sid # request[p].sid
        /\ ~lost => account.version = epoch
    BY <1>1 DEF IInv, InsertsAreNew, VersionsAreEpochs
  <2>4. /\ UNCHANGED <<account, session, link, epoch, lost, spent>>
        /\ changes' = changes /\ lock' = lock
    BY <1>1 DEF history
  <2> HIDE DEF r
  <2> QED BY <1>1, <1>3, <2>1, <2>2, <2>3, <2>4, GoesOn
<1> QED BY <1>2, <1>3

LEMMA RefreshKeeps ==
  ASSUME IInv, NEW p \in Requests, NEW s \in Sessions, Refresh(p, s) PROVE IInv'
<1> DEFINE r == [Idle EXCEPT !.pc = "rotate", !.op = "refresh", !.sid = s,
                             !.token = session[s].token]
<1>1. /\ Become(p, r) /\ UNCHANGED <<account, session, link, epoch, lost, spent>>
      /\ changes' = changes /\ Lock(p, {s}) /\ lock[s] = None
      /\ session[s].status = "open" /\ session[s].token < MaxRotations
  BY DEF Refresh, history
<1>2. /\ epoch \in Nat /\ session[s].token \in 0..MaxRotations
      /\ changes \in 0..MaxChanges /\ changes >= changes /\ Idle \in States(epoch)
  BY IdleTyped, TypeSplit, BoundAssumption DEF IInv, DataTyped, SessionRows
<1>3. /\ r \in States(epoch) /\ r.pc = "rotate" /\ r.sid = s /\ r.token = session[s].token
      /\ r.op \notin Changing
  BY <1>2 DEF States, PCs, Ops, Changing
<1>4. /\ lock' \in [Rows -> Requests \cup {None}] /\ lock'[s] = p
      /\ \A l \in Rows : lock[l] \in Requests \ {p} => lock'[l] = lock[l]
  <2>1. {s} \in SUBSET Rows /\ Free(p, {s})
    BY <1>1 DEF Rows, Free
  <2> QED BY <1>1, <2>1, LockFields DEF IInv
<1>5. ~\E q \in Requests \ {p} : SigningIn(q) /\ request[q].sid = s
  BY <1>1 DEF IInv, InsertsAreNew, SigningIn
<1> HIDE DEF r
<1> QED BY <1>1, <1>2, <1>3, <1>4, <1>5, GoesOn

LEMMA CountFields ==
  ASSUME IInv, NEW op, MayStart(op), Count(op)
  PROVE  /\ changes' \in 0..MaxChanges /\ changes' >= changes
         /\ op \in Changing => changes' = changes + 1
BY BoundAssumption DEF IInv, TypeOK, MayStart, Count

LEMMA AuthenticateKeeps ==
  ASSUME IInv, NEW p \in Requests, NEW s \in Sessions,
         NEW op \in {"revoke", "delete", "logout-all", "change"}, Authenticate(p, s, op)
  PROVE  IInv'
<1> DEFINE r == [Idle EXCEPT !.pc = "authenticate", !.op = op, !.sid = s,
                             !.version = account.version]
<1>1. /\ Become(p, r) /\ UNCHANGED <<account, session, link, epoch, lost, spent>>
      /\ lock' = lock /\ s \in Existing
      /\ changes' \in 0..MaxChanges /\ changes' >= changes
      /\ op \in Changing => changes' = changes + 1
  BY CountFields DEF Authenticate
<1>2. /\ epoch \in Nat /\ account.version \in 0..epoch /\ Idle \in States(epoch)
      /\ lock \in [Rows -> Requests \cup {None}]
  BY IdleTyped, TypeSplit DEF IInv, DataTyped, ControlTyped
<1>3. /\ r \in States(epoch) /\ r.pc = "authenticate" /\ r.sid = s /\ r.op = op
      /\ r.link = None
  BY <1>2 DEF States, PCs, Ops, Changing, Idle
<1>4. ~\E q \in Requests \ {p} : SigningIn(q) /\ request[q].sid = s
  BY <1>1 DEF IInv, InsertsAreNew, SigningIn, Existing
<1> HIDE DEF r
<1> QED BY <1>1, <1>2, <1>3, <1>4, GoesOn

\* Only the statement changes.
LEMMA GotoFields ==
  ASSUME IInv, NEW p \in Requests, NEW pc \in PCs
  PROVE  LET s == [request[p] EXCEPT !.pc = pc]
         IN  /\ s \in States(epoch) /\ s.pc = pc /\ s.op = request[p].op
             /\ s.sid = request[p].sid /\ s.link = request[p].link
<1>1. request[p] \in States(epoch)
  BY RequestTyped
<1> QED BY <1>1 DEF States

LEMMA AuthenticatedKeeps == ASSUME IInv, NEW p \in Requests, Authenticated(p) PROVE IInv'
<1> DEFINE pc == CASE request[p].op = "revoke" -> "revoke"
                   [] request[p].op = "delete" -> "erase"
                   [] OTHER -> "bump"
           s == [request[p] EXCEPT !.pc = pc]
           passes == /\ session[request[p].sid].status = "open"
                     /\ session[request[p].sid].version = request[p].version
<1>1. /\ UNCHANGED <<account, session, link, history>> /\ lock' = lock
      /\ IF passes THEN Become(p, s) ELSE Become(p, Idle)
      /\ request[p].op \in {"revoke", "delete", "logout-all", "change"} /\ request[p].link = None
      /\ request[p].sid \in Sessions /\ request[p] \in States(epoch)
  BY RequestTyped DEF Authenticated, Goto, IInv, OpsFit
<1>2. CASE ~passes
  BY <1>1, <1>2, EndsKeep
<1>3. CASE passes
  <2>1. /\ pc \in PCs /\ pc \in {"revoke", "erase", "bump"}
        /\ pc = "bump" => request[p].op \in {"logout-all", "change"}
    BY <1>1 DEF PCs
  <2>2. /\ s \in States(epoch) /\ s.pc = pc /\ s.op = request[p].op
        /\ s.sid = request[p].sid /\ s.link = request[p].link
    BY <2>1, GotoFields
  <2>3. /\ changes' \in 0..MaxChanges /\ changes' >= changes
        /\ UNCHANGED <<account, session, link, epoch, lost, spent>>
        /\ lock' \in [Rows -> Requests \cup {None}]
    BY <1>1, RequestTyped, BoundAssumption DEF history, IInv, TypeOK
  <2> HIDE DEF pc, s
  <2> QED BY <1>1, <1>3, <2>1, <2>2, <2>3, GoesOn DEF Changing
<1> QED BY <1>2, <1>3

LEMMA ResetKeeps == ASSUME IInv, NEW p \in Requests, NEW l \in Links, Reset(p, l) PROVE IInv'
<1> DEFINE r == [Idle EXCEPT !.pc = "bump", !.op = "reset", !.link = l,
                             !.version = account.version]
<1>1. /\ Become(p, r) /\ UNCHANGED <<account, session, link, epoch, lost, spent>>
      /\ Lock(p, {l}) /\ lock[l] = None /\ link[l] = "sent"
      /\ changes' \in 0..MaxChanges /\ changes' >= changes /\ changes' = changes + 1
  BY CountFields DEF Reset, Changing
<1>2. /\ epoch \in Nat /\ account.version \in 0..epoch /\ Idle \in States(epoch)
      /\ l # None
  BY IdleTyped, TypeSplit, RowAssumption DEF IInv, DataTyped, Rows
<1>3. /\ r \in States(epoch) /\ r.pc = "bump" /\ r.op = "reset" /\ r.link = l /\ r.sid = None
  BY <1>2 DEF States, PCs, Ops, Changing, Idle
<1>4. /\ lock' \in [Rows -> Requests \cup {None}] /\ lock'[l] = p
      /\ \A k \in Rows : lock[k] \in Requests \ {p} => lock'[k] = lock[k]
  <2>1. {l} \in SUBSET Rows /\ Free(p, {l})
    BY <1>1 DEF Rows, Free
  <2> QED BY <1>1, <2>1, LockFields DEF IInv
<1> HIDE DEF r
<1> QED BY <1>1, <1>2, <1>3, <1>4, GoesOn DEF Changing

\* What a request that changes token_version holds and has in hand.
LEMMA ChangerFields ==
  ASSUME IInv, NEW p \in Requests, request[p].pc \in {"bump", "signout"}
  PROVE  /\ request[p].op \in Changing /\ request[p].link \in Links \cup {None}
         /\ request[p].op = "reset" <=> request[p].link # None
         /\ request[p].op = "change" => request[p].sid \in Sessions
         /\ request[p].link # None => lock[request[p].link] = p /\ link[request[p].link] = "sent"
<1>1. request[p].link \in Links \cup {None}
  BY RequestTyped DEF States
<1> QED BY <1>1 DEF IInv, OpsFit, RowsAreHeld

LEMMA BumpKeeps == ASSUME IInv, NEW p \in Requests, Bump(p) PROVE IInv'
<1> DEFINE s == [request[p] EXCEPT !.pc = "signout"]
<1>1. CASE Abort(p)
  BY <1>1, AbortKeeps
<1>2. CASE ~Abort(p)
  <2>1. /\ account.exists /\ Lock(p, {Account}) /\ Free(p, {Account}) /\ Become(p, s)
        /\ UNCHANGED <<account, session, link, history>> /\ request[p].pc = "bump"
    BY <1>2 DEF Bump, Goto, At
  <2>2. /\ s \in States(epoch) /\ s.pc = "signout" /\ s.op = request[p].op
        /\ s.sid = request[p].sid /\ s.link = request[p].link
    BY GotoFields DEF PCs
  <2>3. /\ lock' \in [Rows -> Requests \cup {None}] /\ lock'[Account] = p
        /\ \A r \in Rows : lock[r] \in Requests \ {p} => lock'[r] = lock[r]
        /\ \A r \in Rows \ {Account} : lock'[r] = lock[r]
    <3>1. {Account} \in SUBSET Rows
      BY DEF Rows
    <3> QED BY <2>1, <3>1, LockFields DEF IInv
  <2>4. /\ request[p].op \in Changing /\ request[p].link \in Links \cup {None}
        /\ request[p].op = "reset" <=> request[p].link # None
        /\ request[p].op = "change" => request[p].sid \in Sessions
        /\ request[p].link # None => lock[request[p].link] = p /\ link[request[p].link] = "sent"
    BY <2>1, ChangerFields
  <2>5. s.link # None => lock'[s.link] = p /\ link[s.link] = "sent"
    BY <2>2, <2>3, <2>4, RowAssumption DEF Rows
  <2>6. /\ UNCHANGED <<account, session, link, epoch, lost, spent>>
        /\ changes' \in 0..MaxChanges /\ changes' >= changes
    BY <2>1, BoundAssumption DEF history, IInv, TypeOK
  <2> HIDE DEF s
  <2> QED BY <2>1, <2>2, <2>3, <2>4, <2>5, <2>6, GoesOn
<1> QED BY <1>1, <1>2

LEMMA EraseKeeps == ASSUME IInv, NEW p \in Requests, Erase(p) PROVE IInv'
<1> DEFINE s == [request[p] EXCEPT !.pc = "eraseuser"]
           rows == {Advisory} \cup Existing
<1>1. /\ Free(p, rows) /\ Lock(p, rows) /\ Become(p, s)
      /\ UNCHANGED <<account, session, link, history>>
  BY DEF Erase, Goto
<1>2. /\ s \in States(epoch) /\ s.pc = "eraseuser" /\ s.op = request[p].op
      /\ s.sid = request[p].sid
  BY GotoFields DEF PCs
<1>3. /\ lock' \in [Rows -> Requests \cup {None}]
      /\ \A r \in Rows : lock[r] \in Requests \ {p} => lock'[r] = lock[r]
  <2>1. rows \in SUBSET Rows
    BY DEF Rows, Existing
  <2> QED BY <1>1, <2>1, LockFields DEF IInv
<1>4. /\ UNCHANGED <<account, session, link, epoch, lost, spent>>
      /\ changes' \in 0..MaxChanges /\ changes' >= changes
  BY <1>1, BoundAssumption DEF history, IInv, TypeOK
<1> HIDE DEF s, rows
<1> QED BY <1>1, <1>2, <1>3, <1>4, GoesOn

------------------------------------------------------------------------------
\* The steps that write sessions, links or the account.

\* What a request leaves behind when it ends: everyone else as before.
LEMMA EndFields ==
  ASSUME IInv, NEW p \in Requests, Become(p, Idle)
  PROVE  /\ request' \in [Requests -> States(epoch)] /\ request'[p] = Idle
         /\ \A q \in Requests \ {p} : request'[q] = request[q]
         /\ \A q \in Requests \ (Requests \ {p}) : request'[q] = Idle
         /\ \A q \in Requests \ (Requests \ {p}) : q = p
<1>1. Idle \in States(epoch)
  BY RequestTyped, IdleTyped
<1> QED BY <1>1, BecomeFields DEF IInv

LEMMA IssueKeeps == ASSUME IInv, NEW p \in Requests, Issue(p) PROVE IInv'
<1> DEFINE s == request[p].sid
           row == [status |-> "open", version |-> request[p].version,
                   token |-> 0, epoch |-> request[p].epoch]
           Q == Requests \ {p}
<1>1. /\ At(p, "issue") /\ Become(p, Idle) /\ UNCHANGED <<account, link, lock, history>>
      /\ session' = IF account.exists THEN [session EXCEPT ![s] = row] ELSE session
  BY DEF Issue
<1>2. CASE ~account.exists
  BY <1>1, <1>2, EndsKeep DEF history
<1>3. CASE account.exists
  <2>1. /\ s \in Sessions /\ session[s].status = "none" /\ session[s].token = 0
        /\ ~lost => request[p].version = request[p].epoch
    BY <1>1 DEF IInv, InsertsAreNew, SigningIn, VersionsAreEpochs, At
  <2>2. row \in SessionRows(epoch) /\ row.status = "open" /\ row.token = 0
        /\ row.version = request[p].version /\ row.epoch = request[p].epoch
    BY RequestTyped, BoundAssumption DEF States, SessionRows
  <2>3. /\ DataTyped /\ session \in [Sessions -> SessionRows(epoch)]
        /\ lock \in [Rows -> Requests \cup {None}]
    BY TypeSplit DEF IInv, DataTyped, ControlTyped
  <2> HIDE DEF row
  <2>4. /\ session' \in [Sessions -> SessionRows(epoch)] /\ session'[s] = row
        /\ \A t \in Sessions \ {s} : session'[t] = session[t]
    BY <1>1, <1>3, <2>1, <2>2, <2>3
  <2>5. DataTyped' /\ changes' = changes /\ epoch' = epoch
    BY <1>1, <2>3, <2>4 DEF history, DataTyped
  <2>6. TypeOK' /\ OpsFit' /\ RowsAreHeld' /\ InsertsAreNew' /\ ChangesAreCounted'
    <3>1. /\ request' \in [Requests -> States(epoch')] /\ Q \in SUBSET Requests
          /\ \A q \in Q : request'[q] = request[q]
          /\ \A q \in Requests \ Q : request'[q] = Idle
      BY <1>1, <2>5, EndFields
    <3>2. /\ lock' \in [Rows -> Requests \cup {None}]
          /\ \A r \in Rows : lock[r] \in Q => lock'[r] = lock[r]
      BY <1>1, <2>3
    <3>3. /\ \A t \in Sessions : session'[t].status = "none" => session'[t] = session[t]
          /\ \A t \in Sessions : session[t].status = "none" =>
                session'[t] = session[t] \/ \E q \in Requests \ Q : request[q].sid = t
          /\ \A t \in Sessions : lock[t] \in Q /\ session[t].status \in {"open", "expired"} =>
                session'[t].status \in {"open", "expired"} /\ session'[t].token = session[t].token
      BY <2>1, <2>2, <2>4
    <3>4. /\ \A l \in Links : lock[l] \in Q /\ link[l] = "sent" => link'[l] = "sent"
          /\ lock[Account] \in Q /\ account.exists => account'.exists
      BY <1>1
    <3> HIDE DEF Q
    <3> QED BY <2>5, <3>1, <3>2, <3>3, <3>4, OthersGoOn
  <2>7. VersionsAreEpochs'
    <3>1. \A q \in Requests : request'[q].pc = "issue" => q # p /\ request'[q] = request[q]
      BY <1>1, EndFields DEF Idle
    <3> QED BY <1>1, <2>1, <2>2, <2>4, <3>1 DEF history, IInv, VersionsAreEpochs, At
  <2>8. SpentIsOver'
    BY <1>1, <2>1, <2>2, <2>4 DEF history, IInv, SpentIsOver
  <2>9. NothingLeft'
    BY <1>1, <1>3 DEF NothingLeft
  <2> QED BY <2>6, <2>7, <2>8, <2>9 DEF IInv
<1> QED BY <1>2, <1>3

\* One session row that exists is changed, and stays; one of its tokens may be
\* redeemed, which takes it on to the next.
LEMMA RowChanges ==
  ASSUME IInv, NEW Q \in SUBSET Requests, NEW s \in Sessions, NEW row \in SessionRows(epoch),
         session' = [session EXCEPT ![s] = row],
         session[s].status \notin {"none", "deleted"}, row.status \notin {"none", "deleted"},
         row.version = session[s].version, row.epoch = session[s].epoch,
         row.token >= session[s].token,
         lock[s] \in Q /\ session[s].status \in {"open", "expired"} =>
            row.status \in {"open", "expired"} /\ row.token = session[s].token,
         request' \in [Requests -> States(epoch)],
         \A q \in Q : request'[q] = request[q],
         \A q \in Requests \ Q : request'[q] = Idle,
         lock' \in [Rows -> Requests \cup {None}],
         \A r \in Rows : lock[r] \in Q => lock'[r] = lock[r],
         UNCHANGED <<account, link, changes, epoch, lost>>,
         \A x \in spent' : \/ x \in spent
                           \/ x = <<s, session[s].token>> /\ row.token > session[s].token
  PROVE  IInv'
<1>1. /\ DataTyped /\ session \in [Sessions -> SessionRows(epoch)] /\ epoch \in Nat
      /\ spent \subseteq (Sessions \X (0..MaxRotations)) \cup Links
      /\ \A t \in Sessions : session[t].token \in 0..MaxRotations
      /\ row.token \in 0..MaxRotations
  BY TypeSplit DEF IInv, DataTyped, SessionRows
<1>2. /\ session' \in [Sessions -> SessionRows(epoch)] /\ session'[s] = row
      /\ \A t \in Sessions \ {s} : session'[t] = session[t]
  BY <1>1
<1>3. DataTyped' /\ changes' = changes /\ epoch' = epoch
  BY <1>1, <1>2 DEF DataTyped
<1>4. TypeOK' /\ OpsFit' /\ RowsAreHeld' /\ InsertsAreNew' /\ ChangesAreCounted'
  <2>1. request' \in [Requests -> States(epoch')]
    BY <1>3
  <2>2. /\ \A t \in Sessions : session'[t].status = "none" => session'[t] = session[t]
        /\ \A t \in Sessions : session[t].status = "none" =>
              session'[t] = session[t] \/ \E q \in Requests \ Q : request[q].sid = t
        /\ \A t \in Sessions : lock[t] \in Q /\ session[t].status \in {"open", "expired"} =>
              session'[t].status \in {"open", "expired"} /\ session'[t].token = session[t].token
    BY <1>2
  <2> QED BY <1>3, <2>1, <2>2, OthersGoOn
<1>5. VersionsAreEpochs'
  <2>1. \A q \in Requests : request'[q].pc = "issue" => request'[q] = request[q]
    BY DEF Idle
  <2>2. \A t \in Sessions :
           session'[t].version = session[t].version /\ session'[t].epoch = session[t].epoch
    BY <1>2
  <2> QED BY <2>1, <2>2 DEF IInv, VersionsAreEpochs, At
<1>6. SpentIsOver'
  <2>1. ASSUME NEW t \in Sessions, NEW n \in 0..MaxRotations, <<t, n>> \in spent'
        PROVE  n < session'[t].token
    <3>1. CASE <<t, n>> \in spent
      <4>1. n < session[t].token /\ session'[t].token >= session[t].token
        BY <1>1, <1>2, <3>1 DEF IInv, SpentIsOver
      <4>2. session'[t].token \in 0..MaxRotations
        BY <1>1, <1>2
      <4> QED BY <1>1, <4>1, <4>2
    <3>2. CASE <<t, n>> \notin spent
      <4>1. t = s /\ n = session[s].token /\ row.token > session[s].token
        BY <2>1, <3>2
      <4> QED BY <1>1, <1>2, <4>1
    <3> QED BY <3>1, <3>2
  <2>2. \A l \in Links : l \in spent' => l \in spent
    BY <1>1, RowAssumption
  <2> QED BY <2>1, <2>2 DEF IInv, SpentIsOver
<1>7. NothingLeft'
  <2>1. s \in Existing
    BY DEF Existing
  <2> QED BY <2>1 DEF IInv, NothingLeft
<1> QED BY <1>4, <1>5, <1>6, <1>7 DEF IInv

LEMMA RotateKeeps == ASSUME IInv, NEW p \in Requests, Rotate(p) PROVE IInv'
<1> DEFINE s == request[p].sid
           Q == Requests \ {p}
           gone == [session[s] EXCEPT !.status = "revoked"]
           next == [session[s] EXCEPT !.token = @ + 1]
<1>1. /\ At(p, "rotate") /\ Become(p, Idle) /\ Unlock(p)
      /\ UNCHANGED <<account, link, changes, epoch, lost>>
  BY DEF Rotate
<1>2. /\ s \in Sessions /\ lock[s] = p /\ session[s].status \in {"open", "expired"}
      /\ session[s].token = request[p].token /\ session[s].token < MaxRotations
  BY <1>1 DEF IInv, RowsAreHeld
<1>3. session[s] \in SessionRows(epoch) /\ session \in [Sessions -> SessionRows(epoch)]
  BY <1>2, TypeSplit DEF IInv, DataTyped
<1>4. /\ request' \in [Requests -> States(epoch)] /\ Q \in SUBSET Requests
      /\ \A q \in Q : request'[q] = request[q]
      /\ \A q \in Requests \ Q : request'[q] = Idle
  BY <1>1, EndFields
<1>5. /\ lock' \in [Rows -> Requests \cup {None}]
      /\ \A r \in Rows : lock[r] \in Q => lock'[r] = lock[r]
      /\ lock[s] \notin Q
  BY <1>1, <1>2, UnlockFields DEF IInv
<1> HIDE DEF Q
<1>6. CASE session[s].version # account.version
  <2>1. session' = [session EXCEPT ![s] = gone] /\ spent' = spent
    BY <1>6 DEF Rotate
  <2>2. /\ gone \in SessionRows(epoch) /\ gone.status = "revoked"
        /\ gone.version = session[s].version /\ gone.epoch = session[s].epoch
        /\ gone.token = session[s].token /\ gone.token \in Nat
    BY <1>3, BoundAssumption DEF SessionRows
  <2> HIDE DEF gone, s
  <2>3. gone.token >= session[s].token
    BY <2>2
  <2> QED BY <1>1, <1>2, <1>4, <1>5, <2>1, <2>2, <2>3, RowChanges
<1>7. CASE session[s].version = account.version
  <2>1. session' = [session EXCEPT ![s] = next] /\ spent' = spent \cup {<<s, session[s].token>>}
    BY <1>2, <1>7 DEF Rotate
  <2>2. /\ next \in SessionRows(epoch) /\ next.status = session[s].status
        /\ next.version = session[s].version /\ next.epoch = session[s].epoch
        /\ next.token = session[s].token + 1 /\ session[s].token \in Nat
    BY <1>2, <1>3, BoundAssumption DEF SessionRows
  <2> HIDE DEF next, s
  <2>3. next.token >= session[s].token /\ next.token > session[s].token
    BY <2>2
  <2> QED BY <1>1, <1>2, <1>4, <1>5, <2>1, <2>2, <2>3, RowChanges
<1> QED BY <1>6, <1>7

\* Revoking a row, or its expiry.
LEMMA StatusChanges ==
  ASSUME IInv, NEW Q \in SUBSET Requests, NEW s \in Sessions,
         NEW status \in {"expired", "revoked"},
         session' = [session EXCEPT ![s].status = status],
         session[s].status \notin {"none", "deleted"},
         status = "revoked" => lock[s] = None,
         request' \in [Requests -> States(epoch)],
         \A q \in Q : request'[q] = request[q],
         \A q \in Requests \ Q : request'[q] = Idle,
         UNCHANGED <<account, link, lock, history>>
  PROVE  IInv'
<1> DEFINE row == [session[s] EXCEPT !.status = status]
<1>1. /\ session[s] \in SessionRows(epoch) /\ lock \in [Rows -> Requests \cup {None}]
      /\ UNCHANGED <<account, link, changes, epoch, lost>> /\ spent' = spent /\ lock' = lock
  BY TypeSplit DEF IInv, DataTyped, ControlTyped, history
<1>2. /\ row \in SessionRows(epoch) /\ row.status = status
      /\ row.version = session[s].version /\ row.epoch = session[s].epoch
      /\ row.token = session[s].token /\ session[s].token \in Nat
  BY <1>1, BoundAssumption DEF SessionRows
<1>3. session' = [session EXCEPT ![s] = row]
  OBVIOUS
<1>4. lock[s] \in Q => status = "expired"
  BY RowAssumption
<1> HIDE DEF row
<1>5. row.token >= session[s].token
  BY <1>2
<1> QED BY <1>1, <1>2, <1>3, <1>4, <1>5, RowChanges

LEMMA RevokeSessionKeeps ==
  ASSUME IInv, NEW p \in Requests, NEW s \in Sessions, RevokeSession(p, s) PROVE IInv'
<1>1. /\ lock[s] = None /\ Become(p, Idle) /\ UNCHANGED <<account, link, lock, history>>
      /\ session' = IF s \in Existing THEN [session EXCEPT ![s].status = "revoked"] ELSE session
  BY DEF RevokeSession
<1>2. CASE s \notin Existing
  BY <1>1, <1>2, EndsKeep
<1>3. CASE s \in Existing
  <2> DEFINE Q == Requests \ {p}
  <2>1. /\ request' \in [Requests -> States(epoch)] /\ Q \in SUBSET Requests
        /\ \A q \in Q : request'[q] = request[q]
        /\ \A q \in Requests \ Q : request'[q] = Idle
    BY <1>1, EndFields
  <2>2. session[s].status \notin {"none", "deleted"}
    BY <1>3 DEF Existing
  <2> HIDE DEF Q
  <2> QED BY <1>1, <1>3, <2>1, <2>2, StatusChanges
<1> QED BY <1>2, <1>3

LEMMA LogoutKeeps ==
  ASSUME IInv, NEW s \in Sessions, Logout(s) \/ Expire(s) PROVE IInv'
<1>1. request' \in [Requests -> States(epoch)] /\ request' = request
  BY TypeSplit DEF IInv, ControlTyped, Logout, Expire
<1>2. \A q \in Requests \ Requests : request'[q] = Idle
  OBVIOUS
<1>3. CASE Logout(s)
  BY <1>1, <1>2, <1>3, StatusChanges DEF Logout
<1>4. CASE Expire(s)
  BY <1>1, <1>2, <1>4, StatusChanges DEF Expire
<1> QED BY <1>3, <1>4

LEMMA ForgotKeeps == ASSUME IInv, NEW l \in Links, Forgot(l) PROVE IInv'
<1>1. /\ account.exists /\ link[l] = "unsent" /\ link' = [link EXCEPT ![l] = "sent"]
      /\ UNCHANGED <<account, session, lock, request, changes, epoch, lost, spent>>
  BY DEF Forgot, history
<1>2. /\ DataTyped /\ ControlTyped /\ \A k \in Links \ {l} : link'[k] = link[k]
      /\ link' \in [Links -> {"unsent", "sent", "used", "deleted"}]
  BY <1>1, TypeSplit DEF IInv, DataTyped
<1>3. TypeOK'
  <2>1. DataTyped' /\ ControlTyped' /\ epoch' <= changes'
    BY <1>1, <1>2, TypeSplit DEF IInv, DataTyped, ControlTyped
  <2> QED BY <2>1, TypeSplitNext
<1>4. OpsFit' /\ InsertsAreNew' /\ VersionsAreEpochs' /\ ChangesAreCounted'
  BY <1>1 DEF IInv, OpsFit, InsertsAreNew, SigningIn, VersionsAreEpochs, ChangesAreCounted,
              Changers, At
<1>5. RowsAreHeld'
  <2>1. \A q \in Requests : request[q].link \in Links \cup {None}
    BY <1>2 DEF ControlTyped, States
  <2> QED BY <1>1, <1>2, <2>1 DEF IInv, RowsAreHeld, At
<1>6. SpentIsOver' /\ NothingLeft'
  BY <1>1, <1>2 DEF IInv, SpentIsOver, NothingLeft
<1> QED BY <1>3, <1>4, <1>5, <1>6 DEF IInv

\* The rows a sign-out everywhere takes exist, and are all that can be rotated.
LEMMA SignOutRows ==
  ASSUME IInv, NEW p \in Requests, request[p].op \in Changing,
         request[p].op = "change" => request[p].sid \in Sessions
  PROVE  /\ SignedOutBy(p) \subseteq Existing /\ Kept(p) \subseteq Existing
         /\ Unrevoked \subseteq SignedOutBy(p) \cup Kept(p)
<1>1. Unrevoked \subseteq Existing
  BY DEF Unrevoked, Existing
<1>2. CASE request[p].op = "logout-all"
  BY <1>1, <1>2 DEF SignedOutBy, Kept
<1>3. CASE request[p].op = "change"
  BY <1>1, <1>3 DEF SignedOutBy, Kept
<1>4. CASE request[p].op = "reset"
  BY <1>1, <1>4 DEF SignedOutBy, Kept
<1> QED BY <1>2, <1>3, <1>4 DEF Changing

LEMMA SignOutKeeps == ASSUME IInv, NEW p \in Requests, SignOut(p) PROVE IInv'
<1> DEFINE version == request[p].version + 1
           keep(s) == [session[s] EXCEPT !.version = version, !.epoch = epoch + 1]
           over(s) == [session[s] EXCEPT !.status = "revoked"]
           Q == Requests \ {p}
<1>1. /\ request[p].pc = "signout" /\ Become(p, Idle) /\ Unlock(p) /\ changes' = changes
      /\ Free(p, SignedOutBy(p) \cup Kept(p) \cup UsedBy(p))
      /\ account' = [account EXCEPT !.version = version] /\ epoch' = epoch + 1
      /\ lost' = (lost \/ request[p].version # account.version)
      /\ spent' = spent \cup ({request[p].link} \ {None})
      /\ link' = [l \in Links |-> IF l \in UsedBy(p) THEN "used" ELSE link[l]]
      /\ session' = [s \in Sessions |->
               CASE s \in Kept(p) -> keep(s)
                 [] s \in SignedOutBy(p) -> over(s)
                 [] OTHER -> session[s]]
  BY DEF SignOut, At
<1>2. /\ request[p].op \in Changing /\ request[p].link \in Links \cup {None}
      /\ request[p].op = "reset" <=> request[p].link # None
      /\ request[p].op = "change" => request[p].sid \in Sessions
      /\ request[p].link # None => lock[request[p].link] = p /\ link[request[p].link] = "sent"
      /\ lock[Account] = p /\ account.exists
  BY <1>1, ChangerFields DEF IInv, RowsAreHeld, At
<1>3. /\ SignedOutBy(p) \subseteq Existing /\ Kept(p) \subseteq Existing
      /\ Unrevoked \subseteq SignedOutBy(p) \cup Kept(p)
  BY <1>2, SignOutRows
<1>4. /\ DataTyped /\ ControlTyped /\ epoch \in Nat /\ version \in 0..(epoch + 1)
      /\ account \in [exists : BOOLEAN, version : 0..epoch]
      /\ session \in [Sessions -> SessionRows(epoch)]
  <2>1. DataTyped /\ ControlTyped /\ epoch \in Nat
    BY TypeSplit DEF IInv, DataTyped
  <2>2. request[p].version \in 0..epoch
    BY RequestTyped DEF States
  <2> QED BY <2>1, <2>2 DEF DataTyped
<1> HIDE DEF version
<1>5. ASSUME NEW s \in Sessions
      PROVE  /\ session[s] \in SessionRows(epoch) /\ session'[s] \in SessionRows(epoch + 1)
             /\ session'[s].token = session[s].token
             /\ s \in Kept(p) => /\ session'[s].status = session[s].status
                                 /\ session'[s].version = version /\ session'[s].epoch = epoch + 1
             /\ s \notin Kept(p) => /\ session'[s].version = session[s].version
                                    /\ session'[s].epoch = session[s].epoch
             /\ s \in SignedOutBy(p) \ Kept(p) => session'[s].status = "revoked"
             /\ s \notin SignedOutBy(p) \cup Kept(p) => session'[s] = session[s]
  <2>1. session[s] \in SessionRows(epoch) /\ session[s] \in SessionRows(epoch + 1)
    BY <1>4, TypesGrow
  <2>2. /\ keep(s) \in SessionRows(epoch + 1) /\ keep(s).token = session[s].token
        /\ keep(s).status = session[s].status
        /\ keep(s).version = version /\ keep(s).epoch = epoch + 1
    <3>1. epoch + 1 \in 0..(epoch + 1) /\ version \in 0..(epoch + 1)
      BY <1>4
    <3> QED BY <2>1, <3>1 DEF SessionRows
  <2>3. /\ over(s) \in SessionRows(epoch + 1) /\ over(s).token = session[s].token
        /\ over(s).status = "revoked"
        /\ over(s).version = session[s].version /\ over(s).epoch = session[s].epoch
    BY <2>1 DEF SessionRows
  <2>4. /\ s \in Kept(p) => session'[s] = keep(s)
        /\ s \notin Kept(p) /\ s \in SignedOutBy(p) => session'[s] = over(s)
        /\ s \notin Kept(p) /\ s \notin SignedOutBy(p) => session'[s] = session[s]
    <3> HIDE DEF keep, over
    <3>1. session'[s] = CASE s \in Kept(p) -> keep(s)
                          [] s \in SignedOutBy(p) -> over(s)
                          [] OTHER -> session[s]
      BY <1>1, Zenon
    <3>2. s \in Kept(p) \cap SignedOutBy(p) => FALSE
      BY <1>2 DEF Kept, SignedOutBy
    <3> QED BY <3>1, <3>2
  <2> HIDE DEF keep, over
  <2>5. CASE s \in Kept(p)
    <3>1. session'[s] = keep(s)
      BY <2>5, <2>4
    <3> QED BY <2>1, <2>2, <2>5, <3>1
  <2>6. CASE s \notin Kept(p) /\ s \in SignedOutBy(p)
    <3>1. session'[s] = over(s)
      BY <2>6, <2>4
    <3> QED BY <2>1, <2>3, <2>6, <3>1
  <2>7. CASE s \notin Kept(p) \cup SignedOutBy(p)
    <3>1. session'[s] = session[s]
      BY <2>7, <2>4
    <3> QED BY <2>1, <2>7, <3>1
  <2> QED BY <2>5, <2>6, <2>7
<1> HIDE DEF keep, over
<1>6. DataTyped'
  <2>1. session' \in [Sessions -> SessionRows(epoch + 1)]
    BY <1>1, <1>5
  <2>2. account' \in [exists : BOOLEAN, version : 0..(epoch + 1)] /\ account'.exists
    BY <1>1, <1>2, <1>4
  <2>3. link' \in [Links -> {"unsent", "sent", "used", "deleted"}]
    BY <1>1, <1>4 DEF DataTyped
  <2>4. spent' \subseteq (Sessions \X (0..MaxRotations)) \cup Links /\ lost' \in BOOLEAN
    BY <1>1, <1>2, <1>4 DEF DataTyped
  <2> QED BY <1>1, <1>4, <2>1, <2>2, <2>3, <2>4 DEF DataTyped
<1>7. TypeOK' /\ OpsFit' /\ RowsAreHeld' /\ InsertsAreNew' /\ ChangesAreCounted'
  <2>1. /\ request' \in [Requests -> States(epoch')] /\ Q \in SUBSET Requests
        /\ \A q \in Q : request'[q] = request[q]
        /\ \A q \in Requests \ Q : request'[q] = Idle
    <3>1. request' \in [Requests -> States(epoch)]
      BY <1>1, EndFields
    <3>2. States(epoch) \subseteq States(epoch + 1)
      BY <1>4, TypesGrow
    <3> QED BY <1>1, <3>1, <3>2, EndFields
  <2>2. /\ lock' \in [Rows -> Requests \cup {None}]
        /\ \A r \in Rows : lock[r] \in Q => lock'[r] = lock[r]
    BY <1>1, UnlockFields DEF IInv
  <2>3. \E q \in Requests \ Q : request[q].op \in Changing
    BY <1>2
  <2>4. \A r \in SignedOutBy(p) \cup Kept(p) \cup UsedBy(p) : lock[r] \notin Q
    BY <1>1, RowAssumption DEF Free
  <2>5. /\ \A s \in Sessions : session'[s].status = "none" => session'[s] = session[s]
        /\ \A s \in Sessions : session[s].status = "none" =>
              session'[s] = session[s] \/ \E q \in Requests \ Q : request[q].sid = s
        /\ \A s \in Sessions : lock[s] \in Q /\ session[s].status \in {"open", "expired"} =>
              session'[s].status \in {"open", "expired"} /\ session'[s].token = session[s].token
    <3>1. \A s \in Sessions :
             /\ s \in Kept(p) \cup SignedOutBy(p) => session[s].status # "none"
             /\ session[s].status \in {"open", "expired"} => s \in SignedOutBy(p) \cup Kept(p)
      BY <1>3 DEF Existing, Unrevoked
    <3> QED BY <1>5, <2>4, <3>1
  <2>6. /\ \A l \in Links : lock[l] \in Q /\ link[l] = "sent" => link'[l] = "sent"
        /\ lock[Account] \in Q /\ account.exists => account'.exists
    BY <1>1, <1>2, <2>4
  <2> HIDE DEF Q
  <2> QED BY <1>1, <1>6, <2>1, <2>2, <2>3, <2>5, <2>6, OthersGoOn
\* If no increment is lost, the version read is the one it replaces.
<1>8. VersionsAreEpochs'
  <2> SUFFICES ASSUME ~lost'
               PROVE  /\ account'.version = epoch'
                      /\ \A s \in Sessions : session'[s].version = session'[s].epoch
                      /\ \A q \in Requests :
                            request'[q].pc = "issue" => request'[q].version = request'[q].epoch
    BY DEF VersionsAreEpochs, At
  <2>1. ~lost /\ request[p].version = account.version /\ account.version = epoch
    BY <1>1 DEF IInv, VersionsAreEpochs
  <2>2. version = epoch + 1
    BY <2>1 DEF version
  <2>3. account'.version = epoch'
    BY <1>1, <1>4, <2>2
  <2>4. \A s \in Sessions : session'[s].version = session'[s].epoch
    BY <1>5, <2>1, <2>2 DEF IInv, VersionsAreEpochs
  <2>5. \A q \in Requests : request'[q].pc = "issue" => request'[q] = request[q]
    BY <1>1, EndFields DEF Idle
  <2> QED BY <2>1, <2>3, <2>4, <2>5 DEF IInv, VersionsAreEpochs, At
<1>9. SpentIsOver'
  <2>1. \A s \in Sessions, t \in 0..MaxRotations : <<s, t>> \in spent' => <<s, t>> \in spent
    BY <1>1, <1>2, RowAssumption
  <2>2. ASSUME NEW l \in Links, l \in spent' PROVE link'[l] \in {"used", "deleted"}
    <3>1. CASE l = request[p].link
      <4>1. l \in UsedBy(p)
        BY <1>2, <2>2, <3>1, RowAssumption DEF UsedBy, SentLinks, Rows
      <4> QED BY <1>1, <4>1
    <3>2. CASE l # request[p].link
      BY <1>1, <2>2, <3>2 DEF IInv, SpentIsOver
    <3> QED BY <3>1, <3>2
  <2> QED BY <1>5, <2>1, <2>2 DEF IInv, SpentIsOver
<1>10. NothingLeft'
  <2>1. account'.exists
    BY <1>1, <1>2, <1>4
  <2> QED BY <2>1 DEF NothingLeft
<1> QED BY <1>7, <1>8, <1>9, <1>10 DEF IInv

\* The deletion of the account: of rows it has locked, all of them.
LEMMA EraseUserKeeps == ASSUME IInv, NEW p \in Requests, EraseUser(p) PROVE IInv'
<1> DEFINE Q == Requests \ {p}
           over(s) == [session[s] EXCEPT !.status = "deleted"]
<1>1. CASE Abort(p)
  BY <1>1, AbortKeeps
<1>2. CASE ~Abort(p)
  <2>1. /\ Free(p, SentLinks \cup {Account}) /\ \A s \in Existing : lock[s] = p
        /\ account' = [account EXCEPT !.exists = FALSE]
        /\ session' = [s \in Sessions |-> IF s \in Existing THEN over(s) ELSE session[s]]
        /\ link' = [l \in Links |-> IF link[l] = "unsent" THEN "unsent" ELSE "deleted"]
        /\ Become(p, Idle) /\ Unlock(p)
        /\ UNCHANGED <<changes, epoch, lost, spent>>
    BY <1>2 DEF EraseUser, history
  <2>2. DataTyped /\ epoch \in Nat /\ session \in [Sessions -> SessionRows(epoch)]
    BY TypeSplit DEF IInv, DataTyped
  <2>3. ASSUME NEW s \in Sessions
        PROVE  /\ session'[s] \in SessionRows(epoch)
               /\ session'[s].version = session[s].version /\ session'[s].epoch = session[s].epoch
               /\ session'[s].token = session[s].token
               /\ s \in Existing => session'[s].status = "deleted"
               /\ s \notin Existing => session'[s] = session[s]
    <3>1. session[s] \in SessionRows(epoch)
      BY <2>2
    <3>2. /\ over(s) \in SessionRows(epoch) /\ over(s).token = session[s].token
          /\ over(s).status = "deleted"
          /\ over(s).version = session[s].version /\ over(s).epoch = session[s].epoch
      BY <3>1 DEF SessionRows
    <3> HIDE DEF over
    <3> QED BY <2>1, <3>1, <3>2
  <2> HIDE DEF over
  <2>4. DataTyped'
    <3>1. session' \in [Sessions -> SessionRows(epoch)]
      BY <2>1, <2>3
    <3>2. account' \in [exists : BOOLEAN, version : 0..epoch]
      BY <2>1, <2>2 DEF DataTyped
    <3>3. link' \in [Links -> {"unsent", "sent", "used", "deleted"}]
      BY <2>1
    <3> QED BY <2>1, <2>2, <3>1, <3>2, <3>3 DEF DataTyped
  <2>5. TypeOK' /\ OpsFit' /\ RowsAreHeld' /\ InsertsAreNew' /\ ChangesAreCounted'
    <3>1. /\ request' \in [Requests -> States(epoch')] /\ Q \in SUBSET Requests
          /\ \A q \in Q : request'[q] = request[q]
          /\ \A q \in Requests \ Q : request'[q] = Idle
      BY <2>1, EndFields
    <3>2. /\ lock' \in [Rows -> Requests \cup {None}]
          /\ \A r \in Rows : lock[r] \in Q => lock'[r] = lock[r]
      BY <2>1, UnlockFields DEF IInv
    <3>3. /\ \A s \in Sessions : session'[s].status = "none" => session'[s] = session[s]
          /\ \A s \in Sessions : session[s].status = "none" => session'[s] = session[s]
          /\ \A s \in Sessions : ~(lock[s] \in Q /\ session[s].status \in {"open", "expired"})
      BY <2>1, <2>3 DEF Existing
    <3>4. /\ \A l \in Links : ~(lock[l] \in Q /\ link[l] = "sent")
          /\ lock[Account] \notin Q
      BY <2>1, RowAssumption DEF Free, SentLinks
    <3> HIDE DEF Q
    <3> QED BY <2>1, <2>4, <3>1, <3>2, <3>3, <3>4, OthersGoOn
  <2>6. VersionsAreEpochs'
    <3>1. \A q \in Requests : request'[q].pc = "issue" => request'[q] = request[q]
      BY <2>1, EndFields DEF Idle
    <3>2. account'.version = account.version
      BY <2>1, <2>2 DEF DataTyped
    <3> QED BY <2>1, <2>3, <3>1, <3>2 DEF IInv, VersionsAreEpochs, At
  <2>7. SpentIsOver'
    BY <2>1, <2>3 DEF IInv, SpentIsOver
  <2>8. NothingLeft'
    <3>1. Existing' = {}
      BY <2>3 DEF Existing
    <3>2. SentLinks' = {}
      BY <2>1 DEF SentLinks
    <3> QED BY <3>1, <3>2 DEF NothingLeft
  <2> QED BY <2>5, <2>6, <2>7, <2>8 DEF IInv
<1> QED BY <1>1, <1>2

------------------------------------------------------------------------------
LEMMA InitIInv == Init => IInv
<1> SUFFICES ASSUME Init PROVE IInv
  OBVIOUS
<1>1. /\ account = [exists |-> TRUE, version |-> 0] /\ link = [l \in Links |-> "unsent"]
      /\ session = [s \in Sessions |->
                      [status |-> "none", version |-> 0, token |-> 0, epoch |-> 0]]
      /\ lock = [r \in Rows |-> None] /\ request = [p \in Requests |-> Idle]
      /\ changes = 0 /\ epoch = 0 /\ lost = FALSE /\ spent = {}
  BY DEF Init
<1>2. /\ Idle.pc = "idle" /\ Idle.op = "none" /\ Idle \in States(0)
  BY IdleTyped DEF Idle
<1>3. TypeOK
  <2>1. DataTyped
    <3>1. 0 \in 0..0 /\ 0 \in 0..MaxRotations /\ 0 \in 0..MaxChanges
      BY BoundAssumption
    <3> QED BY <1>1, <3>1 DEF DataTyped, SessionRows
  <2>2. ControlTyped /\ epoch <= changes
    BY <1>1, <1>2 DEF ControlTyped
  <2> QED BY <2>1, <2>2, TypeSplit
<1>4. NothingLeft /\ OpsFit /\ RowsAreHeld /\ InsertsAreNew /\ VersionsAreEpochs /\ SpentIsOver
  BY <1>1, <1>2 DEF NothingLeft, OpsFit, RowsAreHeld, InsertsAreNew, SigningIn,
                    VersionsAreEpochs, SpentIsOver, At
<1>5. ChangesAreCounted
  <2>1. Changers = {}
    BY <1>1, <1>2 DEF Changers, Changing
  <2> QED BY <1>1, <2>1, FS_EmptySet DEF ChangesAreCounted
<1> QED BY <1>3, <1>4, <1>5 DEF IInv

LEMMA StutterKeeps == IInv /\ UNCHANGED vars => IInv'
BY DEF vars, IInv, TypeOK, NothingLeft, Existing, SentLinks, OpsFit, RowsAreHeld, InsertsAreNew,
       SigningIn, VersionsAreEpochs, SpentIsOver, ChangesAreCounted, Changers, At

LEMMA StartKeeps == ASSUME IInv, NEW p \in Requests, Start(p) PROVE IInv'
<1>1. CASE \E s \in Sessions : Login(p, s)
  BY <1>1, LoginKeeps
<1>2. CASE \E s \in Sessions : Refresh(p, s)
  BY <1>2, RefreshKeeps
<1>3. CASE \E s \in Sessions, op \in {"revoke", "delete", "logout-all", "change"} :
              Authenticate(p, s, op)
  BY <1>3, AuthenticateKeeps
<1>4. CASE \E l \in Links : Reset(p, l)
  BY <1>4, ResetKeeps
<1>5. CASE \E s \in Sessions : Redeem(p, s)
  BY <1>5, RedeemKeeps
<1> QED BY <1>1, <1>2, <1>3, <1>4, <1>5 DEF Start

LEMMA StepKeeps == ASSUME IInv, NEW p \in Requests, Step(p) PROVE IInv'
<1>1. CASE \E s \in Sessions : RevokeSession(p, s)
  BY <1>1, RevokeSessionKeeps
<1>2. CASE ~\E s \in Sessions : RevokeSession(p, s)
  BY <1>2, ReloadKeeps, IssueKeeps, RotateKeeps, AuthenticatedKeeps, BumpKeeps, SignOutKeeps,
     EraseKeeps, EraseUserKeeps DEF Step
<1> QED BY <1>1, <1>2

LEMMA NextKeeps == IInv /\ [Next]_vars => IInv'
<1> SUFFICES ASSUME IInv, [Next]_vars PROVE IInv'
  OBVIOUS
<1>1. CASE \E p \in Requests : Start(p) \/ Step(p)
  BY <1>1, StartKeeps, StepKeeps
<1>2. CASE \E p \in Requests : BreakDeadlock(p) \/ Fail(p)
  BY <1>2, AbortKeeps DEF BreakDeadlock, Fail
<1>3. CASE \E s \in Sessions : Logout(s) \/ Expire(s)
  BY <1>3, LogoutKeeps
<1>4. CASE \E l \in Links : Forgot(l)
  BY <1>4, ForgotKeeps
<1>5. CASE UNCHANGED vars
  BY <1>5, StutterKeeps
<1> QED BY <1>1, <1>2, <1>3, <1>4, <1>5 DEF Next

\* Types hold, what a request is about to change it holds and has read right,
\* and versions count the sign-outs as long as none was lost.
THEOREM Invariance == Spec => []IInv
<1> QED BY InitIInv, NextKeeps, PTL DEF Spec

\* After a sign-out everywhere (logout_all, change_password, reset) no session
\* whose user was read before it is usable, save the one a password change
\* retains, unless an increment of token_version was lost.  A sign-in that
\* commits its credential first reads the user after that.
THEOREM SignOutIsComplete == Spec => []SignedOut
<1>1. IInv => SignedOut
  BY DEF IInv, VersionsAreEpochs, SignedOut, AllSignedOut, Usable
<1> QED BY <1>1, Invariance, PTL

\* delete_account leaves no session row and no live reset link, whoever signs
\* in while it deletes them.
THEOREM DeletionLeavesNothing == Spec => []NothingLeft
<1>1. IInv => NothingLeft
  BY DEF IInv
<1> QED BY <1>1, Invariance, PTL

------------------------------------------------------------------------------
\* What a step does to a session row that is revoked: nothing, or it deletes it.

\* A sign-out leaves what is revoked already revoked, with the token it had.
LEMMA RevokedBySignOut ==
  ASSUME IInv, NEW p \in Requests, NEW s \in Sessions, SignOut(p), session[s].status = "revoked"
  PROVE  session'[s].status = "revoked" /\ session'[s].token = session[s].token
<1> DEFINE keep == [session[s] EXCEPT !.version = request[p].version + 1, !.epoch = epoch + 1]
           over == [session[s] EXCEPT !.status = "revoked"]
<1>1. session[s] \in SessionRows(epoch)
  BY TypeSplit DEF IInv, DataTyped
<1>2. session'[s] \in {keep, over, session[s]}
  <2>1. session'[s] = CASE s \in Kept(p) -> keep
                        [] s \in SignedOutBy(p) -> over
                        [] OTHER -> session[s]
    BY Zenon DEF SignOut
  <2> HIDE DEF keep, over
  <2> QED BY <2>1
<1>3. /\ keep.status = "revoked" /\ keep.token = session[s].token
      /\ over.status = "revoked" /\ over.token = session[s].token
  BY <1>1 DEF SessionRows
<1> HIDE DEF keep, over
<1> QED BY <1>2, <1>3

\* No step takes back a revocation.
LEMMA RevokedByStep ==
  ASSUME IInv, [Next]_vars, NEW s \in Sessions, session[s].status = "revoked"
  PROVE  /\ session'[s].status \in {"revoked", "deleted"}
         /\ session'[s].token = session[s].token
<1>1. session \in [Sessions -> SessionRows(epoch)] /\ session[s] \in SessionRows(epoch)
  BY TypeSplit DEF IInv, DataTyped
<1>2. CASE UNCHANGED session
  BY <1>2
<1>3. ASSUME NEW p \in Requests, Issue(p) PROVE session'[s] = session[s]
  <2>1. request[p].sid # s
    BY <1>3 DEF Issue, IInv, InsertsAreNew, SigningIn, At
  <2> QED BY <1>1, <1>3, <2>1 DEF Issue
<1>4. ASSUME NEW p \in Requests, Rotate(p) PROVE session'[s] = session[s]
  <2>1. request[p].sid # s
    BY <1>4 DEF Rotate, IInv, RowsAreHeld
  <2> QED BY <1>1, <1>4, <2>1 DEF Rotate
<1>5. ASSUME NEW p \in Requests, NEW t \in Sessions, RevokeSession(p, t)
      PROVE  session'[s].status = "revoked" /\ session'[s].token = session[s].token
  BY <1>1, <1>5 DEF RevokeSession, SessionRows
<1>6. ASSUME NEW p \in Requests, SignOut(p)
      PROVE  session'[s].status = "revoked" /\ session'[s].token = session[s].token
  BY <1>6, RevokedBySignOut
<1>7. ASSUME NEW p \in Requests, EraseUser(p)
      PROVE  /\ session'[s].status \in {"revoked", "deleted"}
             /\ session'[s].token = session[s].token
  BY <1>1, <1>7 DEF EraseUser, Abort, SessionRows
<1>8. ASSUME NEW t \in Sessions, Logout(t) \/ Expire(t) PROVE session'[s] = session[s]
  BY <1>1, <1>8 DEF Logout, Expire
<1>9. CASE \E p \in Requests : Start(p) \/ BreakDeadlock(p) \/ Fail(p)
  BY <1>9, <1>2 DEF Start, Login, Redeem, Refresh, Authenticate, Reset, BreakDeadlock, Fail, Abort
<1>10. CASE \E p \in Requests : Step(p)
  <2>1. CASE \E p \in Requests : Reload(p) \/ Authenticated(p) \/ Bump(p) \/ Erase(p)
    BY <2>1, <1>2 DEF Reload, Authenticated, Bump, Erase, Abort
  <2> QED BY <1>3, <1>4, <1>5, <1>6, <1>7, <1>10, <2>1 DEF Step
<1>11. CASE (\E l \in Links : Forgot(l)) \/ UNCHANGED vars
  BY <1>11, <1>2 DEF Forgot, vars
<1> QED BY <1>8, <1>9, <1>10, <1>11 DEF Next

\* A session that was signed out is never rotated nor opened again, however the
\* requests overlap.
THEOREM SignedOutForGood == Spec => RevokedStays
<1>1. IInv /\ [Next]_vars =>
        [\A s \in Sessions : session[s].status = "revoked" =>
            /\ session'[s].status \in {"revoked", "deleted"}
            /\ session'[s].token = session[s].token]_vars
  BY RevokedByStep
<1> QED BY <1>1, Invariance, PTL DEF Spec, RevokedStays

\* What a request is about to redeem has not been redeemed: its row, which it
\* holds, is as the request read it.
LEMMA RedeemsTheUnspent ==
  ASSUME IInv, NEW p \in Requests, NEW t \in spent PROVE ~Redeems(p, t)
<1>1. CASE At(p, "rotate")
  <2>1. /\ request[p].sid \in Sessions /\ request[p].token \in 0..MaxRotations
        /\ session[request[p].sid].token = request[p].token
    BY <1>1, RequestTyped DEF IInv, RowsAreHeld, States
  <2>2. ~(request[p].token < request[p].token)
    BY <2>1, BoundAssumption
  <2>3. <<request[p].sid, request[p].token>> \notin spent
    BY <2>1, <2>2 DEF IInv, SpentIsOver
  <2> QED BY <1>1, <2>3 DEF Redeems, At
<1>2. CASE At(p, "signout")
  <2>1. request[p].link \in Links => request[p].link \notin spent
    BY <1>2, RowAssumption DEF IInv, RowsAreHeld, SpentIsOver, At, Rows
  <2>2. None \notin spent
    BY RowAssumption DEF IInv, TypeOK, Rows
  <2>3. request[p].link \in Links \cup {None}
    BY RequestTyped DEF States
  <2> QED BY <1>2, <2>1, <2>2, <2>3 DEF Redeems, At
<1> QED BY <1>1, <1>2 DEF Redeems

\* A refresh token (refresh) or a reset link (reset) is redeemed at most once,
\* whichever requests present it at the same time.
THEOREM RedeemedOnce == Spec => SpentOnce
<1>1. IInv => [\A p \in Requests : \A t \in spent : ~Redeems(p, t)]_vars
  BY RedeemsTheUnspent
<1> QED BY <1>1, Invariance, PTL DEF Spec, SpentOnce
==============================================================================
