----------------------------- MODULE Accounts_proof -----------------------------
(***************************************************************************)
(* Proofs about Accounts: for any number of requests, users and links, any  *)
(* addresses and providers, in every order of their steps.                  *)
(***************************************************************************)
EXTENDS Accounts, FiniteSetTheorems, WellFoundedInduction, TLAPS

\* The provider accounts that a merge should have made one.
Twins(a) == {u \in Verified(a) : ~user[u].local /\ ~user[u].moved}

\* The owner of an account whose address was confirmed has answered from its
\* mailbox, whether by a first verification or by a change.
UserFits(u) ==
    Live(u) =>
        /\ user[u].email \in Addresses
        /\ (user[u].verified \/ user[u].moved) /\ ~user[u].mixed => user[u].proven

Sent(l, purpose) == link[l].status = "sent" /\ link[l].purpose = purpose

\* A link in use belongs to an account and was mailed to the address it is good
\* for, unless that has moved on.
LinkFits(l) ==
    LET u == link[l].user IN
    /\ IF link[l].status \in {"stored", "sent"} THEN Live(u) ELSE u = None
    /\ link[l].status = "stored" => link[l].purpose = "verify"
    /\ Sent(l, "verify") /\ ~user[u].moved => link[l].to = user[u].email
    /\ Sent(l, "change_email") /\ ~user[u].mixed => user[u].pending \in {None, link[l].to}

\* A request that opened a link holds its row, and what it read of the account
\* is so still.
OpenedFits(p) ==
    LET r == request[p] IN
    r.pc \in {"open", "verify", "confirm"} =>
        /\ r.link \in Links /\ r.address \in Addresses /\ r.version \in Nat
        /\ lock[r.link] = p /\ link[r.link].status = "sent" /\ link[r.link].user = r.user
        /\ ~user[r.user].moved => user[r.user].email = r.read
        /\ link[r.link].purpose = "change_email" /\ ~user[r.user].mixed =>
              link[r.link].to = r.address
        /\ link[r.link].purpose = "verify" /\ ~user[r.user].moved =>
              user[r.user].email = r.address

\* A request that looked under an address's lock holds it, and what it found is
\* so still.
LookedFits(p) ==
    LET r == request[p] IN
    /\ r.pc \in {"register", "attach", "verify", "confirm"} =>
          r.address \in Addresses /\ lock[r.address] = p
    /\ r.pc = "register" => Locals(r.address) = {}
    /\ r.pc = "attach" =>
          /\ r.subject \in Subjects
          /\ r.target = None /\ r.subject \in Trusted => Twins(r.address) = {}
    /\ r.pc = "verify" =>
          /\ link[r.link].purpose = "verify"
          /\ r.target = None /\ ~user[r.user].local => Twins(r.address) \subseteq {r.user}
    /\ r.pc = "confirm" =>
          /\ link[r.link].purpose = "change_email"
          /\ user[r.user].local => Locals(r.address) \subseteq {r.user}

\* What the other requests have in hand.
InHand(p) ==
    LET r == request[p] IN
    /\ r.pc \in {"issue", "resend", "invite", "ask", "relink"} => r.user \in Users
    /\ r.pc \in {"ask", "relink"} => r.address \in Addresses
    /\ r.pc = "issue" /\ r.link # None =>
          /\ link[r.link].status # "none"
          /\ link[r.link].status = "stored" => link[r.link].user = r.user

\* The links that a change of address did not see when it began to use them up
\* are for the same address.
RelinkFits(p) ==
    LET r == request[p] IN
    r.pc = "relink" =>
        /\ \A l \in r.seen : link[l].status # "none"
        /\ \A l \in Links \ r.seen :
              Sent(l, "change_email") /\ link[l].user = r.user /\ ~user[r.user].mixed =>
                  link[l].to = r.address

\* One request at a time has a users row updated and not committed.
OneWriter ==
    \A p, q \in Requests :
        At(p, "relink") /\ At(q, "relink") /\ request[p].user = request[q].user =>
            p = q \/ IsAsRead(p) \/ IsAsRead(q)

Fits(p) == OpenedFits(p) /\ LookedFits(p) /\ InHand(p) /\ RelinkFits(p)

LocalsAreOne == \A a \in Addresses : \A u, v \in Locals(a) : u = v
TwinsAreOne == \A a \in Addresses : \A u, v \in Twins(a) : u = v

IInv ==
    /\ TypeOK /\ LocalsAreOne /\ TwinsAreOne /\ OneWriter
    /\ \A u \in Users : UserFits(u)
    /\ \A l \in Links : LinkFits(l)
    /\ \A p \in Requests : Fits(p)

------------------------------------------------------------------------------
(* Ids in order: the least of those that are left.                           *)

\* A nonempty set of numbers has a least one.
LEMMA LeastExists ==
  ASSUME NEW S, S \subseteq Nat, S # {} PROVE \E x \in S : \A y \in S : x <= y
<1> DEFINE R == OpToRel(<, Nat)
<1>1. IsWellFoundedOn(R, Nat)
  BY NatLessThanWellFounded, Zenon
<1>2. R = {ss \in Nat \X Nat : ss[1] < ss[2]}
  BY Zenon DEF OpToRel
<1> HIDE DEF R
<1>3. PICK x \in S : \A y \in S : <<y, x>> \notin R
  BY <1>1, WFMin
<1>4. ASSUME NEW y \in S PROVE x <= y
  <2>1. /\ <<y, x>> \in Nat \X Nat /\ <<y, x>> \notin R
        /\ <<y, x>>[1] = y /\ <<y, x>>[2] = x
    BY <1>3
  <2>2. ~(y < x) /\ x \in Nat /\ y \in Nat
    BY <2>1, <1>2
  <2> QED BY <2>2
<1> QED BY <1>4

\* The least id that Min picks is in the set.
LEMMA MinIsIn == ASSUME NEW S, S \subseteq Nat, S # {} PROVE Min(S) \in S
BY LeastExists DEF Min

\* The ids are numbers, so a least free one can be picked.
LEMMA IdsAreNumbers == Users \subseteq Nat /\ Links \subseteq Nat
BY BoundAssumption DEF Users, Links

\* The id of a new account is a free one.
LEMMA NewUserIsNew == UserLeft => NewUser \in Users /\ user[NewUser].status = "none"
<1> DEFINE S == {u \in Users : user[u].status = "none"}
<1>1. UserLeft => S \subseteq Nat /\ S # {}
  BY IdsAreNumbers DEF UserLeft
<1>2. UserLeft => Min(S) \in S
  BY <1>1, MinIsIn
<1> QED BY <1>2 DEF NewUser

\* The id of a new link is a free one.
LEMMA NewLinkIsNew == LinkLeft => NewLink \in Links /\ link[NewLink].status = "none"
<1> DEFINE S == {l \in Links : link[l].status = "none"}
<1>1. LinkLeft => S \subseteq Nat /\ S # {}
  BY IdsAreNumbers DEF LinkLeft
<1>2. LinkLeft => Min(S) \in S
  BY <1>1, MinIsIn
<1> QED BY <1>2 DEF NewLink

------------------------------------------------------------------------------
\* No model value stands for two things.
LEMMA NamesDiffer ==
  /\ None \notin Requests /\ None \notin Addresses /\ None \notin Nat
  /\ None \notin Users /\ None \notin Links /\ Links \cap Addresses = {}
BY SetAssumption

LEMMA IdleTyped == Idle \in States
BY DEF Idle, States

LEMMA RowTyped ==
  ASSUME NEW a \in Addresses, NEW local \in BOOLEAN, NEW verified \in BOOLEAN
  PROVE  /\ Row(a, local, verified) \in UserRows
         /\ Row(a, local, verified).status = "live" /\ Row(a, local, verified).email = a
         /\ Row(a, local, verified).local = local /\ Row(a, local, verified).verified = verified
         /\ Row(a, local, verified).moved = FALSE /\ Row(a, local, verified).mixed = FALSE
         /\ Row(a, local, verified).proven = verified
BY DEF Row, NoUser, UserRows

LEMMA UsedTyped == /\ UsedLink \in LinkRows /\ UsedLink.status = "used" /\ UsedLink.user = None
                   /\ UsedLink.purpose = "verify"
BY DEF UsedLink, NoLink, LinkRows

LEMMA BecomeFields ==
  ASSUME TypeOK, NEW p \in Requests, NEW s \in States, Become(p, s)
  PROVE  /\ request' \in [Requests -> States] /\ request'[p] = s
         /\ \A q \in Requests \ {p} : request'[q] = request[q]
BY DEF TypeOK, Become

LEMMA IssueFields ==
  ASSUME TypeOK, NEW p \in Requests, NEW u \in Users, NEW l \in Links \cup {None},
         ThenIssue(p, u, l)
  PROVE  /\ request' \in [Requests -> States]
         /\ request'[p].pc = "issue" /\ request'[p].user = u /\ request'[p].link = l
         /\ \A q \in Requests \ {p} : request'[q] = request[q]
<1> DEFINE s == [Idle EXCEPT !.pc = "issue", !.user = u, !.link = l]
<1>1. s \in States /\ s.pc = "issue" /\ s.user = u /\ s.link = l
  BY IdleTyped DEF States
<1>2. Become(p, s)
  BY DEF ThenIssue
<1> HIDE DEF s
<1> QED BY <1>1, <1>2, BecomeFields

LEMMA LockFields ==
  ASSUME TypeOK, NEW p \in Requests, NEW x \in Addresses \cup Links, Free(x), Lock(p, x)
  PROVE  /\ lock' \in [Addresses \cup Links -> Requests \cup {None}] /\ lock'[x] = p
         /\ \A y \in Addresses \cup Links : lock[y] \in Requests => lock'[y] = lock[y]
BY NamesDiffer DEF TypeOK, Free, Lock

LEMMA UnlockFields ==
  ASSUME TypeOK, NEW p \in Requests, Unlock(p)
  PROVE  /\ lock' \in [Addresses \cup Links -> Requests \cup {None}]
         /\ \A y \in Addresses \cup Links : lock[y] \in Requests \ {p} => lock'[y] = lock[y]
BY DEF TypeOK, Unlock

LEMMA RowFields ==
  ASSUME TypeOK, NEW u \in Users, NEW row \in UserRows, user' = [user EXCEPT ![u] = row]
  PROVE  /\ user' \in [Users -> UserRows] /\ user'[u] = row
         /\ \A v \in Users \ {u} : user'[v] = user[v]
BY DEF TypeOK

------------------------------------------------------------------------------
(* What the steps have in common.                                            *)

\* Where p alone goes on, and writes nothing but locks, only p need be looked at.
LEMMA GoesOn ==
  ASSUME IInv, NEW p \in Requests, NEW s \in States, Become(p, s),
         UNCHANGED <<user, identity, link>>,
         lock' \in [Addresses \cup Links -> Requests \cup {None}],
         \A x \in Addresses \cup Links : lock[x] \in Requests \ {p} => lock'[x] = lock[x],
         Fits(p)', s.pc = "relink" => s.read = s.address \/ ~Writing(s.user)
  PROVE  IInv'
<1>1. /\ request' \in [Requests -> States]
      /\ \A q \in Requests \ {p} : request'[q] = request[q]
  BY BecomeFields DEF IInv
<1>2. ASSUME NEW q \in Requests \ {p} PROVE Fits(q)'
  <2>1. request'[q] = request[q] /\ Fits(q)
    BY <1>1 DEF IInv
  <2>2. \A x \in Addresses \cup Links : lock[x] = q => lock'[x] = q
    OBVIOUS
  <2>3. OpenedFits(q)'
    BY <2>1, <2>2 DEF Fits, OpenedFits
  <2>4. LookedFits(q)'
    BY <2>1, <2>2 DEF Fits, LookedFits, Locals, Twins, Verified, Live
  <2>5. InHand(q)' /\ RelinkFits(q)'
    BY <2>1 DEF Fits, InHand, RelinkFits, Sent
  <2> QED BY <2>3, <2>4, <2>5 DEF Fits
<1>3. TypeOK'
  BY <1>1 DEF IInv, TypeOK
<1>4. LocalsAreOne' /\ TwinsAreOne' /\ \A u \in Users : UserFits(u)'
  BY DEF IInv, LocalsAreOne, TwinsAreOne, UserFits, Locals, Twins, Verified, Live
<1>5. \A l \in Links : LinkFits(l)'
  BY DEF IInv, LinkFits, Sent, Live
<1>6. OneWriter'
  BY <1>1, BecomeFields DEF IInv, OneWriter, Writing, At, IsAsRead
<1> QED BY <1>2, <1>3, <1>4, <1>5, <1>6 DEF IInv

LEMMA IdleFits ==
  ASSUME NEW p \in Requests, request'[p] = Idle
  PROVE  Fits(p)' /\ request'[p].pc # "relink"
BY DEF Idle, Fits, OpenedFits, LookedFits, InHand, RelinkFits

LEMMA AbortKeeps == ASSUME IInv, NEW p \in Requests, Abort(p) PROVE IInv'
<1>1. /\ Become(p, Idle) /\ Unlock(p) /\ UNCHANGED <<user, identity, link>> /\ request'[p] = Idle
  BY IdleTyped, BecomeFields DEF Abort, IInv
<1>2. /\ lock' \in [Addresses \cup Links -> Requests \cup {None}]
      /\ \A x \in Addresses \cup Links : lock[x] \in Requests \ {p} => lock'[x] = lock[x]
  BY <1>1, UnlockFields DEF IInv
<1>3. Idle.pc # "relink" /\ Fits(p)'
  BY <1>1, IdleFits DEF Idle
<1> QED BY <1>1, <1>2, <1>3, IdleTyped, GoesOn

\* The locks that the requests of Q hold stay theirs.
LocksStay(Q) == \A x \in Addresses \cup Links : lock[x] \in Q => lock'[x] = lock[x]

\* The links that requests of Q have opened are left alone, and so is, where the
\* row of u becomes row, what was read of it.
OpenedStay(Q, u, row) ==
    \A l \in Links : lock[l] \in Q /\ link[l].status = "sent" =>
        /\ link'[l] = link[l]
        /\ link[l].user = u =>
              /\ row.local = user[u].local /\ (user[u].mixed => row.mixed)
              /\ ~row.moved => ~user[u].moved /\ row.email = user[u].email

\* A link for a change of address is an old one, or it is that of a request which
\* every other one of Q that uses up the links of u agrees with.
ChangesAgree(Q, u, row) ==
    \A l \in Links : Sent(l, "change_email")' =>
        \/ /\ Sent(l, "change_email") /\ link'[l] = link[l]
           /\ link[l].user = u /\ user[u].mixed => row.mixed
        \/ /\ link'[l].user = u
           /\ \A q \in Q : At(q, "relink") /\ request[q].user = u =>
                  row.mixed \/ link'[l].to = request[q].address

\* A link's row is not deleted, and stored once.
LinksGoOn ==
    \A l \in Links :
        /\ link[l].status # "none" => link'[l].status # "none"
        /\ link[l].status # "none" /\ link'[l].status = "stored" => link'[l] = link[l]

\* The row is in the way of no request of Q that has looked its address up.
RowWasThere(Q, u, row) ==
    row.status = "live" /\ lock[row.email] \in Q =>
        /\ row.local => u \in Locals(row.email)
        /\ row.verified /\ ~row.local /\ ~row.moved => u \in Twins(row.email)

\* One users row changes, and so may links: another request goes on as long as
\* what it has opened, and the address it has locked, are left alone.
LEMMA OthersGoOn ==
  ASSUME IInv, NEW u \in Users, NEW row \in UserRows, user' = [user EXCEPT ![u] = row],
         NEW Q \in SUBSET Requests, NEW q \in Q, request'[q] = request[q],
         LocksStay(Q), OpenedStay(Q, u, row), LinksGoOn, RowWasThere(Q, u, row),
         ChangesAgree(Q, u, row)
  PROVE  Fits(q)'
<1> USE DEF LocksStay, OpenedStay, LinksGoOn, RowWasThere
<1>1. /\ OpenedFits(q) /\ LookedFits(q) /\ InHand(q) /\ RelinkFits(q)
      /\ request[q] \in States
  BY DEF IInv, TypeOK, Fits
<1>2. /\ user'[u] = row /\ \A v \in Users \ {u} : user'[v] = user[v]
      /\ \A a \in Addresses : lock[a] = q =>
            Locals(a)' \subseteq Locals(a) /\ Twins(a)' \subseteq Twins(a)
  <2>1. user'[u] = row /\ \A v \in Users \ {u} : user'[v] = user[v]
    BY RowFields DEF IInv
  <2>2. ASSUME NEW a \in Addresses, lock[a] = q PROVE Locals(a)' \subseteq Locals(a)
    BY <2>1, <2>2 DEF Locals, Live
  <2>3. ASSUME NEW a \in Addresses, lock[a] = q PROVE Twins(a)' \subseteq Twins(a)
    <3>1. \A v \in Users \ {u} : v \in Twins(a)' => v \in Twins(a)
      BY <2>1 DEF Twins, Verified, Live
    <3>2. u \in Twins(a)' => /\ row.status = "live" /\ row.verified /\ row.email = a
                             /\ ~row.local /\ ~row.moved
      BY <2>1 DEF Twins, Verified, Live
    <3>3. Twins(a)' \subseteq Users
      BY DEF Twins, Verified
    <3> QED BY <2>3, <3>1, <3>2, <3>3
  <2> QED BY <2>1, <2>2, <2>3
<1>3. request[q].pc \in {"open", "verify", "confirm"} =>
         LET r == request[q] IN
         /\ r.link \in Links /\ lock[r.link] = q /\ link[r.link].status = "sent"
         /\ link'[r.link] = link[r.link] /\ link[r.link].user = r.user /\ r.user \in Users
  <2> SUFFICES ASSUME request[q].pc \in {"open", "verify", "confirm"}
               PROVE  LET r == request[q] IN
                      /\ r.link \in Links /\ lock[r.link] = q /\ link[r.link].status = "sent"
                      /\ link'[r.link] = link[r.link] /\ link[r.link].user = r.user
                      /\ r.user \in Users
    OBVIOUS
  <2>1. /\ request[q].link \in Links /\ lock[request[q].link] = q
        /\ link[request[q].link].status = "sent"
        /\ link[request[q].link].user = request[q].user
    BY <1>1 DEF OpenedFits
  <2>2. request[q].user \in Users
    BY <2>1 DEF IInv, LinkFits, Live
  <2> QED BY <2>1, <2>2
<1>4. OpenedFits(q)'
  BY <1>1, <1>2, <1>3 DEF OpenedFits
<1>5. LookedFits(q)'
  BY <1>1, <1>2, <1>3 DEF LookedFits
<1>6. InHand(q)'
  <2>1. request[q].link \in Links \cup {None}
    BY <1>1 DEF States
  <2> QED BY <1>1, <2>1 DEF InHand
<1>7. RelinkFits(q)'
  <2>1. request[q].pc = "relink" =>
           /\ request[q].user \in Users /\ request[q].seen \subseteq Links
           /\ \A l \in request[q].seen : link[l].status # "none"
    BY <1>1 DEF RelinkFits, InHand, States
  <2>2. ASSUME NEW l \in Links \ request[q].seen, request[q].pc = "relink",
               Sent(l, "change_email")', link'[l].user = request[q].user,
               ~user'[request[q].user].mixed
        PROVE  link'[l].to = request[q].address
    <3>1. CASE /\ Sent(l, "change_email") /\ link'[l] = link[l]
               /\ link[l].user = u /\ user[u].mixed => row.mixed
      <4>1. ~user[request[q].user].mixed
        BY <1>2, <2>1, <2>2, <3>1
      <4> QED BY <1>1, <2>2, <3>1, <4>1 DEF RelinkFits
    <3>2. CASE ~(/\ Sent(l, "change_email") /\ link'[l] = link[l]
                 /\ link[l].user = u /\ user[u].mixed => row.mixed)
      BY <1>2, <2>2, <3>2 DEF ChangesAgree, At
    <3> QED BY <3>1, <3>2
  <2> QED BY <2>1, <2>2 DEF RelinkFits
<1> QED BY <1>4, <1>5, <1>6, <1>7 DEF Fits

\* A changed row that is still one of its kind.
LEMMA UsersFit ==
  ASSUME IInv, NEW u \in Users, NEW row \in UserRows, user' = [user EXCEPT ![u] = row],
         row.status = "live" =>
            /\ row.email \in Addresses
            /\ (row.verified \/ row.moved) /\ ~row.mixed => row.proven,
         row.status = "live" /\ row.local => Locals(row.email) \subseteq {u},
         row.status = "live" /\ row.verified /\ ~row.local /\ ~row.moved =>
            Twins(row.email) \subseteq {u}
  PROVE  LocalsAreOne' /\ TwinsAreOne' /\ \A v \in Users : UserFits(v)'
<1>1. /\ user'[u] = row /\ \A v \in Users \ {u} : user'[v] = user[v]
  BY RowFields DEF IInv
<1>2. ASSUME NEW a \in Addresses, NEW v \in Locals(a)', NEW w \in Locals(a)' PROVE v = w
  <2>1. \A x \in {v, w} \ {u} : x \in Locals(a)
    BY <1>1 DEF Locals, Live
  <2>2. u \in {v, w} => Locals(a) \subseteq {u}
    BY <1>1 DEF Locals, Live
  <2> QED BY <2>1, <2>2 DEF IInv, LocalsAreOne
<1>3. ASSUME NEW a \in Addresses, NEW v \in Twins(a)', NEW w \in Twins(a)' PROVE v = w
  <2>1. \A x \in {v, w} \ {u} : x \in Twins(a)
    BY <1>1 DEF Twins, Verified, Live
  <2>2. u \in {v, w} => Twins(a) \subseteq {u}
    <3>1. u \in {v, w} => /\ row.status = "live" /\ row.verified /\ ~row.local /\ ~row.moved
                          /\ row.email = a
      BY <1>1 DEF Twins, Verified, Live
    <3> QED BY <3>1
  <2> QED BY <2>1, <2>2 DEF IInv, TwinsAreOne
<1>4. ASSUME NEW v \in Users PROVE UserFits(v)'
  <2>1. CASE v = u
    BY <1>1, <2>1 DEF UserFits, Live
  <2>2. CASE v # u
    BY <1>1, <2>2 DEF IInv, UserFits, Live
  <2> QED BY <2>1, <2>2
<1> QED BY <1>2, <1>3, <1>4 DEF LocalsAreOne, TwinsAreOne

\* A link that a step leaves alone, whose account it treats accordingly.
LEMMA LinkStays ==
  ASSUME IInv, NEW u \in Users, NEW row \in UserRows, user' = [user EXCEPT ![u] = row],
         NEW l \in Links, link'[l] = link[l],
         link[l].status \in {"stored", "sent"} /\ link[l].user = u =>
            /\ row.status = "live"
            /\ Sent(l, "verify") /\ ~row.moved => ~user[u].moved /\ row.email = user[u].email
            /\ Sent(l, "change_email") /\ ~row.mixed =>
                  \/ row.pending \in {None, link[l].to}
                  \/ ~user[u].mixed /\ row.pending = user[u].pending
  PROVE  LinkFits(l)'
<1>1. /\ user'[u] = row /\ \A v \in Users \ {u} : user'[v] = user[v]
  BY RowFields DEF IInv
<1>2. LinkFits(l)
  BY DEF IInv
<1>3. CASE link[l].status \in {"stored", "sent"}
  <2>1. link[l].user \in Users /\ user[link[l].user].status = "live"
    BY <1>2, <1>3 DEF LinkFits, Live
  <2>2. CASE link[l].user = u
    BY <1>1, <1>2, <1>3, <2>1, <2>2 DEF LinkFits, Sent, Live
  <2>3. CASE link[l].user # u
    BY <1>1, <1>2, <1>3, <2>1, <2>3 DEF LinkFits, Sent, Live
  <2> QED BY <2>2, <2>3
<1>4. CASE link[l].status \notin {"stored", "sent"}
  BY <1>2, <1>4 DEF LinkFits, Sent
<1> QED BY <1>3, <1>4

LEMMA UsedFits == ASSUME NEW l \in Links, link'[l] = UsedLink PROVE LinkFits(l)'
BY UsedTyped DEF LinkFits, Sent

------------------------------------------------------------------------------
(* The steps that read.                                                      *)

LEMMA RegisterKeeps ==
  ASSUME IInv, NEW p \in Requests, NEW a \in Addresses, Register(p, a) PROVE IInv'
<1> DEFINE s == [Idle EXCEPT !.pc = "register", !.address = a]
<1>1. /\ Become(p, s) /\ Lock(p, a) /\ Free(a) /\ Locals(a) = {}
      /\ UNCHANGED <<user, identity, link>>
  BY DEF Register
<1>2. s \in States /\ s.pc = "register" /\ s.address = a
  BY IdleTyped DEF States
<1> HIDE DEF s
<1>3. request'[p] = s
  BY <1>1, <1>2, BecomeFields DEF IInv
<1>4. /\ lock' \in [Addresses \cup Links -> Requests \cup {None}] /\ lock'[a] = p
      /\ \A x \in Addresses \cup Links : lock[x] \in Requests => lock'[x] = lock[x]
  BY <1>1, LockFields DEF IInv
<1>5. OpenedFits(p)' /\ InHand(p)' /\ RelinkFits(p)'
  BY <1>2, <1>3 DEF OpenedFits, InHand, RelinkFits
<1>6. LookedFits(p)'
  BY <1>1, <1>2, <1>3, <1>4 DEF LookedFits, Locals, Live
<1> QED BY <1>1, <1>2, <1>4, <1>5, <1>6, GoesOn DEF Fits

LEMMA SocialKeeps ==
  ASSUME IInv, NEW p \in Requests, NEW x \in Subjects, NEW a \in Addresses, Social(p, x, a)
  PROVE  IInv'
<1> DEFINE known == [Idle EXCEPT !.pc = "issue", !.user = identity[x],
                                 !.version = user[identity[x]].version]
           target == IF x \in Trusted /\ Verified(a) # {} THEN Min(Verified(a)) ELSE None
           new == [Idle EXCEPT !.pc = "attach", !.subject = x, !.address = a, !.target = target]
<1>1. /\ Lock(p, a) /\ Free(a) /\ UNCHANGED <<user, identity, link>>
      /\ identity[x] # None => Become(p, known)
      /\ identity[x] = None => Become(p, new)
  BY DEF Social
<1>2. /\ lock' \in [Addresses \cup Links -> Requests \cup {None}] /\ lock'[a] = p
      /\ \A y \in Addresses \cup Links : lock[y] \in Requests => lock'[y] = lock[y]
  BY <1>1, LockFields DEF IInv
<1>3. CASE identity[x] # None
  <2>1. identity[x] \in Users /\ user[identity[x]].version \in Nat
    BY <1>3 DEF IInv, TypeOK, UserRows
  <2>2. known \in States /\ known.pc = "issue" /\ known.user \in Users /\ known.link = None
    BY <2>1, IdleTyped DEF States, Idle
  <2> HIDE DEF known
  <2>3. request'[p] = known
    BY <1>1, <1>3, <2>2, BecomeFields DEF IInv
  <2>4. Fits(p)'
    BY <2>2, <2>3 DEF Fits, OpenedFits, LookedFits, InHand, RelinkFits
  <2> QED BY <1>1, <1>2, <1>3, <2>2, <2>4, GoesOn
<1>4. CASE identity[x] = None
  <2>1. target \in Users \cup {None}
    <3>1. Verified(a) \subseteq Nat /\ Verified(a) \subseteq Users
      BY IdsAreNumbers DEF Verified
    <3> QED BY <3>1, MinIsIn
  <2>2. target = None /\ x \in Trusted => Verified(a) = {}
    <3>1. Verified(a) \subseteq Nat /\ Verified(a) \subseteq Users
      BY IdsAreNumbers DEF Verified
    <3> QED BY <3>1, MinIsIn, NamesDiffer
  <2> HIDE DEF target
  <2>3. /\ new \in States /\ new.pc = "attach" /\ new.subject = x /\ new.address = a
        /\ new.target = target
    BY <2>1, IdleTyped DEF States
  <2> HIDE DEF new
  <2>4. request'[p] = new
    BY <1>1, <1>4, <2>3, BecomeFields DEF IInv
  <2>5. OpenedFits(p)' /\ InHand(p)' /\ RelinkFits(p)'
    BY <2>3, <2>4 DEF OpenedFits, InHand, RelinkFits
  <2>6. LookedFits(p)'
    BY <1>1, <1>2, <2>2, <2>3, <2>4 DEF LookedFits, Twins, Verified, Live
  <2> QED BY <1>1, <1>2, <1>4, <2>3, <2>5, <2>6, GoesOn DEF Fits
<1> QED BY <1>3, <1>4

LEMMA ResendKeeps ==
  ASSUME IInv, NEW p \in Requests, NEW u \in Users, Resend(p, u) PROVE IInv'
<1> DEFINE s == [Idle EXCEPT !.pc = "resend", !.user = u]
<1>1. Become(p, s) /\ UNCHANGED <<user, identity, link, lock>>
  BY DEF Resend
<1>2. s \in States /\ s.pc = "resend" /\ s.user = u
  BY IdleTyped DEF States
<1> HIDE DEF s
<1>3. request'[p] = s
  BY <1>1, <1>2, BecomeFields DEF IInv
<1>4. Fits(p)'
  BY <1>2, <1>3 DEF Fits, OpenedFits, LookedFits, InHand, RelinkFits
<1>5. lock \in [Addresses \cup Links -> Requests \cup {None}]
  BY DEF IInv, TypeOK
<1> QED BY <1>1, <1>2, <1>4, <1>5, GoesOn

LEMMA AskChangeKeeps ==
  ASSUME IInv, NEW p \in Requests, NEW u \in Users, NEW a \in Addresses, AskChange(p, u, a)
  PROVE  IInv'
<1> DEFINE s == [Idle EXCEPT !.pc = "ask", !.user = u, !.address = a,
                             !.read = user[u].pending]
<1>1. Become(p, s) /\ UNCHANGED <<user, identity, link, lock>>
  BY DEF AskChange
<1>2. s \in States /\ s.pc = "ask" /\ s.user = u /\ s.address = a
  <2>1. user[u].pending \in Addresses \cup {None}
    BY DEF IInv, TypeOK, UserRows
  <2> QED BY <2>1, IdleTyped DEF States
<1> HIDE DEF s
<1>3. request'[p] = s
  BY <1>1, <1>2, BecomeFields DEF IInv
<1>4. Fits(p)'
  BY <1>2, <1>3 DEF Fits, OpenedFits, LookedFits, InHand, RelinkFits
<1>5. lock \in [Addresses \cup Links -> Requests \cup {None}]
  BY DEF IInv, TypeOK
<1> QED BY <1>1, <1>2, <1>4, <1>5, GoesOn

\* All the links for a change of address are found, and who has the users row
\* updated is alone with it.
LEMMA BeginChangeKeeps == ASSUME IInv, NEW p \in Requests, BeginChange(p) PROVE IInv'
<1> DEFINE u == request[p].user
           s == [request[p] EXCEPT !.pc = "relink", !.seen = ChangeLinks(u)]
<1>1. CASE Abort(p)
  BY <1>1, AbortKeeps
<1>2. CASE ~Abort(p)
  <2>1. /\ Become(p, s) /\ UNCHANGED <<user, identity, link, lock>>
        /\ IsAsRead(p) \/ ~Writing(u)
    BY <1>2 DEF BeginChange
  <2>2. u \in Users /\ request[p].address \in Addresses /\ request[p] \in States
    BY DEF BeginChange, At, IInv, Fits, InHand, TypeOK
  <2>3. /\ s \in States /\ s.pc = "relink" /\ s.user = u /\ s.address = request[p].address
        /\ s.read = request[p].read /\ s.seen = ChangeLinks(u)
    <3>1. ChangeLinks(u) \subseteq Links
      BY DEF ChangeLinks
    <3> QED BY <2>2, <3>1 DEF States
  <2> HIDE DEF s
  <2>4. request'[p] = s
    BY <2>1, <2>3, BecomeFields DEF IInv
  <2>5. OpenedFits(p)' /\ LookedFits(p)' /\ InHand(p)'
    BY <2>2, <2>3, <2>4 DEF OpenedFits, LookedFits, InHand
  <2>6. RelinkFits(p)'
    BY <2>1, <2>3, <2>4 DEF RelinkFits, ChangeLinks, Sent
  <2>7. lock \in [Addresses \cup Links -> Requests \cup {None}]
    BY DEF IInv, TypeOK
  <2>8. s.read = s.address \/ ~Writing(s.user)
    BY <2>1, <2>3 DEF IsAsRead
  <2> QED BY <2>1, <2>3, <2>5, <2>6, <2>7, <2>8, GoesOn DEF Fits
<1> QED BY <1>1, <1>2

\* The account of a link that was sent.
LEMMA OwnerOfLink ==
  ASSUME IInv, NEW l \in Links, link[l].status = "sent"
  PROVE  /\ link[l].user \in Users /\ Live(link[l].user)
         /\ user[link[l].user] \in UserRows /\ user[link[l].user].email \in Addresses
         /\ link[l].purpose \in {"verify", "change_email"} /\ link[l].to \in Addresses \cup {None}
<1>1. Live(link[l].user)
  BY DEF IInv, LinkFits
<1>2. link[l].user \in Users /\ UserFits(link[l].user)
  BY <1>1 DEF IInv, Live
<1> QED BY <1>1, <1>2 DEF IInv, TypeOK, UserFits, LinkRows

LEMMA OpenLinkKeeps ==
  ASSUME IInv, NEW p \in Requests, NEW l \in Links, OpenLink(p, l) PROVE IInv'
<1> DEFINE u == link[l].user
           a == IF link[l].purpose = "verify" THEN user[u].email ELSE user[u].pending
           s == [Idle EXCEPT !.pc = "open", !.user = u, !.link = l, !.address = a,
                             !.version = user[u].version, !.read = user[u].email]
<1>1. /\ Become(p, s) /\ Lock(p, l) /\ Free(l) /\ link[l].status = "sent" /\ a # None
      /\ UNCHANGED <<user, identity, link>>
  BY DEF OpenLink
<1>2. u \in Users /\ user[u] \in UserRows /\ a \in Addresses /\ user[u].version \in Nat
  <2>1. u \in Users /\ user[u] \in UserRows
    BY <1>1, OwnerOfLink
  <2> QED BY <1>1, <2>1 DEF UserRows
<1>3. /\ s \in States /\ s.pc = "open" /\ s.user = u /\ s.link = l /\ s.address = a
      /\ s.version \in Nat /\ s.read = user[u].email
  <2>1. user[u].email \in Addresses
    BY <1>1, OwnerOfLink
  <2> QED BY <1>2, <2>1, IdleTyped DEF States
<1> HIDE DEF s
<1>4. request'[p] = s
  BY <1>1, <1>3, BecomeFields DEF IInv
<1>5. /\ lock' \in [Addresses \cup Links -> Requests \cup {None}] /\ lock'[l] = p
      /\ \A x \in Addresses \cup Links : lock[x] \in Requests => lock'[x] = lock[x]
  BY <1>1, LockFields DEF IInv
<1>6. OpenedFits(p)'
  <2>1. link[l].purpose = "change_email" /\ ~user[u].mixed => link[l].to = a
    BY <1>1 DEF IInv, LinkFits, Sent
  <2> QED BY <1>1, <1>2, <1>3, <1>4, <1>5, <2>1 DEF OpenedFits
<1>7. LookedFits(p)' /\ InHand(p)' /\ RelinkFits(p)'
  BY <1>3, <1>4 DEF LookedFits, InHand, RelinkFits
<1> QED BY <1>1, <1>3, <1>5, <1>6, <1>7, GoesOn DEF Fits

LEMMA TakeAddressKeeps == ASSUME IInv, NEW p \in Requests, TakeAddress(p) PROVE IInv'
<1> DEFINE u == request[p].user
           a == request[p].address
           l == request[p].link
           others == Verified(a) \ {u}
           target == IF ~user[u].local /\ others # {} THEN Min(others) ELSE None
           first == [request[p] EXCEPT !.pc = "verify", !.target = target]
           change == [request[p] EXCEPT !.pc = "confirm"]
<1>1. /\ request[p].pc = "open" /\ request[p] \in States
      /\ l \in Links /\ a \in Addresses /\ request[p].version \in Nat
      /\ lock[l] = p /\ link[l].status = "sent" /\ link[l].user = u /\ u \in Users
      /\ ~user[u].moved => user[u].email = request[p].read
      /\ link[l].purpose = "change_email" /\ ~user[u].mixed => link[l].to = a
      /\ link[l].purpose = "verify" /\ ~user[u].moved => user[u].email = a
  <2>1. OpenedFits(p) /\ request[p].pc = "open" /\ request[p] \in States
    BY DEF IInv, TypeOK, TakeAddress, At, Fits
  <2> QED BY <2>1, OwnerOfLink DEF OpenedFits
<1>2. CASE Abort(p)
  BY <1>2, AbortKeeps
<1>3. CASE Lock(p, a) /\ Free(a) /\ UNCHANGED <<user, identity, link>>
  <2>1. /\ lock' \in [Addresses \cup Links -> Requests \cup {None}] /\ lock'[a] = p
        /\ \A x \in Addresses \cup Links : lock[x] \in Requests => lock'[x] = lock[x]
    BY <1>1, <1>3, LockFields DEF IInv
  <2>2. CASE link[l].purpose = "verify" /\ Become(p, first)
    <3>1. target \in Users \cup {None} /\ (target = None /\ ~user[u].local => others = {})
      <4>1. others \subseteq Nat /\ others \subseteq Users
        BY IdsAreNumbers DEF Verified
      <4> QED BY <4>1, MinIsIn, NamesDiffer
    <3> HIDE DEF target
    <3>2. /\ first \in States /\ first.pc = "verify" /\ first.user = u /\ first.address = a
          /\ first.link = l /\ first.version = request[p].version /\ first.target = target
          /\ first.read = request[p].read
      BY <1>1, <3>1 DEF States
    <3> HIDE DEF first
    <3>3. request'[p] = first
      BY <2>2, <3>2, BecomeFields DEF IInv
    <3>4. OpenedFits(p)' /\ InHand(p)' /\ RelinkFits(p)'
      BY <1>1, <1>3, <2>1, <3>2, <3>3 DEF OpenedFits, InHand, RelinkFits
    <3>5. target = None /\ ~user[u].local => Twins(a)' \subseteq {u}
      BY <1>3, <3>1, <3>2, <3>3 DEF Twins, Verified, Live
    <3>6. LookedFits(p)'
      BY <1>1, <1>3, <2>1, <2>2, <3>2, <3>3, <3>5 DEF LookedFits
    <3> QED BY <1>3, <2>1, <2>2, <3>2, <3>4, <3>6, GoesOn DEF Fits
  <2>3. CASE link[l].purpose = "change_email" /\ Become(p, change)
             /\ ~(user[u].local /\ Locals(a) \ {u} # {})
    <3>1. /\ change \in States /\ change.pc = "confirm" /\ change.user = u /\ change.address = a
          /\ change.link = l /\ change.version = request[p].version
          /\ change.read = request[p].read
      BY <1>1 DEF States
    <3> HIDE DEF change
    <3>2. request'[p] = change
      BY <2>3, <3>1, BecomeFields DEF IInv
    <3>3. OpenedFits(p)' /\ InHand(p)' /\ RelinkFits(p)'
      BY <1>1, <1>3, <2>1, <3>1, <3>2 DEF OpenedFits, InHand, RelinkFits
    <3>4. user[u].local => Locals(a)' \subseteq {u}
      BY <1>3, <2>3, <3>1, <3>2 DEF Locals, Live
    <3>5. LookedFits(p)'
      BY <1>1, <1>3, <2>1, <2>3, <3>1, <3>2, <3>4 DEF LookedFits
    <3> QED BY <1>3, <2>1, <2>3, <3>1, <3>3, <3>5, GoesOn DEF Fits
  <2> HIDE DEF first, change
  <2>4. \/ link[l].purpose = "verify" /\ Become(p, first)
        \/ link[l].purpose = "change_email" /\ Become(p, change)
             /\ ~(user[u].local /\ Locals(a) \ {u} # {})
        \/ Abort(p)
    BY DEF TakeAddress, first, change
  <2> QED BY <1>2, <2>2, <2>3, <2>4
<1> QED BY <1>2, <1>3 DEF TakeAddress

------------------------------------------------------------------------------
(* The steps that write.                                                     *)

\* One users row changes, and the requests of Q go on.
LEMMA RowStep ==
  ASSUME IInv, NEW u \in Users, NEW row \in UserRows, user' = [user EXCEPT ![u] = row],
         identity' \in [Subjects -> Users \cup {None}],
         link' \in [Links -> LinkRows], request' \in [Requests -> States],
         lock' \in [Addresses \cup Links -> Requests \cup {None}],
         NEW Q \in SUBSET Requests, \A q \in Q : request'[q] = request[q],
         LocksStay(Q), OpenedStay(Q, u, row), LinksGoOn, RowWasThere(Q, u, row),
         ChangesAgree(Q, u, row),
         \A p \in Requests \ Q : Fits(p)' /\ request'[p].pc # "relink",
         row.status = "live" =>
            /\ row.email \in Addresses
            /\ (row.verified \/ row.moved) /\ ~row.mixed => row.proven,
         row.status = "live" /\ row.local => Locals(row.email) \subseteq {u},
         row.status = "live" /\ row.verified /\ ~row.local /\ ~row.moved =>
            Twins(row.email) \subseteq {u},
         \A l \in Links : LinkFits(l)'
  PROVE  IInv'
<1>1. ASSUME NEW q \in Q PROVE Fits(q)'
  BY OthersGoOn
<1>2. TypeOK'
  BY RowFields DEF IInv, TypeOK
<1>3. LocalsAreOne' /\ TwinsAreOne' /\ \A v \in Users : UserFits(v)'
  BY UsersFit
<1>4. OneWriter'
  <2>1. \A p \in Requests : request'[p].pc = "relink" => request'[p] = request[p]
    OBVIOUS
  <2> QED BY <2>1 DEF IInv, OneWriter, At, IsAsRead
<1> QED BY <1>1, <1>2, <1>3, <1>4 DEF IInv

\* A row whose address is the same, and how it is known.
LEMMA RowAlike ==
  ASSUME IInv, NEW u \in Users, NEW row \in UserRows,
         row.status = user[u].status, row.email = user[u].email, row.local = user[u].local,
         row.verified = user[u].verified, row.moved = user[u].moved,
         row.proven = user[u].proven, user[u].mixed => row.mixed
  PROVE  /\ row.status = "live" =>
               /\ row.email \in Addresses
               /\ (row.verified \/ row.moved) /\ ~row.mixed => row.proven
         /\ row.status = "live" /\ row.local => Locals(row.email) \subseteq {u}
         /\ row.status = "live" /\ row.verified /\ ~row.local /\ ~row.moved =>
               Twins(row.email) \subseteq {u}
         /\ \A Q \in SUBSET Requests : RowWasThere(Q, u, row)
<1>1. row.status = "live" =>
         /\ row.email \in Addresses
         /\ (row.verified \/ row.moved) /\ ~row.mixed => row.proven
  BY DEF IInv, UserFits, Live
<1>2. row.status = "live" /\ row.local => u \in Locals(row.email)
  BY DEF Locals, Live
<1>3. row.status = "live" /\ row.verified /\ ~row.local /\ ~row.moved => u \in Twins(row.email)
  BY DEF Twins, Verified, Live
<1> QED BY <1>1, <1>2, <1>3 DEF IInv, LocalsAreOne, TwinsAreOne, RowWasThere

\* The mail of a request that ends in a session.
LEMMA StoreRegistrationKeeps ==
  ASSUME IInv, NEW p \in Requests, StoreRegistration(p) PROVE IInv'
<1>1. PICK u \in Users : u = NewUser /\ user[u].status = "none"
  BY NewUserIsNew DEF StoreRegistration
<1>2. PICK l \in Links : l = NewLink /\ link[l].status = "none"
  BY NewLinkIsNew DEF StoreRegistration
<1>3. PICK a \in Addresses : a = request[p].address /\ lock[a] = p /\ Locals(a) = {}
  BY DEF IInv, Fits, LookedFits, StoreRegistration, At
<1> DEFINE row == Row(a, TRUE, FALSE)
           new == Link(u, "verify", a, "stored")
           Q == Requests \ {p}
<1>4. /\ user' = [user EXCEPT ![u] = row] /\ link' = [link EXCEPT ![l] = new]
      /\ ThenIssue(p, u, l) /\ Unlock(p) /\ identity' = identity
  BY <1>1, <1>2, <1>3 DEF StoreRegistration
<1>5. /\ row \in UserRows /\ row.status = "live" /\ row.email = a /\ row.local = TRUE
      /\ row.verified = FALSE /\ row.moved = FALSE
  BY RowTyped
<1>6. /\ new \in LinkRows /\ new.status = "stored" /\ new.user = u /\ new.purpose = "verify"
      /\ new.to = a
  BY DEF Link, LinkRows
<1> HIDE DEF row, new
<1>7. /\ request' \in [Requests -> States] /\ \A q \in Q : request'[q] = request[q]
      /\ request'[p].pc = "issue" /\ request'[p].user = u /\ request'[p].link = l
  BY <1>4, IssueFields DEF IInv
<1>8. lock' \in [Addresses \cup Links -> Requests \cup {None}] /\ LocksStay(Q)
  BY <1>4, UnlockFields DEF IInv, LocksStay
<1>9. /\ link' \in [Links -> LinkRows] /\ link'[l] = new
      /\ \A k \in Links \ {l} : link'[k] = link[k]
  BY <1>4, <1>6 DEF IInv, TypeOK
<1>10. /\ identity' \in [Subjects -> Users \cup {None}]
       /\ user'[u] = row /\ \A v \in Users \ {u} : user'[v] = user[v]
  BY <1>4, <1>5, RowFields DEF IInv, TypeOK
<1>11. \A k \in Links : link[k].status \in {"stored", "sent"} => link[k].user # u
  BY <1>1 DEF IInv, LinkFits, Live
<1>12. OpenedStay(Q, u, row) /\ LinksGoOn
  BY <1>2, <1>9, <1>11 DEF OpenedStay, LinksGoOn
<1>13. RowWasThere(Q, u, row)
  BY <1>3, <1>5 DEF RowWasThere
<1>14. \A r \in Requests \ Q : Fits(r)' /\ request'[r].pc # "relink"
  BY <1>6, <1>7, <1>9 DEF Fits, OpenedFits, LookedFits, InHand, RelinkFits
<1>15. ASSUME NEW k \in Links PROVE LinkFits(k)'
  <2>1. CASE k = l
    BY <1>5, <1>6, <1>9, <1>10, <2>1 DEF LinkFits, Sent, Live
  <2>2. CASE k # l
    <3>1. link'[k] = link[k]
      BY <1>9, <2>2
    <3> QED BY <1>4, <1>5, <1>11, <3>1, LinkStays
  <2> QED BY <2>1, <2>2
<1>16. Locals(row.email) \subseteq {u}
  BY <1>3, <1>5
<1>17. ChangesAgree(Q, u, row)
  BY <1>6, <1>9, <1>11 DEF ChangesAgree, Sent
<1> QED BY <1>4, <1>5, <1>7, <1>8, <1>9, <1>10, <1>12, <1>13, <1>14, <1>15, <1>16, <1>17,
           RowStep

LEMMA IssueKeeps == ASSUME IInv, NEW p \in Requests, Issue(p) PROVE IInv'
<1>1. CASE Abort(p)
  BY <1>1, AbortKeeps
<1>2. CASE ~Abort(p)
  <2>1. PICK u \in Users : u = request[p].user
    BY DEF IInv, Fits, InHand, Issue, At
  <2>2. PICK version \in Nat :
           version = IF request[p].version = None THEN user[u].version ELSE request[p].version
    <3>1. user[u] \in UserRows /\ request[p] \in States
      BY DEF IInv, TypeOK
    <3> QED BY <3>1 DEF UserRows, States
  <2> DEFINE row == [user[u] EXCEPT !.sessions = @ \cup {version}]
             x == request[p].link
             Q == Requests \ {p}
             sent(k) == [link[k] EXCEPT !.status = "sent", !.to = user[u].email]
  <2>3. /\ Live(u) /\ user' = [user EXCEPT ![u].sessions = @ \cup {version}]
        /\ link' = [k \in Links |-> IF k = x /\ link[k].status = "stored"
                                    THEN sent(k) ELSE link[k]]
        /\ Become(p, Idle) /\ Unlock(p) /\ identity' = identity
    <3> DEFINE w == request[p].user
               v == IF request[p].version = None THEN user[w].version ELSE request[p].version
    <3>1. /\ Live(w) /\ user' = [user EXCEPT ![w].sessions = @ \cup {v}]
          /\ link' = [k \in Links |-> IF k = x /\ link[k].status = "stored"
                        THEN [link[k] EXCEPT !.status = "sent", !.to = user[w].email]
                        ELSE link[k]]
          /\ Become(p, Idle) /\ Unlock(p) /\ identity' = identity
      BY <1>2, Zenon DEF Issue
    <3>2. w = u /\ v = version
      BY <2>1, <2>2
    <3> HIDE DEF w, v
    <3> QED BY <3>1, <3>2, Zenon
  <2>4. /\ row \in UserRows /\ row.status = "live" /\ row.email = user[u].email
        /\ row.local = user[u].local /\ row.verified = user[u].verified
        /\ row.moved = user[u].moved /\ row.proven = user[u].proven
        /\ row.mixed = user[u].mixed /\ row.pending = user[u].pending
        /\ user' = [user EXCEPT ![u] = row] /\ row.status = user[u].status
    <3>1. user \in [Users -> UserRows]
      BY DEF IInv, TypeOK
    <3> QED BY <2>3, <3>1 DEF UserRows, Live
  <2>5. \A k \in Links : k = x /\ link[k].status = "stored" =>
           link[k].user = u /\ link[k].purpose = "verify"
    <3>1. x # None =>
             /\ link[x].status # "none" /\ (link[x].status = "stored" => link[x].user = u)
      <4>1. InHand(p) /\ request[p].pc = "issue"
        BY DEF IInv, Fits, Issue, At
      <4> QED BY <2>1, <4>1 DEF InHand
    <3>2. \A k \in Links : k # None /\ (link[k].status = "stored" => link[k].purpose = "verify")
      BY NamesDiffer DEF IInv, LinkFits
    <3> QED BY <3>1, <3>2
  <2>6. ASSUME NEW k \in Links
        PROVE  /\ sent(k) \in LinkRows /\ sent(k).status = "sent" /\ sent(k).user = link[k].user
               /\ sent(k).purpose = link[k].purpose /\ sent(k).to = user[u].email
    <3>1. link[k] \in LinkRows /\ user[u].email \in Addresses \cup {None}
      BY DEF IInv, TypeOK, UserRows
    <3> QED BY <3>1 DEF LinkRows
  <2>7. \A k \in Links : link[k] \in LinkRows
    BY DEF IInv, TypeOK
  <2> HIDE DEF row, sent
  <2>8. /\ link' \in [Links -> LinkRows]
        /\ \A k \in Links : link'[k] = IF k = x /\ link[k].status = "stored"
                                       THEN sent(k) ELSE link[k]
    BY <2>3, <2>6, <2>7
  <2>9. /\ request' \in [Requests -> States] /\ \A q \in Q : request'[q] = request[q]
        /\ request'[p] = Idle
    BY <2>3, IdleTyped, BecomeFields DEF IInv
  <2>10. lock' \in [Addresses \cup Links -> Requests \cup {None}] /\ LocksStay(Q)
    BY <2>3, UnlockFields DEF IInv, LocksStay
  <2>11. OpenedStay(Q, u, row) /\ LinksGoOn
    <3>1. OpenedStay(Q, u, row)
      BY <2>4, <2>8 DEF OpenedStay
    <3>2. LinksGoOn
      BY <2>6, <2>8 DEF LinksGoOn
    <3> QED BY <3>1, <3>2
  <2>12. \A r \in Requests \ Q : Fits(r)' /\ request'[r].pc # "relink"
    BY <2>9, IdleFits
  <2>13. identity' \in [Subjects -> Users \cup {None}] /\ user'[u] = row
    BY <2>3, <2>4, RowFields DEF IInv, TypeOK
  <2>14. ASSUME NEW k \in Links PROVE LinkFits(k)'
    <3>1. CASE k = x /\ link[k].status = "stored"
      <4>1. /\ link'[k].status = "sent" /\ link'[k].user = u /\ link'[k].purpose = "verify"
            /\ link'[k].to = row.email
        BY <2>4, <2>5, <2>6, <2>8, <3>1
      <4> QED BY <2>4, <2>13, <4>1 DEF LinkFits, Sent, Live
    <3>2. CASE ~(k = x /\ link[k].status = "stored")
      <4>1. link'[k] = link[k]
        BY <2>8, <3>2
      <4> QED BY <2>4, <4>1, LinkStays
    <3> QED BY <3>1, <3>2
  <2>15. RowWasThere(Q, u, row)
    BY <2>4, RowAlike
  <2>16. /\ row.email \in Addresses
         /\ (row.verified \/ row.moved) /\ ~row.mixed => row.proven
         /\ row.local => Locals(row.email) \subseteq {u}
         /\ row.verified /\ ~row.local /\ ~row.moved => Twins(row.email) \subseteq {u}
    BY <2>4, RowAlike
  <2>17. ChangesAgree(Q, u, row)
    BY <2>4, <2>5, <2>6, <2>8 DEF ChangesAgree, Sent
  <2> QED BY <2>4, <2>8, <2>9, <2>10, <2>11, <2>12, <2>13, <2>14, <2>15, <2>16, <2>17, RowStep
<1> QED BY <1>1, <1>2

\* What a lookup found no one has taken: the account joins it, or is a new one.
LEMMA AttachKeeps == ASSUME IInv, NEW p \in Requests, Attach(p) PROVE IInv'
<1> DEFINE Q == Requests \ {p}
<1>1. PICK x \in Subjects : x = request[p].subject
  BY DEF IInv, Fits, LookedFits, Attach, At
<1>2. PICK a \in Addresses : /\ a = request[p].address /\ lock[a] = p
                             /\ request[p].target = None /\ x \in Trusted => Twins(a) = {}
  BY <1>1 DEF IInv, Fits, LookedFits, Attach, At
<1>3. PICK target \in Users \cup {None} : target = request[p].target
  BY DEF IInv, TypeOK, States
<1>4. ASSUME Unlock(p)
      PROVE  lock' \in [Addresses \cup Links -> Requests \cup {None}] /\ LocksStay(Q)
  BY <1>4, UnlockFields DEF IInv, LocksStay
<1>5. CASE Abort(p)
  BY <1>5, AbortKeeps
<1>6. CASE /\ Live(target) /\ identity' = [identity EXCEPT ![x] = target]
           /\ ThenIssue(p, target, None) /\ Unlock(p) /\ UNCHANGED <<user, link>>
  <2>1. /\ target \in Users /\ user[target] \in UserRows
        /\ user' = [user EXCEPT ![target] = user[target]]
    <3>1. target \in Users
      BY <1>6 DEF Live
    <3> QED BY <1>6, <3>1 DEF IInv, TypeOK
  <2>2. /\ request' \in [Requests -> States] /\ \A q \in Q : request'[q] = request[q]
        /\ request'[p].pc = "issue" /\ request'[p].user = target /\ request'[p].link = None
    BY <1>6, <2>1, IssueFields DEF IInv
  <2>3. \A r \in Requests \ Q : Fits(r)' /\ request'[r].pc # "relink"
    BY <2>1, <2>2 DEF Fits, OpenedFits, LookedFits, InHand, RelinkFits
  <2>4. OpenedStay(Q, target, user[target]) /\ LinksGoOn
    BY <1>6 DEF OpenedStay, LinksGoOn
  <2>5. /\ identity' \in [Subjects -> Users \cup {None}] /\ link' \in [Links -> LinkRows]
    BY <1>6, <2>1 DEF IInv, TypeOK
  <2>6. \A l \in Links : LinkFits(l)'
    BY <1>6 DEF IInv, LinkFits, Sent, Live
  <2>7. /\ \A R \in SUBSET Requests : RowWasThere(R, target, user[target])
        /\ user[target].status = "live" =>
            /\ user[target].email \in Addresses
            /\ (user[target].verified \/ user[target].moved) /\ ~user[target].mixed =>
                  user[target].proven
        /\ user[target].status = "live" /\ user[target].local =>
              Locals(user[target].email) \subseteq {target}
        /\ user[target].status = "live" /\ user[target].verified /\ ~user[target].local
              /\ ~user[target].moved => Twins(user[target].email) \subseteq {target}
    BY <2>1, RowAlike
  <2>8. ChangesAgree(Q, target, user[target])
    BY <1>6 DEF ChangesAgree, Sent
  <2> QED BY <1>4, <1>6, <2>1, <2>2, <2>3, <2>4, <2>5, <2>6, <2>7, <2>8, RowStep
<1>7. CASE /\ target = None /\ UserLeft
           /\ user' = [user EXCEPT ![NewUser] = Row(a, FALSE, x \in Trusted)]
           /\ identity' = [identity EXCEPT ![x] = NewUser]
           /\ IF x \in Trusted THEN ThenIssue(p, NewUser, None)
              ELSE Become(p, [Idle EXCEPT !.pc = "invite", !.user = NewUser])
           /\ Unlock(p) /\ UNCHANGED link
  <2>1. PICK u \in Users : u = NewUser /\ user[u].status = "none"
    BY <1>7, NewUserIsNew
  <2> DEFINE trusted == x \in Trusted
  <2>2. trusted \in BOOLEAN
    OBVIOUS
  <2> DEFINE row == Row(a, FALSE, trusted)
             s == [Idle EXCEPT !.pc = "invite", !.user = u]
  <2>3. user' = [user EXCEPT ![u] = row] /\ identity' = [identity EXCEPT ![x] = u]
    BY <1>7, <2>1, Zenon
  <2> HIDE DEF trusted
  <2>4. /\ row \in UserRows /\ row.status = "live" /\ row.email = a /\ row.local = FALSE
        /\ row.verified = trusted /\ row.moved = FALSE /\ row.proven = trusted
    BY <2>2, RowTyped
  <2>5. s \in States /\ s.pc = "invite" /\ s.user = u
    BY IdleTyped DEF States
  <2> HIDE DEF row, s
  <2>6. /\ request' \in [Requests -> States] /\ \A q \in Q : request'[q] = request[q]
        /\ Fits(p)' /\ request'[p].pc # "relink"
    <3>1. CASE x \in Trusted
      <4>1. ThenIssue(p, u, None)
        BY <1>7, <2>1, <3>1
      <4>2. /\ request' \in [Requests -> States] /\ \A q \in Q : request'[q] = request[q]
            /\ request'[p].pc = "issue" /\ request'[p].user = u /\ request'[p].link = None
        BY <4>1, IssueFields DEF IInv
      <4> QED BY <4>2 DEF Fits, OpenedFits, LookedFits, InHand, RelinkFits
    <3>2. CASE x \notin Trusted
      <4>1. Become(p, s)
        BY <1>7, <2>1, <3>2 DEF s
      <4>2. /\ request' \in [Requests -> States] /\ \A q \in Q : request'[q] = request[q]
            /\ request'[p] = s
        BY <2>5, <4>1, BecomeFields DEF IInv
      <4> QED BY <2>5, <4>2 DEF Fits, OpenedFits, LookedFits, InHand, RelinkFits
    <3> QED BY <3>1, <3>2
  <2>7. /\ identity' \in [Subjects -> Users \cup {None}] /\ link' \in [Links -> LinkRows]
        /\ user'[u] = row /\ \A v \in Users \ {u} : user'[v] = user[v]
    BY <1>7, <2>3, <2>4, RowFields DEF IInv, TypeOK
  <2>8. \A k \in Links : link[k].status \in {"stored", "sent"} => link[k].user # u
    BY <2>1 DEF IInv, LinkFits, Live
  <2>9. OpenedStay(Q, u, row) /\ LinksGoOn
    BY <1>7, <2>8 DEF OpenedStay, LinksGoOn
  <2>10. RowWasThere(Q, u, row)
    BY <1>2, <2>4 DEF RowWasThere
  <2>11. ASSUME NEW k \in Links PROVE LinkFits(k)'
    <3>1. link'[k] = link[k]
      BY <1>7
    <3> QED BY <2>3, <2>4, <2>8, <3>1, LinkStays
  <2>12. /\ row.verified => Twins(row.email) \subseteq {u} /\ row.proven
         /\ row.email \in Addresses /\ ~row.local /\ ~row.moved
    BY <1>2, <1>3, <1>7, <2>4 DEF trusted
  <2>13. lock' \in [Addresses \cup Links -> Requests \cup {None}] /\ LocksStay(Q)
    BY <1>4, <1>7
  <2>14. ChangesAgree(Q, u, row)
    BY <1>7, <2>8 DEF ChangesAgree, Sent
  <2> QED BY <2>3, <2>4, <2>6, <2>7, <2>9, <2>10, <2>11, <2>12, <2>13, <2>14, RowStep
<1> QED BY <1>1, <1>2, <1>3, <1>5, <1>6, <1>7 DEF Attach

\* The owner of the account gets one more link, to its present address.
LEMMA MailLinkKeeps == ASSUME IInv, NEW p \in Requests, MailLink(p) PROVE IInv'
<1>1. CASE Abort(p)
  BY <1>1, AbortKeeps
<1>2. CASE ~Abort(p)
  <2>1. PICK l \in Links : l = NewLink /\ link[l].status = "none"
    BY NewLinkIsNew DEF MailLink
  <2>2. PICK u \in Users : u = request[p].user /\ user[u].status = "live"
    <3>1. Live(request[p].user)
      BY <1>2 DEF MailLink
    <3> QED BY <3>1 DEF Live
  <2>3. PICK a \in Addresses : a = user[u].email
    BY <2>2 DEF IInv, UserFits, Live
  <2>4. PICK status \in {"stored", "sent"} :
           /\ link' = [link EXCEPT ![l] = Link(u, "verify", a, status)]
           /\ Become(p, Idle) \/ ThenIssue(p, u, l)
           /\ UNCHANGED <<user, identity, lock>>
    BY <1>2, <2>1, <2>2, <2>3 DEF MailLink
  <2> DEFINE row == user[u]
             new == Link(u, "verify", a, status)
             Q == Requests \ {p}
  <2>5. row \in UserRows /\ user' = [user EXCEPT ![u] = row]
    BY <2>4 DEF IInv, TypeOK
  <2>6. /\ new \in LinkRows /\ new.status = status /\ new.user = u /\ new.purpose = "verify"
        /\ new.to = a
    BY DEF Link, LinkRows
  <2> HIDE DEF new
  <2>7. /\ link' \in [Links -> LinkRows] /\ link'[l] = new
        /\ \A k \in Links \ {l} : link'[k] = link[k]
    BY <2>4, <2>6 DEF IInv, TypeOK, new
  <2>8. /\ request' \in [Requests -> States] /\ \A q \in Q : request'[q] = request[q]
        /\ Fits(p)' /\ request'[p].pc # "relink"
    <3>1. CASE Become(p, Idle)
      BY <3>1, IdleTyped, IdleFits, BecomeFields DEF IInv
    <3>2. CASE ThenIssue(p, u, l)
      <4>1. /\ request' \in [Requests -> States] /\ \A q \in Q : request'[q] = request[q]
            /\ request'[p].pc = "issue" /\ request'[p].user = u /\ request'[p].link = l
        BY <3>2, IssueFields DEF IInv
      <4> QED BY <2>6, <2>7, <4>1 DEF Fits, OpenedFits, LookedFits, InHand, RelinkFits
    <3> QED BY <2>4, <3>1, <3>2
  <2>9. /\ lock' \in [Addresses \cup Links -> Requests \cup {None}] /\ LocksStay(Q)
        /\ identity' \in [Subjects -> Users \cup {None}] /\ user' = user
    BY <2>4 DEF IInv, TypeOK, LocksStay
  <2>10. OpenedStay(Q, u, row) /\ LinksGoOn
    BY <2>1, <2>7 DEF OpenedStay, LinksGoOn
  <2>11. ASSUME NEW k \in Links PROVE LinkFits(k)'
    <3>1. CASE k = l
      BY <2>2, <2>3, <2>6, <2>7, <2>9, <3>1 DEF LinkFits, Sent, Live
    <3>2. CASE k # l
      <4>1. link'[k] = link[k]
        BY <2>7, <3>2
      <4> QED BY <2>2, <2>5, <4>1, LinkStays
    <3> QED BY <3>1, <3>2
  <2>12. RowWasThere(Q, u, row)
    BY <2>5, RowAlike
  <2>13. /\ row.email \in Addresses
         /\ (row.verified \/ row.moved) /\ ~row.mixed => row.proven
         /\ row.local => Locals(row.email) \subseteq {u}
         /\ row.verified /\ ~row.local /\ ~row.moved => Twins(row.email) \subseteq {u}
    BY <2>2, <2>5, RowAlike
  <2>14. ChangesAgree(Q, u, row)
    BY <2>6, <2>7 DEF ChangesAgree, Sent
  <2> QED BY <2>5, <2>7, <2>8, <2>9, <2>10, <2>11, <2>12, <2>13, <2>14, RowStep
<1> QED BY <1>1, <1>2

\* The links a change makes obsolete are open nowhere, so what their openers read
\* is not what it overwrites.
LEMMA StoreChangeKeeps == ASSUME IInv, NEW p \in Requests, StoreChange(p) PROVE IInv'
<1>1. CASE Abort(p)
  BY <1>1, AbortKeeps
<1>2. CASE ~Abort(p)
  <2>1. PICK l \in Links : l = NewLink /\ link[l].status = "none"
    BY NewLinkIsNew DEF StoreChange
  <2>2. PICK u \in Users : u = request[p].user /\ user[u].status = "live"
    <3>1. Live(request[p].user)
      BY <1>2 DEF StoreChange
    <3> QED BY <3>1 DEF Live
  <2>3. PICK a \in Addresses : a = request[p].address
    BY DEF IInv, Fits, InHand, StoreChange, At
  <2>4. PICK C \in SUBSET Links : C = request[p].seen
    BY DEF IInv, TypeOK, States
  <2>5. PICK pending \in Addresses \cup {None} : pending = Pending(p)
    BY <2>2, <2>3 DEF Pending, IInv, TypeOK, UserRows
  <2> DEFINE mixed == user[u].mixed \/ Mixes(p)
             row == [user[u] EXCEPT !.pending = pending, !.mixed = mixed]
             new == Link(u, "change_email", a, "sent")
             Q == Requests \ {p}
             raw(k) == CASE k \in C -> UsedLink [] k = l -> new [] OTHER -> link[k]
  <2>6. /\ user' = [user EXCEPT ![u].pending = pending, ![u].mixed = mixed]
        /\ link' = [k \in Links |-> raw(k)]
        /\ Become(p, Idle) /\ UNCHANGED <<identity, lock>> /\ \A k \in C : Free(k)
    <3> DEFINE w == request[p].user
               b == request[p].address
               After(D, n, r) == [k \in Links |-> CASE k \in D -> UsedLink [] k = n -> r
                                                     [] OTHER -> link[k]]
    <3>1. /\ \A k \in request[p].seen : Free(k)
          /\ user' = [user EXCEPT ![w].pending = Pending(p), ![w].mixed = @ \/ Mixes(p)]
          /\ link' = After(request[p].seen, NewLink, Link(w, "change_email", b, "sent"))
          /\ Become(p, Idle) /\ UNCHANGED <<identity, lock>>
      BY <1>2, Zenon DEF StoreChange
    <3>2. w = u /\ b = a
      BY <2>2, <2>3
    <3> HIDE DEF w, b
    <3>3. user' = [user EXCEPT ![u].pending = pending, ![u].mixed = mixed]
      BY <2>5, <3>1, <3>2, Zenon
    <3>4. link' = [k \in Links |-> raw(k)]
      <4>1. After(C, l, new) = [k \in Links |-> raw(k)]
        BY Zenon
      <4> HIDE DEF After, raw, new
      <4>2. C = request[p].seen /\ l = NewLink /\ new = Link(w, "change_email", b, "sent")
        BY <2>1, <2>4, <3>2 DEF new
      <4>3. link' = After(request[p].seen, NewLink, Link(w, "change_email", b, "sent"))
        BY <3>1
      <4> QED BY <4>1, <4>2, <4>3, Zenon
    <3> QED BY <2>4, <3>1, <3>2, <3>3, <3>4, Zenon
  <2>7. /\ mixed \in BOOLEAN /\ (user[u].mixed => mixed) /\ (~mixed => pending \in {a, None})
        /\ ~mixed => \A q \in Requests \ {p} :
               At(q, "relink") /\ request[q].user = u => request[q].address = a
    <3>1. user[u].mixed \in BOOLEAN
      BY DEF IInv, TypeOK, UserRows
    <3>2. ~Mixes(p) => pending \in {a, None} /\ ~Overlaps(p)
      BY <2>3, <2>5 DEF Mixes
    <3>3. ASSUME ~Overlaps(p), NEW q \in Requests \ {p}, At(q, "relink"), request[q].user = u
          PROVE  request[q].address = a
      <4>1. IsAsRead(q) \/ IsAsRead(p)
        BY <2>2, <3>3 DEF IInv, OneWriter, StoreChange
      <4> QED BY <2>2, <2>3, <3>3, <4>1 DEF Overlaps
    <3> QED BY <3>1, <3>2, <3>3 DEF Mixes
  <2>8. /\ new \in LinkRows /\ new.status = "sent" /\ new.user = u
        /\ new.purpose = "change_email" /\ new.to = a
    BY DEF Link, LinkRows
  <2> HIDE DEF mixed, new
  <2>9. /\ l \notin C
        /\ \A k \in C : link[k].status # "none"
        /\ \A k \in Links \ C :
              Sent(k, "change_email") /\ link[k].user = u /\ ~user[u].mixed => link[k].to = a
    <3>1. RelinkFits(p) /\ request[p].pc = "relink"
      BY DEF IInv, Fits, StoreChange, At
    <3> QED BY <2>1, <2>2, <2>3, <2>4, <3>1 DEF RelinkFits
  <2>10. \A k \in Links : /\ k \in C => raw(k) = UsedLink
                          /\ k \notin C /\ k = l => raw(k) = new
                          /\ k \notin C /\ k # l => raw(k) = link[k]
    BY <2>9
  <2> HIDE DEF raw
  <2>11. \A k \in Links : /\ k \in C => link'[k] = UsedLink
                          /\ k \notin C /\ k = l => link'[k] = new
                          /\ k \notin C /\ k # l => link'[k] = link[k]
    <3>1. \A k \in Links : link'[k] = raw(k)
      BY <2>6, Zenon
    <3> QED BY <2>10, <3>1
  <2>12. /\ row \in UserRows /\ row.status = "live" /\ row.email = user[u].email
         /\ row.local = user[u].local /\ row.verified = user[u].verified
         /\ row.moved = user[u].moved /\ row.proven = user[u].proven
         /\ row.pending = pending /\ row.mixed = mixed /\ row.status = user[u].status
    <3>1. user[u] \in UserRows
      BY DEF IInv, TypeOK
    <3> QED BY <2>2, <2>7, <3>1 DEF UserRows
  <2>13. user' = [user EXCEPT ![u] = row]
    <3>1. user \in [Users -> UserRows] /\ user[u] \in UserRows
      BY DEF IInv, TypeOK
    <3>2. user' = [user EXCEPT ![u].pending = pending, ![u].mixed = mixed]
      BY <2>6
    <3> QED BY <3>1, <3>2 DEF UserRows
  <2> HIDE DEF row
  <2>14. link' \in [Links -> LinkRows]
    <3>1. \A k \in Links : raw(k) \in LinkRows
      BY <2>8, <2>10, UsedTyped DEF IInv, TypeOK
    <3> QED BY <2>6, <3>1
  <2>15. /\ request' \in [Requests -> States] /\ \A q \in Q : request'[q] = request[q]
         /\ request'[p] = Idle
    BY <2>6, IdleTyped, BecomeFields DEF IInv
  <2>16. /\ lock' \in [Addresses \cup Links -> Requests \cup {None}] /\ LocksStay(Q)
         /\ identity' \in [Subjects -> Users \cup {None}]
    BY <2>6 DEF IInv, TypeOK, LocksStay
  <2>17. OpenedStay(Q, u, row)
    <3>1. \A k \in Links : lock[k] \in Q => k \notin C
      BY <2>6, NamesDiffer DEF Free
    <3> QED BY <2>1, <2>7, <2>9, <2>11, <2>12, <2>13, <3>1 DEF OpenedStay, Sent
  <2>18. LinksGoOn
    BY <2>1, <2>11, UsedTyped DEF LinksGoOn
  <2>19. \A r \in Requests \ Q : Fits(r)' /\ request'[r].pc # "relink"
    BY <2>15, IdleFits
  <2>20. user'[u] = row
    BY <2>7, <2>12, <2>13, RowFields DEF IInv
  <2>21. ChangesAgree(Q, u, row)
    <3>1. ASSUME NEW k \in Links, Sent(k, "change_email")'
          PROVE  \/ /\ Sent(k, "change_email") /\ link'[k] = link[k]
                    /\ link[k].user = u /\ user[u].mixed => row.mixed
                 \/ /\ link'[k].user = u
                    /\ \A q \in Q : At(q, "relink") /\ request[q].user = u =>
                           row.mixed \/ link'[k].to = request[q].address
      <4>1. CASE k = l
        BY <2>7, <2>8, <2>9, <2>11, <2>12, <4>1
      <4>2. CASE k # l
        BY <2>7, <2>11, <2>12, <3>1, <4>2, UsedTyped DEF Sent
      <4> QED BY <4>1, <4>2
    <3> QED BY <3>1 DEF ChangesAgree
  <2>22. ASSUME NEW k \in Links PROVE LinkFits(k)'
    <3>1. CASE k \in C
      BY <2>11, <3>1, UsedFits
    <3>2. CASE k = l
      <4>1. link'[k] = new
        BY <2>9, <2>11, <3>2
      <4>2. user'[u].status = "live" /\ (~user'[u].mixed => user'[u].pending \in {None, new.to})
        BY <2>7, <2>8, <2>12, <2>13, <2>20
      <4> QED BY <2>8, <4>1, <4>2 DEF LinkFits, Sent, Live
    <3>3. CASE k \notin C /\ k # l
      <4>1. link'[k] = link[k]
        BY <2>11, <3>3
      <4>2. Sent(k, "change_email") /\ link[k].user = u /\ ~row.mixed =>
               row.pending \in {None, link[k].to}
        BY <2>7, <2>9, <2>12, <3>3
      <4> QED BY <2>12, <2>13, <4>1, <4>2, LinkStays
    <3> QED BY <3>1, <3>2, <3>3
  <2>23. RowWasThere(Q, u, row)
    BY <2>7, <2>12, <2>13, RowAlike
  <2>24. /\ row.email \in Addresses
         /\ (row.verified \/ row.moved) /\ ~row.mixed => row.proven
         /\ row.local => Locals(row.email) \subseteq {u}
         /\ row.verified /\ ~row.local /\ ~row.moved => Twins(row.email) \subseteq {u}
    BY <2>7, <2>12, <2>13, RowAlike
  <2> QED BY <2>7, <2>12, <2>13, <2>14, <2>15, <2>16, <2>17, <2>18, <2>19, <2>21, <2>22,
             <2>23, <2>24, RowStep
<1> QED BY <1>1, <1>2

------------------------------------------------------------------------------
(* The steps at the end of an opened link.                                   *)

LEMMA UseLinkFields ==
  ASSUME IInv, NEW l \in Links, UseLink(l)
  PROVE  /\ link' \in [Links -> LinkRows] /\ link'[l] = UsedLink
         /\ \A k \in Links \ {l} : link'[k] = link[k]
         /\ \A k \in Links : Sent(k, "change_email")' =>
               Sent(k, "change_email") /\ link'[k] = link[k]
         /\ LinksGoOn
<1>1. /\ link' \in [Links -> LinkRows] /\ link'[l] = UsedLink
      /\ \A k \in Links \ {l} : link'[k] = link[k]
  BY UsedTyped DEF IInv, TypeOK, UseLink
<1> QED BY <1>1, UsedTyped DEF Sent, LinksGoOn

\* The link that p opened, its account and the address it was opened for.
LEMMA OpenedLink ==
  ASSUME IInv, NEW p \in Requests, request[p].pc \in {"verify", "confirm"}
  PROVE  LET r == request[p]
             l == r.link
             u == r.user
             a == r.address
         IN  /\ l \in Links /\ u \in Users /\ a \in Addresses /\ r.version \in Nat
             /\ lock[l] = p /\ lock[a] = p /\ link[l].status = "sent" /\ link[l].user = u
             /\ user[u].status = "live" /\ user[u] \in UserRows
             /\ link[l].to \in Addresses \cup {None}
             /\ ~user[u].moved => user[u].email = r.read
             /\ link[l].purpose = "change_email" /\ ~user[u].mixed => link[l].to = a
             /\ link[l].purpose = "verify" /\ ~user[u].moved => user[u].email = a
<1>1. OpenedFits(p) /\ LookedFits(p)
  BY DEF IInv, Fits
<1> QED BY <1>1, OwnerOfLink DEF OpenedFits, LookedFits, Live

LEMMA MarkVerifiedKeeps == ASSUME IInv, NEW p \in Requests, MarkVerified(p) PROVE IInv'
<1> DEFINE Q == Requests \ {p}
<1>1. request[p].pc = "verify" /\ request[p].target = None
  BY DEF MarkVerified, At
<1>2. PICK u \in Users, l \in Links, a \in Addresses :
         /\ u = request[p].user /\ l = request[p].link /\ a = request[p].address
         /\ lock[l] = p /\ lock[a] = p /\ link[l].status = "sent" /\ link[l].user = u
         /\ user[u].status = "live" /\ user[u] \in UserRows
         /\ link[l].to \in Addresses \cup {None}
         /\ link[l].purpose = "verify" /\ ~user[u].moved => user[u].email = a
  BY <1>1, OpenedLink
<1>3. link[l].purpose = "verify" /\ (~user[u].local => Twins(a) \subseteq {u})
  BY <1>1, <1>2 DEF IInv, Fits, LookedFits
<1>4. PICK proven \in BOOLEAN : proven = (user[u].proven \/ link[l].to = user[u].email)
  BY <1>2 DEF UserRows
<1> DEFINE row == [user[u] EXCEPT !.verified = TRUE, !.proven = proven]
<1>5. /\ user' = [user EXCEPT ![u].verified = TRUE, ![u].proven = proven]
      /\ UseLink(l) /\ ThenIssue(p, u, None) /\ Unlock(p) /\ UNCHANGED identity
  <2>1. /\ user' = [user EXCEPT ![u].verified = TRUE,
                                ![u].proven = @ \/ link[l].to = user[u].email]
        /\ UseLink(l) /\ ThenIssue(p, u, None) /\ Unlock(p) /\ UNCHANGED identity
    BY <1>2, Zenon DEF MarkVerified
  <2> QED BY <1>4, <2>1
<1>6. /\ row \in UserRows /\ row.status = "live" /\ row.email = user[u].email
      /\ row.local = user[u].local /\ row.verified = TRUE /\ row.moved = user[u].moved
      /\ row.mixed = user[u].mixed /\ row.pending = user[u].pending
      /\ row.proven = proven
      /\ user' = [user EXCEPT ![u] = row]
  <2>1. user \in [Users -> UserRows]
    BY DEF IInv, TypeOK
  <2> QED BY <1>2, <1>5, <2>1 DEF UserRows
<1> HIDE DEF row
<1>7. /\ request' \in [Requests -> States] /\ \A q \in Q : request'[q] = request[q]
      /\ request'[p].pc = "issue" /\ request'[p].user = u /\ request'[p].link = None
  BY <1>5, IssueFields DEF IInv
<1>8. /\ lock' \in [Addresses \cup Links -> Requests \cup {None}] /\ LocksStay(Q)
      /\ identity' \in [Subjects -> Users \cup {None}]
  BY <1>5, UnlockFields DEF IInv, TypeOK, LocksStay
<1>9. /\ link' \in [Links -> LinkRows] /\ link'[l] = UsedLink /\ LinksGoOn
      /\ \A k \in Links \ {l} : link'[k] = link[k]
      /\ \A k \in Links : Sent(k, "change_email")' =>
            Sent(k, "change_email") /\ link'[k] = link[k]
  BY <1>5, UseLinkFields
<1>10. ~user[u].moved => row.email = a
  BY <1>2, <1>3, <1>6
<1>11. OpenedStay(Q, u, row) /\ ChangesAgree(Q, u, row)
  BY <1>2, <1>6, <1>9 DEF OpenedStay, ChangesAgree
<1>12. \A r \in Requests \ Q : Fits(r)' /\ request'[r].pc # "relink"
  BY <1>7 DEF Fits, OpenedFits, LookedFits, InHand, RelinkFits
<1>13. ASSUME NEW k \in Links PROVE LinkFits(k)'
  <2>1. CASE k = l
    BY <1>9, <2>1, UsedFits
  <2>2. CASE k # l
    <3>1. link'[k] = link[k]
      BY <1>9, <2>2
    <3> QED BY <1>6, <1>9, <3>1, LinkStays
  <2> QED BY <2>1, <2>2
<1>14. row.email \in Addresses /\ (~row.mixed => row.proven)
  <2>1. UserFits(u) /\ LinkFits(l)
    BY DEF IInv
  <2>2. row.email \in Addresses /\ (user[u].moved /\ ~row.mixed => user[u].proven)
    BY <1>2, <1>6, <2>1 DEF UserFits, Live
  <2>3. ~user[u].moved => link[l].to = row.email
    BY <1>2, <1>3, <1>6, <2>1 DEF LinkFits, Sent
  <2>4. (user[u].proven => proven) /\ (~user[u].moved => proven)
    BY <1>4, <1>6, <2>3
  <2> QED BY <1>6, <2>2, <2>4, Zenon
<1>15. row.local => Locals(row.email) \subseteq {u} /\ u \in Locals(row.email)
  <2>1. row.local => u \in Locals(row.email)
    BY <1>2, <1>6 DEF Locals, Live
  <2> QED BY <1>14, <2>1 DEF IInv, LocalsAreOne
<1>16. ~row.local /\ ~row.moved => Twins(row.email) \subseteq {u} /\ lock[row.email] \notin Q
  BY <1>2, <1>3, <1>6, <1>10
<1>17. RowWasThere(Q, u, row)
  BY <1>15, <1>16 DEF RowWasThere
<1> QED BY <1>6, <1>7, <1>8, <1>9, <1>11, <1>12, <1>13, <1>14, <1>15, <1>16, <1>17, RowStep

LEMMA ConfirmChangeKeeps == ASSUME IInv, NEW p \in Requests, ConfirmChange(p) PROVE IInv'
<1> DEFINE Q == Requests \ {p}
<1>1. request[p].pc = "confirm"
  BY DEF ConfirmChange, At
<1>2. PICK u \in Users, l \in Links, a \in Addresses :
         /\ u = request[p].user /\ l = request[p].link /\ a = request[p].address
         /\ lock[l] = p /\ lock[a] = p /\ link[l].status = "sent" /\ link[l].user = u
         /\ user[u].status = "live" /\ user[u] \in UserRows
         /\ link[l].to \in Addresses \cup {None}
         /\ ~user[u].moved => user[u].email = request[p].read
         /\ link[l].purpose = "change_email" /\ ~user[u].mixed => link[l].to = a
  BY <1>1, OpenedLink
<1>3. link[l].purpose = "change_email" /\ (user[u].local => Locals(a) \subseteq {u})
  BY <1>1, <1>2 DEF IInv, Fits, LookedFits
<1>4. PICK email \in Addresses : email = IF IsAsRead(p) THEN user[u].email ELSE a
  BY <1>2 DEF IInv, UserFits, Live
<1>5. PICK proven \in BOOLEAN :
         proven = (link[l].to = email \/ (IsAsRead(p) /\ user[u].proven))
  OBVIOUS
<1> DEFINE row == [user[u] EXCEPT !.email = email, !.pending = None, !.proven = proven,
                                  !.moved = TRUE]
<1>6. /\ user' = [user EXCEPT ![u].email = email, ![u].pending = None,
                              ![u].proven = proven, ![u].moved = TRUE]
      /\ UseLink(l) /\ ThenIssue(p, u, None) /\ Unlock(p) /\ UNCHANGED identity
  <2> DEFINE w == request[p].user
             m == request[p].link
             e == IF IsAsRead(p) THEN user[w].email ELSE request[p].address
             pr == link[m].to = e \/ (IsAsRead(p) /\ user[w].proven)
  <2>1. /\ user' = [user EXCEPT ![w].email = e, ![w].pending = None,
                                ![w].proven = pr, ![w].moved = TRUE]
        /\ UseLink(m) /\ ThenIssue(p, w, None) /\ Unlock(p) /\ UNCHANGED identity
    BY Zenon DEF ConfirmChange
  <2>2. w = u /\ m = l /\ e = email /\ pr = proven
    BY <1>2, <1>4, <1>5
  <2> HIDE DEF w, m, e, pr
  <2> QED BY <2>1, <2>2, Zenon
<1>7. /\ row \in UserRows /\ row.status = "live" /\ row.email = email /\ row.pending = None
      /\ row.local = user[u].local /\ row.moved = TRUE /\ row.mixed = user[u].mixed
      /\ row.proven = proven /\ user' = [user EXCEPT ![u] = row]
  <2>1. user \in [Users -> UserRows]
    BY DEF IInv, TypeOK
  <2> QED BY <1>2, <1>6, <2>1 DEF UserRows
<1> HIDE DEF row
<1>8. /\ request' \in [Requests -> States] /\ \A q \in Q : request'[q] = request[q]
      /\ request'[p].pc = "issue" /\ request'[p].user = u /\ request'[p].link = None
  BY <1>6, IssueFields DEF IInv
<1>9. /\ lock' \in [Addresses \cup Links -> Requests \cup {None}] /\ LocksStay(Q)
      /\ identity' \in [Subjects -> Users \cup {None}]
  BY <1>6, UnlockFields DEF IInv, TypeOK, LocksStay
<1>10. /\ link' \in [Links -> LinkRows] /\ link'[l] = UsedLink /\ LinksGoOn
       /\ \A k \in Links \ {l} : link'[k] = link[k]
       /\ \A k \in Links : Sent(k, "change_email")' =>
             Sent(k, "change_email") /\ link'[k] = link[k]
  BY <1>6, UseLinkFields
<1>11. OpenedStay(Q, u, row) /\ ChangesAgree(Q, u, row)
  BY <1>2, <1>7, <1>10 DEF OpenedStay, ChangesAgree
<1>12. \A r \in Requests \ Q : Fits(r)' /\ request'[r].pc # "relink"
  BY <1>8 DEF Fits, OpenedFits, LookedFits, InHand, RelinkFits
<1>13. ASSUME NEW k \in Links PROVE LinkFits(k)'
  <2>1. CASE k = l
    BY <1>10, <2>1, UsedFits
  <2>2. CASE k # l
    <3>1. link'[k] = link[k]
      BY <1>10, <2>2
    <3> QED BY <1>7, <3>1, LinkStays
  <2> QED BY <2>1, <2>2
\* If the address was already there, it is what the link was sent to, or a change
\* confirmed before has proved it.
<1>14. ~row.mixed => row.proven
  <2>1. CASE ~IsAsRead(p)
    BY <1>2, <1>3, <1>4, <1>5, <1>7, <2>1
  <2>2. CASE IsAsRead(p)
    <3>1. user[u].moved /\ ~user[u].mixed => user[u].proven
      BY <1>2 DEF IInv, UserFits, Live
    <3>2. ~user[u].moved /\ ~user[u].mixed => link[l].to = email
      BY <1>2, <1>3, <1>4, <2>2 DEF IsAsRead
    <3> QED BY <1>2, <1>5, <1>7, <2>2, <3>1, <3>2 DEF UserRows
  <2> QED BY <2>1, <2>2
<1>15. row.local => Locals(row.email) \subseteq {u} /\ (email # a => u \in Locals(row.email))
  <2>1. CASE IsAsRead(p)
    BY <1>2, <1>4, <1>7, <2>1 DEF IInv, LocalsAreOne, Locals, Live
  <2>2. CASE ~IsAsRead(p)
    BY <1>3, <1>4, <1>7, <2>2
  <2> QED BY <2>1, <2>2
<1>16. RowWasThere(Q, u, row)
  BY <1>2, <1>7, <1>15 DEF RowWasThere
<1> QED BY <1>7, <1>8, <1>9, <1>10, <1>11, <1>12, <1>13, <1>14, <1>15, <1>16, RowStep

LEMMA MergeKeeps == ASSUME IInv, NEW p \in Requests, Merge(p) PROVE IInv'
<1> DEFINE Q == Requests \ {p}
<1>1. CASE Abort(p)
  BY <1>1, AbortKeeps
<1>2. CASE ~Abort(p)
  <2>1. request[p].pc = "verify" /\ request[p].target # None /\ request[p] \in States
    BY DEF Merge, At, IInv, TypeOK
  <2>2. PICK u \in Users, l \in Links, version \in Nat :
           /\ u = request[p].user /\ l = request[p].link /\ version = request[p].version + 1
           /\ lock[l] = p /\ link[l].status = "sent" /\ link[l].user = u
           /\ user[u].status = "live" /\ user[u] \in UserRows
    BY <2>1, OpenedLink
  <2>3. PICK target \in Users : target = request[p].target
    BY <2>1 DEF States
  <2> DEFINE row == [user[u] EXCEPT !.version = version, !.sessions = {}]
  <2>4. /\ user' = [user EXCEPT ![u].version = version, ![u].sessions = {}]
        /\ identity' = [s \in Subjects |-> IF identity[s] = u THEN target ELSE identity[s]]
        /\ UseLink(l) /\ ThenIssue(p, target, None) /\ Unlock(p)
    <3> DEFINE w == request[p].user
               m == request[p].link
               v == request[p].version + 1
               t == request[p].target
    <3>1. /\ user' = [user EXCEPT ![w].version = v, ![w].sessions = {}]
          /\ identity' = [s \in Subjects |-> IF identity[s] = w THEN t ELSE identity[s]]
          /\ UseLink(m) /\ ThenIssue(p, t, None) /\ Unlock(p)
      BY <1>2, Zenon DEF Merge
    <3>2. w = u /\ m = l /\ v = version /\ t = target
      BY <2>2, <2>3
    <3> HIDE DEF w, m, v, t
    <3> QED BY <3>1, <3>2, Zenon
  <2>5. /\ row \in UserRows /\ row.status = user[u].status /\ row.email = user[u].email
        /\ row.local = user[u].local /\ row.verified = user[u].verified
        /\ row.moved = user[u].moved /\ row.proven = user[u].proven
        /\ row.mixed = user[u].mixed /\ row.pending = user[u].pending
        /\ user' = [user EXCEPT ![u] = row]
    <3>1. user \in [Users -> UserRows]
      BY DEF IInv, TypeOK
    <3> QED BY <2>2, <2>4, <3>1 DEF UserRows
  <2> HIDE DEF row
  <2>6. /\ request' \in [Requests -> States] /\ \A q \in Q : request'[q] = request[q]
        /\ request'[p].pc = "issue" /\ request'[p].user = target /\ request'[p].link = None
    BY <2>4, IssueFields DEF IInv
  <2>7. /\ lock' \in [Addresses \cup Links -> Requests \cup {None}] /\ LocksStay(Q)
        /\ identity' \in [Subjects -> Users \cup {None}]
    <3>1. lock' \in [Addresses \cup Links -> Requests \cup {None}] /\ LocksStay(Q)
      BY <2>4, UnlockFields DEF IInv, LocksStay
    <3>2. identity' \in [Subjects -> Users \cup {None}]
      BY <2>4 DEF IInv, TypeOK
    <3> QED BY <3>1, <3>2
  <2>8. /\ link' \in [Links -> LinkRows] /\ link'[l] = UsedLink /\ LinksGoOn
        /\ \A k \in Links \ {l} : link'[k] = link[k]
        /\ \A k \in Links : Sent(k, "change_email")' =>
              Sent(k, "change_email") /\ link'[k] = link[k]
    BY <2>4, UseLinkFields
  <2>9. OpenedStay(Q, u, row) /\ ChangesAgree(Q, u, row)
    BY <2>2, <2>5, <2>8 DEF OpenedStay, ChangesAgree
  <2>10. \A r \in Requests \ Q : Fits(r)' /\ request'[r].pc # "relink"
    BY <2>6 DEF Fits, OpenedFits, LookedFits, InHand, RelinkFits
  <2>11. ASSUME NEW k \in Links PROVE LinkFits(k)'
    <3>1. CASE k = l
      BY <2>8, <3>1, UsedFits
    <3>2. CASE k # l
      <4>1. link'[k] = link[k]
        BY <2>8, <3>2
      <4>2. row.status = "live"
        BY <2>2, <2>5
      <4>3. row.email = user[u].email /\ (~row.moved => ~user[u].moved)
        BY <2>5
      <4>4. row.pending = user[u].pending /\ (user[u].mixed => row.mixed)
        BY <2>5
      <4> QED BY <2>5, <4>1, <4>2, <4>3, <4>4, LinkStays
    <3> QED BY <3>1, <3>2
  <2>12. RowWasThere(Q, u, row)
    BY <2>5, RowAlike
  <2>13. /\ row.status = "live" =>
              /\ row.email \in Addresses
              /\ (row.verified \/ row.moved) /\ ~row.mixed => row.proven
         /\ row.status = "live" /\ row.local => Locals(row.email) \subseteq {u}
         /\ row.status = "live" /\ row.verified /\ ~row.local /\ ~row.moved =>
              Twins(row.email) \subseteq {u}
    BY <2>5, RowAlike
  <2> QED BY <2>5, <2>6, <2>7, <2>8, <2>9, <2>10, <2>11, <2>12, <2>13, RowStep
<1> QED BY <1>1, <1>2

\* A deletion waits for every link of the account that is open.
LEMMA DeleteKeeps == ASSUME IInv, NEW u \in Users, Delete(u) PROVE IInv'
<1> DEFINE row == [NoUser EXCEPT !.status = "deleted"]
<1>1. PICK D \in SUBSET Links : D = LinksOf(u)
  <2>1. LinksOf(u) \in SUBSET Links
    BY DEF LinksOf
  <2> QED BY <2>1, Zenon
<1>2. /\ \A l \in D : Free(l) /\ user' = [user EXCEPT ![u] = row]
      /\ identity' = [s \in Subjects |-> IF identity[s] = u THEN None ELSE identity[s]]
      /\ link' = [l \in Links |-> IF l \in D THEN UsedLink ELSE link[l]]
      /\ UNCHANGED <<lock, request>>
  BY <1>1 DEF Delete
<1>3. row \in UserRows /\ row.status = "deleted"
  BY DEF NoUser, UserRows
<1> HIDE DEF row
<1>4. /\ user' = [user EXCEPT ![u] = row]
      /\ identity' \in [Subjects -> Users \cup {None}]
      /\ lock' \in [Addresses \cup Links -> Requests \cup {None}]
      /\ request' \in [Requests -> States]
  <2>1. user' = [user EXCEPT ![u] = row]
    BY <1>2 DEF Delete, row
  <2> QED BY <1>2, <2>1 DEF IInv, TypeOK
<1>5. /\ link' \in [Links -> LinkRows]
      /\ \A k \in Links : IF k \in D THEN link'[k] = UsedLink ELSE link'[k] = link[k]
  BY <1>2, UsedTyped DEF IInv, TypeOK
<1>6. \A k \in Links : k \notin D /\ link[k].status # "none" => link[k].user # u
  BY <1>1 DEF LinksOf
<1>7. LocksStay(Requests) /\ \A q \in Requests : request'[q] = request[q]
  BY <1>2 DEF LocksStay
<1>8. OpenedStay(Requests, u, row) /\ LinksGoOn
  <2>1. \A k \in Links : lock[k] \in Requests => k \notin D
    BY <1>2, NamesDiffer DEF Free
  <2> QED BY <1>5, <1>6, <2>1, UsedTyped DEF OpenedStay, LinksGoOn
<1>9. RowWasThere(Requests, u, row)
  BY <1>3 DEF RowWasThere
<1>10. ChangesAgree(Requests, u, row)
  BY <1>5, <1>6, UsedTyped DEF ChangesAgree, Sent
<1>11. ASSUME NEW k \in Links PROVE LinkFits(k)'
  <2>1. CASE k \in D
    BY <1>5, <2>1, UsedFits
  <2>2. CASE k \notin D
    <3>1. link'[k] = link[k] /\ ~(link[k].status \in {"stored", "sent"} /\ link[k].user = u)
      BY <1>5, <1>6, <2>2
    <3> QED BY <1>3, <1>4, <3>1, LinkStays
  <2> QED BY <2>1, <2>2
<1> QED BY <1>3, <1>4, <1>5, <1>7, <1>8, <1>9, <1>10, <1>11, RowStep

------------------------------------------------------------------------------
LEMMA InitIInv == Init => IInv
<1> SUFFICES ASSUME Init PROVE IInv
  OBVIOUS
<1>1. /\ \A u \in Users : user[u] = NoUser
      /\ \A l \in Links : link[l] = NoLink
      /\ \A p \in Requests : request[p] = Idle
  BY DEF Init
<1>2. NoUser \in UserRows /\ NoUser.status = "none" /\ NoLink \in LinkRows
      /\ NoLink.status = "none" /\ NoLink.user = None
  BY DEF NoUser, UserRows, NoLink, LinkRows
<1>3. TypeOK
  BY <1>2, IdleTyped DEF Init, TypeOK
<1>4. \A a \in Addresses : Locals(a) = {} /\ Twins(a) = {}
  BY <1>1, <1>2 DEF Locals, Twins, Verified, Live
<1>5. \A u \in Users : UserFits(u)
  BY <1>1, <1>2 DEF UserFits, Live
<1>6. \A l \in Links : LinkFits(l)
  BY <1>1, <1>2 DEF LinkFits, Sent
<1>7. (\A p \in Requests : Fits(p)) /\ OneWriter
  BY <1>1 DEF Idle, Fits, OpenedFits, LookedFits, InHand, RelinkFits, OneWriter, At
<1> QED BY <1>3, <1>4, <1>5, <1>6, <1>7 DEF IInv, LocalsAreOne, TwinsAreOne

LEMMA NextKeeps == IInv /\ [Next]_vars => IInv'
<1> SUFFICES ASSUME IInv, [Next]_vars PROVE IInv'
  OBVIOUS
<1>1. ASSUME NEW p \in Requests, Start(p) PROVE IInv'
  <2>1. ASSUME NEW a \in Addresses, Register(p, a) PROVE IInv'
    BY <2>1, RegisterKeeps
  <2>2. ASSUME NEW a \in Addresses, NEW s \in Subjects, Social(p, s, a) PROVE IInv'
    BY <2>2, SocialKeeps
  <2>3. ASSUME NEW a \in Addresses, NEW u \in Users, AskChange(p, u, a) PROVE IInv'
    BY <2>3, AskChangeKeeps
  <2>4. ASSUME NEW u \in Users, Resend(p, u) PROVE IInv'
    BY <2>4, ResendKeeps
  <2>5. ASSUME NEW l \in Links, OpenLink(p, l) PROVE IInv'
    BY <2>5, OpenLinkKeeps
  <2> QED BY <1>1, <2>1, <2>2, <2>3, <2>4, <2>5 DEF Start
<1>2. ASSUME NEW p \in Requests, Step(p) PROVE IInv'
  BY <1>2, StoreRegistrationKeeps, IssueKeeps, AttachKeeps, MailLinkKeeps, BeginChangeKeeps,
     StoreChangeKeeps, TakeAddressKeeps, ConfirmChangeKeeps, MarkVerifiedKeeps, MergeKeeps DEF Step
<1>3. ASSUME NEW p \in Requests, Fail(p) PROVE IInv'
  BY <1>3, AbortKeeps DEF Fail
<1>4. ASSUME NEW u \in Users, Delete(u) PROVE IInv'
  BY <1>4, DeleteKeeps
<1>5. CASE UNCHANGED vars
  <2>1. UNCHANGED <<user, identity, link, lock, request>>
    BY <1>5 DEF vars
  <2>2. TypeOK' /\ LocalsAreOne' /\ TwinsAreOne'
    BY <2>1 DEF IInv, TypeOK, LocalsAreOne, TwinsAreOne, Locals, Twins, Verified, Live
  <2>3. (\A u \in Users : UserFits(u)') /\ (\A l \in Links : LinkFits(l)')
    BY <2>1 DEF IInv, UserFits, LinkFits, Sent, Live
  <2>4. (\A p \in Requests : Fits(p)') /\ OneWriter'
    <3>1. ASSUME NEW p \in Requests PROVE Fits(p)'
      <4>1. OpenedFits(p)' /\ LookedFits(p)'
        BY <2>1 DEF IInv, Fits, OpenedFits, LookedFits, Locals, Twins, Verified, Live
      <4>2. InHand(p)' /\ RelinkFits(p)'
        BY <2>1 DEF IInv, Fits, InHand, RelinkFits, Sent
      <4> QED BY <4>1, <4>2 DEF Fits
    <3>2. OneWriter'
      BY <2>1 DEF IInv, OneWriter, At, IsAsRead
    <3> QED BY <3>1, <3>2
  <2> QED BY <2>2, <2>3, <2>4 DEF IInv
<1> QED BY <1>1, <1>2, <1>3, <1>4, <1>5 DEF Next

\* The accounts, their links and what every request under way has read of them
\* agree, in every order of registrations, sign-ins, verifications, changes of
\* address, merges, deletions and failures.
THEOREM Invariance == Spec => []IInv
<1> QED BY InitIInv, NextKeeps, PTL DEF Spec

\* A set without two different members has at most one.
LEMMA AtMostOne ==
  ASSUME NEW S, \A x, y \in S : x = y PROVE Cardinality(S) <= 1
<1>1. CASE S = {}
  BY <1>1, FS_EmptySet
<1>2. CASE S # {}
  <2>1. PICK x \in S : S = {x}
    BY <1>2
  <2> QED BY <2>1, FS_Singleton
<1> QED BY <1>1, <1>2

\* At most one local account has an address, so unique_local_email never refuses
\* a request: what each looks for under the address's lock is enough.
THEOREM AddressHasOneAccount == Spec => []OneLocal
<1>1. IInv => OneLocal
  BY AtMostOne DEF IInv, LocalsAreOne, OneLocal
<1> QED BY <1>1, Invariance, PTL

\* The owner of a verified account has answered from the mailbox of its address,
\* except where a pending address was asked for again while a change to another
\* was stored, or was about to be.
THEOREM VerificationProves == Spec => []VerifiedIsProven
<1>1. IInv => VerifiedIsProven
  BY DEF IInv, UserFits, VerifiedIsProven
<1> QED BY <1>1, Invariance, PTL

\* Provider accounts verified for one address are merged into one.
THEOREM TwinsAreMerged == Spec => []NoTwins
<1>1. IInv => NoTwins
  BY AtMostOne DEF IInv, TwinsAreOne, Twins, NoTwins
<1> QED BY <1>1, Invariance, PTL
==============================================================================
