------------------------------- MODULE Accounts -------------------------------
(***************************************************************************)
(* Who owns which address (backend/app/auth/routes.py, oauth.py, email.py): *)
(* registration, social sign-in, verification, the merge of a provider      *)
(* account into a verified one, change of address, deletion.                *)
(*                                                                          *)
(* Three things serialise these requests: the advisory lock of an address,  *)
(* the row of the link that is opened (SELECT ... FOR UPDATE), and the users *)
(* row from an UPDATE to the commit.  What a request read before it waits    *)
(* for one stays in its record.  The partial unique index on local addresses *)
(* is left out: OneLocal shows that no request ever runs into it.           *)
(***************************************************************************)
EXTENDS Naturals, FiniteSets, FiniteSetsExt

CONSTANTS
    Requests,    \* requests the API serves at a time
    Addresses,   \* e-mail addresses
    Subjects,    \* (provider, subject) pairs
    Trusted,     \* those whose provider vouches for the address (Google)
    None,
    MaxUsers,    \* bound on the users rows inserted
    MaxLinks     \* bound on the email_tokens rows inserted

Users == 1..MaxUsers
Links == 1..MaxLinks

ASSUME BoundAssumption == MaxUsers \in Nat \ {0} /\ MaxLinks \in Nat \ {0}
ASSUME SetAssumption ==
    /\ Trusted \subseteq Subjects
    /\ (Links \cup Users) \cap (Addresses \cup {None}) = {}
    /\ None \notin Requests \cup Addresses \cup Nat

VARIABLES
    user,      \* user[u]: the users row and its open sessions
    identity,  \* identity[s]: the user a social_identities row points to
    link,      \* link[l]: an email_tokens row and where it was mailed
    lock,      \* lock[x]: who holds an address's advisory lock or a link's row
    request    \* request[p]: what p keeps in local variables

vars == <<user, identity, link, lock, request>>

\* sessions: the token_version of each open session.  History: whether the user
\* answered from the mailbox of the present address, whether a change of it was
\* confirmed, and whether a link went out for another address than the pending
\* one, or between the statements of a change to another.
NoUser == [status |-> "none", email |-> None, pending |-> None, verified |-> FALSE,
           local |-> FALSE, version |-> 0, sessions |-> {},
           proven |-> FALSE, moved |-> FALSE, mixed |-> FALSE]

NoLink == [status |-> "none", user |-> None, purpose |-> "verify", to |-> None]

\* Of a used row nothing is read again.
UsedLink == [NoLink EXCEPT !.status = "used"]

\* read: the column that is to be written, as it was read (pending_email in
\* update_profile, email in verify); seen: the links that an UPDATE has found.
Idle == [pc |-> "idle", user |-> None, link |-> None, address |-> None, subject |-> None,
         target |-> None, version |-> None, read |-> None, seen |-> {}]

Init ==
    /\ user = [u \in Users |-> NoUser]
    /\ identity = [s \in Subjects |-> None]
    /\ link = [l \in Links |-> NoLink]
    /\ lock = [x \in Addresses \cup Links |-> None]
    /\ request = [p \in Requests |-> Idle]

------------------------------------------------------------------------------
At(p, pc) == request[p].pc = pc

Become(p, state) == request' = [request EXCEPT ![p] = state]

Free(x) == lock[x] = None
Lock(p, x) == lock' = [lock EXCEPT ![x] = p]
Unlock(p) == lock' = [x \in DOMAIN lock |-> IF lock[x] = p THEN None ELSE lock[x]]

Live(u) == u \in Users /\ user[u].status = "live"
Locals(a) == {u \in Users : Live(u) /\ user[u].local /\ user[u].email = a}
Verified(a) == {u \in Users : Live(u) /\ user[u].verified /\ user[u].email = a}
IdentitiesOf(u) == {s \in Subjects : identity[s] = u}

\* Ids are handed out in order.
UserLeft == \E u \in Users : user[u].status = "none"
LinkLeft == \E l \in Links : link[l].status = "none"
NewUser == Min({u \in Users : user[u].status = "none"})
NewLink == Min({l \in Links : link[l].status = "none"})

\* current_user finds a session of the account's present version.
SignedIn(u) == Live(u) /\ user[u].version \in user[u].sessions

Row(a, local, verified) ==
    [NoUser EXCEPT !.status = "live", !.email = a, !.local = local, !.verified = verified,
                   !.proven = verified]

Link(u, purpose, a, status) == [status |-> status, user |-> u, purpose |-> purpose, to |-> a]

\* An error: the transaction rolls back and no mail goes out.
Abort(p) == Become(p, Idle) /\ Unlock(p) /\ UNCHANGED <<user, identity, link>>

\* What was committed is read again before the session is stored.
ThenIssue(p, u, l) ==
    Become(p, [Idle EXCEPT !.pc = "issue", !.user = u, !.link = l])

------------------------------------------------------------------------------
(* Registration, and what ends every sign-in: a session is stored, then the   *)
(* mail goes out in the background.                                           *)

Register(p, a) ==
    /\ At(p, "idle") /\ Free(a) /\ Locals(a) = {}
    /\ Lock(p, a)
    /\ Become(p, [Idle EXCEPT !.pc = "register", !.address = a])
    /\ UNCHANGED <<user, identity, link>>

\* flush inserts the user; email_link commits, which also ends the lock.
StoreRegistration(p) ==
    LET a == request[p].address
    IN  /\ At(p, "register") /\ UserLeft /\ LinkLeft
        /\ user' = [user EXCEPT ![NewUser] = Row(a, TRUE, FALSE)]
        /\ link' = [link EXCEPT ![NewLink] = Link(NewUser, "verify", a, "stored")]
        /\ ThenIssue(p, NewUser, NewLink) /\ Unlock(p)
        /\ UNCHANGED identity

\* The INSERT fails on its foreign key when the user is gone.
Issue(p) ==
    LET u == request[p].user
        version == IF request[p].version = None THEN user[u].version ELSE request[p].version
    IN  /\ At(p, "issue")
        /\ \/ /\ Live(u)
              /\ user' = [user EXCEPT ![u].sessions = @ \cup {version}]
              /\ link' = [l \in Links |->
                     IF l = request[p].link /\ link[l].status = "stored"
                     THEN [link[l] EXCEPT !.status = "sent", !.to = user[u].email]
                     ELSE link[l]]
              /\ Become(p, Idle) /\ Unlock(p)
              /\ UNCHANGED identity
           \/ ~Live(u) /\ Abort(p)

------------------------------------------------------------------------------
(* social_user: the identity, or the verified account with the address the    *)
(* provider vouches for, or a new account.                                    *)

\* Mutant: without the address's lock, and so without what it found under it.
SocialUnlocked(p, s, a) ==
    /\ At(p, "idle")
    /\ IF identity[s] # None
       THEN Become(p, [Idle EXCEPT !.pc = "issue", !.user = identity[s],
                                   !.version = user[identity[s]].version])
       ELSE Become(p, [Idle EXCEPT !.pc = "attach", !.subject = s, !.address = a,
                          !.target = IF s \in Trusted /\ Verified(a) # {}
                                     THEN Min(Verified(a)) ELSE None])
    /\ UNCHANGED <<user, identity, link, lock>>

Social(p, s, a) ==
    /\ At(p, "idle") /\ Free(a)
    /\ Lock(p, a)
    /\ IF identity[s] # None
       THEN Become(p, [Idle EXCEPT !.pc = "issue", !.user = identity[s],
                                   !.version = user[identity[s]].version])
       ELSE Become(p, [Idle EXCEPT !.pc = "attach", !.subject = s, !.address = a,
                          !.target = IF s \in Trusted /\ Verified(a) # {}
                                     THEN Min(Verified(a)) ELSE None])
    /\ UNCHANGED <<user, identity, link>>

Attach(p) ==
    LET s == request[p].subject
        a == request[p].address
        target == request[p].target
    IN  /\ At(p, "attach")
        /\ \/ /\ identity[s] = None /\ Live(target)
              /\ identity' = [identity EXCEPT ![s] = target]
              /\ ThenIssue(p, target, None) /\ Unlock(p)
              /\ UNCHANGED <<user, link>>
           \/ /\ identity[s] = None /\ target = None /\ UserLeft
              /\ user' = [user EXCEPT ![NewUser] = Row(a, FALSE, s \in Trusted)]
              /\ identity' = [identity EXCEPT ![s] = NewUser]
              /\ IF s \in Trusted THEN ThenIssue(p, NewUser, None)
                 ELSE Become(p, [Idle EXCEPT !.pc = "invite", !.user = NewUser])
              /\ Unlock(p) /\ UNCHANGED link
           \/ /\ identity[s] # None \/ (target # None /\ ~Live(target))
              /\ Abort(p)

------------------------------------------------------------------------------
\* resend: the check, and in MailLink the link, mailed to the present address.
Resend(p, u) ==
    /\ At(p, "idle") /\ SignedIn(u) /\ ~user[u].verified
    /\ Become(p, [Idle EXCEPT !.pc = "resend", !.user = u])
    /\ UNCHANGED <<user, identity, link, lock>>

MailLink(p) ==
    LET u == request[p].user
    IN  /\ LinkLeft
        /\ \/ /\ At(p, "resend") /\ Live(u)
              /\ link' = [link EXCEPT ![NewLink] = Link(u, "verify", user[u].email, "sent")]
              /\ Become(p, Idle)
              /\ UNCHANGED <<user, identity, lock>>
           \/ /\ At(p, "invite") /\ Live(u)
              /\ link' = [link EXCEPT ![NewLink] = Link(u, "verify", user[u].email, "stored")]
              /\ ThenIssue(p, u, NewLink)
              /\ UNCHANGED <<user, identity, lock>>
           \/ (At(p, "resend") \/ At(p, "invite")) /\ ~Live(u) /\ Abort(p)

\* update_profile with a new address: the row is read here ...
AskChange(p, u, a) ==
    /\ At(p, "idle") /\ SignedIn(u) /\ a # user[u].email
    /\ user[u].local => Locals(a) \ {u} = {}
    /\ Become(p, [Idle EXCEPT !.pc = "ask", !.user = u, !.address = a,
                              !.read = user[u].pending])
    /\ UNCHANGED <<user, identity, link, lock>>

ChangeLinks(u) ==
    {l \in Links : link[l].user = u /\ link[l].purpose = "change_email"
                                    /\ link[l].status = "sent"}

\* SQLAlchemy writes a column only if it differs from the value that was read:
\* who asks again for the pending address updates no users row.
IsAsRead(p) == request[p].read = request[p].address

\* The users row of u is updated, and not committed.
Writing(u) ==
    \E p \in Requests : At(p, "relink") /\ request[p].user = u /\ ~IsAsRead(p)

\* ... here it is updated, which waits for another's UPDATE of it, and the
\* UPDATE of the links begins, with the links it can see ...
BeginChange(p) ==
    LET u == request[p].user
    IN  /\ At(p, "ask")
        /\ \/ /\ Live(u)
              /\ IsAsRead(p) \/ ~Writing(u)
              /\ Become(p, [request[p] EXCEPT !.pc = "relink", !.seen = ChangeLinks(u)])
              /\ UNCHANGED <<user, identity, link, lock>>
           \/ ~Live(u) /\ Abort(p)

\* Another change is between those statements and its commit, which only one
\* can be that updates the users row.
Overlaps(p) ==
    \E q \in Requests \ {p} :
        /\ At(q, "relink") /\ request[q].user = request[p].user
        /\ request[q].address # request[p].address
        /\ IsAsRead(q) \/ IsAsRead(p)

Pending(p) == IF IsAsRead(p) THEN user[request[p].user].pending ELSE request[p].address

Mixes(p) == Pending(p) \notin {request[p].address, None} \/ Overlaps(p)

\* Mutant: the links to the address asked for before stay good.
StoreChangeKeepsLinks(p) ==
    LET u == request[p].user
    IN  /\ At(p, "relink") /\ LinkLeft /\ Live(u)
        /\ user' = [user EXCEPT ![u].pending = Pending(p), ![u].mixed = @ \/ Mixes(p)]
        /\ link' = [link EXCEPT ![NewLink] =
                                   Link(u, "change_email", request[p].address, "sent")]
        /\ Become(p, Idle)
        /\ UNCHANGED <<identity, lock>>

\* ... and here those links are used up, which waits for the ones that are open,
\* and the new one is inserted and committed.
StoreChange(p) ==
    LET u == request[p].user
    IN  /\ At(p, "relink") /\ LinkLeft /\ \A l \in request[p].seen : Free(l)
        /\ \/ /\ Live(u)
              /\ user' = [user EXCEPT ![u].pending = Pending(p), ![u].mixed = @ \/ Mixes(p)]
              /\ link' = [l \in Links |->
                     CASE l \in request[p].seen -> UsedLink
                       [] l = NewLink -> Link(u, "change_email", request[p].address, "sent")
                       [] OTHER -> link[l]]
              /\ Become(p, Idle)
              /\ UNCHANGED <<identity, lock>>
           \/ ~Live(u) /\ Abort(p)

------------------------------------------------------------------------------
(* verify: consume locks the link's row and reads the user; then the lock of  *)
(* the address that was read.                                                 *)

OpenLink(p, l) ==
    LET u == link[l].user
        a == IF link[l].purpose = "verify" THEN user[u].email ELSE user[u].pending
    IN  /\ At(p, "idle") /\ link[l].status = "sent" /\ Free(l) /\ a # None
        /\ Lock(p, l)
        /\ Become(p, [Idle EXCEPT !.pc = "open", !.user = u, !.link = l, !.address = a,
                                  !.version = user[u].version, !.read = user[u].email])
        /\ UNCHANGED <<user, identity, link>>

\* Mutant: the address is not looked up again.
TakeAddressUnchecked(p) ==
    LET u == request[p].user
        a == request[p].address
        others == Verified(a) \ {u}
    IN  /\ At(p, "open") /\ Free(a)
        /\ Lock(p, a)
        /\ Become(p, [request[p] EXCEPT
               !.pc = IF link[request[p].link].purpose = "verify" THEN "verify" ELSE "confirm",
               !.target = IF ~user[u].local /\ others # {} THEN Min(others) ELSE None])
        /\ UNCHANGED <<user, identity, link>>

\* Under the lock: is the address taken, or is there an account to merge into?
TakeAddress(p) ==
    LET u == request[p].user
        a == request[p].address
        others == Verified(a) \ {u}
    IN  /\ At(p, "open") /\ Free(a)
        /\ \/ /\ link[request[p].link].purpose = "verify"
              /\ Lock(p, a)
              /\ Become(p, [request[p] EXCEPT !.pc = "verify",
                     !.target = IF ~user[u].local /\ others # {} THEN Min(others) ELSE None])
              /\ UNCHANGED <<user, identity, link>>
           \/ /\ link[request[p].link].purpose = "change_email"
              /\ IF user[u].local /\ Locals(a) \ {u} # {}
                 THEN Abort(p)
                 ELSE /\ Lock(p, a)
                      /\ Become(p, [request[p] EXCEPT !.pc = "confirm"])
                      /\ UNCHANGED <<user, identity, link>>

UseLink(l) == link' = [link EXCEPT ![l] = UsedLink]

ConfirmChange(p) ==
    LET u == request[p].user
        l == request[p].link
        email == IF IsAsRead(p) THEN user[u].email ELSE request[p].address
        proven == link[l].to = email \/ (IsAsRead(p) /\ user[u].proven)
    IN  /\ At(p, "confirm") /\ ~Writing(u)
        /\ user' = [user EXCEPT ![u].email = email, ![u].pending = None,
                                ![u].proven = proven, ![u].moved = TRUE]
        /\ UseLink(l) /\ ThenIssue(p, u, None) /\ Unlock(p)
        /\ UNCHANGED identity

MarkVerified(p) ==
    LET u == request[p].user
        l == request[p].link
    IN  /\ At(p, "verify") /\ request[p].target = None
        /\ user[u].verified \/ ~Writing(u)
        /\ user' = [user EXCEPT ![u].verified = TRUE, ![u].proven = @ \/ link[l].to = user[u].email]
        /\ UseLink(l) /\ ThenIssue(p, u, None) /\ Unlock(p)
        /\ UNCHANGED identity

\* The identities move; the account they leave is signed out everywhere.
Merge(p) ==
    LET u == request[p].user
        target == request[p].target
    IN  /\ At(p, "verify") /\ target # None /\ ~Writing(u)
        /\ \/ /\ Live(target) \/ IdentitiesOf(u) = {}
              /\ identity' = [s \in Subjects |-> IF identity[s] = u THEN target ELSE identity[s]]
              /\ user' = [user EXCEPT ![u].version = request[p].version + 1, ![u].sessions = {}]
              /\ UseLink(request[p].link) /\ ThenIssue(p, target, None) /\ Unlock(p)
           \/ /\ ~Live(target) /\ IdentitiesOf(u) # {}
              /\ Abort(p)

------------------------------------------------------------------------------
LinksOf(u) == {l \in Links : link[l].user = u /\ link[l].status # "none"}

\* delete_account, seen from here: it waits for the users row and the links that
\* are open.
Delete(u) ==
    /\ SignedIn(u) /\ ~Writing(u) /\ \A l \in LinksOf(u) : Free(l)
    /\ user' = [user EXCEPT ![u] = [NoUser EXCEPT !.status = "deleted"]]
    /\ identity' = [s \in Subjects |-> IF identity[s] = u THEN None ELSE identity[s]]
    /\ link' = [l \in Links |-> IF l \in LinksOf(u) THEN UsedLink
                                ELSE link[l]]
    /\ UNCHANGED <<lock, request>>

\* A lost connection, a crash, or a deadlock that PostgreSQL breaks.
Fail(p) == ~At(p, "idle") /\ Abort(p)

Start(p) ==
    \/ \E a \in Addresses :
          \/ Register(p, a)
          \/ \E s \in Subjects : Social(p, s, a)
          \/ \E u \in Users : AskChange(p, u, a)
    \/ \E u \in Users : Resend(p, u)
    \/ \E l \in Links : OpenLink(p, l)

Step(p) ==
    \/ StoreRegistration(p) \/ Issue(p) \/ Attach(p) \/ MailLink(p) \/ BeginChange(p)
    \/ StoreChange(p) \/ TakeAddress(p) \/ ConfirmChange(p) \/ MarkVerified(p) \/ Merge(p)

Next ==
    \/ \E p \in Requests : Start(p) \/ Step(p) \/ Fail(p)
    \/ \E u \in Users : Delete(u)

Spec == Init /\ [][Next]_vars

------------------------------------------------------------------------------
UserRows == [status : {"none", "live", "deleted"}, email : Addresses \cup {None},
             pending : Addresses \cup {None}, verified : BOOLEAN, local : BOOLEAN,
             version : Nat, sessions : SUBSET Nat,
             proven : BOOLEAN, moved : BOOLEAN, mixed : BOOLEAN]

LinkRows == [status : {"none", "stored", "sent", "used"}, user : Users \cup {None},
             purpose : {"verify", "change_email"}, to : Addresses \cup {None}]

States == [pc : {"idle", "register", "issue", "attach", "resend", "invite", "ask", "relink",
                 "open", "verify", "confirm"},
           user : Users \cup {None}, link : Links \cup {None},
           address : Addresses \cup {None}, subject : Subjects \cup {None},
           target : Users \cup {None}, version : Nat \cup {None},
           read : Addresses \cup {None}, seen : SUBSET Links]

\* Every variable keeps its type.
TypeOK ==
    /\ user \in [Users -> UserRows]
    /\ identity \in [Subjects -> Users \cup {None}]
    /\ link \in [Links -> LinkRows]
    /\ lock \in [Addresses \cup Links -> Requests \cup {None}]
    /\ request \in [Requests -> States]

(* At most one local account has an address: registration and the change of   *)
(* address look under the address's lock, so that unique_local_email is never *)
(* what refuses them (a refusal by the index is an error 500).                *)
OneLocal == \A a \in Addresses : Cardinality(Locals(a)) <= 1

(* A verified account's owner has answered from the mailbox of its address,   *)
(* whatever links are out, reopened or overtaken by a change of address.      *)
(* Not of an account where the pending address was asked for again while a    *)
(* change to another was stored, or was about to be: the request that asks    *)
(* again holds no row the other one waits for, so the link of one outlives    *)
(* the other and confirms an address it was not sent to.                      *)
VerifiedIsProven ==
    \A u \in Users :
        Live(u) /\ user[u].verified /\ ~user[u].mixed => user[u].proven

(* Two provider accounts are never both verified for an address neither moved *)
(* to: the second is merged into the first, whether Google or a link verifies *)
(* it.                                                                        *)
NoTwins ==
    \A a \in Addresses :
        Cardinality({u \in Verified(a) : ~user[u].local /\ ~user[u].moved}) <= 1
==============================================================================
