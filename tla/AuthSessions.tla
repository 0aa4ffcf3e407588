----------------------------- MODULE AuthSessions -----------------------------
(***************************************************************************)
(* The sessions of one account (backend/app/auth/routes.py, tokens.py):     *)
(* sign-in, refresh rotation, sign-out of one session or of all, password   *)
(* change and reset, deletion of the account.                               *)
(*                                                                          *)
(* The code reads the users row without a lock, works (bcrypt takes a good  *)
(* part of a second) and writes token_version back as the value it read     *)
(* plus one; refresh_tokens and email_tokens rows are locked FOR UPDATE or  *)
(* by an UPDATE.  A step is one database statement, or several that no      *)
(* other transaction can tell apart from one.  Each request commits once,   *)
(* in its last step, so its earlier writes show only as the row locks it    *)
(* holds.                                                                   *)
(***************************************************************************)
EXTENDS Naturals, FiniteSets

CONSTANTS
    Requests,      \* requests the API serves at a time
    Sessions,      \* ids of refresh_tokens rows
    Links,         \* ids of email_tokens rows with purpose 'reset'
    Account,       \* the users row
    Advisory,      \* the advisory locks of delete_account
    None,
    MaxChanges,    \* bound on requests that change token_version
    MaxRotations   \* bound on the rotations of a session

Rows == Sessions \cup Links \cup {Account, Advisory}

ASSUME BoundAssumption == MaxChanges \in Nat /\ MaxRotations \in Nat
ASSUME RowAssumption ==
    /\ Sessions \cap Links = {} /\ Account \notin Sessions \cup Links
    /\ Advisory \notin Sessions \cup Links \cup {Account}
    /\ None \notin Requests \cup Rows
    /\ (Sessions \X (0..MaxRotations)) \cap (Links \cup {None}) = {}
ASSUME RequestAssumption == IsFiniteSet(Requests)

VARIABLES
    account,    \* [exists, version]: the users row
    session,    \* session[s]: status, version and current token of a row
    link,       \* link[l]: "unsent", "sent", "used" or "deleted"
    lock,       \* lock[r]: the request whose transaction holds row r
    request,    \* request[p]: what p keeps in local variables
    changes,    \* requests that change token_version, so far
    epoch,      \* history: how many of them have committed
    lost,       \* history: was a version written over another request's?
    spent       \* history: refresh tokens and links redeemed so far

vars == <<account, session, link, lock, request, changes, epoch, lost, spent>>
history == <<changes, epoch, lost, spent>>

Changing == {"logout-all", "change", "reset"}

\* sid: the request's own session; version, token: as it read them; epoch: the
\* sign-outs committed when it read the version.
Idle == [pc |-> "idle", op |-> "none", sid |-> None, version |-> 0, token |-> 0,
         link |-> None, epoch |-> 0]

\* A just registered account with no session.
Init ==
    /\ account = [exists |-> TRUE, version |-> 0]
    /\ session = [s \in Sessions |->
                    [status |-> "none", version |-> 0, token |-> 0, epoch |-> 0]]
    /\ link = [l \in Links |-> "unsent"]
    /\ lock = [r \in Rows |-> None]
    /\ request = [p \in Requests |-> Idle]
    /\ changes = 0 /\ epoch = 0 /\ lost = FALSE /\ spent = {}

------------------------------------------------------------------------------
At(p, pc) == request[p].pc = pc

Become(p, state) == request' = [request EXCEPT ![p] = state]

Goto(p, pc) == Become(p, [request[p] EXCEPT !.pc = pc])

Existing == {s \in Sessions : session[s].status \notin {"none", "deleted"}}
Unrevoked == {s \in Sessions : session[s].status \in {"open", "expired"}}
SentLinks == {l \in Links : link[l] = "sent"}

\* Row locks: take all of a set, or none and wait; the end of the
\* transaction gives up every one.
Free(p, rows) == \A r \in rows : lock[r] \in {None, p}
Lock(p, rows) == lock' = [r \in Rows |-> IF r \in rows THEN p ELSE lock[r]]
Unlock(p) == lock' = [r \in Rows |-> IF lock[r] = p THEN None ELSE lock[r]]

\* An error leaves the handler: the session of db() rolls back.
Abort(p) ==
    /\ Become(p, Idle) /\ Unlock(p)
    /\ UNCHANGED <<account, session, link, history>>

\* A row id for the session p will insert.
Unclaimed(s) ==
    session[s].status = "none" /\ \A q \in Requests : request[q].sid # s

------------------------------------------------------------------------------
(* Signing in: login checks the password against the row it read, and so     *)
(* does login_2fa a code of the authenticator (TwoFactor.tla).               *)

Login(p, s) ==
    /\ At(p, "idle") /\ account.exists /\ Unclaimed(s)
    /\ Become(p, [Idle EXCEPT !.pc = "issue", !.op = "login", !.sid = s,
                              !.version = account.version, !.epoch = epoch])
    /\ UNCHANGED <<account, session, link, lock, history>>

\* Where the credential is spent by a commit of its own (a backup code, a link
\* of verify_email or register, a provider's sign-in), that commit expires the
\* user, and issue reads it again, token_version with it.
Redeem(p, s) ==
    /\ At(p, "idle") /\ account.exists /\ Unclaimed(s)
    /\ Become(p, [Idle EXCEPT !.pc = "reload", !.op = "login", !.sid = s])
    /\ UNCHANGED <<account, session, link, lock, history>>

\* The user may be gone by then: ObjectDeletedError.
Reload(p) ==
    /\ At(p, "reload")
    /\ IF account.exists
       THEN Become(p, [request[p] EXCEPT !.pc = "issue", !.version = account.version,
                                         !.epoch = epoch])
       ELSE Become(p, Idle)
    /\ UNCHANGED <<account, session, link, lock, history>>

\* Mutant: login commits before issue, which then reads the version again.
IssueRereads(p) ==
    /\ At(p, "issue") /\ account.exists
    /\ session' = [session EXCEPT ![request[p].sid] =
           [status |-> "open", version |-> account.version, token |-> 0,
            epoch |-> request[p].epoch]]
    /\ Become(p, Idle)
    /\ UNCHANGED <<account, link, lock, history>>

\* Mutant: the session is stored one version ahead.
IssueAhead(p) ==
    /\ At(p, "issue") /\ account.exists
    /\ session' = [session EXCEPT ![request[p].sid] =
           [status |-> "open", version |-> request[p].version + 1, token |-> 0,
            epoch |-> request[p].epoch]]
    /\ Become(p, Idle)
    /\ UNCHANGED <<account, link, lock, history>>

\* The INSERT fails on its foreign key once the account is gone.
Issue(p) ==
    /\ At(p, "issue")
    /\ session' = IF account.exists
                  THEN [session EXCEPT ![request[p].sid] =
                          [status |-> "open", version |-> request[p].version,
                           token |-> 0, epoch |-> request[p].epoch]]
                  ELSE session
    /\ Become(p, Idle)
    /\ UNCHANGED <<account, link, lock, history>>

------------------------------------------------------------------------------
(* refresh and logout present a refresh token; refresh_row locks its row.    *)

\* Mutant: refresh_row without FOR UPDATE.
RefreshUnlocked(p, s) ==
    /\ At(p, "idle") /\ session[s].status = "open"
    /\ session[s].token < MaxRotations
    /\ Become(p, [Idle EXCEPT !.pc = "rotate", !.op = "refresh", !.sid = s,
                              !.token = session[s].token])
    /\ UNCHANGED <<account, session, link, lock, history>>

Refresh(p, s) ==
    /\ At(p, "idle") /\ session[s].status = "open" /\ lock[s] = None
    /\ session[s].token < MaxRotations
    /\ Lock(p, {s})
    /\ Become(p, [Idle EXCEPT !.pc = "rotate", !.op = "refresh", !.sid = s,
                              !.token = session[s].token])
    /\ UNCHANGED <<account, session, link, history>>

Rotate(p) ==
    LET s == request[p].sid
    IN  /\ At(p, "rotate")
        /\ IF session[s].version # account.version
           THEN session' = [session EXCEPT ![s].status = "revoked"] /\ UNCHANGED spent
           ELSE /\ session' = [session EXCEPT ![s].token = @ + 1]
                /\ spent' = spent \cup {<<s, request[p].token>>}
        /\ Become(p, Idle) /\ Unlock(p)
        /\ UNCHANGED <<account, link, changes, epoch, lost>>

Logout(s) ==
    /\ session[s].status = "open" /\ lock[s] = None
    /\ session' = [session EXCEPT ![s].status = "revoked"]
    /\ UNCHANGED <<account, link, lock, request, history>>

\* expires_at passes.
Expire(s) ==
    /\ session[s].status = "open"
    /\ session' = [session EXCEPT ![s].status = "expired"]
    /\ UNCHANGED <<account, link, lock, request, history>>

------------------------------------------------------------------------------
(* current_user: the users row, then the session's row.  The client of a     *)
(* session has an access token with that session's version.                  *)

MayStart(op) == op \in Changing => changes < MaxChanges

Count(op) == changes' = IF op \in Changing THEN changes + 1 ELSE changes

Authenticate(p, s, op) ==
    /\ At(p, "idle") /\ account.exists /\ s \in Existing /\ MayStart(op)
    /\ Become(p, [Idle EXCEPT !.pc = "authenticate", !.op = op, !.sid = s,
                              !.version = account.version])
    /\ Count(op)
    /\ UNCHANGED <<account, session, link, lock, epoch, lost, spent>>

Authenticated(p) ==
    LET row == session[request[p].sid]
    IN  /\ At(p, "authenticate")
        /\ IF row.status = "open" /\ row.version = request[p].version
           THEN Goto(p, CASE request[p].op = "revoke" -> "revoke"
                          [] request[p].op = "delete" -> "erase"
                          [] OTHER -> "bump")
           ELSE Become(p, Idle)
        /\ UNCHANGED <<account, session, link, lock, history>>

\* The row to revoke, or 404 if it is gone by now.
RevokeSession(p, s) ==
    /\ At(p, "revoke") /\ lock[s] = None
    /\ session' = IF s \in Existing THEN [session EXCEPT ![s].status = "revoked"] ELSE session
    /\ Become(p, Idle)
    /\ UNCHANGED <<account, link, lock, history>>

------------------------------------------------------------------------------
(* The requests that change token_version: logout_all, change_password and   *)
(* reset.  UPDATE users comes first, then the UPDATEs of the other tables.   *)

Forgot(l) ==
    /\ account.exists /\ link[l] = "unsent"
    /\ link' = [link EXCEPT ![l] = "sent"]
    /\ UNCHANGED <<account, session, lock, request, history>>

\* Mutant: consume without FOR UPDATE.
ResetUnlocked(p, l) ==
    /\ At(p, "idle") /\ link[l] = "sent" /\ MayStart("reset")
    /\ Become(p, [Idle EXCEPT !.pc = "bump", !.op = "reset", !.link = l,
                              !.version = account.version])
    /\ Count("reset")
    /\ UNCHANGED <<account, session, link, lock, epoch, lost, spent>>

\* consume locks the link's row, then reads the user.
Reset(p, l) ==
    /\ At(p, "idle") /\ link[l] = "sent" /\ lock[l] = None /\ MayStart("reset")
    /\ Lock(p, {l})
    /\ Become(p, [Idle EXCEPT !.pc = "bump", !.op = "reset", !.link = l,
                              !.version = account.version])
    /\ Count("reset")
    /\ UNCHANGED <<account, session, link, epoch, lost, spent>>

\* UPDATE users of a row that is gone updates nothing: StaleDataError.
Bump(p) ==
    /\ At(p, "bump") /\ Free(p, {Account})
    /\ \/ /\ account.exists
          /\ Lock(p, {Account})
          /\ Goto(p, "signout")
          /\ UNCHANGED <<account, session, link, history>>
       \/ ~account.exists /\ Abort(p)

\* The session rows the second UPDATE revokes, and the one it keeps.
SignedOutBy(p) ==
    CASE request[p].op = "logout-all" -> Unrevoked
      [] request[p].op = "change" -> Unrevoked \ {request[p].sid}
      [] request[p].op = "reset" -> Existing

Kept(p) == IF request[p].op = "change" THEN {request[p].sid} \cap Existing ELSE {}

UsedBy(p) == IF request[p].op = "reset" THEN SentLinks ELSE {}

\* The version written is the one read plus one: another request's increment
\* since then is lost.
SignOut(p) ==
    LET version == request[p].version + 1
    IN  /\ At(p, "signout")
        /\ Free(p, SignedOutBy(p) \cup Kept(p) \cup UsedBy(p))
        /\ account' = [account EXCEPT !.version = version]
        /\ session' = [s \in Sessions |->
               CASE s \in Kept(p) -> [session[s] EXCEPT !.version = version, !.epoch = epoch + 1]
                 [] s \in SignedOutBy(p) -> [session[s] EXCEPT !.status = "revoked"]
                 [] OTHER -> session[s]]
        /\ link' = [l \in Links |-> IF l \in UsedBy(p) THEN "used" ELSE link[l]]
        /\ epoch' = epoch + 1
        /\ lost' = (lost \/ request[p].version # account.version)
        /\ spent' = spent \cup ({request[p].link} \ {None})
        /\ Become(p, Idle) /\ Unlock(p)
        /\ UNCHANGED changes

------------------------------------------------------------------------------
(* delete_account deletes the session rows, then the email_tokens rows and   *)
(* the user.  A session stored in between still refers to the user: its      *)
(* foreign key refuses the deletion.                                         *)

Erase(p) ==
    /\ At(p, "erase") /\ Free(p, {Advisory} \cup Existing)
    /\ Lock(p, {Advisory} \cup Existing)
    /\ Goto(p, "eraseuser")
    /\ UNCHANGED <<account, session, link, history>>

\* Mutant: only the rows deleted before are looked at.
EraseUserBlindly(p) ==
    /\ At(p, "eraseuser") /\ Free(p, SentLinks \cup {Account})
    /\ account.exists
    /\ account' = [account EXCEPT !.exists = FALSE]
    /\ session' = [s \in Sessions |-> IF lock[s] = p
                      THEN [session[s] EXCEPT !.status = "deleted"] ELSE session[s]]
    /\ link' = [l \in Links |-> IF link[l] = "unsent" THEN "unsent" ELSE "deleted"]
    /\ Become(p, Idle) /\ Unlock(p)
    /\ UNCHANGED history

EraseUser(p) ==
    /\ At(p, "eraseuser") /\ Free(p, SentLinks \cup {Account})
    /\ IF account.exists /\ \A s \in Existing : lock[s] = p
       THEN /\ account' = [account EXCEPT !.exists = FALSE]
            /\ session' = [s \in Sessions |-> IF s \in Existing
                              THEN [session[s] EXCEPT !.status = "deleted"] ELSE session[s]]
            /\ link' = [l \in Links |-> IF link[l] = "unsent" THEN "unsent" ELSE "deleted"]
            /\ Become(p, Idle) /\ Unlock(p)
            /\ UNCHANGED history
       ELSE Abort(p)

------------------------------------------------------------------------------
(* PostgreSQL aborts a transaction of every cycle of waiting transactions; a *)
(* lost connection, a crash or a failed check ends a request at any time.    *)

Needs(p) ==
    CASE At(p, "bump")      -> {Account}
      [] At(p, "signout")   -> SignedOutBy(p) \cup Kept(p) \cup UsedBy(p)
      [] At(p, "erase")     -> {Advisory} \cup Existing
      [] At(p, "eraseuser") -> SentLinks \cup {Account}
      [] OTHER -> {}

Deadlocked(p) ==
    \E group \in SUBSET Requests :
        /\ p \in group
        /\ \A q \in group : \E r \in Needs(q) : lock[r] \in group \ {q}

BreakDeadlock(p) == Deadlocked(p) /\ Abort(p)

Fail(p) == ~At(p, "idle") /\ Abort(p)

------------------------------------------------------------------------------
Start(p) ==
    \/ \E s \in Sessions :
          \/ Login(p, s) \/ Redeem(p, s) \/ Refresh(p, s)
          \/ \E op \in {"revoke", "delete", "logout-all", "change"} : Authenticate(p, s, op)
    \/ \E l \in Links : Reset(p, l)

Step(p) ==
    \/ Reload(p) \/ Issue(p) \/ Rotate(p) \/ Authenticated(p)
    \/ \E s \in Sessions : RevokeSession(p, s)
    \/ Bump(p) \/ SignOut(p) \/ Erase(p) \/ EraseUser(p)

Next ==
    \/ \E p \in Requests :
          Start(p) \/ Step(p) \/ BreakDeadlock(p) \/ Fail(p)
    \/ \E s \in Sessions : Logout(s) \/ Expire(s)
    \/ \E l \in Links : Forgot(l)

Spec == Init /\ [][Next]_vars

------------------------------------------------------------------------------
PCs == {"idle", "reload", "issue", "rotate", "authenticate", "revoke", "bump", "signout",
        "erase", "eraseuser"}
Ops == Changing \cup {"none", "login", "refresh", "revoke", "delete"}

\* Every variable keeps its type.  token_version never exceeds the number of
\* requests that changed it (it may lag behind), nor does a session's.
TypeOK ==
    /\ account \in [exists : BOOLEAN, version : 0..epoch]
    /\ session \in [Sessions -> [status : {"none", "open", "expired", "revoked", "deleted"},
                                 version : 0..epoch, token : 0..MaxRotations, epoch : 0..epoch]]
    /\ link \in [Links -> {"unsent", "sent", "used", "deleted"}]
    /\ lock \in [Rows -> Requests \cup {None}]
    /\ request \in [Requests -> [pc : PCs, op : Ops, sid : Sessions \cup {None},
                                 version : 0..epoch, token : 0..MaxRotations,
                                 link : Links \cup {None}, epoch : 0..epoch]]
    /\ changes \in 0..MaxChanges /\ epoch \in 0..changes /\ lost \in BOOLEAN
    /\ spent \subseteq (Sessions \X (0..MaxRotations)) \cup Links

\* What a request may have in hand when it changes token_version: a session it
\* was authenticated with, or a link.
OpsFit ==
    \A p \in Requests :
        LET r == request[p] IN
        /\ At(p, "authenticate") =>
              /\ r.op \in {"revoke", "delete", "logout-all", "change"}
              /\ r.sid \in Sessions /\ r.link = None
        /\ r.pc \in {"bump", "signout"} =>
              /\ r.op \in Changing /\ (r.op = "reset" <=> r.link # None)
              /\ r.op = "change" => r.sid \in Sessions

\* A request that changes a row holds it, and the row is as it was read.
RowsAreHeld ==
    \A p \in Requests :
        LET r == request[p] IN
        /\ At(p, "rotate") =>
              /\ r.sid \in Sessions /\ lock[r.sid] = p
              /\ session[r.sid].status \in {"open", "expired"}
              /\ session[r.sid].token = r.token /\ r.token < MaxRotations
        /\ r.pc \in {"bump", "signout"} /\ r.link # None =>
              lock[r.link] = p /\ link[r.link] = "sent"
        /\ At(p, "signout") => lock[Account] = p /\ account.exists

SigningIn(p) == request[p].pc \in {"reload", "issue"}

\* The row that a sign-in inserts is in nobody else's hands.
InsertsAreNew ==
    /\ \A p \in Requests : SigningIn(p) =>
          /\ request[p].sid \in Sessions /\ session[request[p].sid].status = "none"
          /\ \A q \in Requests \ {p} : request[q].sid # request[p].sid
    /\ \A s \in Sessions : session[s].status = "none" => session[s].token = 0

\* As long as no increment was lost, versions count the sign-outs.
VersionsAreEpochs ==
    ~lost =>
        /\ account.version = epoch
        /\ \A s \in Sessions : session[s].version = session[s].epoch
        /\ \A p \in Requests : At(p, "issue") => request[p].version = request[p].epoch

\* What was redeemed is behind its row.
SpentIsOver ==
    /\ \A s \in Sessions, t \in 0..MaxRotations :
          <<s, t>> \in spent => t < session[s].token
    /\ \A l \in Links : l \in spent => link[l] \in {"used", "deleted"}

Changers == {p \in Requests : request[p].op \in Changing}

ChangesAreCounted == Cardinality(Changers) + epoch <= changes

\* What current_user and refresh accept.
Usable(s) == session[s].status = "open" /\ session[s].version = account.version

\* After a sign-out everywhere, a password change or a reset, every usable
\* session is one whose user was read later, or the one a password change
\* retains.  The read is the one the credential is checked against (login), so
\* that a sign-in in flight does not escape, but the second one where the
\* credential was committed first: a sign-out before that read escapes it.
AllSignedOut == \A s \in Sessions : Usable(s) => session[s].epoch = epoch

\* The same as long as no increment of token_version was lost, however the
\* requests that increment it overlap with sign-ins, rotations and each other.
SignedOut == ~lost => AllSignedOut

\* However requests overlap, a session that was signed out is never rotated
\* nor opened again.
RevokedStays ==
    [][\A s \in Sessions : session[s].status = "revoked" =>
          /\ session'[s].status \in {"revoked", "deleted"}
          /\ session'[s].token = session[s].token]_vars

Redeems(p, t) ==
    /\ request'[p] # request[p]
    /\ \/ /\ At(p, "rotate") /\ t = <<request[p].sid, request[p].token>>
          /\ session'[request[p].sid].token # session[request[p].sid].token
       \/ At(p, "signout") /\ t = request[p].link /\ epoch' # epoch

\* A refresh token or a reset link is redeemed at most once, whichever
\* requests present it at the same time.
SpentOnce == [][\A p \in Requests : \A t \in spent : ~Redeems(p, t)]_vars

\* A deleted account leaves no session and no live reset link behind, whoever
\* signs in while it is being deleted.
NothingLeft == ~account.exists => Existing = {} /\ SentLinks = {}

\* The strengthening that makes the properties inductive.
IInv ==
    /\ TypeOK /\ NothingLeft /\ OpsFit /\ RowsAreHeld /\ InsertsAreNew
    /\ VersionsAreEpochs /\ SpentIsOver /\ ChangesAreCounted
==============================================================================
