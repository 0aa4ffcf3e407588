------------------------------ MODULE TwoFactor ------------------------------
(***************************************************************************)
(* The second factor of one account (backend/app/auth/routes.py, tokens.py): *)
(* enrolment, backup codes, the second step of a sign-in, switching it off.  *)
(*                                                                          *)
(* A request reads the account and its backup codes without a lock, and      *)
(* commits later.  The users row is written before the codes are deleted and *)
(* inserted, so two commits that change them follow one another.  A code of  *)
(* the authenticator changes nothing when it is accepted: a sign-in with it  *)
(* is left out.  A session being opened is an entry of uses.                 *)
(***************************************************************************)
EXTENDS Naturals, FiniteSets

CONSTANTS
    Requests,    \* requests the API serves at a time
    Numbers,     \* the codes of a set
    None,
    MaxSecrets,  \* bound on the enrolments started
    MaxSets      \* bound on the sets of backup codes

Secrets == 1..MaxSecrets
Sets == 1..MaxSets
Codes == Sets \X Numbers

ASSUME BoundAssumption == MaxSecrets \in Nat /\ MaxSets \in Nat
ASSUME NoneAssumption == None \notin Secrets \cup Codes

VARIABLES
    account,  \* totp_enabled and totp_secret, and the numbers given out so far
    row,      \* row[c]: the backup_codes row of a code
    request,  \* request[p]: what p keeps in local variables
    proven,   \* history: the secrets the owner has shown a code of
    raced,    \* history: secrets written or enabled on what was read too early
    tied,     \* history: codes that two requests had looked up at a time
    uses      \* history: how often a code was accepted

vars == <<account, row, request, proven, raced, tied, uses>>

\* enabled and secret are the account as it was read.
Idle == [pc |-> "idle", enabled |-> FALSE, aim |-> None, secret |-> None, code |-> None]

Init ==
    /\ account = [enabled |-> FALSE, secret |-> None, secrets |-> 0, sets |-> 0]
    /\ row = [c \in Codes |-> "none"]
    /\ request = [p \in Requests |-> Idle]
    /\ proven = {}
    /\ raced = {}
    /\ tied = {}
    /\ uses = [c \in Codes |-> 0]

------------------------------------------------------------------------------
At(p, pc) == request[p].pc = pc
Become(p, state) == request' = [request EXCEPT ![p] = state]

\* Mutant: a new secret may be asked for at any time.
AskEnableAlways(p) ==
    /\ At(p, "idle")
    /\ Become(p, [Idle EXCEPT !.pc = "enable", !.enabled = account.enabled])
    /\ UNCHANGED <<account, row, proven, raced, tied, uses>>

\* enable_2fa: the account is read ...
AskEnable(p) ==
    /\ At(p, "idle") /\ ~account.enabled
    /\ Become(p, [Idle EXCEPT !.pc = "enable", !.enabled = account.enabled])
    /\ UNCHANGED <<account, row, proven, raced, tied, uses>>

\* ... and gets a new secret, confirmed meanwhile or not.
Enable(p) ==
    LET secret == account.secrets + 1
    IN  /\ At(p, "enable") /\ secret \in Secrets
        /\ account' = [account EXCEPT !.secret = secret, !.secrets = secret]
        /\ raced' = IF account.enabled # request[p].enabled THEN raced \cup {secret} ELSE raced
        /\ Become(p, Idle)
        /\ UNCHANGED <<row, proven, tied, uses>>

\* confirm_2fa: the account is read, and the code fits the secret that was read.
AskConfirm(p) ==
    /\ At(p, "idle") /\ ~account.enabled /\ account.secret # None
    /\ Become(p, [Idle EXCEPT !.pc = "confirm", !.secret = account.secret])
    /\ proven' = proven \cup {account.secret}
    /\ UNCHANGED <<account, row, raced, tied, uses>>

\* SQLAlchemy writes totp_enabled only: the secret is what the row now has.
Confirm(p) ==
    LET set == account.sets + 1
    IN  /\ At(p, "confirm") /\ set \in Sets
        /\ account' = [account EXCEPT !.enabled = TRUE, !.sets = set]
        /\ row' = [c \in Codes |-> IF c[1] = set THEN "unused" ELSE "none"]
        /\ raced' = IF account.secret # request[p].secret THEN raced \cup {account.secret} ELSE raced
        /\ Become(p, Idle)
        /\ UNCHANGED <<proven, tied, uses>>

------------------------------------------------------------------------------
\* login_2fa and disable_2fa: the account has a second factor.  The owner may
\* disable it with the password or the authenticator, without a backup code.
Begin(p, aim) ==
    /\ At(p, "idle") /\ account.enabled
    /\ \/ Become(p, [Idle EXCEPT !.pc = "look", !.aim = aim])
       \/ aim = "disable" /\ Become(p, [Idle EXCEPT !.pc = "disable"])
    /\ UNCHANGED <<account, row, proven, raced, tied, uses>>

\* Mutant: used codes are selected, too.
LookAtAll(p, c) ==
    /\ At(p, "look") /\ row[c] # "none"
    /\ Become(p, [request[p] EXCEPT !.pc = "use", !.code = c])
    /\ tied' = IF \E q \in Requests : At(q, "use") /\ request[q].code = c
               THEN tied \cup {c} ELSE tied
    /\ UNCHANGED <<account, row, proven, raced, uses>>

\* The unused codes are selected, without a lock.
Look(p, c) ==
    /\ At(p, "look") /\ row[c] = "unused"
    /\ Become(p, [request[p] EXCEPT !.pc = "use", !.code = c])
    /\ tied' = IF \E q \in Requests : At(q, "use") /\ request[q].code = c
               THEN tied \cup {c} ELSE tied
    /\ UNCHANGED <<account, row, proven, raced, uses>>

\* The row may have been deleted since: an error.
UseCode(p) ==
    LET c == request[p].code
    IN  /\ At(p, "use")
        /\ \/ /\ row[c] # "none"
              /\ row' = [row EXCEPT ![c] = "used"]
              /\ uses' = [uses EXCEPT ![c] = @ + 1]
              /\ Become(p, IF request[p].aim = "disable" THEN [Idle EXCEPT !.pc = "disable"] ELSE Idle)
           \/ /\ row[c] = "none"
              /\ Become(p, Idle) /\ UNCHANGED <<row, uses>>
        /\ UNCHANGED <<account, proven, raced, tied>>

\* Mutant: the codes stay.
DisableKeepsCodes(p) ==
    /\ At(p, "disable")
    /\ account' = [account EXCEPT !.enabled = FALSE, !.secret = None]
    /\ Become(p, Idle)
    /\ UNCHANGED <<row, proven, raced, tied, uses>>

Disable(p) ==
    /\ At(p, "disable")
    /\ account' = [account EXCEPT !.enabled = FALSE, !.secret = None]
    /\ row' = [c \in Codes |-> "none"]
    /\ Become(p, Idle)
    /\ UNCHANGED <<proven, raced, tied, uses>>

\* A wrong code, a lost connection, a crash.
Fail(p) ==
    /\ ~At(p, "idle")
    /\ Become(p, Idle)
    /\ UNCHANGED <<account, row, proven, raced, tied, uses>>

Next ==
    \E p \in Requests :
        \/ AskEnable(p) \/ Enable(p) \/ AskConfirm(p) \/ Confirm(p)
        \/ \E aim \in {"sign in", "disable"} : Begin(p, aim)
        \/ \E c \in Codes : Look(p, c)
        \/ UseCode(p) \/ Disable(p) \/ Fail(p)

Spec == Init /\ [][Next]_vars

------------------------------------------------------------------------------
States == [pc : {"idle", "enable", "confirm", "look", "use", "disable"},
           enabled : BOOLEAN, aim : {None, "sign in", "disable"},
           secret : Secrets \cup {None}, code : Codes \cup {None}]

\* Every variable keeps its type.
TypeOK ==
    /\ account \in [enabled : BOOLEAN, secret : Secrets \cup {None},
                    secrets : 0..MaxSecrets, sets : 0..MaxSets]
    /\ row \in [Codes -> {"none", "unused", "used"}]
    /\ request \in [Requests -> States]
    /\ uses \in [Codes -> Nat]

(* Exactly the backup codes that were shown last exist, while the second      *)
(* factor is on: however confirmations, switching off and the use of codes    *)
(* overlap, no code of an earlier enrolment comes back.                       *)
CodesMatch ==
    \A c \in Codes : row[c] # "none" <=> account.enabled /\ c[1] = account.sets

(* The second factor is on only with a secret whose owner has shown a code of *)
(* it (AUTH.md: one valid code before it turns on), unless the secret changed *)
(* under a confirmation, or was asked for before one.                         *)
SecretIsProven == account.enabled => account.secret \in proven \cup raced

(* A backup code is accepted once, unless two requests had found it unused    *)
(* before either marked it.                                                   *)
SingleUse == \A c \in Codes : uses[c] > 1 => c \in tied
==============================================================================
