---------------------------- MODULE BrowserSession ----------------------------
(***************************************************************************)
(* The session of one browser (frontend/src/app/auth/auth.service.ts,       *)
(* auth.interceptor.ts, auth.guard.ts, account/account.ts): tabs that share *)
(* a cookie jar, each with its own access token, and a server that rotates  *)
(* the refresh token (backend/app/auth/routes.py, tokens.py).               *)
(*                                                                          *)
(* A request takes what the jar and the tab hold when it is sent; cookies   *)
(* change when an answer arrives.  Requests and answers overtake one another *)
(* at will and may be lost.  An access token stands for its session: it is  *)
(* good for fifteen minutes at most, so the server may always refuse it.    *)
(***************************************************************************)
EXTENDS Naturals, FiniteSets, FiniteSetsExt

CONSTANTS
    Tabs,
    Calls,          \* API calls (notes, action items, sharing) under way at a time
    TabOf,          \* the tab that makes a call
    Sessions,       \* refresh_tokens rows of the user
    None, Cleared,  \* no cookie; the answer that deletes it
    MaxFaults,      \* bound on the requests and answers lost
    MaxInFlight     \* bound on the auth requests under way when a user acts

Kinds == {"refresh", "logout", "act"}

ASSUME TabAssumption == TabOf \in [Calls -> Tabs]
ASSUME BoundAssumption == MaxFaults \in Nat /\ MaxInFlight \in Nat
Cookies == [sid : Sessions, current : BOOLEAN]

ASSUME SessionAssumption == Sessions # {}
ASSUME NoneAssumption == None # Cleared /\ {None, Cleared} \cap (Sessions \cup Cookies) = {}

VARIABLES
    session,  \* session[s]: the row
    jar,      \* the refresh cookie with its csrf cookie, or None
    token,    \* token[t]: the session of the access token a tab keeps, or None
    request,  \* request[t][k]: what a tab asks of /api/auth, of each kind once
    call,     \* call[c]: where a call is that goes through the interceptor
    faults

vars == <<session, jar, token, request, call, faults>>

\* raced is history: two uses of the cookie overlapped, one of its answers was
\* lost, or an answer for another session came in between.
Unused == [status |-> "none", raced |-> FALSE]

\* In place of the refresh token, a cookie tells whether its row accepts it.
Cookie(s) == [sid |-> s, current |-> TRUE]

Quiet == [pc |-> "none", verb |-> "none", cred |-> None, bearer |-> None,
          status |-> "none", cookie |-> None]

First == CHOOSE s \in Sessions : TRUE

\* Of a revoked row nothing else is looked at.
Over == [Unused EXCEPT !.status = "over"]

\* One session is open, and the tabs were just loaded.
Init ==
    /\ session = [s \in Sessions |-> [Unused EXCEPT !.status = IF s = First THEN "open" ELSE "none"]]
    /\ jar = Cookie(First)
    /\ token = [t \in Tabs |-> None]
    /\ request = [t \in Tabs |-> [k \in Kinds |-> Quiet]]
    /\ call = [c \in Calls |-> "none"]
    /\ faults = 0

------------------------------------------------------------------------------
Slots == Tabs \X Kinds

InFlight(t, k) == request[t][k].pc # "none"
Room == Cardinality({x \in Slots : InFlight(x[1], x[2])}) < MaxInFlight
Open(s) == session[s].status = "open"

\* refresh_row finds the row of this cookie.
Accepts(cred) == cred # None /\ cred.current /\ Open(cred.sid)

\* What the row was given before no longer fits.
Outdated(cookie, s) ==
    IF cookie \notin {None, Cleared} /\ cookie.sid = s THEN [cookie EXCEPT !.current = FALSE]
    ELSE cookie

\* Another request under way presents the same row, and one of the two rotates it.
Overlaps(t, k, s) ==
    \E x \in Slots \ {<<t, k>>} :
        LET cred == request[x[1]][x[2]].cred
        IN  "refresh" \in {k, x[2]} /\ cred # None /\ cred.sid = s

\* call(): the cookie and its csrf header, or the access token, of the moment.
Send(t, k, verb) ==
    LET cred == IF k = "act" THEN None ELSE jar
    IN  /\ request' = [request EXCEPT ![t][k] = [Quiet EXCEPT
               !.pc = "sent", !.verb = verb, !.cred = cred,
               !.bearer = IF cred = None THEN token[t] ELSE None]]
        /\ session' = IF cred # None /\ Overlaps(t, k, cred.sid) /\ Open(cred.sid)
                      THEN [session EXCEPT ![cred.sid].raced = TRUE] ELSE session

------------------------------------------------------------------------------
(* What the user does in a tab.                                              *)

\* The page is loaded anew; ensure() will ask for a token.
Load(t) ==
    /\ token[t] # None /\ \A k \in Kinds : ~InFlight(t, k)
    /\ \A c \in Calls : TabOf[c] = t => call[c] = "none"
    /\ token' = [token EXCEPT ![t] = None]
    /\ UNCHANGED <<session, jar, request, call, faults>>

Ensure(t) ==
    /\ token[t] = None /\ ~InFlight(t, "refresh") /\ Room
    /\ Send(t, "refresh", "refresh")
    /\ UNCHANGED <<jar, token, call, faults>>

Logout(t) ==
    /\ token[t] # None /\ ~InFlight(t, "logout") /\ Room
    /\ Send(t, "logout", "logout")
    /\ UNCHANGED <<jar, token, call, faults>>

\* "revoke": the account page revokes the session it is signed in with.
Verbs == {"login", "logout-all", "revoke", "change-password"}

\* busy lets one through at a time.
Act(t, verb) ==
    /\ ~InFlight(t, "act") /\ Room
    /\ (verb = "login") = (token[t] = None)
    /\ Send(t, "act", verb)
    /\ UNCHANGED <<jar, token, call, faults>>

Call(c) ==
    /\ call[c] = "none"
    /\ call' = [call EXCEPT ![c] = "sent"]
    /\ UNCHANGED <<session, jar, token, request, faults>>

------------------------------------------------------------------------------
(* The server.                                                               *)

Answer(t, k, status, cookie) ==
    request' = [request EXCEPT ![t][k].pc = "answer", ![t][k].status = status,
                               ![t][k].cookie = cookie]

\* Without cookies the csrf check says 403; a cookie that is not current, 401.
Refuse(t, k, cred) ==
    /\ ~Accepts(cred)
    /\ Answer(t, k, IF cred = None THEN "forbidden" ELSE "refused", None)
    /\ UNCHANGED session

\* Mutant: the answer does not carry the new cookie.
ServeRefreshSilent(t) ==
    LET cred == request[t]["refresh"].cred
        s == cred.sid
    IN  \/ /\ Accepts(cred)
           /\ jar' = Outdated(jar, s)
           /\ request' = [u \in Tabs |-> [k \in Kinds |->
                  IF <<u, k>> = <<t, "refresh">>
                  THEN [request[u][k] EXCEPT !.pc = "answer", !.status = "ok"]
                  ELSE [request[u][k] EXCEPT !.cred = Outdated(@, s), !.cookie = Outdated(@, s)]]]
           /\ UNCHANGED session
        \/ Refuse(t, "refresh", cred) /\ UNCHANGED jar

ServeRefresh(t) ==
    LET cred == request[t]["refresh"].cred
        s == cred.sid
    IN  \/ /\ Accepts(cred)
           /\ jar' = Outdated(jar, s)
           /\ request' = [u \in Tabs |-> [k \in Kinds |->
                  IF <<u, k>> = <<t, "refresh">>
                  THEN [request[u][k] EXCEPT !.pc = "answer", !.status = "ok", !.cookie = Cookie(s)]
                  ELSE [request[u][k] EXCEPT !.cred = Outdated(@, s), !.cookie = Outdated(@, s)]]]
           /\ UNCHANGED session
        \/ Refuse(t, "refresh", cred) /\ UNCHANGED jar

ServeLogout(t) ==
    LET cred == request[t]["logout"].cred
    IN  \/ /\ Accepts(cred)
           /\ session' = [session EXCEPT ![cred.sid] = Over]
           /\ Answer(t, "logout", "ok", Cleared)
        \/ Refuse(t, "logout", cred)

\* issue: login, register, verify-email; or the credentials are wrong.
ServeLogin(t) ==
    \/ \E s \in Sessions :
          /\ session[s].status = "none"
          /\ session' = [session EXCEPT ![s].status = "open"]
          /\ Answer(t, "act", "ok", Cookie(s))
    \/ Answer(t, "act", "refused", None) /\ UNCHANGED session

\* The sessions that end, by the session of the request; logout-all and revoke
\* delete the cookie, change-password keeps the session of the request.
EndedBy(verb, s) ==
    CASE verb = "logout-all" -> Sessions
      [] verb = "revoke" -> {s}
      [] verb = "change-password" -> Sessions \ {s}

ServeAccount(t) ==
    LET s == request[t]["act"].bearer
        verb == request[t]["act"].verb
        ended == {o \in EndedBy(verb, s) : Open(o)}
    IN  \/ /\ Open(s)
           /\ session' = [o \in Sessions |-> IF o \in ended THEN Over ELSE session[o]]
           /\ Answer(t, "act", "ok", IF s \in ended THEN Cleared ELSE None)
        \/ /\ Answer(t, "act", "refused", None)
           /\ UNCHANGED session

Serve(t, k) ==
    /\ request[t][k].pc = "sent"
    /\ \/ k = "refresh" /\ ServeRefresh(t)
       \/ k = "logout" /\ ServeLogout(t) /\ UNCHANGED jar
       \/ k = "act" /\ request[t][k].verb = "login" /\ ServeLogin(t) /\ UNCHANGED jar
       \/ k = "act" /\ request[t][k].verb # "login" /\ ServeAccount(t) /\ UNCHANGED jar
    /\ UNCHANGED <<token, call, faults>>

\* Any answer but a 401 to the first attempt goes to the caller.
EndCall(c) ==
    /\ call[c] \in {"sent", "retried"}
    /\ call' = [call EXCEPT ![c] = "none"]
    /\ UNCHANGED <<session, jar, token, request, faults>>

------------------------------------------------------------------------------
(* Answers, and all that runs in the tab until the next await.                *)

\* Set-Cookie.
Store(cookie) ==
    /\ jar' = CASE cookie = None -> jar
                [] cookie = Cleared -> None
                [] OTHER -> cookie
    /\ session' = IF jar # None /\ cookie # None /\ (cookie # Cleared => cookie.sid # jar.sid)
                     /\ Open(jar.sid)
                  THEN [session EXCEPT ![jar.sid].raced = TRUE] ELSE session

Hush(t, k) == request' = [request EXCEPT ![t][k] = Quiet]

Accept(t, s) == token' = [token EXCEPT ![t] = s]
Clear(t) == token' = [token EXCEPT ![t] = None]

Waiting(t) == {c \in Calls : TabOf[c] = t /\ call[c] = "waiting"}

Release(t, next) == call' = [c \in Calls |-> IF c \in Waiting(t) THEN next ELSE call[c]]

\* Mutant: a refresh that fails leaves the calls waiting.
EndRefreshForgets(t) ==
    LET r == request[t]["refresh"]
    IN  /\ r.pc = "answer"
        /\ Store(r.cookie) /\ Hush(t, "refresh")
        /\ IF r.status = "ok" THEN Accept(t, r.cred.sid) /\ Release(t, "retried")
           ELSE Clear(t) /\ UNCHANGED call
        /\ UNCHANGED faults

\* accept or clear; the calls that wait are sent again or given up.
EndRefresh(t) ==
    LET r == request[t]["refresh"]
    IN  /\ r.pc = "answer"
        /\ Store(r.cookie) /\ Hush(t, "refresh")
        /\ IF r.status = "ok" THEN Accept(t, r.cred.sid) /\ Release(t, "retried")
           ELSE Clear(t) /\ Release(t, "none")
        /\ UNCHANGED faults

\* Mutant: any error counts as signed out.
EndLogoutAnyway(t) ==
    LET r == request[t]["logout"]
    IN  /\ r.pc = "answer"
        /\ Store(r.cookie) /\ Hush(t, "logout")
        /\ Clear(t)
        /\ UNCHANGED <<call, faults>>

\* A 401 counts as signed out; after any other error the tab is as before.
EndLogout(t) ==
    LET r == request[t]["logout"]
    IN  /\ r.pc = "answer"
        /\ Store(r.cookie) /\ Hush(t, "logout")
        /\ IF r.status \in {"ok", "refused"} THEN Clear(t) ELSE UNCHANGED token
        /\ UNCHANGED <<call, faults>>

\* change-password answers with a new access token for the session it kept.
EndAct(t) ==
    LET r == request[t]["act"]
    IN  /\ r.pc = "answer"
        /\ Store(r.cookie) /\ Hush(t, "act")
        /\ IF r.status # "ok" THEN UNCHANGED token
           ELSE CASE r.verb = "login" -> Accept(t, r.cookie.sid)
                  [] r.verb = "change-password" -> Accept(t, r.bearer)
                  [] OTHER -> Clear(t)
        /\ UNCHANGED <<call, faults>>

\* The interceptor: after a 401 it joins the refresh under way or starts one.
Retry(c) ==
    LET t == TabOf[c]
    IN  /\ call[c] = "sent"
        /\ call' = [call EXCEPT ![c] = "waiting"]
        /\ IF InFlight(t, "refresh") THEN UNCHANGED <<session, request>>
           ELSE Send(t, "refresh", "refresh")
        /\ UNCHANGED <<jar, token, faults>>

------------------------------------------------------------------------------
\* The network loses a request or its answer; the tab sees an error.
Lose(t, k) ==
    LET r == request[t][k]
    IN  /\ faults < MaxFaults /\ InFlight(t, k)
        /\ faults' = faults + 1
        /\ Answer(t, k, "lost", None)
        /\ session' = IF r.cookie \notin {None, Cleared} /\ Open(r.cookie.sid)
                      THEN [session EXCEPT ![r.cookie.sid].raced = TRUE] ELSE session
        /\ UNCHANGED <<jar, token, call>>

Next ==
    \/ \E t \in Tabs :
          \/ Load(t) \/ Ensure(t) \/ Logout(t)
          \/ \E verb \in Verbs : Act(t, verb)
          \/ EndRefresh(t) \/ EndLogout(t) \/ EndAct(t)
          \/ \E k \in Kinds : Serve(t, k) \/ Lose(t, k)
    \/ \E c \in Calls : Call(c) \/ EndCall(c) \/ Retry(c)

\* The server answers, or the browser gives up waiting; answers are dealt with.
Fairness ==
    /\ \A t \in Tabs : WF_vars(Serve(t, "refresh")) /\ WF_vars(EndRefresh(t))
    /\ \A c \in Calls : WF_vars(EndCall(c) \/ Retry(c))

Spec == Init /\ [][Next]_vars /\ Fairness

------------------------------------------------------------------------------
Requests ==
    [pc : {"none", "sent", "answer"}, verb : Verbs \cup {"none", "refresh", "logout"},
     cred : Cookies \cup {None}, bearer : Sessions \cup {None},
     status : {"none", "ok", "refused", "forbidden", "lost"},
     cookie : Cookies \cup {None, Cleared}]

\* Every variable keeps its type.
TypeOK ==
    /\ session \in [Sessions -> [status : {"none", "open", "over"}, raced : BOOLEAN]]
    /\ jar \in Cookies \cup {None}
    /\ token \in [Tabs -> Sessions \cup {None}]
    /\ request \in [Tabs -> [Kinds -> Requests]]
    /\ call \in [Calls -> {"none", "sent", "waiting", "retried"}]
    /\ faults \in 0..MaxFaults

(* A refresh that the server turns down, and with it every call that waits,   *)
(* is about a session that is over: the tabs of a browser do not spoil one    *)
(* another's session, unless two requests that present the cookie overlapped, *)
(* an answer with the next cookie was lost, or another session's answer came  *)
(* in between.                                                                *)
SessionKept ==
    \A t \in Tabs :
        LET r == request[t]["refresh"]
            s == IF r.cred # None THEN r.cred.sid ELSE r.bearer
        IN  r.status \in {"refused", "forbidden"} /\ s # None =>
                ~Open(s) \/ session[s].raced

(* A tab that says signed out has ended the session on the server, with the   *)
(* same exceptions: a refresh that overlaps makes the sign-out a 401, which   *)
(* logout() takes for success.                                                *)
LogoutRevokes ==
    [][\A t \in Tabs :
          LET s == request[t]["logout"].cred.sid
          IN  request[t]["logout"].pc = "answer" /\ request'[t]["logout"].pc = "none"
              /\ token[t] # None /\ token'[t] = None /\ request[t]["logout"].cred # None =>
                 ~Open(s) \/ session[s].raced]_vars

(* Every call of the application is answered, given up, or sent again and     *)
(* then answered: whoever waits for a refresh is released by it.              *)
CallsSettle == \A c \in Calls : call[c] # "none" ~> call[c] = "none"
==============================================================================
