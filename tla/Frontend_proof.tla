----------------------------- MODULE Frontend_proof -----------------------------
(***************************************************************************)
(* Proofs about the two components of the front end.  BrowserSession: for   *)
(* any number of tabs, calls, sessions and faults.  Workspace: for any      *)
(* number of notes, search texts and failures, and any size of a page.      *)
(***************************************************************************)
EXTENDS BrowserSession, Workspace, FiniteSetTheorems, WellFoundedInduction, TLAPS

(* What SessionKept and LogoutRevokes rest on.                               *)

\* The exceptions.
Spoiled(s) == ~Open(s) \/ session[s].raced

Of(cookie, s) == cookie \notin {None, Cleared} /\ cookie.sid = s

\* A tab or a request under way relies on the session.
Known(s) ==
    \E t \in Tabs :
        \/ token[t] = s
        \/ \E k \in Kinds : request[t][k].bearer = s \/ Of(request[t][k].cred, s)

Brought(s) == \E t \in Tabs, k \in Kinds : Of(request[t][k].cookie, s)

\* What a request of each kind asks and is answered.
RequestsFit ==
    \A t \in Tabs :
        /\ \A k \in Kinds :
              LET r == request[t][k]
              IN  /\ r.pc = "none" => r = Quiet
                  /\ r.pc # "answer" => r.status = "none"
                  /\ r.status # "ok" => r.cookie = None
        /\ LET r == request[t]["refresh"]
           IN  r.status = "ok" => r.cred # None /\ Of(r.cookie, r.cred.sid)
        /\ request[t]["logout"].cookie \in {None, Cleared}
        /\ LET r == request[t]["act"]
           IN  /\ r.cred = None
               /\ r.pc # "none" => r.verb \in Verbs /\ (r.verb # "login" => r.bearer \in Sessions)
               /\ r.status = "ok" /\ r.verb = "login" => r.cookie \in Cookies

\* What is relied on, kept in the jar or under way was once opened, ...
SessionsBegan ==
    \A s \in Sessions : Known(s) \/ Of(jar, s) \/ Brought(s) => session[s].status # "none"

\* ... and what is relied on is in the jar.
KnownIsKept == \A s \in Sessions : Known(s) => Of(jar, s) \/ Spoiled(s)

\* A refresh without a cookie is for a session whose cookie is gone.
BareRefreshIsLate ==
    \A t \in Tabs :
        LET r == request[t]["refresh"]
        IN  r.cred = None /\ r.bearer # None => Spoiled(r.bearer)

\* A cookie that was rotated away is presented and brought by those who raced, ...
StaleIsSpoiled ==
    \A t \in Tabs, k \in Kinds :
        LET r == request[t][k]
        IN  /\ r.cred # None /\ ~r.cred.current => Spoiled(r.cred.sid)
            /\ r.cookie \in Cookies /\ ~r.cookie.current => Spoiled(r.cookie.sid)

\* ... and is in the jar until the answer with the next one is there.
StaleIsReplaced ==
    jar # None /\ ~jar.current =>
        \/ Spoiled(jar.sid)
        \/ \E t \in Tabs :
              LET r == request[t]["refresh"]
              IN  r.status = "ok" /\ r.cookie = Cookie(jar.sid) /\ Of(r.cred, jar.sid)

OverlapsAreRaces ==
    \A t, u \in Tabs, k \in Kinds, s \in Sessions :
        (u # t \/ k # "refresh") /\ Of(request[t]["refresh"].cred, s)
        /\ Of(request[u][k].cred, s) => Spoiled(s)

\* Nobody relies yet on the session that an answer to a sign-in brings.
LoginIsFresh ==
    \A t \in Tabs, s \in Sessions :
        Of(request[t]["act"].cookie, s) =>
            /\ ~Known(s) /\ ~Of(jar, s)
            /\ \A u \in Tabs \ {t} : ~Of(request[u]["act"].cookie, s)

\* A sign-out that went through, or was turned down with a 401, is about a
\* session that is over.
LogoutIsOver ==
    \A t \in Tabs :
        LET r == request[t]["logout"]
        IN  r.status \in {"ok", "refused"} /\ r.cred # None => Spoiled(r.cred.sid)

IInv ==
    /\ TypeOK /\ RequestsFit /\ SessionsBegan /\ KnownIsKept /\ BareRefreshIsLate
    /\ StaleIsSpoiled /\ StaleIsReplaced /\ OverlapsAreRaces /\ LoginIsFresh
    /\ LogoutIsOver /\ SessionKept

------------------------------------------------------------------------------
SpoiledNext(s) == session'[s].status # "open" \/ session'[s].raced

\* The session goes on to be spoiled if it is.
Stays(s) ==
    s \in Sessions /\ session'[s].status # "none" /\ (Spoiled(s) => SpoiledNext(s))

Rows == [status : {"none", "open", "over"}, raced : BOOLEAN]

\* Rows stay in use, and spoiled.
Grows ==
    /\ session' \in [Sessions -> Rows]
    /\ \A s \in Sessions : session[s].status # "none" => Stays(s)

\* Nothing is asked or answered but in one place.
OtherRequests(t, k) ==
    \A u \in Tabs, l \in Kinds : u # t \/ l # k => request'[u][l] = request[u][l]

Typed == request' \in [Tabs -> [Kinds -> Requests]]

\* What the other variables have to do with it.
Rest ==
    /\ call' \in [Calls -> {"none", "sent", "waiting", "retried"}]
    /\ faults' \in 0..MaxFaults

\* No model value stands for two things.
LEMMA NamesDiffer ==
  /\ None # Cleared /\ None \notin Sessions /\ Cleared \notin Sessions
  /\ None \notin Cookies /\ Cleared \notin Cookies
BY NoneAssumption

\* The kinds of request in a tab.
LEMMA KindsAre == Kinds = {"refresh", "logout", "act"}
BY DEF Kinds

LEMMA SlotTyped ==
  ASSUME TypeOK, NEW t \in Tabs, NEW k \in Kinds
  PROVE  /\ request[t][k] \in Requests
         /\ request[t][k].pc \in {"none", "sent", "answer"}
         /\ request[t][k].cred \in Cookies \cup {None}
         /\ request[t][k].bearer \in Sessions \cup {None}
         /\ request[t][k].status \in {"none", "ok", "refused", "forbidden", "lost"}
         /\ request[t][k].cookie \in Cookies \cup {None, Cleared}
BY DEF TypeOK, Requests

LEMMA QuietTyped ==
  /\ Quiet \in Requests /\ Quiet.pc = "none" /\ Quiet.status = "none"
  /\ Quiet.cred = None /\ Quiet.bearer = None /\ Quiet.cookie = None
BY DEF Quiet, Requests

\* What is relied on, kept or under way stays spoiled.
LEMMA UsedStays ==
  ASSUME IInv, Grows
  PROVE  /\ jar # None => Stays(jar.sid)
         /\ \A t \in Tabs : token[t] # None => Stays(token[t])
         /\ \A t \in Tabs, k \in Kinds :
               /\ request[t][k].bearer # None => Stays(request[t][k].bearer)
               /\ request[t][k].cred # None => Stays(request[t][k].cred.sid)
               /\ request[t][k].cookie \in Cookies => Stays(request[t][k].cookie.sid)
<1>1. TypeOK /\ SessionsBegan
  BY DEF IInv
<1>2. \A s \in Sessions : Known(s) \/ Of(jar, s) \/ Brought(s) => Stays(s)
  BY <1>1 DEF SessionsBegan, Grows
<1>3. jar # None => Stays(jar.sid)
  BY <1>1, <1>2, NamesDiffer DEF TypeOK, Of, Cookies
<1>4. ASSUME NEW t \in Tabs, token[t] # None PROVE Stays(token[t])
  BY <1>1, <1>2, <1>4 DEF TypeOK, Known
<1>5. ASSUME NEW t \in Tabs, NEW k \in Kinds
      PROVE  /\ request[t][k].bearer # None => Stays(request[t][k].bearer)
             /\ request[t][k].cred # None => Stays(request[t][k].cred.sid)
             /\ request[t][k].cookie \in Cookies => Stays(request[t][k].cookie.sid)
  <2>1. request[t][k].bearer # None => Stays(request[t][k].bearer)
    BY <1>1, <1>2, SlotTyped DEF Known
  <2>2. ASSUME request[t][k].cred # None PROVE Stays(request[t][k].cred.sid)
    <3>1. Of(request[t][k].cred, request[t][k].cred.sid) /\ request[t][k].cred.sid \in Sessions
      BY <1>1, <2>2, SlotTyped, NamesDiffer DEF Of, Cookies
    <3> QED BY <1>2, <3>1 DEF Known
  <2>3. ASSUME request[t][k].cookie \in Cookies PROVE Stays(request[t][k].cookie.sid)
    <3>1. Of(request[t][k].cookie, request[t][k].cookie.sid) /\ request[t][k].cookie.sid \in Sessions
      BY <2>3, NamesDiffer DEF Of, Cookies
    <3> QED BY <1>2, <3>1 DEF Brought
  <2> QED BY <2>1, <2>2, <2>3
<1> QED BY <1>3, <1>4, <1>5

\* A row that is flagged is spoiled, and so is what was before.
LEMMA RaceGrows ==
  ASSUME TypeOK, NEW s \in Sessions, NEW test \in BOOLEAN,
         session' = IF test /\ Open(s) THEN [session EXCEPT ![s].raced = TRUE] ELSE session
  PROVE  Grows /\ (test => SpoiledNext(s))
<1>1. session \in [Sessions -> Rows]
  BY DEF TypeOK, Rows
<1>2. CASE test /\ Open(s)
  <2>1. session' \in [Sessions -> Rows] /\ session'[s].raced /\ session'[s].status = "open"
        /\ \A o \in Sessions \ {s} : session'[o] = session[o]
    BY <1>1, <1>2 DEF Rows, Open
  <2> QED BY <2>1 DEF Grows, Stays, Spoiled, SpoiledNext, Open
<1>3. CASE ~(test /\ Open(s))
  BY <1>1, <1>3 DEF Grows, Stays, Spoiled, SpoiledNext, Open
<1> QED BY <1>2, <1>3

\* Sessions that stay the same stay in use, and spoiled.
LEMMA SameGrows ==
  ASSUME TypeOK, session' = session
  PROVE  Grows
BY DEF TypeOK, Rows, Grows, Stays, Spoiled, SpoiledNext, Open

\* A session that ends is spoiled.
LEMMA EndGrows ==
  ASSUME TypeOK, NEW E \in SUBSET Sessions,
         session' = [s \in Sessions |-> IF s \in E THEN Over ELSE session[s]]
  PROVE  Grows /\ \A s \in E : SpoiledNext(s)
<1>1. session \in [Sessions -> Rows]
  BY DEF TypeOK, Rows
<1>2. Over \in Rows /\ Over.status = "over"
  BY DEF Over, Unused, Rows
<1> QED BY <1>1, <1>2 DEF Grows, Stays, Spoiled, SpoiledNext, Open

------------------------------------------------------------------------------
\* A request is sent with what the jar and the tab hold.
Asks(t, k, verb) ==
    /\ request'[t][k] = [Quiet EXCEPT !.pc = "sent", !.verb = verb,
           !.cred = IF k = "act" THEN None ELSE jar,
           !.bearer = IF k = "act" \/ jar = None THEN token[t] ELSE None]
    /\ OtherRequests(t, k)
    /\ \A u \in Tabs, l \in Kinds :
          (u # t \/ l # k) /\ "refresh" \in {k, l} /\ k # "act" /\ jar # None
          /\ Of(request[u][l].cred, jar.sid) => SpoiledNext(jar.sid)

LEMMA AskedFields ==
  ASSUME NEW t \in Tabs, NEW k \in Kinds, NEW verb, Asks(t, k, verb)
  PROVE  /\ request'[t][k].pc = "sent" /\ request'[t][k].verb = verb
         /\ request'[t][k].cred = IF k = "act" THEN None ELSE jar
         /\ request'[t][k].bearer = IF k = "act" \/ jar = None THEN token[t] ELSE None
         /\ request'[t][k].status = "none" /\ request'[t][k].cookie = None
BY DEF Asks, Quiet

\* call() takes along what the jar and the tab have at that moment.
LEMMA SendAsks ==
  ASSUME TypeOK, NEW t \in Tabs, NEW k \in Kinds, NEW verb \in Verbs \cup {"refresh", "logout"},
         Send(t, k, verb)
  PROVE  Asks(t, k, verb) /\ Grows /\ Typed
<1> DEFINE cred == IF k = "act" THEN None ELSE jar
           asked == [Quiet EXCEPT !.pc = "sent", !.verb = verb, !.cred = cred,
                                  !.bearer = IF cred = None THEN token[t] ELSE None]
<1>1. jar \in Cookies \cup {None} /\ token[t] \in Sessions \cup {None}
  BY DEF TypeOK
<1>2. asked \in Requests
  BY <1>1, QuietTyped DEF Requests, Quiet
<1>3. asked = [Quiet EXCEPT !.pc = "sent", !.verb = verb, !.cred = cred,
                 !.bearer = IF k = "act" \/ jar = None THEN token[t] ELSE None]
  OBVIOUS
<1>4. request' = [request EXCEPT ![t][k] = asked]
  BY DEF Send
<1>5. request'[t][k] = asked /\ OtherRequests(t, k) /\ Typed
  <2> HIDE DEF asked
  <2> QED BY <1>2, <1>4 DEF TypeOK, OtherRequests, Typed
<1>6. CASE k = "act"
  <2>1. session' = session
    BY <1>6 DEF Send
  <2> QED BY <1>3, <1>5, <1>6, <2>1, SameGrows DEF Asks
<1>7. CASE k # "act" /\ jar = None
  <2>1. session' = session
    BY <1>7 DEF Send
  <2> QED BY <1>3, <1>5, <1>7, <2>1, SameGrows DEF Asks
<1>8. CASE k # "act" /\ jar # None
  <2>1. jar.sid \in Sessions /\ Overlaps(t, k, jar.sid) \in BOOLEAN
    BY <1>1, <1>8 DEF Cookies, Overlaps
  <2>2. session' = IF Overlaps(t, k, jar.sid) /\ Open(jar.sid)
                   THEN [session EXCEPT ![jar.sid].raced = TRUE] ELSE session
    BY <1>8 DEF Send
  <2>3. Grows /\ (Overlaps(t, k, jar.sid) => SpoiledNext(jar.sid))
    BY <2>1, <2>2, RaceGrows
  <2>4. ASSUME NEW u \in Tabs, NEW l \in Kinds, u # t \/ l # k, "refresh" \in {k, l},
               Of(request[u][l].cred, jar.sid)
        PROVE  Overlaps(t, k, jar.sid)
    <3>1. <<u, l>> \in Slots \ {<<t, k>>}
      BY <2>4 DEF Slots
    <3> QED BY <2>4, <3>1 DEF Overlaps, Of
  <2> QED BY <1>3, <1>5, <1>8, <2>3, <2>4 DEF Asks
<1> QED BY <1>6, <1>7, <1>8

\* Sending a request keeps the invariant.
LEMMA AskingKeeps ==
  ASSUME IInv, NEW t \in Tabs, NEW k \in Kinds, NEW verb \in Verbs \cup {"refresh", "logout"},
         Asks(t, k, verb), Grows, Typed, Rest, ~InFlight(t, k),
         k = "act" => verb \in Verbs /\ (verb # "login" => token[t] # None),
         jar' = jar, token' = token
  PROVE  IInv'
<1>1. TypeOK /\ RequestsFit
  BY DEF IInv
<1>2. TypeOK'
  BY <1>1 DEF TypeOK, Typed, Grows, Rest, Rows
<1>3. /\ OtherRequests(t, k)
      /\ request'[t][k].pc = "sent" /\ request'[t][k].verb = verb
      /\ request'[t][k].cred = IF k = "act" THEN None ELSE jar
      /\ request'[t][k].bearer = IF k = "act" \/ jar = None THEN token[t] ELSE None
      /\ request'[t][k].status = "none" /\ request'[t][k].cookie = None
  <2>1. OtherRequests(t, k)
    BY DEF Asks
  <2> QED BY <2>1, AskedFields
<1>4. request[t][k].status = "none" /\ request[t][k].cookie = None
  BY <1>1, QuietTyped DEF RequestsFit, InFlight
<1>5. token[t] \in Sessions \cup {None} /\ jar \in Cookies \cup {None}
  BY <1>1 DEF TypeOK
<1>6. RequestsFit'
  <2>1. ASSUME NEW u \in Tabs, NEW l \in Kinds
        PROVE  /\ request'[u][l].pc = "none" => request'[u][l] = Quiet
               /\ request'[u][l].pc # "answer" => request'[u][l].status = "none"
               /\ request'[u][l].status # "ok" => request'[u][l].cookie = None
    BY <1>1, <1>3 DEF RequestsFit, OtherRequests
  <2>2. ASSUME NEW u \in Tabs, request'[u]["refresh"].status = "ok"
        PROVE  /\ request'[u]["refresh"].cred # None
               /\ Of(request'[u]["refresh"].cookie, request'[u]["refresh"].cred.sid)
    BY <1>1, <1>3, <2>2, KindsAre DEF RequestsFit, OtherRequests
  <2>3. ASSUME NEW u \in Tabs PROVE request'[u]["logout"].cookie \in {None, Cleared}
    BY <1>1, <1>3, KindsAre DEF RequestsFit, OtherRequests
  <2>4. ASSUME NEW u \in Tabs
        PROVE  LET r == request'[u]["act"]
               IN  /\ r.cred = None
                   /\ r.pc # "none" => r.verb \in Verbs /\ (r.verb # "login" => r.bearer \in Sessions)
                   /\ r.status = "ok" /\ r.verb = "login" => r.cookie \in Cookies
    <3>1. CASE u = t /\ k = "act"
      BY <1>3, <1>5, <3>1
    <3>2. CASE u # t \/ k # "act"
      BY <1>1, <1>3, <3>2, KindsAre DEF RequestsFit, OtherRequests
    <3> QED BY <3>1, <3>2
  <2> QED BY <2>1, <2>2, <2>3, <2>4 DEF RequestsFit
<1>7. \A s \in Sessions : (Known(s)' => Known(s) \/ Of(jar, s)) /\ (Brought(s)' => Brought(s))
  <2>1. ASSUME NEW s \in Sessions, NEW u \in Tabs, NEW l \in Kinds
        PROVE  /\ request'[u][l].bearer = s => Known(s)
               /\ Of(request'[u][l].cred, s) => Known(s) \/ Of(jar, s)
               /\ Of(request'[u][l].cookie, s) => Brought(s)
    <3>1. CASE u = t /\ l = k
      BY <1>3, <3>1, NamesDiffer DEF Known, Of
    <3>2. CASE u # t \/ l # k
      BY <1>3, <3>2 DEF Known, Brought, OtherRequests
    <3> QED BY <3>1, <3>2
  <2> QED BY <2>1 DEF Known, Brought
<1>8. SessionsBegan'
  BY <1>7 DEF IInv, SessionsBegan, Grows, Stays
<1>9. KnownIsKept'
  BY <1>7 DEF IInv, SessionsBegan, KnownIsKept, Grows, Stays, Spoiled, SpoiledNext, Open
<1>10. BareRefreshIsLate'
  <2> SUFFICES ASSUME NEW u \in Tabs, request'[u]["refresh"].cred = None,
                      request'[u]["refresh"].bearer # None
               PROVE  SpoiledNext(request'[u]["refresh"].bearer)
    BY DEF BareRefreshIsLate, Spoiled, SpoiledNext, Open
  <2>1. CASE u = t /\ k = "refresh"
    <3>1. jar = None /\ request'[u]["refresh"].bearer = token[t] /\ token[t] # None
      BY <1>3, <2>1
    <3>2. token[t] \in Sessions /\ Known(token[t]) /\ ~Of(jar, token[t])
      BY <1>5, <3>1 DEF Known, Of
    <3>3. Spoiled(token[t])
      BY <3>2 DEF IInv, KnownIsKept
    <3> QED BY <3>1, <3>3, UsedStays DEF Stays
  <2>2. CASE u # t \/ k # "refresh"
    BY <1>3, <2>2, KindsAre, UsedStays DEF IInv, BareRefreshIsLate, OtherRequests, Stays
  <2> QED BY <2>1, <2>2
<1>11. StaleIsSpoiled'
  <2> SUFFICES ASSUME NEW u \in Tabs, NEW l \in Kinds
               PROVE  LET r == request'[u][l]
                      IN  /\ r.cred # None /\ ~r.cred.current => SpoiledNext(r.cred.sid)
                          /\ r.cookie \in Cookies /\ ~r.cookie.current => SpoiledNext(r.cookie.sid)
    BY DEF StaleIsSpoiled, Spoiled, SpoiledNext, Open
  <2>1. CASE u = t /\ l = k
    <3> SUFFICES ASSUME k # "act", jar # None, ~jar.current PROVE SpoiledNext(jar.sid)
      BY <1>3, <2>1, NamesDiffer
    <3>1. CASE Spoiled(jar.sid)
      BY <3>1, UsedStays DEF Stays
    <3>2. ASSUME NEW v \in Tabs, request[v]["refresh"].status = "ok",
                 Of(request[v]["refresh"].cred, jar.sid)
          PROVE  SpoiledNext(jar.sid)
      <4>1. v # t \/ "refresh" # k
        BY <1>4, <3>2
      <4> QED BY <3>2, <4>1, KindsAre DEF Asks
    <3> QED BY <3>1, <3>2 DEF IInv, StaleIsReplaced
  <2>2. CASE u # t \/ l # k
    BY <1>3, <2>2, UsedStays DEF IInv, StaleIsSpoiled, OtherRequests, Stays
  <2> QED BY <2>1, <2>2
<1>12. StaleIsReplaced'
  <2> SUFFICES ASSUME jar # None, ~jar.current
               PROVE  \/ SpoiledNext(jar.sid)
                      \/ \E u \in Tabs : LET r == request'[u]["refresh"]
                            IN  r.status = "ok" /\ r.cookie = Cookie(jar.sid) /\ Of(r.cred, jar.sid)
    BY DEF StaleIsReplaced, Cookie, Of, Spoiled, SpoiledNext, Open
  <2>1. CASE Spoiled(jar.sid)
    BY <2>1, UsedStays DEF Stays
  <2>2. ASSUME NEW u \in Tabs, request[u]["refresh"].status = "ok",
               request[u]["refresh"].cookie = Cookie(jar.sid), Of(request[u]["refresh"].cred, jar.sid)
        PROVE  request'[u]["refresh"] = request[u]["refresh"]
    BY <1>3, <1>4, <2>2, KindsAre DEF OtherRequests
  <2> QED BY <2>1, <2>2 DEF IInv, StaleIsReplaced
<1>13. OverlapsAreRaces'
  <2> SUFFICES ASSUME NEW u \in Tabs, NEW v \in Tabs, NEW l \in Kinds, NEW s \in Sessions,
                      v # u \/ l # "refresh",
                      Of(request'[u]["refresh"].cred, s), Of(request'[v][l].cred, s)
               PROVE  SpoiledNext(s)
    BY DEF OverlapsAreRaces, Of, Spoiled, SpoiledNext, Open
  <2>1. CASE u = t /\ k = "refresh"
    <3>1. s = jar.sid /\ jar # None /\ request'[v][l] = request[v][l]
      BY <1>3, <2>1 DEF OtherRequests, Of
    <3> QED BY <2>1, <3>1 DEF Asks
  <2>2. CASE (u # t \/ k # "refresh") /\ v = t /\ l = k
    <3>1. request'[u]["refresh"] = request[u]["refresh"] /\ k # "act" /\ s = jar.sid /\ jar # None
      BY <1>3, <2>2, KindsAre DEF OtherRequests, Of
    <3> QED BY <2>2, <3>1, KindsAre DEF Asks
  <2>3. CASE (u # t \/ k # "refresh") /\ (v # t \/ l # k)
    <3>1. request'[u]["refresh"] = request[u]["refresh"] /\ request'[v][l] = request[v][l]
      BY <1>3, <2>3, KindsAre DEF OtherRequests
    <3>2. Spoiled(s) /\ Known(s)
      BY <3>1, KindsAre DEF IInv, OverlapsAreRaces, Known
    <3> QED BY <3>2 DEF IInv, SessionsBegan, Grows, Stays
  <2> QED BY <2>1, <2>2, <2>3
<1>14. LoginIsFresh'
  <2> SUFFICES ASSUME NEW u \in Tabs, NEW s \in Sessions, Of(request'[u]["act"].cookie, s)
               PROVE  /\ ~Known(s)' /\ ~Of(jar, s)
                      /\ \A v \in Tabs \ {u} : ~Of(request'[v]["act"].cookie, s)
    BY DEF LoginIsFresh, Of
  <2>1. request'[u]["act"] = request[u]["act"]
    BY <1>3, KindsAre DEF OtherRequests, Of
  <2>2. ASSUME NEW v \in Tabs, Of(request'[v]["act"].cookie, s)
        PROVE  request'[v]["act"] = request[v]["act"]
    BY <1>3, <2>2, KindsAre DEF OtherRequests, Of
  <2> QED BY <1>7, <2>1, <2>2 DEF IInv, LoginIsFresh
<1>15. LogoutIsOver'
  <2> SUFFICES ASSUME NEW u \in Tabs, request'[u]["logout"].status \in {"ok", "refused"},
                      request'[u]["logout"].cred # None
               PROVE  SpoiledNext(request'[u]["logout"].cred.sid)
    BY DEF LogoutIsOver, Spoiled, SpoiledNext, Open
  <2>1. request'[u]["logout"] = request[u]["logout"]
    BY <1>3, KindsAre DEF OtherRequests
  <2> QED BY <2>1, KindsAre, UsedStays DEF IInv, LogoutIsOver, Stays
<1>16. SessionKept'
  <2> SUFFICES ASSUME NEW u \in Tabs, request'[u]["refresh"].status \in {"refused", "forbidden"}
               PROVE  LET r == request'[u]["refresh"]
                          s == IF r.cred # None THEN r.cred.sid ELSE r.bearer
                      IN  s # None => SpoiledNext(s)
    BY DEF SessionKept, SpoiledNext, Open
  <2>1. request'[u]["refresh"] = request[u]["refresh"]
    BY <1>3, KindsAre DEF OtherRequests
  <2> QED BY <2>1, KindsAre, UsedStays DEF IInv, SessionKept, Spoiled, Stays, Open
<1> QED
  BY <1>2, <1>6, <1>8, <1>9, <1>10, <1>11, <1>12, <1>13, <1>14, <1>15, <1>16 DEF IInv

------------------------------------------------------------------------------
\* A request gets an answer: it asked what it asked.
Answers(t, k, status, cookie) ==
    /\ OtherRequests(t, k)
    /\ LET r == request[t][k]
           a == request'[t][k]
       IN  /\ a.pc = "answer" /\ a.status = status /\ a.cookie = cookie
           /\ a.verb = r.verb /\ a.cred = r.cred /\ a.bearer = r.bearer

LEMMA AnswerFields ==
  ASSUME TypeOK, NEW t \in Tabs, NEW k \in Kinds,
         NEW status \in {"ok", "refused", "forbidden", "lost"},
         NEW cookie \in Cookies \cup {None, Cleared}, Answer(t, k, status, cookie)
  PROVE  Answers(t, k, status, cookie) /\ Typed
<1> DEFINE a == [request[t][k] EXCEPT !.pc = "answer", !.status = status, !.cookie = cookie]
<1>1. request[t][k] \in Requests
  BY SlotTyped
<1>2. a \in Requests
  BY <1>1 DEF Requests
<1>3. /\ a.pc = "answer" /\ a.status = status /\ a.cookie = cookie
      /\ a.verb = request[t][k].verb /\ a.cred = request[t][k].cred
      /\ a.bearer = request[t][k].bearer
  BY <1>1 DEF Requests
<1>4. request' = [request EXCEPT ![t][k] = a]
  BY DEF Answer, TypeOK
<1>5. request'[t][k] = a /\ OtherRequests(t, k) /\ Typed
  <2> HIDE DEF a
  <2> QED BY <1>2, <1>4 DEF TypeOK, OtherRequests, Typed
<1> QED BY <1>3, <1>5 DEF Answers

\* An answer that brings no cookie, or that of a session it opens, keeps the
\* invariant if what it says and what it takes the place of is about sessions that
\* are over or raced.
LEMMA AnsweringKeeps ==
  ASSUME IInv, NEW t \in Tabs, NEW k \in Kinds,
         NEW status \in {"ok", "refused", "forbidden", "lost"}, NEW cookie \in Cookies \cup {None, Cleared},
         Answers(t, k, status, cookie), Grows, Typed, Rest, InFlight(t, k),
         status # "ok" => cookie = None,
         k = "refresh" => status # "ok",
         k = "act" /\ request[t][k].verb = "login" /\ status = "ok" => cookie \in Cookies,
         cookie \in Cookies =>
            /\ k = "act" /\ cookie.current
            /\ session[cookie.sid].status = "none" /\ session'[cookie.sid].status # "none",
         k = "refresh" /\ status \in {"refused", "forbidden"} =>
            LET r == request[t][k]
                s == IF r.cred # None THEN r.cred.sid ELSE r.bearer
            IN  s # None => SpoiledNext(s),
         k = "logout" /\ status \in {"ok", "refused"} /\ request[t][k].cred # None =>
            SpoiledNext(request[t][k].cred.sid),
         request[t][k].cookie \in Cookies => SpoiledNext(request[t][k].cookie.sid),
         jar' = jar, token' = token
  PROVE  IInv'
<1>1. TypeOK /\ RequestsFit
  BY DEF IInv
<1>2. TypeOK'
  BY <1>1 DEF TypeOK, Typed, Grows, Rest, Rows
<1>3. /\ OtherRequests(t, k)
      /\ request'[t][k].pc = "answer" /\ request'[t][k].verb = request[t][k].verb
      /\ request'[t][k].cred = request[t][k].cred
      /\ request'[t][k].bearer = request[t][k].bearer
      /\ request'[t][k].status = status /\ request'[t][k].cookie = cookie
  BY DEF Answers
<1>4. request[t][k].pc # "none"
  BY DEF InFlight
<1>5. \A u \in Tabs, l \in Kinds :
         /\ request'[u][l].cred = request[u][l].cred /\ request'[u][l].bearer = request[u][l].bearer
         /\ request'[u][l].verb = request[u][l].verb
         /\ request'[u][l].cookie \in Cookies =>
               request'[u][l] = request[u][l] \/ (u = t /\ l = k /\ k = "act")
  BY <1>3 DEF OtherRequests
<1>6. RequestsFit'
  <2>1. ASSUME NEW u \in Tabs, NEW l \in Kinds
        PROVE  /\ request'[u][l].pc = "none" => request'[u][l] = Quiet
               /\ request'[u][l].pc # "answer" => request'[u][l].status = "none"
               /\ request'[u][l].status # "ok" => request'[u][l].cookie = None
    BY <1>1, <1>3 DEF RequestsFit, OtherRequests
  <2>2. ASSUME NEW u \in Tabs, request'[u]["refresh"].status = "ok"
        PROVE  /\ request'[u]["refresh"].cred # None
               /\ Of(request'[u]["refresh"].cookie, request'[u]["refresh"].cred.sid)
    BY <1>1, <1>3, <2>2, KindsAre DEF RequestsFit, OtherRequests
  <2>3. ASSUME NEW u \in Tabs PROVE request'[u]["logout"].cookie \in {None, Cleared}
    BY <1>1, <1>3, KindsAre DEF RequestsFit, OtherRequests
  <2>4. ASSUME NEW u \in Tabs
        PROVE  LET r == request'[u]["act"]
               IN  /\ r.cred = None
                   /\ r.pc # "none" => r.verb \in Verbs /\ (r.verb # "login" => r.bearer \in Sessions)
                   /\ r.status = "ok" /\ r.verb = "login" => r.cookie \in Cookies
    <3>1. CASE u = t /\ k = "act"
      BY <1>1, <1>3, <1>4, <3>1 DEF RequestsFit
    <3>2. CASE u # t \/ k # "act"
      BY <1>1, <1>3, <3>2, KindsAre DEF RequestsFit, OtherRequests
    <3> QED BY <3>1, <3>2
  <2> QED BY <2>1, <2>2, <2>3, <2>4 DEF RequestsFit
<1>7. \A s \in Sessions : (Known(s)' => Known(s)) /\ (Brought(s)' => Brought(s) \/ Of(cookie, s))
  <2>1. \A s \in Sessions : Known(s)' => Known(s)
    BY <1>5 DEF Known, Of
  <2>2. ASSUME NEW s \in Sessions, NEW u \in Tabs, NEW l \in Kinds, Of(request'[u][l].cookie, s)
        PROVE  Of(request[u][l].cookie, s) \/ Of(cookie, s)
    <3>1. request'[u][l].cookie \in Cookies
      BY <1>2, <2>2 DEF TypeOK, Requests, Of
    <3> QED BY <1>3, <1>5, <2>2, <3>1
  <2> QED BY <2>1, <2>2 DEF Brought, Of
<1>8. SessionsBegan'
  BY <1>7 DEF IInv, SessionsBegan, Grows, Stays, Of
<1>9. KnownIsKept'
  BY <1>7 DEF IInv, SessionsBegan, KnownIsKept, Grows, Stays, Spoiled, SpoiledNext, Open
<1>10. BareRefreshIsLate'
  <2> SUFFICES ASSUME NEW u \in Tabs, request'[u]["refresh"].cred = None,
                      request'[u]["refresh"].bearer # None
               PROVE  SpoiledNext(request'[u]["refresh"].bearer)
    BY DEF BareRefreshIsLate, Spoiled, SpoiledNext, Open
  <2> QED BY <1>5, KindsAre, UsedStays DEF IInv, BareRefreshIsLate, Stays
<1>11. StaleIsSpoiled'
  <2> SUFFICES ASSUME NEW u \in Tabs, NEW l \in Kinds
               PROVE  LET r == request'[u][l]
                      IN  /\ r.cred # None /\ ~r.cred.current => SpoiledNext(r.cred.sid)
                          /\ r.cookie \in Cookies /\ ~r.cookie.current => SpoiledNext(r.cookie.sid)
    BY DEF StaleIsSpoiled, Spoiled, SpoiledNext, Open
  <2> QED BY <1>3, <1>5, UsedStays DEF IInv, StaleIsSpoiled, Stays
<1>12. StaleIsReplaced'
  <2> SUFFICES ASSUME jar # None, ~jar.current
               PROVE  \/ SpoiledNext(jar.sid)
                      \/ \E u \in Tabs : LET r == request'[u]["refresh"]
                            IN  r.status = "ok" /\ r.cookie = Cookie(jar.sid) /\ Of(r.cred, jar.sid)
    BY DEF StaleIsReplaced, Cookie, Of, Spoiled, SpoiledNext, Open
  <2>1. CASE Spoiled(jar.sid)
    BY <2>1, UsedStays DEF Stays
  <2>2. ASSUME NEW u \in Tabs, request[u]["refresh"].status = "ok",
               request[u]["refresh"].cookie = Cookie(jar.sid), Of(request[u]["refresh"].cred, jar.sid)
        PROVE  SpoiledNext(jar.sid) \/ request'[u]["refresh"] = request[u]["refresh"]
    <3>1. CASE u = t /\ k = "refresh"
      <4>1. Cookie(jar.sid) \in Cookies /\ Cookie(jar.sid).sid = jar.sid
        BY <1>1 DEF TypeOK, Cookie, Cookies
      <4> QED BY <2>2, <3>1, <4>1
    <3>2. CASE u # t \/ k # "refresh"
      BY <1>3, <3>2, KindsAre DEF OtherRequests
    <3> QED BY <3>1, <3>2
  <2> QED BY <2>1, <2>2 DEF IInv, StaleIsReplaced
<1>13. OverlapsAreRaces'
  <2> SUFFICES ASSUME NEW u \in Tabs, NEW v \in Tabs, NEW l \in Kinds, NEW s \in Sessions,
                      v # u \/ l # "refresh",
                      Of(request'[u]["refresh"].cred, s), Of(request'[v][l].cred, s)
               PROVE  SpoiledNext(s)
    BY DEF OverlapsAreRaces, Of, Spoiled, SpoiledNext, Open
  <2>1. Spoiled(s) /\ Known(s)
    BY <1>5, KindsAre DEF IInv, OverlapsAreRaces, Known
  <2> QED BY <2>1 DEF IInv, SessionsBegan, Grows, Stays
<1>14. LoginIsFresh'
  <2> SUFFICES ASSUME NEW u \in Tabs, NEW s \in Sessions, Of(request'[u]["act"].cookie, s)
               PROVE  /\ ~Known(s)' /\ ~Of(jar, s)
                      /\ \A v \in Tabs \ {u} : ~Of(request'[v]["act"].cookie, s)
    BY DEF LoginIsFresh, Of
  <2>1. \A v \in Tabs : Of(request'[v]["act"].cookie, s) =>
           Of(request[v]["act"].cookie, s) \/ (v = t /\ k = "act" /\ Of(cookie, s))
    <3>1. \A v \in Tabs : Of(request'[v]["act"].cookie, s) => request'[v]["act"].cookie \in Cookies
      BY <1>2, KindsAre DEF Of, TypeOK, Requests
    <3> QED BY <1>3, <1>5, <3>1, KindsAre
  <2>2. ASSUME Of(cookie, s) PROVE ~Known(s) /\ ~Of(jar, s) /\ ~Brought(s)
    BY <2>2 DEF IInv, SessionsBegan, Of
  <2> QED BY <1>7, <2>1, <2>2, KindsAre DEF IInv, LoginIsFresh, Brought
<1>15. LogoutIsOver'
  <2> SUFFICES ASSUME NEW u \in Tabs, request'[u]["logout"].status \in {"ok", "refused"},
                      request'[u]["logout"].cred # None
               PROVE  SpoiledNext(request'[u]["logout"].cred.sid)
    BY DEF LogoutIsOver, Spoiled, SpoiledNext, Open
  <2>1. CASE u = t /\ k = "logout"
    BY <1>3, <2>1
  <2>2. CASE u # t \/ k # "logout"
    <3>1. request'[u]["logout"] = request[u]["logout"]
      BY <1>3, <2>2, KindsAre DEF OtherRequests
    <3> QED BY <3>1, KindsAre, UsedStays DEF IInv, LogoutIsOver, Stays
  <2> QED BY <2>1, <2>2
<1>16. SessionKept'
  <2> SUFFICES ASSUME NEW u \in Tabs, request'[u]["refresh"].status \in {"refused", "forbidden"}
               PROVE  LET r == request'[u]["refresh"]
                          s == IF r.cred # None THEN r.cred.sid ELSE r.bearer
                      IN  s # None => SpoiledNext(s)
    BY DEF SessionKept, SpoiledNext, Open
  <2>1. CASE u = t /\ k = "refresh"
    BY <1>3, <2>1
  <2>2. CASE u # t \/ k # "refresh"
    <3>1. request'[u]["refresh"] = request[u]["refresh"]
      BY <1>3, <2>2, KindsAre DEF OtherRequests
    <3> QED BY <3>1, KindsAre, UsedStays DEF IInv, SessionKept, Spoiled, Stays, Open
  <2> QED BY <2>1, <2>2
<1> QED
  BY <1>2, <1>6, <1>8, <1>9, <1>10, <1>11, <1>12, <1>13, <1>14, <1>15, <1>16 DEF IInv

\* The server turns down what it does not accept.
LEMMA RefuseKeeps ==
  ASSUME IInv, NEW t \in Tabs, NEW k \in {"refresh", "logout"}, request[t][k].pc = "sent",
         Refuse(t, k, request[t][k].cred), Rest, jar' = jar, token' = token
  PROVE  IInv'
<1> DEFINE cred == request[t][k].cred
           status == IF cred = None THEN "forbidden" ELSE "refused"
<1>1. TypeOK /\ RequestsFit /\ k \in Kinds
  BY KindsAre DEF IInv
<1>2. /\ ~Accepts(cred) /\ Answer(t, k, status, None) /\ session' = session
      /\ status \in {"ok", "refused", "forbidden", "lost"} /\ status # "ok"
  BY DEF Refuse
<1>3. Answers(t, k, status, None) /\ Typed
  BY <1>1, <1>2, AnswerFields
<1>4. Grows
  BY <1>1, <1>2, SameGrows
<1>5. request[t][k].cookie = None /\ InFlight(t, k)
  BY <1>1 DEF RequestsFit, InFlight
<1>6. cred # None => Spoiled(cred.sid)
  BY <1>1, <1>2 DEF IInv, StaleIsSpoiled, Accepts, Spoiled
<1>7. cred # None => SpoiledNext(cred.sid)
  BY <1>1, <1>4, <1>6, UsedStays DEF Stays
<1>8. k = "refresh" /\ cred = None /\ request[t][k].bearer # None =>
         SpoiledNext(request[t][k].bearer)
  BY <1>1, <1>4, UsedStays DEF IInv, BareRefreshIsLate, Stays
<1> HIDE DEF status
<1> QED BY <1>1, <1>2, <1>3, <1>4, <1>5, <1>7, <1>8, NamesDiffer, AnsweringKeeps

LEMMA ServeLogoutKeeps ==
  ASSUME IInv, NEW t \in Tabs, request[t]["logout"].pc = "sent", ServeLogout(t), Rest,
         jar' = jar, token' = token
  PROVE  IInv'
<1> DEFINE cred == request[t]["logout"].cred
<1>1. TypeOK /\ RequestsFit /\ "logout" \in Kinds
  BY KindsAre DEF IInv
<1>2. CASE Refuse(t, "logout", cred)
  BY <1>2, RefuseKeeps
<1>3. CASE /\ Accepts(cred) /\ session' = [session EXCEPT ![cred.sid] = Over]
           /\ Answer(t, "logout", "ok", Cleared)
  <2>1. Answers(t, "logout", "ok", Cleared) /\ Typed
    BY <1>1, <1>3, AnswerFields
  <2>2. cred \in Cookies /\ cred.sid \in Sessions
    BY <1>1, <1>3, SlotTyped DEF Accepts, Cookies
  <2>3. session' = [s \in Sessions |-> IF s \in {cred.sid} THEN Over ELSE session[s]]
    BY <1>1, <1>3 DEF TypeOK
  <2>4. Grows /\ SpoiledNext(cred.sid)
    BY <1>1, <2>2, <2>3, EndGrows
  <2>5. request[t]["logout"].cookie = None /\ InFlight(t, "logout")
    BY <1>1 DEF RequestsFit, InFlight
  <2> QED BY <1>1, <2>1, <2>4, <2>5, NamesDiffer, AnsweringKeeps
<1> QED BY <1>2, <1>3 DEF ServeLogout

LEMMA ServeAccountKeeps ==
  ASSUME IInv, NEW t \in Tabs, request[t]["act"].pc = "sent", request[t]["act"].verb # "login",
         ServeAccount(t), Rest, jar' = jar, token' = token
  PROVE  IInv'
<1> DEFINE s == request[t]["act"].bearer
           ended == {o \in EndedBy(request[t]["act"].verb, s) : Open(o)}
<1>1. TypeOK /\ RequestsFit /\ "act" \in Kinds
  BY KindsAre DEF IInv
<1>2. request[t]["act"].cookie = None /\ InFlight(t, "act")
  BY <1>1 DEF RequestsFit, InFlight
<1>3. CASE Answer(t, "act", "refused", None) /\ session' = session
  <2>1. Answers(t, "act", "refused", None) /\ Typed
    BY <1>1, <1>3, AnswerFields
  <2> QED BY <1>1, <1>2, <1>3, <2>1, SameGrows, NamesDiffer, AnsweringKeeps
<1>4. CASE /\ session' = [o \in Sessions |-> IF o \in ended THEN Over ELSE session[o]]
           /\ Answer(t, "act", "ok", IF s \in ended THEN Cleared ELSE None)
  <2> DEFINE cookie == IF s \in ended THEN Cleared ELSE None
  <2>1. cookie \in {None, Cleared}
    OBVIOUS
  <2>2. Answers(t, "act", "ok", cookie) /\ Typed
    BY <1>1, <1>4, AnswerFields
  <2>3. session' = [o \in Sessions |-> IF o \in ended \cap Sessions THEN Over ELSE session[o]]
    BY <1>4
  <2>4. Grows
    <3> HIDE DEF ended
    <3> QED BY <1>1, <2>3, EndGrows
  <2> HIDE DEF cookie
  <2> QED BY <1>1, <1>2, <2>1, <2>2, <2>4, NamesDiffer, AnsweringKeeps
<1> QED BY <1>3, <1>4 DEF ServeAccount

LEMMA LoseKeeps ==
  ASSUME IInv, NEW t \in Tabs, NEW k \in Kinds, Lose(t, k), Rest
  PROVE  IInv'
<1> DEFINE r == request[t][k]
           carries == r.cookie \notin {None, Cleared}
<1>1. TypeOK
  BY DEF IInv
<1>2. /\ InFlight(t, k) /\ Answer(t, k, "lost", None) /\ jar' = jar /\ token' = token
      /\ session' = IF carries /\ Open(r.cookie.sid)
                    THEN [session EXCEPT ![r.cookie.sid].raced = TRUE] ELSE session
  BY DEF Lose
<1>3. Answers(t, k, "lost", None) /\ Typed
  BY <1>1, <1>2, AnswerFields
<1>4. Grows /\ (r.cookie \in Cookies => SpoiledNext(r.cookie.sid))
  <2>1. CASE carries
    <3>1. r.cookie.sid \in Sessions
      BY <1>1, <2>1, SlotTyped DEF Cookies
    <3>2. session' = IF TRUE /\ Open(r.cookie.sid)
                     THEN [session EXCEPT ![r.cookie.sid].raced = TRUE] ELSE session
      BY <1>2, <2>1
    <3> HIDE DEF r
    <3> QED BY <1>1, <3>1, <3>2, RaceGrows
  <2>2. CASE ~carries
    BY <1>1, <1>2, <2>2, NamesDiffer, SameGrows
  <2> QED BY <2>1, <2>2
<1> QED BY <1>2, <1>3, <1>4, NamesDiffer, AnsweringKeeps

\* A sign-in opens a session that is new.
LEMMA ServeLoginKeeps ==
  ASSUME IInv, NEW t \in Tabs, request[t]["act"].pc = "sent", request[t]["act"].verb = "login",
         ServeLogin(t), Rest, jar' = jar, token' = token
  PROVE  IInv'
<1>1. TypeOK /\ RequestsFit /\ "act" \in Kinds
  BY KindsAre DEF IInv
<1>2. request[t]["act"].cookie = None /\ InFlight(t, "act")
  BY <1>1 DEF RequestsFit, InFlight
<1>3. CASE Answer(t, "act", "refused", None) /\ session' = session
  <2>1. Answers(t, "act", "refused", None) /\ Typed
    BY <1>1, <1>3, AnswerFields
  <2> QED BY <1>1, <1>2, <1>3, <2>1, SameGrows, NamesDiffer, AnsweringKeeps
<1>4. ASSUME NEW s \in Sessions, session[s].status = "none",
             session' = [session EXCEPT ![s].status = "open"],
             Answer(t, "act", "ok", Cookie(s))
      PROVE  IInv'
  <2>1. Cookie(s) \in Cookies /\ Cookie(s).sid = s /\ Cookie(s).current
    BY DEF Cookie, Cookies
  <2>2. Answers(t, "act", "ok", Cookie(s)) /\ Typed
    BY <1>1, <1>4, <2>1, AnswerFields
  <2>3. /\ session' \in [Sessions -> Rows] /\ session'[s].status = "open"
        /\ \A o \in Sessions \ {s} : session'[o] = session[o]
    BY <1>1, <1>4 DEF TypeOK, Rows
  <2>4. Grows
    BY <1>4, <2>3 DEF Grows, Stays, Spoiled, SpoiledNext, Open
  <2> QED BY <1>1, <1>2, <1>4, <2>1, <2>2, <2>3, <2>4, NamesDiffer, AnsweringKeeps
<1> QED BY <1>3, <1>4 DEF ServeLogin

------------------------------------------------------------------------------
\* A cookie that is outdated is of the same session.
LEMMA OutdatedFields ==
  ASSUME NEW cookie \in Cookies \cup {None, Cleared}, NEW s \in Sessions
  PROVE  LET old == Outdated(cookie, s)
         IN  /\ cookie \in Cookies <=> old \in Cookies
             /\ cookie \in Cookies => old.sid = cookie.sid
             /\ cookie \in Cookies => (old.current <=> cookie.current /\ cookie.sid # s)
             /\ \A o \in Sessions : Of(old, o) <=> Of(cookie, o)
             /\ cookie \notin Cookies \/ cookie.sid # s => old = cookie
<1>1. CASE cookie \in Cookies /\ cookie.sid = s
  <2>1. Outdated(cookie, s) = [cookie EXCEPT !.current = FALSE]
    BY <1>1, NamesDiffer DEF Outdated
  <2>2. [cookie EXCEPT !.current = FALSE] \in Cookies
        /\ [cookie EXCEPT !.current = FALSE].sid = cookie.sid
        /\ ~[cookie EXCEPT !.current = FALSE].current
    BY <1>1 DEF Cookies
  <2> QED BY <1>1, <2>1, <2>2, NamesDiffer DEF Of
<1>2. CASE cookie \in Cookies /\ cookie.sid # s
  BY <1>2 DEF Outdated
<1>3. CASE cookie \notin Cookies
  BY <1>3 DEF Outdated
<1> QED BY <1>1, <1>2, <1>3

\* A rotation: the answer brings the new cookie, and every other one is outdated.
Rotates(t, s) ==
    /\ request[t]["refresh"].pc = "sent" /\ Accepts(request[t]["refresh"].cred)
    /\ s = request[t]["refresh"].cred.sid
    /\ session' = session /\ token' = token /\ jar' = Outdated(jar, s)
    /\ LET r == request[t]["refresh"]
           a == request'[t]["refresh"]
       IN  /\ a.pc = "answer" /\ a.status = "ok" /\ a.cookie = Cookie(s)
           /\ a.verb = r.verb /\ a.cred = r.cred /\ a.bearer = r.bearer
    /\ \A u \in Tabs, l \in Kinds : u # t \/ l # "refresh" =>
          request'[u][l] = [request[u][l] EXCEPT !.cred = Outdated(@, s), !.cookie = Outdated(@, s)]
    /\ Typed

\* A refresh that is not refused rotates the session of its cookie.
LEMMA ServeRefreshRotates ==
  ASSUME TypeOK, NEW t \in Tabs, request[t]["refresh"].pc = "sent", ServeRefresh(t),
         ~Refuse(t, "refresh", request[t]["refresh"].cred), token' = token
  PROVE  /\ request[t]["refresh"].cred.sid \in Sessions
         /\ Rotates(t, request[t]["refresh"].cred.sid)
<1> DEFINE s == request[t]["refresh"].cred.sid
           a == [request[t]["refresh"] EXCEPT !.pc = "answer", !.status = "ok", !.cookie = Cookie(s)]
           old(u, l) == [request[u][l] EXCEPT !.cred = Outdated(@, s), !.cookie = Outdated(@, s)]
<1>1. /\ Accepts(request[t]["refresh"].cred) /\ jar' = Outdated(jar, s) /\ session' = session
      /\ request' = [u \in Tabs |-> [l \in Kinds |->
            IF <<u, l>> = <<t, "refresh">> THEN a ELSE old(u, l)]]
  BY DEF ServeRefresh
<1>2. /\ request[t]["refresh"] \in Requests
      /\ request[t]["refresh"].cred \in Cookies /\ s \in Sessions /\ Cookie(s) \in Cookies
  BY <1>1, SlotTyped, KindsAre DEF Accepts, Cookies, Cookie
<1>3. a \in Requests
  BY <1>2 DEF Requests
<1>4. a.pc = "answer" /\ a.status = "ok" /\ a.cookie = Cookie(s)
      /\ a.verb = request[t]["refresh"].verb /\ a.cred = request[t]["refresh"].cred
      /\ a.bearer = request[t]["refresh"].bearer
  BY <1>2 DEF Requests
<1>5. ASSUME NEW u \in Tabs, NEW l \in Kinds PROVE old(u, l) \in Requests
  <2> DEFINE r == request[u][l]
  <2>1. r \in Requests /\ r.cred \in Cookies \cup {None} /\ r.cookie \in Cookies \cup {None, Cleared}
    BY SlotTyped
  <2>2. Outdated(r.cred, s) \in Cookies \cup {None} /\ Outdated(r.cookie, s) \in Cookies \cup {None, Cleared}
    <3> HIDE DEF r, s
    <3>1. Outdated(r.cred, s) \in Cookies \/ Outdated(r.cred, s) = r.cred
      BY <1>2, <2>1, OutdatedFields
    <3>2. Outdated(r.cookie, s) \in Cookies \/ Outdated(r.cookie, s) = r.cookie
      BY <1>2, <2>1, OutdatedFields
    <3> QED BY <2>1, <3>1, <3>2
  <2>3. old(u, l) = [r EXCEPT !.cred = Outdated(r.cred, s), !.cookie = Outdated(r.cookie, s)]
    OBVIOUS
  <2> HIDE DEF r, s, old
  <2> QED BY <2>1, <2>2, <2>3 DEF Requests
<1>6. /\ request'[t]["refresh"] = a
      /\ \A u \in Tabs, l \in Kinds : u # t \/ l # "refresh" => request'[u][l] = old(u, l)
  <2> HIDE DEF a, old, s
  <2> QED BY <1>1, KindsAre
<1>7. Typed
  <2> HIDE DEF a, old, s
  <2> QED BY <1>1, <1>3, <1>5 DEF Typed
<1> QED BY <1>1, <1>2, <1>4, <1>6, <1>7 DEF Rotates

\* What a rotation leaves of the requests.
LEMMA RotatedFields ==
  ASSUME TypeOK, NEW t \in Tabs, NEW s \in Sessions, Rotates(t, s), NEW u \in Tabs, NEW l \in Kinds,
         u # t \/ l # "refresh"
  PROVE  LET r == request[u][l]
             o == request'[u][l]
         IN  /\ o.pc = r.pc /\ o.verb = r.verb /\ o.bearer = r.bearer /\ o.status = r.status
             /\ o.cred = Outdated(r.cred, s) /\ o.cookie = Outdated(r.cookie, s)
             /\ r = Quiet => o = Quiet
<1> DEFINE r == request[u][l]
           o == [r EXCEPT !.cred = Outdated(@, s), !.cookie = Outdated(@, s)]
<1>1. request'[u][l] = o
  BY DEF Rotates
<1>2. r \in Requests
  BY SlotTyped
<1>3. /\ o.pc = r.pc /\ o.verb = r.verb /\ o.bearer = r.bearer /\ o.status = r.status
      /\ o.cred = Outdated(r.cred, s) /\ o.cookie = Outdated(r.cookie, s)
  <2> HIDE DEF r
  <2> QED BY <1>2 DEF Requests
<1>4. ASSUME r = Quiet PROVE o = Quiet
  <2>1. Outdated(None, s) = None
    BY DEF Outdated
  <2>2. o = [r EXCEPT !.cred = Outdated(r.cred, s), !.cookie = Outdated(r.cookie, s)]
    OBVIOUS
  <2>3. o = [Quiet EXCEPT !.cred = None, !.cookie = None]
    <3> HIDE DEF r, o
    <3> QED BY <1>4, <2>1, <2>2, QuietTyped
  <2>4. [Quiet EXCEPT !.cred = None, !.cookie = None] = Quiet
    BY QuietTyped DEF Requests
  <2> QED BY <2>3, <2>4
<1> HIDE DEF r, o
<1> QED BY <1>1, <1>3, <1>4 DEF r

\* A rotation keeps the invariant: who still holds the old cookie has raced.
LEMMA RotatingKeeps ==
  ASSUME IInv, NEW t \in Tabs, NEW s \in Sessions, Rotates(t, s), Rest
  PROVE  IInv'
<1> DEFINE mine == request[t]["refresh"]
<1>1. TypeOK /\ RequestsFit /\ "refresh" \in Kinds /\ "logout" \in Kinds /\ "act" \in Kinds
  BY KindsAre DEF IInv
<1>2. /\ session' = session /\ token' = token /\ jar' = Outdated(jar, s) /\ Typed
      /\ mine.pc = "sent" /\ mine.status = "none" /\ mine.cred.sid = s
      /\ mine.cred # None /\ mine.cred.current
  <2>1. /\ session' = session /\ token' = token /\ jar' = Outdated(jar, s) /\ Typed
        /\ mine.pc = "sent" /\ mine.cred.sid = s /\ Accepts(mine.cred)
    BY DEF Rotates
  <2>2. mine.status = "none"
    BY <1>1, <2>1 DEF RequestsFit
  <2> QED BY <2>1, <2>2 DEF Accepts
<1>3. mine.cred \in Cookies /\ Of(mine.cred, s) /\ Known(s)
  <2>1. mine.cred \in Cookies /\ Of(mine.cred, s)
    BY <1>1, <1>2, SlotTyped, NamesDiffer DEF Of
  <2> QED BY <1>1, <2>1 DEF Known
<1>4. LET a == request'[t]["refresh"]
      IN  /\ a.pc = "answer" /\ a.status = "ok" /\ a.cookie = Cookie(s)
          /\ a.cred = mine.cred /\ a.bearer = mine.bearer
  BY DEF Rotates
<1>5. Cookie(s) \in Cookies /\ Cookie(s).sid = s /\ Cookie(s).current /\ Of(Cookie(s), s)
      /\ \A o \in Sessions : Of(Cookie(s), o) => o = s
  <2>1. Cookie(s) \in Cookies /\ Cookie(s).sid = s /\ Cookie(s).current
    BY DEF Cookie, Cookies
  <2> QED BY <2>1, NamesDiffer DEF Of
<1>6. ASSUME NEW u \in Tabs, NEW l \in Kinds, u # t \/ l # "refresh"
      PROVE  LET r == request[u][l]
                 o == request'[u][l]
             IN  /\ o.pc = r.pc /\ o.verb = r.verb /\ o.bearer = r.bearer /\ o.status = r.status
                 /\ r = Quiet => o = Quiet
                 /\ r.cred = None <=> o.cred = None
                 /\ r.cred \in Cookies => o.cred.sid = r.cred.sid
                 /\ r.cred \in Cookies => (o.cred.current <=> r.cred.current /\ r.cred.sid # s)
                 /\ r.cookie \in Cookies <=> o.cookie \in Cookies
                 /\ r.cookie \in Cookies => o.cookie.sid = r.cookie.sid
                 /\ r.cookie \in Cookies => (o.cookie.current <=> r.cookie.current /\ r.cookie.sid # s)
                 /\ r.cookie \notin Cookies \/ r.cookie.sid # s => o.cookie = r.cookie
  <2>1. request[u][l].cred \in Cookies \cup {None} /\ request[u][l].cookie \in Cookies \cup {None, Cleared}
    BY <1>1, SlotTyped
  <2>2. LET r == request[u][l]
            o == request'[u][l]
        IN  /\ o.pc = r.pc /\ o.verb = r.verb /\ o.bearer = r.bearer /\ o.status = r.status
            /\ o.cred = Outdated(r.cred, s) /\ o.cookie = Outdated(r.cookie, s)
            /\ r = Quiet => o = Quiet
    BY <1>1, <1>6, RotatedFields
  <2> QED BY <2>1, <2>2, OutdatedFields, NamesDiffer
<1>7. \A u \in Tabs, l \in Kinds :
         /\ request'[u][l].bearer = request[u][l].bearer
         /\ \A o \in Sessions : Of(request'[u][l].cred, o) <=> Of(request[u][l].cred, o)
  <2> SUFFICES ASSUME NEW u \in Tabs, NEW l \in Kinds
               PROVE  /\ request'[u][l].bearer = request[u][l].bearer
                      /\ \A o \in Sessions : Of(request'[u][l].cred, o) <=> Of(request[u][l].cred, o)
    OBVIOUS
  <2>1. CASE u = t /\ l = "refresh"
    BY <1>4, <2>1
  <2>2. CASE u # t \/ l # "refresh"
    <3>1. request[u][l].cred \in Cookies \cup {None} /\ request'[u][l].cred \in Cookies \cup {None}
      BY <1>1, <1>2, SlotTyped DEF Typed, Requests
    <3> QED BY <1>6, <2>2, <3>1, NamesDiffer DEF Of
  <2> QED BY <2>1, <2>2
<1>8. jar' \in Cookies \cup {None} /\ \A o \in Sessions : Of(jar', o) <=> Of(jar, o)
  <2>1. jar \in Cookies \cup {None}
    BY <1>1 DEF TypeOK
  <2> QED BY <1>2, <2>1, OutdatedFields
<1>9. TypeOK'
  BY <1>1, <1>2, <1>8 DEF TypeOK, Typed, Rest
<1>10. \A o \in Sessions : (Spoiled(o)' <=> Spoiled(o)) /\ (Known(o)' <=> Known(o))
  BY <1>2, <1>7 DEF Spoiled, Open, Known, Of
<1>11. ASSUME NEW u \in Tabs, NEW l \in Kinds, NEW o \in Sessions, Of(request'[u][l].cookie, o)
       PROVE  o = s \/ Of(request[u][l].cookie, o)
  <2>1. CASE u = t /\ l = "refresh"
    BY <1>4, <1>5, <1>11, <2>1
  <2>2. CASE u # t \/ l # "refresh"
    <3>1. request'[u][l].cookie \in Cookies
      BY <1>2, <1>11 DEF Of, Typed, Requests
    <3> QED BY <1>6, <1>11, <2>2, <3>1, NamesDiffer DEF Of
  <2> QED BY <2>1, <2>2
<1>12. RequestsFit'
  <2>1. ASSUME NEW u \in Tabs, NEW l \in Kinds
        PROVE  /\ request'[u][l].pc = "none" => request'[u][l] = Quiet
               /\ request'[u][l].pc # "answer" => request'[u][l].status = "none"
               /\ request'[u][l].status # "ok" => request'[u][l].cookie = None
    BY <1>1, <1>4, <1>6, NamesDiffer DEF RequestsFit
  <2>2. ASSUME NEW u \in Tabs, request'[u]["refresh"].status = "ok"
        PROVE  /\ request'[u]["refresh"].cred # None
               /\ Of(request'[u]["refresh"].cookie, request'[u]["refresh"].cred.sid)
    <3>1. CASE u = t
      BY <1>2, <1>4, <1>5, <3>1
    <3>2. CASE u # t
      <4> DEFINE r == request[u]["refresh"]
      <4>1. r.status = "ok" /\ r.cred # None /\ Of(r.cookie, r.cred.sid)
        BY <1>1, <1>6, <2>2, <3>2 DEF RequestsFit
      <4>2. r.cred \in Cookies /\ r.cookie \in Cookies
        BY <1>1, <4>1, SlotTyped DEF Of
      <4> QED BY <1>1, <1>6, <3>2, <4>1, <4>2, NamesDiffer DEF Of
    <3> QED BY <3>1, <3>2
  <2>3. ASSUME NEW u \in Tabs PROVE request'[u]["logout"].cookie \in {None, Cleared}
    BY <1>1, <1>6, NamesDiffer DEF RequestsFit
  <2>4. ASSUME NEW u \in Tabs
        PROVE  LET r == request'[u]["act"]
               IN  /\ r.cred = None
                   /\ r.pc # "none" => r.verb \in Verbs /\ (r.verb # "login" => r.bearer \in Sessions)
                   /\ r.status = "ok" /\ r.verb = "login" => r.cookie \in Cookies
    BY <1>1, <1>6 DEF RequestsFit
  <2> QED BY <2>1, <2>2, <2>3, <2>4 DEF RequestsFit
<1>13. SessionsBegan'
  <2> SUFFICES ASSUME NEW o \in Sessions, Known(o)' \/ Of(jar', o) \/ Brought(o)'
               PROVE  session[o].status # "none"
    BY <1>2 DEF SessionsBegan, Of
  <2>1. Known(o) \/ Of(jar, o) \/ Brought(o) \/ o = s
    BY <1>8, <1>10, <1>11 DEF Brought, Of
  <2> QED BY <1>3, <2>1 DEF IInv, SessionsBegan
<1>14. KnownIsKept'
  BY <1>8, <1>10 DEF IInv, KnownIsKept, Of
<1>15. BareRefreshIsLate'
  <2> SUFFICES ASSUME NEW u \in Tabs, request'[u]["refresh"].cred = None,
                      request'[u]["refresh"].bearer # None
               PROVE  Spoiled(request'[u]["refresh"].bearer)
    BY <1>2 DEF BareRefreshIsLate, Spoiled, Open
  <2>1. u # t
    BY <1>2, <1>4
  <2>2. request[u]["refresh"].cred = None /\ request[u]["refresh"].bearer = request'[u]["refresh"].bearer
    BY <1>1, <1>6, <2>1
  <2> QED BY <2>2 DEF IInv, BareRefreshIsLate
<1>16. ASSUME NEW u \in Tabs, NEW l \in Kinds, u # t \/ l # "refresh", Of(request[u][l].cred, s)
       PROVE  Spoiled(s)
  BY <1>3, <1>16 DEF IInv, OverlapsAreRaces
<1>17. ASSUME NEW u \in Tabs, NEW l \in Kinds, u # t \/ l # "refresh", Of(request[u][l].cookie, s)
       PROVE  Spoiled(s)
  <2>1. l # "logout"
    BY <1>1, <1>17 DEF RequestsFit, Of
  <2>2. l # "act"
    BY <1>3, <1>17 DEF IInv, LoginIsFresh
  <2>3. CASE l = "refresh"
    <3> DEFINE r == request[u]["refresh"]
    <3>1. r.status = "ok"
      BY <1>1, <1>17, <2>3 DEF RequestsFit, Of
    <3>2. r.cred # None /\ Of(r.cookie, r.cred.sid)
      BY <1>1, <3>1 DEF RequestsFit
    <3>3. r.cred \in Cookies
      BY <1>1, <3>2, SlotTyped
    <3>4. Of(r.cred, s)
      BY <1>17, <2>3, <3>2, <3>3, NamesDiffer DEF Of
    <3> QED BY <1>16, <1>17, <2>3, <3>4
  <2> QED BY <2>1, <2>2, <2>3, KindsAre
<1>18. StaleIsSpoiled'
  <2> SUFFICES ASSUME NEW u \in Tabs, NEW l \in Kinds
               PROVE  LET r == request'[u][l]
                      IN  /\ r.cred # None /\ ~r.cred.current => Spoiled(r.cred.sid)
                          /\ r.cookie \in Cookies /\ ~r.cookie.current => Spoiled(r.cookie.sid)
    BY <1>2 DEF StaleIsSpoiled, Spoiled, Open
  <2>1. CASE u = t /\ l = "refresh"
    BY <1>2, <1>4, <1>5, <2>1
  <2>2. CASE u # t \/ l # "refresh"
    <3> DEFINE r == request[u][l]
               o == request'[u][l]
    <3>1. r.cred \in Cookies \cup {None}
      BY <1>1, SlotTyped
    <3>2. ASSUME o.cred # None, ~o.cred.current PROVE Spoiled(o.cred.sid)
      <4>1. r.cred \in Cookies /\ o.cred.sid = r.cred.sid /\ (~r.cred.current \/ r.cred.sid = s)
        BY <1>6, <2>2, <3>1, <3>2
      <4>2. CASE r.cred.sid = s
        BY <1>16, <2>2, <4>1, <4>2, NamesDiffer DEF Of
      <4>3. CASE ~r.cred.current
        BY <4>1, <4>3, NamesDiffer DEF IInv, StaleIsSpoiled
      <4> QED BY <4>1, <4>2, <4>3
    <3>3. ASSUME o.cookie \in Cookies, ~o.cookie.current PROVE Spoiled(o.cookie.sid)
      <4>1. r.cookie \in Cookies /\ o.cookie.sid = r.cookie.sid /\ (~r.cookie.current \/ r.cookie.sid = s)
        BY <1>6, <2>2, <3>3
      <4>2. CASE r.cookie.sid = s
        BY <1>17, <2>2, <4>1, <4>2, NamesDiffer DEF Of
      <4>3. CASE ~r.cookie.current
        BY <4>1, <4>3, NamesDiffer DEF IInv, StaleIsSpoiled
      <4> QED BY <4>1, <4>2, <4>3
    <3> QED BY <3>2, <3>3
  <2> QED BY <2>1, <2>2
<1>19. StaleIsReplaced'
  <2> SUFFICES ASSUME jar' # None, ~jar'.current
               PROVE  \/ Spoiled(jar'.sid)
                      \/ \E u \in Tabs : LET r == request'[u]["refresh"]
                            IN  r.status = "ok" /\ r.cookie = Cookie(jar'.sid) /\ Of(r.cred, jar'.sid)
    BY <1>2 DEF StaleIsReplaced, Cookie, Of, Spoiled, Open
  <2>1. jar \in Cookies \cup {None} /\ jar' \in Cookies
    BY <1>1, <1>8 DEF TypeOK
  <2>2. jar \in Cookies /\ jar'.sid = jar.sid /\ (~jar.current \/ jar.sid = s)
    BY <1>2, <2>1, OutdatedFields
  <2>3. CASE jar.sid = s
    BY <1>3, <1>4, <2>2, <2>3
  <2>4. CASE jar.sid # s
    <3>1. ASSUME NEW u \in Tabs, request[u]["refresh"].status = "ok",
                 request[u]["refresh"].cookie = Cookie(jar.sid),
                 Of(request[u]["refresh"].cred, jar.sid)
          PROVE  LET r == request'[u]["refresh"]
                 IN  r.status = "ok" /\ r.cookie = Cookie(jar.sid) /\ Of(r.cred, jar.sid)
      <4>1. u # t
        BY <1>2, <3>1
      <4>2. Cookie(jar.sid).sid # s /\ jar.sid \in Sessions
        BY <2>2, <2>4 DEF Cookie, Cookies
      <4> QED BY <1>1, <1>6, <1>7, <3>1, <4>1, <4>2
    <3> QED BY <2>2, <2>4, <3>1, NamesDiffer DEF IInv, StaleIsReplaced
  <2> QED BY <2>3, <2>4
<1>20. OverlapsAreRaces'
  <2> SUFFICES ASSUME NEW u \in Tabs, NEW v \in Tabs, NEW l \in Kinds, NEW o \in Sessions,
                      v # u \/ l # "refresh",
                      Of(request'[u]["refresh"].cred, o), Of(request'[v][l].cred, o)
               PROVE  Spoiled(o)
    BY <1>10 DEF OverlapsAreRaces, Of
  <2> QED BY <1>1, <1>7 DEF IInv, OverlapsAreRaces
<1>21. LoginIsFresh'
  <2> SUFFICES ASSUME NEW u \in Tabs, NEW o \in Sessions, Of(request'[u]["act"].cookie, o)
               PROVE  /\ ~Known(o)' /\ ~Of(jar', o)
                      /\ \A v \in Tabs \ {u} : ~Of(request'[v]["act"].cookie, o)
    BY DEF LoginIsFresh, Of
  <2>1. \A v \in Tabs : Of(request'[v]["act"].cookie, o) => Of(request[v]["act"].cookie, o)
    <3>1. \A v \in Tabs : /\ request[v]["act"].cookie \in Cookies \cup {None, Cleared}
                          /\ request'[v]["act"].cookie \in Cookies \cup {None, Cleared}
      BY <1>1, <1>2, SlotTyped DEF Typed, Requests
    <3> QED BY <1>1, <1>6, <3>1, NamesDiffer DEF Of
  <2> QED BY <1>8, <1>10, <2>1 DEF IInv, LoginIsFresh
<1>22. LogoutIsOver'
  <2> SUFFICES ASSUME NEW u \in Tabs, request'[u]["logout"].status \in {"ok", "refused"},
                      request'[u]["logout"].cred # None
               PROVE  Spoiled(request'[u]["logout"].cred.sid)
    BY <1>2 DEF LogoutIsOver, Spoiled, Open
  <2>1. request[u]["logout"].cred \in Cookies \cup {None}
    BY <1>1, SlotTyped
  <2> QED BY <1>1, <1>6, <2>1 DEF IInv, LogoutIsOver
<1>23. SessionKept'
  <2> SUFFICES ASSUME NEW u \in Tabs, request'[u]["refresh"].status \in {"refused", "forbidden"}
               PROVE  LET r == request'[u]["refresh"]
                          o == IF r.cred # None THEN r.cred.sid ELSE r.bearer
                      IN  o # None => Spoiled(o)
    BY <1>2 DEF SessionKept, Spoiled, Open
  <2>1. u # t
    BY <1>4
  <2>2. request[u]["refresh"].cred \in Cookies \cup {None}
    BY <1>1, SlotTyped
  <2> QED BY <1>1, <1>6, <2>1, <2>2 DEF IInv, SessionKept, Spoiled
<1> QED
  BY <1>9, <1>12, <1>13, <1>14, <1>15, <1>18, <1>19, <1>20, <1>21, <1>22, <1>23 DEF IInv

------------------------------------------------------------------------------
\* What the jar becomes when an answer arrives.
LEMMA StoreFields ==
  ASSUME TypeOK, NEW cookie \in Cookies \cup {None, Cleared}, Store(cookie)
  PROVE  /\ Grows /\ jar' \in Cookies \cup {None}
         /\ cookie = None => jar' = jar
         /\ cookie \in Cookies => jar' = cookie
         /\ jar' = jar \/ jar' = None \/ jar' = cookie
         /\ jar # None => Of(jar', jar.sid) \/ SpoiledNext(jar.sid)
<1>1. jar \in Cookies \cup {None}
  BY DEF TypeOK
<1>2. /\ cookie = None => jar' = jar
      /\ cookie = Cleared => jar' = None
      /\ cookie \in Cookies => jar' = cookie
  BY NamesDiffer DEF Store
<1> DEFINE other == cookie # None /\ (cookie # Cleared => cookie.sid # jar.sid)
<1>3. CASE jar = None
  <2>1. session' = session
    BY <1>3 DEF Store
  <2> QED BY <1>1, <1>2, <1>3, <2>1, SameGrows
<1>4. CASE jar \in Cookies
  <2>1. jar.sid \in Sessions /\ jar # None
    BY <1>4, NamesDiffer DEF Cookies
  <2>2. session' = IF other /\ Open(jar.sid) THEN [session EXCEPT ![jar.sid].raced = TRUE] ELSE session
    BY <2>1 DEF Store
  <2>3. Grows /\ (other => SpoiledNext(jar.sid))
    <3>1. other \in BOOLEAN
      OBVIOUS
    <3> HIDE DEF other
    <3> QED BY <2>1, <2>2, <3>1, RaceGrows
  <2>4. ~other => Of(jar', jar.sid)
    BY <1>2, <1>4, NamesDiffer DEF Of
  <2> QED BY <1>1, <1>2, <2>3, <2>4
<1> QED BY <1>1, <1>3, <1>4

\* An answer is dealt with.  A tab that signs in relies on a session that somebody
\* relied on, or that the answer to a sign-in brought.
Ends(t, k) ==
    LET r == request[t][k]
    IN  /\ Store(r.cookie) /\ r.pc = "answer"
        /\ request'[t][k] = Quiet /\ OtherRequests(t, k) /\ Typed
        /\ token' \in [Tabs -> Sessions \cup {None}]
        /\ \A u \in Tabs :
              \/ token'[u] \in {token[u], None}
              \/ Known(token'[u]) \/ (k = "act" /\ Of(r.cookie, token'[u]))

LEMMA EndingKeeps ==
  ASSUME IInv, NEW t \in Tabs, NEW k \in Kinds, Ends(t, k), Rest
  PROVE  IInv'
<1> DEFINE c == request[t][k].cookie
<1>1. TypeOK /\ RequestsFit /\ "refresh" \in Kinds /\ "logout" \in Kinds /\ "act" \in Kinds
  BY KindsAre DEF IInv
<1>2. /\ request[t][k].pc = "answer" /\ request'[t][k] = Quiet /\ OtherRequests(t, k) /\ Typed
      /\ token' \in [Tabs -> Sessions \cup {None}]
      /\ \A u \in Tabs :
            token'[u] \in {token[u], None} \/ Known(token'[u]) \/ (k = "act" /\ Of(c, token'[u]))
  BY DEF Ends
<1>3. /\ c \in Cookies \cup {None, Cleared} /\ Grows /\ jar' \in Cookies \cup {None}
      /\ c = None => jar' = jar
      /\ c \in Cookies => jar' = c
      /\ jar' = jar \/ jar' = None \/ jar' = c
      /\ jar # None => Of(jar', jar.sid) \/ SpoiledNext(jar.sid)
  BY <1>1, SlotTyped, StoreFields DEF Ends
<1> HIDE DEF c
<1>4. TypeOK'
  BY <1>1, <1>2, <1>3 DEF TypeOK, Typed, Grows, Rest, Rows
<1>5. RequestsFit'
  BY <1>1, <1>2, QuietTyped DEF RequestsFit, OtherRequests
<1>6. \A s \in Sessions : Known(s)' => Known(s) \/ (k = "act" /\ Of(c, s))
  <2>1. ASSUME NEW s \in Sessions, NEW u \in Tabs, token'[u] = s
        PROVE  Known(s) \/ (k = "act" /\ Of(c, s))
    BY <1>2, <2>1, NamesDiffer DEF Known
  <2>2. ASSUME NEW s \in Sessions, NEW u \in Tabs, NEW l \in Kinds,
               request'[u][l].bearer = s \/ Of(request'[u][l].cred, s)
        PROVE  Known(s)
    <3>1. u # t \/ l # k
      BY <1>2, <2>2, QuietTyped, NamesDiffer DEF Of
    <3> QED BY <1>2, <2>2, <3>1 DEF OtherRequests, Known
  <2> QED BY <2>1, <2>2 DEF Known, Of
<1>7. \A s \in Sessions : Brought(s)' => Brought(s)
  <2> SUFFICES ASSUME NEW s \in Sessions, NEW u \in Tabs, NEW l \in Kinds, Of(request'[u][l].cookie, s)
               PROVE  Brought(s)
    BY DEF Brought, Of
  <2>1. u # t \/ l # k
    BY <1>2, QuietTyped DEF Of
  <2> QED BY <1>2, <2>1 DEF OtherRequests, Brought
<1>8. \A s \in Sessions : /\ Of(jar', s) => Of(jar, s) \/ Of(c, s)
                          /\ Of(c, s) => Brought(s)
  BY <1>3 DEF Of, Brought, c
<1>9. SessionsBegan'
  BY <1>3, <1>6, <1>7, <1>8 DEF IInv, SessionsBegan, Grows, Stays, Of
<1>10. KnownIsKept'
  <2> SUFFICES ASSUME NEW s \in Sessions, Known(s)' PROVE Of(jar', s) \/ SpoiledNext(s)
    BY DEF KnownIsKept, Of, Spoiled, SpoiledNext, Open
  <2>1. CASE Known(s) /\ Of(jar, s)
    BY <1>3, <2>1 DEF Of
  <2>2. CASE Known(s) /\ Spoiled(s)
    BY <1>3, <2>2 DEF IInv, SessionsBegan, Grows, Stays
  <2>3. CASE Of(c, s)
    BY <1>3, <2>3 DEF Of
  <2> QED BY <1>6, <2>1, <2>2, <2>3 DEF IInv, KnownIsKept
<1>11. ASSUME NEW u \in Tabs, NEW l \in Kinds
       PROVE  /\ request'[u][l] = Quiet \/ (request'[u][l] = request[u][l] /\ (u # t \/ l # k))
  BY <1>2 DEF OtherRequests
<1>12. BareRefreshIsLate'
  <2> SUFFICES ASSUME NEW u \in Tabs, request'[u]["refresh"].cred = None,
                      request'[u]["refresh"].bearer # None
               PROVE  SpoiledNext(request'[u]["refresh"].bearer)
    BY DEF BareRefreshIsLate, Spoiled, SpoiledNext, Open
  <2> QED BY <1>1, <1>3, <1>11, QuietTyped, UsedStays DEF IInv, BareRefreshIsLate, Stays
<1>13. StaleIsSpoiled'
  <2> SUFFICES ASSUME NEW u \in Tabs, NEW l \in Kinds
               PROVE  LET r == request'[u][l]
                      IN  /\ r.cred # None /\ ~r.cred.current => SpoiledNext(r.cred.sid)
                          /\ r.cookie \in Cookies /\ ~r.cookie.current => SpoiledNext(r.cookie.sid)
    BY DEF StaleIsSpoiled, Spoiled, SpoiledNext, Open
  <2> QED BY <1>3, <1>11, QuietTyped, NamesDiffer, UsedStays DEF IInv, StaleIsSpoiled, Stays
<1>14. StaleIsReplaced'
  <2> SUFFICES ASSUME jar' # None, ~jar'.current
               PROVE  \/ SpoiledNext(jar'.sid)
                      \/ \E u \in Tabs : LET r == request'[u]["refresh"]
                            IN  r.status = "ok" /\ r.cookie = Cookie(jar'.sid) /\ Of(r.cred, jar'.sid)
    BY DEF StaleIsReplaced, Cookie, Of, Spoiled, SpoiledNext, Open
  <2>1. CASE jar' = c /\ c \in Cookies
    BY <1>3, <2>1, UsedStays DEF IInv, StaleIsSpoiled, Stays, c
  <2>2. CASE jar' = jar /\ c \notin Cookies
    <3>1. CASE Spoiled(jar.sid)
      BY <1>3, <2>2, <3>1, UsedStays DEF Stays
    <3>2. ASSUME NEW u \in Tabs, request[u]["refresh"].status = "ok",
                 request[u]["refresh"].cookie = Cookie(jar.sid)
          PROVE  request'[u]["refresh"] = request[u]["refresh"]
      <4>1. Cookie(jar.sid) \in Cookies
        BY <1>3, <2>2 DEF Cookie, Cookies
      <4>2. u # t \/ k # "refresh"
        BY <2>2, <3>2, <4>1 DEF c
      <4> QED BY <1>1, <1>2, <4>2 DEF OtherRequests
    <3> QED BY <2>2, <3>1, <3>2 DEF IInv, StaleIsReplaced
  <2> QED BY <1>3, <2>1, <2>2, NamesDiffer
<1>15. OverlapsAreRaces'
  <2> SUFFICES ASSUME NEW u \in Tabs, NEW v \in Tabs, NEW l \in Kinds, NEW s \in Sessions,
                      v # u \/ l # "refresh",
                      Of(request'[u]["refresh"].cred, s), Of(request'[v][l].cred, s)
               PROVE  SpoiledNext(s)
    BY DEF OverlapsAreRaces, Of, Spoiled, SpoiledNext, Open
  <2>1. request'[u]["refresh"] = request[u]["refresh"] /\ request'[v][l] = request[v][l]
    BY <1>1, <1>11, QuietTyped DEF Of
  <2>2. Spoiled(s) /\ Known(s)
    BY <1>1, <2>1 DEF IInv, OverlapsAreRaces, Known
  <2> QED BY <1>3, <2>2 DEF IInv, SessionsBegan, Grows, Stays
<1>16. LoginIsFresh'
  <2> SUFFICES ASSUME NEW u \in Tabs, NEW s \in Sessions, Of(request'[u]["act"].cookie, s)
               PROVE  /\ ~Known(s)' /\ ~Of(jar', s)
                      /\ \A v \in Tabs \ {u} : ~Of(request'[v]["act"].cookie, s)
    BY DEF LoginIsFresh, Of
  <2>1. /\ Of(request[u]["act"].cookie, s) /\ (u # t \/ k # "act")
        /\ \A v \in Tabs : Of(request'[v]["act"].cookie, s) => Of(request[v]["act"].cookie, s)
    BY <1>1, <1>11, QuietTyped DEF Of
  <2>2. ~Known(s) /\ ~Of(jar, s) /\ \A v \in Tabs \ {u} : ~Of(request[v]["act"].cookie, s)
    BY <2>1 DEF IInv, LoginIsFresh
  <2>3. ~Of(c, s)
    <3>1. CASE k = "act"
      BY <2>1, <2>2, <3>1 DEF c
    <3>2. CASE k = "logout"
      BY <1>1, <3>2 DEF RequestsFit, Of, c
    <3>3. CASE k = "refresh"
      <4> SUFFICES ASSUME Of(c, s) PROVE FALSE
        OBVIOUS
      <4> DEFINE r == request[t]["refresh"]
      <4>1. r.status = "ok"
        BY <1>1, <3>3 DEF RequestsFit, Of, c
      <4>2. r.cred # None /\ Of(c, r.cred.sid)
        BY <1>1, <3>3, <4>1 DEF RequestsFit, c
      <4>3. Of(r.cred, s)
        <5>1. r.cred \in Cookies
          BY <1>1, <4>2, SlotTyped
        <5> QED BY <4>2, <5>1, NamesDiffer DEF Of
      <4> QED BY <1>1, <2>2, <4>3 DEF Known
    <3> QED BY <3>1, <3>2, <3>3, KindsAre
  <2> QED BY <1>6, <1>8, <2>1, <2>2, <2>3
<1>17. LogoutIsOver'
  <2> SUFFICES ASSUME NEW u \in Tabs, request'[u]["logout"].status \in {"ok", "refused"},
                      request'[u]["logout"].cred # None
               PROVE  SpoiledNext(request'[u]["logout"].cred.sid)
    BY DEF LogoutIsOver, Spoiled, SpoiledNext, Open
  <2>1. request'[u]["logout"] = request[u]["logout"]
    BY <1>1, <1>11, QuietTyped
  <2> QED BY <1>1, <1>3, <2>1, UsedStays DEF IInv, LogoutIsOver, Stays
<1>18. SessionKept'
  <2> SUFFICES ASSUME NEW u \in Tabs, request'[u]["refresh"].status \in {"refused", "forbidden"}
               PROVE  LET r == request'[u]["refresh"]
                          s == IF r.cred # None THEN r.cred.sid ELSE r.bearer
                      IN  s # None => SpoiledNext(s)
    BY DEF SessionKept, SpoiledNext, Open
  <2>1. request'[u]["refresh"] = request[u]["refresh"]
    BY <1>1, <1>11, QuietTyped
  <2> QED BY <1>1, <1>3, <2>1, UsedStays DEF IInv, SessionKept, Spoiled, Stays, Open
<1> QED
  BY <1>4, <1>5, <1>9, <1>10, <1>12, <1>13, <1>14, <1>15, <1>16, <1>17, <1>18 DEF IInv

\* A tab that forgets its token relies on less.
LEMMA ForgettingKeeps ==
  ASSUME IInv, session' = session, jar' = jar, request' = request, Rest,
         token' \in [Tabs -> Sessions \cup {None}], \A u \in Tabs : token'[u] \in {token[u], None}
  PROVE  IInv'
<1>1. TypeOK'
  BY DEF IInv, TypeOK, Rest
<1>2. \A s \in Sessions : (Known(s)' => Known(s)) /\ (Spoiled(s)' <=> Spoiled(s))
  BY NamesDiffer DEF Known, Of, Spoiled, Open
<1>3. SessionsBegan' /\ KnownIsKept' /\ LoginIsFresh'
  BY <1>2 DEF IInv, SessionsBegan, KnownIsKept, LoginIsFresh, Of, Brought
<1>4. /\ RequestsFit' /\ BareRefreshIsLate' /\ StaleIsSpoiled' /\ StaleIsReplaced'
      /\ OverlapsAreRaces' /\ LogoutIsOver' /\ SessionKept'
  BY DEF IInv, RequestsFit, BareRefreshIsLate, StaleIsSpoiled, StaleIsReplaced, OverlapsAreRaces,
         LogoutIsOver, SessionKept, Spoiled, Open, Of
<1> QED BY <1>1, <1>3, <1>4 DEF IInv

------------------------------------------------------------------------------
\* The actions, one by one.

\* The calls and the faults keep their types where they are unchanged.
LEMMA RestSame ==
  ASSUME TypeOK, call' = call, faults' = faults
  PROVE  Rest
BY DEF TypeOK, Rest

LEMMA SendKeeps ==
  ASSUME IInv, NEW t \in Tabs, NEW k \in Kinds, NEW verb \in Verbs \cup {"refresh", "logout"},
         Send(t, k, verb), ~InFlight(t, k), Rest, jar' = jar, token' = token,
         k = "act" => verb \in Verbs /\ (verb # "login" => token[t] # None)
  PROVE  IInv'
<1>1. Asks(t, k, verb) /\ Grows /\ Typed
  BY SendAsks DEF IInv
<1> QED BY <1>1, AskingKeeps

LEMMA LoadKeeps == ASSUME IInv, NEW t \in Tabs, Load(t) PROVE IInv'
<1>1. TypeOK /\ Rest
  BY RestSame DEF IInv, Load
<1> QED BY <1>1, ForgettingKeeps DEF Load, TypeOK

LEMMA EnsureKeeps == ASSUME IInv, NEW t \in Tabs, Ensure(t) PROVE IInv'
<1>1. TypeOK /\ Rest
  BY RestSame DEF IInv, Ensure
<1> QED BY <1>1, SendKeeps, KindsAre DEF Ensure

LEMMA LogoutKeeps == ASSUME IInv, NEW t \in Tabs, Logout(t) PROVE IInv'
<1>1. TypeOK /\ Rest
  BY RestSame DEF IInv, Logout
<1> QED BY <1>1, SendKeeps, KindsAre DEF Logout

LEMMA ActKeeps == ASSUME IInv, NEW t \in Tabs, NEW verb \in Verbs, Act(t, verb) PROVE IInv'
<1>1. TypeOK /\ Rest
  BY RestSame DEF IInv, Act
<1> QED BY <1>1, SendKeeps, KindsAre DEF Act

LEMMA ServeKeeps == ASSUME IInv, NEW t \in Tabs, NEW k \in Kinds, Serve(t, k) PROVE IInv'
<1>1. TypeOK /\ Rest /\ request[t][k].pc = "sent" /\ token' = token
  BY RestSame DEF IInv, Serve
<1>2. CASE k = "refresh" /\ ServeRefresh(t)
  <2>1. CASE Refuse(t, "refresh", request[t]["refresh"].cred) /\ jar' = jar
    BY <1>1, <1>2, <2>1, RefuseKeeps
  <2>2. CASE ~Refuse(t, "refresh", request[t]["refresh"].cred)
    BY <1>1, <1>2, <2>2, ServeRefreshRotates, RotatingKeeps
  <2>3. Refuse(t, "refresh", request[t]["refresh"].cred) => jar' = jar
    BY <1>2 DEF ServeRefresh, Refuse
  <2> QED BY <2>1, <2>2, <2>3
<1>3. CASE k = "logout" /\ ServeLogout(t) /\ jar' = jar
  BY <1>1, <1>3, ServeLogoutKeeps
<1>4. CASE k = "act" /\ request[t][k].verb = "login" /\ ServeLogin(t) /\ jar' = jar
  BY <1>1, <1>4, ServeLoginKeeps
<1>5. CASE k = "act" /\ request[t][k].verb # "login" /\ ServeAccount(t) /\ jar' = jar
  BY <1>1, <1>5, ServeAccountKeeps
<1> QED BY <1>2, <1>3, <1>4, <1>5 DEF Serve

LEMMA HushFields ==
  ASSUME TypeOK, NEW t \in Tabs, NEW k \in Kinds, Hush(t, k)
  PROVE  request'[t][k] = Quiet /\ OtherRequests(t, k) /\ Typed
<1>1. request' = [request EXCEPT ![t][k] = Quiet]
  BY DEF Hush
<1> HIDE DEF Quiet
<1> QED BY <1>1, QuietTyped DEF TypeOK, OtherRequests, Typed

\* A tab may take a token of a session it relies on, or one that was just opened.
LEMMA AcceptFields ==
  ASSUME TypeOK, NEW t \in Tabs, NEW s \in Sessions \cup {None}, token' = [token EXCEPT ![t] = s]
  PROVE  /\ token' \in [Tabs -> Sessions \cup {None}] /\ token'[t] = s
         /\ \A u \in Tabs \ {t} : token'[u] = token[u]
BY DEF TypeOK

LEMMA ReleaseTyped ==
  ASSUME TypeOK, NEW t \in Tabs, NEW next \in {"retried", "none"}, Release(t, next), faults' = faults
  PROVE  Rest
BY DEF TypeOK, Release, Rest

LEMMA EndRefreshKeeps == ASSUME IInv, NEW t \in Tabs, EndRefresh(t) PROVE IInv'
<1> DEFINE r == request[t]["refresh"]
<1>1. TypeOK /\ RequestsFit /\ "refresh" \in Kinds
  BY KindsAre DEF IInv
<1>2. /\ r.pc = "answer" /\ Store(r.cookie) /\ Hush(t, "refresh") /\ faults' = faults
      /\ IF r.status = "ok" THEN Accept(t, r.cred.sid) /\ Release(t, "retried")
         ELSE Clear(t) /\ Release(t, "none")
  BY DEF EndRefresh
<1>3. Rest
  BY <1>1, <1>2, ReleaseTyped
<1>4. /\ token' \in [Tabs -> Sessions \cup {None}]
      /\ \A u \in Tabs : token'[u] \in {token[u], None} \/ Known(token'[u])
  <2>1. CASE r.status = "ok"
    <3>1. r.cred \in Cookies
      BY <1>1, <2>1, SlotTyped DEF RequestsFit
    <3>2. r.cred.sid \in Sessions /\ Of(r.cred, r.cred.sid)
      BY <3>1, NamesDiffer DEF Of, Cookies
    <3>3. Known(r.cred.sid)
      BY <1>1, <3>2 DEF Known
    <3> HIDE DEF r
    <3>4. token' = [token EXCEPT ![t] = r.cred.sid]
      BY <1>2, <2>1 DEF Accept
    <3> QED BY <1>1, <3>2, <3>3, <3>4, AcceptFields
  <2>2. CASE r.status # "ok"
    <3>1. token' = [token EXCEPT ![t] = None]
      BY <1>2, <2>2 DEF Clear
    <3> QED BY <1>1, <3>1, AcceptFields
  <2> QED BY <2>1, <2>2
<1>5. Ends(t, "refresh")
  BY <1>1, <1>2, <1>4, HushFields DEF Ends
<1> QED BY <1>1, <1>3, <1>5, EndingKeeps

LEMMA EndLogoutKeeps == ASSUME IInv, NEW t \in Tabs, EndLogout(t) PROVE IInv'
<1> DEFINE r == request[t]["logout"]
<1>1. TypeOK /\ RequestsFit /\ "logout" \in Kinds
  BY KindsAre DEF IInv
<1>2. /\ r.pc = "answer" /\ Store(r.cookie) /\ Hush(t, "logout")
      /\ call' = call /\ faults' = faults /\ (Clear(t) \/ token' = token)
  BY DEF EndLogout
<1>3. Rest
  BY <1>1, <1>2, RestSame
<1>4. /\ token' \in [Tabs -> Sessions \cup {None}]
      /\ \A u \in Tabs : token'[u] \in {token[u], None}
  <2>1. CASE Clear(t)
    BY <1>1, <2>1, AcceptFields DEF Clear
  <2>2. CASE token' = token
    BY <1>1, <2>2 DEF TypeOK
  <2> QED BY <1>2, <2>1, <2>2
<1>5. Ends(t, "logout")
  BY <1>1, <1>2, <1>4, HushFields DEF Ends
<1> QED BY <1>1, <1>3, <1>5, EndingKeeps

LEMMA EndActKeeps == ASSUME IInv, NEW t \in Tabs, EndAct(t) PROVE IInv'
<1> DEFINE r == request[t]["act"]
<1>1. TypeOK /\ RequestsFit /\ "act" \in Kinds
  BY KindsAre DEF IInv
<1>2. /\ r.pc = "answer" /\ Store(r.cookie) /\ Hush(t, "act") /\ call' = call /\ faults' = faults
      /\ IF r.status # "ok" THEN token' = token
         ELSE CASE r.verb = "login" -> Accept(t, r.cookie.sid)
                [] r.verb = "change-password" -> Accept(t, r.bearer)
                [] OTHER -> Clear(t)
  BY DEF EndAct
<1>3. Rest
  BY <1>1, <1>2, RestSame
<1>4. /\ token' \in [Tabs -> Sessions \cup {None}]
      /\ \A u \in Tabs :
            token'[u] \in {token[u], None} \/ Known(token'[u]) \/ Of(r.cookie, token'[u])
  <2>1. CASE r.status # "ok"
    BY <1>1, <1>2, <2>1 DEF TypeOK
  <2>2. CASE r.status = "ok" /\ r.verb = "login"
    <3>1. r.cookie \in Cookies
      BY <1>1, <2>2 DEF RequestsFit
    <3>2. r.cookie.sid \in Sessions /\ Of(r.cookie, r.cookie.sid)
      BY <3>1, NamesDiffer DEF Of, Cookies
    <3>3. token' = [token EXCEPT ![t] = r.cookie.sid]
      BY <1>2, <2>2 DEF Accept
    <3> HIDE DEF r
    <3> QED BY <1>1, <3>2, <3>3, AcceptFields
  <2>3. CASE r.status = "ok" /\ r.verb = "change-password"
    <3>1. r.bearer \in Sessions
      BY <1>1, <1>2, <2>3 DEF RequestsFit
    <3>2. Known(r.bearer)
      BY <1>1 DEF Known
    <3>3. token' = [token EXCEPT ![t] = r.bearer]
      BY <1>2, <2>3 DEF Accept
    <3> HIDE DEF r
    <3> QED BY <1>1, <3>1, <3>2, <3>3, AcceptFields
  <2>4. CASE r.status = "ok" /\ r.verb # "login" /\ r.verb # "change-password"
    <3>1. token' = [token EXCEPT ![t] = None]
      BY <1>2, <2>4 DEF Clear
    <3> QED BY <1>1, <3>1, AcceptFields
  <2> QED BY <2>1, <2>2, <2>3, <2>4
<1>5. Ends(t, "act")
  BY <1>1, <1>2, <1>4, HushFields DEF Ends
<1> QED BY <1>1, <1>3, <1>5, EndingKeeps

LEMMA RetryKeeps == ASSUME IInv, NEW c \in Calls, Retry(c) PROVE IInv'
<1>1. TypeOK /\ TabOf[c] \in Tabs /\ "refresh" \in Kinds
  BY TabAssumption, KindsAre DEF IInv
<1>2. Rest /\ jar' = jar /\ token' = token
  BY <1>1 DEF Retry, Rest, TypeOK
<1>3. CASE InFlight(TabOf[c], "refresh")
  BY <1>1, <1>2, <1>3, ForgettingKeeps DEF Retry, TypeOK
<1>4. CASE ~InFlight(TabOf[c], "refresh")
  BY <1>1, <1>2, <1>4, SendKeeps DEF Retry
<1> QED BY <1>3, <1>4

LEMMA CallKeeps == ASSUME IInv, NEW c \in Calls, Call(c) \/ EndCall(c) PROVE IInv'
<1>1. TypeOK /\ Rest
  BY DEF IInv, TypeOK, Rest, Call, EndCall
<1> QED BY <1>1, ForgettingKeeps DEF Call, EndCall, TypeOK

\* A loss counts as a fault, within the bound.
LEMMA LoseRest == ASSUME IInv, NEW t \in Tabs, NEW k \in Kinds, Lose(t, k) PROVE Rest
BY BoundAssumption DEF IInv, TypeOK, Lose, Rest

LEMMA InitKeeps == ASSUME Init PROVE IInv
<1>1. First \in Sessions
  BY SessionAssumption DEF First
<1>2. Cookie(First) \in Cookies /\ Cookie(First).sid = First /\ Cookie(First).current
  BY <1>1 DEF Cookie, Cookies
<1>3. \A s \in Sessions : session[s] \in Rows /\ session[s].status = IF s = First THEN "open" ELSE "none"
  BY DEF Init, Unused, Rows
<1>4. \A t \in Tabs : token[t] = None /\ \A k \in Kinds : request[t][k] = Quiet
  BY DEF Init
<1>5. jar = Cookie(First) /\ jar # None
  BY <1>2, NamesDiffer DEF Init
<1>6. TypeOK
  <2>1. session \in [Sessions -> Rows]
    BY <1>3 DEF Init
  <2>2. token \in [Tabs -> Sessions \cup {None}] /\ call \in [Calls -> {"none", "sent", "waiting", "retried"}]
        /\ faults \in 0..MaxFaults
    BY BoundAssumption DEF Init
  <2>3. request \in [Tabs -> [Kinds -> Requests]]
    <3> HIDE DEF Quiet
    <3> QED BY QuietTyped DEF Init
  <2> QED BY <1>2, <1>5, <2>1, <2>2, <2>3 DEF TypeOK, Rows
<1>7. \A s \in Sessions : ~Known(s) /\ ~Brought(s) /\ (Of(jar, s) => s = First)
  <2>1. \A s \in Sessions : ~Known(s) /\ ~Brought(s)
    BY <1>4, QuietTyped, NamesDiffer DEF Known, Brought, Of
  <2> QED BY <1>2, <1>5, <2>1 DEF Of
<1>8. "refresh" \in Kinds /\ "logout" \in Kinds /\ "act" \in Kinds
  BY KindsAre
<1>9. RequestsFit
  BY <1>4, <1>8, QuietTyped DEF RequestsFit
<1>10. SessionsBegan /\ KnownIsKept
  BY <1>3, <1>7 DEF SessionsBegan, KnownIsKept
<1>11. BareRefreshIsLate /\ StaleIsSpoiled /\ LogoutIsOver /\ SessionKept
  BY <1>4, <1>8, QuietTyped, NamesDiffer
  DEF BareRefreshIsLate, StaleIsSpoiled, LogoutIsOver, SessionKept
<1>12. StaleIsReplaced
  BY <1>2, <1>5 DEF StaleIsReplaced
<1>13. OverlapsAreRaces /\ LoginIsFresh
  BY <1>4, <1>8, QuietTyped DEF OverlapsAreRaces, LoginIsFresh, Of
<1> QED BY <1>6, <1>9, <1>10, <1>11, <1>12, <1>13 DEF IInv

LEMMA NextKeeps == ASSUME IInv, [Next]_vars PROVE IInv'
<1>1. ASSUME NEW t \in Tabs,
             \/ Load(t) \/ Ensure(t) \/ Logout(t)
             \/ \E verb \in Verbs : Act(t, verb)
             \/ EndRefresh(t) \/ EndLogout(t) \/ EndAct(t)
             \/ \E k \in Kinds : Serve(t, k) \/ Lose(t, k)
      PROVE  IInv'
  <2>1. CASE Load(t) \/ Ensure(t) \/ Logout(t)
    BY <2>1, LoadKeeps, EnsureKeeps, LogoutKeeps
  <2>2. CASE \E verb \in Verbs : Act(t, verb)
    BY <2>2, ActKeeps
  <2>3. CASE EndRefresh(t) \/ EndLogout(t) \/ EndAct(t)
    BY <2>3, EndRefreshKeeps, EndLogoutKeeps, EndActKeeps
  <2>4. CASE \E k \in Kinds : Serve(t, k)
    BY <2>4, ServeKeeps
  <2>5. CASE \E k \in Kinds : Lose(t, k)
    BY <2>5, LoseKeeps, LoseRest
  <2> QED BY <1>1, <2>1, <2>2, <2>3, <2>4, <2>5
<1>2. ASSUME NEW c \in Calls, Call(c) \/ EndCall(c) \/ Retry(c) PROVE IInv'
  BY <1>2, CallKeeps, RetryKeeps
<1>3. CASE UNCHANGED vars
  <2>1. Rest
    BY <1>3, RestSame DEF IInv, vars
  <2> QED BY <1>3, <2>1, ForgettingKeeps DEF vars, IInv, TypeOK
<1> QED BY <1>1, <1>2, <1>3 DEF Next

\* The invariant holds for any number of tabs, calls, sessions and losses.
THEOREM BrowserInvariant == Spec => []IInv
<1>1. Init => IInv
  BY InitKeeps
<1>2. IInv /\ [Next]_vars => IInv'
  BY NextKeeps
<1> QED BY <1>1, <1>2, PTL DEF Spec

\* A refresh that is turned down, with the calls that wait for it, is about a session
\* that is over, or on which requests overlapped or an answer was lost.
THEOREM TabsKeepTheSession == Spec => []SessionKept
<1>1. IInv => SessionKept
  BY DEF IInv
<1> QED BY <1>1, BrowserInvariant, PTL

\* Only the end of a sign-out puts an answered one to rest.
LEMMA LogoutEnds ==
  ASSUME IInv, [Next]_vars, NEW t \in Tabs,
         request[t]["logout"].pc = "answer", request'[t]["logout"].pc = "none"
  PROVE  EndLogout(t)
<1>1. TypeOK /\ RequestsFit /\ "refresh" \in Kinds /\ "logout" \in Kinds /\ "act" \in Kinds
  BY KindsAre DEF IInv
<1>2. request'[t]["logout"] # request[t]["logout"]
  OBVIOUS
<1>3. ASSUME NEW u \in Tabs, NEW k \in Kinds, NEW verb \in Verbs \cup {"refresh", "logout"},
             Send(u, k, verb)
      PROVE  FALSE
  <2>1. Asks(u, k, verb)
    BY <1>1, <1>3, SendAsks
  <2>2. request'[u][k].pc = "sent" /\ OtherRequests(u, k)
    <3>1. request'[u][k].pc = "sent"
      BY <2>1, AskedFields
    <3> QED BY <2>1, <3>1 DEF Asks
  <2> QED BY <1>1, <1>2, <2>2 DEF OtherRequests
<1>4. ASSUME NEW u \in Tabs, NEW k \in Kinds, NEW status \in {"ok", "refused", "forbidden", "lost"},
             NEW cookie \in Cookies \cup {None, Cleared}, Answer(u, k, status, cookie)
      PROVE  FALSE
  <2>1. Answers(u, k, status, cookie)
    BY <1>1, <1>4, AnswerFields
  <2> QED BY <1>1, <1>2, <2>1 DEF Answers, OtherRequests
<1>5. ASSUME NEW u \in Tabs, NEW k \in Kinds, k # "logout", Hush(u, k)
      PROVE  FALSE
  BY <1>1, <1>2, <1>5, HushFields DEF OtherRequests
<1>6. ASSUME NEW u \in Tabs, EndLogout(u) PROVE EndLogout(t)
  <2>1. u = t
    BY <1>1, <1>2, <1>6, HushFields DEF EndLogout, OtherRequests
  <2> QED BY <1>6, <2>1
<1>7. ASSUME NEW u \in Tabs, NEW k \in Kinds, Serve(u, k) PROVE FALSE
  <2>1. ASSUME NEW l \in {"refresh", "logout"}, Refuse(u, l, request[u][l].cred) PROVE FALSE
    BY <1>1, <1>4, <2>1 DEF Refuse
  <2>2. ASSUME ServeRefresh(u), k = "refresh", ~Refuse(u, "refresh", request[u]["refresh"].cred)
        PROVE  FALSE
    <3>1. /\ request[u]["refresh"].cred.sid \in Sessions
          /\ Rotates(u, request[u]["refresh"].cred.sid)
      BY <1>1, <1>7, <2>2, ServeRefreshRotates DEF Serve
    <3> QED BY <1>1, <3>1, RotatedFields
  <2>3. ASSUME ServeLogout(u) PROVE FALSE
    BY <1>1, <1>4, <2>1, <2>3 DEF ServeLogout
  <2>4. ASSUME ServeLogin(u) PROVE FALSE
    <3>1. \A s \in Sessions : Cookie(s) \in Cookies
      BY DEF Cookie, Cookies
    <3> QED BY <1>1, <1>4, <2>4, <3>1 DEF ServeLogin
  <2>5. ASSUME ServeAccount(u) PROVE FALSE
    BY <1>1, <1>4, <2>5 DEF ServeAccount
  <2> QED BY <1>7, <2>1, <2>2, <2>3, <2>4, <2>5 DEF Serve
<1>8. ASSUME NEW u \in Tabs, NEW k \in Kinds, Lose(u, k) PROVE FALSE
  BY <1>4, <1>8 DEF Lose
<1>9. ASSUME NEW u \in Tabs,
             \/ Load(u) \/ Ensure(u) \/ Logout(u)
             \/ \E verb \in Verbs : Act(u, verb)
             \/ EndRefresh(u) \/ EndAct(u)
      PROVE  FALSE
  BY <1>1, <1>2, <1>3, <1>5, <1>9 DEF Load, Ensure, Logout, Act, EndRefresh, EndAct
<1>10. ASSUME NEW c \in Calls, Call(c) \/ EndCall(c) \/ Retry(c) PROVE FALSE
  BY <1>1, <1>2, <1>3, <1>10, TabAssumption DEF Call, EndCall, Retry
<1>11. ~UNCHANGED vars
  BY <1>2 DEF vars
<1> QED BY <1>6, <1>7, <1>8, <1>9, <1>10, <1>11 DEF Next

\* A tab that says signed out has ended its session on the server, or requests on it
\* overlapped or an answer was lost.
THEOREM SignedOutMeansOver == Spec => LogoutRevokes
<1> DEFINE Step(t) ==
        LET s == request[t]["logout"].cred.sid
        IN  request[t]["logout"].pc = "answer" /\ request'[t]["logout"].pc = "none"
            /\ token[t] # None /\ token'[t] = None /\ request[t]["logout"].cred # None =>
               ~Open(s) \/ session[s].raced
<1>1. ASSUME IInv, [Next]_vars, NEW t \in Tabs PROVE Step(t)
  <2> SUFFICES ASSUME request[t]["logout"].pc = "answer", request'[t]["logout"].pc = "none",
                      token[t] # None, token'[t] = None, request[t]["logout"].cred # None
               PROVE  Spoiled(request[t]["logout"].cred.sid)
    BY DEF Spoiled
  <2>1. EndLogout(t)
    BY <1>1, LogoutEnds
  <2>2. request[t]["logout"].status \in {"ok", "refused"}
    BY <2>1 DEF EndLogout
  <2> QED BY <1>1, <2>2 DEF IInv, LogoutIsOver
<1>2. IInv /\ [Next]_vars => [\A t \in Tabs : Step(t)]_vars
  BY <1>1
<1> QED BY <1>2, BrowserInvariant, PTL DEF Spec, LogoutRevokes

------------------------------------------------------------------------------
(* The workspace.  Its invariant: what is on its way fits what is on show.   *)

\* No two copies of a note.
Distinct(copies) == \A c, d \in copies : c.id = d.id => c = d

\* No change is under way but one of the collaborators, which leaves notes alone.
OnlySharing == mutation # Nothing => mutation.op \in {"share", "addshare", "contacts"}

\* The list is what the server has.
Current ==
    /\ total = Cardinality(Matching(query))
    /\ notes \subseteq {Copy(n) : n \in Matching(query)}
    /\ Page(query, 0) \subseteq notes

\* The user cannot leave the note whose change is under way, and no list answer
\* shows another; nor can collaborators of another note be on show.
ChangeIsHere ==
    /\ mutation # Nothing /\ mutation.op \in {"delete", "file", "item"} =>
          /\ selected # Nothing /\ selected.id = mutation.note /\ draft = "none"
          /\ \A r \in lists : r.sel
    /\ mutation # Nothing /\ mutation.op \in {"share", "addshare"} /\ panel # Nothing =>
          selected # Nothing /\ selected.id = mutation.note

\* A change that was carried out is what the server has until its answer comes.
ChangeIsDone ==
    mutation # Nothing =>
        /\ mutation.note = Nothing => mutation.op = "save" /\ mutation.st # "done"
        /\ mutation.op = "contacts" => mutation.st = "done"
        /\ mutation.op = "undelete" => mutation.note \notin deleted
        /\ mutation.st = "done" =>
              server[mutation.note].st = IF mutation.op = "delete" THEN "deleted" ELSE "active"

\* What was acknowledged stays deleted, and no page on its way has it.
DeletedStays ==
    /\ \A n \in deleted : server[n].st = "deleted"
    /\ \A r \in lists : deleted \cap Ids(r.page) = {}

\* An answer that counts is about the query in the box; as long as no change
\* is under way it is what the server has, and so is the list it adds to.
ListsFit ==
    /\ \A r, s \in lists : r = s
    /\ timer => lists = {}
    /\ timer \/ lists # {} => loading
    /\ \A r \in lists :
          /\ r.query = query
          /\ r.reset => r.skip = 0
          /\ r.st = "sent" => r.page = {}
          /\ r.st = "served" /\ OnlySharing =>
                r.page = Page(query, r.skip) /\ r.total = Cardinality(Matching(query))
          /\ ~r.reset /\ OnlySharing /\ ~dropped => Current
    /\ lists = {} /\ ~timer /\ OnlySharing /\ ~dropped => Current

NoTwice == Distinct(notes) /\ \A r \in lists : Distinct(r.page)

WorkspaceInv ==
    /\ WorkspaceTypeOK /\ NoTwice /\ ShownBelongs /\ ChangeIsHere /\ ChangeIsDone
    /\ DeletedIsGone /\ DeletedStays /\ UndoIsOffered /\ ListsFit

------------------------------------------------------------------------------
(* Copies of notes, and pages of them.                                       *)

LEMMA CopyIsTyped ==
  ASSUME WorkspaceTypeOK, NEW n \in Notes
  PROVE  Copy(n) \in Copies /\ Copy(n).id = n
BY DEF WorkspaceTypeOK, Copy, Copies

LEMMA CopyIsSome == ASSUME NEW c \in Copies PROVE c # Nothing /\ c.id \in Notes
BY NothingAssumption DEF Copies

\* A nonempty set of ids has a least one.
LEMMA LeastId ==
  ASSUME NEW S, S \subseteq Nat, S # {} PROVE \E x \in S : \A y \in S : x <= y
<1> DEFINE R == OpToRel(<, Nat)
<1>1. IsWellFoundedOn(R, Nat)
  BY NatLessThanWellFounded, Zenon
<1>2. R = {ss \in Nat \X Nat : ss[1] < ss[2]}
  BY Zenon DEF OpToRel
<1> HIDE DEF R
<1>3. PICK x \in S : \A y \in S : <<y, x>> \notin R
  BY <1>1, WFMin
<1>4. ASSUME NEW y \in S PROVE x <= y
  <2>1. /\ <<y, x>> \in Nat \X Nat /\ <<y, x>> \notin R
        /\ <<y, x>>[1] = y /\ <<y, x>>[2] = x
    BY <1>3
  <2>2. ~(y < x) /\ x \in Nat /\ y \in Nat
    BY <2>1, <1>2
  <2> QED BY <2>2
<1> QED BY <1>4

\* The first note of a list is one of it.
LEMMA FirstIsOne ==
  ASSUME NEW copies \in SUBSET Copies, copies # {} PROVE FirstOf(copies) \in copies
<1>1. Ids(copies) \subseteq Nat /\ Ids(copies) # {}
  BY NoteAssumption DEF Ids, Copies
<1>2. PICK x \in Ids(copies) : \A y \in Ids(copies) : x <= y
  BY <1>1, LeastId
<1>3. PICK c \in copies : c.id = x
  BY <1>2 DEF Ids
<1>4. \A d \in copies : c.id <= d.id
  BY <1>2, <1>3 DEF Ids
<1> QED BY <1>4 DEF FirstOf

\* What matches a search can be counted.
LEMMA MatchingIsSmall ==
  ASSUME NEW q \in Queries
  PROVE  /\ Matching(q) \subseteq Notes
         /\ Cardinality(Matching(q)) \in 0..Cardinality(Notes)
<1>1. Matching(q) \in SUBSET Notes
  BY QueryAssumption DEF Matching
<1>2. /\ Cardinality(Notes) \in Nat /\ IsFiniteSet(Matching(q))
      /\ Cardinality(Matching(q)) <= Cardinality(Notes)
  BY <1>1, NoteAssumption, FS_Subset, FS_CardinalityType
<1>3. Cardinality(Matching(q)) \in Nat
  BY <1>2, FS_CardinalityType
<1> QED BY <1>1, <1>2, <1>3

\* A page has copies of active notes, each once.
LEMMA PageIsCopies ==
  ASSUME WorkspaceTypeOK, NEW q \in Queries, NEW skip
  PROVE  /\ Page(q, skip) \subseteq {Copy(n) : n \in Matching(q)}
         /\ Page(q, skip) \subseteq Copies /\ Distinct(Page(q, skip))
         /\ \A n \in Ids(Page(q, skip)) : server[n].st = "active"
<1>1. Page(q, skip) \subseteq {Copy(n) : n \in Matching(q)}
  BY DEF Page
<1>2. \A n \in Matching(q) : /\ Copy(n) \in Copies /\ Copy(n).id = n
                             /\ server[n].st = "active"
  BY MatchingIsSmall, CopyIsTyped DEF Matching
<1>3. Distinct({Copy(n) : n \in Matching(q)})
  BY <1>2, Zenon DEF Distinct
<1> QED
  BY <1>1, <1>2, <1>3 DEF Distinct, Ids

\* So can a list in which no note occurs twice.
LEMMA NumberOfCopies ==
  ASSUME NEW copies \in SUBSET Copies, Distinct(copies)
  PROVE  Cardinality(copies) \in 0..Cardinality(Notes)
<1> DEFINE f == [c \in copies |-> c.id]
<1>1. f \in Injection(copies, Notes)
  <2>1. f \in [copies -> Notes]
    BY DEF Copies
  <2>2. \A c, d \in copies : f[c] = f[d] => c = d
    BY DEF Distinct
  <2> HIDE DEF f
  <2> QED BY <2>1, <2>2 DEF Injection, IsInjective
<1>2. IsFiniteSet(copies) /\ Cardinality(copies) <= Cardinality(Notes)
  BY <1>1, NoteAssumption, FS_Injection
<1> QED BY <1>2, NoteAssumption, FS_CardinalityType

\* Nobody but the server and the user changes what the list is measured by.
LEMMA PageStays ==
  ASSUME UNCHANGED server, NEW q, NEW skip
  PROVE  /\ Copy(q)' = Copy(q) /\ Matching(q)' = Matching(q)
         /\ Page(q, skip)' = Page(q, skip)
BY DEF Copy, Matching, Page

\* Whether the list is the server's depends on these four variables only.
LEMMA CurrentStays ==
  ASSUME UNCHANGED <<server, query, notes, total>> PROVE Current' = Current
BY DEF Copy, Matching, Page, Current

------------------------------------------------------------------------------
(* The list requests: asked for again, given up, or left as they are.        *)

\* One list request at a time, as a bound on a count.
LEMMA OneIsFew == ASSUME NEW x PROVE Cardinality({x}) <= 1
BY FS_Singleton

\* The list requests of a state as the invariant wants them.
ListsGood ==
    /\ lists \subseteq ListRequests /\ Cardinality(lists) <= 1
    /\ \A r \in lists : Distinct(r.page) /\ deleted \cap Ids(r.page) = {}
    /\ ListsFit

\* What the invariant says of the lists, before a step.
LEMMA ListsWereGood == WorkspaceInv => ListsGood
BY DEF WorkspaceInv, WorkspaceTypeOK, NoTwice, DeletedStays, ListsGood

LEMMA RequestIsTyped ==
  ASSUME WorkspaceInv, NEW reset \in BOOLEAN, NEW sel \in BOOLEAN
  PROVE  /\ ListRequest(reset, sel) \in ListRequests
         /\ ListRequest(reset, sel).st = "sent" /\ ListRequest(reset, sel).reset = reset
         /\ ListRequest(reset, sel).query = query /\ ListRequest(reset, sel).sel = sel
         /\ ListRequest(reset, sel).page = {}
         /\ reset => ListRequest(reset, sel).skip = 0
<1>1. Cardinality(notes) \in 0..Cardinality(Notes)
  BY NumberOfCopies DEF WorkspaceInv, WorkspaceTypeOK, NoTwice
<1>2. Cardinality(Notes) \in Nat
  BY NoteAssumption, FS_CardinalityType
<1> QED
  BY <1>1, <1>2 DEF WorkspaceInv, WorkspaceTypeOK, ListRequest, ListRequests

\* A new request is the only one; a request for the list afresh is so whatever
\* the server has, one for more of it while nothing is under way.
LEMMA ListsAskedFor ==
  ASSUME WorkspaceInv, NEW reset \in BOOLEAN, NEW sel \in BOOLEAN,
         LoadList(reset, sel), UNCHANGED query, ~reset => dropped \/ Current'
  PROVE  /\ ListsGood' /\ timer' \in BOOLEAN /\ loading' \in BOOLEAN
         /\ dropped' \in BOOLEAN /\ \A r \in lists' : r.sel = sel
<1>1. lists' = {ListRequest(reset, sel)} /\ timer' = FALSE /\ loading' = TRUE /\ dropped' = dropped
  BY DEF LoadList
<1>2. PICK r \in ListRequests :
         /\ lists' = {r} /\ r.st = "sent" /\ r.reset = reset /\ r.query = query
         /\ r.sel = sel /\ r.page = {} /\ (reset => r.skip = 0)
  BY <1>1, RequestIsTyped
<1>3. Cardinality(lists') <= 1
  BY <1>2, OneIsFew
<1>4. Distinct({}) /\ deleted' \cap Ids({}) = {}
  BY DEF Distinct, Ids
<1>5. (Distinct(r.page) /\ deleted' \cap Ids(r.page) = {})
  BY <1>2, <1>4
<1>6. ListsFit'
  BY <1>1, <1>2 DEF ListsFit
<1>7. dropped \in BOOLEAN
  BY DEF WorkspaceInv, WorkspaceTypeOK
<1> QED
  BY <1>1, <1>2, <1>3, <1>5, <1>6, <1>7 DEF ListsGood

\* No request counts any more: while a change is under way, while a search is
\* due, or if the list was given up or is up to date.
LEMMA ListsGivenUp ==
  ASSUME WorkspaceInv, lists' = {}, timer' \in BOOLEAN, dropped' \in BOOLEAN,
         loading' \in BOOLEAN, timer' => loading',
         ~timer' /\ OnlySharing' /\ ~dropped' => Current'
  PROVE  ListsGood'
BY FS_EmptySet DEF ListsGood, ListsFit

\* It goes on holding after a step that leaves the lists and the server alone.
LEMMA ListsStay ==
  ASSUME WorkspaceInv, UNCHANGED list, OnlySharing' => OnlySharing /\ UNCHANGED server,
         deleted' \subseteq deleted
  PROVE  ListsGood'
<1> USE DEF list
<1>1. OnlySharing' => /\ OnlySharing /\ Current' = Current
                /\ \A r \in lists :
                      /\ Page(query, r.skip)' = Page(query, r.skip)
                      /\ Cardinality(Matching(query))' = Cardinality(Matching(query))
  BY CurrentStays DEF Page, Matching, Copy
<1>2. ListsFit'
  BY <1>1 DEF WorkspaceInv, ListsFit
<1>3. ListsGood
  BY ListsWereGood
<1> QED BY <1>2, <1>3 DEF ListsGood

------------------------------------------------------------------------------
(* Acts and answers that change neither the list, the server nor the change   *)
(* under way.                                                                *)

\* What a step beside the list, the change and the server leaves of the invariant.
LEMMA Beside ==
  ASSUME WorkspaceInv, UNCHANGED <<list, operation, world>>
  PROVE  /\ NoTwice' /\ ChangeIsDone' /\ DeletedStays' /\ UndoIsOffered'
         /\ ListsFit'
<1> USE DEF list, operation, world
<1>1. ListsGood'
  BY ListsStay DEF OnlySharing
<1>2. NoTwice' /\ DeletedStays' /\ ListsFit'
  BY <1>1 DEF WorkspaceInv, NoTwice, DeletedStays, ListsGood, Distinct
<1> QED BY <1>2 DEF WorkspaceInv, ChangeIsDone, UndoIsOffered

LEMMA EditKeeps == ASSUME WorkspaceInv, Edit PROVE WorkspaceInv'
<1>1. UNCHANGED <<list, shown, operation, world>> /\ draft' = "clean" /\ mutation = Nothing
  BY DEF Edit, Reading, WorkspaceInv, WorkspaceTypeOK
<1> USE DEF list, shown, operation, world
<1>2. WorkspaceTypeOK' /\ ShownBelongs' /\ ChangeIsHere' /\ DeletedIsGone'
  BY <1>1 DEF WorkspaceInv, WorkspaceTypeOK, ShownBelongs, ChangeIsHere, DeletedIsGone
<1> QED BY <1>1, <1>2, Beside DEF WorkspaceInv

LEMMA TypeKeeps == ASSUME WorkspaceInv, Type PROVE WorkspaceInv'
<1>1. /\ UNCHANGED <<list, shown, operation, world>>
      /\ draft # "none" /\ draft' \in {"clean", "dirty"}
  BY DEF Type
<1> USE DEF list, shown, operation, world
<1>2. WorkspaceTypeOK' /\ ShownBelongs' /\ ChangeIsHere' /\ DeletedIsGone'
  BY <1>1 DEF WorkspaceInv, WorkspaceTypeOK, ShownBelongs, ChangeIsHere, DeletedIsGone
<1> QED BY <1>1, <1>2, Beside DEF WorkspaceInv

LEMMA LeaveWorkspaceKeeps == ASSUME WorkspaceInv, LeaveWorkspace PROVE WorkspaceInv'
<1>1. UNCHANGED <<list, shown, operation, world>> /\ draft' = "none"
  BY DEF LeaveWorkspace
<1> USE DEF list, shown, operation, world
<1>2. WorkspaceTypeOK' /\ ShownBelongs' /\ ChangeIsHere' /\ DeletedIsGone'
  BY <1>1 DEF WorkspaceInv, WorkspaceTypeOK, ShownBelongs, ChangeIsHere, DeletedIsGone
<1> QED BY <1>1, <1>2, Beside DEF WorkspaceInv

\* The sharing panel and the previews are about the note on show.
LEMMA PanelKeeps ==
  ASSUME WorkspaceInv, OpenSharing \/ CloseSharing \/ SharingArrives \/ PreviewArrives
  PROVE  WorkspaceInv'
<1>1. UNCHANGED <<list, selected, draft, operation, world>>
  BY DEF OpenSharing, CloseSharing, SharingArrives, PreviewArrives
<1>2. selected # Nothing => selected.id \in Notes
  BY CopyIsSome DEF WorkspaceInv, WorkspaceTypeOK
<1> USE DEF list, operation, world
<1>3. NoTwice' /\ ChangeIsDone' /\ DeletedStays' /\ UndoIsOffered' /\ ListsFit'
  BY <1>1, Beside
<1>4. CASE OpenSharing
  <2>1. /\ mutation = Nothing /\ selected # Nothing
        /\ sharing' = selected.id /\ panel' = {} /\ UNCHANGED <<previewing, preview>>
    BY <1>4 DEF OpenSharing, Reading, WorkspaceInv, WorkspaceTypeOK
  <2>2. WorkspaceTypeOK' /\ ShownBelongs' /\ ChangeIsHere' /\ DeletedIsGone'
    BY <2>1, <1>1, <1>2
    DEF WorkspaceInv, WorkspaceTypeOK, ShownBelongs, ChangeIsHere, DeletedIsGone
  <2> QED BY <2>2, <1>3 DEF WorkspaceInv
<1>5. CASE CloseSharing
  <2>1. panel' = Nothing /\ UNCHANGED <<sharing, previewing, preview>>
    BY <1>5 DEF CloseSharing
  <2>2. WorkspaceTypeOK' /\ ShownBelongs' /\ ChangeIsHere' /\ DeletedIsGone'
    BY <2>1, <1>1
    DEF WorkspaceInv, WorkspaceTypeOK, ShownBelongs, ChangeIsHere, DeletedIsGone
  <2> QED BY <2>2, <1>3 DEF WorkspaceInv
<1>6. CASE SharingArrives
  <2>1. /\ sharing # Nothing /\ sharing' = Nothing /\ UNCHANGED <<previewing, preview>>
        /\ \/ panel' = panel
           \/ panel' = Nothing
           \/ selected # Nothing /\ selected.id = sharing /\ panel # Nothing /\ panel' = {sharing}
    BY <1>6 DEF SharingArrives
  <2>2. WorkspaceTypeOK' /\ ShownBelongs' /\ ChangeIsHere' /\ DeletedIsGone'
    BY <2>1, <1>1
    DEF WorkspaceInv, WorkspaceTypeOK, ShownBelongs, ChangeIsHere, DeletedIsGone
  <2> QED BY <2>2, <1>3 DEF WorkspaceInv
<1>7. CASE PreviewArrives
  <2>1. /\ previewing' \in {previewing, Nothing} /\ UNCHANGED <<sharing, panel>>
        /\ \/ preview' = preview
           \/ selected # Nothing /\ selected.id = previewing /\ preview' = previewing
    BY <1>7 DEF PreviewArrives
  <2>2. WorkspaceTypeOK' /\ ShownBelongs' /\ ChangeIsHere' /\ DeletedIsGone'
    BY <2>1, <1>1
    DEF WorkspaceInv, WorkspaceTypeOK, ShownBelongs, ChangeIsHere, DeletedIsGone
  <2> QED BY <2>2, <1>3 DEF WorkspaceInv
<1> QED BY <1>4, <1>5, <1>6, <1>7

------------------------------------------------------------------------------
(* The list.                                                                 *)

\* busy stands for the change under way.
LEMMA IdleHasNoChange == ASSUME WorkspaceInv, ~busy PROVE mutation = Nothing
BY DEF WorkspaceInv, WorkspaceTypeOK

\* What a change of the list requests alone has to show.
LEMMA OnlyLists ==
  ASSUME WorkspaceInv, ListsGood', timer' \in BOOLEAN, loading' \in BOOLEAN,
         dropped' \in BOOLEAN, query' \in Queries, UNCHANGED <<notes, total, operation, world>>
  PROVE  /\ NoTwice' /\ ChangeIsDone' /\ DeletedStays' /\ UndoIsOffered' /\ ListsFit'
         /\ UNCHANGED <<shown, draft>> =>
               WorkspaceTypeOK' /\ ShownBelongs' /\ DeletedIsGone'
<1> USE DEF operation, world, shown
<1>1. NoTwice' /\ DeletedStays' /\ ListsFit'
  BY DEF WorkspaceInv, NoTwice, DeletedStays, ListsGood, Distinct
<1>2. ChangeIsDone' /\ UndoIsOffered'
  BY DEF WorkspaceInv, ChangeIsDone, UndoIsOffered
<1>3. ASSUME UNCHANGED <<shown, draft>>
      PROVE  WorkspaceTypeOK' /\ ShownBelongs' /\ DeletedIsGone'
  <2>1. WorkspaceTypeOK'
    BY <1>3 DEF WorkspaceInv, WorkspaceTypeOK, ListsGood
  <2>2. ShownBelongs' /\ DeletedIsGone'
    BY <1>3 DEF WorkspaceInv, ShownBelongs, DeletedIsGone
  <2> QED BY <2>1, <2>2
<1> QED BY <1>1, <1>2, <1>3

LEMMA QueueSearchKeeps ==
  ASSUME WorkspaceInv, NEW q \in Queries, QueueSearch(q) PROVE WorkspaceInv'
<1>1. /\ mutation = Nothing /\ query' = q /\ timer' = TRUE /\ loading' = TRUE /\ lists' = {}
      /\ UNCHANGED <<notes, total, dropped, shown, draft, operation, world>>
  BY IdleHasNoChange DEF QueueSearch
<1>2. dropped' \in BOOLEAN
  BY <1>1 DEF WorkspaceInv, WorkspaceTypeOK
<1>3. ListsGood'
  BY <1>1, <1>2, ListsGivenUp
<1>4. ChangeIsHere'
  BY <1>1 DEF ChangeIsHere, operation
<1> QED BY <1>1, <1>2, <1>3, <1>4, OnlyLists DEF WorkspaceInv

LEMMA ReloadKeeps == ASSUME WorkspaceInv, Reload PROVE WorkspaceInv'
<1>1. /\ LoadList(TRUE, selected # Nothing)
      /\ UNCHANGED <<notes, total, query, shown, draft, operation, world>>
  BY DEF Reload
<1>2. /\ ListsGood' /\ timer' \in BOOLEAN /\ loading' \in BOOLEAN
      /\ dropped' \in BOOLEAN /\ \A r \in lists' : r.sel = (selected # Nothing)
  BY <1>1, ListsAskedFor
<1>3. query' \in Queries
  BY <1>1 DEF WorkspaceInv, WorkspaceTypeOK
<1>4. ChangeIsHere'
  BY <1>1, <1>2 DEF WorkspaceInv, ChangeIsHere, operation, shown
<1> QED BY <1>1, <1>2, <1>3, <1>4, OnlyLists DEF WorkspaceInv

LEMMA LoadMoreKeeps == ASSUME WorkspaceInv, LoadMore PROVE WorkspaceInv'
<1>1. /\ LoadList(FALSE, selected # Nothing) /\ mutation = Nothing /\ ~loading
      /\ UNCHANGED <<notes, total, query, shown, draft, operation, world>>
  BY IdleHasNoChange DEF LoadMore
<1>2. dropped \/ Current
  BY <1>1 DEF WorkspaceInv, ListsFit, OnlySharing
<1>3. dropped \/ Current'
  BY <1>1, <1>2, CurrentStays DEF world
<1>4. /\ ListsGood' /\ timer' \in BOOLEAN /\ loading' \in BOOLEAN /\ dropped' \in BOOLEAN
  BY <1>1, <1>3, ListsAskedFor
<1>5. query' \in Queries
  BY <1>1 DEF WorkspaceInv, WorkspaceTypeOK
<1>6. ChangeIsHere'
  BY <1>1 DEF ChangeIsHere, operation
<1> QED BY <1>1, <1>4, <1>5, <1>6, OnlyLists DEF WorkspaceInv

\* The server answers with what it has at that time.
LEMMA ServeListKeeps ==
  ASSUME WorkspaceInv, NEW r \in lists, ServeList(r) PROVE WorkspaceInv'
<1> DEFINE s == [r EXCEPT !.st = "served", !.page = Page(r.query, r.skip),
                          !.total = Cardinality(Matching(r.query))]
<1>1. r \in ListRequests /\ r.query \in Queries /\ lists = {r}
  BY DEF WorkspaceInv, WorkspaceTypeOK, ListsFit, ListRequests
<1>2. /\ lists' = {s}
      /\ UNCHANGED <<notes, total, query, timer, loading, dropped, shown, draft, operation, world>>
  BY <1>1 DEF ServeList
<1>3. /\ Page(r.query, r.skip) \in SUBSET Copies /\ Distinct(Page(r.query, r.skip))
      /\ \A n \in Ids(Page(r.query, r.skip)) : server[n].st = "active"
      /\ Cardinality(Matching(r.query)) \in 0..Cardinality(Notes)
  BY <1>1, PageIsCopies, MatchingIsSmall DEF WorkspaceInv
<1>3a. /\ s \in ListRequests /\ s.st = "served" /\ s.reset = r.reset /\ s.sel = r.sel
      /\ s.query = r.query /\ s.skip = r.skip
      /\ s.page = Page(r.query, r.skip) /\ s.total = Cardinality(Matching(r.query))
  BY <1>1, <1>3 DEF ListRequests
<1>4. PICK t \in ListRequests :
        /\ lists' = {t} /\ t.st = "served" /\ t.reset = r.reset /\ t.sel = r.sel
        /\ t.query = r.query /\ t.skip = r.skip
        /\ t.page = Page(r.query, r.skip) /\ t.total = Cardinality(Matching(r.query))
  BY <1>2, <1>3a
<1> HIDE DEF s
<1> USE DEF operation, world, shown
<1>5. Cardinality(lists') <= 1
  BY <1>4, OneIsFew
<1>6. Distinct(t.page) /\ deleted' \cap Ids(t.page) = {}
  BY <1>2, <1>3, <1>4 DEF WorkspaceInv, DeletedStays
<1>7. ListsFit'
  <2>1. Current' = Current /\ (OnlySharing' <=> OnlySharing)
    BY <1>2, CurrentStays DEF OnlySharing
  <2>2. /\ t.query = query' /\ t.page = Page(query, t.skip)'
        /\ t.total = Cardinality(Matching(query))'
    <3>1. r.query = query
      BY DEF WorkspaceInv, ListsFit
    <3> QED BY <1>2, <1>4, <3>1 DEF Page, Matching, Copy
  <2>3. /\ t.reset => t.skip = 0
        /\ ~t.reset /\ OnlySharing /\ ~dropped => Current
        /\ ~timer /\ loading
    BY <1>1, <1>4 DEF WorkspaceInv, ListsFit
  <2> QED BY <1>2, <1>4, <2>1, <2>2, <2>3 DEF ListsFit
<1>8. ListsGood'
  BY <1>4, <1>5, <1>6, <1>7 DEF ListsGood
<1>9. /\ timer' \in BOOLEAN /\ loading' \in BOOLEAN /\ dropped' \in BOOLEAN /\ query' \in Queries
  BY <1>2 DEF WorkspaceInv, WorkspaceTypeOK
<1>10. ChangeIsHere'
  BY <1>1, <1>2, <1>4 DEF WorkspaceInv, ChangeIsHere
<1> QED BY <1>2, <1>8, <1>9, <1>10, OnlyLists DEF WorkspaceInv

LEMMA ListFailsKeeps ==
  ASSUME WorkspaceInv, NEW r \in lists, ListFails(r) PROVE WorkspaceInv'
<1>1. lists = {r} /\ ~timer
  BY DEF WorkspaceInv, ListsFit
<1>2. /\ lists' = {} /\ loading' = FALSE /\ dropped' = TRUE /\ timer' = FALSE
      /\ failures' \in 0..MaxFailures
      /\ UNCHANGED <<notes, total, query, shown, draft, operation, server>>
  BY <1>1, LimitAssumption DEF ListFails, Failure, WorkspaceInv, WorkspaceTypeOK
<1> USE DEF operation, shown
<1>3. ListsGood'
  BY <1>2, ListsGivenUp
<1>4. NoTwice' /\ DeletedStays' /\ ListsFit'
  BY <1>2, <1>3 DEF WorkspaceInv, NoTwice, DeletedStays, ListsGood, Distinct
<1>5. ChangeIsDone' /\ UndoIsOffered' /\ ShownBelongs' /\ DeletedIsGone'
  BY <1>2 DEF WorkspaceInv, ChangeIsDone, UndoIsOffered, ShownBelongs, DeletedIsGone
<1>6. ChangeIsHere'
  BY <1>2 DEF WorkspaceInv, ChangeIsHere
<1>7. WorkspaceTypeOK'
  BY <1>2, <1>3 DEF WorkspaceInv, WorkspaceTypeOK, ListsGood
<1> QED BY <1>4, <1>5, <1>6, <1>7 DEF WorkspaceInv

\* What came is what the server has, if no change is under way.
LEMMA ListIsCurrent ==
  ASSUME WorkspaceInv, NEW r \in lists, ListArrives(r), OnlySharing', ~dropped' PROVE Current'
<1>1. /\ r.st = "served" /\ OnlySharing /\ total' = r.total
      /\ UNCHANGED <<query, mutation, server>>
  BY DEF ListArrives, operation, world, OnlySharing
<1>2. /\ r.page = Page(query, r.skip) /\ r.total = Cardinality(Matching(query))
      /\ r.query = query /\ query \in Queries
  BY <1>1 DEF WorkspaceInv, WorkspaceTypeOK, ListsFit
<1>3. r.page \subseteq {Copy(n) : n \in Matching(query)}
  BY <1>2, PageIsCopies DEF WorkspaceInv
<1>4. /\ notes' \subseteq {Copy(n) : n \in Matching(query)} /\ Page(query, 0) \subseteq notes'
  <2>1. CASE r.reset
    BY <2>1, <1>2, <1>3 DEF ListArrives, WorkspaceInv, ListsFit
  <2>2. CASE ~r.reset
    <3>1. ~dropped /\ notes' = notes \cup {c \in r.page : c.id \notin Ids(notes)}
      BY <2>2 DEF ListArrives
    <3>2. Current
      BY <2>2, <3>1, <1>1 DEF WorkspaceInv, ListsFit
    <3> QED BY <3>1, <3>2, <1>3 DEF Current
  <2> QED BY <2>1, <2>2
<1>5. /\ {Copy(n) : n \in Matching(query)}' = {Copy(n) : n \in Matching(query)}
      /\ Page(query, 0)' = Page(query, 0) /\ Matching(query)' = Matching(query)
  BY <1>1 DEF Page, Matching, Copy
<1> QED BY <1>1, <1>2, <1>4, <1>5 DEF Current

LEMMA ListArrivesKeeps ==
  ASSUME WorkspaceInv, NEW r \in lists, ListArrives(r) PROVE WorkspaceInv'
<1>1. lists = {r} /\ ~timer /\ r \in ListRequests
  BY DEF WorkspaceInv, WorkspaceTypeOK, ListsFit
<1>2. /\ lists' = {} /\ loading' = FALSE /\ timer' = FALSE /\ total' = r.total
      /\ UNCHANGED <<query, operation, world>>
  BY <1>1 DEF ListArrives
<1>3. /\ r.page \in SUBSET Copies /\ Distinct(r.page) /\ deleted \cap Ids(r.page) = {}
      /\ r.total \in 0..Cardinality(Notes)
  BY <1>1 DEF WorkspaceInv, NoTwice, DeletedStays, ListRequests
<1>4. dropped' \in BOOLEAN
  BY DEF ListArrives, WorkspaceInv, WorkspaceTypeOK
<1>5. ListsGood'
  BY <1>2, <1>4, ListIsCurrent, ListsGivenUp
<1>6. notes' \subseteq Copies /\ Distinct(notes') /\ deleted \cap Ids(notes') = {}
  <2>1. CASE r.reset
    BY <2>1, <1>3 DEF ListArrives
  <2>2. CASE ~r.reset
    <3>1. notes' = notes \cup {c \in r.page : c.id \notin Ids(notes)}
      BY <2>2 DEF ListArrives
    <3>2. notes \subseteq Copies /\ Distinct(notes) /\ deleted \cap Ids(notes) = {}
      BY DEF WorkspaceInv, WorkspaceTypeOK, NoTwice, DeletedIsGone
    <3> QED BY <3>1, <3>2, <1>3 DEF Distinct, Ids
  <2> QED BY <2>1, <2>2
<1>7. \/ UNCHANGED <<shown, draft>>
      \/ draft = "none" /\ ~r.sel /\ \E c \in r.page : ApplySelection(c)
  <2>1. r.page # {} => FirstOf(r.page) \in r.page
    BY <1>3, FirstIsOne
  <2> QED BY <2>1 DEF ListArrives, ShowFirst
<1> USE DEF operation, world, shown
<1>8. NoTwice' /\ DeletedStays' /\ ListsFit'
  BY <1>2, <1>5, <1>6 DEF WorkspaceInv, NoTwice, DeletedStays, ListsGood, Distinct
<1>9. ChangeIsDone' /\ UndoIsOffered'
  BY <1>2 DEF WorkspaceInv, ChangeIsDone, UndoIsOffered
<1>10. CASE UNCHANGED <<shown, draft>>
  <2>1. WorkspaceTypeOK'
    BY <1>2, <1>3, <1>4, <1>5, <1>6, <1>10 DEF WorkspaceInv, WorkspaceTypeOK, ListsGood
  <2>2. ShownBelongs' /\ ChangeIsHere' /\ DeletedIsGone'
    BY <1>2, <1>6, <1>10 DEF WorkspaceInv, ShownBelongs, ChangeIsHere, DeletedIsGone
  <2> QED BY <2>1, <2>2, <1>8, <1>9 DEF WorkspaceInv
<1>11. ASSUME draft = "none", ~r.sel, NEW c \in r.page, ApplySelection(c) PROVE WorkspaceInv'
  <2>1. c \in Copies /\ c # Nothing /\ c.id \in Notes /\ c.id \notin deleted
    BY <1>3, <1>11, CopyIsSome DEF Ids
  <2>2. /\ selected' = c /\ draft' = "none" /\ sharing' = Nothing /\ panel' = Nothing
        /\ previewing' = c.id /\ preview' = Nothing
    BY <1>11 DEF ApplySelection, ResetSharingState, LoadAttachmentPreviews
  <2>3. WorkspaceTypeOK'
    BY <1>2, <1>3, <1>4, <1>5, <1>6, <2>1, <2>2 DEF WorkspaceInv, WorkspaceTypeOK, ListsGood
  <2>4. ShownBelongs' /\ DeletedIsGone'
    BY <1>2, <1>6, <2>1, <2>2 DEF ShownBelongs, DeletedIsGone
  <2>5. ChangeIsHere'
    BY <1>2, <1>11, <2>2 DEF WorkspaceInv, ChangeIsHere
  <2> QED BY <2>3, <2>4, <2>5, <1>8, <1>9 DEF WorkspaceInv
<1> QED BY <1>7, <1>10, <1>11

------------------------------------------------------------------------------
(* The note on show.                                                         *)

\* What is on show of a state as the invariant wants it.
ShownGood ==
    /\ selected \in Copies \cup {Nothing} /\ draft \in {"none", "clean", "dirty"}
    /\ sharing \in Notes \cup {Nothing} /\ (panel = Nothing \/ panel \subseteq Notes)
    /\ previewing \in Notes \cup {Nothing} /\ preview \in Notes \cup {Nothing}
    /\ ShownBelongs
    /\ selected # Nothing => selected.id \notin deleted

\* What the invariant says of the note on show, before a step.
LEMMA ShownWasGood == WorkspaceInv => ShownGood
BY DEF WorkspaceInv, WorkspaceTypeOK, DeletedIsGone, ShownGood

\* A note just selected is on show with nothing of another note.
LEMMA SelectionIsShown ==
  ASSUME NEW c \in Copies, c.id \notin deleted', ApplySelection(c)
  PROVE  ShownGood' /\ draft' = "none" /\ selected' = c
BY CopyIsSome
DEF ApplySelection, ResetSharingState, LoadAttachmentPreviews, ShownGood, ShownBelongs

\* While nothing is under way the user moves on, and an older list is given up.
LEMMA UserMovesOn ==
  ASSUME WorkspaceInv, ~busy, InvalidateListResponse, ShownGood',
         UNCHANGED <<notes, total, query, operation, world>>
  PROVE  WorkspaceInv'
<1>1. /\ mutation = Nothing /\ lists' = {} /\ timer' = timer
      /\ dropped' = (dropped \/ \E r \in lists : r.reset)
      /\ loading' = (timer /\ loading)
  BY IdleHasNoChange DEF InvalidateListResponse, Outdate
<1>2. timer' \in BOOLEAN /\ dropped' \in BOOLEAN /\ loading' \in BOOLEAN /\ query' \in Queries
  BY <1>1 DEF WorkspaceInv, WorkspaceTypeOK
<1>3. timer' => loading'
  BY <1>1 DEF WorkspaceInv, ListsFit
<1>4. ~timer' /\ ~dropped' => Current'
  <2>1. ~timer' /\ ~dropped' => Current
    BY <1>1 DEF WorkspaceInv, ListsFit, OnlySharing
  <2> QED BY <2>1, CurrentStays DEF world
<1>5. ListsGood'
  BY <1>1, <1>2, <1>3, <1>4, ListsGivenUp
<1>6. NoTwice' /\ ChangeIsDone' /\ DeletedStays' /\ UndoIsOffered' /\ ListsFit'
  BY <1>2, <1>5, OnlyLists
<1>7. WorkspaceTypeOK' /\ ShownBelongs' /\ DeletedIsGone' /\ ChangeIsHere'
  BY <1>1, <1>2, <1>5
  DEF WorkspaceInv, WorkspaceTypeOK, ShownGood, ListsGood, DeletedIsGone, ChangeIsHere,
      operation, world
<1> QED BY <1>6, <1>7 DEF WorkspaceInv

LEMMA SelectKeeps ==
  ASSUME WorkspaceInv, NEW c \in notes, Select(c) PROVE WorkspaceInv'
<1>1. c \in Copies /\ c.id \notin deleted'
  BY DEF Select, operation, WorkspaceInv, WorkspaceTypeOK, DeletedIsGone, Ids
<1>2. ShownGood'
  BY <1>1, SelectionIsShown DEF Select
<1> QED BY <1>2, UserMovesOn DEF Select

LEMMA CreateKeeps == ASSUME WorkspaceInv, Create PROVE WorkspaceInv'
<1>1. ShownGood'
  BY DEF Create, ClearAttachmentPreviews, ResetSharingState, ShownGood, ShownBelongs
<1> QED BY <1>1, UserMovesOn DEF Create

LEMMA CancelKeeps == ASSUME WorkspaceInv, Cancel PROVE WorkspaceInv'
<1>1. mutation = Nothing /\ UNCHANGED <<list, operation, world>>
  BY IdleHasNoChange DEF Cancel
<1>2. ShownGood'
  <2>1. CASE selected = Nothing /\ notes # {}
    <3>1. notes \subseteq Copies /\ deleted \cap Ids(notes) = {}
      BY DEF WorkspaceInv, WorkspaceTypeOK, DeletedIsGone
    <3>2. FirstOf(notes) \in notes
      BY <2>1, <3>1, FirstIsOne
    <3>3. FirstOf(notes) \in Copies /\ FirstOf(notes).id \notin deleted'
      BY <1>1, <3>1, <3>2 DEF Ids, operation
    <3>4. ApplySelection(FirstOf(notes))
      BY <2>1 DEF Cancel
    <3> QED BY <3>3, <3>4, SelectionIsShown
  <2>2. CASE ~(selected = Nothing /\ notes # {})
    <3>1. /\ draft' = "none" /\ sharing' = Nothing /\ panel' = Nothing
          /\ UNCHANGED <<selected, previewing, preview, deleted>>
      BY <2>2, <1>1 DEF Cancel, ResetSharingState, operation
    <3> QED BY <3>1, ShownWasGood DEF ShownGood, ShownBelongs
  <2> QED BY <2>1, <2>2
<1>3. NoTwice' /\ ChangeIsDone' /\ DeletedStays' /\ UndoIsOffered' /\ ListsFit'
  BY <1>1, Beside
<1> USE DEF list, operation, world
<1>4. WorkspaceTypeOK' /\ ShownBelongs' /\ DeletedIsGone' /\ ChangeIsHere'
  BY <1>1, <1>2
  DEF WorkspaceInv, WorkspaceTypeOK, ShownGood, DeletedIsGone, ChangeIsHere
<1> QED BY <1>3, <1>4 DEF WorkspaceInv

------------------------------------------------------------------------------
(* Changes are asked for.                                                    *)

\* A change may be sent when none is under way: what is left to show of each.
LEMMA ChangeStarts ==
  ASSUME WorkspaceInv, ~busy,
         NEW op \in {"save", "delete", "undelete", "file", "item", "share", "addshare"},
         NEW n \in Notes \cup {Nothing}, SendChange(op, n),
         n = Nothing => op = "save", op = "undelete" => n = undo /\ n \notin deleted',
         deleted' \subseteq deleted, ListsGood', ChangeIsHere',
         timer' \in BOOLEAN, loading' \in BOOLEAN, dropped' \in BOOLEAN,
         UNCHANGED <<notes, total, query, shown, draft, undo, world>>
  PROVE  WorkspaceInv'
<1> DEFINE m == [op |-> op, note |-> n, st |-> "sent"]
<1>1. /\ m \in Mutations /\ m # Nothing /\ m.op = op /\ m.note = n /\ m.st = "sent"
  BY NothingAssumption DEF Mutations
<1>2. mutation = Nothing /\ mutation' = m /\ busy' = TRUE
  BY IdleHasNoChange DEF SendChange
<1> HIDE DEF m
<1> USE DEF shown, world
<1>3. NoTwice' /\ DeletedStays' /\ ListsFit'
  BY DEF WorkspaceInv, NoTwice, DeletedStays, ListsGood, Distinct
<1>4. ChangeIsDone' /\ UndoIsOffered'
  BY <1>1, <1>2 DEF WorkspaceInv, ChangeIsDone, UndoIsOffered
<1>5. ShownBelongs' /\ DeletedIsGone'
  BY DEF WorkspaceInv, ShownBelongs, DeletedIsGone
<1>6. WorkspaceTypeOK'
  BY <1>1, <1>2 DEF WorkspaceInv, WorkspaceTypeOK, ListsGood
<1> QED BY <1>3, <1>4, <1>5, <1>6 DEF WorkspaceInv

\* Most changes cancel what is asked for the list.
LEMMA ListsAreCancelled ==
  ASSUME WorkspaceInv, CancelListWork, ~OnlySharing'
  PROVE  /\ ListsGood' /\ lists' = {}
         /\ timer' \in BOOLEAN /\ loading' \in BOOLEAN /\ dropped' \in BOOLEAN
<1>1. lists' = {} /\ loading' = FALSE /\ timer' = FALSE /\ dropped' \in BOOLEAN
  BY DEF CancelListWork, WorkspaceInv, WorkspaceTypeOK
<1> QED BY <1>1, ListsGivenUp

\* These changes are of notes.
LEMMA SendIsNotSharing ==
  ASSUME NEW op \in {"save", "delete", "undelete", "file", "item"}, NEW n \in Notes \cup {Nothing},
         SendChange(op, n)
  PROVE  ~OnlySharing' /\ mutation'.op = op /\ mutation'.note = n
<1>1. [op |-> op, note |-> n, st |-> "sent"] \in Mutations
  BY DEF Mutations
<1> QED BY <1>1, NothingAssumption DEF SendChange, OnlySharing

LEMMA SaveKeeps == ASSUME WorkspaceInv, Save PROVE WorkspaceInv'
<1> DEFINE n == IF selected = Nothing THEN Nothing ELSE selected.id
<1>1. n \in Notes \cup {Nothing}
  BY CopyIsSome DEF WorkspaceInv, WorkspaceTypeOK
<1>2. /\ SendChange("save", n) /\ CancelListWork /\ ~busy
      /\ UNCHANGED <<notes, total, query, shown, draft, undo, deleted, world>>
  BY DEF Save
<1> HIDE DEF n
<1>3. ~OnlySharing' /\ mutation'.op = "save"
  BY <1>1, <1>2, SendIsNotSharing
<1>4. ListsGood' /\ timer' \in BOOLEAN /\ loading' \in BOOLEAN /\ dropped' \in BOOLEAN
  BY <1>2, <1>3, ListsAreCancelled
<1>5. ChangeIsHere'
  BY <1>3 DEF ChangeIsHere
<1> QED BY <1>1, <1>2, <1>4, <1>5, ChangeStarts

LEMMA RemoveOrChildKeeps ==
  ASSUME WorkspaceInv, Remove \/ \E op \in {"file", "item"} : ChangeChild(op)
  PROVE  WorkspaceInv'
<1>1. PICK op \in {"delete", "file", "item"} :
        /\ Reading /\ CancelListWork /\ SendChange(op, selected.id)
        /\ UNCHANGED <<notes, total, query, shown, draft, undo, deleted, world>>
  BY DEF Remove, ChangeChild
<1>2. PICK n \in Notes : n = selected.id
  BY <1>1, CopyIsSome DEF Reading, WorkspaceInv, WorkspaceTypeOK
<1>3. SendChange(op, n)
  BY <1>1, <1>2
<1>4. ~OnlySharing' /\ mutation'.note = n
  BY <1>3, SendIsNotSharing
<1>5. ListsGood' /\ lists' = {} /\ timer' \in BOOLEAN /\ loading' \in BOOLEAN /\ dropped' \in BOOLEAN
  BY <1>1, <1>4, ListsAreCancelled
<1>6. ChangeIsHere'
  BY <1>1, <1>2, <1>4, <1>5, <1>3 DEF ChangeIsHere, shown, Reading, SendChange
<1>7. n # Nothing /\ ~busy
  BY <1>1, NothingAssumption DEF Reading
<1> QED BY <1>1, <1>3, <1>5, <1>6, <1>7, ChangeStarts

LEMMA UndoDeleteKeeps == ASSUME WorkspaceInv, UndoDelete PROVE WorkspaceInv'
<1>1. /\ undo # Nothing /\ ~busy /\ CancelListWork /\ SendChange("undelete", undo)
      /\ deleted' = deleted \ {undo}
      /\ UNCHANGED <<notes, total, query, shown, draft, undo, world>>
  BY DEF UndoDelete
<1>2. PICK n \in Notes : n = undo
  BY <1>1 DEF WorkspaceInv, WorkspaceTypeOK
<1>3. SendChange("undelete", n)
  BY <1>1, <1>2
<1>4. ~OnlySharing' /\ mutation'.op = "undelete"
  BY <1>3, SendIsNotSharing
<1>5. ListsGood' /\ timer' \in BOOLEAN /\ loading' \in BOOLEAN /\ dropped' \in BOOLEAN
  BY <1>1, <1>4, ListsAreCancelled
<1>6. ChangeIsHere'
  BY <1>4 DEF ChangeIsHere
<1> QED BY <1>1, <1>2, <1>3, <1>5, <1>6, ChangeStarts, NothingAssumption

LEMMA ChangeShareKeeps ==
  ASSUME WorkspaceInv, NEW op \in {"share", "addshare"}, ChangeShare(op) PROVE WorkspaceInv'
<1>1. /\ Reading /\ SendChange(op, selected.id)
      /\ UNCHANGED <<list, shown, draft, undo, deleted, world>>
  BY DEF ChangeShare
<1>2. PICK n \in Notes : n = selected.id
  BY <1>1, CopyIsSome DEF Reading, WorkspaceInv, WorkspaceTypeOK
<1>3. SendChange(op, n) /\ ~busy /\ mutation = Nothing /\ selected # Nothing
  BY <1>1, <1>2, IdleHasNoChange DEF Reading
<1>4. ListsGood'
  BY <1>1, <1>3, ListsStay DEF OnlySharing, world
<1>5. /\ timer' \in BOOLEAN /\ loading' \in BOOLEAN /\ dropped' \in BOOLEAN
      /\ UNCHANGED <<notes, total, query>>
  BY <1>1 DEF list, WorkspaceInv, WorkspaceTypeOK
<1>6. ChangeIsHere'
  BY <1>1, <1>2, <1>3 DEF ChangeIsHere, shown, SendChange
<1> QED
  BY <1>1, <1>2, <1>3, <1>4, <1>5, <1>6, ChangeStarts, NothingAssumption

LEMMA DismissUndoKeeps == ASSUME WorkspaceInv, DismissUndo PROVE WorkspaceInv'
<1>1. undo' = Nothing /\ UNCHANGED <<list, shown, draft, busy, mutation, deleted, world>>
  BY DEF DismissUndo
<1>2. ListsGood'
  BY <1>1, ListsStay DEF world, OnlySharing
<1> USE DEF list, shown, world
<1>3. NoTwice' /\ DeletedStays' /\ ListsFit'
  BY <1>1, <1>2 DEF WorkspaceInv, NoTwice, DeletedStays, ListsGood, Distinct
<1>4. ChangeIsDone' /\ UndoIsOffered' /\ ChangeIsHere'
  BY <1>1 DEF WorkspaceInv, ChangeIsDone, UndoIsOffered, ChangeIsHere
<1>5. ShownBelongs' /\ DeletedIsGone'
  BY <1>1 DEF WorkspaceInv, ShownBelongs, DeletedIsGone
<1>6. WorkspaceTypeOK'
  BY <1>1 DEF WorkspaceInv, WorkspaceTypeOK
<1> QED BY <1>3, <1>4, <1>5, <1>6 DEF WorkspaceInv

------------------------------------------------------------------------------
(* The server at work on a change.                                           *)

\* The server stores a note, and no other one changes.
LEMMA BecomesStored ==
  ASSUME WorkspaceTypeOK, NEW n \in Notes, NEW st \in {"absent", "active", "deleted"},
         NEW rev \in Nat, Becomes(n, st, rev)
  PROVE  /\ server' \in [Notes -> [st : {"absent", "active", "deleted"}, rev : 0..MaxRev]]
         /\ server'[n].st = st
         /\ \A m \in Notes \ {n} : server'[m] = server[m]
<1> DEFINE kept == IF rev > MaxRev THEN MaxRev ELSE rev
<1>1. kept \in 0..MaxRev
  BY LimitAssumption
<1>2. server' = [server EXCEPT ![n] = [st |-> st, rev |-> kept]]
  BY DEF Becomes
<1> HIDE DEF kept
<1> QED BY <1>1, <1>2 DEF WorkspaceTypeOK

\* A change that is carried out concerns its note alone.
LEMMA ApplyStored ==
  ASSUME WorkspaceTypeOK, NEW n \in Notes, NEW op, Apply(op, n)
  PROVE  /\ server' \in [Notes -> [st : {"absent", "active", "deleted"}, rev : 0..MaxRev]]
         /\ \A m \in Notes \ {n} : server'[m] = server[m]
         /\ server'[n].st = CASE op = "delete" -> "deleted"
                              [] op \in {"undelete", "save", "file", "item"} -> "active"
                              [] OTHER -> server[n].st
         /\ op \in {"share", "addshare", "contacts"} => server' = server
<1>1. server[n].rev \in Nat /\ server[n].rev + 1 \in Nat
  BY LimitAssumption DEF WorkspaceTypeOK
<1>2. CASE op = "delete"
  BY <1>1, <1>2, BecomesStored DEF Apply
<1>3. CASE op = "undelete"
  BY <1>1, <1>3, BecomesStored DEF Apply
<1>4. CASE op \in {"save", "file", "item"}
  BY <1>1, <1>4, BecomesStored DEF Apply
<1>5. CASE op \notin {"delete", "undelete", "save", "file", "item"}
  BY <1>5 DEF Apply, WorkspaceTypeOK
<1> QED BY <1>2, <1>3, <1>4, <1>5

\* The note of a change that was asked for, or of one carried out.
LEMMA ServedMutation ==
  ASSUME WorkspaceInv, ServeMutation
  PROVE  /\ mutation # Nothing /\ mutation.st = "sent" /\ mutation.op # "contacts"
         /\ mutation' \in Mutations /\ mutation' # Nothing /\ mutation'.op = mutation.op
         /\ mutation'.note # mutation.note => mutation.note = Nothing
         /\ server' \in [Notes -> [st : {"absent", "active", "deleted"}, rev : 0..MaxRev]]
         /\ \/ /\ mutation'.st = "refused" /\ mutation'.note = mutation.note
               /\ mutation.note # Nothing /\ server' = server
            \/ /\ mutation'.st = "done" /\ mutation'.note \in Notes
               /\ \A m \in Notes \ {mutation'.note} : server'[m] = server[m]
               /\ server[mutation'.note].st = "deleted" => mutation.op = "undelete"
               /\ server'[mutation'.note].st =
                     IF mutation.op = "delete" THEN "deleted" ELSE "active"
               /\ mutation.op \in {"share", "addshare"} => server' = server
<1>1. /\ mutation \in Mutations /\ mutation # Nothing /\ mutation.st = "sent"
      /\ mutation.op # "contacts"
  BY DEF ServeMutation, WorkspaceInv, WorkspaceTypeOK, ChangeIsDone
<1>2. CASE mutation.note = Nothing
  <2>1. mutation.op = "save"
    BY <1>1, <1>2 DEF WorkspaceInv, ChangeIsDone
  <2>2. PICK m \in Notes : /\ server[m].st = "absent" /\ Becomes(m, "active", 0)
                           /\ mutation' = [mutation EXCEPT !.st = "done", !.note = m]
    BY <1>2 DEF ServeMutation
  <2>3. /\ mutation' \in Mutations /\ mutation'.st = "done" /\ mutation'.note = m
        /\ mutation'.op = mutation.op
    BY <1>1, <2>2 DEF Mutations
  <2>4. /\ server' \in [Notes -> [st : {"absent", "active", "deleted"}, rev : 0..MaxRev]]
        /\ server'[m].st = "active" /\ \A k \in Notes \ {m} : server'[k] = server[k]
    BY <2>2, BecomesStored DEF WorkspaceInv
  <2> QED BY <1>1, <1>2, <2>1, <2>2, <2>3, <2>4, NothingAssumption
<1>3. CASE mutation.note # Nothing
  <2>1. mutation.note \in Notes
    BY <1>1, <1>3 DEF Mutations
  <2>2. CASE /\ mutation' = [mutation EXCEPT !.st = "refused"] /\ UNCHANGED server
    <3>1. /\ mutation' \in Mutations /\ mutation'.st = "refused" /\ mutation'.op = mutation.op
          /\ mutation'.note = mutation.note
      BY <1>1, <2>2 DEF Mutations
    <3> QED
      BY <1>1, <1>3, <2>2, <3>1, NothingAssumption DEF WorkspaceInv, WorkspaceTypeOK
  <2>3. CASE /\ server[mutation.note].st =
                   IF mutation.op = "undelete" THEN "deleted" ELSE "active"
             /\ Apply(mutation.op, mutation.note)
             /\ mutation' = [mutation EXCEPT !.st = "done", !.note = mutation.note]
    <3>1. /\ mutation' \in Mutations /\ mutation'.st = "done" /\ mutation'.op = mutation.op
          /\ mutation'.note = mutation.note
      BY <1>1, <2>3 DEF Mutations
    <3>2. mutation.op \in {"save", "delete", "undelete", "file", "item", "share", "addshare"}
      BY <1>1 DEF Mutations
    <3>3. /\ server' \in [Notes -> [st : {"absent", "active", "deleted"}, rev : 0..MaxRev]]
          /\ \A m \in Notes \ {mutation.note} : server'[m] = server[m]
          /\ server'[mutation.note].st = IF mutation.op = "delete" THEN "deleted" ELSE "active"
          /\ mutation.op \in {"share", "addshare"} => server' = server
      BY <2>1, <2>3, <3>2, ApplyStored DEF WorkspaceInv
    <3> QED
      BY <1>1, <2>1, <2>3, <3>1, <3>3, NothingAssumption
  <2> QED BY <1>3, <2>2, <2>3 DEF ServeMutation
<1> QED BY <1>2, <1>3

LEMMA ServeMutationKeeps == ASSUME WorkspaceInv, ServeMutation PROVE WorkspaceInv'
<1>1. UNCHANGED <<list, shown, draft, busy, undo, deleted, failures>>
  BY DEF ServeMutation
<1>2. mutation \in Mutations /\ busy = TRUE
  BY ServedMutation DEF WorkspaceInv, WorkspaceTypeOK
<1>3. OnlySharing' => OnlySharing /\ UNCHANGED server
  BY ServedMutation DEF OnlySharing
<1>4. ListsGood'
  BY <1>1, <1>3, ListsStay
<1> USE DEF list, shown
<1>5. \A n \in deleted : server'[n].st = "deleted"
  <2> SUFFICES ASSUME NEW n \in deleted PROVE server'[n].st = "deleted"
    OBVIOUS
  <2>1. n \in Notes /\ server[n].st = "deleted"
    BY DEF WorkspaceInv, WorkspaceTypeOK, DeletedStays
  <2>2. mutation.op = "undelete" => mutation.note # n
    BY ServedMutation DEF WorkspaceInv, ChangeIsDone
  <2>3. mutation.op = "undelete" => mutation.note # Nothing
    BY ServedMutation DEF WorkspaceInv, ChangeIsDone
  <2> QED BY <2>1, <2>2, <2>3, ServedMutation
<1>6. NoTwice' /\ DeletedStays' /\ ListsFit'
  BY <1>1, <1>4, <1>5 DEF WorkspaceInv, NoTwice, DeletedStays, ListsGood, Distinct
<1>7. ChangeIsDone'
  <2>1. mutation.op = "undelete" => mutation.note \notin deleted /\ mutation.note # Nothing
    BY ServedMutation DEF WorkspaceInv, ChangeIsDone
  <2> QED BY <1>1, <2>1, ServedMutation, NothingAssumption DEF ChangeIsDone
<1>8. UndoIsOffered'
  <2> SUFFICES ASSUME undo # Nothing
               PROVE  \/ server'[undo].st = "deleted"
                      \/ mutation'.op = "undelete" /\ mutation'.note = undo
    BY <1>1, ServedMutation DEF UndoIsOffered
  <2>1. undo \in Notes
    BY DEF WorkspaceInv, WorkspaceTypeOK
  <2>2. CASE mutation.op = "undelete" /\ mutation.note = undo
    <3>1. mutation'.note = undo
      BY <2>1, <2>2, ServedMutation, NothingAssumption
    <3> QED BY <2>2, <3>1, ServedMutation
  <2>3. CASE server[undo].st = "deleted"
    BY <2>1, <2>3, ServedMutation
  <2> QED BY <2>2, <2>3 DEF WorkspaceInv, UndoIsOffered
<1>9. ChangeIsHere'
  <2>1. mutation.op # "save" => mutation'.note = mutation.note
    BY ServedMutation DEF WorkspaceInv, ChangeIsDone
  <2> QED BY <1>1, <2>1, ServedMutation DEF WorkspaceInv, ChangeIsHere
<1>10. ShownBelongs' /\ DeletedIsGone'
  BY <1>1 DEF WorkspaceInv, ShownBelongs, DeletedIsGone
<1>11. WorkspaceTypeOK'
  BY <1>1, <1>2, ServedMutation DEF WorkspaceInv, WorkspaceTypeOK
<1> QED BY <1>6, <1>7, <1>8, <1>9, <1>10, <1>11 DEF WorkspaceInv

------------------------------------------------------------------------------
(* The answers to a change.                                                  *)

\* The list of a state as the invariant wants it.
NotesGood ==
    /\ notes \subseteq Copies /\ Distinct(notes) /\ deleted \cap Ids(notes) = {}
    /\ total \in 0..Cardinality(Notes)

\* What the invariant says of the loaded notes, before a step.
LEMMA NotesWereGood == WorkspaceInv => NotesGood
BY DEF WorkspaceInv, WorkspaceTypeOK, NoTwice, DeletedIsGone, NotesGood

\* What deletions and their toast rest on.
DeletionsGood ==
    /\ deleted \subseteq Notes /\ \A n \in deleted : server[n].st = "deleted"
    /\ undo \in Notes \cup {Nothing}
    /\ undo # Nothing => server[undo].st = "deleted"

\* The undo toast stays right as long as no undo is under way.
LEMMA DeletionsStay ==
  ASSUME WorkspaceInv, mutation # Nothing => mutation.op # "undelete",
         UNCHANGED <<undo, deleted, server>>
  PROVE  DeletionsGood'
BY DEF WorkspaceInv, WorkspaceTypeOK, DeletedStays, UndoIsOffered, DeletionsGood

\* A change is over with its answer: what is left to show of each.
LEMMA ChangeEnds ==
  ASSUME WorkspaceInv, busy' = FALSE, mutation' = Nothing, UNCHANGED <<query, server>>,
         failures' \in 0..MaxFailures, ListsGood', NotesGood', ShownGood', DeletionsGood',
         timer' \in BOOLEAN, loading' \in BOOLEAN, dropped' \in BOOLEAN
  PROVE  WorkspaceInv'
<1>1. WorkspaceTypeOK'
  BY DEF WorkspaceInv, WorkspaceTypeOK, ListsGood, NotesGood, ShownGood, DeletionsGood
<1>2. NoTwice' /\ ListsFit'
  BY DEF NoTwice, ListsGood, NotesGood
<1>3. ChangeIsHere' /\ ChangeIsDone'
  BY DEF ChangeIsHere, ChangeIsDone
<1>4. ShownBelongs' /\ DeletedIsGone' /\ DeletedStays' /\ UndoIsOffered'
  BY DEF ListsGood, NotesGood, ShownGood, DeletionsGood, DeletedIsGone, DeletedStays,
         UndoIsOffered
<1> QED BY <1>1, <1>2, <1>3, <1>4 DEF WorkspaceInv

\* What the server has of a note whose change was carried out.
LEMMA AnsweredNote ==
  ASSUME WorkspaceInv, NEW op, Answered(op)
  PROVE  /\ mutation # Nothing /\ mutation.op = op /\ busy' = FALSE /\ mutation' = Nothing
         /\ mutation.note \in Notes
         /\ op = "delete" => server[mutation.note].st = "deleted"
         /\ op # "delete" => server[mutation.note].st = "active"
<1>1. /\ mutation # Nothing /\ mutation.st = "done" /\ mutation.op = op
      /\ mutation \in Mutations /\ busy' = FALSE /\ mutation' = Nothing
  BY DEF Answered, WorkspaceInv, WorkspaceTypeOK
<1> QED BY <1>1 DEF WorkspaceInv, ChangeIsDone, Mutations

\* The note of a change that was carried out is there, unless it was deleted.
LEMMA AnsweredIsActive ==
  ASSUME WorkspaceInv, NEW op, op # "delete", Answered(op)
  PROVE  server[mutation.note].st = "active"
BY AnsweredNote

\* A note the server has is not a deleted one.
LEMMA ActiveIsNotDeleted ==
  ASSUME WorkspaceInv, NEW n \in Notes, server[n].st = "active", deleted' = deleted
  PROVE  Copy(n) \in Copies /\ Copy(n).id = n /\ Copy(n).id \notin deleted'
BY CopyIsTyped DEF WorkspaceInv, DeletedStays

LEMMA SavedKeeps == ASSUME WorkspaceInv, Saved PROVE WorkspaceInv'
<1>1. /\ Answered("save") /\ ApplySelection(Copy(mutation.note)) /\ LoadList(TRUE, TRUE)
      /\ UNCHANGED <<notes, total, query, undo, deleted, server, failures>>
  BY DEF Saved, world
<1>2. /\ busy' = FALSE /\ mutation' = Nothing /\ mutation.note \in Notes
      /\ mutation.op = "save" /\ server[mutation.note].st = "active"
  <2>1. "save" # "delete"
    OBVIOUS
  <2> QED BY <1>1, <2>1, AnsweredNote, AnsweredIsActive
<1>3. ShownGood'
  BY <1>1, <1>2, ActiveIsNotDeleted, SelectionIsShown
<1>4. ListsGood' /\ timer' \in BOOLEAN /\ loading' \in BOOLEAN /\ dropped' \in BOOLEAN
  BY <1>1, ListsAskedFor
<1>5. NotesGood'
  BY <1>1, NotesWereGood DEF NotesGood
<1>6. DeletionsGood' /\ failures' \in 0..MaxFailures
  BY <1>1, <1>2, DeletionsStay DEF WorkspaceInv, WorkspaceTypeOK
<1> QED BY <1>1, <1>2, <1>3, <1>4, <1>5, <1>6, ChangeEnds

LEMMA RestoredKeeps == ASSUME WorkspaceInv, Restored PROVE WorkspaceInv'
<1>1. /\ Answered("undelete") /\ ApplySelection(Copy(mutation.note)) /\ LoadList(TRUE, TRUE)
      /\ undo' = Nothing
      /\ UNCHANGED <<notes, total, query, deleted, server, failures>>
  BY DEF Restored, world
<1>2. /\ busy' = FALSE /\ mutation' = Nothing /\ mutation.note \in Notes
      /\ server[mutation.note].st = "active"
  <2>1. "undelete" # "delete"
    OBVIOUS
  <2> QED BY <1>1, <2>1, AnsweredNote, AnsweredIsActive
<1>3. ShownGood'
  BY <1>1, <1>2, ActiveIsNotDeleted, SelectionIsShown
<1>4. ListsGood' /\ timer' \in BOOLEAN /\ loading' \in BOOLEAN /\ dropped' \in BOOLEAN
  BY <1>1, ListsAskedFor
<1>5. NotesGood'
  BY <1>1, NotesWereGood DEF NotesGood
<1>6. DeletionsGood' /\ failures' \in 0..MaxFailures
  BY <1>1 DEF DeletionsGood, WorkspaceInv, WorkspaceTypeOK, DeletedStays
<1> QED BY <1>1, <1>2, <1>3, <1>4, <1>5, <1>6, ChangeEnds

\* The note leaves the list, and with it the place it had on show.
LEMMA RemovedKeeps == ASSUME WorkspaceInv, Removed PROVE WorkspaceInv'
<1>1. /\ Answered("delete") /\ Forget /\ LoadList(TRUE, Others # {})
      /\ UNCHANGED <<query, server, failures>>
  BY DEF Removed, world
<1>2. /\ busy' = FALSE /\ mutation' = Nothing /\ mutation.note \in Notes
      /\ server[mutation.note].st = "deleted"
  BY <1>1, AnsweredNote
<1>3. /\ notes' = Others /\ undo' \in {mutation.note, Nothing}
      /\ deleted' = deleted \cup {mutation.note}
      /\ total' = IF Others # notes /\ total > 0 THEN total - 1 ELSE total
  BY <1>1 DEF Forget
<1>4. Others \subseteq Copies /\ Distinct(Others) /\ deleted' \cap Ids(Others) = {}
  BY <1>3, NotesWereGood DEF Others, NotesGood, Distinct, Ids
<1>5. NotesGood'
  <2>1. Cardinality(Notes) \in Nat
    BY NoteAssumption, FS_CardinalityType
  <2>2. total \in 0..Cardinality(Notes)
    BY NotesWereGood DEF NotesGood
  <2>3. total' \in 0..Cardinality(Notes)
    BY <1>3, <2>1, <2>2
  <2> QED BY <1>3, <1>4, <2>3 DEF NotesGood
<1>6. ShownGood'
  <2>1. CASE Others # {}
    <3>1. FirstOf(Others) \in Others
      BY <1>4, <2>1, FirstIsOne
    <3>2. FirstOf(Others) \in Copies /\ FirstOf(Others).id \notin deleted'
      BY <1>4, <3>1 DEF Ids
    <3>3. ApplySelection(FirstOf(Others))
      BY <2>1 DEF Removed
    <3> QED BY <3>2, <3>3, SelectionIsShown
  <2>2. CASE Others = {}
    <3>1. /\ selected' = Nothing /\ draft' = draft /\ sharing' = Nothing /\ panel' = Nothing
          /\ previewing' = Nothing /\ preview' = Nothing
      BY <2>2 DEF Removed, ClearAttachmentPreviews, ResetSharingState
    <3> QED BY <3>1 DEF ShownGood, ShownBelongs, WorkspaceInv, WorkspaceTypeOK
  <2> QED BY <2>1, <2>2
<1>7. ListsGood' /\ timer' \in BOOLEAN /\ loading' \in BOOLEAN /\ dropped' \in BOOLEAN
  BY <1>1, ListsAskedFor
<1>8. DeletionsGood' /\ failures' \in 0..MaxFailures
  BY <1>1, <1>2, <1>3 DEF DeletionsGood, WorkspaceInv, WorkspaceTypeOK, DeletedStays
<1> QED BY <1>1, <1>2, <1>5, <1>6, <1>7, <1>8, ChangeEnds

\* The new revision takes the place of the old one, in the list and on show.
LEMMA ChildChangedKeeps ==
  ASSUME WorkspaceInv, NEW op \in {"file", "item"}, ChildChanged(op) PROVE WorkspaceInv'
<1> DEFINE Patched(c) == IF c.id = selected.id THEN Copy(c.id) ELSE c
<1>1. /\ Answered(op) /\ LoadList(TRUE, TRUE)
      /\ selected' \in {selected, Patched(selected)}
      /\ notes' \in {notes, {Patched(c) : c \in notes}}
      /\ \/ previewing' = selected.id /\ preview' = Nothing
         \/ UNCHANGED <<previewing, preview>>
      /\ UNCHANGED <<total, query, draft, sharing, panel, undo, deleted, server, failures>>
  BY DEF ChildChanged, LoadAttachmentPreviews, world
<1>2. /\ busy' = FALSE /\ mutation' = Nothing /\ mutation # Nothing /\ mutation.op = op
  BY <1>1, AnsweredNote
<1>3. selected \in Copies /\ selected # Nothing /\ selected.id \in Notes
  BY <1>2, CopyIsSome DEF WorkspaceInv, WorkspaceTypeOK, ChangeIsHere
<1>4. \A c \in Copies : Patched(c) \in Copies /\ Patched(c).id = c.id
  BY CopyIsTyped, CopyIsSome DEF WorkspaceInv
<1>5. \A c, d \in Copies : c.id = d.id /\ c.id = selected.id => Patched(c) = Patched(d)
  OBVIOUS
<1> HIDE DEF Patched
<1>6. NotesGood'
  <2>1. CASE notes' = notes
    BY <2>1, <1>1, NotesWereGood DEF NotesGood
  <2>2. CASE notes' = {Patched(c) : c \in notes}
    <3>1. notes \subseteq Copies /\ Distinct(notes) /\ deleted \cap Ids(notes) = {}
          /\ total \in 0..Cardinality(Notes)
      BY NotesWereGood DEF NotesGood
    <3>2. notes' \subseteq Copies
      BY <2>2, <3>1, <1>4
    <3>3. Distinct(notes')
      BY <2>2, <3>1, <1>4 DEF Distinct
    <3>4. Ids(notes') \subseteq Ids(notes)
      BY <2>2, <3>1, <1>4 DEF Ids
    <3> QED BY <1>1, <3>1, <3>2, <3>3, <3>4 DEF NotesGood
  <2> QED BY <1>1, <2>1, <2>2
<1>7. ShownGood'
  <2>1. selected' \in Copies /\ selected' # Nothing /\ selected'.id = selected.id
    BY <1>1, <1>3, <1>4, CopyIsSome
  <2> QED
    BY <1>1, <1>3, <2>1, ShownWasGood DEF ShownGood, ShownBelongs
<1>8. ListsGood' /\ timer' \in BOOLEAN /\ loading' \in BOOLEAN /\ dropped' \in BOOLEAN
  BY <1>1, ListsAskedFor
<1>9. DeletionsGood' /\ failures' \in 0..MaxFailures
  BY <1>1, <1>2, DeletionsStay DEF WorkspaceInv, WorkspaceTypeOK
<1> QED BY <1>1, <1>2, <1>6, <1>7, <1>8, <1>9, ChangeEnds

\* The answer to a change of the collaborators leaves the list alone.
LEMMA ListStaysGood ==
  ASSUME WorkspaceInv, OnlySharing, UNCHANGED <<list, deleted, server>>
  PROVE  /\ ListsGood' /\ NotesGood'
         /\ timer' \in BOOLEAN /\ loading' \in BOOLEAN /\ dropped' \in BOOLEAN
<1>1. ListsGood'
  BY ListsStay
<1> QED
  BY <1>1, NotesWereGood DEF list, NotesGood, WorkspaceInv, WorkspaceTypeOK

\* The collaborators an answer brings are those of the note on show.
LEMMA CollaboratorsShown ==
  ASSUME WorkspaceInv, ShowShares, mutation # Nothing, mutation.op \in {"share", "addshare"}
  PROVE  ShownGood' /\ (panel' # Nothing => panel # Nothing)
<1>1. /\ UNCHANGED <<selected, draft, sharing, previewing, preview, deleted>>
      /\ panel' = IF panel = Nothing THEN Nothing ELSE panel \cup {mutation.note}
  BY DEF ShowShares
<1>2. panel # Nothing => selected # Nothing /\ selected.id = mutation.note
  BY DEF WorkspaceInv, ChangeIsHere
<1>3. selected # Nothing => selected.id \in Notes
  BY CopyIsSome DEF WorkspaceInv, WorkspaceTypeOK
<1> QED BY <1>1, <1>2, <1>3, ShownWasGood DEF ShownGood, ShownBelongs

LEMMA ShareAddedKeeps == ASSUME WorkspaceInv, ShareAdded PROVE WorkspaceInv'
<1>1. /\ mutation # Nothing /\ mutation.st = "done" /\ mutation.op = "addshare"
      /\ mutation' = [mutation EXCEPT !.op = "contacts"] /\ ShowShares
      /\ UNCHANGED <<list, busy, undo, deleted, server, failures>>
  BY DEF ShareAdded, ShowShares, world
<1>2. mutation \in Mutations
  BY <1>1 DEF WorkspaceInv, WorkspaceTypeOK
<1>3. /\ mutation' \in Mutations /\ mutation'.op = "contacts" /\ mutation'.st = "done"
      /\ mutation'.note = mutation.note
  BY <1>1, <1>2 DEF Mutations
<1>4. mutation' # Nothing
  BY <1>3, NothingAssumption
<1>5. ListsGood' /\ NotesGood' /\ timer' \in BOOLEAN /\ loading' \in BOOLEAN /\ dropped' \in BOOLEAN
  BY <1>1, ListStaysGood DEF OnlySharing
<1>6. ShownGood'
  BY <1>1, CollaboratorsShown
<1>7. DeletionsGood'
  BY <1>1, DeletionsStay
<1>8. NoTwice' /\ ListsFit' /\ ShownBelongs' /\ DeletedIsGone' /\ DeletedStays' /\ UndoIsOffered'
  BY <1>5, <1>6, <1>7
  DEF NoTwice, ListsGood, NotesGood, ShownGood, DeletionsGood, DeletedIsGone, DeletedStays,
      UndoIsOffered
<1>9. ChangeIsHere' /\ ChangeIsDone'
  BY <1>1, <1>3, <1>4 DEF WorkspaceInv, ChangeIsHere, ChangeIsDone
<1>10. WorkspaceTypeOK'
  BY <1>1, <1>3, <1>4, <1>5, <1>6, <1>7
  DEF WorkspaceInv, WorkspaceTypeOK, ListsGood, NotesGood, ShownGood, DeletionsGood, list
<1> QED BY <1>8, <1>9, <1>10 DEF WorkspaceInv

LEMMA ShareChangedKeeps == ASSUME WorkspaceInv, ShareChanged PROVE WorkspaceInv'
<1>1. /\ Answered("share") /\ ShowShares
      /\ UNCHANGED <<list, undo, deleted, server, failures>>
  BY DEF ShareChanged, ShowShares, world
<1>2. busy' = FALSE /\ mutation' = Nothing /\ mutation # Nothing /\ mutation.op = "share"
  BY <1>1, AnsweredNote
<1>3. ListsGood' /\ NotesGood' /\ timer' \in BOOLEAN /\ loading' \in BOOLEAN /\ dropped' \in BOOLEAN
  BY <1>1, <1>2, ListStaysGood DEF OnlySharing
<1>4. ShownGood' /\ DeletionsGood' /\ failures' \in 0..MaxFailures
  BY <1>1, <1>2, CollaboratorsShown, DeletionsStay DEF WorkspaceInv, WorkspaceTypeOK
<1> QED BY <1>1, <1>2, <1>3, <1>4, ChangeEnds DEF list

LEMMA ContactsLoadedKeeps == ASSUME WorkspaceInv, ContactsLoaded PROVE WorkspaceInv'
<1>1. /\ Answered("contacts") /\ UNCHANGED <<list, shown, draft, undo, deleted, server, failures>>
  BY DEF ContactsLoaded, world
<1>2. busy' = FALSE /\ mutation' = Nothing /\ mutation # Nothing /\ mutation.op = "contacts"
  BY <1>1, AnsweredNote
<1>3. ListsGood' /\ NotesGood' /\ timer' \in BOOLEAN /\ loading' \in BOOLEAN /\ dropped' \in BOOLEAN
  BY <1>1, <1>2, ListStaysGood DEF OnlySharing
<1>4. DeletionsGood' /\ failures' \in 0..MaxFailures
  BY <1>1, <1>2, DeletionsStay DEF WorkspaceInv, WorkspaceTypeOK
<1>5. ShownGood'
  BY <1>1, ShownWasGood DEF ShownGood, ShownBelongs, shown
<1> QED BY <1>1, <1>2, <1>3, <1>4, <1>5, ChangeEnds DEF list

LEMMA MutationFailsKeeps == ASSUME WorkspaceInv, MutationFails PROVE WorkspaceInv'
<1>1. /\ mutation # Nothing /\ mutation.op # "contacts" /\ busy' = FALSE /\ mutation' = Nothing
      /\ undo' = IF mutation.op = "undelete" THEN Nothing ELSE undo
      /\ UNCHANGED <<notes, total, query, shown, draft, deleted, server>>
  BY DEF MutationFails
<1>2. failures' \in 0..MaxFailures
  BY LimitAssumption DEF MutationFails, Failure, WorkspaceInv, WorkspaceTypeOK
<1>3. ListsGood' /\ timer' \in BOOLEAN /\ loading' \in BOOLEAN /\ dropped' \in BOOLEAN
  <2>1. CASE mutation.op \in {"share", "addshare"}
    <3>1. UNCHANGED list /\ OnlySharing
      BY <2>1, <1>1 DEF MutationFails, list, OnlySharing
    <3> QED BY <3>1, <1>1, ListStaysGood
  <2>2. CASE mutation.op \notin {"share", "addshare"}
    <3>1. LoadList(TRUE, selected # Nothing)
      BY <2>2 DEF MutationFails
    <3> QED BY <3>1, <1>1, ListsAskedFor
  <2> QED BY <2>1, <2>2
<1>4. NotesGood'
  BY <1>1, NotesWereGood DEF NotesGood
<1>5. ShownGood'
  BY <1>1, ShownWasGood DEF ShownGood, ShownBelongs, shown
<1>6. DeletionsGood'
  <2>1. mutation.op # "undelete" /\ undo # Nothing => server[undo].st = "deleted"
    BY DEF WorkspaceInv, UndoIsOffered
  <2> QED
    BY <1>1, <2>1 DEF DeletionsGood, WorkspaceInv, WorkspaceTypeOK, DeletedStays
<1> QED BY <1>1, <1>2, <1>3, <1>4, <1>5, <1>6, ChangeEnds

------------------------------------------------------------------------------
LEMMA WorkspaceStarts == WorkspaceInit => WorkspaceInv
<1> SUFFICES ASSUME WorkspaceInit PROVE WorkspaceInv
  OBVIOUS
<1> DEFINE r == ListRequest(TRUE, FALSE)
<1>1. Cardinality(Notes) \in Nat /\ 0 \in 0..MaxRev
  BY NoteAssumption, LimitAssumption, FS_CardinalityType
<1>2. /\ r \in ListRequests /\ r.st = "sent" /\ r.reset /\ r.query = query
      /\ r.page = {} /\ r.skip = 0 /\ ~r.sel
  BY <1>1 DEF WorkspaceInit, ListRequest, ListRequests
<1>3. PICK s \in ListRequests :
        /\ lists = {s} /\ s.st = "sent" /\ s.reset /\ s.query = query
        /\ s.page = {} /\ s.skip = 0
  BY <1>2 DEF WorkspaceInit
<1> HIDE DEF r
<1>4. WorkspaceTypeOK
  <2>1. Cardinality(lists) <= 1
    BY <1>3, OneIsFew
  <2>2. server \in [Notes -> [st : {"absent", "active", "deleted"}, rev : 0..MaxRev]]
    BY <1>1 DEF WorkspaceInit
  <2>3. total \in 0..Cardinality(Notes) /\ failures \in 0..MaxFailures
    BY <1>1, LimitAssumption DEF WorkspaceInit
  <2>4. /\ lists \subseteq ListRequests /\ query \in Queries
        /\ mutation = Nothing /\ busy = FALSE
    BY <1>3 DEF WorkspaceInit
  <2> QED BY <2>1, <2>2, <2>3, <2>4 DEF WorkspaceInit, WorkspaceTypeOK
<1>5. NoTwice /\ DeletedStays /\ DeletedIsGone
  BY <1>3 DEF WorkspaceInit, NoTwice, Distinct, DeletedStays, DeletedIsGone
<1>6. ListsFit
  BY <1>3 DEF WorkspaceInit, ListsFit
<1>7. ShownBelongs /\ ChangeIsHere /\ ChangeIsDone /\ UndoIsOffered
  BY DEF WorkspaceInit, ShownBelongs, ChangeIsHere, ChangeIsDone, UndoIsOffered
<1> QED BY <1>4, <1>5, <1>6, <1>7 DEF WorkspaceInv

LEMMA UserKeeps == ASSUME WorkspaceInv, User PROVE WorkspaceInv'
BY QueueSearchKeeps, ReloadKeeps, LoadMoreKeeps, SelectKeeps, CreateKeeps, EditKeeps,
   TypeKeeps, CancelKeeps, LeaveWorkspaceKeeps, SaveKeeps, RemoveOrChildKeeps,
   UndoDeleteKeeps, DismissUndoKeeps, ChangeShareKeeps, PanelKeeps
DEF User

LEMMA ArrivalsKeep == ASSUME WorkspaceInv, Arrivals PROVE WorkspaceInv'
BY ServeListKeeps, ListArrivesKeeps, ListFailsKeeps, ServeMutationKeeps, SavedKeeps,
   RemovedKeeps, RestoredKeeps, ShareAddedKeeps, ShareChangedKeeps, ContactsLoadedKeeps,
   ChildChangedKeeps, MutationFailsKeeps, PanelKeeps
DEF Arrivals

LEMMA WorkspaceStep ==
  ASSUME WorkspaceInv, [WorkspaceNext]_workspace PROVE WorkspaceInv'
<1>1. CASE UNCHANGED workspace
  <2>1. UNCHANGED <<list, operation, world, shown, draft>>
    BY <1>1 DEF workspace
  <2>2. NoTwice' /\ ChangeIsDone' /\ DeletedStays' /\ UndoIsOffered' /\ ListsFit'
    BY <2>1, Beside
  <2> USE DEF list, operation, world, shown
  <2>3. WorkspaceTypeOK' /\ ShownBelongs' /\ DeletedIsGone' /\ ChangeIsHere'
    BY <2>1 DEF WorkspaceInv, WorkspaceTypeOK, ShownBelongs, DeletedIsGone, ChangeIsHere
  <2> QED BY <2>2, <2>3 DEF WorkspaceInv
<1> QED BY <1>1, UserKeeps, ArrivalsKeep DEF WorkspaceNext

\* For any number of notes, search texts, pages and failures, and in whatever
\* order the server's answers come in, the invariant holds.
THEOREM WorkspaceInvariance == WorkspaceSpec => []WorkspaceInv
BY WorkspaceStarts, WorkspaceStep, PTL DEF WorkspaceSpec

\* Previews and collaborators on show are those of the note on show
\* (notes-workspace.ts compares the note an answer is for with the selected one).
THEOREM AnswersShowTheirNote == WorkspaceSpec => []ShownBelongs
<1>1. WorkspaceInv => ShownBelongs
  BY DEF WorkspaceInv
<1> QED BY <1>1, WorkspaceInvariance, PTL

\* A note whose deletion was acknowledged is not listed or shown again before
\* the deletion is taken back: requestVersion lets no older answer revive it.
THEOREM DeletedStaysAway == WorkspaceSpec => []DeletedIsGone
<1>1. WorkspaceInv => DeletedIsGone
  BY DEF WorkspaceInv
<1> QED BY <1>1, WorkspaceInvariance, PTL

\* The undo toast is about a note the server has deleted, until undo is asked for.
THEOREM ToastIsTrue == WorkspaceSpec => []UndoIsOffered
<1>1. WorkspaceInv => UndoIsOffered
  BY DEF WorkspaceInv
<1> QED BY <1>1, WorkspaceInvariance, PTL

\* With nothing under way and no list given up or failed, the list on the screen
\* is what the server has.
THEOREM ListIsTheServers == WorkspaceSpec => []ListSettles
<1>1. WorkspaceInv => ListSettles
  BY DEF WorkspaceInv, WorkspaceTypeOK, ListsFit, OnlySharing, Current, ListSettles
<1> QED BY <1>1, WorkspaceInvariance, PTL

\* A step that loses unsaved changes is an act the user confirmed, the answer to
\* the save, or the return of a deleted note.
LEMMA DraftStep ==
  ASSUME WorkspaceInv, [WorkspaceNext]_workspace, draft = "dirty", draft' # "dirty"
  PROVE  \/ \E c \in notes : Select(c)
         \/ Create \/ Type \/ Cancel \/ LeaveWorkspace
         \/ Saved \/ Restored
<1>1. /\ draft' # draft
  OBVIOUS
<1>2. CASE User
  <2>1. /\ ~Edit /\ ~Remove /\ \A op \in {"file", "item"} : ~ChangeChild(op)
        /\ \A op \in {"share", "addshare"} : ~ChangeShare(op) /\ ~OpenSharing
    BY <1>1 DEF Edit, Remove, ChangeChild, ChangeShare, OpenSharing, Reading
  <2>2. /\ \A q \in Queries : ~QueueSearch(q)
        /\ ~Reload /\ ~LoadMore /\ ~Save /\ ~UndoDelete /\ ~DismissUndo /\ ~CloseSharing
    BY <1>1 DEF QueueSearch, Reload, LoadMore, Save, UndoDelete, DismissUndo, CloseSharing
  <2> QED BY <1>2, <2>1, <2>2 DEF User
<1>3. CASE Arrivals
  <2>1. \A r \in lists : ~ServeList(r) /\ ~ListFails(r) /\ ~ListArrives(r)
    BY <1>1 DEF ServeList, ListFails, ListArrives, ShowFirst
  <2>2. ~Removed
    <3>1. Removed => draft = "none"
      BY AnsweredNote DEF Removed, WorkspaceInv, ChangeIsHere
    <3> QED BY <3>1
  <2>3. /\ ~ServeMutation /\ ~ShareAdded /\ ~ShareChanged /\ ~ContactsLoaded
        /\ ~MutationFails /\ ~SharingArrives /\ ~PreviewArrives
    BY <1>1 DEF ServeMutation, ShareAdded, ShareChanged, ShowShares, ContactsLoaded,
                MutationFails, SharingArrives, PreviewArrives
  <2>4. \A op \in {"file", "item"} : ~ChildChanged(op)
    BY <1>1 DEF ChildChanged
  <2> QED BY <1>3, <2>1, <2>2, <2>3, <2>4 DEF Arrivals
<1>4. ~UNCHANGED workspace
  BY <1>1 DEF workspace
<1> QED BY <1>2, <1>3, <1>4 DEF WorkspaceNext

\* Unsaved changes are kept, whatever answers arrive, until the user confirms
\* (window.confirm), saves them or takes back a deletion.
THEOREM DraftsAreKept == WorkspaceSpec => DraftIsKept
<1>1. WorkspaceInv /\ [WorkspaceNext]_workspace =>
         [draft = "dirty" /\ draft' # "dirty" =>
            \/ \E c \in notes : Select(c)
            \/ Create \/ Type \/ Cancel \/ LeaveWorkspace
            \/ Saved \/ Restored]_workspace
  BY DraftStep
<1> QED BY <1>1, WorkspaceInvariance, PTL DEF WorkspaceSpec, DraftIsKept
==============================================================================
