----------------------------- MODULE AdminSession -----------------------------
(***************************************************************************)
(* Staff sessions as the browser sees them: the cookies that all tabs of a *)
(* browser share, the proxy that refreshes them before a page renders, and *)
(* the login and logout routes.  The API behind them is the one            *)
(* TokenRotation details; here each of its endpoints is one step.          *)
(*                                                                         *)
(* A browser has several requests under way, to several Next processes     *)
(* that share no memory.  Requests carry the cookies of the moment they    *)
(* were sent, and answers change the cookies of the moment they arrive, in *)
(* any order.  A page load with an access cookie passes the proxy          *)
(* untouched and is left out.                                              *)
(***************************************************************************)
EXTENDS Naturals

CONSTANTS
    Browsers,
    Procs,              \* Next processes running the proxy
    Requests,           \* requests that can be under way at the same time
    Tokens,             \* refresh tokens the API can mint
    Grace,              \* REFRESH_ROTATION_GRACE_SECONDS, in units of time
    AccessAge,          \* ACCESS_MAX_AGE_SECONDS
    MaxDelay,           \* how long a request can take, sending to answer
    None                \* no cookie, no value

ASSUME SessionAssumption ==
    /\ Grace \in Nat /\ AccessAge \in Nat /\ MaxDelay \in Nat
    /\ None \notin Tokens \cup Browsers \cup Procs /\ None \notin Nat
    /\ {"none", "asked"} \cap (Tokens \cup {None}) = {}

\* The timing the session depends on: two requests in a row fit in the grace
\* window, and an access cookie outlives the requests sent before it.
ASSUME LatencyAssumption ==
    /\ 2 * MaxDelay <= Grace
    /\ MaxDelay < AccessAge

VARIABLES
    jar,            \* per browser: refresh cookie, and time the access one has left
    issued, family, \* the refresh_token table
    used,           \* and the time since a token was spent, up to Grace + 1
    dead,           \* families revoked
    inFlight,       \* per process and token: the exchange under way, if any
    pc, req,        \* per request: where it is, and what it carries
    owner,          \* history: the browser whose login a token descends from
    told,           \* history: tokens whose refusal a browser has been told of
    steady,         \* history: browsers signed in and not disturbed since
    out             \* history: browsers whose last word is a logout

table == <<issued, family, used, dead, owner>>
notes == <<told, steady, out>>
vars == <<jar, table, inFlight, pc, req, notes>>

-----------------------------------------------------------------------------
Cookies == [refresh : Tokens \cup {None}, left : 0 .. AccessAge]
NoCookies == [refresh |-> None, left |-> 0]

Request == [who   : Browsers \cup {None},
            proc  : Procs \cup {None},      \* the process serving a page load
            tok   : Tokens \cup {None},     \* the refresh cookie it carries
            entry : Tokens \cup {None},     \* the exchange it is waiting for
            got   : Tokens \cup {None},     \* new cookie; None: delete them
            age   : 0 .. MaxDelay,          \* time since it was sent
            kind  : {"load", "login", "logout"}]

NoRequest == [who |-> None, proc |-> None, tok |-> None, entry |-> None,
              got |-> None, age |-> 0, kind |-> "load"]

UnderWay(b) == {r \in Requests : req[r].who = b}
WaitingFor(p, t) ==
    {r \in Requests : pc[r] = "waiting" /\ req[r].proc = p /\ req[r].entry = t}

\* A revoked row is never looked at again: how old its use is no longer matters.
Revoke(F) ==
    /\ dead' = dead \cup F
    /\ used' = [t \in Tokens |-> IF family[t] \in F THEN None ELSE used[t]]

Accepted(t) ==
    family[t] \notin dead /\ (used[t] # None => used[t] <= Grace)

Init ==
    /\ jar = [b \in Browsers |-> NoCookies]
    /\ issued = {} /\ dead = {}
    /\ family = [t \in Tokens |-> t]
    /\ used = [t \in Tokens |-> None]
    /\ inFlight = [p \in Procs |-> [t \in Tokens |-> "none"]]
    /\ pc = [r \in Requests |-> "idle"]
    /\ req = [r \in Requests |-> NoRequest]
    /\ owner = [t \in Tokens |-> None]
    /\ told = [b \in Browsers |-> {}]
    /\ steady = {} /\ out = {}

Send(r, b, kind, proc) ==
    /\ pc[r] = "idle"
    /\ pc' = [pc EXCEPT ![r] =
                IF kind = "load" /\ jar[b].refresh = None THEN "answer" ELSE kind]
    /\ req' = [req EXCEPT ![r] = [NoRequest EXCEPT
                    !.who = b, !.proc = proc, !.kind = kind,
                    !.tok = IF kind = "login" THEN None ELSE jar[b].refresh]]
    /\ UNCHANGED <<jar, table, inFlight, told, out>>

Mint(s, f, b) ==
    /\ s \in Tokens \ issued
    /\ issued' = issued \cup {s}
    /\ family' = [family EXCEPT ![s] = f]
    /\ owner' = [owner EXCEPT ![s] = b]

\* Every request in R is answered with the cookie s.
Answer(R, s) ==
    /\ pc' = [r \in Requests |-> IF r \in R THEN "answer" ELSE pc[r]]
    /\ req' = [r \in Requests |->
                IF r \in R THEN [req[r] EXCEPT
                                    !.got = s, !.proc = None, !.entry = None,
                                    !.tok = IF s = None THEN @ ELSE None]
                           ELSE req[r]]

-----------------------------------------------------------------------------
(* The proxy.                                                              *)

\* A load with no refresh cookie is sent to the login page at once (toLogin),
\* which deletes both.
SendLoad(r) ==
    /\ \E b \in Browsers, p \in Procs :
        jar[b].left = 0 /\ Send(r, b, "load", p)
    /\ UNCHANGED steady

\* Mutant: one exchange at a time, whoever it is for.
AnyInFlight(p, t) == {u \in Tokens : inFlight[p][u] # "none"}

\* exchange(): what it finds in the map, keyed on the token.
Joinable(p, t) == {u \in {t} : inFlight[p][u] # "none"}

Join(r) ==
    /\ pc[r] = "load"
    /\ \E u \in Joinable(req[r].proc, req[r].tok) :
        req' = [req EXCEPT ![r].entry = u]
    /\ pc' = [pc EXCEPT ![r] = "waiting"]
    /\ UNCHANGED <<jar, table, inFlight, notes>>

StartExchange(r) ==
    /\ pc[r] = "load"
    /\ Joinable(req[r].proc, req[r].tok) = {}
    /\ inFlight' = [inFlight EXCEPT ![req[r].proc][req[r].tok] = "asked"]
    /\ req' = [req EXCEPT ![r].entry = req[r].tok]
    /\ pc' = [pc EXCEPT ![r] = "waiting"]
    /\ UNCHANGED <<jar, table, notes>>

\* The API: a token unspent, or spent within the grace window, is rotated.
Rotate(p, t) ==
    /\ inFlight[p][t] = "asked"
    /\ Accepted(t)
    /\ \E s \in Tokens :
        /\ Mint(s, family[t], owner[t])
        /\ inFlight' = [inFlight EXCEPT ![p][t] = s]
    /\ used' = [used EXCEPT ![t] = IF @ = None THEN 0 ELSE @]
    /\ UNCHANGED <<jar, dead, pc, req, notes>>

\* One spent before that, or of a revoked family, is refused, and the family
\* revoked.
RefuseReuse(p, t) ==
    /\ inFlight[p][t] = "asked"
    /\ ~Accepted(t)
    /\ Revoke({family[t]})
    /\ inFlight' = [inFlight EXCEPT ![p][t] = None]
    /\ UNCHANGED <<jar, issued, family, owner, pc, req, notes>>

\* The promise settles for all who wait for it, and its entry is deleted.
Settle(p, t) ==
    /\ inFlight[p][t] \notin {"none", "asked"}
    /\ Answer(WaitingFor(p, t), inFlight[p][t])
    /\ inFlight' = [inFlight EXCEPT ![p][t] = "none"]
    /\ UNCHANGED <<jar, table, notes>>

\* fetch throws, before or after the API has acted: the same as a refusal.
ExchangeFails(p, t) ==
    /\ inFlight[p][t] # "none"
    /\ Answer(WaitingFor(p, t), None)
    /\ inFlight' = [inFlight EXCEPT ![p][t] = "none"]
    /\ steady' = steady \ {req[r].who : r \in WaitingFor(p, t)}
    /\ UNCHANGED <<jar, table, told, out>>

-----------------------------------------------------------------------------
(* The login and logout routes.                                            *)

SendLogin(r) ==
    \E b \in Browsers : Send(r, b, "login", None) /\ steady' = steady \ {b}

ServeLogin(r) ==
    /\ pc[r] = "login"
    /\ \E s \in Tokens : Mint(s, s, req[r].who) /\ Answer({r}, s)
    /\ UNCHANGED <<jar, used, dead, inFlight, notes>>

SendLogout(r) ==
    \E b \in Browsers : Send(r, b, "logout", None) /\ steady' = steady \ {b}

\* Mutant: only the cookies are dropped.
ForgetSession(r) ==
    /\ pc[r] = "logout"
    /\ Answer({r}, None)
    /\ UNCHANGED <<jar, table, inFlight, notes>>

ServeLogout(r) ==
    /\ pc[r] = "logout"
    /\ Revoke({family[t] : t \in {req[r].tok} \ {None}})
    /\ Answer({r}, None)
    /\ UNCHANGED <<jar, issued, family, owner, inFlight, notes>>

\* The API cannot be reached: the cookies are cleared all the same, as for a
\* load with no session.
LogoutUnheard(r) ==
    /\ pc[r] = "logout"
    /\ pc' = [pc EXCEPT ![r] = "answer"]
    /\ req' = [req EXCEPT ![r].kind = "load", ![r].tok = None]
    /\ UNCHANGED <<jar, table, inFlight, notes>>

-----------------------------------------------------------------------------
(* The browser receives an answer.                                         *)

\* Mutant: the way to the login page leaves the cookies alone.
KeepIfRefused(r) ==
    IF req[r].got = None THEN jar[req[r].who]
    ELSE [refresh |-> req[r].got, left |-> AccessAge]

\* Mutant: the render keeps the rotated token, the browser does not.
KeepRefresh(r) ==
    IF req[r].got = None THEN NoCookies
    ELSE [refresh |-> IF req[r].kind = "login" THEN req[r].got
                                               ELSE jar[req[r].who].refresh,
          left |-> AccessAge]

NewCookies(r) ==
    IF req[r].got = None THEN NoCookies
    ELSE [refresh |-> req[r].got, left |-> AccessAge]

\* What the other requests of the browser carry, or bring back.
Crossing(r) ==
    (UNION {{req[q].tok, req[q].got} : q \in UnderWay(req[r].who) \ {r}}) \ {None}

Receive(r) ==
    /\ pc[r] = "answer"
    /\ LET b == req[r].who
           k == req[r].kind
       IN  /\ jar' = [jar EXCEPT ![b] = NewCookies(r)]
           /\ told' = IF k = "load" /\ req[r].got = None
                      THEN [told EXCEPT ![b] = @ \cup ({req[r].tok} \ {None})]
                      ELSE told
           /\ steady' = IF k = "login" /\ UnderWay(b) = {r} THEN steady \cup {b}
                                                           ELSE steady
           /\ out' = CASE k = "login" -> out \ {b}
                       [] k = "logout" /\ \A t \in Crossing(r) :
                            req[r].tok # None /\ family[t] = family[req[r].tok]
                          -> out \cup {b}
                       [] OTHER -> out
    /\ pc' = [pc EXCEPT ![r] = "idle"]
    /\ req' = [req EXCEPT ![r] = NoRequest]
    /\ UNCHANGED <<table, inFlight>>

-----------------------------------------------------------------------------
(* The surroundings: time, lost connections, crashes of a process.         *)

Older(a) == IF a = None \/ a > Grace THEN a ELSE a + 1

\* Time passes, but no request outlives MaxDelay.
Tick ==
    /\ \A r \in Requests : pc[r] # "idle" => req[r].age < MaxDelay
    /\ req' = [r \in Requests |-> IF pc[r] = "idle" THEN req[r]
                                   ELSE [req[r] EXCEPT !.age = @ + 1]]
    /\ used' = [t \in Tokens |-> Older(used[t])]
    /\ jar' = [b \in Browsers |-> [jar[b] EXCEPT !.left = IF @ = 0 THEN 0 ELSE @ - 1]]
    /\ UNCHANGED <<issued, family, dead, owner, inFlight, pc, notes>>

Drop(R) ==
    /\ pc' = [r \in Requests |-> IF r \in R THEN "idle" ELSE pc[r]]
    /\ req' = [r \in Requests |-> IF r \in R THEN NoRequest ELSE req[r]]
    /\ steady' = steady \ {req[r].who : r \in R}

\* The answer never arrives.  (A request that does not arrive might as well not
\* have been sent, and the server does not notice that nobody waits.)
Lose(r) ==
    /\ pc[r] = "answer"
    /\ Drop({r})
    /\ UNCHANGED <<jar, table, inFlight, told, out>>

Crash(p) ==
    /\ inFlight' = [inFlight EXCEPT ![p] = [t \in Tokens |-> "none"]]
    /\ Drop({r \in Requests : pc[r] \in {"load", "waiting"} /\ req[r].proc = p})
    /\ UNCHANGED <<jar, table, told, out>>

Next ==
    \/ \E r \in Requests :
        \/ SendLoad(r) \/ Join(r) \/ StartExchange(r)
        \/ SendLogin(r) \/ ServeLogin(r)
        \/ SendLogout(r) \/ ServeLogout(r) \/ LogoutUnheard(r)
        \/ Receive(r) \/ Lose(r)
    \/ \E p \in Procs, t \in Tokens :
        Rotate(p, t) \/ RefuseReuse(p, t) \/ Settle(p, t) \/ ExchangeFails(p, t)
    \/ \E p \in Procs : Crash(p)
    \/ Tick

Spec == Init /\ [][Next]_vars

-----------------------------------------------------------------------------
\* A signed-in agent whose requests all get answers is never signed out by
\* refreshing, however the loads of all tabs and processes overlap: the refresh
\* cookie is always one the API accepts (proxy.ts:9-27, 36-50).
SessionSurvives ==
    \A b \in steady : jar[b].refresh # None /\ Accepted(jar[b].refresh)

\* No browser is ever handed a token of another browser's login, although the
\* exchanges of all of them share a process (proxy.ts:43-45).
OwnTokensOnly ==
    /\ \A b \in Browsers : jar[b].refresh # None => owner[jar[b].refresh] = b
    /\ \A r \in Requests : req[r].got # None => owner[req[r].got] = req[r].who

\* Once told that a token was refused, a browser never presents it again: it
\* does not bounce between a page and the login page (proxy.ts:106-107).
NoBounce == \A b \in Browsers : jar[b].refresh \notin told[b]

\* After a logout the API has heard, an answer still on its way can bring back
\* cookies, but none the API would refresh (logout/route.ts:8-11).  What a
\* rotation that overlaps the revocation can save is told by TokenRotation.
LogoutIsFinal ==
    \A b \in out : jar[b].refresh # None => family[jar[b].refresh] \in dead
=============================================================================
