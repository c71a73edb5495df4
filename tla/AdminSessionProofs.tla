------------------------- MODULE AdminSessionProofs -------------------------
(* The properties of AdminSession for every set of browsers, processes,     *)
(* requests and tokens, and every timing its assumptions allow.             *)
EXTENDS TLAPS, AdminSession

Pcs == {"idle", "load", "waiting", "login", "logout", "answer"}

Exchange == Tokens \cup {None, "none", "asked"}

(* Cookies, rows, exchanges and requests are of their types.                *)
TypeInv ==
    /\ jar \in [Browsers -> Cookies]
    /\ issued \subseteq Tokens /\ dead \subseteq Tokens
    /\ family \in [Tokens -> Tokens]
    /\ used \in [Tokens -> (0 .. Grace + 1) \cup {None}]
    /\ owner \in [Tokens -> Browsers \cup {None}]
    /\ inFlight \in [Procs -> [Tokens -> Exchange]]
    /\ pc \in [Requests -> Pcs]
    /\ req \in [Requests -> Request]
    /\ told \in [Browsers -> SUBSET Tokens]
    /\ steady \subseteq Browsers /\ out \subseteq Browsers

(* What a request carries at each point of its way.                         *)
InOrder(r) ==
    /\ pc[r] = "idle" => req[r] = NoRequest
    /\ pc[r] # "idle" => req[r].who \in Browsers
    /\ pc[r] \in {"load", "waiting"} =>
            req[r].kind = "load" /\ req[r].proc \in Procs /\ req[r].tok \in Tokens
    /\ pc[r] = "waiting" =>
            req[r].entry = req[r].tok /\ inFlight[req[r].proc][req[r].tok] # "none"
    /\ pc[r] = "login" => req[r].kind = "login"
    /\ pc[r] = "logout" => req[r].kind = "logout"
    /\ pc[r] = "answer" /\ req[r].kind = "login" => req[r].got # None
    /\ req[r].kind = "login" => req[r].tok = None
    /\ req[r].kind = "logout" => req[r].got = None
    /\ req[r].got # None => pc[r] = "answer" /\ req[r].tok = None

RequestsInOrder == \A r \in Requests : InOrder(r)

(* An exchange under way has a request that waits for it.                   *)
SomeoneWaits ==
    \A p \in Procs, t \in Tokens : inFlight[p][t] # "none" =>
        \E r \in Requests : pc[r] = "waiting" /\ req[r].proc = p /\ req[r].tok = t

(* A token belongs to the browser whose login founded its family.           *)
TableInOrder ==
    /\ dead \subseteq issued
    /\ \A t \in issued : /\ family[t] \in issued /\ owner[t] \in Browsers
                         /\ owner[family[t]] = owner[t]
    /\ \A t \in Tokens \ issued : family[t] = t /\ used[t] = None

(* A token is where its owner's requests, cookies and exchanges are.        *)
TokensInPlay ==
    /\ \A b \in Browsers :
        /\ jar[b].refresh # None => jar[b].refresh \in issued /\ owner[jar[b].refresh] = b
        /\ told[b] \subseteq issued
    /\ \A r \in Requests :
        /\ req[r].tok # None => req[r].tok \in issued /\ owner[req[r].tok] = req[r].who
        /\ req[r].got # None => req[r].got \in issued /\ owner[req[r].got] = req[r].who
    /\ \A p \in Procs, t \in Tokens : inFlight[p][t] \in Tokens =>
        /\ inFlight[p][t] \in issued
        /\ family[inFlight[p][t]] = family[t] /\ owner[inFlight[p][t]] = owner[t]

OwnInv == TypeInv /\ RequestsInOrder /\ SomeoneWaits /\ TableInOrder /\ TokensInPlay

(* A token minted for an exchange that has not settled is nowhere else.     *)
Unseen(s) ==
    /\ used[s] = None
    /\ \A b \in Browsers : jar[b].refresh # s /\ s \notin told[b]
    /\ \A r \in Requests : req[r].tok # s /\ req[r].got # s

MintedIsUnseen ==
    \A p \in Procs, t \in Tokens : inFlight[p][t] \in Tokens =>
        /\ Unseen(inFlight[p][t])
        /\ \A q \in Procs, u \in Tokens : inFlight[q][u] = inFlight[p][t] => q = p /\ u = t

(* While an answer brings a token, the token is too young to be exchanged:  *)
(* the access cookie that came with its first arrival has not expired.      *)
Young(s, age) ==
    /\ used[s] = None
    /\ \A q \in Requests : req[q].tok = s => req[q].kind = "logout"
    /\ \A b \in Browsers : /\ s \notin told[b]
                           /\ jar[b].refresh = s => jar[b].left + age >= AccessAge

BroughtIsYoung ==
    \A r \in Requests : req[r].got # None => Young(req[r].got, req[r].age)

YoungInv == OwnInv /\ MintedIsUnseen /\ BroughtIsYoung /\ NoBounce

(* A logout the API has answered has revoked its family, and a browser that *)
(* is out holds, carries and is brought nothing of a live one, except by a  *)
(* new login.                                                               *)
OutInv ==
    /\ \A r \in Requests :
        pc[r] = "answer" /\ req[r].kind = "logout" /\ req[r].tok # None =>
            family[req[r].tok] \in dead
    /\ LogoutIsFinal
    /\ \A r \in Requests : req[r].who \in out =>
        /\ req[r].tok # None => family[req[r].tok] \in dead
        /\ req[r].got # None /\ req[r].kind # "login" => family[req[r].got] \in dead

(* The token of a login that has not arrived is the first of a live family, *)
(* and nowhere else.                                                        *)
Fresh(r, s) ==
    /\ family[s] = s /\ s \notin dead
    /\ \A t \in Tokens : family[t] = s => t = s
    /\ \A q \in Requests : req[q].tok # s /\ (req[q].got = s => q = r)
    /\ \A b \in Browsers : jar[b].refresh # s

LoginIsFresh ==
    \A r \in Requests, s \in Tokens :
        req[r].got = s /\ req[r].kind = "login" => Fresh(r, s)

FreshInv == YoungInv /\ LoginIsFresh

(* A steady browser b, with the refresh cookie c, only loads pages, all in  *)
(* one family that is not dead, and none of its exchanges was refused.  Its *)
(* cookie was spent by a request still under way, and what its requests     *)
(* carry was spent at most MaxDelay before they were sent.                  *)
Undisturbed(b, c) ==
    /\ jar[b].refresh = c /\ family[c] \notin dead
    /\ \A r \in Requests : req[r].who = b =>
        /\ req[r].kind = "load"
        /\ pc[r] = "answer" => req[r].got # None
        /\ req[r].tok # None => /\ family[req[r].tok] = family[c]
                                /\ used[req[r].tok] # None =>
                                        used[req[r].tok] <= MaxDelay + req[r].age
        /\ req[r].got # None => family[req[r].got] = family[c]
    /\ \A p \in Procs, t \in Tokens : inFlight[p][t] = None => owner[t] # b
    /\ used[c] # None => \E r \in Requests : req[r].who = b /\ used[c] <= req[r].age

SteadyInv == FreshInv /\ \A b \in steady : \E c \in Tokens : Undisturbed(b, c)

-----------------------------------------------------------------------------
(* The record of a request that is over.                                    *)
LEMMA NoRequestType == NoRequest \in Request
  BY SessionAssumption DEF NoRequest, Request

(* At the start nobody is signed in and nothing is under way.               *)
LEMMA OwnInit == Init => OwnInv
<1>1. Init => TypeInv
  BY SessionAssumption, NoRequestType
  DEF Init, TypeInv, Pcs, Exchange, Cookies, NoCookies
<1>2. Init => RequestsInOrder
  BY SessionAssumption DEF Init, RequestsInOrder, InOrder, NoRequest
<1>3. Init => SomeoneWaits /\ TableInOrder
  BY SessionAssumption DEF Init, SomeoneWaits, TableInOrder
<1>4. Init => TokensInPlay
  BY SessionAssumption DEF Init, TokensInPlay, NoRequest, NoCookies
<1>5. QED
  BY <1>1, <1>2, <1>3, <1>4 DEF OwnInv

(* Requests and exchanges do as they should when the table is left alone,   *)
(* no cookie changes, and one request moves.                                *)
LEMMA OwnMoves ==
    ASSUME OwnInv, NEW r \in Requests, UNCHANGED <<jar, table, inFlight, told>>,
           steady' \subseteq Browsers, out' \subseteq Browsers,
           pc' \in [Requests -> Pcs], req' \in [Requests -> Request],
           \A q \in Requests : q # r => req'[q] = req[q] /\ pc'[q] = pc[q],
           pc[r] # "waiting",
           pc'[r] = "idle" => req'[r] = NoRequest,
           pc'[r] # "idle" => req'[r].who \in Browsers,
           pc'[r] \in {"load", "waiting"} =>
                req'[r].kind = "load" /\ req'[r].proc \in Procs /\ req'[r].tok \in Tokens,
           pc'[r] = "waiting" =>
                req'[r].entry = req'[r].tok /\ inFlight[req'[r].proc][req'[r].tok] # "none",
           pc'[r] = "login" => req'[r].kind = "login",
           pc'[r] = "logout" => req'[r].kind = "logout",
           pc'[r] = "answer" /\ req'[r].kind = "login" => req'[r].got # None,
           req'[r].kind = "login" => req'[r].tok = None,
           req'[r].kind = "logout" => req'[r].got = None,
           req'[r].got = None,
           req'[r].tok # None => req'[r].tok \in issued /\ owner[req'[r].tok] = req'[r].who
    PROVE  OwnInv'
<1> USE DEF OwnInv
<1>1. UNCHANGED <<issued, family, used, dead, owner>>
  BY DEF table
<1>2. TypeInv'
  BY <1>1 DEF TypeInv
<1>3. RequestsInOrder'
  <2>1. ASSUME NEW q \in Requests
        PROVE  InOrder(q)'
    <3>1. CASE q = r
      BY <3>1 DEF InOrder
    <3>2. CASE q # r
      BY <3>2 DEF RequestsInOrder, InOrder
    <3>3. QED
      BY <3>1, <3>2
  <2>2. QED
    BY <2>1 DEF RequestsInOrder, InOrder
<1>4. SomeoneWaits'
  BY DEF SomeoneWaits
<1>5. TableInOrder'
  BY <1>1 DEF TableInOrder
<1>6. TokensInPlay'
  BY <1>1 DEF TokensInPlay
<1>7. QED
  BY <1>2, <1>3, <1>4, <1>5, <1>6

(* A page load, a login or a logout is sent with the cookies of the moment. *)
Sent(r, b, kind, proc) ==
    /\ pc[r] = "idle" /\ req[r] = NoRequest
    /\ pc' \in [Requests -> Pcs] /\ req' \in [Requests -> Request]
    /\ \A q \in Requests : q # r => req'[q] = req[q] /\ pc'[q] = pc[q]
    /\ pc'[r] = (IF kind = "load" /\ jar[b].refresh = None THEN "answer" ELSE kind)
    /\ req'[r].who = b /\ req'[r].proc = proc /\ req'[r].kind = kind
    /\ req'[r].tok = (IF kind = "login" THEN None ELSE jar[b].refresh)
    /\ req'[r].entry = None /\ req'[r].got = None /\ req'[r].age = 0
    /\ jar' = jar /\ issued' = issued /\ family' = family /\ used' = used /\ dead' = dead
    /\ owner' = owner /\ inFlight' = inFlight /\ told' = told /\ out' = out

(* What sending a request does.                                             *)
LEMMA SendFacts ==
    ASSUME OwnInv, NEW r \in Requests, NEW b \in Browsers, NEW kind \in {"load", "login", "logout"},
           NEW proc, proc \in Procs \/ (proc = None /\ kind # "load"),
           Send(r, b, kind, proc)
    PROVE  Sent(r, b, kind, proc)
<1> DEFINE new == [NoRequest EXCEPT !.who = b, !.proc = proc, !.kind = kind,
                        !.tok = IF kind = "login" THEN None ELSE jar[b].refresh]
<1>1. jar[b].refresh \in Tokens \cup {None}
  BY DEF OwnInv, TypeInv, Cookies
<1>2. /\ new \in Request
      /\ new.who = b /\ new.proc = proc /\ new.kind = kind
      /\ new.tok = (IF kind = "login" THEN None ELSE jar[b].refresh)
      /\ new.entry = None /\ new.got = None /\ new.age = 0
  <2>1. NoRequest.entry = None /\ NoRequest.got = None /\ NoRequest.age = 0
    BY DEF NoRequest
  <2>2. NoRequest \in Request
    BY NoRequestType
  <2>3. new \in Request
    BY <1>1, <2>2 DEF Request
  <2>4. QED
    BY <2>1, <2>2, <2>3 DEF Request
<1>3. req' = [req EXCEPT ![r] = new]
  BY DEF Send
<1>4. /\ pc[r] = "idle" /\ req[r] = NoRequest
      /\ pc' = [pc EXCEPT ![r] =
            IF kind = "load" /\ jar[b].refresh = None THEN "answer" ELSE kind]
  BY DEF Send, OwnInv, RequestsInOrder, InOrder
<1> HIDE DEF new
<1>5. /\ req' \in [Requests -> Request] /\ req'[r] = new
      /\ \A q \in Requests : q # r => req'[q] = req[q]
  BY <1>2, <1>3 DEF OwnInv, TypeInv
<1>6. /\ pc' \in [Requests -> Pcs]
      /\ pc'[r] = (IF kind = "load" /\ jar[b].refresh = None THEN "answer" ELSE kind)
      /\ \A q \in Requests : q # r => pc'[q] = pc[q]
  BY <1>4 DEF OwnInv, TypeInv, Pcs
<1>7. /\ jar' = jar /\ issued' = issued /\ family' = family /\ used' = used /\ dead' = dead
      /\ owner' = owner /\ inFlight' = inFlight /\ told' = told /\ out' = out
  BY DEF Send, table
<1>8. QED
  BY <1>2, <1>4, <1>5, <1>6, <1>7 DEF Sent

(* Sending a request shows it the cookies of its own browser.               *)
LEMMA SendOwn ==
    ASSUME OwnInv, NEW r \in Requests, NEW b \in Browsers, NEW kind \in {"load", "login", "logout"},
           NEW proc, proc \in Procs \/ (proc = None /\ kind # "load"),
           Send(r, b, kind, proc), steady' \subseteq Browsers
    PROVE  OwnInv'
<1>1. Sent(r, b, kind, proc)
  BY SendFacts
<1>2. /\ jar[b].refresh \in Tokens \cup {None}
      /\ jar[b].refresh # None => jar[b].refresh \in issued /\ owner[jar[b].refresh] = b
  BY DEF OwnInv, TypeInv, TokensInPlay, Cookies
<1>3. /\ UNCHANGED <<jar, table, inFlight, told>>
      /\ steady' \subseteq Browsers /\ out' \subseteq Browsers
  BY DEF Send, OwnInv, TypeInv
<1>4. /\ pc'[r] \in {"load", "waiting"} =>
            req'[r].kind = "load" /\ req'[r].proc \in Procs /\ req'[r].tok \in Tokens
      /\ pc'[r] # "waiting" /\ pc'[r] # "idle" /\ pc[r] # "waiting"
      /\ req'[r].who \in Browsers /\ req'[r].got = None
      /\ pc'[r] = "login" => req'[r].kind = "login"
      /\ pc'[r] = "logout" => req'[r].kind = "logout"
      /\ pc'[r] = "answer" => req'[r].kind # "login"
      /\ req'[r].kind = "login" => req'[r].tok = None
      /\ req'[r].tok # None => req'[r].tok \in issued /\ owner[req'[r].tok] = req'[r].who
  BY <1>1, <1>2 DEF Sent
<1>5. /\ pc' \in [Requests -> Pcs] /\ req' \in [Requests -> Request]
      /\ \A q \in Requests : q # r => req'[q] = req[q] /\ pc'[q] = pc[q]
  BY <1>1 DEF Sent
<1>6. QED
  BY <1>3, <1>4, <1>5, OwnMoves

(* A load that joins an exchange waits for the one of its token.            *)
LEMMA JoinOwn ==
    ASSUME OwnInv, NEW r \in Requests, Join(r)
    PROVE  OwnInv'
<1>1. /\ pc[r] = "load" /\ inFlight[req[r].proc][req[r].tok] # "none"
      /\ req' = [req EXCEPT ![r].entry = req[r].tok]
      /\ pc' = [pc EXCEPT ![r] = "waiting"]
      /\ UNCHANGED <<jar, table, inFlight, notes>>
  <2>1. PICK u \in Joinable(req[r].proc, req[r].tok) : req' = [req EXCEPT ![r].entry = u]
    BY DEF Join
  <2>2. u = req[r].tok /\ inFlight[req[r].proc][u] # "none"
    BY DEF Joinable
  <2>3. QED
    BY <2>1, <2>2 DEF Join
<1>2. /\ req[r] \in Request /\ req[r].kind = "load" /\ req[r].proc \in Procs
      /\ req[r].tok \in Tokens /\ req[r].who \in Browsers /\ req[r].got = None
      /\ req[r].tok \in issued /\ owner[req[r].tok] = req[r].who
  BY <1>1, SessionAssumption DEF OwnInv, TypeInv, RequestsInOrder, InOrder, TokensInPlay
<1>3. req'[r] = [req[r] EXCEPT !.entry = req[r].tok] /\ pc'[r] = "waiting"
  BY <1>1 DEF OwnInv, TypeInv
<1>4. /\ req'[r] \in Request /\ req'[r].entry = req[r].tok /\ req'[r].tok = req[r].tok
      /\ req'[r].kind = "load" /\ req'[r].proc = req[r].proc /\ req'[r].got = None
      /\ req'[r].who = req[r].who
  BY <1>2, <1>3 DEF Request
<1>5. /\ pc' \in [Requests -> Pcs] /\ req' \in [Requests -> Request]
      /\ \A q \in Requests : q # r => req'[q] = req[q] /\ pc'[q] = pc[q]
  BY <1>1, <1>4 DEF OwnInv, TypeInv, Pcs
<1>6. steady' \subseteq Browsers /\ out' \subseteq Browsers /\ UNCHANGED told
  BY <1>1 DEF OwnInv, TypeInv, notes
<1>7. QED
  BY <1>1, <1>2, <1>3, <1>4, <1>5, <1>6, OwnMoves

(* A logout the API never hears of ends in a deletion all the same.         *)
LEMMA LogoutUnheardOwn ==
    ASSUME OwnInv, NEW r \in Requests, LogoutUnheard(r)
    PROVE  OwnInv'
<1>1. /\ pc[r] = "logout"
      /\ pc' = [pc EXCEPT ![r] = "answer"]
      /\ req' = [req EXCEPT ![r].kind = "load", ![r].tok = None]
      /\ UNCHANGED <<jar, table, inFlight, notes>>
  BY DEF LogoutUnheard
<1>2. req[r] \in Request /\ req[r].who \in Browsers /\ req[r].got = None
  BY <1>1, SessionAssumption DEF OwnInv, TypeInv, RequestsInOrder, InOrder
<1>3. /\ req'[r] \in Request /\ req'[r].tok = None /\ req'[r].kind = "load"
      /\ req'[r].who = req[r].who /\ req'[r].got = None /\ pc'[r] = "answer"
  <2>1. req'[r] = [req[r] EXCEPT !.kind = "load", !.tok = None] /\ pc'[r] = "answer"
    BY <1>1 DEF OwnInv, TypeInv
  <2>2. QED
    BY <1>2, <2>1 DEF Request
<1>4. /\ pc' \in [Requests -> Pcs] /\ req' \in [Requests -> Request]
      /\ \A q \in Requests : q # r => req'[q] = req[q] /\ pc'[q] = pc[q]
  BY <1>1, <1>3 DEF OwnInv, TypeInv, Pcs
<1>5. steady' \subseteq Browsers /\ out' \subseteq Browsers /\ UNCHANGED told
  BY <1>1 DEF OwnInv, TypeInv, notes
<1>6. QED
  BY <1>1, <1>2, <1>3, <1>4, <1>5, OwnMoves

-----------------------------------------------------------------------------
(* What a load, about to ask, is.                                           *)
LEMMA LoadFacts ==
    ASSUME OwnInv, NEW r \in Requests, pc[r] \in {"load", "waiting"}
    PROVE  /\ req[r] \in Request /\ req[r].who \in Browsers
           /\ req[r].kind = "load" /\ req[r].proc \in Procs
           /\ req[r].tok \in Tokens /\ req[r].tok # None /\ req[r].got = None
           /\ req[r].tok \in issued /\ owner[req[r].tok] = req[r].who
  BY SessionAssumption DEF OwnInv, TypeInv, RequestsInOrder, InOrder, TokensInPlay

(* The exchange of its token is begun, and it waits.                        *)
Started(r) ==
    /\ pc[r] = "load" /\ inFlight[req[r].proc][req[r].tok] = "none"
    /\ pc' \in [Requests -> Pcs] /\ req' \in [Requests -> Request]
    /\ inFlight' \in [Procs -> [Tokens -> Exchange]]
    /\ inFlight'[req[r].proc][req[r].tok] = "asked"
    /\ \A p \in Procs, t \in Tokens : p # req[r].proc \/ t # req[r].tok =>
        inFlight'[p][t] = inFlight[p][t]
    /\ \A q \in Requests : q # r => req'[q] = req[q] /\ pc'[q] = pc[q]
    /\ pc'[r] = "waiting"
    /\ req'[r].who = req[r].who /\ req'[r].proc = req[r].proc
    /\ req'[r].kind = req[r].kind /\ req'[r].tok = req[r].tok
    /\ req'[r].entry = req[r].tok /\ req'[r].got = None /\ req'[r].age = req[r].age
    /\ jar' = jar /\ issued' = issued /\ family' = family /\ used' = used /\ dead' = dead
    /\ owner' = owner /\ told' = told /\ steady' = steady /\ out' = out

(* What starting an exchange does.                                          *)
LEMMA StartFacts ==
    ASSUME OwnInv, NEW r \in Requests, StartExchange(r)
    PROVE  Started(r)
<1>1. /\ pc[r] = "load" /\ inFlight[req[r].proc][req[r].tok] = "none"
      /\ inFlight' = [inFlight EXCEPT ![req[r].proc][req[r].tok] = "asked"]
      /\ req' = [req EXCEPT ![r].entry = req[r].tok]
      /\ pc' = [pc EXCEPT ![r] = "waiting"]
      /\ jar' = jar /\ issued' = issued /\ family' = family /\ used' = used /\ dead' = dead
      /\ owner' = owner /\ told' = told /\ steady' = steady /\ out' = out
  <2>1. Joinable(req[r].proc, req[r].tok) = {}
    BY DEF StartExchange
  <2>2. inFlight[req[r].proc][req[r].tok] = "none"
    BY <2>1 DEF Joinable
  <2>3. QED
    BY <2>2 DEF StartExchange, table, notes
<1>2. /\ req[r] \in Request /\ req[r].proc \in Procs /\ req[r].tok \in Tokens
      /\ req[r].got = None
  BY <1>1, LoadFacts
<1>3. req'[r] = [req[r] EXCEPT !.entry = req[r].tok] /\ pc'[r] = "waiting"
  BY <1>1 DEF OwnInv, TypeInv
<1>4. /\ req'[r] \in Request
      /\ req'[r].who = req[r].who /\ req'[r].proc = req[r].proc
      /\ req'[r].kind = req[r].kind /\ req'[r].tok = req[r].tok
      /\ req'[r].entry = req[r].tok /\ req'[r].got = None /\ req'[r].age = req[r].age
  BY <1>2, <1>3 DEF Request
<1>5. /\ pc' \in [Requests -> Pcs] /\ req' \in [Requests -> Request]
      /\ \A q \in Requests : q # r => req'[q] = req[q] /\ pc'[q] = pc[q]
  BY <1>1, <1>4 DEF OwnInv, TypeInv, Pcs
<1>6. /\ inFlight' \in [Procs -> [Tokens -> Exchange]]
      /\ inFlight'[req[r].proc][req[r].tok] = "asked"
      /\ \A p \in Procs, t \in Tokens : p # req[r].proc \/ t # req[r].tok =>
            inFlight'[p][t] = inFlight[p][t]
  BY <1>1, <1>2 DEF OwnInv, TypeInv, Exchange
<1>7. QED
  BY <1>1, <1>3, <1>4, <1>5, <1>6 DEF Started

(* An exchange is started for a token its request holds.                    *)
LEMMA StartOwn ==
    ASSUME OwnInv, NEW r \in Requests, StartExchange(r)
    PROVE  OwnInv'
<1>1. Started(r) /\ pc[r] = "load"
  BY StartFacts DEF Started
<1>2. /\ req[r] \in Request /\ req[r].who \in Browsers /\ req[r].kind = "load"
      /\ req[r].proc \in Procs /\ req[r].tok \in Tokens
      /\ req[r].tok \in issued /\ owner[req[r].tok] = req[r].who
  BY <1>1, LoadFacts
<1>3. "asked" # "none" /\ "asked" \notin Tokens
  BY SessionAssumption
<1>4. TypeInv'
  BY <1>1 DEF OwnInv, TypeInv, Started
<1>5. RequestsInOrder'
  <2>1. ASSUME NEW q \in Requests
        PROVE  InOrder(q)'
    <3>1. CASE q = r
      BY <1>1, <1>2, <1>3, <3>1 DEF Started, InOrder
    <3>2. CASE q # r
      <4>1. InOrder(q) /\ req'[q] = req[q] /\ pc'[q] = pc[q]
        BY <1>1, <3>2 DEF OwnInv, RequestsInOrder, InOrder, Started
      <4>2. pc[q] = "waiting" => inFlight'[req[q].proc][req[q].tok] # "none"
        BY <1>1, <1>3, <4>1 DEF Started, InOrder
      <4>3. QED
        BY <4>1, <4>2 DEF InOrder
    <3>3. QED
      BY <3>1, <3>2
  <2>2. QED
    BY <2>1 DEF RequestsInOrder, InOrder
<1>6. SomeoneWaits'
  <2>1. ASSUME NEW p \in Procs, NEW t \in Tokens, inFlight'[p][t] # "none"
        PROVE  \E q \in Requests : pc'[q] = "waiting" /\ req'[q].proc = p /\ req'[q].tok = t
    <3>1. CASE p = req[r].proc /\ t = req[r].tok
      BY <1>1, <3>1 DEF Started
    <3>2. CASE p # req[r].proc \/ t # req[r].tok
      BY <1>1, <2>1, <3>2 DEF OwnInv, SomeoneWaits, Started
    <3>3. QED
      BY <3>1, <3>2
  <2>2. QED
    BY <2>1 DEF SomeoneWaits
<1>7. TableInOrder'
  BY <1>1 DEF OwnInv, TableInOrder, Started
<1>8. TokensInPlay'
  <2>1. ASSUME NEW p \in Procs, NEW t \in Tokens, inFlight'[p][t] \in Tokens
        PROVE  inFlight'[p][t] = inFlight[p][t]
    BY <1>1, <1>3, <2>1 DEF Started
  <2>2. ASSUME NEW q \in Requests
        PROVE  /\ req'[q].tok = req[q].tok /\ req'[q].who = req[q].who
               /\ req'[q].got # None => req'[q].got = req[q].got
    BY <1>1 DEF Started
  <2>3. QED
    BY <1>1, <2>1, <2>2 DEF OwnInv, TokensInPlay, Started
<1>9. QED
  BY <1>4, <1>5, <1>6, <1>7, <1>8 DEF OwnInv

(* Requests in R get their answer.                                          *)
Answered(R, s) ==
    /\ pc' \in [Requests -> Pcs] /\ req' \in [Requests -> Request]
    /\ \A q \in Requests \ R : req'[q] = req[q] /\ pc'[q] = pc[q]
    /\ \A q \in R :
        /\ pc'[q] = "answer" /\ req'[q].got = s
        /\ req'[q].who = req[q].who /\ req'[q].kind = req[q].kind /\ req'[q].age = req[q].age
        /\ req'[q].tok = IF s = None THEN req[q].tok ELSE None

(* Answer settles the requests it is given and no other.                    *)
LEMMA AnswerFacts ==
    ASSUME OwnInv, NEW R \in SUBSET Requests, NEW s \in Tokens \cup {None}, Answer(R, s)
    PROVE  Answered(R, s)
<1>1. /\ pc' = [q \in Requests |-> IF q \in R THEN "answer" ELSE pc[q]]
      /\ req' = [q \in Requests |->
                    IF q \in R THEN [req[q] EXCEPT
                                    !.got = s, !.proc = None, !.entry = None,
                                    !.tok = IF s = None THEN req[q].tok ELSE None]
                               ELSE req[q]]
  BY DEF Answer
<1>2. ASSUME NEW q \in R
      PROVE  /\ pc'[q] = "answer" /\ req'[q].got = s /\ req'[q] \in Request
             /\ req'[q].who = req[q].who /\ req'[q].kind = req[q].kind
             /\ req'[q].age = req[q].age
             /\ req'[q].tok = IF s = None THEN req[q].tok ELSE None
  <2>1. req'[q] = [req[q] EXCEPT !.got = s, !.proc = None, !.entry = None,
                                 !.tok = IF s = None THEN req[q].tok ELSE None]
    BY <1>1
  <2>2. req[q] \in Request /\ pc'[q] = "answer"
    BY <1>1 DEF OwnInv, TypeInv
  <2>3. QED
    BY <2>1, <2>2 DEF Request
<1>3. \A q \in Requests \ R : req'[q] = req[q] /\ pc'[q] = pc[q]
  BY <1>1
<1>4. pc' \in [Requests -> Pcs]
  BY <1>1 DEF OwnInv, TypeInv, Pcs
<1>5. req' \in [Requests -> Request]
  <2>1. \A q \in Requests : req'[q] \in Request
    BY <1>2, <1>3 DEF OwnInv, TypeInv
  <2>2. QED
    BY <1>1, <2>1
<1>6. QED
  BY <1>2, <1>3, <1>4, <1>5 DEF Answered

(* An exchange ends, and its waiters get the token it brought, or none.     *)
LEMMA SettleOwn ==
    ASSUME OwnInv, NEW p \in Procs, NEW t \in Tokens, NEW s \in Tokens \cup {None},
           s \in {None, inFlight[p][t]},
           Answer(WaitingFor(p, t), s),
           inFlight' = [inFlight EXCEPT ![p][t] = "none"],
           UNCHANGED <<jar, table, told, out>>, steady' \subseteq Browsers
    PROVE  OwnInv'
<1> DEFINE R == WaitingFor(p, t)
<1>1. R \in SUBSET Requests
  BY DEF WaitingFor
<1>2. Answered(R, s)
  BY <1>1, AnswerFacts
<1>3. /\ inFlight' \in [Procs -> [Tokens -> Exchange]]
      /\ inFlight'[p][t] = "none"
      /\ \A q \in Procs, u \in Tokens : q # p \/ u # t => inFlight'[q][u] = inFlight[q][u]
  BY DEF OwnInv, TypeInv, Exchange
<1>4. ASSUME NEW q \in Requests
      PROVE  q \in R <=> pc[q] = "waiting" /\ req[q].proc = p /\ req[q].tok = t
  BY DEF OwnInv, RequestsInOrder, InOrder, WaitingFor
<1>5. UNCHANGED <<issued, family, used, dead, owner>>
  BY DEF table
<1>6. "none" \notin Tokens /\ None \notin Tokens
  BY SessionAssumption
<1> HIDE DEF R
<1>7. TypeInv'
  BY <1>2, <1>3, <1>5 DEF OwnInv, TypeInv, Answered
<1>8. RequestsInOrder'
  <2>1. ASSUME NEW q \in Requests
        PROVE  InOrder(q)'
    <3>1. CASE q \in R
      <4>1. /\ req[q].who \in Browsers /\ req[q].kind = "load"
        BY <1>4, <3>1 DEF OwnInv, RequestsInOrder, InOrder
      <4>2. QED
        BY <1>2, <3>1, <4>1 DEF Answered, InOrder
    <3>2. CASE q \notin R
      <4>1. InOrder(q) /\ req'[q] = req[q] /\ pc'[q] = pc[q]
        BY <1>2, <3>2 DEF OwnInv, RequestsInOrder, InOrder, Answered
      <4>2. pc[q] = "waiting" => inFlight'[req[q].proc][req[q].tok] # "none"
        BY <1>3, <1>4, <3>2, <4>1 DEF InOrder
      <4>3. QED
        BY <4>1, <4>2 DEF InOrder
    <3>3. QED
      BY <3>1, <3>2
  <2>2. QED
    BY <2>1 DEF RequestsInOrder, InOrder
<1>9. SomeoneWaits'
  <2>1. ASSUME NEW q \in Procs, NEW u \in Tokens, inFlight'[q][u] # "none"
        PROVE  \E r \in Requests : pc'[r] = "waiting" /\ req'[r].proc = q /\ req'[r].tok = u
    <3>1. (q # p \/ u # t) /\ inFlight[q][u] # "none"
      BY <1>3, <2>1
    <3>2. PICK r \in Requests : pc[r] = "waiting" /\ req[r].proc = q /\ req[r].tok = u
      BY <3>1 DEF OwnInv, SomeoneWaits
    <3>3. r \notin R
      BY <1>4, <3>1, <3>2
    <3>4. QED
      BY <1>2, <3>2, <3>3 DEF Answered
  <2>2. QED
    BY <2>1 DEF SomeoneWaits
<1>10. TableInOrder'
  BY <1>5 DEF OwnInv, TableInOrder
<1>11. TokensInPlay'
  <2>1. ASSUME NEW q \in Requests
        PROVE  /\ req'[q].tok # None => req'[q].tok \in issued /\ owner[req'[q].tok] = req'[q].who
               /\ req'[q].got # None => req'[q].got \in issued /\ owner[req'[q].got] = req'[q].who
    <3>1. CASE q \in R
      <4>1. req[q].tok = t /\ owner[t] = req[q].who /\ t \in issued
        BY <1>4, <1>6, <3>1 DEF OwnInv, TokensInPlay
      <4>2. s # None => s \in issued /\ owner[s] = owner[t]
        BY DEF OwnInv, TokensInPlay
      <4>3. QED
        BY <1>2, <3>1, <4>1, <4>2 DEF Answered
    <3>2. CASE q \notin R
      BY <1>2, <3>2 DEF OwnInv, TokensInPlay, Answered
    <3>3. QED
      BY <3>1, <3>2
  <2>2. ASSUME NEW q \in Procs, NEW u \in Tokens, inFlight'[q][u] \in Tokens
        PROVE  inFlight'[q][u] = inFlight[q][u]
    BY <1>3, <1>6, <2>2
  <2>3. QED
    BY <1>5, <2>1, <2>2 DEF OwnInv, TokensInPlay
<1>12. QED
  BY <1>7, <1>8, <1>9, <1>10, <1>11 DEF OwnInv

(* Only a token somebody carries is exchanged.                              *)
LEMMA ExchangedIsIssued ==
    ASSUME OwnInv, NEW p \in Procs, NEW t \in Tokens, inFlight[p][t] # "none"
    PROVE  /\ t \in issued /\ owner[t] \in Browsers
           /\ \E r \in Requests : /\ pc[r] = "waiting" /\ req[r].proc = p /\ req[r].tok = t
                                  /\ req[r].who = owner[t] /\ req[r].kind = "load"
<1>1. PICK r \in Requests : pc[r] = "waiting" /\ req[r].proc = p /\ req[r].tok = t
  BY DEF OwnInv, SomeoneWaits
<1>2. /\ req[r].who \in Browsers /\ req[r].kind = "load" /\ req[r].tok \in issued
      /\ owner[req[r].tok] = req[r].who
  BY <1>1, LoadFacts
<1>3. QED
  BY <1>1, <1>2

(* A token is minted in a family of its owner's, or founds one.             *)
LEMMA MintOwn ==
    ASSUME OwnInv, NEW s \in Tokens, NEW f \in Tokens, NEW b \in Browsers, Mint(s, f, b),
           f = s \/ (f \in issued /\ owner[f] = b), dead' = dead,
           used' \in [Tokens -> (0 .. Grace + 1) \cup {None}],
           \A t \in Tokens \ issued : used'[t] = None
    PROVE  /\ s \notin issued /\ issued' = issued \cup {s} /\ issued' \subseteq Tokens
           /\ family' \in [Tokens -> Tokens] /\ family'[s] = f
           /\ owner' \in [Tokens -> Browsers \cup {None}] /\ owner'[s] = b
           /\ \A t \in Tokens : t # s => family'[t] = family[t] /\ owner'[t] = owner[t]
           /\ TableInOrder'
<1>1. /\ s \notin issued /\ issued' = issued \cup {s} /\ issued' \subseteq Tokens
      /\ family' \in [Tokens -> Tokens] /\ family'[s] = f
      /\ owner' \in [Tokens -> Browsers \cup {None}] /\ owner'[s] = b
      /\ \A t \in Tokens : t # s => family'[t] = family[t] /\ owner'[t] = owner[t]
  BY DEF OwnInv, TypeInv, Mint
<1>2. ASSUME NEW t \in issued'
      PROVE  /\ family'[t] \in issued' /\ owner'[t] \in Browsers
             /\ owner'[family'[t]] = owner'[t]
  <2>1. CASE t = s
    BY <1>1, <2>1 DEF OwnInv, TypeInv
  <2>2. CASE t # s
    <3>1. /\ family[t] \in issued /\ owner[t] \in Browsers /\ owner[family[t]] = owner[t]
          /\ t \in Tokens /\ family[t] \in Tokens
      BY <1>1, <2>2 DEF OwnInv, TypeInv, TableInOrder
    <3>2. QED
      BY <1>1, <2>2, <3>1
  <2>3. QED
    BY <2>1, <2>2
<1>3. dead' \subseteq issued'
  BY <1>1 DEF OwnInv, TableInOrder
<1>4. \A t \in Tokens \ issued' : family'[t] = t /\ used'[t] = None
  BY <1>1 DEF OwnInv, TableInOrder
<1>5. QED
  BY <1>1, <1>2, <1>3, <1>4 DEF TableInOrder

(* The API rotates a token for an exchange.                                 *)
Rotated(p, t, s) ==
    /\ inFlight[p][t] = "asked" /\ Accepted(t)
    /\ Mint(s, family[t], owner[t])
    /\ inFlight' \in [Procs -> [Tokens -> Exchange]]
    /\ inFlight'[p][t] = s
    /\ \A q \in Procs, u \in Tokens : q # p \/ u # t => inFlight'[q][u] = inFlight[q][u]
    /\ used' \in [Tokens -> (0 .. Grace + 1) \cup {None}]
    /\ used'[t] = (IF used[t] = None THEN 0 ELSE used[t])
    /\ \A u \in Tokens : u # t => used'[u] = used[u]
    /\ jar' = jar /\ dead' = dead /\ pc' = pc /\ req' = req
    /\ told' = told /\ steady' = steady /\ out' = out

(* What a rotation does: one successor, in the family of its token.         *)
LEMMA RotateFacts ==
    ASSUME OwnInv, NEW p \in Procs, NEW t \in Tokens, Rotate(p, t)
    PROVE  \E s \in Tokens : Rotated(p, t, s)
<1>1. PICK s \in Tokens : /\ Mint(s, family[t], owner[t])
                          /\ inFlight' = [inFlight EXCEPT ![p][t] = s]
  BY DEF Rotate
<1>2. /\ inFlight[p][t] = "asked" /\ Accepted(t)
      /\ used' = [used EXCEPT ![t] = IF used[t] = None THEN 0 ELSE used[t]]
      /\ jar' = jar /\ dead' = dead /\ pc' = pc /\ req' = req
      /\ told' = told /\ steady' = steady /\ out' = out
  BY DEF Rotate, notes
<1>3. /\ used' \in [Tokens -> (0 .. Grace + 1) \cup {None}]
      /\ used'[t] = (IF used[t] = None THEN 0 ELSE used[t])
      /\ \A u \in Tokens : u # t => used'[u] = used[u]
  <2>1. 0 \in 0 .. Grace + 1
    BY SessionAssumption
  <2>2. QED
    BY <1>2, <2>1 DEF OwnInv, TypeInv
<1>4. /\ inFlight' \in [Procs -> [Tokens -> Exchange]]
      /\ inFlight'[p][t] = s
      /\ \A q \in Procs, u \in Tokens : q # p \/ u # t => inFlight'[q][u] = inFlight[q][u]
  BY <1>1 DEF OwnInv, TypeInv, Exchange
<1>5. QED
  BY <1>1, <1>2, <1>3, <1>4 DEF Rotated

(* The successor goes to the browsers that hold the token.                  *)
LEMMA RotateOwn ==
    ASSUME OwnInv, NEW p \in Procs, NEW t \in Tokens, Rotate(p, t)
    PROVE  OwnInv'
<1>1. PICK s \in Tokens : Rotated(p, t, s)
  BY RotateFacts
<1>2. "asked" # "none" /\ "none" \notin Tokens /\ "asked" \notin Tokens /\ None \notin Tokens
  BY SessionAssumption
<1>3. t \in issued /\ owner[t] \in Browsers
  BY <1>1, <1>2, ExchangedIsIssued DEF Rotated
<1>4. family[t] \in issued /\ family[t] \in Tokens /\ owner[family[t]] = owner[t]
  BY <1>3 DEF OwnInv, TypeInv, TableInOrder
<1>5. /\ dead' = dead /\ used' \in [Tokens -> (0 .. Grace + 1) \cup {None}]
      /\ \A u \in Tokens \ issued : used'[u] = None
      /\ Mint(s, family[t], owner[t])
  BY <1>1, <1>3 DEF Rotated, OwnInv, TableInOrder
<1>6. /\ s \notin issued /\ issued' = issued \cup {s} /\ issued' \subseteq Tokens
      /\ family' \in [Tokens -> Tokens] /\ family'[s] = family[t]
      /\ owner' \in [Tokens -> Browsers \cup {None}] /\ owner'[s] = owner[t]
      /\ \A u \in Tokens : u # s => family'[u] = family[u] /\ owner'[u] = owner[u]
      /\ TableInOrder'
  BY <1>3, <1>4, <1>5, MintOwn
<1>7. TypeInv'
  BY <1>1, <1>6 DEF OwnInv, TypeInv, Rotated
<1>8. RequestsInOrder'
  <2>1. ASSUME NEW q \in Requests, pc[q] = "waiting"
        PROVE  inFlight'[req[q].proc][req[q].tok] # "none"
    <3>1. /\ req[q].proc \in Procs /\ req[q].tok \in Tokens
          /\ inFlight[req[q].proc][req[q].tok] # "none"
      BY <2>1 DEF OwnInv, RequestsInOrder, InOrder
    <3>2. QED
      BY <1>1, <1>2, <3>1 DEF Rotated
  <2>2. pc' = pc /\ req' = req
    BY <1>1 DEF Rotated
  <2>3. QED
    BY <2>1, <2>2 DEF OwnInv, RequestsInOrder, InOrder
<1>9. SomeoneWaits'
  BY <1>1, <1>2 DEF OwnInv, SomeoneWaits, Rotated
<1>10. TokensInPlay'
  <2>1. ASSUME NEW q \in Procs, NEW u \in Tokens, inFlight'[q][u] \in Tokens
        PROVE  /\ inFlight'[q][u] \in issued'
               /\ family'[inFlight'[q][u]] = family'[u] /\ owner'[inFlight'[q][u]] = owner'[u]
    <3>1. CASE q = p /\ u = t
      BY <1>1, <1>3, <1>6, <3>1 DEF Rotated
    <3>2. CASE q # p \/ u # t
      <4>1. inFlight'[q][u] = inFlight[q][u] /\ inFlight[q][u] \in Tokens
        BY <1>1, <2>1, <3>2 DEF Rotated
      <4>2. /\ inFlight[q][u] \in issued
            /\ family[inFlight[q][u]] = family[u] /\ owner[inFlight[q][u]] = owner[u]
        BY <4>1 DEF OwnInv, TokensInPlay
      <4>3. u \in issued
        BY <1>2, <4>1, ExchangedIsIssued
      <4>4. QED
        BY <1>6, <4>1, <4>2, <4>3
    <3>3. QED
      BY <3>1, <3>2
  <2>2. /\ jar' = jar /\ req' = req /\ told' = told
    BY <1>1 DEF Rotated
  <2>3. \A u \in issued : u \in issued' /\ owner'[u] = owner[u]
    BY <1>6 DEF OwnInv, TypeInv
  <2>4. QED
    BY <2>1, <2>2, <2>3 DEF OwnInv, TokensInPlay
<1>11. QED
  BY <1>6, <1>7, <1>8, <1>9, <1>10 DEF OwnInv

(* A login opens a family nobody has a token of.                            *)
LEMMA ServeLoginOwn ==
    ASSUME OwnInv, NEW r \in Requests, ServeLogin(r)
    PROVE  OwnInv'
<1>1. PICK s \in Tokens : Mint(s, s, req[r].who) /\ Answer({r}, s)
  BY DEF ServeLogin
<1>2. /\ pc[r] = "login"
      /\ jar' = jar /\ used' = used /\ dead' = dead /\ inFlight' = inFlight
      /\ told' = told /\ steady' = steady /\ out' = out
  BY DEF ServeLogin, notes
<1>3. /\ req[r].who \in Browsers /\ req[r].kind = "login" /\ None \notin Tokens
  BY <1>2, SessionAssumption DEF OwnInv, RequestsInOrder, InOrder
<1>4. Answered({r}, s)
  BY <1>1, AnswerFacts
<1>5. /\ used' \in [Tokens -> (0 .. Grace + 1) \cup {None}]
      /\ \A u \in Tokens \ issued : used'[u] = None
  BY <1>2 DEF OwnInv, TypeInv, TableInOrder
<1>6. /\ s \notin issued /\ issued' = issued \cup {s} /\ issued' \subseteq Tokens
      /\ family' \in [Tokens -> Tokens] /\ family'[s] = s
      /\ owner' \in [Tokens -> Browsers \cup {None}] /\ owner'[s] = req[r].who
      /\ \A u \in Tokens : u # s => family'[u] = family[u] /\ owner'[u] = owner[u]
      /\ TableInOrder'
  BY <1>1, <1>2, <1>3, <1>5, MintOwn
<1>7. TypeInv'
  BY <1>2, <1>4, <1>6 DEF OwnInv, TypeInv, Answered
<1>8. RequestsInOrder'
  BY <1>2, <1>3, <1>4 DEF OwnInv, RequestsInOrder, InOrder, Answered
<1>9. SomeoneWaits'
  BY <1>2, <1>4 DEF OwnInv, SomeoneWaits, Answered
<1>10. TokensInPlay'
  <2>1. \A u \in issued : u \in issued' /\ owner'[u] = owner[u] /\ family'[u] = family[u]
    BY <1>6 DEF OwnInv, TypeInv
  <2>2. \A q \in Procs, u \in Tokens : inFlight[q][u] # "none" => u \in issued
    BY ExchangedIsIssued
  <2>3. ASSUME NEW q \in Requests
        PROVE  /\ req'[q].tok # None => req'[q].tok \in issued' /\ owner'[req'[q].tok] = req'[q].who
               /\ req'[q].got # None => req'[q].got \in issued' /\ owner'[req'[q].got] = req'[q].who
    <3>1. CASE q = r
      BY <1>3, <1>4, <1>6, <3>1 DEF Answered
    <3>2. CASE q # r
      BY <1>4, <2>1, <3>2 DEF OwnInv, TokensInPlay, Answered
    <3>3. QED
      BY <3>1, <3>2
  <2>4. ASSUME NEW q \in Procs, NEW u \in Tokens, inFlight'[q][u] \in Tokens
        PROVE  /\ inFlight'[q][u] \in issued'
               /\ family'[inFlight'[q][u]] = family'[u] /\ owner'[inFlight'[q][u]] = owner'[u]
    <3>1. inFlight'[q][u] = inFlight[q][u] /\ u \in issued
      BY <1>2, <2>2, <2>4, SessionAssumption
    <3>2. QED
      BY <2>1, <2>4, <3>1 DEF OwnInv, TokensInPlay
  <2>5. QED
    BY <1>2, <2>1, <2>3, <2>4 DEF OwnInv, TokensInPlay
<1>11. QED
  BY <1>6, <1>7, <1>8, <1>9, <1>10 DEF OwnInv

(* A family is revoked, and with it the family's uses forgotten.            *)
Revoked(F) ==
    /\ dead' = dead \cup F
    /\ used' \in [Tokens -> (0 .. Grace + 1) \cup {None}]
    /\ \A t \in Tokens : used'[t] = IF family[t] \in F THEN None ELSE used[t]

(* A revocation takes the use of a family and leaves its owners.            *)
LEMMA RevokeFacts ==
    ASSUME OwnInv, NEW F, Revoke(F)
    PROVE  Revoked(F)
  BY DEF Revoke, Revoked, OwnInv, TypeInv

(* The API refuses a token, and revokes its family.                         *)
Refused(p, t) ==
    /\ inFlight[p][t] = "asked" /\ ~Accepted(t)
    /\ Revoked({family[t]})
    /\ inFlight' \in [Procs -> [Tokens -> Exchange]]
    /\ inFlight'[p][t] = None
    /\ \A q \in Procs, u \in Tokens : q # p \/ u # t => inFlight'[q][u] = inFlight[q][u]
    /\ jar' = jar /\ issued' = issued /\ family' = family /\ owner' = owner
    /\ pc' = pc /\ req' = req /\ told' = told /\ steady' = steady /\ out' = out

(* What the refusal of a reused token does.                                 *)
LEMMA RefuseFacts ==
    ASSUME OwnInv, NEW p \in Procs, NEW t \in Tokens, RefuseReuse(p, t)
    PROVE  Refused(p, t)
<1>1. Revoked({family[t]})
  BY RevokeFacts DEF RefuseReuse
<1>2. /\ inFlight' \in [Procs -> [Tokens -> Exchange]]
      /\ inFlight'[p][t] = None
      /\ \A q \in Procs, u \in Tokens : q # p \/ u # t => inFlight'[q][u] = inFlight[q][u]
  BY DEF RefuseReuse, OwnInv, TypeInv, Exchange
<1>3. QED
  BY <1>1, <1>2 DEF RefuseReuse, Refused, notes

(* A refusal hands out no token.                                            *)
LEMMA RefuseOwn ==
    ASSUME OwnInv, NEW p \in Procs, NEW t \in Tokens, RefuseReuse(p, t)
    PROVE  OwnInv'
<1>1. Refused(p, t)
  BY RefuseFacts
<1>2. "asked" # "none" /\ None # "none" /\ None \notin Tokens
  BY SessionAssumption
<1>3. t \in issued /\ family[t] \in issued /\ family[t] \in Tokens
  BY <1>1, <1>2, ExchangedIsIssued DEF OwnInv, TypeInv, TableInOrder, Refused
<1>4. TypeInv'
  BY <1>1, <1>3 DEF OwnInv, TypeInv, Refused, Revoked
<1>5. RequestsInOrder'
  <2>1. ASSUME NEW q \in Requests, pc[q] = "waiting"
        PROVE  inFlight'[req[q].proc][req[q].tok] # "none"
    <3>1. /\ req[q].proc \in Procs /\ req[q].tok \in Tokens
          /\ inFlight[req[q].proc][req[q].tok] # "none"
      BY <2>1 DEF OwnInv, RequestsInOrder, InOrder
    <3>2. QED
      BY <1>1, <1>2, <3>1 DEF Refused
  <2>2. pc' = pc /\ req' = req
    BY <1>1 DEF Refused
  <2>3. QED
    BY <2>1, <2>2 DEF OwnInv, RequestsInOrder, InOrder
<1>6. SomeoneWaits'
  BY <1>1, <1>2 DEF OwnInv, SomeoneWaits, Refused
<1>7. TableInOrder'
  BY <1>1, <1>3 DEF OwnInv, TableInOrder, Refused, Revoked
<1>8. TokensInPlay'
  <2>1. ASSUME NEW q \in Procs, NEW u \in Tokens, inFlight'[q][u] \in Tokens
        PROVE  inFlight'[q][u] = inFlight[q][u]
    BY <1>1, <1>2, <2>1 DEF Refused
  <2>2. QED
    BY <1>1, <2>1 DEF OwnInv, TokensInPlay, Refused
<1>9. QED
  BY <1>4, <1>5, <1>6, <1>7, <1>8 DEF OwnInv

(* A logout that is heard revokes the family of the token it carries.       *)
LogoutHeard(r) ==
    /\ pc[r] = "logout" /\ req[r].kind = "logout" /\ req[r].got = None
    /\ req[r].who \in Browsers
    /\ Revoked({family[t] : t \in {req[r].tok} \ {None}})
    /\ Answered({r}, None)
    /\ jar' = jar /\ issued' = issued /\ family' = family /\ owner' = owner
    /\ inFlight' = inFlight /\ told' = told /\ steady' = steady /\ out' = out

(* What a logout that reaches the API does.                                 *)
LEMMA LogoutFacts ==
    ASSUME OwnInv, NEW r \in Requests, ServeLogout(r)
    PROVE  LogoutHeard(r)
<1>1. Revoke({family[t] : t \in {req[r].tok} \ {None}}) /\ Answer({r}, None)
  BY DEF ServeLogout
<1>2. Revoked({family[t] : t \in {req[r].tok} \ {None}}) /\ Answered({r}, None)
  BY <1>1, RevokeFacts, AnswerFacts
<1>3. pc[r] = "logout" /\ req[r].kind = "logout" /\ req[r].got = None /\ req[r].who \in Browsers
  BY DEF ServeLogout, OwnInv, RequestsInOrder, InOrder
<1>4. QED
  BY <1>2, <1>3 DEF ServeLogout, LogoutHeard, notes

(* A logout hands out no token.                                             *)
LEMMA ServeLogoutOwn ==
    ASSUME OwnInv, NEW r \in Requests, ServeLogout(r)
    PROVE  OwnInv'
<1>1. LogoutHeard(r)
  BY LogoutFacts
<1>2. {family[t] : t \in {req[r].tok} \ {None}} \subseteq issued
  BY DEF OwnInv, TokensInPlay, TableInOrder
<1>3. TypeInv'
  BY <1>1, <1>2 DEF OwnInv, TypeInv, LogoutHeard, Revoked, Answered
<1>4. RequestsInOrder'
  BY <1>1 DEF OwnInv, RequestsInOrder, InOrder, LogoutHeard, Answered
<1>5. SomeoneWaits'
  BY <1>1 DEF OwnInv, SomeoneWaits, LogoutHeard, Answered
<1>6. TableInOrder'
  BY <1>1, <1>2 DEF OwnInv, TypeInv, TableInOrder, LogoutHeard, Revoked
<1>7. TokensInPlay'
  BY <1>1 DEF OwnInv, TokensInPlay, LogoutHeard, Answered
<1>8. QED
  BY <1>3, <1>4, <1>5, <1>6, <1>7 DEF OwnInv

(* An answer arrives, and the browser's cookies are what it says.           *)
Received(r) ==
    /\ pc[r] = "answer" /\ req[r].who \in Browsers
    /\ pc' \in [Requests -> Pcs] /\ req' \in [Requests -> Request]
    /\ pc'[r] = "idle" /\ req'[r] = NoRequest
    /\ \A q \in Requests : q # r => req'[q] = req[q] /\ pc'[q] = pc[q]
    /\ jar' \in [Browsers -> Cookies]
    /\ jar'[req[r].who].refresh = req[r].got
    /\ jar'[req[r].who].left = (IF req[r].got = None THEN 0 ELSE AccessAge)
    /\ \A b \in Browsers : b # req[r].who => jar'[b] = jar[b]
    /\ told' \in [Browsers -> SUBSET Tokens]
    /\ told'[req[r].who] = told[req[r].who] \cup
            (IF req[r].kind = "load" /\ req[r].got = None THEN {req[r].tok} \ {None} ELSE {})
    /\ \A b \in Browsers : b # req[r].who => told'[b] = told[b]
    /\ steady' = (IF req[r].kind = "login" /\ UnderWay(req[r].who) = {r}
                  THEN steady \cup {req[r].who} ELSE steady)
    /\ \A b \in out' : \/ b \in out /\ ~(req[r].kind = "login" /\ b = req[r].who)
                       \/ /\ b = req[r].who /\ req[r].kind = "logout"
                          /\ \A t \in Crossing(r) :
                                 req[r].tok # None /\ family[t] = family[req[r].tok]
    /\ out' \subseteq Browsers
    /\ issued' = issued /\ family' = family /\ used' = used /\ dead' = dead
    /\ owner' = owner /\ inFlight' = inFlight

(* What an answer does to the cookies when it arrives.                      *)
LEMMA ReceiveFacts ==
    ASSUME OwnInv, NEW r \in Requests, Receive(r)
    PROVE  Received(r)
<1> DEFINE b == req[r].who
<1>1. /\ pc[r] = "answer" /\ b \in Browsers /\ req[r] \in Request
  BY DEF Receive, OwnInv, TypeInv, RequestsInOrder, InOrder
<1>2. /\ NewCookies(r) \in Cookies /\ NewCookies(r).refresh = req[r].got
      /\ NewCookies(r).left = IF req[r].got = None THEN 0 ELSE AccessAge
  BY <1>1, SessionAssumption DEF NewCookies, NoCookies, Cookies, Request
<1>3. /\ jar' = [jar EXCEPT ![b] = NewCookies(r)]
      /\ told' = IF req[r].kind = "load" /\ req[r].got = None
                 THEN [told EXCEPT ![b] = told[b] \cup ({req[r].tok} \ {None})]
                 ELSE told
      /\ steady' = IF req[r].kind = "login" /\ UnderWay(b) = {r} THEN steady \cup {b}
                                                                ELSE steady
      /\ pc' = [pc EXCEPT ![r] = "idle"]
      /\ req' = [req EXCEPT ![r] = NoRequest]
      /\ issued' = issued /\ family' = family /\ used' = used /\ dead' = dead
      /\ owner' = owner /\ inFlight' = inFlight
  BY DEF Receive, table
<1>4. out' = CASE req[r].kind = "login" -> out \ {b}
               [] req[r].kind = "logout" /\ \A t \in Crossing(r) :
                    req[r].tok # None /\ family[t] = family[req[r].tok]
                  -> out \cup {b}
               [] OTHER -> out
  BY DEF Receive
<1>5. /\ pc' \in [Requests -> Pcs] /\ req' \in [Requests -> Request]
      /\ pc'[r] = "idle" /\ req'[r] = NoRequest
      /\ \A q \in Requests : q # r => req'[q] = req[q] /\ pc'[q] = pc[q]
  BY <1>3, NoRequestType DEF OwnInv, TypeInv, Pcs
<1>6. /\ jar' \in [Browsers -> Cookies]
      /\ jar'[b] = NewCookies(r)
      /\ \A c \in Browsers : c # b => jar'[c] = jar[c]
  BY <1>1, <1>2, <1>3 DEF OwnInv, TypeInv
<1>7. /\ told' \in [Browsers -> SUBSET Tokens]
      /\ told'[b] = told[b] \cup
            (IF req[r].kind = "load" /\ req[r].got = None THEN {req[r].tok} \ {None} ELSE {})
      /\ \A c \in Browsers : c # b => told'[c] = told[c]
  <2>1. req[r].tok \in Tokens \cup {None}
    BY <1>1 DEF Request
  <2>2. QED
    BY <1>1, <1>3, <2>1 DEF OwnInv, TypeInv
<1>8. /\ out' \subseteq Browsers
      /\ \A c \in out' : \/ c \in out /\ ~(req[r].kind = "login" /\ c = b)
                         \/ /\ c = b /\ req[r].kind = "logout"
                            /\ \A t \in Crossing(r) :
                                   req[r].tok # None /\ family[t] = family[req[r].tok]
  <2>1. CASE req[r].kind = "login"
    BY <1>4, <2>1 DEF OwnInv, TypeInv
  <2>2. CASE req[r].kind = "logout" /\ \A t \in Crossing(r) :
                req[r].tok # None /\ family[t] = family[req[r].tok]
    BY <1>1, <1>4, <2>2 DEF OwnInv, TypeInv
  <2>3. CASE req[r].kind # "login" /\ ~(req[r].kind = "logout" /\ \A t \in Crossing(r) :
                req[r].tok # None /\ family[t] = family[req[r].tok])
    BY <1>4, <2>3 DEF OwnInv, TypeInv
  <2>4. QED
    BY <2>1, <2>2, <2>3
<1>9. QED
  BY <1>1, <1>2, <1>3, <1>5, <1>6, <1>7, <1>8 DEF Received

(* The cookies an answer sets are those of the browser it is for.           *)
LEMMA ReceiveOwn ==
    ASSUME OwnInv, NEW r \in Requests, Receive(r)
    PROVE  OwnInv'
<1>1. Received(r) /\ pc[r] = "answer" /\ req[r].who \in Browsers
  BY ReceiveFacts DEF Received
<1>2. NoRequest.tok = None /\ NoRequest.got = None /\ NoRequest.kind = "load"
  BY DEF NoRequest
<1>3. TypeInv'
  BY <1>1 DEF OwnInv, TypeInv, Received
<1>4. RequestsInOrder'
  BY <1>1, <1>2 DEF OwnInv, RequestsInOrder, InOrder, Received
<1>5. SomeoneWaits'
  BY <1>1 DEF OwnInv, SomeoneWaits, Received
<1>6. TableInOrder'
  BY <1>1 DEF OwnInv, TableInOrder, Received
<1>7. TokensInPlay'
  <2>1. ASSUME NEW b \in Browsers
        PROVE  /\ jar'[b].refresh # None => jar'[b].refresh \in issued /\ owner[jar'[b].refresh] = b
               /\ told'[b] \subseteq issued
    BY <1>1 DEF OwnInv, TokensInPlay, Received
  <2>2. \A q \in Requests :
          /\ req'[q].tok # None => req'[q].tok \in issued /\ owner[req'[q].tok] = req'[q].who
          /\ req'[q].got # None => req'[q].got \in issued /\ owner[req'[q].got] = req'[q].who
    BY <1>1, <1>2 DEF OwnInv, TokensInPlay, Received
  <2>3. QED
    BY <1>1, <2>1, <2>2 DEF OwnInv, TokensInPlay, Received
<1>8. QED
  BY <1>3, <1>4, <1>5, <1>6, <1>7 DEF OwnInv

(* Time passes: requests, uses and cookies are older by one.                *)
Ticked ==
    /\ pc' = pc /\ req' \in [Requests -> Request]
    /\ \A r \in Requests :
        /\ pc[r] = "idle" => req'[r] = req[r]
        /\ req'[r].who = req[r].who /\ req'[r].kind = req[r].kind /\ req'[r].proc = req[r].proc
        /\ req'[r].tok = req[r].tok /\ req'[r].entry = req[r].entry /\ req'[r].got = req[r].got
        /\ req[r].age \in 0 .. MaxDelay /\ req'[r].age \in 0 .. MaxDelay
        /\ pc[r] # "idle" => req'[r].age = req[r].age + 1
    /\ used' \in [Tokens -> (0 .. Grace + 1) \cup {None}]
    /\ \A t \in Tokens :
        /\ used'[t] = None <=> used[t] = None
        /\ used[t] # None => used'[t] <= used[t] + 1
    /\ jar' \in [Browsers -> Cookies]
    /\ \A b \in Browsers : /\ jar'[b].refresh = jar[b].refresh
                           /\ jar[b].left \in 0 .. AccessAge /\ jar'[b].left \in 0 .. AccessAge
                           /\ jar'[b].left + 1 >= jar[b].left
    /\ issued' = issued /\ family' = family /\ dead' = dead /\ owner' = owner
    /\ inFlight' = inFlight /\ told' = told /\ steady' = steady /\ out' = out

(* What the passing of time does to ages and cookies.                       *)
LEMMA TickFacts ==
    ASSUME OwnInv, Tick
    PROVE  Ticked
<1>1. /\ \A r \in Requests : pc[r] # "idle" => req[r].age < MaxDelay
      /\ req' = [r \in Requests |-> IF pc[r] = "idle" THEN req[r]
                                    ELSE [req[r] EXCEPT !.age = req[r].age + 1]]
      /\ used' = [t \in Tokens |-> Older(used[t])]
      /\ jar' = [b \in Browsers |-> [jar[b] EXCEPT !.left =
                    IF jar[b].left = 0 THEN 0 ELSE jar[b].left - 1]]
      /\ pc' = pc /\ issued' = issued /\ family' = family /\ dead' = dead /\ owner' = owner
      /\ inFlight' = inFlight /\ told' = told /\ steady' = steady /\ out' = out
  BY DEF Tick, notes
<1>2. ASSUME NEW r \in Requests
      PROVE  /\ req'[r] \in Request
             /\ pc[r] = "idle" => req'[r] = req[r]
             /\ req'[r].who = req[r].who /\ req'[r].kind = req[r].kind /\ req'[r].proc = req[r].proc
             /\ req'[r].tok = req[r].tok /\ req'[r].entry = req[r].entry /\ req'[r].got = req[r].got
             /\ req[r].age \in 0 .. MaxDelay /\ req'[r].age \in 0 .. MaxDelay
             /\ pc[r] # "idle" => req'[r].age = req[r].age + 1
  <2>1. req[r] \in Request /\ req[r].age \in 0 .. MaxDelay
    BY DEF OwnInv, TypeInv, Request
  <2>2. CASE pc[r] = "idle"
    BY <1>1, <2>1, <2>2
  <2>3. CASE pc[r] # "idle"
    <3>1. req'[r] = [req[r] EXCEPT !.age = req[r].age + 1]
      BY <1>1, <2>3
    <3>2. req[r].age + 1 \in 0 .. MaxDelay
      BY <1>1, <2>1, <2>3, SessionAssumption
    <3>3. QED
      BY <2>1, <2>3, <3>1, <3>2 DEF Request
  <2>4. QED
    BY <2>2, <2>3
<1>3. ASSUME NEW t \in Tokens
      PROVE  /\ used'[t] \in (0 .. Grace + 1) \cup {None}
             /\ used'[t] = None <=> used[t] = None
             /\ used[t] # None => used'[t] <= used[t] + 1
  <2>1. used'[t] = Older(used[t]) /\ used[t] \in (0 .. Grace + 1) \cup {None}
    BY <1>1 DEF OwnInv, TypeInv
  <2>2. QED
    BY <2>1, SessionAssumption DEF Older
<1>4. ASSUME NEW b \in Browsers
      PROVE  /\ jar'[b] \in Cookies
             /\ jar'[b].refresh = jar[b].refresh
             /\ jar[b].left \in 0 .. AccessAge /\ jar'[b].left \in 0 .. AccessAge
             /\ jar'[b].left + 1 >= jar[b].left
  <2>1. /\ jar'[b] = [jar[b] EXCEPT !.left = IF jar[b].left = 0 THEN 0 ELSE jar[b].left - 1]
        /\ jar[b] \in Cookies
    BY <1>1 DEF OwnInv, TypeInv
  <2>2. QED
    BY <2>1, SessionAssumption DEF Cookies
<1>5. /\ req' \in [Requests -> Request] /\ jar' \in [Browsers -> Cookies]
      /\ used' \in [Tokens -> (0 .. Grace + 1) \cup {None}]
  BY <1>1, <1>2, <1>3, <1>4
<1>6. QED
  BY <1>1, <1>2, <1>3, <1>4, <1>5 DEF Ticked

(* Time gives nobody a token.                                               *)
LEMMA TickOwn ==
    ASSUME OwnInv, Tick
    PROVE  OwnInv'
<1>1. Ticked
  BY TickFacts
<1>2. TypeInv'
  BY <1>1 DEF OwnInv, TypeInv, Ticked
<1>3. RequestsInOrder'
  BY <1>1 DEF OwnInv, RequestsInOrder, InOrder, Ticked
<1>4. SomeoneWaits'
  BY <1>1 DEF OwnInv, SomeoneWaits, Ticked
<1>5. TableInOrder'
  BY <1>1 DEF OwnInv, TypeInv, TableInOrder, Ticked
<1>6. TokensInPlay'
  BY <1>1 DEF OwnInv, TokensInPlay, Ticked
<1>7. QED
  BY <1>2, <1>3, <1>4, <1>5, <1>6 DEF OwnInv

(* Requests in R are over without an answer.                                *)
Dropped(R) ==
    /\ pc' \in [Requests -> Pcs] /\ req' \in [Requests -> Request]
    /\ \A r \in R : pc'[r] = "idle" /\ req'[r] = NoRequest
    /\ \A r \in Requests \ R : pc'[r] = pc[r] /\ req'[r] = req[r]
    /\ steady' = steady \ {req[r].who : r \in R}
    /\ jar' = jar /\ issued' = issued /\ family' = family /\ used' = used /\ dead' = dead
    /\ owner' = owner /\ told' = told /\ out' = out

(* What dropping requests does.                                             *)
LEMMA DropFacts ==
    ASSUME OwnInv, NEW R \in SUBSET Requests, Drop(R), UNCHANGED <<jar, table, told, out>>
    PROVE  Dropped(R)
<1>1. /\ pc' = [r \in Requests |-> IF r \in R THEN "idle" ELSE pc[r]]
      /\ req' = [r \in Requests |-> IF r \in R THEN NoRequest ELSE req[r]]
      /\ steady' = steady \ {req[r].who : r \in R}
  BY DEF Drop
<1>2. pc' \in [Requests -> Pcs] /\ req' \in [Requests -> Request]
  BY <1>1, NoRequestType DEF OwnInv, TypeInv, Pcs
<1>3. QED
  BY <1>1, <1>2 DEF Dropped, table

(* Requests that are dropped leave their tokens where they were.            *)
LEMMA DropOwn ==
    ASSUME OwnInv, NEW R \in SUBSET Requests, Dropped(R),
           inFlight' \in [Procs -> [Tokens -> Exchange]],
           \A p \in Procs, t \in Tokens : inFlight'[p][t] \in {inFlight[p][t], "none"},
           \A r \in R, p \in Procs, t \in Tokens :
                pc[r] = "waiting" /\ req[r].proc = p /\ req[r].tok = t => inFlight'[p][t] = "none",
           \A r \in Requests \ R :
                pc[r] = "waiting" => inFlight'[req[r].proc][req[r].tok] # "none"
    PROVE  OwnInv'
<1>1. NoRequest.tok = None /\ NoRequest.got = None /\ NoRequest.kind = "load"
  BY DEF NoRequest
<1>2. TypeInv'
  BY DEF OwnInv, TypeInv, Dropped
<1>3. RequestsInOrder'
  <2>1. ASSUME NEW q \in Requests
        PROVE  InOrder(q)'
    <3>1. CASE q \in R
      BY <1>1, <3>1 DEF Dropped, InOrder
    <3>2. CASE q \notin R
      BY <3>2 DEF OwnInv, RequestsInOrder, InOrder, Dropped
    <3>3. QED
      BY <3>1, <3>2
  <2>2. QED
    BY <2>1 DEF RequestsInOrder, InOrder
<1>4. SomeoneWaits'
  <2>1. ASSUME NEW p \in Procs, NEW t \in Tokens, inFlight'[p][t] # "none"
        PROVE  \E r \in Requests : pc'[r] = "waiting" /\ req'[r].proc = p /\ req'[r].tok = t
    <3>1. inFlight[p][t] # "none"
      BY <2>1
    <3>2. PICK r \in Requests : pc[r] = "waiting" /\ req[r].proc = p /\ req[r].tok = t
      BY <3>1 DEF OwnInv, SomeoneWaits
    <3>3. r \notin R
      BY <2>1, <3>2
    <3>4. QED
      BY <3>2, <3>3 DEF Dropped
  <2>2. QED
    BY <2>1 DEF SomeoneWaits
<1>5. TableInOrder'
  BY DEF OwnInv, TableInOrder, Dropped
<1>6. TokensInPlay'
  <2>1. ASSUME NEW p \in Procs, NEW t \in Tokens, inFlight'[p][t] \in Tokens
        PROVE  inFlight'[p][t] = inFlight[p][t]
    BY <2>1, SessionAssumption
  <2>2. \A r \in Requests :
          /\ req'[r].tok # None => req'[r].tok = req[r].tok /\ req'[r].who = req[r].who
          /\ req'[r].got # None => req'[r].got = req[r].got /\ req'[r].who = req[r].who
    BY <1>1 DEF Dropped
  <2>3. QED
    BY <2>1, <2>2 DEF OwnInv, TokensInPlay, Dropped
<1>7. QED
  BY <1>2, <1>3, <1>4, <1>5, <1>6 DEF OwnInv

(* What a crash takes with it.                                              *)
Serving(p) == {r \in Requests : pc[r] \in {"load", "waiting"} /\ req[r].proc = p}

(* A lost answer is one request dropped.                                    *)
LEMMA LoseFacts ==
    ASSUME OwnInv, NEW r \in Requests, Lose(r)
    PROVE  Dropped({r}) /\ pc[r] = "answer" /\ inFlight' = inFlight
  BY DropFacts DEF Lose

(* A process that dies drops its requests and forgets its exchanges.        *)
LEMMA CrashFacts ==
    ASSUME OwnInv, NEW p \in Procs, Crash(p)
    PROVE  /\ Dropped(Serving(p))
           /\ inFlight' \in [Procs -> [Tokens -> Exchange]]
           /\ \A t \in Tokens : inFlight'[p][t] = "none"
           /\ \A q \in Procs, t \in Tokens : q # p => inFlight'[q][t] = inFlight[q][t]
<1>1. Dropped(Serving(p))
  BY DropFacts DEF Crash, Serving
<1>2. inFlight' = [inFlight EXCEPT ![p] = [t \in Tokens |-> "none"]]
  BY DEF Crash
<1>3. QED
  BY <1>1, <1>2 DEF OwnInv, TypeInv, Exchange

(* A lost answer gives nobody a token.                                      *)
LEMMA LoseOwn ==
    ASSUME OwnInv, NEW r \in Requests, Lose(r)
    PROVE  OwnInv'
<1>1. Dropped({r}) /\ pc[r] = "answer" /\ inFlight' = inFlight
  BY LoseFacts
<1>2. inFlight' \in [Procs -> [Tokens -> Exchange]]
  BY <1>1 DEF OwnInv, TypeInv
<1>3. \A q \in Requests : pc[q] = "waiting" => inFlight[req[q].proc][req[q].tok] # "none"
  BY DEF OwnInv, RequestsInOrder, InOrder
<1>4. QED
  BY <1>1, <1>2, <1>3, DropOwn

(* A process that dies gives nobody a token.                                *)
LEMMA CrashOwn ==
    ASSUME OwnInv, NEW p \in Procs, Crash(p)
    PROVE  OwnInv'
<1>1. /\ Dropped(Serving(p))
      /\ inFlight' \in [Procs -> [Tokens -> Exchange]]
      /\ \A t \in Tokens : inFlight'[p][t] = "none"
      /\ \A q \in Procs, t \in Tokens : q # p => inFlight'[q][t] = inFlight[q][t]
  BY CrashFacts
<1>2. \A q \in Procs, t \in Tokens : inFlight'[q][t] \in {inFlight[q][t], "none"}
  BY <1>1
<1>3. \A r \in Serving(p), q \in Procs, t \in Tokens :
        pc[r] = "waiting" /\ req[r].proc = q /\ req[r].tok = t => inFlight'[q][t] = "none"
  BY <1>1 DEF Serving
<1>4. ASSUME NEW r \in Requests \ Serving(p), pc[r] = "waiting"
      PROVE  inFlight'[req[r].proc][req[r].tok] # "none"
  <2>1. /\ req[r].proc \in Procs /\ req[r].tok \in Tokens /\ req[r].proc # p
        /\ inFlight[req[r].proc][req[r].tok] # "none"
    BY <1>4 DEF OwnInv, RequestsInOrder, InOrder, Serving
  <2>2. QED
    BY <1>1, <2>1
<1>5. Serving(p) \in SUBSET Requests
  BY DEF Serving
<1>6. QED
  BY <1>1, <1>2, <1>3, <1>4, <1>5, DropOwn

(* The promise settles with what the API said; or fetch throws.             *)
LEMMA ExchangeOwn ==
    ASSUME OwnInv, NEW p \in Procs, NEW t \in Tokens, Settle(p, t) \/ ExchangeFails(p, t)
    PROVE  OwnInv'
<1>1. CASE Settle(p, t)
  <2>1. inFlight[p][t] \in Tokens \cup {None}
    BY <1>1 DEF Settle, OwnInv, TypeInv, Exchange
  <2>2. steady' \subseteq Browsers /\ told' = told /\ out' = out
    BY <1>1 DEF Settle, OwnInv, TypeInv, notes
  <2>3. QED
    BY <1>1, <2>1, <2>2, SettleOwn DEF Settle
<1>2. CASE ExchangeFails(p, t)
  <2>1. steady' \subseteq Browsers
    BY <1>2 DEF ExchangeFails, OwnInv, TypeInv
  <2>2. QED
    BY <1>2, <2>1, SettleOwn DEF ExchangeFails
<1>3. QED
  BY <1>1, <1>2

(* Whatever a browser sends shows only its own token.                       *)
LEMMA SendingOwn ==
    ASSUME OwnInv, NEW r \in Requests, SendLoad(r) \/ SendLogin(r) \/ SendLogout(r)
    PROVE  OwnInv'
<1>1. CASE SendLoad(r)
  <2>1. PICK b \in Browsers, p \in Procs : Send(r, b, "load", p)
    BY <1>1 DEF SendLoad
  <2>2. steady' \subseteq Browsers
    BY <1>1 DEF SendLoad, OwnInv, TypeInv
  <2>3. QED
    BY <2>1, <2>2, SendOwn
<1>2. CASE SendLogin(r)
  <2>1. PICK b \in Browsers : Send(r, b, "login", None) /\ steady' = steady \ {b}
    BY <1>2 DEF SendLogin
  <2>2. steady' \subseteq Browsers
    BY <2>1 DEF OwnInv, TypeInv
  <2>3. QED
    BY <2>1, <2>2, SendOwn
<1>3. CASE SendLogout(r)
  <2>1. PICK b \in Browsers : Send(r, b, "logout", None) /\ steady' = steady \ {b}
    BY <1>3 DEF SendLogout
  <2>2. steady' \subseteq Browsers
    BY <2>1 DEF OwnInv, TypeInv
  <2>3. QED
    BY <2>1, <2>2, SendOwn
<1>4. QED
  BY <1>1, <1>2, <1>3

(* Every step keeps the invariant.                                          *)
LEMMA OwnStep == OwnInv /\ [Next]_vars => OwnInv'
<1> SUFFICES ASSUME OwnInv, [Next]_vars
             PROVE  OwnInv'
  OBVIOUS
<1>1. CASE UNCHANGED vars
  <2>1. UNCHANGED <<jar, issued, family, used, dead, owner, inFlight, pc, req, told, steady, out>>
    BY <1>1 DEF vars, table, notes
  <2>2. QED
    BY <2>1 DEF OwnInv, TypeInv, RequestsInOrder, InOrder, SomeoneWaits, TableInOrder, TokensInPlay
<1>2. CASE \E r \in Requests :
              \/ SendLoad(r) \/ Join(r) \/ StartExchange(r)
              \/ SendLogin(r) \/ ServeLogin(r)
              \/ SendLogout(r) \/ ServeLogout(r) \/ LogoutUnheard(r)
              \/ Receive(r) \/ Lose(r)
  BY <1>2, SendingOwn, JoinOwn, StartOwn, ServeLoginOwn, ServeLogoutOwn, LogoutUnheardOwn,
     ReceiveOwn, LoseOwn
<1>3. CASE \E p \in Procs, t \in Tokens :
              Rotate(p, t) \/ RefuseReuse(p, t) \/ Settle(p, t) \/ ExchangeFails(p, t)
  BY <1>3, RotateOwn, RefuseOwn, ExchangeOwn
<1>4. CASE \E p \in Procs : Crash(p)
  BY <1>4, CrashOwn
<1>5. QED
  BY <1>1, <1>2, <1>3, <1>4, TickOwn DEF Next

(* In every state a token is where its owner has put it, and nowhere else.  *)
THEOREM OwnInvariant == Spec => []OwnInv
  BY OwnInit, OwnStep, PTL DEF Spec

(* No browser is handed a token of another one's login, however many        *)
(* exchanges of however many browsers share a process.                      *)
THEOREM TokensStayTheirOwners == Spec => []OwnTokensOnly
<1>1. OwnInv => OwnTokensOnly
  BY DEF OwnInv, TokensInPlay, OwnTokensOnly
<1>2. QED
  BY <1>1, OwnInvariant, PTL

-----------------------------------------------------------------------------
(* Tokens that have not arrived, or just have.                              *)

(* At the start nothing is old: there are no tokens.                        *)
LEMMA YoungInit == Init => YoungInv
<1>1. Init => OwnInv
  BY OwnInit
<1>2. Init => MintedIsUnseen /\ BroughtIsYoung /\ NoBounce
  BY SessionAssumption
  DEF Init, MintedIsUnseen, BroughtIsYoung, NoBounce, NoRequest, NoCookies
<1>3. QED
  BY <1>1, <1>2 DEF YoungInv

(* Nothing new is minted, spent, brought, carried or stored.                *)
LEMMA YoungKept ==
    ASSUME YoungInv, OwnInv', jar' = jar, told' = told,
           \A t \in Tokens : used'[t] \in {used[t], None},
           \A p \in Procs, t \in Tokens :
                inFlight'[p][t] \in Tokens => inFlight'[p][t] = inFlight[p][t],
           \A r \in Requests :
                /\ req'[r].tok # None => req'[r].tok = req[r].tok /\ req'[r].kind = req[r].kind
                /\ req'[r].got # None => req'[r].got = req[r].got /\ req'[r].age = req[r].age
    PROVE  YoungInv'
<1> USE DEF YoungInv
<1>1. None \notin Tokens
  BY SessionAssumption
<1>2. MintedIsUnseen'
  <2>1. ASSUME NEW p \in Procs, NEW t \in Tokens, NEW s \in Tokens, inFlight'[p][t] = s
        PROVE  Unseen(s)'
    <3>1. inFlight[p][t] = s /\ Unseen(s)
      BY <2>1 DEF MintedIsUnseen
    <3>2. QED
      BY <1>1, <3>1 DEF Unseen
  <2>2. QED
    BY <2>1 DEF MintedIsUnseen, Unseen
<1>3. BroughtIsYoung'
  <2>1. ASSUME NEW r \in Requests, NEW s \in Tokens, NEW age, req'[r].got = s, req'[r].age = age
        PROVE  Young(s, age)'
    <3>1. Young(s, age)
      BY <1>1, <2>1 DEF BroughtIsYoung
    <3>2. QED
      BY <1>1, <3>1 DEF Young
  <2>2. \A r \in Requests : req'[r].got \in Tokens \cup {None}
    BY DEF OwnInv, TypeInv, Request
  <2>3. QED
    BY <2>1, <2>2 DEF BroughtIsYoung, Young
<1>4. NoBounce'
  BY DEF NoBounce
<1>5. QED
  BY <1>2, <1>3, <1>4

(* The invariant, one token at a time.                                      *)
LEMMA YoungWhen ==
    ASSUME OwnInv', NoBounce',
           \A p \in Procs, t \in Tokens, s \in Tokens : inFlight'[p][t] = s =>
                /\ Unseen(s)'
                /\ \A q \in Procs, u \in Tokens : inFlight'[q][u] = s => q = p /\ u = t,
           \A r \in Requests, s \in Tokens : req'[r].got = s =>
                \A age \in 0 .. MaxDelay : req'[r].age = age => Young(s, age)'
    PROVE  YoungInv'
<1>1. MintedIsUnseen'
  BY DEF MintedIsUnseen, Unseen
<1>2. BroughtIsYoung'
  <2>1. \A r \in Requests : req'[r].got \in Tokens \cup {None} /\ req'[r].age \in 0 .. MaxDelay
    BY DEF OwnInv, TypeInv, Request
  <2>2. QED
    BY <2>1 DEF BroughtIsYoung, Young
<1>3. QED
  BY <1>1, <1>2 DEF YoungInv

(* What the invariant says of one token.                                    *)
LEMMA YoungFacts ==
    ASSUME YoungInv
    PROVE  /\ \A p \in Procs, t \in Tokens, s \in Tokens : inFlight[p][t] = s =>
                /\ Unseen(s) /\ s \in issued
                /\ \A q \in Procs, u \in Tokens : inFlight[q][u] = s => q = p /\ u = t
           /\ \A r \in Requests, s \in Tokens : req[r].got = s =>
                /\ pc[r] = "answer" /\ Young(s, req[r].age) /\ req[r].age \in 0 .. MaxDelay
                /\ s \in issued /\ owner[s] = req[r].who
<1>1. None \notin Tokens
  BY SessionAssumption
<1>2. QED
  BY <1>1 DEF YoungInv, MintedIsUnseen, BroughtIsYoung, OwnInv, TypeInv, RequestsInOrder, InOrder,
              TokensInPlay, Request

(* Time passes: the cookie is one older, and so is the answer.              *)
LEMMA TickYoung ==
    ASSUME YoungInv, Tick
    PROVE  YoungInv'
<1>1. Ticked /\ OwnInv'
  BY TickFacts, TickOwn DEF YoungInv
<1>2. None \notin Tokens /\ AccessAge \in Nat /\ MaxDelay \in Nat
  BY SessionAssumption
<1>3. NoBounce'
  BY <1>1 DEF YoungInv, NoBounce, Ticked
<1>4. ASSUME NEW p \in Procs, NEW t \in Tokens, NEW s \in Tokens, inFlight'[p][t] = s
      PROVE  /\ Unseen(s)'
             /\ \A q \in Procs, u \in Tokens : inFlight'[q][u] = s => q = p /\ u = t
  <2>1. /\ Unseen(s)
        /\ \A q \in Procs, u \in Tokens : inFlight[q][u] = s => q = p /\ u = t
    BY <1>1, <1>4, YoungFacts DEF Ticked
  <2>2. QED
    BY <1>1, <2>1 DEF Unseen, Ticked
<1>5. ASSUME NEW r \in Requests, NEW s \in Tokens, req'[r].got = s,
             NEW age \in 0 .. MaxDelay, req'[r].age = age
      PROVE  Young(s, age)'
  <2>1. Young(s, req[r].age) /\ pc[r] = "answer" /\ req[r].age \in 0 .. MaxDelay
    BY <1>1, <1>5, YoungFacts DEF Ticked
  <2>2. age = req[r].age + 1
    BY <1>1, <1>5, <2>1 DEF Ticked
  <2>3. ASSUME NEW b \in Browsers, jar'[b].refresh = s
        PROVE  jar'[b].left + age >= AccessAge
    <3>1. /\ jar[b].left + req[r].age >= AccessAge
          /\ jar[b].left \in 0 .. AccessAge /\ jar'[b].left \in 0 .. AccessAge
          /\ jar'[b].left + 1 >= jar[b].left
      BY <1>1, <2>1, <2>3 DEF Young, Ticked
    <3>2. QED
      BY <1>2, <2>1, <2>2, <3>1
  <2>4. QED
    BY <1>1, <2>1, <2>3 DEF Young, Ticked
<1>6. QED
  BY <1>1, <1>3, <1>4, <1>5, YoungWhen

(* A load is sent only when the access cookie is gone, so not with a token  *)
(* that another answer is still bringing.                                   *)
LEMMA SendYoung ==
    ASSUME YoungInv, OwnInv', NEW r \in Requests, NEW b \in Browsers,
           NEW kind \in {"load", "login", "logout"}, NEW proc, Sent(r, b, kind, proc),
           kind = "load" => jar[b].left = 0
    PROVE  YoungInv'
<1>1. /\ None \notin Tokens /\ AccessAge \in Nat /\ MaxDelay \in Nat /\ MaxDelay < AccessAge
  BY SessionAssumption, LatencyAssumption
<1>2. NoBounce'
  BY DEF YoungInv, NoBounce, Sent
<1>3. ASSUME NEW p \in Procs, NEW t \in Tokens, NEW s \in Tokens, inFlight'[p][t] = s
      PROVE  /\ Unseen(s)'
             /\ \A q \in Procs, u \in Tokens : inFlight'[q][u] = s => q = p /\ u = t
  <2>1. /\ Unseen(s)
        /\ \A q \in Procs, u \in Tokens : inFlight[q][u] = s => q = p /\ u = t
    BY <1>3, YoungFacts DEF Sent
  <2>2. QED
    BY <1>1, <2>1 DEF Unseen, Sent
<1>4. ASSUME NEW q \in Requests, NEW s \in Tokens, req'[q].got = s,
             NEW age \in 0 .. MaxDelay, req'[q].age = age
      PROVE  Young(s, age)'
  <2>1. q # r /\ req[q].got = s /\ req[q].age = age
    BY <1>1, <1>4 DEF Sent
  <2>2. Young(s, age)
    BY <2>1, YoungFacts
  <2>3. req'[r].tok = s => req'[r].kind = "logout"
    <3>1. CASE kind = "load" /\ jar[b].refresh = s
      <4>1. 0 + age >= AccessAge
        BY <2>2, <3>1 DEF Young
      <4>2. QED
        BY <1>1, <4>1
    <3>2. CASE ~(kind = "load" /\ jar[b].refresh = s)
      BY <1>1, <3>2 DEF Sent
    <3>3. QED
      BY <3>1, <3>2
  <2>4. \A o \in Requests : req'[o].tok = s => req'[o].kind = "logout"
    BY <2>2, <2>3 DEF Young, Sent
  <2>5. QED
    BY <2>2, <2>4 DEF Young, Sent
<1>5. QED
  BY <1>2, <1>3, <1>4, YoungWhen

(* An exchange has settled: what it brought was nowhere, and is not yet in  *)
(* a cookie.                                                                *)
LEMMA SettleYoung ==
    ASSUME YoungInv, NEW p \in Procs, NEW t \in Tokens, Settle(p, t), OwnInv'
    PROVE  YoungInv'
<1> DEFINE R == WaitingFor(p, t)
           n == inFlight[p][t]
<1>1. /\ None \notin Tokens /\ "none" \notin Tokens /\ "asked" \notin Tokens
      /\ n # "none" /\ n # "asked"
  BY SessionAssumption DEF Settle
<1>2. n \in Tokens \cup {None}
  BY <1>1 DEF YoungInv, OwnInv, TypeInv, Exchange
<1>3. R \in SUBSET Requests
  BY DEF WaitingFor
<1>4. Answered(R, n)
  BY <1>2, <1>3, AnswerFacts DEF Settle, YoungInv
<1>5. /\ inFlight'[p][t] = "none"
      /\ \A q \in Procs, u \in Tokens : q # p \/ u # t => inFlight'[q][u] = inFlight[q][u]
      /\ jar' = jar /\ told' = told /\ used' = used
  BY DEF Settle, YoungInv, OwnInv, TypeInv, table, notes
<1> HIDE DEF R, n
<1>6. NoBounce'
  BY <1>5 DEF YoungInv, NoBounce
<1>7. ASSUME NEW q \in Procs, NEW u \in Tokens, NEW s \in Tokens, inFlight'[q][u] = s
      PROVE  /\ Unseen(s)'
             /\ \A o \in Procs, v \in Tokens : inFlight'[o][v] = s => o = q /\ v = u
  <2>1. (q # p \/ u # t) /\ inFlight[q][u] = s
    BY <1>1, <1>5, <1>7
  <2>2. /\ Unseen(s)
        /\ \A o \in Procs, v \in Tokens : inFlight[o][v] = s => o = q /\ v = u
    BY <2>1, YoungFacts
  <2>3. n # s
    BY <2>1, <2>2 DEF n
  <2>4. \A o \in Requests : req'[o].tok # s /\ req'[o].got # s
    BY <1>1, <1>4, <2>2, <2>3 DEF Unseen, Answered
  <2>5. \A o \in Procs, v \in Tokens : inFlight'[o][v] = s => inFlight[o][v] = s
    BY <1>1, <1>5
  <2>6. QED
    BY <1>5, <2>2, <2>4, <2>5 DEF Unseen
<1>8. ASSUME NEW r \in Requests, NEW s \in Tokens, req'[r].got = s,
             NEW age \in 0 .. MaxDelay, req'[r].age = age
      PROVE  Young(s, age)'
  <2>1. ASSUME NEW q \in Requests
        PROVE  /\ req'[q].kind = req[q].kind
               /\ req'[q].tok = s => req[q].tok = s
    BY <1>1, <1>4 DEF Answered
  <2>2. CASE r \in R
    <3>1. n = s /\ Unseen(s)
      BY <1>4, <1>8, <2>2, YoungFacts DEF Answered, n
    <3>2. QED
      BY <1>5, <2>1, <3>1 DEF Unseen, Young
  <2>3. CASE r \notin R
    <3>1. Young(s, age)
      BY <1>4, <1>8, <2>3, YoungFacts DEF Answered
    <3>2. QED
      BY <1>5, <2>1, <3>1 DEF Young
  <2>4. QED
    BY <2>2, <2>3
<1>9. QED
  BY <1>6, <1>7, <1>8, YoungWhen

(* What is spent is carried, so it is not a token that is still young.      *)
LEMMA RotateYoung ==
    ASSUME YoungInv, NEW p \in Procs, NEW t \in Tokens, Rotate(p, t), OwnInv'
    PROVE  YoungInv'
<1>1. PICK n \in Tokens : Rotated(p, t, n)
  BY RotateFacts DEF YoungInv
<1>2. "asked" # "none" /\ "asked" \notin Tokens /\ None \notin Tokens
  BY SessionAssumption
<1>3. /\ t \in issued
      /\ \E r \in Requests : req[r].tok = t /\ req[r].kind = "load"
  BY <1>1, <1>2, ExchangedIsIssued DEF Rotated, YoungInv
<1>4. n \notin issued
  BY <1>1 DEF Rotated, Mint
<1>5. /\ Unseen(n) /\ \A q \in Procs, u \in Tokens : inFlight[q][u] # n
  BY <1>2, <1>4 DEF YoungInv, OwnInv, TableInOrder, TokensInPlay, Unseen
<1>6. NoBounce'
  BY <1>1 DEF YoungInv, NoBounce, Rotated
<1>7. ASSUME NEW q \in Procs, NEW u \in Tokens, NEW s \in Tokens, inFlight'[q][u] = s
      PROVE  /\ Unseen(s)'
             /\ \A o \in Procs, v \in Tokens : inFlight'[o][v] = s => o = q /\ v = u
  <2>1. CASE q = p /\ u = t
    <3>1. s = n /\ n # t
      BY <1>1, <1>3, <1>4, <1>7, <2>1 DEF Rotated
    <3>2. Unseen(s)'
      BY <1>1, <1>5, <3>1 DEF Unseen, Rotated
    <3>3. \A o \in Procs, v \in Tokens : inFlight'[o][v] = s => o = q /\ v = u
      BY <1>1, <1>5, <2>1, <3>1 DEF Rotated
    <3>4. QED
      BY <3>2, <3>3
  <2>2. CASE q # p \/ u # t
    <3>1. inFlight[q][u] = s
      BY <1>1, <1>7, <2>2 DEF Rotated
    <3>2. /\ Unseen(s)
          /\ \A o \in Procs, v \in Tokens : inFlight[o][v] = s => o = q /\ v = u
      BY <3>1, YoungFacts
    <3>3. s # t /\ s # n
      BY <1>3, <1>5, <3>1, <3>2 DEF Unseen
    <3>4. Unseen(s)'
      BY <1>1, <3>2, <3>3 DEF Unseen, Rotated
    <3>5. \A o \in Procs, v \in Tokens : inFlight'[o][v] = s => inFlight[o][v] = s
      BY <1>1, <3>3 DEF Rotated
    <3>6. QED
      BY <3>2, <3>4, <3>5
  <2>3. QED
    BY <2>1, <2>2
<1>8. ASSUME NEW r \in Requests, NEW s \in Tokens, req'[r].got = s,
             NEW age \in 0 .. MaxDelay, req'[r].age = age
      PROVE  Young(s, age)'
  <2>1. Young(s, age)
    BY <1>1, <1>8, YoungFacts DEF Rotated
  <2>2. s # t
    BY <1>3, <2>1 DEF Young
  <2>3. QED
    BY <1>1, <2>1, <2>2 DEF Young, Rotated
<1>9. QED
  BY <1>6, <1>7, <1>8, YoungWhen

(* The token of a login has been presented by nobody.                       *)
LEMMA ServeLoginYoung ==
    ASSUME YoungInv, NEW r \in Requests, ServeLogin(r), OwnInv'
    PROVE  YoungInv'
<1>1. PICK n \in Tokens : Mint(n, n, req[r].who) /\ Answer({r}, n)
  BY DEF ServeLogin
<1>2. /\ Answered({r}, n) /\ None \notin Tokens /\ "none" \notin Tokens
      /\ jar' = jar /\ told' = told /\ used' = used /\ inFlight' = inFlight
  BY <1>1, SessionAssumption, AnswerFacts DEF YoungInv, ServeLogin, notes
<1>3. n \notin issued
  BY <1>1 DEF Mint
<1>4. Unseen(n) /\ \A q \in Procs, u \in Tokens : inFlight[q][u] # n
  BY <1>2, <1>3 DEF YoungInv, OwnInv, TableInOrder, TokensInPlay, Unseen
<1>5. NoBounce'
  BY <1>2 DEF YoungInv, NoBounce
<1>6. ASSUME NEW q \in Requests, NEW s \in Tokens
      PROVE  /\ req'[q].kind = req[q].kind
             /\ req'[q].tok = s => req[q].tok = s
             /\ req'[q].got = s => (q # r /\ req[q].got = s /\ req'[q].age = req[q].age)
                                   \/ (q = r /\ s = n)
  BY <1>2 DEF Answered
<1>7. ASSUME NEW p \in Procs, NEW t \in Tokens, NEW s \in Tokens, inFlight'[p][t] = s
      PROVE  /\ Unseen(s)'
             /\ \A q \in Procs, u \in Tokens : inFlight'[q][u] = s => q = p /\ u = t
  <2>1. /\ Unseen(s)
        /\ \A q \in Procs, u \in Tokens : inFlight[q][u] = s => q = p /\ u = t
    BY <1>2, <1>7, YoungFacts
  <2>2. s # n
    BY <1>2, <1>4, <1>7
  <2>3. QED
    BY <1>2, <1>6, <2>1, <2>2 DEF Unseen
<1>8. ASSUME NEW q \in Requests, NEW s \in Tokens, req'[q].got = s,
             NEW age \in 0 .. MaxDelay, req'[q].age = age
      PROVE  Young(s, age)'
  <2>1. CASE q = r
    <3>1. s = n
      BY <1>6, <1>8, <2>1
    <3>2. QED
      BY <1>2, <1>4, <1>6, <3>1 DEF Unseen, Young
  <2>2. CASE q # r
    <3>1. Young(s, age)
      BY <1>6, <1>8, <2>2, YoungFacts
    <3>2. QED
      BY <1>2, <1>6, <3>1 DEF Young
  <2>3. QED
    BY <2>1, <2>2
<1>9. QED
  BY <1>5, <1>7, <1>8, YoungWhen

(* A token arrives with an access cookie that outlives the other answers    *)
(* that bring it.                                                           *)
LEMMA ReceiveYoung ==
    ASSUME YoungInv, NEW r \in Requests, Receive(r), OwnInv'
    PROVE  YoungInv'
<1>1. Received(r) /\ req[r].who \in Browsers
  BY ReceiveFacts DEF YoungInv, Received
<1>2. /\ None \notin Tokens /\ AccessAge \in Nat /\ MaxDelay \in Nat
      /\ NoRequest.tok = None /\ NoRequest.got = None /\ NoRequest.kind = "load"
  BY SessionAssumption DEF NoRequest
<1>3. ASSUME NEW q \in Requests, NEW s \in Tokens
      PROVE  /\ req'[q].tok = s => req[q].tok = s /\ req'[q].kind = req[q].kind
             /\ req'[q].got = s => q # r /\ req[q].got = s /\ req'[q].age = req[q].age
  BY <1>1, <1>2 DEF Received
<1>4. ASSUME NEW b \in Browsers, NEW s \in Tokens, jar'[b].refresh = s
      PROVE  jar[b].refresh = s \/ (req[r].got = s /\ b = req[r].who /\ jar'[b].left = AccessAge)
  BY <1>1, <1>2, <1>4 DEF Received
<1>5. ASSUME NEW b \in Browsers, NEW s \in Tokens, s \in told'[b]
      PROVE  s \in told[b] \/ (req[r].tok = s /\ req[r].kind = "load" /\ req[r].got = None)
  BY <1>1, <1>5 DEF Received
<1>6. NoBounce'
  <2>1. ASSUME NEW b \in Browsers
        PROVE  jar'[b].refresh \notin told'[b]
    <3>1. CASE b = req[r].who /\ req[r].got = None
      BY <1>1, <1>2, <3>1 DEF Received
    <3>2. CASE b = req[r].who /\ req[r].got # None
      <4>1. req[r].got \in Tokens
        BY <3>2 DEF YoungInv, OwnInv, TypeInv, Request
      <4>2. req[r].got \notin told[b]
        BY <4>1, YoungFacts DEF Young
      <4>3. QED
        BY <1>1, <3>2, <4>2 DEF Received
    <3>3. CASE b # req[r].who
      BY <1>1, <3>3 DEF Received, YoungInv, NoBounce
    <3>4. QED
      BY <3>1, <3>2, <3>3
  <2>2. QED
    BY <2>1 DEF NoBounce
<1>7. ASSUME NEW p \in Procs, NEW t \in Tokens, NEW s \in Tokens, inFlight'[p][t] = s
      PROVE  /\ Unseen(s)'
             /\ \A q \in Procs, u \in Tokens : inFlight'[q][u] = s => q = p /\ u = t
  <2>1. inFlight' = inFlight /\ used' = used
    BY <1>1 DEF Received
  <2>2. /\ Unseen(s)
        /\ \A q \in Procs, u \in Tokens : inFlight[q][u] = s => q = p /\ u = t
    BY <1>7, <2>1, YoungFacts
  <2>3. QED
    BY <1>3, <1>4, <1>5, <2>1, <2>2 DEF Unseen
<1>8. ASSUME NEW q \in Requests, NEW s \in Tokens, req'[q].got = s,
             NEW age \in 0 .. MaxDelay, req'[q].age = age
      PROVE  Young(s, age)'
  <2>1. Young(s, age) /\ used' = used
    BY <1>1, <1>3, <1>8, YoungFacts DEF Received
  <2>2. ASSUME NEW b \in Browsers
        PROVE  /\ s \notin told'[b]
               /\ jar'[b].refresh = s => jar'[b].left + age >= AccessAge
    <3>1. s \notin told'[b]
      BY <1>5, <2>1 DEF Young
    <3>2. ASSUME jar'[b].refresh = s
          PROVE  jar'[b].left + age >= AccessAge
      <4>1. CASE b = req[r].who
        BY <1>1, <1>2, <3>2, <4>1 DEF Received
      <4>2. CASE b # req[r].who
        BY <1>1, <2>1, <3>2, <4>2 DEF Received, Young
      <4>3. QED
        BY <4>1, <4>2
    <3>3. QED
      BY <3>1, <3>2
  <2>3. QED
    BY <1>3, <2>1, <2>2 DEF Young
<1>9. QED
  BY <1>6, <1>7, <1>8, YoungWhen

(* The steps that bring, spend and store nothing.                           *)
LEMMA QuietYoung ==
    ASSUME YoungInv, OwnInv', NEW r \in Requests,
           Join(r) \/ StartExchange(r) \/ ServeLogout(r) \/ LogoutUnheard(r) \/ Lose(r)
    PROVE  YoungInv'
<1> USE DEF YoungInv
<1>1. /\ None \notin Tokens /\ "asked" \notin Tokens
      /\ NoRequest.tok = None /\ NoRequest.got = None
  BY SessionAssumption DEF NoRequest
<1>2. CASE Join(r) \/ LogoutUnheard(r)
  <2>1. jar' = jar /\ told' = told /\ used' = used /\ inFlight' = inFlight
    BY <1>2 DEF Join, LogoutUnheard, table, notes
  <2>2. req[r] \in Request
    BY DEF OwnInv, TypeInv
  <2>3. ASSUME NEW q \in Requests
        PROVE  /\ req'[q].tok # None => req'[q].tok = req[q].tok /\ req'[q].kind = req[q].kind
               /\ req'[q].got # None => req'[q].got = req[q].got /\ req'[q].age = req[q].age
    <3>1. CASE Join(r)
      <4>1. PICK u \in Joinable(req[r].proc, req[r].tok) : req' = [req EXCEPT ![r].entry = u]
        BY <3>1 DEF Join
      <4>2. QED
        BY <2>2, <4>1 DEF OwnInv, TypeInv, Request
    <3>2. CASE LogoutUnheard(r)
      BY <2>2, <3>2 DEF LogoutUnheard, OwnInv, TypeInv, Request
    <3>3. QED
      BY <1>2, <3>1, <3>2
  <2>4. QED
    BY <2>1, <2>3, YoungKept
<1>3. CASE StartExchange(r)
  <2>1. Started(r)
    BY <1>3, StartFacts
  <2>2. ASSUME NEW p \in Procs, NEW t \in Tokens, inFlight'[p][t] \in Tokens
        PROVE  inFlight'[p][t] = inFlight[p][t]
    BY <1>1, <2>1, <2>2 DEF Started
  <2>3. /\ jar' = jar /\ told' = told /\ used' = used
        /\ \A q \in Requests :
            /\ req'[q].tok # None => req'[q].tok = req[q].tok /\ req'[q].kind = req[q].kind
            /\ req'[q].got # None => req'[q].got = req[q].got /\ req'[q].age = req[q].age
    BY <2>1 DEF Started
  <2>4. QED
    BY <2>2, <2>3, YoungKept
<1>4. CASE ServeLogout(r)
  <2>1. LogoutHeard(r)
    BY <1>4, LogoutFacts
  <2>2. /\ jar' = jar /\ told' = told /\ inFlight' = inFlight
        /\ \A t \in Tokens : used'[t] \in {used[t], None}
        /\ \A q \in Requests :
            /\ req'[q].tok # None => req'[q].tok = req[q].tok /\ req'[q].kind = req[q].kind
            /\ req'[q].got # None => req'[q].got = req[q].got /\ req'[q].age = req[q].age
    BY <2>1 DEF LogoutHeard, Answered, Revoked
  <2>3. QED
    BY <2>2, YoungKept
<1>5. CASE Lose(r)
  <2>1. Dropped({r}) /\ inFlight' = inFlight
    BY <1>5, LoseFacts
  <2>2. /\ jar' = jar /\ told' = told /\ used' = used
        /\ \A q \in Requests :
            /\ req'[q].tok # None => req'[q].tok = req[q].tok /\ req'[q].kind = req[q].kind
            /\ req'[q].got # None => req'[q].got = req[q].got /\ req'[q].age = req[q].age
    BY <1>1, <2>1 DEF Dropped
  <2>3. QED
    BY <2>1, <2>2, YoungKept
<1>6. QED
  BY <1>2, <1>3, <1>4, <1>5

(* An exchange that is refused, or fails, brings no token.                  *)
LEMMA QuietExchangeYoung ==
    ASSUME YoungInv, OwnInv', NEW p \in Procs, NEW t \in Tokens,
           RefuseReuse(p, t) \/ ExchangeFails(p, t)
    PROVE  YoungInv'
<1> USE DEF YoungInv
<1>1. /\ None \notin Tokens /\ "none" \notin Tokens
      /\ NoRequest.tok = None /\ NoRequest.got = None
  BY SessionAssumption DEF NoRequest
<1>2. CASE RefuseReuse(p, t)
  <2>1. Refused(p, t)
    BY <1>2, RefuseFacts
  <2>2. ASSUME NEW q \in Procs, NEW u \in Tokens, inFlight'[q][u] \in Tokens
        PROVE  inFlight'[q][u] = inFlight[q][u]
    BY <1>1, <2>1, <2>2 DEF Refused
  <2>3. /\ jar' = jar /\ told' = told /\ req' = req
        /\ \A u \in Tokens : used'[u] \in {used[u], None}
    BY <2>1 DEF Refused, Revoked
  <2>4. QED
    BY <2>2, <2>3, YoungKept
<1>3. CASE ExchangeFails(p, t)
  <2>1. Answered(WaitingFor(p, t), None)
    BY <1>3, AnswerFacts DEF ExchangeFails, WaitingFor
  <2>2. /\ jar' = jar /\ told' = told /\ used' = used
        /\ inFlight' = [inFlight EXCEPT ![p][t] = "none"]
    BY <1>3 DEF ExchangeFails, table
  <2>3. ASSUME NEW q \in Procs, NEW u \in Tokens, inFlight'[q][u] \in Tokens
        PROVE  inFlight'[q][u] = inFlight[q][u]
    BY <1>1, <2>2, <2>3 DEF OwnInv, TypeInv
  <2>4. \A q \in Requests :
          /\ req'[q].tok # None => req'[q].tok = req[q].tok /\ req'[q].kind = req[q].kind
          /\ req'[q].got # None => req'[q].got = req[q].got /\ req'[q].age = req[q].age
    BY <2>1 DEF Answered
  <2>5. QED
    BY <2>2, <2>3, <2>4, YoungKept
<1>4. QED
  BY <1>2, <1>3

(* A process that dies brings no token and ages none.                       *)
LEMMA CrashYoung ==
    ASSUME YoungInv, OwnInv', NEW p \in Procs, Crash(p)
    PROVE  YoungInv'
<1> USE DEF YoungInv
<1>1. /\ None \notin Tokens /\ "none" \notin Tokens
      /\ NoRequest.tok = None /\ NoRequest.got = None
  BY SessionAssumption DEF NoRequest
<1>2. /\ Dropped(Serving(p))
      /\ \A u \in Tokens : inFlight'[p][u] = "none"
      /\ \A q \in Procs, u \in Tokens : q # p => inFlight'[q][u] = inFlight[q][u]
  BY CrashFacts
<1>3. ASSUME NEW q \in Procs, NEW u \in Tokens, inFlight'[q][u] \in Tokens
      PROVE  inFlight'[q][u] = inFlight[q][u]
  BY <1>1, <1>2, <1>3
<1>4. /\ jar' = jar /\ told' = told /\ used' = used
      /\ \A q \in Requests :
          /\ req'[q].tok # None => req'[q].tok = req[q].tok /\ req'[q].kind = req[q].kind
          /\ req'[q].got # None => req'[q].got = req[q].got /\ req'[q].age = req[q].age
  BY <1>1, <1>2 DEF Dropped
<1>5. QED
  BY <1>3, <1>4, YoungKept

(* What is sent presents no token that is still on its way.                 *)
LEMMA SendingYoung ==
    ASSUME YoungInv, OwnInv', NEW r \in Requests, SendLoad(r) \/ SendLogin(r) \/ SendLogout(r)
    PROVE  YoungInv'
<1> USE DEF YoungInv
<1>1. CASE SendLoad(r)
  <2>1. PICK b \in Browsers, p \in Procs : jar[b].left = 0 /\ Send(r, b, "load", p)
    BY <1>1 DEF SendLoad
  <2>2. Sent(r, b, "load", p)
    BY <2>1, SendFacts
  <2>3. QED
    BY <2>1, <2>2, SendYoung
<1>2. CASE SendLogin(r)
  <2>1. PICK b \in Browsers : Send(r, b, "login", None)
    BY <1>2 DEF SendLogin
  <2>2. Sent(r, b, "login", None)
    BY <2>1, SendFacts
  <2>3. QED
    BY <2>2, SendYoung
<1>3. CASE SendLogout(r)
  <2>1. PICK b \in Browsers : Send(r, b, "logout", None)
    BY <1>3 DEF SendLogout
  <2>2. Sent(r, b, "logout", None)
    BY <2>1, SendFacts
  <2>3. QED
    BY <2>2, SendYoung
<1>4. QED
  BY <1>1, <1>2, <1>3

(* Every step keeps tokens on their way too young to be exchanged.          *)
LEMMA YoungStep == YoungInv /\ [Next]_vars => YoungInv'
<1> SUFFICES ASSUME YoungInv, [Next]_vars
             PROVE  YoungInv'
  OBVIOUS
<1>1. OwnInv'
  BY OwnStep DEF YoungInv
<1>2. CASE UNCHANGED vars
  <2>1. /\ jar' = jar /\ told' = told /\ used' = used /\ inFlight' = inFlight /\ req' = req
    BY <1>2 DEF vars, table, notes
  <2>2. QED
    BY <1>1, <2>1, YoungKept
<1>3. CASE \E r \in Requests :
              \/ SendLoad(r) \/ Join(r) \/ StartExchange(r)
              \/ SendLogin(r) \/ ServeLogin(r)
              \/ SendLogout(r) \/ ServeLogout(r) \/ LogoutUnheard(r)
              \/ Receive(r) \/ Lose(r)
  BY <1>1, <1>3, SendingYoung, QuietYoung, ServeLoginYoung, ReceiveYoung
<1>4. CASE \E p \in Procs, t \in Tokens :
              Rotate(p, t) \/ RefuseReuse(p, t) \/ Settle(p, t) \/ ExchangeFails(p, t)
  BY <1>1, <1>4, RotateYoung, SettleYoung, QuietExchangeYoung
<1>5. CASE \E p \in Procs : Crash(p)
  BY <1>1, <1>5, CrashYoung
<1>6. QED
  BY <1>2, <1>3, <1>4, <1>5, TickYoung DEF Next

(* In every state a token on its way is too young to be exchanged.          *)
THEOREM YoungInvariant == Spec => []YoungInv
  BY YoungInit, YoungStep, PTL DEF Spec

(* A browser that was told a token is refused never holds that token again: *)
(* an answer that crosses the refusal cannot bring it back.                 *)
THEOREM RefusedTokensStayGone == Spec => []NoBounce
<1>1. YoungInv => NoBounce
  BY DEF YoungInv
<1>2. QED
  BY <1>1, YoungInvariant, PTL

-----------------------------------------------------------------------------
(* Logouts.                                                                 *)

(* At the start nobody has signed out.                                      *)
LEMMA OutInit == Init => OutInv
<1>1. Init => LogoutIsFinal
  BY DEF Init, LogoutIsFinal
<1>2. QED
  BY <1>1 DEF Init, OutInv

(* No cookie changes, and what requests carry and bring they had, got with  *)
(* the cookies, or were given by an exchange or a login.                    *)
LEMMA OutKept ==
    ASSUME OwnInv, OutInv, OwnInv', out' = out, dead \subseteq dead',
           \A b \in Browsers : jar'[b].refresh = jar[b].refresh,
           \A t \in issued : family'[t] = family[t],
           \A q \in Requests : req'[q].tok # None =>
                \/ /\ req'[q].tok = req[q].tok /\ req'[q].who = req[q].who
                   /\ pc'[q] = "answer" /\ req'[q].kind = "logout" =>
                        pc[q] = "answer" /\ req[q].kind = "logout"
                \/ req'[q].tok = jar[req'[q].who].refresh /\ pc'[q] # "answer"
                \/ family'[req'[q].tok] \in dead',
           \A q \in Requests : req'[q].got # None =>
                \/ /\ req'[q].got = req[q].got /\ req'[q].who = req[q].who
                   /\ req'[q].kind = req[q].kind
                \/ req'[q].kind = "login"
                \/ /\ req[q].tok # None /\ req'[q].who = req[q].who
                   /\ family'[req'[q].got] = family[req[q].tok]
    PROVE  OutInv'
<1>1. /\ \A q \in Requests : /\ req[q].tok # None => req[q].tok \in issued
                             /\ req[q].got # None => req[q].got \in issued
      /\ \A b \in out : /\ b \in Browsers
                        /\ jar[b].refresh # None => /\ jar[b].refresh \in issued
                                                    /\ family[jar[b].refresh] \in dead
  BY DEF OwnInv, TypeInv, TokensInPlay, OutInv, LogoutIsFinal
<1>2. LogoutIsFinal'
  <2>1. ASSUME NEW b \in out, jar[b].refresh # None
        PROVE  family'[jar[b].refresh] \in dead'
    <3>1. jar[b].refresh \in issued /\ family[jar[b].refresh] \in dead
      BY <1>1, <2>1
    <3>2. family'[jar[b].refresh] = family[jar[b].refresh]
      BY <3>1
    <3>3. QED
      BY <3>1, <3>2
  <2>2. QED
    BY <1>1, <2>1 DEF LogoutIsFinal
<1>3. ASSUME NEW q \in Requests, req'[q].tok # None,
             (pc'[q] = "answer" /\ req'[q].kind = "logout") \/ req'[q].who \in out
      PROVE  family'[req'[q].tok] \in dead'
  <2>1. CASE /\ req'[q].tok = req[q].tok /\ req'[q].who = req[q].who
             /\ pc'[q] = "answer" /\ req'[q].kind = "logout" =>
                    pc[q] = "answer" /\ req[q].kind = "logout"
    <3>1. family[req[q].tok] \in dead /\ req[q].tok \in issued
      BY <1>1, <1>3, <2>1 DEF OutInv
    <3>2. family'[req[q].tok] = family[req[q].tok]
      BY <3>1
    <3>3. QED
      BY <2>1, <3>1, <3>2
  <2>2. CASE req'[q].tok = jar[req'[q].who].refresh /\ pc'[q] # "answer"
    BY <1>1, <1>2, <1>3, <2>2 DEF LogoutIsFinal
  <2>3. CASE family'[req'[q].tok] \in dead'
    BY <2>3
  <2>4. QED
    BY <1>3, <2>1, <2>2, <2>3
<1>4. ASSUME NEW q \in Requests, req'[q].who \in out, req'[q].got # None, req'[q].kind # "login"
      PROVE  family'[req'[q].got] \in dead'
  BY <1>1, <1>4 DEF OutInv
<1>5. QED
  BY <1>2, <1>3, <1>4 DEF OutInv

(* What crosses a logout is of its family, or the browser is not out.       *)
LEMMA ReceiveOut ==
    ASSUME OwnInv, OutInv, NEW r \in Requests, Receive(r)
    PROVE  OutInv'
<1>1. /\ Received(r) /\ pc[r] = "answer" /\ req[r].who \in Browsers
      /\ out' \subseteq Browsers /\ family' = family /\ dead' = dead
  BY ReceiveFacts DEF Received
<1>2. NoRequest.tok = None /\ NoRequest.got = None /\ NoRequest.kind = "load"
  BY DEF NoRequest
<1>3. ASSUME NEW b \in out', NEW q \in Requests, q # r, req[q].who = b
      PROVE  /\ req[q].tok # None => family[req[q].tok] \in dead
             /\ req[q].got # None /\ req[q].kind # "login" => family[req[q].got] \in dead
  <2>1. CASE b \in out
    BY <1>3, <2>1 DEF OutInv
  <2>2. CASE b \notin out
    <3>1. /\ b = req[r].who /\ req[r].kind = "logout"
          /\ \A t \in Crossing(r) : req[r].tok # None /\ family[t] = family[req[r].tok]
      BY <1>1, <2>2 DEF Received
    <3>2. q \in UnderWay(req[r].who) \ {r}
      BY <1>3, <3>1 DEF UnderWay
    <3>3. ASSUME NEW t \in {req[q].tok, req[q].got}, t # None
          PROVE  t \in Crossing(r)
      <4>1. {req[q].tok, req[q].got} \in
                {{req[o].tok, req[o].got} : o \in UnderWay(req[r].who) \ {r}}
        BY <3>2
      <4>2. t \in UNION {{req[o].tok, req[o].got} : o \in UnderWay(req[r].who) \ {r}}
        BY <4>1
      <4>3. QED
        BY <3>3, <4>2 DEF Crossing
    <3>4. req[r].tok # None => family[req[r].tok] \in dead
      BY <1>1, <3>1 DEF OutInv
    <3>5. QED
      BY <3>1, <3>3, <3>4
  <2>3. QED
    BY <2>1, <2>2
<1>4. ASSUME NEW b \in out', jar'[b].refresh # None
      PROVE  family[jar'[b].refresh] \in dead
  <2>1. CASE b = req[r].who
    <3>1. jar'[b].refresh = req[r].got
      BY <1>1, <2>1 DEF Received
    <3>2. req[r].kind = "logout" => req[r].got = None
      BY DEF OwnInv, RequestsInOrder, InOrder
    <3>3. b \in out /\ req[r].kind # "login"
      BY <1>1, <1>4, <2>1, <3>1, <3>2 DEF Received
    <3>4. QED
      BY <1>4, <2>1, <3>1, <3>3 DEF OutInv
  <2>2. CASE b # req[r].who
    <3>1. b \in out /\ jar'[b] = jar[b]
      BY <1>1, <2>2 DEF Received
    <3>2. QED
      BY <1>4, <3>1 DEF OutInv, LogoutIsFinal
  <2>3. QED
    BY <2>1, <2>2
<1>5. /\ req'[r] = NoRequest /\ pc'[r] = "idle"
      /\ \A q \in Requests : q # r => req'[q] = req[q] /\ pc'[q] = pc[q]
  BY <1>1 DEF Received
<1>6. LogoutIsFinal'
  BY <1>1, <1>4 DEF LogoutIsFinal
<1>7. \A q \in Requests :
        pc'[q] = "answer" /\ req'[q].kind = "logout" /\ req'[q].tok # None =>
            family'[req'[q].tok] \in dead'
  BY <1>1, <1>2, <1>5 DEF OutInv
<1>8. \A q \in Requests : req'[q].who \in out' =>
        /\ req'[q].tok # None => family'[req'[q].tok] \in dead'
        /\ req'[q].got # None /\ req'[q].kind # "login" => family'[req'[q].got] \in dead'
  BY <1>1, <1>2, <1>3, <1>5
<1>9. QED
  BY <1>6, <1>7, <1>8 DEF OutInv

(* A request sent carries what the cookies hold.                            *)
LEMMA SendOut ==
    ASSUME OwnInv, OutInv, OwnInv', NEW r \in Requests, NEW b \in Browsers,
           NEW kind \in {"load", "login", "logout"}, NEW proc, Sent(r, b, kind, proc)
    PROVE  OutInv'
<1>1. /\ jar' = jar /\ out' = out /\ dead' = dead /\ family' = family
  BY DEF Sent
<1>2. ASSUME NEW q \in Requests
      PROVE  /\ req'[q].tok # None =>
                \/ /\ req'[q].tok = req[q].tok /\ req'[q].who = req[q].who
                   /\ pc'[q] = "answer" /\ req'[q].kind = "logout" =>
                        pc[q] = "answer" /\ req[q].kind = "logout"
                \/ req'[q].tok = jar[req'[q].who].refresh /\ pc'[q] # "answer"
             /\ req'[q].got # None => /\ req'[q].got = req[q].got /\ req'[q].who = req[q].who
                                      /\ req'[q].kind = req[q].kind
  <2>1. CASE q = r
    BY <2>1 DEF Sent
  <2>2. CASE q # r
    BY <2>2 DEF Sent
  <2>3. QED
    BY <2>1, <2>2
<1>3. QED
  BY <1>1, <1>2, OutKept

(* What a signed-out browser sends has no token of the session it left.     *)
LEMMA SendingOut ==
    ASSUME OwnInv, OutInv, OwnInv', NEW r \in Requests,
           SendLoad(r) \/ SendLogin(r) \/ SendLogout(r)
    PROVE  OutInv'
<1>1. CASE SendLoad(r)
  <2>1. PICK b \in Browsers, p \in Procs : Send(r, b, "load", p)
    BY <1>1 DEF SendLoad
  <2>2. QED
    BY <2>1, SendFacts, SendOut
<1>2. CASE SendLogin(r)
  <2>1. PICK b \in Browsers : Send(r, b, "login", None)
    BY <1>2 DEF SendLogin
  <2>2. QED
    BY <2>1, SendFacts, SendOut
<1>3. CASE SendLogout(r)
  <2>1. PICK b \in Browsers : Send(r, b, "logout", None)
    BY <1>3 DEF SendLogout
  <2>2. QED
    BY <2>1, SendFacts, SendOut
<1>4. QED
  BY <1>1, <1>2, <1>3

(* Steps that leave each request what it has, or less.                      *)
LEMMA QuietOut ==
    ASSUME OwnInv, OutInv, OwnInv', out' = out, dead \subseteq dead', family' = family,
           \A b \in Browsers : jar'[b].refresh = jar[b].refresh,
           \A q \in Requests :
                /\ req'[q].tok # None =>
                    /\ req'[q].tok = req[q].tok /\ req'[q].who = req[q].who
                    /\ pc'[q] = "answer" /\ req'[q].kind = "logout" =>
                            pc[q] = "answer" /\ req[q].kind = "logout"
                /\ req'[q].got # None =>
                    /\ req'[q].got = req[q].got /\ req'[q].who = req[q].who
                    /\ req'[q].kind = req[q].kind
    PROVE  OutInv'
<1>1. \A t \in issued : family'[t] = family[t]
  OBVIOUS
<1>2. QED
  BY <1>1, OutKept

(* Until an answer arrives, requests bring a browser that is out nothing.   *)
LEMMA RequestOut ==
    ASSUME OwnInv, OutInv, OwnInv', NEW r \in Requests,
           \/ Join(r) \/ StartExchange(r) \/ ServeLogin(r)
           \/ ServeLogout(r) \/ LogoutUnheard(r) \/ Lose(r)
    PROVE  OutInv'
<1>1. NoRequest.tok = None /\ NoRequest.got = None
  BY DEF NoRequest
<1>2. CASE Join(r) \/ LogoutUnheard(r)
  <2>1. jar' = jar /\ out' = out /\ dead' = dead /\ family' = family
    BY <1>2 DEF Join, LogoutUnheard, table, notes
  <2>2. req[r] \in Request /\ (pc[r] = "load" => req[r].kind = "load")
    BY DEF OwnInv, TypeInv, RequestsInOrder, InOrder
  <2>3. ASSUME NEW q \in Requests
        PROVE  /\ req'[q].tok # None =>
                    /\ req'[q].tok = req[q].tok /\ req'[q].who = req[q].who
                    /\ pc'[q] = "answer" /\ req'[q].kind = "logout" =>
                            pc[q] = "answer" /\ req[q].kind = "logout"
               /\ req'[q].got # None =>
                    /\ req'[q].got = req[q].got /\ req'[q].who = req[q].who
                    /\ req'[q].kind = req[q].kind
    <3>1. CASE Join(r)
      <4>1. PICK u \in Joinable(req[r].proc, req[r].tok) : req' = [req EXCEPT ![r].entry = u]
        BY <3>1 DEF Join
      <4>2. pc' = [pc EXCEPT ![r] = "waiting"]
        BY <3>1 DEF Join
      <4>3. QED
        BY <2>2, <4>1, <4>2 DEF OwnInv, TypeInv, Request
    <3>2. CASE LogoutUnheard(r)
      <4>1. /\ pc' = [pc EXCEPT ![r] = "answer"]
            /\ req' = [req EXCEPT ![r].kind = "load", ![r].tok = None]
            /\ pc[r] = "logout"
        BY <3>2 DEF LogoutUnheard
      <4>2. req[r].got = None
        BY <4>1 DEF OwnInv, RequestsInOrder, InOrder
      <4>3. QED
        BY <2>2, <4>1, <4>2 DEF OwnInv, TypeInv, Request
    <3>3. QED
      BY <1>2, <3>1, <3>2
  <2>4. QED
    BY <2>1, <2>3, QuietOut
<1>3. CASE StartExchange(r)
  <2>1. Started(r)
    BY <1>3, StartFacts
  <2>2. QED
    BY <2>1, QuietOut DEF Started
<1>4. CASE Lose(r)
  <2>1. Dropped({r})
    BY <1>4, LoseFacts
  <2>2. QED
    BY <1>1, <2>1, QuietOut DEF Dropped
<1>5. CASE ServeLogin(r)
  <2>1. PICK n \in Tokens : Mint(n, n, req[r].who) /\ Answer({r}, n)
    BY <1>5 DEF ServeLogin
  <2>2. /\ Answered({r}, n) /\ req[r].kind = "login" /\ None \notin Tokens
        /\ jar' = jar /\ dead' = dead /\ out' = out
    BY <1>5, <2>1, AnswerFacts, SessionAssumption
    DEF ServeLogin, notes, OwnInv, RequestsInOrder, InOrder
  <2>3. \A t \in issued : family'[t] = family[t]
    BY <2>1 DEF Mint, OwnInv, TypeInv
  <2>4. ASSUME NEW q \in Requests
        PROVE  /\ req'[q].tok # None =>
                    /\ req'[q].tok = req[q].tok /\ req'[q].who = req[q].who
                    /\ pc'[q] = "answer" /\ req'[q].kind = "logout" =>
                            pc[q] = "answer" /\ req[q].kind = "logout"
               /\ req'[q].got # None =>
                    \/ /\ req'[q].got = req[q].got /\ req'[q].who = req[q].who
                       /\ req'[q].kind = req[q].kind
                    \/ req'[q].kind = "login"
    BY <2>2 DEF Answered
  <2>5. QED
    BY <2>2, <2>3, <2>4, OutKept
<1>6. CASE ServeLogout(r)
  <2>1. LogoutHeard(r)
    BY <1>6, LogoutFacts
  <2>2. /\ jar' = jar /\ out' = out /\ family' = family /\ dead \subseteq dead'
        /\ req[r].tok # None => family[req[r].tok] \in dead'
    BY <2>1 DEF LogoutHeard, Revoked
  <2>3. ASSUME NEW q \in Requests
        PROVE  /\ req'[q].tok # None =>
                    \/ /\ req'[q].tok = req[q].tok /\ req'[q].who = req[q].who
                       /\ pc'[q] = "answer" /\ req'[q].kind = "logout" =>
                            pc[q] = "answer" /\ req[q].kind = "logout"
                    \/ family'[req'[q].tok] \in dead'
               /\ req'[q].got # None =>
                    /\ req'[q].got = req[q].got /\ req'[q].who = req[q].who
                    /\ req'[q].kind = req[q].kind
    BY <2>1, <2>2 DEF LogoutHeard, Answered
  <2>4. QED
    BY <2>2, <2>3, OutKept
<1>7. QED
  BY <1>2, <1>3, <1>4, <1>5, <1>6

(* What an exchange brings is of the family of what it was asked for.       *)
LEMMA ExchangeOut ==
    ASSUME OwnInv, OutInv, OwnInv', NEW p \in Procs, NEW t \in Tokens,
           Rotate(p, t) \/ RefuseReuse(p, t) \/ Settle(p, t) \/ ExchangeFails(p, t)
    PROVE  OutInv'
<1>1. CASE Rotate(p, t)
  <2>1. PICK n \in Tokens : Rotated(p, t, n)
    BY <1>1, RotateFacts
  <2>2. /\ jar' = jar /\ out' = out /\ dead' = dead /\ req' = req /\ pc' = pc
        /\ \A u \in issued : family'[u] = family[u]
    BY <2>1 DEF Rotated, Mint, OwnInv, TypeInv
  <2>3. QED
    BY <2>2, OutKept
<1>2. CASE RefuseReuse(p, t)
  <2>1. Refused(p, t)
    BY <1>2, RefuseFacts
  <2>2. QED
    BY <2>1, QuietOut DEF Refused, Revoked
<1>3. CASE Settle(p, t)
  <2>1. /\ inFlight[p][t] \in Tokens \cup {None}
        /\ jar' = jar /\ family' = family /\ dead' = dead /\ out' = out
    BY <1>3 DEF Settle, OwnInv, TypeInv, Exchange, table, notes
  <2>2. Answered(WaitingFor(p, t), inFlight[p][t])
    BY <1>3, <2>1, AnswerFacts DEF Settle, WaitingFor
  <2>3. \A q \in WaitingFor(p, t) : q \in Requests /\ req[q].kind = "load" /\ req[q].tok = t
    BY DEF WaitingFor, OwnInv, RequestsInOrder, InOrder
  <2>4. inFlight[p][t] # None => family[inFlight[p][t]] = family[t] /\ t # None
    BY <2>1, SessionAssumption DEF OwnInv, TokensInPlay
  <2>5. ASSUME NEW q \in Requests
        PROVE  /\ req'[q].tok # None =>
                    /\ req'[q].tok = req[q].tok /\ req'[q].who = req[q].who
                    /\ pc'[q] = "answer" /\ req'[q].kind = "logout" =>
                            pc[q] = "answer" /\ req[q].kind = "logout"
               /\ req'[q].got # None =>
                    \/ /\ req'[q].got = req[q].got /\ req'[q].who = req[q].who
                       /\ req'[q].kind = req[q].kind
                    \/ /\ req[q].tok # None /\ req'[q].who = req[q].who
                       /\ family'[req'[q].got] = family[req[q].tok]
    <3>1. CASE q \in WaitingFor(p, t)
      BY <2>1, <2>2, <2>3, <2>4, <3>1 DEF Answered
    <3>2. CASE q \notin WaitingFor(p, t)
      BY <2>2, <3>2 DEF Answered
    <3>3. QED
      BY <3>1, <3>2
  <2>6. \A u \in issued : family'[u] = family[u]
    BY <2>1
  <2>7. QED
    BY <2>1, <2>5, <2>6, OutKept
<1>4. CASE ExchangeFails(p, t)
  <2>1. Answered(WaitingFor(p, t), None)
    BY <1>4, AnswerFacts DEF ExchangeFails, WaitingFor
  <2>2. jar' = jar /\ family' = family /\ dead' = dead /\ out' = out
    BY <1>4 DEF ExchangeFails, table
  <2>3. \A q \in WaitingFor(p, t) : q \in Requests /\ req[q].kind = "load"
    BY DEF WaitingFor, OwnInv, RequestsInOrder, InOrder
  <2>4. QED
    BY <2>1, <2>2, <2>3, QuietOut DEF Answered
<1>5. QED
  BY <1>1, <1>2, <1>3, <1>4

(* Every step keeps what was signed out away.                               *)
LEMMA OutStep == OwnInv /\ OutInv /\ [Next]_vars => OutInv'
<1> SUFFICES ASSUME OwnInv, OutInv, [Next]_vars
             PROVE  OutInv'
  OBVIOUS
<1>1. OwnInv'
  BY OwnStep
<1>2. CASE UNCHANGED vars
  BY <1>1, <1>2, QuietOut DEF vars, table, notes
<1>3. CASE \E r \in Requests :
              \/ SendLoad(r) \/ Join(r) \/ StartExchange(r)
              \/ SendLogin(r) \/ ServeLogin(r)
              \/ SendLogout(r) \/ ServeLogout(r) \/ LogoutUnheard(r)
              \/ Receive(r) \/ Lose(r)
  BY <1>1, <1>3, SendingOut, RequestOut, ReceiveOut
<1>4. CASE \E p \in Procs, t \in Tokens :
              Rotate(p, t) \/ RefuseReuse(p, t) \/ Settle(p, t) \/ ExchangeFails(p, t)
  BY <1>1, <1>4, ExchangeOut
<1>5. CASE \E p \in Procs : Crash(p)
  <2>1. PICK p \in Procs : Crash(p)
    BY <1>5
  <2>2. Dropped(Serving(p)) /\ NoRequest.tok = None /\ NoRequest.got = None
    BY <2>1, CrashFacts DEF NoRequest
  <2>3. QED
    BY <1>1, <2>2, QuietOut DEF Dropped
<1>6. CASE Tick
  <2>1. Ticked
    BY <1>6, TickFacts
  <2>2. QED
    BY <1>1, <2>1, QuietOut DEF Ticked
<1>7. QED
  BY <1>2, <1>3, <1>4, <1>5, <1>6 DEF Next

(* In every state a heard logout has left its browser no way back.          *)
THEOREM OutInvariant == Spec => [](OwnInv /\ OutInv)
<1>1. Init => OwnInv /\ OutInv
  BY OwnInit, OutInit
<1>2. OwnInv /\ OutInv /\ [Next]_vars => (OwnInv /\ OutInv)'
  BY OwnStep, OutStep
<1>3. QED
  BY <1>1, <1>2, PTL DEF Spec

(* After a logout the API has heard, the browser holds nothing of a live    *)
(* family until it logs in again, whatever was still on its way.            *)
THEOREM HeardLogoutsAreFinal == Spec => []LogoutIsFinal
<1>1. OutInv => LogoutIsFinal
  BY DEF OutInv
<1>2. QED
  BY <1>1, OutInvariant, PTL

-----------------------------------------------------------------------------
(* Logins that have not arrived.                                            *)

(* Nobody is signed in at the start.                                        *)
LEMMA FreshInit == Init => FreshInv
<1>1. Init => LoginIsFresh
  BY DEF Init, LoginIsFresh, NoRequest
<1>2. QED
  BY <1>1, YoungInit DEF FreshInv

(* No token is minted, brought or stored, and what is revoked is carried.   *)
LEMMA FreshKept ==
    ASSUME FreshInv, YoungInv', family' = family,
           \A b \in Browsers : jar'[b].refresh = jar[b].refresh,
           \A q \in Requests :
                /\ \/ req'[q].tok \in {req[q].tok, None}
                   \/ \E b \in Browsers : req'[q].tok = jar[b].refresh
                /\ req'[q].got # None => req'[q].got = req[q].got /\ req'[q].kind = req[q].kind,
           \A f \in dead' : f \in dead \/ \E q \in Requests :
                req[q].tok \in Tokens /\ f = family[req[q].tok]
    PROVE  FreshInv'
<1>1. None \notin Tokens
  BY SessionAssumption
<1>2. ASSUME NEW r \in Requests, NEW s \in Tokens, req'[r].got = s, req'[r].kind = "login"
      PROVE  Fresh(r, s)'
  <2>1. Fresh(r, s)
    BY <1>1, <1>2 DEF FreshInv, LoginIsFresh
  <2>2. \A q \in Requests : req[q].tok # s /\ req'[q].tok # s /\ (req'[q].got = s => q = r)
    BY <1>1, <2>1 DEF Fresh
  <2>3. s \notin dead'
    BY <2>1, <2>2 DEF Fresh
  <2>4. QED
    BY <2>1, <2>2, <2>3 DEF Fresh
<1>3. QED
  BY <1>2 DEF FreshInv, LoginIsFresh, Fresh

(* What is rotated is carried, and so no new login's token.                 *)
LEMMA RotateFresh ==
    ASSUME FreshInv, YoungInv', NEW p \in Procs, NEW t \in Tokens, Rotate(p, t)
    PROVE  FreshInv'
<1>1. OwnInv /\ "asked" # "none" /\ None \notin Tokens
  BY SessionAssumption DEF FreshInv, YoungInv
<1>2. PICK n \in Tokens : Rotated(p, t, n)
  BY <1>1, RotateFacts
<1>3. /\ \E r \in Requests : req[r].tok = t
      /\ family[t] \in Tokens /\ n \notin issued /\ family' = [family EXCEPT ![n] = family[t]]
  BY <1>1, <1>2, ExchangedIsIssued DEF Rotated, Mint, OwnInv, TypeInv
<1>4. ASSUME NEW r \in Requests, NEW s \in Tokens, req'[r].got = s, req'[r].kind = "login"
      PROVE  Fresh(r, s)'
  <2>1. Fresh(r, s) /\ s \in issued
    BY <1>1, <1>2, <1>4, YoungFacts DEF FreshInv, LoginIsFresh, Rotated
  <2>2. family[t] # s /\ s # n
    BY <1>3, <2>1 DEF Fresh
  <2>3. family'[s] = s /\ \A u \in Tokens : family'[u] = s => u = s
    BY <1>1, <1>3, <2>1, <2>2 DEF Fresh, OwnInv, TypeInv
  <2>4. QED
    BY <1>2, <2>1, <2>3 DEF Fresh, Rotated
<1>5. QED
  BY <1>4 DEF FreshInv, LoginIsFresh, Fresh

(* A login is given a token nobody has ever seen.                           *)
LEMMA ServeLoginFresh ==
    ASSUME FreshInv, YoungInv', NEW r \in Requests, ServeLogin(r)
    PROVE  FreshInv'
<1>1. OwnInv /\ None \notin Tokens
  BY SessionAssumption DEF FreshInv, YoungInv
<1>2. PICK n \in Tokens : Mint(n, n, req[r].who) /\ Answer({r}, n)
  BY DEF ServeLogin
<1>3. /\ Answered({r}, n) /\ jar' = jar /\ dead' = dead
      /\ n \notin issued /\ family' = [family EXCEPT ![n] = n]
  BY <1>1, <1>2, AnswerFacts DEF ServeLogin, Mint
<1>4. ASSUME NEW q \in Requests, NEW s \in Tokens, req'[q].got = s, req'[q].kind = "login"
      PROVE  Fresh(q, s)'
  <2>1. CASE q = r
    <3>1. s = n
      BY <1>3, <1>4, <2>1 DEF Answered
    <3>2. /\ n \notin dead /\ \A b \in Browsers : jar[b].refresh # n
          /\ \A o \in Requests : req[o].tok # n /\ req[o].got # n
      BY <1>1, <1>3 DEF OwnInv, TableInOrder, TokensInPlay
    <3>3. \A o \in Requests : req'[o].tok # n /\ (req'[o].got = n => o = r)
      BY <1>1, <1>3, <3>2 DEF Answered
    <3>4. family'[n] = n /\ \A u \in Tokens : family'[u] = n => u = n
      <4>1. \A u \in Tokens : family[u] = n => u = n
        BY <1>1, <1>3 DEF OwnInv, TypeInv, TableInOrder
      <4>2. QED
        BY <1>1, <1>3, <4>1 DEF OwnInv, TypeInv
    <3>5. QED
      BY <1>3, <2>1, <3>1, <3>2, <3>3, <3>4 DEF Fresh
  <2>2. CASE q # r
    <3>1. Fresh(q, s) /\ s \in issued
      BY <1>3, <1>4, <2>2, YoungFacts DEF FreshInv, LoginIsFresh, Answered
    <3>2. family'[s] = s /\ \A u \in Tokens : family'[u] = s => u = s
      BY <1>1, <1>3, <3>1 DEF Fresh, OwnInv, TypeInv
    <3>3. \A o \in Requests : req'[o].tok # s /\ (req'[o].got = s => o = q)
      BY <1>1, <1>3, <3>1 DEF Fresh, Answered
    <3>4. QED
      BY <1>3, <3>1, <3>2, <3>3 DEF Fresh
  <2>3. QED
    BY <2>1, <2>2
<1>5. QED
  BY <1>4 DEF FreshInv, LoginIsFresh, Fresh

(* An exchange brings what nobody has seen, so no login's token.            *)
LEMMA SettleFresh ==
    ASSUME FreshInv, YoungInv', NEW p \in Procs, NEW t \in Tokens, Settle(p, t)
    PROVE  FreshInv'
<1> DEFINE R == WaitingFor(p, t)
           n == inFlight[p][t]
<1>1. OwnInv /\ None \notin Tokens
  BY SessionAssumption DEF FreshInv, YoungInv
<1>2. n \in Tokens \cup {None}
  BY <1>1 DEF Settle, OwnInv, TypeInv, Exchange
<1>3. R \in SUBSET Requests /\ \A q \in R : req[q].kind = "load"
  BY <1>1 DEF WaitingFor, OwnInv, RequestsInOrder, InOrder
<1>4. Answered(R, n) /\ jar' = jar /\ dead' = dead /\ family' = family
  BY <1>1, <1>2, <1>3, AnswerFacts DEF Settle, table
<1>5. n \in Tokens => Unseen(n)
  BY YoungFacts DEF FreshInv
<1> HIDE DEF R, n
<1>6. ASSUME NEW q \in Requests, NEW s \in Tokens, req'[q].got = s, req'[q].kind = "login"
      PROVE  Fresh(q, s)'
  <2>1. q \notin R /\ req[q].got = s /\ req[q].kind = "login"
    BY <1>3, <1>4, <1>6 DEF Answered
  <2>2. Fresh(q, s) /\ s # n
    BY <1>5, <2>1 DEF FreshInv, LoginIsFresh, Unseen
  <2>3. \A o \in Requests : req'[o].tok # s /\ (req'[o].got = s => o = q)
    BY <1>1, <1>4, <2>2 DEF Fresh, Answered
  <2>4. QED
    BY <1>4, <2>2, <2>3 DEF Fresh
<1>7. QED
  BY <1>6 DEF FreshInv, LoginIsFresh, Fresh

(* What arrives for one request is not what a login still waits for.        *)
LEMMA ReceiveFresh ==
    ASSUME FreshInv, YoungInv', NEW r \in Requests, Receive(r)
    PROVE  FreshInv'
<1>1. Received(r) /\ None \notin Tokens /\ NoRequest.tok = None /\ NoRequest.got = None
  BY ReceiveFacts, SessionAssumption DEF FreshInv, YoungInv, NoRequest
<1>2. ASSUME NEW q \in Requests, NEW s \in Tokens, req'[q].got = s, req'[q].kind = "login"
      PROVE  Fresh(q, s)'
  <2>1. q # r /\ Fresh(q, s)
    BY <1>1, <1>2 DEF Received, FreshInv, LoginIsFresh
  <2>2. \A o \in Requests : req'[o].tok # s /\ (req'[o].got = s => o = q)
    BY <1>1, <2>1 DEF Received, Fresh
  <2>3. \A b \in Browsers : jar'[b].refresh # s
    BY <1>1, <2>1 DEF Received, Fresh
  <2>4. QED
    BY <1>1, <2>1, <2>2, <2>3 DEF Received, Fresh
<1>3. QED
  BY <1>2 DEF FreshInv, LoginIsFresh, Fresh

(* The other steps of a request store and bring no login's token.           *)
LEMMA QuietFresh ==
    ASSUME FreshInv, YoungInv', NEW r \in Requests,
           Join(r) \/ StartExchange(r) \/ ServeLogout(r) \/ LogoutUnheard(r) \/ Lose(r)
    PROVE  FreshInv'
<1>1. /\ OwnInv /\ None \notin Tokens
      /\ NoRequest.tok = None /\ NoRequest.got = None
  BY SessionAssumption DEF FreshInv, YoungInv, NoRequest
<1>2. CASE Join(r) \/ LogoutUnheard(r)
  <2>1. jar' = jar /\ family' = family /\ dead' = dead
    BY <1>2 DEF Join, LogoutUnheard, table
  <2>2. req[r] \in Request
    BY <1>1 DEF OwnInv, TypeInv
  <2>3. ASSUME NEW q \in Requests
        PROVE  /\ req'[q].tok \in {req[q].tok, None}
               /\ req'[q].got # None => req'[q].got = req[q].got /\ req'[q].kind = req[q].kind
    <3>1. CASE Join(r)
      <4>1. PICK u \in Joinable(req[r].proc, req[r].tok) : req' = [req EXCEPT ![r].entry = u]
        BY <3>1 DEF Join
      <4>2. QED
        BY <1>1, <2>2, <4>1 DEF OwnInv, TypeInv, Request
    <3>2. CASE LogoutUnheard(r)
      <4>1. pc[r] = "logout" /\ req' = [req EXCEPT ![r].kind = "load", ![r].tok = None]
        BY <3>2 DEF LogoutUnheard
      <4>2. req[r].got = None
        BY <1>1, <4>1 DEF OwnInv, RequestsInOrder, InOrder
      <4>3. QED
        BY <1>1, <2>2, <4>1, <4>2 DEF OwnInv, TypeInv, Request
    <3>3. QED
      BY <1>2, <3>1, <3>2
  <2>4. QED
    BY <2>1, <2>3, FreshKept
<1>3. CASE StartExchange(r)
  <2>1. Started(r)
    BY <1>1, <1>3, StartFacts
  <2>2. QED
    BY <2>1, FreshKept DEF Started
<1>4. CASE ServeLogout(r)
  <2>1. LogoutHeard(r)
    BY <1>1, <1>4, LogoutFacts
  <2>2. /\ jar' = jar /\ family' = family
        /\ dead' = dead \cup {family[t] : t \in {req[r].tok} \ {None}}
        /\ req[r].tok \in Tokens \cup {None}
        /\ \A q \in Requests :
            /\ req'[q].tok = req[q].tok
            /\ req'[q].got # None => req'[q].got = req[q].got /\ req'[q].kind = req[q].kind
    BY <1>1, <2>1 DEF LogoutHeard, Answered, Revoked, OwnInv, TypeInv, Request
  <2>3. QED
    BY <2>2, FreshKept
<1>5. CASE Lose(r)
  <2>1. Dropped({r})
    BY <1>1, <1>5, LoseFacts
  <2>2. QED
    BY <1>1, <2>1, FreshKept DEF Dropped
<1>6. QED
  BY <1>2, <1>3, <1>4, <1>5

(* A refused or failed exchange touches no login that is on its way.        *)
LEMMA QuietExchangeFresh ==
    ASSUME FreshInv, YoungInv', NEW p \in Procs, NEW t \in Tokens,
           RefuseReuse(p, t) \/ ExchangeFails(p, t)
    PROVE  FreshInv'
<1>1. OwnInv /\ "asked" # "none"
  BY DEF FreshInv, YoungInv
<1>2. CASE RefuseReuse(p, t)
  <2>1. Refused(p, t) /\ inFlight[p][t] # "none"
    BY <1>1, <1>2, RefuseFacts DEF Refused
  <2>2. PICK q \in Requests : req[q].tok = t
    BY <1>1, <2>1, ExchangedIsIssued
  <2>3. dead' = dead \cup {family[req[q].tok]} /\ jar' = jar /\ family' = family /\ req' = req
    BY <2>1, <2>2 DEF Refused, Revoked
  <2>4. QED
    BY <2>2, <2>3, FreshKept
<1>3. CASE ExchangeFails(p, t)
  <2>1. Answered(WaitingFor(p, t), None)
    BY <1>1, <1>3, AnswerFacts DEF ExchangeFails, WaitingFor
  <2>2. jar' = jar /\ family' = family /\ dead' = dead
    BY <1>3 DEF ExchangeFails, table
  <2>3. QED
    BY <2>1, <2>2, FreshKept DEF Answered
<1>4. QED
  BY <1>2, <1>3

(* What is sent presents no token of a login that is on its way.            *)
LEMMA SendingFresh ==
    ASSUME FreshInv, YoungInv', NEW r \in Requests,
           SendLoad(r) \/ SendLogin(r) \/ SendLogout(r)
    PROVE  FreshInv'
<1>1. OwnInv
  BY DEF FreshInv, YoungInv
<1>2. \E b \in Browsers, kind \in {"load", "login", "logout"}, proc \in Procs \cup {None} :
            Sent(r, b, kind, proc)
  <2>1. CASE SendLoad(r)
    <3>1. PICK b \in Browsers, p \in Procs : Send(r, b, "load", p)
      BY <2>1 DEF SendLoad
    <3>2. QED
      BY <1>1, <3>1, SendFacts
  <2>2. CASE SendLogin(r)
    <3>1. PICK b \in Browsers : Send(r, b, "login", None)
      BY <2>2 DEF SendLogin
    <3>2. QED
      BY <1>1, <3>1, SendFacts
  <2>3. CASE SendLogout(r)
    <3>1. PICK b \in Browsers : Send(r, b, "logout", None)
      BY <2>3 DEF SendLogout
    <3>2. QED
      BY <1>1, <3>1, SendFacts
  <2>4. QED
    BY <2>1, <2>2, <2>3
<1>3. PICK b \in Browsers, kind \in {"load", "login", "logout"}, proc \in Procs \cup {None} :
            Sent(r, b, kind, proc)
  BY <1>2
<1>4. \A q \in Requests :
            /\ req'[q].tok \in {req[q].tok, None} \/ req'[q].tok = jar[b].refresh
            /\ req'[q].got # None => req'[q].got = req[q].got /\ req'[q].kind = req[q].kind
  BY <1>3 DEF Sent
<1>5. jar' = jar /\ family' = family /\ dead' = dead
  BY <1>3 DEF Sent
<1>6. QED
  BY <1>4, <1>5, FreshKept

(* Every step keeps the token of a login on its way unknown to all others.  *)
LEMMA FreshStep == FreshInv /\ [Next]_vars => FreshInv'
<1> SUFFICES ASSUME FreshInv, [Next]_vars
             PROVE  FreshInv'
  OBVIOUS
<1>1. YoungInv' /\ OwnInv
  BY YoungStep DEF FreshInv, YoungInv
<1>2. CASE UNCHANGED vars
  <2>1. jar' = jar /\ family' = family /\ dead' = dead /\ req' = req
    BY <1>2 DEF vars, table
  <2>2. QED
    BY <1>1, <2>1, FreshKept
<1>3. CASE \E r \in Requests :
              \/ SendLoad(r) \/ Join(r) \/ StartExchange(r)
              \/ SendLogin(r) \/ ServeLogin(r)
              \/ SendLogout(r) \/ ServeLogout(r) \/ LogoutUnheard(r)
              \/ Receive(r) \/ Lose(r)
  BY <1>1, <1>3, SendingFresh, QuietFresh, ServeLoginFresh, ReceiveFresh
<1>4. CASE \E p \in Procs, t \in Tokens :
              Rotate(p, t) \/ RefuseReuse(p, t) \/ Settle(p, t) \/ ExchangeFails(p, t)
  BY <1>1, <1>4, RotateFresh, SettleFresh, QuietExchangeFresh
<1>5. CASE \E p \in Procs : Crash(p)
  <2>1. PICK p \in Procs : Crash(p)
    BY <1>5
  <2>2. Dropped(Serving(p)) /\ NoRequest.tok = None /\ NoRequest.got = None
    BY <1>1, <2>1, CrashFacts DEF NoRequest
  <2>3. QED
    BY <1>1, <2>2, FreshKept DEF Dropped
<1>6. CASE Tick
  <2>1. Ticked
    BY <1>1, <1>6, TickFacts
  <2>2. QED
    BY <1>1, <2>1, FreshKept DEF Ticked
<1>7. QED
  BY <1>2, <1>3, <1>4, <1>5, <1>6 DEF Next

-----------------------------------------------------------------------------
(* Browsers that are signed in and not disturbed.                           *)

(* The cookie of a steady browser is its own, and the API accepts it.       *)
LEMMA SteadyFacts ==
    ASSUME FreshInv, NEW b \in Browsers, NEW c \in Tokens, Undisturbed(b, c)
    PROVE  /\ c \in issued /\ owner[c] = b /\ c # None /\ b # None
           /\ MaxDelay \in Nat /\ Grace \in Nat /\ 2 * MaxDelay <= Grace
           /\ \A t \in issued : family[t] = family[c] => owner[t] = b
           /\ \A r \in Requests : req[r].age \in 0 .. MaxDelay
           /\ \A t \in Tokens : used[t] \in 0 .. Grace + 1 \/ used[t] = None
           /\ Accepted(c)
<1>1. OwnInv
  BY DEF FreshInv, YoungInv
<1>2. /\ c # None /\ b # None /\ MaxDelay \in Nat /\ Grace \in Nat /\ 2 * MaxDelay <= Grace
  BY SessionAssumption, LatencyAssumption
<1>3. c \in issued /\ owner[c] = b
  BY <1>1, <1>2 DEF OwnInv, TokensInPlay, Undisturbed
<1>4. \A t \in issued : family[t] = family[c] => owner[t] = b
  BY <1>1, <1>3 DEF OwnInv, TableInOrder
<1>5. /\ \A r \in Requests : req[r].age \in 0 .. MaxDelay
      /\ \A t \in Tokens : used[t] \in 0 .. Grace + 1 \/ used[t] = None
  BY <1>1 DEF OwnInv, TypeInv, Request
<1>6. Accepted(c)
  BY <1>2, <1>5 DEF Undisturbed, Accepted
<1>7. QED
  BY <1>2, <1>3, <1>4, <1>5, <1>6

(* A step that is none of the browser's: its requests stay, but for answers *)
(* of its family, and what is spent anew is spent now.                      *)
LEMMA SteadyKept ==
    ASSUME FreshInv, NEW b \in Browsers, NEW c \in Tokens, Undisturbed(b, c),
           jar'[b].refresh = c, family[c] \notin dead',
           \A t \in issued : /\ family'[t] = family[t]
                             /\ used'[t] \in {used[t], None, 0},
           used'[c] = 0 => used[c] # None \/ \E r \in Requests : req[r].who = b,
           \A r \in Requests : /\ req'[r].who = b <=> req[r].who = b
                               /\ req[r].who = b => /\ req'[r].age = req[r].age
                                                    /\ req'[r].kind = req[r].kind
                                                    /\ req'[r].tok \in {req[r].tok, None}
                                                    /\ pc'[r] = "answer" => req'[r].got # None
                                                    /\ req'[r].got # None =>
                                                        family'[req'[r].got] = family[c],
           \A p \in Procs, t \in Tokens : inFlight'[p][t] = None => owner'[t] # b
    PROVE  Undisturbed(b, c)'
<1>1. /\ c \in issued /\ c # None /\ MaxDelay \in Nat /\ Grace \in Nat
      /\ \A r \in Requests : req[r].age \in 0 .. MaxDelay
      /\ \A t \in Tokens : used[t] \in 0 .. Grace + 1 \/ used[t] = None
  BY SteadyFacts
<1>2. \A r \in Requests : req[r].tok # None => req[r].tok \in issued /\ req[r].tok \in Tokens
  BY DEF FreshInv, YoungInv, OwnInv, TypeInv, TokensInPlay
<1>3. ASSUME NEW r \in Requests, req'[r].who = b, req'[r].tok # None
      PROVE  /\ family'[req'[r].tok] = family[c]
             /\ used'[req'[r].tok] # None => used'[req'[r].tok] <= MaxDelay + req'[r].age
  <2>1. /\ req[r].who = b /\ req'[r].tok = req[r].tok /\ req'[r].age = req[r].age
        /\ req[r].tok \in issued /\ req[r].tok \in Tokens
    BY <1>2, <1>3
  <2>2. /\ family'[req[r].tok] = family[c]
        /\ used'[req[r].tok] \in {used[req[r].tok], None, 0}
        /\ used[req[r].tok] # None => used[req[r].tok] <= MaxDelay + req[r].age
    BY <1>3, <2>1 DEF Undisturbed
  <2>3. 0 <= MaxDelay + req[r].age
    BY <1>1
  <2>4. QED
    BY <2>1, <2>2, <2>3
<1>4. ASSUME used'[c] # None
      PROVE  \E r \in Requests : req'[r].who = b /\ used'[c] <= req'[r].age
  <2>1. PICK r \in Requests : req[r].who = b /\ (used[c] # None => used[c] <= req[r].age)
    BY <1>1, <1>4 DEF Undisturbed
  <2>2. req'[r].who = b /\ req'[r].age = req[r].age /\ 0 <= req[r].age
    BY <1>1, <2>1
  <2>3. used'[c] \in {used[c], 0}
    BY <1>1, <1>4
  <2>4. QED
    BY <1>4, <2>1, <2>2, <2>3
<1>5. family'[c] = family[c]
  BY <1>1
<1>6. \A r \in Requests : req'[r].who = b =>
        /\ req'[r].kind = "load"
        /\ pc'[r] = "answer" => req'[r].got # None
        /\ req'[r].got # None => family'[req'[r].got] = family[c]
  BY DEF Undisturbed
<1>7. QED
  BY <1>3, <1>4, <1>5, <1>6 DEF Undisturbed

(* A steady browser loads another page: what the load carries was spent no  *)
(* longer ago than the request that spent it can take.                      *)
LEMMA SendSteady ==
    ASSUME FreshInv, NEW b \in Browsers, NEW c \in Tokens, Undisturbed(b, c),
           NEW r \in Requests, NEW o \in Browsers, NEW kind \in {"load", "login", "logout"},
           NEW proc, Sent(r, o, kind, proc), o = b => kind = "load"
    PROVE  Undisturbed(b, c)'
<1>1. /\ c \in issued /\ c # None /\ b # None /\ MaxDelay \in Nat /\ Grace \in Nat
      /\ \A q \in Requests : req[q].age \in 0 .. MaxDelay
      /\ \A t \in Tokens : used[t] \in 0 .. Grace + 1 \/ used[t] = None
  BY SteadyFacts
<1>2. NoRequest.who = None /\ NoRequest.tok = None /\ NoRequest.got = None
  BY DEF NoRequest
<1>3. /\ jar' = jar /\ family' = family /\ used' = used /\ dead' = dead /\ owner' = owner
      /\ inFlight' = inFlight /\ req[r].who = None
      /\ \A q \in Requests : q # r => req'[q] = req[q] /\ pc'[q] = pc[q]
  BY <1>2 DEF Sent
<1>4. ASSUME o = b
      PROVE  /\ req'[r].kind = "load" /\ pc'[r] = "load" /\ req'[r].tok = c
             /\ req'[r].got = None /\ req'[r].age = 0
  BY <1>1, <1>4 DEF Sent, Undisturbed
<1>5. used[c] # None => used[c] <= MaxDelay + 0
  BY <1>1 DEF Undisturbed
<1>6. o # b => req'[r].who # b
  BY DEF Sent
<1>7. used[c] # None => \E q \in Requests : req'[q].who = b /\ used[c] <= req'[q].age
  BY <1>1, <1>3 DEF Undisturbed
<1>8. ASSUME NEW q \in Requests, req'[q].who = b
      PROVE  /\ req'[q].kind = "load"
             /\ pc'[q] = "answer" => req'[q].got # None
             /\ req'[q].tok # None => /\ family[req'[q].tok] = family[c]
                                      /\ used[req'[q].tok] # None =>
                                            used[req'[q].tok] <= MaxDelay + req'[q].age
             /\ req'[q].got # None => family[req'[q].got] = family[c]
  <2>1. CASE q = r
    BY <1>4, <1>5, <1>6, <1>8, <2>1
  <2>2. CASE q # r
    BY <1>3, <1>8, <2>2 DEF Undisturbed
  <2>3. QED
    BY <2>1, <2>2
<1>9. QED
  BY <1>3, <1>7, <1>8 DEF Undisturbed

(* Time passes, for the requests as for the token they spent.               *)
LEMMA TickSteady ==
    ASSUME FreshInv, NEW b \in Browsers, NEW c \in Tokens, Undisturbed(b, c), Ticked
    PROVE  Undisturbed(b, c)'
<1>1. /\ c # None /\ b # None /\ MaxDelay \in Nat /\ Grace \in Nat
      /\ \A q \in Requests : req[q].age \in 0 .. MaxDelay
      /\ \A t \in Tokens : used[t] \in 0 .. Grace + 1 \/ used[t] = None
  BY SteadyFacts
<1>2. /\ jar'[b].refresh = jar[b].refresh /\ family' = family /\ dead' = dead /\ owner' = owner
      /\ inFlight' = inFlight /\ pc' = pc
  BY DEF Ticked
<1>3. ASSUME NEW q \in Requests
      PROVE  /\ req'[q].who = req[q].who /\ req'[q].kind = req[q].kind
             /\ req'[q].tok = req[q].tok /\ req'[q].got = req[q].got
             /\ req[q].tok \in Tokens \cup {None}
             /\ req'[q].who = b => req'[q].age = req[q].age + 1
  <2>1. pc[q] = "idle" => req[q].who = None
    BY DEF FreshInv, YoungInv, OwnInv, RequestsInOrder, InOrder, NoRequest
  <2>2. req[q].tok \in Tokens \cup {None}
    BY DEF FreshInv, YoungInv, OwnInv, TypeInv, Request
  <2>3. QED
    BY <1>1, <2>1, <2>2 DEF Ticked
<1>4. ASSUME NEW t \in Tokens, NEW n \in Nat, used[t] # None => used[t] <= n
      PROVE  used'[t] # None => used'[t] <= n + 1
  <2>1. /\ used'[t] # None => used[t] # None /\ used'[t] <= used[t] + 1
        /\ used'[t] \in 0 .. Grace + 1 \/ used'[t] = None
    BY DEF Ticked
  <2>2. QED
    BY <1>1, <1>4, <2>1
<1>5. used'[c] # None => \E q \in Requests : req'[q].who = b /\ used'[c] <= req'[q].age
  <2>1. SUFFICES ASSUME used'[c] # None
                 PROVE  \E q \in Requests : req'[q].who = b /\ used'[c] <= req'[q].age
    OBVIOUS
  <2>2. used[c] # None
    BY <2>1 DEF Ticked
  <2>3. PICK q \in Requests : req[q].who = b /\ used[c] <= req[q].age
    BY <2>2 DEF Undisturbed
  <2>4. req[q].age \in Nat /\ req'[q].who = b /\ req'[q].age = req[q].age + 1
    BY <1>1, <1>3, <2>3
  <2>5. used'[c] <= req[q].age + 1
    BY <1>4, <2>1, <2>3, <2>4
  <2>6. QED
    BY <2>4, <2>5
<1>6. ASSUME NEW q \in Requests, req'[q].who = b
      PROVE  /\ req'[q].kind = "load"
             /\ pc'[q] = "answer" => req'[q].got # None
             /\ req'[q].tok # None => /\ family[req'[q].tok] = family[c]
                                      /\ used'[req'[q].tok] # None =>
                                            used'[req'[q].tok] <= MaxDelay + req'[q].age
             /\ req'[q].got # None => family[req'[q].got] = family[c]
  <2>1. req[q].who = b
    BY <1>3, <1>6
  <2>2. /\ req[q].kind = "load"
        /\ pc[q] = "answer" => req[q].got # None
        /\ req[q].tok # None => family[req[q].tok] = family[c]
        /\ req[q].got # None => family[req[q].got] = family[c]
        /\ req[q].tok # None /\ used[req[q].tok] # None =>
                used[req[q].tok] <= MaxDelay + req[q].age
    BY <2>1 DEF Undisturbed
  <2>3. ASSUME req[q].tok # None, used'[req[q].tok] # None
        PROVE  used'[req[q].tok] <= MaxDelay + req'[q].age
    <3>1. req[q].tok \in Tokens /\ MaxDelay + req[q].age \in Nat
      BY <1>1, <1>3, <2>3
    <3>2. used'[req[q].tok] <= (MaxDelay + req[q].age) + 1
      BY <1>4, <2>2, <2>3, <3>1
    <3>3. req'[q].age = req[q].age + 1 /\ req[q].age \in Nat
      BY <1>1, <1>3, <1>6
    <3>4. QED
      BY <1>1, <3>2, <3>3
  <2>4. QED
    BY <1>2, <1>3, <2>2, <2>3
<1>7. QED
  BY <1>2, <1>5, <1>6 DEF Undisturbed

(* The API rotates a token: if a steady browser's, in its family; if its    *)
(* cookie, for a request that is under way.                                 *)
LEMMA RotateSteady ==
    ASSUME FreshInv, NEW b \in Browsers, NEW c \in Tokens, Undisturbed(b, c),
           NEW p \in Procs, NEW t \in Tokens, Rotate(p, t)
    PROVE  Undisturbed(b, c)'
<1>1. OwnInv /\ "asked" # "none" /\ None \notin Tokens
  BY SessionAssumption DEF FreshInv, YoungInv
<1>2. PICK n \in Tokens : Rotated(p, t, n)
  BY <1>1, RotateFacts
<1>3. /\ n \notin issued /\ family' = [family EXCEPT ![n] = family[t]]
      /\ owner' = [owner EXCEPT ![n] = owner[t]]
      /\ \E r \in Requests : req[r].tok = t /\ req[r].who = owner[t]
      /\ t \in issued
  BY <1>1, <1>2, ExchangedIsIssued DEF Rotated, Mint
<1>4. \A u \in issued : /\ family'[u] = family[u] /\ owner'[u] = owner[u]
                        /\ used'[u] \in {used[u], None, 0}
  BY <1>1, <1>2, <1>3 DEF Rotated, OwnInv, TypeInv
<1>5. used'[c] = 0 => used[c] # None \/ \E r \in Requests : req[r].who = b
  BY <1>2, <1>3, SteadyFacts, SessionAssumption DEF Rotated
<1>6. ASSUME NEW q \in Procs, NEW u \in Tokens, inFlight'[q][u] = None
      PROVE  owner'[u] # b
  <2>1. inFlight[q][u] = None
    BY <1>1, <1>2, <1>6 DEF Rotated
  <2>2. u \in issued /\ owner[u] # b
    BY <1>1, <2>1, ExchangedIsIssued, SessionAssumption DEF Undisturbed
  <2>3. QED
    BY <1>4, <2>2
<1>7. ASSUME NEW r \in Requests, req[r].who = b
      PROVE  /\ pc[r] = "answer" => req[r].got # None
             /\ req[r].got # None => family'[req[r].got] = family[c]
  <2>1. req[r].got # None => req[r].got \in issued /\ family[req[r].got] = family[c]
    BY <1>1, <1>7 DEF OwnInv, TokensInPlay, Undisturbed
  <2>2. QED
    BY <1>4, <1>7, <2>1 DEF Undisturbed
<1>8. jar' = jar /\ dead' = dead /\ pc' = pc /\ req' = req
  BY <1>2 DEF Rotated
<1>9. jar'[b].refresh = c /\ family[c] \notin dead'
  BY <1>8 DEF Undisturbed
<1>10. QED
  BY <1>4, <1>5, <1>6, <1>7, <1>8, <1>9, SteadyKept

(* What a steady browser presents is not refused: it was spent at most two  *)
(* requests ago, and the grace window is that long.                         *)
LEMMA SteadyIsAccepted ==
    ASSUME FreshInv, NEW b \in Browsers, NEW c \in Tokens, Undisturbed(b, c),
           NEW p \in Procs, NEW t \in Tokens, inFlight[p][t] # "none", owner[t] = b
    PROVE  family[t] = family[c] /\ Accepted(t)
<1>1. OwnInv
  BY DEF FreshInv, YoungInv
<1>2. /\ MaxDelay \in Nat /\ Grace \in Nat /\ 2 * MaxDelay <= Grace
      /\ \A q \in Requests : req[q].age \in 0 .. MaxDelay
      /\ used[t] \in 0 .. Grace + 1 \/ used[t] = None
  BY SteadyFacts
<1>3. PICK r \in Requests : req[r].who = b /\ req[r].tok = t
  BY <1>1, ExchangedIsIssued
<1>4. t # None
  BY SessionAssumption
<1>5. /\ family[t] = family[c] /\ family[t] \notin dead
      /\ used[t] # None => used[t] <= MaxDelay + req[r].age
  BY <1>3, <1>4 DEF Undisturbed
<1>6. used[t] # None => used[t] <= Grace
  BY <1>2, <1>5
<1>7. QED
  BY <1>5, <1>6 DEF Accepted

(* What is refused as reused is no token of a steady session.               *)
LEMMA RefuseSteady ==
    ASSUME FreshInv, NEW b \in Browsers, NEW c \in Tokens, Undisturbed(b, c),
           NEW p \in Procs, NEW t \in Tokens, RefuseReuse(p, t)
    PROVE  Undisturbed(b, c)'
<1>1. OwnInv /\ "asked" # "none"
  BY DEF FreshInv, YoungInv
<1>2. Refused(p, t) /\ inFlight[p][t] # "none" /\ ~Accepted(t)
  BY <1>1, RefuseFacts DEF Refused
<1>3. owner[t] # b
  BY <1>2, SteadyIsAccepted
<1>4. family[t] # family[c]
  BY <1>1, <1>2, <1>3, SteadyFacts, ExchangedIsIssued
<1>5. /\ jar' = jar /\ pc' = pc /\ req' = req /\ family' = family /\ owner' = owner
      /\ dead' = dead \cup {family[t]}
      /\ \A u \in Tokens : used'[u] \in {used[u], None}
  BY <1>2 DEF Refused, Revoked
<1>6. ASSUME NEW q \in Procs, NEW u \in Tokens, inFlight'[q][u] = None
      PROVE  owner'[u] # b
  BY <1>2, <1>3, <1>5, <1>6 DEF Refused, Undisturbed
<1>7. \A u \in issued : family'[u] = family[u] /\ used'[u] \in {used[u], None, 0}
  BY <1>1, <1>5 DEF OwnInv, TypeInv
<1>8. used'[c] = 0 => used[c] # None
  BY <1>5, SessionAssumption
<1>9. jar'[b].refresh = c /\ family[c] \notin dead'
  BY <1>4, <1>5 DEF Undisturbed
<1>10. \A r \in Requests : req[r].who = b =>
            /\ pc[r] = "answer" => req[r].got # None
            /\ req[r].got # None => family'[req[r].got] = family[c]
  BY <1>5 DEF Undisturbed
<1>11. QED
  BY <1>5, <1>6, <1>7, <1>8, <1>9, <1>10, SteadyKept

(* An exchange ends.  A steady browser's brought a token of its family.     *)
LEMMA SettleSteady ==
    ASSUME FreshInv, NEW b \in Browsers, NEW c \in Tokens, Undisturbed(b, c),
           NEW p \in Procs, NEW t \in Tokens,
           \/ Settle(p, t)
           \/ ExchangeFails(p, t) /\ b \in steady'
    PROVE  Undisturbed(b, c)'
<1> DEFINE R == WaitingFor(p, t)
<1>1. /\ OwnInv /\ None \notin Tokens /\ None # "none" /\ inFlight[p][t] # "none"
      /\ R \in SUBSET Requests
  BY SessionAssumption DEF FreshInv, YoungInv, Settle, ExchangeFails, WaitingFor
<1>2. \A r \in R : req[r].tok = t /\ req[r].who = owner[t]
  BY <1>1, LoadFacts DEF WaitingFor, OwnInv, RequestsInOrder, InOrder
<1>3. PICK n \in Tokens \cup {None} :
        /\ Answered(R, n)
        /\ owner[t] = b /\ R # {} => n \in Tokens /\ family[n] = family[c]
  <2>1. CASE Settle(p, t)
    <3>1. inFlight[p][t] \in Tokens \cup {None} /\ Answered(R, inFlight[p][t])
      <4>1. inFlight[p][t] \in Tokens \cup {None}
        BY <1>1, <2>1 DEF Settle, OwnInv, TypeInv, Exchange
      <4>2. QED
        BY <1>1, <2>1, <4>1, AnswerFacts DEF Settle
    <3>2. ASSUME owner[t] = b
          PROVE  inFlight[p][t] \in Tokens /\ family[inFlight[p][t]] = family[c]
      <4>1. inFlight[p][t] # None
        BY <3>2 DEF Undisturbed
      <4>2. family[inFlight[p][t]] = family[t]
        BY <1>1, <3>1, <4>1 DEF OwnInv, TokensInPlay
      <4>3. family[t] = family[c]
        BY <1>1, <3>2, SteadyIsAccepted
      <4>4. QED
        BY <3>1, <4>1, <4>2, <4>3
    <3>3. QED
      BY <3>1, <3>2
  <2>2. CASE ExchangeFails(p, t) /\ b \in steady'
    <3>1. Answered(R, None)
      BY <1>1, <2>2, AnswerFacts DEF ExchangeFails
    <3>2. b \notin {req[r].who : r \in R}
      BY <2>2 DEF ExchangeFails
    <3>3. ~(owner[t] = b /\ R # {})
      BY <1>2, <3>2
    <3>4. QED
      BY <3>1, <3>3
  <2>3. QED
    BY <2>1, <2>2
<1>4. /\ jar' = jar /\ family' = family /\ used' = used /\ dead' = dead /\ owner' = owner
      /\ inFlight' = [inFlight EXCEPT ![p][t] = "none"]
  BY DEF Settle, ExchangeFails, table
<1> HIDE DEF R
<1>5. ASSUME NEW r \in Requests
      PROVE  /\ req'[r].who = req[r].who
             /\ req[r].who = b => /\ req'[r].age = req[r].age
                                  /\ req'[r].kind = req[r].kind
                                  /\ req'[r].tok \in {req[r].tok, None}
                                  /\ pc'[r] = "answer" => req'[r].got # None
                                  /\ req'[r].got # None => family'[req'[r].got] = family[c]
  <2>1. CASE r \in R
    BY <1>1, <1>2, <1>3, <1>4, <2>1 DEF Answered
  <2>2. CASE r \notin R
    BY <1>3, <1>4, <2>2 DEF Answered, Undisturbed
  <2>3. QED
    BY <2>1, <2>2
<1>6. ASSUME NEW q \in Procs, NEW u \in Tokens, inFlight'[q][u] = None
      PROVE  owner'[u] # b
  <2>1. inFlight[q][u] = None
    BY <1>1, <1>4, <1>6 DEF OwnInv, TypeInv
  <2>2. QED
    BY <1>4, <2>1 DEF Undisturbed
<1>7. /\ \A u \in issued : family'[u] = family[u] /\ used'[u] \in {used[u], None, 0}
      /\ used'[c] = 0 => used[c] # None
      /\ jar'[b].refresh = c /\ family[c] \notin dead'
  BY <1>4, SessionAssumption DEF Undisturbed
<1>8. QED
  BY <1>5, <1>6, <1>7, SteadyKept

(* A page load's answer renews the cookie in its family; a login's answer,  *)
(* with nothing else under way, makes a browser steady.                     *)
LEMMA ReceiveSteady ==
    ASSUME FreshInv, NEW r \in Requests, Receive(r), NEW b \in steady',
           b \in steady => \E c \in Tokens : Undisturbed(b, c)
    PROVE  \E c \in Tokens : Undisturbed(b, c)'
<1>1. /\ OwnInv /\ Received(r) /\ pc[r] = "answer" /\ req[r].who \in Browsers
      /\ None \notin Tokens \cup Browsers /\ None # "none"
      /\ NoRequest.who = None /\ NoRequest.tok = None /\ NoRequest.got = None
  BY ReceiveFacts, SessionAssumption DEF FreshInv, YoungInv, Received, NoRequest
<1>2. b \in Browsers /\ b # None
  BY <1>1 DEF OwnInv, TypeInv, Received
<1>3. /\ family' = family /\ used' = used /\ dead' = dead /\ owner' = owner
      /\ inFlight' = inFlight /\ pc'[r] = "idle" /\ req'[r] = NoRequest
      /\ \A q \in Requests : q # r => req'[q] = req[q] /\ pc'[q] = pc[q]
  BY <1>1 DEF Received
<1>4. CASE b # req[r].who
  <2>1. b \in steady
    BY <1>1, <1>4 DEF Received
  <2>2. PICK c \in Tokens : Undisturbed(b, c)
    BY <2>1
  <2>3. jar'[b] = jar[b]
    BY <1>1, <1>2, <1>4 DEF Received
  <2>4. \A q \in Requests : req'[q].who = b => q # r /\ req[q].who = b
    BY <1>1, <1>2, <1>3
  <2>5. used[c] # None => \E q \in Requests : q # r /\ req[q].who = b /\ used[c] <= req[q].age
    BY <1>4, <2>2 DEF Undisturbed
  <2>6. Undisturbed(b, c)'
    BY <1>3, <2>2, <2>3, <2>4, <2>5 DEF Undisturbed
  <2>7. QED
    BY <2>6
<1>5. CASE b = req[r].who /\ req[r].kind = "login"
  <2>1. /\ req[r].got \in Tokens
        /\ \A s \in Tokens : req[r].got = s => Fresh(r, s) /\ used[s] = None
    <3>1. req[r].got \in Tokens
      BY <1>1, <1>5 DEF OwnInv, TypeInv, RequestsInOrder, InOrder, Request
    <3>2. QED
      BY <1>5, <3>1, YoungFacts DEF FreshInv, LoginIsFresh, Young
  <2>2. PICK s \in Tokens : req[r].got = s /\ Fresh(r, s) /\ used[s] = None
    BY <2>1
  <2>3. UnderWay(b) = {r}
    <3>1. CASE b \in steady
      BY <1>5, <3>1 DEF Undisturbed
    <3>2. CASE b \notin steady
      BY <1>1, <1>5, <3>2 DEF Received
    <3>3. QED
      BY <3>1, <3>2
  <2>4. \A q \in Requests : req[q].who = b => q = r
    BY <2>3 DEF UnderWay
  <2>5. \A q \in Requests : req'[q].who # b
    BY <1>1, <1>2, <1>3, <2>4
  <2>6. ASSUME NEW p \in Procs, NEW t \in Tokens, inFlight[p][t] = None
        PROVE  owner[t] # b
    <3>1. PICK q \in Requests : pc[q] = "waiting" /\ req[q].who = owner[t]
      BY <1>1, <2>6, ExchangedIsIssued
    <3>2. QED
      BY <1>1, <2>4, <3>1
  <2>7. jar'[b].refresh = s /\ family[s] \notin dead
    BY <1>1, <1>5, <2>2 DEF Received, Fresh
  <2>8. Undisturbed(b, s)'
    BY <1>3, <2>2, <2>5, <2>6, <2>7 DEF Undisturbed
  <2>9. QED
    BY <2>8
<1>6. CASE b = req[r].who /\ req[r].kind # "login"
  <2>1. b \in steady
    BY <1>1, <1>6 DEF Received
  <2>2. PICK c \in Tokens : Undisturbed(b, c)
    BY <2>1
  <2>3. req[r].got # None /\ family[req[r].got] = family[c]
    BY <1>1, <1>6, <2>2 DEF Undisturbed
  <2>4. req[r].got \in Tokens
    BY <1>1, <2>3 DEF OwnInv, TypeInv, Request
  <2>5. PICK s \in Tokens : req[r].got = s
    BY <2>4
  <2>6. used[s] = None
    BY <2>5, YoungFacts DEF FreshInv, Young
  <2>7. jar'[b].refresh = s /\ family[s] = family[c]
    BY <1>1, <1>6, <2>3, <2>5 DEF Received
  <2>8. \A q \in Requests : req'[q].who = b => q # r /\ req[q].who = b
    BY <1>1, <1>2, <1>3
  <2>9. Undisturbed(b, s)'
    BY <1>3, <2>2, <2>6, <2>7, <2>8 DEF Undisturbed
  <2>10. QED
    BY <2>9
<1>7. QED
  BY <1>4, <1>5, <1>6

(* Requests of other browsers, and what a steady one's go through before    *)
(* they are answered.                                                       *)
LEMMA RequestSteady ==
    ASSUME FreshInv, NEW b \in Browsers, NEW c \in Tokens, Undisturbed(b, c), NEW r \in Requests,
           \/ Join(r) \/ StartExchange(r) \/ ServeLogin(r)
           \/ ServeLogout(r) \/ LogoutUnheard(r)
           \/ (Lose(r) /\ b \in steady')
    PROVE  Undisturbed(b, c)'
<1>1. /\ OwnInv /\ None \notin Tokens /\ None \notin Browsers /\ None # "asked"
      /\ NoRequest.who = None
      /\ req[r] \in Request
  BY SessionAssumption DEF FreshInv, YoungInv, NoRequest, OwnInv, TypeInv
<1>2. /\ \A q \in Requests : req[q].who = b =>
            /\ req[q].kind = "load"
            /\ pc[q] = "answer" => req[q].got # None
            /\ req[q].got # None => family[req[q].got] = family[c] /\ req[q].got \in issued
      /\ jar[b].refresh = c /\ family[c] \notin dead /\ c \in issued
      /\ \A p \in Procs, t \in Tokens : inFlight[p][t] = None => t \in issued /\ owner[t] # b
  <2>1. \A p \in Procs, t \in Tokens : inFlight[p][t] = None => t \in issued
    BY <1>1, ExchangedIsIssued, SessionAssumption
  <2>2. QED
    BY <1>1, <2>1, SteadyFacts DEF Undisturbed, OwnInv, TokensInPlay
<1>3. CASE Join(r)
  <2>1. PICK u \in Joinable(req[r].proc, req[r].tok) : req' = [req EXCEPT ![r].entry = u]
    BY <1>3 DEF Join
  <2>2. /\ pc' = [pc EXCEPT ![r] = "waiting"]
        /\ jar' = jar /\ family' = family /\ used' = used /\ dead' = dead /\ owner' = owner
        /\ inFlight' = inFlight
    BY <1>3 DEF Join, table
  <2>3. ASSUME NEW q \in Requests
        PROVE  /\ req'[q].who = req[q].who /\ req'[q].age = req[q].age
               /\ req'[q].kind = req[q].kind /\ req'[q].tok = req[q].tok
               /\ req'[q].got = req[q].got
               /\ pc'[q] = "answer" => pc[q] = "answer"
    BY <1>1, <2>1, <2>2 DEF OwnInv, TypeInv, Request
  <2>4. used'[c] = 0 => used[c] # None
    BY <2>2, SessionAssumption
  <2>5. QED
    BY <1>2, <2>2, <2>3, <2>4, SteadyKept
<1>4. CASE StartExchange(r)
  <2>1. Started(r)
    BY <1>1, <1>4, StartFacts
  <2>2. used'[c] = 0 => used[c] # None
    BY <2>1, SessionAssumption DEF Started
  <2>3. ASSUME NEW p \in Procs, NEW t \in Tokens, inFlight'[p][t] = None
        PROVE  owner'[t] # b
    BY <1>1, <1>2, <2>1, <2>3 DEF Started
  <2>4. /\ jar' = jar /\ family' = family /\ used' = used /\ dead' = dead
        /\ \A q \in Requests :
            /\ req'[q].who = req[q].who /\ req'[q].age = req[q].age
            /\ req'[q].kind = req[q].kind /\ req'[q].tok = req[q].tok
            /\ req'[q].got # None => req'[q].got = req[q].got
            /\ pc'[q] = "answer" => pc[q] = "answer" /\ req'[q] = req[q]
    BY <2>1 DEF Started
  <2>5. QED
    BY <1>2, <2>2, <2>3, <2>4, SteadyKept
<1>5. CASE ServeLogin(r)
  <2>1. PICK n \in Tokens : Mint(n, n, req[r].who) /\ Answer({r}, n)
    BY <1>5 DEF ServeLogin
  <2>2. Answered({r}, n) /\ req[r].kind = "login" /\ req[r].who # b
    BY <1>1, <1>2, <1>5, <2>1, AnswerFacts DEF ServeLogin, OwnInv, RequestsInOrder, InOrder
  <2>3. /\ n \notin issued /\ family' = [family EXCEPT ![n] = n]
        /\ owner' = [owner EXCEPT ![n] = req[r].who]
        /\ jar' = jar /\ used' = used /\ dead' = dead /\ inFlight' = inFlight
    BY <1>5, <2>1 DEF Mint, ServeLogin
  <2>4. \A u \in issued : family'[u] = family[u] /\ owner'[u] = owner[u]
    BY <1>1, <2>3 DEF OwnInv, TypeInv
  <2>5. used'[c] = 0 => used[c] # None
    BY <2>3, SessionAssumption
  <2>6. ASSUME NEW q \in Requests
        PROVE  /\ req'[q].who = req[q].who
               /\ req[q].who = b => q # r /\ req'[q] = req[q] /\ pc'[q] = pc[q]
    BY <2>2 DEF Answered
  <2>7. \A q \in Requests : req[q].who = b /\ req[q].got # None =>
            family'[req[q].got] = family[c]
    BY <1>2, <2>4
  <2>8. QED
    BY <1>2, <2>3, <2>4, <2>5, <2>6, <2>7, SteadyKept
<1>6. CASE ServeLogout(r)
  <2>1. LogoutHeard(r) /\ req[r].who # b
    BY <1>1, <1>2, <1>6, LogoutFacts DEF LogoutHeard
  <2>2. /\ jar' = jar /\ family' = family /\ owner' = owner /\ inFlight' = inFlight
        /\ \A u \in Tokens : used'[u] \in {used[u], None}
        /\ dead' = dead \cup {family[t] : t \in {req[r].tok} \ {None}}
    BY <2>1 DEF LogoutHeard, Revoked
  <2>3. ASSUME req[r].tok # None
        PROVE  family[req[r].tok] # family[c]
    <3>1. req[r].tok \in issued /\ owner[req[r].tok] = req[r].who
      BY <1>1, <2>3 DEF OwnInv, TokensInPlay
    <3>2. QED
      BY <2>1, <3>1, SteadyFacts
  <2>4. family[c] \notin dead'
    BY <1>2, <2>2, <2>3
  <2>5. ASSUME NEW q \in Requests
        PROVE  /\ req'[q].who = req[q].who
               /\ req[q].who = b => q # r /\ req'[q] = req[q] /\ pc'[q] = pc[q]
    BY <2>1 DEF LogoutHeard, Answered
  <2>6. used'[c] = 0 => used[c] # None
    BY <2>2, SessionAssumption
  <2>7. \A u \in issued : used'[u] \in {used[u], None, 0}
    BY <1>1, <2>2 DEF OwnInv, TypeInv
  <2>8. QED
    BY <1>2, <2>2, <2>4, <2>5, <2>6, <2>7, SteadyKept
<1>7. CASE LogoutUnheard(r)
  <2>1. /\ pc[r] = "logout" /\ pc' = [pc EXCEPT ![r] = "answer"]
        /\ req' = [req EXCEPT ![r].kind = "load", ![r].tok = None]
        /\ jar' = jar /\ family' = family /\ used' = used /\ dead' = dead /\ owner' = owner
        /\ inFlight' = inFlight
    BY <1>7 DEF LogoutUnheard, table
  <2>2. req[r].who # b
    BY <1>1, <1>2, <2>1 DEF OwnInv, RequestsInOrder, InOrder
  <2>3. ASSUME NEW q \in Requests
        PROVE  /\ req'[q].who = req[q].who
               /\ req[q].who = b => q # r /\ req'[q] = req[q] /\ pc'[q] = pc[q]
    BY <1>1, <2>1, <2>2 DEF OwnInv, TypeInv, Request
  <2>4. used'[c] = 0 => used[c] # None
    BY <2>1, SessionAssumption
  <2>5. /\ jar' = jar /\ family' = family /\ used' = used /\ dead' = dead /\ owner' = owner
        /\ inFlight' = inFlight
    BY <2>1
  <2>6. QED
    BY <1>2, <2>3, <2>4, <2>5, SteadyKept
<1>8. CASE Lose(r) /\ b \in steady'
  <2>1. Dropped({r}) /\ inFlight' = inFlight
    BY <1>1, <1>8, LoseFacts
  <2>2. req[r].who # b
    BY <1>8, <2>1 DEF Dropped
  <2>3. ASSUME NEW q \in Requests
        PROVE  /\ req'[q].who = b <=> req[q].who = b
               /\ req[q].who = b => q # r /\ req'[q] = req[q] /\ pc'[q] = pc[q]
    BY <1>1, <2>1, <2>2 DEF Dropped
  <2>4. used'[c] = 0 => used[c] # None
    BY <2>1, SessionAssumption DEF Dropped
  <2>5. /\ jar' = jar /\ family' = family /\ used' = used /\ dead' = dead /\ owner' = owner
    BY <2>1 DEF Dropped
  <2>6. QED
    BY <1>2, <2>1, <2>3, <2>4, <2>5, SteadyKept
<1>9. QED
  BY <1>3, <1>4, <1>5, <1>6, <1>7, <1>8

(* A browser that stays steady lost no answer to the crash.                 *)
LEMMA CrashSteady ==
    ASSUME FreshInv, NEW b \in Browsers, NEW c \in Tokens, Undisturbed(b, c), b \in steady',
           NEW p \in Procs, Crash(p)
    PROVE  Undisturbed(b, c)'
<1>1. OwnInv /\ None \notin Tokens /\ None \notin Browsers /\ NoRequest.who = None /\ None # "none"
  BY SessionAssumption DEF FreshInv, YoungInv, NoRequest
<1>2. /\ Dropped(Serving(p))
      /\ \A t \in Tokens : inFlight'[p][t] = "none"
      /\ \A q \in Procs, t \in Tokens : q # p => inFlight'[q][t] = inFlight[q][t]
  BY <1>1, CrashFacts
<1>3. \A q \in Serving(p) : req[q].who # b
  BY <1>2 DEF Dropped
<1>4. ASSUME NEW q \in Requests
      PROVE  /\ req'[q].who = b <=> req[q].who = b
             /\ req[q].who = b => req'[q] = req[q] /\ pc'[q] = pc[q]
  BY <1>1, <1>2, <1>3 DEF Dropped
<1>5. used'[c] = 0 => used[c] # None
  BY <1>2, SessionAssumption DEF Dropped
<1>6. /\ jar' = jar /\ family' = family /\ used' = used /\ dead' = dead /\ owner' = owner
  BY <1>2 DEF Dropped
<1>7. \A q \in Procs, t \in Tokens : inFlight'[q][t] = None => owner'[t] # b
  BY <1>1, <1>2, <1>6 DEF Undisturbed
<1>8. \A q \in Requests : req[q].who = b =>
            /\ pc[q] = "answer" => req[q].got # None
            /\ req[q].got # None => family[req[q].got] = family[c]
  BY DEF Undisturbed
<1>9. jar[b].refresh = c /\ family[c] \notin dead
  BY DEF Undisturbed
<1>10. QED
  BY <1>4, <1>5, <1>6, <1>7, <1>8, <1>9, SteadyKept

(* Which browsers a step leaves steady, and which it makes so.              *)
LEMMA SteadyStep == SteadyInv /\ [Next]_vars => SteadyInv'
<1> SUFFICES ASSUME SteadyInv, [Next]_vars
             PROVE  SteadyInv'
  OBVIOUS
<1>1. FreshInv /\ FreshInv' /\ OwnInv /\ steady \subseteq Browsers /\ steady' \subseteq Browsers
  BY FreshStep DEF SteadyInv, FreshInv, YoungInv, OwnInv, TypeInv
<1>2. ASSUME NEW b \in steady'
      PROVE  \E c \in Tokens : Undisturbed(b, c)'
  <2>1. b \in Browsers /\ (b \in steady => \E c \in Tokens : Undisturbed(b, c))
    BY <1>1, <1>2 DEF SteadyInv
  <2>2. ASSUME NEW r \in Requests, Receive(r)
        PROVE  \E c \in Tokens : Undisturbed(b, c)'
    BY <1>1, <2>1, <2>2, ReceiveSteady
  <2>3. ASSUME b \in steady
        PROVE  \E c \in Tokens : Undisturbed(b, c)'
    <3>1. PICK c \in Tokens : Undisturbed(b, c)
      BY <2>1, <2>3
    <3>2. CASE UNCHANGED vars
      <4>1. /\ jar' = jar /\ family' = family /\ used' = used /\ dead' = dead /\ owner' = owner
            /\ inFlight' = inFlight /\ pc' = pc /\ req' = req
        BY <3>2 DEF vars, table
      <4>2. Undisturbed(b, c)'
        BY <3>1, <4>1 DEF Undisturbed
      <4>3. QED
        BY <4>2
    <3>3. ASSUME NEW r \in Requests,
                 \/ SendLoad(r) \/ Join(r) \/ StartExchange(r)
                 \/ SendLogin(r) \/ ServeLogin(r)
                 \/ SendLogout(r) \/ ServeLogout(r) \/ LogoutUnheard(r)
                 \/ Lose(r)
          PROVE  Undisturbed(b, c)'
      <4>1. CASE SendLoad(r)
        <5>1. PICK o \in Browsers, p \in Procs : Send(r, o, "load", p)
          BY <4>1 DEF SendLoad
        <5>2. Sent(r, o, "load", p)
          BY <1>1, <5>1, SendFacts
        <5>3. QED
          BY <1>1, <2>1, <3>1, <5>2, SendSteady
      <4>2. CASE SendLogin(r)
        <5>1. PICK o \in Browsers : Send(r, o, "login", None) /\ steady' = steady \ {o}
          BY <4>2 DEF SendLogin
        <5>2. Sent(r, o, "login", None) /\ o # b
          BY <1>1, <1>2, <5>1, SendFacts
        <5>3. QED
          BY <1>1, <2>1, <3>1, <5>2, SendSteady
      <4>3. CASE SendLogout(r)
        <5>1. PICK o \in Browsers : Send(r, o, "logout", None) /\ steady' = steady \ {o}
          BY <4>3 DEF SendLogout
        <5>2. Sent(r, o, "logout", None) /\ o # b
          BY <1>1, <1>2, <5>1, SendFacts
        <5>3. QED
          BY <1>1, <2>1, <3>1, <5>2, SendSteady
      <4>4. QED
        BY <1>1, <1>2, <2>1, <3>1, <3>3, <4>1, <4>2, <4>3, RequestSteady
    <3>4. ASSUME NEW p \in Procs, NEW t \in Tokens,
                 Rotate(p, t) \/ RefuseReuse(p, t) \/ Settle(p, t) \/ ExchangeFails(p, t)
          PROVE  Undisturbed(b, c)'
      BY <1>1, <1>2, <2>1, <3>1, <3>4, RotateSteady, RefuseSteady, SettleSteady
    <3>5. ASSUME NEW p \in Procs, Crash(p)
          PROVE  Undisturbed(b, c)'
      BY <1>1, <1>2, <2>1, <3>1, <3>5, CrashSteady
    <3>6. ASSUME Tick
          PROVE  Undisturbed(b, c)'
      BY <1>1, <2>1, <3>1, <3>6, TickFacts, TickSteady
    <3>7. QED
      BY <2>2, <3>2, <3>3, <3>4, <3>5, <3>6 DEF Next
  <2>4. ASSUME b \notin steady
        PROVE  \E r \in Requests : Receive(r)
    <3>1. ~UNCHANGED vars
      BY <1>2, <2>4 DEF vars, notes
    <3>2. ~Tick /\ \A p \in Procs : ~Crash(p)
      BY <1>2, <2>4 DEF Tick, Crash, Drop, notes
    <3>3. \A p \in Procs, t \in Tokens :
            ~(Rotate(p, t) \/ RefuseReuse(p, t) \/ Settle(p, t) \/ ExchangeFails(p, t))
      BY <1>2, <2>4 DEF Rotate, RefuseReuse, Settle, ExchangeFails, notes
    <3>4. \A r \in Requests :
            ~(\/ SendLoad(r) \/ Join(r) \/ StartExchange(r)
              \/ SendLogin(r) \/ ServeLogin(r)
              \/ SendLogout(r) \/ ServeLogout(r) \/ LogoutUnheard(r)
              \/ Lose(r))
      BY <1>2, <2>4 DEF SendLoad, Join, StartExchange, SendLogin, ServeLogin, SendLogout,
                        ServeLogout, LogoutUnheard, Lose, Drop, notes
    <3>5. QED
      BY <3>1, <3>2, <3>3, <3>4 DEF Next
  <2>5. QED
    BY <2>2, <2>3, <2>4
<1>3. QED
  BY <1>1, <1>2 DEF SteadyInv, Undisturbed

(* In every state a steady browser has an undisturbed session.              *)
THEOREM SteadyInvariant == Spec => []SteadyInv
<1>1. Init => SteadyInv
  BY FreshInit DEF Init, SteadyInv
<1>2. QED
  BY <1>1, SteadyStep, PTL DEF Spec

(* A signed-in agent whose requests are all answered is never signed out by *)
(* the refreshing of its session, however many tabs and processes overlap:  *)
(* given that two requests in a row fit in the grace window.                *)
THEOREM SessionsSurviveRefreshing == Spec => []SessionSurvives
<1>1. SteadyInv => SessionSurvives
  <2>1. SUFFICES ASSUME SteadyInv, NEW b \in steady
                 PROVE  jar[b].refresh # None /\ Accepted(jar[b].refresh)
    BY DEF SessionSurvives
  <2>2. FreshInv /\ b \in Browsers
    BY <2>1 DEF SteadyInv, FreshInv, YoungInv, OwnInv, TypeInv
  <2>3. PICK c \in Tokens : Undisturbed(b, c)
    BY <2>1 DEF SteadyInv
  <2>4. c # None /\ Accepted(c)
    BY <2>2, <2>3, SteadyFacts
  <2>5. QED
    BY <2>3, <2>4 DEF Undisturbed
<1>2. QED
  BY <1>1, SteadyInvariant, PTL
=============================================================================
