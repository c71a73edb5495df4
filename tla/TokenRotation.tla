---------------------------- MODULE TokenRotation ----------------------------
(***************************************************************************)
(* The refresh_token table and every handler that writes it: login, the    *)
(* staff and contact refresh endpoints, logout, and the SQL function       *)
(* auth_revoke_token_family.  Several requests run at once.  One action is *)
(* one committed transaction, or the part of a transaction between two     *)
(* points where it can wait, because PostgreSQL runs them READ COMMITTED.  *)
(*                                                                         *)
(* A refresh token stands for its row.  A family (a random UUID in the     *)
(* code) is named by the token the login issued.  A crash of the API       *)
(* process, a dropped connection and a lost response are all the same      *)
(* thing to this table: the request stops where it is (for a lost          *)
(* response, just before its last step) and its open transaction is rolled *)
(* back.                                                                   *)
(***************************************************************************)
EXTENDS Naturals

CONSTANTS
    Staff, Contacts,    \* the two kinds of principal sharing the table
    Tokens,             \* raw values generateRawToken can return
    Requests,           \* requests the API can be serving at the same time
    Endpoints,          \* refresh endpoints in use, by the kind they are for
    Grace,              \* REFRESH_ROTATION_GRACE_SECONDS, in clock units
    Ttl,                \* JWT_REFRESH_TTL_DAYS, in clock units
    MaxTime,            \* bound on the clock
    None                \* SQL NULL

Principals == Staff \cup Contacts
Kinds == {"staff", "contact"}
KindOf(p) == IF p \in Staff THEN "staff" ELSE "contact"

ASSUME TokenAssumption ==
    /\ Endpoints \subseteq Kinds
    /\ Grace \in Nat
    /\ Ttl \in Nat
    /\ MaxTime \in Nat
    /\ Staff \cap Contacts = {}
    /\ None \notin Tokens \cup Principals
    /\ None \notin Nat

VARIABLES
    clock,          \* the time the API and the database agree on
    active,         \* staff whose user and organisation status are ACTIVE
    issued,         \* tokens with a committed row
    family, principal, expires_at, used_at,     \* columns of those rows
    revoked,        \* rows whose revoked_at is set
    delivered,      \* tokens some client has received
    access,         \* access tokens signed so far
    pc, req,        \* per request: where it is, and its local variables
    parent,         \* history: the token a row was minted from
    minted_at,      \* history: when its rotation decided to mint it
    burned,         \* history: families a revokeFamily call has finished for
    raced,          \* history: families rotated while they were being revoked
    refused         \* history: tokens of exchanges an endpoint turned down

columns == <<family, principal, expires_at, used_at>>
history == <<parent, minted_at, burned, raced, refused>>
vars == <<clock, active, issued, columns, revoked, delivered, access, pc, req,
          history>>

-----------------------------------------------------------------------------
Request == [endpoint : Kinds,                     \* which refresh endpoint
            tok      : Tokens \cup {None},        \* the token presented
            new      : Tokens \cup {None},        \* the value generated here
            who      : Principals \cup {None},    \* whom a login is for
            seen     : BOOLEAN,                   \* status ACTIVE when looked up
            start    : Nat,                       \* clock at the lookup
            stamp    : Nat,                       \* used_at the tx will leave
            decided  : Nat,                       \* clock under the row lock
            snap     : SUBSET Tokens,             \* rows the UPDATE will visit
            why      : {"reuse", "refusal", "logout"}]

NoRequest == [endpoint |-> "contact", tok |-> None, new |-> None,
              who |-> None, seen |-> FALSE, start |-> 0, stamp |-> 0, decided |-> 0,
              snap |-> {}, why |-> "logout"]

\* 256 random bits: a fresh value is one nobody has, committed or not.
Unminted == Tokens \ (issued \cup {req[r].new : r \in Requests})

\* Mutants: no FOR UPDATE; revokeFamily called inside the rotation's transaction.
NeverLocked(t) == t \notin Tokens
LockedWhileRevoking(t) ==
    \E r \in Requests : pc[r] \in {"minting", "revoke", "revoking"} /\ req[r].tok = t

\* FOR UPDATE is held from the decision until the transaction commits.
Locked(t) == \E r \in Requests : pc[r] = "minting" /\ req[r].tok = t

Members(f) == {t \in issued : family[t] = f}

\* A transaction that holds the lock, or has taken its snapshot, in family f.
Rotating(f) == \E r \in Requests : pc[r] = "minting" /\ family[req[r].tok] = f
Revoking(f) == \E r \in Requests : pc[r] = "revoking" /\ family[req[r].tok] = f

Done(r) ==
    /\ pc'  = [pc EXCEPT ![r] = "idle"]
    /\ req' = [req EXCEPT ![r] = NoRequest]

Init ==
    /\ clock = 0
    /\ active = Staff
    /\ issued = {} /\ revoked = {} /\ delivered = {} /\ access = {}
    /\ family     = [t \in Tokens |-> t]
    /\ principal  = [t \in Tokens |-> None]
    /\ expires_at = [t \in Tokens |-> 0]
    /\ used_at    = [t \in Tokens |-> None]
    /\ parent     = [t \in Tokens |-> None]
    /\ minted_at  = [t \in Tokens |-> 0]
    /\ burned = {} /\ raced = {} /\ refused = {}
    /\ pc  = [r \in Requests |-> "idle"]
    /\ req = [r \in Requests |-> NoRequest]

-----------------------------------------------------------------------------
(* Login.  The lookup and the status check are one transaction, the        *)
(* INSERT of the first token of a family a later one.                      *)

\* Mutant: a token for nobody.
StartLoginForNobody(r) ==
    /\ pc[r] = "idle"
    /\ \E s \in Unminted : req' = [req EXCEPT ![r].new = s]
    /\ pc' = [pc EXCEPT ![r] = "login"]
    /\ UNCHANGED <<clock, active, issued, columns, revoked, delivered, access,
                   history>>

StartLogin(r) ==
    /\ pc[r] = "idle"
    /\ \E p \in active \cup Contacts, s \in Unminted :
        req' = [req EXCEPT ![r].new = s, ![r].who = p]
    /\ pc' = [pc EXCEPT ![r] = "login"]
    /\ UNCHANGED <<clock, active, issued, columns, revoked, delivered, access,
                   history>>

IssueRefreshToken(r) ==
    /\ pc[r] = "login"
    /\ LET s == req[r].new
           p == req[r].who
       IN  /\ issued' = issued \cup {s}
           /\ family' = [family EXCEPT ![s] = s]
           /\ principal' = [principal EXCEPT ![s] = p]
           /\ expires_at' = [expires_at EXCEPT ![s] = clock + Ttl]
           /\ minted_at' = [minted_at EXCEPT ![s] = clock]
           /\ access' = access \cup {[kind |-> KindOf(p), sub |-> p]}
           /\ delivered' = delivered \cup {s}
    /\ Done(r)
    /\ UNCHANGED <<clock, active, used_at, revoked, parent, burned, raced,
                   refused>>

-----------------------------------------------------------------------------
(* Refresh.  rotate looks the token up, then locks its row, decides, and   *)
(* commits; the endpoint then judges the record rotate looked up.          *)

\* rotate up to its transaction: a token found revoked or expired is a 401
\* that changes nothing.
StartRefresh(r) ==
    /\ pc[r] = "idle"
    /\ \E e \in Endpoints, t \in delivered, s \in Unminted :
        /\ t \notin revoked
        /\ expires_at[t] > clock
        /\ req' = [req EXCEPT ![r].endpoint = e, ![r].tok = t, ![r].new = s,
                              ![r].seen = principal[t] \in active,
                              ![r].start = clock]
    /\ pc' = [pc EXCEPT ![r] = "checked"]
    /\ UNCHANGED <<clock, active, issued, columns, revoked, delivered, access,
                   history>>

\* Mutant: the window counted from one unit later.
LateByOneMore(t) == used_at[t] # None /\ clock > used_at[t] + Grace + 1

TooLate(t) == used_at[t] # None /\ clock > used_at[t] + Grace

\* The row was revoked while this request was on its way to the lock: 401.
LockRevoked(r) ==
    /\ pc[r] = "checked"
    /\ ~Locked(req[r].tok)
    /\ req[r].tok \in revoked
    /\ Done(r)
    /\ UNCHANGED <<clock, active, issued, columns, revoked, delivered, access,
                   history>>

\* A spent token outside its grace window: the family is to be revoked.
LockReused(r) ==
    /\ pc[r] = "checked"
    /\ ~Locked(req[r].tok)
    /\ req[r].tok \notin revoked
    /\ TooLate(req[r].tok)
    /\ pc'  = [pc EXCEPT ![r] = "revoke"]
    /\ req' = [req EXCEPT ![r] = [NoRequest EXCEPT !.tok = req[r].tok,
                                                  !.why = "reuse"]]
    /\ UNCHANGED <<clock, active, issued, columns, revoked, delivered, access,
                   history>>

\* coalesce(used_at, now()): the first rotation's time is kept.
Stamp(t, now) == IF used_at[t] # None THEN used_at[t] ELSE now

\* Mutant: the token is spent in a transaction before the successor's.
LockSpendMint(r) ==
    /\ pc[r] = "checked"
    /\ ~Locked(req[r].tok)
    /\ req[r].tok \notin revoked
    /\ ~TooLate(req[r].tok)
    /\ used_at' = [used_at EXCEPT ![req[r].tok] = Stamp(req[r].tok, clock)]
    /\ req' = [req EXCEPT ![r].stamp = used_at'[req[r].tok],
                          ![r].decided = clock]
    /\ pc' = [pc EXCEPT ![r] = "minting"]
    /\ UNCHANGED <<clock, active, issued, family, principal, expires_at, revoked,
                   delivered, access, history>>

\* now() is the start of the transaction, somewhere between the lookup and the
\* lock.
LockMint(r) ==
    /\ pc[r] = "checked"
    /\ ~Locked(req[r].tok)
    /\ req[r].tok \notin revoked
    /\ ~TooLate(req[r].tok)
    /\ \E now \in req[r].start .. clock :
        req' = [req EXCEPT ![r].stamp = Stamp(req[r].tok, now),
                           ![r].decided = clock]
    /\ pc' = [pc EXCEPT ![r] = "minting"]
    /\ raced' = raced \cup {f \in {family[req[r].tok]} : Revoking(f)}
    /\ UNCHANGED <<clock, active, issued, columns, revoked, delivered, access,
                   parent, minted_at, burned, refused>>

\* The parent is spent and the successor exists, in one commit.
CommitRotation(r) ==
    /\ pc[r] = "minting"
    /\ LET s == req[r].new
           t == req[r].tok
       IN  /\ issued' = issued \cup {s}
           /\ family' = [family EXCEPT ![s] = family[t]]
           /\ principal' = [principal EXCEPT ![s] = principal[t]]
           /\ expires_at' = [expires_at EXCEPT ![s] = req[r].start + Ttl]
           /\ used_at' = [used_at EXCEPT ![t] = req[r].stamp]
           /\ parent' = [parent EXCEPT ![s] = t]
           /\ minted_at' = [minted_at EXCEPT ![s] = req[r].decided]
    /\ pc'  = [pc EXCEPT ![r] = "minted"]
    /\ req' = [req EXCEPT ![r].start = 0, ![r].stamp = 0, ![r].decided = 0]
    /\ UNCHANGED <<clock, active, revoked, delivered, access, burned, raced, refused>>

\* The endpoint's own checks, on the record rotate returned.
Acceptable(r) ==
    /\ KindOf(principal[req[r].tok]) = req[r].endpoint
    /\ req[r].endpoint = "staff" => req[r].seen

Grant(r) ==
    /\ pc[r] = "minted"
    /\ Acceptable(r)
    /\ access' = access \cup {[kind |-> req[r].endpoint,
                               sub  |-> principal[req[r].tok]]}
    /\ delivered' = delivered \cup {req[r].new}
    /\ Done(r)
    /\ UNCHANGED <<clock, active, issued, columns, revoked, history>>

Refuse(r) ==
    /\ pc[r] = "minted"
    /\ ~Acceptable(r)
    /\ pc'  = [pc EXCEPT ![r] = "revoke"]
    /\ req' = [req EXCEPT ![r] = [NoRequest EXCEPT !.tok = req[r].tok,
                                                  !.new = req[r].new,
                                                  !.why = "refusal"]]
    /\ UNCHANGED <<clock, active, issued, columns, revoked, delivered, access,
                   history>>

-----------------------------------------------------------------------------
(* Logout, and revokeFamily, which reuse and refusal also end in.  Its     *)
(* UPDATE chooses its rows from the snapshot it starts with and then waits *)
(* for each one another transaction has locked.                            *)

StartLogout(r) ==
    /\ pc[r] = "idle"
    /\ \E t \in delivered :
        req' = [req EXCEPT ![r].tok = t, ![r].why = "logout"]
    /\ pc' = [pc EXCEPT ![r] = "revoke"]
    /\ UNCHANGED <<clock, active, issued, columns, revoked, delivered, access,
                   history>>

\* Mutant: only the token presented, not its family.
RevokeOne(r) ==
    /\ pc[r] = "revoke"
    /\ req' = [req EXCEPT ![r].snap = {req[r].tok} \ revoked]
    /\ pc'  = [pc EXCEPT ![r] = "revoking"]
    /\ UNCHANGED <<clock, active, issued, columns, revoked, delivered, access,
                   history>>

RevokeSnapshot(r) ==
    /\ pc[r] = "revoke"
    /\ req' = [req EXCEPT ![r].snap = Members(family[req[r].tok]) \ revoked]
    /\ pc'  = [pc EXCEPT ![r] = "revoking"]
    /\ raced' = raced \cup {f \in {family[req[r].tok]} : Rotating(f)}
    /\ UNCHANGED <<clock, active, issued, columns, revoked, delivered, access,
                   parent, minted_at, burned, refused>>

RevokeApply(r) ==
    /\ pc[r] = "revoking"
    /\ \A t \in req[r].snap : ~Locked(t)
    /\ revoked' = revoked \cup req[r].snap
    /\ burned' = burned \cup {family[req[r].tok]}
    /\ refused' = IF req[r].why = "refusal" THEN refused \cup {req[r].new}
                                            ELSE refused
    /\ Done(r)
    /\ UNCHANGED <<clock, active, issued, columns, delivered, access, parent,
                   minted_at, raced>>

-----------------------------------------------------------------------------
(* The surroundings: time, administrators, crashes.                        *)

Tick ==
    /\ clock < MaxTime
    /\ clock' = clock + 1
    /\ UNCHANGED <<active, issued, columns, revoked, delivered, access, pc, req,
                   history>>

\* The status columns are changed by operators, outside the API.
ChangeStatus ==
    /\ \E p \in Staff : active' = IF p \in active THEN active \ {p}
                                                  ELSE active \cup {p}
    /\ UNCHANGED <<clock, issued, columns, revoked, delivered, access, pc, req,
                   history>>

Crash(r) ==
    /\ pc[r] # "idle"
    /\ Done(r)
    /\ UNCHANGED <<clock, active, issued, columns, revoked, delivered, access,
                   history>>

Serve(r) ==
    \/ IssueRefreshToken(r)
    \/ LockRevoked(r) \/ LockReused(r) \/ LockMint(r) \/ CommitRotation(r)
    \/ Grant(r) \/ Refuse(r)
    \/ RevokeSnapshot(r) \/ RevokeApply(r)

Next ==
    \/ \E r \in Requests :
        StartLogin(r) \/ StartRefresh(r) \/ StartLogout(r) \/ Serve(r) \/ Crash(r)
    \/ Tick
    \/ ChangeStatus

Spec == Init /\ [][Next]_vars

\* A request that can go on does.  Strong fairness, because a transaction
\* waiting for a row keeps its place in PostgreSQL's lock queue.
FairSpec == Spec /\ \A r \in Requests : SF_vars(Serve(r))

-----------------------------------------------------------------------------
(* Types, and the column constraints of refresh_token: a row has a         *)
(* principal, and only committed tokens are revoked or handed out.         *)
TypeOK ==
    /\ clock \in Nat
    /\ active \subseteq Staff
    /\ issued \subseteq Tokens
    /\ revoked \subseteq issued
    /\ delivered \subseteq issued
    /\ family \in [Tokens -> Tokens]
    /\ principal \in [Tokens -> Principals \cup {None}]
    /\ \A t \in issued : principal[t] \in Principals
    /\ expires_at \in [Tokens -> Nat]
    /\ used_at \in [Tokens -> Nat \cup {None}]
    /\ access \subseteq [kind : Kinds, sub : Principals]
    /\ pc \in [Requests -> {"idle", "login", "checked", "minting", "minted",
                            "revoke", "revoking"}]
    /\ req \in [Requests -> Request]
    /\ parent \in [Tokens -> Tokens \cup {None}]
    /\ minted_at \in [Tokens -> Nat]
    /\ burned \subseteq Tokens
    /\ raced \subseteq Tokens
    /\ refused \subseteq Tokens

\* A crash anywhere in a rotation leaves the old token unspent or its successor
\* committed: no spent token is a dead end (token.service.ts:260-264).
SpentHasSuccessor ==
    \A t \in issued :
        used_at[t] # None => \E s \in issued : parent[s] = t

\* Stragglers do not walk the grace window forward: whatever number of requests
\* present one token, the tokens minted from it are minted within Grace of each
\* other (token.service.ts:283-287).
GraceWindowBounded ==
    \A s, t \in issued :
        (parent[s] # None /\ parent[s] = parent[t])
            => minted_at[s] <= minted_at[t] + Grace

\* An endpoint that turns an exchange down has revoked the successor that
\* rotate had already committed for it by the time it answers.
RefusedExchangeLeavesNoToken == refused \subseteq revoked

\* Once revokeFamily has finished for a family, the family has no unrevoked
\* token ("Revoke every unrevoked token in a family", token.service.ts:351).
RevokedFamilyHasNoLiveToken ==
    \A f \in burned : Members(f) \subseteq revoked

\* It has none either when no rotation held a lock in the family between the
\* snapshot and the end of a revocation: that overlap is all that can be missed.
RevocationIsComplete ==
    \A f \in burned \ raced : Members(f) \subseteq revoked

\* Every request is answered, or dies with its process: the row locks cannot
\* leave requests waiting for each other.
RequestsAnswered == \A r \in Requests : pc[r] # "idle" ~> pc[r] = "idle"

-----------------------------------------------------------------------------
(* A login session in the abstract is a family: closed when all of its     *)
(* tokens are revoked.                                                     *)
Phase(f) ==
    IF Members(f) = {} THEN "unborn"
    ELSE IF Members(f) \subseteq revoked THEN "closed" ELSE "open"

S == INSTANCE Session WITH
        Families <- Tokens,
        phase    <- [f \in Tokens |-> Phase(f)],
        owners   <- [f \in Tokens |-> {principal[t] : t \in Members(f)}]

\* Families follow the life of a session: one principal for good, and no
\* rotation, however stale its lookup, revives a family that is all revoked.
FamiliesAreSessions == S!SessionSpec
=============================================================================
