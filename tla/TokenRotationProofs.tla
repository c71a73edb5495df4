------------------------- MODULE TokenRotationProofs -------------------------
(* Theorems about TokenRotation, for every value of its constants. *)
EXTENDS TokenRotation, TLAPS

(* The local variables of a request agree with the table. *)
LocalsOK ==
    \A r \in Requests :
        /\ pc[r] = "login" => req[r].new \in Tokens /\ req[r].who \in Principals
        /\ pc[r] \in {"checked", "minting", "minted"}
            => req[r].tok \in issued /\ req[r].new \in Tokens
        /\ pc[r] = "minted" => req[r].new \in issued
        /\ pc[r] \in {"revoke", "revoking"} => req[r].tok \in issued
        /\ (pc[r] \in {"revoke", "revoking"} /\ req[r].why = "refusal")
            => req[r].new \in issued
        /\ pc[r] = "revoking" => req[r].snap \subseteq issued

TypeInv == TypeOK /\ LocalsOK

(* The empty request is a request.                                          *)
LEMMA IdleRequestType == NoRequest \in Request
  BY TokenAssumption DEF NoRequest, Request, Kinds

(* The first state is of the right type.                                    *)
LEMMA TypeInit == Init => TypeInv
<1> SUFFICES ASSUME Init PROVE TypeInv
  OBVIOUS
<1>1. TypeOK
  BY IdleRequestType, TokenAssumption DEF Init, TypeOK
<1>2. LocalsOK
  BY DEF Init, LocalsOK
<1>3. QED
  BY <1>1, <1>2 DEF TypeInv

(* Every step keeps the types of columns and locals.                        *)
LEMMA TypeStep == TypeInv /\ [Next]_vars => TypeInv'
<1> SUFFICES ASSUME TypeInv, [Next]_vars PROVE TypeInv'
  OBVIOUS
<1> USE TokenAssumption, IdleRequestType DEF TypeInv, TypeOK, LocalsOK, Done
<1>1. ASSUME NEW r \in Requests, StartLogin(r) PROVE TypeInv'
  <2>1. PICK p \in active \cup Contacts, s \in Unminted :
          req' = [req EXCEPT ![r].new = s, ![r].who = p]
    BY <1>1 DEF StartLogin
  <2>2. p \in Principals /\ s \in Tokens
    BY <2>1 DEF Unminted, Principals
  <2>3. TypeOK'
    <3>1. req[r] \in Request
      OBVIOUS
    <3>2. [req[r] EXCEPT !.new = s, !.who = p] \in Request
      BY <2>2, <3>1 DEF Request
    <3>3. req' \in [Requests -> Request]
      BY <2>1, <3>2
    <3>4. QED
      BY <1>1, <3>3 DEF StartLogin, columns, history
  <2>4. LocalsOK'
    BY <1>1, <2>1, <2>2 DEF StartLogin, Request
  <2>5. QED
    BY <2>3, <2>4
<1>2. ASSUME NEW r \in Requests, IssueRefreshToken(r) PROVE TypeInv'
  BY <1>2 DEF IssueRefreshToken, Request, Kinds, KindOf
<1>3. ASSUME NEW r \in Requests, StartRefresh(r) PROVE TypeInv'
  BY <1>3 DEF StartRefresh, columns, history, Request, Unminted
<1>4. ASSUME NEW r \in Requests, LockRevoked(r) PROVE TypeInv'
  BY <1>4 DEF LockRevoked, columns, history
<1>5. ASSUME NEW r \in Requests, LockReused(r) PROVE TypeInv'
  <2>1. req' = [req EXCEPT ![r] = [NoRequest EXCEPT !.tok = req[r].tok,
                                                   !.why = "reuse"]]
        /\ pc' = [pc EXCEPT ![r] = "revoke"] /\ pc[r] = "checked"
    BY <1>5 DEF LockReused
  <2>2. req[r].tok \in issued
    BY <2>1
  <2>3. [NoRequest EXCEPT !.tok = req[r].tok, !.why = "reuse"] \in Request
    BY <2>2 DEF Request
  <2>4. TypeOK'
    BY <1>5, <2>1, <2>3 DEF LockReused, columns, history
  <2>5. LocalsOK'
    BY <1>5, <2>1, <2>2 DEF LockReused, NoRequest
  <2>6. QED
    BY <2>4, <2>5
<1>6. ASSUME NEW r \in Requests, LockMint(r) PROVE TypeInv'
  <2>1. PICK now \in req[r].start .. clock :
          req' = [req EXCEPT ![r].stamp = IF used_at[req[r].tok] # None
                                            THEN used_at[req[r].tok] ELSE now,
                             ![r].decided = clock]
    BY <1>6 DEF LockMint, Stamp
  <2>2. used_at[req[r].tok] # None => used_at[req[r].tok] \in Nat
    BY <1>6 DEF LockMint
  <2>3. now \in Nat
    BY <2>1 DEF Request
  <2>4. TypeOK'
    <3>1. req[r] \in Request
      OBVIOUS
    <3>2. \A n \in Nat : [req[r] EXCEPT !.stamp = n, !.decided = clock]
                            \in Request
      BY <3>1 DEF Request
    <3>3. PICK n \in Nat :
            req' = [req EXCEPT ![r] = [req[r] EXCEPT !.stamp = n, !.decided = clock]]
      BY <2>1, <2>2, <2>3
    <3>4. req' \in [Requests -> Request]
      BY <3>2, <3>3
    <3>5. QED
      BY <1>6, <3>4 DEF LockMint, columns, history
  <2>5. LocalsOK'
    BY <1>6, <2>1 DEF LockMint, Request
  <2>6. QED
    BY <2>4, <2>5
<1>7. ASSUME NEW r \in Requests, CommitRotation(r) PROVE TypeInv'
  <2>1. req[r].tok \in issued /\ req[r].new \in Tokens
    BY <1>7 DEF CommitRotation
  <2>2. TypeOK'
    <3>1. req[r] \in Request
      OBVIOUS
    <3>2. [req[r] EXCEPT !.start = 0, !.stamp = 0, !.decided = 0] \in Request
      BY <3>1 DEF Request
    <3>3. req' \in [Requests -> Request]
      BY <1>7, <3>2 DEF CommitRotation
    <3>4. req[r].start \in Nat /\ req[r].stamp \in Nat /\ req[r].decided \in Nat
      BY <3>1 DEF Request
    <3>5. expires_at' \in [Tokens -> Nat]
      BY <1>7, <2>1, <3>4 DEF CommitRotation
    <3>6. QED
      BY <1>7, <2>1, <3>3, <3>4, <3>5 DEF CommitRotation
  <2>3. LocalsOK'
    BY <1>7, <2>1 DEF CommitRotation, Request
  <2>4. QED
    BY <2>2, <2>3
<1>8. ASSUME NEW r \in Requests, Grant(r) PROVE TypeInv'
  BY <1>8 DEF Grant, columns, history, Request, Kinds
<1>9. ASSUME NEW r \in Requests, Refuse(r) PROVE TypeInv'
  <2>1. req' = [req EXCEPT ![r] = [NoRequest EXCEPT !.tok = req[r].tok,
                                                   !.new = req[r].new,
                                                   !.why = "refusal"]]
        /\ pc' = [pc EXCEPT ![r] = "revoke"] /\ pc[r] = "minted"
    BY <1>9 DEF Refuse
  <2>2. req[r].tok \in issued /\ req[r].new \in issued
    BY <2>1
  <2>3. [NoRequest EXCEPT !.tok = req[r].tok, !.new = req[r].new,
                          !.why = "refusal"] \in Request
    BY <2>2 DEF Request
  <2>4. TypeOK'
    BY <1>9, <2>1, <2>3 DEF Refuse, columns, history
  <2>5. LocalsOK'
    BY <1>9, <2>1, <2>2 DEF Refuse, NoRequest
  <2>6. QED
    BY <2>4, <2>5
<1>10. ASSUME NEW r \in Requests, StartLogout(r) PROVE TypeInv'
  <2>1. PICK t \in delivered :
          req' = [req EXCEPT ![r].tok = t, ![r].why = "logout"]
    BY <1>10 DEF StartLogout
  <2>2. TypeOK'
    <3>1. req[r] \in Request
      OBVIOUS
    <3>2. [req[r] EXCEPT !.tok = t, !.why = "logout"] \in Request
      BY <3>1 DEF Request
    <3>3. req' \in [Requests -> Request]
      BY <2>1, <3>2
    <3>4. QED
      BY <1>10, <3>3 DEF StartLogout, columns, history
  <2>3. LocalsOK'
    BY <1>10, <2>1 DEF StartLogout, Request
  <2>4. QED
    BY <2>2, <2>3
<1>11. ASSUME NEW r \in Requests, RevokeSnapshot(r) PROVE TypeInv'
  <2>1. PICK rows : /\ req' = [req EXCEPT ![r].snap = rows]
                    /\ rows = Members(family[req[r].tok]) \ revoked
    BY <1>11 DEF RevokeSnapshot
  <2>2. rows \subseteq issued
    BY <2>1 DEF Members
  <2>3. [req[r] EXCEPT !.snap = rows] \in Request
    BY <2>2 DEF Request
  <2>4. req' \in [Requests -> Request]
    BY <2>1, <2>3
  <2>5. raced' \subseteq Tokens
    BY <1>11 DEF RevokeSnapshot, Request
  <2>6. TypeOK'
    BY <1>11, <2>4, <2>5 DEF RevokeSnapshot, columns
  <2>7. LocalsOK'
    BY <1>11, <2>1, <2>2 DEF RevokeSnapshot, columns, Request
  <2>8. QED
    BY <2>6, <2>7
<1>12. ASSUME NEW r \in Requests, RevokeApply(r) PROVE TypeInv'
  BY <1>12 DEF RevokeApply, columns
<1>13. CASE Tick
  BY <1>13 DEF Tick, columns, history
<1>14. CASE ChangeStatus
  BY <1>14 DEF ChangeStatus, columns, history
<1>15. ASSUME NEW r \in Requests, Crash(r) PROVE TypeInv'
  BY <1>15 DEF Crash, columns, history
<1>16. CASE UNCHANGED vars
  BY <1>16 DEF vars, columns, history
<1>17. QED
  BY <1>1, <1>2, <1>3, <1>4, <1>5, <1>6, <1>7, <1>8, <1>9, <1>10, <1>11,
     <1>12, <1>13, <1>14, <1>15, <1>16 DEF Next, Serve

(* Every variable keeps its type, every committed row has a principal, and  *)
(* only committed tokens are revoked or delivered (0003:108-125).           *)
THEOREM TypeCorrect == Spec => []TypeOK
<1>1. TypeInv => TypeOK
  BY DEF TypeInv
<1>2. QED
  BY <1>1, TypeInit, TypeStep, PTL DEF Spec

-----------------------------------------------------------------------------
(* What the row lock and the fresh random values give: a value in flight is *)
(* nobody's row, a row being rotated is neither revoked nor rotated by      *)
(* someone else, and a revocation only visits rows of one family.           *)
InFlight(r) == pc[r] \in {"login", "checked", "minting"}

FreshValues ==
    \A r \in Requests : InFlight(r) =>
        /\ req[r].new \notin issued
        /\ \A q \in Requests : q # r => req[q].new # req[r].new

LockedRows ==
    \A r \in Requests : pc[r] = "minting" =>
        /\ req[r].tok \notin revoked
        /\ \A q \in Requests :
            (q # r /\ pc[q] = "minting") => req[q].tok # req[r].tok

FamilyRoots == \A t \in issued : family[t] \in issued

OneFamilySnapshots ==
    \A r \in Requests : pc[r] = "revoking" =>
        \A t \in req[r].snap : family[t] = family[req[r].tok]

RotationInv == FreshValues /\ LockedRows /\ FamilyRoots /\ OneFamilySnapshots

(* At the start there are no rows, and nothing is in flight.                *)
LEMMA RotationInit == Init => RotationInv
  BY DEF Init, RotationInv, FreshValues, LockedRows, FamilyRoots,
         OneFamilySnapshots, InFlight

(* Values in flight stay fresh: only the request holding one commits it. *)
LEMMA FreshStep == TypeInv /\ FreshValues /\ [Next]_vars => FreshValues'
<1> SUFFICES ASSUME TypeInv, FreshValues, [Next]_vars PROVE FreshValues'
  OBVIOUS
<1> USE TokenAssumption DEF TypeInv, TypeOK, LocalsOK, Done, FreshValues,
        InFlight, Request
<1>1. ASSUME NEW r \in Requests, StartLogin(r) PROVE FreshValues'
  BY <1>1 DEF StartLogin, Unminted
<1>2. ASSUME NEW r \in Requests, IssueRefreshToken(r) PROVE FreshValues'
  BY <1>2 DEF IssueRefreshToken, NoRequest
<1>3. ASSUME NEW r \in Requests, StartRefresh(r) PROVE FreshValues'
  BY <1>3 DEF StartRefresh, Unminted
<1>4. ASSUME NEW r \in Requests, LockRevoked(r) PROVE FreshValues'
  BY <1>4 DEF LockRevoked, NoRequest
<1>5. ASSUME NEW r \in Requests, LockReused(r) PROVE FreshValues'
  BY <1>5 DEF LockReused, NoRequest
<1>6. ASSUME NEW r \in Requests, LockMint(r) PROVE FreshValues'
  BY <1>6 DEF LockMint
<1>7. ASSUME NEW r \in Requests, CommitRotation(r) PROVE FreshValues'
  BY <1>7 DEF CommitRotation
<1>8. ASSUME NEW r \in Requests, Grant(r) PROVE FreshValues'
  BY <1>8 DEF Grant, NoRequest
<1>9. ASSUME NEW r \in Requests, Refuse(r) PROVE FreshValues'
  BY <1>9 DEF Refuse, NoRequest
<1>10. ASSUME NEW r \in Requests, StartLogout(r) PROVE FreshValues'
  BY <1>10 DEF StartLogout
<1>11. ASSUME NEW r \in Requests, RevokeSnapshot(r) PROVE FreshValues'
  BY <1>11 DEF RevokeSnapshot
<1>12. ASSUME NEW r \in Requests, RevokeApply(r) PROVE FreshValues'
  BY <1>12 DEF RevokeApply, NoRequest
<1>13. CASE Tick
  BY <1>13 DEF Tick
<1>14. CASE ChangeStatus
  BY <1>14 DEF ChangeStatus
<1>15. ASSUME NEW r \in Requests, Crash(r) PROVE FreshValues'
  BY <1>15 DEF Crash, NoRequest
<1>16. CASE UNCHANGED vars
  <2>1. UNCHANGED <<issued, pc, req>>
    BY <1>16 DEF vars
  <2>2. QED
    BY <2>1
<1>17. QED
  BY <1>1, <1>2, <1>3, <1>4, <1>5, <1>6, <1>7, <1>8, <1>9, <1>10, <1>11,
     <1>12, <1>13, <1>14, <1>15, <1>16 DEF Next, Serve

(* The lock protocol: whoever takes a row finds it unlocked and unrevoked,   *)
(* and a revocation waits for every row it is about to stamp.                *)
LEMMA LockStep == TypeInv /\ LockedRows /\ [Next]_vars => LockedRows'
<1> SUFFICES ASSUME TypeInv, LockedRows, [Next]_vars PROVE LockedRows'
  OBVIOUS
<1> USE DEF TypeInv, TypeOK, LockedRows, Done, Request
<1>1. ASSUME NEW r \in Requests, StartLogin(r) PROVE LockedRows'
  BY <1>1 DEF StartLogin
<1>2. ASSUME NEW r \in Requests, IssueRefreshToken(r) PROVE LockedRows'
  BY <1>2 DEF IssueRefreshToken
<1>3. ASSUME NEW r \in Requests, StartRefresh(r) PROVE LockedRows'
  BY <1>3 DEF StartRefresh
<1>4. ASSUME NEW r \in Requests, LockRevoked(r) PROVE LockedRows'
  BY <1>4 DEF LockRevoked
<1>5. ASSUME NEW r \in Requests, LockReused(r) PROVE LockedRows'
  BY <1>5 DEF LockReused
<1>6. ASSUME NEW r \in Requests, LockMint(r) PROVE LockedRows'
  BY <1>6 DEF LockMint, Locked
<1>7. ASSUME NEW r \in Requests, CommitRotation(r) PROVE LockedRows'
  BY <1>7 DEF CommitRotation
<1>8. ASSUME NEW r \in Requests, Grant(r) PROVE LockedRows'
  BY <1>8 DEF Grant
<1>9. ASSUME NEW r \in Requests, Refuse(r) PROVE LockedRows'
  BY <1>9 DEF Refuse
<1>10. ASSUME NEW r \in Requests, StartLogout(r) PROVE LockedRows'
  BY <1>10 DEF StartLogout
<1>11. ASSUME NEW r \in Requests, RevokeSnapshot(r) PROVE LockedRows'
  BY <1>11 DEF RevokeSnapshot
<1>12. ASSUME NEW r \in Requests, RevokeApply(r) PROVE LockedRows'
  BY <1>12 DEF RevokeApply, Locked
<1>13. CASE Tick
  BY <1>13 DEF Tick
<1>14. CASE ChangeStatus
  BY <1>14 DEF ChangeStatus
<1>15. ASSUME NEW r \in Requests, Crash(r) PROVE LockedRows'
  BY <1>15 DEF Crash
<1>16. CASE UNCHANGED vars
  BY <1>16 DEF vars
<1>17. QED
  BY <1>1, <1>2, <1>3, <1>4, <1>5, <1>6, <1>7, <1>8, <1>9, <1>10, <1>11,
     <1>12, <1>13, <1>14, <1>15, <1>16 DEF Next, Serve

(* A request's step moves that request alone.                               *)
LEMMA OthersWait ==
    ASSUME TypeOK, NEW r \in Requests,
           \/ StartLogin(r) \/ StartRefresh(r) \/ StartLogout(r)
           \/ Serve(r) \/ Crash(r)
    PROVE  \A q \in Requests \ {r} : pc'[q] = pc[q] /\ req'[q] = req[q]
<1>1. pc \in [Requests -> {"idle", "login", "checked", "minting", "minted",
                           "revoke", "revoking"}]
      /\ req \in [Requests -> Request]
  BY DEF TypeOK
<1>2. CASE StartLogin(r) \/ StartLogout(r)
  BY <1>1, <1>2 DEF StartLogin, StartLogout
<1>3. CASE StartRefresh(r)
  <2>1. PICK e \in Endpoints, t \in delivered, s \in Unminted :
          /\ t \notin revoked
          /\ expires_at[t] > clock
          /\ req' = [req EXCEPT ![r].endpoint = e, ![r].tok = t, ![r].new = s,
                                ![r].seen = principal[t] \in active,
                                ![r].start = clock]
    BY <1>3, Zenon DEF StartRefresh
  <2>2. PICK b : b = (principal[t] \in active)
    BY Zenon
  <2>3. req' = [req EXCEPT ![r].endpoint = e, ![r].tok = t, ![r].new = s,
                           ![r].seen = b, ![r].start = clock]
    BY <2>1, <2>2, Zenon
  <2>4. pc' = [pc EXCEPT ![r] = "checked"]
    BY <1>3, Zenon DEF StartRefresh
  <2>5. QED
    BY <1>1, <2>3, <2>4
<1>4. CASE IssueRefreshToken(r) \/ LockRevoked(r) \/ Crash(r)
  BY <1>1, <1>4 DEF IssueRefreshToken, LockRevoked, Crash, Done
<1>5. CASE LockReused(r) \/ Refuse(r)
  BY <1>1, <1>5 DEF LockReused, Refuse
<1>6. CASE LockMint(r)
  BY <1>1, <1>6 DEF LockMint
<1>7. CASE CommitRotation(r)
  BY <1>1, <1>7 DEF CommitRotation
<1>8. CASE Grant(r) \/ RevokeApply(r)
  BY <1>1, <1>8 DEF Grant, RevokeApply, Done
<1>9. CASE RevokeSnapshot(r)
  BY <1>1, <1>9 DEF RevokeSnapshot
<1>10. QED
  BY <1>2, <1>3, <1>4, <1>5, <1>6, <1>7, <1>8, <1>9 DEF Serve

(* Only a login and a rotation's commit write the rows, revoked_at apart.   *)
LEMMA RowsStay ==
    ASSUME NEW r \in Requests,
           \/ StartLogin(r) \/ StartRefresh(r) \/ StartLogout(r)
           \/ LockRevoked(r) \/ LockReused(r) \/ LockMint(r)
           \/ Grant(r) \/ Refuse(r)
           \/ RevokeSnapshot(r) \/ RevokeApply(r) \/ Crash(r)
    PROVE  UNCHANGED <<issued, family, principal, expires_at, used_at, parent,
                       minted_at>>
<1>1. CASE StartLogin(r)
  BY <1>1 DEF StartLogin, columns, history
<1>2. CASE StartRefresh(r)
  BY <1>2 DEF StartRefresh, columns, history
<1>3. CASE StartLogout(r)
  BY <1>3 DEF StartLogout, columns, history
<1>4. CASE LockRevoked(r)
  BY <1>4 DEF LockRevoked, columns, history
<1>5. CASE LockReused(r)
  BY <1>5 DEF LockReused, columns, history
<1>6. CASE LockMint(r)
  BY <1>6 DEF LockMint, columns, history
<1>7. CASE Grant(r)
  BY <1>7 DEF Grant, columns, history
<1>8. CASE Refuse(r)
  BY <1>8 DEF Refuse, columns, history
<1>9. CASE RevokeSnapshot(r)
  BY <1>9 DEF RevokeSnapshot, columns, history
<1>10. CASE RevokeApply(r)
  BY <1>10 DEF RevokeApply, columns, history
<1>11. CASE Crash(r)
  BY <1>11 DEF Crash, columns, history
<1>12. QED
  BY <1>1, <1>2, <1>3, <1>4, <1>5, <1>6, <1>7,
     <1>8, <1>9, <1>10, <1>11

(* Among those, only the end of a revocation sets revoked_at.               *)
LEMMA RevokedStays ==
    ASSUME NEW r \in Requests,
           \/ StartLogin(r) \/ StartRefresh(r) \/ StartLogout(r)
           \/ LockRevoked(r) \/ LockReused(r) \/ LockMint(r)
           \/ Grant(r) \/ Refuse(r) \/ RevokeSnapshot(r) \/ Crash(r)
    PROVE  UNCHANGED revoked
<1>1. CASE StartLogin(r)
  BY <1>1 DEF StartLogin
<1>2. CASE StartRefresh(r)
  BY <1>2 DEF StartRefresh
<1>3. CASE StartLogout(r)
  BY <1>3 DEF StartLogout
<1>4. CASE LockRevoked(r)
  BY <1>4 DEF LockRevoked
<1>5. CASE LockReused(r)
  BY <1>5 DEF LockReused
<1>6. CASE LockMint(r)
  BY <1>6 DEF LockMint
<1>7. CASE Grant(r)
  BY <1>7 DEF Grant
<1>8. CASE Refuse(r)
  BY <1>8 DEF Refuse
<1>9. CASE RevokeSnapshot(r)
  BY <1>9 DEF RevokeSnapshot
<1>10. CASE Crash(r)
  BY <1>10 DEF Crash
<1>11. QED
  BY <1>1, <1>2, <1>3, <1>4, <1>5, <1>6, <1>7,
     <1>8, <1>9, <1>10

(* A family keeps its first token, and committed rows keep their family.    *)
LEMMA RootStep == TypeInv /\ FreshValues /\ FamilyRoots /\ [Next]_vars
                    => FamilyRoots' /\ (\A t \in issued : family'[t] = family[t]
                                            /\ principal'[t] = principal[t])
<1> SUFFICES ASSUME TypeInv, FreshValues, FamilyRoots, [Next]_vars
             PROVE  FamilyRoots' /\ (\A t \in issued : family'[t] = family[t]
                                        /\ principal'[t] = principal[t])
  OBVIOUS
<1> USE DEF TypeInv, TypeOK, LocalsOK, FamilyRoots
<1>1. ASSUME NEW r \in Requests, IssueRefreshToken(r)
      PROVE  FamilyRoots' /\ (\A t \in issued : family'[t] = family[t]
                                /\ principal'[t] = principal[t])
  BY <1>1 DEF IssueRefreshToken, FreshValues, InFlight
<1>2. ASSUME NEW r \in Requests, CommitRotation(r)
      PROVE  FamilyRoots' /\ (\A t \in issued : family'[t] = family[t]
                                /\ principal'[t] = principal[t])
  BY <1>2 DEF CommitRotation, FreshValues, InFlight
<1>3. CASE UNCHANGED <<issued, family, principal>>
  BY <1>3
<1>4. ASSUME NEW r \in Requests,
             \/ StartLogin(r) \/ StartRefresh(r) \/ StartLogout(r)
             \/ LockRevoked(r) \/ LockReused(r) \/ LockMint(r)
             \/ Grant(r) \/ Refuse(r)
             \/ RevokeSnapshot(r) \/ RevokeApply(r) \/ Crash(r)
      PROVE  UNCHANGED <<issued, family, principal>>
  BY <1>4, RowsStay
<1>5. CASE Tick \/ ChangeStatus \/ UNCHANGED vars
  BY <1>3, <1>5 DEF Tick, ChangeStatus, vars, columns
<1>6. QED
  BY <1>1, <1>2, <1>3, <1>4, <1>5 DEF Next, Serve

(* A revocation under way has rows of one family only.                      *)
LEMMA SnapshotStep ==
    TypeInv /\ FreshValues /\ FamilyRoots /\ OneFamilySnapshots /\ [Next]_vars
        => OneFamilySnapshots'
<1> SUFFICES ASSUME TypeInv, FreshValues, FamilyRoots, OneFamilySnapshots,
                    [Next]_vars
             PROVE  OneFamilySnapshots'
  OBVIOUS
<1>0. \A t \in issued : family'[t] = family[t]
  BY RootStep
<1>9. TypeOK /\ pc \in [Requests -> {"idle", "login", "checked", "minting",
                                     "minted", "revoke", "revoking"}]
  BY DEF TypeInv, TypeOK
<1>10. ASSUME NEW r \in Requests,
              \/ StartLogin(r) \/ StartRefresh(r) \/ StartLogout(r)
              \/ Serve(r) \/ Crash(r)
       PROVE  \A q \in Requests \ {r} : pc'[q] = pc[q] /\ req'[q] = req[q]
  BY <1>9, <1>10, OthersWait
<1>1. ASSUME NEW r \in Requests, RevokeSnapshot(r) PROVE OneFamilySnapshots'
  BY <1>0, <1>1 DEF RevokeSnapshot, Members, Request, TypeInv, TypeOK,
                    LocalsOK, OneFamilySnapshots
<1>2. ASSUME NEW r \in Requests, pc'[r] # "revoking",
             \A q \in Requests \ {r} : pc'[q] = pc[q] /\ req'[q] = req[q]
      PROVE  OneFamilySnapshots'
  BY <1>0, <1>2 DEF TypeInv, TypeOK, LocalsOK, OneFamilySnapshots
<1>3. ASSUME UNCHANGED <<pc, req>> PROVE OneFamilySnapshots'
  BY <1>0, <1>3 DEF TypeInv, TypeOK, LocalsOK, OneFamilySnapshots
<1>4. ASSUME NEW r \in Requests, StartLogin(r) \/ StartRefresh(r) \/ StartLogout(r)
      PROVE  OneFamilySnapshots'
  <2>1. pc'[r] # "revoking"
    <3>1. CASE StartLogin(r) \/ StartLogout(r)
      BY <1>9, <3>1 DEF StartLogin, StartLogout
    <3>2. CASE StartRefresh(r)
      <4>1. pc' = [pc EXCEPT ![r] = "checked"]
        BY <3>2, Zenon DEF StartRefresh
      <4>2. QED
        BY <1>9, <4>1
    <3>3. QED
      BY <1>4, <3>1, <3>2
  <2>2. QED
    BY <1>2, <1>4, <1>10, <2>1
<1>5. ASSUME NEW r \in Requests,
             IssueRefreshToken(r) \/ LockRevoked(r) \/ LockReused(r) \/ LockMint(r)
      PROVE  OneFamilySnapshots'
  <2>1. pc'[r] # "revoking"
    <3>1. CASE IssueRefreshToken(r) \/ LockRevoked(r)
      BY <1>9, <3>1 DEF IssueRefreshToken, LockRevoked, Done
    <3>2. CASE LockReused(r) \/ LockMint(r)
      BY <1>9, <3>2 DEF LockReused, LockMint
    <3>3. QED
      BY <1>5, <3>1, <3>2
  <2>2. QED
    BY <1>2, <1>5, <1>10, <2>1 DEF Serve
<1>6. ASSUME NEW r \in Requests,
             CommitRotation(r) \/ Grant(r) \/ Refuse(r) \/ RevokeApply(r) \/ Crash(r)
      PROVE  OneFamilySnapshots'
  <2>1. pc'[r] # "revoking"
    <3>1. CASE CommitRotation(r) \/ Grant(r)
      BY <1>9, <3>1 DEF CommitRotation, Grant, Done
    <3>2. CASE Refuse(r) \/ RevokeApply(r) \/ Crash(r)
      BY <1>9, <3>2 DEF Refuse, RevokeApply, Crash, Done
    <3>3. QED
      BY <1>6, <3>1, <3>2
  <2>2. QED
    BY <1>2, <1>6, <1>10, <2>1 DEF Serve
<1>7. CASE Tick \/ ChangeStatus \/ UNCHANGED vars
  BY <1>3, <1>7 DEF Tick, ChangeStatus, vars
<1>8. QED
  BY <1>1, <1>4, <1>5, <1>6, <1>7 DEF Next, Serve

IInv == TypeInv /\ RotationInv

(* Every step keeps rotations, families and snapshots in order.             *)
LEMMA InductiveStep == IInv /\ [Next]_vars => IInv'
  BY TypeStep, FreshStep, LockStep, RootStep, SnapshotStep DEF IInv, RotationInv

-----------------------------------------------------------------------------
(* The refinement, one action at a time.  Only three of them touch what a   *)
(* session is made of: a login opens one, a rotation adds a token to one    *)
(* that is open (the locked parent is not revoked), and a revocation closes *)
(* one or, when a rotation slipped in, leaves it open.                      *)

SessionVarsSame == UNCHANGED <<issued, family, principal, revoked>>

(* A step that leaves the rows alone changes no session.                    *)
LEMMA SameSessions == SessionVarsSame => UNCHANGED S!sessionVars
  BY DEF SessionVarsSame, S!sessionVars, Phase, Members

(* A login opens a session nobody had.                                      *)
LEMMA LoginOpens ==
    ASSUME IInv, NEW r \in Requests, IssueRefreshToken(r)
    PROVE  \E f \in Tokens, p \in Principals : S!Open(f, p)
<1>0. PICK s, p : s = req[r].new /\ p = req[r].who
  OBVIOUS
<1>1. s \in Tokens /\ p \in Principals /\ s \notin issued /\ s \notin revoked
  BY <1>0 DEF IssueRefreshToken, IInv, TypeInv, TypeOK, LocalsOK, RotationInv,
              FreshValues, InFlight
<1>2. /\ issued' = issued \cup {s}
      /\ family' = [family EXCEPT ![s] = s]
      /\ principal' = [principal EXCEPT ![s] = p]
      /\ revoked' = revoked
  BY <1>0 DEF IssueRefreshToken
<1>3. Members(s) = {} /\ Members(s)' = {s}
  BY <1>1, <1>2 DEF IInv, TypeInv, TypeOK, RotationInv, FamilyRoots, Members
<1>4. ASSUME NEW f \in Tokens, f # s
      PROVE  /\ Members(f)' = Members(f)
             /\ \A t \in Members(f) : principal'[t] = principal[t]
  BY <1>1, <1>2, <1>4 DEF IInv, TypeInv, TypeOK, Members
<1>5. [f \in Tokens |-> Phase(f)]'
        = [[f \in Tokens |-> Phase(f)] EXCEPT ![s] = "open"]
  BY <1>1, <1>2, <1>3, <1>4 DEF Phase
<1>6. ASSUME NEW f \in Tokens, f # s
      PROVE  {principal[t] : t \in Members(f)}' = {principal[t] : t \in Members(f)}
  BY <1>4, <1>6
<1>7. {principal[t] : t \in Members(s)}' = {p}
  BY <1>1, <1>2, <1>3 DEF IInv, TypeInv, TypeOK
<1>8. [f \in Tokens |-> {principal[t] : t \in Members(f)}]'
        = [[f \in Tokens |-> {principal[t] : t \in Members(f)}] EXCEPT ![s] = {p}]
  BY <1>1, <1>6, <1>7
<1>9. Phase(s) = "unborn"
  BY <1>3 DEF Phase
<1>10. S!Open(s, p)
  BY <1>1, <1>5, <1>8, <1>9 DEF S!Open
<1>11. QED
  BY <1>1, <1>10

(* A rotation changes no session.                                           *)
LEMMA RotationStutters ==
    ASSUME IInv, NEW r \in Requests, CommitRotation(r)
    PROVE  UNCHANGED S!sessionVars
<1>0. PICK s, u : s = req[r].new /\ u = req[r].tok
  OBVIOUS
<1>1. /\ s \in Tokens /\ s \notin issued /\ s \notin revoked
      /\ u \in issued /\ u \notin revoked
  BY <1>0 DEF CommitRotation, IInv, TypeInv, TypeOK, LocalsOK, RotationInv,
              FreshValues, InFlight, LockedRows
<1>2. /\ issued' = issued \cup {s}
      /\ family' = [family EXCEPT ![s] = family[u]]
      /\ principal' = [principal EXCEPT ![s] = principal[u]]
      /\ revoked' = revoked
  BY <1>0 DEF CommitRotation
<1>3. PICK g \in Tokens : g = family[u] /\ u \in Members(g)
  BY <1>1 DEF Members, IInv, TypeInv, TypeOK
<1>4. Members(g)' = Members(g) \cup {s}
  BY <1>1, <1>2, <1>3 DEF IInv, TypeInv, TypeOK, Members
<1>5. ASSUME NEW f \in Tokens, f # g PROVE Members(f)' = Members(f)
  BY <1>1, <1>2, <1>3, <1>5 DEF IInv, TypeInv, TypeOK, Members
<1>6. \A t \in issued : principal'[t] = principal[t]
  BY <1>1, <1>2 DEF IInv, TypeInv, TypeOK
<1>7. principal'[s] = principal[u]
  BY <1>1, <1>2 DEF IInv, TypeInv, TypeOK
<1>8. ASSUME NEW f \in Tokens PROVE Phase(f)' = Phase(f)
  BY <1>1, <1>2, <1>3, <1>4, <1>5 DEF Phase
<1>9. ASSUME NEW f \in Tokens
      PROVE  {principal[t] : t \in Members(f)}' = {principal[t] : t \in Members(f)}
  <2>1. CASE f = g
    BY <1>3, <1>4, <1>6, <1>7, <2>1 DEF Members
  <2>2. CASE f # g
    BY <1>5, <1>6, <2>2 DEF Members
  <2>3. QED
    BY <2>1, <2>2
<1>10. QED
  BY <1>8, <1>9 DEF S!sessionVars

(* A revocation closes one session, or none.                                *)
LEMMA RevocationCloses ==
    ASSUME IInv, NEW r \in Requests, RevokeApply(r)
    PROVE  UNCHANGED S!sessionVars \/ S!Close(family[req[r].tok])
<1>0. PICK g : g = family[req[r].tok]
  OBVIOUS
<1>1. /\ req[r].snap \subseteq issued
      /\ \A t \in req[r].snap : family[t] = g
      /\ g \in Tokens /\ req[r].tok \in Members(g)
  BY <1>0 DEF RevokeApply, IInv, TypeInv, TypeOK, LocalsOK, RotationInv,
              OneFamilySnapshots, Members
<1>2. revoked' = revoked \cup req[r].snap /\ UNCHANGED <<issued, family, principal>>
  BY DEF RevokeApply, columns
<1>3. \A f : Members(f)' = Members(f)
  BY <1>2 DEF Members
<1>4. [f \in Tokens |-> {principal[t] : t \in Members(f)}]'
        = [f \in Tokens |-> {principal[t] : t \in Members(f)}]
  BY <1>2, <1>3
<1>5. ASSUME NEW f \in Tokens, f # g PROVE Phase(f)' = Phase(f)
  BY <1>1, <1>2, <1>3, <1>5 DEF Phase, Members
<1>6. Phase(g)' = Phase(g) \/ (Phase(g) = "open" /\ Phase(g)' = "closed")
  BY <1>1, <1>2, <1>3 DEF Phase
<1>7. CASE Phase(g)' = Phase(g)
  BY <1>4, <1>5, <1>7 DEF S!sessionVars
<1>8. CASE Phase(g) = "open" /\ Phase(g)' = "closed"
  <2>1. [f \in Tokens |-> Phase(f)]'
          = [[f \in Tokens |-> Phase(f)] EXCEPT ![g] = "closed"]
    BY <1>1, <1>5, <1>8
  <2>2. QED
    BY <1>0, <1>1, <1>4, <1>8, <2>1 DEF S!Close
<1>9. QED
  BY <1>6, <1>7, <1>8

(* Every step opens a session, closes one, or changes none.                 *)
LEMMA SessionStep == IInv /\ [Next]_vars => [S!SessionNext]_(S!sessionVars)
<1> SUFFICES ASSUME IInv, [Next]_vars PROVE [S!SessionNext]_(S!sessionVars)
  OBVIOUS
<1>1. ASSUME NEW r \in Requests, IssueRefreshToken(r) PROVE S!SessionNext
  BY <1>1, LoginOpens DEF S!SessionNext
<1>2. ASSUME NEW r \in Requests, CommitRotation(r) PROVE UNCHANGED S!sessionVars
  BY <1>2, RotationStutters
<1>3. ASSUME NEW r \in Requests, RevokeApply(r)
      PROVE  UNCHANGED S!sessionVars \/ S!SessionNext
  <2>1. family[req[r].tok] \in Tokens
    BY <1>3 DEF RevokeApply, IInv, TypeInv, TypeOK, LocalsOK
  <2>2. QED
    BY <1>3, <2>1, RevocationCloses DEF S!SessionNext
<1>4. CASE SessionVarsSame
  BY <1>4, SameSessions
<1>5. ASSUME NEW r \in Requests,
             \/ StartLogin(r) \/ StartRefresh(r) \/ StartLogout(r)
             \/ LockRevoked(r) \/ LockReused(r) \/ LockMint(r)
             \/ Grant(r) \/ Refuse(r) \/ RevokeSnapshot(r) \/ Crash(r)
      PROVE  SessionVarsSame
  BY <1>5, RowsStay, RevokedStays DEF SessionVarsSame
<1>6. CASE Tick \/ ChangeStatus \/ UNCHANGED vars
  BY <1>4, <1>6 DEF SessionVarsSame, Tick, ChangeStatus, vars, columns
<1>7. QED
  BY <1>1, <1>2, <1>3, <1>4, <1>5, <1>6 DEF Next, Serve

(* At the start no session has been opened.                                 *)
LEMMA SessionInitial == Init => S!SessionInit
  BY DEF Init, S!SessionInit, Phase, Members

(* Token rotation implements sessions: however logins, rotations, logouts,  *)
(* reuse detections and crashes interleave, a family serves one principal,  *)
(* and once all of its tokens are revoked no rotation already under way     *)
(* brings it back (token.service.ts:220-278).                               *)
THEOREM RotationImplementsSessions == Spec => FamiliesAreSessions
<1>1. Init => IInv
  BY TypeInit, RotationInit DEF IInv
<1>2. QED
  BY <1>1, InductiveStep, SessionStep, SessionInitial, PTL
  DEF Spec, FamiliesAreSessions, S!SessionSpec

-----------------------------------------------------------------------------
(* A rotation spends its token and commits the successor together.          *)

OnlyRowsAreSpent == \A t \in Tokens \ issued : used_at[t] = None

SpentInv == OnlyRowsAreSpent /\ SpentHasSuccessor

(* A row is spent only in the commit that inserts its successor.            *)
LEMMA SpentStep == IInv /\ SpentInv /\ [Next]_vars => SpentInv'
<1> SUFFICES ASSUME IInv, SpentInv, [Next]_vars PROVE SpentInv'
  OBVIOUS
<1> USE DEF SpentInv, OnlyRowsAreSpent, SpentHasSuccessor
<1>1. ASSUME NEW r \in Requests, IssueRefreshToken(r) PROVE SpentInv'
  <2>1. req[r].new \in Tokens \ issued
    BY <1>1 DEF IssueRefreshToken, IInv, TypeInv, LocalsOK, RotationInv,
                FreshValues, InFlight
  <2>2. QED
    BY <1>1, <2>1 DEF IssueRefreshToken
<1>2. ASSUME NEW r \in Requests, CommitRotation(r) PROVE SpentInv'
  <2>1. PICK s, u : s = req[r].new /\ u = req[r].tok
    OBVIOUS
  <2>2. s \in Tokens \ issued /\ u \in issued
    BY <1>2, <2>1 DEF CommitRotation, IInv, TypeInv, LocalsOK, RotationInv,
                      FreshValues, InFlight
  <2>3. issued' = issued \cup {s} /\ issued \subseteq Tokens
    BY <1>2, <2>1 DEF CommitRotation, IInv, TypeInv, TypeOK
  <2>4. \A t \in Tokens : t # u => used_at'[t] = used_at[t]
    BY <1>2, <2>1 DEF CommitRotation, IInv, TypeInv, TypeOK
  <2>5. parent'[s] = u /\ \A t \in Tokens : t # s => parent'[t] = parent[t]
    BY <1>2, <2>1, <2>2 DEF CommitRotation, IInv, TypeInv, TypeOK
  <2>6. QED
    BY <2>2, <2>3, <2>4, <2>5
<1>3. CASE UNCHANGED <<issued, used_at, parent>>
  BY <1>3
<1>4. ASSUME NEW r \in Requests,
             \/ StartLogin(r) \/ StartRefresh(r) \/ StartLogout(r)
             \/ LockRevoked(r) \/ LockReused(r) \/ LockMint(r)
             \/ Grant(r) \/ Refuse(r)
             \/ RevokeSnapshot(r) \/ RevokeApply(r) \/ Crash(r)
      PROVE  UNCHANGED <<issued, used_at, parent>>
  BY <1>4, RowsStay
<1>5. CASE Tick \/ ChangeStatus \/ UNCHANGED vars
  BY <1>3, <1>5 DEF Tick, ChangeStatus, vars, columns, history
<1>6. QED
  BY <1>1, <1>2, <1>3, <1>4, <1>5 DEF Next, Serve

(* Whatever crashes, no committed state holds a spent token without its     *)
(* successor (token.service.ts:260-264).                                    *)
THEOREM NoDeadEnds == Spec => []SpentHasSuccessor
<1>1. Init => IInv /\ SpentInv
  BY TypeInit, RotationInit DEF Init, IInv, SpentInv, OnlyRowsAreSpent,
     SpentHasSuccessor
<1>2. SpentInv => SpentHasSuccessor
  BY DEF SpentInv
<1>3. QED
  BY <1>1, <1>2, InductiveStep, SpentStep, PTL DEF Spec
-----------------------------------------------------------------------------
(* The safety of rotation and revocation, from IInv.                         *)

(* The grace window.  used_at is the earliest time a child of the token may *)
(* have, and a rotation that holds the lock has decided on a time no later  *)
(* than Grace after it and no earlier than any child already committed.     *)
ChildrenInWindow ==
    \A s \in issued : parent[s] # None =>
        /\ parent[s] \in issued
        /\ used_at[parent[s]] # None
        /\ used_at[parent[s]] <= minted_at[s]
        /\ minted_at[s] <= clock

RotationTimes ==
    \A r \in Requests :
        /\ pc[r] \in {"checked", "minting"} => req[r].start <= clock
        /\ pc[r] = "minting" =>
            /\ req[r].stamp <= req[r].decided
            /\ req[r].decided <= clock
            /\ used_at[req[r].tok] # None => req[r].stamp = used_at[req[r].tok]
            /\ \A s \in issued : parent[s] = req[r].tok =>
                /\ minted_at[s] <= req[r].decided
                /\ req[r].decided <= minted_at[s] + Grace

SpentInThePast == \A t \in issued : used_at[t] # None => used_at[t] <= clock

OnlyRowsHaveParents == \A t \in Tokens \ issued : parent[t] = None

GraceInv ==
    /\ ChildrenInWindow /\ SpentInThePast /\ OnlyRowsHaveParents
    /\ RotationTimes /\ GraceWindowBounded

(* At the start nothing has been used.                                      *)
LEMMA GraceInit == Init => GraceInv
  BY DEF Init, GraceInv, ChildrenInWindow, RotationTimes, OnlyRowsHaveParents,
         SpentInThePast, GraceWindowBounded

(* What the decision under the lock establishes for the request taking it.  *)
LEMMA DecisionInWindow ==
    ASSUME IInv, GraceInv, NEW r \in Requests, LockMint(r)
    PROVE  /\ req'[r].tok = req[r].tok
           /\ req'[r].start = req[r].start
           /\ req'[r].stamp <= req'[r].decided
           /\ req'[r].decided = clock
           /\ used_at[req[r].tok] # None => req'[r].stamp = used_at[req[r].tok]
           /\ \A s \in issued : parent[s] = req[r].tok =>
                /\ minted_at[s] <= clock
                /\ clock <= minted_at[s] + Grace
<1> USE TokenAssumption DEF IInv, TypeInv, TypeOK, LocalsOK
<1>1. PICK now \in req[r].start .. clock :
        req' = [req EXCEPT ![r].stamp = Stamp(req[r].tok, now),
                           ![r].decided = clock]
  BY DEF LockMint
<1>2. /\ req'[r].tok = req[r].tok /\ req'[r].start = req[r].start
      /\ req'[r].stamp = Stamp(req[r].tok, now) /\ req'[r].decided = clock
  BY <1>1 DEF Request
<1>3. req[r].tok \in issued /\ req[r].tok \in Tokens /\ now <= clock
  BY <1>1 DEF LockMint, Request
<1>4. used_at[req[r].tok] # None =>
        used_at[req[r].tok] \in Nat /\ clock <= used_at[req[r].tok] + Grace
  BY <1>3 DEF LockMint, TooLate
<1>5. ASSUME NEW s \in issued, parent[s] = req[r].tok
      PROVE  minted_at[s] <= clock /\ clock <= minted_at[s] + Grace
  <2>1. minted_at[s] \in Nat /\ req[r].tok # None
    BY <1>3
  <2>2. /\ used_at[req[r].tok] # None
        /\ used_at[req[r].tok] <= minted_at[s] /\ minted_at[s] <= clock
    BY <1>5, <2>1 DEF GraceInv, ChildrenInWindow
  <2>3. QED
    BY <1>4, <2>1, <2>2
<1>6. Stamp(req[r].tok, now) <= clock
  <2>1. CASE used_at[req[r].tok] = None
    BY <1>3, <2>1 DEF Stamp
  <2>2. CASE used_at[req[r].tok] # None
    <3>1. used_at[req[r].tok] <= clock
      BY <1>3, <2>2 DEF GraceInv, SpentInThePast
    <3>2. QED
      BY <3>1, <2>2 DEF Stamp
  <2>3. QED
    BY <2>1, <2>2
<1>7. QED
  BY <1>2, <1>5, <1>6 DEF Stamp

(* A login adds a row with no parent, which nothing is being rotated from.  *)
LEMMA GraceLogin ==
    ASSUME IInv, SpentInv, GraceInv, NEW r \in Requests, IssueRefreshToken(r)
    PROVE  GraceInv'
<1> USE TokenAssumption DEF IInv, TypeInv, TypeOK, LocalsOK
<1>1. PICK s : s = req[r].new
  OBVIOUS
<1>2. s \in Tokens /\ s \notin issued
  BY <1>1 DEF IssueRefreshToken, RotationInv, FreshValues, InFlight
<1>3. /\ issued' = issued \cup {s}
      /\ \A t \in Tokens : t # s => minted_at'[t] = minted_at[t]
      /\ UNCHANGED <<clock, used_at, parent>>
  BY <1>1, <1>2 DEF IssueRefreshToken
<1>4. parent[s] = None /\ used_at[s] = None
  BY <1>2 DEF GraceInv, OnlyRowsHaveParents, SpentInv, OnlyRowsAreSpent
<1>5. \A t \in issued' : parent'[t] # None =>
        t \in issued /\ t \in Tokens /\ minted_at'[t] = minted_at[t]
  BY <1>2, <1>3, <1>4
<1>6. ChildrenInWindow'
  BY <1>3, <1>5 DEF GraceInv, ChildrenInWindow
<1>7. SpentInThePast' /\ OnlyRowsHaveParents'
  BY <1>3, <1>4 DEF GraceInv, SpentInThePast, OnlyRowsHaveParents
<1>8. RotationTimes'
  <2>1. ASSUME NEW q \in Requests, pc'[q] \in {"checked", "minting"}
        PROVE  pc'[q] = pc[q] /\ req'[q] = req[q]
    BY <2>1 DEF IssueRefreshToken, Done
  <2>2. ASSUME NEW q \in Requests, pc'[q] = "minting"
        PROVE  req[q].tok # None
    BY <2>1, <2>2
  <2>3. QED
    BY <1>3, <1>5, <2>1, <2>2 DEF GraceInv, RotationTimes
<1>9. GraceWindowBounded'
  BY <1>3, <1>5 DEF GraceInv, GraceWindowBounded
<1>10. QED
  BY <1>6, <1>7, <1>8, <1>9 DEF GraceInv

(* A commit adds a child decided on under the lock its request still holds. *)
LEMMA GraceCommit ==
    ASSUME IInv, SpentInv, GraceInv, NEW r \in Requests, CommitRotation(r)
    PROVE  GraceInv'
<1> USE TokenAssumption DEF IInv, TypeInv, TypeOK, LocalsOK
<1>1. PICK s, u, stamp, decided :
        /\ s = req[r].new /\ u = req[r].tok
        /\ stamp = req[r].stamp /\ decided = req[r].decided
  OBVIOUS
<1>2. /\ s \in Tokens /\ s \notin issued
      /\ u \in Tokens /\ u \in issued /\ u # None /\ s # u
      /\ stamp \in Nat /\ decided \in Nat
  BY <1>1 DEF CommitRotation, RotationInv, FreshValues, InFlight, Request
<1>3. /\ issued' = issued \cup {s}
      /\ UNCHANGED clock
      /\ used_at'[u] = stamp
      /\ \A t \in Tokens : t # u => used_at'[t] = used_at[t]
      /\ parent'[s] = u
      /\ \A t \in Tokens : t # s => parent'[t] = parent[t]
      /\ minted_at'[s] = decided
      /\ \A t \in Tokens : t # s => minted_at'[t] = minted_at[t]
  BY <1>1, <1>2 DEF CommitRotation
<1>4. /\ stamp <= decided /\ decided <= clock
      /\ used_at[u] # None => stamp = used_at[u]
      /\ \A t \in issued : parent[t] = u =>
            minted_at[t] <= decided /\ decided <= minted_at[t] + Grace
  BY <1>1 DEF CommitRotation, GraceInv, RotationTimes
<1>5. \A t \in issued : t \in Tokens /\ t # s
  BY <1>2
<1>6. stamp # None
  BY <1>2
<1>7. ChildrenInWindow'
  <2>1. ASSUME NEW t \in issued, parent[t] = u
        PROVE  stamp <= minted_at[t] /\ minted_at[t] <= clock
    BY <1>2, <1>4, <2>1 DEF GraceInv, ChildrenInWindow
  <2>2. ASSUME NEW t \in issued', parent'[t] # None
        PROVE  /\ parent'[t] \in issued'
               /\ used_at'[parent'[t]] # None
               /\ used_at'[parent'[t]] <= minted_at'[t]
               /\ minted_at'[t] <= clock'
    <3>1. CASE t = s
      BY <1>2, <1>3, <1>4, <1>6, <3>1
    <3>2. CASE t # s /\ parent[t] = u
      BY <1>2, <1>3, <1>5, <1>6, <2>1, <2>2, <3>2
    <3>3. CASE t # s /\ parent[t] # u
      <4>1. t \in issued /\ parent'[t] = parent[t] /\ minted_at'[t] = minted_at[t]
        BY <1>3, <1>5, <3>3
      <4>2. parent[t] \in issued /\ used_at'[parent[t]] = used_at[parent[t]]
        BY <1>3, <1>5, <2>2, <3>3, <4>1 DEF GraceInv, ChildrenInWindow
      <4>3. QED
        BY <1>3, <2>2, <4>1, <4>2 DEF GraceInv, ChildrenInWindow
    <3>4. QED
      BY <3>1, <3>2, <3>3
  <2>3. QED
    BY <2>2 DEF ChildrenInWindow
<1>8. SpentInThePast'
  <2>1. used_at[s] = None
    BY <1>2 DEF SpentInv, OnlyRowsAreSpent
  <2>2. stamp <= clock
    BY <1>2, <1>4
  <2>3. QED
    BY <1>2, <1>3, <1>5, <2>1, <2>2 DEF GraceInv, SpentInThePast
<1>9. OnlyRowsHaveParents'
  BY <1>2, <1>3 DEF GraceInv, OnlyRowsHaveParents
<1>10. RotationTimes'
  <2>1. ASSUME NEW q \in Requests, pc'[q] \in {"checked", "minting"}
        PROVE  q # r /\ pc'[q] = pc[q] /\ req'[q] = req[q]
    BY <2>1 DEF CommitRotation
  <2>2. ASSUME NEW q \in Requests, pc'[q] = "minting"
        PROVE  req[q].tok # u /\ req[q].tok \in issued /\ req[q].tok # s
    BY <1>1, <1>5, <2>1, <2>2 DEF CommitRotation, RotationInv, LockedRows
  <2>3. ASSUME NEW q \in Requests, pc'[q] = "minting",
               NEW t \in issued', parent'[t] = req[q].tok
        PROVE  t \in issued /\ parent[t] = req[q].tok /\ minted_at'[t] = minted_at[t]
    BY <1>3, <1>5, <2>2, <2>3
  <2>4. QED
    BY <1>3, <1>5, <2>1, <2>2, <2>3 DEF GraceInv, RotationTimes
<1>11. GraceWindowBounded'
  <2>1. ASSUME NEW t \in issued, parent'[t] = u
        PROVE  minted_at'[t] <= decided + Grace /\ decided <= minted_at'[t] + Grace
    BY <1>2, <1>3, <1>4, <1>5, <2>1
  <2>2. ASSUME NEW a \in issued', NEW b \in issued',
               parent'[a] # None, parent'[a] = parent'[b]
        PROVE  minted_at'[a] <= minted_at'[b] + Grace
    <3>1. CASE a = s /\ b = s
      BY <1>2, <1>3, <3>1
    <3>2. CASE a = s /\ b # s
      BY <1>3, <2>1, <2>2, <3>2
    <3>3. CASE a # s /\ b = s
      BY <1>3, <2>1, <2>2, <3>3
    <3>4. CASE a # s /\ b # s
      BY <1>3, <1>5, <2>2, <3>4 DEF GraceInv, GraceWindowBounded
    <3>5. QED
      BY <3>1, <3>2, <3>3, <3>4
  <2>3. QED
    BY <2>2 DEF GraceWindowBounded
<1>12. QED
  BY <1>7, <1>8, <1>9, <1>10, <1>11 DEF GraceInv

(* Every other step leaves the rows alone; only StartRefresh and LockMint   *)
(* bring a request to a point RotationTimes speaks of.                      *)
LEMMA GraceElsewhere ==
    ASSUME IInv, GraceInv,
           UNCHANGED <<issued, used_at, parent, minted_at>>,
           clock' \in Nat, clock <= clock',
           RotationTimes'
    PROVE  GraceInv'
<1>1. ChildrenInWindow' /\ SpentInThePast'
  BY TokenAssumption DEF GraceInv, ChildrenInWindow, SpentInThePast, IInv,
     TypeInv, TypeOK
<1>2. OnlyRowsHaveParents' /\ GraceWindowBounded'
  BY DEF GraceInv, OnlyRowsHaveParents, GraceWindowBounded
<1>3. QED
  BY <1>1, <1>2 DEF GraceInv

(* Steps that touch no time keep the times in order.                        *)
LEMMA TimesOfTheRest ==
    ASSUME IInv, GraceInv,
           UNCHANGED <<clock, issued, used_at, parent, minted_at>>,
           \A q \in Requests : pc'[q] \in {"checked", "minting"}
                => pc'[q] = pc[q] /\ req'[q] = req[q]
    PROVE  GraceInv'
<1>1. RotationTimes'
  BY DEF GraceInv, RotationTimes
<1>2. QED
  BY <1>1, GraceElsewhere DEF IInv, TypeInv, TypeOK

(* Every step keeps successors within the grace of their parent.            *)
LEMMA GraceStep == IInv /\ SpentInv /\ GraceInv /\ [Next]_vars => GraceInv'
<1> SUFFICES ASSUME IInv, SpentInv, GraceInv, [Next]_vars PROVE GraceInv'
  OBVIOUS
<1> DEFINE Rows == <<issued, used_at, parent, minted_at>>
<1>1. ASSUME NEW r \in Requests, IssueRefreshToken(r) PROVE GraceInv'
  BY <1>1, GraceLogin
<1>2. ASSUME NEW r \in Requests, CommitRotation(r) PROVE GraceInv'
  BY <1>2, GraceCommit
<1>3. ASSUME NEW r \in Requests, StartRefresh(r) PROVE GraceInv'
  <2>1. /\ req'[r].start = clock /\ pc'[r] = "checked"
        /\ \A q \in Requests \ {r} : pc'[q] = pc[q] /\ req'[q] = req[q]
        /\ UNCHANGED clock /\ UNCHANGED Rows
    BY <1>3 DEF StartRefresh, columns, history, IInv, TypeInv, TypeOK, Request
  <2>2. RotationTimes'
    BY <2>1 DEF GraceInv, RotationTimes, IInv, TypeInv, TypeOK
  <2>3. QED
    BY <2>1, <2>2, GraceElsewhere DEF IInv, TypeInv, TypeOK
<1>4. ASSUME NEW r \in Requests, LockMint(r) PROVE GraceInv'
  <2>1. /\ pc[r] = "checked" /\ pc'[r] = "minting"
        /\ \A q \in Requests \ {r} : pc'[q] = pc[q] /\ req'[q] = req[q]
        /\ UNCHANGED clock /\ UNCHANGED Rows
    BY <1>4 DEF LockMint, columns, IInv, TypeInv, TypeOK
  <2>2. RotationTimes'
    BY <1>4, <2>1, DecisionInWindow DEF GraceInv, RotationTimes, IInv, TypeInv, TypeOK
  <2>3. QED
    BY <2>1, <2>2, GraceElsewhere DEF IInv, TypeInv, TypeOK
<1>5. ASSUME Tick PROVE GraceInv'
  <2>1. clock' = clock + 1 /\ UNCHANGED <<pc, req>> /\ UNCHANGED Rows
    BY <1>5 DEF Tick, columns, history
  <2>2. RotationTimes'
    BY <2>1 DEF GraceInv, RotationTimes, IInv, TypeInv, TypeOK, Request
  <2>3. QED
    BY <2>1, <2>2, GraceElsewhere DEF IInv, TypeInv, TypeOK
<1>6. ASSUME NEW r \in Requests,
             \/ StartLogin(r) \/ StartLogout(r)
             \/ LockRevoked(r) \/ LockReused(r) \/ Grant(r) \/ Refuse(r)
             \/ RevokeSnapshot(r) \/ RevokeApply(r) \/ Crash(r)
      PROVE  GraceInv'
  <2>1. UNCHANGED clock /\ UNCHANGED Rows
    <3>1. UNCHANGED Rows
      BY <1>6, RowsStay
    <3>2. CASE StartLogin(r) \/ StartLogout(r) \/ LockRevoked(r) \/ LockReused(r)
      BY <3>1, <3>2 DEF StartLogin, StartLogout, LockRevoked, LockReused
    <3>3. CASE \/ Grant(r) \/ Refuse(r) \/ RevokeSnapshot(r) \/ RevokeApply(r)
               \/ Crash(r)
      BY <3>1, <3>3 DEF Grant, Refuse, RevokeSnapshot, RevokeApply, Crash
    <3>4. QED
      BY <1>6, <3>2, <3>3
  <2>2. pc'[r] \notin {"checked", "minting"}
    <3>1. pc \in [Requests -> {"idle", "login", "checked", "minting", "minted",
                               "revoke", "revoking"}]
      BY DEF IInv, TypeInv, TypeOK
    <3>2. CASE StartLogin(r) \/ StartLogout(r) \/ LockRevoked(r) \/ LockReused(r)
      BY <3>1, <3>2 DEF StartLogin, StartLogout, LockRevoked, LockReused, Done
    <3>3. CASE \/ Grant(r) \/ Refuse(r) \/ RevokeSnapshot(r) \/ RevokeApply(r)
               \/ Crash(r)
      BY <3>1, <3>3 DEF Grant, Refuse, RevokeSnapshot, RevokeApply, Crash, Done
    <3>4. QED
      BY <1>6, <3>2, <3>3
  <2>3. TypeOK
    BY DEF IInv, TypeInv
  <2>4. \A q \in Requests \ {r} : pc'[q] = pc[q] /\ req'[q] = req[q]
    BY <1>6, <2>3, OthersWait DEF Serve
  <2>5. QED
    BY <2>1, <2>2, <2>4, TimesOfTheRest
<1>7. CASE ChangeStatus \/ UNCHANGED vars
  BY <1>7, TimesOfTheRest DEF ChangeStatus, vars, columns, history
<1>8. QED
  BY <1>1, <1>2, <1>3, <1>4, <1>5, <1>6, <1>7 DEF Next, Serve

(* However many requests present one token, however long each waits for the *)
(* row, and whatever crashes, the tokens minted from it are minted within   *)
(* Grace of each other (token.service.ts:283-287).                          *)
THEOREM GraceHolds == Spec => []GraceWindowBounded
<1>1. Init => IInv /\ SpentInv /\ GraceInv
  BY TypeInit, RotationInit, GraceInit DEF Init, IInv, SpentInv,
     OnlyRowsAreSpent, SpentHasSuccessor
<1>2. GraceInv => GraceWindowBounded
  BY DEF GraceInv
<1>3. QED
  BY <1>1, <1>2, InductiveStep, SpentStep, GraceStep, PTL DEF Spec

-----------------------------------------------------------------------------
(* Revocation.  A revocation under way, in a family no rotation overlaps,   *)
(* has every unrevoked row in its snapshot, and no rotation holds a lock;   *)
(* once it is over, no unrevoked row is left to rotate.                     *)
SnapshotsCoverFamilies ==
    \A r \in Requests :
        LET f == family[req[r].tok]
        IN  pc[r] = "revoking" /\ f \notin raced =>
                /\ Members(f) \subseteq revoked \cup req[r].snap
                /\ ~Rotating(f)

BurnedAreStill == \A f \in burned \ raced : ~Rotating(f)

BurnedAreRows == burned \subseteq issued

RevocationInv ==
    /\ SnapshotsCoverFamilies /\ BurnedAreStill /\ BurnedAreRows
    /\ RevocationIsComplete

(* At the start no family has been revoked.                                 *)
LEMMA RevocationInit == Init => RevocationInv
  BY DEF Init, RevocationInv, SnapshotsCoverFamilies, BurnedAreStill,
         BurnedAreRows, RevocationIsComplete

(* A login starts a family of its own, that nothing has revoked. *)
LEMMA RevocationLogin ==
    ASSUME IInv, RevocationInv, NEW r \in Requests, IssueRefreshToken(r)
    PROVE  RevocationInv'
<1> USE DEF IInv, TypeInv, TypeOK, LocalsOK
<1>1. PICK s : s = req[r].new
  OBVIOUS
<1>2. s \in Tokens /\ s \notin issued
  BY <1>1 DEF IssueRefreshToken, RotationInv, FreshValues, InFlight
<1>3. /\ issued' = issued \cup {s}
      /\ family'[s] = s
      /\ \A t \in issued : family'[t] = family[t]
      /\ UNCHANGED <<revoked, burned, raced>>
  BY <1>1, <1>2 DEF IssueRefreshToken
<1>4. \A q \in Requests : pc'[q] \in {"minting", "revoking"}
        => pc'[q] = pc[q] /\ req'[q] = req[q] /\ req[q].tok \in issued
  BY DEF IssueRefreshToken, Done
<1>5. \A f \in issued : Members(f)' = Members(f) /\ (Rotating(f)' => Rotating(f))
  BY <1>2, <1>3, <1>4 DEF Members, Rotating
<1>6. \A t \in issued : family[t] \in issued
  BY DEF RotationInv, FamilyRoots
<1>7. SnapshotsCoverFamilies'
  BY <1>3, <1>4, <1>5, <1>6 DEF RevocationInv, SnapshotsCoverFamilies
<1>8. BurnedAreStill' /\ BurnedAreRows' /\ RevocationIsComplete'
  BY <1>3, <1>5 DEF RevocationInv, BurnedAreStill, BurnedAreRows,
     RevocationIsComplete
<1>9. QED
  BY <1>7, <1>8 DEF RevocationInv

(* A rotation adds a row to a family in which it still holds a lock, so to  *)
(* none that a finished or an unraced revocation speaks of.                 *)
LEMMA RevocationCommit ==
    ASSUME IInv, RevocationInv, NEW r \in Requests, CommitRotation(r)
    PROVE  RevocationInv'
<1> USE DEF IInv, TypeInv, TypeOK, LocalsOK
<1>1. PICK s, g : s = req[r].new /\ g = family[req[r].tok]
  OBVIOUS
<1>2. s \in Tokens /\ s \notin issued /\ Rotating(g)
  BY <1>1 DEF CommitRotation, RotationInv, FreshValues, InFlight, Rotating
<1>3. /\ issued' = issued \cup {s}
      /\ family'[s] = g
      /\ \A t \in issued : family'[t] = family[t]
      /\ UNCHANGED <<revoked, burned, raced>>
  BY <1>1, <1>2 DEF CommitRotation
<1>4. \A q \in Requests : pc'[q] \in {"minting", "revoking"}
        => pc'[q] = pc[q] /\ req'[q] = req[q] /\ req[q].tok \in issued
  BY DEF CommitRotation
<1>5. \A f \in issued : /\ f # g => Members(f)' = Members(f)
                        /\ Rotating(f)' => Rotating(f)
  BY <1>2, <1>3, <1>4 DEF Members, Rotating
<1>6. \A t \in issued : family[t] \in issued
  BY DEF RotationInv, FamilyRoots
<1>7. SnapshotsCoverFamilies'
  BY <1>2, <1>3, <1>4, <1>5, <1>6 DEF RevocationInv, SnapshotsCoverFamilies
<1>8. BurnedAreStill' /\ BurnedAreRows' /\ RevocationIsComplete'
  BY <1>2, <1>3, <1>5 DEF RevocationInv, BurnedAreStill, BurnedAreRows,
     RevocationIsComplete
<1>9. QED
  BY <1>7, <1>8 DEF RevocationInv

(* A rotation that takes a lock while a family is being revoked marks it    *)
(* raced; in a family whose revocation is over it finds no row to lock.     *)
LEMMA RevocationLock ==
    ASSUME IInv, RevocationInv, NEW r \in Requests, LockMint(r)
    PROVE  RevocationInv'
<1> USE DEF IInv, TypeInv, TypeOK, LocalsOK
<1>1. PICK g : g = family[req[r].tok]
  OBVIOUS
<1>2. /\ req[r].tok \in Members(g) /\ req[r].tok \notin revoked
      /\ UNCHANGED <<issued, family, revoked, burned>>
      /\ raced' = raced \cup {f \in {g} : Revoking(f)}
  BY <1>1 DEF LockMint, Members, columns
<1>3. /\ \A q \in Requests : req'[q].tok = req[q].tok /\ req'[q].snap = req[q].snap
      /\ \A q \in Requests : q # r => pc'[q] = pc[q]
      /\ pc'[r] = "minting"
  BY DEF LockMint, Request
<1>4. \A f : /\ Members(f)' = Members(f)
             /\ f # g /\ Rotating(f)' => Rotating(f)
  BY <1>1, <1>2, <1>3 DEF Members, Rotating
<1>5. SnapshotsCoverFamilies'
  BY <1>1, <1>2, <1>3, <1>4 DEF RevocationInv, SnapshotsCoverFamilies, Revoking
<1>6. BurnedAreStill' /\ BurnedAreRows' /\ RevocationIsComplete'
  BY <1>2, <1>4 DEF RevocationInv, BurnedAreStill, BurnedAreRows,
     RevocationIsComplete
<1>7. QED
  BY <1>5, <1>6 DEF RevocationInv

(* A revocation's snapshot is every unrevoked row of its family, and a      *)
(* family in which a lock is held at that moment is raced.                  *)
LEMMA RevocationSnapshot ==
    ASSUME IInv, RevocationInv, NEW r \in Requests, RevokeSnapshot(r)
    PROVE  RevocationInv'
<1> USE DEF IInv, TypeInv, TypeOK, LocalsOK
<1>1. PICK g : g = family[req[r].tok]
  OBVIOUS
<1>2. /\ UNCHANGED <<issued, family, revoked, burned>>
      /\ raced' = raced \cup {f \in {g} : Rotating(f)}
      /\ req'[r].snap = Members(g) \ revoked
  BY <1>1 DEF RevokeSnapshot, columns, Request
<1>3. /\ \A q \in Requests : req'[q].tok = req[q].tok
      /\ \A q \in Requests : q # r => pc'[q] = pc[q] /\ req'[q] = req[q]
      /\ pc'[r] = "revoking"
  BY DEF RevokeSnapshot, Request
<1>4. \A f : Members(f)' = Members(f) /\ (Rotating(f)' => Rotating(f))
  BY <1>2, <1>3 DEF Members, Rotating
<1>5. SnapshotsCoverFamilies'
  BY <1>1, <1>2, <1>3, <1>4 DEF RevocationInv, SnapshotsCoverFamilies
<1>6. BurnedAreStill' /\ BurnedAreRows' /\ RevocationIsComplete'
  BY <1>2, <1>4 DEF RevocationInv, BurnedAreStill, BurnedAreRows,
     RevocationIsComplete
<1>7. QED
  BY <1>5, <1>6 DEF RevocationInv

(* The end of a revocation leaves nothing to rotate in its family.          *)
LEMMA RevocationEnd ==
    ASSUME IInv, RevocationInv, NEW r \in Requests, RevokeApply(r)
    PROVE  RevocationInv'
<1> USE DEF IInv, TypeInv, TypeOK, LocalsOK
<1>1. PICK g : g = family[req[r].tok]
  OBVIOUS
<1>2. /\ UNCHANGED <<issued, family, raced>>
      /\ revoked' = revoked \cup req[r].snap
      /\ burned' = burned \cup {g} /\ g \in issued
  BY <1>1 DEF RevokeApply, columns, RotationInv, FamilyRoots
<1>3. \A q \in Requests : pc'[q] \in {"minting", "revoking"}
        => pc'[q] = pc[q] /\ req'[q] = req[q]
  BY DEF RevokeApply, Done
<1>4. \A f : Members(f)' = Members(f) /\ (Rotating(f)' => Rotating(f))
  BY <1>2, <1>3 DEF Members, Rotating
<1>5. g \notin raced => Members(g) \subseteq revoked' /\ ~Rotating(g)
  BY <1>1, <1>2 DEF RevokeApply, RevocationInv, SnapshotsCoverFamilies
<1>6. SnapshotsCoverFamilies'
  BY <1>2, <1>3, <1>4 DEF RevocationInv, SnapshotsCoverFamilies
<1>7. BurnedAreStill' /\ BurnedAreRows' /\ RevocationIsComplete'
  BY <1>2, <1>4, <1>5 DEF RevocationInv, BurnedAreStill, BurnedAreRows,
     RevocationIsComplete
<1>8. QED
  BY <1>6, <1>7 DEF RevocationInv

(* Steps that touch no family keep revocations complete.                    *)
LEMMA RevocationElsewhere ==
    ASSUME IInv, RevocationInv,
           UNCHANGED <<issued, family, revoked, burned, raced>>,
           \A q \in Requests : pc'[q] \in {"minting", "revoking"}
                => pc'[q] = pc[q] /\ req'[q] = req[q]
    PROVE  RevocationInv'
<1>1. \A f : Members(f)' = Members(f) /\ (Rotating(f)' => Rotating(f))
  BY DEF Members, Rotating
<1>2. QED
  BY <1>1 DEF RevocationInv, SnapshotsCoverFamilies, BurnedAreStill,
     BurnedAreRows, RevocationIsComplete

(* Every step keeps revocations complete.                                   *)
LEMMA RevocationStep == IInv /\ RevocationInv /\ [Next]_vars => RevocationInv'
<1> SUFFICES ASSUME IInv, RevocationInv, [Next]_vars PROVE RevocationInv'
  OBVIOUS
<1>1. ASSUME NEW r \in Requests,
             \/ IssueRefreshToken(r) \/ CommitRotation(r) \/ LockMint(r)
             \/ RevokeSnapshot(r) \/ RevokeApply(r)
      PROVE  RevocationInv'
  BY <1>1, RevocationLogin, RevocationCommit, RevocationLock,
     RevocationSnapshot, RevocationEnd
<1>2. ASSUME NEW r \in Requests,
             \/ StartLogin(r) \/ StartRefresh(r) \/ StartLogout(r)
             \/ LockRevoked(r) \/ LockReused(r) \/ Grant(r) \/ Refuse(r)
             \/ Crash(r)
      PROVE  RevocationInv'
  <2>1. UNCHANGED <<issued, family, revoked, burned, raced>>
    <3>1. UNCHANGED <<issued, family, revoked>>
      BY <1>2, RowsStay, RevokedStays
    <3>2. CASE StartLogin(r) \/ StartLogout(r)
      BY <3>1, <3>2 DEF StartLogin, StartLogout, history
    <3>3. CASE StartRefresh(r)
      BY <3>1, <3>3, Zenon DEF StartRefresh, history
    <3>4. CASE LockRevoked(r) \/ LockReused(r) \/ Grant(r) \/ Refuse(r) \/ Crash(r)
      BY <3>1, <3>4 DEF LockRevoked, LockReused, Grant, Refuse, Crash, history
    <3>5. QED
      BY <1>2, <3>2, <3>3, <3>4
  <2>2. pc'[r] \in {"idle", "login", "checked", "revoke"}
    <3>1. pc \in [Requests -> {"idle", "login", "checked", "minting", "minted",
                               "revoke", "revoking"}]
      BY DEF IInv, TypeInv, TypeOK
    <3>2. CASE StartLogin(r) \/ StartLogout(r)
      BY <3>1, <3>2 DEF StartLogin, StartLogout
    <3>3. CASE StartRefresh(r)
      <4>1. pc' = [pc EXCEPT ![r] = "checked"]
        BY <3>3, Zenon DEF StartRefresh
      <4>2. QED
        BY <3>1, <4>1
    <3>4. CASE LockRevoked(r) \/ LockReused(r) \/ Grant(r) \/ Refuse(r) \/ Crash(r)
      BY <3>1, <3>4 DEF LockRevoked, LockReused, Grant, Refuse, Crash, Done
    <3>5. QED
      BY <1>2, <3>2, <3>3, <3>4
  <2>3. TypeOK
    BY DEF IInv, TypeInv
  <2>4. \A q \in Requests \ {r} : pc'[q] = pc[q] /\ req'[q] = req[q]
    BY <1>2, <2>3, OthersWait DEF Serve
  <2>5. QED
    BY <2>1, <2>2, <2>4, RevocationElsewhere
<1>3. CASE Tick \/ ChangeStatus \/ UNCHANGED vars
  BY <1>3, RevocationElsewhere DEF Tick, ChangeStatus, vars, columns, history
<1>4. QED
  BY <1>1, <1>2, <1>3 DEF Next, Serve

(* revokeFamily leaves no unrevoked token in a family, and none appears     *)
(* later, unless a rotation held a row lock in that family between the      *)
(* snapshot of its UPDATE and its end (token.service.ts:351).               *)
THEOREM RevocationHolds == Spec => []RevocationIsComplete
<1>1. Init => IInv /\ RevocationInv
  BY TypeInit, RotationInit, RevocationInit DEF IInv
<1>2. RevocationInv => RevocationIsComplete
  BY DEF RevocationInv
<1>3. QED
  BY <1>1, <1>2, InductiveStep, RevocationStep, PTL DEF Spec

-----------------------------------------------------------------------------
(* Refusals.  The successor of an exchange an endpoint turns down is in the *)
(* family about to be revoked, so in the snapshot unless already revoked.   *)
SuccessorsOfRefusals ==
    \A r \in Requests :
        /\ pc[r] = "minted" => family[req[r].new] = family[req[r].tok]
        /\ pc[r] \in {"revoke", "revoking"} /\ req[r].why = "refusal"
            => family[req[r].new] = family[req[r].tok]
        /\ pc[r] = "revoking" /\ req[r].why = "refusal"
            => req[r].new \in revoked \cup req[r].snap

RefusalInv == SuccessorsOfRefusals /\ RefusedExchangeLeavesNoToken

(* Every step keeps the successors of refusals on their way out.            *)
LEMMA RefusalStep == IInv /\ RefusalInv /\ [Next]_vars => RefusalInv'
<1> SUFFICES ASSUME IInv, RefusalInv, [Next]_vars PROVE RefusalInv'
  OBVIOUS
<1>0. \A t \in issued : family'[t] = family[t]
  BY RootStep DEF IInv, RotationInv
<1> USE DEF RefusalInv, SuccessorsOfRefusals, RefusedExchangeLeavesNoToken
<1>1. ASSUME NEW r \in Requests, CommitRotation(r) PROVE RefusalInv'
  <2>1. req[r].new \in Tokens /\ req[r].new \notin issued /\ req[r].tok \in issued
    BY <1>1 DEF CommitRotation, IInv, TypeInv, LocalsOK, RotationInv,
       FreshValues, InFlight
  <2>2. /\ pc'[r] = "minted"
        /\ req'[r].new = req[r].new /\ req'[r].tok = req[r].tok
        /\ family'[req[r].new] = family[req[r].tok]
        /\ UNCHANGED <<revoked, refused>>
    BY <1>1, <2>1 DEF CommitRotation, IInv, TypeInv, TypeOK, Request
  <2>3. \A q \in Requests \ {r} : pc'[q] = pc[q] /\ req'[q] = req[q]
    BY <1>1 DEF CommitRotation, IInv, TypeInv, TypeOK
  <2>4. family'[req'[r].new] = family'[req'[r].tok]
    BY <1>0, <2>1, <2>2
  <2>5. ASSUME NEW q \in Requests \ {r}, pc[q] \in {"minted", "revoke", "revoking"},
               pc[q] = "minted" \/ req[q].why = "refusal"
        PROVE  req[q].new \in issued /\ req[q].tok \in issued
    BY <2>5 DEF IInv, TypeInv, LocalsOK
  <2>6. SuccessorsOfRefusals'
    BY <1>0, <2>2, <2>3, <2>4, <2>5
  <2>7. QED
    BY <2>2, <2>6
<1>2. ASSUME NEW r \in Requests, Refuse(r) PROVE RefusalInv'
  <2>1. /\ pc[r] = "minted" /\ pc'[r] = "revoke"
        /\ req'[r].new = req[r].new /\ req'[r].tok = req[r].tok
        /\ UNCHANGED <<family, revoked, refused>>
    BY <1>2 DEF Refuse, IInv, TypeInv, TypeOK, columns, history, NoRequest, Request
  <2>2. \A q \in Requests \ {r} : pc'[q] = pc[q] /\ req'[q] = req[q]
    BY <1>2 DEF Refuse
  <2>3. QED
    BY <2>1, <2>2
<1>3. ASSUME NEW r \in Requests, RevokeSnapshot(r) PROVE RefusalInv'
  <2>1. /\ pc[r] = "revoke" /\ pc'[r] = "revoking"
        /\ req'[r].new = req[r].new /\ req'[r].tok = req[r].tok
        /\ req'[r].why = req[r].why
        /\ req'[r].snap = Members(family[req[r].tok]) \ revoked
        /\ UNCHANGED <<family, revoked, refused>>
    BY <1>3 DEF RevokeSnapshot, IInv, TypeInv, TypeOK, columns, Request
  <2>2. \A q \in Requests \ {r} : pc'[q] = pc[q] /\ req'[q] = req[q]
    BY <1>3 DEF RevokeSnapshot
  <2>3. req[r].why = "refusal" => req[r].new \in issued
    BY <2>1 DEF IInv, TypeInv, LocalsOK
  <2>4. QED
    BY <2>1, <2>2, <2>3 DEF Members
<1>4. ASSUME NEW r \in Requests, RevokeApply(r) PROVE RefusalInv'
  <2>1. /\ pc[r] = "revoking" /\ pc'[r] = "idle"
        /\ revoked' = revoked \cup req[r].snap
        /\ refused' = IF req[r].why = "refusal" THEN refused \cup {req[r].new}
                                                ELSE refused
        /\ UNCHANGED family
        /\ \A q \in Requests \ {r} : pc'[q] = pc[q] /\ req'[q] = req[q]
    BY <1>4 DEF RevokeApply, Done, IInv, TypeInv, TypeOK, columns
  <2>2. QED
    BY <2>1
<1>5. ASSUME NEW r \in Requests, StartLogout(r) PROVE RefusalInv'
  <2>1. /\ pc'[r] = "revoke" /\ req'[r].why = "logout"
        /\ UNCHANGED <<family, revoked, refused>>
        /\ \A q \in Requests \ {r} : pc'[q] = pc[q] /\ req'[q] = req[q]
    BY <1>5 DEF StartLogout, IInv, TypeInv, TypeOK, columns, history, Request
  <2>2. QED
    BY <2>1
<1>6. ASSUME NEW r \in Requests, LockReused(r) PROVE RefusalInv'
  <2>1. /\ pc'[r] = "revoke" /\ req'[r].why = "reuse"
        /\ UNCHANGED <<family, revoked, refused>>
        /\ \A q \in Requests \ {r} : pc'[q] = pc[q] /\ req'[q] = req[q]
    BY <1>6 DEF LockReused, IInv, TypeInv, TypeOK, columns, history, NoRequest
  <2>2. QED
    BY <2>1
<1>7. ASSUME UNCHANGED <<revoked, refused>>, NEW r \in Requests,
             pc'[r] \in {"idle", "login", "checked", "minting"},
             \A q \in Requests \ {r} : pc'[q] = pc[q] /\ req'[q] = req[q]
      PROVE  RefusalInv'
  BY <1>0, <1>7 DEF IInv, TypeInv, LocalsOK
<1>8. ASSUME NEW r \in Requests,
             StartLogin(r) \/ StartRefresh(r) \/ LockRevoked(r) \/ LockMint(r)
      PROVE  RefusalInv'
  <2>1. ASSUME StartLogin(r) PROVE RefusalInv'
    <3>1. /\ pc'[r] \in {"idle", "login", "checked", "minting"}
          /\ \A q \in Requests \ {r} : pc'[q] = pc[q] /\ req'[q] = req[q]
          /\ UNCHANGED <<revoked, refused>>
      BY <2>1 DEF StartLogin, IInv, TypeInv, TypeOK, columns, history
    <3>2. QED
      BY <1>7, <3>1
  <2>2. ASSUME StartRefresh(r) PROVE RefusalInv'
    <3>1. /\ pc'[r] \in {"idle", "login", "checked", "minting"}
          /\ \A q \in Requests \ {r} : pc'[q] = pc[q] /\ req'[q] = req[q]
          /\ UNCHANGED <<revoked, refused>>
      BY <2>2 DEF StartRefresh, Done, IInv, TypeInv, TypeOK, columns, history
    <3>2. QED
      BY <1>7, <3>1
  <2>3. ASSUME LockRevoked(r) PROVE RefusalInv'
    <3>1. /\ pc'[r] \in {"idle", "login", "checked", "minting"}
          /\ \A q \in Requests \ {r} : pc'[q] = pc[q] /\ req'[q] = req[q]
          /\ UNCHANGED <<revoked, refused>>
      BY <2>3 DEF LockRevoked, Done, IInv, TypeInv, TypeOK, columns, history
    <3>2. QED
      BY <1>7, <3>1
  <2>4. ASSUME LockMint(r) PROVE RefusalInv'
    <3>1. /\ pc'[r] \in {"idle", "login", "checked", "minting"}
          /\ \A q \in Requests \ {r} : pc'[q] = pc[q] /\ req'[q] = req[q]
          /\ UNCHANGED <<revoked, refused>>
      BY <2>4 DEF LockMint, IInv, TypeInv, TypeOK, columns, history
    <3>2. QED
      BY <1>7, <3>1
  <2>5. QED
    BY <1>8, <2>1, <2>2, <2>3, <2>4
<1>9. ASSUME NEW r \in Requests, IssueRefreshToken(r) \/ Grant(r) \/ Crash(r)
      PROVE  RefusalInv'
  <2>1. ASSUME IssueRefreshToken(r) PROVE RefusalInv'
    <3>1. /\ pc'[r] \in {"idle", "login", "checked", "minting"}
          /\ \A q \in Requests \ {r} : pc'[q] = pc[q] /\ req'[q] = req[q]
          /\ UNCHANGED <<revoked, refused>>
      BY <2>1 DEF IssueRefreshToken, Done, IInv, TypeInv, TypeOK, columns, history
    <3>2. QED
      BY <1>7, <3>1
  <2>2. ASSUME Grant(r) PROVE RefusalInv'
    <3>1. /\ pc'[r] \in {"idle", "login", "checked", "minting"}
          /\ \A q \in Requests \ {r} : pc'[q] = pc[q] /\ req'[q] = req[q]
          /\ UNCHANGED <<revoked, refused>>
      BY <2>2 DEF Grant, Done, IInv, TypeInv, TypeOK, columns, history
    <3>2. QED
      BY <1>7, <3>1
  <2>3. ASSUME Crash(r) PROVE RefusalInv'
    <3>1. /\ pc'[r] \in {"idle", "login", "checked", "minting"}
          /\ \A q \in Requests \ {r} : pc'[q] = pc[q] /\ req'[q] = req[q]
          /\ UNCHANGED <<revoked, refused>>
      BY <2>3 DEF Crash, Done, IInv, TypeInv, TypeOK, columns, history
    <3>2. QED
      BY <1>7, <3>1
  <2>4. QED
    BY <1>9, <2>1, <2>2, <2>3
<1>10. CASE Tick \/ ChangeStatus \/ UNCHANGED vars
  BY <1>10 DEF Tick, ChangeStatus, vars, columns, history
<1>11. QED
  BY <1>1, <1>2, <1>3, <1>4, <1>5, <1>6, <1>8, <1>9, <1>10 DEF Next, Serve

(* By the time an endpoint answers that it turned an exchange down, the     *)
(* successor rotate had already committed is revoked                        *)
(* (staff-auth.service.ts:169-177, contact-auth.service.ts).                *)
THEOREM RefusalsHold == Spec => []RefusedExchangeLeavesNoToken
<1>1. Init => IInv /\ RefusalInv
  BY TypeInit, RotationInit DEF IInv, Init, RefusalInv, SuccessorsOfRefusals,
     RefusedExchangeLeavesNoToken
<1>2. RefusalInv => RefusedExchangeLeavesNoToken
  BY DEF RefusalInv
<1>3. QED
  BY <1>1, <1>2, InductiveStep, RefusalStep, PTL DEF Spec
=============================================================================
