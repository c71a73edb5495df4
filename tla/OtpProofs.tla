------------------------------ MODULE OtpProofs ------------------------------
(* The properties of Otp for every number of challenges and of calls, with  *)
(* their proofs.                                                            *)
EXTENDS TLAPS, Otp

(* A challenge is one committed row; only rows are consumed.                *)
TypeInv ==
    /\ clock \in Nat
    /\ issued \subseteq Challenges /\ consumed \subseteq issued
    /\ created_at \in [Challenges -> Nat]
    /\ expires_at \in [Challenges -> Nat]
    /\ attempts \in [Challenges -> Nat]
    /\ pc \in [Requests -> {"idle", "request", "requesting", "verify", "compared"}]
    /\ req \in [Requests -> Request]
    /\ compared \in [Challenges -> Nat]
    /\ successes \in [Challenges -> Nat]
    /\ superseded \subseteq consumed
    /\ overlapped \in BOOLEAN
    /\ cutOff \in [Challenges -> Nat]

(* The row a send is going to insert is nobody else's, and not there yet.   *)
FreshRows ==
    \A r \in Requests : Sending(r) =>
        /\ req[r].row \in Challenges \ issued
        /\ \A q \in Requests : Sending(q) /\ req[q].row = req[r].row => q = r

(* A snapshot holds committed rows.                                         *)
Snapshots ==
    \A r \in Requests :
        pc[r] \in {"requesting", "verify"} => req[r].rows \subseteq issued

(* Between the comparison and the commit a verification is alone with its   *)
(* row, which is still live and has an attempt left.                        *)
HeldRows ==
    \A r \in Requests : pc[r] = "compared" =>
        /\ req[r].row \in Live
        /\ attempts[req[r].row] < OTP_MAX_ATTEMPTS
        /\ \A q \in Requests :
            pc[q] = "compared" /\ req[q].row = req[r].row => q = r

(* The column counts the comparisons, save the one its lock still covers.   *)
AttemptsAreCounted ==
    \A c \in Challenges :
        /\ attempts[c] <= OTP_MAX_ATTEMPTS
        /\ Locked(c)  => compared[c] - cutOff[c] = attempts[c] + 1
        /\ ~Locked(c) => compared[c] - cutOff[c] = attempts[c]

(* A code has signed someone in only if its row was consumed by doing so.   *)
SpentOnce ==
    \A c \in Challenges :
        /\ successes[c] <= 1
        /\ successes[c] # 0 => c \in consumed
        /\ c \in superseded => successes[c] = 0

LockInv == TypeInv /\ FreshRows /\ Snapshots /\ HeldRows

OtpInv == LockInv /\ AttemptsAreCounted /\ SpentOnce

(* A call that is over leaves a well-formed record behind.                  *)
LEMMA NoRequestType == NoRequest \in Request
  BY DEF NoRequest, Request

(* At the start there is no row and no call.                                *)
LEMMA OtpInit == Init => OtpInv
<1>1. ASSUME Init PROVE TypeInv
  <2>1. req \in [Requests -> Request]
    BY <1>1, NoRequestType DEF Init
  <2>2. /\ issued = {} /\ consumed = {} /\ superseded = {}
        /\ overlapped \in BOOLEAN
    BY <1>1 DEF Init
  <2>3. QED
    BY <1>1, <2>1, <2>2 DEF Init, TypeInv
<1>2. Init => FreshRows /\ Snapshots /\ HeldRows
  BY DEF Init, FreshRows, Snapshots, HeldRows, Sending
<1>3. Init => AttemptsAreCounted
  BY OtpAssumption DEF Init, AttemptsAreCounted, Locked
<1>4. Init => SpentOnce
  BY DEF Init, SpentOnce
<1>5. QED
  BY <1>1, <1>2, <1>3, <1>4 DEF OtpInv, LockInv

(* A send takes a row that no call is about to insert.                      *)
LEMMA OtpStartRequest ==
    ASSUME OtpInv, NEW r \in Requests, StartRequest(r)
    PROVE  OtpInv'
<1> USE OtpAssumption DEF OtpInv, LockInv, TypeInv
<1>1. PICK c \in Challenges \ (issued \cup {req[q].row : q \in Requests}) :
        req' = [req EXCEPT ![r].row = c, ![r].until = ExpiryAfter(clock)]
  BY DEF StartRequest
<1>2. /\ req'[r] = [req[r] EXCEPT !.row = c, !.until = ExpiryAfter(clock)]
      /\ pc'[r] = "request"
      /\ \A q \in Requests : q # r => req'[q] = req[q] /\ pc'[q] = pc[q]
  BY <1>1 DEF StartRequest
<1>3. req'[r] \in Request /\ req'[r].row = c
  <2>1. clock + OTP_TTL \in Nat /\ c \in Challenges /\ req[r] \in Request
    BY <1>1
  <2>2. QED
    BY <1>2, <2>1 DEF Request, ExpiryAfter
<1>4. TypeInv'
  <2>1. req' \in [Requests -> Request]
    BY <1>1, <1>3
  <2>2. pc' \in [Requests -> {"idle", "request", "requesting", "verify", "compared"}]
        /\ overlapped' \in BOOLEAN
    BY DEF StartRequest
  <2>3. QED
    BY <2>1, <2>2 DEF StartRequest, columns
<1>5. FreshRows'
  <2>1. \A q \in Requests : req[q].row # c
    BY <1>1
  <2>2. QED
    BY <1>1, <1>2, <1>3, <2>1 DEF FreshRows, Sending, StartRequest
<1>6. Snapshots' /\ HeldRows'
  BY <1>2 DEF Snapshots, HeldRows, StartRequest, Live, columns
<1>7. \A d \in Challenges : Locked(d)' <=> Locked(d)
  BY <1>2 DEF Locked, StartRequest
<1>8. AttemptsAreCounted' /\ SpentOnce'
  BY <1>7 DEF AttemptsAreCounted, SpentOnce, StartRequest, Locked, columns
<1>9. QED
  BY <1>4, <1>5, <1>6, <1>8

(* The snapshot of a send or of a verification is taken of committed rows.  *)
LEMMA OtpSnapshot ==
    ASSUME OtpInv, NEW r \in Requests, BeginRequest(r) \/ StartVerify(r)
    PROVE  OtpInv'
<1> USE OtpAssumption DEF OtpInv, LockInv, TypeInv
<1>1. /\ \A q \in Requests : q # r => req'[q] = req[q] /\ pc'[q] = pc[q]
      /\ req'[r].rows = Live /\ req'[r].row = req[r].row
      /\ req' \in [Requests -> Request]
      /\ pc'[r] \in {"requesting", "verify"} /\ pc[r] # "compared"
      /\ pc'[r] = "requesting" => Sending(r)
  <2>1. CASE BeginRequest(r)
    <3>1. /\ req' = [req EXCEPT ![r].rows = Live, ![r].start = clock]
          /\ pc' = [pc EXCEPT ![r] = "requesting"] /\ pc[r] = "request"
      BY <2>1 DEF BeginRequest
    <3>2. req[r] \in Request /\ Live \subseteq Challenges
      BY DEF Live
    <3>3. req'[r] = [req[r] EXCEPT !.rows = Live, !.start = clock]
      BY <3>1
    <3>4. req'[r] \in Request /\ req'[r].rows = Live /\ req'[r].row = req[r].row
      BY <3>2, <3>3 DEF Request
    <3>5. QED
      BY <3>1, <3>4 DEF Sending
  <2>2. CASE StartVerify(r)
    <3>1. PICK code \in issued \cup {None} :
            req' = [req EXCEPT ![r].code = code, ![r].rows = Live]
      BY <2>2 DEF StartVerify
    <3>2. req[r] \in Request /\ Live \subseteq Challenges
      BY DEF Live
    <3>3. req'[r] = [req[r] EXCEPT !.code = code, !.rows = Live]
      BY <3>1
    <3>4. req'[r] \in Request
      BY <3>2, <3>3 DEF Request
    <3>5. req'[r].rows = Live /\ req'[r].row = req[r].row
      BY <3>2, <3>3 DEF Request
    <3>6. QED
      BY <2>2, <3>1, <3>4, <3>5 DEF StartVerify
  <2>3. QED
    BY <2>1, <2>2
<1>2. UNCHANGED <<clock, issued, consumed, columns, history>>
  BY DEF BeginRequest, StartVerify
<1>3. TypeInv'
  BY <1>1, <1>2 DEF BeginRequest, StartVerify, columns, history
<1>4. FreshRows'
  BY <1>1, <1>2 DEF FreshRows, Sending
<1>5. Snapshots' /\ HeldRows'
  BY <1>1, <1>2 DEF Snapshots, HeldRows, Live, columns
<1>6. \A d \in Challenges : Locked(d)' <=> Locked(d)
  BY <1>1 DEF Locked
<1>7. AttemptsAreCounted' /\ SpentOnce'
  BY <1>2, <1>6 DEF AttemptsAreCounted, SpentOnce, columns, history, Locked
<1>8. QED
  BY <1>3, <1>4, <1>5, <1>7

(* A resend consumes rows that nobody is comparing with, and inserts its own. *)
LEMMA OtpCommitRequest ==
    ASSUME OtpInv, NEW r \in Requests, CommitRequest(r)
    PROVE  OtpInv'
<1> USE OtpAssumption DEF OtpInv, LockInv, TypeInv
<1>1. PICK c : c = req[r].row
  OBVIOUS
<1>2. /\ c \in Challenges \ issued
      /\ req[r].rows \subseteq issued
      /\ req[r].start \in Nat /\ req[r].until \in Nat
  BY <1>1 DEF CommitRequest, FreshRows, Snapshots, Sending, Request
<1>3. /\ issued' = issued \cup {c}
      /\ consumed' = consumed \cup req[r].rows
      /\ superseded' = superseded \cup (req[r].rows \ consumed)
      /\ UNCHANGED <<clock, attempts, compared, successes, overlapped, cutOff>>
      /\ pc'[r] = "idle"
      /\ \A q \in Requests : q # r => req'[q] = req[q] /\ pc'[q] = pc[q]
  BY <1>1 DEF CommitRequest, Insert, Done
<1>4. TypeInv'
  <2>1. created_at' \in [Challenges -> Nat] /\ expires_at' \in [Challenges -> Nat]
    BY <1>2 DEF CommitRequest, Insert
  <2>2. pc' \in [Requests -> {"idle", "request", "requesting", "verify", "compared"}]
        /\ req' \in [Requests -> Request]
    BY NoRequestType DEF CommitRequest, Done
  <2>3. QED
    BY <1>2, <1>3, <2>1, <2>2
<1>5. FreshRows'
  BY <1>1, <1>3 DEF FreshRows, Sending, CommitRequest
<1>6. Snapshots'
  BY <1>3 DEF Snapshots
<1>7. HeldRows'
  BY <1>1, <1>2, <1>3 DEF HeldRows, Live, CommitRequest, Locked
<1>8. \A d \in Challenges : Locked(d)' <=> Locked(d)
  BY <1>3 DEF Locked, CommitRequest
<1>9. AttemptsAreCounted'
  BY <1>3, <1>8 DEF AttemptsAreCounted, Locked
<1>10. SpentOnce'
  BY <1>3 DEF SpentOnce
<1>11. QED
  BY <1>4, <1>5, <1>6, <1>7, <1>9, <1>10

(* A verification gives up, passes over a consumed row, or dies: its locks  *)
(* go with it, and a crash is one comparison to set aside.                  *)
LEMMA OtpLetsGo ==
    ASSUME OtpInv, NEW r \in Requests,
           NotFound(r) \/ SkipConsumed(r) \/ Crash(r)
    PROVE  OtpInv'
<1> USE OtpAssumption DEF OtpInv, LockInv, TypeInv
<1>1. /\ UNCHANGED <<clock, issued, consumed, columns, compared, successes,
                     superseded, overlapped>>
      /\ \A q \in Requests : q # r => req'[q] = req[q] /\ pc'[q] = pc[q]
      /\ \/ pc'[r] = "idle"
         \/ pc'[r] = "verify" /\ pc[r] = "verify" /\ req'[r].rows \subseteq req[r].rows
  <2>1. CASE NotFound(r) \/ Crash(r)
    BY <2>1 DEF NotFound, Crash, Done, history
  <2>2. CASE SkipConsumed(r)
    BY <2>2 DEF SkipConsumed, Reaches, Request, history
  <2>3. QED
    BY <2>1, <2>2
<1>2. TypeInv'
  <2>1. req' \in [Requests -> Request]
    <3>1. CASE NotFound(r) \/ Crash(r)
      BY <3>1, NoRequestType DEF NotFound, Crash, Done
    <3>2. CASE SkipConsumed(r)
      <4>1. PICK c \in req[r].rows : req' = [req EXCEPT ![r].rows = @ \ {c}]
        BY <3>2 DEF SkipConsumed
      <4>2. req[r] \in Request
        OBVIOUS
      <4>3. [req[r] EXCEPT !.rows = @ \ {c}] \in Request
        BY <4>2 DEF Request
      <4>4. QED
        BY <4>1, <4>3
    <3>3. QED
      BY <3>1, <3>2
  <2>2. /\ pc' \in [Requests -> {"idle", "request", "requesting", "verify", "compared"}]
        /\ cutOff' \in [Challenges -> Nat]
    BY DEF NotFound, SkipConsumed, Crash, Done, history
  <2>3. QED
    BY <1>1, <2>1, <2>2 DEF columns
<1>3. FreshRows' /\ Snapshots' /\ HeldRows'
  BY <1>1 DEF FreshRows, Sending, Snapshots, HeldRows, Live, columns
<1>4. AttemptsAreCounted'
  <2>1. CASE pc[r] = "compared"
    <3>1. PICK c : c = req[r].row
      OBVIOUS
    <3>2. c \in Challenges /\ Locked(c) /\ ~Locked(c)'
      BY <1>1, <2>1, <3>1 DEF HeldRows, Live, Locked
    <3>3. \A d \in Challenges : d # c => (Locked(d)' <=> Locked(d))
      BY <1>1, <2>1, <3>1 DEF Locked
    <3>4. cutOff'[c] = cutOff[c] + 1 /\ \A d \in Challenges : d # c => cutOff'[d] = cutOff[d]
      BY <2>1, <3>1, <3>2 DEF NotFound, SkipConsumed, Reaches, Crash
    <3>5. QED
      BY <1>1, <3>2, <3>3, <3>4 DEF AttemptsAreCounted, columns, Locked
  <2>2. CASE pc[r] # "compared"
    <3>1. \A d \in Challenges : Locked(d)' <=> Locked(d)
      BY <1>1, <2>2 DEF Locked
    <3>2. \A d \in Challenges : cutOff'[d] = cutOff[d]
      BY <2>2 DEF NotFound, SkipConsumed, Crash, history
    <3>3. QED
      BY <1>1, <3>1, <3>2 DEF AttemptsAreCounted, columns, Locked
  <2>3. QED
    BY <2>1, <2>2
<1>5. SpentOnce'
  BY <1>1 DEF SpentOnce
<1>6. QED
  BY <1>2, <1>3, <1>4, <1>5

(* A verification consumes an expired or worn-out row whose lock it took.   *)
LEMMA OtpRetire ==
    ASSUME OtpInv, NEW r \in Requests, Retire(r)
    PROVE  OtpInv'
<1> USE OtpAssumption DEF OtpInv, LockInv, TypeInv
<1>1. PICK c \in req[r].rows \ consumed :
        /\ Reaches(r, c)
        /\ consumed' = consumed \cup {c}
  BY DEF Retire
<1>2. /\ c \in issued /\ ~Locked(c) /\ pc[r] = "verify"
      /\ UNCHANGED <<clock, issued, columns, history>>
      /\ pc'[r] = "idle"
      /\ \A q \in Requests : q # r => req'[q] = req[q] /\ pc'[q] = pc[q]
  BY <1>1 DEF Retire, Done, Reaches, Snapshots
<1>3. TypeInv'
  BY <1>1, <1>2, NoRequestType DEF Retire, Done, columns, history
<1>4. FreshRows' /\ Snapshots'
  BY <1>2 DEF FreshRows, Sending, Snapshots
<1>5. HeldRows'
  BY <1>1, <1>2 DEF HeldRows, Live, Locked, columns
<1>6. \A d \in Challenges : Locked(d)' <=> Locked(d)
  BY <1>2 DEF Locked
<1>7. AttemptsAreCounted' /\ SpentOnce'
  BY <1>1, <1>2, <1>6 DEF AttemptsAreCounted, SpentOnce, columns, history, Locked
<1>8. QED
  BY <1>3, <1>4, <1>5, <1>7

(* A comparison takes the lock of a live row below the cap.                 *)
LEMMA OtpCompare ==
    ASSUME OtpInv, NEW r \in Requests, Compare(r)
    PROVE  OtpInv'
<1> USE OtpAssumption DEF OtpInv, LockInv, TypeInv
<1>1. PICK c \in req[r].rows \ consumed :
        /\ Reaches(r, c)
        /\ ~Exhausted(c)
        /\ compared' = [compared EXCEPT ![c] = @ + 1]
        /\ req' = [req EXCEPT ![r].row = c, ![r].rows = {}]
  BY DEF Compare
<1>2. /\ c \in Challenges /\ c \in Live /\ ~Locked(c) /\ pc[r] = "verify"
      /\ attempts[c] < OTP_MAX_ATTEMPTS
      /\ UNCHANGED <<clock, issued, consumed, columns, successes, superseded,
                     overlapped, cutOff>>
      /\ pc'[r] = "compared" /\ req'[r].row = c
      /\ \A q \in Requests : q # r => req'[q] = req[q] /\ pc'[q] = pc[q]
  BY <1>1 DEF Compare, Reaches, Snapshots, Live, Exhausted, Request
<1>3. TypeInv'
  <2>1. req[r] \in Request
    OBVIOUS
  <2>2. [req[r] EXCEPT !.row = c, !.rows = {}] \in Request
    BY <1>2, <2>1 DEF Request
  <2>3. req' \in [Requests -> Request]
    BY <1>1, <2>2
  <2>4. pc' = [pc EXCEPT ![r] = "compared"]
    BY DEF Compare
  <2>5. QED
    BY <1>1, <1>2, <2>3, <2>4 DEF columns
<1>4. FreshRows' /\ Snapshots'
  BY <1>2 DEF FreshRows, Sending, Snapshots
<1>5. HeldRows'
  BY <1>2 DEF HeldRows, Live, Locked, columns
<1>6. Locked(c)' /\ \A d \in Challenges : d # c => (Locked(d)' <=> Locked(d))
  BY <1>2 DEF Locked
<1>7. AttemptsAreCounted'
  BY <1>1, <1>2, <1>6 DEF AttemptsAreCounted, columns, Locked
<1>8. SpentOnce'
  BY <1>2 DEF SpentOnce
<1>9. QED
  BY <1>3, <1>4, <1>5, <1>7, <1>8

(* The commit counts the attempt and, on a match, consumes the row it held. *)
LEMMA OtpCommitVerify ==
    ASSUME OtpInv, NEW r \in Requests, CommitVerify(r)
    PROVE  OtpInv'
<1> USE OtpAssumption DEF OtpInv, LockInv, TypeInv
<1>1. PICK c : c = req[r].row
  OBVIOUS
<1>2. /\ c \in Challenges /\ c \in Live /\ Locked(c)
      /\ attempts[c] < OTP_MAX_ATTEMPTS
      /\ pc[r] = "compared"
      /\ \A q \in Requests : pc[q] = "compared" /\ req[q].row = c => q = r
  BY <1>1 DEF CommitVerify, HeldRows, Live, Locked
<1>3. /\ attempts' = [attempts EXCEPT ![c] = @ + 1]
      /\ \/ consumed' = consumed /\ successes' = successes
         \/ consumed' = consumed \cup {c} /\ successes' = [successes EXCEPT ![c] = @ + 1]
      /\ UNCHANGED <<clock, issued, created_at, expires_at, compared, superseded,
                     overlapped, cutOff>>
      /\ pc'[r] = "idle"
      /\ \A q \in Requests : q # r => req'[q] = req[q] /\ pc'[q] = pc[q]
  BY <1>1 DEF CommitVerify, Done
<1>4. TypeInv'
  <2>1. pc' \in [Requests -> {"idle", "request", "requesting", "verify", "compared"}]
        /\ req' \in [Requests -> Request]
    BY NoRequestType DEF CommitVerify, Done
  <2>2. /\ attempts' \in [Challenges -> Nat] /\ successes' \in [Challenges -> Nat]
        /\ consumed' \subseteq issued' /\ superseded' \subseteq consumed'
    BY <1>2, <1>3 DEF Live
  <2>3. QED
    BY <1>3, <2>1, <2>2
<1>5. FreshRows' /\ Snapshots'
  BY <1>3 DEF FreshRows, Sending, Snapshots
<1>6. HeldRows'
  <2>1. ASSUME NEW q \in Requests, pc'[q] = "compared"
        PROVE  q # r /\ req[q].row # c /\ pc[q] = "compared" /\ req'[q] = req[q]
    BY <1>2, <1>3, <2>1
  <2>2. QED
    BY <1>3, <2>1 DEF HeldRows, Live
<1>7. ~Locked(c)' /\ \A d \in Challenges : d # c => (Locked(d)' <=> Locked(d))
  BY <1>1, <1>2, <1>3 DEF Locked
<1>8. AttemptsAreCounted'
  BY <1>2, <1>3, <1>7 DEF AttemptsAreCounted, Locked
<1>9. SpentOnce'
  BY <1>2, <1>3 DEF SpentOnce, Live
<1>10. QED
  BY <1>4, <1>5, <1>6, <1>8, <1>9

(* Every step keeps the invariant; time only passes.                        *)
LEMMA OtpStep == OtpInv /\ [Next]_vars => OtpInv'
<1> SUFFICES ASSUME OtpInv, [Next]_vars PROVE OtpInv'
  OBVIOUS
<1>1. CASE Tick
  BY <1>1 DEF Tick, OtpInv, LockInv, TypeInv, FreshRows, Sending, Snapshots,
              HeldRows, Live, AttemptsAreCounted, Locked, SpentOnce, columns, history
<1>2. CASE UNCHANGED vars
  BY <1>2 DEF vars, OtpInv, LockInv, TypeInv, FreshRows, Sending, Snapshots,
              HeldRows, Live, AttemptsAreCounted, Locked, SpentOnce, columns, history
<1>3. CASE \E r \in Requests :
            \/ StartRequest(r) \/ BeginRequest(r) \/ CommitRequest(r)
            \/ StartVerify(r) \/ NotFound(r) \/ SkipConsumed(r) \/ Retire(r)
            \/ Compare(r) \/ CommitVerify(r) \/ Crash(r)
  BY <1>3, OtpStartRequest, OtpSnapshot, OtpCommitRequest, OtpLetsGo, OtpRetire,
     OtpCompare, OtpCommitVerify
<1>4. QED
  BY <1>1, <1>2, <1>3 DEF Next

(* OtpInv is an invariant of the specification.                             *)
LEMMA OtpInvariant == Spec => []OtpInv
<1>1. Init => OtpInv
  BY OtpInit
<1>2. OtpInv /\ [Next]_vars => OtpInv'
  BY OtpStep
<1>3. QED
  BY <1>1, <1>2, PTL DEF Spec

(* A code signs its owner in once, however many calls of verify overlap.    *)
THEOREM CodeSignsInOnce == Spec => []SingleUse
<1>1. OtpInv => SingleUse
  BY DEF OtpInv, SpentOnce, SingleUse
<1>2. QED
  BY <1>1, OtpInvariant, PTL

(* Calls of verify cannot between them exceed the cap of attempts.          *)
THEOREM AttemptsAreCapped == Spec => []AttemptCap
<1>1. OtpInv => AttemptCap
  <2> SUFFICES ASSUME OtpInv, NEW c \in Challenges
               PROVE  compared[c] - cutOff[c] <= OTP_MAX_ATTEMPTS
    BY DEF AttemptCap
  <2> USE OtpAssumption DEF OtpInv, LockInv, TypeInv
  <2>1. CASE Locked(c)
    <3>1. attempts[c] < OTP_MAX_ATTEMPTS
      BY <2>1 DEF HeldRows, Locked
    <3>2. QED
      BY <2>1, <3>1 DEF AttemptsAreCounted, Locked
  <2>2. CASE ~Locked(c)
    BY <2>2 DEF AttemptsAreCounted, Locked
  <2>3. QED
    BY <2>1, <2>2
<1>2. QED
  BY <1>1, OtpInvariant, PTL

(* The code of a challenge that a resend consumed never signs anyone in.    *)
THEOREM SupersededCodeIsDead == Spec => []SupersededNeverSucceeds
<1>1. OtpInv => SupersededNeverSucceeds
  BY DEF OtpInv, LockInv, TypeInv, SpentOnce, SupersededNeverSucceeds
<1>2. QED
  BY <1>1, OtpInvariant, PTL

-----------------------------------------------------------------------------
(* As long as no two sends have overlapped there is one at a time.          *)
OneSender ==
    ~overlapped => \A q, r \in Requests : Sending(q) /\ Sending(r) => q = r

(* ... so the snapshot of a send still holds every live row at its commit.  *)
SnapshotIsLive ==
    ~overlapped =>
        \A r \in Requests : pc[r] = "requesting" => Live \subseteq req[r].rows

(* ... and the cooldown it read is still over for every row there is.       *)
CooledDown ==
    ~overlapped =>
        \A r \in Requests, d \in issued :
            /\ pc[r] = "request" => created_at[d] + OTP_RESEND_COOLDOWN <= clock
            /\ pc[r] = "requesting" =>
                created_at[d] + OTP_RESEND_COOLDOWN <= req[r].start

(* ORDER BY created_at DESC LIMIT 1 finds a row when there is one.          *)
NewestExists == issued # {} => Newest(issued) # {}

TurnInv == OneSender /\ SnapshotIsLive /\ CooledDown /\ NewestExists /\ SendsInTurn

(* At the start there is no row and no call.                                *)
LEMMA TurnInit == Init => TurnInv
  BY DEF Init, TurnInv, OneSender, SnapshotIsLive, CooledDown, NewestExists,
         SendsInTurn, Sending, Live

(* A send starts when the newest row, and so every row, is old enough.      *)
LEMMA TurnStartRequest ==
    ASSUME OtpInv, TurnInv, NEW r \in Requests, StartRequest(r)
    PROVE  TurnInv'
<1> USE OtpAssumption DEF OtpInv, LockInv, TypeInv
<1>1. /\ pc[r] = "idle" /\ pc'[r] = "request"
      /\ \A q \in Requests : q # r => req'[q] = req[q] /\ pc'[q] = pc[q]
      /\ UNCHANGED <<clock, issued, consumed, created_at>>
      /\ ~overlapped' => ~overlapped /\ \A q \in Requests : ~Sending(q)
  BY DEF StartRequest, columns
<1>2. OneSender' /\ SnapshotIsLive'
  BY <1>1 DEF TurnInv, OneSender, SnapshotIsLive, Sending, Live
<1>3. CooledDown'
  <2> SUFFICES ASSUME ~overlapped', NEW q \in Requests, NEW d \in issued'
               PROVE  /\ pc'[q] = "request" =>
                            created_at'[d] + OTP_RESEND_COOLDOWN <= clock'
                      /\ pc'[q] # "requesting"
    BY DEF CooledDown
  <2>1. PICK c \in issued : \A e \in issued : created_at[e] <= created_at[c]
    BY <1>1 DEF TurnInv, NewestExists, Newest
  <2>2. created_at[c] + OTP_RESEND_COOLDOWN <= clock
    <3>1. ~(clock - created_at[c] < OTP_RESEND_COOLDOWN)
      BY <2>1 DEF StartRequest, CoolingDown, Newest
    <3>2. clock \in Nat /\ created_at[c] \in Nat /\ OTP_RESEND_COOLDOWN \in Nat
      OBVIOUS
    <3>3. QED
      BY <3>1, <3>2
  <2>3. created_at[d] \in Nat /\ created_at[c] \in Nat /\ created_at[d] <= created_at[c]
    BY <1>1, <2>1
  <2>4. pc'[q] # "requesting"
    BY <1>1 DEF Sending
  <2>5. QED
    BY <1>1, <2>2, <2>3, <2>4
<1>4. NewestExists' /\ SendsInTurn'
  BY <1>1 DEF TurnInv, NewestExists, Newest, SendsInTurn, Live
<1>5. QED
  BY <1>2, <1>3, <1>4 DEF TurnInv

(* BEGIN fixes now(), no earlier than the clock the cooldown was read at.   *)
LEMMA TurnBeginRequest ==
    ASSUME OtpInv, TurnInv, NEW r \in Requests, BeginRequest(r)
    PROVE  TurnInv'
<1> USE OtpAssumption DEF OtpInv, LockInv, TypeInv
<1>1. /\ pc[r] = "request" /\ pc'[r] = "requesting"
      /\ req'[r].rows = Live /\ req'[r].start = clock
      /\ \A q \in Requests : q # r => req'[q] = req[q] /\ pc'[q] = pc[q]
      /\ UNCHANGED <<clock, issued, consumed, created_at, overlapped>>
  BY DEF BeginRequest, columns, history, Request, Live
<1>2. OneSender' /\ SnapshotIsLive' /\ CooledDown'
  BY <1>1 DEF TurnInv, OneSender, SnapshotIsLive, CooledDown, Sending, Live
<1>3. NewestExists' /\ SendsInTurn'
  BY <1>1 DEF TurnInv, NewestExists, Newest, SendsInTurn, Live
<1>4. QED
  BY <1>2, <1>3 DEF TurnInv

(* The commit leaves the row it inserts as the only live one.               *)
LEMMA TurnCommitRequest ==
    ASSUME OtpInv, TurnInv, NEW r \in Requests, CommitRequest(r)
    PROVE  TurnInv'
<1> USE OtpAssumption DEF OtpInv, LockInv, TypeInv
<1>1. PICK c, start : c = req[r].row /\ start = req[r].start
  OBVIOUS
<1>2. /\ c \in Challenges \ issued /\ start \in Nat
      /\ pc[r] = "requesting" /\ Sending(r)
  BY <1>1 DEF CommitRequest, FreshRows, Sending, Request
<1>3. /\ issued' = issued \cup {c}
      /\ consumed' = consumed \cup req[r].rows
      /\ created_at' = [created_at EXCEPT ![c] = start]
      /\ UNCHANGED <<clock, overlapped>>
      /\ pc'[r] = "idle"
      /\ \A q \in Requests : q # r => req'[q] = req[q] /\ pc'[q] = pc[q]
  BY <1>1 DEF CommitRequest, Insert, Done
<1>4. ~overlapped => \A q \in Requests : ~Sending(q)'
  BY <1>2, <1>3 DEF TurnInv, OneSender, Sending
<1>5. OneSender' /\ SnapshotIsLive' /\ CooledDown'
  BY <1>3, <1>4 DEF OneSender, SnapshotIsLive, CooledDown, Sending
<1>6. NewestExists'
  <2>1. CASE \A d \in issued : created_at[d] <= start
    BY <1>2, <1>3, <2>1 DEF NewestExists, Newest
  <2>2. CASE \E d \in issued : start < created_at[d]
    <3>1. PICK n \in issued : \A d \in issued : created_at[d] <= created_at[n]
      BY <2>2 DEF TurnInv, NewestExists, Newest
    <3>2. start < created_at[n] /\ n \in Challenges /\ n # c
      BY <1>2, <2>2, <3>1
    <3>3. \A d \in issued' : created_at'[d] <= created_at'[n]
      BY <1>2, <1>3, <3>1, <3>2
    <3>4. QED
      BY <1>3, <3>1, <3>3 DEF NewestExists, Newest
  <2>3. QED
    BY <1>2, <2>1, <2>2
<1>7. SendsInTurn'
  <2> SUFFICES ASSUME ~overlapped
               PROVE  /\ Live' \subseteq {c}
                      /\ \A d, e \in issued' : d # e =>
                            \/ created_at'[d] - created_at'[e] >= OTP_RESEND_COOLDOWN
                            \/ created_at'[e] - created_at'[d] >= OTP_RESEND_COOLDOWN
    BY <1>3 DEF SendsInTurn
  <2>1. Live' \subseteq {c}
    BY <1>2, <1>3 DEF TurnInv, SnapshotIsLive, Live
  <2>2. \A d \in issued : created_at[d] + OTP_RESEND_COOLDOWN <= start
    BY <1>1, <1>2 DEF TurnInv, CooledDown
  <2>3. \A d \in issued : created_at'[d] = created_at[d] /\ created_at[d] \in Nat
    BY <1>2, <1>3
  <2>4. created_at'[c] = start
    BY <1>2, <1>3
  <2>5. \A d, e \in issued : d # e =>
            \/ created_at[d] - created_at[e] >= OTP_RESEND_COOLDOWN
            \/ created_at[e] - created_at[d] >= OTP_RESEND_COOLDOWN
    BY DEF TurnInv, SendsInTurn
  <2>6. QED
    BY <1>2, <1>3, <2>1, <2>2, <2>3, <2>4, <2>5
<1>8. QED
  BY <1>5, <1>6, <1>7 DEF TurnInv

(* What ends a call or serves a verification starts no send, adds no row    *)
(* and makes none live again.                                               *)
LEMMA TurnOther ==
    ASSUME OtpInv, TurnInv, NEW r \in Requests,
           \/ StartVerify(r) \/ NotFound(r) \/ SkipConsumed(r) \/ Retire(r)
           \/ Compare(r) \/ CommitVerify(r) \/ Crash(r)
    PROVE  TurnInv'
<1> USE DEF OtpInv, LockInv, TypeInv
<1>1. /\ UNCHANGED <<clock, issued, created_at, overlapped>>
      /\ consumed \subseteq consumed'
      /\ pc'[r] \in {"idle", "verify", "compared"}
      /\ \A q \in Requests : q # r => req'[q] = req[q] /\ pc'[q] = pc[q]
  BY DEF StartVerify, NotFound, SkipConsumed, Reaches, Retire, Compare,
         CommitVerify, Crash, Done, columns, history
<1>2. OneSender' /\ SnapshotIsLive' /\ CooledDown'
  BY <1>1 DEF TurnInv, OneSender, SnapshotIsLive, CooledDown, Sending, Live
<1>3. NewestExists' /\ SendsInTurn'
  BY <1>1 DEF TurnInv, NewestExists, Newest, SendsInTurn, Live
<1>4. QED
  BY <1>2, <1>3 DEF TurnInv

(* Every step keeps the sends in turn; waiting only ages the rows.          *)
LEMMA TurnStep == OtpInv /\ TurnInv /\ [Next]_vars => TurnInv'
<1> SUFFICES ASSUME OtpInv, TurnInv, [Next]_vars PROVE TurnInv'
  OBVIOUS
<1>1. CASE Tick
  <2>1. /\ clock' = clock + 1
        /\ UNCHANGED <<issued, consumed, created_at, pc, req, overlapped>>
    BY <1>1 DEF Tick, columns, history
  <2>2. OneSender' /\ SnapshotIsLive'
    BY <2>1 DEF TurnInv, OneSender, SnapshotIsLive, Sending, Live
  <2>3. CooledDown'
    BY <2>1, OtpAssumption DEF TurnInv, CooledDown, OtpInv, LockInv, TypeInv
  <2>4. NewestExists' /\ SendsInTurn'
    BY <2>1 DEF TurnInv, NewestExists, Newest, SendsInTurn, Live
  <2>5. QED
    BY <2>2, <2>3, <2>4 DEF TurnInv
<1>2. CASE UNCHANGED vars
  BY <1>2 DEF vars, TurnInv, OneSender, SnapshotIsLive, CooledDown, NewestExists,
              Newest, SendsInTurn, Sending, Live, columns, history
<1>3. ASSUME NEW r \in Requests,
             \/ StartRequest(r) \/ BeginRequest(r) \/ CommitRequest(r)
             \/ StartVerify(r) \/ NotFound(r) \/ SkipConsumed(r) \/ Retire(r)
             \/ Compare(r) \/ CommitVerify(r) \/ Crash(r)
      PROVE  TurnInv'
  BY <1>3, TurnStartRequest, TurnBeginRequest, TurnCommitRequest, TurnOther
<1>4. QED
  BY <1>1, <1>2, <1>3 DEF Next

(* While no two sends overlap, one code at most is live and any two were    *)
(* sent a cooldown apart.                                                   *)
THEOREM SendsTakeTurns == Spec => []SendsInTurn
<1>1. Init => TurnInv
  BY TurnInit
<1>2. OtpInv /\ TurnInv /\ [Next]_vars => TurnInv'
  BY TurnStep
<1>3. TurnInv => SendsInTurn
  BY DEF TurnInv
<1>4. QED
  BY <1>1, <1>2, <1>3, OtpInvariant, PTL DEF Spec
=============================================================================
