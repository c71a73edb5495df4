--------------------------------- MODULE Otp ---------------------------------
(***************************************************************************)
(* The otp_challenge rows of one destination and purpose, OtpService.      *)
(* request and OtpService.verify, with several calls running at once on    *)
(* READ COMMITTED transactions.  A challenge stands for its row and for    *)
(* the code sent with it; comparing hashes is comparing challenges.        *)
(***************************************************************************)
EXTENDS Integers

CONSTANTS
    Challenges,     \* rows that can be inserted
    Requests,       \* calls that can be running at the same time
    OTP_MAX_ATTEMPTS, OTP_TTL, OTP_RESEND_COOLDOWN,
    MaxTime,        \* bound on the clock
    MaxGuesses,     \* bound on comparisons made with one challenge's code
    None            \* no challenge; as a submitted code, a wrong one

ASSUME OtpAssumption ==
    /\ OTP_MAX_ATTEMPTS \in 1 .. 10
    /\ OTP_TTL \in Nat \ {0} /\ OTP_RESEND_COOLDOWN \in Nat \ {0}
    /\ MaxTime \in Nat /\ MaxGuesses \in Nat
    /\ None \notin Challenges

VARIABLES
    clock,
    issued, consumed,                   \* committed rows; consumed_at is set
    created_at, expires_at, attempts,   \* columns
    pc, req,                            \* the calls being served
    compared,       \* history: comparisons made with a challenge's code
    successes,      \* history: ok answers committed for a challenge
    superseded,     \* history: challenges a resend consumed
    overlapped,     \* history: two sends have been under way at once
    cutOff          \* history: comparisons whose transaction a crash rolled back

columns == <<created_at, expires_at, attempts>>
history == <<compared, successes, superseded, overlapped, cutOff>>
vars == <<clock, issued, consumed, columns, pc, req, history>>

Request == [row   : Challenges \cup {None},     \* inserted, or locked
            code  : Challenges \cup {None},     \* submitted
            rows  : SUBSET Challenges,          \* what the statement's snapshot saw
            start : Nat,                        \* now() of the transaction
            until : Nat]                        \* expiry of the code to be sent

NoRequest == [row |-> None, code |-> None, rows |-> {},
              start |-> 0, until |-> 0]

Live == issued \ consumed

Sending(r) == pc[r] \in {"request", "requesting"}

\* Mutant: SELECT without FOR UPDATE.
NeverLocked(c) == c \notin Challenges

\* FOR UPDATE is held from the comparison to the commit.
Locked(c) == \E r \in Requests : pc[r] = "compared" /\ req[r].row = c

Newest(cs) == {c \in cs : \A d \in cs : created_at[d] <= created_at[c]}

Done(r) ==
    /\ pc'  = [pc EXCEPT ![r] = "idle"]
    /\ req' = [req EXCEPT ![r] = NoRequest]

Init ==
    /\ clock = 0
    /\ issued = {} /\ consumed = {}
    /\ created_at = [c \in Challenges |-> 0]
    /\ expires_at = [c \in Challenges |-> 0]
    /\ attempts   = [c \in Challenges |-> 0]
    /\ pc  = [r \in Requests |-> "idle"]
    /\ req = [r \in Requests |-> NoRequest]
    /\ compared  = [c \in Challenges |-> 0]
    /\ successes = [c \in Challenges |-> 0]
    /\ superseded = {} /\ overlapped = FALSE
    /\ cutOff = [c \in Challenges |-> 0]

-----------------------------------------------------------------------------
(* request: the cooldown is read in a transaction of its own, the rows are *)
(* written in the next one.                                                *)

\* Mutant: off by one, the cooldown is over a second early.
EarlyCooldown == \E c \in Newest(issued) : clock - created_at[c] < OTP_RESEND_COOLDOWN - 1

\* The newest row, consumed or not, is too recent: nothing is sent.
CoolingDown == \E c \in Newest(issued) : clock - created_at[c] < OTP_RESEND_COOLDOWN

ExpiryAfter(now) == now + OTP_TTL

StartRequest(r) ==
    /\ pc[r] = "idle"
    /\ ~CoolingDown
    /\ \E c \in Challenges \ (issued \cup {req[q].row : q \in Requests}) :
        req' = [req EXCEPT ![r].row = c, ![r].until = ExpiryAfter(clock)]
    /\ pc' = [pc EXCEPT ![r] = "request"]
    /\ overlapped' = (overlapped \/ \E q \in Requests : Sending(q))
    /\ UNCHANGED <<clock, issued, consumed, columns, compared, successes,
                   superseded, cutOff>>

\* BEGIN, and the UPDATE's snapshot of the rows outstanding; now() is fixed here.
BeginRequest(r) ==
    /\ pc[r] = "request"
    /\ req' = [req EXCEPT ![r].rows = Live, ![r].start = clock]
    /\ pc' = [pc EXCEPT ![r] = "requesting"]
    /\ UNCHANGED <<clock, issued, consumed, columns, history>>

\* INSERT INTO otp_challenge.
Insert(r) ==
    LET c == req[r].row
    IN  /\ issued' = issued \cup {c}
        /\ created_at' = [created_at EXCEPT ![c] = req[r].start]
        /\ expires_at' = [expires_at EXCEPT ![c] = req[r].until]

\* The UPDATE has waited for its rows; INSERT and COMMIT.
CommitRequest(r) ==
    /\ pc[r] = "requesting"
    /\ \A c \in req[r].rows : ~Locked(c)
    /\ consumed' = consumed \cup req[r].rows
    /\ superseded' = superseded \cup (req[r].rows \ consumed)
    /\ Insert(r)
    /\ Done(r)
    /\ UNCHANGED <<clock, attempts, compared, successes, overlapped, cutOff>>

-----------------------------------------------------------------------------
(* verify: one transaction.  SELECT ... ORDER BY created_at DESC LIMIT 1   *)
(* FOR UPDATE walks the rows its snapshot saw, newest first; a row consumed *)
(* while it waited no longer matches and the next one is tried.            *)

StartVerify(r) ==
    /\ pc[r] = "idle"
    /\ \E code \in issued \cup {None} :
        req' = [req EXCEPT ![r].code = code, ![r].rows = Live]
    /\ pc' = [pc EXCEPT ![r] = "verify"]
    /\ UNCHANGED <<clock, issued, consumed, columns, history>>

NotFound(r) ==
    /\ pc[r] = "verify"
    /\ req[r].rows = {}
    /\ Done(r)
    /\ UNCHANGED <<clock, issued, consumed, columns, history>>

\* c is next in line and this transaction holds its lock.
Reaches(r, c) ==
    /\ pc[r] = "verify"
    /\ c \in Newest(req[r].rows)
    /\ ~Locked(c)

SkipConsumed(r) ==
    /\ \E c \in req[r].rows :
        /\ Reaches(r, c)
        /\ c \in consumed
        /\ req' = [req EXCEPT ![r].rows = @ \ {c}]
    /\ UNCHANGED <<clock, issued, consumed, columns, pc, history>>

\* Mutant: one attempt too many.
LastAttemptSpent(c) == attempts[c] > OTP_MAX_ATTEMPTS

Exhausted(c) == attempts[c] >= OTP_MAX_ATTEMPTS

\* expired, or too-many-attempts: the challenge is consumed, the answer is no.
Retire(r) ==
    /\ \E c \in req[r].rows \ consumed :
        /\ Reaches(r, c)
        /\ expires_at[c] <= clock \/ Exhausted(c)
        /\ consumed' = consumed \cup {c}
    /\ Done(r)
    /\ UNCHANGED <<clock, issued, columns, history>>

\* attempts + 1, then the comparison; neither is visible before the commit.
Compare(r) ==
    /\ \E c \in req[r].rows \ consumed :
        /\ Reaches(r, c)
        /\ expires_at[c] > clock /\ ~Exhausted(c)
        /\ compared[c] < MaxGuesses
        /\ compared' = [compared EXCEPT ![c] = @ + 1]
        /\ req' = [req EXCEPT ![r].row = c, ![r].rows = {}]
    /\ pc' = [pc EXCEPT ![r] = "compared"]
    /\ UNCHANGED <<clock, issued, consumed, columns, successes, superseded,
                   overlapped, cutOff>>

CommitVerify(r) ==
    /\ pc[r] = "compared"
    /\ LET c  == req[r].row
           ok == req[r].code = c
       IN  /\ attempts' = [attempts EXCEPT ![c] = @ + 1]
           /\ consumed' = IF ok THEN consumed \cup {c} ELSE consumed
           /\ successes' = IF ok THEN [successes EXCEPT ![c] = @ + 1] ELSE successes
    /\ Done(r)
    /\ UNCHANGED <<clock, issued, created_at, expires_at, compared, superseded,
                   overlapped, cutOff>>

-----------------------------------------------------------------------------
Tick ==
    /\ clock < MaxTime
    /\ clock' = clock + 1
    /\ UNCHANGED <<issued, consumed, columns, pc, req, history>>

\* The process or its connection dies; the open transaction is rolled back.
Crash(r) ==
    /\ pc[r] # "idle"
    /\ cutOff' = [c \in Challenges |->
                    IF pc[r] = "compared" /\ req[r].row = c THEN cutOff[c] + 1
                                                           ELSE cutOff[c]]
    /\ Done(r)
    /\ UNCHANGED <<clock, issued, consumed, columns, compared, successes,
                   superseded, overlapped>>

Next ==
    \/ \E r \in Requests :
        \/ StartRequest(r) \/ BeginRequest(r) \/ CommitRequest(r)
        \/ StartVerify(r) \/ NotFound(r) \/ SkipConsumed(r) \/ Retire(r)
        \/ Compare(r) \/ CommitVerify(r)
        \/ Crash(r)
    \/ Tick

Spec == Init /\ [][Next]_vars

-----------------------------------------------------------------------------
\* A code signs its owner in once, however many verifications of it overlap.
SingleUse == \A c \in Challenges : successes[c] <= 1

\* Overlapping verifications cannot between them compare more often than the
\* cap.  A crash gives its comparison back (otp.service.ts:145-147 says it does
\* not): those are set aside.
AttemptCap == \A c \in Challenges : compared[c] - cutOff[c] <= OTP_MAX_ATTEMPTS

\* Once a resend has consumed a challenge its code is dead, even for a
\* verification that had already found the challenge.
SupersededNeverSucceeds == \A c \in superseded : successes[c] = 0

\* A resend leaves no other live code (otp.service.ts:107-111), and the gap
\* between sends to one destination is kept (configuration.ts:85), as long as
\* no two sends have overlapped.
SendsInTurn ==
    ~overlapped =>
        /\ \A c, d \in Live : c = d
        /\ \A c, d \in issued :
            c # d => \/ created_at[c] - created_at[d] >= OTP_RESEND_COOLDOWN
                     \/ created_at[d] - created_at[c] >= OTP_RESEND_COOLDOWN
=============================================================================
