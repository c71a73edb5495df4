------------------------------- MODULE Session -------------------------------
(***************************************************************************)
(* What the token service promises about a login session, with no token,   *)
(* lock or transaction in sight.  A session (a rotation family in the      *)
(* code) is opened once for one principal, may be closed, and once closed  *)
(* stays closed.  Nothing that happens to it later gives it a second       *)
(* principal.  TokenRotation implements this specification.                *)
(***************************************************************************)
CONSTANTS
    Families,       \* identities a session can have
    Principals      \* staff users and contacts

VARIABLES
    phase,          \* phase[f]  : how far the life of session f has got
    owners          \* owners[f] : the principals any token of f stands for

sessionVars == <<phase, owners>>

SessionInit ==
    /\ phase  = [f \in Families |-> "unborn"]
    /\ owners = [f \in Families |-> {}]

Open(f, p) ==
    /\ phase[f] = "unborn"
    /\ phase'  = [phase EXCEPT ![f] = "open"]
    /\ owners' = [owners EXCEPT ![f] = {p}]

Close(f) ==
    /\ phase[f] = "open"
    /\ phase' = [phase EXCEPT ![f] = "closed"]
    /\ UNCHANGED owners

SessionNext ==
    \E f \in Families :
        \/ \E p \in Principals : Open(f, p)
        \/ Close(f)

SessionSpec == SessionInit /\ [][SessionNext]_sessionVars
=============================================================================
