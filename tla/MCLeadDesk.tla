---------------------------- MODULE MCLeadDesk ----------------------------
(* A form on a page, two submissions, two colleagues at a partner.           *)
EXTENDS LeadDesk, TLC
CONSTANTS f1, c1, c2, s1, s2, l1, host1, partner
MCOwner == l1 :> partner
MCEmployer == s1 :> partner @@ s2 :> partner
MCScenes == {
    [forms |-> {f1}, staff |-> {s1}, earlier |-> {}, requests |-> 2],
    [forms |-> {}, staff |-> {s1, s2}, earlier |-> {c1}, requests |-> 3]}
MCDeployments == {[enabled |-> TRUE, live |-> TRUE], [enabled |-> TRUE, live |-> FALSE]}
Filled(kind, phone, optIn, listing) ==
    [kind |-> kind, phone |-> phone, optIn |-> optIn, listing |-> listing,
     date |-> FALSE, message |-> TRUE, budget |-> FALSE]
MCContents ==
    {Filled("tour-request", p, TRUE, l1) : p \in {"mobile", "typo"}}
    \cup {Filled("tour-request", "mobile", FALSE, "unknown"),
          Filled("saved-search", "none", FALSE, None)}
=============================================================================
