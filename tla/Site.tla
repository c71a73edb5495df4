--------------------------------- MODULE Site ---------------------------------
(* The public site while staff edit the listings it shows.  ApiProvider      *)
(* reads through the data cache of the web server: an answer is reused for a *)
(* while, then shown once more while it is fetched anew, and dropped when    *)
(* the admin application says that listings have changed.                    *)
EXTENDS SearchPage, Shopfront, PhotoDesk

CONSTANT
    Scenes      \* bound: the catalogs, and what happens to them

VARIABLES
    cache,      \* the data cache: the answer kept for the page that is watched
    fetch,      \* its requests under way: a visitor waits, or nobody does
    seen,       \* what its last visitor was shown
    promised,   \* history: the changes made when the cache was last dropped
    scene

siteVars == <<cache, fetch, seen, promised>>
vars == <<deskVars, photoVars, searchVars, siteVars, scene>>

ASSUME SceneAssumption ==
    \A s \in Scenes :
        /\ IsFiniteSet(DOMAIN s.table)
        /\ \A id \in DOMAIN s.table :
                /\ s.table[id].id = id
                /\ IsRow(s.table[id]) /\ IsListed(s.table[id]) /\ IsPlaced(s.table[id])
        /\ \A edit \in s.edits :
                /\ "price" \in DOMAIN edit => edit.price \in Nat
                /\ "maintenance" \in DOMAIN edit => edit.maintenance \in Nat \cup {None}
        /\ s.links # {} => s.editors = {}
        /\ \A address \in s.links : IsAddress(address)
        /\ \A t \in s.toggles : t[1] \in ListKeys /\ (t[1] = "area" => t[2] = <<t[2][1], t[2][2]>>)
        /\ \A t \in s.picks :
                t[1] \in QueryKeys \ ListKeys /\ (t[1] \in NumberKeys => t[2] \in Nat \cup {None})
        /\ s.editors \cup s.staff \subseteq Editors /\ s.slots \subseteq Slots
        /\ \A p \in DOMAIN s.photos : s.photos[p] \in Nat

NoEntry == [answer |-> None]
Idle == [pc |-> "idle"]
Unseen == [answer |-> None, version |-> 0, late |-> FALSE, failed |-> TRUE, due |-> 0]
Waits == {"visit", "refresh"}

Init ==
    /\ scene \in Scenes
    /\ listing = scene.table
    /\ InitSearch /\ InitDesk /\ InitPhotos(scene.photos, scene.clicks)
    /\ cache = NoEntry
    /\ fetch = [w \in Waits |-> Idle]
    /\ seen = Unseen
    /\ promised = 0

-----------------------------------------------------------------------------
(* The page is the search, or the page of a listing.  What the API answers:  *)
(* None is a 404.                                                            *)
Reply ==
    CASE scene.page = "search" ->
            CHOOSE answer \in Search(Table, Request(Parse(NoParams), PageSize)) : TRUE
      [] scene.page = "detail" /\ listing[1] \in OnSite -> listing[1]
      [] OTHER -> None

Shown(entry, due) ==
    [answer |-> entry.answer, version |-> entry.version, late |-> entry.late,
     failed |-> FALSE, due |-> due]

Ask(w) == [fetch EXCEPT ![w] = [pc |-> "asked", due |-> promised]]

(* The page is visited.                                                      *)
Look ==
    /\ IF cache = NoEntry
       THEN /\ fetch["visit"] = Idle
            /\ fetch' = Ask("visit")
            /\ UNCHANGED seen
       ELSE /\ seen' = Shown(cache, promised)
            /\ fetch' = IF cache.fresh \/ fetch["refresh"] # Idle THEN fetch ELSE Ask("refresh")
    /\ UNCHANGED <<cache, promised>>

(* The API looks its answer up, at some moment of the request.               *)
Read(w) ==
    /\ fetch[w].pc = "asked"
    /\ fetch' = [fetch EXCEPT ![w] = [pc |-> "read", due |-> @.due, answer |-> Reply,
                                      version |-> version, late |-> FALSE]]
    /\ UNCHANGED <<cache, seen, promised>>

(* Mutant: what was fetched in the background is not kept.                   *)
FinishUnkept(w) ==
    /\ fetch[w].pc = "read"
    /\ fetch' = [fetch EXCEPT ![w] = Idle]
    /\ seen' = IF w = "visit" THEN Shown([fetch[w] EXCEPT !.late = FALSE], fetch[w].due) ELSE seen
    /\ cache' = IF w = "visit" /\ fetch[w].answer # None
                THEN [answer |-> fetch[w].answer, version |-> fetch[w].version,
                      late |-> fetch[w].late, fresh |-> TRUE]
                ELSE cache
    /\ UNCHANGED promised

(* The answer arrives; what is not a 200 is not kept.                        *)
Finish(w) ==
    LET f == fetch[w] IN
    /\ f.pc = "read"
    /\ fetch' = [fetch EXCEPT ![w] = Idle]
    /\ cache' = IF f.answer = None THEN cache
                ELSE [answer |-> f.answer, version |-> f.version, late |-> f.late, fresh |-> TRUE]
    /\ seen' = IF w = "visit" THEN Shown([f EXCEPT !.late = FALSE], f.due) ELSE seen
    /\ UNCHANGED promised

(* The API is down or refuses: the visitor is told there is nothing.         *)
Fail(w) ==
    /\ fetch[w] # Idle
    /\ fetch' = [fetch EXCEPT ![w] = Idle]
    /\ seen' = IF w = "visit" THEN Unseen ELSE seen
    /\ UNCHANGED <<cache, promised>>

(* The 60 seconds of a search, or the 30 of a listing, are over.             *)
Age ==
    /\ cache # NoEntry /\ cache.fresh
    /\ cache' = [cache EXCEPT !.fresh = FALSE]
    /\ UNCHANGED <<fetch, seen, promised>>

(* Mutant: revalidateTag with the profile "max".                             *)
ExpiredSoftly(entry) == IF entry = NoEntry THEN entry ELSE [entry EXCEPT !.fresh = FALSE]

(* revalidateTag with { expire: 0 }.                                         *)
Expired(entry) == NoEntry

(* POST /api/revalidate.                                                     *)
Revalidate ==
    /\ cache' = Expired(cache)
    /\ fetch' = [w \in Waits |->
            IF fetch[w].pc = "read" THEN [fetch[w] EXCEPT !.late = TRUE] ELSE fetch[w]]
    /\ promised' = version
    /\ UNCHANGED seen

-----------------------------------------------------------------------------

Browse ==
    \/ \E address \in scene.links : Arrive(address)
    \/ \E t \in scene.toggles : Toggle(t[1], t[2])
    \/ \E t \in scene.picks : Pick(t[1], t[2])
    \/ \E area \in scene.areas : DrawArea(area)
    \/ \E page \in 1..MaxPage : TurnTo(page)
    \/ OpenSaved \/ ClearAll \/ ClearAreas \/ ToggleView \/ Render

Edit ==
    \E s \in scene.editors :
        \/ \E id \in DOMAIN listing : Open(s, id)
        \/ \E edit \in scene.edits : Fill(s, edit)
        \/ Save(s) \/ Refused(s) \/ GiveUp(s) \/ Leave(s)
        \/ \E answered \in BOOLEAN : Patch(s, answered)

Tell == ((\E s \in scene.editors : Hinted(s)) \/ HintArrives) /\ Revalidate

ArrangePhotos == \E s \in scene.staff : Arrange(s, scene.slots)

Watch ==
    \/ Look \/ Age
    \/ \E w \in Waits : Read(w) \/ Finish(w) \/ Fail(w)

Next ==
    /\ \/ Browse /\ UNCHANGED <<deskVars, photoVars, siteVars>>
       \/ Edit /\ UNCHANGED <<photoVars, searchVars, siteVars>>
       \/ Tell /\ UNCHANGED <<photoVars, searchVars>>
       \/ ArrangePhotos /\ UNCHANGED <<deskVars, searchVars, siteVars>>
       \/ scene.page # None /\ Watch /\ UNCHANGED <<deskVars, photoVars, searchVars>>
    /\ UNCHANGED scene

Spec == Init /\ [][Next]_vars

(* Time goes by, requests are processed, and one that is made again and      *)
(* again is answered in the end.                                             *)
Alone(A) == scene.page # None /\ A /\ UNCHANGED <<deskVars, photoVars, searchVars, scene>>

Fairness ==
    /\ WF_vars(Alone(Age))
    /\ SF_vars(Alone(\E w \in Waits : Read(w)))
    /\ SF_vars(Alone(\E w \in Waits : Finish(w)))

FairSpec == Spec /\ Fairness

-----------------------------------------------------------------------------
(* Properties.                                                               *)

(* "The first person to look after a publish sees the new listing": once the *)
(* site has been told, whoever opens a page is shown no less than what was   *)
(* stored by then, unless the request fails, or was answered by the API      *)
(* before the site was told and is put into the cache after.                 *)
FirstLookIsCurrent == seen.failed \/ seen.late \/ seen.version >= seen.due

Visited == []<><<Alone(Look)>>_vars

(* A page that keeps being visited ends up showing what is stored, even if   *)
(* every call of the admin application is lost, unless it is the page of a   *)
(* listing that has been taken off the site.                                 *)
SiteCatchesUp == Visited => <>[](seen.answer = Reply \/ Reply = None)

(* revalidate-site.ts:7, "the page catches up within 60 seconds": at least   *)
(* in the end, the page of a listing taken off the site included.            *)
RemovedListingLeaves == Visited => <>[](seen.answer = Reply)

=============================================================================
