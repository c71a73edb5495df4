------------------------------ MODULE SearchPage ------------------------------
(* A visitor on the search page: the filters, the map and the pagination     *)
(* rewrite the address, the server renders the page the address asks for.    *)
EXTENDS SearchRules

VARIABLES
    url,        \* the address the page was rendered for, None before
    goal,       \* the address of the navigation under way, or None
    screen,     \* what the page shows
    walk        \* history: what a walk from page 1 has shown so far

searchVars == <<url, goal, screen, walk>>

Blank == [answer |-> None, onMap |-> << >>]
NoWalk == [page |-> 0, seen |-> << >>]

InitSearch ==
    /\ url = NoParams /\ goal = None
    /\ screen = Blank /\ walk = NoWalk

Totals(answer) ==
    (answer.total + answer.pageSize - 1) \div answer.pageSize

OnMapView == url.view = "map"

-----------------------------------------------------------------------------
(* Clicks.  Each is worked out from the address last rendered, and replaces  *)
(* a navigation that is still under way.                                     *)

Push(address) ==
    /\ goal' = address
    /\ UNCHANGED <<url, screen, walk>>

(* A shared link, the search box of the home page, Clear all filters.        *)
Arrive(address) == Push(address)

(* The link in the saved-search lead, which SavedSearchPrompt offers.        *)
OpenSaved ==
    /\ screen.answer # None /\ screen.answer.listings # << >> /\ ~OnMapView
    /\ Push(ToParams(Parse(url)))

(* update of SearchFilters: the search starts over at its first page.        *)
Updated(key, value) ==
    [k \in DOMAIN url |-> IF k = "page" THEN None ELSE IF k = key THEN value ELSE url[k]]

(* toggleInList, and the rest of SearchFilters; picking Any, No max or       *)
(* Newest takes the parameter away.                                          *)
Toggle(key, value) ==
    /\ screen.answer # None
    /\ Push(Updated(key, IF value \in url[key] THEN url[key] \ {value}
                                               ELSE url[key] \cup {value}))

Pick(key, value) ==
    /\ screen.answer # None
    /\ Push(Updated(key, value))

ClearAll ==
    /\ screen.answer # None
    /\ \E k \in (NumberKeys \ {"maxSqft"}) \cup (ListKeys \ {"status"}) : url[k] # NoParams[k]
    /\ Push(NoParams)

(* ListingMap: areas add up.                                                 *)
DrawArea(area) ==
    /\ OnMapView /\ screen.answer # None
    /\ Push(Updated("poly", url.poly \cup {area}))

ClearAreas ==
    /\ OnMapView /\ url.poly # {} /\ screen.answer # None
    /\ Push(Updated("poly", {}))

(* ViewToggle.                                                               *)
ToggleView ==
    /\ screen.answer # None
    /\ Push([url EXCEPT !.view = IF OnMapView THEN None ELSE "map"])

(* Pagination.                                                               *)
TurnTo(page) ==
    /\ screen.answer # None
    /\ page \in 1..Totals(screen.answer)
    /\ page \in {screen.answer.page - 1, screen.answer.page + 1}
    /\ Push([url EXCEPT !.page = IF page > 1 THEN page ELSE None])

-----------------------------------------------------------------------------
(* SearchPage: the server renders the page.                                  *)

Answers(request) == Search(Table, request) \cup {Failed(request)}

(* The navigation under way leads to another page of the same search.        *)
SameSearch == \A k \in QueryKeys \ {"page"} : goal[k] = url[k]

Walked(answer) ==
    IF answer.ok /\ answer.page = 1
    THEN [page |-> 1, seen |-> answer.listings]
    ELSE IF answer.ok /\ walk.page > 0 /\ answer.page = walk.page + 1 /\ SameSearch
    THEN [page |-> answer.page, seen |-> walk.seen \o answer.listings]
    ELSE NoWalk

Render ==
    /\ goal # None
    /\ LET query == Parse(goal)
           mapRequest == Request([query EXCEPT !.page = 1], MapSize) IN
       \E answer \in Answers(Request(query, PageSize)) :
       \E onMap \in IF goal.view = "map" THEN Answers(mapRequest) ELSE {Failed(mapRequest)} :
            /\ screen' = [answer |-> answer, onMap |-> onMap.listings]
            /\ walk' = Walked(answer)
    /\ url' = goal
    /\ goal' = None

-----------------------------------------------------------------------------
(* Properties.                                                               *)

Wanted(address) == {row \in OnSite : Matches(row, Effective(address))}

(* A text that one of the two finds where the other does not look, which is  *)
(* anywhere but at the beginning of a reference code, or that they read      *)
(* differently.                                                              *)
Wildcards == {"%", "_"}
ReadsDifferently(text) ==
    \/ Trimmed(text) # text \/ ToSet(text) \cap Wildcards # {}
    \/ \E row \in OnSite :
        \/ text \in row.words \cup row.names \cup row.mentioned
        \/ text \in SubSeqs(row.code) \ Prefixes(row.code)

(* Addresses the two implementations are known to answer differently:        *)
(* villas, which the database stores as flats; an upper bound on the area of *)
(* a listing that states none, or a lower bound of 0; no status, while a     *)
(* closed listing matches the rest, which the API shows and the reference    *)
(* does not; and free text as above.                                         *)
Differs(address) ==
    LET query == Parse(address) IN
    \/ "villa" \in query.type
    \/ (query.maxSqft # None \/ query.minSqft = 0) /\ \E row \in OnSite : Sqft(row) = None
    \/ address.status = {} /\ \E row \in OnSite : row.status \in {"SOLD", "RENTED"} /\ Matches(row, query)
    \/ query.q # None /\ ReadsDifferently(query.q)

(* The page shows one page of the rows that the reference finds for its      *)
(* address, in an order the reference allows, and counts all of them, unless *)
(* the request failed or asks for a page past the end, or the address is one *)
(* of those that Differs names.                                              *)
SearchShowsWhatMatches ==
    LET query == Parse(url)  answer == screen.answer IN
    answer # None /\ answer.ok /\ ~Differs(url) =>
        /\ \E s \in Reordered(Wanted(url), query.sort) :
                answer.listings = PageOf(s, query.page, PageSize)
        /\ answer.listings # << >> => answer.total = Cardinality(Wanted(url))

(* Who turns the pages from the first to the last sees every match once.     *)
WalkSeesEverything ==
    walk.page > 0 /\ walk.page = Totals(screen.answer) =>
        /\ ToSet(walk.seen) = {row \in OnSite : Filters(row, Parse(url))}
        /\ Len(walk.seen) = Cardinality(ToSet(walk.seen))

=============================================================================
