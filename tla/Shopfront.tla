------------------------------- MODULE Shopfront -------------------------------
(* The pages of the site that are not searches: home, the own listings, the  *)
(* area guides, the city hubs and the market reports.  Each shows a list or  *)
(* figures and links to the search behind them.  The reference for the       *)
(* figures is MockProvider again.                                            *)
EXTENDS SearchRules

CONSTANTS
    Areas,      \* the localities of @tricity/geo, pairs of a city and a locality
    Guides,     \* those that have content, and so a page
    Cards,      \* on an area page, 6
    MinSample,  \* active listings an area needs to have figures, 5
    Window      \* days a closed deal counts for, 90

ASSUME ShopfrontAssumption ==
    /\ IsFiniteSet(Areas) /\ Guides \subseteq Areas
    /\ \A ref \in Areas : ref = <<ref[1], ref[2]>>
    /\ Cards \in 1..PageSize /\ MinSample \in Nat \ {0} /\ Window \in Nat

Done == {"SOLD", "RENTED"}

(* A row lies in one of the areas; nothing is published after today.         *)
IsPlaced(row) ==
    /\ <<row.city, row.locality>> \in Areas
    /\ row.published <= Today /\ row.closed \in Nat \cup {None}

(* Some rows, or values of theirs, in the one order in which each comes      *)
(* before those after it.                                                    *)
InLine(S, Before(_, _)) ==
    CHOOSE s \in SetToSeqs(S) : \A i, j \in DOMAIN s : i < j => Before(s[i], s[j])

-----------------------------------------------------------------------------
(* The API.  withTenant(ANONYMOUS): the rows row-level security lets through. *)

(* Mutant: a query outside withTenant.                                       *)
EveryRow == Table

Visible == {row \in Table : CanView(row)}

InArea(row, ref) == row.city = ref[1] /\ row.locality = ref[2]

Newest(rows) == CHOOSE s \in Orderings({row \in rows : PublicScope(row)}, "newest") : TRUE

ByLocality(ref, limit) == PageOf(Newest({row \in Visible : InArea(row, ref)}), 1, limit)

ByCity(city, limit) == PageOf(Newest({row \in Visible : row.city = city}), 1, limit)

(* findHostListings: what is for sale first, then the sold record.           *)
Since(row) == Coalesce(row, <<"closed", "published">>)
ShownBefore(a, b) ==
    IF (a.status \in Done) # (b.status \in Done) THEN b.status \in Done
    ELSE Since(a) > Since(b) \/ (Since(a) = Since(b) /\ a.id < b.id)

HostListings(includeSold) ==
    LET own == {row \in Visible : row.isHost /\ PublicScope(row) /\ (row.status \in Done => includeSold)} IN
    PageOf(InLine(own, ShownBefore), 1, 60)

(* A column of some rows, as pairs of an id and a value: its values that are *)
(* not NULL, ascending.                                                      *)
Lower(p, q) == p[2] < q[2] \/ (p[2] = q[2] /\ p[1] < q[1])
Sorted(column) ==
    LET order == InLine({p \in column : p[2] # None}, Lower) IN
    [i \in DOMAIN order |-> order[i][2]]

(* percentile_cont(0.5), doubled: halfway between the values on either side  *)
(* of the middle.                                                            *)
TwiceMedian(values) ==
    IF values = << >> THEN None
    ELSE values[(Len(values) + 1) \div 2] + values[Len(values) \div 2 + 1]

(* Sixtieths of a rupee per square foot; the areas of the model divide 60.   *)
Rate(rows) == {<<row.id, IF Sqft(row) = None THEN None ELSE (60 * row.price) \div Sqft(row)>> :
                    row \in rows}
Price(rows) == {<<row.id, row.price>> : row \in rows}
DaysListed(rows) == {<<row.id, Today - row.published>> : row \in rows}
ClosePrice(rows) == {<<row.id, row.closePrice>> : row \in rows}

ClosedLately(row) == row.status \in Done /\ row.closed # None /\ row.closed >= Today - Window

(* marketStats and getMarketStats, the figures some page shows.              *)
MarketStats(ref) ==
    LET scoped == {row \in Visible : InArea(row, ref)}
        active == {row \in scoped : row.status = "ACTIVE" /\ row.visibility = "PUBLIC"} IN
    IF Cardinality(active) < MinSample THEN None ELSE
    [activeCount |-> Cardinality(active),
     listPrice   |-> TwiceMedian(Sorted(Price(active))),
     rate        |-> OrZero(TwiceMedian(Sorted(Rate(active)))),
     daysListed  |-> TwiceMedian(Sorted(DaysListed(active))),
     closePrice  |-> TwiceMedian(Sorted(ClosePrice({row \in scoped : ClosedLately(row)})))]

-----------------------------------------------------------------------------
(* The pages.  `all` is the address of the search a page links to.           *)

HomePage ==
    LET all == [NoParams EXCEPT !.sort = "newest"]
        newest == [Parse(NoParams) EXCEPT !.status = {"active", "coming-soon"}] IN
    [newest |-> CHOOSE answer \in Search(Table, Request(newest, Cards)) : TRUE,
     own    |-> Len(HostListings(FALSE)),
     all    |-> all]

ListingsPage ==
    LET own == ToSet(HostListings(TRUE)) IN
    [current |-> {row \in own : row.status # "SOLD"},
     sold    |-> {row \in own : row.status = "SOLD"}]

LocalityPage(ref) ==
    [listings |-> ByLocality(ref, Cards), stats |-> MarketStats(ref),
     all |-> [NoParams EXCEPT !.area = {ref}]]

(* An area without a guide is a link to its search.                          *)
CityPage(city) ==
    [listings |-> ByCity(city, Cards),
     guides   |-> {ref \in Guides : ref[1] = city},
     searches |-> {[NoParams EXCEPT !.area = {ref}] : ref \in {a \in Areas \ Guides : a[1] = city}},
     all      |-> [NoParams EXCEPT !.city = {city}]]

(* The index of the guides, which shows no figures as 0.                     *)
LocalitiesPage ==
    [ref \in Guides |->
        LET stats == MarketStats(ref) IN
        [forSale |-> IF stats = None THEN 0 ELSE stats.activeCount,
         median  |-> IF stats = None THEN None ELSE stats.listPrice,
         all     |-> [NoParams EXCEPT !.area = {ref}]]]

MarketReportsPage ==
    LET stats == [ref \in Guides |-> MarketStats(ref)]
        tracked == {ref \in Guides : stats[ref] # None} IN
    [reports |-> [ref \in tracked |-> stats[ref]],
     forSale |-> MapThenSumSet(LAMBDA ref : stats[ref].activeCount, tracked),
     median  |-> IF tracked = {} THEN 0
                 ELSE MapThenSumSet(LAMBDA ref : stats[ref].listPrice, tracked)
                        \div Cardinality(tracked)]

-----------------------------------------------------------------------------
(* The reference: median and getMarketStats of MockProvider.                 *)

MockTwiceMedian(values) ==
    LET mid == Len(values) \div 2 IN
    IF values = << >> THEN 0
    ELSE IF Len(values) % 2 = 0 THEN values[mid] + values[mid + 1]
    ELSE 2 * values[mid + 1]

MockStats(rows, ref) ==
    LET active == {row \in rows : row.city = ref[1] /\ row.locality = ref[2] /\ row.status = "ACTIVE"} IN
    [activeCount |-> Cardinality(active),
     listPrice   |-> MockTwiceMedian(Sorted(Price(active))),
     rate        |-> MockTwiceMedian(Sorted({<<row.id, (60 * row.price) \div ComparableSqft(row)>> :
                        row \in {r \in active : ComparableSqft(r) > 0}})),
     daysListed  |-> MockTwiceMedian(Sorted(DaysListed(active)))]

-----------------------------------------------------------------------------
(* Properties.                                                               *)

(* What a visitor finds who follows a link to the search: the whole of it.   *)
Behind(address) == {row \in OnSite : Filters(row, Parse(address))}

(* Types the site cannot show are counted among the active listings.         *)
Representable(ref) == \A row \in Visible : InArea(row, ref) => row.type \in PublicTypes

(* A list of a page opens the search its link leads to, and is cut off       *)
(* only where it is full.                                                    *)
Opens(list, address) ==
    /\ \E answer \in Search(Table, Request(Parse(address), PageSize)) :
            IsPrefix(list, answer.listings)
    /\ Len(list) = Min({Cards, Cardinality(Behind(address))})

(* The list of an area opens the search behind its link; the figures of an   *)
(* area are those the reference works out from what that search finds, its   *)
(* closed deals those the search shows, and nothing else has gone into them. *)
AreaPageAgrees(ref) ==
    LET page == LocalityPage(ref)  found == Behind(page.all)  stats == page.stats IN
    /\ Opens(page.listings, page.all)
    /\ stats # None /\ Representable(ref) =>
        /\ LET mock == MockStats(found, ref) IN
            \A figure \in DOMAIN mock : stats[figure] = mock[figure]
        /\ stats.closePrice = TwiceMedian(Sorted(ClosePrice({row \in found : ClosedLately(row)})))

(* So does the list of a city, and its areas add up to it.                   *)
CityPageAgrees(city) ==
    LET page == CityPage(city) IN
    /\ Opens(page.listings, page.all)
    /\ Behind(page.all) = UNION ({Behind(LocalityPage(ref).all) : ref \in page.guides}
                                    \cup {Behind(address) : address \in page.searches})

(* The market report adds up to what the searches find, and to the guides.   *)
MarketReportsAgree ==
    LET market == MarketReportsPage  index == LocalitiesPage IN
    /\ (\A ref \in Guides : Representable(ref)) =>
        market.forSale = Cardinality({row \in OnSite :
            row.status = "ACTIVE" /\ <<row.city, row.locality>> \in DOMAIN market.reports})
    /\ \A ref \in DOMAIN market.reports :
        index[ref].forSale = market.reports[ref].activeCount

(* What the home page shows is behind its link, and the listings it counts   *)
(* are the ones under Our listings that have not been closed.                *)
HomePageAgrees ==
    LET home == HomePage IN
    /\ ToSet(home.newest.listings) \subseteq Behind(home.all)
    /\ home.own = Cardinality({row \in ListingsPage.current : row.status # "RENTED"})

(* The pages do not contradict one another: their lists open the searches    *)
(* they link to, and their figures are what is found there.                  *)
PagesAgree ==
    /\ \A ref \in Guides : AreaPageAgrees(ref)
    /\ \A city \in {ref[1] : ref \in Areas} : CityPageAgrees(city)
    /\ MarketReportsAgree
    /\ HomePageAgrees

=============================================================================
