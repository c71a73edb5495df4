------------------------------ MODULE SearchRules ------------------------------
(* What a search of the public site means: how its address is read, how it   *)
(* reaches the API, which rows the API's SQL selects and in which order, and *)
(* the reference the sample data comes with, MockProvider, which "defines    *)
(* the search semantics the API provider must match".                        *)
EXTENDS Naturals, Sequences, FiniteSets, SequencesExt

CONSTANTS
    PageSize,     \* of the search page, 24
    MapSize,      \* asked for by the map, 300
    MaxPageSize,  \* that the API accepts, 100
    MaxPage,      \* the same, 500
    MaxPrice,     \* the same, 10^11
    MaxArea,      \* the same, 10^7
    Today,        \* the day it is
    None

VARIABLE listing  \* the rows of the catalog, by id

Table == {listing[i] : i \in DOMAIN listing}

-----------------------------------------------------------------------------
(* The address of a search: a filter is a number, a set of choices, or       *)
(* absent.  A locality travels with its city.  An area is a set of places.   *)
(* A text is the sequence of its parts, as is a reference code.              *)

NumberKeys == {"minPrice", "maxPrice", "beds", "baths", "minSqft", "maxSqft", "minYear", "maxMaint"}
Valid == [type |-> {"plot", "kothi", "builder-floor", "flat", "villa", "sco", "scf", "booth", "farmhouse"},
          status |-> {"active", "under-offer", "sold", "rented", "coming-soon"},
          possession |-> {"ready-to-move", "under-construction", "new-launch"},
          furnishing |-> {"unfurnished", "semi-furnished", "fully-furnished"}]

ListKeys == DOMAIN Valid \cup {"city", "area", "features", "poly"}
Sorts == {"newest", "price-asc", "price-desc", "beds-desc", "area-desc"}

ASSUME SearchAssumption ==
    /\ None \notin Nat \cup Valid.furnishing \cup Sorts
    /\ PageSize \in Nat \ {0} /\ MaxPageSize \in Nat /\ MaxPageSize >= PageSize
    /\ MapSize \in Nat /\ MaxPage \in Nat \ {0} /\ Today \in Nat
    /\ MaxPrice \in Nat /\ MaxArea \in Nat

QueryKeys == NumberKeys \cup ListKeys \cup {"q", "sort", "page"}
NoParams == [k \in QueryKeys \cup {"view"} |-> IF k \in ListKeys THEN {} ELSE None]

(* What is not a number is dropped where one is asked for, and the API       *)
(* refuses the negative ones.                                                *)
IsAddress(url) ==
    /\ url = [k \in DOMAIN NoParams |-> url[k]]
    /\ \A k \in NumberKeys \cup {"page"} : url[k] \in Nat \cup {None}
    /\ \A ref \in url.area : ref = <<ref[1], ref[2]>>

(* parseSearchParams.                                                        *)
Parse(url) ==
    [k \in QueryKeys |->
        CASE k \in DOMAIN Valid -> url[k] \cap Valid[k]
          [] k = "sort" /\ url.sort \notin Sorts -> "newest"
          [] k = "page" /\ url.page = None -> 1
          [] OTHER -> url[k]]

(* toSearchParams of the site: defaults are left out.                        *)
ToParams(query) ==
    [k \in DOMAIN NoParams |->
        CASE k = "view" -> None
          [] k = "sort" /\ query.sort = "newest" -> None
          [] k = "page" /\ query.page <= 1 -> None
          [] OTHER -> query[k]]

(* toContractParams, and toSearchParams of the contract.                     *)
Request(query, pageSize) == [query |-> query, pageSize |-> pageSize]

(* SearchListingsDto: whatever is out of range is a 400.  So is a fraction   *)
(* where a whole number is asked for, and a text that is too long: neither   *)
(* is among the addresses here.                                              *)
Accepts(request) ==
    LET q == request.query IN
    /\ request.pageSize \in 1..MaxPageSize
    /\ q.page \in 1..MaxPage
    /\ \A k \in {"beds", "baths"} : q[k] # None => q[k] <= 20
    /\ \A k \in {"minPrice", "maxPrice"} : q[k] # None => q[k] <= MaxPrice
    /\ \A k \in {"minSqft", "maxSqft"} : q[k] # None => q[k] <= MaxArea
    /\ q.minYear # None => q.minYear \in 1900..2100

-----------------------------------------------------------------------------
(* The API.  A row joins a listing with its property, locality, city and     *)
(* organisation; a column that is NULL is None.  Of columns that are prose   *)
(* it has the texts that are found there: by full-text search in title and   *)
(* description (words), in the names of locality and project (names), in the *)
(* address, the slugs and the remarks (mentioned).                           *)

StatusToDb == [s \in Valid.status |->
    CASE s = "active" -> "ACTIVE" [] s = "under-offer" -> "UNDER_OFFER"
      [] s = "sold" -> "SOLD" [] s = "rented" -> "RENTED" [] OTHER -> "PENDING_REVIEW"]
TypeToDb(t) == IF t = "villa" THEN "flat" ELSE t
PublicTypes == Valid.type \ {"villa"}

(* What the columns a search compares are declared to hold.                  *)
IsListed(row) ==
    /\ row.id \in Nat /\ row.price \in Nat /\ row.published \in Nat
    /\ \A c \in {"bedrooms", "bathrooms", "carpet", "builtUp", "plot", "yearBuilt", "maintenance"} :
            row[c] \in Nat \cup {None}
    /\ row.carpet # 0 /\ row.builtUp # 0 /\ row.plot # 0

(* can_view_listing, for a visitor who has not signed in.                    *)
CanView(row) ==
    /\ row.visibility = "PUBLIC"
    /\ \/ row.status \in {"ACTIVE", "UNDER_OFFER"}
       \/ row.status \in {"SOLD", "RENTED"} /\ row.isHost

(* publicScope, the lock beside it.                                          *)
PublicScope(row) ==
    /\ row.visibility = "PUBLIC"
    /\ row.status \in {"ACTIVE", "UNDER_OFFER", "SOLD", "RENTED"}
    /\ row.type \in PublicTypes

(* coalesce over the columns of a row.                                       *)
Coalesce(row, columns) ==
    LET known == {i \in DOMAIN columns : row[columns[i]] # None} IN
    IF known = {} THEN None ELSE row[columns[Min(known)]]

Sqft(row) == Coalesce(row, <<"carpet", "builtUp", "plot">>)

(* A comparison with NULL is not true.                                       *)
AtLeast(value, bound) == bound = None \/ (value # None /\ value >= bound)
AtMost(value, bound)  == bound = None \/ (value # None /\ value <= bound)
OneOf(value, choices) == choices = {} \/ value \in choices

(* Mutant: `loc.slug = ANY(...)`, which forgets the city.                    *)
InOneOfSlugs(row, refs) == refs = {} \/ \E ref \in refs : ref[2] = row.locality

InOneOf(row, refs) == OneOf(<<row.city, row.locality>>, refs)

(* Free text, as the API searches for it.                                    *)
FoundBy(row, text) ==
    text \in row.words \cup row.names \cup Prefixes(row.code)

(* ListingRepository.filters.                                                *)
Filters(row, q) ==
    /\ q.q # None => FoundBy(row, q.q)
    /\ OneOf(row.city, q.city)
    /\ InOneOf(row, q.area)
    /\ OneOf(row.status, {StatusToDb[s] : s \in q.status})
    /\ AtLeast(row.price, q.minPrice) /\ AtMost(row.price, q.maxPrice)
    /\ AtLeast(row.bedrooms, q.beds) /\ AtLeast(row.bathrooms, q.baths)
    /\ AtLeast(row.yearBuilt, q.minYear)
    /\ row.maintenance = None \/ AtMost(row.maintenance, q.maxMaint)
    /\ AtLeast(Sqft(row), q.minSqft) /\ AtMost(Sqft(row), q.maxSqft)
    /\ OneOf(row.type, {TypeToDb(t) : t \in q.type})
    /\ OneOf(row.possession, q.possession)
    /\ OneOf(row.furnishing, q.furnishing)
    /\ q.features \subseteq row.features
    /\ q.poly = {} \/ \E area \in q.poly : row.place \in area

(* Greater first, NULLS LAST.                                                *)
Descending(a, b) == a # b /\ (b = None \/ (a # None /\ a > b))

SortsBefore(a, b, sort) ==
    CASE sort = "price-asc"  -> a.price < b.price
      [] sort = "price-desc" -> a.price > b.price
      [] sort = "beds-desc"  -> Descending(a.bedrooms, b.bedrooms)
      [] sort = "area-desc"  -> Descending(Sqft(a), Sqft(b))
      [] OTHER -> a.published > b.published

(* Mutant: no tiebreak, so that the database may return ties as it likes.    *)
BreaksAnyTie(a, b) == TRUE

BreaksTie(a, b) == a.id < b.id

(* The orders ORDER BY allows.                                               *)
Orderings(rows, sort) ==
    {s \in SetToSeqs(rows) : \A i, j \in 1..Len(s) : i < j =>
        \/ SortsBefore(s[i], s[j], sort)
        \/ ~SortsBefore(s[j], s[i], sort) /\ BreaksTie(s[i], s[j])}

PageOf(s, page, size) == SubSeq(s, (page - 1) * size + 1, Min({page * size, Len(s)}))

(* What the provider of the site makes of a request that failed.             *)
Failed(request) ==
    [ok |-> FALSE, listings |-> << >>, total |-> 0, page |-> request.query.page,
     pageSize |-> request.pageSize]

(* ListingRepository.search: the count rides on the rows of the page, so a   *)
(* page past the end counts nothing.                                         *)
Search(table, request) ==
    IF ~Accepts(request) THEN {Failed(request)} ELSE
    LET q    == request.query
        hits == {row \in table : CanView(row) /\ PublicScope(row) /\ Filters(row, q)} IN
    {LET found == PageOf(s, q.page, Min({request.pageSize, MaxPageSize})) IN
        [ok |-> TRUE, listings |-> found, total |-> IF found = << >> THEN 0 ELSE Cardinality(hits),
         page |-> q.page, pageSize |-> request.pageSize] : s \in Orderings(hits, q.sort)}

(* What a search without any filter finds.                                   *)
OnSite == {row \in Table : CanView(row) /\ PublicScope(row)}

-----------------------------------------------------------------------------
(* The reference: matches and sortListings of MockProvider.                  *)

ComparableSqft(row) ==
    IF row.carpet # None THEN row.carpet
    ELSE IF row.builtUp # None THEN row.builtUp
    ELSE IF row.plot # None THEN row.plot ELSE 0

OrZero(value) == IF value = None THEN 0 ELSE value

Trimmed(text) ==
    LET ink == {i \in DOMAIN text : text[i] # " "} IN
    IF ink = {} THEN << >> ELSE SubSeq(text, Min(ink), Max(ink))

(* Its haystack: it has neither the title nor the names of locality and      *)
(* project, and the reference code from anywhere on.                         *)
Mentions(row, text) ==
    Trimmed(text) \in row.mentioned \cup SubSeqs(row.code)

Matches(row, q) ==
    /\ q.status # {} => row.status \in {StatusToDb[s] : s \in q.status}
    /\ q.city # {} => row.city \in q.city
    /\ q.area # {} => \E ref \in q.area : ref[1] = row.city /\ ref[2] = row.locality
    /\ ~(q.minPrice # None /\ row.price < q.minPrice)
    /\ ~(q.maxPrice # None /\ row.price > q.maxPrice)
    /\ ~(q.beds # None /\ (row.bedrooms = None \/ row.bedrooms < q.beds))
    /\ ~(q.baths # None /\ (row.bathrooms = None \/ row.bathrooms < q.baths))
    /\ ~(q.minSqft # None /\ ComparableSqft(row) < q.minSqft)
    /\ ~(q.maxSqft # None /\ ComparableSqft(row) > q.maxSqft)
    /\ ~(q.minYear # None /\ (row.yearBuilt = None \/ row.yearBuilt < q.minYear))
    /\ q.type # {} => row.type \in q.type
    /\ q.possession # {} => row.possession \in q.possession
    /\ q.furnishing # {} => row.furnishing # None /\ row.furnishing \in q.furnishing
    /\ ~(q.maxMaint # None /\ OrZero(row.maintenance) > q.maxMaint)
    /\ \A f \in q.features : f \in row.features
    /\ q.poly # {} => \E area \in q.poly : row.place \in area
    /\ q.q # None => Mentions(row, q.q)

(* MockProvider.search: a query without statuses means what is for sale, one *)
(* of which no status is valid means any.                                    *)
ForSale == {"active", "under-offer", "coming-soon"}
Effective(address) ==
    IF address.status = {} THEN [Parse(address) EXCEPT !.status = ForSale] ELSE Parse(address)

(* Array.sort is stable: ties stay in the order of the data, which is any.   *)
Reordered(rows, sort) ==
    {s \in SetToSeqs(rows) : \A i, j \in 1..Len(s) : i < j =>
        CASE sort = "price-asc"  -> s[i].price <= s[j].price
          [] sort = "price-desc" -> s[i].price >= s[j].price
          [] sort = "beds-desc"  -> OrZero(s[i].bedrooms) >= OrZero(s[j].bedrooms)
          [] sort = "area-desc"  -> ComparableSqft(s[i]) >= ComparableSqft(s[j])
          [] OTHER -> s[i].published >= s[j].published}

=============================================================================
