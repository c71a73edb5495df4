-------------------------------- MODULE MCSite --------------------------------
(* Four listings on the site and one that is not; the filters a few at a     *)
(* time; one listing edited while its page, or the search, is watched.       *)
EXTENDS Site, TLC
CONSTANTS e1, e2

Flat == [id |-> 1, status |-> "ACTIVE", visibility |-> "PUBLIC", isHost |-> TRUE, price |-> 2,
         onRequest |-> FALSE, bedrooms |-> 3, bathrooms |-> 2, carpet |-> 3, builtUp |-> 4,
         plot |-> None, yearBuilt |-> 2010, maintenance |-> 2, type |-> "flat",
         city |-> "mohali", locality |-> "sector-70", place |-> "north",
         furnishing |-> "semi-furnished", possession |-> "ready-to-move",
         features |-> {"lift"}, published |-> 2, closed |-> None, closePrice |-> None,
         code |-> <<"TE", "1">>, words |-> {}, names |-> {<<"sector">>}, mentioned |-> {<<"mohali">>}]
MCTable == <<
    Flat,
    [Flat EXCEPT !.id = 2, !.city = "chandigarh", !.carpet = None, !.yearBuilt = 1990,
                 !.features = {"lift", "parking"}, !.status = "UNDER_OFFER",
                 !.code = <<"TE", "2", "1">>, !.mentioned = {}],
    [Flat EXCEPT !.id = 3, !.type = "plot", !.bedrooms = None, !.bathrooms = None, !.carpet = None,
                 !.builtUp = None, !.yearBuilt = None, !.maintenance = None, !.furnishing = None,
                 !.locality = "sector-71", !.place = "south", !.features = {}, !.price = 1,
                 !.possession = "new-launch", !.published = 1],
    [Flat EXCEPT !.id = 4, !.type = "kothi", !.bedrooms = 4, !.plot = 5, !.price = 3, !.published = 1,
                 !.furnishing = "unfurnished", !.code = <<"2", "TE">>, !.words = {<<"mohali">>}],
    [Flat EXCEPT !.id = 5, !.status = "SOLD", !.isHost = FALSE, !.closed = 2, !.closePrice = 2]>>
MCClosed == [MCTable EXCEPT ![4].status = "SOLD", ![4].closed = 1, ![4].closePrice = 3]
Nothing == [table |-> MCTable, links |-> {}, toggles |-> {}, picks |-> {}, areas |-> {},
          editors |-> {}, edits |-> {}, page |-> None,
          staff |-> {}, photos |-> << >>, slots |-> {}, clicks |-> 0]
Filtering(toggles, picks) ==
    [Nothing EXCEPT !.links = {NoParams, [NoParams EXCEPT !.page = 3]},
                  !.toggles = toggles, !.picks = picks]
MCBrowsing == {
    Filtering({<<"city", "mohali">>, <<"area", <<"mohali", "sector-70">>>>,
               <<"area", <<"chandigarh", "sector-70">>>>}, {<<"sort", "price-desc">>, <<"sort", None>>}),
    Filtering({<<"type", "flat">>, <<"type", "plot">>, <<"type", "villa">>}, {<<"sort", "beds-desc">>}),
    [Filtering({<<"status", "active">>, <<"status", "sold">>, <<"status", "let">>, <<"type", "flat">>},
               {<<"sort", "area-desc">>}) EXCEPT !.table = MCClosed],
    Filtering({}, {<<"minPrice", 2>>, <<"minPrice", 6>>, <<"maxPrice", 0>>, <<"maxPrice", 2>>, <<"maxMaint", 0>>, <<"sort", "price-asc">>}),
    Filtering({}, {<<"beds", 3>>, <<"beds", 21>>, <<"baths", 2>>, <<"minSqft", 4>>, <<"minSqft", 6>>, <<"maxSqft", 4>>}),
    Filtering({<<"possession", "ready-to-move">>, <<"furnishing", "unfurnished">>,
               <<"features", "lift">>, <<"features", "parking">>}, {<<"minYear", 2000>>}),
    Filtering({<<"type", "flat">>},
              {<<"q", <<"TE">>>>, <<"q", <<"TE", "2">>>>, <<"q", <<"1">>>>, <<"q", <<"TE", " ">>>>,
               <<"q", <<"mohali">>>>, <<"q", <<"sector">>>>, <<"q", None>>}),
    [Nothing EXCEPT !.links = {[NoParams EXCEPT !.view = "map"], [NoParams EXCEPT !.page = 0],
                               [NoParams EXCEPT !.minSqft = 0]},
                  !.areas = {{"north"}, {"south"}}]}
Watched(page, edits) ==
    [Nothing EXCEPT !.table = <<Flat>>, !.editors = {e1}, !.page = page, !.edits = edits]
MCRemoved == {Watched("detail", {[visibility |-> v] : v \in {"PUBLIC", "PRIVATE"}})}
MCEditing == MCRemoved \cup {
    Watched("search", {[price |-> 1]}),
    [Nothing EXCEPT
        !.editors = {e1, e2},
        !.edits = {[status |-> "active"], [price |-> 3, maintenance |-> None]},
        !.table = <<[Flat EXCEPT !.status = "SOLD", !.visibility = "PRIVATE", !.closed = 2],
                    [Flat EXCEPT !.id = 2, !.status = "RENTED", !.onRequest = TRUE, !.closed = 1]>>]}
MCArranging == {
    [Nothing EXCEPT !.table = << >>, !.staff = {e1}, !.photos = 2 :> 0 @@ 3 :> 1, !.slots = {1, 2}, !.clicks = 3],
    [Nothing EXCEPT !.table = << >>, !.staff = {e1, e2}, !.photos = 2 :> 0 @@ 3 :> 1, !.slots = {1}, !.clicks = 3]}
MCGuides == {<<"mohali", "sector-70">>, <<"chandigarh", "sector-70">>}
MCAreas == MCGuides \cup {<<"mohali", "sector-71">>}
MCMarket == {
    Flat,
    [Flat EXCEPT !.price = 4, !.carpet = None, !.published = 3],
    [Flat EXCEPT !.price = 3, !.carpet = None, !.builtUp = None],
    [Flat EXCEPT !.city = "chandigarh", !.published = 1],
    [Flat EXCEPT !.locality = "sector-71", !.type = "showroom"],
    [Flat EXCEPT !.type = "industrial"],
    [Flat EXCEPT !.status = "SOLD", !.closed = 3, !.closePrice = 4],
    [Flat EXCEPT !.status = "SOLD", !.isHost = FALSE, !.closed = 3, !.closePrice = 2],
    [Flat EXCEPT !.status = "RENTED", !.closed = 1, !.closePrice = 2]}
MCMarkets == {[Nothing EXCEPT !.table = [i \in 1..3 |-> [t[i] EXCEPT !.id = i]]] : t \in [1..3 -> MCMarket]}
MCScenes == MCMarkets \cup MCArranging \cup MCBrowsing \cup MCEditing
=============================================================================
