------------------------------ MODULE NewListing ------------------------------
(* A new listing, from what is typed into the form to what the site shows of *)
(* it: price and area are typed the way they are spoken, converted on the    *)
(* way in, stored with the factor used, and said in the seller's own unit    *)
(* again.  The property a listing is about may be known from an earlier one. *)
(* The RERA gate and the price history are ListingPublication.               *)
(*                                                                           *)
(* Decimals are integers: prices in paise, and figures, factors, square feet *)
(* and degrees in hundredths.                                                *)
EXTENDS Naturals, Sequences

CONSTANTS
    Agents,       \* clients of POST /staff/listings
    Forms,        \* bound: what is filled in at the form
    Payloads,     \* bound: what clients other than the form send
    Start,        \* the position the form proposes, that of the city
    MaxListings,  \* bound on the listings, and on the properties
    None

VARIABLES
    table,        \* SQ_FT_PER_UNIT of the release that is deployed
    property,     \* rows, numbered as they are inserted
    listing,      \* the same; the columns the properties below need
    page,         \* each client: the form, and its request
    first,        \* history: what the row of a property was inserted for
    typed         \* history: the price typed for a listing, None without a form

catalog == <<property, listing, first, typed>>
vars == <<table, page, catalog>>

LAKH == 100000
CRORE == 100 * LAKH
Multiplier == [none |-> 1, k |-> 1000, l |-> LAKH, lakh |-> LAKH, cr |-> CRORE, crore |-> CRORE]

(* SQ_M, 10.7639, has too many decimals for the model.                       *)
SQ_FT_PER_UNIT ==
    [SQ_FT |-> 100, SQ_YD |-> 900, MARLA |-> 27225, KANAL |-> 544500, ACRE |-> 4356000,
     BIGHA |-> 907000]

(* The correction the source is prepared for: a marla of 25 square yards.    *)
Corrected == [SQ_FT_PER_UNIT EXCEPT !.MARLA = 22500, !.KANAL = 450000]

Bases == {"CARPET", "BUILT_UP", "PLOT"}
LandTypes == {"plot"}

Units == DOMAIN SQ_FT_PER_UNIT

(* What can be typed, and what can be sent.                                  *)
IsPlace(where) == where = [lat |-> where.lat, lng |-> where.lng]
IsForm(form) ==
    /\ form = [price |-> form.price, area |-> form.area, plotNumber |-> form.plotNumber,
               bedrooms |-> form.bedrooms, type |-> form.type, where |-> form.where]
    /\ form.price # None => form.price.value \in Nat
    /\ form.area \in [value : Nat \cup {None}, unit : Units, basis : Bases]
    /\ form.where # None => IsPlace(form.where)
IsPayload(payload) ==
    /\ payload = [price |-> payload.price, plotNumber |-> payload.plotNumber,
                  bedrooms |-> payload.bedrooms, type |-> payload.type,
                  where |-> payload.where, areas |-> payload.areas, input |-> payload.input]
    /\ payload.price \in Nat /\ IsPlace(payload.where)
    /\ payload.areas \in [Bases -> Nat \cup {None}]
    /\ payload.input \in [value : Nat \cup {None}, unit : Units \cup {None},
                          factor : Nat \cup {None}, basis : Bases \cup {None}]

(* What the API says of an area, and what is printed of it.                  *)
Dtos == [value : Nat \cup {None}, unit : Units \cup {None}, factor : Nat \cup {None}, sqft : Nat]
Figures == [figure : Nat \X Units, sqft : Nat]

Blank == [price |-> None, area |-> [value |-> None, unit |-> "MARLA", basis |-> "PLOT"],
          plotNumber |-> None, bedrooms |-> None, type |-> "kothi", where |-> Start]
Fresh == [pc |-> "filling", form |-> Blank, payload |-> None, property |-> None]

Init ==
    /\ table = SQ_FT_PER_UNIT
    /\ page = [a \in Agents |-> Fresh]
    /\ property = << >> /\ listing = << >> /\ first = << >> /\ typed = << >>

-----------------------------------------------------------------------------
(* The form and its server action.                                           *)

(* parsePriceInput: a figure and what it is counted in, None if unreadable.  *)
ParsePriceInput(raw) ==
    IF raw = None \/ raw.unit \notin DOMAIN Multiplier THEN None
    ELSE raw.value * Multiplier[raw.unit]

(* Area.of; n is the product in ten-thousandths.                             *)
Convert(value, factor) == LET n == value * factor IN (n + 50) \div 100

(* buildPayload: what the agent got wrong.                                   *)
Errors(form) ==
    {e \in {"price", "location", "area"} :
        CASE e = "price"    -> ParsePriceInput(form.price) = None
          [] e = "location" -> form.where = None
          [] e = "area"     -> form.area.value # None /\ form.area.value = 0}

NoInput == [value |-> None, unit |-> None, factor |-> None, basis |-> None]

(* buildPayload: the area is converted, and travels with how it was entered. *)
Payload(form) ==
    LET area == form.area IN
    [price |-> ParsePriceInput(form.price), plotNumber |-> form.plotNumber,
     bedrooms |-> form.bedrooms, type |-> form.type, where |-> form.where,
     areas |-> [b \in Bases |-> IF area.value = None \/ b # area.basis THEN None
                                ELSE Convert(area.value, table[area.unit])],
     input |-> IF area.value = None THEN NoInput
               ELSE [value |-> area.value, unit |-> area.unit, factor |-> table[area.unit],
                     basis |-> area.basis]]

(* CreateListingDto.  The latitude and the longitude must be in the region:  *)
(* two that are swapped are not.                                             *)
Accepts(payload) ==
    /\ payload.price >= 100
    /\ payload.where.lat \in 2950..3200 /\ payload.where.lng \in 7550..7750
    /\ payload.bedrooms # None => payload.bedrooms <= 20
    /\ \A b \in Bases : payload.areas[b] # None => payload.areas[b] >= 100

(* property_area_input_complete and property_carpet_within_builtup.          *)
Storable(payload) ==
    LET absent == {k \in DOMAIN payload.input : payload.input[k] = None} IN
    /\ absent \in {{}, DOMAIN payload.input}
    /\ None \notin {payload.areas["CARPET"], payload.areas["BUILT_UP"]} =>
            payload.areas["CARPET"] <= payload.areas["BUILT_UP"]

-----------------------------------------------------------------------------

At(a, pc) == page[a].pc = pc
Stays == UNCHANGED <<table, catalog>>
Room == Len(listing) < MaxListings

(* When its action has answered, React resets the form: but for the price,   *)
(* which is state of the component, what was filled in is gone.              *)
AfterReset(form) == [Blank EXCEPT !.price = form.price]

(* The form is sent as it was found, or filled in.                           *)
OnPage(a) == Forms \cup {page[a].form}

Rejected(a, form) ==
    /\ At(a, "filling") /\ Errors(form) # {}
    /\ page' = [page EXCEPT ![a].form = AfterReset(form)]
    /\ Stays

(* A request under way, and once it knows which property it is about.        *)
Posted(form, payload) == [pc |-> "sent", form |-> form, payload |-> payload, property |-> None]
About(a, i) == [pc |-> "create", form |-> page[a].form, payload |-> page[a].payload, property |-> i]

Submit(a, form) ==
    /\ At(a, "filling") /\ Errors(form) = {} /\ Room
    /\ page' = [page EXCEPT ![a] = Posted(form, Payload(form))]
    /\ Stays

(* Another client of the endpoint.                                           *)
Post(a, payload) ==
    /\ At(a, "filling") /\ Room
    /\ page' = [page EXCEPT ![a] = Posted(None, payload)]
    /\ Stays

(* The validation, the gate, a constraint or the database refuses it; the    *)
(* property may have been inserted by then.                                  *)
Refused(a) ==
    /\ page[a].pc \in {"sent", "insert", "create"}
    /\ page' = [page EXCEPT ![a] = IF page[a].form = None THEN Fresh
                                   ELSE [Fresh EXCEPT !.form = AfterReset(page[a].form)]]
    /\ Stays

(* findOrCreate: any one row of the plot; two requests may both find none.   *)
SamePlot(payload) ==
    {i \in DOMAIN property : payload.plotNumber # None /\ property[i].plotNumber = payload.plotNumber}

Find(a) ==
    /\ At(a, "sent") /\ Accepts(page[a].payload)
    /\ LET found == SamePlot(page[a].payload) IN
        \/ /\ found = {}
           /\ page' = [page EXCEPT ![a].pc = "insert"]
        \/ \E i \in found : page' = [page EXCEPT ![a] = About(a, i)]
    /\ Stays

(* ST_MakePoint takes the longitude first.                                   *)
Row(payload) ==
    [plotNumber |-> payload.plotNumber, type |-> payload.type, bedrooms |-> payload.bedrooms,
     point |-> [x |-> payload.where.lng, y |-> payload.where.lat],
     areas |-> payload.areas, input |-> payload.input]

Insert(a) ==
    /\ At(a, "insert") /\ Storable(page[a].payload) /\ Len(property) < MaxListings
    /\ property' = Append(property, Row(page[a].payload))
    /\ first' = Append(first, [page[a].payload EXCEPT !.price = None])
    /\ page' = [page EXCEPT ![a] = About(a, Len(property) + 1)]
    /\ UNCHANGED <<table, listing, typed>>

(* The listing is inserted.  The agent is sent on to the photos or, if the   *)
(* answer is lost, to an error page: the form is blank when it is next seen. *)
Create(a) ==
    /\ At(a, "create") /\ Room
    /\ listing' = Append(listing, [property |-> page[a].property, price |-> page[a].payload.price])
    /\ typed' = Append(typed, IF page[a].form = None THEN None ELSE page[a].form.price)
    /\ page' = [page EXCEPT ![a] = Fresh]
    /\ UNCHANGED <<table, property, first>>

(* The process dies, and the page with it.                                   *)
Crash(a) ==
    /\ ~At(a, "filling")
    /\ page' = [page EXCEPT ![a] = Fresh]
    /\ Stays

(* A release with another conversion table.                                  *)
Correct ==
    /\ table = SQ_FT_PER_UNIT
    /\ table' = Corrected
    /\ UNCHANGED <<page, catalog>>

-----------------------------------------------------------------------------
(* The site.                                                                 *)

(* area() of the mapper: how it was entered goes with its own basis only.    *)
AreaDto(row, basis) ==
    LET entered == row.input.basis = basis /\ None \notin {row.input.value, row.input.unit}
        input   == IF entered THEN row.input ELSE NoInput IN
    IF row.areas[basis] = None THEN None
    ELSE [value |-> input.value, unit |-> input.unit, factor |-> input.factor,
          sqft |-> row.areas[basis]]

(* toStoredArea of the provider: without it, the square feet are the figure. *)
StoredArea(dto) ==
    IF dto = None \/ dto.value # None THEN dto
    ELSE [dto EXCEPT !.value = dto.sqft, !.unit = "SQ_FT", !.factor = 100]

(* Mutant: Area.of, with the table of today.                                 *)
Reconverted(area) ==
    IF area = None THEN None
    ELSE [figure |-> <<area.value, area.unit>>, sqft |-> Convert(area.value, table[area.unit])]

(* Area.fromStored, format and formatWithSqft: "10 marla (2,723 sq ft)".     *)
Formatted(area) ==
    IF area = None THEN None
    ELSE [figure |-> <<area.value, area.unit>>, sqft |-> area.sqft]

(* formatPriceShort prints two decimals of a crore, a lakh or a thousand.    *)
Step(price) ==
    IF price >= 100 * CRORE THEN CRORE
    ELSE IF price >= 100 * LAKH THEN LAKH
    ELSE IF price >= 100 * 1000 THEN 1000 ELSE 100

Rounded(n, step) == step * ((n + step \div 2) \div step)

FormatPriceShort(price) == Rounded(price, Step(price))

(* ListingDetailPage: the price, the map, the facts, and the size of land in *)
(* the headline.                                                             *)
DetailPage(l) ==
    LET row == property[l.property]
        area == [b \in Bases |-> Formatted(StoredArea(AreaDto(row, b)))] IN
    [price |-> FormatPriceShort(l.price), lat |-> row.point.y, lng |-> row.point.x,
     bedrooms |-> row.bedrooms, area |-> area,
     headline |-> IF row.type \in LandTypes /\ area["PLOT"] # None THEN area["PLOT"].figure ELSE None]

(* ListingCard: the price and specLine, the carpet area before the others.   *)
Card(l) ==
    LET row == property[l.property]
        area == [b \in Bases |-> Formatted(StoredArea(AreaDto(row, b)))]
        order == IF row.type \in LandTypes THEN <<"PLOT">> ELSE <<"CARPET", "BUILT_UP", "PLOT">>
        known == {i \in DOMAIN order : area[order[i]] # None} IN
    [price |-> FormatPriceShort(l.price),
     area |-> IF known = {} THEN None
              ELSE area[order[CHOOSE i \in known : \A j \in known : i <= j]].figure]

-----------------------------------------------------------------------------

Next ==
    \/ Correct
    \/ \E a \in Agents :
        \/ \E form \in OnPage(a) : Rejected(a, form) \/ Submit(a, form)
        \/ \E payload \in Payloads : Post(a, payload)
        \/ Refused(a) \/ Find(a) \/ Insert(a) \/ Create(a) \/ Crash(a)

Spec == Init /\ [][Next]_vars

-----------------------------------------------------------------------------
(* Properties.                                                               *)

(* What an area was said to be when its property was first described: in the *)
(* words it was entered in if they were about this area, in square feet      *)
(* otherwise.                                                                *)
AsEntered(payload, basis) ==
    IF payload.areas[basis] = None THEN None
    ELSE [figure |-> IF payload.input.basis = basis THEN <<payload.input.value, payload.input.unit>>
                     ELSE <<payload.areas[basis], "SQ_FT">>,
          sqft |-> payload.areas[basis]]

(* A price on the site stands for what was typed, to the digit printed last. *)
Says(price, raw) ==
    LET meant == raw.value * Multiplier[raw.unit] IN
    price \in (meant - Step(meant) \div 2) .. (meant + Step(meant) \div 2)

(* The site goes on showing a listing the way it was entered, whatever       *)
(* conversion table later releases are built with and whoever lists the plot *)
(* again: the price as its agent typed it, and the property as whoever       *)
(* listed it first described it, with "10 marla" said of the area it was     *)
(* said of and of no other.  Card and headline say nothing else.             *)
ShownAsEntered ==
    \A i \in DOMAIN listing :
        LET l == listing[i]  said == first[l.property]  shown == DetailPage(l)  card == Card(l) IN
        /\ typed[i] # None => Says(shown.price, typed[i])
        /\ [lat |-> shown.lat, lng |-> shown.lng] = said.where
        /\ shown.bedrooms = said.bedrooms
        /\ \A b \in Bases : shown.area[b] = AsEntered(said, b)
        /\ card.price = shown.price
        /\ \A size \in {card.area, shown.headline} \ {None} :
            \E b \in Bases : shown.area[b] # None /\ shown.area[b].figure = size

=============================================================================
