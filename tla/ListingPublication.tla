------------------------- MODULE ListingPublication -------------------------
(***************************************************************************)
(* The staff write path of one organisation's listings: create and update  *)
(* with the RERA publication gate, the property a listing hangs from, the  *)
(* price history, and the registrations the gate reads.  Every repository  *)
(* call is a transaction of its own, so requests interleave between them.  *)
(*                                                                         *)
(* Listings have visibility PUBLIC.  A property row is named by the listing *)
(* whose creation inserted it.  Time is counted in days: that is what      *)
(* valid_until is compared with.                                           *)
(***************************************************************************)
EXTENDS Naturals

CONSTANTS
    States,         \* RERA jurisdictions
    Listings,       \* listings that can be created
    PlotOf,         \* the (locality, plot number) each is created at, or None
    StateOf,        \* the state of the locality each is created in
    Requests,       \* staff requests the API can be serving at the same time
    Prices,
    MaxDay,         \* bound on the clock
    Scenes,         \* bound: see Scene
    None            \* SQL NULL, or a field the request leaves out

Statuses == {"ACTIVE", "UNDER_OFFER", "SOLD", "RENTED", "PENDING_REVIEW"}
PUBLIC_STATUS_DB_VALUES == {"ACTIVE", "UNDER_OFFER", "SOLD", "RENTED"}
Closed == {"SOLD", "RENTED"}

Days == 0 .. MaxDay
Forever == MaxDay + 1       \* valid_until IS NULL: the registration has no end

\* Which listings, requests and prices there are, the statuses the create and
\* the edit form send, and the last day.
Scene == [listings : SUBSET Listings, requests : SUBSET Requests, prices : SUBSET Prices,
          createdAs : SUBSET Statuses, updatedTo : SUBSET Statuses, lastDay : Days]

ASSUME ListingAssumption ==
    /\ MaxDay \in Nat
    /\ Prices \subseteq Nat
    /\ StateOf \in [Listings -> States]
    /\ \A l, m \in Listings :
        PlotOf[l] # None /\ PlotOf[l] = PlotOf[m] => StateOf[l] = StateOf[m]
    /\ Scenes \subseteq Scene
    /\ None \notin Statuses \cup Listings \cup States \cup Nat

VARIABLES
    today,
    valid_until,        \* organization_rera: per state, None when there is no row
    properties,         \* property rows
    property_id, status, price, close_price, closed_at, published_at,
                        \* columns of listing; status is None before the insert
    recorded,           \* the newest listing_price_history row
    pc, req,            \* the requests being served
    registered,         \* history: states some registration was ever valid in
    torn,               \* history: listings whose price record a crash cut off
    undated,            \* history: listings entered as closed, status unchanged since
    scene               \* one of Scenes

columns == <<property_id, status, price, close_price, closed_at, published_at>>
history == <<registered, torn, undated>>
vars == <<today, valid_until, properties, columns, recorded, pc, req, history, scene>>

Request == [listing  : Listings \cup {None},
            property : Listings \cup {None},
            status   : Statuses \cup {None},
            price    : Prices \cup {None},
            close_price : {"keep", "clear", "set"},
            was      : Statuses \cup {None},    \* current.status
            wasPrice : Prices \cup {None},      \* current.price
            gated    : States \cup {None}]      \* where findValid said yes

NoRequest == [listing |-> None, property |-> None, status |-> None,
              price |-> None, close_price |-> "keep", was |-> None,
              wasPrice |-> None, gated |-> None]

Exists(l) == status[l] # None

Done(r) ==
    /\ pc'  = [pc EXCEPT ![r] = "idle"]
    /\ req' = [req EXCEPT ![r] = NoRequest]

Init ==
    /\ scene \in Scenes
    /\ today = 0
    /\ valid_until = [s \in States |-> None]
    /\ properties = {}
    /\ property_id  = [l \in Listings |-> None]
    /\ status       = [l \in Listings |-> None]
    /\ price        = [l \in Listings |-> None]
    /\ close_price  = [l \in Listings |-> FALSE]
    /\ closed_at    = [l \in Listings |-> None]
    /\ published_at = [l \in Listings |-> None]
    /\ recorded     = [l \in Listings |-> None]
    /\ pc  = [r \in Requests |-> "idle"]
    /\ req = [r \in Requests |-> NoRequest]
    /\ registered = {} /\ torn = {} /\ undated = {}

-----------------------------------------------------------------------------
(* Registrations.                                                          *)

\* ReraRepository.findValid returns a row.
ValidOn(day, until) == until # None /\ until >= day

\* Mutant: any jurisdiction's registration will do.
AnyRegistration(s) == \E t \in States : ValidOn(today, valid_until[t])

Registered(s) == ValidOn(today, valid_until[s])

\* PUT /staff/rera/:state; the date may be any, a past one too.
UpsertRera ==
    /\ \E s \in States, until \in 0 .. scene.lastDay \cup {Forever} :
        /\ valid_until' = [valid_until EXCEPT ![s] = until]
        /\ registered' = IF ValidOn(today, until) THEN registered \cup {s}
                                                  ELSE registered
    /\ UNCHANGED <<today, properties, columns, recorded, pc, req, torn, undated>>

-----------------------------------------------------------------------------
(* create: the gate, findOrCreate, the insert and the opening price.       *)

\* Resolve the locality and, for a listing to be published at once, the gate.
\* A refused request changes nothing.
CreateCheck(r) ==
    /\ pc[r] = "idle"
    /\ \E l \in scene.listings \ (properties \cup {req[q].listing : q \in Requests}),
          st \in scene.createdAs, p \in scene.prices :
        /\ ~Exists(l)
        /\ st = "ACTIVE" => Registered(StateOf[l])
        /\ req' = [req EXCEPT ![r] = [NoRequest EXCEPT
                !.listing = l, !.status = st, !.price = p,
                !.gated = IF st = "ACTIVE" THEN StateOf[l] ELSE None]]
    /\ pc' = [pc EXCEPT ![r] = "find"]
    /\ UNCHANGED <<today, valid_until, properties, columns, recorded, history>>

SamePlot(l) == {q \in properties : PlotOf[q] # None /\ PlotOf[q] = PlotOf[l]}

\* Mutant: findOrCreate never finds.
FindNothing(r) ==
    /\ pc[r] = "find"
    /\ pc' = [pc EXCEPT ![r] = "property"]
    /\ UNCHANGED <<today, valid_until, properties, columns, recorded, req, history>>

\* SELECT id FROM property WHERE locality_id AND plot_number LIMIT 1.
FindProperty(r) ==
    /\ pc[r] = "find"
    /\ LET found == SamePlot(req[r].listing)
       IN  \/ /\ \E q \in found : req' = [req EXCEPT ![r].property = q]
              /\ pc' = [pc EXCEPT ![r] = "insert"]
           \/ /\ found = {}
              /\ pc' = [pc EXCEPT ![r] = "property"]
              /\ UNCHANGED req
    /\ UNCHANGED <<today, valid_until, properties, columns, recorded, history>>

InsertProperty(r) ==
    /\ pc[r] = "property"
    /\ properties' = properties \cup {req[r].listing}
    /\ req' = [req EXCEPT ![r].property = req[r].listing]
    /\ pc' = [pc EXCEPT ![r] = "insert"]
    /\ UNCHANGED <<today, valid_until, columns, recorded, history>>

CreateListing(r) ==
    /\ pc[r] = "insert"
    /\ LET l == req[r].listing
       IN  /\ property_id' = [property_id EXCEPT ![l] = req[r].property]
           /\ status' = [status EXCEPT ![l] = req[r].status]
           /\ price' = [price EXCEPT ![l] = req[r].price]
           /\ published_at' = [published_at EXCEPT ![l] =
                IF req[r].status = "ACTIVE" THEN today ELSE None]
           /\ undated' = undated \cup {m \in {l} : req[r].status \in Closed}
    /\ pc' = [pc EXCEPT ![r] = "record"]
    /\ UNCHANGED <<today, valid_until, properties, close_price, closed_at,
                   recorded, req, registered, torn>>

\* recordPriceChange, for a creation and for an update.
RecordPrice(r) ==
    /\ pc[r] = "record"
    /\ LET l == req[r].listing
       IN  /\ recorded' = [recorded EXCEPT ![l] = req[r].price]
           /\ torn' = torn \ {l}
    /\ Done(r)
    /\ UNCHANGED <<today, valid_until, properties, columns, registered, undated>>

-----------------------------------------------------------------------------
(* update: findState, the gate, one UPDATE, the price history.             *)

NeedsGate(st, was) == st = "ACTIVE" /\ was # "ACTIVE"

UpdateRead(r) ==
    /\ pc[r] = "idle"
    /\ \E l \in Listings, st \in scene.updatedTo \cup {None}, p \in scene.prices \cup {None},
          close \in {"keep", "clear", "set"} :
        /\ Exists(l)
        /\ req' = [req EXCEPT ![r] = [NoRequest EXCEPT
                !.listing = l, !.property = property_id[l],
                !.status = st, !.price = p, !.close_price = close,
                !.was = status[l], !.wasPrice = price[l]]]
        /\ pc' = [pc EXCEPT ![r] = IF NeedsGate(st, status[l]) THEN "gate" ELSE "apply"]
    /\ UNCHANGED <<today, valid_until, properties, columns, recorded, history>>

\* assertPublishable for the state of the listing's property; 403 otherwise.
Gate(r) ==
    /\ pc[r] = "gate"
    /\ LET s == StateOf[req[r].property]
       IN  \/ /\ Registered(s)
              /\ req' = [req EXCEPT ![r].gated = s]
              /\ pc' = [pc EXCEPT ![r] = "apply"]
           \/ ~Registered(s) /\ Done(r)
    /\ UNCHANGED <<today, valid_until, properties, columns, recorded, history>>

\* Mutant: only an increase is a price change.
Increased(r) == req[r].price # None /\ req[r].price > req[r].wasPrice

\* The price moved, as seen from the row read first.
Moved(r) == req[r].price # None /\ req[r].price # req[r].wasPrice

\* What the UPDATE writes, from the row as it is now.
NewStatus(r, l) == IF req[r].status = None THEN status[l] ELSE req[r].status

NewClosePrice(r, l) == CASE req[r].close_price = "keep"  -> close_price[l]
                         [] req[r].close_price = "clear" -> FALSE
                         [] req[r].close_price = "set"   -> TRUE

\* Mutant: reopening a listing keeps its closing date.
StickyClosedAt(r, l) ==
    IF req[r].status \in Closed /\ closed_at[l] = None THEN today ELSE closed_at[l]

NewClosedAt(r, l) ==
    CASE req[r].status = None -> closed_at[l]
      [] req[r].status \in Closed -> IF closed_at[l] = None THEN today ELSE closed_at[l]
      [] OTHER -> None

NewPublishedAt(r, l) ==
    IF req[r].status = "ACTIVE" /\ published_at[l] = None THEN today ELSE published_at[l]

\* listing_close_only_when_closed, its close_price half: the UPDATE fails, 500.
\* (Its closed_at half is an invariant below.)
Rejected(r, l) == NewClosePrice(r, l) /\ NewStatus(r, l) \notin Closed

UpdateRejected(r) ==
    /\ pc[r] = "apply"
    /\ Rejected(r, req[r].listing)
    /\ Done(r)
    /\ UNCHANGED <<today, valid_until, properties, columns, recorded, history>>

UpdateApply(r) ==
    /\ pc[r] = "apply"
    /\ LET l == req[r].listing
       IN  /\ ~Rejected(r, l)
           /\ status' = [status EXCEPT ![l] = NewStatus(r, l)]
           /\ price' = [price EXCEPT ![l] = IF req[r].price = None THEN @ ELSE req[r].price]
           /\ close_price' = [close_price EXCEPT ![l] = NewClosePrice(r, l)]
           /\ closed_at' = [closed_at EXCEPT ![l] = NewClosedAt(r, l)]
           /\ published_at' = [published_at EXCEPT ![l] = NewPublishedAt(r, l)]
           /\ undated' = undated \ {m \in {l} : req[r].status # None}
    /\ \/ /\ Moved(r)
          /\ pc' = [pc EXCEPT ![r] = "record"]
          /\ UNCHANGED req
       \/ ~Moved(r) /\ Done(r)
    /\ UNCHANGED <<today, valid_until, properties, property_id, recorded, registered,
                   torn>>

-----------------------------------------------------------------------------
NextDay ==
    /\ today < scene.lastDay
    /\ today' = today + 1
    /\ UNCHANGED <<valid_until, properties, columns, recorded, pc, req, history>>

\* The process dies; what was committed stays.
Crash(r) ==
    /\ pc[r] # "idle"
    /\ torn' = IF pc[r] = "record" THEN torn \cup {req[r].listing} ELSE torn
    /\ Done(r)
    /\ UNCHANGED <<today, valid_until, properties, columns, recorded, registered, undated>>

Serve(r) ==
    \/ CreateCheck(r) \/ FindProperty(r) \/ InsertProperty(r) \/ CreateListing(r)
    \/ UpdateRead(r) \/ Gate(r) \/ UpdateRejected(r) \/ UpdateApply(r)
    \/ RecordPrice(r) \/ Crash(r)

Next ==
    /\ (\E r \in scene.requests : Serve(r)) \/ UpsertRera \/ NextDay
    /\ UNCHANGED scene

Spec == Init /\ [][Next]_vars

-----------------------------------------------------------------------------
(* Properties.                                                             *)

InTurn == \A r, q \in scene.requests : r = q

\* However updates overlap, a listing is ACTIVE only in a state the
\* organisation has held a valid registration for (listing-admin.service.ts:46-51).
ActiveWhereRegistered ==
    \A l \in Listings : status[l] = "ACTIVE" => StateOf[property_id[l]] \in registered

\* A sold or rented listing has a closing date and no other has: neither the
\* market statistics nor listing_close_only_when_closed meets anything else.
\* A listing entered as sold has none until its status is saved again.
ClosedAtTracksStatus ==
    \A l \in Listings :
        closed_at[l] # None <=> status[l] \in Closed /\ l \notin undated

\* Outside an update of the listing, and unless a crash cut its recording off,
\* the last point of the price history is the asking price.  With one request
\* at a time: two that overlap may be recorded in the other order.
PriceHistoryIsCurrent ==
    InTurn => \A l \in Listings :
        Exists(l) /\ l \notin torn /\ (\A r \in Requests : req[r].listing # l)
            => recorded[l] = price[l]

\* Two listings of one plot are two offers on one property (0005_catalog.sql:4-6).
\* With one request at a time: no unique index backs findOrCreate.
OnePropertyPerPlot ==
    InTurn => \A l, m \in Listings :
        Exists(l) /\ Exists(m) /\ PlotOf[l] = PlotOf[m] /\ PlotOf[l] # None
            => property_id[l] = property_id[m]

=============================================================================
