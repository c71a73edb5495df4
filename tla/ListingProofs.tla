---------------------------- MODULE ListingProofs ----------------------------
(* The properties of ListingPublication, and of the staff endpoints that    *)
(* publish by it, for every set of listings, plots, jurisdictions and       *)
(* requests, with their proofs; and that what is entered stays as it was.   *)
EXTENDS TLAPS, SequenceTheorems, StaffListings

Pcs == {"idle", "find", "property", "insert", "record", "gate", "apply"}

(* What a request reads and writes is of its kind.                          *)
TypeInv ==
    /\ scene \in Scenes
    /\ today \in Nat
    /\ valid_until \in [States -> Nat \cup {None}]
    /\ properties \subseteq Listings
    /\ property_id \in [Listings -> Listings \cup {None}]
    /\ status \in [Listings -> Statuses \cup {None}]
    /\ price \in [Listings -> Prices \cup {None}]
    /\ recorded \in [Listings -> Prices \cup {None}]
    /\ close_price \in [Listings -> BOOLEAN]
    /\ closed_at \in [Listings -> Nat \cup {None}]
    /\ published_at \in [Listings -> Nat \cup {None}]
    /\ registered \subseteq States
    /\ torn \subseteq Listings /\ undated \subseteq Listings
    /\ pc \in [Requests -> Pcs]
    /\ req \in [Requests -> Request]

Creating(r) == pc[r] \in {"find", "property", "insert"}

(* A creation has a listing to itself that has no row yet; every other      *)
(* request at work is on a row that is there to stay.                       *)
WhoseListing ==
    \A r \in Requests :
        /\ Creating(r) =>
            /\ req[r].listing \in Listings
            /\ ~Exists(req[r].listing)
            /\ req[r].status \in Statuses /\ req[r].price \in Prices
            /\ \A q \in Requests :
                Creating(q) /\ req[q].listing = req[r].listing => q = r
        /\ pc[r] \in {"gate", "apply", "record"} =>
            req[r].listing \in Listings /\ Exists(req[r].listing)

(* findOrCreate hands the insert a property in the locality of the listing, *)
(* and an update knows the property of the row it read.                     *)
WhoseProperty ==
    /\ \A l \in Listings : Exists(l) => property_id[l] \in Listings
    /\ \A r \in Requests :
        /\ pc[r] = "insert" =>
            /\ req[r].property \in Listings
            /\ StateOf[req[r].property] = StateOf[req[r].listing]
        /\ pc[r] \in {"gate", "apply"} => req[r].property = property_id[req[r].listing]

(* A registration that is valid today was valid once.                       *)
ValidWasRegistered == \A s \in States : Registered(s) => s \in registered

(* A request about to make a listing ACTIVE has seen a registration for its *)
(* state, or a row that had been ACTIVE before.                             *)
GateWasPassed ==
    \A r \in Requests : req[r].status = "ACTIVE" =>
        /\ Creating(r) => StateOf[req[r].listing] \in registered
        /\ pc[r] = "apply" => StateOf[property_id[req[r].listing]] \in registered

(* A listing that is not there has no closing date.                         *)
NoRowNoDate == \A l \in Listings : ~Exists(l) => closed_at[l] = None

DeskInv == TypeInv /\ WhoseListing /\ WhoseProperty

ListingInv ==
    /\ DeskInv
    /\ ValidWasRegistered /\ GateWasPassed /\ ActiveWhereRegistered
    /\ NoRowNoDate /\ ClosedAtTracksStatus

(* The records that a creation and an update leave behind.                  *)
Created(l, st, p, g) ==
    [NoRequest EXCEPT !.listing = l, !.status = st, !.price = p, !.gated = g]

AsRead(l, st, p, close, pr, was, wasPrice) ==
    [NoRequest EXCEPT !.listing = l, !.property = pr, !.status = st, !.price = p,
                      !.close_price = close, !.was = was, !.wasPrice = wasPrice]

(* They are records of requests.                                            *)
LEMMA CreationRecord ==
    ASSUME NEW l \in Listings, NEW st \in Statuses, NEW p \in Prices,
           NEW g \in States \cup {None}
    PROVE  /\ Created(l, st, p, g) \in Request
           /\ Created(l, st, p, g).listing = l
           /\ Created(l, st, p, g).status = st
           /\ Created(l, st, p, g).price = p
  BY DEF Created, NoRequest, Request

(* The record of a request that is over.                                    *)
LEMMA NoRequestType == NoRequest \in Request
  BY DEF NoRequest, Request

(* At the start there is no listing, no registration and no request.        *)
LEMMA ListingInit == Init => ListingInv
<1> SUFFICES ASSUME Init PROVE ListingInv
  OBVIOUS
<1>1. TypeInv
  <2>1. /\ pc \in [Requests -> Pcs] /\ req \in [Requests -> Request]
        /\ scene \in Scenes /\ today \in Nat
    BY NoRequestType DEF Init, Pcs
  <2>2. QED
    BY <2>1 DEF Init, TypeInv
<1>2. \A r \in Requests : pc[r] = "idle"
  BY DEF Init
<1>3. \A l \in Listings : status[l] = None /\ closed_at[l] = None
  BY DEF Init
<1>4. WhoseListing /\ WhoseProperty /\ GateWasPassed
  BY <1>2, <1>3 DEF WhoseListing, WhoseProperty, GateWasPassed, Creating, Exists
<1>5. ValidWasRegistered
  BY DEF Init, ValidWasRegistered, Registered, ValidOn
<1>6. ActiveWhereRegistered /\ NoRowNoDate /\ ClosedAtTracksStatus
  BY <1>3, ListingAssumption
     DEF ActiveWhereRegistered, NoRowNoDate, ClosedAtTracksStatus, Closed, Statuses
<1>7. QED
  BY <1>1, <1>4, <1>5, <1>6 DEF ListingInv, DeskInv

(* Where no row changes, the listings stay as they were.                    *)
LEMMA RowsKept ==
    ASSUME ListingInv, UNCHANGED <<property_id, status, closed_at, undated>>,
           registered \subseteq registered'
    PROVE  ActiveWhereRegistered' /\ NoRowNoDate' /\ ClosedAtTracksStatus'
  BY DEF ListingInv, ActiveWhereRegistered, NoRowNoDate, ClosedAtTracksStatus, Exists

(* A registration that is entered and valid is one that was held.           *)
LEMMA ListingRera ==
    ASSUME ListingInv, UpsertRera, UNCHANGED scene
    PROVE  ListingInv'
<1> USE ListingAssumption DEF ListingInv, DeskInv, TypeInv
<1>1. PICK s \in States, until \in 0 .. scene.lastDay \cup {Forever} :
        /\ valid_until' = [valid_until EXCEPT ![s] = until]
        /\ registered' = IF ValidOn(today, until) THEN registered \cup {s}
                                                  ELSE registered
  BY DEF UpsertRera
<1>2. /\ UNCHANGED <<today, properties, property_id, status, price, close_price,
                     closed_at, published_at, recorded, pc, req, torn, undated>>
      /\ registered \subseteq registered'
  BY <1>1 DEF UpsertRera, columns
<1>3. until \in Nat
  BY DEF Forever
<1>4. TypeInv'
  BY <1>1, <1>2, <1>3
<1>5. WhoseListing' /\ WhoseProperty' /\ GateWasPassed'
  BY <1>2 DEF WhoseListing, WhoseProperty, GateWasPassed, Creating, Exists
<1>6. ValidWasRegistered'
  BY <1>1, <1>2 DEF ValidWasRegistered, Registered, ValidOn
<1>7. QED
  BY <1>2, <1>4, <1>5, <1>6, RowsKept

(* A day later fewer registrations are valid.                               *)
LEMMA ListingNextDay ==
    ASSUME ListingInv, NextDay, UNCHANGED scene
    PROVE  ListingInv'
<1> USE ListingAssumption DEF ListingInv, DeskInv, TypeInv
<1>1. /\ today' = today + 1
      /\ UNCHANGED <<valid_until, properties, property_id, status, price, close_price,
                     closed_at, published_at, recorded, pc, req, registered, torn, undated>>
  BY DEF NextDay, columns, history
<1>2. TypeInv'
  BY <1>1
<1>3. WhoseListing' /\ WhoseProperty' /\ GateWasPassed'
  BY <1>1 DEF WhoseListing, WhoseProperty, GateWasPassed, Creating, Exists
<1>4. ValidWasRegistered'
  <2>1. ASSUME NEW s \in States, Registered(s)' PROVE Registered(s)
    BY <1>1, <2>1 DEF Registered, ValidOn
  <2>2. QED
    BY <1>1, <2>1 DEF ValidWasRegistered
<1>5. QED
  BY <1>1, <1>2, <1>3, <1>4, RowsKept

(* The gate of a creation; the listing is one that nobody is working on.    *)
LEMMA ListingCreateCheck ==
    ASSUME ListingInv, NEW r \in Requests, CreateCheck(r), UNCHANGED scene
    PROVE  ListingInv'
<1> USE ListingAssumption DEF ListingInv, DeskInv, TypeInv
<1>1. PICK l \in scene.listings \ (properties \cup {req[q].listing : q \in Requests}),
           st \in scene.createdAs, p \in scene.prices :
        /\ ~Exists(l)
        /\ st = "ACTIVE" => Registered(StateOf[l])
        /\ req' = [req EXCEPT ![r] = [NoRequest EXCEPT
                !.listing = l, !.status = st, !.price = p,
                !.gated = IF st = "ACTIVE" THEN StateOf[l] ELSE None]]
  BY DEF CreateCheck
<1>2. l \in Listings /\ st \in Statuses /\ p \in Prices
  BY DEF Scene
<1>3. /\ req'[r] \in Request
      /\ req'[r].listing = l /\ req'[r].status = st /\ req'[r].price = p
  <2>1. PICK g : g = IF st = "ACTIVE" THEN StateOf[l] ELSE None
    OBVIOUS
  <2>2. g \in States \cup {None}
    BY <1>2, <2>1
  <2>3. req' = [req EXCEPT ![r] = Created(l, st, p, g)]
    BY <1>1, <2>1, Zenon DEF Created
  <2>4. req'[r] = Created(l, st, p, g)
    BY <2>3
  <2>5. QED
    BY <1>2, <2>2, <2>4, CreationRecord
<1>4. /\ pc'[r] = "find"
      /\ \A q \in Requests : q # r => req'[q] = req[q] /\ pc'[q] = pc[q]
      /\ UNCHANGED <<today, valid_until, properties, property_id, status, price,
                     close_price, closed_at, published_at, recorded, registered,
                     torn, undated>>
  BY <1>1 DEF CreateCheck, columns, history
<1>5. TypeInv'
  <2>1. req' \in [Requests -> Request]
    BY <1>1, <1>3
  <2>2. pc' \in [Requests -> Pcs]
    BY DEF CreateCheck, Pcs
  <2>3. QED
    BY <1>4, <2>1, <2>2
<1>6. WhoseListing'
  <2>1. \A q \in Requests : req[q].listing # l
    BY <1>1
  <2>2. ~Exists(l)' /\ \A m : Exists(m)' <=> Exists(m)
    BY <1>1, <1>4 DEF Exists
  <2>3. QED
    BY <1>2, <1>3, <1>4, <2>1, <2>2 DEF WhoseListing, Creating, Exists
<1>7. WhoseProperty'
  BY <1>4 DEF WhoseProperty, Exists
<1>8. ValidWasRegistered'
  BY <1>4 DEF ValidWasRegistered, Registered
<1>9. GateWasPassed'
  <2>1. st = "ACTIVE" => StateOf[l] \in registered
    BY <1>1, <1>2 DEF ValidWasRegistered, Registered
  <2>2. QED
    BY <1>3, <1>4, <2>1 DEF GateWasPassed, Creating
<1>10. QED
  BY <1>4, <1>5, <1>6, <1>7, <1>8, <1>9, RowsKept

(* findOrCreate hands over a property of the same plot, hence of the same   *)
(* state, or the one it inserts for the listing.                            *)
LEMMA ListingProperty ==
    ASSUME ListingInv, NEW r \in Requests,
           FindProperty(r) \/ InsertProperty(r), UNCHANGED scene
    PROVE  ListingInv'
<1> USE ListingAssumption DEF ListingInv, DeskInv, TypeInv
<1>1. PICK l : l = req[r].listing
  OBVIOUS
<1>2. /\ Creating(r) /\ l \in Listings /\ req[r] \in Request
  BY <1>1 DEF FindProperty, InsertProperty, Creating, WhoseListing
<1>3. /\ \A q \in Requests : q # r => req'[q] = req[q] /\ pc'[q] = pc[q]
      /\ UNCHANGED <<today, valid_until, property_id, status, price,
                     close_price, closed_at, published_at, recorded, registered,
                     torn, undated>>
      /\ properties' \subseteq Listings
  BY <1>1, <1>2 DEF FindProperty, InsertProperty, columns, history
<1>4. \/ pc'[r] = "property" /\ pc' = [pc EXCEPT ![r] = "property"] /\ req' = req
      \/ /\ pc'[r] = "insert" /\ pc' = [pc EXCEPT ![r] = "insert"]
         /\ \E q \in Listings :
                StateOf[q] = StateOf[l] /\ req' = [req EXCEPT ![r].property = q]
  <2>1. CASE FindProperty(r)
    <3>1. CASE SamePlot(l) = {}
      BY <1>1, <2>1, <3>1 DEF FindProperty
    <3>2. CASE SamePlot(l) # {}
      <4>1. PICK q \in SamePlot(l) : req' = [req EXCEPT ![r].property = q]
        BY <1>1, <2>1, <3>2 DEF FindProperty
      <4>2. q \in Listings /\ StateOf[q] = StateOf[l]
        BY <1>2, <4>1 DEF SamePlot
      <4>3. pc' = [pc EXCEPT ![r] = "insert"]
        BY <1>1, <2>1, <3>2 DEF FindProperty
      <4>4. QED
        BY <4>1, <4>2, <4>3
    <3>3. QED
      BY <3>1, <3>2
  <2>2. CASE InsertProperty(r)
    BY <1>1, <1>2, <2>2 DEF InsertProperty
  <2>3. QED
    BY <2>1, <2>2
<1>5. /\ req'[r] \in Request
      /\ req'[r].listing = l /\ req'[r].status = req[r].status
      /\ req'[r].price = req[r].price
      /\ pc'[r] = "insert" =>
            req'[r].property \in Listings /\ StateOf[req'[r].property] = StateOf[l]
  <2>1. CASE req' = req /\ pc'[r] = "property"
    BY <1>1, <1>2, <2>1
  <2>2. ASSUME NEW q \in Listings, StateOf[q] = StateOf[l],
               req' = [req EXCEPT ![r].property = q]
        PROVE  /\ req'[r] \in Request /\ req'[r].listing = l
               /\ req'[r].status = req[r].status /\ req'[r].price = req[r].price
               /\ req'[r].property = q
    BY <1>1, <1>2, <2>2 DEF Request
  <2>3. QED
    BY <1>4, <2>1, <2>2
<1>6. TypeInv'
  <2>1. req' \in [Requests -> Request]
    BY <1>4, <1>5
  <2>2. pc' \in [Requests -> Pcs]
    BY <1>4 DEF Pcs
  <2>3. QED
    BY <1>3, <2>1, <2>2
<1>7. WhoseListing'
  <2>1. ASSUME NEW q \in Requests, q # r
        PROVE  /\ pc'[q] = pc[q] /\ req'[q] = req[q]
               /\ Creating(q) => req[q].listing # l
    BY <1>1, <1>2, <1>3, <1>4, <2>1 DEF WhoseListing, Creating
  <2>2. Creating(r)' /\ ~Exists(l)' /\ pc'[r] \notin {"gate", "apply", "record"}
    BY <1>1, <1>2, <1>3, <1>4, <1>5 DEF WhoseListing, Creating, Exists
  <2>3. /\ l \in Listings /\ req[r].status \in Statuses /\ req[r].price \in Prices
        /\ status' = status
    BY <1>1, <1>2, <1>3 DEF WhoseListing, Creating
  <2>4. QED
    BY <1>5, <2>1, <2>2, <2>3 DEF WhoseListing, Creating, Exists
<1>8. WhoseProperty'
  BY <1>3, <1>4, <1>5 DEF WhoseProperty, Exists
<1>9. ValidWasRegistered' /\ GateWasPassed'
  BY <1>1, <1>2, <1>3, <1>4, <1>5
     DEF ValidWasRegistered, Registered, GateWasPassed, Creating
<1>10. QED
  BY <1>3, <1>6, <1>7, <1>8, <1>9, RowsKept

(* The insert: the row of the creation, in the state of its property.       *)
LEMMA ListingInsert ==
    ASSUME ListingInv, NEW r \in Requests, CreateListing(r), UNCHANGED scene
    PROVE  ListingInv'
<1> USE ListingAssumption DEF ListingInv, DeskInv, TypeInv
<1>1. PICK l, st, home, p :
        /\ l = req[r].listing /\ st = req[r].status
        /\ home = req[r].property /\ p = req[r].price
  OBVIOUS
<1>2. /\ Creating(r) /\ l \in Listings /\ ~Exists(l)
      /\ st \in Statuses /\ p \in Prices
      /\ home \in Listings /\ StateOf[home] = StateOf[l]
      /\ st = "ACTIVE" => StateOf[l] \in registered
  BY <1>1 DEF CreateListing, Creating, WhoseListing, WhoseProperty, GateWasPassed
<1>3. /\ property_id' = [property_id EXCEPT ![l] = home]
      /\ status' = [status EXCEPT ![l] = st]
      /\ price' = [price EXCEPT ![l] = p]
      /\ undated' = undated \cup {m \in {l} : st \in Closed}
      /\ pc' = [pc EXCEPT ![r] = "record"]
      /\ UNCHANGED <<today, valid_until, properties, close_price, closed_at,
                     recorded, req, registered, torn>>
  BY <1>1 DEF CreateListing
<1>4. st # None
  BY <1>2
<1>5. TypeInv'
  <2>1. published_at' \in [Listings -> Nat \cup {None}]
    BY DEF CreateListing
  <2>2. /\ property_id' \in [Listings -> Listings \cup {None}]
        /\ status' \in [Listings -> Statuses \cup {None}]
        /\ price' \in [Listings -> Prices \cup {None}]
        /\ undated' \subseteq Listings
    BY <1>2, <1>3
  <2>3. pc' \in [Requests -> Pcs]
    BY <1>3 DEF Pcs
  <2>4. QED
    BY <1>3, <2>1, <2>2, <2>3
<1>6. /\ Exists(l)'
      /\ \A m \in Listings : m # l =>
            /\ Exists(m)' <=> Exists(m)
            /\ status'[m] = status[m] /\ property_id'[m] = property_id[m]
            /\ m \in undated' <=> m \in undated
      /\ status'[l] = st /\ property_id'[l] = home
  BY <1>2, <1>3, <1>4 DEF Exists
<1>7. \A q \in Requests :
        /\ Creating(q)' => q # r /\ Creating(q) /\ req[q].listing # l
        /\ pc'[q] # pc[q] => q = r /\ pc'[q] = "record"
        /\ pc[q] \in {"gate", "apply", "record"} => req[q].listing # l
  BY <1>1, <1>2, <1>3 DEF Creating, WhoseListing
<1>8. WhoseListing'
  BY <1>1, <1>2, <1>3, <1>6, <1>7 DEF WhoseListing, Creating, Exists
<1>9. WhoseProperty'
  BY <1>2, <1>3, <1>6, <1>7 DEF WhoseProperty, WhoseListing, Exists, Creating
<1>10. ValidWasRegistered'
  BY <1>3 DEF ValidWasRegistered, Registered
<1>11. GateWasPassed'
  BY <1>3, <1>6, <1>7 DEF GateWasPassed, WhoseListing, Creating
<1>12. ActiveWhereRegistered'
  BY <1>2, <1>3, <1>6 DEF ActiveWhereRegistered
<1>13. NoRowNoDate'
  BY <1>3, <1>6 DEF NoRowNoDate, Exists
<1>14. ClosedAtTracksStatus'
  <2>1. closed_at[l] = None
    BY <1>2 DEF NoRowNoDate
  <2>2. st \in Closed => l \in undated'
    BY <1>3
  <2>3. QED
    BY <1>3, <1>6, <2>1, <2>2 DEF ClosedAtTracksStatus
<1>15. QED
  BY <1>5, <1>8, <1>9, <1>10, <1>11, <1>12, <1>13, <1>14

(* The row an update reads; one that is ACTIVE has been through a gate.     *)
LEMMA ListingUpdateRead ==
    ASSUME ListingInv, NEW r \in Requests, UpdateRead(r), UNCHANGED scene
    PROVE  ListingInv'
<1>1. PICK l \in Listings, st \in scene.updatedTo \cup {None},
           p \in scene.prices \cup {None}, close \in {"keep", "clear", "set"} :
        /\ Exists(l)
        /\ req' = [req EXCEPT ![r] = [NoRequest EXCEPT
                !.listing = l, !.property = property_id[l],
                !.status = st, !.price = p, !.close_price = close,
                !.was = status[l], !.wasPrice = price[l]]]
        /\ pc' = [pc EXCEPT ![r] = IF NeedsGate(st, status[l]) THEN "gate" ELSE "apply"]
  BY DEF UpdateRead
<1>2. st \in Statuses \cup {None} /\ p \in Prices \cup {None}
  BY ListingAssumption DEF ListingInv, DeskInv, TypeInv, Scene
<1>3. /\ req'[r] \in Request
      /\ req'[r].listing = l /\ req'[r].status = st
      /\ req'[r].property = property_id[l]
  <2>1. /\ property_id[l] \in Listings \cup {None}
        /\ status[l] \in Statuses \cup {None} /\ price[l] \in Prices \cup {None}
    BY DEF ListingInv, DeskInv, TypeInv
  <2>2. req' = [req EXCEPT ![r] = AsRead(l, st, p, close, property_id[l], status[l], price[l])]
    BY <1>1, Zenon DEF AsRead
  <2>3. req'[r] = AsRead(l, st, p, close, property_id[l], status[l], price[l])
    BY <2>2 DEF ListingInv, DeskInv, TypeInv
  <2>4. PICK new : new = req'[r]
    OBVIOUS
  <2>5. new \in Request
    BY <1>2, <2>1, <2>3, <2>4, Zenon DEF AsRead, NoRequest, Request
  <2>6. new.listing = l /\ new.status = st /\ new.property = property_id[l]
    BY <2>3, <2>4, Zenon DEF AsRead, NoRequest
  <2>7. QED
    BY <2>4, <2>5, <2>6, Zenon
<1> USE ListingAssumption DEF ListingInv, DeskInv, TypeInv
<1>4. /\ pc'[r] \in {"gate", "apply"}
      /\ pc'[r] = "apply" /\ st = "ACTIVE" => status[l] = "ACTIVE"
      /\ \A q \in Requests : q # r => req'[q] = req[q] /\ pc'[q] = pc[q]
      /\ UNCHANGED <<today, valid_until, properties, property_id, status, price,
                     close_price, closed_at, published_at, recorded, registered,
                     torn, undated>>
  BY <1>1 DEF UpdateRead, NeedsGate, columns, history
<1>5. TypeInv'
  <2>1. req' \in [Requests -> Request]
    BY <1>1, <1>3
  <2>2. pc' \in [Requests -> Pcs]
    BY <1>1 DEF Pcs
  <2>3. QED
    BY <1>4, <2>1, <2>2
<1>6. WhoseListing' /\ WhoseProperty'
  BY <1>1, <1>3, <1>4 DEF WhoseListing, WhoseProperty, Creating, Exists
<1>7. ValidWasRegistered' /\ GateWasPassed'
  BY <1>3, <1>4
     DEF ValidWasRegistered, Registered, GateWasPassed, Creating, ActiveWhereRegistered
<1>8. QED
  BY <1>4, <1>5, <1>6, <1>7, RowsKept

(* The gate of an update, for the state of the property.                    *)
LEMMA ListingGate ==
    ASSUME ListingInv, NEW r \in Requests, Gate(r), UNCHANGED scene
    PROVE  ListingInv'
<1> USE ListingAssumption DEF ListingInv, DeskInv, TypeInv
<1>1. PICK l, s : l = req[r].listing /\ s = StateOf[property_id[l]]
  OBVIOUS
<1>2. /\ pc[r] = "gate" /\ l \in Listings /\ property_id[l] \in Listings
      /\ req[r].property = property_id[l] /\ req[r] \in Request /\ s \in States
  BY <1>1 DEF Gate, WhoseListing, WhoseProperty
<1>3. \/ /\ Registered(s)
         /\ req' = [req EXCEPT ![r].gated = s]
         /\ pc' = [pc EXCEPT ![r] = "apply"]
      \/ Done(r)
  BY <1>1, <1>2 DEF Gate
<1>4. UNCHANGED <<today, valid_until, properties, property_id, status, price,
                  close_price, closed_at, published_at, recorded, registered,
                  torn, undated>>
  BY DEF Gate, columns, history
<1>5. CASE Done(r)
  <2>1. TypeInv'
    BY <1>4, <1>5, NoRequestType DEF Done, Pcs
  <2>2. WhoseListing' /\ WhoseProperty'
    BY <1>4, <1>5 DEF Done, WhoseListing, WhoseProperty, Creating, Exists
  <2>3. ValidWasRegistered' /\ GateWasPassed'
    BY <1>4, <1>5 DEF Done, ValidWasRegistered, Registered, GateWasPassed, Creating
  <2>4. QED
    BY <1>4, <2>1, <2>2, <2>3, RowsKept
<1>6. CASE /\ Registered(s)
           /\ req' = [req EXCEPT ![r].gated = s]
           /\ pc' = [pc EXCEPT ![r] = "apply"]
  <2>1. /\ req'[r] \in Request
        /\ req'[r].listing = l /\ req'[r].property = property_id[l]
        /\ req'[r].status = req[r].status
        /\ \A q \in Requests : q # r => req'[q] = req[q] /\ pc'[q] = pc[q]
        /\ pc'[r] = "apply"
    <3>1. req[r] \in Request /\ s \in States
      BY <1>1, <1>2
    <3>2. /\ req'[r] = [req[r] EXCEPT !.gated = s]
          /\ \A q \in Requests : q # r => req'[q] = req[q] /\ pc'[q] = pc[q]
          /\ pc'[r] = "apply"
      BY <1>6
    <3>3. /\ req'[r] \in Request
          /\ req'[r].listing = req[r].listing /\ req'[r].property = req[r].property
          /\ req'[r].status = req[r].status
      BY <3>1, <3>2 DEF Request
    <3>4. req[r].listing = l /\ req[r].property = property_id[l]
      BY <1>1, <1>2
    <3>5. QED
      BY <3>2, <3>3, <3>4, Zenon
  <2>2. TypeInv'
    <3>1. req' \in [Requests -> Request]
      BY <1>6, <2>1
    <3>2. pc' \in [Requests -> Pcs]
      BY <1>6 DEF Pcs
    <3>3. QED
      BY <1>4, <3>1, <3>2
  <2>3. WhoseListing' /\ WhoseProperty'
    BY <1>1, <1>2, <1>4, <2>1 DEF WhoseListing, WhoseProperty, Creating, Exists
  <2>4. s \in registered
    BY <1>2, <1>6 DEF ValidWasRegistered
  <2>5. ValidWasRegistered' /\ GateWasPassed'
    BY <1>1, <1>4, <2>1, <2>4 DEF ValidWasRegistered, Registered, GateWasPassed, Creating
  <2>6. QED
    BY <1>4, <2>2, <2>3, <2>5, RowsKept
<1>7. QED
  BY <1>3, <1>5, <1>6

(* A request that ends without writing a row.                               *)
LEMMA ListingLetsGo ==
    ASSUME ListingInv, NEW r \in Requests,
           UpdateRejected(r) \/ RecordPrice(r) \/ Crash(r), UNCHANGED scene
    PROVE  ListingInv'
<1> USE ListingAssumption DEF ListingInv, DeskInv, TypeInv
<1>1. /\ Done(r)
      /\ UNCHANGED <<today, valid_until, properties, property_id, status, price,
                     close_price, closed_at, published_at, registered, undated>>
  BY DEF UpdateRejected, RecordPrice, Crash, columns, history
<1>2. TypeInv'
  <2>1. pc[r] = "record" => req[r].listing \in Listings
    BY DEF WhoseListing
  <2>2. torn' \subseteq Listings
    BY <2>1 DEF UpdateRejected, RecordPrice, Crash, columns, history
  <2>3. recorded' \in [Listings -> Prices \cup {None}]
    <3>1. req[r].price \in Prices \cup {None}
      BY DEF Request
    <3>2. QED
      BY <3>1 DEF UpdateRejected, RecordPrice, Crash, columns, history
  <2>4. pc' \in [Requests -> Pcs] /\ req' \in [Requests -> Request]
    BY <1>1, NoRequestType DEF Done, Pcs
  <2>5. QED
    BY <1>1, <2>2, <2>3, <2>4
<1>3. WhoseListing' /\ WhoseProperty'
  BY <1>1 DEF Done, WhoseListing, WhoseProperty, Creating, Exists
<1>4. ValidWasRegistered' /\ GateWasPassed'
  BY <1>1 DEF Done, ValidWasRegistered, Registered, GateWasPassed, Creating
<1>5. QED
  BY <1>1, <1>2, <1>3, <1>4, RowsKept

(* What the UPDATE makes of the closing date.                               *)
LEMMA NewClosedAtIs ==
    ASSUME ListingInv, NEW r \in Requests, NEW l \in Listings
    PROVE  /\ NewClosedAt(r, l) \in Nat \cup {None}
           /\ req[r].status = None => NewClosedAt(r, l) = closed_at[l]
           /\ req[r].status \in Closed => NewClosedAt(r, l) # None
           /\ req[r].status \in Statuses \ Closed => NewClosedAt(r, l) = None
  BY ListingAssumption DEF ListingInv, DeskInv, TypeInv, NewClosedAt, Closed, Statuses

(* The UPDATE of a row writes its status and its closing date together.     *)
LEMMA ListingApply ==
    ASSUME ListingInv, NEW r \in Requests, UpdateApply(r), UNCHANGED scene
    PROVE  ListingInv'
<1> USE ListingAssumption DEF ListingInv, DeskInv, TypeInv
<1>1. PICK l, st : l = req[r].listing /\ st = req[r].status
  OBVIOUS
<1>2. /\ pc[r] = "apply" /\ l \in Listings /\ Exists(l) /\ property_id[l] \in Listings
      /\ st \in Statuses \cup {None}
      /\ st = "ACTIVE" => StateOf[property_id[l]] \in registered
  BY <1>1 DEF UpdateApply, WhoseListing, WhoseProperty, GateWasPassed, Request
<1>3. /\ status' = [status EXCEPT ![l] = NewStatus(r, l)]
      /\ price' = [price EXCEPT ![l] = IF req[r].price = None THEN @ ELSE req[r].price]
      /\ close_price' = [close_price EXCEPT ![l] = NewClosePrice(r, l)]
      /\ closed_at' = [closed_at EXCEPT ![l] = NewClosedAt(r, l)]
      /\ published_at' = [published_at EXCEPT ![l] = NewPublishedAt(r, l)]
      /\ undated' = undated \ {m \in {l} : st # None}
      /\ \/ pc' = [pc EXCEPT ![r] = "record"] /\ req' = req
         \/ Done(r)
      /\ UNCHANGED <<today, valid_until, properties, property_id, recorded, registered,
                     torn>>
  BY <1>1 DEF UpdateApply
<1>4. NewStatus(r, l) = IF st = None THEN status[l] ELSE st
  BY <1>1 DEF NewStatus
<1>5. /\ status'[l] \in Statuses
      /\ \A m \in Listings : m # l =>
            /\ status'[m] = status[m] /\ closed_at'[m] = closed_at[m]
            /\ m \in undated' <=> m \in undated
      /\ \A m \in Listings : Exists(m)' <=> Exists(m)
  BY <1>2, <1>3, <1>4 DEF Exists
<1>6. TypeInv'
  <2>1. close_price' \in [Listings -> BOOLEAN]
    <3>1. NewClosePrice(r, l) \in BOOLEAN
      BY <1>2 DEF NewClosePrice, Request
    <3>2. QED
      BY <1>3, <3>1
  <2>2. published_at' \in [Listings -> Nat \cup {None}]
    BY <1>2, <1>3 DEF NewPublishedAt
  <2>3. closed_at' \in [Listings -> Nat \cup {None}]
    BY <1>2, <1>3, NewClosedAtIs
  <2>4. price' \in [Listings -> Prices \cup {None}]
    BY <1>3 DEF Request
  <2>5. status' \in [Listings -> Statuses \cup {None}] /\ undated' \subseteq Listings
    BY <1>3, <1>5
  <2>6. pc' \in [Requests -> Pcs] /\ req' \in [Requests -> Request]
    BY <1>3, NoRequestType DEF Done, Pcs
  <2>7. QED
    BY <1>3, <2>1, <2>2, <2>3, <2>4, <2>5, <2>6
<1>7. /\ \A q \in Requests : q # r => req'[q] = req[q] /\ pc'[q] = pc[q]
      /\ \/ pc'[r] = "idle"
         \/ pc'[r] = "record" /\ req'[r] = req[r]
  BY <1>3 DEF Done
<1>8. WhoseListing'
  BY <1>1, <1>2, <1>5, <1>7 DEF WhoseListing, Creating, Exists
<1>9. WhoseProperty'
  BY <1>3, <1>5, <1>7 DEF WhoseProperty, Exists
<1>10. ValidWasRegistered' /\ GateWasPassed'
  BY <1>3, <1>7 DEF ValidWasRegistered, Registered, GateWasPassed, Creating
<1>11. ActiveWhereRegistered'
  BY <1>2, <1>3, <1>4, <1>5 DEF ActiveWhereRegistered
<1>12. NoRowNoDate'
  BY <1>2, <1>5 DEF NoRowNoDate, Exists
<1>13. ClosedAtTracksStatus'
  <2>1. closed_at'[l] = NewClosedAt(r, l)
    BY <1>2, <1>3
  <2>2. closed_at'[l] # None <=> status'[l] \in Closed /\ l \notin undated'
    <3>1. CASE st = None
      <4>1. status'[l] = status[l] /\ undated' = undated
        BY <1>2, <1>3, <1>4, <3>1
      <4>2. closed_at'[l] = closed_at[l]
        BY <1>1, <2>1, <3>1 DEF NewClosedAt, Closed, Statuses
      <4>3. QED
        BY <1>2, <4>1, <4>2 DEF ClosedAtTracksStatus
    <3>2. CASE st \in Closed
      BY <1>1, <1>2, <1>3, <1>4, <2>1, <3>2, NewClosedAtIs DEF Closed, Statuses
    <3>3. CASE st \in Statuses \ Closed
      BY <1>1, <1>2, <1>3, <1>4, <2>1, <3>3, NewClosedAtIs
    <3>4. QED
      BY <1>2, <3>1, <3>2, <3>3
  <2>3. QED
    BY <1>5, <2>2 DEF ClosedAtTracksStatus
<1>14. QED
  BY <1>6, <1>8, <1>9, <1>10, <1>11, <1>12, <1>13

(* Every step keeps the invariant.                                          *)
LEMMA ListingStep == ListingInv /\ [Next]_vars => ListingInv'
<1> SUFFICES ASSUME ListingInv, [Next]_vars PROVE ListingInv'
  OBVIOUS
<1>1. CASE UNCHANGED vars
  BY <1>1 DEF vars, columns, history, ListingInv, DeskInv, TypeInv, WhoseListing,
              WhoseProperty, ValidWasRegistered, GateWasPassed, Creating, Exists,
              Registered, ActiveWhereRegistered, NoRowNoDate, ClosedAtTracksStatus
<1>2. CASE UpsertRera /\ UNCHANGED scene
  BY <1>2, ListingRera
<1>3. CASE NextDay /\ UNCHANGED scene
  BY <1>3, ListingNextDay
<1>4. ASSUME NEW r \in Requests, Serve(r), UNCHANGED scene PROVE ListingInv'
  BY <1>4, ListingCreateCheck, ListingProperty, ListingInsert, ListingUpdateRead,
     ListingGate, ListingLetsGo, ListingApply DEF Serve
<1>5. scene.requests \subseteq Requests
  BY ListingAssumption DEF ListingInv, DeskInv, TypeInv, Scene
<1>6. QED
  BY <1>1, <1>2, <1>3, <1>4, <1>5 DEF Next

(* ListingInv is an invariant of the specification.                         *)
LEMMA ListingInvariant == Spec => []ListingInv
<1>1. Init => ListingInv
  BY ListingInit
<1>2. ListingInv /\ [Next]_vars => ListingInv'
  BY ListingStep
<1>3. QED
  BY <1>1, <1>2, PTL DEF Spec

(* However requests overlap, registrations lapse and the server stops, a    *)
(* listing is ACTIVE only where a registration was held.                    *)
THEOREM ActiveOnlyWhereRegistered == Spec => []ActiveWhereRegistered
<1>1. ListingInv => ActiveWhereRegistered
  BY DEF ListingInv
<1>2. QED
  BY <1>1, ListingInvariant, PTL

(* A listing has a closing date exactly while it is closed, unless it was   *)
(* entered that way.                                                        *)
THEOREM ClosingDateTracksStatus == Spec => []ClosedAtTracksStatus
<1>1. ListingInv => ClosedAtTracksStatus
  BY DEF ListingInv
<1>2. QED
  BY <1>1, ListingInvariant, PTL

-----------------------------------------------------------------------------
(* Only the requests of the scene are ever at work.                         *)
OthersIdle == \A r \in Requests \ scene.requests : pc[r] = "idle"

(* One request at a time: the price it read or wrote is the price there is, *)
(* and the history is behind only while it is about to be written.          *)
PricesInTurn ==
    InTurn =>
        /\ \A r \in Requests :
            /\ pc[r] \in {"gate", "apply"} => req[r].wasPrice = price[req[r].listing]
            /\ pc[r] = "record" => req[r].price = price[req[r].listing]
        /\ \A l \in Listings :
            /\ Exists(l) /\ l \notin torn
            /\ \A r \in Requests : pc[r] = "record" => req[r].listing # l
            => recorded[l] = price[l]

(* A listing at a known plot is on a property of that plot.                 *)
PropertyOfPlot ==
    /\ \A l \in Listings : Exists(l) /\ PlotOf[l] # None =>
        property_id[l] \in properties /\ PlotOf[property_id[l]] = PlotOf[l]
    /\ \A r \in Requests : pc[r] = "insert" /\ PlotOf[req[r].listing] # None =>
        req[r].property \in properties /\ PlotOf[req[r].property] = PlotOf[req[r].listing]

(* One request at a time: what findOrCreate did not find is still not there. *)
PlotsInTurn ==
    InTurn =>
        /\ \A p, q \in properties : PlotOf[p] = PlotOf[q] /\ PlotOf[p] # None => p = q
        /\ \A r \in Requests : pc[r] = "property" => SamePlot(req[r].listing) = {}

TurnInv == OthersIdle /\ PricesInTurn /\ PropertyOfPlot /\ PlotsInTurn

(* At the start there is no listing and no request.                         *)
LEMMA TurnInit == Init => TurnInv
  BY DEF Init, TurnInv, OthersIdle, PricesInTurn, PropertyOfPlot, PlotsInTurn, Exists

(* With one request at a time, whoever acts is the only one at work.        *)
LEMMA ActsAlone ==
    ASSUME OthersIdle, InTurn, NEW r \in scene.requests, NEW q \in Requests, q # r
    PROVE  pc[q] = "idle"
  BY DEF OthersIdle, InTurn

(* A step that writes no row of a listing or a property and leaves every    *)
(* other request alone keeps what is said of the rows and of the others.    *)
LEMMA TurnNoRow ==
    ASSUME ListingInv, TurnInv, NEW r \in scene.requests, r \in Requests, UNCHANGED scene,
           UNCHANGED <<properties, property_id, status, price, recorded, torn>>,
           \A q \in Requests : q # r => req'[q] = req[q] /\ pc'[q] = pc[q],
           pc[r] # "record", pc'[r] # "record",
           pc'[r] # "insert", pc'[r] # "property",
           InTurn /\ pc'[r] \in {"gate", "apply"} =>
                req'[r].wasPrice = price[req'[r].listing]
    PROVE  TurnInv'
<1>1. OthersIdle'
  BY DEF TurnInv, OthersIdle
<1>2. PricesInTurn'
  BY DEF TurnInv, PricesInTurn, InTurn, Exists
<1>3. PropertyOfPlot' /\ PlotsInTurn'
  BY DEF TurnInv, PropertyOfPlot, PlotsInTurn, InTurn, SamePlot, Exists
<1>4. QED
  BY <1>1, <1>2, <1>3 DEF TurnInv

(* A request that is refused, checked or begun writes no row.               *)
LEMMA TurnChecks ==
    ASSUME ListingInv, TurnInv, NEW r \in scene.requests, UNCHANGED scene,
           CreateCheck(r) \/ UpdateRead(r) \/ Gate(r) \/ UpdateRejected(r)
    PROVE  TurnInv'
<1> USE ListingAssumption DEF ListingInv, DeskInv, TypeInv
<1>1. r \in Requests
  BY DEF Scene
<1>2. /\ UNCHANGED <<properties, property_id, status, price, recorded, torn>>
      /\ \A q \in Requests : q # r => req'[q] = req[q] /\ pc'[q] = pc[q]
      /\ pc[r] # "record" /\ pc'[r] \in {"idle", "find", "gate", "apply"}
  <2>1. CASE CreateCheck(r)
    <3>1. /\ \E l : req' = [req EXCEPT ![r] = l]
          /\ pc[r] = "idle" /\ pc' = [pc EXCEPT ![r] = "find"]
          /\ UNCHANGED <<properties, property_id, status, price, recorded, torn>>
      BY <2>1, Zenon DEF CreateCheck, columns, history
    <3>2. QED
      BY <1>1, <3>1
  <2>2. CASE UpdateRead(r)
    <3>1. /\ pc[r] = "idle"
          /\ UNCHANGED <<properties, property_id, status, price, recorded, torn>>
      BY <2>2, Zenon DEF UpdateRead, columns, history
    <3>2. PICK l \in Listings, st \in scene.updatedTo \cup {None},
               p \in scene.prices \cup {None}, close \in {"keep", "clear", "set"} :
            /\ Exists(l)
            /\ req' = [req EXCEPT ![r] = [NoRequest EXCEPT
                    !.listing = l, !.property = property_id[l],
                    !.status = st, !.price = p, !.close_price = close,
                    !.was = status[l], !.wasPrice = price[l]]]
            /\ pc' = [pc EXCEPT ![r] = IF NeedsGate(st, status[l]) THEN "gate" ELSE "apply"]
      BY <2>2, Zenon DEF UpdateRead
    <3>3. req' = [req EXCEPT ![r] = AsRead(l, st, p, close, property_id[l], status[l], price[l])]
      BY <3>2, Zenon DEF AsRead
    <3>4. PICK step \in {"gate", "apply"} : pc' = [pc EXCEPT ![r] = step]
      BY <3>2, Zenon
    <3>5. QED
      BY <1>1, <3>1, <3>3, <3>4
  <2>3. CASE Gate(r)
    BY <1>1, <2>3 DEF Gate, Done, columns, history
  <2>4. CASE UpdateRejected(r)
    BY <1>1, <2>4 DEF UpdateRejected, Done, columns, history
  <2>5. QED
    BY <2>1, <2>2, <2>3, <2>4
<1>3. InTurn /\ pc'[r] \in {"gate", "apply"} =>
            req'[r].wasPrice = price[req'[r].listing]
  <2>1. CASE CreateCheck(r) \/ UpdateRejected(r)
    <3>1. pc'[r] \in {"idle", "find"}
      <4>1. \E step \in {"idle", "find"} : pc' = [pc EXCEPT ![r] = step]
        BY <2>1, Zenon DEF CreateCheck, UpdateRejected, Done
      <4>2. QED
        BY <1>1, <4>1
    <3>2. QED
      BY <3>1
  <2>2. CASE UpdateRead(r)
    <3>1. PICK l \in Listings, st \in scene.updatedTo \cup {None},
               p \in scene.prices \cup {None}, close \in {"keep", "clear", "set"} :
            /\ Exists(l)
            /\ req' = [req EXCEPT ![r] = [NoRequest EXCEPT
                    !.listing = l, !.property = property_id[l],
                    !.status = st, !.price = p, !.close_price = close,
                    !.was = status[l], !.wasPrice = price[l]]]
            /\ pc' = [pc EXCEPT ![r] = IF NeedsGate(st, status[l]) THEN "gate" ELSE "apply"]
      BY <2>2 DEF UpdateRead
    <3>2. QED
      BY <1>1, <3>1 DEF NoRequest
  <2>3. CASE Gate(r)
    <3>1. CASE Done(r)
      BY <1>1, <3>1 DEF Done
    <3>2. CASE \E s : req' = [req EXCEPT ![r].gated = s]
      <4>1. /\ req'[r].wasPrice = req[r].wasPrice
            /\ req'[r].listing = req[r].listing
        BY <1>1, <3>2 DEF Request
      <4>2. InTurn => req[r].wasPrice = price[req[r].listing]
        BY <1>1, <2>3 DEF TurnInv, PricesInTurn, Gate
      <4>3. QED
        BY <4>1, <4>2
    <3>3. QED
      BY <2>3, <3>1, <3>2 DEF Gate
  <2>4. QED
    BY <2>1, <2>2, <2>3
<1>4. QED
  BY <1>1, <1>2, <1>3, TurnNoRow

(* The property of a creation is of the plot of its listing.                *)
LEMMA TurnProperty ==
    ASSUME ListingInv, TurnInv, NEW r \in scene.requests, UNCHANGED scene,
           FindProperty(r) \/ InsertProperty(r)
    PROVE  TurnInv'
<1> USE ListingAssumption DEF ListingInv, DeskInv, TypeInv
<1>1. PICK l : l = req[r].listing
  OBVIOUS
<1>2. /\ r \in Requests /\ l \in Listings /\ req[r] \in Request /\ ~Exists(l)
      /\ pc[r] \in {"find", "property"}
  BY <1>1 DEF Scene, FindProperty, InsertProperty, WhoseListing, Creating
<1>3. /\ UNCHANGED <<property_id, status, price, recorded, torn>>
      /\ properties \subseteq properties'
      /\ \A q \in Requests : q # r => req'[q] = req[q] /\ pc'[q] = pc[q]
      /\ req'[r].listing = l /\ pc'[r] \in {"property", "insert"}
  BY <1>1, <1>2 DEF FindProperty, InsertProperty, columns, history, Request
<1>4. OthersIdle'
  BY <1>3 DEF TurnInv, OthersIdle
<1>5. PricesInTurn'
  BY <1>2, <1>3 DEF TurnInv, PricesInTurn, InTurn, Exists
<1>6. CASE FindProperty(r)
  <2>1. CASE SamePlot(l) = {}
    <3>1. UNCHANGED <<properties, req>> /\ pc' = [pc EXCEPT ![r] = "property"]
      BY <1>1, <1>6, <2>1 DEF FindProperty
    <3>2. PropertyOfPlot'
      BY <1>3, <3>1 DEF TurnInv, PropertyOfPlot, Exists
    <3>3. PlotsInTurn'
      BY <1>1, <1>2, <2>1, <3>1 DEF TurnInv, PlotsInTurn, InTurn, SamePlot
    <3>4. QED
      BY <1>4, <1>5, <3>2, <3>3 DEF TurnInv
  <2>2. CASE SamePlot(l) # {}
    <3>1. PICK p \in SamePlot(l) : req' = [req EXCEPT ![r].property = p]
      BY <1>1, <1>6, <2>2 DEF FindProperty
    <3>2. UNCHANGED properties /\ pc' = [pc EXCEPT ![r] = "insert"]
      BY <1>1, <1>6, <2>2 DEF FindProperty
    <3>3. req'[r].property = p /\ p \in properties /\ PlotOf[p] = PlotOf[l]
      BY <1>2, <3>1 DEF SamePlot, Request
    <3>4. PropertyOfPlot'
      BY <1>3, <3>2, <3>3 DEF TurnInv, PropertyOfPlot, Exists
    <3>5. PlotsInTurn'
      BY <1>2, <1>3, <3>2 DEF TurnInv, PlotsInTurn, InTurn, SamePlot
    <3>6. QED
      BY <1>4, <1>5, <3>4, <3>5 DEF TurnInv
  <2>3. QED
    BY <2>1, <2>2
<1>7. CASE InsertProperty(r)
  <2>1. /\ properties' = properties \cup {l} /\ pc'[r] = "insert"
        /\ req'[r].property = l
    BY <1>1, <1>2, <1>7 DEF InsertProperty, Request
  <2>2. PropertyOfPlot'
    BY <1>2, <1>3, <2>1 DEF TurnInv, PropertyOfPlot, Exists
  <2>3. PlotsInTurn'
    <3> SUFFICES ASSUME InTurn
                 PROVE  /\ \A p, q \in properties' :
                            PlotOf[p] = PlotOf[q] /\ PlotOf[p] # None => p = q
                        /\ \A q \in Requests : pc'[q] # "property"
      BY DEF PlotsInTurn, InTurn
    <3>1. \A p \in properties : ~(PlotOf[p] = PlotOf[l] /\ PlotOf[p] # None)
      BY <1>1, <1>2, <1>7 DEF TurnInv, PlotsInTurn, SamePlot, InsertProperty
    <3>2. \A q \in Requests : pc'[q] # "property"
      BY <1>3, <2>1, ActsAlone DEF TurnInv
    <3>3. \A p, q \in properties : PlotOf[p] = PlotOf[q] /\ PlotOf[p] # None => p = q
      BY DEF TurnInv, PlotsInTurn
    <3>4. QED
      BY <2>1, <3>1, <3>2, <3>3
  <2>4. QED
    BY <1>4, <1>5, <2>2, <2>3 DEF TurnInv
<1>8. QED
  BY <1>6, <1>7

(* The insert of a row leaves its opening price to be recorded.             *)
LEMMA TurnInsert ==
    ASSUME ListingInv, TurnInv, NEW r \in scene.requests, UNCHANGED scene,
           CreateListing(r)
    PROVE  TurnInv'
<1> USE ListingAssumption DEF ListingInv, DeskInv, TypeInv
<1>1. PICK l : l = req[r].listing
  OBVIOUS
<1>2. r \in Requests /\ l \in Listings /\ pc[r] = "insert"
  BY <1>1 DEF Scene, CreateListing, WhoseListing, Creating
<1>3. /\ property_id' = [property_id EXCEPT ![l] = req[r].property]
      /\ status' = [status EXCEPT ![l] = req[r].status]
      /\ price' = [price EXCEPT ![l] = req[r].price]
      /\ pc' = [pc EXCEPT ![r] = "record"]
      /\ UNCHANGED <<properties, recorded, req, torn>>
  BY <1>1 DEF CreateListing
<1>4. OthersIdle'
  BY <1>3 DEF TurnInv, OthersIdle
<1>5. PricesInTurn'
  <2> SUFFICES ASSUME InTurn
               PROVE  /\ \A q \in Requests :
                            /\ pc'[q] \notin {"gate", "apply"}
                            /\ pc'[q] = "record" => req'[q].price = price'[req'[q].listing]
                      /\ \A m \in Listings :
                            /\ Exists(m)' /\ m \notin torn'
                            /\ \A q \in Requests : pc'[q] = "record" => req'[q].listing # m
                            => recorded'[m] = price'[m]
    BY DEF PricesInTurn, InTurn
  <2>1. \A q \in Requests : q # r => pc'[q] = "idle"
    BY <1>3, ActsAlone DEF TurnInv
  <2>2. pc'[r] = "record" /\ req'[r].price = price'[l] /\ req'[r].listing = l
    BY <1>1, <1>2, <1>3
  <2>3. ASSUME NEW m \in Listings, m # l, Exists(m)', m \notin torn
        PROVE  recorded'[m] = price'[m]
    <3>1. \A q \in Requests : pc[q] # "record"
      BY <1>2, ActsAlone DEF TurnInv
    <3>2. QED
      BY <1>3, <2>3, <3>1 DEF TurnInv, PricesInTurn, Exists
  <2>4. QED
    BY <1>2, <1>3, <2>1, <2>2, <2>3
<1>6. PropertyOfPlot'
  BY <1>1, <1>2, <1>3 DEF TurnInv, PropertyOfPlot, Exists
<1>7. PlotsInTurn'
  BY <1>3 DEF TurnInv, PlotsInTurn, InTurn, SamePlot
<1>8. QED
  BY <1>4, <1>5, <1>6, <1>7 DEF TurnInv

(* The UPDATE of a row whose price moves leaves it to be recorded.          *)
LEMMA TurnApply ==
    ASSUME ListingInv, TurnInv, NEW r \in scene.requests, UNCHANGED scene,
           UpdateApply(r)
    PROVE  TurnInv'
<1> USE ListingAssumption DEF ListingInv, DeskInv, TypeInv
<1>1. PICK l, p : l = req[r].listing /\ p = req[r].price
  OBVIOUS
<1>2. /\ r \in Requests /\ l \in Listings /\ pc[r] = "apply" /\ Exists(l)
  BY <1>1 DEF Scene, UpdateApply, WhoseListing
<1>3. /\ status' = [status EXCEPT ![l] = NewStatus(r, l)]
      /\ price' = [price EXCEPT ![l] = IF p = None THEN @ ELSE p]
      /\ \/ /\ p # None /\ p # req[r].wasPrice
            /\ pc' = [pc EXCEPT ![r] = "record"] /\ req' = req
         \/ ~(p # None /\ p # req[r].wasPrice) /\ Done(r)
      /\ UNCHANGED <<properties, property_id, recorded, torn>>
  BY <1>1 DEF UpdateApply, Moved
<1>4. /\ \A q \in Requests : q # r => req'[q] = req[q] /\ pc'[q] = pc[q]
      /\ pc'[r] \in {"idle", "record"}
  BY <1>2, <1>3 DEF Done
<1>5. \A m \in Listings : Exists(m)' => Exists(m)
  BY <1>2, <1>3 DEF Exists
<1>6. OthersIdle'
  BY <1>4 DEF TurnInv, OthersIdle
<1>7. PricesInTurn'
  <2> SUFFICES ASSUME InTurn
               PROVE  /\ \A q \in Requests :
                            /\ pc'[q] \notin {"gate", "apply"}
                            /\ pc'[q] = "record" => req'[q].price = price'[req'[q].listing]
                      /\ \A m \in Listings :
                            /\ Exists(m)' /\ m \notin torn'
                            /\ \A q \in Requests : pc'[q] = "record" => req'[q].listing # m
                            => recorded'[m] = price'[m]
    BY DEF PricesInTurn, InTurn
  <2>1. \A q \in Requests : q # r => pc[q] = "idle" /\ pc'[q] = "idle"
    BY <1>4, ActsAlone DEF TurnInv
  <2>2. \A m \in Listings : Exists(m) /\ m \notin torn => recorded[m] = price[m]
    BY <1>2, <2>1 DEF TurnInv, PricesInTurn
  <2>3. req[r].wasPrice = price[l]
    BY <1>1, <1>2 DEF TurnInv, PricesInTurn
  <2>4. CASE p # None /\ p # req[r].wasPrice
    <3>1. pc'[r] = "record" /\ req'[r] = req[r] /\ price'[l] = p
      BY <1>2, <1>3, <2>4
    <3>2. \A m \in Listings : m # l => price'[m] = price[m]
      BY <1>3
    <3>3. QED
      BY <1>1, <1>2, <1>3, <1>5, <2>1, <2>2, <3>1, <3>2
  <2>5. CASE ~(p # None /\ p # req[r].wasPrice)
    <3>1. price' = price /\ pc'[r] = "idle"
      BY <1>2, <1>3, <2>3, <2>5 DEF Done
    <3>2. QED
      BY <1>3, <1>5, <2>1, <2>2, <3>1
  <2>6. QED
    BY <2>4, <2>5
<1>8. PropertyOfPlot'
  BY <1>3, <1>4, <1>5 DEF TurnInv, PropertyOfPlot
<1>9. PlotsInTurn'
  BY <1>3, <1>4 DEF TurnInv, PlotsInTurn, InTurn, SamePlot
<1>10. QED
  BY <1>6, <1>7, <1>8, <1>9 DEF TurnInv

(* The recording brings the history up to date; a crash before it, no more  *)
(* than leaves the listing among those set aside.                           *)
LEMMA TurnRecord ==
    ASSUME ListingInv, TurnInv, NEW r \in scene.requests, UNCHANGED scene,
           RecordPrice(r) \/ Crash(r)
    PROVE  TurnInv'
<1> USE ListingAssumption DEF ListingInv, DeskInv, TypeInv
<1>1. PICK l : l = req[r].listing
  OBVIOUS
<1>2. /\ r \in Requests /\ pc'[r] = "idle"
      /\ UNCHANGED <<properties, property_id, status, price>>
      /\ \A q \in Requests : q # r => req'[q] = req[q] /\ pc'[q] = pc[q]
  BY DEF Scene, RecordPrice, Crash, Done, columns, history
<1>3. OthersIdle'
  BY <1>2 DEF TurnInv, OthersIdle
<1>4. PricesInTurn'
  <2> SUFFICES ASSUME InTurn
               PROVE  /\ \A q \in Requests : pc'[q] = "idle"
                      /\ \A m \in Listings :
                            Exists(m) /\ m \notin torn' => recorded'[m] = price[m]
    BY <1>2 DEF PricesInTurn, InTurn, Exists
  <2>1. \A q \in Requests : q # r => pc[q] = "idle"
    BY ActsAlone DEF TurnInv
  <2>2. ASSUME NEW m \in Listings, Exists(m), m \notin torn, pc[r] = "record" => m # l
        PROVE  recorded[m] = price[m]
    BY <1>1, <2>1, <2>2 DEF TurnInv, PricesInTurn
  <2>3. CASE RecordPrice(r)
    <3>1. /\ pc[r] = "record" /\ l \in Listings /\ torn' = torn \ {l}
          /\ recorded' = [recorded EXCEPT ![l] = req[r].price]
          /\ req[r].price = price[l]
      BY <1>1, <1>2, <2>3 DEF RecordPrice, WhoseListing, TurnInv, PricesInTurn
    <3>2. QED
      BY <1>2, <2>1, <2>2, <3>1
  <2>4. CASE Crash(r)
    <3>1. /\ UNCHANGED recorded
          /\ torn' = IF pc[r] = "record" THEN torn \cup {l} ELSE torn
      BY <1>1, <2>4 DEF Crash
    <3>2. QED
      BY <1>2, <2>1, <2>2, <3>1
  <2>5. QED
    BY <2>3, <2>4
<1>5. PropertyOfPlot' /\ PlotsInTurn'
  BY <1>2 DEF TurnInv, PropertyOfPlot, PlotsInTurn, InTurn, SamePlot, Exists
<1>6. QED
  BY <1>3, <1>4, <1>5 DEF TurnInv

(* Every step keeps the requests in turn.                                   *)
LEMMA TurnStep == ListingInv /\ TurnInv /\ [Next]_vars => TurnInv'
<1> SUFFICES ASSUME ListingInv, TurnInv, [Next]_vars PROVE TurnInv'
  OBVIOUS
<1>1. CASE UNCHANGED vars \/ ((UpsertRera \/ NextDay) /\ UNCHANGED scene)
  <2>1. UNCHANGED <<properties, property_id, status, price, recorded, torn, pc, req, scene>>
    BY <1>1 DEF vars, UpsertRera, NextDay, columns, history
  <2>2. QED
    BY <2>1 DEF TurnInv, OthersIdle, PricesInTurn, PropertyOfPlot, PlotsInTurn,
                InTurn, SamePlot, Exists
<1>2. ASSUME NEW r \in scene.requests, Serve(r), UNCHANGED scene PROVE TurnInv'
  BY <1>2, TurnChecks, TurnProperty, TurnInsert, TurnApply, TurnRecord DEF Serve
<1>3. QED
  BY <1>1, <1>2 DEF Next

(* Both invariants together.                                                *)
LEMMA TurnInvariant == Spec => [](ListingInv /\ TurnInv)
<1>1. Init => TurnInv
  BY TurnInit
<1>2. ListingInv /\ TurnInv /\ [Next]_vars => TurnInv'
  BY TurnStep
<1>3. QED
  BY <1>1, <1>2, ListingInvariant, PTL DEF Spec

(* With one request at a time the history ends in the asking price, unless  *)
(* a crash cut the recording off.                                           *)
THEOREM HistoryEndsInThePrice == Spec => []PriceHistoryIsCurrent
<1>1. TurnInv => PriceHistoryIsCurrent
  BY DEF TurnInv, PricesInTurn, PriceHistoryIsCurrent
<1>2. QED
  BY <1>1, TurnInvariant, PTL

(* With one request at a time two listings of one plot share their property. *)
THEOREM OnePlotOneProperty == Spec => []OnePropertyPerPlot
<1>1. TurnInv => OnePropertyPerPlot
  BY DEF TurnInv, PropertyOfPlot, PlotsInTurn, OnePropertyPerPlot
<1>2. QED
  BY <1>1, TurnInvariant, PTL

-----------------------------------------------------------------------------
(* The staff endpoints publish as ListingPublication says, whatever is      *)
(* entered beside it: every property of listings above is one of theirs.    *)
THEOREM StaffEndpointsPublish == StaffSpec => Spec
<1>1. StaffInit => Init
  BY DEF StaffInit
<1>2. [Publishing \/ Entering]_<<vars, entryVars>> => [Next]_vars
  BY DEF Publishing, Entering
<1>3. QED
  BY <1>1, <1>2, PTL DEF StaffSpec, Spec

(* So what a run of the endpoints checks of listings holds of them all.     *)
THEOREM StaffListingsInOrder ==
    StaffSpec => [](/\ ActiveWhereRegistered /\ ClosedAtTracksStatus
                    /\ PriceHistoryIsCurrent /\ OnePropertyPerPlot)
<1>1. QED
  BY StaffEndpointsPublish, ActiveOnlyWhereRegistered, ClosingDateTracksStatus,
     HistoryEndsInThePrice, OnePlotOneProperty, PTL

-----------------------------------------------------------------------------
(* What is entered, and what is shown of it.                                 *)

(* An area that is stored was either entered whole or not said how.          *)
Complete(payload) ==
    LET input == payload.input IN
    input = Entry!NoInput \/ (input.value \in Nat /\ input.unit \in Entry!Units)

(* The price that is sent is what the form's price comes to.                 *)
Priced(form, paid) ==
    form # None /\ form.price # None =>
        /\ form.price.value \in Nat /\ form.price.unit \in DOMAIN Entry!Multiplier
        /\ paid = form.price.value * Entry!Multiplier[form.price.unit]

PageOK(p) ==
    /\ p = [pc |-> p.pc, form |-> p.form, payload |-> p.payload, property |-> p.property]
    /\ Entry!IsForm(p.form) \/ (p.form = None /\ p.pc # "filling")
    /\ p.pc # "filling" => Entry!IsPayload(p.payload) /\ Priced(p.form, p.payload.price)
    /\ p.pc = "create" => p.property \in DOMAIN property

(* Requests are at a form only where nobody is publishing.                   *)
PagesInv ==
    scene.requests = {} =>
        /\ table \in [Entry!Units -> Nat]
        /\ page = [a \in Requests |-> page[a]] /\ \A a \in Requests : PageOK(page[a])

(* A property is what it was first described as, a listing is of a property  *)
(* and at the price that was typed.                                          *)
Described(row, said) ==
    /\ Entry!IsPayload([said EXCEPT !.price = 0]) /\ Complete(said)
    /\ row = Entry!Row(said)

IsSeq(s) == s \in Seq({s[i] : i \in DOMAIN s})

CatalogInv ==
    /\ IsSeq(property) /\ IsSeq(listing) /\ IsSeq(first) /\ IsSeq(typed)
    /\ Len(first) = Len(property) /\ Len(typed) = Len(listing)
    /\ \A i \in DOMAIN property : Described(property[i], first[i])
    /\ \A i \in DOMAIN listing :
        /\ listing[i] = [property |-> listing[i].property, price |-> listing[i].price]
        /\ listing[i].property \in DOMAIN property /\ listing[i].price \in Nat
        /\ typed[i] # None =>
            /\ typed[i].value \in Nat /\ typed[i].unit \in DOMAIN Entry!Multiplier
            /\ listing[i].price = typed[i].value * Entry!Multiplier[typed[i].unit]

EntryInv == PagesInv /\ CatalogInv

-----------------------------------------------------------------------------
(* Rounding.                                                                 *)

(* A price is printed to within half of the last digit.                      *)
LEMMA RoundingIsClose ==
  ASSUME NEW n \in Nat
  PROVE  LET half == Entry!Step(n) \div 2 IN
         Entry!FormatPriceShort(n) \in (n - half) .. (n + half)
<1> DEFINE Close(s) == s * ((n + s \div 2) \div s) \in (n - s \div 2) .. (n + s \div 2)
<1>1. Close(100)
  OBVIOUS
<1>2. Close(1000)
  OBVIOUS
<1>3. Close(100000)
  OBVIOUS
<1>4. Close(10000000)
  OBVIOUS
<1>5. Entry!Step(n) \in {100, 1000, 100000, 10000000}
  BY DEF Entry!Step, Entry!CRORE, Entry!LAKH
<1> HIDE DEF Close
<1>6. Close(Entry!Step(n))
  BY <1>1, <1>2, <1>3, <1>4, <1>5
<1> QED
  BY <1>6 DEF Close, Entry!FormatPriceShort, Entry!Rounded

(* What multiplies a figure is a number.                                     *)
LEMMA MultipliersAreNumbers ==
  \A u \in DOMAIN Entry!Multiplier : Entry!Multiplier[u] \in Nat
  BY DEF Entry!Multiplier, Entry!LAKH, Entry!CRORE

(* What an area is converted to is a number.                                 *)
LEMMA ConvertedIsANumber ==
  ASSUME NEW value \in Nat, NEW factor \in Nat
  PROVE  Entry!Convert(value, factor) \in Nat
<1>1. PICK m \in Nat : m = value * factor
  OBVIOUS
<1> QED
  BY <1>1 DEF Entry!Convert

(* A form without a mistake makes a payload, at the price typed.             *)
LEMMA FormsMakePayloads ==
  ASSUME NEW form, Entry!IsForm(form), Entry!Errors(form) = {},
         table \in [Entry!Units -> Nat]
  PROVE  Entry!IsPayload(Entry!Payload(form)) /\ Priced(form, Entry!Payload(form).price)
<1> DEFINE p == Entry!Payload(form)
<1>1. "price" \notin Entry!Errors(form) /\ "location" \notin Entry!Errors(form)
  OBVIOUS
<1>2. Entry!ParsePriceInput(form.price) # None /\ form.where # None
  BY <1>1 DEF Entry!Errors
<1>3. /\ form.price # None /\ form.price.unit \in DOMAIN Entry!Multiplier
      /\ form.price.value \in Nat
  BY <1>2 DEF Entry!ParsePriceInput, Entry!IsForm
<1>4. p.price = form.price.value * Entry!Multiplier[form.price.unit]
  BY <1>3 DEF Entry!Payload, Entry!ParsePriceInput
<1>5. p.price \in Nat
  BY <1>3, <1>4, MultipliersAreNumbers
<1>6. p.areas \in [Entry!Bases -> Nat \cup {None}]
  <2> SUFFICES ASSUME NEW b \in Entry!Bases, form.area.value # None
               PROVE  Entry!Convert(form.area.value, table[form.area.unit]) \in Nat
    BY DEF Entry!Payload
  <2>1. form.area.value \in Nat /\ table[form.area.unit] \in Nat
    BY DEF Entry!IsForm
  <2> QED
    BY <2>1, ConvertedIsANumber
<1>7. p.input \in [value : Nat \cup {None}, unit : Entry!Units \cup {None},
                   factor : Nat \cup {None}, basis : Entry!Bases \cup {None}]
  BY DEF Entry!IsForm, Entry!Payload, Entry!NoInput
<1>8. p.where = form.where /\ Entry!IsPlace(form.where)
  BY <1>2 DEF Entry!IsForm, Entry!Payload
<1>9. p = [price |-> p.price, plotNumber |-> p.plotNumber, bedrooms |-> p.bedrooms,
           type |-> p.type, where |-> p.where, areas |-> p.areas, input |-> p.input]
  BY DEF Entry!Payload
<1>10. Entry!IsPayload(p)
  <2> HIDE DEF p
  <2> QED
    BY <1>5, <1>6, <1>7, <1>8, <1>9 DEF Entry!IsPayload
<1> QED
  BY <1>3, <1>4, <1>10 DEF Priced

-----------------------------------------------------------------------------
(* The site.                                                                 *)

(* What is shown of an area is how it was entered.                           *)
LEMMA AreasAreSaidRight ==
  ASSUME NEW row, NEW said, Described(row, said), NEW b \in Entry!Bases
  PROVE  Entry!Formatted(Entry!StoredArea(Entry!AreaDto(row, b))) = Entry!AsEntered(said, b)
<1> DEFINE i == said.input
           whole == [said EXCEPT !.price = 0]
           dto == Entry!AreaDto(row, b)
<1>1. Entry!IsPayload(whole) /\ Complete(said)
  BY DEF Described
<1>2. whole.areas = said.areas /\ whole.input = said.input
  BY <1>1 DEF Entry!IsPayload
<1>3. /\ said.areas \in [Entry!Bases -> Nat \cup {None}]
      /\ i \in [value : Nat \cup {None}, unit : Entry!Units \cup {None},
                factor : Nat \cup {None}, basis : Entry!Bases \cup {None}]
  BY <1>1, <1>2 DEF Entry!IsPayload
<1>4. row.areas = said.areas /\ row.input = i
  BY DEF Described, Entry!Row
<1>5. CASE said.areas[b] = None
  BY <1>4, <1>5 DEF Entry!AreaDto, Entry!StoredArea, Entry!Formatted, Entry!AsEntered
<1>6. CASE said.areas[b] \in Nat
  <2>1. said.areas[b] # None
    BY <1>6, EntryAssumption
  <2>2. CASE i.basis = b
    <3> DEFINE d == [value |-> i.value, unit |-> i.unit, factor |-> i.factor,
                     sqft |-> said.areas[b]]
    <3>1. i.value \in Nat /\ i.unit \in Entry!Units
      BY <1>1, <2>2, EntryAssumption DEF Complete, Entry!NoInput
    <3>2. None \notin {i.value, i.unit}
      BY <3>1, EntryAssumption
    <3>3. dto = d
      BY <1>4, <2>1, <2>2, <3>2 DEF Entry!AreaDto
    <3>4. d # None
      BY <1>3, <1>6, EntryAssumption DEF Entry!Dtos
    <3>5. Entry!StoredArea(d) = d
      BY <3>2, <3>4 DEF Entry!StoredArea
    <3>6. Entry!Formatted(d) = [figure |-> <<i.value, i.unit>>, sqft |-> said.areas[b]]
      BY <3>4 DEF Entry!Formatted
    <3>7. Entry!AsEntered(said, b) = [figure |-> <<i.value, i.unit>>, sqft |-> said.areas[b]]
      BY <2>1, <2>2 DEF Entry!AsEntered
    <3> QED
      BY <3>3, <3>5, <3>6, <3>7
  <2>3. CASE i.basis # b
    <3> DEFINE d == [value |-> None, unit |-> None, factor |-> None, sqft |-> said.areas[b]]
               c == [value |-> said.areas[b], unit |-> "SQ_FT", factor |-> 100,
                     sqft |-> said.areas[b]]
    <3>1. dto = d
      BY <1>4, <2>1, <2>3 DEF Entry!AreaDto, Entry!NoInput
    <3>2. d # None /\ c # None
      BY <1>6, EntryAssumption DEF Entry!Dtos, Entry!Units, Entry!SQ_FT_PER_UNIT
    <3>3. Entry!StoredArea(d) = c
      BY <3>2 DEF Entry!StoredArea
    <3>4. Entry!Formatted(c) = [figure |-> <<said.areas[b], "SQ_FT">>, sqft |-> said.areas[b]]
      BY <3>2 DEF Entry!Formatted
    <3>5. Entry!AsEntered(said, b) = [figure |-> <<said.areas[b], "SQ_FT">>,
                                      sqft |-> said.areas[b]]
      BY <2>1, <2>3 DEF Entry!AsEntered
    <3> QED
      BY <3>1, <3>3, <3>4, <3>5
  <2> QED
    BY <2>2, <2>3
<1> QED
  BY <1>3, <1>5, <1>6

(* What a page says of a listing.                                            *)
LEMMA PageShows ==
  ASSUME NEW l
  PROVE  LET row == property[l.property]
             area == [b \in Entry!Bases |-> Entry!Formatted(Entry!StoredArea(Entry!AreaDto(row, b)))]
             shown == Entry!DetailPage(l)
         IN /\ shown.price = Entry!FormatPriceShort(l.price) /\ shown.lat = row.point.y
            /\ shown.lng = row.point.x /\ shown.bedrooms = row.bedrooms /\ shown.area = area
            /\ shown.headline = IF row.type \in Entry!LandTypes /\ area["PLOT"] # None
                                THEN area["PLOT"].figure ELSE None
<1> DEFINE row == property[l.property]
           area == [b \in Entry!Bases |-> Entry!Formatted(Entry!StoredArea(Entry!AreaDto(row, b)))]
           headline == IF row.type \in Entry!LandTypes /\ area["PLOT"] # None
                       THEN area["PLOT"].figure ELSE None
<1>1. Entry!DetailPage(l) =
        [price |-> Entry!FormatPriceShort(l.price), lat |-> row.point.y, lng |-> row.point.x,
         bedrooms |-> row.bedrooms, area |-> area, headline |-> headline]
  BY Zenon DEF Entry!DetailPage
<1> HIDE DEF row, area, headline
<1>2. /\ Entry!DetailPage(l).price = Entry!FormatPriceShort(l.price)
      /\ Entry!DetailPage(l).lat = row.point.y /\ Entry!DetailPage(l).lng = row.point.x
      /\ Entry!DetailPage(l).bedrooms = row.bedrooms
      /\ Entry!DetailPage(l).area = area /\ Entry!DetailPage(l).headline = headline
  BY <1>1
<1> QED
  BY <1>2, Zenon DEF row, area, headline

(* The area on a card is the figure of one of the areas of the property.     *)
LEMMA CardShowsAnArea ==
  ASSUME NEW l, Entry!Card(l).area # None
  PROVE  LET row == property[l.property]
             area == [b \in Entry!Bases |-> Entry!Formatted(Entry!StoredArea(Entry!AreaDto(row, b)))]
         IN \E b \in Entry!Bases : area[b] # None /\ area[b].figure = Entry!Card(l).area
<1> DEFINE row == property[l.property]
           area == [b \in Entry!Bases |-> Entry!Formatted(Entry!StoredArea(Entry!AreaDto(row, b)))]
           order == IF row.type \in Entry!LandTypes THEN <<"PLOT">>
                    ELSE <<"CARPET", "BUILT_UP", "PLOT">>
           known == {i \in DOMAIN order : area[order[i]] # None}
           least == CHOOSE i \in known : \A j \in known : i <= j
<1>1. Entry!Card(l).area = IF known = {} THEN None ELSE area[order[least]].figure
  <2>1. Entry!Card(l) = [price |-> Entry!FormatPriceShort(l.price),
                area |-> IF known = {} THEN None ELSE area[order[least]].figure]
    BY Zenon DEF Entry!Card
  <2> HIDE DEF known, least, order, area
  <2> QED
    BY <2>1
<1>2. known # {}
  BY <1>1, Zenon
<1>3. DOMAIN order \subseteq 1..3 /\ \A i \in DOMAIN order : order[i] \in Entry!Bases
  BY DEF Entry!Bases
<1>4. known \subseteq {1, 2, 3}
  BY <1>3
<1> HIDE DEF known, order
<1>5. \E i \in known : \A j \in known : i <= j
  <2>1. CASE 1 \in known
    BY <1>4, <2>1
  <2>2. CASE 1 \notin known /\ 2 \in known
    BY <1>4, <2>2
  <2>3. CASE known = {3}
    BY <2>3
  <2> QED
    BY <1>2, <1>4, <2>1, <2>2, <2>3
<1>6. least \in known
  BY <1>5
<1>7. order[least] \in Entry!Bases /\ area[order[least]] # None
  BY <1>3, <1>6 DEF known
<1>8. Entry!Card(l).area = area[order[least]].figure
  BY <1>1, <1>2
<1> HIDE DEF least, area
<1>9. area[order[least]] # None /\ area[order[least]].figure = Entry!Card(l).area
  BY <1>7, <1>8, Zenon
<1>10. \E b \in Entry!Bases : area[b] # None /\ area[b].figure = Entry!Card(l).area
  BY <1>7, <1>9
<1> QED
  BY <1>10, Zenon DEF area

(* What page and card say of a listing whose property was entered as `said'. *)
SaysRight(said, shown, card, money) ==
    /\ money # None => Entry!Says(shown.price, money)
    /\ [lat |-> shown.lat, lng |-> shown.lng] = said.where
    /\ shown.bedrooms = said.bedrooms
    /\ \A b \in Entry!Bases : shown.area[b] = Entry!AsEntered(said, b)
    /\ card.price = shown.price
    /\ \A size \in {card.area, shown.headline} \ {None} :
        \E b \in Entry!Bases : shown.area[b] # None /\ shown.area[b].figure = size

(* Page and card say of every listing what was entered.                      *)
LEMMA EntriesAreShown == CatalogInv => ShownAsEntered
<1> SUFFICES ASSUME CatalogInv, NEW n \in DOMAIN listing
             PROVE  SaysRight(first[listing[n].property], Entry!DetailPage(listing[n]),
                              Entry!Card(listing[n]), typed[n])
  BY Zenon DEF ShownAsEntered, Entry!ShownAsEntered, SaysRight
<1> PICK l : l = listing[n]
  OBVIOUS
<1> PICK said, shown, card :
        said = first[l.property] /\ shown = Entry!DetailPage(l) /\ card = Entry!Card(l)
  OBVIOUS
<1> DEFINE row == property[l.property]
<1>1. l.property \in DOMAIN property /\ l.price \in Nat /\ Described(row, said)
  BY DEF CatalogInv
<1> DEFINE area == [b \in Entry!Bases |-> Entry!Formatted(Entry!StoredArea(Entry!AreaDto(row, b)))]
<1>2. /\ shown.price = Entry!FormatPriceShort(l.price) /\ shown.lat = row.point.y
      /\ shown.lng = row.point.x /\ shown.bedrooms = row.bedrooms /\ shown.area = area
      /\ shown.headline = IF row.type \in Entry!LandTypes /\ area["PLOT"] # None
                          THEN area["PLOT"].figure ELSE None
  BY PageShows
<1>3. card.price = shown.price
  BY <1>2, Zenon DEF Entry!Card
<1>4. \A b \in Entry!Bases : shown.area[b] = Entry!AsEntered(said, b)
  BY <1>1, <1>2, AreasAreSaidRight
<1>5. ASSUME typed[n] # None PROVE Entry!Says(shown.price, typed[n])
  <2>1. l.price = typed[n].value * Entry!Multiplier[typed[n].unit]
    BY <1>5 DEF CatalogInv
  <2> QED
    BY <1>1, <1>2, <2>1, RoundingIsClose DEF Entry!Says
<1>6. [lat |-> shown.lat, lng |-> shown.lng] = said.where /\ shown.bedrooms = said.bedrooms
  <2>1. said.where = [lat |-> said.where.lat, lng |-> said.where.lng]
    BY <1>1 DEF Described, Entry!IsPayload, Entry!IsPlace
  <2>2. /\ row.point = [x |-> said.where.lng, y |-> said.where.lat]
        /\ row.bedrooms = said.bedrooms
    BY <1>1 DEF Described, Entry!Row
  <2> HIDE DEF row
  <2> QED
    BY <1>2, <2>1, <2>2
<1>7. ASSUME shown.headline # None
      PROVE  \E b \in Entry!Bases : area[b] # None /\ area[b].figure = shown.headline
  BY <1>2, <1>7 DEF Entry!Bases
<1>8. ASSUME card.area # None
      PROVE  \E b \in Entry!Bases : area[b] # None /\ area[b].figure = card.area
  BY <1>8, CardShowsAnArea
<1> HIDE DEF area, row
<1>9. SaysRight(said, shown, card, typed[n])
  <2>1. \A size \in {card.area, shown.headline} \ {None} :
           \E b \in Entry!Bases : shown.area[b] # None /\ shown.area[b].figure = size
    <3>1. shown.area = area
      BY <1>2
    <3> QED
      BY <1>7, <1>8, <3>1, Zenon
  <2> QED
    BY <1>3, <1>4, <1>5, <1>6, <2>1, Zenon DEF SaysRight
<1> QED
  BY <1>9, Zenon

-----------------------------------------------------------------------------
(* Sequences.                                                                *)

(* A sequence after something was appended to it.                            *)
LEMMA Appended ==
  ASSUME NEW s, IsSeq(s), NEW e
  PROVE  /\ IsSeq(Append(s, e)) /\ Len(Append(s, e)) = Len(s) + 1 /\ Len(s) \in Nat
         /\ DOMAIN s = 1..Len(s) /\ DOMAIN Append(s, e) = DOMAIN s \cup {Len(s) + 1}
         /\ \A i \in DOMAIN s : Append(s, e)[i] = s[i]
         /\ Append(s, e)[Len(s) + 1] = e
<1> DEFINE S == {s[i] : i \in DOMAIN s} \cup {e}
           t == Append(s, e)
<1>1. s \in Seq(S) /\ e \in S
  <2>1. s \in Seq({s[i] : i \in DOMAIN s})
    BY DEF IsSeq
  <2>2. {s[i] : i \in DOMAIN s} \subseteq S
    OBVIOUS
  <2> HIDE DEF S
  <2>3. s \in Seq(S)
    BY <2>1, <2>2, SeqMonotonic
  <2> QED
    BY <2>3 DEF S
<1> HIDE DEF S
<1>2. /\ t \in Seq(S) /\ Len(t) = Len(s) + 1
      /\ \A i \in 1..Len(s) : t[i] = s[i]
      /\ t[Len(s) + 1] = e
  BY <1>1, AppendProperties
<1>3. /\ Len(s) \in Nat /\ DOMAIN s = 1..Len(s) /\ DOMAIN t = 1..Len(t)
      /\ t \in [1..Len(t) -> S]
  BY <1>1, <1>2, LenProperties
<1> HIDE DEF t
<1>4. t \in Seq({t[i] : i \in DOMAIN t})
  <2>1. Len(t) \in Nat
    BY <1>2, <1>3
  <2>2. t \in [1..Len(t) -> {t[i] : i \in DOMAIN t}]
    BY <1>3
  <2> QED
    BY <2>1, <2>2, SeqDef
<1>5. DOMAIN t = DOMAIN s \cup {Len(s) + 1}
  BY <1>2, <1>3
<1> QED
  BY <1>2, <1>3, <1>4, <1>5 DEF IsSeq, t

(* Nothing is an empty sequence of anything.                                 *)
LEMMA NothingIsASequence == IsSeq(<< >>) /\ Len(<< >>) = 0 /\ DOMAIN << >> = {}
  BY EmptySeq DEF IsSeq

-----------------------------------------------------------------------------
(* The steps.                                                                *)

(* Every conversion table is one of numbers.                                 *)
LEMMA TablesAreNumbers ==
  Entry!SQ_FT_PER_UNIT \in [Entry!Units -> Nat] /\ Entry!Corrected \in [Entry!Units -> Nat]
<1> DEFINE f == Entry!SQ_FT_PER_UNIT
<1>1. Entry!Units = {"SQ_FT", "SQ_YD", "MARLA", "KANAL", "ACRE", "BIGHA"}
  BY DEF Entry!Units, Entry!SQ_FT_PER_UNIT
<1>2. /\ f["SQ_FT"] \in Nat /\ f["SQ_YD"] \in Nat /\ f["MARLA"] \in Nat
      /\ f["KANAL"] \in Nat /\ f["ACRE"] \in Nat /\ f["BIGHA"] \in Nat
  BY DEF Entry!SQ_FT_PER_UNIT
<1>3. f = [u \in Entry!Units |-> f[u]]
  BY DEF Entry!Units, Entry!SQ_FT_PER_UNIT
<1> HIDE DEF f
<1>4. f \in [Entry!Units -> Nat]
  BY <1>1, <1>2, <1>3
<1>5. Entry!Corrected \in [Entry!Units -> Nat]
  <2> DEFINE g == [f EXCEPT !.MARLA = 22500]
  <2>1. g \in [Entry!Units -> Nat]
    BY <1>4
  <2>2. Entry!Corrected = [g EXCEPT !.KANAL = 450000]
    BY DEF f, Entry!Corrected
  <2> HIDE DEF g
  <2> QED
    BY <2>1, <2>2
<1> QED
  BY <1>4, <1>5 DEF f

(* A blank form is one that can be typed.                                    *)
LEMMA BlankIsAForm == Entry!IsForm(Entry!Blank)
<1>1. "MARLA" \in Entry!Units /\ "PLOT" \in Entry!Bases
  BY DEF Entry!Units, Entry!SQ_FT_PER_UNIT, Entry!Bases
<1>2. Entry!Blank.area \in [value : Nat \cup {None}, unit : Entry!Units, basis : Entry!Bases]
  BY <1>1 DEF Entry!Blank
<1>3. Entry!Blank.where # None => Entry!IsPlace(Entry!Blank.where)
  BY EntryAssumption DEF Entry!Blank
<1>4. Entry!Blank.price = None
  BY DEF Entry!Blank
<1> QED
  BY <1>2, <1>3, <1>4 DEF Entry!IsForm, Entry!Blank

(* So is a form that React has reset.                                        *)
LEMMA ResetIsAForm ==
  ASSUME NEW form, Entry!IsForm(form)
  PROVE  Entry!IsForm(Entry!AfterReset(form))
<1>1. Entry!AfterReset(form).price = form.price
  BY DEF Entry!AfterReset, Entry!Blank
<1>2. Entry!AfterReset(form) = [price |-> form.price, area |-> Entry!Blank.area,
        plotNumber |-> Entry!Blank.plotNumber, bedrooms |-> Entry!Blank.bedrooms,
        type |-> Entry!Blank.type, where |-> Entry!Blank.where]
  BY DEF Entry!AfterReset, Entry!Blank
<1> QED
  BY <1>2, BlankIsAForm DEF Entry!IsForm

(* A page that is filled in.                                                 *)
LEMMA FillingIsOK ==
  ASSUME NEW form, Entry!IsForm(form)
  PROVE  PageOK([Entry!Fresh EXCEPT !.form = form]) /\ PageOK(Entry!Fresh)
  BY BlankIsAForm DEF PageOK, Entry!Fresh

(* A client moves; the catalog stays.                                        *)
LEMMA PageMovesOn ==
  ASSUME EntryInv, NEW a \in Requests, NEW p, page' = [page EXCEPT ![a] = p],
         UNCHANGED <<scene, table, property, listing, first, typed>>,
         scene.requests = {} => PageOK(p)
  PROVE  EntryInv'
<1>1. CatalogInv'
  BY DEF EntryInv, CatalogInv
<1>2. ASSUME scene.requests = {} PROVE PagesInv'
  <2>1. page = [x \in Requests |-> page[x]] /\ \A x \in Requests : PageOK(page[x])
    BY <1>2 DEF EntryInv, PagesInv
  <2>2. page' = [x \in Requests |-> page'[x]]
    BY <2>1
  <2>3. ASSUME NEW x \in Requests PROVE PageOK(page[x])'
    <3>1. PageOK(page'[x])
      BY <1>2, <2>1
    <3> QED
      BY <3>1 DEF PageOK
  <2> QED
    BY <1>2, <2>2, <2>3 DEF EntryInv, PagesInv
<1> QED
  BY <1>1, <1>2 DEF EntryInv, PagesInv

(* Forms, requests that are refused or lost, and the search for a plot.      *)
LEMMA PagesStep ==
  ASSUME EntryInv, scene.requests = {}, UNCHANGED scene, NEW a \in Requests,
         \/ \E form \in Entry!OnPage(a) : Entry!Rejected(a, form) \/ Entry!Submit(a, form)
         \/ \E payload \in Payloads : Entry!Post(a, payload)
         \/ Entry!Refused(a) \/ Entry!Find(a) \/ Entry!Crash(a)
  PROVE  EntryInv'
<1>1. /\ table \in [Entry!Units -> Nat] /\ PageOK(page[a])
      /\ page = [x \in Requests |-> page[x]]
  BY DEF EntryInv, PagesInv
<1> DEFINE Moves(p) == page' = [page EXCEPT ![a] = p]
           Still == UNCHANGED <<scene, table, property, listing, first, typed>>
<1>2. ASSUME NEW form \in Entry!OnPage(a), Entry!At(a, "filling") PROVE Entry!IsForm(form)
  BY <1>1, <1>2, EntryAssumption DEF Entry!OnPage, Entry!At, PageOK
<1>3. ASSUME NEW form \in Entry!OnPage(a), Entry!Rejected(a, form) PROVE EntryInv'
  <2> DEFINE p == [page[a] EXCEPT !.form = Entry!AfterReset(form)]
  <2>1. Moves(p) /\ Still /\ page[a].pc = "filling"
    BY <1>3 DEF Entry!Rejected, Entry!At, Entry!Stays, Entry!catalog
  <2>2. Entry!IsForm(Entry!AfterReset(form))
    BY <1>2, <1>3, ResetIsAForm DEF Entry!Rejected
  <2>3. PageOK(p)
    BY <1>1, <2>1, <2>2 DEF PageOK
  <2> QED
    BY <2>1, <2>3, PageMovesOn
<1>4. ASSUME NEW form \in Entry!OnPage(a), Entry!Submit(a, form) PROVE EntryInv'
  <2> PICK q : q = Entry!Payload(form)
    OBVIOUS
  <2> DEFINE p == Entry!Posted(form, q)
  <2>1. Moves(p) /\ Still /\ Entry!Errors(form) = {}
    BY <1>4 DEF Entry!Submit, Entry!Stays, Entry!catalog
  <2>2. Entry!IsForm(form) /\ Entry!IsPayload(q) /\ Priced(form, q.price)
    BY <1>1, <1>2, <1>4, <2>1, FormsMakePayloads DEF Entry!Submit
  <2>3. PageOK(p)
    BY <2>2 DEF PageOK, Entry!Posted
  <2> QED
    BY <2>1, <2>3, PageMovesOn
<1>5. ASSUME NEW q \in Payloads, Entry!Post(a, q) PROVE EntryInv'
  <2> DEFINE p == Entry!Posted(None, q)
  <2>1. Moves(p) /\ Still
    BY <1>5 DEF Entry!Post, Entry!Stays, Entry!catalog
  <2>2. PageOK(p)
    BY EntryAssumption DEF PageOK, Priced, Entry!Posted
  <2> QED
    BY <2>1, <2>2, PageMovesOn
<1>6. ASSUME Entry!Refused(a) PROVE EntryInv'
  <2> DEFINE p == IF page[a].form = None THEN Entry!Fresh
                  ELSE [Entry!Fresh EXCEPT !.form = Entry!AfterReset(page[a].form)]
  <2>1. Moves(p) /\ Still
    BY <1>6 DEF Entry!Refused, Entry!Stays, Entry!catalog
  <2>2. PageOK(p)
    <3>1. CASE page[a].form = None
      BY <3>1, BlankIsAForm, FillingIsOK
    <3>2. CASE page[a].form # None
      <4>1. Entry!IsForm(Entry!AfterReset(page[a].form))
        BY <1>1, <3>2, ResetIsAForm DEF PageOK
      <4> QED
        BY <3>2, <4>1, FillingIsOK
    <3> QED
      BY <3>1, <3>2
  <2> QED
    BY <2>1, <2>2, PageMovesOn
<1>7. ASSUME Entry!Find(a) PROVE EntryInv'
  <2>1. Still /\ page[a].pc = "sent"
    BY <1>7 DEF Entry!Find, Entry!At, Entry!Stays, Entry!catalog
  <2>2. CASE Moves([page[a] EXCEPT !.pc = "insert"])
    <3>1. PageOK([page[a] EXCEPT !.pc = "insert"])
      BY <1>1, <2>1 DEF PageOK
    <3> QED
      BY <2>1, <2>2, <3>1, PageMovesOn
  <2>3. ASSUME NEW i \in DOMAIN property,
               Moves(Entry!About(a, i))
        PROVE  EntryInv'
    <3>1. PageOK(Entry!About(a, i))
      BY <1>1, <2>1 DEF PageOK, Entry!About
    <3> QED
      BY <2>1, <2>3, <3>1, PageMovesOn
  <2> QED
    BY <1>7, <2>2, <2>3 DEF Entry!Find, Entry!SamePlot
<1>8. ASSUME Entry!Crash(a) PROVE EntryInv'
  <2>1. Moves(Entry!Fresh) /\ Still
    BY <1>8 DEF Entry!Crash, Entry!Stays, Entry!catalog
  <2> QED
    BY <2>1, BlankIsAForm, FillingIsOK, PageMovesOn
<1> QED
  BY <1>3, <1>4, <1>5, <1>6, <1>7, <1>8

(* A property is inserted: it is what the request says.                      *)
LEMMA InsertStep ==
  ASSUME EntryInv, scene.requests = {}, UNCHANGED scene, NEW a \in Requests, Entry!Insert(a)
  PROVE  EntryInv'
<1> PICK q : q = page[a].payload
  OBVIOUS
<1> DEFINE row == Entry!Row(q)
           said == [q EXCEPT !.price = None]
           n == Len(property) + 1
<1>1. /\ PageOK(page[a]) /\ page = [x \in Requests |-> page[x]]
      /\ \A x \in Requests : PageOK(page[x])
  BY DEF EntryInv, PagesInv
<1>2. /\ page[a].pc = "insert" /\ Entry!Storable(q)
      /\ property' = Append(property, row) /\ first' = Append(first, said)
      /\ page' = [page EXCEPT ![a] = Entry!About(a, n)]
      /\ UNCHANGED <<table, listing, typed>>
  BY DEF Entry!Insert, Entry!At
<1>3. Entry!IsPayload(q) /\ Priced(page[a].form, q.price)
  BY <1>1, <1>2 DEF PageOK
<1>4. Complete(q)
  <2> DEFINE absent == {k \in DOMAIN q.input : q.input[k] = None}
  <2>1. /\ q.input = [value |-> q.input.value, unit |-> q.input.unit,
                      factor |-> q.input.factor, basis |-> q.input.basis]
        /\ q.input.value \in Nat \cup {None} /\ q.input.unit \in Entry!Units \cup {None}
    BY <1>3 DEF Entry!IsPayload
  <2>2. absent = {} \/ absent = DOMAIN q.input
    BY <1>2 DEF Entry!Storable
  <2>3. DOMAIN q.input = {"value", "unit", "factor", "basis"}
    BY <2>1
  <2>4. CASE absent = {}
    <3>1. q.input.value # None /\ q.input.unit # None
      BY <2>3, <2>4
    <3> QED
      BY <2>1, <3>1 DEF Complete
  <2>5. CASE absent = DOMAIN q.input
    <3>1. /\ q.input.value = None /\ q.input.unit = None
          /\ q.input.factor = None /\ q.input.basis = None
      BY <2>3, <2>5
    <3> QED
      BY <2>1, <3>1 DEF Complete, Entry!NoInput
  <2> QED
    BY <2>2, <2>4, <2>5
<1>5. Described(row, said)
  <2>1. /\ said.plotNumber = q.plotNumber /\ said.bedrooms = q.bedrooms /\ said.type = q.type
        /\ said.where = q.where /\ said.areas = q.areas /\ said.input = q.input
    BY <1>3 DEF Entry!IsPayload
  <2>2. row = Entry!Row(said)
    BY <2>1 DEF Entry!Row
  <2>3. Complete(said)
    BY <1>4, <2>1 DEF Complete
  <2>4. [said EXCEPT !.price = 0] =
            [price |-> 0, plotNumber |-> q.plotNumber, bedrooms |-> q.bedrooms, type |-> q.type,
             where |-> q.where, areas |-> q.areas, input |-> q.input]
    <3>1. said = [price |-> None, plotNumber |-> q.plotNumber, bedrooms |-> q.bedrooms,
                  type |-> q.type, where |-> q.where, areas |-> q.areas, input |-> q.input]
      BY <1>3 DEF Entry!IsPayload
    <3> HIDE DEF said
    <3> QED
      BY <3>1
  <2>5. Entry!IsPayload([said EXCEPT !.price = 0])
    BY <1>3, <2>4 DEF Entry!IsPayload
  <2> QED
    BY <2>2, <2>3, <2>5 DEF Described
<1> HIDE DEF row, said
<1>6. /\ IsSeq(property') /\ Len(property') = n /\ Len(property) \in Nat
      /\ DOMAIN property' = DOMAIN property \cup {n}
      /\ \A i \in DOMAIN property : property'[i] = property[i]
      /\ property'[n] = row /\ DOMAIN property = 1..Len(property)
  BY <1>2, Appended DEF EntryInv, CatalogInv
<1>7. /\ IsSeq(first') /\ Len(first') = n /\ Len(first) = Len(property)
      /\ DOMAIN first = 1..Len(first)
      /\ \A i \in DOMAIN first : first'[i] = first[i]
      /\ first'[n] = said
  BY <1>2, Appended DEF EntryInv, CatalogInv
<1>8. CatalogInv'
  <2>1. ASSUME NEW i \in DOMAIN property' PROVE Described(property'[i], first'[i])
    <3>1. CASE i = n
      BY <1>5, <1>6, <1>7, <3>1
    <3>2. CASE i \in DOMAIN property
      <4>1. property'[i] = property[i] /\ first'[i] = first[i]
        BY <1>6, <1>7, <3>2
      <4> QED
        BY <3>2, <4>1 DEF EntryInv, CatalogInv
    <3> QED
      BY <1>6, <3>1, <3>2
  <2>2. (\A i \in DOMAIN property : Described(property[i], first[i]))'
    BY <2>1
  <2>3. /\ IsSeq(property)' /\ IsSeq(first)' /\ IsSeq(listing)' /\ IsSeq(typed)'
        /\ Len(first') = Len(property') /\ Len(typed') = Len(listing')
    <3>1. IsSeq(property)' /\ IsSeq(first)' /\ Len(first') = Len(property')
      BY <1>6, <1>7
    <3> QED
      BY <1>2, <3>1 DEF EntryInv, CatalogInv
  <2>4. DOMAIN property \subseteq DOMAIN property'
    BY <1>6
  <2> QED
    BY <1>2, <2>2, <2>3, <2>4 DEF EntryInv, CatalogInv
<1>9. ASSUME NEW x \in Requests PROVE PageOK(page[x])'
  <2>1. CASE x = a
    <3>1. page'[x] = [pc |-> "create", form |-> page[a].form, payload |-> q, property |-> n]
      BY <1>1, <1>2, <2>1 DEF Entry!About
    <3>2. n \in DOMAIN property'
      BY <1>6
    <3>3. Entry!IsForm(page[a].form) \/ page[a].form = None
      BY <1>1 DEF PageOK
    <3> QED
      BY <1>3, <3>1, <3>2, <3>3 DEF PageOK
  <2>2. CASE x # a
    <3>1. page'[x] = page[x] /\ PageOK(page[x])
      BY <1>1, <1>2, <2>2
    <3>2. DOMAIN property \subseteq DOMAIN property'
      BY <1>6
    <3> QED
      BY <3>1, <3>2 DEF PageOK
  <2> QED
    BY <2>1, <2>2
<1>10. page' = [x \in Requests |-> page'[x]]
  BY <1>1, <1>2
<1> QED
  BY <1>2, <1>8, <1>9, <1>10 DEF EntryInv, PagesInv

(* A listing is inserted, of the property found, at the price typed.         *)
LEMMA CreateStep ==
  ASSUME EntryInv, scene.requests = {}, UNCHANGED scene, NEW a \in Requests, Entry!Create(a)
  PROVE  EntryInv'
<1> PICK p : p = page[a]
  OBVIOUS
<1> DEFINE row == [property |-> p.property, price |-> p.payload.price]
           raw == IF p.form = None THEN None ELSE p.form.price
           n == Len(listing) + 1
<1>1. /\ PageOK(p) /\ page = [x \in Requests |-> page[x]]
      /\ \A x \in Requests : PageOK(page[x])
  BY DEF EntryInv, PagesInv
<1>2. /\ p.pc = "create" /\ listing' = Append(listing, row) /\ typed' = Append(typed, raw)
      /\ page' = [page EXCEPT ![a] = Entry!Fresh]
      /\ UNCHANGED <<table, property, first>>
  BY DEF Entry!Create, Entry!At
<1>3. /\ Entry!IsPayload(p.payload) /\ Priced(p.form, p.payload.price)
      /\ p.property \in DOMAIN property
  BY <1>1, <1>2 DEF PageOK
<1>4. p.payload.price \in Nat
  BY <1>3 DEF Entry!IsPayload
<1>5. raw # None =>
        /\ raw.value \in Nat /\ raw.unit \in DOMAIN Entry!Multiplier
        /\ row.price = raw.value * Entry!Multiplier[raw.unit]
  BY <1>3 DEF Priced
<1>6. /\ row = [property |-> row.property, price |-> row.price]
      /\ row.property \in DOMAIN property /\ row.price \in Nat
  BY <1>3, <1>4
<1> HIDE DEF row, raw
<1>7. /\ IsSeq(listing') /\ Len(listing') = n /\ Len(listing) \in Nat
      /\ DOMAIN listing' = DOMAIN listing \cup {n}
      /\ \A i \in DOMAIN listing : listing'[i] = listing[i]
      /\ listing'[n] = row /\ DOMAIN listing = 1..Len(listing)
  BY <1>2, Appended DEF EntryInv, CatalogInv
<1>8. /\ IsSeq(typed') /\ Len(typed') = n /\ Len(typed) = Len(listing)
      /\ DOMAIN typed = 1..Len(typed)
      /\ \A i \in DOMAIN typed : typed'[i] = typed[i]
      /\ typed'[n] = raw
  BY <1>2, Appended DEF EntryInv, CatalogInv
<1> DEFINE Fine(l, t) ==
        /\ l = [property |-> l.property, price |-> l.price]
        /\ l.property \in DOMAIN property /\ l.price \in Nat
        /\ t # None =>
            /\ t.value \in Nat /\ t.unit \in DOMAIN Entry!Multiplier
            /\ l.price = t.value * Entry!Multiplier[t.unit]
<1>9. ASSUME NEW i \in DOMAIN listing' PROVE Fine(listing'[i], typed'[i])
  <2>1. CASE i = n
    BY <1>5, <1>6, <1>7, <1>8, <2>1
  <2>2. CASE i \in DOMAIN listing
    <3>1. listing'[i] = listing[i] /\ typed'[i] = typed[i]
      BY <1>7, <1>8, <2>2
    <3>2. Fine(listing[i], typed[i])
      BY <2>2 DEF EntryInv, CatalogInv
    <3> QED
      BY <3>1, <3>2
  <2> QED
    BY <1>7, <2>1, <2>2
<1>10. CatalogInv'
  <2>1. (\A i \in DOMAIN property : Described(property[i], first[i]))'
    BY <1>2 DEF EntryInv, CatalogInv
  <2>2. /\ IsSeq(property)' /\ IsSeq(first)' /\ IsSeq(listing)' /\ IsSeq(typed)'
        /\ Len(first') = Len(property') /\ Len(typed') = Len(listing')
    <3>1. IsSeq(listing)' /\ IsSeq(typed)' /\ Len(typed') = Len(listing')
      BY <1>7, <1>8
    <3> QED
      BY <1>2, <3>1 DEF EntryInv, CatalogInv
  <2> QED
    BY <1>2, <1>9, <2>1, <2>2 DEF CatalogInv
<1>11. ASSUME NEW x \in Requests PROVE PageOK(page[x])'
  <2>1. PageOK(Entry!Fresh)
    BY BlankIsAForm, FillingIsOK
  <2>2. PageOK(page'[x])
    BY <1>1, <1>2, <2>1
  <2> QED
    BY <1>2, <2>2 DEF PageOK
<1>12. page' = [x \in Requests |-> page'[x]]
  BY <1>1, <1>2
<1> QED
  BY <1>2, <1>10, <1>11, <1>12 DEF EntryInv, PagesInv

(* Another conversion table, or nothing: what was entered stays.             *)
LEMMA CatalogStays ==
  ASSUME EntryInv, UNCHANGED <<scene, page, property, listing, first, typed>>,
         table' \in {table, Entry!Corrected}
  PROVE  EntryInv'
<1>1. CatalogInv'
  BY DEF EntryInv, CatalogInv, IsSeq, Described, Complete
<1>2. PagesInv'
  BY TablesAreNumbers DEF EntryInv, PagesInv, PageOK
<1> QED
  BY <1>1, <1>2 DEF EntryInv

(* At first nothing has been entered.                                        *)
LEMMA EntryInit == StaffInit => EntryInv
<1> SUFFICES ASSUME StaffInit PROVE EntryInv
  OBVIOUS
<1>1. property = << >> /\ listing = << >> /\ first = << >> /\ typed = << >>
  BY DEF StaffInit, Entry!Init
<1>2. CatalogInv
  BY <1>1, NothingIsASequence DEF CatalogInv
<1>3. ASSUME scene.requests = {} PROVE PagesInv
  <2>1. table = Entry!SQ_FT_PER_UNIT /\ page = [a \in Requests |-> Entry!Fresh]
    BY <1>3 DEF StaffInit, Entry!Init
  <2> QED
    BY <2>1, TablesAreNumbers, BlankIsAForm, FillingIsOK DEF PagesInv
<1> QED
  BY <1>2, <1>3 DEF EntryInv, PagesInv

(* Every step of the endpoints keeps what was entered.                       *)
LEMMA EntryStep == EntryInv /\ [Publishing \/ Entering]_<<vars, entryVars>> => EntryInv'
<1> SUFFICES ASSUME EntryInv, [Publishing \/ Entering]_<<vars, entryVars>> PROVE EntryInv'
  OBVIOUS
<1>1. CASE UNCHANGED entryVars /\ UNCHANGED scene
  BY <1>1, CatalogStays DEF entryVars
<1>2. CASE Entering
  <2>1. scene.requests = {} /\ UNCHANGED scene /\ Entry!Next
    BY <1>2 DEF Entering, vars
  <2>2. CASE Entry!Correct
    BY <2>1, <2>2, CatalogStays DEF Entry!Correct, Entry!catalog
  <2>3. ASSUME NEW a \in Requests,
               \/ \E form \in Entry!OnPage(a) : Entry!Rejected(a, form) \/ Entry!Submit(a, form)
               \/ \E payload \in Payloads : Entry!Post(a, payload)
               \/ Entry!Refused(a) \/ Entry!Find(a) \/ Entry!Insert(a) \/ Entry!Create(a)
               \/ Entry!Crash(a)
        PROVE  EntryInv'
    BY <2>1, <2>3, PagesStep, InsertStep, CreateStep
  <2> QED
    BY <2>1, <2>2, <2>3 DEF Entry!Next
<1> QED
  BY <1>1, <1>2 DEF Publishing, Next, vars

(* The site goes on showing a listing the way it was entered: for any forms  *)
(* and payloads, any number of clients, and whatever conversion table later  *)
(* releases are built with.                                                  *)
THEOREM EntriesStayAsEntered == StaffSpec => []ShownAsEntered
<1>1. EntryInv => ShownAsEntered
  BY EntriesAreShown DEF EntryInv
<1>2. QED
  BY <1>1, EntryInit, EntryStep, PTL DEF StaffSpec

=============================================================================
