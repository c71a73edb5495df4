----------------------------- MODULE SiteProofs -----------------------------
(* Theorems about Site, for every catalog, every set of editors and all      *)
(* edits: what the data cache of the web server shows after a hint, what a   *)
(* form that was not touched writes back, what the photo grid shows, what a  *)
(* search and a walk through its pages show, and that the other pages agree  *)
(* with the searches they link to.                                           *)
EXTENDS TLAPS, FiniteSetTheorems, SequenceTheorems, WellFoundedInduction, Site

(* Versions are counted, and the site is not told of one before it is there. *)
Counters ==
    /\ version \in Nat /\ promised \in Nat
    /\ promised <= version

Entry(entry) ==
    entry \in [answer : {entry.answer}, version : Nat, late : BOOLEAN, fresh : BOOLEAN]

Answer(f) ==
    f \in [pc : {"read"}, due : Nat, answer : {f.answer}, version : Nat, late : BOOLEAN]

(* What is cached is as new as the last hint, or was read before it and      *)
(* stored after it.                                                          *)
CacheInOrder ==
    cache # NoEntry =>
        /\ Entry(cache)
        /\ cache.late \/ promised <= cache.version

(* A request knows of the hints before it, and the answer it has looked up   *)
(* is as new as those; only an answer looked up before a hint is not as new  *)
(* as that hint.                                                             *)
InOrder(f) ==
    /\ f.pc \in {"idle", "asked", "read"}
    /\ f.pc \in {"asked", "read"} => f.due \in Nat /\ f.due <= promised
    /\ f.pc = "read" =>
        /\ Answer(f)
        /\ f.due <= f.version /\ f.version <= version
        /\ f.late \/ promised <= f.version

FetchesInOrder ==
    /\ fetch = [w \in Waits |-> fetch[w]]
    /\ \A w \in Waits : InOrder(fetch[w])

CacheInv == Counters /\ CacheInOrder /\ FetchesInOrder /\ FirstLookIsCurrent

(* At first nothing is cached, under way or promised.                        *)
LEMMA CacheInit == Init => CacheInv
  BY DEF Init, InitDesk, CacheInv, Counters, CacheInOrder, FetchesInOrder, InOrder,
         FirstLookIsCurrent, Unseen, Idle

(* A step that touches neither the cache nor its requests leaves it all as   *)
(* it is, and one that commits a patch only makes the table newer.           *)
LEMMA OthersKeepTheCache ==
  ASSUME CacheInv, UNCHANGED siteVars, version' \in {version, version + 1}
  PROVE  CacheInv'
  BY DEF CacheInv, Counters, CacheInOrder, FetchesInOrder, InOrder, Entry, Answer,
         FirstLookIsCurrent, siteVars

(* A visit.                                                                  *)
LEMMA LookKeepsTheCache ==
  ASSUME CacheInv, Look, UNCHANGED version
  PROVE  CacheInv'
<1>1. Counters'
  BY DEF CacheInv, Counters, Look
<1>2. CacheInOrder'
  BY DEF CacheInv, CacheInOrder, Entry, Look
<1>3. FetchesInOrder'
  <2>1. fetch' = fetch \/ \E w \in Waits : fetch' = Ask(w)
    BY DEF Look, Waits
  <2>2. CASE fetch' = fetch
    BY <2>2 DEF CacheInv, FetchesInOrder, InOrder, Answer, Look
  <2>3. CASE \E w \in Waits : fetch' = Ask(w)
    <3> PICK w \in Waits : fetch' = Ask(w)
      BY <2>3
    <3>1. fetch' = [x \in Waits |-> fetch'[x]]
      BY DEF CacheInv, FetchesInOrder, Ask
    <3>2. ASSUME NEW x \in Waits PROVE InOrder(fetch[x])'
      <4>1. CASE x = w
        <5>1. fetch'[x] = [pc |-> "asked", due |-> promised]
          BY <4>1 DEF CacheInv, FetchesInOrder, Ask
        <5> QED
          BY <5>1 DEF CacheInv, Counters, InOrder, Look
      <4>2. CASE x # w
        <5>1. fetch'[x] = fetch[x]
          BY <4>2 DEF CacheInv, FetchesInOrder, Ask
        <5> QED
          BY <5>1 DEF CacheInv, FetchesInOrder, InOrder, Answer, Look
      <4> QED
        BY <4>1, <4>2
    <3> QED
      BY <3>1, <3>2 DEF FetchesInOrder
  <2> QED
    BY <2>1, <2>2, <2>3
<1>4. FirstLookIsCurrent'
  <2>1. CASE seen' = seen
    BY <2>1 DEF CacheInv, FirstLookIsCurrent
  <2>2. CASE cache # NoEntry /\ seen' = Shown(cache, promised)
    BY <2>2 DEF CacheInv, CacheInOrder, Entry, Counters, FirstLookIsCurrent, Shown
  <2> QED
    BY <2>1, <2>2 DEF Look
<1> QED
  BY <1>1, <1>2, <1>3, <1>4 DEF CacheInv

(* The API looks up what is stored, which is at least what was promised.     *)
LEMMA ReadKeepsTheCache ==
  ASSUME CacheInv, NEW w \in Waits, Read(w), UNCHANGED version
  PROVE  CacheInv'
<1>1. Counters' /\ CacheInOrder' /\ FirstLookIsCurrent'
  BY DEF CacheInv, Counters, CacheInOrder, Entry, FirstLookIsCurrent, Read
<1>2. PICK answer : fetch' = [fetch EXCEPT ![w] = [pc |-> "read", due |-> fetch[w].due,
                        answer |-> answer, version |-> version, late |-> FALSE]]
  BY DEF Read
<1>3. ASSUME NEW x \in Waits PROVE InOrder(fetch[x])'
  <2>1. CASE x = w
    <3>1. fetch'[x] = [pc |-> "read", due |-> fetch[w].due, answer |-> answer,
                       version |-> version, late |-> FALSE]
      BY <1>2, <2>1 DEF CacheInv, FetchesInOrder
    <3>2. fetch[w].due \in Nat /\ fetch[w].due <= promised
      BY DEF CacheInv, FetchesInOrder, InOrder, Read
    <3>3. /\ version \in Nat /\ promised \in Nat /\ promised <= version
          /\ promised' = promised /\ version' = version
      BY DEF CacheInv, Counters, Read
    <3>4. Answer(fetch'[x])
      BY <3>1, <3>2, <3>3 DEF Answer
    <3>5. fetch[w].due <= version
      BY <3>2, <3>3
    <3> QED
      BY <3>1, <3>2, <3>3, <3>4, <3>5 DEF InOrder, Answer
  <2>2. CASE x # w
    <3>1. fetch'[x] = fetch[x]
      BY <1>2, <2>2 DEF CacheInv, FetchesInOrder
    <3> QED
      BY <3>1 DEF CacheInv, FetchesInOrder, InOrder, Answer, Read
  <2> QED
    BY <2>1, <2>2
<1>4. fetch' = [x \in Waits |-> fetch'[x]]
  BY <1>2 DEF CacheInv, FetchesInOrder
<1> QED
  BY <1>1, <1>3, <1>4 DEF CacheInv, FetchesInOrder

(* A request that is over.                                                   *)
LEMMA OverKeepsTheFetches ==
  ASSUME FetchesInOrder, NEW w \in Waits, fetch' = [fetch EXCEPT ![w] = Idle],
         UNCHANGED <<promised, version>>
  PROVE  FetchesInOrder'
<1>1. fetch' = [x \in Waits |-> fetch'[x]]
  BY DEF FetchesInOrder
<1>2. ASSUME NEW x \in Waits PROVE InOrder(fetch[x])'
  <2>1. CASE x = w
    <3>1. fetch'[x] = Idle
      BY <2>1 DEF FetchesInOrder
    <3> QED
      BY <3>1 DEF InOrder, Idle
  <2>2. CASE x # w
    <3>1. fetch'[x] = fetch[x]
      BY <2>2 DEF FetchesInOrder
    <3> QED
      BY <3>1 DEF FetchesInOrder, InOrder, Answer
  <2> QED
    BY <2>1, <2>2
<1> QED
  BY <1>1, <1>2 DEF FetchesInOrder

(* An answer arrives: it is shown to whoever waited, and kept.               *)
LEMMA FinishKeepsTheCache ==
  ASSUME CacheInv, NEW w \in Waits, Finish(w), UNCHANGED version
  PROVE  CacheInv'
<1> DEFINE f == fetch[w]
<1>1. /\ f.pc = "read" /\ Answer(f)
      /\ f.due \in Nat /\ f.due <= f.version
      /\ f.late \/ promised <= f.version
  BY DEF CacheInv, FetchesInOrder, InOrder, Finish
<1>2. Counters'
  BY DEF CacheInv, Counters, Finish
<1>3. FetchesInOrder'
  BY OverKeepsTheFetches DEF CacheInv, Finish
<1>4. CacheInOrder'
  <2>1. CASE cache' = cache
    BY <2>1 DEF CacheInv, CacheInOrder, Entry, Finish
  <2>2. CASE cache' = [answer |-> f.answer, version |-> f.version, late |-> f.late, fresh |-> TRUE]
    <3>1. f.version \in Nat /\ f.late \in BOOLEAN /\ promised' = promised
      BY <1>1 DEF Answer, Finish
    <3>2. /\ cache'.answer = f.answer /\ cache'.version = f.version
          /\ cache'.late = f.late /\ cache'.fresh = TRUE
      BY <2>2
    <3>3. Entry(cache')
      BY <2>2, <3>1, <3>2 DEF Entry
    <3> QED
      BY <1>1, <3>1, <3>2, <3>3 DEF CacheInOrder, Entry
  <2> QED
    BY <2>1, <2>2 DEF Finish
<1>5. FirstLookIsCurrent'
  <2>1. CASE seen' = seen
    BY <2>1 DEF CacheInv, FirstLookIsCurrent
  <2>2. CASE seen' = Shown([f EXCEPT !.late = FALSE], f.due)
    BY <1>1, <2>2 DEF FirstLookIsCurrent, Shown, Answer
  <2> QED
    BY <2>1, <2>2 DEF Finish
<1> QED
  BY <1>2, <1>3, <1>4, <1>5 DEF CacheInv

(* A request fails.                                                          *)
LEMMA FailKeepsTheCache ==
  ASSUME CacheInv, NEW w \in Waits, Fail(w), UNCHANGED version
  PROVE  CacheInv'
<1>1. Counters' /\ CacheInOrder'
  BY DEF CacheInv, Counters, CacheInOrder, Entry, Fail
<1>2. FetchesInOrder'
  BY OverKeepsTheFetches DEF CacheInv, Fail
<1>3. FirstLookIsCurrent'
  BY DEF CacheInv, FirstLookIsCurrent, Unseen, Fail
<1> QED
  BY <1>1, <1>2, <1>3 DEF CacheInv

(* Time goes by.                                                             *)
LEMMA AgeKeepsTheCache ==
  ASSUME CacheInv, Age, UNCHANGED version
  PROVE  CacheInv'
<1>1. CacheInOrder'
  BY DEF CacheInv, CacheInOrder, Entry, Age
<1> QED
  BY <1>1 DEF CacheInv, Counters, FetchesInOrder, InOrder, Answer, FirstLookIsCurrent, Age

(* A hint drops the cache, and what has been looked up by then is late.      *)
LEMMA RevalidateKeepsTheCache ==
  ASSUME CacheInv, Revalidate, UNCHANGED version
  PROVE  CacheInv'
<1>1. Counters' /\ CacheInOrder'
  BY DEF CacheInv, Counters, CacheInOrder, Revalidate, Expired
<1>2. FirstLookIsCurrent'
  BY DEF CacheInv, FirstLookIsCurrent, Revalidate
<1>3. ASSUME NEW x \in Waits PROVE InOrder(fetch[x])'
  <2>1. InOrder(fetch[x]) /\ promised <= promised' /\ promised' \in Nat /\ promised \in Nat
    BY DEF CacheInv, FetchesInOrder, Counters, Revalidate
  <2>2. CASE fetch[x].pc = "read"
    <3>1. fetch'[x] = [fetch[x] EXCEPT !.late = TRUE]
      BY <2>2 DEF Revalidate
    <3>2. /\ fetch'[x].pc = "read" /\ fetch'[x].due = fetch[x].due
          /\ fetch'[x].version = fetch[x].version /\ fetch'[x].late = TRUE
          /\ Answer(fetch'[x])
      BY <2>1, <2>2, <3>1 DEF InOrder, Answer
    <3>3. /\ fetch[x].due \in Nat /\ fetch[x].due <= promised
          /\ fetch[x].due <= fetch[x].version /\ fetch[x].version <= version
          /\ version' = version
      BY <2>1, <2>2 DEF InOrder
    <3>4. fetch[x].due <= promised'
      BY <2>1, <3>3
    <3> QED
      BY <3>2, <3>3, <3>4 DEF InOrder, Answer
  <2>3. CASE fetch[x].pc # "read"
    <3>1. fetch'[x] = fetch[x]
      BY <2>3 DEF Revalidate
    <3> QED
      BY <2>1, <2>3, <3>1 DEF InOrder
  <2> QED
    BY <2>2, <2>3
<1>4. fetch' = [x \in Waits |-> fetch'[x]]
  BY DEF Revalidate
<1> QED
  BY <1>1, <1>2, <1>3, <1>4 DEF CacheInv, FetchesInOrder

(* Every step keeps the cache in order.                                      *)
LEMMA CacheStep == CacheInv /\ [Next]_vars => CacheInv'
<1> SUFFICES ASSUME CacheInv, [Next]_vars PROVE CacheInv'
  OBVIOUS
<1>1. CASE UNCHANGED vars \/ UNCHANGED <<deskVars, siteVars>>
  BY <1>1, OthersKeepTheCache DEF vars, deskVars
<1>2. CASE Edit /\ UNCHANGED siteVars
  <2>1. version' \in {version, version + 1}
    BY <1>2, Zenon DEF Edit, Open, Fill, Save, Refused, GiveUp, Leave, Patch
  <2> QED
    BY <1>2, <2>1, OthersKeepTheCache
<1>3. CASE Tell
  BY <1>3, RevalidateKeepsTheCache DEF Tell, Hinted, HintArrives
<1>4. CASE Watch /\ UNCHANGED deskVars
  BY <1>4, LookKeepsTheCache, AgeKeepsTheCache, ReadKeepsTheCache, FinishKeepsTheCache,
     FailKeepsTheCache DEF Watch, deskVars
<1> QED
  BY <1>1, <1>2, <1>3, <1>4 DEF Next

(* "The first person to look after a publish sees the new listing": however  *)
(* visits, refreshes in the background, patches and hints interleave, nobody *)
(* is shown less than the site was told of by the time the page was opened,  *)
(* but for an answer the API gave before the hint and the cache took after.  *)
THEOREM FirstLooksAreCurrent == Spec => []FirstLookIsCurrent
<1>1. CacheInv => FirstLookIsCurrent
  BY DEF CacheInv
<1> QED
  BY <1>1, CacheInit, CacheStep, PTL DEF Spec

-----------------------------------------------------------------------------
(* The edit form.                                                            *)

Pcs == {"away", "editing", "saving", "hinting", "saved"}

RowsAreRows == \A id \in DOMAIN listing : IsRow(listing[id])

(* A form nobody has touched is the form of the row it was filled from.      *)
FormInOrder(e) ==
    /\ e = [k \in DOMAIN e |-> e[k]] /\ DOMAIN e = DOMAIN Away /\ e.pc \in Pcs
    /\ e.pc # "away" =>
        /\ e.id \in DOMAIN listing /\ IsRow(e.base)
        /\ ~e.touched => e.form = FormOf(e.base)

(* Unless a colleague has saved it, the row is still what the form was       *)
(* filled from; after the save too, if the form can express the row.         *)
RowIsItsBase(e) ==
    e.alone /\ (e.pc \in {"editing", "saving"}
                \/ (e.pc \in {"hinting", "saved"} /\ ~e.touched /\ Expressible(e.base))) =>
        listing[e.id] = e.base

FormInv ==
    /\ RowsAreRows
    /\ editor = [s \in Editors |-> editor[s]]
    /\ \A s \in Editors : FormInOrder(editor[s]) /\ RowIsItsBase(editor[s])

(* A patch writes the columns of the form, and no others.                    *)
LEMMA WrittenIs ==
  ASSUME NEW row, IsRow(row), NEW patch
  PROVE  LET new == Written(row, patch) IN
         /\ new = [k \in DOMAIN row |-> new[k]] /\ DOMAIN new = DOMAIN row
         /\ \A k \in DOMAIN row \ FormColumns : new[k] = row[k]
         /\ new.status = StatusToDb[patch.status]
         /\ new.closed = IF StatusToDb[patch.status] \notin {"SOLD", "RENTED"} THEN None
                         ELSE IF row.closed = None THEN Today ELSE row.closed
         /\ new.visibility = patch.visibility /\ new.possession = patch.possession
         /\ new.price = patch.price /\ new.onRequest = patch.onRequest
         /\ new.maintenance = Coalesced(patch.maintenance, row.maintenance)
         /\ new.furnishing = Coalesced(patch.furnishing, row.furnishing)
         /\ new.features = patch.features
<1> DEFINE new == Written(row, patch)
<1>1. new = [k \in DOMAIN row |-> new[k]]
  BY Zenon DEF Written
<1>2. DOMAIN new = DOMAIN row
  BY Zenon DEF Written
<1>3. \A k \in DOMAIN row \ FormColumns : new[k] = row[k]
  BY DEF IsRow, FormColumns, Written
<1>4. new.status = StatusToDb[patch.status] /\ new.price = patch.price
  BY DEF IsRow, FormColumns, Written
<1>5. new.closed = IF StatusToDb[patch.status] \notin {"SOLD", "RENTED"} THEN None
                   ELSE IF row.closed = None THEN Today ELSE row.closed
  BY DEF IsRow, FormColumns, Written
<1>6. /\ new.visibility = patch.visibility /\ new.possession = patch.possession
      /\ new.onRequest = patch.onRequest /\ new.features = patch.features
  BY DEF IsRow, FormColumns, Written
<1>7. /\ new.maintenance = Coalesced(patch.maintenance, row.maintenance)
      /\ new.furnishing = Coalesced(patch.furnishing, row.furnishing)
  BY DEF IsRow, FormColumns, Written
<1> HIDE DEF new
<1> QED
  BY <1>1, <1>2, <1>3, <1>4, <1>5, <1>6, <1>7 DEF new

(* What a patch leaves of a row is a row.                                    *)
LEMMA WrittenIsRow ==
  ASSUME NEW row, IsRow(row), NEW form
  PROVE  IsRow(Written(row, PatchOf(form)))
<1> DEFINE new == Written(row, PatchOf(form))
<1>1. PatchOf(form).onRequest = FALSE
  BY DEF PatchOf
<1>2. /\ new = [k \in DOMAIN row |-> new[k]] /\ DOMAIN new = DOMAIN row
      /\ new.onRequest = PatchOf(form).onRequest
  BY WrittenIs
<1> HIDE DEF new
<1>3. IsRow(new)
  BY <1>1, <1>2 DEF IsRow
<1> QED
  BY <1>3 DEF new

(* Writing back what the form shows of a row it can express is no change.    *)
LEMMA RoundTrip ==
  ASSUME NEW row, IsRow(row), Expressible(row)
  PROVE  Written(row, PatchOf(FormOf(row))) = row
<1> DEFINE patch == PatchOf(FormOf(row))
<1>1. /\ patch.onRequest = FALSE /\ patch.status = StatusShown(row)
      /\ patch.visibility = row.visibility /\ patch.possession = row.possession
      /\ patch.price = row.price /\ patch.maintenance = row.maintenance
      /\ patch.furnishing = row.furnishing /\ patch.features = row.features
  BY DEF PatchOf, FormOf
<1>2. StatusToDb[patch.status] = row.status
  BY <1>1 DEF StatusShown, Expressible
<1>3. row.onRequest = FALSE
  BY DEF IsRow, Expressible
<1>4. row.status # "RENTED"
  BY DEF Expressible, Options, StatusToDb, Valid
<1>5. row.closed = IF StatusToDb[patch.status] \notin {"SOLD", "RENTED"} THEN None
                   ELSE IF row.closed = None THEN Today ELSE row.closed
  BY <1>2, <1>4 DEF Expressible
<1> DEFINE new == Written(row, patch)
<1> HIDE DEF patch
<1>6. DOMAIN new = DOMAIN row /\ new = [k \in DOMAIN row |-> new[k]]
  BY WrittenIs
<1>7. \A k \in DOMAIN row \ FormColumns : new[k] = row[k]
  BY WrittenIs
<1>8. /\ new.status = StatusToDb[patch.status]
      /\ new.closed = IF StatusToDb[patch.status] \notin {"SOLD", "RENTED"} THEN None
                      ELSE IF row.closed = None THEN Today ELSE row.closed
      /\ new.visibility = patch.visibility /\ new.possession = patch.possession
      /\ new.price = patch.price /\ new.onRequest = patch.onRequest
      /\ new.maintenance = Coalesced(patch.maintenance, row.maintenance)
      /\ new.furnishing = Coalesced(patch.furnishing, row.furnishing)
      /\ new.features = patch.features
  BY WrittenIs
<1> HIDE DEF new
<1>9. /\ new.status = row.status /\ new.closed = row.closed
      /\ new.visibility = row.visibility /\ new.possession = row.possession
      /\ new.price = row.price /\ new.onRequest = row.onRequest
      /\ new.maintenance = row.maintenance /\ new.furnishing = row.furnishing
      /\ new.features = row.features
  BY <1>1, <1>2, <1>3, <1>5, <1>8 DEF Coalesced
<1>10. \A k \in FormColumns : new[k] = row[k]
  BY <1>9, Zenon DEF FormColumns
<1>11. new = row
  BY <1>6, <1>7, <1>10 DEF IsRow
<1> QED
  BY <1>11 DEF new, patch

(* Leaving, or being refused, leaves nothing to be in order.                 *)
LEMMA AwayIsInOrder == FormInOrder(Away) /\ RowIsItsBase(Away)
  BY DEF Away, FormInOrder, RowIsItsBase, Pcs

(* At first nobody edits, and the catalog is that of the scene.              *)
LEMMA FormInit == Init => FormInv
<1> SUFFICES ASSUME Init PROVE FormInv
  OBVIOUS
<1>1. RowsAreRows
  BY SceneAssumption DEF Init, RowsAreRows
<1>2. editor = [s \in Editors |-> Away]
  BY DEF Init, InitDesk
<1> QED
  BY <1>1, <1>2, AwayIsInOrder DEF FormInv

(* Nothing else is relied upon.                                              *)
LEMMA FormStutter ==
  ASSUME FormInv, UNCHANGED <<listing, editor>>
  PROVE  FormInv'
  BY DEF FormInv, RowsAreRows, FormInOrder, RowIsItsBase

(* An editor moves and the catalog stays: the others are where they were.    *)
LEMMA MoveKeepsTheForms ==
  ASSUME FormInv, NEW s \in Editors, NEW e, editor' = [editor EXCEPT ![s] = e],
         UNCHANGED listing, FormInOrder(e), RowIsItsBase(e)
  PROVE  FormInv'
<1>1. ASSUME NEW x \in Editors PROVE FormInOrder(editor'[x]) /\ RowIsItsBase(editor'[x])
  <2>1. editor'[x] = IF x = s THEN e ELSE editor[x]
    BY DEF FormInv
  <2> QED
    BY <2>1 DEF FormInv
<1>2. ASSUME NEW x \in Editors PROVE FormInOrder(editor[x])' /\ RowIsItsBase(editor[x])'
  BY <1>1, <1>2 DEF FormInOrder, RowIsItsBase
<1>3. editor' = [x \in Editors |-> editor'[x]]
  BY DEF FormInv
<1>4. RowsAreRows'
  BY DEF FormInv, RowsAreRows
<1> QED
  BY <1>2, <1>3, <1>4 DEF FormInv

(* A patch writes the form into the row.  Whoever else edits that row is not *)
(* alone any more.                                                           *)
LEMMA PatchKeepsTheForms ==
  ASSUME FormInv, NEW s \in Editors, NEW answered \in BOOLEAN, Patch(s, answered)
  PROVE  FormInv'
<1> DEFINE e == editor[s]
           new == Written(listing[e.id], PatchOf(e.form))
<1>1. /\ e.pc = "saving" /\ FormInOrder(e) /\ RowIsItsBase(e) /\ e.id \in DOMAIN listing
      /\ IsRow(listing[e.id])
  BY DEF FormInv, FormInOrder, RowsAreRows, Patch, At
<1>2. /\ DOMAIN listing' = DOMAIN listing /\ listing'[e.id] = new
      /\ \A id \in DOMAIN listing \ {e.id} : listing'[id] = listing[id]
  BY <1>1 DEF Patch
<1>3. IsRow(new)
  BY <1>1, WrittenIsRow
<1>4. RowsAreRows'
  BY <1>2, <1>3 DEF FormInv, RowsAreRows
<1>5. editor' = [x \in Editors |-> editor'[x]]
  BY DEF Patch
<1>6. ASSUME NEW x \in Editors PROVE FormInOrder(editor[x])' /\ RowIsItsBase(editor[x])'
  <2>1. CASE x = s /\ answered
    <3>1. editor'[x] = [e EXCEPT !.pc = "hinting"]
      BY <2>1 DEF Patch
    <3>2. /\ editor'[x] = [k \in DOMAIN editor'[x] |-> editor'[x][k]]
          /\ DOMAIN editor'[x] = DOMAIN Away
          /\ editor'[x].pc = "hinting" /\ editor'[x].id = e.id
          /\ editor'[x].form = e.form /\ editor'[x].base = e.base
          /\ editor'[x].touched = e.touched /\ editor'[x].alone = e.alone
      BY <1>1, <3>1 DEF FormInOrder, Away
    <3>3. FormInOrder(editor[x])'
      BY <1>1, <1>2, <3>2 DEF FormInOrder, Pcs
    <3>4. ASSUME e.alone, ~e.touched, Expressible(e.base) PROVE listing'[e.id] = e.base
      <4>1. listing[e.id] = e.base /\ e.form = FormOf(e.base) /\ IsRow(e.base)
        BY <1>1, <3>4 DEF FormInOrder, RowIsItsBase
      <4> QED
        BY <1>2, <3>4, <4>1, RoundTrip
    <3> QED
      BY <3>2, <3>3, <3>4 DEF RowIsItsBase
  <2>2. CASE x = s /\ ~answered
    <3>1. editor'[x] = Away
      BY <2>2 DEF Patch
    <3> QED
      BY <3>1 DEF Away, FormInOrder, RowIsItsBase, Pcs
  <2>3. CASE x # s /\ editor[x].id = e.id
    <3>1. editor'[x] = [editor[x] EXCEPT !.alone = FALSE]
      BY <2>3 DEF Patch
    <3>2. FormInOrder(editor[x])
      BY DEF FormInv
    <3>3. /\ editor'[x] = [k \in DOMAIN editor'[x] |-> editor'[x][k]]
          /\ DOMAIN editor'[x] = DOMAIN Away
          /\ editor'[x].pc = editor[x].pc /\ editor'[x].id = editor[x].id
          /\ editor'[x].form = editor[x].form /\ editor'[x].base = editor[x].base
          /\ editor'[x].touched = editor[x].touched /\ editor'[x].alone = FALSE
      BY <3>1, <3>2 DEF FormInOrder, Away
    <3> QED
      BY <1>2, <3>2, <3>3 DEF FormInOrder, RowIsItsBase
  <2>4. CASE x # s /\ editor[x].id # e.id
    <3>1. editor'[x] = editor[x]
      BY <2>4 DEF Patch
    <3>2. FormInOrder(editor[x]) /\ RowIsItsBase(editor[x])
      BY DEF FormInv
    <3> QED
      BY <1>2, <2>4, <3>1, <3>2 DEF FormInOrder, RowIsItsBase, Pcs
  <2> QED
    BY <2>1, <2>2, <2>3, <2>4
<1> QED
  BY <1>4, <1>5, <1>6 DEF FormInv

(* Every other step of an editor moves it alone.                             *)
LEMMA EditKeepsTheForms ==
  ASSUME FormInv, NEW s \in Editors
  PROVE  /\ (\E id \in DOMAIN listing : Open(s, id)) => FormInv'
         /\ (\E edit : Fill(s, edit)) => FormInv'
         /\ Save(s) \/ Refused(s) \/ GiveUp(s) \/ Leave(s) \/ Hinted(s) => FormInv'
<1>1. FormInOrder(editor[s]) /\ RowIsItsBase(editor[s])
  BY DEF FormInv
<1>2. ASSUME NEW id \in DOMAIN listing, Open(s, id) PROVE FormInv'
  <2> DEFINE e == [Away EXCEPT !.pc = "editing", !.id = id,
                      !.form = FormOf(listing[id]), !.base = listing[id]]
  <2>1. FormInOrder(e) /\ RowIsItsBase(e)
    BY DEF FormInv, RowsAreRows, FormInOrder, RowIsItsBase, Away, Pcs
  <2>2. editor' = [editor EXCEPT ![s] = e] /\ UNCHANGED listing
    BY <1>2 DEF Open
  <2> QED
    BY <2>1, <2>2, MoveKeepsTheForms
<1>3. ASSUME NEW edit, Fill(s, edit) PROVE FormInv'
  <2>1. PICK form : editor' = [editor EXCEPT ![s] = [editor[s] EXCEPT !.form = form, !.touched = TRUE]]
    BY <1>3, Zenon DEF Fill, FormInv
  <2> DEFINE e == [editor[s] EXCEPT !.form = form, !.touched = TRUE]
  <2>2. /\ e = [k \in DOMAIN e |-> e[k]] /\ DOMAIN e = DOMAIN Away
        /\ e.pc = "editing" /\ e.id = editor[s].id /\ e.base = editor[s].base
        /\ e.touched = TRUE /\ e.alone = editor[s].alone
    BY <1>1, <1>3 DEF Fill, At, FormInOrder, Away
  <2>3. FormInOrder(e) /\ RowIsItsBase(e)
    BY <1>1, <1>3, <2>2 DEF Fill, At, FormInOrder, RowIsItsBase, Pcs
  <2> QED
    BY <1>3, <2>1, <2>3, MoveKeepsTheForms DEF Fill
<1>4. ASSUME NEW pc \in {"saving", "saved"}, pc = "saving" => editor[s].pc = "editing",
             pc = "saved" => editor[s].pc = "hinting",
             editor' = [editor EXCEPT ![s].pc = pc], UNCHANGED listing
      PROVE  FormInv'
  <2> DEFINE e == [editor[s] EXCEPT !.pc = pc]
  <2>1. editor' = [editor EXCEPT ![s] = e]
    BY <1>4
  <2>2. /\ e = [k \in DOMAIN e |-> e[k]] /\ DOMAIN e = DOMAIN Away
        /\ e.pc = pc /\ e.id = editor[s].id /\ e.base = editor[s].base /\ e.form = editor[s].form
        /\ e.touched = editor[s].touched /\ e.alone = editor[s].alone
    BY <1>1 DEF FormInOrder, Away
  <2>3. FormInOrder(e) /\ RowIsItsBase(e)
    BY <1>1, <1>4, <2>2 DEF FormInOrder, RowIsItsBase, Pcs
  <2> QED
    BY <1>4, <2>1, <2>3, MoveKeepsTheForms
<1>5. CASE Save(s)
  BY <1>4, <1>5 DEF Save, At
<1>6. CASE GiveUp(s) \/ Hinted(s)
  BY <1>4, <1>6 DEF GiveUp, Hinted, At
<1>7. CASE Refused(s) \/ Leave(s)
  BY <1>7, AwayIsInOrder, MoveKeepsTheForms DEF Refused, Leave
<1> QED
  BY <1>2, <1>3, <1>5, <1>6, <1>7

(* Every step keeps the forms in order.                                      *)
LEMMA FormStep == scene \in Scenes /\ FormInv /\ [Next]_vars => FormInv'
<1> SUFFICES ASSUME scene \in Scenes, FormInv, [Next]_vars PROVE FormInv'
  OBVIOUS
<1>1. CASE UNCHANGED vars \/ UNCHANGED deskVars
  BY <1>1, FormStutter DEF vars, deskVars
<1>2. CASE Edit
  <2>1. PICK s \in Editors :
            \/ \E id \in DOMAIN listing : Open(s, id)
            \/ \E edit \in scene.edits : Fill(s, edit)
            \/ Save(s) \/ Refused(s) \/ GiveUp(s) \/ Leave(s)
            \/ \E answered \in BOOLEAN : Patch(s, answered)
    BY <1>2, SceneAssumption DEF Edit
  <2>2. CASE \E answered \in BOOLEAN : Patch(s, answered)
    BY <2>2, PatchKeepsTheForms
  <2>3. CASE ~\E answered \in BOOLEAN : Patch(s, answered)
    BY <2>1, <2>3, EditKeepsTheForms
  <2> QED
    BY <2>2, <2>3
<1>3. CASE Tell
  <2>1. CASE \E s \in scene.editors : Hinted(s)
    BY <2>1, SceneAssumption, EditKeepsTheForms
  <2>2. CASE HintArrives
    BY <2>2, FormStutter DEF HintArrives
  <2> QED
    BY <1>3, <2>1, <2>2 DEF Tell
<1> QED
  BY <1>1, <1>2, <1>3 DEF Next

(* Saving a form in which nothing was changed changes nothing, for every row *)
(* the form can express and however many colleagues edit at the same time,   *)
(* unless one of them saved the same listing meanwhile.                      *)
THEOREM UntouchedFormsChangeNothing == Spec => []UntouchedFormChangesNothing
<1>1. Init => scene \in Scenes /\ FormInv
  BY FormInit DEF Init
<1>2. scene \in Scenes /\ FormInv /\ [Next]_vars => (scene \in Scenes /\ FormInv)'
  BY FormStep DEF Next, vars
<1>3. FormInv => UntouchedFormChangesNothing
  BY DEF FormInv, RowIsItsBase, UntouchedFormChangesNothing
<1> QED
  BY <1>1, <1>2, <1>3, PTL DEF Spec

-----------------------------------------------------------------------------
(* The photo grid.                                                           *)

Ids(list) == {list[i][1] : i \in DOMAIN list}
Lists == Seq(Photos \X Nat)

(* The rows of the listing; an id is used once.                              *)
RowsInv ==
    /\ sort_order \in [Photos -> Nat \cup {None}]
    /\ unused \subseteq Photos \ Rows

GridFields == DOMAIN Closed

GridOK(g) ==
    /\ g = [f \in GridFields |-> g[f]]
    /\ g.open \in BOOLEAN /\ g.stale \in BOOLEAN /\ g.inStep \in BOOLEAN
    /\ g.shown \in Seq(Photos) /\ g.server \in Lists
    /\ g.arriving # << >> => g.arriving[1] \in Lists

CallOK(c) ==
    \/ c = NoCall \/ c = [pc |-> "uploading"] \/ c = [pc |-> "uploaded"]
    \/ c.pc = "reserving" /\ c = [pc |-> c.pc, end |-> c.end] /\ c.end \in Nat
    \/ c.pc = "ordering" /\ c = [pc |-> c.pc, ids |-> c.ids] /\ c.ids \in Seq(Photos)
    \/ c.pc \in {"removing", "removed"} /\ c = [pc |-> c.pc, id |-> c.id] /\ c.id \in Photos

PageOK(g, calls) ==
    /\ GridOK(g)
    /\ calls = [k \in Slots |-> calls[k]] /\ \A k \in Slots : CallOK(calls[k])
    /\ ~g.open => \A k \in Slots : calls[k] = NoCall

(* The photos of the page, once each.                                        *)
IsGallery(s) ==
    /\ s \in Seq(Rows) /\ ToSet(s) = Rows
    /\ \A i, j \in DOMAIN s : s[i] = s[j] => i = j

(* No id was in use before its row; the page shows what the server handed    *)
(* down, less what it has taken away; what arrives is as new as what it has. *)
ListsInOrder(g) ==
    /\ Ids(g.server) \cap unused = {}
    /\ ToSet(g.shown) \subseteq Ids(g.server)
    /\ g.arriving # << >> =>
        /\ Ids(g.arriving[1]) \cap unused = {}
        /\ Ids(g.server) \cap Rows \subseteq Ids(g.arriving[1])

RemovalInOrder(g, c) ==
    /\ c.pc \in {"removing", "removed"} => c.id \notin unused
    /\ c.pc = "removing" /\ c.id \in Rows => c.id \in Ids(g.server)
    /\ c.pc = "removed" => c.id \notin Rows

(* A new order is the only thing under way.                                  *)
OrderAlone(g, calls) ==
    \A k \in Slots : calls[k].pc = "ordering" =>
        /\ \A l \in Slots \ {k} : calls[l] = NoCall
        /\ ~g.stale /\ g.arriving = << >>
        /\ g.shown = calls[k].ids /\ IsGallery(calls[k].ids)

NoOrder(calls) == \A k \in Slots : calls[k].pc # "ordering"

(* The table is not ahead of the page for a reason it does not know yet.     *)
Settled(g, calls) == ~g.stale /\ \A k \in Slots : calls[k].pc \notin {"uploaded", "removed"}

(* What is shown is the gallery, or is going to be replaced.  The list the   *)
(* server handed down last would not be noticed a second time: if it is the  *)
(* gallery, it is shown.                                                     *)
ShownInOrder(g, calls) ==
    NoOrder(calls) =>
        /\ Listed = g.server => g.shown = Display
        /\ Settled(g, calls) =>
            IF g.arriving = << >> THEN g.shown = Display ELSE g.arriving[1] = Listed

InStepOK(g, calls) ==
    /\ ListsInOrder(g) /\ \A k \in Slots : RemovalInOrder(g, calls[k])
    /\ OrderAlone(g, calls) /\ ShownInOrder(g, calls)

GridInv ==
    /\ RowsInv
    /\ grid = [s \in Editors |-> grid[s]] /\ call = [s \in Editors |-> call[s]]
    /\ \A s \in Editors :
        /\ PageOK(grid[s], call[s])
        /\ grid[s].open /\ grid[s].inStep => InStepOK(grid[s], call[s])

(* A page becomes g; one of its calls becomes c.                             *)
Shows(s, g) == grid' = [grid EXCEPT ![s] = g]
Becomes(s, k, c) == call' = [call EXCEPT ![s][k] = c]
SameTable == UNCHANGED <<sort_order, unused>>

(* There are finitely many rows.                                             *)
LEMMA RowsAreFinite ==
  RowsInv => /\ IsFiniteSet(Rows) /\ Cardinality(Rows) \in Nat
             /\ Rows \subseteq Photos /\ Rows \subseteq Nat
             /\ \A p \in Rows : sort_order[p] \in Nat
<1> SUFFICES ASSUME RowsInv
             PROVE  /\ IsFiniteSet(Rows) /\ Cardinality(Rows) \in Nat
                    /\ Rows \subseteq Photos /\ Rows \subseteq Nat
                    /\ \A p \in Rows : sort_order[p] \in Nat
  OBVIOUS
<1>1. Rows \subseteq Photos /\ \A p \in Rows : sort_order[p] \in Nat
  BY DEF Rows, RowsInv
<1>2. Rows \subseteq Nat
  BY <1>1, PhotoAssumption
<1>3. IsFiniteSet(Rows)
  BY <1>1, PhotoAssumption, FS_Subset
<1>4. Cardinality(Rows) \in Nat
  BY <1>3, FS_CardinalityType
<1> QED
  BY <1>1, <1>2, <1>3, <1>4

(* Two photos are in an order.                                               *)
LEMMA BeforeIsAnOrder ==
  RowsInv => /\ \A p \in Rows : ~Before(p, p)
             /\ \A p, q \in Rows : p # q => Before(p, q) \/ Before(q, p)
             /\ \A p, q \in Rows : ~(Before(p, q) /\ Before(q, p))
             /\ \A p, q, r \in Rows : Before(p, q) /\ Before(q, r) => Before(p, r)
  BY RowsAreFinite DEF Before

(* The places of the photos are the numbers from 1 to how many there are.    *)
LEMMA PlacesAreNumbers ==
  RowsInv =>
    /\ \A p \in Rows : Place(p) \in 1..Cardinality(Rows)
    /\ \A p, q \in Rows : Place(p) = Place(q) => p = q
    /\ \A i \in 1..Cardinality(Rows) : \E p \in Rows : Place(p) = i
    /\ \A p, q \in Rows : Before(p, q) => Place(p) < Place(q)
<1> SUFFICES ASSUME RowsInv
             PROVE  /\ \A p \in Rows : Place(p) \in 1..Cardinality(Rows)
                    /\ \A p, q \in Rows : Place(p) = Place(q) => p = q
                    /\ \A i \in 1..Cardinality(Rows) : \E p \in Rows : Place(p) = i
                    /\ \A p, q \in Rows : Before(p, q) => Place(p) < Place(q)
  OBVIOUS
<1> DEFINE Ahead(p) == {q \in Rows : Before(q, p)}
           n == Cardinality(Rows)
<1>1. IsFiniteSet(Rows) /\ n \in Nat
  BY RowsAreFinite
<1>2. ASSUME NEW p \in Rows
      PROVE  /\ IsFiniteSet(Ahead(p)) /\ Cardinality(Ahead(p)) \in Nat
             /\ Cardinality(Ahead(p)) < n
  <2>1. Ahead(p) \in SUBSET Rows /\ Ahead(p) # Rows
    BY BeforeIsAnOrder
  <2>2. /\ IsFiniteSet(Ahead(p)) /\ Cardinality(Ahead(p)) <= n
        /\ Cardinality(Ahead(p)) # n
    BY <1>1, <2>1, FS_Subset
  <2>3. Cardinality(Ahead(p)) \in Nat
    BY <2>2, FS_CardinalityType
  <2> QED
    BY <1>1, <2>2, <2>3
<1>3. \A p \in Rows : Place(p) = Cardinality(Ahead(p)) + 1
  BY DEF Place
<1>4. \A p \in Rows : Place(p) \in 1..n
  <2> SUFFICES ASSUME NEW p \in Rows PROVE Place(p) \in 1..n
    OBVIOUS
  <2>1. Place(p) = Cardinality(Ahead(p)) + 1 /\ Cardinality(Ahead(p)) \in Nat
        /\ Cardinality(Ahead(p)) < n
    BY <1>2, <1>3
  <2> HIDE DEF Ahead, n
  <2> QED
    BY <1>1, <2>1
<1>5. ASSUME NEW p \in Rows, NEW q \in Rows, Before(p, q) PROVE Place(p) < Place(q)
  <2>1. Ahead(p) \in SUBSET Ahead(q)
    BY <1>5, BeforeIsAnOrder
  <2>2. p \in Ahead(q) /\ p \notin Ahead(p)
    BY <1>5, BeforeIsAnOrder
  <2>3. Cardinality(Ahead(p)) <= Cardinality(Ahead(q)) /\ Cardinality(Ahead(p)) # Cardinality(Ahead(q))
    <3> HIDE DEF Ahead
    <3> QED
      BY <1>2, <2>1, <2>2, FS_Subset
  <2>4. /\ Place(p) = Cardinality(Ahead(p)) + 1 /\ Cardinality(Ahead(p)) \in Nat
        /\ Place(q) = Cardinality(Ahead(q)) + 1 /\ Cardinality(Ahead(q)) \in Nat
    BY <1>2, <1>3
  <2> HIDE DEF Ahead
  <2> QED
    BY <2>3, <2>4
<1>6. ASSUME NEW p \in Rows, NEW q \in Rows, Place(p) = Place(q) PROVE p = q
  <2>1. Place(p) \in Nat /\ Place(q) \in Nat
    BY <1>1, <1>4
  <2> QED
    BY <1>5, <1>6, <2>1, BeforeIsAnOrder
<1>7. \A i \in 1..n : \E p \in Rows : Place(p) = i
  <2> DEFINE f == [p \in Rows |-> Place(p)]
  <2>1. f \in Injection(Rows, 1..n)
    BY <1>4, <1>6 DEF Injection, IsInjective
  <2>2. IsFiniteSet(1..n) /\ Cardinality(1..n) = n
    BY <1>1, FS_Interval
  <2>3. f \in Surjection(Rows, 1..n)
    <3> HIDE DEF f
    <3> QED
      BY <2>1, <2>2, FS_Injection
  <2> QED
    BY <2>3 DEF Surjection
<1> QED
  BY <1>4, <1>5, <1>6, <1>7

(* What the page is handed is each photo once, and the last has the greatest *)
(* sort_order.                                                               *)
LEMMA DisplayIsAGallery ==
  RowsInv => IsGallery(Display) /\ DOMAIN Display = 1..Cardinality(Rows)
<1> SUFFICES ASSUME RowsInv PROVE IsGallery(Display) /\ DOMAIN Display = 1..Cardinality(Rows)
  OBVIOUS
<1> DEFINE n == Cardinality(Rows)
<1>1. n \in Nat /\ DOMAIN Display = 1..n
  BY RowsAreFinite DEF Display
<1>2. \A i \in 1..n : Display[i] \in Rows /\ Place(Display[i]) = i
  BY PlacesAreNumbers DEF Display
<1>3. Display \in [1..n -> Rows]
  BY <1>1, <1>2 DEF Display
<1>4. Display \in Seq(Rows)
  BY <1>1, <1>3
<1>5. \A p \in Rows : \E i \in DOMAIN Display : Display[i] = p
  BY <1>1, <1>2, PlacesAreNumbers
<1>6. ToSet(Display) = Rows
  BY <1>1, <1>2, <1>5 DEF ToSet
<1> QED
  BY <1>1, <1>2, <1>4, <1>6 DEF IsGallery

(* Whatever lists each photo once, and lists none after one it comes before, *)
(* is what the page is handed.                                               *)
LEMMA SortedIsDisplay ==
  \A ids : /\ RowsInv /\ IsGallery(ids)
           /\ \A i, j \in DOMAIN ids : i < j => Before(ids[i], ids[j])
           => Display = ids
<1> SUFFICES ASSUME NEW ids, RowsInv, IsGallery(ids),
                    \A i, j \in DOMAIN ids : i < j => Before(ids[i], ids[j])
             PROVE  Display = ids
  OBVIOUS
<1> DEFINE m == Len(ids)
<1>1. /\ m \in Nat /\ DOMAIN ids = 1..m /\ ids \in [1..m -> Rows]
      /\ \A p \in Rows : \E i \in 1..m : ids[i] = p
      /\ \A i, j \in 1..m : ids[i] = ids[j] => i = j
  BY DEF IsGallery, ToSet
<1> HIDE DEF m
<1>2. Cardinality(Rows) = m
  <2>1. ids \in Bijection(1..m, Rows)
    BY <1>1 DEF Bijection, Injection, Surjection, IsInjective
  <2>2. IsFiniteSet(1..m) /\ Cardinality(1..m) = m
    BY <1>1, FS_Interval
  <2> QED
    BY <2>1, <2>2, FS_Bijection DEF ExistsBijection
<1>3. \A i, j \in 1..m : Before(ids[i], ids[j]) <=> i < j
  <2> SUFFICES ASSUME NEW i \in 1..m, NEW j \in 1..m PROVE Before(ids[i], ids[j]) <=> i < j
    OBVIOUS
  <2>1. i < j \/ i = j \/ j < i
    BY <1>1
  <2>2. ids[i] \in Rows /\ ids[j] \in Rows
    BY <1>1
  <2>3. j < i => Before(ids[j], ids[i])
    BY <1>1
  <2>4. i < j => Before(ids[i], ids[j])
    BY <1>1
  <2> QED
    BY <1>1, <2>1, <2>2, <2>3, <2>4, BeforeIsAnOrder
<1>4. ASSUME NEW i \in 1..m PROVE Place(ids[i]) = i
  <2> DEFINE S == {q \in Rows : Before(q, ids[i])}
             f == [j \in 1..(i - 1) |-> ids[j]]
  <2>1. \A q \in S : \E j \in 1..(i - 1) : ids[j] = q
    BY <1>1, <1>3
  <2>2. \A j \in 1..(i - 1) : ids[j] \in S
    BY <1>1, <1>3
  <2>3. f \in Bijection(1..(i - 1), S)
    <3>1. f \in [1..(i - 1) -> S]
      BY <2>2
    <3>2. \A j, k \in 1..(i - 1) : f[j] = f[k] => j = k
      BY <1>1
    <3>3. \A q \in S : \E j \in 1..(i - 1) : f[j] = q
      BY <2>1
    <3> HIDE DEF f, S
    <3> QED
      BY <3>1, <3>2, <3>3 DEF Bijection, Injection, Surjection, IsInjective
  <2>4. IsFiniteSet(1..(i - 1)) /\ Cardinality(1..(i - 1)) = i - 1
    BY <1>1, FS_Interval
  <2>5. Cardinality(S) = i - 1
    BY <2>3, <2>4, FS_Bijection DEF ExistsBijection
  <2> QED
    BY <1>1, <2>5 DEF Place
<1>5. \A i \in 1..m : (CHOOSE p \in Rows : Place(p) = i) = ids[i]
  BY <1>1, <1>4, PlacesAreNumbers
<1> QED
  BY <1>1, <1>2, <1>5 DEF Display

(* The end of the gallery is a number.                                       *)
LEMMA EndIsANumber == RowsInv => End \in Nat
<1> SUFFICES ASSUME RowsInv PROVE End \in Nat
  OBVIOUS
<1> DEFINE n == Cardinality(Rows)
           orders == {sort_order[p] : p \in Rows}
<1>1. n \in Nat /\ (Rows # {} => n # 0) /\ \A p \in Rows : sort_order[p] \in Nat
  BY RowsAreFinite, FS_EmptySet
<1>2. CASE Rows # {}
  <2>1. PICK p \in Rows : Place(p) = n
    BY <1>1, <1>2, PlacesAreNumbers
  <2>2. \A q \in Rows : ~Before(p, q)
    BY <1>1, <2>1, PlacesAreNumbers
  <2>3. \A q \in Rows : sort_order[p] >= sort_order[q]
    BY <1>1, <2>2 DEF Before
  <2>4. \E x \in orders : \A y \in orders : x >= y
    BY <2>3
  <2>5. Max(orders) \in orders
    BY <2>4 DEF Max
  <2>6. Max(orders) \in Nat
    BY <1>1, <2>5
  <2> QED
    BY <1>2, <2>6 DEF End
<1>3. CASE Rows = {}
  BY <1>3 DEF End
<1> QED
  BY <1>2, <1>3

(* The list the server hands down is of the photos, in the same order.       *)
LEMMA ListedIsTheGallery ==
  RowsInv => /\ Listed \in Lists /\ Ids(Listed) = Rows
             /\ [i \in DOMAIN Listed |-> Listed[i][1]] = Display
<1> SUFFICES ASSUME RowsInv
             PROVE  /\ Listed \in Lists /\ Ids(Listed) = Rows
                    /\ [i \in DOMAIN Listed |-> Listed[i][1]] = Display
  OBVIOUS
<1> DEFINE n == Cardinality(Rows)
<1>1. n \in Nat /\ DOMAIN Display = 1..n /\ \A i \in 1..n : Display[i] \in Rows
  BY RowsAreFinite, DisplayIsAGallery DEF IsGallery
<1>2. DOMAIN Listed = 1..n /\ \A i \in 1..n : Listed[i] = <<Display[i], sort_order[Display[i]]>>
  BY <1>1 DEF Listed
<1>3. ASSUME NEW i \in 1..n PROVE Listed[i] \in Photos \X Nat
  <2>1. Display[i] \in Photos /\ sort_order[Display[i]] \in Nat
    BY <1>1, RowsAreFinite
  <2>2. Listed[i] = <<Display[i], sort_order[Display[i]]>>
    BY <1>2
  <2> QED
    BY <2>1, <2>2
<1>4. Listed \in [1..n -> Photos \X Nat]
  BY <1>1, <1>2, <1>3 DEF Listed
<1>5. Listed \in Lists
  BY <1>1, <1>4 DEF Lists
<1>6. \A i \in 1..n : Listed[i][1] = Display[i]
  BY <1>2
<1>7. Ids(Listed) = ToSet(Display)
  BY <1>1, <1>2, <1>6 DEF Ids, ToSet
<1>8. ToSet(Display) = Rows
  BY DisplayIsAGallery DEF IsGallery
<1>9. [i \in DOMAIN Listed |-> Listed[i][1]] = Display
  BY <1>1, <1>2, <1>6 DEF Display
<1> QED
  BY <1>5, <1>7, <1>8, <1>9

(* The same after a step.                                                    *)
LEMMA ListedAfter == RowsInv' => Ids(Listed') = Rows'
<1>1. RowsInv => Ids(Listed) = Rows
  BY ListedIsTheGallery
<1>2. (RowsInv => Ids(Listed) = Rows)'
  BY <1>1, PTL
<1> QED
  BY <1>2 DEF Ids

(* The same after a step.                                                    *)
LEMMA SortedAfter ==
  \A ids : /\ RowsInv' /\ IsGallery(ids)'
           /\ \A i, j \in DOMAIN ids : i < j => Before(ids[i], ids[j])'
           => Display' = ids
<1>1. (\A ids : /\ RowsInv /\ IsGallery(ids)
                /\ \A i, j \in DOMAIN ids : i < j => Before(ids[i], ids[j])
                => Display = ids)'
  BY SortedIsDisplay, PTL
<1> QED
  BY <1>1 DEF IsGallery, Before

(* What RemoveAt leaves of a sequence.                                       *)
LEMMA RemoveAtIs ==
  ASSUME NEW S, NEW s \in Seq(S), NEW k \in 1..Len(s)
  PROVE  /\ RemoveAt(s, k) \in Seq(S) /\ Len(RemoveAt(s, k)) = Len(s) - 1
         /\ \A i \in 1..(Len(s) - 1) : RemoveAt(s, k)[i] = IF i < k THEN s[i] ELSE s[i + 1]
<1> DEFINE m == Len(s)
           a == SubSeq(s, 1, k - 1)
           b == SubSeq(s, k + 1, m)
<1>1. m \in Nat /\ k \in Nat /\ 1 <= k /\ k <= m /\ \A i \in 1..m : s[i] \in S
  BY LenProperties
<1>2. /\ a \in Seq(S) /\ Len(a) = k - 1 /\ \A i \in 1..(k - 1) : a[i] = s[i]
  <2>1. \A i \in 1..(k - 1) : s[i] \in S
    BY <1>1
  <2>2. 1 \in Int /\ k - 1 \in Int
    BY <1>1
  <2>3. /\ a \in Seq(S) /\ Len(a) = IF 1 <= k - 1 THEN (k - 1) - 1 + 1 ELSE 0
        /\ \A i \in 1..((k - 1) - 1 + 1) : a[i] = s[1 + i - 1]
    BY <2>1, <2>2, SubSeqProperties
  <2> HIDE DEF a
  <2> QED
    BY <1>1, <2>3
<1>3. /\ b \in Seq(S) /\ Len(b) = m - k /\ \A i \in 1..(m - k) : b[i] = s[k + i]
  <2>1. \A i \in (k + 1)..m : s[i] \in S
    BY <1>1
  <2>2. k + 1 \in Int /\ m \in Int
    BY <1>1
  <2>3. /\ b \in Seq(S) /\ Len(b) = IF k + 1 <= m THEN m - (k + 1) + 1 ELSE 0
        /\ \A i \in 1..(m - (k + 1) + 1) : b[i] = s[(k + 1) + i - 1]
    <3> HIDE DEF m
    <3> QED
      BY <2>1, <2>2, SubSeqProperties
  <2> HIDE DEF b, m
  <2> QED
    BY <1>1, <2>3
<1>4. RemoveAt(s, k) = a \o b
  BY DEF RemoveAt
<1> HIDE DEF a, b, m
<1>5. /\ a \o b \in Seq(S) /\ Len(a \o b) = Len(a) + Len(b)
      /\ \A i \in 1..(Len(a) + Len(b)) :
            (a \o b)[i] = IF i <= Len(a) THEN a[i] ELSE b[i - Len(a)]
  BY <1>2, <1>3, ConcatProperties
<1>6. ASSUME NEW i \in 1..(m - 1) PROVE (a \o b)[i] = IF i < k THEN s[i] ELSE s[i + 1]
  <2>1. CASE i < k
    <3>1. (a \o b)[i] = a[i]
      BY <1>1, <1>2, <1>3, <1>5, <2>1
    <3>2. a[i] = s[i]
      BY <1>1, <1>2, <2>1
    <3> QED
      BY <2>1, <3>1, <3>2
  <2>2. CASE i >= k
    <3> DEFINE j == i - (k - 1)
    <3>1. j \in 1..(m - k) /\ k + j = i + 1
      BY <1>1, <2>2
    <3>2. (a \o b)[i] = b[j]
      BY <1>1, <1>2, <1>3, <1>5, <2>2
    <3> HIDE DEF j
    <3>3. b[j] = s[k + j]
      BY <1>3, <3>1
    <3> QED
      BY <1>1, <2>2, <3>1, <3>2, <3>3
  <2>3. i < k \/ i >= k
    BY <1>1
  <2> QED
    BY <2>1, <2>2, <2>3
<1>7. Len(a \o b) = m - 1
  BY <1>1, <1>2, <1>3, <1>5
<1> QED
  BY <1>4, <1>5, <1>6, <1>7 DEF m

(* Two photos change places.                                                 *)
LEMMA SwapKeepsTheGallery ==
  ASSUME NEW ids, NEW i \in DOMAIN ids, NEW j \in DOMAIN ids
  PROVE  LET next == [ids EXCEPT ![i] = ids[j], ![j] = ids[i]] IN
         /\ ids \in Seq(Photos) => next \in Seq(Photos)
         /\ IsGallery(ids) => IsGallery(next)
<1> DEFINE next == [ids EXCEPT ![i] = ids[j], ![j] = ids[i]]
           m == Len(ids)
<1>1. ASSUME NEW S, ids \in Seq(S) PROVE next \in Seq(S) /\ m \in Nat /\ DOMAIN ids = 1..m
  <2>1. m \in Nat /\ ids \in [1..m -> S] /\ DOMAIN ids = 1..m
    BY <1>1
  <2>2. next \in [1..m -> S]
    BY <2>1
  <2> QED
    BY <2>1, <2>2
<1>2. ASSUME IsGallery(ids) PROVE IsGallery(next)
  <2>1. next \in Seq(Rows) /\ ids \in Seq(Rows) /\ DOMAIN ids = 1..m /\ m \in Nat
    BY <1>1, <1>2 DEF IsGallery
  <2>2. DOMAIN next = DOMAIN ids
    OBVIOUS
  <2>3. \A k \in DOMAIN ids : next[k] = IF k = j THEN ids[i] ELSE IF k = i THEN ids[j] ELSE ids[k]
    OBVIOUS
  <2>4. \A p \in Rows : \E k \in DOMAIN next : next[k] = p
    <3> SUFFICES ASSUME NEW p \in Rows PROVE \E k \in DOMAIN next : next[k] = p
      OBVIOUS
    <3>1. PICK k \in DOMAIN ids : ids[k] = p
      BY <1>2 DEF IsGallery, ToSet
    <3> HIDE DEF next
    <3> QED
      BY <2>2, <2>3, <3>1
  <2>5. ToSet(next) = Rows
    <3>1. \A k \in DOMAIN next : next[k] \in Rows
      BY <2>1, <2>2, <2>3
    <3> HIDE DEF next
    <3> QED
      BY <2>4, <3>1 DEF ToSet
  <2>6. \A k, l \in DOMAIN next : next[k] = next[l] => k = l
    <3>1. \A k, l \in DOMAIN ids : ids[k] = ids[l] => k = l
      BY <1>2 DEF IsGallery
    <3> HIDE DEF next
    <3> QED
      BY <2>2, <2>3, <3>1
  <2> HIDE DEF next
  <2> QED
    BY <2>1, <2>5, <2>6 DEF IsGallery
<1> QED
  BY <1>1, <1>2

(* A photo goes to the front.                                                *)
LEMMA HeroKeepsTheGallery ==
  ASSUME NEW ids, NEW k \in DOMAIN ids
  PROVE  LET next == <<ids[k]>> \o RemoveAt(ids, k) IN
         /\ ids \in Seq(Photos) => next \in Seq(Photos)
         /\ IsGallery(ids) => IsGallery(next)
<1> DEFINE next == <<ids[k]>> \o RemoveAt(ids, k)
           m == Len(ids)
<1>1. ASSUME NEW S, ids \in Seq(S)
      PROVE  /\ next \in Seq(S) /\ m \in Nat /\ DOMAIN ids = 1..m /\ DOMAIN next = 1..m
             /\ \A i \in 1..m : next[i] = IF i = 1 THEN ids[k]
                                           ELSE IF i <= k THEN ids[i - 1] ELSE ids[i]
  <2>1. m \in Nat /\ ids \in [1..m -> S] /\ DOMAIN ids = 1..m /\ k \in 1..m
    BY <1>1
  <2> DEFINE c == RemoveAt(ids, k)
  <2>2. /\ c \in Seq(S) /\ Len(c) = m - 1
        /\ \A i \in 1..(m - 1) : c[i] = IF i < k THEN ids[i] ELSE ids[i + 1]
    BY <1>1, <2>1, RemoveAtIs, Zenon
  <2>7. <<ids[k]>> \in Seq(S) /\ Len(<<ids[k]>>) = 1 /\ <<ids[k]>>[1] = ids[k]
    BY <2>1
  <2> DEFINE h == <<ids[k]>>
  <2>3. /\ h \o c \in Seq(S) /\ Len(h \o c) = Len(h) + Len(c)
        /\ \A i \in 1..(Len(h) + Len(c)) :
              (h \o c)[i] = IF i <= Len(h) THEN h[i] ELSE c[i - Len(h)]
    BY <2>2, <2>7, ConcatProperties
  <2>4. next = h \o c
    OBVIOUS
  <2> HIDE DEF c, next, m, h
  <2>8. Len(h) = 1 /\ h[1] = ids[k] /\ Len(h) + Len(c) = m
    BY <2>1, <2>2, <2>7 DEF h
  <2>10. next \in Seq(S) /\ DOMAIN next = 1..m
    BY <2>1, <2>3, <2>4, <2>8, LenProperties
  <2>11. \A i \in 1..m : next[i] = IF i = 1 THEN ids[k] ELSE c[i - 1]
    BY <2>1, <2>3, <2>4, <2>8
  <2>12. ASSUME NEW i \in 1..m
         PROVE  next[i] = IF i = 1 THEN ids[k] ELSE IF i <= k THEN ids[i - 1] ELSE ids[i]
    <3>1. i # 1 => i - 1 \in 1..(m - 1) /\ (i - 1 < k <=> i <= k) /\ (i - 1) + 1 = i
      BY <2>1
    <3> QED
      BY <2>2, <2>11, <3>1
  <2> QED
    BY <2>1, <2>10, <2>12
<1>2. ASSUME IsGallery(ids) PROVE IsGallery(next)
  <2>1. /\ next \in Seq(Rows) /\ m \in Nat /\ DOMAIN ids = 1..m /\ DOMAIN next = 1..m
        /\ \A i \in 1..m : next[i] = IF i = 1 THEN ids[k]
                                      ELSE IF i <= k THEN ids[i - 1] ELSE ids[i]
    BY <1>1, <1>2 DEF IsGallery
  <2> HIDE DEF next, m
  <2>2. /\ \A i, j \in 1..m : ids[i] = ids[j] => i = j
        /\ \A i \in 1..m : ids[i] \in Rows
        /\ \A p \in Rows : \E i \in 1..m : ids[i] = p
    <3>1. /\ \A i, j \in DOMAIN ids : ids[i] = ids[j] => i = j
          /\ {ids[i] : i \in DOMAIN ids} = Rows
      BY <1>2 DEF IsGallery, ToSet
    <3>2. DOMAIN ids = 1..m
      BY <2>1
    <3> HIDE DEF m
    <3> QED
      BY <3>1, <3>2
  <2>3. \A p \in Rows : \E i \in 1..m : next[i] = p
    <3> SUFFICES ASSUME NEW p \in Rows PROVE \E i \in 1..m : next[i] = p
      OBVIOUS
    <3>1. PICK i \in 1..m : ids[i] = p
      BY <2>2
    <3>2. CASE i = k
      BY <2>1, <3>1, <3>2
    <3>3. CASE i < k
      <4>1. i + 1 \in 1..m /\ i + 1 # 1 /\ i + 1 <= k
        BY <2>1, <3>3
      <4> QED
        BY <2>1, <3>1, <4>1
    <3>4. CASE i > k
      BY <2>1, <3>1, <3>4
    <3> QED
      BY <2>1, <3>2, <3>3, <3>4
  <2>4. ASSUME NEW i \in 1..m, NEW j \in 1..m, next[i] = next[j] PROVE i = j
    <3> DEFINE from(n) == IF n = 1 THEN k ELSE IF n <= k THEN n - 1 ELSE n
    <3>1. /\ k \in 1..m /\ from(i) \in 1..m /\ from(j) \in 1..m
          /\ (from(i) = from(j) => i = j)
      BY <2>1
    <3>2. next[i] = ids[from(i)] /\ next[j] = ids[from(j)]
      BY <2>1
    <3> HIDE DEF from
    <3>3. from(i) = from(j)
      BY <2>2, <2>4, <3>1, <3>2
    <3> QED
      BY <3>1, <3>3
  <2>5. ToSet(next) = Rows
    <3>1. \A i \in 1..m : next[i] \in Rows
      BY <2>1
    <3> QED
      BY <2>1, <2>3, <3>1 DEF ToSet
  <2> QED
    BY <2>1, <2>4, <2>5 DEF IsGallery
<1> QED
  BY <1>1, <1>2

(* A photo is taken off the page.                                            *)
LEMMA WithoutTakesAway ==
  ASSUME NEW shown \in Seq(Photos), NEW p
  PROVE  /\ Without(shown, p) \in Seq(Photos)
         /\ ToSet(Without(shown, p)) \subseteq ToSet(shown)
         /\ p \notin ToSet(shown) => Without(shown, p) = shown
<1>1. CASE p \notin ToSet(shown)
  BY <1>1 DEF Without
<1>2. CASE p \in ToSet(shown)
  <2> DEFINE m == Len(shown)
             k == CHOOSE i \in DOMAIN shown : shown[i] = p
             new == RemoveAt(shown, k)
  <2>1. m \in Nat /\ DOMAIN shown = 1..m
    BY LenProperties
  <2>2. k \in 1..m
    BY <1>2, <2>1 DEF ToSet
  <2>3. Without(shown, p) = new
    BY <1>2 DEF Without
  <2> HIDE DEF k
  <2>4. /\ new \in Seq(Photos) /\ Len(new) = m - 1
        /\ \A i \in 1..(m - 1) : new[i] = IF i < k THEN shown[i] ELSE shown[i + 1]
    BY <2>2, RemoveAtIs
  <2> HIDE DEF new, m
  <2>5. DOMAIN new = 1..(m - 1)
    BY <2>4, LenProperties
  <2>6. \A i \in 1..(m - 1) : i \in DOMAIN shown /\ i + 1 \in DOMAIN shown
    BY <2>1
  <2>7. ToSet(new) \subseteq ToSet(shown)
    BY <2>4, <2>5, <2>6 DEF ToSet
  <2> QED
    BY <1>2, <2>3, <2>4, <2>7
<1> QED
  BY <1>1, <1>2

(* At first no page is open.                                                 *)
LEMMA GridInit == Init => GridInv
<1> SUFFICES ASSUME Init PROVE GridInv
  OBVIOUS
<1> DEFINE rows == scene.photos
<1>1. \A p \in DOMAIN rows : rows[p] \in Nat
  BY SceneAssumption DEF Init
<1>2. /\ sort_order = [p \in Photos |-> IF p \in DOMAIN rows THEN rows[p] ELSE None]
      /\ unused = Photos \ DOMAIN rows
      /\ grid = [s \in Editors |-> Closed] /\ call = [s \in Editors |-> [k \in Slots |-> NoCall]]
  BY DEF Init, InitPhotos
<1>3. RowsInv
  <2> HIDE DEF rows
  <2>1. sort_order \in [Photos -> Nat \cup {None}]
    BY <1>1, <1>2
  <2>2. \A p \in unused : sort_order[p] = None
    BY <1>2
  <2> QED
    BY <1>2, <2>1, <2>2 DEF RowsInv, Rows
<1>4. GridOK(Closed)
  <2>1. << >> \in Seq(Photos) /\ << >> \in Lists
    BY EmptySeq DEF Lists
  <2> QED
    BY <2>1 DEF GridOK, Closed, GridFields
<1>5. ~Closed.open /\ \A s \in Editors : grid[s] = Closed /\ call[s] = [k \in Slots |-> NoCall]
  BY <1>2 DEF Closed
<1>6. ASSUME NEW s \in Editors PROVE PageOK(grid[s], call[s])
  BY <1>4, <1>5 DEF PageOK, CallOK
<1> QED
  BY <1>2, <1>3, <1>5, <1>6 DEF GridInv

(* A page depends on its own state and the table alone.                      *)
LEMMA TableStays ==
  ASSUME UNCHANGED <<sort_order, unused>>
  PROVE  /\ RowsInv => RowsInv'
         /\ Rows' = Rows /\ Display' = Display /\ Listed' = Listed
         /\ \A g, calls : /\ PageOK(g, calls) => PageOK(g, calls)'
                          /\ InStepOK(g, calls) => InStepOK(g, calls)'
<1>1. Rows' = Rows
  BY DEF Rows
<1>2. Display' = Display
  BY <1>1 DEF Display, Place, Before
<1>3. Listed' = Listed
  BY <1>2 DEF Listed
<1>4. RowsInv => RowsInv'
  BY <1>1 DEF RowsInv
<1>5. ASSUME NEW g, NEW calls, PageOK(g, calls) PROVE PageOK(g, calls)'
  BY <1>5 DEF PageOK
<1>6. ASSUME NEW g, NEW calls, InStepOK(g, calls) PROVE InStepOK(g, calls)'
  BY <1>1, <1>2, <1>3, <1>6 DEF InStepOK, ListsInOrder, RemovalInOrder, OrderAlone, ShownInOrder,
     IsGallery
<1> QED
  BY <1>1, <1>2, <1>3, <1>4, <1>5, <1>6

(* Nothing about the photos happens.                                         *)
LEMMA GridStutter == GridInv /\ UNCHANGED photoVars => GridInv'
<1> SUFFICES ASSUME GridInv, UNCHANGED photoVars PROVE GridInv'
  OBVIOUS
<1>1. UNCHANGED <<sort_order, unused, grid, call>>
  BY DEF photoVars
<1>2. RowsInv'
  BY <1>1, TableStays DEF GridInv
<1>3. ASSUME NEW s \in Editors
      PROVE  PageOK(grid[s], call[s])' /\ (grid[s].open /\ grid[s].inStep => InStepOK(grid[s], call[s]))'
  <2> PICK g, calls : g = grid[s] /\ calls = call[s]
    OBVIOUS
  <2>1. PageOK(g, calls) /\ (g.open /\ g.inStep => InStepOK(g, calls))
    BY DEF GridInv
  <2>2. PageOK(g, calls)' /\ (g.open /\ g.inStep => InStepOK(g, calls)')
    BY <1>1, <2>1, TableStays
  <2>3. grid'[s] = g /\ call'[s] = calls
    BY <1>1
  <2> QED
    BY <2>2, <2>3 DEF PageOK, InStepOK, ListsInOrder, RemovalInOrder, OrderAlone, ShownInOrder
<1> QED
  BY <1>1, <1>2, <1>3 DEF GridInv

(* A page moves while the table stays.                                       *)
LEMMA PageMoves ==
  ASSUME GridInv, NEW s \in Editors, NEW g, NEW calls,
         grid' = [grid EXCEPT ![s] = g], call' = [call EXCEPT ![s] = calls],
         UNCHANGED <<sort_order, unused>>,
         PageOK(g, calls), g.open /\ g.inStep => InStepOK(g, calls)
  PROVE  GridInv'
<1>1. RowsInv'
  BY TableStays DEF GridInv
<1>2. ASSUME NEW x \in Editors
      PROVE  PageOK(grid[x], call[x])' /\ (grid[x].open /\ grid[x].inStep => InStepOK(grid[x], call[x]))'
  <2> PICK h, ds : h = grid'[x] /\ ds = call'[x]
    OBVIOUS
  <2>1. CASE x = s
    <3>1. h = g /\ ds = calls
      BY <2>1 DEF GridInv
    <3>2. PageOK(h, ds)' /\ (h.open /\ h.inStep => InStepOK(h, ds)')
      BY <3>1, TableStays
    <3> QED
      BY <3>2 DEF PageOK, InStepOK, ListsInOrder, RemovalInOrder, OrderAlone, ShownInOrder
  <2>2. CASE x # s
    <3>1. h = grid[x] /\ ds = call[x]
      BY <2>2 DEF GridInv
    <3>2. PageOK(h, ds) /\ (h.open /\ h.inStep => InStepOK(h, ds))
      BY <3>1 DEF GridInv
    <3>3. PageOK(h, ds)' /\ (h.open /\ h.inStep => InStepOK(h, ds)')
      BY <3>2, TableStays
    <3> QED
      BY <3>3 DEF PageOK, InStepOK, ListsInOrder, RemovalInOrder, OrderAlone, ShownInOrder
  <2> QED
    BY <2>1, <2>2
<1>3. grid' = [x \in Editors |-> grid'[x]] /\ call' = [x \in Editors |-> call'[x]]
  BY DEF GridInv
<1> QED
  BY <1>1, <1>2, <1>3 DEF GridInv

(* The table moves: the pages of the others are out of step.                 *)
LEMMA TableMoves ==
  ASSUME GridInv, NEW s \in Editors, NEW g, NEW calls, g = grid[s], RowsInv',
         grid' = Unnoticed(s), call' = [call EXCEPT ![s] = calls],
         PageOK(g, calls), g.open /\ g.inStep => InStepOK(g, calls)'
  PROVE  GridInv'
<1>1. ASSUME NEW x \in Editors
      PROVE  PageOK(grid[x], call[x])' /\ (grid[x].open /\ grid[x].inStep => InStepOK(grid[x], call[x]))'
  <2>1. CASE x = s
    <3>1. grid'[x] = g /\ call'[x] = calls
      BY <2>1 DEF GridInv, Unnoticed
    <3> QED
      BY <3>1 DEF PageOK, InStepOK, ListsInOrder, RemovalInOrder, OrderAlone, ShownInOrder
  <2>2. CASE x # s
    <3> PICK h, ds : h = grid[x] /\ ds = call[x]
      OBVIOUS
    <3>1. grid'[x] = [h EXCEPT !.inStep = FALSE] /\ call'[x] = ds
      BY <2>2 DEF GridInv, Unnoticed
    <3>2. PageOK(h, ds)
      BY DEF GridInv
    <3>3. /\ grid'[x] = [f \in GridFields |-> grid'[x][f]] /\ grid'[x].inStep = FALSE
          /\ grid'[x].open = h.open /\ grid'[x].stale = h.stale /\ grid'[x].shown = h.shown
          /\ grid'[x].server = h.server /\ grid'[x].arriving = h.arriving
      BY <3>1, <3>2 DEF PageOK, GridOK, GridFields, Closed
    <3>4. GridOK(grid'[x])
      BY <3>2, <3>3 DEF PageOK, GridOK
    <3> QED
      BY <3>1, <3>2, <3>3, <3>4 DEF PageOK
  <2> QED
    BY <2>1, <2>2
<1>2. grid' = [x \in Editors |-> grid'[x]] /\ call' = [x \in Editors |-> call'[x]]
  BY DEF GridInv, Unnoticed
<1> QED
  BY <1>1, <1>2 DEF GridInv

(* A call that is not a new order begins.                                    *)
LEMMA BeginInStep ==
  ASSUME RowsInv, NEW g, NEW cs, InStepOK(g, cs), NEW k \in Slots, cs[k] = NoCall,
         NoOrder(cs), NEW c, c.pc \in {"uploading", "removing"},
         c.pc = "removing" => c.id \in ToSet(g.shown),
         NEW h, h.shown = g.shown, h.server = g.server, h.stale = g.stale,
         h.arriving = g.arriving,
         NEW ds, ds[k] = c, \A l \in Slots \ {k} : ds[l] = cs[l]
  PROVE  InStepOK(h, ds)
<1>1. ListsInOrder(h)
  BY DEF InStepOK, ListsInOrder
<1>2. ASSUME NEW l \in Slots PROVE RemovalInOrder(h, ds[l])
  <2>1. CASE l = k
    BY <2>1 DEF InStepOK, ListsInOrder, RemovalInOrder
  <2>2. CASE l # k
    BY <2>2 DEF InStepOK, RemovalInOrder
  <2> QED
    BY <2>1, <2>2
<1>3. NoOrder(ds) /\ OrderAlone(h, ds)
  BY DEF NoOrder, OrderAlone
<1>4. Settled(h, ds) => Settled(g, cs)
  BY DEF Settled, NoCall
<1>5. ShownInOrder(h, ds)
  BY <1>4 DEF InStepOK, ShownInOrder
<1> QED
  BY <1>1, <1>2, <1>3, <1>5 DEF InStepOK

(* A new order is sent while nothing else is under way.                      *)
LEMMA OrderInStep ==
  ASSUME RowsInv, NEW g, NEW cs, InStepOK(g, cs), NEW k \in Slots,
         \A l \in Slots : cs[l] = NoCall, ~g.stale, g.arriving = << >>,
         NEW c, c.pc = "ordering", IsGallery(g.shown) => IsGallery(c.ids),
         NEW h, h.shown = c.ids, h.server = g.server, ~h.stale, h.arriving = << >>,
         NEW ds, ds[k] = c, \A l \in Slots \ {k} : ds[l] = cs[l]
  PROVE  InStepOK(h, ds)
<1>1. NoOrder(cs) /\ Settled(g, cs)
  BY DEF NoOrder, Settled, NoCall
<1>2. IsGallery(g.shown) /\ IsGallery(c.ids)
  BY <1>1, DisplayIsAGallery DEF InStepOK, ShownInOrder
<1>3. ListsInOrder(h)
  BY <1>2 DEF InStepOK, ListsInOrder, IsGallery
<1>4. \A l \in Slots : RemovalInOrder(h, ds[l])
  BY DEF RemovalInOrder, NoCall
<1>5. OrderAlone(h, ds)
  BY <1>2 DEF OrderAlone, NoCall
<1>6. ShownInOrder(h, ds)
  BY DEF ShownInOrder, NoOrder
<1> QED
  BY <1>3, <1>4, <1>5, <1>6 DEF InStepOK

(* A page sends a call.                                                      *)
LEMMA SendKeepsTheGrid ==
  ASSUME GridInv, NEW s \in Editors, NEW k \in Slots, NEW c, NEW shown,
         Send(s, k, c, shown), CallOK(c), shown \in Seq(Photos),
         \/ c.pc \in {"uploading", "removing"} /\ shown = grid[s].shown
         \/ c.pc = "ordering" /\ shown = c.ids,
         c.pc = "removing" => c.id \in ToSet(shown),
         c.pc = "ordering" => (IsGallery(grid[s].shown) => IsGallery(shown))
  PROVE  GridInv'
<1> PICK g, cs : g = grid[s] /\ cs = call[s]
  OBVIOUS
<1> PICK b : b = (g.inStep /\ IF c.pc = "ordering" THEN Quiet(s) ELSE ~Ordering(s))
  OBVIOUS
<1> DEFINE h == [g EXCEPT !.shown = shown, !.inStep = b]
           ds == [cs EXCEPT ![k] = c]
<1>1. PageOK(g, cs) /\ (g.open /\ g.inStep => InStepOK(g, cs)) /\ RowsInv
  BY DEF GridInv
<1>2. /\ grid' = [grid EXCEPT ![s] = h] /\ call' = [call EXCEPT ![s] = ds]
      /\ g.open /\ cs[k] = NoCall /\ UNCHANGED <<sort_order, unused>>
  <2>1. /\ grid' = [grid EXCEPT ![s].shown = shown, ![s].inStep = b]
        /\ call' = [call EXCEPT ![s][k] = c]
        /\ g.open /\ cs[k] = NoCall /\ UNCHANGED <<sort_order, unused>>
    BY DEF Send
  <2> QED
    BY <2>1 DEF GridInv
<1>3. /\ h = [f \in GridFields |-> h[f]]
      /\ h.open = g.open /\ h.stale = g.stale /\ h.shown = shown /\ h.server = g.server
      /\ h.arriving = g.arriving /\ h.inStep = b
  BY <1>1 DEF PageOK, GridOK, GridFields, Closed
<1>4. b \in BOOLEAN /\ (b => g.inStep)
      /\ (b => IF c.pc = "ordering" THEN Quiet(s) ELSE ~Ordering(s))
  BY <1>1 DEF PageOK, GridOK
<1> HIDE DEF h
<1>5. GridOK(h)
  BY <1>1, <1>3, <1>4 DEF PageOK, GridOK
<1>6. /\ PageOK(h, ds) /\ ds[k] = c
      /\ \A l \in Slots \ {k} : ds[l] = cs[l]
  <2>1. h.open /\ PageOK(g, cs) /\ ds = [cs EXCEPT ![k] = c]
    BY <1>1, <1>2, <1>3
  <2> HIDE DEF ds
  <2> QED
    BY <1>5, <2>1 DEF PageOK
<1> HIDE DEF ds
<1>7. ASSUME h.inStep PROVE InStepOK(h, ds)
  <2>1. InStepOK(g, cs)
    BY <1>1, <1>2, <1>3, <1>4, <1>7
  <2>2. CASE c.pc = "ordering"
    <3>1. /\ \A l \in Slots : cs[l] = NoCall
          /\ ~g.stale /\ g.arriving = << >>
      BY <1>3, <1>4, <1>7, <2>2 DEF Quiet
    <3> QED
      BY <1>1, <1>3, <1>6, <2>1, <2>2, <3>1, OrderInStep
  <2>3. CASE c.pc # "ordering"
    <3>1. NoOrder(cs)
      BY <1>3, <1>4, <1>7, <2>3 DEF Ordering, NoOrder
    <3> QED
      BY <1>1, <1>2, <1>3, <1>6, <2>1, <2>3, <3>1, BeginInStep
  <2> QED
    BY <2>2, <2>3
<1> QED
  BY <1>2, <1>6, <1>7, PageMoves

(* Whatever a page sends is an upload, a removal or an order of what is on it.*)
LEMMA SendsKeepTheGrid ==
  ASSUME GridInv, NEW s \in Editors, NEW k \in Slots
  PROVE  /\ Upload(s, k) => GridInv'
         /\ \A i, j : Move(s, k, i, j) => GridInv'
         /\ \A i : MakeHero(s, k, i) => GridInv'
         /\ \A p \in Photos : AskRemoval(s, k, p) => GridInv'
<1>1. grid[s].shown \in Seq(Photos)
  BY DEF GridInv, PageOK, GridOK
<1>2. ASSUME Upload(s, k) PROVE GridInv'
  BY <1>1, <1>2, SendKeepsTheGrid DEF Upload, CallOK
<1>3. ASSUME NEW i, NEW j, Move(s, k, i, j) PROVE GridInv'
  <2> DEFINE next == [grid[s].shown EXCEPT ![i] = grid[s].shown[j], ![j] = grid[s].shown[i]]
             c == [pc |-> "ordering", ids |-> next]
  <2>1. Send(s, k, c, next) /\ i \in DOMAIN grid[s].shown /\ j \in DOMAIN grid[s].shown
    BY <1>3 DEF Move, Reorder
  <2>2. next \in Seq(Photos) /\ (IsGallery(grid[s].shown) => IsGallery(next))
    BY <1>1, <2>1, SwapKeepsTheGallery
  <2>3. c.pc = "ordering" /\ c.ids = next /\ CallOK(c)
    BY <2>2 DEF CallOK
  <2> HIDE DEF next, c
  <2> QED
    BY <2>1, <2>2, <2>3, SendKeepsTheGrid
<1>4. ASSUME NEW i, MakeHero(s, k, i) PROVE GridInv'
  <2> DEFINE next == <<grid[s].shown[i]>> \o RemoveAt(grid[s].shown, i)
             c == [pc |-> "ordering", ids |-> next]
  <2>1. Send(s, k, c, next) /\ i \in DOMAIN grid[s].shown
    BY <1>4 DEF MakeHero, Reorder
  <2>2. next \in Seq(Photos) /\ (IsGallery(grid[s].shown) => IsGallery(next))
    BY <1>1, <2>1, HeroKeepsTheGallery
  <2>3. c.pc = "ordering" /\ c.ids = next /\ CallOK(c)
    BY <2>2 DEF CallOK
  <2> HIDE DEF next, c
  <2> QED
    BY <2>1, <2>2, <2>3, SendKeepsTheGrid
<1>5. ASSUME NEW p \in Photos, AskRemoval(s, k, p) PROVE GridInv'
  <2> DEFINE c == [pc |-> "removing", id |-> p]
  <2>1. Send(s, k, c, grid[s].shown) /\ p \in ToSet(grid[s].shown)
    BY <1>5 DEF AskRemoval
  <2>2. c.pc = "removing" /\ c.id = p /\ CallOK(c)
    BY DEF CallOK
  <2> HIDE DEF c
  <2> QED
    BY <1>1, <2>1, <2>2, SendKeepsTheGrid
<1> QED
  BY <1>2, <1>3, <1>4, <1>5

(* A call other than a new order moves on, or is over: the page is refreshed *)
(* if the table has changed.                                                 *)
LEMMA CallInStep ==
  ASSUME RowsInv, NEW g, NEW cs, InStepOK(g, cs), NEW k \in Slots, cs[k] # NoCall,
         cs[k].pc # "ordering", NEW c, c.pc \in {"none", "reserving"},
         NEW h, h.server = g.server, h.stale \in BOOLEAN, h.arriving = g.arriving,
         \/ h.shown = g.shown
         \/ /\ ToSet(h.shown) \subseteq ToSet(g.shown) /\ h.stale
            /\ Listed = g.server => h.shown = g.shown,
         g.stale => h.stale, cs[k].pc \in {"uploaded", "removed"} => h.stale,
         NEW ds, ds[k] = c, \A l \in Slots \ {k} : ds[l] = cs[l]
  PROVE  InStepOK(h, ds)
<1>1. ListsInOrder(h)
  BY DEF InStepOK, ListsInOrder
<1>2. ASSUME NEW l \in Slots PROVE RemovalInOrder(h, ds[l])
  <2>1. CASE l = k
    BY <2>1 DEF RemovalInOrder
  <2>2. CASE l # k
    BY <2>2 DEF InStepOK, RemovalInOrder
  <2> QED
    BY <2>1, <2>2
<1>3. NoOrder(cs)
  BY DEF InStepOK, OrderAlone, NoOrder
<1>4. NoOrder(ds) /\ OrderAlone(h, ds)
  BY <1>3 DEF NoOrder, OrderAlone
<1>5. Settled(h, ds) => Settled(g, cs) /\ h.shown = g.shown
  <2>1. ASSUME Settled(h, ds), NEW l \in Slots PROVE cs[l].pc \notin {"uploaded", "removed"}
    BY <2>1 DEF Settled
  <2>2. Settled(h, ds) => ~g.stale /\ ~h.stale
    BY DEF Settled
  <2>3. h.stale \/ h.shown = g.shown
    OBVIOUS
  <2> QED
    BY <2>1, <2>2, <2>3 DEF Settled
<1>6. Listed = h.server => h.shown = g.shown /\ Listed = g.server
  OBVIOUS
<1>7. ShownInOrder(h, ds)
  BY <1>3, <1>5, <1>6 DEF InStepOK, ShownInOrder
<1> QED
  BY <1>1, <1>2, <1>4, <1>7 DEF InStepOK

(* A call that the server has answered is over.                              *)
LEMMA ReturnKeepsTheGrid ==
  ASSUME GridInv, NEW s \in Editors, NEW k \in Slots, NEW h, NEW c, c.pc \in {"none", "reserving"},
         CallOK(c), GridOK(h), h.open = grid[s].open, call[s][k] # NoCall,
         Shows(s, h), Becomes(s, k, c), SameTable,
         h.inStep => grid[s].inStep,
         h.inStep =>
            /\ call[s][k].pc # "ordering" /\ h.server = grid[s].server
            /\ h.arriving = grid[s].arriving
            /\ \/ h.shown = grid[s].shown
               \/ /\ ToSet(h.shown) \subseteq ToSet(grid[s].shown) /\ h.stale
                  /\ Listed = grid[s].server => h.shown = grid[s].shown
            /\ grid[s].stale => h.stale
            /\ call[s][k].pc \in {"uploaded", "removed"} => h.stale
  PROVE  GridInv'
<1> PICK g, cs : g = grid[s] /\ cs = call[s]
  OBVIOUS
<1> DEFINE ds == [cs EXCEPT ![k] = c]
<1>1. PageOK(g, cs) /\ (g.open /\ g.inStep => InStepOK(g, cs)) /\ RowsInv
  BY DEF GridInv
<1>2. /\ g.open /\ h.open /\ grid' = [grid EXCEPT ![s] = h]
      /\ call' = [call EXCEPT ![s] = ds] /\ UNCHANGED <<sort_order, unused>>
  BY <1>1 DEF PageOK, Shows, Becomes, SameTable
<1>3. /\ PageOK(h, ds) /\ ds[k] = c
      /\ \A l \in Slots \ {k} : ds[l] = cs[l]
  BY <1>1, <1>2 DEF PageOK
<1>4. h.stale \in BOOLEAN
  BY DEF GridOK
<1> HIDE DEF ds
<1>5. ASSUME h.inStep PROVE InStepOK(h, ds)
  <2>1. InStepOK(g, cs)
    BY <1>1, <1>2, <1>5
  <2>2. cs[k] # NoCall /\ cs[k].pc # "ordering"
    BY <1>5
  <2>3. /\ h.server = g.server /\ h.arriving = g.arriving
        /\ \/ h.shown = g.shown
           \/ /\ ToSet(h.shown) \subseteq ToSet(g.shown) /\ h.stale
              /\ Listed = g.server => h.shown = g.shown
        /\ g.stale => h.stale
        /\ cs[k].pc \in {"uploaded", "removed"} => h.stale
    BY <1>5
  <2> QED
    BY <1>1, <1>3, <1>4, <2>1, <2>2, <2>3, CallInStep
<1> QED
  BY <1>2, <1>3, <1>5, PageMoves

(* The calls that change nothing but the page itself.                        *)
LEMMA ReturnsKeepTheGrid ==
  ASSUME GridInv, NEW s \in Editors, NEW k \in Slots
  PROVE  /\ TakeEnd(s, k) => GridInv'
         /\ Uploaded(s, k) => GridInv'
         /\ OrderRefused(s, k) => GridInv'
         /\ RemovalShown(s, k) => GridInv'
         /\ RemovalFails(s, k) => GridInv'
<1> PICK g, cs : g = grid[s] /\ cs = call[s]
  OBVIOUS
<1>1. PageOK(g, cs) /\ (g.open /\ g.inStep => InStepOK(g, cs)) /\ RowsInv
  BY DEF GridInv
<1>2. GridOK(g) /\ CallOK(cs[k]) /\ (cs[k].pc # "none" => g.open /\ cs[k] # NoCall)
  BY <1>1 DEF PageOK, NoCall
<1>3. ASSUME NEW h, h = [f \in GridFields |-> h[f]], h.open = g.open, h.stale \in BOOLEAN,
             h.inStep \in BOOLEAN, h.shown \in Seq(Photos), h.server = g.server,
             h.arriving = g.arriving
      PROVE  GridOK(h)
  BY <1>2, <1>3 DEF GridOK
<1>4. CallOK(NoCall) /\ NoCall.pc = "none"
  BY DEF CallOK, NoCall
<1>5. ASSUME TakeEnd(s, k) PROVE GridInv'
  <2> DEFINE c == [pc |-> "reserving", end |-> End]
  <2>1. cs[k].pc = "uploading" /\ Becomes(s, k, c) /\ SameTable /\ Shows(s, g)
    BY <1>5 DEF TakeEnd, Becomes, SameTable, Shows, GridInv
  <2>2. CallOK(c) /\ c.pc = "reserving"
    BY <1>1, EndIsANumber DEF CallOK
  <2> HIDE DEF c
  <2> QED
    BY <1>2, <2>1, <2>2, ReturnKeepsTheGrid
<1>6. ASSUME Uploaded(s, k) PROVE GridInv'
  <2> DEFINE h == Refreshing(g, TRUE)
  <2>1. /\ cs[k].pc \in {"uploading", "uploaded"} /\ Becomes(s, k, NoCall) /\ SameTable /\ Shows(s, h)
    BY <1>6 DEF Uploaded, Return, Becomes, SameTable, Shows
  <2>2. /\ h = [f \in GridFields |-> h[f]] /\ h.open = g.open /\ h.stale = TRUE
        /\ h.inStep = (g.inStep /\ TRUE) /\ h.shown = g.shown /\ h.server = g.server
        /\ h.arriving = g.arriving
    BY <1>2 DEF GridOK, GridFields, Closed, Refreshing
  <2> HIDE DEF h
  <2>3. GridOK(h) /\ (h.inStep => g.inStep)
    BY <1>2, <1>3, <2>2 DEF GridOK
  <2> QED
    BY <1>2, <1>4, <2>1, <2>2, <2>3, ReturnKeepsTheGrid
<1>7. ASSUME OrderRefused(s, k) PROVE GridInv'
  <2>1. PICK h \in {Refreshing(g, FALSE), [g EXCEPT !.inStep = FALSE]} :
            cs[k].pc = "ordering" /\ Becomes(s, k, NoCall) /\ SameTable /\ Shows(s, h)
    BY <1>7 DEF OrderRefused, Return, Becomes, SameTable, Shows
  <2>2. /\ h = [f \in GridFields |-> h[f]] /\ h.open = g.open /\ h.stale \in BOOLEAN
        /\ h.inStep = FALSE /\ h.shown = g.shown /\ h.server = g.server
        /\ h.arriving = g.arriving
    <3>1. CASE h = Refreshing(g, FALSE)
      BY <1>2, <3>1 DEF GridOK, GridFields, Closed, Refreshing
    <3>2. CASE h = [g EXCEPT !.inStep = FALSE]
      BY <1>2, <3>2 DEF GridOK, GridFields, Closed
    <3> QED
      BY <2>1, <3>1, <3>2
  <2>3. GridOK(h) /\ ~h.inStep
    BY <1>2, <1>3, <2>2 DEF GridOK
  <2> QED
    BY <1>2, <1>4, <2>1, <2>2, <2>3, ReturnKeepsTheGrid
<1>8. ASSUME RemovalShown(s, k) PROVE GridInv'
  <2> DEFINE left == Without(g.shown, cs[k].id)
             h == [g EXCEPT !.shown = left, !.stale = TRUE]
  <2>1. /\ cs[k].pc = "removed" /\ Becomes(s, k, NoCall) /\ SameTable /\ Shows(s, h)
    BY <1>8 DEF RemovalShown, Return, Becomes, SameTable, Shows
  <2>2. /\ left \in Seq(Photos) /\ ToSet(left) \subseteq ToSet(g.shown)
        /\ cs[k].id \notin ToSet(g.shown) => left = g.shown
    BY <1>2, WithoutTakesAway DEF GridOK
  <2>3. /\ h = [f \in GridFields |-> h[f]] /\ h.open = g.open /\ h.stale = TRUE
        /\ h.inStep = g.inStep /\ h.shown = left /\ h.server = g.server
        /\ h.arriving = g.arriving
    BY <1>2 DEF GridOK, GridFields, Closed
  <2>4. ASSUME g.open, g.inStep, Listed = g.server PROVE left = g.shown
    <3>1. InStepOK(g, cs)
      BY <1>1, <2>4
    <3>2. cs[k].id \notin Rows
      BY <2>1, <3>1 DEF InStepOK, RemovalInOrder
    <3>3. NoOrder(cs)
      BY <1>4, <2>1, <3>1 DEF InStepOK, OrderAlone, NoOrder
    <3>4. ToSet(g.shown) = Rows
      BY <1>1, <2>4, <3>1, <3>3, DisplayIsAGallery DEF InStepOK, ShownInOrder, IsGallery
    <3> QED
      BY <2>2, <3>2, <3>4
  <2> HIDE DEF h, left
  <2>5. GridOK(h)
    BY <1>2, <1>3, <2>2, <2>3 DEF GridOK
  <2>7. h.inStep => /\ ToSet(h.shown) \subseteq ToSet(g.shown) /\ h.stale
                    /\ Listed = g.server => h.shown = g.shown
                    /\ g.inStep /\ h.server = g.server /\ h.arriving = g.arriving
    BY <1>2, <2>1, <2>2, <2>3, <2>4
  <2>8. /\ cs[k].pc = "removed" /\ cs[k] # NoCall /\ h.open = g.open
        /\ g = grid[s] /\ cs[k] = call[s][k]
    BY <1>2, <2>1, <2>3
  <2> QED
    BY <1>4, <2>1, <2>5, <2>7, <2>8, ReturnKeepsTheGrid
<1>9. ASSUME RemovalFails(s, k) PROVE GridInv'
  <2> PICK b : b = (g.inStep /\ cs[k].pc = "removing")
    OBVIOUS
  <2> DEFINE h == [g EXCEPT !.inStep = b]
  <2>1. /\ cs[k].pc \in {"removing", "removed"} /\ Becomes(s, k, NoCall) /\ SameTable /\ Shows(s, h)
    BY <1>9 DEF RemovalFails, Return, Becomes, SameTable, Shows, GridInv
  <2>2. /\ h = [f \in GridFields |-> h[f]] /\ h.open = g.open /\ h.stale = g.stale
        /\ h.inStep = b /\ h.shown = g.shown /\ h.server = g.server
        /\ h.arriving = g.arriving
    BY <1>2 DEF GridOK, GridFields, Closed
  <2> HIDE DEF h
  <2>3. b \in BOOLEAN /\ (b => g.inStep /\ cs[k].pc = "removing")
    BY <1>2 DEF GridOK
  <2>4. GridOK(h)
    BY <1>2, <1>3, <2>2, <2>3 DEF GridOK
  <2> QED
    BY <1>2, <1>4, <2>1, <2>2, <2>3, <2>4, ReturnKeepsTheGrid
<1> QED
  BY <1>5, <1>6, <1>7, <1>8, <1>9

(* A page moves and its calls stay.                                          *)
LEMMA PageAloneMoves ==
  ASSUME GridInv, NEW s \in Editors, NEW h, GridOK(h), h.open,
         Shows(s, h), UNCHANGED call, SameTable,
         h.inStep => InStepOK(h, call[s])
  PROVE  GridInv'
<1> PICK cs : cs = call[s]
  OBVIOUS
<1>1. PageOK(h, cs) /\ call' = [call EXCEPT ![s] = cs]
  BY DEF GridInv, PageOK
<1>2. grid' = [grid EXCEPT ![s] = h] /\ UNCHANGED <<sort_order, unused>>
  BY DEF Shows, SameTable
<1> QED
  BY <1>1, <1>2, PageMoves

(* A page is opened.                                                         *)
LEMMA OpenKeepsTheGrid ==
  ASSUME GridInv, NEW s \in Editors, OpenGrid(s)
  PROVE  GridInv'
<1> PICK cs : cs = call[s]
  OBVIOUS
<1> DEFINE h == [Closed EXCEPT !.open = TRUE, !.shown = Display, !.server = Listed]
<1>1. /\ RowsInv /\ \A k \in Slots : cs[k] = NoCall
      /\ Shows(s, h) /\ UNCHANGED call /\ SameTable
  BY DEF GridInv, PageOK, OpenGrid, Shows, SameTable
<1>2. /\ h = [f \in GridFields |-> h[f]] /\ h.open = TRUE /\ h.stale = FALSE
      /\ h.inStep = TRUE /\ h.shown = Display /\ h.server = Listed /\ h.arriving = << >>
  BY DEF GridFields, Closed
<1> HIDE DEF h
<1>3. IsGallery(Display) /\ Listed \in Lists /\ Ids(Listed) = Rows /\ Rows \subseteq Photos
  BY <1>1, DisplayIsAGallery, ListedIsTheGallery, RowsAreFinite
<1>4. GridOK(h)
  <2>1. Display \in Seq(Photos)
    BY <1>3, SeqMonotonic DEF IsGallery
  <2> QED
    BY <1>2, <1>3, <2>1 DEF GridOK
<1>5. ListsInOrder(h)
  BY <1>1, <1>2, <1>3 DEF ListsInOrder, RowsInv, IsGallery
<1>6. /\ \A k \in Slots : RemovalInOrder(h, cs[k])
      /\ OrderAlone(h, cs) /\ ShownInOrder(h, cs)
  BY <1>1, <1>2 DEF RemovalInOrder, OrderAlone, ShownInOrder, NoCall
<1>7. InStepOK(h, cs)
  BY <1>5, <1>6 DEF InStepOK
<1> QED
  BY <1>1, <1>2, <1>4, <1>7, PageAloneMoves

(* A refresh reads the table.                                                *)
LEMMA RefreshReadKeepsTheGrid ==
  ASSUME GridInv, NEW s \in Editors, RefreshRead(s)
  PROVE  GridInv'
<1> PICK g, cs : g = grid[s] /\ cs = call[s]
  OBVIOUS
<1> DEFINE h == [g EXCEPT !.arriving = <<Listed>>, !.stale = FALSE]
<1>1. PageOK(g, cs) /\ (g.open /\ g.inStep => InStepOK(g, cs)) /\ RowsInv
  BY DEF GridInv
<1>2. GridOK(g)
  BY <1>1 DEF PageOK
<1>3. /\ g.stale /\ g.arriving = << >>
      /\ Shows(s, h) /\ UNCHANGED call /\ SameTable
  BY <1>2 DEF RefreshRead, Shows, SameTable, GridInv, GridOK, GridFields, Closed
<1>4. /\ h = [f \in GridFields |-> h[f]] /\ h.open = g.open /\ h.stale = FALSE
      /\ h.inStep = g.inStep /\ h.shown = g.shown /\ h.server = g.server
      /\ h.arriving # << >> /\ h.arriving[1] = Listed
  BY <1>2 DEF GridOK, GridFields, Closed
<1> HIDE DEF h
<1>5. Listed \in Lists /\ Ids(Listed) = Rows
  BY <1>1, ListedIsTheGallery
<1>6. GridOK(h)
  BY <1>2, <1>4, <1>5 DEF GridOK
<1>7. ASSUME g.open, g.inStep PROVE InStepOK(h, cs)
  <2>1. InStepOK(g, cs)
    BY <1>1, <1>7
  <2>2. ListsInOrder(h)
    BY <1>1, <1>4, <1>5, <2>1 DEF InStepOK, ListsInOrder, RowsInv
  <2>3. \A k \in Slots : RemovalInOrder(h, cs[k])
    BY <1>4, <2>1 DEF InStepOK, RemovalInOrder
  <2>4. OrderAlone(h, cs)
    BY <1>3, <2>1 DEF InStepOK, OrderAlone
  <2>5. ShownInOrder(h, cs)
    BY <1>4, <2>1 DEF InStepOK, ShownInOrder
  <2> QED
    BY <2>2, <2>3, <2>4, <2>5 DEF InStepOK
<1>8. CASE g.open
  BY <1>3, <1>4, <1>6, <1>7, <1>8, PageAloneMoves
<1>9. CASE ~g.open
  <2>1. /\ PageOK(h, cs) /\ ~h.open
        /\ grid' = [grid EXCEPT ![s] = h] /\ UNCHANGED <<sort_order, unused>>
    BY <1>1, <1>3, <1>4, <1>6, <1>9 DEF PageOK, Shows, SameTable
  <2>2. call' = [call EXCEPT ![s] = cs]
    BY <1>3 DEF GridInv
  <2> QED
    BY <2>1, <2>2, PageMoves
<1> QED
  BY <1>8, <1>9

(* What the refresh has read is handed down.                                 *)
LEMMA RefreshShownKeepsTheGrid ==
  ASSUME GridInv, NEW s \in Editors, RefreshShown(s)
  PROVE  GridInv'
<1> PICK g, cs : g = grid[s] /\ cs = call[s]
  OBVIOUS
<1> DEFINE list == g.arriving[1]
           h == [Resync(g, list) EXCEPT !.arriving = << >>]
           first == [i \in DOMAIN list |-> list[i][1]]
<1>1. PageOK(g, cs) /\ (g.open /\ g.inStep => InStepOK(g, cs)) /\ RowsInv
  BY DEF GridInv
<1>2. GridOK(g) /\ list \in Lists
  BY <1>1 DEF PageOK, RefreshShown, GridOK
<1>3. /\ g.arriving # << >>
      /\ Shows(s, h) /\ UNCHANGED call /\ SameTable
  BY DEF RefreshShown, Shows, SameTable
<1>4. /\ h = [f \in GridFields |-> h[f]] /\ h.open = g.open /\ h.stale = g.stale
      /\ h.inStep = g.inStep /\ h.arriving = << >> /\ h.server = list
      /\ h.shown = IF list = g.server THEN g.shown ELSE first
  <2>1. CASE list = g.server
    BY <1>2, <2>1 DEF GridOK, GridFields, Closed, Resync
  <2>2. CASE list # g.server
    BY <1>2, <2>2 DEF GridOK, GridFields, Closed, Resync
  <2> QED
    BY <2>1, <2>2
<1>5. first \in Seq(Photos) /\ ToSet(first) = Ids(list)
  <2>1. PICK n \in Nat : list \in [1..n -> Photos \X Nat]
    BY <1>2, LenProperties DEF Lists
  <2> HIDE DEF list
  <2>2. first \in [1..n -> Photos]
    BY <2>1
  <2>3. first \in Seq(Photos)
    BY <2>1, <2>2
  <2>4. ToSet(first) = Ids(list)
    BY <2>1 DEF ToSet, Ids
  <2> QED
    BY <2>3, <2>4
<1>6. list = Listed => first = Display
  BY <1>1, ListedIsTheGallery
<1> HIDE DEF h, first
<1>7. GridOK(h)
  BY <1>2, <1>4, <1>5 DEF GridOK
<1>8. ASSUME g.open, g.inStep PROVE InStepOK(h, cs)
  <2>1. InStepOK(g, cs)
    BY <1>1, <1>8
  <2>2. ListsInOrder(h)
    BY <1>3, <1>4, <1>5, <2>1 DEF InStepOK, ListsInOrder
  <2>3. \A k \in Slots : RemovalInOrder(h, cs[k])
    BY <1>3, <1>4, <2>1 DEF InStepOK, RemovalInOrder, ListsInOrder
  <2>4. NoOrder(cs)
    BY <1>3, <2>1 DEF InStepOK, OrderAlone, NoOrder
  <2>5. OrderAlone(h, cs)
    BY <2>4 DEF OrderAlone, NoOrder
  <2>6. Listed = list => h.shown = Display
    BY <1>4, <1>6, <2>1, <2>4 DEF InStepOK, ShownInOrder
  <2>7. Settled(h, cs) => list = Listed
    BY <1>3, <1>4, <2>1, <2>4 DEF InStepOK, ShownInOrder, Settled
  <2>8. ShownInOrder(h, cs)
    BY <1>4, <2>6, <2>7 DEF ShownInOrder
  <2> QED
    BY <2>2, <2>3, <2>5, <2>8 DEF InStepOK
<1>9. CASE g.open
  BY <1>3, <1>4, <1>7, <1>8, <1>9, PageAloneMoves
<1>10. CASE ~g.open
  <2>1. /\ PageOK(h, cs) /\ ~h.open
        /\ grid' = [grid EXCEPT ![s] = h] /\ UNCHANGED <<sort_order, unused>>
    BY <1>1, <1>3, <1>4, <1>7, <1>10 DEF PageOK, Shows, SameTable
  <2>2. call' = [call EXCEPT ![s] = cs]
    BY <1>3 DEF GridInv
  <2> QED
    BY <2>1, <2>2, PageMoves
<1> QED
  BY <1>9, <1>10

(* A photo gets its row: the page does not know of it before it is refreshed.*)
LEMMA ReserveKeepsTheGrid ==
  ASSUME GridInv, NEW s \in Editors, NEW k \in Slots, Reserve(s, k)
  PROVE  GridInv'
<1> PICK g, cs : g = grid[s] /\ cs = call[s]
  OBVIOUS
<1> DEFINE ds == [cs EXCEPT ![k] = [pc |-> "uploaded"]]
<1>1. PageOK(g, cs) /\ (g.open /\ g.inStep => InStepOK(g, cs)) /\ RowsInv
  BY DEF GridInv
<1>2. PICK q \in unused : /\ sort_order' = [sort_order EXCEPT ![q] = cs[k].end]
                          /\ unused' = unused \ {q}
  BY DEF Reserve
<1>3. /\ cs[k].pc = "reserving" /\ cs[k].end \in Nat /\ g.open
      /\ grid' = Unnoticed(s) /\ call' = [call EXCEPT ![s] = ds]
  <2>1. cs[k].pc = "reserving" /\ grid' = Unnoticed(s)
    BY DEF Reserve
  <2>2. CallOK(cs[k])
    BY <1>1 DEF PageOK
  <2>3. cs[k].end \in Nat
    BY <2>1, <2>2 DEF CallOK, NoCall
  <2>4. g.open
    BY <1>1, <2>1 DEF PageOK, NoCall
  <2>5. call' = [call EXCEPT ![s] = ds]
    BY DEF Reserve
  <2> QED
    BY <2>1, <2>3, <2>4, <2>5
<1>4. q \in Photos /\ q \notin Rows
  BY <1>1 DEF RowsInv
<1>5. /\ sort_order' \in [Photos -> Nat \cup {None}] /\ Rows' = Rows \cup {q}
      /\ unused' \subseteq unused
  BY <1>1, <1>2, <1>3, <1>4, PhotoAssumption DEF RowsInv, Rows
<1>6. RowsInv'
  BY <1>1, <1>2, <1>4, <1>5 DEF RowsInv
<1>7. /\ PageOK(g, ds) /\ ds[k] = [pc |-> "uploaded"]
      /\ \A l \in Slots \ {k} : ds[l] = cs[l]
  <2>1. CallOK([pc |-> "uploaded"])
    BY DEF CallOK
  <2>2. ds = [cs EXCEPT ![k] = [pc |-> "uploaded"]] /\ g.open
    BY <1>3
  <2> HIDE DEF ds
  <2> QED
    BY <1>1, <2>1, <2>2 DEF PageOK
<1> HIDE DEF ds
<1>8. ASSUME g.open, g.inStep PROVE InStepOK(g, ds)'
  <2>1. InStepOK(g, cs)
    BY <1>1, <1>8
  <2>2. Ids(g.server) \cap unused = {}
    BY <2>1 DEF InStepOK, ListsInOrder
  <2>3. ListsInOrder(g)'
    BY <1>2, <1>5, <2>1, <2>2 DEF InStepOK, ListsInOrder
  <2>4. ASSUME NEW l \in Slots PROVE RemovalInOrder(g, ds[l])'
    <3>1. CASE l = k
      BY <1>7, <3>1 DEF RemovalInOrder
    <3>2. CASE l # k
      <4>1. RemovalInOrder(g, cs[l]) /\ ds[l] = cs[l]
        BY <1>7, <2>1, <3>2 DEF InStepOK
      <4> QED
        BY <1>2, <1>5, <4>1 DEF RemovalInOrder
    <3> QED
      BY <3>1, <3>2
  <2>5. NoOrder(cs)
    BY <1>3, <2>1 DEF InStepOK, OrderAlone, NoOrder, NoCall
  <2>6. OrderAlone(g, ds)'
    BY <1>7, <2>5 DEF OrderAlone, NoOrder
  <2>7. Listed' # g.server
    <3>1. Ids(Listed') = Rows'
      BY <1>6, ListedAfter DEF Ids
    <3> QED
      BY <1>2, <1>5, <2>2, <3>1
  <2>8. ~Settled(g, ds)
    BY <1>7 DEF Settled
  <2>9. ShownInOrder(g, ds)'
    BY <2>7, <2>8 DEF ShownInOrder, Settled
  <2> QED
    BY <2>3, <2>4, <2>6, <2>9 DEF InStepOK
<1> QED
  BY <1>3, <1>6, <1>7, <1>8, TableMoves

(* A photo loses its row: the page takes it off once it has the answer.      *)
LEMMA RemovedKeepsTheGrid ==
  ASSUME GridInv, NEW s \in Editors, NEW k \in Slots, Removed(s, k)
  PROVE  GridInv'
<1> PICK g, cs : g = grid[s] /\ cs = call[s]
  OBVIOUS
<1> PICK id : id = cs[k].id
  OBVIOUS
<1> DEFINE c == [pc |-> "removed", id |-> id]
           ds == [cs EXCEPT ![k] = c]
<1>1. PageOK(g, cs) /\ (g.open /\ g.inStep => InStepOK(g, cs)) /\ RowsInv
  BY DEF GridInv
<1>2. cs[k].pc = "removing" /\ id \in Rows
  BY DEF Removed
<1>3. CallOK(cs[k])
  BY <1>1 DEF PageOK
<1>4. cs[k] = [pc |-> "removing", id |-> id] /\ id \in Photos
  BY <1>2, <1>3 DEF CallOK, NoCall
<1>5. [cs[k] EXCEPT !.pc = "removed"] = c
  BY <1>4
<1>6. /\ sort_order' = [sort_order EXCEPT ![id] = None] /\ UNCHANGED unused
      /\ grid' = Unnoticed(s) /\ call' = [call EXCEPT ![s] = ds] /\ g.open
  <2>1. sort_order' = [sort_order EXCEPT ![id] = None] /\ UNCHANGED unused /\ grid' = Unnoticed(s)
    BY DEF Removed
  <2>2. call' = [call EXCEPT ![s] = [cs EXCEPT ![k] = [cs[k] EXCEPT !.pc = "removed"]]]
    BY DEF Removed
  <2>3. g.open
    BY <1>1, <1>2 DEF PageOK, NoCall
  <2> QED
    BY <1>5, <2>1, <2>2, <2>3
<1>7. sort_order' \in [Photos -> Nat \cup {None}] /\ Rows' = Rows \ {id}
  BY <1>1, <1>4, <1>6 DEF RowsInv, Rows
<1>8. RowsInv'
  BY <1>1, <1>6, <1>7 DEF RowsInv
<1>9. /\ PageOK(g, ds) /\ ds[k] = c
      /\ \A l \in Slots \ {k} : ds[l] = cs[l]
  <2>1. CallOK(c)
    BY <1>4 DEF CallOK
  <2>2. ds = [cs EXCEPT ![k] = c] /\ g.open
    BY <1>6
  <2> HIDE DEF ds
  <2> QED
    BY <1>1, <2>1, <2>2 DEF PageOK
<1> HIDE DEF ds
<1>10. ASSUME g.open, g.inStep PROVE InStepOK(g, ds)'
  <2>1. InStepOK(g, cs)
    BY <1>1, <1>10
  <2>2. id \in Ids(g.server) /\ id \notin unused
    BY <1>2, <2>1 DEF InStepOK, RemovalInOrder
  <2>3. ListsInOrder(g)'
    BY <1>6, <1>7, <2>1 DEF InStepOK, ListsInOrder
  <2>4. ASSUME NEW l \in Slots PROVE RemovalInOrder(g, ds[l])'
    <3>1. CASE l = k
      BY <1>6, <1>7, <1>9, <2>2, <3>1 DEF RemovalInOrder
    <3>2. CASE l # k
      <4>1. RemovalInOrder(g, cs[l]) /\ ds[l] = cs[l]
        BY <1>9, <2>1, <3>2 DEF InStepOK
      <4> QED
        BY <1>6, <1>7, <4>1 DEF RemovalInOrder
    <3> QED
      BY <3>1, <3>2
  <2>5. NoOrder(cs)
    BY <1>2, <2>1 DEF InStepOK, OrderAlone, NoOrder, NoCall
  <2>6. OrderAlone(g, ds)'
    BY <1>9, <2>5 DEF OrderAlone, NoOrder
  <2>7. Listed' # g.server
    <3>1. Ids(Listed') = Rows'
      BY <1>8, ListedAfter DEF Ids
    <3> QED
      BY <1>7, <2>2, <3>1
  <2>8. ~Settled(g, ds)
    BY <1>9 DEF Settled
  <2>9. ShownInOrder(g, ds)'
    BY <2>7, <2>8 DEF ShownInOrder, Settled
  <2> QED
    BY <2>3, <2>4, <2>6, <2>9 DEF InStepOK
<1> QED
  BY <1>6, <1>8, <1>9, <1>10, TableMoves

(* A new order is stored: it is what the page shows already.                 *)
LEMMA OrderedKeepsTheGrid ==
  ASSUME GridInv, NEW s \in Editors, NEW k \in Slots, Ordered(s, k)
  PROVE  GridInv'
<1> PICK g, cs : g = grid[s] /\ cs = call[s]
  OBVIOUS
<1> PICK ids : ids = cs[k].ids
  OBVIOUS
<1> DEFINE ds == [cs EXCEPT ![k] = NoCall]
<1>1. PageOK(g, cs) /\ (g.open /\ g.inStep => InStepOK(g, cs)) /\ RowsInv
  BY DEF GridInv
<1>2. cs[k].pc = "ordering" /\ CallOK(cs[k])
  BY <1>1 DEF Ordered, PageOK
<1>3. ids \in Seq(Photos)
  BY <1>2 DEF CallOK, NoCall
<1>4. /\ sort_order' = InOrderOf(ids) /\ UNCHANGED unused
      /\ grid' = Unnoticed(s) /\ call' = [call EXCEPT ![s] = ds] /\ g.open
  BY <1>1, <1>2 DEF Ordered, Return, PageOK, NoCall
<1>5. \A p \in Photos : sort_order'[p] \in Nat \cup {None} /\ (p \in Rows <=> sort_order'[p] # None)
  <2> SUFFICES ASSUME NEW p \in Photos
               PROVE  sort_order'[p] \in Nat \cup {None} /\ (p \in Rows <=> sort_order'[p] # None)
    OBVIOUS
  <2>1. CASE p \in Rows \cap ToSet(ids)
    <3> DEFINE i == CHOOSE i \in DOMAIN ids : ids[i] = p
    <3>1. i \in DOMAIN ids
      BY <2>1 DEF ToSet
    <3>2. sort_order'[p] = i
      BY <1>4, <2>1 DEF InOrderOf
    <3> HIDE DEF i
    <3>3. i \in Nat
      BY <1>3, <3>1, LenProperties
    <3> QED
      BY <2>1, <3>2, <3>3, PhotoAssumption
  <2>2. CASE p \notin Rows \cap ToSet(ids)
    BY <1>1, <1>4, <2>2 DEF InOrderOf, RowsInv, Rows
  <2> QED
    BY <2>1, <2>2
<1>6. sort_order' \in [Photos -> Nat \cup {None}] /\ Rows' = Rows
  BY <1>4, <1>5 DEF InOrderOf, Rows
<1>7. RowsInv'
  BY <1>1, <1>4, <1>6 DEF RowsInv
<1>8. /\ PageOK(g, ds) /\ ds[k] = NoCall
      /\ \A l \in Slots \ {k} : ds[l] = cs[l]
  <2>1. CallOK(NoCall)
    BY DEF CallOK
  <2>2. ds = [cs EXCEPT ![k] = NoCall] /\ g.open
    BY <1>4
  <2> HIDE DEF ds
  <2> QED
    BY <1>1, <2>1, <2>2 DEF PageOK
<1> HIDE DEF ds
<1>9. ASSUME g.open, g.inStep PROVE InStepOK(g, ds)'
  <2>1. InStepOK(g, cs)
    BY <1>1, <1>9
  <2>2. /\ g.shown = ids /\ IsGallery(ids) /\ ~g.stale /\ g.arriving = << >>
        /\ \A l \in Slots : ds[l] = NoCall
    BY <1>2, <1>8, <2>1 DEF InStepOK, OrderAlone
  <2>3. Display' = ids
    <3>1. IsGallery(ids)'
      BY <1>6, <2>2 DEF IsGallery
    <3>2. ASSUME NEW i \in DOMAIN ids PROVE sort_order'[ids[i]] = i
      <4>1. ids[i] \in Rows \cap ToSet(ids) /\ ids[i] \in Photos
        BY <1>1, <2>2, RowsAreFinite DEF IsGallery, ToSet
      <4>2. (CHOOSE j \in DOMAIN ids : ids[j] = ids[i]) = i
        BY <2>2 DEF IsGallery
      <4> QED
        BY <1>4, <4>1, <4>2 DEF InOrderOf
    <3>3. ASSUME NEW i \in DOMAIN ids, NEW j \in DOMAIN ids, i < j
          PROVE  Before(ids[i], ids[j])'
      BY <3>2, <3>3 DEF Before
    <3> QED
      BY <1>7, <3>1, <3>3, SortedAfter
  <2>4. ListsInOrder(g)'
    BY <1>4, <1>6, <2>1 DEF InStepOK, ListsInOrder
  <2>5. /\ \A l \in Slots : RemovalInOrder(g, ds[l])'
        /\ OrderAlone(g, ds)'
    BY <2>2 DEF RemovalInOrder, OrderAlone, NoCall
  <2>6. ShownInOrder(g, ds)'
    BY <2>2, <2>3 DEF ShownInOrder
  <2> QED
    BY <2>4, <2>5, <2>6 DEF InStepOK
<1> QED
  BY <1>4, <1>7, <1>8, <1>9, TableMoves

(* Every step keeps the pages in order.                                      *)
LEMMA GridStep == scene \in Scenes /\ GridInv /\ [Next]_vars => GridInv'
<1> SUFFICES ASSUME scene \in Scenes, GridInv, [Next]_vars PROVE GridInv'
  OBVIOUS
<1>1. CASE UNCHANGED photoVars
  BY <1>1, GridStutter
<1>2. CASE ArrangePhotos
  <2>1. PICK s \in Editors : Arrange(s, scene.slots)
    BY <1>2, SceneAssumption DEF ArrangePhotos
  <2>2. scene.slots \subseteq Slots
    BY SceneAssumption
  <2>3. CASE OpenGrid(s) \/ RefreshRead(s) \/ RefreshShown(s)
    BY <2>3, OpenKeepsTheGrid, RefreshReadKeepsTheGrid, RefreshShownKeepsTheGrid
  <2>4. ASSUME NEW k \in scene.slots,
               \/ Upload(s, k) \/ TakeEnd(s, k) \/ Reserve(s, k) \/ Uploaded(s, k)
               \/ \E i, j \in 1..Cardinality(Photos) : Move(s, k, i, j)
               \/ \E i \in 1..Cardinality(Photos) : MakeHero(s, k, i)
               \/ Ordered(s, k) \/ OrderRefused(s, k)
               \/ \E p \in Photos : AskRemoval(s, k, p)
               \/ Removed(s, k) \/ RemovalShown(s, k) \/ RemovalFails(s, k)
        PROVE  GridInv'
    <3>1. k \in Slots
      BY <2>2
    <3>2. CASE \/ Upload(s, k) \/ \E i, j \in 1..Cardinality(Photos) : Move(s, k, i, j)
               \/ \E i \in 1..Cardinality(Photos) : MakeHero(s, k, i)
               \/ \E p \in Photos : AskRemoval(s, k, p)
      BY <3>1, <3>2, SendsKeepTheGrid
    <3>3. CASE \/ TakeEnd(s, k) \/ Uploaded(s, k) \/ OrderRefused(s, k)
               \/ RemovalShown(s, k) \/ RemovalFails(s, k)
      BY <3>1, <3>3, ReturnsKeepTheGrid
    <3>4. CASE Reserve(s, k) \/ Ordered(s, k) \/ Removed(s, k)
      BY <3>1, <3>4, ReserveKeepsTheGrid, OrderedKeepsTheGrid, RemovedKeepsTheGrid
    <3> QED
      BY <2>4, <3>2, <3>3, <3>4
  <2> QED
    BY <2>1, <2>3, <2>4 DEF Arrange
<1> QED
  BY <1>1, <1>2 DEF Next, vars

(* Once everything sent has been answered, a page that is in step shows the  *)
(* photos there are, in the order that is stored: for any number of photos,  *)
(* pages and calls at the same time, however these overlap and fail.         *)
THEOREM GridsShowTheGallery == Spec => []GridShowsTheGallery
<1>1. Init => scene \in Scenes /\ GridInv
  BY GridInit DEF Init
<1>2. scene \in Scenes /\ GridInv /\ [Next]_vars => (scene \in Scenes /\ GridInv)'
  BY GridStep DEF Next, vars
<1>3. GridInv => GridShowsTheGallery
  <2> SUFFICES ASSUME GridInv, NEW s \in Editors, grid[s].open, grid[s].inStep, Quiet(s)
               PROVE  grid[s].shown = Display
    BY DEF GridShowsTheGallery
  <2>1. ShownInOrder(grid[s], call[s])
    BY DEF GridInv, InStepOK
  <2>2. NoOrder(call[s]) /\ Settled(grid[s], call[s]) /\ grid[s].arriving = << >>
    BY DEF Quiet, NoOrder, Settled, NoCall
  <2> QED
    BY <2>1, <2>2 DEF ShownInOrder
<1> QED
  BY <1>1, <1>2, <1>3, PTL DEF Spec

-----------------------------------------------------------------------------
(* What a search finds.                                                      *)

(* The least of some numbers.                                                *)
LEMMA MinIs ==
  ASSUME NEW S, NEW x \in S, S \subseteq Nat, \A y \in S : x <= y
  PROVE  Min(S) = x
<1> DEFINE Least(m) == m \in S /\ \A y \in S : m =< y
<1>1. Least(x)
  OBVIOUS
<1>2. Min(S) = CHOOSE m \in S : \A y \in S : m =< y
  BY DEF Min
<1>3. Least(CHOOSE m : Least(m))
  BY <1>1, Zenon
<1>4. Min(S) \in S /\ \A y \in S : Min(S) <= y
  BY <1>2, <1>3
<1>5. Min(S) \in Nat /\ x \in Nat /\ Min(S) <= x /\ x <= Min(S)
  BY <1>4
<1> QED
  BY <1>5

(* coalesce takes the first area that is known.                              *)
LEMMA SqftIs ==
  ASSUME NEW row
  PROVE  Sqft(row) = IF row.carpet # None THEN row.carpet
                     ELSE IF row.builtUp # None THEN row.builtUp ELSE row.plot
<1> DEFINE columns == <<"carpet", "builtUp", "plot">>
           known == {i \in DOMAIN columns : row[columns[i]] # None}
<1>1. /\ columns[1] = "carpet" /\ columns[2] = "builtUp" /\ columns[3] = "plot"
      /\ DOMAIN columns = {1, 2, 3}
  OBVIOUS
<1>2. Sqft(row) = IF known = {} THEN None ELSE row[columns[Min(known)]]
  BY DEF Sqft, Coalesce
<1> HIDE DEF columns
<1>3. known \subseteq Nat
  BY <1>1
<1>4. CASE row.carpet # None
  <2>1. 1 \in known /\ \A y \in known : 1 <= y
    BY <1>1, <1>4
  <2> QED
    BY <1>1, <1>2, <1>3, <1>4, <2>1, MinIs
<1>5. CASE row.carpet = None /\ row.builtUp # None
  <2>1. 2 \in known /\ \A y \in known : 2 <= y
    BY <1>1, <1>5
  <2> QED
    BY <1>1, <1>2, <1>3, <1>5, <2>1, MinIs
<1>6. CASE row.carpet = None /\ row.builtUp = None /\ row.plot # None
  <2>1. 3 \in known /\ \A y \in known : 3 <= y
    BY <1>1, <1>6
  <2> QED
    BY <1>1, <1>2, <1>3, <1>6, <2>1, MinIs
<1>7. CASE row.carpet = None /\ row.builtUp = None /\ row.plot = None
  <2>1. known = {}
    BY <1>1, <1>7
  <2> QED
    BY <1>2, <1>7, <2>1
<1> QED
  BY <1>4, <1>5, <1>6, <1>7

(* The reference compares the same area, or 0 where none is known.           *)
LEMMA AreasAgree ==
  ASSUME NEW row, IsListed(row)
  PROVE  /\ Sqft(row) \in Nat \cup {None}
         /\ ComparableSqft(row) = OrZero(Sqft(row))
<1>1. \A c \in {"carpet", "builtUp", "plot"} : row[c] \in Nat \cup {None}
  BY DEF IsListed
<1>2. /\ row.carpet \in Nat \cup {None} /\ row.builtUp \in Nat \cup {None}
      /\ row.plot \in Nat \cup {None}
  BY <1>1
<1>3. ComparableSqft(row) = IF row.carpet # None THEN row.carpet
                            ELSE IF row.builtUp # None THEN row.builtUp
                            ELSE IF row.plot # None THEN row.plot ELSE 0
  BY DEF ComparableSqft
<1> QED
  BY <1>2, <1>3, SqftIs DEF OrZero

(* What an address is read as.                                               *)
LEMMA ParsedIs ==
  ASSUME NEW address, IsAddress(address)
  PROVE  LET q == Parse(address) IN
         /\ \A k \in NumberKeys : q[k] = address[k] /\ q[k] \in Nat \cup {None}
         /\ \A k \in ListKeys \ DOMAIN Valid : q[k] = address[k]
         /\ \A k \in DOMAIN Valid : q[k] = address[k] \cap Valid[k]
         /\ \A ref \in q.area : ref = <<ref[1], ref[2]>>
         /\ q.q = address.q
         /\ q.sort \in Sorts
         /\ q.page \in Nat /\ q.page = IF address.page = None THEN 1 ELSE address.page
<1> DEFINE q == Parse(address)
<1>1. DOMAIN Valid = {"type", "status", "possession", "furnishing"}
  BY DEF Valid
<1>2. \A k \in QueryKeys : q[k] =
        CASE k \in DOMAIN Valid -> address[k] \cap Valid[k]
          [] k = "sort" /\ address.sort \notin Sorts -> "newest"
          [] k = "page" /\ address.page = None -> 1
          [] OTHER -> address[k]
  BY DEF Parse
<1>3. \A k \in NumberKeys : q[k] = address[k]
  BY <1>1, <1>2 DEF QueryKeys, NumberKeys
<1>4. \A k \in ListKeys \ DOMAIN Valid : q[k] = address[k]
  BY <1>1, <1>2 DEF QueryKeys, ListKeys
<1>5. \A k \in DOMAIN Valid : q[k] = address[k] \cap Valid[k]
  <2>1. DOMAIN Valid \subseteq QueryKeys
    BY DEF QueryKeys, ListKeys
  <2> QED
    BY <1>1, <1>2, <2>1
<1>6. q.area = address.area
  BY <1>1, <1>4 DEF ListKeys
<1>7. q.q = address.q
  BY <1>1, <1>2 DEF QueryKeys
<1>8. q.sort = IF address.sort \notin Sorts THEN "newest" ELSE address.sort
  BY <1>1, <1>2 DEF QueryKeys
<1>9. q.page = IF address.page = None THEN 1 ELSE address.page
  BY <1>1, <1>2 DEF QueryKeys
<1> QED
  BY <1>3, <1>4, <1>5, <1>6, <1>7, <1>8, <1>9 DEF IsAddress, Sorts

(* A text that the row has nowhere but, maybe, at the beginning of its       *)
(* reference code.                                                           *)
SameText(row, text) ==
    /\ Trimmed(text) = text
    /\ text \notin row.words \cup row.names \cup row.mentioned
    /\ text \notin SubSeqs(row.code) \ Prefixes(row.code)

LEMMA PrefixesAreSubSeqs ==
  ASSUME NEW s
  PROVE  Prefixes(s) \subseteq SubSeqs(s)
<1>1. ASSUME NEW l \in 0..Len(s) PROVE SubSeq(s, 1, l) \in SubSeqs(s)
  <2>1. 0 \in 0..Len(s) /\ 0 + 1 = 1
    OBVIOUS
  <2> QED
    BY <2>1 DEF SubSeqs
<1> QED
  BY <1>1 DEF Prefixes

(* Such a text finds the row in both implementations, or in neither.         *)
LEMMA TextsAgree ==
  ASSUME NEW row, NEW text, SameText(row, text)
  PROVE  FoundBy(row, text) <=> Mentions(row, text)
<1>1. text \in Prefixes(row.code) <=> text \in SubSeqs(row.code)
  BY PrefixesAreSubSeqs DEF SameText
<1> QED
  BY <1>1 DEF SameText, FoundBy, Mentions

(* Where the two are not known to differ, the SQL of the API selects the     *)
(* rows the reference matches.                                               *)
LEMMA RowsAgree ==
  ASSUME NEW row, IsListed(row), NEW address, IsAddress(address),
         "villa" \notin Parse(address).type,
         Sqft(row) # None \/ (Parse(address).maxSqft = None /\ Parse(address).minSqft # 0),
         Parse(address).q # None => SameText(row, Parse(address).q)
  PROVE  Filters(row, Parse(address)) <=> Matches(row, Parse(address))
<1> DEFINE q == Parse(address)
<1>1. \A k \in NumberKeys : q[k] \in Nat \cup {None}
  BY ParsedIs
<1>2. /\ q.minPrice \in Nat \cup {None} /\ q.maxPrice \in Nat \cup {None}
      /\ q.beds \in Nat \cup {None} /\ q.baths \in Nat \cup {None}
      /\ q.minSqft \in Nat \cup {None} /\ q.maxSqft \in Nat \cup {None}
      /\ q.minYear \in Nat \cup {None} /\ q.maxMaint \in Nat \cup {None}
  <2> HIDE DEF q
  <2> QED
    BY <1>1 DEF NumberKeys
<1>3. /\ row.price \in Nat /\ row.bedrooms \in Nat \cup {None}
      /\ row.bathrooms \in Nat \cup {None} /\ row.yearBuilt \in Nat \cup {None}
      /\ row.maintenance \in Nat \cup {None}
  BY DEF IsListed
<1>4. q.furnishing \subseteq Valid.furnishing /\ None \notin Nat \cup Valid.furnishing
  <2>1. "furnishing" \in DOMAIN Valid
    BY DEF Valid
  <2> QED
    BY <2>1, ParsedIs, SearchAssumption
<1>5. \A ref \in q.area : ref = <<ref[1], ref[2]>>
  BY ParsedIs
<1>6. "villa" \notin q.type /\ (Sqft(row) # None \/ (q.maxSqft = None /\ q.minSqft # 0))
  OBVIOUS
<1>7. Sqft(row) \in Nat \cup {None} /\ ComparableSqft(row) = OrZero(Sqft(row))
  BY AreasAgree
<1> HIDE DEF q
<1>8. OneOf(row.status, {StatusToDb[s] : s \in q.status}) <=>
        (q.status # {} => row.status \in {StatusToDb[s] : s \in q.status})
  BY DEF OneOf
<1>9. InOneOf(row, q.area) <=>
        (q.area # {} => \E ref \in q.area : ref[1] = row.city /\ ref[2] = row.locality)
  BY <1>5 DEF InOneOf, OneOf
<1>10. /\ AtLeast(row.price, q.minPrice) <=> ~(q.minPrice # None /\ row.price < q.minPrice)
       /\ AtMost(row.price, q.maxPrice) <=> ~(q.maxPrice # None /\ row.price > q.maxPrice)
  BY <1>2, <1>3, <1>4 DEF AtLeast, AtMost
<1>11. /\ AtLeast(row.bedrooms, q.beds) <=>
            ~(q.beds # None /\ (row.bedrooms = None \/ row.bedrooms < q.beds))
       /\ AtLeast(row.bathrooms, q.baths) <=>
            ~(q.baths # None /\ (row.bathrooms = None \/ row.bathrooms < q.baths))
       /\ AtLeast(row.yearBuilt, q.minYear) <=>
            ~(q.minYear # None /\ (row.yearBuilt = None \/ row.yearBuilt < q.minYear))
  BY <1>2, <1>3 DEF AtLeast
<1>12. /\ AtLeast(Sqft(row), q.minSqft) <=>
            ~(q.minSqft # None /\ ComparableSqft(row) < q.minSqft)
       /\ AtMost(Sqft(row), q.maxSqft) <=>
            ~(q.maxSqft # None /\ ComparableSqft(row) > q.maxSqft)
  BY <1>2, <1>6, <1>7 DEF AtLeast, AtMost, OrZero
<1>13. (row.maintenance = None \/ AtMost(row.maintenance, q.maxMaint)) <=>
            ~(q.maxMaint # None /\ OrZero(row.maintenance) > q.maxMaint)
  BY <1>2, <1>3 DEF AtMost, OrZero
<1>14. OneOf(row.type, {TypeToDb(t) : t \in q.type}) <=> (q.type # {} => row.type \in q.type)
  <2>1. \A t \in q.type : TypeToDb(t) = t
    BY <1>6 DEF TypeToDb
  <2> QED
    BY <2>1 DEF OneOf
<1>15. OneOf(row.furnishing, q.furnishing) <=>
        (q.furnishing # {} => row.furnishing # None /\ row.furnishing \in q.furnishing)
  BY <1>4 DEF OneOf
<1>16. /\ OneOf(row.city, q.city) <=> (q.city # {} => row.city \in q.city)
       /\ OneOf(row.possession, q.possession) <=> (q.possession # {} => row.possession \in q.possession)
       /\ q.features \subseteq row.features <=> \A f \in q.features : f \in row.features
  BY DEF OneOf
<1>17. (q.q # None => FoundBy(row, q.q)) <=> (q.q # None => Mentions(row, q.q))
  BY TextsAgree DEF q
<1> QED
  BY <1>8, <1>9, <1>10, <1>11, <1>12, <1>13, <1>14, <1>15, <1>16, <1>17 DEF Filters, Matches, q

(* Nor does it matter that the reference leaves out what is closed, unless   *)
(* a closed listing matches the rest.                                        *)
LEMMA DefaultIsHarmless ==
  ASSUME NEW row \in OnSite, NEW address,
         address.status = {} => ~(row.status \in {"SOLD", "RENTED"} /\ Matches(row, Parse(address)))
  PROVE  Matches(row, Parse(address)) <=> Matches(row, Effective(address))
<1> DEFINE q == Parse(address)
           e == [q EXCEPT !.status = ForSale]
<1>1. CASE address.status # {}
  BY <1>1 DEF Effective
<1>2. CASE address.status = {}
  <2>1. /\ Effective(address) = e /\ e.status = ForSale
        /\ \A k \in QueryKeys \ {"status"} : e[k] = q[k]
    <3>1. "status" \in QueryKeys
      BY DEF QueryKeys, ListKeys, Valid
    <3>2. q = [k \in QueryKeys |-> q[k]]
      BY DEF Parse
    <3> HIDE DEF q
    <3>3. e.status = ForSale /\ \A k \in QueryKeys \ {"status"} : e[k] = q[k]
      BY <3>1, <3>2
    <3> QED
      BY <1>2, <3>3 DEF Effective, q
  <2>2. q.status = {}
    <3>1. "status" \in QueryKeys /\ "status" \in DOMAIN Valid
      BY DEF QueryKeys, ListKeys, Valid
    <3> QED
      BY <1>2, <3>1 DEF Parse
  <2>3. Matches(row, e) <=> Matches(row, q) /\ row.status \in {StatusToDb[s] : s \in ForSale}
    <3> HIDE DEF q, e
    <3>1. /\ e.q = q.q /\ e.city = q.city /\ e.area = q.area /\ e.minPrice = q.minPrice
          /\ e.maxPrice = q.maxPrice /\ e.beds = q.beds /\ e.baths = q.baths
          /\ e.minSqft = q.minSqft /\ e.maxSqft = q.maxSqft /\ e.minYear = q.minYear
          /\ e.maxMaint = q.maxMaint /\ e.type = q.type /\ e.possession = q.possession
          /\ e.furnishing = q.furnishing /\ e.features = q.features /\ e.poly = q.poly
      BY <2>1 DEF QueryKeys, NumberKeys, ListKeys, Valid
    <3>2. e.status = ForSale /\ ForSale # {} /\ q.status = {}
      BY <2>1, <2>2 DEF ForSale
    <3> QED
      BY <3>1, <3>2 DEF Matches
  <2>4. row.status \in {"ACTIVE", "UNDER_OFFER", "SOLD", "RENTED"}
    BY DEF OnSite, PublicScope
  <2>5. "ACTIVE" \in {StatusToDb[s] : s \in ForSale} /\ "UNDER_OFFER" \in {StatusToDb[s] : s \in ForSale}
    BY DEF ForSale, StatusToDb, Valid
  <2>6. Matches(row, q) => row.status \in {StatusToDb[s] : s \in ForSale}
    BY <1>2, <2>4, <2>5
  <2> QED
    BY <2>1, <2>3, <2>6
<1> QED
  BY <1>1, <1>2

(* Numbers have a least one.                                                 *)
LEMMA LeastNumber ==
  ASSUME NEW S, S \subseteq Nat, S # {}
  PROVE  \E m \in S : \A x \in S : m <= x
<1>1. PICK m \in S : \A x \in S : ~(<<x, m>> \in OpToRel(<, Nat))
  BY NatLessThanWellFounded, WFMin, Zenon
<1>2. \A x \in S : ~(x < m)
  BY <1>1, Zenon DEF OpToRel
<1> QED
  BY <1>2

(* An ordering lists every row once.                                         *)
LEMMA OrderingIs ==
  ASSUME NEW rows, IsFiniteSet(rows), NEW sort, NEW s \in Orderings(rows, sort)
  PROVE  LET n == Cardinality(rows) IN
         /\ n \in Nat /\ s \in [1..n -> rows] /\ s \in Seq(rows) /\ Len(s) = n /\ DOMAIN s = 1..n
         /\ \A i, j \in 1..n : s[i] = s[j] => i = j
         /\ \A row \in rows : \E i \in 1..n : s[i] = row
         /\ \A i, j \in 1..n : i < j =>
                \/ SortsBefore(s[i], s[j], sort)
                \/ ~SortsBefore(s[j], s[i], sort) /\ BreaksTie(s[i], s[j])
<1> DEFINE n == Cardinality(rows)
<1>1. n \in Nat
  BY FS_CardinalityType
<1>2. s \in [1..n -> rows] /\ \A i, j \in 1..n : i # j => s[i] # s[j]
  BY DEF Orderings, SetToSeqs
<1>3. s \in Seq(rows) /\ Len(s) = n /\ DOMAIN s = 1..n
  BY <1>1, <1>2
<1>4. \A row \in rows : \E i \in 1..n : s[i] = row
  <2>1. IsFiniteSet(1..n) /\ Cardinality(1..n) = n
    BY <1>1, FS_Interval
  <2>2. s \in Injection(1..n, rows)
    BY <1>2 DEF Injection, IsInjective
  <2>3. s \in Surjection(1..n, rows)
    BY <2>1, <2>2, FS_Injection
  <2> QED
    BY <1>2, <2>3 DEF Surjection
<1>5. \A i, j \in 1..n : i < j =>
        \/ SortsBefore(s[i], s[j], sort)
        \/ ~SortsBefore(s[j], s[i], sort) /\ BreaksTie(s[i], s[j])
  BY <1>3 DEF Orderings
<1> QED
  BY <1>1, <1>2, <1>3, <1>4, <1>5

(* No two rows sort before each other.                                       *)
LEMMA SortsOneWay ==
  ASSUME NEW a, NEW b, IsListed(a), IsListed(b), NEW sort \in Sorts, SortsBefore(a, b, sort)
  PROVE  ~SortsBefore(b, a, sort)
<1>1. /\ a.price \in Nat /\ b.price \in Nat /\ a.published \in Nat /\ b.published \in Nat
      /\ a.bedrooms \in Nat \cup {None} /\ b.bedrooms \in Nat \cup {None}
  BY DEF IsListed
<1>2. Sqft(a) \in Nat \cup {None} /\ Sqft(b) \in Nat \cup {None}
  BY AreasAgree
<1>3. CASE sort = "price-asc"
  BY <1>1, <1>3 DEF SortsBefore
<1>4. CASE sort = "price-desc"
  BY <1>1, <1>4 DEF SortsBefore
<1>5. CASE sort = "beds-desc"
  BY <1>1, <1>5 DEF SortsBefore, Descending
<1>6. CASE sort = "area-desc"
  BY <1>2, <1>6 DEF SortsBefore, Descending
<1>7. CASE sort = "newest"
  BY <1>1, <1>7 DEF SortsBefore
<1> QED
  BY <1>3, <1>4, <1>5, <1>6, <1>7 DEF Sorts

(* The order of a search is the only one the database may return: the        *)
(* tiebreak on the id leaves it no choice.                                   *)
LEMMA OneOrdering ==
  ASSUME NEW rows, IsFiniteSet(rows), \A row \in rows : IsListed(row),
         NEW sort \in Sorts, NEW s \in Orderings(rows, sort), NEW t \in Orderings(rows, sort)
  PROVE  s = t
<1> DEFINE n == Cardinality(rows)
           apart == {i \in 1..n : s[i] # t[i]}
<1>1. /\ n \in Nat /\ s \in [1..n -> rows] /\ t \in [1..n -> rows]
      /\ \A i, j \in 1..n : s[i] = s[j] => i = j
      /\ \A i, j \in 1..n : t[i] = t[j] => i = j
      /\ \A row \in rows : \E i \in 1..n : s[i] = row
      /\ \A row \in rows : \E i \in 1..n : t[i] = row
  BY OrderingIs
<1>2. ASSUME s # t PROVE FALSE
  <2>1. apart # {} /\ apart \subseteq Nat
    BY <1>1, <1>2
  <2>2. PICK i \in apart : \A k \in apart : i <= k
    BY <2>1, LeastNumber
  <2>3. PICK j \in 1..n : t[j] = s[i]
    BY <1>1
  <2>4. PICK k \in 1..n : s[k] = t[i]
    BY <1>1
  <2>5. i < j
    BY <1>1, <2>2, <2>3
  <2>6. i < k
    BY <1>1, <2>2, <2>4
  <2>7. \/ SortsBefore(s[i], t[i], sort)
        \/ ~SortsBefore(t[i], s[i], sort) /\ BreaksTie(s[i], t[i])
    BY <2>4, <2>6, OrderingIs
  <2>8. \/ SortsBefore(t[i], s[i], sort)
        \/ ~SortsBefore(s[i], t[i], sort) /\ BreaksTie(t[i], s[i])
    BY <2>3, <2>5, OrderingIs
  <2>9. IsListed(s[i]) /\ IsListed(t[i])
    BY <1>1
  <2>10. ~(SortsBefore(s[i], t[i], sort) /\ SortsBefore(t[i], s[i], sort))
    BY <2>9, SortsOneWay
  <2>11. ~(BreaksTie(s[i], t[i]) /\ BreaksTie(t[i], s[i]))
    BY <2>9 DEF BreaksTie, IsListed
  <2> QED
    BY <2>7, <2>8, <2>10, <2>11
<1> QED
  BY <1>2

(* Every such order is one the reference allows.                             *)
LEMMA OrdersAgree ==
  ASSUME NEW rows, IsFiniteSet(rows), \A row \in rows : IsListed(row),
         NEW sort \in Sorts, NEW s \in Orderings(rows, sort)
  PROVE  s \in Reordered(rows, sort)
<1>1. s \in SetToSeqs(rows)
  BY DEF Orderings
<1>2. ASSUME NEW i \in 1..Len(s), NEW j \in 1..Len(s), i < j
      PROVE  CASE sort = "price-asc"  -> s[i].price <= s[j].price
               [] sort = "price-desc" -> s[i].price >= s[j].price
               [] sort = "beds-desc"  -> OrZero(s[i].bedrooms) >= OrZero(s[j].bedrooms)
               [] sort = "area-desc"  -> ComparableSqft(s[i]) >= ComparableSqft(s[j])
               [] OTHER -> s[i].published >= s[j].published
  <2> DEFINE a == s[i]
             b == s[j]
  <2>1. IsListed(a) /\ IsListed(b)
    BY OrderingIs
  <2>2. SortsBefore(a, b, sort) \/ ~SortsBefore(b, a, sort)
    BY <1>2, OrderingIs
  <2> HIDE DEF a, b
  <2>3. /\ a.price \in Nat /\ b.price \in Nat /\ a.published \in Nat /\ b.published \in Nat
        /\ a.bedrooms \in Nat \cup {None} /\ b.bedrooms \in Nat \cup {None}
    BY <2>1 DEF IsListed
  <2>4. /\ Sqft(a) \in Nat \cup {None} /\ Sqft(b) \in Nat \cup {None}
        /\ ComparableSqft(a) = OrZero(Sqft(a)) /\ ComparableSqft(b) = OrZero(Sqft(b))
    BY <2>1, AreasAgree
  <2>5. CASE sort = "price-asc"
    BY <2>2, <2>3, <2>5 DEF SortsBefore, a, b
  <2>6. CASE sort = "price-desc"
    BY <2>2, <2>3, <2>6 DEF SortsBefore, a, b
  <2>7. CASE sort = "beds-desc"
    <3>1. OrZero(a.bedrooms) >= OrZero(b.bedrooms)
      BY <2>2, <2>3, <2>7 DEF SortsBefore, Descending, OrZero
    <3> QED
      BY <2>7, <3>1 DEF a, b
  <2>8. CASE sort = "area-desc"
    <3>1. ComparableSqft(a) >= ComparableSqft(b)
      BY <2>2, <2>4, <2>8 DEF SortsBefore, Descending, OrZero
    <3> QED
      BY <2>8, <3>1 DEF a, b
  <2>9. CASE sort = "newest"
    BY <2>2, <2>3, <2>9 DEF SortsBefore, a, b
  <2> QED
    BY <2>5, <2>6, <2>7, <2>8, <2>9 DEF Sorts
<1> QED
  BY <1>1, <1>2 DEF Reordered

-----------------------------------------------------------------------------
(* Pages.                                                                    *)

(* The lesser of two.                                                        *)
LEMMA MinOfTwo ==
  ASSUME NEW a \in Nat, NEW b \in Nat
  PROVE  Min({a, b}) = IF a <= b THEN a ELSE b
<1>1. CASE a <= b
  BY <1>1, MinIs
<1>2. CASE b <= a
  BY <1>2, MinIs
<1> QED
  BY <1>1, <1>2

(* The pages up to one of them, put together.                                *)
Upto(s, page) == SubSeq(s, 1, Min({page * PageSize, Len(s)}))

(* The first page, and a page put after those before it.                     *)
LEMMA PagesAddUp ==
  ASSUME NEW S, NEW s \in Seq(S), NEW page \in Nat \ {0}
  PROVE  /\ PageOf(s, 1, PageSize) = Upto(s, 1)
         /\ Upto(s, page) \o PageOf(s, page + 1, PageSize) = Upto(s, page + 1)
<1> DEFINE n == Len(s)
           k == page * PageSize
           l == (page + 1) * PageSize
<1>1. PageSize \in Nat \ {0} /\ n \in Nat /\ k \in Nat /\ l = k + PageSize /\ l \in Nat
  BY SearchAssumption
<1>2. PageOf(s, 1, PageSize) = Upto(s, 1)
  <2>1. (1 - 1) * PageSize + 1 = 1
    BY <1>1
  <2> QED
    BY <2>1, Zenon DEF PageOf, Upto
<1>3. /\ Min({k, n}) = IF k <= n THEN k ELSE n
      /\ Min({l, n}) = IF l <= n THEN l ELSE n
  BY <1>1, MinOfTwo
<1>4. PageOf(s, page + 1, PageSize) = SubSeq(s, k + 1, Min({l, n}))
  <2>1. ((page + 1) - 1) * PageSize = k
    <3>1. (page + 1) - 1 = page
      OBVIOUS
    <3> QED
      BY <3>1
  <2> QED
    BY <2>1, Zenon DEF PageOf
<1>5. Upto(s, page) = SubSeq(s, 1, Min({k, n})) /\ Upto(s, page + 1) = SubSeq(s, 1, Min({l, n}))
  BY DEF Upto
<1> HIDE DEF k, l
<1>6. CASE k <= n
  <2>1. 1 \in 1..n+1 /\ k \in 0..n /\ Min({l, n}) \in k..n /\ Min({k, n}) = k
    BY <1>1, <1>3, <1>6
  <2>2. 1 \in 1..Len(s)+1 /\ k \in 1-1..Len(s) /\ Min({l, n}) \in k..Len(s)
    BY <2>1
  <2>3. SubSeq(s, 1, k) \o SubSeq(s, k + 1, Min({l, n})) = SubSeq(s, 1, Min({l, n}))
    BY <2>2, ConcatAdjacentSubSeq
  <2> QED
    BY <1>2, <1>4, <1>5, <2>1, <2>3
<1>7. CASE n < k
  <2>1. Min({k, n}) = n /\ Min({l, n}) = n
    BY <1>1, <1>3, <1>7
  <2>2. SubSeq(s, k + 1, n) = << >>
    BY <1>1, <1>7, SubSeqEmpty
  <2>3. SubSeq(s, 1, n) = s
    BY SubSeqFull
  <2>4. s \o << >> = s
    BY ConcatEmptySeq
  <2> QED
    BY <1>2, <1>4, <1>5, <2>1, <2>2, <2>3, <2>4
<1> QED
  BY <1>1, <1>6, <1>7

(* The last page is the one that reaches the end.                            *)
LEMMA LastPage ==
  ASSUME NEW n \in Nat, NEW size \in Nat \ {0}
  PROVE  /\ ((n + size - 1) \div size) * size >= n
         /\ (0 + size - 1) \div size = 0
<1> DEFINE x == n + size - 1
           d == x \div size
<1>1. x \in Nat /\ d \in Int /\ x = size * d + (x % size) /\ (x % size) \in 0..(size - 1)
  OBVIOUS
<1>2. d * size = size * d
  BY <1>1
<1>3. d * size >= n
  <2> DEFINE m == size * d
             r == x % size
  <2>1. m \in Int /\ r \in Int /\ x = m + r /\ r <= size - 1 /\ x = n + size - 1
    BY <1>1
  <2> HIDE DEF m, r, x
  <2>2. m >= n
    BY <2>1
  <2> QED
    BY <1>2, <2>2 DEF m
<1>4. (0 + size - 1) \div size = 0
  OBVIOUS
<1> QED
  BY <1>3, <1>4

(* With it the whole order has been shown.                                   *)
LEMMA TheLastPageEndsIt ==
  ASSUME NEW S, NEW s \in Seq(S), NEW page \in Nat, page * PageSize >= Len(s)
  PROVE  Upto(s, page) = s
<1>1. page * PageSize \in Nat /\ Len(s) \in Nat
  BY SearchAssumption
<1>2. Min({page * PageSize, Len(s)}) = Len(s)
  BY <1>1, MinOfTwo
<1> QED
  BY <1>2, SubSeqFull DEF Upto

-----------------------------------------------------------------------------
(* The search page.                                                          *)

(* The rows a search selects, and the request for a page of them.            *)
Hits(table, query) == {row \in table : CanView(row) /\ PublicScope(row) /\ Filters(row, query)}
Asked(address) == Request(Parse(address), PageSize)

(* What a walk has shown is the beginning of the one order there is.         *)
Walks(table, address, answer, w) ==
    LET query == Parse(address) IN
    /\ answer.ok /\ answer \in Search(table, Asked(address))
    /\ w.page = query.page
    /\ \E s \in Orderings(Hits(table, query), query.sort) : w.seen = Upto(s, query.page)

(* The page shows what was answered for its address.                         *)
Browsed(table, address, target, answer, w) ==
    /\ IsFiniteSet(table) /\ \A row \in table : IsListed(row)
    /\ IsAddress(address) /\ (target = None \/ IsAddress(target))
    /\ answer = None \/ answer \in Search(table, Asked(address)) \cup {Failed(Asked(address))}
    /\ w.page > 0 => Walks(table, address, answer, w)

(* Who browses does so while nothing changes; otherwise the page stays       *)
(* blank.                                                                    *)
SearchInv ==
    /\ scene \in Scenes
    /\ scene.links = {} => goal = None /\ screen = Blank /\ walk = NoWalk
    /\ scene.links # {} => Browsed(Table, url, goal, screen.answer, walk)

(* The hits of a finite table are finite.                                    *)
LEMMA FiniteHits ==
  ASSUME NEW table, IsFiniteSet(table), \A row \in table : IsListed(row), NEW query
  PROVE  /\ IsFiniteSet(Hits(table, query))
         /\ \A row \in Hits(table, query) : IsListed(row)
  BY FS_Subset DEF Hits

(* An answer that arrived is a page of the hits.                             *)
LEMMA FoundIs ==
  ASSUME NEW table, NEW address, IsAddress(address),
         NEW answer \in Search(table, Asked(address)) \cup {Failed(Asked(address))}, answer.ok
  PROVE  LET query == Parse(address)
             hits  == Hits(table, query) IN
         /\ answer \in Search(table, Asked(address))
         /\ answer.page = query.page /\ answer.pageSize = PageSize /\ query.page \in Nat \ {0}
         /\ \E s \in Orderings(hits, query.sort) :
                /\ answer.listings = PageOf(s, query.page, PageSize)
                /\ answer.total = IF answer.listings = << >> THEN 0 ELSE Cardinality(hits)
<1> DEFINE query == Parse(address)
           request == Asked(address)
           hits  == Hits(table, query)
<1>1. request.query = query /\ request.pageSize = PageSize
  BY DEF Asked, Request
<1>2. answer # Failed(request)
  BY DEF Failed
<1>3. answer \in Search(table, request)
  BY <1>2
<1>4. Accepts(request)
  BY <1>2, <1>3 DEF Search
<1>5. query.page \in Nat \ {0}
  BY <1>1, <1>4, ParsedIs, SearchAssumption DEF Accepts
<1>6. Min({PageSize, MaxPageSize}) = PageSize
  BY MinOfTwo, SearchAssumption
<1>7. hits = {row \in table : CanView(row) /\ PublicScope(row) /\ Filters(row, request.query)}
  BY <1>1 DEF Hits
<1>8. PICK s \in Orderings(hits, query.sort) :
        LET found == PageOf(s, query.page, PageSize) IN
        answer = [ok |-> TRUE, listings |-> found,
                  total |-> IF found = << >> THEN 0 ELSE Cardinality(hits),
                  page |-> query.page, pageSize |-> PageSize]
  <2> HIDE DEF request, query, hits
  <2> QED
    BY <1>1, <1>3, <1>4, <1>6, <1>7 DEF Search
<1> HIDE DEF request, query, hits
<1> QED
  BY <1>3, <1>5, <1>8 DEF request, query, hits

(* At first the page is blank.                                               *)
LEMMA SearchInit == Init => SearchInv
<1> SUFFICES ASSUME Init PROVE SearchInv
  OBVIOUS
<1>1. scene \in Scenes /\ listing = scene.table /\ url = NoParams /\ goal = None
      /\ screen = Blank /\ walk = NoWalk
  BY DEF Init, InitSearch
<1>2. IsFiniteSet(Table)
  <2> DEFINE f == [i \in DOMAIN listing |-> listing[i]]
  <2>1. f \in Surjection(DOMAIN listing, Table)
    BY DEF Surjection, Table
  <2>2. IsFiniteSet(DOMAIN listing)
    BY <1>1, SceneAssumption
  <2> QED
    BY <2>1, <2>2, FS_Surjection
<1>3. \A row \in Table : IsListed(row)
  BY <1>1, SceneAssumption DEF Table
<1>4. IsAddress(NoParams)
  BY DEF IsAddress, NoParams, NumberKeys, ListKeys, QueryKeys, Valid
<1>5. screen.answer = None /\ walk.page = 0
  BY <1>1 DEF Blank, NoWalk
<1> QED
  BY <1>1, <1>2, <1>3, <1>4, <1>5 DEF SearchInv, Browsed

(* An address stays an address when a parameter of it is set.                *)
LEMMA AddressIs ==
  ASSUME NEW a, NEW b, IsAddress(a), b = [k \in DOMAIN NoParams |-> b[k]],
         \A k \in NumberKeys \cup {"page"} : b[k] = a[k] \/ b[k] \in Nat \cup {None},
         b.area = a.area \/ \A ref \in b.area : ref = <<ref[1], ref[2]>>
  PROVE  IsAddress(b)
  BY DEF IsAddress

(* The parameters fall into kinds.                                           *)
LEMMA KeysAre ==
  /\ DOMAIN NoParams = QueryKeys \cup {"view"}
  /\ NumberKeys \cup ListKeys \cup {"q", "sort", "page"} = QueryKeys
  /\ "view" \notin QueryKeys
  /\ "area" \in ListKeys /\ "poly" \in ListKeys
  /\ (NumberKeys \cup {"page"}) \cap (ListKeys \cup {"view"}) = {}
  /\ "page" \notin NumberKeys
  BY DEF NoParams, QueryKeys, NumberKeys, ListKeys, Valid

(* update.                                                                   *)
LEMMA UpdatedIsAddress ==
  ASSUME IsAddress(url), NEW key \in QueryKeys, NEW value,
         key \in NumberKeys => value \in Nat \cup {None},
         key = "area" => \A ref \in value : ref = <<ref[1], ref[2]>>
  PROVE  IsAddress(Updated(key, value))
<1> DEFINE b == Updated(key, value)
<1>1. DOMAIN url = DOMAIN NoParams
  BY DEF IsAddress
<1>2. /\ b = [k \in DOMAIN NoParams |-> b[k]]
      /\ \A k \in DOMAIN NoParams :
            b[k] = IF k = "page" THEN None ELSE IF k = key THEN value ELSE url[k]
  BY <1>1 DEF Updated
<1> HIDE DEF b
<1>3. \A k \in NumberKeys \cup {"page"} : b[k] = url[k] \/ b[k] \in Nat \cup {None}
  BY <1>2, KeysAre
<1>4. b.area = url.area \/ \A ref \in b.area : ref = <<ref[1], ref[2]>>
  BY <1>2, KeysAre
<1> QED
  BY <1>2, <1>3, <1>4, AddressIs DEF b

(* The other addresses the page makes up.                                    *)
LEMMA OthersAreAddresses ==
  ASSUME IsAddress(url)
  PROVE  /\ IsAddress(NoParams)
         /\ IsAddress(ToParams(Parse(url)))
         /\ \A v : IsAddress([url EXCEPT !.view = v])
         /\ \A page \in Nat : IsAddress([url EXCEPT !.page = IF page > 1 THEN page ELSE None])
<1>1. DOMAIN url = DOMAIN NoParams /\ url = [k \in DOMAIN url |-> url[k]]
  BY DEF IsAddress
<1>2. IsAddress(NoParams)
  BY DEF IsAddress, NoParams, NumberKeys, ListKeys, QueryKeys, Valid
<1>3. IsAddress(ToParams(Parse(url)))
  <2> DEFINE q == Parse(url)
             b == ToParams(q)
  <2>1. /\ b = [k \in DOMAIN NoParams |-> b[k]]
        /\ \A k \in DOMAIN NoParams : b[k] =
                CASE k = "view" -> None
                  [] k = "sort" /\ q.sort = "newest" -> None
                  [] k = "page" /\ q.page <= 1 -> None
                  [] OTHER -> q[k]
    BY DEF ToParams
  <2>2. /\ \A k \in NumberKeys : q[k] \in Nat \cup {None}
        /\ \A ref \in q.area : ref = <<ref[1], ref[2]>>
        /\ q.page \in Nat
    BY ParsedIs
  <2> HIDE DEF b, q
  <2>3. /\ \A k \in NumberKeys : b[k] = q[k]
        /\ b.page \in Nat \cup {None} /\ b.area = q.area
    BY <2>1, <2>2, KeysAre DEF NumberKeys
  <2> QED
    BY <2>1, <2>2, <2>3 DEF IsAddress, b, q
<1>4. ASSUME NEW v PROVE IsAddress([url EXCEPT !.view = v])
  <2> DEFINE b == [url EXCEPT !.view = v]
  <2>1. /\ b = [k \in DOMAIN NoParams |-> b[k]]
        /\ \A k \in DOMAIN NoParams : b[k] = IF k = "view" THEN v ELSE url[k]
    BY <1>1, KeysAre
  <2> HIDE DEF b
  <2>2. \A k \in NumberKeys \cup {"page", "area"} : b[k] = url[k]
    BY <2>1, KeysAre
  <2> QED
    BY <2>1, <2>2, AddressIs DEF b
<1>5. ASSUME NEW page \in Nat
      PROVE  IsAddress([url EXCEPT !.page = IF page > 1 THEN page ELSE None])
  <2> DEFINE v == IF page > 1 THEN page ELSE None
             b == [url EXCEPT !.page = v]
  <2>1. /\ b = [k \in DOMAIN NoParams |-> b[k]]
        /\ \A k \in DOMAIN NoParams : b[k] = IF k = "page" THEN v ELSE url[k]
    BY <1>1, KeysAre
  <2>2. v \in Nat \cup {None}
    OBVIOUS
  <2> HIDE DEF b, v
  <2>3. \A k \in NumberKeys \cup {"page"} : b[k] = url[k] \/ b[k] \in Nat \cup {None}
    BY <2>1, <2>2, KeysAre
  <2>4. b.area = url.area
    BY <2>1, KeysAre
  <2>5. IsAddress(b)
    BY <2>1, <2>3, <2>4, AddressIs
  <2> QED
    BY <2>5, Zenon DEF b, v
<1> QED
  BY <1>2, <1>3, <1>4, <1>5

(* A click: the address it leads to is one, and the page stays.              *)
LEMMA PushKeepsTheSearch ==
  ASSUME SearchInv, scene.links # {}, NEW address, IsAddress(address), Push(address),
         UNCHANGED <<scene, listing>>
  PROVE  SearchInv'
<1>1. Browsed(Table, url, address, screen.answer, walk)
  BY DEF SearchInv, Browsed
<1>2. Table' = Table
  BY DEF Table
<1> QED
  BY <1>1, <1>2 DEF SearchInv, Push

(* Nothing else is relied upon.                                              *)
LEMMA SearchStutter ==
  ASSUME SearchInv, UNCHANGED <<searchVars, scene>>, scene.links # {} => UNCHANGED listing
  PROVE  SearchInv'
<1>1. scene.links # {} => Table' = Table
  BY DEF Table
<1> QED
  BY <1>1 DEF SearchInv, searchVars

(* The clicks are made on a page that shows something.                       *)
LEMMA ClicksKeepTheSearch ==
  ASSUME SearchInv, UNCHANGED <<scene, listing>>,
         \/ \E address \in scene.links : Arrive(address)
         \/ \E t \in scene.toggles : Toggle(t[1], t[2])
         \/ \E t \in scene.picks : Pick(t[1], t[2])
         \/ \E area \in scene.areas : DrawArea(area)
         \/ \E page \in 1..MaxPage : TurnTo(page)
         \/ OpenSaved \/ ClearAll \/ ClearAreas \/ ToggleView
  PROVE  SearchInv'
<1>1. scene.links # {}
  <2>1. CASE \E address \in scene.links : Arrive(address)
    BY <2>1
  <2>2. CASE ~\E address \in scene.links : Arrive(address)
    <3>1. screen.answer # None
      BY <2>2 DEF Toggle, Pick, DrawArea, TurnTo, OpenSaved, ClearAll, ClearAreas, ToggleView
    <3> QED
      BY <3>1 DEF SearchInv, Blank
  <2> QED
    BY <2>1, <2>2
<1>2. scene \in Scenes /\ IsAddress(url)
  BY <1>1 DEF SearchInv, Browsed
<1>3. /\ \A address \in scene.links : IsAddress(address)
      /\ \A t \in scene.toggles :
            t[1] \in ListKeys /\ (t[1] = "area" => t[2] = <<t[2][1], t[2][2]>>)
      /\ \A t \in scene.picks :
            t[1] \in QueryKeys \ ListKeys /\ (t[1] \in NumberKeys => t[2] \in Nat \cup {None})
  BY <1>2, SceneAssumption
<1>4. CASE \E address \in scene.links : Arrive(address)
  BY <1>1, <1>3, <1>4, PushKeepsTheSearch DEF Arrive
<1>5. CASE \E t \in scene.toggles : Toggle(t[1], t[2])
  <2>1. PICK t \in scene.toggles : Toggle(t[1], t[2])
    BY <1>5
  <2> DEFINE value == IF t[2] \in url[t[1]] THEN url[t[1]] \ {t[2]} ELSE url[t[1]] \cup {t[2]}
  <2>2. t[1] \in QueryKeys /\ t[1] \notin NumberKeys
    BY <1>3, <2>1, KeysAre
  <2>3. t[1] = "area" => \A ref \in value : ref = <<ref[1], ref[2]>>
    BY <1>2, <1>3, <2>1 DEF IsAddress
  <2>4. Push(Updated(t[1], value))
    BY <2>1 DEF Toggle
  <2> HIDE DEF value
  <2> QED
    BY <1>1, <1>2, <2>2, <2>3, <2>4, UpdatedIsAddress, PushKeepsTheSearch
<1>6. CASE \E t \in scene.picks : Pick(t[1], t[2])
  <2>1. PICK t \in scene.picks : Pick(t[1], t[2])
    BY <1>6
  <2>2. t[1] \in QueryKeys /\ t[1] # "area" /\ (t[1] \in NumberKeys => t[2] \in Nat \cup {None})
    BY <1>3, <2>1, KeysAre
  <2>3. Push(Updated(t[1], t[2]))
    BY <2>1 DEF Pick
  <2> QED
    BY <1>1, <1>2, <2>2, <2>3, UpdatedIsAddress, PushKeepsTheSearch
<1>7. CASE (\E area \in scene.areas : DrawArea(area)) \/ ClearAreas
  <2>1. PICK value : Push(Updated("poly", value))
    BY <1>7 DEF DrawArea, ClearAreas
  <2>2. "poly" \in QueryKeys /\ "poly" \notin NumberKeys
    BY KeysAre
  <2> QED
    BY <1>1, <1>2, <2>1, <2>2, UpdatedIsAddress, PushKeepsTheSearch
<1>8. CASE \E page \in 1..MaxPage : TurnTo(page)
  <2>1. PICK page \in 1..MaxPage : TurnTo(page)
    BY <1>8
  <2>2. page \in Nat
    BY <2>1, SearchAssumption
  <2>3. Push([url EXCEPT !.page = IF page > 1 THEN page ELSE None])
    BY <2>1 DEF TurnTo
  <2> QED
    BY <1>1, <1>2, <2>2, <2>3, OthersAreAddresses, PushKeepsTheSearch
<1>9. CASE OpenSaved \/ ClearAll
  <2>1. Push(ToParams(Parse(url))) \/ Push(NoParams)
    BY <1>9 DEF OpenSaved, ClearAll
  <2> QED
    BY <1>1, <1>2, <2>1, OthersAreAddresses, PushKeepsTheSearch
<1>10. CASE ToggleView
  <2>1. Push([url EXCEPT !.view = IF OnMapView THEN None ELSE "map"])
    BY <1>10 DEF ToggleView
  <2> QED
    BY <1>1, <1>2, <2>1, OthersAreAddresses, PushKeepsTheSearch
<1> QED
  BY <1>4, <1>5, <1>6, <1>7, <1>8, <1>9, <1>10

(* Two addresses of the same search, whatever their pages.                   *)
LEMMA SameHits ==
  ASSUME IsAddress(url), IsAddress(goal), SameSearch, NEW table
  PROVE  /\ Hits(table, Parse(goal)) = Hits(table, Parse(url))
         /\ Parse(goal).sort = Parse(url).sort
<1> DEFINE p == Parse(goal)
           q == Parse(url)
<1>1. \A k \in QueryKeys \ {"page"} : goal[k] = url[k]
  BY DEF SameSearch
<1>2. \A k \in QueryKeys \ {"page"} : p[k] = q[k]
  <2>1. goal.sort = url.sort
    BY <1>1, KeysAre
  <2>2. ASSUME NEW k \in QueryKeys \ {"page"} PROVE p[k] = q[k]
    <3>1. goal[k] = url[k]
      BY <1>1
    <3> QED
      BY <2>1, <3>1 DEF Parse
  <2> QED
    BY <2>2
<1> HIDE DEF p, q
<1>3. /\ p.q = q.q /\ p.city = q.city /\ p.area = q.area /\ p.status = q.status
      /\ p.minPrice = q.minPrice /\ p.maxPrice = q.maxPrice /\ p.beds = q.beds /\ p.baths = q.baths
      /\ p.minYear = q.minYear /\ p.maxMaint = q.maxMaint /\ p.minSqft = q.minSqft
      /\ p.maxSqft = q.maxSqft /\ p.type = q.type /\ p.possession = q.possession
      /\ p.furnishing = q.furnishing /\ p.features = q.features /\ p.poly = q.poly
      /\ p.sort = q.sort
  BY <1>2 DEF QueryKeys, NumberKeys, ListKeys, Valid
<1>4. \A row : Filters(row, p) <=> Filters(row, q)
  BY <1>3 DEF Filters
<1> QED
  BY <1>3, <1>4 DEF Hits, p, q

(* The page is rendered.                                                     *)
LEMMA RenderKeepsTheSearch ==
  ASSUME SearchInv, Render, UNCHANGED <<scene, listing>>
  PROVE  SearchInv'
<1>1. scene.links # {}
  BY DEF SearchInv, Render
<1>2. Browsed(Table, url, goal, screen.answer, walk) /\ goal # None
  BY <1>1 DEF SearchInv, Render
<1>3. IsAddress(goal) /\ IsAddress(url)
  BY <1>2 DEF Browsed
<1>4. PICK answer \in Search(Table, Asked(goal)) \cup {Failed(Asked(goal))} :
        walk' = Walked(answer) /\ screen'.answer = answer
  BY DEF Render, Answers, Asked
<1>5. url' = goal /\ goal' = None /\ Table' = Table
  BY DEF Render, Table
<1> DEFINE query == Parse(goal)
           hits == Hits(Table, query)
<1>6. /\ IsFiniteSet(Table) /\ \A row \in Table : IsListed(row)
      /\ IsFiniteSet(hits) /\ \A row \in hits : IsListed(row)
  BY <1>2, FiniteHits DEF Browsed
<1>7. ASSUME walk'.page > 0 PROVE Walks(Table, goal, answer, walk')
  <2>1. answer.ok
    BY <1>4, <1>7 DEF Walked, NoWalk
  <2>2. /\ answer \in Search(Table, Asked(goal))
        /\ answer.page = query.page /\ query.page \in Nat \ {0}
    BY <1>3, <1>4, <2>1, FoundIs
  <2>3. PICK s \in Orderings(hits, query.sort) : answer.listings = PageOf(s, query.page, PageSize)
    BY <1>3, <1>4, <2>1, FoundIs
  <2>4. s \in Seq(hits)
    BY <1>6, OrderingIs
  <2>5. CASE answer.page = 1
    <3>1. walk' = [page |-> 1, seen |-> answer.listings]
      BY <1>4, <2>1, <2>5 DEF Walked
    <3>2. walk'.page = query.page /\ walk'.seen = Upto(s, query.page)
      BY <2>2, <2>3, <2>4, <2>5, <3>1, PagesAddUp
    <3> QED
      BY <2>1, <2>2, <3>2 DEF Walks
  <2>6. CASE answer.page # 1
    <3>1. /\ walk.page > 0 /\ answer.page = walk.page + 1 /\ SameSearch
          /\ walk' = [page |-> answer.page, seen |-> walk.seen \o answer.listings]
      BY <1>4, <1>7, <2>1, <2>6 DEF Walked, NoWalk
    <3>2. Walks(Table, url, screen.answer, walk)
      BY <1>2, <3>1 DEF Browsed
    <3>3. Hits(Table, Parse(url)) = hits /\ Parse(url).sort = query.sort
      BY <1>3, <3>1, SameHits
    <3>4. PICK t \in Orderings(hits, query.sort) : walk.seen = Upto(t, walk.page)
      BY <3>2, <3>3 DEF Walks
    <3>5. query.sort \in Sorts
      BY <1>3, ParsedIs
    <3>6. t = s
      BY <1>6, <2>3, <3>4, <3>5, OneOrdering
    <3>7. walk.page \in Nat \ {0}
      BY <1>3, <3>1, <3>2, ParsedIs DEF Walks
    <3>8. walk'.page = query.page /\ walk'.seen = Upto(s, query.page)
      BY <2>2, <2>3, <2>4, <3>1, <3>4, <3>6, <3>7, PagesAddUp
    <3> QED
      BY <2>1, <2>2, <3>8 DEF Walks
  <2> QED
    BY <2>5, <2>6
<1>8. Browsed(Table, goal, None, answer, walk')
  BY <1>3, <1>4, <1>6, <1>7 DEF Browsed
<1> QED
  BY <1>1, <1>4, <1>5, <1>8 DEF SearchInv

(* Every step keeps the search in order.                                     *)
LEMMA SearchStep == SearchInv /\ [Next]_vars => SearchInv'
<1> SUFFICES ASSUME SearchInv, [Next]_vars PROVE SearchInv'
  OBVIOUS
<1>1. UNCHANGED scene /\ scene \in Scenes
  BY DEF SearchInv, Next, vars
<1>2. CASE Browse /\ UNCHANGED deskVars
  <2>1. UNCHANGED listing
    BY <1>2 DEF deskVars
  <2>2. CASE Render
    BY <1>1, <2>1, <2>2, RenderKeepsTheSearch
  <2>3. CASE ~Render
    BY <1>1, <1>2, <2>1, <2>3, ClicksKeepTheSearch DEF Browse
  <2> QED
    BY <2>2, <2>3
<1>3. CASE UNCHANGED searchVars
  <2>1. scene.links # {} => scene.editors = {}
    BY <1>1, SceneAssumption
  <2>2. CASE UNCHANGED listing
    BY <1>1, <1>3, <2>2, SearchStutter
  <2>3. CASE Edit
    BY <1>1, <1>3, <2>1, <2>3, SearchStutter DEF Edit
  <2>4. CASE Tell
    <3>1. UNCHANGED listing
      BY <2>4 DEF Tell, Hinted, HintArrives
    <3> QED
      BY <2>2, <3>1
  <2>5. CASE Browse /\ UNCHANGED deskVars
    BY <1>2, <2>5
  <2> QED
    BY <2>2, <2>3, <2>4, <2>5 DEF Next, vars, deskVars
<1> QED
  BY <1>2, <1>3 DEF Next, vars

(* So it stays in order.                                                     *)
LEMMA SearchAlways == Spec => []SearchInv
<1>1. Init => SearchInv
  BY SearchInit
<1> QED
  BY <1>1, SearchStep, PTL DEF Spec

(* Whatever the catalog, the filters and the order of the clicks, the page   *)
(* of a search shows one page of the rows the reference finds, in an order   *)
(* it allows, and counts them all.                                           *)
THEOREM SearchesShowWhatMatches == Spec => []SearchShowsWhatMatches
<1>1. SearchInv => SearchShowsWhatMatches
  <2> SUFFICES ASSUME SearchInv, screen.answer # None, screen.answer.ok, ~Differs(url)
               PROVE  /\ \E s \in Reordered(Wanted(url), Parse(url).sort) :
                            screen.answer.listings = PageOf(s, Parse(url).page, PageSize)
                      /\ screen.answer.listings # << >> =>
                            screen.answer.total = Cardinality(Wanted(url))
    BY DEF SearchShowsWhatMatches
  <2> DEFINE query == Parse(url)
             answer == screen.answer
             hits == Hits(Table, query)
  <2>1. Browsed(Table, url, goal, answer, walk)
    BY DEF SearchInv, Blank
  <2>2. IsFiniteSet(hits) /\ (\A row \in hits : IsListed(row)) /\ IsAddress(url)
    BY <2>1, FiniteHits DEF Browsed
  <2>3. PICK s \in Orderings(hits, query.sort) :
            /\ answer.listings = PageOf(s, query.page, PageSize)
            /\ answer.total = IF answer.listings = << >> THEN 0 ELSE Cardinality(hits)
    BY <2>1, <2>2, FoundIs DEF Browsed
  <2>4. hits = Wanted(url)
    <3>1. ASSUME NEW row \in OnSite PROVE Filters(row, query) <=> Matches(row, Effective(url))
      <4>1. IsListed(row)
        BY <2>1 DEF Browsed, OnSite
      <4>2. /\ "villa" \notin query.type
            /\ Sqft(row) # None \/ (query.maxSqft = None /\ query.minSqft # 0)
        BY DEF Differs
      <4>3. query.q # None => SameText(row, query.q)
        BY DEF Differs, ReadsDifferently, SameText
      <4>4. Filters(row, query) <=> Matches(row, query)
        BY <2>2, <4>1, <4>2, <4>3, RowsAgree
      <4>5. url.status = {} => ~(row.status \in {"SOLD", "RENTED"} /\ Matches(row, query))
        BY DEF Differs
      <4> QED
        BY <4>4, <4>5, DefaultIsHarmless
    <3> QED
      BY <3>1 DEF Hits, Wanted, OnSite
  <2>5. query.sort \in Sorts
    BY <2>2, ParsedIs
  <2>6. s \in Reordered(hits, query.sort)
    BY <2>2, <2>3, <2>5, OrdersAgree
  <2> QED
    BY <2>3, <2>4, <2>6
<1> QED
  BY <1>1, SearchAlways, PTL

(* Whoever turns the pages of a search from the first to the last sees every *)
(* match once: the order is the same for each request.                       *)
THEOREM WalksSeeEverything == Spec => []WalkSeesEverything
<1>1. SearchInv => WalkSeesEverything
  <2> SUFFICES ASSUME SearchInv, walk.page > 0, walk.page = Totals(screen.answer)
               PROVE  /\ ToSet(walk.seen) = {row \in OnSite : Filters(row, Parse(url))}
                      /\ Len(walk.seen) = Cardinality(ToSet(walk.seen))
    BY DEF WalkSeesEverything
  <2> DEFINE query == Parse(url)
             answer == screen.answer
             hits == Hits(Table, query)
  <2>1. Browsed(Table, url, goal, answer, walk)
    BY DEF SearchInv, NoWalk
  <2>2. IsFiniteSet(hits) /\ (\A row \in hits : IsListed(row)) /\ IsAddress(url)
    BY <2>1, FiniteHits DEF Browsed
  <2>3. Walks(Table, url, answer, walk)
    BY <2>1 DEF Browsed
  <2>4. PICK s \in Orderings(hits, query.sort) : walk.seen = Upto(s, query.page)
    BY <2>3 DEF Walks
  <2>5. /\ s \in Seq(hits) /\ Len(s) = Cardinality(hits) /\ Cardinality(hits) \in Nat
        /\ ToSet(s) = hits
    <3>1. /\ s \in Seq(hits) /\ Len(s) = Cardinality(hits) /\ Cardinality(hits) \in Nat
          /\ DOMAIN s = 1..Cardinality(hits) /\ s \in [1..Cardinality(hits) -> hits]
          /\ \A row \in hits : \E i \in 1..Cardinality(hits) : s[i] = row
      BY <2>2, OrderingIs
    <3> QED
      BY <3>1 DEF ToSet
  <2>6. answer \in Search(Table, Asked(url)) /\ answer.ok /\ walk.page = query.page
    BY <2>3 DEF Walks
  <2>7. /\ answer.pageSize = PageSize /\ query.page \in Nat \ {0}
        /\ answer.total \in {0, Cardinality(hits)}
    BY <2>2, <2>6, FoundIs
  <2>8. query.page = (answer.total + PageSize - 1) \div PageSize
    BY <2>6, <2>7 DEF Totals
  <2>9. answer.total = Cardinality(hits)
    BY <2>5, <2>7, <2>8, LastPage, SearchAssumption
  <2>10. query.page * PageSize >= Len(s)
    BY <2>5, <2>8, <2>9, LastPage, SearchAssumption
  <2>11. walk.seen = s
    BY <2>4, <2>5, <2>7, <2>10, TheLastPageEndsIt
  <2>12. hits = {row \in OnSite : Filters(row, query)}
    BY DEF Hits, OnSite
  <2> QED
    BY <2>5, <2>11, <2>12
<1> QED
  BY <1>1, SearchAlways, PTL

-----------------------------------------------------------------------------
(* The pages and what is behind their links.                                 *)

(* A strict total order of a set, as the pairs of it.                        *)
IsOrder(S, R) ==
    /\ \A a, b \in S : a # b => <<a, b>> \in R \/ <<b, a>> \in R
    /\ \A a \in S : <<a, a>> \notin R
    /\ \A a, b, c \in S : <<a, b>> \in R /\ <<b, c>> \in R => <<a, c>> \in R

(* So many come before one of them.                                          *)
Rank(S, R, a) == Cardinality({b \in S : <<b, a>> \in R}) + 1

(* In a strict total order of a finite set the ranks are its numbers.        *)
LEMMA RanksAreNumbers ==
  ASSUME NEW S, IsFiniteSet(S), NEW R, IsOrder(S, R)
  PROVE  LET n == Cardinality(S) IN
         /\ n \in Nat
         /\ \A a \in S : Rank(S, R, a) \in 1..n
         /\ \A i \in 1..n : \E a \in S : Rank(S, R, a) = i
         /\ \A a, b \in S : <<a, b>> \in R => Rank(S, R, a) < Rank(S, R, b)
<1> DEFINE Ahead(a) == {b \in S : <<b, a>> \in R}
           n == Cardinality(S)
<1>1. n \in Nat
  BY FS_CardinalityType
<1>2. ASSUME NEW a \in S
      PROVE  /\ IsFiniteSet(Ahead(a)) /\ Cardinality(Ahead(a)) \in Nat
             /\ Cardinality(Ahead(a)) < n
  <2>1. Ahead(a) \in SUBSET S /\ Ahead(a) # S
    BY DEF IsOrder
  <2>2. /\ IsFiniteSet(Ahead(a)) /\ Cardinality(Ahead(a)) <= n
        /\ Cardinality(Ahead(a)) # n
    BY <2>1, FS_Subset
  <2>3. Cardinality(Ahead(a)) \in Nat
    BY <2>2, FS_CardinalityType
  <2> QED
    BY <1>1, <2>2, <2>3
<1>3. \A a \in S : Rank(S, R, a) = Cardinality(Ahead(a)) + 1
  BY DEF Rank
<1>4. \A a \in S : Rank(S, R, a) \in 1..n
  <2> SUFFICES ASSUME NEW a \in S PROVE Rank(S, R, a) \in 1..n
    OBVIOUS
  <2>1. Rank(S, R, a) = Cardinality(Ahead(a)) + 1 /\ Cardinality(Ahead(a)) \in Nat
        /\ Cardinality(Ahead(a)) < n
    BY <1>2, <1>3
  <2> HIDE DEF Ahead, n
  <2> QED
    BY <1>1, <2>1
<1>5. ASSUME NEW a \in S, NEW b \in S, <<a, b>> \in R PROVE Rank(S, R, a) < Rank(S, R, b)
  <2>1. Ahead(a) \in SUBSET Ahead(b)
    BY <1>5 DEF IsOrder
  <2>2. a \in Ahead(b) /\ a \notin Ahead(a)
    BY <1>5 DEF IsOrder
  <2>3. Cardinality(Ahead(a)) <= Cardinality(Ahead(b)) /\ Cardinality(Ahead(a)) # Cardinality(Ahead(b))
    <3> HIDE DEF Ahead
    <3> QED
      BY <1>2, <2>1, <2>2, FS_Subset
  <2>4. /\ Rank(S, R, a) = Cardinality(Ahead(a)) + 1 /\ Cardinality(Ahead(a)) \in Nat
        /\ Rank(S, R, b) = Cardinality(Ahead(b)) + 1 /\ Cardinality(Ahead(b)) \in Nat
    BY <1>2, <1>3
  <2> HIDE DEF Ahead
  <2> QED
    BY <2>3, <2>4
<1>6. ASSUME NEW a \in S, NEW b \in S, Rank(S, R, a) = Rank(S, R, b) PROVE a = b
  <2>1. Rank(S, R, a) \in Nat /\ Rank(S, R, b) \in Nat
    BY <1>1, <1>4
  <2>2. <<a, b>> \notin R /\ <<b, a>> \notin R
    BY <1>5, <1>6, <2>1
  <2> QED
    BY <2>2 DEF IsOrder
<1>7. \A i \in 1..n : \E a \in S : Rank(S, R, a) = i
  <2> DEFINE f == [a \in S |-> Rank(S, R, a)]
  <2>1. f \in Injection(S, 1..n)
    BY <1>4, <1>6 DEF Injection, IsInjective
  <2>2. IsFiniteSet(1..n) /\ Cardinality(1..n) = n
    BY <1>1, FS_Interval
  <2>3. f \in Surjection(S, 1..n)
    <3> HIDE DEF f
    <3> QED
      BY <2>1, <2>2, FS_Injection
  <2> QED
    BY <2>3 DEF Surjection
<1> QED
  BY <1>1, <1>4, <1>5, <1>7

(* In line, each of them has its rank.                                       *)
LEMMA OrdersPutInLine ==
  ASSUME NEW S, IsFiniteSet(S), NEW R, IsOrder(S, R)
  PROVE  \E s \in SetToSeqs(S) : \A i, j \in DOMAIN s : i < j => <<s[i], s[j]>> \in R
<1> DEFINE n == Cardinality(S)
           s == [i \in 1..n |-> CHOOSE a \in S : Rank(S, R, a) = i]
<1>1. /\ n \in Nat
      /\ \A a \in S : Rank(S, R, a) \in 1..n
      /\ \A i \in 1..n : \E a \in S : Rank(S, R, a) = i
      /\ \A a, b \in S : <<a, b>> \in R => Rank(S, R, a) < Rank(S, R, b)
  BY RanksAreNumbers
<1>2. DOMAIN s = 1..n /\ \A i \in 1..n : s[i] \in S /\ Rank(S, R, s[i]) = i
  BY <1>1
<1>3. s \in [1..n -> S]
  BY <1>2
<1> HIDE DEF s
<1>4. \A i, j \in 1..n : i # j => s[i] # s[j]
  BY <1>2
<1>5. s \in SetToSeqs(S)
  BY <1>3, <1>4 DEF SetToSeqs
<1>6. ASSUME NEW i \in 1..n, NEW j \in 1..n, i < j PROVE <<s[i], s[j]>> \in R
  <2>1. /\ s[i] \in S /\ Rank(S, R, s[i]) = i
        /\ s[j] \in S /\ Rank(S, R, s[j]) = j
    BY <1>2
  <2>2. s[i] # s[j]
    BY <1>4, <1>6
  <2>3. <<s[j], s[i]>> \notin R
    BY <1>1, <1>6, <2>1
  <2> QED
    BY <2>1, <2>2, <2>3 DEF IsOrder
<1> QED
  BY <1>2, <1>5, <1>6

(* Rows that are told apart by their ids.                                    *)
Identified(rows) ==
    /\ \A row \in rows : IsListed(row) /\ IsPlaced(row)
    /\ \A a, b \in rows : a.id = b.id => a = b

(* Such rows can be returned newest first.                                   *)
LEMMA NewestFirst ==
  ASSUME NEW rows, IsFiniteSet(rows), Identified(rows)
  PROVE  Orderings(rows, "newest") # {}
<1> DEFINE Above(a, b) == \/ SortsBefore(a, b, "newest")
                          \/ ~SortsBefore(b, a, "newest") /\ BreaksTie(a, b)
           R == {p \in rows \X rows : Above(p[1], p[2])}
<1>1. \A a, b \in rows : <<a, b>> \in R <=>
        a.published > b.published \/ (~(b.published > a.published) /\ a.id < b.id)
  BY DEF SortsBefore, BreaksTie
<1>2. \A a \in rows : a.published \in Nat /\ a.id \in Nat
  BY DEF Identified, IsListed
<1>3. IsOrder(rows, R)
  <2> HIDE DEF R
  <2> QED
    BY <1>1, <1>2 DEF IsOrder, Identified
<1>4. PICK s \in SetToSeqs(rows) : \A i, j \in DOMAIN s : i < j => <<s[i], s[j]>> \in R
  BY <1>3, OrdersPutInLine
<1>5. DOMAIN s = 1..Len(s)
  <2>1. s \in [1..Cardinality(rows) -> rows] /\ Cardinality(rows) \in Nat
    BY FS_CardinalityType DEF SetToSeqs
  <2> QED
    BY <2>1
<1>6. \A i, j \in 1..Len(s) : i < j => Above(s[i], s[j])
  BY <1>4, <1>5
<1> QED
  BY <1>6 DEF Orderings

(* A column of a finite set of rows: numbers, or NULL.                       *)
IsColumn(column) ==
    IsFiniteSet(column) /\ \A p \in column : p = <<p[1], p[2]>> /\ p[1] \in Nat /\ p[2] \in Nat \cup {None}

(* Such a column sorts into a sequence of numbers.                           *)
LEMMA SortedIs ==
  ASSUME NEW column, IsColumn(column)
  PROVE  /\ Sorted(column) \in Seq(Nat)
         /\ Sorted(column) = << >> <=> \A p \in column : p[2] = None
<1> DEFINE known == {p \in column : p[2] # None}
           R == {p \in known \X known : Lower(p[1], p[2])}
           n == Cardinality(known)
<1>1. /\ IsFiniteSet(known) /\ n \in Nat
      /\ \A p \in known : p = <<p[1], p[2]>> /\ p[1] \in Nat /\ p[2] \in Nat
  BY FS_Subset, FS_CardinalityType DEF IsColumn
<1>2. \A p, q \in known : <<p, q>> \in R <=> Lower(p, q)
  OBVIOUS
<1>3. IsOrder(known, R)
  <2>1. \A p, q \in known : p[1] = q[1] /\ p[2] = q[2] => p = q
    <3> HIDE DEF known
    <3> QED
      BY <1>1, Zenon
  <2>2. \A p \in known : p[1] \in Nat /\ p[2] \in Nat
    BY <1>1
  <2> HIDE DEF R, known
  <2> QED
    BY <1>2, <2>1, <2>2 DEF IsOrder, Lower
<1>4. \E s \in SetToSeqs(known) : \A i, j \in DOMAIN s : i < j => Lower(s[i], s[j])
  <2>1. PICK s \in SetToSeqs(known) : \A i, j \in DOMAIN s : i < j => <<s[i], s[j]>> \in R
    BY <1>1, <1>3, OrdersPutInLine
  <2> QED
    BY <2>1
<1> DEFINE order == InLine(known, Lower)
<1>5. order \in SetToSeqs(known)
  <2> HIDE DEF known
  <2> QED
    BY <1>4 DEF InLine
<1>6. order \in [1..n -> known]
  BY <1>5 DEF SetToSeqs
<1>7. Sorted(column) = [i \in DOMAIN order |-> order[i][2]]
  BY DEF Sorted
<1>8. known = {} <=> n = 0
  BY <1>1, FS_EmptySet
<1>9. known = {} <=> \A p \in column : p[2] = None
  OBVIOUS
<1> HIDE DEF order, known, n
<1>10. Sorted(column) \in [1..n -> Nat]
  BY <1>1, <1>6, <1>7
<1>11. Sorted(column) \in Seq(Nat) /\ Len(Sorted(column)) = n
  BY <1>1, <1>10
<1>12. Sorted(column) = << >> <=> n = 0
  BY <1>11, EmptySeq
<1> QED
  BY <1>8, <1>9, <1>11, <1>12

(* The two medians are one.                                                  *)
LEMMA MediansAgree ==
  ASSUME NEW values \in Seq(Nat)
  PROVE  /\ OrZero(TwiceMedian(values)) = MockTwiceMedian(values)
         /\ values # << >> => TwiceMedian(values) = MockTwiceMedian(values)
<1> DEFINE n == Len(values)
           mid == n \div 2
<1>1. CASE values = << >>
  BY <1>1 DEF TwiceMedian, MockTwiceMedian, OrZero
<1>2. CASE values # << >>
  <2>1. n \in Nat \ {0} /\ \A i \in 1..n : values[i] \in Nat
    BY <1>2
  <2>2. mid + 1 \in 1..n /\ (n + 1) \div 2 \in 1..n
    BY <2>1
  <2>3. TwiceMedian(values) = values[(n + 1) \div 2] + values[mid + 1]
    BY <1>2 DEF TwiceMedian
  <2>4. TwiceMedian(values) \in Nat
    <3>1. values[(n + 1) \div 2] \in Nat /\ values[mid + 1] \in Nat
      BY <2>1, <2>2, Zenon
    <3> HIDE DEF n, mid
    <3> QED
      BY <2>3, <3>1
  <2>5. CASE n % 2 = 0
    <3>1. (n + 1) \div 2 = mid
      <4>1. \A k \in Nat : k % 2 = 0 => (k + 1) \div 2 = k \div 2
        OBVIOUS
      <4> QED
        BY <2>1, <2>5, <4>1, Zenon
    <3>2. MockTwiceMedian(values) = values[mid] + values[mid + 1]
      BY <1>2, <2>5 DEF MockTwiceMedian
    <3>3. TwiceMedian(values) = MockTwiceMedian(values)
      <4> HIDE DEF n, mid
      <4> QED
        BY <2>3, <3>1, <3>2, Zenon
    <3> QED
      BY <2>4, <3>3, SearchAssumption DEF OrZero
  <2>6. CASE n % 2 # 0
    <3>1. (n + 1) \div 2 = mid + 1
      BY <2>1, <2>6
    <3>2. MockTwiceMedian(values) = 2 * values[mid + 1]
      BY <1>2, <2>6 DEF MockTwiceMedian
    <3>3. TwiceMedian(values) = values[mid + 1] + values[mid + 1] /\ values[mid + 1] \in Nat
      BY <2>1, <2>2, <2>3, <3>1
    <3>4. TwiceMedian(values) = MockTwiceMedian(values)
      <4> HIDE DEF n, mid
      <4> QED
        BY <3>2, <3>3
    <3> QED
      BY <2>4, <3>4, SearchAssumption DEF OrZero
  <2> QED
    BY <2>5, <2>6
<1> QED
  BY <1>1, <1>2

(* The links of the pages: the newest, of an area or of a city.              *)
IsLink(address) ==
    /\ IsAddress(address)
    /\ \A k \in QueryKeys \ {"area", "city", "sort"} : address[k] = NoParams[k]
    /\ address.sort \in {None, "newest"}

(* What the pages link to.                                                   *)
LEMMA LinksAre ==
  /\ \A ref : ref = <<ref[1], ref[2]>> => IsLink([NoParams EXCEPT !.area = {ref}])
  /\ \A city : IsLink([NoParams EXCEPT !.city = {city}])
  /\ IsLink([NoParams EXCEPT !.sort = "newest"])
  /\ \A ref : [NoParams EXCEPT !.area = {ref}].area = {ref} /\ [NoParams EXCEPT !.area = {ref}].city = {}
  /\ \A city : [NoParams EXCEPT !.city = {city}].city = {city} /\ [NoParams EXCEPT !.city = {city}].area = {}
  /\ [NoParams EXCEPT !.sort = "newest"].area = {} /\ [NoParams EXCEPT !.sort = "newest"].city = {}
<1>1. /\ NoParams = [k \in DOMAIN NoParams |-> NoParams[k]]
      /\ {"area", "city", "sort", "page"} \cup NumberKeys \subseteq DOMAIN NoParams
      /\ {"area", "city", "sort"} \cap (NumberKeys \cup {"page"}) = {}
      /\ NoParams.area = {} /\ NoParams.city = {} /\ NoParams.sort = None
      /\ \A k \in NumberKeys \cup {"page"} : NoParams[k] = None
  BY DEF NoParams, NumberKeys, ListKeys, QueryKeys, Valid
<1>2. DOMAIN NoParams = QueryKeys \cup {"view"}
  BY DEF NoParams
<1> QED
  BY <1>1, <1>2 DEF IsLink, IsAddress

(* The search behind one asks for the newest of its rows, from the first     *)
(* page on.                                                                  *)
LEMMA BehindLinks ==
  ASSUME NEW address, IsLink(address)
  PROVE  LET q == Parse(address) IN
         /\ q.sort = "newest" /\ q.page = 1
         /\ \A size \in 1..MaxPageSize : Accepts(Request(q, size))
         /\ \A row : Filters(row, q) <=> OneOf(row.city, address.city) /\ InOneOf(row, address.area)
<1> DEFINE q == Parse(address)
<1>1. /\ q.sort = "newest" /\ q.page = 1 /\ q.q = None
      /\ \A k \in NumberKeys : q[k] = None
      /\ \A k \in {"type", "status", "possession", "furnishing", "features", "poly"} : q[k] = {}
      /\ q.city = address.city /\ q.area = address.area
  <2>1. DOMAIN Valid = {"type", "status", "possession", "furnishing"}
    BY DEF Valid
  <2>2. \A k \in QueryKeys : q[k] =
        CASE k \in DOMAIN Valid -> address[k] \cap Valid[k]
          [] k = "sort" /\ address.sort \notin Sorts -> "newest"
          [] k = "page" /\ address.page = None -> 1
          [] OTHER -> address[k]
    BY DEF Parse
  <2>3. /\ QueryKeys = NumberKeys \cup {"type", "status", "possession", "furnishing", "city", "area",
                                        "features", "poly", "q", "sort", "page"}
        /\ NumberKeys = {"minPrice", "maxPrice", "beds", "baths", "minSqft", "maxSqft", "minYear", "maxMaint"}
    BY <2>1 DEF QueryKeys, ListKeys, NumberKeys
  <2>4. \A k \in {"type", "status", "possession", "furnishing", "features", "poly"} : NoParams[k] = {}
    BY <2>1, <2>3 DEF NoParams, ListKeys
  <2>5. \A k \in NumberKeys \cup {"q", "page"} : NoParams[k] = None
    BY <2>1, <2>3 DEF NoParams, ListKeys
  <2>6. \A k \in {"type", "status", "possession", "furnishing", "features", "poly"} : address[k] = {}
    BY <2>3, <2>4 DEF IsLink
  <2>7. \A k \in NumberKeys \cup {"q", "page"} : address[k] = None
    BY <2>3, <2>5 DEF IsLink
  <2>8. q.sort = "newest"
    <3>1. q.sort = IF address.sort \notin Sorts THEN "newest" ELSE address.sort
      BY <2>1, <2>2, <2>3
    <3>2. address.sort = None \/ address.sort = "newest"
      BY DEF IsLink
    <3>3. None \notin Sorts
      BY SearchAssumption
    <3> QED
      BY <3>1, <3>2, <3>3
  <2>9. q.page = 1 /\ q.q = None
    <3>1. q.page = IF address.page = None THEN 1 ELSE address.page
      BY <2>1, <2>2, <2>3
    <3>2. q.q = address.q
      BY <2>1, <2>2, <2>3
    <3> QED
      BY <2>7, <3>1, <3>2
  <2>10. \A k \in NumberKeys : q[k] = None
    BY <2>1, <2>2, <2>3, <2>7
  <2>11. \A k \in {"type", "status", "possession", "furnishing"} : q[k] = {}
    BY <2>1, <2>2, <2>3, <2>6
  <2>12. q.features = {} /\ q.poly = {} /\ q.city = address.city /\ q.area = address.area
    BY <2>1, <2>2, <2>3, <2>6
  <2> HIDE DEF q
  <2> QED
    BY <2>8, <2>9, <2>10, <2>11, <2>12
<1> HIDE DEF q
<1>2. /\ q.minPrice = None /\ q.maxPrice = None /\ q.beds = None /\ q.baths = None
      /\ q.minSqft = None /\ q.maxSqft = None /\ q.minYear = None /\ q.maxMaint = None
  BY <1>1 DEF NumberKeys
<1>3. /\ q.type = {} /\ q.status = {} /\ q.possession = {} /\ q.furnishing = {}
      /\ q.features = {} /\ q.poly = {}
  BY <1>1
<1>4. \A size \in 1..MaxPageSize : Accepts(Request(q, size))
  <2>1. /\ \A k \in {"beds", "baths"} : q[k] # None => q[k] <= 20
        /\ \A k \in {"minPrice", "maxPrice"} : q[k] # None => q[k] <= MaxPrice
        /\ \A k \in {"minSqft", "maxSqft"} : q[k] # None => q[k] <= MaxArea
        /\ q.minYear # None => q.minYear \in 1900..2100
    BY <1>2
  <2>2. q.page \in 1..MaxPage
    BY <1>1, SearchAssumption
  <2> QED
    <3>1. ASSUME NEW size \in 1..MaxPageSize PROVE Accepts(Request(q, size))
      <4>1. Request(q, size).query = q /\ Request(q, size).pageSize = size
        BY DEF Request
      <4> HIDE DEF Request
      <4> QED
        BY <2>1, <2>2, <4>1 DEF Accepts
    <3> QED
      BY <3>1
<1>5. \A row : Filters(row, q) <=> OneOf(row.city, address.city) /\ InOneOf(row, address.area)
  BY <1>1, <1>2, <1>3 DEF Filters, OneOf, InOneOf, AtLeast, AtMost
<1> QED
  BY <1>1, <1>4, <1>5 DEF q

(* The first so many of what is in line, or all of it.                       *)
First(S, s, size, m) ==
    /\ PageOf(s, 1, size) = SubSeq(s, 1, m)
    /\ m \in Nat /\ m <= size /\ m <= Len(s) /\ (m = size \/ m = Len(s))
    /\ Len(SubSeq(s, 1, m)) = m
    /\ SubSeq(s, 1, m) \in Seq(S) /\ \A i \in 1..m : SubSeq(s, 1, m)[i] = s[i]

(* The first page of a sequence.                                             *)
LEMMA FirstPage ==
  ASSUME NEW S, NEW s \in Seq(S), NEW size \in Nat
  PROVE  First(S, s, size, Min({size, Len(s)}))
<1> DEFINE m == Min({size, Len(s)})
<1>1. (1 - 1) * size + 1 = 1 /\ 1 * size = size /\ Len(s) \in Nat
  OBVIOUS
<1>2. PageOf(s, 1, size) = SubSeq(s, 1, m)
  BY <1>1, Zenon DEF PageOf
<1>3. m \in Nat /\ m <= size /\ m <= Len(s) /\ (m = size \/ m = Len(s))
  BY <1>1, MinOfTwo
<1> HIDE DEF m
<1>4. \A i \in 1..m : s[i] \in S
  BY <1>1, <1>3
<1>5. /\ Len(SubSeq(s, 1, m)) = m /\ SubSeq(s, 1, m) \in Seq(S)
      /\ \A i \in 1..m : SubSeq(s, 1, m)[i] = s[i]
  BY <1>3, <1>4, SubSeqProperties
<1> QED
  BY <1>2, <1>3, <1>5 DEF First, m

(* A shorter beginning is the beginning of a longer one.                     *)
LEMMA BeginningsArePrefixes ==
  ASSUME NEW S, NEW s \in Seq(S), NEW k \in 0..Len(s), NEW n \in k..Len(s)
  PROVE  IsPrefix(SubSeq(s, 1, k), SubSeq(s, 1, n))
<1> DEFINE a == SubSeq(s, 1, k)
           b == SubSeq(s, 1, n)
<1>1. Len(s) \in Nat /\ k \in Nat /\ n \in Nat /\ k <= n /\ n <= Len(s)
  OBVIOUS
<1>2. /\ a \in Seq(S) /\ Len(a) = k
      /\ b \in Seq(S) /\ Len(b) = n
  <2>1. \A i \in 1..Len(s) : s[i] \in S
    OBVIOUS
  <2>2. (\A i \in 1..k : s[i] \in S) /\ (\A i \in 1..n : s[i] \in S)
    BY <1>1, <2>1
  <2>3. a \in Seq(S) /\ Len(a) = IF 1 <= k THEN k - 1 + 1 ELSE 0
    BY <1>1, <2>2, SubSeqProperties
  <2>4. b \in Seq(S) /\ Len(b) = IF 1 <= n THEN n - 1 + 1 ELSE 0
    BY <1>1, <2>2, SubSeqProperties
  <2> HIDE DEF a, b
  <2> QED
    BY <1>1, <2>3, <2>4
<1>3. SubSeq(a, 1, k) = a
  BY <1>2, SubSeqFull
<1>4. SubSeq(b, 1, k) = a
  <2>1. CASE k = 0
    <3>1. SubSeq(b, 1, k) = << >> /\ a = << >>
      BY <2>1, SubSeqEmpty
    <3> QED
      BY <3>1
  <2>2. CASE k # 0
    <3>1. 1 \in 1..Len(s) /\ n \in 1..Len(s) /\ 1 \in 1..n-1+1 /\ k \in 1..n-1+1
      BY <1>1, <2>2
    <3>2. SubSeq(SubSeq(s, 1, n), 1, k) = SubSeq(s, 1+1-1, 1+k-1)
      BY <3>1, SubSeqOfSubSeq
    <3>3. 1+1-1 = 1 /\ 1+k-1 = k
      BY <1>1
    <3> QED
      BY <3>2, <3>3
  <2> QED
    BY <2>1, <2>2
<1> HIDE DEF a, b
<1>5. Len(a) <= Len(b) /\ SubSeq(a, 1, Len(a)) = SubSeq(b, 1, Len(a))
  BY <1>1, <1>2, <1>3, <1>4
<1> QED
  BY <1>5 DEF IsPrefix, a, b

(* What is behind an address are the hits of its search.                     *)
LEMMA BehindIsHits ==
  ASSUME NEW address
  PROVE  Behind(address) = {row \in Table : CanView(row) /\ PublicScope(row) /\ Filters(row, Parse(address))}
  BY DEF Behind, OnSite

(* The list of a page that shows what is behind its link opens it.           *)
LEMMA NewestOpen ==
  ASSUME IsFiniteSet(Table), Identified(Table),
         NEW address, IsLink(address),
         NEW rows, {row \in rows : PublicScope(row)} = Behind(address)
  PROVE  Opens(PageOf(Newest(rows), 1, Cards), address)
<1> DEFINE hits == Behind(address)
           q == Parse(address)
           s == Newest(rows)
           n == Cardinality(hits)
           list == PageOf(s, 1, Cards)
           request == Request(q, PageSize)
<1>1. IsFiniteSet(hits) /\ Identified(hits)
  <2>1. hits \subseteq Table
    BY BehindIsHits
  <2> HIDE DEF hits
  <2> QED
    BY <2>1, FS_Subset DEF Identified
<1>2. s \in Orderings(hits, "newest")
  <2>1. Orderings(hits, "newest") # {}
    BY <1>1, NewestFirst
  <2>2. s = CHOOSE t \in Orderings(hits, "newest") : TRUE
    BY DEF Newest
  <2> HIDE DEF s, hits
  <2> QED
    BY <2>1, <2>2
<1>3. n \in Nat /\ s \in Seq(hits) /\ Len(s) = n
  <2> HIDE DEF s, hits
  <2> QED
    BY <1>1, <1>2, OrderingIs
<1>4. q.sort = "newest" /\ q.page = 1 /\ Accepts(request)
  <2>1. PageSize \in 1..MaxPageSize
    BY SearchAssumption
  <2> QED
    BY <2>1, BehindLinks
<1>5. Min({PageSize, MaxPageSize}) = PageSize
  BY MinOfTwo, SearchAssumption
<1>6. Cards \in Nat /\ PageSize \in Nat /\ Cards <= PageSize
  BY ShopfrontAssumption, SearchAssumption
<1> HIDE DEF s, hits, n, q
<1> DEFINE k == Min({Cards, n})
           m == Min({PageSize, n})
<1>7. /\ k \in Nat /\ k <= Cards /\ k <= n /\ (k = Cards \/ k = n)
      /\ list = SubSeq(s, 1, k) /\ Len(list) = k
  <2>1. First(hits, s, Cards, Min({Cards, Len(s)}))
    BY <1>3, <1>6, FirstPage
  <2>2. First(hits, s, Cards, k)
    BY <1>3, <2>1
  <2> HIDE DEF k
  <2> QED
    BY <1>3, <2>2 DEF First
<1>8. /\ m \in Nat /\ m <= PageSize /\ m <= n /\ (m = PageSize \/ m = n)
      /\ PageOf(s, 1, PageSize) = SubSeq(s, 1, m)
  <2>1. First(hits, s, PageSize, Min({PageSize, Len(s)}))
    BY <1>3, <1>6, FirstPage
  <2>2. First(hits, s, PageSize, m)
    BY <1>3, <2>1
  <2> HIDE DEF m
  <2> QED
    BY <1>3, <2>2 DEF First
<1> HIDE DEF k, m
<1>9. k <= m
  BY <1>3, <1>6, <1>7, <1>8
<1>10. IsPrefix(list, PageOf(s, 1, PageSize))
  <2>1. k \in 0..Len(s) /\ m \in k..Len(s)
    BY <1>3, <1>7, <1>8, <1>9
  <2> QED
    BY <1>3, <1>7, <1>8, <2>1, BeginningsArePrefixes
<1> DEFINE found == PageOf(s, 1, PageSize)
           answer == [ok |-> TRUE, listings |-> found,
                      total |-> IF found = << >> THEN 0 ELSE Cardinality(hits),
                      page |-> 1, pageSize |-> PageSize]
<1>11. answer \in Search(Table, request)
  <2>1. hits = {row \in Table : CanView(row) /\ PublicScope(row) /\ Filters(row, q)}
    BY BehindIsHits DEF hits, q
  <2>2. request.query = q /\ request.pageSize = PageSize
    BY DEF Request
  <2> HIDE DEF request
  <2>3. Search(Table, request) =
          {[ok |-> TRUE, listings |-> PageOf(t, 1, PageSize),
            total |-> IF PageOf(t, 1, PageSize) = << >> THEN 0 ELSE Cardinality(hits),
            page |-> 1, pageSize |-> PageSize] : t \in Orderings(hits, "newest")}
    BY <1>4, <1>5, <2>1, <2>2, Zenon DEF Search
  <2> QED
    BY <1>2, <2>3
<1>12. IsPrefix(list, answer.listings)
  BY <1>10
<1>13. \E answered \in Search(Table, request) : IsPrefix(list, answered.listings)
  <2> HIDE DEF answer, list, request
  <2> QED
    BY <1>11, <1>12
<1>14. Len(list) = Min({Cards, n})
  BY <1>7 DEF k
<1> HIDE DEF list, k
<1> QED
  BY <1>13, <1>14 DEF Opens, q, hits, n, list, s

(* Behind the link of an area are the listings of the site in it.            *)
LEMMA BehindAreas ==
  ASSUME NEW ref \in Areas
  PROVE  LET address == [NoParams EXCEPT !.area = {ref}] IN
         IsLink(address) /\ Behind(address) = {row \in OnSite : InArea(row, ref)}
<1> DEFINE address == [NoParams EXCEPT !.area = {ref}]
<1>1. ref = <<ref[1], ref[2]>>
  BY ShopfrontAssumption
<1>2. IsLink(address) /\ address.area = {ref} /\ address.city = {}
  BY <1>1, LinksAre
<1>3. \A row : Filters(row, Parse(address)) <=> OneOf(row.city, {}) /\ InOneOf(row, {ref})
  <2> HIDE DEF address
  <2> QED
    BY <1>2, BehindLinks
<1>4. \A row : OneOf(row.city, {}) /\ InOneOf(row, {ref}) <=> InArea(row, ref)
  <2> SUFFICES ASSUME NEW row PROVE <<row.city, row.locality>> = ref <=> InArea(row, ref)
    BY DEF OneOf, InOneOf
  <2> QED
    BY <1>1 DEF InArea
<1> HIDE DEF address
<1>5. Behind(address) = {row \in OnSite : InArea(row, ref)}
  BY <1>3, <1>4 DEF Behind
<1> QED
  BY <1>2, <1>5 DEF address

(* Behind the link of a city are the listings of the site in it.             *)
LEMMA BehindCities ==
  ASSUME NEW city
  PROVE  LET address == [NoParams EXCEPT !.city = {city}] IN
         IsLink(address) /\ Behind(address) = {row \in OnSite : row.city = city}
<1> DEFINE address == [NoParams EXCEPT !.city = {city}]
<1>1. IsLink(address) /\ address.area = {} /\ address.city = {city}
  BY LinksAre
<1>2. \A row : Filters(row, Parse(address)) <=> OneOf(row.city, {city}) /\ InOneOf(row, {})
  <2> HIDE DEF address
  <2> QED
    BY <1>1, BehindLinks
<1>3. \A row : OneOf(row.city, {city}) /\ InOneOf(row, {}) <=> row.city = city
  BY DEF OneOf, InOneOf
<1> HIDE DEF address
<1>4. Behind(address) = {row \in OnSite : row.city = city}
  BY <1>2, <1>3 DEF Behind
<1> QED
  BY <1>1, <1>4 DEF address

(* A column has no more values than there are rows.                          *)
LEMMA ColumnsAreFinite ==
  ASSUME NEW rows, IsFiniteSet(rows)
  PROVE  IsFiniteSet(Price(rows)) /\ IsFiniteSet(DaysListed(rows)) /\ IsFiniteSet(Rate(rows))
<1> DEFINE price == [row \in rows |-> <<row.id, row.price>>]
           days == [row \in rows |-> <<row.id, Today - row.published>>]
           rate == [row \in rows |-> <<row.id, IF Sqft(row) = None THEN None
                                               ELSE (60 * row.price) \div Sqft(row)>>]
<1>1. price \in Surjection(rows, Price(rows))
  BY DEF Surjection, Price
<1>2. days \in Surjection(rows, DaysListed(rows))
  BY DEF Surjection, DaysListed
<1>3. rate \in Surjection(rows, Rate(rows))
  BY DEF Surjection, Rate
<1> HIDE DEF price, days, rate
<1> QED
  BY <1>1, <1>2, <1>3, FS_Surjection

(* The figures of an area, where all of it can be shown.                     *)
LEMMA FiguresAgree ==
  ASSUME IsFiniteSet(Table), Identified(Table), NEW active, active \subseteq Table, active # {}
  PROVE  /\ TwiceMedian(Sorted(Price(active))) = MockTwiceMedian(Sorted(Price(active)))
         /\ TwiceMedian(Sorted(DaysListed(active))) = MockTwiceMedian(Sorted(DaysListed(active)))
         /\ OrZero(TwiceMedian(Sorted(Rate(active)))) =
                MockTwiceMedian(Sorted({<<row.id, (60 * row.price) \div ComparableSqft(row)>> :
                        row \in {r \in active : ComparableSqft(r) > 0}}))
<1>1. IsFiniteSet(active)
  BY FS_Subset
<1>2. ASSUME NEW row \in active
      PROVE  /\ row.id \in Nat /\ row.price \in Nat /\ Today - row.published \in Nat
             /\ IsListed(row)
  <2>1. IsListed(row) /\ row.published <= Today
    BY <1>2 DEF Identified, IsPlaced
  <2>2. row.id \in Nat /\ row.price \in Nat /\ row.published \in Nat
    BY <2>1 DEF IsListed
  <2> QED
    BY <2>1, <2>2, SearchAssumption
<1>3. PICK someone \in active : TRUE
  OBVIOUS
<1>4. IsColumn(Price(active)) /\ Sorted(Price(active)) # << >>
  <2>1. IsFiniteSet(Price(active))
    BY <1>1, ColumnsAreFinite
  <2>2. \A p \in Price(active) : p = <<p[1], p[2]>> /\ p[1] \in Nat /\ p[2] \in Nat
    BY <1>2 DEF Price
  <2>3. IsColumn(Price(active))
    BY <2>1, <2>2 DEF IsColumn
  <2>4. <<someone.id, someone.price>> \in Price(active)
    BY DEF Price
  <2>5. PICK p \in Price(active) : p[2] # None
    BY <2>2, <2>4, SearchAssumption
  <2> QED
    BY <2>3, <2>5, SortedIs
<1>5. IsColumn(DaysListed(active)) /\ Sorted(DaysListed(active)) # << >>
  <2>1. IsFiniteSet(DaysListed(active))
    BY <1>1, ColumnsAreFinite
  <2>2. \A p \in DaysListed(active) : p = <<p[1], p[2]>> /\ p[1] \in Nat /\ p[2] \in Nat
    BY <1>2 DEF DaysListed
  <2>3. IsColumn(DaysListed(active))
    BY <2>1, <2>2 DEF IsColumn
  <2>4. <<someone.id, Today - someone.published>> \in DaysListed(active)
    BY DEF DaysListed
  <2>5. PICK p \in DaysListed(active) : p[2] # None
    BY <2>2, <2>4, SearchAssumption
  <2> QED
    BY <2>3, <2>5, SortedIs
<1> DEFINE mock == {<<row.id, (60 * row.price) \div ComparableSqft(row)>> :
                        row \in {r \in active : ComparableSqft(r) > 0}}
<1>6. ASSUME NEW row \in active
      PROVE  /\ Sqft(row) = None => ~(ComparableSqft(row) > 0)
             /\ Sqft(row) # None => /\ ComparableSqft(row) = Sqft(row) /\ ComparableSqft(row) > 0
                                    /\ (60 * row.price) \div Sqft(row) \in Nat
  <2>1. Sqft(row) \in Nat \cup {None} /\ ComparableSqft(row) = OrZero(Sqft(row)) /\ Sqft(row) # 0
    <3>1. Sqft(row) \in Nat \cup {None} /\ ComparableSqft(row) = OrZero(Sqft(row))
      BY <1>2, AreasAgree
    <3>2. Sqft(row) # 0
      <4>1. row.carpet # 0 /\ row.builtUp # 0 /\ row.plot # 0
        BY <1>2 DEF IsListed
      <4> QED
        BY <4>1, SqftIs
    <3> QED
      BY <3>1, <3>2
  <2>2. 60 * row.price \in Nat
    BY <1>2
  <2>3. \A x \in Nat, y \in Nat \ {0} : x \div y \in Nat
    OBVIOUS
  <2> QED
    BY <2>1, <2>2, <2>3, SearchAssumption DEF OrZero
<1>7. IsColumn(Rate(active))
  <2>1. IsFiniteSet(Rate(active))
    BY <1>1, ColumnsAreFinite
  <2>2. \A row \in active : row.id \in Nat /\
            (IF Sqft(row) = None THEN None ELSE (60 * row.price) \div Sqft(row)) \in Nat \cup {None}
    BY <1>2, <1>6
  <2>3. \A p \in Rate(active) : p = <<p[1], p[2]>> /\ p[1] \in Nat /\ p[2] \in Nat \cup {None}
    BY <2>2 DEF Rate
  <2> QED
    BY <2>1, <2>3 DEF IsColumn
<1>8. {p \in mock : p[2] # None} = {p \in Rate(active) : p[2] # None}
  <2>1. ASSUME NEW p \in mock, p[2] # None PROVE p \in Rate(active)
    <3>1. PICK row \in active : ComparableSqft(row) > 0
                    /\ p = <<row.id, (60 * row.price) \div ComparableSqft(row)>>
      OBVIOUS
    <3>2. Sqft(row) # None /\ ComparableSqft(row) = Sqft(row)
      BY <1>6, <3>1
    <3> QED
      BY <3>1, <3>2 DEF Rate
  <2>2. ASSUME NEW p \in Rate(active), p[2] # None PROVE p \in mock
    <3>1. PICK row \in active : p = <<row.id, IF Sqft(row) = None THEN None
                                              ELSE (60 * row.price) \div Sqft(row)>>
      BY DEF Rate
    <3>2. Sqft(row) # None
      BY <2>2, <3>1
    <3>3. ComparableSqft(row) > 0 /\ p = <<row.id, (60 * row.price) \div ComparableSqft(row)>>
      BY <1>6, <3>1, <3>2
    <3> QED
      BY <3>3
  <2> QED
    BY <2>1, <2>2
<1>9. Sorted(mock) = Sorted(Rate(active))
  <2> HIDE DEF mock
  <2> QED
    BY <1>8 DEF Sorted
<1>10. Sorted(Price(active)) \in Seq(Nat) /\ Sorted(DaysListed(active)) \in Seq(Nat)
       /\ Sorted(Rate(active)) \in Seq(Nat)
  BY <1>4, <1>5, <1>7, SortedIs
<1> HIDE DEF mock
<1> QED
  BY <1>4, <1>5, <1>9, <1>10, MediansAgree DEF mock

(* The list, and the figures, of an area.                                    *)
LEMMA AreaPagesAgree ==
  ASSUME IsFiniteSet(Table), Identified(Table), NEW ref \in Areas
  PROVE  AreaPageAgrees(ref)
<1> DEFINE address == [NoParams EXCEPT !.area = {ref}]
           scoped == {row \in Visible : InArea(row, ref)}
           found == Behind(address)
           page == LocalityPage(ref)
           stats == MarketStats(ref)
           mock == MockStats(found, ref)
<1>1. IsLink(address) /\ found = {row \in OnSite : InArea(row, ref)}
  BY BehindAreas
<1>2. page.all = address /\ page.stats = stats /\ page.listings = PageOf(Newest(scoped), 1, Cards)
  BY DEF LocalityPage, ByLocality
<1>3. Opens(page.listings, address)
  <2>1. {row \in scoped : PublicScope(row)} = found
    BY <1>1 DEF Visible, OnSite
  <2> HIDE DEF scoped, address, page, found
  <2> QED
    BY <1>1, <1>2, <2>1, NewestOpen DEF found
<1>4. ASSUME stats # None, Representable(ref)
      PROVE  /\ \A figure \in DOMAIN mock : stats[figure] = mock[figure]
             /\ stats.closePrice = TwiceMedian(Sorted(ClosePrice({row \in found : ClosedLately(row)})))
  <2>1. scoped = found
    <3>1. \A row \in Visible : InArea(row, ref) => PublicScope(row)
      BY <1>4 DEF Representable, PublicScope, Visible, CanView
    <3> QED
      BY <1>1, <3>1 DEF Visible, OnSite
  <2> DEFINE active == {row \in scoped : row.status = "ACTIVE" /\ row.visibility = "PUBLIC"}
             closed == {row \in scoped : ClosedLately(row)}
  <2>2. active = {row \in found : row.city = ref[1] /\ row.locality = ref[2] /\ row.status = "ACTIVE"}
    BY <2>1 DEF Visible, CanView, InArea
  <2>3. stats = IF Cardinality(active) < MinSample THEN None ELSE
          [activeCount |-> Cardinality(active),
           listPrice   |-> TwiceMedian(Sorted(Price(active))),
           rate        |-> OrZero(TwiceMedian(Sorted(Rate(active)))),
           daysListed  |-> TwiceMedian(Sorted(DaysListed(active))),
           closePrice  |-> TwiceMedian(Sorted(ClosePrice(closed)))]
    BY DEF MarketStats
  <2> DEFINE rates == {<<row.id, (60 * row.price) \div ComparableSqft(row)>> :
                          row \in {r \in active : ComparableSqft(r) > 0}}
  <2>4. mock = [activeCount |-> Cardinality(active),
                listPrice   |-> MockTwiceMedian(Sorted(Price(active))),
                rate        |-> MockTwiceMedian(Sorted(rates)),
                daysListed  |-> MockTwiceMedian(Sorted(DaysListed(active)))]
    <3> HIDE DEF active, found
    <3> QED
      BY <2>2, Zenon DEF MockStats
  <2>5. active \subseteq Table
    BY DEF Visible
  <2>6. closed = {row \in found : ClosedLately(row)}
    BY <2>1
  <2> HIDE DEF active, stats, mock, closed
  <2>7. active # {}
    <3>1. MinSample \in Nat \ {0} /\ ~(Cardinality(active) < MinSample)
      BY <1>4, <2>3, ShopfrontAssumption
    <3>2. Cardinality({}) = 0
      BY FS_EmptySet
    <3> QED
      BY <3>1, <3>2
  <2>8. stats = [activeCount |-> Cardinality(active),
                 listPrice   |-> TwiceMedian(Sorted(Price(active))),
                 rate        |-> OrZero(TwiceMedian(Sorted(Rate(active)))),
                 daysListed  |-> TwiceMedian(Sorted(DaysListed(active))),
                 closePrice  |-> TwiceMedian(Sorted(ClosePrice(closed)))]
    BY <1>4, <2>3
  <2>9. /\ TwiceMedian(Sorted(Price(active))) = MockTwiceMedian(Sorted(Price(active)))
        /\ TwiceMedian(Sorted(DaysListed(active))) = MockTwiceMedian(Sorted(DaysListed(active)))
        /\ OrZero(TwiceMedian(Sorted(Rate(active)))) = MockTwiceMedian(Sorted(rates))
    BY <2>5, <2>7, FiguresAgree
  <2> HIDE DEF rates
  <2>10. \A figure \in DOMAIN mock : stats[figure] = mock[figure]
    BY <2>4, <2>8, <2>9
  <2>11. stats.closePrice = TwiceMedian(Sorted(ClosePrice({row \in found : ClosedLately(row)})))
    BY <2>6, <2>8
  <2> QED
    BY <2>10, <2>11
<1> HIDE DEF stats, mock, address, page
<1> QED
  BY <1>2, <1>3, <1>4, Zenon DEF AreaPageAgrees, page, stats, mock

(* The list of a city, and its areas.                                        *)
LEMMA CityPagesAgree ==
  ASSUME IsFiniteSet(Table), Identified(Table), NEW city
  PROVE  CityPageAgrees(city)
<1> DEFINE address == [NoParams EXCEPT !.city = {city}]
           rows == {row \in Visible : row.city = city}
           page == CityPage(city)
           guided == {Behind(LocalityPage(ref).all) : ref \in page.guides}
           searched == {Behind(a) : a \in page.searches}
<1>1. IsLink(address) /\ Behind(address) = {row \in OnSite : row.city = city}
  BY BehindCities
<1>2. page.all = address /\ page.listings = PageOf(Newest(rows), 1, Cards)
  BY DEF CityPage, ByCity
<1>3. Opens(page.listings, address)
  <2>1. {row \in rows : PublicScope(row)} = Behind(address)
    BY <1>1 DEF Visible, OnSite
  <2> HIDE DEF rows, address, page
  <2> QED
    BY <1>1, <1>2, <2>1, NewestOpen
<1>4. /\ page.guides = {ref \in Guides : ref[1] = city}
      /\ page.searches = {[NoParams EXCEPT !.area = {ref}] : ref \in {a \in Areas \ Guides : a[1] = city}}
  BY DEF CityPage
<1>5. \A ref \in Areas : Behind([NoParams EXCEPT !.area = {ref}]) = {row \in OnSite : InArea(row, ref)}
  BY BehindAreas
<1>6. \A ref : LocalityPage(ref).all = [NoParams EXCEPT !.area = {ref}]
  BY DEF LocalityPage
<1> HIDE DEF page, address
<1>7. ASSUME NEW row \in Behind(address) PROVE row \in UNION (guided \cup searched)
  <2> DEFINE ref == <<row.city, row.locality>>
  <2>1. row \in OnSite /\ row.city = city /\ ref \in Areas
    BY <1>1, <1>7 DEF OnSite, Identified, IsPlaced
  <2>2. row \in Behind([NoParams EXCEPT !.area = {ref}])
    BY <1>5, <2>1 DEF InArea
  <2>3. CASE ref \in Guides
    <3>1. ref \in page.guides
      BY <1>4, <2>1, <2>3
    <3>2. Behind(LocalityPage(ref).all) \in guided
      BY <3>1
    <3> QED
      BY <1>6, <2>2, <3>2
  <2>4. CASE ref \notin Guides
    <3>1. [NoParams EXCEPT !.area = {ref}] \in page.searches
      BY <1>4, <2>1, <2>4
    <3> QED
      BY <2>2, <3>1
  <2> QED
    BY <2>3, <2>4
<1>8. ASSUME NEW row \in UNION (guided \cup searched) PROVE row \in Behind(address)
  <2>1. PICK ref \in Areas : ref[1] = city /\ row \in Behind([NoParams EXCEPT !.area = {ref}])
    <3>1. CASE \E rs \in guided : row \in rs
      <4>1. PICK ref \in page.guides : row \in Behind(LocalityPage(ref).all)
        BY <3>1
      <4>2. ref \in Areas /\ ref[1] = city
        BY <1>4, <4>1, ShopfrontAssumption
      <4> QED
        BY <1>6, <4>1, <4>2
    <3>2. CASE \E rs \in searched : row \in rs
      <4>1. PICK a \in page.searches : row \in Behind(a)
        BY <3>2
      <4>2. PICK ref \in Areas : ref[1] = city /\ a = [NoParams EXCEPT !.area = {ref}]
        BY <1>4, <4>1
      <4> QED
        BY <4>1, <4>2
    <3> QED
      BY <3>1, <3>2
  <2> QED
    BY <1>1, <1>5, <2>1 DEF InArea
<1>9. Behind(address) = UNION (guided \cup searched)
  BY <1>7, <1>8
<1> QED
  BY <1>2, <1>3, <1>9, Zenon DEF CityPageAgrees, page

(* The active listings of some areas: as added up, and as counted.           *)
Added(stats, T) == MapThenSumSet(LAMBDA t : stats[t].activeCount, T)
Lying(A, area, T) == {a \in A : area[a] \in T}

(* What the parts count adds up to what the whole counts.                    *)
LEMMA SumsAddUp ==
  ASSUME NEW T, IsFiniteSet(T), NEW stats, NEW A, IsFiniteSet(A), NEW area,
         \A t \in T : stats[t].activeCount = Cardinality(Lying(A, area, {t}))
  PROVE  Added(stats, T) = Cardinality(Lying(A, area, T))
<1> DEFINE Count(t) == stats[t].activeCount
           Within(s) == {a \in A : area[a] \in s}
           Some(s) == CHOOSE x \in s : TRUE
           Adds(g) == g = [s \in SUBSET T |-> IF s = {} THEN 0 ELSE Count(Some(s)) + g[s \ {Some(s)}]]
           sum == CHOOSE g : Adds(g)
           whole == [s \in SUBSET T |-> Cardinality(Within(s))]
<1>1. Added(stats, T) = sum[T]
  BY DEF Added, MapThenSumSet, MapThenFoldSet
<1>2. \A s \in SUBSET T : IsFiniteSet(Within(s)) /\ Cardinality(Within(s)) \in Nat
  <2> SUFFICES ASSUME NEW s \in SUBSET T PROVE IsFiniteSet(Within(s)) /\ Cardinality(Within(s)) \in Nat
    OBVIOUS
  <2>1. Within(s) \subseteq A
    OBVIOUS
  <2> HIDE DEF Within
  <2> QED
    BY <2>1, FS_Subset, FS_CardinalityType
<1>3. \A s \in SUBSET T : s # {} => Some(s) \in s /\ Some(s) \in T /\ s \ {Some(s)} \in SUBSET T
  OBVIOUS
<1>4. Cardinality(Within({})) = 0
  <2>1. Within({}) = {}
    OBVIOUS
  <2> QED
    BY <2>1, FS_EmptySet
<1> HIDE DEF Some
<1>5. ASSUME NEW s \in SUBSET T, s # {}
      PROVE  Cardinality(Within(s)) = Count(Some(s)) + Cardinality(Within(s \ {Some(s)}))
  <2> DEFINE x == Some(s)
             one == {a \in A : area[a] = x}
             rest == Within(s \ {x})
  <2>1. x \in s /\ x \in T /\ s \ {x} \in SUBSET T
    BY <1>3, <1>5
  <2>2. Within(s) = one \cup rest /\ one \cap rest = {}
    BY <2>1
  <2>3. IsFiniteSet(one) /\ Cardinality(one) \in Nat /\ Cardinality(one) = Count(x)
    <3>1. one \subseteq A
      OBVIOUS
    <3>2. Count(x) = Cardinality(Lying(A, area, {x}))
      <4> HIDE DEF x, one, Within
      <4> QED
        BY <2>1
    <3>3. Lying(A, area, {x}) = one
      BY DEF Lying
    <3> HIDE DEF one
    <3> QED
      BY <3>1, <3>2, <3>3, FS_Subset, FS_CardinalityType
  <2>4. IsFiniteSet(rest) /\ Cardinality(rest) \in Nat
    BY <1>2, <2>1
  <2>5. Cardinality({}) = 0
    BY FS_EmptySet
  <2> HIDE DEF x, one, rest, Within, Count
  <2>6. Cardinality(one \cup rest) = Cardinality(one) + Cardinality(rest) - Cardinality(one \cap rest)
    BY <2>3, <2>4, FS_Union
  <2>7. Cardinality(Within(s)) = Count(x) + Cardinality(rest)
    <3>1. Cardinality(one \cap rest) = 0 /\ Cardinality(Within(s)) = Cardinality(one \cup rest)
      BY <2>2, <2>5, Zenon
    <3> DEFINE both == Cardinality(one \cup rest)
               a == Cardinality(one)
               b == Cardinality(rest)
               c == Cardinality(one \cap rest)
    <3>2. a \in Nat /\ b \in Nat /\ c = 0 /\ both = a + b - c /\ a = Count(x)
      BY <2>3, <2>4, <2>6, <3>1, Zenon
    <3> HIDE DEF both, a, b, c
    <3>3. both = Count(x) + b
      BY <3>2
    <3> QED
      BY <3>1, <3>3, Zenon DEF both, b
  <2> QED
    BY <2>7 DEF x, rest
<1> HIDE DEF Within, Count
<1>6. Adds(whole)
  <2>1. ASSUME NEW s \in SUBSET T
        PROVE  whole[s] = IF s = {} THEN 0 ELSE Count(Some(s)) + whole[s \ {Some(s)}]
    <3>1. CASE s = {}
      BY <1>4, <3>1
    <3>2. CASE s # {}
      BY <1>3, <1>5, <3>2
    <3> QED
      BY <3>1, <3>2
  <2> QED
    BY <2>1
<1>7. Adds(sum)
  <2> HIDE DEF Adds, whole
  <2> QED
    BY <1>6, Zenon
<1> HIDE DEF sum
<1>8. ASSUME NEW s \in SUBSET T PROVE sum[s] = IF s = {} THEN 0 ELSE Count(Some(s)) + sum[s \ {Some(s)}]
  BY <1>7
<1>9. \A s \in SUBSET T : IsFiniteSet(s) /\ Cardinality(s) \in Nat
  BY FS_Subset, FS_CardinalityType
<1> HIDE DEF Adds, whole
<1> DEFINE Off(s) == sum[s] # Cardinality(Within(s))
           offs == {Cardinality(s) : s \in {r \in SUBSET T : Off(r)}}
<1>10. ASSUME Off(T) PROVE FALSE
  <2>1. offs \subseteq Nat /\ offs # {}
    BY <1>9, <1>10
  <2>2. PICK m \in offs : \A x \in offs : m <= x
    BY <2>1, LeastNumber
  <2>3. PICK s \in SUBSET T : Off(s) /\ m = Cardinality(s)
    BY <2>2
  <2>4. s # {}
    BY <1>4, <1>8, <2>3
  <2> DEFINE r == s \ {Some(s)}
  <2>5. r \in SUBSET T /\ Some(s) \in s
    BY <1>3, <2>4
  <2>6. Cardinality(r) = Cardinality(s) - 1 /\ Cardinality(s) \in Nat /\ Cardinality(r) \in Nat
    BY <1>9, <2>5, FS_RemoveElement
  <2>7. ~Off(r)
    <3>1. ASSUME Off(r) PROVE FALSE
      <4>1. Cardinality(r) \in offs
        BY <2>5, <3>1
      <4>2. m <= Cardinality(r)
        BY <2>2, <4>1
      <4> HIDE DEF r, offs, Off
      <4> QED
        BY <2>3, <2>6, <4>2
    <3> QED
      BY <3>1
  <2>8. sum[s] = Count(Some(s)) + sum[r]
    BY <1>8, <2>4
  <2>9. Cardinality(Within(s)) = Count(Some(s)) + Cardinality(Within(r))
    BY <1>5, <2>4
  <2> HIDE DEF r
  <2> QED
    BY <2>3, <2>7, <2>8, <2>9
<1> QED
  BY <1>1, <1>10 DEF Within, Lying

(* The market report and the index of the guides.                            *)
LEMMA ReportsAgree ==
  ASSUME IsFiniteSet(Table)
  PROVE  MarketReportsAgree
<1> DEFINE stats == [ref \in Guides |-> MarketStats(ref)]
           tracked == {ref \in Guides : stats[ref] # None}
           market == MarketReportsPage
           index == LocalitiesPage
           Active(ref) == {row \in Visible : InArea(row, ref) /\ row.status = "ACTIVE"}
           actives == {row \in Visible : row.status = "ACTIVE"}
           area == [row \in actives |-> <<row.city, row.locality>>]
<1>1. /\ market.reports = [ref \in tracked |-> stats[ref]]
      /\ market.forSale = Added(stats, tracked)
  BY DEF MarketReportsPage, Added
<1>2. ASSUME NEW ref \in tracked
      PROVE  /\ stats[ref] = MarketStats(ref) /\ ref \in Guides
             /\ stats[ref].activeCount = Cardinality(Active(ref))
  <2>1. Active(ref) = {row \in {r \in Visible : InArea(r, ref)} :
                            row.status = "ACTIVE" /\ row.visibility = "PUBLIC"}
    BY DEF Visible, CanView
  <2>2. stats[ref] = MarketStats(ref) /\ ref \in Guides /\ stats[ref] # None
    OBVIOUS
  <2> HIDE DEF stats, tracked, Active
  <2>3. PICK l, r, d, c : MarketStats(ref) =
            [activeCount |-> Cardinality(Active(ref)), listPrice |-> l, rate |-> r,
             daysListed |-> d, closePrice |-> c]
    BY <2>1, <2>2 DEF MarketStats
  <2> QED
    BY <2>2, <2>3
<1>3. ASSUME NEW ref \in tracked
      PROVE  stats[ref].activeCount = Cardinality(Lying(actives, area, {ref}))
  <2>1. ref = <<ref[1], ref[2]>>
    BY ShopfrontAssumption
  <2>2. Active(ref) = Lying(actives, area, {ref})
    BY <2>1 DEF InArea, Lying
  <2> HIDE DEF stats, tracked, Active, actives, area
  <2> QED
    BY <1>2, <2>2
<1>4. IsFiniteSet(tracked) /\ IsFiniteSet(actives)
  <2>1. tracked \subseteq Areas /\ actives \subseteq Table
    BY ShopfrontAssumption DEF Visible
  <2> HIDE DEF tracked, actives
  <2> QED
    BY <2>1, ShopfrontAssumption, FS_Subset
<1>5. market.forSale = Cardinality(Lying(actives, area, tracked))
  <2>1. \A ref \in tracked : stats[ref].activeCount = Cardinality(Lying(actives, area, {ref}))
    BY <1>3
  <2> HIDE DEF stats, tracked, actives, area, market
  <2> QED
    BY <1>1, <1>4, <2>1, SumsAddUp
<1>6. ASSUME \A ref \in Guides : Representable(ref)
      PROVE  market.forSale = Cardinality({row \in OnSite :
                row.status = "ACTIVE" /\ <<row.city, row.locality>> \in DOMAIN market.reports})
  <2>1. DOMAIN market.reports = tracked
    BY <1>1
  <2>2. \A row \in actives : area[row] \in tracked => PublicScope(row)
    <3> SUFFICES ASSUME NEW row \in actives, area[row] \in tracked PROVE PublicScope(row)
      OBVIOUS
    <3>1. area[row] \in Guides /\ InArea(row, area[row]) /\ row \in Visible
      BY DEF InArea
    <3>2. row.type \in PublicTypes
      BY <1>6, <3>1 DEF Representable
    <3> QED
      BY <3>1, <3>2 DEF PublicScope, Visible, CanView
  <2>3. Lying(actives, area, tracked) =
            {row \in OnSite : row.status = "ACTIVE" /\ <<row.city, row.locality>> \in tracked}
    <3> HIDE DEF tracked
    <3>1. \A row : row \in OnSite <=> row \in Visible /\ PublicScope(row)
      BY DEF OnSite, Visible
    <3>2. \A row \in actives : area[row] = <<row.city, row.locality>>
      OBVIOUS
    <3> HIDE DEF area
    <3> QED
      BY <2>2, <3>1, <3>2 DEF Lying
  <2> HIDE DEF tracked, actives, area, market
  <2> QED
    BY <1>5, <2>1, <2>3
<1>7. ASSUME NEW ref \in tracked PROVE index[ref].forSale = market.reports[ref].activeCount
  <2>1. market.reports[ref] = stats[ref]
    BY <1>1
  <2>2. stats[ref] = MarketStats(ref) /\ ref \in Guides /\ stats[ref] # None
    OBVIOUS
  <2> HIDE DEF stats, tracked
  <2>3. index[ref].forSale = IF MarketStats(ref) = None THEN 0 ELSE MarketStats(ref).activeCount
    BY <2>2 DEF LocalitiesPage
  <2> QED
    BY <2>1, <2>2, <2>3
<1>8. DOMAIN market.reports = tracked
  BY <1>1
<1> HIDE DEF stats, tracked, market, index
<1> QED
  BY <1>6, <1>7, <1>8, Zenon DEF MarketReportsAgree, market, index

(* What has been closed counts from that day, the rest from its publication. *)
LEMMA SinceIs ==
  ASSUME NEW row
  PROVE  Since(row) = IF row.closed # None THEN row.closed ELSE
                      IF row.published # None THEN row.published ELSE None
<1> DEFINE columns == <<"closed", "published">>
           known == {i \in DOMAIN columns : row[columns[i]] # None}
<1>1. columns[1] = "closed" /\ columns[2] = "published" /\ DOMAIN columns = {1, 2}
  OBVIOUS
<1>2. Since(row) = IF known = {} THEN None ELSE row[columns[Min(known)]]
  BY DEF Since, Coalesce
<1> HIDE DEF columns
<1>3. known \subseteq Nat
  BY <1>1
<1>4. CASE row.closed # None
  <2>1. 1 \in known /\ \A y \in known : 1 <= y
    BY <1>1, <1>4
  <2> QED
    BY <1>1, <1>2, <1>3, <1>4, <2>1, MinIs
<1>5. CASE row.closed = None /\ row.published # None
  <2>1. 2 \in known /\ \A y \in known : 2 <= y
    BY <1>1, <1>5
  <2> QED
    BY <1>1, <1>2, <1>3, <1>5, <2>1, MinIs
<1>6. CASE row.closed = None /\ row.published = None
  <2>1. known = {}
    BY <1>1, <1>6
  <2> QED
    BY <1>2, <1>6, <2>1
<1> QED
  BY <1>4, <1>5, <1>6

(* The own listings can be shown for sale first.                             *)
LEMMA HostListingsInLine ==
  ASSUME NEW rows, IsFiniteSet(rows), Identified(rows)
  PROVE  LET s == InLine(rows, ShownBefore)  n == Cardinality(rows) IN
         /\ n \in Nat /\ s \in [1..n -> rows] /\ s \in Seq(rows) /\ Len(s) = n
         /\ \A i, j \in 1..n : s[i] = s[j] => i = j
         /\ \A row \in rows : \E i \in 1..n : s[i] = row
         /\ \A i, j \in 1..n : i < j => ShownBefore(s[i], s[j])
<1> DEFINE R == {p \in rows \X rows : ShownBefore(p[1], p[2])}
           s == InLine(rows, ShownBefore)
           n == Cardinality(rows)
<1>1. \A a, b \in rows : <<a, b>> \in R <=> ShownBefore(a, b)
  OBVIOUS
<1>2. ASSUME NEW row \in rows PROVE Since(row) \in Nat /\ row.id \in Nat
  <2>1. row.closed \in Nat \cup {None} /\ row.published \in Nat /\ row.id \in Nat
    BY DEF Identified, IsListed, IsPlaced
  <2>2. row.published # None
    BY <2>1, SearchAssumption
  <2> QED
    BY <2>1, <2>2, SinceIs
<1>3. IsOrder(rows, R)
  <2>1. \A a, b \in rows : a.id = b.id => a = b
    BY DEF Identified
  <2>2. \A a \in rows : Since(a) \in Nat /\ a.id \in Nat
    BY <1>2
  <2>3. \A a, b \in rows : a # b => ShownBefore(a, b) \/ ShownBefore(b, a)
    BY <2>1, <2>2 DEF ShownBefore
  <2>4. \A a \in rows : ~ShownBefore(a, a)
    BY <2>2 DEF ShownBefore
  <2>5. \A a, b, c \in rows : ShownBefore(a, b) /\ ShownBefore(b, c) => ShownBefore(a, c)
    BY <2>2 DEF ShownBefore
  <2> HIDE DEF R
  <2> QED
    BY <1>1, <2>3, <2>4, <2>5, Zenon DEF IsOrder
<1>4. \E t \in SetToSeqs(rows) : \A i, j \in DOMAIN t : i < j => ShownBefore(t[i], t[j])
  <2>1. PICK t \in SetToSeqs(rows) : \A i, j \in DOMAIN t : i < j => <<t[i], t[j]>> \in R
    BY <1>3, OrdersPutInLine
  <2> QED
    BY <2>1
<1>5. s \in SetToSeqs(rows) /\ \A i, j \in DOMAIN s : i < j => ShownBefore(s[i], s[j])
  BY <1>4 DEF InLine
<1> HIDE DEF s
<1>6. n \in Nat
  BY FS_CardinalityType
<1>7. s \in [1..n -> rows] /\ \A i, j \in 1..n : i # j => s[i] # s[j]
  BY <1>5 DEF SetToSeqs
<1>8. \A row \in rows : \E i \in 1..n : s[i] = row
  <2>1. IsFiniteSet(1..n) /\ Cardinality(1..n) = n
    BY <1>6, FS_Interval
  <2>2. s \in Injection(1..n, rows)
    BY <1>7 DEF Injection, IsInjective
  <2>3. s \in Surjection(1..n, rows)
    BY <2>1, <2>2, FS_Injection
  <2> QED
    BY <1>7, <2>3 DEF Surjection
<1>9. s \in Seq(rows) /\ Len(s) = n
  BY <1>6, <1>7
<1> QED
  BY <1>5, <1>6, <1>7, <1>8, <1>9 DEF s

(* What lies before all else lies at the front.                              *)
LEMMA FrontIs ==
  ASSUME NEW n \in Nat, NEW P, P \subseteq 1..n, \A i, j \in 1..n : i < j /\ j \in P => i \in P
  PROVE  P = 1..Cardinality(P) /\ Cardinality(P) \in Nat /\ Cardinality(P) <= n
<1> DEFINE others == {i \in 1..n : i \notin P}
<1>1. \E m \in 0..n : P = 1..m
  <2>1. CASE others = {}
    <3>1. \A i : i \in P <=> i \in 1..n
      BY <2>1
    <3>2. P = 1..n
      BY <3>1, Zenon
    <3>3. n \in 0..n
      OBVIOUS
    <3> QED
      BY <3>2, <3>3
  <2>2. CASE others # {}
    <3>1. others \subseteq Nat
      OBVIOUS
    <3>2. PICK m \in others : \A x \in others : m <= x
      BY <2>2, <3>1, LeastNumber, Zenon
    <3>3. m \in 1..n /\ m \notin P
      OBVIOUS
    <3>4. \A i \in 1..n : i < m => i \in P
      <4> SUFFICES ASSUME NEW i \in 1..n, i < m, i \notin P PROVE FALSE
        OBVIOUS
      <4>1. i \in others
        OBVIOUS
      <4>2. m <= i
        BY <3>2, <4>1
      <4> QED
        BY <3>3, <4>2
    <3>5. \A i \in 1..n : i \in P => i < m
      BY <3>3
    <3>6. \A i : i \in P <=> i \in 1..(m - 1)
      <4>1. \A i \in 1..(m - 1) : i \in 1..n /\ i < m
        BY <3>3
      <4>2. \A i \in 1..n : i < m => i \in 1..(m - 1)
        BY <3>3
      <4> HIDE DEF others
      <4> QED
        BY <3>4, <3>5, <4>1, <4>2, Zenon
    <3>7. P = 1..(m - 1)
      BY <3>6, Zenon
    <3>8. m - 1 \in 0..n
      BY <3>3
    <3> QED
      BY <3>7, <3>8
  <2> QED
    BY <2>1, <2>2
<1>2. PICK m \in 0..n : P = 1..m
  BY <1>1
<1>3. Cardinality(1..m) = m
  BY FS_Interval
<1> QED
  BY <1>2, <1>3

(* Of the own listings those for sale come first, so that the page which     *)
(* shows all of them shows as many for sale as the page which shows no       *)
(* others.                                                                   *)
LEMMA OwnListingsAgree ==
  ASSUME IsFiniteSet(Table), Identified(Table)
  PROVE  HomePage.own = Cardinality({row \in ListingsPage.current : row.status # "RENTED"})
<1> DEFINE all == {row \in Visible : row.isHost /\ PublicScope(row)}
           unsold == {row \in Visible : row.isHost /\ PublicScope(row) /\ row.status \notin Done}
           s == InLine(all, ShownBefore)
           t == InLine(unsold, ShownBefore)
           n == Cardinality(all)
           m == Cardinality(unsold)
           P == {i \in 1..n : s[i].status \notin Done}
           list == PageOf(s, 1, 60)
           shown == {row \in ListingsPage.current : row.status # "RENTED"}
<1>1. /\ IsFiniteSet(all) /\ Identified(all) /\ IsFiniteSet(unsold) /\ Identified(unsold)
      /\ unsold = {row \in all : row.status \notin Done}
  <2>1. all \subseteq Table /\ unsold \subseteq Table
    BY DEF Visible
  <2>2. unsold = {row \in all : row.status \notin Done}
    OBVIOUS
  <2> HIDE DEF all, unsold
  <2> QED
    BY <2>1, <2>2, FS_Subset DEF Identified
<1>2. /\ HostListings(FALSE) = PageOf(t, 1, 60)
      /\ HostListings(TRUE) = list
  <2>1. {row \in Visible : row.isHost /\ PublicScope(row) /\ (row.status \in Done => FALSE)} = unsold
    OBVIOUS
  <2>2. {row \in Visible : row.isHost /\ PublicScope(row) /\ (row.status \in Done => TRUE)} = all
    OBVIOUS
  <2> HIDE DEF all, unsold
  <2> QED
    BY <2>1, <2>2 DEF HostListings
<1>3. HomePage.own = Len(HostListings(FALSE))
  BY DEF HomePage
<1>4. shown = {row \in ToSet(list) : row.status \notin Done}
  BY <1>2 DEF ListingsPage, Done
<1> HIDE DEF all, unsold
<1>5. /\ n \in Nat /\ s \in [1..n -> all] /\ s \in Seq(all) /\ Len(s) = n
      /\ \A i, j \in 1..n : s[i] = s[j] => i = j
      /\ \A row \in all : \E i \in 1..n : s[i] = row
      /\ \A i, j \in 1..n : i < j => ShownBefore(s[i], s[j])
  BY <1>1, HostListingsInLine
<1>6. m \in Nat /\ t \in Seq(unsold) /\ Len(t) = m
  BY <1>1, HostListingsInLine
<1> HIDE DEF s, t, n, m, list, shown
<1>7. P = 1..Cardinality(P) /\ Cardinality(P) \in Nat /\ Cardinality(P) <= n
  <2>1. P \subseteq 1..n
    OBVIOUS
  <2>2. \A i, j \in 1..n : i < j /\ j \in P => i \in P
    BY <1>5 DEF ShownBefore
  <2> HIDE DEF P
  <2> QED
    BY <1>5, <2>1, <2>2, FrontIs
<1>8. Cardinality(P) = m
  <2> DEFINE f == [i \in P |-> s[i]]
  <2>1. f \in [P -> unsold]
    BY <1>1, <1>5
  <2>2. \A row \in unsold : \E i \in P : f[i] = row
    BY <1>1, <1>5
  <2>3. \A i, j \in P : f[i] = f[j] => i = j
    BY <1>5
  <2>4. IsFiniteSet(P)
    <3> HIDE DEF P
    <3> QED
      BY <1>7, FS_Interval
  <2> HIDE DEF f, P
  <2>5. f \in Bijection(P, unsold)
    BY <2>1, <2>2, <2>3 DEF Bijection, Injection, Surjection, IsInjective
  <2>6. ExistsBijection(P, unsold)
    BY <2>5 DEF ExistsBijection
  <2> QED
    BY <2>4, <2>6, FS_Bijection DEF m
<1> DEFINE k == Min({60, n})
           l == Min({60, m})
<1>9. /\ k \in Nat /\ k <= 60 /\ k <= n /\ (k = 60 \/ k = n)
      /\ Len(list) = k /\ list \in Seq(all) /\ \A i \in 1..k : list[i] = s[i]
  <2>1. First(all, s, 60, Min({60, Len(s)}))
    BY <1>5, FirstPage
  <2>2. First(all, s, 60, k)
    BY <1>5, <2>1
  <2> HIDE DEF k
  <2> QED
    BY <1>5, <2>2 DEF First, list
<1>10. /\ l \in Nat /\ l <= 60 /\ l <= m /\ (l = 60 \/ l = m)
       /\ Len(PageOf(t, 1, 60)) = l
  <2>1. First(unsold, t, 60, Min({60, Len(t)}))
    BY <1>6, FirstPage
  <2>2. First(unsold, t, 60, l)
    BY <1>6, <2>1
  <2> HIDE DEF l
  <2> QED
    BY <1>6, <2>2 DEF First
<1> HIDE DEF k, l, P
<1>11. l <= k /\ \A i \in 1..k : i \in P <=> i <= l
  BY <1>5, <1>6, <1>7, <1>8, <1>9, <1>10
<1>12. \A i \in P : i \in 1..n /\ s[i].status \notin Done
  BY DEF P
<1>13. shown = {s[i] : i \in 1..l}
  <2>1. ToSet(list) = {s[i] : i \in 1..k}
    BY <1>9 DEF ToSet
  <2>2. \A i \in 1..k : s[i].status \notin Done <=> i <= l
    BY <1>5, <1>9, <1>11 DEF P
  <2>3. 1..l \subseteq 1..k /\ \A i \in 1..k : i <= l => i \in 1..l
    BY <1>9, <1>10, <1>11
  <2>4. \A i \in 1..l : i <= l
    BY <1>10
  <2> QED
    BY <1>4, <2>1, <2>2, <2>3, <2>4
<1>14. Cardinality(shown) = l
  <2> DEFINE g == [i \in 1..l |-> s[i]]
  <2>1. 1..l \subseteq 1..n
    BY <1>5, <1>9, <1>10, <1>11
  <2>2. g \in [1..l -> shown] /\ \A row \in shown : \E i \in 1..l : g[i] = row
    BY <1>13
  <2>3. \A i, j \in 1..l : g[i] = g[j] => i = j
    BY <1>5, <2>1
  <2>4. IsFiniteSet(1..l) /\ Cardinality(1..l) = l
    BY <1>10, FS_Interval
  <2> HIDE DEF g
  <2>5. g \in Bijection(1..l, shown)
    BY <2>2, <2>3 DEF Bijection, Injection, Surjection, IsInjective
  <2>6. ExistsBijection(1..l, shown)
    BY <2>5 DEF ExistsBijection
  <2> QED
    BY <2>4, <2>6, FS_Bijection
<1> QED
  BY <1>2, <1>3, <1>10, <1>14 DEF shown

(* What the home page shows as new is on the site, and so behind its link.   *)
LEMMA NewestAreBehindTheLink ==
  ASSUME IsFiniteSet(Table), Identified(Table)
  PROVE  ToSet(HomePage.newest.listings) \subseteq Behind(HomePage.all)
<1> DEFINE q == Parse(NoParams)
           newest == [q EXCEPT !.status = {"active", "coming-soon"}]
           request == Request(newest, Cards)
           hits == {row \in Table : CanView(row) /\ PublicScope(row) /\ Filters(row, newest)}
           answers == Search(Table, request)
<1>1. HomePage.newest = (CHOOSE answer \in answers : TRUE)
  BY DEF HomePage
<1>2. IsLink(NoParams)
  <2>1. /\ NoParams = [k \in DOMAIN NoParams |-> NoParams[k]]
        /\ NoParams.area = {} /\ NoParams.sort = None
        /\ \A k \in NumberKeys \cup {"page"} : NoParams[k] = None
    BY DEF NoParams, NumberKeys, ListKeys, QueryKeys, Valid
  <2> QED
    BY <2>1 DEF IsLink, IsAddress
<1>3. Cards \in Nat /\ Cards \in 1..MaxPageSize
  BY ShopfrontAssumption, SearchAssumption
<1>4. q.sort = "newest" /\ q.page = 1 /\ Accepts(Request(q, Cards))
  BY <1>2, <1>3, BehindLinks
<1>5. newest.sort = "newest" /\ newest.page = 1 /\ Accepts(request)
  <2>1. \A k \in QueryKeys \ {"status"} : newest[k] = q[k]
    BY DEF Parse
  <2>2. {"minPrice", "maxPrice", "minSqft", "maxSqft", "beds", "baths", "minYear", "page", "sort"}
            \subseteq QueryKeys \ {"status"}
    BY DEF QueryKeys, NumberKeys
  <2> HIDE DEF q, newest
  <2> QED
    BY <1>4, <2>1, <2>2 DEF Accepts, Request
<1>6. request.query = newest /\ request.pageSize = Cards
  BY DEF Request
<1>7. Min({Cards, MaxPageSize}) = Cards
  BY <1>3, MinOfTwo, SearchAssumption
<1> HIDE DEF q, newest, request
<1>8. answers = {[ok |-> TRUE, listings |-> PageOf(s, 1, Cards),
                  total |-> IF PageOf(s, 1, Cards) = << >> THEN 0 ELSE Cardinality(hits),
                  page |-> 1, pageSize |-> Cards] : s \in Orderings(hits, "newest")}
  BY <1>5, <1>6, <1>7, Zenon DEF Search
<1>9. IsFiniteSet(hits) /\ Identified(hits)
  <2>1. hits \subseteq Table
    OBVIOUS
  <2> HIDE DEF hits
  <2> QED
    BY <2>1, FS_Subset DEF Identified
<1>10. hits \subseteq OnSite
  BY DEF OnSite
<1> HIDE DEF hits, answers
<1>11. Orderings(hits, "newest") # {}
  BY <1>9, NewestFirst
<1>12. answers # {}
  BY <1>8, <1>11
<1>13. HomePage.newest \in answers
  BY <1>1, <1>12
<1>14. PICK s \in Orderings(hits, "newest") : HomePage.newest.listings = PageOf(s, 1, Cards)
  BY <1>8, <1>13
<1>15. s \in Seq(hits)
  BY <1>9, OrderingIs
<1>16. PageOf(s, 1, Cards) \in Seq(hits)
  BY <1>3, <1>15, FirstPage DEF First
<1>17. Behind(HomePage.all) = OnSite
  <2> DEFINE all == [NoParams EXCEPT !.sort = "newest"]
  <2>1. HomePage.all = all
    BY DEF HomePage
  <2>2. IsLink(all) /\ all.city = {} /\ all.area = {}
    BY LinksAre
  <2> HIDE DEF all
  <2>3. \A row : Filters(row, Parse(all)) <=> OneOf(row.city, {}) /\ InOneOf(row, {})
    BY <2>2, BehindLinks
  <2>4. \A row : Filters(row, Parse(all))
    BY <2>3 DEF OneOf, InOneOf
  <2> QED
    BY <2>1, <2>4 DEF Behind
<1>18. ToSet(PageOf(s, 1, Cards)) \subseteq hits
  <2> DEFINE list == PageOf(s, 1, Cards)
  <2>1. list \in Seq(hits)
    BY <1>16
  <2> HIDE DEF list
  <2>2. ToSet(list) \subseteq hits
    BY <2>1 DEF ToSet
  <2> QED
    BY <2>2 DEF list
<1> QED
  BY <1>10, <1>14, <1>17, <1>18

(* Both together are what the home page promises.                            *)
LEMMA HomePagesAgree ==
  ASSUME IsFiniteSet(Table), Identified(Table)
  PROVE  HomePageAgrees
<1>1. ToSet(HomePage.newest.listings) \subseteq Behind(HomePage.all)
  BY NewestAreBehindTheLink
<1>2. HomePage.own = Cardinality({row \in ListingsPage.current : row.status # "RENTED"})
  BY OwnListingsAgree
<1> QED
  BY <1>1, <1>2 DEF HomePageAgrees

(* What a patch leaves of a row of the catalog.                              *)
LEMMA WrittenStaysListed ==
  ASSUME NEW row, IsRow(row), IsListed(row), IsPlaced(row),
         NEW form, {"price", "maintenance"} \subseteq DOMAIN form,
         form.price \in Nat, form.maintenance \in Nat \cup {None}
  PROVE  /\ Written(row, PatchOf(form)).id = row.id
         /\ IsListed(Written(row, PatchOf(form))) /\ IsPlaced(Written(row, PatchOf(form)))
<1> DEFINE patch == PatchOf(form)
           new == Written(row, patch)
<1>1. patch.price = form.price /\ patch.maintenance = form.maintenance
  BY DEF PatchOf
<1>2. /\ new.price = patch.price
      /\ new.maintenance = Coalesced(patch.maintenance, row.maintenance)
      /\ new.closed \in {None, Today, row.closed}
  BY WrittenIs
<1>3. \A k \in KeptColumns : new[k] = row[k]
  <2>1. KeptColumns \cap FormColumns = {}
    BY DEF KeptColumns, FormColumns
  <2>2. \A k \in DOMAIN row \ FormColumns : new[k] = row[k]
    BY WrittenIs
  <2> HIDE DEF new
  <2> QED
    BY <2>1, <2>2 DEF IsRow
<1> HIDE DEF new, patch
<1>4. /\ new.id = row.id /\ new.city = row.city /\ new.locality = row.locality
      /\ new.published = row.published /\ new.bedrooms = row.bedrooms
      /\ new.bathrooms = row.bathrooms /\ new.carpet = row.carpet /\ new.builtUp = row.builtUp
      /\ new.plot = row.plot /\ new.yearBuilt = row.yearBuilt
  BY <1>3 DEF KeptColumns
<1>5. new.price \in Nat /\ new.maintenance \in Nat \cup {None} /\ new.closed \in Nat \cup {None}
  BY <1>1, <1>2, SearchAssumption DEF Coalesced, IsListed, IsPlaced
<1>6. IsListed(new)
  BY <1>4, <1>5 DEF IsListed
<1>7. IsPlaced(new)
  BY <1>4, <1>5 DEF IsPlaced
<1> QED
  BY <1>4, <1>6, <1>7 DEF new, patch

(* The catalog is finite, its rows are what their columns are declared to    *)
(* hold, and so is what a form is about to write.                            *)
RowsArePlaced ==
    /\ IsFiniteSet(DOMAIN listing)
    /\ \A id \in DOMAIN listing :
            listing[id].id = id /\ IsListed(listing[id]) /\ IsPlaced(listing[id])

FormIsFilled(e) ==
    e.pc \in {"editing", "saving"} =>
        /\ {"price", "maintenance"} \subseteq DOMAIN e.form
        /\ e.form.price \in Nat /\ e.form.maintenance \in Nat \cup {None}

CatalogInv == RowsArePlaced /\ \A s \in Editors : FormIsFilled(editor[s])

(* At first the catalog is that of the scene.                                *)
LEMMA CatalogInit == Init => CatalogInv
<1> SUFFICES ASSUME Init PROVE CatalogInv
  OBVIOUS
<1>1. RowsArePlaced
  BY SceneAssumption DEF Init, RowsArePlaced
<1>2. editor = [s \in Editors |-> Away]
  BY DEF Init, InitDesk
<1> QED
  BY <1>1, <1>2 DEF CatalogInv, FormIsFilled, Away

(* Nothing else is relied upon.                                              *)
LEMMA CatalogStutter ==
  ASSUME CatalogInv, UNCHANGED <<listing, editor>>
  PROVE  CatalogInv'
  BY DEF CatalogInv, RowsArePlaced, FormIsFilled

(* An editor moves and the catalog stays.                                    *)
LEMMA MoveKeepsTheCatalog ==
  ASSUME FormInv, CatalogInv, NEW s \in Editors, NEW e, editor' = [editor EXCEPT ![s] = e],
         UNCHANGED listing, FormIsFilled(e)
  PROVE  CatalogInv'
<1>1. ASSUME NEW x \in Editors PROVE FormIsFilled(editor'[x])
  <2>1. editor'[x] = IF x = s THEN e ELSE editor[x]
    BY DEF FormInv
  <2> QED
    BY <2>1 DEF CatalogInv
<1>2. RowsArePlaced'
  BY DEF CatalogInv, RowsArePlaced
<1> QED
  BY <1>1, <1>2 DEF CatalogInv, FormIsFilled

(* A patch writes numbers where numbers were.                                *)
LEMMA PatchKeepsTheCatalog ==
  ASSUME FormInv, CatalogInv, NEW s \in Editors, NEW answered \in BOOLEAN, Patch(s, answered)
  PROVE  CatalogInv'
<1> DEFINE e == editor[s]
           old == listing[e.id]
           new == Written(old, PatchOf(e.form))
<1>1. e.pc = "saving" /\ FormInOrder(e) /\ FormIsFilled(e) /\ e.id \in DOMAIN listing
  BY DEF FormInv, CatalogInv, FormInOrder, Patch, At
<1>2. IsRow(old) /\ old.id = e.id /\ IsListed(old) /\ IsPlaced(old)
  BY <1>1 DEF FormInv, RowsAreRows, CatalogInv, RowsArePlaced
<1>3. new.id = e.id /\ IsListed(new) /\ IsPlaced(new)
  <2>1. /\ {"price", "maintenance"} \subseteq DOMAIN e.form
        /\ e.form.price \in Nat /\ e.form.maintenance \in Nat \cup {None}
    BY <1>1 DEF FormIsFilled
  <2> HIDE DEF e, old
  <2> QED
    BY <1>2, <2>1, WrittenStaysListed
<1>4. /\ DOMAIN listing' = DOMAIN listing /\ listing'[e.id] = new
      /\ \A id \in DOMAIN listing \ {e.id} : listing'[id] = listing[id]
  BY <1>1 DEF Patch
<1>5. RowsArePlaced'
  <2>1. ASSUME NEW id \in DOMAIN listing
        PROVE  listing'[id].id = id /\ IsListed(listing'[id]) /\ IsPlaced(listing'[id])
    <3>1. CASE id = e.id
      <4> HIDE DEF new, e
      <4> QED
        BY <1>3, <1>4, <3>1
    <3>2. CASE id # e.id
      BY <1>4, <3>2 DEF CatalogInv, RowsArePlaced
    <3> QED
      BY <3>1, <3>2
  <2>2. IsFiniteSet(DOMAIN listing')
    BY <1>4 DEF CatalogInv, RowsArePlaced
  <2>3. DOMAIN listing' = DOMAIN listing
    BY <1>4
  <2>4. \A id \in DOMAIN listing' :
            listing'[id].id = id /\ IsListed(listing'[id]) /\ IsPlaced(listing'[id])
    BY <2>1, <2>3
  <2> QED
    BY <2>2, <2>4 DEF RowsArePlaced, IsListed, IsPlaced
<1>6. ASSUME NEW x \in Editors PROVE FormIsFilled(editor'[x])
  <2>1. editor'[x] = CASE x = s -> IF answered THEN [e EXCEPT !.pc = "hinting"] ELSE Away
                       [] x # s /\ editor[x].id = e.id -> [editor[x] EXCEPT !.alone = FALSE]
                       [] OTHER -> editor[x]
    BY DEF Patch
  <2>2. CASE x = s
    <3>1. e = [k \in DOMAIN e |-> e[k]] /\ DOMAIN e = DOMAIN Away
      BY <1>1 DEF FormInOrder
    <3>2. editor'[x] = [e EXCEPT !.pc = "hinting"] \/ editor'[x] = Away
      BY <2>1, <2>2
    <3>3. editor'[x].pc \in {"hinting", "away"}
      BY <3>1, <3>2 DEF Away
    <3> QED
      BY <3>3 DEF FormIsFilled
  <2>3. CASE x # s
    <3>1. FormInOrder(editor[x]) /\ FormIsFilled(editor[x])
      BY DEF FormInv, CatalogInv
    <3>2. editor'[x] = [editor[x] EXCEPT !.alone = FALSE] \/ editor'[x] = editor[x]
      BY <2>1, <2>3
    <3>3. editor'[x].pc = editor[x].pc /\ editor'[x].form = editor[x].form
      BY <3>1, <3>2 DEF FormInOrder, Away
    <3> QED
      BY <3>1, <3>3 DEF FormIsFilled
  <2> QED
    BY <2>2, <2>3
<1> QED
  BY <1>5, <1>6 DEF CatalogInv, FormIsFilled

(* Every other step of an editor moves it alone, and what is filled into a   *)
(* form is what its fields take.                                             *)
LEMMA EditKeepsTheCatalog ==
  ASSUME scene \in Scenes, FormInv, CatalogInv, NEW s \in Editors
  PROVE  /\ (\E id \in DOMAIN listing : Open(s, id)) => CatalogInv'
         /\ (\E edit \in scene.edits : Fill(s, edit)) => CatalogInv'
         /\ Save(s) \/ Refused(s) \/ GiveUp(s) \/ Leave(s) \/ Hinted(s) => CatalogInv'
<1>1. /\ editor[s] = [k \in DOMAIN editor[s] |-> editor[s][k]] /\ DOMAIN editor[s] = DOMAIN Away
      /\ FormIsFilled(editor[s])
  BY DEF FormInv, FormInOrder, CatalogInv
<1>2. ASSUME NEW id \in DOMAIN listing, Open(s, id) PROVE CatalogInv'
  <2> DEFINE form == FormOf(listing[id])
             e == [Away EXCEPT !.pc = "editing", !.id = id, !.form = form, !.base = listing[id]]
  <2>1. e.form = form
    BY DEF Away
  <2>2. {"price", "maintenance"} \subseteq DOMAIN form
    BY DEF FormOf
  <2>3. form.price = listing[id].price /\ form.maintenance = listing[id].maintenance
    BY DEF FormOf
  <2>4. listing[id].price \in Nat /\ listing[id].maintenance \in Nat \cup {None}
    BY <1>2 DEF CatalogInv, RowsArePlaced, IsListed
  <2>5. FormIsFilled(e)
    <3> HIDE DEF form, e
    <3> QED
      BY <2>1, <2>2, <2>3, <2>4 DEF FormIsFilled
  <2>6. editor' = [editor EXCEPT ![s] = e] /\ UNCHANGED listing
    BY <1>2 DEF Open
  <2> HIDE DEF e
  <2> QED
    BY <2>5, <2>6, MoveKeepsTheCatalog
<1>3. ASSUME NEW edit \in scene.edits, Fill(s, edit) PROVE CatalogInv'
  <2> DEFINE old == editor[s].form
             form == [k \in DOMAIN old |-> IF k \in DOMAIN edit THEN edit[k] ELSE old[k]]
             e == [editor[s] EXCEPT !.form = form, !.touched = TRUE]
  <2>1. /\ {"price", "maintenance"} \subseteq DOMAIN old
        /\ old.price \in Nat /\ old.maintenance \in Nat \cup {None}
    BY <1>1, <1>3 DEF FormIsFilled, Fill, At
  <2>2. /\ "price" \in DOMAIN edit => edit.price \in Nat
        /\ "maintenance" \in DOMAIN edit => edit.maintenance \in Nat \cup {None}
    BY <1>3, SceneAssumption
  <2>3. editor' = [editor EXCEPT ![s] = e] /\ UNCHANGED listing
    BY <1>3, Zenon DEF Fill, FormInv
  <2> HIDE DEF old
  <2>4. /\ {"price", "maintenance"} \subseteq DOMAIN form
        /\ form.price \in Nat /\ form.maintenance \in Nat \cup {None}
    BY <2>1, <2>2
  <2> HIDE DEF form
  <2>5. e.form = form
    BY <1>1 DEF Away
  <2>6. FormIsFilled(e)
    BY <2>4, <2>5 DEF FormIsFilled
  <2> HIDE DEF e
  <2> QED
    BY <2>3, <2>6, MoveKeepsTheCatalog
<1>4. ASSUME NEW pc \in {"saving", "saved"}, pc = "saving" => editor[s].pc = "editing",
             editor' = [editor EXCEPT ![s].pc = pc], UNCHANGED listing
      PROVE  CatalogInv'
  <2> DEFINE e == [editor[s] EXCEPT !.pc = pc]
  <2>1. editor' = [editor EXCEPT ![s] = e]
    BY <1>4
  <2>2. e.pc = pc /\ e.form = editor[s].form
    BY <1>1 DEF Away
  <2>3. FormIsFilled(e)
    BY <1>1, <1>4, <2>2 DEF FormIsFilled
  <2> QED
    BY <1>4, <2>1, <2>3, MoveKeepsTheCatalog
<1>5. CASE Save(s)
  BY <1>4, <1>5 DEF Save, At
<1>6. CASE GiveUp(s) \/ Hinted(s)
  BY <1>4, <1>6 DEF GiveUp, Hinted
<1>7. FormIsFilled(Away)
  BY DEF FormIsFilled, Away
<1>8. CASE Refused(s) \/ Leave(s)
  BY <1>7, <1>8, MoveKeepsTheCatalog DEF Refused, Leave
<1> QED
  BY <1>2, <1>3, <1>5, <1>6, <1>8

(* Every step keeps the catalog in order.                                    *)
LEMMA CatalogStep == scene \in Scenes /\ FormInv /\ CatalogInv /\ [Next]_vars => CatalogInv'
<1> SUFFICES ASSUME scene \in Scenes, FormInv, CatalogInv, [Next]_vars PROVE CatalogInv'
  OBVIOUS
<1>1. CASE UNCHANGED vars \/ UNCHANGED deskVars
  BY <1>1, CatalogStutter DEF vars, deskVars
<1>2. CASE Edit
  <2>1. PICK s \in Editors :
            \/ \E id \in DOMAIN listing : Open(s, id)
            \/ \E edit \in scene.edits : Fill(s, edit)
            \/ Save(s) \/ Refused(s) \/ GiveUp(s) \/ Leave(s)
            \/ \E answered \in BOOLEAN : Patch(s, answered)
    BY <1>2, SceneAssumption DEF Edit
  <2>2. CASE \E answered \in BOOLEAN : Patch(s, answered)
    BY <2>2, PatchKeepsTheCatalog
  <2>3. CASE ~\E answered \in BOOLEAN : Patch(s, answered)
    BY <2>1, <2>3, EditKeepsTheCatalog
  <2> QED
    BY <2>2, <2>3
<1>3. CASE Tell
  <2>1. CASE \E s \in scene.editors : Hinted(s)
    BY <2>1, SceneAssumption, EditKeepsTheCatalog
  <2>2. CASE HintArrives
    BY <2>2, CatalogStutter DEF HintArrives
  <2> QED
    BY <1>3, <2>1, <2>2 DEF Tell
<1> QED
  BY <1>1, <1>2, <1>3 DEF Next

(* A catalog in order is a finite one, of rows told apart by their ids.      *)
LEMMA TableIs ==
  ASSUME RowsArePlaced
  PROVE  IsFiniteSet(Table) /\ Identified(Table)
<1>1. IsFiniteSet(Table)
  <2> DEFINE f == [i \in DOMAIN listing |-> listing[i]]
  <2>1. f \in Surjection(DOMAIN listing, Table)
    BY DEF Surjection, Table
  <2> QED
    BY <2>1, FS_Surjection DEF RowsArePlaced
<1>2. Identified(Table)
  BY DEF Identified, Table, RowsArePlaced
<1> QED
  BY <1>1, <1>2

(* The pages of the site never contradict one another, whatever the catalog  *)
(* and the edits: the list on the page of an area or a city is the beginning *)
(* of the search its link opens, the figures of an area are those the        *)
(* reference works out from that search, the areas of a city and the market  *)
(* report add up, and what the home page shows is behind its link.           *)
THEOREM PagesAlwaysAgree == Spec => []PagesAgree
<1>1. Init => scene \in Scenes /\ FormInv /\ CatalogInv
  BY FormInit, CatalogInit DEF Init
<1>2. scene \in Scenes /\ FormInv /\ CatalogInv /\ [Next]_vars
        => (scene \in Scenes /\ FormInv /\ CatalogInv)'
  BY FormStep, CatalogStep DEF Next, vars
<1>3. CatalogInv => PagesAgree
  <2> SUFFICES ASSUME CatalogInv PROVE PagesAgree
    OBVIOUS
  <2>1. IsFiniteSet(Table) /\ Identified(Table)
    BY TableIs DEF CatalogInv
  <2>2. \A ref \in Guides : AreaPageAgrees(ref)
    BY <2>1, AreaPagesAgree, ShopfrontAssumption
  <2>3. \A city \in {ref[1] : ref \in Areas} : CityPageAgrees(city)
    BY <2>1, CityPagesAgree
  <2> QED
    BY <2>1, <2>2, <2>3, ReportsAgree, HomePagesAgree DEF PagesAgree
<1> QED
  BY <1>1, <1>2, <1>3, PTL DEF Spec

=============================================================================
