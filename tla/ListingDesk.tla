------------------------------ MODULE ListingDesk ------------------------------
(* Staff who edit a listing in the admin application: the form is filled     *)
(* from the row, the whole form goes back as a patch, and once it is stored  *)
(* the public site is told to drop its cache.  Which patches the API refuses *)
(* is ListingPublication.                                                    *)
EXTENDS SearchRules

CONSTANTS
    Editors,     \* staff at the edit page
    MaxSaves     \* bound on saved changes

VARIABLES
    version,     \* history: how many patches have been committed
    editor,      \* the edit page of each member of staff
    astray       \* how many calls of revalidateSite given up on may yet arrive

deskVars == <<listing, version, editor, astray>>

Away == [pc |-> "away", id |-> None, form |-> None, base |-> None, touched |-> FALSE,
         alone |-> TRUE]

InitDesk ==
    /\ version = 0
    /\ editor = [s \in Editors |-> Away]
    /\ astray = 0

(* A row is a record with, among others, the columns the form writes, and    *)
(* those it has no field for.                                                *)
FormColumns == {"status", "closed", "visibility", "possession", "price", "onRequest",
                "maintenance", "furnishing", "features"}
KeptColumns == {"id", "city", "locality", "published", "bedrooms", "bathrooms", "carpet",
                "builtUp", "plot", "yearBuilt"}
IsRow(row) ==
    /\ row = [k \in DOMAIN row |-> row[k]] /\ FormColumns \cup KeptColumns \subseteq DOMAIN row
    /\ row.onRequest \in BOOLEAN

-----------------------------------------------------------------------------
(* The options of the status select; any other status of the row falls to    *)
(* the first.                                                                *)
Options == {"coming-soon", "active", "under-offer", "sold"}

(* Mutant: the select knows the statuses of the public site only.            *)
StatusShownLive(row) ==
    IF \E o \in Options \ {"sold"} : StatusToDb[o] = row.status
    THEN CHOOSE o \in Options : StatusToDb[o] = row.status
    ELSE "coming-soon"

StatusShown(row) ==
    IF \E o \in Options : StatusToDb[o] = row.status
    THEN CHOOSE o \in Options : StatusToDb[o] = row.status
    ELSE "coming-soon"

(* ListingForm: toStaffListing of the row, as defaults of the fields.  There *)
(* is no field for a price on request.                                       *)
FormOf(row) ==
    [status |-> StatusShown(row), visibility |-> row.visibility, possession |-> row.possession,
     price |-> row.price, maintenance |-> row.maintenance, furnishing |-> row.furnishing,
     features |-> row.features]

(* buildPayload and updateListing: an emptied field is undefined, an absent  *)
(* checkbox is false.                                                        *)
PatchOf(form) ==
    [k \in DOMAIN form \cup {"onRequest"} |-> IF k = "onRequest" THEN FALSE ELSE form[k]]

(* ListingWriteRepository.update: what is undefined is left alone.           *)
Coalesced(new, old) == IF new = None THEN old ELSE new

Written(row, patch) ==
    [row EXCEPT !.status = StatusToDb[patch.status],
                !.closed = IF StatusToDb[patch.status] \notin {"SOLD", "RENTED"} THEN None
                           ELSE IF @ = None THEN Today ELSE @,
                !.visibility = patch.visibility,
                !.possession = patch.possession,
                !.price = patch.price,
                !.onRequest = patch.onRequest,
                !.maintenance = Coalesced(patch.maintenance, @),
                !.furnishing = Coalesced(patch.furnishing, @),
                !.features = patch.features]

-----------------------------------------------------------------------------

At(s, pc) == editor[s].pc = pc

(* EditListingPage.                                                          *)
Open(s, id) ==
    /\ At(s, "away")
    /\ editor' = [editor EXCEPT ![s] = [Away EXCEPT !.pc = "editing", !.id = id,
            !.form = FormOf(listing[id]), !.base = listing[id]]]
    /\ UNCHANGED <<listing, version, astray>>

(* A field is filled in.                                                     *)
Fill(s, edit) ==
    /\ At(s, "editing") /\ ~editor[s].touched
    /\ editor' = [editor EXCEPT
            ![s].form = [k \in DOMAIN @ |-> IF k \in DOMAIN edit THEN edit[k] ELSE @[k]],
            ![s].touched = TRUE]
    /\ UNCHANGED <<listing, version, astray>>

Save(s) ==
    /\ At(s, "editing")
    /\ editor' = [editor EXCEPT ![s].pc = "saving"]
    /\ UNCHANGED <<listing, version, astray>>

(* The PATCH commits; once its answer is there the action goes on to         *)
(* revalidateSite.                                                           *)
Patch(s, answered) ==
    LET e == editor[s] IN
    /\ At(s, "saving") /\ version < MaxSaves
    /\ listing' = [listing EXCEPT ![e.id] = Written(@, PatchOf(e.form))]
    /\ version' = version + 1
    /\ editor' = [x \in Editors |->
            CASE x = s -> IF answered THEN [e EXCEPT !.pc = "hinting"] ELSE Away
              [] x # s /\ editor[x].id = e.id -> [editor[x] EXCEPT !.alone = FALSE]
              [] OTHER -> editor[x]]
    /\ UNCHANGED astray

(* The API refuses the patch, or is not reached.                             *)
Refused(s) ==
    /\ At(s, "saving")
    /\ editor' = [editor EXCEPT ![s] = Away]
    /\ UNCHANGED <<listing, version, astray>>

(* revalidateSite: the site dropped its cache, or three seconds went by      *)
(* without an answer and the call is lost or still on its way.               *)
Hinted(s) ==
    /\ At(s, "hinting")
    /\ editor' = [editor EXCEPT ![s].pc = "saved"]
    /\ UNCHANGED <<listing, version, astray>>

GiveUp(s) ==
    /\ At(s, "hinting")
    /\ editor' = [editor EXCEPT ![s].pc = "saved"]
    /\ astray' \in {astray, astray + 1}
    /\ UNCHANGED <<listing, version>>

HintArrives ==
    /\ astray > 0
    /\ astray' = astray - 1
    /\ UNCHANGED <<listing, version, editor>>

(* The form says "Saved", and the page is left.                              *)
Leave(s) ==
    /\ editor[s].pc \in {"editing", "saved"}
    /\ editor' = [editor EXCEPT ![s] = Away]
    /\ UNCHANGED <<listing, version, astray>>

-----------------------------------------------------------------------------
(* Properties.                                                               *)

(* What the form can say of a row.  One entered as sold has no closing date  *)
(* before its first save.                                                    *)
Expressible(row) ==
    /\ row.status \in {StatusToDb[o] : o \in Options} /\ ~row.onRequest
    /\ row.status = "SOLD" <=> row.closed # None

(* Saving a form in which nothing was changed changes nothing, for every row *)
(* the form can express, unless a colleague saved the same listing meanwhile.*)
UntouchedFormChangesNothing ==
    \A s \in Editors : LET e == editor[s] IN
        e.pc \in {"hinting", "saved"} /\ ~e.touched /\ e.alone /\ Expressible(e.base) =>
            listing[e.id] = e.base

=============================================================================
