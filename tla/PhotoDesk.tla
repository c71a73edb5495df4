------------------------------- MODULE PhotoDesk -------------------------------
(* The photos at the bottom of the edit page: PhotoManager keeps an          *)
(* optimistic copy of the order, several calls can be under way at once, and *)
(* the copy is replaced when the server is seen to hand down another list.   *)
(* What becomes of the files is MediaPipeline.                               *)
EXTENDS ListingDesk

CONSTANTS
    Photos,      \* ids of listing_media, numbers; no order of theirs means anything
    Slots        \* bound: calls one page has under way at the same time

ASSUME PhotoAssumption == Photos \subseteq Nat /\ IsFiniteSet(Photos) /\ None \notin Nat

VARIABLES
    sort_order,  \* of the photos of the listing, None when there is no row
    unused,      \* ids no row has had yet
    grid,        \* the PhotoManager of each member of staff
    call,        \* its calls
    clicks       \* bound: how many more calls will be made

photoVars == <<sort_order, unused, grid, call, clicks>>

Rows == {p \in Photos : sort_order[p] # None}

(* ORDER BY sort_order, id.                                                  *)
Before(p, q) == sort_order[p] < sort_order[q] \/ (sort_order[p] = sort_order[q] /\ p < q)
Place(p) == Cardinality({q \in Rows : Before(q, p)}) + 1
Display == [i \in 1..Cardinality(Rows) |-> CHOOSE p \in Rows : Place(p) = i]

(* initialPhotos, as far as serverSignature tells two of them apart.         *)
Listed == [i \in DOMAIN Display |-> <<Display[i], sort_order[Display[i]]>>]

Closed == [open |-> FALSE, shown |-> << >>, server |-> << >>, stale |-> FALSE,
           arriving |-> << >>, inStep |-> TRUE]
NoCall == [pc |-> "none"]

InitPhotos(rows, calls) ==
    /\ clicks = calls
    /\ sort_order = [p \in Photos |-> IF p \in DOMAIN rows THEN rows[p] ELSE None]
    /\ unused = Photos \ DOMAIN rows
    /\ grid = [s \in Editors |-> Closed]
    /\ call = [s \in Editors |-> [k \in Slots |-> NoCall]]

OpenGrid(s) ==
    /\ ~grid[s].open
    /\ grid' = [grid EXCEPT ![s] = [Closed EXCEPT !.open = TRUE, !.shown = Display, !.server = Listed]]
    /\ UNCHANGED <<sort_order, unused, call, clicks>>

-----------------------------------------------------------------------------
(* A page is in step as long as nobody else changes the photos, none of its  *)
(* own calls goes wrong, and a new order is not sent while something else is *)
(* under way.                                                                *)

Quiet(s) == (\A k \in Slots : call[s][k] = NoCall) /\ ~grid[s].stale /\ grid[s].arriving = << >>
Ordering(s) == \E k \in Slots : call[s][k].pc = "ordering"

Send(s, k, c, shown) ==
    /\ grid[s].open /\ call[s][k] = NoCall
    /\ clicks > 0 /\ clicks' = clicks - 1
    /\ call' = [call EXCEPT ![s][k] = c]
    /\ grid' = [grid EXCEPT ![s].shown = shown,
            ![s].inStep = @ /\ IF c.pc = "ordering" THEN Quiet(s) ELSE ~Ordering(s)]
    /\ UNCHANGED <<sort_order, unused>>

(* s has committed something: the others' pages do not learn of it.          *)
Unnoticed(s) == [x \in Editors |-> IF x = s THEN grid[x] ELSE [grid[x] EXCEPT !.inStep = FALSE]]

Return(s, k) == [call EXCEPT ![s][k] = NoCall]

(* router.refresh: those that are asked for while one is under way are one.  *)
Refreshing(g, inStep) == [g EXCEPT !.stale = TRUE, !.inStep = @ /\ inStep]

-----------------------------------------------------------------------------
(* upload.  MediaRepository.reserve is one statement, which takes the end of *)
(* the gallery from what is committed when it begins.                        *)

Upload(s, k) == unused # {} /\ Send(s, k, [pc |-> "uploading"], grid[s].shown)

End == IF Rows = {} THEN 0 ELSE Max({sort_order[p] : p \in Rows}) + 1

TakeEnd(s, k) ==
    /\ call[s][k].pc = "uploading"
    /\ call' = [call EXCEPT ![s][k] = [pc |-> "reserving", end |-> End]]
    /\ UNCHANGED <<sort_order, unused, grid, clicks>>

Reserve(s, k) ==
    /\ call[s][k].pc = "reserving"
    /\ \E p \in unused :
        /\ sort_order' = [sort_order EXCEPT ![p] = call[s][k].end]
        /\ unused' = unused \ {p}
    /\ call' = [call EXCEPT ![s][k] = [pc |-> "uploaded"]]
    /\ grid' = Unnoticed(s)
    /\ UNCHANGED clicks

(* Stored, failed or refused: the page is refreshed.                         *)
Uploaded(s, k) ==
    /\ call[s][k].pc \in {"uploading", "uploaded"}
    /\ call' = Return(s, k)
    /\ grid' = [grid EXCEPT ![s] = Refreshing(@, TRUE)]
    /\ UNCHANGED <<sort_order, unused, clicks>>

-----------------------------------------------------------------------------
(* reorder, for move and makeHero.                                           *)

Reorder(s, k, next) == Send(s, k, [pc |-> "ordering", ids |-> next], next)

Move(s, k, index, target) ==
    /\ {index, target} \subseteq DOMAIN grid[s].shown
    /\ target \in {index - 1, index + 1}
    /\ Reorder(s, k, [grid[s].shown EXCEPT ![index] = grid[s].shown[target],
                                           ![target] = grid[s].shown[index]])

MakeHero(s, k, index) ==
    /\ index \in DOMAIN grid[s].shown \ {1}
    /\ Reorder(s, k, <<grid[s].shown[index]>> \o RemoveAt(grid[s].shown, index))

(* One UPDATE over unnest WITH ORDINALITY.                                   *)
InOrderOf(ids) ==
    [p \in Photos |-> IF p \in Rows \cap ToSet(ids) THEN CHOOSE i \in DOMAIN ids : ids[i] = p
                      ELSE sort_order[p]]

Ordered(s, k) ==
    /\ call[s][k].pc = "ordering"
    /\ sort_order' = InOrderOf(call[s][k].ids)
    /\ grid' = Unnoticed(s)
    /\ call' = Return(s, k)
    /\ UNCHANGED <<unused, clicks>>

(* "Could not save the new order.", and a refresh; none if the server could  *)
(* not be reached, as the fetch then throws.                                 *)
OrderRefused(s, k) ==
    /\ call[s][k].pc = "ordering"
    /\ \E g \in {Refreshing(grid[s], FALSE), [grid[s] EXCEPT !.inStep = FALSE]} :
            grid' = [grid EXCEPT ![s] = g]
    /\ call' = Return(s, k)
    /\ UNCHANGED <<sort_order, unused, clicks>>

-----------------------------------------------------------------------------
(* remove.                                                                   *)

AskRemoval(s, k, p) ==
    /\ p \in ToSet(grid[s].shown)
    /\ Send(s, k, [pc |-> "removing", id |-> p], grid[s].shown)

Removed(s, k) ==
    /\ call[s][k].pc = "removing" /\ call[s][k].id \in Rows
    /\ sort_order' = [sort_order EXCEPT ![call[s][k].id] = None]
    /\ call' = [call EXCEPT ![s][k].pc = "removed"]
    /\ grid' = Unnoticed(s)
    /\ UNCHANGED <<unused, clicks>>

(* filter: no photo is shown twice.                                          *)
Without(shown, p) ==
    IF p \in ToSet(shown) THEN RemoveAt(shown, CHOOSE i \in DOMAIN shown : shown[i] = p)
    ELSE shown

RemovalShown(s, k) ==
    /\ call[s][k].pc = "removed"
    /\ grid' = [grid EXCEPT ![s] = [grid[s] EXCEPT
            !.shown = Without(grid[s].shown, call[s][k].id), !.stale = TRUE]]
    /\ call' = Return(s, k)
    /\ UNCHANGED <<sort_order, unused, clicks>>

(* Refused, or an answer that is lost on its way back.                       *)
RemovalFails(s, k) ==
    /\ call[s][k].pc \in {"removing", "removed"}
    /\ grid' = [grid EXCEPT ![s].inStep = @ /\ call[s][k].pc = "removing"]
    /\ call' = Return(s, k)
    /\ UNCHANGED <<sort_order, unused, clicks>>

-----------------------------------------------------------------------------
(* The page is rendered again, one refresh after the other, and the list is  *)
(* handed down.                                                              *)

RefreshRead(s) ==
    /\ grid[s].stale /\ grid[s].arriving = << >>
    /\ grid' = [grid EXCEPT ![s].arriving = <<Listed>>, ![s].stale = FALSE]
    /\ UNCHANGED <<sort_order, unused, call, clicks>>

(* Mutant: useState(initialPhotos), which reads the prop once.               *)
ResyncNever(g, list) == [g EXCEPT !.server = list]

Resync(g, list) ==
    IF list = g.server THEN g
    ELSE [g EXCEPT !.server = list, !.shown = [i \in DOMAIN list |-> list[i][1]]]

RefreshShown(s) ==
    /\ grid[s].arriving # << >>
    /\ grid' = [grid EXCEPT ![s] = [Resync(@, @.arriving[1]) EXCEPT !.arriving = << >>]]
    /\ UNCHANGED <<sort_order, unused, call, clicks>>

Arrange(s, slots) ==
    \/ OpenGrid(s) \/ RefreshRead(s) \/ RefreshShown(s)
    \/ \E k \in slots :
        \/ Upload(s, k) \/ TakeEnd(s, k) \/ Reserve(s, k) \/ Uploaded(s, k)
        \/ \E i, j \in 1..Cardinality(Photos) : Move(s, k, i, j)
        \/ \E i \in 1..Cardinality(Photos) : MakeHero(s, k, i)
        \/ Ordered(s, k) \/ OrderRefused(s, k)
        \/ \E p \in Photos : AskRemoval(s, k, p)
        \/ Removed(s, k) \/ RemovalShown(s, k) \/ RemovalFails(s, k)

-----------------------------------------------------------------------------
(* Properties.                                                               *)

(* Once everything sent has been answered, a page that is in step shows the  *)
(* photos there are, in the order that is stored.                            *)
GridShowsTheGallery ==
    \A s \in Editors : grid[s].open /\ grid[s].inStep /\ Quiet(s) => grid[s].shown = Display

=============================================================================
