---------------------------- MODULE StaffListings ----------------------------
(* The staff endpoints for listings, from the form to the site.              *)
(* ListingPublication has them with every gate and transaction and without   *)
(* the data, NewListing has the data of a creation.  The two share the       *)
(* requests, and nothing either of them decides by; a scene is of one or the *)
(* other.                                                                    *)
EXTENDS ListingPublication

CONSTANTS Forms, Payloads, Start, MaxListings       \* those of NewListing

VARIABLES table, property, listing, page, first, typed

Entry == INSTANCE NewListing WITH Agents <- Requests

(* What is typed and sent has the form's fields; None is none of the values. *)
ASSUME EntryAssumption ==
    /\ \A form \in Forms : Entry!IsForm(form)
    /\ \A payload \in Payloads : Entry!IsPayload(payload)
    /\ Entry!IsPlace(Start)
    /\ None \notin Nat \cup Entry!Units \cup Entry!Bases
    /\ None \notin Entry!Dtos /\ None \notin Entry!Figures

entryVars == <<table, property, listing, page, first, typed>>

(* Where requests are publishing, nobody is at a form.                       *)
StaffInit ==
    /\ Init
    /\ \/ scene.requests = {} /\ Entry!Init
       \/ /\ scene.requests # {}
          /\ table = None /\ page = None /\ property = << >> /\ listing = << >>
          /\ first = << >> /\ typed = << >>

Publishing == scene.requests # {} /\ Next /\ UNCHANGED entryVars

Entering == scene.requests = {} /\ Entry!Next /\ UNCHANGED vars

StaffSpec == StaffInit /\ [][Publishing \/ Entering]_<<vars, entryVars>>

-----------------------------------------------------------------------------

(* The site goes on showing a listing the way it was entered, whatever       *)
(* conversion table later releases are built with and whoever lists the plot *)
(* again (NewListing says what that is, over property.repository.ts:59-109   *)
(* and listing.mapper.ts:50-70).                                             *)
ShownAsEntered == Entry!ShownAsEntered

=============================================================================
