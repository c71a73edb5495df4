---------------------------- MODULE MediaPipeline ----------------------------
(***************************************************************************)
(* The photos of one listing: MediaService.upload and remove over two      *)
(* stores that share no transaction, the listing_media table and the       *)
(* object storage bucket.  Every repository call is a transaction of its   *)
(* own and every storage call can fail.  Display order is left out.        *)
(***************************************************************************)
EXTENDS Naturals

CONSTANTS
    Media,          \* ids of rows that can be reserved
    Contents,       \* uploaded files, up to identical bytes
    VARIANTS,       \* names of the derivatives ImageProcessingService makes
    Requests,       \* staff requests the API can be serving at the same time
    None            \* SQL NULL

ASSUME MediaAssumption ==
    /\ VARIANTS # {} /\ "original" \notin VARIANTS
    /\ None \notin Media \cup Contents

VARIABLES
    status,             \* processing_status; "unused" before, "gone" after the row
    checksum, variants, \* columns
    objects,            \* keys in the bucket, as <<media id, name>>
    pc, req,            \* the requests being served
    cleaned,            \* history: ids of READY rows whose removal ran to its end
    overlapped          \* history: contents two uploads were working on at once

columns == <<checksum, variants>>
history == <<cleaned, overlapped>>
vars == <<status, columns, objects, pc, req, history>>

Request == [media   : Media \cup {None},
            content : Contents \cup {None},
            written : SUBSET VARIANTS,      \* variants put so far
            names   : SUBSET VARIANTS]      \* row.variants, as remove read it

NoRequest == [media |-> None, content |-> None, written |-> {}, names |-> {}]

HasRow(m) == status[m] \in {"PENDING", "READY", "FAILED"}

Keys(m, names) == {m} \X (names \cup {"original"})

Done(r) ==
    /\ pc'  = [pc EXCEPT ![r] = "idle"]
    /\ req' = [req EXCEPT ![r] = NoRequest]

Init ==
    /\ status   = [m \in Media |-> "unused"]
    /\ checksum = [m \in Media |-> None]
    /\ variants = [m \in Media |-> {}]
    /\ objects = {}
    /\ pc  = [r \in Requests |-> "idle"]
    /\ req = [r \in Requests |-> NoRequest]
    /\ cleaned = {} /\ overlapped = {}

-----------------------------------------------------------------------------
(* upload: dedupe, reserve a PENDING row, put the objects, mark it READY.  *)

\* Mutant: the checksum of any row but a READY one.
FindUnfinished(c) == {m \in Media : status[m] = "PENDING" /\ checksum[m] = c}

FindByChecksum(c) == {m \in Media : status[m] = "READY" /\ checksum[m] = c}

\* The listing is this organisation's and the bytes decode to an image.  Known
\* bytes are answered with the row that has them, and nothing changes.
UploadCheck(r) ==
    /\ pc[r] = "idle"
    /\ \E c \in Contents :
        /\ FindByChecksum(c) = {}
        /\ req' = [req EXCEPT ![r].content = c]
        /\ overlapped' = IF \E q \in Requests : req[q].content = c
                         THEN overlapped \cup {c} ELSE overlapped
    /\ pc' = [pc EXCEPT ![r] = "reserve"]
    /\ UNCHANGED <<status, columns, objects, cleaned>>

Reserve(r) ==
    /\ pc[r] = "reserve"
    /\ \E m \in Media :
        /\ status[m] = "unused"
        /\ status' = [status EXCEPT ![m] = "PENDING"]
        /\ req' = [req EXCEPT ![r].media = m]
    /\ pc' = [pc EXCEPT ![r] = "put"]
    /\ UNCHANGED <<columns, objects, history>>

\* The variants one by one, the original last.
PutObject(r) ==
    /\ pc[r] = "put"
    /\ \/ \E v \in VARIANTS \ req[r].written :
            /\ objects' = objects \cup {<<req[r].media, v>>}
            /\ req' = [req EXCEPT ![r].written = @ \cup {v}]
            /\ UNCHANGED pc
       \/ /\ req[r].written = VARIANTS
          /\ objects' = objects \cup {<<req[r].media, "original">>}
          /\ pc' = [pc EXCEPT ![r] = "ready"]
          /\ UNCHANGED req
    /\ UNCHANGED <<status, columns, history>>

\* A put throws, whether or not the object arrived.
PutFails(r) ==
    /\ pc[r] = "put"
    /\ \/ UNCHANGED objects
       \/ \E v \in VARIANTS \ req[r].written : objects' = objects \cup {<<req[r].media, v>>}
       \/ /\ req[r].written = VARIANTS
          /\ objects' = objects \cup {<<req[r].media, "original">>}
    /\ pc' = [pc EXCEPT ![r] = "fail"]
    /\ UNCHANGED <<status, columns, req, history>>

\* UPDATE ... WHERE id: of no effect when the row has been removed meanwhile.
SetReady(m, c) ==
    IF HasRow(m)
    THEN /\ status'   = [status EXCEPT ![m] = "READY"]
         /\ checksum' = [checksum EXCEPT ![m] = c]
         /\ variants' = [variants EXCEPT ![m] = VARIANTS]
    ELSE UNCHANGED <<status, columns>>

MarkReady(r) ==
    /\ pc[r] = "ready"
    /\ SetReady(req[r].media, req[r].content)
    /\ Done(r)
    /\ UNCHANGED <<objects, history>>

\* markReady throws, having committed or not.
MarkReadyFails(r) ==
    /\ pc[r] = "ready"
    /\ \/ SetReady(req[r].media, req[r].content)
       \/ UNCHANGED <<status, columns>>
    /\ pc' = [pc EXCEPT ![r] = "fail"]
    /\ UNCHANGED <<objects, req, history>>

\* The catch clause; when this fails too it is swallowed (see Crash).
MarkFailed(r) ==
    /\ pc[r] = "fail"
    /\ status' = [status EXCEPT ![req[r].media] = IF HasRow(req[r].media) THEN "FAILED" ELSE @]
    /\ Done(r)
    /\ UNCHANGED <<columns, objects, history>>

-----------------------------------------------------------------------------
(* remove: read the row, delete it, then its objects.                      *)

RemoveRead(r) ==
    /\ pc[r] = "idle"
    /\ \E m \in Media :
        /\ HasRow(m)
        /\ req' = [req EXCEPT ![r].media = m, ![r].names = variants[m]]
    /\ pc' = [pc EXCEPT ![r] = "remove"]
    /\ UNCHANGED <<status, columns, objects, history>>

\* Mutant: objects first, row second, and the second is not reached.
RemoveObjectsFirst(r) ==
    /\ pc[r] = "remove"
    /\ objects' = objects \ Keys(req[r].media, req[r].names)
    /\ Done(r)
    /\ UNCHANGED <<status, columns, history>>

\* Two removals of one row: the second finds nothing to delete, 404.
RemoveRow(r) ==
    /\ pc[r] = "remove"
    /\ \/ /\ HasRow(req[r].media)
          /\ status' = [status EXCEPT ![req[r].media] = "gone"]
          /\ pc' = [pc EXCEPT ![r] = "delete"]
          /\ UNCHANGED req
       \/ /\ ~HasRow(req[r].media)
          /\ Done(r)
          /\ UNCHANGED status
    /\ UNCHANGED <<columns, objects, history>>

\* Mutant: the original is not swept.
VariantKeys(m, names) == {m} \X names

allKeysFor(m, names) == Keys(m, names)

DeleteObjects(r) ==
    /\ pc[r] = "delete"
    /\ LET m == req[r].media
       IN  /\ objects' = objects \ allKeysFor(m, req[r].names)
           /\ cleaned' = IF req[r].names = VARIANTS THEN cleaned \cup {m} ELSE cleaned
    /\ Done(r)
    /\ UNCHANGED <<status, columns, overlapped>>

\* deleteMany logs its failure and the request succeeds.
DeleteFails(r) ==
    /\ pc[r] = "delete"
    /\ Done(r)
    /\ UNCHANGED <<status, columns, objects, history>>

\* The process dies.  Dying between row and objects is deleteMany failing.
Crash(r) ==
    /\ pc[r] \notin {"idle", "delete"}
    /\ Done(r)
    /\ UNCHANGED <<status, columns, objects, history>>

Next == \E r \in Requests :
    \/ UploadCheck(r) \/ Reserve(r) \/ PutObject(r) \/ PutFails(r)
    \/ MarkReady(r) \/ MarkReadyFails(r) \/ MarkFailed(r)
    \/ RemoveRead(r) \/ RemoveRow(r) \/ DeleteObjects(r) \/ DeleteFails(r)
    \/ Crash(r)

Spec == Init /\ [][Next]_vars

-----------------------------------------------------------------------------
\* A served photo can be drawn: whatever uploads, removals, failures and lost
\* answers overlap, a READY row has all of its objects (media.service.ts:198-202).
ReadyIsComplete ==
    \A m \in Media : status[m] = "READY" => Keys(m, VARIANTS) \subseteq objects

\* Removing a photo that was READY removes every one of its objects, and no
\* late put brings one back (storage-keys.ts:26).
RemovedPhotoIsGone ==
    \A m \in cleaned : \A o \in objects : o[1] # m

\* The same picture is not in the gallery twice (media.repository.ts:35-37),
\* unless two uploads of it were under way at once.
OneReadyPerContent ==
    \A m, n \in Media :
        /\ status[m] = "READY" /\ status[n] = "READY"
        /\ checksum[m] = checksum[n] /\ checksum[m] \notin overlapped
        => m = n

=============================================================================
