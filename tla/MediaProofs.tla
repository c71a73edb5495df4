----------------------------- MODULE MediaProofs -----------------------------
(* The properties of MediaPipeline for every set of rows, contents and      *)
(* requests, with their proofs.                                             *)
EXTENDS TLAPS, MediaPipeline

Pcs == {"idle", "reserve", "put", "ready", "fail", "remove", "delete"}

(* A row goes from unused through its states to gone; its objects are keys  *)
(* made of its id.                                                          *)
TypeInv ==
    /\ status \in [Media -> {"unused", "PENDING", "READY", "FAILED", "gone"}]
    /\ checksum \in [Media -> Contents \cup {None}]
    /\ variants \in [Media -> {{}, VARIANTS}]
    /\ objects \subseteq Media \X (VARIANTS \cup {"original"})
    /\ cleaned \subseteq Media /\ overlapped \subseteq Contents
    /\ pc \in [Requests -> Pcs]
    /\ req \in [Requests -> Request]

Uploading(r) == pc[r] \in {"put", "ready", "fail"}

(* The row an upload reserved is its own; one that is being removed is real. *)
WhoseRow ==
    \A r \in Requests :
        /\ Uploading(r) =>
            /\ req[r].media \in Media /\ status[req[r].media] # "unused"
            /\ \A q \in Requests :
                Uploading(q) /\ req[q].media = req[r].media => q = r
        /\ pc[r] = "remove" => req[r].media \in Media /\ status[req[r].media] # "unused"
        /\ pc[r] = "delete" => req[r].media \in Media /\ status[req[r].media] = "gone"

(* What an upload has put is there as long as its row is.                   *)
PutIsThere ==
    \A r \in Requests :
        /\ pc[r] \in {"idle", "reserve"} => req[r].written = {}
        /\ pc[r] = "put" /\ status[req[r].media] # "gone" =>
            {req[r].media} \X req[r].written \subseteq objects
        /\ pc[r] = "ready" /\ status[req[r].media] # "gone" =>
            Keys(req[r].media, VARIANTS) \subseteq objects

Putting(r, m) == pc[r] \in {"put", "ready"} /\ req[r].media = m

(* A row with variants, and a removal that has read some, is of an upload   *)
(* that puts nothing any more.                                              *)
NoLatePut ==
    /\ \A m \in Media :
        /\ variants[m] # {} => status[m] # "unused"
        /\ variants[m] # {} \/ m \in cleaned => \A r \in Requests : ~Putting(r, m)
        /\ m \in cleaned => status[m] = "gone"
    /\ \A q \in Requests : pc[q] \in {"remove", "delete"} /\ req[q].names # {} =>
        req[q].names = VARIANTS /\ \A r \in Requests : ~Putting(r, req[q].media)

MediaInv ==
    /\ TypeInv /\ WhoseRow /\ PutIsThere /\ NoLatePut
    /\ ReadyIsComplete /\ RemovedPhotoIsGone

(* The record of a request that is over.                                    *)
LEMMA NoRequestType == NoRequest \in Request
  BY DEF NoRequest, Request

(* At the start there is no row, no object and no request.                  *)
LEMMA MediaInit == Init => MediaInv
<1>1. Init => TypeInv
  BY NoRequestType DEF Init, TypeInv, Pcs
<1>2. Init => WhoseRow /\ PutIsThere /\ NoLatePut
  BY DEF Init, NoRequest, WhoseRow, PutIsThere, NoLatePut, Uploading, Putting
<1>3. Init => ReadyIsComplete /\ RemovedPhotoIsGone
  BY DEF Init, ReadyIsComplete, RemovedPhotoIsGone
<1>4. QED
  BY <1>1, <1>2, <1>3 DEF MediaInv

(* Where neither the bucket nor a row changes, photos stay as they were.    *)
LEMMA PhotosKept ==
    ASSUME MediaInv, UNCHANGED <<status, objects, cleaned>>
    PROVE  ReadyIsComplete' /\ RemovedPhotoIsGone'
  BY DEF MediaInv, ReadyIsComplete, RemovedPhotoIsGone, Keys

(* A request that is answered, gives up or dies lets go of its row.         *)
LEMMA MediaLetsGo ==
    ASSUME MediaInv, NEW r \in Requests, Done(r),
           UNCHANGED <<status, columns, objects, cleaned>>, overlapped' = overlapped
    PROVE  MediaInv'
<1> USE MediaAssumption DEF MediaInv, TypeInv
<1>1. /\ pc'[r] = "idle"
      /\ \A q \in Requests : q # r => req'[q] = req[q] /\ pc'[q] = pc[q]
      /\ UNCHANGED <<status, checksum, variants, objects, cleaned>>
  BY DEF Done, columns
<1>2. TypeInv'
  BY <1>1, NoRequestType DEF Done, Pcs
<1>3. WhoseRow' /\ PutIsThere'
  BY <1>1 DEF Done, NoRequest, WhoseRow, Uploading, PutIsThere, Keys
<1>4. NoLatePut'
  BY <1>1 DEF NoLatePut, Putting
<1>5. QED
  BY <1>1, <1>2, <1>3, <1>4, PhotosKept

(* An upload begins, without a row, or a removal reads one that is there.   *)
LEMMA MediaBegins ==
    ASSUME MediaInv, NEW r \in Requests, UploadCheck(r) \/ RemoveRead(r)
    PROVE  MediaInv'
<1> USE MediaAssumption DEF MediaInv, TypeInv
<1>1. /\ \A q \in Requests : q # r => req'[q] = req[q] /\ pc'[q] = pc[q]
      /\ UNCHANGED <<status, checksum, variants, objects, cleaned>>
  BY DEF UploadCheck, RemoveRead, columns, history
<1>2. CASE UploadCheck(r)
  <2>1. PICK c \in Contents : req' = [req EXCEPT ![r].content = c]
    BY <1>2 DEF UploadCheck
  <2>2. /\ req'[r] \in Request /\ req'[r].written = req[r].written
        /\ pc[r] = "idle" /\ pc'[r] = "reserve" /\ pc' = [pc EXCEPT ![r] = "reserve"]
    BY <1>2, <2>1 DEF UploadCheck, Request
  <2>3. overlapped' \subseteq Contents
    BY <1>2 DEF UploadCheck
  <2>4. TypeInv'
    BY <1>1, <2>1, <2>2, <2>3 DEF Pcs
  <2>5. WhoseRow' /\ PutIsThere' /\ NoLatePut'
    BY <1>1, <2>2 DEF WhoseRow, Uploading, PutIsThere, Keys, NoLatePut, Putting
  <2>6. QED
    BY <1>1, <2>4, <2>5, PhotosKept
<1>3. CASE RemoveRead(r)
  <2>1. PICK m \in Media :
            HasRow(m) /\ req' = [req EXCEPT ![r].media = m, ![r].names = variants[m]]
    BY <1>3 DEF RemoveRead
  <2>2. /\ req'[r] \in Request /\ req'[r].media = m /\ req'[r].names = variants[m]
        /\ pc'[r] = "remove" /\ pc' = [pc EXCEPT ![r] = "remove"]
        /\ overlapped' = overlapped
    <3>1. variants[m] \in SUBSET VARIANTS /\ req[r] \in Request
      OBVIOUS
    <3>2. req'[r] = [req[r] EXCEPT !.media = m, !.names = variants[m]]
      BY <2>1
    <3>3. QED
      BY <1>3, <3>1, <3>2 DEF RemoveRead, Request, history
  <2>3. TypeInv'
    BY <1>1, <2>1, <2>2 DEF Pcs
  <2>4. WhoseRow' /\ PutIsThere'
    BY <1>1, <2>1, <2>2 DEF WhoseRow, Uploading, PutIsThere, Keys, HasRow
  <2>5. NoLatePut'
    BY <1>1, <2>1, <2>2 DEF NoLatePut, Putting
  <2>6. QED
    BY <1>1, <2>3, <2>4, <2>5, PhotosKept
<1>4. QED
  BY <1>2, <1>3

(* A row is reserved that no request knows of.                              *)
LEMMA MediaReserve ==
    ASSUME MediaInv, NEW r \in Requests, Reserve(r)
    PROVE  MediaInv'
<1> USE MediaAssumption DEF MediaInv, TypeInv
<1>1. PICK m \in Media :
        /\ status[m] = "unused"
        /\ status' = [status EXCEPT ![m] = "PENDING"]
        /\ req' = [req EXCEPT ![r].media = m]
  BY DEF Reserve
<1>2. /\ req'[r] \in Request /\ req'[r].media = m
      /\ pc'[r] = "put" /\ pc' = [pc EXCEPT ![r] = "put"]
      /\ \A q \in Requests : q # r => req'[q] = req[q] /\ pc'[q] = pc[q]
      /\ UNCHANGED <<checksum, variants, objects, cleaned, overlapped>>
  <2>1. /\ pc' = [pc EXCEPT ![r] = "put"]
        /\ UNCHANGED <<checksum, variants, objects, cleaned, overlapped>>
    BY DEF Reserve, columns, history
  <2>2. req[r] \in Request
    OBVIOUS
  <2>3. req'[r] = [req[r] EXCEPT !.media = m]
        /\ \A q \in Requests : q # r => req'[q] = req[q]
    BY <1>1
  <2>4. req'[r] \in Request /\ req'[r].media = m
    BY <2>2, <2>3 DEF Request
  <2>5. QED
    BY <2>1, <2>3, <2>4
<1>3. TypeInv'
  BY <1>1, <1>2 DEF Pcs
<1>4. WhoseRow'
  BY <1>1, <1>2 DEF WhoseRow, Uploading
<1>5. PutIsThere'
  <2>1. req'[r].written = {}
    BY <1>1 DEF Reserve, Request, PutIsThere
  <2>2. \A q \in Requests : q # r /\ pc[q] \in {"put", "ready"} => req[q].media # m
    BY <1>1 DEF WhoseRow, Uploading
  <2>3. \A q \in Requests : q # r /\ pc[q] \in {"put", "ready"} => req[q].media \in Media
    BY DEF WhoseRow, Uploading
  <2>4. QED
    BY <1>1, <1>2, <2>1, <2>2, <2>3 DEF PutIsThere, Keys
<1>6. NoLatePut'
  <2>1. \A q \in Requests : pc[q] \in {"remove", "delete"} => req[q].media # m
    BY <1>1 DEF WhoseRow
  <2>2. variants[m] = {} /\ m \notin cleaned
    BY <1>1 DEF NoLatePut
  <2>3. QED
    BY <1>1, <1>2, <2>1, <2>2 DEF NoLatePut, Putting
<1>7. ReadyIsComplete' /\ RemovedPhotoIsGone'
  BY <1>1, <1>2 DEF ReadyIsComplete, RemovedPhotoIsGone, Keys
<1>8. QED
  BY <1>3, <1>4, <1>5, <1>6, <1>7

(* The bucket after a put, which some upload makes for a row of its own.    *)
LEMMA MediaPut ==
    ASSUME MediaInv, NEW r \in Requests, PutObject(r) \/ PutFails(r)
    PROVE  MediaInv'
<1> USE MediaAssumption DEF MediaInv, TypeInv
<1>1. PICK m, written : m = req[r].media /\ written = req[r].written
  OBVIOUS
<1>2. /\ pc[r] = "put" /\ m \in Media /\ status[m] # "unused"
      /\ req[r] \in Request /\ written \subseteq VARIANTS
      /\ Putting(r, m) /\ m \notin cleaned /\ variants[m] = {}
  <2>1. pc[r] = "put" /\ m \in Media /\ status[m] # "unused" /\ Putting(r, m)
    BY <1>1 DEF PutObject, PutFails, WhoseRow, Uploading, Putting
  <2>2. QED
    BY <1>1, <2>1 DEF NoLatePut, Request
<1>3. /\ \A q \in Requests : q # r => req'[q] = req[q] /\ pc'[q] = pc[q]
      /\ UNCHANGED <<status, checksum, variants, cleaned, overlapped>>
      /\ objects \subseteq objects'
      /\ objects' \subseteq objects \cup ({m} \X (VARIANTS \cup {"original"}))
      /\ req' \in [Requests -> Request] /\ req'[r].media = m
      /\ pc' \in [Requests -> Pcs] /\ pc'[r] \in {"put", "ready", "fail"}
      /\ pc'[r] = "put" => {m} \X req'[r].written \subseteq objects' \/ status[m] = "gone"
      /\ pc'[r] = "ready" => Keys(m, VARIANTS) \subseteq objects' \/ status[m] = "gone"
  <2>1. status[m] # "gone" => {m} \X written \subseteq objects
    BY <1>1, <1>2 DEF PutIsThere
  <2>2. CASE \E v \in VARIANTS \ written :
                /\ objects' = objects \cup {<<m, v>>}
                /\ req' = [req EXCEPT ![r].written = @ \cup {v}]
                /\ UNCHANGED <<status, columns, pc, history>>
    <3>1. PICK v \in VARIANTS :
                /\ objects' = objects \cup {<<m, v>>}
                /\ req' = [req EXCEPT ![r].written = @ \cup {v}]
      BY <2>2
    <3>2. /\ req'[r] \in Request /\ req'[r].media = m
          /\ req'[r].written = written \cup {v}
      BY <1>1, <1>2, <3>1 DEF Request
    <3>3. {m} \X (written \cup {v}) \subseteq objects' \/ status[m] = "gone"
      BY <2>1, <3>1
    <3>4. QED
      BY <1>2, <2>2, <3>1, <3>2, <3>3 DEF columns, history
  <2>3. CASE /\ written = VARIANTS
             /\ objects' = objects \cup {<<m, "original">>}
             /\ pc' = [pc EXCEPT ![r] = "ready"]
             /\ UNCHANGED <<status, columns, req, history>>
    <3>1. Keys(m, VARIANTS) \subseteq objects' \/ status[m] = "gone"
      BY <2>1, <2>3 DEF Keys
    <3>2. QED
      BY <1>1, <1>2, <2>3, <3>1 DEF Pcs, columns, history
  <2>4. CASE PutFails(r)
    BY <1>1, <1>2, <2>4 DEF PutFails, Pcs, columns, history
  <2>5. QED
    BY <1>1, <2>2, <2>3, <2>4 DEF PutObject
<1>4. TypeInv'
  BY <1>2, <1>3
<1>5. WhoseRow'
  BY <1>1, <1>2, <1>3 DEF WhoseRow, Uploading
<1>6. PutIsThere'
  BY <1>1, <1>2, <1>3 DEF PutIsThere
<1>7. NoLatePut'
  BY <1>1, <1>2, <1>3 DEF NoLatePut, Putting
<1>8. ReadyIsComplete'
  BY <1>3 DEF ReadyIsComplete, Keys
<1>9. RemovedPhotoIsGone'
  <2>1. \A o \in objects' : o \in objects \/ o[1] = m
    BY <1>3
  <2>2. QED
    BY <1>2, <1>3, <2>1 DEF RemovedPhotoIsGone
<1>10. QED
  BY <1>4, <1>5, <1>6, <1>7, <1>8, <1>9

(* The row becomes READY when all of its objects are there, or is gone; the *)
(* answer may be lost, and then the upload believes it failed.              *)
LEMMA MediaMarkReady ==
    ASSUME MediaInv, NEW r \in Requests, MarkReady(r) \/ MarkReadyFails(r)
    PROVE  MediaInv'
<1> USE MediaAssumption DEF MediaInv, TypeInv
<1>1. PICK m, c : m = req[r].media /\ c = req[r].content
  OBVIOUS
<1>2. /\ pc[r] = "ready" /\ m \in Media /\ status[m] # "unused" /\ Putting(r, m)
      /\ req[r] \in Request /\ c \in Contents \cup {None}
      /\ \A q \in Requests : q # r => ~(Uploading(q) /\ req[q].media = m)
  BY <1>1 DEF MarkReady, MarkReadyFails, WhoseRow, Uploading, Putting, Request
<1>3. /\ \A q \in Requests : q # r => req'[q] = req[q] /\ pc'[q] = pc[q]
      /\ UNCHANGED <<objects, cleaned, overlapped>>
      /\ pc' \in [Requests -> Pcs] /\ req' \in [Requests -> Request]
      /\ \/ pc'[r] = "idle" /\ req'[r] = NoRequest
         \/ pc'[r] = "fail" /\ req'[r] = req[r]
  BY NoRequestType DEF MarkReady, MarkReadyFails, Done, history, Pcs
<1>4. CASE UNCHANGED <<status, columns>>
  <2>1. TypeInv'
    BY <1>3, <1>4 DEF columns
  <2>2. WhoseRow' /\ PutIsThere' /\ NoLatePut'
    BY <1>2, <1>3, <1>4
       DEF WhoseRow, Uploading, PutIsThere, Keys, NoLatePut, Putting, NoRequest, columns
  <2>3. QED
    BY <1>3, <1>4, <2>1, <2>2, PhotosKept
<1>5. CASE /\ HasRow(m)
           /\ status'   = [status EXCEPT ![m] = "READY"]
           /\ checksum' = [checksum EXCEPT ![m] = c]
           /\ variants' = [variants EXCEPT ![m] = VARIANTS]
  <2>1. status[m] # "gone" /\ m \notin cleaned
    BY <1>5 DEF HasRow, NoLatePut
  <2>2. TypeInv'
    BY <1>2, <1>3, <1>5
  <2>3. WhoseRow'
    BY <1>2, <1>3, <1>5, <2>1 DEF WhoseRow, Uploading
  <2>4. PutIsThere'
    <3>1. \A n \in Media : status'[n] # "gone" => status[n] # "gone"
      BY <1>5, <2>1
    <3>2. \A q \in Requests : pc'[q] \in {"put", "ready"} =>
            q # r /\ pc'[q] = pc[q] /\ req'[q] = req[q] /\ req[q].media \in Media
      BY <1>3 DEF WhoseRow, Uploading
    <3>3. QED
      BY <1>3, <3>1, <3>2 DEF PutIsThere, Keys, NoRequest
  <2>5. NoLatePut'
    <3>1. \A q \in Requests : ~Putting(q, m)'
      BY <1>2, <1>3 DEF Putting, Uploading
    <3>2. \A q \in Requests, n \in Media : Putting(q, n)' => Putting(q, n)
      BY <1>3 DEF Putting
    <3>3. \A q \in Requests : pc'[q] \in {"remove", "delete"} =>
            pc'[q] = pc[q] /\ req'[q] = req[q] /\ req[q].media \in Media
      BY <1>3 DEF WhoseRow
    <3>4. \A n \in Media : n # m => status'[n] = status[n] /\ variants'[n] = variants[n]
      BY <1>5
    <3>5. status'[m] = "READY"
      BY <1>2, <1>5
    <3>6. QED
      BY <1>3, <2>1, <3>1, <3>2, <3>3, <3>4, <3>5 DEF NoLatePut
  <2>6. ReadyIsComplete'
    <3>1. Keys(m, VARIANTS) \subseteq objects
      BY <1>1, <1>2, <2>1 DEF PutIsThere
    <3>2. QED
      BY <1>3, <1>5, <3>1 DEF ReadyIsComplete, Keys
  <2>7. RemovedPhotoIsGone'
    BY <1>3 DEF RemovedPhotoIsGone
  <2>8. QED
    BY <2>2, <2>3, <2>4, <2>5, <2>6, <2>7
<1>6. QED
  BY <1>1, <1>4, <1>5 DEF MarkReady, MarkReadyFails, SetReady

(* A row leaves READY, for FAILED or for good, and its objects stay.        *)
LEMMA MediaRowLeaves ==
    ASSUME MediaInv, NEW r \in Requests, MarkFailed(r) \/ RemoveRow(r)
    PROVE  MediaInv'
<1> USE MediaAssumption DEF MediaInv, TypeInv
<1>1. PICK m : m = req[r].media
  OBVIOUS
<1>2. /\ m \in Media /\ status[m] # "unused" /\ pc[r] \in {"fail", "remove"}
  BY <1>1 DEF MarkFailed, RemoveRow, WhoseRow, Uploading
<1>3. UNCHANGED <<checksum, variants, objects, cleaned, overlapped>>
  BY DEF MarkFailed, RemoveRow, columns, history
<1>4. CASE UNCHANGED status /\ Done(r)
  BY <1>3, <1>4, MediaLetsGo DEF columns
<1>5. CASE /\ HasRow(m) /\ status' = [status EXCEPT ![m] = "FAILED"] /\ Done(r)
  <2>1. /\ pc'[r] = "idle" /\ req'[r] = NoRequest
        /\ \A q \in Requests : q # r => req'[q] = req[q] /\ pc'[q] = pc[q]
        /\ status[m] # "gone" /\ m \notin cleaned
    BY <1>5 DEF Done, HasRow, NoLatePut
  <2>2. TypeInv'
    BY <1>2, <1>3, <1>5, NoRequestType DEF Done, Pcs
  <2>3. WhoseRow'
    BY <1>2, <1>5, <2>1 DEF WhoseRow, Uploading
  <2>4. PutIsThere'
    BY <1>2, <1>3, <1>5, <2>1 DEF PutIsThere, Keys, NoRequest, WhoseRow, Uploading
  <2>5. NoLatePut'
    BY <1>2, <1>3, <1>5, <2>1 DEF NoLatePut, Putting
  <2>6. ReadyIsComplete' /\ RemovedPhotoIsGone'
    BY <1>2, <1>3, <1>5 DEF ReadyIsComplete, RemovedPhotoIsGone, Keys
  <2>7. QED
    BY <2>2, <2>3, <2>4, <2>5, <2>6
<1>6. CASE /\ pc[r] = "remove" /\ HasRow(m)
           /\ status' = [status EXCEPT ![m] = "gone"]
           /\ pc' = [pc EXCEPT ![r] = "delete"] /\ req' = req
  <2>1. TypeInv'
    BY <1>2, <1>3, <1>6 DEF Pcs
  <2>2. WhoseRow'
    BY <1>1, <1>2, <1>6 DEF WhoseRow, Uploading
  <2>3. PutIsThere'
    BY <1>2, <1>3, <1>6 DEF PutIsThere, Keys, WhoseRow, Uploading
  <2>4. NoLatePut'
    BY <1>1, <1>2, <1>3, <1>6 DEF NoLatePut, Putting
  <2>5. ReadyIsComplete' /\ RemovedPhotoIsGone'
    BY <1>2, <1>3, <1>6 DEF ReadyIsComplete, RemovedPhotoIsGone, Keys
  <2>6. QED
    BY <2>1, <2>2, <2>3, <2>4, <2>5
<1>7. QED
  <2>1. CASE MarkFailed(r)
    <3>1. CASE HasRow(m)
      BY <1>1, <1>5, <2>1, <3>1 DEF MarkFailed
    <3>2. CASE ~HasRow(m)
      <4>1. status' = status
        BY <1>1, <1>2, <2>1, <3>2 DEF MarkFailed
      <4>2. QED
        BY <1>4, <2>1, <4>1 DEF MarkFailed
    <3>3. QED
      BY <3>1, <3>2
  <2>2. CASE RemoveRow(r)
    BY <1>1, <1>4, <1>6, <2>2 DEF RemoveRow
  <2>3. QED
    BY <2>1, <2>2

(* The objects of a row that is gone go; all of them, when the row was READY. *)
LEMMA MediaDelete ==
    ASSUME MediaInv, NEW r \in Requests, DeleteObjects(r)
    PROVE  MediaInv'
<1> USE MediaAssumption DEF MediaInv, TypeInv
<1>1. PICK m, names : m = req[r].media /\ names = req[r].names
  OBVIOUS
<1>2. /\ pc[r] = "delete" /\ m \in Media /\ status[m] = "gone"
      /\ names # {} => names = VARIANTS /\ \A q \in Requests : ~Putting(q, m)
  BY <1>1 DEF DeleteObjects, WhoseRow, NoLatePut
<1>3. /\ objects' = objects \ Keys(m, names)
      /\ cleaned' = IF names = VARIANTS THEN cleaned \cup {m} ELSE cleaned
      /\ pc'[r] = "idle" /\ req'[r] = NoRequest
      /\ \A q \in Requests : q # r => req'[q] = req[q] /\ pc'[q] = pc[q]
      /\ UNCHANGED <<status, checksum, variants, overlapped>>
  BY <1>1 DEF DeleteObjects, Done, columns, allKeysFor
<1>4. \A o \in objects : o[1] # m => o \in objects'
  BY <1>3 DEF Keys
<1>5. TypeInv'
  BY <1>2, <1>3, NoRequestType DEF DeleteObjects, Done, Pcs
<1>6. WhoseRow'
  BY <1>3 DEF WhoseRow, Uploading
<1>7. PutIsThere'
  BY <1>2, <1>3 DEF PutIsThere, Keys, NoRequest
<1>8. NoLatePut'
  BY <1>2, <1>3 DEF NoLatePut, Putting
<1>9. ReadyIsComplete'
  BY <1>2, <1>3 DEF ReadyIsComplete, Keys
<1>10. RemovedPhotoIsGone'
  <2>1. CASE names = VARIANTS
    <3>1. \A o \in objects' : o[1] # m
      BY <1>3, <2>1 DEF Keys
    <3>2. QED
      BY <1>3, <2>1, <3>1 DEF RemovedPhotoIsGone
  <2>2. CASE names # VARIANTS
    BY <1>3, <2>2 DEF RemovedPhotoIsGone
  <2>3. QED
    BY <2>1, <2>2
<1>11. QED
  BY <1>5, <1>6, <1>7, <1>8, <1>9, <1>10

(* Every step keeps the invariant.                                          *)
LEMMA MediaStep == MediaInv /\ [Next]_vars => MediaInv'
<1> SUFFICES ASSUME MediaInv, [Next]_vars PROVE MediaInv'
  OBVIOUS
<1>1. CASE UNCHANGED vars
  BY <1>1 DEF vars, columns, history, MediaInv, TypeInv, WhoseRow, Uploading,
              PutIsThere, Keys, NoLatePut, Putting, ReadyIsComplete, RemovedPhotoIsGone
<1>2. ASSUME NEW r \in Requests, DeleteFails(r) \/ Crash(r) PROVE MediaInv'
  <2>1. Done(r) /\ UNCHANGED <<status, columns, objects, cleaned>> /\ overlapped' = overlapped
    BY <1>2 DEF DeleteFails, Crash, history
  <2>2. QED
    BY <2>1, MediaLetsGo
<1>3. QED
  BY <1>1, <1>2, MediaBegins, MediaReserve, MediaPut, MediaMarkReady, MediaRowLeaves,
     MediaDelete DEF Next

(* MediaInv is an invariant of the specification.                           *)
LEMMA MediaInvariant == Spec => []MediaInv
<1>1. Init => MediaInv
  BY MediaInit
<1>2. MediaInv /\ [Next]_vars => MediaInv'
  BY MediaStep
<1>3. QED
  BY <1>1, <1>2, PTL DEF Spec

(* A READY row has all of its objects, whatever overlaps or fails.          *)
THEOREM ReadyPhotosAreComplete == Spec => []ReadyIsComplete
<1>1. MediaInv => ReadyIsComplete
  BY DEF MediaInv
<1>2. QED
  BY <1>1, MediaInvariant, PTL

(* The removal of a READY row leaves nothing of it in the bucket.           *)
THEOREM RemovedPhotosAreGone == Spec => []RemovedPhotoIsGone
<1>1. MediaInv => RemovedPhotoIsGone
  BY DEF MediaInv
<1>2. QED
  BY <1>1, MediaInvariant, PTL

-----------------------------------------------------------------------------
AtWork(r) == pc[r] \in {"reserve", "put", "ready", "fail"}

(* A READY row has the bytes of an upload; a request that is no upload has  *)
(* none.                                                                    *)
ContentKnown ==
    /\ \A m \in Media : status[m] = "READY" => checksum[m] \in Contents
    /\ \A r \in Requests :
        IF AtWork(r) THEN req[r].content \in Contents ELSE req[r].content = None

(* Unless two uploads of it have met, a content has one upload at a time... *)
OneUpload ==
    \A r, q \in Requests :
        AtWork(r) /\ AtWork(q) /\ req[r].content = req[q].content =>
            r = q \/ req[r].content \in overlapped

(* ... and none that may yet mark a row READY once a row is.                *)
NotYetReady ==
    \A r \in Requests, m \in Media :
        /\ pc[r] \in {"reserve", "put", "ready"} /\ status[m] = "READY"
        /\ checksum[m] = req[r].content
        => req[r].content \in overlapped

GalleryInv == ContentKnown /\ OneUpload /\ NotYetReady /\ OneReadyPerContent

(* At the start there is no row and no request.                             *)
LEMMA GalleryInit == Init => GalleryInv
  BY DEF Init, NoRequest, GalleryInv, ContentKnown, OneUpload, NotYetReady,
         OneReadyPerContent, AtWork

(* A step by which no row becomes READY and no upload begins.               *)
LEMMA GalleryKept ==
    ASSUME MediaInv, GalleryInv, NEW r \in Requests,
           UNCHANGED <<checksum, overlapped>>,
           \A m \in Media : status'[m] = "READY" => status[m] = "READY",
           \A q \in Requests : q # r => req'[q] = req[q] /\ pc'[q] = pc[q],
           IF AtWork(r)' THEN /\ AtWork(r) /\ req'[r].content = req[r].content
                              /\ pc'[r] # "fail" => pc[r] # "fail"
                         ELSE req'[r].content = None
    PROVE  GalleryInv'
<1>1. ContentKnown'
  BY DEF GalleryInv, ContentKnown, AtWork
<1>2. OneUpload' /\ NotYetReady'
  BY DEF GalleryInv, OneUpload, NotYetReady, AtWork
<1>3. OneReadyPerContent'
  BY DEF GalleryInv, OneReadyPerContent
<1>4. QED
  BY <1>1, <1>2, <1>3 DEF GalleryInv

(* An upload begins when no row has its bytes; the ones under way are noted. *)
LEMMA GalleryUpload ==
    ASSUME MediaInv, GalleryInv, NEW r \in Requests, UploadCheck(r)
    PROVE  GalleryInv'
<1> USE MediaAssumption DEF MediaInv, TypeInv
<1>1. PICK c \in Contents :
        /\ FindByChecksum(c) = {}
        /\ req' = [req EXCEPT ![r].content = c]
        /\ overlapped' = IF \E q \in Requests : req[q].content = c
                         THEN overlapped \cup {c} ELSE overlapped
  BY DEF UploadCheck
<1>2. /\ req'[r].content = c /\ pc'[r] = "reserve"
      /\ \A q \in Requests : q # r => req'[q] = req[q] /\ pc'[q] = pc[q]
      /\ UNCHANGED <<status, checksum>>
      /\ overlapped \subseteq overlapped'
  BY <1>1 DEF UploadCheck, Request, columns
<1>3. ContentKnown'
  BY <1>2 DEF GalleryInv, ContentKnown, AtWork
<1>4. OneUpload'
  BY <1>1, <1>2 DEF GalleryInv, OneUpload, AtWork
<1>5. NotYetReady'
  BY <1>1, <1>2 DEF GalleryInv, NotYetReady, FindByChecksum
<1>6. OneReadyPerContent'
  BY <1>2 DEF GalleryInv, OneReadyPerContent
<1>7. QED
  BY <1>3, <1>4, <1>5, <1>6 DEF GalleryInv

(* The row an upload marks READY is the only one with its bytes.            *)
LEMMA GalleryReady ==
    ASSUME MediaInv, GalleryInv, NEW r \in Requests, MarkReady(r) \/ MarkReadyFails(r)
    PROVE  GalleryInv'
<1> USE MediaAssumption DEF MediaInv, TypeInv
<1>1. PICK m, c : m = req[r].media /\ c = req[r].content
  OBVIOUS
<1>2. pc[r] = "ready" /\ AtWork(r) /\ m \in Media /\ c \in Contents
  BY <1>1 DEF MarkReady, MarkReadyFails, WhoseRow, Uploading, GalleryInv, ContentKnown, AtWork
<1>3. /\ \A q \in Requests : q # r => req'[q] = req[q] /\ pc'[q] = pc[q]
      /\ UNCHANGED overlapped
      /\ \/ pc'[r] = "idle" /\ req'[r] = NoRequest
         \/ pc'[r] = "fail" /\ req'[r] = req[r]
  BY DEF MarkReady, MarkReadyFails, Done, history
<1>4. CASE UNCHANGED <<status, columns>>
  BY <1>2, <1>3, <1>4, GalleryKept DEF columns, AtWork, NoRequest
<1>5. CASE /\ status'   = [status EXCEPT ![m] = "READY"]
           /\ checksum' = [checksum EXCEPT ![m] = c]
  <2>1. /\ status'[m] = "READY" /\ checksum'[m] = c
        /\ \A n \in Media : n # m => status'[n] = status[n] /\ checksum'[n] = checksum[n]
    BY <1>2, <1>5
  <2>2. \A q \in Requests : AtWork(q)' =>
            AtWork(q) /\ req'[q] = req[q] /\ (pc'[q] # "fail" => q # r /\ pc'[q] = pc[q])
    BY <1>2, <1>3 DEF AtWork
  <2>3. ContentKnown'
    BY <1>2, <1>3, <2>1 DEF GalleryInv, ContentKnown, AtWork, NoRequest
  <2>4. OneUpload'
    BY <1>3, <2>2 DEF GalleryInv, OneUpload
  <2>5. NotYetReady'
    <3>1. \A q \in Requests : AtWork(q) /\ q # r /\ req[q].content = c => c \in overlapped
      BY <1>1, <1>2 DEF GalleryInv, OneUpload
    <3>2. ASSUME NEW q \in Requests, pc'[q] \in {"reserve", "put", "ready"}
          PROVE  q # r /\ pc'[q] = pc[q] /\ req'[q] = req[q] /\ AtWork(q)
      BY <1>3, <3>2 DEF AtWork
    <3>3. QED
      BY <1>3, <2>1, <3>1, <3>2 DEF GalleryInv, NotYetReady
  <2>6. OneReadyPerContent'
    <3>1. \A n \in Media : status[n] = "READY" /\ checksum[n] = c => c \in overlapped
      BY <1>1, <1>2 DEF GalleryInv, NotYetReady
    <3>2. QED
      BY <1>3, <2>1, <3>1 DEF GalleryInv, OneReadyPerContent
  <2>7. QED
    BY <2>3, <2>4, <2>5, <2>6 DEF GalleryInv
<1>6. QED
  BY <1>1, <1>4, <1>5 DEF MarkReady, MarkReadyFails, SetReady

(* Every other step is of the kind GalleryKept is about.                    *)
LEMMA GalleryStep == MediaInv /\ GalleryInv /\ [Next]_vars => GalleryInv'
<1> SUFFICES ASSUME MediaInv, GalleryInv, [Next]_vars PROVE GalleryInv'
  OBVIOUS
<1> USE MediaAssumption DEF MediaInv, TypeInv
<1>1. CASE UNCHANGED vars
  BY <1>1 DEF vars, columns, history, GalleryInv, ContentKnown, OneUpload, NotYetReady,
              OneReadyPerContent, AtWork
<1>2. ASSUME NEW r \in Requests, Reserve(r) PROVE GalleryInv'
  <2>1. PICK m \in Media :
          /\ status' = [status EXCEPT ![m] = "PENDING"]
          /\ req' = [req EXCEPT ![r].media = m]
    BY <1>2 DEF Reserve
  <2>2. /\ req'[r].content = req[r].content /\ pc[r] = "reserve" /\ pc'[r] = "put"
        /\ \A q \in Requests : q # r => req'[q] = req[q] /\ pc'[q] = pc[q]
        /\ UNCHANGED <<checksum, overlapped>>
    BY <1>2, <2>1 DEF Reserve, Request, columns, history
  <2>3. QED
    BY <2>1, <2>2, GalleryKept DEF AtWork
<1>3. ASSUME NEW r \in Requests, PutObject(r) \/ PutFails(r) PROVE GalleryInv'
  <2>1. /\ req'[r].content = req[r].content
        /\ pc[r] = "put" /\ pc'[r] \in {"put", "ready", "fail"}
        /\ \A q \in Requests : q # r => req'[q] = req[q] /\ pc'[q] = pc[q]
        /\ UNCHANGED <<status, checksum, overlapped>>
    BY <1>3 DEF PutObject, PutFails, Request, columns, history
  <2>2. QED
    BY <2>1, GalleryKept DEF AtWork
<1>4. ASSUME NEW r \in Requests,
             MarkFailed(r) \/ RemoveRow(r) \/ DeleteObjects(r) \/ DeleteFails(r) \/ Crash(r)
      PROVE  GalleryInv'
  <2>1. /\ UNCHANGED <<checksum, overlapped>>
        /\ \A q \in Requests : q # r => req'[q] = req[q] /\ pc'[q] = pc[q]
        /\ \/ pc'[r] = "idle" /\ req'[r].content = None
           \/ pc[r] = "remove" /\ pc'[r] = "delete" /\ req'[r] = req[r]
    BY <1>4 DEF MarkFailed, RemoveRow, DeleteObjects, DeleteFails, Crash, Done, NoRequest,
                columns, history
  <2>2. \A m \in Media : status'[m] = "READY" => status[m] = "READY"
    BY <1>4 DEF MarkFailed, RemoveRow, DeleteObjects, DeleteFails, Crash
  <2>3. pc[r] = "remove" => req[r].content = None
    BY DEF GalleryInv, ContentKnown, AtWork
  <2>4. QED
    BY <2>1, <2>2, <2>3, GalleryKept DEF AtWork
<1>5. ASSUME NEW r \in Requests, RemoveRead(r) PROVE GalleryInv'
  <2>1. PICK m \in Media : req' = [req EXCEPT ![r].media = m, ![r].names = variants[m]]
    BY <1>5 DEF RemoveRead
  <2>2. /\ req'[r].content = req[r].content /\ pc[r] = "idle" /\ pc'[r] = "remove"
        /\ \A q \in Requests : q # r => req'[q] = req[q] /\ pc'[q] = pc[q]
        /\ UNCHANGED <<status, checksum, overlapped>>
    BY <1>5, <2>1 DEF RemoveRead, Request, columns, history
  <2>3. req[r].content = None
    BY <2>2 DEF GalleryInv, ContentKnown, AtWork
  <2>4. QED
    BY <2>2, <2>3, GalleryKept DEF AtWork
<1>6. QED
  BY <1>1, <1>2, <1>3, <1>4, <1>5, GalleryUpload, GalleryReady DEF Next

(* No picture is READY twice, unless two uploads of it have met.            *)
THEOREM OnePhotoPerContent == Spec => []OneReadyPerContent
<1>1. Init => GalleryInv
  BY GalleryInit
<1>2. MediaInv /\ GalleryInv /\ [Next]_vars => GalleryInv'
  BY GalleryStep
<1>3. GalleryInv => OneReadyPerContent
  BY DEF GalleryInv
<1>4. QED
  BY <1>1, <1>2, <1>3, MediaInvariant, PTL DEF Spec
=============================================================================
