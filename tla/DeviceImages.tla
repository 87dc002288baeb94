---------------------------- MODULE DeviceImages ----------------------------
(* The images of one device (routes/devices.ts): rows of device_images in the *)
(* database, files in the storage provider (services/storage).  The two are   *)
(* written one after the other, with no transaction around both.              *)
EXTENDS Naturals, FiniteSets

CONSTANTS
  Proc,       \* the requests that can be in flight together
  MaxImages,  \* MAX_IMAGES, the images a device may have
  MaxKeys     \* bound: files ever uploaded

ASSUME ImagesAssumption == MaxImages \in Nat /\ MaxKeys \in Nat
ASSUME ProcAssumption == IsFiniteSet(Proc)

Key == 1 .. MaxKeys

VARIABLES
  images,    \* the device_images rows of the device, by their file
  stored,    \* the files in the storage provider
  issued,    \* how many keys (random UUIDs) were given out
  dropping,  \* files whose storage.delete runs in the background
  req        \* the handlers in flight

vars == <<images, stored, issued, dropping, req>>

Request == [pc : {"idle", "upload", "delete_row"}, remaining : 0 .. MaxImages,
            saved : SUBSET Key, key : Key \cup {0}]

Idle == [pc |-> "idle", remaining |-> 0, saved |-> {}, key |-> 0]

Init ==
  /\ images = {}
  /\ stored = {}
  /\ issued = 0
  /\ dropping = {}
  /\ req = [p \in Proc |-> Idle]

Go(p, r) == req' = [req EXCEPT ![p] = r]
Reply(p) == Go(p, Idle)

-----------------------------------------------------------------------------
(* POST /devices/:id/images                                                   *)

\* Mutant of Room: what the device already has is forgotten.
RoomAlways == MaxImages

\* "remaining" when the upload starts.
Room == MaxImages - Cardinality(images)

UploadReceive(p) ==
  /\ req[p].pc = "idle"
  /\ Cardinality(images) < MaxImages
  /\ Go(p, [Idle EXCEPT !.pc = "upload", !.remaining = Room])
  /\ UNCHANGED <<images, stored, issued, dropping>>

\* Mutant of UploadPart: the loop does not stop at "remaining <= 0".
UploadPartOn(p) ==
  /\ req[p].pc = "upload"
  /\ issued < MaxKeys
  /\ issued' = issued + 1
  /\ stored' = stored \cup {issued + 1}
  /\ Go(p, [req[p] EXCEPT !.remaining = @ - 1, !.saved = @ \cup {issued + 1}])
  /\ UNCHANGED <<images, dropping>>

\* A part that is an image is stored under a key of its own.
UploadPart(p) ==
  /\ req[p].pc = "upload"
  /\ req[p].remaining > 0
  /\ issued < MaxKeys
  /\ issued' = issued + 1
  /\ stored' = stored \cup {issued + 1}
  /\ Go(p, [req[p] EXCEPT !.remaining = @ - 1, !.saved = @ \cup {issued + 1}])
  /\ UNCHANGED <<images, dropping>>

\* A part of another type, or too large, or a form without any file: 400 or
\* 413.  The files stored before it stay.
UploadRefused(p) ==
  /\ req[p].pc = "upload"
  /\ req[p].remaining > 0
  /\ Reply(p)
  /\ UNCHANGED <<images, stored, issued, dropping>>

UploadCommit(p) ==
  /\ req[p].pc = "upload"
  /\ req[p].saved # {}
  /\ images' = images \cup req[p].saved
  /\ Reply(p)
  /\ UNCHANGED <<stored, issued, dropping>>

-----------------------------------------------------------------------------
(* DELETE /devices/:id/images/:imageId                                        *)

DeleteReceive(p) ==
  /\ req[p].pc = "idle"
  /\ \E k \in images : Go(p, [Idle EXCEPT !.pc = "delete_row", !.key = k])
  /\ UNCHANGED <<images, stored, issued, dropping>>

\* Mutant of DeleteRow: the file goes first.
DeleteFileFirst(p) ==
  /\ req[p].pc = "delete_row"
  /\ IF req[p].key \in stored
     THEN stored' = stored \ {req[p].key} /\ UNCHANGED <<images, req>>
     ELSE images' = images \ {req[p].key} /\ Reply(p) /\ UNCHANGED stored
  /\ UNCHANGED <<issued, dropping>>

\* Mutant of DeleteRow: nobody deletes the file.
DeleteRowOnly(p) ==
  /\ req[p].pc = "delete_row"
  /\ images' = images \ {req[p].key}
  /\ Reply(p)
  /\ UNCHANGED <<stored, issued, dropping>>

\* The row goes first; storage.delete is started and not waited for.  When a
\* concurrent request has deleted the row, deviceImage.delete throws.
DeleteRow(p) ==
  /\ req[p].pc = "delete_row"
  /\ images' = images \ {req[p].key}
  /\ dropping' = IF req[p].key \in images THEN dropping \cup {req[p].key}
                                          ELSE dropping
  /\ Reply(p)
  /\ UNCHANGED <<stored, issued>>

\* The background deletion ends; its failure is swallowed.
DropFile(k) ==
  /\ k \in dropping
  /\ dropping' = dropping \ {k}
  /\ \/ stored' = stored \ {k}
     \/ UNCHANGED stored
  /\ UNCHANGED <<images, issued, req>>

-----------------------------------------------------------------------------
\* A statement or an upload throws, or the process stops, half-way.
Fail(p) ==
  /\ req[p].pc # "idle"
  /\ Reply(p)
  /\ UNCHANGED <<images, stored, issued, dropping>>

Next ==
  \/ \E p \in Proc :
       \/ UploadReceive(p) \/ UploadPart(p) \/ UploadRefused(p)
       \/ UploadCommit(p) \/ DeleteReceive(p) \/ DeleteRow(p) \/ Fail(p)
  \/ \E k \in Key : DropFile(k)

Spec == Init /\ [][Next]_vars

-----------------------------------------------------------------------------
(* The tables hold keys that were given out; a request its bounded locals.    *)
TypeOK ==
  /\ images \in SUBSET Key
  /\ stored \in SUBSET Key
  /\ issued \in 0 .. MaxKeys
  /\ dropping \in SUBSET Key
  /\ req \in [Proc -> Request]

(* "Delete DB record first, then the stored file ... The reverse would expose *)
(* dead links" (devices.ts:879): a row never names a file that is gone,       *)
(* whatever uploads, deletions and background deletions overlap or fail.      *)
NoDeadLinks == images \subseteq stored

Saved == UNION {req[p].saved : p \in Proc}

\* A stored file without a row, and nobody about to give it one or delete it.
Orphan(k) == k \in stored \ (images \cup Saved \cup dropping)

(* A file is left without a row only by the request that stored it, when it   *)
(* is refused or fails, or by a background deletion that fails: never by      *)
(* uploads and deletions that go through, in whatever order.                  *)
NoOrphans ==
  [][\A k \in Key : Orphan(k)' /\ ~Orphan(k) =>
       k \in dropping \/ (k \in Saved /\ UNCHANGED images)]_vars

(* The images the check of MAX_IMAGES can let through: each request in flight *)
(* adds at most what the device had room for when it arrived.                 *)
BoundedExcess == Cardinality(images) <= MaxImages * Cardinality(Proc)
=============================================================================
