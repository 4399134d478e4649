--------------------------- MODULE ObjectHandlers ---------------------------
(***************************************************************************)
(* The requests on objects: HeadObject and GetObject with their If-*       *)
(* headers, GetObjectAcl, GetObjectTagging, PutObject, DeleteObject, which *)
(* evaluates its headers against the version it has read, and the batch    *)
(* DeleteObjects.  Both delete an object in three steps: they read it,     *)
(* delete its shards, and delete the row that is there by then.  One       *)
(* request is followed while other clients overwrite and delete.  What     *)
(* storing and deleting a chunk do is in module ObjectStore, how a body is *)
(* sent in module ReadStream.                                              *)
(***************************************************************************)
EXTENDS Integers, Sequences, FiniteSets

CONSTANTS
    Keys,        \* the keys of the bucket
    Versions,    \* the versions an object may have
    Requests,    \* the requests considered
    MaxChanges   \* bound: how many overwrites and deletions other clients make

Gone == [etag |-> -1, modified |-> -1, size |-> -1]

\* Values of a header that are not a number: not sent, not parsable, "*".
Absent == -1
Malformed == -2
Any == -3
Header == Nat \cup {Absent, Malformed, Any}

Kinds == {"HeadObject", "GetObject", "GetObjectAcl", "GetObjectTagging", "PutObject",
          "DeleteObject", "DeleteObjects"}

VARIABLES
    objects,  \* the current version of each key
    req,      \* the request
    pc,       \* how far its handler is
    seen,     \* the version its headers are evaluated against
    target,   \* the version whose shards it deletes
    next,     \* the next entry of the batch
    deleted,  \* the keys its answer reports as deleted
    removed,  \* history: the rows it deleted, as pairs of key and version
    destroyed,  \* history: the versions it deleted shards of
    stale,    \* history: whether others changed the object since it was read
    status,   \* the status of the answer, 0 before
    changes   \* how many changes other clients made

history == <<removed, destroyed, stale>>
vars == <<objects, req, pc, seen, target, next, deleted, history, status, changes>>

-----------------------------------------------------------------------------
(***************************************************************************)
(* The eval functions: the result, and whether an error was written.       *)
(* Every way through one of them that is not an error ends in              *)
(* "return true, nil", whether the comparison before succeeded or not.     *)
(***************************************************************************)
Evaluated(header) == [result |-> header # Malformed, error |-> header = Malformed]

EvalIfMatch == Evaluated(req.ifMatch)
EvalModifiedSince == Evaluated(req.ifModifiedSince)
EvalIfUnmodifiedSince == Evaluated(req.ifUnmodifiedSince)
EvalIfMatchLastModifiedTime == Evaluated(req.ifMatchLastModifiedTime)
EvalIfMatchSize == Evaluated(req.ifMatchSize)
\* If-None-Match is compared as a string.
EvalNoneMatch == TRUE

Sent(header) == header # Absent

\* The error status of evalIfMatches, 0 if it lets the request through.
EvalIfMatches ==
    IF EvalIfMatch.error \/ EvalModifiedSince.error \/ EvalIfUnmodifiedSince.error THEN 400
    ELSE IF
        \/ /\ Sent(req.ifMatch) /\ Sent(req.ifUnmodifiedSince)
           /\ ~(EvalIfMatch.result /\ ~EvalIfUnmodifiedSince.result)
        \/ /\ ~Sent(req.ifMatch) /\ Sent(req.ifUnmodifiedSince)
           /\ ~EvalIfUnmodifiedSince.result
        \/ /\ Sent(req.ifNoneMatch) /\ Sent(req.ifModifiedSince)
           /\ ~(EvalNoneMatch /\ ~EvalModifiedSince.result)
        \/ /\ ~Sent(req.ifNoneMatch) /\ Sent(req.ifModifiedSince)
           /\ ~EvalModifiedSince.result
    THEN 412 ELSE 0

\* The same for DeleteObject.
EvalDelete ==
    IF EvalIfMatch.error \/ EvalIfMatchLastModifiedTime.error \/ EvalIfMatchSize.error THEN 400
    ELSE IF EvalIfMatch.result /\ EvalIfMatchLastModifiedTime.result /\ EvalIfMatchSize.result
         THEN 0 ELSE 412

-----------------------------------------------------------------------------
Init ==
    /\ objects \in [Keys -> Versions \cup {Gone}]
    /\ req \in Requests
    /\ pc = "start"
    /\ seen = Gone /\ target = Gone
    /\ next = 1
    /\ deleted = <<>>
    /\ removed = <<>> /\ destroyed = {} /\ stale = FALSE
    /\ status = 0
    /\ changes = 0

Answer(code) == status' = code /\ pc' = "done"

\* HeadObject of a part looks for an upload in progress, GetObject for the part.
PartNotFound ==
    /\ pc = "start"
    /\ req.part /\ req.kind = "HeadObject"
    /\ Answer(500)
    /\ UNCHANGED <<objects, req, seen, target, next, deleted, history, changes>>

\* GetObject of the metadata; an error of the database is 500 as well.
Read ==
    /\ pc = "start"
    /\ req.kind \notin {"PutObject", "DeleteObjects"}
    /\ \/ /\ objects[req.key] # Gone
          /\ seen' = objects[req.key]
          /\ pc' = "evaluate"
          /\ UNCHANGED status
       \/ Answer(500) /\ UNCHANGED seen
    /\ UNCHANGED <<objects, req, target, next, deleted, history, changes>>

\* HeadObject and GetObject: conditions, range, part, answer.
Evaluate ==
    /\ pc = "evaluate"
    /\ req.kind \in {"HeadObject", "GetObject"}
    /\ Answer(IF EvalIfMatches # 0 THEN EvalIfMatches
              ELSE IF ~req.rangeOk THEN 416
              ELSE IF req.part /\ req.kind = "GetObject" THEN 500
              ELSE 200)
    /\ UNCHANGED <<objects, req, seen, target, next, deleted, history, changes>>

\* GetObjectAcl and GetObjectTagging answer with fixed data if the object exists.
GetObjectAcl ==
    /\ pc = "evaluate"
    /\ req.kind \in {"GetObjectAcl", "GetObjectTagging"}
    /\ Answer(200)
    /\ UNCHANGED <<objects, req, seen, target, next, deleted, history, changes>>

\* PutObjectStream: the new version of the object, or an error.
PutObject ==
    /\ pc = "start"
    /\ req.kind = "PutObject"
    /\ \/ \E v \in Versions : objects' = [objects EXCEPT ![req.key] = v] /\ Answer(200)
       \/ UNCHANGED objects /\ Answer(500)
    /\ UNCHANGED <<req, seen, target, next, deleted, history, changes>>

EvaluateDelete ==
    /\ pc = "evaluate"
    /\ req.kind = "DeleteObject"
    /\ IF EvalDelete # 0
       THEN Answer(EvalDelete)
       ELSE pc' = "delete" /\ UNCHANGED status
    /\ UNCHANGED <<objects, req, seen, target, next, deleted, history, changes>>

-----------------------------------------------------------------------------
(***************************************************************************)
(* objectManager.DeleteObject of the key in the request's path, which      *)
(* DeleteObject calls once and DeleteObjects for every entry of its batch, *)
(* where the error, or the key of the entry, goes into the report.         *)
(***************************************************************************)
Deleting == pc = "delete" \/ (pc = "batch" /\ next <= Len(req.batch))

Fails ==
    /\ IF req.kind = "DeleteObject"
       THEN Answer(500) /\ UNCHANGED next
       ELSE pc' = "batch" /\ next' = next + 1 /\ UNCHANGED status
    /\ UNCHANGED deleted

Succeeds ==
    IF req.kind = "DeleteObject"
    THEN Answer(200) /\ UNCHANGED <<next, deleted>>
    ELSE /\ pc' = "batch" /\ next' = next + 1 /\ UNCHANGED status
         /\ deleted' = Append(deleted, req.batch[next])

\* metadata.GetObject: no object, or an error of the database.
FetchMetadata ==
    /\ Deleting
    /\ \/ /\ objects[req.key] # Gone
          /\ target' = objects[req.key]
          /\ pc' = "chunks"
          /\ UNCHANGED <<next, deleted, status>>
       \/ Fails /\ UNCHANGED target
    /\ UNCHANGED <<objects, req, seen, history, changes>>

\* chunker.DeleteChunks of what was read.  A backend may refuse after others have
\* deleted their shards; the row stays.
DeleteChunks ==
    /\ pc = "chunks"
    /\ \/ destroyed' = destroyed \cup {target} /\ pc' = "row" /\ UNCHANGED <<next, deleted, status>>
       \/ destroyed' \in {destroyed, destroyed \cup {target}} /\ Fails
    /\ UNCHANGED <<objects, req, seen, target, removed, stale, changes>>

Remove ==
    /\ objects[req.key] # Gone
    /\ objects' = [objects EXCEPT ![req.key] = Gone]
    /\ removed' = Append(removed, <<req.key, objects[req.key]>>)

\* Mutant of DeleteRow: the affected rows are not looked at.
DeleteRowUnchecked ==
    /\ pc = "row"
    /\ \/ Remove /\ Succeeds
       \/ objects[req.key] = Gone /\ UNCHANGED <<objects, removed>> /\ Succeeds
       \/ UNCHANGED <<objects, removed>> /\ Fails
    /\ UNCHANGED <<req, seen, target, destroyed, stale, changes>>

\* metadata.DeleteObject: the row that is there now, whatever version it has; an
\* error if there is none.
DeleteRow ==
    /\ pc = "row"
    /\ \/ Remove /\ Succeeds
       \/ UNCHANGED <<objects, removed>> /\ Fails
    /\ UNCHANGED <<req, seen, target, destroyed, stale, changes>>

\* DeleteObjects decodes its body.
ReadBatch ==
    /\ pc = "start"
    /\ req.kind = "DeleteObjects"
    /\ \/ Answer(400)
       \/ pc' = "batch" /\ UNCHANGED status
    /\ UNCHANGED <<objects, req, seen, target, next, deleted, history, changes>>

DeleteObjectsEnd ==
    /\ pc = "batch"
    /\ next > Len(req.batch)
    /\ deleted' = IF req.quiet THEN <<>> ELSE deleted
    /\ Answer(200)
    /\ UNCHANGED <<objects, req, seen, target, next, history, changes>>

\* Another client stores or deletes an object.
Change(k, v) ==
    /\ pc # "done" /\ changes < MaxChanges
    /\ v # objects[k]
    /\ objects' = [objects EXCEPT ![k] = v]
    /\ stale' = (stale \/ (k = req.key /\ pc # "start"))
    /\ changes' = changes + 1
    /\ UNCHANGED <<req, pc, seen, target, next, deleted, removed, destroyed, status>>

Handle ==
    \/ PartNotFound \/ Read \/ Evaluate \/ GetObjectAcl \/ PutObject
    \/ EvaluateDelete \/ FetchMetadata \/ DeleteChunks \/ DeleteRow
    \/ ReadBatch \/ DeleteObjectsEnd

Next == Handle \/ \E k \in Keys, v \in Versions \cup {Gone} : Change(k, v)

-----------------------------------------------------------------------------
(***************************************************************************)
(* Properties.                                                             *)
(***************************************************************************)

\* The answer of DeleteObject tells what became of the object, whatever other
\* clients do to it meanwhile: 200 says that the request deleted a row, an answer
\* before the deletion that nothing was touched, and unless others changed the
\* object since it was read, the version whose headers were evaluated is the one
\* whose shards and row are gone (DeleteObject, objectManager.DeleteObject).
DeleteTellsEffect ==
    pc = "done" /\ req.kind = "DeleteObject" =>
        /\ status = 200 <=> removed # <<>>
        /\ status \notin {200, 500} => destroyed = {}
        /\ ~stale => destroyed \subseteq {seen}
        /\ ~stale /\ status = 200 => removed = <<<<req.key, seen>>>> /\ destroyed = {seen}

\* What the report of DeleteObjects tells: not that the keys it names are deleted,
\* which docs/S3.md ("Batch delete multiple objects") promises, but that the object
\* of the request's path was; and unless others store that object meanwhile, one
\* turn of the loop deletes it and all others fail (DeleteObjects).
BatchTellsEffect ==
    pc = "done" /\ req.kind = "DeleteObjects" =>
        /\ deleted # <<>> => removed # <<>>
        /\ ~stale => Len(removed) <= 1
        /\ ~stale /\ removed # <<>> => objects[req.key] = Gone

AnswerTellsEffect == DeleteTellsEffect /\ BatchTellsEffect
=============================================================================
