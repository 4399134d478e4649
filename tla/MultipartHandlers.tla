------------------------- MODULE MultipartHandlers --------------------------
(***************************************************************************)
(* The handlers CreateMultipartUpload, CompleteMultipartUpload and         *)
(* AbortMultipartUpload with the order of their checks.  One request is    *)
(* followed while other clients upload parts again, abort or complete the  *)
(* same upload, also between the reads of a completion and its             *)
(* transaction, which does not look at what has become of the upload.      *)
(***************************************************************************)
EXTENDS Integers, FiniteSets

CONSTANTS
    Parts,       \* the part numbers
    ETags,       \* the ETags a part may have
    NoETag,      \* of a part number without a part
    BadList,     \* a list of parts that is not well-formed XML
    MaxUploads   \* bound: how many parts other clients upload meanwhile

Lists == [Parts -> ETags \cup {NoETag}]

VARIABLES
    exists,       \* whether the multipart upload exists
    stored,       \* the ETags of its parts
    object,       \* history: the parts this request assembled into the object
    taken,        \* whether an object has the key of the upload
    kind,         \* the request: a member of Kinds
    bucketMatches,  \* whether its bucket is that of the upload
    keyMatches,   \* whether its key is
    ifNoneMatch,  \* whether it has "If-None-Match: *"
    ifMatch,      \* its If-Match: "none", "equal" or "different"
    initiated,    \* its x-amz-if-match-initiated-time, likewise
    listed,       \* the parts its body lists, BadList if it cannot be decoded
    plan,         \* the parts the completion has read
    moving,       \* the parts whose chunks it has read, without those whose
                  \* chunk rows are deleted since
    committed,    \* history: whether its transaction was committed
    raced,        \* history: the parts others replaced or dropped since they were read
    pc,           \* how far its handler is
    status,       \* the status of the answer, 0 before
    uploads       \* how many parts other clients uploaded

request == <<kind, bucketMatches, keyMatches, ifNoneMatch, ifMatch, initiated, listed>>
completion == <<plan, moving, committed, raced>>
vars == <<exists, stored, object, taken, request, completion, pc, status, uploads>>

Kinds == {"CreateMultipartUpload", "CompleteMultipartUpload", "AbortMultipartUpload"}

NoParts == [p \in Parts |-> NoETag]

\* The first status written is the one the client gets.
Answer(code) == status' = IF status = 0 THEN code ELSE status

Init ==
    /\ exists \in BOOLEAN
    /\ stored \in Lists
    /\ exists \/ stored = NoParts
    /\ object = NoParts
    /\ kind \in Kinds
    /\ bucketMatches \in BOOLEAN /\ keyMatches \in BOOLEAN
    /\ ifNoneMatch \in BOOLEAN
    /\ ifMatch \in {"none", "equal", "different"}
    /\ initiated \in {"none", "equal", "different"}
    /\ listed \in Lists \cup {BadList}
    /\ kind # "CompleteMultipartUpload" => listed = BadList /\ ifMatch = "none" /\ ~ifNoneMatch
    /\ kind # "AbortMultipartUpload" => initiated = "none"
    /\ taken \in BOOLEAN
    /\ IF kind = "CreateMultipartUpload" THEN ~exists /\ bucketMatches /\ keyMatches ELSE ~taken
    /\ plan = NoParts /\ moving = NoParts /\ committed = FALSE /\ raced = {}
    /\ pc = "start"
    /\ status = 0
    /\ uploads = 0

-----------------------------------------------------------------------------
\* CreateMultipartUpload: metadata.ObjectExists, then the row of the upload.
ObjectExists ==
    /\ pc = "start" /\ kind = "CreateMultipartUpload"
    /\ \/ taken /\ pc' = "done" /\ Answer(409)
       \/ ~taken /\ pc' = "create" /\ UNCHANGED status
       \/ pc' = "done" /\ Answer(500)
    /\ UNCHANGED <<exists, stored, object, taken, request, completion, uploads>>

CreateMultipartUpload ==
    /\ pc = "create"
    /\ pc' = "done"
    /\ \/ exists' = TRUE /\ Answer(200)
       \/ UNCHANGED exists /\ Answer(500)
    /\ UNCHANGED <<stored, object, taken, request, completion, uploads>>

\* metadata.GetMultipartUpload; when it fails, with no upload or with an error of
\* the database, AbortMultipartUpload answers 204 to a request with an initiation
\* time.
GetMultipartUpload ==
    /\ pc = "start" /\ kind # "CreateMultipartUpload"
    /\ \/ /\ exists
          /\ pc' = IF kind = "CompleteMultipartUpload" THEN "ifNoneMatch" ELSE "match"
          /\ UNCHANGED status
       \/ pc' = "done" /\ Answer(IF initiated = "none" THEN 500 ELSE 204)
    /\ UNCHANGED <<exists, stored, object, taken, request, completion, uploads>>

\* "If-None-Match: *": KeyMatch, which looks at the key only, writes 412 and
\* returns FALSE when it is another one; when it is the upload's own, the handler
\* returns, and net/http answers 200 for a handler that wrote nothing.
IfNoneMatch ==
    /\ pc = "ifNoneMatch"
    /\ IF ifNoneMatch /\ keyMatches
       THEN pc' = "done" /\ Answer(200)
       ELSE /\ pc' = "match"
            /\ IF ifNoneMatch THEN Answer(412) ELSE UNCHANGED status
    /\ UNCHANGED <<exists, stored, object, taken, request, completion, uploads>>

BucketAndKeyMatch ==
    /\ pc = "match"
    /\ IF bucketMatches /\ keyMatches
       THEN pc' = (IF kind = "CompleteMultipartUpload" THEN "complete" ELSE "timeMatch") /\ UNCHANGED status
       ELSE pc' = "done" /\ Answer(400)
    /\ UNCHANGED <<exists, stored, object, taken, request, completion, uploads>>

\* metadata.CompleteMultipartUpload reads the upload and its parts ...
ReadParts ==
    /\ pc = "complete"
    /\ \/ /\ exists /\ stored # NoParts
          /\ plan' = stored
          /\ pc' = "readChunks"
          /\ UNCHANGED status
       \/ pc' = "done" /\ Answer(500) /\ UNCHANGED plan
    /\ UNCHANGED <<exists, stored, object, taken, request, moving, committed, raced, uploads>>

\* ... and the chunks each of them has by then.
ReadChunks ==
    /\ pc = "readChunks"
    /\ \/ /\ moving' = [p \in Parts |-> IF plan[p] = NoETag THEN NoETag ELSE stored[p]]
          /\ pc' = "transaction"
          /\ UNCHANGED status
       \/ pc' = "done" /\ Answer(500) /\ UNCHANGED moving
    /\ UNCHANGED <<exists, stored, object, taken, request, plan, committed, raced, uploads>>

Commits(parts) ==
    \/ /\ committed' = TRUE
       /\ exists' = FALSE /\ stored' = NoParts
       /\ object' = parts
       /\ pc' = "readBack"
       /\ UNCHANGED status
    \/ /\ pc' = "done" /\ Answer(500)
       /\ UNCHANGED <<exists, stored, object, committed>>

\* Mutant of Transaction: the upload is deleted before its chunks are moved, and
\* the cascade takes them.
TransactionDeletesFirst ==
    /\ pc = "transaction"
    /\ Commits(NoParts)
    /\ UNCHANGED <<taken, request, plan, moving, raced, uploads>>

\* The transaction: the chunks it has read and that are still there become the
\* object's, the upload is deleted if it is still there.  Affected rows are not
\* looked at, so only an error of the database makes it fail.
Transaction ==
    /\ pc = "transaction"
    /\ Commits(moving)
    /\ UNCHANGED <<taken, request, plan, moving, raced, uploads>>

\* GetObject of the new object, which others may have deleted.
ReadBack ==
    /\ pc = "readBack"
    /\ \/ pc' = "etagMatch" /\ UNCHANGED status
       \/ pc' = "done" /\ Answer(500)
    /\ UNCHANGED <<exists, stored, object, taken, request, completion, uploads>>

\* If-Match against the ETag of the new object.
ETagMatch ==
    /\ pc = "etagMatch"
    /\ IF ifMatch = "different"
       THEN pc' = "done" /\ Answer(412)
       ELSE pc' = "verify" /\ UNCHANGED status
    /\ UNCHANGED <<exists, stored, object, taken, request, completion, uploads>>

\* The parts listed in the body are decoded and compared with the parts the
\* upload has now (ListParts, 500 if it fails).
Verify ==
    /\ pc = "verify"
    /\ pc' = "done"
    /\ \/ Answer(IF listed = BadList THEN 400
                 ELSE IF \E p \in Parts : stored[p] # NoETag /\ listed[p] # stored[p] THEN 400
                 ELSE 200)
       \/ listed # BadList /\ Answer(500)
    /\ UNCHANGED <<exists, stored, object, taken, request, completion, uploads>>

TimeMatch ==
    /\ pc = "timeMatch"
    /\ IF initiated = "different"
       THEN pc' = "done" /\ Answer(412)
       ELSE pc' = "abort" /\ UNCHANGED status
    /\ UNCHANGED <<exists, stored, object, taken, request, completion, uploads>>

\* metadata.AbortMultipartUpload.
AbortMultipartUpload ==
    /\ pc = "abort"
    /\ pc' = "done"
    /\ \/ exists /\ exists' = FALSE /\ stored' = NoParts /\ Answer(204)
       \/ UNCHANGED <<exists, stored>> /\ Answer(500)
    /\ UNCHANGED <<object, taken, request, completion, uploads>>

\* Other clients: the object of the key is stored or deleted, a part is uploaded
\* (again), the upload is completed or aborted; its old chunk rows are deleted.
ObjectChanges ==
    /\ pc = "create" /\ uploads < MaxUploads
    /\ taken' = ~taken
    /\ uploads' = uploads + 1
    /\ UNCHANGED <<exists, stored, object, request, completion, pc, status>>

Loses(parts) ==
    /\ moving' = [p \in Parts |-> IF p \in parts THEN NoETag ELSE moving[p]]
    /\ raced' = IF pc \in {"readChunks", "transaction"} THEN raced \cup parts ELSE raced

PutPart(p, e) ==
    /\ pc # "done" /\ exists /\ kind # "CreateMultipartUpload" /\ uploads < MaxUploads
    /\ stored' = [stored EXCEPT ![p] = e]
    /\ Loses({p})
    /\ uploads' = uploads + 1
    /\ UNCHANGED <<exists, object, taken, request, plan, committed, pc, status>>

EndUpload ==
    /\ pc # "done" /\ exists /\ kind # "CreateMultipartUpload"
    /\ exists' = FALSE
    /\ stored' = NoParts
    /\ Loses(Parts)
    /\ UNCHANGED <<object, taken, request, plan, committed, pc, status, uploads>>

Handle ==
    \/ ObjectExists \/ CreateMultipartUpload
    \/ GetMultipartUpload \/ IfNoneMatch \/ BucketAndKeyMatch
    \/ ReadParts \/ ReadChunks \/ Transaction \/ ReadBack \/ ETagMatch \/ Verify
    \/ TimeMatch \/ AbortMultipartUpload

Next ==
    \/ Handle
    \/ \E p \in Parts, e \in ETags : PutPart(p, e)
    \/ EndUpload
    \/ ObjectChanges

-----------------------------------------------------------------------------
(***************************************************************************)
(* Properties.                                                             *)
(***************************************************************************)

\* A completion that answers 200 has committed its transaction, and every part it
\* has read is in the object with the ETag read, unless another client replaced
\* the part or ended the upload before the transaction (the loss is the subject of
\* ObjectStore's MultipartIsWhole), or the request was made with
\* "If-None-Match: *" (CompleteMultipartUpload).
OkIsAssembled ==
    kind = "CompleteMultipartUpload" /\ status = 200 /\ ~ifNoneMatch =>
        /\ committed
        /\ plan # NoParts
        /\ \A p \in Parts \ raced : object[p] = plan[p]
=============================================================================
