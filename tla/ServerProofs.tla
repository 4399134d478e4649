---------------------------- MODULE ServerProofs ----------------------------
(***************************************************************************)
(* What the answer to a request tells, and that a request changes only     *)
(* what it asks for, for any set of requests, keys, versions, parts and    *)
(* paths and any number of changes by other clients.                       *)
(***************************************************************************)
EXTENDS Server, FiniteSetTheorems, SequenceTheorems, WellFoundedInduction, TLAPS

\* A set of numbers has a smallest one.
LEMMA Smallest ==
    ASSUME NEW S, S \subseteq Nat, S # {}
    PROVE  \E i \in S : \A j \in S : i <= j
<1>1. IsWellFoundedOn(OpToRel(<, Nat), Nat)
  BY NatLessThanWellFounded
<1>2. PICK i \in S : \A j \in S : ~(<<j, i>> \in OpToRel(<, Nat))
  BY <1>1, WFMin
<1>3. \A j \in S : ~(j < i)
  BY <1>2 DEF OpToRel
<1> QED
  BY <1>3

\* A route table gives the handler of a parameter that the query has, or its
\* default if the query has none of them.
LEMMA DispatchFacts ==
    ASSUME NEW cases, DOMAIN cases \subseteq Nat, NEW default
    PROVE  \/ /\ Dispatch(cases, default) = default
              /\ \A i \in DOMAIN cases : cases[i][1] \notin http.query
           \/ \E i \in DOMAIN cases : cases[i][1] \in http.query /\ Dispatch(cases, default) = cases[i][2]
<1> DEFINE hits == {i \in DOMAIN cases : cases[i][1] \in http.query}
<1>1. CASE hits = {}
  BY <1>1 DEF Dispatch
<1>2. CASE hits # {}
  <2> DEFINE i == CHOOSE i \in hits : \A j \in hits : i <= j
  <2>1. i \in hits
    <3>1. \E m \in hits : \A j \in hits : m <= j
      BY <1>2, Smallest
    <3> QED
      BY <3>1
  <2>2. Dispatch(cases, default) = cases[i][2]
    BY <1>2 DEF Dispatch
  <2> QED
    BY <2>1, <2>2
<1> QED
  BY <1>1, <1>2

\* What the route functions have looked at when they choose a handler that
\* stores or removes something.
LEMMA RouteFacts ==
    /\ Route = "PutObject" => http.method = "PUT" /\ "uploadId" \notin http.query
    /\ Route = "DeleteObject" => http.method = "DELETE" /\ "uploadId" \notin http.query
    /\ Route = "DeleteObjects" => http.method = "POST" /\ "delete" \in http.query
    /\ Route = "CreateMultipartUpload" => http.method = "POST"
    /\ Route = "CompleteMultipartUpload" => http.method = "POST" /\ "uploadId" \in http.query
    /\ Route = "AbortMultipartUpload" => http.method = "DELETE" /\ "uploadId" \in http.query
<1>1. BucketPresentGet \in {"GetObjectTagging", "GetObjectAcl", "ListParts", "GetObject",
          "GetBucketLocation", "GetBucketTagging", "GetBucketAcl", "GetBucketEncryption",
          "ListMultipartUploads", "ListObjectsV2"}
  <2> DEFINE t1 == << <<"tagging", "GetObjectTagging">>, <<"acl", "GetObjectAcl">>,
                     <<"uploadId", "ListParts">> >>
             t2 == << <<"location", "GetBucketLocation">>, <<"tagging", "GetBucketTagging">>,
                     <<"acl", "GetBucketAcl">>, <<"encryption", "GetBucketEncryption">>,
                     <<"uploads", "ListMultipartUploads">> >>
  <2>1. Dispatch(t1, "GetObject") \in {"GetObjectTagging", "GetObjectAcl", "ListParts", "GetObject"}
    BY DispatchFacts
  <2>2. Dispatch(t2, "ListObjectsV2") \in {"GetBucketLocation", "GetBucketTagging", "GetBucketAcl",
          "GetBucketEncryption", "ListMultipartUploads", "ListObjectsV2"}
    BY DispatchFacts
  <2> QED
    BY <2>1, <2>2 DEF BucketPresentGet
<1>2. \/ BucketPresentPut \in {"none", "UploadPart"}
      \/ BucketPresentPut = "PutObject" /\ "uploadId" \notin http.query
  <2> DEFINE t == << <<"uploadId", "UploadPart">> >>
  <2>1. \/ Dispatch(t, "PutObject") = "UploadPart"
        \/ Dispatch(t, "PutObject") = "PutObject" /\ "uploadId" \notin http.query
    BY DispatchFacts
  <2> QED
    BY <2>1 DEF BucketPresentPut
<1>3. \/ BucketPresentDelete = "none"
      \/ BucketPresentDelete = "AbortMultipartUpload" /\ "uploadId" \in http.query
      \/ BucketPresentDelete = "DeleteObject" /\ "uploadId" \notin http.query
  <2> DEFINE t == << <<"uploadId", "AbortMultipartUpload">> >>
  <2>1. \/ Dispatch(t, "DeleteObject") = "AbortMultipartUpload" /\ "uploadId" \in http.query
        \/ Dispatch(t, "DeleteObject") = "DeleteObject" /\ "uploadId" \notin http.query
    BY DispatchFacts
  <2> QED
    BY <2>1 DEF BucketPresentDelete
<1>4. \/ BucketPresentPost \in {"none", "CreateMultipartUpload"}
      \/ BucketPresentPost = "DeleteObjects" /\ "delete" \in http.query
      \/ BucketPresentPost = "CompleteMultipartUpload" /\ "uploadId" \in http.query
  BY DispatchFacts DEF BucketPresentPost
<1>5. BucketPresentHead \in {"HeadObject", "HeadBucket"} /\ BucketsGet \in {"none", "ListBuckets"}
  BY DEF BucketPresentHead, BucketsGet
<1> HIDE DEF BucketPresentGet, BucketPresentHead, BucketPresentPut, BucketPresentPost, BucketPresentDelete
<1> QED
  BY <1>1, <1>2, <1>3, <1>4, <1>5 DEF Route
-----------------------------------------------------------------------------
(***************************************************************************)
(* The invariant.                                                          *)
(***************************************************************************)

\* The request came to its handler past the middleware and HandleRequest.
Admitted ==
    /\ stage \in {"middleware", "routing", "parsing", "handler", "elsewhere"}
    /\ stage \notin {"middleware", "handler"} => http.owner
    /\ stage = "handler" =>
          \/ http = NoHttp /\ Route = "notFound"
          \/ http.owner /\ http.host = "bucket" /\ (Route \in KeyRequired => http.key)
    /\ stage # "handler" => pc \in {"start", "done"}

\* The handlers' variables are of the request that was routed.
Routed ==
    /\ IF Route \in OH!Kinds THEN req.kind = Route ELSE req.kind = "GetObject"
    /\ IF Route \in MH!Kinds THEN kind = Route ELSE kind = "AbortMultipartUpload"
    /\ (page # "static") => http = NoHttp /\ stage = "handler"

\* DeleteObject destroys what it has read, removes once and then answers; while
\* nobody else changes the object, it is the version the headers were evaluated
\* against.  DeleteObjects removes at most once while nobody else changes it.
ObjectOK ==
    /\ req \in ObjectRequests
    /\ objects \in [Keys -> Versions \cup {OH!Gone}]
    /\ next \in Nat
    /\ removed \in Seq(Keys \X (Versions \cup {OH!Gone}))
    /\ pc = "delete" => req.kind = "DeleteObject"
    /\ pc = "batch" => req.kind = "DeleteObjects"
    /\ pc \in {"chunks", "row"} => req.kind \in {"DeleteObject", "DeleteObjects"}
    /\ req.kind = "DeleteObject" /\ pc # "done" =>
          /\ removed = <<>>
          /\ destroyed = IF pc = "row" THEN {target} ELSE {}
          /\ ~stale /\ pc \in {"evaluate", "delete", "chunks", "row"} => objects[req.key] = seen
          /\ ~stale /\ pc \in {"chunks", "row"} => target = seen
    /\ req.kind = "DeleteObjects" /\ pc # "done" =>
          /\ pc = "start" => removed = <<>>
          /\ deleted # <<>> => removed # <<>>
          /\ ~stale => Len(removed) <= 1
          /\ ~stale /\ removed # <<>> => objects[req.key] = OH!Gone
    /\ OH!AnswerTellsEffect

\* Where a completion stands, that it has no status yet, and which of the parts
\* it has read are as they were.
UploadOK ==
    /\ stored \in MH!Lists
    /\ pc = "create" => kind = "CreateMultipartUpload"
    /\ pc = "match" => kind # "CreateMultipartUpload"
    /\ pc \in {"ifNoneMatch", "complete", "readChunks", "transaction", "readBack", "etagMatch", "verify"} =>
          kind = "CompleteMultipartUpload"
    /\ pc \in {"timeMatch", "abort"} => kind = "AbortMultipartUpload"
    /\ (kind = "CompleteMultipartUpload" /\ ~ifNoneMatch /\ pc # "done") => status = 0
    /\ pc = "readChunks" => plan # MH!NoParts /\ \A p \in Parts \ raced : stored[p] = plan[p]
    /\ pc = "transaction" => plan # MH!NoParts /\ \A p \in Parts \ raced : moving[p] = plan[p]
    /\ pc \in {"readBack", "etagMatch", "verify"} =>
          committed /\ plan # MH!NoParts /\ \A p \in Parts \ raced : object[p] = plan[p]
    /\ MH!OkIsAssembled

\* A form has had its effect once it lists the buckets.
FormOK ==
    /\ page \in D!Pages
    /\ page \in {"create", "delete"} =>
          /\ pc \in {"start", "listing", "fallback", "render", "done"}
          /\ pc = "start" => effect = "none"
          /\ pc \in {"listing", "fallback", "render"} => effect # "none"
    /\ D!FormTellsEffect

IndInv == Admitted /\ Routed /\ ObjectOK /\ UploadOK /\ FormOK

-----------------------------------------------------------------------------
\* Every request starts without an effect.
LEMMA InitInv == Init => IndInv
<1> SUFFICES ASSUME Init PROVE IndInv
  OBVIOUS
<1>1. pc = "start" /\ status = 0
  BY DEF Init, ObjectInit, OH!Init
<1>2. Admitted
  BY <1>1 DEF Init, ToS3, ToDashboard, Admitted, Route, NoHttp
<1>3. Routed
  <2>1. /\ Route \in OH!Kinds => req.kind = Route
        /\ Route \notin OH!Kinds => req.kind = "GetObject"
    BY ReadAssumption DEF Init, ObjectInit
  <2>2. /\ Route \in MH!Kinds => kind = Route
        /\ Route \notin MH!Kinds => kind = "AbortMultipartUpload"
    BY DEF Init, UploadInit
  <2>3. page # "static" => http = NoHttp /\ stage = "handler"
    BY DEF Init, ToS3, ToDashboard
  <2> QED
    BY <2>1, <2>2, <2>3 DEF Routed
<1>4. ObjectOK
  BY <1>1 DEF Init, ObjectInit, OH!Init, ObjectOK, OH!AnswerTellsEffect, OH!DeleteTellsEffect, OH!BatchTellsEffect
<1>5. UploadOK
  <2>1. stored \in MH!Lists
    BY DEF Init, UploadInit, MH!Init, MH!NoParts, MH!Lists
  <2> QED
    BY <1>1, <2>1 DEF UploadOK, MH!OkIsAssembled
<1>6. FormOK
  BY <1>1 DEF Init, ToS3, ToDashboard, D!Init, FormOK, D!FormTellsEffect, D!Pages
<1> QED
  BY <1>2, <1>3, <1>4, <1>5, <1>6 DEF IndInv

\* A request keeps its route.
LEMMA SameRoute == ASSUME UNCHANGED http PROVE UNCHANGED Route
BY DEF Route, BucketsGet, BucketPresentGet, BucketPresentHead, BucketPresentPut, BucketPresentPost,
       BucketPresentDelete, Dispatch

\* The middleware, the routes, HandleRequest and the lookups of a bucket answer
\* or pass the request on, and touch nothing else.
LEMMA MiddlewareInv == ASSUME IndInv, Middleware PROVE IndInv'
<1>1. UNCHANGED handlerVars /\ pc = "start"
  BY DEF Middleware, RequireSigV4, Routes, HandleRequest, GetBucket, GetBucketTagging
<1>2. UNCHANGED Route
  BY <1>1, SameRoute DEF handlerVars
<1>3. page = "static"
  BY DEF IndInv, Routed, Middleware, RequireSigV4, Routes, HandleRequest, GetBucket, GetBucketTagging,
         S3Handler
<1>4. \/ UNCHANGED <<pc, status>>
      \/ pc' = "done" /\ status' # 200
      \/ pc' = "done" /\ Route \notin OH!Kinds \cup MH!Kinds
  <2>1. CASE RequireSigV4
    BY <2>1 DEF RequireSigV4, Answer
  <2>2. CASE Routes
    BY <2>2 DEF Routes, Answer
  <2>3. CASE HandleRequest
    BY <2>3 DEF HandleRequest, Answer
  <2>4. CASE GetBucket \/ GetBucketTagging
    BY <2>4 DEF GetBucket, GetBucketTagging, S3Handler, Answer, BucketLookups, OH!Kinds, MH!Kinds
  <2> QED
    BY <2>1, <2>2, <2>3, <2>4 DEF Middleware
<1>5. Admitted'
  <2>1. CASE RequireSigV4
    BY <1>1, <1>2, <2>1 DEF RequireSigV4, Answer, IndInv, Admitted, handlerVars
  <2>2. CASE Routes
    BY <1>1, <1>2, <2>2 DEF Routes, Answer, IndInv, Admitted, handlerVars
  <2>3. CASE HandleRequest
    BY <1>1, <1>2, <2>3 DEF HandleRequest, Refused, Answer, IndInv, Admitted, handlerVars
  <2>4. CASE GetBucket \/ GetBucketTagging
    BY <1>1, <1>2, <2>4 DEF GetBucket, GetBucketTagging, S3Handler, Answer, IndInv, Admitted, handlerVars
  <2> QED
    BY <2>1, <2>2, <2>3, <2>4 DEF Middleware
<1>6. Routed'
  BY <1>1, <1>2, <1>3 DEF IndInv, Routed, handlerVars, objectVars, uploadVars, dashboardVars
<1>7. ObjectOK'
  BY <1>1, <1>4 DEF IndInv, Routed, ObjectOK, OH!AnswerTellsEffect, OH!DeleteTellsEffect, OH!BatchTellsEffect, handlerVars, objectVars, OH!Kinds
<1>8. UploadOK'
  BY <1>1, <1>4 DEF IndInv, Routed, UploadOK, MH!OkIsAssembled, MH!NoParts, MH!Lists, handlerVars, uploadVars, MH!Kinds
<1>9. FormOK'
  BY <1>1, <1>3 DEF IndInv, FormOK, D!FormTellsEffect, handlerVars, dashboardVars
<1> QED
  BY <1>5, <1>6, <1>7, <1>8, <1>9 DEF IndInv

\* What the other handlers may rely on when one of them runs.
LEMMA Frames ==
    ASSUME IndInv
    PROVE  /\ S3Handler(OH!Kinds \cup MH!Kinds) => page = "static"
           /\ S3Handler(OH!Kinds) => kind = "AbortMultipartUpload"
           /\ S3Handler(MH!Kinds) => req.kind = "GetObject"
           /\ http = NoHttp => kind = "AbortMultipartUpload" /\ req.kind = "GetObject"
<1>1. http = NoHttp => Route = "notFound"
  BY DEF Route, NoHttp
<1> QED
  BY <1>1 DEF IndInv, Routed, S3Handler, OH!Kinds, MH!Kinds

\* A sequence with an element appended.
LEMMA AppendFacts ==
    ASSUME NEW S, NEW s \in Seq(S), NEW e \in S
    PROVE  Append(s, e) \in Seq(S) /\ Append(s, e) # <<>> /\ Len(Append(s, e)) = Len(s) + 1
           /\ Append(s, e) # s
<1>1. Append(s, e) \in Seq(S) /\ Len(Append(s, e)) = Len(s) + 1 /\ Len(s) \in Nat
  OBVIOUS
<1> QED
  BY <1>1

\* A step of a request on objects, or of another client that changes them.
LEMMA ObjectInv == ASSUME IndInv, RunsObject, OH!Next PROVE IndInv'
<1>1. UNCHANGED <<stage, http, Route, uploadVars, dashboardVars>> /\ S3Handler(OH!Kinds)
  BY SameRoute DEF RunsObject
<1>2. page = "static" /\ kind = "AbortMultipartUpload"
  BY <1>1, Frames DEF S3Handler
<1>3. UNCHANGED req
  BY DEF OH!Next, OH!Handle, OH!PartNotFound, OH!Read, OH!Evaluate, OH!GetObjectAcl, OH!PutObject,
         OH!EvaluateDelete, OH!FetchMetadata, OH!DeleteChunks, OH!DeleteRow, OH!ReadBatch,
         OH!DeleteObjectsEnd, OH!Change
<1>4. Admitted' /\ Routed'
  BY <1>1, <1>3 DEF IndInv, Admitted, Routed, S3Handler, uploadVars, dashboardVars
<1>5. ObjectOK'
  <2> DEFINE row == <<req.key, objects[req.key]>>
  <2>1. /\ req.key \in Keys
        /\ row \in Keys \X (Versions \cup {OH!Gone})
    BY ObjectRequestsAssumption DEF IndInv, ObjectOK
  <2>2. /\ Append(removed, row) \in Seq(Keys \X (Versions \cup {OH!Gone}))
        /\ Append(removed, row) # <<>>
        /\ removed = <<>> => Append(removed, row) = <<row>> /\ Len(Append(removed, row)) = 1
    <3> DEFINE S == Keys \X (Versions \cup {OH!Gone})
    <3>1. removed \in Seq(S) /\ row \in S
      BY <2>1 DEF IndInv, ObjectOK
    <3> HIDE DEF S, row
    <3>2. Append(removed, row) \in Seq(S) /\ Append(removed, row) # <<>>
      BY <3>1, AppendFacts
    <3>3. removed = <<>> => Append(removed, row) = <<row>> /\ Len(Append(removed, row)) = 1
      BY <3>1, AppendFacts
    <3> QED
      BY <3>2, <3>3 DEF S
  <2>3. OH!Gone \in Versions \cup {OH!Gone} /\ next + 1 \in Nat
    BY DEF IndInv, ObjectOK
  <2> HIDE DEF row
  <2> USE <1>3 DEF IndInv, ObjectOK, OH!AnswerTellsEffect, OH!DeleteTellsEffect,
         OH!BatchTellsEffect, OH!Answer, OH!history
  <2>4. CASE OH!PartNotFound
    BY <2>4 DEF OH!PartNotFound
  <2>5. CASE OH!Read
    BY <2>5 DEF OH!Read
  <2>6. CASE OH!Evaluate \/ OH!GetObjectAcl
    BY <2>6 DEF OH!Evaluate, OH!GetObjectAcl
  <2>7. CASE OH!PutObject
    BY <2>1, <2>7 DEF OH!PutObject
  <2>8. CASE OH!EvaluateDelete
    BY <2>8 DEF OH!EvaluateDelete, OH!EvalDelete
  <2>9. CASE OH!FetchMetadata
    BY <2>3, <2>9 DEF OH!FetchMetadata, OH!Deleting, OH!Fails
  <2>10. CASE OH!DeleteChunks
    BY <2>3, <2>10 DEF OH!DeleteChunks, OH!Fails
  <2>11. CASE OH!DeleteRow
    <3>1. CASE OH!Remove /\ OH!Succeeds
      <4>1. removed' = Append(removed, row) /\ objects' \in [Keys -> Versions \cup {OH!Gone}]
        BY <2>1, <2>3, <3>1 DEF OH!Remove, row
      <4>2. objects[req.key] # OH!Gone /\ objects'[req.key] = OH!Gone
        BY <2>1, <3>1 DEF OH!Remove
      <4>3. CASE req.kind = "DeleteObject"
        BY <2>1, <2>2, <2>3, <2>11, <3>1, <4>1, <4>3 DEF OH!DeleteRow, OH!Succeeds, row
      <4>4. CASE req.kind = "DeleteObjects"
        <5>1. removed' \in Seq(Keys \X (Versions \cup {OH!Gone})) /\ removed' # <<>>
              /\ (~stale => Len(removed') <= 1)
          BY <2>2, <2>11, <4>1, <4>2, <4>4 DEF OH!DeleteRow
        <5> QED
          BY <2>3, <2>11, <3>1, <4>1, <4>2, <4>4, <5>1 DEF OH!DeleteRow, OH!Succeeds
      <4> QED
        BY <2>11, <4>3, <4>4 DEF OH!DeleteRow
    <3>2. CASE UNCHANGED <<objects, removed>> /\ OH!Fails
      BY <2>3, <2>11, <3>2 DEF OH!DeleteRow, OH!Fails
    <3> QED
      BY <2>11, <3>1, <3>2 DEF OH!DeleteRow
  <2>12. CASE OH!ReadBatch
    BY <2>12 DEF OH!ReadBatch
  <2>13. CASE OH!DeleteObjectsEnd
    BY <2>13 DEF OH!DeleteObjectsEnd
  <2>14. ASSUME NEW k \in Keys, NEW v \in Versions \cup {OH!Gone}, OH!Change(k, v)
         PROVE  ObjectOK'
    <3>1. \/ stale'
          \/ ~stale /\ (k # req.key \/ pc = "start")
      BY <2>14, Zenon DEF OH!Change
    <3>2. k # req.key => objects'[req.key] = objects[req.key]
      BY <2>1, <2>14 DEF OH!Change
    <3>3. objects' \in [Keys -> Versions \cup {OH!Gone}] /\ pc # "done"
      BY <2>14 DEF OH!Change
    <3>4. UNCHANGED <<pc, seen, target, next, deleted, removed, destroyed, status>>
      BY <2>14 DEF OH!Change
    <3> QED
      BY <3>1, <3>2, <3>3, <3>4
  <2> QED
    BY <2>4, <2>5, <2>6, <2>7, <2>8, <2>9, <2>10, <2>11, <2>13, <2>14, <2>12 DEF OH!Next, OH!Handle
<1>6. pc' \in {pc, "done", "evaluate", "delete", "chunks", "row", "batch"}
  BY DEF OH!Next, OH!Handle, OH!PartNotFound, OH!Read, OH!Evaluate, OH!GetObjectAcl, OH!PutObject,
         OH!EvaluateDelete, OH!FetchMetadata, OH!DeleteChunks, OH!DeleteRow, OH!ReadBatch,
         OH!DeleteObjectsEnd, OH!Change, OH!Fails, OH!Succeeds, OH!Answer
<1>7. UploadOK'
  BY <1>1, <1>2, <1>6 DEF IndInv, UploadOK, MH!OkIsAssembled, MH!NoParts, uploadVars
<1>8. FormOK'
  BY <1>1, <1>2 DEF IndInv, FormOK, D!FormTellsEffect, dashboardVars
<1> QED
  BY <1>4, <1>5, <1>7, <1>8 DEF IndInv

\* A step of a request on a multipart upload, or of another client.
LEMMA UploadInv == ASSUME IndInv, RunsUpload, MH!Next PROVE IndInv'
<1>1. UNCHANGED <<stage, http, Route, objectVars, dashboardVars>> /\ S3Handler(MH!Kinds)
  BY SameRoute DEF RunsUpload
<1>2. page = "static" /\ req.kind = "GetObject"
  BY <1>1, Frames DEF S3Handler
<1>3. UNCHANGED MH!request
  BY DEF MH!Next, MH!Handle, MH!ObjectExists, MH!CreateMultipartUpload, MH!GetMultipartUpload,
         MH!IfNoneMatch, MH!BucketAndKeyMatch, MH!ReadParts, MH!ReadChunks, MH!Transaction, MH!Commits,
         MH!ReadBack, MH!ETagMatch, MH!Verify, MH!TimeMatch, MH!AbortMultipartUpload, MH!PutPart, MH!EndUpload, MH!ObjectChanges
<1>4. Admitted' /\ Routed'
  BY <1>1, <1>3 DEF IndInv, Admitted, Routed, S3Handler, objectVars, dashboardVars, MH!request
<1>5. UNCHANGED MH!NoParts
  BY DEF MH!NoParts
<1>6. UploadOK'
  <2>0. MH!NoParts \in MH!Lists /\ stored \in MH!Lists
    BY DEF MH!NoParts, MH!Lists, IndInv, UploadOK
  <2> USE <1>3, <1>5 DEF IndInv, UploadOK, MH!OkIsAssembled, MH!Answer, MH!request, MH!completion
  <2> HIDE DEF MH!NoParts
  <2>1. CASE MH!ObjectExists
    BY <2>1 DEF MH!ObjectExists
  <2>2. CASE MH!CreateMultipartUpload
    BY <2>2 DEF MH!CreateMultipartUpload
  <2>3. CASE MH!GetMultipartUpload
    BY <2>3 DEF MH!GetMultipartUpload
  <2>4. CASE MH!IfNoneMatch
    BY <2>4 DEF MH!IfNoneMatch
  <2>5. CASE MH!BucketAndKeyMatch
    BY <2>5 DEF MH!BucketAndKeyMatch, Routed, MH!Kinds
  <2>6. CASE MH!ReadParts
    BY <2>6 DEF MH!ReadParts
  <2>7. CASE MH!ReadChunks
    BY <2>7 DEF MH!ReadChunks
  <2>8. CASE MH!Transaction
    BY <2>0, <2>8 DEF MH!Transaction, MH!Commits
  <2>9. CASE MH!ReadBack
    BY <2>9 DEF MH!ReadBack
  <2>10. CASE MH!ETagMatch
    BY <2>10 DEF MH!ETagMatch
  <2>11. CASE MH!Verify
    BY <2>11 DEF MH!Verify
  <2>12. CASE MH!TimeMatch
    BY <2>12 DEF MH!TimeMatch
  <2>13. CASE MH!AbortMultipartUpload
    BY <2>0, <2>13 DEF MH!AbortMultipartUpload
  <2>14. ASSUME NEW p \in Parts, NEW e \in ETags, MH!PutPart(p, e)
         PROVE  UploadOK'
    <3>1. /\ stored' \in MH!Lists
          /\ \A q \in Parts \ {p} : stored'[q] = stored[q] /\ moving'[q] = moving[q]
      BY <2>0, <2>14 DEF MH!PutPart, MH!Loses, MH!Lists
    <3>2. pc \in {"readChunks", "transaction"} => p \in raced' /\ raced \subseteq raced'
      BY <2>14 DEF MH!PutPart, MH!Loses
    <3>3. pc \notin {"readChunks", "transaction"} => raced' = raced
      BY <2>14 DEF MH!PutPart, MH!Loses
    <3>4. UNCHANGED <<pc, status, plan, committed, object>>
      BY <2>14 DEF MH!PutPart
    <3> QED
      BY <2>14, <3>1, <3>2, <3>3, <3>4 DEF MH!PutPart
  <2>15. CASE MH!EndUpload
    <3>1. pc \in {"readChunks", "transaction"} => Parts \ raced' = {}
      BY <2>15 DEF MH!EndUpload, MH!Loses
    <3>2. pc \notin {"readChunks", "transaction"} => raced' = raced
      BY <2>15 DEF MH!EndUpload, MH!Loses
    <3> QED
      BY <2>0, <2>15, <3>1, <3>2 DEF MH!EndUpload
  <2>16. CASE MH!ObjectChanges
    BY <2>16 DEF MH!ObjectChanges
  <2> QED
    BY <2>1, <2>2, <2>3, <2>4, <2>5, <2>6, <2>7, <2>8, <2>9, <2>10, <2>11, <2>12, <2>13, <2>14,
       <2>15, <2>16 DEF MH!Next, MH!Handle
<1>7. pc' \in {pc, "create", "done", "ifNoneMatch", "match", "complete", "readChunks", "transaction",
               "readBack", "timeMatch", "etagMatch", "verify", "abort"}
  <2>1. CASE MH!ObjectExists \/ MH!CreateMultipartUpload \/ MH!GetMultipartUpload \/ MH!IfNoneMatch
    BY <2>1 DEF MH!ObjectExists, MH!CreateMultipartUpload, MH!GetMultipartUpload, MH!IfNoneMatch
  <2>2. CASE MH!BucketAndKeyMatch \/ MH!TimeMatch \/ MH!AbortMultipartUpload
    BY <2>2 DEF MH!BucketAndKeyMatch, MH!TimeMatch, MH!AbortMultipartUpload
  <2>3. CASE MH!ReadParts \/ MH!ReadChunks \/ MH!Transaction
    BY <2>3 DEF MH!ReadParts, MH!ReadChunks, MH!Transaction, MH!Commits
  <2>4. CASE MH!ReadBack \/ MH!ETagMatch \/ MH!Verify
    BY <2>4 DEF MH!ReadBack, MH!ETagMatch, MH!Verify
  <2>5. CASE (\E p \in Parts, e \in ETags : MH!PutPart(p, e)) \/ MH!EndUpload \/ MH!ObjectChanges
    BY <2>5 DEF MH!PutPart, MH!EndUpload, MH!ObjectChanges
  <2> QED
    BY <2>1, <2>2, <2>3, <2>4, <2>5 DEF MH!Next, MH!Handle
<1>8. ObjectOK'
  BY <1>1, <1>2, <1>7 DEF IndInv, ObjectOK, OH!AnswerTellsEffect, OH!DeleteTellsEffect, OH!BatchTellsEffect, OH!Gone, objectVars
<1>9. FormOK'
  BY <1>1, <1>2 DEF IndInv, FormOK, D!FormTellsEffect, dashboardVars
<1> QED
  BY <1>4, <1>6, <1>8, <1>9 DEF IndInv

\* No step of the dashboard changes the request.
LEMMA DashboardFrame == ASSUME D!Next PROVE UNCHANGED <<page, path>>
BY DEF D!Next, D!Handle, D!StaticPage, D!ListBucketsWithStats, D!ListBuckets, D!Render, D!CreateBucket,
       D!DeleteBucket, D!BucketsFragment, D!Browse, D!RowsRead, D!SkipMarker, D!AddDirectory,
       D!GetChunks, D!GetShards, D!BrowseDone, D!Ping, D!Tick, D!ContextDone, D!BrowseFails,
       D!ClientLeaves, D!OthersBegin, D!OthersCommit, D!request

\* A step of a request to the dashboard, or of another client.
LEMMA DashboardInv == ASSUME IndInv, RunsDashboard, D!Next PROVE IndInv'
<1>1. UNCHANGED <<stage, http, Route, objectVars, uploadVars>> /\ http = NoHttp /\ stage = "handler"
  BY SameRoute DEF RunsDashboard
<1>2. kind = "AbortMultipartUpload" /\ req.kind = "GetObject"
  BY <1>1, Frames
<1>3. UNCHANGED page
  BY DashboardFrame
<1>4. Admitted' /\ Routed'
  BY <1>1, <1>3 DEF IndInv, Admitted, Routed, objectVars, uploadVars
<1>5. pc' \in {pc, "done", "fallback", "render", "listing", "rows", "loop", "shards", "select", "ping"}
  BY DEF D!Next, D!Handle, D!StaticPage, D!ListBucketsWithStats, D!ListBuckets, D!Render, D!CreateBucket,
         D!DeleteBucket, D!BucketsFragment, D!Browse, D!RowsRead, D!SkipMarker, D!AddDirectory,
         D!GetChunks, D!GetShards, D!BrowseDone, D!Ping, D!Tick, D!ContextDone, D!BrowseFails,
         D!ClientLeaves, D!OthersBegin, D!OthersCommit, D!answer, D!Answer
<1>6. ObjectOK'
  BY <1>1, <1>2, <1>5 DEF IndInv, ObjectOK, OH!AnswerTellsEffect, OH!DeleteTellsEffect, OH!BatchTellsEffect, OH!Gone, objectVars
<1>7. UploadOK'
  BY <1>1, <1>2, <1>5 DEF IndInv, UploadOK, MH!OkIsAssembled, MH!NoParts, uploadVars
<1>8. FormOK'
  <2> USE <1>3 DEF IndInv, FormOK, D!FormTellsEffect, D!Answer
  <2>1. CASE D!CreateBucket \/ D!DeleteBucket
    BY <2>1 DEF D!CreateBucket, D!DeleteBucket
  <2>2. CASE D!ListBuckets \/ D!Render \/ D!BucketsFragment
    BY <2>2 DEF D!ListBuckets, D!Render, D!BucketsFragment
  <2>3. CASE D!StaticPage \/ D!ListBucketsWithStats \/ D!Browse \/ D!Ping \/ D!BrowseFails
    BY <2>3 DEF D!StaticPage, D!ListBucketsWithStats, D!Browse, D!Ping, D!BrowseFails
  <2>4. CASE D!RowsRead \/ D!SkipMarker \/ D!AddDirectory \/ D!GetChunks \/ D!GetShards \/ D!BrowseDone
    BY <2>4 DEF D!RowsRead, D!SkipMarker, D!AddDirectory, D!GetChunks, D!GetShards, D!BrowseDone
  <2>5. CASE D!Tick \/ D!ContextDone
    BY <2>5 DEF D!Tick, D!ContextDone
  <2>6. CASE D!ClientLeaves \/ D!OthersBegin \/ D!OthersCommit
    BY <2>6 DEF D!ClientLeaves, D!OthersBegin, D!OthersCommit, D!answer
  <2> QED
    BY <2>1, <2>2, <2>3, <2>4, <2>5, <2>6 DEF D!Next, D!Handle
<1> QED
  BY <1>4, <1>6, <1>7, <1>8 DEF IndInv

\* Every step of the program keeps the invariant.
LEMMA NextInv == IndInv /\ [Next]_vars => IndInv'
<1> SUFFICES ASSUME IndInv, [Next]_vars PROVE IndInv'
  OBVIOUS
<1>1. CASE UNCHANGED vars
  <2>1. UNCHANGED Route
    BY <1>1, SameRoute DEF vars
  <2>2. Admitted' /\ Routed'
    BY <1>1, <2>1 DEF vars, objectVars, uploadVars, dashboardVars, IndInv, Admitted, Routed
  <2>3. ObjectOK'
    BY <1>1 DEF vars, objectVars, IndInv, ObjectOK, OH!AnswerTellsEffect, OH!DeleteTellsEffect, OH!BatchTellsEffect
  <2>4. UploadOK'
    BY <1>1 DEF vars, uploadVars, IndInv, UploadOK, MH!OkIsAssembled
  <2>5. FormOK'
    BY <1>1 DEF vars, dashboardVars, IndInv, FormOK, D!FormTellsEffect
  <2> QED
    BY <2>2, <2>3, <2>4, <2>5 DEF IndInv
<1> QED
  BY <1>1, MiddlewareInv, ObjectInv, UploadInv, DashboardInv DEF Next, Terminated

-----------------------------------------------------------------------------
\* The inductive invariant holds of every state of a request.
THEOREM Invariance == Spec => []IndInv
BY InitInv, NextInv, PTL DEF Spec

\* The answers to DeleteObject, to DeleteObjects (of the object of its path) and to
\* the dashboard's forms tell what the request did to rows, shards and buckets, for
\* any requests, versions and changes by others.
THEOREM AnswerTellsEffectAlways == Spec => []AnswerTellsEffect
<1>1. IndInv => AnswerTellsEffect
  BY DEF IndInv, ObjectOK, FormOK, AnswerTellsEffect
<1> QED
  BY Invariance, <1>1, PTL

\* A completion that answers 200 has committed and assembled every part it has
\* read that nobody replaced or dropped before its transaction, unless it was
\* asked with "If-None-Match: *", whatever others do with the upload meanwhile.
THEOREM OkIsAssembledAlways == Spec => []OkIsAssembled
<1>1. IndInv => OkIsAssembled
  BY DEF IndInv, UploadOK, OkIsAssembled
<1> QED
  BY Invariance, <1>1, PTL

\* The property of EffectIsAsked, of one step.
Asked ==
    Own /\ (objects' # objects \/ Removes \/ exists' # exists \/ object' # object) =>
        /\ http.owner /\ http.host = "bucket" /\ http.key
        /\ http.method \notin {"GET", "HEAD"}
        /\ "uploadId" \in http.query =>
                ~Stores /\ (Removes => "delete" \in http.query /\ http.method = "POST")
        /\ EndsUpload => "uploadId" \in http.query
        /\ Removes => http.method = "DELETE" \/ "delete" \in http.query

\* Only these steps of a request change an object or an upload.
LEMMA AskedStep == IndInv /\ [Next]_vars => [Asked]_vars
<1> SUFFICES ASSUME IndInv, Next PROVE Asked
  OBVIOUS
<1> USE DEF Asked, Removes
<1>1. CASE Middleware
  BY <1>1 DEF Middleware, RequireSigV4, Routes, HandleRequest, GetBucket, GetBucketTagging, handlerVars,
              objectVars, uploadVars
<1>2. CASE RunsDashboard \/ Terminated
  BY <1>2 DEF RunsDashboard, Terminated, vars, objectVars, uploadVars
<1>3. ASSUME S3Handler(OH!Kinds \cup MH!Kinds)
      PROVE  /\ http.owner /\ http.host = "bucket" /\ http.key
             /\ req.kind # "GetObject" => req.kind = Route
             /\ kind # "AbortMultipartUpload" => kind = Route
  BY <1>3 DEF S3Handler, IndInv, Admitted, Routed, KeyRequired
<1>4. CASE RunsObject /\ OH!Next
  <2>1. UNCHANGED <<exists, object>> /\ S3Handler(OH!Kinds)
    BY <1>4 DEF RunsObject, uploadVars
  <2>2. CASE OH!PutObject
    BY <1>3, <2>1, <2>2, RouteFacts DEF OH!PutObject, OH!history, S3Handler, Stores, EndsUpload
  <2>3. OH!Remove => removed' # removed
    <3>1. <<req.key, objects[req.key]>> \in Keys \X (Versions \cup {OH!Gone})
      BY ObjectRequestsAssumption DEF IndInv, ObjectOK
    <3> QED
      BY <3>1, AppendFacts DEF IndInv, ObjectOK, OH!Remove
  <2>4. CASE OH!DeleteChunks \/ OH!DeleteRow
    <3>1. req.kind = Route /\ Route \in {"DeleteObject", "DeleteObjects"}
      BY <1>3, <2>1, <2>4 DEF OH!DeleteChunks, OH!DeleteRow, S3Handler, IndInv, ObjectOK
    <3>2. ~Stores
      BY <2>3, <2>4 DEF OH!DeleteChunks, OH!DeleteRow, Stores
    <3> QED
      BY <1>3, <2>1, <3>1, <3>2, RouteFacts DEF S3Handler, EndsUpload
  <2>5. CASE UNCHANGED <<objects, removed, destroyed>>
    BY <2>1, <2>5
  <2>6. CASE UNCHANGED <<pc, next>>
    BY <2>6 DEF Own
  <2> QED
    BY <1>4, <2>2, <2>4, <2>5, <2>6 DEF OH!Next, OH!Handle, OH!PartNotFound, OH!Read, OH!Evaluate,
         OH!GetObjectAcl, OH!EvaluateDelete, OH!FetchMetadata, OH!ReadBatch, OH!DeleteObjectsEnd, OH!Change,
         OH!history
<1>5. CASE RunsUpload /\ MH!Next
  <2>1. UNCHANGED <<objects, removed, destroyed, next>> /\ S3Handler(MH!Kinds)
    BY <1>5 DEF RunsUpload, objectVars
  <2>2. Route = kind /\ ~Stores /\ ~Removes
    BY <2>1 DEF S3Handler, IndInv, Routed, Stores
  <2>3. CASE MH!CreateMultipartUpload
    BY <1>3, <2>1, <2>2, <2>3, RouteFacts DEF MH!CreateMultipartUpload, S3Handler, EndsUpload, IndInv, UploadOK
  <2>4. CASE MH!Transaction
    BY <1>3, <2>1, <2>2, <2>4, RouteFacts DEF MH!Transaction, S3Handler, IndInv, UploadOK
  <2>5. CASE MH!AbortMultipartUpload
    BY <1>3, <2>1, <2>2, <2>5, RouteFacts DEF MH!AbortMultipartUpload, S3Handler, IndInv, UploadOK
  <2>6. CASE UNCHANGED <<exists, object>>
    BY <2>1, <2>6
  <2>7. CASE UNCHANGED pc
    BY <2>1, <2>7 DEF Own
  <2> QED
    BY <1>5, <2>3, <2>4, <2>5, <2>6, <2>7 DEF MH!Next, MH!Handle, MH!ObjectExists, MH!GetMultipartUpload,
         MH!IfNoneMatch, MH!BucketAndKeyMatch, MH!ReadParts, MH!ReadChunks, MH!ReadBack, MH!ETagMatch,
         MH!Verify, MH!TimeMatch, MH!PutPart, MH!EndUpload, MH!ObjectChanges
<1> QED
  BY <1>1, <1>2, <1>4, <1>5 DEF Next

\* What a request changes is what it asks for: neither the routes nor the order
\* of HandleRequest's refusals lets another request come to a handler that
\* stores, removes or ends an upload.
THEOREM EffectIsAskedAlways == Spec => EffectIsAsked
<1>1. IndInv /\ [Next]_vars => [Asked]_vars
  BY AskedStep
<1> QED
  BY Invariance, <1>1, PTL DEF Spec, EffectIsAsked, Asked

-----------------------------------------------------------------------------
(***************************************************************************)
(* The rows of ListObjects.                                                *)
(***************************************************************************)
\* Where below[k] are the elements before k in a total order of S, their number
\* tells the elements apart, and every number occurs.
LEMMA Ranks ==
    ASSUME NEW S, IsFiniteSet(S), NEW below \in [S -> SUBSET S],
           \A k \in S : k \notin below[k],
           \A k, l \in S : l \in below[k] => below[l] \subseteq below[k],
           \A k, l \in S : k = l \/ k \in below[l] \/ l \in below[k]
    PROVE  /\ Cardinality(S) \in Nat
           /\ \A k \in S : Cardinality(below[k]) \in 0 .. Cardinality(S) - 1
           /\ \A k, l \in S : Cardinality(below[k]) = Cardinality(below[l]) => k = l
           /\ \A i \in 0 .. Cardinality(S) - 1 : \E k \in S : Cardinality(below[k]) = i
<1> DEFINE n == Cardinality(S)
           rank == [k \in S |-> Cardinality(below[k])]
<1>1. n \in Nat
  BY FS_CardinalityType
<1>2. ASSUME NEW k \in S PROVE IsFiniteSet(below[k]) /\ Cardinality(below[k]) \in 0 .. n - 1
  <2>1. below[k] \in SUBSET S /\ below[k] # S
    OBVIOUS
  <2>2. IsFiniteSet(below[k]) /\ Cardinality(below[k]) <= n /\ Cardinality(below[k]) # n
    BY <2>1, FS_Subset
  <2>3. Cardinality(below[k]) \in Nat
    BY <2>2, FS_CardinalityType
  <2> HIDE DEF n
  <2> QED
    BY <1>1, <2>2, <2>3
<1>3. ASSUME NEW k \in S, NEW l \in S, l \in below[k]
      PROVE  Cardinality(below[l]) # Cardinality(below[k])
  <2>1. below[l] \in SUBSET below[k] /\ below[l] # below[k]
    BY <1>3
  <2> QED
    BY <1>2, <2>1, FS_Subset
<1>4. \A k, l \in S : Cardinality(below[k]) = Cardinality(below[l]) => k = l
  BY <1>3
<1> HIDE DEF n
<1>5. IsFiniteSet(0 .. n - 1) /\ Cardinality(0 .. n - 1) = n
  BY <1>1, FS_Interval
<1>6. rank \in Injection(S, 0 .. n - 1)
  <2>1. rank \in [S -> 0 .. n - 1]
    BY <1>2
  <2>2. \A c, d \in S : rank[c] = rank[d] => c = d
    BY <1>4
  <2> QED
    BY <2>1, <2>2 DEF Injection, IsInjective
<1>7. rank \in Surjection(S, 0 .. n - 1)
  BY <1>5, <1>6, FS_Injection DEF n
<1>8. \A i \in 0 .. n - 1 : \E k \in S : rank[k] = i
  BY <1>7 DEF Surjection
<1> QED
  BY <1>1, <1>2, <1>4, <1>8 DEF n

\* The order of the keys is total.
LEMMA Irreflexive == ASSUME NEW k \in Seq(Nat) PROVE ~D!Before(k, k)
BY DEF D!Before

\* The positions of a key.
LEMMA Positions ==
    ASSUME NEW s \in Seq(Nat)
    PROVE  \A i \in DOMAIN s :
              i \in Nat /\ i >= 1 /\ s[i] \in Nat /\ \A j \in 1 .. (i - 1) : j \in DOMAIN s
<1>1. DOMAIN s = 1 .. Len(s) /\ Len(s) \in Nat
  OBVIOUS
<1>2. \A i \in DOMAIN s : s[i] \in Nat
  OBVIOUS
<1> QED
  BY <1>1, <1>2

LEMMA Transitive ==
    ASSUME NEW k \in Seq(Nat), NEW l \in Seq(Nat), NEW m \in Seq(Nat), D!Before(k, l), D!Before(l, m)
    PROVE  D!Before(k, m)
<1>1. PICK a \in DOMAIN l : /\ \A j \in 1 .. (a - 1) : j \in DOMAIN k /\ k[j] = l[j]
                            /\ a \in DOMAIN k => k[a] < l[a]
  BY DEF D!Before
<1>2. PICK b \in DOMAIN m : /\ \A j \in 1 .. (b - 1) : j \in DOMAIN l /\ l[j] = m[j]
                            /\ b \in DOMAIN l => l[b] < m[b]
  BY DEF D!Before
<1>3. /\ a \in Nat /\ a >= 1 /\ b \in Nat /\ b >= 1
      /\ \A i \in DOMAIN k : k[i] \in Nat
      /\ \A i \in DOMAIN l : l[i] \in Nat
      /\ \A i \in DOMAIN m : m[i] \in Nat
      /\ \A i \in DOMAIN m : \A j \in 1 .. (i - 1) : j \in DOMAIN m
      /\ \A i \in DOMAIN l : \A j \in 1 .. (i - 1) : j \in DOMAIN l
  BY Positions
<1>4. CASE a < b
  <2>1. a \in DOMAIN m /\ l[a] = m[a] /\ a \in 1 .. (b - 1)
    <3>1. a \in 1 .. (b - 1)
      BY <1>3, <1>4
    <3> QED
      BY <1>2, <1>3, <3>1
  <2>2. \A j \in 1 .. (a - 1) : j \in DOMAIN k /\ k[j] = m[j]
    <3>1. \A j \in 1 .. (a - 1) : j \in 1 .. (b - 1)
      BY <1>3, <1>4
    <3> QED
      BY <1>1, <1>2, <3>1
  <2>3. a \in DOMAIN k => k[a] < m[a]
    BY <1>1, <2>1
  <2> QED
    BY <2>1, <2>2, <2>3 DEF D!Before
<1>5. CASE a = b
  <2>1. \A j \in 1 .. (b - 1) : j \in DOMAIN k /\ k[j] = m[j]
    BY <1>1, <1>2, <1>5
  <2>2. b \in DOMAIN k => k[b] < m[b]
    BY <1>1, <1>2, <1>3, <1>5
  <2> QED
    BY <2>1, <2>2 DEF D!Before
<1>6. CASE b < a
  <2>1. b \in 1 .. (a - 1) /\ b \in DOMAIN l /\ b \in DOMAIN k /\ k[b] = l[b]
    <3>1. b \in 1 .. (a - 1)
      BY <1>3, <1>6
    <3> QED
      BY <1>1, <1>3, <3>1
  <2>2. \A j \in 1 .. (b - 1) : j \in DOMAIN k /\ k[j] = m[j]
    <3>1. \A j \in 1 .. (b - 1) : j \in 1 .. (a - 1)
      BY <1>3, <1>6
    <3> QED
      BY <1>1, <1>2, <3>1
  <2>3. k[b] < m[b]
    BY <1>2, <2>1
  <2> QED
    BY <2>2, <2>3 DEF D!Before
<1> QED
  BY <1>3, <1>4, <1>5, <1>6

LEMMA Total ==
    ASSUME NEW k \in Seq(Nat), NEW l \in Seq(Nat), k # l
    PROVE  D!Before(k, l) \/ D!Before(l, k)
<1> DEFINE diff == {i \in DOMAIN k \cap DOMAIN l : k[i] # l[i]}
<1>1. /\ Len(k) \in Nat /\ Len(l) \in Nat /\ DOMAIN k = 1 .. Len(k) /\ DOMAIN l = 1 .. Len(l)
      /\ k = [i \in 1 .. Len(k) |-> k[i]] /\ l = [i \in 1 .. Len(l) |-> l[i]]
      /\ (\A i \in DOMAIN k : k[i] \in Nat) /\ (\A i \in DOMAIN l : l[i] \in Nat)
  OBVIOUS
<1>2. CASE diff = {}
  <2>1. \A i \in DOMAIN k \cap DOMAIN l : k[i] = l[i]
    BY <1>2
  <2>2. Len(k) # Len(l)
    BY <1>1, <2>1
  <2>3. CASE Len(k) < Len(l)
    <3>1. Len(k) + 1 \in DOMAIN l /\ Len(k) + 1 \notin DOMAIN k
      BY <1>1, <2>3
    <3>2. \A j \in 1 .. ((Len(k) + 1) - 1) : j \in DOMAIN k /\ k[j] = l[j]
      BY <1>1, <2>1, <2>3
    <3> QED
      BY <3>1, <3>2 DEF D!Before
  <2>4. CASE Len(l) < Len(k)
    <3>1. Len(l) + 1 \in DOMAIN k /\ Len(l) + 1 \notin DOMAIN l
      BY <1>1, <2>4
    <3>2. \A j \in 1 .. ((Len(l) + 1) - 1) : j \in DOMAIN l /\ l[j] = k[j]
      BY <1>1, <2>1, <2>4
    <3> QED
      BY <3>1, <3>2 DEF D!Before
  <2>5. Len(k) < Len(l) \/ Len(l) < Len(k)
    <3>1. Len(k) \in Nat /\ Len(l) \in Nat
      OBVIOUS
    <3> QED
      BY <2>2, <3>1
  <2> QED
    BY <2>3, <2>4, <2>5
<1>3. CASE diff # {}
  <2>1. PICK i \in diff : \A j \in diff : i <= j
    <3>1. diff \subseteq Nat
      BY <1>1
    <3> HIDE DEF diff
    <3> QED
      BY <1>3, <3>1, Smallest
  <2>2. /\ i \in DOMAIN k /\ i \in DOMAIN l /\ k[i] # l[i] /\ k[i] \in Nat /\ l[i] \in Nat
    BY <1>1, <2>1
  <2>3. \A j \in 1 .. (i - 1) : j \in DOMAIN k /\ j \in DOMAIN l /\ k[j] = l[j]
    <3> SUFFICES ASSUME NEW j \in 1 .. (i - 1) PROVE j \in DOMAIN k /\ j \in DOMAIN l /\ k[j] = l[j]
      OBVIOUS
    <3>1. j \in DOMAIN k /\ j \in DOMAIN l
      BY <2>2, Positions
    <3>2. j \in Nat /\ i \in Nat /\ j < i
      <4>1. i \in Nat
        BY <2>2, Positions
      <4> QED
        BY <4>1
    <3> QED
      BY <2>1, <3>1, <3>2
  <2>4. k[i] < l[i] \/ l[i] < k[i]
    BY <2>2
  <2> QED
    BY <2>2, <2>3, <2>4 DEF D!Before
<1> QED
  BY <1>2, <1>3

\* The instance of Dashboard has its own name for the same operator.
LEMMA SameCardinality == ASSUME NEW S PROVE D!Cardinality(S) = Cardinality(S)
BY Zenon DEF D!Cardinality, Cardinality, D!IsFiniteSet, IsFiniteSet

\* ListObjects returns the first BrowseLimit keys, each once.
LEMMA ListFacts ==
    /\ Len(D!ListObjects) \in Nat
    /\ D!ListObjects = [i \in 1 .. Len(D!ListObjects) |-> D!ListObjects[i]]
    /\ \A i \in 1 .. Len(D!ListObjects) :
          D!ListObjects[i].key \in D!Shown /\ D!ListObjects[i].chunks = table[D!ListObjects[i].key]
    /\ \A i, j \in 1 .. Len(D!ListObjects) : D!ListObjects[i].key = D!ListObjects[j].key => i = j
    /\ \A k \in D!Shown : \E i \in 1 .. Len(D!ListObjects) : D!ListObjects[i].key = k
<1> DEFINE S == D!Found
           below == [k \in S |-> {l \in S : D!Before(l, k)}]
           n == IF Cardinality(S) < BrowseLimit THEN Cardinality(S) ELSE BrowseLimit
           key(i) == CHOOSE k \in S : D!Rank(k) = i - 1
           L == D!ListObjects
<1>1. S \subseteq Seq(Nat) /\ IsFiniteSet(S)
  <2>1. S \subseteq Paths
    BY DEF D!Found
  <2>2. \A k \in Paths : k \in Seq(Nat)
    BY DashboardAssumption
  <2> QED
    BY <2>1, <2>2, DashboardAssumption, FS_Subset
<1>2. \A k \in S : below[k] = {l \in S : D!Before(l, k)} /\ D!Rank(k) = Cardinality(below[k])
  <2> SUFFICES ASSUME NEW k \in S PROVE D!Rank(k) = Cardinality(below[k])
    OBVIOUS
  <2>1. below[k] = {l \in S : D!Before(l, k)}
    OBVIOUS
  <2> HIDE DEF below
  <2> QED
    BY <2>1, SameCardinality DEF D!Rank
<1> HIDE DEF S
<1>3. /\ below \in [S -> SUBSET S]
      /\ \A k \in S : k \notin below[k]
      /\ \A k, l \in S : l \in below[k] => below[l] \subseteq below[k]
      /\ \A k, l \in S : k = l \/ k \in below[l] \/ l \in below[k]
  <2>1. below \in [S -> SUBSET S]
    OBVIOUS
  <2>2. \A k \in S : k \notin below[k]
    BY <1>1, Irreflexive
  <2>3. ASSUME NEW k \in S, NEW l \in S, l \in below[k] PROVE below[l] \subseteq below[k]
    <3> SUFFICES ASSUME NEW m \in below[l] PROVE m \in below[k]
      OBVIOUS
    <3>1. m \in S /\ D!Before(m, l) /\ D!Before(l, k)
      BY <2>3
    <3> QED
      BY <1>1, <3>1, Transitive
  <2>4. \A k, l \in S : k = l \/ k \in below[l] \/ l \in below[k]
    BY <1>1, Total
  <2> QED
    BY <2>1, <2>2, <2>3, <2>4
<1>4. /\ Cardinality(S) \in Nat
      /\ \A k \in S : D!Rank(k) \in 0 .. Cardinality(S) - 1
      /\ \A k, l \in S : D!Rank(k) = D!Rank(l) => k = l
      /\ \A i \in 0 .. Cardinality(S) - 1 : \E k \in S : D!Rank(k) = i
  <2> HIDE DEF below
  <2> QED
    BY <1>1, <1>2, <1>3, Ranks
<1>5. n \in Nat /\ n <= Cardinality(S) /\ n <= BrowseLimit /\ BrowseLimit \in Nat
      /\ (n = Cardinality(S) \/ n = BrowseLimit)
  BY <1>4, DashboardAssumption
<1>6. L = [i \in 1 .. n |-> [key |-> key(i), chunks |-> table[key(i)]]]
  <2> DEFINE c == Cardinality(S)
  <2>1. D!Cardinality(S) = c
    BY SameCardinality
  <2>2. L = [i \in 1 .. (IF D!Cardinality(S) < BrowseLimit THEN D!Cardinality(S) ELSE BrowseLimit) |->
                [key |-> key(i), chunks |-> table[key(i)]]]
    BY Zenon DEF D!ListObjects, S
  <2> HIDE DEF L, key, c
  <2> QED
    BY <2>1, <2>2, Zenon DEF c
<1>7. ASSUME NEW i \in 1 .. n PROVE key(i) \in S /\ D!Rank(key(i)) = i - 1
  <2>1. i - 1 \in 0 .. Cardinality(S) - 1
    BY <1>4, <1>5
  <2>2. \E k \in S : D!Rank(k) = i - 1
    BY <1>4, <2>1
  <2> QED
    BY <2>2
<1> HIDE DEF key, n, L
<1>8. Len(L) = n /\ \A i \in 1 .. n : L[i] = [key |-> key(i), chunks |-> table[key(i)]]
  BY <1>5, <1>6
<1>9. L = [i \in 1 .. n |-> L[i]]
  BY <1>6
<1>10. \A i \in 1 .. n : L[i].key = key(i) /\ L[i].chunks = table[L[i].key]
  BY <1>8
<1>11. \A i \in 1 .. n : key(i) \in D!Shown
  <2> SUFFICES ASSUME NEW i \in 1 .. n PROVE key(i) \in D!Shown
    OBVIOUS
  <2>1. D!Rank(key(i)) < BrowseLimit
    BY <1>5, <1>7
  <2> QED
    BY <1>7, <2>1 DEF D!Shown, S
<1>12. \A i, j \in 1 .. n : key(i) = key(j) => i = j
  <2> SUFFICES ASSUME NEW i \in 1 .. n, NEW j \in 1 .. n, key(i) = key(j) PROVE i = j
    OBVIOUS
  <2>1. i - 1 = j - 1 /\ i \in Int /\ j \in Int
    BY <1>7
  <2> QED
    BY <2>1
<1>13. ASSUME NEW k \in D!Shown PROVE \E i \in 1 .. n : key(i) = k
  <2>1. k \in S /\ D!Rank(k) < BrowseLimit
    BY DEF D!Shown, S
  <2>2. D!Rank(k) + 1 \in 1 .. n /\ (D!Rank(k) + 1) - 1 = D!Rank(k)
    BY <1>4, <1>5, <2>1
  <2>3. key(D!Rank(k) + 1) \in S /\ D!Rank(key(D!Rank(k) + 1)) = D!Rank(k)
    BY <1>7, <2>2
  <2> QED
    BY <1>4, <2>1, <2>2, <2>3
<1> QED
  BY <1>5, <1>8, <1>9, <1>10, <1>11, <1>12, <1>13 DEF L
-----------------------------------------------------------------------------
(***************************************************************************)
(* Prefixes.                                                               *)
(***************************************************************************)
\* s is the n elements of p after the first a.
IsCut(S, s, p, a, n) ==
    s \in Seq(S) /\ Len(s) = n /\ \A i \in 1 .. n : s[i] = p[a + i]

\* Tail and Front cut one element off.
LEMMA TailFront ==
    ASSUME NEW S, NEW p, NEW s, NEW a \in Nat, NEW n \in Nat, n > 0, IsCut(S, s, p, a, n)
    PROVE  IsCut(S, Tail(s), p, a + 1, n - 1) /\ IsCut(S, D!Front(s), p, a, n - 1)
<1>1. s \in Seq(S) /\ Len(s) = n /\ (\A i \in 1 .. n : s[i] = p[a + i])
  BY DEF IsCut
<1>2. s # <<>>
  BY <1>1
<1>3. Tail(s) \in Seq(S) /\ Len(Tail(s)) = n - 1 /\ \A i \in 1 .. n - 1 : Tail(s)[i] = s[i + 1]
  BY <1>1, <1>2, HeadTailProperties
<1>4. \A i \in 1 .. n - 1 : Tail(s)[i] = p[(a + 1) + i]
  <2> SUFFICES ASSUME NEW i \in 1 .. n - 1 PROVE Tail(s)[i] = p[(a + 1) + i]
    OBVIOUS
  <2>1. i + 1 \in 1 .. n /\ a + (i + 1) = (a + 1) + i
    OBVIOUS
  <2>2. Tail(s)[i] = s[i + 1]
    BY <1>3
  <2>3. s[i + 1] = p[a + (i + 1)]
    BY <1>1, <2>1
  <2> QED
    BY <2>1, <2>2, <2>3
<1>5. D!Front(s) = SubSeq(s, 1, n - 1)
  BY <1>1 DEF D!Front
<1>6. D!Front(s) \in Seq(S) /\ Len(D!Front(s)) = n - 1 /\ \A i \in 1 .. n - 1 : D!Front(s)[i] = s[i]
  <2>1. \A i \in 1 .. n - 1 : s[i] \in S
    BY <1>1
  <2> QED
    BY <1>1, <1>5, <2>1
<1>7. \A i \in 1 .. n - 1 : D!Front(s)[i] = p[a + i]
  <2>1. \A i \in 1 .. n - 1 : i \in 1 .. n
    OBVIOUS
  <2> QED
    BY <1>1, <1>6, <2>1
<1> QED
  BY <1>3, <1>4, <1>6, <1>7 DEF IsCut

\* normalizePrefix cuts one "/" off at either end.
LEMMA NormalizeCut ==
    ASSUME NEW S, NEW p \in Seq(S), NEW n \in Nat, n > 0, Len(p) = n
    PROVE  /\ (n > 1 /\ p[1] = 0 /\ p[n] = 0) => IsCut(S, D!NormalizePrefix(p), p, 1, n - 2)
           /\ (n > 1 /\ p[1] = 0 /\ p[n] # 0) => IsCut(S, D!NormalizePrefix(p), p, 1, n - 1)
           /\ (~(n > 1 /\ p[1] = 0) /\ p[n] = 0) => IsCut(S, D!NormalizePrefix(p), p, 0, n - 1)
           /\ (~(n > 1 /\ p[1] = 0) /\ p[n] # 0) => IsCut(S, D!NormalizePrefix(p), p, 0, n)
<1> DEFINE q == IF Len(p) > 1 /\ p[1] = 0 THEN Tail(p) ELSE p
<1>1. IsCut(S, p, p, 0, n)
  BY DEF IsCut
<1>2. IsCut(S, Tail(p), p, 1, n - 1) /\ IsCut(S, D!Front(p), p, 0, n - 1)
  BY <1>1, TailFront
<1>3. D!NormalizePrefix(p) = IF q[Len(q)] = 0 THEN D!Front(q) ELSE q
  BY DEF D!NormalizePrefix
<1>4. CASE n > 1 /\ p[1] = 0
  <2>1. q = Tail(p)
    BY <1>4
  <2>2. Len(Tail(p)) = n - 1 /\ Tail(p)[n - 1] = p[n]
    BY <1>2, <1>4 DEF IsCut
  <2>3. IsCut(S, D!Front(Tail(p)), p, 1, n - 2)
    <3>1. n - 1 \in Nat /\ n - 1 > 0 /\ (n - 1) - 1 = n - 2
      BY <1>4
    <3> QED
      BY <1>2, <3>1, TailFront
  <2> HIDE DEF q
  <2> QED
    BY <1>2, <1>3, <1>4, <2>1, <2>2, <2>3
<1>5. CASE ~(n > 1 /\ p[1] = 0)
  <2>1. q = p
    BY <1>5
  <2> HIDE DEF q
  <2> QED
    BY <1>1, <1>2, <1>3, <1>5, <2>1
<1> QED
  BY <1>4, <1>5

\* A directory's prefix with its "/" is normalized to the directory.
LEMMA NormalizeSlash ==
    ASSUME NEW S, 0 \in S, NEW p \in Seq(S), NEW k \in Nat, k <= Len(p), NEW t, IsCut(S, t, p, 0, k)
    PROVE  /\ (k > 0 /\ p[1] = 0) => IsCut(S, D!NormalizePrefix(Append(t, 0)), p, 1, k - 1)
           /\ ~(k > 0 /\ p[1] = 0) => IsCut(S, D!NormalizePrefix(Append(t, 0)), p, 0, k)
<1> DEFINE x == Append(t, 0)
           y == D!NormalizePrefix(x)
<1>1. t \in Seq(S) /\ Len(t) = k /\ \A i \in 1 .. k : t[i] = p[i]
  BY DEF IsCut
<1>2. x \in Seq(S) /\ Len(x) = k + 1 /\ x[k + 1] = 0 /\ \A i \in 1 .. k : x[i] = t[i]
  BY <1>1
<1> HIDE DEF x, y
<1>3. CASE k > 0 /\ p[1] = 0
  <2>1. k + 1 > 1 /\ x[1] = 0 /\ (k + 1) - 2 = k - 1 /\ k + 1 \in Nat /\ k + 1 > 0
    BY <1>1, <1>2, <1>3
  <2>2. IsCut(S, y, x, 1, k - 1)
    BY <1>2, <2>1, NormalizeCut DEF y
  <2>3. ASSUME NEW i \in 1 .. k - 1 PROVE x[1 + i] = p[1 + i]
    <3>1. 1 + i \in 1 .. k
      OBVIOUS
    <3> QED
      BY <1>1, <1>2, <3>1
  <2> QED
    BY <1>3, <2>2, <2>3 DEF IsCut, y, x
<1>4. CASE ~(k > 0 /\ p[1] = 0)
  <2>1. ~(k + 1 > 1 /\ x[1] = 0) /\ (k + 1) - 1 = k /\ k + 1 \in Nat /\ k + 1 > 0
    BY <1>1, <1>2, <1>4
  <2>2. IsCut(S, y, x, 0, k)
    BY <1>2, <2>1, NormalizeCut DEF y
  <2>3. ASSUME NEW i \in 1 .. k PROVE x[0 + i] = p[0 + i]
    <3>1. 0 + i = i
      OBVIOUS
    <3> QED
      BY <1>1, <1>2, <3>1
  <2> QED
    BY <1>4, <2>2, <2>3 DEF IsCut, y, x
<1> QED
  BY <1>3, <1>4

\* The parent of the prefix that was asked for is the directory this one is in.
LEMMA ParentFacts ==
    ASSUME NEW S, 0 \in S, NEW p \in Seq(S), p # <<>>
    PROVE  /\ D!NormalizePrefix(p) \in Seq(S)
           /\ D!NormalizePrefix(p) # <<>> =>
                 D!NormalizePrefix(D!ParentPrefix(p)) = D!Front(D!NormalizePrefix(p))
<1> DEFINE n == Len(p)
           dir == D!NormalizePrefix(p)
           q == IF Len(p) > 1 /\ p[Len(p)] = 0 THEN D!Front(p) ELSE p
           up == D!NormalizePrefix(D!ParentPrefix(p))
<1>1. n \in Nat /\ n > 0 /\ IsCut(S, p, p, 0, n)
  BY DEF IsCut
<1>2. D!ParentPrefix(p) = IF Len(q) = 1 THEN <<0>> ELSE Append(D!Front(q), 0)
  BY DEF D!ParentPrefix
<1>3. /\ (n > 1 /\ p[n] = 0) => IsCut(S, q, p, 0, n - 1)
      /\ ~(n > 1 /\ p[n] = 0) => IsCut(S, q, p, 0, n)
  <2>1. IsCut(S, D!Front(p), p, 0, n - 1)
    BY <1>1, TailFront
  <2> QED
    BY <1>1, <2>1
<1>4. /\ (n > 1 /\ p[1] = 0 /\ p[n] = 0) => IsCut(S, dir, p, 1, n - 2)
      /\ (n > 1 /\ p[1] = 0 /\ p[n] # 0) => IsCut(S, dir, p, 1, n - 1)
      /\ (~(n > 1 /\ p[1] = 0) /\ p[n] = 0) => IsCut(S, dir, p, 0, n - 1)
      /\ (~(n > 1 /\ p[1] = 0) /\ p[n] # 0) => IsCut(S, dir, p, 0, n)
  BY <1>1, NormalizeCut
<1>5. \A s, a, m : IsCut(S, s, p, a, m) => s \in Seq(S) /\ Len(s) = m
  BY DEF IsCut
<1>6. dir \in Seq(S)
  <2> HIDE DEF n, dir
  <2> QED
    BY <1>4, <1>5
<1>7. ASSUME NEW j \in Nat, j > 0, j <= n, IsCut(S, q, p, 0, j)
      PROVE  /\ (j > 1 /\ p[1] = 0) => IsCut(S, up, p, 1, j - 2)
             /\ (j > 1 /\ p[1] # 0) => IsCut(S, up, p, 0, j - 1)
             /\ j = 1 => IsCut(S, up, p, 0, 0)
  <2>1. Len(q) = j /\ IsCut(S, D!Front(q), p, 0, j - 1)
    BY <1>5, <1>7, TailFront
  <2> HIDE DEF q
  <2>2. CASE j > 1
    <3>1. D!ParentPrefix(p) = Append(D!Front(q), 0)
      BY <1>2, <2>1, <2>2
    <3>2. j - 1 \in Nat /\ j - 1 > 0 /\ j - 1 <= Len(p) /\ (j - 1) - 1 = j - 2
      BY <1>1, <1>7, <2>2
    <3>3. /\ p[1] = 0 => IsCut(S, D!NormalizePrefix(Append(D!Front(q), 0)), p, 1, (j - 1) - 1)
          /\ p[1] # 0 => IsCut(S, D!NormalizePrefix(Append(D!Front(q), 0)), p, 0, j - 1)
      BY <2>1, <3>2, NormalizeSlash
    <3> QED
      BY <2>2, <3>1, <3>2, <3>3
  <2>3. CASE j = 1
    <3>1. D!ParentPrefix(p) = <<0>> /\ <<0>> = Append(<<>>, 0)
      BY <1>2, <2>1, <2>3
    <3>2. IsCut(S, <<>>, p, 0, 0)
      BY DEF IsCut
    <3>3. IsCut(S, D!NormalizePrefix(Append(<<>>, 0)), p, 0, 0)
      <4>1. 0 \in Nat /\ 0 <= Len(p) /\ ~(0 > 0)
        BY <1>1
      <4> QED
        BY <3>2, <4>1, NormalizeSlash
    <3> QED
      BY <2>3, <3>1, <3>3
  <2> QED
    BY <1>7, <2>2, <2>3
<1>8. ASSUME dir # <<>>, NEW a \in Nat, NEW m \in Nat, m > 0, IsCut(S, dir, p, a, m), IsCut(S, up, p, a, m - 1)
      PROVE  up = D!Front(dir)
  <2>1. IsCut(S, D!Front(dir), p, a, m - 1)
    BY <1>8, TailFront
  <2> HIDE DEF up, dir
  <2>2. /\ up \in Seq(S) /\ Len(up) = m - 1 /\ \A i \in 1 .. m - 1 : up[i] = p[a + i]
        /\ D!Front(dir) \in Seq(S) /\ Len(D!Front(dir)) = m - 1
        /\ \A i \in 1 .. m - 1 : D!Front(dir)[i] = p[a + i]
    BY <1>8, <2>1 DEF IsCut
  <2>3. Len(up) = Len(D!Front(dir)) /\ \A i \in 1 .. Len(up) : up[i] = D!Front(dir)[i]
    BY <2>2
  <2> QED
    BY <2>2, <2>3, SeqEqual
<1>9. ASSUME dir # <<>> PROVE up = D!Front(dir)
  <2>0. ASSUME NEW m, Len(dir) = m PROVE m > 0 /\ m \in Nat
    <3> HIDE DEF dir
    <3> QED
      BY <1>6, <1>9, <2>0
  <2> HIDE DEF n, dir, q, up
  <2>1. CASE n > 1 /\ p[1] = 0 /\ p[n] = 0
    <3>1. IsCut(S, dir, p, 1, n - 2) /\ n - 2 > 0 /\ n - 2 \in Nat
      BY <1>4, <1>5, <2>0, <2>1
    <3>2. n - 1 \in Nat /\ n - 1 > 1 /\ n - 1 <= n /\ (n - 1) - 2 = (n - 2) - 1
      BY <1>1, <3>1
    <3>3. IsCut(S, up, p, 1, (n - 2) - 1)
      BY <1>3, <1>7, <2>1, <3>2
    <3> QED
      BY <1>8, <1>9, <3>1, <3>3
  <2>2. CASE n > 1 /\ p[1] = 0 /\ p[n] # 0
    <3>1. IsCut(S, dir, p, 1, n - 1) /\ n - 1 > 0 /\ n - 1 \in Nat
      BY <1>4, <1>5, <2>0, <2>2
    <3>2. n <= n /\ n - 2 = (n - 1) - 1
      BY <1>1
    <3>3. IsCut(S, up, p, 1, (n - 1) - 1)
      BY <1>1, <1>3, <1>7, <2>2, <3>2
    <3> QED
      BY <1>8, <1>9, <3>1, <3>3
  <2>3. CASE ~(n > 1 /\ p[1] = 0) /\ p[n] = 0
    <3>1. IsCut(S, dir, p, 0, n - 1) /\ n - 1 > 0 /\ n - 1 \in Nat
      BY <1>4, <1>5, <2>0, <2>3
    <3>2. n > 1 /\ n - 1 <= n /\ p[1] # 0
      BY <1>1, <2>3, <3>1
    <3>3. IsCut(S, q, p, 0, n - 1)
      BY <1>3, <2>3, <3>2
    <3>4. IsCut(S, up, p, 0, (n - 1) - 1)
      <4>1. CASE n - 1 = 1
        <5>1. (n - 1) - 1 = 0
          BY <4>1
        <5> QED
          BY <1>7, <3>1, <3>2, <3>3, <4>1, <5>1
      <4>2. CASE n - 1 > 1
        BY <1>7, <3>1, <3>2, <3>3, <4>2
      <4>3. n - 1 = 1 \/ n - 1 > 1
        <5>1. \A j \in Nat : j > 0 => j = 1 \/ j > 1
          OBVIOUS
        <5> QED
          BY <3>1, <5>1
      <4> QED
        BY <4>1, <4>2, <4>3
    <3> QED
      BY <1>8, <1>9, <3>1, <3>4
  <2>4. CASE ~(n > 1 /\ p[1] = 0) /\ p[n] # 0
    <3>1. IsCut(S, dir, p, 0, n) /\ IsCut(S, q, p, 0, n) /\ n <= n
      BY <1>1, <1>3, <1>4, <2>4
    <3>2. IsCut(S, up, p, 0, n - 1)
      <4>1. CASE n = 1
        <5>1. n - 1 = 0
          BY <4>1
        <5> QED
          BY <1>1, <1>7, <3>1, <4>1, <5>1
      <4>2. CASE n > 1
        BY <1>1, <1>7, <2>4, <3>1, <4>2
      <4> QED
        BY <1>1, <4>1, <4>2
    <3> QED
      BY <1>1, <1>8, <1>9, <3>1, <3>2
  <2> QED
    BY <2>1, <2>2, <2>3, <2>4
<1> QED
  BY <1>6, <1>9
-----------------------------------------------------------------------------
(***************************************************************************)
(* The entries of the object browser.                                      *)
(***************************************************************************)
\* The keys BrowseObjects passes over, and the entry it makes of the others.
Skipped(k) == D!TrimPrefix(k) = <<0>>
Made(k) ==
    IF Len(D!TrimPrefix(k)) > 1 THEN D!Directory(D!TrimPrefix(k)[1])
    ELSE D!File(D!TrimPrefix(k)[1], table[k])
AllMade == {Made(k) : k \in {l \in D!Shown : ~Skipped(l)}}
Foreign == {k \in D!Shown : ~D!IsPrefix(D!Dir, k)}

\* Of a key that begins with the prefix the remainder is what follows it; any
\* other key is kept whole, and is in a directory.
LEMMA Remainders ==
    ASSUME path \in AskedPrefixes, NEW k \in D!Shown
    PROVE  /\ Len(D!TrimPrefix(k)) \in Nat /\ Len(D!TrimPrefix(k)) > 0
           /\ D!IsPrefix(D!Dir, k) =>
                 /\ Len(D!TrimPrefix(k)) = Len(k) - Len(D!Dir)
                 /\ D!TrimPrefix(k)[1] = k[Len(D!Dir) + 1]
                 /\ Skipped(k) <=> k = Append(D!Dir, 0)
                 /\ ~Skipped(k) => Made(k) = D!EntryOf(k)
           /\ ~D!IsPrefix(D!Dir, k) =>
                 Len(D!TrimPrefix(k)) > 1 /\ ~Skipped(k) /\ Made(k) = D!Directory(k[1])
           /\ Len(k) \in Nat /\ Len(D!Dir) \in Nat /\ k \in Seq(Nat) /\ D!Dir \in Seq(Nat)
           /\ D!IsPrefix(D!Dir, k) =>
                 Len(k) > Len(D!Dir) /\ \A i \in 1 .. Len(D!Dir) : k[i] = D!Dir[i]
<1> DEFINE d == D!Dir
           r == D!TrimPrefix(k)
<1>1. k \in Seq(Nat) /\ k # <<>> /\ Len(k) > Len(d)
  <2>1. k \in Paths /\ D!Like(k)
    BY DEF D!Shown, D!Found
  <2>2. Len(k) > Len(d)
    BY <2>1 DEF D!Like
  <2> QED
    BY <2>1, <2>2, DashboardAssumption
<1>2. d \in Seq(Nat)
  <2>1. path \in Seq(Nat) /\ path # <<>> /\ 0 \in Nat
    BY DashboardAssumption
  <2> QED
    BY <2>1, ParentFacts DEF D!Dir
<1> HIDE DEF d
<1>3. Len(k) \in Nat /\ Len(d) \in Nat /\ Len(k) > 0
  BY <1>1, <1>2
<1>4. CASE ~D!IsPrefix(d, k)
  <2>1. r = k
    BY <1>4 DEF D!TrimPrefix, d
  <2>2. Len(d) # 0
    <3>1. ASSUME Len(d) = 0 PROVE D!IsPrefix(d, k)
      <4>1. SubSeq(d, 1, 0) = <<>> /\ SubSeq(k, 1, 0) = <<>>
        BY <1>1, <1>2
      <4> QED
        BY <1>3, <3>1, <4>1 DEF D!IsPrefix
    <3> QED
      BY <1>4, <3>1
  <2>3. Len(k) > 1
    BY <1>1, <1>3, <2>2
  <2>4. Made(k) = D!Directory(k[1])
    BY <2>1, <2>3, Zenon DEF Made, r
  <2>5. ~Skipped(k)
    <3>1. ~(Len(<<0>>) > 1)
      OBVIOUS
    <3> QED
      BY <2>1, <2>3, <3>1, Zenon DEF Skipped, r
  <2> HIDE DEF r
  <2> QED
    BY <1>1, <1>2, <1>3, <1>4, <2>1, <2>3, <2>4, <2>5 DEF d, r
<1>5. CASE D!IsPrefix(d, k)
  <2>1. r = SubSeq(k, Len(d) + 1, Len(k))
    BY <1>5 DEF D!TrimPrefix, d
  <2>2. \A i \in 1 .. Len(d) : k[i] = d[i]
    <3>1. SubSeq(d, 1, Len(d)) = SubSeq(k, 1, Len(d))
      BY <1>5 DEF D!IsPrefix
    <3>2. SubSeq(d, 1, Len(d)) = [i \in 1 .. Len(d) |-> d[i]]
      BY <1>2
    <3>3. SubSeq(k, 1, Len(d)) = [i \in 1 .. Len(d) |-> k[i]]
      BY <1>1, <1>3
    <3> QED
      BY <3>1, <3>2, <3>3
  <2>3. r \in Seq(Nat) /\ Len(r) = Len(k) - Len(d) /\ r[1] = k[Len(d) + 1]
    <3>1. \A i \in Len(d) + 1 .. Len(k) : k[i] \in Nat
      BY <1>1, <1>3
    <3>2. /\ SubSeq(k, Len(d) + 1, Len(k)) \in Seq(Nat)
          /\ Len(SubSeq(k, Len(d) + 1, Len(k))) = Len(k) - Len(d)
          /\ SubSeq(k, Len(d) + 1, Len(k))[1] = k[Len(d) + 1]
      BY <1>1, <1>3, <3>1
    <3> QED
      BY <2>1, <3>2
  <2> HIDE DEF r
  <2>4. Len(k) - Len(d) \in Nat /\ Len(k) - Len(d) > 0
    BY <1>1, <1>3
  <2>5. r = <<0>> <=> Len(k) = Len(d) + 1 /\ k[Len(d) + 1] = 0
    <3>1. r = <<0>> <=> Len(r) = 1 /\ r[1] = 0
      <4>1. <<0>> \in Seq(Nat) /\ Len(<<0>>) = 1 /\ <<0>>[1] = 0
        OBVIOUS
      <4>2. ASSUME Len(r) = 1, r[1] = 0 PROVE r = <<0>>
        <5>1. \A i \in 1 .. Len(r) : r[i] = <<0>>[i]
          BY <4>2
        <5>2. Len(r) = Len(<<0>>)
          BY <4>1, <4>2
        <5> QED
          BY <2>3, <4>1, <5>1, <5>2, SeqEqual
      <4> QED
        BY <4>1, <4>2
    <3>2. Len(k) - Len(d) = 1 <=> Len(k) = Len(d) + 1
      BY <1>3
    <3> QED
      BY <2>3, <3>1, <3>2
  <2>6. k = Append(d, 0) <=> Len(k) = Len(d) + 1 /\ k[Len(d) + 1] = 0
    <3>1. /\ Append(d, 0) \in Seq(Nat) /\ Len(Append(d, 0)) = Len(d) + 1
          /\ Append(d, 0)[Len(d) + 1] = 0 /\ \A i \in 1 .. Len(d) : Append(d, 0)[i] = d[i]
      BY <1>2
    <3>2. ASSUME Len(k) = Len(d) + 1, k[Len(d) + 1] = 0 PROVE k = Append(d, 0)
      <4>1. \A i \in 1 .. Len(k) : i \in 1 .. Len(d) \/ i = Len(d) + 1
        BY <1>3, <3>2
      <4>2. \A i \in 1 .. Len(k) : k[i] = Append(d, 0)[i]
        BY <2>2, <3>1, <3>2, <4>1
      <4> QED
        BY <1>1, <3>1, <3>2, <4>2, SeqEqual
    <3> QED
      BY <3>1, <3>2
  <2>7. Made(k) = D!EntryOf(k)
    <3>1. Len(r) > 1 <=> Len(k) # Len(d) + 1
      <4>1. Len(r) = Len(k) - Len(d)
        BY <2>3
      <4> HIDE DEF r
      <4> QED
        BY <1>1, <1>3, <4>1
    <3>2. CASE Len(k) = Len(d) + 1
      <4>1. Made(k) = D!File(r[1], table[k])
        BY <3>1, <3>2, Zenon DEF Made, r
      <4>2. D!EntryOf(k) = D!File(k[Len(k)], table[k])
        BY <3>2, Zenon DEF D!EntryOf, d
      <4> QED
        BY <2>3, <3>2, <4>1, <4>2
    <3>3. CASE Len(k) # Len(d) + 1
      <4>1. Made(k) = D!Directory(r[1])
        BY <3>1, <3>3, Zenon DEF Made, r
      <4>2. D!EntryOf(k) = D!Directory(k[Len(d) + 1])
        BY <3>3, Zenon DEF D!EntryOf, d
      <4> QED
        BY <2>3, <4>1, <4>2
    <3> QED
      BY <3>2, <3>3
  <2> QED
    BY <1>1, <1>2, <1>3, <1>5, <2>2, <2>3, <2>4, <2>5, <2>6, <2>7 DEF Skipped, d, r
<1> QED
  BY <1>4, <1>5

\* Two keys do not make the same entry of a file.
LEMMA SameFile ==
    ASSUME path \in AskedPrefixes, NEW k \in D!Shown, NEW l \in D!Shown, Made(k) = Made(l),
           Len(D!TrimPrefix(k)) = 1
    PROVE  k = l
<1> DEFINE d == D!Dir
<1>1. Made(k) = D!File(D!TrimPrefix(k)[1], table[k])
  BY DEF Made
<1>2. ~(Len(D!TrimPrefix(l)) > 1)
  <2>1. Len(D!TrimPrefix(l)) > 1 => Made(l) = D!Directory(D!TrimPrefix(l)[1])
    BY Zenon DEF Made
  <2>2. \A a, b, c : D!File(a, b) # D!Directory(c)
    BY DEF D!File, D!Directory
  <2> QED
    BY <1>1, <2>1, <2>2
<1>3. Made(l) = D!File(D!TrimPrefix(l)[1], table[l])
  BY <1>2 DEF Made
<1>4. D!TrimPrefix(k)[1] = D!TrimPrefix(l)[1]
  <2>1. \A a, b, c, e : D!File(a, b) = D!File(c, e) => a = c
    BY DEF D!File
  <2> QED
    BY <1>1, <1>3, <2>1
<1>5. ASSUME NEW m \in D!Shown, D!IsPrefix(d, m), ~(Len(D!TrimPrefix(m)) > 1)
      PROVE  /\ Len(d) \in Nat /\ m \in Seq(Nat) /\ Len(m) \in Nat
             /\ Len(m) - Len(d) = 1 /\ m[Len(d) + 1] = D!TrimPrefix(m)[1]
             /\ \A i \in 1 .. Len(d) : m[i] = d[i]
  <2>1. /\ Len(d) \in Nat /\ m \in Seq(Nat) /\ Len(m) \in Nat
        /\ m[Len(d) + 1] = D!TrimPrefix(m)[1] /\ \A i \in 1 .. Len(d) : m[i] = d[i]
    BY <1>5, Remainders
  <2>2. Len(D!TrimPrefix(m)) \in Nat /\ Len(D!TrimPrefix(m)) > 0 /\ Len(D!TrimPrefix(m)) = Len(m) - Len(d)
    BY <1>5, Remainders
  <2>3. Len(D!TrimPrefix(m)) = 1
    BY <1>5, <2>2
  <2> QED
    BY <2>1, <2>2, <2>3
<1> HIDE DEF d
<1>6. /\ Len(d) \in Nat /\ k \in Seq(Nat) /\ l \in Seq(Nat) /\ Len(k) \in Nat /\ Len(l) \in Nat
      /\ Len(k) - Len(d) = 1 /\ Len(l) - Len(d) = 1 /\ k[Len(d) + 1] = l[Len(d) + 1]
      /\ \A i \in 1 .. Len(d) : k[i] = d[i] /\ l[i] = d[i]
  <2>1. ~(Len(D!TrimPrefix(k)) > 1)
    OBVIOUS
  <2>2. D!IsPrefix(d, k) /\ D!IsPrefix(d, l)
    BY <1>2, <2>1, Remainders DEF d
  <2> QED
    BY <1>2, <1>4, <1>5, <2>1, <2>2
<1>7. Len(k) = Len(l) /\ \A i \in 1 .. Len(k) : i \in 1 .. Len(d) \/ i = Len(d) + 1
  BY <1>6
<1>8. \A i \in 1 .. Len(k) : k[i] = l[i]
  BY <1>6, <1>7
<1> QED
  BY <1>6, <1>7, <1>8, SeqEqual
\* What the loop has done when it comes to the a-th row of ListObjects and has
\* made the entries es.
BrowsingAt(a, es) ==
    LET L == D!ListObjects
    IN  /\ a \in Nat \ {0}
        /\ es \in Seq(AllMade)
        /\ \A j \in 1 .. Len(L) : j < a /\ ~Skipped(L[j].key) =>
              \E i \in 1 .. Len(es) : es[i] = Made(L[j].key)
        /\ \A i \in 1 .. Len(es) : \E j \in 1 .. Len(L) : j < a /\ es[i] = Made(L[j].key)
        /\ \A i, j \in 1 .. Len(es) : es[i] = es[j] => i = j

\* The loop passes a row that makes no entry or one that is there already.
LEMMA PassRow ==
    ASSUME NEW a, NEW es, BrowsingAt(a, es), a <= Len(D!ListObjects),
           \/ Skipped(D!ListObjects[a].key)
           \/ \E i \in 1 .. Len(es) : es[i] = Made(D!ListObjects[a].key)
    PROVE  BrowsingAt(a + 1, es)
<1> DEFINE L == D!ListObjects
<1>1. a \in Nat /\ a + 1 \in Nat \ {0} /\ Len(L) \in Nat
  BY ListFacts DEF BrowsingAt
<1>2. \A j \in 1 .. Len(L) : (j < a + 1 <=> j < a \/ j = a)
  BY <1>1
<1> HIDE DEF L
<1> QED
  BY <1>1, <1>2 DEF BrowsingAt, L

\* The loop makes the entry of a row, which is another one than those before.
LEMMA AddRow ==
    ASSUME NEW a, NEW es, BrowsingAt(a, es), a <= Len(D!ListObjects),
           ~Skipped(D!ListObjects[a].key),
           \A i \in 1 .. Len(es) : es[i] # Made(D!ListObjects[a].key)
    PROVE  BrowsingAt(a + 1, Append(es, Made(D!ListObjects[a].key)))
<1> DEFINE L == D!ListObjects
           e == Made(L[a].key)
           fs == Append(es, e)
           n == Len(es)
<1>1. /\ a \in Nat /\ a > 0 /\ a + 1 \in Nat \ {0} /\ Len(L) \in Nat /\ a \in 1 .. Len(L)
      /\ es \in Seq(AllMade)
  BY ListFacts DEF BrowsingAt
<1>2. \A j \in 1 .. Len(L) : (j < a + 1 <=> j < a \/ j = a)
  BY <1>1
<1>3. e \in AllMade
  <2>1. L[a].key \in D!Shown
    BY <1>1, ListFacts
  <2> QED
    BY <2>1 DEF AllMade
<1> HIDE DEF L, e
<1>4. /\ fs \in Seq(AllMade) /\ Len(fs) = n + 1 /\ fs[n + 1] = e /\ n \in Nat
      /\ \A i \in 1 .. n : fs[i] = es[i]
  BY <1>1, <1>3
<1> HIDE DEF fs, n
<1>5. \A i \in 1 .. n + 1 : i \in 1 .. n \/ i = n + 1
  BY <1>4
<1>6. (\A i \in 1 .. n : i \in 1 .. n + 1) /\ n + 1 \in 1 .. n + 1
  BY <1>4
<1>7. \A j \in 1 .. Len(L) : j < a + 1 /\ ~Skipped(L[j].key) =>
          \E i \in 1 .. Len(fs) : fs[i] = Made(L[j].key)
  <2> SUFFICES ASSUME NEW j \in 1 .. Len(L), j < a + 1, ~Skipped(L[j].key)
               PROVE  \E i \in 1 .. Len(fs) : fs[i] = Made(L[j].key)
    OBVIOUS
  <2>1. CASE j = a
    BY <1>4, <1>6, <2>1 DEF e
  <2>2. CASE j < a
    <3>1. \E i \in 1 .. n : es[i] = Made(L[j].key)
      BY <2>2 DEF BrowsingAt, L, n
    <3> QED
      BY <1>4, <1>6, <3>1
  <2> QED
    BY <1>2, <2>1, <2>2
<1>8. \A i \in 1 .. Len(fs) : \E j \in 1 .. Len(L) : j < a + 1 /\ fs[i] = Made(L[j].key)
  <2> SUFFICES ASSUME NEW i \in 1 .. n + 1
               PROVE  \E j \in 1 .. Len(L) : j < a + 1 /\ fs[i] = Made(L[j].key)
    BY <1>4
  <2>1. CASE i = n + 1
    BY <1>1, <1>2, <1>4, <2>1 DEF e
  <2>2. CASE i \in 1 .. n
    <3>1. \E j \in 1 .. Len(L) : j < a /\ es[i] = Made(L[j].key)
      BY <2>2 DEF BrowsingAt, L, n
    <3> QED
      BY <1>2, <1>4, <2>2, <3>1
  <2> QED
    BY <1>5, <2>1, <2>2
<1>9. \A i, j \in 1 .. Len(fs) : fs[i] = fs[j] => i = j
  <2> SUFFICES ASSUME NEW i \in 1 .. n + 1, NEW j \in 1 .. n + 1, fs[i] = fs[j]
               PROVE  i = j
    BY <1>4
  <2>1. /\ \A x, y \in 1 .. n : es[x] = es[y] => x = y
        /\ \A x \in 1 .. n : es[x] # e
    BY DEF BrowsingAt, L, n, e
  <2> QED
    BY <1>4, <1>5, <2>1
<1> QED
  BY <1>1, <1>4, <1>7, <1>8, <1>9 DEF BrowsingAt, L, fs, e

\* A row that is a file makes an entry that no row before made.
LEMMA NewFile ==
    ASSUME path \in AskedPrefixes, NEW a, NEW es, BrowsingAt(a, es), a <= Len(D!ListObjects),
           Len(D!TrimPrefix(D!ListObjects[a].key)) = 1
    PROVE  \A i \in 1 .. Len(es) : es[i] # Made(D!ListObjects[a].key)
<1> DEFINE L == D!ListObjects
<1> SUFFICES ASSUME NEW i \in 1 .. Len(es), es[i] = Made(L[a].key) PROVE FALSE
  OBVIOUS
<1>1. PICK j \in 1 .. Len(L) : j < a /\ es[i] = Made(L[j].key)
  BY DEF BrowsingAt
<1>2. a \in 1 .. Len(L) /\ a \in Nat /\ j \in Nat
  BY ListFacts DEF BrowsingAt
<1>3. L[a].key \in D!Shown /\ L[j].key \in D!Shown
  BY <1>2, ListFacts
<1>4. L[a].key = L[j].key
  BY <1>1, <1>3, SameFile
<1>5. a = j
  BY <1>2, <1>4, ListFacts
<1> QED
  BY <1>1, <1>2, <1>5

\* The entries in another order are the same entries.
LEMMA Permuted ==
    ASSUME NEW n \in Nat, NEW p \in [1 .. n -> 1 .. n], \A i, j \in 1 .. n : p[i] = p[j] => i = j
    PROVE  \A j \in 1 .. n : \E i \in 1 .. n : p[i] = j
<1> DEFINE N == 1 .. n
<1>1. IsFiniteSet(N)
  BY FS_Interval
<1>2. p \in Injection(N, N)
  BY DEF Injection, IsInjective
<1> HIDE DEF N
<1>3. p \in Surjection(N, N)
  BY <1>1, <1>2, FS_Injection
<1> QED
  BY <1>3 DEF Surjection, N

\* A sequence without repetitions has as many elements as its length tells.
LEMMA Distinct ==
    ASSUME NEW S, NEW es \in Seq(S), \A i, j \in 1 .. Len(es) : es[i] = es[j] => i = j
    PROVE  Cardinality(D!ToSet(es)) = Len(es)
<1> DEFINE n == Len(es)
           N == 1 .. n
           T == D!ToSet(es)
<1>1. n \in Nat /\ DOMAIN es = N /\ T = {es[i] : i \in N} /\ es = [i \in N |-> es[i]]
  BY DEF D!ToSet
<1> HIDE DEF n, T
<1>2. IsFiniteSet(N) /\ Cardinality(N) = n
  BY <1>1, FS_Interval
<1>3. \A i, j \in N : es[i] = es[j] => i = j
  BY DEF n
<1> HIDE DEF N
<1>4. es \in Bijection(N, T)
  <2>1. es \in [N -> T]
    BY <1>1
  <2> QED
    BY <1>1, <1>3, <2>1 DEF Bijection, Injection, Surjection, IsInjective
<1> QED
  BY <1>2, <1>4, FS_Bijection DEF ExistsBijection, n, T
\* What BrowseObjects shows of the table when the loop has ended.
CompleteWith(es) ==
    /\ D!ToSet(es) = {D!EntryOf(k) : k \in D!Inside} \cup {D!Directory(k[1]) : k \in Foreign}
    /\ D!Cardinality(D!ToSet(es)) = Len(es)
    /\ D!Dir # <<>> => D!NormalizePrefix(D!ParentPrefix(path)) = D!Front(D!Dir)

\* After the last row the entries are those of the keys of the directory, and the
\* top directories of the others that LIKE selected.
LEMMA LoopDone ==
    ASSUME path \in AskedPrefixes, NEW a, NEW es, BrowsingAt(a, es), a > Len(D!ListObjects),
           NEW p \in [DOMAIN es -> DOMAIN es], \A i, j \in DOMAIN es : p[i] = p[j] => i = j
    PROVE  CompleteWith([i \in DOMAIN es |-> es[p[i]]])
<1> DEFINE L == D!ListObjects
           n == Len(es)
           fs == [i \in DOMAIN es |-> es[p[i]]]
<1>1. es \in Seq(AllMade) /\ n \in Nat /\ DOMAIN es = 1 .. n /\ a \in Nat /\ Len(L) \in Nat
  BY ListFacts DEF BrowsingAt
<1>2. \A j \in 1 .. n : \E i \in 1 .. n : p[i] = j
  <2>1. p \in [1 .. n -> 1 .. n] /\ \A i, j \in 1 .. n : p[i] = p[j] => i = j
    BY <1>1
  <2>2. n \in Nat
    BY <1>1
  <2> HIDE DEF n
  <2> QED
    BY <2>1, <2>2, Permuted
<1>3. fs \in Seq(AllMade) /\ Len(fs) = n /\ \A i \in 1 .. n : p[i] \in 1 .. n /\ fs[i] = es[p[i]]
  <2>1. \A i \in 1 .. n : p[i] \in 1 .. n /\ es[p[i]] \in AllMade
    BY <1>1
  <2> HIDE DEF n
  <2> QED
    BY <1>1, <2>1
<1> HIDE DEF fs
<1>4. D!ToSet(fs) = {es[i] : i \in 1 .. n}
  <2>1. D!ToSet(fs) = {fs[i] : i \in 1 .. n}
    BY <1>1 DEF D!ToSet, fs
  <2> HIDE DEF n
  <2>2. \A i \in 1 .. n : fs[i] \in {es[j] : j \in 1 .. n}
    BY <1>3
  <2>3. ASSUME NEW j \in 1 .. n PROVE es[j] \in {fs[i] : i \in 1 .. n}
    <3>1. PICK i \in 1 .. n : p[i] = j
      BY <1>2
    <3>2. fs[i] = es[j]
      BY <1>3, <3>1
    <3> QED
      BY <3>2
  <2> QED
    BY <2>1, <2>2, <2>3
<1>5. \A j \in 1 .. Len(L) : j < a
  BY <1>1
<1>6. \A k \in D!Shown : ~Skipped(k) => \E i \in 1 .. n : es[i] = Made(k)
  <2> SUFFICES ASSUME NEW k \in D!Shown, ~Skipped(k) PROVE \E i \in 1 .. n : es[i] = Made(k)
    OBVIOUS
  <2>1. PICK j \in 1 .. Len(L) : L[j].key = k
    BY ListFacts
  <2> QED
    BY <1>5, <2>1 DEF BrowsingAt
<1>7. {D!EntryOf(k) : k \in D!Inside} \subseteq D!ToSet(fs)
  <2> SUFFICES ASSUME NEW k \in D!Inside PROVE D!EntryOf(k) \in D!ToSet(fs)
    OBVIOUS
  <2>1. k \in D!Shown /\ D!IsPrefix(D!Dir, k) /\ k # Append(D!Dir, 0)
    BY DEF D!Inside
  <2>2. ~Skipped(k) /\ Made(k) = D!EntryOf(k)
    BY <2>1, Remainders
  <2> QED
    BY <1>4, <1>6, <2>1, <2>2
<1>8. {D!Directory(k[1]) : k \in Foreign} \subseteq D!ToSet(fs)
  <2> SUFFICES ASSUME NEW k \in Foreign PROVE D!Directory(k[1]) \in D!ToSet(fs)
    OBVIOUS
  <2>1. k \in D!Shown /\ ~Skipped(k) /\ Made(k) = D!Directory(k[1])
    BY Remainders DEF Foreign
  <2> QED
    BY <1>4, <1>6, <2>1
<1>9. D!ToSet(fs) \subseteq {D!EntryOf(k) : k \in D!Inside} \cup {D!Directory(k[1]) : k \in Foreign}
  <2> SUFFICES ASSUME NEW i \in 1 .. n
               PROVE  es[i] \in {D!EntryOf(k) : k \in D!Inside} \cup {D!Directory(k[1]) : k \in Foreign}
    BY <1>4
  <2>1. es[i] \in AllMade
    BY <1>1
  <2>2. PICK k \in D!Shown : ~Skipped(k) /\ es[i] = Made(k)
    BY <2>1 DEF AllMade
  <2>3. CASE D!IsPrefix(D!Dir, k)
    <3>1. k # Append(D!Dir, 0) /\ Made(k) = D!EntryOf(k)
      BY <2>2, <2>3, Remainders
    <3> QED
      BY <2>2, <2>3, <3>1 DEF D!Inside
  <2>4. CASE ~D!IsPrefix(D!Dir, k)
    <3>1. Made(k) = D!Directory(k[1])
      BY <2>4, Remainders
    <3> QED
      BY <2>2, <2>4, <3>1 DEF Foreign
  <2> QED
    BY <2>3, <2>4
<1>10. D!Cardinality(D!ToSet(fs)) = Len(fs)
  <2>1. \A i, j \in 1 .. n : es[i] = es[j] => i = j
    BY DEF BrowsingAt
  <2>2. \A i, j \in 1 .. n : fs[i] = fs[j] => i = j
    <3> SUFFICES ASSUME NEW i \in 1 .. n, NEW j \in 1 .. n, fs[i] = fs[j] PROVE i = j
      OBVIOUS
    <3>1. p[i] \in 1 .. n /\ p[j] \in 1 .. n /\ es[p[i]] = es[p[j]]
      BY <1>3
    <3>2. p[i] = p[j]
      BY <2>1, <3>1
    <3>3. i \in DOMAIN es /\ j \in DOMAIN es
      BY <1>1
    <3> QED
      BY <3>2, <3>3
  <2>3. Cardinality(D!ToSet(fs)) = Len(fs)
    BY <1>3, <2>2, Distinct
  <2> QED
    BY <2>3, SameCardinality
<1>11. D!Dir # <<>> => D!NormalizePrefix(D!ParentPrefix(path)) = D!Front(D!Dir)
  <2>1. path \in Seq(Nat) /\ path # <<>> /\ 0 \in Nat
    BY DashboardAssumption
  <2> QED
    BY <2>1, ParentFacts DEF D!Dir
<1> QED
  BY <1>7, <1>8, <1>9, <1>10, <1>11 DEF CompleteWith, fs

-----------------------------------------------------------------------------
(***************************************************************************)
(* The invariant of the object browser.                                    *)
(***************************************************************************)

\* How far a request to browse is, when no other client changed the tables.
Undisturbed ==
    /\ pc = "start" => at = 1 /\ entries = <<>>
    /\ pc \in {"rows", "loop", "shards"} => listed = D!ListObjects /\ BrowsingAt(at, entries)
    /\ pc = "shards" => /\ at <= Len(listed) /\ ~Skipped(listed[at].key)
                        /\ Len(D!TrimPrefix(listed[at].key)) = 1
                        /\ rows = table[listed[at].key]
    /\ pc = "render" => CompleteWith(entries)

BrowseOK ==
    page = "browse" =>
        /\ pc \in {"start", "rows", "loop", "shards", "render", "done"}
        /\ path \in AskedPrefixes
        /\ changed \in Nat
        /\ changed = 0 => Undisturbed

\* The rows and the entries depend on the prefix and the table only.
LEMMA SameBrowse ==
    ASSUME UNCHANGED <<path, table>>
    PROVE  /\ D!ListObjects' = D!ListObjects /\ D!Shown' = D!Shown /\ AllMade' = AllMade
           /\ Foreign' = Foreign /\ \A k : Made(k)' = Made(k) /\ Skipped(k)' = Skipped(k)
           /\ \A k : D!TrimPrefix(k)' = D!TrimPrefix(k)
           /\ D!Inside' = D!Inside /\ D!Dir' = D!Dir /\ \A k : D!EntryOf(k)' = D!EntryOf(k)
<1>1. D!Dir' = D!Dir
  BY DEF D!Dir, D!NormalizePrefix, D!Front
<1>2. \A k : D!TrimPrefix(k)' = D!TrimPrefix(k)
  BY <1>1 DEF D!TrimPrefix, D!IsPrefix
<1>3. D!Found' = D!Found
  BY <1>1 DEF D!Found, D!Like
<1>4. \A k : D!Rank(k)' = D!Rank(k)
  BY <1>3 DEF D!Rank, D!Before, D!Cardinality, D!IsFiniteSet
<1>5. D!Shown' = D!Shown
  BY <1>3, <1>4 DEF D!Shown
<1>6. D!ListObjects' = D!ListObjects
  BY <1>3, <1>4 DEF D!ListObjects, D!Cardinality, D!IsFiniteSet
<1>7. \A k : Made(k)' = Made(k) /\ Skipped(k)' = Skipped(k)
  BY <1>2 DEF Made, Skipped, D!Directory, D!File
<1>8. AllMade' = AllMade /\ Foreign' = Foreign
  BY <1>1, <1>5, <1>7 DEF AllMade, Foreign, D!IsPrefix
<1>9. D!Inside' = D!Inside /\ \A k : D!EntryOf(k)' = D!EntryOf(k)
  BY <1>1, <1>5 DEF D!Inside, D!IsPrefix, D!EntryOf, D!Directory, D!File
<1> QED
  BY <1>1, <1>2, <1>5, <1>6, <1>7, <1>8, <1>9

\* So does what the loop has done.
LEMMA SameLoop ==
    ASSUME UNCHANGED <<path, table>>
    PROVE  /\ BrowsingAt(at', entries') => BrowsingAt(at, entries)'
           /\ CompleteWith(entries') => CompleteWith(entries)'
<1> DEFINE L == D!ListObjects
<1>1. /\ L' = L /\ AllMade' = AllMade /\ Foreign' = Foreign
      /\ \A k : Made(k)' = Made(k) /\ Skipped(k)' = Skipped(k)
      /\ D!Inside' = D!Inside /\ D!Dir' = D!Dir /\ \A k : D!EntryOf(k)' = D!EntryOf(k)
  BY SameBrowse
<1> HIDE DEF L
<1>2. ASSUME BrowsingAt(at', entries') PROVE BrowsingAt(at, entries)'
  BY <1>1, <1>2 DEF BrowsingAt, L
<1>3. ASSUME CompleteWith(entries') PROVE CompleteWith(entries)'
  <2>1. /\ D!NormalizePrefix(D!ParentPrefix(path))' = D!NormalizePrefix(D!ParentPrefix(path))
        /\ D!Front(D!Dir)' = D!Front(D!Dir)
    BY <1>1 DEF D!NormalizePrefix, D!ParentPrefix, D!Front
  <2> QED
    BY <1>1, <1>3, <2>1 DEF CompleteWith, D!ToSet, D!Directory, D!Cardinality, D!IsFiniteSet
<1> QED
  BY <1>2, <1>3

\* A step of the loop, or one before or after it, with the tables as they were.
LEMMA UndisturbedStep ==
    ASSUME page = "browse", path \in AskedPrefixes, Undisturbed, D!Next, UNCHANGED <<path, table>>,
           pc \in {"start", "rows", "loop", "shards", "render", "done"}
    PROVE  Undisturbed'
<1> DEFINE L == D!ListObjects
<1>1. L' = L /\ \A k : Skipped(k)' = Skipped(k) /\ D!TrimPrefix(k)' = D!TrimPrefix(k)
  BY SameBrowse
<1> HIDE DEF L
<1>2. BrowsingAt(at', entries') => BrowsingAt(at, entries)'
  BY SameLoop
<1>3. CompleteWith(entries') => CompleteWith(entries)'
  BY SameLoop
<1>4. pc \in {"rows", "loop", "shards"} => listed = L /\ BrowsingAt(at, entries)
  BY DEF Undisturbed, L
<1>5. CASE D!Browse
  <2>1. BrowsingAt(1, <<>>)
    BY DEF BrowsingAt
  <2> QED
    BY <1>1, <1>2, <1>5, <2>1 DEF D!Browse, Undisturbed, L
<1>6. CASE D!RowsRead
  BY <1>1, <1>2, <1>4, <1>6 DEF D!RowsRead, D!browser, Undisturbed, L
<1>7. CASE D!SkipMarker
  BY <1>1, <1>2, <1>4, <1>7, PassRow DEF D!SkipMarker, D!Remainder, D!Current, D!answer, Skipped, Undisturbed, L
<1>8. CASE D!AddDirectory
  <2> DEFINE k == listed[at].key
  <2>1. /\ pc = "loop" /\ pc' = pc /\ at <= Len(L) /\ at' = at + 1 /\ listed' = listed /\ listed = L
        /\ BrowsingAt(at, entries) /\ k = L[at].key
    BY <1>4, <1>8 DEF D!AddDirectory, D!answer
  <2>2. Len(D!TrimPrefix(k)) > 1
    BY <1>8 DEF D!AddDirectory, D!Remainder, D!Current
  <2>3. entries' = IF D!Contains(entries, Made(k)) THEN entries ELSE Append(entries, Made(k))
    BY <1>8, <2>2 DEF D!AddDirectory, D!Remainder, D!Current, Made
  <2>4. ~Skipped(k)
    <3>1. ~(Len(<<0>>) > 1)
      OBVIOUS
    <3> QED
      BY <2>2, <3>1, Zenon DEF Skipped
  <2> HIDE DEF k
  <2>5. BrowsingAt(at', entries')
    <3>1. CASE D!Contains(entries, Made(k))
      BY <2>1, <2>3, <3>1, PassRow DEF D!Contains, L
    <3>2. CASE ~D!Contains(entries, Made(k))
      <4>1. \A i \in 1 .. Len(entries) : entries[i] # Made(k)
        BY <3>2 DEF D!Contains
      <4> QED
        BY <2>1, <2>3, <2>4, <3>2, <4>1, AddRow DEF L
    <3> QED
      BY <3>1, <3>2
  <2> QED
    BY <1>1, <1>2, <2>1, <2>5 DEF Undisturbed, L
<1>9. CASE D!GetChunks
  <2>1. pc = "loop" /\ pc' = "shards" /\ at <= Len(listed) /\ rows' = table[listed[at].key]
        /\ Len(D!TrimPrefix(listed[at].key)) = 1 /\ ~Skipped(listed[at].key)
        /\ UNCHANGED <<listed, at, entries>>
    BY <1>9 DEF D!GetChunks, D!Remainder, D!Current, Skipped
  <2> QED
    BY <1>1, <1>2, <1>4, <2>1 DEF Undisturbed, L
<1>10. CASE D!GetShards
  <2> DEFINE k == listed[at].key
  <2>1. /\ pc = "shards" /\ pc' = "loop" /\ at' = at + 1 /\ listed' = listed /\ listed = L
        /\ at <= Len(L) /\ BrowsingAt(at, entries) /\ k = L[at].key /\ ~Skipped(k)
        /\ Len(D!TrimPrefix(k)) = 1 /\ rows = table[k]
    BY <1>4, <1>10 DEF D!GetShards, Undisturbed
  <2>2. Made(k) = D!File(D!TrimPrefix(k)[1], table[k])
    BY <2>1 DEF Made
  <2>3. entries' = Append(entries, Made(k))
    BY <1>10, <2>1, <2>2 DEF D!GetShards, D!Remainder, D!Current
  <2> HIDE DEF k
  <2>4. \A i \in 1 .. Len(entries) : entries[i] # Made(k)
    BY <2>1, NewFile DEF L
  <2>5. BrowsingAt(at', entries')
    BY <2>1, <2>3, <2>4, AddRow DEF L
  <2> QED
    BY <1>1, <1>2, <2>1, <2>5 DEF Undisturbed, L
<1>11. CASE D!BrowseDone
  <2>1. pc = "loop" /\ pc' = "render" /\ at > Len(L) /\ BrowsingAt(at, entries)
    BY <1>4, <1>11 DEF D!BrowseDone
  <2>2. PICK p \in [DOMAIN entries -> DOMAIN entries] :
            /\ \A i, j \in DOMAIN entries : p[i] = p[j] => i = j
            /\ entries' = [i \in DOMAIN entries |-> entries[p[i]]]
    BY <1>11 DEF D!BrowseDone
  <2>3. CompleteWith(entries')
    BY <2>1, <2>2, LoopDone DEF L
  <2> QED
    BY <1>3, <2>1, <2>3 DEF Undisturbed
<1>12. CASE pc' = "done"
  BY <1>12 DEF Undisturbed
<1>13. CASE UNCHANGED <<pc, listed, at, rows, entries>>
  <2>1. pc = "render" => CompleteWith(entries')
    BY <1>13 DEF Undisturbed
  <2>2. pc \in {"rows", "loop", "shards"} => BrowsingAt(at', entries')
    BY <1>4, <1>13
  <2> QED
    BY <1>1, <1>2, <1>3, <1>13, <2>1, <2>2 DEF Undisturbed, L
<1>14. \/ D!Browse \/ D!RowsRead \/ D!SkipMarker \/ D!AddDirectory \/ D!GetChunks \/ D!GetShards \/ D!BrowseDone
       \/ pc' = "done"
       \/ UNCHANGED <<pc, listed, at, rows, entries>>
  BY DEF D!Next, D!Handle, D!StaticPage, D!ListBucketsWithStats, D!ListBuckets, D!Render, D!CreateBucket,
         D!DeleteBucket, D!BucketsFragment, D!Ping, D!Tick, D!ContextDone, D!BrowseFails,
         D!ClientLeaves, D!OthersBegin, D!OthersCommit, D!answer, D!Answer, D!browser
<1> QED
  BY <1>5, <1>6, <1>7, <1>8, <1>9, <1>10, <1>11, <1>12, <1>13, <1>14

\* Every step of the program keeps the invariant of the object browser.
LEMMA BrowseInv == IndInv /\ BrowseOK /\ [Next]_vars => BrowseOK'
<1> SUFFICES ASSUME IndInv, BrowseOK, [Next]_vars PROVE BrowseOK'
  OBVIOUS
<1>1. CASE page' # "browse"
  BY <1>1 DEF BrowseOK
<1>2. CASE UNCHANGED dashboardVars /\ UNCHANGED pc /\ page = "browse"
  <2>1. UNCHANGED <<page, path, table, listed, at, rows, entries, changed, pc>>
    BY <1>2 DEF dashboardVars
  <2>2. Undisturbed => Undisturbed'
    <3>1. /\ D!ListObjects' = D!ListObjects
          /\ \A k : Skipped(k)' = Skipped(k) /\ D!TrimPrefix(k)' = D!TrimPrefix(k)
      BY <2>1, SameBrowse
    <3>2. /\ BrowsingAt(at', entries') => BrowsingAt(at, entries)'
          /\ CompleteWith(entries') => CompleteWith(entries)'
      BY <2>1, SameLoop
    <3> QED
      BY <2>1, <3>1, <3>2 DEF Undisturbed
  <2> QED
    BY <1>2, <2>1, <2>2 DEF BrowseOK
<1>3. CASE page = "browse" /\ D!Next
  <2>1. UNCHANGED <<page, path>>
    BY <1>3, DashboardFrame
  <2>2. \/ changed' = changed + 1 /\ UNCHANGED pc
        \/ UNCHANGED <<changed, table>>
    BY <1>3 DEF D!Next, D!Handle, D!StaticPage, D!ListBucketsWithStats, D!ListBuckets, D!Render, D!CreateBucket,
         D!DeleteBucket, D!BucketsFragment, D!Browse, D!RowsRead, D!SkipMarker, D!AddDirectory,
         D!GetChunks, D!GetShards, D!BrowseDone, D!Ping, D!Tick, D!ContextDone, D!BrowseFails,
         D!ClientLeaves, D!OthersBegin, D!OthersCommit, D!database, D!answer
  <2>3. pc' \in {"start", "rows", "loop", "shards", "render", "done"}
    BY <1>3 DEF BrowseOK, D!Next, D!Handle, D!StaticPage, D!ListBucketsWithStats, D!ListBuckets, D!Render,
         D!CreateBucket, D!DeleteBucket, D!BucketsFragment, D!Browse, D!RowsRead, D!SkipMarker,
         D!AddDirectory, D!GetChunks, D!GetShards, D!BrowseDone, D!Ping, D!Tick, D!ContextDone,
         D!BrowseFails, D!ClientLeaves, D!OthersBegin, D!OthersCommit, D!answer, D!Answer
  <2>4. changed' \in Nat /\ (changed' = 0 => changed = 0 /\ UNCHANGED table)
    BY <1>3, <2>2 DEF BrowseOK
  <2>5. changed' = 0 => Undisturbed'
    BY <1>3, <2>1, <2>4, UndisturbedStep DEF BrowseOK
  <2> QED
    BY <1>3, <2>1, <2>3, <2>4, <2>5 DEF BrowseOK
<1>4. \/ page' # "browse"
      \/ UNCHANGED dashboardVars /\ UNCHANGED pc /\ page = "browse"
      \/ page = "browse" /\ D!Next
  <2>1. CASE Middleware
    <3>1. UNCHANGED page
      BY <2>1 DEF Middleware, RequireSigV4, Routes, HandleRequest, GetBucket, GetBucketTagging, handlerVars,
                  dashboardVars
    <3>2. page = "static"
      BY <2>1 DEF IndInv, Routed, Admitted, Middleware, RequireSigV4, Routes, HandleRequest, GetBucket,
                  GetBucketTagging, S3Handler
    <3> QED
      BY <3>1, <3>2
  <2>2. CASE RunsObject \/ RunsUpload
    BY <2>2, Frames DEF RunsObject, RunsUpload, S3Handler, dashboardVars
  <2>3. CASE RunsDashboard /\ D!Next
    <3>1. UNCHANGED page
      BY <2>3, DashboardFrame
    <3> QED
      BY <2>3, <3>1
  <2>4. CASE UNCHANGED vars
    BY <2>4 DEF vars, dashboardVars
  <2> QED
    BY <2>1, <2>2, <2>3, <2>4 DEF Next, Terminated
<1> QED
  BY <1>1, <1>2, <1>3, <1>4

\* With no change meanwhile the object browser shows the first BrowseLimit keys
\* that LIKE selects: those of the directory under exactly one entry each, the
\* others as the directory at their top, nothing twice and nothing else, and links
\* to the parent: for any keys, prefix, folding of cases, wildcards and limit.
THEOREM BrowseIsCompleteAlways == Spec => []BrowseIsComplete
<1>1. Init => BrowseOK
  <2> SUFFICES ASSUME Init PROVE BrowseOK
    OBVIOUS
  <2>1. pc = "start"
    BY DEF Init, ObjectInit, OH!Init
  <2> QED
    BY <2>1 DEF Init, ToS3, ToDashboard, D!Init, BrowseOK, Undisturbed
<1>2. BrowseOK => BrowseIsComplete
  <2> SUFFICES ASSUME BrowseOK, page = "browse", pc = "render", changed = 0 PROVE CompleteWith(entries)
    BY DEF BrowseIsComplete, D!BrowseIsComplete, CompleteWith, Foreign
  <2> QED
    BY DEF BrowseOK, Undisturbed
<1> QED
  BY <1>1, <1>2, Invariance, BrowseInv, PTL DEF Spec
=============================================================================
