------------------------------- MODULE Server -------------------------------
(***************************************************************************)
(* One HTTP request on its way through the program: a request to the S3    *)
(* port passes the middleware, is routed by host, method, key and query,   *)
(* is parsed and reaches its handler (modules ObjectHandlers and           *)
(* MultipartHandlers, and here the handlers that only look at the bucket); *)
(* a request to the dashboard's port goes to module Dashboard.  The        *)
(* handlers of ListObjectsV2, ListParts and UploadPart are followed in     *)
(* modules Listing and UploadPart.                                         *)
(***************************************************************************)
EXTENDS Integers, Sequences, FiniteSets

CONSTANTS
    HttpRequests,      \* the requests to the S3 port
    ObjectRequests,    \* the headers and bodies of requests on objects
    Keys, Versions, MaxChanges,
    Parts, ETags, NoETag, BadList, MaxUploads,
    Paths, Fold, Wild, AskedPrefixes, BrowseLimit, MaxTransactions

VARIABLES
    stage,   \* how far the request is: "middleware", "routing", "parsing",
             \* "handler", or "elsewhere" if its handler is in another module
    http,    \* the request line and what routing and parsing see of the rest
    pc, status,
    objects, req, seen, target, next, deleted, removed, destroyed, stale, changes,
    exists, stored, object, taken, kind, bucketMatches, keyMatches, ifNoneMatch,
    ifMatch, initiated, listedParts, plan, moving, committed, raced, uploads,
    page, path, table, bucket, conn, client, listed, at, rows, entries, effect, changed

OH == INSTANCE ObjectHandlers WITH Requests <- ObjectRequests
MH == INSTANCE MultipartHandlers WITH listed <- listedParts
D == INSTANCE Dashboard

Hosts == {"root", "bucket", "nameless", "other"}
Methods == {"GET", "HEAD", "PUT", "POST", "DELETE", "PATCH"}
Parameters == {"location", "tagging", "acl", "encryption", "uploads", "uploadId", "delete"}

ASSUME HttpRequestsAssumption ==
    HttpRequests \subseteq
        [host : Hosts,                 \* the FQDN, a name below it, "." FQDN, another
         method : Methods,
         key : BOOLEAN,                \* whether the path has a key
         query : SUBSET Parameters,
         owner : BOOLEAN,              \* no x-amz-expected-bucket-owner, or the account's
         fields : {"ok", "unparsable", "outOfRange", "empty"}]
ASSUME VersionsAssumption == Versions \subseteq [etag : Nat, modified : Nat, size : Nat]
ASSUME ObjectRequestsAssumption ==
    \A r \in ObjectRequests :
        /\ r.kind \in OH!Kinds
        /\ r.key \in Keys
        /\ {r.ifMatch, r.ifNoneMatch, r.ifMatchSize} \subseteq OH!Header
        /\ {r.ifModifiedSince, r.ifUnmodifiedSince, r.ifMatchLastModifiedTime}
                \subseteq OH!Header \ {OH!Any}
        /\ r.rangeOk \in BOOLEAN       \* no Range, or one within the size
        /\ r.part \in BOOLEAN          \* whether it names a part number
        /\ r.batch \in Seq(Keys)       \* the keys in the body of DeleteObjects
        /\ r.quiet \in BOOLEAN
ASSUME ReadAssumption == \E r \in ObjectRequests : r.kind = "GetObject"
ASSUME UploadAssumption ==
    /\ NoETag \notin ETags
    /\ Parts \subseteq Nat \ {0}
    /\ BadList \notin MH!Lists
ASSUME DashboardAssumption ==
    /\ DOMAIN Fold \subseteq Nat /\ IsFiniteSet(Paths)
    /\ \A k \in Paths : k \in Seq(DOMAIN Fold) /\ k # <<>>
    /\ AskedPrefixes \subseteq Seq(DOMAIN Fold) \ {<<>>}
    /\ \A s \in DOMAIN Fold : Fold[s] \in DOMAIN Fold /\ Fold[Fold[s]] = Fold[s]
    /\ 0 \in DOMAIN Fold /\ \A s \in DOMAIN Fold : Fold[s] = 0 <=> s = 0
    /\ BrowseLimit \in Nat \ {0}
ASSUME BoundsAssumption == {MaxChanges, MaxUploads, MaxTransactions} \subseteq Nat

objectVars == <<objects, req, seen, target, next, deleted, removed, destroyed, stale, changes>>
uploadVars == <<exists, stored, object, taken, kind, bucketMatches, keyMatches, ifNoneMatch,
                ifMatch, initiated, listedParts, plan, moving, committed, raced, uploads>>
dashboardVars == <<page, path, table, bucket, conn, client, listed, at, rows, entries,
                   effect, changed>>
vars == <<stage, http, pc, status, objectVars, uploadVars, dashboardVars>>

-----------------------------------------------------------------------------
(***************************************************************************)
(* Routing.  A table lists query parameters with the handler each selects; *)
(* the first that the request has counts.                                  *)
(***************************************************************************)
Dispatch(cases, default) ==
    LET hits == {i \in DOMAIN cases : cases[i][1] \in http.query}
    IN  IF hits = {} THEN default
        ELSE cases[CHOOSE i \in hits : \A j \in hits : i <= j][2]

BucketsGet == IF http.key THEN "none" ELSE "ListBuckets"

BucketPresentGet ==
    IF http.key
    THEN Dispatch(<< <<"tagging", "GetObjectTagging">>, <<"acl", "GetObjectAcl">>,
                     <<"uploadId", "ListParts">> >>, "GetObject")
    ELSE Dispatch(<< <<"location", "GetBucketLocation">>, <<"tagging", "GetBucketTagging">>,
                     <<"acl", "GetBucketAcl">>, <<"encryption", "GetBucketEncryption">>,
                     <<"uploads", "ListMultipartUploads">> >>, "ListObjectsV2")

BucketPresentHead == IF http.key THEN "HeadObject" ELSE "HeadBucket"

BucketPresentPut ==
    IF http.key THEN Dispatch(<< <<"uploadId", "UploadPart">> >>, "PutObject") ELSE "none"

BucketPresentPost ==
    Dispatch(<< <<"delete", "DeleteObjects">>, <<"uploads", "CreateMultipartUpload">>,
                <<"uploadId", "CompleteMultipartUpload">> >>, "none")

\* Mutant of BucketPresentDelete: the query is not looked at.
BucketPresentDeletePlain == IF http.key THEN "DeleteObject" ELSE "none"

BucketPresentDelete ==
    IF http.key
    THEN Dispatch(<< <<"uploadId", "AbortMultipartUpload">> >>, "DeleteObject")
    ELSE "none"

\* The handler of the request; "none" if the route function answers 500 itself,
\* "notFound" and "notAllowed" if the routers do.
Route ==
    CASE http.host = "other" -> "notFound"
      [] http.host = "root" -> (IF http.method = "GET" THEN BucketsGet ELSE "notAllowed")
      [] OTHER ->
            CASE http.method = "GET" -> BucketPresentGet
              [] http.method = "HEAD" -> BucketPresentHead
              [] http.method = "PUT" -> BucketPresentPut
              [] http.method = "POST" -> BucketPresentPost
              [] http.method = "DELETE" -> BucketPresentDelete
              [] OTHER -> "notAllowed"

BucketLookups == {"GetBucketLocation", "HeadBucket", "GetBucketEncryption", "GetBucketAcl"}
KeyRequired == (OH!Kinds \cup MH!Kinds \cup {"UploadPart", "ListParts", "ListMultipartUploads"})
UploadIdRequired == {"UploadPart", "ListParts", "CompleteMultipartUpload", "AbortMultipartUpload"}
Elsewhere == {"ListObjectsV2", "ListParts", "UploadPart"}

-----------------------------------------------------------------------------
(***************************************************************************)
(* The initial states: a request to either port.  The variables of the     *)
(* handlers it does not reach have fixed values.                           *)
(***************************************************************************)
NoHttp == [host |-> "other", method |-> "GET", key |-> FALSE, query |-> {}, owner |-> TRUE,
           fields |-> "ok"]

ObjectInit ==
    /\ OH!Init
    /\ IF Route \in OH!Kinds
       THEN req.kind = Route
       ELSE /\ objects = [k \in Keys |-> OH!Gone]
            /\ req = CHOOSE r \in ObjectRequests : r.kind = "GetObject"

UploadInit ==
    IF Route \in MH!Kinds
    THEN MH!Init /\ kind = Route
    ELSE /\ exists = FALSE /\ stored = MH!NoParts /\ object = MH!NoParts /\ taken = FALSE
         /\ kind = "AbortMultipartUpload" /\ bucketMatches = FALSE /\ keyMatches = FALSE
         /\ ifNoneMatch = FALSE /\ ifMatch = "none" /\ initiated = "none"
         /\ listedParts = BadList /\ plan = MH!NoParts /\ moving = MH!NoParts
         /\ committed = FALSE /\ raced = {} /\ uploads = 0

ToS3 ==
    /\ stage = "middleware"
    /\ http \in HttpRequests
    /\ page = "static" /\ path = <<0>> /\ table = [k \in Paths |-> 0]
    /\ bucket \in BOOLEAN /\ (Route \in BucketLookups \/ bucket)
    /\ conn = "free" /\ client = "here" /\ listed = <<>> /\ at = 1 /\ rows = 0
    /\ entries = <<>> /\ effect = "none" /\ changed = 0

ToDashboard ==
    /\ stage = "handler"
    /\ http = NoHttp
    /\ D!Init

Init == (ToS3 \/ ToDashboard) /\ ObjectInit /\ UploadInit

-----------------------------------------------------------------------------
Answer(code) == status' = code /\ pc' = "done"
handlerVars == <<http, objectVars, uploadVars, dashboardVars>>

\* requireSigV4 and preCheckHeaders.
RequireSigV4 ==
    /\ pc = "start" /\ stage = "middleware"
    /\ IF http.owner
       THEN stage' = "routing" /\ UNCHANGED <<pc, status>>
       ELSE Answer(403) /\ UNCHANGED stage
    /\ UNCHANGED handlerVars

\* The host router, the router of the host and the route function.
Routes ==
    /\ pc = "start" /\ stage = "routing"
    /\ CASE Route = "notFound" -> Answer(404) /\ UNCHANGED stage
         [] Route = "notAllowed" -> Answer(405) /\ UNCHANGED stage
         [] Route = "none" -> Answer(500) /\ UNCHANGED stage
         [] OTHER -> stage' = "parsing" /\ UNCHANGED <<pc, status>>
    /\ UNCHANGED handlerVars

\* The bucket name is missing for the root host, which only ListBuckets is routed
\* from, and for a host that begins with the dot.
Refused ==
    \/ http.host # "bucket"
    \/ Route \in KeyRequired /\ ~http.key
    \/ Route \in UploadIdRequired /\ http.fields = "empty"
    \/ http.fields = "outOfRange"

\* HandleRequest.
HandleRequest ==
    /\ pc = "start" /\ stage = "parsing"
    /\ IF http.fields = "unparsable" THEN Answer(500) /\ UNCHANGED stage
       ELSE IF Refused THEN Answer(400) /\ UNCHANGED stage
       ELSE /\ stage' = IF Route \in Elsewhere THEN "elsewhere" ELSE "handler"
            /\ UNCHANGED <<pc, status>>
    /\ UNCHANGED handlerVars

S3Handler(routes) == stage = "handler" /\ http # NoHttp /\ Route \in routes

\* GetBucketLocation, HeadBucket, GetBucketEncryption, GetBucketAcl: every error of
\* the lookup is 404.
GetBucket ==
    /\ pc = "start" /\ S3Handler(BucketLookups)
    /\ (bucket /\ Answer(200)) \/ Answer(404)
    /\ UNCHANGED <<stage, handlerVars>>

GetBucketTagging ==
    /\ pc = "start" /\ S3Handler({"GetBucketTagging"})
    /\ Answer(200)
    /\ UNCHANGED <<stage, handlerVars>>

RunsObject == S3Handler(OH!Kinds) /\ UNCHANGED <<stage, http, uploadVars, dashboardVars>>
RunsUpload == S3Handler(MH!Kinds) /\ UNCHANGED <<stage, http, objectVars, dashboardVars>>
RunsDashboard == stage = "handler" /\ http = NoHttp /\ UNCHANGED <<stage, http, objectVars, uploadVars>>

Middleware == RequireSigV4 \/ Routes \/ HandleRequest \/ GetBucket \/ GetBucketTagging

Terminated == (pc = "done" \/ stage = "elsewhere") /\ UNCHANGED vars

Next ==
    \/ Middleware
    \/ RunsObject /\ OH!Next
    \/ RunsUpload /\ MH!Next
    \/ RunsDashboard /\ D!Next
    \/ Terminated

\* The goroutine of the request goes on; another client's transaction ends; the
\* select of the health stream does not pass over the end of the context forever.
Fairness ==
    /\ WF_vars(Middleware)
    /\ WF_vars(RunsObject /\ OH!Handle)
    /\ WF_vars(RunsUpload /\ MH!Handle)
    /\ WF_vars(RunsDashboard /\ D!Handle)
    /\ WF_vars(RunsDashboard /\ D!OthersCommit)
    /\ SF_vars(RunsDashboard /\ D!ContextDone)

Spec == Init /\ [][Next]_vars /\ Fairness

-----------------------------------------------------------------------------
(***************************************************************************)
(* Properties.                                                             *)
(***************************************************************************)

\* The answer tells the client what its deletion did to the object, what its batch
\* did to the object of its path, and whether a form of the dashboard took effect,
\* also when others change the same objects and buckets (DeleteObject,
\* DeleteObjects, createBucket, deleteBucket).
AnswerTellsEffect == OH!AnswerTellsEffect /\ D!FormTellsEffect

\* A completion that answers 200 has committed, and has assembled every part it
\* has read that no other client replaced or dropped before its transaction
\* (CompleteMultipartUpload; see module MultipartHandlers).
OkIsAssembled == MH!OkIsAssembled

\* Without a change meanwhile the object browser shows exactly the keys among the
\* first BrowseLimit that LIKE selects: those of the directory under their own
\* entry, others as the directory at their top (BrowseObjects).
BrowseIsComplete == D!BrowseIsComplete

\* A step of the request itself, not of another client.
Own == pc' # pc \/ next' # next
Removes == removed' # removed \/ destroyed' # destroyed
Stores == objects' # objects /\ removed' = removed
EndsUpload == exists /\ ~exists'

\* What a request changes is what it asks for.  A request for another owner's
\* bucket, with a host or a path that names no bucket or no key, or that is to
\* read, changes nothing; one that names an upload stores and removes no object
\* unless it asks for a batch deletion; an upload is ended only by a request that
\* names one (requireSigV4, HandleRequest, the route functions and the handlers).
EffectIsAsked ==
    [][Own /\ (objects' # objects \/ Removes \/ exists' # exists \/ object' # object) =>
            /\ http.owner /\ http.host = "bucket" /\ http.key
            /\ http.method \notin {"GET", "HEAD"}
            /\ "uploadId" \in http.query =>
                    ~Stores /\ (Removes => "delete" \in http.query /\ http.method = "POST")
            /\ EndsUpload => "uploadId" \in http.query
            /\ Removes => http.method = "DELETE" \/ "delete" \in http.query]_vars

\* Every request is answered, whatever the other users of the one database
\* connection do, and the goroutine of a health stream ends once its client left
\* (requireSigV4, BrowseObjects, healthLongLived).  UploadPart is not among them:
\* see module UploadPart.
Answered ==
    /\ page # "stream" ~> pc = "done" \/ stage = "elsewhere"
    /\ client = "gone" ~> pc = "done"
=============================================================================
