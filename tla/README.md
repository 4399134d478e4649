# ShardS3 in TLA+

ShardS3 is an S3-compatible server that spreads every object over several
unreliable storage backends (files, Discord, Telegram): an object is cut into
chunks, a chunk is compressed, encrypted and Reed-Solomon coded into shards, the
shards go to the backends, and SQLite keeps the list of what is where. This
directory holds TLA+ models of the parts that carry that promise, the TLC runs
that check them, and TLAPS proofs about eight of them. Paths below are relative to
`src/src/shards3/internal/`.

## 1. Inventory

| Component | State | Operations | Used by |
|---|---|---|---|
| `modules/storage/shard` | none of its own; locals of its loops | `ShardData`, `CollectShards`, `DestroyShards` | chunker |
| `modules/storage/chunker` | an errgroup, the map of completed chunks, the context | `ChunkStream`, `CollectChunksStream`, `DeleteChunks` | objectManager, object |
| `modules/storage/metadata`, `platform/db` | tables buckets, objects, multipart_uploads, multipart_parts, chunks, shards, with foreign keys and cascades | put, get, delete, list of objects, buckets, uploads and parts | objectManager, handlers |
| `modules/storage/objectManager` | none | `PutObjectStream`, `GetObject`, `UpdateObjectStream`, `DeleteObject`, the multipart calls | handlers, dashboard |
| `modules/storage/object` | two pipes and a goroutine per download | `GetDataStream`, `normalizeRange`, `streamRangeFromChunks` | handlers |
| `modules/s3/web` | per request: pipes, goroutines, the response's status | the middleware, routing by host and query, request parsing, the S3 operations | clients |
| `modules/s3/checksum` | none | `VerifyChecksums` | UploadPart |
| `modules/s3/auth` | none | signature check | middleware |
| `modules/storage/interfaces` | the registry of instances, one client per remote backend, remote blobs, a map in memory for an unconfigured remote backend | `PutObject`, `GetObject`, `DeleteObject` of the drivers file, telegram and discord | shard |
| `modules/storage/encryption` | table kms_keys, password file | `ConfigureKMS`, `CreateKey`, `GetKey`, `DeleteKey`, `Encrypt`, `Decrypt` | chunker, main |
| `modules/storage/compression` | none | zstd | chunker |
| `modules/dashboard` | none; a goroutine per health stream | pages, object browser, forms for buckets, health fragment and stream | operator |
| `platform/config`, `backendconfig`, `main.go` | the configuration of this start | load, check, build the backends, serve | all |
| `platform/db` | one SQLite connection by default (`SQLITE_MAX_OPEN_CONNS`) | statements and transactions | metadata, KMS |

How they interact. A PUT runs handler → objectManager → `ChunkStream`, which
reads the body in its own goroutine and starts at most `ChunkConcurrency`
workers; each worker calls `ShardData`, which starts a goroutine per backend;
when all is stored, one SQLite transaction records it. `UploadPart` puts two
pipes before that, one for the checksum goroutine, one for `UploadPartStream`.
A GET reads row, chunk rows and shard rows by separate statements and then runs
three goroutines joined by two pipes. A DELETE reads the same rows, deletes
shards one by one and then the row. Requests share nothing but the tables, the
database connection, the key store and the backends; there is no lock between
them. Before any of that, `main` makes or finds the password file, builds the
backends from `backends.yaml` and compares their number with the failure
tolerance; what was stored by one start has to be read by the next, possibly
with another configuration.

What is hard here:

* **concurrency**: workers finishing in any order, a failure while others are
  queued or running; goroutines that race to close a pipe or to write a status;
  statements of different requests interleaving between a check and its
  transaction;
* **failure**: backends that refuse a put or a delete in the middle, bodies that
  break off, clients that leave, a restart between the deletion of shards and of
  the row, a first start that is interrupted while it writes the password, a
  backend that is unreachable, moved or switched off when it is needed;
* **shared resources**: one database connection for all requests, kept by a query
  until its last row is read;
* **arithmetic**: the split of shards over backends, the parity needed for a
  given failure tolerance, blobs of different maximum sizes, ranges and their
  `int64` bounds, pages and offsets.

What makes each part correct: *shard* — any tolerated set of failed backends
leaves enough shards, and the blobs are a partition that fits the backends;
*chunker* — success means every chunk is on every backend, in order; failure
leaves nothing running and cleans up; *metadata and objectManager* — an object's
chunks are those its ETag was computed from, no data crosses keys, shards that a
row names exist; *object* — the response is the range asked for and never ends
cleanly too early; *handlers* — the status tells the client what happened, every
request is answered, a request changes only what it asks for, listings are
complete; *encryption* — a key that was made can be opened by every later start;
*backends* — an acknowledged chunk is readable as long as no more backends are
out of service than were tolerated; *dashboard* — its forms report what they
did, its browser shows every key, its streams end with their clients.

`PROJECT.json` lists each hazard with its line and the properties aimed at it.

## 2. Modules

Every module names its actions after the functions or blocks they stand for;
`PROJECT.json` maps each definition to its lines. Definitions marked *Mutant of*
are wrong on purpose: substituting one makes TLC violate the property it is
listed with, so they show what each property would catch.

**ShardData** (`shard/service.go`, `processChunk`'s parity count). One call of
`ShardData` for one chunk. Each loop of the code is a sequence of steps: the scan
for the smallest blob size, the search for a shard size, the search for the
parity count, the distribution, the greedy merge, and the uploads, which
interleave across backends. A shard is its index; Reed-Solomon is its defining
property (any `DataCount` of the `Total` shards restore the chunk), used in
`Restores`. `Init` carries main.go's start-up guard, more backends than
`FailureTolerance`.

**ChunkStream** (`chunker/service.go`). The read loop, the errgroup with its
limit, one worker per chunk and one upload per chunk and backend, cancellation,
`g.Wait`, and the cleanup in map order with deletions that may be refused. The
body delivers full chunks, a short last one, an end, a failure, or is cut off.

**ObjectStore** (`objectManager`, `metadata`, `db`). The tables are functions from
keys to rows; requests are processes whose program counters stand between the
statements of the code; a transaction or a single statement is one step. A write
request is its own data: its chunks are `<<w, 1>> .. <<w, ChunkCount[w]>>`. A
shard row lives with its chunk row. `Crash` ends all requests and keeps tables
and blobs. `condemned` and `raced` are histories for the properties: no action
reads them.

**ReadStream** (`object/service.go`, `CollectChunksStream`, the `GetObject` handler
and `WriteResponseStream`). The three goroutines and two pipes of a download. A
pipe has no buffer, so a transfer is a step of both ends. A byte is its position
in the object, which makes the response comparable with the request; the chunk list
is given by the position each chunk ends at. `Wrap` is the `int64` addition of the
Range parser.

**UploadPart** (`UploadPart` handler, `checksum.go`). The handler's copy loop, the
checksum goroutine and the `UploadPartStream` goroutine, their pipes, the one
response. The body is counted in blocks.

**Upload**, **Store** are abstract specifications. `Upload` is what `ChunkStream`
promises: blobs are stored while the outcome is open, success leaves exactly the
blobs of the returned chunks, failure only deletes, nothing changes after the
return. `Store` is what the object manager promises: a key has no object or one
made of whole bodies, and each put, completion and deletion is one step.
ChunkStream and ObjectStore instantiate them as `Promise`, with the phase read off
the program counter and the content of a key read off the tables (`ByOrdinal`,
`Content`), and check `ImplementsUpload` and `ImplementsStore`.

**KeyStore** (`encryption/kms.go`, `encryption/service.go`). The password file, with
the moments at which `os.WriteFile` may be interrupted or fail, and the rows of
`kms_keys`. A key opens with the password it was sealed with.

**Backends** (`backendconfig`, `interfaces/*`). The checks of the backends' file, the
constructors with what they make of absent and void settings, the registry, and
put, get and delete of each driver. A place (directory, chat, channel) may stop
answering at any time. A location of the file driver is a uuid and one of Discord a
snowflake, which mean nothing anywhere else; one of Telegram is a message number
within its chat, so that a backend that was given another chat may return
(`ForeignObject`) or delete (`Strikes`) another document.

**Lifecycle** (`main.go`, composing KeyStore and Backends with `processChunk`,
`CollectShards`, `DestroyShards`). The program over its restarts: each step of a
start, with the loop of `BuildBackends` definition by definition, the store, read and
deletion of a chunk, a kill at any moment, and another start with the same or an
edited configuration. What ShardData establishes, that `ft` missing blocks never
matter, is used in `ReadFails`. For a block the read has a missing shard
(`Collect`), a foreign document that is too short and ends it (`CollectFails`) or
one that is long enough and goes into the reconstruction (`CollectForeign`), where a
cipher finds it and, without one, may not (`ReadWrong`). `struck`, `faults` and `born`
are histories for the properties, and so is where a row says its block was stored.

**MultipartHandlers** (`handlers_multipart.go`). `CreateMultipartUpload`,
`CompleteMultipartUpload` and `AbortMultipartUpload` check by check, with other
clients ending the upload, replacing parts or taking the key in between. A
completion is the reads of its parts and of their chunks (`ReadParts`, `ReadChunks`),
the transaction, which looks at no affected rows, and the read of the new object;
`moving` holds the parts whose chunk rows are still there. Parts and chunk rows in
detail are in ObjectStore.

**ObjectHandlers** (`handlers_object.go`). `HeadObject`, `GetObject`, `PutObject`,
`DeleteObject` with their `If-*` headers, `DeleteObjects`, the ACL and tagging
requests, with other clients overwriting and deleting in between. A deletion is
three steps, the read of the object, the deletion of its shards, which may stop half
way, and that of the row; `DeleteObjects` takes them for every entry of its batch.

**Dashboard** (`dashboard/service.go`, `dashboard/web`). One request to the dashboard:
its pages, the object browser with `normalizePrefix`, `LIKE` (which ignores case,
`Fold`, and takes `%` and `_` as wildcards, `Wild`), the page of rows and
the chunk query per object, the forms, the health fragment and the health stream
with its ticker and context. Every statement takes the one connection. A row of the
sorted query is found by its rank, the number of keys before it.

**Server** (`requests.go`, `routes`, `handlers_bucket.go`, composing ObjectHandlers,
MultipartHandlers and Dashboard). A request passes the middleware, the host
router, the route functions and `HandleRequest`'s order of refusals before it
reaches its handler. `ListObjectsV2`, `ListParts` and `UploadPart` end as
`elsewhere`: Listing and UploadPart follow them. Server states the assumptions of
the modules it composes, which are checked through it only.

**Listing** (`ListObjectsV2`, `ListParts`, their queries, the routes and required
fields of all listings). A client follows the tokens while rows come and go. What a
sorted query with `LIMIT` and `OFFSET` returns is the set of rows whose rank is in
that range.

ObjectStore uses what the others establish: `ChunkBody` is `ChunkStream`'s
success (`SuccessIsWhole`), which in turn puts one blob set per chunk as
`ShardData` lays it out. MultipartHandlers and ObjectHandlers use ObjectStore's
reads and transactions as single steps; UploadPart uses ChunkStream's; Lifecycle uses
ShardData's tolerance.

`MC*.tla` give the constants that a cfg cannot express.

## 3. Runs

| Run | States | What it checks |
|---|---|---|
| `shard_data` | 391 790 | `ToleratesFailures`, `ShardsPartition`, `BlobsFit`, `ParityRecovered`, `ParityNeeded`, and that the call returns |
| `chunk_stream` | 20 499 | `SuccessIsWhole`, `CompletedAreCleaned`, that it implements `Upload`, and that the call returns |
| `multipart` | 38 627 | `References`, `ChunksTogether`, `OrdinalsFollowData`, `SerialIsWhole`, `ChunkRowsMoveForward`, and that it implements `Store` |
| `objects` | 741 893 | `Isolation`, `ReadIsOneVersion`, `ShardsGoBeforeRow`, `UndeletedIsIntact` |
| `read_stream` | 6 567 | `BodyIsRange`, `CleanEndIsWhole`, `NoLeak` |
| `upload_part` | 400 | `OkIsStored`, `BrokenBodyIsRefused`, and that the handler returns if its reader does not fail |
| `listing` | 58 897 | `NothingMissed`, `NoRepeats`, `Ends` |
| `lifecycle` | 1 451 647 | `KeysStayOpen`, `AcknowledgedIsReadable`, `DeletedIsGone` |
| `server` | 320 616 | `AnswerTellsEffect`, `OkIsAssembled`, `BrowseIsComplete`, `EffectIsAsked`, `Answered` |
| `multipart_race` | violated | `MultipartIsWhole` |
| `chunk_stream_cut` | violated | `CutBodyIsNoSuccess` |
| `upload_part_hang` | violated | `ErrorIsReturned` |

`shard_data`, `upload_part` and `lifecycle` also check `TypeOK`; the variables of the
other modules are described where they are declared.

Bounds, and why they are enough to meet the interesting cases:

* `shard_data`: up to 4 backends, blob sizes 2 and 5, data of 0 to 9 bytes. Splits
  with and without remainder, one and several blobs per backend, shard sizes that
  divide a blob evenly and not, tolerance 0 to 3. The proofs of section 5 remove
  these bounds.
* `chunk_stream`: 3 chunks, 2 slots, 2 backends: the third chunk waits for a slot
  while another fails, and is started after the failure.
* `multipart`: one key, 3 writers of 2 chunks that may each be a put or a part of
  numbers 1 and 2, 2 completions, one upload, aborts, bucket deletions, restarts.
  Three writers make a part that is uploaded again next to another part; two
  completions make the retry.
* `objects`: two keys, 2 writers of 2 chunks, a completion, a read, a deletion that
  may fail and be repeated. `raced` is left out of the view, being a history that
  neither actions nor these properties read. Keys, writers and requests of one
  kind are interchangeable, which the symmetry sets use.
* `read_stream`: up to 3 chunks, every range within 0..4 with 4 as the largest
  integer (so that the wrap-around happens), sizes that agree with the chunks and
  that do not (what a torn metadata read may give).
* `upload_part`: bodies of up to 3 blocks; the proofs remove the bound.
* `listing`: 4 keys, pages of 1 and 2, up to 2 additions and 2 deletions.
* `lifecycle`: 2 backends, and two kinds of configuration that do not follow each
  other (`Bounded`, `SameKind`). With the usual ones, 12 in 2 places (tolerance 0 and
  1, both ciphers, no and an unknown method, a backend in memory, moved, switched off,
  one that does not construct, an unknown or missing kind, a missing or repeated id),
  one chunk, 3 starts, 2 passwords, and outages and repairs of both places
  (`MaxOutages`) at any time. Three starts are one that is interrupted, one that
  stores and one that reads; one chunk is enough because chunks share only the
  password. With the chats, 5 configurations that exchange two chats, move one or
  give up the directory for a channel, 2 chunks, so that the deletion of one takes a
  document of the other, 2 starts and no outage.
* `server`: every route with its query parameters one by one and in the pairs two
  route tables disagree about, every host and method, refused owners and fields; 2
  keys, 2 versions and 2 changes by others (a version stored between the reads of a
  deletion and its row, and a second one); batches of 2 entries; 2 parts with 2 ETags
  and one upload by others, and their end of the upload at any time; 6 keys in the
  browser, among them directories `D` and `_`, one that differs from another in case
  only and an empty segment, 7 prefixes with and without slashes and with the
  wildcards `_` and `%`, pages of 3 rows (so that a page ends), one transaction by
  others.

`CHECK_DEADLOCK FALSE` is used for UploadPart, whose goroutines simply end, or
hang as `upload_part_hang` shows, and for Lifecycle, where the bound on starts leaves
the program down. ObjectStore never deadlocks: new requests can always be made. The
others have a `Terminated` step for the ended call.

Fairness. `FairSpec`/`Spec` assume weak fairness of each goroutine, and nothing
else: the Go scheduler runs a runnable goroutine, a backend or database call
returns with a result or an error, a body yields data, its end or an error. Two
goroutines are never made to take turns, and no failing or succeeding outcome is
assumed. In UploadPart, `ProcessFails` is fair only when the body failed, because
only then an error is all `UploadPartStream` can return. In Server the handlers are
fair and so is the end of another client's transaction (`OthersCommit`), which is
that client's goroutine; `BrowseFails` is not, so that no error is what rescues a
request. The end of a health stream's context is strongly fair (`ContextDone`):
the stream waits in a `select` that chooses at random among what is ready, so that
the ticker may win often but not forever. ObjectStore and Lifecycle need no
fairness: their properties are safety properties.

## 4. What the checks show, and where code and documents disagree

The passing runs hold as stated. Three runs show a disagreement with what a
comment or document says (`findings` in `PROJECT.json` quotes it):

* `multipart_race` — `CompleteMultipartUpload` reads parts and chunk ids before its
  transaction and does not look at the affected rows of its updates; a part
  uploaded again, an abort, a bucket deletion or a retried completion in between
  leaves an object whose ETag and size belong to other chunks than it has.
  `SerialIsWhole` is the part that holds: without an overlapping call on the same
  upload the object is exactly its parts.
* `chunk_stream_cut` — a body that breaks off ends with `io.ErrUnexpectedEOF`, the
  value that also marks the short last chunk; a truncated object is stored and
  acknowledged.
* `upload_part_hang` — if `UploadPartStream` fails before it has read the whole
  body, nobody reads its pipe any more and the handler never returns.

Behaviour the models reproduce, which shaped the statements of passing
properties:

* `CompletedAreCleaned` speaks of completed chunks only: blobs that a *failing*
  chunk had already stored on other backends stay (`ShardData` returns no list of
  them).
* `ReadIsOneVersion` speaks of the chunk list only: the row and the chunk list are
  read by two statements, so that ETag and size may be those of an earlier
  version.
* An error after the first byte of a download is appended as XML to the body,
  under status 200 or 206 (`HandlerError`); `BodyIsRange` is about the bytes that
  are not such text.
* `NoRepeats` asks for a client that starts with page 1: without a token the first
  page is numbered 0, and pages 0 and 1 are the same rows.
* `ListBuckets` and `ListMultipartUploads` require a bucket or a key that their
  routes exclude (`Refused`), so they always answer 400; so does `POST ?delete`
  without a key in the path.
* `requireSigV4` sets the result of the verification to nil, so that only the
  header naming the expected owner can end a request there (`RequireSigV4`).
* The check for a required query parameter compares the text of the field with
  `""`, which an integer field never is: a part uploaded without `partNumber` is
  stored as part 0, answered 200, and not listed by the completion (`Listed`).
* The cut body of `chunk_stream_cut` reaches UploadPart too: when the client
  disconnects the copy fails and the handler closes the pipe with that error, which is
  `io.ErrUnexpectedEOF`; the request fails with 500, and the shorter part is stored all
  the same. `BrokenBodyIsRefused` therefore says of a cut body what is answered and
  what may be stored, and only of other errors that nothing is.
* A telegram backend that was given another chat may hold another document under the
  message number of a shard. `CollectShards` goes on after an error of `GetShard`, but
  a document that is too short ends the read ("invalid shard payload"), and one that is
  long enough goes into the reconstruction, although the other backends hold enough
  shards. `FAILURE_TOLERANCE` ("Number of backends that can fail without losing data",
  config.go:52) does not cover such a backend: `AcknowledgedIsReadable` excludes it by
  `foreign` and `ChatMoved`. A deletion may take a document of another chunk there (`Strikes`).
* All `eval` functions for `If-*` headers end in `return true` (`Evaluated`), so that
  only a header that cannot be parsed ends a request: a deletion with the ETag of
  another version is done, unlike docs/S3.md:124 ("Match ETag before
  retrieval/deletion"). The version deleted may also be one that was stored after the
  headers were evaluated; `AnswerTellsEffect` ties the two together only while nobody
  else changes the object (`stale`).
* `DeleteObjects` deletes the object of the request's path for every entry and reports
  the keys of the entries, unlike docs/S3.md:114 ("Batch delete multiple objects"):
  the objects listed stay. `BatchTellsEffect`, a part of `AnswerTellsEffect`, states what
  its report does tell, which is about the object of the path.
* A DeleteObject answered 500 may have deleted shards, and then the row names data
  that is gone (`DeleteChunks`); `AnswerTellsEffect` says only of the answers before
  the deletion that nothing was touched.
* A completion with `If-None-Match: *` answers 200 and completes nothing if the key is
  the upload's, and otherwise has written 412 before it goes on (`IfNoneMatch`);
  `OkIsAssembled` leaves these requests out, and the parts that others replaced or
  dropped between the reads and the transaction, which are lost from the object
  (`multipart_race`).
* The part list of a completion is compared after the completion, with an upload that is
  gone (`Verify`), although the comment says "verify that all parts in the
  completeMultipartUpload are present and their checksums match"
  (handlers_multipart.go:338): any list that can be decoded is answered 200.
* An abort with `x-amz-if-match-initiated-time` answers 204 whenever the upload
  cannot be read, also because of an error of the database, with the upload still
  there (`GetMultipartUpload`).
* Reading a part of an object never succeeds: the upload it looks for is given a
  newly generated id (`PartNotFound`, `Refuse`).
* Overwriting an object, aborting an upload and deleting a bucket leave the old
  shards on the backends; nothing refers to them any more.
* A first start that is interrupted while it writes the password file leaves an
  empty or undecodable one. It is never written again, so that encrypted uploads
  fail until it is removed by hand (`EncryptFails`); no key is lost by this
  (`KeysStayOpen`).
* A telegram or discord backend whose settings are present but void keeps its
  shards in memory (`NewTelegramService`); a restart loses them.
  `AcknowledgedIsReadable` counts such a backend as out of service after a restart,
  so that tolerance 1 still covers one, and likewise a backend that lost a block to
  the deletion of another chunk after chats were exchanged (`struck`).
* A deletion over `file` or `discord` that was interrupted cannot be repeated to its
  end, because what is already gone cannot be deleted (`DeleteObject` of Backends);
  `DeletedIsGone` is about deletions that report success.
* SQLite's `LIKE` ignores case and takes `_` and `%` in a directory's name as wildcards,
  `TrimPrefix` does not: browsing `d/` also returns the keys below `D/`, and `_/` those
  below every directory of one letter, each shown as a folder that no object is in.
  `BrowseIsComplete` says exactly what is shown, these folders included.
* The object browser shows the first 100 objects below a prefix; a page whose list
  of buckets could not be read is answered 200; the backends page shows fixed
  demonstration data.

## 5. Proofs

**ShardDataProofs** proves, for every number of backends, every mixture of blob
sizes, every failure tolerance below the number of backends and every data
length, from the assumptions named in ShardData (sizes are positive, `MaxInt` is
at least every size):

* `Types`, `BlobsFitAlways`, `PartitionAlways`, `ToleratesAlways`,
  `ParityRecoveredAlways`, `ParityNeededAlways`: the invariants of `shard_data` of the same names;
* `ParityBoundedAlways`: the search for the parity count stays within
  `ft * DataCount`, which no run checks;
* `Invariance`: `Spec => []IndInv`.

None of these is inductive: at `done` they speak about the result of five loops.
`IndInv` therefore says where each loop stands. `SizeInv`: the scan has a lower
bound on the sizes seen so far, and afterwards the shard size fits every backend.
`ParityInv`: the parity count stays within `ft * DataCount` (which lemma
`EnoughParity` shows to be enough, because `ft < n`) and, after the search, covers
`Lost`. `BlockInv`: the distribution has given the backends below `at` consecutive
blocks that cover exactly the shards below `nextIndex`. `MergeInv`: the same for the
blobs of each block. `PutInv`: how many blobs are stored. `ToleratesAlways` follows
by counting: the shards of the failed backends are at most `Lost(n, ft, Total)`
(`BlocksOfDown`, by bounding the cardinality of the union of `ft` blocks with the
larger blocks first), hence at most the parity. `ParityNeededAlways` goes the other
way: the count below the one found was tried and refused (`NeedInv`), so that the
`ft` largest blocks of one shard fewer are too many (`HeldByOthers`).

**UploadPartProofs** proves, for bodies of any length, `Types`,
`OkIsStoredAlways` and `BrokenBodyAlways`, the latter for a body that is cut as well
as for one that fails. The strengthening relates the three
goroutines: `Progress` (the handler is at most one block ahead of each reader, and
the readers have everything once the body has ended), `Ends` (what the pipes were
closed with is what the body ended with) and `Answers` (a goroutine that failed has
left a status, so that a later 200 has no effect).

**ChunkStreamProofs** proves, for streams of any length, any number of backends and
any concurrency, `SuccessIsWholeAlways`, `CompletedAreCleanedAlways` and
`UploadImplemented`, the refinement of `Upload`. What is true at the return follows
from what is true of each worker all along: `Workers` (a worker exists for exactly
the chunks handed to `g.Go`, and none is busy once the group was waited for), `Blobs`
(an upload that ended well is on its backend, until the cleanup), `Errors` (a worker
that failed has cancelled the context, so that success excludes one) and `Cleanup`
(a completed chunk is still to be deleted, half deleted, gone, or refused). The
refinement reads the phase off `pc` and takes one lemma (`PromiseStep`) with one case
per action.

**ObjectStoreProofs** proves every property of the runs `multipart` and `objects`,
for any keys, writers, parts, completions, readers, deletions and lengths of bodies:
`ReferencesAlways`, `IsolationAlways`, `ChunksTogetherAlways`,
`OrdinalsFollowDataAlways`, `UndeletedIsIntactAlways`, `ShardsGoBeforeRowAlways`,
`ReadIsOneVersionAlways`, `SerialIsWholeAlways`, `RowsMoveForward`, and
`StoreImplemented`, the refinement of `Store`. Since nothing keeps two requests
apart, the invariant says of every request what may still be relied on of the rows
it has read. `RowsOK`: rows refer to each other and to the request that wrote them.
`WritersOK`, `CompletersOK`, `DeletersOK`, `ReadersOK`: the location of an upload is
given once, so that a completion whose upload is gone still moves only chunks of its
own key; its list holds whole bodies, in the order of the data; a deletion has
condemned its key before it destroys anything. `ObjectsOK`: an object row and the
chunk rows of its key are of the same request. `SerialOK` adds, for `SerialIsWhole`,
that a completion nobody disturbed has listed the part rows as they still are. The
refinement needs that the content of a key, defined by the ranks of its chunks, is
a function of its rows: `RankFacts` and `SortedFacts` show that `ByOrdinal` lists each
chunk of the key once in the order of the ordinals, `SortedBody` and `SortedIsWhole`
that the lists of a put and of a completion are whole bodies, and `StoreStep` has one
case per action that touches a content. The proof takes two assumptions on the
constants that the runs also evaluate: ETags of puts and of completions differ, and
`None` is no content.

**ReadStreamProofs** proves, for every chunk list, size, range and buffer,
`BodyIsRangeAlways` and `CleanEndIsWholeAlways`. The invariant says where the bytes
are: what the cutter has taken is in the response, in the handler's packet or in its
own buffer, in this order and without a gap (`FlowOK`), the cutter counts exactly
what the source emits (`CutterOK`), and a pipe that ended without an error has carried
everything (`EndOK`).

**LifecycleProofs** proves, for any configurations, backends, chunks, keys and number
of restarts, `Types`, `KeysStayOpenAlways`, `AcknowledgedIsReadableAlways` and
`DeletedIsGoneAlways`. `Keys`: all keys were sealed with the password in the file, and
none exists while it is written. `Registry`: the loop of `BuildBackends` has collected
distinct ids, all registered. `ChunksOK`: a row names each backend once (`RowOK`), an
acknowledged block is where the row says, unless it was in memory and the process has
ended since or it was struck by the deletion of another chunk (`HeldOK`), what a read
missed is out of service, a foreign document came from a backend that was given
another chat, what a deletion has passed is gone (`RunningOK`).
`AcknowledgedIsReadable` then is a comparison of cardinalities: the missing blocks map
one to one to backends out of service (`MissingAreOut`). `PlacesAssumption`, that a
directory, a chat and a channel are different places, says which configurations the
model is meant for; the proofs do not use it.

**ListingProofs** proves `NothingMissedAlways` and `NoRepeatsAlways`, for any keys,
page size, delimiter, start-after and any additions and deletions. The invariant says
where the next page begins. For ListParts (`PartsBelowMarker`) it is the marker: what
is below was listed, what was listed is below. For ListObjectsV2 it is an offset, and
the rows move past it: `UnshownAhead`, without deletions what was not shown has a rank
of at least the offset, because additions only raise ranks; `ListedBehind`, without
additions what was listed has a lower rank, because deletions only lower them
(`RankGrows`). `PageFacts` says which ranks a page has, from the facts that ranks
follow the order of the keys without a gap (`RankFacts`) and that a query which
returns fewer rows than its limit has reached the end (`LimitFacts`).

**ServerProofs** proves the safety properties of the run `server`, for any requests,
versions, parts, paths and number of changes by others: `AnswerTellsEffectAlways`,
`OkIsAssembledAlways`, `EffectIsAskedAlways` and `BrowseIsCompleteAlways`. `Admitted`:
a request at its handler has passed the middleware and `HandleRequest`. `Routed`: the
handler that runs is the one the route names, and the variables of the others rest.
`ObjectOK`, `UploadOK`, `FormOK`: what a handler has done by each point where it may
answer; for a deletion, that without a change by others the version it deletes is the
one it has evaluated and the one that is stored; for a completion, that the parts
nobody touched since they were read are still to be moved, or have been. `EffectIsAsked` follows from these and from what the route tables look at
(`RouteFacts`). For the object browser, `ListFacts` shows that the rows are the first
`BrowseLimit` keys, each once, from the order of keys being total (`Irreflexive`,
`Transitive`, `Total`, `Ranks`); `BrowsingAt` relates the entries to the rows passed;
`Remainders` and `SameFile` say what is left of a key after the prefix and that two
files have different entries; `ParentFacts` that `parentPrefix` and `normalizePrefix`
agree on every prefix that can be asked for.

With these every invariant and action property of the passing runs is proved, and both
refinements. Only model-checked: liveness (`Returns`, `NoLeak`, `Ends`, `Answered`),
which is out of the provers' reach, and the violations of section 4, which TLC's
counterexamples show.

## 6. Not modelled

* `s3/auth`: canonical strings and signatures; it keeps no state, and the
  middleware discards its result.
* `compression`, ciphers, hash functions, the Reed-Solomon arithmetic, TDLib and
  discordgo: libraries, which enter as calls that succeed or fail, or by what they
  restore or open.
* The text of requests and answers: which header fills which field, XML, templates,
  the constant data of ACL, tagging, location and encryption answers.
* The numbers of the statistics queries; their place in the pages is modelled.
* The parsing of the environment and of YAML, apart from the checks made on its
  result.
* Two processes on one data directory, and a loss of power that undoes writes
  without `fsync`: nothing in the code is about them.

## 7. Plan

1. *(done)* ShardData with its proofs; ChunkStream; ObjectStore; ReadStream,
   UploadPart with its proofs; the handlers; Listing.
2. *(done)* KeyStore, Backends and Lifecycle; Upload and Store with their
   refinements; Dashboard; Server.
3. *(done)* Proofs about ChunkStream, ObjectStore, ReadStream and Lifecycle, with the
   refinements of Upload and Store.
4. *(done)* Proofs about Server with the handlers it composes, and about Listing.
5. **Composition** of UploadPart with ChunkStream, so that the failing chunk, the
   cut body and the pipes meet in one model, with its invariant proved; and theorems
   about the abstract specifications (`Upload`, `Store`), which then hold of the
   modules that implement them.
