----------------------------- MODULE ObjectStore -----------------------------
(***************************************************************************)
(* The object manager and the metadata tables.  Every request of the S3    *)
(* API that touches an object is a process that runs the statements of     *)
(* objectManager and metadata one after the other; a transaction is one    *)
(* step, and so is a single SQL statement outside a transaction (SQLite    *)
(* serialises them), but nothing keeps two requests' statements from       *)
(* interleaving.                                                           *)
(*                                                                         *)
(* A write request (PutObject or UploadPart) is its own data: its chunks   *)
(* are <<w, 1>> .. <<w, ChunkCount[w]>> (fresh UUIDs in the code), and the *)
(* ETag and size of what it wrote are represented by w.  Shard rows live   *)
(* and die with their chunk row and are represented by it.                 *)
(***************************************************************************)
EXTENDS Integers, Sequences, FiniteSets

CONSTANTS
    Buckets, Keys,
    Writers,       \* PutObject and UploadPart requests, one write each
    Completers,    \* CompleteMultipartUpload requests
    Readers,       \* GetObject requests
    Deleters,      \* DeleteObject requests
    UploadIds,     \* the upload IDs CreateMultipartUpload may generate
    PartNumbers,   \* the part numbers clients use
    ChunkCount,    \* ChunkCount[w]: the chunks w's body is cut into, maybe 0
    MaxListed,     \* how many parts CompleteMultipartUpload lists, 10000
    None           \* SQL NULL, no row

ASSUME WritersAssumption == IsFiniteSet(Writers)
ASSUME PartNumbersAssumption == PartNumbers \subseteq Nat
ASSUME ChunkCountAssumption == ChunkCount \in [Writers -> Nat]
ASSUME MaxListedAssumption == MaxListed \in Nat
ASSUME NoneAssumption ==
    /\ None \notin Buckets \X Keys
    /\ None \notin UploadIds \X PartNumbers
    /\ None \notin Writers

Locations == Buckets \X Keys
Parts == UploadIds \X PartNumbers
ChunksOf(w) == {w} \X (1 .. ChunkCount[w])
ChunkIds == UNION {ChunksOf(w) : w \in Writers}

\* The ETag (and size) columns of an object row: those of one body, or those
\* computed from the part rows that CompleteMultipartUpload listed.
PutETag(w) == [kind |-> "put", writer |-> w]
PartsETag(f) == [kind |-> "multipart", parts |-> f]
PartRows == [PartNumbers -> Writers \cup {None}]
ETags == {PutETag(w) : w \in Writers} \cup {PartsETag(f) : f \in PartRows}
ASSUME ETagsAssumption == None \notin ETags
ASSUME ContentsAssumption ==
    None \notin [body : Writers \cup {None}, chunks : Seq(ChunkIds)]

VARIABLES
    \* tables
    buckets,   \* the rows of `buckets`
    objects,   \* objects[l]: the ETag of the row, or None
    uploads,   \* uploads[u]: the location of the multipart_uploads row, or None
    created,   \* upload IDs generated so far (UUIDs: never generated twice)
    parts,     \* parts[<<u, p>>]: the ETag (writer) of the part row, or None
    objOf,     \* objOf[c]: bucket and object_key of chunk row c, or None
    partOf,    \* partOf[c]: upload_id and part_number of chunk row c, or None
    ord,       \* ord[c]: the ordinal column
    blob,      \* blob[c]: c's shards on the backends
    \* requests: the step each is at and its local variables
    writer,     \* PutObject and UploadPart
    completer,  \* CompleteMultipartUpload
    reader,     \* GetObject
    deleter,    \* DeleteObject
    condemned,  \* history: the locations some DeleteObject has been asked for
    raced       \* history: the locations of uploads completed while another
                \* call on the same upload was running

tables == <<buckets, objects, uploads, created, parts, objOf, partOf, ord>>
vars == <<buckets, objects, uploads, created, parts, objOf, partOf, ord, blob,
          writer, completer, reader, deleter, condemned, raced>>

\* Requests that have not begun; the locals of a finished request are gone.
NewWriter == [pc |-> "idle", loc |-> None, part |-> None]
NewCompleter == [pc |-> "idle", up |-> None, loc |-> None, parts |-> [p \in PartNumbers |-> None],
                 left |-> {}, ids |-> <<>>]
NewReader == [pc |-> "idle", loc |-> None, etag |-> None, ids |-> <<>>, pos |-> 1, got |-> {}]
NewDeleter == [pc |-> "idle", loc |-> None, ids |-> <<>>, pos |-> 1, got |-> {}]

HasRow(c) == objOf[c] # None \/ partOf[c] # None

\* Mutant of ObjectChunks: a WHERE clause that leaves out the key.
ObjectChunksOfBucket(l) == {c \in ChunkIds : objOf[c] # None /\ objOf[c][1] = l[1]}

\* The chunk rows of an object, of a part.
ObjectChunks(l) == {c \in ChunkIds : objOf[c] = l}
PartChunks(q) == {c \in ChunkIds : partOf[c] = q}

\* ORDER BY ordinal ASC: every list of the rows in S by which their ordinals do
\* not decrease.
InOrder(S) ==
    {s \in [1 .. Cardinality(S) -> S] :
        \A i, j \in 1 .. Cardinality(S) :
            i < j => s[i] # s[j] /\ ord[s[i]] <= ord[s[j]]}

\* The part rows CompleteMultipartUpload lists: ListParts(uploadID, 10000, 1).
Listed(u) ==
    {p \in PartNumbers :
        /\ parts[<<u, p>>] # None
        /\ p >= 1
        /\ Cardinality({q \in PartNumbers : /\ parts[<<u, q>>] # None
                                            /\ q >= 1 /\ q < p}) < MaxListed}

-----------------------------------------------------------------------------
Init ==
    /\ buckets = {}
    /\ objects = [l \in Locations |-> None]
    /\ uploads = [u \in UploadIds |-> None]
    /\ created = {}
    /\ parts = [q \in Parts |-> None]
    /\ objOf = [c \in ChunkIds |-> None]
    /\ partOf = [c \in ChunkIds |-> None]
    /\ ord = [c \in ChunkIds |-> 0]
    /\ blob = [c \in ChunkIds |-> "none"]
    /\ writer = [w \in Writers |-> NewWriter]
    /\ completer = [x \in Completers |-> NewCompleter]
    /\ reader = [r \in Readers |-> NewReader]
    /\ deleter = [d \in Deleters |-> NewDeleter]
    /\ condemned = {}
    /\ raced = {}

-----------------------------------------------------------------------------
(***************************************************************************)
(* Buckets and uploads: one statement or one transaction each.             *)
(***************************************************************************)

CreateBucket(b) ==
    /\ b \notin buckets
    /\ buckets' = buckets \cup {b}
    /\ UNCHANGED <<objects, uploads, created, parts, objOf, partOf, ord, blob,
                   writer, completer, reader, deleter, condemned>>

\* DELETE FROM buckets: the foreign keys cascade to the bucket's objects and
\* uploads, from those to parts and chunks.  No shard is deleted from a backend.
DeleteBucket(b) ==
    /\ b \in buckets
    /\ buckets' = buckets \ {b}
    /\ LET gone(l) == l # None /\ l[1] = b
       IN  /\ objects' = [l \in Locations |-> IF gone(l) THEN None ELSE objects[l]]
           /\ uploads' = [u \in UploadIds |-> IF gone(uploads[u]) THEN None ELSE uploads[u]]
           /\ parts' = [q \in Parts |-> IF gone(uploads[q[1]]) THEN None ELSE parts[q]]
           /\ objOf' = [c \in ChunkIds |-> IF gone(objOf[c]) THEN None ELSE objOf[c]]
           /\ partOf' = [c \in ChunkIds |->
                            IF partOf[c] # None /\ gone(uploads[partOf[c][1]])
                            THEN None ELSE partOf[c]]
    /\ UNCHANGED <<created, ord, blob, writer, completer, reader, deleter, condemned>>

\* The handler refuses a key that has an object (409), but looks before, by a
\* statement of its own, so that the row may be inserted although there is one.
CreateMultipartUpload(u, l) ==
    /\ u \notin created
    /\ created' = created \cup {u}
    /\ buckets' = buckets \cup {l[1]}
    /\ uploads' = [uploads EXCEPT ![u] = l]
    /\ UNCHANGED <<objects, parts, objOf, partOf, ord, blob, writer, completer, reader, deleter, condemned>>

\* The cascade from a multipart_uploads row to its parts and their chunks.
DropUpload(u) ==
    /\ uploads' = [uploads EXCEPT ![u] = None]
    /\ parts' = [q \in Parts |-> IF q[1] = u THEN None ELSE parts[q]]

\* Mutant of AbortMultipartUpload: the part's chunk rows stay (no cascade).
AbortKeepsChunks(u) ==
    /\ uploads[u] # None
    /\ DropUpload(u)
    /\ UNCHANGED <<buckets, objects, created, objOf, partOf, ord, blob, writer, completer,
                   reader, deleter, condemned>>

AbortMultipartUpload(u) ==
    /\ uploads[u] # None
    /\ DropUpload(u)
    /\ partOf' = [c \in ChunkIds |->
                    IF partOf[c] # None /\ partOf[c][1] = u THEN None ELSE partOf[c]]
    /\ UNCHANGED <<buckets, objects, created, objOf, ord, blob, writer, completer, reader, deleter, condemned>>

-----------------------------------------------------------------------------
(***************************************************************************)
(* PutObjectStream and UploadPartStream.                                   *)
(***************************************************************************)
StartPut(w, l) ==
    /\ writer[w].pc = "idle"
    /\ writer' = [writer EXCEPT ![w] = [pc |-> "chunking", loc |-> l, part |-> None]]
    /\ UNCHANGED <<tables, blob, completer, reader, deleter, condemned>>

\* UploadPartStream finds the upload before it reads the body; the part
\* belongs to the upload's location, whatever the request's path says.
StartPart(w, q) ==
    /\ writer[w].pc = "idle"
    /\ uploads[q[1]] # None
    /\ writer' = [writer EXCEPT ![w] =
                    [pc |-> "chunking", loc |-> uploads[q[1]], part |-> q]]
    /\ UNCHANGED <<tables, blob, completer, reader, deleter, condemned>>

\* ChunkStream stores the body on the backends (module ChunkStream) ...
ChunkBody(w) ==
    /\ writer[w].pc = "chunking"
    /\ blob' = [c \in ChunkIds |-> IF c[1] = w THEN "stored" ELSE blob[c]]
    /\ writer' = [writer EXCEPT ![w].pc = IF writer[w].part = None THEN "commit" ELSE "check"]
    /\ UNCHANGED <<tables, completer, reader, deleter, condemned>>

\* ... or fails; what it leaves on the backends has no chunk row.
ChunkBodyFails(w) ==
    /\ writer[w].pc = "chunking"
    /\ writer' = [writer EXCEPT ![w].pc = "failed"]
    /\ UNCHANGED <<tables, blob, completer, reader, deleter, condemned>>

\* Mutant of PutObject: the old chunk rows stay and the new ones follow them.
PutObjectAppends(w) ==
    LET l == writer[w].loc
    IN  /\ writer[w].pc = "commit"
        /\ writer[w].part = None
        /\ buckets' = buckets \cup {l[1]}
        /\ objects' = [objects EXCEPT ![l] = PutETag(w)]
        /\ objOf' = [c \in ChunkIds |-> IF c[1] = w THEN l ELSE objOf[c]]
        /\ ord' = [c \in ChunkIds |->
                        IF c[1] = w THEN Cardinality(ObjectChunks(l)) + c[2] - 1 ELSE ord[c]]
        /\ writer' = [writer EXCEPT ![w].pc = "ok"]
        /\ UNCHANGED <<uploads, created, parts, partOf, blob, completer, reader, deleter, condemned>>

\* upsertObject, one transaction: ensure the bucket, replace the object row,
\* delete the chunk rows of the key, insert the new ones in stream order.
PutObject(w) ==
    LET l == writer[w].loc
    IN  /\ writer[w].pc = "commit"
        /\ writer[w].part = None
        /\ buckets' = buckets \cup {l[1]}
        /\ objects' = [objects EXCEPT ![l] = PutETag(w)]
        /\ objOf' = [c \in ChunkIds |->
                        IF c[1] = w THEN l
                        ELSE IF objOf[c] = l THEN None ELSE objOf[c]]
        /\ ord' = [c \in ChunkIds |-> IF c[1] = w THEN c[2] - 1 ELSE ord[c]]
        /\ writer' = [writer EXCEPT ![w].pc = "ok"]
        /\ UNCHANGED <<uploads, created, parts, partOf, blob, completer, reader, deleter, condemned>>

\* PutPart reads the upload again, outside its transaction.
CheckUpload(w) ==
    /\ writer[w].pc = "check"
    /\ writer' = [writer EXCEPT ![w].pc =
                    IF uploads[writer[w].part[1]] = None THEN "failed" ELSE "commit"]
    /\ UNCHANGED <<tables, blob, completer, reader, deleter, condemned>>

\* PutPart's transaction: delete the part's chunk rows, replace the part row,
\* insert the new chunk rows.
PutPart(w) ==
    LET q == writer[w].part
    IN  /\ writer[w].pc = "commit"
        /\ q # None
        /\ uploads[q[1]] # None
        /\ parts' = [parts EXCEPT ![q] = w]
        /\ partOf' = [c \in ChunkIds |->
                        IF c[1] = w THEN q
                        ELSE IF partOf[c] = q THEN None ELSE partOf[c]]
        /\ ord' = [c \in ChunkIds |-> IF c[1] = w THEN c[2] - 1 ELSE ord[c]]
        /\ writer' = [writer EXCEPT ![w].pc = "ok"]
        /\ UNCHANGED <<buckets, objects, uploads, created, objOf, blob,
                       completer, reader, deleter, condemned>>

\* The upload has gone since: the part row's foreign key fails, rollback.
PutPartRollback(w) ==
    /\ writer[w].pc = "commit"
    /\ writer[w].part # None
    /\ uploads[writer[w].part[1]] = None
    /\ writer' = [writer EXCEPT ![w].pc = "failed"]
    /\ UNCHANGED <<tables, blob, completer, reader, deleter, condemned>>

-----------------------------------------------------------------------------
(***************************************************************************)
(* CompleteMultipartUpload.  The upload, its part rows and the chunks of   *)
(* every part are read by separate statements; only then the transaction   *)
(* begins.                                                                 *)
(***************************************************************************)
\* Mutant of StartComplete: the location is the request's, not the upload's.
StartCompleteAnyKey(x, u) ==
    /\ completer[x].pc = "idle"
    /\ uploads[u] # None
    /\ \E l \in Locations :
          completer' = [completer EXCEPT ![x].pc = "list", ![x].up = u, ![x].loc = l]
    /\ UNCHANGED <<tables, blob, writer, reader, deleter, condemned>>

StartComplete(x, u) ==
    /\ completer[x].pc = "idle"
    /\ uploads[u] # None
    /\ completer' = [completer EXCEPT ![x].pc = "list", ![x].up = u, ![x].loc = uploads[u]]
    /\ UNCHANGED <<tables, blob, writer, reader, deleter, condemned>>

\* ListParts; "multipart upload has no parts" ends the request.
ListParts(x) ==
    LET u == completer[x].up
        listed == Listed(u)
    IN  /\ completer[x].pc = "list"
        /\ completer' = [completer EXCEPT ![x] =
              IF listed = {} THEN NewCompleter
              ELSE [@ EXCEPT !.pc = "chunks",
                             !.parts = [p \in PartNumbers |->
                                          IF p \in listed THEN parts[<<u, p>>] ELSE None],
                             !.left = listed]]
        /\ UNCHANGED <<tables, blob, writer, reader, deleter, condemned>>

\* Mutant of GetPartChunks: only the part's first chunk row is read.
GetPartChunksFirstOnly(x, p) ==
    /\ completer[x].pc = "chunks"
    /\ p \in completer[x].left
    /\ \A q \in completer[x].left : p <= q
    /\ \E s \in InOrder(PartChunks(<<completer[x].up, p>>)) :
          completer' = [completer EXCEPT
              ![x].ids = @ \o SubSeq(s, 1, IF s = <<>> THEN 0 ELSE 1),
              ![x].left = @ \ {p},
              ![x].pc = IF completer[x].left = {p} THEN "commit" ELSE "chunks"]
    /\ UNCHANGED <<tables, blob, writer, reader, deleter, condemned>>

\* getPartChunks of the next part, in part-number order.
GetPartChunks(x, p) ==
    /\ completer[x].pc = "chunks"
    /\ p \in completer[x].left
    /\ \A q \in completer[x].left : p <= q
    /\ \E s \in InOrder(PartChunks(<<completer[x].up, p>>)) :
          completer' = [completer EXCEPT
              ![x].ids = @ \o s,
              ![x].left = @ \ {p},
              ![x].pc = IF completer[x].left = {p} THEN "commit" ELSE "chunks"]
    /\ UNCHANGED <<tables, blob, writer, reader, deleter, condemned>>

\* Mutant of Position: the ordinal starts again with every part.
PositionInPart(s, c) == c[2]

\* Where the UPDATE loop puts chunk c: its position in the list of chunks read.
Position(s, c) == CHOOSE i \in DOMAIN s : s[i] = c

\* Mutants of CompleteMultipartUpload: the chunk rows are written anew, also when
\* they are gone; the chunk rows of the object that is replaced stay.
CompleteReinserts(x) ==
    LET l == completer[x].loc
        u == completer[x].up
        ids == completer[x].ids
        moved == {c \in ChunkIds : \E i \in DOMAIN ids : ids[i] = c}
    IN  /\ completer[x].pc = "commit"
        /\ buckets' = buckets \cup {l[1]}
        /\ objects' = [objects EXCEPT ![l] = PartsETag(completer[x].parts)]
        /\ objOf' = [c \in ChunkIds |->
                        IF c \in moved THEN l
                        ELSE IF objOf[c] = l THEN None ELSE objOf[c]]
        /\ ord' = [c \in ChunkIds |->
                        IF c \in moved THEN Position(ids, c) - 1 ELSE ord[c]]
        /\ DropUpload(u)
        /\ partOf' = [c \in ChunkIds |->
                        IF c \in moved \/ (partOf[c] # None /\ partOf[c][1] = u)
                        THEN None ELSE partOf[c]]
        /\ completer' = [completer EXCEPT ![x] = NewCompleter]
        /\ UNCHANGED <<created, blob, writer, reader, deleter, condemned>>
CompleteKeepsOldChunks(x) ==
    LET l == completer[x].loc
        u == completer[x].up
        ids == completer[x].ids
        moved == {c \in ChunkIds : /\ \E i \in DOMAIN ids : ids[i] = c
                                   /\ HasRow(c) /\ objOf[c] # l}
    IN  /\ completer[x].pc = "commit"
        /\ buckets' = buckets \cup {l[1]}
        /\ objects' = [objects EXCEPT ![l] = PartsETag(completer[x].parts)]
        /\ objOf' = [c \in ChunkIds |-> IF c \in moved THEN l ELSE objOf[c]]
        /\ ord' = [c \in ChunkIds |->
                        IF c \in moved THEN Position(ids, c) - 1 ELSE ord[c]]
        /\ DropUpload(u)
        /\ partOf' = [c \in ChunkIds |->
                        IF c \in moved \/ (partOf[c] # None /\ partOf[c][1] = u)
                        THEN None ELSE partOf[c]]
        /\ completer' = [completer EXCEPT ![x] = NewCompleter]
        /\ UNCHANGED <<created, blob, writer, reader, deleter, condemned>>

\* The transaction: ensure the bucket, replace the object row, delete the key's
\* chunk rows, UPDATE ... WHERE id = ? for every chunk that was read (no row, no
\* effect: the affected rows are not looked at), delete the upload.  The
\* GetObject that follows only fills the response.
CompleteMultipartUpload(x) ==
    LET l == completer[x].loc
        u == completer[x].up
        ids == completer[x].ids
        moved == {c \in ChunkIds : /\ \E i \in DOMAIN ids : ids[i] = c
                                   /\ HasRow(c) /\ objOf[c] # l}
    IN  /\ completer[x].pc = "commit"
        /\ buckets' = buckets \cup {l[1]}
        /\ objects' = [objects EXCEPT ![l] = PartsETag(completer[x].parts)]
        /\ objOf' = [c \in ChunkIds |->
                        IF c \in moved THEN l
                        ELSE IF objOf[c] = l THEN None ELSE objOf[c]]
        /\ ord' = [c \in ChunkIds |->
                        IF c \in moved THEN Position(ids, c) - 1 ELSE ord[c]]
        /\ DropUpload(u)
        /\ partOf' = [c \in ChunkIds |->
                        IF c \in moved \/ (partOf[c] # None /\ partOf[c][1] = u)
                        THEN None ELSE partOf[c]]
        /\ completer' = [completer EXCEPT ![x] = NewCompleter]
        /\ UNCHANGED <<created, blob, writer, reader, deleter, condemned>>

-----------------------------------------------------------------------------
(***************************************************************************)
(* metadata.GetObject: the row, then the chunk rows, then the shard rows   *)
(* of each chunk, all by separate statements.                              *)
(***************************************************************************)
GetObjectRow(r, l) ==
    /\ reader[r].pc = "idle"
    /\ objects[l] # None
    /\ reader' = [reader EXCEPT ![r].pc = "chunks", ![r].loc = l, ![r].etag = objects[l]]
    /\ UNCHANGED <<tables, blob, writer, completer, deleter, condemned>>

GetChunks(r) ==
    /\ reader[r].pc = "chunks"
    /\ \E s \in InOrder(ObjectChunks(reader[r].loc)) :
          reader' = [reader EXCEPT ![r].pc = "shards", ![r].ids = s]
    /\ UNCHANGED <<tables, blob, writer, completer, deleter, condemned>>

\* getShards of the next chunk: its shard rows are gone if its row is.
GetShards(r) ==
    LET c == reader[r].ids[reader[r].pos]
    IN  /\ reader[r].pc = "shards"
        /\ reader[r].pos <= Len(reader[r].ids)
        /\ reader' = [reader EXCEPT ![r].pos = @ + 1,
                                    ![r].got = IF HasRow(c) THEN @ \cup {c} ELSE @]
        /\ UNCHANGED <<tables, blob, writer, completer, deleter, condemned>>

\* The handler has the object: headers from the row, data from the chunks.
Serve(r) ==
    /\ reader[r].pc = "shards"
    /\ reader[r].pos > Len(reader[r].ids)
    /\ reader' = [reader EXCEPT ![r].pc = "served"]
    /\ UNCHANGED <<tables, blob, writer, completer, deleter, condemned>>

EndRead(r) ==
    /\ reader[r].pc = "served"
    /\ reader' = [reader EXCEPT ![r] = NewReader]
    /\ UNCHANGED <<tables, blob, writer, completer, deleter, condemned>>

-----------------------------------------------------------------------------
(***************************************************************************)
(* objectManager.DeleteObject: metadata.GetObject, then the shards of      *)
(* every chunk are deleted from the backends, then the object row.         *)
(***************************************************************************)
StartDelete(d, l) ==
    /\ deleter[d].pc = "idle"
    /\ objects[l] # None
    /\ deleter' = [deleter EXCEPT ![d].pc = "chunks", ![d].loc = l]
    /\ condemned' = condemned \cup {l}
    /\ UNCHANGED <<tables, blob, writer, completer, reader>>

DeleteGetChunks(d) ==
    /\ deleter[d].pc = "chunks"
    /\ \E s \in InOrder(ObjectChunks(deleter[d].loc)) :
          deleter' = [deleter EXCEPT ![d].pc = "shards", ![d].ids = s]
    /\ UNCHANGED <<tables, blob, writer, completer, reader, condemned>>

DeleteGetShards(d) ==
    LET c == deleter[d].ids[deleter[d].pos]
    IN  /\ deleter[d].pc = "shards"
        /\ deleter[d].pos <= Len(deleter[d].ids)
        /\ deleter' = [deleter EXCEPT ![d].pos = @ + 1,
                                      ![d].got = IF HasRow(c) THEN @ \cup {c} ELSE @]
        /\ UNCHANGED <<tables, blob, writer, completer, reader, condemned>>

BeginDestroy(d) ==
    /\ deleter[d].pc = "shards"
    /\ deleter[d].pos > Len(deleter[d].ids)
    /\ deleter' = [deleter EXCEPT ![d].pc = "destroy", ![d].pos = 1]
    /\ UNCHANGED <<tables, blob, writer, completer, reader, condemned>>

\* DeleteChunk: all shards of the next chunk are deleted (none, if its shard
\* rows were gone when they were read).
DestroyChunk(d) ==
    LET c == deleter[d].ids[deleter[d].pos]
    IN  /\ deleter[d].pc = "destroy"
        /\ deleter[d].pos <= Len(deleter[d].ids)
        /\ c \in deleter[d].got => blob[c] = "stored"
        /\ blob' = IF c \in deleter[d].got THEN [blob EXCEPT ![c] = "none"] ELSE blob
        /\ deleter' = [deleter EXCEPT ![d].pos = @ + 1]
        /\ UNCHANGED <<tables, writer, completer, reader, condemned>>

\* Mutant of DestroyFails: the error is dropped and the loop goes on.
DestroyFailsContinues(d) ==
    LET c == deleter[d].ids[deleter[d].pos]
    IN  /\ deleter[d].pc = "destroy"
        /\ deleter[d].pos <= Len(deleter[d].ids)
        /\ c \in deleter[d].got
        /\ \/ blob' = blob
           \/ blob[c] = "stored" /\ blob' = [blob EXCEPT ![c] = "damaged"]
        /\ deleter' = [deleter EXCEPT ![d].pos = @ + 1]
        /\ UNCHANGED <<tables, writer, completer, reader, condemned>>

\* DestroyShards stops at the first error: a backend refuses a deletion after
\* some shards are gone (or before any is), or the first shard does not exist
\* any more, because an earlier or a concurrent DeleteObject removed it.
DestroyFails(d) ==
    LET c == deleter[d].ids[deleter[d].pos]
    IN  /\ deleter[d].pc = "destroy"
        /\ deleter[d].pos <= Len(deleter[d].ids)
        /\ c \in deleter[d].got
        /\ \/ blob' = blob
           \/ blob[c] = "stored" /\ blob' = [blob EXCEPT ![c] = "damaged"]
        /\ deleter' = [deleter EXCEPT ![d] = NewDeleter]
        /\ UNCHANGED <<tables, writer, completer, reader, condemned>>

\* metadata.DeleteObject: the row of the key, whichever version it is by now,
\* and by cascade its chunk rows; without a row the request fails.
DeleteRow(d) ==
    LET l == deleter[d].loc
    IN  /\ deleter[d].pc = "destroy"
        /\ deleter[d].pos > Len(deleter[d].ids)
        /\ objects' = [objects EXCEPT ![l] = None]
        /\ objOf' = [c \in ChunkIds |-> IF objOf[c] = l THEN None ELSE objOf[c]]
        /\ deleter' = [deleter EXCEPT ![d] = NewDeleter]
        /\ UNCHANGED <<buckets, uploads, created, parts, partOf, ord, blob,
                       writer, completer, reader, condemned>>

-----------------------------------------------------------------------------
\* The server is restarted: every request in flight is gone, what the tables
\* and the backends hold stays.
Crash ==
    /\ writer' = [w \in Writers |->
                    IF writer[w].pc \in {"idle", "ok"} THEN writer[w]
                    ELSE [writer[w] EXCEPT !.pc = "failed"]]
    /\ completer' = [x \in Completers |-> NewCompleter]
    /\ reader' = [r \in Readers |-> NewReader]
    /\ deleter' = [d \in Deleters |-> NewDeleter]
    /\ UNCHANGED <<tables, blob, condemned>>

Write(w) ==
    \/ \E l \in Locations : StartPut(w, l)
    \/ \E q \in Parts : StartPart(w, q)
    \/ ChunkBody(w) \/ ChunkBodyFails(w)
    \/ PutObject(w) \/ CheckUpload(w) \/ PutPart(w) \/ PutPartRollback(w)

Complete(x) ==
    \/ \E u \in UploadIds : StartComplete(x, u)
    \/ ListParts(x)
    \/ \E p \in PartNumbers : GetPartChunks(x, p)
    \/ CompleteMultipartUpload(x)

Read(r) ==
    \/ \E l \in Locations : GetObjectRow(r, l)
    \/ GetChunks(r) \/ GetShards(r) \/ Serve(r) \/ EndRead(r)

Delete(d) ==
    \/ \E l \in Locations : StartDelete(d, l)
    \/ DeleteGetChunks(d) \/ DeleteGetShards(d) \/ BeginDestroy(d)
    \/ DestroyChunk(d) \/ DestroyFails(d) \/ DeleteRow(d)

Step ==
    \/ \E b \in Buckets : CreateBucket(b) \/ DeleteBucket(b)
    \/ \E u \in UploadIds : \/ \E l \in Locations : CreateMultipartUpload(u, l)
                            \/ AbortMultipartUpload(u)
    \/ \E w \in Writers : Write(w)
    \/ \E x \in Completers : Complete(x)
    \/ \E r \in Readers : Read(r)
    \/ \E d \in Deleters : Delete(d)
    \/ Crash

\* While x completes an upload somebody else completes it too or uploads a part
\* of it, or the upload has gone by an abort or with its bucket.
Races(x) ==
    /\ completer[x].pc # "idle"
    /\ \/ uploads[completer[x].up] = None
       \/ \E y \in Completers \ {x} :
             completer[y].pc # "idle" /\ completer[y].up = completer[x].up
       \/ \E w \in Writers :
             /\ writer[w].pc \in {"chunking", "check", "commit"}
             /\ writer[w].part # None
             /\ writer[w].part[1] = completer[x].up

\* The history of overlapping calls is kept beside every step.
Observe == raced' = raced \cup {completer'[x].loc : x \in {y \in Completers : Races(y)'}}

Next == Step /\ Observe

Spec == Init /\ [][Next]_vars

-----------------------------------------------------------------------------
(***************************************************************************)
(* Properties.                                                             *)
(***************************************************************************)

\* The types of the tables' columns and of the requests' locals.
TypeOK ==
    /\ buckets \subseteq Buckets
    /\ objects \in [Locations -> ETags \cup {None}]
    /\ uploads \in [UploadIds -> Locations \cup {None}]
    /\ created \subseteq UploadIds
    /\ parts \in [Parts -> Writers \cup {None}]
    /\ objOf \in [ChunkIds -> Locations \cup {None}]
    /\ partOf \in [ChunkIds -> Parts \cup {None}]
    /\ ord \in [ChunkIds -> Nat]
    /\ blob \in [ChunkIds -> {"none", "stored", "damaged"}]
    /\ writer \in [Writers -> [pc : {"idle", "chunking", "check", "commit", "ok", "failed"},
                               loc : Locations \cup {None}, part : Parts \cup {None}]]
    /\ completer \in [Completers ->
            [pc : {"idle", "list", "chunks", "commit"}, up : UploadIds \cup {None},
             loc : Locations \cup {None}, parts : PartRows,
             left : SUBSET PartNumbers, ids : Seq(ChunkIds)]]
    /\ reader \in [Readers ->
            [pc : {"idle", "chunks", "shards", "served"}, loc : Locations \cup {None},
             etag : ETags \cup {None}, ids : Seq(ChunkIds), pos : Nat \ {0}, got : SUBSET ChunkIds]]
    /\ deleter \in [Deleters ->
            [pc : {"idle", "chunks", "shards", "destroy"}, loc : Locations \cup {None},
             ids : Seq(ChunkIds), pos : Nat \ {0}, got : SUBSET ChunkIds]]
    /\ condemned \subseteq Locations
    /\ raced \subseteq Locations

\* The foreign keys and the CHECK constraint of the schema, after every
\* transaction and cascade: no row refers to a missing one, and a chunk belongs
\* to an object or to a part, never to both.
References ==
    /\ \A l \in Locations : objects[l] # None => l[1] \in buckets
    /\ \A u \in UploadIds : uploads[u] # None => uploads[u][1] \in buckets
    /\ \A q \in Parts : parts[q] # None => uploads[q[1]] # None
    /\ \A c \in ChunkIds :
          /\ objOf[c] # None => objects[objOf[c]] # None
          /\ partOf[c] # None => parts[partOf[c]] # None
          /\ objOf[c] = None \/ partOf[c] = None

\* No object ever holds data that was uploaded for another key: whatever
\* requests race, a chunk is attached only to the location (and the part) its
\* own request named.
Isolation ==
    \A c \in ChunkIds :
        /\ objOf[c] # None => objOf[c] = writer[c[1]].loc
        /\ partOf[c] # None => partOf[c] = writer[c[1]].part

\* The chunks of one body are attached, moved and dropped together, also when a
\* part is uploaded again, an upload aborted or a bucket deleted while the
\* upload is being completed.
ChunksTogether ==
    \A c, d \in ChunkIds : c[1] = d[1] => objOf[c] = objOf[d] /\ partOf[c] = partOf[d]

\* c comes before d in the data: by part number, then by position in the body.
Before(c, d) ==
    \/ c[1] = d[1] /\ c[2] < d[2]
    \/ c[1] # d[1] /\ writer[c[1]].part[2] < writer[d[1]].part[2]

\* The ordinals of an object's chunks are distinct (the unique index) and
\* follow the part numbers and the order within each body.
OrdinalsFollowData ==
    \A c, d \in ChunkIds :
        (c # d /\ objOf[c] # None /\ objOf[c] = objOf[d]) =>
            ((Before(c, d) /\ ord[c] < ord[d]) \/ (Before(d, c) /\ ord[d] < ord[c]))

\* The rows in S by their ordinals, which are distinct.
ByOrdinal(S) ==
    [i \in 1 .. Cardinality(S) |->
        CHOOSE c \in S : Cardinality({d \in S : ord[d] < ord[c]}) = i - 1]

\* The object at l as a client sees it: the body its ETag and size are those of,
\* None for a completed upload, and its chunks in order.
Content(l) ==
    IF objects[l] = None THEN None
    ELSE [body |-> IF objects[l].kind = "put" THEN objects[l].writer ELSE None,
          chunks |-> ByOrdinal(ObjectChunks(l))]

\* The tables keep the promise of module Store: whatever requests race, fail or
\* are cut off by a restart, every key has no object or one of whole bodies, an
\* object with the ETag of a PutObject has exactly the chunks of its body, in
\* order, and each change from one to the next is one step.
Promise == INSTANCE Store WITH
    Absent <- None,
    content <- [l \in Locations |-> Content(l)]
ImplementsStore == Promise!Spec

\* The object at l has exactly the chunks of the parts its ETag and size were
\* computed from, if CompleteMultipartUpload wrote its row.
WholeAt(l) ==
    \A f \in PartRows :
        objects[l] = PartsETag(f) =>
            ObjectChunks(l) = {c \in ChunkIds : \E p \in PartNumbers : f[p] = c[1]}

\* A client that makes its calls on an upload one after the other gets an object
\* with exactly the chunks of the parts that its ETag and size were computed
\* from, whatever happened to the upload's parts before, whichever other
\* uploads, puts and restarts there were.
SerialIsWhole ==
    \A l \in Locations \ raced : WholeAt(l)

\* CompleteMultipartUpload finalizes the upload into an object made of its parts,
\* also when other calls on the upload run at the same time.
MultipartIsWhole ==
    \A l \in Locations : WholeAt(l)

\* As long as nobody asks for the deletion of a key, all data of its object is on
\* the backends: overwrites, completions, deletions of other keys, restarts and
\* failed requests never destroy shards a chunk row still names.
UndeletedIsIntact ==
    \A c \in ChunkIds :
        (objOf[c] # None /\ objOf[c] \notin condemned) => blob[c] = "stored"

\* DeleteObject removes the row only after every shard it was told of is gone: a
\* failed deletion leaves the row, so that no reference to a shard is lost.
ShardsGoBeforeRow ==
    \A d \in Deleters :
        (deleter[d].pc = "destroy" /\ deleter[d].pos > Len(deleter[d].ids)) =>
            \A c \in deleter[d].got : blob[c] = "none"

\* A chunk row only ever moves forward: from no row to a part or an object, from
\* a part to an object, and out; a row that was deleted does not come back, and
\* a retried completion cannot attach it again.
ChunkRowsMoveForward ==
    [][\A c \in ChunkIds :
          /\ objOf[c] # None => objOf'[c] \in {objOf[c], None} /\ partOf'[c] = None
          /\ (partOf[c] # None /\ partOf'[c] # partOf[c]) => partOf'[c] = None
          /\ (~HasRow(c) /\ HasRow(c)') => writer[c[1]].pc = "commit" /\ writer'[c[1]].pc = "ok"]_vars

\* The chunk list of a served GetObject is that of one version of the object: a
\* body written by PutObject is there as a whole, in order, and alone, however
\* many overwrites, deletes and completions ran meanwhile.
ReadIsOneVersion ==
    \A r \in Readers : reader[r].pc = "served" =>
        \A i \in DOMAIN reader[r].ids :
            LET w == reader[r].ids[i][1]
            IN  writer[w].part = None =>
                    reader[r].ids = [j \in 1 .. ChunkCount[w] |-> <<w, j>>]
=============================================================================
