-------------------------- MODULE ObjectStoreProofs --------------------------
(***************************************************************************)
(* Proofs about module ObjectStore, for any buckets, keys, requests, parts *)
(* and lengths of bodies.  Nothing keeps the statements of two requests    *)
(* apart, so the invariant says of every request what it may still rely on *)
(* of the rows it has read: rows are written once, by the request that     *)
(* made the data, and only ever move forward or go.                        *)
(***************************************************************************)
EXTENDS ObjectStore, FiniteSetTheorems, TLAPS

Elements(s) == {s[i] : i \in DOMAIN s}

\* The rows of the tables refer to each other and to the requests that wrote
\* them: a part row and its chunk rows are always those of the same body.
BucketRowsOK ==
    /\ \A l \in Locations : objects[l] # None => l[1] \in buckets
    /\ \A u \in UploadIds : uploads[u] # None => uploads[u][1] \in buckets /\ u \in created

PartRowsOK ==
    \A q \in Parts : parts[q] # None =>
        uploads[q[1]] # None /\ writer[parts[q]].pc = "ok" /\ writer[parts[q]].part = q

ChunkRowOK(c) ==
    /\ HasRow(c) => writer[c[1]].pc = "ok"
    /\ objOf[c] # None => objOf[c] = writer[c[1]].loc /\ objects[objOf[c]] # None
    /\ partOf[c] # None => partOf[c] = writer[c[1]].part /\ ord[c] = c[2] - 1
    /\ objOf[c] = None \/ partOf[c] = None
    /\ \A q \in Parts : partOf[c] = q <=> parts[q] = c[1]

RowsOK == BucketRowsOK /\ PartRowsOK /\ \A c \in ChunkIds : ChunkRowOK(c)

\* The location of a part is that of its upload, which is given once.
WritersOK ==
    \A w \in Writers :
        /\ writer[w].pc # "idle" => writer[w].loc # None
        /\ writer[w].pc = "idle" => writer[w].part = None
        /\ writer[w].pc = "check" => writer[w].part # None
        /\ writer[w].part # None =>
              /\ writer[w].part[1] \in created
              /\ uploads[writer[w].part[1]] \in {None, writer[w].loc}

\* What a CompleteMultipartUpload has read: whole bodies of parts of its upload,
\* which belong to its location, in the order of the data.
CompleterOK(x) ==
    LET r == completer[x] IN
    /\ r.pc = "idle" => r.ids = <<>>
    /\ r.pc # "idle" =>
          /\ r.up \in created /\ r.loc # None /\ uploads[r.up] \in {None, r.loc}
          /\ \A w \in Writers :
                (writer[w].part # None /\ writer[w].part[1] = r.up) => writer[w].loc = r.loc
    /\ r.pc = "list" => r.ids = <<>>
    /\ r.pc = "commit" => r.left = {}
    /\ \A c \in Elements(r.ids) :
          /\ writer[c[1]].pc = "ok" /\ writer[c[1]].part # None
          /\ writer[c[1]].part[1] = r.up
          /\ \A p \in r.left : writer[c[1]].part[2] < p
          /\ \A d \in ChunkIds : d[1] = c[1] => d \in Elements(r.ids)
    /\ \A i, j \in DOMAIN r.ids : i < j => Before(r.ids[i], r.ids[j])

CompletersOK == \A x \in Completers : CompleterOK(x)

\* The object row and the chunk rows of a key are of the same request.
ObjectsOK ==
    /\ \A l \in Locations, w \in Writers : objects[l] = PutETag(w) =>
          /\ writer[w].pc = "ok" /\ writer[w].part = None /\ writer[w].loc = l
          /\ \A c \in ChunkIds : objOf[c] = l <=> c[1] = w
          /\ \A c \in ChunkIds : c[1] = w => ord[c] = c[2] - 1
    /\ \A l \in Locations, f \in PartRows : objects[l] = PartsETag(f) =>
          \A c \in ChunkIds : objOf[c] = l => writer[c[1]].part # None

\* What a DeleteObject has read, and how far it is.
DeleterOK(d) ==
    LET r == deleter[d] IN
    /\ r.pc \in {"idle", "chunks"} => r.ids = <<>> /\ r.got = {}
    /\ r.pc # "idle" => r.loc # None /\ r.loc \in condemned
    /\ r.got \subseteq Elements(r.ids)
    /\ \A c \in Elements(r.ids) : writer[c[1]].pc = "ok" /\ writer[c[1]].loc = r.loc
    /\ r.pc = "destroy" =>
          \A i \in DOMAIN r.ids : i < r.pos /\ r.ids[i] \in r.got => blob[r.ids[i]] = "none"

DeletersOK == \A d \in Deleters : DeleterOK(d)

\* A body that was stored is there, or its key was condemned.
BlobsOK ==
    \A c \in ChunkIds : writer[c[1]].pc \in {"check", "commit", "ok"} =>
        blob[c] = "stored" \/ writer[c[1]].loc \in condemned

\* What a GetObject has read.
ReadersOK ==
    \A r \in Readers :
        /\ reader[r].pc \in {"idle", "chunks"} => reader[r].ids = <<>>
        /\ reader[r].pc # "idle" => reader[r].loc # None
        /\ \A i \in DOMAIN reader[r].ids :
              LET w == reader[r].ids[i][1]
              IN  /\ writer[w].pc = "ok"
                  /\ writer[w].part = None =>
                        reader[r].ids = [j \in 1 .. ChunkCount[w] |-> <<w, j>>]

IndInv == /\ TypeOK /\ RowsOK /\ WritersOK /\ CompletersOK /\ ObjectsOK /\ OrdinalsFollowData
          /\ ChunksTogether /\ DeletersOK /\ BlobsOK /\ ReadersOK

\* A completion that nobody disturbs has listed the part rows as they still are
\* and has read exactly the chunks of the parts it has passed.
ListingOK(x) ==
    LET r == completer[x] IN
    (r.pc \in {"chunks", "commit"} /\ r.loc \notin raced) =>
        /\ \A p \in PartNumbers : r.parts[p] # None => parts[<<r.up, p>>] = r.parts[p]
        /\ \A p \in r.left : r.parts[p] # None
        /\ \A c \in ChunkIds : c \in Elements(r.ids) <=>
              \E p \in PartNumbers \ r.left : r.parts[p] = c[1]

SerialOK ==
    /\ \A x \in Completers : Races(x) => completer[x].loc \in raced
    /\ \A x \in Completers : ListingOK(x)
    /\ SerialIsWhole

-----------------------------------------------------------------------------
(***************************************************************************)
(* Chunks, and the lists of them that statements return.                   *)
(***************************************************************************)
\* A chunk is the writer of its body and the position in it.
LEMMA ChunkFacts ==
    /\ \A c \in ChunkIds : /\ c = <<c[1], c[2]>> /\ c[1] \in Writers
                           /\ c[2] \in Nat /\ c[2] >= 1 /\ c[2] <= ChunkCount[c[1]]
    /\ \A w \in Writers : \A i \in 1 .. ChunkCount[w] : <<w, i>> \in ChunkIds
    /\ \A c, d \in ChunkIds : c[1] = d[1] /\ c[2] = d[2] => c = d
<1>1. \A c \in ChunkIds : \E w \in Writers : c \in {w} \X (1 .. ChunkCount[w])
  BY DEF ChunkIds, ChunksOf
<1>2. \A c \in ChunkIds : /\ c = <<c[1], c[2]>> /\ c[1] \in Writers
                          /\ c[2] \in Nat /\ c[2] >= 1 /\ c[2] <= ChunkCount[c[1]]
  BY <1>1, ChunkCountAssumption
<1>3. \A w \in Writers : \A i \in 1 .. ChunkCount[w] : <<w, i>> \in ChunkIds
  BY DEF ChunkIds, ChunksOf
<1>4. \A c, d \in ChunkIds : c[1] = d[1] /\ c[2] = d[2] => c = d
  BY <1>2
<1> QED
  BY <1>2, <1>3, <1>4

LEMMA ChunksFinite == IsFiniteSet(ChunkIds)
<1>1. \A w \in Writers : IsFiniteSet(ChunksOf(w))
  <2> SUFFICES ASSUME NEW w \in Writers PROVE IsFiniteSet({w} \X (1 .. ChunkCount[w]))
    BY DEF ChunksOf
  <2>1. IsFiniteSet({w})
    BY FS_Singleton, Zenon
  <2>2. IsFiniteSet(1 .. ChunkCount[w])
    BY FS_Interval, ChunkCountAssumption
  <2> QED
    BY <2>1, <2>2, FS_Product
<1>2. IsFiniteSet({ChunksOf(w) : w \in Writers})
  <2> DEFINE T == {ChunksOf(w) : w \in Writers}
             f == [w \in Writers |-> ChunksOf(w)]
  <2>1. f \in Surjection(Writers, T)
    BY DEF Surjection
  <2> QED
    BY <2>1, WritersAssumption, FS_Surjection
<1>3. \A T \in {ChunksOf(w) : w \in Writers} : IsFiniteSet(T)
  BY <1>1
<1> QED
  BY <1>2, <1>3, FS_UNION DEF ChunkIds

\* ORDER BY ordinal lists every row once.
LEMMA OrderedRows ==
    ASSUME NEW S \in SUBSET ChunkIds, NEW s \in InOrder(S)
    PROVE  /\ Cardinality(S) \in Nat /\ IsFiniteSet(S)
           /\ s \in Seq(ChunkIds) /\ Len(s) = Cardinality(S)
           /\ DOMAIN s = 1 .. Cardinality(S) /\ Elements(s) = S
           /\ \A i, j \in DOMAIN s : i < j => s[i] # s[j] /\ ord[s[i]] <= ord[s[j]]
<1> DEFINE n == Cardinality(S)
<1>1. IsFiniteSet(S) /\ n \in Nat
  BY ChunksFinite, FS_Subset, FS_CardinalityType
<1>2. s \in [1 .. n -> S]
  BY DEF InOrder
<1>3. \A i, j \in 1 .. n : i < j => s[i] # s[j] /\ ord[s[i]] <= ord[s[j]]
  BY DEF InOrder
<1> HIDE DEF n
<1>4. s \in Injection(1 .. n, S)
  <2>1. \A i, j \in 1 .. n : s[i] = s[j] => i = j
    BY <1>1, <1>3
  <2> QED
    BY <1>2, <2>1 DEF Injection, IsInjective
<1>5. Cardinality(1 .. n) = n
  BY <1>1, FS_Interval
<1>6. s \in Surjection(1 .. n, S)
  BY <1>1, <1>4, <1>5, FS_Injection DEF n
<1>7. Elements(s) = S
  BY <1>2, <1>6 DEF Surjection, Elements
<1>8. s \in Seq(ChunkIds) /\ Len(s) = n
  BY <1>1, <1>2
<1> QED
  BY <1>1, <1>2, <1>3, <1>7, <1>8 DEF n

\* The elements of two lists, one after the other.
LEMMA Concatenation ==
    ASSUME NEW S, NEW s \in Seq(S), NEW t \in Seq(S)
    PROVE  /\ s \o t \in Seq(S)
           /\ DOMAIN (s \o t) = 1 .. Len(s) + Len(t)
           /\ \A i \in 1 .. Len(s) : i \in DOMAIN s /\ (s \o t)[i] = s[i]
           /\ \A i \in Len(s) + 1 .. Len(s) + Len(t) :
                 i - Len(s) \in DOMAIN t /\ (s \o t)[i] = t[i - Len(s)]
           /\ Elements(s \o t) = Elements(s) \cup Elements(t)
<1> DEFINE all == s \o t
<1>1. /\ all \in Seq(S) /\ Len(s) \in Nat /\ Len(t) \in Nat
      /\ DOMAIN s = 1 .. Len(s) /\ DOMAIN t = 1 .. Len(t) /\ DOMAIN all = 1 .. Len(s) + Len(t)
  OBVIOUS
<1>2. \A i \in 1 .. Len(s) : i \in DOMAIN s /\ all[i] = s[i]
  OBVIOUS
<1>3. \A i \in Len(s) + 1 .. Len(s) + Len(t) : i - Len(s) \in DOMAIN t /\ all[i] = t[i - Len(s)]
  OBVIOUS
<1> HIDE DEF all
<1>4. Elements(all) \subseteq Elements(s) \cup Elements(t)
  <2> SUFFICES ASSUME NEW i \in DOMAIN all PROVE all[i] \in Elements(s) \cup Elements(t)
    BY DEF Elements
  <2>1. i \in 1 .. Len(s) \/ i \in Len(s) + 1 .. Len(s) + Len(t)
    BY <1>1
  <2> QED
    BY <1>2, <1>3, <2>1 DEF Elements
<1>5. Elements(s) \subseteq Elements(all)
  <2> SUFFICES ASSUME NEW i \in DOMAIN s PROVE s[i] \in Elements(all)
    BY DEF Elements
  <2>1. i \in 1 .. Len(s) /\ i \in DOMAIN all
    BY <1>1
  <2> QED
    BY <1>2, <2>1 DEF Elements
<1>6. Elements(t) \subseteq Elements(all)
  <2> SUFFICES ASSUME NEW i \in DOMAIN t PROVE t[i] \in Elements(all)
    BY DEF Elements
  <2> DEFINE k == i + Len(s)
  <2>1. k \in Len(s) + 1 .. Len(s) + Len(t) /\ k \in DOMAIN all /\ k - Len(s) = i
    BY <1>1
  <2> HIDE DEF k
  <2>2. all[k] = t[i]
    BY <1>3, <2>1
  <2> QED
    BY <2>1, <2>2 DEF Elements
<1>7. Elements(all) = Elements(s) \cup Elements(t)
  BY <1>4, <1>5, <1>6, Zenon
<1> QED
  BY <1>1, <1>2, <1>3, <1>7 DEF all

\* ETags tell bodies and completed uploads apart.
LEMMA ETagFacts ==
    /\ \A w \in Writers : PutETag(w) # None
    /\ \A f \in PartRows : PartsETag(f) # None
    /\ \A w, v \in Writers : PutETag(w) = PutETag(v) => w = v
    /\ \A f, g \in PartRows : PartsETag(f) = PartsETag(g) => f = g
    /\ \A w \in Writers, f \in PartRows : PutETag(w) # PartsETag(f)
<1>1. \A w \in Writers : PutETag(w) # None
  BY ETagsAssumption DEF ETags
<1>2. \A f \in PartRows : PartsETag(f) # None
  BY ETagsAssumption DEF ETags
<1>3. \A w, v \in Writers : PutETag(w) = PutETag(v) => w = v
  <2> SUFFICES ASSUME NEW w \in Writers, NEW v \in Writers, PutETag(w) = PutETag(v) PROVE w = v
    OBVIOUS
  <2>1. PutETag(w).writer = w /\ PutETag(v).writer = v
    BY DEF PutETag
  <2> QED
    BY <2>1
<1>4. \A f, g \in PartRows : PartsETag(f) = PartsETag(g) => f = g
  <2> SUFFICES ASSUME NEW f \in PartRows, NEW g \in PartRows, PartsETag(f) = PartsETag(g) PROVE f = g
    OBVIOUS
  <2>1. PartsETag(f).parts = f /\ PartsETag(g).parts = g
    BY DEF PartsETag
  <2> QED
    BY <2>1
<1>5. \A w \in Writers, f \in PartRows : PutETag(w) # PartsETag(f)
  <2> SUFFICES ASSUME NEW w \in Writers, NEW f \in PartRows PROVE PutETag(w).kind # PartsETag(f).kind
    OBVIOUS
  <2> QED
    BY DEF PutETag, PartsETag
<1> QED
  BY <1>1, <1>2, <1>3, <1>4, <1>5

-----------------------------------------------------------------------------
\* The initial state of ObjectStore satisfies the invariant.
LEMMA InitInv == Init => IndInv /\ SerialOK
<1> SUFFICES ASSUME Init PROVE IndInv /\ SerialOK
  OBVIOUS
<1> USE NoneAssumption, ETagsAssumption DEF Init, NewWriter, NewCompleter, NewReader, NewDeleter
<1>1. TypeOK
  <2>1. writer \in [Writers -> [pc : {"idle", "chunking", "check", "commit", "ok", "failed"},
                                loc : Locations \cup {None}, part : Parts \cup {None}]]
    OBVIOUS
  <2>2. completer \in [Completers ->
            [pc : {"idle", "list", "chunks", "commit"}, up : UploadIds \cup {None},
             loc : Locations \cup {None}, parts : PartRows,
             left : SUBSET PartNumbers, ids : Seq(ChunkIds)]]
    BY DEF PartRows
  <2>3. reader \in [Readers ->
            [pc : {"idle", "chunks", "shards", "served"}, loc : Locations \cup {None},
             etag : ETags \cup {None}, ids : Seq(ChunkIds), pos : Nat \ {0}, got : SUBSET ChunkIds]]
    OBVIOUS
  <2>4. deleter \in [Deleters ->
            [pc : {"idle", "chunks", "shards", "destroy"}, loc : Locations \cup {None},
             ids : Seq(ChunkIds), pos : Nat \ {0}, got : SUBSET ChunkIds]]
    OBVIOUS
  <2> QED
    BY <2>1, <2>2, <2>3, <2>4 DEF TypeOK
<1>2. RowsOK /\ WritersOK
  BY ChunkFacts DEF RowsOK, BucketRowsOK, PartRowsOK, ChunkRowOK, WritersOK, HasRow, Parts
<1>3. CompletersOK /\ DeletersOK /\ ReadersOK
  BY DEF CompletersOK, CompleterOK, DeletersOK, DeleterOK, ReadersOK, Elements
<1>4. ObjectsOK /\ OrdinalsFollowData /\ ChunksTogether /\ BlobsOK
  BY ChunkFacts DEF ObjectsOK, OrdinalsFollowData, ChunksTogether, BlobsOK, ETags
<1>5. SerialOK
  <2>1. \A x \in Completers : completer[x].pc = "idle"
    OBVIOUS
  <2>2. SerialIsWhole
    BY ETagFacts DEF SerialIsWhole, WholeAt
  <2> QED
    BY <2>1, <2>2 DEF SerialOK, ListingOK, Races
<1> QED
  BY <1>1, <1>2, <1>3, <1>4, <1>5 DEF IndInv

-----------------------------------------------------------------------------
(***************************************************************************)
(* Type correctness: the tables, and the locals of each kind of request.   *)
(***************************************************************************)
WriterRec == [pc : {"idle", "chunking", "check", "commit", "ok", "failed"},
              loc : Locations \cup {None}, part : Parts \cup {None}]
CompleterRec ==
    [pc : {"idle", "list", "chunks", "commit"}, up : UploadIds \cup {None},
     loc : Locations \cup {None}, parts : PartRows, left : SUBSET PartNumbers, ids : Seq(ChunkIds)]
ReaderRec ==
    [pc : {"idle", "chunks", "shards", "served"}, loc : Locations \cup {None},
     etag : ETags \cup {None}, ids : Seq(ChunkIds), pos : Nat \ {0}, got : SUBSET ChunkIds]
DeleterRec ==
    [pc : {"idle", "chunks", "shards", "destroy"}, loc : Locations \cup {None},
     ids : Seq(ChunkIds), pos : Nat \ {0}, got : SUBSET ChunkIds]

TablesType ==
    /\ buckets \subseteq Buckets
    /\ objects \in [Locations -> ETags \cup {None}]
    /\ uploads \in [UploadIds -> Locations \cup {None}]
    /\ created \subseteq UploadIds
    /\ parts \in [Parts -> Writers \cup {None}]
    /\ objOf \in [ChunkIds -> Locations \cup {None}]
    /\ partOf \in [ChunkIds -> Parts \cup {None}]
    /\ ord \in [ChunkIds -> Nat]

RequestsType ==
    /\ blob \in [ChunkIds -> {"none", "stored", "damaged"}]
    /\ writer \in [Writers -> WriterRec]
    /\ completer \in [Completers -> CompleterRec]
    /\ reader \in [Readers -> ReaderRec]
    /\ deleter \in [Deleters -> DeleterRec]
    /\ condemned \subseteq Locations

LEMMA TypeParts == TypeOK <=> TablesType /\ RequestsType /\ raced \subseteq Locations
BY Zenon DEF TypeOK, TablesType, RequestsType, WriterRec, CompleterRec, ReaderRec, DeleterRec

\* The steps that change a table.
TableStep ==
    \/ \E b \in Buckets : CreateBucket(b) \/ DeleteBucket(b)
    \/ \E u \in UploadIds : \/ \E l \in Locations : CreateMultipartUpload(u, l)
                            \/ AbortMultipartUpload(u)
    \/ \E w \in Writers : PutObject(w) \/ PutPart(w)
    \/ \E x \in Completers : CompleteMultipartUpload(x)
    \/ \E d \in Deleters : DeleteRow(d)

LEMMA OtherSteps == Step => TableStep \/ UNCHANGED tables
BY Zenon DEF Step, TableStep, Write, Complete, Read, Delete, StartPut, StartPart, ChunkBody,
   ChunkBodyFails, CheckUpload, PutPartRollback, StartComplete, ListParts, GetPartChunks,
   GetObjectRow, GetChunks, GetShards, Serve, EndRead, StartDelete, DeleteGetChunks,
   DeleteGetShards, BeginDestroy, DestroyChunk, DestroyFails, Crash

\* The transactions write rows of the right types.
LEMMA TypeTables == IndInv /\ Step => TablesType'
<1> SUFFICES ASSUME IndInv, Step PROVE TablesType'
  OBVIOUS
<1>1. TablesType /\ RequestsType
  BY TypeParts DEF IndInv
<1> USE DEF TablesType
<1>2. CASE UNCHANGED tables
  BY <1>1, <1>2 DEF tables
<1>3. ASSUME NEW b \in Buckets, CreateBucket(b) PROVE TablesType'
  BY <1>1, <1>3 DEF CreateBucket
<1>4. ASSUME NEW b \in Buckets, DeleteBucket(b) PROVE TablesType'
  <2>1. objects' \in [Locations -> ETags \cup {None}] /\ objOf' \in [ChunkIds -> Locations \cup {None}]
    BY <1>1, <1>4 DEF DeleteBucket
  <2>2. uploads' \in [UploadIds -> Locations \cup {None}] /\ parts' \in [Parts -> Writers \cup {None}]
    BY <1>1, <1>4 DEF DeleteBucket
  <2>3. partOf' \in [ChunkIds -> Parts \cup {None}]
    BY <1>1, <1>4 DEF DeleteBucket
  <2> QED
    BY <1>1, <1>4, <2>1, <2>2, <2>3 DEF DeleteBucket
<1>5. ASSUME NEW u \in UploadIds, NEW l \in Locations, CreateMultipartUpload(u, l) PROVE TablesType'
  BY <1>1, <1>5 DEF CreateMultipartUpload, Locations
<1>6. ASSUME NEW u \in UploadIds, AbortMultipartUpload(u) PROVE TablesType'
  BY <1>1, <1>6 DEF AbortMultipartUpload, DropUpload
<1>7. ASSUME NEW w \in Writers, PutObject(w) PROVE TablesType'
  <2> DEFINE l == writer[w].loc
  <2>1. l \in Locations
    BY <1>1, <1>7 DEF PutObject, RequestsType, WriterRec, IndInv, WritersOK
  <2>2. PutETag(w) \in ETags
    BY DEF ETags
  <2>3. ord' \in [ChunkIds -> Nat]
    BY <1>1, <1>7, ChunkFacts DEF PutObject
  <2> QED
    BY <1>1, <1>7, <2>1, <2>2, <2>3 DEF PutObject, Locations
<1>8. ASSUME NEW w \in Writers, PutPart(w) PROVE TablesType'
  <2> DEFINE q == writer[w].part
  <2>1. q \in Parts
    BY <1>1, <1>8 DEF PutPart, RequestsType, WriterRec
  <2>2. ord' \in [ChunkIds -> Nat]
    BY <1>1, <1>8, ChunkFacts DEF PutPart
  <2>3. parts' \in [Parts -> Writers \cup {None}] /\ partOf' \in [ChunkIds -> Parts \cup {None}]
    BY <1>1, <1>8, <2>1 DEF PutPart
  <2> QED
    BY <1>1, <1>8, <2>2, <2>3 DEF PutPart
<1>9. ASSUME NEW x \in Completers, CompleteMultipartUpload(x) PROVE TablesType'
  <2> DEFINE l == completer[x].loc
             u == completer[x].up
             ids == completer[x].ids
             moved == {c \in ChunkIds : /\ \E i \in DOMAIN ids : ids[i] = c
                                        /\ HasRow(c) /\ objOf[c] # l}
  <2>1. completer[x] \in CompleterRec
    BY <1>1 DEF RequestsType
  <2>2. l \in Locations /\ u \in UploadIds
    BY <1>1, <1>9, <2>1 DEF CompleteMultipartUpload, CompleterRec, IndInv, CompletersOK, CompleterOK
  <2>3. PartsETag(completer[x].parts) \in ETags
    BY <2>1 DEF ETags, CompleterRec
  <2>4. ord' \in [ChunkIds -> Nat]
    <3>1. \A c \in moved : Position(ids, c) - 1 \in Nat
      <4> SUFFICES ASSUME NEW c \in moved PROVE Position(ids, c) - 1 \in Nat
        OBVIOUS
      <4>1. Position(ids, c) \in DOMAIN ids
        BY DEF Position
      <4>2. ids \in Seq(ChunkIds)
        BY <2>1 DEF CompleterRec
      <4> QED
        BY <4>1, <4>2
    <3>2. ord' = [c \in ChunkIds |-> IF c \in moved THEN Position(ids, c) - 1 ELSE ord[c]]
      BY <1>9 DEF CompleteMultipartUpload
    <3> HIDE DEF moved, ids
    <3> QED
      BY <1>1, <3>1, <3>2
  <2>5. objOf' \in [ChunkIds -> Locations \cup {None}] /\ partOf' \in [ChunkIds -> Parts \cup {None}]
    BY <1>1, <1>9, <2>2 DEF CompleteMultipartUpload
  <2>6. objects' \in [Locations -> ETags \cup {None}] /\ buckets' \subseteq Buckets
    BY <1>1, <1>9, <2>2, <2>3 DEF CompleteMultipartUpload, Locations
  <2>7. uploads' \in [UploadIds -> Locations \cup {None}] /\ parts' \in [Parts -> Writers \cup {None}]
    BY <1>1, <1>9, <2>2 DEF CompleteMultipartUpload, DropUpload
  <2> QED
    BY <1>1, <1>9, <2>4, <2>5, <2>6, <2>7 DEF CompleteMultipartUpload
<1>10. ASSUME NEW d \in Deleters, DeleteRow(d) PROVE TablesType'
  BY <1>1, <1>10 DEF DeleteRow
<1> QED
  BY <1>2, <1>3, <1>4, <1>5, <1>6, <1>7, <1>8, <1>9, <1>10, OtherSteps, Zenon DEF TableStep

\* Which steps change the locals of a kind of request, the blobs and condemned.
LEMMA OtherLocals ==
    Step => /\ (\E w \in Writers : Write(w)) \/ Crash \/ UNCHANGED writer
            /\ (\E x \in Completers : Complete(x)) \/ Crash \/ UNCHANGED completer
            /\ (\E r \in Readers : Read(r)) \/ Crash \/ UNCHANGED reader
            /\ (\E d \in Deleters : Delete(d)) \/ Crash \/ UNCHANGED deleter
            /\ (\E w \in Writers : ChunkBody(w))
               \/ (\E d \in Deleters : DestroyChunk(d) \/ DestroyFails(d)) \/ UNCHANGED blob
            /\ (\E d \in Deleters, l \in Locations : StartDelete(d, l)) \/ UNCHANGED condemned
<1> SUFFICES ASSUME Step
             PROVE  /\ (\E w \in Writers : Write(w)) \/ Crash \/ UNCHANGED writer
                    /\ (\E x \in Completers : Complete(x)) \/ Crash \/ UNCHANGED completer
                    /\ (\E r \in Readers : Read(r)) \/ Crash \/ UNCHANGED reader
                    /\ (\E d \in Deleters : Delete(d)) \/ Crash \/ UNCHANGED deleter
                    /\ (\E w \in Writers : ChunkBody(w))
                       \/ (\E d \in Deleters : DestroyChunk(d) \/ DestroyFails(d)) \/ UNCHANGED blob
                    /\ (\E d \in Deleters, l \in Locations : StartDelete(d, l)) \/ UNCHANGED condemned
  OBVIOUS
<1>1. \A b \in Buckets : CreateBucket(b) \/ DeleteBucket(b) =>
          UNCHANGED <<writer, completer, reader, deleter, blob, condemned>>
  BY Zenon DEF CreateBucket, DeleteBucket
<1>2. \A u \in UploadIds : (\E l \in Locations : CreateMultipartUpload(u, l)) \/ AbortMultipartUpload(u) =>
          UNCHANGED <<writer, completer, reader, deleter, blob, condemned>>
  BY Zenon DEF CreateMultipartUpload, AbortMultipartUpload
<1>3. \A w \in Writers : Write(w) =>
          UNCHANGED <<completer, reader, deleter, condemned>> /\ (ChunkBody(w) \/ UNCHANGED blob)
  BY Zenon DEF Write, StartPut, StartPart, ChunkBody, ChunkBodyFails, PutObject, CheckUpload,
     PutPart, PutPartRollback
<1>4. \A x \in Completers : Complete(x) => UNCHANGED <<writer, reader, deleter, blob, condemned>>
  BY Zenon DEF Complete, StartComplete, ListParts, GetPartChunks, CompleteMultipartUpload
<1>5. \A r \in Readers : Read(r) => UNCHANGED <<writer, completer, deleter, blob, condemned>>
  BY Zenon DEF Read, GetObjectRow, GetChunks, GetShards, Serve, EndRead
<1>6. \A d \in Deleters : Delete(d) =>
          /\ UNCHANGED <<writer, completer, reader>>
          /\ DestroyChunk(d) \/ DestroyFails(d) \/ UNCHANGED blob
          /\ (\E l \in Locations : StartDelete(d, l)) \/ UNCHANGED condemned
  BY ZenonT(40) DEF Delete, StartDelete, DeleteGetChunks, DeleteGetShards, BeginDestroy,
     DestroyChunk, DestroyFails, DeleteRow
<1>7. Crash => UNCHANGED <<blob, condemned>>
  BY Zenon DEF Crash
<1> QED
  BY <1>1, <1>2, <1>3, <1>4, <1>5, <1>6, <1>7, Zenon DEF Step

LEMMA TypeRequests == IndInv /\ Step => RequestsType'
<1> SUFFICES ASSUME IndInv, Step PROVE RequestsType'
  OBVIOUS
<1>1. TablesType /\ RequestsType
  BY TypeParts DEF IndInv
<1>2. writer' \in [Writers -> WriterRec]
  <2>1. ASSUME NEW w \in Writers, Write(w) PROVE writer' \in [Writers -> WriterRec]
    <3>1. CASE \E l \in Locations : StartPut(w, l)
      BY <1>1, <3>1 DEF StartPut, RequestsType, WriterRec
    <3>2. CASE \E q \in Parts : StartPart(w, q)
      BY <1>1, <3>2 DEF StartPart, RequestsType, TablesType, WriterRec, Parts
    <3>3. CASE \E st \in {"commit", "check", "failed", "ok"} : writer' = [writer EXCEPT ![w].pc = st]
      BY <1>1, <3>3 DEF RequestsType, WriterRec
    <3>4. CASE ChunkBody(w) \/ ChunkBodyFails(w) \/ PutObject(w) \/ CheckUpload(w) \/ PutPart(w)
               \/ PutPartRollback(w)
      BY <3>3, <3>4 DEF ChunkBody, ChunkBodyFails, PutObject, CheckUpload, PutPart, PutPartRollback
    <3> QED
      BY <2>1, <3>1, <3>2, <3>4 DEF Write
  <2>2. CASE Crash
    BY <1>1, <2>2 DEF Crash, RequestsType, WriterRec
  <2>3. CASE UNCHANGED writer
    BY <1>1, <2>3 DEF RequestsType
  <2> QED
    BY <2>1, <2>2, <2>3, OtherLocals
<1>3. completer' \in [Completers -> CompleterRec]
  <2>0. NewCompleter \in CompleterRec
    BY DEF NewCompleter, CompleterRec, PartRows
  <2>1. ASSUME NEW x \in Completers, Complete(x) PROVE completer' \in [Completers -> CompleterRec]
    <3>1. ASSUME NEW u \in UploadIds, StartComplete(x, u) PROVE completer' \in [Completers -> CompleterRec]
      <4>1. completer' = [completer EXCEPT ![x] =
                [completer[x] EXCEPT !.pc = "list", !.up = u, !.loc = uploads[u]]]
        BY <1>1, <3>1 DEF StartComplete, RequestsType
      <4>2. uploads[u] \in Locations \cup {None} /\ completer[x] \in CompleterRec
        BY <1>1 DEF TablesType, RequestsType
      <4>3. [completer[x] EXCEPT !.pc = "list", !.up = u, !.loc = uploads[u]] \in CompleterRec
        BY <4>2 DEF CompleterRec
      <4> QED
        BY <1>1, <4>1, <4>3 DEF RequestsType
    <3>2. CASE ListParts(x)
      <4> DEFINE u == completer[x].up
                 f == [p \in PartNumbers |-> IF p \in Listed(u) THEN parts[<<u, p>>] ELSE None]
      <4>1. u \in UploadIds
        BY <1>1, <3>2 DEF ListParts, IndInv, CompletersOK, CompleterOK, TablesType
      <4>2. f \in PartRows /\ Listed(u) \in SUBSET PartNumbers
        BY <1>1, <4>1 DEF PartRows, Listed, TablesType, Parts
      <4>3. \/ completer' = [completer EXCEPT ![x] = NewCompleter]
            \/ completer' = [completer EXCEPT ![x] = [completer[x] EXCEPT
                                !.pc = "chunks", !.parts = f, !.left = Listed(u)]]
        BY <3>2 DEF ListParts
      <4> HIDE DEF f, u
      <4>4. [completer[x] EXCEPT !.pc = "chunks", !.parts = f, !.left = Listed(u)] \in CompleterRec
        BY <1>1, <4>2 DEF RequestsType, CompleterRec
      <4> QED
        BY <1>1, <2>0, <4>3, <4>4 DEF RequestsType
    <3>3. ASSUME NEW p \in PartNumbers, GetPartChunks(x, p) PROVE completer' \in [Completers -> CompleterRec]
      <4>1. PICK s \in InOrder(PartChunks(<<completer[x].up, p>>)) :
               completer' = [completer EXCEPT
                  ![x].ids = @ \o s, ![x].left = @ \ {p},
                  ![x].pc = IF completer[x].left = {p} THEN "commit" ELSE "chunks"]
        BY <3>3 DEF GetPartChunks
      <4>2. s \in Seq(ChunkIds)
        BY OrderedRows DEF PartChunks
      <4>3. completer[x] \in CompleterRec
        BY <1>1 DEF RequestsType
      <4>4. completer[x].ids \o s \in Seq(ChunkIds) /\ completer[x].left \ {p} \in SUBSET PartNumbers
        BY <4>2, <4>3 DEF CompleterRec
      <4>5. PICK pc \in {"commit", "chunks"} : completer' = [completer EXCEPT ![x] =
                [completer[x] EXCEPT !.ids = completer[x].ids \o s,
                                     !.left = completer[x].left \ {p}, !.pc = pc]]
        BY <1>1, <4>1 DEF RequestsType
      <4>6. [completer[x] EXCEPT !.ids = completer[x].ids \o s,
                                 !.left = completer[x].left \ {p}, !.pc = pc] \in CompleterRec
        BY <4>3, <4>4 DEF CompleterRec
      <4> QED
        BY <1>1, <4>5, <4>6 DEF RequestsType
    <3>4. CASE CompleteMultipartUpload(x)
      BY <1>1, <2>0, <3>4 DEF CompleteMultipartUpload, RequestsType
    <3> QED
      BY <2>1, <3>1, <3>2, <3>3, <3>4 DEF Complete
  <2>2. CASE Crash
    BY <2>0, <2>2 DEF Crash
  <2>3. CASE UNCHANGED completer
    BY <1>1, <2>3 DEF RequestsType
  <2> QED
    BY <2>1, <2>2, <2>3, OtherLocals
<1>4. reader' \in [Readers -> ReaderRec]
  <2>0. NewReader \in ReaderRec
    BY DEF NewReader, ReaderRec
  <2>1. ASSUME NEW r \in Readers, Read(r) PROVE reader' \in [Readers -> ReaderRec]
    <3>0. reader[r] \in ReaderRec
      BY <1>1 DEF RequestsType
    <3>1. ASSUME NEW l \in Locations, GetObjectRow(r, l) PROVE reader' \in [Readers -> ReaderRec]
      <4>1. reader' = [reader EXCEPT ![r] =
                [reader[r] EXCEPT !.pc = "chunks", !.loc = l, !.etag = objects[l]]]
        BY <1>1, <3>1 DEF GetObjectRow, RequestsType
      <4>2. objects[l] \in ETags \cup {None}
        BY <1>1 DEF TablesType
      <4>3. [reader[r] EXCEPT !.pc = "chunks", !.loc = l, !.etag = objects[l]] \in ReaderRec
        BY <3>0, <4>2 DEF ReaderRec
      <4> QED
        BY <1>1, <4>1, <4>3 DEF RequestsType
    <3>2. CASE GetChunks(r)
      <4>1. PICK s \in InOrder(ObjectChunks(reader[r].loc)) :
               reader' = [reader EXCEPT ![r].pc = "shards", ![r].ids = s]
        BY <3>2 DEF GetChunks
      <4>2. s \in Seq(ChunkIds)
        BY OrderedRows DEF ObjectChunks
      <4>3. reader' = [reader EXCEPT ![r] = [reader[r] EXCEPT !.pc = "shards", !.ids = s]]
        BY <1>1, <4>1 DEF RequestsType
      <4>4. [reader[r] EXCEPT !.pc = "shards", !.ids = s] \in ReaderRec
        BY <3>0, <4>2 DEF ReaderRec
      <4> QED
        BY <1>1, <4>3, <4>4 DEF RequestsType
    <3>3. CASE GetShards(r)
      <4> DEFINE c == reader[r].ids[reader[r].pos]
                 got == IF HasRow(c) THEN reader[r].got \cup {c} ELSE reader[r].got
      <4>1. reader[r].ids \in Seq(ChunkIds) /\ reader[r].pos \in Nat \ {0} /\ reader[r].got \subseteq ChunkIds
        BY <3>0 DEF ReaderRec
      <4>2. c \in ChunkIds /\ reader[r].pos + 1 \in Nat \ {0}
        BY <3>3, <4>1 DEF GetShards
      <4>3. got \in SUBSET ChunkIds
        BY <4>1, <4>2
      <4>4. reader' = [reader EXCEPT ![r] = [reader[r] EXCEPT !.pos = reader[r].pos + 1, !.got = got]]
        BY <1>1, <3>3 DEF GetShards, RequestsType
      <4> HIDE DEF got
      <4>5. [reader[r] EXCEPT !.pos = reader[r].pos + 1, !.got = got] \in ReaderRec
        BY <3>0, <4>2, <4>3 DEF ReaderRec
      <4> QED
        BY <1>1, <4>4, <4>5 DEF RequestsType
    <3>4. CASE Serve(r)
      <4>1. [reader[r] EXCEPT !.pc = "served"] \in ReaderRec
        BY <3>0 DEF ReaderRec
      <4>2. reader' = [reader EXCEPT ![r] = [reader[r] EXCEPT !.pc = "served"]]
        BY <1>1, <3>4 DEF Serve, RequestsType
      <4> QED
        BY <1>1, <4>1, <4>2 DEF RequestsType
    <3>5. CASE EndRead(r)
      BY <1>1, <2>0, <3>5 DEF EndRead, RequestsType
    <3> QED
      BY <2>1, <3>1, <3>2, <3>3, <3>4, <3>5, Zenon DEF Read
  <2>2. CASE Crash
    BY <2>0, <2>2 DEF Crash
  <2>3. CASE UNCHANGED reader
    BY <1>1, <2>3 DEF RequestsType
  <2> QED
    BY <2>1, <2>2, <2>3, OtherLocals
<1>5. deleter' \in [Deleters -> DeleterRec]
  <2>0. NewDeleter \in DeleterRec
    BY DEF NewDeleter, DeleterRec
  <2>1. ASSUME NEW d \in Deleters, Delete(d) PROVE deleter' \in [Deleters -> DeleterRec]
    <3>0. deleter[d] \in DeleterRec
      BY <1>1 DEF RequestsType
    <3>1. ASSUME NEW l \in Locations, StartDelete(d, l) PROVE deleter' \in [Deleters -> DeleterRec]
      <4>1. deleter' = [deleter EXCEPT ![d] = [deleter[d] EXCEPT !.pc = "chunks", !.loc = l]]
        BY <1>1, <3>1 DEF StartDelete, RequestsType
      <4>2. [deleter[d] EXCEPT !.pc = "chunks", !.loc = l] \in DeleterRec
        BY <3>0 DEF DeleterRec
      <4> QED
        BY <1>1, <4>1, <4>2 DEF RequestsType
    <3>2. CASE DeleteGetChunks(d)
      <4>1. PICK s \in InOrder(ObjectChunks(deleter[d].loc)) :
               deleter' = [deleter EXCEPT ![d].pc = "shards", ![d].ids = s]
        BY <3>2 DEF DeleteGetChunks
      <4>2. s \in Seq(ChunkIds)
        BY OrderedRows DEF ObjectChunks
      <4>3. deleter' = [deleter EXCEPT ![d] = [deleter[d] EXCEPT !.pc = "shards", !.ids = s]]
        BY <1>1, <4>1 DEF RequestsType
      <4>4. [deleter[d] EXCEPT !.pc = "shards", !.ids = s] \in DeleterRec
        BY <3>0, <4>2 DEF DeleterRec
      <4> QED
        BY <1>1, <4>3, <4>4 DEF RequestsType
    <3>3. CASE DeleteGetShards(d)
      <4> DEFINE c == deleter[d].ids[deleter[d].pos]
                 got == IF HasRow(c) THEN deleter[d].got \cup {c} ELSE deleter[d].got
      <4>1. deleter[d].ids \in Seq(ChunkIds) /\ deleter[d].pos \in Nat \ {0} /\ deleter[d].got \subseteq ChunkIds
        BY <3>0 DEF DeleterRec
      <4>2. c \in ChunkIds /\ deleter[d].pos + 1 \in Nat \ {0}
        BY <3>3, <4>1 DEF DeleteGetShards
      <4>3. got \in SUBSET ChunkIds
        BY <4>1, <4>2
      <4>4. deleter' = [deleter EXCEPT ![d] = [deleter[d] EXCEPT !.pos = deleter[d].pos + 1, !.got = got]]
        BY <1>1, <3>3 DEF DeleteGetShards, RequestsType
      <4> HIDE DEF got
      <4>5. [deleter[d] EXCEPT !.pos = deleter[d].pos + 1, !.got = got] \in DeleterRec
        BY <3>0, <4>2, <4>3 DEF DeleterRec
      <4> QED
        BY <1>1, <4>4, <4>5 DEF RequestsType
    <3>4. CASE BeginDestroy(d)
      <4>1. \A i \in Nat \ {0} : [deleter[d] EXCEPT !.pc = "destroy", !.pos = i] \in DeleterRec
        BY <3>0 DEF DeleterRec
      <4>2. deleter' = [deleter EXCEPT ![d] = [deleter[d] EXCEPT !.pc = "destroy", !.pos = 1]]
        BY <1>1, <3>4 DEF BeginDestroy, RequestsType
      <4>3. \A i \in Nat \ {0} : [deleter EXCEPT ![d] = [deleter[d] EXCEPT !.pc = "destroy", !.pos = i]]
                                    \in [Deleters -> DeleterRec]
        BY <1>1, <4>1 DEF RequestsType
      <4>4. 1 \in Nat \ {0}
        OBVIOUS
      <4> QED
        BY <4>2, <4>3, <4>4, Zenon
    <3>5. CASE DestroyChunk(d)
      <4>0. deleter[d].pos + 1 \in Nat \ {0}
        BY <3>0 DEF DeleterRec
      <4>1. [deleter[d] EXCEPT !.pos = deleter[d].pos + 1] \in DeleterRec
        BY <3>0, <4>0 DEF DeleterRec
      <4>2. deleter' = [deleter EXCEPT ![d] = [deleter[d] EXCEPT !.pos = deleter[d].pos + 1]]
        BY <1>1, <3>5 DEF DestroyChunk, RequestsType
      <4> QED
        BY <1>1, <4>1, <4>2 DEF RequestsType
    <3>6. CASE DestroyFails(d) \/ DeleteRow(d)
      BY <1>1, <2>0, <3>6 DEF DestroyFails, DeleteRow, RequestsType
    <3> QED
      BY <2>1, <3>1, <3>2, <3>3, <3>4, <3>5, <3>6, Zenon DEF Delete
  <2>2. CASE Crash
    BY <2>0, <2>2 DEF Crash
  <2>3. CASE UNCHANGED deleter
    BY <1>1, <2>3 DEF RequestsType
  <2> QED
    BY <2>1, <2>2, <2>3, OtherLocals
<1>6. blob' \in [ChunkIds -> {"none", "stored", "damaged"}]
  <2>1. CASE \E w \in Writers : ChunkBody(w)
    BY <1>1, <2>1 DEF ChunkBody, RequestsType
  <2>2. CASE \E d \in Deleters : DestroyChunk(d) \/ DestroyFails(d)
    BY <1>1, <2>2 DEF DestroyChunk, DestroyFails, RequestsType
  <2>3. CASE UNCHANGED blob
    BY <1>1, <2>3 DEF RequestsType
  <2> QED
    BY <2>1, <2>2, <2>3, OtherLocals
<1>7. condemned' \subseteq Locations
  BY <1>1, OtherLocals DEF RequestsType, StartDelete
<1> QED
  BY <1>2, <1>3, <1>4, <1>5, <1>6, <1>7 DEF RequestsType

-----------------------------------------------------------------------------
(***************************************************************************)
(* What every step leaves alone.                                           *)
(***************************************************************************)
\* A write request keeps its location and its part; a committed one stays so,
\* and only a request that was at its transaction becomes one.
WritersKept ==
    \A w \in Writers :
        /\ writer[w].pc # "idle" => /\ writer'[w].pc # "idle"
                                    /\ writer'[w].loc = writer[w].loc /\ writer'[w].part = writer[w].part
        /\ writer[w].pc = "ok" => writer'[w].pc = "ok"
        /\ (writer'[w].pc = "ok" /\ writer[w].pc # "ok") => writer[w].pc = "commit"

LEMMA WriterFrame == IndInv /\ Step => WritersKept
<1> SUFFICES ASSUME IndInv, Step PROVE WritersKept
  OBVIOUS
<1>1. TablesType /\ RequestsType
  BY TypeParts DEF IndInv
<1> USE DEF WritersKept, RequestsType, WriterRec
<1>2. ASSUME NEW v \in Writers, Write(v) PROVE WritersKept
  <2>1. CASE \E l \in Locations : StartPut(v, l)
    BY <1>1, <2>1 DEF StartPut
  <2>2. CASE \E q \in Parts : StartPart(v, q)
    BY <1>1, <2>2 DEF StartPart
  <2>3. CASE ChunkBody(v) \/ ChunkBodyFails(v) \/ CheckUpload(v) \/ PutPartRollback(v)
    <3>1. PICK st \in {"commit", "check", "failed"} : writer' = [writer EXCEPT ![v].pc = st]
      BY <2>3 DEF ChunkBody, ChunkBodyFails, CheckUpload, PutPartRollback
    <3>2. writer[v].pc \in {"chunking", "check", "commit"}
      BY <2>3 DEF ChunkBody, ChunkBodyFails, CheckUpload, PutPartRollback
    <3> QED
      BY <1>1, <3>1, <3>2
  <2>4. CASE PutObject(v) \/ PutPart(v)
    <3>1. writer' = [writer EXCEPT ![v].pc = "ok"] /\ writer[v].pc = "commit"
      BY <2>4 DEF PutObject, PutPart
    <3> QED
      BY <1>1, <3>1
  <2> QED
    BY <1>2, <2>1, <2>2, <2>3, <2>4, Zenon DEF Write
<1>3. CASE Crash
  BY <1>1, <1>3 DEF Crash
<1>4. CASE UNCHANGED writer
  BY <1>4
<1> QED
  BY <1>2, <1>3, <1>4, OtherLocals

\* The rows a completion moves are rows of its own upload's parts.
LEMMA MovedRows ==
    ASSUME IndInv, NEW x \in Completers, CompleteMultipartUpload(x)
    PROVE  LET l == completer[x].loc
               u == completer[x].up
               moved == {c \in Elements(completer[x].ids) : partOf[c] # None}
           IN  /\ l \in Locations /\ u \in UploadIds
               /\ moved \subseteq ChunkIds
               /\ \A c \in moved : /\ objOf[c] = None /\ writer[c[1]].loc = l
                                   /\ partOf[c] \in Parts /\ partOf[c][1] = u
               /\ objOf' = [c \in ChunkIds |-> IF c \in moved THEN l
                                               ELSE IF objOf[c] = l THEN None ELSE objOf[c]]
               /\ ord' = [c \in ChunkIds |-> IF c \in moved THEN Position(completer[x].ids, c) - 1
                                             ELSE ord[c]]
               /\ partOf' = [c \in ChunkIds |->
                                IF partOf[c] # None /\ partOf[c][1] = u THEN None ELSE partOf[c]]
<1> DEFINE l == completer[x].loc
           u == completer[x].up
           ids == completer[x].ids
           moved == {c \in Elements(ids) : partOf[c] # None}
           updated == {c \in ChunkIds : /\ \E i \in DOMAIN ids : ids[i] = c
                                        /\ HasRow(c) /\ objOf[c] # l}
<1>1. TablesType /\ RequestsType
  BY TypeParts DEF IndInv
<1>2. completer[x] \in CompleterRec /\ CompleterOK(x) /\ completer[x].pc = "commit"
  BY <1>1 DEF RequestsType, IndInv, CompletersOK, CompleteMultipartUpload
<1>3. ids \in Seq(ChunkIds) /\ l \in Locations /\ u \in UploadIds
  BY <1>1, <1>2 DEF CompleterRec, CompleterOK, TablesType
<1>4. Elements(ids) \subseteq ChunkIds
  BY <1>3 DEF Elements
<1>5. \A c \in Elements(ids) : /\ writer[c[1]].part # None /\ writer[c[1]].part[1] = u
                               /\ writer[c[1]].loc = l
  <2>1. \A w \in Writers : (writer[w].part # None /\ writer[w].part[1] = u) => writer[w].loc = l
    BY <1>2 DEF CompleterOK
  <2>2. \A c \in Elements(ids) : writer[c[1]].part # None /\ writer[c[1]].part[1] = u
    BY <1>2 DEF CompleterOK
  <2> QED
    BY <1>4, <2>1, <2>2, ChunkFacts
<1>6. \A c \in Elements(ids) : objOf[c] \in {None, l}
  BY <1>4, <1>5 DEF IndInv, RowsOK, ChunkRowOK
<1>7. \A c \in moved : objOf[c] = None /\ partOf[c] \in Parts /\ partOf[c][1] = u
  <2>1. \A c \in ChunkIds : /\ objOf[c] = None \/ partOf[c] = None
                            /\ partOf[c] # None => partOf[c] = writer[c[1]].part
    BY DEF IndInv, RowsOK, ChunkRowOK
  <2>2. partOf \in [ChunkIds -> Parts \cup {None}]
    BY <1>1 DEF TablesType
  <2> QED
    BY <1>4, <1>5, <2>1, <2>2
<1>8. updated = moved
  <2>1. l # None
    BY <1>3, NoneAssumption DEF Locations
  <2>2. updated \subseteq moved
    <3> SUFFICES ASSUME NEW c \in updated PROVE c \in moved
      OBVIOUS
    <3>1. c \in Elements(ids)
      BY DEF Elements
    <3> QED
      BY <1>6, <3>1 DEF HasRow
  <2>3. moved \subseteq updated
    <3> SUFFICES ASSUME NEW c \in moved PROVE c \in updated
      OBVIOUS
    <3>1. \E i \in DOMAIN ids : ids[i] = c
      BY DEF Elements
    <3> QED
      BY <1>4, <1>7, <2>1, <3>1 DEF HasRow
  <2> QED
    BY <2>2, <2>3, Zenon
<1>9. /\ objOf' = [c \in ChunkIds |-> IF c \in updated THEN l
                                      ELSE IF objOf[c] = l THEN None ELSE objOf[c]]
      /\ ord' = [c \in ChunkIds |-> IF c \in updated THEN Position(ids, c) - 1 ELSE ord[c]]
      /\ partOf' = [c \in ChunkIds |->
                        IF c \in updated \/ (partOf[c] # None /\ partOf[c][1] = u)
                        THEN None ELSE partOf[c]]
  BY DEF CompleteMultipartUpload
<1> HIDE DEF l, u, ids, updated
<1>10. partOf' = [c \in ChunkIds |->
                     IF partOf[c] # None /\ partOf[c][1] = u THEN None ELSE partOf[c]]
  <2>1. \A c \in ChunkIds : (c \in updated \/ (partOf[c] # None /\ partOf[c][1] = u))
                               <=> (partOf[c] # None /\ partOf[c][1] = u)
    BY <1>7, <1>8
  <2> HIDE DEF moved
  <2> QED
    BY <1>9, <2>1
<1>11. moved \subseteq ChunkIds
  BY <1>4
<1>12. \A c \in moved : writer[c[1]].loc = l
  BY <1>5
<1> HIDE DEF moved
<1>13. /\ l \in Locations /\ u \in UploadIds
       /\ moved \subseteq ChunkIds
       /\ \A c \in moved : /\ objOf[c] = None /\ writer[c[1]].loc = l
                           /\ partOf[c] \in Parts /\ partOf[c][1] = u
       /\ objOf' = [c \in ChunkIds |-> IF c \in moved THEN l
                                       ELSE IF objOf[c] = l THEN None ELSE objOf[c]]
       /\ ord' = [c \in ChunkIds |-> IF c \in moved THEN Position(ids, c) - 1 ELSE ord[c]]
       /\ partOf' = [c \in ChunkIds |->
                        IF partOf[c] # None /\ partOf[c][1] = u THEN None ELSE partOf[c]]
  BY <1>3, <1>7, <1>8, <1>9, <1>10, <1>11, <1>12, Zenon
<1> QED
  BY <1>13 DEF l, u, ids, moved

-----------------------------------------------------------------------------
(***************************************************************************)
(* The rows.                                                               *)
(***************************************************************************)
\* Every transaction and cascade leaves rows that refer to rows.
LEMMA RowsStep == IndInv /\ Step => RowsOK'
<1> SUFFICES ASSUME IndInv, Step PROVE RowsOK'
  OBVIOUS
<1>1. TablesType /\ RequestsType
  BY TypeParts DEF IndInv
<1>2. BucketRowsOK /\ PartRowsOK /\ \A c \in ChunkIds : ChunkRowOK(c)
  BY DEF IndInv, RowsOK
<1>3. \A w \in Writers : writer[w].pc = "ok" =>
          writer'[w].pc = "ok" /\ writer'[w].loc = writer[w].loc /\ writer'[w].part = writer[w].part
  BY WriterFrame DEF WritersKept
<1>4. \A w \in Writers : w # None
  BY NoneAssumption
<1>5. \A l \in Locations : l # None /\ l[1] \in Buckets
  BY NoneAssumption DEF Locations
<1>6. \A q \in Parts : q # None /\ q[1] \in UploadIds
  BY NoneAssumption DEF Parts
<1> USE DEF TablesType, BucketRowsOK, PartRowsOK, ChunkRowOK, HasRow
<1>7. CASE UNCHANGED tables
  <2>1. BucketRowsOK'
    BY <1>2, <1>7 DEF tables
  <2>2. PartRowsOK'
    BY <1>1, <1>2, <1>3, <1>7 DEF tables
  <2>3. \A c \in ChunkIds : ChunkRowOK(c)'
    BY <1>1, <1>2, <1>3, <1>7, ChunkFacts DEF tables
  <2> QED
    BY <2>1, <2>2, <2>3 DEF RowsOK
<1>8. ASSUME NEW b \in Buckets, CreateBucket(b) PROVE RowsOK'
  <2>1. BucketRowsOK'
    BY <1>2, <1>8 DEF CreateBucket
  <2>2. PartRowsOK'
    BY <1>1, <1>2, <1>3, <1>8 DEF CreateBucket
  <2>3. \A c \in ChunkIds : ChunkRowOK(c)'
    BY <1>1, <1>2, <1>3, <1>8, ChunkFacts DEF CreateBucket
  <2> QED
    BY <2>1, <2>2, <2>3 DEF RowsOK
<1>9. ASSUME NEW b \in Buckets, DeleteBucket(b) PROVE RowsOK'
  <2>1. BucketRowsOK'
    BY <1>1, <1>2, <1>5, <1>9 DEF DeleteBucket
  <2>2. PartRowsOK'
    BY <1>1, <1>2, <1>3, <1>6, <1>9 DEF DeleteBucket
  <2>3. \A c \in ChunkIds : ChunkRowOK(c)'
    <3> SUFFICES ASSUME NEW c \in ChunkIds PROVE ChunkRowOK(c)'
      OBVIOUS
    <3>1. c[1] \in Writers /\ c[1] # None
      BY ChunkFacts, <1>4
    <3>2. objOf'[c] \in {None, objOf[c]} /\ partOf'[c] \in {None, partOf[c]} /\ ord'[c] = ord[c]
      BY <1>1, <1>9 DEF DeleteBucket
    <3>3. objOf'[c] # None => objects'[objOf'[c]] # None
      BY <1>1, <1>2, <1>9 DEF DeleteBucket
    <3>4. \A q \in Parts : partOf'[c] = q <=> parts'[q] = c[1]
      BY <1>1, <1>2, <1>6, <1>9, <3>1 DEF DeleteBucket
    <3> QED
      BY <1>2, <1>3, <3>1, <3>2, <3>3, <3>4
  <2> QED
    BY <2>1, <2>2, <2>3 DEF RowsOK
<1>10. ASSUME NEW u \in UploadIds, NEW l \in Locations, CreateMultipartUpload(u, l) PROVE RowsOK'
  <2>1. BucketRowsOK'
    BY <1>1, <1>2, <1>10 DEF CreateMultipartUpload
  <2>2. PartRowsOK'
    BY <1>1, <1>2, <1>3, <1>5, <1>6, <1>10 DEF CreateMultipartUpload
  <2>3. \A c \in ChunkIds : ChunkRowOK(c)'
    BY <1>1, <1>2, <1>3, <1>10, ChunkFacts DEF CreateMultipartUpload
  <2> QED
    BY <2>1, <2>2, <2>3 DEF RowsOK
<1>11. ASSUME NEW u \in UploadIds, AbortMultipartUpload(u) PROVE RowsOK'
  <2>1. BucketRowsOK'
    BY <1>1, <1>2, <1>11 DEF AbortMultipartUpload, DropUpload
  <2>2. PartRowsOK'
    BY <1>1, <1>2, <1>3, <1>6, <1>11 DEF AbortMultipartUpload, DropUpload
  <2>3. \A c \in ChunkIds : ChunkRowOK(c)'
    BY <1>1, <1>2, <1>3, <1>4, <1>6, <1>11, ChunkFacts DEF AbortMultipartUpload, DropUpload
  <2> QED
    BY <2>1, <2>2, <2>3 DEF RowsOK
<1>12. ASSUME NEW w \in Writers, PutObject(w) PROVE RowsOK'
  <2> DEFINE l == writer[w].loc
  <2>1. l \in Locations /\ writer[w].pc = "commit" /\ writer'[w].pc = "ok" /\ writer'[w].loc = l
    BY <1>1, <1>12 DEF PutObject, RequestsType, WriterRec, IndInv, WritersOK
  <2>2. PutETag(w) # None
    BY ETagsAssumption DEF ETags
  <2>3. BucketRowsOK'
    BY <1>1, <1>2, <1>12, <2>1 DEF PutObject
  <2>4. PartRowsOK'
    BY <1>1, <1>2, <1>3, <1>6, <1>12 DEF PutObject
  <2>5. \A c \in ChunkIds : ChunkRowOK(c)'
    <3> SUFFICES ASSUME NEW c \in ChunkIds PROVE ChunkRowOK(c)'
      OBVIOUS
    <3>1. c[1] \in Writers
      BY ChunkFacts
    <3>2. objects' = [objects EXCEPT ![l] = PutETag(w)] /\ partOf' = partOf /\ parts' = parts
      BY <1>12 DEF PutObject
    <3>3. CASE c[1] = w
      <4>1. objOf'[c] = l /\ partOf[c] = None
        BY <1>2, <1>12, <2>1, <3>3 DEF PutObject
      <4> QED
        BY <1>1, <1>2, <2>1, <2>2, <3>1, <3>2, <3>3, <4>1
    <3>4. CASE c[1] # w
      <4>1. objOf'[c] \in {None, objOf[c]} /\ ord'[c] = ord[c]
        BY <1>12, <3>4 DEF PutObject
      <4> QED
        BY <1>1, <1>2, <1>3, <2>2, <3>1, <3>2, <4>1
    <3> QED
      BY <3>3, <3>4
  <2> QED
    BY <2>3, <2>4, <2>5 DEF RowsOK
<1>13. ASSUME NEW w \in Writers, PutPart(w) PROVE RowsOK'
  <2> DEFINE q == writer[w].part
  <2>1. /\ q \in Parts /\ uploads[q[1]] # None
        /\ writer[w].pc = "commit" /\ writer'[w].pc = "ok" /\ writer'[w].part = q
    BY <1>1, <1>13 DEF PutPart, RequestsType, WriterRec
  <2>2. BucketRowsOK'
    BY <1>2, <1>13 DEF PutPart
  <2>3. parts' = [parts EXCEPT ![q] = w] /\ uploads' = uploads /\ objOf' = objOf /\ objects' = objects
    BY <1>13 DEF PutPart
  <2>4. PartRowsOK'
    BY <1>1, <1>2, <1>3, <2>1, <2>3
  <2>5. \A c \in ChunkIds : ChunkRowOK(c)'
    <3> SUFFICES ASSUME NEW c \in ChunkIds PROVE ChunkRowOK(c)'
      OBVIOUS
    <3>1. c[1] \in Writers /\ c[1] # None
      BY ChunkFacts, <1>4
    <3>2. \A v \in Parts : parts[v] # w
      BY <1>2, <1>4, <2>1
    <3>3. CASE c[1] = w
      <4>1. partOf'[c] = q /\ ord'[c] = c[2] - 1 /\ objOf[c] = None
        BY <1>2, <1>13, <2>1, <3>3 DEF PutPart
      <4> QED
        BY <1>1, <1>2, <1>6, <2>1, <2>3, <3>1, <3>2, <3>3, <4>1
    <3>4. CASE c[1] # w
      <4>1. partOf'[c] = (IF partOf[c] = q THEN None ELSE partOf[c]) /\ ord'[c] = ord[c]
        BY <1>13, <3>4 DEF PutPart
      <4>2. \A v \in Parts : partOf'[c] = v <=> parts'[v] = c[1]
        BY <1>1, <1>2, <1>6, <2>1, <2>3, <3>1, <3>4, <4>1
      <4> QED
        BY <1>2, <1>3, <2>3, <3>1, <4>1, <4>2
    <3> QED
      BY <3>3, <3>4
  <2> QED
    BY <2>2, <2>4, <2>5 DEF RowsOK
<1>14. ASSUME NEW x \in Completers, CompleteMultipartUpload(x) PROVE RowsOK'
  <2> DEFINE l == completer[x].loc
             u == completer[x].up
             moved == {c \in Elements(completer[x].ids) : partOf[c] # None}
  <2>1. /\ l \in Locations /\ u \in UploadIds
        /\ \A c \in moved : /\ objOf[c] = None /\ writer[c[1]].loc = l
                            /\ partOf[c] # None /\ partOf[c][1] = u
        /\ objOf' = [c \in ChunkIds |-> IF c \in moved THEN l
                                        ELSE IF objOf[c] = l THEN None ELSE objOf[c]]
        /\ \A c \in ChunkIds : c \notin moved => ord'[c] = ord[c]
        /\ partOf' = [c \in ChunkIds |->
                         IF partOf[c] # None /\ partOf[c][1] = u THEN None ELSE partOf[c]]
    BY <1>14, MovedRows
  <2>2. /\ buckets' = buckets \cup {l[1]} /\ created' = created
        /\ objects' = [objects EXCEPT ![l] = PartsETag(completer[x].parts)]
        /\ uploads' = [uploads EXCEPT ![u] = None]
        /\ parts' = [q \in Parts |-> IF q[1] = u THEN None ELSE parts[q]]
    BY <1>14 DEF CompleteMultipartUpload, DropUpload
  <2>3. PartsETag(completer[x].parts) # None
    BY <1>1, ETagsAssumption DEF ETags, RequestsType, CompleterRec
  <2> HIDE DEF l, u, moved
  <2>4. BucketRowsOK'
    BY <1>1, <1>2, <2>1, <2>2
  <2>5. PartRowsOK'
    BY <1>1, <1>2, <1>3, <1>6, <2>1, <2>2
  <2>6. \A c \in ChunkIds : ChunkRowOK(c)'
    <3> SUFFICES ASSUME NEW c \in ChunkIds PROVE ChunkRowOK(c)'
      OBVIOUS
    <3>1. c[1] \in Writers /\ c[1] # None
      BY ChunkFacts, <1>4
    <3>2. \A q \in Parts : partOf'[c] = q <=> parts'[q] = c[1]
      BY <1>1, <1>2, <1>6, <2>1, <2>2, <3>1
    <3>3. partOf'[c] \in {None, partOf[c]}
      BY <2>1
    <3>4. CASE c \in moved
      <4>1. objOf'[c] = l /\ partOf'[c] = None
        BY <2>1, <3>4
      <4>2. writer[c[1]].pc = "ok" /\ writer[c[1]].loc = l
        BY <1>2, <2>1, <3>4
      <4> QED
        BY <1>1, <1>3, <2>1, <2>2, <2>3, <3>1, <3>2, <4>1, <4>2
    <3>5. CASE c \notin moved
      <4>1. objOf'[c] \in {None, objOf[c]} /\ ord'[c] = ord[c]
        BY <2>1, <3>5
      <4> QED
        BY <1>1, <1>2, <1>3, <2>2, <2>3, <3>1, <3>2, <3>3, <4>1
    <3> QED
      BY <3>4, <3>5
  <2> QED
    BY <2>4, <2>5, <2>6 DEF RowsOK
<1>15. ASSUME NEW d \in Deleters, DeleteRow(d) PROVE RowsOK'
  <2>1. BucketRowsOK'
    BY <1>1, <1>2, <1>15 DEF DeleteRow
  <2>2. PartRowsOK'
    BY <1>1, <1>2, <1>3, <1>15 DEF DeleteRow
  <2>3. \A c \in ChunkIds : ChunkRowOK(c)'
    BY <1>1, <1>2, <1>3, <1>15, ChunkFacts DEF DeleteRow
  <2> QED
    BY <2>1, <2>2, <2>3 DEF RowsOK
<1> QED
  BY <1>7, <1>8, <1>9, <1>10, <1>11, <1>12, <1>13, <1>14, <1>15, OtherSteps, Zenon DEF TableStep

\* Upload IDs are never reused, and an upload row never changes its location.
LEMMA UploadFrame ==
    IndInv /\ Step => created \subseteq created' /\ \A u \in created : uploads'[u] \in {None, uploads[u]}
<1> SUFFICES ASSUME IndInv, Step
             PROVE  created \subseteq created' /\ \A u \in created : uploads'[u] \in {None, uploads[u]}
  OBVIOUS
<1>1. TablesType /\ RequestsType
  BY TypeParts DEF IndInv
<1> USE DEF TablesType
<1>2. CASE UNCHANGED <<uploads, created>>
  BY <1>2
<1>3. ASSUME NEW b \in Buckets, DeleteBucket(b)
      PROVE  created \subseteq created' /\ \A u \in created : uploads'[u] \in {None, uploads[u]}
  BY <1>1, <1>3 DEF DeleteBucket
<1>4. ASSUME NEW v \in UploadIds, NEW l \in Locations, CreateMultipartUpload(v, l)
      PROVE  created \subseteq created' /\ \A u \in created : uploads'[u] \in {None, uploads[u]}
  BY <1>1, <1>4 DEF CreateMultipartUpload
<1>5. ASSUME NEW v, uploads' = [uploads EXCEPT ![v] = None], created' = created
      PROVE  created \subseteq created' /\ \A u \in created : uploads'[u] \in {None, uploads[u]}
  BY <1>1, <1>5
<1>6. TableStep => \/ UNCHANGED <<uploads, created>>
                   \/ \E b \in Buckets : DeleteBucket(b)
                   \/ \E v \in UploadIds, l \in Locations : CreateMultipartUpload(v, l)
                   \/ \E v : uploads' = [uploads EXCEPT ![v] = None] /\ created' = created
  BY Zenon DEF TableStep, CreateBucket, AbortMultipartUpload, PutObject, PutPart,
     CompleteMultipartUpload, DeleteRow, DropUpload
<1>7. UNCHANGED tables => UNCHANGED <<uploads, created>>
  BY Zenon DEF tables
<1> QED
  BY <1>2, <1>3, <1>4, <1>5, <1>6, <1>7, OtherSteps, Zenon

\* A part belongs to the location of its upload.
LEMMA WritersStep == IndInv /\ Step => WritersOK'
<1> SUFFICES ASSUME IndInv, Step PROVE WritersOK'
  OBVIOUS
<1>1. TablesType /\ RequestsType
  BY TypeParts DEF IndInv
<1>2. WritersOK
  BY DEF IndInv
<1>3. created \subseteq created' /\ \A u \in created : uploads'[u] \in {None, uploads[u]}
  BY UploadFrame
<1>4. ASSUME NEW w \in Writers, writer'[w].loc = writer[w].loc, writer'[w].part = writer[w].part,
             writer'[w].pc = "idle" <=> writer[w].pc = "idle",
             writer'[w].pc = "check" => writer[w].part # None
      PROVE  /\ writer'[w].pc # "idle" => writer'[w].loc # None
             /\ writer'[w].pc = "idle" => writer'[w].part = None
             /\ writer'[w].pc = "check" => writer'[w].part # None
             /\ writer'[w].part # None =>
                  /\ writer'[w].part[1] \in created'
                  /\ uploads'[writer'[w].part[1]] \in {None, writer'[w].loc}
  BY <1>2, <1>3, <1>4 DEF WritersOK
<1>5. ASSUME NEW v \in Writers, Write(v) PROVE WritersOK'
  <2>1. ASSUME NEW l \in Locations, StartPut(v, l) PROVE WritersOK'
    <3>1. l # None
      BY NoneAssumption DEF Locations
    <3> QED
      BY <1>1, <1>2, <1>4, <2>1, <3>1 DEF WritersOK, StartPut, RequestsType, WriterRec
  <2>2. ASSUME NEW q \in Parts, StartPart(v, q) PROVE WritersOK'
    <3>1. q # None /\ q[1] \in UploadIds
      BY NoneAssumption DEF Parts
    <3>2. uploads[q[1]] # None /\ q[1] \in created /\ uploads' = uploads /\ created' = created
      BY <2>2, <3>1 DEF StartPart, tables, IndInv, RowsOK, BucketRowsOK
    <3> QED
      BY <1>1, <1>2, <1>4, <2>2, <3>1, <3>2 DEF WritersOK, StartPart, RequestsType, WriterRec
  <2>3. CASE ChunkBody(v) \/ ChunkBodyFails(v) \/ CheckUpload(v) \/ PutPartRollback(v)
             \/ PutObject(v) \/ PutPart(v)
    <3>1. PICK st \in {"commit", "check", "failed", "ok"} : writer' = [writer EXCEPT ![v].pc = st]
      BY <2>3 DEF ChunkBody, ChunkBodyFails, CheckUpload, PutPartRollback, PutObject, PutPart
    <3>2. writer[v].pc \in {"chunking", "check", "commit"}
      BY <2>3 DEF ChunkBody, ChunkBodyFails, CheckUpload, PutPartRollback, PutObject, PutPart
    <3>3. writer'[v].pc = "check" => writer[v].part # None
      BY <1>1, <2>3 DEF ChunkBody, ChunkBodyFails, CheckUpload, PutPartRollback, PutObject, PutPart,
         RequestsType, WriterRec
    <3>4. \A w \in Writers : /\ writer'[w].loc = writer[w].loc /\ writer'[w].part = writer[w].part
                             /\ writer'[w].pc = "idle" <=> writer[w].pc = "idle"
                             /\ writer'[w].pc = "check" => writer[w].part # None
      BY <1>1, <1>2, <3>1, <3>2, <3>3 DEF RequestsType, WriterRec, WritersOK
    <3> QED
      BY <1>4, <3>4 DEF WritersOK
  <2> QED
    BY <1>5, <2>1, <2>2, <2>3, Zenon DEF Write
<1>6. CASE Crash
  <2>1. \A w \in Writers : /\ writer'[w].loc = writer[w].loc /\ writer'[w].part = writer[w].part
                           /\ writer'[w].pc = "idle" <=> writer[w].pc = "idle"
                           /\ writer'[w].pc = "check" => writer[w].part # None
    BY <1>1, <1>6 DEF Crash, RequestsType, WriterRec
  <2> QED
    BY <1>4, <2>1 DEF WritersOK
<1>7. CASE UNCHANGED writer
  BY <1>2, <1>4, <1>7 DEF WritersOK
<1> QED
  BY <1>5, <1>6, <1>7, OtherLocals

-----------------------------------------------------------------------------
(***************************************************************************)
(* CompleteMultipartUpload.                                                *)
(***************************************************************************)
\* What a completion has read stays true while others run: the writers of its
\* chunks have committed, and its upload keeps its location.
LEMMA CompleterFrame ==
    ASSUME IndInv, Step, NEW x \in Completers, completer'[x] = completer[x]
    PROVE  CompleterOK(x)'
<1> DEFINE r == completer[x]
<1>1. TablesType /\ RequestsType
  BY TypeParts DEF IndInv
<1>2. CompleterOK(x) /\ WritersKept
  BY WriterFrame DEF IndInv, CompletersOK
<1>3. r.ids \in Seq(ChunkIds)
  BY <1>1 DEF RequestsType, CompleterRec
<1>4. \A c \in Elements(r.ids) : /\ c \in ChunkIds /\ c[1] \in Writers
                                 /\ writer[c[1]].pc = "ok" /\ writer'[c[1]].pc = "ok"
                                 /\ writer'[c[1]].part = writer[c[1]].part
  <2>1. \A c \in Elements(r.ids) : c \in ChunkIds /\ writer[c[1]].pc = "ok"
    BY <1>2, <1>3 DEF Elements, CompleterOK
  <2> QED
    BY <1>2, <2>1, ChunkFacts DEF WritersKept
<1>5. r.pc # "idle" => r.up \in created' /\ uploads'[r.up] \in {None, r.loc}
  BY <1>2, UploadFrame DEF CompleterOK
<1>6. ASSUME r.pc # "idle", NEW w \in Writers, writer'[w].part # None, writer'[w].part[1] = r.up
      PROVE  writer'[w].loc = r.loc
  <2>1. CASE writer[w].pc # "idle"
    BY <1>2, <1>6, <2>1 DEF CompleterOK, WritersKept
  <2>2. CASE writer[w].pc = "idle"
    <3>1. writer[w].part = None
      BY <2>2 DEF IndInv, WritersOK
    <3>2. CASE \E q \in Parts : StartPart(w, q)
      <4>1. PICK q \in Parts : StartPart(w, q)
        BY <3>2
      <4>2. writer'[w].part = q /\ writer'[w].loc = uploads[q[1]] /\ uploads[q[1]] # None
        BY <1>1, <4>1 DEF StartPart, RequestsType, WriterRec
      <4> QED
        BY <1>2, <1>6, <4>2 DEF CompleterOK
    <3>3. ASSUME NEW v \in Writers, NEW q \in Parts, v # w, StartPart(v, q) PROVE writer'[w] = writer[w]
      BY <1>1, <3>3 DEF StartPart, RequestsType
    <3>4. ASSUME NEW v \in Writers, NEW l \in Locations, StartPut(v, l)
          PROVE  writer'[w].part = None
      BY <1>1, <3>1, <3>4 DEF StartPut, RequestsType, WriterRec
    <3>5. ASSUME NEW v \in Writers, NEW st, writer' = [writer EXCEPT ![v].pc = st]
          PROVE  writer'[w].part = None
      BY <1>1, <3>1, <3>5 DEF RequestsType, WriterRec
    <3>6. Crash => writer'[w].part = None
      BY <1>1, <3>1 DEF Crash, RequestsType, WriterRec
    <3>7. \A v \in Writers : Write(v) =>
             \/ \E l \in Locations : StartPut(v, l)
             \/ \E q \in Parts : StartPart(v, q)
             \/ \E st : writer' = [writer EXCEPT ![v].pc = st]
      BY Zenon DEF Write, ChunkBody, ChunkBodyFails, CheckUpload, PutPartRollback, PutObject, PutPart
    <3> QED
      BY <1>6, <3>1, <3>2, <3>3, <3>4, <3>5, <3>6, <3>7, OtherLocals, Zenon
  <2> QED
    BY <2>1, <2>2
<1>7. \A i, j \in DOMAIN r.ids : i < j => Before(r.ids[i], r.ids[j])'
  <2> SUFFICES ASSUME NEW i \in DOMAIN r.ids, NEW j \in DOMAIN r.ids, i < j
               PROVE  Before(r.ids[i], r.ids[j])'
    OBVIOUS
  <2>1. Before(r.ids[i], r.ids[j])
    BY <1>2 DEF CompleterOK
  <2>2. r.ids[i] \in Elements(r.ids) /\ r.ids[j] \in Elements(r.ids) /\ r' = r
    BY DEF Elements
  <2> HIDE DEF r
  <2> QED
    BY <1>4, <2>1, <2>2 DEF Before
<1>8. r' = r
  OBVIOUS
<1>9. \A c \in Elements(r.ids) :
          /\ writer'[c[1]].pc = "ok" /\ writer'[c[1]].part # None
          /\ writer'[c[1]].part[1] = r.up
          /\ \A p \in r.left : writer'[c[1]].part[2] < p
          /\ \A d \in ChunkIds : d[1] = c[1] => d \in Elements(r.ids)
  <2>1. \A c \in Elements(r.ids) :
          /\ writer[c[1]].part # None /\ writer[c[1]].part[1] = r.up
          /\ \A p \in r.left : writer[c[1]].part[2] < p
          /\ \A d \in ChunkIds : d[1] = c[1] => d \in Elements(r.ids)
    BY <1>2 DEF CompleterOK
  <2> HIDE DEF r
  <2> QED
    BY <1>4, <2>1
<1>10. /\ r.pc = "idle" => r.ids = <<>>
       /\ r.pc # "idle" => r.loc # None
       /\ r.pc = "list" => r.ids = <<>>
       /\ r.pc = "commit" => r.left = {}
  BY <1>2 DEF CompleterOK
<1> HIDE DEF r
<1>11. CompleterOK(x)' <=>
    /\ r'.pc = "idle" => r'.ids = <<>>
    /\ r'.pc # "idle" =>
          /\ r'.up \in created' /\ r'.loc # None /\ uploads'[r'.up] \in {None, r'.loc}
          /\ \A w \in Writers :
                (writer'[w].part # None /\ writer'[w].part[1] = r'.up) => writer'[w].loc = r'.loc
    /\ r'.pc = "list" => r'.ids = <<>>
    /\ r'.pc = "commit" => r'.left = {}
    /\ \A c \in Elements(r'.ids) :
          /\ writer'[c[1]].pc = "ok" /\ writer'[c[1]].part # None
          /\ writer'[c[1]].part[1] = r'.up
          /\ \A p \in r'.left : writer'[c[1]].part[2] < p
          /\ \A d \in ChunkIds : d[1] = c[1] => d \in Elements(r'.ids)
    /\ \A i, j \in DOMAIN r'.ids : i < j => Before(r.ids[i], r.ids[j])'
  BY Zenon DEF CompleterOK, r, Elements
<1> QED
  BY <1>5, <1>6, <1>7, <1>8, <1>9, <1>10, <1>11

\* A completion changes no other completion's locals.
LEMMA CompleterAlone ==
    ASSUME IndInv, NEW x \in Completers, Complete(x), NEW y \in Completers \ {x}
    PROVE  completer'[y] = completer[y]
<1>1. RequestsType
  BY TypeParts DEF IndInv
<1>2. ASSUME NEW a, NEW b, NEW c, completer' = [completer EXCEPT ![x].pc = a, ![x].up = b, ![x].loc = c]
      PROVE  \E r : completer' = [completer EXCEPT ![x] = r]
  BY <1>1, <1>2 DEF RequestsType
<1>3. ASSUME NEW a, NEW b, NEW c, completer' = [completer EXCEPT ![x].ids = a, ![x].left = b, ![x].pc = c]
      PROVE  \E r : completer' = [completer EXCEPT ![x] = r]
  BY <1>1, <1>3 DEF RequestsType
<1>4. \E r : completer' = [completer EXCEPT ![x] = r]
  BY <1>2, <1>3 DEF Complete, StartComplete, ListParts, GetPartChunks, CompleteMultipartUpload
<1> QED
  BY <1>1, <1>4 DEF RequestsType

\* CompleteMultipartUpload reads whole bodies, in the order of the data.
LEMMA CompletersStep == IndInv /\ Step => CompletersOK'
<1> SUFFICES ASSUME IndInv, Step PROVE CompletersOK'
  OBVIOUS
<1>1. TablesType /\ RequestsType
  BY TypeParts DEF IndInv
<1>2. ASSUME NEW x \in Completers, completer'[x] = NewCompleter PROVE CompleterOK(x)'
  <2>1. completer'[x].pc = "idle" /\ completer'[x].ids = <<>>
    BY <1>2 DEF NewCompleter
  <2>2. Elements(completer'[x].ids) = {} /\ DOMAIN completer'[x].ids = {}
    BY <2>1 DEF Elements
  <2> QED
    BY <2>1, <2>2 DEF CompleterOK, Elements
<1>3. ASSUME NEW x \in Completers, Complete(x) PROVE CompleterOK(x)'
  <2>0. CompleterOK(x) /\ completer[x] \in CompleterRec
    BY <1>1 DEF IndInv, CompletersOK, RequestsType
  <2>1. ASSUME NEW u \in UploadIds, StartComplete(x, u) PROVE CompleterOK(x)'
    <3>1. completer' = [completer EXCEPT ![x] =
              [completer[x] EXCEPT !.pc = "list", !.up = u, !.loc = uploads[u]]]
      BY <1>1, <2>1 DEF StartComplete, RequestsType
    <3>2. completer'[x] = [completer[x] EXCEPT !.pc = "list", !.up = u, !.loc = uploads[u]]
      BY <1>1, <3>1 DEF RequestsType
    <3>3. /\ completer'[x].pc = "list" /\ completer'[x].up = u /\ completer'[x].loc = uploads[u]
          /\ completer'[x].ids = completer[x].ids
      BY <2>0, <3>2 DEF CompleterRec
    <3>4. completer'[x].ids = <<>>
      BY <2>0, <2>1, <3>3 DEF StartComplete, CompleterOK
    <3>5. Elements(completer'[x].ids) = {} /\ DOMAIN completer'[x].ids = {}
      BY <3>4 DEF Elements
    <3>6. uploads[u] # None /\ uploads' = uploads /\ writer' = writer /\ created' = created
      BY <2>1 DEF StartComplete, tables
    <3>7. u \in created /\ \A w \in Writers :
              (writer[w].part # None /\ writer[w].part[1] = u) => writer[w].loc = uploads[u]
      BY <3>6 DEF IndInv, RowsOK, BucketRowsOK, WritersOK
    <3> QED
      BY <3>3, <3>4, <3>5, <3>6, <3>7 DEF CompleterOK, Elements
  <2>2. CASE ListParts(x)
    <3>1. \/ completer' = [completer EXCEPT ![x] = NewCompleter]
          \/ \E f, L : completer' = [completer EXCEPT ![x] = [completer[x] EXCEPT
                                      !.pc = "chunks", !.parts = f, !.left = L]]
      BY <2>2 DEF ListParts
    <3>2. CASE completer' = [completer EXCEPT ![x] = NewCompleter]
      BY <1>1, <1>2, <3>2 DEF RequestsType
    <3>3. ASSUME NEW f, NEW L, completer' = [completer EXCEPT ![x] = [completer[x] EXCEPT
                                  !.pc = "chunks", !.parts = f, !.left = L]]
          PROVE  CompleterOK(x)'
      <4>1. completer'[x] = [completer[x] EXCEPT !.pc = "chunks", !.parts = f, !.left = L]
        BY <1>1, <3>3 DEF RequestsType
      <4>2. /\ completer'[x].pc = "chunks" /\ completer'[x].up = completer[x].up
            /\ completer'[x].loc = completer[x].loc /\ completer'[x].ids = completer[x].ids
        BY <2>0, <4>1 DEF CompleterRec
      <4>3. completer'[x].ids = <<>>
        BY <2>0, <2>2, <4>2 DEF ListParts, CompleterOK
      <4>4. Elements(completer'[x].ids) = {} /\ DOMAIN completer'[x].ids = {}
        BY <4>3 DEF Elements
      <4>5. /\ uploads' = uploads /\ writer' = writer /\ created' = created
            /\ completer[x].pc # "idle"
        BY <2>2 DEF ListParts, tables
      <4> QED
        BY <2>0, <4>2, <4>3, <4>4, <4>5 DEF CompleterOK, Elements
    <3> QED
      BY <3>1, <3>2, <3>3, Zenon
  <2>3. ASSUME NEW p \in PartNumbers, GetPartChunks(x, p) PROVE CompleterOK(x)'
    <3> DEFINE u == completer[x].up
               ids == completer[x].ids
               left == completer[x].left
    <3>1. PICK s \in InOrder(PartChunks(<<u, p>>)) :
             completer' = [completer EXCEPT ![x].ids = @ \o s, ![x].left = @ \ {p},
                               ![x].pc = IF left = {p} THEN "commit" ELSE "chunks"]
      BY <2>3 DEF GetPartChunks
    <3>2. /\ s \in Seq(ChunkIds) /\ Elements(s) = PartChunks(<<u, p>>)
          /\ \A i, j \in DOMAIN s : i < j => s[i] # s[j] /\ ord[s[i]] <= ord[s[j]]
      BY OrderedRows DEF PartChunks
    <3>3. /\ completer[x].pc = "chunks" /\ p \in left /\ \A q \in left : p <= q
          /\ uploads' = uploads /\ writer' = writer /\ created' = created
      BY <2>3 DEF GetPartChunks, tables
    <3>4. /\ completer'[x].ids = ids \o s /\ completer'[x].left = left \ {p}
          /\ completer'[x].pc = (IF left = {p} THEN "commit" ELSE "chunks")
          /\ completer'[x].up = u /\ completer'[x].loc = completer[x].loc
      <4>1. PICK st : completer' = [completer EXCEPT ![x] = [completer[x] EXCEPT !.ids = ids \o s,
                                        !.left = left \ {p}, !.pc = st]]
                      /\ st = (IF left = {p} THEN "commit" ELSE "chunks")
        BY <1>1, <3>1 DEF RequestsType
      <4>2. completer'[x] = [completer[x] EXCEPT !.ids = ids \o s, !.left = left \ {p}, !.pc = st]
        BY <1>1, <4>1 DEF RequestsType
      <4> HIDE DEF ids, left
      <4>3. /\ completer'[x].ids = ids \o s /\ completer'[x].left = left \ {p}
            /\ completer'[x].pc = st
            /\ completer'[x].up = completer[x].up /\ completer'[x].loc = completer[x].loc
        BY <2>0, <4>2 DEF CompleterRec
      <4> QED
        BY <4>1, <4>3
    <3>5. ids \in Seq(ChunkIds) /\ left \subseteq Nat /\ u \in UploadIds
      BY <1>1, <2>0, <3>3, PartNumbersAssumption DEF CompleterRec, CompleterOK, TablesType
    <3> DEFINE all == ids \o s
    <3>6. /\ DOMAIN all = 1 .. Len(ids) + Len(s)
          /\ Len(ids) \in Nat /\ Len(s) \in Nat
          /\ \A i \in 1 .. Len(ids) : i \in DOMAIN ids /\ all[i] = ids[i]
          /\ \A i \in Len(ids) + 1 .. Len(ids) + Len(s) :
                i - Len(ids) \in DOMAIN s /\ all[i] = s[i - Len(ids)]
      BY <3>2, <3>5, Concatenation
    <3>7. \A c \in Elements(ids) : /\ c \in ChunkIds /\ c[1] \in Writers
                                   /\ writer[c[1]].pc = "ok" /\ writer[c[1]].part # None
                                   /\ writer[c[1]].part[1] = u /\ writer[c[1]].part[2] < p
                                   /\ \A q \in left : writer[c[1]].part[2] < q
                                   /\ \A d \in ChunkIds : d[1] = c[1] => d \in Elements(ids)
      <4>1. Elements(ids) \subseteq ChunkIds
        BY <3>5 DEF Elements
      <4> QED
        BY <2>0, <3>3, <4>1, ChunkFacts DEF CompleterOK
    <3>8. \A c \in Elements(s) : /\ c \in ChunkIds /\ c[1] \in Writers
                                 /\ c[1] = parts[<<u, p>>] /\ ord[c] = c[2] - 1
                                 /\ writer[c[1]].pc = "ok" /\ writer[c[1]].part = <<u, p>>
                                 /\ \A d \in ChunkIds : d[1] = c[1] => d \in Elements(s)
      <4> SUFFICES ASSUME NEW c \in Elements(s)
                   PROVE  /\ c \in ChunkIds /\ c[1] \in Writers
                          /\ c[1] = parts[<<u, p>>] /\ ord[c] = c[2] - 1
                          /\ writer[c[1]].pc = "ok" /\ writer[c[1]].part = <<u, p>>
                          /\ \A d \in ChunkIds : d[1] = c[1] => d \in Elements(s)
        OBVIOUS
      <4>1. c \in ChunkIds /\ partOf[c] = <<u, p>>
        BY <3>2 DEF PartChunks
      <4>2. <<u, p>> \in Parts /\ <<u, p>> # None
        BY <3>5, NoneAssumption DEF Parts
      <4>3. \A d \in ChunkIds : ChunkRowOK(d)
        BY DEF IndInv, RowsOK
      <4>4. \A d \in ChunkIds : partOf[d] = <<u, p>> <=> parts[<<u, p>>] = d[1]
        BY <4>2, <4>3 DEF ChunkRowOK
      <4> QED
        BY <3>2, <4>1, <4>2, <4>3, <4>4, ChunkFacts DEF ChunkRowOK, HasRow, PartChunks
    <3>9. Elements(all) = Elements(ids) \cup Elements(s)
      BY <3>2, <3>5, Concatenation
    <3>10. \A i, j \in DOMAIN all : i < j => Before(all[i], all[j])
      <4> HIDE DEF all
      <4> SUFFICES ASSUME NEW i \in DOMAIN all, NEW j \in DOMAIN all, i < j
                   PROVE  Before(all[i], all[j])
        OBVIOUS
      <4>1. CASE j \in 1 .. Len(ids)
        <5>1. i \in 1 .. Len(ids)
          BY <3>6, <4>1
        <5>2. i \in DOMAIN ids /\ j \in DOMAIN ids /\ all[i] = ids[i] /\ all[j] = ids[j]
          BY <3>6, <4>1, <5>1
        <5> QED
          BY <2>0, <5>2 DEF CompleterOK
      <4>2. CASE i \in 1 .. Len(ids) /\ j \in Len(ids) + 1 .. Len(ids) + Len(s)
        <5> HIDE DEF ids, u
        <5>1. all[i] \in Elements(ids) /\ all[j] \in Elements(s)
          BY <3>6, <4>2 DEF Elements
        <5>2. writer[all[i][1]].part[2] < p
          BY <3>7, <5>1
        <5>3. writer[all[j][1]].part = <<u, p>>
          BY <3>8, <5>1
        <5>4. writer[all[j][1]].part[2] = p /\ p \in Nat
          BY <5>3, PartNumbersAssumption
        <5>5. all[i][1] # all[j][1]
          BY <5>2, <5>4
        <5> QED
          BY <5>2, <5>4, <5>5 DEF Before
      <4>3. CASE i \in Len(ids) + 1 .. Len(ids) + Len(s) /\ j \in Len(ids) + 1 .. Len(ids) + Len(s)
        <5> HIDE DEF ids, u
        <5> DEFINE c == s[i - Len(ids)]
                   e == s[j - Len(ids)]
        <5>1. all[i] = c /\ all[j] = e
          BY <3>6, <4>3
        <5>2. i - Len(ids) \in DOMAIN s /\ j - Len(ids) \in DOMAIN s
          BY <3>6, <4>3
        <5>3. i - Len(ids) < j - Len(ids)
          BY <3>6, <4>3
        <5>4. c \in Elements(s) /\ e \in Elements(s) /\ c # e /\ ord[c] <= ord[e]
          BY <3>2, <5>2, <5>3 DEF Elements
        <5> HIDE DEF c, e
        <5>5. c \in ChunkIds /\ e \in ChunkIds /\ c[1] = e[1] /\ ord[c] = c[2] - 1 /\ ord[e] = e[2] - 1
          BY <3>8, <5>4
        <5>6. c[2] \in Nat /\ e[2] \in Nat /\ c[2] # e[2]
          BY <5>4, <5>5, ChunkFacts
        <5>7. c[2] < e[2]
          BY <5>4, <5>5, <5>6
        <5> QED
          BY <5>1, <5>5, <5>7 DEF Before
      <4>4. \/ j \in 1 .. Len(ids)
            \/ i \in 1 .. Len(ids) /\ j \in Len(ids) + 1 .. Len(ids) + Len(s)
            \/ i \in Len(ids) + 1 .. Len(ids) + Len(s) /\ j \in Len(ids) + 1 .. Len(ids) + Len(s)
        BY <3>6
      <4> QED
        BY <4>1, <4>2, <4>3, <4>4
    <3>11. completer'[x].pc = "commit" => completer'[x].left = {}
      BY <3>4
    <3> HIDE DEF all, ids, left, u
    <3>12. completer'[x].ids = all /\ completer'[x].left = left \ {p} /\ completer'[x].up = u
      BY <3>4 DEF all
    <3>13. \A c \in Elements(all) :
             /\ writer[c[1]].pc = "ok" /\ writer[c[1]].part # None
             /\ writer[c[1]].part[1] = u
             /\ \A q \in left \ {p} : writer[c[1]].part[2] < q
             /\ \A d \in ChunkIds : d[1] = c[1] => d \in Elements(all)
      <4>1. ASSUME NEW c \in Elements(ids)
            PROVE  /\ writer[c[1]].pc = "ok" /\ writer[c[1]].part # None
                   /\ writer[c[1]].part[1] = u
                   /\ \A q \in left \ {p} : writer[c[1]].part[2] < q
                   /\ \A d \in ChunkIds : d[1] = c[1] => d \in Elements(all)
        BY <3>7, <3>9
      <4>2. ASSUME NEW c \in Elements(s)
            PROVE  /\ writer[c[1]].pc = "ok" /\ writer[c[1]].part # None
                   /\ writer[c[1]].part[1] = u
                   /\ \A q \in left \ {p} : writer[c[1]].part[2] < q
                   /\ \A d \in ChunkIds : d[1] = c[1] => d \in Elements(all)
        <5>1. <<u, p>> # None
          BY <3>5, NoneAssumption
        <5>2. \A q \in left \ {p} : p < q
          BY <3>3, <3>5, PartNumbersAssumption
        <5> QED
          BY <3>8, <3>9, <5>1, <5>2
      <4> QED
        BY <3>9, <4>1, <4>2
    <3>14. completer[x].pc # "idle" /\ completer'[x].pc \in {"commit", "chunks"}
      BY <3>3, <3>4
    <3>15. /\ completer'[x].up \in created' /\ completer'[x].loc # None
           /\ uploads'[completer'[x].up] \in {None, completer'[x].loc}
           /\ \A w \in Writers : (writer'[w].part # None /\ writer'[w].part[1] = completer'[x].up)
                                     => writer'[w].loc = completer'[x].loc
      BY <2>0, <3>3, <3>4, <3>12, <3>14 DEF CompleterOK, u
    <3>16. Elements(completer[x].ids)' = Elements(all)
      BY <3>12 DEF Elements
    <3>17. \A i, j \in DOMAIN completer'[x].ids :
              i < j => Before(completer[x].ids[i], completer[x].ids[j])'
      BY <3>3, <3>10, <3>12 DEF Before
    <3> QED
      BY <3>3, <3>11, <3>12, <3>13, <3>14, <3>15, <3>16, <3>17 DEF CompleterOK
  <2>4. CASE CompleteMultipartUpload(x)
    <3>1. completer'[x] = NewCompleter
      BY <1>1, <2>4 DEF CompleteMultipartUpload, RequestsType
    <3> QED
      BY <1>2, <3>1
  <2> QED
    BY <1>3, <2>1, <2>2, <2>3, <2>4, Zenon DEF Complete
<1>4. ASSUME NEW y \in Completers PROVE CompleterOK(y)'
  <2>1. Crash => completer'[y] = NewCompleter
    BY DEF Crash
  <2>2. UNCHANGED completer => completer'[y] = completer[y]
    OBVIOUS
  <2> QED
    BY <1>2, <1>3, <2>1, <2>2, CompleterAlone, CompleterFrame, OtherLocals, Zenon
<1> QED
  BY <1>4 DEF CompletersOK

-----------------------------------------------------------------------------
(***************************************************************************)
(* Objects.                                                                *)
(***************************************************************************)
\* What a step does to a key: its object goes, or nothing happens to its rows, or
\* it is the one that a PutObject or a CompleteMultipartUpload writes.
Gone(l) == objects'[l] = None
Untouched(l) == /\ objects'[l] = objects[l]
                /\ \A c \in ChunkIds : objOf'[c] = l <=> objOf[c] = l
                /\ \A c \in ChunkIds : objOf[c] = l => ord'[c] = ord[c]
Overwritten(l) == \E v \in Writers : PutObject(v) /\ writer[v].loc = l
Assembled(l) == \E x \in Completers : CompleteMultipartUpload(x) /\ completer[x].loc = l

LEMMA KeyFrames ==
    ASSUME IndInv, Step, NEW l \in Locations
    PROVE  /\ \A b \in Buckets : DeleteBucket(b) => IF l[1] = b THEN Gone(l) ELSE Untouched(l)
           /\ \A v \in Writers : PutObject(v) => writer[v].loc = l \/ Untouched(l)
           /\ \A x \in Completers : CompleteMultipartUpload(x) => completer[x].loc = l \/ Untouched(l)
           /\ \A d \in Deleters : DeleteRow(d) => IF deleter[d].loc = l THEN Gone(l) ELSE Untouched(l)
           /\ \/ \E b \in Buckets : DeleteBucket(b)
              \/ \E v \in Writers : PutObject(v)
              \/ \E x \in Completers : CompleteMultipartUpload(x)
              \/ \E d \in Deleters : DeleteRow(d)
              \/ Untouched(l)
<1>1. TablesType /\ RequestsType
  BY TypeParts DEF IndInv
<1>2. \A c \in ChunkIds : ChunkRowOK(c)
  BY DEF IndInv, RowsOK
<1>3. l # None
  BY NoneAssumption DEF Locations
<1>4. UNCHANGED <<objects, objOf, ord>> => Untouched(l)
  BY DEF Untouched
<1>5. ASSUME NEW b \in Buckets, DeleteBucket(b) PROVE IF l[1] = b THEN Gone(l) ELSE Untouched(l)
  <2>1. CASE l[1] = b
    BY <1>3, <1>5, <2>1 DEF DeleteBucket, Gone
  <2>2. CASE l[1] # b
    <3>1. objects'[l] = objects[l] /\ ord' = ord
      BY <1>5, <2>2 DEF DeleteBucket
    <3>2. \A c \in ChunkIds : objOf'[c] = l <=> objOf[c] = l
      BY <1>3, <1>5, <2>2 DEF DeleteBucket
    <3> QED
      BY <2>2, <3>1, <3>2 DEF Untouched
  <2> QED
    BY <2>1, <2>2
<1>6. ASSUME NEW v \in Writers, PutObject(v) PROVE writer[v].loc = l \/ Untouched(l)
  <2> DEFINE k == writer[v].loc
  <2>1. k \in Locations /\ writer[v].pc = "commit"
    BY <1>1, <1>6 DEF PutObject, RequestsType, WriterRec, IndInv, WritersOK
  <2>2. /\ objects' = [objects EXCEPT ![k] = PutETag(v)]
        /\ objOf' = [c \in ChunkIds |-> IF c[1] = v THEN k ELSE IF objOf[c] = k THEN None ELSE objOf[c]]
        /\ ord' = [c \in ChunkIds |-> IF c[1] = v THEN c[2] - 1 ELSE ord[c]]
    BY <1>6 DEF PutObject
  <2>3. \A c \in ChunkIds : c[1] = v => objOf[c] = None
    BY <1>2, <2>1 DEF ChunkRowOK, HasRow
  <2>4. CASE k = l
    BY <2>4
  <2>5. CASE k # l
    <3> HIDE DEF k
    <3>1. objects'[l] = objects[l]
      BY <1>1, <2>2, <2>5 DEF TablesType
    <3>2. \A c \in ChunkIds : objOf'[c] = l <=> objOf[c] = l
      BY <1>3, <2>2, <2>3, <2>5
    <3>3. \A c \in ChunkIds : objOf[c] = l => ord'[c] = ord[c]
      BY <1>3, <2>2, <2>3
    <3> QED
      BY <3>1, <3>2, <3>3 DEF Untouched
  <2> QED
    BY <2>4, <2>5
<1>7. ASSUME NEW v \in Writers, PutPart(v) PROVE Untouched(l)
  <2>1. writer[v].pc = "commit" /\ objects' = objects /\ objOf' = objOf
    BY <1>7 DEF PutPart
  <2>2. \A c \in ChunkIds : c[1] # v => ord'[c] = ord[c]
    BY <1>7 DEF PutPart
  <2>3. \A c \in ChunkIds : c[1] = v => objOf[c] = None
    BY <1>2, <2>1 DEF ChunkRowOK, HasRow
  <2> QED
    BY <1>3, <2>1, <2>2, <2>3 DEF Untouched
<1>8. ASSUME NEW x \in Completers, CompleteMultipartUpload(x) PROVE completer[x].loc = l \/ Untouched(l)
  <2> DEFINE k == completer[x].loc
             moved == {c \in Elements(completer[x].ids) : partOf[c] # None}
  <2>1. /\ \A c \in moved : objOf[c] = None
        /\ objOf' = [c \in ChunkIds |-> IF c \in moved THEN k
                                        ELSE IF objOf[c] = k THEN None ELSE objOf[c]]
        /\ \A c \in ChunkIds : c \notin moved => ord'[c] = ord[c]
    BY <1>8, MovedRows
  <2>2. objects' = [objects EXCEPT ![k] = PartsETag(completer[x].parts)]
    BY <1>8 DEF CompleteMultipartUpload
  <2>3. CASE k = l
    BY <2>3
  <2>4. CASE k # l
    <3> HIDE DEF k, moved
    <3>1. objects'[l] = objects[l]
      BY <1>1, <2>2, <2>4 DEF TablesType
    <3>2. \A c \in ChunkIds : objOf'[c] = l <=> objOf[c] = l
      BY <1>3, <2>1, <2>4
    <3>3. \A c \in ChunkIds : objOf[c] = l => ord'[c] = ord[c]
      BY <1>3, <2>1
    <3> QED
      BY <3>1, <3>2, <3>3 DEF Untouched
  <2> QED
    BY <2>3, <2>4
<1>9. ASSUME NEW d \in Deleters, DeleteRow(d)
      PROVE  IF deleter[d].loc = l THEN Gone(l) ELSE Untouched(l)
  <2>1. CASE l = deleter[d].loc
    BY <1>1, <1>9, <2>1 DEF DeleteRow, TablesType, Gone
  <2>2. CASE l # deleter[d].loc
    <3>1. objects'[l] = objects[l] /\ ord' = ord
      BY <1>1, <1>9, <2>2 DEF DeleteRow, TablesType
    <3>2. \A c \in ChunkIds : objOf'[c] = l <=> objOf[c] = l
      BY <1>3, <1>9, <2>2 DEF DeleteRow
    <3> QED
      BY <2>2, <3>1, <3>2 DEF Untouched
  <2> QED
    BY <2>1, <2>2
<1>10. TableStep \/ UNCHANGED tables =>
          \/ UNCHANGED <<objects, objOf, ord>> \/ \E b \in Buckets : DeleteBucket(b)
          \/ \E v \in Writers : PutObject(v) \/ PutPart(v)
          \/ \E x \in Completers : CompleteMultipartUpload(x)
          \/ \E d \in Deleters : DeleteRow(d)
  BY Zenon DEF TableStep, CreateBucket, CreateMultipartUpload, AbortMultipartUpload, tables
<1> QED
  BY <1>4, <1>5, <1>6, <1>7, <1>8, <1>9, <1>10, OtherSteps, Zenon

LEMMA KeyFrame ==
    ASSUME IndInv, Step, NEW l \in Locations
    PROVE  Gone(l) \/ Untouched(l) \/ Overwritten(l) \/ Assembled(l)
BY KeyFrames, Zenon DEF Overwritten, Assembled

\* What PutObject writes: the rows of its body are exactly those of the key.
LEMMA PutRows ==
    ASSUME IndInv, Step, NEW v \in Writers, PutObject(v)
    PROVE  LET l == writer[v].loc
           IN  /\ l \in Locations /\ objects'[l] = PutETag(v)
               /\ writer'[v].pc = "ok" /\ writer'[v].part = None /\ writer'[v].loc = l
               /\ \A c \in ChunkIds : objOf'[c] = l <=> c[1] = v
               /\ \A c \in ChunkIds : c[1] = v => ord'[c] = c[2] - 1
<1> DEFINE l == writer[v].loc
<1>1. TablesType /\ RequestsType
  BY TypeParts DEF IndInv
<1>2. l \in Locations /\ l # None
  BY <1>1 DEF PutObject, RequestsType, WriterRec, IndInv, WritersOK
<1>3. writer'[v].pc = "ok" /\ writer'[v].part = None /\ writer'[v].loc = l
  BY <1>1 DEF PutObject, RequestsType, WriterRec
<1>4. objects'[l] = PutETag(v)
  BY <1>1, <1>2 DEF PutObject, TablesType
<1>5. \A c \in ChunkIds : objOf'[c] = l <=> c[1] = v
  BY <1>2 DEF PutObject
<1>6. \A c \in ChunkIds : c[1] = v => ord'[c] = c[2] - 1
  BY DEF PutObject
<1> QED
  BY <1>2, <1>3, <1>4, <1>5, <1>6

\* What CompleteMultipartUpload writes: the key's rows are the ones it moves.
LEMMA AssembledRows ==
    ASSUME IndInv, Step, NEW x \in Completers, CompleteMultipartUpload(x)
    PROVE  LET l == completer[x].loc
           IN  /\ l \in Locations /\ completer[x].parts \in PartRows
               /\ objects'[l] = PartsETag(completer[x].parts)
               /\ \A c \in ChunkIds : objOf'[c] = l <=> c \in Elements(completer[x].ids) /\ partOf[c] # None
               /\ \A c \in ChunkIds : objOf'[c] = l => writer'[c[1]].part # None
<1> DEFINE l == completer[x].loc
           moved == {c \in Elements(completer[x].ids) : partOf[c] # None}
<1>1. TablesType /\ RequestsType
  BY TypeParts DEF IndInv
<1>2. /\ l \in Locations /\ moved \subseteq ChunkIds
      /\ objOf' = [c \in ChunkIds |-> IF c \in moved THEN l
                                      ELSE IF objOf[c] = l THEN None ELSE objOf[c]]
  BY MovedRows
<1>3. l # None
  BY <1>2, NoneAssumption DEF Locations
<1>4. objects'[l] = PartsETag(completer[x].parts) /\ completer[x].parts \in PartRows
  BY <1>1, <1>2 DEF CompleteMultipartUpload, RequestsType, CompleterRec, TablesType
<1>5. \A c \in ChunkIds : objOf'[c] = l <=> c \in moved
  <2> HIDE DEF l, moved
  <2> QED
    BY <1>2, <1>3
<1>6. \A c \in moved : writer'[c[1]].part # None
  <2> SUFFICES ASSUME NEW c \in moved PROVE writer'[c[1]].part # None
    OBVIOUS
  <2>1. ChunkRowOK(c) /\ partOf[c] # None /\ c[1] \in Writers
    BY <1>2, ChunkFacts DEF IndInv, RowsOK
  <2>2. writer[c[1]].pc = "ok" /\ writer[c[1]].part # None
    BY <2>1 DEF ChunkRowOK, HasRow
  <2> QED
    BY <2>1, <2>2, WriterFrame DEF WritersKept
<1> QED
  BY <1>2, <1>4, <1>5, <1>6

\* The object row and the chunk rows of a key change together.
LEMMA ObjectsStep == IndInv /\ Step => ObjectsOK'
<1> SUFFICES ASSUME IndInv, Step PROVE ObjectsOK'
  OBVIOUS
<1>1. ObjectsOK /\ \A c \in ChunkIds : ChunkRowOK(c)
  BY DEF IndInv, RowsOK
<1>2. \A w \in Writers : writer[w].pc = "ok" =>
          writer'[w].pc = "ok" /\ writer'[w].loc = writer[w].loc /\ writer'[w].part = writer[w].part
  BY WriterFrame DEF WritersKept
<1>3. ASSUME NEW l \in Locations, NEW w \in Writers, objects'[l] = PutETag(w)
      PROVE  /\ writer'[w].pc = "ok" /\ writer'[w].part = None /\ writer'[w].loc = l
             /\ \A c \in ChunkIds : objOf'[c] = l <=> c[1] = w
             /\ \A c \in ChunkIds : c[1] = w => ord'[c] = c[2] - 1
  <2>1. CASE Untouched(l)
    <3>1. objects[l] = PutETag(w)
      BY <1>3, <2>1 DEF Untouched
    <3>2. /\ writer[w].pc = "ok" /\ writer[w].part = None /\ writer[w].loc = l
          /\ \A c \in ChunkIds : objOf[c] = l <=> c[1] = w
          /\ \A c \in ChunkIds : c[1] = w => ord[c] = c[2] - 1
      BY <1>1, <3>1 DEF ObjectsOK
    <3> QED
      BY <1>2, <2>1, <3>2 DEF Untouched
  <2>2. CASE Overwritten(l)
    <3>1. PICK v \in Writers : PutObject(v) /\ writer[v].loc = l
      BY <2>2 DEF Overwritten
    <3>2. w = v
      BY <1>3, <3>1, PutRows, ETagFacts
    <3> QED
      BY <3>1, <3>2, PutRows
  <2>3. ~Assembled(l)
    BY <1>3, AssembledRows, ETagFacts DEF Assembled
  <2>4. ~Gone(l)
    BY <1>3, ETagFacts DEF Gone
  <2> QED
    BY <2>1, <2>2, <2>3, <2>4, KeyFrame
<1>4. ASSUME NEW l \in Locations, NEW f \in PartRows, objects'[l] = PartsETag(f),
             NEW c \in ChunkIds, objOf'[c] = l
      PROVE  writer'[c[1]].part # None
  <2>1. CASE Untouched(l)
    <3>1. objects[l] = PartsETag(f) /\ objOf[c] = l
      BY <1>4, <2>1 DEF Untouched
    <3>2. writer[c[1]].part # None
      BY <1>1, <3>1, Zenon DEF ObjectsOK
    <3>3. writer[c[1]].pc = "ok" /\ c[1] \in Writers
      BY <1>1, <3>1, NoneAssumption, ChunkFacts DEF ChunkRowOK, HasRow, Locations
    <3> QED
      BY <1>2, <3>2, <3>3
  <2>2. ~Overwritten(l)
    BY <1>4, PutRows, ETagFacts DEF Overwritten
  <2>3. CASE Assembled(l)
    BY <1>4, <2>3, AssembledRows DEF Assembled
  <2>4. ~Gone(l)
    BY <1>4, ETagFacts DEF Gone
  <2> QED
    BY <2>1, <2>2, <2>3, <2>4, KeyFrame
<1> QED
  BY <1>3, <1>4 DEF ObjectsOK

\* A body's chunk rows are attached, moved and dropped together.
LEMMA TogetherStep == IndInv /\ Step => ChunksTogether'
<1> SUFFICES ASSUME IndInv, Step PROVE ChunksTogether'
  OBVIOUS
<1>1. TablesType' /\ RowsOK' /\ ChunksTogether
  BY TypeTables, RowsStep DEF IndInv
<1>2. ASSUME NEW c \in ChunkIds, NEW d \in ChunkIds, c[1] = d[1], partOf'[c] # None
      PROVE  partOf'[d] = partOf'[c]
  BY <1>1, <1>2 DEF TablesType, RowsOK, ChunkRowOK
<1>3. ASSUME NEW c \in ChunkIds, NEW d \in ChunkIds, c[1] = d[1], objOf'[c] # None
      PROVE  objOf'[d] = objOf'[c]
  <2> DEFINE l == objOf'[c]
  <2>1. l \in Locations /\ objects'[l] # None
    BY <1>1, <1>3 DEF TablesType, RowsOK, ChunkRowOK
  <2>2. CASE Untouched(l)
    <3>1. objOf[c] = l
      BY <2>2 DEF Untouched
    <3>2. objOf[d] = l
      BY <1>1, <1>3, <3>1 DEF ChunksTogether
    <3> QED
      BY <2>2, <3>2 DEF Untouched
  <2>3. CASE Overwritten(l)
    BY <1>3, <2>3, PutRows DEF Overwritten
  <2>4. ASSUME NEW x \in Completers, CompleteMultipartUpload(x), completer[x].loc = l
        PROVE  objOf'[d] = l
    <3>1. c \in Elements(completer[x].ids) /\ partOf[c] # None
      BY <2>4, AssembledRows
    <3>2. d \in Elements(completer[x].ids)
      BY <1>3, <3>1 DEF IndInv, CompletersOK, CompleterOK
    <3>3. partOf[d] # None
      BY <1>1, <1>3, <3>1 DEF ChunksTogether
    <3> QED
      BY <2>4, <3>2, <3>3, AssembledRows
  <2>5. ~Gone(l)
    BY <2>1 DEF Gone
  <2>6. Untouched(l) \/ Overwritten(l) \/ Assembled(l)
    <3> HIDE DEF l
    <3> QED
      BY <2>1, <2>5, KeyFrame
  <2> QED
    BY <2>2, <2>3, <2>4, <2>6, Zenon DEF Assembled
<1> QED
  BY <1>2, <1>3 DEF ChunksTogether

\* The ordinals of an object's chunks follow the data.
LEMMA OrdinalsStep == IndInv /\ Step => OrdinalsFollowData'
<1> SUFFICES ASSUME IndInv, Step PROVE OrdinalsFollowData'
  OBVIOUS
<1>1. TablesType /\ RequestsType
  BY TypeParts DEF IndInv
<1>2. OrdinalsFollowData /\ \A c \in ChunkIds : ChunkRowOK(c)
  BY DEF IndInv, RowsOK
<1>3. ASSUME NEW c \in ChunkIds, NEW d \in ChunkIds, writer[c[1]].pc = "ok", writer[d[1]].pc = "ok"
      PROVE  Before(c, d)' <=> Before(c, d)
  <2>1. c[1] \in Writers /\ d[1] \in Writers
    BY ChunkFacts
  <2>2. writer'[c[1]].part = writer[c[1]].part /\ writer'[d[1]].part = writer[d[1]].part
    BY <1>3, <2>1, WriterFrame DEF WritersKept
  <2> QED
    BY <2>2 DEF Before
<1> DEFINE Good(c, d) == \/ Before(c, d)' /\ ord'[c] < ord'[d]
                         \/ Before(d, c)' /\ ord'[d] < ord'[c]
<1>4. SUFFICES ASSUME NEW c \in ChunkIds, NEW d \in ChunkIds, c # d,
                      objOf'[c] # None, objOf'[c] = objOf'[d]
               PROVE  Good(c, d)
  BY DEF OrdinalsFollowData
<1>5. ASSUME objOf'[c] = objOf[c], objOf'[d] = objOf[d], ord'[c] = ord[c], ord'[d] = ord[d]
      PROVE  Good(c, d)
  <2>1. \/ Before(c, d) /\ ord[c] < ord[d]
        \/ Before(d, c) /\ ord[d] < ord[c]
    BY <1>2, <1>4, <1>5 DEF OrdinalsFollowData
  <2>2. writer[c[1]].pc = "ok" /\ writer[d[1]].pc = "ok"
    BY <1>2, <1>4, <1>5 DEF ChunkRowOK, HasRow
  <2>3. (Before(c, d)' <=> Before(c, d)) /\ (Before(d, c)' <=> Before(d, c))
    BY <1>3, <2>2
  <2> QED
    BY <1>5, <2>1, <2>3
<1>6. CASE UNCHANGED <<objOf, ord>>
  BY <1>5, <1>6
<1>7. CASE \E b \in Buckets : DeleteBucket(b)
  BY <1>4, <1>5, <1>7 DEF DeleteBucket
<1>8. CASE \E e \in Deleters : DeleteRow(e)
  BY <1>4, <1>5, <1>8 DEF DeleteRow
<1>9. ASSUME NEW v \in Writers, PutObject(v) PROVE Good(c, d)
  <2> DEFINE k == writer[v].loc
  <2>1. /\ \A e \in ChunkIds :
              objOf'[e] = IF e[1] = v THEN k ELSE IF objOf[e] = k THEN None ELSE objOf[e]
        /\ \A e \in ChunkIds : ord'[e] = IF e[1] = v THEN e[2] - 1 ELSE ord[e]
    BY <1>9 DEF PutObject
  <2> HIDE DEF k
  <2>2. CASE c[1] = v /\ d[1] = v
    <3>1. c[2] \in Nat /\ d[2] \in Nat /\ c[2] # d[2]
      BY <1>4, <2>2, ChunkFacts
    <3>2. ord'[c] = c[2] - 1 /\ ord'[d] = d[2] - 1
      BY <2>1, <2>2
    <3>3. (c[2] < d[2] => Before(c, d)') /\ (d[2] < c[2] => Before(d, c)')
      BY <2>2 DEF Before
    <3> QED
      BY <3>1, <3>2, <3>3
  <2>3. CASE c[1] # v /\ d[1] # v
    BY <1>4, <1>5, <2>1, <2>3
  <2>4. ~(c[1] = v /\ d[1] # v) /\ ~(c[1] # v /\ d[1] = v)
    BY <1>4, <2>1
  <2> QED
    BY <2>2, <2>3, <2>4
<1>10. ASSUME NEW v \in Writers, PutPart(v) PROVE Good(c, d)
  <2>1. objOf' = objOf /\ \A e \in ChunkIds : e[1] # v => ord'[e] = ord[e]
    BY <1>10 DEF PutPart
  <2>2. \A e \in ChunkIds : objOf[e] # None => writer[e[1]].pc = "ok"
    BY <1>2 DEF ChunkRowOK, HasRow
  <2>3. writer[v].pc # "ok"
    BY <1>10 DEF PutPart
  <2> QED
    BY <1>4, <1>5, <2>1, <2>2, <2>3
<1>11. ASSUME NEW x \in Completers, CompleteMultipartUpload(x) PROVE Good(c, d)
  <2> DEFINE k == completer[x].loc
             ids == completer[x].ids
             moved == {e \in Elements(ids) : partOf[e] # None}
  <2>1. /\ k \in Locations
        /\ \A e \in ChunkIds :
              objOf'[e] = IF e \in moved THEN k ELSE IF objOf[e] = k THEN None ELSE objOf[e]
        /\ \A e \in ChunkIds : ord'[e] = IF e \in moved THEN Position(ids, e) - 1 ELSE ord[e]
    BY <1>11, MovedRows
  <2>2. /\ \A i, j \in DOMAIN ids : i < j => Before(ids[i], ids[j])
        /\ \A e \in Elements(ids) : writer[e[1]].pc = "ok"
        /\ ids \in Seq(ChunkIds)
    BY <1>1 DEF IndInv, CompletersOK, CompleterOK, RequestsType, CompleterRec
  <2> HIDE DEF k, ids
  <2>3. CASE c \in moved /\ d \in moved
    <3> DEFINE i == Position(ids, c)
               j == Position(ids, d)
    <3>1. i \in DOMAIN ids /\ ids[i] = c
      BY <2>3 DEF Position, Elements
    <3>2. j \in DOMAIN ids /\ ids[j] = d
      BY <2>3 DEF Position, Elements
    <3> HIDE DEF i, j
    <3>3. i \in Int /\ j \in Int /\ i # j
      BY <1>4, <2>2, <3>1, <3>2
    <3>4. ord'[c] = i - 1 /\ ord'[d] = j - 1
      BY <2>1, <2>3 DEF i, j
    <3>5. (i < j => Before(c, d)) /\ (j < i => Before(d, c))
      BY <2>2, <3>1, <3>2
    <3>6. (Before(c, d)' <=> Before(c, d)) /\ (Before(d, c)' <=> Before(d, c))
      BY <1>3, <2>2, <2>3
    <3> QED
      BY <3>3, <3>4, <3>5, <3>6
  <2>4. CASE c \notin moved /\ d \notin moved
    <3> HIDE DEF moved
    <3> QED
      BY <1>4, <1>5, <2>1, <2>4
  <2>5. ~(c \in moved /\ d \notin moved) /\ ~(c \notin moved /\ d \in moved)
    <3> HIDE DEF moved
    <3> QED
      BY <1>4, <2>1
  <2> QED
    BY <2>3, <2>4, <2>5
<1>12. TableStep \/ UNCHANGED tables =>
          \/ UNCHANGED <<objOf, ord>> \/ \E b \in Buckets : DeleteBucket(b)
          \/ \E v \in Writers : PutObject(v) \/ PutPart(v)
          \/ \E x \in Completers : CompleteMultipartUpload(x)
          \/ \E e \in Deleters : DeleteRow(e)
  BY Zenon DEF TableStep, CreateBucket, CreateMultipartUpload, AbortMultipartUpload, tables
<1> HIDE DEF Good
<1> QED
  BY <1>6, <1>7, <1>8, <1>9, <1>10, <1>11, <1>12, OtherSteps, Zenon

-----------------------------------------------------------------------------
(***************************************************************************)
(* The backends, and DeleteObject.                                         *)
(***************************************************************************)
\* A body on the backends is taken away only under a key that is condemned.
LEMMA BlobsStep == IndInv /\ Step => BlobsOK'
<1> SUFFICES ASSUME IndInv, Step PROVE BlobsOK'
  OBVIOUS
<1>1. TablesType /\ RequestsType
  BY TypeParts DEF IndInv
<1>2. BlobsOK /\ WritersKept
  BY WriterFrame DEF IndInv
<1>3. condemned \subseteq condemned'
  BY OtherLocals DEF StartDelete
<1>4. SUFFICES ASSUME NEW c \in ChunkIds, writer'[c[1]].pc \in {"check", "commit", "ok"}
               PROVE  blob'[c] = "stored" \/ writer'[c[1]].loc \in condemned'
  BY DEF BlobsOK
<1>5. c[1] \in Writers
  BY ChunkFacts
<1>6. CASE writer[c[1]].pc \in {"check", "commit", "ok"}
  <2>1. writer'[c[1]].loc = writer[c[1]].loc
    BY <1>2, <1>5, <1>6 DEF WritersKept
  <2>2. blob[c] = "stored" \/ writer[c[1]].loc \in condemned
    BY <1>2, <1>6 DEF BlobsOK
  <2>3. CASE \E w \in Writers : ChunkBody(w)
    BY <1>3, <2>1, <2>2, <2>3 DEF ChunkBody
  <2>4. ASSUME NEW d \in Deleters, DestroyChunk(d) \/ DestroyFails(d)
        PROVE  blob'[c] = "stored" \/ writer'[c[1]].loc \in condemned'
    <3> DEFINE e == deleter[d].ids[deleter[d].pos]
    <3>1. blob'[c] = blob[c] \/ (c = e /\ e \in deleter[d].got)
      BY <1>1, <2>4 DEF DestroyChunk, DestroyFails, RequestsType
    <3>2. \A a \in deleter[d].got : writer[a[1]].loc \in condemned
      <4>1. DeleterOK(d) /\ deleter[d].pc = "destroy"
        BY <2>4 DEF IndInv, DeletersOK, DestroyChunk, DestroyFails
      <4> QED
        BY <4>1 DEF DeleterOK
    <3> QED
      BY <1>3, <2>1, <2>2, <3>1, <3>2
  <2>5. CASE UNCHANGED blob
    BY <1>3, <2>1, <2>2, <2>5
  <2> QED
    BY <2>3, <2>4, <2>5, OtherLocals
<1>7. CASE writer[c[1]].pc \notin {"check", "commit", "ok"}
  <2>1. ASSUME NEW v \in Writers, Write(v) PROVE ChunkBody(v) /\ v = c[1]
    <3>1. CASE ChunkBody(v)
      BY <1>1, <1>4, <1>5, <1>7, <3>1 DEF ChunkBody, RequestsType, WriterRec
    <3>2. CASE (\E l \in Locations : StartPut(v, l)) \/ (\E q \in Parts : StartPart(v, q))
      BY <1>1, <1>4, <1>5, <1>7, <3>2 DEF StartPut, StartPart, RequestsType, WriterRec
    <3>3. CASE ChunkBodyFails(v) \/ CheckUpload(v) \/ PutPartRollback(v) \/ PutObject(v) \/ PutPart(v)
      <4>1. PICK st \in {"commit", "failed", "ok"} :
              /\ writer' = [writer EXCEPT ![v].pc = st]
              /\ st = "failed" \/ writer[v].pc \in {"check", "commit"}
        BY <3>3 DEF ChunkBodyFails, CheckUpload, PutPartRollback, PutObject, PutPart
      <4> QED
        BY <1>1, <1>4, <1>5, <1>7, <4>1 DEF RequestsType, WriterRec
    <3> QED
      BY <2>1, <3>1, <3>2, <3>3, Zenon DEF Write
  <2>2. ~Crash
    BY <1>1, <1>4, <1>5, <1>7 DEF Crash, RequestsType, WriterRec
  <2>3. ~UNCHANGED writer
    BY <1>4, <1>7
  <2> QED
    BY <2>1, <2>2, <2>3, OtherLocals DEF ChunkBody
<1> QED
  BY <1>6, <1>7

\* What a deletion has read and destroyed stays so.
LEMMA DeleterFrame ==
    ASSUME IndInv, Step, NEW d \in Deleters, deleter'[d] = deleter[d]
    PROVE  DeleterOK(d)'
<1> DEFINE r == deleter[d]
<1>1. TablesType /\ RequestsType
  BY TypeParts DEF IndInv
<1>2. DeleterOK(d) /\ WritersKept
  BY WriterFrame DEF IndInv, DeletersOK
<1>3. condemned \subseteq condemned'
  BY OtherLocals DEF StartDelete
<1>4. r.ids \in Seq(ChunkIds)
  BY <1>1 DEF RequestsType, DeleterRec
<1>5. Elements(r.ids) \subseteq ChunkIds
  BY <1>4 DEF Elements
<1>6. \A c \in Elements(r.ids) : writer[c[1]].pc = "ok" /\ writer[c[1]].loc = r.loc
  BY <1>2 DEF DeleterOK
<1> HIDE DEF r
<1>7. \A c \in Elements(r.ids) : writer'[c[1]].pc = "ok" /\ writer'[c[1]].loc = r.loc
  BY <1>2, <1>5, <1>6, ChunkFacts DEF WritersKept
<1>8. \A c \in Elements(r.ids) : blob[c] = "none" => blob'[c] = "none"
  <2> SUFFICES ASSUME NEW c \in Elements(r.ids), blob[c] = "none" PROVE blob'[c] = "none"
    OBVIOUS
  <2>1. CASE \E w \in Writers : ChunkBody(w)
    BY <1>5, <1>6, <2>1 DEF ChunkBody
  <2>2. CASE \E e \in Deleters : DestroyChunk(e) \/ DestroyFails(e)
    BY <1>1, <1>5, <2>2 DEF DestroyChunk, DestroyFails, RequestsType
  <2> QED
    BY <2>1, <2>2, OtherLocals
<1>9. \A i \in DOMAIN r.ids : r.ids[i] \in Elements(r.ids)
  BY DEF Elements
<1>10. r' = r
  BY DEF r
<1>11. /\ r.pc \in {"idle", "chunks"} => r.ids = <<>> /\ r.got = {}
       /\ r.pc # "idle" => r.loc # None /\ r.loc \in condemned
       /\ r.got \subseteq Elements(r.ids)
       /\ r.pc = "destroy" => \A i \in DOMAIN r.ids :
             i < r.pos /\ r.ids[i] \in r.got => blob[r.ids[i]] = "none"
  BY <1>2 DEF DeleterOK, r
<1>12. DeleterOK(d)' <=>
    /\ r'.pc \in {"idle", "chunks"} => r'.ids = <<>> /\ r'.got = {}
    /\ r'.pc # "idle" => r'.loc # None /\ r'.loc \in condemned'
    /\ r'.got \subseteq Elements(r'.ids)
    /\ \A c \in Elements(r'.ids) : writer'[c[1]].pc = "ok" /\ writer'[c[1]].loc = r'.loc
    /\ r'.pc = "destroy" =>
          \A i \in DOMAIN r'.ids : i < r'.pos /\ r'.ids[i] \in r'.got => blob'[r'.ids[i]] = "none"
  BY Zenon DEF DeleterOK, r, Elements
<1> QED
  BY <1>3, <1>7, <1>8, <1>9, <1>10, <1>11, <1>12

\* DeleteObject reads rows of its own key and destroys them one after the other.
LEMMA DeletersStep == IndInv /\ Step => DeletersOK'
<1> SUFFICES ASSUME IndInv, Step PROVE DeletersOK'
  OBVIOUS
<1>1. TablesType /\ RequestsType
  BY TypeParts DEF IndInv
<1>2. ASSUME NEW d \in Deleters, deleter'[d] = NewDeleter PROVE DeleterOK(d)'
  <2>1. deleter'[d].pc = "idle" /\ deleter'[d].ids = <<>> /\ deleter'[d].got = {}
    BY <1>2 DEF NewDeleter
  <2>2. Elements(deleter'[d].ids) = {} /\ DOMAIN deleter'[d].ids = {}
    BY <2>1 DEF Elements
  <2> QED
    BY <2>1, <2>2 DEF DeleterOK, Elements
<1>3. ASSUME NEW d \in Deleters, Delete(d) PROVE DeleterOK(d)'
  <2> DEFINE r == deleter[d]
  <2>1. DeleterOK(d) /\ r \in DeleterRec
    BY <1>1 DEF IndInv, DeletersOK, RequestsType
  <2>2. /\ r.ids \in Seq(ChunkIds) /\ r.pos \in Nat \ {0}
        /\ Elements(r.ids) \subseteq ChunkIds
        /\ \A c \in Elements(r.ids) : writer[c[1]].pc = "ok" /\ writer[c[1]].loc = r.loc
        /\ \A i \in DOMAIN r.ids : r.ids[i] \in Elements(r.ids)
    BY <2>1 DEF DeleterRec, DeleterOK, Elements
  <2>3. /\ r.pc \in {"idle", "chunks"} => r.ids = <<>> /\ r.got = {}
        /\ r.pc # "idle" => r.loc # None /\ r.loc \in condemned
        /\ r.got \subseteq Elements(r.ids)
        /\ r.pc = "destroy" =>
             \A i \in DOMAIN r.ids : i < r.pos /\ r.ids[i] \in r.got => blob[r.ids[i]] = "none"
    BY <2>1 DEF DeleterOK
  <2>4. writer' = writer
    BY <1>3, Zenon DEF Delete, StartDelete, DeleteGetChunks, DeleteGetShards, BeginDestroy,
       DestroyChunk, DestroyFails, DeleteRow
  <2>5. DeleterOK(d)' <=>
      /\ r'.pc \in {"idle", "chunks"} => r'.ids = <<>> /\ r'.got = {}
      /\ r'.pc # "idle" => r'.loc # None /\ r'.loc \in condemned'
      /\ r'.got \subseteq Elements(r'.ids)
      /\ \A c \in Elements(r'.ids) : writer'[c[1]].pc = "ok" /\ writer'[c[1]].loc = r'.loc
      /\ r'.pc = "destroy" =>
            \A i \in DOMAIN r'.ids : i < r'.pos /\ r'.ids[i] \in r'.got => blob'[r'.ids[i]] = "none"
    BY Zenon DEF DeleterOK, Elements
  <2>6. ASSUME NEW l \in Locations, StartDelete(d, l) PROVE DeleterOK(d)'
    <3>1. deleter' = [deleter EXCEPT ![d] = [deleter[d] EXCEPT !.pc = "chunks", !.loc = l]]
      BY <1>1, <2>6 DEF StartDelete, RequestsType
    <3>2. r' = [r EXCEPT !.pc = "chunks", !.loc = l]
      BY <1>1, <3>1 DEF RequestsType
    <3>3. r.pc = "idle" /\ condemned' = condemned \cup {l}
      BY <2>6 DEF StartDelete
    <3> HIDE DEF r
    <3>4. r'.pc = "chunks" /\ r'.loc = l /\ r'.ids = r.ids /\ r'.got = r.got
      BY <2>1, <3>2 DEF DeleterRec
    <3>5. l # None
      BY NoneAssumption DEF Locations
    <3> QED
      BY <2>2, <2>3, <2>4, <2>5, <3>3, <3>4, <3>5 DEF Elements
  <2>7. CASE DeleteGetChunks(d)
    <3>1. PICK s \in InOrder(ObjectChunks(r.loc)) :
             deleter' = [deleter EXCEPT ![d].pc = "shards", ![d].ids = s]
      BY <2>7 DEF DeleteGetChunks
    <3>2. Elements(s) = ObjectChunks(r.loc)
      BY OrderedRows DEF ObjectChunks
    <3>3. deleter' = [deleter EXCEPT ![d] = [deleter[d] EXCEPT !.pc = "shards", !.ids = s]]
      BY <1>1, <3>1 DEF RequestsType
    <3>4. r' = [r EXCEPT !.pc = "shards", !.ids = s]
      BY <1>1, <3>3 DEF RequestsType
    <3>5. r.pc = "chunks" /\ condemned' = condemned
      BY <2>7 DEF DeleteGetChunks
    <3> HIDE DEF r
    <3>6. r'.pc = "shards" /\ r'.loc = r.loc /\ r'.ids = s /\ r'.got = r.got
      BY <2>1, <3>4 DEF DeleterRec
    <3>7. \A c \in ObjectChunks(r.loc) : writer[c[1]].pc = "ok" /\ writer[c[1]].loc = r.loc
      BY <2>3, <3>5 DEF ObjectChunks, IndInv, RowsOK, ChunkRowOK, HasRow
    <3> QED
      BY <2>3, <2>4, <2>5, <3>2, <3>5, <3>6, <3>7
  <2>8. CASE DeleteGetShards(d)
    <3> DEFINE c == r.ids[r.pos]
               got == IF HasRow(c) THEN r.got \cup {c} ELSE r.got
    <3>1. r' = [r EXCEPT !.pos = r.pos + 1, !.got = got]
      BY <1>1, <2>8 DEF DeleteGetShards, RequestsType
    <3>2. c \in Elements(r.ids) /\ r.pc = "shards" /\ condemned' = condemned
      BY <2>2, <2>8 DEF DeleteGetShards
    <3>3. got \subseteq r.got \cup {c}
      OBVIOUS
    <3> HIDE DEF r, got, c
    <3>4. r'.pc = r.pc /\ r'.loc = r.loc /\ r'.ids = r.ids /\ r'.got = got
      BY <2>1, <3>1 DEF DeleterRec
    <3> QED
      BY <2>2, <2>3, <2>4, <2>5, <3>2, <3>3, <3>4
  <2>9. CASE BeginDestroy(d)
    <3>1. r' = [r EXCEPT !.pc = "destroy", !.pos = 1]
      BY <1>1, <2>9 DEF BeginDestroy, RequestsType
    <3>2. r.pc = "shards" /\ condemned' = condemned
      BY <2>9 DEF BeginDestroy
    <3> HIDE DEF r
    <3>3. r'.pc = "destroy" /\ r'.loc = r.loc /\ r'.ids = r.ids /\ r'.got = r.got /\ r'.pos = 1
      BY <2>1, <3>1 DEF DeleterRec
    <3>4. \A i \in DOMAIN r.ids : ~(i < 1)
      BY <2>2
    <3> QED
      BY <2>2, <2>3, <2>4, <2>5, <3>2, <3>3, <3>4
  <2>10. CASE DestroyChunk(d)
    <3> DEFINE c == r.ids[r.pos]
    <3>1. r' = [r EXCEPT !.pos = r.pos + 1]
      BY <1>1, <2>10 DEF DestroyChunk, RequestsType
    <3>2. /\ r.pc = "destroy" /\ condemned' = condemned
          /\ blob' = IF c \in r.got THEN [blob EXCEPT ![c] = "none"] ELSE blob
      BY <2>10 DEF DestroyChunk
    <3> HIDE DEF r
    <3>3. r'.pc = r.pc /\ r'.loc = r.loc /\ r'.ids = r.ids /\ r'.got = r.got /\ r'.pos = r.pos + 1
      BY <2>1, <3>1 DEF DeleterRec
    <3>4. \A i \in DOMAIN r.ids : i < r.pos + 1 /\ r.ids[i] \in r.got => blob'[r.ids[i]] = "none"
      <4> SUFFICES ASSUME NEW i \in DOMAIN r.ids, i < r.pos + 1, r.ids[i] \in r.got
                   PROVE  blob'[r.ids[i]] = "none"
        OBVIOUS
      <4>1. i \in Nat /\ r.pos \in Nat /\ r.ids[i] \in ChunkIds
        BY <2>2
      <4>2. i < r.pos \/ r.ids[i] = c
        BY <4>1
      <4>3. blob[r.ids[i]] = "none" \/ r.ids[i] = c
        BY <2>3, <3>2, <4>2
      <4> HIDE DEF c
      <4> QED
        BY <1>1, <3>2, <4>1, <4>3 DEF RequestsType
    <3> QED
      BY <2>2, <2>3, <2>4, <2>5, <3>2, <3>3, <3>4
  <2>11. CASE DestroyFails(d) \/ DeleteRow(d)
    <3>1. deleter'[d] = NewDeleter
      BY <1>1, <2>11 DEF DestroyFails, DeleteRow, RequestsType
    <3> QED
      BY <1>2, <3>1
  <2> QED
    BY <1>3, <2>6, <2>7, <2>8, <2>9, <2>10, <2>11, Zenon DEF Delete
<1>4. ASSUME NEW d \in Deleters, Delete(d), NEW e \in Deleters \ {d} PROVE deleter'[e] = deleter[e]
  <2>1. ASSUME NEW a, NEW b, deleter' = [deleter EXCEPT ![d].pc = a, ![d].loc = b]
        PROVE  deleter'[e] = deleter[e]
    BY <1>1, <2>1 DEF RequestsType
  <2>2. ASSUME NEW a, NEW b, deleter' = [deleter EXCEPT ![d].pc = a, ![d].ids = b]
        PROVE  deleter'[e] = deleter[e]
    BY <1>1, <2>2 DEF RequestsType
  <2>3. ASSUME NEW a, NEW b, deleter' = [deleter EXCEPT ![d].pos = a, ![d].got = b]
        PROVE  deleter'[e] = deleter[e]
    BY <1>1, <2>3 DEF RequestsType
  <2>4. ASSUME NEW a, NEW b, deleter' = [deleter EXCEPT ![d].pc = a, ![d].pos = b]
        PROVE  deleter'[e] = deleter[e]
    BY <1>1, <2>4 DEF RequestsType
  <2>5. CASE DestroyChunk(d) \/ DestroyFails(d) \/ DeleteRow(d)
    BY <1>1, <2>5 DEF DestroyChunk, DestroyFails, DeleteRow, RequestsType
  <2> QED
    BY <1>4, <2>1, <2>2, <2>3, <2>4, <2>5 DEF Delete, StartDelete, DeleteGetChunks, DeleteGetShards,
       BeginDestroy
<1>5. ASSUME NEW e \in Deleters PROVE DeleterOK(e)'
  <2>1. Crash => deleter'[e] = NewDeleter
    BY DEF Crash
  <2>2. UNCHANGED deleter => deleter'[e] = deleter[e]
    OBVIOUS
  <2> QED
    BY <1>2, <1>3, <1>4, <2>1, <2>2, DeleterFrame, OtherLocals, Zenon
<1> QED
  BY <1>5 DEF DeletersOK

-----------------------------------------------------------------------------
(***************************************************************************)
(* GetObject.                                                              *)
(***************************************************************************)
\* The only increasing map of 1 .. n into itself is the identity: there is no
\* room for 1 .. i below i, nor for i .. n above it.
LEMMA IncreasingIsIdentity ==
    ASSUME NEW n \in Nat, NEW f, \A i \in 1 .. n : f[i] \in 1 .. n,
           \A i, j \in 1 .. n : i < j => f[i] < f[j]
    PROVE  \A i \in 1 .. n : f[i] = i
<1> SUFFICES ASSUME NEW i \in 1 .. n PROVE f[i] = i
  OBVIOUS
<1>1. i \in Int /\ f[i] \in Int /\ i >= 1 /\ i <= n /\ f[i] >= 1 /\ f[i] <= n
  OBVIOUS
<1>2. \A j, k \in 1 .. n : f[j] = f[k] => j = k
  <2> SUFFICES ASSUME NEW j \in 1 .. n, NEW k \in 1 .. n, f[j] = f[k], j # k PROVE FALSE
    OBVIOUS
  <2>1. j < k \/ k < j
    OBVIOUS
  <2>2. f[j] < f[k] \/ f[k] < f[j]
    BY <2>1
  <2> QED
    BY <2>2
<1>3. i <= f[i]
  <2> DEFINE g == [j \in 1 .. i |-> f[j]]
  <2>1. \A j \in 1 .. i : j \in 1 .. n /\ f[j] \in 1 .. f[i]
    <3> SUFFICES ASSUME NEW j \in 1 .. i PROVE j \in 1 .. n /\ f[j] \in 1 .. f[i]
      OBVIOUS
    <3>1. j \in 1 .. n /\ (j = i \/ j < i)
      BY <1>1
    <3>2. f[j] \in 1 .. n /\ (f[j] = f[i] \/ f[j] < f[i])
      BY <3>1
    <3> QED
      BY <1>1, <3>1, <3>2
  <2>2. g \in Injection(1 .. i, 1 .. f[i])
    BY <1>2, <2>1 DEF Injection, IsInjective
  <2>3. IsFiniteSet(1 .. f[i]) /\ Cardinality(1 .. f[i]) = f[i] /\ Cardinality(1 .. i) = i
    BY <1>1, FS_Interval
  <2> HIDE DEF g
  <2> QED
    BY <2>2, <2>3, FS_Injection
<1>4. f[i] <= i
  <2> DEFINE g == [j \in i .. n |-> f[j]]
  <2>1. \A j \in i .. n : j \in 1 .. n /\ f[j] \in f[i] .. n
    <3> SUFFICES ASSUME NEW j \in i .. n PROVE j \in 1 .. n /\ f[j] \in f[i] .. n
      OBVIOUS
    <3>1. j \in 1 .. n /\ (j = i \/ i < j)
      BY <1>1
    <3>2. f[j] \in 1 .. n /\ (f[j] = f[i] \/ f[i] < f[j])
      BY <3>1
    <3> QED
      BY <1>1, <3>1, <3>2
  <2>2. g \in Injection(i .. n, f[i] .. n)
    BY <1>2, <2>1 DEF Injection, IsInjective
  <2>3. IsFiniteSet(f[i] .. n) /\ Cardinality(f[i] .. n) = n - f[i] + 1 /\ Cardinality(i .. n) = n - i + 1
    BY <1>1, FS_Interval
  <2> HIDE DEF g
  <2>4. n - i + 1 <= n - f[i] + 1
    BY <2>2, <2>3, FS_Injection
  <2> QED
    BY <1>1, <2>4
<1> QED
  BY <1>1, <1>3, <1>4

\* A body has as many chunk rows as chunks.
LEMMA BodySize ==
    ASSUME NEW w \in Writers
    PROVE  IsFiniteSet(ChunksOf(w)) /\ Cardinality(ChunksOf(w)) = ChunkCount[w]
<1> DEFINE n == ChunkCount[w]
           B == [j \in 1 .. n |-> <<w, j>>]
<1>1. n \in Nat
  BY ChunkCountAssumption
<1>2. ChunksOf(w) = {w} \X (1 .. n)
  BY DEF ChunksOf
<1> HIDE DEF n
<1>3. IsFiniteSet(1 .. n) /\ Cardinality(1 .. n) = n
  BY <1>1, FS_Interval
<1>4. B \in Bijection(1 .. n, ChunksOf(w))
  <2>1. B \in [1 .. n -> ChunksOf(w)]
    BY <1>2
  <2>2. \A i, j \in 1 .. n : B[i] = B[j] => i = j
    OBVIOUS
  <2>3. \A c \in ChunksOf(w) : \E i \in 1 .. n : B[i] = c
    BY <1>2
  <2> QED
    BY <2>1, <2>2, <2>3 DEF Bijection, Injection, Surjection, IsInjective
<1>5. ExistsBijection(1 .. n, ChunksOf(w))
  BY <1>4 DEF ExistsBijection
<1>6. IsFiniteSet(ChunksOf(w)) /\ Cardinality(ChunksOf(w)) = n
  BY <1>3, <1>5, FS_Bijection
<1> QED
  BY <1>6 DEF n

\* The chunk rows of a body that PutObject wrote, by ordinal, are the body.
LEMMA BodyInOrder ==
    ASSUME TypeOK, NEW w \in Writers, NEW s \in InOrder(ChunksOf(w)),
           \A c \in ChunksOf(w) : ord[c] = c[2] - 1
    PROVE  s = [j \in 1 .. ChunkCount[w] |-> <<w, j>>]
<1> DEFINE n == ChunkCount[w]
           B == [j \in 1 .. n |-> <<w, j>>]
<1>1. n \in Nat
  BY ChunkCountAssumption
<1>2. ChunksOf(w) = {w} \X (1 .. n)
  BY DEF ChunksOf
<1> HIDE DEF n
<1>3. Cardinality(ChunksOf(w)) = n
  BY BodySize DEF n
<1>4. /\ s \in [1 .. n -> ChunksOf(w)]
      /\ \A i, j \in 1 .. n : i < j => s[i] # s[j] /\ ord[s[i]] <= ord[s[j]]
  BY <1>3 DEF InOrder
<1> DEFINE f == [i \in 1 .. n |-> s[i][2]]
<1>5. \A i \in 1 .. n : s[i] = <<w, f[i]>> /\ f[i] \in 1 .. n /\ ord[s[i]] = f[i] - 1
  BY <1>2, <1>4
<1>6. s = [i \in 1 .. n |-> s[i]]
  BY <1>4
<1> HIDE DEF f
<1>7. \A i, j \in 1 .. n : i < j => f[i] < f[j]
  <2> SUFFICES ASSUME NEW i \in 1 .. n, NEW j \in 1 .. n, i < j PROVE f[i] < f[j]
    OBVIOUS
  <2>1. f[i] # f[j]
    BY <1>4, <1>5
  <2> QED
    BY <1>4, <1>5, <2>1
<1>8. \A i \in 1 .. n : f[i] = i
  BY <1>1, <1>5, <1>7, IncreasingIsIdentity
<1>9. \A i \in 1 .. n : s[i] = <<w, i>>
  BY <1>5, <1>8
<1>10. s = B
  BY <1>6, <1>9
<1> QED
  BY <1>10 DEF n

\* A GetObject reads one version of its object.
LEMMA ReadersStep == IndInv /\ Step => ReadersOK'
<1> SUFFICES ASSUME IndInv, Step PROVE ReadersOK'
  OBVIOUS
<1>1. TablesType /\ RequestsType
  BY TypeParts DEF IndInv
<1> DEFINE ListOK(s) == \A i \in DOMAIN s :
                            /\ writer[s[i][1]].pc = "ok"
                            /\ writer[s[i][1]].part = None =>
                                  s = [j \in 1 .. ChunkCount[s[i][1]] |-> <<s[i][1], j>>]
           ListOKNext(s) == \A i \in DOMAIN s :
                            /\ writer'[s[i][1]].pc = "ok"
                            /\ writer'[s[i][1]].part = None =>
                                  s = [j \in 1 .. ChunkCount[s[i][1]] |-> <<s[i][1], j>>]
<1>2. ASSUME NEW s \in Seq(ChunkIds), ListOK(s) PROVE ListOKNext(s)
  <2> SUFFICES ASSUME NEW i \in DOMAIN s
               PROVE  /\ writer'[s[i][1]].pc = "ok"
                      /\ writer'[s[i][1]].part = None =>
                             s = [j \in 1 .. ChunkCount[s[i][1]] |-> <<s[i][1], j>>]
    OBVIOUS
  <2> DEFINE w == s[i][1]
  <2>1. w \in Writers
    BY ChunkFacts
  <2>2. writer[w].pc = "ok" /\ (writer[w].part = None => s = [j \in 1 .. ChunkCount[w] |-> <<w, j>>])
    BY <1>2
  <2> HIDE DEF w
  <2>3. writer'[w].pc = "ok" /\ writer'[w].part = writer[w].part
    BY <2>1, <2>2, WriterFrame DEF WritersKept
  <2>4. writer'[w].pc = "ok" /\ (writer'[w].part = None => s = [j \in 1 .. ChunkCount[w] |-> <<w, j>>])
    BY <2>2, <2>3
  <2> QED
    BY <2>4 DEF w
<1>3. \A r \in Readers : /\ reader[r] \in ReaderRec /\ reader[r].ids \in Seq(ChunkIds)
                         /\ reader[r].pc \in {"idle", "chunks"} => reader[r].ids = <<>>
                         /\ reader[r].pc # "idle" => reader[r].loc # None
                         /\ ListOK(reader[r].ids)
  BY <1>1 DEF RequestsType, ReaderRec, IndInv, ReadersOK
<1>4. SUFFICES ASSUME NEW r \in Readers
               PROVE  /\ reader'[r].pc \in {"idle", "chunks"} => reader'[r].ids = <<>>
                      /\ reader'[r].pc # "idle" => reader'[r].loc # None
                      /\ ListOKNext(reader'[r].ids)
  BY DEF ReadersOK
<1>5. ListOKNext(<<>>)
  OBVIOUS
<1> HIDE DEF ListOK, ListOKNext
<1>6. CASE reader'[r] = reader[r]
  BY <1>2, <1>3, <1>6
<1>7. CASE reader'[r] = NewReader
  BY <1>5, <1>7 DEF NewReader
<1>8. CASE /\ reader'[r].ids = reader[r].ids
           /\ reader'[r].pc \in {"idle", "chunks"} => reader[r].pc \in {"idle", "chunks"}
           /\ reader'[r].pc # "idle" => reader'[r].loc # None
  BY <1>2, <1>3, <1>8
<1>9. CASE Read(r)
  <2>1. ASSUME NEW l \in Locations, GetObjectRow(r, l)
        PROVE  /\ reader'[r].pc \in {"idle", "chunks"} => reader'[r].ids = <<>>
               /\ reader'[r].pc # "idle" => reader'[r].loc # None
               /\ ListOKNext(reader'[r].ids)
    <3>1. reader'[r] = [reader[r] EXCEPT !.pc = "chunks", !.loc = l, !.etag = objects[l]]
      BY <1>1, <2>1 DEF GetObjectRow, RequestsType
    <3>2. reader[r] \in ReaderRec /\ reader[r].pc = "idle" /\ l # None
      BY <1>3, <2>1, NoneAssumption DEF GetObjectRow, Locations
    <3>3. reader'[r].ids = reader[r].ids /\ reader'[r].loc = l
      BY <3>1, <3>2 DEF ReaderRec
    <3> QED
      BY <1>8, <3>2, <3>3
  <2>2. CASE GetChunks(r)
    <3> DEFINE l == reader[r].loc
    <3>1. PICK s \in InOrder(ObjectChunks(l)) :
             reader' = [reader EXCEPT ![r].pc = "shards", ![r].ids = s]
      BY <2>2 DEF GetChunks
    <3>2. reader'[r] = [reader[r] EXCEPT !.pc = "shards", !.ids = s]
      BY <1>1, <3>1 DEF RequestsType
    <3>3. reader'[r].pc = "shards" /\ reader'[r].ids = s /\ reader'[r].loc = l
      BY <1>3, <3>2 DEF ReaderRec
    <3>0. l # None
      BY <1>3, <2>2 DEF GetChunks
    <3>4. s \in Seq(ChunkIds) /\ \A i \in DOMAIN s : s[i] \in ObjectChunks(l)
      BY OrderedRows, SMTT(40) DEF ObjectChunks, Elements
    <3>5. ListOK(s)
      <4> SUFFICES ASSUME NEW i \in DOMAIN s
                   PROVE  /\ writer[s[i][1]].pc = "ok"
                          /\ writer[s[i][1]].part = None =>
                                 s = [j \in 1 .. ChunkCount[s[i][1]] |-> <<s[i][1], j>>]
        BY DEF ListOK
      <4> DEFINE c == s[i]
      <4>1. c \in ChunkIds /\ objOf[c] = l /\ c[1] \in Writers
        BY <3>4, ChunkFacts DEF ObjectChunks
      <4> HIDE DEF c
      <4>2. ChunkRowOK(c) /\ l \in Locations
        BY <1>1, <3>0, <4>1 DEF IndInv, RowsOK, TablesType
      <4>3. writer[c[1]].pc = "ok" /\ objects[l] # None
        BY <3>0, <4>1, <4>2 DEF ChunkRowOK, HasRow
      <4>4. ASSUME writer[c[1]].part = None
            PROVE  s = [j \in 1 .. ChunkCount[c[1]] |-> <<c[1], j>>]
        <5>1. objects[l] \in ETags
          BY <1>1, <4>2, <4>3 DEF TablesType
        <5>2. \A f \in PartRows : objects[l] # PartsETag(f)
          <6>1. ASSUME NEW f \in PartRows, objects[l] = PartsETag(f) PROVE FALSE
            <7>1. \A e \in ChunkIds : objOf[e] = l => writer[e[1]].part # None
              BY <4>2, <6>1 DEF IndInv, ObjectsOK
            <7> QED
              BY <4>1, <4>4, <7>1
          <6> QED
            BY <6>1
        <5>3. PICK w \in Writers : objects[l] = PutETag(w)
          BY <5>1, <5>2 DEF ETags
        <5>4. /\ \A e \in ChunkIds : objOf[e] = l <=> e[1] = w
              /\ \A e \in ChunkIds : e[1] = w => ord[e] = e[2] - 1
          BY <4>2, <5>3 DEF IndInv, ObjectsOK
        <5>5. c[1] = w
          BY <4>1, <5>4
        <5>6. ObjectChunks(l) = ChunksOf(w)
          <6>1. \A e \in ChunkIds : e \in ChunksOf(w) <=> e[1] = w
            BY ChunkFacts DEF ChunksOf
          <6>2. ChunksOf(w) \subseteq ChunkIds
            BY DEF ChunkIds
          <6>3. \A e \in ObjectChunks(l) : e \in ChunksOf(w)
            BY <5>4, <6>1 DEF ObjectChunks
          <6>4. \A e \in ChunksOf(w) : e \in ObjectChunks(l)
            BY <5>4, <6>1, <6>2 DEF ObjectChunks
          <6> QED
            BY <6>3, <6>4
        <5>7. \A e \in ChunksOf(w) : ord[e] = e[2] - 1
          BY <5>4, <5>6 DEF ObjectChunks
        <5>8. s \in InOrder(ChunksOf(w))
          BY <5>6
        <5>9. TypeOK
          BY DEF IndInv
        <5> HIDE DEF l
        <5> QED
          BY <5>5, <5>7, <5>8, <5>9, BodyInOrder
      <4> QED
        BY <4>3, <4>4 DEF c
    <3> QED
      BY <1>2, <3>0, <3>3, <3>4, <3>5
  <2>3. CASE GetShards(r)
    <3>1. PICK p, g : reader' = [reader EXCEPT ![r].pos = p, ![r].got = g]
      BY <2>3 DEF GetShards
    <3>2. reader'[r] = [reader[r] EXCEPT !.pos = p, !.got = g]
      BY <1>1, <3>1 DEF RequestsType
    <3>3. /\ reader'[r].ids = reader[r].ids /\ reader'[r].pc = reader[r].pc
          /\ reader'[r].loc = reader[r].loc
      BY <1>3, <3>2 DEF ReaderRec
    <3> QED
      BY <1>3, <1>8, <3>3
  <2>4. CASE Serve(r)
    <3>1. reader'[r] = [reader[r] EXCEPT !.pc = "served"]
      BY <1>1, <2>4 DEF Serve, RequestsType
    <3>2. /\ reader'[r].ids = reader[r].ids /\ reader'[r].pc = "served"
          /\ reader'[r].loc = reader[r].loc /\ reader[r].pc # "idle"
      BY <1>3, <2>4, <3>1 DEF ReaderRec, Serve
    <3> QED
      BY <1>3, <1>8, <3>2
  <2>5. CASE EndRead(r)
    <3>1. reader'[r] = NewReader
      BY <1>1, <2>5 DEF EndRead, RequestsType
    <3> QED
      BY <1>7, <3>1
  <2> QED
    BY <1>9, <2>1, <2>2, <2>3, <2>4, <2>5, Zenon DEF Read
<1>10. ASSUME NEW y \in Readers \ {r}, Read(y) PROVE reader'[r] = reader[r]
  <2>1. ASSUME NEW a, NEW b, NEW c, reader' = [reader EXCEPT ![y].pc = a, ![y].loc = b, ![y].etag = c]
        PROVE  reader'[r] = reader[r]
    BY <1>1, <2>1 DEF RequestsType
  <2>2. ASSUME NEW a, NEW b, reader' = [reader EXCEPT ![y].pc = a, ![y].ids = b]
        PROVE  reader'[r] = reader[r]
    BY <1>1, <2>2 DEF RequestsType
  <2>3. ASSUME NEW a, NEW b, reader' = [reader EXCEPT ![y].pos = a, ![y].got = b]
        PROVE  reader'[r] = reader[r]
    BY <1>1, <2>3 DEF RequestsType
  <2>4. CASE Serve(y) \/ EndRead(y)
    BY <1>1, <2>4 DEF Serve, EndRead, RequestsType
  <2> QED
    BY <1>10, <2>1, <2>2, <2>3, <2>4 DEF Read, GetObjectRow, GetChunks, GetShards
<1>11. Crash => reader'[r] = NewReader
  BY DEF Crash
<1>12. UNCHANGED reader => reader'[r] = reader[r]
  OBVIOUS
<1> QED
  BY <1>6, <1>7, <1>9, <1>10, <1>11, <1>12, OtherLocals, Zenon

-----------------------------------------------------------------------------
(***************************************************************************)
(* Completions that nobody disturbs.                                       *)
(***************************************************************************)
\* A part row changes only with a PutPart of its upload, or the upload goes.
LEMMA PartsFrame ==
    ASSUME IndInv, Step, NEW u \in UploadIds, NEW p \in PartNumbers
    PROVE  \/ parts'[<<u, p>>] = parts[<<u, p>>] \/ uploads'[u] = None
           \/ \E w \in Writers : PutPart(w) /\ writer[w].part[1] = u
<1> DEFINE q == <<u, p>>
<1>1. TablesType /\ RequestsType
  BY TypeParts DEF IndInv
<1>2. q \in Parts /\ q[1] = u
  BY DEF Parts
<1> HIDE DEF q
<1> SUFFICES ASSUME parts'[q] # parts[q], uploads'[u] # None
             PROVE  \E w \in Writers : PutPart(w) /\ writer[w].part[1] = u
  BY DEF q
<1>3. \A b \in Buckets : ~DeleteBucket(b)
  BY <1>1, <1>2 DEF DeleteBucket, TablesType
<1>4. ASSUME NEW v, DropUpload(v) PROVE FALSE
  BY <1>1, <1>2, <1>4 DEF DropUpload, TablesType
<1>5. ASSUME NEW w \in Writers, PutPart(w) PROVE writer[w].part[1] = u
  <2>1. parts' = [parts EXCEPT ![writer[w].part] = w]
    BY <1>5 DEF PutPart
  <2>2. writer[w].part = q
    BY <1>1, <1>2, <2>1 DEF TablesType
  <2> QED
    BY <1>2, <2>2
<1>6. TableStep \/ UNCHANGED tables =>
          \/ UNCHANGED parts \/ \E b \in Buckets : DeleteBucket(b)
          \/ \E v : DropUpload(v)
          \/ \E w \in Writers : PutPart(w)
  BY Zenon DEF TableStep, CreateBucket, CreateMultipartUpload, AbortMultipartUpload, PutObject,
     CompleteMultipartUpload, DeleteRow, tables
<1> QED
  BY <1>3, <1>4, <1>5, <1>6, OtherSteps, Zenon

\* What an undisturbed completion has listed stays as it is.
LEMMA ListingFrame ==
    ASSUME IndInv, SerialOK, Step, Observe, NEW x \in Completers, completer'[x] = completer[x]
    PROVE  ListingOK(x)'
<1> DEFINE r == completer[x]
<1>1. TablesType /\ RequestsType
  BY TypeParts DEF IndInv
<1>2. raced \subseteq raced' /\ (Races(x)' => r.loc \in raced')
  BY DEF Observe
<1>3. SUFFICES ASSUME r.pc \in {"chunks", "commit"}, r.loc \notin raced'
               PROVE  \A p \in PartNumbers : r.parts[p] # None => parts'[<<r.up, p>>] = parts[<<r.up, p>>]
  <2>1. ListingOK(x)
    BY DEF SerialOK
  <2>2. r' = r
    OBVIOUS
  <2>3. ListingOK(x)' <=>
          ((r'.pc \in {"chunks", "commit"} /\ r'.loc \notin raced') =>
             /\ \A p \in PartNumbers : r'.parts[p] # None => parts'[<<r'.up, p>>] = r'.parts[p]
             /\ \A p \in r'.left : r'.parts[p] # None
             /\ \A c \in ChunkIds : c \in Elements(r'.ids) <=>
                   \E p \in PartNumbers \ r'.left : r'.parts[p] = c[1])
    BY Zenon DEF ListingOK, Elements
  <2>4. (r.pc \in {"chunks", "commit"} /\ r.loc \notin raced) =>
             /\ \A p \in PartNumbers : r.parts[p] # None => parts[<<r.up, p>>] = r.parts[p]
             /\ \A p \in r.left : r.parts[p] # None
             /\ \A c \in ChunkIds : c \in Elements(r.ids) <=>
                   \E p \in PartNumbers \ r.left : r.parts[p] = c[1]
    BY <2>1 DEF ListingOK
  <2> HIDE DEF r
  <2>5. CASE r.pc \in {"chunks", "commit"} /\ r.loc \notin raced'
    BY <1>2, <2>2, <2>3, <2>4, <2>5
  <2> QED
    BY <2>2, <2>3, <2>5
<1>4. r.pc # "idle" /\ ~Races(x) /\ ~Races(x)'
  BY <1>2, <1>3 DEF SerialOK
<1>5. r.up \in UploadIds
  BY <1>1, <1>4 DEF IndInv, CompletersOK, CompleterOK, TablesType
<1>6. uploads'[r.up] # None
  BY <1>4 DEF Races
<1>7. ASSUME NEW w \in Writers, PutPart(w) PROVE writer[w].part[1] # r.up
  BY <1>4, <1>7 DEF Races, PutPart
<1> HIDE DEF r
<1> QED
  BY <1>5, <1>6, <1>7, PartsFrame

\* A completion reads the chunks of what it has listed.
LEMMA ListingStep ==
    ASSUME IndInv, SerialOK, Step, Observe, NEW x \in Completers, Complete(x)
    PROVE  ListingOK(x)'
<1>1. TablesType /\ RequestsType
  BY TypeParts DEF IndInv
<1>2. raced \subseteq raced'
  BY DEF Observe
<1>3. CompleterOK(x) /\ completer[x] \in CompleterRec
  BY <1>1 DEF IndInv, CompletersOK, RequestsType
<1>4. \A c \in ChunkIds : c[1] # None
  BY ChunkFacts, NoneAssumption
<1> DEFINE r == completer[x]
<1>5. ListingOK(x)' <=>
        ((r'.pc \in {"chunks", "commit"} /\ r'.loc \notin raced') =>
           /\ \A p \in PartNumbers : r'.parts[p] # None => parts'[<<r'.up, p>>] = r'.parts[p]
           /\ \A p \in r'.left : r'.parts[p] # None
           /\ \A c \in ChunkIds : c \in Elements(r'.ids) <=>
                 \E p \in PartNumbers \ r'.left : r'.parts[p] = c[1])
  BY Zenon DEF ListingOK, Elements
<1>6. CASE \E u \in UploadIds : StartComplete(x, u)
  <2>1. r'.pc = "list"
    BY <1>1, <1>6 DEF StartComplete, RequestsType, CompleterRec
  <2> QED
    BY <1>5, <2>1
<1>7. CASE CompleteMultipartUpload(x)
  <2>1. r'.pc = "idle"
    BY <1>1, <1>7 DEF CompleteMultipartUpload, RequestsType, NewCompleter
  <2> QED
    BY <1>5, <2>1
<1>8. CASE ListParts(x)
  <2> DEFINE u == completer[x].up
             L == Listed(u)
             f == [p \in PartNumbers |-> IF p \in L THEN parts[<<u, p>>] ELSE None]
  <2>1. \/ completer' = [completer EXCEPT ![x] = NewCompleter]
        \/ completer' = [completer EXCEPT ![x] = [completer[x] EXCEPT
                            !.pc = "chunks", !.parts = f, !.left = L]]
    BY <1>8 DEF ListParts
  <2>2. CASE completer' = [completer EXCEPT ![x] = NewCompleter]
    <3>1. r'.pc = "idle"
      BY <1>1, <2>2 DEF RequestsType, NewCompleter
    <3> QED
      BY <1>5, <3>1
  <2>3. CASE completer' = [completer EXCEPT ![x] = [completer[x] EXCEPT
                              !.pc = "chunks", !.parts = f, !.left = L]]
    <3>1. \A p \in L : p \in PartNumbers /\ parts[<<u, p>>] # None
      BY DEF Listed
    <3>2. \A p \in PartNumbers : f[p] = IF p \in L THEN parts[<<u, p>>] ELSE None
      OBVIOUS
    <3>3. r.ids = <<>> /\ parts' = parts
      BY <1>3, <1>8 DEF ListParts, CompleterOK, tables
    <3> HIDE DEF f, L, u
    <3>4. completer'[x] = [completer[x] EXCEPT !.pc = "chunks", !.parts = f, !.left = L]
      BY <1>1, <2>3 DEF RequestsType
    <3>5. /\ completer'[x].parts = f /\ completer'[x].left = L /\ completer'[x].ids = completer[x].ids
          /\ completer'[x].up = completer[x].up
      BY <1>3, <3>4 DEF CompleterRec
    <3>6. r'.parts = f /\ r'.left = L /\ r'.up = u /\ r'.ids = <<>>
      BY <3>3, <3>5 DEF u
    <3>7. Elements(r'.ids) = {}
      BY <3>6 DEF Elements
    <3> HIDE DEF r
    <3>8. \A p \in PartNumbers : f[p] # None => parts'[<<u, p>>] = f[p]
      BY <3>2, <3>3
    <3>9. \A p \in L : f[p] # None
      BY <3>1, <3>2
    <3>10. \A c \in ChunkIds : ~ \E p \in PartNumbers \ L : f[p] = c[1]
      BY <1>4, <3>2
    <3> QED
      BY <1>5, <3>6, <3>7, <3>8, <3>9, <3>10
  <2> QED
    BY <2>1, <2>2, <2>3
<1>9. ASSUME NEW p \in PartNumbers, GetPartChunks(x, p) PROVE ListingOK(x)'
  <2> DEFINE u == completer[x].up
             ids == completer[x].ids
             left == completer[x].left
  <2>1. PICK s \in InOrder(PartChunks(<<u, p>>)) :
           completer' = [completer EXCEPT ![x].ids = @ \o s, ![x].left = @ \ {p},
                             ![x].pc = IF left = {p} THEN "commit" ELSE "chunks"]
    BY <1>9 DEF GetPartChunks
  <2>2. s \in Seq(ChunkIds) /\ Elements(s) = PartChunks(<<u, p>>)
    BY OrderedRows DEF PartChunks
  <2>3. r.pc = "chunks" /\ p \in left /\ parts' = parts
    BY <1>9 DEF GetPartChunks, tables
  <2>4. ids \in Seq(ChunkIds) /\ u \in UploadIds
    BY <1>1, <1>3, <2>3 DEF CompleterRec, CompleterOK, TablesType
  <2>5. PICK st : completer'[x] = [completer[x] EXCEPT !.ids = ids \o s, !.left = left \ {p}, !.pc = st]
    BY <1>1, <2>1 DEF RequestsType
  <2>6. Elements(ids \o s) = Elements(ids) \cup PartChunks(<<u, p>>)
    BY <2>2, <2>4, Concatenation
  <2>7. \A c \in ChunkIds : c \in PartChunks(<<u, p>>) <=> parts[<<u, p>>] = c[1]
    <3>1. <<u, p>> \in Parts
      BY <2>4 DEF Parts
    <3> QED
      BY <3>1 DEF PartChunks, IndInv, RowsOK, ChunkRowOK
  <2>8. (r.pc \in {"chunks", "commit"} /\ r.loc \notin raced) =>
             /\ \A q \in PartNumbers : r.parts[q] # None => parts[<<u, q>>] = r.parts[q]
             /\ \A q \in left : r.parts[q] # None
             /\ \A c \in ChunkIds : c \in Elements(ids) <=>
                   \E q \in PartNumbers \ left : r.parts[q] = c[1]
    BY DEF SerialOK, ListingOK
  <2> HIDE DEF u, ids, left
  <2>9. /\ completer'[x].ids = ids \o s /\ completer'[x].left = left \ {p}
        /\ completer'[x].up = completer[x].up /\ completer'[x].loc = completer[x].loc
        /\ completer'[x].parts = completer[x].parts
    BY <1>3, <2>5 DEF CompleterRec
  <2>10. /\ r'.ids = ids \o s /\ r'.left = left \ {p} /\ r'.up = u
         /\ r'.loc = r.loc /\ r'.parts = r.parts
    BY <2>9 DEF u
  <2> HIDE DEF r
  <2>11. CASE r.loc \notin raced'
    <3>1. r.parts[p] # None /\ parts[<<u, p>>] = r.parts[p]
      BY <1>2, <2>3, <2>8, <2>11
    <3>2. \A c \in ChunkIds : c \in Elements(ids \o s) <=>
                \E q \in PartNumbers \ (left \ {p}) : r.parts[q] = c[1]
      <4> SUFFICES ASSUME NEW c \in ChunkIds
                   PROVE  c \in Elements(ids \o s) <=>
                              \E q \in PartNumbers \ (left \ {p}) : r.parts[q] = c[1]
        OBVIOUS
      <4>1. c \in Elements(ids \o s) <=> c \in Elements(ids) \/ r.parts[p] = c[1]
        BY <2>6, <2>7, <3>1
      <4>2. c \in Elements(ids) <=> \E q \in PartNumbers \ left : r.parts[q] = c[1]
        BY <1>2, <2>3, <2>8, <2>11
      <4>3. (\E q \in PartNumbers \ (left \ {p}) : r.parts[q] = c[1]) <=>
                (\E q \in PartNumbers \ left : r.parts[q] = c[1]) \/ r.parts[p] = c[1]
        BY <1>9
      <4> QED
        BY <4>1, <4>2, <4>3
    <3> QED
      BY <1>2, <1>5, <2>3, <2>8, <2>10, <2>11, <3>2
  <2>12. CASE r.loc \in raced'
    BY <1>5, <2>10, <2>12
  <2> QED
    BY <2>11, <2>12
<1> QED
  BY <1>6, <1>7, <1>8, <1>9, Zenon DEF Complete

\* A completion that nobody disturbs makes an object of exactly its parts.
LEMMA SerialStep == IndInv /\ SerialOK /\ Next => SerialOK'
<1> SUFFICES ASSUME IndInv, SerialOK, Step, Observe PROVE SerialOK'
  BY DEF Next
<1>1. TablesType /\ RequestsType
  BY TypeParts DEF IndInv
<1>2. raced \subseteq raced' /\ \A x \in Completers : Races(x)' => completer'[x].loc \in raced'
  BY DEF Observe
<1>3. ASSUME NEW x \in Completers PROVE ListingOK(x)'
  <2>1. CASE Crash
    <3>1. completer'[x].pc = "idle"
      BY <2>1 DEF Crash, NewCompleter
    <3> QED
      BY <3>1 DEF ListingOK
  <2>2. UNCHANGED completer => completer'[x] = completer[x]
    OBVIOUS
  <2> QED
    BY <2>1, <2>2, CompleterAlone, ListingFrame, ListingStep, OtherLocals, Zenon
<1>4. ASSUME NEW l \in Locations, l \notin raced', NEW f \in PartRows, objects'[l] = PartsETag(f),
             NEW c \in ChunkIds
      PROVE  objOf'[c] = l <=> \E p \in PartNumbers : f[p] = c[1]
  <2>1. l \notin raced
    BY <1>2, <1>4
  <2>2. CASE Untouched(l)
    <3>1. objects[l] = PartsETag(f) /\ (objOf'[c] = l <=> objOf[c] = l)
      BY <1>4, <2>2 DEF Untouched
    <3>2. WholeAt(l)
      BY <2>1 DEF SerialOK, SerialIsWhole
    <3>3. ObjectChunks(l) = {d \in ChunkIds : \E p \in PartNumbers : f[p] = d[1]}
      BY <3>1, <3>2, Zenon DEF WholeAt
    <3> QED
      BY <3>1, <3>3 DEF ObjectChunks
  <2>3. ASSUME NEW x \in Completers, CompleteMultipartUpload(x), completer[x].loc = l
        PROVE  objOf'[c] = l <=> \E p \in PartNumbers : f[p] = c[1]
    <3> DEFINE r == completer[x]
    <3>1. /\ objects'[l] = PartsETag(r.parts) /\ r.parts \in PartRows
          /\ objOf'[c] = l <=> c \in Elements(r.ids) /\ partOf[c] # None
      BY <2>3, AssembledRows
    <3>2. f = r.parts
      BY <1>4, <3>1, ETagFacts
    <3>3. r.pc = "commit" /\ r.left = {} /\ r.up \in UploadIds
      BY <1>1, <2>3 DEF CompleteMultipartUpload, IndInv, CompletersOK, CompleterOK, TablesType
    <3>4. /\ \A p \in PartNumbers : r.parts[p] # None => parts[<<r.up, p>>] = r.parts[p]
          /\ c \in Elements(r.ids) <=> \E p \in PartNumbers \ r.left : r.parts[p] = c[1]
      BY <2>1, <2>3, <3>3 DEF SerialOK, ListingOK
    <3>5. \A p \in PartNumbers : parts[<<r.up, p>>] = c[1] => partOf[c] # None
      <4> SUFFICES ASSUME NEW p \in PartNumbers, parts[<<r.up, p>>] = c[1] PROVE partOf[c] # None
        OBVIOUS
      <4>1. <<r.up, p>> \in Parts /\ <<r.up, p>> # None
        BY <3>3, NoneAssumption DEF Parts
      <4>2. partOf[c] = <<r.up, p>>
        BY <4>1 DEF IndInv, RowsOK, ChunkRowOK
      <4> QED
        BY <4>1, <4>2
    <3>6. c[1] # None
      BY ChunkFacts, NoneAssumption
    <3> HIDE DEF r
    <3> QED
      BY <3>1, <3>2, <3>3, <3>4, <3>5, <3>6
  <2>4. ~Overwritten(l)
    BY <1>4, PutRows, ETagFacts DEF Overwritten
  <2>5. ~Gone(l)
    BY <1>4, ETagFacts DEF Gone
  <2> QED
    BY <2>2, <2>3, <2>4, <2>5, KeyFrame DEF Assembled
<1>5. SerialIsWhole'
  <2> SUFFICES ASSUME NEW l \in Locations, l \notin raced', NEW f \in PartRows, objects'[l] = PartsETag(f)
               PROVE  ObjectChunks(l)' = {c \in ChunkIds : \E p \in PartNumbers : f[p] = c[1]}
    BY DEF SerialIsWhole, WholeAt
  <2>1. \A c \in ChunkIds : objOf'[c] = l <=> \E p \in PartNumbers : f[p] = c[1]
    BY <1>4
  <2>2. ObjectChunks(l)' = {c \in ChunkIds : objOf'[c] = l}
    BY DEF ObjectChunks
  <2> QED
    BY <2>1, <2>2
<1> QED
  BY <1>2, <1>3, <1>5 DEF SerialOK

-----------------------------------------------------------------------------
(***************************************************************************)
(* The theorems.                                                           *)
(***************************************************************************)
\* Every step of every request preserves the invariant.
LEMMA NextInv == IndInv /\ [Next]_vars => IndInv'
<1> SUFFICES ASSUME IndInv, [Next]_vars PROVE IndInv'
  OBVIOUS
<1>1. CASE Next
  <2>1. Step /\ Observe
    BY <1>1 DEF Next
  <2>2. TablesType' /\ RequestsType' /\ CompletersOK'
    BY <2>1, TypeTables, TypeRequests, CompletersStep
  <2>3. raced' \subseteq Locations
    <3>1. raced \subseteq Locations
      BY TypeParts DEF IndInv
    <3>2. \A x \in Completers : Races(x)' => completer'[x].loc \in Locations
      <4> SUFFICES ASSUME NEW x \in Completers, completer'[x].pc # "idle"
                   PROVE  completer'[x].loc \in Locations
        BY DEF Races
      <4>1. completer'[x].loc \in Locations \cup {None}
        BY <2>2 DEF RequestsType, CompleterRec
      <4>2. completer'[x].loc # None
        BY <2>2 DEF CompletersOK, CompleterOK
      <4> QED
        BY <4>1, <4>2
    <3> QED
      BY <2>1, <3>1, <3>2 DEF Observe
  <2>4. TypeOK'
    <3>1. TypeOK' <=> TablesType' /\ RequestsType' /\ raced' \subseteq Locations
      BY Zenon DEF TypeOK, TablesType, RequestsType, WriterRec, CompleterRec, ReaderRec, DeleterRec
    <3> QED
      BY <2>2, <2>3, <3>1
  <2> QED
    BY <2>1, <2>2, <2>4, RowsStep, WritersStep, ObjectsStep, OrdinalsStep, TogetherStep,
       DeletersStep, BlobsStep, ReadersStep DEF IndInv
<1>2. CASE UNCHANGED vars
  <2>1. /\ buckets' = buckets /\ objects' = objects /\ uploads' = uploads /\ created' = created
        /\ parts' = parts /\ objOf' = objOf /\ partOf' = partOf /\ ord' = ord /\ blob' = blob
        /\ writer' = writer /\ completer' = completer /\ reader' = reader /\ deleter' = deleter
        /\ condemned' = condemned /\ raced' = raced
    BY <1>2 DEF vars
  <2>2. TypeOK' /\ BlobsOK' /\ WritersOK'
    BY <2>1 DEF IndInv, TypeOK, BlobsOK, WritersOK
  <2>3. RowsOK'
    BY <2>1 DEF IndInv, RowsOK, BucketRowsOK, PartRowsOK, ChunkRowOK, HasRow
  <2>4. CompletersOK'
    <3>1. \A x \in Completers : CompleterOK(x)' <=> CompleterOK(x)
      BY <2>1 DEF CompleterOK, Before, Elements
    <3> QED
      BY <3>1 DEF IndInv, CompletersOK
  <2>5. ObjectsOK' /\ OrdinalsFollowData' /\ ChunksTogether'
    BY <2>1 DEF IndInv, ObjectsOK, OrdinalsFollowData, Before, ChunksTogether
  <2>6. DeletersOK' /\ ReadersOK'
    <3>1. \A d \in Deleters : DeleterOK(d)' <=> DeleterOK(d)
      BY <2>1 DEF DeleterOK, Elements
    <3>2. ReadersOK' <=> ReadersOK
      BY <2>1 DEF ReadersOK
    <3> QED
      BY <3>1, <3>2 DEF IndInv, DeletersOK
  <2> QED
    BY <2>2, <2>3, <2>4, <2>5, <2>6 DEF IndInv
<1> QED
  BY <1>1, <1>2

LEMMA NextSerial == IndInv /\ SerialOK /\ [Next]_vars => SerialOK'
<1>1. IndInv /\ SerialOK /\ UNCHANGED vars => SerialOK'
  <2> SUFFICES ASSUME SerialOK, UNCHANGED vars PROVE SerialOK'
    OBVIOUS
  <2>1. /\ objects' = objects /\ uploads' = uploads /\ parts' = parts /\ objOf' = objOf
        /\ writer' = writer /\ completer' = completer /\ raced' = raced
    BY DEF vars
  <2>2. \A x \in Completers : (Races(x)' <=> Races(x)) /\ (ListingOK(x)' <=> ListingOK(x))
    BY <2>1, ZenonT(40) DEF Races, ListingOK
  <2>3. SerialIsWhole'
    BY <2>1 DEF SerialOK, SerialIsWhole, WholeAt, ObjectChunks
  <2> QED
    BY <2>1, <2>2, <2>3 DEF SerialOK
<1> QED
  BY <1>1, SerialStep

\* The inductive invariant holds of every state of ObjectStore's specification.
THEOREM Invariance == Spec => [](IndInv /\ SerialOK)
<1>1. IndInv /\ SerialOK /\ [Next]_vars => (IndInv /\ SerialOK)'
  BY NextInv, NextSerial
<1> QED
  BY InitInv, <1>1, PTL DEF Spec

\* The tables' columns and the requests' locals keep their types (TypeOK).
THEOREM Types == Spec => []TypeOK
BY Invariance, PTL DEF IndInv

\* No statement or cascade of metadata leaves a row that refers to a missing one,
\* nor a chunk that belongs to an object and to a part.
THEOREM ReferencesAlways == Spec => []References
<1>1. ASSUME IndInv, NEW c \in ChunkIds, partOf[c] # None
      PROVE  parts[partOf[c]] # None
  <2>1. partOf[c] \in Parts /\ ChunkRowOK(c) /\ c[1] \in Writers
    BY <1>1, ChunkFacts DEF IndInv, RowsOK, TypeOK
  <2>2. parts[partOf[c]] = c[1]
    BY <2>1 DEF ChunkRowOK
  <2> QED
    BY <2>1, <2>2, NoneAssumption
<1>2. ASSUME IndInv PROVE References
  BY <1>1, <1>2 DEF IndInv, RowsOK, BucketRowsOK, PartRowsOK, ChunkRowOK, References
<1> QED
  BY Invariance, <1>2, PTL

\* Whatever requests race, a chunk is attached only to the location and the part
\* that the request which uploaded it named.
THEOREM IsolationAlways == Spec => []Isolation
<1>1. IndInv => Isolation
  BY DEF IndInv, RowsOK, ChunkRowOK, Isolation
<1> QED
  BY Invariance, <1>1, PTL

\* The chunks of a body stay together, whichever of upserts, aborts, completions
\* and deletions interleave.
THEOREM ChunksTogetherAlways == Spec => []ChunksTogether
BY Invariance, PTL DEF IndInv

\* The ordinals of an object's chunks are distinct and follow the data.
THEOREM OrdinalsFollowDataAlways == Spec => []OrdinalsFollowData
BY Invariance, PTL DEF IndInv

\* No request destroys the shards of a chunk row, unless a DeleteObject of its key
\* was asked for.
THEOREM UndeletedIsIntactAlways == Spec => []UndeletedIsIntact
<1>1. IndInv => UndeletedIsIntact
  BY DEF IndInv, RowsOK, ChunkRowOK, HasRow, BlobsOK, UndeletedIsIntact
<1> QED
  BY Invariance, <1>1, PTL

\* DeleteObject comes to the row only when all shards it was told of are gone.
THEOREM ShardsGoBeforeRowAlways == Spec => []ShardsGoBeforeRow
<1>1. IndInv => ShardsGoBeforeRow
  <2> SUFFICES ASSUME IndInv, NEW d \in Deleters, deleter[d].pc = "destroy",
                      deleter[d].pos > Len(deleter[d].ids), NEW c \in deleter[d].got
               PROVE  blob[c] = "none"
    BY DEF ShardsGoBeforeRow
  <2> DEFINE r == deleter[d]
  <2>1. DeleterOK(d) /\ r \in DeleterRec
    BY TypeParts DEF IndInv, DeletersOK, RequestsType
  <2>2. /\ r.got \subseteq Elements(r.ids) /\ r.ids \in Seq(ChunkIds) /\ r.pos \in Nat
        /\ \A i \in DOMAIN r.ids : i < r.pos /\ r.ids[i] \in r.got => blob[r.ids[i]] = "none"
    BY <2>1 DEF DeleterOK, DeleterRec
  <2> HIDE DEF r
  <2>3. r.pos > Len(r.ids) /\ c \in r.got
    BY DEF r
  <2>4. PICK i \in DOMAIN r.ids : r.ids[i] = c
    BY <2>2, <2>3 DEF Elements
  <2>5. i < r.pos
    BY <2>2, <2>3, <2>4
  <2> QED
    BY <2>2, <2>3, <2>4, <2>5
<1> QED
  BY Invariance, <1>1, PTL

\* The chunk list that a GetObject serves is that of one version of the object.
THEOREM ReadIsOneVersionAlways == Spec => []ReadIsOneVersion
<1>1. IndInv => ReadIsOneVersion
  BY DEF IndInv, ReadersOK, ReadIsOneVersion
<1> QED
  BY Invariance, <1>1, PTL

\* An upload whose calls do not overlap completes to exactly the parts that its
\* ETag and size were computed from.
THEOREM SerialIsWholeAlways == Spec => []SerialIsWhole
BY Invariance, PTL DEF SerialOK

\* What a transaction does to a chunk row.
LEMMA ChunkRowStep ==
    ASSUME IndInv, Step, NEW c \in ChunkIds
    PROVE  /\ objOf[c] # None => objOf'[c] \in {objOf[c], None} /\ partOf'[c] = None
           /\ (partOf[c] # None /\ partOf'[c] # partOf[c]) => partOf'[c] = None
           /\ (~HasRow(c) /\ HasRow(c)') => writer[c[1]].pc = "commit" /\ writer'[c[1]].pc = "ok"
<1>1. TablesType /\ RequestsType
  BY TypeParts DEF IndInv
<1>2. ChunkRowOK(c) /\ c[1] \in Writers
  BY ChunkFacts DEF IndInv, RowsOK
<1> DEFINE Goal == /\ objOf[c] # None => objOf'[c] \in {objOf[c], None} /\ partOf'[c] = None
                   /\ (partOf[c] # None /\ partOf'[c] # partOf[c]) => partOf'[c] = None
                   /\ (~HasRow(c) /\ HasRow(c)') => writer[c[1]].pc = "commit" /\ writer'[c[1]].pc = "ok"
<1>3. ASSUME objOf'[c] \in {objOf[c], None}, partOf'[c] \in {partOf[c], None} PROVE Goal
  BY <1>2, <1>3 DEF ChunkRowOK, HasRow
<1>4. CASE UNCHANGED <<objOf, partOf>>
  BY <1>3, <1>4
<1>5. CASE \E b \in Buckets : DeleteBucket(b)
  BY <1>3, <1>5 DEF DeleteBucket
<1>6. CASE \E u \in UploadIds : AbortMultipartUpload(u)
  BY <1>3, <1>6 DEF AbortMultipartUpload
<1>7. CASE \E d \in Deleters : DeleteRow(d)
  BY <1>3, <1>7 DEF DeleteRow
<1>8. ASSUME NEW v \in Writers, PutObject(v) PROVE Goal
  <2>1. CASE c[1] = v
    <3>1. writer[v].pc = "commit" /\ writer'[v].pc = "ok" /\ partOf' = partOf
      BY <1>1, <1>8 DEF PutObject, RequestsType, WriterRec
    <3> QED
      BY <1>2, <2>1, <3>1 DEF ChunkRowOK, HasRow
  <2>2. CASE c[1] # v
    BY <1>3, <1>8, <2>2 DEF PutObject
  <2> QED
    BY <2>1, <2>2
<1>9. ASSUME NEW v \in Writers, PutPart(v) PROVE Goal
  <2>1. CASE c[1] = v
    <3>1. writer[v].pc = "commit" /\ writer'[v].pc = "ok" /\ objOf' = objOf
      BY <1>1, <1>9 DEF PutPart, RequestsType, WriterRec
    <3> QED
      BY <1>2, <2>1, <3>1 DEF ChunkRowOK, HasRow
  <2>2. CASE c[1] # v
    BY <1>3, <1>9, <2>2 DEF PutPart
  <2> QED
    BY <2>1, <2>2
<1>10. ASSUME NEW x \in Completers, CompleteMultipartUpload(x) PROVE Goal
  <2> DEFINE l == completer[x].loc
             moved == {e \in Elements(completer[x].ids) : partOf[e] # None}
  <2>1. /\ objOf'[c] = IF c \in moved THEN l ELSE IF objOf[c] = l THEN None ELSE objOf[c]
        /\ partOf'[c] \in {partOf[c], None}
        /\ c \in moved => objOf[c] = None
    BY <1>10, MovedRows
  <2>2. CASE c \in moved
    <3>1. partOf[c] # None /\ objOf[c] = None
      BY <2>1, <2>2
    <3> QED
      BY <2>1, <3>1 DEF HasRow
  <2>3. CASE c \notin moved
    <3>1. objOf'[c] \in {objOf[c], None}
      BY <2>1, <2>3
    <3> QED
      BY <1>3, <2>1, <3>1
  <2> QED
    BY <2>2, <2>3
<1>11. TableStep \/ UNCHANGED tables =>
          \/ UNCHANGED <<objOf, partOf>> \/ \E b \in Buckets : DeleteBucket(b)
          \/ \E u \in UploadIds : AbortMultipartUpload(u)
          \/ \E v \in Writers : PutObject(v) \/ PutPart(v)
          \/ \E x \in Completers : CompleteMultipartUpload(x)
          \/ \E d \in Deleters : DeleteRow(d)
  BY Zenon DEF TableStep, CreateBucket, CreateMultipartUpload, tables
<1> QED
  BY <1>4, <1>5, <1>6, <1>7, <1>8, <1>9, <1>10, <1>11, OtherSteps, Zenon

\* A chunk row only ever moves forward, and only its own request makes it.
THEOREM RowsMoveForward == Spec => ChunkRowsMoveForward
<1>1. IndInv /\ [Next]_vars =>
        [\A c \in ChunkIds :
            /\ objOf[c] # None => objOf'[c] \in {objOf[c], None} /\ partOf'[c] = None
            /\ (partOf[c] # None /\ partOf'[c] # partOf[c]) => partOf'[c] = None
            /\ (~HasRow(c) /\ HasRow(c)') => writer[c[1]].pc = "commit" /\ writer'[c[1]].pc = "ok"]_vars
  BY ChunkRowStep DEF Next
<1> QED
  BY Invariance, <1>1, PTL DEF Spec, ChunkRowsMoveForward

\* ByOrdinal for any column o: an object's rows, each at its rank among the rows.
Smaller(S, o, c) == {d \in S : o[d] < o[c]}
Rank(S, o, c) == Cardinality(Smaller(S, o, c))
Sorted(S, o) == [i \in 1 .. Cardinality(S) |-> CHOOSE c \in S : Rank(S, o, c) = i - 1]
Distinct(S, o) == /\ IsFiniteSet(S)
                  /\ \A c \in S : o[c] \in Nat
                  /\ \A c, d \in S : o[c] = o[d] => c = d

\* Ranks are below the number of rows and grow with the ordinals.
LEMMA RankFacts ==
    ASSUME NEW S, NEW o, Distinct(S, o)
    PROVE  /\ Cardinality(S) \in Nat
           /\ \A c \in S : Rank(S, o, c) \in Nat /\ Rank(S, o, c) < Cardinality(S)
           /\ \A c, d \in S : o[c] < o[d] <=> Rank(S, o, c) < Rank(S, o, d)
           /\ \A c, d \in S : Rank(S, o, c) = Rank(S, o, d) => c = d
<1>1. /\ IsFiniteSet(S) /\ \A c \in S : o[c] \in Nat
      /\ \A c, d \in S : o[c] = o[d] => c = d
  BY DEF Distinct
<1>2. Cardinality(S) \in Nat
  BY <1>1, FS_CardinalityType
<1>3. ASSUME NEW c \in S PROVE /\ IsFiniteSet(Smaller(S, o, c))
                               /\ Rank(S, o, c) \in Nat /\ Rank(S, o, c) < Cardinality(S)
  <2>1. Smaller(S, o, c) \in SUBSET S
    BY DEF Smaller
  <2>2. c \in S /\ c \notin Smaller(S, o, c)
    BY <1>1 DEF Smaller
  <2>3. Smaller(S, o, c) # S
    BY <2>2
  <2>4. IsFiniteSet(Smaller(S, o, c)) /\ Rank(S, o, c) <= Cardinality(S) /\ Rank(S, o, c) # Cardinality(S)
    BY <1>1, <2>1, <2>3, FS_Subset DEF Rank
  <2>5. Rank(S, o, c) \in Nat
    BY <2>4, FS_CardinalityType DEF Rank
  <2> QED
    BY <1>2, <2>4, <2>5
<1>4. ASSUME NEW c \in S, NEW d \in S, o[c] < o[d] PROVE Rank(S, o, c) < Rank(S, o, d)
  <2>1. o[c] \in Nat /\ o[d] \in Nat
    BY <1>1
  <2>2. Smaller(S, o, c) \in SUBSET Smaller(S, o, d)
    BY <1>1, <1>4, <2>1 DEF Smaller
  <2>3. c \in Smaller(S, o, d) /\ c \notin Smaller(S, o, c)
    BY <1>4, <2>1 DEF Smaller
  <2>4. Smaller(S, o, c) # Smaller(S, o, d)
    BY <2>3
  <2>5. Rank(S, o, c) <= Rank(S, o, d) /\ Rank(S, o, c) # Rank(S, o, d)
    BY <1>3, <2>2, <2>4, FS_Subset DEF Rank
  <2> QED
    BY <1>3, <2>5
<1>5. ASSUME NEW c \in S, NEW d \in S
      PROVE  /\ o[c] < o[d] <=> Rank(S, o, c) < Rank(S, o, d)
             /\ Rank(S, o, c) = Rank(S, o, d) => c = d
  <2>1. o[c] < o[d] \/ o[d] < o[c] \/ c = d
    BY <1>1
  <2>2. o[c] \in Nat /\ o[d] \in Nat /\ Rank(S, o, c) \in Nat /\ Rank(S, o, d) \in Nat
    BY <1>1, <1>3
  <2>3. CASE o[c] < o[d]
    BY <1>4, <2>2, <2>3
  <2>4. CASE o[d] < o[c]
    BY <1>4, <2>2, <2>4
  <2>5. CASE c = d
    BY <2>2, <2>5
  <2> QED
    BY <2>1, <2>3, <2>4, <2>5
<1> QED
  BY <1>2, <1>3, <1>5

\* Every rank is taken, so that the list has all rows, by ordinal.
LEMMA SortedFacts ==
    ASSUME NEW S, NEW o, Distinct(S, o)
    PROVE  /\ Cardinality(S) \in Nat
           /\ Sorted(S, o) \in [1 .. Cardinality(S) -> S]
           /\ \A i \in 1 .. Cardinality(S) : Rank(S, o, Sorted(S, o)[i]) = i - 1
           /\ \A i, j \in 1 .. Cardinality(S) : i < j <=> o[Sorted(S, o)[i]] < o[Sorted(S, o)[j]]
           /\ \A c \in S : \E i \in 1 .. Cardinality(S) : Sorted(S, o)[i] = c
<1> DEFINE n == Cardinality(S)
           s == Sorted(S, o)
           rank == [c \in S |-> Rank(S, o, c)]
<1>1. /\ n \in Nat
      /\ \A c \in S : Rank(S, o, c) \in Nat /\ Rank(S, o, c) < n
      /\ \A c, d \in S : o[c] < o[d] <=> Rank(S, o, c) < Rank(S, o, d)
      /\ \A c, d \in S : Rank(S, o, c) = Rank(S, o, d) => c = d
  BY RankFacts
<1> HIDE DEF n
<1>2. IsFiniteSet(0 .. n - 1) /\ Cardinality(0 .. n - 1) = n
  BY <1>1, FS_Interval, SMTT(40)
<1>3. rank \in Injection(S, 0 .. n - 1)
  <2>1. rank \in [S -> 0 .. n - 1]
    BY <1>1
  <2>2. \A c, d \in S : rank[c] = rank[d] => c = d
    BY <1>1
  <2> QED
    BY <2>1, <2>2 DEF Injection, IsInjective
<1>4. rank \in Surjection(S, 0 .. n - 1)
  BY <1>2, <1>3, FS_Injection DEF n
<1>5. ASSUME NEW i \in 1 .. n PROVE s[i] \in S /\ Rank(S, o, s[i]) = i - 1
  <2>1. i - 1 \in 0 .. n - 1
    BY <1>1
  <2>2. \E c \in S : rank[c] = i - 1
    BY <1>4, <2>1 DEF Surjection
  <2>3. \E c \in S : Rank(S, o, c) = i - 1
    BY <2>2
  <2>4. s[i] = CHOOSE c \in S : Rank(S, o, c) = i - 1
    BY DEF Sorted, n
  <2> HIDE DEF s
  <2> QED
    BY <2>3, <2>4
<1>6. s = [i \in 1 .. n |-> s[i]]
  BY DEF Sorted, n
<1> HIDE DEF s
<1>7. s \in [1 .. n -> S]
  BY <1>5, <1>6
<1>8. \A i, j \in 1 .. n : i < j <=> o[s[i]] < o[s[j]]
  <2> SUFFICES ASSUME NEW i \in 1 .. n, NEW j \in 1 .. n PROVE i < j <=> o[s[i]] < o[s[j]]
    OBVIOUS
  <2>1. o[s[i]] < o[s[j]] <=> Rank(S, o, s[i]) < Rank(S, o, s[j])
    BY <1>1, <1>5
  <2>2. Rank(S, o, s[i]) = i - 1 /\ Rank(S, o, s[j]) = j - 1 /\ i \in Int /\ j \in Int
    BY <1>5
  <2> QED
    BY <2>1, <2>2
<1>9. ASSUME NEW c \in S PROVE \E i \in 1 .. n : s[i] = c
  <2>1. Rank(S, o, c) + 1 \in 1 .. n /\ (Rank(S, o, c) + 1) - 1 = Rank(S, o, c)
    BY <1>1
  <2>2. s[Rank(S, o, c) + 1] \in S /\ Rank(S, o, s[Rank(S, o, c) + 1]) = Rank(S, o, c)
    BY <1>5, <2>1
  <2> QED
    BY <1>1, <2>1, <2>2
<1> QED
  BY <1>1, <1>5, <1>7, <1>8, <1>9 DEF s, n

\* The list depends on nothing but the ordinals of its rows.
LEMMA SortedKept ==
    ASSUME NEW S, NEW o, NEW p, Distinct(S, o), \A c \in S : p[c] = o[c]
    PROVE  Sorted(S, p) = Sorted(S, o)
<1> DEFINE n == Cardinality(S)
           s == Sorted(S, o)
           t == Sorted(S, p)
<1>1. Distinct(S, p)
  BY DEF Distinct
<1>2. \A c \in S : Rank(S, p, c) = Rank(S, o, c)
  <2> SUFFICES ASSUME NEW c \in S PROVE Smaller(S, p, c) = Smaller(S, o, c)
    BY DEF Rank
  <2>1. \A d \in S : p[d] < p[c] <=> o[d] < o[c]
    OBVIOUS
  <2>2. Smaller(S, p, c) \subseteq Smaller(S, o, c) /\ Smaller(S, o, c) \subseteq Smaller(S, p, c)
    BY <2>1, Zenon DEF Smaller
  <2> QED
    BY <2>2, Zenon
<1>3. /\ s \in [1 .. n -> S] /\ \A i \in 1 .. n : Rank(S, o, s[i]) = i - 1
  BY SortedFacts
<1>4. /\ t \in [1 .. n -> S] /\ \A i \in 1 .. n : Rank(S, p, t[i]) = i - 1
  BY <1>1, SortedFacts
<1>5. \A c, d \in S : Rank(S, o, c) = Rank(S, o, d) => c = d
  BY RankFacts
<1> HIDE DEF s, t, n
<1>6. \A i \in 1 .. n : t[i] = s[i]
  BY <1>2, <1>3, <1>4, <1>5
<1>7. s = [i \in 1 .. n |-> s[i]] /\ t = [i \in 1 .. n |-> t[i]]
  BY <1>3, <1>4
<1>8. t = s
  BY <1>6, <1>7
<1> QED
  BY <1>8 DEF s, t

\* The rows of a body whose ordinals are the places in the body are the body.
LEMMA SortedBody ==
    ASSUME NEW w \in Writers, NEW o, \A c \in ChunksOf(w) : o[c] = c[2] - 1
    PROVE  Sorted(ChunksOf(w), o) = [j \in 1 .. ChunkCount[w] |-> <<w, j>>]
<1> DEFINE n == ChunkCount[w]
           S == ChunksOf(w)
           s == Sorted(S, o)
           B == [j \in 1 .. n |-> <<w, j>>]
<1>1. n \in Nat
  BY ChunkCountAssumption
<1>2. S = {w} \X (1 .. n)
  BY DEF ChunksOf
<1>3. Cardinality(S) = n /\ IsFiniteSet(S)
  BY BodySize
<1> HIDE DEF n, S
<1>4. Distinct(S, o)
  <2>1. \A c \in S : o[c] = c[2] - 1 /\ c = <<w, c[2]>> /\ c[2] \in 1 .. n
    BY <1>2 DEF S
  <2> QED
    BY <1>3, <2>1 DEF Distinct
<1>5. s \in [1 .. n -> S] /\ \A i, j \in 1 .. n : i < j => o[s[i]] < o[s[j]]
  BY <1>3, <1>4, SortedFacts
<1> HIDE DEF s
<1> DEFINE f == [i \in 1 .. n |-> s[i][2]]
<1>6. \A i \in 1 .. n : s[i] = <<w, f[i]>> /\ f[i] \in 1 .. n /\ o[s[i]] = f[i] - 1
  BY <1>2, <1>5 DEF S
<1>7. s = [i \in 1 .. n |-> s[i]]
  BY <1>5
<1> HIDE DEF f
<1>8. \A i, j \in 1 .. n : i < j => f[i] < f[j]
  BY <1>5, <1>6
<1>9. \A i \in 1 .. n : f[i] = i
  BY <1>1, <1>6, <1>8, IncreasingIsIdentity
<1>10. \A i \in 1 .. n : s[i] = <<w, i>>
  BY <1>6, <1>9
<1>11. s = B
  BY <1>7, <1>10
<1> QED
  BY <1>11 DEF n, s, S

\* Rows whose ordinals follow the data are a list of whole bodies.
LEMMA SortedIsWhole ==
    ASSUME NEW S \in SUBSET ChunkIds, NEW o, NEW pn, Distinct(S, o),
           \A c \in S : pn[c[1]] \in Nat,
           \A c, d \in ChunkIds : c[1] = d[1] /\ c \in S => d \in S,
           \A c, d \in S : o[c] < o[d] =>
              \/ c[1] = d[1] /\ c[2] < d[2]
              \/ c[1] # d[1] /\ pn[c[1]] < pn[d[1]]
    PROVE  Promise!WholeBodies(Sorted(S, o))
<1> DEFINE n == Cardinality(S)
           s == Sorted(S, o)
<1>1. /\ n \in Nat /\ s \in [1 .. n -> S]
      /\ \A i, j \in 1 .. n : i < j <=> o[s[i]] < o[s[j]]
      /\ \A c \in S : \E i \in 1 .. n : s[i] = c
  BY SortedFacts
<1>2. /\ \A c \in S : o[c] \in Nat
      /\ \A c, d \in S : o[c] = o[d] => c = d
  BY DEF Distinct
<1> HIDE DEF s, n
<1>3. ASSUME NEW i \in 1 .. n, NEW j \in 1 .. n, s[i] = s[j] PROVE i = j
  <2>1. ~(o[s[i]] < o[s[j]]) /\ ~(o[s[j]] < o[s[i]])
    BY <1>1, <1>2, <1>3
  <2>2. ~(i < j) /\ ~(j < i)
    BY <1>1, <2>1
  <2> QED
    BY <2>2
<1>4. ASSUME NEW i \in 1 .. n, NEW k \in 1 .. n,
             s[i][1] = s[k][1], s[k][2] = s[i][2] + 1
      PROVE  k = i + 1
  <2> DEFINE c == s[i]
             d == s[k]
  <2>1. c \in S /\ d \in S /\ c[2] \in Nat /\ d[2] \in Nat /\ c[1] = d[1] /\ d[2] = c[2] + 1
    BY <1>1, <1>4, ChunkFacts
  <2>2. c # d /\ ~(o[d] < o[c])
    BY <2>1
  <2>3. o[c] < o[d]
    BY <1>2, <2>1, <2>2
  <2>4. i < k
    BY <1>1, <2>3
  <2>5. SUFFICES ASSUME i + 1 < k PROVE FALSE
    BY <2>4
  <2> DEFINE e == s[i + 1]
  <2>6. i + 1 \in 1 .. n /\ i < i + 1
    BY <2>5, <1>1
  <2>7. e \in S /\ o[c] < o[e] /\ o[e] < o[d]
    BY <1>1, <2>5, <2>6
  <2> HIDE DEF c, d, e
  <2>8. e[2] \in Nat
    BY <2>7, ChunkFacts
  <2>9. CASE e[1] = c[1]
    <3>1. c[2] < e[2] /\ e[2] < d[2]
      BY <2>1, <2>7, <2>9
    <3> QED
      BY <2>1, <2>8, <3>1
  <2>10. CASE e[1] # c[1]
    <3>1. pn[c[1]] < pn[e[1]] /\ pn[e[1]] < pn[c[1]]
      BY <2>1, <2>7, <2>10
    <3>2. pn[c[1]] \in Nat /\ pn[e[1]] \in Nat
      BY <2>1, <2>7
    <3> QED
      BY <3>1, <3>2
  <2> QED
    BY <2>9, <2>10
<1>5. ASSUME NEW i \in 1 .. n, s[i][2] > 1
      PROVE  i > 1 /\ s[i - 1] = <<s[i][1], s[i][2] - 1>>
  <2> DEFINE c == s[i]
             d == <<c[1], c[2] - 1>>
  <2>1. c \in S /\ c \in ChunkIds
    BY <1>1
  <2>2. c[1] \in Writers /\ c[2] \in Nat /\ c[2] <= ChunkCount[c[1]] /\ ChunkCount[c[1]] \in Nat
    BY <2>1, ChunkFacts, ChunkCountAssumption
  <2>3. d \in ChunkIds
    BY <1>5, <2>2, ChunkFacts
  <2>4. d \in S
    BY <2>1, <2>3
  <2>5. PICK k \in 1 .. n : s[k] = d
    BY <1>1, <2>4
  <2>6. s[k][1] = s[i][1] /\ s[i][2] = s[k][2] + 1
    BY <2>2, <2>5
  <2>7. i = k + 1
    BY <1>4, <2>6
  <2>8. k = i - 1 /\ i > 1
    BY <2>7
  <2> QED
    BY <2>5, <2>8
<1>6. ASSUME NEW i \in 1 .. n, s[i][2] < ChunkCount[s[i][1]]
      PROVE  i + 1 \in 1 .. n /\ s[i + 1] = <<s[i][1], s[i][2] + 1>>
  <2> DEFINE c == s[i]
             d == <<c[1], c[2] + 1>>
  <2>1. c \in S /\ c \in ChunkIds
    BY <1>1
  <2>2. c[1] \in Writers /\ c[2] \in Nat /\ ChunkCount[c[1]] \in Nat
    BY <2>1, ChunkFacts, ChunkCountAssumption
  <2>3. d \in ChunkIds
    BY <1>6, <2>2, ChunkFacts
  <2>4. d \in S
    BY <2>1, <2>3
  <2>5. PICK k \in 1 .. n : s[k] = d
    BY <1>1, <2>4
  <2>6. s[i][1] = s[k][1] /\ s[k][2] = s[i][2] + 1
    BY <2>5
  <2>7. k = i + 1
    BY <1>4, <2>6
  <2> QED
    BY <2>5, <2>7
<1>7. DOMAIN s = 1 .. n
  BY <1>1
<1>8. Promise!WholeBodies(s)
  BY <1>3, <1>5, <1>6, <1>7 DEF Promise!WholeBodies
<1> QED
  BY <1>8 DEF s

\* The rows of an object have distinct ordinals.
LEMMA ObjectDistinct == IndInv => \A l \in Locations : Distinct(ObjectChunks(l), ord)
<1> SUFFICES ASSUME IndInv, NEW l \in Locations PROVE Distinct(ObjectChunks(l), ord)
  OBVIOUS
<1>1. ObjectChunks(l) \in SUBSET ChunkIds /\ l # None
  BY NoneAssumption DEF ObjectChunks, Locations
<1>2. IsFiniteSet(ObjectChunks(l))
  BY <1>1, ChunksFinite, FS_Subset
<1>3. ord \in [ChunkIds -> Nat] /\ OrdinalsFollowData
  BY DEF IndInv, TypeOK
<1>4. \A c, d \in ObjectChunks(l) : ord[c] = ord[d] => c = d
  <2> SUFFICES ASSUME NEW c \in ObjectChunks(l), NEW d \in ObjectChunks(l), c # d
               PROVE  ord[c] # ord[d]
    OBVIOUS
  <2>1. c \in ChunkIds /\ d \in ChunkIds /\ objOf[c] = l /\ objOf[d] = l
    BY DEF ObjectChunks
  <2>2. ord[c] < ord[d] \/ ord[d] < ord[c]
    BY <1>1, <1>3, <2>1 DEF OrdinalsFollowData
  <2> QED
    BY <1>3, <2>1, <2>2
<1> QED
  BY <1>1, <1>2, <1>3, <1>4 DEF Distinct

LEMMA NextDistinct == IndInv' => \A l \in Locations : Distinct(ObjectChunks(l)', ord')
<1>1. (IndInv => \A l \in Locations : Distinct(ObjectChunks(l), ord))'
  BY ObjectDistinct, PTL
<1> QED
  BY <1>1

\* What a client sees of a key, by the lists above.
View(row, S, o) ==
    IF row = None THEN None
    ELSE [body |-> IF row.kind = "put" THEN row.writer ELSE None, chunks |-> Sorted(S, o)]

LEMMA Views ==
    ASSUME NEW l \in Locations
    PROVE  /\ Content(l) = View(objects[l], ObjectChunks(l), ord)
           /\ Content(l)' = View(objects'[l], ObjectChunks(l)', ord')
BY Zenon DEF Content, View, ByOrdinal, Sorted, Rank, Smaller

\* A step that does not touch the rows of a key does not change what it is.
LEMMA ContentKept ==
    ASSUME IndInv, NEW l \in Locations, Untouched(l)
    PROVE  Content(l)' = Content(l)
<1>1. ObjectChunks(l)' = ObjectChunks(l)
  <2>1. \A c \in ChunkIds : objOf'[c] = l <=> objOf[c] = l
    BY DEF Untouched
  <2>2. ObjectChunks(l)' \subseteq ObjectChunks(l) /\ ObjectChunks(l) \subseteq ObjectChunks(l)'
    BY <2>1, Zenon DEF ObjectChunks
  <2> QED
    BY <2>2, Zenon
<1>2. \A c \in ObjectChunks(l) : ord'[c] = ord[c]
  BY DEF ObjectChunks, Untouched
<1>3. Distinct(ObjectChunks(l), ord)
  BY ObjectDistinct
<1>4. Sorted(ObjectChunks(l), ord') = Sorted(ObjectChunks(l), ord)
  BY <1>2, <1>3, SortedKept
<1>5. objects'[l] = objects[l]
  BY DEF Untouched
<1> QED
  BY <1>1, <1>4, <1>5, Views, Zenon DEF View

\* PutObject leaves its own body at the key.
LEMMA PutContent ==
    ASSUME IndInv, Step, NEW v \in Writers, PutObject(v), NEW l \in Locations, writer[v].loc = l
    PROVE  Content(l)' = [body |-> v, chunks |-> Promise!Body(v)]
<1>1. /\ l \in Locations /\ objects'[l] = PutETag(v)
      /\ \A c \in ChunkIds : objOf'[c] = l <=> c[1] = v
      /\ \A c \in ChunkIds : c[1] = v => ord'[c] = c[2] - 1
  BY PutRows
<1> DEFINE S == {c \in ChunkIds : objOf'[c] = l}
<1>2. S = ChunksOf(v)
  <2>1. \A c \in ChunksOf(v) : c \in ChunkIds /\ c[1] = v
    BY DEF ChunksOf, ChunkIds
  <2>2. \A c \in ChunkIds : c[1] = v => c \in ChunksOf(v)
    BY ChunkFacts DEF ChunksOf
  <2> QED
    BY <1>1, <2>1, <2>2
<1>3. \A c \in ChunksOf(v) : ord'[c] = c[2] - 1
  BY <1>1, <1>2
<1>4. Sorted(S, ord') = Promise!Body(v)
  BY <1>2, <1>3, SortedBody, ZenonT(60) DEF Promise!Body
<1> HIDE DEF S
<1>5. PutETag(v) # None /\ PutETag(v).kind = "put" /\ PutETag(v).writer = v
  BY ETagFacts DEF PutETag
<1>6. View(PutETag(v), S, ord') = [body |-> v, chunks |-> Promise!Body(v)]
  BY <1>4, <1>5, Zenon DEF View
<1>7. Content(l)' = View(objects'[l], ObjectChunks(l)', ord')
  BY <1>1, Views
<1>8. ObjectChunks(l)' = S
  BY DEF ObjectChunks, S
<1> QED
  BY <1>1, <1>6, <1>7, <1>8

\* CompleteMultipartUpload leaves whole bodies of parts at the key.
LEMMA AssembledContent ==
    ASSUME IndInv, IndInv', Step, NEW x \in Completers, CompleteMultipartUpload(x),
           NEW l \in Locations, completer[x].loc = l
    PROVE  /\ Content(l)' # None
           /\ Content(l)'.body = None
           /\ Promise!WholeBodies(Content(l)'.chunks)
<1>1. PICK f \in PartRows : objects'[l] = PartsETag(f)
  BY AssembledRows
<1>2. \A c \in ChunkIds : objOf'[c] = l => writer'[c[1]].part # None
  BY AssembledRows
<1> DEFINE S == {c \in ChunkIds : objOf'[c] = l}
           pn == [w \in Writers |-> writer'[w].part[2]]
<1>3. ObjectChunks(l)' = S
  BY DEF ObjectChunks
<1>4. Distinct(S, ord')
  BY <1>3, NextDistinct
<1>5. S \in SUBSET ChunkIds /\ l # None
  BY NoneAssumption DEF Locations
<1>6. /\ ChunksTogether' /\ OrdinalsFollowData' /\ RequestsType'
      /\ ord' \in [ChunkIds -> Nat]
  <2>1. TypeOK' => RequestsType'
    BY TypeParts, PTL
  <2> QED
    BY <2>1 DEF IndInv, TypeOK
<1>7. \A c \in S : pn[c[1]] \in Nat
  <2> SUFFICES ASSUME NEW c \in S PROVE pn[c[1]] \in Nat
    OBVIOUS
  <2>1. c[1] \in Writers /\ writer'[c[1]].part # None
    BY <1>2, <1>5, ChunkFacts
  <2>2. writer'[c[1]].part \in Parts
    BY <1>6, <2>1 DEF RequestsType, WriterRec
  <2>3. writer'[c[1]].part[2] \in Nat
    BY <2>2, PartNumbersAssumption DEF Parts
  <2> QED
    BY <2>1, <2>3
<1>8. \A c, d \in ChunkIds : c[1] = d[1] /\ c \in S => d \in S
  BY <1>6 DEF ChunksTogether
<1>9. \A c, d \in S : ord'[c] < ord'[d] =>
          \/ c[1] = d[1] /\ c[2] < d[2]
          \/ c[1] # d[1] /\ pn[c[1]] < pn[d[1]]
  <2> SUFFICES ASSUME NEW c \in S, NEW d \in S, ord'[c] < ord'[d]
               PROVE  \/ c[1] = d[1] /\ c[2] < d[2]
                      \/ c[1] # d[1] /\ pn[c[1]] < pn[d[1]]
    OBVIOUS
  <2>1. c \in ChunkIds /\ d \in ChunkIds /\ objOf'[c] = l /\ objOf'[d] = l
    OBVIOUS
  <2>2. ord'[c] \in Nat /\ ord'[d] \in Nat /\ c # d /\ ~(ord'[d] < ord'[c])
    BY <1>6, <2>1
  <2>3. Before(c, d)'
    BY <1>5, <1>6, <2>1, <2>2 DEF OrdinalsFollowData
  <2>4. \/ c[1] = d[1] /\ c[2] < d[2]
        \/ c[1] # d[1] /\ writer'[c[1]].part[2] < writer'[d[1]].part[2]
    BY <2>3, Zenon DEF Before
  <2>5. c[1] \in Writers /\ d[1] \in Writers
    BY <2>1, ChunkFacts
  <2>6. pn[c[1]] = writer'[c[1]].part[2] /\ pn[d[1]] = writer'[d[1]].part[2]
    BY <2>5
  <2> QED
    BY <2>4, <2>6, Zenon
<1> HIDE DEF S, pn
<1>10. Promise!WholeBodies(Sorted(S, ord'))
  BY <1>4, <1>5, <1>7, <1>8, <1>9, SortedIsWhole
<1>11. PartsETag(f) # None /\ PartsETag(f).kind # "put"
  BY ETagFacts DEF PartsETag
<1>12. Content(l)' = [body |-> None, chunks |-> Sorted(S, ord')]
  <2>1. View(PartsETag(f), S, ord') = [body |-> None, chunks |-> Sorted(S, ord')]
    BY <1>11, Zenon DEF View
  <2>2. Content(l)' = View(objects'[l], ObjectChunks(l)', ord')
    BY Views
  <2> QED
    BY <1>1, <1>3, <2>1, <2>2
<1>13. Content(l)' # None
  <2>1. Cardinality(S) \in Nat /\ Sorted(S, ord') \in [1 .. Cardinality(S) -> S]
    BY <1>4, SortedFacts
  <2>2. Sorted(S, ord') \in [1 .. Cardinality(S) -> ChunkIds]
    BY <1>5, <2>1
  <2>3. Sorted(S, ord') \in Seq(ChunkIds)
    BY <2>1, <2>2
  <2>4. [body |-> None, chunks |-> Sorted(S, ord')] \in [body : Writers \cup {None}, chunks : Seq(ChunkIds)]
    BY <2>3
  <2> QED
    BY <1>12, <2>4, ContentsAssumption, Zenon
<1> QED
  BY <1>10, <1>12, <1>13

\* Every step is a step of module Store for the keys' contents, or leaves them.
LEMMA StoreStep ==
    ASSUME IndInv, IndInv', Step
    PROVE  Promise!Next \/ UNCHANGED [l \in Locations |-> Content(l)]
<1> DEFINE C == [m \in Locations |-> Content(m)]
           D == [m \in Locations |-> Content(m)']
<1>1. C' = D
  OBVIOUS
<1>2. Promise!Locations = Locations
  BY DEF Promise!Locations, Locations
<1>3. ASSUME NEW m \in Locations, Untouched(m) PROVE D[m] = C[m]
  BY <1>3, ContentKept
<1>4. ASSUME NEW m \in Locations, Gone(m) PROVE D[m] = None
  BY <1>4, Zenon DEF Gone, Content
<1>5. ASSUME NEW v \in Writers, PutObject(v) PROVE Promise!Next
  <2>1. PICK l \in Locations : writer[v].loc = l
    BY <1>5, PutRows
  <2>2. D[l] = [body |-> v, chunks |-> Promise!Body(v)]
    BY <1>5, <2>1, PutContent
  <2>3. \A m \in Locations : m # l => D[m] = C[m]
    BY <1>3, <1>5, <2>1, KeyFrames
  <2>4. D = [C EXCEPT ![l] = [body |-> v, chunks |-> Promise!Body(v)]]
    BY <2>2, <2>3
  <2>5. Promise!Put(l)
    BY <1>1, <2>4 DEF Promise!Put
  <2> QED
    BY <1>2, <2>5 DEF Promise!Next
<1>6. ASSUME NEW x \in Completers, CompleteMultipartUpload(x) PROVE Promise!Next
  <2>1. PICK l \in Locations : completer[x].loc = l
    BY <1>6, AssembledRows
  <2>2. D[l] # None /\ D[l].body = None /\ Promise!WholeBodies(D[l].chunks)
    BY <1>6, <2>1, AssembledContent
  <2>3. \A m \in Locations : m # l => D[m] = C[m]
    BY <1>3, <1>6, <2>1, KeyFrames
  <2>4. D = [C EXCEPT ![l] = D[l]]
    BY <2>3
  <2>5. Promise!Assemble(l)
    BY <1>1, <2>2, <2>4 DEF Promise!Assemble
  <2> QED
    BY <1>2, <2>5 DEF Promise!Next
<1>7. ASSUME NEW d \in Deleters, DeleteRow(d) PROVE Promise!Next \/ C' = C
  <2>1. \A m \in Locations : IF deleter[d].loc = m THEN D[m] = None ELSE D[m] = C[m]
    BY <1>3, <1>4, <1>7, KeyFrames
  <2>2. CASE deleter[d].loc \in Locations
    <3>1. PICK l \in Locations : deleter[d].loc = l
      BY <2>2
    <3>2. D = [C EXCEPT ![l] = None]
      BY <2>1, <3>1
    <3>3. Promise!Remove(l)
      BY <1>1, <3>2 DEF Promise!Remove
    <3> QED
      BY <1>2, <3>3 DEF Promise!Next
  <2>3. CASE deleter[d].loc \notin Locations
    <3>1. D = C
      BY <2>1, <2>3
    <3> QED
      BY <1>1, <3>1
  <2> QED
    BY <2>2, <2>3
<1>8. ASSUME NEW b \in Buckets, DeleteBucket(b) PROVE Promise!Next
  <2>1. \A m \in Locations : IF m[1] = b THEN D[m] = None ELSE D[m] = C[m]
    BY <1>3, <1>4, <1>8, KeyFrames
  <2>2. D = [l \in Locations |-> IF l[1] = b THEN None ELSE C[l]]
    BY <2>1
  <2>3. Promise!RemoveBucket(b)
    BY <1>1, <1>2, <2>2 DEF Promise!RemoveBucket
  <2> QED
    BY <2>3 DEF Promise!Next
<1>9. ASSUME \A m \in Locations : Untouched(m) PROVE C' = C
  <2>1. D = C
    BY <1>3, <1>9
  <2> QED
    BY <1>1, <2>1
<1> QED
  BY <1>5, <1>6, <1>7, <1>8, <1>9, KeyFrames

\* The object manager and the tables keep the promise of module Store.
THEOREM StoreImplemented == Spec => ImplementsStore
<1> DEFINE C == [l \in Locations |-> Content(l)]
<1>1. Init => Promise!Init
  <2> SUFFICES ASSUME Init PROVE Promise!Init
    OBVIOUS
  <2>1. \A l \in Locations : Content(l) = None
    BY DEF Init, Content
  <2>2. Promise!Locations = Locations
    BY DEF Promise!Locations, Locations
  <2> QED
    BY <2>1, <2>2 DEF Promise!Init
<1>2. IndInv /\ IndInv' /\ [Next]_vars => [Promise!Next]_C
  <2> SUFFICES ASSUME IndInv, IndInv', [Next]_vars PROVE Promise!Next \/ C' = C
    OBVIOUS
  <2>1. CASE UNCHANGED vars
    <3>1. \A l \in Locations : Untouched(l)
      BY <2>1 DEF vars, Untouched
    <3>2. \A l \in Locations : Content(l)' = Content(l)
      BY <3>1, ContentKept
    <3> QED
      BY <3>2
  <2>2. CASE Next
    BY <2>2, StoreStep DEF Next
  <2> QED
    BY <2>1, <2>2
<1> QED
  BY Invariance, <1>1, <1>2, PTL DEF Spec, ImplementsStore, Promise!Spec
=============================================================================
