------------------------------ MODULE Dashboard ------------------------------
(***************************************************************************)
(* One request to the dashboard: the pages that list the buckets, the      *)
(* object browser, the forms that create and delete a bucket, the health   *)
(* fragment and the health stream.  The program has one connection to the  *)
(* database (SQLiteMaxOpenConns), which every statement of every request   *)
(* takes and a query keeps until its last row is read.  Other clients use  *)
(* the connection and change the tables meanwhile.                         *)
(*                                                                         *)
(* A key is the sequence of its "/"-separated segments; a segment is a     *)
(* number, 0 for "", in the order SQLite compares them.  Fold maps a       *)
(* segment to the one it equals when LIKE ignores its case.                *)
(***************************************************************************)
EXTENDS Integers, Sequences, FiniteSets, SequencesExt

CONSTANTS
    Paths,            \* the keys of the objects in the bucket
    Fold,             \* Fold[s]: the segment s in lower case
    Wild,             \* <<directory, key>> where only a "%" or "_" in the
                      \* directory's name makes LIKE select the key
    AskedPrefixes,    \* the prefixes asked for, split at "/" like keys
    BrowseLimit,      \* the rows ListObjects asks for, 100 in the code
    MaxTransactions   \* bound on the changes of other clients

VARIABLES
    page,      \* the request: a page of Pages
    path,      \* its prefix
    table,     \* table[k]: the number of chunks of object k, 0 if there is none
    bucket,    \* whether the bucket named in the form exists
    conn,      \* who has the connection: "free", "own", "other"
    client,    \* "here", or "gone" once the request's context is done
    listed,    \* the objects BrowseObjects has read, as [key, chunks]
    at,        \* the object its loop is at
    rows,      \* the chunks of that object, as GetChunks has read them
    entries,   \* the entries it has made: [name, dir, chunks]
    effect,    \* history: what the request did: "none", "created", "deleted"
    changed,   \* history: whether others changed the tables since it was received
    pc,        \* how far the handler is
    status     \* the status of the answer, 0 before

request == <<page, path, client>>
browser == <<listed, at, rows, entries>>
database == <<table, bucket>>
answer == <<pc, status>>
vars == <<request, browser, database, answer, conn, effect, changed>>

Pages == {"buckets", "static", "browse", "create", "delete", "health", "stream"}

Answer(code) == status' = code /\ pc' = "done"

-----------------------------------------------------------------------------
(***************************************************************************)
(* Prefixes.  "" is <<0>>, "/" is <<0, 0>>, "d/" is <<d, 0>>.              *)
(***************************************************************************)

\* normalizePrefix: one leading "/" goes, a trailing one is added; the result is
\* the path of a directory, <<>> for the root.
NormalizePrefix(p) ==
    LET q == IF Len(p) > 1 /\ p[1] = 0 THEN Tail(p) ELSE p
    IN  IF q[Len(q)] = 0 THEN Front(q) ELSE q

\* parentPrefix, of the prefix as it was asked for.
ParentPrefix(p) ==
    LET q == IF Len(p) > 1 /\ p[Len(p)] = 0 THEN Front(p) ELSE p
    IN  IF Len(q) = 1 THEN <<0>> ELSE Append(Front(q), 0)

Dir == NormalizePrefix(path)

\* object_key LIKE prefix || '%': the prefix is not escaped, so that "%" and "_"
\* in it stand for other characters, and LIKE ignores case; TrimPrefix does neither.
\* Every "/" of the prefix stands for itself.
Like(k) ==
    /\ Len(k) > Len(Dir)
    /\ \/ \A i \in DOMAIN Dir : Fold[k[i]] = Fold[Dir[i]]
       \/ <<Dir, k>> \in Wild

TrimPrefix(k) == IF IsPrefix(Dir, k) THEN SubSeq(k, Len(Dir) + 1, Len(k)) ELSE k

\* ORDER BY object_key: the first segment that differs decides, or that k lacks.
Before(k, l) ==
    \E i \in DOMAIN l :
        /\ \A j \in 1 .. (i - 1) : j \in DOMAIN k /\ k[j] = l[j]
        /\ i \in DOMAIN k => k[i] < l[i]

Found == {k \in Paths : table[k] > 0 /\ Like(k)}
Rank(k) == Cardinality({l \in Found : Before(l, k)})

\* The rows of ListObjects, without the one that tells whether there are more.
ListObjects ==
    LET n == IF Cardinality(Found) < BrowseLimit THEN Cardinality(Found) ELSE BrowseLimit
        key(i) == CHOOSE k \in Found : Rank(k) = i - 1
    IN  [i \in 1 .. n |-> [key |-> key(i), chunks |-> table[key(i)]]]

-----------------------------------------------------------------------------
Init ==
    /\ page \in Pages
    /\ path \in AskedPrefixes
    /\ table \in [Paths -> 0 .. 1]
    /\ bucket \in BOOLEAN
    /\ page # "browse" => path = <<0>> /\ table = [k \in Paths |-> 0]
    /\ page \notin {"create", "delete"} => bucket
    /\ conn = "free"
    /\ client = "here"
    /\ listed = <<>> /\ at = 1 /\ rows = 0 /\ entries = <<>>
    /\ effect = "none"
    /\ changed = 0
    /\ pc = "start"
    /\ status = 0

\* backendsPage shows fixed data, settingsPage and the static files none.
StaticPage ==
    /\ pc = "start" /\ page = "static"
    /\ Answer(200)
    /\ UNCHANGED <<request, browser, database, conn, effect, changed>>

\* A statement that takes the connection and gives it back.
Statement == conn = "free" /\ UNCHANGED conn

\* ListBuckets: the statistics, without them the names, without these an empty
\* list; the page is shown in every case.
ListBucketsWithStats ==
    /\ pc = "start" /\ page = "buckets"
    /\ Statement
    /\ pc' = "fallback" \/ pc' = "render"
    /\ UNCHANGED <<request, browser, database, status, effect, changed>>

ListBuckets ==
    /\ pc = "fallback"
    /\ Statement
    /\ pc' = "render"
    /\ UNCHANGED <<request, browser, database, status, effect, changed>>

Render ==
    /\ pc = "render"
    /\ Answer(200) \/ Answer(500)
    /\ UNCHANGED <<request, browser, database, conn, effect, changed>>

\* createBucket and deleteBucket: an error is 400, then the list is sent.
CreateBucket ==
    /\ pc = "start" /\ page = "create"
    /\ Statement
    /\ \/ ~bucket /\ bucket' = TRUE /\ effect' = "created" /\ pc' = "listing" /\ UNCHANGED status
       \/ Answer(400) /\ UNCHANGED <<bucket, effect>>
    /\ UNCHANGED <<request, browser, table, changed>>

DeleteBucket ==
    /\ pc = "start" /\ page = "delete"
    /\ Statement
    /\ \/ bucket /\ bucket' = FALSE /\ effect' = "deleted" /\ pc' = "listing" /\ UNCHANGED status
       \/ Answer(400) /\ UNCHANGED <<bucket, effect>>
    /\ UNCHANGED <<request, browser, table, changed>>

BucketsFragment ==
    /\ pc = "listing"
    /\ Statement
    /\ pc' = "fallback" \/ pc' = "render"
    /\ UNCHANGED <<request, browser, database, status, effect, changed>>

-----------------------------------------------------------------------------
(***************************************************************************)
(* BrowseObjects: one query for the objects, then the loop with two more   *)
(* for every object that is not in a directory.                            *)
(***************************************************************************)
Browse ==
    /\ pc = "start" /\ page = "browse"
    /\ conn = "free" /\ conn' = "own"
    /\ listed' = ListObjects
    /\ pc' = "rows"
    /\ UNCHANGED <<request, at, rows, entries, database, status, effect, changed>>

\* Mutant of RowsRead: the rows stay open while the loop runs.
RowsStayOpen ==
    /\ pc = "rows"
    /\ pc' = "loop"
    /\ UNCHANGED <<request, browser, database, conn, status, effect, changed>>

\* rows.Next returns FALSE and frees the connection.
RowsRead ==
    /\ pc = "rows"
    /\ conn' = "free"
    /\ pc' = "loop"
    /\ UNCHANGED <<request, browser, database, status, effect, changed>>

Current == listed[at]
Remainder == TrimPrefix(Current.key)

\* The directory itself (remainder "") is skipped.
SkipMarker ==
    /\ pc = "loop" /\ at <= Len(listed)
    /\ Remainder = <<0>>
    /\ at' = at + 1
    /\ UNCHANGED <<request, listed, rows, entries, database, answer, conn, effect, changed>>

Directory(name) == [name |-> name, dir |-> TRUE, chunks |-> 0]
File(name, n) == [name |-> name, dir |-> FALSE, chunks |-> n]

\* Mutant of AddDirectory: the directories seen before are not remembered.
AddDirectoryAgain ==
    /\ pc = "loop" /\ at <= Len(listed)
    /\ Len(Remainder) > 1
    /\ entries' = Append(entries, Directory(Remainder[1]))
    /\ at' = at + 1
    /\ UNCHANGED <<request, listed, rows, database, answer, conn, effect, changed>>

AddDirectory ==
    /\ pc = "loop" /\ at <= Len(listed)
    /\ Len(Remainder) > 1
    /\ entries' = IF Contains(entries, Directory(Remainder[1]))
                  THEN entries ELSE Append(entries, Directory(Remainder[1]))
    /\ at' = at + 1
    /\ UNCHANGED <<request, listed, rows, database, answer, conn, effect, changed>>

\* metadata.GetChunks: the chunk rows, then with the connection free again the
\* shards of each of them.
GetChunks ==
    /\ pc = "loop" /\ at <= Len(listed)
    /\ Len(Remainder) = 1 /\ Remainder # <<0>>
    /\ Statement
    /\ rows' = table[Current.key]
    /\ pc' = "shards"
    /\ UNCHANGED <<request, listed, at, entries, database, status, effect, changed>>

GetShards ==
    /\ pc = "shards"
    /\ Statement
    /\ entries' = Append(entries, File(Remainder[1], rows))
    /\ at' = at + 1
    /\ pc' = "loop"
    /\ UNCHANGED <<request, listed, rows, database, status, effect, changed>>

\* A statement fails; defer rows.Close frees the connection.
BrowseFails ==
    /\ page = "browse" /\ pc \in {"rows", "loop", "shards"}
    /\ conn' = IF conn = "own" THEN "free" ELSE conn
    /\ Answer(400)
    /\ UNCHANGED <<request, browser, database, effect, changed>>

\* sort.Slice: directories first, then by name in lower case; it is not stable.
Sorted(es) ==
    \A i, j \in DOMAIN es : i < j =>
        /\ es[j].dir => es[i].dir
        /\ es[i].dir = es[j].dir => Fold[es[i].name] <= Fold[es[j].name]

BrowseDone ==
    /\ pc = "loop" /\ at > Len(listed)
    /\ \E p \in [DOMAIN entries -> DOMAIN entries] :
          /\ \A i, j \in DOMAIN entries : p[i] = p[j] => i = j
          /\ entries' = [i \in DOMAIN entries |-> entries[p[i]]]
          /\ Sorted(entries')
    /\ pc' = "render"
    /\ UNCHANGED <<request, listed, at, rows, database, conn, status, effect, changed>>

-----------------------------------------------------------------------------
\* currentHealth: PingContext waits for the connection or the end of the context.
Ping ==
    /\ pc = "ping" \/ (pc = "start" /\ page \in {"health", "stream"})
    /\ conn = "free" \/ client = "gone"
    /\ IF page = "health" THEN Answer(200) ELSE status' = 200 /\ pc' = "select"
    /\ UNCHANGED <<request, browser, database, conn, effect, changed>>

\* The select of healthLongLived chooses among the cases that are ready.
Tick ==
    /\ pc = "select"
    /\ pc' = "ping"
    /\ UNCHANGED <<request, browser, database, conn, status, effect, changed>>

ContextDone ==
    /\ pc = "select" /\ client = "gone"
    /\ pc' = "done"
    /\ UNCHANGED <<request, browser, database, conn, status, effect, changed>>

\* The other end closes the connection (net/http ends the context).
ClientLeaves ==
    /\ page = "stream" /\ pc # "done" /\ client = "here"
    /\ client' = "gone"
    /\ UNCHANGED <<page, path, browser, database, answer, conn, effect, changed>>

\* Another request begins a transaction ...
OthersBegin ==
    /\ pc # "done" /\ changed < MaxTransactions
    /\ conn = "free" /\ conn' = "other"
    /\ UNCHANGED <<request, browser, database, answer, effect, changed>>

\* ... and commits: an object is stored or deleted, the bucket created or deleted.
OthersCommit ==
    /\ conn = "other" /\ conn' = "free"
    /\ \/ page = "browse" /\ \E k \in Paths, n \in 0 .. 2 : table' = [table EXCEPT ![k] = n]
          /\ UNCHANGED bucket
       \/ page # "browse" /\ bucket' \in BOOLEAN /\ UNCHANGED table
    /\ changed' = changed + 1
    /\ UNCHANGED <<request, browser, answer, effect>>

\* The steps of the handler that do not depend on an error.
Handle ==
    \/ StaticPage \/ ListBucketsWithStats \/ ListBuckets \/ Render
    \/ CreateBucket \/ DeleteBucket \/ BucketsFragment
    \/ Browse \/ RowsRead \/ SkipMarker \/ AddDirectory \/ GetChunks \/ GetShards
    \/ BrowseDone \/ Ping \/ Tick \/ ContextDone

Next == Handle \/ BrowseFails \/ ClientLeaves \/ OthersBegin \/ OthersCommit

-----------------------------------------------------------------------------
(***************************************************************************)
(* Properties.                                                             *)
(***************************************************************************)

\* The first BrowseLimit keys that LIKE finds.
Shown == {k \in Found : Rank(k) < BrowseLimit}

\* Those that are in the directory, and the entry each of them belongs to.
Inside == {k \in Shown : IsPrefix(Dir, k) /\ k # Append(Dir, 0)}
EntryOf(k) ==
    IF Len(k) = Len(Dir) + 1 THEN File(k[Len(k)], table[k]) ELSE Directory(k[Len(Dir) + 1])

\* With no change meanwhile, the browser shows every key of the directory that is
\* among the first BrowseLimit under exactly one entry, with its number of chunks,
\* and a directory once.  A key that LIKE selects although it is not in the
\* directory is shown as the directory at its top, and nothing else is shown.  The
\* link to the parent directory leads to the directory this one is in
\* (BrowseObjects, normalizePrefix, parentPrefix).
BrowseIsComplete ==
    page = "browse" /\ pc = "render" /\ changed = 0 =>
        /\ ToSet(entries) = {EntryOf(k) : k \in Inside} \cup
                {Directory(k[1]) : k \in {l \in Shown : ~IsPrefix(Dir, l)}}
        /\ Cardinality(ToSet(entries)) = Len(entries)
        /\ Dir # <<>> => NormalizePrefix(ParentPrefix(path)) = Front(Dir)

\* The answer of createBucket and deleteBucket tells whether the request did it.
FormTellsEffect ==
    pc = "done" /\ page \in {"create", "delete"} => (status = 400 <=> effect = "none")
=============================================================================
