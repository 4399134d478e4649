------------------------------ MODULE Listing ------------------------------
(***************************************************************************)
(* The paged listings of the S3 interface and a client that follows their  *)
(* continuation tokens until a response is not truncated, while other      *)
(* clients store and delete what is listed.  ListObjectsV2 numbers its     *)
(* pages and skips rows with OFFSET; ListParts continues after the last    *)
(* part number.  ListBuckets and ListMultipartUploads are routed and       *)
(* parsed like the others.                                                 *)
(*                                                                         *)
(* Keys are numbers, in the order of the index; a part's key is its number.*)
(* The rows of a query are distinct and in this order, so they are a set.  *)
(***************************************************************************)
EXTENDS Integers, FiniteSets, FiniteSetsExt

CONSTANTS
    Operations,    \* the listings the client may ask for
    Keys,          \* the object keys with the requested prefix, or part numbers
    PrefixNames,   \* common prefixes
    NoPrefix,      \* of a key that has no delimiter after the requested prefix
    Prefix,        \* the common prefix of each key
    PageSizes,     \* the max-keys and max-parts the client may ask for
    MaxChanges     \* bound: how many rows other clients add, and how many they delete

ASSUME KeysAssumption == Keys \subseteq Nat /\ IsFiniteSet(Keys)
ASSUME PrefixAssumption == Prefix \in [Keys -> PrefixNames \cup {NoPrefix}]
ASSUME PageSizesAssumption == PageSizes \subseteq Nat \ {0}
ASSUME MaxChangesAssumption == MaxChanges \in Nat

VARIABLES
    op,        \* the listing the client asked for
    max,       \* its page size
    delimiter, \* whether it gave a delimiter
    after,     \* its start-after, 0 if none
    first,     \* its first continuation-token, 0 if it sent none
    token,     \* the token of its next request
    client,    \* "asking", "checked", "done", "refused" or "failed"
    rows,      \* the rows of the table
    exists,    \* whether the multipart upload exists
    keys,      \* how often each key was listed, 2 for more
    prefixes,  \* the common prefixes listed
    stable,    \* the rows that were there all the time
    puts,      \* how many rows other clients added
    deletions  \* how many rows other clients deleted

request == <<op, max, delimiter, after, first>>
table == <<rows, exists, stable, puts, deletions>>
vars == <<request, token, client, table, keys, prefixes>>

-----------------------------------------------------------------------------
(***************************************************************************)
(* Routing and parsing.                                                    *)
(***************************************************************************)

\* handleBucketsGet serves the root host; handleBucketPresentGet the rest, and
\* asks hasKey first.
HostBucket == op # "ListBuckets"
PathKey == op = "ListParts"

\* What the handlers tell HandleRequest to insist on.
BucketRequired == TRUE
KeyRequired == op \in {"ListMultipartUploads", "ListParts"}

Refused == (BucketRequired /\ ~HostBucket) \/ (KeyRequired /\ ~PathKey)

-----------------------------------------------------------------------------
(***************************************************************************)
(* The queries.                                                            *)
(***************************************************************************)

\* Mutant of Offset: pages are numbered from 0.
OffsetFromZero == token * max

\* SQLite takes a negative OFFSET for 0.
Offset == IF token = 0 THEN 0 ELSE (token - 1) * max

\* ORDER BY ... LIMIT n OFFSET skip.
Rank(set, k) == Cardinality({l \in set : l < k})
Limit(set, n, skip) == {k \in set : skip <= Rank(set, k) /\ Rank(set, k) < skip + n}

\* The rows a query returns: one more than the page, to see whether there are more.
ObjectRows == Limit({k \in rows : k > after}, max + 1, Offset)
PartRows == Limit({k \in rows : k >= token}, max + 1, 0)

HasMore(found) == Cardinality(found) = max + 1

\* Mutant of Page: the extra row is not removed.
PageWithExtra(found) == found
Page(found) == IF HasMore(found) THEN found \ {Max(found)} ELSE found

\* Mutant of NextPartNumberMarker: the marker of the request is returned.
MarkerStays(page) == token
NextPartNumberMarker(page) == Max(page) + 1
NextContinuationToken == token + 1

-----------------------------------------------------------------------------
Init ==
    /\ op \in Operations
    /\ max \in PageSizes
    /\ delimiter \in BOOLEAN
    /\ first \in IF op = "ListObjectsV2" THEN {0, 1} ELSE {0}
    /\ after \in IF op = "ListObjectsV2" THEN {0} \cup Keys ELSE {0}
    /\ token = first
    /\ client = "asking"
    /\ rows \in SUBSET Keys
    /\ exists = TRUE
    /\ stable = rows
    /\ keys = [k \in Keys |-> 0]
    /\ prefixes = {}
    /\ puts = 0 /\ deletions = 0

Refuse ==
    /\ client = "asking"
    /\ Refused
    /\ client' = "refused"
    /\ UNCHANGED <<request, token, table, keys, prefixes>>

\* A response: keys without a common prefix, and the set of common prefixes.
Show(page) ==
    LET Collapsed(k) == delimiter /\ Prefix[k] # NoPrefix
    IN  /\ keys' = [k \in Keys |->
                IF k \in page /\ ~Collapsed(k)
                THEN IF keys[k] = 0 THEN 1 ELSE 2
                ELSE keys[k]]
        /\ prefixes' = prefixes \cup {Prefix[k] : k \in {q \in page : Collapsed(q)}}

ListObjectsV2 ==
    /\ client = "asking"
    /\ op = "ListObjectsV2" /\ ~Refused
    /\ Show(Page(ObjectRows))
    /\ IF HasMore(ObjectRows)
       THEN token' = NextContinuationToken /\ UNCHANGED client
       ELSE client' = "done" /\ UNCHANGED token
    /\ UNCHANGED <<request, table>>

\* ListParts: GetMultipartUpload, and then the query.
CheckUpload ==
    /\ client = "asking"
    /\ op = "ListParts" /\ ~Refused
    /\ client' = IF exists THEN "checked" ELSE "failed"
    /\ UNCHANGED <<request, token, table, keys, prefixes>>

\* ListParts knows no delimiter.
ListParts ==
    LET page == Page(PartRows)
    IN  /\ client = "checked"
        /\ keys' = [k \in Keys |->
                IF k \in page THEN IF keys[k] = 0 THEN 1 ELSE 2 ELSE keys[k]]
        /\ IF HasMore(PartRows)
           THEN token' = NextPartNumberMarker(page) /\ client' = "asking"
           ELSE client' = "done" /\ UNCHANGED token
        /\ UNCHANGED <<request, table, prefixes>>

\* Other clients: an object or a part is stored ...
Put(k) ==
    /\ client \in {"asking", "checked"} /\ puts < MaxChanges
    /\ exists
    /\ k \notin rows
    /\ rows' = rows \cup {k}
    /\ puts' = puts + 1
    /\ UNCHANGED <<request, token, client, exists, stable, deletions, keys, prefixes>>

\* ... an object is deleted; parts only go with their upload.
Delete(k) ==
    /\ client \in {"asking", "checked"} /\ deletions < MaxChanges
    /\ op # "ListParts"
    /\ k \in rows
    /\ rows' = rows \ {k}
    /\ stable' = stable \ {k}
    /\ deletions' = deletions + 1
    /\ UNCHANGED <<request, token, client, exists, puts, keys, prefixes>>

\* AbortMultipartUpload or CompleteMultipartUpload.
EndUpload ==
    /\ client \in {"asking", "checked"}
    /\ op = "ListParts" /\ exists
    /\ exists' = FALSE
    /\ rows' = {}
    /\ stable' = {}
    /\ UNCHANGED <<request, token, client, puts, deletions, keys, prefixes>>

Ended == client \in {"done", "refused", "failed"}

Terminated == Ended /\ UNCHANGED vars

Handle == Refuse \/ ListObjectsV2 \/ CheckUpload \/ ListParts

Next ==
    \/ Handle
    \/ \E k \in Keys : Put(k) \/ Delete(k)
    \/ EndUpload
    \/ Terminated

\* The client asks for the next page and is answered.
Spec == Init /\ [][Next]_vars /\ WF_vars(Handle)

-----------------------------------------------------------------------------
(***************************************************************************)
(* Properties.                                                             *)
(***************************************************************************)

Shown(k) == keys[k] > 0 \/ (delimiter /\ Prefix[k] \in prefixes)

\* A client that followed all tokens of ListParts has seen every part that was
\* there all the time, and so has a client of ListObjectsV2 if no object was
\* deleted meanwhile: its pages are numbered, so that a deletion moves a key to a
\* page already read.  What is stored meanwhile makes neither miss anything.
NothingMissed ==
    client = "done" /\ (op = "ListParts" \/ deletions = 0) =>
        \A k \in stable : k > after => Shown(k)

\* ListParts lists no part twice, whatever is stored meanwhile; ListObjectsV2 no
\* key twice to a client that starts with page 1, if no object is added, whatever
\* is deleted meanwhile.
NoRepeats ==
    (op = "ListParts" \/ (first = 1 /\ puts = 0)) => \A k \in Keys : keys[k] <= 1

\* The client gets to the end of the listing.
Ends == <>Ended
=============================================================================
