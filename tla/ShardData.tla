------------------------------ MODULE ShardData ------------------------------
(***************************************************************************)
(* shard.ShardData and shard.CollectShards: one encrypted chunk is cut     *)
(* into equally sized encoded shards, parity shards are added, contiguous  *)
(* blocks of them are given to the backends, each block is merged into     *)
(* blobs no larger than its backend accepts, and the backends are written  *)
(* concurrently.  Every loop of the Go code is a step of this module, so   *)
(* that what the loops compute can be proved by an inductive invariant.    *)
(*                                                                         *)
(* Bytes are not modelled: an encoded shard is its index, and the          *)
(* Reed-Solomon code is represented by its defining property (any          *)
(* dataCount of the dataCount + parity shards restore the chunk).          *)
(***************************************************************************)
EXTENDS Integers, Sequences, FiniteSets

CONSTANTS
    MaxBackends,   \* largest number of configured backends considered
    Sizes,         \* the blob sizes a backend may accept (GetMaxObjectSize)
    DataLengths,   \* the lengths of the data handed to ShardData
    MinCandidate,  \* minCandidateSize, 50KiB in the code
    MaxDivide,     \* maxDivide, 10 in the code
    MaxInt         \* the largest int: the start value of the size scan

ASSUME MaxBackendsAssumption == MaxBackends \in Nat
ASSUME SizesAssumption == Sizes \subseteq Nat \ {0}
ASSUME DataLengthsAssumption == DataLengths \subseteq Nat
ASSUME MinCandidateAssumption == MinCandidate \in Nat \ {0}
ASSUME MaxDivideAssumption == MaxDivide \in Nat
ASSUME MaxIntAssumption == MaxInt \in Nat \ {0} /\ \A s \in Sizes : s <= MaxInt

VARIABLES
    n,          \* len(backend)
    ft,         \* config.Cfg.FailureTolerance
    maxSize,    \* maxSize[b] = GetMaxShardSize of the b-th backend
    dataLen,    \* len(data)
    pc,         \* the phase ShardData is in
    at,         \* the loop variable of the current phase
    shardSize,  \* minShardSize
    candidate,  \* candidate of the search loop
    best,       \* bestShardSize
    parity,     \* parity, the candidate of getShardParityCount
    first,      \* first[b] = first encoded shard index given to backend b
    count,      \* count[b] = how many encoded shards backend b is given
    nextIndex,  \* nextIndex of the distribution loop, then i of the merge loop
    merged,     \* merged[b] = finalRawShards[b]: index ranges, in order
    put,        \* put[b] = how many of merged[b] are stored on backend b
    status      \* status[b] of the upload goroutine of backend b

args == <<n, ft, maxSize, dataLen>>
layout == <<first, count, merged>>
uploads == <<put, status>>
vars == <<n, ft, maxSize, dataLen, pc, at, shardSize, candidate, best, parity, first,
          count, nextIndex, merged, put, status>>

Backends == 0 .. (n - 1)

-----------------------------------------------------------------------------
(***************************************************************************)
(* The arithmetic of the sharding.                                         *)
(***************************************************************************)

\* One blob (RawShard, Shard): it holds the encoded shards f .. l.
IndexRange(f, l) == [First |-> f, Last |-> l]

\* math.Ceil(len / size)
CeilDiv(len, size) == (len + size - 1) \div size

\* dataCount of encodeParityShards.
DataCount == CeilDiv(dataLen, shardSize)

\* totalShards, len(parityData).
Total == DataCount + parity

\* Mutants of Lost: the remainder is forgotten; the remainder is rounded up.
LostNoExtra(k, t, total) == t * (total \div k)
LostRoundedUp(k, t, total) == t * (total \div k + 1)

\* The shards the failure of `t` of `k` backends costs in the worst case when
\* `total` shards are split as evenly as possible.
Lost(k, t, total) ==
    t * (total \div k) + (IF t < total % k THEN t ELSE total % k)

\* The number of encoded shards backend b is given.
BlockCount(b) ==
    (Total \div n) + (IF b < Total % n THEN 1 ELSE 0)

\* Mutant of Fits: one encoded shard too many when it does not fit evenly.
FitsRoundedUp(b) == CeilDiv(maxSize[b], shardSize)

\* The greedy merge: how many encoded shards fit into one blob of backend b.
Fits(b) == maxSize[b] \div shardSize

\* DestroyShards/CollectShards see the shards of a backend as ranges; these are
\* the encoded indices the backend's first k blobs hold.
Indices(b, k) ==
    {x \in 0 .. (Total - 1) :
        \E i \in 1 .. k : merged[b][i].First <= x /\ x <= merged[b][i].Last}

-----------------------------------------------------------------------------
\* Mutant of Init: main.go compares with < instead of <=.
InitToleranceUnchecked ==
    /\ n \in 1 .. MaxBackends
    /\ ft \in 0 .. n
    /\ maxSize \in [0 .. (n - 1) -> Sizes]
    /\ dataLen \in DataLengths
    /\ pc = "start" /\ at = 0 /\ shardSize = MaxInt /\ candidate = 0 /\ best = 0
    /\ parity = 0 /\ nextIndex = 0
    /\ first = [b \in 0 .. (n - 1) |-> 0]
    /\ count = [b \in 0 .. (n - 1) |-> 0]
    /\ merged = [b \in 0 .. (n - 1) |-> <<>>]
    /\ put = [b \in 0 .. (n - 1) |-> 0]
    /\ status = [b \in 0 .. (n - 1) |-> "running"]

Init ==
    /\ n \in 1 .. MaxBackends
    \* main.go: the server does not start unless len(backendIDs) > FailureTolerance
    /\ ft \in 0 .. (n - 1)
    /\ maxSize \in [0 .. (n - 1) -> Sizes]
    /\ dataLen \in DataLengths
    /\ pc = "start"
    /\ at = 0
    /\ shardSize = MaxInt
    /\ candidate = 0
    /\ best = 0
    /\ parity = 0
    /\ first = [b \in 0 .. (n - 1) |-> 0]
    /\ count = [b \in 0 .. (n - 1) |-> 0]
    /\ nextIndex = 0
    /\ merged = [b \in 0 .. (n - 1) |-> <<>>]
    /\ put = [b \in 0 .. (n - 1) |-> 0]
    /\ status = [b \in 0 .. (n - 1) |-> "running"]

\* "cannot shard empty data"
RejectEmpty ==
    /\ pc = "start"
    /\ dataLen = 0
    /\ pc' = "error"
    /\ UNCHANGED <<args, at, shardSize, candidate, best, parity, layout, nextIndex, uploads>>

Begin ==
    /\ pc = "start"
    /\ dataLen # 0
    /\ pc' = "scan"
    /\ UNCHANGED <<args, at, shardSize, candidate, best, parity, layout, nextIndex, uploads>>

\* One iteration of the loop that takes the smallest blob size of all backends.
ScanSize ==
    /\ pc = "scan"
    /\ at < n
    /\ shardSize' = IF maxSize[at] < shardSize THEN maxSize[at] ELSE shardSize
    /\ at' = at + 1
    /\ UNCHANGED <<args, pc, candidate, best, parity, layout, nextIndex, uploads>>

\* After the scan: data that fits into one shard needs no search.
ScanDone ==
    /\ pc = "scan"
    /\ at = n
    /\ at' = 1
    /\ best' = shardSize
    /\ candidate' = shardSize \div 2
    /\ pc' = IF dataLen > shardSize THEN "search" ELSE "parity"
    /\ UNCHANGED <<args, shardSize, parity, layout, nextIndex, uploads>>

\* One iteration of the search for the size with the least padding; candidate
\* holds minShardSize >> at.  Once nothing is left over no later iteration can
\* change the choice, so the loop's own exit (leftover == 0) is the guard here.
TryCandidate ==
    /\ pc = "search"
    /\ at <= MaxDivide
    /\ candidate >= MinCandidate
    /\ dataLen % best # 0
    /\ best' = IF dataLen % candidate < dataLen % best THEN candidate ELSE best
    /\ at' = at + 1
    /\ candidate' = candidate \div 2
    /\ UNCHANGED <<args, pc, shardSize, parity, layout, nextIndex, uploads>>

\* The loop's exits: all divisors tried, the candidate is too small, or
\* nothing is left over.
SearchDone ==
    /\ pc = "search"
    /\ \/ at > MaxDivide
       \/ candidate < MinCandidate
       \/ dataLen % best = 0
    /\ shardSize' = best
    /\ pc' = "parity"
    /\ UNCHANGED <<args, at, candidate, best, parity, layout, nextIndex, uploads>>

\* Mutant of AddParity: the loop does not advance.
AddParityStuck ==
    /\ pc = "parity"
    /\ parity < Lost(n, ft, Total)
    /\ UNCHANGED vars

\* getShardParityCount: one more parity shard until the worst case is covered.
AddParity ==
    /\ pc = "parity"
    /\ parity < Lost(n, ft, Total)
    /\ parity' = parity + 1
    /\ UNCHANGED <<args, pc, at, shardSize, candidate, best, layout, nextIndex, uploads>>

ParityDone ==
    /\ pc = "parity"
    /\ parity >= Lost(n, ft, Total)
    /\ pc' = "distribute"
    /\ at' = 0
    /\ nextIndex' = 0
    /\ UNCHANGED <<args, shardSize, candidate, best, parity, layout, uploads>>

\* The Reed-Solomon library refuses these counts or this shard size (it has
\* limits of its own); nothing has been stored yet.
EncodeFails ==
    /\ pc = "parity"
    /\ parity >= Lost(n, ft, Total)
    /\ pc' = "error"
    /\ UNCHANGED <<args, at, shardSize, candidate, best, parity, layout, nextIndex, uploads>>

\* One iteration of the distribution loop: the next contiguous block.
Distribute ==
    /\ pc = "distribute"
    /\ at < n
    /\ first' = [first EXCEPT ![at] = nextIndex]
    /\ count' = [count EXCEPT ![at] = BlockCount(at)]
    /\ nextIndex' = nextIndex + BlockCount(at)
    /\ at' = at + 1
    /\ UNCHANGED <<args, pc, shardSize, candidate, best, parity, merged, uploads>>

DistributeDone ==
    /\ pc = "distribute"
    /\ at = n
    /\ pc' = "merge"
    /\ at' = 0
    /\ nextIndex' = 0
    /\ UNCHANGED <<args, shardSize, candidate, best, parity, layout, uploads>>

\* Mutant of Merge: every blob starts at the block's first shard.
MergeFromFirst ==
    /\ pc = "merge"
    /\ at < n
    /\ nextIndex < count[at]
    /\ LET left == count[at] - nextIndex
           take == IF left < Fits(at) THEN left ELSE Fits(at)
       IN  /\ merged' = [merged EXCEPT ![at] =
                            Append(@, IndexRange(first[at], first[at] + take - 1))]
           /\ nextIndex' = nextIndex + take
    /\ UNCHANGED <<args, pc, at, shardSize, candidate, best, parity, first, count, uploads>>

\* One blob of backend `at`: as many further encoded shards as it accepts;
\* nextIndex is the loop variable i, an offset into the backend's block.
Merge ==
    /\ pc = "merge"
    /\ at < n
    /\ nextIndex < count[at]
    /\ LET left == count[at] - nextIndex
           take == IF left < Fits(at) THEN left ELSE Fits(at)
           start == first[at] + nextIndex
       IN  /\ merged' = [merged EXCEPT ![at] =
                            Append(@, IndexRange(start, start + take - 1))]
           /\ nextIndex' = nextIndex + take
    /\ UNCHANGED <<args, pc, at, shardSize, candidate, best, parity, first, count, uploads>>

MergeNext ==
    /\ pc = "merge"
    /\ at < n
    /\ nextIndex = count[at]
    /\ at' = at + 1
    /\ nextIndex' = 0
    /\ UNCHANGED <<args, pc, shardSize, candidate, best, parity, layout, uploads>>

MergeDone ==
    /\ pc = "merge"
    /\ at = n
    /\ pc' = "upload"
    /\ UNCHANGED <<args, at, shardSize, candidate, best, parity, layout, nextIndex, uploads>>

\* putShards of backend b: its goroutine stores the next blob ...
PutShard(b) ==
    /\ pc = "upload"
    /\ status[b] = "running"
    /\ put[b] < Len(merged[b])
    /\ put' = [put EXCEPT ![b] = @ + 1]
    /\ UNCHANGED <<args, pc, at, shardSize, candidate, best, parity, layout, nextIndex, status>>

\* ... or the backend refuses it, and the goroutine returns the error; the
\* group has no context, so the other backends carry on.
PutFails(b) ==
    /\ pc = "upload"
    /\ status[b] = "running"
    /\ put[b] < Len(merged[b])
    /\ status' = [status EXCEPT ![b] = "failed"]
    /\ UNCHANGED <<args, pc, at, shardSize, candidate, best, parity, layout, nextIndex, put>>

PutDone(b) ==
    /\ pc = "upload"
    /\ status[b] = "running"
    /\ put[b] = Len(merged[b])
    /\ status' = [status EXCEPT ![b] = "ok"]
    /\ UNCHANGED <<args, pc, at, shardSize, candidate, best, parity, layout, nextIndex, put>>

\* g.Wait(): one failed backend fails the call and no shard list is returned.
Wait ==
    /\ pc = "upload"
    /\ \A b \in Backends : status[b] # "running"
    /\ pc' = IF \E b \in Backends : status[b] = "failed" THEN "error" ELSE "done"
    /\ UNCHANGED <<args, at, shardSize, candidate, best, parity, layout, nextIndex, uploads>>

Terminated ==
    /\ pc \in {"done", "error"}
    /\ UNCHANGED vars

Step ==
    \/ RejectEmpty \/ Begin \/ ScanSize \/ ScanDone \/ TryCandidate \/ SearchDone
    \/ AddParity \/ ParityDone \/ EncodeFails \/ Distribute \/ DistributeDone
    \/ Merge \/ MergeNext \/ MergeDone \/ Wait
    \/ \E b \in Backends : PutShard(b) \/ PutFails(b) \/ PutDone(b)

Next == Step \/ Terminated

Spec == Init /\ [][Next]_vars

\* A goroutine that can run runs: the Go scheduler starves none, and a put
\* returns (with an error at worst).
FairSpec == Spec /\ WF_vars(Step)

-----------------------------------------------------------------------------
(***************************************************************************)
(* CollectShards.                                                          *)
(***************************************************************************)

\* The encoded shards CollectShards gets hold of when the backends in `down`
\* fail every GetShard: their shards are skipped.
Collected(down) == UNION {Indices(b, put[b]) : b \in Backends \ down}

\* collectedShardCount reaches encodedDataShardCount, so Reconstruct has what
\* Reed-Solomon needs.
Restores(down) == Cardinality(Collected(down)) >= DataCount

\* processChunk derives the parity count from the highest index of the shards
\* it was returned, since ShardData does not return it.
MaxShardIndex ==
    CHOOSE m \in 0 .. Total :
        /\ \A b \in Backends : \A i \in DOMAIN merged[b] : merged[b][i].Last <= m
        /\ m = 0 \/ \E b \in Backends : \E i \in DOMAIN merged[b] : merged[b][i].Last = m

\* Mutant of ParityShardCount: the highest index taken for a count.
ParityShardCountOffByOne == MaxShardIndex - DataCount
ParityShardCount == MaxShardIndex + 1 - DataCount

-----------------------------------------------------------------------------
(***************************************************************************)
(* Properties.                                                             *)
(***************************************************************************)
Phases == {"start", "scan", "search", "parity", "distribute", "merge",
           "upload", "done", "error"}
Ranges == [First : Nat, Last : Nat]

\* The types of the variables of ShardData's loops.
TypeOK ==
    /\ n \in Nat \ {0} /\ ft \in 0 .. (n - 1)
    /\ maxSize \in [Backends -> Nat \ {0}]
    /\ dataLen \in Nat
    /\ pc \in Phases
    /\ at \in Nat
    /\ shardSize \in Nat \ {0}
    /\ candidate \in Nat
    /\ best \in Nat
    /\ parity \in Nat
    /\ first \in [Backends -> Nat]
    /\ count \in [Backends -> Nat]
    /\ nextIndex \in Nat
    /\ merged \in [Backends -> Seq(Ranges)]
    /\ put \in [Backends -> Nat]
    /\ status \in [Backends -> {"running", "ok", "failed"}]

\* docs/Storage.md: once ShardData has returned, whichever FailureTolerance (or
\* fewer) backends fail, the shards on the others restore the chunk.
ToleratesFailures ==
    pc = "done" =>
        \A down \in SUBSET Backends : Cardinality(down) <= ft => Restores(down)

\* The blobs ShardData returns address every encoded shard exactly once: merged
\* blobs stay contiguous runs, and none is lost or stored twice.
ShardsPartition ==
    pc = "done" =>
        \A x \in 0 .. (Total - 1) :
            \E b \in Backends : \E i \in DOMAIN merged[b] :
                /\ merged[b][i].First <= x /\ x <= merged[b][i].Last
                /\ \A c \in Backends : \A j \in DOMAIN merged[c] :
                      (merged[c][j].First <= x /\ x <= merged[c][j].Last)
                          => (c = b /\ j = i)

\* No blob is empty or larger than its backend accepts, whatever mixture of
\* blob sizes the backends have (an empty one would loop forever in the merge).
BlobsFit ==
    \A b \in Backends : \A i \in DOMAIN merged[b] :
        /\ merged[b][i].First <= merged[b][i].Last
        /\ (merged[b][i].Last - merged[b][i].First + 1) * shardSize <= maxSize[b]

\* The parity count processChunk derives from the shards is the one the chunk
\* was encoded with (CollectShards would otherwise size its table wrongly).
ParityRecovered == pc = "done" => ParityShardCount = parity

\* The parity loop stops: FailureTolerance parity shards per data shard are
\* always enough, because more backends than FailureTolerance are configured.
ParityBounded ==
    pc \notin {"start", "scan", "search", "error"} => parity <= ft * DataCount

\* The parity count is no larger than needed: with one encoded shard fewer,
\* some FailureTolerance backends would hold too many of them (the worst case
\* of getShardParityCount is one that an even split really has).
ParityNeeded ==
    (pc = "done" /\ parity > 0) =>
        \E down \in SUBSET Backends :
            /\ Cardinality(down) = ft
            /\ LET total == Total - 1
                   held(b) == (total \div n) + (IF b < total % n THEN 1 ELSE 0)
               IN  Cardinality({p \in (Backends \ down) \X (0 .. total) : p[2] < held(p[1])})
                       < DataCount

\* ShardData returns: the size search, the parity search, the merge and the
\* wait for the backends all come to an end.
Returns == <>(pc \in {"done", "error"})
=============================================================================
