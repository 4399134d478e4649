--------------------------- MODULE ShardDataProofs ---------------------------
(***************************************************************************)
(* What module ShardData promises, for every number of backends, every     *)
(* mixture of blob sizes, every failure tolerance and every data length.   *)
(***************************************************************************)
EXTENDS ShardData, FiniteSetTheorems, TLAPS

-----------------------------------------------------------------------------
(***************************************************************************)
(* The inductive invariant, one part per loop of the code.                 *)
(***************************************************************************)
Sized == {"search", "parity", "distribute", "merge", "upload", "done"}
Encoded == {"distribute", "merge", "upload", "done"}
Unmerged == {"start", "scan", "search", "parity", "distribute"}

\* The scan has seen the backends below `at`; afterwards minShardSize is a size
\* every backend accepts, and the search only makes it smaller.
SizeInv ==
    /\ pc = "start" => at = 0
    /\ pc = "scan" =>
          /\ dataLen # 0 /\ at <= n
          /\ \A b \in Backends : b < at => shardSize <= maxSize[b]
    /\ pc = "search" => best \in 1 .. shardSize /\ candidate <= shardSize
    /\ pc \in Sized => dataLen # 0 /\ \A b \in Backends : shardSize <= maxSize[b]

ParityInv ==
    /\ pc \in {"start", "scan", "search"} => parity = 0
    /\ pc \in Encoded \cup {"parity"} => parity <= ft * DataCount
    /\ pc \in Encoded => parity >= Lost(n, ft, Total)

\* Where the distribution loop is before it serves backend b.
StartOf(b) == b * (Total \div n) + (IF b < Total % n THEN b ELSE Total % n)

\* The blocks of the backends below k follow each other without overlap and
\* cover the encoded shards below `end`.
BlocksTo(k, end) ==
    /\ \A b \in Backends : b < k => count[b] = BlockCount(b) /\ first[b] + count[b] <= end
    /\ \A b, c \in Backends : (b < c /\ c < k) => first[b] + count[b] <= first[c]
    /\ \A x \in 0 .. (end - 1) :
          \E b \in Backends : b < k /\ first[b] <= x /\ x < first[b] + count[b]

BlockInv ==
    /\ pc = "distribute" => at <= n /\ nextIndex = StartOf(at) /\ BlocksTo(at, nextIndex)
    /\ pc \in {"merge", "upload", "done"} => BlocksTo(n, Total)

\* The blobs of backend b follow each other without overlap and cover the first
\* k shards of its block.
BlobsOf(b, k) ==
    /\ \A i \in 1 .. Len(merged[b]) :
          first[b] <= merged[b][i].First /\ merged[b][i].Last < first[b] + k
    /\ \A i, j \in 1 .. Len(merged[b]) : i < j => merged[b][i].Last < merged[b][j].First
    /\ \A x \in first[b] .. (first[b] + k - 1) :
          \E i \in 1 .. Len(merged[b]) : merged[b][i].First <= x /\ x <= merged[b][i].Last

MergeInv ==
    /\ pc \in Unmerged => \A b \in Backends : merged[b] = <<>>
    /\ pc = "merge" =>
          /\ at <= n
          /\ \A b \in Backends :
                /\ b < at => BlobsOf(b, count[b])
                /\ b = at => nextIndex <= count[b] /\ BlobsOf(b, nextIndex)
                /\ b > at => merged[b] = <<>>
    /\ pc \in {"upload", "done"} => \A b \in Backends : BlobsOf(b, count[b])

PutInv ==
    /\ \A b \in Backends : put[b] <= Len(merged[b])
    /\ \A b \in Backends :
          status[b] = "ok" => pc \in {"upload", "done", "error"} /\ put[b] = Len(merged[b])
    /\ pc = "done" => \A b \in Backends : status[b] = "ok"

IndInv == TypeOK /\ SizeInv /\ ParityInv /\ BlockInv /\ MergeInv /\ BlobsFit /\ PutInv

-----------------------------------------------------------------------------
(***************************************************************************)
(* Arithmetic.                                                             *)
(***************************************************************************)

\* Go's / and % on non-negative ints: quotient and remainder.
LEMMA DivMod ==
    ASSUME NEW a \in Nat, NEW b \in Nat \ {0}
    PROVE  /\ a \div b \in Nat
           /\ a % b \in 0 .. (b - 1)
           /\ a = b * (a \div b) + (a % b)
  OBVIOUS

\* Products of natural numbers.
LEMMA MulNat == \A a, b \in Nat : a * b \in Nat /\ a * b >= 0
  OBVIOUS

\* A blob that is at least one encoded shard large holds at least one, and what
\* it holds is not larger than it.
LEMMA DivBounds ==
    ASSUME NEW a \in Nat, NEW b \in Nat \ {0}
    PROVE  /\ a >= b => a \div b >= 1
           /\ (a \div b) * b <= a
  <1>1. a \div b \in Nat /\ a % b \in 0 .. (b - 1) /\ a = b * (a \div b) + (a % b)
    BY DivMod
  <1>2. ASSUME a \div b = 0 PROVE a < b
    BY <1>1, <1>2
  <1> QED BY <1>1, <1>2

\* math.Ceil(len / size) for a positive size.
LEMMA CeilDivType ==
    ASSUME NEW a \in Nat, NEW b \in Nat \ {0}
    PROVE  CeilDiv(a, b) \in Nat /\ (a # 0 => CeilDiv(a, b) >= 1)
  <1>1. a + b - 1 \in Nat
    OBVIOUS
  <1> QED BY <1>1, DivMod, DivBounds DEF CeilDiv

\* dataCount of encodeParityShards is positive when there is data.
LEMMA DataCountType ==
    ASSUME TypeOK
    PROVE  /\ DataCount \in Nat
           /\ Total \in Nat
           /\ dataLen # 0 => DataCount >= 1
  <1>1. shardSize \in Nat \ {0} /\ dataLen \in Nat /\ parity \in Nat
    BY DEF TypeOK
  <1> QED BY <1>1, CeilDivType DEF DataCount, Total

\* The even split: q shards each and one more for the first r backends.
LEMMA SplitType ==
    ASSUME TypeOK
    PROVE  /\ Total \div n \in Nat
           /\ Total % n \in 0 .. (n - 1)
           /\ Total = n * (Total \div n) + (Total % n)
           /\ \A b \in Backends : BlockCount(b) \in Nat
           /\ Lost(n, ft, Total) \in Nat
  <1>1. Total \in Nat /\ n \in Nat \ {0} /\ ft \in Nat
    BY DataCountType DEF TypeOK
  <1>2. Total \div n \in Nat /\ Total % n \in 0 .. (n - 1) /\ Total = n * (Total \div n) + (Total % n)
    BY <1>1, DivMod
  <1>3. ft * (Total \div n) \in Nat
    BY <1>1, <1>2
  <1> QED BY <1>1, <1>2, <1>3 DEF BlockCount, Lost

\* Next to f failed backends of n > f, p = f * d parity shards for d data shards
\* are enough: what getShardParityCount computes for that p is at most p.
LEMMA EnoughParity ==
    ASSUME NEW k \in Nat \ {0}, NEW f \in 0 .. (k - 1), NEW d \in Nat, NEW p \in Nat,
           p >= f * d
    PROVE  p >= Lost(k, f, d + p)
  <1> DEFINE q == (d + p) \div k
             r == (d + p) % k
             m == IF f < r THEN f ELSE r
  <1>1. q \in Nat /\ r \in Nat /\ d + p = k * q + r
    <2>1. d + p \in Nat
      OBVIOUS
    <2> QED BY <2>1, DivMod
  <1>2. m \in Nat /\ m <= f /\ m <= r
    BY <1>1
  <1> HIDE DEF q, r, m
  <1>3. f * (d + p) <= (f + 1) * p
    <2>1. f * (d + p) = f * d + f * p
      OBVIOUS
    <2>2. (f + 1) * p = f * p + p
      OBVIOUS
    <2>3. f * d \in Nat /\ f * p \in Nat
      OBVIOUS
    <2> QED BY <2>1, <2>2, <2>3
  <1>4. f * ((f + 1) * q + r) <= f * (d + p)
    <2>1. (f + 1) * q <= k * q
      <3>1. f + 1 <= k
        OBVIOUS
      <3> QED BY <3>1, <1>1
    <2>2. (f + 1) * q + r <= d + p /\ (f + 1) * q + r \in Nat
      BY <2>1, <1>1
    <2> QED BY <2>2
  <1>5. f * ((f + 1) * q + r) = (f + 1) * (f * q) + f * r
    BY <1>1
  <1>6. f * m <= f * r /\ f * m \in Nat /\ f * r \in Nat
    BY <1>1, <1>2
  <1>7. f * q \in Nat
    BY <1>1
  <1>8. ASSUME p <= f * q + m - 1 PROVE FALSE
    <2> DEFINE fq == f * q
    <2>1. (f + 1) * p <= (f + 1) * (fq + m - 1)
      BY <1>8, <1>7, <1>2
    <2>2. (f + 1) * (fq + m - 1) = (f + 1) * fq + f * m + m - f - 1
      BY <1>7, <1>2
    <2>3. (f + 1) * fq + f * r <= (f + 1) * p
      BY <1>3, <1>4, <1>5, <1>7, <1>1
    <2>4. (f + 1) * fq \in Nat /\ (f + 1) * p \in Nat
      BY <1>7
    <2> QED BY <2>1, <2>2, <2>3, <2>4, <1>6, <1>2
  <1>9. p >= f * q + m
    BY <1>8, <1>7, <1>2
  <1> QED BY <1>9 DEF Lost, q, r, m

-----------------------------------------------------------------------------
(***************************************************************************)
(* The invariant is inductive.                                             *)
(***************************************************************************)

\* The data and the parity of a call fix the layout's arithmetic.
LEMMA SameSplit ==
    ASSUME UNCHANGED <<n, ft, dataLen, shardSize, parity>>
    PROVE  /\ DataCount' = DataCount
           /\ Total' = Total
           /\ Lost(n, ft, Total)' = Lost(n, ft, Total)
           /\ \A b : BlockCount(b)' = BlockCount(b)
           /\ \A b : StartOf(b)' = StartOf(b)
           /\ Backends' = Backends
  BY DEF DataCount, Total, CeilDiv, Lost, BlockCount, StartOf, Backends

LEMMA InitInv == Init => IndInv
  <1> SUFFICES ASSUME Init PROVE IndInv
    OBVIOUS
  <1> USE MaxBackendsAssumption, SizesAssumption, DataLengthsAssumption, MaxIntAssumption
  <1>1. TypeOK
    BY SMTT(40) DEF Init, TypeOK, Backends, Phases
  <1>2. SizeInv
    BY DEF Init, SizeInv, Sized
  <1>3. ParityInv
    BY DEF Init, ParityInv, Encoded
  <1>4. BlockInv
    BY DEF Init, BlockInv
  <1>5. MergeInv
    BY DEF Init, MergeInv, Unmerged, Backends
  <1>6. BlobsFit
    BY DEF Init, BlobsFit, Backends
  <1>7. PutInv
    BY DEF Init, PutInv, Backends
  <1> QED BY <1>1, <1>2, <1>3, <1>4, <1>5, <1>6, <1>7 DEF IndInv

\* The steps before the encoded shards exist: only the sizes matter.
LEMMA SizeSteps ==
    ASSUME IndInv, RejectEmpty \/ Begin \/ ScanSize \/ ScanDone \/ TryCandidate \/ SearchDone
    PROVE  IndInv'
  <1> USE MinCandidateAssumption
  <1>1. TypeOK'
    <2>1. CASE RejectEmpty
      BY <2>1 DEF IndInv, RejectEmpty, TypeOK, Phases, args, layout, uploads, Backends
    <2>2. CASE Begin
      BY <2>2 DEF IndInv, Begin, TypeOK, Phases, args, layout, uploads, Backends
    <2>3. CASE ScanSize
      <3>1. at \in Backends
        BY <2>3 DEF ScanSize, IndInv, TypeOK, Backends
      <3>2. maxSize[at] \in Nat \ {0}
        BY <3>1 DEF IndInv, TypeOK
      <3>3. shardSize' \in Nat \ {0} /\ at' \in Nat
        BY <2>3, <3>2 DEF ScanSize, IndInv, TypeOK
      <3> QED BY <2>3, <3>3 DEF IndInv, ScanSize, TypeOK, Phases, args, layout, uploads, Backends
    <2>4. CASE ScanDone
      <3>1. shardSize \div 2 \in Nat
        BY DivMod DEF IndInv, TypeOK
      <3> QED BY <2>4, <3>1 DEF IndInv, ScanDone, TypeOK, Phases, args, layout, uploads, Backends
    <2>5. CASE TryCandidate
      <3>1. candidate \div 2 \in Nat
        BY DivMod DEF IndInv, TypeOK
      <3>2. best' \in Nat /\ at' \in Nat /\ candidate' \in Nat
        BY <2>5, <3>1 DEF TryCandidate, IndInv, TypeOK
      <3> QED BY <2>5, <3>2 DEF IndInv, TryCandidate, TypeOK, Phases, args, layout, uploads, Backends
    <2>6. CASE SearchDone
      <3>1. shardSize' \in Nat \ {0}
        BY <2>6 DEF SearchDone, IndInv, SizeInv, TypeOK
      <3> QED BY <2>6, <3>1 DEF IndInv, SearchDone, TypeOK, Phases, args, layout, uploads, Backends
    <2> QED BY <2>1, <2>2, <2>3, <2>4, <2>5, <2>6
  <1>2. SizeInv'
    <2>1. CASE RejectEmpty
      BY <2>1 DEF IndInv, RejectEmpty, SizeInv, Sized, args, Backends
    <2>2. CASE Begin
      BY <2>2 DEF IndInv, Begin, TypeOK, SizeInv, Sized, args, Backends
    <2>3. CASE ScanSize
      <3>1. at \in Backends /\ maxSize[at] \in Nat \ {0} /\ shardSize \in Nat
        BY <2>3 DEF ScanSize, IndInv, TypeOK, Backends
      <3>2. shardSize' <= shardSize /\ shardSize' <= maxSize[at] /\ shardSize' \in Nat
        BY <2>3, <3>1 DEF ScanSize
      <3>3. \A b \in Backends : b < at + 1 => shardSize' <= maxSize[b]
        <4> SUFFICES ASSUME NEW b \in Backends, b < at + 1 PROVE shardSize' <= maxSize[b]
          OBVIOUS
        <4>1. b < at \/ b = at
          BY <3>1 DEF Backends, IndInv, TypeOK
        <4>2. CASE b < at
          BY <2>3, <3>1, <3>2, <4>2 DEF ScanSize, IndInv, SizeInv, TypeOK
        <4> QED BY <4>1, <4>2, <3>2
      <3>4. at + 1 <= n
        BY <3>1 DEF Backends, IndInv, TypeOK
      <3> QED BY <2>3, <3>3, <3>4 DEF IndInv, ScanSize, SizeInv, Sized, args, Backends
    <2>4. CASE ScanDone
      <3>1. shardSize \div 2 <= shardSize
        BY DEF IndInv, TypeOK
      <3>2. \A b \in Backends : shardSize <= maxSize[b]
        BY <2>4 DEF IndInv, ScanDone, TypeOK, SizeInv, Backends
      <3> QED BY <2>4, <3>1, <3>2 DEF IndInv, ScanDone, TypeOK, SizeInv, Sized, args, Backends
    <2>5. CASE TryCandidate
      <3>1. candidate \div 2 <= candidate
        BY DEF IndInv, TypeOK
      <3>2. candidate >= 1 /\ candidate \div 2 \in Nat
        BY <2>5, DivMod DEF TryCandidate, IndInv, TypeOK
      <3> QED BY <2>5, <3>1, <3>2 DEF IndInv, TryCandidate, TypeOK, SizeInv, Sized, args, Backends
    <2>6. CASE SearchDone
      BY SMTT(40), <2>6 DEF IndInv, SearchDone, TypeOK, SizeInv, Sized, args, Backends
    <2> QED BY <2>1, <2>2, <2>3, <2>4, <2>5, <2>6
  <1>3. ParityInv'
    <2>1. parity = 0 /\ parity' = parity /\ ft' = ft /\ pc' \notin Encoded
      BY DEF IndInv, ParityInv, RejectEmpty, Begin, ScanSize, ScanDone, TryCandidate, SearchDone,
             args, Encoded
    <2>2. DataCount' \in Nat /\ ft' \in Nat
      <3>1. dataLen' \in Nat /\ shardSize' \in Nat \ {0} /\ ft' \in Nat
        BY <1>1 DEF TypeOK
      <3> QED BY <3>1, CeilDivType DEF DataCount
    <2>3. ft' * DataCount' >= 0
      BY <2>2, MulNat
    <2> QED BY <2>1, <2>3 DEF ParityInv
  <1>4. BlockInv'
    BY DEF BlockInv, RejectEmpty, Begin, ScanSize, ScanDone, TryCandidate, SearchDone
  <1>5. MergeInv' /\ BlobsFit'
    <2>1. /\ pc \in Unmerged /\ pc' \notin {"merge", "upload", "done"}
          /\ merged' = merged /\ n' = n
      BY DEF RejectEmpty, Begin, ScanSize, ScanDone, TryCandidate, SearchDone, args, layout, Unmerged
    <2>2. \A b \in Backends' : merged'[b] = <<>>
      BY <2>1 DEF IndInv, MergeInv, Backends
    <2> QED BY <2>1, <2>2 DEF MergeInv, BlobsFit
  <1>6. PutInv'
    BY DEF IndInv, PutInv, RejectEmpty, Begin, ScanSize, ScanDone, TryCandidate, SearchDone,
           args, layout, uploads, Backends
  <1> QED BY <1>1, <1>2, <1>3, <1>4, <1>5, <1>6 DEF IndInv

\* The parity search: it stops no later than at ft * DataCount, and no earlier
\* than the worst case of ft failed backends is covered.
LEMMA ParitySteps ==
    ASSUME IndInv, AddParity \/ ParityDone \/ EncodeFails
    PROVE  IndInv'
  <1>1. TypeOK'
    <2>1. parity' \in Nat /\ at' \in Nat /\ nextIndex' \in Nat /\ pc' \in Phases
      BY DEF IndInv, AddParity, ParityDone, EncodeFails, TypeOK, Phases
    <2>2. UNCHANGED <<n, ft, maxSize, dataLen, shardSize, candidate, best, first, count, merged, put, status>>
      BY DEF AddParity, ParityDone, EncodeFails, args, layout, uploads
    <2> QED BY <2>1, <2>2 DEF IndInv, TypeOK, Backends
  <1>2. SizeInv'
    BY DEF IndInv, AddParity, ParityDone, EncodeFails, SizeInv, Sized, args, Backends
  <1>3. ParityInv'
    <2>0. DataCount' = DataCount /\ ft' = ft /\ n' = n
      BY DEF AddParity, ParityDone, EncodeFails, args, DataCount, CeilDiv
    <2>1. CASE AddParity
      <3>1. /\ n \in Nat \ {0} /\ ft \in 0 .. (n - 1) /\ parity \in Nat /\ DataCount \in Nat
        BY DataCountType DEF IndInv, TypeOK
      <3>2. parity < Lost(n, ft, DataCount + parity) /\ Lost(n, ft, DataCount + parity) \in Nat
        BY <2>1, SplitType DEF AddParity, Total, IndInv
      <3>3. ASSUME parity >= ft * DataCount PROVE FALSE
        <4>1. parity >= Lost(n, ft, DataCount + parity)
          BY <3>1, <3>3, EnoughParity
        <4> QED BY <3>1, <3>2, <4>1
      <3>4. ft * DataCount \in Nat
        BY <3>1, MulNat
      <3>5. parity + 1 <= ft * DataCount
        BY <3>1, <3>3, <3>4
      <3> QED BY <2>0, <2>1, <3>5 DEF AddParity, ParityInv, Encoded
    <2>2. CASE ParityDone
      <3>1. Lost(n, ft, Total)' = Lost(n, ft, Total)
        BY <2>2, SameSplit DEF ParityDone, args
      <3> QED BY <2>0, <2>2, <3>1 DEF ParityDone, IndInv, ParityInv, Encoded
    <2>3. CASE EncodeFails
      BY <2>3 DEF EncodeFails, ParityInv, Encoded
    <2> QED BY <2>1, <2>2, <2>3
  <1>4. BlockInv'
    <2>1. CASE ParityDone
      <3>1. n' = n /\ Backends' = Backends /\ nextIndex' = 0 /\ at' = 0 /\ pc' = "distribute"
        BY <2>1 DEF ParityDone, args, Backends
      <3>2. n \in Nat \ {0} /\ Total % n \in 0 .. (n - 1) /\ Total \div n \in Nat
        BY SplitType DEF IndInv, TypeOK
      <3>3. StartOf(0) = 0
        BY <3>2 DEF StartOf
      <3>4. StartOf(0)' = StartOf(0)
        BY <2>1, SameSplit DEF ParityDone, args
      <3>5. nextIndex' = StartOf(at)' /\ at' <= n'
        BY <3>1, <3>2, <3>3, <3>4 DEF StartOf
      <3>6. BlocksTo(at, nextIndex)'
        BY <3>1 DEF BlocksTo, Backends
      <3> QED BY <3>1, <3>5, <3>6 DEF BlockInv
    <2> QED BY <2>1 DEF AddParity, EncodeFails, BlockInv
  <1>5. MergeInv' /\ BlobsFit'
    <2>1. /\ pc \in Unmerged /\ pc' \notin {"merge", "upload", "done"}
          /\ merged' = merged /\ n' = n
      BY DEF AddParity, ParityDone, EncodeFails, args, layout, Unmerged
    <2>2. \A b \in Backends' : merged'[b] = <<>>
      BY <2>1 DEF IndInv, MergeInv, Backends
    <2> QED BY <2>1, <2>2 DEF MergeInv, BlobsFit
  <1>6. PutInv'
    BY DEF IndInv, PutInv, AddParity, ParityDone, EncodeFails, args, layout, uploads, Backends
  <1> QED BY <1>1, <1>2, <1>3, <1>4, <1>5, <1>6 DEF IndInv

\* The distribution loop: after backend b the next index is that of b + 1.
LEMMA NextBlock ==
    ASSUME TypeOK, NEW b \in Backends
    PROVE  /\ StartOf(b) \in Nat
           /\ StartOf(b) + BlockCount(b) = StartOf(b + 1)
           /\ StartOf(n) = Total
  <1> DEFINE q == Total \div n
             r == Total % n
  <1>1. q \in Nat /\ r \in 0 .. (n - 1) /\ Total = n * q + r /\ n \in Nat \ {0} /\ b \in Nat
    <2>1. q \in Nat /\ r \in 0 .. (n - 1) /\ Total = n * q + r
      BY SplitType
    <2>2. n \in Nat \ {0} /\ b \in Nat
      BY DEF TypeOK, Backends
    <2> QED BY <2>1, <2>2
  <1> HIDE DEF q, r
  <1>2. b * q \in Nat /\ (b + 1) * q = b * q + q /\ n * q \in Nat
    BY <1>1
  <1>3. StartOf(b) = b * q + (IF b < r THEN b ELSE r)
    BY DEF StartOf, q, r
  <1>4. StartOf(b + 1) = (b + 1) * q + (IF b + 1 < r THEN b + 1 ELSE r)
    BY DEF StartOf, q, r
  <1>5. BlockCount(b) = q + (IF b < r THEN 1 ELSE 0)
    BY DEF BlockCount, q, r
  <1>6. StartOf(n) = n * q + r
    BY <1>1 DEF StartOf, q, r
  <1> QED BY <1>1, <1>2, <1>3, <1>4, <1>5, <1>6

LEMMA DistributeStep ==
    ASSUME IndInv, Distribute
    PROVE  IndInv'
  <1>0. /\ at \in Backends /\ n \in Nat /\ at \in Nat /\ nextIndex \in Nat /\ BlockCount(at) \in Nat
        /\ first \in [Backends -> Nat] /\ count \in [Backends -> Nat]
        /\ Backends \subseteq Nat
    <2>1. at \in Backends /\ n \in Nat /\ at \in Nat /\ nextIndex \in Nat /\ Backends \subseteq Nat
      BY DEF IndInv, TypeOK, Distribute, Backends
    <2>2. BlockCount(at) \in Nat
      BY <2>1, SplitType DEF IndInv
    <2> QED BY <2>1, <2>2 DEF IndInv, TypeOK
  <1>S. /\ DataCount' = DataCount /\ Total' = Total /\ Backends' = Backends
        /\ Lost(n, ft, Total)' = Lost(n, ft, Total)
        /\ \A b : BlockCount(b)' = BlockCount(b) /\ StartOf(b)' = StartOf(b)
    BY SameSplit DEF Distribute, args
  <1>1. TypeOK'
    <2>1. first' \in [Backends -> Nat] /\ count' \in [Backends -> Nat] /\ nextIndex' \in Nat /\ at' \in Nat
      BY <1>0 DEF Distribute
    <2> QED BY <2>1, <1>S DEF IndInv, Distribute, TypeOK, Phases, args, uploads
  <1>2. SizeInv'
    BY <1>S DEF IndInv, Distribute, SizeInv, Sized, args
  <1>3. ParityInv'
    BY <1>S DEF IndInv, Distribute, ParityInv, Encoded, args
  <1>4. BlockInv'
    <2>1. nextIndex = StartOf(at) /\ BlocksTo(at, nextIndex)
      BY DEF IndInv, Distribute, BlockInv
    <2>2. /\ nextIndex' = nextIndex + BlockCount(at) /\ at' = at + 1 /\ pc' = "distribute"
          /\ first' = [first EXCEPT ![at] = nextIndex]
          /\ count' = [count EXCEPT ![at] = BlockCount(at)]
          /\ n' = n
      BY DEF Distribute, args
    <2>3. nextIndex' = StartOf(at)'
      <3>1. nextIndex' = StartOf(at + 1)
        BY <2>1, <2>2, <1>0, NextBlock DEF IndInv
      <3>2. StartOf(at)' = StartOf(at + 1)
        BY <2>2, <1>S DEF StartOf
      <3> QED BY <3>1, <3>2
    <2>4. at' <= n'
      BY <1>0, <2>2 DEF Backends
    <2>5. first'[at] = nextIndex /\ count'[at] = BlockCount(at)
      BY <1>0, <2>2
    <2>6. \A b \in Backends : b # at => first'[b] = first[b] /\ count'[b] = count[b]
      BY <1>0, <2>2
    <2>7. BlocksTo(at, nextIndex)'
      <3>1. ASSUME NEW b \in Backends, b < at'
            PROVE  count'[b] = BlockCount(b) /\ first'[b] + count'[b] <= nextIndex'
        <4>1. CASE b = at
          BY <4>1, <2>5, <2>2, <1>0
        <4>2. CASE b # at
          <5>1. b < at
            BY <4>2, <3>1, <2>2, <1>0
          <5>2. count[b] = BlockCount(b) /\ first[b] + count[b] <= nextIndex
            BY <5>1, <2>1 DEF BlocksTo
          <5> QED BY <5>2, <4>2, <2>6, <2>2, <1>0
        <4> QED BY <4>1, <4>2
      <3>2. ASSUME NEW b \in Backends, NEW c \in Backends, b < c, c < at'
            PROVE  first'[b] + count'[b] <= first'[c]
        <4>1. b < at /\ b # at /\ (c = at \/ c < at)
          BY <3>2, <2>2, <1>0
        <4>2. CASE c = at
          BY <4>1, <4>2, <2>1, <2>5, <2>6 DEF BlocksTo
        <4>3. CASE c < at
          BY <4>1, <4>3, <3>2, <2>1, <2>6, <1>0 DEF BlocksTo
        <4> QED BY <4>1, <4>2, <4>3
      <3>3. ASSUME NEW x \in 0 .. (nextIndex' - 1)
            PROVE  \E b \in Backends : b < at' /\ first'[b] <= x /\ x < first'[b] + count'[b]
        <4>1. CASE x < nextIndex
          <5>1. x \in 0 .. (nextIndex - 1)
            BY <4>1, <1>0
          <5>2. PICK b \in Backends : b < at /\ first[b] <= x /\ x < first[b] + count[b]
            BY <5>1, <2>1 DEF BlocksTo
          <5>3. b # at /\ b < at'
            BY <5>2, <2>2, <1>0
          <5> QED BY <5>2, <5>3, <2>6
        <4>2. CASE ~(x < nextIndex)
          <5>1. first'[at] <= x /\ x < first'[at] + count'[at] /\ at < at'
            BY <4>2, <2>2, <2>5, <1>0
          <5> QED BY <5>1, <1>0
        <4> QED BY <4>1, <4>2
      <3> QED BY <3>1, <3>2, <3>3, <1>S DEF BlocksTo
    <2> QED BY <2>2, <2>3, <2>4, <2>7 DEF BlockInv
  <1>5. MergeInv' /\ BlobsFit'
    <2>1. /\ pc \in Unmerged /\ pc' \notin {"merge", "upload", "done"}
          /\ merged' = merged
      BY DEF Distribute, args, Unmerged
    <2>2. \A b \in Backends' : merged'[b] = <<>>
      BY <2>1, <1>S DEF IndInv, MergeInv
    <2> QED BY <2>1, <2>2 DEF MergeInv, BlobsFit
  <1>6. PutInv'
    BY <1>S DEF IndInv, PutInv, Distribute, args, uploads
  <1> QED BY <1>1, <1>2, <1>3, <1>4, <1>5, <1>6 DEF IndInv

\* Neither the blocks nor the blobs change: the invariants on them carry over.
LEMMA SameLayout ==
    ASSUME UNCHANGED <<n, ft, dataLen, shardSize, parity, maxSize, first, count, merged>>
    PROVE  /\ \A k, end : BlocksTo(k, end)' = BlocksTo(k, end)
           /\ \A b, k : BlobsOf(b, k)' = BlobsOf(b, k)
           /\ BlobsFit' = BlobsFit
  <1>1. Backends' = Backends /\ \A b : BlockCount(b)' = BlockCount(b)
    BY SameSplit
  <1> QED BY <1>1 DEF BlocksTo, BlobsOf, BlobsFit

LEMMA DistributeDoneStep ==
    ASSUME IndInv, DistributeDone
    PROVE  IndInv'
  <1>S. /\ DataCount' = DataCount /\ Total' = Total /\ Backends' = Backends
        /\ Lost(n, ft, Total)' = Lost(n, ft, Total)
    BY SameSplit DEF DistributeDone, args
  <1>1. TypeOK'
    BY <1>S DEF IndInv, DistributeDone, TypeOK, Phases, args, layout, uploads
  <1>2. SizeInv'
    BY <1>S DEF IndInv, DistributeDone, SizeInv, Sized, args
  <1>3. ParityInv'
    BY <1>S DEF IndInv, DistributeDone, ParityInv, Encoded, args
  <1>4. BlockInv'
    <2>1. BlocksTo(n, StartOf(n))
      BY DEF IndInv, DistributeDone, BlockInv
    <2>2. StartOf(n) = Total
      <3>1. 0 \in Backends
        BY DEF IndInv, TypeOK, Backends
      <3> QED BY <3>1, NextBlock DEF IndInv
    <2>3. BlocksTo(n, Total)' = BlocksTo(n, Total)
      BY <1>S, SameLayout DEF DistributeDone, args, layout, BlocksTo, BlockCount
    <2> QED BY <2>1, <2>2, <2>3 DEF BlockInv, DistributeDone
  <1>5. MergeInv' /\ BlobsFit'
    <2>1. \A b \in Backends' : merged'[b] = <<>>
      BY <1>S DEF IndInv, MergeInv, DistributeDone, layout, Unmerged
    <2>2. pc' = "merge" /\ at' = 0 /\ nextIndex' = 0 /\ n' = n /\ n \in Nat
      BY DEF DistributeDone, args, IndInv, TypeOK
    <2>3. \A b \in Backends : b \in Nat /\ count'[b] \in Nat /\ first'[b] \in Nat
      BY DEF IndInv, TypeOK, DistributeDone, layout, Backends
    <2>4. ASSUME NEW b \in Backends', b = 0
          PROVE  nextIndex' <= count'[b] /\ BlobsOf(b, nextIndex)'
      BY <2>1, <2>2, <2>3, <2>4, <1>S DEF BlobsOf
    <2> QED BY <2>1, <2>2, <2>3, <2>4, <1>S DEF MergeInv, BlobsFit, Unmerged
  <1>6. PutInv'
    BY <1>S DEF IndInv, PutInv, DistributeDone, args, layout, uploads
  <1> QED BY <1>1, <1>2, <1>3, <1>4, <1>5, <1>6 DEF IndInv

\* What appending one blob does to the list of a backend's blobs.
LEMMA AppendFacts ==
    ASSUME NEW S, NEW s \in Seq(S), NEW e \in S
    PROVE  /\ Append(s, e) \in Seq(S)
           /\ Len(Append(s, e)) = Len(s) + 1
           /\ Append(s, e)[Len(s) + 1] = e
           /\ \A i \in 1 .. Len(s) : Append(s, e)[i] = s[i]
           /\ \A i \in 1 .. Len(s) : s[i] \in S
  OBVIOUS

\* One more blob: it continues where the last one ended, holds at least one
\* encoded shard and fits.
LEMMA MergeStep ==
    ASSUME IndInv, Merge
    PROVE  IndInv'
  <1> DEFINE left == count[at] - nextIndex
             take == IF left < Fits(at) THEN left ELSE Fits(at)
             start == first[at] + nextIndex
             new == IndexRange(start, start + take - 1)
             len == Len(merged[at])
  <1>S. /\ DataCount' = DataCount /\ Total' = Total /\ Backends' = Backends
        /\ Lost(n, ft, Total)' = Lost(n, ft, Total)
        /\ \A b : BlockCount(b)' = BlockCount(b)
    BY SameSplit DEF Merge, args
  <1>0. /\ at \in Backends /\ n \in Nat /\ nextIndex \in Nat /\ nextIndex < count[at]
        /\ count[at] \in Nat /\ first[at] \in Nat /\ Backends \subseteq Nat
        /\ shardSize \in Nat \ {0} /\ maxSize[at] \in Nat \ {0} /\ shardSize <= maxSize[at]
        /\ merged[at] \in Seq(Ranges) /\ len \in Nat
    BY DEF IndInv, TypeOK, SizeInv, Sized, Merge, Backends
  <1>1. Fits(at) \in Nat /\ Fits(at) >= 1 /\ Fits(at) * shardSize <= maxSize[at]
    <2>1. maxSize[at] \div shardSize \in Nat
      BY <1>0, DivMod
    <2>2. maxSize[at] \div shardSize >= 1 /\ (maxSize[at] \div shardSize) * shardSize <= maxSize[at]
      BY <1>0, DivBounds
    <2> QED BY <2>1, <2>2 DEF Fits
  <1>2. take \in Nat /\ take >= 1 /\ take <= Fits(at) /\ nextIndex + take <= count[at]
    BY SMTT(40), <1>0, <1>1
  <1>3. take * shardSize <= maxSize[at]
    <2>1. take * shardSize <= Fits(at) * shardSize
      <3>1. \A a, b, c \in Nat : a <= b => a * c <= b * c
        OBVIOUS
      <3> QED BY <3>1, <1>0, <1>1, <1>2
    <2>2. take * shardSize \in Nat /\ Fits(at) * shardSize \in Nat
      BY <1>0, <1>1, <1>2, MulNat
    <2> QED BY SMTT(40), <2>1, <2>2, <1>0, <1>1
  <1>4. /\ merged' = [merged EXCEPT ![at] = Append(merged[at], new)]
        /\ nextIndex' = nextIndex + take
        /\ UNCHANGED <<n, ft, maxSize, dataLen, pc, at, shardSize, candidate, best, parity,
                       first, count, put, status>>
        /\ pc = "merge"
    BY DEF Merge, args, uploads
  <1> HIDE DEF left, take
  <1>5. new \in Ranges /\ new.First = start /\ new.Last = start + take - 1 /\ start \in Nat
    <2>1. start \in Nat /\ start + take - 1 \in Nat
      BY SMTT(40), <1>0, <1>2
    <2> QED BY <2>1 DEF IndexRange, Ranges
  <1> HIDE DEF new
  <1>6. /\ merged'[at] = Append(merged[at], new) /\ Len(merged'[at]) = len + 1
        /\ merged'[at][len + 1] = new
        /\ \A i \in 1 .. len : merged'[at][i] = merged[at][i]
        /\ \A i \in 1 .. len : merged[at][i] \in Ranges
        /\ \A b \in Backends : b # at => merged'[b] = merged[b]
    <2>1. merged'[at] = Append(merged[at], new) /\ \A b \in Backends : b # at => merged'[b] = merged[b]
      BY <1>4, <1>0 DEF IndInv, TypeOK
    <2>2. merged[at] \in Seq(Ranges) /\ new \in Ranges
      BY <1>0, <1>5
    <2> HIDE DEF start
    <2> QED BY <2>1, <2>2, AppendFacts
  <1>7. TypeOK'
    <2>1. merged' \in [Backends -> Seq(Ranges)]
      <3>1. merged'[at] \in Seq(Ranges)
        BY <1>6, <1>0, <1>5, AppendFacts
      <3> QED BY <3>1, <1>4, <1>5, <1>0 DEF IndInv, TypeOK
    <2>2. nextIndex' \in Nat
      BY <1>4, <1>2, <1>0
    <2> QED BY <2>1, <2>2, <1>4, <1>S DEF IndInv, TypeOK
  <1>8. SizeInv' /\ ParityInv'
    BY <1>4, <1>S DEF IndInv, SizeInv, Sized, ParityInv, Encoded
  <1>9. BlockInv'
    <2>1. BlocksTo(n, Total)
      BY <1>4 DEF IndInv, BlockInv
    <2>2. BlocksTo(n, Total)'
      BY <2>1, <1>4, <1>S DEF BlocksTo
    <2> QED BY <2>2, <1>4 DEF BlockInv
  <1>10. MergeInv'
    <2>1. /\ at <= n
          /\ \A b \in Backends :
                /\ b < at => BlobsOf(b, count[b])
                /\ b = at => BlobsOf(at, nextIndex)
                /\ b > at => merged[b] = <<>>
      BY <1>4 DEF IndInv, MergeInv
    <2>2. BlobsOf(at, nextIndex)
      BY <2>1, <1>0
    <2>3. BlobsOf(at, nextIndex)'
      <3>1. ASSUME NEW i \in 1 .. (len + 1)
            PROVE  /\ first[at] <= merged'[at][i].First
                   /\ merged'[at][i].Last < first[at] + nextIndex'
        <4>1. CASE i = len + 1
          BY SMTT(40), <4>1, <1>6, <1>5, <1>4, <1>2, <1>0
        <4>2. CASE i \in 1 .. len
          <5>1. merged'[at][i] = merged[at][i] /\ merged[at][i] \in Ranges
            BY <4>2, <1>6
          <5>2. first[at] <= merged[at][i].First /\ merged[at][i].Last < first[at] + nextIndex
            BY <4>2, <2>2 DEF BlobsOf
          <5>3. merged[at][i].Last \in Nat
            BY <5>1 DEF Ranges
          <5>4. nextIndex' \in Nat /\ nextIndex <= nextIndex'
            BY <1>4, <1>2, <1>0
          <5>5. merged[at][i].Last < first[at] + nextIndex'
            BY SMTT(40), <5>2, <5>3, <5>4, <1>0
          <5> QED BY <5>1, <5>2, <5>5
        <4> QED BY <4>1, <4>2, <1>0
      <3>2. ASSUME NEW i \in 1 .. (len + 1), NEW j \in 1 .. (len + 1), i < j
            PROVE  merged'[at][i].Last < merged'[at][j].First
        <4>1. i \in 1 .. len /\ merged'[at][i] = merged[at][i]
          BY <3>2, <1>6, <1>0
        <4>2. CASE j = len + 1
          <5>1. merged[at][i].Last < first[at] + nextIndex
            BY <4>1, <2>2 DEF BlobsOf
          <5> QED BY <4>1, <4>2, <5>1, <1>6, <1>5
        <4>3. CASE j \in 1 .. len
          BY <4>1, <4>3, <3>2, <2>2, <1>6 DEF BlobsOf
        <4> QED BY <4>2, <4>3, <1>0
      <3>3. ASSUME NEW x \in first[at] .. (first[at] + nextIndex' - 1)
            PROVE  \E i \in 1 .. (len + 1) : merged'[at][i].First <= x /\ x <= merged'[at][i].Last
        <4>1. CASE x < start
          <5>1. x \in first[at] .. (first[at] + nextIndex - 1)
            BY SMTT(40), <4>1, <3>3, <1>0, <1>4, <1>2
          <5>2. PICK i \in 1 .. len : merged[at][i].First <= x /\ x <= merged[at][i].Last
            BY <5>1, <2>2 DEF BlobsOf
          <5> QED BY <5>2, <1>6, <1>0
        <4>2. CASE ~(x < start)
          <5>1. new.First <= x /\ x <= new.Last
            BY <4>2, <3>3, <1>0, <1>4, <1>2, <1>5
          <5> QED BY SMTT(40), <5>1, <1>6, <1>0
        <4> QED BY <4>1, <4>2
      <3> QED BY SMTT(40), <3>1, <3>2, <3>3, <1>4, <1>6, <1>0 DEF BlobsOf
    <2>4. ASSUME NEW b \in Backends, b < at
          PROVE  BlobsOf(b, count[b])'
      <3>1. b # at /\ merged'[b] = merged[b]
        BY SMTT(40), <2>4, <1>6, <1>0
      <3> QED BY <2>1, <2>4, <3>1, <1>4 DEF BlobsOf
    <2>5. ASSUME NEW b \in Backends, b > at
          PROVE  merged'[b] = <<>>
      BY SMTT(40), <2>1, <2>5, <1>6, <1>0
    <2>6. nextIndex' <= count'[at]
      BY <1>4, <1>2
    <2>7. \A b \in Backends' :
             /\ b < at' => BlobsOf(b, count[b])'
             /\ b = at' => nextIndex' <= count'[b] /\ BlobsOf(b, nextIndex)'
             /\ b > at' => merged'[b] = <<>>
      BY SMTT(40), <2>3, <2>4, <2>5, <2>6, <1>4, <1>S DEF BlobsOf
    <2> QED BY <2>1, <2>7, <1>4 DEF MergeInv, Unmerged
  <1>11. BlobsFit'
    <2>1. ASSUME NEW b \in Backends, NEW i \in DOMAIN merged'[b]
          PROVE  /\ merged'[b][i].First <= merged'[b][i].Last
                 /\ (merged'[b][i].Last - merged'[b][i].First + 1) * shardSize <= maxSize[b]
      <3>1. CASE b # at
        BY <3>1, <1>6 DEF IndInv, BlobsFit
      <3>2. CASE b = at /\ i = len + 1
        <4>1. merged'[b][i] = new
          BY <3>2, <1>6
        <4>2. new.Last - new.First + 1 = take
          BY <1>5, <1>2
        <4>3. new.First <= new.Last
          BY <1>5, <1>2
        <4> QED BY <3>2, <4>1, <4>2, <4>3, <1>3
      <3>3. CASE b = at /\ i # len + 1
        <4>1. i \in 1 .. len
          BY <3>3, <1>6, <1>0, <1>5
        <4>2. i \in DOMAIN merged[at] /\ merged'[at][i] = merged[at][i]
          BY <4>1, <1>6, <1>0
        <4> QED BY <3>3, <4>2 DEF IndInv, BlobsFit
      <3> QED BY <3>1, <3>2, <3>3
    <2> QED BY <2>1, <1>4, <1>S DEF BlobsFit
  <1>12. PutInv'
    <2>1. \A b \in Backends : put[b] <= Len(merged[b]) /\ status[b] # "ok" /\ put[b] \in Nat
      BY <1>4 DEF IndInv, PutInv, TypeOK
    <2>2. \A b \in Backends : put[b] <= Len(merged'[b])
      BY SMTT(40), <2>1, <1>6, <1>0
    <2> QED BY <2>1, <2>2, <1>4, <1>S DEF PutInv
  <1> QED BY <1>7, <1>8, <1>9, <1>10, <1>11, <1>12 DEF IndInv

\* The merge loop goes on to the next backend, whose blobs are still to come.
LEMMA MergeNextStep ==
    ASSUME IndInv, MergeNext
    PROVE  IndInv'
  <1>S. /\ DataCount' = DataCount /\ Total' = Total /\ Backends' = Backends
        /\ Lost(n, ft, Total)' = Lost(n, ft, Total)
    BY SameSplit DEF MergeNext, args
  <1>0. /\ at \in Backends /\ n \in Nat /\ at \in Nat /\ Backends = 0 .. (n - 1)
        /\ nextIndex = count[at] /\ pc = "merge"
        /\ \A b \in Backends : count[b] \in Nat /\ first[b] \in Nat
    BY SMTT(40) DEF IndInv, TypeOK, MergeNext, Backends
  <1>1. /\ at' = at + 1 /\ nextIndex' = 0
        /\ UNCHANGED <<n, ft, maxSize, dataLen, pc, shardSize, candidate, best, parity,
                       first, count, merged, put, status>>
    BY DEF MergeNext, args, layout, uploads
  <1>L. /\ \A k, end : BlocksTo(k, end)' = BlocksTo(k, end)
        /\ \A b, k : BlobsOf(b, k)' = BlobsOf(b, k)
        /\ BlobsFit' = BlobsFit
    BY <1>1, SameLayout
  <1>2. TypeOK'
    <2>1. at' \in Nat /\ nextIndex' \in Nat
      BY <1>0, <1>1
    <2> QED BY <2>1, <1>1, <1>S DEF IndInv, TypeOK
  <1>3. SizeInv' /\ ParityInv' /\ PutInv'
    BY <1>0, <1>1, <1>S DEF IndInv, SizeInv, Sized, ParityInv, Encoded, PutInv
  <1>4. BlockInv'
    <2>1. BlocksTo(n, Total)
      BY <1>0 DEF IndInv, BlockInv
    <2>2. BlocksTo(n, Total)'
      BY <2>1, <1>1, <1>S, SameSplit DEF BlocksTo
    <2> QED BY <2>2, <1>0, <1>1 DEF BlockInv
  <1>5. MergeInv'
    <2>1. \A b \in Backends :
             /\ b < at => BlobsOf(b, count[b])
             /\ b = at => BlobsOf(b, nextIndex)
             /\ b > at => merged[b] = <<>>
      BY <1>0 DEF IndInv, MergeInv
    <2>2. ASSUME NEW b \in Backends
          PROVE  /\ b < at + 1 => BlobsOf(b, count[b])
                 /\ b = at + 1 => 0 <= count[b] /\ BlobsOf(b, 0)
                 /\ b > at + 1 => merged[b] = <<>>
      <3>1. b < at + 1 => b < at \/ b = at
        BY <1>0
      <3>2. b = at => BlobsOf(b, count[b])
        BY <2>1, <1>0
      <3>3. b >= at + 1 => merged[b] = <<>>
        BY <2>1, <1>0
      <3>4. merged[b] = <<>> => BlobsOf(b, 0)
        BY <1>0 DEF BlobsOf
      <3> QED BY <2>1, <3>1, <3>2, <3>3, <3>4, <1>0
    <2>3. ASSUME NEW b \in Backends
          PROVE  /\ b < at' => BlobsOf(b, count[b])'
                 /\ b = at' => nextIndex' <= count'[b] /\ BlobsOf(b, nextIndex)'
                 /\ b > at' => merged'[b] = <<>>
      BY <2>2, <1>1 DEF BlobsOf
    <2>4. at' <= n'
      BY <1>0, <1>1
    <2> QED BY <2>3, <2>4, <1>0, <1>1, <1>S DEF MergeInv, Unmerged
  <1> QED BY <1>2, <1>3, <1>4, <1>5, <1>L DEF IndInv

\* From the end of the merge on, the layout does not change any more.
LEMMA UploadSteps ==
    ASSUME IndInv, MergeDone \/ Wait \/ \E b \in Backends : PutShard(b) \/ PutFails(b) \/ PutDone(b)
    PROVE  IndInv'
  <1>1. /\ pc \in {"merge", "upload"} /\ pc' \in {"upload", "done", "error"}
        /\ pc = "merge" => at = n
        /\ UNCHANGED <<n, ft, maxSize, dataLen, at, shardSize, candidate, best, parity,
                       first, count, nextIndex, merged>>
    BY DEF MergeDone, Wait, PutShard, PutFails, PutDone, args, layout
  <1>S. /\ DataCount' = DataCount /\ Total' = Total /\ Backends' = Backends
        /\ Lost(n, ft, Total)' = Lost(n, ft, Total)
        /\ \A b : BlockCount(b)' = BlockCount(b)
    BY <1>1, SameSplit
  <1>2. /\ put' \in [Backends -> Nat] /\ status' \in [Backends -> {"running", "ok", "failed"}]
    <2>1. put \in [Backends -> Nat] /\ status \in [Backends -> {"running", "ok", "failed"}]
      BY DEF IndInv, TypeOK
    <2> QED BY <2>1 DEF MergeDone, Wait, PutShard, PutFails, PutDone, uploads
  <1>3. TypeOK'
    BY <1>1, <1>2, <1>S DEF IndInv, TypeOK, Phases
  <1>4. SizeInv' /\ ParityInv'
    BY <1>1, <1>S DEF IndInv, SizeInv, Sized, ParityInv, Encoded
  <1>5. BlockInv'
    <2>1. BlocksTo(n, Total)
      BY <1>1 DEF IndInv, BlockInv
    <2>2. BlocksTo(n, Total)'
      BY <2>1, <1>1, <1>S DEF BlocksTo
    <2> QED BY <2>2, <1>1 DEF BlockInv
  <1>6. MergeInv'
    <2>1. \A b \in Backends : BlobsOf(b, count[b])
      <3>1. \A b \in Backends : b < n
        BY DEF Backends, IndInv, TypeOK
      <3> QED BY <3>1, <1>1 DEF IndInv, MergeInv
    <2>2. \A b \in Backends' : BlobsOf(b, count[b])'
      BY <2>1, <1>1, <1>S DEF BlobsOf
    <2> QED BY <2>2, <1>1 DEF MergeInv, Unmerged
  <1>7. BlobsFit'
    BY <1>1, <1>S DEF IndInv, BlobsFit
  <1>8. PutInv'
    <2>0. put \in [Backends -> Nat] /\ status \in [Backends -> {"running", "ok", "failed"}]
          /\ \A b \in Backends : Len(merged[b]) \in Nat
      BY DEF IndInv, TypeOK
    <2>1. CASE MergeDone
      BY <2>1, <1>S, <1>1 DEF MergeDone, uploads, IndInv, PutInv
    <2>2. CASE Wait
      BY <2>0, <2>2, <1>S, <1>1 DEF Wait, uploads, IndInv, PutInv
    <2>3. ASSUME NEW b \in Backends, PutShard(b) PROVE PutInv'
      BY <2>0, <2>3, <1>S, <1>1 DEF PutShard, IndInv, PutInv
    <2>4. ASSUME NEW b \in Backends, PutFails(b) PROVE PutInv'
      BY <2>0, <2>4, <1>S, <1>1 DEF PutFails, IndInv, PutInv
    <2>5. ASSUME NEW b \in Backends, PutDone(b) PROVE PutInv'
      BY <2>0, <2>5, <1>S, <1>1 DEF PutDone, IndInv, PutInv
    <2> QED BY <2>1, <2>2, <2>3, <2>4, <2>5
  <1> QED BY <1>3, <1>4, <1>5, <1>6, <1>7, <1>8 DEF IndInv

LEMMA NextInv == IndInv /\ [Next]_vars => IndInv'
  <1> SUFFICES ASSUME IndInv, [Next]_vars PROVE IndInv'
    OBVIOUS
  <1>1. CASE Step
    BY <1>1, SizeSteps, ParitySteps, DistributeStep, DistributeDoneStep, MergeStep, MergeNextStep,
       UploadSteps DEF Step
  <1>2. CASE UNCHANGED vars
    <2>1. /\ DataCount' = DataCount /\ Total' = Total /\ Backends' = Backends
          /\ Lost(n, ft, Total)' = Lost(n, ft, Total)
          /\ \A b : BlockCount(b)' = BlockCount(b) /\ StartOf(b)' = StartOf(b)
      BY <1>2, SameSplit DEF vars
    <2>2. TypeOK'
      BY <1>2, <2>1 DEF vars, IndInv, TypeOK
    <2>3. SizeInv' /\ ParityInv' /\ PutInv'
      BY <1>2, <2>1 DEF vars, IndInv, SizeInv, ParityInv, PutInv
    <2>4. BlockInv'
      BY <1>2, <2>1 DEF vars, IndInv, BlockInv, BlocksTo
    <2>5. MergeInv'
      BY <1>2, <2>1 DEF vars, IndInv, MergeInv, BlobsOf
    <2>6. BlobsFit'
      BY <1>2, <2>1 DEF vars, IndInv, BlobsFit
    <2> QED BY <2>2, <2>3, <2>4, <2>5, <2>6 DEF IndInv
  <1> QED BY <1>1, <1>2 DEF Next, Terminated

\* The inductive invariant holds in every state ShardData reaches.
THEOREM Invariance == Spec => []IndInv
  BY InitInv, NextInv, PTL DEF Spec

-----------------------------------------------------------------------------
(***************************************************************************)
(* What the invariant says about a ShardData that has returned.            *)
(***************************************************************************)

\* When ShardData is done every blob of every backend is stored, the blobs cover
\* the backend's block and the blocks cover the encoded shards.
LEMMA DoneLayout ==
    ASSUME IndInv, pc = "done"
    PROVE  /\ BlocksTo(n, Total)
           /\ \A b \in Backends : BlobsOf(b, count[b])
           /\ \A b \in Backends : put[b] = Len(merged[b])
           /\ \A b \in Backends : b < n
           /\ \A b \in Backends : count[b] = BlockCount(b) /\ first[b] \in Nat /\ count[b] \in Nat
  <1>1. \A b \in Backends : b < n
    BY DEF Backends, IndInv, TypeOK
  <1>2. BlocksTo(n, Total)
    BY DEF IndInv, BlockInv
  <1>3. \A b \in Backends : BlobsOf(b, count[b])
    BY DEF IndInv, MergeInv
  <1>4. \A b \in Backends : put[b] = Len(merged[b])
    BY DEF IndInv, PutInv
  <1>5. \A b \in Backends : count[b] = BlockCount(b) /\ first[b] \in Nat /\ count[b] \in Nat
    BY <1>1, <1>2 DEF BlocksTo, IndInv, TypeOK
  <1> QED BY <1>1, <1>2, <1>3, <1>4, <1>5

\* The variables of ShardData's loops keep their types.
THEOREM Types == Spec => []TypeOK
  <1>1. IndInv => TypeOK
    BY DEF IndInv
  <1> QED BY <1>1, Invariance, PTL

\* No blob the merge loop makes is empty or larger than its backend accepts.
THEOREM BlobsFitAlways == Spec => []BlobsFit
  <1>1. IndInv => BlobsFit
    BY DEF IndInv
  <1> QED BY <1>1, Invariance, PTL

\* getShardParityCount never counts beyond FailureTolerance parity shards per
\* data shard, so that its unbounded loop stops.
THEOREM ParityBoundedAlways == Spec => []ParityBounded
  <1>1. IndInv => ParityBounded
    BY DEF IndInv, TypeOK, Phases, ParityInv, Encoded, ParityBounded
  <1> QED BY <1>1, Invariance, PTL

\* Once ShardData has returned, the blobs address every encoded shard exactly once.
THEOREM PartitionAlways == Spec => []ShardsPartition
  <1>1. ASSUME IndInv, pc = "done", NEW x \in 0 .. (Total - 1)
        PROVE  \E b \in Backends : \E i \in DOMAIN merged[b] :
                  /\ merged[b][i].First <= x /\ x <= merged[b][i].Last
                  /\ \A c \in Backends : \A j \in DOMAIN merged[c] :
                        (merged[c][j].First <= x /\ x <= merged[c][j].Last) => (c = b /\ j = i)
    <2>0. /\ Total \in Nat /\ n \in Nat /\ Backends \subseteq Nat
          /\ \A b \in Backends : /\ merged[b] \in Seq(Ranges)
                                 /\ DOMAIN merged[b] = 1 .. Len(merged[b])
                                 /\ Len(merged[b]) \in Nat
      BY SMTT(40), <1>1, DataCountType DEF IndInv, TypeOK, Backends
    <2>1. /\ BlocksTo(n, Total)
          /\ \A b \in Backends : BlobsOf(b, count[b]) /\ b < n
                                 /\ first[b] \in Nat /\ count[b] \in Nat
      BY <1>1, DoneLayout
    <2>2. PICK b \in Backends : first[b] <= x /\ x < first[b] + count[b]
      BY <2>1, <1>1 DEF BlocksTo
    <2>3. x \in first[b] .. (first[b] + count[b] - 1)
      BY <2>1, <2>2, <1>1, <2>0
    <2>4. PICK i \in 1 .. Len(merged[b]) : merged[b][i].First <= x /\ x <= merged[b][i].Last
      BY <2>1, <2>3 DEF BlobsOf
    <2>5. ASSUME NEW c \in Backends, NEW j \in DOMAIN merged[c],
                 merged[c][j].First <= x, x <= merged[c][j].Last
          PROVE  c = b /\ j = i
      <3>0. j \in 1 .. Len(merged[c]) /\ merged[c][j] \in Ranges
        BY <2>0
      <3>1. first[c] <= merged[c][j].First /\ merged[c][j].Last < first[c] + count[c]
        BY <3>0, <2>1 DEF BlobsOf
      <3>2. merged[c][j].First \in Nat /\ merged[c][j].Last \in Nat /\ x \in Nat
        <4>1. x \in Nat
          BY <2>0, <1>1
        <4> QED BY <3>0, <4>1 DEF Ranges
      <3>3. first[c] <= x /\ x < first[c] + count[c]
        BY <3>1, <3>2, <2>5, <2>1
      <3>4. ~(c < b) /\ ~(b < c)
        <4>1. ASSUME c < b PROVE FALSE
          <5>1. first[c] + count[c] <= first[b]
            BY <4>1, <2>1 DEF BlocksTo
          <5> QED BY <5>1, <3>3, <3>2, <2>2, <2>1
        <4>2. ASSUME b < c PROVE FALSE
          <5>1. first[b] + count[b] <= first[c]
            BY <4>2, <2>1 DEF BlocksTo
          <5> QED BY <5>1, <3>3, <3>2, <2>2, <2>1
        <4> QED BY <4>1, <4>2
      <3>5. c = b
        BY <3>4, <2>0
      <3>6. ASSUME NEW k \in 1 .. Len(merged[b]), NEW l \in 1 .. Len(merged[b]), k < l,
                   x <= merged[b][k].Last, merged[b][l].First <= x
            PROVE  FALSE
        <4>1. merged[b][k].Last < merged[b][l].First
          BY <3>6, <2>1 DEF BlobsOf
        <4>2. merged[b][k].Last \in Nat /\ merged[b][l].First \in Nat
          <5>1. merged[b][k] \in Ranges /\ merged[b][l] \in Ranges
            BY <2>0
          <5> QED BY <5>1 DEF Ranges
        <4> QED BY SMTT(40), <3>6, <4>1, <4>2, <3>2
      <3>7. j \in Nat /\ i \in Nat
        BY <3>0, <2>0
      <3>8. ~(i < j) /\ ~(j < i)
        BY <3>5, <3>6, <3>0, <2>4, <2>5
      <3> QED BY <3>5, <3>7, <3>8
    <2> QED BY <2>4, <2>5, <2>0
  <1>2. IndInv => ShardsPartition
    BY <1>1 DEF ShardsPartition
  <1> QED BY <1>2, Invariance, PTL

\* The worst case of getShardParityCount is one: a set of at most t backends
\* with blocks of q, the first r of them q + 1, holds at most t * q + min(t, r)
\* encoded shards.
LEMMA BlocksOfDown ==
    ASSUME NEW down, IsFiniteSet(down), down \subseteq Nat, NEW t \in Nat, Cardinality(down) <= t,
           NEW q \in Nat, NEW r \in Nat
    PROVE  LET cells == (down \X (0 .. (q - 1))) \cup ((down \cap (0 .. (r - 1))) \X {q})
           IN  /\ IsFiniteSet(cells)
               /\ Cardinality(cells) <= t * q + (IF t < r THEN t ELSE r)
  <1> DEFINE low == down \cap (0 .. (r - 1))
             A == down \X (0 .. (q - 1))
             B == low \X {q}
  <1>1. IsFiniteSet(0 .. (q - 1)) /\ Cardinality(0 .. (q - 1)) = q
    BY FS_Interval
  <1>2. IsFiniteSet(0 .. (r - 1)) /\ Cardinality(0 .. (r - 1)) = r
    BY FS_Interval
  <1>3. IsFiniteSet(low) /\ Cardinality(low) <= Cardinality(down) /\ Cardinality(low) <= r
    <2>1. low \subseteq down /\ low \subseteq 0 .. (r - 1)
      OBVIOUS
    <2>2. IsFiniteSet(low) /\ Cardinality(low) <= Cardinality(down)
      BY <2>1, FS_Subset
    <2>3. Cardinality(low) <= Cardinality(0 .. (r - 1))
      BY <2>1, <1>2, FS_Subset
    <2> QED BY <2>2, <2>3, <1>2
  <1>4. IsFiniteSet(A) /\ Cardinality(A) = Cardinality(down) * q
    BY <1>1, FS_Product
  <1>5. IsFiniteSet(B) /\ Cardinality(B) = Cardinality(low)
    <2>1. IsFiniteSet({q}) /\ Cardinality({q}) = 1
      BY FS_Singleton
    <2>2. IsFiniteSet(B) /\ Cardinality(B) = Cardinality(low) * 1
      BY <2>1, <1>3, FS_Product
    <2>3. Cardinality(low) \in Nat
      BY <1>3, FS_CardinalityType
    <2> QED BY <2>2, <2>3
  <1>6. Cardinality(down) \in Nat /\ Cardinality(low) \in Nat
    BY <1>3, FS_CardinalityType
  <1>7. IsFiniteSet(A \cup B) /\ Cardinality(A \cup B) <= Cardinality(A) + Cardinality(B)
    <2>1. IsFiniteSet(A \cup B)
          /\ Cardinality(A \cup B) = Cardinality(A) + Cardinality(B) - Cardinality(A \cap B)
      BY <1>4, <1>5, FS_Union
    <2>2. IsFiniteSet(A \cap B)
      BY <1>4, FS_Intersection
    <2>3. Cardinality(A \cap B) \in Nat /\ Cardinality(A) \in Nat /\ Cardinality(B) \in Nat
      BY <2>2, <1>4, <1>5, FS_CardinalityType
    <2> QED BY <2>1, <2>3
  <1>8. Cardinality(down) * q <= t * q
    <2>1. \A a, b, c \in Nat : a <= b => a * c <= b * c
      OBVIOUS
    <2> QED BY <2>1, <1>6
  <1>9. Cardinality(low) <= (IF t < r THEN t ELSE r)
    BY <1>3, <1>6
  <1>10. Cardinality(down) * q \in Nat /\ t * q \in Nat
    BY <1>6, MulNat
  <1> HIDE DEF A, B, low
  <1>11. Cardinality(A \cup B) \in Nat
    BY <1>7, FS_CardinalityType
  <1>12. Cardinality(A \cup B) <= t * q + (IF t < r THEN t ELSE r)
    BY <1>4, <1>5, <1>6, <1>7, <1>8, <1>9, <1>10, <1>11
  <1> QED BY <1>7, <1>12 DEF A, B, low

\* The encoded shards no reachable backend holds lie in the blocks of the
\* backends that are down.
LEMMA MissingAreDown ==
    ASSUME IndInv, pc = "done", NEW down, NEW x \in 0 .. (Total - 1), x \notin Collected(down)
    PROVE  \E b \in Backends \cap down : first[b] <= x /\ x < first[b] + count[b]
  <1>1. /\ BlocksTo(n, Total)
        /\ \A b \in Backends : BlobsOf(b, count[b]) /\ b < n
                               /\ first[b] \in Nat /\ count[b] \in Nat /\ put[b] = Len(merged[b])
    BY DoneLayout
  <1>2. PICK b \in Backends : first[b] <= x /\ x < first[b] + count[b]
    BY <1>1 DEF BlocksTo
  <1>3. x \in first[b] .. (first[b] + count[b] - 1)
    BY <1>1, <1>2
  <1>4. PICK i \in 1 .. Len(merged[b]) : merged[b][i].First <= x /\ x <= merged[b][i].Last
    BY <1>1, <1>3 DEF BlobsOf
  <1>5. x \in Indices(b, put[b])
    BY <1>1, <1>4 DEF Indices
  <1>6. b \in down
    BY <1>5 DEF Collected
  <1> QED BY <1>2, <1>6

\* Once ShardData has returned, any FailureTolerance backends may fail and the
\* shards CollectShards still gets are enough for Reed-Solomon.
THEOREM ToleratesAlways == Spec => []ToleratesFailures
  <1>1. ASSUME IndInv, pc = "done", NEW down \in SUBSET Backends, Cardinality(down) <= ft
        PROVE  Restores(down)
    <2> DEFINE q == Total \div n
               r == Total % n
               all == 0 .. (Total - 1)
               missing == all \ Collected(down)
               cells == (down \X (0 .. (q - 1))) \cup ((down \cap (0 .. (r - 1))) \X {q})
               place == [p \in cells |-> first[p[1]] + p[2]]
               image == {place[p] : p \in cells}
    <2>0. /\ Total \in Nat /\ DataCount \in Nat /\ Total = DataCount + parity /\ parity \in Nat
          /\ n \in Nat /\ ft \in Nat /\ Backends = 0 .. (n - 1) /\ q \in Nat /\ r \in Nat
          /\ \A b \in Backends : first[b] \in Nat /\ b \in Nat
          /\ \A b \in Backends : count[b] = q + (IF b < r THEN 1 ELSE 0)
      <3>1. \A b \in Backends : count[b] = BlockCount(b)
        BY <1>1, DoneLayout
      <3>2. Total \in Nat /\ DataCount \in Nat /\ q \in Nat /\ r \in Nat
        BY <1>1, DataCountType, SplitType DEF IndInv
      <3>3. n \in Nat /\ ft \in Nat /\ parity \in Nat /\ \A b \in Backends : first[b] \in Nat
        BY <1>1 DEF IndInv, TypeOK
      <3> QED BY <3>1, <3>2, <3>3 DEF BlockCount, Backends, Total
    <2>1. parity >= ft * q + (IF ft < r THEN ft ELSE r)
      BY <1>1 DEF IndInv, ParityInv, Encoded, Lost
    <2> HIDE DEF q, r
    <2>2. IsFiniteSet(all) /\ Cardinality(all) = Total
      BY SMTT(40), <2>0, FS_Interval
    <2>3. IsFiniteSet(down) /\ down \subseteq Nat
      <3>1. IsFiniteSet(Backends)
        BY <2>0, FS_Interval
      <3> QED BY <3>1, <2>0, FS_Subset
    <2>4. IsFiniteSet(cells) /\ Cardinality(cells) <= ft * q + (IF ft < r THEN ft ELSE r)
      BY <2>3, <2>0, <1>1, BlocksOfDown
    <2>5. missing \subseteq image
      <3> SUFFICES ASSUME NEW x \in missing PROVE x \in image
        OBVIOUS
      <3>1. PICK b \in Backends \cap down : first[b] <= x /\ x < first[b] + count[b]
        BY <1>1, MissingAreDown
      <3>2. x \in Nat
        BY <2>0
      <3> DEFINE i == x - first[b]
      <3>3. i \in Nat /\ i < q + (IF b < r THEN 1 ELSE 0) /\ first[b] + i = x
        BY <3>1, <3>2, <2>0
      <3> HIDE DEF i
      <3>4. <<b, i>> \in cells
        <4>1. CASE i < q
          BY <4>1, <3>1, <3>3, <2>0
        <4>2. CASE ~(i < q)
          <5>1. i = q /\ b < r
            BY <4>2, <3>3, <2>0
          <5>2. b \in 0 .. (r - 1)
            BY <5>1, <3>1, <2>0
          <5> QED BY <5>1, <5>2, <3>1
        <4> QED BY <4>1, <4>2
      <3>5. place[<<b, i>>] = x
        BY <3>3, <3>4
      <3> QED BY <3>4, <3>5
    <2>6. IsFiniteSet(image) /\ Cardinality(image) <= Cardinality(cells)
      <3>1. place \in Surjection(cells, image)
        BY DEF Surjection
      <3> HIDE DEF place, image, cells
      <3> QED BY <3>1, <2>4, FS_Surjection
    <2>7. IsFiniteSet(missing) /\ Cardinality(missing) <= Cardinality(image)
      BY <2>5, <2>6, FS_Subset
    <2>8. Collected(down) \subseteq all
      BY DEF Collected, Indices
    <2>9. Collected(down) = all \ missing /\ all \cap missing = missing
      BY <2>8
    <2> HIDE DEF all, missing, cells, place, image
    <2>10. Cardinality(Collected(down)) = Total - Cardinality(missing)
      BY <2>9, <2>2, FS_Difference
    <2>11. /\ Cardinality(missing) \in Nat /\ Cardinality(image) \in Nat
           /\ Cardinality(cells) \in Nat /\ ft * q \in Nat
      BY <2>4, <2>6, <2>7, <2>0, FS_CardinalityType, MulNat
    <2>12. Cardinality(missing) <= parity
      BY <2>1, <2>4, <2>6, <2>7, <2>11, <2>0
    <2> QED BY <2>0, <2>10, <2>11, <2>12 DEF Restores
  <1>2. IndInv => ToleratesFailures
    BY <1>1 DEF ToleratesFailures
  <1> QED BY <1>2, Invariance, PTL

\* The parity count processChunk derives from the highest shard index is the one
\* the chunk was encoded with.
THEOREM ParityRecoveredAlways == Spec => []ParityRecovered
  <1>1. ASSUME IndInv, pc = "done"
        PROVE  ParityShardCount = parity
    <2> DEFINE Highest(m) ==
                 /\ \A b \in Backends : \A i \in DOMAIN merged[b] : merged[b][i].Last <= m
                 /\ m = 0 \/ \E b \in Backends : \E i \in DOMAIN merged[b] : merged[b][i].Last = m
    <2>0. /\ Total \in Nat /\ Total >= 1 /\ DataCount \in Nat /\ parity \in Nat
          /\ Total = DataCount + parity
          /\ \A b \in Backends : DOMAIN merged[b] = 1 .. Len(merged[b])
      <3>1. dataLen # 0
        BY <1>1 DEF IndInv, SizeInv, Sized
      <3>2. Total \in Nat /\ DataCount \in Nat /\ DataCount >= 1 /\ parity \in Nat
        BY <1>1, <3>1, DataCountType DEF IndInv, TypeOK
      <3>3. \A b \in Backends : DOMAIN merged[b] = 1 .. Len(merged[b])
        BY <1>1 DEF IndInv, TypeOK
      <3> QED BY <3>2, <3>3 DEF Total
    <2>1. /\ BlocksTo(n, Total)
          /\ \A b \in Backends : BlobsOf(b, count[b]) /\ b < n
                                 /\ first[b] \in Nat /\ count[b] \in Nat
      BY <1>1, DoneLayout
    <2>2. ASSUME NEW b \in Backends, NEW i \in 1 .. Len(merged[b])
          PROVE  merged[b][i].Last \in Nat /\ merged[b][i].Last <= Total - 1
      <3>1. merged[b][i] \in Ranges
        BY <1>1 DEF IndInv, TypeOK
      <3>2. merged[b][i].Last \in Nat
        BY <3>1 DEF Ranges
      <3>3. merged[b][i].Last < first[b] + count[b] /\ first[b] + count[b] <= Total
        BY <2>1 DEF BlobsOf, BlocksTo
      <3> QED BY <3>2, <3>3, <2>0, <2>1
    <2>3. \E b \in Backends : \E i \in 1 .. Len(merged[b]) : merged[b][i].Last = Total - 1
      <3>1. Total - 1 \in 0 .. (Total - 1)
        BY <2>0
      <3>2. PICK b \in Backends : first[b] <= Total - 1 /\ Total - 1 < first[b] + count[b]
        BY <3>1, <2>1 DEF BlocksTo
      <3>3. Total - 1 \in first[b] .. (first[b] + count[b] - 1)
        BY <3>2, <2>1, <2>0
      <3>4. PICK i \in 1 .. Len(merged[b]) : Total - 1 <= merged[b][i].Last
        BY <3>3, <2>1 DEF BlobsOf
      <3>5. merged[b][i].Last = Total - 1
        BY <3>4, <2>2, <2>0
      <3> QED BY <3>5
    <2>4. Highest(Total - 1) /\ Total - 1 \in 0 .. Total
      BY <2>0, <2>2, <2>3
    <2>5. ASSUME NEW m \in 0 .. Total, Highest(m) PROVE m = Total - 1
      <3>1. Total - 1 <= m
        BY <2>3, <2>5, <2>0
      <3>2. m = 0 \/ m <= Total - 1
        BY <2>2, <2>5, <2>0
      <3> QED BY <3>1, <3>2, <2>0
    <2>6. MaxShardIndex = CHOOSE m \in 0 .. Total : Highest(m)
      BY DEF MaxShardIndex
    <2> HIDE DEF Highest
    <2>7. MaxShardIndex = Total - 1
      BY <2>4, <2>5, <2>6
    <2> QED BY <2>7, <2>0 DEF ParityShardCount
  <1>2. IndInv => ParityRecovered
    BY <1>1 DEF ParityRecovered
  <1> QED BY <1>2, Invariance, PTL

-----------------------------------------------------------------------------
(***************************************************************************)
(* The parity count is no larger than needed.                              *)
(***************************************************************************)

\* What the parity loop knew when it added its last shard.
NeedInv == parity > 0 => parity - 1 < Lost(n, ft, Total - 1)

LEMMA NeedStep == IndInv /\ NeedInv /\ [Next]_vars => NeedInv'
  <1> SUFFICES ASSUME IndInv, NeedInv, [Next]_vars PROVE NeedInv'
    OBVIOUS
  <1>1. DataCount \in Nat /\ Total \in Nat /\ parity \in Nat
    BY DataCountType DEF IndInv, TypeOK
  <1>2. CASE AddParity
    <2>1. /\ parity' = parity + 1 /\ n' = n /\ ft' = ft /\ dataLen' = dataLen /\ shardSize' = shardSize
          /\ parity < Lost(n, ft, Total)
      BY <1>2 DEF AddParity, args
    <2>2. Total' = Total + 1
      <3>1. DataCount' = DataCount
        BY <2>1 DEF DataCount, CeilDiv
      <3> QED BY <1>1, <2>1, <3>1 DEF Total
    <2>3. Total' - 1 = Total /\ parity' - 1 = parity
      BY <1>1, <2>1, <2>2
    <2>4. Lost(n', ft', Total' - 1) = Lost(n, ft, Total)
      BY <2>1, <2>3
    <2> QED BY <2>1, <2>3, <2>4 DEF NeedInv
  <1>3. CASE UNCHANGED <<n, ft, dataLen, shardSize, parity>>
    <2>1. Total' = Total
      BY <1>3, SameSplit
    <2> QED BY <1>3, <2>1 DEF NeedInv
  <1>4. CASE (ScanSize \/ SearchDone)
    <2>1. parity' = 0
      BY <1>4 DEF IndInv, ParityInv, ScanSize, SearchDone
    <2> QED BY <2>1 DEF NeedInv
  <1>5. AddParity \/ ScanSize \/ SearchDone \/ UNCHANGED <<n, ft, dataLen, shardSize, parity>>
    BY DEF Next, Step, Terminated, vars, args, RejectEmpty, Begin, ScanDone, TryCandidate, ParityDone,
           EncodeFails, Distribute, DistributeDone, Merge, MergeNext, MergeDone, Wait,
           PutShard, PutFails, PutDone
  <1> QED BY <1>2, <1>3, <1>4, <1>5

\* The shards that the backends from f on hold of an even split among k.
LEMMA HeldByOthers ==
    ASSUME NEW k \in Nat \ {0}, NEW f \in 0 .. (k - 1), NEW t \in Nat,
           NEW H \in SUBSET ((f .. (k - 1)) \X Nat),
           \A p \in H : p[2] < (t \div k) + (IF p[1] < t % k THEN 1 ELSE 0)
    PROVE  IsFiniteSet(H) /\ Cardinality(H) <= t - Lost(k, f, t)
  <1> DEFINE q == t \div k
             r == t % k
             A == (f .. (k - 1)) \X (0 .. (q - 1))
             B == (f .. (r - 1)) \X {q}
  <1>1. q \in Nat /\ r \in Nat /\ r < k /\ t = k * q + r
    BY DivMod
  <1>2. \A p \in H : p[2] < q + (IF p[1] < r THEN 1 ELSE 0)
    OBVIOUS
  <1>3. Lost(k, f, t) = f * q + (IF f < r THEN f ELSE r)
    BY DEF Lost
  <1> HIDE DEF q, r
  <1>4. IsFiniteSet(f .. (k - 1)) /\ Cardinality(f .. (k - 1)) = k - f
    BY FS_Interval
  <1>5. IsFiniteSet(0 .. (q - 1)) /\ Cardinality(0 .. (q - 1)) = q
    BY <1>1, FS_Interval
  <1>6. IsFiniteSet(f .. (r - 1)) /\ Cardinality(f .. (r - 1)) = IF f < r THEN r - f ELSE 0
    BY <1>1, FS_Interval
  <1>7. IsFiniteSet({q}) /\ Cardinality({q}) = 1
    BY FS_Singleton
  <1>8. IsFiniteSet(A) /\ Cardinality(A) = (k - f) * q
    BY <1>4, <1>5, FS_Product, ZenonT(60)
  <1>9. IsFiniteSet(B) /\ Cardinality(B) = IF f < r THEN r - f ELSE 0
    <2>1. IsFiniteSet(B) /\ Cardinality(B) = Cardinality(f .. (r - 1)) * 1
      BY <1>6, <1>7, FS_Product
    <2> QED BY <1>1, <1>6, <2>1
  <1>10. H \subseteq A \cup B
    <2> SUFFICES ASSUME NEW p \in H PROVE p \in A \cup B
      OBVIOUS
    <2>1. p = <<p[1], p[2]>> /\ p[1] \in f .. (k - 1) /\ p[2] \in Nat
      OBVIOUS
    <2>2. CASE p[2] < q
      BY <1>1, <2>1, <2>2
    <2>3. CASE ~(p[2] < q)
      <3>1. p[2] = q /\ p[1] < r
        BY <1>1, <1>2, <2>1, <2>3
      <3>2. p[1] \in f .. (r - 1)
        BY <1>1, <2>1, <3>1
      <3> QED BY <2>1, <3>1, <3>2
    <2> QED BY <2>2, <2>3
  <1> HIDE DEF A, B
  <1>11. /\ IsFiniteSet(A \cup B) /\ Cardinality(A \cup B) = Cardinality(A) + Cardinality(B) - Cardinality(A \cap B)
         /\ IsFiniteSet(A \cap B)
    <2>1. IsFiniteSet(A \cap B)
      BY <1>8, FS_Subset
    <2> QED BY <1>8, <1>9, <2>1, FS_Union
  <1>12. /\ IsFiniteSet(H) /\ Cardinality(H) <= Cardinality(A \cup B)
    BY <1>10, <1>11, FS_Subset
  <1>13. Cardinality(H) \in Nat /\ Cardinality(A \cap B) \in Nat /\ Cardinality(A \cup B) \in Nat
    BY <1>11, <1>12, FS_CardinalityType
  <1> DEFINE kq == k * q
             fq == f * q
             m == IF f < r THEN f ELSE r
  <1>14. (k - f) * q = kq - fq /\ kq \in Nat /\ fq \in Nat
    BY <1>1
  <1>15. t = kq + r /\ Lost(k, f, t) = fq + m /\ Cardinality(A) = kq - fq
    BY <1>1, <1>3, <1>8, <1>14
  <1> HIDE DEF kq, fq
  <1>16. m \in Nat /\ Cardinality(B) = r - m
    BY <1>1, <1>9
  <1> HIDE DEF m
  <1>17. Cardinality(A) + Cardinality(B) = t - Lost(k, f, t) /\ Cardinality(A) + Cardinality(B) \in Int
    BY <1>1, <1>14, <1>15, <1>16
  <1>18. Cardinality(A \cup B) <= Cardinality(A) + Cardinality(B)
    <2>1. Cardinality(A) \in Int /\ Cardinality(B) \in Int
      BY <1>1, <1>14, <1>15, <1>16
    <2> QED BY <1>11, <1>13, <2>1
  <1> DEFINE c == Cardinality(H)
             u == Cardinality(A \cup B)
             ab == Cardinality(A) + Cardinality(B)
             lost == t - Lost(k, f, t)
  <1>19. c \in Nat /\ u \in Nat /\ c <= u /\ u <= ab /\ ab \in Int /\ ab = lost
    BY <1>12, <1>13, <1>17, <1>18
  <1> HIDE DEF c, u, ab, lost
  <1>20. c <= lost
    BY <1>19
  <1> QED BY <1>12, <1>20 DEF c, lost

\* getShardParityCount adds no parity shard too many: with one encoded shard
\* fewer, the backends that outlast FailureTolerance failures can hold too few.
THEOREM ParityNeededAlways == Spec => []ParityNeeded
  <1>1. Init => NeedInv
    BY DEF Init, NeedInv
  <1>2. ASSUME IndInv, NeedInv, pc = "done", parity > 0
        PROVE  \E down \in SUBSET Backends :
                  /\ Cardinality(down) = ft
                  /\ LET total == Total - 1
                         held(b) == (total \div n) + (IF b < total % n THEN 1 ELSE 0)
                     IN  Cardinality({p \in (Backends \ down) \X (0 .. total) : p[2] < held(p[1])})
                             < DataCount
    <2> DEFINE total == Total - 1
               held(b) == (total \div n) + (IF b < total % n THEN 1 ELSE 0)
               down == 0 .. (ft - 1)
               H == {p \in (Backends \ down) \X (0 .. total) : p[2] < held(p[1])}
    <2>1. /\ n \in Nat \ {0} /\ ft \in 0 .. (n - 1) /\ parity \in Nat /\ DataCount \in Nat
          /\ Total = DataCount + parity
      BY <1>2, DataCountType DEF IndInv, TypeOK, Total
    <2>2. total \in Nat /\ total = DataCount + (parity - 1)
      BY <1>2, <2>1
    <2>3. parity - 1 < Lost(n, ft, total) /\ Lost(n, ft, total) \in Int
      <3>1. total \div n \in Nat /\ total % n \in Nat
        BY <2>1, <2>2, DivMod
      <3>2. ft * (total \div n) \in Nat
        BY <2>1, <3>1, MulNat
      <3>3. Lost(n, ft, total) \in Int
        BY <2>1, <3>1, <3>2 DEF Lost
      <3> QED BY <1>2, <3>3 DEF NeedInv
    <2>4. IsFiniteSet(down) /\ Cardinality(down) = ft
      BY <2>1, FS_Interval
    <2>5. down \in SUBSET Backends /\ Backends \ down = ft .. (n - 1)
      BY <2>1 DEF Backends
    <2> HIDE DEF down, total
    <2>6. H \in SUBSET ((ft .. (n - 1)) \X Nat)
      BY <2>2, <2>5
    <2>7. \A p \in H : p[2] < (total \div n) + (IF p[1] < total % n THEN 1 ELSE 0)
      OBVIOUS
    <2>8. IsFiniteSet(H) /\ Cardinality(H) <= total - Lost(n, ft, total)
      <3> HIDE DEF H
      <3> QED BY <2>1, <2>2, <2>6, <2>7, HeldByOthers
    <2>9. Cardinality(H) < DataCount
      <3>1. Cardinality(H) \in Nat
        BY <2>8, FS_CardinalityType
      <3> HIDE DEF H
      <3> QED BY <2>1, <2>2, <2>3, <2>8, <3>1
    <2> QED BY <2>4, <2>5, <2>9 DEF total
  <1>3. IndInv /\ NeedInv => ParityNeeded
    BY <1>2 DEF ParityNeeded
  <1> QED BY <1>1, <1>3, NeedStep, Invariance, PTL DEF Spec
=============================================================================
