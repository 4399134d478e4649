-------------------------- MODULE ReadStreamProofs --------------------------
(***************************************************************************)
(* Proofs about module ReadStream, for every chunk list, size, Range and   *)
(* buffer.  The invariant says where the bytes between the two pipes are:  *)
(* what the cutter has taken is in the response, in the handler's packet   *)
(* or in the cutter's own buffer, in this order and without a gap.         *)
(***************************************************************************)
EXTENDS ReadStream, FiniteSetTheorems, TLAPS

Types ==
    /\ chunks \in ChunkLists /\ size \in Sizes /\ part \in BOOLEAN
    /\ range \in {<<>>} \cup ((0 .. MaxInt) \X (0 .. MaxInt))
    /\ status \in {0, 200, 206, 416, 500} /\ begin \in Nat /\ length \in Nat
    /\ source \in {"idle", "collect", "write", "done"}
    /\ cutter \in {"idle", "skip", "copy", "closePipe", "closeBase", "done"}
    /\ handler \in {"start", "copy", "error", "sent", "failed", "clientGone", "done"}
    /\ emitted \in Nat /\ left \in Nat /\ taken \in Nat
    /\ held \in Seq(Int) /\ packet \in Seq(Int) /\ body \in Seq(Int)
    /\ innerEnd \in {"open", "eof", "error"} /\ innerOpen \in BOOLEAN
    /\ outerEnd \in {"open", "eof", "error"} /\ outerOpen \in BOOLEAN

\* What the goroutines were started with: a range within the object.
Started == handler \notin {"start", "done"}
Past == cutter \in {"closePipe", "closeBase", "done"}

RangeOK ==
    Started => /\ begin = Start /\ length = End - Start
               /\ begin + length <= size
               /\ range # <<>> => End = range[2] + 1

\* How far the cutter is: it takes every byte that the source emits.
CutterOK ==
    /\ ~Started => cutter = "idle"
    /\ handler = "start" => body = <<>>
    /\ handler = "done" => body = <<XML>>
    /\ cutter = "idle" => emitted = 0 /\ taken = 0 /\ held = <<>> /\ packet = <<>> /\ ~Started
    /\ cutter = "skip" => taken = emitted /\ taken <= begin /\ held = <<>>
    /\ cutter = "copy" => emitted = begin + taken /\ taken <= length
    /\ Past => held = <<>>
    /\ handler # "copy" => packet = <<>>

\* Where the bytes are.
FlowOK ==
    /\ Started => /\ Len(body) <= length
                  /\ \A i \in 1 .. Len(body) : body[i] \in {XML, begin + i - 1}
    /\ \A i \in 1 .. Len(packet) : packet[i] = begin + Len(body) + i - 1
    /\ handler = "copy" =>
          /\ \A i \in 1 .. Len(held) : held[i] = begin + Len(body) + Len(packet) + i - 1
          /\ Len(body) + Len(packet) + Len(held) <= length
          /\ cutter = "skip" => body = <<>> /\ packet = <<>>
          /\ cutter = "copy" => Len(body) + Len(packet) + Len(held) = taken

\* How the pipes end.  A pipe that ends without an error has carried everything.
EndOK ==
    /\ innerEnd = "eof" => Stored <= emitted
    /\ outerEnd = "eof" => Past
    /\ (Past /\ outerEnd # "error" /\ Stored = size /\ handler = "copy") =>
          Len(body) + Len(packet) = length
    /\ (handler = "sent" /\ Stored = size) => Len(body) = length

IndInv == Types /\ RangeOK /\ CutterOK /\ FlowOK /\ EndOK

-----------------------------------------------------------------------------
\* Facts about the sequences of bytes.
LEMMA BytesFacts ==
    ASSUME NEW p \in Nat, NEW k \in Nat
    PROVE  /\ Bytes(p, k) \in Seq(Int) /\ Len(Bytes(p, k)) = k
           /\ \A i \in 1 .. k : Bytes(p, k)[i] = p + i - 1
BY DEF Bytes

LEMMA Concatenation ==
    ASSUME NEW s \in Seq(Int), NEW t \in Seq(Int)
    PROVE  /\ s \o t \in Seq(Int) /\ Len(s \o t) = Len(s) + Len(t)
           /\ \A i \in 1 .. Len(s) : (s \o t)[i] = s[i]
           /\ \A i \in Len(s) + 1 .. Len(s) + Len(t) :
                 i - Len(s) \in 1 .. Len(t) /\ (s \o t)[i] = t[i - Len(s)]
OBVIOUS

LEMMA Cut ==
    ASSUME NEW s \in Seq(Int), NEW k \in Nat, k <= Len(s)
    PROVE  /\ SubSeq(s, 1, k) \in Seq(Int) /\ Len(SubSeq(s, 1, k)) = k
           /\ \A i \in 1 .. k : SubSeq(s, 1, k)[i] = s[i]
           /\ SubSeq(s, k + 1, Len(s)) \in Seq(Int)
           /\ Len(SubSeq(s, k + 1, Len(s))) = Len(s) - k
           /\ \A i \in 1 .. Len(s) - k :
                 k + i \in 1 .. Len(s) /\ SubSeq(s, k + 1, Len(s))[i] = s[k + i]
OBVIOUS

LEMMA Empty == <<>> \in Seq(Int) /\ Len(<<>>) = 0 /\ \A s \in Seq(Int) : Len(s) = 0 => s = <<>>
OBVIOUS

\* Text that net/http accepts keeps the bytes before it and the length.
LEMMA AcceptedFacts ==
    ASSUME Types, NEW b \in Seq(Int), NEW k \in Nat, Len(b) <= length,
           \A i \in 1 .. Len(b) : b[i] \in {XML, begin + i - 1}
    PROVE  /\ Accepted(b, k) \in Seq(Int) /\ Len(Accepted(b, k)) <= length
           /\ \A i \in 1 .. Len(Accepted(b, k)) : Accepted(b, k)[i] \in {XML, begin + i - 1}
<1> DEFINE t == [i \in 1 .. k |-> XML]
<1>1. t \in Seq(Int) /\ Len(t) = k /\ \A i \in 1 .. k : t[i] = XML
  BY DEF XML
<1> HIDE DEF t
<1>2. CASE Len(b) + k > length
  BY <1>2 DEF Accepted
<1>3. CASE ~(Len(b) + k > length)
  <2>1. Accepted(b, k) = b \o t
    BY <1>3 DEF Accepted, t
  <2>2. /\ b \o t \in Seq(Int) /\ Len(b \o t) = Len(b) + k
        /\ \A i \in 1 .. Len(b) : (b \o t)[i] = b[i]
        /\ \A i \in Len(b) + 1 .. Len(b) + k : i - Len(b) \in 1 .. k /\ (b \o t)[i] = t[i - Len(b)]
    BY <1>1, Concatenation
  <2>3. length \in Nat /\ Len(b) \in Nat
    BY DEF Types
  <2>4. \A i \in 1 .. Len(b) + k : (b \o t)[i] \in {XML, begin + i - 1}
    BY <1>1, <2>2, <2>3
  <2> QED
    BY <1>3, <2>1, <2>2, <2>3, <2>4
<1> QED
  BY <1>2, <1>3

-----------------------------------------------------------------------------
\* Every step but the request's keeps the object and what was asked for.
LEMMA ObjectKept ==
    ASSUME UNCHANGED object
    PROVE  /\ Stored' = Stored /\ Start' = Start /\ End' = End
           /\ chunks' = chunks /\ size' = size /\ part' = part /\ range' = range
BY Zenon DEF object, Stored, Before, Start, End, RangeEnd, Wrap

\* The index of the next chunk is within the list, or everything is emitted.
LEMMA CurrentFacts ==
    ASSUME Types
    PROVE  /\ Len(chunks) \in Nat /\ Stored \in Nat /\ Current \in 1 .. Len(chunks) + 1
           /\ Current > Len(chunks) => Stored <= emitted
           /\ Current <= Len(chunks) => chunks[Current] - Before(Current) \in Nat
<1> DEFINE n == Len(chunks)
           done == {k \in 1 .. n : chunks[k] <= emitted}
<1>1. /\ chunks \in Seq(Nat \ {0}) /\ n \in Nat /\ emitted \in Nat
      /\ \A i, j \in 1 .. n : i < j => chunks[i] < chunks[j]
  BY ChunkListsAssumption DEF Types
<1> HIDE DEF n
<1>2. IsFiniteSet(1 .. n) /\ Cardinality(1 .. n) = n
  BY <1>1, FS_Interval
<1>3. done \in SUBSET (1 .. n)
  OBVIOUS
<1>4. /\ IsFiniteSet(done) /\ Cardinality(done) <= n
      /\ n = Cardinality(done) => 1 .. n = done
  BY <1>2, <1>3, FS_Subset
<1>5. Cardinality(done) \in Nat /\ Current = Cardinality(done) + 1
  BY <1>4, FS_CardinalityType DEF Current, n
<1>6. ASSUME Current > n PROVE Stored <= emitted
  <2>1. 1 .. n = done
    BY <1>1, <1>4, <1>5, <1>6
  <2>2. CASE n = 0
    BY <1>1, <2>2 DEF Stored, Before, n
  <2>3. CASE n # 0
    <3>1. n \in done
      BY <1>1, <2>1, <2>3
    <3> QED
      BY <1>1, <2>3, <3>1 DEF Stored, Before, n
  <2> QED
    BY <2>2, <2>3
<1>7. ASSUME Current <= n PROVE chunks[Current] - Before(Current) \in Nat
  <2>1. Current \in 1 .. n
    BY <1>1, <1>5, <1>7
  <2>2. CASE Current = 1
    BY <1>1, <2>1, <2>2 DEF Before, n
  <2>3. CASE Current # 1
    <3>1. Current - 1 \in 1 .. n /\ Current - 1 < Current
      BY <1>1, <2>1, <2>3
    <3>2. chunks[Current - 1] < chunks[Current] /\ chunks[Current] \in Nat /\ chunks[Current - 1] \in Nat
      BY <1>1, <2>1, <3>1 DEF n
    <3> QED
      BY <2>3, <3>2 DEF Before
  <2> QED
    BY <2>2, <2>3
<1>8. Stored \in Nat
  BY <1>1 DEF Stored, Before, n
<1> QED
  BY <1>1, <1>4, <1>5, <1>6, <1>7, <1>8 DEF n

-----------------------------------------------------------------------------
LEMMA InitInv == Init => IndInv
<1> SUFFICES ASSUME Init PROVE IndInv
  OBVIOUS
<1>1. Types /\ RangeOK /\ CutterOK
  BY Empty DEF Init, Types, RangeOK, CutterOK, Started, Past
<1>2. FlowOK /\ EndOK
  BY Empty DEF Init, FlowOK, EndOK, Started, Past
<1> QED
  BY <1>1, <1>2 DEF IndInv

\* The handler lets through ranges within the object only.
LEMMA RequestSteps == IndInv /\ (Refuse \/ Respond) => IndInv'
<1> SUFFICES ASSUME IndInv, Refuse \/ Respond PROVE IndInv'
  OBVIOUS
<1>1. /\ Types /\ handler = "start" /\ UNCHANGED object
      /\ body = <<>> /\ emitted = 0 /\ taken = 0 /\ held = <<>> /\ packet = <<>>
      /\ cutter = "idle"
  BY DEF IndInv, CutterOK, Refuse, Respond, Started
<1>2. /\ Stored' = Stored /\ Start' = Start /\ End' = End
      /\ chunks' = chunks /\ size' = size /\ part' = part /\ range' = range
  BY <1>1, ObjectKept
<1>3. outerEnd # "eof" /\ (innerEnd = "eof" => Stored <= emitted)
  BY <1>1 DEF IndInv, EndOK, Past
<1>4. CASE Refuse
  <2>1. <<XML>> \in Seq(Int) /\ Len(<<XML>>) = 1
    BY DEF XML
  <2>2. Types'
    BY <1>1, <1>2, <1>4, <2>1 DEF Refuse, Types, sourceVars, cutterVars, ends
  <2>3. RangeOK' /\ CutterOK' /\ EndOK'
    BY <1>1, <1>2, <1>3, <1>4 DEF Refuse, RangeOK, CutterOK, EndOK, Started, Past, sourceVars, cutterVars, ends
  <2>4. FlowOK'
    BY <1>1, <1>2, <1>4, Empty DEF Refuse, FlowOK, Started, cutterVars
  <2> QED
    BY <2>2, <2>3, <2>4 DEF IndInv
<1>5. CASE Respond
  <2>1. /\ Start \in Nat /\ End - Start \in Nat /\ Start + (End - Start) <= size
        /\ range # <<>> => End = range[2] + 1
    <3>1. size \in Nat /\ MaxInt \in Nat /\ size <= MaxInt
      BY <1>1, SizesAssumption, MaxIntAssumption DEF Types
    <3>2. CASE range = <<>>
      BY <3>1, <3>2 DEF Start, End
    <3>3. CASE range # <<>>
      <4>1. range \in (0 .. MaxInt) \X (0 .. MaxInt)
        BY <1>1, <3>3 DEF Types
      <4>2. range[1] \in 0 .. MaxInt /\ range[2] \in 0 .. MaxInt
        BY <4>1
      <4>3. ~(range[1] >= RangeEnd) /\ ~(RangeEnd > size)
        BY <1>5, <3>3 DEF Respond, Unsatisfiable
      <4>4. RangeEnd = range[2] + 1
        BY <3>1, <4>2, <4>3 DEF RangeEnd, Wrap
      <4> QED
        BY <3>1, <3>3, <4>2, <4>3, <4>4 DEF Start, End
    <3> QED
      BY <3>2, <3>3
  <2>2. Types'
    BY <1>1, <1>2, <1>5, <2>1 DEF Respond, Types, ends
  <2>3. RangeOK'
    BY <1>2, <1>5, <2>1 DEF Respond, RangeOK, Started
  <2>4. CutterOK' /\ EndOK'
    BY <1>1, <1>2, <1>3, <1>5, <2>1 DEF Respond, CutterOK, EndOK, Started, Past, ends
  <2>5. FlowOK'
    BY <1>1, <1>5, <2>1, Empty DEF Respond, FlowOK, Started
  <2> QED
    BY <2>2, <2>3, <2>4, <2>5 DEF IndInv
<1> QED
  BY <1>4, <1>5

\* The source does not touch what is on its way; it ends the pipe without an
\* error only behind the last chunk.
LEMMA SourceSteps == IndInv /\ SourceStep => IndInv'
<1> SUFFICES ASSUME IndInv, SourceStep PROVE IndInv'
  OBVIOUS
<1>1. /\ UNCHANGED <<object, reply, cutterVars, handlerVars, emitted, innerOpen, outerEnd, outerOpen>>
      /\ source' \in {"write", "done"}
      /\ innerEnd' \in {innerEnd, "eof", "error"} /\ (innerEnd' = "eof" /\ innerEnd # "eof" => Current > Len(chunks))
      /\ left' \in {left, 0} \/ (Current <= Len(chunks) /\ left' = chunks[Current] - Before(Current))
  BY DEF SourceStep, CollectChunk, CollectEnd, CollectFails, SourceWriteFails, sourceVars, ends
<1>2. /\ Stored' = Stored /\ Start' = Start /\ End' = End
      /\ chunks' = chunks /\ size' = size /\ part' = part /\ range' = range
  BY <1>1, ObjectKept
<1>3. Types /\ EndOK
  BY DEF IndInv
<1>4. left' \in Nat /\ (innerEnd' = "eof" => Stored <= emitted)
  BY <1>1, <1>3, CurrentFacts DEF Types, EndOK
<1>5. Types'
  BY <1>1, <1>2, <1>3, <1>4 DEF Types, reply, cutterVars, handlerVars
<1>6. RangeOK' /\ CutterOK'
  BY <1>1, <1>2 DEF IndInv, RangeOK, CutterOK, Started, Past, reply, cutterVars, handlerVars
<1>7. FlowOK'
  BY <1>1 DEF IndInv, FlowOK, Started, reply, cutterVars, handlerVars
<1>8. EndOK'
  BY <1>1, <1>2, <1>4 DEF IndInv, EndOK, Past, reply, cutterVars, handlerVars
<1> QED
  BY <1>5, <1>6, <1>7, <1>8 DEF IndInv

\* The cutter's own steps keep the object, the reply and what has arrived.
LEMMA CutterFrame ==
    ASSUME IndInv, UNCHANGED <<object, reply, handlerVars>>
    PROVE  /\ Stored' = Stored /\ RangeOK' /\ (Started' <=> Started)
           /\ Types
           /\ chunks' = chunks /\ size' = size /\ part' = part /\ range' = range
           /\ status' = status /\ begin' = begin /\ length' = length
           /\ handler' = handler /\ packet' = packet /\ body' = body
<1>1. /\ Stored' = Stored /\ Start' = Start /\ End' = End
      /\ chunks' = chunks /\ size' = size /\ part' = part /\ range' = range
  BY ObjectKept
<1>2. /\ status' = status /\ begin' = begin /\ length' = length
      /\ handler' = handler /\ packet' = packet /\ body' = body
  BY DEF reply, handlerVars
<1>3. RangeOK'
  BY <1>1, <1>2 DEF IndInv, RangeOK, Started
<1> QED
  BY <1>1, <1>2, <1>3 DEF IndInv, Started

\* A transfer over the inner pipe moves the source and the cutter alike.
LEMMA TransferSteps ==
    ASSUME IndInv, NEW k \in 1 .. Buffer, Skip(k) \/ CopyRead(k)
    PROVE  IndInv'
<1>1. UNCHANGED <<object, reply, handlerVars>> /\ UNCHANGED ends /\ cutter' = cutter
  BY DEF Skip, CopyRead, handlerVars
<1>2. /\ Stored' = Stored /\ RangeOK' /\ (Started' <=> Started)
      /\ Types
      /\ chunks' = chunks /\ size' = size /\ part' = part /\ range' = range
      /\ status' = status /\ begin' = begin /\ length' = length
      /\ handler' = handler /\ packet' = packet /\ body' = body
  BY <1>1, CutterFrame
<1>3. k \in Nat /\ k >= 1
  BY BufferAssumption
<1>4. emitted' = emitted + k /\ left' = left - k /\ k <= left /\ source' \in {"collect", "write"}
  BY DEF Skip, CopyRead, Transfer
<1>5. taken' = taken + k
  BY DEF Skip, CopyRead
<1>6. EndOK'
  <2>1. Stored \in Nat /\ emitted \in Nat
    BY <1>2, CurrentFacts DEF Types
  <2>2. innerEnd' = "eof" => Stored' <= emitted'
    BY <1>1, <1>2, <1>3, <1>4, <2>1 DEF IndInv, EndOK, ends
  <2> QED
    BY <1>1, <1>2, <2>2 DEF IndInv, EndOK, Past, ends
<1>7. CASE Skip(k)
  <2>1. cutter = "skip" /\ k <= begin - taken /\ held' = held
    BY <1>7 DEF Skip
  <2>2. Types'
    BY <1>1, <1>2, <1>3, <1>4, <1>5, <2>1 DEF Types, ends
  <2>3. CutterOK'
    BY <1>1, <1>2, <1>3, <1>4, <1>5, <2>1 DEF IndInv, CutterOK, Started, Past, Types
  <2>4. FlowOK'
    BY <1>1, <1>2, <2>1 DEF IndInv, FlowOK, Started
  <2> QED
    BY <1>2, <1>6, <2>2, <2>3, <2>4 DEF IndInv
<1>8. CASE CopyRead(k)
  <2>1. cutter = "copy" /\ k <= length - taken /\ held = <<>> /\ held' = Bytes(emitted, k)
    BY <1>8 DEF CopyRead
  <2>2. /\ held' \in Seq(Int) /\ Len(held') = k
        /\ \A i \in 1 .. k : held'[i] = emitted + i - 1
    <3>1. emitted \in Nat
      BY <1>2 DEF Types
    <3> QED
      BY <1>3, <2>1, <3>1, BytesFacts
  <2>3. emitted = begin + taken /\ taken <= length
    BY <2>1 DEF IndInv, CutterOK
  <2>4. Types'
    BY <1>1, <1>2, <1>3, <1>4, <1>5, <2>2 DEF Types, ends
  <2>5. CutterOK'
    BY <1>1, <1>2, <1>3, <1>4, <1>5, <2>1, <2>3 DEF IndInv, CutterOK, Started, Past, Types
  <2>6. ASSUME handler = "copy"
        PROVE  /\ \A i \in 1 .. Len(held') : held'[i] = begin + Len(body) + Len(packet) + i - 1
               /\ Len(body) + Len(packet) + Len(held') <= length
               /\ Len(body) + Len(packet) + Len(held') = taken'
    <3>1. Len(body) + Len(packet) = taken
      BY <1>2, <2>1, <2>6, Empty DEF IndInv, FlowOK, Types
    <3>2. /\ Len(body) \in Nat /\ Len(packet) \in Nat /\ begin \in Nat
          /\ taken \in Nat /\ length \in Nat
      BY <1>2 DEF Types
    <3>3. k <= length - taken /\ Len(held') = k
      BY <2>1, <2>2
    <3>4. /\ Len(body) + Len(packet) + Len(held') <= length
          /\ Len(body) + Len(packet) + Len(held') = taken'
      BY <1>3, <1>5, <3>1, <3>2, <3>3
    <3>5. \A i \in 1 .. k : held'[i] = begin + Len(body) + Len(packet) + i - 1
      <4>1. ASSUME NEW i \in 1 .. k
            PROVE  held'[i] = begin + Len(body) + Len(packet) + i - 1
        <5>1. held'[i] = emitted + i - 1 /\ i \in Int
          BY <2>2
        <5>2. emitted = begin + (Len(body) + Len(packet))
          BY <2>3, <3>1
        <5> QED
          BY <3>2, <5>1, <5>2
      <4> QED
        BY <4>1
    <3> QED
      BY <3>3, <3>4, <3>5
  <2>7. FlowOK'
    BY <1>1, <1>2, <2>1, <2>6 DEF IndInv, FlowOK, Started
  <2> QED
    BY <1>2, <1>6, <2>4, <2>5, <2>7 DEF IndInv
<1> QED
  BY <1>7, <1>8

\* The skipped bytes are all there, and the copy begins, or there is none.
LEMMA SkipDoneStep == IndInv /\ SkipDone => IndInv'
<1> SUFFICES ASSUME IndInv, SkipDone PROVE IndInv'
  OBVIOUS
<1>1. /\ UNCHANGED <<object, reply, handlerVars>> /\ UNCHANGED sourceVars /\ UNCHANGED ends
      /\ cutter = "skip" /\ taken = begin /\ taken' = 0 /\ held' = held
      /\ cutter' = IF length = 0 THEN "closePipe" ELSE "copy"
  BY DEF SkipDone
<1>2. /\ Stored' = Stored /\ RangeOK' /\ (Started' <=> Started)
      /\ Types
      /\ chunks' = chunks /\ size' = size /\ part' = part /\ range' = range
      /\ status' = status /\ begin' = begin /\ length' = length
      /\ handler' = handler /\ packet' = packet /\ body' = body
  BY <1>1, CutterFrame
<1>3. Started /\ emitted = begin /\ held = <<>> /\ outerEnd # "eof"
  BY <1>1 DEF IndInv, CutterOK, EndOK, Past
<1>4. handler = "copy" => Len(body) = 0 /\ Len(packet) = 0
  BY <1>1, Empty DEF IndInv, FlowOK
<1>5. Types'
  BY <1>1, <1>2 DEF Types, sourceVars, ends
<1>6. CutterOK'
  BY <1>1, <1>2, <1>3 DEF IndInv, CutterOK, Started, Past, Types, sourceVars
<1>7. FlowOK'
  BY <1>1, <1>2, <1>3, <1>4, Empty DEF IndInv, FlowOK, Started, Types
<1>8. EndOK'
  BY <1>1, <1>2, <1>3, <1>4 DEF IndInv, EndOK, Past, sourceVars, ends
<1> QED
  BY <1>2, <1>5, <1>6, <1>7, <1>8 DEF IndInv

\* The cutter stops: what is not an error must have been everything.
LEMMA StopSteps ==
    ASSUME IndInv, UNCHANGED <<object, reply, handlerVars>>, UNCHANGED sourceVars,
           taken' = taken, innerEnd' = innerEnd, innerOpen' \in BOOLEAN, outerOpen' \in BOOLEAN,
           outerEnd' \in {"open", "eof", "error"}, cutter # "idle", Past', held' = <<>>,
           (outerEnd' # "error" /\ Stored = size /\ handler = "copy") =>
              Len(body) + Len(packet) = length
    PROVE  IndInv'
<1>1. /\ Stored' = Stored /\ RangeOK' /\ (Started' <=> Started)
      /\ Types
      /\ chunks' = chunks /\ size' = size /\ part' = part /\ range' = range
      /\ status' = status /\ begin' = begin /\ length' = length
      /\ handler' = handler /\ packet' = packet /\ body' = body
  BY CutterFrame
<1>2. cutter' \in {"closePipe", "closeBase", "done"}
  BY DEF Past
<1>3. Types'
  BY <1>1, <1>2, Empty DEF Types, sourceVars
<1>4. CutterOK'
  BY <1>1, <1>2 DEF IndInv, CutterOK, Started, Past, sourceVars
<1>5. Started
  BY DEF IndInv, CutterOK
<1>6. ASSUME handler = "copy" PROVE Len(body) + Len(packet) + Len(held') <= length
  <2>1. Len(body) + Len(packet) + Len(held) <= length
    BY <1>6 DEF IndInv, FlowOK
  <2>2. /\ Len(body) \in Nat /\ Len(packet) \in Nat /\ Len(held) \in Nat
        /\ length \in Nat /\ Len(held') = 0
    BY <1>1, Empty DEF Types
  <2> QED
    BY <2>1, <2>2
<1>7. FlowOK'
  BY <1>1, <1>2, <1>6, Empty DEF IndInv, FlowOK, Started
<1>8. EndOK'
  BY <1>1, <1>2 DEF IndInv, EndOK, Past, sourceVars
<1> QED
  BY <1>1, <1>3, <1>4, <1>7, <1>8 DEF IndInv

LEMMA CutterSteps == IndInv /\ CutterStep => IndInv'
<1> SUFFICES ASSUME IndInv, CutterStep PROVE IndInv'
  OBVIOUS
<1>1. Types /\ CutterOK /\ FlowOK /\ EndOK /\ RangeOK
  BY DEF IndInv
<1>2. CASE \E k \in 1 .. Buffer : Skip(k) \/ CopyRead(k)
  BY <1>2, TransferSteps
<1>3. CASE SkipDone
  BY <1>3, SkipDoneStep
<1>4. CASE BaseEnds
  <2>1. held = <<>> /\ cutter # "idle" /\ Started /\ innerEnd \in {"eof", "error"}
    BY <1>1, <1>4 DEF BaseEnds, CutterOK, Started, Types
  <2>2. ASSUME innerEnd = "eof", Stored = size PROVE FALSE
    <3>1. size <= emitted /\ begin + length <= size
      BY <1>1, <2>1, <2>2 DEF EndOK, RangeOK
    <3>2. /\ size \in Nat /\ emitted \in Nat /\ begin \in Nat /\ length \in Nat /\ taken \in Nat
      BY <1>1, SizesAssumption, MaxIntAssumption DEF Types
    <3>3. CASE cutter = "skip" /\ taken < begin
      BY <1>1, <3>1, <3>2, <3>3 DEF CutterOK
    <3>4. CASE cutter = "copy" /\ taken < length
      BY <1>1, <3>1, <3>2, <3>4 DEF CutterOK
    <3> QED
      BY <1>4, <3>3, <3>4 DEF BaseEnds
  <2>3. /\ UNCHANGED <<object, reply, handlerVars>> /\ UNCHANGED sourceVars
        /\ taken' = taken /\ innerEnd' = innerEnd /\ innerOpen' \in BOOLEAN /\ outerOpen' \in BOOLEAN
        /\ outerEnd' \in {"open", "eof", "error"} /\ Past' /\ held' = <<>>
        /\ innerEnd = "error" => outerEnd' = "error"
    BY <1>1, <1>4, <2>1 DEF BaseEnds, Types, Past
  <2> QED
    BY <2>1, <2>2, <2>3, StopSteps
<1>5. CASE CutterWriteFails
  <2>1. /\ UNCHANGED <<object, reply, handlerVars>> /\ UNCHANGED sourceVars
        /\ taken' = taken /\ innerEnd' = innerEnd /\ innerOpen' \in BOOLEAN /\ outerOpen' \in BOOLEAN
        /\ cutter # "idle" /\ outerEnd' = "error" /\ Past' /\ held' = <<>>
    BY <1>1, <1>5 DEF CutterWriteFails, Types, Past
  <2> QED
    BY <2>1, StopSteps
<1>6. CASE CopyDone
  <2>1. /\ UNCHANGED <<object, reply, handlerVars>> /\ UNCHANGED sourceVars
        /\ taken' = taken /\ innerEnd' = innerEnd /\ innerOpen' \in BOOLEAN /\ outerOpen' \in BOOLEAN
        /\ cutter # "idle" /\ outerEnd' \in {"open", "eof", "error"} /\ Past' /\ held' = <<>>
    BY <1>1, <1>6 DEF CopyDone, Types, Past, ends
  <2>2. handler = "copy" => Len(body) + Len(packet) = length
    BY <1>1, <1>6, Empty DEF CopyDone, FlowOK, Types
  <2> QED
    BY <2>1, <2>2, StopSteps
<1>7. CASE ClosePipe \/ CloseBase
  <2>1. /\ UNCHANGED <<object, reply, handlerVars>> /\ UNCHANGED sourceVars
        /\ taken' = taken /\ innerEnd' = innerEnd /\ innerOpen' \in BOOLEAN /\ outerOpen' \in BOOLEAN
        /\ cutter # "idle" /\ outerEnd' \in {"open", "eof", "error"}
        /\ Past /\ Past' /\ held' = held
        /\ outerEnd' # "error" => outerEnd # "error"
    BY <1>1, <1>7, ZenonT(60) DEF ClosePipe, CloseBase, Types, Past
  <2>2. /\ held' = <<>>
        /\ (outerEnd' # "error" /\ Stored = size /\ handler = "copy") => Len(body) + Len(packet) = length
    BY <1>1, <2>1 DEF CutterOK, EndOK
  <2> QED
    BY <2>1, <2>2, StopSteps
<1> QED
  BY <1>2, <1>3, <1>4, <1>5, <1>6, <1>7 DEF CutterStep

\* The handler's own steps keep the object and the reply.
LEMMA HandlerFrame ==
    ASSUME IndInv, UNCHANGED <<object, reply>>
    PROVE  /\ Stored' = Stored /\ Start' = Start /\ End' = End
           /\ chunks' = chunks /\ size' = size /\ part' = part /\ range' = range
           /\ status' = status /\ begin' = begin /\ length' = length
           /\ Types /\ RangeOK /\ CutterOK /\ FlowOK /\ EndOK
           /\ Len(body) \in Nat /\ Len(packet) \in Nat /\ Len(held) \in Nat /\ begin \in Nat /\ length \in Nat
<1>1. /\ Stored' = Stored /\ Start' = Start /\ End' = End
      /\ chunks' = chunks /\ size' = size /\ part' = part /\ range' = range
  BY ObjectKept
<1> QED
  BY <1>1 DEF IndInv, Types, reply

\* The handler takes the next bytes over the outer pipe.
LEMMA HandlerReads ==
    ASSUME IndInv, NEW k \in 1 .. Buffer, HandlerRead(k)
    PROVE  IndInv'
<1>1. /\ UNCHANGED <<object, reply>> /\ UNCHANGED sourceVars /\ UNCHANGED ends
      /\ handler = "copy" /\ packet = <<>> /\ k <= Len(held) /\ k \in Nat /\ k >= 1
      /\ packet' = SubSeq(held, 1, k) /\ held' = SubSeq(held, k + 1, Len(held))
      /\ cutter' = cutter /\ taken' = taken /\ handler' = handler /\ body' = body
  BY BufferAssumption DEF HandlerRead
<1>2. /\ Stored' = Stored /\ Start' = Start /\ End' = End
      /\ chunks' = chunks /\ size' = size /\ part' = part /\ range' = range
      /\ status' = status /\ begin' = begin /\ length' = length
      /\ Types /\ RangeOK /\ CutterOK /\ FlowOK /\ EndOK
      /\ Len(body) \in Nat /\ Len(packet) \in Nat /\ Len(held) \in Nat /\ begin \in Nat /\ length \in Nat
  BY <1>1, HandlerFrame
<1>3. held \in Seq(Int) /\ held # <<>>
  BY <1>1, <1>2, Empty DEF Types
<1>4. /\ packet' \in Seq(Int) /\ Len(packet') = k /\ \A i \in 1 .. k : packet'[i] = held[i]
      /\ held' \in Seq(Int) /\ Len(held') = Len(held) - k
      /\ \A i \in 1 .. Len(held) - k : k + i \in 1 .. Len(held) /\ held'[i] = held[k + i]
  BY <1>1, <1>3, Cut
<1>5. /\ Len(packet) = 0 /\ cutter = "copy"
      /\ \A i \in 1 .. Len(held) : held[i] = begin + Len(body) + i - 1
  <2>1. Len(packet) = 0
    BY <1>1, Empty
  <2>2. \A i \in 1 .. Len(held) : held[i] = begin + Len(body) + Len(packet) + i - 1
    BY <1>1, <1>2 DEF FlowOK
  <2>3. \A i \in 1 .. Len(held) : held[i] = begin + Len(body) + i - 1
    BY <1>2, <2>1, <2>2
  <2> QED
    BY <1>1, <1>2, <1>3, <2>1, <2>3 DEF CutterOK, Past, Types
<1>6. /\ k \in Nat /\ k <= Len(held) /\ handler = "copy" /\ cutter' = cutter
      /\ taken' = taken /\ handler' = handler /\ body' = body
      /\ UNCHANGED sourceVars /\ UNCHANGED ends
  BY <1>1
<1>7. Types' /\ RangeOK'
  BY <1>6, <1>2, <1>4 DEF Types, RangeOK, Started, sourceVars, ends
<1>8. CutterOK' /\ EndOK'
  BY <1>1, <1>2, <1>5 DEF CutterOK, EndOK, Started, Past, sourceVars, ends
<1>9. \A i \in 1 .. Len(packet') : packet'[i] = begin + Len(body) + i - 1
  BY <1>1, <1>2, <1>4, <1>5, SMTT(40)
<1>10. \A i \in 1 .. Len(held') : held'[i] = begin + Len(body) + Len(packet') + i - 1
  <2> SUFFICES ASSUME NEW i \in 1 .. Len(held') PROVE held'[i] = begin + Len(body) + Len(packet') + i - 1
    OBVIOUS
  <2>1. k + i \in 1 .. Len(held) /\ held'[i] = held[k + i]
    BY <1>4
  <2>2. held[k + i] = begin + Len(body) + (k + i) - 1
    BY <1>5, <2>1
  <2> QED
    BY <1>1, <1>2, <1>4, <2>1, <2>2
<1>11. Len(body) + Len(packet') + Len(held') = Len(body) + Len(packet) + Len(held)
  BY <1>6, <1>2, <1>4, <1>5
<1>12. FlowOK'
  BY <1>6, <1>2, <1>5, <1>9, <1>10, <1>11 DEF FlowOK, Started
<1> QED
  BY <1>7, <1>8, <1>12 DEF IndInv

\* ... and sends them.
LEMMA HandlerWrites == IndInv /\ HandlerWrite => IndInv'
<1> SUFFICES ASSUME IndInv, HandlerWrite PROVE IndInv'
  OBVIOUS
<1>1. /\ UNCHANGED <<object, reply>> /\ UNCHANGED sourceVars /\ UNCHANGED cutterVars /\ UNCHANGED ends
      /\ handler = "copy" /\ packet # <<>> /\ body' = body \o packet /\ packet' = <<>>
      /\ handler' = handler
  BY DEF HandlerWrite
<1>2. /\ Stored' = Stored /\ Start' = Start /\ End' = End
      /\ chunks' = chunks /\ size' = size /\ part' = part /\ range' = range
      /\ status' = status /\ begin' = begin /\ length' = length
      /\ Types /\ RangeOK /\ CutterOK /\ FlowOK /\ EndOK
      /\ Len(body) \in Nat /\ Len(packet) \in Nat /\ Len(held) \in Nat /\ begin \in Nat /\ length \in Nat
  BY <1>1, HandlerFrame
<1>3. /\ body' \in Seq(Int) /\ Len(body') = Len(body) + Len(packet)
      /\ \A i \in 1 .. Len(body) : body'[i] = body[i]
      /\ \A i \in Len(body) + 1 .. Len(body) + Len(packet) :
            i - Len(body) \in 1 .. Len(packet) /\ body'[i] = packet[i - Len(body)]
  BY <1>1, <1>2, Concatenation DEF Types
<1>4. cutter \notin {"idle", "skip"} /\ Len(packet') = 0 /\ held' = held /\ cutter' = cutter /\ taken' = taken
  BY <1>1, <1>2, Empty DEF CutterOK, FlowOK, cutterVars
<1>5. Types' /\ RangeOK'
  BY <1>1, <1>2, <1>3, Empty DEF Types, RangeOK, Started, sourceVars, cutterVars, ends
<1>6. CutterOK'
  BY <1>1, <1>2, <1>4 DEF CutterOK, Started, Past, sourceVars
<1>7. EndOK'
  BY <1>1, <1>2, <1>3, <1>4 DEF EndOK, Past, sourceVars, ends
<1>8. \A i \in 1 .. Len(body') : body'[i] \in {XML, begin + i - 1}
  <2> SUFFICES ASSUME NEW i \in 1 .. Len(body') PROVE body'[i] \in {XML, begin + i - 1}
    OBVIOUS
  <2>1. CASE i <= Len(body)
    BY <1>1, <1>2, <1>3, <2>1 DEF FlowOK, Started
  <2>2. CASE i > Len(body)
    <3>1. i - Len(body) \in 1 .. Len(packet) /\ body'[i] = packet[i - Len(body)]
      BY <1>2, <1>3, <2>2
    <3>2. packet[i - Len(body)] = begin + Len(body) + (i - Len(body)) - 1
      BY <1>2, <3>1 DEF FlowOK
    <3>3. begin + Len(body) + (i - Len(body)) - 1 = begin + i - 1
      BY <1>2, <1>3
    <3> QED
      BY <3>1, <3>2, <3>3
  <2> QED
    BY <1>2, <1>3, <2>1, <2>2
<1>9. /\ \A i \in 1 .. Len(held) : held[i] = begin + Len(body) + Len(packet) + i - 1
      /\ Len(body) + Len(packet) + Len(held) <= length
      /\ cutter = "copy" => Len(body) + Len(packet) + Len(held) = taken
  BY <1>1, <1>2 DEF FlowOK
<1>10. /\ Len(body') + Len(packet') = Len(body) + Len(packet)
       /\ Len(body') <= length
  BY <1>2, <1>3, <1>4, <1>9
<1>11. FlowOK'
  BY <1>1, <1>2, <1>4, <1>8, <1>9, <1>10 DEF FlowOK, Started
<1> QED
  BY <1>5, <1>6, <1>7, <1>11 DEF IndInv

\* The copy ends, and what is sent after it is the text of an error at most.
LEMMA HandlerEnds ==
    IndInv /\ (HandlerWriteFails \/ HandlerEnd \/ HandlerError \/ CloseData) => IndInv'
<1> SUFFICES ASSUME IndInv, HandlerWriteFails \/ HandlerEnd \/ HandlerError \/ CloseData
             PROVE  IndInv'
  OBVIOUS
<1>1. /\ UNCHANGED <<object, reply>> /\ UNCHANGED sourceVars /\ UNCHANGED cutterVars
      /\ UNCHANGED <<innerEnd, innerOpen, outerEnd>>
  BY DEF HandlerWriteFails, HandlerEnd, HandlerError, CloseData, ends
<1>2. /\ Stored' = Stored /\ Start' = Start /\ End' = End
      /\ chunks' = chunks /\ size' = size /\ part' = part /\ range' = range
      /\ status' = status /\ begin' = begin /\ length' = length
      /\ Types /\ RangeOK /\ CutterOK /\ FlowOK /\ EndOK
      /\ Len(body) \in Nat /\ Len(packet) \in Nat /\ Len(held) \in Nat /\ begin \in Nat /\ length \in Nat
  BY <1>1, HandlerFrame
<1>3. CASE CloseData
  <2>1. handlerVars' = handlerVars /\ outerOpen' \in BOOLEAN
    BY <1>3 DEF CloseData
  <2>2. Types'
    <3>1. /\ handler' = handler /\ packet' = packet /\ body' = body
          /\ source' = source /\ emitted' = emitted /\ left' = left
          /\ cutter' = cutter /\ taken' = taken /\ held' = held
          /\ innerEnd' = innerEnd /\ innerOpen' = innerOpen /\ outerEnd' = outerEnd
      BY <1>1, <2>1 DEF handlerVars, sourceVars, cutterVars
    <3> QED
      BY <1>2, <2>1, <3>1 DEF Types
  <2>3. RangeOK' /\ CutterOK'
    BY <1>1, <1>2, <2>1 DEF RangeOK, CutterOK, Started, Past, handlerVars, sourceVars, cutterVars
  <2>4. FlowOK' /\ EndOK'
    BY <1>1, <1>2, <2>1 DEF FlowOK, EndOK, Started, Past, handlerVars, sourceVars, cutterVars
  <2> QED
    BY <2>2, <2>3, <2>4 DEF IndInv
<1>4. ASSUME Started, Started', handler' # "copy", outerOpen' = outerOpen, packet' = <<>>,
             handler' \in {"error", "sent", "failed", "clientGone"},
             body' \in Seq(Int), Len(body') <= length,
             \A i \in 1 .. Len(body') : body'[i] \in {XML, begin + i - 1},
             (handler' = "sent" /\ Stored = size) => Len(body') = length
      PROVE  IndInv'
  <2>1. Types' /\ RangeOK'
    BY <1>1, <1>2, <1>4, Empty DEF Types, RangeOK, sourceVars, cutterVars
  <2>2. CutterOK'
    BY <1>1, <1>2, <1>4 DEF CutterOK, Past, Started, sourceVars, cutterVars
  <2>3. FlowOK'
    <3>1. Len(packet') = 0 /\ begin' = begin /\ length' = length
      BY <1>2, <1>4, Empty
    <3> QED
      BY <1>4, <3>1 DEF FlowOK
  <2>4. EndOK'
    BY <1>1, <1>2, <1>4 DEF EndOK, Past, sourceVars, cutterVars
  <2> QED
    BY <2>1, <2>2, <2>3, <2>4 DEF IndInv
<1>5. CASE HandlerWriteFails
  <2>1. /\ handler = "copy" /\ handler' = "clientGone" /\ packet' = <<>> /\ body' = body /\ outerOpen' = outerOpen
    BY <1>5 DEF HandlerWriteFails, ends
  <2> QED
    BY <1>2, <1>4, <2>1 DEF Started, FlowOK, Types
<1>6. CASE HandlerEnd
  <2>1. /\ handler = "copy" /\ packet = <<>> /\ packet' = packet /\ body' = body /\ outerOpen' = outerOpen
        /\ outerEnd # "open" /\ handler' = IF outerEnd = "error" THEN "error" ELSE "sent"
    BY <1>6 DEF HandlerEnd, ends
  <2>2. ASSUME handler' = "sent", Stored = size PROVE Len(body) = length
    <3>1. outerEnd = "eof" /\ Len(packet) = 0
      BY <1>2, <2>1, <2>2, Empty DEF Types
    <3>2. Len(body) + Len(packet) = length
      BY <1>2, <2>1, <2>2, <3>1 DEF EndOK
    <3> QED
      BY <1>2, <3>1, <3>2
  <2> QED
    BY <1>2, <1>4, <2>1, <2>2 DEF Started, FlowOK, Types
<1>7. CASE HandlerError
  <2> DEFINE b == Accepted(body, ErrorParts[1])
  <2>1. /\ handler = "error" /\ handler' = "failed" /\ packet' = packet /\ outerOpen' = outerOpen
        /\ body' = Accepted(b, ErrorParts[2])
    BY <1>7 DEF HandlerError, ends
  <2>2. ErrorParts[1] \in Nat /\ ErrorParts[2] \in Nat
    BY ErrorPartsAssumption
  <2>3. body \in Seq(Int) /\ Len(body) <= length /\ \A i \in 1 .. Len(body) : body[i] \in {XML, begin + i - 1}
    BY <1>2, <2>1 DEF FlowOK, Started, Types
  <2>4. b \in Seq(Int) /\ Len(b) <= length /\ \A i \in 1 .. Len(b) : b[i] \in {XML, begin + i - 1}
    BY <1>2, <2>2, <2>3, AcceptedFacts
  <2> HIDE DEF b
  <2>5. body' \in Seq(Int) /\ Len(body') <= length /\ \A i \in 1 .. Len(body') : body'[i] \in {XML, begin + i - 1}
    BY <1>2, <2>1, <2>2, <2>4, AcceptedFacts
  <2>6. packet = <<>>
    BY <1>2, <2>1 DEF CutterOK
  <2> QED
    BY <1>2, <1>4, <2>1, <2>5, <2>6 DEF Started
<1> QED
  BY <1>3, <1>5, <1>6, <1>7

LEMMA NextInv == IndInv /\ [Next]_vars => IndInv'
<1> SUFFICES ASSUME IndInv, [Next]_vars PROVE IndInv'
  OBVIOUS
<1>1. CASE UNCHANGED vars
  <2>1. UNCHANGED <<object, reply, handlerVars>> /\ UNCHANGED sourceVars /\ UNCHANGED cutterVars /\ UNCHANGED ends
    BY <1>1 DEF vars
  <2>2. /\ Stored' = Stored /\ RangeOK' /\ (Started' <=> Started)
        /\ Types
        /\ chunks' = chunks /\ size' = size /\ part' = part /\ range' = range
        /\ status' = status /\ begin' = begin /\ length' = length
        /\ handler' = handler /\ packet' = packet /\ body' = body
    BY <2>1, CutterFrame
  <2>3. Types'
    BY <2>1, <2>2 DEF Types, sourceVars, cutterVars, ends
  <2>4. CutterOK'
    BY <2>1, <2>2 DEF IndInv, CutterOK, Started, Past, sourceVars, cutterVars
  <2>5. FlowOK' /\ EndOK'
    BY <2>1, <2>2 DEF IndInv, FlowOK, EndOK, Started, Past, sourceVars, cutterVars, ends
  <2> QED
    BY <2>2, <2>3, <2>4, <2>5 DEF IndInv
<1>2. CASE HandlerStep
  BY <1>2, RequestSteps, HandlerReads, HandlerWrites, HandlerEnds DEF HandlerStep
<1> QED
  BY <1>1, <1>2, SourceSteps, CutterSteps DEF Next, Terminated
-----------------------------------------------------------------------------
\* The inductive invariant holds of every state of a download.
THEOREM Invariance == Spec => []IndInv
BY InitInv, NextInv, PTL DEF Spec

\* The i-th byte of the response is the i-th byte of the range asked for, unless
\* it is of an error's text, for every object, Range and way the goroutines run.
THEOREM BodyIsRangeAlways == Spec => []BodyIsRange
<1>1. IndInv => BodyIsRange
  <2> SUFFICES ASSUME IndInv, NEW i \in 1 .. Len(body), body[i] # XML
               PROVE  /\ body[i] = Start + i - 1
                      /\ range # <<>> => body[i] <= range[2]
    BY DEF BodyIsRange, Start
  <2>1. Types /\ RangeOK /\ CutterOK /\ FlowOK
    BY DEF IndInv
  <2>2. Started
    <3>1. handler # "start"
      BY <2>1, Empty DEF CutterOK
    <3>2. handler # "done"
      <4> SUFFICES ASSUME handler = "done" PROVE FALSE
        OBVIOUS
      <4>1. body = <<XML>>
        BY <2>1 DEF CutterOK
      <4>2. i = 1
        BY <4>1
      <4> QED
        BY <4>1, <4>2
    <3> QED
      BY <3>1, <3>2 DEF Started
  <2>3. body[i] = begin + i - 1 /\ begin = Start /\ Len(body) <= length /\ i \in Nat /\ i <= Len(body)
    BY <2>1, <2>2 DEF FlowOK, RangeOK, Types
  <2>4. ASSUME range # <<>> PROVE body[i] <= range[2]
    <3>1. length = End - Start /\ End = range[2] + 1
      BY <2>1, <2>2, <2>4 DEF RangeOK
    <3>2. range[2] \in Int /\ begin \in Nat /\ length \in Nat /\ Len(body) \in Nat
      BY <2>1, <2>4, MaxIntAssumption DEF Types
    <3> QED
      BY <2>3, <3>1, <3>2
  <2> QED
    BY <2>3, <2>4
<1> QED
  BY Invariance, <1>1, PTL

\* A response that ends without an error is the whole range: a chunk that cannot
\* be restored never looks like the end of the object.
THEOREM CleanEndIsWholeAlways == Spec => []CleanEndIsWhole
<1>1. IndInv => CleanEndIsWhole
  <2> SUFFICES ASSUME IndInv, handler = "sent", Stored = size
               PROVE  /\ Len(body) = length
                      /\ length = IF range = <<>> THEN size ELSE range[2] - range[1] + 1
    BY DEF CleanEndIsWhole
  <2>1. Types /\ RangeOK /\ EndOK /\ Started
    BY DEF IndInv, Started
  <2>2. CASE range = <<>>
    BY <2>1, <2>2, SizesAssumption, MaxIntAssumption DEF RangeOK, Start, End, EndOK, Types
  <2>3. CASE range # <<>>
    <3>1. length = End - range[1] /\ End = range[2] + 1
      BY <2>1, <2>3 DEF RangeOK, Start
    <3>2. range[1] \in Int /\ range[2] \in Int
      BY <2>1, <2>3, MaxIntAssumption DEF Types
    <3> QED
      BY <2>1, <2>3, <3>1, <3>2 DEF EndOK
  <2> QED
    BY <2>2, <2>3
<1> QED
  BY Invariance, <1>1, PTL
=============================================================================
