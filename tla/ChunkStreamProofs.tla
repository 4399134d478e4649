-------------------------- MODULE ChunkStreamProofs --------------------------
(***************************************************************************)
(* Proofs about module ChunkStream, for streams of any length, any number  *)
(* of backends and any configured concurrency.  SuccessIsWhole speaks of   *)
(* the moment of the return; it follows from what is true of every worker  *)
(* all along (Workers, Blobs), and of the group's error (Errors).          *)
(***************************************************************************)
EXTENDS ChunkStream, TLAPS

\* Where the call is decided and nothing may be stored any more.
Decided == pc \in {"cleanup", "ok", "error"}

\* The chunks that were handed to g.Go: all that were read, without the one the
\* main goroutine holds while it waits for a slot.
Handed == IF pc = "go" THEN ordinal - 1 ELSE ordinal

\* A worker exists for exactly the chunks that were handed over, and none is
\* busy once the group was waited for.
Workers ==
    /\ pc = "go" => ordinal > 0
    /\ \A c \in Chunks : worker[c] # "none" <=> c < Handed
    /\ Decided => Active = {}

\* What a worker's state says about its uploads and its blobs.
Blobs ==
    \A c \in Chunks :
        /\ c \in completed <=> worker[c] = "done"
        /\ worker[c] = "done" => \A b \in Backends : upload[c][b] = "ok"
        /\ \A b \in Backends :
              /\ upload[c][b] = "running" => worker[c] = "upload"
              /\ <<c, b>> \in stored => upload[c][b] = "ok"
              /\ upload[c][b] = "ok" => worker[c] \in {"upload", "done", "failed"}
              /\ upload[c][b] = "ok" /\ pc \notin {"cleanup", "error"} => <<c, b>> \in stored

\* A failed worker has cancelled the context, and a success had no error.
Errors ==
    /\ \A c \in Chunks : worker[c] = "failed" => cancelled
    /\ pc = "ok" => ~cancelled /\ ~readErr

\* A completed chunk is still to be deleted, is being deleted blob by blob, has
\* no blob left, or a backend refused.
Cleaned(c) ==
    \/ c \in todo \cup refused
    \/ at # NoCleanup /\ at.chunk = c /\ \A b \in Backends : b < at.blob => <<c, b>> \notin stored
    \/ \A b \in Backends : <<c, b>> \notin stored

Cleanup ==
    /\ pc \in {"cleanup", "error"} => \A c \in completed : Cleaned(c)
    /\ at # NoCleanup => pc = "cleanup"
    /\ pc = "error" => todo = {}

IndInv == TypeOK /\ Workers /\ Blobs /\ Errors /\ Cleanup

-----------------------------------------------------------------------------
\* The initial state of ChunkStream satisfies the invariant.
LEMMA InitInv == Init => IndInv
<1> SUFFICES ASSUME Init PROVE IndInv
  OBVIOUS
<1> USE MaxChunksAssumption, NumBackendsAssumption DEF Init, Chunks, Backends
<1>1. TypeOK
  <2>1. worker \in [Chunks -> WorkerStates] /\ upload \in [Chunks -> [Backends -> UploadStates]]
    BY DEF WorkerStates, UploadStates
  <2>2. more \in BOOLEAN /\ readErr \in BOOLEAN /\ cut \in BOOLEAN /\ cancelled \in BOOLEAN
    OBVIOUS
  <2>3. ordinal \in 0 .. MaxChunks /\ stored \subseteq Chunks \X Backends
    OBVIOUS
  <2> QED
    BY <2>1, <2>2, <2>3, Zenon DEF TypeOK
<1>2. Workers /\ Blobs
  BY DEF Workers, Blobs, Decided, Handed, Active
<1>3. Errors /\ Cleanup
  BY DEF Errors, Cleanup, Cleaned
<1> QED
  BY <1>1, <1>2, <1>3 DEF IndInv

\* The steps of the main goroutine keep it.
LEMMA MainInv == IndInv /\ Main => IndInv'
<1> SUFFICES ASSUME IndInv, Main PROVE IndInv'
  OBVIOUS
<1> USE MaxChunksAssumption, NumBackendsAssumption
    DEF IndInv, TypeOK, Workers, Blobs, Errors, Cleanup, Decided, Handed, Active, Chunks,
        Backends, WorkerStates, UploadStates, cleaning
<1>1. CASE LoopCheck
  BY <1>1 DEF LoopCheck, Cleaned
<1>2. ASSUME NEW outcome \in {"full", "last", "cut", "failed"}, ReadChunk(outcome) PROVE IndInv'
  BY <1>2 DEF ReadChunk, Cleaned
<1>3. ASSUME NEW outcome \in {"eof", "cut", "failed"}, ReadNothing(outcome) PROVE IndInv'
  BY <1>3 DEF ReadNothing, Cleaned
<1>4. CASE Go
  BY <1>4 DEF Go, Cleaned
<1>5. CASE Wait
  <2>1. CASE cancelled \/ readErr
    <3>1. TypeOK' /\ Workers' /\ Blobs'
      BY <1>5, <2>1, ZenonT(60) DEF Wait
    <3>2. Errors' /\ Cleanup'
      BY <1>5, <2>1 DEF Wait, Cleaned
    <3> QED
      BY <3>1, <3>2
  <2>2. CASE ~(cancelled \/ readErr)
    BY <1>5, <2>2 DEF Wait, Cleaned
  <2> QED
    BY <2>1, <2>2
<1>6. ASSUME NEW c \in Chunks, CleanupChunk(c) PROVE IndInv'
  BY <1>6 DEF CleanupChunk, Cleaned, NoCleanup
<1>7. CASE DeleteShard
  BY <1>7, SMTT(40) DEF DeleteShard, Cleaned, NoCleanup
<1>8. CASE DeleteFails
  BY <1>8, ZenonT(60) DEF DeleteFails, Cleaned, NoCleanup
<1>9. CASE CleanupDone
  BY <1>9 DEF CleanupDone, Cleaned
<1> QED
  BY <1>1, <1>2, <1>3, <1>4, <1>5, <1>6, <1>7, <1>8, <1>9, ZenonT(60) DEF Main

\* The steps of a chunk's worker and of its uploads keep it.
LEMMA WorkerInv == ASSUME NEW c \in Chunks, IndInv, Worker(c) PROVE IndInv'
<1> USE MaxChunksAssumption, NumBackendsAssumption
    DEF IndInv, TypeOK, Workers, Blobs, Errors, Cleanup, Decided, Handed, Active, Chunks,
        Backends, WorkerStates, UploadStates, cleaning
<1>1. CASE Prepare(c)
  BY <1>1 DEF Prepare, Cleaned
<1>2. CASE PrepareFails(c)
  <2>1. TypeOK' /\ Workers' /\ Blobs'
    BY <1>2 DEF PrepareFails
  <2>2. Errors'
    BY <1>2 DEF PrepareFails
  <2>3. Cleanup'
    BY <1>2 DEF PrepareFails, Cleaned
  <2> QED
    BY <2>1, <2>2, <2>3
<1>3. CASE ChunkDone(c)
  <2>1. TypeOK'
    <3>1. worker' \in [Chunks -> WorkerStates]
      <4>1. worker \in [Chunks -> WorkerStates] /\ {"done", "failed"} \subseteq WorkerStates
        OBVIOUS
      <4>2. \E s \in {"done", "failed"} : worker' = [worker EXCEPT ![c] = s]
        BY <1>3, Zenon DEF ChunkDone
      <4> HIDE DEF IndInv, TypeOK, WorkerStates
      <4> QED
        BY <4>1, <4>2
    <3>2. completed' \subseteq Chunks
      <4>1. completed' \in {completed, completed \cup {c}}
        BY <1>3 DEF ChunkDone
      <4> QED
        BY <4>1
    <3>3. cancelled' \in BOOLEAN
      BY <1>3 DEF ChunkDone
    <3>4. upload' \in [Chunks -> [Backends -> UploadStates]] /\ stored' \subseteq Chunks \X Backends
      BY <1>3 DEF ChunkDone
    <3> QED
      BY <1>3, <3>1, <3>2, <3>3, <3>4, Zenon DEF ChunkDone
  <2>2. CASE \A b \in Backends : upload[c][b] = "ok"
    <3>1. Workers'
      BY <1>3, <2>2 DEF ChunkDone
    <3>2. Blobs'
      BY <1>3, <2>2 DEF ChunkDone
    <3>3. Errors' /\ Cleanup'
      BY <1>3, <2>2 DEF ChunkDone, Cleaned
    <3> QED
      BY <2>1, <3>1, <3>2, <3>3
  <2>3. CASE ~(\A b \in Backends : upload[c][b] = "ok")
    <3>1. Workers'
      BY <1>3, <2>3 DEF ChunkDone
    <3>2. Blobs'
      BY <1>3, <2>3 DEF ChunkDone
    <3>3. Errors'
      BY <1>3, <2>3 DEF ChunkDone
    <3>4. Cleanup'
      BY <1>3, <2>3 DEF ChunkDone, Cleaned
    <3> QED
      BY <2>1, <3>1, <3>2, <3>3, <3>4
  <2> QED
    BY <2>2, <2>3
<1>4. ASSUME NEW b \in Backends, Put(c, b) PROVE IndInv'
  BY <1>4, SMTT(40) DEF Put, Cleaned
<1>5. ASSUME NEW b \in Backends, PutFails(c, b) PROVE IndInv'
  BY <1>5, SMTT(40) DEF PutFails, Cleaned
<1> QED
  BY <1>1, <1>2, <1>3, <1>4, <1>5 DEF Worker

\* Every step keeps it.
LEMMA StepInv == IndInv /\ [Next]_vars => IndInv'
<1> SUFFICES ASSUME IndInv, [Next]_vars PROVE IndInv'
  OBVIOUS
<1>1. CASE Main
  BY <1>1, MainInv
<1>2. ASSUME NEW c \in Chunks, Worker(c) PROVE IndInv'
  BY <1>2, WorkerInv
<1>3. CASE UNCHANGED vars
  BY <1>3 DEF vars, IndInv, TypeOK, Workers, Blobs, Errors, Cleanup, Cleaned, Decided, Handed,
              Active
<1> QED
  BY <1>1, <1>2, <1>3 DEF Next, Terminated

\* The invariant holds throughout every call of ChunkStream.
THEOREM Invariance == Spec => []IndInv
  BY InitInv, StepInv, PTL DEF Spec

\* The state of a ChunkStream call is well typed.
THEOREM Types == Spec => []TypeOK
<1>1. IndInv => TypeOK
  BY DEF IndInv
<1> QED
  BY <1>1, Invariance, PTL

\* When the call is about to succeed, the blobs of the chunks that were read are
\* all there and there are no others.
LEMMA WholeAtEnd ==
  ASSUME IndInv, pc \in {"wait", "ok"}, Active = {}, ~cancelled
  PROVE  /\ completed = 0 .. (ordinal - 1)
         /\ stored = (0 .. (ordinal - 1)) \X Backends
<1> USE MaxChunksAssumption DEF IndInv, TypeOK, Chunks, Handed, Active, WorkerStates
<1>1. \A c \in Chunks : worker[c] = IF c < ordinal THEN "done" ELSE "none"
  BY DEF Workers, Errors
<1>2. completed = 0 .. (ordinal - 1)
  <2>1. \A c \in Chunks : c \in completed <=> c < ordinal
    BY <1>1 DEF Blobs
  <2>2. completed \subseteq 0 .. (ordinal - 1)
    BY <2>1
  <2>3. 0 .. (ordinal - 1) \subseteq completed
    BY <2>1
  <2> QED
    BY <2>2, <2>3, Zenon
<1>3. ASSUME NEW c \in Chunks, NEW b \in Backends
      PROVE  <<c, b>> \in stored <=> c < ordinal
  BY <1>1 DEF Blobs
<1>4. stored = (0 .. (ordinal - 1)) \X Backends
  BY <1>3
<1> QED
  BY <1>2, <1>4

\* A successful ChunkStream returns every chunk it read, and each of them is on
\* every backend.
THEOREM SuccessIsWholeAlways == Spec => []SuccessIsWhole
<1>1. IndInv => SuccessIsWhole
  BY WholeAtEnd DEF SuccessIsWhole, IndInv, Workers, Errors, Decided
<1> QED
  BY <1>1, Invariance, PTL

\* A failed ChunkStream has deleted every chunk that had completed, but for those
\* whose deletion a backend refused.
THEOREM CompletedAreCleanedAlways == Spec => []CompletedAreCleaned
<1>1. IndInv => CompletedAreCleaned
  BY DEF CompletedAreCleaned, IndInv, Cleanup, Cleaned
<1> QED
  BY <1>1, Invariance, PTL

-----------------------------------------------------------------------------
(***************************************************************************)
(* ChunkStream implements Upload.                                          *)
(***************************************************************************)

\* ChunkStream begins as an open upload without blobs.
LEMMA PromiseInit == Init => Promise!Init
  BY DEF Init, Promise!Init

\* Every step of ChunkStream is a step of Upload or leaves its variables alone.
LEMMA PromiseStep == IndInv /\ [Next]_vars => [Promise!Next]_(Promise!vars)
<1> SUFFICES ASSUME IndInv, [Next]_vars PROVE [Promise!Next]_(Promise!vars)
  OBVIOUS
<1>1. CASE LoopCheck
  BY <1>1 DEF LoopCheck, Promise!vars
<1>2. ASSUME NEW outcome \in {"full", "last", "cut", "failed"}, ReadChunk(outcome)
      PROVE  UNCHANGED Promise!vars
  BY <1>2 DEF ReadChunk, Promise!vars
<1>3. ASSUME NEW outcome \in {"eof", "cut", "failed"}, ReadNothing(outcome)
      PROVE  UNCHANGED Promise!vars
  BY <1>3 DEF ReadNothing, Promise!vars
<1>4. CASE Go
  BY <1>4 DEF Go, Promise!vars
<1>5. CASE Wait
  <2>1. CASE cancelled \/ readErr
    BY <1>5, <2>1 DEF Wait, Promise!Next, Promise!Fail
  <2>2. CASE ~(cancelled \/ readErr)
    <3>1. pc = "wait" /\ pc' = "ok" /\ ordinal' = ordinal /\ stored' = stored
      BY <1>5, <2>2 DEF Wait
    <3>2. stored = (0 .. (ordinal - 1)) \X Backends
      BY <1>5, <2>2, WholeAtEnd DEF Wait
    <3>3. ordinal \in {0} \cup {c + 1 : c \in Chunks}
      <4>1. CASE ordinal # 0
        <5>1. ordinal - 1 \in Chunks /\ ordinal = (ordinal - 1) + 1
          BY <4>1, MaxChunksAssumption DEF IndInv, TypeOK, Chunks
        <5> QED
          BY <5>1
      <4> QED
        BY <4>1
    <3>4. {c \in Chunks : c < ordinal} = 0 .. (ordinal - 1)
      BY MaxChunksAssumption DEF IndInv, TypeOK, Chunks
    <3>5. Promise!Succeed
      <4>1. (IF pc' = "ok" THEN ordinal' ELSE 0) = ordinal
        BY <3>1
      <4>2. stored = {c \in Chunks : c < (IF pc' = "ok" THEN ordinal' ELSE 0)} \X Backends
        BY <3>2, <3>4, <4>1, Zenon
      <4> QED
        BY <3>1, <3>3, <4>1, <4>2 DEF Promise!Succeed, Promise!Whole
    <3> QED
      BY <3>5 DEF Promise!Next
  <2> QED
    BY <2>1, <2>2
<1>6. ASSUME NEW c \in Chunks, CleanupChunk(c) PROVE UNCHANGED Promise!vars
  BY <1>6 DEF CleanupChunk, Promise!vars
<1>7. CASE DeleteShard
  <2>1. CASE <<at.chunk, at.blob>> \in stored
    BY <1>7, <2>1 DEF DeleteShard, Promise!Next, Promise!Discard
  <2>2. CASE <<at.chunk, at.blob>> \notin stored
    BY <1>7, <2>2 DEF DeleteShard, Promise!vars
  <2> QED
    BY <2>1, <2>2
<1>8. CASE DeleteFails
  BY <1>8 DEF DeleteFails, Promise!vars
<1>9. CASE CleanupDone
  BY <1>9 DEF CleanupDone, Promise!Next, Promise!ReturnError
<1>10. ASSUME NEW c \in Chunks, Prepare(c) \/ PrepareFails(c) \/ ChunkDone(c)
       PROVE  UNCHANGED Promise!vars
  BY <1>10 DEF Prepare, PrepareFails, ChunkDone, Promise!vars
<1>11. ASSUME NEW c \in Chunks, NEW b \in Backends, Put(c, b) PROVE Promise!Store
  <2>1. worker[c] = "upload" /\ ~Decided
    BY <1>11 DEF Put, IndInv, Blobs, Workers, Active
  <2> QED
    BY <1>11, <2>1 DEF Put, Decided, Promise!Store
<1>12. ASSUME NEW c \in Chunks, NEW b \in Backends, PutFails(c, b)
       PROVE  UNCHANGED Promise!vars
  BY <1>12 DEF PutFails, Promise!vars
<1>13. CASE UNCHANGED vars
  BY <1>13 DEF vars, Promise!vars
<1> QED
  BY <1>1, <1>2, <1>3, <1>4, <1>5, <1>6, <1>7, <1>8, <1>9, <1>10, <1>11, <1>12, <1>13
  DEF Next, Main, Worker, Terminated, Promise!Next

\* ChunkStream keeps the promise of module Upload: nothing is stored once it is
\* decided how the call ends, and a success leaves exactly the blobs of the
\* chunks it returns.
THEOREM UploadImplemented == Spec => ImplementsUpload
  BY PromiseInit, PromiseStep, Invariance, PTL DEF Spec, ImplementsUpload, Promise!Spec
=============================================================================
