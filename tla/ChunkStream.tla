----------------------------- MODULE ChunkStream -----------------------------
(***************************************************************************)
(* chunker.ChunkStream: the main goroutine reads the request body chunk by *)
(* chunk and hands each chunk to an errgroup of at most `Concurrency`      *)
(* workers.  A worker compresses and encrypts its chunk and writes one     *)
(* blob to every backend, the backends in parallel (shard.ShardData, whose *)
(* arithmetic is in module ShardData).  The first failing worker cancels   *)
(* the group's context, which only the read loop looks at; what had been   *)
(* completed is then deleted again.                                        *)
(***************************************************************************)
EXTENDS Integers, FiniteSets

CONSTANTS
    MaxChunks,     \* bound: the longest stream considered, in chunks
    Concurrency,   \* config.Cfg.ChunkConcurrency, any integer
    NumBackends    \* number of backends; each holds one blob of every chunk

ASSUME MaxChunksAssumption == MaxChunks \in Nat
ASSUME ConcurrencyAssumption == Concurrency \in Int
ASSUME NumBackendsAssumption == NumBackends \in Nat \ {0}

VARIABLES
    pc,         \* where the main goroutine is
    more,       \* the last read returned a full chunk, so the loop goes on
    readErr,    \* the body could not be read
    cut,        \* the body broke off before its announced end: its reader (net/http)
                \* reports that with io.ErrUnexpectedEOF
    ordinal,    \* chunks read so far; the next one's ordinal
    worker,     \* worker[c]: the goroutine of chunk c
    upload,     \* upload[c][b]: ShardData's goroutine for backend b
    stored,     \* the blobs <<c, b>> that are on the backends
    completed,  \* the chunks in the map `completed`
    cancelled,  \* a worker returned an error: ctx is cancelled, g.err is set
    todo,       \* cleanupChunks: the chunks still to delete
    at,         \* cleanupChunks: the next blob of the chunk being deleted
    refused     \* cleanupChunks: the chunks whose deletion error it dropped

cleaning == <<todo, at, refused>>
vars == <<pc, more, readErr, cut, ordinal, worker, upload, stored, completed,
          cancelled, todo, at, refused>>

Chunks == 0 .. (MaxChunks - 1)
Backends == 1 .. NumBackends

NoCleanup == [chunk |-> -1, blob |-> 0]

\* concurrency < 1 is treated as 1.
Limit == IF Concurrency < 1 THEN 1 ELSE Concurrency

\* The goroutines that hold a slot of the group.
Active == {c \in Chunks : worker[c] \in {"prepare", "upload"}}

-----------------------------------------------------------------------------
Init ==
    /\ pc = "loop"
    /\ more = TRUE
    /\ readErr = FALSE
    /\ cut = FALSE
    /\ ordinal = 0
    /\ worker = [c \in Chunks |-> "none"]
    /\ upload = [c \in Chunks |-> [b \in Backends |-> "idle"]]
    /\ stored = {}
    /\ completed = {}
    /\ cancelled = FALSE
    /\ todo = {}
    /\ at = NoCleanup
    /\ refused = {}

(***************************************************************************)
(* The main goroutine.                                                     *)
(***************************************************************************)

\* for ctx.Err() == nil
LoopCheck ==
    /\ pc = "loop"
    /\ pc' = IF cancelled THEN "wait" ELSE "reading"
    /\ UNCHANGED <<more, readErr, cut, ordinal, worker, upload, stored, completed,
                   cancelled, cleaning>>

\* io.ReadFull returned data: a full chunk (err == nil), the short last one
\* (io.ErrUnexpectedEOF), or what there was before the body failed.  A body that
\* is cut off fails with io.ErrUnexpectedEOF too and is taken for its end.
ReadChunk(outcome) ==
    /\ pc = "reading"
    /\ ordinal < MaxChunks
    /\ ordinal' = ordinal + 1
    /\ more' = (outcome = "full")
    /\ readErr' = (outcome = "failed")
    /\ cut' = (outcome = "cut")
    /\ pc' = "go"
    /\ UNCHANGED <<worker, upload, stored, completed, cancelled, cleaning>>

\* io.ReadFull returned nothing: the end of the body, or an error.
ReadNothing(outcome) ==
    /\ pc = "reading"
    /\ readErr' = (outcome = "failed")
    /\ cut' = (outcome = "cut")
    /\ pc' = "wait"
    /\ UNCHANGED <<more, ordinal, worker, upload, stored, completed, cancelled, cleaning>>

\* g.Go blocks until a slot is free; it does not look at ctx.
Go ==
    /\ pc = "go"
    /\ Cardinality(Active) < Limit
    /\ worker' = [worker EXCEPT ![ordinal - 1] = "prepare"]
    /\ pc' = IF more THEN "loop" ELSE "wait"
    /\ UNCHANGED <<more, readErr, cut, ordinal, upload, stored, completed, cancelled,
                   cleaning>>

\* Mutants of Wait: the group's error is dropped; the group is not waited for
\* once the body has failed.
WaitDropsError ==
    /\ pc = "wait"
    /\ Active = {}
    /\ pc' = IF readErr THEN "cleanup" ELSE "ok"
    /\ todo' = IF readErr THEN completed ELSE todo
    /\ UNCHANGED <<more, readErr, cut, ordinal, worker, upload, stored, completed,
                   cancelled, at, refused>>
WaitNotAfterReadError ==
    /\ pc = "wait"
    /\ readErr \/ Active = {}
    /\ pc' = IF cancelled \/ readErr THEN "cleanup" ELSE "ok"
    /\ todo' = IF cancelled \/ readErr THEN completed ELSE todo
    /\ UNCHANGED <<more, readErr, cut, ordinal, worker, upload, stored, completed,
                   cancelled, at, refused>>

\* g.Wait(), then cleanupChunks if the group or the read failed.
Wait ==
    /\ pc = "wait"
    /\ Active = {}
    /\ IF cancelled \/ readErr
       THEN /\ pc' = "cleanup"
            /\ todo' = completed
       ELSE /\ pc' = "ok"
            /\ UNCHANGED todo
    /\ UNCHANGED <<more, readErr, cut, ordinal, worker, upload, stored, completed,
                   cancelled, at, refused>>

\* cleanupChunks ranges over a map: the chunks come in any order.
CleanupChunk(c) ==
    /\ pc = "cleanup"
    /\ at = NoCleanup
    /\ c \in todo
    /\ todo' = todo \ {c}
    /\ at' = [chunk |-> c, blob |-> 1]
    /\ UNCHANGED <<pc, more, readErr, cut, ordinal, worker, upload, stored, completed,
                   cancelled, refused>>

\* shard.DestroyShards: the next blob of the chunk is deleted ...
DeleteShard ==
    /\ pc = "cleanup"
    /\ at # NoCleanup
    /\ stored' = stored \ {<<at.chunk, at.blob>>}
    /\ at' = IF at.blob < NumBackends THEN [at EXCEPT !.blob = @ + 1] ELSE NoCleanup
    /\ UNCHANGED <<pc, more, readErr, cut, ordinal, worker, upload, completed,
                   cancelled, todo, refused>>

\* Mutant of DeleteFails: cleanup gives up at the first error, as DeleteChunks
\* does.
DeleteFailsStops ==
    /\ pc = "cleanup"
    /\ at # NoCleanup
    /\ at' = NoCleanup
    /\ todo' = {}
    /\ refused' = refused \cup {at.chunk}
    /\ UNCHANGED <<pc, more, readErr, cut, ordinal, worker, upload, stored, completed,
                   cancelled>>

\* ... or the backend refuses, and the rest of the chunk's blobs stay.
DeleteFails ==
    /\ pc = "cleanup"
    /\ at # NoCleanup
    /\ at' = NoCleanup
    /\ refused' = refused \cup {at.chunk}
    /\ UNCHANGED <<pc, more, readErr, cut, ordinal, worker, upload, stored, completed,
                   cancelled, todo>>

CleanupDone ==
    /\ pc = "cleanup"
    /\ at = NoCleanup
    /\ todo = {}
    /\ pc' = "error"
    /\ UNCHANGED <<more, readErr, cut, ordinal, worker, upload, stored, completed,
                   cancelled, cleaning>>

(***************************************************************************)
(* The worker of chunk c (processChunk) and its backend goroutines.        *)
(***************************************************************************)

\* compression.Compress and encryption.Encrypt succeed; the uploads start.
Prepare(c) ==
    /\ worker[c] = "prepare"
    /\ worker' = [worker EXCEPT ![c] = "upload"]
    /\ upload' = [upload EXCEPT ![c] = [b \in Backends |-> "running"]]
    /\ UNCHANGED <<pc, more, readErr, cut, ordinal, stored, completed, cancelled,
                   cleaning>>

PrepareFails(c) ==
    /\ worker[c] = "prepare"
    /\ worker' = [worker EXCEPT ![c] = "failed"]
    /\ cancelled' = TRUE
    /\ UNCHANGED <<pc, more, readErr, cut, ordinal, upload, stored, completed, cleaning>>

Put(c, b) ==
    /\ upload[c][b] = "running"
    /\ upload' = [upload EXCEPT ![c][b] = "ok"]
    /\ stored' = stored \cup {<<c, b>>}
    /\ UNCHANGED <<pc, more, readErr, cut, ordinal, worker, completed, cancelled,
                   cleaning>>

PutFails(c, b) ==
    /\ upload[c][b] = "running"
    /\ upload' = [upload EXCEPT ![c][b] = "failed"]
    /\ UNCHANGED <<pc, more, readErr, cut, ordinal, worker, stored, completed,
                   cancelled, cleaning>>

\* Mutant of ChunkDone: a failed chunk keeps its slot of the group.
ChunkDoneKeepsSlot(c) ==
    /\ worker[c] = "upload"
    /\ \A b \in Backends : upload[c][b] # "running"
    /\ IF \A b \in Backends : upload[c][b] = "ok"
       THEN /\ worker' = [worker EXCEPT ![c] = "done"]
            /\ completed' = completed \cup {c}
            /\ UNCHANGED cancelled
       ELSE /\ cancelled' = TRUE
            /\ UNCHANGED <<worker, completed>>
    /\ UNCHANGED <<pc, more, readErr, cut, ordinal, upload, stored, cleaning>>

\* ShardData's g.Wait: the chunk enters `completed`, or the error cancels ctx.
ChunkDone(c) ==
    /\ worker[c] = "upload"
    /\ \A b \in Backends : upload[c][b] # "running"
    /\ IF \A b \in Backends : upload[c][b] = "ok"
       THEN /\ worker' = [worker EXCEPT ![c] = "done"]
            /\ completed' = completed \cup {c}
            /\ UNCHANGED cancelled
       ELSE /\ worker' = [worker EXCEPT ![c] = "failed"]
            /\ cancelled' = TRUE
            /\ UNCHANGED completed
    /\ UNCHANGED <<pc, more, readErr, cut, ordinal, upload, stored, cleaning>>

-----------------------------------------------------------------------------
Main ==
    \/ LoopCheck
    \/ \E outcome \in {"full", "last", "cut", "failed"} : ReadChunk(outcome)
    \/ \E outcome \in {"eof", "cut", "failed"} : ReadNothing(outcome)
    \/ Go \/ Wait
    \/ \E c \in Chunks : CleanupChunk(c)
    \/ DeleteShard \/ DeleteFails \/ CleanupDone

Worker(c) ==
    \/ Prepare(c) \/ PrepareFails(c) \/ ChunkDone(c)
    \/ \E b \in Backends : Put(c, b) \/ PutFails(c, b)

Terminated ==
    /\ pc \in {"ok", "error"}
    /\ UNCHANGED vars

Next == Main \/ (\E c \in Chunks : Worker(c)) \/ Terminated

Spec == Init /\ [][Next]_vars

\* Every goroutine that can run eventually does: backend calls return, with an
\* error at worst, and the body yields data, its end or an error.
FairSpec == Spec /\ WF_vars(Main) /\ \A c \in Chunks : WF_vars(Worker(c))

-----------------------------------------------------------------------------
(***************************************************************************)
(* Properties.                                                             *)
(***************************************************************************)
WorkerStates == {"none", "prepare", "upload", "done", "failed"}
UploadStates == {"idle", "running", "ok", "failed"}

\* The types of ChunkStream's locals and of the group's state.
TypeOK ==
    /\ pc \in {"loop", "reading", "go", "wait", "cleanup", "ok", "error"}
    /\ more \in BOOLEAN /\ readErr \in BOOLEAN /\ cut \in BOOLEAN /\ cancelled \in BOOLEAN
    /\ ordinal \in 0 .. MaxChunks
    /\ worker \in [Chunks -> WorkerStates]
    /\ upload \in [Chunks -> [Backends -> UploadStates]]
    /\ stored \subseteq Chunks \X Backends
    /\ completed \subseteq Chunks
    /\ todo \subseteq Chunks
    /\ refused \subseteq Chunks
    /\ at \in [chunk : Chunks, blob : Backends] \cup {NoCleanup}

\* A successful ChunkStream returns one chunk per ordinal it read, in stream
\* order, and each of them is on every backend: the list assembled from the map
\* has no zero-valued hole, however the workers finished.
SuccessIsWhole ==
    pc = "ok" =>
        /\ completed = 0 .. (ordinal - 1)
        /\ stored = (0 .. (ordinal - 1)) \X Backends
        /\ ~readErr

\* Cleanup reaches every chunk that had completed, also one whose worker was
\* only started after another had failed: a blob of a completed chunk is left
\* only if a backend refused a deletion, and a chunk is never completed and
\* failed at once.
CompletedAreCleaned ==
    pc = "error" =>
        \A c \in completed : (\E b \in Backends : <<c, b>> \in stored) => c \in refused

\* ChunkStream keeps the promise of module Upload: nothing is stored once it is
\* decided how the call ends, whichever workers and backends are still busy, and
\* a success leaves the blobs of the chunks it returns, no more and no fewer.
Promise == INSTANCE Upload WITH
    phase <- CASE pc = "cleanup" -> "discarding" [] pc \in {"ok", "error"} -> pc
                [] OTHER -> "open",
    blobs <- stored,
    length <- IF pc = "ok" THEN ordinal ELSE 0
ImplementsUpload == Promise!Spec

\* chunker/service.go:54-57, the comment on ChunkStream: "If reading from r
\* fails, [...] any chunks that had already completed successfully are cleaned up
\* [...] before the error is returned".  A body that was cut off is an error.
CutBodyIsNoSuccess == pc = "ok" => ~cut

\* ChunkStream returns, whatever fails: a failing worker never leaves the main
\* goroutine blocked on a slot or on the group.
Returns == <>(pc \in {"ok", "error"})
=============================================================================
