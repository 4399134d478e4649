------------------------------ MODULE Lifecycle ------------------------------
(***************************************************************************)
(* The program over its restarts: main starts it step by step (password    *)
(* file, backends, the check of FailureTolerance), it stores, reads and    *)
(* deletes chunks through the key store and the backends, it is killed at  *)
(* any moment and started again, with the same or an edited configuration. *)
(*                                                                         *)
(* A chunk is given to its backends as one block each; that ft missing     *)
(* blocks never matter is what module ShardData establishes, and more than *)
(* ft missing blocks may or may not.  Its row (chunker.Chunk) keeps the    *)
(* encryption type, the key and, for each block, backend and location.     *)
(***************************************************************************)
EXTENDS KeyStore, Backends

CONSTANTS
    Chunks,       \* the chunks that are uploaded
    Configs,      \* the configurations a start may find: [defs, ft, method]
    MaxStarts     \* bound on the starts of the program

ASSUME ConfigsAssumption ==
    \A cfg \in Configs : cfg.ft \in Nat /\ cfg.defs \in Seq([id : Ids \cup {NoId},
        kind : STRING, enabled : BOOLEAN, settings : {"set", "void", "missing"}, place : Places])
\* A directory, a chat and a channel are different places.
ASSUME PlacesAssumption ==
    \A f, g \in Configs : \A i \in DOMAIN f.defs, j \in DOMAIN g.defs :
        LET one == f.defs[i]
            other == g.defs[j]
        IN  Constructs(one) /\ one.settings = "set" =>
              /\ Constructs(other) /\ other.settings = "set" /\ one.place = other.place
                    => one.kind = other.kind
              /\ one.place = DefaultDir => one.kind = "file"
ASSUME MaxStartsAssumption == MaxStarts \in Nat \ {0}

VARIABLES
    phase,    \* where main is: "down", "kms", "write", "backends", "build" or "up"
    config,   \* config.Cfg and backends.yaml as this start read them
    starts,   \* how often the program was started
    nextDef,  \* the definition the loop of BuildBackends is at; 0 outside it
    pc,       \* pc[c]: what is being done with chunk c
    enc,      \* enc[c] = Chunk.Encryption: [type, key]
    shards,   \* shards[c] = Chunk.Shards: [backend, store, driver]; the row has the backend only
    tol,      \* tol[c] = FailureTolerance when c was sharded
    done,     \* done[c]: the blocks whose PutShard, GetShard or DeleteShard has returned
    missing,  \* missing[c]: the blocks the running read did not get
    foreign,  \* foreign[c]: the blocks for which it got another document
    faults,   \* faults[c]: the places that were unreachable during the running read
    born      \* born[c]: the start during which c was stored

processVars == <<phase, config, starts, nextDef>>
rowVars == <<enc, shards, tol, born>>
keyVars == <<passwordFile, keys>>
backendVars == <<instances, available, blobs, struck, unreachable>>
readVars == <<missing, foreign, faults>>
vars == <<keyVars, backendVars, processVars, pc, rowVars, done, readVars>>

Locations == Chunks \X Nat
Blocks(c) == DOMAIN shards[c]
Loc(c, i) == <<c, i>>

Init ==
    /\ KeyStoreInit
    /\ BackendsInit
    /\ phase = "down"
    /\ config \in Configs
    /\ starts = 0
    /\ nextDef = 0
    /\ pc = [c \in Chunks |-> "none"]
    /\ enc = [c \in Chunks |-> [type |-> "None", key |-> 0]]
    /\ shards = [c \in Chunks |-> <<>>]
    /\ tol = [c \in Chunks |-> 0]
    /\ done = [c \in Chunks |-> {}]
    /\ missing = [c \in Chunks |-> {}]
    /\ foreign = [c \in Chunks |-> {}]
    /\ faults = [c \in Chunks |-> {}]
    /\ born = [c \in Chunks |-> 0]

-----------------------------------------------------------------------------
(***************************************************************************)
(* main: every failure on the way is log.Fatalf.                           *)
(***************************************************************************)
chunkVars == <<pc, rowVars, done, readVars>>

\* LoadConfig and db.New; the operator may have edited the configuration.
Start ==
    /\ phase = "down"
    /\ starts < MaxStarts
    /\ phase' = "kms"
    /\ config' \in Configs
    /\ starts' = starts + 1
    /\ UNCHANGED <<keyVars, backendVars, nextDef, chunkVars>>

\* ConfigureKMS finds the password file.
FindPasswordFile ==
    /\ phase = "kms"
    /\ ~PasswordFileMissing
    /\ phase' = "backends"
    /\ UNCHANGED <<keyVars, backendVars, config, starts, nextDef, chunkVars>>

\* ConfigureKMS does not find it and begins to write it.
MakePasswordFile ==
    /\ phase = "kms"
    /\ OpenPasswordFile
    /\ phase' = "write"
    /\ UNCHANGED <<backendVars, config, starts, nextDef, chunkVars>>

PasswordFileWritten ==
    /\ phase = "write"
    /\ WritePasswordFile
    /\ phase' = "backends"
    /\ UNCHANGED <<backendVars, config, starts, nextDef, chunkVars>>

PasswordFileTorn ==
    /\ phase = "write"
    /\ TearPasswordFile
    /\ phase' = "down"
    /\ UNCHANGED <<backendVars, config, starts, nextDef, chunkVars>>

\* LoadBackends returns the definitions, or an error.
LoadInventory ==
    /\ phase = "backends"
    /\ LoadBackends(config.defs)
    /\ phase' = "build"
    /\ nextDef' = 1
    /\ UNCHANGED <<keyVars, backendVars, config, starts, chunkVars>>

RefuseInventory ==
    /\ phase = "backends"
    /\ ~LoadBackends(config.defs)
    /\ phase' = "down"
    /\ UNCHANGED <<keyVars, backendVars, config, starts, nextDef, chunkVars>>

\* The loop of BuildBackends is at an enabled definition, or at another one.
AtDef(enabled) ==
    /\ phase = "build"
    /\ nextDef \in DOMAIN config.defs
    /\ config.defs[nextDef].enabled = enabled

SkipDef ==
    /\ AtDef(FALSE)
    /\ nextDef' = nextDef + 1
    /\ UNCHANGED <<keyVars, backendVars, phase, config, starts, chunkVars>>

BuildDef ==
    /\ AtDef(TRUE)
    /\ BuildBackend(config.defs[nextDef])
    /\ nextDef' = nextDef + 1
    /\ UNCHANGED <<keyVars, phase, config, starts, chunkVars>>

\* The process ends with what was registered so far.
RefuseDef ==
    /\ AtDef(TRUE)
    /\ ~Constructs(config.defs[nextDef])
    /\ phase' = "down"
    /\ nextDef' = 0
    /\ ForgetBackends
    /\ UNCHANGED <<keyVars, config, starts, chunkVars>>

\* All definitions are done, and there are more backends than FailureTolerance, or not.
ServeRequests ==
    /\ phase = "build"
    /\ nextDef \notin DOMAIN config.defs
    /\ Len(available) > config.ft
    /\ phase' = "up"
    /\ nextDef' = 0
    /\ UNCHANGED <<keyVars, backendVars, config, starts, chunkVars>>

RefuseToServe ==
    /\ phase = "build"
    /\ nextDef \notin DOMAIN config.defs
    /\ Len(available) <= config.ft
    /\ phase' = "down"
    /\ nextDef' = 0
    /\ ForgetBackends
    /\ UNCHANGED <<keyVars, config, starts, chunkVars>>

-----------------------------------------------------------------------------
(***************************************************************************)
(* processChunk: Encrypt, then ShardData with one upload per backend.      *)
(***************************************************************************)
Move(c, from, to) == phase = "up" /\ pc[c] = from /\ pc' = [pc EXCEPT ![c] = to]

\* The upload begins; EncryptionTypeFromString knows the configured method.
BeginStore(c) ==
    /\ config.method \in EncryptionTypes
    /\ Move(c, "none", IF config.method = "None" THEN "shard" ELSE "encrypt")
    /\ enc' = [enc EXCEPT ![c].type = config.method]
    /\ UNCHANGED <<keyVars, backendVars, processVars, shards, tol, born, done, readVars>>

\* "unsupported encryption type"
RefuseStore(c) ==
    /\ config.method \notin EncryptionTypes
    /\ Move(c, "none", "failed")
    /\ UNCHANGED <<keyVars, backendVars, processVars, rowVars, done, readVars>>

\* encryptAES256GCM, encryptChaCha20Poly1305: a new key ...
Encrypt(c) ==
    /\ Move(c, "encrypt", "sealing")
    /\ CreateKey
    /\ enc' = [enc EXCEPT ![c].key = Len(keys')]
    /\ UNCHANGED <<backendVars, processVars, shards, tol, born, done, readVars>>

EncryptFails(c) ==
    /\ Move(c, "encrypt", "failed")
    /\ UNCHANGED <<keyVars, backendVars, processVars, rowVars, done, readVars>>

\* ... which is read back, and used.
Seal(c) ==
    /\ KeyOpens(enc[c].key)
    /\ Move(c, "sealing", "shard")
    /\ UNCHANGED <<keyVars, backendVars, processVars, rowVars, done, readVars>>

SealFails(c) ==
    /\ ~KeyOpens(enc[c].key)
    /\ Move(c, "sealing", "failed")
    /\ UNCHANGED <<keyVars, backendVars, processVars, rowVars, done, readVars>>

\* ShardData lays the chunk out over the available backends.
Shard(c) ==
    /\ Move(c, "shard", "put")
    /\ shards' = [shards EXCEPT ![c] = [i \in DOMAIN available |->
                    LET svc == instances[available[i]]
                    IN  [backend |-> available[i], store |-> svc.store, driver |-> svc.driver]]]
    /\ tol' = [tol EXCEPT ![c] = config.ft]
    /\ born' = [born EXCEPT ![c] = starts]
    /\ done' = [done EXCEPT ![c] = {}]
    /\ UNCHANGED <<keyVars, backendVars, processVars, enc, readVars>>

\* The goroutine of block i stores it.
Put(c, i) ==
    /\ phase = "up" /\ pc[c] \in {"put", "putFailed"}
    /\ i \in Blocks(c) \ done[c]
    /\ PutShard(shards[c][i], Loc(c, i))
    /\ done' = [done EXCEPT ![c] = @ \cup {i}]
    /\ UNCHANGED <<keyVars, processVars, pc, rowVars, readVars>>

\* It fails; the other goroutines go on.
PutFails(c, i) ==
    /\ phase = "up" /\ pc[c] \in {"put", "putFailed"}
    /\ i \in Blocks(c) \ done[c]
    /\ pc' = [pc EXCEPT ![c] = "putFailed"]
    /\ done' = [done EXCEPT ![c] = @ \cup {i}]
    /\ UNCHANGED <<keyVars, backendVars, processVars, rowVars, readVars>>

\* g.Wait; the rows are committed and the client is answered.
Acknowledge(c) ==
    /\ done[c] = Blocks(c)
    /\ Move(c, "put", "stored")
    /\ UNCHANGED <<keyVars, backendVars, processVars, rowVars, done, readVars>>

\* g.Wait returns the error: what was stored stays behind without a row.
StoreFails(c) ==
    /\ done[c] = Blocks(c)
    /\ Move(c, "putFailed", "failed")
    /\ UNCHANGED <<keyVars, backendVars, processVars, rowVars, done, readVars>>

-----------------------------------------------------------------------------
(***************************************************************************)
(* CollectChunks: CollectShards asks for one block after the other and     *)
(* goes on when one is not there; then the chunk is decrypted and          *)
(* decompressed.                                                           *)
(***************************************************************************)
BeginRead(c) ==
    /\ Move(c, "stored", "read")
    /\ done' = [done EXCEPT ![c] = {}]
    /\ missing' = [missing EXCEPT ![c] = {}]
    /\ foreign' = [foreign EXCEPT ![c] = {}]
    /\ faults' = [faults EXCEPT ![c] = unreachable]
    /\ UNCHANGED <<keyVars, backendVars, processVars, rowVars>>

\* The loop of CollectShards is at block i.
AtBlock(c, i) ==
    /\ phase = "up" /\ pc[c] = "read"
    /\ done[c] # Blocks(c)
    /\ i = Cardinality(done[c]) + 1

Collect(c) ==
    /\ \E i \in Blocks(c) :
          /\ AtBlock(c, i)
          /\ done' = [done EXCEPT ![c] = @ \cup {i}]
          /\ missing' = [missing EXCEPT ![c] =
                           IF GetShard(shards[c][i], Loc(c, i)) THEN @ ELSE @ \cup {i}]
    /\ UNCHANGED <<keyVars, backendVars, processVars, pc, rowVars, foreign, faults>>

\* The backend returns another document; nothing shows that it is not the shard,
\* if it is long enough ...
CollectForeign(c) ==
    /\ \E i \in Blocks(c) :
          /\ AtBlock(c, i)
          /\ GetForeign(shards[c][i])
          /\ done' = [done EXCEPT ![c] = @ \cup {i}]
          /\ foreign' = [foreign EXCEPT ![c] = @ \cup {i}]
    /\ UNCHANGED <<keyVars, backendVars, processVars, pc, rowVars, missing, faults>>

\* ... and "invalid shard payload" ends the read if it is not, whatever the other
\* backends hold.
CollectFails(c) ==
    /\ \E i \in Blocks(c) :
          /\ AtBlock(c, i)
          /\ GetForeign(shards[c][i])
          /\ foreign' = [foreign EXCEPT ![c] = @ \cup {i}]
    /\ Move(c, "read", "readFailed")
    /\ UNCHANGED <<keyVars, backendVars, processVars, rowVars, done, missing, faults>>

\* Enough blocks (always with no more than tol[c] missing), a key that opens, and
\* no foreign document in a place that matters.
ReadOk(c) ==
    /\ done[c] = Blocks(c)
    /\ Decrypt(enc[c])
    /\ missing[c] \cup foreign[c] # Blocks(c)
    /\ Move(c, "read", "readOk")
    /\ UNCHANGED <<keyVars, backendVars, processVars, rowVars, done, readVars>>

\* Too few blocks, no key, or the cipher or zstd's checksum finds the foreign bytes.
ReadFails(c) ==
    /\ done[c] = Blocks(c)
    /\ Cardinality(missing[c]) > tol[c] \/ ~Decrypt(enc[c]) \/ foreign[c] # {}
    /\ Move(c, "read", "readFailed")
    /\ UNCHANGED <<keyVars, backendVars, processVars, rowVars, done, readVars>>

\* Without a cipher the document of another chunk may decompress: the client gets
\* its bytes.
ReadWrong(c) ==
    /\ done[c] = Blocks(c)
    /\ foreign[c] # {} /\ enc[c].type = "None"
    /\ Move(c, "read", "readWrong")
    /\ UNCHANGED <<keyVars, backendVars, processVars, rowVars, done, readVars>>

EndRead(c) ==
    /\ phase = "up" /\ pc[c] \in {"readOk", "readFailed", "readWrong"}
    /\ pc' = [pc EXCEPT ![c] = "stored"]
    /\ UNCHANGED <<keyVars, backendVars, processVars, rowVars, done, readVars>>

-----------------------------------------------------------------------------
(***************************************************************************)
(* DestroyShards stops at the first error; the row goes last.              *)
(***************************************************************************)
BeginDelete(c) ==
    /\ phase = "up" /\ pc[c] \in {"stored", "cut"}
    /\ pc' = [pc EXCEPT ![c] = "delete"]
    /\ done' = [done EXCEPT ![c] = {}]
    /\ UNCHANGED <<keyVars, backendVars, processVars, rowVars, readVars>>

Destroy(c) ==
    /\ phase = "up" /\ pc[c] = "delete"
    /\ done[c] # Blocks(c)
    /\ LET i == Cardinality(done[c]) + 1
       IN  /\ DeleteShard(shards[c][i], Loc(c, i))
           /\ done' = [done EXCEPT ![c] = @ \cup {i}]
    /\ UNCHANGED <<keyVars, processVars, pc, rowVars, readVars>>

\* Mutant of DestroyFails: the loop goes on with the next block.
DestroyFailsContinues(c) ==
    /\ phase = "up" /\ pc[c] = "delete"
    /\ done[c] # Blocks(c)
    /\ done' = [done EXCEPT ![c] = @ \cup {Cardinality(@) + 1}]
    /\ UNCHANGED <<keyVars, backendVars, processVars, pc, rowVars, readVars>>

\* The deletion fails; the row still says where everything was.
DestroyFails(c) ==
    /\ done[c] # Blocks(c)
    /\ Move(c, "delete", "cut")
    /\ UNCHANGED <<keyVars, backendVars, processVars, rowVars, done, readVars>>

DeleteRow(c) ==
    /\ done[c] = Blocks(c)
    /\ Move(c, "delete", "gone")
    /\ UNCHANGED <<keyVars, backendVars, processVars, rowVars, done, readVars>>

-----------------------------------------------------------------------------
\* encryption.DeleteKey, which no handler calls.
DropKey ==
    /\ phase = "up"
    /\ \E k \in DOMAIN keys : DeleteKey(k)
    /\ UNCHANGED <<backendVars, processVars, chunkVars>>

PlaceFails ==
    /\ \E p \in Places : Outage(p)
    /\ faults' = [c \in Chunks |-> IF pc[c] = "read" THEN faults[c] \cup unreachable'
                                                     ELSE faults[c]]
    /\ UNCHANGED <<keyVars, processVars, pc, rowVars, done, missing, foreign>>

PlaceReturns ==
    /\ \E p \in Places : Repair(p)
    /\ UNCHANGED <<keyVars, processVars, chunkVars>>

\* The process is killed: requests end where they are, memory is lost.
Crash ==
    /\ phase # "down"
    /\ phase' = "down"
    /\ nextDef' = 0
    /\ ForgetBackends
    /\ pc' = [c \in Chunks |->
                CASE pc[c] \in {"encrypt", "sealing", "shard", "put", "putFailed"} -> "failed"
                  [] pc[c] \in {"read", "readOk", "readFailed", "readWrong"} -> "stored"
                  [] pc[c] = "delete" -> "cut"
                  [] OTHER -> pc[c]]
    /\ UNCHANGED <<keyVars, config, starts, rowVars, done, readVars>>

-----------------------------------------------------------------------------
StartStep ==
    \/ Start \/ FindPasswordFile \/ MakePasswordFile \/ PasswordFileWritten
    \/ PasswordFileTorn \/ LoadInventory \/ RefuseInventory \/ SkipDef \/ BuildDef
    \/ RefuseDef \/ ServeRequests \/ RefuseToServe

StoreStep(c) ==
    \/ BeginStore(c) \/ RefuseStore(c) \/ Encrypt(c) \/ EncryptFails(c)
    \/ Seal(c) \/ SealFails(c) \/ Shard(c)
    \/ \E i \in Blocks(c) : Put(c, i) \/ PutFails(c, i)
    \/ Acknowledge(c) \/ StoreFails(c)

ReadStep(c) ==
    \/ BeginRead(c) \/ Collect(c) \/ CollectForeign(c) \/ CollectFails(c)
    \/ ReadOk(c) \/ ReadFails(c) \/ ReadWrong(c) \/ EndRead(c)

DeleteStep(c) == BeginDelete(c) \/ Destroy(c) \/ DestroyFails(c) \/ DeleteRow(c)

Next ==
    \/ StartStep
    \/ \E c \in Chunks : StoreStep(c) \/ ReadStep(c) \/ DeleteStep(c)
    \/ DropKey \/ PlaceFails \/ PlaceReturns \/ Crash

Spec == Init /\ [][Next]_vars

-----------------------------------------------------------------------------
Phases == {"down", "kms", "write", "backends", "build", "up"}
Stages == {"none", "encrypt", "sealing", "shard", "put", "putFailed", "failed", "stored",
           "read", "readOk", "readFailed", "readWrong", "delete", "cut", "gone"}

TypeOK ==
    /\ KeyStoreTypeOK
    /\ BackendsTypeOK(Locations)
    /\ phase \in Phases /\ config \in Configs /\ starts \in 0 .. MaxStarts /\ nextDef \in Nat
    /\ pc \in [Chunks -> Stages]
    /\ enc \in [Chunks -> [type : EncryptionTypes, key : Nat]]
    /\ shards \in [Chunks -> Seq([backend : Ids, store : Stores, driver : Drivers])]
    /\ done \in [Chunks -> SUBSET Nat] /\ missing \in [Chunks -> SUBSET Nat]
    /\ foreign \in [Chunks -> SUBSET Nat]
    /\ \A c \in Chunks : done[c] \subseteq Blocks(c) /\ missing[c] \subseteq Blocks(c)
    /\ tol \in [Chunks -> Nat] /\ born \in [Chunks -> 0 .. MaxStarts]
    /\ faults \in [Chunks -> SUBSET Places]

\* The backends of c that really are out of service for the running read: a
\* place did not answer, the configuration of this start does not have the
\* backend or has it elsewhere, it kept the block in the memory of an earlier
\* process, or it lost the block to the deletion of another one.
OutOfService(c) ==
    {shards[c][i].backend : i \in {j \in Blocks(c) :
        LET s == shards[c][j] IN
        \/ s.store \in faults[c]
        \/ s.backend \notin DOMAIN instances
        \/ instances[s.backend].store # s.store
        \/ s.store \in Ids /\ born[c] < starts
        \/ <<s.store, Loc(c, j)>> \in struck}}

KeyDeleted(c) == enc[c].key \in DOMAIN keys /\ keys[enc[c].key].deleted

\* A telegram backend of c names another chat than when c was stored.
ChatMoved(c) ==
    \E i \in Blocks(c) :
        /\ Configured(shards[c][i].backend)
        /\ OtherChat(instances[shards[c][i].backend], shards[c][i])

\* FailureTolerance over the whole life of the data: a stored chunk that was
\* not deleted is read, and read as it was stored, after any restarts, crashes,
\* interrupted first starts and edits of the configuration, unless more backends
\* than the tolerance it was stored with are out of service, its key was deleted,
\* or a telegram backend was given another chat and returned the document that
\* has the message number there: CollectShards ends with it or takes it for the
\* shard. A moved chat that has no such message counts as out of service.
\* Rests on LoadBackends refusing duplicate ids, on the chunk's row keeping its
\* own encryption, and on the password file never being replaced.
AcknowledgedIsReadable ==
    \A c \in Chunks : pc[c] \in {"readFailed", "readWrong"} =>
        \/ Cardinality(OutOfService(c)) > tol[c]
        \/ KeyDeleted(c)
        \/ foreign[c] # {} /\ ChatMoved(c)

\* A deletion that reports success has removed every block from the backends
\* that are configured where they were when it was stored, in whatever order
\* outages, failed attempts and retries came (DestroyShards, then the row).
DeletedIsGone ==
    [][\A c \in Chunks : (pc[c] # "gone" /\ pc'[c] = "gone") =>
          \A i \in Blocks(c) : LET s == shards[c][i] IN
              s.backend \in DOMAIN instances /\ instances[s.backend].store = s.store
                  => <<s.store, Loc(c, i)>> \notin blobs]_vars
=============================================================================
