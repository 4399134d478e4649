--------------------------- MODULE LifecycleProofs ---------------------------
(***************************************************************************)
(* Proofs about module Lifecycle, for any configurations, any number of    *)
(* backends, chunks, keys and restarts.  The inductive invariant says what *)
(* each stage of a start and of a request may rely on: whose password      *)
(* sealed the keys (Keys), which instances the registry has (Registry),    *)
(* what the row of a chunk says (RowOK), where its blocks are (HeldOK),    *)
(* and what a running read or deletion has seen (RunningOK).               *)
(***************************************************************************)
EXTENDS Lifecycle, FiniteSetTheorems, TLAPS

\* readVars is only an abbreviation.
USE DEF readVars

\* The stages in which a request of this process works on the chunk, and those
\* of a chunk that is stored and not being deleted.
Working == {"encrypt", "sealing", "shard", "put", "putFailed",
            "read", "readOk", "readFailed", "readWrong", "delete"}
Kept == {"stored", "read", "readOk", "readFailed", "readWrong"}

\* Every key was sealed with the password that is in the file, and while the
\* file is being written no key exists.
Keys ==
    /\ keys # <<>> => passwordFile \in Passwords
    /\ \A k \in DOMAIN keys : keys[k].sealedBy = passwordFile
    /\ phase = "write" => passwordFile = EmptyFile

\* The ids BuildBackends has collected are registered, differ, and are ids of
\* definitions the loop has passed.
Registry ==
    /\ \A i \in DOMAIN available : available[i] \in DOMAIN instances
    /\ \A i, j \in DOMAIN available : available[i] = available[j] => i = j
    /\ phase \notin {"build", "up"} => available = <<>>
    /\ phase = "build" =>
          /\ LoadBackends(config.defs)
          /\ nextDef > 0
          /\ \A i \in DOMAIN available : \E j \in DOMAIN config.defs :
                j < nextDef /\ available[i] = config.defs[j].id

\* A row names each backend once and, once sealed, an existing key; only the
\* running process works on a chunk.
RowOK(c) ==
    /\ pc[c] \in Working => phase = "up"
    /\ born[c] <= starts
    /\ \A i, j \in Blocks(c) : shards[c][i].backend = shards[c][j].backend => i = j
    /\ pc[c] \notin {"none", "encrypt", "failed"} /\ enc[c].type \in Ciphers
          => enc[c].key \in DOMAIN keys
    /\ pc[c] \in {"none", "encrypt", "sealing", "shard"} => missing[c] = {}

\* Block i of c is where the row says, in a store of this configuration.
AtHome(c, i) ==
    /\ shards[c][i].backend \in DOMAIN instances
    /\ instances[shards[c][i].backend].store = shards[c][i].store

Blob(c, i) == <<shards[c][i].store, Loc(c, i)>>

\* Uploads go where the row says; an acknowledged block is there until its
\* deletion, unless the deletion of another one struck it, or it was kept in
\* memory and the process has ended since.
HeldOK(c) ==
    /\ pc[c] \in {"put", "putFailed"} => \A i \in Blocks(c) : AtHome(c, i)
    /\ pc[c] = "put" => \A i \in done[c] : Blob(c, i) \in blobs \cup struck
    /\ pc[c] \in Kept => \A i \in Blocks(c) :
          \/ Blob(c, i) \in blobs \cup struck
          \/ shards[c][i].store \in Ids /\ (born[c] < starts \/ phase = "down")

\* Block i is out of service for the running read of c, as OutOfService counts it.
Out(c, i) ==
    \/ shards[c][i].store \in faults[c]
    \/ ~AtHome(c, i)
    \/ shards[c][i].store \in Ids /\ born[c] < starts
    \/ Blob(c, i) \in struck

\* Reads and deletions take the blocks in order.  What a read missed is out of
\* service, a foreign document came from another chat; what a deletion has passed
\* is gone.
RunningOK(c) ==
    /\ pc[c] \in {"read", "delete"} => \E k \in 0 .. Len(shards[c]) : done[c] = 1 .. k
    /\ pc[c] = "read" => unreachable \subseteq faults[c]
    /\ pc[c] \in {"read", "readFailed"} => \A i \in missing[c] : Out(c, i)
    /\ pc[c] \in {"read", "readFailed", "readWrong"} /\ foreign[c] # {} => ChatMoved(c)
    /\ pc[c] = "readFailed" =>
          Cardinality(missing[c]) > tol[c] \/ KeyDeleted(c) \/ foreign[c] # {}
    /\ pc[c] = "readWrong" => foreign[c] # {}
    /\ pc[c] = "delete" => \A i \in done[c] : AtHome(c, i) => Blob(c, i) \notin blobs

ChunksOK == \A c \in Chunks : RowOK(c) /\ HeldOK(c) /\ RunningOK(c)

-----------------------------------------------------------------------------
IndInv == TypeOK /\ Keys /\ Registry /\ ChunksOK

\* The initial state of Lifecycle satisfies the invariant.
LEMMA InitInv == Init => IndInv
<1> SUFFICES ASSUME Init PROVE IndInv
  OBVIOUS
<1> USE ConfigsAssumption, MaxStartsAssumption, BackendsAssumption, PasswordFileAssumption
        DEF Init, KeyStoreInit, BackendsInit
<1>1. TypeOK
  BY DEF TypeOK, KeyStoreTypeOK, BackendsTypeOK, Phases, Stages, EncryptionTypes, Blocks, Locations
<1>2. Keys /\ Registry
  BY DEF Keys, Registry
<1>3. \A c \in Chunks : RowOK(c)
  BY DEF RowOK, Working, Blocks
<1>4. \A c \in Chunks : HeldOK(c) /\ RunningOK(c)
  BY DEF HeldOK, RunningOK, Kept
<1> QED
  BY <1>1, <1>2, <1>3, <1>4 DEF IndInv, ChunksOK

-----------------------------------------------------------------------------
(***************************************************************************)
(* Type correctness.  The state of the key store, of the backends, of the  *)
(* process and of the chunks are typed apart; a step changes few of them.  *)
(***************************************************************************)
ProcessTypeOK ==
    phase \in Phases /\ config \in Configs /\ starts \in 0 .. MaxStarts /\ nextDef \in Nat

ChunksTypeOK ==
    /\ pc \in [Chunks -> Stages]
    /\ enc \in [Chunks -> [type : EncryptionTypes, key : Nat]]
    /\ shards \in [Chunks -> Seq([backend : Ids, store : Stores, driver : Drivers])]
    /\ done \in [Chunks -> SUBSET Nat] /\ missing \in [Chunks -> SUBSET Nat]
    /\ foreign \in [Chunks -> SUBSET Nat]
    /\ \A c \in Chunks : done[c] \subseteq Blocks(c) /\ missing[c] \subseteq Blocks(c)
    /\ tol \in [Chunks -> Nat] /\ born \in [Chunks -> 0 .. MaxStarts]
    /\ faults \in [Chunks -> SUBSET Places]

\* The parts of the type invariant, and what leaves each of them alone.
LEMMA TypeParts ==
    /\ TypeOK <=> KeyStoreTypeOK /\ BackendsTypeOK(Locations) /\ ProcessTypeOK /\ ChunksTypeOK
    /\ TypeOK' <=> KeyStoreTypeOK' /\ BackendsTypeOK(Locations)' /\ ProcessTypeOK' /\ ChunksTypeOK'
    /\ KeyStoreTypeOK /\ UNCHANGED keyVars => KeyStoreTypeOK'
    /\ BackendsTypeOK(Locations) /\ UNCHANGED backendVars => BackendsTypeOK(Locations)'
    /\ ProcessTypeOK /\ UNCHANGED processVars => ProcessTypeOK'
    /\ ChunksTypeOK /\ UNCHANGED chunkVars => ChunksTypeOK'
<1>1. TypeOK <=> KeyStoreTypeOK /\ BackendsTypeOK(Locations) /\ ProcessTypeOK /\ ChunksTypeOK
  BY Zenon DEF TypeOK, ProcessTypeOK, ChunksTypeOK
<1>2. TypeOK' <=> KeyStoreTypeOK' /\ BackendsTypeOK(Locations)' /\ ProcessTypeOK' /\ ChunksTypeOK'
  BY Zenon DEF TypeOK, ProcessTypeOK, ChunksTypeOK
<1>3. KeyStoreTypeOK /\ UNCHANGED keyVars => KeyStoreTypeOK'
  BY DEF KeyStoreTypeOK, keyVars
<1>4. BackendsTypeOK(Locations) /\ UNCHANGED backendVars => BackendsTypeOK(Locations)'
  BY DEF BackendsTypeOK, backendVars
<1>5. ProcessTypeOK /\ UNCHANGED processVars => ProcessTypeOK'
  BY DEF ProcessTypeOK, processVars
<1>6. ChunksTypeOK /\ UNCHANGED chunkVars => ChunksTypeOK'
  BY DEF ChunksTypeOK, chunkVars, rowVars, Blocks
<1> QED
  BY <1>1, <1>2, <1>3, <1>4, <1>5, <1>6, Zenon

\* The fields of a shard of a chunk's row.
LEMMA BlockTypes ==
    ASSUME TypeOK, NEW c \in Chunks, NEW i \in Blocks(c)
    PROVE  i \in Nat \ {0} /\ shards[c][i].backend \in Ids /\ shards[c][i].store \in Stores
<1> DEFINE Row == [backend : Ids, store : Stores, driver : Drivers]
<1>1. shards[c] \in Seq(Row)
  BY DEF TypeOK
<1> HIDE DEF Row
<1>2. i \in Nat \ {0} /\ shards[c][i] \in Row
  BY <1>1 DEF Blocks
<1> QED
  BY <1>2 DEF Row

\* Reads and deletions take the blocks in order: the next one is a block, and
\* with it the blocks that are done are again the first ones.
LEMMA NextBlock ==
    ASSUME NEW c \in Chunks, TypeOK, RunningOK(c), pc[c] \in {"read", "delete"}, done[c] # Blocks(c)
    PROVE  LET i == Cardinality(done[c]) + 1
           IN  i \in Blocks(c) /\ done[c] \cup {i} = 1 .. i
<1>1. PICK k \in 0 .. Len(shards[c]) : done[c] = 1 .. k
  BY DEF RunningOK
<1>2. Len(shards[c]) \in Nat /\ Blocks(c) = 1 .. Len(shards[c])
  <2>1. shards[c] \in Seq([backend : Ids, store : Stores, driver : Drivers])
    BY DEF TypeOK
  <2> QED
    BY <2>1 DEF Blocks
<1>3. Cardinality(done[c]) = k
  <2>1. k \in Nat /\ Cardinality(1 .. k) = k
    BY <1>2, FS_Interval
  <2> QED
    BY <1>1, <2>1
<1> QED
  BY <1>1, <1>2, <1>3

\* A definition of backends.yaml, as ConfigsAssumption has it.
Defs == [id : Ids \cup {NoId}, kind : STRING, enabled : BOOLEAN,
         settings : {"set", "void", "missing"}, place : Places]

\* BuildBackends is at a definition that LoadBackends has checked: it has an id.
LEMMA NextDefinition ==
    ASSUME TypeOK, Registry, phase = "build", nextDef \in DOMAIN config.defs
    PROVE  config.defs[nextDef] \in Defs /\ config.defs[nextDef].id \in Ids
<1>1. config.defs \in Seq(Defs)
  BY ConfigsAssumption DEF TypeOK, Defs
<1>2. config.defs[nextDef] \in Defs
  BY <1>1
<1>3. config.defs[nextDef].id \in Ids \cup {NoId}
  BY <1>2 DEF Defs
<1>4. config.defs[nextDef].id # NoId
  BY DEF Registry, LoadBackends
<1> QED
  BY <1>2, <1>3, <1>4

\* The steps of main keep the types: what LoadBackends has checked is an id.
LEMMA TypeStart == IndInv /\ StartStep => TypeOK'
<1> SUFFICES ASSUME IndInv, StartStep PROVE TypeOK'
  OBVIOUS
<1>1. KeyStoreTypeOK /\ BackendsTypeOK(Locations) /\ ProcessTypeOK /\ ChunksTypeOK
  BY TypeParts DEF IndInv
<1>2. CASE BuildDef
  <2> DEFINE d == config.defs[nextDef]
  <2>1. d \in Defs
    BY <1>2, NextDefinition DEF BuildDef, AtDef, IndInv
  <2>2. d.id \in Ids
    BY <1>2, NextDefinition DEF BuildDef, AtDef, IndInv
  <2>3. Service(d) \in [driver : Drivers, store : Stores]
    BY <1>2, <2>1, <2>2, BackendsAssumption DEF Defs, BuildDef, BuildBackend, Constructs, Factories,
       Service, NewFileService, NewTelegramService, NewDiscordService, Drivers, Stores
  <2>4. BackendsTypeOK(Locations)'
    <3>1. instances' = [x \in DOMAIN instances \cup {d.id} |->
                          IF x = d.id THEN Service(d) ELSE instances[x]]
          /\ available' = Append(available, d.id) /\ UNCHANGED <<blobs, struck, unreachable>>
      BY <1>2 DEF BuildDef, BuildBackend, RegisterInstance
    <3> QED
      BY <1>1, <2>2, <2>3, <3>1 DEF BackendsTypeOK, Locations
  <2>5. ProcessTypeOK'
    BY <1>1, <1>2 DEF BuildDef, ProcessTypeOK
  <2>6. UNCHANGED <<keyVars, chunkVars>>
    BY <1>2 DEF BuildDef
  <2> QED
    BY <1>1, <2>4, <2>5, <2>6, TypeParts
<1>3. CASE Start \/ FindPasswordFile \/ LoadInventory \/ RefuseInventory \/ SkipDef \/ ServeRequests
  <2>1. ProcessTypeOK'
    BY <1>1, <1>3, MaxStartsAssumption DEF Start, FindPasswordFile, LoadInventory,
       RefuseInventory, SkipDef, AtDef, ServeRequests, ProcessTypeOK, Phases
  <2>2. UNCHANGED <<keyVars, backendVars, chunkVars>>
    BY <1>3 DEF Start, FindPasswordFile, LoadInventory, RefuseInventory, SkipDef, ServeRequests
  <2> QED
    BY <1>1, <2>1, <2>2, TypeParts
<1>4. CASE MakePasswordFile \/ PasswordFileWritten \/ PasswordFileTorn
  <2>1. ProcessTypeOK'
    BY <1>1, <1>4 DEF MakePasswordFile, PasswordFileWritten, PasswordFileTorn, ProcessTypeOK, Phases
  <2>2. KeyStoreTypeOK'
    BY <1>1, <1>4 DEF MakePasswordFile, PasswordFileWritten, PasswordFileTorn, OpenPasswordFile,
       WritePasswordFile, TearPasswordFile, FreshPasswords, KeyStoreTypeOK
  <2>3. UNCHANGED <<backendVars, chunkVars>>
    BY <1>4 DEF MakePasswordFile, PasswordFileWritten, PasswordFileTorn
  <2> QED
    BY <1>1, <2>1, <2>2, <2>3, TypeParts
<1>5. CASE RefuseDef \/ RefuseToServe
  <2>3. phase' = "down" /\ nextDef' = 0 /\ ForgetBackends /\ UNCHANGED <<keyVars, config, starts, chunkVars>>
    BY <1>5, Zenon DEF RefuseDef, RefuseToServe
  <2>1. ProcessTypeOK'
    BY <1>1, <2>3 DEF ProcessTypeOK, Phases
  <2>2. BackendsTypeOK(Locations)'
    BY <1>1, <2>3 DEF ForgetBackends, BackendsTypeOK, Locations
  <2> QED
    BY <1>1, <2>1, <2>2, <2>3, TypeParts
<1> QED
  BY <1>2, <1>3, <1>4, <1>5 DEF StartStep

\* A chunk's own steps keep the types.
LEMMA TypeStore == \A c \in Chunks : IndInv /\ StoreStep(c) => TypeOK'
<1> SUFFICES ASSUME NEW c \in Chunks, IndInv, StoreStep(c) PROVE TypeOK'
  OBVIOUS
<1>1. KeyStoreTypeOK /\ BackendsTypeOK(Locations) /\ ProcessTypeOK /\ ChunksTypeOK
  BY TypeParts DEF IndInv
<1>2. CASE BeginStore(c) \/ RefuseStore(c) \/ EncryptFails(c) \/ Seal(c) \/ SealFails(c)
           \/ Acknowledge(c) \/ StoreFails(c)
  <2>1. UNCHANGED <<keyVars, backendVars, processVars, shards, tol, born, done, missing, foreign, faults>>
    BY <1>2, Zenon DEF BeginStore, RefuseStore, EncryptFails, Seal, SealFails, Acknowledge,
       StoreFails, rowVars
  <2>2. UNCHANGED enc \/ (enc' = [enc EXCEPT ![c].type = config.method] /\ config.method \in EncryptionTypes)
    BY <1>2, Zenon DEF BeginStore, RefuseStore, EncryptFails, Seal, SealFails, Acknowledge,
       StoreFails, rowVars
  <2>3. \E stage \in {"shard", "encrypt", "failed", "stored"} : pc' = [pc EXCEPT ![c] = stage]
    BY <1>2 DEF BeginStore, RefuseStore, EncryptFails, Seal, SealFails, Acknowledge,
       StoreFails, Move
  <2>4. ChunksTypeOK'
    <3>1. pc' \in [Chunks -> Stages]
      BY <1>1, <2>3 DEF ChunksTypeOK, Stages
    <3>2. enc' \in [Chunks -> [type : EncryptionTypes, key : Nat]]
      BY <1>1, <2>2 DEF ChunksTypeOK
    <3> QED
      BY <1>1, <2>1, <3>1, <3>2 DEF ChunksTypeOK, Blocks
  <2> QED
    BY <1>1, <2>1, <2>4, TypeParts
<1>3. CASE Encrypt(c)
  <2>1. KeyStoreTypeOK' /\ Len(keys') \in Nat
    BY <1>1, <1>3 DEF Encrypt, CreateKey, EncryptJSON, PasswordReadable, KeyStoreTypeOK
  <2>2. ChunksTypeOK'
    BY <1>1, <1>3, <2>1, ZenonT(60) DEF Encrypt, Move, ChunksTypeOK, Blocks, Stages
  <2>3. UNCHANGED <<backendVars, processVars>>
    BY <1>3 DEF Encrypt
  <2> QED
    BY <1>1, <2>1, <2>2, <2>3, TypeParts
<1>4. CASE Shard(c)
  <2> DEFINE row == [i \in DOMAIN available |->
                       LET svc == instances[available[i]]
                       IN  [backend |-> available[i], store |-> svc.store, driver |-> svc.driver]]
  <2>1. row \in Seq([backend : Ids, store : Stores, driver : Drivers])
    <3>1. \A i \in DOMAIN available : row[i] \in [backend : Ids, store : Stores, driver : Drivers]
      BY <1>1 DEF IndInv, Registry, BackendsTypeOK
    <3>2. Len(available) \in Nat /\ DOMAIN row = 1 .. Len(available) /\ DOMAIN available = 1 .. Len(available)
      BY <1>1 DEF BackendsTypeOK
    <3>3. row \in [1 .. Len(available) -> [backend : Ids, store : Stores, driver : Drivers]]
      BY <3>1, <3>2
    <3> QED
      BY <3>2, <3>3
  <2>2. missing[c] = {}
    BY <1>4 DEF Shard, Move, IndInv, ChunksOK, RowOK
  <2>3. ChunksTypeOK'
    <3>1. config.ft \in Nat
      BY <1>1, ConfigsAssumption DEF ProcessTypeOK
    <3> HIDE DEF row
    <3>2. pc' = [pc EXCEPT ![c] = "put"] /\ shards' = [shards EXCEPT ![c] = row]
          /\ tol' = [tol EXCEPT ![c] = config.ft] /\ born' = [born EXCEPT ![c] = starts]
          /\ done' = [done EXCEPT ![c] = {}] /\ UNCHANGED <<enc, missing, foreign, faults>>
      BY <1>4 DEF Shard, Move, row
    <3> QED
      BY <1>1, <2>1, <2>2, <3>1, <3>2 DEF ChunksTypeOK, ProcessTypeOK, Blocks, Stages
  <2>4. UNCHANGED <<keyVars, backendVars, processVars>>
    BY <1>4 DEF Shard
  <2> QED
    BY <1>1, <2>3, <2>4, TypeParts
<1>5. ASSUME NEW i \in Blocks(c), Put(c, i) \/ PutFails(c, i) PROVE TypeOK'
  <2>1. ChunksTypeOK'
    <3>1. /\ pc' = [pc EXCEPT ![c] = "putFailed"] \/ UNCHANGED pc
          /\ done' = [done EXCEPT ![c] = done[c] \cup {i}]
          /\ UNCHANGED <<rowVars, missing, foreign, faults>>
      BY <1>1, <1>5 DEF Put, PutFails, ChunksTypeOK
    <3>2. pc' \in [Chunks -> Stages]
      BY <1>1, <3>1 DEF ChunksTypeOK, Stages
    <3>3. done' \in [Chunks -> SUBSET Nat] /\ \A x \in Chunks : done'[x] \subseteq Blocks(x)
      BY <1>1, <3>1 DEF ChunksTypeOK, Blocks
    <3> QED
      BY <1>1, <3>1, <3>2, <3>3 DEF ChunksTypeOK, Blocks, rowVars
  <2>2. BackendsTypeOK(Locations)'
    <3>1. CASE Put(c, i)
      BY <1>1, <3>1 DEF Put, PutShard, PutObject, Configured, BackendsTypeOK, Locations, Loc,
         ChunksTypeOK, Blocks
    <3>2. CASE PutFails(c, i)
      BY <1>1, <3>2, TypeParts DEF PutFails
    <3> QED
      BY <1>5, <3>1, <3>2
  <2>3. UNCHANGED <<keyVars, processVars>>
    BY <1>5 DEF Put, PutFails
  <2> QED
    BY <1>1, <2>1, <2>2, <2>3, TypeParts
<1> QED
  BY <1>2, <1>3, <1>4, <1>5 DEF StoreStep

LEMMA TypeReadDelete == \A c \in Chunks : IndInv /\ (ReadStep(c) \/ DeleteStep(c)) => TypeOK'
<1> SUFFICES ASSUME NEW c \in Chunks, IndInv, ReadStep(c) \/ DeleteStep(c) PROVE TypeOK'
  OBVIOUS
<1>1. KeyStoreTypeOK /\ BackendsTypeOK(Locations) /\ ProcessTypeOK /\ ChunksTypeOK
  BY TypeParts DEF IndInv
<1>2. CASE BeginRead(c) \/ ReadOk(c) \/ ReadFails(c) \/ ReadWrong(c) \/ EndRead(c)
           \/ BeginDelete(c) \/ DestroyFails(c) \/ DeleteRow(c)
  <2>1. UNCHANGED <<keyVars, backendVars, processVars, rowVars>>
        /\ (UNCHANGED done \/ done' = [done EXCEPT ![c] = {}])
        /\ (UNCHANGED missing \/ missing' = [missing EXCEPT ![c] = {}])
        /\ (UNCHANGED foreign \/ foreign' = [foreign EXCEPT ![c] = {}])
        /\ (UNCHANGED faults \/ faults' = [faults EXCEPT ![c] = unreachable])
        /\ (\E stage \in Stages : pc' = [pc EXCEPT ![c] = stage])
    BY <1>2 DEF BeginRead, ReadOk, ReadFails, ReadWrong, EndRead, BeginDelete, DestroyFails,
       DeleteRow, Move, Stages
  <2>2. ChunksTypeOK'
    <3>1. pc' \in [Chunks -> Stages] /\ faults' \in [Chunks -> SUBSET Places]
      BY <1>1, <2>1, ZenonT(60) DEF ChunksTypeOK, BackendsTypeOK
    <3>4. foreign' \in [Chunks -> SUBSET Nat]
      BY <1>1, <2>1 DEF ChunksTypeOK
    <3>2. done' \in [Chunks -> SUBSET Nat] /\ \A x \in Chunks : done'[x] \subseteq Blocks(x)
      BY <1>1, <2>1 DEF ChunksTypeOK, Blocks
    <3>3. missing' \in [Chunks -> SUBSET Nat] /\ \A x \in Chunks : missing'[x] \subseteq Blocks(x)
      BY <1>1, <2>1 DEF ChunksTypeOK, Blocks
    <3> QED
      BY <1>1, <2>1, <3>1, <3>2, <3>3, <3>4 DEF ChunksTypeOK, Blocks, rowVars
  <2> QED
    BY <1>1, <2>1, <2>2, TypeParts
<1>3. CASE Collect(c) \/ CollectForeign(c) \/ Destroy(c)
  <2> DEFINE i == Cardinality(done[c]) + 1
  <2>1. i \in Blocks(c)
    BY <1>1, <1>3, NextBlock DEF Collect, CollectForeign, AtBlock, Destroy, IndInv, ChunksOK
  <2>2. ChunksTypeOK'
    <3>1. /\ done' = [done EXCEPT ![c] = done[c] \cup {i}]
          /\ UNCHANGED missing \/ missing' = [missing EXCEPT ![c] = missing[c] \cup {i}]
          /\ UNCHANGED foreign \/ foreign' = [foreign EXCEPT ![c] = foreign[c] \cup {i}]
          /\ UNCHANGED <<pc, rowVars, faults>>
      BY <1>1, <1>3 DEF Collect, CollectForeign, AtBlock, Destroy, ChunksTypeOK
    <3> HIDE DEF i
    <3>2. i \in Nat
      <4>1. shards[c] \in Seq([backend : Ids, store : Stores, driver : Drivers])
        BY <1>1 DEF ChunksTypeOK
      <4> QED
        BY <2>1, <4>1 DEF Blocks
    <3>3. done' \in [Chunks -> SUBSET Nat] /\ \A x \in Chunks : done'[x] \subseteq Blocks(x)
      BY <1>1, <2>1, <3>1, <3>2 DEF ChunksTypeOK, Blocks
    <3>4. missing' \in [Chunks -> SUBSET Nat] /\ \A x \in Chunks : missing'[x] \subseteq Blocks(x)
      <4>1. CASE UNCHANGED missing
        BY <1>1, <4>1 DEF ChunksTypeOK, Blocks
      <4>2. CASE missing' = [missing EXCEPT ![c] = missing[c] \cup {i}]
        BY <1>1, <2>1, <3>2, <4>2 DEF ChunksTypeOK, Blocks
      <4> QED
        BY <3>1, <4>1, <4>2
    <3>5. foreign' \in [Chunks -> SUBSET Nat]
      <4>1. CASE UNCHANGED foreign
        BY <1>1, <4>1 DEF ChunksTypeOK
      <4>2. CASE foreign' = [foreign EXCEPT ![c] = foreign[c] \cup {i}]
        BY <1>1, <3>2, <4>2 DEF ChunksTypeOK
      <4> QED
        BY <3>1, <4>1, <4>2
    <3> QED
      BY <1>1, <3>1, <3>3, <3>4, <3>5 DEF ChunksTypeOK, Blocks, rowVars
  <2>3. BackendsTypeOK(Locations)'
    <3>1. CASE Destroy(c)
      BY <1>1, <3>1 DEF Destroy, DeleteShard, DeleteObject, Strikes, BackendsTypeOK
    <3>2. CASE Collect(c) \/ CollectForeign(c)
      BY <1>1, <3>2, TypeParts DEF Collect, CollectForeign
    <3> QED
      BY <1>3, <3>1, <3>2
  <2>4. UNCHANGED <<keyVars, processVars>>
    BY <1>3 DEF Collect, CollectForeign, Destroy
  <2> QED
    BY <1>1, <2>2, <2>3, <2>4, TypeParts
<1>4. CASE CollectFails(c)
  <2>1. PICK i \in Blocks(c) : foreign' = [foreign EXCEPT ![c] = @ \cup {i}]
    BY <1>4 DEF CollectFails
  <2>2. i \in Nat
    BY <1>1, <2>1, BlockTypes DEF IndInv
  <2>3. ChunksTypeOK'
    <3>1. pc' = [pc EXCEPT ![c] = "readFailed"] /\ UNCHANGED <<rowVars, done, missing, faults>>
      BY <1>4 DEF CollectFails, Move
    <3>2. pc' \in [Chunks -> Stages] /\ foreign' \in [Chunks -> SUBSET Nat]
      BY <1>1, <2>1, <2>2, <3>1 DEF ChunksTypeOK, Stages
    <3> QED
      BY <1>1, <3>1, <3>2 DEF ChunksTypeOK, Blocks, rowVars
  <2> QED
    BY <1>1, <1>4, <2>3, TypeParts DEF CollectFails
<1> QED
  BY <1>2, <1>3, <1>4 DEF ReadStep, DeleteStep

\* A row of kms_keys.
LEMMA KeyRow ==
    ASSUME KeyStoreTypeOK, NEW k \in DOMAIN keys
    PROVE  keys[k] \in [sealedBy : Passwords, deleted : BOOLEAN]
<1> DEFINE Row == [sealedBy : Passwords, deleted : BOOLEAN]
<1>1. keys \in Seq(Row)
  BY Zenon DEF KeyStoreTypeOK
<1> HIDE DEF Row
<1>2. keys[k] \in Row
  BY <1>1
<1> QED
  BY <1>2, Zenon DEF Row

\* Marking one row of kms_keys leaves a table of rows (for any marks).
LEMMA MarkRow ==
    ASSUME NEW P, NEW D, NEW mark \in D, NEW rows \in Seq([sealedBy : P, deleted : D]),
           NEW k \in DOMAIN rows
    PROVE  [rows EXCEPT ![k].deleted = mark] \in Seq([sealedBy : P, deleted : D])
<1>1. [rows[k] EXCEPT !.deleted = mark] \in [sealedBy : P, deleted : D]
  <2>1. ASSUME NEW x \in [sealedBy : P, deleted : D]
        PROVE  [x EXCEPT !.deleted = mark] \in [sealedBy : P, deleted : D]
    OBVIOUS
  <2>2. rows[k] \in [sealedBy : P, deleted : D]
    <3> DEFINE Row == [sealedBy : P, deleted : D]
    <3>1. rows \in Seq(Row)
      OBVIOUS
    <3> HIDE DEF Row
    <3>2. rows[k] \in Row
      BY <3>1
    <3> QED
      BY <3>2 DEF Row
  <2> QED
    BY <2>1, <2>2, Zenon
<1>2. [rows EXCEPT ![k].deleted = mark] = [rows EXCEPT ![k] = [rows[k] EXCEPT !.deleted = mark]]
  BY Zenon
<1> QED
  BY <1>1, <1>2

\* Outages, the deletion of a key and the end of the process keep the types.
LEMMA TypeRest == IndInv /\ (DropKey \/ PlaceFails \/ PlaceReturns \/ Crash) => TypeOK'
<1> SUFFICES ASSUME IndInv, DropKey \/ PlaceFails \/ PlaceReturns \/ Crash PROVE TypeOK'
  OBVIOUS
<1>1. KeyStoreTypeOK /\ BackendsTypeOK(Locations) /\ ProcessTypeOK /\ ChunksTypeOK
  BY TypeParts DEF IndInv
<1>2. CASE DropKey
  <2>1. KeyStoreTypeOK'
    <3>1. PICK k \in DOMAIN keys : keys' = [keys EXCEPT ![k].deleted = TRUE] /\ UNCHANGED passwordFile
      BY <1>2 DEF DropKey, DeleteKey
    <3>2. keys' \in Seq([sealedBy : Passwords, deleted : BOOLEAN])
      <4>1. keys \in Seq([sealedBy : Passwords, deleted : BOOLEAN]) /\ TRUE \in BOOLEAN
        BY <1>1, Zenon DEF KeyStoreTypeOK
      <4> QED
        BY <3>1, <4>1, MarkRow, Zenon
    <3> QED
      BY <1>1, <3>1, <3>2, Zenon DEF KeyStoreTypeOK
  <2> QED
    BY <1>1, <1>2, <2>1, TypeParts DEF DropKey
<1>3. CASE PlaceFails
  <2>1. BackendsTypeOK(Locations)'
    BY <1>1, <1>3 DEF PlaceFails, Outage, BackendsTypeOK
  <2>2. ChunksTypeOK'
    BY <1>1, <1>3, <2>1 DEF PlaceFails, ChunksTypeOK, BackendsTypeOK, Blocks, rowVars
  <2> QED
    BY <1>1, <1>3, <2>1, <2>2, TypeParts DEF PlaceFails
<1>4. CASE PlaceReturns
  <2>1. BackendsTypeOK(Locations)'
    BY <1>1, <1>4 DEF PlaceReturns, Repair, BackendsTypeOK
  <2> QED
    BY <1>1, <1>4, <2>1, TypeParts DEF PlaceReturns
<1>5. CASE Crash
  <2>1. BackendsTypeOK(Locations)'
    BY <1>1, <1>5 DEF Crash, ForgetBackends, BackendsTypeOK
  <2>2. ChunksTypeOK'
    BY <1>1, <1>5 DEF Crash, ChunksTypeOK, Stages, Blocks, rowVars
  <2>3. ProcessTypeOK' /\ UNCHANGED keyVars
    BY <1>1, <1>5 DEF Crash, ProcessTypeOK, Phases
  <2> QED
    BY <1>1, <2>1, <2>2, <2>3, TypeParts
<1> QED
  BY <1>2, <1>3, <1>4, <1>5

-----------------------------------------------------------------------------
(***************************************************************************)
(* Keys and Registry.                                                      *)
(***************************************************************************)
\* What a step of one request leaves alone: the process, the registry, the key
\* rows there are, and everything that belongs to another chunk, but for a block
\* that a deletion strikes.
Frame(c) ==
    /\ phase = "up"
    /\ UNCHANGED <<processVars, instances, available, unreachable, passwordFile>>
    /\ \A k \in DOMAIN keys : k \in DOMAIN keys' /\ keys'[k] = keys[k]
    /\ \A x \in Chunks \ {c} :
          /\ pc'[x] = pc[x] /\ enc'[x] = enc[x] /\ shards'[x] = shards[x] /\ tol'[x] = tol[x]
          /\ born'[x] = born[x] /\ done'[x] = done[x] /\ missing'[x] = missing[x]
          /\ foreign'[x] = foreign[x] /\ faults'[x] = faults[x]
          /\ \A s \in Stores, i \in Nat :
                /\ <<s, Loc(x, i)>> \in blobs' => <<s, Loc(x, i)>> \in blobs
                /\ <<s, Loc(x, i)>> \in blobs => <<s, Loc(x, i)>> \in blobs' \cup struck'
    /\ struck \subseteq struck'

\* The steps of a request on c change nothing else.
LEMMA RequestFrame ==
    ASSUME NEW c \in Chunks, TypeOK, StoreStep(c) \/ ReadStep(c) \/ DeleteStep(c)
    PROVE  Frame(c)
<1> USE DEF Frame, rowVars, keyVars, backendVars
<1>1. CASE BeginStore(c) \/ RefuseStore(c) \/ EncryptFails(c) \/ Seal(c) \/ SealFails(c)
           \/ Shard(c) \/ Acknowledge(c) \/ StoreFails(c)
  BY <1>1 DEF BeginStore, RefuseStore, EncryptFails, Seal, SealFails, Shard, Acknowledge,
     StoreFails, Move, TypeOK
<1>2. CASE Encrypt(c)
  <2>1. \A k \in DOMAIN keys : k \in DOMAIN keys' /\ keys'[k] = keys[k]
    BY <1>2 DEF Encrypt, CreateKey, TypeOK, KeyStoreTypeOK
  <2> QED
    BY <1>2, <2>1 DEF Encrypt, CreateKey, Move, TypeOK
<1>3. CASE BeginRead(c) \/ ReadOk(c) \/ ReadFails(c) \/ ReadWrong(c) \/ EndRead(c)
           \/ BeginDelete(c) \/ DestroyFails(c) \/ DeleteRow(c) \/ Collect(c)
           \/ CollectForeign(c) \/ CollectFails(c)
  BY <1>3 DEF BeginRead, ReadOk, ReadFails, ReadWrong, EndRead, BeginDelete, DestroyFails,
     DeleteRow, Collect, CollectForeign, CollectFails, AtBlock, Move, TypeOK
<1>4. CASE Destroy(c) \/ \E i \in Blocks(c) : Put(c, i) \/ PutFails(c, i)
  <2>1. /\ struck \subseteq struck'
        /\ \A x \in Chunks \ {c}, s \in Stores, i \in Nat :
              /\ <<s, Loc(x, i)>> \in blobs' => <<s, Loc(x, i)>> \in blobs
              /\ <<s, Loc(x, i)>> \in blobs => <<s, Loc(x, i)>> \in blobs' \cup struck'
    <3>1. \E i, s, hit :
             \/ blobs' = blobs \cup {<<s, Loc(c, i)>>} /\ UNCHANGED struck
             \/ blobs' = blobs \ ({<<s, Loc(c, i)>>} \cup hit) /\ struck' = struck \cup hit
             \/ UNCHANGED <<blobs, struck>>
      BY <1>4, Zenon DEF Destroy, Put, PutFails, DeleteShard, DeleteObject, PutShard, PutObject
    <3> QED
      BY <3>1 DEF Loc
  <2> QED
    BY <1>4, <2>1 DEF Destroy, Put, PutFails, DeleteShard, PutShard, Move, TypeOK
<1> QED
  BY <1>1, <1>2, <1>3, <1>4, Zenon DEF StoreStep, ReadStep, DeleteStep

LEMMA KeysInv == IndInv /\ Next => Keys'
<1> SUFFICES ASSUME IndInv, Next PROVE Keys'
  OBVIOUS
<1> USE DEF IndInv, Keys
<1>1. CASE MakePasswordFile \/ PasswordFileWritten \/ PasswordFileTorn
  BY <1>1, PasswordFileAssumption DEF MakePasswordFile, PasswordFileWritten, PasswordFileTorn,
     OpenPasswordFile, WritePasswordFile, TearPasswordFile, PasswordFileMissing, TypeOK, KeyStoreTypeOK
<1>2. ASSUME NEW c \in Chunks, Encrypt(c) PROVE Keys'
  <2>1. /\ passwordFile \in Passwords
        /\ keys' = Append(keys, [sealedBy |-> passwordFile, deleted |-> FALSE])
        /\ UNCHANGED <<passwordFile, phase>>
    BY <1>2 DEF Encrypt, CreateKey, PasswordReadable, EncryptJSON, processVars
  <2>2. keys \in Seq([sealedBy : Passwords, deleted : BOOLEAN])
    BY DEF TypeOK, KeyStoreTypeOK
  <2>3. Keys
    BY DEF IndInv
  <2> QED
    BY ONLY <2>1, <2>2, <2>3 DEF Keys
<1>3. CASE DropKey
  BY <1>3 DEF DropKey, DeleteKey, processVars, TypeOK, KeyStoreTypeOK
<1>4. CASE UNCHANGED keyVars /\ (phase' # "write" \/ UNCHANGED phase)
  BY <1>4 DEF keyVars
<1>5. CASE StartStep /\ ~(MakePasswordFile \/ PasswordFileWritten \/ PasswordFileTorn)
  BY <1>4, <1>5 DEF StartStep, Start, FindPasswordFile, LoadInventory, RefuseInventory, SkipDef,
     BuildDef, RefuseDef, ServeRequests, RefuseToServe
<1>6. ASSUME NEW c \in Chunks, StoreStep(c), ~Encrypt(c) PROVE Keys'
  BY <1>4, <1>6 DEF StoreStep, BeginStore, RefuseStore, EncryptFails, Seal, SealFails, Shard,
     Put, PutFails, Acknowledge, StoreFails, processVars
<1>7. ASSUME NEW c \in Chunks, ReadStep(c) \/ DeleteStep(c) PROVE Keys'
  BY <1>4, <1>7 DEF ReadStep, DeleteStep, BeginRead, Collect, CollectForeign, CollectFails,
     ReadOk, ReadFails, ReadWrong, EndRead, BeginDelete, Destroy, DestroyFails, DeleteRow, processVars
<1>8. CASE PlaceFails \/ PlaceReturns \/ Crash
  BY <1>4, <1>8 DEF PlaceFails, PlaceReturns, Crash, processVars
<1> QED
  BY <1>1, <1>2, <1>3, <1>5, <1>6, <1>7, <1>8, Zenon DEF Next

\* The elements of a sequence with one more at its end.
LEMMA AppendElements ==
    ASSUME NEW S, NEW seq \in Seq(S), NEW e \in S
    PROVE  \A i \in DOMAIN Append(seq, e) :
              \/ i = Len(seq) + 1 /\ Append(seq, e)[i] = e
              \/ i \in DOMAIN seq /\ Append(seq, e)[i] = seq[i]
OBVIOUS

LEMMA RegistryInv == IndInv /\ Next => Registry'
<1> SUFFICES ASSUME IndInv, Next PROVE Registry'
  OBVIOUS
<1> USE DEF IndInv, Registry
<1>1. CASE BuildDef
  <2> DEFINE d == config.defs[nextDef]
  <2>1. instances' = [x \in DOMAIN instances \cup {d.id} |->
                        IF x = d.id THEN Service(d) ELSE instances[x]]
        /\ available' = Append(available, d.id) /\ UNCHANGED <<phase, config>>
        /\ phase = "build" /\ nextDef' = nextDef + 1 /\ nextDef \in DOMAIN config.defs
    BY <1>1 DEF BuildDef, AtDef, BuildBackend, RegisterInstance
  <2>2. available \in Seq(Ids) /\ nextDef \in Nat
    BY DEF TypeOK, BackendsTypeOK
  <2>3. \A i \in DOMAIN available : available[i] # d.id
    <3>1. \A j \in DOMAIN config.defs : j \in Nat \ {0}
      BY ConfigsAssumption DEF TypeOK
    <3>2. \A j \in DOMAIN config.defs : j < nextDef => config.defs[j].id # d.id
      <4>1. LoadBackends(config.defs)
        BY <2>1
      <4>2. \A j \in 1 .. (nextDef - 1) : config.defs[j].id # config.defs[nextDef].id
        BY <2>1, <4>1, Zenon DEF LoadBackends
      <4> QED
        BY <2>2, <3>1, <4>2
    <3> QED
      BY <2>1, <3>2
  <2>4. \A i \in DOMAIN available' :
              \/ i = Len(available) + 1 /\ available'[i] = d.id
              \/ i \in DOMAIN available /\ available'[i] = available[i]
    <3>1. d.id \in Ids
      BY <2>1, NextDefinition
    <3> QED
      BY <2>1, <2>2, <3>1, AppendElements
  <2> HIDE DEF d
  <2>5. \A i \in DOMAIN available' : available'[i] \in DOMAIN instances'
    BY <2>1, <2>2, <2>4
  <2>6. \A i, j \in DOMAIN available' : available'[i] = available'[j] => i = j
    BY <2>3, <2>4
  <2>7. \A i \in DOMAIN available' : \E j \in DOMAIN config.defs :
                j < nextDef' /\ available'[i] = config.defs[j].id
    <3> SUFFICES ASSUME NEW i \in DOMAIN available'
                 PROVE  \E j \in DOMAIN config.defs : j < nextDef' /\ available'[i] = config.defs[j].id
      OBVIOUS
    <3>1. CASE available'[i] = d.id
      BY <2>1, <2>2, <3>1 DEF d
    <3>2. CASE i \in DOMAIN available /\ available'[i] = available[i]
      <4>1. PICK j \in DOMAIN config.defs : j < nextDef /\ available[i] = config.defs[j].id
        BY <2>1, <3>2
      <4>2. j \in Nat
        BY ConfigsAssumption DEF TypeOK
      <4> QED
        BY <2>1, <2>2, <3>2, <4>1, <4>2
    <3> QED
      BY <2>4, <3>1, <3>2
  <2> QED
    BY <2>1, <2>2, <2>5, <2>6, <2>7
<1>2. CASE StartStep /\ ~BuildDef
  <2>1. CASE Start \/ FindPasswordFile \/ LoadInventory \/ RefuseInventory \/ ServeRequests
    BY <2>1 DEF Start, FindPasswordFile, LoadInventory, RefuseInventory, ServeRequests, backendVars
  <2>2. CASE MakePasswordFile \/ PasswordFileWritten \/ PasswordFileTorn
    BY <2>2 DEF MakePasswordFile, PasswordFileWritten, PasswordFileTorn, backendVars
  <2>3. CASE SkipDef
    <3>1. \A j \in DOMAIN config.defs : j \in Nat \ {0}
      BY ConfigsAssumption DEF TypeOK
    <3> QED
      BY <2>3, <3>1 DEF SkipDef, AtDef, backendVars, TypeOK
  <2>4. CASE RefuseDef \/ RefuseToServe
    <3>1. phase' = "down" /\ available' = <<>>
      BY <2>4, Zenon DEF RefuseDef, RefuseToServe, ForgetBackends
    <3> QED
      BY <3>1
  <2> QED
    BY <1>2, <2>1, <2>2, <2>3, <2>4, Zenon DEF StartStep
<1>3. ASSUME NEW c \in Chunks, StoreStep(c) \/ ReadStep(c) \/ DeleteStep(c) PROVE Registry'
  BY <1>3, RequestFrame DEF Frame, processVars
<1>4. CASE DropKey \/ PlaceFails \/ PlaceReturns
  BY <1>4 DEF DropKey, PlaceFails, PlaceReturns, Outage, Repair, processVars, backendVars
<1>5. CASE Crash
  BY <1>5 DEF Crash, ForgetBackends
<1> QED
  BY <1>1, <1>2, <1>3, <1>4, <1>5, Zenon DEF Next

-----------------------------------------------------------------------------
(***************************************************************************)
(* The chunks.                                                             *)
(***************************************************************************)
\* A request leaves what is true of every other chunk.
LEMMA OtherChunk ==
    ASSUME NEW c \in Chunks, NEW x \in Chunks \ {c}, IndInv, Frame(c)
    PROVE  RowOK(x)' /\ HeldOK(x)' /\ RunningOK(x)'
<1>1. RowOK(x) /\ HeldOK(x) /\ RunningOK(x)
  BY DEF IndInv, ChunksOK
<1>2. /\ pc'[x] = pc[x] /\ enc'[x] = enc[x] /\ shards'[x] = shards[x] /\ tol'[x] = tol[x]
      /\ born'[x] = born[x] /\ done'[x] = done[x] /\ missing'[x] = missing[x]
      /\ foreign'[x] = foreign[x] /\ faults'[x] = faults[x]
      /\ UNCHANGED <<phase, starts, instances, unreachable>> /\ struck \subseteq struck'
  BY DEF Frame, processVars
<1>3. \A k \in DOMAIN keys : k \in DOMAIN keys' /\ keys'[k] = keys[k]
  BY DEF Frame
<1>4. \A i \in Blocks(x) :
          /\ Blob(x, i)' = Blob(x, i)
          /\ Blob(x, i) \in blobs' => Blob(x, i) \in blobs
          /\ Blob(x, i) \in blobs \cup struck => Blob(x, i) \in blobs' \cup struck'
  <2>1. \A i \in Blocks(x) : i \in Nat /\ shards[x][i].store \in Stores
    BY BlockTypes DEF IndInv
  <2> QED
    BY <1>2, <2>1 DEF Frame, Blob, Loc
<1>5. done[x] \subseteq Blocks(x)
  BY DEF IndInv, TypeOK
<1>6. RowOK(x)'
  BY <1>1, <1>2, <1>3 DEF RowOK, Blocks
<1>7. HeldOK(x)'
  BY <1>1, <1>2, <1>4, <1>5 DEF HeldOK, Blocks, AtHome
<1>8. RunningOK(x)'
  <2>1. missing[x] \subseteq Blocks(x)
    BY DEF IndInv, TypeOK
  <2>2. \A i \in Blocks(x) : Out(x, i) => Out(x, i)'
    BY <1>2, <1>4 DEF Out, AtHome
  <2>3. ChatMoved(x) => ChatMoved(x)'
    BY <1>2 DEF ChatMoved, Configured, OtherChat, Blocks
  <2>4. KeyDeleted(x) => KeyDeleted(x)'
    BY <1>2, <1>3 DEF KeyDeleted
  <2> QED
    BY <1>1, <1>2, <1>4, <1>5, <2>1, <2>2, <2>3, <2>4 DEF RunningOK, Blocks, AtHome
<1> QED
  BY <1>6, <1>7, <1>8

\* The steps of main leave the chunks and the key rows alone.
LEMMA StartKeepsChunks == StartStep => UNCHANGED chunkVars /\ UNCHANGED keys /\ phase # "up"
BY Zenon DEF StartStep, Start, FindPasswordFile, MakePasswordFile, PasswordFileWritten,
   PasswordFileTorn, LoadInventory, RefuseInventory, SkipDef, BuildDef, RefuseDef, ServeRequests,
   RefuseToServe, AtDef, OpenPasswordFile, WritePasswordFile, TearPasswordFile, keyVars

\* The steps of main find no chunk being worked on; a store in memory is lost
\* when the process gives up, and starts counts up before the next one serves.
LEMMA StartChunks ==
    ASSUME NEW x \in Chunks, IndInv, StartStep
    PROVE  RowOK(x)' /\ HeldOK(x)' /\ RunningOK(x)'
<1>1. RowOK(x) /\ HeldOK(x) /\ RunningOK(x)
  BY DEF IndInv, ChunksOK
<1>2. UNCHANGED chunkVars /\ UNCHANGED keys /\ phase # "up"
  BY StartKeepsChunks
<1>3. pc[x] \notin Working /\ pc'[x] = pc[x]
  BY <1>1, <1>2 DEF RowOK, chunkVars
<1>4. starts \in Nat /\ starts' \in Nat /\ starts <= starts' /\ born[x] \in Nat
      /\ (phase = "down" => starts' = starts + 1)
  BY MaxStartsAssumption DEF IndInv, TypeOK, StartStep, Start, FindPasswordFile, MakePasswordFile,
     PasswordFileWritten, PasswordFileTorn, LoadInventory, RefuseInventory, SkipDef, BuildDef,
     RefuseDef, ServeRequests, RefuseToServe, AtDef
<1>5. /\ UNCHANGED struck
      /\ UNCHANGED blobs \/ (phase' = "down" /\ blobs' = {b \in blobs : b[1] \in Places})
  BY Zenon DEF StartStep, Start, FindPasswordFile, MakePasswordFile, PasswordFileWritten,
     PasswordFileTorn, LoadInventory, RefuseInventory, SkipDef, BuildDef, BuildBackend, RefuseDef,
     ServeRequests, RefuseToServe, ForgetBackends, backendVars
<1>6. RowOK(x)'
  BY <1>1, <1>2, <1>3, <1>4 DEF RowOK, Blocks, Working, chunkVars, rowVars
<1>7. HeldOK(x)'
  <2>1. CASE pc[x] = "stored"
    <3> SUFFICES ASSUME NEW i \in Blocks(x)
                 PROVE  \/ Blob(x, i) \in blobs' \cup struck'
                        \/ shards[x][i].store \in Ids /\ (born[x] < starts' \/ phase' = "down")
      BY <1>2, <1>3, <2>1 DEF HeldOK, Blob, Blocks, Loc, chunkVars, rowVars
    <3>1. CASE Blob(x, i) \in blobs \cup struck
      <4>1. shards[x][i].store \in Stores
        BY BlockTypes DEF IndInv
      <4> QED
        BY <1>5, <3>1, <4>1 DEF Blob, Stores
    <3>2. CASE shards[x][i].store \in Ids /\ (born[x] < starts \/ phase = "down")
      <4>1. born[x] < starts'
        BY <1>1, <1>4, <3>2 DEF RowOK
      <4> QED
        BY <3>2, <4>1
    <3> QED
      BY <1>1, <2>1, <3>1, <3>2 DEF HeldOK, Kept
  <2>2. CASE pc[x] # "stored"
    BY <1>3, <2>2 DEF HeldOK, Kept, Working
  <2> QED
    BY <2>1, <2>2
<1>8. RunningOK(x)'
  BY <1>3 DEF RunningOK, Working
<1> QED
  BY <1>6, <1>7, <1>8

\* The steps of an upload: what ShardData lays out are the registered backends,
\* each once, and a block that is done is in its store.
LEMMA StoreChunk ==
    ASSUME NEW c \in Chunks, IndInv, StoreStep(c)
    PROVE  RowOK(c)' /\ HeldOK(c)' /\ RunningOK(c)'
<1>1. RowOK(c) /\ HeldOK(c) /\ TypeOK
  BY DEF IndInv, ChunksOK
<1>2. UNCHANGED <<phase, starts, instances, available>> /\ phase = "up"
  BY <1>1, RequestFrame DEF Frame, processVars
<1>3. CASE BeginStore(c) \/ RefuseStore(c) \/ EncryptFails(c) \/ Seal(c) \/ SealFails(c) \/ StoreFails(c)
  <2>1. pc'[c] \in {"encrypt", "shard", "failed"}
    BY <1>1, <1>3 DEF BeginStore, RefuseStore, EncryptFails, Seal, SealFails, StoreFails, Move, TypeOK
  <2>2. UNCHANGED <<keys, shards, born, missing>>
    BY <1>3, Zenon DEF BeginStore, RefuseStore, EncryptFails, Seal, SealFails, StoreFails, keyVars, rowVars
  <2>3. pc'[c] # "failed" => missing[c] = {}
    BY <1>1, <1>3 DEF BeginStore, RefuseStore, EncryptFails, Seal, SealFails, StoreFails, Move, RowOK, TypeOK
  <2>4. pc'[c] = "shard" /\ enc'[c].type \in Ciphers => enc'[c].key \in DOMAIN keys
    <3>1. CASE BeginStore(c)
      BY <1>1, <3>1 DEF BeginStore, Move, TypeOK, Ciphers
    <3>2. CASE ~BeginStore(c)
      BY <1>1, <1>3, <3>2 DEF RefuseStore, EncryptFails, Seal, SealFails, StoreFails, Move, TypeOK,
         KeyOpens, LiveKeys, rowVars
    <3> QED
      BY <3>1, <3>2
  <2>5. RowOK(c)'
    BY <1>1, <1>2, <2>1, <2>2, <2>3, <2>4 DEF RowOK, Blocks
  <2> QED
    BY <2>1, <2>5 DEF HeldOK, RunningOK, Kept
<1>4. CASE Encrypt(c)
  <2>1. pc'[c] = "sealing" /\ pc[c] = "encrypt" /\ enc'[c].key = Len(keys') /\ UNCHANGED <<shards, born, missing>>
    BY <1>1, <1>4 DEF Encrypt, Move, TypeOK
  <2>2. Len(keys') \in DOMAIN keys'
    BY <1>1, <1>4 DEF Encrypt, CreateKey, TypeOK, KeyStoreTypeOK
  <2>3. RowOK(c)'
    BY <1>1, <1>2, <2>1, <2>2 DEF RowOK, Blocks
  <2> QED
    BY <2>1, <2>3 DEF HeldOK, RunningOK, Kept
<1>5. CASE Shard(c)
  <2>1. pc'[c] = "put" /\ pc[c] = "shard" /\ born'[c] = starts /\ done'[c] = {}
        /\ UNCHANGED <<enc, keys, missing>>
    BY <1>1, <1>5 DEF Shard, Move, TypeOK, keyVars
  <2>2. shards'[c] = [i \in DOMAIN available |->
                        LET svc == instances[available[i]]
                        IN  [backend |-> available[i], store |-> svc.store, driver |-> svc.driver]]
    BY <1>1, <1>5 DEF Shard, TypeOK
  <2>3. RowOK(c)'
    BY <1>1, <1>2, <2>1, <2>2 DEF RowOK, Blocks, IndInv, Registry, TypeOK
  <2>4. HeldOK(c)'
    BY <1>2, <2>1, <2>2 DEF HeldOK, Blocks, AtHome, IndInv, Registry, Kept
  <2> QED
    BY <2>1, <2>3, <2>4 DEF RunningOK
<1>6. ASSUME NEW i \in Blocks(c), Put(c, i) \/ PutFails(c, i)
      PROVE  RowOK(c)' /\ HeldOK(c)' /\ RunningOK(c)'
  <2>1. pc[c] \in {"put", "putFailed"} /\ pc'[c] \in {"put", "putFailed"}
        /\ UNCHANGED <<keys, enc, shards, born, missing>>
    BY <1>1, <1>6 DEF Put, PutFails, TypeOK, rowVars, keyVars
  <2>2. RowOK(c)'
    BY <1>1, <1>2, <2>1 DEF RowOK, Blocks
  <2>3. \A j \in Blocks(c) : AtHome(c, j)
    BY <1>1, <2>1 DEF HeldOK
  <2>4. pc'[c] = "put" => \A j \in done'[c] : Blob(c, j)' \in blobs' \cup struck'
    <3>1. CASE Put(c, i)
      <4>1. blobs' = blobs \cup {Blob(c, i)} /\ UNCHANGED struck
        BY <1>6, <2>3, <3>1 DEF Put, PutShard, PutObject, AtHome, Blob
      <4>2. done'[c] = done[c] \cup {i} /\ pc' = pc
        BY <1>1, <3>1 DEF Put, TypeOK
      <4> QED
        BY <1>1, <2>1, <4>1, <4>2 DEF HeldOK, Blob, Loc
    <3>2. CASE PutFails(c, i)
      BY <1>1, <3>2 DEF PutFails, TypeOK
    <3> QED
      BY <1>6, <3>1, <3>2
  <2>5. HeldOK(c)'
    BY <1>2, <2>1, <2>3, <2>4 DEF HeldOK, AtHome, Blocks, Kept
  <2> QED
    BY <2>1, <2>2, <2>5 DEF RunningOK
<1>7. CASE Acknowledge(c)
  <2>1. pc[c] = "put" /\ pc'[c] = "stored" /\ done[c] = Blocks(c)
        /\ UNCHANGED <<keys, enc, shards, born, missing, blobs, struck>>
    BY <1>1, <1>7 DEF Acknowledge, Move, TypeOK, rowVars, keyVars, backendVars
  <2>2. RowOK(c)'
    BY <1>1, <1>2, <2>1 DEF RowOK, Blocks
  <2>3. HeldOK(c)'
    BY <1>1, <2>1 DEF HeldOK, Blocks, Blob, Loc
  <2> QED
    BY <2>1, <2>2, <2>3 DEF RunningOK
<1> QED
  BY <1>3, <1>4, <1>5, <1>6, <1>7, Zenon DEF StoreStep

\* The steps of a read: a block that GetShard does not return is out of service.
LEMMA ReadChunk ==
    ASSUME NEW c \in Chunks, IndInv, ReadStep(c)
    PROVE  RowOK(c)' /\ HeldOK(c)' /\ RunningOK(c)'
<1>1. RowOK(c) /\ HeldOK(c) /\ RunningOK(c) /\ TypeOK
  BY DEF IndInv, ChunksOK
<1>2. UNCHANGED <<phase, starts, instances, unreachable>> /\ phase = "up"
  BY <1>1, RequestFrame DEF Frame, processVars
<1>3. pc[c] \in Kept /\ pc'[c] \in Kept
      /\ UNCHANGED <<keys, blobs, struck, enc, shards, tol, born>>
  BY <1>1 DEF ReadStep, BeginRead, Collect, CollectForeign, CollectFails, AtBlock, ReadOk,
     ReadFails, ReadWrong, EndRead, Move, TypeOK, Kept, keyVars, backendVars, rowVars
<1>4. RowOK(c)'
  BY <1>1, <1>2, <1>3 DEF RowOK, Blocks, Kept
<1>5. HeldOK(c)'
  BY <1>1, <1>2, <1>3 DEF HeldOK, Blocks, Blob, Loc, Kept
<1>6. RunningOK(c)'
  <2>1. /\ Blocks(c)' = Blocks(c)
        /\ ChatMoved(c) => ChatMoved(c)'
        /\ UNCHANGED faults => \A j \in Nat : Out(c, j) => Out(c, j)'
    BY <1>2, <1>3 DEF Blocks, ChatMoved, Configured, OtherChat, Out, AtHome, Blob, Loc
  <2>2. missing[c] \subseteq Nat
    BY <1>1 DEF TypeOK
  <2>3. CASE BeginRead(c)
    <3>1. pc'[c] = "read" /\ done'[c] = {} /\ missing'[c] = {} /\ foreign'[c] = {}
          /\ faults'[c] = unreachable
      BY <1>1, <2>3 DEF BeginRead, Move, TypeOK
    <3>2. {} = 1 .. 0 /\ 0 \in 0 .. Len(shards[c])
      BY <1>1 DEF TypeOK
    <3> QED
      BY <1>2, <1>3, <3>1, <3>2 DEF RunningOK
  <2>4. CASE Collect(c) \/ CollectForeign(c)
    <3> DEFINE i == Cardinality(done[c]) + 1
    <3>1. pc[c] = "read" /\ pc'[c] = "read" /\ done[c] # Blocks(c) /\ UNCHANGED faults
      BY <1>1, <2>4 DEF Collect, CollectForeign, AtBlock
    <3>2. i \in Blocks(c) /\ done[c] \cup {i} = 1 .. i
      BY <1>1, <3>1, NextBlock
    <3>3. done'[c] = 1 .. i
      BY <1>1, <2>4, <3>2 DEF Collect, CollectForeign, AtBlock, TypeOK
    <3>4. i \in 0 .. Len(shards[c]) /\ i \in Nat
      BY <1>1, <3>2 DEF TypeOK, Blocks
    <3>5. \A j \in missing'[c] : Out(c, j) /\ j \in Nat
      <4>1. missing'[c] = missing[c] \/ (missing'[c] = missing[c] \cup {i}
               /\ ~GetShard(shards[c][i], Loc(c, i)))
        BY <1>1, <2>4 DEF Collect, CollectForeign, AtBlock, TypeOK
      <4>2. ~GetShard(shards[c][i], Loc(c, i)) => Out(c, i)
        <5> HIDE DEF i
        <5>1. unreachable \subseteq faults[c]
          BY <1>1, <3>1 DEF RunningOK
        <5>2. Blob(c, i) \in blobs \cup struck \/ (shards[c][i].store \in Ids /\ born[c] < starts)
          BY <1>1, <1>2, <3>1, <3>2 DEF HeldOK, Kept
        <5> QED
          BY <5>1, <5>2 DEF GetShard, Configured, GetObject, Answers, Out, AtHome, Blob
      <4> HIDE DEF i
      <4> QED
        BY <1>1, <2>2, <3>1, <3>4, <4>1, <4>2 DEF RunningOK
    <3>6. foreign'[c] # {} => ChatMoved(c)
      <4>1. foreign'[c] = foreign[c] \/ GetForeign(shards[c][i])
        BY <1>1, <2>4 DEF Collect, CollectForeign, AtBlock, TypeOK
      <4> HIDE DEF i
      <4> QED
        BY <1>1, <3>1, <3>2, <4>1 DEF RunningOK, GetForeign, ForeignObject, ChatMoved
    <3> HIDE DEF i
    <3>7. \A j \in missing'[c] : Out(c, j)'
      BY <2>1, <3>1, <3>5
    <3>8. \E k \in 0 .. Len(shards'[c]) : done'[c] = 1 .. k
      BY <1>3, <3>3, <3>4
    <3> QED
      BY <1>1, <1>2, <1>3, <2>1, <3>1, <3>6, <3>7, <3>8 DEF RunningOK
  <2>5. CASE CollectFails(c)
    <3>1. PICK i \in Blocks(c) : GetForeign(shards[c][i]) /\ foreign' = [foreign EXCEPT ![c] = @ \cup {i}]
      BY <2>5 DEF CollectFails
    <3>2. pc[c] = "read" /\ pc'[c] = "readFailed" /\ UNCHANGED <<missing, faults>>
      BY <1>1, <2>5 DEF CollectFails, Move, TypeOK
    <3>3. ChatMoved(c) /\ foreign'[c] # {}
      BY <1>1, <3>1 DEF GetForeign, ForeignObject, ChatMoved, TypeOK
    <3> QED
      BY <1>1, <2>1, <2>2, <3>2, <3>3 DEF RunningOK
  <2>6. CASE ReadFails(c) \/ ReadWrong(c)
    <3>1. pc[c] = "read" /\ pc'[c] \in {"readFailed", "readWrong"} /\ UNCHANGED readVars
          /\ (pc'[c] = "readFailed" =>
                 Cardinality(missing[c]) > tol[c] \/ ~Decrypt(enc[c]) \/ foreign[c] # {})
          /\ (pc'[c] = "readWrong" => foreign[c] # {})
      BY <1>1, <2>6 DEF ReadFails, ReadWrong, Move, TypeOK
    <3>2. ~Decrypt(enc[c]) => KeyDeleted(c)
      <4>1. SUFFICES ASSUME ~Decrypt(enc[c]) PROVE KeyDeleted(c)
        OBVIOUS
      <4>2. enc[c].type \in Ciphers
        BY <1>1, <4>1 DEF Decrypt, TypeOK, EncryptionTypes
      <4>3. enc[c].key \in DOMAIN keys /\ enc[c].key > 0
        BY <1>1, <3>1, <4>2 DEF RowOK, TypeOK, KeyStoreTypeOK
      <4>4. enc[c].key \notin LiveKeys
        <5>1. keys # <<>>
          BY <4>3
        <5> QED
          BY <4>1, <4>2, <4>3, <5>1 DEF Decrypt, DecryptWithKey, KeyOpens, DecryptJSON,
             PasswordReadable, IndInv, Keys
      <4> QED
        BY <4>3, <4>4, Zenon DEF LiveKeys, KeyDeleted
    <3>3. \A j \in missing'[c] : Out(c, j)'
      <4>1. \A j \in missing[c] : Out(c, j)
        BY <1>1, <3>1 DEF RunningOK
      <4> QED
        BY <2>1, <2>2, <3>1, <4>1
    <3>4. KeyDeleted(c) => KeyDeleted(c)'
      BY <1>3, Zenon DEF KeyDeleted
    <3> QED
      BY <1>1, <1>3, <2>1, <3>1, <3>2, <3>3, <3>4 DEF RunningOK
  <2>7. CASE ReadOk(c) \/ EndRead(c)
    <3>1. pc'[c] \in {"readOk", "stored"}
      BY <1>1, <2>7 DEF ReadOk, EndRead, Move, TypeOK
    <3> QED
      BY <3>1 DEF RunningOK
  <2> QED
    BY <2>3, <2>4, <2>5, <2>6, <2>7 DEF ReadStep
<1> QED
  BY <1>4, <1>5, <1>6

\* The steps of a deletion: a block that was passed is not in its store.
LEMMA DeleteChunk ==
    ASSUME NEW c \in Chunks, IndInv, DeleteStep(c)
    PROVE  RowOK(c)' /\ HeldOK(c)' /\ RunningOK(c)'
<1>1. RowOK(c) /\ RunningOK(c) /\ TypeOK
  BY DEF IndInv, ChunksOK
<1>2. UNCHANGED <<phase, starts, instances>> /\ phase = "up"
  BY <1>1, RequestFrame DEF Frame, processVars
<1>3. pc[c] \in {"stored", "cut", "delete"} /\ pc'[c] \in {"delete", "cut", "gone"}
      /\ UNCHANGED <<keys, enc, shards, born, missing>>
  BY <1>1 DEF DeleteStep, BeginDelete, Destroy, DestroyFails, DeleteRow, Move, TypeOK,
     keyVars, backendVars, rowVars
<1>4. RowOK(c)'
  BY <1>1, <1>2, <1>3 DEF RowOK, Blocks
<1>5. HeldOK(c)'
  BY <1>3 DEF HeldOK, Kept
<1>6. RunningOK(c)'
  <2>1. CASE BeginDelete(c)
    <3>1. pc'[c] = "delete" /\ done'[c] = {}
      BY <1>1, <2>1 DEF BeginDelete, TypeOK
    <3>2. {} = 1 .. 0 /\ 0 \in 0 .. Len(shards[c])
      BY <1>1 DEF TypeOK
    <3> QED
      BY <1>3, <3>1, <3>2 DEF RunningOK
  <2>2. CASE Destroy(c)
    <3> DEFINE i == Cardinality(done[c]) + 1
    <3>1. pc[c] = "delete" /\ pc'[c] = "delete" /\ done[c] # Blocks(c)
          /\ DeleteShard(shards[c][i], Loc(c, i))
      BY <1>1, <2>2 DEF Destroy
    <3>2. i \in Blocks(c) /\ done[c] \cup {i} = 1 .. i
      BY <1>1, <3>1, NextBlock
    <3>3. done'[c] = done[c] \cup {i}
      BY <1>1, <2>2 DEF Destroy, TypeOK
    <3>4. i \in 0 .. Len(shards[c])
      BY <1>1, <3>2 DEF TypeOK, Blocks
    <3> HIDE DEF i
    <3>5. \A j \in done'[c] : AtHome(c, j) => Blob(c, j) \notin blobs'
      BY <1>1, <3>1, <3>3 DEF RunningOK, DeleteShard, DeleteObject, AtHome, Blob
    <3>6. \A j \in done'[c] : AtHome(c, j)' => Blob(c, j)' \notin blobs'
      BY <1>2, <1>3, <3>5 DEF AtHome, Blob, Loc
    <3> QED
      BY <1>3, <3>1, <3>2, <3>3, <3>4, <3>6 DEF RunningOK
  <2>3. CASE DestroyFails(c) \/ DeleteRow(c)
    <3>1. pc'[c] \in {"cut", "gone"}
      BY <1>1, <2>3 DEF DestroyFails, DeleteRow, Move, TypeOK
    <3> QED
      BY <3>1 DEF RunningOK
  <2> QED
    BY <2>1, <2>2, <2>3 DEF DeleteStep
<1> QED
  BY <1>4, <1>5, <1>6

\* Outages, the deletion of a key and the end of the process: a read that goes
\* on counts the outage, and a block in memory is lost with the process.
LEMMA RestChunks ==
    ASSUME NEW x \in Chunks, IndInv, DropKey \/ PlaceFails \/ PlaceReturns \/ Crash
    PROVE  RowOK(x)' /\ HeldOK(x)' /\ RunningOK(x)'
<1>1. RowOK(x) /\ HeldOK(x) /\ RunningOK(x) /\ TypeOK
  BY DEF IndInv, ChunksOK
<1>2. CASE DropKey
  <2>1. PICK k \in DOMAIN keys : keys' = [keys EXCEPT ![k].deleted = TRUE]
    BY <1>2, Zenon DEF DropKey, DeleteKey
  <2>2. UNCHANGED <<phase, starts, instances, unreachable, blobs, struck, pc, enc, shards, tol,
                    born, done, readVars>>
    BY <1>2, Zenon DEF DropKey, backendVars, processVars, chunkVars, rowVars
  <2>3. DOMAIN keys' = DOMAIN keys
    BY <2>1, Zenon
  <2>4. KeyDeleted(x) => KeyDeleted(x)'
    <3>1. \A j \in DOMAIN keys : keys[j].deleted => keys'[j].deleted
      <4> SUFFICES ASSUME NEW j \in DOMAIN keys, keys[j].deleted PROVE keys'[j].deleted
        OBVIOUS
      <4>1. CASE j # k
        BY <2>1, <4>1, Zenon
      <4>2. CASE j = k
        <5>1. keys[k] \in [sealedBy : Passwords, deleted : BOOLEAN]
          BY <1>1, KeyRow DEF TypeOK
        <5>2. "deleted" \in DOMAIN keys[k]
          BY <5>1, Zenon
        <5> QED
          BY <2>1, <4>2, <5>2, Zenon
      <4> QED
        BY <4>1, <4>2
    <3> QED
      BY <2>2, <2>3, <3>1, Zenon DEF KeyDeleted
  <2>5. RowOK(x)' /\ HeldOK(x)'
    BY <1>1, <2>2, <2>3 DEF RowOK, HeldOK, Blocks, AtHome, Blob, Loc
  <2>6. RunningOK(x)'
    BY <1>1, <2>2, <2>4 DEF RunningOK, Blocks, AtHome, Blob, Loc, Out, ChatMoved, Configured, OtherChat
  <2> QED
    BY <2>5, <2>6
<1>3. CASE PlaceFails \/ PlaceReturns
  <2>1. UNCHANGED <<keys, phase, starts, instances, blobs, struck, pc, enc, shards, tol, born,
                    done, missing, foreign>>
    BY <1>3, Zenon DEF PlaceFails, PlaceReturns, Outage, Repair, keyVars, processVars, chunkVars, rowVars
  <2>2. faults[x] \subseteq faults'[x] /\ (pc[x] = "read" => unreachable' \subseteq faults'[x])
    BY <1>1, <1>3 DEF PlaceFails, PlaceReturns, Outage, Repair, chunkVars, RunningOK, TypeOK
  <2>3. RowOK(x)' /\ HeldOK(x)'
    BY <1>1, <2>1 DEF RowOK, HeldOK, Blocks, AtHome, Blob, Loc
  <2>4. RunningOK(x)'
    BY <1>1, <2>1, <2>2 DEF RunningOK, Blocks, AtHome, Blob, Loc, Out, KeyDeleted, ChatMoved,
       Configured, OtherChat
  <2> QED
    BY <2>3, <2>4
<1>4. CASE Crash
  <2>1. UNCHANGED <<keys, starts, enc, shards, tol, born, missing, struck>> /\ phase' = "down"
        /\ blobs' = {b \in blobs : b[1] \in Places}
    BY <1>4 DEF Crash, ForgetBackends, keyVars, rowVars
  <2>2. pc'[x] \in {"none", "failed", "stored", "cut", "gone"}
        /\ (pc'[x] = "none" => pc[x] = "none")
        /\ (pc'[x] = "stored" => pc[x] \in Kept)
        /\ (pc'[x] \notin {"none", "failed"} => pc[x] \notin {"none", "encrypt", "failed"})
    BY <1>1, <1>4 DEF Crash, TypeOK, Stages, Kept
  <2>3. RowOK(x)'
    BY <1>1, <2>1, <2>2 DEF RowOK, Blocks, Working
  <2>4. HeldOK(x)'
    <3> SUFFICES ASSUME NEW i \in Blocks(x), pc[x] \in Kept
                 PROVE  Blob(x, i) \in blobs' \cup struck \/ shards[x][i].store \in Ids
      BY <2>1, <2>2 DEF HeldOK, Blob, Blocks, Loc, Kept
    <3>1. shards[x][i].store \in Stores
      BY <1>1, BlockTypes
    <3> QED
      BY <1>1, <2>1, <3>1 DEF HeldOK, Blob, Stores
  <2>5. RunningOK(x)'
    BY <2>2 DEF RunningOK
  <2> QED
    BY <2>3, <2>4, <2>5
<1> QED
  BY <1>2, <1>3, <1>4

-----------------------------------------------------------------------------
(***************************************************************************)
(* The theorems.                                                           *)
(***************************************************************************)
\* Every step keeps the invariant.
LEMMA StepInv == IndInv /\ [Next]_vars => IndInv'
<1> SUFFICES ASSUME IndInv, [Next]_vars PROVE IndInv'
  OBVIOUS
<1>1. CASE Next
  <2>1. TypeOK'
    BY <1>1, TypeStart, TypeStore, TypeReadDelete, TypeRest, Zenon DEF Next
  <2>2. Keys' /\ Registry'
    BY <1>1, KeysInv, RegistryInv
  <2>3. ChunksOK'
    <3> SUFFICES ASSUME NEW x \in Chunks PROVE RowOK(x)' /\ HeldOK(x)' /\ RunningOK(x)'
      BY Zenon DEF ChunksOK
    <3>1. ASSUME NEW c \in Chunks, StoreStep(c) \/ ReadStep(c) \/ DeleteStep(c)
          PROVE  RowOK(x)' /\ HeldOK(x)' /\ RunningOK(x)'
      <4>1. CASE x = c
        BY <3>1, <4>1, StoreChunk, ReadChunk, DeleteChunk, Zenon
      <4>2. CASE x # c
        <5>1. Frame(c)
          BY <3>1, RequestFrame DEF IndInv
        <5> QED
          BY <4>2, <5>1, OtherChunk
      <4> QED
        BY <4>1, <4>2
    <3>2. CASE StartStep
      BY <3>2, StartChunks
    <3>3. CASE DropKey \/ PlaceFails \/ PlaceReturns \/ Crash
      BY <3>3, RestChunks
    <3> QED
      BY <1>1, <3>1, <3>2, <3>3, Zenon DEF Next
  <2> QED
    BY <2>1, <2>2, <2>3 DEF IndInv
<1>2. CASE UNCHANGED vars
  <2> USE <1>2 DEF vars, keyVars, backendVars, processVars, rowVars
  <2>1. TypeOK'
    BY TypeParts DEF IndInv, chunkVars
  <2>2. Keys' /\ Registry'
    BY DEF IndInv, Keys, Registry
  <2>3. ChunksOK'
    BY DEF IndInv, ChunksOK, RowOK, HeldOK, RunningOK, Blocks, AtHome, Blob, Loc, Out, KeyDeleted,
       ChatMoved, Configured, OtherChat
  <2> QED
    BY <2>1, <2>2, <2>3 DEF IndInv
<1> QED
  BY <1>1, <1>2

\* The invariant holds in every reachable state.
THEOREM Invariance == Spec => []IndInv
<1>1. Init => IndInv
  BY InitInv
<1>2. IndInv /\ [Next]_vars => IndInv'
  BY StepInv
<1> QED
  BY <1>1, <1>2, PTL DEF Spec

\* Type correctness of module Lifecycle: whatever configuration a start finds,
\* main registers and publishes only backends that have an id.
THEOREM Types == Spec => []TypeOK
<1>1. IndInv => TypeOK
  BY DEF IndInv
<1> QED
  BY <1>1, Invariance, PTL

\* No start, crash or failed write of the password file ever makes a key that
\* was created unreadable (ensurePasswordFile, CreateKey).
THEOREM KeysStayOpenAlways == Spec => []KeysStayOpen
<1>1. IndInv => KeysStayOpen
  <2> SUFFICES ASSUME IndInv, NEW k \in LiveKeys PROVE KeyOpens(k)
    BY DEF KeysStayOpen
  <2>1. k \in DOMAIN keys
    BY DEF LiveKeys
  <2>2. keys # <<>>
    BY <2>1
  <2> QED
    BY <2>1, <2>2 DEF IndInv, Keys, KeyOpens, PasswordReadable, DecryptJSON
<1> QED
  BY <1>1, Invariance, PTL

\* A row names a backend once, so that so many missing blocks are at least so
\* many backends out of service.
LEMMA MissingAreOut ==
    ASSUME IndInv, NEW c \in Chunks, pc[c] = "readFailed"
    PROVE  /\ Cardinality(missing[c]) \in Nat /\ Cardinality(OutOfService(c)) \in Nat
           /\ Cardinality(missing[c]) <= Cardinality(OutOfService(c))
<1>1. RowOK(c) /\ RunningOK(c) /\ TypeOK
  BY DEF IndInv, ChunksOK
<1> DEFINE f == [i \in missing[c] |-> shards[c][i].backend]
<1>2. missing[c] \subseteq Blocks(c)
  BY <1>1 DEF TypeOK
<1>3. IsFiniteSet(Blocks(c))
  <2>1. Len(shards[c]) \in Nat /\ Blocks(c) = 1 .. Len(shards[c])
    BY <1>1 DEF TypeOK, Blocks
  <2> QED
    BY <2>1, FS_Interval
<1>4. IsFiniteSet(missing[c])
  BY <1>2, <1>3, FS_Subset
<1>5. IsFiniteSet(OutOfService(c))
  <2> DEFINE g == [i \in Blocks(c) |-> shards[c][i].backend]
             T == {shards[c][i].backend : i \in Blocks(c)}
  <2>1. g \in Surjection(Blocks(c), T)
    BY DEF Surjection
  <2>2. IsFiniteSet(T)
    BY <1>3, <2>1, FS_Surjection
  <2>3. OutOfService(c) \subseteq T
    BY DEF OutOfService
  <2> QED
    BY <2>2, <2>3, FS_Subset
<1>6. f \in Injection(missing[c], OutOfService(c))
  <2>1. \A i \in missing[c] : shards[c][i].backend \in OutOfService(c)
    BY <1>1, <1>2 DEF RunningOK, Out, AtHome, Blob, OutOfService
  <2>2. \A i, j \in missing[c] : shards[c][i].backend = shards[c][j].backend => i = j
    BY <1>1, <1>2 DEF RowOK
  <2> QED
    BY <2>1, <2>2 DEF Injection, IsInjective
<1> QED
  BY <1>4, <1>5, <1>6, FS_Injection, FS_CardinalityType

\* FailureTolerance over the whole life of the data: a read of a stored chunk
\* fails, or returns other bytes, only if more backends than its tolerance are out
\* of service, its key was deleted, or a telegram backend that has another chat now
\* returned another document (CollectShards, Decrypt, LoadBackends, ensurePasswordFile).
THEOREM AcknowledgedIsReadableAlways == Spec => []AcknowledgedIsReadable
<1>1. IndInv => AcknowledgedIsReadable
  <2> SUFFICES ASSUME IndInv, NEW c \in Chunks, pc[c] \in {"readFailed", "readWrong"}
               PROVE  \/ Cardinality(OutOfService(c)) > tol[c]
                      \/ KeyDeleted(c)
                      \/ foreign[c] # {} /\ ChatMoved(c)
    BY Zenon DEF AcknowledgedIsReadable
  <2>1. RunningOK(c) /\ tol[c] \in Nat
    BY DEF IndInv, TypeOK, ChunksOK
  <2>2. CASE foreign[c] # {}
    BY <2>1, <2>2 DEF RunningOK
  <2>3. CASE foreign[c] = {}
    <3>1. pc[c] = "readFailed"
      BY <2>1, <2>3 DEF RunningOK
    <3>2. Cardinality(missing[c]) > tol[c] \/ KeyDeleted(c)
      BY <2>1, <2>3, <3>1 DEF RunningOK
    <3> QED
      BY <2>1, <3>1, <3>2, MissingAreOut
  <2> QED
    BY <2>2, <2>3
<1> QED
  BY <1>1, Invariance, PTL

\* A deletion that reports success has removed every block from the backends that
\* are configured where they were when it was stored (DestroyShards, DeleteObject).
THEOREM DeletedIsGoneAlways == Spec => DeletedIsGone
<1> DEFINE Left(c) == \A i \in Blocks(c) : LET s == shards[c][i] IN
                          s.backend \in DOMAIN instances /\ instances[s.backend].store = s.store
                              => <<s.store, Loc(c, i)>> \notin blobs
<1>1. ASSUME IndInv, [Next]_vars, NEW c \in Chunks, pc[c] # "gone", pc'[c] = "gone"
      PROVE  Left(c)
  <2>1. TypeOK /\ RunningOK(c)
    BY <1>1 DEF IndInv, ChunksOK
  <2>2. DeleteRow(c)
    <3>1. ASSUME NEW x \in Chunks, StoreStep(x) \/ ReadStep(x) \/ DeleteStep(x) PROVE x = c
      BY <1>1, <2>1, <3>1, RequestFrame DEF Frame
    <3>2. ~StartStep
      BY <1>1, StartKeepsChunks DEF chunkVars
    <3>3. ~(DropKey \/ PlaceFails \/ PlaceReturns \/ Crash)
      BY <1>1, <2>1 DEF DropKey, PlaceFails, PlaceReturns, Crash, chunkVars, TypeOK
    <3>4. StoreStep(c) \/ ReadStep(c) \/ DeleteStep(c)
      BY <1>1, <3>1, <3>2, <3>3, Zenon DEF Next, vars
    <3>5. ~StoreStep(c) /\ ~ReadStep(c)
      BY <1>1, <2>1 DEF StoreStep, ReadStep, BeginStore, RefuseStore, Encrypt, EncryptFails, Seal,
         SealFails, Shard, Put, PutFails, Acknowledge, StoreFails, BeginRead, Collect, CollectForeign,
         CollectFails, ReadOk, ReadFails, ReadWrong, EndRead, Move, TypeOK
    <3> QED
      BY <1>1, <2>1, <3>4, <3>5 DEF DeleteStep, BeginDelete, Destroy, DestroyFails, Move, TypeOK
  <2> QED
    BY <2>1, <2>2 DEF DeleteRow, Move, RunningOK, AtHome, Blob
<1>2. IndInv /\ [Next]_vars => [\A c \in Chunks : (pc[c] # "gone" /\ pc'[c] = "gone") => Left(c)]_vars
  BY <1>1, Zenon
<1> QED
  BY <1>2, Invariance, PTL DEF Spec, DeletedIsGone
=============================================================================
