------------------------------- MODULE Backends -------------------------------
(***************************************************************************)
(* The storage backends: backends.yaml (backendconfig), the registry of    *)
(* configured instances and the drivers file, telegram and discord behind  *)
(* GetShard, PutShard and DeleteShard.                                     *)
(*                                                                         *)
(* A backend definition is [id, kind, enabled, settings, place].  place is *)
(* the directory, chat or channel it names.  settings is "set", "missing"  *)
(* (a required setting or secret is absent or does not parse) or "void"    *)
(* (present, but chat_id or api_id is 0, the token is blank, the directory *)
(* is ""): the constructors and isConfigured tell these apart.  A location *)
(* is represented by the shard that was stored there.  A uuid (file, map)  *)
(* and a snowflake of Discord mean nothing anywhere else; a message number *)
(* of Telegram counts within its chat, so in another chat it may be the    *)
(* number of another document (OtherChat).                                 *)
(***************************************************************************)
EXTENDS Naturals, Sequences, FiniteSets

CONSTANTS
    Ids,         \* backend ids
    NoId,        \* the id "" of a definition without one
    Places,      \* directories, chats and channels
    DefaultDir,  \* the directory "./testdata"
    MaxOutages   \* bound on the places that are unreachable at the same time

ASSUME BackendsAssumption ==
    /\ NoId \notin Ids
    /\ DefaultDir \in Places
    /\ Places \cap Ids = {}
ASSUME MaxOutagesAssumption == MaxOutages \in Nat

VARIABLES
    instances,    \* instances of registry.go: id -> [driver, store]
    available,    \* availableBackends, in the order of the file
    blobs,        \* the stored shards: <<store, location>>
    struck,       \* history: the blobs a deletion meant for another chat took away
    unreachable   \* the places that refuse every call now (disk, network, service)

\* A store is a place, or an id: the memory of that backend's instance.
Stores == Places \cup Ids
Drivers == {"file", "telegram", "discord", "memory"}

BackendsTypeOK(Locations) ==
    /\ DOMAIN instances \subseteq Ids
    /\ \A id \in DOMAIN instances :
          instances[id] \in [driver : Drivers, store : Stores]
    /\ available \in Seq(Ids)
    /\ blobs \subseteq Stores \X Locations /\ struck \subseteq Stores \X Locations
    /\ unreachable \subseteq Places

BackendsInit ==
    /\ instances = <<>>
    /\ available = <<>>
    /\ blobs = {} /\ struck = {}
    /\ unreachable \in {S \in SUBSET Places : Cardinality(S) <= MaxOutages}

-----------------------------------------------------------------------------
(***************************************************************************)
(* LoadBackends and BuildBackends.                                         *)
(***************************************************************************)

\* Mutants of LoadBackends: ids are not compared; an id may be missing.
LoadBackendsUnnamed(defs) ==
    \A i \in DOMAIN defs :
        defs[i].kind # "" /\ \A j \in 1 .. (i - 1) : defs[j].id # defs[i].id
LoadBackendsDuplicates(defs) ==
    \A i \in DOMAIN defs : defs[i].id # NoId /\ defs[i].kind # ""

\* The checks of LoadBackends: it returns the definitions or an error.
LoadBackends(defs) ==
    \A i \in DOMAIN defs :
        /\ defs[i].id # NoId
        /\ defs[i].kind # ""
        /\ \A j \in 1 .. (i - 1) : defs[j].id # defs[i].id

\* newFileService: without a directory, DefaultDir; it never fails.
NewFileService(d) ==
    [driver |-> "file", store |-> IF d.settings = "set" THEN d.place ELSE DefaultDir]

\* newTelegramService, newDiscordService: without a setting or secret, an error;
\* when isConfigured says no, the instance keeps its shards in a map.
NewTelegramService(d) ==
    IF d.settings = "set" THEN [driver |-> "telegram", store |-> d.place]
                          ELSE [driver |-> "memory", store |-> d.id]

NewDiscordService(d) ==
    IF d.settings = "set" THEN [driver |-> "discord", store |-> d.place]
                          ELSE [driver |-> "memory", store |-> d.id]

\* The factories the drivers register; other kinds are unknown.
Factories == {"file", "telegram", "discord"}

Constructs(d) ==
    /\ d.kind \in Factories
    /\ d.kind = "file" \/ d.settings # "missing"

Service(d) ==
    CASE d.kind = "file" -> NewFileService(d)
      [] d.kind = "telegram" -> NewTelegramService(d)
      [] d.kind = "discord" -> NewDiscordService(d)

\* RegisterInstance: an instance registered before under the id is replaced.
RegisterInstance(id, svc) ==
    instances' = [x \in DOMAIN instances \cup {id} |-> IF x = id THEN svc ELSE instances[x]]

\* One turn of the loop of BuildBackends for an enabled definition.  The ids it
\* collects are the ones SetAvailableBackends publishes before anyone reads them.
BuildBackend(d) ==
    /\ Constructs(d)
    /\ RegisterInstance(d.id, Service(d))
    /\ available' = Append(available, d.id)
    /\ UNCHANGED <<blobs, struck, unreachable>>

-----------------------------------------------------------------------------
(***************************************************************************)
(* The calls of the shard service, for an instance svc.  s is the shard's  *)
(* row, [backend, store, driver]: the backend and, for the model, where    *)
(* and by which driver it was stored.                                      *)
(***************************************************************************)

\* getRemote and getSession make the client at the first call, under a mutex, and
\* keep no failure: a call succeeds as soon as the place answers, so the client
\* needs no state of its own.  A map in memory always answers.
Answers(svc) == svc.store \notin unreachable

\* The instance is at another chat than the one that numbered the message.
OtherChat(svc, s) ==
    svc.driver = "telegram" /\ s.driver = "telegram" /\ svc.store # s.store

\* parseTelegramMessageID takes a snowflake, which no message of a chat has, but
\* not a uuid.
Numbered == {"telegram", "discord"}

\* GetObject returns the shard that was stored ...
GetObject(svc, loc) == Answers(svc) /\ <<svc.store, loc>> \in blobs

\* ... or it may return the document that has the same number in another chat.
ForeignObject(svc, s) == Answers(svc) /\ OtherChat(svc, s)

PutObject(svc, loc) ==
    /\ Answers(svc)
    /\ blobs' = blobs \cup {<<svc.store, loc>>}
    /\ UNCHANGED struck

\* What a deletion may take away besides its own shard: nothing, or one shard
\* of another chat.
Strikes(svc, s) ==
    {{}} \cup {{x} : x \in {y \in blobs : OtherChat(svc, s) /\ y[1] = svc.store}}

\* What is not there cannot be deleted (os.Remove, the map, a message of
\* Discord); TDLib's DeleteMessages does not mind.
DeleteObject(svc, s, loc) ==
    /\ Answers(svc)
    /\ <<svc.store, loc>> \in blobs \/ (svc.driver = "telegram" /\ s.driver \in Numbered)
    /\ \E hit \in Strikes(svc, s) :
          /\ blobs' = blobs \ ({<<svc.store, loc>>} \cup hit)
          /\ struck' = struck \cup hit

\* getService: an id without an instance is an "unconfigured backend".
Configured(id) == id \in DOMAIN instances

GetShard(s, loc) == Configured(s.backend) /\ GetObject(instances[s.backend], loc)

GetForeign(s) == Configured(s.backend) /\ ForeignObject(instances[s.backend], s)

PutShard(s, loc) ==
    /\ Configured(s.backend)
    /\ PutObject(instances[s.backend], loc)
    /\ UNCHANGED <<instances, available, unreachable>>

DeleteShard(s, loc) ==
    /\ Configured(s.backend)
    /\ DeleteObject(instances[s.backend], s, loc)
    /\ UNCHANGED <<instances, available, unreachable>>

-----------------------------------------------------------------------------
\* A disk or a service stops and starts to answer (environment).
Outage(p) ==
    /\ p \in Places \ unreachable
    /\ Cardinality(unreachable) < MaxOutages
    /\ unreachable' = unreachable \cup {p}
    /\ UNCHANGED <<instances, available, blobs, struck>>

Repair(p) ==
    /\ p \in unreachable
    /\ unreachable' = unreachable \ {p}
    /\ UNCHANGED <<instances, available, blobs, struck>>

\* The process ends: its registry and the maps of its instances go with it.
ForgetBackends ==
    /\ instances' = <<>>
    /\ available' = <<>>
    /\ blobs' = {b \in blobs : b[1] \in Places}
    /\ UNCHANGED <<struck, unreachable>>
=============================================================================
