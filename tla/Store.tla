------------------------------- MODULE Store -------------------------------
(***************************************************************************)
(* The MongoDB adapter, adapter/mongodb.adapter.ts, with the factory that  *)
(* hands adapters out, adapter/adapter-factory.ts: documents by collection *)
(* and identifier, the indexes CollectionSet asks for and does not wait    *)
(* for, and the database's own removal of what has expired.  Each call of  *)
(* the database is one step, as the database makes it.  The requests that  *)
(* call the adapter are in Requests.                                       *)
(***************************************************************************)
EXTENDS Naturals, FiniteSets

CONSTANTS
    Name,        \* the names adapters are asked for: "Session", "AccessToken", ...
    SnakeCase,   \* lodash's snakeCase on them: the collection of a name
    Key,         \* document identifiers
    Grant, Uid,  \* values of payload.grantId and payload.uid
    MaxTime,     \* bound of the clock
    None         \* no document, no such field, no expiry date

Collection == {SnakeCase[n] : n \in Name}

grantable == {"access_token", "authorization_code", "refresh_token", "device_code"}

(* A document; consumed stands for payload.consumed, its time left out.    *)
Payload == [grantId : Grant \cup {None}, uid : Uid \cup {None}, consumed : BOOLEAN]

Document == [payload : Payload, expiresAt : Nat \cup {None}]

(* What is known of the indexes of a collection: nobody asked for them,    *)
(* the database builds them, they are in force, or building them failed.   *)
IndexState == {"none", "building", "built", "failed"}

ASSUME StoreAssumption ==
    /\ MaxTime \in Nat
    /\ None \notin Document
    /\ None \notin Grant \cup Uid \cup Nat

VARIABLES
    docs,         \* docs[c][k]: the document with _id k of collection c, or None
    index,        \* the state of each collection's indexes
    collections,  \* CollectionSet of this process
    adapters,     \* names in the factory's map
    now           \* the clock

storeVars == <<docs, index, collections, adapters, now>>

Exists(c, k) == docs[c][k] # None

-----------------------------------------------------------------------------
(* The factory and the constructor.                                        *)

(* Sensitivity variant of IndexesAsked: the test of has(name) inverted.    *)
IndexesAskedInverted(C) ==
    [c \in Collection |-> IF c \in C \cap collections /\ index[c] # "built"
                          THEN "building" ELSE index[c]]

(* CollectionSet.add: the first time a process names a collection it asks  *)
(* for the indexes; the promise is not awaited and its error only logged.  *)
IndexesAsked(C) ==
    [c \in Collection |-> IF c \in C \ collections /\ index[c] # "built"
                          THEN "building" ELSE index[c]]

(* new MongoAdapter(name) for each of these names, with addAdapter, which  *)
(* keeps the first adapter of a name.                                      *)
Construct(N) ==
    LET C == {SnakeCase[n] : n \in N}
    IN  /\ index' = IndexesAsked(C)
        /\ collections' = collections \cup C
        /\ adapters' = adapters \cup N

(* createIfNotExists for these names; the constructor has put each adapter *)
(* into the map, so nothing is left to add after it.                       *)
CreateIfNotExists(N) ==
    IF N \subseteq adapters THEN UNCHANGED <<collections, index, adapters>>
    ELSE Construct(N \ adapters)

-----------------------------------------------------------------------------
(* The operations, as the value of docs they leave.                        *)

(* Two documents of one uid cannot both be in the session collection once  *)
(* its unique index is in force.  The other unique index, on the user code *)
(* of device_code, is left out: the configuration does not enable the      *)
(* device flow, so that collection has no documents.                       *)
UniqueUid(D) ==
    \A k, l \in Key : k # l /\ D["session"][k] # None /\ D["session"][l] # None
                          => D["session"][k].payload.uid # D["session"][l].payload.uid

Unique(c, D) == c = "session" => UniqueUid(D)

(* Sensitivity variant of Upsert: the date is set on insertion only.       *)
UpsertFirstDate(c, k, payload, expiresIn) ==
    [docs EXCEPT ![c][k] =
        [payload   |-> payload,
         expiresAt |-> IF Exists(c, k) THEN docs[c][k].expiresAt
                       ELSE IF expiresIn = 0 THEN None ELSE now + expiresIn]]

(* updateOne with $set and upsert: with a zero, for which a call without   *)
(* expiresIn passes as well, the field expiresAt stays as it is, absent in *)
(* a document this call inserts.                                           *)
Upsert(c, k, payload, expiresIn) ==
    [docs EXCEPT ![c][k] =
        [payload   |-> payload,
         expiresAt |-> IF expiresIn # 0 THEN now + expiresIn
                       ELSE IF Exists(c, k) THEN docs[c][k].expiresAt ELSE None]]

(* The database refuses what a unique index forbids.                       *)
Accepts(c, D) == index[c] = "built" => Unique(c, D)

(* findByUid, findByUserCode and findByParam: the query has a limit of one *)
(* and no order, so any of these.                                          *)
FindByParam(c, name, value) == {k \in Key : Exists(c, k) /\ docs[c][k].payload[name] = value}

DestroyNothing(c, k) == docs \* sensitivity variant: the filter finds no document

Destroy(c, k) == [docs EXCEPT ![c][k] = None]

(* Sensitivity variant of RevokeByGrantId: deleteOne for deleteMany.       *)
RevokeOneByGrantId(c, g) ==
    LET found == FindByParam(c, "grantId", g)
    IN  IF found = {} THEN docs ELSE [docs EXCEPT ![c][CHOOSE k \in found : TRUE] = None]

RevokeByGrantId(c, g) ==
    [docs EXCEPT ![c] = [k \in Key |-> IF k \in FindByParam(c, "grantId", g)
                                       THEN None ELSE docs[c][k]]]

(* Sensitivity variant of Consume: $set of payload for payload.consumed.   *)
ConsumeReplacing(c, k) ==
    IF Exists(c, k) THEN [docs EXCEPT ![c][k].payload = [consumed |-> TRUE]] ELSE docs

(* Sensitivity variant of Consume: with the option upsert.                 *)
ConsumeInserting(c, k) ==
    IF Exists(c, k) THEN [docs EXCEPT ![c][k].payload.consumed = TRUE]
    ELSE [docs EXCEPT ![c][k] = [payload   |-> [grantId |-> None, uid |-> None, consumed |-> TRUE],
                                 expiresAt |-> None]]

ConsumeNothing(c, k) == docs \* sensitivity variant: the filter finds no document

(* findOneAndUpdate, which inserts nothing and does not ask whether the    *)
(* document was consumed before.                                           *)
Consume(c, k) ==
    IF Exists(c, k) THEN [docs EXCEPT ![c][k].payload.consumed = TRUE] ELSE docs

-----------------------------------------------------------------------------
(* External: the database.                                                 *)

Expired(c, k) == Exists(c, k) /\ docs[c][k].expiresAt # None /\ docs[c][k].expiresAt <= now

(* The TTL monitor works on the index of expiresAt, so only where it is.   *)
RemoveExpired(c) ==
    /\ index[c] = "built"
    /\ \E k \in Key : Expired(c, k)
    /\ docs' = [docs EXCEPT ![c] = [k \in Key |-> IF Expired(c, k) THEN None ELSE docs[c][k]]]
    /\ UNCHANGED <<index, collections, adapters, now>>

(* One createIndexes command builds all indexes of a collection or none.   *)
FinishIndexes(c) ==
    /\ index[c] = "building"
    /\ index' = [index EXCEPT ![c] = IF Unique(c, docs) THEN "built" ELSE "failed"]
    /\ UNCHANGED <<docs, collections, adapters, now>>

FailIndexes(c) ==
    /\ index[c] = "building"
    /\ index' = [index EXCEPT ![c] = "failed"]
    /\ UNCHANGED <<docs, collections, adapters, now>>

Tick ==
    /\ now < MaxTime
    /\ now' = now + 1
    /\ UNCHANGED <<docs, index, collections, adapters>>

(* The process starts again: the map and the set are new, the database is  *)
(* what it was.                                                            *)
Forget ==
    /\ collections' = {}
    /\ adapters' = {}
    /\ UNCHANGED <<docs, index, now>>

StoreInit ==
    /\ docs = [c \in Collection |-> [k \in Key |-> None]]
    /\ index = [c \in Collection |-> "none"]
    /\ collections = {}
    /\ adapters = {}
    /\ now = 0

DatabaseStep ==
    \/ \E c \in Collection : RemoveExpired(c) \/ FinishIndexes(c) \/ FailIndexes(c)
    \/ Tick
=============================================================================
