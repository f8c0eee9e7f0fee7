---------------------------- MODULE RequestsProofs ----------------------------
(***************************************************************************)
(* Proofs about Requests: however requests, restarts and the database's    *)
(* own steps follow one another, a uid has one session unless two requests *)
(* held it at the same time, only a late save brings a document back, a    *)
(* code used again takes its grant's tokens with it, codes are exchanged   *)
(* as CodeExchange says, and no document is removed before its time.       *)
(***************************************************************************)
EXTENDS RequestsProperties, TLAPS

LEMMA SessionCollection == Session \in Collection
BY RequestsAssumption

LEMMA OtherCollections ==
    /\ {Session, AuthorizationCode, AccessToken} \subseteq Collection
    /\ Session # AccessToken /\ AuthorizationCode # AccessToken
BY RequestsAssumption DEF Session, AuthorizationCode, AccessToken

-----------------------------------------------------------------------------
(* Types. *)

LEMMA TypeInit == Init => TypeOK
BY DEF Init, StoreInit, TypeOK, IndexState

LEMMA FreshKey ==
    ASSUME NEW c \in Collection, NEW k \in Fresh(c)
    PROVE  k \in Key
BY RequestsAssumption DEF Fresh, Undrawn

LEMMA PayloadType ==
    /\ \A u \in Uid \cup {None} : SessionPayload(u) \in Payload
    /\ \A g \in Grant \cup {None} : GrantPayload(g) \in Payload
BY DEF SessionPayload, GrantPayload, Payload

(* The document a save leaves.                                             *)
Dated(c, k, p, e) ==
    [payload   |-> p,
     expiresAt |-> IF e # 0 THEN now + e
                   ELSE IF Exists(c, k) THEN docs[c][k].expiresAt ELSE None]

LEMMA DatedType ==
    ASSUME TypeOK, NEW c \in Collection, NEW k \in Key, NEW p \in Payload, NEW e \in Lifetime[c]
    PROVE  Dated(c, k, p, e) \in Document
<1>1. e \in Nat
    BY RequestsAssumption
<1>2. e # 0 => now + e \in Nat
    BY <1>1 DEF TypeOK
<1>3. Exists(c, k) => docs[c][k].expiresAt \in Nat \cup {None}
    BY DEF TypeOK, Exists, Document
<1>4. QED
    BY <1>2, <1>3 DEF Dated, Document

LEMMA SaveDated ==
    ASSUME TypeOK, NEW c \in Collection, NEW k \in Key, NEW p, Save(c, k, p)
    PROVE  \E e \in Lifetime[c] :
               /\ docs' = [docs EXCEPT ![c] = [docs[c] EXCEPT ![k] = Dated(c, k, p, e)]]
               /\ promised' = [promised EXCEPT ![c] = [promised[c] EXCEPT ![k] = now + e]]
BY DEF TypeOK, Save, SaveFor, Upsert, Dated

LEMMA SaveType ==
    ASSUME TypeOK, NEW c \in Collection, NEW k \in Key, NEW p \in Payload, Save(c, k, p)
    PROVE  /\ docs' \in [Collection -> [Key -> Document \cup {None}]]
           /\ promised' \in [Collection -> [Key -> Nat]]
<1>1. PICK e \in Lifetime[c] :
          /\ docs' = [docs EXCEPT ![c] = [docs[c] EXCEPT ![k] = Dated(c, k, p, e)]]
          /\ promised' = [promised EXCEPT ![c] = [promised[c] EXCEPT ![k] = now + e]]
    BY SaveDated
<1>2. Dated(c, k, p, e) \in Document
    BY DatedType
<1>3. now + e \in Nat
    BY RequestsAssumption DEF TypeOK
<1>4. docs' \in [Collection -> [Key -> Document \cup {None}]]
    BY <1>1, <1>2 DEF TypeOK
<1>5. promised' \in [Collection -> [Key -> Nat]]
    BY <1>1, <1>3 DEF TypeOK
<1>6. QED
    BY <1>4, <1>5

LEMMA DrawType ==
    ASSUME TypeOK, NEW c \in Collection, NEW k \in Fresh(c), Draw(c, k)
    PROVE  drawn' \in [Collection -> SUBSET Key]
BY FreshKey DEF TypeOK, Draw

LEMMA DestroyType ==
    ASSUME TypeOK, NEW k \in Key, docs' = Destroy(Session, k)
    PROVE  docs' \in [Collection -> [Key -> Document \cup {None}]]
BY DEF TypeOK, Destroy

LEMMA TaskType ==
    ASSUME TypeOK, NEW r \in Request, NEW t \in Task \cup {None}, Become(r, t)
    PROVE  task' \in [Request -> Task \cup {None}]
BY DEF TypeOK, Become

LEMMA DocumentType ==
    ASSUME TypeOK, NEW c \in Collection, NEW k \in Key, Exists(c, k)
    PROVE  docs[c][k] \in Document /\ docs[c][k].payload \in Payload
BY DEF TypeOK, Exists, Document

LEMMA ConsumeType ==
    ASSUME TypeOK, NEW c \in Collection, NEW k \in Key, docs' = Consume(c, k)
    PROVE  docs' \in [Collection -> [Key -> Document \cup {None}]]
<1>1. CASE ~Exists(c, k)
    BY <1>1 DEF Consume, TypeOK
<1>2. CASE Exists(c, k)
  <2>1. docs[c][k] \in Document /\ docs[c][k].payload \in Payload
      BY <1>2, DocumentType
  <2> DEFINE consumed == [docs[c][k] EXCEPT !.payload.consumed = TRUE]
  <2>2. consumed \in Document
    <3>1. [docs[c][k].payload EXCEPT !.consumed = TRUE] \in Payload
        BY <2>1 DEF Payload
    <3>2. QED
        BY <2>1, <3>1 DEF Document
  <2>3. docs' = [docs EXCEPT ![c] = [docs[c] EXCEPT ![k] = consumed]]
      BY <1>2 DEF Consume
  <2>4. QED
      BY <2>2, <2>3 DEF TypeOK
<1>3. QED
    BY <1>1, <1>2

(* What an action says of a variable that the others leave alone.          *)
LEMMA TypeStep == TypeOK /\ [Next]_vars => TypeOK'
<1> SUFFICES ASSUME TypeOK, [Next]_vars
             PROVE  TypeOK'
    OBVIOUS
<1> USE DEF uids
<1> DEFINE DocsType == [Collection -> [Key -> Document \cup {None}]]
           TasksType == [Request -> Task \cup {None}]
<1>1. CASE Obtain
  <2>1. index' \in [Collection -> IndexState]
      BY <1>1 DEF TypeOK, Obtain, CreateIfNotExists, Construct, IndexesAsked, IndexState
  <2>2. collections' \subseteq Collection /\ adapters' \subseteq Name
      BY <1>1 DEF TypeOK, Obtain, CreateIfNotExists, Construct, Collection
  <2>3. QED
      BY <1>1, <2>1, <2>2 DEF TypeOK, Obtain
<1>2. CASE StartSession
  <2>1. PICK k \in Fresh(Session), u \in Uid \ usedUid :
            /\ Save(Session, k, SessionPayload(u))
            /\ Draw(Session, k)
            /\ usedUid' = usedUid \cup {u}
            /\ UNCHANGED <<OtherStore, task, shared>>
      BY <1>2 DEF StartSession
  <2>2. docs' \in DocsType /\ promised' \in [Collection -> [Key -> Nat]]
      BY <2>1, FreshKey, SessionCollection, PayloadType, SaveType
  <2>3. QED
      BY <2>1, <2>2, DrawType, SessionCollection DEF TypeOK, OtherStore
<1>3. CASE IssueCode
  <2>1. PICK k \in Fresh(AuthorizationCode), g \in Grant :
            /\ Save(AuthorizationCode, k, GrantPayload(g))
            /\ Draw(AuthorizationCode, k)
            /\ UNCHANGED <<OtherStore, task, uids>>
      BY <1>3 DEF IssueCode
  <2>2. docs' \in DocsType /\ promised' \in [Collection -> [Key -> Nat]]
      BY <2>1, FreshKey, RequestsAssumption, PayloadType, SaveType
  <2>3. QED
      BY <2>1, <2>2, DrawType, RequestsAssumption DEF TypeOK, OtherStore
<1>4. ASSUME NEW r \in Request, NEW k \in Key, LoadSession(r, k)
      PROVE  TypeOK'
  <2>1. Loaded(k) \in Task
      BY <1>4, SessionCollection, DocumentType DEF LoadSession, Loaded, Task, Payload
  <2>2. task' \in TasksType
      BY <1>4, <2>1, TaskType DEF LoadSession
  <2>3. shared' \subseteq Uid
      BY <1>4 DEF TypeOK, LoadSession, Held
  <2>4. QED
      BY <1>4, <2>2, <2>3 DEF TypeOK, LoadSession, storeVars
<1>5. ASSUME NEW r \in Request, NEW k \in Key, FindCode(r, k)
      PROVE  TypeOK'
  <2>1. FoundCode(k) \in Task
      BY <1>5, RequestsAssumption, DocumentType
         DEF FindCode, FoundCode, TokensOf, FindByParam, Task, Payload
  <2>2. task' \in TasksType
      BY <1>5, <2>1, TaskType DEF FindCode
  <2>3. QED
      BY <1>5, <2>2 DEF TypeOK, FindCode, storeVars
<1>6. ASSUME NEW r \in Request, SaveSession(r)
      PROVE  TypeOK'
  <2>1. task[r] \in Task
      BY <1>6 DEF SaveSession, TypeOK
  <2>2. docs' \in DocsType /\ promised' \in [Collection -> [Key -> Nat]]
      BY <1>6, <2>1, SessionCollection, PayloadType, SaveType DEF SaveSession, Task
  <2>3. task' \in TasksType
      BY <1>6, TaskType DEF SaveSession
  <2>4. QED
      BY <1>6, <2>2, <2>3 DEF TypeOK, SaveSession, OtherStore
<1>7. ASSUME NEW r \in Request, EndSession(r) \/ BeginRotation(r)
      PROVE  TypeOK'
  <2>1. task[r] \in Task
      BY <1>7 DEF EndSession, BeginRotation, TypeOK
  <2>2. docs' \in DocsType
      BY <1>7, <2>1, DestroyType DEF EndSession, BeginRotation, Task
  <2>3. [task[r] EXCEPT !.step = "rotating"] \in Task
      BY <2>1 DEF Task
  <2>4. task' \in TasksType
      BY <1>7, <2>3, TaskType DEF EndSession, BeginRotation
  <2>5. QED
      BY <1>7, <2>2, <2>4 DEF TypeOK, EndSession, BeginRotation, OtherStore
<1>8. ASSUME NEW r \in Request, EndRotation(r)
      PROVE  TypeOK'
  <2>1. task[r] \in Task
      BY <1>8 DEF EndRotation, TypeOK
  <2>2. PICK k \in Fresh(Session) :
            Save(Session, k, SessionPayload(task[r].uid)) /\ Draw(Session, k)
      BY <1>8 DEF EndRotation
  <2>3. docs' \in DocsType /\ promised' \in [Collection -> [Key -> Nat]]
      BY <2>1, <2>2, FreshKey, SessionCollection, PayloadType, SaveType DEF Task
  <2>4. task' \in TasksType
      BY <1>8, TaskType DEF EndRotation
  <2>5. QED
      BY <1>8, <2>2, <2>3, <2>4, DrawType, SessionCollection DEF TypeOK, EndRotation, OtherStore
<1>9. ASSUME NEW r \in Request, ConsumeCode(r)
      PROVE  TypeOK'
  <2>1. task[r] \in Task
      BY <1>9 DEF ConsumeCode, TypeOK
  <2>2. docs' \in DocsType
      BY <1>9, <2>1, ConsumeType, RequestsAssumption DEF ConsumeCode, Task
  <2>3. [task[r] EXCEPT !.step = "save"] \in Task
      BY <2>1 DEF Task
  <2>4. task' \in TasksType
      BY <1>9, <2>3, TaskType DEF ConsumeCode
  <2>5. QED
      BY <1>9, <2>2, <2>4 DEF TypeOK, ConsumeCode, OtherStore
<1>10. ASSUME NEW r \in Request, SaveToken(r)
       PROVE  TypeOK'
  <2>1. task[r] \in Task
      BY <1>10 DEF SaveToken, TypeOK
  <2>2. PICK k \in Fresh(AccessToken) :
            Save(AccessToken, k, GrantPayload(task[r].grant)) /\ Draw(AccessToken, k)
      BY <1>10 DEF SaveToken
  <2>3. docs' \in DocsType /\ promised' \in [Collection -> [Key -> Nat]]
      BY <2>1, <2>2, FreshKey, RequestsAssumption, PayloadType, SaveType DEF Task
  <2>4. task' \in TasksType
      BY <1>10, TaskType DEF SaveToken
  <2>5. QED
      BY <1>10, <2>2, <2>3, <2>4, DrawType, RequestsAssumption DEF TypeOK, SaveToken, OtherStore
<1>11. ASSUME NEW r \in Request, NEW c \in Collection, Revoke(r, c)
       PROVE  TypeOK'
  <2>1. task[r] \in Task
      BY <1>11 DEF Revoke, TypeOK
  <2>2. docs' \in DocsType
      BY <1>11 DEF TypeOK, Revoke, RevokeByGrantId
  <2>3. [task[r] EXCEPT !.todo = @ \ {c},
                        !.step = IF task[r].todo = {c} THEN "revoked" ELSE "revoke"] \in Task
      BY <2>1 DEF Task
  <2>4. task' \in TasksType
      BY <1>11, <2>3, TaskType DEF Revoke
  <2>5. QED
      BY <1>11, <2>2, <2>4 DEF TypeOK, Revoke, OtherStore
<1>12. ASSUME NEW r \in Request, End(r)
       PROVE  TypeOK'
    BY <1>12, TaskType DEF TypeOK, End, storeVars
<1>13. CASE Database
  <2>1. ASSUME NEW c \in Collection, RemoveExpired(c) PROVE docs' \in DocsType
      BY <2>1 DEF TypeOK, RemoveExpired
  <2>2. docs' \in DocsType
      BY <1>13, <2>1 DEF TypeOK, Database, DatabaseStep, FinishIndexes, FailIndexes, Tick
  <2>3. index' \in [Collection -> IndexState] /\ now' \in Nat
      BY <1>13 DEF TypeOK, Database, DatabaseStep, RemoveExpired, FinishIndexes, FailIndexes, Tick,
                   IndexState
  <2>4. QED
      BY <1>13, <2>2, <2>3
         DEF TypeOK, Database, DatabaseStep, RemoveExpired, FinishIndexes, FailIndexes, Tick
<1>14. CASE Restart
    BY <1>14 DEF TypeOK, Restart, Forget
<1>15. CASE UNCHANGED vars
    BY <1>15 DEF TypeOK, vars
<1>16. QED
    BY <1>1, <1>2, <1>3, <1>4, <1>5, <1>6, <1>7, <1>8, <1>9, <1>10, <1>11, <1>12, <1>13,
       <1>14, <1>15 DEF Next

(* Type correctness of Requests and Store.                                 *)
THEOREM TypeCorrect == Spec => []TypeOK
BY TypeInit, TypeStep, PTL DEF Spec

-----------------------------------------------------------------------------
(* One session of a uid.                                                   *)

(* The sessions of a uid in the collection, and the requests that hold it. *)
Has(u) == FindByParam(Session, "uid", u)

HoldsSession(t, u) == t # None /\ t.step \in {"loaded", "rotating"} /\ t.uid = u

Holding(u) == {r \in Request : HoldsSession(task[r], u)}

(* A uid nobody shared has one document and one holder at most, and while  *)
(* it has both the holder has loaded that document and not yet destroyed   *)
(* it: the rotation's save finds none.                                     *)
Alone(u) ==
    /\ \A k, l \in Has(u) : k = l
    /\ \A r, q \in Holding(u) : r = q
    /\ \A r \in Holding(u), k \in Has(u) : task[r].step = "loaded" /\ task[r].key = k

Sound(u) ==
    /\ u \notin usedUid => Has(u) = {} /\ Holding(u) = {}
    /\ u \notin shared => Alone(u)

(* The inductive invariant.                                                *)
UidInv == TypeOK /\ \A u \in Uid : Sound(u)

(* Nothing is added to what a uid has, and its holders are as they were.   *)
Fewer(u) ==
    /\ Has(u)' \subseteq Has(u)
    /\ \A r \in Request : HoldsSession(task'[r], u) => task'[r] = task[r]

LEMMA FewerSound ==
    ASSUME NEW u \in Uid, Sound(u), Fewer(u), usedUid \subseteq usedUid', shared \subseteq shared'
    PROVE  Sound(u)'
BY DEF Sound, Alone, Fewer, Holding

LEMMA FewerInv ==
    ASSUME UidInv, TypeOK', \A u \in Uid : Fewer(u), UNCHANGED uids
    PROVE  UidInv'
BY FewerSound DEF UidInv, uids

(* What is no save to the sessions leaves a uid what it had, or less.      *)
LEMMA NotMore ==
    ASSUME TypeOK, NEW u \in Uid,
           \/ docs'[Session] = docs[Session]
           \/ \E k \in Key : docs' = Destroy(Session, k)
           \/ \E c \in Collection : \E g : docs' = RevokeByGrantId(c, g)
           \/ \E c \in Collection : RemoveExpired(c)
    PROVE  Has(u)' \subseteq Has(u)
<1>1. ASSUME NEW k \in Key, docs' = Destroy(Session, k) PROVE Has(u)' \subseteq Has(u)
    BY <1>1, SessionCollection DEF TypeOK, Destroy, Has, FindByParam, Exists
<1>2. ASSUME NEW c \in Collection, NEW g, docs' = RevokeByGrantId(c, g)
      PROVE  Has(u)' \subseteq Has(u)
    BY <1>2, SessionCollection DEF TypeOK, RevokeByGrantId, Has, FindByParam, Exists
<1>3. ASSUME NEW c \in Collection, RemoveExpired(c) PROVE Has(u)' \subseteq Has(u)
    BY <1>3, SessionCollection DEF TypeOK, RemoveExpired, Has, FindByParam, Exists
<1>4. QED
    BY <1>1, <1>2, <1>3 DEF Has, FindByParam, Exists

LEMMA SessionsAlone ==
    ASSUME TypeOK, NEW c \in Collection, c # Session, NEW k \in Key,
           \/ \E p : Save(c, k, p)
           \/ docs' = Consume(c, k)
    PROVE  docs'[Session] = docs[Session]
BY SessionCollection DEF TypeOK, Save, SaveFor, Upsert, Consume

(* A request that holds no session afterwards.                             *)
LEMMA NoHolder ==
    ASSUME TypeOK, NEW q \in Request, NEW t, Become(q, t), NEW u, ~HoldsSession(t, u)
    PROVE  \A r \in Request : HoldsSession(task'[r], u) => task'[r] = task[r] /\ r # q
BY DEF TypeOK, Become

(* A save of a session under k gives its uid k and takes k from the others. *)
LEMMA SessionSaved ==
    ASSUME TypeOK, NEW k \in Key, NEW v, Save(Session, k, SessionPayload(v)), NEW u \in Uid
    PROVE  /\ Has(u)' \subseteq Has(u) \cup {k}
           /\ u # v => Has(u)' \subseteq Has(u)
<1>1. PICK e \in Lifetime[Session] :
          docs' = [docs EXCEPT ![Session] = [docs[Session] EXCEPT
                       ![k] = Dated(Session, k, SessionPayload(v), e)]]
    BY SaveDated, SessionCollection
<1>2. /\ docs'[Session][k].payload.uid = v
      /\ \A l \in Key \ {k} : docs'[Session][l] = docs[Session][l]
    BY <1>1, SessionCollection DEF TypeOK, Dated, SessionPayload
<1>3. QED
    BY <1>2 DEF Has, FindByParam, Exists

LEMMA UidInit == Init => UidInv
BY TypeInit, SessionCollection
   DEF Init, StoreInit, UidInv, Sound, Alone, Has, FindByParam, Exists, Holding, HoldsSession

LEMMA StartedUid ==
    ASSUME UidInv, TypeOK', StartSession
    PROVE  UidInv'
<1>1. PICK k \in Fresh(Session), v \in Uid \ usedUid :
          /\ Save(Session, k, SessionPayload(v))
          /\ usedUid' = usedUid \cup {v} /\ task' = task /\ shared' = shared
    BY DEF StartSession
<1>2. k \in Key
    BY <1>1, FreshKey, SessionCollection
<1>3. ASSUME NEW u \in Uid PROVE Sound(u)'
  <2>1. CASE u = v
    <3>1. Has(u) = {} /\ Holding(u) = {}
        BY <1>1, <2>1 DEF UidInv, Sound
    <3>2. Has(u)' \subseteq {k} /\ Holding(u)' = {}
        BY <1>1, <1>2, <3>1, SessionSaved DEF UidInv, Holding
    <3>3. QED
        BY <1>1, <2>1, <3>2 DEF Sound, Alone
  <2>2. CASE u # v
    <3>1. Fewer(u)
        BY <1>1, <1>2, <2>2, SessionSaved DEF UidInv, Fewer
    <3>2. QED
        BY <1>1, <3>1, FewerSound DEF UidInv
  <2>3. QED
      BY <2>1, <2>2
<1>4. QED
    BY <1>3 DEF UidInv

(* A second holder makes the uid a shared one.                             *)
LEMMA LoadedUid ==
    ASSUME UidInv, TypeOK', NEW q \in Request, NEW k \in Key, LoadSession(q, k)
    PROVE  UidInv'
<1> DEFINE v == docs[Session][k].payload.uid
<1>1. /\ docs' = docs /\ usedUid' = usedUid /\ task[q] = None
      /\ docs[Session][k] # None
      /\ shared' = shared \cup {u \in Held : u = v}
      /\ task'[q] = Loaded(k) /\ \A r \in Request \ {q} : task'[r] = task[r]
    BY DEF LoadSession, storeVars, Exists, Become, UidInv, TypeOK
<1>2. Loaded(k).step = "loaded" /\ Loaded(k).key = k /\ Loaded(k).uid = v
    BY DEF Loaded
<1>3. ASSUME NEW u \in Uid PROVE Sound(u)'
  <2>1. Has(u)' = Has(u)
      BY <1>1 DEF Has, FindByParam, Exists
  <2>2. CASE u = v
    <3>1. k \in Has(u) /\ u \in usedUid
        BY <1>1, <2>2 DEF Has, FindByParam, Exists, UidInv, Sound
    <3>2. Holding(u) # {} => u \in shared'
        BY <1>1, <2>2 DEF Held, Holding, HoldsSession
    <3>3. Holding(u) = {} => Holding(u)' \subseteq {q}
        BY <1>1 DEF Holding
    <3>4. ASSUME u \notin shared' PROVE Alone(u)'
      <4>1. Alone(u) /\ Holding(u)' \subseteq {q}
          BY <1>1, <3>2, <3>3, <3>4 DEF UidInv, Sound
      <4>2. QED
          BY <1>1, <1>2, <2>1, <3>1, <4>1 DEF Alone
    <3>5. QED
        BY <1>1, <3>1, <3>4 DEF Sound
  <2>3. CASE u # v
    <3>1. Fewer(u)
        BY <1>1, <1>2, <2>1, <2>3 DEF Fewer, HoldsSession
    <3>2. QED
        BY <1>1, <3>1, FewerSound DEF UidInv
  <2>4. QED
      BY <2>2, <2>3
<1>4. QED
    BY <1>3 DEF UidInv

(* A request that held the session alone saves it: under the identifier it *)
(* loaded, which is the only one there can be, or under a new one when it  *)
(* has destroyed the only one there was.                                   *)
LEMMA SavedUid ==
    ASSUME UidInv, TypeOK', NEW q \in Request, NEW k \in Key, Become(q, None),
           Save(Session, k, SessionPayload(task[q].uid)), UNCHANGED uids,
           task[q] # None,
           \/ task[q].step = "loaded" /\ task[q].key = k
           \/ task[q].step = "rotating"
    PROVE  UidInv'
<1>1. ASSUME NEW u \in Uid PROVE Sound(u)'
  <2>1. \A r \in Request : HoldsSession(task'[r], u) => task'[r] = task[r] /\ r # q
      BY NoHolder DEF HoldsSession, UidInv
  <2>2. CASE u # task[q].uid
    <3>1. Fewer(u)
        BY <2>1, <2>2, SessionSaved DEF UidInv, Fewer
    <3>2. QED
        BY <3>1, FewerSound DEF UidInv, uids
  <2>3. CASE u = task[q].uid
    <3>1. q \in Holding(u) /\ u \in usedUid
        BY <2>3 DEF Holding, HoldsSession, UidInv, Sound
    <3>2. ASSUME u \notin shared PROVE Alone(u)'
      <4>1. Alone(u)
          BY <3>2 DEF UidInv, Sound
      <4>2. Has(u) \subseteq {k}
          BY <3>1, <4>1 DEF Alone
      <4>3. Has(u)' \subseteq {k}
          BY <4>2, SessionSaved DEF UidInv
      <4>4. Holding(u)' = {}
          BY <2>1, <3>1, <4>1 DEF Alone, Holding
      <4>5. QED
          BY <4>3, <4>4 DEF Alone
    <3>3. QED
        BY <3>1, <3>2 DEF Sound, uids
  <2>4. QED
      BY <2>2, <2>3
<1>2. QED
    BY <1>1 DEF UidInv

(* The rotation destroys the only document a session held alone has.       *)
LEMMA RotatingUid ==
    ASSUME UidInv, TypeOK', NEW q \in Request, BeginRotation(q)
    PROVE  UidInv'
<1>1. /\ task[q] # None /\ task[q].step = "loaded" /\ task[q] \in Task
      /\ docs' = Destroy(Session, task[q].key)
      /\ task'[q] = [task[q] EXCEPT !.step = "rotating"]
      /\ \A r \in Request \ {q} : task'[r] = task[r]
      /\ UNCHANGED uids
    BY DEF BeginRotation, Become, UidInv, TypeOK
<1>2. /\ task[q].key \in Key
      /\ task'[q].uid = task[q].uid /\ task'[q].step = "rotating"
    BY <1>1 DEF Task
<1>3. ASSUME NEW u \in Uid PROVE Sound(u)'
  <2>1. Has(u)' \subseteq Has(u) \ {task[q].key}
      BY <1>1, <1>2, SessionCollection DEF UidInv, TypeOK, Destroy, Has, FindByParam, Exists
  <2>2. CASE u # task[q].uid
    <3>1. Fewer(u)
        BY <1>1, <1>2, <2>1, <2>2 DEF Fewer, HoldsSession
    <3>2. QED
        BY <1>1, <3>1, FewerSound DEF UidInv, uids
  <2>3. CASE u = task[q].uid
    <3>1. q \in Holding(u) /\ u \in usedUid
        BY <1>1, <2>3 DEF Holding, HoldsSession, UidInv, Sound
    <3>2. ASSUME u \notin shared PROVE Alone(u)'
      <4>1. Alone(u)
          BY <3>2 DEF UidInv, Sound
      <4>2. Has(u)' = {}
          BY <2>1, <3>1, <4>1 DEF Alone
      <4>3. Holding(u)' \subseteq Holding(u)
          BY <1>1, <3>1 DEF Holding, HoldsSession
      <4>4. QED
          BY <4>1, <4>2, <4>3 DEF Alone
    <3>3. QED
        BY <1>1, <3>1, <3>2 DEF Sound, uids
  <2>4. QED
      BY <2>2, <2>3
<1>4. QED
    BY <1>3 DEF UidInv

LEMMA UidStep == UidInv /\ [Next]_vars => UidInv'
<1> SUFFICES ASSUME UidInv, [Next]_vars
             PROVE  UidInv'
    OBVIOUS
<1> USE DEF OtherStore, storeVars
<1>0. TypeOK /\ TypeOK'
    BY TypeStep DEF UidInv
<1>a. Session # AuthorizationCode /\ \A u : ~HoldsSession(None, u)
    BY DEF Session, AuthorizationCode, HoldsSession
<1>b. ASSUME docs'[Session] = docs[Session], task' = task, UNCHANGED uids PROVE UidInv'
    BY <1>0, <1>b, NotMore, FewerInv DEF Fewer
<1>1. CASE Obtain \/ UNCHANGED vars
    BY <1>1, <1>b DEF Obtain, vars
<1>2. CASE StartSession
    BY <1>0, <1>2, StartedUid
<1>3. CASE IssueCode
    BY <1>0, <1>3, <1>a, <1>b, FreshKey, SessionsAlone, OtherCollections DEF IssueCode
<1>4. ASSUME NEW r \in Request, NEW k \in Key, LoadSession(r, k)
      PROVE  UidInv'
    BY <1>0, <1>4, LoadedUid
<1>5. ASSUME NEW r \in Request, NEW k \in Key, FindCode(r, k)
      PROVE  UidInv'
  <2>1. \A u : ~HoldsSession(FoundCode(k), u)
      BY DEF HoldsSession, FoundCode
  <2>2. QED
      BY <1>0, <1>5, <2>1, NoHolder, NotMore, FewerInv DEF FindCode, Fewer
<1>6. ASSUME NEW r \in Request, SaveSession(r)
      PROVE  UidInv'
  <2>1. task[r].key \in Key
      BY <1>0, <1>6 DEF SaveSession, TypeOK, Task
  <2>2. QED
      BY <1>0, <1>6, <2>1, SavedUid DEF SaveSession
<1>7. ASSUME NEW r \in Request, EndSession(r)
      PROVE  UidInv'
  <2>1. task[r].key \in Key
      BY <1>0, <1>7 DEF EndSession, TypeOK, Task
  <2>2. QED
      BY <1>0, <1>7, <1>a, <2>1, NoHolder, NotMore, FewerInv DEF EndSession, Fewer
<1>8. ASSUME NEW r \in Request, BeginRotation(r)
      PROVE  UidInv'
    BY <1>0, <1>8, RotatingUid
<1>9. ASSUME NEW r \in Request, EndRotation(r)
      PROVE  UidInv'
    BY <1>0, <1>9, SavedUid, FreshKey, SessionCollection DEF EndRotation
<1>10. ASSUME NEW r \in Request, ConsumeCode(r)
       PROVE  UidInv'
  <2>1. /\ task[r].key \in Key
        /\ \A u : ~HoldsSession([task[r] EXCEPT !.step = "save"], u)
      BY <1>0, <1>10 DEF ConsumeCode, TypeOK, Task, HoldsSession
  <2>2. docs'[Session] = docs[Session]
      BY <1>0, <1>10, <1>a, <2>1, SessionsAlone, OtherCollections DEF ConsumeCode
  <2>3. QED
      BY <1>0, <1>10, <2>1, <2>2, NoHolder, NotMore, FewerInv DEF ConsumeCode, Fewer
<1>11. ASSUME NEW r \in Request, SaveToken(r)
       PROVE  UidInv'
  <2>1. docs'[Session] = docs[Session]
      BY <1>0, <1>11, FreshKey, SessionsAlone, OtherCollections DEF SaveToken
  <2>2. QED
      BY <1>0, <1>11, <1>a, <2>1, NoHolder, NotMore, FewerInv DEF SaveToken, Fewer
<1>12. ASSUME NEW r \in Request, NEW c \in Collection, Revoke(r, c)
       PROVE  UidInv'
  <2> DEFINE t == [task[r] EXCEPT !.todo = @ \ {c},
                                  !.step = IF task[r].todo = {c} THEN "revoked" ELSE "revoke"]
  <2>1. \A u : ~HoldsSession(t, u)
    <3>1. task[r] \in Task
        BY <1>0, <1>12 DEF Revoke, TypeOK
    <3>2. t.step \in {"revoke", "revoked"}
        BY <3>1 DEF Task
    <3>3. QED
        BY <3>2 DEF HoldsSession
  <2>2. Become(r, t) /\ UNCHANGED uids
      BY <1>12 DEF Revoke
  <2>3. \A u \in Uid : Has(u)' \subseteq Has(u)
      BY <1>0, <1>12, NotMore DEF Revoke
  <2>4. QED
      BY <1>0, <2>1, <2>2, <2>3, NoHolder, FewerInv DEF Fewer
<1>13. ASSUME NEW r \in Request, End(r)
       PROVE  UidInv'
    BY <1>0, <1>13, <1>a, NoHolder, NotMore, FewerInv DEF End, Fewer
<1>14. CASE Database
  <2>1. ASSUME NEW c \in Collection, RemoveExpired(c) PROVE UidInv'
      BY <1>0, <1>14, <2>1, NotMore, FewerInv DEF Database, Fewer
  <2>2. QED
      BY <1>14, <1>b, <2>1 DEF Database, DatabaseStep, FinishIndexes, FailIndexes, Tick
<1>15. CASE Restart
  <2>1. \A r \in Request, u \in Uid : ~HoldsSession(task'[r], u)
      BY <1>15, <1>a DEF Restart
  <2>2. QED
      BY <1>0, <1>15, <2>1, NotMore, FewerInv DEF Restart, Forget, Fewer
<1>16. QED
    BY <1>1, <1>2, <1>3, <1>4, <1>5, <1>6, <1>7, <1>8, <1>9, <1>10, <1>11, <1>12, <1>13,
       <1>14, <1>14, <1>15 DEF Next

(* A uid nobody shared has one session at most, whatever becomes of the    *)
(* unique index (mongodb.adapter.ts 66-77, 100-108, 120-122).              *)
THEOREM UidUniqueCorrect == Spec => []UidUniqueUnlessShared
<1>1. UidInv => UidUniqueUnlessShared
    BY DEF UidInv, Sound, Alone, Has, UidUniqueUnlessShared
<1>2. QED
    BY UidInit, UidStep, <1>1, PTL DEF Spec

-----------------------------------------------------------------------------
(* Documents that come back.                                               *)

Appears(c, k) == docs[c][k] = None /\ docs'[c][k] # None

(* A save brings one document at most.                                     *)
LEMMA SaveBrings ==
    ASSUME TypeOK, NEW c \in Collection, NEW k, NEW p, Save(c, k, p),
           NEW d \in Collection, NEW l \in Key, Appears(d, l)
    PROVE  d = c /\ l = k
BY DEF TypeOK, Save, SaveFor, Upsert, Appears

LEMMA FreshNotDrawn ==
    ASSUME NEW c \in Collection, NEW k \in Fresh(c)
    PROVE  k \notin drawn[c]
BY DEF Fresh, Undrawn

(* What is no save brings none.                                            *)
LEMMA NothingAppears ==
    ASSUME TypeOK, NEW d \in Collection, NEW l \in Key,
           \/ docs' = docs
           \/ \E k : docs' = Destroy(Session, k)
           \/ \E c \in Collection : \E k : docs' = Consume(c, k)
           \/ \E c \in Collection : \E g : docs' = RevokeByGrantId(c, g)
           \/ \E c \in Collection : RemoveExpired(c)
    PROVE  ~Appears(d, l)
<1>1. ASSUME NEW k, docs' = Destroy(Session, k) PROVE ~Appears(d, l)
    BY <1>1 DEF TypeOK, Destroy, Appears
<1>2. ASSUME NEW c \in Collection, NEW k, docs' = Consume(c, k) PROVE ~Appears(d, l)
    BY <1>2 DEF TypeOK, Consume, Exists, Appears
<1>3. ASSUME NEW c \in Collection, NEW g, docs' = RevokeByGrantId(c, g) PROVE ~Appears(d, l)
    BY <1>3 DEF TypeOK, RevokeByGrantId, Appears
<1>4. ASSUME NEW c \in Collection, RemoveExpired(c) PROVE ~Appears(d, l)
    BY <1>4 DEF TypeOK, RemoveExpired, Appears
<1>5. QED
    BY <1>1, <1>2, <1>3, <1>4 DEF Appears

LateSave(c, k) == c = Session /\ \E r \in Request : task[r] # None /\ task[r].key = k

LEMMA ReturnsLate ==
    ASSUME TypeOK, [Next]_vars, NEW d \in Collection, NEW l \in drawn[d], l \in Key, Appears(d, l)
    PROVE  LateSave(d, l)
<1>1. CASE StartSession \/ IssueCode
    BY <1>1, SaveBrings, FreshNotDrawn, RequestsAssumption DEF StartSession, IssueCode, Session
<1>2. ASSUME NEW r \in Request, SaveSession(r)
      PROVE  LateSave(d, l)
    BY <1>2, SaveBrings, SessionCollection DEF SaveSession, LateSave
<1>3. ASSUME NEW r \in Request, EndRotation(r) \/ SaveToken(r)
      PROVE  LateSave(d, l)
    BY <1>3, SaveBrings, FreshNotDrawn, RequestsAssumption DEF EndRotation, SaveToken, Session
<1>4. ASSUME NEW r \in Request, NEW k \in Key, LoadSession(r, k) \/ FindCode(r, k)
      PROVE  LateSave(d, l)
    BY <1>4, NothingAppears DEF LoadSession, FindCode, storeVars
<1>5. ASSUME NEW r \in Request, EndSession(r) \/ BeginRotation(r) \/ ConsumeCode(r) \/ End(r)
      PROVE  LateSave(d, l)
    BY <1>5, NothingAppears, RequestsAssumption
       DEF EndSession, BeginRotation, ConsumeCode, End, storeVars
<1>6. ASSUME NEW r \in Request, NEW c \in Collection, Revoke(r, c)
      PROVE  LateSave(d, l)
    BY <1>6, NothingAppears DEF Revoke
<1>7. CASE Obtain \/ Restart \/ UNCHANGED vars
    BY <1>7, NothingAppears DEF Obtain, Restart, Forget, vars
<1>8. CASE Database
    BY <1>8, NothingAppears DEF Database, DatabaseStep, FinishIndexes, FailIndexes, Tick
<1>9. QED
    BY <1>1, <1>2, <1>3, <1>4, <1>5, <1>6, <1>7, <1>8 DEF Next

(* A document that is gone comes back only if it is a session, and only    *)
(* through a request that read it before (mongodb.adapter.ts 73-77,        *)
(* 129-132).                                                               *)
THEOREM GoneStaysGoneCorrect == Spec => GoneStaysGone
<1>1. TypeOK /\ [Next]_vars =>
          [\A c \in Collection, k \in Key :
              k \in drawn[c] /\ ~Exists(c, k) /\ Exists(c, k)' =>
                  c = Session /\ \E r \in Request : task[r] # None /\ task[r].key = k]_vars
    BY ReturnsLate DEF Exists, Appears, LateSave
<1>2. QED
    BY TypeCorrect, <1>1, PTL DEF Spec, GoneStaysGone

-----------------------------------------------------------------------------
(* Revocation after a reuse.                                               *)

Revoking(t) == t # None /\ t.step \in {"revoke", "revoked"}

(* The tokens owed to a reuse are of the grant, and gone once the          *)
(* collection of access tokens is done.                                    *)
Owed(t) ==
    /\ t.owed \subseteq drawn[AccessToken]
    /\ \A k \in t.owed : docs[AccessToken][k] # None =>
           docs[AccessToken][k].payload.grantId = t.grant
    /\ t.step = "revoked" \/ AccessToken \notin t.todo =>
           \A k \in t.owed : docs[AccessToken][k] = None

(* The inductive invariant.                                                *)
ReuseInv ==
    /\ TypeOK
    /\ \A k \in Key : docs[AccessToken][k] # None => k \in drawn[AccessToken]
    /\ \A r \in Request : Revoking(task[r]) => Owed(task[r])

(* Identifiers are not drawn again, so an access token that was there      *)
(* keeps its grant until it is gone for good.                              *)
Steady ==
    /\ drawn[AccessToken] \subseteq drawn'[AccessToken]
    /\ \A k \in Key : docs'[AccessToken][k] # None =>
           /\ k \in drawn'[AccessToken]
           /\ k \in drawn[AccessToken] =>
                  /\ docs[AccessToken][k] # None
                  /\ docs'[AccessToken][k].payload.grantId = docs[AccessToken][k].payload.grantId

LEMMA SteadyOwed ==
    ASSUME TypeOK, Steady, NEW t \in Task, Owed(t)
    PROVE  Owed(t)'
BY DEF Task, Steady, Owed

LEMMA SteadyInv ==
    ASSUME ReuseInv, TypeOK', Steady,
           \A r \in Request : Revoking(task'[r]) => task'[r] = task[r]
    PROVE  ReuseInv'
<1>1. ASSUME NEW r \in Request, Revoking(task[r])' PROVE Owed(task[r])'
  <2>1. task'[r] = task[r] /\ Revoking(task[r])
      BY <1>1 DEF Revoking
  <2>2. PICK t \in Task : t = task[r]
      BY <2>1 DEF ReuseInv, TypeOK, Revoking
  <2>3. Owed(t)'
      BY <2>1, <2>2, SteadyOwed DEF ReuseInv
  <2>4. QED
      BY <2>1, <2>2, <2>3 DEF Owed
<1>2. \A k \in Key : docs'[AccessToken][k] # None => k \in drawn'[AccessToken]
    BY DEF Steady
<1>3. QED
    BY <1>1, <1>2 DEF ReuseInv

LEMMA TokensAlone ==
    ASSUME ReuseInv, docs'[AccessToken] = docs[AccessToken],
           drawn[AccessToken] \subseteq drawn'[AccessToken]
    PROVE  Steady
BY DEF ReuseInv, Steady

LEMMA TokensThinned ==
    ASSUME ReuseInv, drawn' = drawn, NEW c \in Collection,
           \/ \E g : docs' = RevokeByGrantId(c, g)
           \/ RemoveExpired(c)
    PROVE  Steady
<1>1. AccessToken \in Collection
    BY RequestsAssumption
<1>2. CASE \E g : docs' = RevokeByGrantId(c, g)
    BY <1>1, <1>2 DEF ReuseInv, TypeOK, RevokeByGrantId, Steady
<1>3. CASE RemoveExpired(c)
    BY <1>1, <1>3 DEF ReuseInv, TypeOK, RemoveExpired, Steady
<1>4. QED
    BY <1>2, <1>3

LEMMA TokenSaved ==
    ASSUME ReuseInv, NEW k \in Fresh(AccessToken), NEW p, Save(AccessToken, k, p),
           Draw(AccessToken, k)
    PROVE  Steady
<1>1. AccessToken \in Collection /\ k \in Key /\ k \notin drawn[AccessToken]
    BY FreshKey, FreshNotDrawn, RequestsAssumption
<1>2. QED
    BY <1>1 DEF ReuseInv, TypeOK, Save, SaveFor, Upsert, Draw, Steady

(* A save to another collection.                                           *)
LEMMA OtherSaved ==
    ASSUME ReuseInv, NEW c, c # AccessToken, NEW k, NEW p, Save(c, k, p)
    PROVE  docs'[AccessToken] = docs[AccessToken]
BY RequestsAssumption DEF ReuseInv, TypeOK, Save, SaveFor, Upsert

LEMMA OtherDrawn ==
    ASSUME ReuseInv, NEW c \in Collection, NEW k, Draw(c, k)
    PROVE  drawn[AccessToken] \subseteq drawn'[AccessToken]
BY RequestsAssumption DEF ReuseInv, TypeOK, Draw

LEMMA NotRevoking ==
    ASSUME ReuseInv, NEW q \in Request, NEW t, ~Revoking(t), Become(q, t)
    PROVE  \A r \in Request : Revoking(task'[r]) => task'[r] = task[r]
BY DEF ReuseInv, TypeOK, Become

LEMMA ReuseInit == Init => ReuseInv
BY TypeInit, RequestsAssumption DEF Init, StoreInit, ReuseInv, Revoking

(* The reuse is found: what is owed is what FindByParam finds.             *)
LEMMA ReuseFound ==
    ASSUME ReuseInv, TypeOK', NEW q \in Request, NEW k \in Key, FindCode(q, k)
    PROVE  ReuseInv'
<1>1. docs' = docs /\ drawn' = drawn /\ Become(q, FoundCode(k))
    BY DEF FindCode, storeVars
<1>2. ASSUME NEW r \in Request, Revoking(task[r])' PROVE Owed(task[r])'
  <2>1. CASE r = q
    <3>1. task'[r] = FoundCode(k)
        BY <1>1, <2>1 DEF ReuseInv, TypeOK, Become
    <3>2. docs[AuthorizationCode][k].payload.consumed
        BY <1>2, <3>1 DEF Revoking, FoundCode
    <3>3. /\ task'[r].step = "revoke"
          /\ task'[r].grant = docs[AuthorizationCode][k].payload.grantId
          /\ task'[r].todo = Collection \cap grantable
          /\ task'[r].owed = TokensOf(docs[AuthorizationCode][k].payload.grantId)
        BY <3>1, <3>2 DEF FoundCode
    <3>4. AccessToken \in task'[r].todo
        BY <3>3, RequestsAssumption DEF grantable, AccessToken
    <3>5. QED
        BY <1>1, <3>3, <3>4 DEF ReuseInv, Owed, TokensOf, FindByParam, Exists
  <2>2. CASE r # q
    <3>1. task'[r] = task[r]
        BY <1>1, <2>2 DEF ReuseInv, TypeOK, Become
    <3>2. QED
        BY <1>1, <1>2, <3>1 DEF ReuseInv, Revoking, Owed
  <2>3. QED
      BY <2>1, <2>2
<1>3. QED
    BY <1>1, <1>2 DEF ReuseInv

(* One collection is revoked.                                              *)
LEMMA ReuseRevoked ==
    ASSUME ReuseInv, TypeOK', NEW q \in Request, NEW c \in Collection, Revoke(q, c)
    PROVE  ReuseInv'
<1>1. /\ docs' = RevokeByGrantId(c, task[q].grant) /\ drawn' = drawn
      /\ task[q] \in Task /\ Owed(task[q]) /\ c \in task[q].todo
    BY DEF Revoke, ReuseInv, TypeOK, Revoking
<1>2. Steady
    BY <1>1, TokensThinned
<1>3. ASSUME NEW r \in Request, Revoking(task[r])' PROVE Owed(task[r])'
  <2>1. CASE r = q
    <3>1. /\ task'[r].owed = task[q].owed /\ task'[r].grant = task[q].grant
          /\ task'[r].todo = task[q].todo \ {c}
          /\ task'[r].step = IF task[q].todo = {c} THEN "revoked" ELSE "revoke"
        BY <1>1, <2>1 DEF Revoke, Become, ReuseInv, TypeOK, Task
    <3>2. ASSUME c = AccessToken, NEW k \in task[q].owed PROVE docs'[AccessToken][k] = None
        BY <1>1, <3>2, RequestsAssumption
           DEF ReuseInv, TypeOK, Task, RevokeByGrantId, FindByParam, Exists, Owed
    <3>3. ASSUME c # AccessToken PROVE docs'[AccessToken] = docs[AccessToken]
        BY <1>1, <3>3, RequestsAssumption DEF ReuseInv, TypeOK, RevokeByGrantId
    <3>4. QED
        BY <1>1, <1>2, <3>1, <3>2, <3>3 DEF Owed, Steady, Task
  <2>2. CASE r # q
    <3>1. task'[r] = task[r] /\ Revoking(task[r])
        BY <1>3, <2>2 DEF Revoke, Become, ReuseInv, TypeOK, Revoking
    <3>2. PICK t \in Task : t = task[r]
        BY <3>1 DEF ReuseInv, TypeOK, Revoking
    <3>3. Owed(t)'
        BY <1>2, <3>1, <3>2, SteadyOwed DEF ReuseInv
    <3>4. QED
        BY <3>1, <3>2, <3>3 DEF Owed
  <2>3. QED
      BY <2>1, <2>2
<1>4. QED
    BY <1>2, <1>3 DEF ReuseInv, Steady

(* A request that takes no part in a revocation, in another collection.    *)
LEMMA ReuseElsewhere ==
    ASSUME ReuseInv, TypeOK', NEW q \in Request, NEW t, ~Revoking(t), Become(q, t),
           docs'[AccessToken] = docs[AccessToken],
           drawn[AccessToken] \subseteq drawn'[AccessToken]
    PROVE  ReuseInv'
BY TokensAlone, NotRevoking, SteadyInv

LEMMA ReuseStep == ReuseInv /\ [Next]_vars => ReuseInv'
<1> SUFFICES ASSUME ReuseInv, [Next]_vars
             PROVE  ReuseInv'
    OBVIOUS
<1> USE DEF OtherStore, storeVars
<1>0. TypeOK'
    BY TypeStep DEF ReuseInv
<1>1. CASE Obtain
    BY <1>0, <1>1, TokensAlone, SteadyInv DEF Obtain
<1>2. CASE StartSession
  <2>1. PICK k \in Fresh(Session), u \in Uid \ usedUid :
            Save(Session, k, SessionPayload(u)) /\ Draw(Session, k) /\ task' = task
      BY <1>2 DEF StartSession
  <2>2. docs'[AccessToken] = docs[AccessToken]
      BY <2>1, OtherSaved, OtherCollections
  <2>3. drawn[AccessToken] \subseteq drawn'[AccessToken]
      BY <2>1, OtherDrawn, OtherCollections
  <2>4. QED
      BY <1>0, <2>1, <2>2, <2>3, TokensAlone, SteadyInv
<1>3. CASE IssueCode
  <2>1. PICK k \in Fresh(AuthorizationCode), g \in Grant :
            Save(AuthorizationCode, k, GrantPayload(g)) /\ Draw(AuthorizationCode, k) /\ task' = task
      BY <1>3 DEF IssueCode
  <2>2. docs'[AccessToken] = docs[AccessToken]
      BY <2>1, OtherSaved, OtherCollections
  <2>3. drawn[AccessToken] \subseteq drawn'[AccessToken]
      BY <2>1, OtherDrawn, OtherCollections
  <2>4. QED
      BY <1>0, <2>1, <2>2, <2>3, TokensAlone, SteadyInv
<1>4. ASSUME NEW r \in Request, NEW k \in Key, LoadSession(r, k)
      PROVE  ReuseInv'
  <2>1. ~Revoking(Loaded(k))
      BY DEF Revoking, Loaded
  <2>2. QED
      BY <1>0, <1>4, <2>1, ReuseElsewhere DEF LoadSession
<1>5. ASSUME NEW r \in Request, NEW k \in Key, FindCode(r, k)
      PROVE  ReuseInv'
    BY <1>0, <1>5, ReuseFound
<1>6. ASSUME NEW r \in Request, SaveSession(r)
      PROVE  ReuseInv'
  <2>1. docs'[AccessToken] = docs[AccessToken]
      BY <1>6, OtherSaved, OtherCollections DEF SaveSession
  <2>2. ~Revoking(None)
      BY DEF Revoking
  <2>3. QED
      BY <1>0, <1>6, <2>1, <2>2, ReuseElsewhere DEF SaveSession
<1>7. ASSUME NEW r \in Request, EndSession(r) \/ BeginRotation(r)
      PROVE  ReuseInv'
  <2>1. docs'[AccessToken] = docs[AccessToken]
      BY <1>7, OtherCollections DEF EndSession, BeginRotation, Destroy, ReuseInv, TypeOK
  <2>2. ~Revoking(None) /\ ~Revoking([task[r] EXCEPT !.step = "rotating"])
      BY <1>7 DEF Revoking, EndSession, BeginRotation, ReuseInv, TypeOK, Task
  <2>3. QED
      BY <1>0, <1>7, <2>1, <2>2, ReuseElsewhere DEF EndSession, BeginRotation
<1>8. ASSUME NEW r \in Request, EndRotation(r)
      PROVE  ReuseInv'
  <2>1. PICK k \in Fresh(Session) :
            Save(Session, k, SessionPayload(task[r].uid)) /\ Draw(Session, k)
      BY <1>8 DEF EndRotation
  <2>2. docs'[AccessToken] = docs[AccessToken]
      BY <2>1, OtherSaved, OtherCollections
  <2>3. drawn[AccessToken] \subseteq drawn'[AccessToken]
      BY <2>1, OtherDrawn, OtherCollections
  <2>4. ~Revoking(None)
      BY DEF Revoking
  <2>5. QED
      BY <1>0, <1>8, <2>2, <2>3, <2>4, ReuseElsewhere DEF EndRotation
<1>9. ASSUME NEW r \in Request, ConsumeCode(r)
      PROVE  ReuseInv'
  <2>1. docs'[AccessToken] = docs[AccessToken]
      BY <1>9, OtherCollections DEF ConsumeCode, Consume, ReuseInv, TypeOK
  <2>2. ~Revoking([task[r] EXCEPT !.step = "save"])
      BY <1>9 DEF Revoking, ConsumeCode, ReuseInv, TypeOK, Task
  <2>3. QED
      BY <1>0, <1>9, <2>1, <2>2, ReuseElsewhere DEF ConsumeCode
<1>10. ASSUME NEW r \in Request, SaveToken(r)
       PROVE  ReuseInv'
  <2>1. PICK k \in Fresh(AccessToken) :
            Save(AccessToken, k, GrantPayload(task[r].grant)) /\ Draw(AccessToken, k)
      BY <1>10 DEF SaveToken
  <2>2. Steady
      BY <2>1, TokenSaved
  <2>3. ~Revoking(None)
      BY DEF Revoking
  <2>4. \A q \in Request : Revoking(task'[q]) => task'[q] = task[q]
      BY <1>10, <2>3, NotRevoking DEF SaveToken
  <2>5. QED
      BY <1>0, <2>2, <2>4, SteadyInv
<1>11. ASSUME NEW r \in Request, NEW c \in Collection, Revoke(r, c)
       PROVE  ReuseInv'
    BY <1>0, <1>11, ReuseRevoked
<1>12. ASSUME NEW r \in Request, End(r)
       PROVE  ReuseInv'
  <2>1. ~Revoking(None)
      BY DEF Revoking
  <2>2. QED
      BY <1>0, <1>12, <2>1, ReuseElsewhere DEF End
<1>13. CASE Database
  <2>1. ASSUME NEW c \in Collection, RemoveExpired(c) PROVE Steady
      BY <1>13, <2>1, TokensThinned DEF Database
  <2>2. CASE docs' = docs
      BY <1>0, <1>13, <2>2, TokensAlone, SteadyInv DEF Database
  <2>3. ASSUME NEW c \in Collection, RemoveExpired(c) PROVE ReuseInv'
      BY <1>0, <1>13, <2>1, <2>3, SteadyInv DEF Database
  <2>4. QED
      BY <1>13, <2>2, <2>3 DEF Database, DatabaseStep, FinishIndexes, FailIndexes, Tick
<1>14. CASE Restart
  <2>1. \A r \in Request : ~Revoking(task'[r])
      BY <1>14 DEF Restart, Revoking
  <2>2. Steady
      BY <1>14, TokensAlone DEF Restart, Forget
  <2>3. QED
      BY <1>0, <2>1, <2>2, SteadyInv
<1>15. CASE UNCHANGED vars
    BY <1>0, <1>15, TokensAlone, SteadyInv DEF vars
<1>16. QED
    BY <1>1, <1>2, <1>3, <1>4, <1>5, <1>6, <1>7, <1>8, <1>9, <1>10, <1>11, <1>12, <1>13,
       <1>14, <1>15 DEF Next

(* A reuse that was answered has left none of the grant's tokens, however  *)
(* the revocation was interleaved (mongodb.adapter.ts 124-126).            *)
THEOREM ReuseRevokesCorrect == Spec => []ReuseRevokes
<1>1. ReuseInv => ReuseRevokes
    BY DEF ReuseInv, ReuseRevokes, Revoking, Owed, Exists
<1>2. QED
    BY ReuseInit, ReuseStep, <1>1, PTL DEF Spec
-----------------------------------------------------------------------------
(* Requests implements CodeExchange.                                       *)

Claiming(t) == t # None /\ t.step \in {"consume", "save"}

ClaimOf(t) == IF Claiming(t) THEN t.key ELSE None

Tokens == {k \in Key : Exists(AccessToken, k)}

(* Codes are those that were drawn, and a claimed one is no longer open    *)
(* when its token is saved.                                                *)
CodesInv ==
    /\ \A k \in Key : docs[AuthorizationCode][k] # None => k \in drawn[AuthorizationCode]
    /\ \A r \in Request : Claiming(task[r]) =>
           /\ task[r].key \in drawn[AuthorizationCode]
           /\ task[r].step = "save" => task[r].key \notin OpenCodes

(* No code appears, and none that was consumed opens again.                *)
CodesKept ==
    /\ drawn'[AuthorizationCode] = drawn[AuthorizationCode]
    /\ \A k \in Key : docs'[AuthorizationCode][k] # None =>
           /\ docs[AuthorizationCode][k] # None
           /\ docs[AuthorizationCode][k].payload.consumed
                  => docs'[AuthorizationCode][k].payload.consumed

(* Every step is one of CodeExchange: its End allows that nothing ends.    *)
Simulated == CodesInv' /\ Exchange!Next

LEMMA OpenKept ==
    ASSUME CodesKept
    PROVE  OpenCodes' \subseteq OpenCodes
BY DEF CodesKept, OpenCodes, Exists

(* Whatever only closes codes and ends tokens, while claims stay or are    *)
(* withdrawn.                                                              *)
LEMMA Ended ==
    ASSUME CodesInv, CodesKept, Tokens' \subseteq Tokens,
           \A r \in Request : task'[r] = task[r] \/ (~Claiming(task[r]) /\ ~Claiming(task'[r]))
    PROVE  Simulated
<1>1. OpenCodes' \subseteq OpenCodes
    BY OpenKept
<1>2. CodesInv'
    BY <1>1 DEF CodesInv, CodesKept, Claiming
<1>3. \A r \in Request : ClaimOf(task'[r]) = ClaimOf(task[r])
    BY DEF ClaimOf
<1>4. Exchange!End
    BY <1>1, <1>3 DEF CodesKept, Exchange!End, ClaimOf, Claiming, Tokens
<1>5. QED
    BY <1>2, <1>4 DEF Simulated, Exchange!Next

LEMMA Withdrawn ==
    ASSUME CodesInv, UNCHANGED <<docs, drawn>>, NEW R \in SUBSET Request,
           \A r \in R : task'[r] = None, \A r \in Request \ R : task'[r] = task[r]
    PROVE  Simulated
<1>1. OpenCodes' = OpenCodes /\ Tokens' = Tokens
    BY DEF OpenCodes, Tokens, Exists
<1>2. CodesInv'
    BY <1>1 DEF CodesInv, Claiming
<1>3. \A r \in Request : ClaimOf(task'[r]) = IF r \in R THEN None ELSE ClaimOf(task[r])
    BY DEF ClaimOf, Claiming
<1>4. Exchange!Withdraw(R)
    BY <1>1, <1>3 DEF Exchange!Withdraw, ClaimOf, Claiming, Tokens
<1>5. QED
    BY <1>2, <1>4 DEF Simulated, Exchange!Next

(* Outside the collection of codes.                                        *)
LEMMA CodesAlone ==
    ASSUME docs'[AuthorizationCode] = docs[AuthorizationCode],
           drawn'[AuthorizationCode] = drawn[AuthorizationCode]
    PROVE  CodesKept
BY DEF CodesKept

LEMMA TokensNotMore ==
    ASSUME \A k \in Key : docs'[AccessToken][k] # None => docs[AccessToken][k] # None
    PROVE  Tokens' \subseteq Tokens
BY DEF Tokens, Exists

LEMMA BothThinned ==
    ASSUME TypeOK, drawn' = drawn, NEW c \in Collection,
           \/ \E g : docs' = RevokeByGrantId(c, g)
           \/ RemoveExpired(c)
    PROVE  CodesKept /\ Tokens' \subseteq Tokens
<1>1. \A d \in Collection, k \in Key : docs'[d][k] # None =>
          docs[d][k] # None /\ docs'[d][k] = docs[d][k]
  <2>1. CASE \E g : docs' = RevokeByGrantId(c, g)
      BY <2>1 DEF TypeOK, RevokeByGrantId
  <2>2. CASE RemoveExpired(c)
      BY <2>2 DEF TypeOK, RemoveExpired
  <2>3. QED
      BY <2>1, <2>2
<1>2. QED
    BY <1>1, OtherCollections, TokensNotMore DEF CodesKept

(* A request that has no claim before or after.                            *)
LEMMA NoClaim ==
    ASSUME TypeOK, NEW q \in Request, ~Claiming(task[q]), NEW t, ~Claiming(t), Become(q, t)
    PROVE  \A r \in Request : task'[r] = task[r] \/ (~Claiming(task[r]) /\ ~Claiming(task'[r]))
BY DEF TypeOK, Become

LEMMA OtherSavedCodes ==
    ASSUME TypeOK, NEW c \in Collection, c # AuthorizationCode, NEW k, NEW p, Save(c, k, p)
    PROVE  docs'[AuthorizationCode] = docs[AuthorizationCode]
BY OtherCollections DEF TypeOK, Save, SaveFor, Upsert

LEMMA OtherDrawnCodes ==
    ASSUME TypeOK, NEW c \in Collection, c # AuthorizationCode, NEW k, Draw(c, k)
    PROVE  drawn'[AuthorizationCode] = drawn[AuthorizationCode]
BY OtherCollections DEF TypeOK, Draw

LEMMA SavedIsThere ==
    ASSUME TypeOK, NEW c \in Collection, NEW k \in Key, NEW p \in Payload, Save(c, k, p)
    PROVE  docs'[c][k] # None
<1>1. PICK e \in Lifetime[c] :
          docs' = [docs EXCEPT ![c] = [docs[c] EXCEPT ![k] = Dated(c, k, p, e)]]
    BY SaveDated
<1>2. docs'[c][k] = Dated(c, k, p, e)
    BY <1>1 DEF TypeOK
<1>3. QED
    BY <1>2, DatedType, StoreAssumption

LEMMA Offered ==
    ASSUME ReuseInv, CodesInv, IssueCode
    PROVE  Simulated
<1>1. PICK k \in Fresh(AuthorizationCode), g \in Grant :
          /\ Save(AuthorizationCode, k, GrantPayload(g))
          /\ Draw(AuthorizationCode, k)
          /\ task' = task
    BY DEF IssueCode
<1>2. k \in Key /\ k \notin drawn[AuthorizationCode]
    BY <1>1, FreshKey, FreshNotDrawn, OtherCollections
<1>3. drawn'[AuthorizationCode] = drawn[AuthorizationCode] \cup {k}
    BY <1>1, OtherCollections DEF ReuseInv, TypeOK, Draw
<1>4. /\ docs'[AccessToken] = docs[AccessToken]
      /\ docs'[AuthorizationCode][k] # None
      /\ docs'[AuthorizationCode][k].payload.consumed = FALSE
      /\ \A l \in Key \ {k} : docs'[AuthorizationCode][l] = docs[AuthorizationCode][l]
  <2>1. docs'[AccessToken] = docs[AccessToken]
      BY <1>1, OtherSaved, OtherCollections
  <2>2. \A l \in Key \ {k} : docs'[AuthorizationCode][l] = docs[AuthorizationCode][l]
      BY <1>1, <1>2, OtherCollections DEF ReuseInv, TypeOK, Save, SaveFor, Upsert
  <2>3. docs'[AuthorizationCode][k].payload = GrantPayload(g)
      BY <1>1, <1>2, OtherCollections DEF ReuseInv, TypeOK, Save, SaveFor, Upsert
  <2>4. docs'[AuthorizationCode][k] # None
      BY <1>1, <1>2, OtherCollections, PayloadType, SavedIsThere DEF ReuseInv
  <2>5. QED
      BY <2>1, <2>2, <2>3, <2>4 DEF GrantPayload
<1>5. OpenCodes' = OpenCodes \cup {k} /\ Tokens' = Tokens
    BY <1>2, <1>4 DEF OpenCodes, Tokens, Exists, CodesInv
<1>6. CodesInv'
    BY <1>1, <1>2, <1>3, <1>4, <1>5 DEF CodesInv, Claiming
<1>7. Exchange!Offer(k)
    BY <1>1, <1>2, <1>3, <1>5 DEF Exchange!Offer, Tokens
<1>8. QED
    BY <1>2, <1>6, <1>7 DEF Simulated, Exchange!Next

LEMMA Found ==
    ASSUME ReuseInv, CodesInv, NEW q \in Request, NEW k \in Key, FindCode(q, k)
    PROVE  Simulated
<1>1. /\ docs' = docs /\ drawn' = drawn /\ Become(q, FoundCode(k)) /\ task[q] = None
      /\ docs[AuthorizationCode][k] # None
    BY DEF FindCode, storeVars, Exists
<1>2. CASE docs[AuthorizationCode][k].payload.consumed
  <2>1. ~Claiming(FoundCode(k))
      BY <1>2 DEF Claiming, FoundCode
  <2>2. ~Claiming(task[q])
      BY <1>1 DEF Claiming
  <2>3. CodesKept /\ Tokens' \subseteq Tokens
      BY <1>1, CodesAlone, TokensNotMore
  <2>4. QED
      BY <1>1, <2>1, <2>2, <2>3, NoClaim, Ended DEF ReuseInv
<1>3. CASE ~docs[AuthorizationCode][k].payload.consumed
  <2>1. FoundCode(k).step = "consume" /\ FoundCode(k).key = k
      BY <1>3 DEF FoundCode
  <2>2. FoundCode(k) # None
    <3>1. FoundCode(k) \in Task
        BY OtherCollections, DocumentType
           DEF ReuseInv, FindCode, FoundCode, TokensOf, FindByParam, Task, Payload
    <3>2. QED
        BY <3>1, RequestsAssumption
  <2>3. task'[q] = FoundCode(k) /\ \A r \in Request \ {q} : task'[r] = task[r]
      BY <1>1 DEF ReuseInv, TypeOK, Become
  <2>4. k \in OpenCodes /\ k \in drawn[AuthorizationCode]
      BY <1>1, <1>3 DEF OpenCodes, Exists, CodesInv
  <2>5. OpenCodes' = OpenCodes /\ Tokens' = Tokens
      BY <1>1 DEF OpenCodes, Tokens, Exists
  <2>6. CodesInv'
      BY <1>1, <2>1, <2>3, <2>4, <2>5 DEF CodesInv, Claiming
  <2>7. \A r \in Request : ClaimOf(task'[r]) = IF r = q THEN k ELSE ClaimOf(task[r])
      BY <2>1, <2>2, <2>3 DEF ClaimOf, Claiming
  <2>8. Exchange!Claim(q, k)
      BY <1>1, <2>4, <2>5, <2>7 DEF Exchange!Claim, ClaimOf, Claiming, Tokens
  <2>9. QED
      BY <2>6, <2>8 DEF Simulated, Exchange!Next
<1>4. QED
    BY <1>2, <1>3

LEMMA Consumed ==
    ASSUME ReuseInv, CodesInv, NEW q \in Request, ConsumeCode(q)
    PROVE  Simulated
<1>1. /\ docs' = Consume(AuthorizationCode, task[q].key) /\ drawn' = drawn
      /\ task[q] \in Task /\ task[q] # None /\ task[q].step = "consume"
    BY DEF ConsumeCode, ReuseInv, TypeOK
<1>2. /\ task'[q] # None /\ task'[q].step = "save" /\ task'[q].key = task[q].key
      /\ \A r \in Request \ {q} : task'[r] = task[r]
  <2>1. task' = [task EXCEPT ![q] = [task[q] EXCEPT !.step = "save"]]
      BY DEF ConsumeCode, Become
  <2>2. [task[q] EXCEPT !.step = "save"] \in Task
      BY <1>1 DEF Task
  <2>3. QED
      BY <1>1, <2>1, <2>2, RequestsAssumption DEF ReuseInv, TypeOK, Task
<1>3. docs'[AccessToken] = docs[AccessToken]
    BY <1>1, OtherCollections DEF ReuseInv, TypeOK, Consume
<1>4. /\ CodesKept
      /\ docs'[AuthorizationCode][task[q].key] # None =>
             docs'[AuthorizationCode][task[q].key].payload.consumed
  <2>1. task[q].key \in Key
      BY <1>1 DEF Task
  <2>2. \A k \in Key : docs[AuthorizationCode][k] # None =>
            docs[AuthorizationCode][k] \in Document
      BY OtherCollections, DocumentType DEF ReuseInv, TypeOK
  <2>3. CASE ~Exists(AuthorizationCode, task[q].key)
      BY <1>1, <2>3 DEF Consume, CodesKept, Exists
  <2>4. CASE Exists(AuthorizationCode, task[q].key)
    <3>1. docs' = [docs EXCEPT ![AuthorizationCode][task[q].key].payload.consumed = TRUE]
        BY <1>1, <2>4 DEF Consume
    <3>2. docs'[AuthorizationCode][task[q].key]
              = [docs[AuthorizationCode][task[q].key] EXCEPT !.payload.consumed = TRUE]
        BY <2>1, <3>1, OtherCollections DEF ReuseInv, TypeOK
    <3>3. \A k \in Key \ {task[q].key} :
              docs'[AuthorizationCode][k] = docs[AuthorizationCode][k]
        BY <2>1, <3>1, OtherCollections DEF ReuseInv, TypeOK
    <3>4. docs'[AuthorizationCode][task[q].key].payload.consumed
        BY <2>1, <2>2, <2>4, <3>2 DEF Exists, Document, Payload
    <3>5. QED
        BY <1>1, <2>4, <3>3, <3>4 DEF CodesKept, Exists
  <2>5. QED
      BY <2>3, <2>4
<1>5. OpenCodes' \subseteq OpenCodes /\ task[q].key \notin OpenCodes'
    BY <1>4, OpenKept DEF OpenCodes, Exists
<1>6. CodesInv'
    BY <1>1, <1>2, <1>4, <1>5 DEF CodesInv, CodesKept, Claiming
<1>7. \A r \in Request : ClaimOf(task'[r]) = ClaimOf(task[r])
    BY <1>1, <1>2 DEF ClaimOf, Claiming
<1>8. Exchange!End
  <2>1. Tokens' \subseteq Tokens
      BY <1>3, TokensNotMore
  <2>2. QED
      BY <1>1, <1>5, <1>7, <2>1 DEF Exchange!End, ClaimOf, Claiming, Tokens
<1>9. QED
    BY <1>6, <1>8 DEF Simulated, Exchange!Next

LEMMA Redeemed ==
    ASSUME ReuseInv, CodesInv, NEW q \in Request, SaveToken(q)
    PROVE  Simulated
<1>1. PICK k \in Fresh(AccessToken) :
          Save(AccessToken, k, GrantPayload(task[q].grant)) /\ Draw(AccessToken, k)
    BY DEF SaveToken
<1>2. k \in Key /\ k \notin drawn[AccessToken]
    BY <1>1, FreshKey, FreshNotDrawn, OtherCollections
<1>3. /\ docs'[AuthorizationCode] = docs[AuthorizationCode]
      /\ drawn'[AuthorizationCode] = drawn[AuthorizationCode]
    BY <1>1, OtherCollections, OtherSavedCodes, OtherDrawnCodes DEF ReuseInv
<1>4. /\ task[q] # None /\ task[q].step = "save"
      /\ task'[q] = None /\ \A r \in Request \ {q} : task'[r] = task[r]
    BY DEF SaveToken, ReuseInv, TypeOK, Become
<1>5. OpenCodes' = OpenCodes
    BY <1>3 DEF OpenCodes, Exists
<1>6. Tokens' = Tokens \cup {k} /\ k \notin Tokens
  <2>1. docs'[AccessToken] = [docs[AccessToken] EXCEPT ![k] = docs'[AccessToken][k]]
    <3>1. PICK e \in Lifetime[AccessToken] :
              docs' = [docs EXCEPT ![AccessToken] = [docs[AccessToken] EXCEPT
                           ![k] = Dated(AccessToken, k, GrantPayload(task[q].grant), e)]]
        BY <1>1, <1>2, SaveDated, OtherCollections DEF ReuseInv
    <3>2. QED
        BY <1>2, <3>1, OtherCollections DEF ReuseInv, TypeOK
  <2>2. docs'[AccessToken][k] # None
    <3>1. task[q].grant \in Grant \cup {None}
        BY <1>4 DEF ReuseInv, TypeOK, Task
    <3>2. QED
        BY <1>1, <1>2, <3>1, PayloadType, SavedIsThere, OtherCollections DEF ReuseInv
  <2>3. QED
      BY <1>2, <2>1, <2>2, OtherCollections DEF Tokens, Exists, ReuseInv, TypeOK
<1>7. CodesInv'
    BY <1>3, <1>4, <1>5 DEF CodesInv, Claiming
<1>8. \A r \in Request : ClaimOf(task'[r]) = IF r = q THEN None ELSE ClaimOf(task[r])
    BY <1>4 DEF ClaimOf, Claiming
<1>9. Exchange!Redeem(q, k)
  <2>1. ClaimOf(task[q]) \in drawn[AuthorizationCode] \ OpenCodes
      BY <1>4 DEF CodesInv, ClaimOf, Claiming
  <2>2. QED
      BY <1>2, <1>3, <1>5, <1>6, <1>8, <2>1 DEF Exchange!Redeem, ClaimOf, Claiming, Tokens
<1>10. QED
    BY <1>2, <1>7, <1>9 DEF Simulated, Exchange!Next

(* A step that touches neither codes nor tokens and no request's claim.    *)
LEMMA Unclaimed ==
    ASSUME ReuseInv, CodesInv, NEW q \in Request, ~Claiming(task[q]), NEW t, ~Claiming(t),
           Become(q, t), docs'[AccessToken] = docs[AccessToken],
           docs'[AuthorizationCode] = docs[AuthorizationCode],
           drawn'[AuthorizationCode] = drawn[AuthorizationCode]
    PROVE  Simulated
BY CodesAlone, TokensNotMore, NoClaim, Ended DEF ReuseInv

LEMMA SimulatedStep == ReuseInv /\ CodesInv /\ [Next]_vars => Simulated
<1> SUFFICES ASSUME ReuseInv, CodesInv, [Next]_vars
             PROVE  Simulated
    OBVIOUS
<1> USE DEF OtherStore, storeVars
<1>a. ~Claiming(None)
    BY DEF Claiming
<1>b. Session # AuthorizationCode
    BY DEF Session, AuthorizationCode
<1>1. CASE Obtain
    BY <1>1, CodesAlone, TokensNotMore, Ended DEF Obtain
<1>2. CASE StartSession
  <2>1. PICK k \in Fresh(Session), u \in Uid \ usedUid :
            Save(Session, k, SessionPayload(u)) /\ Draw(Session, k) /\ task' = task
      BY <1>2 DEF StartSession
  <2>2. /\ docs'[AccessToken] = docs[AccessToken]
        /\ docs'[AuthorizationCode] = docs[AuthorizationCode]
        /\ drawn'[AuthorizationCode] = drawn[AuthorizationCode]
      BY <1>b, <2>1, OtherSaved, OtherSavedCodes, OtherDrawnCodes, OtherCollections DEF ReuseInv
  <2>3. QED
      BY <2>1, <2>2, CodesAlone, TokensNotMore, Ended
<1>3. CASE IssueCode
    BY <1>3, Offered
<1>4. ASSUME NEW r \in Request, NEW k \in Key, LoadSession(r, k)
      PROVE  Simulated
  <2>1. ~Claiming(Loaded(k))
      BY DEF Claiming, Loaded
  <2>2. QED
      BY <1>4, <1>a, <2>1, Unclaimed DEF LoadSession
<1>5. ASSUME NEW r \in Request, NEW k \in Key, FindCode(r, k)
      PROVE  Simulated
    BY <1>5, Found
<1>6. ASSUME NEW r \in Request, SaveSession(r)
      PROVE  Simulated
  <2>1. ~Claiming(task[r])
      BY <1>6 DEF SaveSession, Claiming
  <2>2. /\ docs'[AccessToken] = docs[AccessToken]
        /\ docs'[AuthorizationCode] = docs[AuthorizationCode]
      BY <1>6, <1>b, OtherSaved, OtherSavedCodes, OtherCollections DEF SaveSession, ReuseInv
  <2>3. QED
      BY <1>6, <1>a, <2>1, <2>2, Unclaimed DEF SaveSession
<1>7. ASSUME NEW r \in Request, EndSession(r) \/ BeginRotation(r)
      PROVE  Simulated
  <2>1. ~Claiming(task[r]) /\ ~Claiming([task[r] EXCEPT !.step = "rotating"])
      BY <1>7 DEF EndSession, BeginRotation, Claiming, ReuseInv, TypeOK, Task
  <2>2. /\ docs'[AccessToken] = docs[AccessToken]
        /\ docs'[AuthorizationCode] = docs[AuthorizationCode]
      BY <1>7, <1>b, OtherCollections DEF EndSession, BeginRotation, Destroy, ReuseInv, TypeOK
  <2>3. QED
      BY <1>7, <1>a, <2>1, <2>2, Unclaimed DEF EndSession, BeginRotation
<1>8. ASSUME NEW r \in Request, EndRotation(r)
      PROVE  Simulated
  <2>1. PICK k \in Fresh(Session) :
            Save(Session, k, SessionPayload(task[r].uid)) /\ Draw(Session, k)
      BY <1>8 DEF EndRotation
  <2>2. ~Claiming(task[r])
      BY <1>8 DEF EndRotation, Claiming
  <2>3. /\ docs'[AccessToken] = docs[AccessToken]
        /\ docs'[AuthorizationCode] = docs[AuthorizationCode]
        /\ drawn'[AuthorizationCode] = drawn[AuthorizationCode]
      BY <1>b, <2>1, OtherSaved, OtherSavedCodes, OtherDrawnCodes, OtherCollections DEF ReuseInv
  <2>4. QED
      BY <1>8, <1>a, <2>2, <2>3, Unclaimed DEF EndRotation
<1>9. ASSUME NEW r \in Request, ConsumeCode(r)
      PROVE  Simulated
    BY <1>9, Consumed
<1>10. ASSUME NEW r \in Request, SaveToken(r)
       PROVE  Simulated
    BY <1>10, Redeemed
<1>11. ASSUME NEW r \in Request, NEW c \in Collection, Revoke(r, c)
       PROVE  Simulated
  <2>1. CodesKept /\ Tokens' \subseteq Tokens
      BY <1>11, BothThinned DEF Revoke, ReuseInv
  <2> DEFINE t == [task[r] EXCEPT !.todo = @ \ {c},
                                  !.step = IF task[r].todo = {c} THEN "revoked" ELSE "revoke"]
  <2>2. Become(r, t) /\ ~Claiming(t)
    <3>1. task[r] \in Task
        BY <1>11 DEF Revoke, ReuseInv, TypeOK
    <3>2. t.step \in {"revoke", "revoked"}
        BY <3>1 DEF Task
    <3>3. QED
        BY <1>11, <3>2 DEF Revoke, Claiming
  <2>3. ~Claiming(task[r])
      BY <1>11 DEF Revoke, Claiming
  <2>4. QED
      BY <2>1, <2>2, <2>3, NoClaim, Ended DEF ReuseInv
<1>12. ASSUME NEW r \in Request, End(r)
       PROVE  Simulated
  <2>1. task'[r] = None /\ \A q \in Request \ {r} : task'[q] = task[q]
      BY <1>12 DEF End, Become, ReuseInv, TypeOK
  <2>2. QED
      BY <1>12, <2>1, Withdrawn DEF End
<1>13. CASE Database
  <2>1. CASE docs' = docs
      BY <1>13, <2>1, CodesAlone, TokensNotMore, Ended DEF Database
  <2>2. ASSUME NEW c \in Collection, RemoveExpired(c) PROVE Simulated
      BY <1>13, <2>2, BothThinned, Ended DEF Database, ReuseInv
  <2>3. QED
      BY <1>13, <2>1, <2>2 DEF Database, DatabaseStep, FinishIndexes, FailIndexes, Tick
<1>14. CASE Restart
    BY <1>14, Withdrawn DEF Restart, Forget
<1>15. CASE UNCHANGED vars
    BY <1>15, CodesAlone, TokensNotMore, Ended DEF vars
<1>16. QED
    BY <1>1, <1>2, <1>3, <1>4, <1>5, <1>6, <1>7, <1>8, <1>9, <1>10, <1>11, <1>12, <1>13,
       <1>14, <1>15 DEF Next

LEMMA ExchangeInit == Init => CodesInv /\ Exchange!Init
<1>1. ASSUME Init PROVE CodesInv
    BY <1>1, OtherCollections DEF Init, StoreInit, CodesInv, Claiming
<1>2. ASSUME Init PROVE Exchange!Init
    BY <1>2, OtherCollections DEF Init, StoreInit, Exchange!Init, OpenCodes, Exists
<1>3. QED
    BY <1>1, <1>2

(* Codes are exchanged as CodeExchange says, for any number of requests,   *)
(* codes and tokens (mongodb.adapter.ts 66-133).                           *)
THEOREM ExchangeImplemented == Spec => ImplementsExchange
<1>1. ReuseInv /\ CodesInv /\ [Next]_vars => CodesInv' /\ [Exchange!Next]_(Exchange!vars)
    BY SimulatedStep DEF Simulated
<1>2. Spec => [](ReuseInv /\ CodesInv)
  <2>1. Init => ReuseInv /\ CodesInv
      BY ReuseInit, ExchangeInit
  <2>2. ReuseInv /\ CodesInv /\ [Next]_vars => (ReuseInv /\ CodesInv)'
      BY <1>1, ReuseStep
  <2>3. QED
      BY <2>1, <2>2, PTL DEF Spec
<1>3. QED
    BY <1>1, <1>2, ExchangeInit, PTL DEF Spec, ImplementsExchange, Exchange!Spec

-----------------------------------------------------------------------------
(* Expiry.                                                                 *)

(* A date is never before the time its last save promised, unless that     *)
(* time is over.                                                           *)
Promised(c, k) ==
    docs[c][k] # None /\ docs[c][k].expiresAt # None =>
        promised[c][k] <= docs[c][k].expiresAt \/ promised[c][k] <= now

DateInv ==
    /\ TypeOK
    /\ \A c \in Collection, k \in Key : Promised(c, k)

DatesKept ==
    \A c \in Collection, k \in Key : docs'[c][k] # None =>
        docs[c][k] # None /\ docs'[c][k].expiresAt = docs[c][k].expiresAt

LEMMA DatesKeptInv ==
    ASSUME DateInv, TypeOK', DatesKept, promised' = promised, now' \in {now, now + 1}
    PROVE  DateInv'
<1>1. ASSUME NEW c \in Collection, NEW k \in Key, docs'[c][k] # None,
             docs'[c][k].expiresAt # None
      PROVE  promised'[c][k] <= docs'[c][k].expiresAt \/ promised'[c][k] <= now'
  <2>1. docs[c][k] # None /\ docs'[c][k].expiresAt = docs[c][k].expiresAt
      BY <1>1 DEF DatesKept
  <2>2. Promised(c, k) /\ now \in Nat /\ promised[c][k] \in Nat
      BY DEF DateInv, TypeOK
  <2>3. QED
      BY <1>1, <2>1, <2>2 DEF Promised
<1>2. QED
    BY <1>1 DEF DateInv, Promised

LEMMA SaveDates ==
    ASSUME DateInv, TypeOK', NEW c \in Collection, NEW k \in Key, NEW p, Save(c, k, p),
           now' = now
    PROVE  DateInv'
<1>1. PICK e \in Lifetime[c] :
          /\ docs' = [docs EXCEPT ![c] = [docs[c] EXCEPT ![k] = Dated(c, k, p, e)]]
          /\ promised' = [promised EXCEPT ![c] = [promised[c] EXCEPT ![k] = now + e]]
    BY SaveDated DEF DateInv
<1>2. Promised(c, k)'
  <2>1. docs'[c][k].expiresAt = IF e # 0 THEN now + e
                                ELSE IF Exists(c, k) THEN docs[c][k].expiresAt ELSE None
      BY <1>1 DEF DateInv, TypeOK, Dated
  <2>2. promised'[c][k] = now + e /\ now \in Nat /\ now' = now /\ e \in Nat
      BY <1>1, RequestsAssumption DEF DateInv, TypeOK
  <2>3. CASE e = 0
      BY <2>2, <2>3 DEF Promised
  <2>4. CASE e # 0
      BY <2>1, <2>2, <2>4 DEF Promised
  <2>5. QED
      BY <2>3, <2>4
<1>3. ASSUME NEW d \in Collection, NEW l \in Key, ~(d = c /\ l = k) PROVE Promised(d, l)'
  <2>1. docs'[d][l] = docs[d][l] /\ promised'[d][l] = promised[d][l]
      BY <1>1, <1>3 DEF DateInv, TypeOK
  <2>2. QED
      BY <2>1 DEF DateInv, Promised
<1>4. QED
    BY <1>2, <1>3 DEF DateInv

(* What is no save keeps the dates.                                        *)
LEMMA OthersKeepDates ==
    ASSUME TypeOK,
           \/ docs' = docs
           \/ \E k : docs' = Destroy(Session, k)
           \/ \E c \in Collection : \E k \in Key : docs' = Consume(c, k)
           \/ \E c \in Collection : \E g : docs' = RevokeByGrantId(c, g)
           \/ \E c \in Collection : RemoveExpired(c)
    PROVE  DatesKept
<1>1. ASSUME NEW k, docs' = Destroy(Session, k) PROVE DatesKept
    BY <1>1 DEF TypeOK, Destroy, DatesKept
<1>2. ASSUME NEW c \in Collection, NEW k \in Key, docs' = Consume(c, k) PROVE DatesKept
  <2>1. CASE ~Exists(c, k)
      BY <1>2, <2>1 DEF Consume, DatesKept
  <2>2. CASE Exists(c, k)
    <3>1. docs' = [docs EXCEPT ![c][k].payload.consumed = TRUE]
        BY <1>2, <2>2 DEF Consume
    <3>2. docs'[c][k] = [docs[c][k] EXCEPT !.payload.consumed = TRUE]
        BY <3>1 DEF TypeOK
    <3>3. docs[c][k] \in Document
        BY <2>2, DocumentType
    <3>4. docs'[c][k].expiresAt = docs[c][k].expiresAt
        BY <3>2, <3>3 DEF Document
    <3>5. \A d \in Collection, l \in Key : ~(d = c /\ l = k) => docs'[d][l] = docs[d][l]
        BY <3>1 DEF TypeOK
    <3>6. QED
        BY <2>2, <3>4, <3>5 DEF Exists, DatesKept
  <2>3. QED
      BY <2>1, <2>2
<1>3. ASSUME NEW c \in Collection, NEW g, docs' = RevokeByGrantId(c, g) PROVE DatesKept
    BY <1>3 DEF TypeOK, RevokeByGrantId, DatesKept
<1>4. ASSUME NEW c \in Collection, RemoveExpired(c) PROVE DatesKept
    BY <1>4 DEF TypeOK, RemoveExpired, DatesKept
<1>5. QED
    BY <1>1, <1>2, <1>3, <1>4 DEF DatesKept

LEMMA DateStep == DateInv /\ [Next]_vars => DateInv'
<1> SUFFICES ASSUME DateInv, [Next]_vars
             PROVE  DateInv'
    OBVIOUS
<1> USE DEF OtherStore, storeVars
<1>0. TypeOK /\ TypeOK'
    BY TypeStep DEF DateInv
<1>1. CASE docs' = docs /\ promised' = promised /\ now' \in {now, now + 1}
    BY <1>0, <1>1, OthersKeepDates, DatesKeptInv
<1>2. CASE StartSession \/ IssueCode
    BY <1>0, <1>2, FreshKey, OtherCollections, SaveDates DEF StartSession, IssueCode
<1>3. ASSUME NEW r \in Request, SaveSession(r) \/ EndRotation(r) \/ SaveToken(r)
      PROVE  DateInv'
  <2>1. task[r].key \in Key
      BY <1>0, <1>3 DEF SaveSession, EndRotation, SaveToken, TypeOK, Task
  <2>2. QED
      BY <1>0, <1>3, <2>1, FreshKey, OtherCollections, SaveDates
         DEF SaveSession, EndRotation, SaveToken
<1>4. ASSUME NEW r \in Request, EndSession(r) \/ BeginRotation(r)
      PROVE  DateInv'
    BY <1>0, <1>4, OthersKeepDates, DatesKeptInv DEF EndSession, BeginRotation
<1>5. ASSUME NEW r \in Request, ConsumeCode(r)
      PROVE  DateInv'
  <2>1. task[r].key \in Key
      BY <1>0, <1>5 DEF ConsumeCode, TypeOK, Task
  <2>2. QED
      BY <1>0, <1>5, <2>1, OtherCollections, OthersKeepDates, DatesKeptInv DEF ConsumeCode
<1>6. ASSUME NEW r \in Request, NEW c \in Collection, Revoke(r, c)
      PROVE  DateInv'
    BY <1>0, <1>6, OthersKeepDates, DatesKeptInv DEF Revoke
<1>7. CASE Database
  <2>1. ASSUME NEW c \in Collection, RemoveExpired(c) PROVE DateInv'
    <3>1. promised' = promised /\ now' = now
        BY <1>7, <2>1 DEF Database, RemoveExpired
    <3>2. QED
        BY <1>0, <2>1, <3>1, OthersKeepDates, DatesKeptInv
  <2>2. QED
      BY <1>1, <1>7, <2>1 DEF Database, DatabaseStep, FinishIndexes, FailIndexes, Tick
<1>8. QED
    BY <1>1, <1>2, <1>3, <1>4, <1>5, <1>6, <1>7
       DEF Next, vars, Obtain, LoadSession, FindCode, End, Restart, Forget

(* The monitor removes nothing before the time its last save gave it       *)
(* (mongodb.adapter.ts 66-77).                                             *)
THEOREM LivesItsTimeCorrect == Spec => LivesItsTime
<1>1. Init => DateInv
    BY TypeInit DEF Init, StoreInit, DateInv, Promised
<1>2. DateInv /\ [Next]_vars =>
          [\A c \in Collection, k \in Key :
              RemoveExpired(c) /\ Exists(c, k) /\ ~Exists(c, k)' =>
                  promised[c][k] <= now]_vars
  <2> SUFFICES ASSUME DateInv, NEW c \in Collection, NEW k \in Key,
                      RemoveExpired(c), Exists(c, k), ~Exists(c, k)'
               PROVE  promised[c][k] <= now
      OBVIOUS
  <2>1. docs'[c][k] = IF Expired(c, k) THEN None ELSE docs[c][k]
      BY DEF DateInv, TypeOK, RemoveExpired
  <2>2. Expired(c, k)
      BY <2>1 DEF Exists
  <2>3. /\ now \in Nat /\ promised[c][k] \in Nat
        /\ docs[c][k].expiresAt \in Nat /\ docs[c][k].expiresAt <= now
    <3>1. docs[c][k] \in Document
        BY DocumentType DEF DateInv
    <3>2. QED
        BY <2>2, <3>1 DEF Expired, Document, DateInv, TypeOK
  <2>4. Promised(c, k) /\ docs[c][k] # None /\ docs[c][k].expiresAt # None
      BY <2>2 DEF Expired, Exists, DateInv
  <2>5. QED
      BY <2>3, <2>4 DEF Promised
<1>3. QED
    BY <1>1, <1>2, DateStep, PTL DEF Spec, LivesItsTime
=============================================================================
