------------------------------ MODULE Requests ------------------------------
(***************************************************************************)
(* Requests the provider handles at the same time, as far as they read and *)
(* write documents through the adapter: sessions that are loaded and then  *)
(* saved, given a new identifier or ended, and codes that are redeemed,    *)
(* once or again.  The library makes these calls (external); between two   *)
(* of them other requests run, documents expire, the database fails or the *)
(* process is restarted.                                                   *)
(***************************************************************************)
EXTENDS Store

CONSTANTS
    Request,   \* slots for requests that stand at an await
    KeyFor,    \* bound: tables of the identifiers to draw for each collection, of
               \* which a behaviour keeps to one
    Lifetime   \* Lifetime[c]: the seconds to live that saves to c may give

VARIABLES
    task,      \* what the request of each slot holds, None for a free slot
    drawn,     \* history: the identifiers drawn for each collection
    usedUid,   \* history: the session uids drawn
    shared,    \* history: those of them two requests held at the same time
    promised   \* history: the time each document was last promised to live to

uids == <<usedUid, shared>>

vars == <<docs, index, collections, adapters, now, task, drawn, uids, promised>>

Session == "session"
AuthorizationCode == "authorization_code"
AccessToken == "access_token"

(* What a request holds between two calls of the adapter: the identifier   *)
(* and the uid or grant it read, and when it revokes a grant the           *)
(* collections still to do; owed is history: the tokens of the grant that  *)
(* were in force when the reuse was found.                                 *)
Task == [step  : {"loaded", "rotating", "consume", "save", "revoke", "revoked"},
         key   : Key,
         uid   : Uid \cup {None},
         grant : Grant \cup {None},
         todo  : SUBSET Collection,
         owed  : SUBSET Key]

ASSUME RequestsAssumption ==
    /\ {Session, AuthorizationCode, AccessToken} \subseteq Collection
    /\ KeyFor \subseteq [Collection -> SUBSET Key]
    /\ Lifetime \in [Collection -> SUBSET Nat]
    /\ None \notin Task

(* A collection is used through an adapter.                                *)
Ready(c) == \E n \in adapters : SnakeCase[n] = c

(* Identifiers are random and only compared, so any one not drawn yet.     *)
Undrawn(c) ==
    UNION {t[c] \ drawn[c] : t \in {u \in KeyFor : \A d \in Collection : drawn[d] \subseteq u[d]}}

Fresh(c) == {k \in Undrawn(c) : k = CHOOSE l \in Undrawn(c) : TRUE}

(* Identifiers of deleted documents are not drawn again.                   *)
Draw(c, k) == drawn' = [drawn EXCEPT ![c] = @ \cup {k}]

SaveFor(e, c, k, payload) ==
    /\ now + e <= MaxTime
    /\ Accepts(c, Upsert(c, k, payload, e))
    /\ docs' = Upsert(c, k, payload, e)
    /\ promised' = [promised EXCEPT ![c][k] = now + e]

(* The time to live is what is left of it, so it may have run down to zero. *)
Save(c, k, payload) == Ready(c) /\ \E e \in Lifetime[c] : SaveFor(e, c, k, payload)

Become(r, t) == task' = [task EXCEPT ![r] = t]

OtherStore == <<index, collections, adapters, now>>

-----------------------------------------------------------------------------
(* The library constructs the adapter of a model on its first use; here    *)
(* all of them together, since indexes asked for later are for a request   *)
(* no different from indexes that take longer to build.                    *)
Obtain ==
    /\ CreateIfNotExists(Name)
    /\ UNCHANGED <<docs, now, task, drawn, uids, promised>>

(* Sessions. *)
SessionPayload(u) == [grantId |-> None, uid |-> u, consumed |-> FALSE]

StartSession ==
    \E k \in Fresh(Session), u \in Uid \ usedUid :
        /\ Save(Session, k, SessionPayload(u))
        /\ Draw(Session, k)
        /\ usedUid' = usedUid \cup {u}
        /\ UNCHANGED <<OtherStore, task, shared>>

Loaded(k) == [step |-> "loaded", key |-> k, uid |-> docs[Session][k].payload.uid,
              grant |-> None, todo |-> {}, owed |-> {}]

(* The uids of the sessions that requests hold.                            *)
Held == {task[q].uid : q \in {p \in Request : task[p] # None}} \cap Uid

LoadSession(r, k) ==
    /\ Ready(Session)
    /\ task[r] = None
    /\ Exists(Session, k)
    /\ Become(r, Loaded(k))
    /\ shared' = shared \cup {u \in Held : u = docs[Session][k].payload.uid}
    /\ UNCHANGED <<storeVars, drawn, usedUid, promised>>

(* At the end of the request the session is saved under its identifier,    *)
(* which inserts it again when another request has ended it meanwhile.     *)
SaveSession(r) ==
    /\ task[r] # None /\ task[r].step = "loaded"
    /\ Save(Session, task[r].key, SessionPayload(task[r].uid))
    /\ Become(r, None)
    /\ UNCHANGED <<OtherStore, drawn, uids>>

EndSession(r) ==
    /\ task[r] # None /\ task[r].step = "loaded"
    /\ Ready(Session)
    /\ docs' = Destroy(Session, task[r].key)
    /\ Become(r, None)
    /\ UNCHANGED <<OtherStore, drawn, uids, promised>>

(* A login gives the session a new identifier and keeps its uid: the old   *)
(* document is destroyed before the new one is saved.                      *)
BeginRotation(r) ==
    /\ task[r] # None /\ task[r].step = "loaded"
    /\ Ready(Session)
    /\ docs' = Destroy(Session, task[r].key)
    /\ Become(r, [task[r] EXCEPT !.step = "rotating"])
    /\ UNCHANGED <<OtherStore, drawn, uids, promised>>

EndRotation(r) ==
    /\ task[r] # None /\ task[r].step = "rotating"
    /\ \E k \in Fresh(Session) :
        /\ Save(Session, k, SessionPayload(task[r].uid))
        /\ Draw(Session, k)
    /\ Become(r, None)
    /\ UNCHANGED <<OtherStore, uids>>

-----------------------------------------------------------------------------
(* Codes. *)
GrantPayload(g) == [grantId |-> g, uid |-> None, consumed |-> FALSE]

IssueCode ==
    \E k \in Fresh(AuthorizationCode), g \in Grant :
        /\ Save(AuthorizationCode, k, GrantPayload(g))
        /\ Draw(AuthorizationCode, k)
        /\ UNCHANGED <<OtherStore, task, uids>>

TokensOf(g) == FindByParam(AccessToken, "grantId", g)

(* A code found consumed is being used again: the library revokes the      *)
(* whole grant, in each collection that holds documents of grants.         *)
FoundCode(k) ==
    LET code == docs[AuthorizationCode][k].payload
    IN  [step  |-> IF code.consumed THEN "revoke" ELSE "consume",
         key   |-> k,
         uid   |-> None,
         grant |-> code.grantId,
         todo  |-> IF code.consumed THEN Collection \cap grantable ELSE {},
         owed  |-> IF code.consumed THEN TokensOf(code.grantId) ELSE {}]

FindCode(r, k) ==
    /\ Ready(AuthorizationCode)
    /\ task[r] = None
    /\ Exists(AuthorizationCode, k) /\ ~Expired(AuthorizationCode, k)
    /\ Become(r, FoundCode(k))
    /\ UNCHANGED <<storeVars, drawn, uids, promised>>

ConsumeCode(r) ==
    /\ task[r] # None /\ task[r].step = "consume"
    /\ docs' = Consume(AuthorizationCode, task[r].key)
    /\ Become(r, [task[r] EXCEPT !.step = "save"])
    /\ UNCHANGED <<OtherStore, drawn, uids, promised>>

SaveToken(r) ==
    /\ task[r] # None /\ task[r].step = "save"
    /\ \E k \in Fresh(AccessToken) :
        /\ Save(AccessToken, k, GrantPayload(task[r].grant))
        /\ Draw(AccessToken, k)
    /\ Become(r, None)
    /\ UNCHANGED <<OtherStore, uids>>

(* The collections are revoked side by side, in any order.                 *)
Revoke(r, c) ==
    /\ task[r] # None /\ task[r].step = "revoke"
    /\ c \in task[r].todo /\ Ready(c)
    /\ docs' = RevokeByGrantId(c, task[r].grant)
    /\ Become(r, [task[r] EXCEPT !.todo = @ \ {c},
                                 !.step = IF task[r].todo = {c} THEN "revoked" ELSE "revoke"])
    /\ UNCHANGED <<OtherStore, drawn, uids, promised>>

(* invalid_grant, after a revocation; or the database rejects a call, a    *)
(* unique index among its reasons, and the request ends with an error.     *)
End(r) ==
    /\ task[r] # None
    /\ Become(r, None)
    /\ UNCHANGED <<storeVars, drawn, uids, promised>>

-----------------------------------------------------------------------------
Database == DatabaseStep /\ UNCHANGED <<task, drawn, uids, promised>>

Restart ==
    /\ Forget
    /\ task' = [r \in Request |-> None]
    /\ UNCHANGED <<drawn, uids, promised>>

Init ==
    /\ StoreInit
    /\ task = [r \in Request |-> None]
    /\ drawn = [c \in Collection |-> {}]
    /\ usedUid = {}
    /\ shared = {}
    /\ promised = [c \in Collection |-> [k \in Key |-> 0]]

Next ==
    \/ Obtain \/ StartSession \/ IssueCode
    \/ \E r \in Request :
        \/ \E k \in Key : LoadSession(r, k) \/ FindCode(r, k)
        \/ SaveSession(r) \/ EndSession(r) \/ BeginRotation(r) \/ EndRotation(r)
        \/ ConsumeCode(r) \/ SaveToken(r) \/ \E c \in Collection : Revoke(r, c)
        \/ End(r)
    \/ Database
    \/ Restart

Spec == Init /\ [][Next]_vars
=============================================================================
