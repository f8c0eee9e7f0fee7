------------------------- MODULE RequestsProperties -------------------------
(***************************************************************************)
(* What is checked about Requests and the Store under it.                  *)
(***************************************************************************)
EXTENDS Requests

(* The type invariant.                                                     *)
TypeOK ==
    /\ docs \in [Collection -> [Key -> Document \cup {None}]]
    /\ index \in [Collection -> IndexState]
    /\ collections \subseteq Collection
    /\ adapters \subseteq Name
    /\ now \in Nat
    /\ task \in [Request -> Task \cup {None}]
    /\ drawn \in [Collection -> SUBSET Key]
    /\ usedUid \subseteq Uid
    /\ shared \subseteq Uid
    /\ promised \in [Collection -> [Key -> Nat]]

(* Session.findByUid (controller.ts 199, account.ts 72) has no order, so   *)
(* which session it finds is certain only if there is one.  The unique     *)
(* index does not see to that while it is built or when it could not be;   *)
(* what does is that saves go by the identifier and a rotation destroys    *)
(* the old document before it saves the new one.  So a uid has one         *)
(* document at most, index or not, unless two requests held its session at *)
(* the same time.  (mongodb.adapter.ts 66-77, 100-108, 120-122.)           *)
UidUniqueUnlessShared ==
    \A u \in Uid \ shared : \A k, l \in FindByParam(Session, "uid", u) : k = l

(* A document that was destroyed, revoked or removed comes back only if it *)
(* is a session, and only through a request that read it before: upsert    *)
(* inserts, consume does not.  (mongodb.adapter.ts 73-77, 129-132.)        *)
GoneStaysGone ==
    [][\A c \in Collection, k \in Key :
          k \in drawn[c] /\ ~Exists(c, k) /\ Exists(c, k)' =>
              c = Session /\ \E r \in Request : task[r] # None /\ task[r].key = k]_vars

(* The database never removes a document before the time the last save     *)
(* gave it, although a save with a zero leaves the date as it was, and     *)
(* although the save may have inserted a document that was removed before. *)
(* (mongodb.adapter.ts 66-77.)                                             *)
LivesItsTime ==
    [][\A c \in Collection, k \in Key :
          RemoveExpired(c) /\ Exists(c, k) /\ ~Exists(c, k)' =>
              promised[c][k] <= now]_vars

(* When a reuse was answered, none of the tokens the grant had when it was *)
(* found is left: revokeByGrantId takes all of them in every collection.   *)
(* (mongodb.adapter.ts 124-126.)                                           *)
ReuseRevokes ==
    \A r \in Request : task[r] # None /\ task[r].step = "revoked" =>
        \A k \in task[r].owed : ~Exists(AccessToken, k)

(* The promise to relying parties: Requests implements CodeExchange.  A    *)
(* code is open while its document is there and not consumed, and a        *)
(* request has a claim from the find that showed it so to its end.         *)
OpenCodes == {k \in Key : Exists(AuthorizationCode, k)
                              /\ ~docs[AuthorizationCode][k].payload.consumed}

Exchange == INSTANCE CodeExchange WITH
    Code    <- Key,
    Token   <- Key,
    offered <- drawn[AuthorizationCode],
    open    <- OpenCodes,
    claim   <- [r \in Request |-> IF task[r] # None /\ task[r].step \in {"consume", "save"}
                                  THEN task[r].key ELSE None],
    tokens  <- {k \in Key : Exists(AccessToken, k)}

ImplementsExchange == Exchange!Spec

(* What has expired is removed in the end, unless the indexes could not be *)
(* built.  The database builds what it was asked to, tells how that ended, *)
(* and runs its monitor; Maintain is one of its steps on a collection.     *)
(* (mongodb.adapter.ts 41-45.)                                             *)
Maintain(c) ==
    /\ RemoveExpired(c) \/ FinishIndexes(c) \/ FailIndexes(c)
    /\ UNCHANGED <<task, drawn, uids, promised>>

FairSpec == Spec /\ \A c \in Collection : WF_vars(Maintain(c))

ExpiredRemoved ==
    \A c \in Collection :
        (\E k \in Key : Expired(c, k))
            ~> (\A k \in Key : ~Expired(c, k)) \/ index[c] = "failed"
=============================================================================
