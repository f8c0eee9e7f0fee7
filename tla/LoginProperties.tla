--------------------------- MODULE LoginProperties ---------------------------
(***************************************************************************)
(* What is checked, and partly proved, about Login.                        *)
(***************************************************************************)
EXTENDS Login

CONSTANTS
    Essential,  \* the scope words a wallet user may not refuse: vce:...
    Answers     \* Answers[v]: the scope words credential v is an answer to

ASSUME EssentialAssumption ==
    /\ Essential \subseteq ScopeValue
    /\ Answers \in [Credential -> SUBSET ScopeValue]

(* The type invariant.                                                     *)
TypeOK ==
    /\ session \in [SessionUid -> Session \cup {None}]
    /\ cookie \in [Browser -> SessionUid \cup {None}]
    /\ interaction \in [InteractionUid -> Interaction \cup {None}]
    /\ request \in [Request -> Handling \cup {None}]
    /\ code \subseteq Code
    /\ token \in Token \cup {None}
    /\ spent \subseteq SessionUid \cup InteractionUid
    /\ disclosed \subseteq Disclosure
    /\ verified \subseteq Credential

-----------------------------------------------------------------------------
(* Safety.                                                                 *)

(* Every stored claims object, wherever it travels between the login       *)
(* handler and an id_token.                                                *)
StoredClaims ==
    {d.claims : d \in disclosed}
        \cup {t.claims : t \in {token} \ {None}}
        \cup ((UNION {{session[u].meta[c][s] : c \in Client, s \in Scope} :
                          u \in {x \in SessionUid : session[x] # None}}) \ {None})

(* A relying party reads trusted as: the credential service vouched for    *)
(* this credential, and it is about the wallet user that disclosed it.     *)
(* (controller.ts 164-187, kept through the session and findAccount.)      *)
Sorted(sub, trusted) == \A v \in trusted : v \in verified /\ SubjectOf[v] = sub

CredentialsSorted == \A claims \in StoredClaims : Sorted(claims.sub, claims.trusted)

(* Half way through the loop too: every credential of the presentation is  *)
(* still to verify or in one of the two lists, and no post goes past the   *)
(* loop with a credential left (controller.ts 164-204).                    *)
PostSorted(q) ==
    /\ q.trusted \cup q.untrusted \cup Range(q.todo) = q.presented
    /\ Sorted(q.iss, q.trusted)
    /\ q.previous # None => q.todo = <<>>

PostsSorted == \A r \in Request : request[r] # None => PostSorted(request[r])

(* The provider keeps the promises of Issuance: no interleaving of logins, *)
(* aborts, account switches, expiries and silent authorizations produces a *)
(* token whose claims were not disclosed to its client for its scope, or   *)
(* whose subject never answered that client for one of its words.          *)
Abstract == INSTANCE Issuance WITH
    Client <- Client, Account <- Account, Scope <- Scope, ScopeValue <- ScopeValue,
    ValuesOf <- ValuesOf, Credential <- Credential, None <- None,
    disclosed <- disclosed, token <- token

ImplementsIssuance == Abstract!Spec

(* Why the provider keeps them: everything on the way from the handler to  *)
(* the token endpoint stays with the client and the scope it was disclosed *)
(* for, and every grant with the user who gave it.                         *)
BackedMeta(c, meta) == \A s \in Scope : meta[s] # None => Abstract!Backed(c, s, meta[s])

(* Session documents: the metadata Resume stores and ReadSession reads.    *)
SessionTraced ==
    \A u \in SessionUid : session[u] # None =>
        \A c \in Client :
            /\ BackedMeta(c, session[u].meta[c])
            /\ session[u].granted[c] \subseteq Abstract!Consented(c, session[u].account)

(* Nobody granted anything in a session without an account.                *)
AnonymousEmpty ==
    \A u \in SessionUid : session[u] # None /\ session[u].account = None =>
        \A c \in Client : session[u].granted[c] = {}

(* Interaction identifiers are not drawn twice, so a post that is still    *)
(* being handled finds its own interaction or none.                        *)
PostTraced(q) ==
    /\ q.previous # None => BackedMeta(q.details.client, q.previous)
    /\ q.uid \in spent
    /\ interaction[q.uid] # None =>
           /\ interaction[q.uid].client = q.details.client
           /\ interaction[q.uid].scope = q.details.scope

RequestTraced == \A r \in Request : request[r] # None => PostTraced(request[r])

(* Interactions: the result of a login, stored until the browser resumes.  *)
ResultTraced(n) ==
    n.result \in LoginResult =>
        /\ BackedMeta(n.client, n.result.meta)
        /\ ValuesOf[n.scope] \subseteq Abstract!Consented(n.client, n.result.account)

InteractionTraced ==
    \A i \in InteractionUid : interaction[i] # None =>
        i \in spent /\ ResultTraced(interaction[i])

(* Codes waiting to be redeemed.                                           *)
CodeTraced ==
    \A k \in code : ValuesOf[k.scope] \subseteq Abstract!Consented(k.client, k.account)

ClaimsTraced ==
    SessionTraced /\ AnonymousEmpty /\ RequestTraced /\ InteractionTraced /\ CodeTraced

(* What a session remembers of one client's disclosures, it remembers      *)
(* until it ends: a later login adds to the metadata, the spread of        *)
(* previousMeta at controller.ts 228-231 being there for that.             *)
ClaimsKept ==
    [][\A u \in SessionUid : session[u] # None /\ session'[u] # None =>
          \A c \in Client, s \in Scope :
              session[u].meta[c][s] # None => session'[u].meta[c][s] # None]_vars

(* A code issued by a session that still lives can be redeemed:            *)
(* findAccount finds an account (account.ts 64-93).                        *)
CodeRedeemable == \A k \in code : session[k.session] # None => FindAccount(k) # None

(* The claims of an id_token are claims of the user it names.              *)
ClaimsOfSubject == token # None => token.claims.sub = token.sub

(* Each essential word of a token's scope is answered by a credential the  *)
(* provider trusts.                                                        *)
EssentialProvided ==
    token # None =>
        \A w \in ValuesOf[token.scope] \cap Essential :
            \E v \in token.claims.trusted : w \in Answers[v]

-----------------------------------------------------------------------------
(* Liveness.                                                               *)

(* A login post is answered in the end, whatever the VC service does with  *)
(* each credential.                                                        *)
RequestAnswered == \A r \in Request : request[r] # None ~> request[r] = None
=============================================================================
