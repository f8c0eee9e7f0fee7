-------------------------------- MODULE Login --------------------------------
(***************************************************************************)
(* The login-and-consent interaction of the OpenID Provider.               *)
(*                                                                         *)
(* A relying party sends a browser to the authorization endpoint.  When    *)
(* the interaction policy asks for it, the provider opens an interaction,  *)
(* the wallet discloses a verifiable presentation, and the login handler   *)
(* (routes/interaction/controller.ts) sorts the presented credentials,     *)
(* reads what the session already holds for the client, and finishes the   *)
(* interaction with a result.  Resuming the interaction copies the result  *)
(* into the session and issues an authorization code; redeeming the code   *)
(* calls findAccount (account/account.ts), which looks the disclosed       *)
(* claims up in the session under the text of the code's scope.            *)
(*                                                                         *)
(* Every await of the handler ends a step here, so that other requests run *)
(* in between.  The actions marked external stand for the oidc-provider    *)
(* library and for browsers, as far as the code relies on them.            *)
(***************************************************************************)
EXTENDS Naturals, FiniteSets, Sequences, Functions

CONSTANTS
    Browser,         \* user agents, each with one session cookie
    Client,          \* relying parties
    Account,         \* DIDs of wallet users
    Scope,           \* scope parameters, each the exact text a client sends
    ScopeValue,      \* the words of those texts: openid, vc:x, vce:x ...
    ValuesOf,        \* ValuesOf[s]: the words of the scope text s
    Credential,      \* verifiable credentials (JWTs)
    SubjectOf,       \* SubjectOf[v]: the DID in the sub field of credential v
    Malformed,       \* the credentials decodeJWT throws on
    Presentation,    \* the credential lists a wallet may disclose
    SessionUid,      \* bound: session identifiers the provider can draw
    InteractionUid,  \* bound: interaction identifiers the provider can draw
    Request,         \* bound: login posts being handled at the same time
    MaxOpen,         \* bound: interactions one client has open at the same time
    MaxCode,         \* bound: no silent authorization while this many codes wait
    MaxDisclosed,    \* bound: no further post once this many presentations are recorded
    None,            \* the undefined of the code
    Denied           \* the access_denied result of an aborted interaction

(* What loginAndConsent stores for one scope: controller.ts calls it       *)
(* claims and writes it base64-encoded into the session's metadata.        *)
Claims == [sub : Account, trusted : SUBSET Credential, untrusted : SUBSET Credential]

(* The metadata of one client in one session, keyed by scope text.         *)
Meta == [Scope -> Claims \cup {None}]

Session == [account : Account \cup {None},
            granted : [Client -> SUBSET ScopeValue],
            meta    : [Client -> Meta]]

LoginResult == [account : Account, meta : Meta]

Interaction == [browser : Browser, client : Client, scope : Scope,
                session : SessionUid \cup {None},
                result  : LoginResult \cup {None, Denied}]

(* A login post between two awaits.  details is what interactionDetails    *)
(* returned; todo the credentials the loop has still to verify; previous   *)
(* is None until the session was read.                                     *)
Handling == [uid       : InteractionUid,
             details   : [client : Client, scope : Scope, session : SessionUid \cup {None}],
             iss       : Account,
             presented : SUBSET Credential,
             todo      : Seq(Credential),
             trusted   : SUBSET Credential,
             untrusted : SUBSET Credential,
             previous  : Meta \cup {None}]

Code == [session : SessionUid, client : Client, scope : Scope, account : Account]

Token == [client : Client, scope : Scope, sub : Account, claims : Claims]

Disclosure == [client : Client, scope : Scope, claims : Claims, presented : SUBSET Credential]

ASSUME ConstantsAssumption ==
    /\ ValuesOf \in [Scope -> SUBSET ScopeValue]
    /\ SubjectOf \in [Credential -> Account]
    /\ Malformed \subseteq Credential
    /\ Presentation \subseteq Seq(Credential)
    /\ MaxOpen \in Nat
    /\ MaxCode \in Nat
    /\ MaxDisclosed \in Nat

ASSUME NoneAssumption ==
    /\ None \notin Account \cup SessionUid
    /\ None \notin Claims
    /\ None \notin Meta
    /\ None \notin Session
    /\ None \notin Interaction
    /\ None \notin Handling
    /\ {None, Denied} \cap LoginResult = {}
    /\ None \notin Token
    /\ None # Denied

VARIABLES
    session,      \* the session collection: by uid, None when there is no document
    cookie,       \* the session uid in each browser's cookie
    interaction,  \* the interaction collection, None when there is no document
    request,      \* the login posts being handled, None for a free slot
    code,         \* authorization codes not redeemed yet
    token,        \* the last id_token issued, None before the first
    spent,        \* session and interaction identifiers drawn so far
    disclosed,    \* history: every presentation a finished login recorded
    verified      \* history: credentials the VC service answered status 0 for

vars == <<session, cookie, interaction, request, code, token, spent, disclosed, verified>>

-----------------------------------------------------------------------------

EmptyMeta == [s \in Scope |-> None]

NewSession == [account |-> None,
               granted |-> [c \in Client |-> {}],
               meta    |-> [c \in Client |-> EmptyMeta]]

(* The session document a browser's cookie leads to, as a set of uids.     *)
SessionOf(b) == {u \in SessionUid : u = cookie[b] /\ session[u] # None}

Open(c) == {i \in InteractionUid : interaction[i] # None /\ interaction[i].client = c}

(* Sensitivity variant of ChecksPass: only the login prompt's checks are   *)
(* copied into the policy.                                                 *)
ChecksPassLoginOnly(u, c, s) == session[u].account # None

(* The one prompt of the policy holds every check of the base login and    *)
(* consent prompts, so a request passes only when the session is logged in *)
(* and every word of the scope was granted to the client before.           *)
ChecksPass(u, c, s) ==
    /\ session[u].account # None
    /\ ValuesOf[s] \subseteq session[u].granted[c]

(* Sensitivity variant of FindAccount: the lookup ignores the scope.       *)
FindAccountAnyScope(k) ==
    IF session[k.session] = None THEN None
    ELSE LET stored == {session[k.session].meta[k.client][s] : s \in Scope} \ {None}
         IN  IF stored = {} THEN None ELSE CHOOSE x \in stored : TRUE

(* Account.findAccount for a code or token: the stored claims, or None for *)
(* each of its early returns.                                              *)
FindAccount(k) ==
    IF session[k.session] = None THEN None
    ELSE session[k.session].meta[k.client][k.scope]

-----------------------------------------------------------------------------
(* External: the library's session handling and the browsers.              *)

(* A request without a stored session gets a new one.                      *)
Visit(b) ==
    /\ SessionOf(b) = {}
    /\ \E u \in SessionUid \ spent :
        /\ session' = [session EXCEPT ![u] = NewSession]
        /\ cookie' = [cookie EXCEPT ![b] = u]
        /\ spent' = spent \cup {u}
    /\ UNCHANGED <<interaction, request, code, token, disclosed, verified>>

(* The login result says remember: false, so the cookie ends with the      *)
(* browser; the session document stays.                                    *)
CloseBrowser(b) ==
    /\ cookie[b] # None
    /\ cookie' = [cookie EXCEPT ![b] = None]
    /\ UNCHANGED <<session, interaction, request, code, token, spent, disclosed, verified>>

(* Logout, or the session document reaching its expiresAt.                 *)
EndSession(u) ==
    /\ session[u] # None
    /\ session' = [session EXCEPT ![u] = None]
    /\ UNCHANGED <<cookie, interaction, request, code, token, spent, disclosed, verified>>

(* The interaction document reaches its expiresAt: a late login or abort   *)
(* finds no interaction.                                                   *)
ExpireInteraction(i) ==
    /\ interaction[i] # None
    /\ interaction' = [interaction EXCEPT ![i] = None]
    /\ UNCHANGED <<session, cookie, request, code, token, spent, disclosed, verified>>

ExpireCode(k) ==
    /\ code' = code \ {k}
    /\ UNCHANGED <<session, cookie, interaction, request, token, spent, disclosed, verified>>

(* The process stops and another one starts: the posts it was handling are *)
(* gone, the documents stay.  Unless COOKIES_KEYS is set, the keys of the  *)
(* cookies are drawn again, and no browser finds its session or its        *)
(* interaction any more.                                                   *)
Restart ==
    /\ request' = [r \in Request |-> None]
    /\ \/ UNCHANGED <<cookie, interaction>>
       \/ /\ cookie' = [b \in Browser |-> None]
          /\ interaction' = [i \in InteractionUid |-> None]
    /\ UNCHANGED <<session, code, token, spent, disclosed, verified>>

-----------------------------------------------------------------------------
(* The authorization endpoint under the policy of routes/oidc.             *)

(* A check fails, which a client can bring about at any time (max_age):    *)
(* open an interaction.  It remembers the session only when that is logged *)
(* in.                                                                     *)
StartInteraction(b, c, s) ==
    /\ Cardinality(Open(c)) < MaxOpen
    /\ \E u \in SessionOf(b), i \in InteractionUid \ spent :
        /\ interaction' = [interaction EXCEPT ![i] =
               [browser |-> b, client |-> c, scope |-> s,
                session |-> IF session[u].account = None THEN None ELSE u,
                result  |-> None]]
        /\ spent' = spent \cup {i}
    /\ UNCHANGED <<session, cookie, request, code, token, disclosed, verified>>

(* Every check passes: the code is issued without any interaction.         *)
IssueSilently(b, c, s) ==
    /\ Cardinality(code) < MaxCode
    /\ \E u \in SessionOf(b) :
        /\ ChecksPass(u, c, s)
        /\ code' = code \cup {[session |-> u, client |-> c, scope |-> s,
                               account |-> session[u].account]}
    /\ UNCHANGED <<session, cookie, interaction, request, token, spent, disclosed, verified>>

-----------------------------------------------------------------------------
(* The login handler, controller.ts.                                       *)

(* POST /:uid/login up to the loop: the details of the interaction are     *)
(* read and the presentation is decoded.                                   *)
Submit(r, i, a, p) ==
    /\ Cardinality(disclosed) < MaxDisclosed
    /\ request[r] = None
    /\ interaction[i] # None
    /\ request' = [request EXCEPT ![r] =
           [uid |-> i,
            details |-> [client |-> interaction[i].client, scope |-> interaction[i].scope,
                         session |-> interaction[i].session],
            iss |-> a, presented |-> Range(p), todo |-> p,
            trusted |-> {}, untrusted |-> {}, previous |-> None]]
    /\ UNCHANGED <<session, cookie, interaction, code, token, spent, disclosed, verified>>

(* getVerifyStatusFromVC: what the VC service answers, 0 when it vouches   *)
(* for the credential, or 1 when the call throws.                          *)
VerifyStatus == {0, 1}

(* Sensitivity variant of IsTrusted: the subject is not compared.          *)
IsTrustedAnySubject(v, iss, status) == status = 0

(* A credential is trusted when the service vouches for it and it is about *)
(* the presenter.                                                          *)
IsTrusted(v, iss, status) == status = 0 /\ iss = SubjectOf[v]

(* Sensitivity variant of Verify: a credential about somebody else is      *)
(* dropped instead of listed as untrusted.                                 *)
VerifyDropping(r, status) ==
    /\ request[r] # None
    /\ request[r].todo # <<>>
    /\ LET v == Head(request[r].todo) IN
        /\ v \notin Malformed
        /\ request' = [request EXCEPT
               ![r].todo = Tail(@),
               ![r].trusted = IF IsTrusted(v, request[r].iss, status) THEN @ \cup {v} ELSE @]
        /\ verified' = IF status = 0 THEN verified \cup {v} ELSE verified
    /\ UNCHANGED <<session, cookie, interaction, code, token, spent, disclosed>>

(* One turn of the loop, once getVerifyStatusFromVC is answered.           *)
Verify(r, status) ==
    /\ request[r] # None
    /\ request[r].todo # <<>>
    /\ LET v == Head(request[r].todo) IN
        /\ v \notin Malformed
        /\ request' = [request EXCEPT
               ![r].todo = Tail(@),
               ![r].trusted = IF IsTrusted(v, request[r].iss, status) THEN @ \cup {v} ELSE @,
               ![r].untrusted = IF IsTrusted(v, request[r].iss, status) THEN @ ELSE @ \cup {v}]
        /\ verified' = IF status = 0 THEN verified \cup {v} ELSE verified
    /\ UNCHANGED <<session, cookie, interaction, code, token, spent, disclosed>>

(* decodeJWT throws inside the loop: the post fails, the interaction stays *)
(* as it was and can be retried.                                           *)
RejectMalformed(r) ==
    /\ request[r] # None
    /\ request[r].todo # <<>>
    /\ Head(request[r].todo) \in Malformed
    /\ request' = [request EXCEPT ![r] = None]
    /\ UNCHANGED <<session, cookie, interaction, code, token, spent, disclosed, verified>>

(* What the session holds for the client, {} without a session.            *)
PreviousMeta(d) ==
    IF d.session # None /\ session[d.session] # None
    THEN session[d.session].meta[d.client]
    ELSE EmptyMeta

(* Session.findByUid and metaFor, after the loop.                          *)
ReadSession(r) ==
    /\ request[r] # None
    /\ request[r].todo = <<>>
    /\ request[r].previous = None
    /\ request' = [request EXCEPT ![r].previous = PreviousMeta(request[r].details)]
    /\ UNCHANGED <<session, cookie, interaction, code, token, spent, disclosed, verified>>

ClaimsOf(q) == [sub |-> q.iss, trusted |-> q.trusted, untrusted |-> q.untrusted]

(* Sensitivity variant of LoginResultOf: without the spread of what was    *)
(* stored before.                                                          *)
LoginResultAlone(q) ==
    [account |-> q.iss,
     meta    |-> [EmptyMeta EXCEPT ![q.details.scope] = ClaimsOf(q)]]

(* The result: every scope is granted, and the claims go into a copy of    *)
(* the metadata read before.                                               *)
LoginResultOf(q) ==
    [account |-> q.iss,
     meta    |-> [q.previous EXCEPT ![q.details.scope] = ClaimsOf(q)]]

(* Sensitivity variant of Finish: the rejection of interactionFinished is  *)
(* not passed to onError, and nobody answers.                              *)
FinishUncaught(r) ==
    /\ request[r] # None
    /\ request[r].previous # None
    /\ LET q == request[r] IN
        /\ interaction[q.uid] # None
        /\ interaction' = [interaction EXCEPT ![q.uid].result = LoginResultOf(q)]
        /\ disclosed' = disclosed \cup
               {[client |-> q.details.client, scope |-> q.details.scope,
                 claims |-> ClaimsOf(q), presented |-> q.presented]}
    /\ request' = [request EXCEPT ![r] = None]
    /\ UNCHANGED <<session, cookie, code, token, spent, verified>>

(* interactionFinished, which replaces any earlier result; without an      *)
(* interaction it throws SessionNotFound and the post answers 401.         *)
Finish(r) ==
    /\ request[r] # None
    /\ request[r].previous # None
    /\ request' = [request EXCEPT ![r] = None]
    /\ LET q == request[r] IN
        IF interaction[q.uid] # None
        THEN /\ interaction' = [interaction EXCEPT ![q.uid].result = LoginResultOf(q)]
             /\ disclosed' = disclosed \cup
                    {[client |-> q.details.client, scope |-> q.details.scope,
                      claims |-> ClaimsOf(q), presented |-> q.presented]}
        ELSE UNCHANGED <<interaction, disclosed>>
    /\ UNCHANGED <<session, cookie, code, token, spent, verified>>

(* GET /:uid/abort.                                                        *)
Abort(i) ==
    /\ interaction[i] # None
    /\ interaction' = [interaction EXCEPT ![i].result = Denied]
    /\ UNCHANGED <<session, cookie, request, code, token, spent, disclosed, verified>>

-----------------------------------------------------------------------------
(* Resuming the authorization request, and the token endpoint.             *)

(* The browser may resume with its session when the interaction began in   *)
(* no logged-in session or in this very one.                               *)
CanResume(i, u) ==
    /\ u \in SessionOf(interaction[i].browser)
    /\ interaction[i].session \in {None, u}

(* The result is applied to the session and the interaction destroyed.     *)
Resume(i) ==
    /\ interaction[i] # None
    /\ interaction[i].result \in LoginResult
    /\ \E u \in SessionUid :
        LET res == interaction[i].result
            c   == interaction[i].client
            s   == interaction[i].scope
        IN  /\ CanResume(i, u)
            /\ session[u].account \in {None, res.account}
            /\ session' = [session EXCEPT
                   ![u].account = res.account,
                   ![u].granted[c] = @ \cup ValuesOf[s],
                   ![u].meta[c] = res.meta]
            /\ code' = code \cup {[session |-> u, client |-> c, scope |-> s,
                                   account |-> res.account]}
    /\ interaction' = [interaction EXCEPT ![i] = None]
    /\ UNCHANGED <<cookie, request, token, spent, disclosed, verified>>

(* The session belongs to somebody else: it is logged out, and the         *)
(* interaction resumes in the next session of the browser.                 *)
SwitchAccount(i) ==
    /\ interaction[i] # None
    /\ interaction[i].result \in LoginResult
    /\ \E u \in SessionUid :
        /\ CanResume(i, u)
        /\ session[u].account \notin {None, interaction[i].result.account}
        /\ session' = [session EXCEPT ![u] = None]
    /\ interaction' = [interaction EXCEPT ![i].session = None]
    /\ cookie' = [cookie EXCEPT ![interaction[i].browser] = None]
    /\ UNCHANGED <<request, code, token, spent, disclosed, verified>>

(* Resuming an aborted interaction sends access_denied to the client.      *)
ResumeDenied(i) ==
    /\ interaction[i] # None
    /\ interaction[i].result = Denied
    /\ interaction' = [interaction EXCEPT ![i] = None]
    /\ UNCHANGED <<session, cookie, request, code, token, spent, disclosed, verified>>

(* Sensitivity variant of Redeem: the code is exchanged although no account *)
(* was found.                                                              *)
RedeemAnyway(k) ==
    /\ token' = [client |-> k.client, scope |-> k.scope,
                 sub |-> k.account, claims |-> FindAccount(k)]
    /\ code' = code \ {k}
    /\ UNCHANGED <<session, cookie, interaction, request, spent, disclosed, verified>>

(* The token endpoint: findAccount must find the claims, and they go into  *)
(* the id_token under verified_claims.                                     *)
Redeem(k) ==
    /\ FindAccount(k) # None
    /\ token' = [client |-> k.client, scope |-> k.scope,
                 sub |-> k.account, claims |-> FindAccount(k)]
    /\ code' = code \ {k}
    /\ UNCHANGED <<session, cookie, interaction, request, spent, disclosed, verified>>

-----------------------------------------------------------------------------

Init ==
    /\ session = [u \in SessionUid |-> None]
    /\ cookie = [b \in Browser |-> None]
    /\ interaction = [i \in InteractionUid |-> None]
    /\ request = [r \in Request |-> None]
    /\ code = {}
    /\ token = None
    /\ spent = {}
    /\ disclosed = {}
    /\ verified = {}

Handle(r) == (\E status \in VerifyStatus : Verify(r, status)) \/ RejectMalformed(r)
                 \/ ReadSession(r) \/ Finish(r)

Next ==
    \/ \E b \in Browser : Visit(b) \/ CloseBrowser(b)
    \/ \E u \in SessionUid : EndSession(u)
    \/ \E b \in Browser, c \in Client, s \in Scope :
           StartInteraction(b, c, s) \/ IssueSilently(b, c, s)
    \/ \E r \in Request, i \in InteractionUid, a \in Account, p \in Presentation :
           Submit(r, i, a, p)
    \/ \E r \in Request : Handle(r)
    \/ \E i \in InteractionUid :
           Abort(i) \/ ExpireInteraction(i) \/ Resume(i) \/ SwitchAccount(i) \/ ResumeDenied(i)
    \/ \E k \in code : Redeem(k) \/ ExpireCode(k)
    \/ Restart

Spec == Init /\ [][Next]_vars

(* Node runs the continuation of every await that is answered, and the VC  *)
(* service answers or the call fails.  Nothing else is owed: users, wallets *)
(* and clients may stop at any point.                                      *)
FairSpec == Spec /\ \A r \in Request : WF_vars(Handle(r))
=============================================================================
