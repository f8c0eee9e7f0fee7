----------------------------- MODULE LoginProofs -----------------------------
(***************************************************************************)
(* Proofs about Login, for every value of its constants: type correctness, *)
(* and that Login implements Issuance.                                     *)
(***************************************************************************)
EXTENDS LoginProperties, TLAPS

(* The prover sees the assumptions under their names only.                 *)
LEMMA NoneFacts ==
    /\ None \notin Account
    /\ None \notin SessionUid
    /\ None \notin Claims
    /\ None \notin Meta
    /\ None \notin Session
    /\ None \notin Interaction
    /\ None \notin Handling
    /\ None \notin LoginResult
    /\ Denied \notin LoginResult
    /\ None # Denied
    /\ None \notin Token
BY NoneAssumption

-----------------------------------------------------------------------------
(* The helpers have the types their uses rely on.                          *)

LEMMA EmptyMetaType == EmptyMeta \in Meta
BY DEF EmptyMeta, Meta

LEMMA NewSessionType == NewSession \in Session
BY EmptyMetaType DEF NewSession, Session

LEMMA ClaimsOfType ==
    ASSUME NEW q \in Handling
    PROVE  ClaimsOf(q) \in Claims
BY DEF ClaimsOf, Claims, Handling

LEMMA LoginResultOfType ==
    ASSUME NEW q \in Handling, q.previous # None
    PROVE  LoginResultOf(q) \in LoginResult
<1>1. q.iss \in Account /\ q.previous \in Meta /\ q.details.scope \in Scope
  BY DEF Handling
<1>2. ClaimsOf(q) \in Claims
  BY ClaimsOfType
<1>3. [q.previous EXCEPT ![q.details.scope] = ClaimsOf(q)] \in Meta
  BY <1>1, <1>2 DEF Meta
<1> QED
  BY <1>1, <1>3 DEF LoginResultOf, LoginResult

LEMMA PreviousMetaType ==
    ASSUME TypeOK,
           NEW d \in [client : Client, scope : Scope, session : SessionUid \cup {None}]
    PROVE  PreviousMeta(d) \in Meta
<1>1. CASE d.session # None /\ session[d.session] # None
  <2>1. session[d.session] \in Session
    BY <1>1 DEF TypeOK
  <2>2. session[d.session].meta[d.client] \in Meta
    BY <2>1 DEF Session
  <2> QED
    BY <1>1, <2>2 DEF PreviousMeta
<1>2. CASE ~(d.session # None /\ session[d.session] # None)
  BY <1>2, EmptyMetaType DEF PreviousMeta
<1> QED
  BY <1>1, <1>2

LEMMA FindAccountType ==
    ASSUME TypeOK, NEW k \in Code, FindAccount(k) # None
    PROVE  FindAccount(k) \in Claims
<1>1. session[k.session] # None /\ FindAccount(k) = session[k.session].meta[k.client][k.scope]
  BY DEF FindAccount
<1>2. session[k.session] \in Session
  BY <1>1 DEF TypeOK, Code
<1>3. session[k.session].meta[k.client] \in Meta
  BY <1>2 DEF Session, Code
<1> QED
  BY <1>1, <1>3 DEF Meta, Code

-----------------------------------------------------------------------------
(* Type correctness.                                                       *)

LEMMA TypeInit == Init => TypeOK
BY DEF Init, TypeOK

LEMMA TypeNext == TypeOK /\ [Next]_vars => TypeOK'
<1> SUFFICES ASSUME TypeOK, [Next]_vars PROVE TypeOK'
  OBVIOUS
<1> USE NoneFacts
<1>1. ASSUME NEW b \in Browser, Visit(b) PROVE TypeOK'
  BY <1>1, NewSessionType DEF TypeOK, Visit
<1>2. ASSUME NEW b \in Browser, CloseBrowser(b) PROVE TypeOK'
  BY <1>2 DEF TypeOK, CloseBrowser
<1>3. ASSUME NEW u \in SessionUid, EndSession(u) PROVE TypeOK'
  BY <1>3 DEF TypeOK, EndSession
<1>4. ASSUME NEW b \in Browser, NEW c \in Client, NEW s \in Scope, StartInteraction(b, c, s)
      PROVE  TypeOK'
  <2>1. PICK u \in SessionOf(b), i \in InteractionUid \ spent :
           /\ interaction' = [interaction EXCEPT ![i] =
                  [browser |-> b, client |-> c, scope |-> s,
                   session |-> IF session[u].account = None THEN None ELSE u,
                   result  |-> None]]
           /\ spent' = spent \cup {i}
    BY <1>4 DEF StartInteraction
  <2>2. [browser |-> b, client |-> c, scope |-> s,
         session |-> IF session[u].account = None THEN None ELSE u,
         result  |-> None] \in Interaction
    BY DEF Interaction, SessionOf
  <2> QED
    BY <1>4, <2>1, <2>2 DEF TypeOK, StartInteraction
<1>5. ASSUME NEW b \in Browser, NEW c \in Client, NEW s \in Scope, IssueSilently(b, c, s)
      PROVE  TypeOK'
  <2>1. PICK u \in SessionOf(b) :
           /\ ChecksPass(u, c, s)
           /\ code' = code \cup {[session |-> u, client |-> c, scope |-> s,
                                  account |-> session[u].account]}
    BY <1>5 DEF IssueSilently
  <2>2. session[u] \in Session /\ u \in SessionUid
    BY DEF SessionOf, TypeOK
  <2>3. session[u].account \in Account
    BY <2>1, <2>2 DEF ChecksPass, Session
  <2> QED
    BY <1>5, <2>1, <2>2, <2>3 DEF TypeOK, IssueSilently, Code
<1>6. ASSUME NEW r \in Request, NEW i \in InteractionUid, NEW a \in Account,
             NEW p \in Presentation, Submit(r, i, a, p)
      PROVE  TypeOK'
  <2>1. interaction[i] \in Interaction
    BY <1>6 DEF TypeOK, Submit
  <2>2. p \in Seq(Credential)
    BY ConstantsAssumption
  <2>3. Range(p) \subseteq Credential
    BY <2>2 DEF Range
  <2>4. [uid |-> i,
         details |-> [client |-> interaction[i].client, scope |-> interaction[i].scope,
                      session |-> interaction[i].session],
         iss |-> a, presented |-> Range(p), todo |-> p,
         trusted |-> {}, untrusted |-> {}, previous |-> None] \in Handling
    BY <2>1, <2>2, <2>3 DEF Handling, Interaction
  <2> QED
    BY <1>6, <2>4 DEF TypeOK, Submit
<1>7. ASSUME NEW r \in Request, NEW status \in VerifyStatus, Verify(r, status) PROVE TypeOK'
  <2>1. request[r] \in Handling
    BY <1>7 DEF TypeOK, Verify
  <2> DEFINE v == Head(request[r].todo)
             q == [request[r] EXCEPT
                     !.todo = Tail(@),
                     !.trusted = IF IsTrusted(v, request[r].iss, status) THEN @ \cup {v} ELSE @,
                     !.untrusted = IF IsTrusted(v, request[r].iss, status) THEN @ ELSE @ \cup {v}]
  <2>2. v \in Credential /\ Tail(request[r].todo) \in Seq(Credential)
    BY <1>7, <2>1 DEF Verify, Handling
  <2>3. q \in Handling
    BY <2>1, <2>2 DEF Handling
  <2>4. request' = [request EXCEPT ![r] = q]
    BY <1>7 DEF Verify, TypeOK
  <2> QED
    BY <1>7, <2>2, <2>3, <2>4 DEF TypeOK, Verify
<1>8. ASSUME NEW r \in Request, RejectMalformed(r) PROVE TypeOK'
  BY <1>8 DEF TypeOK, RejectMalformed
<1>9. ASSUME NEW r \in Request, ReadSession(r) PROVE TypeOK'
  <2>1. request[r] \in Handling
    BY <1>9 DEF TypeOK, ReadSession
  <2>2. PreviousMeta(request[r].details) \in Meta
    BY <2>1, PreviousMetaType DEF Handling
  <2>3. [request[r] EXCEPT !.previous = PreviousMeta(request[r].details)] \in Handling
    BY <2>1, <2>2 DEF Handling
  <2> QED
    BY <1>9, <2>3 DEF TypeOK, ReadSession
<1>10. ASSUME NEW r \in Request, Finish(r) PROVE TypeOK'
  <2> DEFINE q == request[r]
  <2>1. q \in Handling /\ q.previous # None
    BY <1>10 DEF TypeOK, Finish
  <2>2. q.uid \in InteractionUid
    BY <2>1 DEF Handling
  <2>3. CASE interaction[q.uid] # None
    <3>1. interaction[q.uid] \in Interaction
      BY <2>2, <2>3 DEF TypeOK
    <3>2. [interaction[q.uid] EXCEPT !.result = LoginResultOf(q)] \in Interaction
      BY <3>1, <2>1, LoginResultOfType DEF Interaction
    <3>3. [client |-> q.details.client, scope |-> q.details.scope,
           claims |-> ClaimsOf(q), presented |-> q.presented] \in Disclosure
      BY <2>1, ClaimsOfType DEF Disclosure, Handling
    <3> QED
      BY <1>10, <2>3, <3>2, <3>3 DEF TypeOK, Finish
  <2>4. CASE interaction[q.uid] = None
    BY <1>10, <2>4 DEF TypeOK, Finish
  <2> QED
    BY <2>3, <2>4
<1>11. ASSUME NEW i \in InteractionUid, Abort(i) PROVE TypeOK'
  <2>1. [interaction[i] EXCEPT !.result = Denied] \in Interaction
    BY <1>11 DEF TypeOK, Abort, Interaction
  <2> QED
    BY <1>11, <2>1 DEF TypeOK, Abort
<1>12. ASSUME NEW i \in InteractionUid, ExpireInteraction(i) PROVE TypeOK'
  BY <1>12 DEF TypeOK, ExpireInteraction
<1>13. ASSUME NEW i \in InteractionUid, Resume(i) PROVE TypeOK'
  <2> DEFINE res == interaction[i].result
             c   == interaction[i].client
             s   == interaction[i].scope
  <2>1. PICK u \in SessionUid :
           /\ CanResume(i, u)
           /\ session' = [session EXCEPT
                  ![u].account = res.account,
                  ![u].granted[c] = @ \cup ValuesOf[s],
                  ![u].meta[c] = res.meta]
           /\ code' = code \cup {[session |-> u, client |-> c, scope |-> s,
                                  account |-> res.account]}
    BY <1>13 DEF Resume
  <2>2. /\ interaction[i] \in Interaction
        /\ res \in LoginResult
        /\ session[u] \in Session
    BY <1>13, <2>1 DEF TypeOK, Resume, CanResume, SessionOf
  <2>3. c \in Client /\ s \in Scope /\ res.account \in Account /\ res.meta \in Meta
    BY <2>2 DEF Interaction, LoginResult
  <2>4. ValuesOf[s] \subseteq ScopeValue
    BY <2>3, ConstantsAssumption
  <2>5. [session[u] EXCEPT !.account = res.account,
                           !.granted[c] = @ \cup ValuesOf[s],
                           !.meta[c] = res.meta] \in Session
    BY <2>2, <2>3, <2>4 DEF Session
  <2>6. session' \in [SessionUid -> Session \cup {None}]
    BY <2>1, <2>5 DEF TypeOK
  <2>7. code' \subseteq Code
    BY <2>1, <2>3 DEF TypeOK, Code
  <2> QED
    BY <1>13, <2>6, <2>7 DEF TypeOK, Resume
<1>14. ASSUME NEW i \in InteractionUid, SwitchAccount(i) PROVE TypeOK'
  <2>1. interaction[i] \in Interaction
    BY <1>14 DEF TypeOK, SwitchAccount
  <2>2. [interaction[i] EXCEPT !.session = None] \in Interaction
    BY <2>1 DEF Interaction
  <2> QED
    BY <1>14, <2>1, <2>2 DEF TypeOK, SwitchAccount
<1>15. ASSUME NEW i \in InteractionUid, ResumeDenied(i) PROVE TypeOK'
  BY <1>15 DEF TypeOK, ResumeDenied
<1>16. ASSUME NEW k \in code, Redeem(k) PROVE TypeOK'
  <2>1. k \in Code
    BY DEF TypeOK
  <2>2. FindAccount(k) \in Claims
    BY <1>16, <2>1, FindAccountType DEF Redeem
  <2>3. token' \in Token
    BY <1>16, <2>1, <2>2 DEF Redeem, Token, Code
  <2> QED
    BY <1>16, <2>3 DEF TypeOK, Redeem
<1>17. ASSUME NEW k \in code, ExpireCode(k) PROVE TypeOK'
  BY <1>17 DEF TypeOK, ExpireCode
<1>18. CASE Restart
  BY <1>18 DEF TypeOK, Restart
<1>19. CASE UNCHANGED vars
  BY <1>19 DEF TypeOK, vars
<1> QED
  BY <1>1, <1>2, <1>3, <1>4, <1>5, <1>6, <1>7, <1>8, <1>9, <1>10, <1>11, <1>12,
     <1>13, <1>14, <1>15, <1>16, <1>17, <1>18, <1>19 DEF Next, Handle

(* Every variable keeps its type.                                          *)
THEOREM TypeCorrect == Spec => []TypeOK
BY TypeInit, TypeNext, PTL DEF Spec

-----------------------------------------------------------------------------
(* Disclosures are only added, so what they back stays backed.             *)

LEMMA BackedMonotone ==
    ASSUME disclosed \subseteq disclosed', NEW c, NEW s, NEW claims, Abstract!Backed(c, s, claims)
    PROVE  Abstract!Backed(c, s, claims)'
BY DEF Abstract!Backed

LEMMA ConsentedMonotone ==
    ASSUME disclosed \subseteq disclosed', NEW c, NEW a
    PROVE  Abstract!Consented(c, a) \subseteq Abstract!Consented(c, a)'
BY DEF Abstract!Consented

LEMMA BackedMetaMonotone ==
    ASSUME disclosed \subseteq disclosed', NEW c, NEW meta, BackedMeta(c, meta)
    PROVE  BackedMeta(c, meta)'
BY BackedMonotone DEF BackedMeta

LEMMA BackedEmptyMeta ==
    ASSUME NEW c
    PROVE  BackedMeta(c, EmptyMeta)
BY DEF BackedMeta, EmptyMeta

-----------------------------------------------------------------------------
(* The parts of ClaimsTraced a step leaves alone.                          *)

LEMMA KeepSession ==
    ASSUME SessionTraced, AnonymousEmpty, disclosed \subseteq disclosed', UNCHANGED session
    PROVE  SessionTraced' /\ AnonymousEmpty'
<1>1. SUFFICES ASSUME NEW u \in SessionUid, session[u] # None, NEW c \in Client
               PROVE  /\ BackedMeta(c, session[u].meta[c])'
                      /\ session[u].granted[c] \subseteq Abstract!Consented(c, session[u].account)'
  BY DEF SessionTraced, AnonymousEmpty
<1>2. BackedMeta(c, session[u].meta[c])
      /\ session[u].granted[c] \subseteq Abstract!Consented(c, session[u].account)
  BY <1>1 DEF SessionTraced
<1> QED
  BY <1>2, BackedMetaMonotone, ConsentedMonotone

LEMMA ResultMonotone ==
    ASSUME disclosed \subseteq disclosed', NEW n, ResultTraced(n)
    PROVE  ResultTraced(n)'
BY BackedMetaMonotone, ConsentedMonotone DEF ResultTraced

LEMMA KeepRequest ==
    ASSUME RequestTraced, disclosed \subseteq disclosed', spent \subseteq spent',
           UNCHANGED <<request, interaction>>
    PROVE  RequestTraced'
BY BackedMetaMonotone DEF RequestTraced, PostTraced

LEMMA KeepInteraction ==
    ASSUME InteractionTraced, disclosed \subseteq disclosed', spent \subseteq spent',
           UNCHANGED interaction
    PROVE  InteractionTraced'
BY ResultMonotone DEF InteractionTraced

LEMMA KeepCode ==
    ASSUME CodeTraced, disclosed \subseteq disclosed', code' \subseteq code
    PROVE  CodeTraced'
BY ConsentedMonotone DEF CodeTraced

-----------------------------------------------------------------------------
(* The traced invariant is inductive.                                      *)

LEMMA TracedInit == Init => ClaimsTraced
BY DEF Init, ClaimsTraced, SessionTraced, AnonymousEmpty, RequestTraced,
       InteractionTraced, CodeTraced

(* Finish records a disclosure before the claims go anywhere else.         *)
LEMMA FinishTraced ==
    ASSUME TypeOK, ClaimsTraced, NEW r \in Request, Finish(r)
    PROVE  ClaimsTraced'
<1> USE NoneFacts
<1>1. PICK q \in Handling : q = request[r] /\ q.previous # None
  BY DEF TypeOK, Finish
<1> DEFINE c == q.details.client
           s == q.details.scope
           d == [client |-> c, scope |-> s, claims |-> ClaimsOf(q), presented |-> q.presented]
<1>2. disclosed \subseteq disclosed' /\ UNCHANGED spent
  BY DEF Finish
<1>3. SessionTraced' /\ AnonymousEmpty'
  BY <1>2, KeepSession DEF ClaimsTraced, Finish
<1>4. CodeTraced'
  BY <1>2, KeepCode DEF ClaimsTraced, Finish
<1>5. q.uid \in InteractionUid /\ q.iss \in Account /\ q.previous \in Meta
  BY <1>1 DEF Handling
<1>6. PostTraced(q)
  BY <1>1 DEF ClaimsTraced, RequestTraced
(* The interactions other than the post's are left alone; its own keeps    *)
(* client and scope and gets the result.                                   *)
<1>7. /\ \A x \in InteractionUid \ {q.uid} : interaction'[x] = interaction[x]
      /\ interaction[q.uid] = None => interaction'[q.uid] = None
      /\ interaction[q.uid] # None =>
            /\ interaction'[q.uid] = [interaction[q.uid] EXCEPT !.result = LoginResultOf(q)]
            /\ d \in disclosed'
  BY <1>1, <1>5 DEF TypeOK, Finish
<1>8. interaction[q.uid] # None =>
        /\ interaction'[q.uid].client = c
        /\ interaction'[q.uid].scope = s
        /\ interaction'[q.uid].result = LoginResultOf(q)
  <2>1. interaction[q.uid] # None => interaction[q.uid] \in Interaction
    BY <1>5 DEF TypeOK
  <2> QED
    BY <2>1, <1>6, <1>7 DEF PostTraced, Interaction
<1>9. RequestTraced'
  <2>1. SUFFICES ASSUME NEW x \in Request, NEW p \in Handling, p = request'[x]
                 PROVE  PostTraced(p)'
    BY DEF RequestTraced, TypeOK, Finish
  <2>2. p = request[x]
    BY <2>1 DEF TypeOK, Finish
  <2>3. PostTraced(p) /\ p.uid \in InteractionUid
    BY <2>2 DEF ClaimsTraced, RequestTraced, Handling
  <2> QED
    BY <2>3, <1>2, <1>6, <1>7, <1>8, BackedMetaMonotone DEF PostTraced
<1>10. d \in disclosed' => BackedMeta(c, LoginResultOf(q).meta)'
  <2>1. BackedMeta(c, q.previous)'
    BY <1>1, <1>2, <1>6, BackedMetaMonotone DEF PostTraced
  <2>2. d \in disclosed' => Abstract!Backed(c, s, ClaimsOf(q))'
    BY DEF Abstract!Backed
  <2>3. LoginResultOf(q).meta = [q.previous EXCEPT ![s] = ClaimsOf(q)]
    BY DEF LoginResultOf
  <2> QED
    BY <2>1, <2>2, <2>3, <1>5 DEF BackedMeta, Meta
<1>11. d \in disclosed' => ValuesOf[s] \subseteq Abstract!Consented(c, LoginResultOf(q).account)'
  <2>1. LoginResultOf(q).account = q.iss /\ d.client = c /\ d.scope = s /\ d.claims.sub = q.iss
    BY DEF LoginResultOf, ClaimsOf
  <2> QED
    BY <2>1 DEF Abstract!Consented
<1>12. InteractionTraced'
  <2>1. SUFFICES ASSUME NEW i \in InteractionUid, NEW n, n = interaction'[i], n # None
                 PROVE  i \in spent' /\ ResultTraced(n)'
    BY DEF InteractionTraced
  <2>2. CASE i = q.uid
    <3>1. n.client = c /\ n.scope = s /\ n.result = LoginResultOf(q) /\ d \in disclosed'
      BY <2>1, <2>2, <1>7, <1>8
    <3> QED
      BY <3>1, <2>2, <1>2, <1>6, <1>10, <1>11 DEF ResultTraced, PostTraced
  <2>3. CASE i # q.uid
    <3>1. n = interaction[i]
      BY <2>1, <2>3, <1>7
    <3> QED
      BY <3>1, <2>1, <1>2, ResultMonotone DEF ClaimsTraced, InteractionTraced
  <2> QED
    BY <2>2, <2>3
<1> QED
  BY <1>3, <1>4, <1>9, <1>12 DEF ClaimsTraced

(* Reading the session gives the post metadata of its own client.          *)
LEMMA ReadTraced ==
    ASSUME TypeOK, ClaimsTraced, NEW r \in Request, ReadSession(r)
    PROVE  RequestTraced'
<1> USE NoneFacts
<1>1. PICK q \in Handling : q = request[r] /\ q.previous = None
  BY DEF TypeOK, ReadSession
<1>2. PICK m \in Meta : m = PreviousMeta(q.details)
  BY PreviousMetaType DEF Handling
<1>3. BackedMeta(q.details.client, m)
  <2>1. CASE q.details.session # None /\ session[q.details.session] # None
    <3>1. q.details.session \in SessionUid /\ q.details.client \in Client
      BY <2>1 DEF Handling
    <3> QED
      BY <1>2, <2>1, <3>1 DEF PreviousMeta, ClaimsTraced, SessionTraced
  <2>2. CASE ~(q.details.session # None /\ session[q.details.session] # None)
    BY <1>2, <2>2, BackedEmptyMeta DEF PreviousMeta
  <2> QED
    BY <2>1, <2>2
<1>4. SUFFICES ASSUME NEW x \in Request, NEW p, p = request'[x], p # None
               PROVE  PostTraced(p)'
  BY DEF RequestTraced
<1>5. UNCHANGED <<interaction, spent, disclosed>>
  BY DEF ReadSession
<1>6. CASE x = r
  <2>1. p = [q EXCEPT !.previous = m]
    BY <1>1, <1>2, <1>4, <1>6 DEF ReadSession, TypeOK
  <2>2. p.previous = m /\ p.details = q.details /\ p.uid = q.uid
    BY <2>1 DEF Handling
  <2>3. PostTraced(q)
    BY <1>1 DEF ClaimsTraced, RequestTraced
  <2>4. BackedMeta(q.details.client, m)'
    BY <1>3, <1>5, BackedMetaMonotone
  <2> QED
    BY <2>2, <2>3, <2>4, <1>5 DEF PostTraced
<1>7. CASE x # r
  <2>1. p = request[x]
    BY <1>4, <1>7 DEF ReadSession, TypeOK
  <2>2. PostTraced(p)
    BY <2>1, <1>4 DEF ClaimsTraced, RequestTraced
  <2> QED
    BY <2>2, <1>5, BackedMetaMonotone DEF PostTraced
<1> QED
  BY <1>6, <1>7

(* Resuming moves a result into a session of the same user.                *)
LEMMA ResumeTraced ==
    ASSUME TypeOK, ClaimsTraced, NEW i \in InteractionUid, Resume(i)
    PROVE  SessionTraced' /\ AnonymousEmpty' /\ CodeTraced'
<1> USE NoneFacts
<1>1. PICK n \in Interaction : n = interaction[i] /\ n.result \in LoginResult
  BY DEF TypeOK, Resume
<1>2. PICK u \in SessionUid :
         /\ session[u] # None
         /\ session[u].account \in {None, n.result.account}
         /\ session' = [session EXCEPT
                ![u].account = n.result.account,
                ![u].granted[n.client] = @ \cup ValuesOf[n.scope],
                ![u].meta[n.client] = n.result.meta]
         /\ code' = code \cup {[session |-> u, client |-> n.client, scope |-> n.scope,
                                account |-> n.result.account]}
  BY <1>1 DEF Resume, CanResume, SessionOf
<1>3. PICK old \in Session : old = session[u]
  BY <1>2 DEF TypeOK
<1>4. /\ n.client \in Client /\ n.scope \in Scope
      /\ n.result.account \in Account /\ n.result.meta \in Meta
  BY <1>1 DEF Interaction, LoginResult
<1>5. /\ BackedMeta(n.client, n.result.meta)
      /\ ValuesOf[n.scope] \subseteq Abstract!Consented(n.client, n.result.account)
  BY <1>1 DEF ClaimsTraced, InteractionTraced, ResultTraced
<1>6. UNCHANGED disclosed
  BY DEF Resume
<1>7. BackedMeta(n.client, n.result.meta)'
  BY <1>5, <1>6, BackedMetaMonotone
<1>8. \A c \in Client : \A account : Abstract!Consented(c, account)' = Abstract!Consented(c, account)
  BY <1>6 DEF Abstract!Consented
<1>9. \A x \in SessionUid \ {u} : session'[x] = session[x]
  BY <1>2 DEF TypeOK
(* What the session of this browser holds afterwards.                      *)
<1>10. PICK new \in Session :
          /\ new = session'[u]
          /\ new.account = n.result.account
          /\ \A c \in Client \ {n.client} : new.granted[c] = old.granted[c]
                                          /\ new.meta[c] = old.meta[c]
          /\ new.granted[n.client] = old.granted[n.client] \cup ValuesOf[n.scope]
          /\ new.meta[n.client] = n.result.meta
  <2> DEFINE w == [old EXCEPT !.account = n.result.account,
                              !.granted[n.client] = @ \cup ValuesOf[n.scope],
                              !.meta[n.client] = n.result.meta]
  <2>1. w = session'[u]
    BY <1>2, <1>3 DEF TypeOK
  <2>2. ValuesOf[n.scope] \subseteq ScopeValue
    BY <1>4, ConstantsAssumption
  <2>3. w \in Session
    BY <1>4, <2>2 DEF Session
  <2> QED
    BY <2>1, <2>3, <1>4 DEF Session
<1>11. SessionTraced'
  <2>1. SUFFICES ASSUME NEW x \in SessionUid, NEW z, z = session'[x], z # None, NEW c \in Client
                 PROVE  /\ BackedMeta(c, z.meta[c])'
                        /\ z.granted[c] \subseteq Abstract!Consented(c, z.account)'
    BY DEF SessionTraced
  <2>2. CASE x # u
    <3>1. z = session[x]
      BY <2>1, <2>2, <1>9
    <3>2. BackedMeta(c, z.meta[c]) /\ z.granted[c] \subseteq Abstract!Consented(c, z.account)
      BY <3>1, <2>1 DEF ClaimsTraced, SessionTraced
    <3> QED
      BY <3>2, <1>6, <1>8, BackedMetaMonotone
  <2>3. CASE x = u
    <3>1. z = new
      BY <2>1, <2>3, <1>10
    <3>2. BackedMeta(c, old.meta[c])
          /\ old.granted[c] \subseteq Abstract!Consented(c, n.result.account)
      <4>1. BackedMeta(c, old.meta[c])
            /\ old.granted[c] \subseteq Abstract!Consented(c, old.account)
        BY <1>2, <1>3 DEF ClaimsTraced, SessionTraced
      <4>2. old.account = None => old.granted[c] = {}
        BY <1>2, <1>3 DEF ClaimsTraced, AnonymousEmpty
      <4> QED
        BY <4>1, <4>2, <1>2, <1>3
    <3>3. BackedMeta(c, old.meta[c])'
      BY <3>2, <1>6, BackedMetaMonotone
    <3>4. BackedMeta(c, z.meta[c])'
      BY <3>1, <3>3, <1>7, <1>10
    <3>5. z.granted[c] \subseteq Abstract!Consented(c, z.account)
      BY <3>1, <3>2, <1>5, <1>10
    <3> QED
      BY <3>4, <3>5, <1>8
  <2> QED
    BY <2>2, <2>3
<1>12. AnonymousEmpty'
  BY <1>4, <1>9, <1>10 DEF ClaimsTraced, AnonymousEmpty
<1>13. CodeTraced'
  BY <1>2, <1>4, <1>5, <1>8 DEF ClaimsTraced, CodeTraced, TypeOK, Code
<1> QED
  BY <1>11, <1>12, <1>13

(* An interaction nobody finished yet carries no result to trace.          *)
LEMMA InteractionStep ==
    ASSUME TypeOK, ClaimsTraced, spent \subseteq spent', UNCHANGED <<disclosed, request>>,
           NEW i \in InteractionUid, NEW n \in Interaction \cup {None},
           interaction' = [interaction EXCEPT ![i] = n],
           n # None => i \in spent' /\ ResultTraced(n)',
           n # None => \/ interaction[i] # None
                         /\ interaction[i].client = n.client /\ interaction[i].scope = n.scope
                       \/ i \notin spent
    PROVE  InteractionTraced' /\ RequestTraced'
<1> USE NoneFacts
<1>1. InteractionTraced'
  <2>1. SUFFICES ASSUME NEW x \in InteractionUid, NEW m, m = interaction'[x], m # None
                 PROVE  x \in spent' /\ ResultTraced(m)'
    BY DEF InteractionTraced
  <2>2. CASE x = i
    BY <2>1, <2>2 DEF TypeOK
  <2>3. CASE x # i
    BY <2>1, <2>3, ResultMonotone DEF ClaimsTraced, InteractionTraced, TypeOK
  <2> QED
    BY <2>2, <2>3
<1>2. RequestTraced'
  <2>1. SUFFICES ASSUME NEW x \in Request, NEW p \in Handling, p = request[x]
                 PROVE  PostTraced(p)'
    BY DEF RequestTraced, TypeOK
  <2>2. PostTraced(p) /\ p.uid \in InteractionUid
    BY <2>1 DEF ClaimsTraced, RequestTraced, Handling
  <2> QED
    BY <2>2, BackedMetaMonotone DEF PostTraced, TypeOK
<1> QED
  BY <1>1, <1>2

LEMMA TracedNext == TypeOK /\ ClaimsTraced /\ [Next]_vars => ClaimsTraced'
<1> SUFFICES ASSUME TypeOK, ClaimsTraced, [Next]_vars PROVE ClaimsTraced'
  OBVIOUS
<1> USE NoneFacts
<1>1. ASSUME NEW b \in Browser, Visit(b) PROVE ClaimsTraced'
  <2>1. PICK u \in SessionUid :
           session' = [session EXCEPT ![u] = NewSession] /\ spent' = spent \cup {u}
    BY <1>1 DEF Visit
  <2>2. SessionTraced' /\ AnonymousEmpty'
    <3>1. SUFFICES ASSUME NEW x \in SessionUid, NEW z, z = session'[x], z # None,
                          NEW c \in Client
                   PROVE  /\ BackedMeta(c, z.meta[c])'
                          /\ z.granted[c] \subseteq Abstract!Consented(c, z.account)'
                          /\ z.account = None => z.granted[c] = {}
      BY DEF SessionTraced, AnonymousEmpty
    <3>2. /\ BackedMeta(c, z.meta[c])
          /\ z.granted[c] \subseteq Abstract!Consented(c, z.account)
          /\ z.account = None => z.granted[c] = {}
      <4>1. CASE x = u
        BY <4>1, <3>1, <2>1, BackedEmptyMeta DEF TypeOK, NewSession
      <4>2. CASE x # u
        BY <4>2, <3>1, <2>1 DEF TypeOK, ClaimsTraced, SessionTraced, AnonymousEmpty
      <4> QED
        BY <4>1, <4>2
    <3> QED
      BY <3>2, <1>1, BackedMetaMonotone, ConsentedMonotone DEF Visit
  <2> QED
    BY <1>1, <2>1, <2>2, KeepRequest, KeepInteraction, KeepCode DEF Visit, ClaimsTraced
<1>2. ASSUME NEW b \in Browser, CloseBrowser(b) PROVE ClaimsTraced'
  BY <1>2, KeepSession, KeepRequest, KeepInteraction, KeepCode DEF CloseBrowser, ClaimsTraced
<1>3. ASSUME NEW u \in SessionUid, session' = [session EXCEPT ![u] = None], UNCHANGED disclosed
      PROVE  SessionTraced' /\ AnonymousEmpty'
  <2>1. SUFFICES ASSUME NEW x \in SessionUid, NEW z, z = session'[x], z # None, NEW c \in Client
                 PROVE  /\ BackedMeta(c, z.meta[c])'
                        /\ z.granted[c] \subseteq Abstract!Consented(c, z.account)'
                        /\ z.account = None => z.granted[c] = {}
    BY DEF SessionTraced, AnonymousEmpty
  <2>2. z = session[x]
    BY <2>1, <1>3 DEF TypeOK
  <2> QED
    BY <2>1, <2>2, <1>3, BackedMetaMonotone, ConsentedMonotone
       DEF ClaimsTraced, SessionTraced, AnonymousEmpty
<1>4. ASSUME NEW u \in SessionUid, EndSession(u) PROVE ClaimsTraced'
  BY <1>3, <1>4, KeepRequest, KeepInteraction, KeepCode DEF EndSession, ClaimsTraced
<1>5. ASSUME NEW b \in Browser, NEW c \in Client, NEW s \in Scope, StartInteraction(b, c, s)
      PROVE  ClaimsTraced'
  <2>1. PICK u \in SessionOf(b), i \in InteractionUid, n \in Interaction :
           /\ n = [browser |-> b, client |-> c, scope |-> s,
                   session |-> IF session[u].account = None THEN None ELSE u,
                   result  |-> None]
           /\ i \notin spent
           /\ interaction' = [interaction EXCEPT ![i] = n]
           /\ spent' = spent \cup {i}
    BY <1>5 DEF StartInteraction, Interaction, SessionOf
  <2>2. n.result \notin LoginResult
    BY <2>1 DEF Interaction, SessionOf
  <2>3. ResultTraced(n)'
    BY <2>2 DEF ResultTraced
  <2>4. InteractionTraced' /\ RequestTraced'
    BY <1>5, <2>1, <2>2, <2>3, InteractionStep DEF StartInteraction
  <2> QED
    BY <1>5, <2>4, KeepSession, KeepCode DEF StartInteraction, ClaimsTraced
<1>6. ASSUME NEW b \in Browser, NEW c \in Client, NEW s \in Scope, IssueSilently(b, c, s)
      PROVE  ClaimsTraced'
  <2>1. PICK u \in SessionOf(b) :
           /\ ChecksPass(u, c, s)
           /\ code' = code \cup {[session |-> u, client |-> c, scope |-> s,
                                  account |-> session[u].account]}
    BY <1>6 DEF IssueSilently
  <2>2. ValuesOf[s] \subseteq Abstract!Consented(c, session[u].account)
    BY <2>1 DEF ChecksPass, SessionOf, ClaimsTraced, SessionTraced
  <2>3. UNCHANGED disclosed
    BY <1>6 DEF IssueSilently
  <2>4. CodeTraced'
    BY <2>1, <2>2, <2>3 DEF ClaimsTraced, CodeTraced, Abstract!Consented
  <2> QED
    BY <1>6, <2>4, KeepSession, KeepRequest, KeepInteraction DEF IssueSilently, ClaimsTraced
<1>7. ASSUME NEW r \in Request, NEW p \in Handling \cup {None},
             UNCHANGED <<session, interaction, code, spent, disclosed>>,
             request' = [request EXCEPT ![r] = p],
             p # None => PostTraced(p)
      PROVE  ClaimsTraced'
  <2>1. RequestTraced'
    <3>1. SUFFICES ASSUME NEW x \in Request, NEW y, y = request'[x], y # None
                   PROVE  PostTraced(y)'
      BY DEF RequestTraced
    <3>2. PostTraced(y)
      BY <1>7, <3>1 DEF TypeOK, ClaimsTraced, RequestTraced
    <3> QED
      BY <3>2, <1>7, BackedMetaMonotone DEF PostTraced
  <2> QED
    BY <1>7, <2>1, KeepSession, KeepInteraction, KeepCode DEF ClaimsTraced
<1>8. ASSUME NEW r \in Request, NEW i \in InteractionUid, NEW a \in Account,
             NEW p \in Presentation, Submit(r, i, a, p)
      PROVE  ClaimsTraced'
  <2>1. PICK q : /\ q = [uid |-> i,
                         details |-> [client |-> interaction[i].client,
                                      scope |-> interaction[i].scope,
                                      session |-> interaction[i].session],
                         iss |-> a, presented |-> Range(p), todo |-> p,
                         trusted |-> {}, untrusted |-> {}, previous |-> None]
                 /\ request' = [request EXCEPT ![r] = q]
    BY <1>8 DEF Submit
  <2>2. q \in Handling \cup {None}
    <3>1. request'[r] = q
      BY <2>1 DEF TypeOK
    <3> QED
      BY <3>1, TypeNext DEF TypeOK
  <2>3. i \in spent
    BY <1>8 DEF Submit, ClaimsTraced, InteractionTraced
  <2>4. PostTraced(q)
    BY <2>1, <2>3 DEF PostTraced
  <2> QED
    BY <1>8, <1>7, <2>1, <2>2, <2>4 DEF Submit
<1>9. ASSUME NEW r \in Request, NEW status \in VerifyStatus, Verify(r, status) PROVE ClaimsTraced'
  <2>1. PICK old \in Handling : old = request[r]
    BY <1>9 DEF TypeOK, Verify
  <2>2. PICK q : /\ q = request'[r]
                 /\ q = [old EXCEPT
                      !.todo = Tail(@),
                      !.trusted = IF IsTrusted(Head(old.todo), old.iss, status)
                                  THEN @ \cup {Head(old.todo)} ELSE @,
                      !.untrusted = IF IsTrusted(Head(old.todo), old.iss, status)
                                    THEN @ ELSE @ \cup {Head(old.todo)}]
                 /\ request' = [request EXCEPT ![r] = q]
    BY <1>9, <2>1 DEF Verify, TypeOK
  <2>3. q \in Handling \cup {None}
    BY <2>2, TypeNext DEF TypeOK
  <2>4. q.previous = old.previous /\ q.details = old.details /\ q.uid = old.uid
    BY <2>2 DEF Handling
  <2>5. PostTraced(old)
    BY <2>1 DEF ClaimsTraced, RequestTraced
  <2>6. PostTraced(q)
    BY <2>4, <2>5 DEF PostTraced
  <2> QED
    BY <1>9, <1>7, <2>2, <2>3, <2>6 DEF Verify
<1>10. ASSUME NEW r \in Request, RejectMalformed(r) PROVE ClaimsTraced'
  BY <1>10, <1>7 DEF RejectMalformed
<1>11. ASSUME NEW r \in Request, ReadSession(r) PROVE ClaimsTraced'
  BY <1>11, ReadTraced, KeepSession, KeepInteraction, KeepCode DEF ReadSession, ClaimsTraced
<1>12. ASSUME NEW r \in Request, Finish(r) PROVE ClaimsTraced'
  BY <1>12, FinishTraced
<1>13. ASSUME NEW i \in InteractionUid, Abort(i) PROVE ClaimsTraced'
  <2>1. PICK n : n = [interaction[i] EXCEPT !.result = Denied]
    OBVIOUS
  <2>2. interaction[i] \in Interaction /\ i \in spent
    BY <1>13 DEF Abort, TypeOK, ClaimsTraced, InteractionTraced
  <2>3. /\ n \in Interaction /\ n.result = Denied
        /\ n.client = interaction[i].client /\ n.scope = interaction[i].scope
    BY <2>1, <2>2 DEF Interaction
  <2>4. ResultTraced(n)'
    BY <2>3 DEF ResultTraced
  <2>5. InteractionTraced' /\ RequestTraced'
    BY <1>13, <2>1, <2>2, <2>3, <2>4, InteractionStep DEF Abort
  <2> QED
    BY <1>13, <2>5, KeepSession, KeepCode DEF Abort, ClaimsTraced
<1>14. ASSUME NEW i \in InteractionUid, ExpireInteraction(i) PROVE ClaimsTraced'
  <2>1. InteractionTraced' /\ RequestTraced'
    BY <1>14, InteractionStep DEF ExpireInteraction
  <2> QED
    BY <1>14, <2>1, KeepSession, KeepCode DEF ExpireInteraction, ClaimsTraced
<1>15. ASSUME NEW i \in InteractionUid, Resume(i) PROVE ClaimsTraced'
  <2>1. InteractionTraced' /\ RequestTraced'
    BY <1>15, InteractionStep DEF Resume
  <2> QED
    BY <1>15, <2>1, ResumeTraced DEF ClaimsTraced
<1>16. ASSUME NEW i \in InteractionUid, SwitchAccount(i) PROVE ClaimsTraced'
  <2>1. PICK n : n = [interaction[i] EXCEPT !.session = None]
    OBVIOUS
  <2>2. interaction[i] \in Interaction /\ i \in spent /\ ResultTraced(interaction[i])
    BY <1>16 DEF SwitchAccount, TypeOK, ClaimsTraced, InteractionTraced
  <2>3. /\ n \in Interaction /\ n.result = interaction[i].result
        /\ n.client = interaction[i].client /\ n.scope = interaction[i].scope
    BY <2>1, <2>2 DEF Interaction
  <2>4. ResultTraced(n)
    BY <2>2, <2>3 DEF ResultTraced
  <2>5. ResultTraced(n)'
    BY <1>16, <2>4, ResultMonotone DEF SwitchAccount
  <2>6. InteractionTraced' /\ RequestTraced'
    BY <1>16, <2>1, <2>2, <2>3, <2>5, InteractionStep DEF SwitchAccount
  <2>7. SessionTraced' /\ AnonymousEmpty'
    BY <1>16, <1>3 DEF SwitchAccount
  <2> QED
    BY <1>16, <2>6, <2>7, KeepCode DEF SwitchAccount, ClaimsTraced
<1>17. ASSUME NEW i \in InteractionUid, ResumeDenied(i) PROVE ClaimsTraced'
  <2>1. InteractionTraced' /\ RequestTraced'
    BY <1>17, InteractionStep DEF ResumeDenied
  <2> QED
    BY <1>17, <2>1, KeepSession, KeepCode DEF ResumeDenied, ClaimsTraced
<1>18. ASSUME NEW k \in code, Redeem(k) PROVE ClaimsTraced'
  BY <1>18, KeepSession, KeepRequest, KeepInteraction, KeepCode DEF Redeem, ClaimsTraced
<1>19. ASSUME NEW k \in code, ExpireCode(k) PROVE ClaimsTraced'
  BY <1>19, KeepSession, KeepRequest, KeepInteraction, KeepCode DEF ExpireCode, ClaimsTraced
<1>20. CASE Restart
  <2>1. RequestTraced'
    BY <1>20 DEF Restart, RequestTraced
  <2>2. InteractionTraced'
    <3>1. CASE UNCHANGED interaction
      BY <1>20, <3>1, KeepInteraction DEF Restart, ClaimsTraced
    <3>2. CASE interaction' = [i \in InteractionUid |-> None]
      BY <3>2 DEF InteractionTraced
    <3> QED
      BY <1>20, <3>1, <3>2 DEF Restart
  <2> QED
    BY <1>20, <2>1, <2>2, KeepSession, KeepCode DEF Restart, ClaimsTraced
<1>21. CASE UNCHANGED vars
  BY <1>21, KeepSession, KeepRequest, KeepInteraction, KeepCode DEF vars, ClaimsTraced
<1> QED
  BY <1>1, <1>2, <1>4, <1>5, <1>6, <1>8, <1>9, <1>10, <1>11, <1>12, <1>13, <1>14,
     <1>15, <1>16, <1>17, <1>18, <1>19, <1>20, <1>21 DEF Next, Handle

(* Claims and grants stay with the client, the scope and the user they     *)
(* belong to, whatever the interleaving.                                   *)
THEOREM TracedCorrect == Spec => []ClaimsTraced
<1>1. TypeOK /\ ClaimsTraced /\ [Next]_vars => (TypeOK /\ ClaimsTraced)'
  BY TypeNext, TracedNext
<1> QED
  BY <1>1, TypeInit, TracedInit, PTL DEF Spec

-----------------------------------------------------------------------------
(* Sorting the credentials.                                                *)

LEMMA RangeHeadTail ==
    ASSUME NEW S, NEW q \in Seq(S), q # <<>>
    PROVE  Range(q) = {Head(q)} \cup Range(Tail(q))
<1>1. ASSUME NEW x \in Range(q) PROVE x \in {Head(q)} \cup Range(Tail(q))
  <2>1. PICK n \in 1..Len(q) : x = q[n]
    BY DEF Range
  <2>2. CASE n = 1
    BY <2>1, <2>2
  <2>3. CASE n # 1
    <3>1. n - 1 \in 1..Len(Tail(q)) /\ Tail(q)[n - 1] = q[n]
      BY <2>1, <2>3
    <3>2. Tail(q) \in Seq(S)
      OBVIOUS
    <3>3. n - 1 \in DOMAIN Tail(q)
      BY <3>1, <3>2
    <3>4. x \in Range(Tail(q))
      BY <2>1, <3>1, <3>3 DEF Range
    <3> QED
      BY <3>4
  <2> QED
    BY <2>2, <2>3
<1>2. ASSUME NEW x \in {Head(q)} \cup Range(Tail(q)) PROVE x \in Range(q)
  <2>1. CASE x = Head(q)
    <3>1. 1 \in DOMAIN q /\ x = q[1]
      BY <2>1
    <3> QED
      BY <3>1 DEF Range
  <2>2. CASE x \in Range(Tail(q))
    <3>1. PICK n \in 1..Len(Tail(q)) : x = Tail(q)[n]
      BY <2>2 DEF Range
    <3>2. n + 1 \in 1..Len(q) /\ Tail(q)[n] = q[n + 1]
      BY <3>1
    <3> QED
      BY <3>1, <3>2 DEF Range
  <2> QED
    BY <1>2, <2>1, <2>2
<1> QED
  BY <1>1, <1>2

LEMMA RangeEmpty == Range(<<>>) = {}
BY DEF Range

(* One turn of the loop moves the head of the list into one of the two.    *)
LEMMA VerifySorted ==
    ASSUME TypeOK, NEW r \in Request, NEW status \in VerifyStatus, Verify(r, status),
           PostSorted(request[r])
    PROVE  PostSorted(request[r])'
<1> USE NoneFacts
<1>1. PICK old \in Handling : old = request[r] /\ old.todo # <<>>
  BY DEF TypeOK, Verify
<1>2. PICK v \in Credential : v = Head(old.todo)
  BY <1>1 DEF Handling
<1>3. PICK q : /\ q = request'[r]
               /\ q = [old EXCEPT
                    !.todo = Tail(@),
                    !.trusted = IF IsTrusted(v, old.iss, status) THEN @ \cup {v} ELSE @,
                    !.untrusted = IF IsTrusted(v, old.iss, status) THEN @ ELSE @ \cup {v}]
  BY <1>1, <1>2 DEF Verify, TypeOK
<1>4. /\ q.todo = Tail(old.todo) /\ q.presented = old.presented
      /\ q.iss = old.iss /\ q.previous = old.previous
      /\ q.trusted = IF IsTrusted(v, old.iss, status) THEN old.trusted \cup {v} ELSE old.trusted
      /\ q.untrusted = IF IsTrusted(v, old.iss, status)
                       THEN old.untrusted ELSE old.untrusted \cup {v}
  BY <1>3 DEF Handling
<1>5. PostSorted(old)
  BY <1>1
<1>6. q.trusted \cup q.untrusted \cup Range(q.todo) = q.presented
  <2>1. Range(old.todo) = {v} \cup Range(Tail(old.todo))
    BY <1>1, <1>2, RangeHeadTail DEF Handling
  <2>2. CASE IsTrusted(v, old.iss, status)
    <3>1. q.trusted = old.trusted \cup {v} /\ q.untrusted = old.untrusted
      BY <2>2, <1>4
    <3> QED
      BY <2>1, <3>1, <1>4, <1>5 DEF PostSorted
  <2>3. CASE ~IsTrusted(v, old.iss, status)
    <3>1. q.trusted = old.trusted /\ q.untrusted = old.untrusted \cup {v}
      BY <2>3, <1>4
    <3> QED
      BY <2>1, <3>1, <1>4, <1>5 DEF PostSorted
  <2> QED
    BY <2>2, <2>3
<1>7. Sorted(q.iss, q.trusted)'
  <2>1. verified \subseteq verified' /\ (status = 0 => v \in verified')
    BY <1>1, <1>2 DEF Verify
  <2>2. CASE IsTrusted(v, old.iss, status)
    <3>1. q.trusted = old.trusted \cup {v}
      BY <2>2, <1>4
    <3>2. status = 0 /\ SubjectOf[v] = old.iss
      BY <2>2 DEF IsTrusted
    <3> QED
      BY <2>1, <3>1, <3>2, <1>4, <1>5 DEF PostSorted, Sorted
  <2>3. CASE ~IsTrusted(v, old.iss, status)
    <3>1. q.trusted = old.trusted
      BY <2>3, <1>4
    <3> QED
      BY <2>1, <3>1, <1>4, <1>5 DEF PostSorted, Sorted
  <2> QED
    BY <2>2, <2>3
<1>8. q.previous = None
  BY <1>1, <1>4, <1>5 DEF PostSorted
<1>9. PostSorted(q)'
  BY <1>6, <1>7, <1>8 DEF PostSorted
<1> QED
  BY <1>3, <1>9 DEF PostSorted, Sorted

LEMMA SortedMonotone ==
    ASSUME verified \subseteq verified', NEW sub, NEW trusted, Sorted(sub, trusted)
    PROVE  Sorted(sub, trusted)'
BY DEF Sorted

LEMMA PostSortedMonotone ==
    ASSUME verified \subseteq verified', NEW q, PostSorted(q)
    PROVE  PostSorted(q)'
BY SortedMonotone DEF PostSorted

(* What is disclosed is sorted, and so is what the last token carries.     *)
DisclosedSorted ==
    /\ \A d \in disclosed : Sorted(d.claims.sub, d.claims.trusted)
    /\ token # None => Sorted(token.claims.sub, token.claims.trusted)

LEMMA PostsSortedNext ==
    ASSUME TypeOK, PostsSorted, [Next]_vars
    PROVE  PostsSorted'
<1> USE NoneFacts
<1>1. verified \subseteq verified'
  BY DEF Next, Handle, vars, Visit, CloseBrowser, EndSession, ExpireInteraction, ExpireCode, Restart,
         StartInteraction, IssueSilently, Submit, Verify, RejectMalformed, ReadSession, Finish,
         Abort, Resume, SwitchAccount, ResumeDenied, Redeem
<1>2. ASSUME NEW r \in Request, NEW q, request' = [request EXCEPT ![r] = q],
             q # None => PostSorted(q)
      PROVE  PostsSorted'
  <2>1. SUFFICES ASSUME NEW x \in Request, NEW y, y = request'[x], y # None
                 PROVE  PostSorted(y)'
    BY DEF PostsSorted
  <2>2. PostSorted(y)
    BY <1>2, <2>1 DEF TypeOK, PostsSorted
  <2> QED
    BY <2>2, <1>1, PostSortedMonotone
<1>3. CASE UNCHANGED request
  <2>1. SUFFICES ASSUME NEW x \in Request, NEW y, y = request[x], y # None
                 PROVE  PostSorted(y)'
    BY <1>3 DEF PostsSorted
  <2> QED
    BY <2>1, <1>1, PostSortedMonotone DEF PostsSorted
<1>4. ASSUME NEW r \in Request, NEW i \in InteractionUid, NEW a \in Account,
             NEW p \in Presentation, Submit(r, i, a, p)
      PROVE  PostsSorted'
  <2>1. PICK q : /\ q = [uid |-> i,
                         details |-> [client |-> interaction[i].client,
                                      scope |-> interaction[i].scope,
                                      session |-> interaction[i].session],
                         iss |-> a, presented |-> Range(p), todo |-> p,
                         trusted |-> {}, untrusted |-> {}, previous |-> None]
                 /\ request' = [request EXCEPT ![r] = q]
    BY <1>4 DEF Submit
  <2>2. PostSorted(q)
    BY <2>1 DEF PostSorted, Sorted
  <2> QED
    BY <1>2, <2>1, <2>2
<1>5. ASSUME NEW r \in Request, NEW status \in VerifyStatus, Verify(r, status) PROVE PostsSorted'
  <2>1. PostSorted(request[r])'
    BY <1>5, VerifySorted DEF PostsSorted, Verify
  <2>2. SUFFICES ASSUME NEW x \in Request, NEW y, y = request'[x], y # None
                 PROVE  PostSorted(y)'
    BY DEF PostsSorted
  <2>3. CASE x = r
    BY <2>1, <2>2, <2>3 DEF PostSorted, Sorted
  <2>4. CASE x # r
    <3>1. y = request[x]
      BY <1>5, <2>2, <2>4 DEF Verify, TypeOK
    <3> QED
      BY <3>1, <2>2, <1>1, PostSortedMonotone DEF PostsSorted
  <2> QED
    BY <2>3, <2>4
<1>6. ASSUME NEW r \in Request, ReadSession(r) PROVE PostsSorted'
  <2>1. PICK old \in Handling : old = request[r] /\ old.todo = <<>> /\ PostSorted(old)
    BY <1>6 DEF ReadSession, TypeOK, PostsSorted
  <2>2. PICK q : q = [old EXCEPT !.previous = PreviousMeta(old.details)]
    OBVIOUS
  <2>3. PostSorted(q)
    BY <2>1, <2>2 DEF PostSorted, Handling
  <2>4. request' = [request EXCEPT ![r] = q]
    BY <1>6, <2>1, <2>2 DEF ReadSession, TypeOK
  <2> QED
    BY <1>2, <2>3, <2>4
<1>7. ASSUME NEW r \in Request, RejectMalformed(r) \/ Finish(r) PROVE PostsSorted'
  BY <1>2, <1>7 DEF RejectMalformed, Finish
<1>8. CASE Restart
  BY <1>8 DEF Restart, PostsSorted
<1> QED
  BY <1>3, <1>4, <1>5, <1>6, <1>7, <1>8
     DEF Next, Handle, vars, Visit, CloseBrowser, EndSession, ExpireInteraction, ExpireCode,
         StartInteraction, IssueSilently, Abort, Resume, SwitchAccount, ResumeDenied, Redeem

(* What findAccount returns was disclosed, to the client and for the scope *)
(* of the code.                                                            *)
LEMMA FoundBacked ==
    ASSUME TypeOK, ClaimsTraced, NEW k \in code, FindAccount(k) # None
    PROVE  Abstract!Backed(k.client, k.scope, FindAccount(k))
<1>1. k.session \in SessionUid /\ k.client \in Client /\ k.scope \in Scope
  BY DEF TypeOK, Code
<1>2. session[k.session] # None /\ FindAccount(k) = session[k.session].meta[k.client][k.scope]
  BY DEF FindAccount
<1> QED
  BY <1>1, <1>2 DEF ClaimsTraced, SessionTraced, BackedMeta

LEMMA DisclosedSortedNext ==
    ASSUME TypeOK, ClaimsTraced, PostsSorted, DisclosedSorted, [Next]_vars
    PROVE  DisclosedSorted'
<1> USE NoneFacts
<1>1. CASE UNCHANGED <<disclosed, token>> /\ verified \subseteq verified'
  BY <1>1, SortedMonotone DEF DisclosedSorted
<1>2. ASSUME NEW r \in Request, Finish(r) PROVE DisclosedSorted'
  <2>1. PICK q \in Handling : q = request[r] /\ PostSorted(q)
    BY <1>2 DEF TypeOK, Finish, PostsSorted
  <2>2. UNCHANGED <<token, verified>>
    BY <1>2 DEF Finish
  <2>3. \A d \in disclosed' : Sorted(d.claims.sub, d.claims.trusted)
    <3>1. SUFFICES ASSUME NEW d \in disclosed', d \notin disclosed
                   PROVE  Sorted(d.claims.sub, d.claims.trusted)
      BY DEF DisclosedSorted
    <3>2. d.claims = ClaimsOf(q)
      BY <1>2, <2>1, <3>1 DEF Finish
    <3> QED
      BY <2>1, <3>2 DEF ClaimsOf, PostSorted
  <2> QED
    BY <2>2, <2>3 DEF DisclosedSorted, Sorted
<1>3. ASSUME NEW k \in code, Redeem(k) PROVE DisclosedSorted'
  <2>1. UNCHANGED <<disclosed, verified>> /\ token'.claims = FindAccount(k)
    BY <1>3 DEF Redeem
  <2>2. PICK d \in disclosed : d.claims = FindAccount(k)
    BY <1>3, FoundBacked DEF Redeem, Abstract!Backed
  <2> QED
    BY <2>1, <2>2 DEF DisclosedSorted, Sorted
<1> QED
  BY <1>1, <1>2, <1>3
     DEF Next, Handle, vars, Visit, CloseBrowser, EndSession, ExpireInteraction, ExpireCode, Restart,
         StartInteraction, IssueSilently, Submit, Verify, RejectMalformed, ReadSession,
         Abort, Resume, SwitchAccount, ResumeDenied

(* The conjunction that is inductive.                                      *)
IInv == TypeOK /\ ClaimsTraced /\ PostsSorted /\ DisclosedSorted

LEMMA Inductive == Spec => []IInv
<1>1. Init => IInv
  BY TypeInit, TracedInit, NoneFacts DEF Init, IInv, PostsSorted, DisclosedSorted
<1>2. IInv /\ [Next]_vars => IInv'
  BY TypeNext, TracedNext, PostsSortedNext, DisclosedSortedNext DEF IInv
<1> QED
  BY <1>1, <1>2, PTL DEF Spec

(* Every post accounts for every presented credential, at every point of   *)
(* the loop.                                                               *)
THEOREM PostsSortedCorrect == Spec => []PostsSorted
<1>1. IInv => PostsSorted
  BY DEF IInv
<1> QED
  BY <1>1, Inductive, PTL

(* Every trusted credential a session or a token holds was vouched for by  *)
(* the credential service and is about the subject of its claims.          *)
THEOREM SortedCorrect == Spec => []CredentialsSorted
<1>1. ASSUME IInv PROVE CredentialsSorted
  <2>1. ASSUME NEW d \in disclosed PROVE Sorted(d.claims.sub, d.claims.trusted)
    BY <1>1 DEF IInv, DisclosedSorted
  <2>2. ASSUME token # None PROVE Sorted(token.claims.sub, token.claims.trusted)
    BY <1>1, <2>2 DEF IInv, DisclosedSorted
  <2>3. ASSUME NEW u \in SessionUid, session[u] # None, NEW c \in Client, NEW s \in Scope,
               session[u].meta[c][s] # None
        PROVE  Sorted(session[u].meta[c][s].sub, session[u].meta[c][s].trusted)
    <3>1. Abstract!Backed(c, s, session[u].meta[c][s])
      BY <1>1, <2>3 DEF IInv, ClaimsTraced, SessionTraced, BackedMeta
    <3>2. PICK d \in disclosed : d.claims = session[u].meta[c][s]
      BY <3>1 DEF Abstract!Backed
    <3> QED
      BY <2>1, <3>2
  <2>4. SUFFICES ASSUME NEW claims \in StoredClaims PROVE Sorted(claims.sub, claims.trusted)
    BY DEF CredentialsSorted
  <2>5. CASE \E d \in disclosed : claims = d.claims
    BY <2>1, <2>5
  <2>6. CASE token # None /\ claims = token.claims
    BY <2>2, <2>6
  <2>7. CASE \E u \in SessionUid, c \in Client, s \in Scope :
               session[u] # None /\ claims = session[u].meta[c][s] /\ claims # None
    BY <2>3, <2>7
  <2> QED
    BY <2>4, <2>5, <2>6, <2>7 DEF StoredClaims
<1> QED
  BY <1>1, Inductive, PTL

-----------------------------------------------------------------------------
(* Refinement.                                                             *)

LEMMA AbstractInit == Init => Abstract!Init
BY DEF Init, Abstract!Init

LEMMA SameTypes == Disclosure = Abstract!Disclosure /\ Token = Abstract!Token
BY DEF Disclosure, Abstract!Disclosure, Token, Abstract!Token, Claims, Abstract!Claims

LEMMA AbstractNext ==
    ASSUME IInv, IInv', [Next]_vars
    PROVE  [Abstract!Next]_<<disclosed, token>>
<1> USE NoneFacts
<1>1. ASSUME NEW r \in Request, Finish(r) PROVE [Abstract!Next]_<<disclosed, token>>
  <2>1. PICK q \in Handling : q = request[r] /\ PostSorted(q) /\ q.previous # None
    BY <1>1 DEF IInv, TypeOK, Finish, PostsSorted
  <2>2. CASE interaction[q.uid] = None
    BY <1>1, <2>1, <2>2 DEF Finish
  <2>3. CASE interaction[q.uid] # None
    <3> DEFINE d == [client |-> q.details.client, scope |-> q.details.scope,
                     claims |-> ClaimsOf(q), presented |-> q.presented]
    <3>1. disclosed' = disclosed \cup {d} /\ UNCHANGED token
      BY <1>1, <2>1, <2>3 DEF Finish
    <3>2. d \in Abstract!Disclosure
      BY SameTypes, ClaimsOfType DEF Disclosure, Handling
    <3>3. Abstract!Complete(d)
      BY <2>1, RangeEmpty DEF Abstract!Complete, PostSorted, ClaimsOf
    <3> QED
      BY <3>1, <3>2, <3>3 DEF Abstract!Next, Abstract!Disclose
  <2> QED
    BY <2>2, <2>3
<1>2. ASSUME NEW k \in code, Redeem(k) PROVE [Abstract!Next]_<<disclosed, token>>
  <2> DEFINE t == [client |-> k.client, scope |-> k.scope,
                   sub |-> k.account, claims |-> FindAccount(k)]
  <2>1. token' = t /\ UNCHANGED disclosed
    BY <1>2 DEF Redeem
  <2>2. t \in Abstract!Token
    BY <1>2, SameTypes, FindAccountType DEF Token, IInv, TypeOK, Code, Redeem
  <2>3. Abstract!Backed(t.client, t.scope, t.claims)
    BY <1>2, FoundBacked DEF IInv, Redeem
  <2>4. ValuesOf[t.scope] \subseteq Abstract!Consented(t.client, t.sub)
    BY DEF IInv, ClaimsTraced, CodeTraced
  <2> QED
    BY <2>1, <2>2, <2>3, <2>4 DEF Abstract!Next, Abstract!Issue
<1>3. CASE UNCHANGED <<disclosed, token>>
  BY <1>3
<1> QED
  BY <1>1, <1>2, <1>3
     DEF Next, Handle, vars, Visit, CloseBrowser, EndSession, ExpireInteraction, ExpireCode, Restart,
         StartInteraction, IssueSilently, Submit, Verify, RejectMalformed, ReadSession,
         Abort, Resume, SwitchAccount, ResumeDenied

(* The provider keeps what Issuance promises a relying party, for any      *)
(* number of browsers, clients, users, scopes and concurrent posts.        *)
THEOREM Implementation == Spec => ImplementsIssuance
BY AbstractInit, AbstractNext, Inductive, PTL DEF Spec, ImplementsIssuance, Abstract!Spec
=============================================================================
