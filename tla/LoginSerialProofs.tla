------------------------- MODULE LoginSerialProofs --------------------------
(***************************************************************************)
(* Proofs about Login when a client has one interaction open at a time: a  *)
(* session loses no disclosure, and a code it issued can be redeemed.      *)
(* Without that condition neither holds (finding 1 of README.md), so it is *)
(* a hypothesis of both theorems.                                          *)
(***************************************************************************)
EXTENDS LoginProofs, FiniteSetTheorems

(* No two scopes overlap so that one is covered by the words of others.    *)
ScopesApart ==
    \A s \in Scope, T \in SUBSET Scope :
        ValuesOf[s] \subseteq UNION {ValuesOf[t] : t \in T} => s \in T

(* MaxOpen = 1: no two interactions of a client are open.                  *)
OneOpen ==
    \A i, j \in InteractionUid :
        interaction[i] # None /\ interaction[j] # None
            /\ interaction[i].client = interaction[j].client => i = j

(* Every identifier in use was drawn, so one drawn later is in no          *)
(* document.                                                               *)
Drawn ==
    /\ \A b \in Browser : cookie[b] # None => cookie[b] \in spent
    /\ \A u \in SessionUid : session[u] # None => u \in spent
    /\ \A i \in InteractionUid :
           interaction[i] # None /\ interaction[i].session # None => interaction[i].session \in spent
    /\ \A k \in code : k.session \in spent

(* A session without an account holds no disclosures: resume with an       *)
(* account creates them, and logout gives a new session.                   *)
AnonymousForgets ==
    \A u \in SessionUid : session[u] # None /\ session[u].account = None =>
        \A c \in Client : session[u].meta[c] = EmptyMeta

(* m has claims wherever n has.                                            *)
Covers(m, n) == \A s \in Scope : n[s] # None => m[s] # None

(* m, on its way to the session of interaction n, covers what that session *)
(* has now. This is what two open interactions break (finding 1).          *)
Remembers(n, m) ==
    n.session # None /\ session[n.session] # None => Covers(m, session[n.session].meta[n.client])

(* The result that waits in an interaction; one that began without a       *)
(* session resumes in one that has nothing of this client to lose.         *)
ResultRemembers(i) ==
    /\ interaction[i].session = None =>
           \A u \in SessionOf(interaction[i].browser) :
               session[u].meta[interaction[i].client] = EmptyMeta
    /\ interaction[i].result \in LoginResult =>
           Remembers(interaction[i], interaction[i].result.meta)

(* ... in every interaction.                                               *)
InteractionRemembers ==
    \A i \in InteractionUid : interaction[i] # None => ResultRemembers(i)

(* The copy of the metadata a post holds between ReadSession and Finish,   *)
(* and the session it read them from: that of the interaction unless the   *)
(* account was switched since.                                             *)
CopyRemembers(q) ==
    /\ interaction[q.uid].session \in {None, q.details.session}
    /\ q.previous # None => Remembers(interaction[q.uid], q.previous)

(* ... in every post whose interaction still exists.                       *)
PostRemembers ==
    \A r \in Request :
        request[r] # None /\ interaction[request[r].uid] # None => CopyRemembers(request[r])

(* What is inductive, with IInv, when MaxOpen = 1.                         *)
SerialInv == OneOpen /\ Drawn /\ AnonymousForgets /\ InteractionRemembers /\ PostRemembers

(* Words a session granted a client are words of scopes under which it     *)
(* stores claims, so that a request passing on grants alone finds some.    *)
GrantsRemembered ==
    \A u \in SessionUid : session[u] # None =>
        \A c \in Client :
            session[u].granted[c]
                \subseteq UNION {ValuesOf[s] : s \in {x \in Scope : session[u].meta[c][x] # None}}

(* The result of a login has claims under the scope its code will name.    *)
ResultCarries ==
    \A i \in InteractionUid :
        interaction[i] # None /\ interaction[i].result \in LoginResult =>
            interaction[i].result.meta[interaction[i].scope] # None

(* What is inductive for CodeRedeemable, with IInv and SerialInv.          *)
RedeemInv == CodeRedeemable /\ GrantsRemembered /\ ResultCarries

-----------------------------------------------------------------------------

LEMMA SerialInit == Init => SerialInv
BY DEF Init, SerialInv, OneOpen, Drawn, AnonymousForgets, InteractionRemembers, PostRemembers

(* Steps that leave the documents alone, or only remove some of them, and  *)
(* advance no post past its await.                                         *)
LEMMA SerialQuiet ==
    ASSUME SerialInv, spent' = spent,
           code' \subseteq code,
           \A b \in Browser : cookie'[b] \in {cookie[b], None},
           \A u \in SessionUid : session'[u] \in {session[u], None},
           \A i \in InteractionUid : interaction'[i] \in {interaction[i], None},
           \A i \in InteractionUid : interaction[i] # None => interaction[i] \in Interaction,
           \A r \in Request : request[r] # None => request[r] \in Handling,
           \A r \in Request :
               request'[r] # None =>
                   /\ request[r] # None
                   /\ request'[r].uid = request[r].uid
                   /\ request'[r].details = request[r].details
                   /\ request'[r].previous = request[r].previous
    PROVE  SerialInv'
<1>1. OneOpen' /\ Drawn'
  BY DEF SerialInv, OneOpen, Drawn
<1>2. AnonymousForgets'
  BY DEF SerialInv, AnonymousForgets
<1>3. ASSUME NEW n \in Interaction, NEW m, Remembers(n, m) PROVE Remembers(n, m)'
  BY <1>3 DEF Remembers, Covers, Interaction
<1>4. InteractionRemembers'
  <2>1. SUFFICES ASSUME NEW i \in InteractionUid, interaction'[i] # None
        PROVE  ResultRemembers(i)'
    BY DEF InteractionRemembers
  <2>2. interaction'[i] = interaction[i] /\ interaction[i] # None /\ interaction[i] \in Interaction
    BY <2>1
  <2> DEFINE n == interaction[i]
  <2>3. \A u \in SessionOf(n.browser)' : u \in SessionOf(n.browser) /\ session'[u] = session[u]
    BY <2>2, NoneFacts DEF SessionOf, Interaction
  <2>4. ResultRemembers(i)
    BY <2>2 DEF SerialInv, InteractionRemembers
  <2>5. n.result \in LoginResult => Remembers(n, n.result.meta)'
    BY <2>2, <2>4, <1>3 DEF ResultRemembers
  <2> QED
    BY <2>2, <2>3, <2>4, <2>5 DEF ResultRemembers
<1>5. PostRemembers'
  <2>1. SUFFICES ASSUME NEW r \in Request, request'[r] # None, interaction'[request'[r].uid] # None
        PROVE  CopyRemembers(request[r])'
    BY DEF PostRemembers
  <2> DEFINE q == request[r]
  <2>2. /\ q # None /\ q.uid \in InteractionUid
        /\ q'.uid = q.uid /\ q'.details = q.details /\ q'.previous = q.previous
    BY <2>1 DEF Handling
  <2>3. /\ interaction'[q.uid] = interaction[q.uid]
        /\ interaction[q.uid] # None
        /\ interaction[q.uid] \in Interaction
    BY <2>1, <2>2
  <2>4. CopyRemembers(q)
    BY <2>2, <2>3 DEF SerialInv, PostRemembers
  <2>5. q.previous # None => Remembers(interaction[q.uid], q.previous)'
    BY <2>2, <2>3, <2>4, <1>3 DEF CopyRemembers
  <2> QED
    BY <2>2, <2>3, <2>4, <2>5 DEF CopyRemembers
<1> QED
  BY <1>1, <1>2, <1>4, <1>5 DEF SerialInv

(* A session drawn by a request has no past.                               *)
LEMMA SerialVisit ==
    ASSUME TypeOK, SerialInv, NEW b \in Browser, Visit(b)
    PROVE  SerialInv'
<1>1. PICK u \in SessionUid \ spent :
          /\ session' = [session EXCEPT ![u] = NewSession]
          /\ cookie' = [cookie EXCEPT ![b] = u]
          /\ spent' = spent \cup {u}
          /\ UNCHANGED <<interaction, request, code, token, disclosed, verified>>
  BY DEF Visit
<1>2. session[u] = None /\ NewSession # None
  BY <1>1, NoneFacts, NewSessionType DEF SerialInv, Drawn
<1>3. session'[u] = NewSession /\ \A v \in SessionUid \ {u} : session'[v] = session[v]
  BY <1>1 DEF TypeOK
<1>4. \A c \in Client : NewSession.meta[c] = EmptyMeta
  BY DEF NewSession
<1>5. OneOpen' /\ Drawn'
  BY <1>1, <1>3 DEF SerialInv, OneOpen, Drawn, TypeOK
<1>6. AnonymousForgets'
  BY <1>3, <1>4 DEF SerialInv, AnonymousForgets
<1>7. ASSUME NEW i \in InteractionUid, interaction[i] # None, NEW m, Remembers(interaction[i], m)
      PROVE  Remembers(interaction[i], m)'
  <2>1. interaction[i].session # None =>
            interaction[i].session \in spent /\ interaction[i].session \in SessionUid
    BY <1>7 DEF SerialInv, Drawn, TypeOK, Interaction
  <2> QED
    BY <1>1, <1>3, <1>7, <2>1 DEF Remembers, Covers
<1>8. InteractionRemembers'
  <2>1. SUFFICES ASSUME NEW i \in InteractionUid, interaction[i] # None PROVE ResultRemembers(i)'
    BY <1>1 DEF InteractionRemembers
  <2>2. ResultRemembers(i) /\ interaction[i] \in Interaction
    BY <2>1 DEF SerialInv, InteractionRemembers, TypeOK
  <2>3. \A v \in SessionOf(interaction[i].browser)' :
            v = u \/ (v \in SessionOf(interaction[i].browser) /\ session'[v] = session[v])
    BY <1>1, <1>3, <2>2 DEF SessionOf, TypeOK, Interaction
  <2>4. interaction[i].client \in Client
    BY <2>2 DEF Interaction
  <2> QED
    BY <1>1, <1>3, <1>4, <1>7, <2>1, <2>2, <2>3, <2>4 DEF ResultRemembers
<1>9. PostRemembers'
  <2>1. SUFFICES ASSUME NEW r \in Request, request[r] # None, interaction[request[r].uid] # None
        PROVE  CopyRemembers(request[r])'
    BY <1>1 DEF PostRemembers
  <2>2. CopyRemembers(request[r]) /\ request[r].uid \in InteractionUid
    BY <2>1 DEF SerialInv, PostRemembers, TypeOK, Handling
  <2> QED
    BY <1>1, <1>7, <2>1, <2>2 DEF CopyRemembers
<1> QED
  BY <1>5, <1>6, <1>8, <1>9 DEF SerialInv

(* With MaxOpen = 1 an interaction is the only one of its client, and what *)
(* its session knows of the client does not change while it is open.       *)
LEMMA OnlyOne ==
    ASSUME SerialInv, MaxOpen = 1, NEW c, Cardinality(Open(c)) < MaxOpen
    PROVE  Open(c) = {}
<1> SUFFICES ASSUME NEW i \in Open(c) PROVE FALSE
  OBVIOUS
<1>1. Open(c) = {i}
  BY DEF SerialInv, OneOpen, Open
<1> QED
  BY <1>1, FS_Singleton

(* A new interaction is the only one of its client.                        *)
LEMMA SerialStart ==
    ASSUME TypeOK, ClaimsTraced, SerialInv, MaxOpen = 1,
           NEW b \in Browser, NEW c \in Client, NEW s \in Scope, StartInteraction(b, c, s)
    PROVE  SerialInv'
<1> USE NoneFacts
<1>1. PICK u \in SessionOf(b), i \in InteractionUid \ spent :
          /\ interaction' = [interaction EXCEPT ![i] =
                 [browser |-> b, client |-> c, scope |-> s,
                  session |-> IF session[u].account = None THEN None ELSE u,
                  result  |-> None]]
          /\ spent' = spent \cup {i}
          /\ UNCHANGED <<session, cookie, request, code, token, disclosed, verified>>
  BY DEF StartInteraction
<1>2. u \in SessionUid /\ u = cookie[b] /\ session[u] # None /\ u \in spent
  BY DEF SessionOf, SerialInv, Drawn
<1>3. Open(c) = {}
  BY OnlyOne DEF StartInteraction
<1> DEFINE n == [browser |-> b, client |-> c, scope |-> s,
                 session |-> IF session[u].account = None THEN None ELSE u,
                 result  |-> None]
<1>4. interaction'[i] = n /\ \A j \in InteractionUid \ {i} : interaction'[j] = interaction[j]
  BY <1>1 DEF TypeOK
<1>5. OneOpen'
  BY <1>3, <1>4 DEF SerialInv, OneOpen, Open
<1>6. Drawn'
  BY <1>1, <1>2, <1>4 DEF SerialInv, Drawn
<1>7. AnonymousForgets'
  BY <1>1 DEF SerialInv, AnonymousForgets
<1>8. InteractionRemembers'
  <2>1. ASSUME session[u].account = None
        PROVE  \A v \in SessionOf(b) : session[v].meta[c] = EmptyMeta
    BY <1>2, <2>1 DEF SerialInv, AnonymousForgets, SessionOf
  <2>2. ResultRemembers(i)'
    BY <1>1, <1>2, <1>4, <2>1 DEF ResultRemembers, SessionOf
  <2>3. ASSUME NEW j \in InteractionUid \ {i}, interaction[j] # None PROVE ResultRemembers(j)'
    BY <1>1, <1>4, <2>3
       DEF SerialInv, InteractionRemembers, ResultRemembers, Remembers, Covers, SessionOf
  <2> QED
    BY <1>4, <2>2, <2>3 DEF InteractionRemembers
<1>9. PostRemembers'
  <2>1. SUFFICES ASSUME NEW r \in Request, request[r] # None, interaction'[request[r].uid] # None
        PROVE  CopyRemembers(request[r])'
    BY <1>1 DEF PostRemembers
  <2>2. request[r].uid \in spent /\ request[r].uid \in InteractionUid
    BY <2>1 DEF ClaimsTraced, RequestTraced, PostTraced, TypeOK, Handling
  <2>3. interaction'[request[r].uid] = interaction[request[r].uid]
    BY <1>4, <2>2
  <2>4. CopyRemembers(request[r])
    BY <2>1, <2>3 DEF SerialInv, PostRemembers
  <2> QED
    BY <1>1, <2>3, <2>4 DEF CopyRemembers, Remembers, Covers
<1> QED
  BY <1>5, <1>6, <1>7, <1>8, <1>9 DEF SerialInv

(* A post takes the session of its interaction as it is then.              *)
LEMMA SerialSubmit ==
    ASSUME TypeOK, SerialInv, NEW r \in Request, NEW i \in InteractionUid, NEW a \in Account,
           NEW p \in Presentation, Submit(r, i, a, p)
    PROVE  SerialInv'
<1>1. /\ request'[r].uid = i /\ request'[r].previous = None
      /\ request'[r].details.session = interaction[i].session
      /\ \A x \in Request \ {r} : request'[x] = request[x]
      /\ UNCHANGED <<session, cookie, interaction, code, token, spent, disclosed, verified>>
  BY DEF Submit, TypeOK
<1>2. OneOpen' /\ Drawn' /\ AnonymousForgets' /\ InteractionRemembers'
  BY <1>1 DEF SerialInv, OneOpen, Drawn, AnonymousForgets, InteractionRemembers,
              ResultRemembers, Remembers, Covers, SessionOf
<1>3. PostRemembers'
  <2>1. CopyRemembers(request'[r])
    BY <1>1 DEF CopyRemembers
  <2>2. \A x \in Request \ {r} :
            request[x] # None /\ interaction[request[x].uid] # None => CopyRemembers(request[x])
    BY DEF SerialInv, PostRemembers
  <2> QED
    BY <1>1, <2>1, <2>2 DEF PostRemembers, CopyRemembers, Remembers, Covers
<1> QED
  BY <1>2, <1>3 DEF SerialInv

(* What a post copies covers what it copies.                               *)
LEMMA SerialRead ==
    ASSUME TypeOK, ClaimsTraced, SerialInv, NEW r \in Request, ReadSession(r)
    PROVE  SerialInv'
<1> USE NoneFacts
<1> DEFINE q == request[r]
<1>1. /\ q \in Handling /\ q # None
      /\ request'[r] = [q EXCEPT !.previous = PreviousMeta(q.details)]
      /\ \A x \in Request \ {r} : request'[x] = request[x]
      /\ UNCHANGED <<session, cookie, interaction, code, token, spent, disclosed, verified>>
  BY DEF ReadSession, TypeOK
<1>2. OneOpen' /\ Drawn' /\ AnonymousForgets' /\ InteractionRemembers'
  BY <1>1 DEF SerialInv, OneOpen, Drawn, AnonymousForgets, InteractionRemembers,
              ResultRemembers, Remembers, Covers, SessionOf
<1>3. ASSUME interaction[q.uid] # None PROVE CopyRemembers(request'[r])
  <2>1. CopyRemembers(q) /\ interaction[q.uid].client = q.details.client
    BY <1>1, <1>3
       DEF SerialInv, PostRemembers, ClaimsTraced, RequestTraced, PostTraced
  <2>2. request'[r].uid = q.uid /\ request'[r].details = q.details
        /\ request'[r].previous = PreviousMeta(q.details)
    BY <1>1 DEF Handling
  <2> QED
    BY <2>1, <2>2 DEF CopyRemembers, Remembers, Covers, PreviousMeta
<1>4. PostRemembers'
  <2>1. \A x \in Request \ {r} :
            request[x] # None /\ interaction[request[x].uid] # None => CopyRemembers(request[x])
    BY DEF SerialInv, PostRemembers
  <2>2. request'[r].uid = q.uid
    BY <1>1 DEF Handling
  <2>3. SUFFICES ASSUME NEW x \in Request, request'[x] # None, interaction[request'[x].uid] # None
        PROVE  CopyRemembers(request'[x])
    BY <1>1 DEF PostRemembers, CopyRemembers, Remembers, Covers
  <2> QED
    BY <1>1, <1>3, <2>1, <2>2, <2>3
<1> QED
  BY <1>2, <1>4 DEF SerialInv

(* The result a post leaves covers what its copy did.                      *)
LEMMA ResultCovers ==
    ASSUME NEW q \in Handling, q.previous # None, NEW n, Covers(q.previous, n)
    PROVE  Covers(LoginResultOf(q).meta, n) /\ LoginResultOf(q).meta[q.details.scope] # None
<1>1. q.previous \in Meta /\ q.details.scope \in Scope
  BY DEF Handling
<1>2. ClaimsOf(q) # None
  BY NoneFacts, ClaimsOfType
<1> QED
  BY <1>1, <1>2 DEF Covers, LoginResultOf, Meta

(* Posts and aborts replace the result of an interaction and nothing else  *)
(* that is remembered.                                                     *)
LEMMA SerialResult ==
    ASSUME TypeOK, SerialInv, NEW i \in InteractionUid, interaction[i] # None,
           NEW n \in Interaction,
           n.browser = interaction[i].browser, n.client = interaction[i].client,
           n.session = interaction[i].session,
           n.result \in LoginResult => Remembers(n, n.result.meta),
           interaction' = [interaction EXCEPT ![i] = n],
           \A r \in Request : request'[r] \in {request[r], None},
           UNCHANGED <<session, cookie, code, spent>>
    PROVE  SerialInv'
<1> USE NoneFacts
<1>1. /\ interaction'[i] = n /\ n # None
      /\ \A j \in InteractionUid \ {i} : interaction'[j] = interaction[j]
  BY DEF TypeOK
<1>2. \A j \in InteractionUid :
          /\ interaction'[j] # None <=> interaction[j] # None
          /\ interaction'[j].browser = interaction[j].browser
          /\ interaction'[j].client = interaction[j].client
          /\ interaction'[j].session = interaction[j].session
  BY <1>1
<1>3. OneOpen' /\ Drawn' /\ AnonymousForgets'
  BY <1>2 DEF SerialInv, OneOpen, Drawn, AnonymousForgets
<1>4. ASSUME NEW j \in InteractionUid, interaction[j] # None PROVE ResultRemembers(j)'
  <2>1. ResultRemembers(j)
    BY <1>4 DEF SerialInv, InteractionRemembers
  <2>2. CASE j = i
    BY <1>1, <2>1, <2>2 DEF ResultRemembers, Remembers, Covers, SessionOf
  <2>3. CASE j # i
    BY <1>1, <2>1, <2>3 DEF ResultRemembers, Remembers, Covers, SessionOf
  <2> QED
    BY <2>2, <2>3
<1>5. PostRemembers'
  <2>1. SUFFICES ASSUME NEW r \in Request, request'[r] # None, interaction'[request'[r].uid] # None
        PROVE  CopyRemembers(request[r])'
    BY DEF PostRemembers
  <2>2. request'[r] = request[r] /\ request[r].uid \in InteractionUid
    BY <2>1 DEF TypeOK, Handling
  <2>3. CopyRemembers(request[r])
    BY <1>2, <2>1, <2>2 DEF SerialInv, PostRemembers
  <2> DEFINE m == interaction[request[r].uid]
  <2>4. m'.session = m.session /\ m'.client = m.client
    BY <1>2, <2>2
  <2>5. \A copy : Remembers(m, copy) => Remembers(m, copy)'
    BY <2>4 DEF Remembers, Covers
  <2> QED
    BY <2>2, <2>3, <2>4, <2>5 DEF CopyRemembers
<1> QED
  BY <1>2, <1>3, <1>4, <1>5 DEF SerialInv, InteractionRemembers

(* The result is put together from the copy, which covers the session.     *)
LEMMA SerialFinish ==
    ASSUME TypeOK, SerialInv, NEW r \in Request, Finish(r)
    PROVE  SerialInv'
<1> USE NoneFacts
<1> DEFINE q == request[r]
<1>1. /\ q \in Handling /\ q # None /\ q.previous # None /\ q.uid \in InteractionUid
      /\ request' = [request EXCEPT ![r] = None]
      /\ UNCHANGED <<session, cookie, code, token, spent, verified>>
  BY DEF Finish, TypeOK, Handling
<1>2. CASE interaction[q.uid] = None
  <2>1. UNCHANGED interaction
    BY <1>2 DEF Finish
  <2> QED
    BY <1>1, <2>1, SerialQuiet DEF TypeOK
<1>3. CASE interaction[q.uid] # None
  <2> DEFINE n == [interaction[q.uid] EXCEPT !.result = LoginResultOf(q)]
  <2>1. interaction' = [interaction EXCEPT ![q.uid] = n] /\ interaction[q.uid] \in Interaction
    BY <1>1, <1>3 DEF Finish, TypeOK
  <2>2. /\ n.browser = interaction[q.uid].browser
        /\ n.client = interaction[q.uid].client
        /\ n.session = interaction[q.uid].session
        /\ n.result = LoginResultOf(q)
        /\ n \in Interaction
    BY <2>1, <1>1, LoginResultOfType DEF Interaction
  <2>3. CopyRemembers(q)
    BY <1>1, <1>3 DEF SerialInv, PostRemembers
  <2> HIDE DEF n
  <2>4. Remembers(n, n.result.meta)
    BY <1>1, <2>2, <2>3, ResultCovers DEF CopyRemembers, Remembers
  <2>5. \A x \in Request : request'[x] \in {request[x], None}
    BY <1>1 DEF TypeOK
  <2> QED
    BY <1>1, <1>3, <2>1, <2>2, <2>4, <2>5, SerialResult
<1> QED
  BY <1>2, <1>3

(* A refusal carries no metadata.                                          *)
LEMMA SerialAbort ==
    ASSUME TypeOK, SerialInv, NEW i \in InteractionUid, Abort(i)
    PROVE  SerialInv'
<1> DEFINE n == [interaction[i] EXCEPT !.result = Denied]
<1>1. /\ interaction[i] # None /\ interaction[i] \in Interaction
      /\ interaction' = [interaction EXCEPT ![i] = n]
      /\ UNCHANGED <<session, cookie, request, code, token, spent, disclosed, verified>>
  BY DEF Abort, TypeOK
<1>2. /\ n.browser = interaction[i].browser /\ n.client = interaction[i].client
      /\ n.session = interaction[i].session /\ n.result = Denied /\ n \in Interaction
  BY <1>1 DEF Interaction
<1> HIDE DEF n
<1> QED
  BY <1>1, <1>2, NoneFacts, SerialResult

(* Resuming adds to what the session knows of the client of the            *)
(* interaction, and nothing to what it knows of others.                    *)
LEMMA ResumeKeeps ==
    ASSUME TypeOK, SerialInv, NEW i \in InteractionUid, NEW u \in SessionUid,
           interaction[i] # None, interaction[i].result \in LoginResult, CanResume(i, u)
    PROVE  Covers(interaction[i].result.meta, session[u].meta[interaction[i].client])
<1>1. u \in SessionOf(interaction[i].browser) /\ interaction[i].session \in {None, u}
  BY DEF CanResume
<1>2. ResultRemembers(i)
  BY DEF SerialInv, InteractionRemembers
<1>3. CASE interaction[i].session = None
  <2>1. session[u].meta[interaction[i].client] = EmptyMeta
    BY <1>1, <1>2, <1>3 DEF ResultRemembers
  <2> QED
    BY <2>1 DEF Covers, EmptyMeta
<1>4. CASE interaction[i].session = u
  BY <1>1, <1>2, <1>4, NoneFacts DEF ResultRemembers, Remembers, SessionOf
<1> QED
  BY <1>1, <1>3, <1>4

(* What Resume does, taken apart.                                          *)
LEMMA ResumeEffect ==
    ASSUME TypeOK, NEW i \in InteractionUid, Resume(i)
    PROVE  /\ interaction[i] # None
           /\ interaction[i].result \in LoginResult
           /\ interaction[i].client \in Client
           /\ interaction[i].scope \in Scope
           /\ interaction' = [interaction EXCEPT ![i] = None]
           /\ \E u \in SessionUid :
                /\ CanResume(i, u)
                /\ session[u] # None /\ session'[u] # None
                /\ session'[u].account = interaction[i].result.account
                /\ interaction[i].result.account # None
                /\ session'[u].meta[interaction[i].client] = interaction[i].result.meta
                /\ session'[u].granted[interaction[i].client] =
                       session[u].granted[interaction[i].client] \cup ValuesOf[interaction[i].scope]
                /\ \A c \in Client \ {interaction[i].client} :
                       /\ session'[u].meta[c] = session[u].meta[c]
                       /\ session'[u].granted[c] = session[u].granted[c]
                /\ \A v \in SessionUid \ {u} : session'[v] = session[v]
                /\ code' = code \cup {[session |-> u, client |-> interaction[i].client,
                                       scope |-> interaction[i].scope,
                                       account |-> interaction[i].result.account]}
<1> USE NoneFacts
<1> DEFINE res == interaction[i].result
           c   == interaction[i].client
           s   == interaction[i].scope
<1>1. PICK u \in SessionUid :
         /\ CanResume(i, u)
         /\ session' = [session EXCEPT
                ![u].account = res.account,
                ![u].granted[c] = @ \cup ValuesOf[s],
                ![u].meta[c] = res.meta]
         /\ code' = code \cup {[session |-> u, client |-> c, scope |-> s,
                                account |-> res.account]}
  BY DEF Resume
<1>2. /\ interaction[i] # None /\ interaction[i] \in Interaction /\ res \in LoginResult
      /\ session[u] \in Session
  BY <1>1 DEF TypeOK, Resume, CanResume, SessionOf
<1>3. c \in Client /\ s \in Scope /\ res.account \in Account
  BY <1>2 DEF Interaction, LoginResult
<1> DEFINE d == [session[u] EXCEPT !.account = res.account,
                                   !.granted[c] = @ \cup ValuesOf[s],
                                   !.meta[c] = res.meta]
<1>4. /\ session'[u] = d
      /\ \A v \in SessionUid \ {u} : session'[v] = session[v]
  BY <1>1 DEF TypeOK
<1>5. /\ d.account = res.account
      /\ d.meta[c] = res.meta
      /\ d.granted[c] = session[u].granted[c] \cup ValuesOf[s]
      /\ \A x \in Client \ {c} :
             d.meta[x] = session[u].meta[x] /\ d.granted[x] = session[u].granted[x]
  BY <1>2, <1>3 DEF Session
<1>6. d # None /\ session[u] # None
  <2>1. d \in [account : Account, granted : [Client -> SUBSET ScopeValue], meta : [Client -> Meta]]
    BY <1>2, <1>3, ConstantsAssumption DEF Session, LoginResult
  <2>2. d \in Session
    BY <2>1 DEF Session
  <2> QED
    BY <1>2, <2>2
<1> HIDE DEF d
<1> QED
  BY <1>1, <1>2, <1>3, <1>4, <1>5, <1>6 DEF Resume

(* The session takes the result, which covers what it had; it was the only *)
(* interaction of the client, so nobody else holds a copy of what it had   *)
(* before.                                                                 *)
LEMMA SerialResume ==
    ASSUME TypeOK, SerialInv, NEW i \in InteractionUid, Resume(i)
    PROVE  SerialInv'
<1> USE NoneFacts
<1> DEFINE c == interaction[i].client
<1>1. PICK u \in SessionUid :
          /\ CanResume(i, u)
          /\ session[u] # None /\ session'[u] # None
          /\ session'[u].account # None
          /\ \A x \in Client \ {c} : session'[u].meta[x] = session[u].meta[x]
          /\ \A v \in SessionUid \ {u} : session'[v] = session[v]
          /\ code' = code \cup {[session |-> u, client |-> c,
                                 scope |-> interaction[i].scope,
                                 account |-> interaction[i].result.account]}
  BY ResumeEffect
<1>2. /\ interaction[i] # None /\ interaction'[i] = None
      /\ \A j \in InteractionUid \ {i} : interaction'[j] = interaction[j]
      /\ UNCHANGED <<cookie, request, spent>>
  <2>1. /\ interaction[i] # None
        /\ interaction' = [interaction EXCEPT ![i] = None]
    BY ResumeEffect
  <2>2. UNCHANGED <<cookie, request, spent>>
    BY DEF Resume
  <2> QED
    BY <2>1, <2>2 DEF TypeOK
<1>3. ASSUME NEW j \in InteractionUid \ {i}, interaction[j] # None
      PROVE  interaction[j].client \in Client \ {c} /\ interaction[j].browser \in Browser
  BY <1>2, <1>3 DEF SerialInv, OneOpen, TypeOK, Interaction
<1>4. ASSUME NEW j \in InteractionUid \ {i}, interaction[j] # None, NEW n, n = interaction[j],
             NEW m, Remembers(n, m)
      PROVE  Remembers(n, m)'
  <2>1. interaction[j].session = None \/ interaction[j].session \in SessionUid
    BY <1>4 DEF TypeOK, Interaction
  <2> QED
    BY <1>1, <1>2, <1>3, <1>4, <2>1 DEF Remembers, Covers
<1>5. OneOpen' /\ Drawn'
  BY <1>1, <1>2 DEF SerialInv, OneOpen, Drawn
<1>6. AnonymousForgets'
  BY <1>1 DEF SerialInv, AnonymousForgets
<1>7. ASSUME NEW j \in InteractionUid \ {i}, interaction[j] # None PROVE ResultRemembers(j)'
  <2>1. ResultRemembers(j)
    BY <1>7 DEF SerialInv, InteractionRemembers
  <2>2. \A v \in SessionOf(interaction[j].browser)' :
            /\ v \in SessionOf(interaction[j].browser)
            /\ session'[v].meta[interaction[j].client] = session[v].meta[interaction[j].client]
    BY <1>1, <1>2, <1>3, <1>7 DEF SessionOf
  <2>3. interaction[j].result \in LoginResult =>
            Remembers(interaction[j], interaction[j].result.meta)'
    BY <1>2, <1>4, <1>7, <2>1 DEF ResultRemembers
  <2> QED
    BY <1>2, <2>1, <2>2, <2>3 DEF ResultRemembers
<1>8. PostRemembers'
  <2>1. SUFFICES ASSUME NEW r \in Request, request[r] # None, interaction'[request[r].uid] # None
        PROVE  CopyRemembers(request[r])'
    BY <1>2 DEF PostRemembers
  <2>2. request[r].uid \in InteractionUid \ {i}
    BY <1>2, <2>1 DEF TypeOK, Handling
  <2>3. interaction'[request[r].uid] = interaction[request[r].uid]
    BY <1>2, <2>2
  <2>4. CopyRemembers(request[r])
    BY <2>1, <2>3 DEF SerialInv, PostRemembers
  <2>5. request[r].previous # None => Remembers(interaction[request[r].uid], request[r].previous)'
    BY <1>2, <1>4, <2>1, <2>2, <2>3, <2>4 DEF CopyRemembers
  <2> QED
    BY <1>2, <2>3, <2>4, <2>5 DEF CopyRemembers
<1> QED
  BY <1>2, <1>5, <1>6, <1>7, <1>8 DEF SerialInv, InteractionRemembers

(* An interaction that waits for the next session of its browser finds it  *)
(* empty.                                                                  *)
LEMMA SerialSwitch ==
    ASSUME TypeOK, SerialInv, NEW i \in InteractionUid, SwitchAccount(i)
    PROVE  SerialInv'
<1> USE NoneFacts
<1> DEFINE n == [interaction[i] EXCEPT !.session = None]
           b == interaction[i].browser
<1>1. PICK u \in SessionUid : session' = [session EXCEPT ![u] = None]
  BY DEF SwitchAccount
<1>2. /\ interaction[i] # None /\ interaction[i] \in Interaction
      /\ interaction'[i] = n
      /\ \A j \in InteractionUid \ {i} : interaction'[j] = interaction[j]
      /\ cookie' = [cookie EXCEPT ![b] = None]
      /\ UNCHANGED <<request, code, spent>>
  BY DEF SwitchAccount, TypeOK
<1>3. /\ n.browser = b /\ n.client = interaction[i].client /\ n.session = None
      /\ n # None /\ b \in Browser /\ n \in Interaction
  BY <1>2 DEF Interaction
<1> HIDE DEF n
<1>4. \A v \in SessionUid : session'[v] \in {session[v], None}
  BY <1>1 DEF TypeOK
<1>5. OneOpen' /\ AnonymousForgets'
  BY <1>2, <1>3, <1>4 DEF SerialInv, OneOpen, AnonymousForgets
<1>6. Drawn'
  BY <1>2, <1>3, <1>4 DEF SerialInv, Drawn, TypeOK
<1>7. ASSUME NEW j \in InteractionUid \ {i}, interaction[j] # None, NEW m,
             Remembers(interaction[j], m)
      PROVE  Remembers(interaction[j], m)'
  <2>1. interaction[j].session = None \/ interaction[j].session \in SessionUid
    BY <1>7 DEF TypeOK, Interaction
  <2> QED
    BY <1>2, <1>4, <1>7, <2>1 DEF Remembers, Covers
<1>8. InteractionRemembers'
  <2>1. ResultRemembers(i)'
    <3>1. SessionOf(b)' = {}
      BY <1>2, <1>3 DEF SessionOf, TypeOK
    <3> QED
      BY <1>2, <1>3, <3>1 DEF ResultRemembers, Remembers
  <2>2. ASSUME NEW j \in InteractionUid \ {i}, interaction[j] # None PROVE ResultRemembers(j)'
    <3>1. ResultRemembers(j) /\ interaction[j].browser \in Browser
      BY <2>2 DEF SerialInv, InteractionRemembers, TypeOK, Interaction
    <3>2. \A v \in SessionOf(interaction[j].browser)' :
              v \in SessionOf(interaction[j].browser) /\ session'[v] = session[v]
      BY <1>2, <1>4, <3>1 DEF SessionOf, TypeOK
    <3>3. interaction[j].result \in LoginResult =>
              Remembers(interaction[j], interaction[j].result.meta)'
      BY <1>2, <1>7, <2>2, <3>1 DEF ResultRemembers
    <3> QED
      BY <1>2, <3>1, <3>2, <3>3 DEF ResultRemembers
  <2> QED
    BY <1>2, <2>1, <2>2 DEF InteractionRemembers
<1>9. PostRemembers'
  <2>1. SUFFICES ASSUME NEW r \in Request, request[r] # None, interaction'[request[r].uid] # None
        PROVE  CopyRemembers(request[r])'
    BY <1>2 DEF PostRemembers
  <2>2. request[r].uid \in InteractionUid
    BY <2>1 DEF TypeOK, Handling
  <2>3. CASE request[r].uid = i
    BY <1>2, <1>3, <2>3 DEF CopyRemembers, Remembers
  <2>4. CASE request[r].uid # i
    <3>1. interaction'[request[r].uid] = interaction[request[r].uid]
      BY <1>2, <2>2, <2>4
    <3>2. CopyRemembers(request[r])
      BY <2>1, <3>1 DEF SerialInv, PostRemembers
    <3>3. request[r].previous # None =>
              Remembers(interaction[request[r].uid], request[r].previous)'
      BY <1>2, <1>7, <2>1, <2>2, <2>4, <3>1, <3>2 DEF CopyRemembers
    <3> QED
      BY <1>2, <3>1, <3>2, <3>3 DEF CopyRemembers
  <2> QED
    BY <2>3, <2>4
<1> QED
  BY <1>5, <1>6, <1>8, <1>9 DEF SerialInv

(* The steps that change neither documents that are remembered nor copies. *)
LEMMA SerialRest ==
    ASSUME TypeOK, SerialInv,
           \/ \E b \in Browser : CloseBrowser(b)
           \/ \E u \in SessionUid : EndSession(u)
           \/ \E r \in Request, status \in VerifyStatus : Verify(r, status)
           \/ \E r \in Request : RejectMalformed(r)
           \/ \E i \in InteractionUid : ExpireInteraction(i) \/ ResumeDenied(i)
           \/ \E k \in code : Redeem(k) \/ ExpireCode(k)
           \/ Restart
           \/ UNCHANGED vars
    PROVE  SerialInv'
<1> USE NoneFacts
<1>1. /\ spent' = spent
      /\ code' \subseteq code
      /\ \A b \in Browser : cookie'[b] \in {cookie[b], None}
      /\ \A u \in SessionUid : session'[u] \in {session[u], None}
      /\ \A i \in InteractionUid : interaction'[i] \in {interaction[i], None}
  BY DEF CloseBrowser, EndSession, Verify, RejectMalformed, ExpireInteraction, ResumeDenied,
         Redeem, ExpireCode, Restart, vars, TypeOK
<1>2. ASSUME NEW r \in Request, NEW status \in VerifyStatus, Verify(r, status),
             NEW x \in Request, request'[x] # None
      PROVE  /\ request[x] # None
             /\ request'[x].uid = request[x].uid
             /\ request'[x].details = request[x].details
             /\ request'[x].previous = request[x].previous
  <2>1. request[r] \in Handling
    BY <1>2 DEF Verify, TypeOK
  <2> QED
    BY <1>2, <2>1 DEF Verify, TypeOK, Handling
<1>3. \A x \in Request : request'[x] # None =>
          /\ request[x] # None
          /\ request'[x].uid = request[x].uid
          /\ request'[x].details = request[x].details
          /\ request'[x].previous = request[x].previous
  <2>1. CASE \E r \in Request, status \in VerifyStatus : Verify(r, status)
    BY <1>2, <2>1
  <2>2. CASE \A x \in Request : request'[x] \in {request[x], None}
    BY <2>2
  <2> QED
    BY <2>1, <2>2
       DEF CloseBrowser, EndSession, RejectMalformed, ExpireInteraction, ResumeDenied,
           Redeem, ExpireCode, Restart, vars, TypeOK
<1> QED
  BY <1>1, <1>3, SerialQuiet DEF TypeOK

(* Issuing without an interaction stores nothing in the session.           *)
LEMMA SerialSilently ==
    ASSUME TypeOK, SerialInv, NEW b \in Browser, NEW c \in Client, NEW s \in Scope,
           IssueSilently(b, c, s)
    PROVE  SerialInv'
<1>1. PICK u \in SessionOf(b) :
          /\ code' = code \cup {[session |-> u, client |-> c, scope |-> s,
                                 account |-> session[u].account]}
          /\ UNCHANGED <<session, cookie, interaction, request, token, spent, disclosed, verified>>
  BY DEF IssueSilently
<1>2. u \in spent
  BY DEF SerialInv, Drawn, SessionOf
<1>3. Drawn'
  BY <1>1, <1>2 DEF SerialInv, Drawn
<1> QED
  BY <1>1, <1>3
     DEF SerialInv, OneOpen, AnonymousForgets, InteractionRemembers, PostRemembers,
         ResultRemembers, CopyRemembers, Remembers, Covers, SessionOf

LEMMA SerialNext ==
    ASSUME TypeOK, ClaimsTraced, SerialInv, MaxOpen = 1, [Next]_vars
    PROVE  SerialInv'
BY SerialVisit, SerialStart, SerialSilently, SerialSubmit, SerialRead, SerialFinish, SerialAbort,
   SerialResume, SerialSwitch, SerialRest
   DEF Next, Handle

(* Only resuming changes what a session that stays knows of a client.      *)
LEMMA OnlyResumeWrites ==
    ASSUME TypeOK, [Next]_vars,
           NEW u \in SessionUid, session[u] # None, session'[u] # None, session'[u] # session[u]
    PROVE  \/ \E i \in InteractionUid : Resume(i)
           \/ u \notin spent
BY DEF Next, Handle, vars, Visit, CloseBrowser, EndSession, ExpireInteraction, ExpireCode, Restart,
       StartInteraction, IssueSilently, Submit, Verify, RejectMalformed, ReadSession, Finish,
       Abort, SwitchAccount, ResumeDenied, Redeem, TypeOK

(* No step loses claims of a session that survives it.                     *)
LEMMA KeptStep ==
    ASSUME TypeOK, SerialInv, [Next]_vars,
           NEW u \in SessionUid, session[u] # None, session'[u] # None, NEW c \in Client
    PROVE  Covers(session'[u].meta[c], session[u].meta[c])
<1>1. CASE session'[u] = session[u]
  BY <1>1 DEF Covers
<1>2. ASSUME session'[u] # session[u], NEW i \in InteractionUid, Resume(i)
      PROVE  Covers(session'[u].meta[c], session[u].meta[c])
  <2>1. PICK v \in SessionUid :
            /\ CanResume(i, v)
            /\ session'[v].meta[interaction[i].client] = interaction[i].result.meta
            /\ \A x \in Client \ {interaction[i].client} :
                   session'[v].meta[x] = session[v].meta[x]
            /\ \A x \in SessionUid \ {v} : session'[x] = session[x]
    BY <1>2, ResumeEffect
  <2>2. v = u
    BY <1>2, <2>1
  <2>3. Covers(interaction[i].result.meta, session[v].meta[interaction[i].client])
    BY <1>2, <2>1, ResumeEffect, ResumeKeeps
  <2> QED
    BY <2>1, <2>2, <2>3 DEF Covers
<1>3. u \in spent
  BY DEF SerialInv, Drawn
<1> QED
  BY <1>1, <1>2, <1>3, OnlyResumeWrites

LEMMA SerialInductive == ASSUME MaxOpen = 1 PROVE Spec => [](IInv /\ SerialInv)
<1>1. Init => SerialInv
  BY SerialInit
<1>2. IInv /\ SerialInv /\ [Next]_vars => SerialInv'
  BY SerialNext DEF IInv
<1> QED
  BY <1>1, <1>2, Inductive, PTL DEF Spec

(* ClaimsKept when a client has one interaction open at a time: a session  *)
(* forgets no disclosure, whatever posts, aborts, expiries, restarts and   *)
(* account switches cross on the way from the handler's read to the write. *)
THEOREM ClaimsKeptCorrect == ASSUME MaxOpen = 1 PROVE Spec => ClaimsKept
<1> DEFINE A == \A u \in SessionUid : session[u] # None /\ session'[u] # None =>
                    \A c \in Client, s \in Scope :
                        session[u].meta[c][s] # None => session'[u].meta[c][s] # None
<1>1. IInv /\ SerialInv /\ [Next]_vars => A
  BY KeptStep DEF IInv, Covers
<1>2. IInv /\ SerialInv /\ [Next]_vars => [A]_vars
  BY <1>1
<1> HIDE DEF A
<1>3. Spec => [][A]_vars
  BY <1>2, SerialInductive, PTL DEF Spec
<1> QED
  BY <1>3 DEF ClaimsKept, A

-----------------------------------------------------------------------------

(* A later login leaves the codes before it redeemable.                    *)
LEMMA RedeemableKept ==
    ASSUME TypeOK, SerialInv, CodeRedeemable, [Next]_vars,
           NEW k \in code, session'[k.session] # None
    PROVE  FindAccount(k)' # None
<1>1. k.session \in SessionUid /\ k.session \in spent /\ k.client \in Client /\ k.scope \in Scope
  BY DEF TypeOK, Code, SerialInv, Drawn
<1>2. session[k.session] # None
  <2>1. ASSUME NEW i \in InteractionUid, Resume(i) PROVE session[k.session] # None
    BY <1>1, <2>1, ResumeEffect
  <2>2. ASSUME NEW b \in Browser, Visit(b) PROVE session[k.session] # None
    BY <1>1, <2>2 DEF Visit, TypeOK
  <2> QED
    BY <1>1, <2>1, <2>2
       DEF Next, Handle, vars, CloseBrowser, EndSession, ExpireInteraction, ExpireCode, Restart,
           StartInteraction, IssueSilently, Submit, Verify, RejectMalformed, ReadSession, Finish,
           Abort, SwitchAccount, ResumeDenied, Redeem, TypeOK
<1>3. session[k.session].meta[k.client][k.scope] # None
  BY <1>2 DEF CodeRedeemable, FindAccount
<1>4. Covers(session'[k.session].meta[k.client], session[k.session].meta[k.client])
  BY <1>1, <1>2, KeptStep
<1> QED
  BY <1>1, <1>3, <1>4 DEF Covers, FindAccount

(* Words of the scopes with claims only grow.                              *)
LEMMA GrantsCovered ==
    ASSUME NEW m, NEW n, Covers(m, n)
    PROVE  UNION {ValuesOf[s] : s \in {x \in Scope : n[x] # None}}
               \subseteq UNION {ValuesOf[s] : s \in {x \in Scope : m[x] # None}}
BY DEF Covers

(* Resume stores claims under the scope its code names.                    *)
LEMMA RedeemResume ==
    ASSUME TypeOK, SerialInv, RedeemInv, NEW i \in InteractionUid, Resume(i)
    PROVE  RedeemInv'
<1> USE NoneFacts
<1> DEFINE c   == interaction[i].client
           s   == interaction[i].scope
           res == interaction[i].result
<1>1. PICK u \in SessionUid :
          /\ CanResume(i, u)
          /\ session[u] # None /\ session'[u] # None
          /\ session'[u].meta[c] = res.meta
          /\ session'[u].granted[c] = session[u].granted[c] \cup ValuesOf[s]
          /\ \A x \in Client \ {c} :
                 /\ session'[u].meta[x] = session[u].meta[x]
                 /\ session'[u].granted[x] = session[u].granted[x]
          /\ \A v \in SessionUid \ {u} : session'[v] = session[v]
          /\ code' = code \cup {[session |-> u, client |-> c, scope |-> s,
                                 account |-> res.account]}
  BY ResumeEffect
<1>2. /\ interaction[i] # None /\ res \in LoginResult /\ c \in Client /\ s \in Scope
      /\ interaction' = [interaction EXCEPT ![i] = None]
  BY ResumeEffect
<1>3. Covers(res.meta, session[u].meta[c]) /\ res.meta[s] # None
  BY <1>1, <1>2, ResumeKeeps DEF RedeemInv, ResultCarries
<1>4. CodeRedeemable'
  <2>1. SUFFICES ASSUME NEW k \in code', session'[k.session] # None
        PROVE  FindAccount(k)' # None
    BY DEF CodeRedeemable
  <2>2. CASE k \in code
    BY <2>1, <2>2, RedeemableKept DEF RedeemInv, Next
  <2>3. CASE k = [session |-> u, client |-> c, scope |-> s, account |-> res.account]
    BY <1>1, <1>3, <2>3 DEF FindAccount
  <2> QED
    BY <1>1, <2>2, <2>3
<1>5. GrantsRemembered'
  <2>1. SUFFICES ASSUME NEW v \in SessionUid, session'[v] # None, NEW d \in Client
        PROVE  session'[v].granted[d]
                   \subseteq UNION {ValuesOf[t] : t \in {x \in Scope : session'[v].meta[d][x] # None}}
    BY DEF GrantsRemembered
  <2>2. session[v] # None /\
        session[v].granted[d]
            \subseteq UNION {ValuesOf[t] : t \in {x \in Scope : session[v].meta[d][x] # None}}
    BY <1>1, <2>1 DEF RedeemInv, GrantsRemembered
  <2>3. CASE v = u /\ d = c
    <3>1. ValuesOf[s] \subseteq UNION {ValuesOf[t] : t \in {x \in Scope : res.meta[x] # None}}
      BY <1>2, <1>3
    <3>2. session[u].granted[c]
              \subseteq UNION {ValuesOf[t] : t \in {x \in Scope : res.meta[x] # None}}
      BY <1>3, <2>2, <2>3, GrantsCovered
    <3> QED
      BY <1>1, <2>3, <3>1, <3>2
  <2>4. CASE ~(v = u /\ d = c)
    BY <1>1, <2>2, <2>4
  <2> QED
    BY <2>3, <2>4
<1>6. ResultCarries'
  BY <1>2 DEF RedeemInv, ResultCarries, TypeOK
<1> QED
  BY <1>4, <1>5, <1>6 DEF RedeemInv

(* Finish puts claims under the scope of its interaction.                  *)
LEMMA RedeemFinish ==
    ASSUME TypeOK, ClaimsTraced, SerialInv, RedeemInv, NEW r \in Request, Finish(r)
    PROVE  RedeemInv'
<1> USE NoneFacts
<1> DEFINE q == request[r]
<1>1. /\ q \in Handling /\ q # None /\ q.previous # None /\ q.uid \in InteractionUid
      /\ UNCHANGED <<session, code>>
  BY DEF Finish, TypeOK, Handling
<1>2. CodeRedeemable' /\ GrantsRemembered'
  BY <1>1 DEF RedeemInv, CodeRedeemable, FindAccount, GrantsRemembered
<1>3. CASE interaction[q.uid] = None
  BY <1>2, <1>3 DEF Finish, RedeemInv, ResultCarries
<1>4. CASE interaction[q.uid] # None
  <2> DEFINE n == [interaction[q.uid] EXCEPT !.result = LoginResultOf(q)]
  <2>1. /\ interaction'[q.uid] = n
        /\ \A j \in InteractionUid \ {q.uid} : interaction'[j] = interaction[j]
        /\ interaction[q.uid] \in Interaction
    BY <1>1, <1>4 DEF Finish, TypeOK
  <2>2. n.result = LoginResultOf(q) /\ n.scope = q.details.scope
    BY <1>1, <1>4, <2>1 DEF Interaction, ClaimsTraced, RequestTraced, PostTraced
  <2> HIDE DEF n
  <2>3. Covers(q.previous, q.previous)
    BY DEF Covers
  <2>4. n.result.meta[n.scope] # None
    BY <1>1, <2>2, <2>3, ResultCovers
  <2>5. ResultCarries'
    BY <2>1, <2>4 DEF RedeemInv, ResultCarries
  <2> QED
    BY <1>2, <2>5 DEF RedeemInv
<1> QED
  BY <1>3, <1>4

(* A request passes without an interaction only when a login stored claims *)
(* under its very scope: no other scopes hold all its words.               *)
LEMMA RedeemSilently ==
    ASSUME TypeOK, ScopesApart, RedeemInv, NEW b \in Browser, NEW c \in Client, NEW s \in Scope,
           IssueSilently(b, c, s)
    PROVE  RedeemInv'
<1>1. PICK u \in SessionOf(b) :
          /\ ChecksPass(u, c, s)
          /\ code' = code \cup {[session |-> u, client |-> c, scope |-> s,
                                 account |-> session[u].account]}
          /\ UNCHANGED <<session, cookie, interaction, request, token, spent, disclosed, verified>>
  BY DEF IssueSilently
<1> DEFINE T == {x \in Scope : session[u].meta[c][x] # None}
<1>2. u \in SessionUid /\ session[u] # None
  BY DEF SessionOf
<1>3. ValuesOf[s] \subseteq UNION {ValuesOf[t] : t \in T}
  BY <1>1, <1>2 DEF ChecksPass, RedeemInv, GrantsRemembered
<1>4. T \in SUBSET Scope
  OBVIOUS
<1>5. s \in T
  <2> HIDE DEF T
  <2> QED
    BY <1>3, <1>4 DEF ScopesApart
<1>6. CodeRedeemable'
  BY <1>1, <1>2, <1>5 DEF RedeemInv, CodeRedeemable, FindAccount
<1> QED
  BY <1>1, <1>6 DEF RedeemInv, GrantsRemembered, ResultCarries

LEMMA RedeemNext ==
    ASSUME TypeOK, ClaimsTraced, ScopesApart, SerialInv, RedeemInv, [Next]_vars
    PROVE  RedeemInv'
<1> USE NoneFacts
<1>1. ASSUME NEW b \in Browser, NEW c \in Client, NEW s \in Scope, IssueSilently(b, c, s)
      PROVE  RedeemInv'
  BY <1>1, RedeemSilently
<1>2. ASSUME NEW r \in Request, Finish(r) PROVE RedeemInv'
  BY <1>2, RedeemFinish
<1>3. ASSUME NEW i \in InteractionUid, Resume(i) PROVE RedeemInv'
  BY <1>3, RedeemResume
<1>4. ASSUME code' \subseteq code,
             \A u \in SessionUid :
                 session'[u] # None => session'[u] = session[u] \/ session'[u] = NewSession,
             \A i \in InteractionUid :
                 interaction'[i] # None /\ interaction'[i].result \in LoginResult =>
                     /\ interaction[i] # None
                     /\ interaction'[i].result = interaction[i].result
                     /\ interaction'[i].scope = interaction[i].scope
      PROVE  RedeemInv'
  <2>1. CodeRedeemable'
    <3>1. SUFFICES ASSUME NEW k \in code, session'[k.session] # None
          PROVE  FindAccount(k)' # None
      BY <1>4 DEF CodeRedeemable
    <3> QED
      BY <3>1, RedeemableKept DEF RedeemInv
  <2>2. GrantsRemembered'
    <3>1. \A c \in Client : NewSession.granted[c] = {}
      BY DEF NewSession
    <3> QED
      BY <1>4, <3>1 DEF RedeemInv, GrantsRemembered
  <2>3. ResultCarries'
    BY <1>4 DEF RedeemInv, ResultCarries
  <2> QED
    BY <2>1, <2>2, <2>3 DEF RedeemInv
<1>5. ASSUME NEW i \in InteractionUid, Abort(i) \/ SwitchAccount(i) PROVE RedeemInv'
  <2>1. interaction[i] \in Interaction
    BY <1>5 DEF Abort, SwitchAccount, TypeOK
  <2>2. \A n : n = [interaction[i] EXCEPT !.result = Denied] => n.result = Denied
    BY <2>1 DEF Interaction
  <2>3. \A n : n = [interaction[i] EXCEPT !.session = None] =>
            n.result = interaction[i].result /\ n.scope = interaction[i].scope
    BY <2>1 DEF Interaction
  <2> QED
    BY <1>4, <1>5, <2>1, <2>2, <2>3 DEF Abort, SwitchAccount, TypeOK
<1>6. ASSUME NEW b \in Browser, NEW c \in Client, NEW s \in Scope, StartInteraction(b, c, s)
      PROVE  RedeemInv'
  BY <1>4, <1>6 DEF StartInteraction, TypeOK
<1>7. ASSUME NEW b \in Browser, Visit(b) PROVE RedeemInv'
  BY <1>4, <1>7 DEF Visit, TypeOK
<1> QED
  BY <1>1, <1>2, <1>3, <1>4, <1>5, <1>6, <1>7
     DEF Next, Handle, vars, CloseBrowser, EndSession, ExpireInteraction, ExpireCode, Restart,
         Submit, Verify, RejectMalformed, ReadSession, ResumeDenied, Redeem, TypeOK

(* CodeRedeemable under the two conditions that findings 1 and 2 show to   *)
(* be necessary: one open interaction per client, and no scope whose words *)
(* are all words of other scopes.                                          *)
THEOREM CodeRedeemableCorrect ==
    ASSUME MaxOpen = 1, ScopesApart
    PROVE  Spec => []CodeRedeemable
<1>1. Init => RedeemInv
  BY DEF Init, RedeemInv, CodeRedeemable, GrantsRemembered, ResultCarries
<1>2. IInv /\ SerialInv /\ RedeemInv /\ [Next]_vars => RedeemInv'
  BY RedeemNext DEF IInv
<1>3. RedeemInv => CodeRedeemable
  BY DEF RedeemInv
<1> QED
  BY <1>1, <1>2, <1>3, SerialInductive, PTL DEF Spec
=============================================================================
