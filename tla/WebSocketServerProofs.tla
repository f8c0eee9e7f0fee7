------------------------ MODULE WebSocketServerProofs ------------------------
(***************************************************************************)
(* Proofs about WebSocketServer, for any number of interactions and of     *)
(* connections.                                                            *)
(***************************************************************************)
EXTENDS WebSocketServer, TLAPS

(* A socket that was never accepted carries no tag.                        *)
Untagged == \A s \in Socket : s > accepted => tagOf[s] = None

(* An entry is the socket that connected last with its tag: nobody newer   *)
(* carries it.  This is what makes GetNewest and OnlyNewerTakesOver        *)
(* inductive together.                                                     *)
IInv ==
    /\ TypeOK
    /\ RegistryLive
    /\ GetNewest
    /\ OnlyNewerTakesOver
    /\ Untagged
    /\ server # "up" => open = {}

LEMMA InitInv == Init => IInv
BY WebSocketAssumption
   DEF Init, IInv, TypeOK, RegistryLive, GetNewest, OnlyNewerTakesOver, Untagged, Socket

LEMMA DownInv ==
    ASSUME IInv, NEW how \in {"stopped", "thrown"}, Down(how), UNCHANGED <<tagOf, accepted>>
    PROVE  IInv'
<1>1. TypeOK'
  BY DEF IInv, TypeOK, Down
<1>2. RegistryLive' /\ GetNewest'
  BY DEF Down, RegistryLive, GetNewest
<1>3. OnlyNewerTakesOver' /\ Untagged'
  BY DEF IInv, Down, OnlyNewerTakesOver, Untagged
<1> QED
  BY <1>1, <1>2, <1>3 DEF IInv, Down

LEMMA ConnectInv ==
    ASSUME IInv, NEW t \in Tag \cup {None}, Connect(t)
    PROVE  IInv'
<1> USE WebSocketAssumption
<1>1. PICK s \in Socket : s = accepted + 1
  BY DEF Connect, IInv, TypeOK, Socket
<1>2. /\ accepted' = s /\ open' = open \cup {s} /\ PutTag(s, t)
      /\ server = "up" /\ server' = "up" /\ accepted \in Nat
  BY <1>1 DEF Connect, IInv, TypeOK
<1>3. \A x \in open : x \in Socket /\ x < s
  BY <1>1 DEF IInv, TypeOK, Socket
<1>4. tagOf[s] = None
  BY <1>1, <1>2 DEF IInv, Untagged, TypeOK, Socket
<1>5. CASE t = None
  <2>1. UNCHANGED <<tags, tagOf>>
    BY <1>2, <1>5 DEF PutTag
  <2>2. TypeOK'
    BY <1>1, <1>2, <2>1 DEF IInv, TypeOK, Socket
  <2>3. RegistryLive' /\ GetNewest'
    BY <1>2, <1>4, <2>1 DEF IInv, TypeOK, RegistryLive, GetNewest
  <2>4. OnlyNewerTakesOver'
    BY <1>1, <1>2, <1>4, <2>1 DEF IInv, TypeOK, OnlyNewerTakesOver, Socket
  <2>5. Untagged'
    BY <1>1, <1>2, <2>1 DEF IInv, TypeOK, Untagged, Socket
  <2> QED
    BY <1>2, <2>2, <2>3, <2>4, <2>5 DEF IInv
<1>6. CASE t # None
  <2>1. /\ t \in Tag
        /\ tags' = [tags EXCEPT ![t] = s]
        /\ tagOf' = [tagOf EXCEPT ![s] = t]
    BY <1>2, <1>6 DEF PutTag
  <2>2. TypeOK'
    BY <1>1, <1>2, <2>1 DEF IInv, TypeOK, Socket
  <2>3. /\ tags'[t] = s /\ tagOf'[s] = t
        /\ \A x \in Tag \ {t} : tags'[x] = tags[x]
        /\ \A x \in Socket \ {s} : tagOf'[x] = tagOf[x]
    BY <2>1 DEF IInv, TypeOK
  <2>4. RegistryLive'
    <3>1. SUFFICES ASSUME NEW x \in Tag, tags'[x] # None
                   PROVE  tags'[x] \in open' /\ tagOf'[tags'[x]] = x
      BY DEF RegistryLive
    <3>2. CASE x = t
      BY <1>2, <2>3, <3>2
    <3>3. CASE x # t
      <4>1. tags'[x] = tags[x] /\ tags[x] \in open /\ tagOf[tags[x]] = x
        BY <2>3, <3>1, <3>3 DEF IInv, RegistryLive
      <4>2. tags[x] \in Socket \ {s}
        BY <1>3, <4>1 DEF Socket
      <4> QED
        BY <1>2, <2>3, <4>1, <4>2
    <3> QED
      BY <3>2, <3>3
  <2>5. GetNewest'
    <3>1. SUFFICES ASSUME NEW x \in Tag, tags'[x] # None, NEW y \in open', tagOf'[y] = x
                   PROVE  y <= tags'[x]
      BY DEF GetNewest
    <3>2. CASE x = t
      BY <1>1, <1>2, <1>3, <2>3, <3>1, <3>2 DEF Socket
    <3>3. CASE x # t
      BY <1>2, <1>3, <2>3, <3>1, <3>3 DEF IInv, GetNewest
    <3> QED
      BY <3>2, <3>3
  <2>6. OnlyNewerTakesOver'
    <3>1. SUFFICES ASSUME NEW x \in open', tagOf'[x] # None, tags'[tagOf'[x]] # x
                   PROVE  \E n \in Socket : n > x /\ n <= accepted' /\ tagOf'[n] = tagOf'[x]
      BY DEF OnlyNewerTakesOver
    <3>2. x # s /\ x \in open
      BY <1>2, <2>3, <3>1
    <3>3. tagOf'[x] = tagOf[x] /\ x \in Socket
      BY <1>3, <2>3, <3>2
    <3>4. CASE tagOf[x] = t
      BY <1>1, <1>2, <1>3, <2>3, <3>2, <3>3, <3>4 DEF Socket
    <3>5. CASE tagOf[x] # t
      <4>1. tagOf[x] \in Tag /\ tags[tagOf[x]] # x
        BY <2>3, <3>1, <3>3, <3>5 DEF IInv, TypeOK
      <4>2. PICK n \in Socket : n > x /\ n <= accepted /\ tagOf[n] = tagOf[x]
        BY <3>1, <3>2, <3>3, <4>1 DEF IInv, OnlyNewerTakesOver
      <4> QED
        BY <1>1, <1>2, <2>3, <3>3, <4>2 DEF Socket
    <3> QED
      BY <3>4, <3>5
  <2>7. Untagged'
    BY <1>1, <1>2, <2>3 DEF IInv, TypeOK, Untagged, Socket
  <2> QED
    BY <1>2, <2>2, <2>4, <2>5, <2>6, <2>7 DEF IInv
<1> QED
  BY <1>5, <1>6

LEMMA CloseInv ==
    ASSUME IInv, NEW s \in Socket, CloseUntagged(s) \/ CloseTagged(s)
    PROVE  IInv'
<1> USE WebSocketAssumption
<1>1. CASE CloseUntagged(s)
  BY <1>1 DEF CloseUntagged, IInv, TypeOK, RegistryLive, GetNewest, OnlyNewerTakesOver, Untagged
<1>2. CASE CloseTagged(s)
  <2>1. PICK t \in Tag : t = tagOf[s]
    BY <1>2 DEF CloseTagged, IInv, TypeOK
  <2>2. /\ tags[t] = s /\ tags' = [tags EXCEPT ![t] = None] /\ open' = open \ {s}
        /\ UNCHANGED <<server, tagOf, accepted>>
    BY <1>2, <2>1 DEF CloseTagged
  <2>3. tags'[t] = None /\ \A x \in Tag \ {t} : tags'[x] = tags[x]
    BY <2>2 DEF IInv, TypeOK
  <2>4. TypeOK' /\ Untagged'
    BY <2>2 DEF IInv, TypeOK, Untagged
  <2>5. RegistryLive'
    BY <2>1, <2>2, <2>3 DEF IInv, RegistryLive
  <2>6. GetNewest'
    BY <2>2, <2>3 DEF IInv, GetNewest
  <2>7. OnlyNewerTakesOver'
    <3>1. SUFFICES ASSUME NEW x \in open', tagOf[x] # None, tags'[tagOf[x]] # x
                   PROVE  \E n \in Socket : n > x /\ n <= accepted /\ tagOf[n] = tagOf[x]
      BY <2>2 DEF OnlyNewerTakesOver
    <3>2. tags[tagOf[x]] # x
      BY <2>1, <2>2, <2>3, <3>1 DEF IInv, TypeOK, Socket
    <3> QED
      BY <2>2, <3>1, <3>2 DEF IInv, OnlyNewerTakesOver
  <2> QED
    BY <2>2, <2>4, <2>5, <2>6, <2>7 DEF IInv
<1> QED
  BY <1>1, <1>2

LEMMA NextInv == IInv /\ [Next]_vars => IInv'
<1> SUFFICES ASSUME IInv, [Next]_vars PROVE IInv'
  OBVIOUS
<1>1. ASSUME NEW t \in Tag \cup {None}, Connect(t) PROVE IInv'
  BY <1>1, ConnectInv
<1>2. ASSUME NEW s \in Socket, CloseUntagged(s) \/ CloseTagged(s) PROVE IInv'
  BY <1>2, CloseInv
<1>3. ASSUME NEW s \in Socket, CloseThrows(s) PROVE IInv'
  BY <1>3, DownInv DEF CloseThrows
<1>4. CASE Stop
  BY <1>4, DownInv DEF Stop
<1>5. CASE Restart
  BY <1>5 DEF Restart, IInv, TypeOK, RegistryLive, GetNewest, OnlyNewerTakesOver, Untagged
<1>6. CASE UNCHANGED vars
  BY <1>6 DEF vars, IInv, TypeOK, RegistryLive, GetNewest, OnlyNewerTakesOver, Untagged
<1> QED
  BY <1>1, <1>2, <1>3, <1>4, <1>5, <1>6 DEF Next

LEMMA Inductive == Spec => []IInv
BY InitInv, NextInv, PTL DEF Spec

(* Every variable of the registry keeps its type.                          *)
THEOREM TypeCorrect == Spec => []TypeOK
<1>1. IInv => TypeOK
  BY DEF IInv
<1> QED
  BY <1>1, Inductive, PTL

(* The registry never answers with a closed or foreign socket.             *)
THEOREM RegistryLiveCorrect == Spec => []RegistryLive
<1>1. IInv => RegistryLive
  BY DEF IInv
<1> QED
  BY <1>1, Inductive, PTL

(* The registry never answers with a socket older than an open one.        *)
THEOREM GetNewestCorrect == Spec => []GetNewest
<1>1. IInv => GetNewest
  BY DEF IInv
<1> QED
  BY <1>1, Inductive, PTL

(* A page loses its entry to a newer socket of its interaction only.       *)
THEOREM OnlyNewerCorrect == Spec => []OnlyNewerTakesOver
<1>1. IInv => OnlyNewerTakesOver
  BY DEF IInv
<1> QED
  BY <1>1, Inductive, PTL
=============================================================================
