-------------------------- MODULE LoginPageProofs ---------------------------
(***************************************************************************)
(* Proofs about LoginPage, for any number of pages, connections, tries and *)
(* scopes of any length: what the router tags a connection with, what the  *)
(* wallet is asked, the invariant of the pages, and who understands what   *)
(* they send.                                                              *)
(***************************************************************************)
EXTENDS LoginPage, FiniteSetTheorems, TLAPS

-----------------------------------------------------------------------------
(* Routing.                                                                *)

(* The turns of the router's two loops, with the operator FoldFacts        *)
(* expects.                                                                *)
ServingTurn(around, r, c) == Routing!Turn(around, r, c)
RootServingTurn(around, r, c) == Routing!RootTurn(r, c)

Serving == INSTANCE FoldFacts WITH Op <- ServingTurn
RootServing == INSTANCE FoldFacts WITH Op <- RootServingTurn

LEMMA CallsIsFold ==
    ASSUME NEW root, NEW method, NEW url
    PROVE  Routing!Calls(root, method, url)
               = RootServing!Fold(None, Routing!initRequest(method, url), root.children).calls
BY DEF Routing!Calls, RootServing!Fold, RootServingTurn, Routing!FoldLeft, RootServing!FoldLeft,
   Routing!MapThenFoldSet, RootServing!MapThenFoldSet, Routing!Max, RootServing!Max

LEMMA RootTurnIsFold ==
    ASSUME NEW r, NEW c, c.handler.children # <<>>, Routing!Fits(c, c.path, r)
    PROVE  Routing!RootTurn(r, c)
               = Serving!Fold(c.path, Routing!Passed(c.path, r), c.handler.children)
BY DEF Routing!RootTurn, Serving!Fold, ServingTurn, Routing!FoldLeft, Serving!FoldLeft,
   Routing!MapThenFoldSet, Serving!MapThenFoldSet, Routing!Max, Serving!Max

(* The route tables of the application.                                    *)
Mount == <<Routing!Literal("interaction")>>

(* The path both routes of the interaction endpoint match.                 *)
SocketPath == <<Routing!Literal("interaction"), Routing!Parameter("uid"), Routing!Literal("socket")>>

(* The two routes of the interaction endpoint.                             *)
Connects == [method |-> "CONNECT", path |-> <<Routing!Parameter("uid"), Routing!Literal("socket")>>,
             handler |-> Routing!Function("socketConnect")]
Closes == [method |-> "CLOSE", path |-> <<Routing!Parameter("uid"), Routing!Literal("socket")>>,
           handler |-> Routing!Function("socketClose")]

(* The routers are made of these.                                          *)
LEMMA Children ==
    /\ wsRouter.children = <<Connects, Closes>>
    /\ rootRouter.children = <<[method |-> "*", path |-> Mount, handler |-> wsRouter]>>
BY DEF wsRouter, rootRouter, Connects, Closes, Mount, Routing!RouterOf, Routing!Child,
   Routing!Methods, Routing!Last

LEMMA Paths == Mount \o Connects.path = SocketPath /\ Mount \o Closes.path = SocketPath
<1>1. ASSUME NEW a, NEW b, NEW c PROVE <<a>> \o <<b, c>> = <<a, b, c>>
  <2>1. <<a>> \o <<b, c>> = [i \in 1..3 |-> IF i <= 1 THEN a ELSE <<b, c>>[i - 1]]
    OBVIOUS
  <2>2. <<a, b, c>> = [i \in 1..3 |-> IF i <= 1 THEN a ELSE <<b, c>>[i - 1]]
    OBVIOUS
  <2> QED
    BY <2>1, <2>2
<1> QED
  BY <1>1 DEF Mount, Connects, Closes, SocketPath

(* Which routes match the two paths pages and strays connect to.           *)
LEMMA Taken ==
    ASSUME NEW uid, NEW url, url = <<"interaction", uid, "socket">> \/ url = <<"interaction", uid>>
    PROVE  /\ Routing!Matches(Mount, url)
           /\ Routing!Matches(SocketPath, url) <=> url = <<"interaction", uid, "socket">>
<1>1. Len(Mount) = 1 /\ DOMAIN Mount = {1} /\ Mount[1].text = "interaction" /\ url[1] = "interaction"
      /\ Len(url) \in {2, 3}
  BY DEF Mount, Routing!Literal
<1>2. Routing!Matches(Mount, url)
  BY <1>1 DEF Routing!Matches
<1>3. /\ Len(SocketPath) = 3 /\ DOMAIN SocketPath = {1, 2, 3}
      /\ SocketPath[1].text = "interaction" /\ SocketPath[2].param /\ SocketPath[3].text = "socket"
  BY DEF SocketPath, Routing!Literal, Routing!Parameter
<1>4. CASE url = <<"interaction", uid, "socket">>
  BY <1>1, <1>2, <1>3, <1>4 DEF Routing!Matches
<1>5. CASE url = <<"interaction", uid>>
  BY <1>1, <1>2, <1>3, <1>5 DEF Routing!Matches
<1> QED
  BY <1>4, <1>5

LEMMA PassedChangesParams ==
    ASSUME NEW path, NEW m, NEW u, NEW p, NEW c
    PROVE  \E q : Routing!Passed(path, [socketMethod |-> m, url |-> u, params |-> p, calls |-> c])
                     = [socketMethod |-> m, url |-> u, params |-> q, calls |-> c]
<1> DEFINE req == [socketMethod |-> m, url |-> u, params |-> p, calls |-> c]
           found == Routing!ParamsOf(path, req.url)
           q == [n \in DOMAIN found \cup DOMAIN req.params |->
                    IF n \in DOMAIN found THEN found[n] ELSE req.params[n]]
<1>1. Routing!Passed(path, req) = [req EXCEPT !.params = q]
  BY DEF Routing!Passed
<1> HIDE DEF q
<1>2. [req EXCEPT !.params = q] = [socketMethod |-> m, url |-> u, params |-> q, calls |-> c]
  OBVIOUS
<1> QED
  BY <1>1, <1>2

(* A connection calls at most one handler.                                 *)
LEMMA RoutedOnce ==
    ASSUME NEW uid, NEW url, url = <<"interaction", uid, "socket">> \/ url = <<"interaction", uid>>,
           NEW r, r = Routing!Passed(Mount, Routing!initRequest("CONNECT", url))
    PROVE  Routing!Calls(rootRouter, "CONNECT", url) = Routing!Turn(Mount, r, Connects).calls
<1> DEFINE req == Routing!initRequest("CONNECT", url)
           child == [method |-> "*", path |-> Mount, handler |-> wsRouter]
           found == Routing!Turn(Mount, r, Connects)
<1>1. Routing!Fits(child, child.path, req)
  BY Taken DEF Routing!Fits, Routing!Methods, Routing!initRequest
<1>2. child.handler.children = <<Connects, Closes>> /\ child.handler.children # <<>>
  BY Children
<1>3. Routing!Calls(rootRouter, "CONNECT", url) = Routing!RootTurn(req, child).calls
  <2>1. Routing!Calls(rootRouter, "CONNECT", url) = RootServing!Fold(None, req, <<child>>).calls
    BY CallsIsFold, Children
  <2>2. RootServing!Fold(None, req, <<child>>) = Routing!RootTurn(req, child)
    BY RootServing!FoldOne DEF RootServingTurn
  <2> QED
    BY <2>1, <2>2
<1>4. Routing!RootTurn(req, child) = Serving!Fold(Mount, r, <<Connects, Closes>>)
  BY <1>1, <1>2, RootTurnIsFold
<1>5. Serving!Fold(Mount, r, <<Connects, Closes>>) = Routing!Turn(Mount, found, Closes)
  BY Serving!FoldTwo DEF ServingTurn
<1>6. found.socketMethod = "CONNECT"
  BY DEF Routing!Turn, Routing!Passed, Routing!initRequest
<1>7. Routing!Turn(Mount, found, Closes) = found
  BY <1>6 DEF Routing!Turn, Routing!Fits, Routing!Methods, Closes
<1> QED
  BY <1>3, <1>4, <1>5, <1>7

(* A connection to the path of a page is tagged with its interaction ...   *)
THEOREM TaggedWithUid == \A uid : TagFor(<<"interaction", uid, "socket">>) = uid
<1> TAKE uid
<1> DEFINE url == <<"interaction", uid, "socket">>
           r == Routing!Passed(Mount, Routing!initRequest("CONNECT", url))
           calls == Routing!Calls(rootRouter, "CONNECT", url)
           found == Routing!Passed(SocketPath, r)
<1>1. calls = Routing!Turn(Mount, r, Connects).calls
  BY RoutedOnce
<1>2. r.socketMethod = "CONNECT" /\ r.url = url /\ r.calls = <<>>
  BY DEF Routing!Passed, Routing!initRequest
<1>3. Routing!Fits(Connects, SocketPath, r)
  BY <1>2, Taken DEF Routing!Fits, Routing!Methods, Connects
<1>4. Routing!Turn(Mount, r, Connects)
         = [found EXCEPT !.calls =
               Append(@, [handler |-> Connects.handler.name, params |-> found.params])]
  BY <1>3, Paths DEF Routing!Turn
<1>5. calls = <<[handler |-> "socketConnect", params |-> found.params]>>
  <2>1. found = [socketMethod |-> "CONNECT", url |-> url, params |-> found.params, calls |-> <<>>]
    <3> DEFINE empty == <<>>
    <3>1. r = Routing!Passed(Mount, [socketMethod |-> "CONNECT", url |-> url, params |-> empty,
                                     calls |-> empty])
      BY DEF Routing!initRequest
    <3>2. found = Routing!Passed(SocketPath, r)
      OBVIOUS
    <3> HIDE DEF found, r, url, empty
    <3>3. PICK p : r = [socketMethod |-> "CONNECT", url |-> url, params |-> p, calls |-> empty]
      BY <3>1, PassedChangesParams
    <3>4. PICK q : found = [socketMethod |-> "CONNECT", url |-> url, params |-> q, calls |-> empty]
      BY <3>2, <3>3, PassedChangesParams
    <3> QED
      BY <3>4 DEF empty
  <2>2. Connects.handler.name = "socketConnect"
    BY DEF Connects, Routing!Function
  <2> DEFINE p == found.params
             call == [handler |-> "socketConnect", params |-> p]
  <2>3. Routing!Turn(Mount, r, Connects)
            = [[socketMethod |-> "CONNECT", url |-> url, params |-> p, calls |-> <<>>]
                  EXCEPT !.calls = Append(@, call)]
    BY <1>4, <2>1, <2>2, Zenon
  <2> HIDE DEF p, call
  <2>4. Routing!Turn(Mount, r, Connects).calls = Append(<<>>, call)
    BY <2>3
  <2>5. Append(<<>>, call) = <<call>>
    OBVIOUS
  <2> QED
    BY <1>1, <2>4, <2>5 DEF call, p
<1>6. found.params["uid"] = uid
  <2> DEFINE params == Routing!ParamsOf(SocketPath, url)
  <2>1. found.params = [n \in DOMAIN params \cup DOMAIN r.params |->
                            IF n \in DOMAIN params THEN params[n] ELSE r.params[n]]
    BY <1>2 DEF Routing!Passed, Routing!initRequest
  <2>0. /\ DOMAIN SocketPath = {1, 2, 3} /\ SocketPath[2] = Routing!Parameter("uid")
        /\ SocketPath[1] = Routing!Literal("interaction")
        /\ SocketPath[3] = Routing!Literal("socket")
    BY DEF SocketPath
  <2>2. /\ DOMAIN SocketPath = {1, 2, 3} /\ {j \in DOMAIN SocketPath : SocketPath[j].param} = {2}
        /\ \A i \in DOMAIN SocketPath : SocketPath[i] = Routing!Parameter("uid") <=> i = 2
        /\ SocketPath[2].text = "uid"
    BY <2>0 DEF Routing!Literal, Routing!Parameter
  <2>3. (CHOOSE i \in DOMAIN SocketPath : SocketPath[i] = Routing!Parameter("uid")) = 2
    BY <2>2
  <2>4. "uid" \in DOMAIN params /\ params["uid"] = url[2]
    BY <2>2, <2>3 DEF Routing!ParamsOf
  <2> HIDE DEF params
  <2> QED
    BY <2>1, <2>4
<1>7. TagFor(url) = found.params["uid"]
  BY <1>5 DEF TagFor
<1> QED
  BY <1>6, <1>7

(* ... and one to another path not at all.                                 *)
THEOREM NotTagged == \A uid : TagFor(<<"interaction", uid>>) = None
<1> TAKE uid
<1> DEFINE url == <<"interaction", uid>>
           r == Routing!Passed(Mount, Routing!initRequest("CONNECT", url))
           calls == Routing!Calls(rootRouter, "CONNECT", url)
<1>1. calls = Routing!Turn(Mount, r, Connects).calls
  BY RoutedOnce
<1>2. r.url = url /\ r.calls = <<>>
  BY DEF Routing!Passed, Routing!initRequest
<1>3. ~Routing!Matches(SocketPath, url)
  BY Taken
<1>4. calls = <<>>
  BY <1>1, <1>2, <1>3, Paths DEF Routing!Turn, Routing!Fits
<1> QED
  BY <1>4 DEF TagFor

-----------------------------------------------------------------------------
(* The disclosure request.                                                 *)

(* The turn of the loop of disclosureArgs.                                 *)
MergingTurn(around, asked, w) == Disclosing!Merge(asked, w)

Merging == INSTANCE FoldFacts WITH Op <- MergingTurn

LEMMA ArgsIsFold ==
    ASSUME NEW words
    PROVE  Disclosing!disclosureArgs(words) = Merging!Fold(None, [n \in Name |-> None], words)
BY DEF Disclosing!disclosureArgs, Merging!Fold, MergingTurn, Disclosing!FoldLeft, Merging!FoldLeft,
   Disclosing!MapThenFoldSet, Merging!MapThenFoldSet, Disclosing!Max, Merging!Max

LEMMA ArgsEmpty == Disclosing!disclosureArgs(<<>>) = [n \in Name |-> None]
BY ArgsIsFold, Merging!FoldEmpty

LEMMA ArgsAppend ==
    ASSUME NEW words \in Seq(Disclosing!Word), NEW w \in Disclosing!Word
    PROVE  Disclosing!disclosureArgs(Append(words, w))
               = Disclosing!Merge(Disclosing!disclosureArgs(words), w)
<1>1. Merging!Fold(None, [n \in Name |-> None], Append(words, w))
          = MergingTurn(None, Merging!Fold(None, [n \in Name |-> None], words), w)
  BY Merging!FoldAppend
<1> QED
  BY <1>1, ArgsIsFold DEF MergingTurn

(* disclosureArgs asks for what the words say, credential by credential.   *)
AsSays(words) ==
    /\ Disclosing!disclosureArgs(words) \in Disclosing!Request
    /\ \A n \in Name : Disclosing!disclosureArgs(words)[n] = Disclosing!SaysOf(words, n)

LEMMA SaysAppend ==
    ASSUME NEW words \in Seq(Disclosing!Word), NEW w \in Disclosing!Word, NEW n \in Name
    PROVE  Disclosing!SaysOf(Append(words, w), n)
               = IF w.kind # "static" /\ w.name = n
                 THEN IF w.kind = "vce" THEN "essential" ELSE "optional"
                 ELSE Disclosing!SaysOf(words, n)
<1> DEFINE longer == Append(words, w)
           k == Len(words)
           for == Disclosing!WordsFor(words, n)
<1>1. /\ k \in Nat /\ DOMAIN words = 1..k /\ DOMAIN longer = 1..(k + 1)
      /\ longer[k + 1] = w /\ \A i \in 1..k : longer[i] = words[i]
  OBVIOUS
<1> HIDE DEF longer, k
<1>2. for \in SUBSET (1..k)
  BY <1>1 DEF Disclosing!WordsFor
<1>3. CASE w.kind # "static" /\ w.name = n
  <2>1. Disclosing!WordsFor(longer, n) = for \cup {k + 1}
    BY <1>1, <1>3 DEF Disclosing!WordsFor
  <2>2. \A i \in for \cup {k + 1} : (\A j \in for \cup {k + 1} : j <= i) <=> i = k + 1
    <3>1. \A i \in for : i \in Nat /\ i <= k
      BY <1>1, <1>2
    <3> HIDE DEF for
    <3> QED
      BY <1>1, <3>1
  <2> HIDE DEF for
  <2>3. (CHOOSE i \in for \cup {k + 1} : \A j \in for \cup {k + 1} : j <= i) = k + 1
    BY <2>2
  <2>4. Disclosing!SaysOf(longer, n) = IF longer[k + 1].kind = "vce" THEN "essential" ELSE "optional"
    BY <2>1, <2>3 DEF Disclosing!SaysOf
  <2> QED
    BY <1>1, <1>3, <2>4 DEF longer
<1>4. CASE ~(w.kind # "static" /\ w.name = n)
  <2>1. Disclosing!WordsFor(longer, n) = for
    BY <1>1, <1>4 DEF Disclosing!WordsFor
  <2>2. CASE for = {}
    BY <1>4, <2>1, <2>2 DEF Disclosing!SaysOf, longer
  <2>3. CASE for # {}
    <3> HIDE DEF for
    <3>1. PICK m \in for : \A j \in for : m >= j
      BY <1>1, <1>2, <2>3, Merging!Largest
    <3> DEFINE last == CHOOSE i \in for : \A j \in for : j <= i
    <3>2. last \in for
      BY <1>1, <1>2, <3>1
    <3> HIDE DEF last
    <3>3. longer[last] = words[last]
      BY <1>1, <1>2, <3>2
    <3> QED
      BY <1>4, <2>1, <2>3, <3>3 DEF Disclosing!SaysOf, longer, last, for
  <2> QED
    BY <2>2, <2>3
<1> QED
  BY <1>3, <1>4

(* ... with one word more, if so without it.                               *)
LEMMA AsSaysAppend ==
    ASSUME NEW words \in Seq(Disclosing!Word), NEW w \in Disclosing!Word, AsSays(words)
    PROVE  AsSays(Append(words, w))
<1> DEFINE args == Disclosing!disclosureArgs(words)
           longer == Append(words, w)
<1>1. Disclosing!disclosureArgs(longer) = Disclosing!Merge(args, w)
  BY ArgsAppend
<1>2. args \in Disclosing!Request /\ \A n \in Name : args[n] = Disclosing!SaysOf(words, n)
  BY DEF AsSays
<1>3. \A n \in Name : Disclosing!SaysOf(longer, n)
                        = IF w.kind # "static" /\ w.name = n
                          THEN IF w.kind = "vce" THEN "essential" ELSE "optional"
                          ELSE Disclosing!SaysOf(words, n)
  BY SaysAppend
<1> HIDE DEF args, longer
<1>4. CASE w.kind = "static"
  BY <1>1, <1>2, <1>3, <1>4 DEF Disclosing!Merge, AsSays, longer
<1>5. CASE w.kind # "static"
  <2>1. w.name \in Name
    BY <1>5 DEF Disclosing!Word
  <2>2. Disclosing!Merge(args, w)
            = [args EXCEPT ![w.name] = IF w.kind = "vce" THEN "essential" ELSE "optional"]
    BY <1>5 DEF Disclosing!Merge
  <2>3. Disclosing!Merge(args, w) \in Disclosing!Request
    BY <1>2, <2>1, <2>2 DEF Disclosing!Request
  <2>4. \A n \in Name : Disclosing!Merge(args, w)[n] = Disclosing!SaysOf(longer, n)
    BY <1>2, <1>3, <1>5, <2>1, <2>2 DEF Disclosing!Request
  <2> QED
    BY <1>1, <2>3, <2>4 DEF AsSays, longer
<1> QED
  BY <1>4, <1>5

(* A request says of each name what the last word that names it says.      *)
THEOREM AsksAsSays == \A words \in Seq(Disclosing!Word) : AsSays(words)
<1> DEFINE S == {k \in Nat : \A words \in Seq(Disclosing!Word) : Len(words) = k => AsSays(words)}
<1>1. 0 \in S
  <2> SUFFICES ASSUME NEW words \in Seq(Disclosing!Word), Len(words) = 0 PROVE AsSays(words)
    OBVIOUS
  <2>1. words = <<>>
    OBVIOUS
  <2>2. \A n \in Name : Disclosing!SaysOf(<<>>, n) = None
    BY DEF Disclosing!SaysOf, Disclosing!WordsFor
  <2> QED
    BY <2>1, <2>2, ArgsEmpty DEF AsSays, Disclosing!Request
<1>2. ASSUME NEW k \in S PROVE k + 1 \in S
  <2>1. k \in Nat
    OBVIOUS
  <2> SUFFICES ASSUME NEW words \in Seq(Disclosing!Word), Len(words) = k + 1 PROVE AsSays(words)
    BY <2>1
  <2> DEFINE front == [i \in 1..k |-> words[i]]
  <2>2. front \in Seq(Disclosing!Word) /\ Len(front) = k
    BY <2>1
  <2>3. words[k + 1] \in Disclosing!Word /\ words = Append(front, words[k + 1])
    BY <2>1
  <2> HIDE DEF front
  <2>4. AsSays(front)
    BY <2>2
  <2> QED
    BY <2>2, <2>3, <2>4, AsSaysAppend
<1>3. S \in SUBSET Nat
  OBVIOUS
<1> HIDE DEF S
<1>4. S = Nat
  BY <1>1, <1>2, <1>3, Merging!SetInduction
<1>5. \A words \in Seq(Disclosing!Word) : Len(words) \in Nat
  OBVIOUS
<1> QED
  BY <1>4, <1>5 DEF S

-----------------------------------------------------------------------------
(* The inductive invariant.                                                *)

RegistryFacts == INSTANCE WebSocketServerProofs

(* The link of a page.                                                     *)
LinkOK(g) ==
    /\ g.link = "connecting" => g.keepAlives = {} /\ g.tries >= 1
    /\ g.link = "open" => g.socket # None /\ g.keepAlives = {g.socket} /\ g.tries = InitialTries
    /\ g.link = "waiting" => g.socket = None /\ g.tries >= 1
    /\ g.link = "gaveUp" => g.socket = None /\ (InitialTries > 1 => g.keepAlives = {})
    /\ \A s, t \in g.keepAlives : s = t

(* The wallet calls of a page: nothing is asked before it has a session,   *)
(* one disclosure is awaited, and none after the post.                     *)
AskOK(g) ==
    /\ g.manager # "ready" => g.asking = {} /\ g.posts = 0
    /\ g.manager = "restoring" => g.read # None
    /\ \A s, t \in g.asking : s = t
    /\ g.posts <= 1
    /\ g.posts = 1 => g.asking = {}

(* What pairings of this browser stored.                                   *)
Known == {Wallet!toJSON(s) : s \in drawn}

(* What a page read and asks with is from a pairing of this browser.       *)
SessionOK(g) == g.read \in Known \cup {None} /\ g.asking \subseteq drawn

(* The server tagged the socket of a page with its interaction, and the    *)
(* page connected with no other since.                                     *)
HeldBy(p, g) ==
    g.socket # None =>
        /\ g.socket \in 1..accepted
        /\ owner[g.socket] = p
        /\ tagOf[g.socket] = g.uid
        /\ \A n \in Socket : owner[n] = p => n <= g.socket

(* Sockets to come have no owner, and tagged ones are of some page.        *)
Owned ==
    \A n \in Socket :
        /\ n > accepted => owner[n] = None
        /\ tagOf[n] # None => owner[n] \in PageId

(* All of it, for one page.                                                *)
PageOK(p, g) ==
    /\ LinkOK(g)
    /\ AskOK(g)
    /\ SessionOK(g)
    /\ HeldBy(p, g)
    /\ g.rawSdr = Disclosing!disclosureArgs(g.words)

(* The inductive invariant. RegistryFacts!IInv is that of WebSocketServer, *)
(* which the registry of the pages keeps.                                  *)
PageInv ==
    /\ TypeOK
    /\ RegistryFacts!IInv
    /\ Owned
    /\ stored \in Known \cup {None}
    /\ \A p \in PageId : page[p] # None => PageOK(p, page[p])

WalletFacts == INSTANCE WalletSessionProofs

(* Local storage gives back the session, by WalletSessionProofs.           *)
LEMMA RoundTrip == \A s \in Session : Wallet!fromJSON(Wallet!toJSON(s)) = s
<1> TAKE s \in Session
<1>1. Wallet!Sessions = WalletFacts!Sessions
  BY DEF Wallet!Sessions, WalletFacts!Sessions, Wallet!MasterKey, WalletFacts!MasterKey,
     Wallet!Secret, WalletFacts!Secret, Wallet!Byte, WalletFacts!Byte
<1>2. s \in WalletFacts!Sessions
  BY <1>1, LoginPageAssumption
<1>3. ASSUME NEW a PROVE Wallet!Base64(a) = WalletFacts!Base64(a)
  BY DEF Wallet!Base64, WalletFacts!Base64, Wallet!encode, WalletFacts!encode,
     Wallet!base64EncArr, WalletFacts!base64EncArr, Wallet!Group, WalletFacts!Group, Wallet!Word,
     WalletFacts!Word, Wallet!At, WalletFacts!At, Wallet!uint6ToB64, WalletFacts!uint6ToB64,
     Wallet!LineBreak, WalletFacts!LineBreak, Wallet!Replace, WalletFacts!Replace,
     Wallet!WithoutPadding, WalletFacts!WithoutPadding, Wallet!Pad, WalletFacts!Pad, Wallet!Plus,
     WalletFacts!Plus, Wallet!Minus, WalletFacts!Minus, Wallet!Slash, WalletFacts!Slash,
     Wallet!Low, WalletFacts!Low, Wallet!FoldLeft, WalletFacts!FoldLeft, Wallet!MapThenFoldSet,
     WalletFacts!MapThenFoldSet, Wallet!Max, WalletFacts!Max
<1>4. ASSUME NEW t PROVE Wallet!decode(t) = WalletFacts!decode(t)
  BY DEF Wallet!decode, WalletFacts!decode, Wallet!UrlSafe, WalletFacts!UrlSafe,
     Wallet!InAlphabet, WalletFacts!InAlphabet, Wallet!Alphanumeric, WalletFacts!Alphanumeric,
     Wallet!base64DecToArr, WalletFacts!base64DecToArr, Wallet!Word, WalletFacts!Word, Wallet!At,
     WalletFacts!At, Wallet!b64ToUint6, WalletFacts!b64ToUint6, Wallet!Throws,
     WalletFacts!Throws, Wallet!Replace, WalletFacts!Replace, Wallet!WithoutPadding,
     WalletFacts!WithoutPadding, Wallet!Pad, WalletFacts!Pad, Wallet!Plus, WalletFacts!Plus,
     Wallet!Minus, WalletFacts!Minus, Wallet!Slash, WalletFacts!Slash, Wallet!Low,
     WalletFacts!Low, Wallet!FoldLeft, WalletFacts!FoldLeft, Wallet!MapThenFoldSet,
     WalletFacts!MapThenFoldSet, Wallet!Max, WalletFacts!Max
<1>5. ASSUME NEW k PROVE Wallet!masterKeyToJSON(k) = WalletFacts!masterKeyToJSON(k)
  BY <1>3 DEF Wallet!masterKeyToJSON, WalletFacts!masterKeyToJSON
<1>6. ASSUME NEW k PROVE Wallet!masterKeyFromJSON(k) = WalletFacts!masterKeyFromJSON(k)
  BY <1>4 DEF Wallet!masterKeyFromJSON, WalletFacts!masterKeyFromJSON
<1>7. ASSUME NEW a PROVE Wallet!u8Arr2Hex(a) = WalletFacts!u8Arr2Hex(a)
  BY DEF Wallet!u8Arr2Hex, WalletFacts!u8Arr2Hex
<1>8. ASSUME NEW a PROVE Wallet!hex2U8Arr(a) = WalletFacts!hex2U8Arr(a)
  BY DEF Wallet!hex2U8Arr, WalletFacts!hex2U8Arr, Wallet!Throws, WalletFacts!Throws
<1>9. Wallet!toJSON(s) = WalletFacts!toJSON(s)
  BY <1>5, <1>7 DEF Wallet!toJSON, WalletFacts!toJSON
<1>10. ASSUME NEW j PROVE Wallet!fromJSON(j) = WalletFacts!fromJSON(j)
  BY <1>6, <1>8 DEF Wallet!fromJSON, WalletFacts!fromJSON
<1> QED
  BY <1>2, <1>9, <1>10, WalletFacts!RoundTrip

LEMMA InitPage == Init => PageInv
<1> SUFFICES ASSUME Init PROVE PageInv
  OBVIOUS
<1> USE LoginPageAssumption
<1>1. RegistryFacts!IInv
  BY RegistryFacts!InitInv, LoginPageAssumption
     DEF Init, Registry!Init, RegistryFacts!Init, Registry!Socket, RegistryFacts!Socket
<1>2. TypeOK
  BY DEF Init, TypeOK, Registry!Init, Registry!TypeOK, Socket, Registry!Socket
<1> QED
  BY <1>1, <1>2 DEF Init, PageInv, Owned, Socket, Registry!Socket, Registry!Init

(* A step of one page that leaves the sockets where they are.              *)
LEMMA OwnStep ==
    ASSUME PageInv,
           NEW p \in PageId, NEW g \in Page, page' = [page EXCEPT ![p] = g],
           UNCHANGED <<registry, owner>>,
           drawn \subseteq drawn', drawn' \subseteq Session,
           stored' \in Known' \cup {None},
           LinkOK(g), AskOK(g), SessionOK(g)', HeldBy(p, g),
           g.rawSdr = Disclosing!disclosureArgs(g.words)
    PROVE  PageInv'
<1> USE LoginPageAssumption
<1>1. Known \subseteq Known'
  BY DEF Known
<1>2. Known' \subseteq Json
  BY DEF Known, Json
<1>3. TypeOK'
  <2>1. page' \in [PageId -> Page \cup {None}]
    BY DEF PageInv, TypeOK
  <2>2. stored' \in Json \cup {None}
    BY <1>2
  <2> QED
    BY <2>1, <2>2 DEF PageInv, TypeOK, Registry!TypeOK, registry, Socket, Registry!Socket
<1>4. RegistryFacts!IInv'
  BY DEF PageInv, registry, RegistryFacts!IInv, RegistryFacts!TypeOK, RegistryFacts!RegistryLive,
         RegistryFacts!GetNewest, RegistryFacts!OnlyNewerTakesOver, RegistryFacts!Untagged,
         RegistryFacts!Socket
<1>5. Owned'
  BY DEF PageInv, Owned, registry, Socket, Registry!Socket
<1>6. PageOK(p, g)'
  BY DEF PageOK, HeldBy, registry, Socket, Registry!Socket
<1>7. ASSUME NEW q \in PageId \ {p}, page'[q] # None PROVE PageOK(q, page[q])'
  <2> DEFINE h == page[q]
  <2>1. h' = h /\ h # None
    BY <1>7 DEF PageInv, TypeOK
  <2>2. PageOK(q, h)
    BY <2>1 DEF PageInv
  <2>3. LinkOK(h)' /\ AskOK(h)'
    BY <2>1, <2>2 DEF PageOK, LinkOK, AskOK
  <2>4. SessionOK(h)'
    BY <1>1, <2>1, <2>2 DEF PageOK, SessionOK
  <2>5. HeldBy(q, h)'
    BY <2>1, <2>2 DEF PageOK, HeldBy, registry, Socket, Registry!Socket
  <2> QED
    BY <2>1, <2>2, <2>3, <2>4, <2>5 DEF PageOK
<1>8. \A q \in PageId : page'[q] = IF q = p THEN g ELSE page[q]
  BY DEF PageInv, TypeOK
<1>9. (\A q \in PageId : page[q] # None => PageOK(q, page[q]))'
  <2>1. ASSUME NEW q \in PageId, page'[q] # None PROVE PageOK(q, page[q])'
    <3>1. CASE q = p
      <4>1. page'[p] = g
        BY <1>8
      <4> QED
        BY <1>6, <3>1, <4>1 DEF PageOK, LinkOK, AskOK, SessionOK, HeldBy
    <3> QED
      BY <1>7, <2>1, <3>1
  <2> QED
    BY <2>1
<1> QED
  BY <1>3, <1>4, <1>5, <1>9 DEF PageInv

(* What the invariant says of a page that is open.                         *)
LEMMA OfPage ==
    ASSUME PageInv, NEW p \in PageId, page[p] # None
    PROVE  page[p] \in Page /\ PageOK(p, page[p])
BY DEF PageInv, TypeOK

LEMMA ArgsTyped ==
    ASSUME NEW words \in Scope
    PROVE  Disclosing!disclosureArgs(words) \in Disclosing!Request
BY LoginPageAssumption, AsksAsSays DEF AsSays

LEMMA LoadInv ==
    ASSUME PageInv, NEW p \in PageId, NEW uid \in Tag, NEW words \in Scope, Load(p, uid, words)
    PROVE  PageInv'
<1> USE LoginPageAssumption
<1> DEFINE g == [uid |-> uid, words |-> words, rawSdr |-> Disclosing!disclosureArgs(words),
                 link |-> "connecting", socket |-> None, tries |-> InitialTries,
                 keepAlives |-> {}, manager |-> "loading", read |-> None, asking |-> {},
                 posts |-> 0]
<1>1. page' = [page EXCEPT ![p] = g] /\ UNCHANGED <<registry, stored, drawn, owner>>
  BY DEF Load
<1>2. g \in Page
  BY ArgsTyped DEF Page
<1>3. LinkOK(g) /\ AskOK(g) /\ HeldBy(p, g) /\ g.rawSdr = Disclosing!disclosureArgs(g.words)
  BY DEF LinkOK, AskOK, HeldBy
<1>4. SessionOK(g)' /\ stored' \in Known' \cup {None}
  BY <1>1 DEF SessionOK, PageInv, Known
<1>5. drawn \subseteq drawn' /\ drawn' \subseteq Session
  BY <1>1 DEF PageInv, TypeOK
<1> HIDE DEF g
<1> QED
  BY <1>1, <1>2, <1>3, <1>4, <1>5, OwnStep

(* A page changed in what can change.                                      *)
Changed(h, link, socket, tries, keepAlives, manager, read, asking, posts) ==
    [uid |-> h.uid, words |-> h.words, rawSdr |-> h.rawSdr, link |-> link, socket |-> socket,
     tries |-> tries, keepAlives |-> keepAlives, manager |-> manager, read |-> read,
     asking |-> asking, posts |-> posts]

(* A step of the page's socket leaves its wallet calls alone.              *)
LEMMA LinkChanged ==
    ASSUME PageInv, NEW p \in PageId, page[p] # None,
           NEW link \in {"connecting", "open", "waiting", "gaveUp"},
           NEW socket \in {page[p].socket, None}, NEW tries \in 0..InitialTries,
           NEW keepAlives \in SUBSET Socket,
           NEW g, g = Changed(page[p], link, socket, tries, keepAlives, page[p].manager,
                              page[p].read, page[p].asking, page[p].posts),
           LinkOK(g),
           page' = [page EXCEPT ![p] = g], UNCHANGED <<registry, stored, drawn, owner>>
    PROVE  PageInv'
<1>1. page[p] \in Page /\ PageOK(p, page[p])
  BY OfPage
<1>2. g \in Page
  <2>1. socket \in Socket \cup {None}
    BY <1>1 DEF Page
  <2> QED
    BY <1>1, <2>1 DEF Page, Changed
<1>3. AskOK(g) /\ HeldBy(p, g) /\ g.rawSdr = Disclosing!disclosureArgs(g.words)
  BY <1>1 DEF PageOK, AskOK, HeldBy, Changed
<1>4. SessionOK(g)' /\ stored' \in Known' \cup {None}
  BY <1>1 DEF SessionOK, PageInv, Known, PageOK, Changed
<1>5. drawn \subseteq drawn' /\ drawn' \subseteq Session
  BY DEF PageInv, TypeOK
<1> QED
  BY <1>2, <1>3, <1>4, <1>5, OwnStep

LEMMA OnOpenInv ==
    ASSUME PageInv, NEW p \in PageId, OnOpen(p)
    PROVE  PageInv'
<1> USE LoginPageAssumption
<1>1. page[p] \in Page /\ PageOK(p, page[p]) /\ page[p] # None
  BY OfPage DEF OnOpen
<1> PICK h \in Page : h = page[p]
  BY <1>1
<1>2. PICK k \in SUBSET Socket : k = h.keepAlives \cup {h.socket}
  <2>1. h.socket \in Socket
    BY <1>1 DEF Page, OnOpen
  <2> QED
    BY <1>1, <2>1 DEF Page
<1>3. PICK g : g = [h EXCEPT !.link = "open", !.tries = InitialTries, !.keepAlives = k]
  OBVIOUS
<1>4. g = Changed(h, "open", h.socket, InitialTries, k, h.manager, h.read, h.asking, h.posts)
  BY <1>3 DEF Changed, Page
<1>5. page' = [page EXCEPT ![p] = g] /\ UNCHANGED <<registry, stored, drawn, owner>>
  BY <1>2, <1>3 DEF OnOpen, PageInv, TypeOK
<1>6. LinkOK(g)
  BY <1>1, <1>2, <1>4 DEF PageOK, LinkOK, OnOpen, Changed
<1>7. InitialTries \in 0..InitialTries
  OBVIOUS
<1> QED
  BY <1>1, <1>4, <1>5, <1>6, <1>7, LinkChanged

LEMMA OnCloseInv ==
    ASSUME PageInv, NEW p \in PageId, OnClose(p)
    PROVE  PageInv'
<1> USE LoginPageAssumption
<1>1. page[p] \in Page /\ PageOK(p, page[p]) /\ page[p] # None
  BY OfPage DEF OnClose
<1> PICK h \in Page : h = page[p]
  BY <1>1
<1>2. h.tries \in 1..InitialTries
  <2>1. h.tries \in 0..InitialTries /\ h.tries >= 1
    BY <1>1 DEF OnClose, PageOK, LinkOK, Page
  <2> QED
    BY <2>1
<1>3. PICK n \in 0..InitialTries : n = h.tries - 1
  BY <1>2
<1>4. PICK l \in {"waiting", "gaveUp"} : l = IF h.tries > 1 THEN "waiting" ELSE "gaveUp"
  OBVIOUS
<1>5. PICK g : g = [h EXCEPT !.socket = None, !.tries = n, !.link = l]
  OBVIOUS
<1>6. g = Changed(h, l, None, n, h.keepAlives, h.manager, h.read, h.asking, h.posts)
  BY <1>5 DEF Changed, Page
<1>7. page' = [page EXCEPT ![p] = g] /\ UNCHANGED <<registry, stored, drawn, owner>>
  BY <1>3, <1>4, <1>5 DEF OnClose, PageInv, TypeOK
<1>8. LinkOK(g)
  <2>1. l = "waiting" => n >= 1
    BY <1>2, <1>3, <1>4
  <2>2. l = "gaveUp" /\ InitialTries > 1 => h.keepAlives = {}
    <3>1. h.link = "open" => h.tries = InitialTries
      BY <1>1 DEF PageOK, LinkOK
    <3>2. h.link \in {"connecting", "open"}
      BY DEF OnClose
    <3> QED
      BY <1>1, <1>4, <3>1, <3>2 DEF PageOK, LinkOK
  <2> QED
    BY <1>1, <1>6, <2>1, <2>2 DEF PageOK, LinkOK, Changed
<1>9. h.keepAlives \in SUBSET Socket
  BY DEF Page
<1> QED
  BY <1>1, <1>6, <1>7, <1>8, <1>9, LinkChanged

LEMMA ReconnectInv ==
    ASSUME PageInv, NEW p \in PageId, Reconnect(p)
    PROVE  PageInv'
<1> USE LoginPageAssumption
<1>1. page[p] \in Page /\ PageOK(p, page[p]) /\ page[p] # None
  BY OfPage DEF Reconnect
<1> PICK h \in Page : h = page[p]
  BY <1>1
<1>2. PICK g : g = [h EXCEPT !.link = "connecting", !.keepAlives = {}]
  OBVIOUS
<1>3. g = Changed(h, "connecting", h.socket, h.tries, {}, h.manager, h.read, h.asking, h.posts)
  BY <1>2 DEF Changed, Page
<1>4. page' = [page EXCEPT ![p] = g] /\ UNCHANGED <<registry, stored, drawn, owner>>
  BY <1>2 DEF Reconnect, PageInv, TypeOK
<1>5. LinkOK(g)
  BY <1>1, <1>3 DEF PageOK, LinkOK, Reconnect, Changed
<1>6. h.tries \in 0..InitialTries /\ {} \in SUBSET Socket
  BY DEF Page
<1> QED
  BY <1>1, <1>3, <1>4, <1>5, <1>6, LinkChanged

(* A step of its wallet calls leaves its socket alone.                     *)
LEMMA SessionChanged ==
    ASSUME PageInv, NEW p \in PageId, page[p] # None,
           NEW manager \in {"loading", "restoring", "pairing", "ready"},
           NEW read \in Known \cup {None}, NEW asking \in SUBSET drawn', NEW posts \in Nat,
           NEW g, g = Changed(page[p], page[p].link, page[p].socket, page[p].tries,
                              page[p].keepAlives, manager, read, asking, posts),
           AskOK(g),
           page' = [page EXCEPT ![p] = g], UNCHANGED <<registry, owner>>,
           drawn \subseteq drawn', drawn' \subseteq Session, stored' \in Known' \cup {None}
    PROVE  PageInv'
<1>1. page[p] \in Page /\ PageOK(p, page[p])
  BY OfPage
<1>2. g \in Page
  <2>1. read \in Json \cup {None} /\ asking \in SUBSET Session
    BY DEF Known, Json, PageInv, TypeOK
  <2> QED
    BY <1>1, <2>1 DEF Page, Changed
<1>3. LinkOK(g) /\ HeldBy(p, g) /\ g.rawSdr = Disclosing!disclosureArgs(g.words)
  BY <1>1 DEF PageOK, LinkOK, HeldBy, Changed
<1>4. SessionOK(g)'
  <2>1. g.read = read /\ g.asking = asking
    BY DEF Changed
  <2>2. Known \subseteq Known'
    BY DEF Known
  <2> QED
    BY <2>1, <2>2 DEF SessionOK
<1> QED
  BY <1>2, <1>3, <1>4, OwnStep

LEMMA LoadSessionInv ==
    ASSUME PageInv, NEW p \in PageId, LoadSession(p)
    PROVE  PageInv'
<1> USE LoginPageAssumption
<1>1. page[p] \in Page /\ PageOK(p, page[p]) /\ page[p] # None
  BY OfPage DEF LoadSession
<1> PICK h \in Page : h = page[p]
  BY <1>1
<1>2. PICK m \in {"pairing", "restoring"} : m = IF stored = None THEN "pairing" ELSE "restoring"
  OBVIOUS
<1>3. PICK r : r = stored
  OBVIOUS
<1>4. PICK g : g = [h EXCEPT !.manager = m, !.read = r]
  OBVIOUS
<1>5. g = Changed(h, h.link, h.socket, h.tries, h.keepAlives, m, r, h.asking, h.posts)
  BY <1>4 DEF Changed, Page
<1>6. page' = [page EXCEPT ![p] = g] /\ UNCHANGED <<registry, stored, drawn, owner>>
  BY <1>2, <1>3, <1>4 DEF LoadSession, PageInv, TypeOK
<1>7. AskOK(g)
  BY <1>1, <1>2, <1>3, <1>5 DEF PageOK, AskOK, LoadSession, Changed
<1>8. r \in Known \cup {None} /\ stored' \in Known' \cup {None}
  BY <1>3, <1>6 DEF PageInv, Known
<1>9. h.asking \in SUBSET drawn' /\ h.posts \in Nat /\ drawn \subseteq drawn' /\ drawn' \subseteq Session
  BY <1>1, <1>6 DEF PageOK, SessionOK, Page, PageInv, TypeOK
<1> QED
  BY <1>1, <1>5, <1>6, <1>7, <1>8, <1>9, SessionChanged

LEMMA RestoreSessionInv ==
    ASSUME PageInv, NEW p \in PageId, RestoreSession(p)
    PROVE  PageInv'
<1> USE LoginPageAssumption
<1>1. page[p] \in Page /\ PageOK(p, page[p]) /\ page[p] # None
  BY OfPage DEF RestoreSession
<1> PICK h \in Page : h = page[p]
  BY <1>1
<1>2. PICK s \in drawn : h.read = Wallet!toJSON(s)
  BY <1>1 DEF PageOK, AskOK, SessionOK, Known, RestoreSession
<1>3. Wallet!fromJSON(h.read) = s
  BY <1>2, RoundTrip DEF PageInv, TypeOK
<1>4. PICK a : a = {s}
  OBVIOUS
<1>5. PICK g : g = [h EXCEPT !.manager = "ready", !.asking = a]
  OBVIOUS
<1>6. g = Changed(h, h.link, h.socket, h.tries, h.keepAlives, "ready", h.read, a, h.posts)
  BY <1>5 DEF Changed, Page
<1>7. /\ page' = [page EXCEPT ![p] = g] /\ UNCHANGED <<registry, drawn, owner>>
      /\ stored' = h.read
  BY <1>2, <1>3, <1>4, <1>5 DEF RestoreSession, PageInv, TypeOK
<1>8. AskOK(g)
  <2>1. h.posts = 0
    BY <1>1 DEF PageOK, AskOK, RestoreSession
  <2> QED
    BY <1>4, <1>6, <2>1 DEF AskOK, Changed
<1>9. h.read \in Known \cup {None} /\ stored' \in Known' \cup {None}
  BY <1>1, <1>7 DEF PageOK, SessionOK, Known
<1>10. a \in SUBSET drawn' /\ h.posts \in Nat /\ drawn \subseteq drawn' /\ drawn' \subseteq Session
  BY <1>4, <1>7 DEF Page, PageInv, TypeOK
<1> QED
  BY <1>1, <1>6, <1>7, <1>8, <1>9, <1>10, SessionChanged

LEMMA PairInv ==
    ASSUME PageInv, NEW p \in PageId, Pair(p)
    PROVE  PageInv'
<1> USE LoginPageAssumption
<1>1. page[p] \in Page /\ PageOK(p, page[p]) /\ page[p] # None
  BY OfPage DEF Pair
<1> PICK h \in Page : h = page[p]
  BY <1>1
<1>2. PICK s \in Session \ drawn :
          /\ stored' = Wallet!toJSON(s)
          /\ drawn' = drawn \cup {s}
          /\ page' = [page EXCEPT ![p].manager = "ready", ![p].asking = @ \cup {s}]
  BY DEF Pair
<1>3. h.asking = {} /\ h.posts = 0
  BY <1>1 DEF PageOK, AskOK, Pair
<1>4. PICK a : a = {s}
  OBVIOUS
<1>5. PICK g : g = [h EXCEPT !.manager = "ready", !.asking = a]
  OBVIOUS
<1>6. g = Changed(h, h.link, h.socket, h.tries, h.keepAlives, "ready", h.read, a, h.posts)
  BY <1>5 DEF Changed, Page
<1>7. a = h.asking \cup {s}
  BY <1>3, <1>4
<1>8. page' = [page EXCEPT ![p] = g] /\ UNCHANGED <<registry, owner>>
  BY <1>2, <1>5, <1>7 DEF Pair, PageInv, TypeOK
<1>9. AskOK(g)
  BY <1>3, <1>4, <1>6 DEF AskOK, Changed
<1>10. h.read \in Known \cup {None} /\ stored' \in Known' \cup {None}
  BY <1>1, <1>2 DEF PageOK, SessionOK, Known
<1>11. a \in SUBSET drawn' /\ h.posts \in Nat /\ drawn \subseteq drawn' /\ drawn' \subseteq Session
  BY <1>2, <1>4 DEF Page, PageInv, TypeOK
<1> QED
  BY <1>1, <1>6, <1>8, <1>9, <1>10, <1>11, SessionChanged

LEMMA DiscloseInv ==
    ASSUME PageInv, NEW p \in PageId, NEW s \in Session, Disclose(p, s)
    PROVE  PageInv'
<1> USE LoginPageAssumption
<1>1. page[p] \in Page /\ PageOK(p, page[p]) /\ page[p] # None
  BY OfPage DEF Disclose
<1> PICK h \in Page : h = page[p]
  BY <1>1
<1>2. s \in h.asking
  BY DEF Disclose
<1>3. h.asking = {s} /\ h.posts = 0 /\ h.manager = "ready"
  BY <1>1, <1>2 DEF PageOK, AskOK, Page
<1>4. PICK a : a = {}
  OBVIOUS
<1>5. PICK n \in Nat : n = 1
  OBVIOUS
<1>6. PICK g : g = [h EXCEPT !.asking = a, !.posts = n]
  OBVIOUS
<1>7. g = Changed(h, h.link, h.socket, h.tries, h.keepAlives, h.manager, h.read, a, n)
  BY <1>3, <1>5, <1>6 DEF Changed, Page
<1>8. a = h.asking \ {s} /\ n = h.posts + 1
  BY <1>3, <1>4, <1>5
<1>9. page' = [page EXCEPT ![p] = g] /\ UNCHANGED <<registry, stored, drawn, owner>>
  BY <1>6, <1>8 DEF Disclose, PageInv, TypeOK
<1>10. AskOK(g)
  BY <1>3, <1>4, <1>5, <1>7 DEF AskOK, Changed
<1>11. h.read \in Known \cup {None} /\ stored' \in Known' \cup {None}
  BY <1>1, <1>9 DEF PageOK, SessionOK, Known, PageInv
<1>12. a \in SUBSET drawn' /\ drawn \subseteq drawn' /\ drawn' \subseteq Session
       /\ h.manager \in {"loading", "restoring", "pairing", "ready"}
  BY <1>4, <1>9 DEF Page, PageInv, TypeOK
<1> QED
  BY <1>1, <1>7, <1>9, <1>10, <1>11, <1>12, SessionChanged

LEMMA RefuseInv ==
    ASSUME PageInv, NEW p \in PageId, NEW s \in Session, Refuse(p, s)
    PROVE  PageInv'
<1> USE LoginPageAssumption
<1>1. page[p] \in Page /\ PageOK(p, page[p]) /\ page[p] # None
  BY OfPage DEF Refuse
<1> PICK h \in Page : h = page[p]
  BY <1>1
<1>2. s \in h.asking
  BY DEF Refuse
<1>3. h.asking = {s} /\ h.posts = 0 /\ h.manager = "ready"
  BY <1>1, <1>2 DEF PageOK, AskOK, Page
<1>4. PICK a : a = {}
  OBVIOUS
<1>5. PICK n \in Nat : n = 0
  OBVIOUS
<1>6. PICK g : g = [h EXCEPT !.asking = a]
  OBVIOUS
<1>7. g = Changed(h, h.link, h.socket, h.tries, h.keepAlives, h.manager, h.read, a, n)
  BY <1>3, <1>5, <1>6 DEF Changed, Page
<1>8. a = h.asking \ {s} /\ n = h.posts + 0
  BY <1>3, <1>4, <1>5
<1>9. page' = [page EXCEPT ![p] = g] /\ UNCHANGED <<registry, stored, drawn, owner>>
  BY <1>6, <1>8 DEF Refuse, PageInv, TypeOK
<1>10. AskOK(g)
  BY <1>3, <1>4, <1>5, <1>7 DEF AskOK, Changed
<1>11. h.read \in Known \cup {None} /\ stored' \in Known' \cup {None}
  BY <1>1, <1>9 DEF PageOK, SessionOK, Known, PageInv
<1>12. a \in SUBSET drawn' /\ drawn \subseteq drawn' /\ drawn' \subseteq Session
       /\ h.manager \in {"loading", "restoring", "pairing", "ready"}
  BY <1>4, <1>9 DEF Page, PageInv, TypeOK
<1> QED
  BY <1>1, <1>7, <1>9, <1>10, <1>11, <1>12, SessionChanged

(* The steps of the registry.                                              *)
LEMMA RegistryStep ==
    ASSUME PageInv, Registry!Next
    PROVE  RegistryFacts!IInv' /\ Registry!TypeOK'
<1>1. Registry!Next => RegistryFacts!Next
  BY DEF Registry!Next, RegistryFacts!Next, Registry!Connect, RegistryFacts!Connect,
         Registry!PutTag, RegistryFacts!PutTag, Registry!CloseUntagged, RegistryFacts!CloseUntagged,
         Registry!CloseTagged, RegistryFacts!CloseTagged, Registry!CloseThrows,
         RegistryFacts!CloseThrows, Registry!Down, RegistryFacts!Down, Registry!Stop,
         RegistryFacts!Stop, Registry!Restart, RegistryFacts!Restart, Registry!Socket,
         RegistryFacts!Socket
<1>2. RegistryFacts!IInv'
  BY <1>1, LoginPageAssumption, RegistryFacts!NextInv DEF PageInv
<1>3. RegistryFacts!IInv' => Registry!TypeOK'
  BY DEF RegistryFacts!IInv, RegistryFacts!TypeOK, Registry!TypeOK, Registry!Socket,
         RegistryFacts!Socket
<1> QED
  BY <1>2, <1>3

(* A step of the registry that gives nobody a tag.                         *)
LEMMA QuietSockets ==
    ASSUME PageInv, Registry!Next, UNCHANGED <<page, stored, drawn, owner, tagOf>>,
           accepted <= accepted'
    PROVE  PageInv'
<1>1. RegistryFacts!IInv' /\ Registry!TypeOK'
  BY RegistryStep
<1>2. accepted \in 0..MaxSocket /\ accepted' \in 0..MaxSocket
  BY <1>1 DEF PageInv, TypeOK, Registry!TypeOK
<1>3. TypeOK'
  BY <1>1 DEF PageInv, TypeOK, Socket, Registry!Socket
<1>4. Owned'
  BY <1>2 DEF PageInv, Owned, Socket, Registry!Socket
<1>5. ASSUME NEW p \in PageId, page'[p] # None PROVE PageOK(p, page[p])'
  <2>1. PageOK(p, page[p])
    BY <1>5 DEF PageInv
  <2>2. HeldBy(p, page[p])'
    BY <1>2, <2>1 DEF PageOK, HeldBy, Socket, Registry!Socket
  <2> QED
    BY <2>1, <2>2 DEF PageOK, LinkOK, AskOK, SessionOK, Known
<1> QED
  BY <1>1, <1>3, <1>4, <1>5 DEF PageInv, Known

LEMMA ServerInv == PageInv /\ ServerStep => PageInv'
<1> SUFFICES ASSUME PageInv, ServerStep PROVE PageInv'
  OBVIOUS
<1>1. Registry!Next
  BY DEF ServerStep, Registry!Next, Socket
<1>2. UNCHANGED <<page, stored, drawn, owner, tagOf, accepted>>
  BY DEF ServerStep, Registry!CloseUntagged, Registry!CloseTagged, Registry!CloseThrows,
         Registry!Stop, Registry!Restart
<1>3. accepted <= accepted'
  BY <1>2, LoginPageAssumption DEF PageInv, TypeOK, Registry!TypeOK
<1> QED
  BY <1>1, <1>2, <1>3, QuietSockets

LEMMA StrayInv ==
    ASSUME PageInv, NEW uid \in Tag, Stray(uid)
    PROVE  PageInv'
<1>1. Registry!Connect(None) /\ UNCHANGED <<page, stored, drawn, owner>>
  BY NotTagged DEF Stray
<1>2. Registry!Next
  BY <1>1 DEF Registry!Next
<1>3. accepted <= accepted' /\ tagOf' = tagOf
  BY <1>1 DEF Registry!Connect, Registry!PutTag, PageInv, TypeOK, Registry!TypeOK
<1> QED
  BY <1>1, <1>2, <1>3, QuietSockets

LEMMA LeaveInv ==
    ASSUME PageInv, NEW p \in PageId, Leave(p)
    PROVE  PageInv'
<1>1. page' = [page EXCEPT ![p] = None] /\ UNCHANGED <<registry, stored, drawn, owner>>
  BY DEF Leave
<1>2. TypeOK'
  BY <1>1 DEF PageInv, TypeOK, Registry!TypeOK, registry, Socket, Registry!Socket
<1>3. RegistryFacts!IInv'
  BY <1>1 DEF PageInv, registry, RegistryFacts!IInv, RegistryFacts!TypeOK,
         RegistryFacts!RegistryLive, RegistryFacts!GetNewest, RegistryFacts!OnlyNewerTakesOver,
         RegistryFacts!Untagged, RegistryFacts!Socket
<1>4. Owned' /\ stored' \in Known' \cup {None}
  BY <1>1 DEF PageInv, Owned, registry, Socket, Registry!Socket, Known
<1>5. ASSUME NEW q \in PageId, page'[q] # None PROVE PageOK(q, page[q])'
  <2>1. page'[q] = page[q] /\ page[q] # None
    BY <1>1, <1>5 DEF PageInv, TypeOK
  <2>2. PageOK(q, page[q])
    BY <2>1 DEF PageInv
  <2> QED
    BY <1>1, <2>1, <2>2 DEF PageOK, LinkOK, AskOK, SessionOK, HeldBy, Known, registry, Socket,
                            Registry!Socket
<1> QED
  BY <1>2, <1>3, <1>4, <1>5 DEF PageInv

(* The server accepts: the new socket is the page's and the newest.        *)
LEMMA AcceptInv ==
    ASSUME PageInv, NEW p \in PageId, Accept(p)
    PROVE  PageInv'
<1> USE LoginPageAssumption
<1>1. page[p] \in Page /\ PageOK(p, page[p]) /\ page[p] # None
  BY OfPage DEF Accept
<1> PICK h \in Page : h = page[p]
  BY <1>1
<1>2. h.uid \in Tag /\ Registry!Connect(h.uid)
  BY TaggedWithUid DEF Page, Accept
<1>3. RegistryFacts!IInv' /\ Registry!TypeOK'
  BY <1>2, RegistryStep DEF Registry!Next
<1>4. PICK s \in Socket : s = accepted + 1
  BY <1>2 DEF Registry!Connect, PageInv, TypeOK, Registry!TypeOK, Socket, Registry!Socket
<1>5. /\ accepted' = s /\ tagOf' = [tagOf EXCEPT ![s] = h.uid]
      /\ owner' = [owner EXCEPT ![s] = p] /\ UNCHANGED <<stored, drawn>>
  BY <1>2, <1>4 DEF Registry!Connect, Registry!PutTag, Accept
<1>6. PICK g : g = [h EXCEPT !.socket = s]
  OBVIOUS
<1>7. g = Changed(h, h.link, s, h.tries, h.keepAlives, h.manager, h.read, h.asking, h.posts)
  BY <1>6 DEF Changed, Page
<1>8. page' = [page EXCEPT ![p] = g]
  BY <1>4, <1>6 DEF Accept, PageInv, TypeOK
<1>9. g \in Page
  BY <1>7 DEF Page, Changed
<1>10. TypeOK'
  BY <1>3, <1>5, <1>8, <1>9 DEF PageInv, TypeOK
<1>11. \A n \in Socket : owner'[n] = (IF n = s THEN p ELSE owner[n])
                            /\ tagOf'[n] = (IF n = s THEN h.uid ELSE tagOf[n])
  BY <1>5 DEF PageInv, TypeOK, Registry!TypeOK, Socket
<1>12. accepted \in 0..MaxSocket /\ Socket = 1..MaxSocket
  BY DEF PageInv, TypeOK, Registry!TypeOK, Socket, Registry!Socket
<1>13. Owned'
  BY <1>4, <1>5, <1>11, <1>12 DEF PageInv, Owned
<1>14. PageOK(p, g)'
  <2>1. LinkOK(g) /\ AskOK(g) /\ SessionOK(g)' /\ g.rawSdr = Disclosing!disclosureArgs(g.words)
    BY <1>1, <1>5, <1>7 DEF Accept, PageOK, LinkOK, AskOK, SessionOK, Known, Changed
  <2>2. g.socket = s /\ g.uid = h.uid
    BY <1>7 DEF Changed
  <2>3. \A n \in Socket : owner'[n] = p => n <= s
    BY <1>4, <1>11, <1>12 DEF PageInv, Owned
  <2>4. HeldBy(p, g)'
    BY <1>4, <1>5, <1>11, <1>12, <2>2, <2>3 DEF HeldBy
  <2> QED
    BY <2>1, <2>4 DEF PageOK, LinkOK, AskOK
<1>15. ASSUME NEW q \in PageId \ {p}, page[q] # None PROVE PageOK(q, page[q])'
  <2>1. page'[q] = page[q]
    BY <1>8 DEF PageInv, TypeOK
  <2>2. PageOK(q, page[q])
    BY <1>15 DEF PageInv
  <2>3. HeldBy(q, page[q])'
    BY <1>4, <1>5, <1>11, <1>12, <2>1, <2>2 DEF PageOK, HeldBy
  <2> QED
    BY <1>5, <2>1, <2>2, <2>3 DEF PageOK, LinkOK, AskOK, SessionOK, Known
<1>16. \A q \in PageId : page'[q] = IF q = p THEN g ELSE page[q]
  BY <1>8 DEF PageInv, TypeOK
<1>17. ASSUME NEW q \in PageId, page'[q] # None PROVE PageOK(q, page[q])'
  <2>1. CASE q = p
    BY <1>14, <1>16, <2>1 DEF PageOK, LinkOK, AskOK, SessionOK, HeldBy
  <2>2. CASE q # p
    BY <1>15, <1>16, <1>17, <2>2
  <2> QED
    BY <2>1, <2>2
<1> QED
  BY <1>3, <1>5, <1>10, <1>13, <1>17 DEF PageInv, Known

LEMMA NextPage == PageInv /\ [Next]_vars => PageInv'
<1> SUFFICES ASSUME PageInv, [Next]_vars PROVE PageInv'
  OBVIOUS
<1>1. ASSUME NEW p \in PageId, NEW uid \in Tag, NEW words \in Scope, Load(p, uid, words)
      PROVE  PageInv'
  BY <1>1, LoadInv
<1>2. ASSUME NEW p \in PageId,
             \/ Accept(p) \/ OnOpen(p) \/ OnClose(p) \/ Reconnect(p) \/ Leave(p)
             \/ LoadSession(p) \/ RestoreSession(p) \/ Pair(p)
      PROVE  PageInv'
  BY <1>2, AcceptInv, OnOpenInv, OnCloseInv, ReconnectInv, LeaveInv, LoadSessionInv,
     RestoreSessionInv, PairInv
<1>3. ASSUME NEW p \in PageId, NEW s \in Session, Disclose(p, s) \/ Refuse(p, s) PROVE PageInv'
  BY <1>3, DiscloseInv, RefuseInv
<1>4. ASSUME NEW uid \in Tag, Stray(uid) PROVE PageInv'
  BY <1>4, StrayInv
<1>5. CASE ServerStep
  BY <1>5, ServerInv
<1>6. CASE UNCHANGED vars
  <2>1. TypeOK'
    BY <1>6 DEF vars, PageInv, TypeOK, Registry!TypeOK, Socket, Registry!Socket
  <2>2. RegistryFacts!IInv'
    BY <1>6 DEF vars, PageInv, RegistryFacts!IInv, RegistryFacts!TypeOK,
         RegistryFacts!RegistryLive, RegistryFacts!GetNewest, RegistryFacts!OnlyNewerTakesOver,
         RegistryFacts!Untagged, RegistryFacts!Socket
  <2> QED
    BY <1>6, <2>1, <2>2 DEF vars, PageInv, Owned, Known, PageOK, LinkOK, AskOK, SessionOK, HeldBy,
                            Socket, Registry!Socket
<1> QED
  BY <1>1, <1>2, <1>3, <1>4, <1>5, <1>6 DEF Next

LEMMA PageInductive == Spec => []PageInv
BY InitPage, NextPage, PTL DEF Spec

(* The type invariant.                                                     *)
THEOREM TypeCorrect == Spec => []TypeOK
<1>1. PageInv => TypeOK
  BY DEF PageInv
<1> QED
  BY <1>1, PageInductive, PTL

(* The last word for a name decides, and it is a vce: word if none after a *)
(* vce: word is vc:.                                                       *)
LEMMA SaysEssential ==
    ASSUME NEW words \in Seq(Disclosing!Word), NEW i \in DOMAIN words,
           words[i].kind = "vce", ~Weakened(words, i)
    PROVE  Disclosing!SaysOf(words, words[i].name) = "essential"
<1> DEFINE n == words[i].name
           for == Disclosing!WordsFor(words, n)
           last == CHOOSE m \in for : \A j \in for : j <= m
<1>1. /\ DOMAIN words = 1..Len(words) /\ Len(words) \in Nat
      /\ \A j \in DOMAIN words : words[j] \in Disclosing!Word
  OBVIOUS
<1>2. for \in SUBSET (1..Len(words)) /\ i \in for
  BY <1>1 DEF Disclosing!WordsFor
<1>3. \A j \in for : words[j].kind \in {"vc", "vce"} /\ words[j].name = n
  BY <1>1 DEF Disclosing!WordsFor, Disclosing!Word
<1> HIDE DEF for
<1>4. PICK m \in for : \A j \in for : m >= j
  BY <1>1, <1>2, Merging!Largest
<1>5. last \in for /\ \A j \in for : j <= last
  BY <1>1, <1>2, <1>4
<1> HIDE DEF last
<1>6. words[last].kind = "vce"
  <2> SUFFICES ASSUME words[last].kind # "vce" PROVE FALSE
    OBVIOUS
  <2>1. words[last].kind = "vc" /\ words[last].name = n
    BY <1>3, <1>5
  <2>2. i <= last /\ i # last
    BY <1>2, <1>5
  <2>3. i < last /\ last \in DOMAIN words
    BY <1>1, <1>2, <1>5, <2>2
  <2> QED
    BY <2>1, <2>3 DEF Weakened
<1>7. Disclosing!SaysOf(words, n) = IF words[last].kind = "vce" THEN "essential" ELSE "optional"
  BY <1>2 DEF Disclosing!SaysOf, last, for
<1> QED
  BY <1>6, <1>7

(* EssentialAsked, for scopes of any length: the wallet is told of every   *)
(* credential the scope calls essential, wherever the words for it stand,  *)
(* unless a later word weakens the one that says so.                       *)
THEOREM EssentialAskedCorrect == Spec => []EssentialAsked
<1>1. PageInv => EssentialAsked
  <2> SUFFICES ASSUME PageInv, NEW p \in PageId, page[p] # None,
                      NEW i \in DOMAIN page[p].words, page[p].words[i].kind = "vce",
                      ~Weakened(page[p].words, i)
               PROVE  page[p].rawSdr[page[p].words[i].name] = "essential"
    BY DEF EssentialAsked
  <2>1. page[p] \in Page /\ PageOK(p, page[p])
    BY OfPage
  <2>2. page[p].words \in Scope /\ page[p].words \in Seq(Disclosing!Word)
    BY <2>1, LoginPageAssumption DEF Page
  <2>3. page[p].words[i].name \in Name
    BY <2>2 DEF Disclosing!Word
  <2>4. Disclosing!SaysOf(page[p].words, page[p].words[i].name) = "essential"
    BY <2>2, SaysEssential
  <2>5. page[p].rawSdr = Disclosing!disclosureArgs(page[p].words)
    BY <2>1 DEF PageOK
  <2> QED
    BY <2>2, <2>3, <2>4, <2>5, AsksAsSays DEF AsSays
<1> QED
  BY <1>1, PageInductive, PTL

(* OnlyOtherPageTakesOver: a connected page is reached under its           *)
(* interaction unless another page of it connected later.                  *)
THEOREM OnlyOtherPageCorrect == Spec => []OnlyOtherPageTakesOver
<1>1. PageInv => OnlyOtherPageTakesOver
  <2> SUFFICES ASSUME PageInv, NEW p \in PageId, page[p] # None, page[p].socket \in open,
                      NEW s, s = page[p].socket, tags[page[p].uid] # s
               PROVE  \E n \in Socket : n > s /\ tagOf[n] = page[p].uid /\ owner[n] \notin {p, None}
    BY DEF OnlyOtherPageTakesOver
  <2> USE LoginPageAssumption
  <2>1. page[p] \in Page /\ PageOK(p, page[p])
    BY OfPage
  <2>2. s # None
    <3>1. open \subseteq 1..accepted /\ accepted \in 0..MaxSocket
      BY DEF PageInv, TypeOK, Registry!TypeOK
    <3>2. s \in open
      OBVIOUS
    <3>3. s \in 1..accepted
      BY <3>1, <3>2, Zenon
    <3>4. accepted \in Nat
      BY <3>1
    <3>5. s \in Nat
      BY <3>3, <3>4
    <3> QED
      BY <3>5
  <2>3. tagOf[s] = page[p].uid /\ \A n \in Socket : owner[n] = p => n <= s
    BY <2>1, <2>2 DEF PageOK, HeldBy
  <2>4. page[p].uid # None
    BY <2>1 DEF Page
  <2>5. PICK n \in RegistryFacts!Socket : n > s /\ n <= accepted /\ tagOf[n] = tagOf[s]
    BY <2>3, <2>4 DEF PageInv, RegistryFacts!IInv, RegistryFacts!OnlyNewerTakesOver
  <2>6. n \in Socket /\ s \in Socket
    BY <2>1, <2>2 DEF Page, Socket, Registry!Socket, RegistryFacts!Socket
  <2>7. owner[n] # p
    BY <2>3, <2>5, <2>6 DEF Socket, Registry!Socket
  <2>8. owner[n] \in PageId
    BY <2>3, <2>4, <2>5, <2>6 DEF PageInv, Owned
  <2> QED
    BY <2>3, <2>5, <2>6, <2>7, <2>8
<1> QED
  BY <1>1, PageInductive, PTL

(* PostsOnce: whatever the pages of a browser pair and store meanwhile,    *)
(* each posts one answer at most.                                          *)
THEOREM PostsOnceCorrect == Spec => []PostsOnce
<1>1. PageInv => PostsOnce
  BY DEF PageInv, PostsOnce, PageOK, AskOK
<1> QED
  BY <1>1, PageInductive, PTL

(* PairingKept: what a page asks with after reading local storage is a     *)
(* session some page of the browser was paired with.                       *)
THEOREM PairingKeptCorrect == Spec => []PairingKept
<1>1. PageInv => PairingKept
  BY DEF PageInv, PairingKept, PageOK, SessionOK
<1> QED
  BY <1>1, PageInductive, PTL

-----------------------------------------------------------------------------
(* Keys and messages.                                                      *)

(* The instance WalletFacts computes what the instance Wallet does.        *)
LEMMA SameKey ==
    ASSUME NEW from, NEW to, NEW secret
    PROVE  Wallet!deriveKey(from, to, secret) = WalletFacts!deriveKey(from, to, secret)
BY DEF Wallet!deriveKey, WalletFacts!deriveKey, Wallet!insertBytes, WalletFacts!insertBytes,
   Wallet!hex2U8Arr, WalletFacts!hex2U8Arr, Wallet!At, WalletFacts!At, Wallet!Throws, WalletFacts!Throws

LEMMA SameCipher ==
    /\ Wallet!IvLength = WalletFacts!IvLength /\ Wallet!Throws = WalletFacts!Throws
    /\ \A key, iv, m : Wallet!encrypt(key, iv, m) = WalletFacts!encrypt(key, iv, m)
    /\ \A key, sequence : Wallet!decrypt(key, sequence) = WalletFacts!decrypt(key, sequence)
<1>1. Wallet!IvLength = WalletFacts!IvLength /\ Wallet!Throws = WalletFacts!Throws
  BY DEF Wallet!IvLength, WalletFacts!IvLength, Wallet!Throws, WalletFacts!Throws
<1>2. ASSUME NEW key, NEW iv, NEW m PROVE Wallet!encrypt(key, iv, m) = WalletFacts!encrypt(key, iv, m)
  BY DEF Wallet!encrypt, WalletFacts!encrypt, Wallet!join, WalletFacts!join, Wallet!Seal,
     WalletFacts!Seal, Wallet!FoldLeft, WalletFacts!FoldLeft, Wallet!MapThenFoldSet,
     WalletFacts!MapThenFoldSet, Wallet!Max, WalletFacts!Max
<1>3. ASSUME NEW key, NEW sequence
      PROVE  Wallet!decrypt(key, sequence) = WalletFacts!decrypt(key, sequence)
  <2>1. ASSUME NEW k, NEW iv, NEW c PROVE Wallet!Unseal(k, iv, c) = WalletFacts!Unseal(k, iv, c)
    BY <1>1 DEF Wallet!Unseal, WalletFacts!Unseal, Wallet!Last, WalletFacts!Last, Wallet!Front,
       WalletFacts!Front
  <2>2. ASSUME NEW b, NEW z PROVE Wallet!split(b, z) = WalletFacts!split(b, z)
    BY DEF Wallet!split, WalletFacts!split, Wallet!FoldLeft, WalletFacts!FoldLeft,
       Wallet!MapThenFoldSet, WalletFacts!MapThenFoldSet, Wallet!Max, WalletFacts!Max
  <2> QED
    BY <1>1, <2>1, <2>2 DEF Wallet!decrypt, WalletFacts!decrypt
<1> QED
  BY <1>1, <1>2, <1>3

(* Opening what a page asks with a session takes the key it was sealed     *)
(* with.                                                                   *)
LEMMA OpensSent ==
    ASSUME NEW s, NEW key
    PROVE  Wallet!decrypt(key, Sent(s))
               = IF key = Wallet!encryptKey(s.masterKey) THEN Question ELSE Wallet!Throws
<1> DEFINE iv == [i \in 1..Wallet!IvLength |-> i]
           k == Wallet!encryptKey(s.masterKey)
           V == Nat
<1>1. iv \in Seq(V) /\ Len(iv) = WalletFacts!IvLength /\ Question \in Seq(V)
  BY DEF Question, Wallet!IvLength, WalletFacts!IvLength
<1>2. Sent(s) = WalletFacts!encrypt(k, iv, Question)
  BY SameCipher DEF Sent
<1> HIDE DEF iv, k, V
<1>3. WalletFacts!decrypt(key, WalletFacts!encrypt(k, iv, Question))
          = IF key = k THEN Question ELSE WalletFacts!Throws
  BY <1>1, WalletFacts!OpensWithItsKey
<1> QED
  BY <1>2, <1>3, SameCipher DEF k

(* The parts of a session's key; its other end decrypts with the key this  *)
(* end encrypts with.                                                      *)
LEMMA EndsOf ==
    ASSUME NEW s \in Session \cup Elsewhere
    PROVE  LET k == s.masterKey IN
           /\ k.from \in DOMAIN digest /\ k.to \in DOMAIN digest
           /\ digest[k.from] \in WalletFacts!Hash /\ digest[k.to] \in WalletFacts!Hash
           /\ k.secret \in Seq(WalletFacts!Byte) /\ Len(k.secret) = KeyLength
           /\ Wallet!decryptKey(OtherEnd(k)) = Wallet!encryptKey(k)
<1> DEFINE k == s.masterKey
           V == Wallet!Secret
<1>1. k \in [from : DOMAIN digest, to : DOMAIN digest, port : Nat, na : V, nb : V, secret : V]
      /\ Len(k.secret) = KeyLength
  BY PairingAssumption DEF Wallet!Sessions, Wallet!MasterKey
<1>2. k.from \in DOMAIN digest /\ k.to \in DOMAIN digest /\ k.secret \in V
  <2> HIDE DEF k, V
  <2> QED
    BY <1>1
<1>3. k.secret \in Seq(WalletFacts!Byte)
  BY <1>2 DEF Wallet!Secret, Wallet!Byte, WalletFacts!Byte
<1>4. digest[k.from] \in WalletFacts!Hash /\ digest[k.to] \in WalletFacts!Hash
  BY <1>2, PairingAssumption DEF WalletFacts!Hash
<1> HIDE DEF k, V
<1>5. OtherEnd(k).from = k.to /\ OtherEnd(k).to = k.from /\ OtherEnd(k).secret = k.secret
  BY <1>1 DEF OtherEnd
<1>6. Wallet!decryptKey(OtherEnd(k)) = Wallet!encryptKey(k)
  BY <1>5 DEF Wallet!decryptKey, Wallet!encryptKey
<1> QED
  BY <1>1, <1>2, <1>3, <1>4, <1>6 DEF k

(* Keys of different sessions differ, and so do the two of one.            *)
LEMMA KeysOfSessions ==
    ASSUME NEW s \in Session \cup Elsewhere, NEW t \in Session \cup Elsewhere
    PROVE  /\ Wallet!encryptKey(t.masterKey) = Wallet!encryptKey(s.masterKey) <=> t = s
           /\ Wallet!decryptKey(s.masterKey) # Wallet!encryptKey(s.masterKey)
<1> DEFINE k == s.masterKey
           l == t.masterKey
<1>1. KeyLength \in Nat /\ KeyLength > 0
  BY PairingAssumption
<1>2. /\ digest[k.from] \in WalletFacts!Hash /\ digest[k.to] \in WalletFacts!Hash
      /\ k.secret \in Seq(WalletFacts!Byte) /\ Len(k.secret) = KeyLength
  BY EndsOf
<1>3. /\ digest[l.from] \in WalletFacts!Hash /\ digest[l.to] \in WalletFacts!Hash
      /\ l.secret \in Seq(WalletFacts!Byte) /\ Len(l.secret) = KeyLength
  BY EndsOf
<1>4. k.from \in DOMAIN digest /\ k.to \in DOMAIN digest /\ k.from # k.to
  BY EndsOf, PairingAssumption
<1>5. k.secret = l.secret => s = t
  BY PairingAssumption
<1>6. /\ Wallet!encryptKey(k) = WalletFacts!deriveKey(digest[k.from], digest[k.to], k.secret)
      /\ Wallet!encryptKey(l) = WalletFacts!deriveKey(digest[l.from], digest[l.to], l.secret)
      /\ Wallet!decryptKey(k) = WalletFacts!deriveKey(digest[k.to], digest[k.from], k.secret)
  BY SameKey DEF Wallet!encryptKey, Wallet!decryptKey
<1>7. ASSUME Wallet!encryptKey(l) = Wallet!encryptKey(k) PROVE t = s
  <2> DEFINE from == digest[l.from]
             to == digest[l.to]
             secret == l.secret
             from2 == digest[k.from]
             to2 == digest[k.to]
             secret2 == k.secret
  <2>2. /\ from \in WalletFacts!Hash /\ to \in WalletFacts!Hash
        /\ from2 \in WalletFacts!Hash /\ to2 \in WalletFacts!Hash
        /\ secret \in Seq(WalletFacts!Byte) /\ secret2 \in Seq(WalletFacts!Byte)
        /\ Len(secret) = KeyLength /\ Len(secret2) = KeyLength
    BY <1>2, <1>3
  <2>3. WalletFacts!deriveKey(from, to, secret) = WalletFacts!deriveKey(from2, to2, secret2)
    BY <1>6, <1>7
  <2>1. secret = secret2
    <3> HIDE DEF from, to, secret, from2, to2, secret2
    <3> QED
      BY <1>1, <2>2, <2>3, WalletFacts!KeysDiffer
  <2> QED
    BY <1>5, <2>1
<1>8. ASSUME Wallet!decryptKey(k) = Wallet!encryptKey(k) PROVE FALSE
  <2> DEFINE from == digest[k.from]
             to == digest[k.to]
             secret == k.secret
  <2>2. /\ from \in WalletFacts!Hash /\ to \in WalletFacts!Hash
        /\ secret \in Seq(WalletFacts!Byte) /\ Len(secret) = KeyLength
    BY <1>2
  <2>3. WalletFacts!deriveKey(to, from, secret) = WalletFacts!deriveKey(from, to, secret)
    BY <1>6, <1>8
  <2>1. to = from
    <3> HIDE DEF from, to, secret
    <3> QED
      BY <1>1, <2>2, <2>3, WalletFacts!KeysDiffer
  <2> QED
    BY <1>4, <2>1, PairingAssumption
<1> QED
  BY <1>7, <1>8

(* A message of a page is understood by the other end of its session only. *)
THEOREM OnlyOtherEndCorrect == Spec => []OnlyOtherEndUnderstands
<1>1. ASSUME PageInv, NEW p \in PageId, page[p] # None, NEW s \in page[p].asking
      PROVE  /\ \A t \in drawn \cup Elsewhere :
                    Wallet!decrypt(Wallet!decryptKey(OtherEnd(t.masterKey)), Sent(s))
                        = IF t = s THEN Question ELSE Wallet!Throws
             /\ Wallet!decrypt(Wallet!decryptKey(s.masterKey), Sent(s)) = Wallet!Throws
  <2>1. s \in Session \cup Elsewhere /\ drawn \subseteq Session
    BY <1>1 DEF PageInv, TypeOK, PageOK, SessionOK
  <2>2. ASSUME NEW t \in drawn \cup Elsewhere
        PROVE  Wallet!decrypt(Wallet!decryptKey(OtherEnd(t.masterKey)), Sent(s))
                   = IF t = s THEN Question ELSE Wallet!Throws
    <3>1. t \in Session \cup Elsewhere
      BY <2>1
    <3>2. Wallet!decryptKey(OtherEnd(t.masterKey)) = Wallet!encryptKey(t.masterKey)
      BY <3>1, EndsOf
    <3>3. Wallet!encryptKey(t.masterKey) = Wallet!encryptKey(s.masterKey) <=> t = s
      BY <2>1, <3>1, KeysOfSessions
    <3> QED
      BY <3>2, <3>3, OpensSent
  <2>3. Wallet!decrypt(Wallet!decryptKey(s.masterKey), Sent(s)) = Wallet!Throws
    <3>1. Wallet!decryptKey(s.masterKey) # Wallet!encryptKey(s.masterKey)
      BY <2>1, KeysOfSessions
    <3> QED
      BY <3>1, OpensSent
  <2> QED
    BY <2>2, <2>3
<1>2. PageInv => OnlyOtherEndUnderstands
  BY <1>1 DEF OnlyOtherEndUnderstands
<1> QED
  BY <1>2, PageInductive, PTL

-----------------------------------------------------------------------------

LEMMA AtMostOne ==
    ASSUME NEW S, \A s, t \in S : s = t
    PROVE  Cardinality(S) <= 1
<1>1. CASE S = {}
  BY <1>1, FS_EmptySet
<1>2. CASE S # {}
  <2>1. PICK s \in S : S = {s}
    BY <1>2
  <2> QED
    BY <2>1, FS_Singleton
<1> QED
  BY <1>1, <1>2

(* OneKeepAlive: one interval at most, on the present socket, none once    *)
(* the page gave up.                                                       *)
THEOREM OneKeepAliveCorrect == Spec => []OneKeepAlive
<1>1. PageInv => OneKeepAlive
  BY AtMostOne DEF PageInv, OneKeepAlive, PageOK, LinkOK
<1> QED
  BY <1>1, PageInductive, PTL

(* Each step of the pages is one of the registry or leaves it alone.       *)
LEMMA RegistryStepOf ==
    ASSUME PageInv, [Next]_vars
    PROVE  [Registry!Next]_(Registry!vars)
<1>1. ASSUME NEW p \in PageId, Accept(p) PROVE Registry!Next
  <2>1. page[p] \in Page
    BY <1>1, OfPage DEF Accept
  <2> QED
    BY <1>1, <2>1, TaggedWithUid DEF Accept, Registry!Next, Page
<1>2. ASSUME NEW uid \in Tag, Stray(uid) PROVE Registry!Next
  BY <1>2, NotTagged DEF Stray, Registry!Next
<1>3. CASE ServerStep
  BY <1>3 DEF ServerStep, Registry!Next, Socket
<1>4. ASSUME NEW p \in PageId, NEW uid \in Tag, NEW words \in Scope, Load(p, uid, words)
      PROVE  UNCHANGED registry
  BY <1>4 DEF Load
<1>5. ASSUME NEW p \in PageId,
             \/ OnOpen(p) \/ OnClose(p) \/ Reconnect(p) \/ Leave(p)
             \/ LoadSession(p) \/ RestoreSession(p) \/ Pair(p)
      PROVE  UNCHANGED registry
  BY <1>5 DEF OnOpen, OnClose, Reconnect, Leave, LoadSession, RestoreSession, Pair
<1>6. ASSUME NEW p \in PageId, NEW s \in Session, Disclose(p, s) \/ Refuse(p, s)
      PROVE  UNCHANGED registry
  BY <1>6 DEF Disclose, Refuse
<1>7. UNCHANGED vars => UNCHANGED registry
  BY DEF vars, registry
<1>8. UNCHANGED registry => UNCHANGED Registry!vars
  BY DEF registry, Registry!vars
<1> QED
  BY <1>1, <1>2, <1>3, <1>4, <1>5, <1>6, <1>7, <1>8 DEF Next

(* RegistrySpec: pages, router and network drive the registry only as      *)
(* WebSocketServer describes, so its theorems hold of the composition.     *)
THEOREM RegistrySpecCorrect == Spec => RegistrySpec
<1>1. Init => Registry!Init
  BY DEF Init
<1>2. PageInv /\ [Next]_vars => [Registry!Next]_(Registry!vars)
  BY RegistryStepOf
<1> QED
  BY <1>1, <1>2, PageInductive, PTL DEF Spec, RegistrySpec, Registry!Spec
=============================================================================
