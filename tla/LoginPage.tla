------------------------------ MODULE LoginPage ------------------------------
(***************************************************************************)
(* Login pages and the server's socket registry.                           *)
(*                                                                         *)
(* GET /interaction/:uid renders a page with a disclosure request          *)
(* (handleInteraction).  Its script (public/js/login.js) keeps a web       *)
(* socket to the server, with keep-alives and a bounded number of          *)
(* reconnections, and drives the wallet: it loads the pairing of this      *)
(* browser, or pairs, asks the wallet to disclose, and posts the answer.   *)
(* The pages of one browser share the stored pairing.  The server's end of *)
(* the sockets is WebSocketServer, behind the router of ws/router.ts.      *)
(*                                                                         *)
(* No code of the server sends a message over a socket, so the page's      *)
(* onmessage, which would stop reconnecting, never runs.                   *)
(***************************************************************************)
EXTENDS Naturals, FiniteSets, Sequences

CONSTANTS
    PageId,        \* bound: pages open at the same time
    Tag,           \* interaction uids
    MaxSocket,     \* bound: connections in a behaviour
    Name,          \* credential names
    Scope,         \* the scopes of the requests, as sequences of words
    Session,       \* bound: the wallet sessions that pairings end with
    Elsewhere,     \* wallet sessions of other browsers
    KeyLength, digest,  \* of WalletSession
    InitialTries,  \* tries a page has before it gives up, 20 in the code
    None           \* undefined

VARIABLES
    server, tags, tagOf, open, accepted,  \* of WebSocketServer
    page,    \* the pages that are open
    stored,  \* wallet-session in the browser's local storage, as JSON
    drawn,   \* history: the sessions made so far
    owner    \* history: the page of each socket

registry == <<server, tags, tagOf, open, accepted>>

vars == <<server, tags, tagOf, open, accepted, page, stored, drawn, owner>>

Registry == INSTANCE WebSocketServer

Disclosing == INSTANCE DisclosureRequest

Wallet == INSTANCE WalletSession

Socket == Registry!Socket

Json == {Wallet!toJSON(s) : s \in Session}

(* link is where the socket of the page stands, socket the server's end of *)
(* it once accepted, keepAlives the sockets for which an interval runs,    *)
(* read the JSON found by loadSession, asking the sessions whose           *)
(* disclosure call is not answered.                                        *)
Page == [uid        : Tag,
         words      : Scope,
         rawSdr     : Disclosing!Request,
         link       : {"connecting", "open", "waiting", "gaveUp"},
         socket     : Socket \cup {None},
         tries      : 0..InitialTries,
         keepAlives : SUBSET Socket,
         manager    : {"loading", "restoring", "pairing", "ready"},
         read       : Json \cup {None},
         asking     : SUBSET Session,
         posts      : Nat]

ASSUME LoginPageAssumption ==
    /\ Scope \subseteq Seq(Disclosing!Word)
    /\ Session \subseteq Wallet!Sessions
    /\ InitialTries \in Nat \ {0}
    /\ MaxSocket \in Nat
    /\ None \notin Tag
    /\ None \notin Nat
    /\ None \notin PageId
    /\ None \notin Page
    /\ None \notin Json

(* Of the pairing protocol: names of ends are told apart by their hashes,  *)
(* the ends of a pairing have two names, and no two pairings end with the  *)
(* same secret, which is as long as a key and derived from fresh keys and  *)
(* nonces of both ends.                                                    *)
ASSUME PairingAssumption ==
    /\ KeyLength \in Nat \ {0}
    /\ \A n \in DOMAIN digest : digest[n] \in [1..(2 * KeyLength) -> 0..15]
    /\ \A m, n \in DOMAIN digest : digest[m] = digest[n] => m = n
    /\ \A s \in Session \cup Elsewhere :
           /\ s \in Wallet!Sessions
           /\ Len(s.masterKey.secret) = KeyLength
           /\ s.masterKey.from # s.masterKey.to
    /\ \A s, t \in Session \cup Elsewhere : s.masterKey.secret = t.masterKey.secret => s = t

-----------------------------------------------------------------------------
(* Routing of a connection.                                                *)

Routing == INSTANCE Router

(* What the endpoint of the interaction routes.                            *)
wsRouter ==
    LET socket == <<Routing!Parameter("uid"), Routing!Literal("socket")>>
    IN  Routing!RouterOf(<<
            Routing!Child(Routing!Methods.connect, <<socket, Routing!Function("socketConnect")>>),
            Routing!Child(Routing!Methods.close, <<socket, Routing!Function("socketClose")>>)>>)

(* addEndpoint mounts it; no other endpoint has a web socket router.       *)
rootRouter ==
    Routing!RouterOf(<<
        Routing!Child(Routing!Methods.all, <<<<Routing!Literal("interaction")>>, wsRouter>>)>>)

(* What a connection by a path gets its socket tagged with: the uid that   *)
(* socketConnect finds, None when no handler is called.                    *)
TagFor(path) ==
    LET calls    == Routing!Calls(rootRouter, "CONNECT", path)
        connects == {i \in DOMAIN calls : calls[i].handler = "socketConnect"}
        last     == CHOOSE i \in connects : \A j \in connects : j <= i
    IN  IF connects = {} THEN None ELSE calls[last].params["uid"]

-----------------------------------------------------------------------------
(* The page and its socket.                                                *)

(* handleInteraction renders the page; its script starts connecting.       *)
Load(p, uid, words) ==
    /\ page[p] = None
    /\ page' = [page EXCEPT ![p] =
           [uid |-> uid, words |-> words, rawSdr |-> Disclosing!disclosureArgs(words),
            link |-> "connecting", socket |-> None, tries |-> InitialTries,
            keepAlives |-> {}, manager |-> "loading", read |-> None, asking |-> {},
            posts |-> 0]]
    /\ UNCHANGED <<registry, stored, drawn, owner>>

(* The server accepts the connection of a page.                            *)
Accept(p) ==
    /\ page[p] # None
    /\ page[p].link = "connecting"
    /\ page[p].socket = None
    /\ Registry!Connect(TagFor(<<"interaction", page[p].uid, "socket">>))
    /\ page' = [page EXCEPT ![p].socket = accepted + 1]
    /\ owner' = [owner EXCEPT ![accepted + 1] = p]
    /\ UNCHANGED <<stored, drawn>>

(* Somebody connects to a path without a handler.                          *)
Stray(uid) ==
    /\ Registry!Connect(TagFor(<<"interaction", uid>>))
    /\ UNCHANGED <<page, stored, drawn, owner>>

OnOpen(p) ==
    /\ page[p] # None
    /\ page[p].link = "connecting"
    /\ page[p].socket # None
    /\ page' = [page EXCEPT ![p].link = "open", ![p].tries = InitialTries,
                            ![p].keepAlives = @ \cup {page[p].socket}]
    /\ UNCHANGED <<registry, stored, drawn, owner>>

(* Sensitivity variant of OnClose: the tries are not counted.              *)
OnCloseUncounted(p) ==
    /\ page[p] # None
    /\ page[p].link \in {"connecting", "open"}
    /\ page' = [page EXCEPT ![p].socket = None, ![p].link = "waiting"]
    /\ UNCHANGED <<registry, stored, drawn, owner>>

(* Sensitivity variant of OnClose: the page never stops trying.            *)
OnCloseUnchecked(p) ==
    /\ page[p] # None
    /\ page[p].link \in {"connecting", "open"}
    /\ page' = [page EXCEPT ![p].socket = None, ![p].tries = @ - 1, ![p].link = "waiting"]
    /\ UNCHANGED <<registry, stored, drawn, owner>>

(* The page's end of the connection is closed, or the attempt failed.      *)
OnClose(p) ==
    /\ page[p] # None
    /\ page[p].link \in {"connecting", "open"}
    /\ page' = [page EXCEPT ![p].socket = None, ![p].tries = @ - 1,
                            ![p].link = IF page[p].tries > 1 THEN "waiting" ELSE "gaveUp"]
    /\ UNCHANGED <<registry, stored, drawn, owner>>

(* Sensitivity variant of Reconnect: the interval is not cleared.          *)
ReconnectKeepingInterval(p) ==
    /\ page[p] # None
    /\ page[p].link = "waiting"
    /\ page' = [page EXCEPT ![p].link = "connecting"]
    /\ UNCHANGED <<registry, stored, drawn, owner>>

(* The timer runs connectWebSocket, which clears the interval.             *)
Reconnect(p) ==
    /\ page[p] # None
    /\ page[p].link = "waiting"
    /\ page' = [page EXCEPT ![p].link = "connecting", ![p].keepAlives = {}]
    /\ UNCHANGED <<registry, stored, drawn, owner>>

(* The page is closed or navigates, after a post or before.                *)
Leave(p) ==
    /\ page[p] # None
    /\ page' = [page EXCEPT ![p] = None]
    /\ UNCHANGED <<registry, stored, drawn, owner>>

(* The server's own steps: close events, stop and restart.                 *)
ServerStep ==
    /\ \/ \E s \in Socket : Registry!CloseUntagged(s) \/ Registry!CloseTagged(s)
                                \/ Registry!CloseThrows(s)
       \/ Registry!Stop
       \/ Registry!Restart
    /\ UNCHANGED <<page, stored, drawn, owner>>

-----------------------------------------------------------------------------
(* The page and the wallet.                                                *)

(* loadSession begins: it reads the stored pairing, if there is one, and   *)
(* waits for the session to be built from it.                              *)
LoadSession(p) ==
    /\ page[p] # None
    /\ page[p].manager = "loading"
    /\ page' = [page EXCEPT ![p].manager = IF stored = None THEN "pairing" ELSE "restoring",
                            ![p].read = stored]
    /\ UNCHANGED <<registry, stored, drawn, owner>>

(* Sensitivity variant of RestoreSession: the pairing is announced again   *)
(* and again.                                                              *)
RestoreSessionAgain(p) ==
    /\ page[p] # None
    /\ page[p].manager = "restoring"
    /\ LET session == Wallet!fromJSON(page[p].read) IN
        /\ stored' = Wallet!toJSON(session)
        /\ page' = [page EXCEPT ![p].asking = @ \cup {session}]
    /\ UNCHANGED <<registry, drawn, owner>>

(* ... and ends: setSession stores again what was read, over what another  *)
(* page stored since, and announces it: the page asks for a disclosure at  *)
(* once, and createIfNotExists has nothing to do.                          *)
RestoreSession(p) ==
    /\ page[p] # None
    /\ page[p].manager = "restoring"
    /\ LET session == Wallet!fromJSON(page[p].read) IN
        /\ stored' = Wallet!toJSON(session)
        /\ page' = [page EXCEPT ![p].manager = "ready", ![p].asking = {session}]
    /\ UNCHANGED <<registry, drawn, owner>>

(* The pairing protocol succeeds.                                          *)
Pair(p) ==
    /\ page[p] # None
    /\ page[p].manager = "pairing"
    /\ \E session \in Session \ drawn :
        /\ stored' = Wallet!toJSON(session)
        /\ drawn' = drawn \cup {session}
        /\ page' = [page EXCEPT ![p].manager = "ready", ![p].asking = @ \cup {session}]
    /\ UNCHANGED <<registry, owner>>

(* The wallet discloses, and the page posts to its interaction.            *)
Disclose(p, s) ==
    /\ page[p] # None
    /\ s \in page[p].asking
    /\ page' = [page EXCEPT ![p].asking = @ \ {s}, ![p].posts = @ + 1]
    /\ UNCHANGED <<registry, stored, drawn, owner>>

(* The wallet refuses, or no longer knows the pairing: the call fails and  *)
(* the page has no handler for that.  The pairing stays stored.            *)
Refuse(p, s) ==
    /\ page[p] # None
    /\ s \in page[p].asking
    /\ page' = [page EXCEPT ![p].asking = @ \ {s}]
    /\ UNCHANGED <<registry, stored, drawn, owner>>

-----------------------------------------------------------------------------

Init ==
    /\ Registry!Init
    /\ page = [p \in PageId |-> None]
    /\ stored = None
    /\ drawn = {}
    /\ owner = [s \in Socket |-> None]

Next ==
    \/ \E p \in PageId, uid \in Tag, words \in Scope : Load(p, uid, words)
    \/ \E p \in PageId : Accept(p) \/ OnOpen(p) \/ OnClose(p) \/ Reconnect(p) \/ Leave(p)
                             \/ LoadSession(p) \/ RestoreSession(p) \/ Pair(p)
    \/ \E p \in PageId, s \in Session : Disclose(p, s) \/ Refuse(p, s)
    \/ \E uid \in Tag : Stray(uid)
    \/ ServerStep

Spec == Init /\ [][Next]_vars

(* The browser runs its timers, and an attempt to connect ends one way or  *)
(* the other.                                                              *)
FairSpec ==
    Spec /\ \A p \in PageId : WF_vars(Reconnect(p)) /\ WF_vars(OnOpen(p) \/ OnClose(p))

-----------------------------------------------------------------------------

(* The type invariant.                                                     *)
TypeOK ==
    /\ Registry!TypeOK
    /\ page \in [PageId -> Page \cup {None}]
    /\ stored \in Json \cup {None}
    /\ drawn \subseteq Session
    /\ owner \in [Socket -> PageId \cup {None}]

(* The pages, the router and the network drive the registry only the way   *)
(* WebSocketServer describes.                                              *)
RegistrySpec == Registry!Spec

(* A credential that a word of the scope calls essential is asked for as   *)
(* essential, wherever the word stands: "It is mandatory, so if the user   *)
(* doesn't provide it, or the issuer is untrusted, the login and consent   *)
(* process will be cancelled" (src/README.md:202), and it is by the        *)
(* request that the wallet knows (uport-scopes.ts 42-76).  The code does   *)
(* not keep to this when a later vc: word names the credential again: that *)
(* case, in which the page asks for it as optional, is left out.           *)
Weakened(words, i) ==
    \E j \in DOMAIN words : j > i /\ words[j].kind = "vc" /\ words[j].name = words[i].name

EssentialAsked ==
    \A p \in PageId : page[p] # None =>
        \A i \in DOMAIN page[p].words :
            page[p].words[i].kind = "vce" /\ ~Weakened(page[p].words, i)
                => page[p].rawSdr[page[p].words[i].name] = "essential"

(* A connected page is the one the server reaches under its interaction,   *)
(* unless another page of the interaction connected later: reconnections   *)
(* of its own, late close events of its former sockets and connections to  *)
(* other paths do not make it unreachable (login.js 46-74 with ws/server.ts *)
(* 52-64 and ws/router.ts 13-35).                                          *)
OnlyOtherPageTakesOver ==
    \A p \in PageId : page[p] # None /\ page[p].socket \in open =>
        LET s == page[p].socket IN
        tags[page[p].uid] = s
            \/ \E n \in Socket : n > s /\ tagOf[n] = page[p].uid /\ owner[n] \notin {p, None}

(* A page never keeps two intervals alive, a connected page has one on its *)
(* present socket, and a page that gave up has none (login.js 48-61).      *)
OneKeepAlive ==
    \A p \in PageId : page[p] # None =>
        /\ Cardinality(page[p].keepAlives) <= 1
        /\ page[p].link = "open" => page[p].keepAlives = {page[p].socket}
        /\ page[p].link = "gaveUp" /\ InitialTries > 1 => page[p].keepAlives = {}

(* A page posts the wallet's answer at most once, whatever other pages of  *)
(* the browser pair meanwhile (login.js 97-136).                           *)
PostsOnce == \A p \in PageId : page[p] # None => page[p].posts <= 1

(* A session survives local storage: every session a page asks with, of    *)
(* its own pairing or found there, is one the wallet was paired with       *)
(* (wallet-protocol-utils.umd.js 675-733, 1458-1479).                      *)
PairingKept == \A p \in PageId : page[p] # None => page[p].asking \subseteq drawn

(* What a page sends with a session is understood by the wallet's end of   *)
(* that session, by no end of another, and not by the page itself, from    *)
(* which a wallet's answer could else be forged by returning the question  *)
(* (wallet-protocol-utils.umd.js 496-527, 643-708).                        *)
OtherEnd(k) == [k EXCEPT !.from = k.to, !.to = k.from]

Question == <<7, 0>>

Sent(s) == Wallet!encrypt(Wallet!encryptKey(s.masterKey), [i \in 1..Wallet!IvLength |-> i], Question)

OnlyOtherEndUnderstands ==
    \A p \in PageId : page[p] # None =>
        \A s \in page[p].asking :
            LET sent == Sent(s) IN
            /\ \A t \in drawn \cup Elsewhere :
                   Wallet!decrypt(Wallet!decryptKey(OtherEnd(t.masterKey)), sent)
                       = IF t = s THEN Question ELSE Wallet!Throws
            /\ Wallet!decrypt(Wallet!decryptKey(s.masterKey), sent) = Wallet!Throws

(* No page reconnects forever: it is connected, gives up or leaves.        *)
LinkSettles ==
    \A p \in PageId :
        page[p] # None ~> page[p] = None \/ page[p].link \in {"open", "gaveUp"}

(* The error of the close handler, that a socket was tagged twice with the *)
(* same tag, never happens: no socket is tagged more than once.            *)
NeverTaggedTwice == Registry!NeverTaggedTwice
=============================================================================
