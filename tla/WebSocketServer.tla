--------------------------- MODULE WebSocketServer ---------------------------
(***************************************************************************)
(* The registry of web sockets (ws/server.ts), by which the server can     *)
(* reach the login page of an interaction.  A page connects to             *)
(* /interaction/:uid/socket and the connect handler tags its socket with   *)
(* the uid (socketConnect, routes/interaction/controller.ts); a page that  *)
(* loses its socket connects again (public/js/login.js), and a page may be *)
(* open twice, so several sockets may carry the same tag.                  *)
(*                                                                         *)
(* The two ends of a connection notice its end at different times, so the  *)
(* server's close event may come after the page has connected again.       *)
(***************************************************************************)
EXTENDS Naturals

CONSTANTS
    Tag,        \* interaction uids
    MaxSocket,  \* bound: connections in a behaviour
    None        \* no tag, no socket

(* Connections, numbered in the order the server accepts them.             *)
Socket == 1..MaxSocket

ASSUME WebSocketAssumption ==
    /\ MaxSocket \in Nat
    /\ None \notin Tag
    /\ None \notin Nat

VARIABLES
    server,     \* the process: up, stopped, or thrown out by an error
    tags,       \* the registry: the socket of each tag
    tagOf,      \* the tag stored in each socket
    open,       \* the sockets whose close event has not come
    accepted    \* how many connections were accepted

vars == <<server, tags, tagOf, open, accepted>>

(* The process ends: its registry is lost and its connections are dropped. *)
Down(how) ==
    /\ server' = how
    /\ tags' = [t \in Tag |-> None]
    /\ open' = {}

(* Sensitivity variant of PutTag: a tag in use keeps its first socket.     *)
PutTagFirst(s, t) ==
    IF t = None THEN UNCHANGED <<tags, tagOf>>
    ELSE /\ tags' = [tags EXCEPT ![t] = IF @ = None THEN s ELSE @]
         /\ tagOf' = [tagOf EXCEPT ![s] = t]

(* socket.tag(t), None for a path without a connect handler.               *)
PutTag(s, t) ==
    IF t = None THEN UNCHANGED <<tags, tagOf>>
    ELSE /\ tags' = [tags EXCEPT ![t] = s]
         /\ tagOf' = [tagOf EXCEPT ![s] = t]

(* Sensitivity variant of Connect: the connection is not counted.          *)
ConnectUncounted(t) ==
    /\ server = "up"
    /\ accepted < MaxSocket
    /\ open' = open \cup {accepted + 1}
    /\ PutTag(accepted + 1, t)
    /\ UNCHANGED <<server, accepted>>

(* The connection event.                                                   *)
Connect(t) ==
    /\ server = "up"
    /\ accepted < MaxSocket
    /\ accepted' = accepted + 1
    /\ open' = open \cup {accepted + 1}
    /\ PutTag(accepted + 1, t)
    /\ UNCHANGED server

(* The close event of a socket without a tag.                              *)
CloseUntagged(s) ==
    /\ s \in open
    /\ tagOf[s] = None
    /\ open' = open \ {s}
    /\ UNCHANGED <<server, tags, tagOf, accepted>>

(* Sensitivity variant of CloseTagged: the registry entry is left behind.  *)
CloseTaggedLeaving(s) ==
    /\ s \in open
    /\ tagOf[s] # None
    /\ tags[tagOf[s]] = s
    /\ open' = open \ {s}
    /\ UNCHANGED <<server, tags, tagOf, accepted>>

(* The close event of the socket its tag leads to.                         *)
CloseTagged(s) ==
    /\ s \in open
    /\ tagOf[s] # None
    /\ tags[tagOf[s]] = s
    /\ tags' = [tags EXCEPT ![tagOf[s]] = None]
    /\ open' = open \ {s}
    /\ UNCHANGED <<server, tagOf, accepted>>

(* Sensitivity variant of CloseThrows: the entry is deleted without a look *)
(* at the socket it leads to.                                              *)
CloseUnchecked(s) ==
    /\ s \in open
    /\ tagOf[s] # None
    /\ tags[tagOf[s]] # s
    /\ tags' = [tags EXCEPT ![tagOf[s]] = None]
    /\ open' = open \ {s}
    /\ UNCHANGED <<server, tagOf, accepted>>

(* The tag leads to another socket or to none: the event handler throws,   *)
(* nobody catches it, and the process ends.                                *)
CloseThrows(s) ==
    /\ s \in open
    /\ tagOf[s] # None
    /\ tags[tagOf[s]] # s
    /\ Down("thrown")
    /\ UNCHANGED <<tagOf, accepted>>

Stop ==
    /\ server = "up"
    /\ Down("stopped")
    /\ UNCHANGED <<tagOf, accepted>>

(* restart: unless-stopped                                                 *)
Restart ==
    /\ server # "up"
    /\ server' = "up"
    /\ UNCHANGED <<tags, tagOf, open, accepted>>

Init ==
    /\ server = "up"
    /\ tags = [t \in Tag |-> None]
    /\ tagOf = [s \in Socket |-> None]
    /\ open = {}
    /\ accepted = 0

Next ==
    \/ \E t \in Tag \cup {None} : Connect(t)
    \/ \E s \in Socket : CloseUntagged(s) \/ CloseTagged(s) \/ CloseThrows(s)
    \/ Stop
    \/ Restart

Spec == Init /\ [][Next]_vars

-----------------------------------------------------------------------------

(* The type invariant.                                                     *)
TypeOK ==
    /\ server \in {"up", "stopped", "thrown"}
    /\ tags \in [Tag -> Socket \cup {None}]
    /\ tagOf \in [Socket -> Tag \cup {None}]
    /\ open \subseteq 1..accepted
    /\ accepted \in 0..MaxSocket

(* get(t) answers only with a socket that is open and carries the tag t,   *)
(* whatever was closed, replaced or restarted in between.                  *)
RegistryLive ==
    \A t \in Tag : tags[t] # None => tags[t] \in open /\ tagOf[tags[t]] = t

(* get(t) never answers with a socket while a newer one of the same        *)
(* interaction is open.                                                    *)
GetNewest ==
    \A t \in Tag : tags[t] # None => \A s \in open : tagOf[s] = t => s <= tags[t]

(* An open socket is the one its tag leads to unless a newer socket of the *)
(* same interaction has connected since: closing other sockets, or older   *)
(* ones of the same interaction, does not make a page unreachable.         *)
OnlyNewerTakesOver ==
    \A s \in open : tagOf[s] # None /\ tags[tagOf[s]] # s =>
        \E n \in Socket : n > s /\ n <= accepted /\ tagOf[n] = tagOf[s]

(* The error of the close handler, that a socket was tagged twice with the *)
(* same tag, never happens: no socket here is tagged more than once.       *)
NeverTaggedTwice == server # "thrown"
=============================================================================
