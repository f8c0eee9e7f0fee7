------------------------------- MODULE Router -------------------------------
(***************************************************************************)
(* The routers of web socket events (ws/router.ts, ws/utils.ts).           *)
(*                                                                         *)
(* A router is a list of children, each with a method, a path and a        *)
(* handler, which may be a router again.  An event is offered to every     *)
(* child in order, so it may reach several handlers or none.  The request  *)
(* is one object: what a child does to its parameters the next one finds.  *)
(***************************************************************************)
EXTENDS Naturals, Sequences, SequencesExt

Methods == [all |-> "*", connect |-> "CONNECT", close |-> "CLOSE",
            message |-> "MESSAGE", keepAlive |-> "KEEPALIVE"]

(* A segment of a path, a name or a parameter.                             *)
Literal(text) == [param |-> FALSE, text |-> text]
Parameter(text) == [param |-> TRUE, text |-> text]

(* A handler that is a function, and one that is a router.                 *)
Function(name) == [name |-> name, children |-> <<>>]
RouterOf(children) == [name |-> "router", children |-> children]

(* The child that router.use, router.connect and so on add: the path may   *)
(* be left out.                                                            *)
Child(method, args) ==
    [method |-> method, path |-> IF Len(args) = 1 THEN <<>> ELSE args[1], handler |-> Last(args)]

(* A path matches every url it is the beginning of; a parameter matches    *)
(* one segment.                                                            *)
Matches(path, url) ==
    /\ Len(path) <= Len(url)
    /\ \A i \in DOMAIN path : path[i].param \/ path[i].text = url[i]

(* Sensitivity variant of ParamsOf: the url is counted from where the      *)
(* router is mounted, the path from the root.                              *)
ParamsOfShifted(path, url) ==
    LET at(name) == CHOOSE i \in DOMAIN path : path[i] = Parameter(name)
    IN  [name \in {path[i].text : i \in {j \in DOMAIN path : path[j].param}} |-> url[at(name) - 1]]

ParamsOf(path, url) ==
    LET at(name) == CHOOSE i \in DOMAIN path : path[i] = Parameter(name)
    IN  [name \in {path[i].text : i \in {j \in DOMAIN path : path[j].param}} |-> url[at(name)]]

initRequest(method, url) ==
    [socketMethod |-> method, url |-> url, params |-> <<>>, calls |-> <<>>]

(* The event is one for the child.                                         *)
Fits(child, path, req) ==
    child.method \in {Methods.all, req.socketMethod} /\ Matches(path, req.url)

(* The parameters matched are added to those there were: oldParams is the  *)
(* same object, so putting it back undoes nothing.                         *)
Passed(path, req) ==
    LET found == ParamsOf(path, req.url)
    IN  [req EXCEPT !.params = [n \in DOMAIN found \cup DOMAIN @ |->
                                   IF n \in DOMAIN found THEN found[n] ELSE @[n]]]

(* One turn of the loop, for a child whose handler is a function.          *)
Turn(routerPath, req, child) ==
    LET path  == routerPath \o child.path
        found == Passed(path, req)
    IN  IF ~Fits(child, path, req) THEN req
        ELSE [found EXCEPT !.calls =
                  Append(@, [handler |-> child.handler.name, params |-> found.params])]

(* One turn of the root router's loop.  Bound: routers nest no deeper than *)
(* here, the root's and those of the endpoints.                            *)
RootTurn(req, child) ==
    IF child.handler.children # <<>> /\ Fits(child, child.path, req)
    THEN FoldLeft(LAMBDA r, c : Turn(child.path, r, c), Passed(child.path, req),
                  child.handler.children)
    ELSE Turn(<<>>, req, child)

(* The calls of handlers, each with its parameters, that an event makes.   *)
Calls(root, method, url) ==
    FoldLeft(RootTurn, initRequest(method, url), root.children).calls
=============================================================================
