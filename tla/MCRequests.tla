----------------------------- MODULE MCRequests -----------------------------
(***************************************************************************)
(* An instance of Requests for TLC.                                        *)
(***************************************************************************)
EXTENDS RequestsProperties

CONSTANTS k1, k2

MCSnakeCase == [n \in Name |-> CASE n = "Session"           -> "session"
                                 [] n = "AuthorizationCode" -> "authorization_code"
                                 [] n = "AccessToken"       -> "access_token"]

Keys(sessions, codes, tokens) ==
    [c \in Collection |-> CASE c = "session"            -> sessions
                             [] c = "authorization_code" -> codes
                             [] c = "access_token"       -> tokens]

(* Requests to sessions meet no document of those that redeem codes, so a  *)
(* behaviour has one kind or the other.                                    *)
MCKeyFor == {Keys({k1, k2}, {}, {}), Keys({}, {k1}, {k1, k2})}

(* A session is saved with what is left of its time.                       *)
MCLifetime == [c \in Collection |-> IF c = "session" THEN {0, 1} ELSE {1}]
=============================================================================
