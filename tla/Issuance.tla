------------------------------ MODULE Issuance ------------------------------
(***************************************************************************)
(* What the provider promises a relying party about an id_token, with no   *)
(* interactions, sessions or codes: wallets disclose claims to a client    *)
(* for a scope, and a token is issued only from a disclosure made to that  *)
(* client for that very scope text, and only when the user the token names *)
(* has answered the client for every word of the scope.  Login implements  *)
(* this specification.                                                     *)
(***************************************************************************)
CONSTANTS
    Client,      \* relying parties
    Account,     \* DIDs of wallet users
    Scope,       \* scope texts
    ScopeValue,  \* their words
    ValuesOf,    \* ValuesOf[s]: the words of the scope text s
    Credential,  \* verifiable credentials
    None         \* no token

VARIABLES
    disclosed,   \* the disclosures made so far
    token        \* the last id_token issued, None before the first

Claims == [sub : Account, trusted : SUBSET Credential, untrusted : SUBSET Credential]

Disclosure == [client : Client, scope : Scope, claims : Claims, presented : SUBSET Credential]

Token == [client : Client, scope : Scope, sub : Account, claims : Claims]

(* Every presented credential is reported, as trusted or as untrusted.     *)
Complete(d) == d.claims.trusted \cup d.claims.untrusted = d.presented

(* The words account a answered client c for.                              *)
Consented(c, a) ==
    UNION {ValuesOf[d.scope] : d \in {e \in disclosed : e.client = c /\ e.claims.sub = a}}

(* Some disclosure to client c for scope text s made these claims.         *)
Backed(c, s, claims) ==
    \E d \in disclosed : d.client = c /\ d.scope = s /\ d.claims = claims

Disclose(d) ==
    /\ Complete(d)
    /\ disclosed' = disclosed \cup {d}
    /\ UNCHANGED token

Issue(t) ==
    /\ Backed(t.client, t.scope, t.claims)
    /\ ValuesOf[t.scope] \subseteq Consented(t.client, t.sub)
    /\ token' = t
    /\ UNCHANGED disclosed

Init == disclosed = {} /\ token = None

Next == (\E d \in Disclosure : Disclose(d)) \/ (\E t \in Token : Issue(t))

Spec == Init /\ [][Next]_<<disclosed, token>>
=============================================================================
