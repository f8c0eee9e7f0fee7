---------------------------- MODULE CodeExchange ----------------------------
(***************************************************************************)
(* What the token endpoint promises about authorization codes, with no     *)
(* documents, collections or expiry dates: a token comes from a claim on a *)
(* code, a claim is made only while the code is open, and by the time a    *)
(* token is out its code is closed for good.  Several claims may be made   *)
(* before the first of them closes the code: adapter.consume does not ask  *)
(* whether the code was consumed before.  Requests implements this.        *)
(***************************************************************************)
CONSTANTS
    Code,      \* authorization codes
    Token,     \* access tokens
    Request,   \* requests the server handles at a time
    None

VARIABLES
    offered,   \* the codes issued so far
    open,      \* those of them nobody consumed, revoked or let expire
    claim,     \* claim[r]: the code request r found open, or None
    tokens     \* the access tokens in force

vars == <<offered, open, claim, tokens>>

Offer(k) ==
    /\ k \notin offered
    /\ offered' = offered \cup {k}
    /\ open' = open \cup {k}
    /\ UNCHANGED <<claim, tokens>>

Claim(r, k) ==
    /\ claim[r] = None
    /\ k \in open
    /\ claim' = [claim EXCEPT ![r] = k]
    /\ UNCHANGED <<offered, open, tokens>>

(* Some codes and tokens end: consumed, revoked, expired.                  *)
End ==
    /\ open' \subseteq open
    /\ tokens' \subseteq tokens
    /\ UNCHANGED <<offered, claim>>

Redeem(r, t) ==
    /\ claim[r] \in offered \ open
    /\ t \notin tokens
    /\ tokens' = tokens \cup {t}
    /\ claim' = [claim EXCEPT ![r] = None]
    /\ UNCHANGED <<offered, open>>

(* Claims are lost with the requests that made them.                       *)
Withdraw(R) ==
    /\ claim' = [r \in Request |-> IF r \in R THEN None ELSE claim[r]]
    /\ UNCHANGED <<offered, open, tokens>>

Init ==
    /\ offered = {}
    /\ open = {}
    /\ claim = [r \in Request |-> None]
    /\ tokens = {}

Next ==
    \/ \E k \in Code : Offer(k)
    \/ \E r \in Request, k \in Code : Claim(r, k)
    \/ End
    \/ \E r \in Request, t \in Token : Redeem(r, t)
    \/ \E R \in SUBSET Request : Withdraw(R)

Spec == Init /\ [][Next]_vars
=============================================================================
