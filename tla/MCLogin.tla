------------------------------- MODULE MCLogin -------------------------------
(***************************************************************************)
(* Instances of Login for TLC: the structure of the scopes, credentials    *)
(* and presentations that the configurations choose from.                  *)
(***************************************************************************)
EXTENDS LoginProperties, TLC

CONSTANTS
    alice, bob,          \* two wallet users
    wide, narrow, other, \* scope texts
    a, b,                \* scope words vce:a and vc:b
    card,                \* a credential of alice, an answer to a
    garbled              \* a credential that is no JWT

MCSubjectOf == [v \in Credential |-> alice]

(* wide asks for both words, narrow and other for one each.                *)
MCValuesOf == [s \in Scope |-> CASE s = wide   -> {a, b}
                                 [] s = narrow -> {a}
                                 [] s = other  -> {b}]

MCAnswers == [v \in Credential |-> IF v = garbled THEN {} ELSE {a}]

(* The presentation of one credential; when bob presents it, it is about   *)
(* somebody else.                                                          *)
OneCard == {<<card>>}

(* The second credential makes the handler throw.                          *)
OneOrGarbled == {<<card>>, <<card, garbled>>}

(* Identifiers are drawn at random and only compared.                      *)
Identifiers == Permutations(SessionUid) \cup Permutations(InteractionUid)
                   \cup Permutations(Request) \cup Permutations(Client)
=============================================================================
