----------------------------- MODULE MCLoginPage -----------------------------
(***************************************************************************)
(* Instances of LoginPage for TLC.                                         *)
(***************************************************************************)
EXTENDS LoginPage, BytesProperties, TLC

CONSTANTS x, y  \* two credential names

vc(n) == [kind |-> "vc", name |-> n]
vce(n) == [kind |-> "vce", name |-> n]
openid == [kind |-> "static"]

(* A scope that names two credentials twice: x as essential the second     *)
(* time, y the first time.                                                 *)
NamedTwice == {<<openid, vc(x), vce(y), vc(y), vce(x)>>}

(* Pairings whose bytes base64 writes with the characters that differ *)
(* between its forms and with each length of padding.                      *)
Repeat(byte, n) == [i \in 1..n |-> byte]

Paired(from, to, byte) ==
    [masterKey |-> [from |-> from, to |-> to, port |-> 29170, na |-> Repeat(byte, 16),
                    nb |-> Repeat(byte, 15), secret |-> Repeat(byte, KeyLength)],
     code      |-> <<byte, 1>>]

OneSession == {Paired("a", "b", 255)}
OtherSession == {Paired("c", "d", 7)}
NoSession == {}

DigestOfName == [n \in {"a", "b", "c", "d"} |->
    Repeat(CASE n = "a" -> 1 [] n = "b" -> 2 [] n = "c" -> 3 [] n = "d" -> 4, 2 * KeyLength)]

(* Arrays of each length modulo three, with and without the characters     *)
(* that differ, of the longest line and one longer.                        *)
SampleArrays == {<<>>, <<0>>, <<255>>, <<251, 255>>, <<165, 60>>, <<1, 128, 254>>, Repeat(90, 4),
                 Repeat(37, 16), Repeat(251, 32), Repeat(99, 57), Repeat(99, 58)}
=============================================================================
