-------------------------- MODULE DisclosureRequest --------------------------
(***************************************************************************)
(* The selective disclosure request of an interaction: which credentials   *)
(* the wallet is asked for, by the words of the scope                      *)
(* (disclosureArgs, routes/interaction/uport-scopes.ts).                   *)
(***************************************************************************)
EXTENDS Sequences, SequencesExt

CONSTANTS
    Name,  \* credential names: the x of vc:x and vce:x
    None   \* not asked for

(* A word of a scope: vc:name, vce:name, or one of the other words, which  *)
(* ask for nothing verifiable.                                             *)
Word == [kind : {"vc", "vce"}, name : Name] \cup [kind : {"static"}]

(* What the request says of each name.                                     *)
Request == [Name -> {"optional", "essential", None}]

(* Sensitivity variant of Merge: a name that is asked for already is left  *)
(* alone.                                                                  *)
MergeFirst(asked, w) ==
    IF w.kind = "static" \/ asked[w.name] # None THEN asked
    ELSE [asked EXCEPT ![w.name] = IF w.kind = "vce" THEN "essential" ELSE "optional"]

(* One turn of the reduce: the claims of a word are spread over those of   *)
(* the words before it.                                                    *)
Merge(asked, w) ==
    IF w.kind = "static" THEN asked
    ELSE [asked EXCEPT ![w.name] = IF w.kind = "vce" THEN "essential" ELSE "optional"]

disclosureArgs(words) == FoldLeft(Merge, [n \in Name |-> None], words)

-----------------------------------------------------------------------------
(* The request without the order of evaluation: a name is asked for when a *)
(* word has it, and the last such word decides how.  This is the rule the  *)
(* code follows, and not what a scope should mean (LoginPage's             *)
(* EssentialAsked is about that).                                          *)

WordsFor(words, n) == {i \in DOMAIN words : words[i].kind # "static" /\ words[i].name = n}

SaysOf(words, n) ==
    IF WordsFor(words, n) = {} THEN None
    ELSE LET last == CHOOSE i \in WordsFor(words, n) : \A j \in WordsFor(words, n) : j <= i
         IN  IF words[last].kind = "vce" THEN "essential" ELSE "optional"
=============================================================================
