--------------------------- MODULE BytesProperties ---------------------------
(***************************************************************************)
(* What the algorithms of Bytes compute, over the arrays of an instance.   *)
(* They have no state: TLC evaluates these once, as assumptions.           *)
(***************************************************************************)
EXTENDS Bytes

CONSTANT Array  \* byte arrays

(* Base64 gives back what it was given in all four forms, but for two      *)
(* cases: past 57 bytes the line break of the encoder is an error of the   *)
(* decoder, and a padded text with + or / comes back with a zero for each  *)
(* character of padding.  (wallet-protocol-utils.umd.js 57-90, 125-166.)   *)
Zeros(text) ==
    IF \E i \in DOMAIN text : text[i] \in {Plus, Slash}
    THEN [i \in 1..Len(SelectSeq(text, LAMBDA c : c = Pad)) |-> 0] ELSE <<>>

NotInverted ==
    {<<a, urlsafe, padding>> \in Array \X BOOLEAN \X BOOLEAN :
        LET text == encode(a, urlsafe, padding)
        IN  decode(text) # IF Len(a) > 57 THEN Throws ELSE a \o Zeros(text)}

ASSUME Base64Inverse == NotInverted = {}

(* Bits keep their values and their order, and the bits around them stay,  *)
(* wherever they go, provided they begin at the same bit of a byte in both *)
(* arrays.  (wallet-protocol-utils.umd.js 602-634.)                        *)
Short == {a \in Array : Len(a) \in 1..2}

Inserted(src, dst, from, to, size, i) ==
    IF i \in to..(to + size - 1) THEN Bit(src, from + i - to) ELSE Bit(dst, i)

Misplaced ==
    {<<src, dst, from, to, size>> \in Short \X Short \X (0..11) \X (0..11) \X {1, 2, 9} :
        /\ from % 8 = to % 8
        /\ LET written == insertBits(src, dst, from, to, size)
           IN  \E i \in 0..(8 * Len(dst) - 1) :
                   Bit(written, i) # Inserted(src, dst, from, to, size, i)}

ASSUME BitsInserted == Misplaced = {}

(* What begins at a byte is extracted to the front of an array with no     *)
(* more bytes than it takes, the rest of which is zero.                    *)
(* (wallet-protocol-utils.umd.js 635-640.)                                 *)
Misextracted ==
    {<<a, start, size>> \in Short \X {0, 8} \X {1, 2, 9} :
        LET bits == extractBits(a, start, size)
        IN  \/ Len(bits) # IF size > 8 THEN 2 ELSE 1
            \/ \E i \in 0..(8 * Len(bits) - 1) :
                   Bit(bits, i) # IF i < size THEN Bit(a, start + i) ELSE 0}

ASSUME BitsExtracted == Misextracted = {}

(* The bundle's own PBKDF2 gives what RFC 2898 says, for any length and    *)
(* number of rounds: byte n is of block n / hLen, and a block is the sum   *)
(* of all its rounds.  (wallet-protocol-utils.umd.js 223-327.)             *)
RFC2898(c, dkLen, hLen) ==
    [n \in 1..dkLen |->
        LET block == (n - 1) \div hLen + 1
        IN  <<{<<block, j>> : j \in 1..c}, ((n - 1) % hLen) + 1>>]

WronglyDerived ==
    {<<c, dkLen, hLen>> \in (1..4) \X (1..7) \X (1..3) :
        pbkdf2(c, dkLen, hLen) # RFC2898(c, dkLen, hLen)}

ASSUME DerivesAsRFC == WronglyDerived = {}
=============================================================================
