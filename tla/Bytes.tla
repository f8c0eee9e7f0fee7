-------------------------------- MODULE Bytes --------------------------------
(***************************************************************************)
(* The byte arrays of the wallet protocol bundle                           *)
(* (public/js/wallet-protocol-utils.umd.js): base64, hexadecimal, moving   *)
(* bytes and bits from one array to another, and PBKDF2.  An array is a    *)
(* sequence of numbers below 256; a text is one of character codes.        *)
(***************************************************************************)
EXTENDS Integers, Sequences, SequencesExt

Byte == 0..255

Throws == <<-1>>  \* an Error instead of a result, no array of bytes

(* Reading beyond the end gives undefined, which arithmetic on bits and    *)
(* storing in a typed array make a zero.                                   *)
At(a, i) == IF i < Len(a) THEN a[i + 1] ELSE 0

(* The word of n positions of width w bits that begins at index i.         *)
Word(a, i, n, w) == FoldLeft(LAMBDA word, j : word * 2^w + At(a, i + j), 0, [j \in 1..n |-> j - 1])

-----------------------------------------------------------------------------
(* Base64.  The bundle's encoder was made for mail: a line break comes     *)
(* before every 76th character, which the decoder does not accept.         *)

Pad == 61                  \* =
Plus == 43   Slash == 47   \* of base64
Minus == 45  Low == 95     \* _, of base64url
LineBreak == <<13, 10>>

uint6ToB64(n) ==
    CASE n < 26 -> n + 65 [] n \in 26..51 -> n + 71 [] n \in 52..61 -> n - 4
      [] n = 62 -> Plus   [] n = 63 -> Slash

b64ToUint6(c) ==
    CASE c \in 65..90 -> c - 65 [] c \in 97..122 -> c - 71 [] c \in 48..57 -> c + 4
      [] c = Plus -> 62         [] c = Slash -> 63         [] OTHER -> 0

(* The characters of three bytes, or of the last one or two.               *)
Group(bytes, g) ==
    LET word  == Word(bytes, 3 * g, 3, 8)
        chars == [k \in 1..4 |-> uint6ToB64((word \div 64^(4 - k)) % 64)]
        left  == Len(bytes) - 3 * g
    IN  (IF g > 0 /\ g % 19 = 0 THEN LineBreak ELSE <<>>)
            \o (IF left >= 3 THEN chars
                ELSE [k \in 1..4 |-> IF k <= left + 1 THEN chars[k] ELSE Pad])

base64EncArr(bytes) ==
    FoldLeft(LAMBDA text, g : text \o Group(bytes, g), <<>>,
             [g \in 1..((Len(bytes) + 2) \div 3) |-> g - 1])

(* The length counts every character, padding too.                         *)
base64DecToArr(text) ==
    LET digits == [i \in DOMAIN text |-> b64ToUint6(text[i])]
    IN  [i \in 1..((Len(text) * 3 + 1) \div 4) |->
            LET word == Word(digits, 4 * ((i - 1) \div 3), 4, 6)
            IN  (word \div 256^(2 - ((i - 1) % 3))) % 256]

Replace(text, from, to) == [i \in DOMAIN text |-> IF text[i] = from THEN to ELSE text[i]]

WithoutPadding(text) == FoldLeft(LAMBDA kept, c : IF c = Pad THEN kept ELSE Append(kept, c), <<>>, text)

encode(bytes, urlsafe, padding) ==
    LET base64 == base64EncArr(bytes)
        url    == Replace(Replace(base64, Plus, Minus), Slash, Low)
        text   == IF urlsafe THEN url ELSE base64
    IN  IF padding THEN text ELSE WithoutPadding(text)

Alphanumeric == (48..57) \cup (65..90) \cup (97..122)

(* Characters of this set, and at most two of padding after them.          *)
InAlphabet(text, chars) ==
    \E n \in 0..Len(text) :
        /\ Len(text) - n <= 2
        /\ \A i \in 1..Len(text) : IF i <= n THEN text[i] \in chars ELSE text[i] = Pad

UrlSafe(text) ==
    /\ InAlphabet(text, Alphanumeric \cup {Minus, Low})
    /\ Len(WithoutPadding(text)) > 0

(* Padding is removed from what can be base64url only.                     *)
decode(text) ==
    IF UrlSafe(text)
    THEN base64DecToArr(WithoutPadding(Replace(Replace(text, Minus, Plus), Low, Slash)))
    ELSE IF InAlphabet(text, Alphanumeric \cup {Plus, Slash}) THEN base64DecToArr(text)
    ELSE Throws

-----------------------------------------------------------------------------
(* Hexadecimal, as a sequence of digits.                                   *)

u8Arr2Hex(a) ==
    [i \in 1..(2 * Len(a)) |->
        LET byte == a[(i + 1) \div 2] IN IF i % 2 = 1 THEN byte \div 16 ELSE byte % 16]

(* A last digit without a partner is a byte of its own.                    *)
hex2U8Arr(hex) ==
    IF hex = <<>> THEN Throws
    ELSE [i \in 1..((Len(hex) + 1) \div 2) |->
             IF 2 * i <= Len(hex) THEN hex[2 * i - 1] * 16 + hex[2 * i] ELSE hex[2 * i - 1]]

-----------------------------------------------------------------------------
(* bufferUtils.  An index beyond the end of a typed array writes nothing.  *)

join(list) == FoldLeft(LAMBDA joined, part : joined \o part, <<>>, list)

(* The parts begin where the sizes before them end; slice stops at the end.*)
split(buffer, sizes) ==
    [i \in DOMAIN sizes |->
        LET start == FoldLeft(LAMBDA sum, s : sum + s, 0, SubSeq(sizes, 1, i - 1))
            end   == start + sizes[i]
        IN  SubSeq(buffer, start + 1, IF end < Len(buffer) THEN end ELSE Len(buffer))]

insertBytes(src, dst, fromStart, toStart, size) ==
    SubSeq(SubSeq(dst, 1, toStart) \o [i \in 1..size |-> At(src, fromStart + i - 1)]
               \o SubSeq(dst, toStart + size + 1, Len(dst)), 1, Len(dst))

Bit(a, i) == (At(a, i \div 8) \div 2^(7 - (i % 8))) % 2

(* One turn of the loop of insertBits: the bit to write is cleared and the *)
(* bit read is or-ed in, moved by the distance the two had at the start;   *)
(* a bit read further left than the one written stays where it was.        *)
InsertBit(src, dst, from, to, delta) ==
    LET byte    == At(dst, to \div 8)
        cleared == byte - Bit(dst, to) * 2^(7 - (to % 8))
        place   == 7 - (from % 8) + delta
        set     == IF Bit(src, from) = 1 /\ place <= 7 /\ (cleared \div 2^place) % 2 = 0
                   THEN cleared + 2^place ELSE cleared
    IN  IF to \div 8 < Len(dst) THEN [dst EXCEPT ![to \div 8 + 1] = set] ELSE dst

insertBits(src, dst, fromStart, toStart, size) ==
    LET delta == IF toStart % 8 >= fromStart % 8 THEN (toStart % 8) - (fromStart % 8) ELSE 0
    IN  FoldLeft(LAMBDA a, i : InsertBit(src, a, fromStart + i, toStart + i, delta),
                 dst, [i \in 1..size |-> i - 1])

extractBits(buf, start, size) ==
    insertBits(buf, [i \in 1..((size + 7) \div 8) |-> 0], start, 0, size)

-----------------------------------------------------------------------------
(* PBKDF2 without the browser's own, _pbkdf2.  The value of HMAC in round  *)
(* j of block i is {<<i, j>>}; exclusive or of such sets is their          *)
(* symmetric difference.                                                   *)

HMAC(v) == {<<t[1], t[2] + 1>> : t \in v}

xor(v, w) == (v \ w) \cup (w \ v)

(* Block i: the sum of c rounds, each of which hashes the one before.      *)
F(c, i) ==
    LET round(s, j) == [u |-> HMAC(s.u), acc |-> xor(s.acc, HMAC(s.u))]
        first       == {<<i, 1>>}
    IN  FoldLeft(round, [u |-> first, acc |-> first], [j \in 1..(c - 1) |-> j]).acc

(* The first dkLen of the bytes of as many blocks as that takes, byte k of *)
(* a block being <<block, k>>.                                             *)
pbkdf2(c, dkLen, hLen) ==
    LET l == (dkLen + hLen - 1) \div hLen
        r == dkLen - (l - 1) * hLen
        T(i) == [k \in 1..(IF i = l THEN r ELSE hLen) |-> <<F(c, i), k>>]
    IN  FlattenSeq([i \in 1..l |-> T(i)])
=============================================================================
