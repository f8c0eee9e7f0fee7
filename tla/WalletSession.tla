---------------------------- MODULE WalletSession ----------------------------
(***************************************************************************)
(* A pairing with a wallet as the login page keeps it: the session object, *)
(* its JSON in local storage, the two keys derived from it and the         *)
(* messages encrypted with them (public/js/wallet-protocol-utils.umd.js).  *)
(* Hashes and ciphers are symbols: two results are equal when their        *)
(* arguments are.                                                          *)
(***************************************************************************)
EXTENDS Bytes

CONSTANTS
    KeyLength,  \* bytes of a key, a secret and a hash, 32 in the code
    digest      \* digest[i]: hash of the name of an end, as hexadecimal digits

IvLength == 12

-----------------------------------------------------------------------------
(* Keys. A key is the input it is derived from.                            *)

deriveKey(from, to, secret) ==
    insertBytes(hex2U8Arr(to), insertBytes(hex2U8Arr(from),
        insertBytes(secret, [i \in 1..(3 * KeyLength) |-> 0], 0, 0, KeyLength),
            0, KeyLength, KeyLength), 0, 2 * KeyLength, KeyLength)

(* Sensitivity variant of decryptKey: one key for both directions.         *)
decryptKeyOfSender(k) == deriveKey(digest[k.from], digest[k.to], k.secret)

(* The keys fromSecret gives a MasterKey.  They follow from the rest of it *)
(* and are computed when they are used.                                    *)
encryptKey(k) == deriveKey(digest[k.from], digest[k.to], k.secret)
decryptKey(k) == deriveKey(digest[k.to], digest[k.from], k.secret)

-----------------------------------------------------------------------------
(* Messages.  Sealing appends a tag of the key, the vector and the         *)
(* message; opening looks for it.                                          *)

Seal(key, iv, message) == Append(message, <<key, iv, message>>)

Unseal(key, iv, sealed) ==
    IF sealed # <<>> /\ Last(sealed) = <<key, iv, Front(sealed)>> THEN Front(sealed)
    ELSE Throws

encrypt(key, iv, message) == join(<<iv, Seal(key, iv, message)>>)

decrypt(key, sequence) ==
    LET parts == split(sequence, <<IvLength, Len(sequence) - IvLength>>)
    IN  Unseal(key, parts[1], parts[2])

-----------------------------------------------------------------------------
(* A session is a MasterKey and the code by which the wallet knows it.     *)
(* The arrays of the first fit a line of base64, 57 bytes.                 *)

Secret == {a \in Seq(Byte) : Len(a) \in 1..57}

MasterKey == [from : DOMAIN digest, to : DOMAIN digest, port : Nat,
              na : Secret, nb : Secret, secret : Secret]

Sessions == [masterKey : MasterKey, code : Seq(Byte) \ {<<>>}]

Base64(a) == encode(a, TRUE, FALSE)

(* Sensitivity variant of masterKeyToJSON: base64 as encode makes it       *)
(* unasked.                                                                *)
masterKeyToJSONByDefault(k) ==
    [k EXCEPT !.na = encode(@, FALSE, TRUE), !.nb = encode(@, FALSE, TRUE),
              !.secret = encode(@, FALSE, TRUE)]

masterKeyToJSON(k) ==
    [k EXCEPT !.na = Base64(@), !.nb = Base64(@), !.secret = Base64(@)]

masterKeyFromJSON(json) ==
    [json EXCEPT !.na = decode(@), !.nb = decode(@), !.secret = decode(@)]

(* Session.toJSON and Session.fromJSON.                                    *)
toJSON(s) == [masterKey |-> masterKeyToJSON(s.masterKey), code |-> u8Arr2Hex(s.code)]

fromJSON(json) == [masterKey |-> masterKeyFromJSON(json.masterKey), code |-> hex2U8Arr(json.code)]
=============================================================================
