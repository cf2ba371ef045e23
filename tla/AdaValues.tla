----------------------------- MODULE AdaValues ------------------------------
(***************************************************************************)
(* utils/parse.ts of hw-app-ada: what counts as a number, a hex string and *)
(* a path, and how a parser fails.  A parser is an operator that gives the *)
(* InvalidDataReason it throws, or OK; the checks are tried in the order   *)
(* of the code and the first that fails is the one thrown.                 *)
(*                                                                         *)
(* Values the properties do not look into are kept as what the code tests: *)
(* a hex string is its length and whether its characters are hex digits,   *)
(* an integer field the smallest width it fits.  Amounts are texts, since  *)
(* the code compares them as texts.  An optional value is a sequence of at *)
(* most one element.                                                       *)
(***************************************************************************)
EXTENDS Integers, Sequences, FiniteSets

OK == "ok"
Validate(cond, reason) == IF cond THEN OK ELSE reason

\* The first failure in a sequence of verdicts.
Verdict(checks) ==
  IF \A i \in DOMAIN checks : checks[i] = OK THEN OK
  ELSE checks[CHOOSE i \in DOMAIN checks :
                checks[i] # OK /\ \A j \in DOMAIN checks : j < i => checks[j] = OK]

\* The verdict on every element of a list, or on the value of an optional.
Each(Parse(_), list) == Verdict([i \in DOMAIN list |-> Parse(list[i])])

Given(optional) == optional # <<>>

\* A list field: a value that may not be an array.
List(items) == [array |-> TRUE, items |-> items]
NotAnArray == [array |-> FALSE, items |-> <<>>]
IsArray(list) == list.array
IsSequence(s) == Len(s) \in Nat /\ DOMAIN s = 1 .. Len(s)

-----------------------------------------------------------------------------
(***************************************************************************)
(* Hex strings, integers of a width, paths, texts.                         *)
(***************************************************************************)
Hex(bytes) == [digits |-> TRUE, length |-> 2 * bytes]
IsHexString(data) == data.digits /\ data.length % 2 = 0
IsHexStringOfLength(data, bytes) == IsHexString(data) /\ data.length = bytes * 2
ParseHexString(str, reason) == Validate(IsHexString(str), reason)
ParseHexStringOfLength(str, bytes, reason) == Validate(IsHexStringOfLength(str, bytes), reason)

\* "other" is everything else: negative, fractional, wider, or not a number.
Widths == {"nibble", "uint8", "uint16", "uint32", "other"}
IsUint8(data) == data \in {"nibble", "uint8"}
IsUint16(data) == IsUint8(data) \/ data = "uint16"
IsUint32(data) == IsUint16(data) \/ data = "uint32"
ParseUint32(value, reason) == Validate(IsUint32(value), reason)
ParseUint8(value, reason) == Validate(IsUint8(value), reason)

\* An element of a path: an index below 2^31, hardened or not; Bad is no 32-bit integer.
H(i) == [hard |-> TRUE, index |-> i]
S(i) == [hard |-> FALSE, index |-> i]
Bad == [hard |-> FALSE, index |-> -1]
IsValidPath(path) == (\A i \in DOMAIN path : path[i] # Bad) /\ Len(path) <= 5
ParseBIP32Path(value, reason) == Validate(IsValidPath(value), reason)

\* parseAscii with the length check its callers add.
MAX_URL_LENGTH == 128
ParseUrl(url, reason) ==
  Verdict(<<Validate(url.ascii, reason), Validate(url.length <= MAX_URL_LENGTH, reason)>>)

KEY_HASH_LENGTH == 28
SCRIPT_HASH_LENGTH == 28
ANCHOR_HASH_LENGTH == 32

ParseNetwork(network) ==
  Verdict(<<ParseUint32(network.protocolMagic, "NETWORK_INVALID_PROTOCOL_MAGIC"),
            ParseUint8(network.networkId, "NETWORK_INVALID_NETWORK_ID"),
            Validate(network.networkId = "nibble", "NETWORK_INVALID_NETWORK_ID")>>)

-----------------------------------------------------------------------------
(***************************************************************************)
(* Amounts.  A text is a sequence of characters, a character its distance  *)
(* from the character 0: the digits are 0 .. 9.                            *)
(***************************************************************************)
Minus == -3
Point == -2
Blank == -16

\* a <= b of JavaScript strings.
TextLE(a, b) ==
  \/ Len(a) <= Len(b) /\ SubSeq(b, 1, Len(a)) = a
  \/ \E i \in DOMAIN a \cap DOMAIN b :
       a[i] < b[i] /\ \A j \in 1 .. i - 1 : a[j] = b[j]

\* 18446744073709551615, 9223372036854775807 and -9223372036854775808.
MAX_UINT_64_STR == <<1,8,4,4,6,7,4,4,0,7,3,7,0,9,5,5,1,6,1,5>>
MAX_INT_64_STR == <<9,2,2,3,3,7,2,0,3,6,8,5,4,7,7,5,8,0,7>>
MIN_INT_64_STR == <<Minus,9,2,2,3,3,7,2,0,3,6,8,5,4,7,7,5,8,0,8>>

\* String.replace with a pattern that is not global removes the first match only.
RemoveFirst(text, chars) ==
  LET at == {i \in DOMAIN text : text[i] \in chars}
      first == CHOOSE i \in at : \A j \in at : i <= j
  IN IF at = {} THEN text
     ELSE [k \in 1 .. Len(text) - 1 |-> IF k < first THEN text[k] ELSE text[k + 1]]

\* '45 000 000 000.000000' and '1 000 000 000 000 000 000' without their separator.
MAX_LOVELACE_SUPPLY_STR ==
  RemoveFirst(<<4,5,Blank,0,0,0,Blank,0,0,0,Blank,0,0,0,Point,0,0,0,0,0,0>>, {Blank, Point})
POOL_MARGIN_DENOMINATOR_MAX_STR ==
  RemoveFirst(<<1,Blank,0,0,0,Blank,0,0,0,Blank,0,0,0,Blank,0,0,0,Blank,0,0,0,Blank,0,0,0>>,
              {Blank})

Digits(text) == \A i \in DOMAIN text : text[i] \in 0 .. 9

\* Mutant: the length of the bound is not looked at.
IsUintStrAnyLength(data, min, max) ==
  Digits(data) /\ Len(data) > 0 /\ (Len(data) = 1 \/ data[1] # 0)
IsUintStr(data, min, max) ==
  /\ Digits(data)
  /\ Len(data) > 0
  /\ Len(data) <= Len(max)
  /\ Len(data) = 1 \/ data[1] # 0
  /\ Len(data) < Len(max) \/ TextLE(data, max)
  /\ Len(data) > Len(min) \/ TextLE(min, data)
IsUint64Str(data) == IsUintStr(data, <<0>>, MAX_UINT_64_STR)

\* The two alternatives test the bound in their own way: for a negative number of the
\* length of min, the text that is not greater is the number that is not smaller.
\* Mutant: a text longer than max is compared with it all the same.
IsPositiveStrFlat(data, max) == (Len(data) = 1 \/ data[1] # 0) /\ TextLE(data, max)
IsPositiveStr(data, max) ==
  (Len(data) = 1 \/ data[1] # 0) /\ (Len(data) < Len(max) \/ TextLE(data, max))
IsNegativeStr(data, min) ==
  /\ Len(data) = 2 \/ Len(data) = 1 \/ data[2] # 0
  /\ Len(data) < Len(min) \/ TextLE(data, min)

IsIntStr(data, min, max) ==
  /\ Len(data) > 0
  /\ data[1] = Minus \/ data[1] \in 0 .. 9
  /\ \A i \in 2 .. Len(data) : data[i] \in 0 .. 9
  /\ IF data[1] = Minus THEN IsNegativeStr(data, min) ELSE IsPositiveStr(data, max)
IsInt64Str(data) == IsIntStr(data, MIN_INT_64_STR, MAX_INT_64_STR)

\* A value is a string, a number or a bigint; safe tells whether a number is an integer
\* of the safe range.  Numbers and bigints are printed first, so they have no leading zeros.
Amount(type, text, safe) == [type |-> type, text |-> text, safe |-> safe]
String(text) == Amount("string", text, FALSE)

ParseUint64Str(val, min, max, reason) ==
  CASE val.type \in {"string", "bigint"} ->
         Validate(IsUint64Str(val.text) /\ IsUintStr(val.text, min, max), reason)
    [] val.type = "number" ->
         Validate(val.safe /\ val.text[1] # Minus /\ IsUintStr(val.text, min, max), reason)
    [] OTHER -> reason

ParseInt64Str(val, reason) ==
  CASE val.type \in {"string", "bigint"} -> Validate(IsInt64Str(val.text), reason)
    [] val.type = "number" -> Validate(val.safe /\ IsInt64Str(val.text), reason)
    [] OTHER -> reason

ParseUint64(val, reason) == ParseUint64Str(val, <<0>>, MAX_UINT_64_STR, reason)
ParseCoin(coin, reason) == ParseUint64Str(coin, <<0>>, MAX_LOVELACE_SUPPLY_STR, reason)

-----------------------------------------------------------------------------
(***************************************************************************)
(* Credentials and anchors.                                                *)
(***************************************************************************)
CredentialTypes == {"KEY_PATH", "KEY_HASH", "SCRIPT_HASH"}

ParseCredential(credential, reason) ==
  CASE credential.type = "KEY_PATH" -> ParseBIP32Path(credential.path, reason)
    [] credential.type = "KEY_HASH" -> ParseHexStringOfLength(credential.hash, KEY_HASH_LENGTH, reason)
    [] credential.type = "SCRIPT_HASH" -> ParseHexStringOfLength(credential.hash, SCRIPT_HASH_LENGTH, reason)
    [] OTHER -> "unreachable"

ParseAnchor(anchor) ==
  Verdict(<<ParseUrl(anchor.url, "ANCHOR_INVALID_URL"),
            ParseHexStringOfLength(anchor.hash, ANCHOR_HASH_LENGTH, "ANCHOR_INVALID_HASH")>>)
=============================================================================
