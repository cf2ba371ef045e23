----------------------------- MODULE AdaRequest ------------------------------
(***************************************************************************)
(* The requests a caller may make of hw-app-ada and the verdict of their   *)
(* parser: what reaches the device, and what is refused on the way.  One   *)
(* action per method of Ada; each parses its request first.  A transaction *)
(* is one of a few base transactions with two of its fields replaced, so   *)
(* that every two features of a transaction meet in every signing mode.    *)
(***************************************************************************)
EXTENDS AdaTransaction, AdaOtherRequests, AdaReasons

CONSTANTS
  Bases,         \* transactions
  Alternatives,  \* Alternatives[f]: other values of the field f of a transaction
  Singles,       \* Singles[f]: values of f that are tried one at a time
  WitnessPaths,  \* values of additionalWitnessPaths
  Messages, Votes, Certificates, Scripts, Addresses, KeyPaths \* the other requests

\* The requests are of the types of public.ts.
WellFormedValues(values) == \A f \in DOMAIN values : \A v \in values[f] : WellFormedField(f, v)
ASSUME TypesAssumption ==
  /\ \A base \in Bases : WellFormed(base)
  /\ WellFormedValues(Alternatives) /\ WellFormedValues(Singles)
  /\ \A paths \in WitnessPaths \cup KeyPaths : IsList(paths)
  /\ \A data \in Messages : IsMessage(data)
  /\ \A r \in Scripts : IsNativeScript(r.script)
  /\ \A r \in Addresses : IsAddress(r.address)

VARIABLES
  method,   \* the method called
  request,  \* what it is called with
  verdict   \* the outcome of its parser

vars == <<method, request, verdict>>

Unread == "unread"

-----------------------------------------------------------------------------
RequestOf(tx, mode, paths) ==
  [tx |-> tx, signingMode |-> mode, additionalWitnessPaths |-> paths]

AnyTransaction ==
  \E base \in Bases, mode \in SigningModes \cup {"unknown"}, paths \in WitnessPaths :
    \/ \E f, g \in DOMAIN Alternatives : \E v \in Alternatives[f], w \in Alternatives[g] :
         request = RequestOf([base EXCEPT ![f] = v, ![g] = w], mode, paths)
    \/ \E f \in DOMAIN Singles : \E v \in Singles[f] :
         request = RequestOf([base EXCEPT ![f] = v], mode, paths)

Init ==
  /\ verdict = Unread
  /\ \/ method = "signTransaction" /\ AnyTransaction
     \/ method = "signMessage" /\ request \in Messages
     \/ method = "signCIP36Vote" /\ request \in Votes
     \/ method = "signOperationalCertificate" /\ request \in Certificates
     \/ method = "deriveNativeScriptHash" /\ request \in Scripts
     \/ method \in {"deriveAddress", "showAddress"} /\ request \in Addresses
     \/ method = "getExtendedPublicKeys" /\ request \in KeyPaths

Parse(m, v) ==
  /\ method = m
  /\ verdict = Unread
  /\ verdict' = v
  /\ UNCHANGED <<method, request>>

\* Multisig transactions parse, and are then turned down.
SignTransaction ==
  Parse("signTransaction",
        LET parsed == ParseSignTransactionRequest(request)
        IN IF parsed = OK /\ request.signingMode = "MULTISIG_TRANSACTION"
           THEN "Keystone 3 Pro does not support multisig transaction" ELSE parsed)
SignMessage == Parse("signMessage", ParseMessageData(request))
SignCIP36Vote ==
  Parse("signCIP36Vote",
        Verdict(<<ParseCVote(request),
                  Validate(\A i \in DOMAIN request.witnessPath :
                             i = 1 => request.witnessPath[i] # H(1694),
                           "Keystone 3 Pro does not support 1694 path")>>))
SignOperationalCertificate ==
  Parse("signOperationalCertificate", ParseOperationalCertificate(request))
DeriveNativeScriptHash ==
  Parse("deriveNativeScriptHash",
        Verdict(<<ParseNativeScript(request.script), ParseDisplayFormat(request.displayFormat)>>))
ShowAddress ==
  Parse("showAddress",
        Verdict(<<ParseAddress(request.network, request.address),
                  Validate(request.address.type # "BYRON",
                           "Keystone 3 Pro does not support byron address")>>))
DeriveAddress ==
  Parse("deriveAddress",
        Verdict(<<ParseAddress(request.network, request.address),
                  Validate(request.address.type # "BYRON", "byron address is not supported")>>))
GetExtendedPublicKeys == Parse("getExtendedPublicKeys", ParseKeyPaths(request))

Next ==
  \/ SignTransaction \/ SignMessage \/ SignCIP36Vote \/ SignOperationalCertificate
  \/ DeriveNativeScriptHash \/ ShowAddress \/ DeriveAddress \/ GetExtendedPublicKeys

Spec == Init /\ [][Next]_vars

-----------------------------------------------------------------------------
(***************************************************************************)
(* What the properties speak of.                                           *)
(***************************************************************************)
Signing == method = "signTransaction" /\ verdict # Unread
Accepted == Signing /\ verdict = OK
Mode(mode) == request.signingMode = mode
Tx == request.tx

Pool(tx) == tx.certificates.items[1].pool

\* The transaction an owner is asked to sign after the operator: the same body, seen from
\* the device that holds the share of owner k and nothing else of it.  What no
\* pool mode looks at, a CIP-36 registration and the additional witnesses, is left as it is.
OwnerPath == <<H(1852), H(1815), H(0), S(2), S(0)>>
ThirdPartyKey == [type |-> "THIRD_PARTY", path |-> <<>>, hash |-> Hex(KEY_HASH_LENGTH)]
ThirdPartyAccount ==
  [type |-> "THIRD_PARTY", path |-> <<>>, hash |-> Hex(REWARD_ACCOUNT_HEX_LENGTH)]
ThirdPartyAddress == [type |-> "THIRD_PARTY", address |-> Hex(57)]
PoolOfOwner(pool, k) ==
  [pool EXCEPT !.poolKey = ThirdPartyKey,
               !.rewardAccount = ThirdPartyAccount,
               !.owners = [@ EXCEPT ![k] = [type |-> "DEVICE_OWNED", path |-> OwnerPath,
                                            hash |-> Hex(0)]]]
WithoutPaths(inputs) ==
  [inputs EXCEPT !.items = [i \in DOMAIN @ |-> [@[i] EXCEPT !.path = <<>>]]]
ToThirdParty(outputs) ==
  [outputs EXCEPT !.items = [i \in DOMAIN @ |-> [@[i] EXCEPT !.destination = ThirdPartyAddress]]]
WithPoolOf(certificates, k) ==
  LET cert == certificates.items[1]
  IN [certificates EXCEPT !.items = [@ EXCEPT ![1] = [cert EXCEPT !.pool = PoolOfOwner(@, k)]]]
OwnerView(tx, k) ==
  [tx EXCEPT !.inputs = WithoutPaths(@), !.outputs = ToThirdParty(@),
             !.certificates = WithPoolOf(@, k)]

\* Who holds the keys of the certificates, withdrawals and votes.
Credentials(tx) ==
  {c.credential.type : c \in {d \in Elements(tx.certificates) : d.type \notin PoolTypes}}
  \cup {w.credential.type : w \in Elements(tx.withdrawals)}
Voters(tx) == {v.voter.type : v \in Elements(tx.votingProcedures)}

\* The paths of the device in a request, by what they are the paths of.
PathsHeld(holders) == {h.path : h \in {x \in holders : x.type = "DEVICE_OWNED"}}
PathsOfAddresses(destinations) ==
  UNION {Range(d.address.spendingPath) \cup Range(d.address.stakingPath) :
           d \in {e \in destinations : e.type = "DEVICE_OWNED"}}
PathsOfInputs(inputs) == UNION {Range(i.path) : i \in Elements(inputs)}
CredentialsOf(cert) ==
  (IF cert.type \in PoolTypes THEN {} ELSE {cert.credential})
  \cup (IF cert.type = "VOTE_DELEGATION" THEN {cert.dRep} ELSE {})
  \cup (IF cert.type = "AUTHORIZE_COMMITTEE_HOT" THEN {cert.hotCredential} ELSE {})
PathsOfCredentials(credentials) == {c.path : c \in {d \in credentials : d.type = "KEY_PATH"}}
PathsOfVotes(params) ==
  {params.stakingPath} \cup Range(params.voteKeyPath) \cup PathsOfAddresses({params.paymentDestination})
  \cup UNION {{d.voteKeyPath : d \in {e \in Elements(l) : e.type = "PATH"}} : l \in Range(params.delegations)}
DevicePaths(r) ==
  LET tx == r.tx
      certificates == Elements(tx.certificates)
      pools == {c.pool : c \in {d \in certificates : d.type = "STAKE_POOL_REGISTRATION"}}
      registrations == {d.params : d \in {e \in Range(tx.auxiliaryData) : e.type = "CIP36_REGISTRATION"}}
  IN [inputs |-> PathsOfInputs(tx.inputs),
      collateralInputs |-> PathsOfInputs(tx.collateralInputs),
      referenceInputs |-> PathsOfInputs(tx.referenceInputs),
      outputs |-> PathsOfAddresses({o.destination : o \in Elements(tx.outputs) \cup Range(tx.collateralOutput)}),
      certificates |-> PathsOfCredentials(UNION {CredentialsOf(c) : c \in certificates})
                       \cup {c.poolKeyPath : c \in {d \in certificates : d.type = "STAKE_POOL_RETIREMENT"}},
      withdrawals |-> PathsOfCredentials({w.credential : w \in Elements(tx.withdrawals)}),
      requiredSigners |-> {s.path : s \in {t \in Elements(tx.requiredSigners) : t.type = "PATH"}},
      votingProcedures |-> {v.voter.path : v \in {w \in Elements(tx.votingProcedures) :
                                                    w.voter.type \in PathVoters}},
      poolKey |-> PathsHeld({p.poolKey : p \in pools}),
      owners |-> PathsHeld(UNION {Range(p.owners) : p \in pools}),
      rewardAccount |-> PathsHeld({p.rewardAccount : p \in pools}),
      auxiliaryData |-> UNION {PathsOfVotes(params) : params \in registrations},
      additionalWitnessPaths |-> Elements(r.additionalWitnessPaths)]

-----------------------------------------------------------------------------
(***************************************************************************)
(* Numbers, by their value: 24 digits as three integers of 8 digits.       *)
(***************************************************************************)
Pad(digits) == [i \in 1 .. 24 |-> IF i + Len(digits) > 24 THEN digits[i + Len(digits) - 24] ELSE 0]
Chunk(digits) ==
  LET value[i \in 0 .. 8] == IF i = 0 THEN 0 ELSE 10 * value[i - 1] + digits[i]
  IN value[8]
Chunks(digits) == [c \in 1 .. 3 |-> Chunk(SubSeq(Pad(digits), 8 * c - 7, 8 * c))]
NumberLE(a, b) ==
  LET x == Chunks(a)
      y == Chunks(b)
  IN \/ x = y
     \/ \E c \in 1 .. 3 : x[c] < y[c] /\ \A d \in 1 .. c - 1 : x[d] = y[d]
Canonical(digits) ==
  /\ digits # <<>>
  /\ Digits(digits)
  /\ digits[1] = 0 => Len(digits) = 1

IsUint64(text) == Canonical(text) /\ Len(text) <= 24 /\ NumberLE(text, MAX_UINT_64_STR)
Negative(text) == text # <<>> /\ text[1] = Minus
Unsigned(text) == IF Negative(text) THEN Tail(text) ELSE text
IsInt64(text) ==
  /\ Canonical(Unsigned(text)) /\ Len(Unsigned(text)) <= 24
  /\ IF Negative(text) THEN text[2] # 0 /\ NumberLE(Tail(text), Tail(MIN_INT_64_STR))
     ELSE NumberLE(text, MAX_INT_64_STR)

\* A value of which the parsers read the text.
Readable(amount) == amount.type \in {"string", "bigint"} \/ (amount.type = "number" /\ amount.safe)

OutputBundles(tx) ==
  {o.tokenBundle : o \in Elements(tx.outputs)} \cup {o.tokenBundle : o \in Range(tx.collateralOutput)}
MintBundles(tx) == Range(tx.mint)
Amounts(bundles) ==
  UNION {UNION {{t.amount : t \in Elements(g.tokens)} : g \in Elements(b)} : b \in bundles}

\* The letters of a hex string; texts that do not mix the two cases.
Capitals == 17 .. 22
Smalls == 49 .. 54
OneCase(texts) ==
  \E letters \in {Capitals, Smalls} :
    \A text \in texts : \A i \in DOMAIN text : text[i] \in 0 .. 9 \cup letters
Texts(bundle) ==
  {g.policyId.text : g \in Elements(bundle)}
  \cup UNION {{t.assetName.text : t \in Elements(g.tokens)} : g \in Elements(bundle)}
\* The order of the bytes, the digits of which are the values of the characters.
BytesLess(a, b) ==
  \E i \in DOMAIN b :
    /\ \A j \in 1 .. i - 1 : j \in DOMAIN a /\ HexValue(a[j]) = HexValue(b[j])
    /\ i \in DOMAIN a => HexValue(a[i]) < HexValue(b[i])
KeyLess(a, b) == Len(a) < Len(b) \/ (Len(a) = Len(b) /\ BytesLess(a, b))
Ascending(items, Text(_)) ==
  \A i \in 1 .. Len(items) - 1 : KeyLess(Text(items[i]), Text(items[i + 1]))

-----------------------------------------------------------------------------
(***************************************************************************)
(* The properties.                                                         *)
(***************************************************************************)
\* Every request of the types of public.ts is accepted or refused with a reason that has a
\* name: none falls off a switch into unreachable().
TypeOK ==
  /\ method \in {"signTransaction", "signMessage", "signCIP36Vote", "signOperationalCertificate",
                 "deriveNativeScriptHash", "deriveAddress", "showAddress", "getExtendedPublicKeys"}
  /\ verdict \in {Unread, OK} \cup InvalidDataReason \cup KeystoneRefusals

\* A pool registration the operator may sign can then be signed by every owner that is
\* not on the operator's device: the comment in the operator's mode (transaction.ts 762)
\* gives this as the reason of its restrictions.
OwnersCanSign ==
  Accepted /\ Mode("POOL_REGISTRATION_AS_OPERATOR") =>
    \A k \in DOMAIN Pool(Tx).owners :
      ParseSignTransactionRequest(RequestOf(OwnerView(Tx, k), "POOL_REGISTRATION_AS_OWNER",
                                            request.additionalWitnessPaths)) = OK

\* A transaction that one of the pool modes accepts is refused by every other mode: the
\* caller cannot choose the role by choosing the mode.
PoolModesExclusive ==
  Accepted /\ ~NoCertificateOf(Tx, {"STAKE_POOL_REGISTRATION"}) =>
    \A mode \in SigningModes \ {request.signingMode} :
      ParseSignTransactionRequest([request EXCEPT !.signingMode = mode]) # OK

\* In a registration signed by an owner the device has the key of exactly one owner, and
\* nothing of the rest that has to be signed for: no input or collateral, output, credential,
\* withdrawal, required signer, vote or pool key is its own.  Three parts the mode does not look at
\* (transaction.ts 640-759), so that the device may be in them besides, although public.ts
\* 1831-1832 has the owner's path witnessed alone: the reward account of the pool, the CIP-36
\* registration and the additional witnesses.
UnseenByOwnerMode == {"rewardAccount", "auxiliaryData", "additionalWitnessPaths"}
OwnerAddsOneShare ==
  Accepted /\ Mode("POOL_REGISTRATION_AS_OWNER") =>
    /\ \E k \in DOMAIN Pool(Tx).owners : DeviceOwners(Pool(Tx)) = {k}
    /\ LET paths == DevicePaths(request)
       IN \A part \in DOMAIN paths \ ({"owners"} \cup UnseenByOwnerMode) : paths[part] = {}

\* An accepted ordinary transaction leaves no certificate, withdrawal or vote to anybody
\* else's key or to a script; one that passes the multisig mode has none of the device's.
ModeDecidesWhoSigns ==
  /\ Accepted /\ Mode("ORDINARY_TRANSACTION") =>
       Credentials(Tx) \subseteq {"KEY_PATH"} /\ Voters(Tx) \subseteq PathVoters
  /\ Signing /\ Mode("MULTISIG_TRANSACTION") /\ ParseSignTransactionRequest(request) = OK =>
       Credentials(Tx) \subseteq {"SCRIPT_HASH"} /\ Voters(Tx) \subseteq ScriptVoters

\* The fee of an accepted transaction is a 64-bit unsigned number without leading zeros,
\* and such a fee is not refused.  Singles are compared as texts; the bound on the supply,
\* of which only the first separator is removed, binds nothing.
FeeIsUint64 ==
  Signing /\ Tx.fee.type = "string" =>
    /\ verdict = OK => IsUint64(Tx.fee.text)
    /\ verdict = "FEE_INVALID" => ~IsUint64(Tx.fee.text)

\* The amounts of the tokens of an accepted transaction are 64-bit numbers without leading
\* zeros, unsigned in the outputs and signed in the mint, and no transaction of which they
\* all are is refused for one.  Minted amounts of more than 19 digits are left out: the
\* comparison of texts lets some of them through; it lets a single minus and -0 through too.
TokensInRange ==
  Signing =>
    /\ verdict = OK =>
         /\ \A a \in Amounts(OutputBundles(Tx)) : IsUint64(a.text)
         /\ \A a \in Amounts(MintBundles(Tx)) :
              Len(Unsigned(a.text)) \in 1 .. 19 => IsInt64(a.text) \/ a.text = <<Minus, 0>>
    /\ verdict = "MULTIASSET_INVALID_TOKEN_AMOUNT" =>
         \/ \E a \in Amounts(OutputBundles(Tx)) : ~(Readable(a) /\ IsUint64(a.text))
         \/ \E a \in Amounts(MintBundles(Tx)) : ~(Readable(a) /\ IsInt64(a.text))

\* The margin of an accepted pool is at most one: the numerator is compared as a text with
\* the text of the denominator.
MarginAtMostOne ==
  Accepted =>
    \A c \in Elements(Tx.certificates) :
      c.type = "STAKE_POOL_REGISTRATION" =>
        /\ IsUint64(c.pool.margin.denominator.text)
        /\ NumberLE(c.pool.margin.numerator.text, c.pool.margin.denominator.text)

\* In accepted bundles whose texts do not mix the two cases, policies and names follow each
\* other in the canonical order of their bytes, shorter names first, without duplicates.
BundlesCanonical ==
  Accepted =>
    \A bundle \in OutputBundles(Tx) \cup MintBundles(Tx) :
      OneCase(Texts(bundle)) =>
        /\ Ascending(bundle.items, LAMBDA g : g.policyId.text)
        /\ \A g \in Elements(bundle) : Ascending(g.tokens.items, LAMBDA t : t.assetName.text)
=============================================================================
