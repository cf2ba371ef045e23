-------------------------- MODULE AdaParserProofs ---------------------------
(***************************************************************************)
(* Lemmas about the parsers of hw-app-ada: what it means that one accepts, *)
(* for any transaction, and for the checks and lists they are built from.  *)
(***************************************************************************)
EXTENDS AdaTransaction, AdaOtherRequests, AdaReasons, WellFoundedInduction, TLAPS

\* A set of natural numbers has a least element: the order of Nat is well founded.
Less == {p \in Nat \X Nat : p[1] < p[2]}
LEMMA LessWellFounded == IsWellFoundedOn(Less, Nat)
<1>1. OpToRel(<, Nat) = Less
  BY DEF OpToRel, Less
<1> QED BY <1>1, NatLessThanWellFounded

LEMMA LeastExists ==
  ASSUME NEW T \in SUBSET Nat, T # {}
  PROVE  \E x \in T : \A y \in T : ~(y < x)
<1>1. \A x, y \in Nat : x < y => <<x, y>> \in Less
  BY DEF Less
<1>2. T \subseteq Nat
  OBVIOUS
<1>3. PICK x \in T : \A y \in T : ~(<<y, x>> \in Less)
  BY LessWellFounded, WFMin, <1>2
<1> QED BY <1>1, <1>2, <1>3

\* A verdict is OK only if every check is.
LEMMA OnlyIfAllPass ==
  ASSUME NEW checks, DOMAIN checks \subseteq Nat, Verdict(checks) = OK
  PROVE  \A i \in DOMAIN checks : checks[i] = OK
<1> DEFINE failed == {i \in DOMAIN checks : checks[i] # OK}
<1>1. SUFFICES ASSUME failed # {} PROVE FALSE
  OBVIOUS
<1>2. PICK i \in failed : \A j \in failed : ~(j < i)
  BY <1>1, LeastExists
<1>3. checks[CHOOSE k \in DOMAIN checks :
               checks[k] # OK /\ \A j \in DOMAIN checks : j < k => checks[j] = OK] # OK
  BY <1>2
<1> QED BY <1>1, <1>3 DEF Verdict

(***************************************************************************)
(* Verdicts of a fixed number of checks.                                   *)
(***************************************************************************)
LEMMA Checks2 ==
  ASSUME NEW a, NEW b, Verdict(<<a, b>>) = OK
  PROVE  a = OK /\ b = OK
<1>1. DOMAIN <<a, b>> = 1 .. 2
  OBVIOUS
<1> QED BY <1>1, OnlyIfAllPass

LEMMA Checks3 ==
  ASSUME NEW a, NEW b, NEW c, Verdict(<<a, b, c>>) = OK
  PROVE  a = OK /\ b = OK /\ c = OK
<1>1. DOMAIN <<a, b, c>> = 1 .. 3
  OBVIOUS
<1> QED BY <1>1, OnlyIfAllPass

LEMMA Checks5 ==
  ASSUME NEW a, NEW b, NEW c, NEW d, NEW e, Verdict(<<a, b, c, d, e>>) = OK
  PROVE  a = OK /\ b = OK /\ c = OK /\ d = OK /\ e = OK
<1>1. DOMAIN <<a, b, c, d, e>> = 1 .. 5
  OBVIOUS
<1> QED BY <1>1, OnlyIfAllPass

LEMMA Checks6 ==
  ASSUME NEW a, NEW b, NEW c, NEW d, NEW e, NEW f, Verdict(<<a, b, c, d, e, f>>) = OK
  PROVE  a = OK /\ b = OK /\ c = OK /\ d = OK /\ e = OK /\ f = OK
<1> DEFINE all == <<a, b, c, d, e, f>>
<1>1. /\ DOMAIN all = 1 .. 6 /\ all[1] = a /\ all[2] = b /\ all[3] = c /\ all[4] = d
      /\ all[5] = e /\ all[6] = f
  OBVIOUS
<1>2. Verdict(all) = OK
  OBVIOUS
<1> HIDE DEF all
<1>3. \A i \in 1 .. 6 : all[i] = OK
  BY <1>1, <1>2, OnlyIfAllPass
<1> QED BY <1>1, <1>3

LEMMA Checks7 ==
  ASSUME NEW a, NEW b, NEW c, NEW d, NEW e, NEW f, NEW g, Verdict(<<a, b, c, d, e, f, g>>) = OK
  PROVE  a = OK /\ b = OK /\ c = OK /\ d = OK /\ e = OK /\ f = OK /\ g = OK
<1> DEFINE all == <<a, b, c, d, e, f, g>>
<1>1. /\ DOMAIN all = 1 .. 7 /\ all[1] = a /\ all[2] = b /\ all[3] = c /\ all[4] = d
      /\ all[5] = e /\ all[6] = f /\ all[7] = g
  OBVIOUS
<1>2. Verdict(all) = OK
  OBVIOUS
<1> HIDE DEF all
<1>3. \A i \in 1 .. 7 : all[i] = OK
  BY <1>1, <1>2, OnlyIfAllPass
<1> QED BY <1>1, <1>3

LEMMA Checks11 ==
  ASSUME NEW a1, NEW a2, NEW a3, NEW a4, NEW a5, NEW a6, NEW a7, NEW a8, NEW a9, NEW a10, NEW a11,
         Verdict(<<a1, a2, a3, a4, a5, a6, a7, a8, a9, a10, a11>>) = OK
  PROVE  /\ a1 = OK /\ a2 = OK /\ a3 = OK /\ a4 = OK /\ a5 = OK /\ a6 = OK
         /\ a7 = OK /\ a8 = OK /\ a9 = OK /\ a10 = OK /\ a11 = OK
<1> DEFINE all == <<a1, a2, a3, a4, a5, a6, a7, a8, a9, a10, a11>>
<1>1. /\ DOMAIN all = 1 .. 11 /\ all[1] = a1 /\ all[2] = a2 /\ all[3] = a3 /\ all[4] = a4
      /\ all[5] = a5 /\ all[6] = a6 /\ all[7] = a7 /\ all[8] = a8 /\ all[9] = a9
      /\ all[10] = a10 /\ all[11] = a11
  OBVIOUS
<1>2. Verdict(all) = OK
  OBVIOUS
<1> HIDE DEF all
<1>3. \A i \in 1 .. 11 : all[i] = OK
  BY <1>1, <1>2, OnlyIfAllPass
<1> QED BY <1>1, <1>3

LEMMA Checks20 ==
  ASSUME NEW a1, NEW a2, NEW a3, NEW a4, NEW a5, NEW a6, NEW a7, NEW a8, NEW a9, NEW a10,
         NEW a11, NEW a12, NEW a13, NEW a14, NEW a15, NEW a16, NEW a17, NEW a18, NEW a19, NEW a20,
         Verdict(<<a1, a2, a3, a4, a5, a6, a7, a8, a9, a10, a11, a12, a13, a14, a15, a16, a17, a18,
                   a19, a20>>) = OK
  PROVE  /\ a1 = OK /\ a2 = OK /\ a3 = OK /\ a4 = OK /\ a5 = OK
         /\ a6 = OK /\ a7 = OK /\ a8 = OK /\ a9 = OK /\ a10 = OK
         /\ a11 = OK /\ a12 = OK /\ a13 = OK /\ a14 = OK /\ a15 = OK
         /\ a16 = OK /\ a17 = OK /\ a18 = OK /\ a19 = OK /\ a20 = OK
<1> DEFINE all == <<a1, a2, a3, a4, a5, a6, a7, a8, a9, a10, a11, a12, a13, a14, a15, a16, a17, a18,
                    a19, a20>>
<1>1. /\ DOMAIN all = 1 .. 20
      /\ all[1] = a1 /\ all[2] = a2 /\ all[3] = a3 /\ all[4] = a4 /\ all[5] = a5
      /\ all[6] = a6 /\ all[7] = a7 /\ all[8] = a8 /\ all[9] = a9 /\ all[10] = a10
      /\ all[11] = a11 /\ all[12] = a12 /\ all[13] = a13 /\ all[14] = a14 /\ all[15] = a15
      /\ all[16] = a16 /\ all[17] = a17 /\ all[18] = a18 /\ all[19] = a19 /\ all[20] = a20
  OBVIOUS
<1>2. Verdict(all) = OK
  OBVIOUS
<1> HIDE DEF all
<1>3. \A i \in 1 .. 20 : all[i] = OK
  BY <1>1, <1>2, OnlyIfAllPass
<1> QED BY <1>1, <1>3

\* Conversely, checks that are all OK make the verdict OK.
LEMMA AllPass ==
  ASSUME NEW checks, \A i \in DOMAIN checks : checks[i] = OK
  PROVE  Verdict(checks) = OK
BY DEF Verdict

LEMMA Pass20 ==
  ASSUME NEW a1, NEW a2, NEW a3, NEW a4, NEW a5, NEW a6, NEW a7, NEW a8, NEW a9, NEW a10,
         NEW a11, NEW a12, NEW a13, NEW a14, NEW a15, NEW a16, NEW a17, NEW a18, NEW a19, NEW a20,
         /\ a1 = OK /\ a2 = OK /\ a3 = OK /\ a4 = OK /\ a5 = OK
         /\ a6 = OK /\ a7 = OK /\ a8 = OK /\ a9 = OK /\ a10 = OK
         /\ a11 = OK /\ a12 = OK /\ a13 = OK /\ a14 = OK /\ a15 = OK
         /\ a16 = OK /\ a17 = OK /\ a18 = OK /\ a19 = OK /\ a20 = OK
  PROVE  Verdict(<<a1, a2, a3, a4, a5, a6, a7, a8, a9, a10, a11, a12, a13, a14, a15, a16, a17, a18,
                   a19, a20>>) = OK
<1> DEFINE all == <<a1, a2, a3, a4, a5, a6, a7, a8, a9, a10, a11, a12, a13, a14, a15, a16, a17, a18,
                    a19, a20>>
<1>1. /\ DOMAIN all = 1 .. 20
      /\ all[1] = a1 /\ all[2] = a2 /\ all[3] = a3 /\ all[4] = a4 /\ all[5] = a5
      /\ all[6] = a6 /\ all[7] = a7 /\ all[8] = a8 /\ all[9] = a9 /\ all[10] = a10
      /\ all[11] = a11 /\ all[12] = a12 /\ all[13] = a13 /\ all[14] = a14 /\ all[15] = a15
      /\ all[16] = a16 /\ all[17] = a17 /\ all[18] = a18 /\ all[19] = a19 /\ all[20] = a20
  OBVIOUS
<1> HIDE DEF all
<1>2. \A i \in DOMAIN all : all[i] = OK
  <2> TAKE i \in DOMAIN all
  <2>1. \/ i = 1 \/ i = 2 \/ i = 3 \/ i = 4 \/ i = 5 \/ i = 6 \/ i = 7 \/ i = 8 \/ i = 9 \/ i = 10
        \/ i = 11 \/ i = 12 \/ i = 13 \/ i = 14 \/ i = 15 \/ i = 16 \/ i = 17 \/ i = 18 \/ i = 19 \/ i = 20
    BY <1>1
  <2> QED BY <1>1, <2>1
<1>3. Verdict(all) = OK
  BY <1>2, AllPass
<1> QED BY <1>3 DEF all

LEMMA Pass2 ==
  ASSUME NEW a, NEW b, a = OK, b = OK
  PROVE  Verdict(<<a, b>>) = OK
BY AllPass

LEMMA Pass3 ==
  ASSUME NEW a, NEW b, NEW c, a = OK, b = OK, c = OK
  PROVE  Verdict(<<a, b, c>>) = OK
BY AllPass

LEMMA Pass5 ==
  ASSUME NEW a, NEW b, NEW c, NEW d, NEW e, a = OK, b = OK, c = OK, d = OK, e = OK
  PROVE  Verdict(<<a, b, c, d, e>>) = OK
BY AllPass

LEMMA Pass11 ==
  ASSUME NEW a1, NEW a2, NEW a3, NEW a4, NEW a5, NEW a6, NEW a7, NEW a8, NEW a9, NEW a10, NEW a11,
         a1 = OK, a2 = OK, a3 = OK, a4 = OK, a5 = OK, a6 = OK, a7 = OK, a8 = OK, a9 = OK,
         a10 = OK, a11 = OK
  PROVE  Verdict(<<a1, a2, a3, a4, a5, a6, a7, a8, a9, a10, a11>>) = OK
<1> DEFINE all == <<a1, a2, a3, a4, a5, a6, a7, a8, a9, a10, a11>>
<1>1. \A i \in DOMAIN all : all[i] = OK
  OBVIOUS
<1>2. Verdict(all) = OK
  BY <1>1, AllPass
<1> QED BY <1>2

-----------------------------------------------------------------------------
(***************************************************************************)
(* What a transaction that parses, and one each mode accepts, is like.     *)
(***************************************************************************)
LEMMA CertificatesParsed ==
  ASSUME NEW tx, WellFormed(tx), ParseTransaction(tx) = OK
  PROVE  \A c \in Elements(tx.certificates) : ParseCertificate(c) = OK
<1> DEFINE each == [i \in DOMAIN tx.certificates.items |->
                      ParseCertificate(tx.certificates.items[i])]
<1>1. Verdict(<<Validate(IsArray(tx.certificates), "CERTIFICATES_NOT_ARRAY"), Verdict(each)>>) = OK
  BY Checks20 DEF ParseTransaction, ParseList, Each
<1>2. Verdict(each) = OK
  BY <1>1, Checks2
<1>3. DOMAIN each \subseteq Nat
  BY DEF WellFormed, WellFormedField, TransactionFields, WellFormedList, IsList, ListOf, ListParts, IsSequence
<1>4. \A i \in DOMAIN each : each[i] = OK
  BY <1>2, <1>3, OnlyIfAllPass
<1> QED BY <1>4 DEF Elements

LEMMA CertificatesKnown ==
  ASSUME NEW tx, WellFormed(tx), ParseTransaction(tx) = OK
  PROVE  \A c \in Elements(tx.certificates) : c.type \in CertificateTypes
BY CertificatesParsed DEF ParseCertificate, CertificateTypes, OK, PoolTypes

LEMMA Accepts ==
  ASSUME NEW r, ParseSignTransactionRequest(r) = OK
  PROVE  /\ ParseTransaction(r.tx) = OK
         /\ r.signingMode \in SigningModes
         /\ ModeVerdict(r.signingMode, r.tx) = OK
<1> DEFINE paths == Verdict(<<Validate(IsArray(r.additionalWitnessPaths), "ADDITIONAL_WITNESSES_NOT_ARRAY"),
                              Verdict([i \in DOMAIN r.additionalWitnessPaths.items |->
                                         ParseBIP32Path(r.additionalWitnessPaths.items[i], "INVALID_PATH")])>>)
           known == Validate(r.signingMode \in SigningModes, "SIGN_MODE_UNKNOWN")
           parsed == Verdict(<<ParseTransaction(r.tx), known, paths>>)
<1>1. ParseSignTransactionRequest(r) = IF parsed = OK THEN ModeVerdict(r.signingMode, r.tx) ELSE parsed
  BY DEF ParseSignTransactionRequest, ParseList, Each
<1>2. parsed = OK /\ ModeVerdict(r.signingMode, r.tx) = OK
  BY <1>1
<1> HIDE DEF paths
<1>3. ParseTransaction(r.tx) = OK /\ known = OK
  BY <1>2, Checks3
<1>4. r.signingMode \in SigningModes
  BY <1>3 DEF Validate, OK
<1> QED BY <1>2, <1>3, <1>4

LEMMA OrdinaryAccepts ==
  ASSUME NEW tx, OrdinaryMode(tx) = OK
  PROVE  /\ NoCertificateOf(tx, {"STAKE_POOL_REGISTRATION"})
         /\ CredentialsAs(tx, StakeTypes, "KEY_PATH") /\ CredentialsAs(tx, CommitteeTypes, "KEY_PATH")
         /\ CredentialsAs(tx, DRepTypes, "KEY_PATH")
         /\ WithdrawalsAs(tx, "KEY_PATH") /\ VotersAs(tx, PathVoters)
BY Checks7 DEF Validate, OrdinaryMode, OK

LEMMA MultisigAccepts ==
  ASSUME NEW tx, MultisigMode(tx) = OK
  PROVE  /\ NoCertificateOf(tx, {"STAKE_POOL_REGISTRATION"})
         /\ CredentialsAs(tx, StakeTypes \cup CommitteeTypes \cup DRepTypes, "SCRIPT_HASH")
         /\ WithdrawalsAs(tx, "SCRIPT_HASH") /\ VotersAs(tx, ScriptVoters)
BY Checks7 DEF Validate, MultisigMode, OK

LEMMA PoolForbidsAll ==
  ASSUME NEW tx, PoolForbids(tx) = OK
  PROVE  /\ IsEmpty(tx.withdrawals) /\ IsEmpty(tx.collateralInputs)
         /\ IsEmpty(tx.requiredSigners) /\ IsEmpty(tx.votingProcedures)
         /\ IsEmpty(tx.referenceInputs) /\ ~Given(tx.collateralOutput)
BY Checks11 DEF Validate, PoolForbids, OK

LEMMA OwnerAccepts ==
  ASSUME NEW tx, OwnerMode(tx) = OK
  PROVE  /\ \A i \in Elements(tx.inputs) : ~Given(i.path)
         /\ OutputsToThirdParty(tx)
         /\ SinglePoolCertificate(tx, "THIRD_PARTY", 1, "THIRD_PARTY_POOL_KEY_REQUIRED",
                                  "SINGLE_DEVICE_OWNER_REQUIRED") = OK
         /\ PoolForbids(tx) = OK
BY Checks5 DEF Validate, OwnerMode, OK

LEMMA OperatorAccepts ==
  ASSUME NEW tx, OperatorMode(tx) = OK
  PROVE  SinglePoolCertificate(tx, "DEVICE_OWNED", 0, "DEVICE_OWNED_POOL_KEY_REQUIRED",
                               "DEVICE_OWNED_POOL_OWNER_NOT_ALLOWED") = OK
BY Checks3 DEF Validate, OperatorMode, OK

LEMMA PoolCertificateAccepts ==
  ASSUME NEW tx, NEW holder, NEW owners, NEW keyReason, NEW ownersReason,
         keyReason # OK, ownersReason # OK,
         SinglePoolCertificate(tx, holder, owners, keyReason, ownersReason) = OK
  PROVE  /\ Len(tx.certificates.items) = 1
         /\ tx.certificates.items[1].type = "STAKE_POOL_REGISTRATION"
         /\ tx.certificates.items[1].pool.poolKey.type = holder
         /\ Cardinality(DeviceOwners(tx.certificates.items[1].pool)) = owners
<1> DEFINE cert == tx.certificates.items[1]
<1>1. /\ Len(tx.certificates.items) = 1
      /\ ParsePoolCertificate(cert, holder, owners, keyReason, ownersReason) = OK
  BY DEF SinglePoolCertificate, OK
<1>2. /\ cert.type = "STAKE_POOL_REGISTRATION"
      /\ Verdict(<<Validate(cert.pool.poolKey.type = holder, keyReason),
                   Validate(Cardinality(DeviceOwners(cert.pool)) = owners, ownersReason)>>) = OK
  BY <1>1 DEF ParsePoolCertificate, OK
<1> QED BY <1>1, <1>2, Checks2 DEF Validate

\* The checks of a bundle that is accepted, by its elements.
LEMMA TokenAccepted ==
  ASSUME NEW token, NEW signed, ParseToken(token, signed) = OK
  PROVE  token.assetName.digits /\ ParseTokenAmount(token.amount, signed) = OK
BY Checks3 DEF ParseToken, ParseHexString, IsHexString, Validate, OK

LEMMA GroupAccepted ==
  ASSUME NEW group, NEW signed, ParseAssetGroup(group, signed) = OK, IsAssetGroup(group)
  PROVE  /\ group.policyId.digits /\ group.policyId.length = 56
         /\ \A t \in Elements(group.tokens) :
              t.assetName.digits /\ ParseTokenAmount(t.amount, signed) = OK
         /\ \A i, j \in DOMAIN group.tokens.items : i < j =>
              /\ group.tokens.items[i].assetName.text # group.tokens.items[j].assetName.text
              /\ NameLE(group.tokens.items[i].assetName.text, group.tokens.items[j].assetName.text)
<1> DEFINE tokens == group.tokens.items
           names == [i \in DOMAIN tokens |-> tokens[i].assetName.text]
           parsed == Verdict([i \in DOMAIN tokens |-> ParseToken(tokens[i], signed)])
           unique == Unique(names)
           sorted == Sorted(names, NameLE)
           hash == ParseHexStringOfLength(group.policyId, TOKEN_POLICY_LENGTH, "MULTIASSET_INVALID_POLICY_NAME")
           v1 == Validate(IsArray(group.tokens), "MULTIASSET_INVALID_ASSET_GROUP_NOT_ARRAY")
           v2 == Validate(Len(tokens) <= TOKENS_IN_GROUP_MAX, "MULTIASSET_INVALID_ASSET_GROUP_TOO_LARGE")
           v3 == Validate(Len(tokens) > 0, "MULTIASSET_INVALID_ASSET_GROUP_EMPTY")
           v6 == Validate(unique, "MULTIASSET_INVALID_ASSET_GROUP_NOT_UNIQUE")
           v7 == Validate(sorted, "MULTIASSET_INVALID_ASSET_GROUP_ORDERING")
<1>1. DOMAIN tokens \subseteq Nat /\ DOMAIN tokens = DOMAIN names
  BY DEF IsAssetGroup, ListOf, IsList, IsSequence
<1>2. Verdict(<<v1, v2, v3, hash, parsed, v6, v7>>) = OK
  BY DEF ParseAssetGroup, Each
<1>3. hash = OK => group.policyId.digits /\ group.policyId.length = 56
  BY DEF ParseHexStringOfLength, IsHexStringOfLength, IsHexString, Validate, OK, TOKEN_POLICY_LENGTH
<1>4. parsed = OK => \A i \in DOMAIN tokens : ParseToken(tokens[i], signed) = OK
  BY <1>1, OnlyIfAllPass
<1>5. v6 = OK => unique
  BY DEF Validate, OK
<1>6. v7 = OK => sorted
  BY DEF Validate, OK
<1>7. ASSUME unique, sorted, NEW i \in DOMAIN tokens, NEW j \in DOMAIN tokens, i < j
      PROVE  tokens[i].assetName.text # tokens[j].assetName.text
             /\ NameLE(tokens[i].assetName.text, tokens[j].assetName.text)
  <2>1. i # j
    BY <1>1, <1>7
  <2>2. names[i] # names[j]
    BY <1>7, <2>1 DEF Unique
  <2>3. NameLE(names[i], names[j])
    BY <1>7 DEF Sorted
  <2> QED BY <2>2, <2>3
<1> HIDE DEF hash, parsed, v1, v2, v3, v6, v7, unique, sorted
<1>8. hash = OK /\ parsed = OK /\ v6 = OK /\ v7 = OK
  BY <1>2, Checks7
<1>9. \A t \in Elements(group.tokens) : ParseToken(t, signed) = OK
  BY <1>4, <1>8 DEF Elements
<1>10. \A t \in Elements(group.tokens) : t.assetName.digits /\ ParseTokenAmount(t.amount, signed) = OK
  BY <1>9, TokenAccepted
<1> QED BY <1>3, <1>5, <1>6, <1>7, <1>8, <1>10

LEMMA BundleAccepted ==
  ASSUME NEW bundle, NEW emptyAllowed, NEW signed,
         ParseTokenBundle(bundle, emptyAllowed, signed) = OK, IsTokenBundle(bundle)
  PROVE  /\ \A g \in Elements(bundle) : ParseAssetGroup(g, signed) = OK /\ IsAssetGroup(g)
         /\ \A i, j \in DOMAIN bundle.items : i < j =>
              /\ bundle.items[i].policyId.text # bundle.items[j].policyId.text
              /\ TextLE(bundle.items[i].policyId.text, bundle.items[j].policyId.text)
<1> DEFINE groups == bundle.items
           policies == [i \in DOMAIN groups |-> groups[i].policyId.text]
           parsed == Verdict([i \in DOMAIN groups |-> ParseAssetGroup(groups[i], signed)])
           unique == Unique(policies)
           sorted == Sorted(policies, TextLE)
           v1 == Validate(IsArray(bundle), "MULTIASSET_INVALID_TOKEN_BUNDLE_NOT_ARRAY")
           v2 == Validate(Len(groups) <= ASSET_GROUPS_MAX, "MULTIASSET_INVALID_TOKEN_BUNDLE_TOO_LARGE")
           v3 == Validate(emptyAllowed \/ Len(groups) > 0, "MULTIASSET_INVALID_TOKEN_BUNDLE_EMPTY")
           v5 == Validate(unique, "MULTIASSET_INVALID_TOKEN_BUNDLE_NOT_UNIQUE")
           v6 == Validate(sorted, "MULTIASSET_INVALID_TOKEN_BUNDLE_ORDERING")
<1>1. /\ DOMAIN groups \subseteq Nat /\ DOMAIN groups = DOMAIN policies
      /\ \A g \in Elements(bundle) : IsAssetGroup(g)
  BY DEF IsTokenBundle, ListOf, IsList, IsSequence, Elements
<1>2. Verdict(<<v1, v2, v3, parsed, v5, v6>>) = OK
  BY DEF ParseTokenBundle, Each
<1>3. parsed = OK => \A i \in DOMAIN groups : ParseAssetGroup(groups[i], signed) = OK
  BY <1>1, OnlyIfAllPass
<1>4. v5 = OK => unique
  BY DEF Validate, OK
<1>5. v6 = OK => sorted
  BY DEF Validate, OK
<1>6. ASSUME unique, sorted, NEW i \in DOMAIN groups, NEW j \in DOMAIN groups, i < j
      PROVE  groups[i].policyId.text # groups[j].policyId.text
             /\ TextLE(groups[i].policyId.text, groups[j].policyId.text)
  <2>1. i # j
    BY <1>1, <1>6
  <2>2. policies[i] # policies[j]
    BY <1>6, <2>1 DEF Unique
  <2>3. TextLE(policies[i], policies[j])
    BY <1>6 DEF Sorted
  <2> QED BY <2>2, <2>3
<1> HIDE DEF parsed, v1, v2, v3, v5, v6, unique, sorted
<1>7. parsed = OK /\ v5 = OK /\ v6 = OK
  BY <1>2, Checks6
<1>8. \A g \in Elements(bundle) : ParseAssetGroup(g, signed) = OK
  BY <1>3, <1>7 DEF Elements
<1> QED BY <1>1, <1>4, <1>5, <1>6, <1>7, <1>8

-----------------------------------------------------------------------------
(***************************************************************************)
(* What a parser may say.  The two reasons a property disputes are kept    *)
(* apart: where they may come from is stated of each parser.               *)
(***************************************************************************)
Disputed == {"FEE_INVALID", "MULTIASSET_INVALID_TOKEN_AMOUNT"}
\* A set of verdicts that holds every reason but those two.
Covers(R) == OK \in R /\ InvalidDataReason \ Disputed \subseteq R

LEMMA VerdictCovered ==
  ASSUME NEW R, OK \in R, NEW checks, DOMAIN checks \subseteq Nat,
         \A i \in DOMAIN checks : checks[i] \in R
  PROVE  Verdict(checks) \in R
<1> DEFINE failed == {i \in DOMAIN checks : checks[i] # OK}
<1>1. CASE failed = {}
  BY <1>1 DEF Verdict
<1>2. CASE failed # {}
  <2>1. PICK i \in failed : \A j \in failed : ~(j < i)
    BY <1>2, LeastExists
  <2>2. (CHOOSE k \in DOMAIN checks :
           checks[k] # OK /\ \A j \in DOMAIN checks : j < k => checks[j] = OK) \in DOMAIN checks
    BY <2>1
  <2>3. ~\A k \in DOMAIN checks : checks[k] = OK
    BY <1>2
  <2> QED BY <2>2, <2>3 DEF Verdict
<1> QED BY <1>1, <1>2

LEMMA Among2 ==
  ASSUME NEW R, OK \in R, NEW a1 \in R, NEW a2 \in R
  PROVE  Verdict(<<a1, a2>>) \in R
<1>1. DOMAIN <<a1, a2>> = 1 .. 2
  OBVIOUS
<1> QED BY <1>1, VerdictCovered

LEMMA Among3 ==
  ASSUME NEW R, OK \in R, NEW a1 \in R, NEW a2 \in R, NEW a3 \in R
  PROVE  Verdict(<<a1, a2, a3>>) \in R
<1>1. DOMAIN <<a1, a2, a3>> = 1 .. 3
  OBVIOUS
<1> QED BY <1>1, VerdictCovered

LEMMA Among4 ==
  ASSUME NEW R, OK \in R, NEW a1 \in R, NEW a2 \in R, NEW a3 \in R, NEW a4 \in R
  PROVE  Verdict(<<a1, a2, a3, a4>>) \in R
<1>1. DOMAIN <<a1, a2, a3, a4>> = 1 .. 4
  OBVIOUS
<1> QED BY <1>1, VerdictCovered

LEMMA Among5 ==
  ASSUME NEW R, OK \in R, NEW a1 \in R, NEW a2 \in R, NEW a3 \in R, NEW a4 \in R, NEW a5 \in R
  PROVE  Verdict(<<a1, a2, a3, a4, a5>>) \in R
<1>1. DOMAIN <<a1, a2, a3, a4, a5>> = 1 .. 5
  OBVIOUS
<1> QED BY <1>1, VerdictCovered

LEMMA Among6 ==
  ASSUME NEW R, OK \in R, NEW a1 \in R, NEW a2 \in R, NEW a3 \in R, NEW a4 \in R, NEW a5 \in R, NEW a6 \in R
  PROVE  Verdict(<<a1, a2, a3, a4, a5, a6>>) \in R
<1> DEFINE all == <<a1, a2, a3, a4, a5, a6>>
<1>1. DOMAIN all = 1 .. 6
  OBVIOUS
<1>2. \A i \in DOMAIN all : all[i] \in R
  OBVIOUS
<1> HIDE DEF all
<1>3. Verdict(all) \in R
  BY <1>1, <1>2, VerdictCovered
<1> QED BY <1>3 DEF all

LEMMA Among7 ==
  ASSUME NEW R, OK \in R, NEW a1 \in R, NEW a2 \in R, NEW a3 \in R, NEW a4 \in R, NEW a5 \in R, NEW a6 \in R,
         NEW a7 \in R
  PROVE  Verdict(<<a1, a2, a3, a4, a5, a6, a7>>) \in R
<1> DEFINE all == <<a1, a2, a3, a4, a5, a6, a7>>
<1>1. DOMAIN all = 1 .. 7
  OBVIOUS
<1>2. \A i \in DOMAIN all : all[i] \in R
  OBVIOUS
<1> HIDE DEF all
<1>3. Verdict(all) \in R
  BY <1>1, <1>2, VerdictCovered
<1> QED BY <1>3 DEF all

LEMMA Among8 ==
  ASSUME NEW R, OK \in R, NEW a1 \in R, NEW a2 \in R, NEW a3 \in R, NEW a4 \in R, NEW a5 \in R, NEW a6 \in R,
         NEW a7 \in R, NEW a8 \in R
  PROVE  Verdict(<<a1, a2, a3, a4, a5, a6, a7, a8>>) \in R
<1> DEFINE all == <<a1, a2, a3, a4, a5, a6, a7, a8>>
<1>1. DOMAIN all = 1 .. 8
  OBVIOUS
<1>2. \A i \in DOMAIN all : all[i] \in R
  OBVIOUS
<1> HIDE DEF all
<1>3. Verdict(all) \in R
  BY <1>1, <1>2, VerdictCovered
<1> QED BY <1>3 DEF all

LEMMA Among11 ==
  ASSUME NEW R, OK \in R, NEW a1 \in R, NEW a2 \in R, NEW a3 \in R, NEW a4 \in R, NEW a5 \in R, NEW a6 \in R,
         NEW a7 \in R, NEW a8 \in R, NEW a9 \in R, NEW a10 \in R, NEW a11 \in R
  PROVE  Verdict(<<a1, a2, a3, a4, a5, a6, a7, a8, a9, a10, a11>>) \in R
<1> DEFINE all == <<a1, a2, a3, a4, a5, a6, a7, a8, a9, a10, a11>>
<1>1. DOMAIN all = 1 .. 11
  OBVIOUS
<1>2. \A i \in DOMAIN all : all[i] \in R
  OBVIOUS
<1> HIDE DEF all
<1>3. Verdict(all) \in R
  BY <1>1, <1>2, VerdictCovered
<1> QED BY <1>3 DEF all

LEMMA Among20 ==
  ASSUME NEW R, OK \in R, NEW a1 \in R, NEW a2 \in R, NEW a3 \in R, NEW a4 \in R, NEW a5 \in R, NEW a6 \in R,
         NEW a7 \in R, NEW a8 \in R, NEW a9 \in R, NEW a10 \in R, NEW a11 \in R,
         NEW a12 \in R, NEW a13 \in R, NEW a14 \in R, NEW a15 \in R, NEW a16 \in R,
         NEW a17 \in R, NEW a18 \in R, NEW a19 \in R, NEW a20 \in R
  PROVE  Verdict(<<a1, a2, a3, a4, a5, a6, a7, a8, a9, a10, a11, a12, a13, a14, a15, a16,
                    a17, a18, a19, a20>>) \in R
<1> DEFINE all == <<a1, a2, a3, a4, a5, a6, a7, a8, a9, a10, a11, a12, a13, a14, a15, a16,
                    a17, a18, a19, a20>>
<1>1. DOMAIN all = 1 .. 20
  OBVIOUS
<1>2. \A i \in DOMAIN all : all[i] \in R
  OBVIOUS
<1> HIDE DEF all
<1>3. Verdict(all) \in R
  BY <1>1, <1>2, VerdictCovered
<1> QED BY <1>3 DEF all

LEMMA EachPathCovered ==
  ASSUME NEW R, OK \in R, NEW reason \in R, NEW s, IsSequence(s)
  PROVE  Verdict([i \in DOMAIN s |-> ParseBIP32Path(s[i], reason)]) \in R
BY VerdictCovered DEF IsSequence, ParseBIP32Path, Validate

LEMMA EachHashCovered ==
  ASSUME NEW R, OK \in R, NEW reason \in R, NEW bytes, NEW s, IsSequence(s)
  PROVE  Verdict([i \in DOMAIN s |-> ParseHexStringOfLength(s[i], bytes, reason)]) \in R
BY VerdictCovered DEF IsSequence, ParseHexStringOfLength, Validate

LEMMA EachHexCovered ==
  ASSUME NEW R, OK \in R, NEW reason \in R, NEW s, IsSequence(s)
  PROVE  Verdict([i \in DOMAIN s |-> ParseHexString(s[i], reason)]) \in R
BY VerdictCovered DEF IsSequence, ParseHexString, Validate

LEMMA EachUint32Covered ==
  ASSUME NEW R, OK \in R, NEW reason \in R, NEW s, IsSequence(s)
  PROVE  Verdict([i \in DOMAIN s |-> ParseUint32(s[i], reason)]) \in R
BY VerdictCovered DEF IsSequence, ParseUint32, Validate

LEMMA NumberCovered ==
  ASSUME NEW R, OK \in R, NEW reason \in R, NEW val
  PROVE  /\ \A min, max : ParseUint64Str(val, min, max, reason) \in R
         /\ ParseUint64(val, reason) \in R /\ ParseCoin(val, reason) \in R
         /\ ParseInt64Str(val, reason) \in R
BY DEF ParseUint64Str, ParseUint64, ParseCoin, ParseInt64Str, Validate

LEMMA EachUint64Covered ==
  ASSUME NEW R, OK \in R, NEW reason \in R, NEW s, IsSequence(s)
  PROVE  Verdict([i \in DOMAIN s |-> ParseUint64(s[i], reason)]) \in R
BY NumberCovered, VerdictCovered DEF IsSequence

LEMMA EachCoinCovered ==
  ASSUME NEW R, OK \in R, NEW reason \in R, NEW s, IsSequence(s)
  PROVE  Verdict([i \in DOMAIN s |-> ParseCoin(s[i], reason)]) \in R
BY NumberCovered, VerdictCovered DEF IsSequence

LEMMA NetworkCovered ==
  ASSUME NEW R, Covers(R), NEW network
  PROVE  ParseNetwork(network) \in R
<1>1. {"NETWORK_INVALID_PROTOCOL_MAGIC", "NETWORK_INVALID_NETWORK_ID"} \subseteq R /\ OK \in R
  BY DEF Covers, InvalidDataReason, Disputed
<1> QED BY <1>1, Among3 DEF ParseNetwork, ParseUint32, ParseUint8, Validate

LEMMA CredentialCovered ==
  ASSUME NEW R, OK \in R, NEW reason \in R, NEW credential, IsCredential(credential)
  PROVE  ParseCredential(credential, reason) \in R
BY DEF IsCredential, CredentialTypes, ParseCredential, ParseBIP32Path, ParseHexStringOfLength, Validate

LEMMA UrlCovered ==
  ASSUME NEW R, OK \in R, NEW reason \in R, NEW url
  PROVE  ParseUrl(url, reason) \in R
BY Among2 DEF ParseUrl, Validate

LEMMA AnchorCovered ==
  ASSUME NEW R, Covers(R), NEW anchor
  PROVE  ParseAnchor(anchor) \in R
<1>1. {"ANCHOR_INVALID_URL", "ANCHOR_INVALID_HASH"} \subseteq R /\ OK \in R
  BY DEF Covers, InvalidDataReason, Disputed
<1> QED BY <1>1, UrlCovered, Among2 DEF ParseAnchor, ParseHexStringOfLength, Validate

LEMMA AnchorsCovered ==
  ASSUME NEW R, Covers(R), NEW s, IsSequence(s)
  PROVE  Verdict([i \in DOMAIN s |-> ParseAnchor(s[i])]) \in R
BY AnchorCovered, VerdictCovered DEF IsSequence, Covers

LEMMA SpendingCovered ==
  ASSUME NEW R, Covers(R), NEW address, IsAddress(address)
  PROVE  ExtractSpending(address) \in R
<1>1. {"ADDRESS_INVALID_SPENDING_SCRIPT_HASH",
       "ADDRESS_INVALID_SPENDING_KEY_PATH"} \subseteq R /\ OK \in R
  BY DEF Covers, InvalidDataReason, Disputed
<1> QED BY <1>1, EachPathCovered, EachHashCovered, Among3 DEF ExtractSpending, IsAddress, Each, Validate

LEMMA PointerCovered ==
  ASSUME NEW R, Covers(R), NEW pointer, IsSequence(pointer)
  PROVE  ParsePointer(pointer) \in R
<1>1. {"ADDRESS_INVALID_BLOCKCHAIN_POINTER"} \subseteq R /\ OK \in R
  BY DEF Covers, InvalidDataReason, Disputed
<1> QED BY <1>1, EachUint32Covered DEF ParsePointer, Each

LEMMA PointersCovered ==
  ASSUME NEW R, Covers(R), NEW s, IsSequence(s), \A i \in DOMAIN s : IsSequence(s[i])
  PROVE  Verdict([i \in DOMAIN s |-> ParsePointer(s[i])]) \in R
BY PointerCovered, VerdictCovered DEF IsSequence, Covers

LEMMA StakingCovered ==
  ASSUME NEW R, Covers(R), NEW address, IsAddress(address)
  PROVE  ExtractStaking(address) \in R
<1>1. {"ADDRESS_INVALID_STAKING_INFO", "ADDRESS_INVALID_SPENDING_KEY_PATH",
       "ADDRESS_INVALID_STAKING_KEY_HASH",
       "ADDRESS_INVALID_STAKING_SCRIPT_HASH"} \subseteq R /\ OK \in R
  BY DEF Covers, InvalidDataReason, Disputed
<1>2. Verdict([i \in DOMAIN address.stakingPointer |-> ParsePointer(address.stakingPointer[i])]) \in R
  BY PointersCovered DEF IsAddress, AllOf
<1>3. Validate(Cardinality(StakingSources(address)) <= 1, "ADDRESS_INVALID_STAKING_INFO") \in R
  BY <1>1 DEF Validate
<1>4. /\ IsSequence(address.stakingPath) /\ IsSequence(address.stakingKeyHash)
      /\ IsSequence(address.stakingScriptHash)
  BY DEF IsAddress
<1>5. Verdict([i \in DOMAIN address.stakingPath |->
        ParseBIP32Path(address.stakingPath[i], "ADDRESS_INVALID_SPENDING_KEY_PATH")]) \in R
  BY <1>1, <1>4, EachPathCovered
<1>6. Verdict([i \in DOMAIN address.stakingKeyHash |->
        ParseHexStringOfLength(address.stakingKeyHash[i], KEY_HASH_LENGTH,
                               "ADDRESS_INVALID_STAKING_KEY_HASH")]) \in R
  BY <1>1, <1>4, EachHashCovered
<1>7. Verdict([i \in DOMAIN address.stakingScriptHash |->
        ParseHexStringOfLength(address.stakingScriptHash[i], SCRIPT_HASH_LENGTH,
                               "ADDRESS_INVALID_STAKING_SCRIPT_HASH")]) \in R
  BY <1>1, <1>4, EachHashCovered
<1> QED BY <1>1, <1>2, <1>3, <1>5, <1>6, <1>7, Among5 DEF ExtractStaking, Each

LEMMA AddressCovered ==
  ASSUME NEW R, Covers(R), NEW network, NEW address, IsAddress(address)
  PROVE  ParseAddress(network, address) \in R
<1>1. {"ADDRESS_INVALID_SPENDING_INFO", "ADDRESS_INVALID_STAKING_INFO",
       "ADDRESS_UNKNOWN_TYPE"} \subseteq R /\ OK \in R
  BY DEF Covers, InvalidDataReason, Disputed
<1>2. /\ ValidateSpending(address.type, SpendingSource(address)) \in R
      /\ ValidateStaking(address.type, StakingSource(address)) \in R
  BY <1>1 DEF ValidateSpending, ValidateStaking, Validate
<1> QED BY <1>1, NetworkCovered, SpendingCovered, StakingCovered, <1>2, Among5 DEF ParseAddress

LEMMA DestinationCovered ==
  ASSUME NEW R, Covers(R), NEW network, NEW destination, IsDestination(destination), NEW asOutput
  PROVE  ParseTxDestination(network, destination, asOutput) \in R
<1>1. {"OUTPUT_INVALID_ADDRESS", "OUTPUT_INVALID_ADDRESS_PARAMS",
       "ADDRESS_UNKNOWN_TYPE"} \subseteq R /\ OK \in R
  BY DEF Covers, InvalidDataReason, Disputed
<1> QED BY <1>1, AddressCovered, Among2
  DEF ParseTxDestination, IsDestination, ParseHexString, Validate

-----------------------------------------------------------------------------
\* Bundles, outputs and auxiliary data.
LEMMA TokenCovered ==
  ASSUME NEW R, Covers(R), "MULTIASSET_INVALID_TOKEN_AMOUNT" \in R, NEW token, NEW signed
  PROVE  ParseToken(token, signed) \in R
<1>1. "MULTIASSET_INVALID_ASSET_NAME" \in R /\ OK \in R
  BY DEF Covers, InvalidDataReason, Disputed
<1>2. ParseTokenAmount(token.amount, signed) \in R
  BY <1>1, NumberCovered DEF ParseTokenAmount
<1> QED BY <1>1, <1>2, Among3 DEF ParseToken, ParseHexString, Validate

LEMMA TokensCovered ==
  ASSUME NEW R, Covers(R), "MULTIASSET_INVALID_TOKEN_AMOUNT" \in R, NEW signed, NEW s, IsSequence(s)
  PROVE  Verdict([i \in DOMAIN s |-> ParseToken(s[i], signed)]) \in R
BY TokenCovered, VerdictCovered DEF IsSequence, Covers

\* The verdict on the tokens of a group is left open, for the amounts that are disputed.
LEMMA AssetGroupCovered ==
  ASSUME NEW R, Covers(R), NEW group, NEW signed,
         Verdict([i \in DOMAIN group.tokens.items |-> ParseToken(group.tokens.items[i], signed)]) \in R
  PROVE  ParseAssetGroup(group, signed) \in R
<1>1. {"MULTIASSET_INVALID_ASSET_GROUP_NOT_ARRAY", "MULTIASSET_INVALID_ASSET_GROUP_TOO_LARGE",
       "MULTIASSET_INVALID_ASSET_GROUP_EMPTY", "MULTIASSET_INVALID_POLICY_NAME",
       "MULTIASSET_INVALID_ASSET_GROUP_NOT_UNIQUE", "MULTIASSET_INVALID_ASSET_GROUP_ORDERING"} \subseteq R
      /\ OK \in R
  BY DEF Covers, InvalidDataReason, Disputed
<1>2. \A cond, reason : reason \in R => Validate(cond, reason) \in R
  BY <1>1 DEF Validate
<1> QED BY <1>1, <1>2, Among7 DEF ParseAssetGroup, ParseHexStringOfLength, Each

LEMMA AssetGroupsCovered ==
  ASSUME NEW R, Covers(R), "MULTIASSET_INVALID_TOKEN_AMOUNT" \in R, NEW signed,
         NEW group, IsAssetGroup(group)
  PROVE  ParseAssetGroup(group, signed) \in R
<1>1. IsSequence(group.tokens.items)
  BY DEF IsAssetGroup, ListOf, IsList
<1>2. Verdict([i \in DOMAIN group.tokens.items |-> ParseToken(group.tokens.items[i], signed)]) \in R
  BY <1>1, TokensCovered
<1> QED BY <1>2, AssetGroupCovered

LEMMA TokenBundleCovered ==
  ASSUME NEW R, Covers(R), NEW bundle, IsTokenBundle(bundle), NEW emptyAllowed, NEW signed,
         \A i \in DOMAIN bundle.items : ParseAssetGroup(bundle.items[i], signed) \in R
  PROVE  ParseTokenBundle(bundle, emptyAllowed, signed) \in R
<1>1. {"MULTIASSET_INVALID_TOKEN_BUNDLE_NOT_ARRAY", "MULTIASSET_INVALID_TOKEN_BUNDLE_TOO_LARGE",
       "MULTIASSET_INVALID_TOKEN_BUNDLE_EMPTY", "MULTIASSET_INVALID_TOKEN_BUNDLE_NOT_UNIQUE",
       "MULTIASSET_INVALID_TOKEN_BUNDLE_ORDERING"} \subseteq R /\ OK \in R
  BY DEF Covers, InvalidDataReason, Disputed
<1>2. \A cond, reason : reason \in R => Validate(cond, reason) \in R
  BY <1>1 DEF Validate
<1>3. IsSequence(bundle.items)
  BY DEF IsTokenBundle, ListOf, IsList
<1>4. Verdict([i \in DOMAIN bundle.items |-> ParseAssetGroup(bundle.items[i], signed)]) \in R
  BY <1>1, <1>3, VerdictCovered DEF IsSequence
<1> QED BY <1>1, <1>2, <1>4, Among6 DEF ParseTokenBundle, Each

LEMMA AnyBundleCovered ==
  ASSUME NEW R, Covers(R), "MULTIASSET_INVALID_TOKEN_AMOUNT" \in R, NEW bundle, IsTokenBundle(bundle),
         NEW emptyAllowed, NEW signed
  PROVE  ParseTokenBundle(bundle, emptyAllowed, signed) \in R
<1>1. \A i \in DOMAIN bundle.items : IsAssetGroup(bundle.items[i])
  BY DEF IsTokenBundle, ListOf
<1> QED BY <1>1, AssetGroupsCovered, TokenBundleCovered

LEMMA DatumsCovered ==
  ASSUME NEW R, Covers(R), NEW s, IsSequence(s)
  PROVE  Verdict([i \in DOMAIN s |-> ParseDatum(s[i])]) \in R
<1>1. {"OUTPUT_INVALID_INLINE_DATUM", "OUTPUT_INVALID_DATUM_HASH"} \subseteq R /\ OK \in R
  BY DEF Covers, InvalidDataReason, Disputed
<1>2. \A datum : ParseDatum(datum) \in R
  BY <1>1 DEF ParseDatum, ParseHexString, ParseHexStringOfLength, Validate
<1> QED BY <1>1, <1>2, VerdictCovered DEF IsSequence

LEMMA OutputCovered ==
  ASSUME NEW R, Covers(R), NEW network, NEW output, IsOutput(output),
         ParseTokenBundle(output.tokenBundle, TRUE, FALSE) \in R
  PROVE  ParseTxOutput(output, network) \in R
<1>1. {"OUTPUT_INVALID_AMOUNT", "OUTPUT_INVALID_REFERENCE_SCRIPT_HEX"} \subseteq R /\ OK \in R
  BY DEF Covers, InvalidDataReason, Disputed
<1>2. IsSequence(DatumOf(output)) /\ IsSequence(ReferenceScriptOf(output))
  <2>1. IsSequence(output.datum) /\ IsSequence(output.referenceScript)
    BY DEF IsOutput
  <2>2. IsSequence(<<>>)
    BY DEF IsSequence
  <2> QED BY <2>1, <2>2 DEF DatumOf, KnownDatum, ReferenceScriptOf
<1>3. Verdict([i \in DOMAIN DatumOf(output) |-> ParseDatum(DatumOf(output)[i])]) \in R
  BY <1>2, DatumsCovered
<1>4. Verdict([i \in DOMAIN ReferenceScriptOf(output) |->
        ParseHexString(ReferenceScriptOf(output)[i], "OUTPUT_INVALID_REFERENCE_SCRIPT_HEX")]) \in R
  BY <1>1, <1>2, EachHexCovered
<1> QED BY <1>1, <1>3, <1>4, NumberCovered, Among5, DestinationCovered DEF ParseTxOutput, Each, IsOutput

LEMMA DelegationCovered ==
  ASSUME NEW R, Covers(R), NEW delegation
  PROVE  ParseCVoteDelegation(delegation) \in R
<1>1. {"CVOTE_DELEGATION_INVALID_WEIGHT", "CVOTE_DELEGATION_INVALID_KEY",
       "CVOTE_DELEGATION_INVALID_PATH",
       "CVOTE_DELEGATION_UNKNOWN_DELEGATION_TYPE"} \subseteq R /\ OK \in R
  BY DEF Covers, InvalidDataReason, Disputed
<1> QED BY <1>1, Among2 DEF ParseCVoteDelegation, ParseUint32, ParseHexStringOfLength,
  ParseBIP32Path, Validate

LEMMA EachDelegationCovered ==
  ASSUME NEW R, Covers(R), NEW s, IsSequence(s)
  PROVE  Verdict([i \in DOMAIN s |-> ParseCVoteDelegation(s[i])]) \in R
BY DelegationCovered, VerdictCovered DEF IsSequence, Covers

LEMMA DelegationsCovered ==
  ASSUME NEW R, Covers(R), NEW delegations, IsList(delegations)
  PROVE  ParseCVoteDelegations(delegations) \in R
<1>1. {"CVOTE_REGISTRATION_DELEGATIONS_NOT_ARRAY"} \subseteq R /\ OK \in R
  BY DEF Covers, InvalidDataReason, Disputed
<1>2. Verdict([i \in DOMAIN delegations.items |-> ParseCVoteDelegation(delegations.items[i])]) \in R
  BY EachDelegationCovered DEF IsList
<1> QED BY <1>1, <1>2, Among2 DEF ParseCVoteDelegations, Each, Validate

LEMMA ListsOfDelegationsCovered ==
  ASSUME NEW R, Covers(R), NEW s, IsSequence(s), \A i \in DOMAIN s : IsList(s[i])
  PROVE  Verdict([i \in DOMAIN s |-> ParseCVoteDelegations(s[i])]) \in R
BY DelegationsCovered, VerdictCovered DEF IsSequence, Covers

LEMMA VoteKeyShapeCovered ==
  ASSUME NEW R, Covers(R), NEW params
  PROVE  VoteKeyShape(params) \in R
<1>1. {"CVOTE_REGISTRATION_INCONSISTENT_WITH_CIP15",
       "CVOTE_REGISTRATION_INCONSISTENT_WITH_CIP36", "CVOTE_REGISTRATION_BOTH_KEY_AND_PATH",
       "CVOTE_REGISTRATION_MISSING_VOTE_KEY",
       "CVOTE_DELEGATION_UNKNOWN_FORMAT"} \subseteq R /\ OK \in R
  BY DEF Covers, InvalidDataReason, Disputed
<1> QED BY <1>1, Among2 DEF VoteKeyShape, Validate

LEMMA RegistrationCovered ==
  ASSUME NEW R, Covers(R), NEW network, NEW params, IsRegistration36(params)
  PROVE  ParseCVoteRegistration(network, params) \in R
<1>1. {"CVOTE_REGISTRATION_INVALID_VOTE_KEY", "CVOTE_REGISTRATION_INVALID_VOTE_KEY_PATH",
       "CVOTE_REGISTRATION_INVALID_VOTING_PURPOSE",
       "CVOTE_REGISTRATION_INVALID_STAKING_KEY_PATH",
       "CVOTE_REGISTRATION_INVALID_NONCE"} \subseteq R /\ OK \in R
  BY DEF Covers, InvalidDataReason, Disputed
<1>2. /\ IsSequence(params.voteKey) /\ IsSequence(params.voteKeyPath)
      /\ IsSequence(params.votingPurpose) /\ IsDestination(params.paymentDestination)
  BY DEF IsRegistration36
<1>3. Verdict([i \in DOMAIN params.voteKey |->
        ParseHexStringOfLength(params.voteKey[i], CVOTE_PUBLIC_KEY_LENGTH,
                               "CVOTE_REGISTRATION_INVALID_VOTE_KEY")]) \in R
  BY <1>1, <1>2, EachHashCovered
<1>4. Verdict([i \in DOMAIN params.voteKeyPath |->
        ParseBIP32Path(params.voteKeyPath[i], "CVOTE_REGISTRATION_INVALID_VOTE_KEY_PATH")]) \in R
  BY <1>1, <1>2, EachPathCovered
<1>5. Verdict([i \in DOMAIN params.delegations |-> ParseCVoteDelegations(params.delegations[i])]) \in R
  BY ListsOfDelegationsCovered DEF IsRegistration36, AllOf
<1>6. Verdict([i \in DOMAIN params.votingPurpose |->
        ParseUint64(params.votingPurpose[i], "CVOTE_REGISTRATION_INVALID_VOTING_PURPOSE")]) \in R
  BY <1>1, <1>2, EachUint64Covered
<1>7. /\ ParseBIP32Path(params.stakingPath, "CVOTE_REGISTRATION_INVALID_STAKING_KEY_PATH") \in R
      /\ ParseTxDestination(network, params.paymentDestination, FALSE) \in R
      /\ ParseUint64(params.nonce, "CVOTE_REGISTRATION_INVALID_NONCE") \in R
  BY <1>1, <1>2, DestinationCovered, NumberCovered DEF ParseBIP32Path, Validate
<1> QED BY <1>1, <1>3, <1>4, <1>5, <1>6, <1>7, VoteKeyShapeCovered, Among8
  DEF ParseCVoteRegistration, Each

LEMMA AuxiliaryDataCovered ==
  ASSUME NEW R, Covers(R), NEW network, NEW auxiliaryData, IsAuxiliaryData(auxiliaryData)
  PROVE  ParseTxAuxiliaryData(network, auxiliaryData) \in R
<1>1. {"AUXILIARY_DATA_INVALID_HASH", "AUXILIARY_DATA_UNKNOWN_TYPE"} \subseteq R /\ OK \in R
  BY DEF Covers, InvalidDataReason, Disputed
<1> QED BY <1>1, RegistrationCovered DEF ParseTxAuxiliaryData, IsAuxiliaryData, ParseHexStringOfLength, Validate

-----------------------------------------------------------------------------
\* Pools and certificates.
LEMMA HeldCovered ==
  ASSUME NEW R, OK \in R, NEW held, NEW bytes, NEW a \in R, NEW b \in R, NEW c \in R
  PROVE  ParseHeld(held, bytes, a, b, c) \in R
BY DEF ParseHeld, ParseBIP32Path, ParseHexStringOfLength, Validate

LEMMA HoldersCovered ==
  ASSUME NEW R, Covers(R), NEW holder
  PROVE  {ParsePoolKey(holder), ParsePoolOwner(holder), ParseRewardAccount(holder)} \subseteq R /\ OK \in R
<1>1. {"POOL_KEY_INVALID_PATH", "POOL_KEY_INVALID_KEY_HASH", "POOL_KEY_INVALID_TYPE",
       "POOL_OWNER_INVALID_PATH", "POOL_OWNER_INVALID_KEY_HASH", "POOL_OWNER_INVALID_TYPE",
       "POOL_REWARD_ACCOUNT_INVALID_PATH", "POOL_REWARD_ACCOUNT_INVALID_HEX",
       "POOL_REWARD_ACCOUNT_INVALID_TYPE"} \subseteq R /\ OK \in R
  BY DEF Covers, InvalidDataReason, Disputed
<1> QED BY <1>1, HeldCovered DEF ParsePoolKey, ParsePoolOwner, ParseRewardAccount

LEMMA OwnersCovered ==
  ASSUME NEW R, Covers(R), NEW s, IsSequence(s)
  PROVE  Verdict([i \in DOMAIN s |-> ParsePoolOwner(s[i])]) \in R
BY HoldersCovered, VerdictCovered DEF IsSequence, Covers

LEMMA MarginCovered ==
  ASSUME NEW R, Covers(R), NEW margin
  PROVE  ParseMargin(margin) \in R
<1>1. {"POOL_REGISTRATION_INVALID_MARGIN_DENOMINATOR",
       "POOL_REGISTRATION_INVALID_MARGIN"} \subseteq R /\ OK \in R
  BY DEF Covers, InvalidDataReason, Disputed
<1> QED BY <1>1, NumberCovered, Among2 DEF ParseMargin

LEMMA RelayPartsCovered ==
  ASSUME NEW R, Covers(R), NEW part
  PROVE  {ParsePort(part), ParseIPv6(part), ParseDnsName(part)} \subseteq R /\ OK \in R
<1>1. {"RELAY_INVALID_PORT", "RELAY_INVALID_IPV6",
       "RELAY_INVALID_DNS"} \subseteq R /\ OK \in R
  BY DEF Covers, InvalidDataReason, Disputed
<1> QED BY <1>1, Among2 DEF ParsePort, ParseIPv6, ParseDnsName, Validate

LEMMA PortsCovered ==
  ASSUME NEW R, Covers(R), NEW s, IsSequence(s)
  PROVE  Verdict([i \in DOMAIN s |-> ParsePort(s[i])]) \in R
BY RelayPartsCovered, VerdictCovered DEF IsSequence, Covers

LEMMA IPv6Covered ==
  ASSUME NEW R, Covers(R), NEW s, IsSequence(s)
  PROVE  Verdict([i \in DOMAIN s |-> ParseIPv6(s[i])]) \in R
BY RelayPartsCovered, VerdictCovered DEF IsSequence, Covers

LEMMA IPv4Covered ==
  ASSUME NEW R, Covers(R), NEW parts, IsSequence(parts)
  PROVE  ParseIPv4(parts) \in R
<1>1. {"RELAY_INVALID_IPV4"} \subseteq R /\ OK \in R
  BY DEF Covers, InvalidDataReason, Disputed
<1>2. \A part : Validate(IsUint8(part), "RELAY_INVALID_IPV4") \in R
  BY <1>1 DEF Validate
<1>3. Verdict([i \in DOMAIN parts |-> Validate(IsUint8(parts[i]), "RELAY_INVALID_IPV4")]) \in R
  BY <1>1, <1>2, VerdictCovered DEF IsSequence
<1> QED BY <1>1, <1>3, Among2 DEF ParseIPv4, Each, Validate

LEMMA EachIPv4Covered ==
  ASSUME NEW R, Covers(R), NEW s, IsSequence(s), \A i \in DOMAIN s : IsSequence(s[i])
  PROVE  Verdict([i \in DOMAIN s |-> ParseIPv4(s[i])]) \in R
BY IPv4Covered, VerdictCovered DEF IsSequence, Covers

LEMMA RelayCovered ==
  ASSUME NEW R, Covers(R), NEW relay, IsRelay(relay)
  PROVE  ParsePoolRelay(relay) \in R
<1>1. {"RELAY_INVALID_TYPE"} \subseteq R /\ OK \in R
  BY DEF Covers, InvalidDataReason, Disputed
<1>2. ParseDnsName(relay.dnsName) \in R
  BY RelayPartsCovered
<1>3. relay.type \in {"SINGLE_HOST_IP_ADDR", "SINGLE_HOST_HOSTNAME"} =>
        Verdict([i \in DOMAIN relay.port |-> ParsePort(relay.port[i])]) \in R
  BY PortsCovered DEF IsRelay
<1>4. ASSUME relay.type = "SINGLE_HOST_IP_ADDR"
      PROVE  Verdict(<<Verdict([i \in DOMAIN relay.port |-> ParsePort(relay.port[i])]),
                       Verdict([i \in DOMAIN relay.ipv4 |-> ParseIPv4(relay.ipv4[i])]),
                       Verdict([i \in DOMAIN relay.ipv6 |-> ParseIPv6(relay.ipv6[i])])>>) \in R
  <2>1. IsSequence(relay.ipv4) /\ IsSequence(relay.ipv6) /\ \A i \in DOMAIN relay.ipv4 : IsSequence(relay.ipv4[i])
    BY <1>4 DEF IsRelay, AllOf
  <2>2. Verdict([i \in DOMAIN relay.ipv4 |-> ParseIPv4(relay.ipv4[i])]) \in R
    BY <2>1, EachIPv4Covered
  <2>3. Verdict([i \in DOMAIN relay.ipv6 |-> ParseIPv6(relay.ipv6[i])]) \in R
    BY <2>1, IPv6Covered
  <2> QED BY <1>1, <1>3, <1>4, <2>2, <2>3, Among3
<1>5. ASSUME relay.type = "SINGLE_HOST_HOSTNAME"
      PROVE  Verdict(<<Verdict([i \in DOMAIN relay.port |-> ParsePort(relay.port[i])]),
                       ParseDnsName(relay.dnsName)>>) \in R
  BY <1>1, <1>2, <1>3, <1>5, Among2
<1> QED BY <1>1, <1>2, <1>4, <1>5 DEF ParsePoolRelay, Each

LEMMA RelaysCovered ==
  ASSUME NEW R, Covers(R), NEW s, IsSequence(s), \A i \in DOMAIN s : IsRelay(s[i])
  PROVE  Verdict([i \in DOMAIN s |-> ParsePoolRelay(s[i])]) \in R
BY RelayCovered, VerdictCovered DEF IsSequence, Covers

LEMMA PoolMetadataCovered ==
  ASSUME NEW R, Covers(R), NEW metadata
  PROVE  ParsePoolMetadata(metadata) \in R
<1>1. {"POOL_REGISTRATION_METADATA_INVALID_URL",
       "POOL_REGISTRATION_METADATA_INVALID_HASH"} \subseteq R /\ OK \in R
  BY DEF Covers, InvalidDataReason, Disputed
<1> QED BY <1>1, UrlCovered, Among2 DEF ParsePoolMetadata, ParseHexStringOfLength, Validate

LEMMA EachMetadataCovered ==
  ASSUME NEW R, Covers(R), NEW s, IsSequence(s)
  PROVE  Verdict([i \in DOMAIN s |-> ParsePoolMetadata(s[i])]) \in R
BY PoolMetadataCovered, VerdictCovered DEF IsSequence, Covers

LEMMA PoolCovered ==
  ASSUME NEW R, Covers(R), NEW pool, IsPool(pool)
  PROVE  ParsePoolParams(pool) \in R
<1>1. {"POOL_REGISTRATION_INVALID_VRF_KEY_HASH", "POOL_REGISTRATION_INVALID_PLEDGE",
       "POOL_REGISTRATION_INVALID_COST", "POOL_REGISTRATION_OWNERS_TOO_MANY",
       "POOL_REGISTRATION_RELAYS_TOO_MANY"} \subseteq R /\ OK \in R
  BY DEF Covers, InvalidDataReason, Disputed
<1>2. \A cond, reason : reason \in R => Validate(cond, reason) \in R
  BY <1>1 DEF Validate
<1>3. /\ ParseHexStringOfLength(pool.vrfKeyHash, VRF_KEY_HASH_LENGTH,
                                "POOL_REGISTRATION_INVALID_VRF_KEY_HASH") \in R
      /\ ParseCoin(pool.pledge, "POOL_REGISTRATION_INVALID_PLEDGE") \in R
      /\ ParseCoin(pool.cost, "POOL_REGISTRATION_INVALID_COST") \in R
  BY <1>1, NumberCovered DEF ParseHexStringOfLength, Validate
<1>4. Verdict([i \in DOMAIN pool.owners |-> ParsePoolOwner(pool.owners[i])]) \in R
  BY OwnersCovered DEF IsPool
<1>5. Verdict([i \in DOMAIN pool.relays |-> ParsePoolRelay(pool.relays[i])]) \in R
  BY RelaysCovered DEF IsPool, AllOf
<1>6. Verdict([i \in DOMAIN pool.metadata |-> ParsePoolMetadata(pool.metadata[i])]) \in R
  BY EachMetadataCovered DEF IsPool
<1> QED BY <1>1, <1>2, <1>3, <1>4, <1>5, <1>6, MarginCovered, HoldersCovered, Among11 DEF ParsePoolParams, Each

LEMMA DRepCovered ==
  ASSUME NEW R, Covers(R), NEW dRep, IsDRep(dRep)
  PROVE  ParseDRep(dRep) \in R
<1>1. {"CERTIFICATE_INVALID_DREP"} \subseteq R /\ OK \in R
  BY DEF Covers, InvalidDataReason, Disputed
<1> QED BY <1>1, CredentialCovered
  DEF IsDRep, DRepKinds, IsCredential, CredentialTypes, ParseDRep

LEMMA StakeCertificateCovered ==
  ASSUME NEW R, Covers(R), NEW cert, IsCertificate(cert), cert.type \in StakeTypes
  PROVE  ParseStakeCertificate(cert) \in R
<1>1. {"CERTIFICATE_INVALID_STAKE_CREDENTIAL", "CERTIFICATE_INVALID_DEPOSIT",
       "CERTIFICATE_INVALID_POOL_KEY_HASH"} \subseteq R /\ OK \in R
  BY DEF Covers, InvalidDataReason, Disputed
<1>2. IsCredential(cert.credential)
  BY DEF IsCertificate
<1>3. cert.type = "VOTE_DELEGATION" => ParseDRep(cert.dRep) \in R
  BY DRepCovered DEF IsCertificate
<1> QED BY <1>1, <1>2, <1>3, CredentialCovered, NumberCovered, Among2
  DEF ParseStakeCertificate, ParseDeposit, ParseHexStringOfLength, Validate

LEMMA CommitteeCertificateCovered ==
  ASSUME NEW R, Covers(R), NEW cert, IsCertificate(cert), cert.type \in CommitteeTypes
  PROVE  ParseCommitteeCertificate(cert) \in R
<1>1. {"CERTIFICATE_INVALID_COMMITTEE_CREDENTIAL"} \subseteq R /\ OK \in R
  BY DEF Covers, InvalidDataReason, Disputed
<1>2. /\ IsCredential(cert.credential)
      /\ cert.type = "AUTHORIZE_COMMITTEE_HOT" => IsCredential(cert.hotCredential)
  BY DEF IsCertificate
<1>3. Verdict([i \in DOMAIN cert.anchor |-> ParseAnchor(cert.anchor[i])]) \in R
  BY AnchorsCovered DEF IsCertificate, Covers
<1> QED BY <1>1, <1>2, <1>3, CredentialCovered, Among2 DEF ParseCommitteeCertificate, Each

LEMMA DRepCertificateCovered ==
  ASSUME NEW R, Covers(R), NEW cert, IsCertificate(cert), cert.type \in DRepTypes
  PROVE  ParseDRepCertificate(cert) \in R
<1>1. {"CERTIFICATE_INVALID_DREP_CREDENTIAL",
       "CERTIFICATE_INVALID_DEPOSIT"} \subseteq R /\ OK \in R
  BY DEF Covers, InvalidDataReason, Disputed
<1>2. ParseCredential(cert.credential, "CERTIFICATE_INVALID_DREP_CREDENTIAL") \in R
  BY <1>1, CredentialCovered DEF IsCertificate
<1>3. Verdict([i \in DOMAIN cert.anchor |-> ParseAnchor(cert.anchor[i])]) \in R
  BY AnchorsCovered DEF IsCertificate, Covers
<1>4. ParseDeposit(cert.deposit) \in R
  BY <1>1, NumberCovered DEF ParseDeposit
<1> QED BY <1>1, <1>2, <1>3, <1>4, Among3 DEF ParseDRepCertificate, Each

LEMMA RetirementCovered ==
  ASSUME NEW R, Covers(R), NEW cert
  PROVE  ParseRetirement(cert) \in R
<1>1. {"CERTIFICATE_INVALID_PATH",
       "POOL_RETIREMENT_INVALID_RETIREMENT_EPOCH"} \subseteq R /\ OK \in R
  BY DEF Covers, InvalidDataReason, Disputed
<1> QED BY <1>1, NumberCovered, Among2 DEF ParseRetirement, ParseBIP32Path, Validate

LEMMA CertificateCovered ==
  ASSUME NEW R, Covers(R), NEW cert, IsCertificate(cert)
  PROVE  ParseCertificate(cert) \in R
<1>1. {"CERTIFICATE_INVALID_TYPE"} \subseteq R /\ OK \in R
  BY DEF Covers, InvalidDataReason, Disputed
<1>2. cert.type = "STAKE_POOL_REGISTRATION" => ParsePoolParams(cert.pool) \in R
  BY PoolCovered DEF IsCertificate
<1> QED BY <1>1, <1>2, StakeCertificateCovered, CommitteeCertificateCovered, DRepCertificateCovered,
  RetirementCovered DEF ParseCertificate

-----------------------------------------------------------------------------
\* The parts of a transaction.
LEMMA InputCovered ==
  ASSUME NEW R, Covers(R), NEW input, IsInput(input)
  PROVE  ParseTxInput(input) \in R
<1>1. {"INPUT_INVALID_TX_HASH", "INPUT_INVALID_UTXO_INDEX",
       "INPUT_INVALID_PATH"} \subseteq R /\ OK \in R
  BY DEF Covers, InvalidDataReason, Disputed
<1>2. Verdict([i \in DOMAIN input.path |-> ParseBIP32Path(input.path[i], "INPUT_INVALID_PATH")]) \in R
  BY <1>1, EachPathCovered DEF IsInput
<1> QED BY <1>1, <1>2, Among3 DEF ParseTxInput, Each, ParseUint32, ParseHexStringOfLength, Validate

LEMMA WithdrawalCovered ==
  ASSUME NEW R, Covers(R), NEW withdrawal, IsWithdrawal(withdrawal)
  PROVE  ParseWithdrawal(withdrawal) \in R
<1>1. {"WITHDRAWAL_INVALID_AMOUNT",
       "WITHDRAWAL_INVALID_STAKE_CREDENTIAL"} \subseteq R /\ OK \in R
  BY DEF Covers, InvalidDataReason, Disputed
<1> QED BY <1>1, NumberCovered, CredentialCovered, Among2 DEF ParseWithdrawal, IsWithdrawal

LEMMA SignerCovered ==
  ASSUME NEW R, Covers(R), NEW signer
  PROVE  ParseRequiredSigner(signer) \in R
<1>1. {"REQUIRED_SIGNER_INVALID_PATH", "VKEY_HASH_WRONG_LENGTH",
       "UNKNOWN_REQUIRED_SIGNER_TYPE"} \subseteq R /\ OK \in R
  BY DEF Covers, InvalidDataReason, Disputed
<1> QED BY <1>1 DEF ParseRequiredSigner, ParseBIP32Path, ParseHexStringOfLength, Validate

LEMMA VoteCovered ==
  ASSUME NEW R, Covers(R), NEW vote, IsVote(vote)
  PROVE  ParseVote(vote) \in R
<1>1. {"GOV_ACTION_ID_INVALID_TX_HASH", "GOV_ACTION_ID_INVALID_INDEX"} \subseteq R /\ OK \in R
  BY DEF Covers, InvalidDataReason, Disputed
<1>2. Verdict([i \in DOMAIN vote.anchor |-> ParseAnchor(vote.anchor[i])]) \in R
  BY AnchorsCovered DEF IsVote
<1> QED BY <1>1, <1>2, Among3 DEF ParseVote, Each, ParseUint32, ParseHexStringOfLength, Validate

LEMMA VotesCovered ==
  ASSUME NEW R, Covers(R), NEW s, IsSequence(s), \A i \in DOMAIN s : IsVote(s[i])
  PROVE  Verdict([i \in DOMAIN s |-> ParseVote(s[i])]) \in R
BY VoteCovered, VerdictCovered DEF IsSequence, Covers

LEMMA VoterCovered ==
  ASSUME NEW R, Covers(R), NEW voterVotes, IsVoterVotes(voterVotes)
  PROVE  ParseVoter(voterVotes.voter) \in R
<1>1. {"VOTER_INVALID"} \subseteq R /\ OK \in R
  BY DEF Covers, InvalidDataReason, Disputed
<1> QED BY <1>1
  DEF IsVoterVotes, ParseVoter, PathVoters, HashVoters, ScriptVoters, ParseBIP32Path,
      ParseHexStringOfLength, Validate

LEMMA VoterVotesCovered ==
  ASSUME NEW R, Covers(R), NEW voterVotes, IsVoterVotes(voterVotes)
  PROVE  ParseVoterVotes(voterVotes) \in R
<1>1. {"VOTER_VOTES_NOT_ARRAY"} \subseteq R /\ OK \in R
  BY DEF Covers, InvalidDataReason, Disputed
<1>2. Verdict([i \in DOMAIN voterVotes.votes.items |-> ParseVote(voterVotes.votes.items[i])]) \in R
  BY VotesCovered DEF IsVoterVotes, ListOf, IsList
<1> QED BY <1>1, <1>2, VoterCovered, Among3 DEF ParseVoterVotes, Each, Validate

LEMMA InputsCovered ==
  ASSUME NEW R, Covers(R), NEW s, IsSequence(s), \A i \in DOMAIN s : IsInput(s[i])
  PROVE  Verdict([i \in DOMAIN s |-> ParseTxInput(s[i])]) \in R
BY InputCovered, VerdictCovered DEF IsSequence, Covers

LEMMA WithdrawalsCovered ==
  ASSUME NEW R, Covers(R), NEW s, IsSequence(s), \A i \in DOMAIN s : IsWithdrawal(s[i])
  PROVE  Verdict([i \in DOMAIN s |-> ParseWithdrawal(s[i])]) \in R
BY WithdrawalCovered, VerdictCovered DEF IsSequence, Covers

LEMMA SignersCovered ==
  ASSUME NEW R, Covers(R), NEW s, IsSequence(s)
  PROVE  Verdict([i \in DOMAIN s |-> ParseRequiredSigner(s[i])]) \in R
BY SignerCovered, VerdictCovered DEF IsSequence, Covers

LEMMA AllVoterVotesCovered ==
  ASSUME NEW R, Covers(R), NEW s, IsSequence(s), \A i \in DOMAIN s : IsVoterVotes(s[i])
  PROVE  Verdict([i \in DOMAIN s |-> ParseVoterVotes(s[i])]) \in R
BY VoterVotesCovered, VerdictCovered DEF IsSequence, Covers

LEMMA CertificatesCovered ==
  ASSUME NEW R, Covers(R), NEW s, IsSequence(s), \A i \in DOMAIN s : IsCertificate(s[i])
  PROVE  Verdict([i \in DOMAIN s |-> ParseCertificate(s[i])]) \in R
BY CertificateCovered, VerdictCovered DEF IsSequence, Covers

LEMMA OutputsCovered ==
  ASSUME NEW R, Covers(R), NEW network, NEW s, IsSequence(s),
         \A i \in DOMAIN s : IsOutput(s[i]) /\ ParseTokenBundle(s[i].tokenBundle, TRUE, FALSE) \in R
  PROVE  Verdict([i \in DOMAIN s |-> ParseTxOutput(s[i], network)]) \in R
<1>1. ASSUME NEW i \in DOMAIN s PROVE ParseTxOutput(s[i], network) \in R
  BY OutputCovered
<1> QED BY <1>1, VerdictCovered DEF IsSequence, Covers

LEMMA AuxiliaryDatasCovered ==
  ASSUME NEW R, Covers(R), NEW network, NEW s, IsSequence(s), \A i \in DOMAIN s : IsAuxiliaryData(s[i])
  PROVE  Verdict([i \in DOMAIN s |-> ParseTxAuxiliaryData(network, s[i])]) \in R
BY AuxiliaryDataCovered, VerdictCovered DEF IsSequence, Covers

LEMMA CollateralOutputCovered ==
  ASSUME NEW R, Covers(R), NEW network, NEW output, IsOutput(output),
         ParseTokenBundle(output.tokenBundle, TRUE, FALSE) \in R
  PROVE  ParseCollateralOutput(output, network) \in R
<1>1. {"COLLATERAL_INPUT_CONTAINS_DATUM",
       "COLLATERAL_INPUT_CONTAINS_REFERENCE_SCRIPT"} \subseteq R /\ OK \in R
  BY DEF Covers, InvalidDataReason, Disputed
<1> QED BY <1>1, OutputCovered, Among3 DEF ParseCollateralOutput, Validate

LEMMA CollateralOutputsCovered ==
  ASSUME NEW R, Covers(R), NEW network, NEW s, IsSequence(s),
         \A i \in DOMAIN s : IsOutput(s[i]) /\ ParseTokenBundle(s[i].tokenBundle, TRUE, FALSE) \in R
  PROVE  Verdict([i \in DOMAIN s |-> ParseCollateralOutput(s[i], network)]) \in R
<1>1. ASSUME NEW i \in DOMAIN s PROVE ParseCollateralOutput(s[i], network) \in R
  BY CollateralOutputCovered
<1> QED BY <1>1, VerdictCovered DEF IsSequence, Covers

LEMMA DonationCovered ==
  ASSUME NEW R, Covers(R), NEW donation
  PROVE  ParseDonation(donation) \in R
<1>1. {"DONATION_NOT_VALID"} \subseteq R /\ OK \in R
  BY DEF Covers, InvalidDataReason, Disputed
<1> QED BY <1>1, NumberCovered DEF ParseDonation

LEMMA DonationsCovered ==
  ASSUME NEW R, Covers(R), NEW s, IsSequence(s)
  PROVE  Verdict([i \in DOMAIN s |-> ParseDonation(s[i])]) \in R
BY DonationCovered, VerdictCovered DEF IsSequence, Covers

LEMMA ProceduresCovered ==
  ASSUME NEW R, Covers(R), NEW procedures, ListOf(IsVoterVotes, procedures)
  PROVE  ParseVotingProcedures(procedures) \in R
<1>1. {"VOTING_PROCEDURES_NOT_ARRAY", "VOTING_PROCEDURES_INVALID_NUMBER_OF_VOTERS",
       "VOTING_PROCEDURES_INVALID_NUMBER_OF_VOTES"} \subseteq R /\ OK \in R
  BY DEF Covers, InvalidDataReason, Disputed
<1>2. \A cond, reason : reason \in R => Validate(cond, reason) \in R
  BY <1>1 DEF Validate
<1>3. Verdict([i \in DOMAIN procedures.items |-> ParseVoterVotes(procedures.items[i])]) \in R
  BY AllVoterVotesCovered DEF ListOf, IsList
<1> QED BY <1>1, <1>2, <1>3, Among2, Among3 DEF ParseVotingProcedures, ParseList, Each

\* A transaction, of which the fee and the tokens are left open.
TokensIn(tx, R) ==
  /\ \A i \in DOMAIN tx.mint : ParseTokenBundle(tx.mint[i], FALSE, TRUE) \in R
  /\ \A i \in DOMAIN tx.outputs.items :
       ParseTokenBundle(tx.outputs.items[i].tokenBundle, TRUE, FALSE) \in R
  /\ \A i \in DOMAIN tx.collateralOutput :
       ParseTokenBundle(tx.collateralOutput[i].tokenBundle, TRUE, FALSE) \in R

LEMMA TransactionCovered ==
  ASSUME NEW R, Covers(R), NEW tx, WellFormed(tx), TokensIn(tx, R),
         ParseCoin(tx.fee, "FEE_INVALID") \in R
  PROVE  ParseTransaction(tx) \in R
<1>1. {"INPUTS_NOT_ARRAY", "OUTPUTS_NOT_ARRAY", "TTL_INVALID", "CERTIFICATES_NOT_ARRAY",
       "WITHDRAWALS_NOT_ARRAY", "VALIDITY_INTERVAL_START_INVALID", "SCRIPT_DATA_HASH_WRONG_LENGTH",
       "COLLATERAL_INPUTS_NOT_ARRAY", "REQUIRED_SIGNERS_NOT_ARRAY", "NETWORK_ID_INCLUDE_INVALID",
       "TOTAL_COLLATERAL_NOT_VALID", "REFERENCE_INPUTS_NOT_ARRAY", "TREASURY_NOT_VALID"} \subseteq R
      /\ OK \in R
  BY DEF Covers, InvalidDataReason, Disputed
<1>2. /\ \A f \in ListParts : IsSequence(tx[f].items) /\ WellFormedList(f, tx[f])
      /\ \A f \in OptionalParts : IsSequence(tx[f]) /\ WellFormedOptional(f, tx[f])
  BY DEF WellFormed, WellFormedField, TransactionFields, WellFormedList, WellFormedOptional, IsList
<1>3. \A cond, reason : reason \in R => Validate(cond, reason) \in R
  BY <1>1 DEF Validate
<1>4. ASSUME NEW f \in {"inputs", "collateralInputs", "referenceInputs"}, NEW reason \in R
      PROVE  Verdict(<<Validate(IsArray(tx[f]), reason),
                       Verdict([i \in DOMAIN tx[f].items |-> ParseTxInput(tx[f].items[i])])>>) \in R
  <2>1. IsSequence(tx[f].items) /\ \A i \in DOMAIN tx[f].items : IsInput(tx[f].items[i])
    BY <1>2 DEF WellFormedList, ListOf, ListParts
  <2>2. Verdict([i \in DOMAIN tx[f].items |-> ParseTxInput(tx[f].items[i])]) \in R
    BY <2>1, InputsCovered
  <2> QED BY <1>1, <1>3, <2>2, Among2
<1>5. Verdict(<<Validate(IsArray(tx.outputs), "OUTPUTS_NOT_ARRAY"),
                Verdict([i \in DOMAIN tx.outputs.items |->
                           ParseTxOutput(tx.outputs.items[i], tx.network)])>>) \in R
  <2>1. IsSequence(tx.outputs.items) /\ \A i \in DOMAIN tx.outputs.items : IsOutput(tx.outputs.items[i])
    BY <1>2 DEF WellFormedList, ListOf, ListParts
  <2>2. Verdict([i \in DOMAIN tx.outputs.items |-> ParseTxOutput(tx.outputs.items[i], tx.network)]) \in R
    BY <2>1, OutputsCovered DEF TokensIn
  <2> QED BY <1>1, <1>3, <2>2, Among2
<1>6. Verdict(<<Validate(IsArray(tx.certificates), "CERTIFICATES_NOT_ARRAY"),
                Verdict([i \in DOMAIN tx.certificates.items |->
                           ParseCertificate(tx.certificates.items[i])])>>) \in R
  <2>1. /\ IsSequence(tx.certificates.items)
        /\ \A i \in DOMAIN tx.certificates.items : IsCertificate(tx.certificates.items[i])
    BY <1>2 DEF WellFormedList, ListOf, ListParts
  <2>2. Verdict([i \in DOMAIN tx.certificates.items |-> ParseCertificate(tx.certificates.items[i])]) \in R
    BY <2>1, CertificatesCovered
  <2> QED BY <1>1, <1>3, <2>2, Among2
<1>7. Verdict(<<Validate(IsArray(tx.withdrawals), "WITHDRAWALS_NOT_ARRAY"),
                Verdict([i \in DOMAIN tx.withdrawals.items |->
                           ParseWithdrawal(tx.withdrawals.items[i])])>>) \in R
  <2>1. /\ IsSequence(tx.withdrawals.items)
        /\ \A i \in DOMAIN tx.withdrawals.items : IsWithdrawal(tx.withdrawals.items[i])
    BY <1>2 DEF WellFormedList, ListOf, ListParts
  <2>2. Verdict([i \in DOMAIN tx.withdrawals.items |-> ParseWithdrawal(tx.withdrawals.items[i])]) \in R
    BY <2>1, WithdrawalsCovered
  <2> QED BY <1>1, <1>3, <2>2, Among2
<1>8. Verdict(<<Validate(IsArray(tx.requiredSigners), "REQUIRED_SIGNERS_NOT_ARRAY"),
                Verdict([i \in DOMAIN tx.requiredSigners.items |->
                           ParseRequiredSigner(tx.requiredSigners.items[i])])>>) \in R
  <2>1. IsSequence(tx.requiredSigners.items)
    BY <1>2 DEF ListParts
  <2>2. Verdict([i \in DOMAIN tx.requiredSigners.items |->
                   ParseRequiredSigner(tx.requiredSigners.items[i])]) \in R
    BY <2>1, SignersCovered
  <2> QED BY <1>1, <1>3, <2>2, Among2
<1>9. ParseVotingProcedures(tx.votingProcedures) \in R
  BY <1>2, ProceduresCovered DEF WellFormedList, ListParts
<1>10. Verdict([i \in DOMAIN tx.auxiliaryData |-> ParseTxAuxiliaryData(tx.network, tx.auxiliaryData[i])]) \in R
  <2>1. IsSequence(tx.auxiliaryData) /\ \A i \in DOMAIN tx.auxiliaryData : IsAuxiliaryData(tx.auxiliaryData[i])
    BY <1>2 DEF WellFormedOptional, AllOf, OptionalParts
  <2> QED BY <2>1, AuxiliaryDatasCovered
<1>11. Verdict([i \in DOMAIN tx.collateralOutput |-> ParseCollateralOutput(tx.collateralOutput[i], tx.network)]) \in R
  <2>1. IsSequence(tx.collateralOutput) /\ \A i \in DOMAIN tx.collateralOutput : IsOutput(tx.collateralOutput[i])
    BY <1>2 DEF WellFormedOptional, AllOf, OptionalParts
  <2> QED BY <2>1, CollateralOutputsCovered DEF TokensIn
<1>12. Verdict([i \in DOMAIN tx.mint |-> ParseTokenBundle(tx.mint[i], FALSE, TRUE)]) \in R
  <2>1. IsSequence(tx.mint)
    BY <1>2 DEF OptionalParts
  <2> DEFINE Minted(bundle) == ParseTokenBundle(bundle, FALSE, TRUE)
  <2>2. \A i \in DOMAIN tx.mint : Minted(tx.mint[i]) \in R
    BY DEF TokensIn
  <2> HIDE DEF Minted
  <2>3. Verdict([i \in DOMAIN tx.mint |-> Minted(tx.mint[i])]) \in R
    BY <1>1, <2>1, <2>2, VerdictCovered DEF IsSequence
  <2> QED BY <2>3 DEF Minted
<1>13. /\ Verdict([i \in DOMAIN tx.ttl |-> ParseUint64(tx.ttl[i], "TTL_INVALID")]) \in R
       /\ Verdict([i \in DOMAIN tx.validityIntervalStart |->
            ParseUint64(tx.validityIntervalStart[i], "VALIDITY_INTERVAL_START_INVALID")]) \in R
       /\ Verdict([i \in DOMAIN tx.totalCollateral |->
            ParseCoin(tx.totalCollateral[i], "TOTAL_COLLATERAL_NOT_VALID")]) \in R
       /\ Verdict([i \in DOMAIN tx.treasury |-> ParseCoin(tx.treasury[i], "TREASURY_NOT_VALID")]) \in R
       /\ Verdict([i \in DOMAIN tx.donation |-> ParseDonation(tx.donation[i])]) \in R
  <2>1. /\ IsSequence(tx.ttl) /\ IsSequence(tx.validityIntervalStart) /\ IsSequence(tx.totalCollateral)
        /\ IsSequence(tx.treasury) /\ IsSequence(tx.donation)
    BY <1>2 DEF OptionalParts
  <2> QED BY <1>1, <2>1, EachUint64Covered, EachCoinCovered, DonationsCovered
<1>14. Verdict([i \in DOMAIN tx.scriptDataHash |->
         ParseHexStringOfLength(tx.scriptDataHash[i], SCRIPT_DATA_HASH_LENGTH,
                                "SCRIPT_DATA_HASH_WRONG_LENGTH")]) \in R
  <2>1. IsSequence(tx.scriptDataHash)
    BY <1>2 DEF OptionalParts
  <2> QED BY <1>1, <2>1, EachHashCovered
<1>15. Verdict([i \in DOMAIN tx.includeNetworkId |->
         Validate(tx.includeNetworkId[i] \in {"true", "false"}, "NETWORK_ID_INCLUDE_INVALID")]) \in R
  <2>1. IsSequence(tx.includeNetworkId)
    BY <1>2 DEF OptionalParts
  <2> QED BY <1>1, <2>1, VerdictCovered DEF IsSequence, Validate
<1>16. /\ Verdict(<<Validate(IsArray(tx.inputs), "INPUTS_NOT_ARRAY"),
                    Verdict([i \in DOMAIN tx.inputs.items |-> ParseTxInput(tx.inputs.items[i])])>>) \in R
       /\ Verdict(<<Validate(IsArray(tx.collateralInputs), "COLLATERAL_INPUTS_NOT_ARRAY"),
                    Verdict([i \in DOMAIN tx.collateralInputs.items |->
                               ParseTxInput(tx.collateralInputs.items[i])])>>) \in R
       /\ Verdict(<<Validate(IsArray(tx.referenceInputs), "REFERENCE_INPUTS_NOT_ARRAY"),
                    Verdict([i \in DOMAIN tx.referenceInputs.items |->
                               ParseTxInput(tx.referenceInputs.items[i])])>>) \in R
  BY <1>1, <1>4
<1> QED
  BY <1>1, <1>5, <1>6, <1>7, <1>8, <1>9, <1>10, <1>11, <1>12, <1>13, <1>14, <1>15, <1>16,
     NetworkCovered, Among20 DEF ParseTransaction, ParseList, Each

-----------------------------------------------------------------------------
\* The signing modes and the request.
LEMMA NothingOfPlutusCovered ==
  ASSUME NEW R, Covers(R), NEW tx
  PROVE  NothingOfPlutus(tx) \in R
<1>1. {"COLLATERAL_INPUTS_NOT_ALLOWED", "COLLATERAL_OUTPUT_NOT_ALLOWED",
       "TOTAL_COLLATERAL_NOT_ALLOWED", "REFERENCE_INPUTS_NOT_ALLOWED"} \subseteq R /\ OK \in R
  BY DEF Covers, InvalidDataReason, Disputed
<1>2. \A cond, reason : reason \in R => Validate(cond, reason) \in R
  BY <1>1 DEF Validate
<1> QED BY <1>1, <1>2, Among4 DEF NothingOfPlutus

LEMMA OrdinaryModeCovered ==
  ASSUME NEW R, Covers(R), NEW tx
  PROVE  OrdinaryMode(tx) \in R
<1>1. {"POOL_REGISTRATION_NOT_ALLOWED", "CERTIFICATE_STAKE_CREDENTIAL_ONLY_AS_PATH",
       "CERTIFICATE_COMMITTEE_COLD_CREDENTIAL_ONLY_AS_PATH",
       "CERTIFICATE_DREP_CREDENTIAL_ONLY_AS_PATH", "WITHDRAWAL_ONLY_AS_PATH",
       "VOTER_ONLY_AS_PATH"} \subseteq R /\ OK \in R
  BY DEF Covers, InvalidDataReason, Disputed
<1>2. \A cond, reason : reason \in R => Validate(cond, reason) \in R
  BY <1>1 DEF Validate
<1> QED BY <1>1, <1>2, NothingOfPlutusCovered, Among7 DEF OrdinaryMode

LEMMA MultisigModeCovered ==
  ASSUME NEW R, Covers(R), NEW tx
  PROVE  MultisigMode(tx) \in R
<1>1. {"DEVICE_OWNED_ADDRESS_NOT_ALLOWED", "POOL_REGISTRATION_NOT_ALLOWED",
       "POOL_RETIREMENT_NOT_ALLOWED", "CERTIFICATE_CREDENTIAL_ONLY_AS_SCRIPT",
       "WITHDRAWAL_ONLY_AS_SCRIPT", "VOTER_ONLY_AS_SCRIPT"} \subseteq R /\ OK \in R
  BY DEF Covers, InvalidDataReason, Disputed
<1>2. \A cond, reason : reason \in R => Validate(cond, reason) \in R
  BY <1>1 DEF Validate
<1> QED BY <1>1, <1>2, NothingOfPlutusCovered, Among7 DEF MultisigMode

LEMMA PoolOutputsCovered ==
  ASSUME NEW R, Covers(R), NEW tx
  PROVE  PoolOutputs(tx) \in R
<1>1. {"DATUM_NOT_ALLOWED", "REFERENCE_SCRIPT_NOT_ALLOWED"} \subseteq R /\ OK \in R
  BY DEF Covers, InvalidDataReason, Disputed
<1>2. \A cond, reason : reason \in R => Validate(cond, reason) \in R
  BY <1>1 DEF Validate
<1> QED BY <1>1, <1>2, Among2 DEF PoolOutputs

LEMMA PoolForbidsCovered ==
  ASSUME NEW R, Covers(R), NEW tx
  PROVE  PoolForbids(tx) \in R
<1>1. {"WITHDRAWALS_NOT_ALLOWED", "MINT_NOT_ALLOWED", "SCRIPT_DATA_HASH_NOT_ALLOWED",
       "COLLATERAL_INPUTS_NOT_ALLOWED", "REQUIRED_SIGNERS_NOT_ALLOWED",
       "COLLATERAL_OUTPUT_NOT_ALLOWED", "TOTAL_COLLATERAL_NOT_ALLOWED",
       "REFERENCE_INPUTS_NOT_ALLOWED", "VOTING_PROCEDURES_NOT_ALLOWED",
       "TREASURY_NOT_ALLOWED", "DONATION_NOT_ALLOWED"} \subseteq R /\ OK \in R
  BY DEF Covers, InvalidDataReason, Disputed
<1>2. \A cond, reason : reason \in R => Validate(cond, reason) \in R
  BY <1>1 DEF Validate
<1> DEFINE c1 == Validate(IsEmpty(tx.withdrawals), "WITHDRAWALS_NOT_ALLOWED")
           c2 == Validate(~Given(tx.mint), "MINT_NOT_ALLOWED")
           c3 == Validate(~Given(tx.scriptDataHash), "SCRIPT_DATA_HASH_NOT_ALLOWED")
           c4 == Validate(IsEmpty(tx.collateralInputs), "COLLATERAL_INPUTS_NOT_ALLOWED")
           c5 == Validate(IsEmpty(tx.requiredSigners), "REQUIRED_SIGNERS_NOT_ALLOWED")
           c6 == Validate(~Given(tx.collateralOutput), "COLLATERAL_OUTPUT_NOT_ALLOWED")
           c7 == Validate(~Given(tx.totalCollateral), "TOTAL_COLLATERAL_NOT_ALLOWED")
           c8 == Validate(IsEmpty(tx.referenceInputs), "REFERENCE_INPUTS_NOT_ALLOWED")
           c9 == Validate(IsEmpty(tx.votingProcedures), "VOTING_PROCEDURES_NOT_ALLOWED")
           c10 == Validate(~Given(tx.treasury), "TREASURY_NOT_ALLOWED")
           c11 == Validate(~Given(tx.donation), "DONATION_NOT_ALLOWED")
<1>3. /\ c1 \in R /\ c2 \in R /\ c3 \in R /\ c4 \in R /\ c5 \in R /\ c6 \in R /\ c7 \in R
      /\ c8 \in R /\ c9 \in R /\ c10 \in R /\ c11 \in R
  BY <1>1, <1>2
<1>4. PoolForbids(tx) = Verdict(<<c1, c2, c3, c4, c5, c6, c7, c8, c9, c10, c11>>)
  BY DEF PoolForbids
<1> HIDE DEF c1, c2, c3, c4, c5, c6, c7, c8, c9, c10, c11
<1>5. Verdict(<<c1, c2, c3, c4, c5, c6, c7, c8, c9, c10, c11>>) \in R
  BY <1>1, <1>3, Among11
<1> QED BY <1>4, <1>5

LEMMA PoolCertificateCovered ==
  ASSUME NEW R, Covers(R), NEW tx, NEW holder, NEW owners, NEW keyReason \in R, NEW ownersReason \in R
  PROVE  SinglePoolCertificate(tx, holder, owners, keyReason, ownersReason) \in R
<1>1. {"SINGLE_POOL_REG_CERTIFICATE_REQUIRED"} \subseteq R /\ OK \in R
  BY DEF Covers, InvalidDataReason, Disputed
<1>2. \A cond, reason : reason \in R => Validate(cond, reason) \in R
  BY <1>1 DEF Validate
<1> QED BY <1>1, <1>2, Among2 DEF SinglePoolCertificate, ParsePoolCertificate

LEMMA OwnerModeCovered ==
  ASSUME NEW R, Covers(R), NEW tx
  PROVE  OwnerMode(tx) \in R
<1>1. {"INPUT_WITH_PATH_NOT_ALLOWED", "DEVICE_OWNED_ADDRESS_NOT_ALLOWED",
       "THIRD_PARTY_POOL_KEY_REQUIRED",
       "SINGLE_DEVICE_OWNER_REQUIRED"} \subseteq R /\ OK \in R
  BY DEF Covers, InvalidDataReason, Disputed
<1>2. \A cond, reason : reason \in R => Validate(cond, reason) \in R
  BY <1>1 DEF Validate
<1> QED BY <1>1, <1>2, PoolOutputsCovered, PoolCertificateCovered, PoolForbidsCovered, Among5 DEF OwnerMode

LEMMA OperatorModeCovered ==
  ASSUME NEW R, Covers(R), NEW tx
  PROVE  OperatorMode(tx) \in R
<1>1. {"DEVICE_OWNED_POOL_KEY_REQUIRED",
       "DEVICE_OWNED_POOL_OWNER_NOT_ALLOWED"} \subseteq R /\ OK \in R
  BY DEF Covers, InvalidDataReason, Disputed
<1> QED BY <1>1, PoolOutputsCovered, PoolCertificateCovered, PoolForbidsCovered, Among3 DEF OperatorMode

LEMMA PlutusModeCovered ==
  ASSUME NEW R, Covers(R), NEW tx
  PROVE  PlutusMode(tx) \in R
<1>1. {"POOL_REGISTRATION_NOT_ALLOWED"} \subseteq R /\ OK \in R
  BY DEF Covers, InvalidDataReason, Disputed
<1> QED BY <1>1 DEF PlutusMode, Validate

LEMMA SignCovered ==
  ASSUME NEW R, Covers(R), NEW r, WellFormed(r.tx), IsList(r.additionalWitnessPaths),
         TokensIn(r.tx, R), ParseCoin(r.tx.fee, "FEE_INVALID") \in R
  PROVE  ParseSignTransactionRequest(r) \in R
<1>1. {"SIGN_MODE_UNKNOWN", "INVALID_PATH", "ADDITIONAL_WITNESSES_NOT_ARRAY"} \subseteq R /\ OK \in R
  BY DEF Covers, InvalidDataReason, Disputed
<1>2. \A cond, reason : reason \in R => Validate(cond, reason) \in R
  BY <1>1 DEF Validate
<1> DEFINE paths == Verdict(<<Validate(IsArray(r.additionalWitnessPaths), "ADDITIONAL_WITNESSES_NOT_ARRAY"),
                              Verdict([i \in DOMAIN r.additionalWitnessPaths.items |->
                                         ParseBIP32Path(r.additionalWitnessPaths.items[i], "INVALID_PATH")])>>)
           known == Validate(r.signingMode \in SigningModes, "SIGN_MODE_UNKNOWN")
           parsed == Verdict(<<ParseTransaction(r.tx), known, paths>>)
<1>3. ParseSignTransactionRequest(r) = IF parsed = OK THEN ModeVerdict(r.signingMode, r.tx) ELSE parsed
  BY DEF ParseSignTransactionRequest, ParseList, Each
<1>4. Verdict([i \in DOMAIN r.additionalWitnessPaths.items |->
                 ParseBIP32Path(r.additionalWitnessPaths.items[i], "INVALID_PATH")]) \in R
  BY <1>1, EachPathCovered DEF IsList
<1>5. paths \in R /\ known \in R
  BY <1>1, <1>2, <1>4, Among2
<1> HIDE DEF paths
<1>6. parsed \in R
  BY <1>1, <1>5, TransactionCovered, Among3
<1>7. ASSUME parsed = OK PROVE ModeVerdict(r.signingMode, r.tx) \in R
  <2>1. known = OK
    BY <1>7, Checks3
  <2>2. r.signingMode \in SigningModes
    BY <2>1 DEF Validate, OK
  <2> QED BY <2>2, OrdinaryModeCovered, MultisigModeCovered, OwnerModeCovered, OperatorModeCovered,
             PlutusModeCovered DEF ModeVerdict, SigningModes
<1> QED BY <1>3, <1>6, <1>7

-----------------------------------------------------------------------------
\* The other requests.
LEMMA MessageCovered ==
  ASSUME NEW R, Covers(R), NEW data, IsMessage(data)
  PROVE  ParseMessageData(data) \in R
<1>1. {"MESSAGE_DATA_INVALID_WITNESS_PATH",
       "MESSAGE_DATA_INVALID_MESSAGE_HEX"} \subseteq R /\ OK \in R
  BY DEF Covers, InvalidDataReason, Disputed
<1> QED BY <1>1, AddressCovered, Among3 DEF ParseMessageData, IsMessage, ParseBIP32Path, ParseHexString, Validate

LEMMA VoteRequestCovered ==
  ASSUME NEW R, Covers(R), NEW cVote
  PROVE  ParseCVote(cVote) \in R
<1>1. {"CVOTE_INVALID_VOTECAST_DATA", "CVOTE_INVALID_WITNESS"} \subseteq R /\ OK \in R
  BY DEF Covers, InvalidDataReason, Disputed
<1> QED BY <1>1, Among3 DEF ParseCVote, ParseBIP32Path, ParseHexString, Validate

LEMMA OperationalCertificateCovered ==
  ASSUME NEW R, Covers(R), NEW certificate
  PROVE  ParseOperationalCertificate(certificate) \in R
<1>1. {"OPERATIONAL_CERTIFICATE_INVALID_KES_KEY",
       "OPERATIONAL_CERTIFICATE_INVALID_KES_PERIOD",
       "OPERATIONAL_CERTIFICATE_INVALID_ISSUE_COUNTER",
       "OPERATIONAL_CERTIFICATE_INVALID_COLD_KEY_PATH"} \subseteq R /\ OK \in R
  BY DEF Covers, InvalidDataReason, Disputed
<1> QED BY <1>1, NumberCovered, Among4
  DEF ParseOperationalCertificate, ParseBIP32Path, ParseHexStringOfLength, Validate

LEMMA ScriptNodeCovered ==
  ASSUME NEW R, Covers(R), NEW node, IsScriptNode(node)
  PROVE  ParseScriptNode(node) \in R
<1>1. {"UNKNOWN_TYPE", "INVALID_DATA", "INVALID_KEY_PATH", "INVALID_KEY_HASH",
       "SCRIPTS_NOT_AN_ARRAY", "INVALID_REQUIRED_COUNT",
       "REQUIRED_COUNT_HIGHER_THAN_NUMBER_OF_SCRIPTS",
       "INVALID_TOKEN_LOCKING_SLOT"} \subseteq R /\ OK \in R
  BY DEF Covers, InvalidDataReason, Disputed
<1>2. /\ IsSequence(node.path) /\ IsSequence(node.keyHash) /\ IsSequence(node.requiredCount)
      /\ IsSequence(node.slot) /\ IsSequence(node.scripts)
  BY DEF IsScriptNode
<1>3. Verdict([i \in DOMAIN node.path |-> ParseBIP32Path(node.path[i], "INVALID_KEY_PATH")]) \in R
  BY <1>1, <1>2, EachPathCovered
<1>4. Verdict([i \in DOMAIN node.keyHash |->
         ParseHexStringOfLength(node.keyHash[i], KEY_HASH_LENGTH, "INVALID_KEY_HASH")]) \in R
  BY <1>1, <1>2, EachHashCovered
<1>5. Verdict([i \in DOMAIN node.slot |-> ParseUint64(node.slot[i], "INVALID_TOKEN_LOCKING_SLOT")]) \in R
  BY <1>1, <1>2, EachUint64Covered
<1>6. ParseScripts(node) \in R
  <2>1. Verdict([i \in DOMAIN node.scripts |->
                   Validate(IsArray(node.scripts[i]), "SCRIPTS_NOT_AN_ARRAY")]) \in R
    BY <1>1, <1>2, VerdictCovered DEF IsSequence, Validate
  <2> QED BY <1>1, <2>1 DEF ParseScripts, Parameter, Each
<1>7. ParseRequiredCount(node) \in R
  <2>1. Verdict([i \in DOMAIN node.requiredCount |->
                   ParseUint32(node.requiredCount[i].width, "INVALID_REQUIRED_COUNT")]) \in R
    BY <1>1, <1>2, VerdictCovered DEF IsSequence, ParseUint32, Validate
  <2> DEFINE enough == \A count \in Range(node.requiredCount), scripts \in Range(node.scripts) :
                         count.value <= Len(scripts.items)
             fits == Validate(enough, "REQUIRED_COUNT_HIGHER_THAN_NUMBER_OF_SCRIPTS")
             count32 == IF Given(node.requiredCount)
                        THEN Verdict([i \in DOMAIN node.requiredCount |->
                               ParseUint32(node.requiredCount[i].width, "INVALID_REQUIRED_COUNT")])
                        ELSE "INVALID_REQUIRED_COUNT"
  <2>2. fits \in R
    <3> HIDE DEF enough
    <3> QED BY <1>1 DEF Validate
  <2>3. count32 \in R
    BY <1>1, <2>1
  <2>4. ParseRequiredCount(node) = Verdict(<<ParseScripts(node), count32, fits>>)
    BY DEF ParseRequiredCount, Parameter, Each
  <2> HIDE DEF fits, count32
  <2> QED BY <1>1, <1>6, <2>2, <2>3, <2>4, Among3
<1> QED BY <1>1, <1>3, <1>4, <1>5, <1>6, <1>7 DEF ParseScriptNode, Parameter, Each

LEMMA NodesCovered ==
  ASSUME NEW R, Covers(R), NEW s, IsSequence(s), \A i \in DOMAIN s : IsScriptNode(s[i])
  PROVE  Verdict([i \in DOMAIN s |-> ParseScriptNode(s[i])]) \in R
BY ScriptNodeCovered, VerdictCovered DEF IsSequence, Covers

LEMMA ScriptCovered ==
  ASSUME NEW R, Covers(R), NEW script, IsNativeScript(script), NEW format
  PROVE  Verdict(<<ParseNativeScript(script), ParseDisplayFormat(format)>>) \in R
<1>1. {"INVALID_DISPLAY_FORMAT"} \subseteq R /\ OK \in R
  BY DEF Covers, InvalidDataReason, Disputed
<1>2. Verdict([i \in DOMAIN script |-> ParseScriptNode(script[i])]) \in R
  BY NodesCovered DEF IsNativeScript, AllOf
<1> QED BY <1>1, <1>2, Among2 DEF ParseNativeScript, ParseDisplayFormat, Each, Validate

LEMMA KeyPathsCovered ==
  ASSUME NEW R, Covers(R), KeystoneRefusals \subseteq R, NEW paths, IsList(paths)
  PROVE  ParseKeyPaths(paths) \in R
<1>1. {"GET_EXT_PUB_KEY_PATHS_NOT_ARRAY", "INVALID_PATH"} \subseteq R /\ OK \in R
  BY DEF Covers, InvalidDataReason, Disputed
<1>2. \A path : ParseKeyPath(path) \in R
  BY <1>1, Among2 DEF ParseKeyPath, Validate, KeystoneRefusals
<1>3. Verdict([i \in DOMAIN paths.items |-> ParseKeyPath(paths.items[i])]) \in R
  BY <1>1, <1>2, VerdictCovered DEF IsList, IsSequence
<1>4. Verdict([i \in DOMAIN paths.items |-> ParseBIP32Path(paths.items[i], "INVALID_PATH")]) \in R
  BY <1>1, EachPathCovered DEF IsList
<1> QED BY <1>1, <1>3, <1>4, Among3 DEF ParseKeyPaths, Each, Validate
=============================================================================
