-------------------------- MODULE AdaRequestProofs --------------------------
(***************************************************************************)
(* Theorems about AdaRequest: what the acceptance of a transaction means   *)
(* in each signing mode, for every transaction.                            *)
(***************************************************************************)
EXTENDS AdaRequest, AdaParserProofs, FiniteSetTheorems, SequenceTheorems

(***************************************************************************)
(* The invariant: the lists of the transaction are lists, and the verdict  *)
(* is the parser's.                                                        *)
(***************************************************************************)
SignVerdict(r) ==
  LET parsed == ParseSignTransactionRequest(r)
  IN IF parsed = OK /\ r.signingMode = "MULTISIG_TRANSACTION"
     THEN "Keystone 3 Pro does not support multisig transaction" ELSE parsed
VerdictRight ==
  method = "signTransaction" =>
    /\ request = RequestOf(request.tx, request.signingMode, request.additionalWitnessPaths)
    /\ WellFormed(request.tx)
    /\ verdict = Unread \/ verdict = SignVerdict(request)

LEMMA ReplacedWellFormed ==
  ASSUME NEW tx, WellFormed(tx), NEW f, NEW v, WellFormedField(f, v)
  PROVE  WellFormed([tx EXCEPT ![f] = v])
BY DEF WellFormed

LEMMA InitRight == Init => VerdictRight
<1> SUFFICES ASSUME Init, method = "signTransaction"
             PROVE  /\ request = RequestOf(request.tx, request.signingMode, request.additionalWitnessPaths)
                    /\ WellFormed(request.tx)
  BY DEF Init, VerdictRight
<1>1. AnyTransaction
  BY DEF Init
<1>2. PICK base \in Bases, mode \in SigningModes \cup {"unknown"}, paths \in WitnessPaths :
        \/ \E f, g \in DOMAIN Alternatives : \E v \in Alternatives[f], w \in Alternatives[g] :
             request = RequestOf([base EXCEPT ![f] = v, ![g] = w], mode, paths)
        \/ \E f \in DOMAIN Singles : \E v \in Singles[f] :
             request = RequestOf([base EXCEPT ![f] = v], mode, paths)
  BY <1>1 DEF AnyTransaction
<1>3. WellFormed(base)
  BY TypesAssumption
<1>4. ASSUME NEW f \in DOMAIN Singles, NEW v \in Singles[f],
             request = RequestOf([base EXCEPT ![f] = v], mode, paths)
      PROVE  WellFormed(request.tx)
  <2>1. WellFormedField(f, v)
    BY TypesAssumption DEF WellFormedValues
  <2>2. request.tx = [base EXCEPT ![f] = v]
    BY <1>4 DEF RequestOf
  <2> QED BY <1>3, <2>1, <2>2, ReplacedWellFormed
<1>5. ASSUME NEW f \in DOMAIN Alternatives, NEW g \in DOMAIN Alternatives,
             NEW v \in Alternatives[f], NEW w \in Alternatives[g],
             request = RequestOf([base EXCEPT ![f] = v, ![g] = w], mode, paths)
      PROVE  WellFormed(request.tx)
  <2>1. WellFormedField(f, v) /\ WellFormedField(g, w)
    BY TypesAssumption DEF WellFormedValues
  <2> DEFINE once == [base EXCEPT ![f] = v]
  <2>2. WellFormed(once)
    BY <1>3, <2>1, ReplacedWellFormed
  <2>3. request.tx = [once EXCEPT ![g] = w]
    BY <1>5 DEF RequestOf
  <2> HIDE DEF once
  <2> QED BY <2>1, <2>2, <2>3, ReplacedWellFormed
<1>6. request = RequestOf(request.tx, request.signingMode, request.additionalWitnessPaths)
  BY <1>2 DEF RequestOf
<1> QED BY <1>2, <1>4, <1>5, <1>6

LEMMA NextRight == VerdictRight /\ [Next]_vars => VerdictRight'
<1> SUFFICES ASSUME VerdictRight, [Next]_vars, method' = "signTransaction" PROVE VerdictRight'
  BY DEF VerdictRight
<1>1. method' = method /\ request' = request
  BY DEF Next, Parse, SignTransaction, SignMessage, SignCIP36Vote, SignOperationalCertificate,
     DeriveNativeScriptHash, ShowAddress, DeriveAddress, GetExtendedPublicKeys, vars
<1>2. verdict' = verdict \/ verdict' = SignVerdict(request)
  <2>1. CASE UNCHANGED vars
    BY <2>1 DEF vars
  <2>2. CASE SignTransaction
    BY <2>2 DEF SignTransaction, Parse, SignVerdict
  <2>3. CASE Next /\ ~SignTransaction
    BY <1>1, <2>3 DEF Next, Parse, SignMessage, SignCIP36Vote, SignOperationalCertificate,
       DeriveNativeScriptHash, ShowAddress, DeriveAddress, GetExtendedPublicKeys
  <2> QED BY <2>1, <2>2, <2>3
<1>3. SignVerdict(request)' = SignVerdict(request) /\ WellFormed(request.tx)' = WellFormed(request.tx)
  BY <1>1
<1> QED BY <1>1, <1>2, <1>3 DEF VerdictRight

LEMMA AlwaysRight == Spec => []VerdictRight
BY InitRight, NextRight, PTL DEF Spec

LEMMA AcceptedParses ==
  ASSUME VerdictRight, Accepted
  PROVE  /\ WellFormed(Tx) /\ ParseSignTransactionRequest(request) = OK
         /\ request.signingMode # "MULTISIG_TRANSACTION"
BY DEF VerdictRight, Accepted, Signing, SignVerdict, OK, Unread, Tx

(***************************************************************************)
(* The theorems.                                                           *)
(***************************************************************************)
\* Whatever transaction is accepted in the ordinary mode names a path of the device for
\* every certificate, withdrawal and vote, and whatever passes the multisig mode a script
\* for each (transaction.ts 543-660).
THEOREM SignersByMode == Spec => []ModeDecidesWhoSigns
<1>1. ASSUME NEW kind, NEW tx, WellFormed(tx), ParseTransaction(tx) = OK,
             CredentialsAs(tx, StakeTypes \cup CommitteeTypes \cup DRepTypes, kind),
             WithdrawalsAs(tx, kind)
      PROVE  Credentials(tx) \subseteq {kind}
  <2>1. \A c \in Elements(tx.certificates) : c.type \notin PoolTypes => c.credential.type = kind
    BY <1>1, CertificatesKnown DEF CertificateTypes, CredentialsAs
  <2> QED BY <1>1, <2>1 DEF Credentials, WithdrawalsAs
<1>2. ASSUME NEW tx, NEW types, VotersAs(tx, types)
      PROVE  Voters(tx) \subseteq types
  BY <1>2 DEF Voters, VotersAs
<1>3. ASSUME VerdictRight, Accepted, Mode("ORDINARY_TRANSACTION")
      PROVE  Credentials(Tx) \subseteq {"KEY_PATH"} /\ Voters(Tx) \subseteq PathVoters
  <2>1. WellFormed(Tx) /\ ParseTransaction(Tx) = OK /\ OrdinaryMode(Tx) = OK
    BY <1>3, AcceptedParses, Accepts DEF ModeVerdict, Mode, Tx
  <2>2. /\ CredentialsAs(Tx, StakeTypes \cup CommitteeTypes \cup DRepTypes, "KEY_PATH")
        /\ WithdrawalsAs(Tx, "KEY_PATH") /\ VotersAs(Tx, PathVoters)
    BY <2>1, OrdinaryAccepts DEF CredentialsAs
  <2> QED BY <1>1, <1>2, <2>1, <2>2
<1>4. ASSUME VerdictRight, Signing, Mode("MULTISIG_TRANSACTION"), ParseSignTransactionRequest(request) = OK
      PROVE  Credentials(Tx) \subseteq {"SCRIPT_HASH"} /\ Voters(Tx) \subseteq ScriptVoters
  <2>1. WellFormed(Tx) /\ ParseTransaction(Tx) = OK /\ MultisigMode(Tx) = OK
    BY <1>4, Accepts DEF VerdictRight, Signing, ModeVerdict, Mode, Tx
  <2> QED BY <1>1, <1>2, <2>1, MultisigAccepts
<1>5. VerdictRight => ModeDecidesWhoSigns
  BY <1>3, <1>4 DEF ModeDecidesWhoSigns
<1> QED BY <1>5, AlwaysRight, PTL

\* No transaction with a pool registration is accepted in two modes: the role of the
\* signer follows from the transaction (transaction.ts 672-789).
THEOREM OneModeForAPool == Spec => []PoolModesExclusive
<1> DEFINE Registers(tx) == ~NoCertificateOf(tx, {"STAKE_POOL_REGISTRATION"})
           Owns(tx) == Pool(tx).poolKey.type = "THIRD_PARTY"
           Operates(tx) == Pool(tx).poolKey.type = "DEVICE_OWNED"
<1>1. ASSUME NEW r, ParseSignTransactionRequest(r) = OK, Registers(r.tx),
             r.signingMode # "MULTISIG_TRANSACTION"
      PROVE  \/ r.signingMode = "POOL_REGISTRATION_AS_OWNER" /\ Owns(r.tx)
             \/ r.signingMode = "POOL_REGISTRATION_AS_OPERATOR" /\ Operates(r.tx)
  <2>1. r.signingMode \in SigningModes /\ ModeVerdict(r.signingMode, r.tx) = OK
    BY <1>1, Accepts
  <2>2. r.signingMode # "ORDINARY_TRANSACTION"
    BY <1>1, <2>1, OrdinaryAccepts DEF ModeVerdict
  <2>3. r.signingMode # "PLUTUS_TRANSACTION"
    BY <1>1, <2>1 DEF ModeVerdict, PlutusMode, Validate, OK
  <2>4. CASE r.signingMode = "POOL_REGISTRATION_AS_OWNER"
    <3>1. OwnerMode(r.tx) = OK
      BY <2>1, <2>4 DEF ModeVerdict
    <3> QED BY <2>4, <3>1, OwnerAccepts, PoolCertificateAccepts DEF OK, Pool
  <2>5. CASE r.signingMode = "POOL_REGISTRATION_AS_OPERATOR"
    <3>1. OperatorMode(r.tx) = OK
      BY <2>1, <2>5 DEF ModeVerdict
    <3> QED BY <2>5, <3>1, OperatorAccepts, PoolCertificateAccepts DEF OK, Pool
  <2> QED BY <1>1, <2>1, <2>2, <2>3, <2>4, <2>5 DEF SigningModes
<1>2. ASSUME NEW r, ParseSignTransactionRequest(r) = OK, r.signingMode = "MULTISIG_TRANSACTION"
      PROVE  ~Registers(r.tx)
  BY <1>2, Accepts, MultisigAccepts DEF ModeVerdict
<1>3. ASSUME VerdictRight, Accepted, Registers(Tx), NEW mode \in SigningModes \ {request.signingMode},
             ParseSignTransactionRequest([request EXCEPT !.signingMode = mode]) = OK
      PROVE  FALSE
  <2> DEFINE other == [request EXCEPT !.signingMode = mode]
  <2>1. ParseSignTransactionRequest(request) = OK /\ request.signingMode # "MULTISIG_TRANSACTION"
    BY <1>3, AcceptedParses
  <2>2. other.tx = request.tx /\ other.signingMode = mode
    BY <1>3 DEF VerdictRight, Accepted, Signing, RequestOf
  <2> QED BY <1>1, <1>2, <1>3, <2>1, <2>2 DEF Tx
<1>4. VerdictRight => PoolModesExclusive
  BY <1>3 DEF PoolModesExclusive
<1> QED BY <1>4, AlwaysRight, PTL

\* Whatever registration an owner signs, the device has the key of exactly one owner and no
\* other path in it, but for the three parts that transaction.ts 640-759 does not look at.
THEOREM OwnersShareIsOne == Spec => []OwnerAddsOneShare
<1>1. ASSUME NEW tx, WellFormed(tx), NEW f \in ListParts, IsEmpty(tx[f])
      PROVE  Elements(tx[f]) = {}
  BY <1>1 DEF WellFormed, WellFormedField, TransactionFields, WellFormedList, IsList, ListOf, IsSequence, IsEmpty, Elements
<1>2. ASSUME NEW tx, WellFormed(tx), OwnerMode(tx) = OK
      PROVE  /\ IsSequence(Pool(tx).owners)
             /\ Cardinality(DeviceOwners(Pool(tx))) = 1
             /\ Elements(tx.certificates) = {tx.certificates.items[1]}
             /\ tx.certificates.items[1].type = "STAKE_POOL_REGISTRATION"
             /\ Pool(tx).poolKey.type = "THIRD_PARTY"
  <2> DEFINE cert == tx.certificates.items[1]
  <2>1. /\ Len(tx.certificates.items) = 1
        /\ cert.type = "STAKE_POOL_REGISTRATION"
        /\ Pool(tx).poolKey.type = "THIRD_PARTY"
        /\ Cardinality(DeviceOwners(Pool(tx))) = 1
    BY <1>2, OwnerAccepts, PoolCertificateAccepts DEF OK, Pool
  <2>2. ListOf(IsCertificate, tx.certificates)
    BY <1>2 DEF WellFormed, WellFormedField, TransactionFields, WellFormedList, ListParts
  <2>3. DOMAIN tx.certificates.items = {1}
    BY <2>1, <2>2 DEF ListOf, IsList, IsSequence
  <2>4. Elements(tx.certificates) = {cert}
    BY <2>3 DEF Elements
  <2>5. IsCertificate(cert)
    BY <2>2, <2>3 DEF ListOf
  <2> QED BY <2>1, <2>4, <2>5 DEF IsCertificate, IsPool, Pool
<1>3. ASSUME NEW pool, IsSequence(pool.owners), Cardinality(DeviceOwners(pool)) = 1
      PROVE  \E k \in DOMAIN pool.owners : DeviceOwners(pool) = {k}
  <2> DEFINE mine == DeviceOwners(pool)
  <2>1. mine \subseteq DOMAIN pool.owners
    BY DEF DeviceOwners
  <2>2. IsFiniteSet(DOMAIN pool.owners)
    BY <1>3, FS_Interval DEF IsSequence
  <2>3. Cardinality(mine) = 1
    BY <1>3
  <2> HIDE DEF mine
  <2>4. IsFiniteSet(mine)
    BY <2>1, <2>2, FS_Subset
  <2>5. PICK k : mine = {k}
    BY <2>3, <2>4, FS_Singleton
  <2> QED BY <2>1, <2>5 DEF mine
<1>4. ASSUME NEW r, WellFormed(r.tx), OwnerMode(r.tx) = OK,
             NEW part \in DOMAIN DevicePaths(r) \ ({"owners"} \cup UnseenByOwnerMode)
      PROVE  DevicePaths(r)[part] = {}
  <2> DEFINE tx == r.tx
             certificates == Elements(tx.certificates)
             pools == {c.pool : c \in {d \in certificates : d.type = "STAKE_POOL_REGISTRATION"}}
  <2>1. /\ \A i \in Elements(tx.inputs) : ~Given(i.path)
        /\ \A o \in Elements(tx.outputs) : o.destination.type = "THIRD_PARTY"
        /\ PoolForbids(tx) = OK
    BY <1>4, OwnerAccepts DEF OutputsToThirdParty
  <2>2. /\ Elements(tx.collateralInputs) = {} /\ Elements(tx.withdrawals) = {}
        /\ Elements(tx.requiredSigners) = {} /\ Elements(tx.votingProcedures) = {}
        /\ Elements(tx.referenceInputs) = {} /\ tx.collateralOutput = <<>>
    BY <1>1, <1>4, <2>1, PoolForbidsAll DEF ListParts, Given
  <2>3. /\ certificates = {tx.certificates.items[1]}
        /\ tx.certificates.items[1].type = "STAKE_POOL_REGISTRATION"
        /\ Pool(tx).poolKey.type = "THIRD_PARTY"
    BY <1>2, <1>4
  <2>4. part \in {"inputs", "collateralInputs", "referenceInputs", "outputs", "certificates", "withdrawals",
                  "requiredSigners", "votingProcedures", "poolKey"}
    BY DEF DevicePaths, UnseenByOwnerMode
  <2>5. CASE part \in {"inputs", "collateralInputs", "referenceInputs"}
    <3>1. PathsOfInputs(tx.inputs) = {}
      BY <2>1 DEF PathsOfInputs, Given, Range
    <3>2. PathsOfInputs(tx.collateralInputs) = {} /\ PathsOfInputs(tx.referenceInputs) = {}
      BY <2>2 DEF PathsOfInputs
    <3>3. /\ DevicePaths(r).inputs = PathsOfInputs(tx.inputs)
          /\ DevicePaths(r).collateralInputs = PathsOfInputs(tx.collateralInputs)
          /\ DevicePaths(r).referenceInputs = PathsOfInputs(tx.referenceInputs)
      BY DEF DevicePaths
    <3> QED BY <2>5, <3>1, <3>2, <3>3
  <2>6. CASE part = "outputs"
    <3> DEFINE destinations == {o.destination : o \in Elements(tx.outputs) \cup Range(tx.collateralOutput)}
    <3>1. Range(tx.collateralOutput) = {}
      BY <2>2 DEF Range
    <3>2. {e \in destinations : e.type = "DEVICE_OWNED"} = {}
      BY <2>1, <3>1
    <3>3. DevicePaths(r).outputs = PathsOfAddresses(destinations)
      BY DEF DevicePaths
    <3> HIDE DEF destinations
    <3>4. PathsOfAddresses(destinations) = {}
      BY <3>2 DEF PathsOfAddresses
    <3> QED BY <2>6, <3>3, <3>4
  <2>7. CASE part = "certificates"
    <3>1. \A c \in certificates : c.type = "STAKE_POOL_REGISTRATION"
      BY <2>3
    <3>2. \A c \in certificates : CredentialsOf(c) = {}
      BY <3>1 DEF CredentialsOf, PoolTypes
    <3>3. UNION {CredentialsOf(c) : c \in certificates} = {}
      BY <3>2
    <3>4. DevicePaths(r).certificates = PathsOfCredentials(UNION {CredentialsOf(c) : c \in certificates})
                               \cup {c.poolKeyPath : c \in {d \in certificates : d.type = "STAKE_POOL_RETIREMENT"}}
      BY DEF DevicePaths
    <3>5. {d \in certificates : d.type = "STAKE_POOL_RETIREMENT"} = {}
      BY <3>1
    <3>6. PathsOfCredentials({}) = {}
      BY DEF PathsOfCredentials
    <3> HIDE DEF certificates
    <3> QED BY <2>7, <3>3, <3>4, <3>5, <3>6
  <2>8. CASE part \in {"withdrawals", "requiredSigners", "votingProcedures"}
    <3>1. /\ DevicePaths(r).withdrawals = PathsOfCredentials({w.credential : w \in Elements(tx.withdrawals)})
          /\ DevicePaths(r).requiredSigners = {s.path : s \in {t \in Elements(tx.requiredSigners) : t.type = "PATH"}}
          /\ DevicePaths(r).votingProcedures = {v.voter.path : v \in {w \in Elements(tx.votingProcedures) :
                                                               w.voter.type \in PathVoters}}
      BY DEF DevicePaths
    <3> QED BY <2>2, <2>8, <3>1 DEF PathsOfCredentials
  <2>9. CASE part = "poolKey"
    <3>1. pools = {Pool(tx)}
      BY <2>3 DEF Pool
    <3>2. DevicePaths(r).poolKey = PathsHeld({p.poolKey : p \in pools})
      BY DEF DevicePaths
    <3> HIDE DEF pools
    <3>3. {p.poolKey : p \in pools} = {Pool(tx).poolKey}
      BY <3>1
    <3>4. PathsHeld({Pool(tx).poolKey}) = {}
      BY <2>3 DEF PathsHeld
    <3> QED BY <2>9, <3>2, <3>3, <3>4
  <2> QED BY <2>4, <2>5, <2>6, <2>7, <2>8, <2>9
<1>5. ASSUME VerdictRight, Accepted, Mode("POOL_REGISTRATION_AS_OWNER")
      PROVE  WellFormed(Tx) /\ OwnerMode(Tx) = OK
  BY <1>5, AcceptedParses, Accepts DEF ModeVerdict, Mode, Tx
<1>6. ASSUME VerdictRight, Accepted, Mode("POOL_REGISTRATION_AS_OWNER")
      PROVE  \E k \in DOMAIN Pool(Tx).owners : DeviceOwners(Pool(Tx)) = {k}
  BY <1>2, <1>3, <1>5, <1>6
<1>7. ASSUME VerdictRight, Accepted, Mode("POOL_REGISTRATION_AS_OWNER"),
             NEW part \in DOMAIN DevicePaths(request) \ ({"owners"} \cup UnseenByOwnerMode)
      PROVE  DevicePaths(request)[part] = {}
  BY <1>4, <1>5, <1>7 DEF Tx
<1>8. VerdictRight => OwnerAddsOneShare
  BY <1>6, <1>7 DEF OwnerAddsOneShare
<1> QED BY <1>8, AlwaysRight, PTL

-----------------------------------------------------------------------------
(***************************************************************************)
(* The transaction an owner sees: what parses for the operator parses for  *)
(* the owner, and what the operator may sign the owner may.                *)
(***************************************************************************)
\* The view of an owner, field by field.
Viewed(tx, view, k) ==
  /\ \A f \in TransactionFields \ {"inputs", "outputs", "certificates"} : view[f] = tx[f]
  /\ view.inputs = WithoutPaths(tx.inputs)
  /\ view.outputs = ToThirdParty(tx.outputs)
  /\ view.certificates = WithPoolOf(tx.certificates, k)

LEMMA OwnerViewed ==
  ASSUME NEW tx, WellFormed(tx), NEW k
  PROVE  Viewed(tx, OwnerView(tx, k), k)
<1>1. TransactionFields \subseteq DOMAIN tx
  BY DEF WellFormed
<1>2. {"inputs", "outputs", "certificates"} \subseteq DOMAIN tx
  BY <1>1 DEF TransactionFields, ListParts
<1> QED BY <1>1, <1>2 DEF Viewed, OwnerView

LEMMA InputsPass ==
  ASSUME NEW inputs, WellFormedList("inputs", inputs),
         ParseList(ParseTxInput, inputs, "INPUTS_NOT_ARRAY") = OK
  PROVE  /\ ParseList(ParseTxInput, WithoutPaths(inputs), "INPUTS_NOT_ARRAY") = OK
         /\ \A i \in Elements(WithoutPaths(inputs)) : ~Given(i.path)
<1> DEFINE old == inputs.items
           new == WithoutPaths(inputs).items
           oldEach == [i \in DOMAIN old |-> ParseTxInput(old[i])]
           newEach == [i \in DOMAIN new |-> ParseTxInput(new[i])]
           array == Validate(IsArray(inputs), "INPUTS_NOT_ARRAY")
<1>1. {"array", "items"} \subseteq DOMAIN inputs /\ DOMAIN old \subseteq Nat
  BY DEF WellFormedList, IsList, ListOf, IsSequence
<1>2. new = [i \in DOMAIN old |-> [old[i] EXCEPT !.path = <<>>]]
      /\ WithoutPaths(inputs).array = inputs.array
  BY <1>1 DEF WithoutPaths
<1>3. Verdict(<<array, Verdict(oldEach)>>) = OK
  BY DEF ParseList, Each
<1>4. array = OK /\ Verdict(oldEach) = OK
  BY <1>3, Checks2
<1>5. \A i \in DOMAIN old : ParseTxInput(old[i]) = OK
  BY <1>1, <1>4, OnlyIfAllPass
<1>6. ASSUME NEW i \in DOMAIN old
      PROVE  new[i].path = <<>> /\ ParseTxInput(new[i]) = OK
  <2>1. old[i] \in Elements(inputs)
    BY DEF Elements
  <2>2. InputFields \subseteq DOMAIN old[i]
    BY DEF WellFormedList, IsList, ListOf, IsInput
  <2>3. /\ new[i].txHash = old[i].txHash /\ new[i].outputIndex = old[i].outputIndex
        /\ new[i].path = <<>>
    BY <1>2, <2>2 DEF InputFields
  <2> DEFINE hash == ParseHexStringOfLength(old[i].txHash, TX_HASH_LENGTH, "INPUT_INVALID_TX_HASH")
             index == ParseUint32(old[i].outputIndex, "INPUT_INVALID_UTXO_INDEX")
             Path(list) == Verdict([j \in DOMAIN list |-> ParseBIP32Path(list[j], "INPUT_INVALID_PATH")])
  <2>4. Verdict(<<hash, index, Path(old[i].path)>>) = OK
    BY <1>5 DEF ParseTxInput, Each
  <2>5. hash = OK /\ index = OK
    BY <2>4, Checks3
  <2>6. Path(<<>>) = OK
    BY AllPass
  <2>7. ParseTxInput(new[i]) = Verdict(<<hash, index, Path(<<>>)>>)
    BY <2>3 DEF ParseTxInput, Each
  <2> HIDE DEF hash, index, Path
  <2> QED BY <2>3, <2>5, <2>6, <2>7, Pass3
<1>7. Verdict(newEach) = OK
  BY <1>2, <1>6, AllPass
<1>8. ParseList(ParseTxInput, WithoutPaths(inputs), "INPUTS_NOT_ARRAY") = Verdict(<<array, Verdict(newEach)>>)
  BY <1>2 DEF ParseList, Each, IsArray
<1>9. \A i \in Elements(WithoutPaths(inputs)) : ~Given(i.path)
  BY <1>2, <1>6 DEF Elements, Given
<1> HIDE DEF array, newEach
<1> QED BY <1>4, <1>7, <1>8, <1>9, Pass2

\* An output of the view has the amount, the tokens, the datum and the script of the output.
LEMMA OutputPasses ==
  ASSUME NEW output, OutputFields \subseteq DOMAIN output, NEW network,
         ParseTxOutput(output, network) = OK
  PROVE  LET new == [output EXCEPT !.destination = ThirdPartyAddress]
         IN /\ ParseTxOutput(new, network) = OK
            /\ new.destination.type = "THIRD_PARTY"
            /\ DatumOf(new) = DatumOf(output) /\ ReferenceScriptOf(new) = ReferenceScriptOf(output)
<1> DEFINE new == [output EXCEPT !.destination = ThirdPartyAddress]
<1>1. /\ new.amount = output.amount /\ new.tokenBundle = output.tokenBundle
      /\ new.format = output.format /\ new.datum = output.datum
      /\ new.referenceScript = output.referenceScript /\ new.destination = ThirdPartyAddress
  BY DEF OutputFields
<1> HIDE DEF new
<1>2. DatumOf(new) = DatumOf(output) /\ ReferenceScriptOf(new) = ReferenceScriptOf(output)
  BY <1>1 DEF DatumOf, ReferenceScriptOf
<1> DEFINE amount == ParseCoin(output.amount, "OUTPUT_INVALID_AMOUNT")
           bundle == ParseTokenBundle(output.tokenBundle, TRUE, FALSE)
           Destination(d) == ParseTxDestination(network, d, TRUE)
           datum == Verdict([i \in DOMAIN DatumOf(output) |-> ParseDatum(DatumOf(output)[i])])
           script == Verdict([i \in DOMAIN ReferenceScriptOf(output) |->
                                ParseHexString(ReferenceScriptOf(output)[i],
                                               "OUTPUT_INVALID_REFERENCE_SCRIPT_HEX")])
<1>3. Verdict(<<amount, bundle, Destination(output.destination), datum, script>>) = OK
  BY DEF ParseTxOutput, Each
<1>4. ParseTxOutput(new, network) = Verdict(<<amount, bundle, Destination(ThirdPartyAddress), datum, script>>)
  BY <1>1, <1>2 DEF ParseTxOutput, Each
<1>5. Destination(ThirdPartyAddress) = OK
  <2> DEFINE hex == ParseHexString(Hex(57), "OUTPUT_INVALID_ADDRESS")
             short == Validate(Hex(57).length <= 128 * 2, "OUTPUT_INVALID_ADDRESS")
  <2>1. Destination(ThirdPartyAddress) = Verdict(<<hex, short>>)
    BY DEF ParseTxDestination, ThirdPartyAddress
  <2>2. hex = OK /\ short = OK
    BY DEF ParseHexString, IsHexString, Validate, Hex
  <2> HIDE DEF hex, short, Destination
  <2> QED BY <2>1, <2>2, Pass2
<1> HIDE DEF amount, bundle, Destination, datum, script
<1>6. amount = OK /\ bundle = OK /\ datum = OK /\ script = OK
  BY <1>3, Checks5
<1>7. ParseTxOutput(new, network) = OK
  BY <1>4, <1>5, <1>6, Pass5
<1>8. new.destination.type = "THIRD_PARTY"
  BY <1>1 DEF ThirdPartyAddress
<1> QED BY <1>2, <1>7, <1>8 DEF new

LEMMA OutputsPass ==
  ASSUME NEW outputs, WellFormedList("outputs", outputs), NEW network,
         ParseList(LAMBDA o : ParseTxOutput(o, network), outputs, "OUTPUTS_NOT_ARRAY") = OK
  PROVE  /\ ParseList(LAMBDA o : ParseTxOutput(o, network), ToThirdParty(outputs), "OUTPUTS_NOT_ARRAY") = OK
         /\ \A o \in Elements(ToThirdParty(outputs)) : 
              /\ o.destination.type = "THIRD_PARTY"
              /\ \E p \in Elements(outputs) : DatumOf(o) = DatumOf(p) /\ ReferenceScriptOf(o) = ReferenceScriptOf(p)
<1> DEFINE old == outputs.items
           new == ToThirdParty(outputs).items
           oldEach == [i \in DOMAIN old |-> ParseTxOutput(old[i], network)]
           newEach == [i \in DOMAIN new |-> ParseTxOutput(new[i], network)]
           array == Validate(IsArray(outputs), "OUTPUTS_NOT_ARRAY")
<1>1. {"array", "items"} \subseteq DOMAIN outputs /\ DOMAIN old \subseteq Nat
  BY DEF WellFormedList, IsList, ListOf, IsSequence
<1>2. new = [i \in DOMAIN old |-> [old[i] EXCEPT !.destination = ThirdPartyAddress]]
      /\ ToThirdParty(outputs).array = outputs.array
  BY <1>1 DEF ToThirdParty
<1>3. Verdict(<<array, Verdict(oldEach)>>) = OK
  BY DEF ParseList, Each
<1>4. array = OK /\ Verdict(oldEach) = OK
  BY <1>3, Checks2
<1>5. \A i \in DOMAIN old : ParseTxOutput(old[i], network) = OK
  BY <1>1, <1>4, OnlyIfAllPass
<1>6. ASSUME NEW i \in DOMAIN old
      PROVE  /\ ParseTxOutput(new[i], network) = OK
             /\ new[i].destination.type = "THIRD_PARTY"
             /\ DatumOf(new[i]) = DatumOf(old[i]) /\ ReferenceScriptOf(new[i]) = ReferenceScriptOf(old[i])
  <2>1. old[i] \in Elements(outputs)
    BY DEF Elements
  <2>2. OutputFields \subseteq DOMAIN old[i]
    BY DEF WellFormedList, IsList, ListOf, IsOutput
  <2>3. new[i] = [old[i] EXCEPT !.destination = ThirdPartyAddress]
    BY <1>2
  <2>4. ParseTxOutput(old[i], network) = OK
    BY <1>5
  <2> HIDE DEF new, old
  <2> QED BY <2>2, <2>3, <2>4, OutputPasses
<1>7. Verdict(newEach) = OK
  BY <1>2, <1>6, AllPass
<1>8. ParseList(LAMBDA o : ParseTxOutput(o, network), ToThirdParty(outputs), "OUTPUTS_NOT_ARRAY")
        = Verdict(<<array, Verdict(newEach)>>)
  BY <1>2 DEF ParseList, Each, IsArray
<1>9. ASSUME NEW o \in Elements(ToThirdParty(outputs))
      PROVE  /\ o.destination.type = "THIRD_PARTY"
             /\ \E p \in Elements(outputs) : DatumOf(o) = DatumOf(p) /\ ReferenceScriptOf(o) = ReferenceScriptOf(p)
  <2>1. PICK i \in DOMAIN old : o = new[i]
    BY <1>2 DEF Elements
  <2>2. old[i] \in Elements(outputs)
    BY DEF Elements
  <2> HIDE DEF new, old
  <2> QED BY <1>6, <2>1, <2>2
<1>10. Verdict(<<array, Verdict(newEach)>>) = OK
  <2> HIDE DEF array, newEach
  <2> QED BY <1>4, <1>7, Pass2
<1>11. ParseList(LAMBDA o : ParseTxOutput(o, network), ToThirdParty(outputs), "OUTPUTS_NOT_ARRAY") = OK
  BY <1>8, <1>10
<1> QED BY <1>9, <1>11

LEMMA SameLength ==
  ASSUME NEW s, IsSequence(s), NEW i, NEW v
  PROVE  Len([s EXCEPT ![i] = v]) = Len(s)
<1> DEFINE n == Len(s)
           t == [s EXCEPT ![i] = v]
           values == {t[j] : j \in 1 .. n}
<1>1. n \in Nat /\ DOMAIN s = 1 .. n
  BY DEF IsSequence
<1>2. t \in [1 .. n -> values]
  BY <1>1
<1> HIDE DEF n, t
<1>3. t \in Seq(values)
  BY <1>1, <1>2, SeqDef
<1>4. Len(t) = n
  BY <1>1, <1>2, <1>3, LenProperties
<1> QED BY <1>4 DEF n, t

\* The pool seen by the owner k, of which no owner was of the device, parses as the pool does.
LEMMA PoolPasses ==
  ASSUME NEW pool, PoolFields \subseteq DOMAIN pool, IsSequence(pool.owners),
         ParsePoolParams(pool) = OK, Cardinality(DeviceOwners(pool)) = 0, NEW k \in DOMAIN pool.owners
  PROVE  /\ ParsePoolParams(PoolOfOwner(pool, k)) = OK
         /\ PoolOfOwner(pool, k).poolKey.type = "THIRD_PARTY"
         /\ Cardinality(DeviceOwners(PoolOfOwner(pool, k))) = 1
<1> DEFINE new == PoolOfOwner(pool, k)
           mine == [type |-> "DEVICE_OWNED", path |-> OwnerPath, hash |-> Hex(0)]
<1>1. /\ new.poolKey = ThirdPartyKey /\ new.rewardAccount = ThirdPartyAccount
      /\ new.owners = [pool.owners EXCEPT ![k] = mine]
      /\ \A f \in PoolFields \ {"poolKey", "rewardAccount", "owners"} : new[f] = pool[f]
  BY DEF PoolOfOwner, PoolFields
<1>2. /\ new.vrfKeyHash = pool.vrfKeyHash /\ new.pledge = pool.pledge /\ new.cost = pool.cost
      /\ new.margin = pool.margin
      /\ new.relays = pool.relays /\ new.metadata = pool.metadata
  BY <1>1 DEF PoolFields
<1> HIDE DEF new, mine
<1>3. DOMAIN new.owners = DOMAIN pool.owners /\ Len(new.owners) = Len(pool.owners)
  BY <1>1, SameLength
<1>4. new.owners[k] = mine /\ \A i \in DOMAIN pool.owners \ {k} : new.owners[i] = pool.owners[i]
  BY <1>1
<1>5. DeviceOwners(pool) = {}
  <2>1. IsFiniteSet(DOMAIN pool.owners)
    BY FS_Interval DEF IsSequence
  <2>2. DeviceOwners(pool) \subseteq DOMAIN pool.owners
    BY DEF DeviceOwners
  <2> QED BY <2>1, <2>2, FS_Subset, FS_EmptySet
<1>6. DeviceOwners(new) = {k}
  BY <1>3, <1>4, <1>5 DEF DeviceOwners, mine
<1>7. Cardinality(DeviceOwners(new)) = 1
  BY <1>6, FS_Singleton
<1>8. ParsePoolKey(ThirdPartyKey) = OK /\ ParseRewardAccount(ThirdPartyAccount) = OK
  BY DEF ParsePoolKey, ParseRewardAccount, ParseHeld, ThirdPartyKey, ThirdPartyAccount,
     ParseHexStringOfLength, IsHexStringOfLength, IsHexString, Hex, Validate, KEY_HASH_LENGTH,
     REWARD_ACCOUNT_HEX_LENGTH
<1>9. ParsePoolOwner(mine) = OK
  <2>1. IsValidPath(OwnerPath)
    <3>1. DOMAIN OwnerPath = 1 .. 5 /\ Len(OwnerPath) = 5
      BY DEF OwnerPath
    <3>2. /\ OwnerPath[1] = H(1852) /\ OwnerPath[2] = H(1815) /\ OwnerPath[3] = H(0)
          /\ OwnerPath[4] = S(2) /\ OwnerPath[5] = S(0)
      BY DEF OwnerPath
    <3>3. H(1852) # Bad /\ H(1815) # Bad /\ H(0) # Bad /\ S(2) # Bad /\ S(0) # Bad
      <4>1. /\ H(1852).index = 1852 /\ H(1815).index = 1815 /\ H(0).index = 0
            /\ S(2).index = 2 /\ S(0).index = 0 /\ Bad.index = -1
        BY DEF H, S, Bad
      <4> QED BY <4>1
    <3>4. \A i \in 1 .. 5 : i = 1 \/ i = 2 \/ i = 3 \/ i = 4 \/ i = 5
      OBVIOUS
    <3> HIDE DEF OwnerPath
    <3> QED BY <3>1, <3>2, <3>3, <3>4 DEF IsValidPath
  <2> QED BY <2>1 DEF ParsePoolOwner, ParseHeld, mine, ParseBIP32Path, Validate
<1> DEFINE vrf == ParseHexStringOfLength(pool.vrfKeyHash, VRF_KEY_HASH_LENGTH,
                                         "POOL_REGISTRATION_INVALID_VRF_KEY_HASH")
           pledge == ParseCoin(pool.pledge, "POOL_REGISTRATION_INVALID_PLEDGE")
           cost == ParseCoin(pool.cost, "POOL_REGISTRATION_INVALID_COST")
           margin == ParseMargin(pool.margin)
           reward == ParseRewardAccount(pool.rewardAccount)
           Owners(list) == Verdict([i \in DOMAIN list |-> ParsePoolOwner(list[i])])
           relays == Verdict([i \in DOMAIN pool.relays |-> ParsePoolRelay(pool.relays[i])])
           metadata == Verdict([i \in DOMAIN pool.metadata |-> ParsePoolMetadata(pool.metadata[i])])
           few == Validate(Len(pool.owners) <= POOL_REGISTRATION_OWNERS_MAX,
                           "POOL_REGISTRATION_OWNERS_TOO_MANY")
           fewRelays == Validate(Len(pool.relays) <= POOL_REGISTRATION_RELAYS_MAX,
                                 "POOL_REGISTRATION_RELAYS_TOO_MANY")
<1>10. Verdict(<<ParsePoolKey(pool.poolKey), vrf, pledge, cost, margin, reward, Owners(pool.owners),
                 relays, metadata, few, fewRelays>>) = OK
  BY DEF ParsePoolParams, Each
<1>11. ParsePoolParams(new) =
         Verdict(<<ParsePoolKey(ThirdPartyKey), vrf, pledge, cost, margin,
                   ParseRewardAccount(ThirdPartyAccount), Owners(new.owners), relays, metadata, few, fewRelays>>)
  BY <1>1, <1>2, <1>3 DEF ParsePoolParams, Each
<1>12. Owners(pool.owners) = OK => Owners(new.owners) = OK
  <2> SUFFICES ASSUME Owners(pool.owners) = OK PROVE Owners(new.owners) = OK
    OBVIOUS
  <2> DEFINE each == [i \in DOMAIN pool.owners |-> ParsePoolOwner(pool.owners[i])]
             newEach == [i \in DOMAIN new.owners |-> ParsePoolOwner(new.owners[i])]
  <2>1. DOMAIN each \subseteq Nat /\ Verdict(each) = OK
    BY DEF IsSequence
  <2>2. \A i \in DOMAIN pool.owners : ParsePoolOwner(pool.owners[i]) = OK
    BY <2>1, OnlyIfAllPass
  <2>3. \A i \in DOMAIN newEach : newEach[i] = OK
    BY <1>3, <1>4, <1>9, <2>2
  <2>4. Verdict(newEach) = OK
    BY <2>3, AllPass
  <2> QED BY <2>4
<1> HIDE DEF vrf, pledge, cost, margin, reward, Owners, relays, metadata, few, fewRelays
<1>13. /\ vrf = OK /\ pledge = OK /\ cost = OK /\ margin = OK /\ reward = OK
       /\ Owners(pool.owners) = OK /\ relays = OK /\ metadata = OK /\ few = OK /\ fewRelays = OK
  BY <1>10, Checks11
<1>14. ParsePoolParams(new) = OK
  BY <1>8, <1>11, <1>12, <1>13, Pass11
<1>15. new.poolKey.type = "THIRD_PARTY"
  BY <1>1 DEF ThirdPartyKey
<1> QED BY <1>7, <1>14, <1>15 DEF new

LEMMA CertificatesPass ==
  ASSUME NEW certificates, WellFormedList("certificates", certificates),
         ParseList(ParseCertificate, certificates, "CERTIFICATES_NOT_ARRAY") = OK,
         Len(certificates.items) = 1, certificates.items[1].type = "STAKE_POOL_REGISTRATION",
         Cardinality(DeviceOwners(certificates.items[1].pool)) = 0,
         NEW k \in DOMAIN certificates.items[1].pool.owners
  PROVE  LET new == WithPoolOf(certificates, k)
         IN /\ ParseList(ParseCertificate, new, "CERTIFICATES_NOT_ARRAY") = OK
            /\ Len(new.items) = 1 /\ new.items[1].type = "STAKE_POOL_REGISTRATION"
            /\ new.items[1].pool.poolKey.type = "THIRD_PARTY"
            /\ Cardinality(DeviceOwners(new.items[1].pool)) = 1
<1> DEFINE new == WithPoolOf(certificates, k)
           cert == certificates.items[1]
           view == [cert EXCEPT !.pool = PoolOfOwner(cert.pool, k)]
           array == Validate(IsArray(certificates), "CERTIFICATES_NOT_ARRAY")
           each == [i \in DOMAIN certificates.items |-> ParseCertificate(certificates.items[i])]
           newEach == [i \in DOMAIN new.items |-> ParseCertificate(new.items[i])]
<1>1. /\ {"array", "items"} \subseteq DOMAIN certificates
      /\ IsSequence(certificates.items) /\ DOMAIN certificates.items = 1 .. 1
  BY DEF WellFormedList, IsList, ListOf, IsSequence
<1>2. cert \in Elements(certificates)
  BY <1>1 DEF Elements
<1>3. {"type", "pool"} \subseteq DOMAIN cert /\ PoolFields \subseteq DOMAIN cert.pool /\ IsSequence(cert.pool.owners)
  BY <1>2 DEF WellFormedList, IsList, ListOf, IsCertificate, IsPool
<1>4. new.array = certificates.array /\ new.items = [certificates.items EXCEPT ![1] = view]
  BY <1>1 DEF WithPoolOf
<1>5. Len(new.items) = 1
  BY <1>1, <1>4, SameLength
<1>6. DOMAIN new.items = 1 .. 1 /\ new.items[1] = view
  BY <1>1, <1>4
<1>7. view.type = "STAKE_POOL_REGISTRATION" /\ view.pool = PoolOfOwner(cert.pool, k)
  BY <1>3
<1>8. Verdict(<<array, Verdict(each)>>) = OK
  BY DEF ParseList, Each
<1>9. array = OK /\ Verdict(each) = OK
  BY <1>8, Checks2
<1>10. ParseCertificate(cert) = OK
  <2>1. DOMAIN each = 1 .. 1 /\ each[1] = ParseCertificate(cert)
    BY <1>1
  <2> HIDE DEF each
  <2> QED BY <1>9, <2>1, OnlyIfAllPass
<1>11. \A c : c.type = "STAKE_POOL_REGISTRATION" => ParseCertificate(c) = ParsePoolParams(c.pool)
  BY DEF ParseCertificate, StakeTypes, PlainStakeTypes, ConwayStakeTypes, CommitteeTypes, DRepTypes
<1>12. ParsePoolParams(cert.pool) = OK
  BY <1>10, <1>11
<1> HIDE DEF cert, view
<1>13. /\ ParsePoolParams(view.pool) = OK /\ view.pool.poolKey.type = "THIRD_PARTY"
       /\ Cardinality(DeviceOwners(view.pool)) = 1
  BY <1>3, <1>7, <1>12, PoolPasses DEF cert
<1>14. ParseCertificate(view) = OK
  BY <1>7, <1>11, <1>13
<1>15. Verdict(newEach) = OK
  BY <1>6, <1>14, AllPass
<1>16. ParseList(ParseCertificate, new, "CERTIFICATES_NOT_ARRAY") = Verdict(<<array, Verdict(newEach)>>)
  BY <1>4 DEF ParseList, Each, IsArray
<1>17. Verdict(<<array, Verdict(newEach)>>) = OK
  <2> HIDE DEF array, newEach
  <2> QED BY <1>9, <1>15, Pass2
<1> QED BY <1>5, <1>6, <1>7, <1>13, <1>16, <1>17

\* What the operator accepts parses when an owner sees it.
LEMMA TransactionPasses ==
  ASSUME NEW tx, NEW view, NEW k, Viewed(tx, view, k), ParseTransaction(tx) = OK,
         ParseList(ParseTxInput, tx.inputs, "INPUTS_NOT_ARRAY") = OK =>
           ParseList(ParseTxInput, view.inputs, "INPUTS_NOT_ARRAY") = OK,
         ParseList(LAMBDA o : ParseTxOutput(o, tx.network), tx.outputs, "OUTPUTS_NOT_ARRAY") = OK =>
           ParseList(LAMBDA o : ParseTxOutput(o, tx.network), view.outputs, "OUTPUTS_NOT_ARRAY") = OK,
         ParseList(ParseCertificate, tx.certificates, "CERTIFICATES_NOT_ARRAY") = OK =>
           ParseList(ParseCertificate, view.certificates, "CERTIFICATES_NOT_ARRAY") = OK
  PROVE  ParseTransaction(view) = OK
<1>1. /\ view.network = tx.network /\ view.fee = tx.fee /\ view.ttl = tx.ttl
      /\ view.withdrawals = tx.withdrawals /\ view.auxiliaryData = tx.auxiliaryData
      /\ view.validityIntervalStart = tx.validityIntervalStart /\ view.mint = tx.mint
      /\ view.scriptDataHash = tx.scriptDataHash /\ view.collateralInputs = tx.collateralInputs
      /\ view.requiredSigners = tx.requiredSigners /\ view.includeNetworkId = tx.includeNetworkId
      /\ view.collateralOutput = tx.collateralOutput /\ view.totalCollateral = tx.totalCollateral
      /\ view.referenceInputs = tx.referenceInputs /\ view.votingProcedures = tx.votingProcedures
      /\ view.treasury = tx.treasury /\ view.donation = tx.donation
  BY DEF Viewed, TransactionFields, ListParts, OptionalParts
<1> DEFINE c1 == ParseNetwork(tx.network)
           c4 == ParseCoin(tx.fee, "FEE_INVALID")
           c5 == Verdict([i \in DOMAIN tx.ttl |-> ParseUint64(tx.ttl[i], "TTL_INVALID")])
           c7 == Verdict(<<Validate(IsArray(tx.withdrawals), "WITHDRAWALS_NOT_ARRAY"),
                           Verdict([i \in DOMAIN tx.withdrawals.items |->
                                      ParseWithdrawal(tx.withdrawals.items[i])])>>)
           c8 == Verdict([i \in DOMAIN tx.auxiliaryData |->
                            ParseTxAuxiliaryData(tx.network, tx.auxiliaryData[i])])
           c9 == Verdict([i \in DOMAIN tx.validityIntervalStart |->
                            ParseUint64(tx.validityIntervalStart[i], "VALIDITY_INTERVAL_START_INVALID")])
           c10 == Verdict([i \in DOMAIN tx.mint |-> ParseTokenBundle(tx.mint[i], FALSE, TRUE)])
           c11 == Verdict([i \in DOMAIN tx.scriptDataHash |->
                             ParseHexStringOfLength(tx.scriptDataHash[i], SCRIPT_DATA_HASH_LENGTH,
                                                    "SCRIPT_DATA_HASH_WRONG_LENGTH")])
           c12 == Verdict(<<Validate(IsArray(tx.collateralInputs), "COLLATERAL_INPUTS_NOT_ARRAY"),
                            Verdict([i \in DOMAIN tx.collateralInputs.items |->
                                       ParseTxInput(tx.collateralInputs.items[i])])>>)
           c13 == Verdict(<<Validate(IsArray(tx.requiredSigners), "REQUIRED_SIGNERS_NOT_ARRAY"),
                            Verdict([i \in DOMAIN tx.requiredSigners.items |->
                                       ParseRequiredSigner(tx.requiredSigners.items[i])])>>)
           c14 == Verdict([i \in DOMAIN tx.includeNetworkId |->
                             Validate(tx.includeNetworkId[i] \in {"true", "false"},
                                      "NETWORK_ID_INCLUDE_INVALID")])
           c15 == Verdict([i \in DOMAIN tx.collateralOutput |->
                             ParseCollateralOutput(tx.collateralOutput[i], tx.network)])
           c16 == Verdict([i \in DOMAIN tx.totalCollateral |->
                             ParseCoin(tx.totalCollateral[i], "TOTAL_COLLATERAL_NOT_VALID")])
           c17 == Verdict(<<Validate(IsArray(tx.referenceInputs), "REFERENCE_INPUTS_NOT_ARRAY"),
                            Verdict([i \in DOMAIN tx.referenceInputs.items |->
                                       ParseTxInput(tx.referenceInputs.items[i])])>>)
           c18 == ParseVotingProcedures(tx.votingProcedures)
           c19 == Verdict([i \in DOMAIN tx.treasury |-> ParseCoin(tx.treasury[i], "TREASURY_NOT_VALID")])
           c20 == Verdict([i \in DOMAIN tx.donation |-> ParseDonation(tx.donation[i])])
           InputsOf(t) == ParseList(ParseTxInput, t.inputs, "INPUTS_NOT_ARRAY")
           OutputsOf(t) == ParseList(LAMBDA o : ParseTxOutput(o, tx.network), t.outputs, "OUTPUTS_NOT_ARRAY")
           CertificatesOf(t) == ParseList(ParseCertificate, t.certificates, "CERTIFICATES_NOT_ARRAY")
<1>2. Verdict(<<c1, InputsOf(tx), OutputsOf(tx), c4, c5, CertificatesOf(tx), c7, c8, c9, c10, c11, c12, c13,
                c14, c15, c16, c17, c18, c19, c20>>) = OK
  BY DEF ParseTransaction, ParseList, Each
<1>3. ParseTransaction(view) =
        Verdict(<<c1, InputsOf(view), OutputsOf(view), c4, c5, CertificatesOf(view), c7, c8, c9, c10, c11,
                  c12, c13, c14, c15, c16, c17, c18, c19, c20>>)
  BY <1>1 DEF ParseTransaction, ParseList, Each
<1>4. /\ InputsOf(tx) = OK => InputsOf(view) = OK
      /\ OutputsOf(tx) = OK => OutputsOf(view) = OK
      /\ CertificatesOf(tx) = OK => CertificatesOf(view) = OK
  BY DEF ParseList, Each
<1> HIDE DEF c1, c4, c5, c7, c8, c9, c10, c11, c12, c13, c14, c15, c16, c17, c18, c19, c20,
             InputsOf, OutputsOf, CertificatesOf
<1>5. /\ InputsOf(tx) = OK /\ OutputsOf(tx) = OK /\ CertificatesOf(tx) = OK
      /\ c1 = OK /\ c4 = OK /\ c5 = OK /\ c7 = OK /\ c8 = OK /\ c9 = OK /\ c10 = OK /\ c11 = OK
      /\ c12 = OK /\ c13 = OK /\ c14 = OK /\ c15 = OK /\ c16 = OK /\ c17 = OK /\ c18 = OK
      /\ c19 = OK /\ c20 = OK
  BY <1>2, Checks20
<1>6. InputsOf(view) = OK /\ OutputsOf(view) = OK /\ CertificatesOf(view) = OK
  BY <1>4, <1>5
<1> QED BY <1>3, <1>5, <1>6, Pass20

LEMMA OwnerModePasses ==
  ASSUME NEW tx, NEW view, NEW k, Viewed(tx, view, k), OperatorMode(tx) = OK,
         \A i \in Elements(view.inputs) : ~Given(i.path),
         \A o \in Elements(view.outputs) :
           /\ o.destination.type = "THIRD_PARTY"
           /\ \E p \in Elements(tx.outputs) :
                DatumOf(o) = DatumOf(p) /\ ReferenceScriptOf(o) = ReferenceScriptOf(p),
         Len(view.certificates.items) = 1,
         view.certificates.items[1].type = "STAKE_POOL_REGISTRATION",
         view.certificates.items[1].pool.poolKey.type = "THIRD_PARTY",
         Cardinality(DeviceOwners(view.certificates.items[1].pool)) = 1
  PROVE  OwnerMode(view) = OK
<1>1. PoolOutputs(tx) = OK /\ PoolForbids(tx) = OK
  <2> DEFINE single == SinglePoolCertificate(tx, "DEVICE_OWNED", 0, "DEVICE_OWNED_POOL_KEY_REQUIRED",
                                             "DEVICE_OWNED_POOL_OWNER_NOT_ALLOWED")
  <2>1. Verdict(<<PoolOutputs(tx), single, PoolForbids(tx)>>) = OK
    BY DEF OperatorMode
  <2> HIDE DEF single
  <2> QED BY <2>1, Checks3
<1>2. PoolForbids(view) = OK
  <2>1. /\ view.withdrawals = tx.withdrawals /\ view.mint = tx.mint
        /\ view.scriptDataHash = tx.scriptDataHash /\ view.collateralInputs = tx.collateralInputs
        /\ view.requiredSigners = tx.requiredSigners /\ view.collateralOutput = tx.collateralOutput
        /\ view.totalCollateral = tx.totalCollateral /\ view.referenceInputs = tx.referenceInputs
        /\ view.votingProcedures = tx.votingProcedures /\ view.treasury = tx.treasury
        /\ view.donation = tx.donation
    BY DEF Viewed, TransactionFields, ListParts, OptionalParts
  <2>2. PoolForbids(view) = PoolForbids(tx)
    BY <2>1 DEF PoolForbids
  <2> QED BY <1>1, <2>2
<1>3. PoolOutputs(view) = OK
  <2> DEFINE NoDatum(t) == \A o \in Elements(t.outputs) : ~Given(DatumOf(o))
             NoScript(t) == \A o \in Elements(t.outputs) : ~Given(ReferenceScriptOf(o))
             Both(t) == <<Validate(NoDatum(t), "DATUM_NOT_ALLOWED"),
                          Validate(NoScript(t), "REFERENCE_SCRIPT_NOT_ALLOWED")>>
  <2>1. Verdict(Both(tx)) = OK
    BY <1>1 DEF PoolOutputs
  <2>2. NoDatum(tx) /\ NoScript(tx)
    <3> HIDE DEF NoDatum, NoScript
    <3> QED BY <2>1, Checks2 DEF Validate, OK
  <2>3. NoDatum(view) /\ NoScript(view)
    BY <2>2
  <2>4. Verdict(Both(view)) = OK
    <3> HIDE DEF NoDatum, NoScript
    <3> QED BY <2>3, Pass2 DEF Validate
  <2> QED BY <2>4 DEF PoolOutputs
<1> DEFINE inputs == Validate(\A i \in Elements(view.inputs) : ~Given(i.path), "INPUT_WITH_PATH_NOT_ALLOWED")
           outputs == Validate(OutputsToThirdParty(view), "DEVICE_OWNED_ADDRESS_NOT_ALLOWED")
           single == SinglePoolCertificate(view, "THIRD_PARTY", 1, "THIRD_PARTY_POOL_KEY_REQUIRED",
                                           "SINGLE_DEVICE_OWNER_REQUIRED")
<1>4. inputs = OK /\ outputs = OK
  BY DEF Validate, OutputsToThirdParty
<1>5. single = OK
  <2> DEFINE cert == view.certificates.items[1]
             key == Validate(cert.pool.poolKey.type = "THIRD_PARTY", "THIRD_PARTY_POOL_KEY_REQUIRED")
             owners == Validate(Cardinality(DeviceOwners(cert.pool)) = 1, "SINGLE_DEVICE_OWNER_REQUIRED")
  <2>1. single = Verdict(<<key, owners>>)
    BY DEF SinglePoolCertificate, ParsePoolCertificate
  <2>2. key = OK /\ owners = OK
    BY DEF Validate
  <2> HIDE DEF key, owners, single
  <2> QED BY <2>1, <2>2, Pass2
<1>6. OwnerMode(view) = Verdict(<<inputs, outputs, PoolOutputs(view), single, PoolForbids(view)>>)
  BY DEF OwnerMode
<1> HIDE DEF inputs, outputs, single
<1> QED BY <1>2, <1>3, <1>4, <1>5, <1>6, Pass5

LEMMA OwnerViewAccepted ==
  ASSUME NEW tx, WellFormed(tx), ParseTransaction(tx) = OK, OperatorMode(tx) = OK,
         NEW k \in DOMAIN Pool(tx).owners
  PROVE  ParseTransaction(OwnerView(tx, k)) = OK /\ OwnerMode(OwnerView(tx, k)) = OK
<1> DEFINE view == OwnerView(tx, k)
           cert == tx.certificates.items[1]
<1>1. Viewed(tx, view, k)
  BY OwnerViewed
<1> HIDE DEF view
<1>2. /\ view.inputs = WithoutPaths(tx.inputs) /\ view.outputs = ToThirdParty(tx.outputs)
      /\ view.certificates = WithPoolOf(tx.certificates, k)
  BY <1>1 DEF Viewed
<1>3. /\ WellFormedList("inputs", tx.inputs) /\ WellFormedList("outputs", tx.outputs)
      /\ WellFormedList("certificates", tx.certificates)
  BY DEF WellFormed, WellFormedField, TransactionFields, ListParts
<1>4. /\ Len(tx.certificates.items) = 1 /\ cert.type = "STAKE_POOL_REGISTRATION"
      /\ Cardinality(DeviceOwners(cert.pool)) = 0
  BY OperatorAccepts, PoolCertificateAccepts DEF OK
<1>5. k \in DOMAIN cert.pool.owners
  BY DEF Pool
<1> DEFINE InputsOf(t) == ParseList(ParseTxInput, t.inputs, "INPUTS_NOT_ARRAY")
           OutputsOf(t) == ParseList(LAMBDA o : ParseTxOutput(o, tx.network), t.outputs, "OUTPUTS_NOT_ARRAY")
           CertificatesOf(t) == ParseList(ParseCertificate, t.certificates, "CERTIFICATES_NOT_ARRAY")
<1>6. InputsOf(tx) = OK /\ OutputsOf(tx) = OK /\ CertificatesOf(tx) = OK
  <2> QED BY Checks20 DEF ParseTransaction, ParseList, Each
<1>7. InputsOf(view) = OK /\ \A i \in Elements(view.inputs) : ~Given(i.path)
  BY <1>2, <1>3, <1>6, InputsPass
<1>8. /\ OutputsOf(view) = OK
      /\ \A o \in Elements(view.outputs) :
           /\ o.destination.type = "THIRD_PARTY"
           /\ \E p \in Elements(tx.outputs) :
                DatumOf(o) = DatumOf(p) /\ ReferenceScriptOf(o) = ReferenceScriptOf(p)
  BY <1>2, <1>3, <1>6, OutputsPass, SMTT(30) DEF ParseList, Each
<1>9. /\ CertificatesOf(view) = OK
      /\ Len(view.certificates.items) = 1
      /\ view.certificates.items[1].type = "STAKE_POOL_REGISTRATION"
      /\ view.certificates.items[1].pool.poolKey.type = "THIRD_PARTY"
      /\ Cardinality(DeviceOwners(view.certificates.items[1].pool)) = 1
  BY <1>2, <1>3, <1>4, <1>5, <1>6, CertificatesPass
<1>10. ParseTransaction(view) = OK
  BY <1>1, <1>7, <1>8, <1>9, TransactionPasses
<1>11. OwnerMode(view) = OK
  BY <1>1, <1>7, <1>8, <1>9, OwnerModePasses
<1> QED BY <1>10, <1>11 DEF view

\* A pool registration that the operator may sign can be signed by every owner that is not
\* on the operator's device: the reason transaction.ts 762 gives for the restrictions.
THEOREM OwnersSignAfterOperator == Spec => []OwnersCanSign
<1>1. ASSUME VerdictRight, Accepted, Mode("POOL_REGISTRATION_AS_OPERATOR"), NEW k \in DOMAIN Pool(Tx).owners
      PROVE  ParseSignTransactionRequest(RequestOf(OwnerView(Tx, k), "POOL_REGISTRATION_AS_OWNER",
                                                   request.additionalWitnessPaths)) = OK
  <2> DEFINE view == OwnerView(Tx, k)
             r == RequestOf(view, "POOL_REGISTRATION_AS_OWNER", request.additionalWitnessPaths)
             Paths(list) == Verdict(<<Validate(IsArray(list), "ADDITIONAL_WITNESSES_NOT_ARRAY"),
                                      Verdict([i \in DOMAIN list.items |->
                                                 ParseBIP32Path(list.items[i], "INVALID_PATH")])>>)
             Known(mode) == Validate(mode \in SigningModes, "SIGN_MODE_UNKNOWN")
             Parsed(q) == Verdict(<<ParseTransaction(q.tx), Known(q.signingMode), Paths(q.additionalWitnessPaths)>>)
  <2>1. WellFormed(Tx) /\ ParseSignTransactionRequest(request) = OK
    BY <1>1, AcceptedParses
  <2>2. ParseTransaction(Tx) = OK /\ OperatorMode(Tx) = OK
    BY <1>1, <2>1, Accepts DEF ModeVerdict, Mode, Tx
  <2>3. ParseTransaction(view) = OK /\ OwnerMode(view) = OK
    BY <1>1, <2>1, <2>2, OwnerViewAccepted
  <2>4. \A q : ParseSignTransactionRequest(q) = IF Parsed(q) = OK THEN ModeVerdict(q.signingMode, q.tx) ELSE Parsed(q)
    BY DEF ParseSignTransactionRequest, ParseList, Each
  <2>5. Parsed(request) = OK
    BY <2>1, <2>4
  <2> HIDE DEF Paths, Known, view
  <2>6. Paths(request.additionalWitnessPaths) = OK
    BY <2>5, Checks3
  <2>7. Known("POOL_REGISTRATION_AS_OWNER") = OK
    BY DEF Known, Validate, SigningModes
  <2>8. /\ r.tx = view /\ r.signingMode = "POOL_REGISTRATION_AS_OWNER"
        /\ r.additionalWitnessPaths = request.additionalWitnessPaths
    BY DEF RequestOf
  <2> HIDE DEF r
  <2>9. Parsed(r) = OK
    BY <2>3, <2>6, <2>7, <2>8, Pass3
  <2>10. ModeVerdict("POOL_REGISTRATION_AS_OWNER", view) = OK
    BY <2>3 DEF ModeVerdict
  <2>11. ParseSignTransactionRequest(r) = OK
    BY <2>4, <2>8, <2>9, <2>10
  <2> QED BY <2>11 DEF r, view
<1>2. VerdictRight => OwnersCanSign
  BY <1>1 DEF OwnersCanSign
<1> QED BY <1>2, AlwaysRight, PTL

-----------------------------------------------------------------------------
(***************************************************************************)
(* Numbers: the texts the parsers compare and the values they print.       *)
(***************************************************************************)

\* The value of eight digits, by halves.
Digit == 0 .. 9
Small == 0 .. 9999
Half(a, b, c, d) == 1000 * a + 100 * b + 10 * c + d
Both(high, low) == 10000 * high + low
High(d) == Half(d[1], d[2], d[3], d[4])
Low(d) == Half(d[5], d[6], d[7], d[8])
Value(d) == Both(High(d), Low(d))

LEMMA ChunkIsValue ==
  ASSUME NEW d \in [1 .. 8 -> 0 .. 9]
  PROVE  Chunk(d) = Value(d)
<1> DEFINE Meets(f) == f = [i \in 0 .. 8 |-> IF i = 0 THEN 0 ELSE 10 * f[i - 1] + d[i]]
           chosen == CHOOSE f : Meets(f)
           v1 == d[1]
           v2 == 10 * v1 + d[2]
           v3 == 10 * v2 + d[3]
           v4 == 10 * v3 + d[4]
           v5 == 10 * v4 + d[5]
           v6 == 10 * v5 + d[6]
           v7 == 10 * v6 + d[7]
           v8 == 10 * v7 + d[8]
           g == [i \in 0 .. 8 |-> IF i = 0 THEN 0 ELSE IF i = 1 THEN v1 ELSE IF i = 2 THEN v2
                                  ELSE IF i = 3 THEN v3 ELSE IF i = 4 THEN v4 ELSE IF i = 5 THEN v5
                                  ELSE IF i = 6 THEN v6 ELSE IF i = 7 THEN v7 ELSE v8]
<1>1. Meets(g)
  <2>1. d[1] \in Int /\ 10 * 0 + d[1] = d[1]
    OBVIOUS
  <2>2. /\ g[0] = 0 /\ g[1] = v1 /\ g[2] = v2 /\ g[3] = v3 /\ g[4] = v4 /\ g[5] = v5
        /\ g[6] = v6 /\ g[7] = v7 /\ g[8] = v8
    OBVIOUS
  <2> HIDE DEF v1, v2, v3, v4, v5, v6, v7, v8
  <2>3. v1 = 10 * 0 + d[1]
    BY <2>1 DEF v1
  <2>4. /\ v2 = 10 * v1 + d[2] /\ v3 = 10 * v2 + d[3] /\ v4 = 10 * v3 + d[4] /\ v5 = 10 * v4 + d[5]
        /\ v6 = 10 * v5 + d[6] /\ v7 = 10 * v6 + d[7] /\ v8 = 10 * v7 + d[8]
    BY DEF v2, v3, v4, v5, v6, v7, v8
  <2>5. ASSUME NEW i \in 0 .. 8 PROVE g[i] = IF i = 0 THEN 0 ELSE 10 * g[i - 1] + d[i]
    <3>1. i = 0 \/ i = 1 \/ i = 2 \/ i = 3 \/ i = 4 \/ i = 5 \/ i = 6 \/ i = 7 \/ i = 8
      OBVIOUS
    <3> HIDE DEF g
    <3>2. CASE i = 0
      BY <2>2, <3>2
    <3>3. CASE i = 1
      BY <2>2, <2>3, <3>3
    <3>4. CASE i = 2 \/ i = 3 \/ i = 4 \/ i = 5
      BY <2>2, <2>4, <3>4
    <3>5. CASE i = 6 \/ i = 7 \/ i = 8
      BY <2>2, <2>4, <3>5
    <3> QED BY <3>1, <3>2, <3>3, <3>4, <3>5
  <2>6. g = [i \in 0 .. 8 |-> g[i]]
    OBVIOUS
  <2> HIDE DEF g
  <2> QED BY <2>5, <2>6, Zenon
<1>2. Meets(chosen)
  BY <1>1
<1>3. Chunk(d) = chosen[8]
  BY DEF Chunk
<1> HIDE DEF chosen
<1>4. \A i \in 0 .. 8 : chosen[i] = IF i = 0 THEN 0 ELSE 10 * chosen[i - 1] + d[i]
  BY <1>2, Zenon
<1> HIDE DEF Meets
<1>5. chosen[0] = 0 /\ \A i \in 1 .. 8 : chosen[i] = 10 * chosen[i - 1] + d[i]
  BY <1>4
<1>6. \A i \in 1 .. 8 : d[i] \in Int
  OBVIOUS
<1>7. /\ chosen[1] = d[1] /\ chosen[2] = 10 * chosen[1] + d[2] /\ chosen[3] = 10 * chosen[2] + d[3]
      /\ chosen[4] = 10 * chosen[3] + d[4] /\ chosen[5] = 10 * chosen[4] + d[5]
      /\ chosen[6] = 10 * chosen[5] + d[6] /\ chosen[7] = 10 * chosen[6] + d[7]
      /\ chosen[8] = 10 * chosen[7] + d[8]
  BY <1>5, <1>6
<1>8. chosen[1] = v1 /\ chosen[2] = v2 /\ chosen[3] = v3 /\ chosen[4] = v4
  BY <1>7
<1>9. v4 \in Int /\ v4 = High(d)
  BY <1>6, SMT DEF High, Half
<1> HIDE DEF v4
<1>10. chosen[8] = v8
  BY <1>7, <1>8
<1>11. v8 = Both(v4, Low(d))
  BY <1>6, <1>9, SMT DEF Low, Half, Both
<1> QED BY <1>3, <1>9, <1>10, <1>11 DEF Value

HalfLess(a1, a2, a3, a4, b1, b2, b3, b4) ==
  /\ a1 \in Digit /\ a2 \in Digit /\ a3 \in Digit /\ a4 \in Digit
  /\ b1 \in Digit /\ b2 \in Digit /\ b3 \in Digit /\ b4 \in Digit
  /\ \/ a1 < b1
     \/ a1 = b1 /\ a2 < b2
     \/ a1 = b1 /\ a2 = b2 /\ a3 < b3
     \/ a1 = b1 /\ a2 = b2 /\ a3 = b3 /\ a4 < b4
PairLess(a, x, b, y) == a < b \/ (a = b /\ x < y)

LEMMA HalfOrder ==
  ASSUME NEW a1, NEW a2, NEW a3, NEW a4, NEW b1, NEW b2, NEW b3, NEW b4,
         HalfLess(a1, a2, a3, a4, b1, b2, b3, b4)
  PROVE  Half(a1, a2, a3, a4) < Half(b1, b2, b3, b4)
<1>1. /\ a1 \in Int /\ a2 \in Int /\ a3 \in Int /\ a4 \in Int
      /\ b1 \in Int /\ b2 \in Int /\ b3 \in Int /\ b4 \in Int
      /\ a2 <= 9 /\ a3 <= 9 /\ a4 <= 9 /\ 0 <= b2 /\ 0 <= b3 /\ 0 <= b4
  BY DEF HalfLess, Digit
<1> DEFINE x == 1000 * a1 + 100 * a2 + 10 * a3 + a4
           y == 1000 * b1 + 100 * b2 + 10 * b3 + b4
<1>2. CASE a1 < b1
  <2>1. x < y
    BY <1>1, <1>2
  <2> QED BY <2>1 DEF Half
<1>3. CASE a1 = b1 /\ a2 < b2
  <2>1. x < y
    BY <1>1, <1>3
  <2> QED BY <2>1 DEF Half
<1>4. CASE a1 = b1 /\ a2 = b2 /\ a3 < b3
  <2>1. x < y
    BY <1>1, <1>4
  <2> QED BY <2>1 DEF Half
<1>5. CASE a1 = b1 /\ a2 = b2 /\ a3 = b3 /\ a4 < b4
  <2>1. x < y
    BY <1>1, <1>5
  <2> QED BY <2>1 DEF Half
<1> QED BY <1>2, <1>3, <1>4, <1>5 DEF HalfLess

LEMMA SmallIs ==
  ASSUME NEW n \in Small
  PROVE  n \in Int /\ 0 <= n /\ n <= 9999
BY DEF Small

LEMMA IsSmall ==
  ASSUME NEW n \in Int, 0 <= n, n <= 9999
  PROVE  n \in Small
BY DEF Small

LEMMA HalfRange ==
  ASSUME NEW a \in Digit, NEW b \in Digit, NEW c \in Digit, NEW d \in Digit
  PROVE  Half(a, b, c, d) \in Small
<1>1. /\ a \in Int /\ 0 <= a /\ a <= 9 /\ b \in Int /\ 0 <= b /\ b <= 9
      /\ c \in Int /\ 0 <= c /\ c <= 9 /\ d \in Int /\ 0 <= d /\ d <= 9
  BY DEF Digit
<1> DEFINE n == 1000 * a + 100 * b + 10 * c + d
<1>2. n \in Int /\ 0 <= n /\ n <= 9999
  BY <1>1
<1> HIDE DEF n
<1>3. n \in Small
  BY <1>2, IsSmall
<1>4. Half(a, b, c, d) = n
  BY DEF n, Half
<1> QED BY <1>3, <1>4

LEMMA BothOrder ==
  ASSUME NEW a \in Small, NEW x \in Small, NEW b \in Small, NEW y \in Small,
         PairLess(a, x, b, y)
  PROVE  Both(a, x) < Both(b, y)
<1>1. /\ a \in Int /\ b \in Int /\ x \in Int /\ y \in Int
      /\ 0 <= x /\ x <= 9999 /\ 0 <= y /\ y <= 9999
  BY SmallIs
<1>2. CASE a < b
  BY <1>1, <1>2 DEF Both
<1>3. CASE a = b /\ x < y
  BY <1>1, <1>3 DEF Both
<1> QED BY <1>2, <1>3 DEF PairLess

LEMMA HalvesAreSmall ==
  ASSUME NEW d \in [1 .. 8 -> 0 .. 9]
  PROVE  High(d) \in Small /\ Low(d) \in Small
<1>1. \A j \in 1 .. 8 : d[j] \in Digit
  BY DEF Digit
<1>2. \A j \in 1 .. 8 : j \in {1, 2, 3, 4, 5, 6, 7, 8}
  OBVIOUS
<1> QED BY <1>1, <1>2, HalfRange, SMTT(30) DEF High, Low

LEMMA ValueIsInt ==
  ASSUME NEW d \in [1 .. 8 -> 0 .. 9]
  PROVE  Value(d) \in Int
<1>1. \A x, y \in Small : Both(x, y) \in Int
  BY SmallIs, SMTT(30) DEF Both
<1> QED BY <1>1, HalvesAreSmall DEF Value

LEMMA ValueOrder ==
  ASSUME NEW d \in [1 .. 8 -> 0 .. 9], NEW e \in [1 .. 8 -> 0 .. 9], NEW i \in 1 .. 8,
         d[i] < e[i], \A j \in 1 .. i - 1 : d[j] = e[j]
  PROVE  Value(d) < Value(e)
<1>1. \A j \in 1 .. 8 : d[j] \in Digit /\ e[j] \in Digit 
  BY DEF Digit
<1>2. i = 1 \/ i = 2 \/ i = 3 \/ i = 4 \/ i = 5 \/ i = 6 \/ i = 7 \/ i = 8
  OBVIOUS
<1>3. High(d) \in Small /\ High(e) \in Small /\ Low(d) \in Small /\ Low(e) \in Small
  BY HalvesAreSmall
<1>4. \/ d[1] < e[1]
      \/ d[1] = e[1] /\ d[2] < e[2]
      \/ d[1] = e[1] /\ d[2] = e[2] /\ d[3] < e[3]
      \/ d[1] = e[1] /\ d[2] = e[2] /\ d[3] = e[3] /\ d[4] < e[4]
      \/ d[1] = e[1] /\ d[2] = e[2] /\ d[3] = e[3] /\ d[4] = e[4] /\ d[5] < e[5]
      \/ d[1] = e[1] /\ d[2] = e[2] /\ d[3] = e[3] /\ d[4] = e[4] /\ d[5] = e[5] /\ d[6] < e[6]
      \/ /\ d[1] = e[1] /\ d[2] = e[2] /\ d[3] = e[3] /\ d[4] = e[4]
         /\ d[5] = e[5] /\ d[6] = e[6] /\ d[7] < e[7]
      \/ /\ d[1] = e[1] /\ d[2] = e[2] /\ d[3] = e[3] /\ d[4] = e[4]
         /\ d[5] = e[5] /\ d[6] = e[6] /\ d[7] = e[7] /\ d[8] < e[8]
  BY <1>2
<1>5. /\ d[1] \in Digit /\ d[2] \in Digit /\ d[3] \in Digit /\ d[4] \in Digit
      /\ d[5] \in Digit /\ d[6] \in Digit /\ d[7] \in Digit /\ d[8] \in Digit
      /\ e[1] \in Digit /\ e[2] \in Digit /\ e[3] \in Digit /\ e[4] \in Digit
      /\ e[5] \in Digit /\ e[6] \in Digit /\ e[7] \in Digit /\ e[8] \in Digit
  BY <1>1
<1>6. High(d) < High(e) \/ (High(d) = High(e) /\ Low(d) < Low(e))
  <2>1. \/ HalfLess(d[1], d[2], d[3], d[4], e[1], e[2], e[3], e[4])
        \/ /\ d[1] = e[1] /\ d[2] = e[2] /\ d[3] = e[3] /\ d[4] = e[4]
           /\ HalfLess(d[5], d[6], d[7], d[8], e[5], e[6], e[7], e[8])
    BY <1>4, <1>5 DEF HalfLess
  <2>2. CASE HalfLess(d[1], d[2], d[3], d[4], e[1], e[2], e[3], e[4])
    BY <2>2, HalfOrder DEF High
  <2>3. CASE /\ d[1] = e[1] /\ d[2] = e[2] /\ d[3] = e[3] /\ d[4] = e[4]
             /\ HalfLess(d[5], d[6], d[7], d[8], e[5], e[6], e[7], e[8])
    <3>1. High(d) = High(e)
      BY <2>3 DEF High
    <3>2. Low(d) < Low(e)
      BY <2>3, HalfOrder DEF Low
    <3> QED BY <3>1, <3>2
  <2> QED BY <2>1, <2>2, <2>3
<1>7. PairLess(High(d), Low(d), High(e), Low(e))
  BY <1>6 DEF PairLess
<1> QED BY <1>3, <1>7, BothOrder DEF Value

(***************************************************************************)
(* Numbers of 24 digits: the first digit that differs tells which is less. *)
(***************************************************************************)
Before(p, q, n) == \E i \in 1 .. n : p[i] < q[i] /\ \A j \in 1 .. i - 1 : p[j] = q[j]
Padded(p) == p \in [1 .. 24 -> 0 .. 9]

Padding(p, a, n) == \A i \in 1 .. 24 : p[i] = IF i + n > 24 THEN a[i + n - 24] ELSE 0

LEMMA TextDigits ==
  ASSUME NEW a \in Seq(0 .. 9)
  PROVE  /\ Len(a) \in Nat /\ DOMAIN a = 1 .. Len(a) /\ a \in [1 .. Len(a) -> 0 .. 9]
         /\ \A i \in 1 .. Len(a) : a[i] \in 0 .. 9
BY LenProperties, ElementOfSeq

LEMMA PadIsPadded ==
  ASSUME NEW a \in Seq(0 .. 9), Len(a) <= 24
  PROVE  Padded(Pad(a)) /\ Padding(Pad(a), a, Len(a))
<1>1. Len(a) \in Nat /\ \A i \in 1 .. Len(a) : a[i] \in 0 .. 9
  BY TextDigits
<1>2. ASSUME NEW i \in 1 .. 24, i + Len(a) > 24
      PROVE  i + Len(a) - 24 \in 1 .. Len(a)
  BY <1>1, <1>2
<1>3. \A i \in 1 .. 24 : Pad(a)[i] = IF i + Len(a) > 24 THEN a[i + Len(a) - 24] ELSE 0
  BY DEF Pad
<1>4. \A i \in 1 .. 24 : Pad(a)[i] \in 0 .. 9
  <2> TAKE i \in 1 .. 24
  <2>1. CASE i + Len(a) > 24
    <3> DEFINE k == i + Len(a) - 24
    <3>1. k \in 1 .. Len(a)
      BY <1>2, <2>1
    <3>2. Pad(a)[i] = a[k]
      BY <1>3, <2>1
    <3>3. a[k] \in 0 .. 9
      BY <1>1, <3>1
    <3> QED BY <3>2, <3>3, Zenon
  <2>2. CASE ~(i + Len(a) > 24)
    <3>1. Pad(a)[i] = 0
      BY <1>3, <2>2
    <3>2. 0 \in 0 .. 9
      OBVIOUS
    <3> QED BY <3>1, <3>2, Zenon
  <2> QED BY <2>1, <2>2
<1>5. Pad(a) = [i \in 1 .. 24 |-> Pad(a)[i]]
  BY DEF Pad
<1> QED BY <1>3, <1>4, <1>5 DEF Padded, Padding

\* The digits of a third.
Third(p, c) == [j \in 1 .. 8 |-> p[8 * c - 8 + j]]

LEMMA ThirdIsCut ==
  ASSUME NEW p, Padded(p), NEW c \in 1 .. 3
  PROVE  /\ SubSeq(p, 8 * c - 7, 8 * c) = Third(p, c)
         /\ Third(p, c) \in [1 .. 8 -> 0 .. 9]
<1>1. \A j \in 1 .. 8 : 8 * c - 8 + j \in 1 .. 24
  OBVIOUS
<1>2. Third(p, c) \in [1 .. 8 -> 0 .. 9]
  BY <1>1 DEF Third, Padded
<1> DEFINE m == 8 * c - 7
           n == 8 * c
           cut == SubSeq(p, m, n)
<1>3. /\ m \in Int /\ n \in Int /\ m <= n /\ n - m + 1 = 8
      /\ \A j \in 1 .. 8 : m + j - 1 = 8 * c - 8 + j
      /\ \A i \in m .. n : i \in 1 .. 24
  OBVIOUS
<1> HIDE DEF m, n
<1>4. \A i \in m .. n : p[i] \in 0 .. 9
  BY <1>3 DEF Padded
<1>5. cut \in Seq(0 .. 9) /\ Len(cut) = 8 /\ \A j \in 1 .. 8 : cut[j] = p[m + j - 1]
  BY <1>3, <1>4, SubSeqProperties
<1> HIDE DEF cut
<1>6. cut = Third(p, c)
  BY <1>3, <1>5, SMTT(30) DEF Third
<1> QED BY <1>2, <1>6 DEF cut, m, n

ChunkBefore(x, y) == \E c \in 1 .. 3 : x[c] < y[c] /\ \A d \in 1 .. c - 1 : x[d] = y[d]

LEMMA ChunksAre ==
  ASSUME NEW a \in Seq(0 .. 9), Len(a) <= 24
  PROVE  /\ DOMAIN Chunks(a) = 1 .. 3
         /\ \A c \in 1 .. 3 : Chunks(a)[c] = Value(Third(Pad(a), c)) /\ Chunks(a)[c] \in Int
<1> DEFINE p == Pad(a)
<1>1. Padded(p)
  BY PadIsPadded
<1>2. Chunks(a) = [c \in 1 .. 3 |-> Chunk(SubSeq(p, 8 * c - 7, 8 * c))]
  BY DEF Chunks
<1> HIDE DEF p
<1>3. ASSUME NEW c \in 1 .. 3
      PROVE  Chunks(a)[c] = Value(Third(p, c)) /\ Chunks(a)[c] \in Int
  <2>1. SubSeq(p, 8 * c - 7, 8 * c) = Third(p, c) /\ Third(p, c) \in [1 .. 8 -> 0 .. 9]
    BY <1>1, ThirdIsCut
  <2>2. Chunks(a)[c] = Chunk(Third(p, c))
    BY <1>2, <2>1
  <2>3. Chunks(a)[c] = Value(Third(p, c))
    BY <2>1, <2>2, ChunkIsValue
  <2> QED BY <2>1, <2>3, ValueIsInt
<1> QED BY <1>2, <1>3 DEF p

LEMMA ChunkOrder ==
  ASSUME NEW a \in Seq(0 .. 9), NEW b \in Seq(0 .. 9), Len(a) <= 24, Len(b) <= 24,
         Before(Pad(a), Pad(b), 24)
  PROVE  ChunkBefore(Chunks(a), Chunks(b))
<1> DEFINE p == Pad(a)
           q == Pad(b)
           x == Chunks(a)
           y == Chunks(b)
<1>1. Padded(p) /\ Padded(q)
  BY PadIsPadded
<1>2. PICK i \in 1 .. 24 : p[i] < q[i] /\ \A j \in 1 .. i - 1 : p[j] = q[j]
  BY DEF Before
<1>3. \A c \in 1 .. 3 : x[c] = Value(Third(p, c)) /\ y[c] = Value(Third(q, c))
  BY ChunksAre
<1> HIDE DEF p, q, x, y
<1>4. PICK c \in 1 .. 3 : i - (8 * c - 8) \in 1 .. 8
  <2>1. i \in 1 .. 8 \/ i \in 9 .. 16 \/ i \in 17 .. 24
    OBVIOUS
  <2>2. CASE i \in 1 .. 8
    <3>1. i - (8 * 1 - 8) \in 1 .. 8
      BY <2>2
    <3> QED BY <3>1
  <2>3. CASE i \in 9 .. 16
    <3>1. i - (8 * 2 - 8) \in 1 .. 8
      BY <2>3
    <3> QED BY <3>1
  <2>4. CASE i \in 17 .. 24
    <3>1. i - (8 * 3 - 8) \in 1 .. 8
      BY <2>4
    <3> QED BY <3>1
  <2> QED BY <2>1, <2>2, <2>3, <2>4
<1> DEFINE k == i - (8 * c - 8)
<1>5. x[c] < y[c]
  <2> DEFINE d == Third(p, c)
             e == Third(q, c)
  <2>1. d \in [1 .. 8 -> 0 .. 9] /\ e \in [1 .. 8 -> 0 .. 9]
    BY <1>1, ThirdIsCut
  <2>2. k \in 1 .. 8 /\ 8 * c - 8 + k = i
    BY <1>4
  <2>3. d[k] < e[k]
    BY <1>2, <2>2 DEF Third
  <2>4. \A j \in 1 .. k - 1 : d[j] = e[j]
    <3> TAKE j \in 1 .. k - 1
    <3>1. j \in 1 .. 8 /\ 8 * c - 8 + j \in 1 .. i - 1
      BY <2>2
    <3>2. p[8 * c - 8 + j] = q[8 * c - 8 + j]
      BY <1>2, <3>1
    <3> QED BY <3>1, <3>2 DEF Third
  <2> HIDE DEF k, d, e
  <2>5. Value(d) < Value(e)
    BY <2>1, <2>2, <2>3, <2>4, ValueOrder
  <2> QED BY <1>3, <2>5 DEF d, e
<1>6. \A f \in 1 .. c - 1 : x[f] = y[f]
  <2> TAKE f \in 1 .. c - 1
  <2>1. f \in 1 .. 3
    OBVIOUS
  <2>2. ASSUME NEW j \in 1 .. 8 PROVE p[8 * f - 8 + j] = q[8 * f - 8 + j]
    <3>1. 8 * f - 8 + j \in 1 .. i - 1
      BY <1>4
    <3> QED BY <1>2, <3>1
  <2>3. Third(p, f) = Third(q, f)
    BY <2>2 DEF Third
  <2> QED BY <1>3, <2>1, <2>3
<1>7. ChunkBefore(x, y)
  BY <1>5, <1>6 DEF ChunkBefore
<1> QED BY <1>7 DEF x, y

LEMMA NumberLess ==
  ASSUME NEW a \in Seq(0 .. 9), NEW b \in Seq(0 .. 9), Len(a) <= 24, Len(b) <= 24,
         Before(Pad(a), Pad(b), 24)
  PROVE  NumberLE(a, b) /\ ~NumberLE(b, a)
<1> DEFINE x == Chunks(a)
           y == Chunks(b)
<1>1. ChunkBefore(x, y)
  BY ChunkOrder
<1>2. NumberLE(a, b)
  BY <1>1 DEF NumberLE, ChunkBefore
<1>3. \A c \in 1 .. 3 : x[c] \in Int /\ y[c] \in Int
  BY ChunksAre
<1>4. SUFFICES ASSUME NumberLE(b, a) PROVE FALSE
  BY <1>2
<1>5. y = x \/ ChunkBefore(y, x)
  BY <1>4 DEF NumberLE, ChunkBefore
<1> HIDE DEF x, y
<1>6. PICK c \in 1 .. 3 : x[c] < y[c] /\ \A d \in 1 .. c - 1 : x[d] = y[d]
  BY <1>1 DEF ChunkBefore
<1>7. ChunkBefore(y, x)
  BY <1>3, <1>5, <1>6
<1>8. PICK e \in 1 .. 3 : y[e] < x[e] /\ \A d \in 1 .. e - 1 : y[d] = x[d]
  BY <1>7 DEF ChunkBefore
<1>9. c < e \/ c = e \/ e < c
  OBVIOUS
<1> QED BY <1>3, <1>6, <1>8, <1>9

\* Texts of one length compare as the numbers they stand for.
LEMMA TextIsNumber ==
  ASSUME NEW a \in Seq(0 .. 9), NEW b \in Seq(0 .. 9), Len(a) = Len(b), Len(b) <= 24
  PROVE  TextLE(a, b) <=> NumberLE(a, b)
<1> DEFINE n == Len(a)
<1>1. /\ n \in 0 .. 24 /\ Len(b) = n /\ DOMAIN a = 1 .. n /\ DOMAIN b = 1 .. n
      /\ \A i \in 1 .. n : a[i] \in 0 .. 9 /\ b[i] \in 0 .. 9
      /\ a \in [1 .. n -> 0 .. 9] /\ b \in [1 .. n -> 0 .. 9]
  <2>1. Len(a) \in Nat /\ Len(b) = Len(a) /\ Len(a) <= 24
    BY TextDigits
  <2>2. n \in 0 .. 24
    <3>1. \A l \in Nat : l <= 24 => l \in 0 .. 24
      OBVIOUS
    <3> QED BY <2>1, <3>1, Zenon
  <2>3. /\ DOMAIN a = 1 .. n /\ a \in [1 .. n -> 0 .. 9] /\ \A i \in 1 .. n : a[i] \in 0 .. 9
    BY TextDigits, Zenon
  <2>4. /\ DOMAIN b = 1 .. n /\ b \in [1 .. n -> 0 .. 9] /\ \A i \in 1 .. n : b[i] \in 0 .. 9
    BY <2>1, TextDigits, Zenon
  <2> HIDE DEF n
  <2> QED BY <2>1, <2>2, <2>3, <2>4 DEF n
<1>2. ASSUME NEW s \in Seq(0 .. 9), NEW t \in Seq(0 .. 9), Len(s) = n, Len(t) = n, Before(s, t, n)
      PROVE  Before(Pad(s), Pad(t), 24)
  <2>1. PICK i \in 1 .. n : s[i] < t[i] /\ \A j \in 1 .. i - 1 : s[j] = t[j]
    BY <1>2 DEF Before
  <2> DEFINE k == i + 24 - n
             p == Pad(s)
             q == Pad(t)
  <2>2. /\ \A f \in 1 .. 24 : p[f] = IF f + n > 24 THEN s[f + n - 24] ELSE 0
        /\ \A f \in 1 .. 24 : q[f] = IF f + n > 24 THEN t[f + n - 24] ELSE 0
    <3>1. Padding(Pad(s), s, Len(s)) /\ Padding(Pad(t), t, Len(t))
      BY <1>2, PadIsPadded
    <3> QED BY <1>2, <3>1, Zenon DEF Padding
  <2> HIDE DEF p, q
  <2>3. k \in 1 .. 24 /\ k + n > 24 /\ k + n - 24 = i
    <3>1. n \in 0 .. 24
      BY <1>1
    <3> HIDE DEF n
    <3> QED BY <3>1
  <2>4. p[k] = s[i] /\ q[k] = t[i]
    BY <2>2, <2>3
  <2>5. ASSUME NEW f \in 1 .. k - 1 PROVE p[f] = q[f]
    <3>1. f \in 1 .. 24
      BY <2>3
    <3>2. CASE f + n > 24
      <4>1. f + n - 24 \in 1 .. i - 1
        BY <1>1, <2>3, <3>2
      <4>2. s[f + n - 24] = t[f + n - 24]
        BY <2>1, <4>1
      <4> QED BY <2>2, <3>1, <3>2, <4>2
    <3>3. CASE ~(f + n > 24)
      BY <2>2, <3>1, <3>3
    <3> QED BY <3>2, <3>3
  <2> HIDE DEF k
  <2>6. p[k] < q[k]
    BY <2>1, <2>4
  <2>7. Before(p, q, 24)
    BY <2>3, <2>5, <2>6 DEF Before
  <2> QED BY <2>7 DEF p, q
<1>3. TextLE(a, b) <=> a = b \/ Before(a, b, n)
  <2>1. SubSeq(b, 1, Len(a)) = b
    <3>1. \A i \in 1 .. n : b[i] \in 0 .. 9
      BY <1>1
    <3> DEFINE cut == SubSeq(b, 1, n)
    <3>2. cut \in Seq(0 .. 9) /\ Len(cut) = n /\ \A i \in 1 .. n : cut[i] = b[i]
      <4>1. n \in Nat /\ n - 1 + 1 = n /\ (1 <= n <=> n # 0) /\ \A i \in 1 .. n : 1 + i - 1 = i
        BY <1>1
      <4> HIDE DEF n
      <4> QED BY <3>1, <4>1, SubSeqProperties
    <3> HIDE DEF cut
    <3>3. cut \in [1 .. n -> 0 .. 9]
      BY <3>2, TextDigits
    <3>4. cut = b
      BY <1>1, <3>2, <3>3
    <3> QED BY <3>4 DEF cut
  <2>2. DOMAIN a \cap DOMAIN b = 1 .. n
    BY <1>1
  <2>3. Len(a) <= Len(b)
    BY <1>1
  <2> QED BY <2>1, <2>2, <2>3, Zenon DEF TextLE, Before
<1>4. a = b \/ Before(a, b, n) \/ Before(b, a, n)
  <2> DEFINE differ == {i \in 1 .. n : a[i] # b[i]}
  <2>1. CASE differ = {}
    <3>1. \A i \in 1 .. n : a[i] = b[i]
      BY <2>1
    <3>2. a = b
      BY <1>1, <3>1
    <3> QED BY <3>2
  <2>2. CASE differ # {}
    <3>1. differ \in SUBSET Nat
      BY <1>1
    <3>2. PICK i \in differ : \A j \in differ : ~(j < i)
      BY <2>2, <3>1, LeastExists
    <3>3. i \in 1 .. n /\ \A j \in 1 .. i - 1 : a[j] = b[j]
      BY <1>1, <3>2
    <3>4. a[i] < b[i] \/ b[i] < a[i]
      <4>1. a[i] \in 0 .. 9 /\ b[i] \in 0 .. 9 /\ a[i] # b[i]
        BY <1>1, <3>2
      <4> QED BY <4>1
    <3> QED BY <3>3, <3>4 DEF Before
  <2> QED BY <2>1, <2>2
<1>5. a = b => NumberLE(a, b)
  BY DEF NumberLE
<1>6. Before(a, b, n) => NumberLE(a, b)
  BY <1>1, <1>2, NumberLess
<1>7. Before(b, a, n) => ~NumberLE(a, b)
  BY <1>1, <1>2, NumberLess
<1>8. Before(b, a, n) => ~Before(a, b, n) /\ a # b
  BY <1>6, <1>7, <1>5
<1> QED BY <1>3, <1>4, <1>5, <1>6, <1>7, <1>8

\* A shorter text is the smaller number, unless the longer one starts with a zero.
LEMMA ShorterIsLess ==
  ASSUME NEW a \in Seq(0 .. 9), NEW b \in Seq(0 .. 9), Len(a) < Len(b), Len(b) <= 24, b[1] # 0
  PROVE  NumberLE(a, b) /\ ~NumberLE(b, a)
<1> DEFINE m == Len(a)
           n == Len(b)
           k == 25 - n
           p == Pad(a)
           q == Pad(b)
<1>1. /\ m \in Nat /\ n \in Nat /\ m < n /\ n <= 24
      /\ \A i \in 1 .. n : b[i] \in 0 .. 9
  BY TextDigits
<1>2. /\ \A f \in 1 .. 24 : p[f] = IF f + m > 24 THEN a[f + m - 24] ELSE 0
      /\ \A f \in 1 .. 24 : q[f] = IF f + n > 24 THEN b[f + n - 24] ELSE 0
  <2>1. Padding(Pad(a), a, Len(a)) /\ Padding(Pad(b), b, Len(b))
    <3>1. Len(a) <= 24
      BY TextDigits
    <3> QED BY <3>1, PadIsPadded
  <2> QED BY <2>1, Zenon DEF Padding
<1> HIDE DEF m, n, p, q
<1>3. k \in 1 .. 24 /\ k + n > 24 /\ k + n - 24 = 1 /\ ~(k + m > 24)
  BY <1>1
<1>4. p[k] = 0 /\ q[k] = b[1]
  BY <1>2, <1>3
<1>5. p[k] < q[k]
  BY <1>1, <1>4
<1>6. ASSUME NEW f \in 1 .. k - 1 PROVE p[f] = q[f]
  <2>1. f \in 1 .. 24 /\ ~(f + n > 24) /\ ~(f + m > 24)
    BY <1>1
  <2> QED BY <1>2, <2>1
<1> HIDE DEF k
<1>7. Before(p, q, 24)
  BY <1>3, <1>5, <1>6 DEF Before
<1>8. Len(a) <= 24
  BY <1>1 DEF m, n
<1> QED BY <1>7, <1>8, NumberLess DEF p, q

-----------------------------------------------------------------------------
(***************************************************************************)
(* The number formats, by the numbers they stand for.                      *)
(***************************************************************************)
LEMMA DigitsAreDigits ==
  ASSUME NEW text \in Seq(Int), Digits(text)
  PROVE  text \in Seq(0 .. 9)
<1> DEFINE n == Len(text)
<1>1. n \in Nat /\ DOMAIN text = 1 .. n /\ text \in [1 .. n -> Int]
  BY LenProperties
<1>2. text \in [1 .. n -> 0 .. 9]
  BY <1>1 DEF Digits
<1> HIDE DEF n
<1> QED BY <1>1, <1>2, SeqDef

LEMMA BoundOfUint64 ==
  /\ MAX_UINT_64_STR \in Seq(0 .. 9)
  /\ Len(MAX_UINT_64_STR) = 20
  /\ MAX_UINT_64_STR[1] # 0
BY DEF MAX_UINT_64_STR

\* An unsigned number that is accepted is not greater than its bound.
LEMMA UintIsNumber ==
  ASSUME NEW data \in Seq(Int), NEW max \in Seq(0 .. 9), Len(max) <= 24, Len(max) = 1 \/ max[1] # 0,
         NEW min, IsUintStr(data, min, max)
  PROVE  data \in Seq(0 .. 9) /\ Canonical(data) /\ Len(data) <= Len(max) /\ NumberLE(data, max)
<1>1. /\ Digits(data) /\ Len(data) > 0 /\ Len(data) <= Len(max) /\ (Len(data) = 1 \/ data[1] # 0)
      /\ (Len(data) < Len(max) \/ TextLE(data, max))
  BY DEF IsUintStr
<1>2. data \in Seq(0 .. 9)
  BY <1>1, DigitsAreDigits
<1>3. Len(data) \in Nat /\ Len(max) \in Nat
  BY LenProperties
<1>4. Canonical(data)
  <2>1. data # <<>>
    BY <1>1
  <2> QED BY <1>1, <2>1 DEF Canonical
<1>5. CASE Len(data) < Len(max)
  <2>1. max[1] # 0
    BY <1>1, <1>3, <1>5
  <2> QED BY <1>1, <1>2, <1>4, <1>5, <2>1, ShorterIsLess
<1>6. CASE Len(data) = Len(max)
  <2>1. TextLE(data, max)
    BY <1>1, <1>3, <1>6
  <2> QED BY <1>1, <1>2, <1>4, <1>6, <2>1, TextIsNumber
<1> QED BY <1>1, <1>3, <1>5, <1>6

\* A margin that is accepted: the denominator is a number of 64 bits whatever it is given
\* as, a number being of the safe range, and bounds the numerator.
LEMMA MarginAccepted ==
  ASSUME NEW margin, BigintLike(margin.numerator), BigintLike(margin.denominator),
         ParseMargin(margin) = OK
  PROVE  /\ IsUint64(margin.denominator.text)
         /\ NumberLE(margin.numerator.text, margin.denominator.text)
<1> DEFINE d == margin.denominator
           n == margin.numerator
           max == POOL_MARGIN_DENOMINATOR_MAX_STR
<1>1. /\ ParseUint64Str(d, <<0>>, max, "POOL_REGISTRATION_INVALID_MARGIN_DENOMINATOR") = OK
      /\ ParseUint64Str(n, <<0>>, d.text, "POOL_REGISTRATION_INVALID_MARGIN") = OK
  BY Checks2 DEF ParseMargin
<1>2. d.text \in Seq(Int) /\ n.text \in Seq(Int) /\ (d.type = "number" /\ d.safe => Len(d.text) <= 17)
  BY DEF BigintLike, SAFE_LENGTH
<1> HIDE DEF d, n, max
<1>3. \/ IsUint64Str(d.text)
      \/ d.type = "number" /\ d.safe /\ IsUintStr(d.text, <<0>>, max)
  BY <1>1 DEF ParseUint64Str, Validate, OK
<1>4. IsUintStr(n.text, <<0>>, d.text)
  BY <1>1 DEF ParseUint64Str, Validate, OK
<1>5. /\ d.text \in Seq(0 .. 9) /\ Canonical(d.text) /\ Len(d.text) <= 20
      /\ NumberLE(d.text, MAX_UINT_64_STR)
  <2>1. CASE IsUint64Str(d.text)
    <3>1. IsUintStr(d.text, <<0>>, MAX_UINT_64_STR)
      BY <2>1 DEF IsUint64Str
    <3>2. Len(MAX_UINT_64_STR) <= 24
      BY BoundOfUint64
    <3> QED BY <1>2, <3>1, <3>2, UintIsNumber, BoundOfUint64
  <2>2. CASE d.type = "number" /\ d.safe /\ IsUintStr(d.text, <<0>>, max)
    <3>1. Len(d.text) <= 17 /\ Len(d.text) \in Nat
      BY <1>2, <2>2, LenProperties
    <3>2. Digits(d.text) /\ Len(d.text) > 0 /\ (Len(d.text) = 1 \/ d.text[1] # 0)
      BY <2>2 DEF IsUintStr
    <3>3. d.text \in Seq(0 .. 9)
      BY <1>2, <3>2, DigitsAreDigits
    <3>4. d.text # <<>>
      BY <3>2
    <3>5. Canonical(d.text)
      BY <3>2, <3>4 DEF Canonical
    <3>6. NumberLE(d.text, MAX_UINT_64_STR)
      <4>1. Len(d.text) < Len(MAX_UINT_64_STR) /\ Len(MAX_UINT_64_STR) <= 24
        BY <3>1, BoundOfUint64
      <4> QED BY <3>3, <4>1, BoundOfUint64, ShorterIsLess
    <3> QED BY <3>1, <3>3, <3>5, <3>6
  <2> QED BY <1>3, <2>1, <2>2
<1>6. Len(d.text) <= 24 /\ (Len(d.text) = 1 \/ d.text[1] # 0)
  <2>1. Len(d.text) \in Nat
    BY <1>2, LenProperties
  <2> QED BY <1>5, <2>1 DEF Canonical
<1>7. IsUint64(d.text)
  BY <1>5, <1>6 DEF IsUint64
<1>8. NumberLE(n.text, d.text)
  BY <1>2, <1>4, <1>5, <1>6, UintIsNumber
<1> QED BY <1>7, <1>8 DEF d, n

\* The margin of an accepted pool is at most one.
THEOREM MarginsAtMostOne == Spec => []MarginAtMostOne
<1>1. ASSUME VerdictRight, Accepted, NEW c \in Elements(Tx.certificates), c.type = "STAKE_POOL_REGISTRATION"
      PROVE  /\ IsUint64(c.pool.margin.denominator.text)
             /\ NumberLE(c.pool.margin.numerator.text, c.pool.margin.denominator.text)
  <2>1. WellFormed(Tx) /\ ParseTransaction(Tx) = OK
    BY <1>1, AcceptedParses, Accepts DEF Tx
  <2>2. ParseCertificate(c) = OK
    BY <1>1, <2>1, CertificatesParsed
  <2>3. ParsePoolParams(c.pool) = OK
    BY <1>1, <2>2 DEF ParseCertificate, CommitteeTypes, StakeTypes, PlainStakeTypes, ConwayStakeTypes,
       DRepTypes
  <2>4. ParseMargin(c.pool.margin) = OK
    BY <2>3, Checks11 DEF ParsePoolParams, Each
  <2>5. IsCertificate(c)
    <3>1. WellFormedList("certificates", Tx.certificates)
      BY <2>1 DEF WellFormed, WellFormedField, TransactionFields, ListParts
    <3> QED BY <3>1 DEF WellFormedList, ListOf, Elements
  <2>6. IsPool(c.pool)
    BY <1>1, <2>5 DEF IsCertificate
  <2> QED BY <2>4, <2>6, MarginAccepted DEF IsPool
<1>2. VerdictRight => MarginAtMostOne
  BY <1>1 DEF MarginAtMostOne
<1> QED BY <1>2, AlwaysRight, PTL

-----------------------------------------------------------------------------
(***************************************************************************)
(* Every verdict has a name.                                               *)
(***************************************************************************)
\* The requests have the types TypesAssumption gives them.
RequestTyped ==
  /\ TypeOK
  /\ method = "signTransaction" => WellFormed(request.tx) /\ IsList(request.additionalWitnessPaths)
  /\ method = "signMessage" => IsMessage(request)
  /\ method = "deriveNativeScriptHash" => IsNativeScript(request.script)
  /\ method \in {"deriveAddress", "showAddress"} => IsAddress(request.address)
  /\ method = "getExtendedPublicKeys" => IsList(request)

LEMMA AllCovered == Covers({Unread, OK} \cup InvalidDataReason \cup KeystoneRefusals)
BY DEF Covers

LEMMA InitTyped == Init => RequestTyped
<1> SUFFICES ASSUME Init PROVE RequestTyped
  OBVIOUS
<1>1. TypeOK
  BY DEF Init, TypeOK
<1>2. ASSUME method = "signTransaction"
      PROVE  WellFormed(request.tx) /\ IsList(request.additionalWitnessPaths)
  <2>1. WellFormed(request.tx)
    BY <1>2, InitRight DEF VerdictRight
  <2>2. request.additionalWitnessPaths \in WitnessPaths
    BY <1>2 DEF Init, AnyTransaction, RequestOf
  <2> QED BY <2>1, <2>2, TypesAssumption
<1>3. CASE method = "signTransaction"
  BY <1>1, <1>2, <1>3 DEF RequestTyped
<1>4. CASE method # "signTransaction"
  BY <1>1, <1>4, TypesAssumption DEF Init, RequestTyped
<1> QED BY <1>3, <1>4

LEMMA TokensCoveredIn ==
  ASSUME NEW R, Covers(R), "MULTIASSET_INVALID_TOKEN_AMOUNT" \in R, NEW tx, WellFormed(tx)
  PROVE  TokensIn(tx, R)
<1>1. WellFormedOptional("mint", tx.mint) /\ WellFormedOptional("collateralOutput", tx.collateralOutput)
  BY DEF WellFormed, WellFormedField, TransactionFields, OptionalParts
<1>2. WellFormedList("outputs", tx.outputs)
  BY DEF WellFormed, WellFormedField, TransactionFields, ListParts
<1>3. \A i \in DOMAIN tx.mint : IsTokenBundle(tx.mint[i])
  BY <1>1 DEF WellFormedOptional, AllOf
<1>4. \A i \in DOMAIN tx.collateralOutput : IsTokenBundle(tx.collateralOutput[i].tokenBundle)
  BY <1>1 DEF WellFormedOptional, AllOf, IsOutput
<1>5. \A i \in DOMAIN tx.outputs.items : IsTokenBundle(tx.outputs.items[i].tokenBundle)
  BY <1>2 DEF WellFormedList, ListOf, IsOutput
<1> QED BY <1>3, <1>4, <1>5, AnyBundleCovered DEF TokensIn

LEMMA NextTyped == RequestTyped /\ [Next]_vars => RequestTyped'
<1> SUFFICES ASSUME RequestTyped, [Next]_vars PROVE RequestTyped'
  OBVIOUS
<1> DEFINE R == {Unread, OK} \cup InvalidDataReason \cup KeystoneRefusals
<1>1. Covers(R)
  BY AllCovered
<1>2. /\ "FEE_INVALID" \in R /\ "MULTIASSET_INVALID_TOKEN_AMOUNT" \in R /\ OK \in R
      /\ KeystoneRefusals \subseteq R
  BY DEF InvalidDataReason
<1>3. /\ "Keystone 3 Pro does not support multisig transaction" \in R
      /\ "Keystone 3 Pro does not support 1694 path" \in R
      /\ "Keystone 3 Pro does not support byron address" \in R
      /\ "byron address is not supported" \in R
  BY DEF KeystoneRefusals
<1> HIDE DEF R
<1>4. method' = method /\ request' = request
  BY DEF Next, Parse, SignTransaction, SignMessage, SignCIP36Vote, SignOperationalCertificate,
     DeriveNativeScriptHash, ShowAddress, DeriveAddress, GetExtendedPublicKeys, vars
<1>5. ASSUME SignTransaction PROVE verdict' \in R
  <2>1. method = "signTransaction" /\ WellFormed(request.tx) /\ IsList(request.additionalWitnessPaths)
    BY <1>5 DEF SignTransaction, Parse, RequestTyped
  <2>2. ParseSignTransactionRequest(request) \in R
    BY <1>1, <1>2, <2>1, TokensCoveredIn, NumberCovered, SignCovered
  <2> QED BY <1>3, <1>5, <2>2 DEF SignTransaction, Parse
<1>6. ASSUME SignMessage PROVE verdict' \in R
  BY <1>1, <1>6, MessageCovered DEF SignMessage, Parse, RequestTyped
<1>7. ASSUME SignCIP36Vote PROVE verdict' \in R
  <2> DEFINE noVoteKey == \A i \in DOMAIN request.witnessPath : i = 1 => request.witnessPath[i] # H(1694)
             allowed == Validate(noVoteKey, "Keystone 3 Pro does not support 1694 path")
  <2>1. allowed \in R
    <3> HIDE DEF noVoteKey
    <3> QED BY <1>2, <1>3 DEF Validate
  <2>2. verdict' = Verdict(<<ParseCVote(request), allowed>>)
    BY <1>7 DEF SignCIP36Vote, Parse
  <2> HIDE DEF allowed
  <2> QED BY <1>1, <1>2, <2>1, <2>2, VoteRequestCovered, Among2
<1>8. ASSUME SignOperationalCertificate PROVE verdict' \in R
  BY <1>1, <1>8, OperationalCertificateCovered DEF SignOperationalCertificate, Parse
<1>9. ASSUME DeriveNativeScriptHash PROVE verdict' \in R
  BY <1>1, <1>9, ScriptCovered DEF DeriveNativeScriptHash, Parse, RequestTyped
<1>10. ASSUME ShowAddress \/ DeriveAddress PROVE verdict' \in R
  <2>1. IsAddress(request.address)
    BY <1>10 DEF ShowAddress, DeriveAddress, Parse, RequestTyped
  <2>2. ParseAddress(request.network, request.address) \in R
    BY <1>1, <2>1, AddressCovered
  <2>3. ASSUME NEW reason \in R
        PROVE  Verdict(<<ParseAddress(request.network, request.address),
                         Validate(request.address.type # "BYRON", reason)>>) \in R
    BY <1>2, <2>2, Among2 DEF Validate
  <2> QED BY <1>3, <1>10, <2>3 DEF ShowAddress, DeriveAddress, Parse
<1>11. ASSUME GetExtendedPublicKeys PROVE verdict' \in R
  BY <1>1, <1>2, <1>11, KeyPathsCovered DEF GetExtendedPublicKeys, Parse, RequestTyped
<1>12. CASE UNCHANGED vars
  BY <1>12 DEF vars, RequestTyped, TypeOK
<1>13. CASE Next
  <2>1. verdict' \in R
    BY <1>5, <1>6, <1>7, <1>8, <1>9, <1>10, <1>11, <1>13 DEF Next
  <2> QED BY <1>4, <2>1 DEF RequestTyped, TypeOK, R
<1> QED BY <1>12, <1>13

LEMMA AlwaysTyped == Spec => []RequestTyped
  BY InitTyped, NextTyped, PTL DEF Spec

\* Whatever the request, of the types of public.ts, the parser ends with OK or with a named
\* reason: no switch of parsing/*.ts reaches unreachable().
THEOREM EveryVerdictNamed == Spec => []TypeOK
<1>1. RequestTyped => TypeOK
  BY DEF RequestTyped
<1> QED BY <1>1, AlwaysTyped, PTL

-----------------------------------------------------------------------------
(***************************************************************************)
(* The fee.                                                                *)
(***************************************************************************)
\* The bound on the supply has as many characters as the bound of 64 bits, and a greater first.
LEMMA SupplyBound ==
  /\ Len(MAX_LOVELACE_SUPPLY_STR) = 20
  /\ 1 \in DOMAIN MAX_LOVELACE_SUPPLY_STR
  /\ MAX_LOVELACE_SUPPLY_STR[1] = 4
<1> DEFINE text == <<4,5,Blank,0,0,0,Blank,0,0,0,Blank,0,0,0,Point,0,0,0,0,0,0>>
           at == {i \in DOMAIN text : text[i] \in {Blank, Point}}
           first == CHOOSE i \in at : \A j \in at : i <= j
<1>1. Len(text) = 21 /\ DOMAIN text = 1 .. 21 /\ text[1] = 4 /\ text[3] = Blank
  OBVIOUS
<1>2. 4 \notin {Blank, Point}
  BY DEF Blank, Point
<1> HIDE DEF text
<1>3. at \in SUBSET Nat /\ 3 \in at /\ 1 \notin at
  BY <1>1, <1>2
<1>4. \E i \in at : \A j \in at : i <= j
  <2>1. PICK i \in at : \A j \in at : ~(j < i)
    BY <1>3, LeastExists
  <2> QED BY <1>3, <2>1
<1>5. first \in at
  BY <1>4
<1>6. first > 1
  <2>1. first \in 1 .. 21 /\ first # 1
    BY <1>1, <1>3, <1>5
  <2> HIDE DEF first
  <2> QED BY <2>1
<1> DEFINE rest == [k \in 1 .. Len(text) - 1 |-> IF k < first THEN text[k] ELSE text[k + 1]]
<1>7. MAX_LOVELACE_SUPPLY_STR = rest
  BY <1>3 DEF MAX_LOVELACE_SUPPLY_STR, RemoveFirst, text
<1>8. rest = [k \in 1 .. 20 |-> IF k < first THEN text[k] ELSE text[k + 1]]
  BY <1>1
<1> HIDE DEF first
<1>9. Len(rest) = 20 /\ 1 \in DOMAIN rest /\ rest[1] = 4
  BY <1>1, <1>6, <1>8
<1> QED BY <1>7, <1>9

LEMMA Uint64Accepted ==
  ASSUME NEW text \in Seq(Int), IsUint64(text)
  PROVE  IsUint64Str(text) /\ IsUintStr(text, <<0>>, MAX_LOVELACE_SUPPLY_STR)
<1> DEFINE n == Len(text)
           max == MAX_UINT_64_STR
           supply == MAX_LOVELACE_SUPPLY_STR
<1>1. /\ Digits(text) /\ text # <<>> /\ (text[1] = 0 => n = 1) /\ n <= 24 /\ NumberLE(text, max)
  BY DEF IsUint64, Canonical
<1>2. n \in Nat /\ DOMAIN text = 1 .. n
  BY LenProperties
<1>3. n > 0
  BY <1>1, <1>2
<1>4. text \in Seq(0 .. 9)
  BY <1>1, DigitsAreDigits
<1>5. n <= 20
  <2> SUFFICES ASSUME 20 < n PROVE FALSE
    BY <1>2
  <2>1. text[1] # 0
    BY <1>1, <1>2
  <2>2. Len(max) < Len(text) /\ Len(text) <= 24
    BY <1>1, BoundOfUint64
  <2> QED BY <1>1, <1>4, <2>1, <2>2, BoundOfUint64, ShorterIsLess
<1>6. text[1] \in 0 .. 9
  <2>1. 1 \in DOMAIN text
    BY <1>2, <1>3
  <2> QED BY <1>1, <2>1, Zenon DEF Digits
<1>7. n = 20 => TextLE(text, max)
  BY <1>1, <1>4, BoundOfUint64, TextIsNumber
<1>8. n = 1 => TextLE(<<0>>, text)
  <2> SUFFICES ASSUME n = 1 PROVE TextLE(<<0>>, text)
    OBVIOUS
  <2>1. Len(<<0>>) = 1 /\ DOMAIN <<0>> = {1} /\ <<0>>[1] = 0
    OBVIOUS
  <2>2. CASE text[1] = 0
    <3>1. SubSeq(text, 1, 1) = <<text[1]>>
      <4> DEFINE cut == SubSeq(text, 1, 1)
      <4>1. \A i \in 1 .. 1 : text[i] \in Int
        BY <1>6
      <4>2. cut \in Seq(Int) /\ Len(cut) = 1 /\ cut[1] = text[1]
        BY <4>1, SubSeqProperties
      <4> HIDE DEF cut
      <4>3. cut = <<cut[1]>>
        BY <4>2
      <4> QED BY <4>2, <4>3 DEF cut
    <3> QED BY <1>2, <2>1, <2>2, <3>1 DEF TextLE
  <2>3. CASE text[1] # 0
    <3>1. 0 < text[1] /\ 1 \in DOMAIN <<0>> \cap DOMAIN text /\ \A j \in 1 .. 1 - 1 : FALSE
      BY <1>2, <1>6, <2>1, <2>3
    <3> QED BY <2>1, <3>1 DEF TextLE
  <2> QED BY <2>2, <2>3
<1>9. n = 20 => TextLE(text, supply)
  <2> SUFFICES ASSUME n = 20 PROVE TextLE(text, supply)
    OBVIOUS
  <2>1. TextLE(text, max) /\ max[1] = 1 /\ Len(max) = 20 /\ DOMAIN max = 1 .. 20
    BY <1>7 DEF MAX_UINT_64_STR
  <2>2. text[1] <= 1
    <3>1. CASE SubSeq(max, 1, Len(text)) = text
      <4>1. SubSeq(max, 1, 20)[1] = max[1]
        BY <2>1 DEF MAX_UINT_64_STR
      <4> QED BY <2>1, <3>1, <4>1
    <3>2. CASE \E i \in DOMAIN text \cap DOMAIN max : text[i] < max[i] /\ \A j \in 1 .. i - 1 : text[j] = max[j]
      <4>1. PICK i \in 1 .. 20 : text[i] < max[i] /\ \A j \in 1 .. i - 1 : text[j] = max[j]
        BY <1>2, <2>1, <3>2
      <4>2. CASE i = 1
        BY <1>6, <2>1, <4>1, <4>2
      <4>3. CASE i # 1
        <5>1. 1 \in 1 .. i - 1
          BY <4>3
        <5> QED BY <2>1, <4>1, <5>1
      <4> QED BY <4>2, <4>3
    <3> QED BY <2>1, <3>1, <3>2 DEF TextLE
  <2>3. text[1] < 4 /\ 1 \in DOMAIN text
    BY <1>2, <1>3, <1>6, <2>2
  <2>4. \A j \in 1 .. 1 - 1 : text[j] = supply[j]
    OBVIOUS
  <2>5. 1 \in DOMAIN text \cap DOMAIN supply /\ text[1] < supply[1]
    BY <2>3, SupplyBound
  <2> HIDE DEF supply
  <2> QED BY <2>4, <2>5 DEF TextLE
<1> HIDE DEF max, supply
<1>10. ASSUME NEW bound, Len(bound) = 20, n = 20 => TextLE(text, bound)
       PROVE  IsUintStr(text, <<0>>, bound)
  <2>1. n < 20 \/ n = 20
    <3>1. n \in Nat /\ n <= 20
      BY <1>2, <1>5
    <3> HIDE DEF n
    <3> QED BY <3>1
  <2>2. n > Len(<<0>>) \/ TextLE(<<0>>, text)
    <3>1. Len(<<0>>) = 1
      OBVIOUS
    <3> QED BY <1>2, <1>3, <1>8, <3>1
  <2> QED BY <1>1, <1>2, <1>3, <1>5, <1>10, <2>1, <2>2 DEF IsUintStr
<1>11. IsUintStr(text, <<0>>, max)
  BY <1>7, <1>10, BoundOfUint64 DEF max
<1>12. IsUintStr(text, <<0>>, supply)
  BY <1>9, <1>10, SupplyBound DEF supply
<1> QED BY <1>11, <1>12 DEF IsUint64Str, max, supply

LEMMA Uint64Is ==
  ASSUME NEW text \in Seq(Int), IsUint64Str(text)
  PROVE  IsUint64(text)
<1>1. Len(MAX_UINT_64_STR) <= 24
  BY BoundOfUint64
<1>2. /\ Canonical(text) /\ Len(text) <= Len(MAX_UINT_64_STR)
      /\ NumberLE(text, MAX_UINT_64_STR)
  BY <1>1, UintIsNumber, BoundOfUint64 DEF IsUint64Str
<1>3. Len(text) <= 24
  BY <1>2, BoundOfUint64, LenProperties
<1> QED BY <1>2, <1>3 DEF IsUint64

\* The fee of an accepted transaction is a 64-bit unsigned number in canonical form, and no
\* such fee is refused (parseCoin of utils/parse.ts, whose own bound binds nothing).
THEOREM FeesAreUint64 == Spec => []FeeIsUint64
<1>1. ASSUME VerdictRight, Signing, Tx.fee.type = "string", verdict = OK
      PROVE  IsUint64(Tx.fee.text)
  <2>1. WellFormed(Tx) /\ ParseTransaction(Tx) = OK
    BY <1>1, AcceptedParses, Accepts DEF Tx, Accepted
  <2>2. ParseCoin(Tx.fee, "FEE_INVALID") = OK
    BY <2>1, Checks20 DEF ParseTransaction
  <2>3. Tx.fee.text \in Seq(Int)
    BY <2>1 DEF WellFormed, WellFormedField, TransactionFields, BigintLike
  <2>4. IsUint64Str(Tx.fee.text)
    BY <1>1, <2>2 DEF ParseCoin, ParseUint64Str, Validate, OK
  <2> QED BY <2>3, <2>4, Uint64Is
<1>2. ASSUME VerdictRight, RequestTyped, Signing, Tx.fee.type = "string", verdict = "FEE_INVALID",
             IsUint64(Tx.fee.text)
      PROVE  FALSE
  <2> DEFINE R == ({Unread, OK} \cup InvalidDataReason \cup KeystoneRefusals) \ {"FEE_INVALID"}
  <2>1. Covers(R) /\ "MULTIASSET_INVALID_TOKEN_AMOUNT" \in R /\ OK \in R
    BY DEF Covers, Disputed, InvalidDataReason, OK
  <2>2. /\ WellFormed(request.tx) /\ IsList(request.additionalWitnessPaths)
        /\ verdict = SignVerdict(request)
    BY <1>2 DEF RequestTyped, VerdictRight, Signing
  <2>3. request.tx.fee.text \in Seq(Int)
    BY <2>2 DEF WellFormed, WellFormedField, TransactionFields, BigintLike
  <2>4. ParseCoin(request.tx.fee, "FEE_INVALID") = OK
    BY <1>2, <2>3, Uint64Accepted DEF Tx, ParseCoin, ParseUint64Str, Validate
  <2> HIDE DEF R
  <2>5. ParseSignTransactionRequest(request) \in R
    BY <2>1, <2>2, <2>4, TokensCoveredIn, SignCovered
  <2>6. verdict # "FEE_INVALID"
    BY <2>2, <2>5 DEF SignVerdict, R
  <2> QED BY <1>2, <2>6
<1>3. VerdictRight /\ RequestTyped => FeeIsUint64
  BY <1>1, <1>2 DEF FeeIsUint64
<1> QED BY <1>3, AlwaysTyped, AlwaysRight, PTL

-----------------------------------------------------------------------------
(***************************************************************************)
(* The bundles of an accepted transaction.                                 *)
(***************************************************************************)
\* The bundles of an accepted transaction are accepted, those of the mint as signed amounts.
LEMMA BundlesAccepted ==
  ASSUME NEW tx, WellFormed(tx), ParseTransaction(tx) = OK
  PROVE  /\ \A b \in OutputBundles(tx) : IsTokenBundle(b) /\ ParseTokenBundle(b, TRUE, FALSE) = OK
         /\ \A b \in MintBundles(tx) : IsTokenBundle(b) /\ ParseTokenBundle(b, FALSE, TRUE) = OK
<1>1. WellFormedOptional("mint", tx.mint) /\ WellFormedOptional("collateralOutput", tx.collateralOutput)
      /\ WellFormedList("outputs", tx.outputs)
  BY DEF WellFormed, WellFormedField, TransactionFields, OptionalParts, ListParts
<1>2. /\ DOMAIN tx.mint \subseteq Nat /\ DOMAIN tx.collateralOutput \subseteq Nat
      /\ DOMAIN tx.outputs.items \subseteq Nat
  BY <1>1 DEF WellFormedOptional, WellFormedList, IsList, IsSequence
<1>3. /\ \A i \in DOMAIN tx.mint : IsTokenBundle(tx.mint[i])
      /\ \A i \in DOMAIN tx.collateralOutput : IsTokenBundle(tx.collateralOutput[i].tokenBundle)
      /\ \A i \in DOMAIN tx.outputs.items : IsTokenBundle(tx.outputs.items[i].tokenBundle)
  BY <1>1 DEF WellFormedOptional, WellFormedList, AllOf, ListOf, IsOutput
<1> DEFINE Outputs(o) == ParseTxOutput(o, tx.network)
           outputs == Verdict([i \in DOMAIN tx.outputs.items |-> Outputs(tx.outputs.items[i])])
           Minted(b) == ParseTokenBundle(b, FALSE, TRUE)
           mint == Verdict([i \in DOMAIN tx.mint |-> Minted(tx.mint[i])])
           Collateral(o) == ParseCollateralOutput(o, tx.network)
           collateral == Verdict([i \in DOMAIN tx.collateralOutput |-> Collateral(tx.collateralOutput[i])])
           array == Validate(IsArray(tx.outputs), "OUTPUTS_NOT_ARRAY")
           list == Verdict(<<array, outputs>>)
<1> DEFINE c1 == ParseNetwork(tx.network)
           c2 == ParseList(ParseTxInput, tx.inputs, "INPUTS_NOT_ARRAY")
           c4 == ParseCoin(tx.fee, "FEE_INVALID")
           c5 == Each(LAMBDA n : ParseUint64(n, "TTL_INVALID"), tx.ttl)
           c6 == ParseList(ParseCertificate, tx.certificates, "CERTIFICATES_NOT_ARRAY")
           c7 == ParseList(ParseWithdrawal, tx.withdrawals, "WITHDRAWALS_NOT_ARRAY")
           c8 == Each(LAMBDA d : ParseTxAuxiliaryData(tx.network, d), tx.auxiliaryData)
           c9 == Each(LAMBDA n : ParseUint64(n, "VALIDITY_INTERVAL_START_INVALID"),
                      tx.validityIntervalStart)
           c11 == Each(LAMBDA h : ParseHexStringOfLength(h, SCRIPT_DATA_HASH_LENGTH,
                                                         "SCRIPT_DATA_HASH_WRONG_LENGTH"),
                       tx.scriptDataHash)
           c12 == ParseList(ParseTxInput, tx.collateralInputs, "COLLATERAL_INPUTS_NOT_ARRAY")
           c13 == ParseList(ParseRequiredSigner, tx.requiredSigners, "REQUIRED_SIGNERS_NOT_ARRAY")
           c14 == Each(LAMBDA b : Validate(b \in {"true", "false"}, "NETWORK_ID_INCLUDE_INVALID"),
                       tx.includeNetworkId)
           c16 == Each(LAMBDA n : ParseCoin(n, "TOTAL_COLLATERAL_NOT_VALID"), tx.totalCollateral)
           c17 == ParseList(ParseTxInput, tx.referenceInputs, "REFERENCE_INPUTS_NOT_ARRAY")
           c18 == ParseVotingProcedures(tx.votingProcedures)
           c19 == Each(LAMBDA n : ParseCoin(n, "TREASURY_NOT_VALID"), tx.treasury)
           c20 == Each(ParseDonation, tx.donation)
<1>4. Verdict(<<c1, c2, list, c4, c5, c6, c7, c8, c9, mint, c11, c12, c13, c14, collateral, c16, c17,
                c18, c19, c20>>) = OK
  BY DEF ParseTransaction, ParseList, Each
<1> HIDE DEF c1, c2, list, c4, c5, c6, c7, c8, c9, mint, c11, c12, c13, c14, collateral, c16, c17,
             c18, c19, c20, outputs, array, Outputs, Minted, Collateral
<1>5. list = OK /\ mint = OK /\ collateral = OK
  BY <1>4, Checks20
<1>6. outputs = OK
  BY <1>5, Checks2 DEF list
<1>7. \A i \in DOMAIN tx.outputs.items : Outputs(tx.outputs.items[i]) = OK
  BY <1>2, <1>6, OnlyIfAllPass DEF outputs
<1>8. \A i \in DOMAIN tx.mint : Minted(tx.mint[i]) = OK
  BY <1>2, <1>5, OnlyIfAllPass DEF mint
<1>9. \A i \in DOMAIN tx.collateralOutput : Collateral(tx.collateralOutput[i]) = OK
  BY <1>2, <1>5, OnlyIfAllPass DEF collateral
<1>10. ASSUME NEW o, Outputs(o) = OK PROVE ParseTokenBundle(o.tokenBundle, TRUE, FALSE) = OK
  BY <1>10, Checks5 DEF Outputs, ParseTxOutput
<1>11. ASSUME NEW o, Collateral(o) = OK PROVE Outputs(o) = OK
  BY <1>11, Checks3 DEF Collateral, Outputs, ParseCollateralOutput
<1>12. ASSUME NEW b \in OutputBundles(tx)
       PROVE  IsTokenBundle(b) /\ ParseTokenBundle(b, TRUE, FALSE) = OK
  BY <1>3, <1>7, <1>9, <1>10, <1>11 DEF OutputBundles, Elements, Range
<1>13. ASSUME NEW b \in MintBundles(tx)
       PROVE  IsTokenBundle(b) /\ ParseTokenBundle(b, FALSE, TRUE) = OK
  BY <1>3, <1>8 DEF MintBundles, Range, Minted
<1> QED BY <1>12, <1>13

-----------------------------------------------------------------------------
(***************************************************************************)
(* The order of the bytes.                                                 *)
(***************************************************************************)
OfOneCase(text, letters) == \A i \in DOMAIN text : text[i] \in 0 .. 9 \cup letters

LEMMA HexOrder ==
  ASSUME NEW letters \in {Capitals, Smalls}, NEW x \in 0 .. 9 \cup letters, NEW y \in 0 .. 9 \cup letters
  PROVE  /\ HexValue(x) \in Int
         /\ x < y => HexValue(x) < HexValue(y)
         /\ HexValue(x) = HexValue(y) => x = y
<1>1. CASE letters = Capitals
  BY <1>1 DEF Capitals, HexValue
<1>2. CASE letters = Smalls
  BY <1>2 DEF Smalls, HexValue
<1> QED BY <1>1, <1>2

\* Of two texts of one length and one case, the text that is smaller has the smaller bytes.
LEMMA SmallerText ==
  ASSUME NEW letters \in {Capitals, Smalls}, NEW a \in Seq(Int), NEW b \in Seq(Int),
         OfOneCase(a, letters), OfOneCase(b, letters), Len(a) = Len(b), a # b, TextLE(a, b)
  PROVE  KeyLess(a, b)
<1>1. DOMAIN a = DOMAIN b /\ DOMAIN a \subseteq Nat /\ DOMAIN b = 1 .. Len(b)
  BY LenProperties
<1>2. SubSeq(b, 1, Len(a)) # a
  BY SubSeqFull
<1>3. PICK i \in DOMAIN a \cap DOMAIN b : a[i] < b[i] /\ \A j \in 1 .. i - 1 : a[j] = b[j]
  BY <1>2 DEF TextLE
<1>4. HexValue(a[i]) < HexValue(b[i])
  BY <1>3, HexOrder DEF OfOneCase
<1>5. \A j \in 1 .. i - 1 : j \in DOMAIN a /\ HexValue(a[j]) = HexValue(b[j])
  <2> TAKE j \in 1 .. i - 1
  <2>1. j \in DOMAIN a
    BY <1>1
  <2> QED BY <1>3, <2>1
<1>6. BytesLess(a, b)
  BY <1>3, <1>4, <1>5 DEF BytesLess
<1> QED BY <1>6 DEF KeyLess

\* A name that is smaller to localeCompare is smaller by its bytes.
LEMMA SmallerName ==
  ASSUME NEW letters \in {Capitals, Smalls}, NEW a \in Seq(Int), NEW b \in Seq(Int),
         OfOneCase(a, letters), OfOneCase(b, letters), a # b, NameLE(a, b)
  PROVE  KeyLess(a, b)
<1>1. /\ Len(a) \in Nat /\ Len(b) \in Nat
      /\ DOMAIN a = 1 .. Len(a) /\ DOMAIN b = 1 .. Len(b)
  BY LenProperties
<1>2. CASE Len(a) # Len(b)
  BY <1>2 DEF NameLE, KeyLess
<1>3. CASE Len(a) = Len(b)
  <2> DEFINE x == HexValues(a)
             y == HexValues(b)
             n == Len(b)
  <2>1. /\ DOMAIN x = 1 .. n /\ DOMAIN y = 1 .. n
        /\ \A i \in 1 .. n : x[i] = HexValue(a[i]) /\ y[i] = HexValue(b[i])
    BY <1>1, <1>3 DEF HexValues
  <2>2. x \in Seq(Int) /\ y \in Seq(Int) /\ Len(x) = n /\ Len(y) = n
    <3>1. \A i \in 1 .. n : HexValue(a[i]) \in Int /\ HexValue(b[i]) \in Int
      BY <1>1, <1>3, HexOrder DEF OfOneCase
    <3>2. x = [i \in 1 .. n |-> HexValue(a[i])] /\ y = [i \in 1 .. n |-> HexValue(b[i])]
      BY <1>1, <1>3 DEF HexValues
    <3> HIDE DEF x, y, n
    <3>3. n \in Nat
      BY <1>1 DEF n
    <3> QED BY <3>1, <3>2, <3>3
  <2>3. x # y
    <3> SUFFICES ASSUME x = y PROVE FALSE
      OBVIOUS
    <3>1. \A i \in 1 .. n : HexValue(a[i]) = HexValue(b[i])
      BY <2>1
    <3>2. \A i \in 1 .. n : a[i] = b[i]
      BY <1>1, <1>3, <3>1, HexOrder DEF OfOneCase
    <3> QED BY <1>3, <3>2, SeqEqual
  <2>4. TextLE(x, y)
    BY <1>3, <2>3 DEF NameLE, LocaleLE
  <2> HIDE DEF x, y
  <2>5. SubSeq(y, 1, Len(x)) # x
    BY <2>2, <2>3, SubSeqFull
  <2>6. PICK i \in DOMAIN x \cap DOMAIN y : x[i] < y[i] /\ \A j \in 1 .. i - 1 : x[j] = y[j]
    BY <2>4, <2>5 DEF TextLE
  <2>7. i \in 1 .. n /\ \A j \in 1 .. i - 1 : j \in 1 .. n
    BY <1>1, <2>1, <2>6
  <2>8. HexValue(a[i]) < HexValue(b[i])
    BY <2>1, <2>6, <2>7
  <2>9. \A j \in 1 .. i - 1 : j \in DOMAIN a /\ HexValue(a[j]) = HexValue(b[j])
    BY <1>1, <1>3, <2>1, <2>6, <2>7
  <2>10. BytesLess(a, b)
    BY <1>1, <2>7, <2>8, <2>9 DEF BytesLess
  <2> QED BY <1>3, <2>10 DEF KeyLess
<1> QED BY <1>2, <1>3

\* The texts of an accepted bundle ascend, when they are of one case.
LEMMA BundleAscends ==
  ASSUME NEW bundle, IsTokenBundle(bundle), NEW emptyAllowed, NEW signed,
         ParseTokenBundle(bundle, emptyAllowed, signed) = OK, OneCase(Texts(bundle))
  PROVE  /\ Ascending(bundle.items, LAMBDA g : g.policyId.text)
         /\ \A g \in Elements(bundle) : Ascending(g.tokens.items, LAMBDA t : t.assetName.text)
<1>1. PICK letters \in {Capitals, Smalls} : \A text \in Texts(bundle) : OfOneCase(text, letters)
  BY DEF OneCase, OfOneCase
<1>2. \A g \in Elements(bundle) : ParseAssetGroup(g, signed) = OK /\ IsAssetGroup(g)
  BY BundleAccepted
<1>3. IsSequence(bundle.items)
  BY DEF IsTokenBundle, ListOf, IsList
<1>4. ASSUME NEW i \in 1 .. Len(bundle.items) - 1
      PROVE  KeyLess(bundle.items[i].policyId.text, bundle.items[i + 1].policyId.text)
  <2> DEFINE g == bundle.items[i]
             h == bundle.items[i + 1]
  <2>1. i \in DOMAIN bundle.items /\ i + 1 \in DOMAIN bundle.items /\ i < i + 1
    BY <1>3 DEF IsSequence
  <2>2. g \in Elements(bundle) /\ h \in Elements(bundle)
    BY <2>1 DEF Elements
  <2>3. g.policyId.text # h.policyId.text /\ TextLE(g.policyId.text, h.policyId.text)
    BY <2>1, BundleAccepted
  <2>4. OfOneCase(g.policyId.text, letters) /\ OfOneCase(h.policyId.text, letters)
    BY <1>1, <2>2 DEF Texts
  <2>5. /\ g.policyId.text \in Seq(Int) /\ Len(g.policyId.text) = 56
        /\ h.policyId.text \in Seq(Int) /\ Len(h.policyId.text) = 56
    <3>1. ASSUME NEW k \in Elements(bundle)
          PROVE  k.policyId.text \in Seq(Int) /\ Len(k.policyId.text) = 56
      <4>1. ParseAssetGroup(k, signed) = OK /\ IsAssetGroup(k)
        BY <1>2
      <4>2. k.policyId.length = 56
        BY <4>1, GroupAccepted
      <4> QED BY <4>1, <4>2 DEF IsAssetGroup, IsText
    <3> QED BY <2>2, <3>1
  <2> HIDE DEF g, h
  <2>6. KeyLess(g.policyId.text, h.policyId.text)
    BY <2>3, <2>4, <2>5, SmallerText
  <2> QED BY <2>6 DEF g, h
<1>5. ASSUME NEW g \in Elements(bundle), NEW i \in 1 .. Len(g.tokens.items) - 1
      PROVE  KeyLess(g.tokens.items[i].assetName.text, g.tokens.items[i + 1].assetName.text)
  <2> DEFINE s == g.tokens.items[i]
             t == g.tokens.items[i + 1]
  <2>1. IsAssetGroup(g) /\ ParseAssetGroup(g, signed) = OK
    BY <1>2
  <2>2. i \in DOMAIN g.tokens.items /\ i + 1 \in DOMAIN g.tokens.items /\ i < i + 1
    BY <2>1 DEF IsAssetGroup, ListOf, IsList, IsSequence
  <2>3. s \in Elements(g.tokens) /\ t \in Elements(g.tokens) /\ IsToken(s) /\ IsToken(t)
    BY <2>1, <2>2 DEF Elements, IsAssetGroup, ListOf
  <2>4. s.assetName.text # t.assetName.text /\ NameLE(s.assetName.text, t.assetName.text)
    BY <2>1, <2>2, GroupAccepted
  <2>5. OfOneCase(s.assetName.text, letters) /\ OfOneCase(t.assetName.text, letters)
    BY <1>1, <2>3 DEF Texts
  <2>6. s.assetName.text \in Seq(Int) /\ t.assetName.text \in Seq(Int)
    BY <2>3 DEF IsToken, IsText
  <2> HIDE DEF s, t
  <2>7. KeyLess(s.assetName.text, t.assetName.text)
    BY <2>4, <2>5, <2>6, SmallerName
  <2> QED BY <2>7 DEF s, t
<1> QED BY <1>4, <1>5 DEF Ascending

\* Policies and names of an accepted bundle follow each other in the canonical order of their
\* bytes, without duplicates, when they are written in one case (parseTokenBundle and
\* parseAssetGroup of output.ts, which compare them as texts).
THEOREM BundlesInOrder == Spec => []BundlesCanonical
<1>1. ASSUME VerdictRight PROVE BundlesCanonical
  <2> SUFFICES ASSUME Accepted, NEW bundle \in OutputBundles(Tx) \cup MintBundles(Tx), OneCase(Texts(bundle))
               PROVE  /\ Ascending(bundle.items, LAMBDA g : g.policyId.text)
                      /\ \A g \in Elements(bundle) : Ascending(g.tokens.items, LAMBDA t : t.assetName.text)
    BY DEF BundlesCanonical
  <2>1. WellFormed(Tx) /\ ParseTransaction(Tx) = OK
    BY <1>1, AcceptedParses, Accepts DEF Tx
  <2>2. IsTokenBundle(bundle) /\ \E emptyAllowed, signed \in BOOLEAN : ParseTokenBundle(bundle, emptyAllowed, signed) = OK
    BY <2>1, BundlesAccepted
  <2>3. PICK emptyAllowed, signed : ParseTokenBundle(bundle, emptyAllowed, signed) = OK
    BY <2>2
  <2> QED BY <2>2, <2>3, BundleAscends
<1> QED BY <1>1, AlwaysRight, PTL

-----------------------------------------------------------------------------
(***************************************************************************)
(* The amounts of the tokens.                                              *)
(***************************************************************************)
Differ(a, b) == \E i \in 1 .. Len(a) : a[i] < b[i] /\ \A j \in 1 .. i - 1 : a[j] = b[j]

LEMMA SameLengthLE ==
  ASSUME NEW a \in Seq(Int), NEW b \in Seq(Int), Len(a) = Len(b)
  PROVE  TextLE(a, b) <=> a = b \/ Differ(a, b)
<1>1. DOMAIN a \cap DOMAIN b = 1 .. Len(a) /\ Len(a) \in Nat
  BY LenProperties
<1>2. SubSeq(b, 1, Len(a)) = b
  BY SubSeqFull
<1>3. (\E i \in DOMAIN a \cap DOMAIN b : a[i] < b[i] /\ \A j \in 1 .. i - 1 : a[j] = b[j])
        <=> Differ(a, b)
  BY <1>1 DEF Differ
<1>4. Len(a) <= Len(b) /\ SubSeq(b, 1, Len(a)) = a <=> a = b
  BY <1>1, <1>2, SMTT(30)
<1> QED BY <1>3, <1>4 DEF TextLE

\* Two texts that start with the same character compare as what follows it.
LEMMA TailOrder ==
  ASSUME NEW a \in Seq(Int), NEW b \in Seq(Int), Len(a) = Len(b), a # <<>>, b # <<>>, a[1] = b[1]
  PROVE  TextLE(a, b) <=> TextLE(Tail(a), Tail(b))
<1> DEFINE x == Tail(a)
           y == Tail(b)
           n == Len(a)
<1>1. /\ n \in Nat /\ n > 0 /\ Len(b) = n
      /\ x \in Seq(Int) /\ y \in Seq(Int) /\ Len(x) = n - 1 /\ Len(y) = n - 1
      /\ \A i \in 1 .. n - 1 : x[i] = a[i + 1] /\ y[i] = b[i + 1]
  BY HeadTailProperties, LenProperties
<1>2. TextLE(a, b) <=> a = b \/ Differ(a, b)
  BY SameLengthLE
<1>3. TextLE(x, y) <=> x = y \/ Differ(x, y)
  BY <1>1, SameLengthLE
<1>4. a = b => x = y
  OBVIOUS
<1> HIDE DEF x, y, n
<1>5. ASSUME x = y PROVE a = b
  <2>1. ASSUME NEW i \in 1 .. n PROVE a[i] = b[i]
    <3>1. CASE i = 1
      BY <3>1
    <3>2. CASE i # 1
      <4>1. i - 1 \in 1 .. n - 1 /\ (i - 1) + 1 = i
        BY <1>1, <3>2
      <4> QED BY <1>1, <1>5, <4>1
    <3> QED BY <3>1, <3>2
  <2> QED BY <1>1, <2>1, SeqEqual DEF n
<1>6. ASSUME Differ(a, b) PROVE Differ(x, y)
  <2>1. PICK i \in 1 .. n : a[i] < b[i] /\ \A j \in 1 .. i - 1 : a[j] = b[j]
    BY <1>6 DEF Differ, n
  <2>2. a[1] \in Int /\ i # 1
    BY <1>1, <2>1, ElementOfSeq DEF n
  <2>3. i - 1 \in 1 .. n - 1 /\ (i - 1) + 1 = i
    BY <1>1, <2>2
  <2>4. x[i - 1] < y[i - 1]
    BY <1>1, <2>1, <2>3
  <2>5. ASSUME NEW j \in 1 .. (i - 1) - 1 PROVE x[j] = y[j]
    <3>1. j + 1 \in 1 .. i - 1 /\ j \in 1 .. n - 1
      BY <1>1, <2>3
    <3> QED BY <1>1, <2>1, <3>1
  <2> QED BY <1>1, <2>3, <2>4, <2>5 DEF Differ
<1>7. ASSUME Differ(x, y) PROVE Differ(a, b)
  <2>1. PICK i \in 1 .. n - 1 : x[i] < y[i] /\ \A j \in 1 .. i - 1 : x[j] = y[j]
    BY <1>1, <1>7 DEF Differ
  <2>2. i + 1 \in 1 .. n /\ a[i + 1] < b[i + 1]
    BY <1>1, <2>1
  <2>3. ASSUME NEW j \in 1 .. (i + 1) - 1 PROVE a[j] = b[j]
    <3>1. CASE j = 1
      BY <3>1
    <3>2. CASE j # 1
      <4>1. j - 1 \in 1 .. i - 1 /\ j - 1 \in 1 .. n - 1 /\ (j - 1) + 1 = j
        BY <1>1, <2>1, <3>2
      <4> QED BY <1>1, <2>1, <4>1
    <3> QED BY <3>1, <3>2
  <2> QED BY <2>2, <2>3 DEF Differ, n
<1> QED BY <1>2, <1>3, <1>4, <1>5, <1>6, <1>7 DEF x, y

LEMMA BoundsOfInt64 ==
  /\ MAX_INT_64_STR \in Seq(0 .. 9) /\ Len(MAX_INT_64_STR) = 19 /\ MAX_INT_64_STR[1] # 0
  /\ MIN_INT_64_STR \in Seq(Int) /\ Len(MIN_INT_64_STR) = 20 /\ MIN_INT_64_STR[1] = Minus
  /\ Tail(MIN_INT_64_STR) \in Seq(0 .. 9) /\ Len(Tail(MIN_INT_64_STR)) = 19
  /\ Tail(MIN_INT_64_STR)[1] # 0
<1>1. MAX_INT_64_STR \in Seq(0 .. 9) /\ Len(MAX_INT_64_STR) = 19 /\ MAX_INT_64_STR[1] # 0
  BY DEF MAX_INT_64_STR
<1>2. MIN_INT_64_STR \in Seq(Int) /\ Len(MIN_INT_64_STR) = 20 /\ MIN_INT_64_STR[1] = Minus
  BY DEF MIN_INT_64_STR, Minus
<1>3. Tail(MIN_INT_64_STR) = <<9,2,2,3,3,7,2,0,3,6,8,5,4,7,7,5,8,0,8>>
  BY DEF MIN_INT_64_STR
<1> DEFINE tail == <<9,2,2,3,3,7,2,0,3,6,8,5,4,7,7,5,8,0,8>>
<1>4. tail \in Seq(0 .. 9) /\ Len(tail) = 19 /\ tail[1] # 0
  OBVIOUS
<1> HIDE DEF tail
<1>5. Tail(MIN_INT_64_STR) = tail
  BY <1>3 DEF tail
<1> QED BY <1>1, <1>2, <1>4, <1>5

\* A number of digits without leading zeros, up to a bound without one.
NumberWithin(text, max) == Len(text) <= 24 /\ NumberLE(text, max)
TextWithin(text, max) == Len(text) < Len(max) \/ (Len(text) = Len(max) /\ TextLE(text, max))
LEMMA WithinBound ==
  ASSUME NEW text \in Seq(Int), NEW max \in Seq(0 .. 9), Len(max) > 0, Len(max) <= 24,
         max[1] # 0, Canonical(text)
  PROVE  NumberWithin(text, max) <=> TextWithin(text, max)
<1>1. text \in Seq(0 .. 9) /\ text # <<>> /\ (text[1] = 0 => Len(text) = 1)
  BY DigitsAreDigits DEF Canonical
<1>2. Len(text) \in Nat /\ Len(max) \in Nat /\ Len(text) > 0
  BY <1>1, LenProperties
<1>3. CASE Len(text) < Len(max)
  BY <1>1, <1>2, <1>3, ShorterIsLess DEF NumberWithin, TextWithin
<1>4. CASE Len(text) = Len(max)
  BY <1>1, <1>2, <1>4, TextIsNumber DEF NumberWithin, TextWithin
<1>5. CASE Len(max) < Len(text)
  <2>1. text[1] # 0
    BY <1>1, <1>2, <1>5
  <2>2. ASSUME Len(text) <= 24 PROVE ~NumberLE(text, max)
    BY <1>1, <1>5, <2>1, <2>2, ShorterIsLess
  <2> QED BY <1>2, <1>5, <2>2 DEF NumberWithin, TextWithin
<1> QED BY <1>2, <1>3, <1>4, <1>5

LEMMA UpTo19 == \A l \in 1 .. 19 : l < 19 \/ l = 19
OBVIOUS

LEMMA SignedParts ==
  ASSUME NEW text \in Seq(Int), Negative(text)
  PROVE  /\ Tail(text) \in Seq(Int) /\ Len(text) = Len(Tail(text)) + 1 /\ Len(Tail(text)) \in Nat
         /\ \A i \in 1 .. Len(Tail(text)) : Tail(text)[i] = text[i + 1]
BY HeadTailProperties, LenProperties DEF Negative

\* A signed number that is accepted, of at most 19 digits, is one of 64 bits, or -0.
LEMMA IntIsNumber ==
  ASSUME NEW text \in Seq(Int), IsInt64Str(text), Len(Unsigned(text)) \in 1 .. 19
  PROVE  IsInt64(text) \/ text = <<Minus, 0>>
<1> DEFINE min == MIN_INT_64_STR
           max == MAX_INT_64_STR
<1>1. /\ Len(text) > 0 /\ \A i \in 2 .. Len(text) : text[i] \in 0 .. 9
      /\ text[1] = Minus \/ text[1] \in 0 .. 9
      /\ text[1] = Minus => IsNegativeStr(text, min)
      /\ text[1] # Minus => IsPositiveStr(text, max)
  BY DEF IsInt64Str, IsIntStr
<1>2. Len(text) \in Nat /\ DOMAIN text = 1 .. Len(text) /\ text # <<>>
  BY <1>1, LenProperties
<1>3. CASE text[1] # Minus
  <2>1. ~Negative(text) /\ Unsigned(text) = text
    BY <1>3 DEF Negative, Unsigned
  <2>2. Digits(text)
    <3>1. \A i \in 1 .. Len(text) : i = 1 \/ i \in 2 .. Len(text)
      BY <1>2
    <3> QED BY <1>1, <1>2, <1>3, <3>1 DEF Digits
  <2>3. Canonical(text)
    BY <1>1, <1>2, <1>3, <2>2 DEF Canonical, IsPositiveStr
  <2>4. max \in Seq(0 .. 9) /\ Len(max) = 19 /\ max[1] # 0
    BY BoundsOfInt64
  <2>5. Len(text) < Len(max) \/ TextLE(text, max)
    BY <1>1, <1>3 DEF IsPositiveStr
  <2>6. Len(text) \in 1 .. 19
    BY <2>1
  <2> HIDE DEF max
  <2>7. TextWithin(text, max)
    <3>1. Len(text) < 19 \/ Len(text) = 19
      BY <2>6, UpTo19, Zenon
    <3> QED BY <2>4, <2>5, <3>1 DEF TextWithin
  <2>8. NumberWithin(text, max)
    <3>1. Len(max) > 0 /\ Len(max) <= 24
      BY <2>4
    <3> QED BY <2>3, <2>4, <2>7, <3>1, WithinBound
  <2> QED BY <2>1, <2>3, <2>8 DEF IsInt64, NumberWithin, max
<1>4. CASE text[1] = Minus
  <2> DEFINE t == Tail(text)
             m == Tail(min)
  <2>1. Negative(text) /\ Unsigned(text) = t
    BY <1>2, <1>4 DEF Negative, Unsigned
  <2>2. /\ t \in Seq(Int) /\ Len(text) = Len(t) + 1 /\ Len(t) \in 1 .. 19
        /\ \A i \in 1 .. Len(t) : t[i] = text[i + 1]
    BY <2>1, SignedParts
  <2>3. /\ Len(text) = 2 \/ Len(text) = 1 \/ text[2] # 0
        /\ Len(text) < 20 \/ TextLE(text, min)
    BY <1>1, <1>4, BoundsOfInt64 DEF IsNegativeStr
  <2>4. m \in Seq(0 .. 9) /\ Len(m) = 19 /\ m[1] # 0 /\ Len(min) = 20 /\ min[1] = Minus /\ min \in Seq(Int)
    BY BoundsOfInt64
  <2>5. TextLE(text, min) /\ Len(text) = 20 => TextLE(t, m)
    <3>1. min # <<>>
      BY <2>4
    <3> QED BY <1>2, <1>4, <2>4, <3>1, TailOrder
  <2> HIDE DEF t, m, min
  <2>6. Digits(t)
    <3>1. DOMAIN t = 1 .. Len(t)
      BY <2>2, LenProperties
    <3>2. \A i \in 1 .. Len(t) : i + 1 \in 2 .. Len(text)
      BY <2>2
    <3>3. \A i \in 1 .. Len(t) : t[i] \in 0 .. 9
      BY <1>1, <2>2, <3>2
    <3> QED BY <3>1, <3>3 DEF Digits
  <2>7. t[1] = text[2] /\ t # <<>>
    <3>1. 1 \in 1 .. Len(t)
      BY <2>2
    <3> QED BY <2>2, <3>1
  <2>8. Canonical(t)
    BY <2>2, <2>3, <2>6, <2>7 DEF Canonical
  <2>9. TextWithin(t, m)
    <3>1. Len(t) < 19 \/ Len(t) = 19
      BY <2>2, UpTo19, Zenon
    <3>2. Len(t) = 19 => Len(text) = 20 /\ ~(Len(text) < 20)
      BY <2>2
    <3> QED BY <2>3, <2>4, <2>5, <3>1, <3>2 DEF TextWithin
  <2>10. NumberWithin(t, m)
    <3>1. Len(m) > 0 /\ Len(m) <= 24
      BY <2>4
    <3> QED BY <2>2, <2>4, <2>8, <2>9, <3>1, WithinBound
  <2>11. CASE text[2] # 0
    BY <2>1, <2>8, <2>10, <2>11 DEF IsInt64, NumberWithin, t, m, min
  <2>12. CASE text[2] = 0
    <3>1. Len(text) = 2
      BY <2>2, <2>3, <2>12
    <3>2. text = <<Minus, 0>>
      BY <1>4, <2>12, <3>1
    <3> QED BY <3>2
  <2> QED BY <2>11, <2>12
<1> QED BY <1>3, <1>4

LEMMA Int64Accepted ==
  ASSUME NEW text \in Seq(Int), IsInt64(text)
  PROVE  IsInt64Str(text)
<1> DEFINE min == MIN_INT_64_STR
           max == MAX_INT_64_STR
<1>1. Len(text) \in Nat /\ DOMAIN text = 1 .. Len(text)
  BY LenProperties
<1>2. CASE ~Negative(text)
  <2>1. Canonical(text) /\ NumberWithin(text, max)
    BY <1>2 DEF IsInt64, Unsigned, NumberWithin
  <2>2. TextWithin(text, max)
    <3>1. max \in Seq(0 .. 9) /\ Len(max) > 0 /\ Len(max) <= 24 /\ max[1] # 0
      BY BoundsOfInt64
    <3> HIDE DEF max
    <3> QED BY <2>1, <3>1, WithinBound
  <2>3. text # <<>> /\ Digits(text) /\ (text[1] = 0 => Len(text) = 1)
    BY <2>1 DEF Canonical
  <2>4. text[1] # Minus
    BY <1>2, <2>3 DEF Negative
  <2>5. \A i \in 1 .. Len(text) : text[i] \in 0 .. 9
    BY <1>1, <2>3 DEF Digits
  <2>6. Len(text) > 0 /\ text[1] \in 0 .. 9 /\ \A i \in 2 .. Len(text) : text[i] \in 0 .. 9
    <3>1. Len(text) > 0
      BY <1>1, <2>3
    <3>2. 1 \in 1 .. Len(text) /\ \A i \in 2 .. Len(text) : i \in 1 .. Len(text)
      BY <1>1, <3>1
    <3>3. text[1] \in 0 .. 9
      BY <2>5, <3>2, Zenon
    <3> QED BY <2>5, <3>1, <3>2, <3>3
  <2>7. IsPositiveStr(text, max)
    BY <2>2, <2>3 DEF IsPositiveStr, TextWithin
  <2> HIDE DEF max, min
  <2> QED BY <2>4, <2>6, <2>7 DEF IsInt64Str, IsIntStr, max, min
<1>3. CASE Negative(text)
  <2> DEFINE t == Tail(text)
             m == Tail(min)
  <2>1. Canonical(t) /\ text[2] # 0 /\ NumberWithin(t, m)
    BY <1>3 DEF IsInt64, Unsigned, NumberWithin
  <2>2. /\ t \in Seq(Int) /\ Len(text) = Len(t) + 1 /\ Len(t) \in Nat
        /\ \A i \in 1 .. Len(t) : t[i] = text[i + 1]
    BY <1>3, SignedParts
  <2>3. m \in Seq(0 .. 9) /\ Len(m) = 19 /\ m[1] # 0 /\ Len(min) = 20 /\ min[1] = Minus /\ min \in Seq(Int)
    BY BoundsOfInt64
  <2>4. text # <<>> /\ text[1] = Minus
    BY <1>3 DEF Negative
  <2>5. TextLE(t, m) /\ Len(text) = 20 => TextLE(text, min)
    <3>1. min # <<>>
      BY <2>3
    <3> QED BY <2>3, <2>4, <3>1, TailOrder
  <2> HIDE DEF t, m, min
  <2>6. TextWithin(t, m)
    <3>1. Len(m) > 0 /\ Len(m) <= 24
      BY <2>3
    <3> QED BY <2>1, <2>2, <2>3, <3>1, WithinBound
  <2>7. Len(text) < 20 \/ TextLE(text, min)
    <3>1. CASE Len(t) < Len(m)
      BY <2>2, <2>3, <3>1
    <3>2. CASE Len(t) = Len(m) /\ TextLE(t, m)
      <4>1. Len(text) = 20
        BY <2>2, <2>3, <3>2
      <4> QED BY <2>5, <3>2, <4>1
    <3> QED BY <2>6, <3>1, <3>2 DEF TextWithin
  <2>8. ASSUME NEW i \in 2 .. Len(text) PROVE text[i] \in 0 .. 9
    <3>1. i - 1 \in 1 .. Len(t) /\ (i - 1) + 1 = i
      BY <2>2
    <3>2. DOMAIN t = 1 .. Len(t)
      BY <2>2, LenProperties
    <3>3. t[i - 1] \in 0 .. 9
      BY <2>1, <3>1, <3>2, Zenon DEF Canonical, Digits
    <3>4. t[i - 1] = text[i]
      BY <2>2, <3>1
    <3> QED BY <3>3, <3>4
  <2>9. IsNegativeStr(text, min)
    BY <2>1, <2>3, <2>7 DEF IsNegativeStr
  <2>10. Len(text) > 0
    BY <2>2
  <2> QED BY <2>4, <2>8, <2>9, <2>10 DEF IsInt64Str, IsIntStr, min
<1> QED BY <1>2, <1>3

\* The amounts of a bundle, their types, and their verdicts in one that is accepted.
LEMMA AmountsOfBundle ==
  ASSUME NEW bundle, IsTokenBundle(bundle), NEW g \in Elements(bundle), NEW t \in Elements(g.tokens)
  PROVE  IsAssetGroup(g) /\ IsToken(t) /\ t.amount.text \in Seq(Int)
BY DEF IsTokenBundle, IsAssetGroup, ListOf, IsToken, BigintLike, Elements

LEMMA AmountParsed ==
  ASSUME NEW bundle, IsTokenBundle(bundle), NEW emptyAllowed, NEW signed,
         ParseTokenBundle(bundle, emptyAllowed, signed) = OK,
         NEW g \in Elements(bundle), NEW t \in Elements(g.tokens)
  PROVE  ParseTokenAmount(t.amount, signed) = OK
<1>1. ParseAssetGroup(g, signed) = OK /\ IsAssetGroup(g)
  BY BundleAccepted
<1> QED BY <1>1, GroupAccepted

LEMMA AmountInRange ==
  ASSUME NEW amount, amount.text \in Seq(Int)
  PROVE  /\ ParseTokenAmount(amount, FALSE) = OK => IsUint64(amount.text)
         /\ ParseTokenAmount(amount, TRUE) = OK => IsInt64Str(amount.text)
         /\ Readable(amount) /\ IsUint64(amount.text) => ParseTokenAmount(amount, FALSE) = OK
         /\ Readable(amount) /\ IsInt64(amount.text) => ParseTokenAmount(amount, TRUE) = OK
<1>1. ASSUME ParseTokenAmount(amount, FALSE) = OK PROVE IsUint64(amount.text)
  <2>1. IsUint64Str(amount.text)
    BY <1>1 DEF ParseTokenAmount, ParseUint64, ParseUint64Str, Validate, OK, IsUint64Str
  <2> QED BY <2>1, Uint64Is
<1>2. ASSUME ParseTokenAmount(amount, TRUE) = OK PROVE IsInt64Str(amount.text)
  BY <1>2 DEF ParseTokenAmount, ParseInt64Str, Validate, OK
<1>3. ASSUME Readable(amount), IsUint64(amount.text) PROVE ParseTokenAmount(amount, FALSE) = OK
  <2>1. IsUint64Str(amount.text)
    BY <1>3, Uint64Accepted
  <2>2. amount.text[1] # Minus
    <3>1. Digits(amount.text) /\ amount.text # <<>>
      BY <1>3 DEF IsUint64, Canonical
    <3>2. 1 \in DOMAIN amount.text
      BY <3>1, LenProperties
    <3>3. amount.text[1] \in 0 .. 9
      BY <3>1, <3>2, Zenon DEF Digits
    <3> QED BY <3>3 DEF Minus
  <2>3. IsUintStr(amount.text, <<0>>, MAX_UINT_64_STR)
    BY <2>1 DEF IsUint64Str
  <2>4. ParseUint64(amount, "MULTIASSET_INVALID_TOKEN_AMOUNT") = OK
    BY <1>3, <2>1, <2>2, <2>3 DEF Readable, ParseUint64, ParseUint64Str, Validate
  <2> QED BY <2>4 DEF ParseTokenAmount
<1>4. ASSUME Readable(amount), IsInt64(amount.text) PROVE ParseTokenAmount(amount, TRUE) = OK
  <2>1. IsInt64Str(amount.text)
    BY <1>4, Int64Accepted
  <2>2. ParseInt64Str(amount, "MULTIASSET_INVALID_TOKEN_AMOUNT") = OK
    BY <1>4, <2>1 DEF Readable, ParseInt64Str, Validate
  <2> QED BY <2>2 DEF ParseTokenAmount
<1> QED BY <1>1, <1>2, <1>3, <1>4

\* A bundle of which every amount passes is not refused for an amount.
LEMMA BundleCoveredBy ==
  ASSUME NEW R, Covers(R), NEW bundle, IsTokenBundle(bundle), NEW emptyAllowed, NEW signed,
         \A g \in Elements(bundle) : \A t \in Elements(g.tokens) : ParseTokenAmount(t.amount, signed) = OK
  PROVE  ParseTokenBundle(bundle, emptyAllowed, signed) \in R
<1>1. {"MULTIASSET_INVALID_ASSET_NAME"} \subseteq R /\ OK \in R
  BY DEF Covers, InvalidDataReason, Disputed
<1>2. ASSUME NEW i \in DOMAIN bundle.items PROVE ParseAssetGroup(bundle.items[i], signed) \in R
  <2> DEFINE group == bundle.items[i]
             tokens == group.tokens.items
  <2>1. group \in Elements(bundle) /\ IsAssetGroup(group)
    BY DEF Elements, IsTokenBundle, ListOf
  <2>2. ASSUME NEW k \in DOMAIN tokens PROVE ParseToken(tokens[k], signed) \in R
    <3>1. ParseTokenAmount(tokens[k].amount, signed) = OK
      BY <2>1 DEF Elements
    <3> QED BY <1>1, <3>1, Among3 DEF ParseToken, ParseHexString, Validate
  <2>3. DOMAIN tokens \subseteq Nat
    BY <2>1 DEF IsAssetGroup, ListOf, IsList, IsSequence
  <2>4. Verdict([k \in DOMAIN tokens |-> ParseToken(tokens[k], signed)]) \in R
    BY <1>1, <2>2, <2>3, VerdictCovered
  <2> QED BY <2>4, AssetGroupCovered
<1> QED BY <1>2, TokenBundleCovered

\* The tokens of an accepted transaction have 64-bit amounts, and none is refused for its
\* amounts when they all are (parseUint64_str and parseInt64_str of utils/parse.ts).
THEOREM TokensAreInRange == Spec => []TokensInRange
<1>1. ASSUME VerdictRight, Signing, verdict = OK
      PROVE  /\ \A a \in Amounts(OutputBundles(Tx)) : IsUint64(a.text)
             /\ \A a \in Amounts(MintBundles(Tx)) :
                  Len(Unsigned(a.text)) \in 1 .. 19 => IsInt64(a.text) \/ a.text = <<Minus, 0>>
  <2>1. WellFormed(Tx) /\ ParseTransaction(Tx) = OK
    BY <1>1, AcceptedParses, Accepts DEF Tx, Accepted
  <2>2. ASSUME NEW a \in Amounts(OutputBundles(Tx)) PROVE IsUint64(a.text)
    <3>1. PICK b \in OutputBundles(Tx) : \E g \in Elements(b) : \E t \in Elements(g.tokens) : a = t.amount
      BY DEF Amounts
    <3>2. PICK g \in Elements(b) : \E t \in Elements(g.tokens) : a = t.amount
      BY <3>1
    <3>3. PICK t \in Elements(g.tokens) : a = t.amount
      BY <3>2
    <3>4. IsTokenBundle(b) /\ ParseTokenBundle(b, TRUE, FALSE) = OK
      BY <2>1, BundlesAccepted
    <3>5. ParseTokenAmount(a, FALSE) = OK /\ a.text \in Seq(Int)
      BY <3>3, <3>4, AmountParsed, AmountsOfBundle
    <3> QED BY <3>5, AmountInRange
  <2>3. ASSUME NEW a \in Amounts(MintBundles(Tx)), Len(Unsigned(a.text)) \in 1 .. 19
        PROVE  IsInt64(a.text) \/ a.text = <<Minus, 0>>
    <3>1. PICK b \in MintBundles(Tx) : \E g \in Elements(b) : \E t \in Elements(g.tokens) : a = t.amount
      BY DEF Amounts
    <3>2. PICK g \in Elements(b) : \E t \in Elements(g.tokens) : a = t.amount
      BY <3>1
    <3>3. PICK t \in Elements(g.tokens) : a = t.amount
      BY <3>2
    <3>4. IsTokenBundle(b) /\ ParseTokenBundle(b, FALSE, TRUE) = OK
      BY <2>1, BundlesAccepted
    <3>5. ParseTokenAmount(a, TRUE) = OK /\ a.text \in Seq(Int)
      BY <3>3, <3>4, AmountParsed, AmountsOfBundle
    <3> QED BY <2>3, <3>5, AmountInRange, IntIsNumber
  <2> QED BY <2>2, <2>3
<1>2. ASSUME VerdictRight, RequestTyped, Signing, verdict = "MULTIASSET_INVALID_TOKEN_AMOUNT",
             \A a \in Amounts(OutputBundles(Tx)) : Readable(a) /\ IsUint64(a.text),
             \A a \in Amounts(MintBundles(Tx)) : Readable(a) /\ IsInt64(a.text)
      PROVE  FALSE
  <2> DEFINE R == ({Unread, OK} \cup InvalidDataReason \cup KeystoneRefusals)
                    \ {"MULTIASSET_INVALID_TOKEN_AMOUNT"}
  <2>1. Covers(R) /\ OK \in R /\ "FEE_INVALID" \in R
    BY DEF Covers, Disputed, InvalidDataReason, OK
  <2>2. /\ WellFormed(Tx) /\ IsList(request.additionalWitnessPaths)
        /\ verdict = SignVerdict(request)
    BY <1>2 DEF RequestTyped, VerdictRight, Signing, Tx
  <2>3. /\ \A b \in OutputBundles(Tx) : IsTokenBundle(b)
        /\ \A b \in MintBundles(Tx) : IsTokenBundle(b)
    <3>1. /\ WellFormedOptional("mint", Tx.mint) /\ WellFormedOptional("collateralOutput", Tx.collateralOutput)
          /\ WellFormedList("outputs", Tx.outputs)
      BY <2>2 DEF WellFormed, WellFormedField, TransactionFields, OptionalParts, ListParts
    <3> QED BY <3>1 DEF WellFormedOptional, WellFormedList, AllOf, ListOf, IsOutput, OutputBundles,
                        MintBundles, Elements, Range
  <2> HIDE DEF R
  <2>4. ASSUME NEW b \in OutputBundles(Tx) PROVE ParseTokenBundle(b, TRUE, FALSE) \in R
    <3>1. ASSUME NEW g \in Elements(b), NEW t \in Elements(g.tokens)
          PROVE  ParseTokenAmount(t.amount, FALSE) = OK
      <4>1. t.amount \in Amounts(OutputBundles(Tx))
        BY DEF Amounts
      <4>2. t.amount.text \in Seq(Int)
        BY <2>3, AmountsOfBundle
      <4> QED BY <1>2, <4>1, <4>2, AmountInRange
    <3> QED BY <2>1, <2>3, <3>1, BundleCoveredBy
  <2>5. ASSUME NEW b \in MintBundles(Tx) PROVE ParseTokenBundle(b, FALSE, TRUE) \in R
    <3>1. ASSUME NEW g \in Elements(b), NEW t \in Elements(g.tokens)
          PROVE  ParseTokenAmount(t.amount, TRUE) = OK
      <4>1. t.amount \in Amounts(MintBundles(Tx))
        BY DEF Amounts
      <4>2. t.amount.text \in Seq(Int)
        BY <2>3, AmountsOfBundle
      <4> QED BY <1>2, <4>1, <4>2, AmountInRange
    <3> QED BY <2>1, <2>3, <3>1, BundleCoveredBy
  <2>6. TokensIn(Tx, R)
    <3>1. /\ \A i \in DOMAIN Tx.mint : Tx.mint[i] \in MintBundles(Tx)
          /\ \A i \in DOMAIN Tx.outputs.items : Tx.outputs.items[i].tokenBundle \in OutputBundles(Tx)
          /\ \A i \in DOMAIN Tx.collateralOutput : Tx.collateralOutput[i].tokenBundle \in OutputBundles(Tx)
      BY DEF MintBundles, OutputBundles, Elements, Range
    <3> QED BY <2>4, <2>5, <3>1 DEF TokensIn
  <2>7. ParseCoin(Tx.fee, "FEE_INVALID") \in R
    BY <2>1, NumberCovered
  <2>8. ParseSignTransactionRequest(request) \in R
    BY <2>1, <2>2, <2>6, <2>7, SignCovered DEF Tx
  <2>9. verdict # "MULTIASSET_INVALID_TOKEN_AMOUNT"
    BY <2>2, <2>8 DEF SignVerdict, R
  <2> QED BY <1>2, <2>9
<1>3. VerdictRight /\ RequestTyped => TokensInRange
  BY <1>1, <1>2 DEF TokensInRange
<1> QED BY <1>3, AlwaysTyped, AlwaysRight, PTL
=============================================================================
