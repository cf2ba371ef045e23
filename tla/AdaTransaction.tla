--------------------------- MODULE AdaTransaction ---------------------------
(***************************************************************************)
(* parsing/transaction.ts of hw-app-ada: the transaction and the signing   *)
(* modes.  The reasons of the modes are written without the SIGN_MODE_x__  *)
(* they start with, x being the mode of the request.                       *)
(*                                                                         *)
(* A transaction has the fields of the type Transaction of public.ts; a    *)
(* list the caller leaves out is the empty list, as in the code.           *)
(***************************************************************************)
EXTENDS AdaTypes

\* The elements of a list field.
Elements(list) == {list.items[i] : i \in DOMAIN list.items}

TX_HASH_LENGTH == 32
SCRIPT_DATA_HASH_LENGTH == 32

ParseTxInput(input) ==
  Verdict(<<ParseHexStringOfLength(input.txHash, TX_HASH_LENGTH, "INPUT_INVALID_TX_HASH"),
            ParseUint32(input.outputIndex, "INPUT_INVALID_UTXO_INDEX"),
            Each(LAMBDA path : ParseBIP32Path(path, "INPUT_INVALID_PATH"), input.path)>>)

ParseWithdrawal(withdrawal) ==
  Verdict(<<ParseCoin(withdrawal.amount, "WITHDRAWAL_INVALID_AMOUNT"),
            ParseCredential(withdrawal.credential, "WITHDRAWAL_INVALID_STAKE_CREDENTIAL")>>)

ParseRequiredSigner(signer) ==
  CASE signer.type = "PATH" -> ParseBIP32Path(signer.path, "REQUIRED_SIGNER_INVALID_PATH")
    [] signer.type = "HASH" ->
         ParseHexStringOfLength(signer.hash, KEY_HASH_LENGTH, "VKEY_HASH_WRONG_LENGTH")
    [] OTHER -> "UNKNOWN_REQUIRED_SIGNER_TYPE"

ParseVoter(voter) ==
  CASE voter.type \in PathVoters -> ParseBIP32Path(voter.path, "VOTER_INVALID")
    [] voter.type \in HashVoters ->
         ParseHexStringOfLength(voter.hash, KEY_HASH_LENGTH, "VOTER_INVALID")
    [] voter.type \in ScriptVoters ->
         ParseHexStringOfLength(voter.hash, SCRIPT_HASH_LENGTH, "VOTER_INVALID")
    [] OTHER -> "unreachable"

ParseVote(vote) ==
  Verdict(<<ParseHexStringOfLength(vote.txHash, TX_HASH_LENGTH, "GOV_ACTION_ID_INVALID_TX_HASH"),
            ParseUint32(vote.index, "GOV_ACTION_ID_INVALID_INDEX"),
            Each(ParseAnchor, vote.anchor)>>)

ParseVoterVotes(voterVotes) ==
  Verdict(<<Validate(IsArray(voterVotes.votes), "VOTER_VOTES_NOT_ARRAY"),
            ParseVoter(voterVotes.voter),
            Each(ParseVote, voterVotes.votes.items)>>)

-----------------------------------------------------------------------------
\* A list field: an array whose elements parse.
ParseList(Parse(_), list, notArray) ==
  Verdict(<<Validate(IsArray(list), notArray), Each(Parse, list.items)>>)

ParseCollateralOutput(output, network) ==
  Verdict(<<ParseTxOutput(output, network),
            Validate(~Given(DatumOf(output)), "COLLATERAL_INPUT_CONTAINS_DATUM"),
            Validate(~Given(ReferenceScriptOf(output)),
                     "COLLATERAL_INPUT_CONTAINS_REFERENCE_SCRIPT")>>)

ParseVotingProcedures(procedures) ==
  Verdict(<<ParseList(ParseVoterVotes, procedures, "VOTING_PROCEDURES_NOT_ARRAY"),
            Validate(Len(procedures.items) <= 1, "VOTING_PROCEDURES_INVALID_NUMBER_OF_VOTERS"),
            Validate(\A i \in DOMAIN procedures.items : Len(procedures.items[i].votes.items) = 1,
                     "VOTING_PROCEDURES_INVALID_NUMBER_OF_VOTES")>>)

ParseDonation(donation) ==
  ParseUint64Str(donation, <<1>>, MAX_LOVELACE_SUPPLY_STR, "DONATION_NOT_VALID")

ParseTransaction(tx) ==
  Verdict(<<ParseNetwork(tx.network),
            ParseList(ParseTxInput, tx.inputs, "INPUTS_NOT_ARRAY"),
            ParseList(LAMBDA o : ParseTxOutput(o, tx.network), tx.outputs, "OUTPUTS_NOT_ARRAY"),
            ParseCoin(tx.fee, "FEE_INVALID"),
            Each(LAMBDA n : ParseUint64(n, "TTL_INVALID"), tx.ttl),
            ParseList(ParseCertificate, tx.certificates, "CERTIFICATES_NOT_ARRAY"),
            ParseList(ParseWithdrawal, tx.withdrawals, "WITHDRAWALS_NOT_ARRAY"),
            Each(LAMBDA d : ParseTxAuxiliaryData(tx.network, d), tx.auxiliaryData),
            Each(LAMBDA n : ParseUint64(n, "VALIDITY_INTERVAL_START_INVALID"),
                 tx.validityIntervalStart),
            Each(LAMBDA m : ParseTokenBundle(m, FALSE, TRUE), tx.mint),
            Each(LAMBDA h : ParseHexStringOfLength(h, SCRIPT_DATA_HASH_LENGTH,
                                                   "SCRIPT_DATA_HASH_WRONG_LENGTH"),
                 tx.scriptDataHash),
            ParseList(ParseTxInput, tx.collateralInputs, "COLLATERAL_INPUTS_NOT_ARRAY"),
            ParseList(ParseRequiredSigner, tx.requiredSigners, "REQUIRED_SIGNERS_NOT_ARRAY"),
            Each(LAMBDA b : Validate(b \in {"true", "false"}, "NETWORK_ID_INCLUDE_INVALID"),
                 tx.includeNetworkId),
            Each(LAMBDA o : ParseCollateralOutput(o, tx.network), tx.collateralOutput),
            Each(LAMBDA n : ParseCoin(n, "TOTAL_COLLATERAL_NOT_VALID"), tx.totalCollateral),
            ParseList(ParseTxInput, tx.referenceInputs, "REFERENCE_INPUTS_NOT_ARRAY"),
            ParseVotingProcedures(tx.votingProcedures),
            Each(LAMBDA n : ParseCoin(n, "TREASURY_NOT_VALID"), tx.treasury),
            Each(ParseDonation, tx.donation)>>)

-----------------------------------------------------------------------------
(***************************************************************************)
(* The signing modes, of a transaction that parses.                        *)
(***************************************************************************)
SigningModes ==
  {"ORDINARY_TRANSACTION", "MULTISIG_TRANSACTION", "POOL_REGISTRATION_AS_OWNER",
   "POOL_REGISTRATION_AS_OPERATOR", "PLUTUS_TRANSACTION"}

NoCertificateOf(tx, types) == \A c \in Elements(tx.certificates) : c.type \notin types
\* Every certificate of these types names a credential of the kind.
CredentialsAs(tx, types, kind) ==
  \A c \in Elements(tx.certificates) : c.type \in types => c.credential.type = kind
WithdrawalsAs(tx, kind) == \A w \in Elements(tx.withdrawals) : w.credential.type = kind
VotersAs(tx, types) == \A v \in Elements(tx.votingProcedures) : v.voter.type \in types
OutputsToThirdParty(tx) ==
  \A o \in Elements(tx.outputs) : o.destination.type = "THIRD_PARTY"
IsEmpty(list) == Len(list.items) = 0

\* No collateral and no reference inputs, in the order of the ordinary and multisig modes.
NothingOfPlutus(tx) ==
  Verdict(<<Validate(IsEmpty(tx.collateralInputs), "COLLATERAL_INPUTS_NOT_ALLOWED"),
            Validate(~Given(tx.collateralOutput), "COLLATERAL_OUTPUT_NOT_ALLOWED"),
            Validate(~Given(tx.totalCollateral), "TOTAL_COLLATERAL_NOT_ALLOWED"),
            Validate(IsEmpty(tx.referenceInputs), "REFERENCE_INPUTS_NOT_ALLOWED")>>)

\* Mutant: a voter is let through whatever identifies it.
OrdinaryModeAnyVoter(tx) ==
  Verdict(<<Validate(NoCertificateOf(tx, {"STAKE_POOL_REGISTRATION"}), "POOL_REGISTRATION_NOT_ALLOWED"),
            Validate(CredentialsAs(tx, StakeTypes \cup CommitteeTypes \cup DRepTypes, "KEY_PATH"),
                     "CERTIFICATE_STAKE_CREDENTIAL_ONLY_AS_PATH"),
            Validate(WithdrawalsAs(tx, "KEY_PATH"), "WITHDRAWAL_ONLY_AS_PATH"),
            NothingOfPlutus(tx)>>)
OrdinaryMode(tx) ==
  Verdict(<<Validate(NoCertificateOf(tx, {"STAKE_POOL_REGISTRATION"}), "POOL_REGISTRATION_NOT_ALLOWED"),
            Validate(CredentialsAs(tx, StakeTypes, "KEY_PATH"),
                     "CERTIFICATE_STAKE_CREDENTIAL_ONLY_AS_PATH"),
            Validate(CredentialsAs(tx, CommitteeTypes, "KEY_PATH"),
                     "CERTIFICATE_COMMITTEE_COLD_CREDENTIAL_ONLY_AS_PATH"),
            Validate(CredentialsAs(tx, DRepTypes, "KEY_PATH"),
                     "CERTIFICATE_DREP_CREDENTIAL_ONLY_AS_PATH"),
            Validate(WithdrawalsAs(tx, "KEY_PATH"), "WITHDRAWAL_ONLY_AS_PATH"),
            NothingOfPlutus(tx),
            Validate(VotersAs(tx, PathVoters), "VOTER_ONLY_AS_PATH")>>)

MultisigMode(tx) ==
  Verdict(<<Validate(OutputsToThirdParty(tx), "DEVICE_OWNED_ADDRESS_NOT_ALLOWED"),
            Validate(NoCertificateOf(tx, {"STAKE_POOL_REGISTRATION"}), "POOL_REGISTRATION_NOT_ALLOWED"),
            Validate(NoCertificateOf(tx, {"STAKE_POOL_RETIREMENT"}), "POOL_RETIREMENT_NOT_ALLOWED"),
            Validate(CredentialsAs(tx, StakeTypes \cup CommitteeTypes \cup DRepTypes, "SCRIPT_HASH"),
                     "CERTIFICATE_CREDENTIAL_ONLY_AS_SCRIPT"),
            Validate(WithdrawalsAs(tx, "SCRIPT_HASH"), "WITHDRAWAL_ONLY_AS_SCRIPT"),
            NothingOfPlutus(tx),
            Validate(VotersAs(tx, ScriptVoters), "VOTER_ONLY_AS_SCRIPT")>>)

\* What both pool modes ask of the outputs, and what they keep out of the transaction.
PoolOutputs(tx) ==
  Verdict(<<Validate(\A o \in Elements(tx.outputs) : ~Given(DatumOf(o)), "DATUM_NOT_ALLOWED"),
            Validate(\A o \in Elements(tx.outputs) : ~Given(ReferenceScriptOf(o)),
                     "REFERENCE_SCRIPT_NOT_ALLOWED")>>)
PoolForbids(tx) ==
  Verdict(<<Validate(IsEmpty(tx.withdrawals), "WITHDRAWALS_NOT_ALLOWED"),
            Validate(~Given(tx.mint), "MINT_NOT_ALLOWED"),
            Validate(~Given(tx.scriptDataHash), "SCRIPT_DATA_HASH_NOT_ALLOWED"),
            Validate(IsEmpty(tx.collateralInputs), "COLLATERAL_INPUTS_NOT_ALLOWED"),
            Validate(IsEmpty(tx.requiredSigners), "REQUIRED_SIGNERS_NOT_ALLOWED"),
            Validate(~Given(tx.collateralOutput), "COLLATERAL_OUTPUT_NOT_ALLOWED"),
            Validate(~Given(tx.totalCollateral), "TOTAL_COLLATERAL_NOT_ALLOWED"),
            Validate(IsEmpty(tx.referenceInputs), "REFERENCE_INPUTS_NOT_ALLOWED"),
            Validate(IsEmpty(tx.votingProcedures), "VOTING_PROCEDURES_NOT_ALLOWED"),
            Validate(~Given(tx.treasury), "TREASURY_NOT_ALLOWED"),
            Validate(~Given(tx.donation), "DONATION_NOT_ALLOWED")>>)

DeviceOwners(pool) == {i \in DOMAIN pool.owners : pool.owners[i].type = "DEVICE_OWNED"}
\* The single certificate is a registration of a pool whose key is held by the party
\* and of which the device owns so many shares.
ParsePoolCertificate(cert, keyHolder, owners, keyReason, ownersReason) ==
  IF cert.type # "STAKE_POOL_REGISTRATION" THEN "SINGLE_POOL_REG_CERTIFICATE_REQUIRED"
  ELSE Verdict(<<Validate(cert.pool.poolKey.type = keyHolder, keyReason),
                 Validate(Cardinality(DeviceOwners(cert.pool)) = owners, ownersReason)>>)
SinglePoolCertificate(tx, keyHolder, owners, keyReason, ownersReason) ==
  IF Len(tx.certificates.items) # 1 THEN "SINGLE_POOL_REG_CERTIFICATE_REQUIRED"
  ELSE ParsePoolCertificate(tx.certificates.items[1], keyHolder, owners, keyReason, ownersReason)

\* Mutant: the paths of the inputs are not looked at.
OwnerModeAnyInput(tx) ==
  Verdict(<<Validate(OutputsToThirdParty(tx), "DEVICE_OWNED_ADDRESS_NOT_ALLOWED"),
            PoolOutputs(tx),
            SinglePoolCertificate(tx, "THIRD_PARTY", 1, "THIRD_PARTY_POOL_KEY_REQUIRED",
                                  "SINGLE_DEVICE_OWNER_REQUIRED"),
            PoolForbids(tx)>>)
OwnerMode(tx) ==
  Verdict(<<Validate(\A i \in Elements(tx.inputs) : ~Given(i.path), "INPUT_WITH_PATH_NOT_ALLOWED"),
            Validate(OutputsToThirdParty(tx), "DEVICE_OWNED_ADDRESS_NOT_ALLOWED"),
            PoolOutputs(tx),
            SinglePoolCertificate(tx, "THIRD_PARTY", 1, "THIRD_PARTY_POOL_KEY_REQUIRED",
                                  "SINGLE_DEVICE_OWNER_REQUIRED"),
            PoolForbids(tx)>>)

\* Mutants: the outputs are not looked at; who holds the keys of the pool is not.
OperatorModeAnyOutput(tx) ==
  Verdict(<<SinglePoolCertificate(tx, "DEVICE_OWNED", 0, "DEVICE_OWNED_POOL_KEY_REQUIRED",
                                  "DEVICE_OWNED_POOL_OWNER_NOT_ALLOWED"),
            PoolForbids(tx)>>)
OperatorModeAnyPoolKey(tx) ==
  Verdict(<<PoolOutputs(tx),
            Validate(Len(tx.certificates.items) = 1 /\ ~NoCertificateOf(tx, {"STAKE_POOL_REGISTRATION"}),
                     "SINGLE_POOL_REG_CERTIFICATE_REQUIRED"),
            PoolForbids(tx)>>)
OperatorMode(tx) ==
  Verdict(<<PoolOutputs(tx),
            SinglePoolCertificate(tx, "DEVICE_OWNED", 0, "DEVICE_OWNED_POOL_KEY_REQUIRED",
                                  "DEVICE_OWNED_POOL_OWNER_NOT_ALLOWED"),
            PoolForbids(tx)>>)

PlutusMode(tx) ==
  Validate(NoCertificateOf(tx, {"STAKE_POOL_REGISTRATION"}), "POOL_REGISTRATION_NOT_ALLOWED")

ModeVerdict(mode, tx) ==
  CASE mode = "ORDINARY_TRANSACTION" -> OrdinaryMode(tx)
    [] mode = "MULTISIG_TRANSACTION" -> MultisigMode(tx)
    [] mode = "POOL_REGISTRATION_AS_OWNER" -> OwnerMode(tx)
    [] mode = "POOL_REGISTRATION_AS_OPERATOR" -> OperatorMode(tx)
    [] mode = "PLUTUS_TRANSACTION" -> PlutusMode(tx)

\* The mode is looked at once the transaction parses, and its restrictions last.
ParseSignTransactionRequest(request) ==
  LET parsed == Verdict(<<ParseTransaction(request.tx),
                          Validate(request.signingMode \in SigningModes, "SIGN_MODE_UNKNOWN"),
                          ParseList(LAMBDA p : ParseBIP32Path(p, "INVALID_PATH"),
                                    request.additionalWitnessPaths,
                                    "ADDITIONAL_WITNESSES_NOT_ARRAY")>>)
  IN IF parsed = OK THEN ModeVerdict(request.signingMode, request.tx) ELSE parsed
=============================================================================
