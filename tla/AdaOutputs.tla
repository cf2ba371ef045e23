----------------------------- MODULE AdaOutputs -----------------------------
(***************************************************************************)
(* parsing/address.ts, parsing/output.ts and parsing/txAuxiliaryData.ts of *)
(* hw-app-ada: the addresses of the device, the outputs of a transaction   *)
(* with their token bundles, and the auxiliary data.                       *)
(***************************************************************************)
EXTENDS AdaValues

\* AddressType of public.ts; the two families the validation tells apart in each of them.
SpendsByKey == {"BASE_KEY_KEY", "BASE_KEY_SCRIPT", "POINTER_KEY", "ENTERPRISE_KEY", "BYRON"}
SpendsByScript == {"BASE_SCRIPT_KEY", "BASE_SCRIPT_SCRIPT", "POINTER_SCRIPT", "ENTERPRISE_SCRIPT"}
Rewards == {"REWARD_KEY", "REWARD_SCRIPT"}
StakesByKey == {"BASE_KEY_KEY", "BASE_SCRIPT_KEY", "REWARD_KEY"}
StakesByScript == {"BASE_KEY_SCRIPT", "BASE_SCRIPT_SCRIPT", "REWARD_SCRIPT"}
StakesByPointer == {"POINTER_KEY", "POINTER_SCRIPT"}
AddressTypes == SpendsByKey \cup SpendsByScript \cup Rewards

(***************************************************************************)
(* A device-owned address: its type and six optional parameters.           *)
(***************************************************************************)
SpendingSource(address) ==
  CASE Given(address.spendingPath) -> "PATH"
    [] ~Given(address.spendingPath) /\ Given(address.spendingScriptHash) -> "SCRIPT_HASH"
    [] OTHER -> "NONE"

ExtractSpending(address) ==
  Verdict(<<Validate(~Given(address.spendingPath) \/ ~Given(address.spendingScriptHash),
                     "ADDRESS_INVALID_SPENDING_SCRIPT_HASH"),
            Each(LAMBDA path : ParseBIP32Path(path, "ADDRESS_INVALID_SPENDING_KEY_PATH"),
                 address.spendingPath),
            Each(LAMBDA hash : ParseHexStringOfLength(hash, SCRIPT_HASH_LENGTH,
                                                      "ADDRESS_INVALID_SPENDING_SCRIPT_HASH"),
                 address.spendingScriptHash)>>)

\* The sources that are given; the code takes the only one.
StakingSources(address) ==
  {s \in {"KEY_PATH", "KEY_HASH", "POINTER", "SCRIPT_HASH"} :
     Given(CASE s = "KEY_PATH" -> address.stakingPath
             [] s = "KEY_HASH" -> address.stakingKeyHash
             [] s = "POINTER" -> address.stakingPointer
             [] s = "SCRIPT_HASH" -> address.stakingScriptHash)}
StakingSource(address) ==
  IF StakingSources(address) = {} THEN "NONE" ELSE CHOOSE s \in StakingSources(address) : TRUE

ParsePointer(pointer) ==
  Each(LAMBDA index : ParseUint32(index, "ADDRESS_INVALID_BLOCKCHAIN_POINTER"), pointer)

ExtractStaking(address) ==
  Verdict(<<Validate(Cardinality(StakingSources(address)) <= 1, "ADDRESS_INVALID_STAKING_INFO"),
            Each(LAMBDA path : ParseBIP32Path(path, "ADDRESS_INVALID_SPENDING_KEY_PATH"),
                 address.stakingPath),
            Each(LAMBDA hash : ParseHexStringOfLength(hash, KEY_HASH_LENGTH,
                                                      "ADDRESS_INVALID_STAKING_KEY_HASH"),
                 address.stakingKeyHash),
            Each(ParsePointer, address.stakingPointer),
            Each(LAMBDA hash : ParseHexStringOfLength(hash, SCRIPT_HASH_LENGTH,
                                                      "ADDRESS_INVALID_STAKING_SCRIPT_HASH"),
                 address.stakingScriptHash)>>)

ValidateSpending(type, source) ==
  CASE type \in SpendsByKey -> Validate(source = "PATH", "ADDRESS_INVALID_SPENDING_INFO")
    [] type \in SpendsByScript -> Validate(source = "SCRIPT_HASH", "ADDRESS_INVALID_SPENDING_INFO")
    [] type \in Rewards -> Validate(source = "NONE", "ADDRESS_INVALID_SPENDING_INFO")
    [] OTHER -> "ADDRESS_UNKNOWN_TYPE"

ValidateStaking(type, source) ==
  CASE type \in StakesByKey ->
         Validate(source \in {"KEY_PATH", "KEY_HASH"}, "ADDRESS_INVALID_STAKING_INFO")
    [] type \in StakesByScript -> Validate(source = "SCRIPT_HASH", "ADDRESS_INVALID_STAKING_INFO")
    [] type \in StakesByPointer -> Validate(source = "POINTER", "ADDRESS_INVALID_STAKING_INFO")
    [] OTHER -> Validate(source = "NONE", "ADDRESS_INVALID_STAKING_INFO")

ParseAddress(network, address) ==
  Verdict(<<ParseNetwork(network), ExtractSpending(address), ExtractStaking(address),
            ValidateSpending(address.type, SpendingSource(address)),
            ValidateStaking(address.type, StakingSource(address))>>)

-----------------------------------------------------------------------------
(***************************************************************************)
(* Token bundles.  A name is a hex string with its text, a sequence of     *)
(* characters as in the amounts: A .. F are 17 .. 22, a .. f are 49 .. 54. *)
(***************************************************************************)
ASSET_NAME_LENGTH_MAX == 32
TOKEN_POLICY_LENGTH == 28
TOKENS_IN_GROUP_MAX == 1000
ASSET_GROUPS_MAX == 1000

HexValue(c) == CASE c <= 9 -> c [] c \in 17 .. 22 -> c - 7 [] OTHER -> c - 39
HexValues(text) == [i \in DOMAIN text |-> HexValue(text[i])]

\* localeCompare: letters first without their case, then small before capital.
LocaleLE(a, b) ==
  IF HexValues(a) = HexValues(b) THEN TextLE(b, a) ELSE TextLE(HexValues(a), HexValues(b))

\* Mutant: the length of a name is not looked at.
NameLEAnyLength(a, b) == LocaleLE(a, b)
NameLE(a, b) == IF Len(a) = Len(b) THEN LocaleLE(a, b) ELSE Len(a) < Len(b)

Unique(texts) == \A i, j \in DOMAIN texts : texts[i] = texts[j] => i = j
Sorted(texts, LE(_, _)) == \A i, j \in DOMAIN texts : i < j => LE(texts[i], texts[j])

\* parseTokenAmountFn: an amount minted is signed, an amount in an output is not.
ParseTokenAmount(amount, signed) ==
  IF signed THEN ParseInt64Str(amount, "MULTIASSET_INVALID_TOKEN_AMOUNT")
            ELSE ParseUint64(amount, "MULTIASSET_INVALID_TOKEN_AMOUNT")

ParseToken(token, signed) ==
  Verdict(<<ParseHexString(token.assetName, "MULTIASSET_INVALID_ASSET_NAME"),
            Validate(token.assetName.length <= ASSET_NAME_LENGTH_MAX * 2,
                     "MULTIASSET_INVALID_ASSET_NAME"),
            ParseTokenAmount(token.amount, signed)>>)

ParseAssetGroup(group, signed) ==
  LET tokens == group.tokens.items
      names == [i \in DOMAIN tokens |-> tokens[i].assetName.text]
  IN Verdict(<<Validate(IsArray(group.tokens), "MULTIASSET_INVALID_ASSET_GROUP_NOT_ARRAY"),
               Validate(Len(tokens) <= TOKENS_IN_GROUP_MAX, "MULTIASSET_INVALID_ASSET_GROUP_TOO_LARGE"),
               Validate(Len(tokens) > 0, "MULTIASSET_INVALID_ASSET_GROUP_EMPTY"),
               ParseHexStringOfLength(group.policyId, TOKEN_POLICY_LENGTH,
                                      "MULTIASSET_INVALID_POLICY_NAME"),
               Each(LAMBDA t : ParseToken(t, signed), tokens),
               Validate(Unique(names), "MULTIASSET_INVALID_ASSET_GROUP_NOT_UNIQUE"),
               Validate(Sorted(names, NameLE), "MULTIASSET_INVALID_ASSET_GROUP_ORDERING")>>)

ParseTokenBundle(bundle, emptyAllowed, signed) ==
  LET groups == bundle.items
      policies == [i \in DOMAIN groups |-> groups[i].policyId.text]
  IN Verdict(<<Validate(IsArray(bundle), "MULTIASSET_INVALID_TOKEN_BUNDLE_NOT_ARRAY"),
               Validate(Len(groups) <= ASSET_GROUPS_MAX, "MULTIASSET_INVALID_TOKEN_BUNDLE_TOO_LARGE"),
               Validate(emptyAllowed \/ Len(groups) > 0, "MULTIASSET_INVALID_TOKEN_BUNDLE_EMPTY"),
               Each(LAMBDA g : ParseAssetGroup(g, signed), groups),
               Validate(Unique(policies), "MULTIASSET_INVALID_TOKEN_BUNDLE_NOT_UNIQUE"),
               Validate(Sorted(policies, TextLE), "MULTIASSET_INVALID_TOKEN_BUNDLE_ORDERING")>>)

-----------------------------------------------------------------------------
(***************************************************************************)
(* Outputs and auxiliary data.                                             *)
(***************************************************************************)
DATUM_HASH_LENGTH == 32
AUXILIARY_DATA_HASH_LENGTH == 32
CVOTE_PUBLIC_KEY_LENGTH == 32

\* The datum of the parsed output: a datum of a type the switch does not know is dropped.
KnownDatum(datum) ==
  IF \A i \in DOMAIN datum : datum[i].type \in {"HASH", "INLINE"} THEN datum ELSE <<>>
DatumOf(output) ==
  IF output.format = "MAP_BABBAGE" THEN KnownDatum(output.datum) ELSE output.datum
ReferenceScriptOf(output) == IF output.format = "MAP_BABBAGE" THEN output.referenceScript ELSE <<>>

ParseDatum(datum) ==
  IF datum.type = "INLINE" THEN ParseHexString(datum.hex, "OUTPUT_INVALID_INLINE_DATUM")
  ELSE ParseHexStringOfLength(datum.hex, DATUM_HASH_LENGTH, "OUTPUT_INVALID_DATUM_HASH")

ParseTxDestination(network, destination, validateAsTxOutput) ==
  CASE destination.type = "THIRD_PARTY" ->
         Verdict(<<ParseHexString(destination.address, "OUTPUT_INVALID_ADDRESS"),
                   Validate(destination.address.length <= 128 * 2, "OUTPUT_INVALID_ADDRESS")>>)
    [] destination.type = "DEVICE_OWNED" ->
         Verdict(<<ParseAddress(network, destination.address),
                   Validate(validateAsTxOutput => SpendingSource(destination.address) = "PATH",
                            "OUTPUT_INVALID_ADDRESS_PARAMS")>>)
    [] OTHER -> "ADDRESS_UNKNOWN_TYPE"

\* Legacy outputs hold a datum as a hash, so that the two checks of the format after
\* parseDatum and the reference script cannot fail.
ParseTxOutput(output, network) ==
  Verdict(<<ParseCoin(output.amount, "OUTPUT_INVALID_AMOUNT"),
            ParseTokenBundle(output.tokenBundle, TRUE, FALSE),
            ParseTxDestination(network, output.destination, TRUE),
            Each(ParseDatum, DatumOf(output)),
            Each(LAMBDA hex : ParseHexString(hex, "OUTPUT_INVALID_REFERENCE_SCRIPT_HEX"),
                 ReferenceScriptOf(output))>>)

ParseCVoteDelegation(delegation) ==
  Verdict(<<ParseUint32(delegation.weight, "CVOTE_DELEGATION_INVALID_WEIGHT"),
            CASE delegation.type = "KEY" ->
                   ParseHexStringOfLength(delegation.voteKey, CVOTE_PUBLIC_KEY_LENGTH,
                                          "CVOTE_DELEGATION_INVALID_KEY")
              [] delegation.type = "PATH" ->
                   ParseBIP32Path(delegation.voteKeyPath, "CVOTE_DELEGATION_INVALID_PATH")
              [] OTHER -> "CVOTE_DELEGATION_UNKNOWN_DELEGATION_TYPE">>)

ParseCVoteDelegations(delegations) ==
  Verdict(<<Validate(IsArray(delegations), "CVOTE_REGISTRATION_DELEGATIONS_NOT_ARRAY"),
            Each(ParseCVoteDelegation, delegations.items)>>)

VoteKeyShape(params) ==
  LET delegations == Given(params.delegations)
      key == Given(params.voteKey)
      path == Given(params.voteKeyPath)
  IN CASE params.format = "CIP_15" ->
            Validate(~delegations /\ key /\ ~Given(params.votingPurpose),
                     "CVOTE_REGISTRATION_INCONSISTENT_WITH_CIP15")
       [] params.format = "CIP_36" /\ delegations ->
            Validate(~key /\ ~path, "CVOTE_REGISTRATION_INCONSISTENT_WITH_CIP36")
       [] params.format = "CIP_36" /\ ~delegations ->
            Verdict(<<Validate(~key \/ ~path, "CVOTE_REGISTRATION_BOTH_KEY_AND_PATH"),
                      Validate(key \/ path, "CVOTE_REGISTRATION_MISSING_VOTE_KEY")>>)
       [] OTHER -> "CVOTE_DELEGATION_UNKNOWN_FORMAT"

ParseCVoteRegistration(network, params) ==
  Verdict(<<VoteKeyShape(params),
            Each(LAMBDA key : ParseHexStringOfLength(key, CVOTE_PUBLIC_KEY_LENGTH,
                                                     "CVOTE_REGISTRATION_INVALID_VOTE_KEY"),
                 params.voteKey),
            Each(LAMBDA path : ParseBIP32Path(path, "CVOTE_REGISTRATION_INVALID_VOTE_KEY_PATH"),
                 params.voteKeyPath),
            Each(ParseCVoteDelegations, params.delegations),
            Each(LAMBDA n : ParseUint64(n, "CVOTE_REGISTRATION_INVALID_VOTING_PURPOSE"),
                 params.votingPurpose),
            ParseBIP32Path(params.stakingPath, "CVOTE_REGISTRATION_INVALID_STAKING_KEY_PATH"),
            ParseTxDestination(network, params.paymentDestination, FALSE),
            ParseUint64(params.nonce, "CVOTE_REGISTRATION_INVALID_NONCE")>>)

ParseTxAuxiliaryData(network, auxiliaryData) ==
  CASE auxiliaryData.type = "ARBITRARY_HASH" ->
         ParseHexStringOfLength(auxiliaryData.hash, AUXILIARY_DATA_HASH_LENGTH,
                                "AUXILIARY_DATA_INVALID_HASH")
    [] auxiliaryData.type = "CIP36_REGISTRATION" ->
         ParseCVoteRegistration(network, auxiliaryData.params)
    [] OTHER -> "AUXILIARY_DATA_UNKNOWN_TYPE"
=============================================================================
