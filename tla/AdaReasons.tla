----------------------------- MODULE AdaReasons -----------------------------
(***************************************************************************)
(* errors/invalidDataReason.ts of hw-app-ada: why a request is refused.    *)
(* The reasons of the signing modes are written without the SIGN_MODE_x__  *)
(* they start with and those of native scripts without their               *)
(* DERIVE_NATIVE_SCRIPT_HASH_.                                             *)
(***************************************************************************)

InvalidDataReason ==
  {"GET_EXT_PUB_KEY_PATHS_NOT_ARRAY", "INVALID_PATH", "NETWORK_INVALID_PROTOCOL_MAGIC",
   "NETWORK_INVALID_NETWORK_ID", "NETWORK_ID_INCLUDE_INVALID", "INPUTS_NOT_ARRAY",
   "INPUT_INVALID_TX_HASH", "INPUT_INVALID_PATH", "INPUT_INVALID_UTXO_INDEX", "OUTPUTS_NOT_ARRAY",
   "OUTPUT_INVALID_FORMAT", "OUTPUT_INVALID_AMOUNT", "OUTPUT_INVALID_ADDRESS",
   "OUTPUT_INVALID_ADDRESS_PARAMS", "OUTPUT_INVALID_DATUM_HASH", "OUTPUT_INVALID_INLINE_DATUM",
   "OUTPUT_INVALID_REFERENCE_SCRIPT_HEX", "OUTPUT_INCONSISTENT_DATUM",
   "OUTPUT_INCONSISTENT_REFERENCE_SCRIPT", "MULTIASSET_INVALID_POLICY_NAME",
   "MULTIASSET_INVALID_TOKEN_BUNDLE_NOT_ARRAY", "MULTIASSET_INVALID_TOKEN_BUNDLE_TOO_LARGE",
   "MULTIASSET_INVALID_TOKEN_BUNDLE_ORDERING", "MULTIASSET_INVALID_TOKEN_BUNDLE_NOT_UNIQUE",
   "MULTIASSET_INVALID_TOKEN_BUNDLE_EMPTY", "MULTIASSET_INVALID_TOKEN_AMOUNT",
   "MULTIASSET_INVALID_ASSET_NAME", "MULTIASSET_INVALID_ASSET_GROUP_NOT_ARRAY",
   "MULTIASSET_INVALID_ASSET_GROUP_TOO_LARGE", "MULTIASSET_INVALID_ASSET_GROUP_EMPTY",
   "MULTIASSET_INVALID_ASSET_GROUP_ORDERING", "MULTIASSET_INVALID_ASSET_GROUP_NOT_UNIQUE",
   "ADDRESS_UNKNOWN_TYPE", "ADDRESS_INVALID_SPENDING_INFO", "ADDRESS_INVALID_SPENDING_KEY_PATH",
   "ADDRESS_INVALID_SPENDING_SCRIPT_HASH", "ADDRESS_INVALID_BLOCKCHAIN_POINTER",
   "ADDRESS_INVALID_STAKING_KEY_PATH", "ADDRESS_INVALID_STAKING_KEY_HASH",
   "ADDRESS_INVALID_STAKING_SCRIPT_HASH", "ADDRESS_INVALID_STAKING_INFO",
   "ADDRESS_INVALID_REWARD_ADDRESS", "FEE_INVALID", "TTL_INVALID", "CERTIFICATES_NOT_ARRAY",
   "CERTIFICATE_INVALID_TYPE", "CERTIFICATE_INVALID_PATH", "CERTIFICATE_INVALID_STAKE_CREDENTIAL",
   "CERTIFICATE_INVALID_COMMITTEE_CREDENTIAL", "CERTIFICATE_INVALID_DREP_CREDENTIAL",
   "CERTIFICATE_INVALID_POOL_KEY_HASH", "CERTIFICATE_SUPERFLUOUS_POOL_KEY_HASH",
   "CERTIFICATE_INVALID_DEPOSIT", "CERTIFICATE_INVALID_DREP", "ANCHOR_INVALID_URL",
   "ANCHOR_INVALID_HASH", "POOL_REGISTRATION_INVALID_VRF_KEY_HASH",
   "POOL_REGISTRATION_INVALID_PLEDGE", "POOL_REGISTRATION_INVALID_COST",
   "POOL_REGISTRATION_INVALID_MARGIN", "POOL_REGISTRATION_INVALID_MARGIN_DENOMINATOR",
   "POOL_REGISTRATION_OWNERS_TOO_MANY", "POOL_KEY_INVALID_TYPE", "POOL_KEY_INVALID_PATH",
   "POOL_KEY_INVALID_KEY_HASH", "POOL_OWNER_INVALID_TYPE", "POOL_OWNER_INVALID_PATH",
   "POOL_OWNER_INVALID_KEY_HASH", "POOL_REGISTRATION_RELAYS_TOO_MANY",
   "POOL_REWARD_ACCOUNT_INVALID_TYPE", "POOL_REWARD_ACCOUNT_INVALID_PATH",
   "POOL_REWARD_ACCOUNT_INVALID_HEX", "POOL_RETIREMENT_INVALID_RETIREMENT_EPOCH",
   "RELAY_INVALID_TYPE", "RELAY_INVALID_PORT", "RELAY_INVALID_IPV4", "RELAY_INVALID_IPV6",
   "RELAY_INVALID_DNS", "POOL_REGISTRATION_METADATA_INVALID_URL",
   "POOL_REGISTRATION_METADATA_INVALID_HASH", "WITHDRAWALS_NOT_ARRAY", "WITHDRAWAL_INVALID_AMOUNT",
   "WITHDRAWAL_INVALID_PATH", "WITHDRAWAL_INVALID_STAKE_CREDENTIAL", "AUXILIARY_DATA_UNKNOWN_TYPE",
   "AUXILIARY_DATA_INVALID_HASH", "METADATA_UNKNOWN_TYPE",
   "CVOTE_REGISTRATION_INCONSISTENT_WITH_CIP15", "CVOTE_REGISTRATION_INCONSISTENT_WITH_CIP36",
   "CVOTE_REGISTRATION_BOTH_KEY_AND_PATH", "CVOTE_REGISTRATION_MISSING_VOTE_KEY",
   "CVOTE_REGISTRATION_INVALID_VOTE_KEY", "CVOTE_REGISTRATION_INVALID_VOTE_KEY_PATH",
   "CVOTE_REGISTRATION_INVALID_STAKING_KEY_PATH", "CVOTE_REGISTRATION_INVALID_NONCE",
   "CVOTE_REGISTRATION_INVALID_VOTING_PURPOSE", "CVOTE_REGISTRATION_DELEGATIONS_NOT_ARRAY",
   "CVOTE_DELEGATION_UNKNOWN_FORMAT", "CVOTE_DELEGATION_UNKNOWN_DELEGATION_TYPE",
   "CVOTE_DELEGATION_INVALID_WEIGHT", "CVOTE_DELEGATION_INVALID_PATH",
   "CVOTE_DELEGATION_INVALID_KEY", "VALIDITY_INTERVAL_START_INVALID",
   "SCRIPT_DATA_HASH_WRONG_LENGTH", "COLLATERAL_INPUTS_NOT_ARRAY", "REQUIRED_SIGNERS_NOT_ARRAY",
   "VKEY_HASH_WRONG_LENGTH", "UNKNOWN_REQUIRED_SIGNER_TYPE", "REQUIRED_SIGNER_INVALID_PATH",
   "COLLATERAL_INPUT_CONTAINS_DATUM", "COLLATERAL_INPUT_CONTAINS_REFERENCE_SCRIPT",
   "TOTAL_COLLATERAL_NOT_VALID", "REFERENCE_INPUTS_NOT_ARRAY", "VOTING_PROCEDURES_NOT_ARRAY",
   "VOTER_VOTES_NOT_ARRAY", "VOTER_INVALID", "GOV_ACTION_ID_INVALID_TX_HASH",
   "GOV_ACTION_ID_INVALID_INDEX", "VOTING_PROCEDURES_INVALID_NUMBER_OF_VOTERS",
   "VOTING_PROCEDURES_INVALID_NUMBER_OF_VOTES", "TREASURY_NOT_VALID", "DONATION_NOT_VALID",
   "SIGN_MODE_UNKNOWN", "POOL_REGISTRATION_NOT_ALLOWED",
   "CERTIFICATE_STAKE_CREDENTIAL_ONLY_AS_PATH",
   "CERTIFICATE_COMMITTEE_COLD_CREDENTIAL_ONLY_AS_PATH", "CERTIFICATE_DREP_CREDENTIAL_ONLY_AS_PATH",
   "WITHDRAWAL_ONLY_AS_PATH", "COLLATERAL_INPUTS_NOT_ALLOWED", "COLLATERAL_OUTPUT_NOT_ALLOWED",
   "TOTAL_COLLATERAL_NOT_ALLOWED", "REFERENCE_INPUTS_NOT_ALLOWED", "VOTER_ONLY_AS_PATH",
   "POOL_RETIREMENT_NOT_ALLOWED", "DEVICE_OWNED_ADDRESS_NOT_ALLOWED",
   "CERTIFICATE_CREDENTIAL_ONLY_AS_SCRIPT", "WITHDRAWAL_ONLY_AS_SCRIPT", "VOTER_ONLY_AS_SCRIPT",
   "INPUT_WITH_PATH_NOT_ALLOWED", "DATUM_NOT_ALLOWED", "REFERENCE_SCRIPT_NOT_ALLOWED",
   "SINGLE_POOL_REG_CERTIFICATE_REQUIRED", "THIRD_PARTY_POOL_KEY_REQUIRED",
   "SINGLE_DEVICE_OWNER_REQUIRED", "WITHDRAWALS_NOT_ALLOWED", "MINT_NOT_ALLOWED",
   "SCRIPT_DATA_HASH_NOT_ALLOWED", "REQUIRED_SIGNERS_NOT_ALLOWED", "VOTING_PROCEDURES_NOT_ALLOWED",
   "TREASURY_NOT_ALLOWED", "DONATION_NOT_ALLOWED", "DEVICE_OWNED_POOL_KEY_REQUIRED",
   "DEVICE_OWNED_POOL_OWNER_NOT_ALLOWED", "ADDITIONAL_WITNESSES_NOT_ARRAY",
   "OPERATIONAL_CERTIFICATE_INVALID_KES_KEY", "OPERATIONAL_CERTIFICATE_INVALID_KES_PERIOD",
   "OPERATIONAL_CERTIFICATE_INVALID_ISSUE_COUNTER", "OPERATIONAL_CERTIFICATE_INVALID_COLD_KEY_PATH",
   "MESSAGE_DATA_INVALID_WITNESS_PATH", "MESSAGE_DATA_INVALID_MESSAGE_HEX",
   "MESSAGE_DATA_LONG_NON_HASHED_MSG", "CVOTE_INVALID_VOTECAST_DATA", "CVOTE_INVALID_WITNESS",
   "INVALID_DATA", "INVALID_KEY_PATH", "INVALID_KEY_HASH", "SCRIPTS_NOT_AN_ARRAY",
   "INVALID_REQUIRED_COUNT", "INVALID_TOKEN_LOCKING_SLOT",
   "REQUIRED_COUNT_HIGHER_THAN_NUMBER_OF_SCRIPTS", "UNKNOWN_TYPE", "INVALID_DISPLAY_FORMAT",
   "LEDGER_POLICY", "INVALID_DATA_SUPPLIED_TO_LEDGER", "INVALID_B2_HASH"}

\* What Ada.ts refuses in requests that parse, and getExtendedPublicKeys in a path.
KeystoneRefusals ==
  {"Keystone 3 Pro does not support multisig transaction",
   "Keystone 3 Pro does not support 1694 path", "Keystone 3 Pro does not support byron address",
   "byron address is not supported", "invalid path"}
=============================================================================
