-------------------------- MODULE AdaOtherRequests --------------------------
(***************************************************************************)
(* The requests of hw-app-ada besides the transaction: messages, CIP-36    *)
(* votes, operational certificates and native scripts (parsing/*.ts), and  *)
(* the classes of paths a key may be exported for (keystoneUtils.ts).      *)
(***************************************************************************)
EXTENDS AdaOutputs, Functions

(***************************************************************************)
(* Messages.  The text of a message is its sequence of bytes.              *)
(***************************************************************************)
Space == 32
IsPrintableAscii(bytes) == \A i \in DOMAIN bytes : bytes[i] \in Space .. 126
IsAscii(bytes) ==
  /\ Len(bytes) > 0
  /\ IsPrintableAscii(bytes)
  /\ bytes[1] # Space
  /\ bytes[Len(bytes)] # Space
  /\ \A i \in 1 .. Len(bytes) - 1 : ~(bytes[i] = Space /\ bytes[i + 1] = Space)

ParseMessageData(data) ==
  Verdict(<<ParseBIP32Path(data.signingPath, "MESSAGE_DATA_INVALID_WITNESS_PATH"),
            ParseHexString(data.message, "MESSAGE_DATA_INVALID_MESSAGE_HEX"),
            CASE data.addressFieldType = "ADDRESS" -> ParseAddress(data.network, data.address)
              [] data.addressFieldType = "KEY_HASH" -> OK
              [] OTHER -> "unreachable">>)

-----------------------------------------------------------------------------
MIN_VOTECAST_LENGTH == 32 + 1 + 1 + 1
ParseCVote(cVote) ==
  Verdict(<<ParseHexString(cVote.voteCastData, "CVOTE_INVALID_VOTECAST_DATA"),
            Validate(cVote.voteCastData.length >= 2 * MIN_VOTECAST_LENGTH,
                     "CVOTE_INVALID_VOTECAST_DATA"),
            ParseBIP32Path(cVote.witnessPath, "CVOTE_INVALID_WITNESS")>>)

KES_PUBLIC_KEY_LENGTH == 32
ParseOperationalCertificate(certificate) ==
  Verdict(<<ParseHexStringOfLength(certificate.kesPublicKey, KES_PUBLIC_KEY_LENGTH,
                                   "OPERATIONAL_CERTIFICATE_INVALID_KES_KEY"),
            ParseUint64(certificate.kesPeriod, "OPERATIONAL_CERTIFICATE_INVALID_KES_PERIOD"),
            ParseUint64(certificate.issueCounter, "OPERATIONAL_CERTIFICATE_INVALID_ISSUE_COUNTER"),
            ParseBIP32Path(certificate.coldKeyPath, "OPERATIONAL_CERTIFICATE_INVALID_COLD_KEY_PATH")>>)

-----------------------------------------------------------------------------
(***************************************************************************)
(* Native scripts.  A script is the sequence of its nodes, each before its *)
(* children, in the order in which parseNativeScript visits them.  A node  *)
(* has a type, the optional parameters and the number of its scripts.      *)
(***************************************************************************)
ScriptParameters ==
  [PUBKEY_DEVICE_OWNED |-> {"path"}, PUBKEY_THIRD_PARTY |-> {"keyHash"}, ALL |-> {"scripts"},
   ANY |-> {"scripts"}, N_OF_K |-> {"requiredCount", "scripts"}, INVALID_BEFORE |-> {"slot"},
   INVALID_HEREAFTER |-> {"slot"}]
ParametersGiven(node) ==
  {p \in {"path", "keyHash", "requiredCount", "slot", "scripts"} :
     Given(CASE p = "path" -> node.path
             [] p = "keyHash" -> node.keyHash
             [] p = "requiredCount" -> node.requiredCount
             [] p = "slot" -> node.slot
             [] p = "scripts" -> node.scripts)}

\* The parameter a node of this type must have: what is left out fails like a wrong value.
Parameter(Parse(_), optional, reason) == IF Given(optional) THEN Each(Parse, optional) ELSE reason

ParseScripts(node) ==
  Parameter(LAMBDA scripts : Validate(IsArray(scripts), "SCRIPTS_NOT_AN_ARRAY"), node.scripts,
            "SCRIPTS_NOT_AN_ARRAY")

\* A count is its width and its value where the number of scripts is.
ParseRequiredCount(node) ==
  Verdict(<<ParseScripts(node),
            Parameter(LAMBDA count : ParseUint32(count.width, "INVALID_REQUIRED_COUNT"),
                      node.requiredCount, "INVALID_REQUIRED_COUNT"),
            Validate(\A count \in Range(node.requiredCount), scripts \in Range(node.scripts) :
                       count.value <= Len(scripts.items),
                     "REQUIRED_COUNT_HIGHER_THAN_NUMBER_OF_SCRIPTS")>>)

ParseScriptNode(node) ==
  IF node.type \notin DOMAIN ScriptParameters THEN "UNKNOWN_TYPE"
  ELSE IF ~(ParametersGiven(node) \subseteq ScriptParameters[node.type]) THEN "INVALID_DATA"
  ELSE CASE node.type = "PUBKEY_DEVICE_OWNED" ->
              Parameter(LAMBDA path : ParseBIP32Path(path, "INVALID_KEY_PATH"), node.path,
                        "INVALID_KEY_PATH")
         [] node.type = "PUBKEY_THIRD_PARTY" ->
              Parameter(LAMBDA hash : ParseHexStringOfLength(hash, KEY_HASH_LENGTH, "INVALID_KEY_HASH"),
                        node.keyHash, "INVALID_KEY_HASH")
         [] node.type \in {"ALL", "ANY"} -> ParseScripts(node)
         [] node.type = "N_OF_K" -> ParseRequiredCount(node)
         [] OTHER -> Parameter(LAMBDA slot : ParseUint64(slot, "INVALID_TOKEN_LOCKING_SLOT"),
                               node.slot, "INVALID_TOKEN_LOCKING_SLOT")

ParseNativeScript(script) == Each(ParseScriptNode, script)

ParseDisplayFormat(format) ==
  Validate(format \in {"bech32", "policyId"}, "INVALID_DISPLAY_FORMAT")

-----------------------------------------------------------------------------
(***************************************************************************)
(* classifyPath: what a key of the path is for.                            *)
(***************************************************************************)
Account(path) == Len(path) = 3
HardenedAccount(path) == Len(path) = 3 /\ path[3].hard
\* A key of an account, of one of the chains.
Chain(path, chains) == Len(path) = 5 /\ path[4] \in {S(c) : c \in chains}

ClassifyPath(path) ==
  IF Len(path) < 3 THEN "INVALID"
  ELSE IF path[2] # H(1815) THEN "INVALID"
  ELSE CASE path[1] \in {H(44), H(1852)} /\ Account(path) -> "WALLET_ACCOUNT"
         [] path[1] = H(44) /\ Chain(path, {0, 1}) -> "WALLET_SPENDING_KEY_BYRON"
         [] path[1] = H(1852) /\ Chain(path, {0, 1}) -> "WALLET_SPENDING_KEY_SHELLEY"
         [] path[1] = H(1852) /\ Chain(path, {2}) -> "WALLET_STAKING_KEY"
         [] path[1] = H(1852) /\ Chain(path, {3}) -> "DREP_KEY"
         [] path[1] = H(1852) /\ Chain(path, {4}) -> "COMMITTEE_COLD_KEY"
         [] path[1] = H(1852) /\ Chain(path, {5}) -> "COMMITTEE_HOT_KEY"
         [] path[1] = H(1853) /\ Len(path) = 4 /\ path[3] = H(0) /\ path[4].hard -> "POOL_COLD_KEY"
         [] path[1] = H(1854) /\ Account(path) -> "WALLET_ACCOUNT_MULTISIG"
         [] path[1] = H(1854) /\ Chain(path, {0}) -> "WALLET_SPENDING_KEY_MULTISIG"
         [] path[1] = H(1854) /\ Chain(path, {2}) -> "WALLET_STAKING_KEY_MULTISIG"
         [] path[1] = H(1855) /\ HardenedAccount(path) -> "WALLET_MINTING_KEY"
         [] path[1] = H(1694) /\ HardenedAccount(path) -> "CVOTE_ACCOUNT"
         [] path[1] = H(1694) /\ Chain(path, {0}) /\ path[3].hard -> "CVOTE_KEY"
         [] OTHER -> "INVALID"

\* getExtendedPublicKeys: a path asked for, and the chain type of the schema made of it;
\* a path of any other accepted kind is passed over.
MultisigPaths ==
  {"WALLET_ACCOUNT_MULTISIG", "WALLET_SPENDING_KEY_MULTISIG", "WALLET_STAKING_KEY_MULTISIG"}
ParseKeyPath(path) ==
  LET kind == ClassifyPath(path)
  IN Verdict(<<Validate(kind # "INVALID", "invalid path"),
               Validate(kind # "WALLET_SPENDING_KEY_BYRON", "byron address is not supported")>>)
SchemaOf(path) ==
  LET kind == ClassifyPath(path)
  IN CASE kind = "POOL_COLD_KEY" -> {"ADA_CIP_1853"}
       [] kind \in MultisigPaths -> {"ADA_CIP_1854"}
       [] kind \in {"WALLET_SPENDING_KEY_SHELLEY", "WALLET_ACCOUNT"} -> {"ADA"}
       [] OTHER -> {}
Schemas(paths) == SelectSeq(paths, LAMBDA path : SchemaOf(path) # {})
ParseKeyPaths(paths) ==
  Verdict(<<Validate(IsArray(paths), "GET_EXT_PUB_KEY_PATHS_NOT_ARRAY"),
            Each(LAMBDA path : ParseBIP32Path(path, "INVALID_PATH"), paths.items),
            Each(ParseKeyPath, paths.items)>>)
=============================================================================
