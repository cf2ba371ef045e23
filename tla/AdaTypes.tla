------------------------------- MODULE AdaTypes -------------------------------
(***************************************************************************)
(* types/public.ts of hw-app-ada, as far as the parsers rely on it: which  *)
(* fields a value has, which of them are arrays or may be left out, and    *)
(* the enumerations whose switch ends in unreachable().  What a parser     *)
(* checks itself is left open: the width of a number, the digits of a hex  *)
(* string, the indexes of a path, the other enumerations.                  *)
(***************************************************************************)
EXTENDS AdaOutputs, AdaCertificates

\* An array of values of a type; a value that may be left out is an array too.
AllOf(Type(_), s) == IsSequence(s) /\ \A i \in DOMAIN s : Type(s[i])
\* A field declared as an array, which a caller may have filled with something else.
IsList(list) == {"array", "items"} \subseteq DOMAIN list /\ IsSequence(list.items)
ListOf(Type(_), list) == IsList(list) /\ \A i \in DOMAIN list.items : Type(list.items[i])

\* A number of the safe range is printed with at most 16 digits and a sign.
SAFE_LENGTH == 17
BigintLike(amount) ==
  /\ amount.text \in Seq(Int)
  /\ amount.type = "number" /\ amount.safe => Len(amount.text) <= SAFE_LENGTH

\* A hex string that is kept with its text.
HexCharacters == 0 .. 9 \cup 17 .. 22 \cup 49 .. 54
IsText(name) ==
  /\ name.text \in Seq(Int)
  /\ name.length = Len(name.text)
  /\ name.digits => \A i \in DOMAIN name.text : name.text[i] \in HexCharacters

IsToken(token) == IsText(token.assetName) /\ BigintLike(token.amount)
IsAssetGroup(group) == IsText(group.policyId) /\ ListOf(IsToken, group.tokens)
IsTokenBundle(bundle) == ListOf(IsAssetGroup, bundle)

IsAddress(address) ==
  /\ IsSequence(address.spendingPath) /\ IsSequence(address.spendingScriptHash)
  /\ IsSequence(address.stakingPath) /\ IsSequence(address.stakingKeyHash)
  /\ AllOf(IsSequence, address.stakingPointer)
  /\ IsSequence(address.stakingScriptHash)
IsDestination(destination) ==
  destination.type = "DEVICE_OWNED" => IsAddress(destination.address)

InputFields == {"txHash", "outputIndex", "path"}
IsInput(input) == InputFields \subseteq DOMAIN input /\ IsSequence(input.path)
OutputFields == {"format", "amount", "tokenBundle", "destination", "datum", "referenceScript"}
IsOutput(output) ==
  /\ OutputFields \subseteq DOMAIN output
  /\ IsTokenBundle(output.tokenBundle)
  /\ IsDestination(output.destination)
  /\ IsSequence(output.datum) /\ IsSequence(output.referenceScript)

-----------------------------------------------------------------------------
PoolFields == {"poolKey", "vrfKeyHash", "pledge", "cost", "margin", "rewardAccount", "owners",
               "relays", "metadata"}
IsRelay(relay) ==
  /\ relay.type \in {"SINGLE_HOST_IP_ADDR", "SINGLE_HOST_HOSTNAME"} => IsSequence(relay.port)
  /\ relay.type = "SINGLE_HOST_IP_ADDR" => AllOf(IsSequence, relay.ipv4) /\ IsSequence(relay.ipv6)
IsPool(pool) ==
  /\ PoolFields \subseteq DOMAIN pool
  /\ BigintLike(pool.margin.numerator) /\ BigintLike(pool.margin.denominator)
  /\ IsSequence(pool.owners) /\ AllOf(IsRelay, pool.relays) /\ IsSequence(pool.metadata)

IsCredential(credential) == credential.type \in CredentialTypes
IsDRep(dRep) == dRep.type \in DRepKinds
IsCertificate(cert) ==
  /\ cert.type \in StakeTypes \cup CommitteeTypes \cup DRepTypes => IsCredential(cert.credential)
  /\ cert.type = "VOTE_DELEGATION" => IsDRep(cert.dRep)
  /\ cert.type = "AUTHORIZE_COMMITTEE_HOT" => IsCredential(cert.hotCredential)
  /\ cert.type \in CommitteeTypes \cup DRepTypes => IsSequence(cert.anchor)
  /\ cert.type = "STAKE_POOL_REGISTRATION" => {"type", "pool"} \subseteq DOMAIN cert /\ IsPool(cert.pool)
IsWithdrawal(withdrawal) == IsCredential(withdrawal.credential)

\* The voters, by what identifies them.
PathVoters == {"COMMITTEE_KEY_PATH", "DREP_KEY_PATH", "STAKE_POOL_KEY_PATH"}
HashVoters == {"COMMITTEE_KEY_HASH", "DREP_KEY_HASH", "STAKE_POOL_KEY_HASH"}
ScriptVotersOfCommittee == {"COMMITTEE_SCRIPT_HASH"}     \* mutant: a kind of voter is forgotten
ScriptVoters == {"COMMITTEE_SCRIPT_HASH", "DREP_SCRIPT_HASH"}
IsVote(vote) == IsSequence(vote.anchor)
IsVoterVotes(voterVotes) ==
  /\ voterVotes.voter.type \in
       {"COMMITTEE_KEY_PATH", "COMMITTEE_KEY_HASH", "COMMITTEE_SCRIPT_HASH", "DREP_KEY_PATH",
        "DREP_KEY_HASH", "DREP_SCRIPT_HASH", "STAKE_POOL_KEY_PATH", "STAKE_POOL_KEY_HASH"}
  /\ ListOf(IsVote, voterVotes.votes)

IsRegistration36(params) ==
  /\ IsSequence(params.voteKey) /\ IsSequence(params.voteKeyPath)
  /\ AllOf(IsList, params.delegations)
  /\ IsSequence(params.votingPurpose)
  /\ IsDestination(params.paymentDestination)
IsAuxiliaryData(auxiliaryData) ==
  auxiliaryData.type = "CIP36_REGISTRATION" => IsRegistration36(auxiliaryData.params)

-----------------------------------------------------------------------------
\* The fields of a transaction, those that are arrays and those that may be left out.
ListParts == {"inputs", "outputs", "certificates", "withdrawals", "collateralInputs",
              "requiredSigners", "referenceInputs", "votingProcedures"}
OptionalParts == {"ttl", "auxiliaryData", "validityIntervalStart", "mint", "scriptDataHash",
                  "includeNetworkId", "collateralOutput", "totalCollateral", "treasury", "donation"}
TransactionFields == ListParts \cup OptionalParts \cup {"network", "fee"}

WellFormedList(f, list) ==
  /\ IsList(list)
  /\ f \in {"inputs", "collateralInputs", "referenceInputs"} => ListOf(IsInput, list)
  /\ f = "outputs" => ListOf(IsOutput, list)
  /\ f = "certificates" => ListOf(IsCertificate, list)
  /\ f = "withdrawals" => ListOf(IsWithdrawal, list)
  /\ f = "votingProcedures" => ListOf(IsVoterVotes, list)
WellFormedOptional(f, optional) ==
  /\ IsSequence(optional) /\ Len(optional) <= 1
  /\ f = "mint" => AllOf(IsTokenBundle, optional)
  /\ f = "auxiliaryData" => AllOf(IsAuxiliaryData, optional)
  /\ f = "collateralOutput" => AllOf(IsOutput, optional)
WellFormedField(f, value) ==
  /\ f \in ListParts => WellFormedList(f, value)
  /\ f \in OptionalParts => WellFormedOptional(f, value)
  /\ f = "fee" => BigintLike(value)
WellFormed(tx) ==
  TransactionFields \subseteq DOMAIN tx /\ \A f \in TransactionFields : WellFormedField(f, tx[f])

-----------------------------------------------------------------------------
\* The other requests.  A native script is the sequence of its nodes.
IsMessage(data) ==
  /\ data.addressFieldType \in {"ADDRESS", "KEY_HASH"}
  /\ data.addressFieldType = "ADDRESS" => IsAddress(data.address)
IsScriptNode(node) ==
  /\ IsSequence(node.path) /\ IsSequence(node.keyHash) /\ IsSequence(node.requiredCount)
  /\ IsSequence(node.slot) /\ IsSequence(node.scripts)
IsNativeScript(script) == AllOf(IsScriptNode, script)
=============================================================================
