---------------------------- MODULE MCAdaSession -----------------------------
(***************************************************************************)
(* The requests TLC enumerates for AdaSession: paths inside and outside    *)
(* the cached account, each family of certificates, each case of an        *)
(* address, and a transaction with parts beside those.                     *)
(***************************************************************************)
EXTENDS AdaSession, TLC

CONSTANTS c1, c2
CallSymmetry == Permutations({c1, c2})

Network == [protocolMagic |-> "uint32", networkId |-> "nibble"]
Spending == <<H(1852), H(1815), H(0), S(0), S(0)>>
Staking == <<H(1852), H(1815), H(0), S(2), S(0)>>
OtherAccount == <<H(1852), H(1815), H(1), S(2), S(0)>>
LongPath == Staking \o <<S(0)>>
VotePath == <<H(1694), H(1815), H(0), S(0), S(0)>>
MCSigningPaths == {Staking, OtherAccount, ColdPath, VotePath, LongPath}
MCKeyRequests == {<<AccountPath, ColdPath>>, <<Staking, Spending>>, <<VotePath>>, <<<<H(1852)>>>>}

NodeOf(type, path) ==
  [type |-> type, path |-> path, keyHash |-> <<>>, requiredCount |-> <<>>, slot |-> <<>>,
   scripts |-> IF path = <<>> THEN <<List(<<1>>)>> ELSE <<>>]
MCNativeScripts ==
  {<<NodeOf("ALL", <<>>), NodeOf("PUBKEY_DEVICE_OWNED", <<p>>)>> : p \in {Staking, LongPath}}
  \cup {<<NodeOf("PUBKEY_DEVICE_OWNED", <<>>)>>}

Address(type, path, script, stake) ==
  [type |-> type, spendingPath |-> path, spendingScriptHash |-> script,
   stakingPath |-> IF stake = "path" THEN <<Staking>> ELSE <<>>,
   stakingKeyHash |-> IF stake = "hash" THEN <<Hex(28)>> ELSE <<>>,
   stakingPointer |-> IF stake = "pointer" THEN <<<<"uint32", "uint8", "nibble">>>> ELSE <<>>,
   stakingScriptHash |-> IF stake = "script" THEN <<Hex(28)>> ELSE <<>>]
MCAddresses ==
  {[network |-> Network, address |-> a] : a \in
     {Address("BASE_KEY_KEY", <<Spending>>, <<>>, "path"),
      Address("BASE_KEY_KEY", <<Spending>>, <<>>, "hash"),
      Address("BASE_SCRIPT_SCRIPT", <<>>, <<Hex(28)>>, "script"),
      Address("POINTER_KEY", <<Spending>>, <<>>, "pointer"),
      Address("ENTERPRISE_KEY", <<Spending>>, <<>>, "none")}}

One == String(<<1>>)
ThirdPartyAddress == [type |-> "THIRD_PARTY", address |-> Hex(57)]
Output == [format |-> "MAP_BABBAGE", amount |-> One, tokenBundle |-> List(<<>>),
           destination |-> ThirdPartyAddress, datum |-> <<>>, referenceScript |-> <<>>]
Input == [txHash |-> Hex(32), outputIndex |-> "nibble", path |-> <<Spending>>]
Base ==
  [network |-> Network, inputs |-> List(<<Input>>), outputs |-> List(<<Output>>), fee |-> One,
   ttl |-> <<One>>, certificates |-> List(<<>>), withdrawals |-> List(<<>>), auxiliaryData |-> <<>>,
   validityIntervalStart |-> <<>>, mint |-> <<>>, scriptDataHash |-> <<>>,
   collateralInputs |-> List(<<>>), requiredSigners |-> List(<<>>), includeNetworkId |-> <<>>,
   collateralOutput |-> <<>>, totalCollateral |-> <<>>, referenceInputs |-> List(<<>>),
   votingProcedures |-> List(<<>>), treasury |-> <<>>, donation |-> <<>>]

KeyPath(path) == [type |-> "KEY_PATH", path |-> path, hash |-> Hex(0)]
KeyHash == [type |-> "KEY_HASH", path |-> <<>>, hash |-> Hex(28)]
Certificate(type, path) ==
  [type |-> type, credential |-> KeyPath(path), deposit |-> One, poolKeyHash |-> Hex(28),
   dRep |-> KeyPath(Spending), hotCredential |-> KeyPath(Spending), anchor |-> <<>>]
Held(type) == [type |-> type, path |-> Staking,
               hash |-> IF type = "THIRD_PARTY" THEN Hex(28) ELSE Hex(0)]
Registration ==
  [type |-> "STAKE_POOL_REGISTRATION",
   pool |-> [poolKey |-> Held("DEVICE_OWNED"), vrfKeyHash |-> Hex(32), pledge |-> One, cost |-> One,
             margin |-> [numerator |-> String(<<0>>), denominator |-> One],
             rewardAccount |-> Held("DEVICE_OWNED"), owners |-> <<Held("THIRD_PARTY")>>,
             relays |-> <<>>, metadata |-> <<>>]]
\* The registration an owner signs; its reward account is the device's too.
RewardPath == <<H(1852), H(1815), H(0), S(2), S(1)>>
OwnersRegistration ==
  [Registration EXCEPT !.pool.poolKey = Held("THIRD_PARTY"),
                       !.pool.owners = <<Held("DEVICE_OWNED"), Held("THIRD_PARTY")>>,
                       !.pool.rewardAccount.path = RewardPath]
WithoutPath == List(<<[Input EXCEPT !.path = <<>>]>>)
Retirement == [type |-> "STAKE_POOL_RETIREMENT", poolKeyPath |-> ColdPath, retirementEpoch |-> One]
With(certificates) == [Base EXCEPT !.certificates = List(certificates)]

SignRequest(mode, tx, paths) ==
  [signingMode |-> mode, additionalWitnessPaths |-> List(paths), tx |-> tx]
Ordinary(tx) == SignRequest("ORDINARY_TRANSACTION", tx, <<>>)
MCTransactions ==
  {Ordinary(With(<<Certificate(t, Staking)>>)) :
     t \in {"STAKE_DEREGISTRATION_CONWAY", "VOTE_DELEGATION", "AUTHORIZE_COMMITTEE_HOT"}}
  \cup {Ordinary(With(<<Certificate("STAKE_REGISTRATION", OtherAccount)>>)),
        Ordinary(With(<<Retirement>>)),
        SignRequest("POOL_REGISTRATION_AS_OPERATOR", With(<<Registration>>), <<>>),
        SignRequest("POOL_REGISTRATION_AS_OWNER",
                    [With(<<OwnersRegistration>>) EXCEPT !.inputs = WithoutPath], <<Spending>>),
        SignRequest("POOL_REGISTRATION_AS_OWNER", With(<<OwnersRegistration>>), <<>>),
        SignRequest("PLUTUS_TRANSACTION",
                    With(<<[Certificate("DREP_REGISTRATION", Staking) EXCEPT !.credential = KeyHash]>>),
                    <<Staking>>),
        SignRequest("MULTISIG_TRANSACTION", Base, <<>>),
        Ordinary([Base EXCEPT !.withdrawals = List(<<[amount |-> One, credential |-> KeyPath(Staking)]>>),
                              !.ttl = <<>>])}
=============================================================================
