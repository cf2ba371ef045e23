---------------------------- MODULE MCAdaRequest -----------------------------
(***************************************************************************)
(* The requests TLC enumerates for AdaRequest: two transactions, the       *)
(* alternatives of every field that a mode or a parser tells apart, and    *)
(* amounts around the bounds of the number formats.                        *)
(***************************************************************************)
EXTENDS AdaRequest

Network == [protocolMagic |-> "uint32", networkId |-> "nibble"]
Networks ==
  {Network, [Network EXCEPT !.protocolMagic = "other"], [Network EXCEPT !.networkId = "uint8"]}

Spending(i) == <<H(1852), H(1815), H(0), S(0), S(i)>>
Staking == <<H(1852), H(1815), H(0), S(2), S(0)>>
Cold == <<H(1853), H(1815), H(0), H(0)>>
BadPath == <<H(1852), Bad>>
LongPath == Spending(0) \o <<S(0)>>

Url == [ascii |-> TRUE, length |-> 20]
Anchors == {<<>>, <<[url |-> Url, hash |-> Hex(32)]>>, <<[url |-> Url, hash |-> Hex(31)]>>,
            <<[url |-> [Url EXCEPT !.length = 129], hash |-> Hex(32)]>>}

KeyPath(path) == [type |-> "KEY_PATH", path |-> path, hash |-> Hex(0)]
KeyHash == [type |-> "KEY_HASH", path |-> <<>>, hash |-> Hex(28)]
ScriptHash == [type |-> "SCRIPT_HASH", path |-> <<>>, hash |-> Hex(28)]
StakeCredentials == {KeyPath(Staking), KeyHash, ScriptHash}

NoPath == <<>>
Address(type, path, script, stake) ==
  [type |-> type, spendingPath |-> path, spendingScriptHash |-> script,
   stakingPath |-> IF stake = "path" THEN <<Staking>> ELSE <<>>,
   stakingKeyHash |-> IF stake \in {"hash", "both"} THEN <<Hex(28)>> ELSE <<>>,
   stakingPointer |-> IF stake = "pointer" THEN <<<<"uint32", "uint8", "nibble">>>> ELSE <<>>,
   stakingScriptHash |-> IF stake \in {"script", "both"} THEN <<Hex(28)>> ELSE <<>>]
BaseAddress == Address("BASE_KEY_KEY", <<Spending(0)>>, <<>>, "path")
MCAddresses ==
  [network : Networks,
   address : {Address(type, path, script, stake) :
                type \in AddressTypes \cup {"unknown"}, path \in {<<>>, <<Spending(0)>>, <<BadPath>>},
                script \in {<<>>, <<Hex(28)>>, <<Hex(27)>>},
                stake \in {"none", "path", "hash", "pointer", "script", "both"}}]

\* Names and policies of 28 bytes that differ in their first two characters.
Text(text) == [digits |-> TRUE, length |-> Len(text), text |-> text]
Policy(a, b) == Text(<<a, b>> \o [i \in 1 .. 54 |-> 0])
Token(name, amount) == [assetName |-> Text(name), amount |-> amount]
Group(policy, tokens) == [policyId |-> policy, tokens |-> List(tokens)]
One == String(<<1>>)
Names == {<<>>, <<0, 9>>, <<49, 0>>, <<17, 0>>, <<0, 0, 0, 0>>}
MCBundles ==
  {List(<<>>)}
  \cup {List(<<Group(Policy(1, 1), <<Token(m, One), Token(n, One)>>)>>) : m, n \in Names}
  \cup {List(<<Group(p, <<Token(<<>>, One)>>), Group(q, <<Token(<<0, 1>>, One)>>)>>) :
          p, q \in {Policy(1, 1), Policy(1, 49), Policy(1, 17), Policy(49, 0)}}
  \cup {List(<<Group(Policy(1, 1), <<>>)>>), NotAnArray,
        List(<<Group(Text(<<1, 1>>), <<Token(<<>>, One)>>)>>)}

Output == [format |-> "MAP_BABBAGE", amount |-> One, tokenBundle |-> List(<<>>),
           destination |-> ThirdPartyAddress, datum |-> <<>>, referenceScript |-> <<>>]
Destinations == {ThirdPartyAddress, [type |-> "DEVICE_OWNED", address |-> BaseAddress],
                 [type |-> "DEVICE_OWNED",
                  address |-> Address("REWARD_KEY", <<>>, <<>>, "path")]}
Data == {<<>>, <<[type |-> "HASH", hex |-> Hex(32)]>>, <<[type |-> "HASH", hex |-> Hex(31)]>>,
         <<[type |-> "INLINE", hex |-> Hex(3)]>>, <<[type |-> "other", hex |-> Hex(3)]>>}
Outputs ==
  {[Output EXCEPT !.destination = d] : d \in Destinations}
  \cup {[Output EXCEPT !.datum = d] : d \in Data}
  \cup {[Output EXCEPT !.format = "ARRAY_LEGACY", !.datum = d, !.referenceScript = <<Hex(4)>>] :
          d \in {<<>>, <<[type |-> "HASH", hex |-> Hex(32)]>>}}
  \cup {[Output EXCEPT !.referenceScript = <<Hex(4)>>]}

Input == [txHash |-> Hex(32), outputIndex |-> "nibble", path |-> <<Spending(0)>>]
Inputs == {Input, [Input EXCEPT !.path = <<>>], [Input EXCEPT !.path = <<LongPath>>],
           [Input EXCEPT !.txHash = Hex(31)]}

Held(type) == [type |-> type, path |-> Staking,
               hash |-> IF type = "THIRD_PARTY" THEN Hex(28) ELSE Hex(0)]
Owner == Held("DEVICE_OWNED")
Stranger == Held("THIRD_PARTY")
Relay(type) == [type |-> type, port |-> <<"uint16">>,
                ipv4 |-> <<<<"uint8", "uint8", "nibble", "uint8">>>>, ipv6 |-> <<Hex(16)>>,
                dnsName |-> Url]
OperatorPool ==
  [poolKey |-> Held("DEVICE_OWNED"), vrfKeyHash |-> Hex(32), pledge |-> One, cost |-> One,
   margin |-> [numerator |-> String(<<0>>), denominator |-> One],
   rewardAccount |-> [type |-> "DEVICE_OWNED", path |-> Staking, hash |-> Hex(0)],
   owners |-> <<Stranger>>, relays |-> <<Relay("SINGLE_HOST_IP_ADDR")>>,
   metadata |-> <<[url |-> Url, hash |-> Hex(32)]>>]
OwnerPool == [OperatorPool EXCEPT !.poolKey = Stranger, !.owners = <<Owner, Stranger>>]
Pools ==
  {OperatorPool, OwnerPool,
   [OwnerPool EXCEPT !.rewardAccount = ThirdPartyAccount],
   [OperatorPool EXCEPT !.owners = <<>>], [OperatorPool EXCEPT !.owners = <<Stranger, Stranger>>],
   [OperatorPool EXCEPT !.owners = <<Owner>>], [OwnerPool EXCEPT !.owners = <<Owner, Owner>>],
   [OwnerPool EXCEPT !.owners = <<Stranger>>],
   [OperatorPool EXCEPT !.relays = <<Relay("SINGLE_HOST_HOSTNAME"), Relay("MULTI_HOST")>>],
   [OperatorPool EXCEPT !.relays = <<[Relay("SINGLE_HOST_IP_ADDR") EXCEPT !.ipv4 = <<<<"uint8">>>>]>>],
   [OperatorPool EXCEPT !.metadata = <<>>]}
Registration(pool) == [type |-> "STAKE_POOL_REGISTRATION", pool |-> pool]
Margins ==
  LET texts == {<<0>>, <<1>>, <<9>>, <<1, 0>>, <<0, 1>>, <<9, 9>>, <<1, 0, 0>>,
                MAX_UINT_64_STR, [MAX_UINT_64_STR EXCEPT ![20] = 6]}
  IN {List(<<Registration([OperatorPool EXCEPT !.margin.numerator = String(n),
                                               !.margin.denominator = String(d)])>>) :
        n, d \in texts}

Certificate(type, credential, dRep, hot, anchor) ==
  [type |-> type, credential |-> credential, deposit |-> One, poolKeyHash |-> Hex(28),
   dRep |-> dRep, hotCredential |-> hot, anchor |-> anchor]
CredentialCertificates ==
  {Certificate(t, c, KeyHash, KeyHash, <<>>) :
     t \in StakeTypes \cup CommitteeTypes \cup DRepTypes, c \in StakeCredentials}
  \cup {Certificate("VOTE_DELEGATION", KeyPath(Staking), [KeyHash EXCEPT !.type = k], KeyHash, <<>>) :
          k \in DRepKinds}
  \cup {Certificate("DREP_UPDATE", KeyPath(Staking), KeyHash, KeyHash, a) : a \in Anchors}
Retirement(epoch) ==
  [type |-> "STAKE_POOL_RETIREMENT", poolKeyPath |-> Cold, retirementEpoch |-> epoch]
CertificateLists ==
  {List(<<>>), NotAnArray, List(<<Retirement(One)>>), List(<<Retirement(String(<<>>))>>),
   List(<<[type |-> "other"]>>)}
  \cup {List(<<c>>) : c \in CredentialCertificates}
  \cup {List(<<Registration(p)>>) : p \in Pools}
  \cup {List(<<Registration(OperatorPool), Retirement(One)>>)}

Registration36(format, key, path, delegations, purpose, destination) ==
  [format |-> format, voteKey |-> key, voteKeyPath |-> path, delegations |-> delegations,
   votingPurpose |-> purpose, stakingPath |-> Staking, paymentDestination |-> destination,
   nonce |-> One]
Delegations ==
  {<<>>, <<List(<<>>)>>, <<NotAnArray>>,
   <<List(<<[type |-> "KEY", weight |-> "uint32", voteKey |-> Hex(32), voteKeyPath |-> <<>>],
            [type |-> "PATH", weight |-> "nibble", voteKey |-> Hex(0), voteKeyPath |-> Staking]>>)>>}
AuxiliaryData ==
  {<<>>, <<[type |-> "ARBITRARY_HASH", hash |-> Hex(32)]>>,
   <<[type |-> "ARBITRARY_HASH", hash |-> Hex(28)]>>}
Registrations36 ==
  {<<[type |-> "CIP36_REGISTRATION", params |-> Registration36(f, k, p, d, v, t)]>> :
     f \in {"CIP_15", "CIP_36", "other"}, k \in {<<>>, <<Hex(32)>>}, p \in {<<>>, <<Staking>>},
     d \in Delegations, v \in {<<>>, <<One>>}, t \in Destinations}

Signer(type) == [type |-> type, path |-> Staking, hash |-> Hex(28)]
Voter(type) == [type |-> type, path |-> Staking, hash |-> Hex(28)]
Vote == [txHash |-> Hex(32), index |-> "nibble", anchor |-> <<>>]
Ballot(type, votes) == [voter |-> Voter(type), votes |-> List(votes)]
VoterTypes ==
  {"COMMITTEE_KEY_PATH", "COMMITTEE_KEY_HASH", "COMMITTEE_SCRIPT_HASH", "DREP_KEY_PATH",
   "DREP_KEY_HASH", "DREP_SCRIPT_HASH", "STAKE_POOL_KEY_PATH", "STAKE_POOL_KEY_HASH"}
VotingProcedures ==
  {List(<<>>), NotAnArray}
  \cup {List(<<Ballot(t, <<Vote>>)>>) : t \in VoterTypes}
  \cup {List(<<Ballot("DREP_KEY_PATH", <<>>)>>), List(<<Ballot("DREP_KEY_PATH", <<Vote, Vote>>)>>),
        List(<<Ballot("DREP_KEY_PATH", <<Vote>>), Ballot("DREP_KEY_PATH", <<Vote>>)>>)}

Base ==
  [network |-> Network, inputs |-> List(<<Input>>), outputs |-> List(<<Output>>), fee |-> One,
   ttl |-> <<>>, certificates |-> List(<<>>), withdrawals |-> List(<<>>), auxiliaryData |-> <<>>,
   validityIntervalStart |-> <<>>, mint |-> <<>>, scriptDataHash |-> <<>>,
   collateralInputs |-> List(<<>>), requiredSigners |-> List(<<>>), includeNetworkId |-> <<>>,
   collateralOutput |-> <<>>, totalCollateral |-> <<>>, referenceInputs |-> List(<<>>),
   votingProcedures |-> List(<<>>), treasury |-> <<>>, donation |-> <<>>]
MCBases ==
  {Base, [Base EXCEPT !.certificates = List(<<Registration(OperatorPool)>>)],
   [Base EXCEPT !.certificates = List(<<Registration(OwnerPool)>>),
                !.inputs = List(<<[Input EXCEPT !.path = <<>>]>>)]}

MCAlternatives ==
  [inputs |-> {List(<<i>>) : i \in {Input, [Input EXCEPT !.path = <<>>]}},
   outputs |-> {List(<<o>>) : o \in Outputs},
   certificates |-> {List(<<c>>) : c \in CredentialCertificates \cup {Retirement(One)}}
                    \cup {List(<<Registration(p)>>) : p \in Pools}
                    \cup {List(<<Registration(OperatorPool), Retirement(One)>>)},
   withdrawals |-> {List(<<[amount |-> One, credential |-> c]>>) : c \in StakeCredentials},
   auxiliaryData |-> AuxiliaryData,
   mint |-> {<<List(<<Group(Policy(1, 1), <<Token(<<>>, One)>>)>>)>>},
   scriptDataHash |-> {<<Hex(32)>>},
   collateralInputs |-> {List(<<Input>>)},
   requiredSigners |-> {List(<<Signer(t)>>) : t \in {"PATH", "HASH"}},
   collateralOutput |-> {<<Output>>, <<[Output EXCEPT !.datum = <<[type |-> "INLINE", hex |-> Hex(3)]>>]>>},
   totalCollateral |-> {<<One>>},
   referenceInputs |-> {List(<<Input>>)},
   votingProcedures |-> VotingProcedures,
   treasury |-> {<<One>>},
   donation |-> {<<One>>, <<String(<<0>>)>>}]

\* The texts of a number of digits that are the bound and its neighbours, and short texts.
Around(text, last) == {text, [text EXCEPT ![Len(text)] = last], SubSeq(text, 1, Len(text) - 1),
                       text \o <<0>>}
NumberTexts ==
  UNION {Around(MAX_UINT_64_STR, 6), Around(MAX_INT_64_STR, 8), Around(MIN_INT_64_STR, 9),
         {<<>>, <<0>>, <<1>>, <<9, 9>>, <<0, 1>>, <<Minus>>, <<Minus, 0>>, <<Minus, 1>>, <<Minus, 0, 1>>,
          <<1, Point, 5>>, <<4, 5>> \o [i \in 1 .. 15 |-> 0], <<4, 5>> \o [i \in 1 .. 18 |-> 0],
          <<1>> \o [i \in 1 .. 19 |-> 9], <<1>> \o [i \in 1 .. 18 |-> 0],
          <<Minus, 1>> \o [i \in 1 .. 18 |-> 0], <<9>> \o [i \in 1 .. 18 |-> 9]}}
NumberAmounts == {String(t) : t \in NumberTexts}
                 \cup {Amount("number", <<7>>, TRUE), Amount("number", <<1, Point, 5>>, FALSE),
                       Amount("number", <<Minus, 7>>, TRUE), Amount("bigint", MAX_UINT_64_STR, FALSE),
                       Amount("object", <<>>, FALSE)}
MCSingles ==
  [network |-> Networks,
   inputs |-> {NotAnArray} \cup {List(<<i>>) : i \in Inputs},
   outputs |-> {NotAnArray} \cup {List(<<[Output EXCEPT !.tokenBundle = b]>>) : b \in MCBundles},
   fee |-> NumberAmounts,
   ttl |-> {<<a>> : a \in NumberAmounts},
   validityIntervalStart |-> {<<a>> : a \in NumberAmounts},
   certificates |-> CertificateLists \cup Margins,
   withdrawals |-> {NotAnArray},
   auxiliaryData |-> Registrations36,
   mint |-> {<<b>> : b \in MCBundles}
            \cup {<<List(<<Group(Policy(1, 1), <<Token(<<>>, a)>>)>>)>> : a \in NumberAmounts},
   includeNetworkId |-> {<<b>> : b \in {"true", "false", "other"}},
   collateralInputs |-> {NotAnArray},
   requiredSigners |-> {NotAnArray, List(<<Signer("other")>>)},
   referenceInputs |-> {NotAnArray}]
MCWitnessPaths == {List(<<>>), List(<<Staking>>), List(<<BadPath>>), NotAnArray}

MessageBase == [signingPath |-> Staking, message |-> Hex(4), addressFieldType |-> "KEY_HASH",
                network |-> Network, address |-> BaseAddress]
MCMessages ==
  {MessageBase, [MessageBase EXCEPT !.signingPath = BadPath],
   [MessageBase EXCEPT !.message.digits = FALSE], [MessageBase EXCEPT !.addressFieldType = "ADDRESS"],
   [MessageBase EXCEPT !.addressFieldType = "ADDRESS", !.network.networkId = "uint8"]}
MCVotes ==
  [voteCastData : {Hex(34), Hex(35), [digits |-> FALSE, length |-> 70]},
   witnessPath : {<<>>, Staking, BadPath, <<H(1694), H(1815), H(0), S(0), S(0)>>}]
MCCertificates ==
  [kesPublicKey : {Hex(32), Hex(28)}, kesPeriod : NumberAmounts, issueCounter : {One, String(<<>>)},
   coldKeyPath : {Cold, BadPath}]

Node(type, path, hash, count, slot, scripts) ==
  [type |-> type, path |-> path, keyHash |-> hash, requiredCount |-> count, slot |-> slot,
   scripts |-> scripts]
NodeTypes == DOMAIN ScriptParameters \cup {"other"}
Nodes ==
  {Node(t, p, h, c, s, l) :
     t \in NodeTypes, p \in {<<>>, <<Staking>>, <<BadPath>>}, h \in {<<>>, <<Hex(28)>>},
     c \in {<<>>, <<[width |-> "nibble", value |-> 1]>>, <<[width |-> "nibble", value |-> 2]>>},
     s \in {<<>>, <<One>>, <<String(<<>>)>>}, l \in {<<>>, <<List(<<1>>)>>, <<NotAnArray>>}}
MCScripts ==
  [script : {<<n>> : n \in Nodes}
            \cup {<<Node("ALL", <<>>, <<>>, <<>>, <<>>, <<List(<<1>>)>>), n>> : n \in Nodes},
   displayFormat : {"bech32", "other"}]
MCKeyPaths ==
  {NotAnArray}
  \cup {List(<<path>>) : path \in
          {Staking, Spending(0), Cold, BadPath, LongPath, <<H(1852)>>, <<H(1852), H(1815), H(0)>>,
           <<H(1852), H(1814), H(0)>>, <<H(44), H(1815), H(0), S(1), S(0)>>,
           <<H(44), H(1815), H(0), S(2), S(0)>>, <<H(1854), H(1815), H(0)>>,
           <<H(1852), H(1815), H(0), S(0)>>, <<H(1855), H(1815), S(0)>>,
           <<H(1694), H(1815), H(0), S(0), S(0)>>}}
  \cup {List(<<<<H(1854), H(1815), H(0), S(c), S(0)>>,
               <<H(1852), H(1815), H(0), S(d), S(0)>>>>) : c \in {0, 1, 2}, d \in 0 .. 6}
=============================================================================
