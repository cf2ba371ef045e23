-------------------------- MODULE AdaSessionProofs --------------------------
(***************************************************************************)
(* Theorems about AdaSession, for every number of calls and seeds and      *)
(* every set of requests.                                                  *)
(***************************************************************************)
EXTENDS AdaSession, AdaParserProofs

USE SessionAssumption

(***************************************************************************)
(* The inductive invariant.  A call is a record of its fields; a method    *)
(* that asks the device for something before it signs sends no fingerprint *)
(* with that; signMessage waits only with a fingerprint in hand; a key is  *)
(* the one of the path it stands for.                                      *)
(***************************************************************************)
Fields == {"op", "stage", "arg", "xfp", "keys", "sent", "got", "clean"}
IsCall(r) == r = [f \in Fields |-> r[f]]
Shape == call = [c \in Calls |-> call[c]] /\ \A c \in Calls : IsCall(call[c])

Paired(keys) == \A k \in keys : k.key.path = k.path
SentFits(c) ==
  /\ call[c].op = "getExtendedPublicKeys" \/ Paired(call[c].keys)
  /\ Paired(call[c].sent.keys)
  /\ call[c].sent.kind \in {"none", "keys", "config"} => call[c].sent.xfps = {}
  /\ Pending(c) /\ call[c].op = "signMessage" => call[c].xfp # None
  /\ Pending(c) /\ call[c].op = "signTransaction" => call[c].arg \in AcceptedTransactions

\* While a call is clean every answer in flight is of the seed the device works with, and
\* so is the cache once initAda has stored its keys.
Clean(c) == call[c].clean /\ Pending(c)
AnswersFresh == \A d \in Calls : Pending(d) => call[d].got \in {None, active}
CleanFits(c) ==
  Clean(c) =>
    /\ AnswersFresh
    /\ call[c].op = "initAda" /\ call[c].sent.kind = "config" => cache = active

CallInv == Shape /\ \A c \in Calls : SentFits(c)
CleanInv == \A c \in Calls : CleanFits(c)
Inductive == TypeOK /\ CallInv /\ CleanInv

-----------------------------------------------------------------------------
(***************************************************************************)
(* What the steps of a call do to its record, and to no other's.           *)
(***************************************************************************)
OthersKeep(c) == \A d \in Calls \ {c} : call'[d] = call[d]

LEMMA Assigned ==
  ASSUME Shape, NEW c \in Calls, NEW r, call' = [call EXCEPT ![c] = r], IsCall(r)
  PROVE  Shape' /\ call'[c] = r /\ OthersKeep(c)
BY DEF Shape, IsCall, OthersKeep

LEMMA EndedIsCall ==
  ASSUME NEW op, NEW keys
  PROVE  LET r == Ended(op, keys)
         IN /\ r.op \in {op, "none"} /\ (keys # {} => r.op = op)
            /\ IsCall(r) /\ r.stage = "idle" /\ r.xfp = None /\ r.got = None
            /\ r.keys = keys /\ r.sent = Plain("none")
BY DEF Ended, Idle, IsCall, Fields

LEMMA SentIsCall ==
  ASSUME NEW op, NEW arg, NEW xfp, NEW keys, NEW request, NEW clean
  PROVE  LET r == [op |-> op, stage |-> "sent", arg |-> arg, xfp |-> xfp, keys |-> keys,
                   sent |-> request, got |-> None, clean |-> clean]
         IN IsCall(r)
BY DEF IsCall, Fields

LEMMA PlainSent ==
  ASSUME NEW kind
  PROVE  Plain(kind).kind = kind /\ Plain(kind).xfps = {} /\ Plain(kind).keys = {}
BY DEF Plain, Request

LEMMA NextIsCall ==
  ASSUME Shape, NEW c \in Calls, NEW request, SendsNext(c, request)
  PROVE  /\ Shape' /\ OthersKeep(c)
         /\ call'[c].stage = "sent" /\ call'[c].sent = request /\ call'[c].got = None
         /\ \A f \in {"op", "arg", "xfp", "keys", "clean"} : call'[c][f] = call[c][f]
BY DEF SendsNext, Shape, IsCall, Fields, OthersKeep

LEMMA AnsweredRecord ==
  ASSUME NEW old, IsCall(old), NEW seed
  PROVE  LET r == [old EXCEPT !.stage = "answered", !.got = seed]
         IN /\ IsCall(r) /\ r.stage = "answered" /\ r.got = seed
            /\ \A f \in {"op", "arg", "xfp", "keys", "sent", "clean"} : r[f] = old[f]
<1> DEFINE r == [old EXCEPT !.stage = "answered", !.got = seed]
<1>1. old = [f \in Fields |-> old[f]]
  BY DEF IsCall
<1>2. r = [f \in Fields |-> IF f = "stage" THEN "answered" ELSE IF f = "got" THEN seed ELSE old[f]]
  BY <1>1 DEF Fields
<1> HIDE DEF r
<1>3. IsCall(r) /\ r.stage = "answered" /\ r.got = seed
  BY <1>2 DEF IsCall, Fields
<1>4. \A f \in {"op", "arg", "xfp", "keys", "sent", "clean"} : r[f] = old[f]
  BY <1>2 DEF Fields
<1> QED BY <1>3, <1>4 DEF r

LEMMA AnswerIsCall ==
  ASSUME Shape, NEW c \in Calls, DeviceAnswers(c)
  PROVE  /\ Shape' /\ OthersKeep(c)
         /\ call'[c].stage = "answered" /\ call'[c].got = active
         /\ \A f \in {"op", "arg", "xfp", "keys", "sent", "clean"} : call'[c][f] = call[c][f]
<1>1. call' = [call EXCEPT ![c].stage = "answered", ![c].got = active]
  BY DEF DeviceAnswers
<1> DEFINE r == [call[c] EXCEPT !.stage = "answered", !.got = active]
<1>2. call' = [d \in Calls |-> IF d = c THEN r ELSE call[d]]
  BY <1>1, SMTT(20) DEF Shape
<1>3. IsCall(call[c])
  BY DEF Shape
<1>4. /\ IsCall(r) /\ r.stage = "answered" /\ r.got = active
      /\ \A f \in {"op", "arg", "xfp", "keys", "sent", "clean"} : r[f] = call[c][f]
  BY <1>3, AnsweredRecord
<1> HIDE DEF r
<1>5. call'[c] = r /\ \A d \in Calls \ {c} : call'[d] = call[d]
  BY <1>2
<1>6. Shape'
  BY <1>2, <1>4 DEF Shape
<1> QED BY <1>4, <1>5, <1>6 DEF OthersKeep

LEMMA SwitchIsCall ==
  ASSUME Shape, UserSwitches
  PROVE  /\ Shape'
         /\ \A c \in Calls : /\ ~call'[c].clean
                             /\ \A f \in Fields \ {"clean"} : call'[c][f] = call[c][f]
BY DEF UserSwitches, Shape, IsCall, Fields

-----------------------------------------------------------------------------
(***************************************************************************)
(* Keys carry the seed they were asked of.                                 *)
(***************************************************************************)
SeedsOfKeys(keys) == {k.key.seed : k \in keys}

LEMMA CachedKeys ==
  ASSUME NEW paths, cache \in MaybeSeeds
  PROVE  SeedsOfKeys(KeysFor(cache, paths)) \subseteq Seeds
<1>1. SUFFICES ASSUME NEW p \in paths, NEW k \in PublicKey(cache, p)
               PROVE  k.seed \in Seeds
  BY DEF KeysFor, SeedsOfKeys
<1>2. cache \in Seeds
  BY DEF PublicKey, MaybeSeeds
<1>3. CASE IsColdPath(p)
  BY <1>2, <1>3 DEF PublicKey, Key
<1>4. CASE ~IsColdPath(p)
  <2>1. k \in Derive(Key(cache, AccountPath), ChildIndexes(p))
    BY <1>2, <1>4 DEF PublicKey
  <2>2. k = [Key(cache, AccountPath) EXCEPT !.path = @ \o ChildIndexes(p)]
    BY <2>1 DEF Derive
  <2> QED BY <1>2, <2>2 DEF Key
<1> QED BY <1>3, <1>4

LEMMA AnsweredKeys ==
  ASSUME NEW seed \in Seeds, NEW paths
  PROVE  SeedsOfKeys(DeviceKeys(seed, paths)) \subseteq Seeds
BY DEF SeedsOfKeys, DeviceKeys, Key

\* The keys found in the cache are those of their paths: an accepted path has at most five
\* indexes, the last two of which are all that follows the account's.
ValidPath(p) == p \in Seq(Indexes) /\ Len(p) <= 5

LEMMA FoundKey ==
  ASSUME NEW p, ValidPath(p), NEW k \in PublicKey(cache, p)
  PROVE  k.path = p
<1>1. CASE IsColdPath(p)
  BY <1>1 DEF PublicKey, Key
<1>2. CASE ~IsColdPath(p)
  <2>1. BelowAccount(p) /\ k \in Derive(Key(cache, AccountPath), ChildIndexes(p))
    BY <1>2 DEF PublicKey
  <2>2. p \in Seq(Indexes) /\ Len(p) \in Nat /\ Len(p) <= 5
    BY DEF ValidPath
  <2>3. Len(p) >= 3 /\ SubSeq(p, 1, 3) = AccountPath
    BY <2>1 DEF BelowAccount
  <2>4. p[1] = AccountPath[1] /\ p[2] = AccountPath[2] /\ p[3] = AccountPath[3]
    BY <2>2, <2>3
  <2>5. AccountPath = <<p[1], p[2], p[3]>> /\ p[3].hard
    BY <2>4 DEF AccountPath, H
  <2> DEFINE rest == <<p[Len(p) - 1], p[Len(p)]>>
  <2>6. ChildIndexes(p) = rest
    <3>1. SubSeq(p, Len(p) - 1, Len(p)) \in Seq(Indexes) /\ Len(SubSeq(p, Len(p) - 1, Len(p))) = 2
      BY <2>2, <2>3
    <3>2. SubSeq(p, Len(p) - 1, Len(p))[1] = p[Len(p) - 1] /\ SubSeq(p, Len(p) - 1, Len(p))[2] = p[Len(p)]
      BY <2>2, <2>3
    <3> DEFINE q == ChildIndexes(p)
    <3>3. q \in Seq(Indexes) /\ Len(q) = 2 /\ q[1] = p[Len(p) - 1] /\ q[2] = p[Len(p)]
      BY <3>1, <3>2 DEF ChildIndexes
    <3> HIDE DEF q
    <3>4. q = <<q[1], q[2]>>
      BY <3>3
    <3>5. q = rest
      BY <3>3, <3>4
    <3> QED BY <3>5 DEF q
  <2>7. /\ \A i \in DOMAIN rest : ~rest[i].hard
        /\ k = [Key(cache, AccountPath) EXCEPT !.path = @ \o rest]
    BY <2>1, <2>6 DEF Derive
  <2>8. ~p[Len(p) - 1].hard /\ ~p[Len(p)].hard
    <3>1. DOMAIN rest = 1 .. 2 /\ rest[1] = p[Len(p) - 1] /\ rest[2] = p[Len(p)]
      OBVIOUS
    <3> QED BY <2>7, <3>1
  <2>9. Len(p) = 5
    <3>1. Len(p) # 3
      BY <2>5, <2>8
    <3>2. Len(p) # 4
      <4>1. ASSUME Len(p) = 4 PROVE p[Len(p) - 1] = p[3]
        BY <4>1
      <4> QED BY <2>5, <2>8, <4>1
    <3>3. \A n \in Nat : n >= 3 /\ n <= 5 /\ n # 3 /\ n # 4 => n = 5
      OBVIOUS
    <3> QED BY <2>2, <2>3, <3>1, <3>2, <3>3
  <2>10. p = <<p[1], p[2], p[3]>> \o <<p[4], p[5]>>
    BY <2>2, <2>9
  <2>11. k.path = AccountPath \o rest
    BY <2>7 DEF Key
  <2> QED BY <2>5, <2>9, <2>10, <2>11
<1> QED BY <1>1, <1>2

(***************************************************************************)
(* The paths of accepted requests.                                         *)
(***************************************************************************)
LEMMA ParsedPath ==
  ASSUME NEW p, NEW reason, reason # OK, ParseBIP32Path(p, reason) = OK
  PROVE  Len(p) <= 5
BY DEF ParseBIP32Path, IsValidPath, Validate

LEMMA ParsedPaths ==
  ASSUME NEW list, Paths(list), NEW reason, reason # OK,
         Verdict([i \in DOMAIN list |-> ParseBIP32Path(list[i], reason)]) = OK
  PROVE  \A p \in Range(list) : ValidPath(p)
<1> DEFINE each == [i \in DOMAIN list |-> ParseBIP32Path(list[i], reason)]
<1>1. DOMAIN each \subseteq Nat
  BY DEF Paths, IsSequence
<1>2. \A i \in DOMAIN list : ParseBIP32Path(list[i], reason) = OK
  BY <1>1, OnlyIfAllPass
<1> QED BY <1>2, ParsedPath DEF Range, ValidPath, Paths

LEMMA SigningPathsValid == \A p \in AcceptedSigningPaths : ValidPath(p)
BY RequestAssumption, ParsedPath DEF AcceptedSigningPaths, ValidPath, OK

LEMMA AddressPathsValid == \A r \in AcceptedAddresses : \A p \in AddressPaths(r.address) : ValidPath(p)
<1> SUFFICES ASSUME NEW r \in AcceptedAddresses PROVE \A p \in AddressPaths(r.address) : ValidPath(p)
  OBVIOUS
<1> DEFINE address == r.address
<1>1. ExtractSpending(address) = OK /\ ExtractStaking(address) = OK
  BY Checks5 DEF AcceptedAddresses, ParseAddress
<1>2. Verdict([i \in DOMAIN address.spendingPath |->
                ParseBIP32Path(address.spendingPath[i], "ADDRESS_INVALID_SPENDING_KEY_PATH")]) = OK
  BY <1>1, Checks3 DEF ExtractSpending, Each
<1>3. Verdict([i \in DOMAIN address.stakingPath |->
                ParseBIP32Path(address.stakingPath[i], "ADDRESS_INVALID_SPENDING_KEY_PATH")]) = OK
  BY <1>1, Checks5 DEF ExtractStaking, Each
<1>4. Paths(address.spendingPath) /\ Paths(address.stakingPath)
  BY RequestAssumption DEF AcceptedAddresses
<1>5. /\ \A p \in Range(address.spendingPath) : ValidPath(p)
      /\ \A p \in Range(address.stakingPath) : ValidPath(p)
  BY <1>2, <1>3, <1>4, ParsedPaths DEF OK
<1> QED BY <1>5 DEF AddressPaths

LEMMA ScriptPathsValid ==
  ASSUME NEW script \in AcceptedScripts
  PROVE  \A p \in UNION {Range(node.path) : node \in Range(script)} : ValidPath(p)
<1>1. SUFFICES ASSUME NEW i \in DOMAIN script PROVE \A p \in Range(script[i].path) : ValidPath(p)
  BY DEF Range
<1> DEFINE node == script[i]
           each == [j \in DOMAIN script |-> ParseScriptNode(script[j])]
<1>2. IsSequence(script) /\ Paths(node.path)
  BY RequestAssumption DEF AcceptedScripts, Range
<1>3. ParseScriptNode(node) = OK
  <2>1. Verdict(each) = OK
    BY DEF AcceptedScripts, ParseNativeScript, Each
  <2>2. DOMAIN each \subseteq Nat
    BY <1>2 DEF IsSequence
  <2> QED BY <2>1, <2>2, OnlyIfAllPass
<1>4. CASE node.path = <<>>
  BY <1>4 DEF Range
<1>5. CASE node.path # <<>>
  <2>1. "path" \in ParametersGiven(node)
    BY <1>5 DEF ParametersGiven, Given
  <2>2. node.type \in DOMAIN ScriptParameters /\ "path" \in ScriptParameters[node.type]
    BY <1>3, <2>1 DEF ParseScriptNode, OK
  <2>3. node.type = "PUBKEY_DEVICE_OWNED"
    BY <2>2 DEF ScriptParameters
  <2>4. ParametersGiven(node) \subseteq ScriptParameters[node.type]
    BY <1>3, <2>2 DEF ParseScriptNode, OK
  <2>5. Verdict([j \in DOMAIN node.path |-> ParseBIP32Path(node.path[j], "INVALID_KEY_PATH")]) = OK
    BY <1>3, <1>5, <2>2, <2>3, <2>4 DEF ParseScriptNode, Parameter, Given, Each
  <2> QED BY <1>2, <2>5, ParsedPaths DEF OK
<1> QED BY <1>4, <1>5

LEMMA CertificatePathsValid ==
  ASSUME NEW r \in AcceptedTransactions
  PROVE  \A p \in CertificatePaths(r.tx) : ValidPath(p)
<1>1. /\ WellFormed(r.tx) /\ CertificatePaths(r.tx) \subseteq Seq(Indexes)
      /\ ParseTransaction(r.tx) = OK
  BY RequestAssumption, Accepts DEF AcceptedTransactions
<1>2. SUFFICES ASSUME NEW cert \in Elements(r.tx.certificates), NEW p \in PrepareCertificate(cert).paths
               PROVE  Len(p) <= 5
  BY <1>1 DEF CertificatePaths, ValidPath
<1>3. ParseCertificate(cert) = OK
  BY <1>1, CertificatesParsed
<1>4. ASSUME NEW credential, NEW reason, reason # OK, ParseCredential(credential, reason) = OK,
             p \in KeyPathsOf(credential)
      PROVE  Len(p) <= 5
  BY <1>4, ParsedPath DEF KeyPathsOf, ParseCredential
<1>5. ASSUME NEW held, NEW bytes, NEW path, NEW hash, NEW type, path # OK, hash # OK, type # OK,
             ParseHeld(held, bytes, path, hash, type) = OK, p \in HeldPaths(held)
      PROVE  Len(p) <= 5
  BY <1>5, ParsedPath DEF HeldPaths, ParseHeld
<1>6. CASE cert.type \in StakeTypes
  <2>1. ParseStakeCertificate(cert) = OK
    BY <1>3, <1>6 DEF ParseCertificate, StakeTypes, PlainStakeTypes, ConwayStakeTypes,
       CommitteeTypes, DRepTypes
  <2>2. /\ ParseCredential(cert.credential, "CERTIFICATE_INVALID_STAKE_CREDENTIAL") = OK
        /\ cert.type = "VOTE_DELEGATION" => ParseDRep(cert.dRep) = OK
    BY <2>1, Checks2 DEF ParseStakeCertificate, ConwayStakeTypes
  <2>3. CASE p \in KeyPathsOf(cert.credential)
    BY <1>4, <2>2, <2>3 DEF OK
  <2>4. CASE cert.type = "VOTE_DELEGATION" /\ p \in KeyPathsOf(cert.dRep)
    <3>1. ParseCredential(cert.dRep, "CERTIFICATE_INVALID_DREP") = OK
      BY <2>2, <2>4 DEF ParseDRep, KeyPathsOf, CredentialTypes
    <3> QED BY <1>4, <2>4, <3>1 DEF OK
  <2> QED BY <1>6, <2>3, <2>4 DEF StakeTypes, PlainStakeTypes, ConwayStakeTypes, PrepareCertificate,
         Prepared, PrepareStakeRegistration, PrepareStakeDeregistration, PrepareStakeDelegation,
         PrepareStakeRegistrationConway, PrepareStakeDeregistrationConway, PrepareVoteDelegation
<1>7. CASE cert.type \in CommitteeTypes
  <2>1. ParseCommitteeCertificate(cert) = OK
    BY <1>3, <1>7 DEF ParseCertificate, CommitteeTypes, StakeTypes, PlainStakeTypes,
       ConwayStakeTypes, DRepTypes
  <2>2. /\ ParseCredential(cert.credential, "CERTIFICATE_INVALID_COMMITTEE_CREDENTIAL") = OK
        /\ cert.type = "AUTHORIZE_COMMITTEE_HOT" =>
             ParseCredential(cert.hotCredential, "CERTIFICATE_INVALID_COMMITTEE_CREDENTIAL") = OK
    BY <2>1, Checks2 DEF ParseCommitteeCertificate, Each
  <2>3. \/ p \in KeyPathsOf(cert.credential)
        \/ cert.type = "AUTHORIZE_COMMITTEE_HOT" /\ p \in KeyPathsOf(cert.hotCredential)
    BY <1>7 DEF CommitteeTypes, PrepareCertificate, Prepared, PrepareAuthorizeCommitteeHot,
       PrepareResignCommitteeCold
  <2> QED BY <1>4, <2>2, <2>3 DEF OK
<1>8. CASE cert.type \in DRepTypes
  <2>1. ParseDRepCertificate(cert) = OK
    BY <1>3, <1>8 DEF ParseCertificate, CommitteeTypes, StakeTypes, PlainStakeTypes, ConwayStakeTypes,
       DRepTypes
  <2>2. ParseCredential(cert.credential, "CERTIFICATE_INVALID_DREP_CREDENTIAL") = OK
    BY <2>1, Checks3 DEF ParseDRepCertificate, Each
  <2>3. p \in KeyPathsOf(cert.credential)
    BY <1>8 DEF DRepTypes, PrepareCertificate, Prepared, PrepareDrepRegistration,
       PrepareDrepDeregistration, PrepareDrepUpdate
  <2> QED BY <1>4, <2>2, <2>3 DEF OK
<1>9. CASE cert.type = "STAKE_POOL_RETIREMENT"
  <2>1. ParseRetirement(cert) = OK
    BY <1>3, <1>9 DEF ParseCertificate, CommitteeTypes, StakeTypes, PlainStakeTypes, ConwayStakeTypes,
       DRepTypes
  <2>2. ParseBIP32Path(cert.poolKeyPath, "CERTIFICATE_INVALID_PATH") = OK
    BY <2>1, Checks2 DEF ParseRetirement
  <2>3. p = cert.poolKeyPath
    BY <1>9 DEF PrepareCertificate, Prepared, PrepareStakePoolRetirement
  <2> QED BY <2>2, <2>3, ParsedPath DEF OK
<1>10. CASE cert.type = "STAKE_POOL_REGISTRATION"
  <2> DEFINE pool == cert.pool
             each == [i \in DOMAIN pool.owners |-> ParsePoolOwner(pool.owners[i])]
  <2>1. ParsePoolParams(pool) = OK
    BY <1>3, <1>10 DEF ParseCertificate, CommitteeTypes, StakeTypes, PlainStakeTypes, ConwayStakeTypes,
       DRepTypes
  <2>2. ParsePoolKey(pool.poolKey) = OK /\ ParseRewardAccount(pool.rewardAccount) = OK /\ Verdict(each) = OK
    BY <2>1, Checks11 DEF ParsePoolParams, Each
  <2>3. DOMAIN each \subseteq Nat
    <3>1. WellFormedList("certificates", r.tx.certificates)
      BY <1>1 DEF WellFormed, WellFormedField, TransactionFields, ListParts
    <3>2. IsCertificate(cert)
      BY <3>1 DEF WellFormedList, ListOf, Elements
    <3> QED BY <1>10, <3>2 DEF IsCertificate, IsPool, IsSequence
  <2>4. \A i \in DOMAIN pool.owners : ParsePoolOwner(pool.owners[i]) = OK
    BY <2>2, <2>3, OnlyIfAllPass
  <2>5. \/ p \in HeldPaths(pool.rewardAccount) \/ p \in HeldPaths(pool.poolKey)
        \/ \E i \in DOMAIN pool.owners : p \in HeldPaths(pool.owners[i])
    BY <1>10 DEF PrepareCertificate, PrepareStakePoolRegistration, Range
  <2> QED BY <1>5, <2>2, <2>4, <2>5 DEF ParsePoolKey, ParseRewardAccount, ParsePoolOwner, OK
<1>11. cert.type \in CertificateTypes
  BY <1>1, CertificatesKnown
<1> QED BY <1>6, <1>7, <1>8, <1>9, <1>10, <1>11 DEF CertificateTypes, PoolTypes

LEMMA CachedPaired ==
  ASSUME NEW paths, \A p \in paths : ValidPath(p)
  PROVE  Paired(KeysFor(cache, paths))
<1>1. ASSUME NEW p \in paths, NEW k \in PublicKey(cache, p) PROVE k.path = p
  BY FoundKey
<1> QED BY <1>1 DEF Paired, KeysFor

LEMMA AnsweredPaired ==
  ASSUME NEW seed, NEW paths
  PROVE  Paired(DeviceKeys(seed, paths))
BY DEF Paired, DeviceKeys, Key

LEMMA JoinedKeys ==
  ASSUME NEW a, NEW b, SeedsOfKeys(a) \subseteq Seeds, SeedsOfKeys(b) \subseteq Seeds
  PROVE  SeedsOfKeys(a \cup b) \subseteq Seeds
BY DEF SeedsOfKeys

-----------------------------------------------------------------------------
(***************************************************************************)
(* What a step of the call c must show for the invariant to be preserved,  *)
(* and the three forms such a step has: the call ends, begins or goes on.  *)
(***************************************************************************)
RequestTyped(r) == r.xfps \subseteq Seeds /\ SeedsOfKeys(r.keys) \subseteq Seeds
RequestFits(r) ==
  /\ RequestTyped(r) /\ Paired(r.keys)
  /\ r.kind # "none" /\ (r.kind \in {"keys", "config"} => r.xfps = {})
\* What a method holds or returns.
KeysFit(op, keys) ==
  SeedsOfKeys(keys) \subseteq Seeds /\ (op = "getExtendedPublicKeys" \/ Paired(keys))
CallTyped(c) ==
  /\ call[c].stage \in {"idle", "sent", "answered"}
  /\ {call[c].xfp, call[c].got} \subseteq MaybeSeeds
  /\ SeedsOfKeys(call[c].keys) \subseteq Seeds
  /\ RequestTyped(call[c].sent)
  /\ Pending(c) => call[c].sent.kind # "none"
  /\ call[c].stage = "answered" => call[c].got # None

LEMMA TypeByCall ==
  TypeOK <=> /\ active \in Seeds /\ mfp \in MaybeSeeds /\ cache \in MaybeSeeds
             /\ \A c \in Calls : CallTyped(c)
<1>1. ASSUME NEW c \in Calls
      PROVE  {k.key.seed : k \in call[c].keys \cup call[c].sent.keys} \subseteq Seeds
             <=> SeedsOfKeys(call[c].keys) \subseteq Seeds /\ SeedsOfKeys(call[c].sent.keys) \subseteq Seeds
  BY DEF SeedsOfKeys
<1> QED BY <1>1 DEF TypeOK, CallTyped, RequestTyped

LEMMA Preserved ==
  ASSUME Inductive, NEW c \in Calls, Shape', OthersKeep(c), active' = active,
         mfp' \in MaybeSeeds,
         cache' = cache \/ (call[c].stage = "answered" /\ cache' = call[c].got),
         CallTyped(c)', SentFits(c)', call'[c].got \in {None, active},
         Clean(c)' => Clean(c) \/ \A d \in Calls \ {c} : Pending(d) => call[d].got \in {None, active},
         Clean(c)' /\ call'[c].op = "initAda" /\ call'[c].sent.kind = "config" => cache' = active
  PROVE  Inductive'
<1>1. /\ active \in Seeds /\ cache \in MaybeSeeds
      /\ \A d \in Calls : CallTyped(d) /\ SentFits(d) /\ CleanFits(d)
  BY TypeByCall DEF Inductive, CallInv, CleanInv
<1>2. cache' \in MaybeSeeds
  BY <1>1 DEF CallTyped
<1>3. ASSUME NEW d \in Calls \ {c}
      PROVE  /\ CallTyped(d)' /\ SentFits(d)'
             /\ Clean(d)' <=> Clean(d)
             /\ Pending(d)' <=> Pending(d)
             /\ call'[d] = call[d]
  BY <1>1 DEF OthersKeep, CallTyped, SentFits, Clean, Pending
<1>4. TypeOK'
  <2>1. \A d \in Calls : CallTyped(d)'
    BY <1>3
  <2>2. active' \in Seeds /\ mfp' \in MaybeSeeds /\ cache' \in MaybeSeeds
    BY <1>1, <1>2
  <2>3. ASSUME NEW d \in Calls
        PROVE  {k.key.seed : k \in call'[d].keys \cup call'[d].sent.keys} \subseteq Seeds
    BY <2>1 DEF CallTyped, RequestTyped, SeedsOfKeys
  <2> QED BY <2>1, <2>2, <2>3 DEF TypeOK, CallTyped, RequestTyped
<1>5. CallInv'
  BY <1>3 DEF CallInv
<1>6. ASSUME NEW d \in Calls, Clean(d)'
      PROVE  AnswersFresh'
  <2>1. \A e \in Calls \ {c} : Pending(e) => call[e].got \in {None, active}
    BY <1>1, <1>3, <1>6 DEF CleanFits, AnswersFresh
  <2> QED BY <1>3, <2>1 DEF AnswersFresh
<1>7. ASSUME NEW d \in Calls \ {c}, Clean(d)', call'[d].op = "initAda", call'[d].sent.kind = "config"
      PROVE  cache' = active
  <2>1. cache = active /\ AnswersFresh
    BY <1>1, <1>3, <1>7 DEF CleanFits
  <2>2. call[c].stage = "answered" => call[c].got = active
    BY <1>1, <2>1 DEF AnswersFresh, Pending, CallTyped
  <2> QED BY <2>1, <2>2
<1>8. CleanInv'
  BY <1>6, <1>7 DEF CleanInv, CleanFits
<1> QED BY <1>4, <1>5, <1>8 DEF Inductive

\* What TransactionOfSeedRead says of a step.
SeedRead(c) ==
  Answered(c, "signTransaction", "config") /\ Pending(c)' => call'[c].sent.xfps \subseteq {call[c].got}
GoodStep(c) == Inductive' /\ OthersKeep(c) /\ SeedRead(c)

LEMMA EndsIsCall ==
  ASSUME Shape, NEW c \in Calls, NEW op, NEW keys, call' = [call EXCEPT ![c] = Ended(op, keys)]
  PROVE  /\ IsCall(call'[c]) /\ call'[c].stage = "idle" /\ call'[c].xfp = None /\ call'[c].got = None
         /\ call'[c].keys = keys /\ call'[c].sent = Plain("none")
         /\ (keys # {} => call'[c].op = op)
         /\ Shape' /\ OthersKeep(c)
<1> DEFINE r == Ended(op, keys)
<1>1. /\ IsCall(r) /\ r.stage = "idle" /\ r.xfp = None /\ r.got = None
      /\ r.keys = keys /\ r.sent = Plain("none") /\ (keys # {} => r.op = op)
  BY EndedIsCall
<1> HIDE DEF r
<1>2. call' = [call EXCEPT ![c] = r]
  BY DEF r
<1>3. Shape' /\ call'[c] = r /\ OthersKeep(c)
  BY <1>1, <1>2, Assigned
<1> QED BY <1>1, <1>3

LEMMA SendsIsCall ==
  ASSUME Shape, NEW c \in Calls, NEW op, NEW arg, NEW xfp, NEW keys, NEW request,
         Sends(c, op, arg, xfp, keys, request)
  PROVE  /\ Shape' /\ OthersKeep(c)
         /\ call'[c].op = op /\ call'[c].stage = "sent" /\ call'[c].arg = arg /\ call'[c].xfp = xfp
         /\ call'[c].keys = keys /\ call'[c].sent = request /\ call'[c].got = None
         /\ call'[c].clean = (\A d \in Calls \ {c} : Pending(d) => SeedsOf(call[d]) \subseteq {active})
<1> DEFINE clean == \A d \in Calls \ {c} : Pending(d) => SeedsOf(call[d]) \subseteq {active}
           r == [op |-> op, stage |-> "sent", arg |-> arg, xfp |-> xfp, keys |-> keys,
                 sent |-> request, got |-> None, clean |-> clean]
<1>1. call' = [call EXCEPT ![c] = r]
  BY DEF Sends
<1>2. Shape' /\ call'[c] = r /\ OthersKeep(c)
  <2>1. IsCall(r)
    BY SentIsCall
  <2> HIDE DEF r
  <2> QED BY <1>1, <2>1, Assigned
<1> QED BY <1>2

LEMMA Ending ==
  ASSUME Inductive, NEW c \in Calls, NEW op, NEW keys, KeysFit(op, keys),
         call' = [call EXCEPT ![c] = Ended(op, keys)],
         active' = active, mfp' \in MaybeSeeds,
         cache' = cache \/ (call[c].stage = "answered" /\ cache' = call[c].got)
  PROVE  GoodStep(c)
<1>1. /\ IsCall(call'[c]) /\ call'[c].stage = "idle" /\ call'[c].xfp = None /\ call'[c].got = None
      /\ call'[c].keys = keys /\ call'[c].sent = Plain("none")
      /\ (keys # {} => call'[c].op = op)
      /\ Shape' /\ OthersKeep(c)
  BY EndsIsCall DEF Inductive, CallInv
<1>2. ~Pending(c)' /\ ~Clean(c)'
  BY <1>1 DEF Pending, Clean
<1>3. CallTyped(c)' /\ SentFits(c)'
  BY <1>1, <1>2, PlainSent DEF CallTyped, SentFits, RequestTyped, SeedsOfKeys, MaybeSeeds, KeysFit,
    Paired
<1>4. Inductive'
  BY <1>1, <1>2, <1>3, Preserved
<1> QED BY <1>1, <1>2, <1>4 DEF GoodStep, SeedRead

LEMMA Beginning ==
  ASSUME Inductive, NEW c \in Calls, NEW op, NEW arg, NEW xfp \in MaybeSeeds, NEW keys, NEW request,
         KeysFit(op, keys), RequestFits(request),
         op = "signMessage" => xfp # None,
         op = "signTransaction" => arg \in AcceptedTransactions,
         ~(op = "initAda" /\ request.kind = "config"),
         Sends(c, op, arg, xfp, keys, request)
  PROVE  GoodStep(c)
<1>1. /\ call[c].stage = "idle" /\ UNCHANGED <<active, mfp, cache>>
  BY DEF Sends, Idling
<1>2. Shape' /\ OthersKeep(c)
  BY SendsIsCall DEF Inductive, CallInv
<1>3. /\ call'[c].op = op /\ call'[c].stage = "sent" /\ call'[c].arg = arg /\ call'[c].xfp = xfp
      /\ call'[c].keys = keys /\ call'[c].sent = request /\ call'[c].got = None
      /\ call'[c].clean = (\A d \in Calls \ {c} : Pending(d) => SeedsOf(call[d]) \subseteq {active})
  BY SendsIsCall DEF Inductive, CallInv
<1>4. Clean(c)' => \A d \in Calls \ {c} : Pending(d) => call[d].got \in {None, active}
  BY <1>3 DEF Clean, SeedsOf
<1>5. CallTyped(c)' /\ SentFits(c)'
  BY <1>3 DEF CallTyped, SentFits, RequestFits, Pending, MaybeSeeds, KeysFit
<1>6. mfp' \in MaybeSeeds
  BY <1>1 DEF Inductive, TypeOK
<1>7. call'[c].got \in {None, active}
      /\ ~(call'[c].op = "initAda" /\ call'[c].sent.kind = "config")
  BY <1>3
<1>8. cache' = cache /\ active' = active
  BY <1>1
<1>9. Inductive'
  BY <1>2, <1>4, <1>5, <1>6, <1>7, <1>8, Preserved
<1> QED BY <1>1, <1>2, <1>9 DEF Answered, GoodStep, SeedRead

LEMMA GoingOn ==
  ASSUME Inductive, NEW c \in Calls, NEW request, RequestFits(request), Pending(c),
         SendsNext(c, request), active' = active, mfp' \in MaybeSeeds,
         cache' = cache \/ (call[c].stage = "answered" /\ cache' = call[c].got),
         call[c].op = "initAda" /\ request.kind = "config" /\ Clean(c) => cache' = active,
         Answered(c, "signTransaction", "config") => request.xfps \subseteq {call[c].got}
  PROVE  GoodStep(c)
<1>1. /\ Shape' /\ OthersKeep(c)
      /\ call'[c].stage = "sent" /\ call'[c].sent = request /\ call'[c].got = None
      /\ \A f \in {"op", "arg", "xfp", "keys", "clean"} : call'[c][f] = call[c][f]
  BY NextIsCall DEF Inductive, CallInv
<1>2. call'[c].op = call[c].op /\ call'[c].arg = call[c].arg /\ call'[c].xfp = call[c].xfp
      /\ call'[c].keys = call[c].keys
      /\ Clean(c)' = Clean(c)
  BY <1>1 DEF Clean, Pending
<1>3. CallTyped(c) /\ SentFits(c)
  BY TypeByCall DEF Inductive, CallInv
<1>4. CallTyped(c)' /\ SentFits(c)'
  BY <1>1, <1>2, <1>3 DEF CallTyped, SentFits, RequestFits, Pending, MaybeSeeds
<1>5. Inductive'
  BY <1>1, <1>2, <1>4, Preserved
<1> QED BY <1>1, <1>5 DEF GoodStep, SeedRead

-----------------------------------------------------------------------------
(***************************************************************************)
(* The steps, one lemma for each kind.                                     *)
(***************************************************************************)
LEMMA PlainFits == ASSUME NEW kind \in {"keys", "config"} PROVE RequestFits(Plain(kind))
BY PlainSent DEF RequestFits, RequestTyped, SeedsOfKeys, Paired

LEMMA NoKeys == ASSUME NEW op PROVE KeysFit(op, {})
BY DEF KeysFit, SeedsOfKeys, Paired

\* What the invariant says of a call that has its answer.
LEMMA AnswerRead ==
  ASSUME Inductive, NEW c \in Calls, call[c].stage = "answered"
  PROVE  /\ call[c].got \in Seeds /\ mfp \in MaybeSeeds /\ cache \in MaybeSeeds /\ active \in Seeds
         /\ Pending(c) /\ CallTyped(c) /\ SentFits(c)
         /\ Clean(c) => call[c].got = active
<1>1. /\ mfp \in MaybeSeeds /\ cache \in MaybeSeeds /\ active \in Seeds
      /\ CallTyped(c) /\ SentFits(c) /\ CleanFits(c)
  BY TypeByCall DEF Inductive, CallInv, CleanInv
<1>2. Pending(c) /\ call[c].got \in Seeds
  BY <1>1 DEF Pending, CallTyped, MaybeSeeds
<1> QED BY <1>1, <1>2 DEF CleanFits, AnswersFresh

LEMMA EndingPlainly ==
  ASSUME Inductive, NEW c \in Calls, Ends(c, {}), active' = active, cache' = cache, mfp' \in MaybeSeeds
  PROVE  GoodStep(c)
<1>1. call' = [call EXCEPT ![c] = Ended(call[c].op, {})]
  BY DEF Ends, Inductive, CallInv, Shape
<1> QED BY <1>1, NoKeys, Ending

LEMMA EndingAtOnce ==
  ASSUME Inductive, NEW c \in Calls, NEW op, NEW keys, KeysFit(op, keys),
         EndsAtOnce(c, op, keys)
  PROVE  GoodStep(c)
BY Ending DEF EndsAtOnce, Inductive, TypeOK

LEMMA BeginningPlainly ==
  ASSUME Inductive, NEW c \in Calls, NEW op, NEW arg, NEW kind \in {"keys", "config"},
         op # "signMessage", ~(op = "initAda" /\ kind = "config"),
         op = "signTransaction" => arg \in AcceptedTransactions,
         Sends(c, op, arg, None, {}, Plain(kind))
  PROVE  GoodStep(c)
<1>1. Plain(kind).kind = kind
  BY PlainSent
<1>2. None \in MaybeSeeds
  BY DEF MaybeSeeds
<1> QED BY <1>1, <1>2, PlainFits, NoKeys, Beginning

LEMMA StepDevice ==
  ASSUME Inductive, NEW c \in Calls, DeviceAnswers(c)
  PROVE  GoodStep(c)
<1>1. /\ Shape' /\ OthersKeep(c)
      /\ call'[c].stage = "answered" /\ call'[c].got = active
      /\ \A f \in {"op", "arg", "xfp", "keys", "sent", "clean"} : call'[c][f] = call[c][f]
  BY AnswerIsCall DEF Inductive, CallInv
<1>2. /\ call[c].stage = "sent" /\ call'[c].op = call[c].op /\ call'[c].arg = call[c].arg
      /\ call'[c].xfp = call[c].xfp
      /\ call'[c].keys = call[c].keys /\ call'[c].sent = call[c].sent
      /\ UNCHANGED <<active, mfp, cache>>
  BY <1>1 DEF DeviceAnswers
<1>3. /\ active \in Seeds /\ mfp \in MaybeSeeds /\ CallTyped(c) /\ SentFits(c) /\ CleanFits(c)
      /\ Clean(c)' => Clean(c)
  BY <1>1, <1>2, TypeByCall DEF Inductive, CallInv, CleanInv, Clean, Pending
<1>4. CallTyped(c)' /\ SentFits(c)'
  BY <1>1, <1>2, <1>3 DEF CallTyped, SentFits, RequestTyped, Pending, MaybeSeeds
<1>5. Clean(c)' /\ call'[c].op = "initAda" /\ call'[c].sent.kind = "config" => cache' = active
  BY <1>2, <1>3 DEF CleanFits
<1>6. Inductive'
  BY <1>1, <1>2, <1>3, <1>4, <1>5, Preserved
<1> QED BY <1>1, <1>2, <1>6 DEF GoodStep, SeedRead, Answered

LEMMA StepEnds ==
  ASSUME Inductive, NEW c \in Calls,
         Fails(c) \/ Signed(c) \/ InitAdaConfig(c) \/ AppConfig(c)
  PROVE  GoodStep(c)
<1>1. mfp \in MaybeSeeds
  BY DEF Inductive, TypeOK
<1>2. CASE Fails(c) \/ Signed(c) \/ AppConfig(c)
  BY <1>1, <1>2, EndingPlainly DEF Fails, Signed, AppConfig
<1>3. CASE InitAdaConfig(c)
  <2>1. call[c].got \in MaybeSeeds
    BY <1>3, AnswerRead DEF InitAdaConfig, Answered, MaybeSeeds
  <2> QED BY <1>3, <2>1, EndingPlainly DEF InitAdaConfig
<1> QED BY <1>2, <1>3

LEMMA StepKeys ==
  ASSUME Inductive, NEW c \in Calls, ExtendedPublicKeys(c) \/ DerivedAddress(c)
  PROVE  GoodStep(c)
<1>1. call[c].stage = "answered" /\ active' = active /\ cache' = cache
  BY DEF ExtendedPublicKeys, DerivedAddress, Answered
<1>2. call[c].got \in Seeds /\ mfp \in MaybeSeeds
  BY <1>1, AnswerRead
<1>3. mfp' \in MaybeSeeds
  BY <1>2 DEF ExtendedPublicKeys, DerivedAddress, MaybeSeeds
<1>4. PICK keys : Ends(c, keys) /\ KeysFit(call[c].op, keys)
  <2>1. CASE DerivedAddress(c)
    BY <1>2, <2>1, AnsweredKeys, AnsweredPaired DEF DerivedAddress, KeysFit
  <2>2. CASE ExtendedPublicKeys(c)
    <3> DEFINE asked == call[c].arg
               schemas == Schemas(asked)
               keys == {[path |-> asked[i], key |-> Key(call[c].got, schemas[i])] : i \in DOMAIN schemas}
    <3>1. Ends(c, keys)
      BY <2>2 DEF ExtendedPublicKeys
    <3>2. SeedsOfKeys(keys) \subseteq Seeds
      BY <1>2 DEF SeedsOfKeys, Key
    <3>3. call[c].op = "getExtendedPublicKeys"
      BY <2>2 DEF ExtendedPublicKeys, Answered
    <3> QED BY <3>1, <3>2, <3>3 DEF KeysFit
  <2> QED BY <2>1, <2>2
<1>5. call' = [call EXCEPT ![c] = Ended(call[c].op, keys)]
  BY <1>4 DEF Ends
<1> QED BY <1>1, <1>3, <1>4, <1>5, Ending

LEMMA StepAsks ==
  ASSUME Inductive, NEW c \in Calls,
         \/ InitAda(c) \/ GetAppConfig(c)
         \/ \E paths \in KeyRequests : GetExtendedPublicKeys(c, paths)
         \/ \E request \in Addresses : DeriveAddress(c, request)
         \/ \E request \in Transactions : SignTransaction(c, request)
  PROVE  GoodStep(c)
<1>1. \/ \E op \in {"initAda", "getExtendedPublicKeys", "deriveAddress"} : \E arg :
            Sends(c, op, arg, None, {}, Plain("keys"))
      \/ Sends(c, "getAppConfig", <<>>, None, {}, Plain("config"))
      \/ \E arg \in AcceptedTransactions : Sends(c, "signTransaction", arg, None, {}, Plain("config"))
      \/ \E op : EndsAtOnce(c, op, {})
  BY DEF InitAda, GetAppConfig, GetExtendedPublicKeys, DeriveAddress, SignTransaction
<1> QED BY <1>1, BeginningPlainly, EndingAtOnce, NoKeys

LEMMA StepScript ==
  ASSUME Inductive, NEW c \in Calls, NEW script \in NativeScripts, DeriveNativeScriptHash(c, script)
  PROVE  GoodStep(c)
<1> DEFINE paths == UNION {Range(node.path) : node \in Range(script)}
<1>1. CASE EndsAtOnce(c, "deriveNativeScriptHash", {})
  BY <1>1, NoKeys, EndingAtOnce
<1>2. CASE script \in AcceptedScripts /\ EndsAtOnce(c, "deriveNativeScriptHash", KeysFor(cache, paths))
  <2>1. \A p \in paths : ValidPath(p)
    BY <1>2, ScriptPathsValid
  <2>2. KeysFit("deriveNativeScriptHash", KeysFor(cache, paths))
    BY <2>1, CachedKeys, CachedPaired DEF Inductive, TypeOK, KeysFit
  <2> QED BY <1>2, <2>2, EndingAtOnce
<1> QED BY <1>1, <1>2 DEF DeriveNativeScriptHash

LEMMA StepInitAdaKeys ==
  ASSUME Inductive, NEW c \in Calls, InitAdaKeys(c)
  PROVE  GoodStep(c)
<1>1. /\ call[c].stage = "answered" /\ cache' = call[c].got /\ SendsNext(c, Plain("config"))
      /\ active' = active /\ mfp' = mfp /\ ~Answered(c, "signTransaction", "config")
  BY DEF InitAdaKeys, Answered
<1>2. /\ mfp' \in MaybeSeeds /\ Pending(c) /\ (Clean(c) => cache' = active)
  BY <1>1, AnswerRead
<1> QED BY <1>1, <1>2, PlainFits, GoingOn

\* What every signing request is: fingerprints and keys of the device's seeds.
LEMMA SignDataFits ==
  ASSUME NEW xfp \in Seeds, NEW keys, SeedsOfKeys(keys) \subseteq Seeds, Paired(keys)
  PROVE  RequestFits(SignDataRequest(xfp, keys)) /\ SignDataRequest(xfp, keys).kind = "signData"
BY DEF SignDataRequest, Request, RequestFits, RequestTyped

LEMMA TransactionFits ==
  ASSUME NEW request \in AcceptedTransactions, NEW xfp \in Seeds, cache \in MaybeSeeds
  PROVE  LET r == SignTransactionRequest(request, xfp)
         IN RequestFits(r) /\ r.kind = "signTransaction" /\ r.xfps \subseteq {xfp}
<1> DEFINE signers == WitnessSigners(request, xfp) \cup PrepareExtraSigners(request.tx.certificates, xfp)
                      \cup Utxos(request.tx, xfp)
           r == SignTransactionRequest(request, xfp)
<1>1. \A s \in WitnessSigners(request, xfp) : s.xfp = xfp
  BY DEF WitnessSigners, Signer
<1>2. \A s \in PrepareExtraSigners(request.tx.certificates, xfp) : s.xfp = xfp
  BY DEF PrepareExtraSigners, Signer
<1>3. \A s \in Utxos(request.tx, xfp) : s.xfp = xfp
  BY DEF Utxos, Signer
<1>4. /\ r.xfps = {s.xfp : s \in signers} /\ r.kind = "signTransaction"
      /\ r.keys = KeysFor(cache, CertificatePaths(request.tx))
  BY DEF SignTransactionRequest, Request
<1>5. \A s \in signers : s.xfp = xfp
  BY <1>1, <1>2, <1>3
<1> HIDE DEF signers, r
<1>6. r.xfps \subseteq {xfp}
  BY <1>4, <1>5
<1>7. SeedsOfKeys(r.keys) \subseteq Seeds /\ Paired(r.keys)
  BY <1>4, CachedKeys, CachedPaired, CertificatePathsValid
<1>8. RequestFits(r) /\ r.kind = "signTransaction" /\ r.xfps \subseteq {xfp}
  BY <1>4, <1>6, <1>7 DEF RequestFits, RequestTyped
<1> QED BY <1>8 DEF r

LEMMA StepTransaction ==
  ASSUME Inductive, NEW c \in Calls, SendTransaction(c)
  PROVE  GoodStep(c)
<1> DEFINE r == SignTransactionRequest(call[c].arg, call[c].got)
<1>1. /\ call[c].stage = "answered" /\ call[c].op = "signTransaction"
      /\ mfp' = call[c].got /\ active' = active /\ cache' = cache
      /\ SendsNext(c, r) \/ Ends(c, {})
  BY DEF SendTransaction, Answered
<1>2. /\ call[c].got \in Seeds /\ cache \in MaybeSeeds /\ Pending(c) /\ mfp' \in MaybeSeeds
      /\ call[c].arg \in AcceptedTransactions
  BY <1>1, AnswerRead DEF MaybeSeeds, SentFits
<1>3. CASE Ends(c, {})
  BY <1>1, <1>2, <1>3, EndingPlainly
<1>4. CASE SendsNext(c, r)
  <2>1. RequestFits(r) /\ r.kind = "signTransaction" /\ r.xfps \subseteq {call[c].got}
    BY <1>2, TransactionFits
  <2> HIDE DEF r
  <2> QED BY <1>1, <1>2, <1>4, <2>1, GoingOn
<1> QED BY <1>1, <1>3, <1>4

LEMMA StepSignMessage ==
  ASSUME Inductive, NEW c \in Calls, NEW path \in SigningPaths, NEW requests, SignMessage(c, path, requests)
  PROVE  GoodStep(c)
<1> DEFINE addresses == {r.address : r \in requests}
           paths == MessageKeyPaths(path, addresses)
           keys == KeysFor(cache, paths)
<1>1. CASE EndsAtOnce(c, "signMessage", {})
  BY <1>1, NoKeys, EndingAtOnce
<1>2. ASSUME NEW request \in {Plain("keys"), SignDataRequest(mfp, keys)},
             mfp # None, path \in AcceptedSigningPaths, requests \subseteq AcceptedAddresses,
             Sends(c, "signMessage", addresses, mfp, keys, request)
      PROVE  GoodStep(c)
  <2>1. \A p \in paths : ValidPath(p)
    BY <1>2, SigningPathsValid, AddressPathsValid DEF MessageKeyPaths
  <2>2. mfp \in Seeds /\ SeedsOfKeys(keys) \subseteq Seeds /\ Paired(keys)
    BY <1>2, <2>1, CachedKeys, CachedPaired DEF Inductive, TypeOK, MaybeSeeds
  <2>3. RequestFits(request) /\ KeysFit("signMessage", keys) /\ mfp \in MaybeSeeds
    BY <1>2, <2>2, SignDataFits, PlainFits DEF KeysFit, MaybeSeeds
  <2> QED BY <1>2, <2>3, Beginning
<1> QED BY <1>1, <1>2 DEF SignMessage

LEMMA StepSignData ==
  ASSUME Inductive, NEW c \in Calls, NEW path \in SigningPaths,
         NEW op \in {"signCIP36Vote", "signOperationalCertificate"}, SignData(c, op, path)
  PROVE  GoodStep(c)
<1> DEFINE paths == {path} \cap AcceptedSigningPaths
           keys == KeysFor(cache, paths)
<1>1. \A p \in paths : ValidPath(p)
  BY SigningPathsValid
<1>2. SeedsOfKeys(keys) \subseteq Seeds /\ Paired(keys)
  BY <1>1, CachedKeys, CachedPaired DEF Inductive, TypeOK
<1>3. CASE EndsAtOnce(c, op, {})
  BY <1>3, NoKeys, EndingAtOnce
<1>4. CASE mfp # None /\ Sends(c, op, path, mfp, keys, SignDataRequest(mfp, keys))
  <2>1. mfp \in Seeds /\ mfp \in MaybeSeeds
    BY <1>4 DEF Inductive, TypeOK, MaybeSeeds
  <2>2. RequestFits(SignDataRequest(mfp, keys)) /\ KeysFit(op, keys)
    BY <1>2, <2>1, SignDataFits DEF KeysFit
  <2> QED BY <1>4, <2>1, <2>2, Beginning
<1> QED BY <1>3, <1>4 DEF SignData

LEMMA StepMessage ==
  ASSUME Inductive, NEW c \in Calls, SendMessage(c)
  PROVE  GoodStep(c)
<1> DEFINE derived == UNION {DeviceKeys(call[c].got, AddressPaths(a)) : a \in call[c].arg}
           keys == call[c].keys \cup derived
<1>1. /\ call[c].stage = "answered" /\ call[c].op = "signMessage"
      /\ SendsNext(c, SignDataRequest(call[c].xfp, keys))
      /\ active' = active /\ mfp' = mfp /\ cache' = cache
  BY DEF SendMessage, Answered
<1>2. /\ call[c].got \in Seeds /\ mfp \in MaybeSeeds /\ Pending(c) /\ CallTyped(c) /\ SentFits(c)
  BY <1>1, AnswerRead
<1>3. call[c].xfp \in Seeds
  BY <1>1, <1>2 DEF CallTyped, SentFits, MaybeSeeds
<1>4. SeedsOfKeys(derived) \subseteq Seeds
  BY <1>2 DEF SeedsOfKeys, DeviceKeys, Key
<1>5. SeedsOfKeys(keys) \subseteq Seeds
  BY <1>2, <1>4, JoinedKeys DEF CallTyped
<1>6. Paired(keys)
  BY <1>1, <1>2 DEF SentFits, Paired, DeviceKeys, Key
<1>7. RequestFits(SignDataRequest(call[c].xfp, keys))
  BY <1>3, <1>5, <1>6, SignDataFits
<1> QED BY <1>1, <1>2, <1>7, GoingOn DEF Answered

-----------------------------------------------------------------------------
(***************************************************************************)
(* The invariant is inductive.                                             *)
(***************************************************************************)
LEMMA InitInductive == Init => Inductive
<1> SUFFICES ASSUME Init PROVE Inductive
  OBVIOUS
<1>1. \A c \in Calls : call[c] = Idle
  BY DEF Init
<1>2. /\ IsCall(Idle) /\ Idle.stage = "idle" /\ Idle.xfp = None /\ Idle.got = None /\ Idle.keys = {}
      /\ Idle.sent = Plain("none")
  BY DEF Idle, IsCall, Fields
<1>3. \A c \in Calls : CallTyped(c) /\ SentFits(c) /\ CleanFits(c)
  BY <1>1, <1>2, PlainSent DEF CallTyped, RequestTyped, SeedsOfKeys, SentFits, CleanFits, Clean, Pending,
    MaybeSeeds, Paired
<1>4. Shape
  BY <1>1, <1>2 DEF Init, Shape
<1>5. TypeOK
  BY <1>3, TypeByCall DEF Init, MaybeSeeds
<1> QED BY <1>3, <1>4, <1>5 DEF Inductive, CallInv, CleanInv

\* A switch changes no field but `clean`.
LEMMA SwitchKeeps ==
  ASSUME Inductive, UserSwitches
  PROVE  /\ Inductive'
         /\ \A c \in Calls : call'[c].sent = call[c].sent /\ call'[c].op = call[c].op
<1>1. /\ Shape'
      /\ \A c \in Calls : /\ ~call'[c].clean
                          /\ \A f \in Fields \ {"clean"} : call'[c][f] = call[c][f]
  BY SwitchIsCall DEF Inductive, CallInv
<1>2. \A c \in Calls : /\ call'[c].op = call[c].op /\ call'[c].stage = call[c].stage
                      /\ call'[c].xfp = call[c].xfp /\ call'[c].keys = call[c].keys
                      /\ call'[c].sent = call[c].sent /\ call'[c].got = call[c].got
                      /\ call'[c].arg = call[c].arg
  BY <1>1 DEF Fields
<1>3. TypeOK'
  BY <1>2 DEF Inductive, TypeOK, UserSwitches, Pending
<1>4. CallInv'
  BY <1>1, <1>2 DEF Inductive, CallInv, SentFits, Pending
<1>5. CleanInv'
  BY <1>1 DEF CleanInv, CleanFits, Clean
<1> QED BY <1>2, <1>3, <1>4, <1>5 DEF Inductive

LEMMA CallStep ==
  ASSUME Inductive, Next, ~UserSwitches
  PROVE  \E c \in Calls : GoodStep(c)
<1>1. PICK c \in Calls :
       \/ DeviceAnswers(c) \/ Fails(c) \/ Signed(c)
       \/ InitAda(c) \/ InitAdaKeys(c) \/ InitAdaConfig(c)
       \/ GetAppConfig(c) \/ AppConfig(c)
       \/ \E paths \in KeyRequests : GetExtendedPublicKeys(c, paths)
       \/ ExtendedPublicKeys(c)
       \/ \E request \in Addresses : DeriveAddress(c, request)
       \/ DerivedAddress(c)
       \/ \E script \in NativeScripts : DeriveNativeScriptHash(c, script)
       \/ \E request \in Transactions : SignTransaction(c, request)
       \/ SendTransaction(c)
       \/ \E path \in SigningPaths :
            \/ \E requests \in {{}} \cup {{r} : r \in Addresses} : SignMessage(c, path, requests)
            \/ \E op \in {"signCIP36Vote", "signOperationalCertificate"} : SignData(c, op, path)
       \/ SendMessage(c)
  BY DEF Next
<1>2. GoodStep(c)
  BY <1>1, StepDevice, StepEnds, StepAsks, StepInitAdaKeys, StepKeys, StepScript, StepTransaction,
    StepSignMessage, StepSignData, StepMessage
<1> QED BY <1>2

LEMMA NextInductive == Inductive /\ [Next]_vars => Inductive'
<1>1. CASE Next
  BY <1>1, CallStep, SwitchKeeps DEF GoodStep
<1>2. CASE UNCHANGED vars
  <2>1. active' = active /\ mfp' = mfp /\ cache' = cache /\ call' = call
    BY <1>2 DEF vars
  <2> QED BY <2>1 DEF Inductive, TypeOK, CallInv, CleanInv, Shape, SentFits, CleanFits, AnswersFresh, Clean,
         Pending
<1> QED BY <1>1, <1>2

LEMMA AlwaysInductive == Spec => []Inductive
BY InitInductive, NextInductive, PTL DEF Spec

(***************************************************************************)
(* The theorems.                                                           *)
(***************************************************************************)
\* Fingerprints, keys and answers are of the device's seeds, a call that waits has sent
\* something, and no request lacks its fingerprint.
THEOREM TypeCorrect == Spec => []TypeOK
BY AlwaysInductive, PTL DEF Inductive

\* No call, however the calls overlap, returns or sends a key under a path it is not the key
\* of, getExtendedPublicKeys apart: what the cache is searched for (node/index.ts 287-326)
\* has passed a parser that takes no more than five indexes.
THEOREM KeysOfTheirPaths == Spec => []KeyOfPath
<1>1. Inductive => KeyOfPath
  BY DEF Inductive, CallInv, SentFits, Paired, KeyOfPath
<1> QED BY <1>1, AlwaysInductive, PTL

\* However many calls overlap and however often the user switches the seed, a transaction
\* is sent with the fingerprint getAppConfig read for it alone (node/index.ts 948-986).
THEOREM SentOfSeedRead == Spec => TransactionOfSeedRead
<1> DEFINE Reads == \A c \in Calls : Answered(c, "signTransaction", "config") /\ Pending(c)'
                                     => call'[c].sent.xfps \subseteq {call[c].got}
<1>1. ASSUME Inductive, [Next]_vars PROVE [Reads]_vars
  <2>1. \A c \in Calls : Answered(c, "signTransaction", "config") => call[c].sent.xfps = {}
    BY <1>1 DEF Inductive, CallInv, SentFits, Answered
  <2>2. CASE UserSwitches
    BY <1>1, <2>1, <2>2, SwitchKeeps
  <2>3. CASE Next /\ ~UserSwitches
    <3>1. PICK c \in Calls : GoodStep(c)
      BY <1>1, <2>3, CallStep
    <3> QED BY <2>1, <3>1 DEF GoodStep, SeedRead, OthersKeep
  <2> QED BY <1>1, <2>2, <2>3
<1> QED BY <1>1, AlwaysInductive, PTL DEF Spec, TransactionOfSeedRead

\* An initAda that began with nothing of another seed in flight, and saw no switch, leaves
\* the fingerprint and the cached keys of the device's seed (node/index.ts 278-283).
THEOREM InitAdaRestores == Spec => InitAdaHeals
<1> DEFINE Heals == \A c \in Calls : InitAdaConfig(c) /\ call[c].clean => mfp' = active /\ cache' = active
<1>1. ASSUME Inductive PROVE [Heals]_vars
  <2>1. ASSUME NEW c \in Calls, InitAdaConfig(c), call[c].clean
        PROVE  mfp' = active /\ cache' = active
    <3>1. /\ call[c].stage = "answered" /\ call[c].op = "initAda" /\ call[c].sent.kind = "config"
          /\ mfp' = call[c].got /\ cache' = cache
      BY <2>1 DEF InitAdaConfig, Answered
    <3>2. Clean(c)
      BY <2>1, <3>1 DEF Clean, Pending
    <3> QED BY <1>1, <3>1, <3>2, AnswerRead DEF Inductive, CleanInv, CleanFits
  <2> QED BY <2>1
<1> QED BY <1>1, AlwaysInductive, PTL DEF Spec, InitAdaHeals

-----------------------------------------------------------------------------
(***************************************************************************)
(* Who signs.  Only signTransaction sends a request with signers, and they *)
(* stay with it until the call ends.                                       *)
(***************************************************************************)
SignedBy(request, signers) ==
  LET paths == {s.path : s \in signers}
  IN /\ paths \subseteq SigningPathsOf(request)
     /\ \A cert \in Elements(request.tx.certificates) : AuthorizingPaths(cert) \subseteq paths
     /\ request.signingMode = "POOL_REGISTRATION_AS_OWNER" =>
          paths \subseteq RewardPaths(request.tx) \cup Elements(request.additionalWitnessPaths)
Signing(c) == Pending(c) /\ call[c].sent.kind = "signTransaction"

\* The paths of the signers are among those of the certificates' keys, with those that
\* authorize the certificate.
LEMMA SignersHoldKeys ==
  ASSUME NEW cert, cert.type \in CertificateTypes
  PROVE  /\ SignerPaths(cert) \subseteq PrepareCertificate(cert).paths
         /\ AuthorizingPaths(cert) \subseteq SignerPaths(cert)
<1>1. CASE cert.type \in PoolTypes
  BY <1>1 DEF PoolTypes, SignerPaths, AuthorizingPaths, PrepareCertificate, Prepared,
     PrepareStakePoolRetirement, PrepareStakePoolRegistration
<1>2. CASE cert.type \notin PoolTypes
  <2>1. /\ SignerPaths(cert) = KeyPathsOf(cert.credential)
        /\ AuthorizingPaths(cert) = KeyPathsOf(cert.credential)
    BY <1>2 DEF PoolTypes, SignerPaths, AuthorizingPaths
  <2>2. CASE cert.type \in StakeTypes
    BY <2>1, <2>2 DEF StakeTypes, PlainStakeTypes, ConwayStakeTypes, PrepareCertificate, Prepared,
       PrepareStakeRegistration, PrepareStakeDeregistration, PrepareStakeDelegation,
       PrepareStakeRegistrationConway, PrepareStakeDeregistrationConway, PrepareVoteDelegation
  <2>3. CASE cert.type \in CommitteeTypes \cup DRepTypes
    BY <2>1, <2>3 DEF CommitteeTypes, DRepTypes, PrepareCertificate, Prepared, PrepareDrepUpdate,
       PrepareAuthorizeCommitteeHot, PrepareResignCommitteeCold, PrepareDrepRegistration,
       PrepareDrepDeregistration
  <2> QED BY <1>2, <2>1, <2>2, <2>3 DEF CertificateTypes
<1> QED BY <1>1, <1>2

\* In the owner's mode no input has a path, and the one certificate registers a pool.
LEMMA OwnerSigns ==
  ASSUME NEW request \in AcceptedTransactions, request.signingMode = "POOL_REGISTRATION_AS_OWNER"
  PROVE  /\ \A i \in Elements(request.tx.inputs) : Range(i.path) = {}
         /\ \A c \in Elements(request.tx.certificates) : c.type = "STAKE_POOL_REGISTRATION"
<1> DEFINE tx == request.tx
<1>1. WellFormed(tx) /\ OwnerMode(tx) = OK
  BY RequestAssumption, Accepts DEF AcceptedTransactions, ModeVerdict
<1>2. \A i \in Elements(tx.inputs) : i.path = <<>>
  BY <1>1, OwnerAccepts DEF Given
<1>3. Len(tx.certificates.items) = 1 /\ tx.certificates.items[1].type = "STAKE_POOL_REGISTRATION"
  BY <1>1, OwnerAccepts, PoolCertificateAccepts DEF OK
<1>4. ListOf(IsCertificate, tx.certificates)
  BY <1>1 DEF WellFormed, WellFormedField, TransactionFields, WellFormedList, ListParts
<1>5. DOMAIN tx.certificates.items = {1}
  BY <1>3, <1>4 DEF ListOf, IsList, IsSequence
<1>6. Elements(tx.certificates) = {tx.certificates.items[1]}
  BY <1>5 DEF Elements
<1>7. Range(<<>>) = {}
  BY DEF Range
<1> QED BY <1>2, <1>3, <1>6, <1>7

LEMMA TransactionSigned ==
  ASSUME NEW request \in AcceptedTransactions, NEW xfp
  PROVE  SignedBy(request, SignTransactionRequest(request, xfp).signers)
<1> DEFINE extra == PrepareExtraSigners(request.tx.certificates, xfp)
           signers == WitnessSigners(request, xfp) \cup extra \cup Utxos(request.tx, xfp)
<1>1. SignTransactionRequest(request, xfp).signers = signers
  BY DEF SignTransactionRequest, Request
<1>2. \A cert \in Elements(request.tx.certificates) : cert.type \in CertificateTypes
  BY RequestAssumption, Accepts, CertificatesKnown DEF AcceptedTransactions
<1>3. \A s \in WitnessSigners(request, xfp) : s.path \in Elements(request.additionalWitnessPaths)
  BY DEF WitnessSigners, Signer
<1>4. \A s \in Utxos(request.tx, xfp) :
        s.path \in UNION {Range(i.path) : i \in Elements(request.tx.inputs)}
  BY DEF Utxos, Signer
<1>5. \A s \in extra : s.path \in CertificatePaths(request.tx)
  BY <1>2, SignersHoldKeys DEF PrepareExtraSigners, Signer, CertificatePaths
<1>6. ASSUME NEW cert \in Elements(request.tx.certificates), NEW p \in AuthorizingPaths(cert)
      PROVE  Signer(p, xfp) \in extra /\ Signer(p, xfp).path = p
  BY <1>2, <1>6, SignersHoldKeys DEF PrepareExtraSigners, Signer
<1>7. ASSUME request.signingMode = "POOL_REGISTRATION_AS_OWNER", NEW s \in signers
      PROVE  s.path \in RewardPaths(request.tx) \cup Elements(request.additionalWitnessPaths)
  <2>1. CASE s \in WitnessSigners(request, xfp)
    BY <1>3, <2>1
  <2>2. CASE s \in Utxos(request.tx, xfp)
    BY <1>4, <1>7, <2>2, OwnerSigns
  <2>3. CASE s \in extra
    <3>1. PICK cert \in Elements(request.tx.certificates) : s.path \in SignerPaths(cert)
      BY <2>3 DEF PrepareExtraSigners, Signer
    <3>2. cert.type = "STAKE_POOL_REGISTRATION"
      BY <1>7, OwnerSigns
    <3>3. s.path \in HeldPaths(cert.pool.rewardAccount)
      BY <3>1, <3>2 DEF SignerPaths
    <3> QED BY <3>2, <3>3 DEF RewardPaths
  <2> QED BY <2>1, <2>2, <2>3
<1> HIDE DEF extra
<1>8. {s.path : s \in signers} \subseteq SigningPathsOf(request)
  BY <1>3, <1>4, <1>5 DEF SigningPathsOf
<1>9. \A cert \in Elements(request.tx.certificates) :
        AuthorizingPaths(cert) \subseteq {s.path : s \in signers}
  BY <1>6
<1> QED BY <1>1, <1>8, <1>9, <1>7 DEF SignedBy

\* What a step does to its call, as far as the signers are concerned.
LEMMA StepForms ==
  ASSUME Next, ~UserSwitches
  PROVE  \E c \in Calls :
           \/ DeviceAnswers(c) \/ SendTransaction(c)
           \/ \E keys : Ends(c, keys)
           \/ \E op, keys : EndsAtOnce(c, op, keys)
           \/ \E op, arg, xfp, keys, request :
                Sends(c, op, arg, xfp, keys, request) /\ request.kind # "signTransaction"
           \/ \E request : SendsNext(c, request) /\ request.kind # "signTransaction"
<1>1. /\ \A kind : Plain(kind).kind = kind
      /\ \A xfp, keys : SignDataRequest(xfp, keys).kind = "signData"
  BY DEF Plain, SignDataRequest, Request
<1>2. PICK c \in Calls :
       \/ DeviceAnswers(c) \/ Fails(c) \/ Signed(c)
       \/ InitAda(c) \/ InitAdaKeys(c) \/ InitAdaConfig(c)
       \/ GetAppConfig(c) \/ AppConfig(c)
       \/ \E paths \in KeyRequests : GetExtendedPublicKeys(c, paths)
       \/ ExtendedPublicKeys(c)
       \/ \E request \in Addresses : DeriveAddress(c, request)
       \/ DerivedAddress(c)
       \/ \E script \in NativeScripts : DeriveNativeScriptHash(c, script)
       \/ \E request \in Transactions : SignTransaction(c, request)
       \/ SendTransaction(c)
       \/ \E path \in SigningPaths :
            \/ \E requests \in {{}} \cup {{r} : r \in Addresses} : SignMessage(c, path, requests)
            \/ \E op \in {"signCIP36Vote", "signOperationalCertificate"} : SignData(c, op, path)
       \/ SendMessage(c)
  BY DEF Next
<1> WITNESS c \in Calls
<1>3. CASE DeviceAnswers(c) \/ SendTransaction(c)
  BY <1>3
<1>4. CASE \/ Fails(c) \/ Signed(c) \/ InitAdaConfig(c) \/ AppConfig(c) \/ ExtendedPublicKeys(c)
           \/ DerivedAddress(c)
  BY <1>4 DEF Fails, Signed, InitAdaConfig, AppConfig, ExtendedPublicKeys, DerivedAddress
<1>5. CASE InitAda(c) \/ GetAppConfig(c)
  BY <1>1, <1>5 DEF InitAda, GetAppConfig
<1>6. CASE InitAdaKeys(c) \/ SendMessage(c)
  BY <1>1, <1>6 DEF InitAdaKeys, SendMessage
<1>7. CASE \/ \E paths \in KeyRequests : GetExtendedPublicKeys(c, paths)
           \/ \E request \in Addresses : DeriveAddress(c, request)
           \/ \E script \in NativeScripts : DeriveNativeScriptHash(c, script)
           \/ \E request \in Transactions : SignTransaction(c, request)
  BY <1>1, <1>7 DEF GetExtendedPublicKeys, DeriveAddress, DeriveNativeScriptHash, SignTransaction
<1>8. ASSUME NEW path \in SigningPaths, NEW requests, SignMessage(c, path, requests)
      PROVE  \/ \E op, keys : EndsAtOnce(c, op, keys)
             \/ \E op, arg, xfp, keys, request :
                  Sends(c, op, arg, xfp, keys, request) /\ request.kind # "signTransaction"
  BY <1>1, <1>8 DEF SignMessage
<1>9. ASSUME NEW op, NEW path \in SigningPaths, SignData(c, op, path)
      PROVE  \/ \E o, keys : EndsAtOnce(c, o, keys)
             \/ \E o, arg, xfp, keys, request :
                  Sends(c, o, arg, xfp, keys, request) /\ request.kind # "signTransaction"
  BY <1>1, <1>9 DEF SignData
<1> QED BY <1>2, <1>3, <1>4, <1>5, <1>6, <1>7, <1>8, <1>9

LEMMA SignersStep == Inductive /\ SignersOfRequest /\ [Next]_vars => SignersOfRequest'
<1> SUFFICES ASSUME Inductive, SignersOfRequest, [Next]_vars PROVE SignersOfRequest'
  OBVIOUS
<1>1. \A d \in Calls : Signing(d) => SignedBy(call[d].arg, call[d].sent.signers)
  BY DEF SignersOfRequest, SignedBy, Signing
<1>2. SUFFICES ASSUME NEW d \in Calls, Signing(d)'
               PROVE  SignedBy(call'[d].arg, call'[d].sent.signers)
  BY DEF SignersOfRequest, SignedBy, Signing
<1>3. Shape
  BY DEF Inductive, CallInv
<1>4. CASE UNCHANGED vars
  BY <1>1, <1>2, <1>4 DEF vars, Signing, Pending
<1>5. CASE UserSwitches
  BY <1>1, <1>2, <1>3, <1>5, SwitchIsCall DEF Signing, Pending, Fields
<1>6. CASE Next /\ ~UserSwitches
  <2>1. PICK c \in Calls :
           \/ DeviceAnswers(c) \/ SendTransaction(c)
           \/ \E keys : Ends(c, keys)
           \/ \E op, keys : EndsAtOnce(c, op, keys)
           \/ \E op, arg, xfp, keys, request :
                Sends(c, op, arg, xfp, keys, request) /\ request.kind # "signTransaction"
           \/ \E request : SendsNext(c, request) /\ request.kind # "signTransaction"
    BY <1>6, StepForms
  <2>2. ASSUME OthersKeep(c), d # c
        PROVE  SignedBy(call'[d].arg, call'[d].sent.signers)
    BY <1>1, <1>2, <2>2 DEF OthersKeep, Signing, Pending
  <2>3. CASE DeviceAnswers(c)
    <3>1. d = c => Pending(d)
      BY <2>3 DEF DeviceAnswers, Pending
    <3> QED BY <1>1, <1>2, <1>3, <2>2, <2>3, <3>1, AnswerIsCall DEF Signing
  <2>4. ASSUME NEW op, NEW keys, call' = [call EXCEPT ![c] = Ended(op, keys)]
        PROVE  SignedBy(call'[d].arg, call'[d].sent.signers)
    <3>1. OthersKeep(c) /\ call'[c].stage = "idle"
      BY <1>3, <2>4, EndsIsCall
    <3> QED BY <1>2, <2>2, <3>1 DEF Signing, Pending
  <2>5. ASSUME NEW op, NEW arg, NEW xfp, NEW keys, NEW request,
               Sends(c, op, arg, xfp, keys, request), request.kind # "signTransaction"
        PROVE  SignedBy(call'[d].arg, call'[d].sent.signers)
    <3>1. OthersKeep(c) /\ call'[c].sent = request
      BY <1>3, <2>5, SendsIsCall
    <3> QED BY <1>2, <2>2, <2>5, <3>1 DEF Signing
  <2>6. ASSUME NEW request, SendsNext(c, request), request.kind # "signTransaction"
        PROVE  SignedBy(call'[d].arg, call'[d].sent.signers)
    <3>1. OthersKeep(c) /\ call'[c].sent = request
      BY <1>3, <2>6, NextIsCall
    <3> QED BY <1>2, <2>2, <2>6, <3>1 DEF Signing
  <2>7. CASE SendTransaction(c)
    <3> DEFINE r == SignTransactionRequest(call[c].arg, mfp')
    <3>1. SendsNext(c, r) \/ Ends(c, {})
      BY <2>7 DEF SendTransaction
    <3>2. call[c].arg \in AcceptedTransactions
      BY <2>7 DEF SendTransaction, Answered, Pending, Inductive, CallInv, SentFits
    <3>3. SignedBy(call[c].arg, r.signers)
      BY <3>2, TransactionSigned
    <3> HIDE DEF r
    <3>4. CASE SendsNext(c, r)
      <4>1. OthersKeep(c) /\ call'[c].sent = r /\ call'[c].arg = call[c].arg
        BY <1>3, <3>4, NextIsCall
      <4> QED BY <2>2, <3>3, <4>1
    <3> QED BY <2>4, <3>1, <3>4 DEF Ends
  <2> QED BY <2>1, <2>3, <2>4, <2>5, <2>6, <2>7 DEF Ends, EndsAtOnce
<1> QED BY <1>4, <1>5, <1>6

\* For every transaction the parser accepts, it is sent with the signer of every certificate
\* that a credential or a retiring pool's key of the device authorizes, and with no signer but
\* those the request names; in the owner's mode with none but the paths of the pool's reward
\* account and the additional witnesses (node/index.ts 972-984 and 2118-2239).
THEOREM SignersMatchRequest == Spec => []SignersOfRequest
<1>1. Init => SignersOfRequest
  BY DEF Init, SignersOfRequest, Pending, Idle
<1> QED BY <1>1, SignersStep, AlwaysInductive, PTL DEF Spec
=============================================================================
