----------------------------- MODULE AdaTxBuild ------------------------------
(***************************************************************************)
(* How hw-app-ada turns an accepted transaction into the one the device    *)
(* signs (convertToCSLTransaction and the prepare functions), which keys   *)
(* it asks the device to sign with, and where it takes public keys from.   *)
(*                                                                         *)
(* A key is the seed it belongs to and the path it was derived along.  The *)
(* serialization library is outside: that it refuses a string it is given  *)
(* is left to the caller of this module.                                   *)
(***************************************************************************)
EXTENDS AdaTransaction, AdaOtherRequests

None == "none"
Key(seed, path) == [seed |-> seed, path |-> path]

\* The paths whose extended keys initAda reads into the cache.
AccountPath == <<H(1852), H(1815), H(0)>>
ColdPath == <<H(1853), H(1815), H(0), H(0)>>

(***************************************************************************)
(* getPublicKeyHex: the key found in a cache of keys of the seed, or no    *)
(* key, where it throws.  A path below the account's contains its text,    *)
(* and the last two of its indexes are derived; derive refuses a hardened  *)
(* index.                                                                  *)
(***************************************************************************)
BelowAccount(path) == Len(path) >= 3 /\ SubSeq(path, 1, 3) = AccountPath
ChildIndexes(path) == SubSeq(path, Len(path) - 1, Len(path))
Derive(key, indexes) ==
  IF \E i \in DOMAIN indexes : indexes[i].hard THEN {} ELSE {[key EXCEPT !.path = @ \o indexes]}

IsColdPath(path) == path # <<>> /\ path[1] = H(1853)
\* Mutant: the one extended key of the cache serves every account.
PublicKeyOfAnyAccount(cache, path) ==
  IF cache = None \/ Len(path) < 3 THEN {}
  ELSE IF IsColdPath(path) THEN {Key(cache, p) : p \in {path} \cap {ColdPath}}
  ELSE Derive(Key(cache, AccountPath), ChildIndexes(path))
PublicKey(cache, path) ==
  IF cache = None THEN {}
  ELSE IF IsColdPath(path) THEN {Key(cache, p) : p \in {path} \cap {ColdPath}}
  ELSE IF BelowAccount(path) THEN Derive(Key(cache, AccountPath), ChildIndexes(path))
  ELSE {}

\* The keys found for some paths, each with the path it is to stand for.
KeysFor(cache, paths) == UNION {{[path |-> p, key |-> k] : k \in PublicKey(cache, p)} : p \in paths}
AllFound(cache, paths) == \A p \in paths : PublicKey(cache, p) # {}

-----------------------------------------------------------------------------
(***************************************************************************)
(* Certificates.  A prepared certificate is the kind it is serialized as,  *)
(* the paths of the keys put in it, and the number of relays in it.        *)
(***************************************************************************)
Prepared(kind, paths) == [kind |-> kind, paths |-> paths, relays |-> 0]
KeyPathsOf(credential) == IF credential.type = "KEY_PATH" THEN {credential.path} ELSE {}
HeldPaths(held) == IF held.type = "DEVICE_OWNED" THEN {held.path} ELSE {}

PrepareStakeRegistration(cert) == Prepared("stake_registration", KeyPathsOf(cert.credential))
PrepareStakeDeregistration(cert) == Prepared("stake_deregistration", KeyPathsOf(cert.credential))
PrepareStakeDelegation(cert) == Prepared("stake_delegation", KeyPathsOf(cert.credential))
\* Both are serialized as a registration with a delegation, to the credential itself.
PrepareStakeRegistrationConway(cert) ==
  Prepared("stake_registration_and_delegation", KeyPathsOf(cert.credential))
PrepareStakeDeregistrationConway(cert) ==
  Prepared("stake_registration_and_delegation", KeyPathsOf(cert.credential))
PrepareVoteDelegation(cert) ==
  Prepared("vote_delegation", KeyPathsOf(cert.dRep) \cup KeyPathsOf(cert.credential))
PrepareAuthorizeCommitteeHot(cert) ==
  Prepared("committee_hot_auth", KeyPathsOf(cert.credential) \cup KeyPathsOf(cert.hotCredential))
PrepareResignCommitteeCold(cert) == Prepared("committee_cold_resign", KeyPathsOf(cert.credential))
PrepareDrepRegistration(cert) == Prepared("drep_registration", KeyPathsOf(cert.credential))
PrepareDrepDeregistration(cert) == Prepared("drep_deregistration", KeyPathsOf(cert.credential))
PrepareDrepUpdate(cert) == Prepared("drep_update", KeyPathsOf(cert.credential))
PrepareStakePoolRetirement(cert) == Prepared("pool_retirement", {cert.poolKeyPath})

\* A host given by both of its addresses is added once for each and once for both.
RelaysOf(relay) ==
  CASE relay.type = "SINGLE_HOST_IP_ADDR" ->
         (IF Given(relay.ipv4) THEN 1 ELSE 0) + (IF Given(relay.ipv6) THEN 1 ELSE 0)
         + (IF Given(relay.ipv4) /\ Given(relay.ipv6) THEN 1 ELSE 0)
    [] OTHER -> 1
PrepareStakePoolRegistration(cert) ==
  LET pool == cert.pool
  IN [kind |-> "pool_registration",
      paths |-> HeldPaths(pool.rewardAccount) \cup HeldPaths(pool.poolKey)
                \cup UNION {HeldPaths(o) : o \in Range(pool.owners)},
      relays |-> FoldFunction(LAMBDA r, n : RelaysOf(r) + n, 0, pool.relays)]

PrepareCertificate(cert) ==
  CASE cert.type = "STAKE_REGISTRATION" -> PrepareStakeRegistration(cert)
    [] cert.type = "STAKE_DEREGISTRATION" -> PrepareStakeDeregistration(cert)
    [] cert.type = "STAKE_DELEGATION" -> PrepareStakeDelegation(cert)
    [] cert.type = "STAKE_REGISTRATION_CONWAY" -> PrepareStakeRegistrationConway(cert)
    [] cert.type = "STAKE_DEREGISTRATION_CONWAY" -> PrepareStakeDeregistrationConway(cert)
    [] cert.type = "VOTE_DELEGATION" -> PrepareVoteDelegation(cert)
    [] cert.type = "AUTHORIZE_COMMITTEE_HOT" -> PrepareAuthorizeCommitteeHot(cert)
    [] cert.type = "RESIGN_COMMITTEE_COLD" -> PrepareResignCommitteeCold(cert)
    [] cert.type = "DREP_REGISTRATION" -> PrepareDrepRegistration(cert)
    [] cert.type = "DREP_DEREGISTRATION" -> PrepareDrepDeregistration(cert)
    [] cert.type = "DREP_UPDATE" -> PrepareDrepUpdate(cert)
    [] cert.type = "STAKE_POOL_REGISTRATION" -> PrepareStakePoolRegistration(cert)
    [] cert.type = "STAKE_POOL_RETIREMENT" -> PrepareStakePoolRetirement(cert)

-----------------------------------------------------------------------------
(***************************************************************************)
(* The transaction that is sent, and when it cannot be built.              *)
(***************************************************************************)
\* The parts of a transaction that are not empty; "tokens" are those of its outputs.
Parts(tx) ==
  {f \in ListParts : ~IsEmpty(tx[f])} \cup {f \in OptionalParts : Given(tx[f])} \cup {"fee"}
  \cup {"tokens" : o \in {p \in Elements(tx.outputs) : ~IsEmpty(p.tokenBundle)}}
ConvertedParts == {"inputs", "outputs", "fee", "ttl", "certificates"}

ConvertOutput(output) == [datum |-> DatumOf(output), script |-> ReferenceScriptOf(output)]
ConvertTransaction(tx) ==
  [parts |-> Parts(tx) \cap ConvertedParts,
   outputs |-> [i \in DOMAIN tx.outputs.items |-> ConvertOutput(tx.outputs.items[i])],
   certificates |-> [i \in DOMAIN tx.certificates.items |->
                       PrepareCertificate(tx.certificates.items[i])]]

CertificatePaths(tx) == UNION {PrepareCertificate(c).paths : c \in Elements(tx.certificates)}
\* The text of a path is no hash.
PathTakenForHash(cert) ==
  cert.type = "STAKE_DEREGISTRATION_CONWAY" /\ cert.credential.type = "KEY_PATH"
Convertible(cache, tx) ==
  /\ OutputsToThirdParty(tx)
  /\ AllFound(cache, CertificatePaths(tx))
  /\ \A c \in Elements(tx.certificates) : ~PathTakenForHash(c)

-----------------------------------------------------------------------------
(***************************************************************************)
(* Who signs: the inputs with a path, and the signers besides.  Each names *)
(* the fingerprint of the seed it is for.                                  *)
(***************************************************************************)
Signer(path, xfp) == [path |-> path, xfp |-> xfp]
Utxos(tx, xfp) == UNION {{Signer(p, xfp) : p \in Range(i.path)} : i \in Elements(tx.inputs)}

\* Mutant: the certificate that delegates a vote is forgotten.
SignerPathsNoVote(cert) ==
  CASE cert.type = "STAKE_POOL_REGISTRATION" -> HeldPaths(cert.pool.rewardAccount)
    [] cert.type = "STAKE_POOL_RETIREMENT" -> {cert.poolKeyPath}
    [] cert.type = "VOTE_DELEGATION" -> {}
    [] OTHER -> KeyPathsOf(cert.credential)
SignerPaths(cert) ==
  CASE cert.type = "STAKE_POOL_REGISTRATION" -> HeldPaths(cert.pool.rewardAccount)
    [] cert.type = "STAKE_POOL_RETIREMENT" -> {cert.poolKeyPath}
    [] OTHER -> KeyPathsOf(cert.credential)
PrepareExtraSigners(certificates, xfp) ==
  UNION {{Signer(p, xfp) : p \in SignerPaths(c)} : c \in Elements(certificates)}
WitnessSigners(request, xfp) == {Signer(p, xfp) : p \in Elements(request.additionalWitnessPaths)}

-----------------------------------------------------------------------------
(***************************************************************************)
(* Addresses: the paths whose keys an address is made of, and the types    *)
(* deriveAddress and deriveAddressFromCache have no case for.              *)
(***************************************************************************)
BaseTypes == {"BASE_KEY_KEY", "BASE_KEY_SCRIPT", "BASE_SCRIPT_KEY", "BASE_SCRIPT_SCRIPT"}
AddressPaths(address) == Range(address.spendingPath) \cup Range(address.stakingPath)
Underivable(address) ==
  \/ address.type \in {"BYRON"} \cup StakesByPointer
  \/ Given(address.stakingKeyHash)
\* Addresses with a key that deriveAddressFromCache asks the device for all the same.
FromDevice(address) == address.type \notin BaseTypes /\ AddressPaths(address) # {}
=============================================================================
