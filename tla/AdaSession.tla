----------------------------- MODULE AdaSession ------------------------------
(***************************************************************************)
(* An Ada object of hw-app-ada (node/index.ts; browser/index.ts differs in *)
(* one import): the master fingerprint and the key cache it remembers, and *)
(* its calls, which may overlap, to a device whose user may switch it to   *)
(* another seed.                                                           *)
(*                                                                         *)
(* A step of a call is the code between two awaits of sendToDevice.  The   *)
(* other awaits are of values at hand: their microtasks run before an      *)
(* answer of the device is handled.  The transport is taken at its word: a *)
(* request is answered, by the seed active then, or the call fails.        *)
(***************************************************************************)
EXTENDS AdaTxBuild

CONSTANTS
  Calls,         \* the calls that may be in progress at a time
  Seeds,         \* the seeds on the device
  Transactions,  \* requests for signTransaction
  Addresses,     \* requests for deriveAddress, and the addresses of a message
  SigningPaths,  \* the paths of messages, votes and operational certificates
  KeyRequests,   \* requests for getExtendedPublicKeys: sequences of paths
  NativeScripts  \* requests for deriveNativeScriptHash

ASSUME SessionAssumption == None \notin Seeds

\* The requests are of the types of public.ts: lists are lists, a path a list of indexes.
Indexes == [hard : BOOLEAN, index : Int]
Paths(list) == IsSequence(list) /\ Range(list) \subseteq Seq(Indexes)
ASSUME RequestAssumption ==
  /\ SigningPaths \subseteq Seq(Indexes)
  /\ \A r \in Transactions : WellFormed(r.tx) /\ CertificatePaths(r.tx) \subseteq Seq(Indexes)
  /\ \A r \in Addresses : Paths(r.address.spendingPath) /\ Paths(r.address.stakingPath)
  /\ \A script \in NativeScripts : IsSequence(script) /\ \A node \in Range(script) : Paths(node.path)

VARIABLES
  active, \* the seed the device works with
  mfp,    \* the object's master fingerprint
  cache,  \* the seed whose account and cold keys pathToPublicKeyMap holds
  call    \* call[c]: the method called, how far it is, and what it has sent and read

vars == <<active, mfp, cache, call>>

(***************************************************************************)
(* A request to the device.  keys are the public keys it carries, each     *)
(* with the path it stands for; xfps the fingerprints; signers, parts and  *)
(* certificates are those of a transaction.                                *)
(***************************************************************************)
Request(kind, xfps, keys, signers, tx) ==
  [kind |-> kind, xfps |-> xfps, keys |-> keys, signers |-> signers, tx |-> tx]
NoTransaction == [parts |-> {}, outputs |-> <<>>, certificates |-> <<>>]
Plain(kind) == Request(kind, {}, {}, {}, NoTransaction)

Idle ==
  [op |-> "none", stage |-> "idle", arg |-> <<>>, xfp |-> None, keys |-> {},
   sent |-> Plain("none"), got |-> None, clean |-> FALSE]

Pending(c) == call[c].stage \in {"sent", "answered"}

\* The seeds a call has something of: read and not yet stored, held or sent.
SeedsOf(r) ==
  (({r.xfp, r.got} \cup r.sent.xfps) \ {None})
  \cup {k.key.seed : k \in r.keys \cup r.sent.keys}

Init ==
  /\ active \in Seeds
  /\ mfp \in Seeds \cup {None}          \* what the constructor is given
  /\ cache = None
  /\ call = [c \in Calls |-> Idle]

-----------------------------------------------------------------------------
(***************************************************************************)
(* Steps of a call.                                                        *)
(***************************************************************************)
Idling(c) == call[c].stage = "idle"

\* The call begins, having read the fingerprint and the keys, and sends a request.
Sends(c, op, arg, xfp, keys, request) ==
  /\ Idling(c)
  /\ call' = [call EXCEPT ![c] =
       [op |-> op, stage |-> "sent", arg |-> arg, xfp |-> xfp, keys |-> keys, sent |-> request,
        got |-> None,
        clean |-> \A d \in Calls \ {c} : Pending(d) => SeedsOf(call[d]) \subseteq {active}]]
  /\ UNCHANGED <<active, mfp, cache>>

\* What is left of a call: the keys it returned something made of, none if it threw.
Ended(op, keys) == IF keys = {} THEN Idle ELSE [Idle EXCEPT !.op = op, !.keys = keys]
\* The call ends without a request.
EndsAtOnce(c, op, keys) ==
  /\ Idling(c)
  /\ call' = [call EXCEPT ![c] = Ended(op, keys)]
  /\ UNCHANGED <<active, mfp, cache>>
Ends(c, keys) == call' = [call EXCEPT ![c] = Ended(@.op, keys)]
SendsNext(c, request) ==
  call' = [call EXCEPT ![c].stage = "sent", ![c].sent = request, ![c].got = None]
Answered(c, op, kind) ==
  call[c].stage = "answered" /\ call[c].op = op /\ call[c].sent.kind = kind

DeviceAnswers(c) ==
  /\ call[c].stage = "sent"
  /\ call' = [call EXCEPT ![c].stage = "answered", ![c].got = active]
  /\ UNCHANGED <<active, mfp, cache>>

\* A transport error, a refusal, or an answer that does not decode.
Fails(c) ==
  /\ Pending(c)
  /\ Ends(c, {})
  /\ UNCHANGED <<active, mfp, cache>>

\* The signature is returned.
Signed(c) ==
  /\ call[c].stage = "answered"
  /\ call[c].sent.kind \in {"signTransaction", "signData"}
  /\ Ends(c, {})
  /\ UNCHANGED <<active, mfp, cache>>

UserSwitches ==
  /\ active' \in Seeds \ {active}
  /\ call' = [c \in Calls |-> [call[c] EXCEPT !.clean = FALSE]]
  /\ UNCHANGED <<mfp, cache>>

-----------------------------------------------------------------------------
(***************************************************************************)
(* initAda, getAppConfig, getExtendedPublicKeys.                           *)
(***************************************************************************)
InitAda(c) == Sends(c, "initAda", <<>>, None, {}, Plain("keys"))

InitAdaKeys(c) ==
  /\ Answered(c, "initAda", "keys")
  /\ cache' = call[c].got
  /\ SendsNext(c, Plain("config"))
  /\ UNCHANGED <<active, mfp>>

\* Mutant: a fingerprint that is there already is kept.
InitAdaConfigOnce(c) ==
  /\ Answered(c, "initAda", "config")
  /\ mfp' = IF mfp = None THEN call[c].got ELSE mfp
  /\ Ends(c, {})
  /\ UNCHANGED <<active, cache>>
InitAdaConfig(c) ==
  /\ Answered(c, "initAda", "config")
  /\ mfp' = call[c].got
  /\ Ends(c, {})
  /\ UNCHANGED <<active, cache>>

GetAppConfig(c) == Sends(c, "getAppConfig", <<>>, None, {}, Plain("config"))
AppConfig(c) ==
  /\ Answered(c, "getAppConfig", "config")
  /\ Ends(c, {})
  /\ UNCHANGED <<active, mfp, cache>>

\* The i-th key returned is the i-th of the paths that have a schema.
AcceptedKeyRequests == {paths \in KeyRequests : ParseKeyPaths(List(paths)) = OK}
GetExtendedPublicKeys(c, paths) ==
  IF paths \in AcceptedKeyRequests
  THEN Sends(c, "getExtendedPublicKeys", paths, None, {}, Plain("keys"))
  ELSE EndsAtOnce(c, "getExtendedPublicKeys", {})
ExtendedPublicKeys(c) ==
  /\ Answered(c, "getExtendedPublicKeys", "keys")
  /\ LET asked == call[c].arg
         schemas == Schemas(asked)
     IN Ends(c, {[path |-> asked[i], key |-> Key(call[c].got, schemas[i])] : i \in DOMAIN schemas})
  /\ UNCHANGED <<active, mfp, cache>>

-----------------------------------------------------------------------------
(***************************************************************************)
(* Addresses.                                                              *)
(***************************************************************************)
DeviceKeys(seed, paths) == {[path |-> p, key |-> Key(seed, p)] : p \in paths}

AcceptedAddresses ==
  {r \in Addresses : ParseAddress(r.network, r.address) = OK /\ ~Underivable(r.address)}
DeriveAddress(c, request) ==
  LET address == request.address
  IN IF request \in AcceptedAddresses /\ AddressPaths(address) # {}
     THEN Sends(c, "deriveAddress", address, None, {}, Plain("keys"))
     ELSE EndsAtOnce(c, "deriveAddress", {})

\* Only a base address brings a fingerprint with it.
DerivedAddress(c) ==
  /\ Answered(c, "deriveAddress", "keys")
  /\ mfp' = IF call[c].arg.type \in BaseTypes THEN call[c].got ELSE mfp
  /\ Ends(c, DeviceKeys(call[c].got, AddressPaths(call[c].arg)))
  /\ UNCHANGED <<active, cache>>

AcceptedScripts == {script \in NativeScripts : ParseNativeScript(script) = OK}
DeriveNativeScriptHash(c, script) ==
  LET paths == UNION {Range(node.path) : node \in Range(script)}
  IN EndsAtOnce(c, "deriveNativeScriptHash",
                IF script \in AcceptedScripts /\ AllFound(cache, paths)
                THEN KeysFor(cache, paths) ELSE {})

-----------------------------------------------------------------------------
(***************************************************************************)
(* signTransaction: the fingerprint is read, then the transaction is built *)
(* from the cache.  The library may refuse any string it is given, a       *)
(* public key in the place of a hash among them.                           *)
(***************************************************************************)
AcceptedTransactions ==
  {request \in Transactions : /\ ParseSignTransactionRequest(request) = OK
                              /\ request.signingMode # "MULTISIG_TRANSACTION"}
SignTransaction(c, request) ==
  IF request \in AcceptedTransactions
  THEN Sends(c, "signTransaction", request, None, {}, Plain("config"))
  ELSE EndsAtOnce(c, "signTransaction", {})

SignTransactionRequest(request, xfp) ==
  LET signers == WitnessSigners(request, xfp) \cup PrepareExtraSigners(request.tx.certificates, xfp)
                 \cup Utxos(request.tx, xfp)
  IN Request("signTransaction", {s.xfp : s \in signers}, KeysFor(cache, CertificatePaths(request.tx)),
             signers, ConvertTransaction(request.tx))

\* Mutant: the fingerprint that was read is for the object only; the request has the one
\* it held.
SendTransactionHeld(c) ==
  /\ Answered(c, "signTransaction", "config")
  /\ mfp' = call[c].got
  /\ LET request == call[c].arg
     IN \/ /\ Convertible(cache, request.tx)
           /\ SendsNext(c, SignTransactionRequest(request, IF mfp = None THEN mfp' ELSE mfp))
        \/ Ends(c, {})
  /\ UNCHANGED <<active, cache>>
SendTransaction(c) ==
  /\ Answered(c, "signTransaction", "config")
  /\ mfp' = call[c].got
  /\ LET request == call[c].arg
     IN \/ Convertible(cache, request.tx) /\ SendsNext(c, SignTransactionRequest(request, mfp'))
        \/ Ends(c, {})
  /\ UNCHANGED <<active, cache>>

-----------------------------------------------------------------------------
(***************************************************************************)
(* signMessage, signCIP36Vote and signOperationalCertificate: fingerprint  *)
(* and public key are read when the method is called.                      *)
(***************************************************************************)
AcceptedSigningPaths == {path \in SigningPaths : ParseBIP32Path(path, "INVALID_PATH") = OK}
SignDataRequest(xfp, keys) == Request("signData", {xfp}, keys, {}, NoTransaction)

\* What a message needs: the key of its path and those of its address that are looked
\* up in the cache.
MessageKeyPaths(path, addresses) ==
  {path} \cup UNION {IF FromDevice(a) THEN {} ELSE AddressPaths(a) : a \in addresses}

\* requests is the request for the address of the message, if its header is to name one.
SignMessage(c, path, requests) ==
  LET addresses == {r.address : r \in requests}
      paths == MessageKeyPaths(path, addresses)
      keys == KeysFor(cache, paths)
  IN IF /\ mfp # None
        /\ path \in AcceptedSigningPaths
        /\ requests \subseteq AcceptedAddresses
        /\ AllFound(cache, paths)
     THEN Sends(c, "signMessage", addresses, mfp, keys,
                IF \E a \in addresses : FromDevice(a) THEN Plain("keys") ELSE SignDataRequest(mfp, keys))
     ELSE EndsAtOnce(c, "signMessage", {})

\* The address is put in the request with the fingerprint and the key read before it.
SendMessage(c) ==
  /\ Answered(c, "signMessage", "keys")
  /\ SendsNext(c, SignDataRequest(call[c].xfp,
                    call[c].keys \cup UNION {DeviceKeys(call[c].got, AddressPaths(a)) : a \in call[c].arg}))
  /\ UNCHANGED <<active, mfp, cache>>

\* Mutant: a vote is sent without a fingerprint too.
SignDataUnchecked(c, op, path) ==
  LET keys == KeysFor(cache, {path} \cap AcceptedSigningPaths)
  IN IF keys # {} /\ ~(op = "signCIP36Vote" /\ path[1] = H(1694))
     THEN Sends(c, op, path, mfp, keys, SignDataRequest(mfp, keys))
     ELSE EndsAtOnce(c, op, {})
\* A CIP-36 vote or an operational certificate.
SignData(c, op, path) ==
  LET keys == KeysFor(cache, {path} \cap AcceptedSigningPaths)
  IN IF mfp # None /\ keys # {} /\ ~(op = "signCIP36Vote" /\ path[1] = H(1694))
     THEN Sends(c, op, path, mfp, keys, SignDataRequest(mfp, keys))
     ELSE EndsAtOnce(c, op, {})

Next ==
  \/ UserSwitches
  \/ \E c \in Calls :
       \/ DeviceAnswers(c) \/ Fails(c) \/ Signed(c)
       \/ InitAda(c) \/ InitAdaKeys(c) \/ InitAdaConfig(c)
       \/ GetAppConfig(c) \/ AppConfig(c)
       \/ \E paths \in KeyRequests : GetExtendedPublicKeys(c, paths)
       \/ ExtendedPublicKeys(c)
       \/ \E request \in Addresses : DeriveAddress(c, request)
       \/ DerivedAddress(c)
       \/ \E script \in NativeScripts : DeriveNativeScriptHash(c, script)
       \/ \E request \in Transactions : SignTransaction(c, request)
       \/ SendTransaction(c)
       \/ \E path \in SigningPaths :
            \/ \E requests \in {{}} \cup {{r} : r \in Addresses} : SignMessage(c, path, requests)
            \/ \E op \in {"signCIP36Vote", "signOperationalCertificate"} : SignData(c, op, path)
       \/ SendMessage(c)

Spec == Init /\ [][Next]_vars

-----------------------------------------------------------------------------
(***************************************************************************)
(* The properties.                                                         *)
(***************************************************************************)
MaybeSeeds == Seeds \cup {None}
\* Fingerprints, keys and answers are of the device's seeds; a call that waits for the
\* device has sent it something, and nothing it sent lacks its fingerprint.
TypeOK ==
  /\ active \in Seeds /\ mfp \in MaybeSeeds /\ cache \in MaybeSeeds
  /\ \A c \in Calls :
       /\ call[c].stage \in {"idle", "sent", "answered"}
       /\ {call[c].xfp, call[c].got} \subseteq MaybeSeeds
       /\ call[c].sent.xfps \subseteq Seeds
       /\ {k.key.seed : k \in call[c].keys \cup call[c].sent.keys} \subseteq Seeds
       /\ Pending(c) => call[c].sent.kind # "none"
       /\ call[c].stage = "answered" => call[c].got # None

\* Every public key a method returns or puts in a request is the key of the path it stands
\* for: the cache is searched for a part of the path's text and the key derived along the
\* last two of its indexes, which are all that is below the account only because no parser
\* lets a longer path pass.  Left out: getExtendedPublicKeys, which pairs the keys with the
\* wrong paths once it has passed over one.
KeyOfPath ==
  \A c \in Calls :
    \A k \in call[c].keys \cup call[c].sent.keys :
      \/ k.key.path = k.path
      \/ call[c].op = "getExtendedPublicKeys"

\* However stale the object's fingerprint is and whatever other calls store in it while this
\* one waits, all that a transaction is sent with names the seed that getAppConfig read for
\* it: signTransaction reads this.mfp again after its await (node/index.ts 948-986).
TransactionOfSeedRead ==
  [][\A c \in Calls :
       Answered(c, "signTransaction", "config") /\ Pending(c)'
         => call'[c].sent.xfps \subseteq {call[c].got}]_vars

\* After a switch initAda is enough: when it ends, having begun with nothing of another
\* seed in flight and seen no switch, fingerprint and keys are those of the device again,
\* whatever other calls did meanwhile (node/index.ts 278-283 stores them in two steps).
InitAdaHeals ==
  [][\A c \in Calls : InitAdaConfig(c) /\ call[c].clean => mfp' = active /\ cache' = active]_vars

\* A transaction is sent with a signer for every certificate that a path of the device has to
\* authorize, and with no signer the request does not name (node/index.ts 972-984, 2118-2239).
\* One that was parsed for an owner of a pool is signed for nothing but the reward account of
\* the pool and the additional witnesses, whatever else it holds.  Of a pool registration no
\* signer is asked for here: the code names the reward account and leaves out the keys of owner
\* and pool, which public.ts 1831-1832 and 1854-1856 promise as witnesses.
SigningPathsOf(request) ==
  Elements(request.additionalWitnessPaths) \cup CertificatePaths(request.tx)
  \cup UNION {Range(i.path) : i \in Elements(request.tx.inputs)}
AuthorizingPaths(cert) ==
  CASE cert.type = "STAKE_POOL_REGISTRATION" -> {}
    [] cert.type = "STAKE_POOL_RETIREMENT" -> {cert.poolKeyPath}
    [] OTHER -> KeyPathsOf(cert.credential)
RewardPaths(tx) ==
  UNION {HeldPaths(c.pool.rewardAccount) :
           c \in {d \in Elements(tx.certificates) : d.type = "STAKE_POOL_REGISTRATION"}}
SignersOfRequest ==
  \A c \in Calls :
    Pending(c) /\ call[c].sent.kind = "signTransaction" =>
      LET request == call[c].arg
          paths == {s.path : s \in call[c].sent.signers}
      IN /\ paths \subseteq SigningPathsOf(request)
         /\ \A cert \in Elements(request.tx.certificates) : AuthorizingPaths(cert) \subseteq paths
         /\ request.signingMode = "POOL_REGISTRATION_AS_OWNER" =>
              paths \subseteq RewardPaths(request.tx) \cup Elements(request.additionalWitnessPaths)

\* The transaction that is sent for signing has every part of the one the caller asked to
\* be signed: `tx` of the request is the "Transaction to be signed" (public.ts 1885).
SentAsAsked ==
  \A c \in Calls :
    Pending(c) /\ call[c].sent.kind = "signTransaction" =>
      call[c].sent.tx.parts = Parts(call[c].arg.tx)
=============================================================================
