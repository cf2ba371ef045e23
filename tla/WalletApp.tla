----------------------------- MODULE WalletApp ------------------------------
(***************************************************************************)
(* One application object of hw-app-eth, hw-app-sol, hw-app-cosmos,        *)
(* hw-app-tron, hw-app-avalanche or hw-app-bitcoin: the master fingerprint *)
(* it remembers, and its calls, which may overlap, to a device whose user  *)
(* may switch it to another seed.  All but the first two extend            *)
(* hw-app-base; Eth and Sol repeat its code.                               *)
(*                                                                         *)
(* A call has one await, of sendToDevice.  Begin is the code before it;    *)
(* Fails, AccountArrives, SignatureArrives and ConfigArrives are the code  *)
(* after it; the device answers in between.  The transport is taken at its *)
(* word: the answer is the one to this request, or an error.  A seed       *)
(* stands for its fingerprint and its keys.                                *)
(***************************************************************************)
EXTENDS Integers, FiniteSets

CONSTANTS
  Apps,        \* the packages instantiated
  Calls,       \* the calls made on the object
  Seeds,       \* the seeds on the device
  Given,       \* the fingerprints the application may have kept and pass itself
  MaxSwitches  \* bound on the number of times the user switches the device

Missing == "missing"
ASSUME WalletAssumption ==
  /\ Apps \subseteq {"eth", "sol", "cosmos", "tron", "avalanche", "bitcoin"}
  /\ Given \subseteq Seeds
  /\ Missing \notin Seeds
  /\ IsFiniteSet(Calls)
  /\ MaxSwitches \in Nat

VARIABLES
  app,      \* which package
  mfp,      \* the object's master fingerprint
  active,   \* the seed the device works with
  switches, \* number of switches so far
  op,       \* op[c]: the method called
  state,    \* state[c]: "idle", "sent", "answered" or how the call ended
  request,  \* request[c]: what was sent to the device
  answer,   \* answer[c]: what the device answered
  result,   \* result[c]: what the method returned
  joined,   \* the accounts convertMulitAccountToCryptoAccount put together
  held      \* history: held[c], the object's fingerprint when c was called

callVars == <<op, request, held>>
vars == <<app, mfp, active, switches, callVars, state, answer, result, joined>>

-----------------------------------------------------------------------------
(***************************************************************************)
(* The methods.  "export" is getAddress, getKeys, getPubkey, publicKey,    *)
(* getAddressAndPubKey and getExtendedPublicKey of avalanche,              *)
(* "guardedExport" is cosmos' getPublicKey, "versionedExport" bitcoin's    *)
(* getExtendedPublicKey, "account" getURAccount, "signFor" tron's          *)
(* signatures, "signGiven" avalanche's, "psbt" signPsbt and signPsbtRaw.   *)
(***************************************************************************)
Methods == {"export", "guardedExport", "versionedExport", "account", "sign", "signFor",
            "signGiven", "psbt", "config"}
BaseMethods == {"export", "account", "config"}

MethodsOf(a) ==
  CASE a \in {"eth", "sol"} -> {"export", "sign", "config"}
    [] a = "cosmos" -> BaseMethods \cup {"guardedExport", "sign"}
    [] a = "tron" -> BaseMethods \cup {"signFor"}
    [] a = "avalanche" -> BaseMethods \cup {"signGiven"}
    [] a = "bitcoin" -> BaseMethods \cup {"versionedExport", "sign", "psbt"}

Exports == {"export", "guardedExport", "versionedExport"}
Signs == {"sign", "signFor", "signGiven", "psbt"}

PrecheckedExportsOnly == {"guardedExport"}     \* mutant: the signing methods do not check
Prechecked == {"sign", "signFor", "guardedExport"}

\* The fingerprint in the request: tron prefers the caller's, avalanche always takes it,
\* a PSBT names its fingerprints itself.
FingerprintSent(o, xfp) ==
  CASE o = "sign" -> mfp
    [] o = "signFor" -> IF xfp = Missing THEN mfp ELSE xfp
    [] o = "signGiven" -> xfp
    [] OTHER -> Missing

\* What the caller may pass as xfp.
CallerFingerprints(o) ==
  CASE o = "signFor" -> Given \cup {Missing}
    [] o = "signGiven" -> Given
    [] OTHER -> {Missing}

\* decodePath takes the first two indexes of a path; getVersion knows these.
Purposes == {44, 49, 84, 86}
CoinTypes == {0, 1}
GetVersion(path) == path[1] \in Purposes /\ path[2] \in CoinTypes
AnyPaths == {<<84, 0>>, <<86, 1>>, <<1, 0>>, <<44, 60>>}

\* getExtendedPublicKey of bitcoin lets purpose 1 pass its own check; getVersion throws
\* for it, still before the device is asked.
PathAccepted(o, path) ==
  o = "versionedExport" => path[1] \in Purposes \cup {1} /\ path[2] \in CoinTypes /\ GetVersion(path)

-----------------------------------------------------------------------------
(***************************************************************************)
(* The device.                                                             *)
(***************************************************************************)
NoRequest == [method |-> "none", xfp |-> Missing]
NoAnswer == [type |-> "none", seed |-> Missing, form |-> "whole"]
NoResult == [key |-> Missing, mfp |-> Missing]
Forms == {"whole", "lacking"}
Answer(type, seed, form) == [type |-> type, seed |-> seed, form |-> form]
Refusal(type) == Answer(type, Missing, "whole")

\* A key in an account may lack a part the method needs, or be missing.  A signing
\* request that names another seed's fingerprint is refused.
Answers(r) ==
  {Refusal("rejected"), Refusal("partial")} \cup
  CASE r.method \in Exports \cup {"account"} ->
         {Answer("account", active, form) : form \in Forms}
    [] r.method = "config" -> {Answer(shape, active, "whole") : shape \in {"flat", "payload"}}
    [] r.method \in Signs ->
         IF r.method = "psbt" \/ r.xfp = active
         THEN {Answer("signature", active, form) : form \in Forms}
         ELSE {Refusal("mismatch")}

DeviceAnswers(c) ==
  /\ state[c] = "sent"
  /\ \E a \in Answers(request[c]) : answer' = [answer EXCEPT ![c] = a]
  /\ state' = [state EXCEPT ![c] = "answered"]
  /\ UNCHANGED <<app, mfp, active, switches, callVars, result, joined>>

UserSwitches ==
  /\ switches < MaxSwitches
  /\ \E s \in Seeds \ {active} : active' = s
  /\ switches' = switches + 1
  /\ UNCHANGED <<app, mfp, callVars, state, answer, result, joined>>

-----------------------------------------------------------------------------
(***************************************************************************)
(* The object.                                                             *)
(***************************************************************************)
Init ==
  /\ app \in Apps
  /\ mfp \in Given \cup {Missing}
  /\ active \in Seeds
  /\ switches = 0
  /\ op = [c \in Calls |-> "none"]
  /\ state = [c \in Calls |-> "idle"]
  /\ request = [c \in Calls |-> NoRequest]
  /\ answer = [c \in Calls |-> NoAnswer]
  /\ result = [c \in Calls |-> NoResult]
  /\ joined = {}
  /\ held = [c \in Calls |-> Missing]

Begin(c) ==
  \E o \in MethodsOf(app) : \E xfp \in CallerFingerprints(o), path \in AnyPaths :
    /\ state[c] = "idle"
    /\ op' = [op EXCEPT ![c] = o]
    /\ held' = [held EXCEPT ![c] = mfp]
    /\ \/ /\ o \in Prechecked /\ mfp = Missing
          /\ state' = [state EXCEPT ![c] = "missing mfp"]
          /\ UNCHANGED request
       \/ /\ ~PathAccepted(o, path)
          /\ state' = [state EXCEPT ![c] = "invalid path"]
          /\ UNCHANGED request
       \/ /\ o \in Prechecked => mfp # Missing
          /\ PathAccepted(o, path)
          /\ request' = [request EXCEPT ![c] = [method |-> o, xfp |-> FingerprintSent(o, xfp)]]
          /\ state' = [state EXCEPT ![c] = "sent"]
    /\ UNCHANGED <<app, mfp, active, switches, answer, result, joined>>

Ends(c, how, r) ==
  /\ state' = [state EXCEPT ![c] = how]
  /\ result' = [result EXCEPT ![c] = r]
  /\ answer' = [answer EXCEPT ![c] = NoAnswer]

\* sendToDevice rejects, or parseResponoseUR finds the UR incomplete.
Fails(c) ==
  /\ state[c] = "answered"
  /\ answer[c].type \in {"rejected", "partial", "mismatch"}
  /\ Ends(c, IF answer[c].type = "partial" THEN "ERR_UR_INCOMPLETE" ELSE answer[c].type, NoResult)
  /\ UNCHANGED <<app, mfp, active, switches, callVars, joined>>

\* account.getMasterFingerprint; mutant: the fingerprint of the key's parent.
MasterFingerprintOfParent(a) == IF a.form = "whole" THEN "parent" ELSE a.seed
MasterFingerprint(a) == a.seed

\* The methods set the fingerprint before they look into the key, except bitcoin's,
\* which sets it last.  Mutant: bitcoin's sets it first as well.
SetsFingerprintAlways(c) == op[c] \in Exports
SetsFingerprint(c) == op[c] \in Exports /\ (answer[c].form = "whole" \/ op[c] # "versionedExport")

\* Mutant: the fingerprint returned is the one the object had.
ReturnedFingerprintHeld(c) == IF mfp = Missing THEN MasterFingerprint(answer[c]) ELSE mfp
ReturnedFingerprint(c) == MasterFingerprint(answer[c])

AccountArrives(c) ==
  /\ state[c] = "answered"
  /\ answer[c].type = "account"
  /\ mfp' = IF SetsFingerprint(c) THEN MasterFingerprint(answer[c]) ELSE mfp
  /\ IF answer[c].form = "whole"
     THEN Ends(c, "ok", [key |-> answer[c].seed, mfp |-> ReturnedFingerprint(c)])
     ELSE Ends(c, "malformed", NoResult)
  /\ UNCHANGED <<app, active, switches, callVars, joined>>

\* Avalanche throws when the list of signatures is empty.
SignatureArrives(c) ==
  /\ state[c] = "answered"
  /\ answer[c].type = "signature"
  /\ IF answer[c].form = "whole"
     THEN Ends(c, "ok", [key |-> answer[c].seed, mfp |-> Missing])
     ELSE Ends(c, "malformed", NoResult)
  /\ UNCHANGED <<app, mfp, active, switches, callVars, joined>>

\* getAppConfig: Base reads the fields of the answer itself, Eth and Sol parse its payload.
Shape == IF app \in {"eth", "sol"} THEN "payload" ELSE "flat"
ConfigArrives(c) ==
  /\ state[c] = "answered"
  /\ op[c] = "config"
  /\ answer[c].type \in {"flat", "payload"}
  /\ IF answer[c].type = Shape
     THEN Ends(c, "ok", [key |-> Missing, mfp |-> answer[c].seed])
     ELSE Ends(c, IF Shape = "flat" THEN "ok" ELSE "malformed", NoResult)
  /\ UNCHANGED <<app, mfp, active, switches, callVars, joined>>

\* setMasterFingerprint, with a fingerprint the application kept or the answer, undefined
\* perhaps, of getMasterFingerprint.
SetMasterFingerprint ==
  /\ app = "bitcoin"
  /\ mfp' \in Given \cup {result[c].mfp : c \in {d \in Calls : op[d] = "config" /\ state[d] = "ok"}}
  /\ UNCHANGED <<app, active, switches, callVars, state, answer, result, joined>>

\* convertMulitAccountToCryptoAccount refuses accounts of several fingerprints; mutant: it
\* does not compare them.
OneFingerprintUnchecked(S) == S # {}
OneFingerprint(S) == Cardinality({result[c].mfp : c \in S}) = 1

JoinAccounts ==
  /\ joined = {}
  /\ \E S \in SUBSET {c \in Calls : op[c] = "account" /\ state[c] = "ok"} :
       OneFingerprint(S) /\ joined' = S
  /\ UNCHANGED <<app, mfp, active, switches, callVars, state, answer, result>>

Next ==
  \/ UserSwitches \/ SetMasterFingerprint \/ JoinAccounts
  \/ \E c \in Calls :
       Begin(c) \/ DeviceAnswers(c) \/ Fails(c) \/ AccountArrives(c) \/ SignatureArrives(c)
         \/ ConfigArrives(c)

Spec == Init /\ [][Next]_vars

-----------------------------------------------------------------------------
(***************************************************************************)
(* Properties.                                                             *)
(***************************************************************************)
Fingerprints == Seeds \cup {Missing}
States == {"idle", "sent", "answered", "ok", "missing mfp", "invalid path", "rejected",
           "mismatch", "ERR_UR_INCOMPLETE", "malformed"}
AnswerTypes == {"none", "rejected", "partial", "account", "flat", "payload", "signature", "mismatch"}

\* Every variable has its type; in particular the object's fingerprint is one of a seed,
\* never part of something else, or is missing.
TypeOK ==
  /\ app \in Apps
  /\ mfp \in Fingerprints
  /\ active \in Seeds
  /\ switches \in 0 .. MaxSwitches
  /\ op \in [Calls -> Methods \cup {"none"}]
  /\ state \in [Calls -> States]
  /\ request \in [Calls -> [method : Methods \cup {"none"}, xfp : Fingerprints]]
  /\ answer \in [Calls -> [type : AnswerTypes, seed : Fingerprints, form : Forms]]
  /\ result \in [Calls -> [key : Fingerprints, mfp : Fingerprints]]
  /\ joined \in SUBSET Calls
  /\ held \in [Calls -> Fingerprints]

\* A method that returns a key and a fingerprint returns those of one seed, although the
\* fingerprint is the object's and other calls change it while this one waits.
ExportPairsAgree ==
  \A c \in Calls : op[c] \in Exports /\ state[c] = "ok" => result[c].key = result[c].mfp

\* Every signing request that names a fingerprint names the caller's or the one the object
\* had when the method was called, and a signature is by the seed it names, whatever calls
\* and switches came in between; none is ever sent without one, except avalanche's and PSBTs.
SignsUnderHeldFingerprint ==
  \A c \in Calls : request[c].method \in {"sign", "signFor"} =>
    /\ held[c] # Missing
    /\ request[c].xfp \in {held[c]} \cup IF op[c] = "signFor" THEN Given ELSE {}
    /\ state[c] = "ok" => result[c].key = request[c].xfp

\* The device refuses a request for its fingerprint only when the user has switched seeds
\* or the fingerprint is one the application brought: the cached one, by itself, is right.
MismatchNeedsSwitch ==
  \A c \in Calls : state[c] = "mismatch" => switches > 0 \/ request[c].xfp \in Given

\* A call changes the fingerprint only by completing an export with an account; with
\* bitcoin, only by one that succeeds.  A failed or refused call leaves it alone.
FingerprintChangesByExport ==
  [][mfp' # mfp =>
       \/ SetMasterFingerprint
       \/ \E c \in Calls :
            /\ op[c] \in Exports /\ state[c] = "answered" /\ answer[c].type = "account"
            /\ state'[c] # "answered" /\ mfp' = answer[c].seed
            /\ op[c] = "versionedExport" => state'[c] = "ok"]_vars

\* Accounts put together are of one seed.
JoinedOfOneSeed == \A c, d \in joined : result[c].key = result[d].key
=============================================================================
