-------------------------- MODULE WalletAppProofs ---------------------------
(***************************************************************************)
(* Theorems about WalletApp, for every number of calls, seeds and switches *)
(* and every choice of packages.                                           *)
(***************************************************************************)
EXTENDS WalletApp, FiniteSetTheorems, TLAPS

(***************************************************************************)
(* The inductive invariant.  What was sent is what the method sends; the   *)
(* answer is one to it; the result is of the answer.                       *)
(***************************************************************************)
Asked(c) ==
  /\ state[c] = "idle" => request[c].method = "none"
  /\ request[c].method \in {"none", op[c]}
  /\ state[c] \in {"sent", "answered"} => request[c].method = op[c] /\ op[c] \in Methods
  /\ request[c].method \in {"sign", "signFor"} =>
       /\ held[c] # Missing
       /\ request[c].xfp \in {held[c]} \cup IF op[c] = "signFor" THEN Given ELSE {}
  /\ request[c].method = "signGiven" => request[c].xfp \in Given

ForeignAnswer(c) == switches > 0 \/ request[c].xfp \in Given

AnswerFits(c) ==
  state[c] = "answered" =>
    /\ answer[c].type = "account" => op[c] \in Exports \cup {"account"}
    /\ answer[c].type = "signature" =>
         op[c] \in Signs /\ (op[c] # "psbt" => answer[c].seed = request[c].xfp)
    /\ answer[c].type = "mismatch" => ForeignAnswer(c)
    /\ answer[c].type \in {"flat", "payload"} => op[c] = "config"

ResultFits(c) ==
  /\ state[c] = "ok" =>
       /\ op[c] \in Exports \cup {"account"} => result[c].key = result[c].mfp
       /\ request[c].method \in {"sign", "signFor"} => result[c].key = request[c].xfp
  /\ state[c] = "mismatch" => ForeignAnswer(c)

\* Until the first switch every fingerprint is the device's or one the application brought.
OneSeed ==
  switches = 0 =>
    /\ mfp \in Given \cup {Missing, active}
    /\ \A c \in Calls : /\ request[c].xfp \in Given \cup {Missing, active}
                        /\ answer[c].seed \in {Missing, active}
                        /\ result[c].mfp \in {Missing, active}

CallInv == \A c \in Calls : Asked(c) /\ AnswerFits(c) /\ ResultFits(c)

Inductive == TypeOK /\ CallInv /\ OneSeed

USE WalletAssumption DEF Missing

LEMMA InitInductive == Init => Inductive
BY DEF Init, Inductive, TypeOK, CallInv, Asked, AnswerFits, ResultFits, OneSeed, NoRequest,
  NoAnswer, Forms, NoResult, Fingerprints, States, AnswerTypes, Methods

-----------------------------------------------------------------------------
(***************************************************************************)
(* Types.                                                                  *)
(***************************************************************************)
LEMMA MethodsKnown == ASSUME app \in Apps PROVE MethodsOf(app) \subseteq Methods
BY DEF MethodsOf, Methods, BaseMethods

LEMMA SentIsFingerprint ==
  ASSUME TypeOK, NEW o \in MethodsOf(app), NEW xfp \in CallerFingerprints(o)
  PROVE  FingerprintSent(o, xfp) \in Fingerprints
BY MethodsKnown DEF TypeOK, FingerprintSent, CallerFingerprints, Fingerprints, Methods

LEMMA AnswerTyped ==
  ASSUME TypeOK, NEW c \in Calls, request[c].method \in Methods, NEW a \in Answers(request[c])
  PROVE  a \in [type : AnswerTypes, seed : Fingerprints, form : Forms]
<1>1. PICK t \in AnswerTypes, seed \in {active, Missing}, form \in Forms : a = Answer(t, seed, form)
  BY DEF Answers, Refusal, AnswerTypes, Forms, Exports, Signs, Methods
<1>2. seed \in Fingerprints
  BY DEF TypeOK, Fingerprints
<1> QED BY <1>1, <1>2 DEF Answer

LEMMA EndsTyped ==
  ASSUME TypeOK, NEW c \in Calls, NEW how \in States,
         NEW r \in [key : Fingerprints, mfp : Fingerprints], Ends(c, how, r)
  PROVE  /\ state' \in [Calls -> States]
         /\ result' \in [Calls -> [key : Fingerprints, mfp : Fingerprints]]
         /\ answer' \in [Calls -> [type : AnswerTypes, seed : Fingerprints, form : Forms]]
BY DEF TypeOK, Ends, NoAnswer, AnswerTypes, Forms, Fingerprints

\* Begin with its method and the caller's fingerprint.
Begins(c, o, xfp) ==
  /\ state[c] = "idle"
  /\ op' = [op EXCEPT ![c] = o]
  /\ held' = [held EXCEPT ![c] = mfp]
  /\ \/ /\ state' \in {[state EXCEPT ![c] = how] : how \in {"missing mfp", "invalid path"}}
        /\ UNCHANGED request
     \/ /\ o \in Prechecked => mfp # Missing
        /\ request' = [request EXCEPT ![c] = [method |-> o, xfp |-> FingerprintSent(o, xfp)]]
        /\ state' = [state EXCEPT ![c] = "sent"]
  /\ UNCHANGED <<app, mfp, active, switches, answer, result, joined>>

LEMMA TypeBegin ==
  ASSUME TypeOK, NEW c \in Calls, Begin(c)
  PROVE  TypeOK'
<1>1. PICK o \in MethodsOf(app) : \E xfp \in CallerFingerprints(o) : Begins(c, o, xfp)
  BY DEF Begin, Begins
<1>2. PICK xfp \in CallerFingerprints(o) : Begins(c, o, xfp)
  BY <1>1
<1>3. o \in Methods /\ FingerprintSent(o, xfp) \in Fingerprints
  BY MethodsKnown, SentIsFingerprint DEF TypeOK
<1>4. [method |-> o, xfp |-> FingerprintSent(o, xfp)] \in [method : Methods \cup {"none"}, xfp : Fingerprints]
  BY <1>3
<1>5. request' \in [Calls -> [method : Methods \cup {"none"}, xfp : Fingerprints]]
  <2> DEFINE Sent == [method : Methods \cup {"none"}, xfp : Fingerprints]
             sent == [method |-> o, xfp |-> FingerprintSent(o, xfp)]
  <2>1. request' = request \/ request' = [request EXCEPT ![c] = sent]
    BY <1>2 DEF Begins
  <2>2. request \in [Calls -> Sent]
    BY DEF TypeOK
  <2>3. sent \in Sent
    BY <1>4
  <2> HIDE DEF Sent, sent
  <2>4. request' \in [Calls -> Sent]
    BY <2>1, <2>2, <2>3
  <2> QED BY <2>4 DEF Sent
<1>6. state' \in [Calls -> States]
  <2>1. ASSUME NEW how \in {"missing mfp", "invalid path", "sent"},
               state' = [state EXCEPT ![c] = how]
        PROVE  state' \in [Calls -> States]
    BY <2>1 DEF TypeOK, States
  <2> QED BY <1>2, <2>1 DEF Begins
<1> QED BY <1>2, <1>3, <1>5, <1>6 DEF Begins, TypeOK

LEMMA TypeDevice ==
  ASSUME TypeOK, NEW c \in Calls, Asked(c), DeviceAnswers(c)
  PROVE  TypeOK'
<1>1. PICK a \in Answers(request[c]) : answer' = [answer EXCEPT ![c] = a]
  BY DEF DeviceAnswers
<1>2. a \in [type : AnswerTypes, seed : Fingerprints, form : Forms]
  BY AnswerTyped DEF Asked, DeviceAnswers
<1> QED BY <1>1, <1>2 DEF TypeOK, DeviceAnswers, callVars, States

LEMMA TypeFails ==
  ASSUME TypeOK, NEW c \in Calls, Fails(c)
  PROVE  TypeOK'
<1> DEFINE how == IF answer[c].type = "partial" THEN "ERR_UR_INCOMPLETE" ELSE answer[c].type
<1>1. how \in States /\ NoResult \in [key : Fingerprints, mfp : Fingerprints]
  BY DEF Fails, States, NoResult, Fingerprints
<1>2. Ends(c, how, NoResult)
  BY DEF Fails
<1>3. /\ state' \in [Calls -> States]
      /\ result' \in [Calls -> [key : Fingerprints, mfp : Fingerprints]]
      /\ answer' \in [Calls -> [type : AnswerTypes, seed : Fingerprints, form : Forms]]
  BY <1>1, <1>2, EndsTyped
<1> QED BY <1>3 DEF Fails, TypeOK, callVars

LEMMA TypeArrives ==
  ASSUME TypeOK, NEW c \in Calls, AccountArrives(c) \/ SignatureArrives(c) \/ ConfigArrives(c)
  PROVE  TypeOK'
<1>1. answer[c].seed \in Fingerprints /\ Missing \in Fingerprints
  BY DEF TypeOK, Fingerprints
<1>2. \E how \in States, r \in [key : Fingerprints, mfp : Fingerprints] : Ends(c, how, r)
  BY <1>1 DEF AccountArrives, SignatureArrives, ConfigArrives, ReturnedFingerprint,
    MasterFingerprint, States, NoResult
<1>3. /\ state' \in [Calls -> States]
      /\ result' \in [Calls -> [key : Fingerprints, mfp : Fingerprints]]
      /\ answer' \in [Calls -> [type : AnswerTypes, seed : Fingerprints, form : Forms]]
  BY <1>2, EndsTyped
<1>4. mfp' \in Fingerprints
  BY <1>1 DEF AccountArrives, SignatureArrives, ConfigArrives, MasterFingerprint, TypeOK
<1> QED
  BY <1>3, <1>4 DEF AccountArrives, SignatureArrives, ConfigArrives, TypeOK, callVars

LEMMA TypeOthers ==
  ASSUME TypeOK, UserSwitches \/ SetMasterFingerprint \/ JoinAccounts
  PROVE  TypeOK'
<1>1. CASE UserSwitches
  BY <1>1 DEF UserSwitches, TypeOK, callVars
<1>2. CASE SetMasterFingerprint
  <2>1. mfp' \in Fingerprints
    BY <1>2 DEF SetMasterFingerprint, TypeOK, Fingerprints
  <2> QED BY <1>2, <2>1 DEF SetMasterFingerprint, TypeOK, callVars
<1>3. CASE JoinAccounts
  BY <1>3 DEF JoinAccounts, TypeOK, callVars
<1> QED BY <1>1, <1>2, <1>3

-----------------------------------------------------------------------------
(***************************************************************************)
(* Requests, answers and results.                                          *)
(***************************************************************************)
LEMMA CallBegin ==
  ASSUME Inductive, NEW c \in Calls, Begin(c)
  PROVE  CallInv'
<1>1. PICK o \in MethodsOf(app) : \E xfp \in CallerFingerprints(o) : Begins(c, o, xfp)
  BY DEF Begin, Begins
<1>2. PICK xfp \in CallerFingerprints(o) : Begins(c, o, xfp)
  BY <1>1
<1>3. o \in Methods /\ FingerprintSent(o, xfp) \in Fingerprints
  BY MethodsKnown, SentIsFingerprint DEF Inductive, TypeOK
<1>4. PICK how \in {"missing mfp", "invalid path", "sent"} :
        /\ state' = [state EXCEPT ![c] = how]
        /\ how # "sent" => UNCHANGED request
        /\ how = "sent" =>
             /\ o \in Prechecked => mfp # Missing
             /\ request' = [request EXCEPT ![c] = [method |-> o, xfp |-> FingerprintSent(o, xfp)]]
  BY <1>2 DEF Begins
<1>5. ASSUME NEW d \in Calls, d # c
      PROVE  Asked(d)' /\ AnswerFits(d)' /\ ResultFits(d)'
  <2>1. /\ Asked(d) /\ AnswerFits(d) /\ ResultFits(d)
        /\ op'[d] = op[d] /\ state'[d] = state[d] /\ request'[d] = request[d]
        /\ answer'[d] = answer[d] /\ result'[d] = result[d] /\ held'[d] = held[d]
        /\ switches' = switches
    BY <1>2, <1>4, <1>5 DEF Begins, Inductive, TypeOK, CallInv
  <2> QED BY <2>1 DEF Asked, AnswerFits, ResultFits, ForeignAnswer
<1>6. /\ state[c] = "idle" /\ state'[c] = how /\ op'[c] = o /\ held'[c] = mfp
      /\ how # "sent" => request'[c] = request[c] /\ request[c].method = "none"
      /\ how = "sent" => request'[c] = [method |-> o, xfp |-> FingerprintSent(o, xfp)]
  BY <1>2, <1>4 DEF Begins, Inductive, TypeOK, CallInv, Asked
<1>7. Asked(c)'
  <2>1. CASE how # "sent"
    BY <1>3, <1>6, <2>1 DEF Asked
  <2>2. CASE how = "sent"
    <3>1. /\ request'[c].method = o /\ request'[c].xfp = FingerprintSent(o, xfp)
          /\ o \in Prechecked => mfp # Missing
      BY <1>4, <1>6, <2>2
    <3>2. /\ o = "sign" => FingerprintSent(o, xfp) = mfp /\ mfp # Missing
          /\ o = "signFor" => FingerprintSent(o, xfp) \in {mfp} \cup Given /\ mfp # Missing
          /\ o = "signGiven" => FingerprintSent(o, xfp) \in Given
      BY <3>1 DEF FingerprintSent, CallerFingerprints, Prechecked
    <3> QED BY <1>3, <1>6, <2>2, <3>1, <3>2 DEF Asked
  <2> QED BY <2>1, <2>2
<1>8. AnswerFits(c)' /\ ResultFits(c)'
  BY <1>6 DEF AnswerFits, ResultFits
<1> QED BY <1>5, <1>7, <1>8 DEF CallInv

LEMMA CallDevice ==
  ASSUME Inductive, NEW c \in Calls, DeviceAnswers(c)
  PROVE  CallInv'
<1>1. PICK a \in Answers(request[c]) : answer' = [answer EXCEPT ![c] = a]
  BY DEF DeviceAnswers
<1>2. Asked(c) /\ state[c] = "sent" /\ request[c].method = op[c] /\ op[c] \in Methods
  BY DEF Inductive, CallInv, Asked, DeviceAnswers
<1>3. /\ a.type = "account" => op[c] \in Exports \cup {"account"}
      /\ a.type = "signature" => op[c] \in Signs /\ (op[c] # "psbt" => a.seed = request[c].xfp)
      /\ a.type = "mismatch" => op[c] \in Signs \ {"psbt"} /\ request[c].xfp # active
      /\ a.type \in {"flat", "payload"} => op[c] = "config"
  BY <1>2 DEF Answers, Answer, Refusal, Exports, Signs, Methods
<1>4. a.type = "mismatch" => ForeignAnswer(c)
  BY <1>2, <1>3 DEF Inductive, OneSeed, ForeignAnswer, Asked, Signs, TypeOK
<1>5. ASSUME NEW d \in Calls
      PROVE  Asked(d)' /\ AnswerFits(d)' /\ ResultFits(d)'
  <2>1. /\ Asked(d) /\ AnswerFits(d) /\ ResultFits(d)
        /\ op'[d] = op[d] /\ request'[d] = request[d] /\ result'[d] = result[d]
        /\ held'[d] = held[d] /\ switches' = switches
    BY DEF DeviceAnswers, callVars, Inductive, CallInv
  <2>2. /\ d # c => state'[d] = state[d] /\ answer'[d] = answer[d]
        /\ d = c => state'[d] = "answered" /\ answer'[d] = a
    BY <1>1 DEF DeviceAnswers, Inductive, TypeOK
  <2>3. Asked(d)'
    BY <1>2, <2>1, <2>2 DEF Asked
  <2>4. AnswerFits(d)'
    BY <1>3, <1>4, <2>1, <2>2 DEF AnswerFits, ForeignAnswer
  <2>5. ResultFits(d)'
    BY <2>1, <2>2 DEF ResultFits, ForeignAnswer
  <2> QED BY <2>3, <2>4, <2>5
<1> QED BY <1>5 DEF CallInv

\* What is asked of the end of a call, and what it leaves alone.
LEMMA CallEnds ==
  ASSUME Inductive, NEW c \in Calls, NEW how \in States \ {"idle", "sent", "answered"}, NEW r,
         Ends(c, how, r), state[c] = "answered", UNCHANGED <<callVars, switches>>,
         how = "ok" =>
           /\ op[c] \in Exports \cup {"account"} => r.key = r.mfp
           /\ op[c] \in {"sign", "signFor"} => r.key = request[c].xfp,
         how = "mismatch" => ForeignAnswer(c)
  PROVE  CallInv'
<1>1. ASSUME NEW d \in Calls
      PROVE  Asked(d)' /\ AnswerFits(d)' /\ ResultFits(d)'
  <2>1. /\ Asked(d) /\ AnswerFits(d) /\ ResultFits(d)
        /\ op'[d] = op[d] /\ request'[d] = request[d] /\ held'[d] = held[d] /\ switches' = switches
    BY DEF callVars, Inductive, CallInv
  <2>2. /\ d # c => state'[d] = state[d] /\ answer'[d] = answer[d] /\ result'[d] = result[d]
        /\ d = c => state'[d] = how /\ result'[d] = r
    BY DEF Ends, Inductive, TypeOK
  <2>3. Asked(d)'
    BY <2>1, <2>2 DEF Asked
  <2>4. AnswerFits(d)'
    BY <2>1, <2>2 DEF AnswerFits, ForeignAnswer
  <2>5. ResultFits(d)'
    BY <2>1, <2>2 DEF ResultFits, ForeignAnswer, Asked
  <2> QED BY <2>3, <2>4, <2>5
<1> QED BY <1>1 DEF CallInv

LEMMA CallEnding ==
  ASSUME Inductive, NEW c \in Calls,
         Fails(c) \/ AccountArrives(c) \/ SignatureArrives(c) \/ ConfigArrives(c)
  PROVE  CallInv'
<1>1. /\ AnswerFits(c) /\ state[c] = "answered" /\ UNCHANGED <<callVars, switches>>
  BY DEF Inductive, CallInv, Fails, AccountArrives, SignatureArrives, ConfigArrives
<1>2. CASE Fails(c)
  <2> DEFINE how == IF answer[c].type = "partial" THEN "ERR_UR_INCOMPLETE" ELSE answer[c].type
  <2>1. how \in States \ {"idle", "sent", "answered"} /\ Ends(c, how, NoResult)
        /\ how # "ok" /\ (how = "mismatch" => ForeignAnswer(c))
    BY <1>1, <1>2 DEF Fails, States, AnswerFits
  <2> QED BY <1>1, <2>1, CallEnds
<1>3. CASE AccountArrives(c)
  <2> DEFINE r == [key |-> answer[c].seed, mfp |-> ReturnedFingerprint(c)]
  <2>1. op[c] \in Exports \cup {"account"} /\ r.key = r.mfp
    BY <1>1, <1>3 DEF AccountArrives, AnswerFits, ReturnedFingerprint, MasterFingerprint
  <2>2. CASE answer[c].form = "whole"
    <3>1. Ends(c, "ok", r) /\ op[c] \notin {"sign", "signFor"}
      BY <1>3, <2>1, <2>2 DEF AccountArrives, Exports
    <3>2. "ok" \in States \ {"idle", "sent", "answered"}
      BY DEF States
    <3> HIDE DEF r
    <3> QED BY <1>1, <2>1, <3>1, <3>2, CallEnds
  <2>3. CASE answer[c].form # "whole"
    BY <1>1, <1>3, <2>3, CallEnds DEF AccountArrives, States
  <2> QED BY <2>2, <2>3
<1>4. CASE SignatureArrives(c)
  <2> DEFINE r == [key |-> answer[c].seed, mfp |-> Missing]
  <2>1. op[c] \in Signs /\ (op[c] # "psbt" => r.key = request[c].xfp)
    BY <1>1, <1>4 DEF SignatureArrives, AnswerFits
  <2>2. CASE answer[c].form = "whole"
    <3>1. Ends(c, "ok", r) /\ op[c] \notin Exports \cup {"account"}
      BY <1>4, <2>1, <2>2 DEF SignatureArrives, Exports, Signs
    <3>2. "ok" \in States \ {"idle", "sent", "answered"}
      BY DEF States
    <3> HIDE DEF r
    <3> QED BY <1>1, <2>1, <3>1, <3>2, CallEnds
  <2>3. CASE answer[c].form # "whole"
    BY <1>1, <1>4, <2>3, CallEnds DEF SignatureArrives, States
  <2> QED BY <2>2, <2>3
<1>5. CASE ConfigArrives(c)
  <2>1. PICK how \in {"ok", "malformed"}, r \in {NoResult, [key |-> Missing, mfp |-> answer[c].seed]} :
          Ends(c, how, r)
    BY <1>5 DEF ConfigArrives
  <2> QED BY <1>1, <1>5, <2>1, CallEnds DEF ConfigArrives, States, Exports
<1> QED BY <1>2, <1>3, <1>4, <1>5

LEMMA CallOthers ==
  ASSUME Inductive, UserSwitches \/ SetMasterFingerprint \/ JoinAccounts
  PROVE  CallInv'
<1>1. /\ UNCHANGED <<callVars, state, answer, result>>
      /\ switches' = switches \/ switches' > 0
  BY DEF UserSwitches, SetMasterFingerprint, JoinAccounts, Inductive, TypeOK
<1>2. ASSUME NEW d \in Calls
      PROVE  Asked(d)' /\ AnswerFits(d)' /\ ResultFits(d)'
  BY <1>1 DEF Inductive, CallInv, callVars, Asked, AnswerFits, ResultFits, ForeignAnswer
<1> QED BY <1>2 DEF CallInv

-----------------------------------------------------------------------------
(***************************************************************************)
(* Fingerprints before the first switch.                                   *)
(***************************************************************************)
LEMMA OneSeedStep ==
  ASSUME Inductive, Next
  PROVE  OneSeed'
<1> SUFFICES ASSUME switches' = 0
             PROVE  /\ mfp' \in Given \cup {Missing, active'}
                    /\ \A c \in Calls : /\ request'[c].xfp \in Given \cup {Missing, active'}
                                        /\ answer'[c].seed \in {Missing, active'}
                                        /\ result'[c].mfp \in {Missing, active'}
  BY DEF OneSeed
<1>1. ~UserSwitches
  BY DEF UserSwitches, Inductive, TypeOK
<1>2. CASE SetMasterFingerprint \/ JoinAccounts
  BY <1>2 DEF SetMasterFingerprint, JoinAccounts, callVars, Inductive, OneSeed
<1>3. ASSUME NEW c \in Calls, Begin(c)
      PROVE  /\ switches = 0 /\ active' = active /\ mfp' = mfp
             /\ UNCHANGED <<answer, result>>
             /\ \A d \in Calls : request'[d].xfp \in Given \cup {Missing, active}
  <2>1. PICK o \in MethodsOf(app) : \E xfp \in CallerFingerprints(o) : Begins(c, o, xfp)
    BY <1>3 DEF Begin, Begins
  <2>2. PICK xfp \in CallerFingerprints(o) : Begins(c, o, xfp)
    BY <2>1
  <2>3. switches = 0 /\ active' = active /\ mfp' = mfp /\ UNCHANGED <<answer, result>>
    BY <2>2 DEF Begins
  <2>4. FingerprintSent(o, xfp) \in Given \cup {Missing, active}
    BY <2>3 DEF FingerprintSent, CallerFingerprints, Inductive, OneSeed
  <2>5. request' = request
        \/ request' = [request EXCEPT ![c] = [method |-> o, xfp |-> FingerprintSent(o, xfp)]]
    BY <2>2 DEF Begins
  <2>6. \A d \in Calls : request'[d].xfp \in Given \cup {Missing, active}
    BY <2>3, <2>4, <2>5 DEF Inductive, OneSeed, TypeOK
  <2> QED BY <2>3, <2>6
<1>4. ASSUME NEW c \in Calls, DeviceAnswers(c)
      PROVE  /\ switches = 0 /\ active' = active /\ mfp' = mfp
             /\ UNCHANGED <<request, result>>
             /\ \A d \in Calls : answer'[d].seed \in {Missing, active}
  <2>1. PICK a \in Answers(request[c]) : answer' = [answer EXCEPT ![c] = a]
    BY <1>4 DEF DeviceAnswers
  <2>2. switches = 0 /\ active' = active /\ mfp' = mfp /\ UNCHANGED <<request, result>>
    BY <1>4 DEF DeviceAnswers, callVars
  <2>3. request[c].method \in Methods
    BY <1>4 DEF DeviceAnswers, Inductive, CallInv, Asked
  <2>4. a.seed \in {Missing, active}
    BY <2>3 DEF Answers, Answer, Refusal, Exports, Signs, Methods
  <2> QED BY <2>1, <2>2, <2>4 DEF Inductive, OneSeed, TypeOK
<1>5. ASSUME NEW c \in Calls,
             Fails(c) \/ AccountArrives(c) \/ SignatureArrives(c) \/ ConfigArrives(c)
      PROVE  /\ switches = 0 /\ active' = active /\ request' = request
             /\ mfp' \in {mfp, answer[c].seed}
             /\ \A d \in Calls : answer'[d].seed \in {Missing, active} /\ result'[d].mfp \in {Missing, active}
  <2>1. switches = 0 /\ active' = active /\ request' = request
    BY <1>5 DEF Fails, AccountArrives, SignatureArrives, ConfigArrives, callVars
  <2>2. mfp' \in {mfp, answer[c].seed}
    BY <1>5 DEF Fails, AccountArrives, SignatureArrives, ConfigArrives, MasterFingerprint
  <2>3. \E how, r : r.mfp \in {Missing, answer[c].seed} /\ Ends(c, how, r)
    <3> NoResult.mfp = Missing
      BY DEF NoResult
    <3>1. CASE Fails(c)
      BY <3>1 DEF Fails
    <3>2. CASE AccountArrives(c)
      BY <3>2 DEF AccountArrives, ReturnedFingerprint, MasterFingerprint
    <3>3. CASE SignatureArrives(c)
      BY <3>3 DEF SignatureArrives
    <3>4. CASE ConfigArrives(c)
      BY <3>4 DEF ConfigArrives
    <3> QED BY <1>5, <3>1, <3>2, <3>3, <3>4
  <2> QED BY <2>1, <2>2, <2>3 DEF Inductive, OneSeed, TypeOK, Ends, NoAnswer
<1> QED BY <1>1, <1>2, <1>3, <1>4, <1>5 DEF Next, Inductive, OneSeed

-----------------------------------------------------------------------------
(***************************************************************************)
(* The theorems.                                                           *)
(***************************************************************************)
LEMMA StepInductive == Inductive /\ [Next]_vars => Inductive'
<1> SUFFICES ASSUME Inductive, [Next]_vars PROVE Inductive'
  OBVIOUS
<1>1. CASE Next
  <2>1. TypeOK'
    BY <1>1, TypeBegin, TypeDevice, TypeFails, TypeArrives, TypeOthers DEF Next, Inductive, CallInv
  <2>2. CallInv'
    BY <1>1, CallBegin, CallDevice, CallEnding, CallOthers DEF Next
  <2> QED BY <1>1, <2>1, <2>2, OneSeedStep DEF Inductive
<1>2. CASE UNCHANGED vars
  BY <1>2 DEF vars, callVars, Inductive, TypeOK, CallInv, Asked, AnswerFits, ResultFits,
    ForeignAnswer, OneSeed
<1> QED BY <1>1, <1>2

LEMMA AlwaysInductive == Spec => []Inductive
BY InitInductive, StepInductive, PTL DEF Spec

\* For every number of calls, seeds and switches the variables keep their types.
THEOREM TypeCorrect == Spec => []TypeOK
BY AlwaysInductive, PTL DEF Inductive

\* A key and a fingerprint that a method returns are of one seed, however exports overlap.
THEOREM ExportsAgree == Spec => []ExportPairsAgree
<1>1. Inductive => ExportPairsAgree
  BY DEF Inductive, CallInv, ResultFits, ExportPairsAgree
<1> QED BY <1>1, AlwaysInductive, PTL

\* A request to sign carries the fingerprint held when it was made or the caller's, and what
\* comes back is signed by the seed it names.
THEOREM SignsAsHeld == Spec => []SignsUnderHeldFingerprint
<1>1. Inductive => SignsUnderHeldFingerprint
  BY DEF Inductive, CallInv, Asked, ResultFits, SignsUnderHeldFingerprint
<1> QED BY <1>1, AlwaysInductive, PTL

\* The device refuses the cached fingerprint only after its user has switched seeds.
THEOREM MismatchMeansSwitch == Spec => []MismatchNeedsSwitch
<1>1. Inductive => MismatchNeedsSwitch
  BY DEF Inductive, CallInv, ResultFits, ForeignAnswer, MismatchNeedsSwitch
<1> QED BY <1>1, AlwaysInductive, PTL

\* Nothing but a completed export, or the application itself, changes the fingerprint.
THEOREM OnlyExportsSetFingerprint == Spec => FingerprintChangesByExport
<1> DEFINE Allowed ==
      mfp' # mfp =>
        \/ SetMasterFingerprint
        \/ \E c \in Calls :
             /\ op[c] \in Exports /\ state[c] = "answered" /\ answer[c].type = "account"
             /\ state'[c] # "answered" /\ mfp' = answer[c].seed
             /\ op[c] = "versionedExport" => state'[c] = "ok"
<1>1. Inductive /\ [Next]_vars => [Allowed]_vars
  <2> SUFFICES ASSUME Inductive, Next, mfp' # mfp, ~SetMasterFingerprint
               PROVE  Allowed
    BY DEF vars
  <2>1. PICK c \in Calls : AccountArrives(c)
    BY DEF Next, UserSwitches, JoinAccounts, Begin, DeviceAnswers, Fails, SignatureArrives, ConfigArrives
  <2>2. SetsFingerprint(c) /\ mfp' = answer[c].seed /\ state[c] = "answered" /\ answer[c].type = "account"
    BY <2>1 DEF AccountArrives, MasterFingerprint
  <2>3. state'[c] = IF answer[c].form = "whole" THEN "ok" ELSE "malformed"
    BY <2>1 DEF AccountArrives, Ends, Inductive, TypeOK
  <2> QED BY <2>2, <2>3 DEF SetsFingerprint
<1> QED BY <1>1, AlwaysInductive, PTL DEF Spec, FingerprintChangesByExport

(***************************************************************************)
(* Accounts that were put together stay those of calls that are over.      *)
(***************************************************************************)
JoinInv ==
  /\ \A c \in joined : state[c] = "ok" /\ op[c] = "account"
  /\ \A c, d \in joined : result[c].mfp = result[d].mfp

LEMMA OneFingerprintIsOne ==
  ASSUME NEW S \in SUBSET Calls, OneFingerprint(S), NEW c \in S, NEW d \in S
  PROVE  result[c].mfp = result[d].mfp
<1> DEFINE F == {result[e].mfp : e \in S}
<1>1. IsFiniteSet(S)
  BY FS_Subset
<1>2. [e \in S |-> result[e].mfp] \in Surjection(S, F)
  BY DEF Surjection
<1>3. IsFiniteSet(F)
  BY <1>1, <1>2, FS_Surjection
<1>4. \E x : F = {x}
  BY <1>3, FS_Singleton DEF OneFingerprint
<1> QED BY <1>4

LEMMA FinishedStays ==
  ASSUME Inductive, [Next]_vars, NEW c \in Calls, state[c] = "ok"
  PROVE  state'[c] = "ok" /\ op'[c] = op[c] /\ result'[c] = result[c]
<1>1. ASSUME NEW d \in Calls, Begin(d)
      PROVE  state'[c] = "ok" /\ op'[c] = op[c] /\ result'[c] = result[c]
  <2>1. PICK o \in MethodsOf(app) : \E xfp \in CallerFingerprints(o) : Begins(d, o, xfp)
    BY <1>1 DEF Begin, Begins
  <2>2. PICK xfp \in CallerFingerprints(o) : Begins(d, o, xfp)
    BY <2>1
  <2> QED BY <2>2 DEF Begins, Inductive, TypeOK
<1>2. ASSUME NEW d \in Calls, DeviceAnswers(d)
      PROVE  state'[c] = "ok" /\ op'[c] = op[c] /\ result'[c] = result[c]
  BY <1>2 DEF DeviceAnswers, callVars, Inductive, TypeOK
<1>3. ASSUME NEW d \in Calls, Fails(d) \/ AccountArrives(d) \/ SignatureArrives(d) \/ ConfigArrives(d)
      PROVE  state'[c] = "ok" /\ op'[c] = op[c] /\ result'[c] = result[c]
  BY <1>3 DEF Fails, AccountArrives, SignatureArrives, ConfigArrives, Ends, callVars, Inductive, TypeOK
<1>4. CASE UserSwitches \/ SetMasterFingerprint \/ JoinAccounts \/ UNCHANGED vars
  BY <1>4 DEF UserSwitches, SetMasterFingerprint, JoinAccounts, vars, callVars
<1> QED BY <1>1, <1>2, <1>3, <1>4 DEF Next

LEMMA JoinStep == Inductive /\ JoinInv /\ [Next]_vars => JoinInv'
<1> SUFFICES ASSUME Inductive, JoinInv, [Next]_vars PROVE JoinInv'
  OBVIOUS
<1>1. joined \subseteq Calls
  BY DEF Inductive, TypeOK
<1>2. CASE JoinAccounts
  <2>1. PICK S \in SUBSET {c \in Calls : op[c] = "account" /\ state[c] = "ok"} :
          OneFingerprint(S) /\ joined' = S
    BY <1>2 DEF JoinAccounts
  <2>2. \A c, d \in S : result[c].mfp = result[d].mfp
    BY <2>1, OneFingerprintIsOne
  <2> QED BY <1>2, <2>1, <2>2 DEF JoinAccounts, JoinInv, callVars
<1>3. CASE ~JoinAccounts
  <2>1. joined' = joined
    BY <1>3 DEF Next, UserSwitches, SetMasterFingerprint, Begin, DeviceAnswers, Fails, AccountArrives,
      SignatureArrives, ConfigArrives, vars
  <2> QED BY <1>1, <2>1, FinishedStays DEF JoinInv
<1> QED BY <1>2, <1>3

\* Accounts that were put together are of one seed, whenever each of them was exported.
THEOREM JoinsOneSeed == Spec => []JoinedOfOneSeed
<1>1. Init => JoinInv
  BY DEF Init, JoinInv
<1>2. Inductive /\ JoinInv => JoinedOfOneSeed
  BY DEF Inductive, TypeOK, CallInv, ResultFits, JoinInv, JoinedOfOneSeed
<1> QED BY <1>1, <1>2, JoinStep, AlwaysInductive, PTL DEF Spec
=============================================================================
