--------------------------- MODULE RequestResponse ---------------------------
(***************************************************************************)
(* What send() promises its callers: a call is issued, it may be given a   *)
(* name under which the device sees its request, and it settles exactly    *)
(* once.  It settles with a verdict of the device only when the device     *)
(* has given that verdict to a request of that name; otherwise it fails.   *)
(* The device may decide on a request long after its call has failed.      *)
(***************************************************************************)
CONSTANTS
  Calls,      \* calls of send()
  Names,      \* names a request can bear
  Verdicts,   \* what the device can answer
  Failures,   \* how a call can fail without an answer
  NoOutcome   \* neither

VARIABLES
  phase,      \* phase[c] is "idle", "pending" or "settled"
  name,       \* name[c]: {} or the one name the request of c bears
  verdict,    \* the device's decision on c's request, or NoOutcome
  outcome     \* how c settled, or NoOutcome

vars == <<phase, name, verdict, outcome>>

Init ==
  /\ phase = [c \in Calls |-> "idle"]
  /\ name = [c \in Calls |-> {}]
  /\ verdict = [c \in Calls |-> NoOutcome]
  /\ outcome = [c \in Calls |-> NoOutcome]

Issue(c) ==
  /\ phase[c] = "idle"
  /\ phase' = [phase EXCEPT ![c] = "pending"]
  /\ UNCHANGED <<name, verdict, outcome>>

Name(c) ==
  /\ phase[c] = "pending"
  /\ name[c] = {}
  /\ \E n \in Names : name' = [name EXCEPT ![c] = {n}]
  /\ UNCHANGED <<phase, verdict, outcome>>

Decide(c) ==
  /\ name[c] # {}
  /\ verdict[c] = NoOutcome
  /\ \E v \in Verdicts : verdict' = [verdict EXCEPT ![c] = v]
  /\ UNCHANGED <<phase, name, outcome>>

\* The verdicts on the requests that bear c's name.
VerdictsFor(c) == {verdict[d] : d \in {e \in Calls : name[e] = name[c] /\ name[e] # {}}}

Settle(c) ==
  /\ phase[c] = "pending"
  /\ phase' = [phase EXCEPT ![c] = "settled"]
  /\ \E o \in Failures \cup (VerdictsFor(c) \ {NoOutcome}) :
       outcome' = [outcome EXCEPT ![c] = o]
  /\ UNCHANGED <<name, verdict>>

Next == \E c \in Calls : Issue(c) \/ Name(c) \/ Decide(c) \/ Settle(c)

Spec == Init /\ [][Next]_vars
=============================================================================
