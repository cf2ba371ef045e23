# A TLA+ model of the Keystone USB SDK

The SDK lets a web page or a Node.js program talk to a Keystone hardware wallet over
USB. This directory holds TLA+ modules that model it, the TLC configurations that check
them, and theorems that TLAPS proves. Paths below are relative to `packages/` unless they
begin with `docs/`.

## 1. Inventory

| component | code | state it keeps | operations |
|---|---|---|---|
| EAPDU framing | `hw-transport-usb/src/frame.ts`, `helper.ts`, `constants.ts` | none | `encode`, `decode`, `generateRequestID` |
| USB transport | `hw-transport-webusb/src/webusb.ts`, `hw-transport-nodeusb/src/nodeusb.ts` | the device object (`opened`, configuration, claimed interface); in each call: request ID, packets left, packets received, timeout, race | `send`, `receive`, module functions `open`, `close` |
| Connection | same files | the chosen device, the permitted devices, a disconnect listener | `requestPermission`, `connect`, `createKeystoneTransport`, `transport.open`, `transport.close` |
| Transport errors | `hw-transport-error/src` | none | status codes and texts |
| Wallet applications | `hw-app-base`, `-eth`, `-sol`, `-cosmos`, `-tron`, `-avalanche`, `-bitcoin` | `mfp`, the master fingerprint of the seed the keys were exported from | export of keys, signing, `getAppConfig`, `setMasterFingerprint`, joining of accounts |
| Cardano session | `hw-app-ada/src/node/index.ts` (`browser/index.ts` is the same but for an import) | key cache, `mfp` | `initAda`, key export, address derivation, signing |
| Cardano request parsing | `hw-app-ada/src/parsing`, `utils`, `keystoneUtils.ts` | none | validation of transactions per signing mode, of messages, votes, operational certificates, native scripts, addresses and key paths |
| Cardano transaction building | `hw-app-ada/src/node/index.ts` | none | conversion of a validated request to the library's transaction, choice of the signers |

**Interaction.** An application object calls `transport.send(action, data)` for each
operation. `send` opens the device, frames the data into packets, transfers them, waits for
the response packets (or for a timeout) and closes the device. One device object is shared
by all calls on a transport, and nothing serialises them. The device has a user, who may
take any time to approve or refuse. The applications add a second kind of shared
state: a fingerprint cached at the first export and sent with every later request.

**What is hard.**

* *Promise.race does not cancel.* When the timeout wins, the part of the call that transfers
  data goes on, opens the device again when it meets a packet that is not its own, and
  competes with later calls.
* *Calls overlap.* The `finally` of one call closes the device under another; the reset in
  `open` drops what the device has queued for somebody else.
* *Late responses.* The response to a call that has timed out is still queued. Only the command
  and a random request ID tell it from the response to the next call.
* *Partial failure.* `close` gives up at the first operation that fails; `open` undoes itself
  only if the claim fails.
* *The device may leave the bus* between any two operations.
* *Boundaries of the framing*: empty data, data of exactly a packet, a text cut within a
  character.
* *Check, then use*: `connect` lists the permitted devices twice, and the device may leave in between.
* *Stale identity*: the user may switch the wallet to another seed after the fingerprint was
  cached; an export that fails half way leaves half a cache; `signTransaction` reads the
  fingerprint again after an await.
* *Rules per signing mode*: one certificate, output or vote that slips through is signed in the wrong role.
* *Numbers as texts*: amounts are compared by length and digits, at the ends of the 64-bit ranges.

**What makes each component correct.**

* Framing: no byte lost, repeated or misplaced; the response is put together whatever the order.
* Transport: an answer is the whole response to the call's own request; a call settles once,
  and returns; the device is closed at rest; a call leaves nothing for the next one.
* Connection: a transport that is returned has a device; what was opened to ask for permission is
  closed again; a listener hears of its own device.
* Wallet applications and Cardano session: a signing request never carries the fingerprint of one
  seed with keys of another; every operation that needs the fingerprint refuses without it.
* Cardano parsing: a request accepted in a signing mode satisfies that mode's rules, and
  conversion drops nothing of what was accepted.

`PROJECT.json` lists the hazards one by one, each at its line.

## 2. The modules

| module | models | kind |
|---|---|---|
| `Eapdu` | `frame.ts`: `encode`, `decode` and their helpers | operators |
| `EapduExchange` | a request framed, a response framed by the device, its packets arriving in any order | state machine over `Eapdu` |
| `UsbTransport` | `send`, `#send`, `receive`, `open`, `close` of both transports, the device and the bus | state machine |
| `RequestResponse` | what `send` promises, without USB | abstract specification |
| `TransportConnect` | how an application comes by a transport, and what becomes of it when devices come and go | state machine |
| `WalletApp` | an application object of the six packages other than Cardano's, and a device with several seeds | state machine |
| `AdaValues` | `utils/parse.ts`: numbers, hex strings, paths, and how a parser fails | operators |
| `AdaOutputs`, `AdaCertificates` | addresses, outputs, token bundles, auxiliary data; pools and certificates | operators |
| `AdaTypes` | `types/public.ts`: the types of requests, as far as the parsers rely on them | predicates |
| `AdaReasons` | `errors/invalidDataReason.ts`: why a request is refused | sets |
| `AdaTransaction` | `parsing/transaction.ts`: the transaction and the five signing modes | operators |
| `AdaOtherRequests` | messages, CIP-36 votes, operational certificates, native scripts, key paths | operators |
| `AdaRequest` | the requests a caller may make and the verdict of their parser | state machine over the parsers |
| `AdaTxBuild` | what an accepted transaction is turned into, with which signers and which public keys | operators |
| `AdaSession` | an `Ada` object: fingerprint, key cache and overlapping calls | state machine over `AdaTxBuild` |
| `MC...` | instances for TLC | |
| `UsbTransportProofs`, `UsbAnswerProofs` | theorems about `UsbTransport` | proofs |
| `EapduProofs` | theorems about `EapduExchange` | proofs |
| `TransportConnectProofs`, `WalletAppProofs` | theorems about the modules they name | proofs |
| `AdaParserProofs` | what acceptance by a parser implies | proofs |
| `AdaRequestProofs`, `AdaSessionProofs` | theorems about `AdaRequest` and `AdaSession` | proofs |

`UsbTransport` shows that a call fails or yields the device's answer to it; `TransportConnect` says where its device
comes from. `WalletApp` and `AdaSession` stand on that promise: a request is answered by the
device, as it is when it answers, or the call fails. `AdaSession` composes the session with the parsers and with
`AdaTxBuild`: its requests are parsed by the operators that `AdaRequest` checks.

### 2.1 `UsbTransport` and the code

Each call of `send` is two threads. `Sender(c)` is the body of `send`: opening, waiting in
`Promise.race`, closing in `finally`. `Request(c)` is the promise `sendRequest`: the
loop of `transferOut`, then `receive`. They are threads of their own because the race does not
stop `sendRequest`.

JavaScript runs from one `await` to the next without interruption, so an action is the completion
of one USB operation with all code up to the next `await`. `pc[t]` names the operation awaited:

| `pc` | awaited operation |
|---|---|
| `open`, `select`, `reset`, `claim` | the four operations of `open(device)` |
| `uRelease`, `uReset`, `uClose` | the `close(device)` that `open` makes when the claim fails |
| `fRelease`, `fReset`, `fClose` | the `close(device)` in `send`'s `finally` |
| `race` | `Promise.race` in `#send` |
| `out`, `in` | `transferOut`, `transferIn` |
| `refused` | a transfer that was asked for without a claimed interface |

`CloseResets` tells the transports apart: `close` of `webusb.ts` resets the device between
releasing and closing, `close` of `nodeusb.ts` does not. `gracefullyResetDevice` swallows errors,
so `ResetFails` goes on like `DeviceResets`.

The device is external and modelled as generously as WebUSB allows:

* an operation that opens, resets, claims, releases or closes may be rejected while another thread
  has such an operation under way (`Contended`), and for any reason named in `Faults`;
* reset, release and close abort the transfers in flight; a transfer that was complete may still
  resolve after the abort;
* a reset drops any number of the oldest packets the device has queued, and may drop the requests it
  has not answered;
* an answer comes at any time after the request is complete, or never; the device may be unplugged
  at any time, and that closes the handle.

A packet carries the fields the code looks at (command, request ID, packet count, index, status) and
`of`, the request it answers, which stands for its data. The code never reads `of`; only
properties do. `verdict` is a history variable: what the device decided.

The branch of `#send` for a device that is not open after `open()` succeeded
(`ERR_DEVICE_NOT_OPENED`) is in `BeginRequest` and is never taken: `opened` is checked in the same
step in which the claim completes.

Abstractions: data and texts are not modelled, nor is `JSON.parse` of the answer; the timeout is a
timer that may fire at any time while it is armed; `device` is never undefined
(that belongs to `TransportConnect`).

### 2.2 `RequestResponse`

A call is issued, gets a name (command and request ID), and settles once: with a failure, or with a
verdict of the device on a request *of that name*. Two calls may draw the same name, and the code
cannot tell them apart; the abstract specification says exactly that much and no more.
`ImplementsPromise` in `UsbTransport` is this specification under a refinement mapping: `phase` from
`outcome` and `pc`, `name` from `requestID`.

### 2.3 `Eapdu`

Packets are sequences of cells: five header fields, data bytes, and for a response a status. The
header cells of two bytes are one cell each, so a header has 5 cells instead of 9 bytes; the
conditions on lengths are translated accordingly. Bytes are ASCII characters or one of the halves
of a two-byte character, since `dataParser` runs a decoder on each packet by itself. 16-bit
fields wrap at `UINT16`. `EapduExchange` frames a request, lets the device (external) frame a response in
the same layout, and delivers its packets in any order to `decode`.

### 2.4 `TransportConnect`

A flow is one call of `requestPermission`, `connect`, `createKeystoneTransport` or the bitcoin application's
`createWithUSBTransport`, followed by the `open` and `close` of the transport it returned. `pc[f]` names what it
awaits:

| `pc` | awaited operation |
|---|---|
| `list0`, `list1`, `list2` | the listings of permitted devices by `createWithUSBTransport`, by `isSupported` and by `connect` |
| `pPick`, `cPick`, `tPick` | the device chooser under `requestPermission`, `connect`, the transport's `open` |
| `pOpen` ... `pClose` | `open` and `close` under `requestPermission` |
| `tOpen` ... `tClose`, `cClose` | those of the transport, and the `close` with which `createKeystoneTransport` ends |

A listing resolves (`TakeList`) and is read (`FirstList`, `SupportList`, `ConnectToListed`, `SeveralListed`) in two steps, so that a
device can be unplugged between what the browser saw and what the code does with it. Devices are plugged in and
unplugged at any time; a device that is plugged in again is another device object. The disconnect event is delivered some time after
the unplugging. `Faults` are the operations that may fail by themselves; besides, an operation may be
refused while another flow has one in progress on the same device. `seen` and `blame` are history variables: what
`isSupported` found, and the handles that a failed operation left open.

### 2.5 `WalletApp`

Every method has one await, of the request to the device. `Begin` is the code before it: the path check, the
precheck and the fingerprint put into the request. `AccountArrives`, `SignatureArrives`, `ConfigArrives` and `Fails` are the
code after it. `MethodsOf` and a few operators over the package (`FingerprintSent`, `SetsFingerprint`,
`ReturnedFingerprint`, `Shape`) hold the differences between the packages. A seed stands for its fingerprint and for its
keys: the properties only ask whether two things are of one seed. The device signs with its active seed and refuses a request
that names another fingerprint; its user may switch (`MaxSwitches` bounds how often). `held` is a history variable.

### 2.6 The Cardano parsers

A parser is an operator that gives the `InvalidDataReason` the code throws, or `OK`. `Verdict` takes the checks of a parser as a
sequence in the order of the code and gives the first failure, as the first `throw` does. Values are kept as what the code
tests: a hex string is its length and whether its characters are hex digits; an integer the smallest width it fits; an amount
or a hex text that is compared with another one is a sequence of digits, since the comparisons of texts are what may go wrong.
What a parser returns besides is the request itself, with its texts brought to a normal form.

The types of the requests are `AdaTypes`. They leave open what a parser checks itself and say what it takes for granted: which fields there are,
that an optional one is absent or a value, that an enumeration whose `switch` ends in `unreachable()` has one of its values.
The widths of numbers, the digits of texts, the indexes of paths and the other enumerations are not restricted by them.

`AdaTransaction` has one operator for each signing mode (`OrdinaryMode`, `MultisigMode`, `OwnerMode`,
`OperatorMode`, `PlutusMode`), and `ModeVerdict` is the switch over them. `AdaRequest` makes them a state machine with one
action for each method; a transaction is a base transaction with any two of its fields replaced.

### 2.7 `AdaTxBuild` and `AdaSession`

`AdaTxBuild` follows `convertToCSLTransaction` and the `prepare` functions. What it keeps of a built transaction is which
parts it has, the datum and reference script of each output, and for each certificate its kind, the paths whose keys it carries and the number of its relays. `PublicKey` is
`getPublicKeyHex`: it searches the cache for an entry whose text is part of the path's text and derives along the last two
indexes of the path.

In `AdaSession` a call is a record: how far it is, what it has sent, what it has read and not stored yet. A step is the code
between two requests to the device; `initAda` and `signTransaction` have two, `signMessage` with an address that needs
the device two. The cache holds all keys of one seed or none, because `initAda` stores them together. A call that has ended
is idle again, so the two calls of the instance are any number of calls of which two overlap. `clean` is a history
field: nothing of another seed was in flight when the call began, and the user has not switched since.

## 3. The runs

| run | question | bounds |
|---|---|---|
| `usb_concurrent` | two overlapping calls on `nodeusb.ts`: whole answers, closed at rest, no request outlives its call but by a timeout, the request/response promise | two calls of one command, the first with two packets each way, the second with one out and two in, two request IDs, unplugging, babble and bad statuses |
| `usb_sequential` | calls one after the other on `webusb.ts`: they succeed on a sound device and leave nothing behind; a settled call stays settled | four calls of two commands, one with more packets than allowed and one with none, one request ID, unplugging |
| `usb_liveness` | every call returns | two overlapping calls of one packet each way, one request ID, unplugging |
| `usb_request_id` | violation: is the request ID unique? | two calls one after the other, two IDs |
| `usb_timeout` | violation: does waiting end with the timeout? | calls one after the other, a transfer may come back empty |
| `eapdu_framing` | `encode` and `decode` at the boundaries, packets in any order | packets of two bytes, texts to six bytes, byte arrays to five |
| `eapdu_multibyte` | violation: is every text decoded as it was sent? | the same |
| `connect` | how a transport comes to be without a device, what is left open, who hears of a disconnection | one call of any function beside one `connect`, on both hosts, two devices, one of them with another product id, failing `selectConfiguration` and `close` |
| `wallet` | which fingerprint a request carries, and which one is returned and kept | three overlapping calls on one object of each package, two seeds, one switch, one fingerprint the application brings; the calls are symmetric |
| `ada_request` | what acceptance of a Cardano request implies | two base transactions, every pair of alternatives of their fields, five modes and an unknown one; amounts around 2^63 and 2^64; native scripts one level deep |
| `ada_session` | fingerprint, key cache, keys and signers of what is sent | two overlapping calls of any method, two seeds, any number of switches, a path in the cached account, one outside and one too long, each family of certificates, a pool registration sent for an owner and one refused; the calls are symmetric |
| `ada_sent` | violation: is a transaction sent as it was asked for? | one call |

**Why the bounds are enough.** Two calls give every kind of interference the code has, because every
test it makes concerns one call and the device. A response of two packets is the shortest that can
be incomplete or mixed, and a request of two packets the shortest that can be cut off. Two request IDs allow
both a collision and none. Four sequential calls put a failed call before, between and
after successful ones. In the framing, three packets give all orders that matter to a stable sort,
and texts end before, at and behind a packet's end.

In `connect` a second flow is enough to refuse an operation, to open a device under another flow and to
hear an event that is not its own; two devices are enough for a list with a choice and for an unplugged device with another
behind it. `wallet` needs three calls for an export that overlaps two others, one of which writes the
fingerprint between its answer and its return; one switch gives a stale fingerprint, and a second one only swaps the seeds. `sol` is left out of the
instance because `MethodsOf` and all operators treat it as `eth`. In `ada_request` the rules of a mode look at one field each, or relate two;
hence pairs of fields. `ada_session` bounds no counter: its calls end and begin anew. The proofs below hold for all
values of the constants.

Deadlock checking is off where the calls are finite in number, and nothing needs to happen when all have
returned. In `ada_session` and `ada_sent`, whose calls never run out, it is on.

**Fairness.** `FairSpec` assumes that an operation on the device handle completes or fails (WF of
`OpenOrClose`, each thread), that an armed timer fires (WF of `TimeoutFires`), and that an aborted or
refused transfer settles (WF of the transfers while `Interrupted`). These are what the runtime and the
USB stack owe the program. Nothing is assumed of the device or of its user: a transfer in flight may
wait for ever. `EveryCallReturns` holds all the same, because the timeout is armed before the first transfer.

`TransportConnect` assumes one thing: an event that has occurred is delivered (WF of `EventDelivered`, each device), which is what a browser
does with its event queue. Nothing is assumed of the flows. The other specifications state no fairness and check no liveness.

**What the runs show.**

* An answer is always the whole response to a request with the caller's command and request
  ID, however calls overlap. With an ID of its own it is the response to the caller's request
  (`WholeAnswer`).
* Without a timeout the device is closed at rest, even for overlapping calls. With a timeout it may stay open: the
  request that goes on can open it after its call has closed it.
* Overlapping calls do fail for no fault of the device: one closes the handle under the other, which
  then gets a rejection or `null` from `receive`. Sequential calls do not (`SequentialCallsSucceed`), and the SDK's
  own example makes calls one at a time.

* `connect` returns a transport without a device in one case only: on the web, when every device `isSupported` had
  found was unplugged before the second listing (`NoDeviceOnlyAfterUnplug`). Such a transport has no listener either.
* At rest no device is open, but where `selectConfiguration` failed, which `open` does not undo, or `close` did, which is
  swallowed (`RestIsClosed`).
* Whatever exports overlap, a method returns a key and a fingerprint of one seed, because it returns what it has read and not what
  the object holds by then (`ExportPairsAgree`). A signature that succeeds is by the seed named in its request; the cached fingerprint is refused only
  after a switch.
* Every pool registration has one role: the owner's mode and the operator's exclude each other and all others, and what the operator may sign every owner
  can sign (`OwnersCanSign`), which is the reason the code gives for its restrictions. What the owner's mode leaves the device besides the key of one
  owner is named: the reward account of the pool, the paths of a CIP-36 registration and the additional witnesses (`OwnerAddsOneShare`).
* A transaction is sent with the signers its certificates need, pool registrations apart, and with none the request does not name; for an owner of a
  pool with none but the reward account and the additional witnesses (`SignersOfRequest`).
* Fees and amounts of tokens are the 64-bit numbers they are said to be, within the limits noted below; margins are at most one; bundles are canonical.
* A transaction is sent with the fingerprint read for it, although `this.mfp` is read again after the await; `initAda` restores the session after a switch.
* The public key put under a path is the key of that path: the derivation along the last two indexes is right only because no
  parser lets a path of more than five indexes pass (`KeyOfPath`).

**Findings** (four violation runs, with the documents they contradict quoted in `PROJECT.json`):

1. `usb_request_id`: the request ID is said to be unique; it is a fresh random number each time. After a timeout a
   second call may draw the ID of the first and take the late response to the first for its own.
2. `usb_timeout`: the timeout is said to bound the wait. If it fires while `receive` re-opens the
   device, `send`'s own close is refused, the request claims the interface again and waits for ever.
3. `eapdu_multibyte`: a character whose bytes fall into two packets is lost.
4. `ada_sent`: an accepted transaction is sent without its withdrawals; so are mint, auxiliary data, required signers,
   votes and the other parts that `convertToCSLTransaction` does not copy.

**Also observed** while translating, in the model where it has the detail, and without a run of their own:

* `getExtendedPublicKeys` passes over an accepted path that has no key schema and returns the keys by position, so those
  behind it belong to other paths (`node/index.ts` 371-466). The doc there allows ten indexes in a path; the parser takes five.
* Only the first separator is removed from the bound on the supply and on the margin (`constants.ts` 1-4), so the bound never binds; amounts are 64-bit numbers
  all the same.
* `Int64` texts longer than the bound and a lone minus sign pass; two spellings of one asset name in different case pass as two names.
* A CIP-15 registration with a `voteKeyPath` passes, and so does a datum of unknown type, which is dropped.
* `prepareExtraSiners` merges no equal signers, because it collects objects in a `Set`, and names none for withdrawals, required signers
  and votes.
* For a pool registration it names the path of the reward account (`node/index.ts` 2215-2224) and neither the owner's key nor the pool's. `public.ts`
  1831-1832 and 1854-1856 promise a witness by the owner's path in the owner's mode and by the pool key in the operator's. A caller gets these
  witnesses only by listing the paths among the additional ones. `SignersOfRequest` therefore asks for no signer of a registration.
* In the owner's mode the parser does not look at the reward account, at CIP-36 paths and at additional witnesses (`transaction.ts` 640-759), so that an
  owner may be asked for more than the one witness of `public.ts` 1831-1832.
* Conway registration is built as a registration with delegation, and the text of a path stands where a deregistration needs a
  key hash (`PathTakenForHash`); relays with two addresses are added three times; pool metadata is dropped.
* Only the keys of account 0' are cached. An address with a staking key hash cannot be derived.
* `signMessage` reads fingerprint and key before it awaits the address: after a switch its request mixes two seeds.
* The transports differ: `connect` of `nodeusb.ts` takes a lone device whatever its product id, and the device that `open` picks by itself has no
  listener.

## 4. The proofs

### 4.1 USB transport

Proved for every set of calls, packet counts, request IDs, configuration and set of faults
(assumptions `TransportAssumption` and `IDAssumption`: packet counts are natural numbers and a response
has at least one packet; `NoID` is no request ID):

| theorem | module | establishes |
|---|---|---|
| `TypeCorrect` | `UsbTransportProofs` | `[]TypeOK` |
| `WaitsAreTimed` | `UsbTransportProofs` | `[]RaceIsTimed`: a call waits in the race exactly while its timeout is armed, and its request is then under way |
| `RequestsEndWithTheirCalls` | `UsbTransportProofs` | `[]OutlivesOnlyTimeout`: only a timeout lets a request outlive its call |
| `RestIsClosed` | `UsbTransportProofs` | `[]ClosedAtRest`: calls that share the device do not leave it open |
| `SettlesOnce` | `UsbTransportProofs` | `SettledOnce`: the first outcome of a call stands |
| `AnswersAreWhole` | `UsbAnswerProofs` | `[]WholeAnswer`: an answer is the whole response to the call's own request, given a request ID of its own |
| `OneAfterAnotherSucceeds` | `UsbAnswerProofs` | `[]SequentialCallsSucceed`: calls one after the other on a sound device do not fail by the transport's doing |
| `OneAfterAnotherLeavesNothing` | `UsbAnswerProofs` | `[]NothingLeftBehind`: nor do they leave anything in the device |
| `Refinement` | `UsbTransportProofs` | `ImplementsPromise`: the transport implements `RequestResponse` |

None of the properties is inductive by itself. `Inductive` adds to `TypeOK`:

* `PhaseInv`, which relates the two threads of a call to its timer, outcome and request ID: while the
  sender opens the device nothing else of the call has begun; it is in the race exactly while the
  timeout is armed; the request thread is active only under an armed or a fired timeout;
* `AskedInv`: a call the device may still answer has a request ID and no verdict, and has nothing left to send;
* `PacketInv`: every packet in the device or in a buffer is a packet of the response to the request it
  names, with its header; those in a buffer passed `isCurrentAction`.

The proof goes by groups of actions. `PhaseOpenOrClose` and `PhaseTransfer` show what the steps do to the
control state; `Quiet` is what all steps but the device's answer, the end of `transferOut` and
the receipt of a packet do at most to packets and requests, and `QuietPreserves` shows once that it keeps the packet
invariants. `RestIsClosed` needs one more fact, `BusyUntilClosed`: a call returns only by the last step
of its own close, which leaves the device open only while another thread has it under way.

`UsbAnswerProofs` adds what `WholeAnswer` needs. `OrderInv`: the packets of one response are queued with
growing indices, and behind those already received, because the device queues them in order and every
step takes packets from the head only. `SpacedInv`: so the indices in a buffer grow by at least one for
each packet, if all are of one response. `GrowingIsWhole` is the arithmetic at the end: as many packets as
the response has, with growing indices below that number, are all of it. `AnswersAreWhole` then needs
that a verdict reaches a call only in `PacketReceived` (`AnswerComesByReceipt`) and that the buffer does not change
afterwards (`AnsweredInv`, `WholeKept`).

The two theorems about calls one after the other rest on a third invariant, `Orderly`, which holds for `MaxConcurrent = 1` and no `Faults` as
long as the device stays plugged in and no timeout has fired. `Alone` goes through the places a call can be in, one by one, and says for
each what the device, the queue and the buffer hold: opened and claimed as far as `open()` has come, an answer only to the call that waits for
it, packets only of that answer, and as many of them in queue and buffer together as the response has. Outside the race nothing is asked and
nothing is queued. There is one lemma for each group of steps (`StartStep`, `OpenOrCloseStep`, `AnswerStep`, `ReceiptStep`, `TransferStep`);
`OneAtATime` gives each of them that no thread but the call's own two is under way, so that no operation is refused for another in progress.
The premises are in the invariant and not in the specification: a timeout or an unplugging may come at any moment, and what holds
until then holds.

The theorem `Refinement`, at the end of `UsbTransportProofs`, has one lemma for each abstract action, which says what a step of the transport must do
to be that action (`IssueStep`, `NameStep`, `SettleStep`, `DecideStep`, `StutterStep`), and then assigns
the steps to them. The one that is not bookkeeping is `AnswerIsAVerdict`: the status a call takes from its
packets is the device's verdict on a request of the same name, by `PacketInv`.

### 4.2 Framing

| theorem of `EapduProofs` | establishes |
|---|---|
| `RequestsStayIntact` | `[]RequestIntact`: a request's packets hold its bytes, each once and in order, and count themselves |
| `ArrivalOrderDoesNotShow` | `[]OrderDoesNotShow`: what `decode()` returns does not depend on the order of arrival |
| `ResponsesAreDecoded` | `[]ResponseDecoded`: a response without a cut character is decoded to the device's text and status |

Proved for every packet size and all lengths (`FrameAssumption`: the packet size is not zero, and a 16-bit field holds more than one value;
`ExchangeAssumption`: the data fits as many packets as the 16-bit count can name, which `maxPacketSize`, 200 unless configured otherwise, sees to).
`IInv` is small: the packets are none or those of the request, and those that arrived together with those still under way are the
response's packets, each once (`Answered`). The work is in the operators.

The library's induction theorems cannot be used, but induction over a *set* can: `Induction` says that a set of natural numbers with 0 in it
that is closed under successor has them all, from the well-foundedness of `<` (`LeastExists`). It is applied to the set of the numbers for
which a statement holds. `Flattens` gives in this way what `FlattenSeq` makes of pieces of known lengths, and `TextRead` what the
recursive function in `TextDecode` reads. `PiecesMakeWhole` puts the cuts of `encode` together again: `Pieces` and `Multiples` are the arithmetic of
the last, shorter piece. `SortsByIndex` shows that sorting any arrangement of packets with distinct indices yields the arrangement
by index (`Ranks`), and `DecodesInOrder` that `decode` then sees the packets as they were sent. In `ResponsesAreDecoded`, `PieceReads` is the step from one
packet to the next: with no character across the boundary, decoding the two parts is decoding the whole.

### 4.3 Connection

Proved for every number of flows and devices and every set of faults (`ConnectAssumption`, `NamesAssumption`):

| theorem of `TransportConnectProofs` | establishes |
|---|---|
| `TypeCorrect` | `[]TypeOK` |
| `MissingDeviceWasUnplugged` | `[]NoDeviceOnlyAfterUnplug` |
| `RestLeavesClosed` | `[]RestIsClosed` |
| `ListenersHearTheirOwn` | `[]ToldOfOwnDevice` |

`Inductive` adds `FlowInv` and `HeldInv` to the types. `FlowInv` says that a listener is for the flow's own device while there is one, and
that what `isSupported` found is still on the bus or gone, and was permitted: so a device missing from the second list is gone. `HeldInv`
says that an open device is in the hands of a flow that will close it, or is blamed on a failed operation.

### 4.4 Wallet applications

Proved for every set of packages, calls, seeds, fingerprints the application brings, and number of switches (`WalletAssumption`: the calls are
finite in number, and a missing fingerprint is no seed):

| theorem of `WalletAppProofs` | establishes |
|---|---|
| `TypeCorrect` | `[]TypeOK` |
| `ExportsAgree` | `[]ExportPairsAgree` |
| `SignsAsHeld` | `[]SignsUnderHeldFingerprint` |
| `MismatchMeansSwitch` | `[]MismatchNeedsSwitch` |
| `OnlyExportsSetFingerprint` | `FingerprintChangesByExport` |
| `JoinsOneSeed` | `[]JoinedOfOneSeed` |

`Inductive` adds for each call what its request, its answer and its result have to do with each other (`Asked`, `AnswerFits`, `ResultFits`), and
`OneSeed`: until the user switches for the first time, all that is held, sent and answered is of the active seed. `JoinInv` is a
second invariant on top of it: what was joined has ended, and shares one fingerprint.

### 4.5 Cardano requests

Acceptance is a property of inputs of any length, and `Verdict` is a `CHOOSE` of the first failure. `OnlyIfAllPass`, a lemma of
`AdaParserProofs`, gives what induction would: a set of natural numbers that is not empty has a least element
(`LeastExists`, from the well-foundedness of `<` on `Nat`), so if some check failed then some check failed first. From there each parser yields its
conditions (`Accepts`, `OrdinaryAccepts`, `MultisigAccepts`, `OwnerAccepts`, `OperatorAccepts`, `CertificatesParsed`).

| theorem of `AdaRequestProofs` | establishes |
|---|---|
| `SignersByMode` | `[]ModeDecidesWhoSigns` |
| `OneModeForAPool` | `[]PoolModesExclusive` |
| `OwnersShareIsOne` | `[]OwnerAddsOneShare` |
| `OwnersSignAfterOperator` | `[]OwnersCanSign` |
| `MarginsAtMostOne` | `[]MarginAtMostOne` |
| `FeesAreUint64` | `[]FeeIsUint64` |
| `TokensAreInRange` | `[]TokensInRange` |
| `BundlesInOrder` | `[]BundlesCanonical` |
| `EveryVerdictNamed` | `[]TypeOK` |

These are all invariants that `ada_request` checks. They hold for every request of the types of `public.ts` (`TypesAssumption`, in the terms of `AdaTypes`; TLC
evaluates it on the requests of the instance). The invariant is
`VerdictRight`: a verdict that was given is the parser's on the request that is still there. `OwnersShareIsOne` needs that a set of
owners with exactly one element on the device names exactly one path, which is cardinality of finite sets. For the rest it goes through every part of a request
that can hold a path (`DevicePaths`): each is empty because the mode refuses it, or because the one certificate is the registration. The three parts of
`UnseenByOwnerMode` are left out because the mode accepts paths in them; TLC finds the property violated without any one of these exceptions.

**What the operator may sign, the owners may.** `OwnersSignAfterOperator` carries the acceptance of one transaction to another, its view by an owner.
There is a lemma for each parser whose input differs between the two (`InputsPass`, `OutputsPass`, `PoolPasses`, `CertificatesPass`), which shows that
what passed still passes when paths have become hashes; `TransactionPasses` puts them together, and `OwnerModePasses` derives each check of the
owner's mode from a check of the operator's.

**Texts and numbers.** The code compares amounts as texts; the properties say what numbers they are, and TLC's integers are too small for
64 bits. The reference definition cuts a text of at most 24 digits into three chunks (`NumberLE`); the lemmas show of each chunk that its order is that of its
digits (`ChunkIsValue`, `ChunkOrder`), and so that for texts of one length the order of texts is the order of numbers (`TextIsNumber`), while of
two texts without leading zeros the shorter one is the smaller number (`ShorterIsLess`). `Uint64Is` says what an accepted amount is: the bound on the
supply, a malformed text, binds nothing (`SupplyBound`). Signed amounts are compared after a cut of their sign, as texts of equal length, without
a comparison of lengths: `TailOrder` and `WithinBound` show that this is right up to 19 digits. Beyond these it is not, and `TokensInRange`
says so.

**Canonical order.** `BundleAccepted` gives of an accepted bundle that each text sorts before the next in the order of the code, by length and then by
`localeCompare`, and that no two are equal. `HexOrder` is the point at which letters of one case matter: on those, the order of characters is
that of their values. `SmallerName` gets from there to the canonical order of the bytes.

**Every verdict has a name.** A set of reasons `Covers` a parser when whatever it returns on a well-typed value is in that set; there is one such lemma for each parser in
`AdaParserProofs`, up to the signing modes. The types are needed exactly where a `switch` of the code ends in `unreachable()`. The same
lemmas, with one reason taken out of the set, give the converse half of `FeesAreUint64` and of `TokensAreInRange`: a fee that is a 64-bit number is not refused.

### 4.6 Cardano session

| theorem of `AdaSessionProofs` | establishes |
|---|---|
| `TypeCorrect` | `[]TypeOK` |
| `KeysOfTheirPaths` | `[]KeyOfPath` |
| `SentOfSeedRead` | `TransactionOfSeedRead` |
| `InitAdaRestores` | `InitAdaHeals` |
| `SignersMatchRequest` | `[]SignersOfRequest` |

Proved for every number of calls, seeds and requests whose fields have the types of `public.ts` (`SessionAssumption`, `RequestAssumption`).
`Inductive` adds two things. `CallInv`: what a call sent fits the method it belongs to, and its keys are paired with their
own paths, unless it is `getExtendedPublicKeys`. `CleanInv`: while a call is clean, all that other calls have in flight was read from
the active seed. The heart of `KeysOfTheirPaths` is `FoundKey`: for a path of at most five indexes,
an entry of the cache that is a part of it and the last two indexes make up the whole path; `CertificatePathsValid` and its like show that every path
that reaches the cache has at most five, because its parser accepted it (4.5). `SignersStep` shows the same of
signers: the step that sends a transaction takes them from the request it parsed, and by `SignersHoldKeys` a certificate's signers
are among the key paths it names, with all that authorize it unless it registers a pool. In the owner's mode `OwnerSigns` takes from the acceptance of the
request that no input has a path and that its one certificate registers a pool, which leaves the reward account.

### 4.7 Only model-checked

Liveness: `EveryCallReturns` and `DisconnectTold`, because the prover does not do fairness. Every other property of a passing run is a
theorem. That the four findings are violations is for TLC alone to say.

## 5. The plan

Done: every module the plan named. `AdaSigningModes`, `AdaAmounts`, `AdaPaths` and `AdaAddress` became `AdaTransaction`, `AdaValues` and
`AdaOutputs`, along the files of the code, and `AdaRequest` checks them against definitions that do not follow the code. What is left, in order of use:

1. `WalletApp` and `AdaSession` over `RequestResponse` in one instance, where a timed-out request still reaches the device's user.
2. The keys of `getExtendedPublicKeys`, once it says which path a key belongs to.
3. Bundles whose texts mix the two cases, and mint amounts of more than 19 digits: what the code accepts there, as a characterisation and not as an exception.

## 6. Not modelled

The example application, build files, log texts and the logging decorator, CBOR, hashing, bech32, RLP, protobuf and UR encoding (libraries), the JSON
helpers, the PSBT conversions of the bitcoin package, the test of the tron package whether a text is hex, and the tests. That the serialization library may
refuse any string it is handed is left out: a call that fails there sends nothing. `clearUSBState` has no caller.
