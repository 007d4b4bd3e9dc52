# XpringKit in TLA+

A verification project for XpringKit, the Swift SDK for the XRP Ledger, PayID and the
Interledger Protocol. It models what the SDK does between its network requests and between
its dispatch queues, and what becomes of a payment's destination on the way; it
model-checks that with TLC on small instances and proves its central properties with
TLAPS for every instance.

1. Inventory
2. Modules, and how they correspond to the code
3. Runs: what is checked, bounds, fairness
4. What is proved
5. Where documentation and code disagree
6. Assumptions and abstractions
7. Plan: what is done, what is left

## 1. Inventory

Paths are under `src/XpringKit/`.

| Part | Source | State it keeps | Operations | Interacts with |
|---|---|---|---|---|
| Default XRP client | `XRP/DefaultXRPClient.swift` | none; each call has locals on its caller's thread | `send`, `sendWithDetails`, `enableDepositAuth`, `paymentStatus`; read-only: `getBalance`, `accountExists`, `paymentHistory`, `getPayment`, `getRawTransactionStatus` | one gRPC server |
| Reliable submission client | `XRP/ReliableSubmissionXRPClient.swift`; `XRP/XRPClient.swift` forwards to it | the locals of `awaitFinalTransactionResult` | the same, waiting for a final status after a submission | decorates the default client |
| PayID clients | `PayID/PayIDClient.swift`, `PayID/XRPPayIDClient.swift` | dispatch queues; a semaphore and a captured result per synchronous call | `cryptoAddress`, `allAddresses`, `xrpAddress`, each synchronous and asynchronous | HTTP through the generated API client; the application's queues |
| XpringClient | `Xpring/XpringClient.swift` | a serial queue | `send`, `sendWithDetails`, each synchronous and asynchronous | PayID client, then XRP client |
| SwagGen API client | `PayID/Generated/` | request behaviours, decoding queue | `makeRequest`, `handleResponse` | Alamofire |
| ILP client | `ILP/DefaultIlpClient.swift`, `ILP/IlpError.swift`, `ILP/auth/`, `ILP/model/` | none | `getBalance`, `sendPayment` | one gRPC server, a connector that pays packet by packet |
| Model conversions | `XRP/Model/` | none | protocol buffers to models, memos both ways | |
| Addresses | `XRP/Utils.swift`, `PayID/PayIDUtils.swift` | none | `encode`, `decode`, `parsePayID`, `toXAddress` | JavaScript bundle |
| Units, hex | `XRP/Utils.swift`, `XRP/Hex+ByteArray.swift` | none | drops and XRP, hex and bytes | |
| Wallets, signing | `XRP/Wallet.swift`, `XRP/Signer.swift`, `XRP/JavaScript/` | none | key derivation, the JSON that is signed, signing | JavaScript bundle |
| Generated code | `XRP/Generated`, `ILP/Generated` | | | |
| JavaScript bundle | `Common/Resources/index.js` | none | X-address codec, PayIDs, serialisation, cryptography | |

What makes each part correct, and what makes that hard:

* **Default client.** A submission is four requests long (account, fee, open ledger, submit)
  and the answers are of different moments: ledgers close, other calls of the same wallet
  run and accounts disappear between any two. What it reports of a transaction must be the
  ledger's outcome, although the server also gives provisional codes, and `enableDepositAuth`
  takes a status and its validated flag from two requests.
* **Reliable client.** It decides that nothing more can happen from two readings, a status
  and a ledger index, that are never of the same moment. It must not return while a
  transaction may still be validated, must return when it no longer can, and must not name
  an outcome the ledger does not have.
* **PayID clients.** One resolution hops over the decoding queue, `networkQueue` and a
  callback queue, completing once on every path; synchronous calls block a thread on a
  semaphore another queue must signal.
* **Account queries.** Each is one request, and still not a lookup: which failures mean "no
  such account", whether a list of payments may be incomplete, whether a printed hash
  finds its transaction again, and what an answer from the open ledger is worth later.
* **XpringClient.** Only the serial `asyncQueue` keeps two asynchronous payments of one wallet
  from signing the same transaction; it must go on after a failure. Each asynchronous send
  names the queue of its completion, so that completions keep the order of their sends on
  one serial queue and on no other.
* **Destinations.** Money goes to an account and a tag that pass through six representations:
  a PayID, address details with the tag as text, an X-address, a protocol buffer, the JSON
  that is signed, and the models a query makes of the validated transaction. At every
  one an absent tag must differ from the tag 0, the network must fit, and the owner of the
  PayID may publish something else meanwhile. An error must blame what is really wrong.
* **ILP client.** A payment is many packets at a connector that goes on after the caller has
  stopped waiting. All the caller has to tell whether anything was paid is which error it
  got: an error that blames the request must mean that nothing was, and the others must
  not be mistaken for one.

`PROJECT.json` lists the hazards one by one, at the line where each bites, with the
properties that watch it.

## 2. Modules, and how they correspond to the code

```
 XRPLedger                 the server and the ledger (external)
   └ DefaultXRPClient              + DefaultXRPClientProofs
       └ ReliableSubmissionXRPClient   + ReliableSubmissionProofs
           │  implements SubmissionContract   + SubmissionContractProofs
           └ XpringClient              + XpringClientProofs
 PayIDClient               dispatch queues and semaphores   + PayIDClientProofs
 XAddressCodec             X-addresses in bytes
   └ PaymentDestination    PayID to report                  + PaymentDestinationProofs (of both)
 AccountQueries            the queries, with the conversions of their answers
                                                            + AccountQueriesProofs
 ILPClient                 the client and its connector     + ILPClientProofs
 MCDefault, MCReliable, MCPayID, MCXpring, MCILP   instances, symmetry for TLC
 MCQueries                 symmetry, and the transactions and texts of its instance
 MCDestination             symmetry, and the addresses, entries, PayIDs and memos of its
                           instance
```

**XRPLedger** is not SDK code. It is what `DefaultXRPClient.swift` sees through gRPC:
`ledger` is the index of the latest validated ledger, `sequence` and `exists` describe
accounts in it, `received` holds transactions the network took in, `tesTxs` and `tecTxs` those
in a validated ledger by kind of outcome. `CloseLedger` includes any of the transactions
that may be included, at most one per account, and may also use up sequence numbers in
transactions made elsewhere or delete accounts. A transaction with the fields of another
is that other one (signing is deterministic), so that the record serves as the hash.
`GetTransactionReply` is the set of answers the server may give: a validated outcome, a
provisional code, or none; `lastLedgerSequence` may be missing from it.

**DefaultXRPClient** has one action per request. `pc[c]` names the request a call makes next;
`request`, `seq`, `tx`, `result` are its locals. `sendWithDetails` and `enableDepositAuth` begin a
call (an address that does not decode throws at once); `getAccountInfo`, `getFee` and
`getOpenLedgerSequence` are the requests of `prepareBaseTransaction`; `SigningError` and
`signAndSubmitTransaction` those of the method of that name, whose answer may be lost after
the transaction was taken in, and whose engine result the code does not look at.
`readPaymentStatus` and `readRawStatus` are the two status requests: `paymentStatus` makes the
first, `enableDepositAuth` both. `RPCError` fails any request.

**ReliableSubmissionXRPClient** extends that module the way the Swift class decorates the
other one: its steps are the default client's with its own variables unchanged, and, for a
submitting call the default client has returned to, the requests of
`awaitFinalTransactionResult`: `AwaitStatus` (lines 96-102), `AwaitLatest` (122), then
`PollLatest` and `PollStatus` (128, 129) as long as `PollOrReturn` (125) says so. `FinalResult` is
the result of `enableDepositAuth` (lines 72-84). `XRPClient.swift` builds this client and
forwards every call to it.

**SubmissionContract** is what a caller may rely on, without requests, polls or ledger
indexes: a call that submits returns only when the outcome of its transaction has been
decided (succeeded, failed or expired), an outcome is decided once, and what is reported
is that outcome or no claim. `Contract` in ReliableSubmissionXRPClient is the refinement
mapping (`CallPhase`, `CallOutcome`).

**PayIDClient** models both PayID classes over queues of blocks. `queue[q]` holds the blocks
waiting on queue `q`, and `blocked[q]` the call for which its thread sits in
`semaphore.wait()`. `ResolveSync`, `ResolveAsync` and `xrpAddress` are the public methods;
`addresses` sends the HTTP request, or completes on the spot for a PayID that does not
parse; `handleResponse` hands any of the service's answers to `networkQueue`; `RunResponse`,
`RunAddresses`, `RunSignal` and `RunCompletion` are the nested completions in their order;
`RunXRPAddress` is the block of the asynchronous `xrpAddress`; `Wake` is the return from
`semaphore.wait()`. `answer` and `made` are history variables for the properties.

**XpringClient** composes PayID resolution with the reliable client. `stage[c]` says how far
a send is: `RunAsync` takes the next block of `asyncQueue`, `Resolve` is
`xrpAddress(for:)` followed by the call of the reliable client (its `Begin`), `Finish` the
return or error of that call, `Complete` what happens to the Result, `RunCallback` the
application's completion. `sendAsync` chooses the callback queue of the call from
`CallbackQueues` (lines 62-73, 119-128). On one of the `SerialQueues` completions wait in line,
`callbacks[q]`, and the first one runs; on a concurrent queue any may run. `earlier` is a history
variable: the asynchronous sends made before a send. Every other step is a step of the reliable client with this
module's variables unchanged. Resolution is one step here, an X-address or an error: its
queues are PayIDClient's subject and its addresses PaymentDestination's, and it shares no
state with the ledger's side.

**XAddressCodec** is what `Utils.encode` and `Utils.decode` do through the bundle. A text is
what its bytes are: `TagBytes` and `TagNumber` are the shifts and products of the bundle,
`isValidXAddress` the checks its decoding makes, in any base for bytes (256 in the code).

**PaymentDestination** follows one destination through the SDK. `directory` is what the owners
of PayIDs have published, `address[c]` the X-address of a call, `signed[c]` the JSON of the
transaction signed for it, `report[c]` the model made of the validated one. An owner's server
answers with a list of addresses (one of `Listings`), with status 404 (`None`), or with 415 or 503
(`Unavailable`); `Publish` changes its answer; `sendToPayID` is `XpringClient.sendWithDetails` up to the request, with `parsePayID`;
`xrpAddress` is the answer, with the count of its addresses (`PayIDClient.swift:110`) and
`toXAddress`; `sendToAddress` is the XRP client called directly;
`sendWithDetails` is its guard on the address, the payment with its memo (`fromMemoFields`,
`MemoProto`), and `signTransaction`, which is the conversion to JSON in the bundle
(`AccountToJSON`, `paymentToJSON`); `RequestError`, `Validate` and `getPayment` are what follows.
`seen` is a history variable: what the owner had published while the call asked.

**AccountQueries** has the default client's four queries. `getBalance`, `accountExists`,
`paymentHistory` and `getPayment` begin a call, with the guards that come before a request;
`AccountInfo`, `NotFound`, `AccountHistory`, `TransactionFound` and `OtherError` are its answer,
with everything the method does with it. The server is part of the module, seen from
another side than in XRPLedger: `exists`, `open` and `ledger` are the accounts and the
transactions with the contents the conversions look at. `toBytes`, `isValidHex` and `toHex` are
those of `Hex+ByteArray.swift` and `ByteArray+Hex.swift`, on texts as sequences of characters;
`Kept` is `compactMap`, which leaves out pairs that do not convert (`pairs`) and transactions that
are no payments (`Payments`); `XRPTransaction`, `XRPPayment`, `XRPCurrencyAmount` and `XRPIssuedCurrency` are the failable
initialisers of `XRP/Model`, with nil as `None`. Fields that are copied without a condition are
one set of names, `fields`.

**ILPClient** has the two calls of the ILP client, `getBalance` and `sendPayment`, with the guard on
the token in `Call` (`BadCredentials`), and three ways they end: `Return` (an answer, with the
conversion of results and `from`, the mapping of gRPC statuses), `NoAnswer` (the status is the
client's own), `BadMessage` (an error without a status). The connector is external:
`Refuse`, `TellBalance`, `StartPayment`, `Packet`, `FinishPayment`, `BreakPayment`, and `Administer`
for accounts and tokens that change meanwhile. It works on after a call has stopped waiting.
`causes` and `netBalances` are history: what was wrong with a request, and what its
account's balance was, while the call waited.

Operators named `Buggy...` are faulty variants of the definition that follows them. No
specification uses them; each is put in place of its original to show that a property
notices the difference.

## 3. Runs

| Run | Instance | Properties | What it shows |
|---|---|---|---|
| `default_safety` | 3 calls, 1 wallet, 4 ledgers | `DefaultInv`, `PaymentStatusIsTrue`, `NoSequenceReuse` | a call goes on only with what its requests obtained; what `paymentStatus` and the validated flag say of a transaction is so in a validated ledger; a sequence number read after a transaction was validated is past that transaction's |
| `reliable_safety` | 2 calls, 1 wallet, 5 ledgers | `IInv`, `ReturnIsSettled`, `OutcomeIrreversible`, `PolledStatusIsFinal`, `ImplementsContract` | a normal return leaves the transaction validated or expired, for good; the loop reports pending only for one that has expired; the client implements the contract; the invariant of the proofs holds |
| `reliable_liveness` | 2 calls, 4 ledgers | `EveryCallEnds` | the wait ends, whatever becomes of the transaction |
| `payid` | 2 calls, 2 application queues, 8 answers | `TypeOK`, `ResultIsTheAnswer`, `XRPAddressesInOrder`, `NoDeadlock`, `EveryStepAdvances`, `EveryCallEnds` | every call ends, once, with what the service answered for its own PayID; no queue waits for a block behind itself, and no threads for each other; every step brings one call further; asynchronous `xrpAddress` calls with one callback queue complete in the order made |
| `xpring_safety` | 2 calls, 1 wallet, 5 ledgers, the main queue | `XpringInv`, `AsyncSendsAreDistinct`, `UsesReliableClient`, `SuccessIsFinal` | asynchronous sends that succeed are different payments; a send that succeeded is settled and stays as it is; XpringClient uses the reliable client as that one specifies |
| `xpring_liveness` | 2 calls, 3 ledgers, margin 0, a serial and a concurrent callback queue | `AsyncSendsInOrder`, `EverySendEnds` | a send that fails frees the queue for those behind it, and every completion is called; completions that one serial queue runs come in the order of their sends |
| `destination_safety` | 2 calls, 2 owners that publish up to twice, 12 entries, alone, none or two of them in an answer, 9 addresses, 7 PayIDs, tags from 0 to 80 | `DestinationTypeOK`, `PaidAsPublished`, `ReadsBackAsSent`, `RefusalIsDeserved` | a payment goes to the account and tag its PayID's owner asked for; what a query reads back is what was sent; errors blame what is wrong |
| `queries_safety` | 2 calls, 2 accounts, 4 transactions, 8 texts, 2 per answer | `QueryTypeOK`, `QueryInv`, `HistoryIsWhole`, `AbsenceIsTrue`, `AskedHashIsAnswered`, `ValidatedIsFinal` | a history has every payment of the server's answer or throws; only a missing account is reported missing; a hash finds its own transaction; a validated payment never reads differently later |
| `ilp_safety` | 2 calls, 2 accounts, 3 tokens, payments of up to 2 packets, 2 changes of accounts or tokens | `ILPTypeOK`, `RefusedIsUnpaid`, `ResultIsTheAnswer` | an error that blames the request means nothing was paid and nothing will be; a result is final and the call's own |
| `end_is_definitive`, `deposit_auth_final`, `only_hex_is_asked` | | one each | counterexamples: section 5 |

Two properties are called `EveryCallEnds`, one in ReliableSubmissionXRPClient and one in
PayIDClient; two are called `ResultIsTheAnswer`, in PayIDClient and in ILPClient.

**Bounds.** `MaxLedger` is the last ledger the model closes. `PrepareHorizon` lets a call learn
the open ledger's index only while the resulting `lastLedgerSequence` is below `MaxLedger`, so
that every transaction that is signed can also expire inside the model; a call past the
horizon can still fail. `OpenLead` is how far the open ledger may be ahead of the validated one,
1 in the runs. `maxLedgerVersionOffset` is 10 in the code and 1 in the safety runs: what matters is
that ledgers close before the submission, between it and the limit, at the limit and past it,
all of which one ledger of margin allows; the proofs are for any margin. One wallet is the
hard case, because calls of different wallets meet in nothing; a second call is what
interleaves, and `default_safety` has a third, a query about the hash another call submitted
while a second one competes for the sequence number. One of the two destinations does not
decode. Two application queues are the least that tells a caller's queue from another
one. The order of completions and the end of a send do not look at the ledger, so that
`xpring_liveness` takes the least of it and spends its states on the queues: two sends may share
the serial queue, have different ones or share the concurrent one. `xpring_safety` has the
ledger in full, which is what its properties are about, and one queue; that its callbacks
wait elsewhere changes nothing there, and the theorems are for any queues. `queries_safety` has one transaction for each way through the conversions (drops; an issued
amount with all optional parts; one that does not convert; no payment), with hashes whose
digits are hard to tell apart without padding, and answers that are too short for all of
them.

`destination_safety` has bytes of three values, so that a tag has four bytes that can all differ
and still only 81 values; the entries have the least and the greatest tag, the number after
it and no number, every kind of X-address (either network, an unknown prefix, an unknown
flag, bytes where there should be none) and a tag beside an X-address. An answer has one of
them, none, or two that differ in their tag only. One of the two
PayIDs has a second dollar in its path. `MaxPublished` is 2: an owner may publish before the
call and again while it asks. In `ilp_safety` two packets are the least for a payment that stops in the
middle, a balance of 2 lets two payments exhaust an account between them, and `MaxChanges`, 2,
lets a cause of refusal appear and vanish during one call.

Calls, and the application's queues, are interchangeable; calls are declared symmetric in the
safety runs except `payid`, which checks liveness too. Deadlock is not checked: a run ends
when all calls have ended and the counters have reached their bounds.

**Fairness.** Weak fairness on `CloseLedger` (the network goes on validating ledgers; the wait
relies on nothing else for its end), and on the steps of each call that has begun (a gRPC
request is answered or fails, and a thread that is in a call is not abandoned: the steps
include the failures). In PayIDClient, weak fairness on `handleResponse` (Alamofire calls back
with a response or an error), on `Wake` and on every queue's next block (libdispatch runs the
blocks of a queue that is not blocked). In XpringClient the same, for its queue and for
each completion that waits on a callback queue (a serial one runs them in turn, and loses
none). Nothing is assumed about calls being made or transactions being included.
PaymentDestination, AccountQueries and ILPClient state no fairness: their calls end with the
answer to a request, which would be assumed and not shown.

## 4. What is proved

Eight modules hold theorems; `PROJECT.json` lists the results. All are for any number of
calls, wallets, destinations, queues, owners and accounts, any `maxLedgerVersionOffset`, any
`MaxLedger` and bytes of any size, from the named assumptions on constants only
(`LedgerAssumption`, `ClientAssumption`, `XpringAssumption`, `PayIDAssumption`,
`CodecAssumption`, `DestinationAssumption`, `QueryAssumption`, `ILPAssumption`).

* **DefaultXRPClientProofs**: `DefaultInvariantHolds`, `PaymentStatusCorrect`, `SequenceNeverReused`.
  The inductive invariant `DefaultInv` adds to the types and to `PaymentStatusIsTrue`
  `SequencesUsedUp` (a validated transaction has used its number up, and has one outcome) and
  `PrepareInOrder` (which locals a call holds at each request, and that the sequence number
  it builds on is one its account has had). `LedgerCloses` is the lemma about the ledger
  that the others rest on: what is settled stays as it is.
* **ReliableSubmissionProofs**: `InvariantHolds`, `TypeCorrect`, `ReturnSettled`,
  `ValidatedResultCorrect`, `OutcomeStable`, `PolledStatusFinal`. `ReturnIsSettled` alone is not inductive: that the
  loop's test means anything depends on which ledger index and whose last ledger it
  compares. `WaitInOrder` says so: while a call waits, its status in hand is true if it says
  validated, `lastLedgerSequence` is its own transaction's, and the index it holds is
  one some ledger has had. `PollOrReturnIsSound` draws the conclusion.
  `PolledStatusFinal` is about the order of the loop's two reads: there the status is of the
  moment of the return, and the index older, so that pending means expired.
* **SubmissionContractProofs**: `ContractImplemented`. Initial states map to initial states;
  each action maps to a step of the contract or to a stutter; one ledger may decide several
  calls' outcomes in one step, which is why `Decide` does.
* **XpringClientProofs**: `XpringUsesReliable`, `XpringKeepsContract`, `XpringInvariantHolds`,
  `AsyncSendsDistinct`, `SuccessFinal`, `AsyncSendsOrdered`. `XpringUsesReliable` carries the reliable client's
  theorems over to sends to a PayID; with `ContractImplemented` it gives `XpringKeepsContract`, the
  whole chain from a send to a PayID to the contract. `SuccessFinal` says it of the Result a
  caller gets: it is given only for a settled transaction, and none of the two changes again.
  For `AsyncSendsDistinct`, think of one send that succeeded and one that builds its
  transaction: the first was settled before the second read its sequence number. If it was
  validated, the number read is greater; if it had expired, the second one's last ledger is
  later. `EarlierSendsBehind` is that argument as an invariant, `QueuesInOrder` is why a send
  cannot succeed while another asynchronous one is between those two requests, and
  `SendsInOrder` ties each send's stage to the reliable client's position.
  `AsyncSendsOrdered` is about sends that gave one serial callback queue; of others nothing is
  claimed. `QueuesInOrder` says that `asyncQueue` and every serial callback queue hold
  their sends in the order these were made (`Ordered`), `SendsInLine` that a later
  asynchronous send is never further than an earlier one: not out of `asyncQueue` before it,
  and not with a Result before it. So a completion goes behind those of the earlier sends
  (`CompleteKeepsQueues`), and the one that runs is the earliest of its queue's
  (`RunCallbackKeepsQueues`).
* **PayIDClientProofs**: `PayIDTypeCorrect`, `PayIDResultCorrect`, `PayIDInOrder`,
  `PayIDNoDeadlock`, `PayIDStepsAdvance`. That a call ends
  once with its own answer follows from where it is. `TokenInv` says that a call is in at
  most one place, its HTTP request, one block of one queue, a signalled semaphore or its
  end, and that what is there holds the answer of its own call. Every
  action moves one token (`MovesToken`); `Shifted` and its lemmas say what that does to the
  positions of all others. `TokenInv` also says that a call under way is in some place
  (`Placed`), and that a call that waits is waited for until its semaphore is signalled
  (`Held`). Deadlock freedom follows: a thread that waits does so for a request, a signal or
  a block of `networkQueue`, and `NetworkIsFree`: no call ever blocks that one. `EveryStepAdvances`
  orders the places of a call from its making to its end (`Way`); every action moves one call to
  a later place and leaves all others where they are. Together: as long as a call has not
  ended something can go on, and whatever goes on uses up one of the at most eight steps that
  each call has. What is left to fairness is only that what can go on does. `OrderInv` is about two asynchronous `xrpAddress` calls with one
  callback queue: while the earlier one waits in `asyncQueue`, blocks it or waits on the
  callback queue, the later one is somewhere behind it (`Behind`). Calls that do not move
  only move up in their queues (`Steady`), the one that does move keeps the order (`Advances`).
* **PaymentDestinationProofs**: first the codec. `DecodesAsEncoded`, `EncodesAsDecoded`: coding
  and decoding are inverses for every account, tag and network, whatever the size of a
  byte; the work is arithmetic (`TagOfBytes`, `BytesOfTag`), division and remainder by powers of
  the base. Then `DestinationTypeCorrect`, `DestinationPublished`,
  `DestinationReadsBack`, `RefusalDeserved`, from the codec's theorems and from lemmas about
  PayIDs as sequences (`PayIDIsParsed`, `ParsedIsPayID`: splitting at the last dollar finds the owner
  and nobody else). `DestinationInv` adds `CallInOrder` to the properties: which fields a call has
  at each stage, each a function of the one before, back to the one address its owner had published.
* **ILPClientProofs**: `ILPTypeCorrect`, `RefusalUnpaid`, `ResultCorrect`. `ILPInv` adds that an
  answer under way is true (`AnswerInStep`, `Honest`), and how far the connector may be with
  a call at each of its stages (`InStep`): nothing has been paid for a request that may
  still be refused.

* **AccountQueriesProofs**: `QueryInvariantHolds`, `QueryTypeCorrect`, `AskedHashAnswered`,
  `AbsenceTrue`, `HistoryWhole`, `ValidatedFinal`. Two things carry them. One is what `Kept` does
  to a list of any length: the library's induction takes an operator as its parameter, which the
  provers cannot instantiate, so the lemmas state the set of the lengths for which a
  claim holds and show that it is all of `Nat` (`SetInduction`). From them,
  `ReadsBack`: `toBytes` of `toHex` gives back the bytes, for every hash. The other is `QueryInv`.
  `ValidatedIsFinal` compares two answers given at different times, of which one is
  only remembered, so that it is not inductive; `ToldOK` says of each payment in hand what
  it has to do with the ledger now: it is of a transaction that was asked for, and one that
  it calls validated is in the ledger and converts to the same, field by field. `LedgerOK` is why
  that stays so: the place of a transaction in the ledger, and with it the index in the
  answer, is one and does not move.

Only model-checked: liveness (`EveryCallEnds` of both clients and `EverySendEnds`; TLAPS has no
fairness reasoning here). Every other property of the passing runs is a theorem.

## 5. Where documentation and code disagree

The first three are runs TLC answers with a counterexample, and entries of `PROJECT.json`
that quote the sentence.

1. `README.md:248` says a payment blocks until a definitive and irreversible state. A call
   that throws out of the wait, because one request failed or the first status lacked its
   `lastLedgerSequence`, leaves a transaction that may still be validated (`end_is_definitive`,
   which leaves out calls that never came to wait because the answer to the submission was
   lost; the same holds of them). The contract the client does keep is about
   normal returns.
2. `enableDepositAuth` of `XRPClient` is documented to give the final status. The status read
   before the loop is tested with an index read after it, so that a transaction validated
   between the two reads is reported pending (`deposit_auth_final`).
3. `Hex+ByteArray.swift` means to reject text that is not hexadecimal (the comment at 25, the
   error at 11). `isValidHex` accepts a text with one hexadecimal digit; pairs that do not convert
   are dropped, so that another transaction than the one asked about may be found
   (`only_hex_is_asked`). For hexadecimal text `AskedHashIsAnswered` holds.
4. `README.md:176-177` counts operations that will never be validated as failed; `paymentStatus`
   gives pending for them. That is the default client's lookup of one status and nothing
   interleaves in it, so that reading the code shows as much as a run would.
5. A tag that an owner publishes beside a classic address and that is no UInt32 becomes no
   tag (`PayID/XRPPayIDClient.swift:90`), and the payment goes to the account without it.
   `PaidAsPublished` says so explicitly (`AsksFor`): every tag that is one is kept, which is
   what the fix of 3.2.2 promises (`CHANGELOG.md:62`).
6. `ILPError.unimplemented` is declared and never produced: a connector that answers so is
   reported as unknown.

## 6. Assumptions and abstractions

* One linearizable server answers every request. The code holds one channel to one host; a
  host that balances over servers of different states could let a later read see less.
* The pauses between polls are left out: weak fairness says all the wait needs of time.
* The kinds of RPC errors are one in the XRP clients: every error of a modelled method is
  thrown on unchanged. The ILP client translates them, and there they are told apart.
* In the modules over XRPLedger a transaction's payload is its destination, or that it is an
  AccountSet, so that two sends to one destination with the same number and last ledger are
  one transaction; fees and amounts are left out, since no step branches on them. Tags and
  memos are in PaymentDestination, where in turn a submission is one step.
* Ledger indexes and sequence numbers are unbounded: the code's UInt32 addition traps far
  beyond any real ledger.
* `XpringClient` sends take their wallet in the initial state instead of when called, which
  is the same choice made earlier.
* An HTTP answer of status 200 is one of four kinds of address list, by what the code tells
  apart. Request behaviours, cancellation and uploads of the API client are not used by any
  caller and are left out.
* In XAddressCodec a text is what its checksummed bytes are: base-58 digits and checksums are
  left out. The path of a PayID starts with a slash that the code adds and drops again. The errors
  of PaymentDestination are the code's own, with those of the XRP client's requests in one
  (`unknown`). `None` is nil; the empty data of a memo is a value of its own.
* In AccountQueries a text given as an address is what it decodes to, its tag and network
  aside, as in the code; accounts of the ledger always encode to an X-address; a hash has
  any length, two bytes in the run; transactions with one hash are one transaction; a balance is opaque.
* The connector of ILPClient is modelled from the code's use of it and the documentation of
  the results: it pays an amount packet by packet, checks a request before the first
  packet, and may fail at any moment.
* A concurrent callback queue of XpringClient runs a completion at any time after it was
  given it; a target queue that serialises several queues is none of its own here.
* `PayIDAssumption`: queues are distinct. The application's queues are serial; a concurrent
  one would only allow more to run, and `XRPAddressesInOrder` is about serial ones.

Not modelled, and why:

* Key derivation, signatures, hashes and base-58 digits: cryptography without state.
* `dropsToXrp` and `xrpToDrops`: pure functions around `NSDecimalNumber` of Foundation, whose
  parsing of odd texts is all there is to them and is not in this repository; no client of the
  SDK calls them. The hazard is listed.
* The models of the other transaction types: conversions no client method uses yet.
* The generated protocol buffers and gRPC stubs: no logic of this project.
* Most of the JavaScript bundle. `index.js` is minified, 30 lines of which lines 22, 24 and
  29 hold the functions the SDK calls and thousands of others; the rest is libraries
  (buffers, big numbers, elliptic curves, hashes) and licence banners. The definitions of XAddressCodec
  and PaymentDestination are mapped to those three lines. No further line holds code that
  the SDK's behaviour can be told from.

## 7. Plan: what is done, what is left

Done, in this order: XRPLedger and DefaultXRPClient with their proofs; the reliable client,
its invariant, proofs and contract; the PayID clients; XpringClient over the reliable client
with its proofs; the account queries with the conversions of payments and hex; X-addresses,
tags and memos through PaymentDestination, with its proofs; the ILP client, with its proofs;
the proofs of the PayID clients, then of the account queries; deadlock freedom and progress of
the PayID clients; what a successful send to a PayID means, down to the ledger; the order of
the asynchronous sends, by callback queue; what a PayID server's answers other than one
address lead to.

Left:

1. XpringClient: that `asyncQueue` is never stuck, as a theorem of the kind PayIDClient has
   (`EverySendEnds`, under fairness, is checked).
2. The conversions of the other transaction types, once a client method uses them.
3. Drops and XRP, over bounded texts, if the behaviour of `NSDecimalNumber` is written down.
