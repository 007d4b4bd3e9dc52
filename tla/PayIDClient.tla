----------------------------- MODULE PayIDClient -----------------------------
(***************************************************************************)
(* XpringKit/PayID/PayIDClient.swift and XRPPayIDClient.swift: resolving a *)
(* PayID over HTTP. An answer comes back over dispatch queues; synchronous *)
(* calls wait on a semaphore for it. Every queue here is serial: it starts *)
(* a block only when its previous one has ended.                           *)
(***************************************************************************)
EXTENDS Sequences, Naturals

CONSTANTS
  Calls,         \* one element for each call of a public method
  ClientQueues,  \* the application's queues: it calls from them, and they
                 \* are the callbackQueue of its asynchronous calls
  networkQueue,  \* PayIDClient's own queue
  asyncQueue,    \* XRPPayIDClient's own queue
  Responses,     \* what PayID services answer, out of AllResponses
  NoCall, NoRequest

Queues == ClientQueues \cup {networkQueue, asyncQueue}
Methods == {"cryptoAddress", "allAddresses", "xrpAddress"}
Request == [method : Methods, sync : BOOLEAN,
            caller : ClientQueues, callbackQueue : ClientQueues]

(* The addresses in an answer with status 200: one X-address, one classic  *)
(* address, one that is neither, or a list not of length one.              *)
AddressLists == {"xAddress", "classic", "malformed", "notOne"}
Errors == {"invalidPayID", "mappingNotFound", "unexpectedResponse", "unknown"}
AllResponses ==
  AddressLists \cup {"status404", "status415", "status503", "failed"}

ASSUME PayIDAssumption ==
  /\ Responses \subseteq AllResponses
  /\ networkQueue \notin ClientQueues /\ asyncQueue \notin ClientQueues
  /\ networkQueue # asyncQueue
  /\ NoCall \notin Calls /\ NoRequest \notin Request

VARIABLES
  request,    \* the method and arguments of each call
  http,       \* calls whose HTTP request has no response yet
  queue,      \* the blocks waiting on each queue
  blocked,    \* the call for which a queue's thread waits on a semaphore
  semaphore,  \* its value
  result,     \* the variable a synchronous call's completion captures
  outcome,    \* what a call returned or gave to its completion
  ended,      \* how often it did so
  answer,     \* history: the response, or invalidPayID if none was asked for
  made        \* history: the calls in the order they were made

vars == <<request, http, queue, blocked, semaphore, result, outcome, ended,
          answer, made>>

Block == [step : {"xrpAddress", "response", "addresses", "completion", "deliver"},
          call : Calls, value : AllResponses \cup Errors]

TypeOK ==
  /\ request \in [Calls -> Request \cup {NoRequest}]
  /\ http \subseteq Calls
  /\ queue \in [Queues -> Seq(Block)]
  /\ blocked \in [Queues -> Calls \cup {NoCall}]
  /\ semaphore \in [Calls -> {0, 1}]
  /\ result \in [Calls -> AddressLists \cup Errors]
  /\ outcome \in [Calls -> AddressLists \cup Errors \cup {"none"}]
  /\ ended \in [Calls -> {0, 1}]
  /\ answer \in [Calls -> Responses \cup {"invalidPayID", "none"}]
  /\ made \in Seq(Calls)

Init ==
  /\ request = [c \in Calls |-> NoRequest]
  /\ http = {}
  /\ queue = [q \in Queues |-> <<>>]
  /\ blocked = [q \in Queues |-> NoCall]
  /\ semaphore = [c \in Calls |-> 0]
  /\ result = [c \in Calls |-> "unknown"]
  /\ outcome = [c \in Calls |-> "none"]
  /\ ended = [c \in Calls |-> 0]
  /\ answer = [c \in Calls |-> "none"]
  /\ made = <<>>

Async(queues, q, step, c, value) ==
  [queues EXCEPT ![q] =
     Append(@, [step |-> step, call |-> c, value |-> value])]

(* Whether a call resolves through the synchronous cryptoAddress or        *)
(* allAddresses; the asynchronous xrpAddress does so on asyncQueue.        *)
Waits(r) == r.sync \/ r.method = "xrpAddress"

(* Faulty variant of CallbackQueue: a waiting call's own queue. *)
BuggyCallerQueue(r) == r.callbackQueue

(* The callbackQueue that addresses(for:on:) is given. *)
CallbackQueue(r) == IF Waits(r) THEN networkQueue ELSE r.callbackQueue

(* addresses(for:on:): the HTTP request is sent, or the PayID does not     *)
(* parse and the completion is called on the spot, which leaves one hop.   *)
addresses(c, r, queues) ==
  \/ /\ http' = http \cup {c}
     /\ queue' = queues
     /\ UNCHANGED answer
  \/ /\ queue' = Async(queues, CallbackQueue(r), "completion", c, "invalidPayID")
     /\ answer' = [answer EXCEPT ![c] = "invalidPayID"]
     /\ UNCHANGED http

(* A call is made from a queue whose thread is free. *)
Make(c, r) ==
  /\ request[c] = NoRequest
  /\ blocked[r.caller] = NoCall
  /\ request' = [request EXCEPT ![c] = r]
  /\ made' = Append(made, c)
  /\ UNCHANGED <<semaphore, result, outcome, ended>>

(* The synchronous methods: ask, and wait on the calling thread. *)
ResolveSync(c) ==
  \E r \in Request :
    /\ r.sync /\ r.callbackQueue = r.caller
    /\ Make(c, r)
    /\ addresses(c, r, queue)
    /\ blocked' = [blocked EXCEPT ![r.caller] = c]

(* The asynchronous cryptoAddress and allAddresses. *)
ResolveAsync(c) ==
  \E r \in Request :
    /\ ~r.sync /\ r.method # "xrpAddress"
    /\ Make(c, r)
    /\ addresses(c, r, queue)
    /\ UNCHANGED blocked

(* The asynchronous xrpAddress. *)
xrpAddress(c) ==
  \E r \in Request :
    /\ ~r.sync /\ r.method = "xrpAddress"
    /\ Make(c, r)
    /\ queue' = Async(queue, asyncQueue, "xrpAddress", c, "unknown")
    /\ UNCHANGED <<http, blocked, answer>>

(* APIClient.handleResponse, on its concurrent decoding queue. *)
handleResponse(c) ==
  /\ c \in http
  /\ http' = http \ {c}
  /\ \E response \in Responses :
       /\ queue' = Async(queue, networkQueue, "response", c, response)
       /\ answer' = [answer EXCEPT ![c] = response]
  /\ UNCHANGED <<request, blocked, semaphore, result, outcome, ended, made>>

(* The result addresses(for:on:) makes of a response. *)
AddressesResult(response) ==
  CASE response \in AddressLists -> response
    [] response = "status404" -> "mappingNotFound"
    [] response \in {"status415", "status503"} -> "unexpectedResponse"
    [] response = "failed" -> "unknown"

(* What cryptoAddress makes of that; allAddresses takes any list.          *)
AddressResult(method, value) ==
  IF method # "allAddresses" /\ value = "notOne"
  THEN "unexpectedResponse" ELSE value

(* XRPPayIDClient.toXAddress of a resolved address. *)
toXAddress(value) ==
  IF value = "classic" THEN "xAddress"
  ELSE IF value = "malformed" THEN "unexpectedResponse" ELSE value

FinalResult(c, value) ==
  IF request[c].method = "xrpAddress" THEN toXAddress(value) ELSE value

(* The head of a free queue q, which the step below takes off. *)
Runs(q, step) ==
  /\ blocked[q] = NoCall
  /\ queue[q] # <<>>
  /\ Head(queue[q]).step = step

Rest(q) == [queue EXCEPT ![q] = Tail(@)]

(* Faulty variant of RunXRPAddress: a concurrent asyncQueue, which starts a  *)
(* block before those ahead of it.                                          *)
BuggyConcurrentQueue ==
  /\ Runs(asyncQueue, "xrpAddress")
  /\ LET last == Len(queue[asyncQueue])
         c == queue[asyncQueue][last].call IN
       /\ addresses(c, request[c],
            [queue EXCEPT ![asyncQueue] = SubSeq(@, 1, last - 1)])
       /\ blocked' = [blocked EXCEPT ![asyncQueue] = c]
  /\ UNCHANGED <<request, semaphore, result, outcome, ended, made>>

(* The block of the asynchronous xrpAddress: the synchronous one, there.   *)
RunXRPAddress ==
  /\ Runs(asyncQueue, "xrpAddress")
  /\ LET c == Head(queue[asyncQueue]).call IN
       /\ addresses(c, request[c], Rest(asyncQueue))
       /\ blocked' = [blocked EXCEPT ![asyncQueue] = c]
  /\ UNCHANGED <<request, semaphore, result, outcome, ended, made>>

(* makeRequest's completion. *)
RunResponse(q) ==
  /\ Runs(q, "response")
  /\ LET b == Head(queue[q]) IN
       queue' = Async(Rest(q), CallbackQueue(request[b.call]), "addresses",
                      b.call, AddressesResult(b.value))
  /\ UNCHANGED <<request, http, blocked, semaphore, result, outcome, ended,
                 answer, made>>

(* Faulty variant of RunAddresses: no return after the completion with      *)
(* unexpectedResponse.                                                      *)
BuggyCompletesTwice(q) ==
  /\ Runs(q, "addresses")
  /\ LET b == Head(queue[q])
         r == request[b.call]
         value == AddressResult(r.method, b.value)
         once == Async(Rest(q), CallbackQueue(r), "completion", b.call, value)
     IN queue' = IF value = b.value THEN once
                 ELSE Async(once, CallbackQueue(r), "completion", b.call, b.value)
  /\ UNCHANGED <<request, http, blocked, semaphore, result, outcome, ended,
                 answer, made>>

(* The completion cryptoAddress or allAddresses gives to addresses. *)
RunAddresses(q) ==
  /\ Runs(q, "addresses")
  /\ LET b == Head(queue[q]) IN
       queue' = Async(Rest(q), CallbackQueue(request[b.call]), "completion",
                      b.call, AddressResult(request[b.call].method, b.value))
  /\ UNCHANGED <<request, http, blocked, semaphore, result, outcome, ended,
                 answer, made>>

Deliver(c, value) ==
  /\ outcome' = [outcome EXCEPT ![c] = value]
  /\ ended' = [ended EXCEPT ![c] = @ + 1]

(* The completion of a waiting call: capture the result and signal. *)
RunSignal(q) ==
  /\ Runs(q, "completion")
  /\ LET b == Head(queue[q]) IN
       /\ Waits(request[b.call])
       /\ result' = [result EXCEPT ![b.call] = b.value]
       /\ semaphore' = [semaphore EXCEPT ![b.call] = @ + 1]
  /\ queue' = Rest(q)
  /\ UNCHANGED <<request, http, blocked, outcome, ended, answer, made>>

(* The application's completion. *)
RunCompletion(q) ==
  /\ \/ Runs(q, "completion") /\ ~Waits(request[Head(queue[q]).call])
     \/ Runs(q, "deliver")
  /\ Deliver(Head(queue[q]).call, Head(queue[q]).value)
  /\ queue' = Rest(q)
  /\ UNCHANGED <<request, http, blocked, semaphore, result, answer, made>>

(* Faulty variant of Wake: returns without waiting for the semaphore. *)
BuggyNoWait(q) ==
  /\ blocked[q] # NoCall
  /\ LET c == blocked[q] IN
       IF request[c].sync
       THEN Deliver(c, FinalResult(c, result[c])) /\ UNCHANGED queue
       ELSE /\ queue' = Async(queue, request[c].callbackQueue, "deliver", c,
                              FinalResult(c, result[c]))
            /\ UNCHANGED <<outcome, ended>>
  /\ blocked' = [blocked EXCEPT ![q] = NoCall]
  /\ UNCHANGED <<request, http, semaphore, result, answer, made>>

(* semaphore.wait() ends on the thread of queue q: a synchronous call      *)
(* returns, or the block on asyncQueue hands its result to callbackQueue.  *)
Wake(q) ==
  /\ blocked[q] # NoCall
  /\ LET c == blocked[q] IN
       /\ semaphore[c] > 0
       /\ semaphore' = [semaphore EXCEPT ![c] = @ - 1]
       /\ IF request[c].sync
          THEN Deliver(c, FinalResult(c, result[c])) /\ UNCHANGED queue
          ELSE /\ queue' = Async(queue, request[c].callbackQueue, "deliver", c,
                                 FinalResult(c, result[c]))
               /\ UNCHANGED <<outcome, ended>>
  /\ blocked' = [blocked EXCEPT ![q] = NoCall]
  /\ UNCHANGED <<request, http, result, answer, made>>

RunQueue(q) ==
  RunResponse(q) \/ RunAddresses(q) \/ RunSignal(q) \/ RunCompletion(q) \/ Wake(q)

Next ==
  \/ \E c \in Calls :
       ResolveSync(c) \/ ResolveAsync(c) \/ xrpAddress(c) \/ handleResponse(c)
  \/ RunXRPAddress
  \/ \E q \in Queues : RunQueue(q)

Spec == Init /\ [][Next]_vars

(* A request is answered or fails, and a dispatch queue runs its blocks.   *)
FairSpec ==
  /\ Spec
  /\ \A c \in Calls : WF_vars(handleResponse(c))
  /\ WF_vars(RunXRPAddress)
  /\ \A q \in Queues : WF_vars(RunQueue(q))
-----------------------------------------------------------------------------
(* Every call ends with what the service said about its own PayID: never   *)
(* the placeholder a synchronous call starts from, never another's answer. *)
Expected(c) ==
  IF answer[c] = "invalidPayID" THEN "invalidPayID"
  ELSE FinalResult(c, AddressResult(request[c].method, AddressesResult(answer[c])))

ResultIsTheAnswer ==
  \A c \in Calls : ended[c] > 0 =>
    answer[c] # "none" /\ outcome[c] = Expected(c)

(* Asynchronous xrpAddress calls with one callbackQueue complete in the    *)
(* order they were made, although responses come in any order.             *)
InOrder(c) == ~request[c].sync /\ request[c].method = "xrpAddress"

XRPAddressesInOrder ==
  \A i, j \in 1..Len(made) :
    /\ i < j /\ InOrder(made[i]) /\ InOrder(made[j])
    /\ request[made[i]].callbackQueue = request[made[j]].callbackQueue
    /\ ended[made[j]] > 0
    => ended[made[i]] > 0

(* While a call is under way, a response is outstanding or some queue can   *)
(* go on: no thread waits for a block behind it, on a queue it blocks       *)
(* itself or through the threads that others block.                        *)
CanRun(q) ==
  IF blocked[q] = NoCall THEN queue[q] # <<>> ELSE semaphore[blocked[q]] > 0

NoDeadlock ==
  (\E c \in Calls : request[c] # NoRequest /\ ended[c] = 0) =>
    http # {} \/ \E q \in Queues : CanRun(q)

(* Where a call is on its way from being made to its end: its HTTP request, *)
(* a block on a queue, its semaphore.                                      *)
Way == [xrpAddress |-> 1, http |-> 2, response |-> 3, addresses |-> 4,
        completion |-> 5, semaphore |-> 6, deliver |-> 7, ended |-> 8]

Places(c) ==
  {p \in DOMAIN Way :
     \/ p = "http" /\ c \in http
     \/ p = "semaphore" /\ semaphore[c] > 0
     \/ p = "ended" /\ ended[c] > 0
     \/ \E q \in Queues : \E i \in DOMAIN queue[q] :
          queue[q][i].call = c /\ queue[q][i].step = p}

(* Every step brings one call further and leaves the others where they are; *)
(* nothing is done twice and no call goes back.  With NoDeadlock: the calls *)
(* that are made have all ended after at most eight steps each.             *)
EveryStepAdvances ==
  [][\E c \in Calls :
       /\ Places(c)' # {}
       /\ \A p \in Places(c), r \in Places(c)' : Way[p] < Way[r]
       /\ \A d \in Calls \ {c} : Places(d)' = Places(d)]_vars

(* Every call that is made returns or completes, whichever queues it and   *)
(* the others use: no thread waits for a queue it blocks itself.           *)
EveryCallEnds == \A c \in Calls : request[c] # NoRequest ~> ended[c] > 0
=============================================================================
