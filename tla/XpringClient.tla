----------------------------- MODULE XpringClient -----------------------------
(***************************************************************************)
(* XpringKit/Xpring/XpringClient.swift: resolves a PayID, then sends with  *)
(* the reliable client. Synchronous sends run on their callers' threads,   *)
(* asynchronous ones one after the other on the client's serial asyncQueue.*)
(* Here Calls are calls of send and sendWithDetails of one XpringClient.   *)
(* Each call made with a completion names the queue that is to run it.     *)
(***************************************************************************)
EXTENDS ReliableSubmissionXRPClient, Sequences

CONSTANTS
  NoCall,
  CallbackQueues,  \* the dispatch queues a caller may give
  SerialQueues,    \* those that run one block after the other; the others
                   \* are concurrent
  main             \* the queue when none is given

ASSUME XpringAssumption ==
  /\ NoCall \notin Calls /\ Destinations \cap XAddresses # {}
  /\ SerialQueues \subseteq CallbackQueues /\ main \in SerialQueues

VARIABLES
  stage,      \* how far each call is
  sender,     \* its source wallet
  async,      \* the calls made with a completion
  callbackQueue, \* the queue each of them gave for it
  earlier,    \* history: those of them made before each of them
  asyncQueue, \* those waiting for the queue's thread
  running,    \* the one it runs
  callbacks,  \* completions waiting on each serial callback queue
  outcome     \* the Result of each call

queueVars == <<sender, async, callbackQueue, earlier, asyncQueue, running, callbacks>>
xpringVars == <<stage, outcome, queueVars>>
allVars == <<vars, xpringVars>>

XpringTypeOK ==
  /\ TypeOK
  /\ stage \in [Calls -> {"idle", "queued", "resolving", "sending",
                          "completing", "ended"}]
  /\ sender \in [Calls -> Wallets]
  /\ async \subseteq Calls
  /\ callbackQueue \in [Calls -> CallbackQueues]
  /\ earlier \in [Calls -> SUBSET Calls]
  /\ asyncQueue \in Seq(Calls)
  /\ running \in Calls \cup {NoCall}
  /\ callbacks \in [SerialQueues -> Seq(Calls)]
  /\ outcome \in [Calls -> {"none", "success", "failure"}]

XpringInit ==
  /\ Init
  /\ stage = [c \in Calls |-> "idle"]
  /\ sender \in [Calls -> Wallets]
  /\ async = {}
  /\ callbackQueue = [c \in Calls |-> main]
  /\ earlier = [c \in Calls |-> {}]
  /\ asyncQueue = <<>>
  /\ running = NoCall
  /\ callbacks = [q \in SerialQueues |-> <<>>]
  /\ outcome = [c \in Calls |-> "none"]

(* The synchronous send. *)
send(c) ==
  /\ stage[c] = "idle"
  /\ stage' = [stage EXCEPT ![c] = "resolving"]
  /\ UNCHANGED <<vars, outcome, queueVars>>

(* The send with a completion. *)
sendAsync(c) ==
  /\ stage[c] = "idle"
  /\ stage' = [stage EXCEPT ![c] = "queued"]
  /\ async' = async \cup {c}
  /\ \E q \in CallbackQueues : callbackQueue' = [callbackQueue EXCEPT ![c] = q]
  /\ earlier' = [earlier EXCEPT ![c] = async]
  /\ asyncQueue' = Append(asyncQueue, c)
  /\ UNCHANGED <<vars, outcome, sender, running, callbacks>>

(* Faulty variant of RunAsync: asyncQueue is concurrent. *)
BuggyConcurrentRun ==
  /\ asyncQueue # <<>>
  /\ running' = Head(asyncQueue)
  /\ asyncQueue' = Tail(asyncQueue)
  /\ stage' = [stage EXCEPT ![Head(asyncQueue)] = "resolving"]
  /\ UNCHANGED <<vars, outcome, sender, async, callbackQueue, earlier, callbacks>>

(* asyncQueue's thread takes the next block. *)
RunAsync ==
  /\ running = NoCall /\ asyncQueue # <<>>
  /\ running' = Head(asyncQueue)
  /\ asyncQueue' = Tail(asyncQueue)
  /\ stage' = [stage EXCEPT ![Head(asyncQueue)] = "resolving"]
  /\ UNCHANGED <<vars, outcome, sender, async, callbackQueue, earlier, callbacks>>

(* The call has its Result: it returns, or its block hands the Result to   *)
(* the call's own callback queue and ends. A concurrent queue keeps no     *)
(* order among its blocks, so that their being there is all there is to it. *)
Complete(c, r) ==
  /\ outcome' = [outcome EXCEPT ![c] = r]
  /\ IF c \in async
     THEN /\ stage' = [stage EXCEPT ![c] = "completing"]
          /\ callbacks' = IF callbackQueue[c] \in SerialQueues
                          THEN [callbacks EXCEPT ![callbackQueue[c]] = Append(@, c)]
                          ELSE callbacks
          /\ running' = NoCall
     ELSE /\ stage' = [stage EXCEPT ![c] = "ended"]
          /\ UNCHANGED <<callbacks, running>>
  /\ UNCHANGED <<sender, async, callbackQueue, earlier, asyncQueue>>

(* xrpAddress(for:) gives an X-address, and the reliable client is called  *)
(* with it; or it gives an error, and nothing is sent.                     *)
Resolve(c) ==
  /\ stage[c] = "resolving"
  /\ \/ /\ \E address \in Destinations \cap XAddresses :
             Begin(c, [method |-> "send", wallet |-> sender[c],
                       payload |-> address], {address, sender[c]})
        /\ stage' = [stage EXCEPT ![c] = "sending"]
        /\ UNCHANGED <<awaitVars, outcome, queueVars>>
     \/ Complete(c, "failure") /\ UNCHANGED vars

(* Faulty variants of Finish: a failed send is made once more; a failed     *)
(* send is not completed; a hash is handed over before the reliable client  *)
(* has waited for its transaction.                                         *)
BuggyResend(c) ==
  /\ stage[c] = "sending"
  /\ \/ Returned(c) /\ Complete(c, "success") /\ UNCHANGED vars
     \/ /\ pc[c] = "threw"
        /\ pc' = [pc EXCEPT ![c] = "accountInfo"]
        /\ UNCHANGED <<ledgerVars, request, seq, tx, result, awaitVars, xpringVars>>

BuggyErrorForgotten(c) ==
  /\ stage[c] = "sending"
  /\ Returned(c) /\ Complete(c, "success")
  /\ UNCHANGED vars

BuggyNoWait(c) ==
  /\ stage[c] = "sending"
  /\ \/ pc[c] = "returned" /\ Complete(c, "success")
     \/ pc[c] = "threw" /\ Complete(c, "failure")
  /\ UNCHANGED vars

(* The reliable client returned a hash or threw. *)
Finish(c) ==
  /\ stage[c] = "sending"
  /\ \/ Returned(c) /\ Complete(c, "success")
     \/ Threw(c) /\ Complete(c, "failure")
  /\ UNCHANGED vars

(* The callback queue of a call runs its completion: a serial queue when it *)
(* is the first there, a concurrent one at any time.                       *)
RunCallback(c) ==
  /\ stage[c] = "completing"
  /\ LET q == callbackQueue[c] IN
       \/ /\ q \in SerialQueues /\ callbacks[q] # <<>> /\ c = Head(callbacks[q])
          /\ callbacks' = [callbacks EXCEPT ![q] = Tail(@)]
       \/ q \notin SerialQueues /\ UNCHANGED callbacks
  /\ stage' = [stage EXCEPT ![c] = "ended"]
  /\ UNCHANGED <<vars, outcome, sender, async, callbackQueue, earlier, asyncQueue, running>>

(* A thread that is in send goes on. *)
XpringStep(c) ==
  Resolve(c) \/ Finish(c) \/ (Step(c) /\ UNCHANGED xpringVars)

XpringNext ==
  \/ CloseLedger /\ UNCHANGED <<clientVars, awaitVars, xpringVars>>
  \/ \E c \in Calls : send(c) \/ sendAsync(c) \/ XpringStep(c) \/ RunCallback(c)
  \/ RunAsync

XpringSpec == XpringInit /\ [][XpringNext]_allVars

(* Ledgers keep closing, requests are answered or fail, and dispatch       *)
(* queues run their blocks.                                                *)
FairXpringSpec ==
  /\ XpringSpec
  /\ WF_allVars(CloseLedger /\ UNCHANGED <<clientVars, awaitVars, xpringVars>>)
  /\ \A c \in Calls : WF_allVars(XpringStep(c)) /\ WF_allVars(RunCallback(c))
  /\ WF_allVars(RunAsync)
-----------------------------------------------------------------------------
(* Asynchronous sends that succeeded are payments of their own: asyncQueue *)
(* lets one start only when the one before it is settled, so that no two   *)
(* of them sign the same transaction.                                      *)
AsyncSendsAreDistinct ==
  \A c, d \in async : c # d /\ outcome[c] = "success" /\ outcome[d] = "success"
    => tx[c] # tx[d]

(* XpringClient keeps the promise of README.md:248 across its own queues: a *)
(* send to a PayID that succeeded is of a settled transaction, and neither  *)
(* that Result nor what has become of the payment changes again.            *)
SuccessIsFinal ==
  [][\A c \in Calls : outcome[c] = "success" =>
       /\ Settled(tx[c])
       /\ outcome'[c] = "success" /\ tx'[c] = tx[c]
       /\ (tx[c] \in tesTxs') = (tx[c] \in tesTxs)
       /\ (tx[c] \in tecTxs') = (tx[c] \in tecTxs)]_allVars

(* Completions that one serial queue runs come in the order of their sends, *)
(* whatever fails and whatever synchronous sends do meanwhile. Of sends     *)
(* with different queues, or a concurrent one, nothing of the kind is said. *)
AsyncSendsInOrder ==
  \A d \in async : \A c \in earlier[d] :
    /\ callbackQueue[c] = callbackQueue[d] /\ callbackQueue[d] \in SerialQueues
    /\ stage[d] = "ended"
    => stage[c] = "ended"

Items(s) == {s[i] : i \in 1..Len(s)}

Ordered(s, before) == \A i, j \in 1..Len(s) : i < j => s[i] \in before[s[j]]

(* asyncQueue holds the sends that are queued and a serial callback queue   *)
(* those that gave it and have a Result, in the order the sends were made; *)
(* and at most one asynchronous send is under way.                         *)
QueuesInOrder ==
  /\ Items(asyncQueue) = {c \in async : stage[c] = "queued"}
  /\ Ordered(asyncQueue, earlier)
  /\ \A q \in SerialQueues :
       /\ Items(callbacks[q]) =
            {c \in async : stage[c] = "completing" /\ callbackQueue[c] = q}
       /\ Ordered(callbacks[q], earlier)
  /\ \A c \in async :
       /\ stage[c] # "idle"
       /\ stage[c] \in {"resolving", "sending"} => running = c

(* Of two asynchronous sends one was made before the other, and the later   *)
(* one is not further than the earlier one.                                *)
SendsInLine ==
  /\ \A c \in Calls : earlier[c] \subseteq async \ {c}
  /\ \A c, d \in async : c # d => (c \in earlier[d] <=> d \notin earlier[c])
  /\ \A d \in async : \A c \in earlier[d] :
       /\ stage[d] # "queued" => stage[c] # "queued"
       /\ stage[d] \in {"completing", "ended"} => stage[c] \in {"completing", "ended"}

(* The reliable client is in a call exactly while its send is sending.      *)
SendsInOrder ==
  \A c \in Calls :
    /\ stage[c] \in {"idle", "queued", "resolving"} => pc[c] = "idle"
    /\ pc[c] \notin {"idle", "returned", "threw"} => stage[c] = "sending"
    /\ pc[c] # "idle" => request[c].method = "send"
    /\ outcome[c] = "success" =>
         Returned(c) /\ pc[c] # "idle" /\ stage[c] \in {"completing", "ended"}

(* While an asynchronous send builds its transaction, those that succeeded  *)
(* before it are behind the sequence number it has read, or expired.        *)
EarlierSendsBehind ==
  \A c, d \in async : c # d /\ outcome[c] = "success" =>
    /\ pc[d] \in {"fee", "openLedger"} /\ tx[c] \in Validated
         /\ tx[c].account = request[d].wallet => tx[c].sequence < seq[d]
    /\ tx[d] # NoTx /\ (stage[d] = "sending" \/ outcome[d] = "success")
         => tx[c] # tx[d]

(* The inductive invariant behind AsyncSendsAreDistinct and                 *)
(* AsyncSendsInOrder.                                                      *)
XpringInv ==
  /\ IInv /\ XpringTypeOK
  /\ QueuesInOrder /\ SendsInLine /\ AsyncSendsInOrder
  /\ SendsInOrder /\ EarlierSendsBehind

(* Whatever resolution and the queues do, the reliable client is used as   *)
(* its own specification allows, so that what it promises holds here.      *)
UsesReliableClient == Spec

(* Every send returns or has its completion called.                        *)
EverySendEnds == \A c \in Calls : stage[c] # "idle" ~> stage[c] = "ended"
=============================================================================
