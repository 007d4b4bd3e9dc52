------------------------- MODULE XpringClientProofs -------------------------
(* Theorems about XpringClient: it uses the reliable client as that one     *)
(* specifies, and its asynchronous sends are payments of their own, for any *)
(* number of calls and wallets.                                             *)
EXTENDS XpringClient, SubmissionContractProofs

(* Resolve makes the reliable client begin a send. *)
LEMMA ResolveBegins ==
  ASSUME XpringTypeOK, NEW c \in Calls, NEW address \in Destinations \cap XAddresses,
         Begin(c, [method |-> "send", wallet |-> sender[c], payload |-> address],
               {address, sender[c]})
  PROVE  DefaultBegin(c)
<1>1. sender[c] \in Wallets
  BY DEF XpringTypeOK
<1> QED BY <1>1 DEF DefaultBegin, sendWithDetails

(* Every step is one of the reliable client, or leaves it alone. *)
LEMMA StepsAreReliable ==
  ASSUME XpringTypeOK, [XpringNext]_allVars
  PROVE  [Next]_vars
<1>1. CASE CloseLedger /\ UNCHANGED <<clientVars, awaitVars, xpringVars>>
  BY <1>1 DEF Next
<1>2. ASSUME NEW c \in Calls, Resolve(c)
      PROVE  [Next]_vars
  BY <1>2, ResolveBegins DEF Resolve, Next
<1>3. ASSUME NEW c \in Calls, send(c) \/ sendAsync(c) \/ Finish(c)
      PROVE  UNCHANGED vars
  BY <1>3 DEF send, sendAsync, Finish
<1>4. ASSUME NEW c \in Calls, Step(c) PROVE Next
  BY <1>4 DEF Next
<1>5. CASE RunAsync \/ \E c \in Calls : RunCallback(c)
  BY <1>5 DEF RunAsync, RunCallback
<1>6. CASE UNCHANGED allVars
  BY <1>6 DEF allVars
<1> QED BY <1>1, <1>2, <1>3, <1>4, <1>5, <1>6 DEF XpringNext, XpringStep

LEMMA XpringInitInv == XpringInit => XpringInv
<1> SUFFICES ASSUME XpringInit PROVE XpringInv
  OBVIOUS
<1>1. IInv /\ Init
  BY InitInv DEF XpringInit
<1>2. XpringTypeOK /\ QueuesInOrder /\ SendsInLine /\ AsyncSendsInOrder
  BY <1>1, XpringAssumption
  DEF XpringInit, XpringTypeOK, QueuesInOrder, Items, Ordered, SendsInLine, AsyncSendsInOrder, IInv
<1>3. SendsInOrder
  BY <1>1 DEF XpringInit, Init, DefaultInit, SendsInOrder
<1>4. EarlierSendsBehind
  BY DEF XpringInit, EarlierSendsBehind
<1> QED BY <1>1, <1>2, <1>3, <1>4 DEF XpringInv

(* A send that succeeded has returned from the reliable client, so that its *)
(* transaction is settled.                                                  *)
LEMMA SucceededIsSettled ==
  ASSUME XpringInv, NEW c \in Calls, outcome[c] = "success"
  PROVE  /\ pc[c] = "returned" /\ Submits(c) /\ await[c] = "returned"
         /\ tx[c] \in Tx /\ Settled(tx[c])
<1>1. pc[c] = "returned" /\ request[c].method = "send" /\ Returned(c)
  BY DEF XpringInv, SendsInOrder, Returned
<1>2. request[c] # NoRequest /\ tx[c] \in Tx
  BY <1>1 DEF XpringInv, IInv, DefaultInv, DefaultTypeOK, PrepareInOrder
<1>3. Submits(c) /\ await[c] = "returned"
  BY <1>1, <1>2 DEF Submits, Returned
<1> QED BY <1>1, <1>2, <1>3 DEF XpringInv, IInv, WaitInOrder

(* It stays so, with its transaction and what has become of it. *)
LEMMA SucceededStays ==
  ASSUME XpringInv, [Next]_vars, NEW c \in Calls, outcome[c] = "success"
  PROVE  /\ pc'[c] = "returned" /\ request'[c] = request[c] /\ tx'[c] = tx[c]
         /\ Returned(c)'
         /\ (tx[c] \in tesTxs)' = (tx[c] \in tesTxs)
         /\ (tx[c] \in tecTxs)' = (tx[c] \in tecTxs)
         /\ (tx[c] \in Validated)' = (tx[c] \in Validated)
<1>1. /\ pc[c] = "returned" /\ Submits(c) /\ await[c] = "returned"
      /\ tx[c] \in Tx /\ Settled(tx[c])
  BY SucceededIsSettled
<1>2. /\ pc'[c] = "returned" /\ request'[c] = request[c] /\ tx'[c] = tx[c]
      /\ (tx[c] \in tesTxs)' = (tx[c] \in tesTxs)
      /\ (tx[c] \in tecTxs)' = (tx[c] \in tecTxs)
  BY <1>1, Decorates, WaitUndisturbed DEF XpringInv, IInv
<1>3. await'[c] = "returned"
  <2>1. CASE UNCHANGED awaitVars
    BY <1>1, <2>1 DEF awaitVars
  <2>2. CASE \E d \in Calls : AwaitStep(d)
    <3>1. PICK d \in Calls : AwaitStep(d)
      BY <2>2
    <3>2. d # c
      BY <1>1, <3>1 DEF AwaitStep, AwaitStatus, AwaitLatest, PollLatest,
        PollStatus, AwaitError, Awaiting, AwaitSteps
    <3> QED
      BY <1>1, <3>1, <3>2 DEF AwaitStep, AwaitStatus, AwaitLatest, PollLatest,
        PollStatus, AwaitError, PollOrReturn, XpringInv, IInv, TypeOK
  <2> QED BY <2>1, <2>2 DEF Next, Step, vars
<1> QED BY <1>2, <1>3 DEF Returned, Validated

(* What Append and Tail make of a queue that is in order.                   *)
LEMMA AfterAppend ==
  ASSUME NEW s \in Seq(Calls), NEW c \in Calls, NEW before,
         Ordered(s, before), \A x \in Items(s) : x \in before[c]
  PROVE  /\ Append(s, c) \in Seq(Calls)
         /\ Items(Append(s, c)) = Items(s) \cup {c}
         /\ Ordered(Append(s, c), before)
<1>1. /\ Append(s, c) \in Seq(Calls) /\ Len(s) \in Nat
      /\ Len(Append(s, c)) = Len(s) + 1
      /\ Append(s, c)[Len(s) + 1] = c
      /\ \A i \in 1..Len(s) : Append(s, c)[i] = s[i]
  OBVIOUS
<1>2. ASSUME NEW i \in 1..Len(Append(s, c))
      PROVE  i \in 1..Len(s) \/ i = Len(s) + 1
  BY <1>1
<1>3. Items(Append(s, c)) = Items(s) \cup {c}
  <2>1. 1..Len(Append(s, c)) = 1..Len(s) \cup {Len(s) + 1}
    BY <1>1
  <2> QED BY <1>1, <2>1 DEF Items
<1>4. ASSUME NEW i \in 1..Len(Append(s, c)), NEW j \in 1..Len(Append(s, c)), i < j
      PROVE  Append(s, c)[i] \in before[Append(s, c)[j]]
  <2>1. i \in 1..Len(s)
    BY <1>1, <1>4
  <2>2. CASE j \in 1..Len(s)
    BY <1>1, <1>4, <2>1, <2>2 DEF Ordered
  <2>3. CASE j = Len(s) + 1
    BY <1>1, <2>1, <2>3 DEF Items
  <2> QED BY <1>2, <2>2, <2>3
<1> QED BY <1>1, <1>3, <1>4 DEF Ordered

LEMMA AfterTail ==
  ASSUME NEW s \in Seq(Calls), s # <<>>, NEW before,
         Ordered(s, before), \A c \in Calls : c \notin before[c]
  PROVE  /\ Tail(s) \in Seq(Calls) /\ Head(s) \in Items(s) /\ Head(s) \in Calls
         /\ Items(Tail(s)) = Items(s) \ {Head(s)}
         /\ Ordered(Tail(s), before)
         /\ \A x \in Items(s) \ {Head(s)} : Head(s) \in before[x]
<1>1. /\ Tail(s) \in Seq(Calls) /\ Len(s) \in Nat \ {0} /\ Len(Tail(s)) = Len(s) - 1
      /\ \A i \in 1..Len(s) - 1 : Tail(s)[i] = s[i + 1]
      /\ Head(s) = s[1] /\ s[1] \in Calls
      /\ \A i \in 1..Len(s) : s[i] \in Calls
  OBVIOUS
<1>2. ASSUME NEW i \in 1..Len(s), i # 1
      PROVE  /\ i - 1 \in 1..Len(Tail(s)) /\ Tail(s)[i - 1] = s[i]
             /\ s[1] \in before[s[i]] /\ s[i] # s[1]
  <2>1. i - 1 \in 1..Len(s) - 1 /\ (i - 1) + 1 = i /\ 1 < i /\ 1 \in 1..Len(s)
    BY <1>1, <1>2
  <2>2. s[1] \in before[s[i]]
    BY <2>1 DEF Ordered
  <2> QED BY <1>1, <2>1, <2>2
<1>3. ASSUME NEW i \in 1..Len(Tail(s))
      PROVE  i + 1 \in 1..Len(s) /\ i + 1 # 1 /\ Tail(s)[i] = s[i + 1]
  BY <1>1
<1>4. Items(Tail(s)) = Items(s) \ {Head(s)}
  <2>1. ASSUME NEW x \in Items(Tail(s)) PROVE x \in Items(s) \ {Head(s)}
    <3>1. PICK i \in 1..Len(Tail(s)) : x = Tail(s)[i]
      BY DEF Items
    <3>2. i + 1 \in 1..Len(s) /\ i + 1 # 1 /\ x = s[i + 1]
      BY <1>3, <3>1
    <3>3. s[i + 1] # s[1]
      BY <1>2, <3>2
    <3> QED BY <1>1, <3>2, <3>3 DEF Items
  <2>2. ASSUME NEW x \in Items(s) \ {Head(s)} PROVE x \in Items(Tail(s))
    <3>1. PICK i \in 1..Len(s) : x = s[i]
      BY DEF Items
    <3>2. i # 1
      BY <1>1, <2>2, <3>1
    <3>3. i - 1 \in 1..Len(Tail(s)) /\ Tail(s)[i - 1] = x
      BY <1>2, <3>1, <3>2
    <3> QED BY <3>3 DEF Items
  <2> QED BY <2>1, <2>2
<1>5. Ordered(Tail(s), before)
  <2> SUFFICES ASSUME NEW i \in 1..Len(Tail(s)), NEW j \in 1..Len(Tail(s)), i < j
               PROVE  Tail(s)[i] \in before[Tail(s)[j]]
    BY DEF Ordered
  <2>1. i + 1 < j + 1
    BY <1>1
  <2> QED BY <1>3, <2>1 DEF Ordered
<1>6. \A x \in Items(s) \ {Head(s)} : Head(s) \in before[x]
  BY <1>1, <1>2 DEF Items
<1>7. Head(s) \in Items(s)
  BY <1>1 DEF Items
<1> QED BY <1>1, <1>4, <1>5, <1>6, <1>7

(* asyncQueue takes the earliest of the sends that are queued.              *)
LEMMA RunAsyncTakes ==
  ASSUME XpringInv, RunAsync
  PROVE  /\ Head(asyncQueue) \in async /\ Head(asyncQueue) \in Calls
         /\ stage[Head(asyncQueue)] = "queued"
         /\ asyncQueue' \in Seq(Calls) /\ Ordered(asyncQueue', earlier)
         /\ Items(asyncQueue') = Items(asyncQueue) \ {Head(asyncQueue)}
         /\ \A d \in async : stage[d] = "queued" /\ d # Head(asyncQueue) =>
              Head(asyncQueue) \in earlier[d]
<1>1. /\ asyncQueue \in Seq(Calls) /\ asyncQueue # <<>>
      /\ Ordered(asyncQueue, earlier) /\ \A c \in Calls : c \notin earlier[c]
      /\ Items(asyncQueue) = {c \in async : stage[c] = "queued"}
      /\ asyncQueue' = Tail(asyncQueue)
  BY DEF RunAsync, XpringInv, XpringTypeOK, QueuesInOrder, SendsInLine
<1> QED BY <1>1, AfterTail

(* A call that goes on without touching the queues is synchronous, or the   *)
(* one asynchronous send that is under way.                                 *)
LEMMA UnderWayKeepsQueues ==
  ASSUME XpringInv, NEW c \in Calls, NEW s \in {"resolving", "sending"},
         c \notin async \/ stage[c] \in {"resolving", "sending"},
         stage' = [stage EXCEPT ![c] = s], UNCHANGED <<outcome, queueVars>>, TypeOK'
  PROVE  XpringTypeOK' /\ QueuesInOrder' /\ SendsInLine' /\ AsyncSendsInOrder'
<1> USE DEF XpringInv, XpringTypeOK, queueVars
<1>1. /\ \A d \in Calls \ {c} : stage'[d] = stage[d]
      /\ stage'[c] = s
  OBVIOUS
<1>2. \A d \in async :
        /\ (stage'[d] = "queued") = (stage[d] = "queued")
        /\ (stage'[d] = "completing") = (stage[d] = "completing")
        /\ (stage'[d] = "ended") = (stage[d] = "ended")
        /\ (stage'[d] = "idle") = (stage[d] = "idle")
        /\ (stage'[d] \in {"resolving", "sending"}) = (stage[d] \in {"resolving", "sending"})
  BY <1>1
<1>3. XpringTypeOK'
  OBVIOUS
<1>4. QueuesInOrder'
  BY <1>2 DEF QueuesInOrder, Items, Ordered
<1>5. SendsInLine'
  BY <1>2 DEF SendsInLine
<1>6. AsyncSendsInOrder'
  BY <1>2 DEF AsyncSendsInOrder, SendsInLine
<1> QED BY <1>3, <1>4, <1>5, <1>6

(* A send with a completion is made after all there are, and queued last.   *)
LEMMA sendAsyncKeepsQueues ==
  ASSUME XpringInv, NEW c \in Calls, sendAsync(c), TypeOK'
  PROVE  XpringTypeOK' /\ QueuesInOrder' /\ SendsInLine' /\ AsyncSendsInOrder'
<1> USE DEF XpringInv, XpringTypeOK
<1>1. PICK q \in CallbackQueues : callbackQueue' = [callbackQueue EXCEPT ![c] = q]
  BY DEF sendAsync
<1>2. /\ stage[c] = "idle" /\ stage' = [stage EXCEPT ![c] = "queued"]
      /\ async' = async \cup {c} /\ earlier' = [earlier EXCEPT ![c] = async]
      /\ asyncQueue' = Append(asyncQueue, c)
      /\ UNCHANGED <<outcome, sender, running, callbacks>>
  BY DEF sendAsync
<1>3. /\ c \notin async
      /\ \A d \in async : /\ stage'[d] = stage[d] /\ earlier'[d] = earlier[d]
                          /\ callbackQueue'[d] = callbackQueue[d] /\ d \in Calls
      /\ stage'[c] = "queued" /\ earlier'[c] = async
      /\ \A d \in Calls \ {c} : earlier'[d] = earlier[d]
  BY <1>1, <1>2 DEF QueuesInOrder
<1>4. Ordered(asyncQueue, earlier') /\ \A x \in Items(asyncQueue) : x \in earlier'[c]
  BY <1>3 DEF QueuesInOrder, Ordered, Items
<1>5. /\ asyncQueue' \in Seq(Calls) /\ Ordered(asyncQueue', earlier')
      /\ Items(asyncQueue') = Items(asyncQueue) \cup {c}
  BY <1>2, <1>4, AfterAppend
<1>6. XpringTypeOK'
  BY <1>1, <1>2, <1>5
<1>7. SendsInLine'
  <2>1. \A d \in Calls : earlier'[d] \subseteq async' \ {d}
    BY <1>2, <1>3 DEF SendsInLine
  <2>2. ASSUME NEW d \in async', NEW e \in async', d # e
        PROVE  d \in earlier'[e] <=> e \notin earlier'[d]
    BY <1>2, <1>3, <2>2 DEF SendsInLine
  <2>3. ASSUME NEW d \in async', NEW e \in earlier'[d]
        PROVE  /\ stage'[d] # "queued" => stage'[e] # "queued"
               /\ stage'[d] \in {"completing", "ended"} => stage'[e] \in {"completing", "ended"}
    BY <1>2, <1>3 DEF SendsInLine
  <2> QED BY <2>1, <2>2, <2>3 DEF SendsInLine
<1>8. AsyncSendsInOrder'
  <2> SUFFICES ASSUME NEW d \in async', NEW e \in earlier'[d],
                      callbackQueue'[e] = callbackQueue'[d],
                      callbackQueue'[d] \in SerialQueues, stage'[d] = "ended"
               PROVE  stage'[e] = "ended"
    BY DEF AsyncSendsInOrder
  <2>1. d \in async /\ e \in earlier[d] /\ e \in async
    BY <1>2, <1>3 DEF SendsInLine
  <2> QED BY <1>3, <2>1 DEF AsyncSendsInOrder
<1>9. QueuesInOrder'
  <2>1. Items(asyncQueue') = {d \in async' : stage'[d] = "queued"}
    BY <1>2, <1>3, <1>5 DEF QueuesInOrder
  <2>2. ASSUME NEW p \in SerialQueues
        PROVE  /\ Items(callbacks'[p]) =
                    {d \in async' : stage'[d] = "completing" /\ callbackQueue'[d] = p}
               /\ Ordered(callbacks'[p], earlier')
    <3>1. Items(callbacks[p]) \subseteq async
      BY DEF QueuesInOrder
    <3>2. Items(callbacks'[p]) = Items(callbacks[p])
      BY <1>2
    <3>3. Ordered(callbacks'[p], earlier')
      BY <1>2, <1>3, <3>1 DEF QueuesInOrder, Ordered, Items
    <3> QED BY <1>2, <1>3, <3>2, <3>3 DEF QueuesInOrder
  <2>3. ASSUME NEW d \in async'
        PROVE  /\ stage'[d] # "idle"
               /\ stage'[d] \in {"resolving", "sending"} => running' = d
    BY <1>2, <1>3 DEF QueuesInOrder
  <2> QED BY <1>5, <2>1, <2>2, <2>3 DEF QueuesInOrder
<1> QED BY <1>6, <1>7, <1>8, <1>9

(* The send asyncQueue takes is the earliest of those queued, and none made *)
(* before it is under way any more.                                         *)
LEMMA RunAsyncKeepsQueues ==
  ASSUME XpringInv, RunAsync, TypeOK'
  PROVE  XpringTypeOK' /\ QueuesInOrder' /\ SendsInLine' /\ AsyncSendsInOrder'
<1> DEFINE h == Head(asyncQueue)
<1> USE DEF XpringInv, XpringTypeOK
<1>1. /\ h \in async /\ h \in Calls /\ stage[h] = "queued"
      /\ asyncQueue' \in Seq(Calls) /\ Ordered(asyncQueue', earlier)
      /\ Items(asyncQueue') = Items(asyncQueue) \ {h}
      /\ \A d \in async : stage[d] = "queued" /\ d # h => h \in earlier[d]
  BY RunAsyncTakes
<1>2. /\ running = NoCall /\ running' = h
      /\ stage' = [stage EXCEPT ![h] = "resolving"]
      /\ UNCHANGED <<outcome, sender, async, callbackQueue, earlier, callbacks>>
  BY DEF RunAsync
<1> HIDE DEF h
<1>3. /\ stage'[h] = "resolving" /\ \A d \in Calls \ {h} : stage'[d] = stage[d]
      /\ \A d \in async : d \in Calls
  BY <1>1, <1>2
<1>4. XpringTypeOK'
  BY <1>1, <1>2
<1>5. SendsInLine'
  <2> SUFFICES ASSUME NEW d \in async, NEW e \in earlier[d]
               PROVE  /\ stage'[d] # "queued" => stage'[e] # "queued"
                      /\ stage'[d] \in {"completing", "ended"} =>
                           stage'[e] \in {"completing", "ended"}
    BY <1>2 DEF SendsInLine
  <2>1. e \in async /\ e # d
    BY <1>3 DEF SendsInLine
  <2>2. CASE d = h
    <3>1. stage[e] # "queued"
      BY <1>1, <2>1, <2>2 DEF SendsInLine
    <3> QED BY <1>3, <2>1, <2>2, <3>1
  <2>3. CASE d # h
    BY <1>1, <1>3, <2>1, <2>3 DEF SendsInLine
  <2> QED BY <2>2, <2>3
<1>6. AsyncSendsInOrder'
  <2> SUFFICES ASSUME NEW d \in async, NEW e \in earlier[d],
                      callbackQueue[e] = callbackQueue[d],
                      callbackQueue[d] \in SerialQueues, stage'[d] = "ended"
               PROVE  stage'[e] = "ended"
    BY <1>2 DEF AsyncSendsInOrder
  <2>1. d # h /\ stage[d] = "ended" /\ e \in async
    BY <1>3 DEF SendsInLine
  <2>2. stage[e] = "ended"
    BY <2>1 DEF AsyncSendsInOrder
  <2> QED BY <1>1, <1>3, <2>1, <2>2
<1>7. QueuesInOrder'
  <2>1. Items(asyncQueue') = {d \in async' : stage'[d] = "queued"}
    BY <1>1, <1>2, <1>3 DEF QueuesInOrder
  <2>2. ASSUME NEW p \in SerialQueues
        PROVE  /\ Items(callbacks'[p]) =
                    {d \in async' : stage'[d] = "completing" /\ callbackQueue'[d] = p}
               /\ Ordered(callbacks'[p], earlier')
    BY <1>1, <1>2, <1>3 DEF QueuesInOrder
  <2>3. ASSUME NEW d \in async'
        PROVE  /\ stage'[d] # "idle"
               /\ stage'[d] \in {"resolving", "sending"} => running' = d
    BY <1>2, <1>3, XpringAssumption DEF QueuesInOrder
  <2> QED BY <1>1, <1>2, <2>1, <2>2, <2>3 DEF QueuesInOrder
<1> QED BY <1>4, <1>5, <1>6, <1>7

(* An asynchronous send that has its Result is the one asyncQueue runs: all *)
(* those made before it have theirs, and it joins their queue behind them.  *)
LEMMA CompleteKeepsQueues ==
  ASSUME XpringInv, NEW c \in Calls, NEW r \in {"success", "failure"},
         stage[c] \in {"resolving", "sending"}, Complete(c, r), TypeOK'
  PROVE  XpringTypeOK' /\ QueuesInOrder' /\ SendsInLine' /\ AsyncSendsInOrder'
<1> USE DEF XpringInv, XpringTypeOK
<1>1. CASE c \in async
  <2> DEFINE q == callbackQueue[c]
  <2>1. /\ stage' = [stage EXCEPT ![c] = "completing"] /\ running' = NoCall
        /\ UNCHANGED <<sender, async, callbackQueue, earlier, asyncQueue>>
        /\ outcome' = [outcome EXCEPT ![c] = r]
        /\ callbacks' = IF q \in SerialQueues
                        THEN [callbacks EXCEPT ![q] = Append(callbacks[q], c)]
                        ELSE callbacks
    BY <1>1 DEF Complete
  <2> HIDE DEF q
  <2>2. /\ stage'[c] = "completing" /\ \A d \in Calls \ {c} : stage'[d] = stage[d]
        /\ \A d \in async : d \in Calls /\ (d # c => stage[d] \notin {"resolving", "sending"})
    BY <1>1, <2>1 DEF QueuesInOrder
  <2>3. \A e \in earlier[c] : e \in async /\ e # c /\ stage[e] \in {"completing", "ended"}
    <3> SUFFICES ASSUME NEW e \in earlier[c]
                 PROVE  e \in async /\ e # c /\ stage[e] \in {"completing", "ended"}
      OBVIOUS
    <3>1. e \in async /\ e # c /\ stage[e] # "queued" /\ stage[e] # "idle"
      BY <1>1 DEF SendsInLine, QueuesInOrder
    <3> QED BY <2>2, <3>1
  <2>4. \A d \in async : d # c /\ stage[d] \in {"completing", "ended"} => d \in earlier[c]
    BY <1>1 DEF SendsInLine
  <2>5. SendsInLine'
    <3> SUFFICES ASSUME NEW d \in async, NEW e \in earlier[d]
                 PROVE  /\ stage'[d] # "queued" => stage'[e] # "queued"
                        /\ stage'[d] \in {"completing", "ended"} =>
                             stage'[e] \in {"completing", "ended"}
      BY <2>1 DEF SendsInLine
    <3>1. e \in async /\ e # d /\ e \in Calls
      BY <2>2 DEF SendsInLine
    <3>2. CASE d = c
      BY <2>2, <2>3, <3>1, <3>2
    <3>3. CASE d # c
      BY <2>2, <3>1, <3>3 DEF SendsInLine
    <3> QED BY <3>2, <3>3
  <2>6. AsyncSendsInOrder'
    <3> SUFFICES ASSUME NEW d \in async, NEW e \in earlier[d],
                        callbackQueue[e] = callbackQueue[d],
                        callbackQueue[d] \in SerialQueues, stage'[d] = "ended"
                 PROVE  stage'[e] = "ended"
      BY <2>1 DEF AsyncSendsInOrder
    <3>1. d # c /\ stage[d] = "ended" /\ e \in Calls
      BY <2>2 DEF SendsInLine
    <3>2. stage[e] = "ended"
      BY <3>1 DEF AsyncSendsInOrder
    <3> QED BY <2>2, <3>1, <3>2
  <2>7. q \in SerialQueues =>
          /\ Append(callbacks[q], c) \in Seq(Calls)
          /\ Items(Append(callbacks[q], c)) = Items(callbacks[q]) \cup {c}
          /\ Ordered(Append(callbacks[q], c), earlier)
    <3> SUFFICES ASSUME q \in SerialQueues
                 PROVE  /\ Append(callbacks[q], c) \in Seq(Calls)
                        /\ Items(Append(callbacks[q], c)) = Items(callbacks[q]) \cup {c}
                        /\ Ordered(Append(callbacks[q], c), earlier)
      OBVIOUS
    <3>1. /\ callbacks[q] \in Seq(Calls) /\ Ordered(callbacks[q], earlier)
          /\ \A x \in Items(callbacks[q]) : x \in async /\ stage[x] = "completing"
      BY DEF QueuesInOrder
    <3>2. \A x \in Items(callbacks[q]) : x \in earlier[c]
      BY <2>4, <3>1
    <3> QED BY <3>1, <3>2, AfterAppend
  <2>8. XpringTypeOK'
    BY <2>1, <2>7
  <2>9. QueuesInOrder'
    <3>1. Items(asyncQueue') = {d \in async' : stage'[d] = "queued"}
      BY <2>1, <2>2 DEF QueuesInOrder
    <3>2. ASSUME NEW p \in SerialQueues
          PROVE  /\ Items(callbacks'[p]) =
                      {d \in async' : stage'[d] = "completing" /\ callbackQueue'[d] = p}
                 /\ Ordered(callbacks'[p], earlier')
      <4>1. CASE p = q
        <5>1. callbacks'[p] = Append(callbacks[q], c)
          BY <2>1, <4>1
        <5> QED BY <1>1, <2>1, <2>2, <2>7, <4>1, <5>1 DEF QueuesInOrder, q
      <4>2. CASE p # q
        <5>1. callbacks'[p] = callbacks[p]
          BY <2>1, <4>2
        <5> QED BY <1>1, <2>1, <2>2, <4>2, <5>1 DEF QueuesInOrder, q
      <4> QED BY <4>1, <4>2
    <3>3. ASSUME NEW d \in async'
          PROVE  /\ stage'[d] # "idle"
                 /\ stage'[d] \in {"resolving", "sending"} => running' = d
      BY <2>1, <2>2 DEF QueuesInOrder
    <3>4. Ordered(asyncQueue', earlier')
      BY <2>1 DEF QueuesInOrder
    <3> QED BY <3>1, <3>2, <3>3, <3>4 DEF QueuesInOrder
  <2> QED BY <2>5, <2>6, <2>8, <2>9
<1>2. CASE c \notin async
  <2>1. /\ stage' = [stage EXCEPT ![c] = "ended"]
        /\ UNCHANGED <<sender, async, callbackQueue, earlier, asyncQueue, running, callbacks>>
        /\ outcome' = [outcome EXCEPT ![c] = r]
    BY <1>2 DEF Complete
  <2>2. \A d \in async : stage'[d] = stage[d]
    BY <1>2, <2>1
  <2>3. XpringTypeOK'
    BY <2>1
  <2>4. QueuesInOrder'
    BY <2>1, <2>2 DEF QueuesInOrder, Items, Ordered
  <2>5. SendsInLine' /\ AsyncSendsInOrder'
    BY <2>1, <2>2 DEF SendsInLine, AsyncSendsInOrder
  <2> QED BY <2>3, <2>4, <2>5
<1> QED BY <1>1, <1>2

(* A serial queue runs the completion of the earliest of the sends that are  *)
(* there, and those made before it with that queue have had theirs.         *)
LEMMA RunCallbackKeepsQueues ==
  ASSUME XpringInv, NEW c \in Calls, RunCallback(c), TypeOK'
  PROVE  XpringTypeOK' /\ QueuesInOrder' /\ SendsInLine' /\ AsyncSendsInOrder'
<1> DEFINE q == callbackQueue[c]
<1> USE DEF XpringInv, XpringTypeOK
<1>1. /\ stage[c] = "completing" /\ stage' = [stage EXCEPT ![c] = "ended"]
      /\ UNCHANGED <<outcome, sender, async, callbackQueue, earlier, asyncQueue, running>>
      /\ \/ /\ q \in SerialQueues /\ callbacks[q] # <<>> /\ c = Head(callbacks[q])
            /\ callbacks' = [callbacks EXCEPT ![q] = Tail(callbacks[q])]
         \/ q \notin SerialQueues /\ UNCHANGED callbacks
  BY DEF RunCallback
<1> HIDE DEF q
<1>2. /\ stage'[c] = "ended" /\ \A d \in Calls \ {c} : stage'[d] = stage[d]
      /\ \A d \in async : d \in Calls
      /\ \A d \in Calls : d \notin earlier[d]
  BY <1>1 DEF SendsInLine
<1>3. q \in SerialQueues =>
        /\ Tail(callbacks[q]) \in Seq(Calls)
        /\ Items(Tail(callbacks[q])) = Items(callbacks[q]) \ {c}
        /\ Ordered(Tail(callbacks[q]), earlier)
        /\ \A x \in Items(callbacks[q]) \ {c} : c \in earlier[x]
        /\ callbacks' = [callbacks EXCEPT ![q] = Tail(callbacks[q])]
  <2> SUFFICES ASSUME q \in SerialQueues
               PROVE  /\ Tail(callbacks[q]) \in Seq(Calls)
                      /\ Items(Tail(callbacks[q])) = Items(callbacks[q]) \ {c}
                      /\ Ordered(Tail(callbacks[q]), earlier)
                      /\ \A x \in Items(callbacks[q]) \ {c} : c \in earlier[x]
                      /\ callbacks' = [callbacks EXCEPT ![q] = Tail(callbacks[q])]
    OBVIOUS
  <2>1. callbacks[q] \in Seq(Calls) /\ Ordered(callbacks[q], earlier)
          /\ callbacks[q] # <<>> /\ c = Head(callbacks[q])
    BY <1>1 DEF QueuesInOrder
  <2> QED BY <1>1, <1>2, <2>1, AfterTail
<1>4. XpringTypeOK'
  BY <1>1, <1>3
<1>5. SendsInLine'
  <2> SUFFICES ASSUME NEW d \in async, NEW e \in earlier[d]
               PROVE  /\ stage'[d] # "queued" => stage'[e] # "queued"
                      /\ stage'[d] \in {"completing", "ended"} =>
                           stage'[e] \in {"completing", "ended"}
    BY <1>1 DEF SendsInLine
  <2> QED BY <1>1, <1>2 DEF SendsInLine
<1>6. AsyncSendsInOrder'
  <2> SUFFICES ASSUME NEW d \in async, NEW e \in earlier[d],
                      callbackQueue[e] = callbackQueue[d],
                      callbackQueue[d] \in SerialQueues, stage'[d] = "ended"
               PROVE  stage'[e] = "ended"
    BY <1>1 DEF AsyncSendsInOrder
  <2>1. e \in async /\ e \in Calls /\ e # d
    BY <1>2 DEF SendsInLine
  <2>2. CASE d = c
    <3>1. stage[e] \in {"completing", "ended"}
      BY <1>1, <2>2 DEF SendsInLine
    <3>2. ASSUME stage[e] = "completing" PROVE FALSE
      <4>1. q \in SerialQueues /\ callbackQueue[e] = q
        BY <2>2 DEF q
      <4>2. e \in Items(callbacks[q]) \ {c}
        BY <2>1, <2>2, <3>2, <4>1 DEF QueuesInOrder
      <4>3. c \in earlier[e]
        BY <1>3, <4>1, <4>2
      <4> QED BY <2>1, <2>2, <4>3 DEF SendsInLine
    <3> QED BY <1>2, <2>1, <2>2, <3>1, <3>2
  <2>3. CASE d # c
    BY <1>2, <2>1, <2>3 DEF AsyncSendsInOrder
  <2> QED BY <2>2, <2>3
<1>7. QueuesInOrder'
  <2>1. Items(asyncQueue') = {d \in async' : stage'[d] = "queued"}
    BY <1>1, <1>2 DEF QueuesInOrder
  <2>2. ASSUME NEW p \in SerialQueues
        PROVE  /\ Items(callbacks'[p]) =
                    {d \in async' : stage'[d] = "completing" /\ callbackQueue'[d] = p}
               /\ Ordered(callbacks'[p], earlier')
    <3>1. CASE p = q
      <4>1. callbacks'[p] = Tail(callbacks[q])
        BY <1>3, <3>1
      <4> QED BY <1>1, <1>2, <1>3, <3>1, <4>1 DEF QueuesInOrder
    <3>2. CASE p # q
      <4>1. callbacks'[p] = callbacks[p]
        BY <1>1, <3>2
      <4> QED BY <1>1, <1>2, <3>2, <4>1 DEF QueuesInOrder, q
    <3> QED BY <3>1, <3>2
  <2>3. ASSUME NEW d \in async'
        PROVE  /\ stage'[d] # "idle"
               /\ stage'[d] \in {"resolving", "sending"} => running' = d
    BY <1>1, <1>2 DEF QueuesInOrder
  <2>4. Ordered(asyncQueue', earlier')
    BY <1>1 DEF QueuesInOrder
  <2> QED BY <2>1, <2>2, <2>3, <2>4 DEF QueuesInOrder
<1> QED BY <1>4, <1>5, <1>6, <1>7

(* Types, queues and the order of the sends are kept by every step.         *)
LEMMA QueuesKept ==
  ASSUME XpringInv, [XpringNext]_allVars, TypeOK'
  PROVE  XpringTypeOK' /\ QueuesInOrder' /\ SendsInLine' /\ AsyncSendsInOrder'
<1> DEFINE Kept == XpringTypeOK' /\ QueuesInOrder' /\ SendsInLine' /\ AsyncSendsInOrder'
<1>1. ASSUME NEW c \in Calls, send(c) PROVE Kept
  <2>1. c \notin async /\ stage' = [stage EXCEPT ![c] = "resolving"]
          /\ UNCHANGED <<outcome, queueVars>>
    BY <1>1 DEF send, XpringInv, QueuesInOrder
  <2> QED BY <2>1, UnderWayKeepsQueues
<1>2. ASSUME NEW c \in Calls, Resolve(c) PROVE Kept
  <2>1. CASE stage' = [stage EXCEPT ![c] = "sending"] /\ UNCHANGED <<outcome, queueVars>>
    BY <1>2, <2>1, UnderWayKeepsQueues DEF Resolve
  <2>2. CASE Complete(c, "failure")
    BY <1>2, <2>2, CompleteKeepsQueues DEF Resolve
  <2> QED BY <1>2, <2>1, <2>2 DEF Resolve
<1>3. ASSUME NEW c \in Calls, Finish(c) PROVE Kept
  BY <1>3, CompleteKeepsQueues DEF Finish
<1>4. CASE UNCHANGED xpringVars
  BY <1>4 DEF xpringVars, queueVars, XpringInv, XpringTypeOK, QueuesInOrder, Items, Ordered,
              SendsInLine, AsyncSendsInOrder
<1> QED BY <1>1, <1>2, <1>3, <1>4, sendAsyncKeepsQueues, RunAsyncKeepsQueues,
           RunCallbackKeepsQueues
        DEF XpringNext, XpringStep, allVars

(* What a request of a call does: nothing to other calls, and to its own    *)
(* sequence number and transaction only what prepareBaseTransaction does.   *)
LEMMA RequestFrame ==
  ASSUME DefaultInv, NEW e \in Calls, DefaultStep(e)
  PROVE  /\ UNCHANGED <<request, ledger, sequence, tesTxs, tecTxs>>
         /\ \A d \in Calls \ {e} :
              pc'[d] = pc[d] /\ seq'[d] = seq[d] /\ tx'[d] = tx[d]
         /\ pc[e] \notin {"idle", "returned", "threw"} /\ pc'[e] # "idle"
         /\ \/ /\ pc'[e] \notin {"fee", "openLedger"} /\ tx'[e] = tx[e]
            \/ /\ tx'[e] = NoTx
               /\ seq'[e] = sequence[request[e].wallet]
            \/ /\ tx'[e] = NoTx /\ pc[e] = "fee" /\ seq'[e] = seq[e]
            \/ /\ pc[e] = "openLedger" /\ pc'[e] = "submit"
               /\ \E lead \in 1..OpenLead :
                    tx'[e] = BaseTransaction(request[e], seq[e], ledger + lead)
<1> USE DEF DefaultInv, DefaultTypeOK, PrepareInOrder, ledgerVars, RequestSteps
<1>1. CASE getAccountInfo(e)
  BY <1>1 DEF getAccountInfo
<1>2. CASE getFee(e)
  BY <1>2 DEF getFee
<1>3. CASE getOpenLedgerSequence(e)
  BY <1>3 DEF getOpenLedgerSequence
<1>4. CASE SigningError(e)
  BY <1>4 DEF SigningError
<1>5. CASE signAndSubmitTransaction(e)
  BY <1>5 DEF signAndSubmitTransaction
<1>6. CASE readPaymentStatus(e)
  BY <1>6 DEF readPaymentStatus
<1>7. CASE readRawStatus(e)
  BY <1>7 DEF readRawStatus
<1>8. CASE RPCError(e)
  BY <1>8 DEF RPCError
<1> QED BY <1>1, <1>2, <1>3, <1>4, <1>5, <1>6, <1>7, <1>8 DEF DefaultStep

(* Sends stay in step with the reliable client. *)
LEMMA SendsKept ==
  ASSUME XpringInv, [XpringNext]_allVars
  PROVE  SendsInOrder'
<1> SUFFICES ASSUME NEW c \in Calls
             PROVE
    /\ stage'[c] \in {"idle", "queued", "resolving"} => pc'[c] = "idle"
    /\ pc'[c] \notin {"idle", "returned", "threw"} => stage'[c] = "sending"
    /\ pc'[c] # "idle" => request'[c].method = "send"
    /\ outcome'[c] = "success" =>
         Returned(c)' /\ pc'[c] # "idle" /\ stage'[c] \in {"completing", "ended"}
  BY DEF SendsInOrder
<1>0. [Next]_vars /\ DefaultInv
  BY StepsAreReliable DEF XpringInv, IInv
<1>1. outcome[c] = "success" => Returned(c)' /\ pc'[c] = "returned"
  BY <1>0, SucceededStays
<1> USE DEF XpringInv, XpringTypeOK, SendsInOrder
<1>2. ASSUME NEW e \in Calls, Step(e), UNCHANGED xpringVars
      PROVE  pc'[c] \in {pc[c]} \/ (pc[c] \notin {"idle", "returned", "threw"}
                                    /\ pc'[c] # "idle")
  <2>1. CASE DefaultStep(e)
    BY <1>0, <2>1, RequestFrame
  <2>2. CASE AwaitStep(e)
    BY <2>2 DEF AwaitStep, AwaitStatus, AwaitLatest, PollLatest, PollStatus,
      AwaitError, defaultVars, clientVars
  <2> QED BY <1>2, <2>1, <2>2 DEF Step
<1>3. ASSUME NEW e \in Calls, Step(e) PROVE request' = request
  <2>1. CASE DefaultStep(e)
    BY <1>0, <2>1, RequestFrame
  <2>2. CASE AwaitStep(e)
    BY <2>2 DEF AwaitStep, AwaitStatus, AwaitLatest, PollLatest, PollStatus,
      AwaitError, defaultVars, clientVars
  <2> QED BY <1>3, <2>1, <2>2 DEF Step
<1>4. ASSUME NEW e \in Calls, Step(e), UNCHANGED xpringVars PROVE UNCHANGED <<stage, outcome>>
  BY <1>4 DEF xpringVars
<1>5. CASE \E e \in Calls : Step(e) /\ UNCHANGED xpringVars
  BY <1>1, <1>2, <1>3, <1>4, <1>5
<1>6. CASE CloseLedger /\ UNCHANGED <<clientVars, awaitVars, xpringVars>>
  BY <1>1, <1>6 DEF clientVars, xpringVars
<1>7. ASSUME UNCHANGED vars PROVE UNCHANGED <<pc, request, await>> /\ (Returned(c) => Returned(c)')
  BY <1>7 DEF vars, defaultVars, clientVars, awaitVars, Returned, Submits
<1>8. ASSUME NEW e \in Calls, send(e) \/ sendAsync(e)
      PROVE  UNCHANGED <<vars, outcome>> /\ stage[e] = "idle"
             /\ stage' \in {[stage EXCEPT ![e] = "resolving"], [stage EXCEPT ![e] = "queued"]}
  BY <1>8 DEF send, sendAsync
<1>9. CASE \E e \in Calls : send(e) \/ sendAsync(e)
  BY <1>1, <1>7, <1>8, <1>9
<1>10. CASE RunAsync
  <2>1. Head(asyncQueue) \in Calls /\ stage[Head(asyncQueue)] = "queued"
    BY <1>10, RunAsyncTakes
  <2> QED BY <1>1, <1>7, <1>10, <2>1 DEF RunAsync
<1>11. CASE \E e \in Calls : RunCallback(e)
  BY <1>1, <1>7, <1>11 DEF RunCallback
<1>12. ASSUME NEW e \in Calls, NEW address,
              Begin(e, [method |-> "send", wallet |-> sender[e], payload |-> address],
                    {address, sender[e]}),
              stage[e] = "resolving", stage' = [stage EXCEPT ![e] = "sending"],
              UNCHANGED outcome
       PROVE  /\ stage'[c] \in {"idle", "queued", "resolving"} => pc'[c] = "idle"
              /\ pc'[c] \notin {"idle", "returned", "threw"} => stage'[c] = "sending"
              /\ pc'[c] # "idle" => request'[c].method = "send"
              /\ outcome'[c] = "success" =>
                   Returned(c)' /\ pc'[c] # "idle" /\ stage'[c] \in {"completing", "ended"}
  BY <1>0, <1>1, <1>12 DEF Begin, DefaultInv, DefaultTypeOK
<1>13. ASSUME NEW e \in Calls, Complete(e, "failure"), UNCHANGED vars,
              \/ stage[e] = "resolving"
              \/ stage[e] = "sending" /\ Threw(e)
       PROVE  /\ stage'[c] \in {"idle", "queued", "resolving"} => pc'[c] = "idle"
              /\ pc'[c] \notin {"idle", "returned", "threw"} => stage'[c] = "sending"
              /\ pc'[c] # "idle" => request'[c].method = "send"
              /\ outcome'[c] = "success" =>
                   Returned(c)' /\ pc'[c] # "idle" /\ stage'[c] \in {"completing", "ended"}
  <2>1. pc[e] \in {"idle", "returned", "threw"}
    BY <1>13 DEF Threw, IInv, WaitInOrder
  <2>2. /\ outcome' = [outcome EXCEPT ![e] = "failure"]
        /\ \E s \in {"completing", "ended"} : stage' = [stage EXCEPT ![e] = s]
    BY <1>13 DEF Complete
  <2> QED BY <1>1, <1>7, <1>13, <2>1, <2>2
<1>14. ASSUME NEW e \in Calls, Complete(e, "success"), UNCHANGED vars,
              stage[e] = "sending", Returned(e)
       PROVE  /\ stage'[c] \in {"idle", "queued", "resolving"} => pc'[c] = "idle"
              /\ pc'[c] \notin {"idle", "returned", "threw"} => stage'[c] = "sending"
              /\ pc'[c] # "idle" => request'[c].method = "send"
              /\ outcome'[c] = "success" =>
                   Returned(c)' /\ pc'[c] # "idle" /\ stage'[c] \in {"completing", "ended"}
  <2>1. pc[e] = "returned"
    BY <1>14 DEF Returned
  <2>2. /\ outcome' = [outcome EXCEPT ![e] = "success"]
        /\ \E s \in {"completing", "ended"} : stage' = [stage EXCEPT ![e] = s]
    BY <1>14 DEF Complete
  <2> QED BY <1>1, <1>7, <1>14, <2>1, <2>2
<1>15. CASE \E e \in Calls : Resolve(e) \/ Finish(e)
  BY <1>12, <1>13, <1>14, <1>15 DEF Resolve, Finish
<1>16. CASE UNCHANGED allVars
  BY <1>1, <1>7, <1>16 DEF allVars, xpringVars
<1> QED BY <1>5, <1>6, <1>9, <1>10, <1>11, <1>15, <1>16 DEF XpringNext, XpringStep

(* A step of the reliable client keeps a send behind those that succeeded   *)
(* before it: it reads a number they have not used, and what it signs with  *)
(* a number read earlier expires later than they did.                       *)
LEMMA StepKeepsBehind ==
  ASSUME XpringInv, NEW e \in Calls, Step(e), UNCHANGED xpringVars
  PROVE  EarlierSendsBehind'
<1> SUFFICES ASSUME NEW c \in async, NEW d \in async, c # d, outcome[c] = "success"
             PROVE
    /\ pc'[d] \in {"fee", "openLedger"} /\ tx'[c] \in Validated'
         /\ tx'[c].account = request'[d].wallet => tx'[c].sequence < seq'[d]
    /\ tx'[d] # NoTx /\ (stage[d] = "sending" \/ outcome[d] = "success")
         => tx'[c] # tx'[d]
  BY DEF EarlierSendsBehind, xpringVars, queueVars
<1>0. c \in Calls /\ d \in Calls /\ DefaultInv
  BY DEF XpringInv, XpringTypeOK, IInv
<1>1. [Next]_vars
  BY DEF Next
<1>2. /\ tx'[c] = tx[c] /\ (tx[c] \in Validated)' = (tx[c] \in Validated)
      /\ tx[c] \in Tx /\ Settled(tx[c])
  BY <1>0, <1>1, SucceededStays, SucceededIsSettled
<1>3. /\ pc[d] \in {"fee", "openLedger"} /\ tx[c] \in Validated
           /\ tx[c].account = request[d].wallet => tx[c].sequence < seq[d]
      /\ tx[d] # NoTx /\ (stage[d] = "sending" \/ outcome[d] = "success")
           => tx[c] # tx[d]
  BY DEF XpringInv, EarlierSendsBehind
<1>4. CASE UNCHANGED <<pc, request, seq, tx>>
  BY <1>2, <1>3, <1>4
<1>5. CASE AwaitStep(e)
  BY <1>4, <1>5 DEF AwaitStep, AwaitStatus, AwaitLatest, PollLatest, PollStatus,
    AwaitError, defaultVars, clientVars
<1>6. CASE DefaultStep(e)
  <2>1. CASE d # e
    BY <1>0, <1>2, <1>3, <1>6, <2>1, RequestFrame
  <2>2. CASE d = e /\ pc'[e] \notin {"fee", "openLedger"} /\ tx'[e] = tx[e]
    BY <1>2, <1>3, <2>2
  <2>3. CASE d = e /\ tx'[e] = NoTx /\ seq'[e] = sequence[request[e].wallet]
    <3>1. tx[c] \in Validated => tx[c].sequence < sequence[tx[c].account]
      BY <1>0 DEF DefaultInv, SequencesUsedUp
    <3> QED BY <1>0, <1>2, <1>6, <2>3, <3>1, RequestFrame
  <2>4. CASE d = e /\ tx'[e] = NoTx /\ pc[e] = "fee" /\ seq'[e] = seq[e]
    BY <1>0, <1>2, <1>3, <1>6, <2>4, RequestFrame
  <2>5. CASE d = e /\ pc[e] = "openLedger" /\ pc'[e] = "submit"
               /\ \E lead \in 1..OpenLead :
                    tx'[e] = BaseTransaction(request[e], seq[e], ledger + lead)
    <3>1. PICK lead \in 1..OpenLead :
            tx'[e] = BaseTransaction(request[e], seq[e], ledger + lead)
      BY <2>5
    <3>2. /\ tx'[e].account = request[e].wallet /\ tx'[e].sequence = seq[e]
          /\ tx'[e].lastLedger = ledger + lead + maxLedgerVersionOffset
      BY <3>1 DEF BaseTransaction
    <3>3. /\ ledger \in Nat /\ lead \in Nat \ {0} /\ maxLedgerVersionOffset \in Nat
          /\ seq[e] \in Nat /\ tx[c].lastLedger \in Nat /\ tx[c].sequence \in Nat
      BY <1>0, <1>2, LedgerAssumption, ClientAssumption
      DEF DefaultInv, DefaultTypeOK, LedgerTypeOK, Tx
    <3>4. CASE tx[c] \in Validated
      BY <1>2, <1>3, <2>5, <3>2, <3>3, <3>4
    <3>5. CASE tx[c].lastLedger <= ledger
      BY <1>2, <2>5, <3>2, <3>3, <3>5
    <3> QED BY <1>2, <3>4, <3>5 DEF Settled
  <2> QED BY <1>0, <1>6, <2>1, <2>2, <2>3, <2>4, <2>5, RequestFrame
<1> QED BY <1>5, <1>6 DEF Step

(* The steps of XpringClient's own keep it too: a send succeeds only while   *)
(* no other asynchronous one is building its transaction.                   *)
LEMMA CompleteKeepsBehind ==
  ASSUME XpringInv, NEW e \in Calls, NEW r \in {"success", "failure"},
         stage[e] \in {"resolving", "sending"}, Complete(e, r), UNCHANGED vars,
         r = "success" => stage[e] = "sending" /\ Returned(e)
  PROVE  EarlierSendsBehind'
<1> SUFFICES ASSUME NEW c \in async, NEW d \in async, c # d, outcome'[c] = "success"
             PROVE
    /\ pc[d] \in {"fee", "openLedger"} /\ tx[c] \in Validated
         /\ tx[c].account = request[d].wallet => tx[c].sequence < seq[d]
    /\ tx[d] # NoTx /\ (stage'[d] = "sending" \/ outcome'[d] = "success")
         => tx[c] # tx[d]
  BY DEF EarlierSendsBehind, Complete, vars, defaultVars, clientVars, ledgerVars,
    Validated
<1>1. /\ c \in Calls /\ d \in Calls
      /\ outcome' = [outcome EXCEPT ![e] = r]
      /\ \E s \in {"completing", "ended"} : stage' = [stage EXCEPT ![e] = s]
      /\ outcome \in [Calls -> {"none", "success", "failure"}]
      /\ stage \in [Calls -> {"idle", "queued", "resolving", "sending",
                              "completing", "ended"}]
  BY DEF Complete, XpringInv, XpringTypeOK
<1>2. CASE c # e
  BY <1>1, <1>2 DEF XpringInv, EarlierSendsBehind
<1>3. CASE c = e
  <2>1. r = "success" /\ stage[c] = "sending" /\ pc[c] = "returned"
    BY <1>1, <1>3 DEF Returned
  <2>2. running = c /\ stage[d] # "sending"
    BY <1>3, <2>1 DEF XpringInv, QueuesInOrder
  <2>3. pc[d] \in {"idle", "returned", "threw"}
    BY <1>1, <2>2 DEF XpringInv, SendsInOrder
  <2>4. tx[c] # NoTx
    BY <1>1, <2>1 DEF XpringInv, IInv, DefaultInv, PrepareInOrder
  <2>5. outcome'[d] = "success" => tx[d] # tx[c]
    BY <1>1, <1>3, <2>1, <2>4 DEF XpringInv, EarlierSendsBehind
  <2> QED BY <1>1, <1>3, <2>2, <2>3, <2>5
<1> QED BY <1>2, <1>3

(* A call without a transaction is behind all that succeeded, and has not   *)
(* succeeded itself.                                                        *)
LEMMA BehindKept ==
  ASSUME XpringInv, [XpringNext]_allVars
  PROVE  EarlierSendsBehind'
<1> USE DEF XpringInv, XpringTypeOK, EarlierSendsBehind
<1>1. ASSUME NEW e \in Calls, stage[e] \in {"idle", "queued", "resolving"}
      PROVE  pc[e] = "idle" /\ tx[e] = NoTx /\ outcome[e] # "success"
  BY <1>1 DEF SendsInOrder, IInv, DefaultInv, PrepareInOrder
<1>2. ASSUME UNCHANGED vars PROVE UNCHANGED <<pc, request, seq, tx, Validated>>
  BY <1>2 DEF vars, defaultVars, clientVars, ledgerVars, Validated
<1>3. ASSUME NEW e \in Calls, send(e) \/ sendAsync(e) PROVE EarlierSendsBehind'
  <2>1. /\ UNCHANGED <<vars, outcome>> /\ stage[e] = "idle"
        /\ async \subseteq async' /\ async' \subseteq async \cup {e}
        /\ \E s \in {"resolving", "queued"} : stage' = [stage EXCEPT ![e] = s]
    BY <1>3 DEF send, sendAsync, queueVars
  <2> QED BY <1>1, <1>2, <2>1
<1>4. CASE RunAsync
  <2>1. Head(asyncQueue) \in Calls /\ stage[Head(asyncQueue)] = "queued"
    BY <1>4, RunAsyncTakes
  <2> QED BY <1>1, <1>2, <1>4, <2>1 DEF RunAsync
<1>5. CASE \E e \in Calls : RunCallback(e)
  BY <1>2, <1>5 DEF RunCallback
<1>6. ASSUME NEW e \in Calls, Resolve(e) PROVE EarlierSendsBehind'
  <2>1. CASE Complete(e, "failure") /\ UNCHANGED vars
    BY <1>6, <2>1, CompleteKeepsBehind DEF Resolve
  <2>2. ASSUME NEW address,
               Begin(e, [method |-> "send", wallet |-> sender[e], payload |-> address],
                     {address, sender[e]}),
               stage' = [stage EXCEPT ![e] = "sending"], UNCHANGED <<outcome, async>>
        PROVE  EarlierSendsBehind'
    <3>1. /\ pc[e] = "idle" /\ tx[e] = NoTx /\ outcome[e] # "success"
      BY <1>1, <1>6 DEF Resolve
    <3>2. /\ UNCHANGED <<seq, tx, tesTxs, tecTxs>> /\ pc'[e] \in {"accountInfo", "threw"}
          /\ \A d \in Calls \ {e} : pc'[d] = pc[d] /\ request'[d] = request[d]
      BY <2>2 DEF Begin, ledgerVars, IInv, DefaultInv, DefaultTypeOK
    <3> QED BY <2>2, <3>1, <3>2 DEF Validated
  <2> QED BY <1>6, <2>1, <2>2 DEF Resolve, queueVars
<1>7. ASSUME NEW e \in Calls, Finish(e) PROVE EarlierSendsBehind'
  BY <1>7, CompleteKeepsBehind DEF Finish
<1>8. CASE CloseLedger /\ UNCHANGED <<clientVars, awaitVars, xpringVars>>
  <2>1. ASSUME NEW c \in async, outcome[c] = "success"
        PROVE  (tx[c] \in Validated)' = (tx[c] \in Validated) /\ tx'[c] = tx[c]
    BY <1>8, <2>1, SucceededStays DEF Next
  <2> QED BY <1>8, <2>1 DEF clientVars, xpringVars, queueVars
<1>9. CASE UNCHANGED allVars
  BY <1>2, <1>9 DEF allVars, xpringVars, queueVars
<1> QED BY <1>3, <1>4, <1>5, <1>6, <1>7, <1>8, <1>9, StepKeepsBehind
        DEF XpringNext, XpringStep

LEMMA XpringNextInv == XpringInv /\ [XpringNext]_allVars => XpringInv'
<1> SUFFICES ASSUME XpringInv, [XpringNext]_allVars PROVE XpringInv'
  OBVIOUS
<1>1. IInv'
  BY StepsAreReliable, NextInv DEF XpringInv
<1>2. XpringTypeOK' /\ QueuesInOrder' /\ SendsInLine' /\ AsyncSendsInOrder'
  BY <1>1, QueuesKept DEF IInv
<1> QED BY <1>1, <1>2, SendsKept, BehindKept DEF XpringInv

(* The invariant of the asynchronous sends: what the queue lets run, where  *)
(* the reliable client stands, and how far apart the sends are.             *)
THEOREM XpringInvariantHolds == XpringSpec => []XpringInv
BY XpringInitInv, XpringNextInv, PTL DEF XpringSpec

(* Two asynchronous sends that both succeeded never sent one transaction,   *)
(* for any number of sends, wallets and ledgers.                            *)
THEOREM AsyncSendsDistinct == XpringSpec => []AsyncSendsAreDistinct
<1>1. XpringInv => AsyncSendsAreDistinct
  <2> SUFFICES ASSUME XpringInv, NEW c \in async, NEW d \in async, c # d,
                      outcome[c] = "success", outcome[d] = "success"
               PROVE  tx[c] # tx[d]
    BY DEF AsyncSendsAreDistinct
  <2>1. tx[d] # NoTx
    BY SucceededIsSettled, ClientAssumption DEF XpringInv, XpringTypeOK
  <2> QED BY <2>1 DEF XpringInv, EarlierSendsBehind
<1> QED BY <1>1, XpringInitInv, XpringNextInv, PTL DEF XpringSpec

(* Every behaviour of XpringClient is one of the reliable client, whose      *)
(* theorems therefore hold of the sends made through it.                    *)
THEOREM XpringUsesReliable == XpringSpec => UsesReliableClient
<1>1. XpringInit => Init
  BY DEF XpringInit
<1>2. XpringInv /\ [XpringNext]_allVars => [Next]_vars
  BY StepsAreReliable DEF XpringInv
<1> QED BY <1>1, <1>2, XpringInitInv, XpringNextInv, PTL
        DEF XpringSpec, UsesReliableClient, Spec
(* So it keeps the reliable client's contract: a send to a PayID ends       *)
(* normally only once the outcome of its transaction is decided, and no     *)
(* outcome is decided twice, whatever the queues and the resolution do.     *)
THEOREM XpringKeepsContract == XpringSpec => ImplementsContract
BY XpringUsesReliable, ContractImplemented DEF UsesReliableClient

LEMMA SuccessKept ==
  ASSUME XpringInv, [XpringNext]_allVars, NEW c \in Calls, outcome[c] = "success"
  PROVE  /\ Settled(tx[c])
         /\ outcome'[c] = "success" /\ tx'[c] = tx[c]
         /\ (tx[c] \in tesTxs') = (tx[c] \in tesTxs)
         /\ (tx[c] \in tecTxs') = (tx[c] \in tecTxs)
<1>1. [Next]_vars
  BY StepsAreReliable DEF XpringInv
<1>2. stage[c] \in {"completing", "ended"} /\ outcome \in [Calls -> {"none", "success", "failure"}]
  BY DEF XpringInv, SendsInOrder, XpringTypeOK
<1>3. outcome'[c] = "success"
  <2>1. ASSUME NEW e \in Calls, Resolve(e) \/ Finish(e) PROVE outcome'[c] = "success"
    <3>1. e # c
      BY <1>2, <2>1 DEF Resolve, Finish
    <3> QED BY <1>2, <2>1, <3>1 DEF Resolve, Finish, Complete
  <2>2. CASE UNCHANGED outcome
    BY <2>2
  <2> QED BY <2>1, <2>2 DEF XpringNext, XpringStep, send, sendAsync, RunAsync, RunCallback,
             xpringVars, allVars
<1> QED BY <1>1, <1>3, SucceededIsSettled, SucceededStays

(* A send that succeeded is settled, and keeps its Result and its outcome   *)
(* on the ledger, for any number of sends, wallets and ledgers.             *)
THEOREM SuccessFinal == XpringSpec => SuccessIsFinal
<1> DEFINE A == \A c \in Calls : outcome[c] = "success" =>
                  /\ Settled(tx[c])
                  /\ outcome'[c] = "success" /\ tx'[c] = tx[c]
                  /\ (tx[c] \in tesTxs') = (tx[c] \in tesTxs)
                  /\ (tx[c] \in tecTxs') = (tx[c] \in tecTxs)
<1>1. XpringInv /\ [XpringNext]_allVars => [A]_allVars
  BY SuccessKept
<1> QED BY <1>1, XpringInitInv, XpringNextInv, PTL DEF XpringSpec, SuccessIsFinal

(* The completions of one serial queue come in the order of their sends,    *)
(* for any number of sends, of callback queues, and of sends that fail.     *)
THEOREM AsyncSendsOrdered == XpringSpec => []AsyncSendsInOrder
<1>1. XpringInv => AsyncSendsInOrder
  BY DEF XpringInv
<1> QED BY <1>1, XpringInitInv, XpringNextInv, PTL DEF XpringSpec
=============================================================================
