-------------------------- MODULE PayIDClientProofs ---------------------------
(* Theorems about PayIDClient, for any calls, queues and sets of answers.   *)
EXTENDS PayIDClient, TLAPS

-----------------------------------------------------------------------------
(* What a step does to the queues.                                         *)

Nowhere == [p \in Queues |-> 0]
Only(q) == [p \in Queues |-> IF p = q THEN 1 ELSE 0]

(* The queues "new" are "old" without the first taken[p] blocks of each    *)
(* queue p, and with the block b at the end of the queues that are added   *)
(* to.                                                                     *)
Shifted(old, new, taken, added, b) ==
  /\ new \in [Queues -> Seq(Block)]
  /\ \A p \in Queues :
       /\ taken[p] <= Len(old[p])
       /\ Len(new[p]) = Len(old[p]) - taken[p] + added[p]
       /\ \A i \in 1 .. (Len(old[p]) - taken[p]) : new[p][i] = old[p][i + taken[p]]
       /\ added[p] = 1 => new[p][Len(new[p])] = b

LEMMA LenType ==
  ASSUME NEW S, NEW s \in Seq(S)
  PROVE  /\ Len(s) \in Nat /\ \A i \in 1 .. Len(s) : s[i] \in S
         /\ (s # <<>>) = (Len(s) > 0)
OBVIOUS

LEMMA ShiftedNone ==
  ASSUME NEW qs \in [Queues -> Seq(Block)], NEW b
  PROVE  Shifted(qs, qs, Nowhere, Nowhere, b)
<1>1. \A p \in Queues : Len(qs[p]) \in Nat
  BY LenType
<1> QED BY <1>1 DEF Shifted, Nowhere

LEMMA ShiftedAsync ==
  ASSUME NEW qs \in [Queues -> Seq(Block)], NEW q \in Queues,
         NEW step, NEW c, NEW value,
         [step |-> step, call |-> c, value |-> value] \in Block
  PROVE  Shifted(qs, Async(qs, q, step, c, value), Nowhere, Only(q),
                 [step |-> step, call |-> c, value |-> value])
<1> DEFINE b == [step |-> step, call |-> c, value |-> value]
           new == Async(qs, q, step, c, value)
<1>1. new = [qs EXCEPT ![q] = Append(@, b)]
  BY DEF Async
<1> HIDE DEF b, new
<1>2. b \in Block
  BY DEF b
<1>3. \A p \in Queues : qs[p] \in Seq(Block) /\ Len(qs[p]) \in Nat
  BY LenType
<1>4. /\ Append(qs[q], b) \in Seq(Block)
      /\ Len(Append(qs[q], b)) = Len(qs[q]) + 1
      /\ \A i \in 1 .. Len(qs[q]) : Append(qs[q], b)[i] = qs[q][i]
      /\ Append(qs[q], b)[Len(qs[q]) + 1] = b
  BY <1>2, <1>3
<1>5. /\ new \in [Queues -> Seq(Block)] /\ new[q] = Append(qs[q], b)
      /\ \A p \in Queues \ {q} : new[p] = qs[p]
  BY <1>1, <1>4
<1>6. Shifted(qs, new, Nowhere, Only(q), b)
  BY <1>3, <1>4, <1>5 DEF Shifted, Nowhere, Only
<1> QED BY <1>6 DEF b, new

LEMMA TailOrAll ==
  ASSUME NEW s \in Seq(Block), NEW t \in {0, 1}, NEW n,
         t = 1 => s # <<>> /\ n = Tail(s),
         t = 0 => n = s
  PROVE  /\ t <= Len(s) /\ n \in Seq(Block) /\ Len(n) = Len(s) - t + 0
         /\ \A i \in 1 .. (Len(s) - t) : n[i] = s[i + t]
<1>1. CASE t = 0
  BY <1>1
<1>2. CASE t = 1
  BY <1>2
<1> QED BY <1>1, <1>2

LEMMA ShiftedRest ==
  ASSUME NEW qs \in [Queues -> Seq(Block)], NEW q \in Queues, qs[q] # <<>>, NEW b
  PROVE  /\ Shifted(qs, [qs EXCEPT ![q] = Tail(@)], Only(q), Nowhere, b)
         /\ Head(qs[q]) = qs[q][1] /\ qs[q][1] \in Block /\ Len(qs[q]) > 0
<1> DEFINE new == [qs EXCEPT ![q] = Tail(@)]
<1>1. \A p \in Queues : qs[p] \in Seq(Block)
  OBVIOUS
<1>2. /\ Tail(qs[q]) \in Seq(Block)
      /\ Head(qs[q]) = qs[q][1] /\ qs[q][1] \in Block /\ Len(qs[q]) > 0
  BY <1>1
<1>3. /\ new \in [Queues -> Seq(Block)] /\ new[q] = Tail(qs[q])
      /\ \A p \in Queues \ {q} : new[p] = qs[p]
  BY <1>2
<1> HIDE DEF new
<1>4. ASSUME NEW p \in Queues
      PROVE  /\ Only(q)[p] <= Len(qs[p])
             /\ Len(new[p]) = Len(qs[p]) - Only(q)[p] + Nowhere[p]
             /\ \A i \in 1 .. (Len(qs[p]) - Only(q)[p]) : new[p][i] = qs[p][i + Only(q)[p]]
             /\ Nowhere[p] # 1
  <2> DEFINE t == Only(q)[p]
             z == Nowhere[p]
  <2>1. t \in {0, 1} /\ (t = 1 => p = q) /\ (t = 0 => p # q) /\ z = 0
    BY DEF Only, Nowhere
  <2> HIDE DEF t, z
  <2>2. (t = 1 => qs[p] # <<>> /\ new[p] = Tail(qs[p])) /\ (t = 0 => new[p] = qs[p])
    BY <1>3, <2>1
  <2>3. /\ t <= Len(qs[p]) /\ Len(new[p]) = Len(qs[p]) - t + 0
        /\ \A i \in 1 .. (Len(qs[p]) - t) : new[p][i] = qs[p][i + t]
    BY <1>1, <2>1, <2>2, TailOrAll
  <2>4. /\ t <= Len(qs[p]) /\ Len(new[p]) = Len(qs[p]) - t + z
        /\ \A i \in 1 .. (Len(qs[p]) - t) : new[p][i] = qs[p][i + t]
        /\ z # 1
    BY <2>1, <2>3
  <2> QED BY <2>4 DEF t, z
<1>5. Shifted(qs, new, Only(q), Nowhere, b)
  BY <1>3, <1>4 DEF Shifted
<1> QED BY <1>2, <1>5 DEF new

LEMMA ShiftedTwice ==
  ASSUME NEW qs \in [Queues -> Seq(Block)], NEW mid, NEW new, NEW q \in Queues,
         NEW p \in Queues, NEW b,
         Shifted(qs, mid, Only(q), Nowhere, b), Shifted(mid, new, Nowhere, Only(p), b)
  PROVE  Shifted(qs, new, Only(q), Only(p), b)
<1>1. ASSUME NEW r \in Queues
      PROVE  /\ Only(q)[r] <= Len(qs[r])
             /\ Len(new[r]) = Len(qs[r]) - Only(q)[r] + Only(p)[r]
             /\ \A i \in 1 .. (Len(qs[r]) - Only(q)[r]) : new[r][i] = qs[r][i + Only(q)[r]]
             /\ Only(p)[r] = 1 => new[r][Len(new[r])] = b
  <2> DEFINE t == Only(q)[r]
             a == Only(p)[r]
             z == Nowhere[r]
  <2>1. t \in {0, 1} /\ a \in {0, 1} /\ z = 0 /\ Len(qs[r]) \in Nat
    BY LenType DEF Only, Nowhere
  <2>2. /\ t <= Len(qs[r]) /\ Len(mid[r]) = Len(qs[r]) - t + z
        /\ \A i \in 1 .. (Len(qs[r]) - t) : mid[r][i] = qs[r][i + t]
    BY DEF Shifted
  <2>3. /\ Len(new[r]) = Len(mid[r]) - z + a
        /\ \A i \in 1 .. (Len(mid[r]) - z) : new[r][i] = mid[r][i + z]
        /\ a = 1 => new[r][Len(new[r])] = b
    BY DEF Shifted
  <2> HIDE DEF t, a, z
  <2>4. Len(mid[r]) = Len(qs[r]) - t /\ Len(new[r]) = Len(qs[r]) - t + a
    BY <2>1, <2>2, <2>3
  <2>5. ASSUME NEW i \in 1 .. (Len(qs[r]) - t) PROVE new[r][i] = qs[r][i + t]
    <3>1. mid[r][i] = qs[r][i + t]
      BY <2>2
    <3>2. new[r][i] = mid[r][i + z] /\ i + z = i
      BY <2>1, <2>3, <2>4
    <3> QED BY <3>1, <3>2
  <2> QED BY <2>2, <2>3, <2>4, <2>5 DEF t, a
<1>2. new \in [Queues -> Seq(Block)]
  BY DEF Shifted
<1> QED BY <1>1, <1>2 DEF Shifted

-----------------------------------------------------------------------------
(* The invariant.  A call that has been made and has not ended is in one    *)
(* place: its HTTP request, one block on one queue, or its semaphore.      *)

(* What a completion is called with, and the queue that a waiting call     *)
(* blocks.                                                                 *)
Completed(c) ==
  IF answer[c] = "invalidPayID" THEN "invalidPayID"
  ELSE AddressResult(request[c].method, AddressesResult(answer[c]))

WaitQueue(c) == IF request[c].sync THEN request[c].caller ELSE asyncQueue

(* The thread of a waiting call waits for it. *)
Held(c) ==
  request[c] \in Request /\ (Waits(request[c]) => blocked[WaitQueue(c)] = c)

BlockOK(q, b) ==
  /\ request[b.call] \in Request
  /\ b.call \notin http /\ semaphore[b.call] = 0 /\ ended[b.call] = 0
  /\ b.step = "xrpAddress" =>
       /\ q = asyncQueue /\ InOrder(b.call)
       /\ answer[b.call] = "none" /\ blocked[asyncQueue] # b.call
  /\ b.step = "response" =>
       /\ q = networkQueue /\ answer[b.call] \in Responses /\ b.value = answer[b.call]
       /\ Held(b.call)
  /\ b.step = "addresses" =>
       /\ q = CallbackQueue(request[b.call]) /\ answer[b.call] \in Responses
       /\ b.value = AddressesResult(answer[b.call]) /\ Held(b.call)
  /\ b.step = "completion" =>
       /\ q = CallbackQueue(request[b.call]) /\ answer[b.call] # "none"
       /\ b.value = Completed(b.call) /\ Held(b.call)
  /\ b.step = "deliver" =>
       /\ q = request[b.call].callbackQueue /\ InOrder(b.call)
       /\ answer[b.call] # "none" /\ b.value = Expected(b.call)
       /\ blocked[asyncQueue] # b.call

BlocksOK == \A q \in Queues : \A i \in 1 .. Len(queue[q]) : BlockOK(q, queue[q][i])

OneBlock ==
  \A p, q \in Queues : \A i \in 1 .. Len(queue[p]), j \in 1 .. Len(queue[q]) :
    queue[p][i].call = queue[q][j].call => p = q /\ i = j

CallOK(c) ==
  /\ request[c] = NoRequest =>
       c \notin http /\ semaphore[c] = 0 /\ ended[c] = 0 /\ answer[c] = "none"
  /\ c \in http => semaphore[c] = 0 /\ ended[c] = 0 /\ answer[c] = "none" /\ Held(c)
  /\ semaphore[c] = 1 =>
       /\ ended[c] = 0 /\ answer[c] # "none" /\ result[c] = Completed(c)
       /\ Waits(request[c]) /\ Held(c)
  /\ ended[c] = 1 => answer[c] # "none" /\ outcome[c] = Expected(c)

BlockedOK(q) ==
  LET c == blocked[q] IN
  c # NoCall =>
    request[c] \in Request /\ Waits(request[c]) /\ ended[c] = 0 /\ q = WaitQueue(c)

NoBlock(c) == \A p \in Queues : \A i \in 1 .. Len(queue[p]) : queue[p][i].call # c

Placed(c) ==
  request[c] # NoRequest =>
    c \in http \/ semaphore[c] = 1 \/ ended[c] = 1 \/ ~ NoBlock(c)

TokenInv ==
  /\ TypeOK
  /\ BlocksOK
  /\ OneBlock
  /\ \A c \in Calls : CallOK(c) /\ Placed(c)
  /\ \A q \in Queues : BlockedOK(q)

(* A step that moves the token of call c, with what it takes from the       *)
(* queues and adds to them.                                                *)
SameCall(d) ==
  /\ request'[d] = request[d] /\ (d \in http' <=> d \in http)
  /\ semaphore'[d] = semaphore[d] /\ result'[d] = result[d] /\ outcome'[d] = outcome[d]
  /\ ended'[d] = ended[d] /\ answer'[d] = answer[d]

FreedOrTaken(c, q) ==
  blocked'[q] = blocked[q] \/ {blocked[q], blocked'[q]} \subseteq {c, NoCall}

MovesToken(c, taken, added, b) ==
  /\ Shifted(queue, queue', taken, added, b)
  /\ \A p \in Queues : taken[p] \in {0, 1} /\ added[p] \in {0, 1}
  /\ \A p, q \in Queues : added[p] = 1 /\ added[q] = 1 => p = q
  /\ \A p \in Queues : added[p] = 1 => b.call = c
  /\ \A p \in Queues : \A i \in 1 .. (Len(queue[p]) - taken[p]) : queue[p][i + taken[p]].call # c
  /\ \A p \in Queues : taken[p] = 1 => queue[p][1].call = c
  /\ \A d \in Calls \ {c} : SameCall(d)
  /\ \A q \in Queues : FreedOrTaken(c, q)

(* The blocks after such a step are those of before, and the one added.     *)
LEMMA BlocksAfter ==
  ASSUME TypeOK, NEW c \in Calls, NEW taken, NEW added, NEW b,
         MovesToken(c, taken, added, b), NEW p \in Queues, NEW i \in 1 .. Len(queue'[p])
  PROVE  \/ /\ i \in 1 .. (Len(queue[p]) - taken[p])
            /\ i + taken[p] \in 1 .. Len(queue[p])
            /\ queue'[p][i] = queue[p][i + taken[p]]
            /\ queue[p][i + taken[p]] \in Block
            /\ queue[p][i + taken[p]].call \in Calls \ {c}
         \/ added[p] = 1 /\ i = Len(queue'[p]) /\ queue'[p][i] = b /\ b.call = c
<1> DEFINE t == taken[p]
           a == added[p]
           n == Len(queue[p])
<1>1. n \in Nat /\ \A k \in 1 .. n : queue[p][k] \in Block
  BY LenType DEF TypeOK
<1>2. /\ t \in {0, 1} /\ a \in {0, 1} /\ t <= n /\ Len(queue'[p]) = n - t + a
      /\ \A k \in 1 .. (n - t) : queue'[p][k] = queue[p][k + t] /\ queue[p][k + t].call # c
      /\ a = 1 => queue'[p][Len(queue'[p])] = b /\ b.call = c
  BY DEF MovesToken, Shifted
<1> HIDE DEF t, a, n
<1>3. i \in 1 .. (n - t) \/ (a = 1 /\ i = Len(queue'[p]))
  BY <1>1, <1>2
<1>4. ASSUME i \in 1 .. (n - t)
      PROVE  /\ i + t \in 1 .. n /\ queue'[p][i] = queue[p][i + t]
             /\ queue[p][i + t] \in Block /\ queue[p][i + t].call \in Calls \ {c}
  <2>1. i + t \in 1 .. n
    BY <1>1, <1>2, <1>4
  <2>2. queue[p][i + t].call \in Calls
    BY <1>1, <2>1 DEF Block
  <2> QED BY <1>1, <1>2, <1>4, <2>1, <2>2
<1> QED BY <1>2, <1>3, <1>4 DEF t, a, n

LEMMA OneBlockAfter ==
  ASSUME TypeOK, OneBlock, NEW c \in Calls, NEW taken, NEW added, NEW b,
         MovesToken(c, taken, added, b)
  PROVE  OneBlock'
<1> SUFFICES ASSUME NEW p \in Queues, NEW q \in Queues, NEW i \in 1 .. Len(queue'[p]),
                    NEW j \in 1 .. Len(queue'[q]), queue'[p][i].call = queue'[q][j].call
             PROVE  p = q /\ i = j
  BY DEF OneBlock
<1> DEFINE Old(r, k) == /\ k \in 1 .. (Len(queue[r]) - taken[r])
                        /\ k + taken[r] \in 1 .. Len(queue[r])
                        /\ queue'[r][k] = queue[r][k + taken[r]]
                        /\ queue[r][k + taken[r]].call # c
           New(r, k) == added[r] = 1 /\ k = Len(queue'[r]) /\ queue'[r][k].call = c
<1>1. Old(p, i) \/ New(p, i)
  BY BlocksAfter
<1>2. Old(q, j) \/ New(q, j)
  BY BlocksAfter
<1>3. CASE Old(p, i) /\ Old(q, j)
  <2>1. p = q /\ i + taken[p] = j + taken[q]
    BY <1>3 DEF OneBlock
  <2>2. taken[p] \in {0, 1}
    BY DEF MovesToken
  <2> QED BY <2>1, <2>2
<1>4. CASE New(p, i) /\ New(q, j)
  BY <1>4 DEF MovesToken
<1> QED BY <1>1, <1>2, <1>3, <1>4

LEMMA HeldAfter ==
  ASSUME NEW c \in Calls, NEW taken, NEW added, NEW b,
         MovesToken(c, taken, added, b), NEW d \in Calls \ {c}, Held(d)
  PROVE  Held(d)'
<1>1. SameCall(d) /\ d # NoCall
  BY PayIDAssumption DEF MovesToken
<1>2. WaitQueue(d) \in Queues /\ WaitQueue(d)' = WaitQueue(d)
  BY <1>1 DEF Held, Request, Queues, WaitQueue, SameCall
<1>3. blocked[WaitQueue(d)] = d => blocked'[WaitQueue(d)] = d
  BY <1>1, <1>2 DEF MovesToken, FreedOrTaken
<1> QED BY <1>1, <1>2, <1>3 DEF Held, SameCall

LEMMA BlocksOKAfter ==
  ASSUME TypeOK, BlocksOK, NEW c \in Calls, NEW taken, NEW added, NEW b,
         MovesToken(c, taken, added, b),
         \A p \in Queues : added[p] = 1 => BlockOK(p, b)'
  PROVE  BlocksOK'
<1> SUFFICES ASSUME NEW p \in Queues, NEW i \in 1 .. Len(queue'[p])
             PROVE  BlockOK(p, queue[p][i])'
  BY DEF BlocksOK
<1>1. CASE /\ i + taken[p] \in 1 .. Len(queue[p])
           /\ queue'[p][i] = queue[p][i + taken[p]]
           /\ queue[p][i + taken[p]].call \in Calls \ {c}
  <2>1. PICK x : x = queue[p][i + taken[p]]
    OBVIOUS
  <2>2. BlockOK(p, x) /\ queue'[p][i] = x
    BY <1>1, <2>1 DEF BlocksOK
  <2>3. x.call \in Calls \ {c} /\ SameCall(x.call)
    BY <1>1, <2>1 DEF MovesToken
  <2>4. asyncQueue \in Queues
    BY DEF Queues
  <2>5. blocked'[asyncQueue] = x.call => blocked[asyncQueue] = x.call
    BY <2>3, <2>4, PayIDAssumption DEF MovesToken, FreedOrTaken
  <2>6. Held(x.call) => Held(x.call)'
    BY <2>3, HeldAfter
  <2>7. BlockOK(p, x)'
    BY <2>2, <2>3, <2>5, <2>6 DEF BlockOK, SameCall, InOrder, Completed, Expected, FinalResult
  <2> QED BY <2>2, <2>7 DEF BlockOK
<1>2. CASE added[p] = 1 /\ i = Len(queue'[p]) /\ queue'[p][i] = b
  BY <1>2 DEF BlockOK
<1> QED BY <1>1, <1>2, BlocksAfter

LEMMA RequestTypes ==
  ASSUME NEW r \in Request
  PROVE  /\ CallbackQueue(r) \in Queues /\ r.caller \in ClientQueues
         /\ r.callbackQueue \in ClientQueues /\ r.sync \in BOOLEAN /\ r.method \in Methods
         /\ r # NoRequest
BY PayIDAssumption DEF Request, CallbackQueue, Queues

(* The two blocks of an xrpAddress call: its own, and its completion's.     *)
Queued(c, k) ==
  /\ k \in 1 .. Len(queue[asyncQueue])
  /\ queue[asyncQueue][k].call = c /\ queue[asyncQueue][k].step = "xrpAddress"

Delivering(c, k) ==
  /\ k \in 1 .. Len(queue[request[c].callbackQueue])
  /\ queue[request[c].callbackQueue][k].call = c
  /\ queue[request[c].callbackQueue][k].step = "deliver"

(* A call that a step leaves alone moves up with its queues.                *)
Steady(d, taken) ==
  /\ request'[d] = request[d] /\ ended'[d] = ended[d]
  /\ (blocked'[asyncQueue] = d) <=> (blocked[asyncQueue] = d)
  /\ \A k \in Nat : Queued(d, k)' <=> Queued(d, k + taken[asyncQueue])
  /\ request[d] \in Request =>
       \A k \in Nat : Delivering(d, k)' <=> Delivering(d, k + taken[request[d].callbackQueue])

LEMMA PositionsAfter ==
  ASSUME TokenInv, NEW c \in Calls, NEW taken, NEW added, NEW b,
         MovesToken(c, taken, added, b), NEW d \in Calls \ {c}, NEW p \in Queues,
         NEW k \in Nat
  PROVE  /\ (k \in 1 .. Len(queue'[p]) /\ queue'[p][k].call = d)
              <=> (k + taken[p] \in 1 .. Len(queue[p]) /\ queue[p][k + taken[p]].call = d)
         /\ k \in 1 .. Len(queue'[p]) /\ queue'[p][k].call = d =>
              queue'[p][k] = queue[p][k + taken[p]]
<1> DEFINE t == taken[p]
           n == Len(queue[p])
<1>1. n \in Nat /\ TypeOK
  BY LenType DEF TokenInv, TypeOK
<1>2. /\ t \in {0, 1} /\ t <= n /\ (t = 1 => queue[p][1].call = c)
      /\ Len(queue'[p]) = n - t \/ Len(queue'[p]) = n - t + 1
      /\ \A i \in 1 .. (n - t) : queue'[p][i] = queue[p][i + t]
  <2>1. Len(queue'[p]) = n - t + added[p] /\ added[p] \in {0, 1} /\ t \in {0, 1}
    BY DEF MovesToken, Shifted
  <2>2. Len(queue'[p]) = n - t \/ Len(queue'[p]) = n - t + 1
    BY <1>1, <2>1
  <2> QED BY <2>1, <2>2 DEF MovesToken, Shifted
<1>3. ASSUME k \in 1 .. Len(queue'[p]), queue'[p][k].call = d
      PROVE  k + t \in 1 .. n /\ queue'[p][k] = queue[p][k + t]
  BY <1>1, <1>3, BlocksAfter
<1>4. ASSUME k + t \in 1 .. n, queue[p][k + t].call = d
      PROVE  k \in 1 .. Len(queue'[p]) /\ queue'[p][k] = queue[p][k + t]
  <2> HIDE DEF t, n
  <2>1. k # 0
    BY <1>1, <1>2, <1>4 DEF t
  <2> QED BY <1>1, <1>2, <1>4, <2>1
<1> QED BY <1>3, <1>4

LEMMA BlockStays ==
  ASSUME TokenInv, NEW c \in Calls, NEW taken, NEW added, NEW b,
         MovesToken(c, taken, added, b), NEW d \in Calls \ {c}, ~ NoBlock(d)
  PROVE  ~ NoBlock(d)'
<1>0. PICK p \in Queues : \E i \in 1 .. Len(queue[p]) : queue[p][i].call = d
  BY DEF NoBlock
<1>1. PICK i \in 1 .. Len(queue[p]) : queue[p][i].call = d
  BY <1>0
<1>2. taken[p] \in {0, 1} /\ (taken[p] = 1 => i # 1) /\ Len(queue[p]) \in Nat
  BY <1>1, LenType DEF MovesToken, TokenInv, TypeOK
<1>3. i - taken[p] \in Nat /\ i - taken[p] + taken[p] = i
  BY <1>2
<1>4. i - taken[p] \in 1 .. Len(queue'[p]) /\ queue'[p][i - taken[p]].call = d
  BY <1>1, <1>3, PositionsAfter
<1> QED BY <1>4 DEF NoBlock

LEMMA BlockIsAdded ==
  ASSUME TokenInv, TypeOK', NEW c \in Calls, NEW taken, NEW added, NEW b,
         MovesToken(c, taken, added, b), NEW p \in Queues, added[p] = 1
  PROVE  ~ NoBlock(c)' /\ Len(queue'[p]) \in 1 .. Len(queue'[p]) /\ queue'[p][Len(queue'[p])] = b
<1>1. /\ queue'[p][Len(queue'[p])] = b /\ b.call = c /\ taken[p] \in {0, 1}
      /\ taken[p] <= Len(queue[p]) /\ Len(queue'[p]) = Len(queue[p]) - taken[p] + added[p]
  BY DEF MovesToken, Shifted
<1>2. Len(queue[p]) \in Nat
  BY LenType DEF TokenInv, TypeOK
<1>3. Len(queue'[p]) \in 1 .. Len(queue'[p])
  BY <1>1, <1>2
<1> QED BY <1>1, <1>3 DEF NoBlock

LEMMA OthersSteady ==
  ASSUME TokenInv, NEW c \in Calls, NEW taken, NEW added, NEW b,
         MovesToken(c, taken, added, b),
         NEW d \in Calls \ {c}
  PROVE  Steady(d, taken)
<1>1. SameCall(d) /\ asyncQueue \in Queues /\ d # NoCall
  BY PayIDAssumption DEF MovesToken, Queues
<1>2. (blocked'[asyncQueue] = d) <=> (blocked[asyncQueue] = d)
  BY <1>1 DEF MovesToken, FreedOrTaken
<1>3. ASSUME NEW k \in Nat PROVE Queued(d, k)' <=> Queued(d, k + taken[asyncQueue])
  BY <1>1, PositionsAfter DEF Queued
<1>4. ASSUME request[d] \in Request, NEW k \in Nat
      PROVE  Delivering(d, k)' <=> Delivering(d, k + taken[request[d].callbackQueue])
  <2>1. PICK p \in Queues : p = request[d].callbackQueue
    BY <1>4, RequestTypes DEF Queues
  <2>2. p = request'[d].callbackQueue
    BY <1>1, <2>1 DEF SameCall
  <2> QED BY <2>1, <2>2, PositionsAfter DEF Delivering
<1> QED BY <1>1, <1>2, <1>3, <1>4 DEF Steady, SameCall

LEMMA OthersStay ==
  ASSUME TokenInv, TypeOK', NEW c \in Calls, NEW taken, NEW added, NEW b,
         MovesToken(c, taken, added, b), NEW d \in Calls \ {c}
  PROVE  Places(d)' = Places(d)
<1>1. SameCall(d) /\ TypeOK
  BY DEF MovesToken, TokenInv
<1>2. ASSUME NEW q \in Queues
      PROVE  /\ DOMAIN queue[q] = 1 .. Len(queue[q]) /\ DOMAIN queue'[q] = 1 .. Len(queue'[q])
             /\ Len(queue[q]) \in Nat /\ taken[q] \in {0, 1}
             /\ taken[q] = 1 => queue[q][1].call = c
  <2>1. queue[q] \in Seq(Block) /\ queue'[q] \in Seq(Block)
    BY <1>1 DEF TypeOK
  <2> QED BY <2>1 DEF MovesToken
<1>3. ASSUME NEW step
      PROVE  (\E q \in Queues : \E i \in DOMAIN queue'[q] :
                queue'[q][i].call = d /\ queue'[q][i].step = step)
             <=> (\E q \in Queues : \E i \in DOMAIN queue[q] :
                    queue[q][i].call = d /\ queue[q][i].step = step)
  <2>1. ASSUME NEW q \in Queues, NEW i \in DOMAIN queue'[q],
               queue'[q][i].call = d, queue'[q][i].step = step
        PROVE  \E j \in DOMAIN queue[q] : queue[q][j].call = d /\ queue[q][j].step = step
    <3>1. i \in Nat /\ i + taken[q] \in DOMAIN queue[q] /\ queue'[q][i] = queue[q][i + taken[q]]
      BY <1>2, <2>1, PositionsAfter
    <3> QED BY <2>1, <3>1
  <2>2. ASSUME NEW q \in Queues, NEW j \in DOMAIN queue[q],
               queue[q][j].call = d, queue[q][j].step = step
        PROVE  \E i \in DOMAIN queue'[q] : queue'[q][i].call = d /\ queue'[q][i].step = step
    <3>1. PICK k \in Nat : k + taken[q] = j
      <4>1. j - taken[q] \in Nat /\ j - taken[q] + taken[q] = j
        BY <1>2, <2>2
      <4> QED BY <4>1
    <3>2. k + taken[q] \in 1 .. Len(queue[q]) /\ queue[q][k + taken[q]].call = d
      BY <1>2, <2>2, <3>1
    <3>3. k \in 1 .. Len(queue'[q]) /\ queue'[q][k] = queue[q][k + taken[q]]
      BY <3>2, PositionsAfter
    <3> QED BY <1>2, <2>2, <3>1, <3>3
  <2> QED BY <2>1, <2>2
<1> QED BY <1>1, <1>3 DEF Places, SameCall

Moved(c) ==
  /\ \E taken : /\ \A p \in Queues : taken[p] \in {0, 1}
                /\ \A d \in Calls \ {c} : Steady(d, taken)
  /\ \A d \in Calls \ {c} : Places(d)' = Places(d)

LEMMA TokenMoved ==
  ASSUME TokenInv, TypeOK', NEW c \in Calls, NEW taken, NEW added, NEW b,
         MovesToken(c, taken, added, b), CallOK(c)',
         \A p \in Queues : added[p] = 1 => BlockOK(p, b)',
         \A q \in Queues : blocked'[q] = c => BlockedOK(q)',
         \/ c \in http' \/ semaphore'[c] = 1 \/ ended'[c] = 1
         \/ \E p \in Queues : added[p] = 1
  PROVE  TokenInv' /\ Moved(c)
<1>1. BlocksOK' /\ OneBlock'
  BY BlocksOKAfter, OneBlockAfter DEF TokenInv
<1>2. ASSUME NEW d \in Calls PROVE CallOK(d)'
  <2>1. CASE d # c
    <3>1. SameCall(d) /\ CallOK(d) /\ (Held(d) => Held(d)')
      BY <2>1, HeldAfter DEF MovesToken, TokenInv
    <3> QED BY <3>1 DEF CallOK, SameCall, Completed, Expected, FinalResult
  <2> QED BY <2>1
<1>3. ASSUME NEW q \in Queues PROVE BlockedOK(q)'
  <2>1. CASE blocked'[q] \notin {c, NoCall}
    <3>1. blocked'[q] = blocked[q] /\ BlockedOK(q) /\ blocked[q] \in Calls \ {c}
      BY <2>1 DEF MovesToken, FreedOrTaken, TokenInv, TypeOK
    <3>2. SameCall(blocked[q])
      BY <3>1 DEF MovesToken
    <3> QED BY <3>1, <3>2 DEF BlockedOK, SameCall, WaitQueue
  <2>2. CASE blocked'[q] = NoCall
    BY <2>2 DEF BlockedOK
  <2> QED BY <2>1, <2>2
<1>4. Moved(c)
  <2>1. \A p \in Queues : taken[p] \in {0, 1}
    BY DEF MovesToken
  <2>2. \A d \in Calls \ {c} : Steady(d, taken)
    BY OthersSteady
  <2> QED BY <2>1, <2>2, OthersStay DEF Moved
<1>5. ASSUME NEW d \in Calls PROVE Placed(d)'
  <2>1. CASE d # c
    <3>1. SameCall(d) /\ Placed(d)
      BY <2>1 DEF MovesToken, TokenInv
    <3>2. ~ NoBlock(d) => ~ NoBlock(d)'
      BY <2>1, BlockStays
    <3> QED BY <3>1, <3>2 DEF Placed, SameCall
  <2>2. CASE d = c
    <3>1. (\E p \in Queues : added[p] = 1) => ~ NoBlock(c)'
      BY BlockIsAdded
    <3> QED BY <2>2, <3>1 DEF Placed
  <2> QED BY <2>1, <2>2
<1> QED BY <1>1, <1>2, <1>3, <1>4, <1>5 DEF TokenInv

-----------------------------------------------------------------------------
(* The actions.                                                            *)

LEMMA ResultTypes ==
  /\ \A response \in AllResponses : AddressesResult(response) \in AddressLists \cup Errors
  /\ \A value \in AddressLists \cup Errors :
       /\ \A m \in Methods : AddressResult(m, value) \in AddressLists \cup Errors
       /\ toXAddress(value) \in AddressLists \cup Errors
BY DEF AddressesResult, AllResponses, AddressLists, Errors, AddressResult, toXAddress

LEMMA CompletedType ==
  ASSUME NEW c, request[c] \in Request, answer[c] \in Responses \cup {"invalidPayID"}
  PROVE  Completed(c) \in AddressLists \cup Errors /\ Expected(c) \in AddressLists \cup Errors
<1>1. request[c].method \in Methods
  BY RequestTypes
<1>2. "invalidPayID" \in Errors
  BY DEF Errors
<1>3. answer[c] # "invalidPayID" => answer[c] \in AllResponses
  BY PayIDAssumption
<1> QED BY <1>1, <1>2, <1>3, ResultTypes DEF Completed, Expected, FinalResult

(* What a waiting call returns for what its completion was called with.     *)
LEMMA CompletedIsExpected ==
  ASSUME NEW c, request[c] \in Request
  PROVE  /\ FinalResult(c, Completed(c)) = Expected(c)
         /\ request[c].method # "xrpAddress" => Completed(c) = Expected(c)
<1>1. toXAddress("invalidPayID") = "invalidPayID"
  BY DEF toXAddress
<1> QED BY <1>1 DEF Completed, Expected, FinalResult

LEMMA TokenElsewhere ==
  ASSUME TokenInv, NEW c \in Calls,
         request[c] = NoRequest \/ c \in http \/ semaphore[c] # 0 \/ ended[c] # 0
  PROVE  NoBlock(c)
BY PayIDAssumption DEF TokenInv, BlocksOK, BlockOK, NoBlock

LEMMA OnlyItself == \A p \in Queues : Only(p)[p] = 1
BY DEF Only

LEMMA MovesToQueue ==
  ASSUME TokenInv, NEW c \in Calls, NoBlock(c), NEW p \in Queues, NEW b \in Block,
         b.call = c, queue' = Async(queue, p, b.step, c, b.value),
         \A d \in Calls \ {c} : SameCall(d),
         \A q \in Queues : FreedOrTaken(c, q)
  PROVE  MovesToken(c, Nowhere, Only(p), b) /\ queue' \in [Queues -> Seq(Block)]
<1>1. b = [step |-> b.step, call |-> c, value |-> b.value]
  BY DEF Block
<1>2. Shifted(queue, queue', Nowhere, Only(p), b)
  BY <1>1, ShiftedAsync DEF TokenInv, TypeOK
<1>3. \A q \in Queues : Nowhere[q] = 0 /\ Only(p)[q] \in {0, 1} /\ (Only(p)[q] = 1 => q = p)
  BY DEF Nowhere, Only
<1>4. \A q \in Queues : Len(queue[q]) \in Nat
  BY LenType DEF TokenInv, TypeOK
<1>5. \A q \in Queues : \A i \in 1 .. (Len(queue[q]) - Nowhere[q]) :
        queue[q][i + Nowhere[q]].call # c
  BY <1>3, <1>4 DEF NoBlock
<1> QED BY <1>2, <1>3, <1>5 DEF MovesToken, Shifted

LEMMA MovesOffQueues ==
  ASSUME TokenInv, NEW c \in Calls, NoBlock(c), NEW b, UNCHANGED queue,
         \A d \in Calls \ {c} : SameCall(d),
         \A q \in Queues : FreedOrTaken(c, q)
  PROVE  MovesToken(c, Nowhere, Nowhere, b)
<1>1. Shifted(queue, queue', Nowhere, Nowhere, b)
  BY ShiftedNone DEF TokenInv, TypeOK
<1>2. \A q \in Queues : Nowhere[q] = 0 /\ Nowhere[q] # 1
  BY DEF Nowhere
<1>3. \A q \in Queues : Len(queue[q]) \in Nat
  BY LenType DEF TokenInv, TypeOK
<1>4. \A q \in Queues : \A i \in 1 .. (Len(queue[q]) - Nowhere[q]) :
        queue[q][i + Nowhere[q]].call # c
  BY <1>2, <1>3 DEF NoBlock
<1> QED BY <1>1, <1>2, <1>4 DEF MovesToken

(* The first block of a queue is its call's only one.                       *)
LEMMA FirstBlock ==
  ASSUME TokenInv, NEW q \in Queues, queue[q] # <<>>
  PROVE  /\ Head(queue[q]) = queue[q][1] /\ Head(queue[q]) \in Block
         /\ Head(queue[q]).call \in Calls
         /\ BlockOK(q, Head(queue[q])) /\ 1 \in 1 .. Len(queue[q])
         /\ \A p \in Queues : Only(q)[p] = 1 => queue[p][1].call = Head(queue[q]).call
         /\ \A p \in Queues : \A i \in 1 .. (Len(queue[p]) - Only(q)[p]) :
              queue[p][i + Only(q)[p]].call # Head(queue[q]).call
<1>1. Head(queue[q]) = queue[q][1] /\ queue[q][1] \in Block /\ 1 \in 1 .. Len(queue[q])
  <2>1. queue[q] \in Seq(Block)
    BY DEF TokenInv, TypeOK
  <2> QED BY <2>1
<1>2. BlockOK(q, queue[q][1])
  BY <1>1 DEF TokenInv, BlocksOK
<1>3. ASSUME NEW p \in Queues, NEW i \in 1 .. (Len(queue[p]) - Only(q)[p]),
             queue[p][i + Only(q)[p]].call = queue[q][1].call
      PROVE  FALSE
  <2> DEFINE t == Only(q)[p]
  <2>1. Len(queue[p]) \in Nat /\ t \in {0, 1} /\ (t = 1 <=> p = q)
    BY LenType DEF TokenInv, TypeOK, Only
  <2> HIDE DEF t
  <2>2. i \in 1 .. (Len(queue[p]) - t) /\ queue[p][i + t].call = queue[q][1].call
    BY <1>3 DEF t
  <2>3. i + t \in 1 .. Len(queue[p])
    BY <2>1, <2>2
  <2>4. p = q /\ i + t = 1
    BY <1>1, <2>2, <2>3 DEF TokenInv, OneBlock
  <2> QED BY <2>1, <2>2, <2>4
<1>4. queue[q][1].call \in Calls
  BY <1>1 DEF Block
<1>5. \A p \in Queues : Only(q)[p] = 1 => p = q
  BY DEF Only
<1> QED BY <1>1, <1>2, <1>3, <1>4, <1>5

LEMMA MovesOffQueue ==
  ASSUME TokenInv, NEW q \in Queues, queue[q] # <<>>, NEW c, c = Head(queue[q]).call, NEW b,
         queue' = Rest(q),
         \A d \in Calls \ {c} : SameCall(d),
         \A p \in Queues : FreedOrTaken(c, p)
  PROVE  MovesToken(c, Only(q), Nowhere, b) /\ queue' \in [Queues -> Seq(Block)]
<1>1. Shifted(queue, queue', Only(q), Nowhere, b)
  BY ShiftedRest DEF TokenInv, TypeOK, Rest
<1>2. \A p \in Queues : Only(q)[p] \in {0, 1} /\ Nowhere[p] = 0 /\ Nowhere[p] # 1
  BY DEF Only, Nowhere
<1> QED BY <1>1, <1>2, FirstBlock DEF MovesToken, Shifted

LEMMA MovesOn ==
  ASSUME TokenInv, NEW q \in Queues, queue[q] # <<>>, NEW c, c = Head(queue[q]).call,
         NEW p \in Queues, NEW b \in Block, b.call = c,
         queue' = Async(Rest(q), p, b.step, c, b.value),
         \A d \in Calls \ {c} : SameCall(d),
         \A r \in Queues : FreedOrTaken(c, r)
  PROVE  MovesToken(c, Only(q), Only(p), b) /\ queue' \in [Queues -> Seq(Block)]
<1>1. b = [step |-> b.step, call |-> c, value |-> b.value]
  BY DEF Block
<1>2. Shifted(queue, Rest(q), Only(q), Nowhere, b)
  BY ShiftedRest DEF TokenInv, TypeOK, Rest
<1>3. Rest(q) \in [Queues -> Seq(Block)]
  BY <1>2 DEF Shifted
<1>4. Shifted(Rest(q), queue', Nowhere, Only(p), b)
  BY <1>1, <1>3, ShiftedAsync
<1>5. Shifted(queue, queue', Only(q), Only(p), b)
  BY <1>2, <1>4, ShiftedTwice DEF TokenInv, TypeOK
<1>6. \A r \in Queues : Only(q)[r] \in {0, 1} /\ Only(p)[r] \in {0, 1} /\ (Only(p)[r] = 1 => r = p)
  BY DEF Only
<1>7. /\ \A r \in Queues : \A i \in 1 .. (Len(queue[r]) - Only(q)[r]) :
              queue[r][i + Only(q)[r]].call # c
      /\ \A r \in Queues : Only(q)[r] = 1 => queue[r][1].call = c
  BY FirstBlock
<1> QED BY <1>5, <1>6, <1>7 DEF MovesToken, Shifted

(* A call that is made and asks at once: the synchronous methods, and the   *)
(* asynchronous cryptoAddress and allAddresses.                            *)
LEMMA AskedKeeps ==
  ASSUME TokenInv, NEW c \in Calls, NEW r \in Request, Make(c, r), addresses(c, r, queue),
         \/ r.sync /\ blocked' = [blocked EXCEPT ![r.caller] = c]
         \/ ~ r.sync /\ r.method # "xrpAddress" /\ UNCHANGED blocked
  PROVE  TokenInv' /\ Moved(c)
<1>1. /\ request[c] = NoRequest /\ request' = [request EXCEPT ![c] = r]
      /\ made' = Append(made, c) /\ UNCHANGED <<semaphore, result, outcome, ended>>
  BY DEF Make
<1>2. TypeOK /\ CallOK(c) /\ NoBlock(c)
  BY <1>1, TokenElsewhere DEF TokenInv
<1>3. request'[c] = r /\ request' \in [Calls -> Request \cup {NoRequest}]
  BY <1>1, <1>2 DEF TypeOK
<1>4. made' \in Seq(Calls)
  BY <1>1, <1>2 DEF TypeOK
<1>5. /\ r.caller \in Queues /\ r # NoRequest /\ CallbackQueue(r) \in Queues
      /\ r.sync \in BOOLEAN
  BY RequestTypes DEF Queues
<1>6. blocked' \in [Queues -> Calls \cup {NoCall}]
  BY <1>2, <1>5 DEF TypeOK
<1>7. \A q \in Queues : blocked'[q] = blocked[q] \/ (r.sync /\ q = r.caller /\ blocked'[q] = c)
  BY <1>2, <1>5 DEF TypeOK
<1>11. \A q \in Queues : FreedOrTaken(c, q)
  <2>1. blocked[r.caller] = NoCall
    BY DEF Make
  <2> QED BY <1>7, <2>1 DEF FreedOrTaken
<1>8. ASSUME NEW q \in Queues, blocked'[q] = c PROVE BlockedOK(q)'
  <2>1. blocked[q] # c
    BY <1>1, <1>5, PayIDAssumption DEF TokenInv, BlockedOK
  <2>2. r.sync /\ q = r.caller
    BY <1>7, <1>8, <2>1
  <2>3. ended'[c] = 0
    BY <1>1, <1>2 DEF CallOK
  <2> QED BY <1>3, <1>8, <2>2, <2>3 DEF BlockedOK, Waits, WaitQueue
<1>12. Held(c)'
  BY <1>2, <1>3, <1>5 DEF Held, Waits, WaitQueue, TypeOK
<1>9. CASE /\ http' = http \cup {c} /\ queue' = queue /\ UNCHANGED answer
  <2>1. \A d \in Calls \ {c} : SameCall(d)
    BY <1>1, <1>2, <1>9 DEF SameCall, TypeOK
  <2>2. PICK b : b = c
    OBVIOUS
  <2>3. MovesToken(c, Nowhere, Nowhere, b)
    BY <1>2, <1>11, <1>9, <2>1, MovesOffQueues
  <2>4. TypeOK'
    BY <1>1, <1>2, <1>3, <1>4, <1>6, <1>9 DEF TypeOK
  <2>5. CallOK(c)'
    BY <1>1, <1>2, <1>3, <1>5, <1>9, <1>12 DEF CallOK
  <2>6. \A p \in Queues : Nowhere[p] # 1
    BY DEF Nowhere
  <2> QED BY <1>8, <1>9, <2>3, <2>4, <2>5, <2>6, TokenMoved
<1>10. CASE /\ queue' = Async(queue, CallbackQueue(r), "completion", c, "invalidPayID")
            /\ answer' = [answer EXCEPT ![c] = "invalidPayID"]
            /\ UNCHANGED http
  <2>1. PICK b : b = [step |-> "completion", call |-> c, value |-> "invalidPayID"]
    OBVIOUS
  <2>2. b \in Block /\ b.call = c /\ b.step = "completion" /\ b.value = "invalidPayID"
    BY <2>1 DEF Block, Errors
  <2>3. \A d \in Calls \ {c} : SameCall(d)
    BY <1>1, <1>2, <1>10 DEF SameCall, TypeOK
  <2>4. MovesToken(c, Nowhere, Only(CallbackQueue(r)), b) /\ queue' \in [Queues -> Seq(Block)]
    BY <1>2, <1>5, <1>11, <1>10, <2>2, <2>3, MovesToQueue
  <2>5. answer'[c] = "invalidPayID" /\ answer' \in [Calls -> Responses \cup {"invalidPayID", "none"}]
    BY <1>2, <1>10 DEF TypeOK
  <2>6. TypeOK'
    BY <1>1, <1>2, <1>3, <1>4, <1>6, <1>10, <2>4, <2>5 DEF TypeOK
  <2>7. CallOK(c)'
    BY <1>1, <1>2, <1>3, <1>5, <1>10 DEF CallOK
  <2>8. BlockOK(CallbackQueue(r), b)'
    BY <1>1, <1>2, <1>3, <1>5, <1>10, <1>12, <2>2, <2>5 DEF BlockOK, CallOK, Completed
  <2>9. \A p \in Queues : Only(CallbackQueue(r))[p] = 1 => BlockOK(p, b)'
    BY <2>8 DEF Only
  <2> QED BY <1>5, <1>8, <2>4, <2>6, <2>7, <2>9, OnlyItself, TokenMoved
<1> QED BY <1>9, <1>10 DEF addresses

LEMMA xrpAddressKeeps ==
  ASSUME TokenInv, NEW c \in Calls, xrpAddress(c)
  PROVE  TokenInv' /\ Moved(c)
<1>1. PICK r \in Request :
        /\ ~ r.sync /\ r.method = "xrpAddress" /\ request[c] = NoRequest
        /\ request' = [request EXCEPT ![c] = r] /\ made' = Append(made, c)
        /\ queue' = Async(queue, asyncQueue, "xrpAddress", c, "unknown")
        /\ UNCHANGED <<semaphore, result, outcome, ended, http, blocked, answer>>
  BY DEF xrpAddress, Make
<1>2. TypeOK /\ CallOK(c) /\ NoBlock(c)
  BY <1>1, TokenElsewhere DEF TokenInv
<1>3. /\ request'[c] = r /\ request' \in [Calls -> Request \cup {NoRequest}]
      /\ made' \in Seq(Calls) /\ asyncQueue \in Queues /\ r # NoRequest
  BY <1>1, <1>2, RequestTypes DEF TypeOK, Queues
<1>4. PICK b : b = [step |-> "xrpAddress", call |-> c, value |-> "unknown"]
  OBVIOUS
<1>5. b \in Block /\ b.call = c /\ b.step = "xrpAddress" /\ b.value = "unknown"
  BY <1>4 DEF Block, Errors
<1>6. \A d \in Calls \ {c} : SameCall(d)
  BY <1>1, <1>2 DEF SameCall, TypeOK
<1>7. MovesToken(c, Nowhere, Only(asyncQueue), b) /\ queue' \in [Queues -> Seq(Block)]
  BY <1>1, <1>2, <1>3, <1>5, <1>6, MovesToQueue DEF FreedOrTaken
<1>8. TypeOK'
  BY <1>1, <1>2, <1>3, <1>7 DEF TypeOK
<1>9. \A q \in Queues : blocked[q] # c
  BY <1>1, RequestTypes, PayIDAssumption DEF TokenInv, BlockedOK
<1>10. CallOK(c)'
  BY <1>1, <1>2, <1>3 DEF CallOK
<1>11. BlockOK(asyncQueue, b)'
  BY <1>1, <1>2, <1>3, <1>5, <1>9 DEF BlockOK, CallOK, InOrder
<1>12. \A p \in Queues : Only(asyncQueue)[p] = 1 => BlockOK(p, b)'
  BY <1>11 DEF Only
<1> QED BY <1>1, <1>3, <1>7, <1>8, <1>9, <1>10, <1>12, OnlyItself, TokenMoved

LEMMA handleResponseKeeps ==
  ASSUME TokenInv, NEW c \in Calls, handleResponse(c)
  PROVE  TokenInv' /\ Moved(c)
<1>1. PICK response \in Responses :
        /\ c \in http /\ http' = http \ {c}
        /\ queue' = Async(queue, networkQueue, "response", c, response)
        /\ answer' = [answer EXCEPT ![c] = response]
        /\ UNCHANGED <<request, blocked, semaphore, result, outcome, ended, made>>
  BY DEF handleResponse
<1>2. TypeOK /\ CallOK(c) /\ NoBlock(c)
  BY <1>1, TokenElsewhere DEF TokenInv
<1>3. /\ request[c] \in Request /\ semaphore[c] = 0 /\ ended[c] = 0 /\ networkQueue \in Queues
      /\ Held(c)
  BY <1>1, <1>2 DEF CallOK, TypeOK, Queues
<1>4. PICK b : b = [step |-> "response", call |-> c, value |-> response]
  OBVIOUS
<1>5. b \in Block /\ b.call = c /\ b.step = "response" /\ b.value = response
  BY <1>4, PayIDAssumption DEF Block
<1>6. \A d \in Calls \ {c} : SameCall(d)
  BY <1>1, <1>2 DEF SameCall, TypeOK
<1>7. MovesToken(c, Nowhere, Only(networkQueue), b) /\ queue' \in [Queues -> Seq(Block)]
  BY <1>1, <1>2, <1>3, <1>5, <1>6, MovesToQueue DEF FreedOrTaken
<1>8. answer'[c] = response /\ answer' \in [Calls -> Responses \cup {"invalidPayID", "none"}]
  BY <1>1, <1>2 DEF TypeOK
<1>9. TypeOK'
  BY <1>1, <1>2, <1>7, <1>8 DEF TypeOK
<1>10. response # "none"
  BY PayIDAssumption DEF AllResponses, AddressLists
<1>11. CallOK(c)'
  BY <1>1, <1>3, <1>8, <1>10, RequestTypes DEF CallOK
<1>12. BlockOK(networkQueue, b)'
  BY <1>1, <1>3, <1>5, <1>8 DEF BlockOK, Held, WaitQueue
<1>13. \A p \in Queues : Only(networkQueue)[p] = 1 => BlockOK(p, b)'
  BY <1>12 DEF Only
<1>14. \A q \in Queues : blocked'[q] = c => BlockedOK(q)'
  BY <1>1 DEF TokenInv, BlockedOK, WaitQueue
<1> QED BY <1>1, <1>3, <1>7, <1>9, <1>11, <1>13, <1>14, OnlyItself, TokenMoved

LEMMA RunXRPAddressKeeps ==
  ASSUME TokenInv, RunXRPAddress
  PROVE  TokenInv' /\ Moved(Head(queue[asyncQueue]).call)
<1> DEFINE q == asyncQueue
<1>1. q \in Queues /\ queue[q] # <<>> /\ blocked[q] = NoCall /\ TypeOK
  BY DEF RunXRPAddress, Runs, Queues, TokenInv
<1>2. PICK c \in Calls : c = Head(queue[q]).call
  BY <1>1, FirstBlock
<1>3. /\ Head(queue[q]).step = "xrpAddress" /\ addresses(c, request[c], Rest(q))
      /\ blocked' = [blocked EXCEPT ![q] = c]
      /\ UNCHANGED <<request, semaphore, result, outcome, ended, made>>
  BY <1>2 DEF RunXRPAddress, Runs
<1>4. PICK r \in Request : r = request[c]
  BY <1>1, <1>2, FirstBlock DEF BlockOK
<1>5. /\ c \notin http /\ semaphore[c] = 0 /\ ended[c] = 0
      /\ InOrder(c) /\ answer[c] = "none" /\ CallOK(c)
  BY <1>1, <1>2, <1>3, FirstBlock DEF BlockOK, TokenInv
<1>6. CallbackQueue(r) \in Queues /\ r # NoRequest /\ Waits(r) /\ ~ r.sync
  BY <1>4, <1>5, RequestTypes DEF InOrder, Waits
<1>7. /\ blocked' \in [Queues -> Calls \cup {NoCall}] /\ blocked'[q] = c
      /\ \A p \in Queues : FreedOrTaken(c, p)
      /\ \A p \in Queues \ {q} : blocked'[p] = blocked[p]
  BY <1>1, <1>3 DEF TypeOK, FreedOrTaken
<1>8. ASSUME NEW p \in Queues, blocked'[p] = c PROVE BlockedOK(p)'
  <2>1. p = q
    <3>1. blocked[p] = c => p = q
      BY <1>4, <1>6, PayIDAssumption DEF TokenInv, BlockedOK, WaitQueue
    <3> QED BY <1>7, <1>8, <3>1
  <2>2. request'[c] = r /\ ended'[c] = 0
    BY <1>3, <1>4, <1>5
  <2> QED BY <1>6, <1>8, <2>1, <2>2 DEF BlockedOK, WaitQueue
<1>11. Held(c)'
  BY <1>3, <1>4, <1>6, <1>7 DEF Held, WaitQueue
<1> HIDE DEF q
<1>9. CASE /\ http' = http \cup {c} /\ queue' = Rest(q) /\ UNCHANGED answer
  <2>1. \A d \in Calls \ {c} : SameCall(d)
    BY <1>3, <1>9 DEF SameCall
  <2>2. PICK b : b = c
    OBVIOUS
  <2>3. MovesToken(c, Only(q), Nowhere, b) /\ queue' \in [Queues -> Seq(Block)]
    BY <1>1, <1>2, <1>7, <1>9, <2>1, MovesOffQueue
  <2>4. TypeOK'
    BY <1>1, <1>3, <1>7, <1>9, <2>3 DEF TypeOK
  <2>5. CallOK(c)'
    BY <1>3, <1>4, <1>5, <1>6, <1>9, <1>11 DEF CallOK
  <2>6. \A p \in Queues : Nowhere[p] # 1
    BY DEF Nowhere
  <2>7. TokenInv' /\ Moved(c)
    BY <1>8, <1>9, <2>3, <2>4, <2>5, <2>6, TokenMoved
  <2> QED BY <1>2, <2>7 DEF q
<1>10. CASE /\ queue' = Async(Rest(q), CallbackQueue(r), "completion", c, "invalidPayID")
            /\ answer' = [answer EXCEPT ![c] = "invalidPayID"]
            /\ UNCHANGED http
  <2>1. PICK b : b = [step |-> "completion", call |-> c, value |-> "invalidPayID"]
    OBVIOUS
  <2>2. b \in Block /\ b.call = c /\ b.step = "completion" /\ b.value = "invalidPayID"
    BY <2>1 DEF Block, Errors
  <2>3. \A d \in Calls \ {c} : SameCall(d)
    BY <1>1, <1>3, <1>10 DEF SameCall, TypeOK
  <2>4. MovesToken(c, Only(q), Only(CallbackQueue(r)), b) /\ queue' \in [Queues -> Seq(Block)]
    BY <1>1, <1>2, <1>6, <1>7, <1>10, <2>2, <2>3, MovesOn
  <2>5. answer'[c] = "invalidPayID" /\ answer' \in [Calls -> Responses \cup {"invalidPayID", "none"}]
    BY <1>1, <1>10 DEF TypeOK
  <2>6. TypeOK'
    BY <1>1, <1>3, <1>7, <1>10, <2>4, <2>5 DEF TypeOK
  <2>7. CallOK(c)'
    BY <1>3, <1>4, <1>5, <1>6, <1>10 DEF CallOK
  <2>8. BlockOK(CallbackQueue(r), b)'
    BY <1>3, <1>4, <1>5, <1>10, <1>11, <2>2, <2>5 DEF BlockOK, Completed
  <2>9. \A p \in Queues : Only(CallbackQueue(r))[p] = 1 => BlockOK(p, b)'
    BY <2>8 DEF Only
  <2>10. TokenInv' /\ Moved(c)
    BY <1>6, <1>8, <2>4, <2>6, <2>7, <2>9, OnlyItself, TokenMoved
  <2> QED BY <1>2, <2>10 DEF q
<1> QED BY <1>3, <1>4, <1>9, <1>10 DEF addresses, q

(* A block that only puts the next one on a queue.                          *)
LEMMA PassedOnKeeps ==
  ASSUME TokenInv, NEW q \in Queues, queue[q] # <<>>, NEW c, c = Head(queue[q]).call,
         NEW p \in Queues, NEW b \in Block, b.call = c,
         queue' = Async(Rest(q), p, b.step, c, b.value),
         UNCHANGED <<request, http, blocked, semaphore, result, outcome, ended, answer, made>>,
         BlockOK(p, b)
  PROVE  TokenInv' /\ Moved(c)
<1>1. c \in Calls /\ TypeOK /\ CallOK(c)
  BY FirstBlock DEF TokenInv
<1>2. \A d \in Calls \ {c} : SameCall(d)
  BY DEF SameCall
<1>3. MovesToken(c, Only(q), Only(p), b) /\ queue' \in [Queues -> Seq(Block)]
  BY <1>2, MovesOn DEF FreedOrTaken
<1>4. TypeOK'
  BY <1>1, <1>3 DEF TypeOK
<1>5. CallOK(c)'
  BY <1>1 DEF CallOK, Completed, Expected, FinalResult, Held, WaitQueue
<1>6. BlockOK(p, b)'
  BY DEF BlockOK, InOrder, Completed, Expected, FinalResult, Held, WaitQueue
<1>7. \A r \in Queues : Only(p)[r] = 1 => BlockOK(r, b)'
  BY <1>6 DEF Only
<1>8. \A r \in Queues : BlockedOK(r)'
  BY DEF TokenInv, BlockedOK, WaitQueue
<1> QED BY <1>1, <1>3, <1>4, <1>5, <1>7, <1>8, OnlyItself, TokenMoved

LEMMA RunResponseKeeps ==
  ASSUME TokenInv, NEW q \in Queues, RunResponse(q)
  PROVE  TokenInv' /\ Moved(Head(queue[q]).call)
<1>1. /\ queue[q] # <<>> /\ Head(queue[q]).step = "response"
      /\ UNCHANGED <<request, http, blocked, semaphore, result, outcome, ended, answer, made>>
  BY DEF RunResponse, Runs
<1>2. PICK h \in Block : h = Head(queue[q]) /\ h.call \in Calls
  BY <1>1, FirstBlock
<1> DEFINE p == CallbackQueue(request[h.call])
<1>3. queue' = Async(Rest(q), p, "addresses", h.call, AddressesResult(h.value))
  BY <1>2 DEF RunResponse
<1>4. BlockOK(q, h) /\ h.step = "response"
  BY <1>1, <1>2, FirstBlock
<1>5. p \in Queues /\ h.value \in AllResponses
  BY <1>4, RequestTypes, PayIDAssumption DEF BlockOK
<1>6. PICK b : b = [step |-> "addresses", call |-> h.call, value |-> AddressesResult(h.value)]
  OBVIOUS
<1>7. /\ b \in Block /\ b.call = h.call /\ b.step = "addresses"
      /\ b.value = AddressesResult(h.value)
  BY <1>2, <1>5, <1>6, ResultTypes DEF Block, AllResponses
<1>8. BlockOK(p, b)
  BY <1>4, <1>7 DEF BlockOK
<1> HIDE DEF p
<1> QED BY <1>1, <1>2, <1>3, <1>5, <1>7, <1>8, PassedOnKeeps

LEMMA RunAddressesKeeps ==
  ASSUME TokenInv, NEW q \in Queues, RunAddresses(q)
  PROVE  TokenInv' /\ Moved(Head(queue[q]).call)
<1>1. /\ queue[q] # <<>> /\ Head(queue[q]).step = "addresses"
      /\ UNCHANGED <<request, http, blocked, semaphore, result, outcome, ended, answer, made>>
  BY DEF RunAddresses, Runs
<1>2. PICK h \in Block : h = Head(queue[q]) /\ h.call \in Calls
  BY <1>1, FirstBlock
<1> DEFINE p == CallbackQueue(request[h.call])
           v == AddressResult(request[h.call].method, h.value)
<1>3. queue' = Async(Rest(q), p, "completion", h.call, v)
  BY <1>2 DEF RunAddresses
<1>4. BlockOK(q, h) /\ h.step = "addresses"
  BY <1>1, <1>2, FirstBlock
<1>5. /\ answer[h.call] \in Responses /\ h.value = AddressesResult(answer[h.call])
      /\ request[h.call] \in Request
  BY <1>4 DEF BlockOK
<1>6. answer[h.call] # "invalidPayID" /\ answer[h.call] # "none"
  BY <1>5, PayIDAssumption DEF AllResponses, AddressLists
<1>7. p \in Queues /\ v = Completed(h.call) /\ v \in AddressLists \cup Errors
  BY <1>5, <1>6, RequestTypes, CompletedType DEF Completed
<1>8. PICK b : b = [step |-> "completion", call |-> h.call, value |-> v]
  OBVIOUS
<1> HIDE DEF v
<1>9. b \in Block /\ b.call = h.call /\ b.step = "completion" /\ b.value = v
  BY <1>2, <1>7, <1>8 DEF Block, AllResponses
<1>10. BlockOK(p, b)
  BY <1>4, <1>6, <1>7, <1>9 DEF BlockOK
<1> HIDE DEF p
<1> QED BY <1>1, <1>2, <1>3, <1>7, <1>9, <1>10, PassedOnKeeps

LEMMA RunSignalKeeps ==
  ASSUME TokenInv, NEW q \in Queues, RunSignal(q)
  PROVE  TokenInv' /\ Moved(Head(queue[q]).call)
<1>1. /\ queue[q] # <<>> /\ Head(queue[q]).step = "completion" /\ queue' = Rest(q)
      /\ UNCHANGED <<request, http, blocked, outcome, ended, answer, made>>
  BY DEF RunSignal, Runs
<1>2. PICK h \in Block : h = Head(queue[q]) /\ h.call \in Calls
  BY <1>1, FirstBlock
<1> DEFINE c == h.call
<1>3. BlockOK(q, h) /\ h.step = "completion" /\ CallOK(c) /\ TypeOK
  BY <1>1, <1>2, FirstBlock DEF TokenInv
<1>4. /\ result' = [result EXCEPT ![c] = h.value]
      /\ semaphore' = [semaphore EXCEPT ![c] = @ + 1]
  BY <1>2 DEF RunSignal
<1>5. /\ request[c] \in Request /\ c \notin http /\ semaphore[c] = 0 /\ ended[c] = 0
      /\ answer[c] # "none" /\ h.value = Completed(c) /\ Held(c) /\ Waits(request[c])
  BY <1>2, <1>3 DEF BlockOK, RunSignal
<1>6. h.value \in AddressLists \cup Errors /\ request[c] # NoRequest
  BY <1>2, <1>3, <1>5, CompletedType, RequestTypes DEF TypeOK
<1>7. \A d \in Calls \ {c} : SameCall(d)
  BY <1>1, <1>3, <1>4 DEF SameCall, TypeOK
<1>8. MovesToken(c, Only(q), Nowhere, h) /\ queue' \in [Queues -> Seq(Block)]
  BY <1>1, <1>2, <1>7, MovesOffQueue DEF FreedOrTaken
<1>9. result'[c] = h.value /\ semaphore'[c] = 1
  BY <1>2, <1>3, <1>4, <1>5 DEF TypeOK
<1>10. TypeOK'
  BY <1>1, <1>2, <1>3, <1>4, <1>5, <1>6, <1>8 DEF TypeOK
<1>11. CallOK(c)'
  BY <1>1, <1>5, <1>6, <1>9 DEF CallOK, Completed, Held, WaitQueue
<1>12. \A p \in Queues : Nowhere[p] # 1
  BY DEF Nowhere
<1>13. \A p \in Queues : BlockedOK(p)'
  BY <1>1 DEF TokenInv, BlockedOK, WaitQueue
<1> HIDE DEF c
<1>14. c \in Calls
  BY <1>2 DEF c
<1>15. TokenInv' /\ Moved(c)
  BY <1>8, <1>9, <1>10, <1>11, <1>12, <1>13, <1>14, TokenMoved DEF c
<1> QED BY <1>2, <1>15 DEF c

LEMMA RunCompletionKeeps ==
  ASSUME TokenInv, NEW q \in Queues, RunCompletion(q)
  PROVE  TokenInv' /\ Moved(Head(queue[q]).call)
<1>1. /\ queue[q] # <<>> /\ queue' = Rest(q)
      /\ \/ Head(queue[q]).step = "completion" /\ ~ Waits(request[Head(queue[q]).call])
         \/ Head(queue[q]).step = "deliver"
      /\ UNCHANGED <<request, http, blocked, semaphore, result, answer, made>>
  BY DEF RunCompletion, Runs
<1>2. PICK h \in Block : h = Head(queue[q]) /\ h.call \in Calls
  BY <1>1, FirstBlock
<1> DEFINE c == h.call
<1>3. BlockOK(q, h) /\ CallOK(c) /\ TypeOK
  BY <1>1, <1>2, FirstBlock DEF TokenInv
<1>4. /\ outcome' = [outcome EXCEPT ![c] = h.value]
      /\ ended' = [ended EXCEPT ![c] = @ + 1]
  BY <1>2 DEF RunCompletion, Deliver
<1>5. /\ request[c] \in Request /\ c \notin http /\ semaphore[c] = 0 /\ ended[c] = 0
      /\ answer[c] # "none"
  BY <1>1, <1>2, <1>3 DEF BlockOK
<1>6. /\ h.value = Expected(c) /\ request[c] # NoRequest
      /\ Waits(request[c]) => InOrder(c) /\ blocked[asyncQueue] # c
  <2>1. CASE h.step = "completion" /\ ~ Waits(request[c])
    BY <1>3, <1>5, <2>1, CompletedIsExpected, RequestTypes DEF BlockOK, Waits
  <2>2. CASE h.step = "deliver"
    BY <1>3, <1>5, <2>2, RequestTypes DEF BlockOK
  <2> QED BY <1>1, <1>2, <2>1, <2>2
<1>7. h.value \in AddressLists \cup Errors
  BY <1>2, <1>3, <1>5, <1>6, CompletedType DEF TypeOK
<1>8. \A d \in Calls \ {c} : SameCall(d)
  BY <1>1, <1>3, <1>4 DEF SameCall, TypeOK
<1>9. MovesToken(c, Only(q), Nowhere, h) /\ queue' \in [Queues -> Seq(Block)]
  BY <1>1, <1>2, <1>8, MovesOffQueue DEF FreedOrTaken
<1>10. outcome'[c] = h.value /\ ended'[c] = 1
  BY <1>2, <1>3, <1>4, <1>5 DEF TypeOK
<1>11. TypeOK'
  BY <1>1, <1>2, <1>3, <1>4, <1>5, <1>7, <1>9 DEF TypeOK
<1>12. CallOK(c)'
  BY <1>1, <1>5, <1>6, <1>10 DEF CallOK, Expected, FinalResult
<1>13. \A p \in Queues : Nowhere[p] # 1
  BY DEF Nowhere
<1>14. \A p \in Queues : blocked'[p] # c
  <2>1. ASSUME NEW p \in Queues, blocked[p] = c PROVE FALSE
    <3>1. Waits(request[c]) /\ p = WaitQueue(c)
      BY <1>2, <2>1, PayIDAssumption DEF TokenInv, BlockedOK
    <3> QED BY <1>6, <2>1, <3>1 DEF WaitQueue, InOrder
  <2> QED BY <1>1, <2>1
<1> HIDE DEF c
<1>15. c \in Calls
  BY <1>2 DEF c
<1>16. TokenInv' /\ Moved(c)
  BY <1>9, <1>10, <1>11, <1>12, <1>13, <1>14, <1>15, TokenMoved DEF c
<1> QED BY <1>2, <1>16 DEF c

LEMMA WakeKeeps ==
  ASSUME TokenInv, NEW q \in Queues, Wake(q)
  PROVE  TokenInv' /\ Moved(blocked[q])
<1>1. PICK c \in Calls : c = blocked[q] /\ c # NoCall
  BY DEF Wake, TokenInv, TypeOK
<1>2. /\ semaphore[c] > 0 /\ semaphore' = [semaphore EXCEPT ![c] = @ - 1]
      /\ blocked' = [blocked EXCEPT ![q] = NoCall]
      /\ UNCHANGED <<request, http, result, answer, made>>
  BY <1>1 DEF Wake
<1>3. /\ TypeOK /\ CallOK(c) /\ NoBlock(c) /\ BlockedOK(q)
      /\ semaphore[c] = 1 /\ semaphore'[c] = 0
  BY <1>2, TokenElsewhere DEF TokenInv, TypeOK
<1>4. PICK r \in Request : r = request[c]
  BY <1>1, <1>3 DEF BlockedOK
<1>5. /\ ended[c] = 0 /\ answer[c] # "none" /\ result[c] = Completed(c) /\ c \notin http
      /\ Waits(r) /\ q = WaitQueue(c) /\ r # NoRequest
  BY <1>1, <1>3, <1>4, RequestTypes DEF CallOK, BlockedOK
<1> DEFINE v == FinalResult(c, result[c])
<1>6. v = Expected(c) /\ v \in AddressLists \cup Errors
  BY <1>3, <1>4, <1>5, CompletedIsExpected, CompletedType DEF TypeOK
<1>7. /\ blocked' \in [Queues -> Calls \cup {NoCall}] /\ blocked'[q] = NoCall
      /\ \A p \in Queues \ {q} : blocked'[p] = blocked[p]
      /\ \A p \in Queues : FreedOrTaken(c, p)
  BY <1>1, <1>2, <1>3 DEF TypeOK, FreedOrTaken
<1>8. \A p \in Queues : blocked'[p] # c
  <2>1. ASSUME NEW p \in Queues \ {q}, blocked[p] = c PROVE FALSE
    BY <1>1, <1>5, <2>1 DEF TokenInv, BlockedOK
  <2> QED BY <1>1, <1>7, <2>1
<1>9. CASE r.sync
  <2>1. /\ outcome' = [outcome EXCEPT ![c] = v] /\ ended' = [ended EXCEPT ![c] = @ + 1]
        /\ UNCHANGED queue
    BY <1>1, <1>4, <1>9 DEF Wake, Deliver
  <2> HIDE DEF v
  <2>2. \A d \in Calls \ {c} : SameCall(d)
    BY <1>2, <1>3, <2>1 DEF SameCall, TypeOK
  <2>3. PICK b : b = c
    OBVIOUS
  <2>4. MovesToken(c, Nowhere, Nowhere, b)
    BY <1>3, <1>7, <2>1, <2>2, MovesOffQueues
  <2>5. outcome'[c] = v /\ ended'[c] = 1
    BY <1>3, <1>5, <2>1 DEF TypeOK
  <2>6. TypeOK'
    BY <1>2, <1>3, <1>5, <1>6, <1>7, <2>1 DEF TypeOK
  <2>7. CallOK(c)'
    BY <1>2, <1>3, <1>4, <1>5, <1>6, <2>5 DEF CallOK, Expected, FinalResult
  <2>8. \A p \in Queues : Nowhere[p] # 1
    BY DEF Nowhere
  <2>9. TokenInv' /\ Moved(c)
    BY <1>8, <2>4, <2>5, <2>6, <2>7, <2>8, TokenMoved
  <2> QED BY <1>1, <2>9
<1>10. CASE ~ r.sync
  <2> DEFINE p == r.callbackQueue
  <2>1. /\ queue' = Async(queue, p, "deliver", c, v) /\ UNCHANGED <<outcome, ended>>
        /\ p \in Queues
    BY <1>1, <1>4, <1>10, RequestTypes DEF Wake, Queues
  <2>2. PICK b : b = [step |-> "deliver", call |-> c, value |-> v]
    OBVIOUS
  <2> HIDE DEF v
  <2>3. b \in Block /\ b.call = c /\ b.step = "deliver" /\ b.value = v
    BY <1>6, <2>2 DEF Block, AllResponses
  <2>4. \A d \in Calls \ {c} : SameCall(d)
    BY <1>2, <1>3, <2>1 DEF SameCall, TypeOK
  <2>5. MovesToken(c, Nowhere, Only(p), b) /\ queue' \in [Queues -> Seq(Block)]
    BY <1>3, <1>7, <2>1, <2>3, <2>4, MovesToQueue
  <2>6. TypeOK'
    BY <1>2, <1>3, <1>7, <2>1, <2>5 DEF TypeOK
  <2>7. CallOK(c)'
    BY <1>2, <1>3, <1>4, <1>5, <2>1 DEF CallOK
  <2>8. InOrder(c)
    BY <1>4, <1>5, <1>10 DEF InOrder, Waits
  <2>9. asyncQueue \in Queues
    BY DEF Queues
  <2>10. BlockOK(p, b)'
    BY <1>2, <1>3, <1>4, <1>5, <1>6, <1>8, <2>1, <2>3, <2>8, <2>9
       DEF BlockOK, InOrder, Expected, FinalResult
  <2>11. \A s \in Queues : Only(p)[s] = 1 => BlockOK(s, b)'
    BY <2>10 DEF Only
  <2>12. TokenInv' /\ Moved(c)
    BY <1>8, <2>1, <2>5, <2>6, <2>7, <2>11, OnlyItself, TokenMoved
  <2> QED BY <1>1, <2>12
<1> QED BY <1>1, <1>9, <1>10

LEMMA TokenInvInit == Init => TokenInv
<1> SUFFICES ASSUME Init PROVE TokenInv
  OBVIOUS
<1>1. TypeOK
  BY DEF Init, TypeOK, Errors
<1>2. \A q \in Queues : Len(queue[q]) = 0
  BY DEF Init
<1>3. BlocksOK /\ OneBlock
  BY <1>2 DEF BlocksOK, OneBlock
<1>4. ASSUME NEW c \in Calls PROVE CallOK(c) /\ Placed(c)
  BY DEF Init, CallOK, Placed
<1>5. ASSUME NEW q \in Queues PROVE BlockedOK(q)
  BY DEF Init, BlockedOK
<1> QED BY <1>1, <1>3, <1>4, <1>5 DEF TokenInv

LEMMA TokenInvStutters == TokenInv /\ UNCHANGED vars => TokenInv'
<1> SUFFICES ASSUME TokenInv, UNCHANGED vars PROVE TokenInv'
  OBVIOUS
<1>1. TypeOK' /\ OneBlock'
  BY DEF TokenInv, TypeOK, OneBlock, vars
<1>2. BlocksOK'
  BY DEF TokenInv, BlocksOK, BlockOK, InOrder, Completed, Expected, FinalResult,
         Held, WaitQueue, vars
<1>3. ASSUME NEW c \in Calls PROVE CallOK(c)' /\ Placed(c)'
  BY DEF TokenInv, CallOK, Completed, Expected, FinalResult, Held, WaitQueue, Placed,
         NoBlock, vars
<1>4. ASSUME NEW q \in Queues PROVE BlockedOK(q)'
  BY DEF TokenInv, BlockedOK, WaitQueue, vars
<1> QED BY <1>1, <1>2, <1>3, <1>4 DEF TokenInv

LEMMA TokenInvNext == TokenInv /\ [Next]_vars => TokenInv'
<1> SUFFICES ASSUME TokenInv, [Next]_vars PROVE TokenInv'
  OBVIOUS
<1>1. ASSUME NEW c \in Calls, ResolveSync(c) PROVE TokenInv'
  BY <1>1, AskedKeeps DEF ResolveSync
<1>2. ASSUME NEW c \in Calls, ResolveAsync(c) PROVE TokenInv'
  BY <1>2, AskedKeeps DEF ResolveAsync
<1>3. ASSUME NEW c \in Calls, xrpAddress(c) PROVE TokenInv'
  BY <1>3, xrpAddressKeeps
<1>4. ASSUME NEW c \in Calls, handleResponse(c) PROVE TokenInv'
  BY <1>4, handleResponseKeeps
<1>5. CASE RunXRPAddress
  BY <1>5, RunXRPAddressKeeps
<1>6. ASSUME NEW q \in Queues, RunQueue(q) PROVE TokenInv'
  BY <1>6, RunResponseKeeps, RunAddressesKeeps, RunSignalKeeps, RunCompletionKeeps, WakeKeeps
     DEF RunQueue
<1>7. CASE UNCHANGED vars
  BY <1>7, TokenInvStutters
<1> QED BY <1>1, <1>2, <1>3, <1>4, <1>5, <1>6, <1>7 DEF Next

LEMMA TokenInvHolds == Spec => []TokenInv
<1> QED BY TokenInvInit, TokenInvNext, PTL DEF Spec
-----------------------------------------------------------------------------
(* No deadlock.  A waiting thread waits for an HTTP request, its semaphore  *)
(* or a block of networkQueue, whose own thread never waits.               *)

LEMMA NetworkIsFree == TokenInv => blocked[networkQueue] = NoCall
<1> SUFFICES ASSUME TokenInv, blocked[networkQueue] # NoCall PROVE FALSE
  OBVIOUS
<1>1. networkQueue \in Queues
  BY DEF Queues
<1>2. PICK c : c = blocked[networkQueue]
  OBVIOUS
<1>3. request[c] \in Request /\ networkQueue = WaitQueue(c)
  BY <1>1, <1>2 DEF TokenInv, BlockedOK
<1> QED BY <1>3, RequestTypes, PayIDAssumption DEF WaitQueue

LEMMA WaitersGoOn ==
  ASSUME TokenInv, NEW q \in Queues, blocked[q] # NoCall
  PROVE  http # {} \/ CanRun(q) \/ CanRun(networkQueue)
<1>1. PICK c \in Calls : c = blocked[q]
  BY DEF TokenInv, TypeOK
<1>2. /\ request[c] \in Request /\ Waits(request[c]) /\ ended[c] = 0 /\ q = WaitQueue(c)
      /\ request[c] # NoRequest
  BY <1>1, RequestTypes DEF TokenInv, BlockedOK
<1>3. CASE c \in http
  BY <1>3
<1>4. CASE semaphore[c] = 1
  BY <1>1, <1>4 DEF CanRun
<1>5. CASE ~ NoBlock(c)
  <2>1. PICK p \in Queues : \E i \in 1 .. Len(queue[p]) : queue[p][i].call = c
    BY <1>5 DEF NoBlock
  <2>2. PICK i \in 1 .. Len(queue[p]) : queue[p][i].call = c
    BY <2>1
  <2>3. BlockOK(p, queue[p][i]) /\ queue[p] \in Seq(Block) /\ queue[p][i] \in Block
    BY <2>2, LenType DEF TokenInv, TypeOK, BlocksOK
  <2>4. queue[p][i].step \notin {"xrpAddress", "deliver"}
    BY <1>1, <1>2, <2>2, <2>3 DEF BlockOK, InOrder, WaitQueue
  <2>5. queue[p][i].step \in {"response", "addresses", "completion"}
    BY <2>3, <2>4 DEF Block
  <2>6. p = networkQueue
    BY <1>2, <2>2, <2>3, <2>5 DEF BlockOK, CallbackQueue
  <2>7. queue[networkQueue] # <<>>
    BY <2>2, <2>3, <2>6
  <2> QED BY <2>7, NetworkIsFree DEF CanRun
<1> QED BY <1>2, <1>3, <1>4, <1>5 DEF TokenInv, Placed

LEMMA TokenInvNoDeadlock == TokenInv => NoDeadlock
<1> SUFFICES ASSUME TokenInv, NEW c \in Calls, request[c] # NoRequest, ended[c] = 0
             PROVE  http # {} \/ \E q \in Queues : CanRun(q)
  BY DEF NoDeadlock
<1>1. networkQueue \in Queues
  BY DEF Queues
<1>2. CASE c \in http
  BY <1>2
<1>3. CASE semaphore[c] = 1
  <2>1. Waits(request[c]) /\ Held(c) /\ c # NoCall
    BY <1>3, PayIDAssumption DEF TokenInv, CallOK
  <2>2. blocked[WaitQueue(c)] = c /\ WaitQueue(c) \in Queues
    BY <2>1, RequestTypes DEF Held, WaitQueue, Queues
  <2>3. CanRun(WaitQueue(c))
    BY <1>3, <2>1, <2>2 DEF CanRun
  <2> QED BY <2>2, <2>3
<1>4. CASE ~ NoBlock(c)
  <2>1. PICK p \in Queues : \E i \in 1 .. Len(queue[p]) : queue[p][i].call = c
    BY <1>4 DEF NoBlock
  <2>2. queue[p] \in Seq(Block) /\ queue[p] # <<>>
    BY <2>1 DEF TokenInv, TypeOK
  <2>3. CASE blocked[p] = NoCall
    BY <2>2, <2>3 DEF CanRun
  <2>4. CASE blocked[p] # NoCall
    BY <1>1, <2>4, WaitersGoOn
  <2> QED BY <2>3, <2>4
<1> QED BY <1>2, <1>3, <1>4 DEF TokenInv, Placed

-----------------------------------------------------------------------------
(* Every step advances one call.                                           *)

(* A call is in one place of its way.                                      *)
PlaceOK(c) ==
  /\ request[c] = NoRequest => Places(c) = {}
  /\ request[c] # NoRequest => Places(c) # {}
  /\ c \in http => Places(c) = {"http"}
  /\ semaphore[c] = 1 => Places(c) = {"semaphore"}
  /\ ended[c] = 1 => Places(c) = {"ended"}
  /\ \A q \in Queues : \A i \in 1 .. Len(queue[q]) :
       queue[q][i].call = c => Places(c) = {queue[q][i].step}

LEMMA PlaceOfCall ==
  ASSUME NEW c \in Calls
  PROVE  TokenInv => PlaceOK(c)
<1> SUFFICES ASSUME TokenInv PROVE PlaceOK(c)
  OBVIOUS
<1>1. CallOK(c) /\ Placed(c) /\ semaphore[c] \in {0, 1} /\ ended[c] \in {0, 1}
  BY DEF TokenInv, TypeOK
<1>2. ASSUME NEW q \in Queues PROVE DOMAIN queue[q] = 1 .. Len(queue[q])
  <2>1. queue[q] \in Seq(Block)
    BY DEF TokenInv, TypeOK
  <2> QED BY <2>1
<1>3. /\ Block \subseteq [step : DOMAIN Way \ {"http", "semaphore", "ended"}, call : Calls,
                         value : AllResponses \cup Errors]
      /\ {"http", "semaphore", "ended"} \subseteq DOMAIN Way
  BY DEF Way, Block
<1>4. ASSUME NoBlock(c)
      PROVE  Places(c) = {p \in {"http", "semaphore", "ended"} :
                            \/ p = "http" /\ c \in http
                            \/ p = "semaphore" /\ semaphore[c] > 0
                            \/ p = "ended" /\ ended[c] > 0}
  BY <1>2, <1>3, <1>4 DEF Places, NoBlock
<1>5. ASSUME request[c] = NoRequest PROVE Places(c) = {}
  BY <1>1, <1>4, <1>5, TokenElsewhere DEF CallOK
<1>6. ASSUME c \in http PROVE Places(c) = {"http"}
  BY <1>1, <1>4, <1>6, TokenElsewhere DEF CallOK
<1>7. ASSUME semaphore[c] = 1 PROVE Places(c) = {"semaphore"}
  BY <1>1, <1>4, <1>7, TokenElsewhere DEF CallOK
<1>8. ASSUME ended[c] = 1 PROVE Places(c) = {"ended"}
  BY <1>1, <1>4, <1>8, TokenElsewhere DEF CallOK
<1>9. ASSUME NEW q \in Queues, NEW i \in 1 .. Len(queue[q]), queue[q][i].call = c
      PROVE  Places(c) = {queue[q][i].step}
  <2>1. c \notin http /\ semaphore[c] = 0 /\ ended[c] = 0
    BY <1>9 DEF TokenInv, BlocksOK, BlockOK
  <2>2. queue[q][i].step \in DOMAIN Way
    BY <1>3, <1>9, LenType DEF TokenInv, TypeOK
  <2>3. \A p \in Queues : \A j \in DOMAIN queue[p] :
          queue[p][j].call = c => queue[p][j] = queue[q][i]
    BY <1>2, <1>9 DEF TokenInv, OneBlock
  <2> QED BY <1>2, <1>9, <2>1, <2>2, <2>3 DEF Places
<1>10. ASSUME request[c] # NoRequest PROVE Places(c) # {}
  BY <1>1, <1>6, <1>7, <1>8, <1>9, <1>10 DEF Placed, NoBlock
<1> QED BY <1>5, <1>6, <1>7, <1>8, <1>9, <1>10 DEF PlaceOK

LEMMA PlaceAfter ==
  ASSUME NEW c \in Calls
  PROVE  TokenInv' => PlaceOK(c)'
<1>1. TokenInv => PlaceOK(c)
  BY PlaceOfCall
<1> QED BY <1>1, PTL

(* A call comes to a place further on. *)
GoesOn(c) ==
  /\ Places(c)' # {}
  /\ \A p \in Places(c), r \in Places(c)' : Way[p] < Way[r]

LEMMA OnTheWay ==
  ASSUME NEW c, NEW p \in DOMAIN Way, NEW r \in DOMAIN Way, Way[p] < Way[r],
         Places(c) = {p}, Places(c)' = {r}
  PROVE  GoesOn(c)
BY DEF GoesOn

LEMMA WayValues ==
  /\ DOMAIN Way = {"xrpAddress", "http", "response", "addresses", "completion",
                   "semaphore", "deliver", "ended"}
  /\ Way["xrpAddress"] = 1 /\ Way["http"] = 2 /\ Way["response"] = 3
  /\ Way["addresses"] = 4 /\ Way["completion"] = 5 /\ Way["semaphore"] = 6
  /\ Way["deliver"] = 7 /\ Way["ended"] = 8
BY DEF Way

LEMMA RestType ==
  ASSUME TokenInv, NEW q \in Queues, queue[q] # <<>>
  PROVE  Rest(q) \in [Queues -> Seq(Block)]
<1>1. PICK b : b = q
  OBVIOUS
<1>2. Shifted(queue, Rest(q), Only(q), Nowhere, b)
  BY ShiftedRest DEF TokenInv, TypeOK, Rest
<1> QED BY <1>2 DEF Shifted

(* A call for which a block is put on a queue is there. *)
LEMMA PlacedOnQueue ==
  ASSUME TokenInv', NEW c \in Calls, NEW qs \in [Queues -> Seq(Block)], NEW q \in Queues,
         NEW step, NEW value, queue' = Async(qs, q, step, c, value)
  PROVE  Places(c)' = {step}
<1>1. PICK b : b = [step |-> step, call |-> c, value |-> value]
  OBVIOUS
<1>2. b.step = step /\ b.call = c
  BY <1>1
<1>3. qs[q] \in Seq(Block) /\ Len(qs[q]) \in Nat
  BY LenType
<1>4. queue'[q] = Append(qs[q], b)
  BY <1>1 DEF Async
<1>5. Len(queue'[q]) = Len(qs[q]) + 1 /\ queue'[q][Len(qs[q]) + 1] = b
  BY <1>3, <1>4
<1>6. PICK k \in 1 .. Len(queue'[q]) : queue'[q][k] = b
  BY <1>3, <1>5
<1> QED BY <1>2, <1>6, PlaceAfter DEF PlaceOK

LEMMA PlacedByAsking ==
  ASSUME TokenInv', NEW c \in Calls, NEW r, CallbackQueue(r) \in Queues,
         NEW qs \in [Queues -> Seq(Block)], addresses(c, r, qs)
  PROVE  Places(c)' = {"http"} \/ Places(c)' = {"completion"}
<1>1. CASE http' = http \cup {c}
  BY <1>1, PlaceAfter DEF PlaceOK
<1>2. CASE queue' = Async(qs, CallbackQueue(r), "completion", c, "invalidPayID")
  BY <1>2, PlacedOnQueue
<1> QED BY <1>1, <1>2 DEF addresses

(* The place of the call whose block a queue runs next. *)
LEMMA PlaceOfHead ==
  ASSUME TokenInv, NEW q \in Queues, queue[q] # <<>>
  PROVE  Places(Head(queue[q]).call) = {Head(queue[q]).step}
BY FirstBlock, PlaceOfCall DEF PlaceOK

Advanced == \E c \in Calls : GoesOn(c) /\ Moved(c)

LEMMA MadeAdvances ==
  ASSUME TokenInv, TokenInv', NEW c \in Calls, NEW r \in Request, Make(c, r), Moved(c)
  PROVE  Advanced
<1>1. request[c] = NoRequest /\ request'[c] # NoRequest
  BY RequestTypes DEF Make, TokenInv, TypeOK
<1>2. Places(c) = {} /\ Places(c)' # {}
  BY <1>1, PlaceOfCall, PlaceAfter DEF PlaceOK
<1> QED BY <1>2 DEF GoesOn, Advanced

LEMMA handleResponseAdvances ==
  ASSUME TokenInv, NEW c \in Calls, handleResponse(c)
  PROVE  Advanced
<1>1. TokenInv' /\ Moved(c)
  BY handleResponseKeeps
<1>2. Places(c) = {"http"}
  BY PlaceOfCall DEF handleResponse, PlaceOK
<1>3. Places(c)' = {"response"}
  BY <1>1, PlacedOnQueue DEF handleResponse, TokenInv, TypeOK, Queues
<1> QED BY <1>1, <1>2, <1>3, WayValues, OnTheWay DEF Advanced

LEMMA RunXRPAddressAdvances ==
  ASSUME TokenInv, RunXRPAddress
  PROVE  Advanced
<1>1. /\ asyncQueue \in Queues /\ queue[asyncQueue] # <<>>
      /\ Head(queue[asyncQueue]).step = "xrpAddress"
  BY DEF RunXRPAddress, Runs, Queues
<1>2. PICK c \in Calls : c = Head(queue[asyncQueue]).call
  BY <1>1, FirstBlock
<1>3. TokenInv' /\ Moved(c)
  BY <1>2, RunXRPAddressKeeps
<1>4. Places(c) = {"xrpAddress"}
  BY <1>1, <1>2, PlaceOfHead
<1>5. addresses(c, request[c], Rest(asyncQueue)) /\ request[c] \in Request
  BY <1>1, <1>2, FirstBlock DEF RunXRPAddress, BlockOK
<1>6. Places(c)' = {"http"} \/ Places(c)' = {"completion"}
  BY <1>1, <1>3, <1>5, RequestTypes, RestType, PlacedByAsking
<1> QED BY <1>3, <1>4, <1>6, WayValues, OnTheWay DEF Advanced

LEMMA RunResponseAdvances ==
  ASSUME TokenInv, NEW q \in Queues, RunResponse(q)
  PROVE  Advanced
<1>1. queue[q] # <<>> /\ Head(queue[q]).step = "response"
  BY DEF RunResponse, Runs
<1>2. PICK c \in Calls : c = Head(queue[q]).call
  BY <1>1, FirstBlock
<1>3. TokenInv' /\ Moved(c) /\ CallbackQueue(request[c]) \in Queues
  BY <1>1, <1>2, RunResponseKeeps, FirstBlock, RequestTypes DEF BlockOK
<1>4. Places(c) = {"response"}
  BY <1>1, <1>2, PlaceOfHead
<1>5. Places(c)' = {"addresses"}
  BY <1>1, <1>2, <1>3, RestType, PlacedOnQueue DEF RunResponse
<1> QED BY <1>3, <1>4, <1>5, WayValues, OnTheWay DEF Advanced

LEMMA RunAddressesAdvances ==
  ASSUME TokenInv, NEW q \in Queues, RunAddresses(q)
  PROVE  Advanced
<1>1. queue[q] # <<>> /\ Head(queue[q]).step = "addresses"
  BY DEF RunAddresses, Runs
<1>2. PICK c \in Calls : c = Head(queue[q]).call
  BY <1>1, FirstBlock
<1>3. TokenInv' /\ Moved(c) /\ CallbackQueue(request[c]) \in Queues
  BY <1>1, <1>2, RunAddressesKeeps, FirstBlock, RequestTypes DEF BlockOK
<1>4. Places(c) = {"addresses"}
  BY <1>1, <1>2, PlaceOfHead
<1>5. Places(c)' = {"completion"}
  BY <1>1, <1>2, <1>3, RestType, PlacedOnQueue DEF RunAddresses
<1> QED BY <1>3, <1>4, <1>5, WayValues, OnTheWay DEF Advanced

LEMMA RunSignalAdvances ==
  ASSUME TokenInv, NEW q \in Queues, RunSignal(q)
  PROVE  Advanced
<1>1. queue[q] # <<>> /\ Head(queue[q]).step = "completion"
  BY DEF RunSignal, Runs
<1>2. PICK c \in Calls : c = Head(queue[q]).call
  BY <1>1, FirstBlock
<1>3. TokenInv' /\ Moved(c) /\ semaphore[c] = 0
  BY <1>1, <1>2, RunSignalKeeps, FirstBlock DEF BlockOK
<1>4. Places(c) = {"completion"}
  BY <1>1, <1>2, PlaceOfHead
<1>5. semaphore'[c] = 1
  BY <1>2, <1>3 DEF RunSignal, TokenInv, TypeOK
<1>6. Places(c)' = {"semaphore"}
  BY <1>3, <1>5, PlaceAfter DEF PlaceOK
<1> QED BY <1>3, <1>4, <1>6, WayValues, OnTheWay DEF Advanced

LEMMA RunCompletionAdvances ==
  ASSUME TokenInv, NEW q \in Queues, RunCompletion(q)
  PROVE  Advanced
<1>1. queue[q] # <<>> /\ Head(queue[q]).step \in {"completion", "deliver"}
  BY DEF RunCompletion, Runs
<1>2. PICK c \in Calls : c = Head(queue[q]).call
  BY <1>1, FirstBlock
<1>3. TokenInv' /\ Moved(c) /\ ended[c] = 0
  BY <1>1, <1>2, RunCompletionKeeps, FirstBlock DEF BlockOK
<1>4. Places(c) = {"completion"} \/ Places(c) = {"deliver"}
  BY <1>1, <1>2, PlaceOfHead
<1>5. ended'[c] = 1
  BY <1>2, <1>3 DEF RunCompletion, Deliver, TokenInv, TypeOK
<1>6. Places(c)' = {"ended"}
  BY <1>3, <1>5, PlaceAfter DEF PlaceOK
<1> QED BY <1>3, <1>4, <1>6, WayValues, OnTheWay DEF Advanced

LEMMA WakeAdvances ==
  ASSUME TokenInv, NEW q \in Queues, Wake(q)
  PROVE  Advanced
<1>1. PICK c \in Calls : c = blocked[q] /\ semaphore[c] > 0 /\ c # NoCall
  BY DEF Wake, TokenInv, TypeOK
<1>2. TokenInv' /\ Moved(c)
  BY <1>1, WakeKeeps
<1>3. semaphore[c] = 1 /\ ended[c] = 0 /\ request[c] \in Request
  BY <1>1 DEF TokenInv, TypeOK, CallOK, Held
<1>4. Places(c) = {"semaphore"}
  BY <1>3, PlaceOfCall DEF PlaceOK
<1>5. CASE request[c].sync
  <2>1. ended'[c] = 1
    BY <1>1, <1>3, <1>5 DEF Wake, Deliver, TokenInv, TypeOK
  <2>2. Places(c)' = {"ended"}
    BY <1>2, <2>1, PlaceAfter DEF PlaceOK
  <2> QED BY <1>2, <1>4, <2>2, WayValues, OnTheWay DEF Advanced
<1>6. CASE ~ request[c].sync
  <2>1. queue' = Async(queue, request[c].callbackQueue, "deliver", c,
                       FinalResult(c, result[c]))
    BY <1>1, <1>6 DEF Wake
  <2>2. Places(c)' = {"deliver"}
    BY <1>2, <1>3, <2>1, RequestTypes, PlacedOnQueue DEF TokenInv, TypeOK, Queues
  <2> QED BY <1>2, <1>4, <2>2, WayValues, OnTheWay DEF Advanced
<1> QED BY <1>5, <1>6

LEMMA NextAdvances == TokenInv /\ Next => Advanced
<1> SUFFICES ASSUME TokenInv, Next PROVE Advanced
  OBVIOUS
<1>1. ASSUME NEW c \in Calls, ResolveSync(c) \/ ResolveAsync(c) PROVE Advanced
  BY <1>1, AskedKeeps, MadeAdvances DEF ResolveSync, ResolveAsync
<1>2. ASSUME NEW c \in Calls, xrpAddress(c) PROVE Advanced
  BY <1>2, xrpAddressKeeps, MadeAdvances DEF xrpAddress
<1>3. ASSUME NEW q \in Queues, RunQueue(q) PROVE Advanced
  BY <1>3, RunResponseAdvances, RunAddressesAdvances, RunSignalAdvances,
     RunCompletionAdvances, WakeAdvances DEF RunQueue
<1> QED BY <1>1, <1>2, <1>3, handleResponseAdvances, RunXRPAddressAdvances DEF Next
-----------------------------------------------------------------------------
(* The order of asynchronous xrpAddress calls.  Each is in one of four      *)
(* places: on asyncQueue, waited for there, on its callback queue, ended.  *)

Located(c) ==
  \/ \E k \in Nat : Queued(c, k)
  \/ blocked[asyncQueue] = c
  \/ \E k \in Nat : Delivering(c, k)
  \/ ended[c] = 1

(* Call d was made after call c and has not overtaken it.                   *)
Behind(c, d) ==
  /\ \A k \in Nat : Queued(c, k) => \E m \in Nat : m > k /\ Queued(d, m)
  /\ blocked[asyncQueue] = c => \E m \in Nat : Queued(d, m)
  /\ request[c].callbackQueue = request[d].callbackQueue =>
       \A k \in Nat : Delivering(c, k) =>
         \/ \E m \in Nat : Queued(d, m)
         \/ blocked[asyncQueue] = d
         \/ \E m \in Nat : m > k /\ Delivering(d, m)

MadeOnce ==
  /\ \A i \in 1 .. Len(made) : request[made[i]] \in Request
  /\ \A i, j \in 1 .. Len(made) : made[i] = made[j] => i = j

OrderInv ==
  /\ TokenInv
  /\ MadeOnce
  /\ \A c \in Calls : request[c] \in Request /\ InOrder(c) => Located(c)
  /\ \A i, j \in 1 .. Len(made) :
       i < j /\ InOrder(made[i]) /\ InOrder(made[j]) => Behind(made[i], made[j])

LEMMA SteadyMovesUp ==
  ASSUME NEW d \in Calls, NEW taken, Steady(d, taken), request[d] \in Request,
         \A p \in Queues : taken[p] \in {0, 1}
  PROVE  /\ \A m \in Nat : Queued(d, m) =>
              \E k \in Nat : m = k + taken[asyncQueue] /\ Queued(d, k)'
         /\ \A m \in Nat : Delivering(d, m) =>
              \E k \in Nat : m = k + taken[request[d].callbackQueue] /\ Delivering(d, k)'
<1>1. asyncQueue \in Queues /\ request[d].callbackQueue \in Queues
  BY RequestTypes DEF Queues
<1>2. ASSUME NEW m \in Nat, Queued(d, m)
      PROVE  \E k \in Nat : m = k + taken[asyncQueue] /\ Queued(d, k)'
  <2>1. PICK k \in Nat : m = k + taken[asyncQueue]
    <3>1. m - taken[asyncQueue] \in Nat
      BY <1>1, <1>2 DEF Queued
    <3> QED BY <1>1, <3>1
  <2> QED BY <1>2, <2>1 DEF Steady
<1>3. ASSUME NEW m \in Nat, Delivering(d, m)
      PROVE  \E k \in Nat : m = k + taken[request[d].callbackQueue] /\ Delivering(d, k)'
  <2>1. PICK k \in Nat : m = k + taken[request[d].callbackQueue]
    <3>1. m - taken[request[d].callbackQueue] \in Nat
      BY <1>1, <1>3 DEF Delivering
    <3> QED BY <1>1, <3>1
  <2> QED BY <1>3, <2>1 DEF Steady
<1> QED BY <1>2, <1>3

LEMMA SteadyPair ==
  ASSUME NEW c \in Calls, NEW d \in Calls, NEW taken, Steady(c, taken), Steady(d, taken),
         \A p \in Queues : taken[p] \in {0, 1},
         request[c] \in Request, request[d] \in Request, Behind(c, d)
  PROVE  Behind(c, d)'
<1> DEFINE t == taken[asyncQueue]
           u == taken[request[c].callbackQueue]
<1>1. asyncQueue \in Queues /\ request[c].callbackQueue \in Queues
  BY RequestTypes DEF Queues
<1>2. t \in {0, 1} /\ u \in {0, 1}
  BY <1>1
<1>3. ASSUME NEW k \in Nat, Queued(c, k)' PROVE \E m \in Nat : m > k /\ Queued(d, m)'
  <2>1. k + t \in Nat /\ Queued(c, k + t)
    BY <1>2, <1>3 DEF Steady
  <2>2. PICK m \in Nat : m > k + t /\ Queued(d, m)
    BY <2>1 DEF Behind
  <2>3. PICK n \in Nat : m = n + t /\ Queued(d, n)'
    BY <2>2, SteadyMovesUp
  <2> HIDE DEF t
  <2>4. n > k
    BY <1>2, <2>2, <2>3
  <2> QED BY <2>3, <2>4
<1>4. ASSUME \E m \in Nat : Queued(d, m) PROVE \E m \in Nat : Queued(d, m)'
  BY <1>4, SteadyMovesUp
<1>5. ASSUME (blocked[asyncQueue] = c)' PROVE \E m \in Nat : Queued(d, m)'
  BY <1>4, <1>5 DEF Behind, Steady
<1>6. ASSUME (request[c].callbackQueue = request[d].callbackQueue)',
             NEW k \in Nat, Delivering(c, k)'
      PROVE  \/ \E m \in Nat : Queued(d, m)'
             \/ (blocked[asyncQueue] = d)'
             \/ \E m \in Nat : m > k /\ Delivering(d, m)'
  <2>1. request[c].callbackQueue = request[d].callbackQueue
    BY <1>6 DEF Steady
  <2>2. k + u \in Nat /\ Delivering(c, k + u)
    BY <1>2, <1>6 DEF Steady
  <2>3. CASE \E m \in Nat : m > k + u /\ Delivering(d, m)
    <3>1. PICK m \in Nat : m > k + u /\ Delivering(d, m)
      BY <2>3
    <3>2. PICK n \in Nat : m = n + u /\ Delivering(d, n)'
      BY <2>1, <3>1, SteadyMovesUp
    <3> HIDE DEF u
    <3>3. n > k
      BY <1>2, <3>1, <3>2
    <3> QED BY <3>2, <3>3
  <2> QED BY <1>4, <2>1, <2>2, <2>3 DEF Behind, Steady
<1> QED BY <1>3, <1>5, <1>6 DEF Behind

(* A call is in one of those places only.                                   *)
OnePlace(c) ==
  request[c] \in Request =>
    /\ \A k, m \in Nat : /\ Queued(c, k) /\ Queued(c, m) => k = m
                         /\ Delivering(c, k) /\ Delivering(c, m) => k = m
                         /\ ~ (Queued(c, k) /\ Delivering(c, m))
    /\ \A k \in Nat : Queued(c, k) \/ Delivering(c, k) => blocked[asyncQueue] # c /\ ended[c] = 0
    /\ blocked[asyncQueue] = c => ended[c] = 0

LEMMA OnePlaceHolds ==
  ASSUME NEW c \in Calls
  PROVE  TokenInv => OnePlace(c)
<1> SUFFICES ASSUME TokenInv, request[c] \in Request PROVE OnePlace(c)
  BY DEF OnePlace
<1> DEFINE p == request[c].callbackQueue
<1>1. asyncQueue \in Queues /\ p \in Queues /\ c # NoCall /\ asyncQueue # p
  BY RequestTypes, PayIDAssumption DEF Queues
<1>2. ASSUME NEW k \in Nat, Queued(c, k) PROVE blocked[asyncQueue] # c /\ ended[c] = 0
  BY <1>1, <1>2 DEF TokenInv, BlocksOK, BlockOK, Queued
<1>3. ASSUME NEW k \in Nat, Delivering(c, k) PROVE blocked[asyncQueue] # c /\ ended[c] = 0
  BY <1>1, <1>3 DEF TokenInv, BlocksOK, BlockOK, Delivering
<1>4. ASSUME NEW k \in Nat, NEW m \in Nat
      PROVE  /\ Queued(c, k) /\ Queued(c, m) => k = m
             /\ Delivering(c, k) /\ Delivering(c, m) => k = m
             /\ ~ (Queued(c, k) /\ Delivering(c, m))
  BY <1>1 DEF TokenInv, OneBlock, Queued, Delivering
<1>5. blocked[asyncQueue] = c => ended[c] = 0
  BY <1>1 DEF TokenInv, BlockedOK
<1> QED BY <1>2, <1>3, <1>4, <1>5 DEF OnePlace

LEMMA OnePlaceAfter ==
  ASSUME NEW c \in Calls
  PROVE  TokenInv' => OnePlace(c)'
<1>1. TokenInv => OnePlace(c)
  BY OnePlaceHolds
<1> QED BY <1>1, PTL

LEMMA SteadyLocated ==
  ASSUME NEW d \in Calls, NEW taken, Steady(d, taken), request[d] \in Request,
         \A p \in Queues : taken[p] \in {0, 1}, Located(d)
  PROVE  Located(d)'
<1>1. CASE \E k \in Nat : Queued(d, k)
  BY <1>1, SteadyMovesUp DEF Located
<1>2. CASE \E k \in Nat : Delivering(d, k)
  BY <1>2, SteadyMovesUp DEF Located
<1> QED BY <1>1, <1>2 DEF Located, Steady

(* What a step does with the call of its block or thread: it goes on from   *)
(* the head of asyncQueue or from that thread, to the thread, to the end of *)
(* its callback queue, or from the head of that one to its end.            *)
Advances(e) ==
  /\ request'[e] = request[e]
  /\ \A m \in Nat : Queued(e, m) => m = 1 /\ blocked[asyncQueue] = NoCall
  /\ \A m \in Nat : ~ Queued(e, m)'
  /\ (blocked[asyncQueue] = e)' \/ (\E m \in Nat : Delivering(e, m)')
       => blocked[asyncQueue] = e \/ \E m \in Nat : Queued(e, m)
  /\ \/ (blocked[asyncQueue] = e)'
     \/ \E m \in Nat : Delivering(e, m)' /\ m = Len(queue'[request'[e].callbackQueue])
     \/ Delivering(e, 1) /\ (ended[e] = 1)'

LEMMA AdvancesFirst ==
  ASSUME NEW e \in Calls, NEW d \in Calls, NEW taken, Steady(d, taken),
         \A p \in Queues : taken[p] \in {0, 1},
         request[d] \in Request, Advances(e), Behind(e, d)
  PROVE  Behind(e, d)'
<1>1. ASSUME (blocked[asyncQueue] = e)' \/ (\E m \in Nat : Delivering(e, m)')
      PROVE  \E m \in Nat : Queued(d, m)'
  <2>1. \E m \in Nat : Queued(d, m)
    BY <1>1 DEF Advances, Behind
  <2> QED BY <2>1, SteadyMovesUp
<1>2. \A k \in Nat : ~ Queued(e, k)'
  BY DEF Advances
<1> QED BY <1>1, <1>2 DEF Behind

LEMMA AdvancesSecond ==
  ASSUME TokenInv, TokenInv', NEW c \in Calls, NEW e \in Calls \ {c}, NEW taken,
         Steady(c, taken), \A p \in Queues : taken[p] \in {0, 1},
         request[c] \in Request, request[e] \in Request, Advances(e), Behind(c, e)
  PROVE  Behind(c, e)'
<1> DEFINE t == taken[asyncQueue]
           u == taken[request[c].callbackQueue]
<1>1. asyncQueue \in Queues /\ request[c].callbackQueue \in Queues /\ c # NoCall
  BY RequestTypes, PayIDAssumption DEF Queues
<1>2. t \in {0, 1} /\ u \in {0, 1}
  BY <1>1
<1>3. ASSUME NEW k \in Nat, Queued(c, k)' PROVE FALSE
  <2>1. k + t \in Nat /\ Queued(c, k + t)
    BY <1>2, <1>3 DEF Steady
  <2>2. PICK m \in Nat : m > k + t /\ Queued(e, m)
    BY <2>1 DEF Behind
  <2>3. m = 1
    BY <2>2 DEF Advances
  <2> QED BY <2>1, <2>2, <2>3 DEF Queued
<1>4. ASSUME (blocked[asyncQueue] = c)' PROVE FALSE
  <2>1. blocked[asyncQueue] = c /\ \E m \in Nat : Queued(e, m)
    BY <1>4 DEF Steady, Behind
  <2> QED BY <1>1, <2>1 DEF Advances
<1>5. ASSUME (request[c].callbackQueue = request[e].callbackQueue)',
             NEW k \in Nat, Delivering(c, k)'
      PROVE  \/ (blocked[asyncQueue] = e)'
             \/ \E m \in Nat : m > k /\ Delivering(e, m)'
  <2>1. CASE \E m \in Nat : Delivering(e, m)' /\ m = Len(queue'[request'[e].callbackQueue])
    <3>1. PICK m \in Nat : Delivering(e, m)' /\ m = Len(queue'[request'[e].callbackQueue])
      BY <2>1
    <3>2. k # m
      BY <1>5, <3>1 DEF Delivering
    <3>3. m > k
      BY <1>5, <3>1, <3>2 DEF Delivering
    <3> QED BY <3>1, <3>3
  <2>2. CASE Delivering(e, 1) /\ (ended[e] = 1)' /\ ~ (blocked[asyncQueue] = e)'
    <3>1. k + u \in Nat /\ Delivering(c, k + u)
      BY <1>2, <1>5 DEF Steady
    <3>2. request[c].callbackQueue = request[e].callbackQueue
      BY <1>5 DEF Steady, Advances
    <3>3. OnePlace(e)
      BY OnePlaceHolds
    <3>4. PICK m \in Nat : m > k + u /\ Delivering(e, m)
      BY <2>2, <3>1, <3>2, <3>3 DEF Behind, OnePlace
    <3>5. m = 1
      BY <2>2, <3>3, <3>4 DEF OnePlace
    <3> QED BY <3>1, <3>4, <3>5 DEF Delivering
  <2> QED BY <2>1, <2>2 DEF Advances
<1> QED BY <1>3, <1>4, <1>5 DEF Behind

LEMMA OrderKept ==
  ASSUME OrderInv, TokenInv', NEW e \in Calls, Moved(e), UNCHANGED made,
         request'[e] = request[e],
         request[e] \in Request /\ InOrder(e) => Advances(e)
  PROVE  OrderInv'
<1>1. PICK taken : /\ \A p \in Queues : taken[p] \in {0, 1}
                   /\ \A d \in Calls \ {e} : Steady(d, taken)
  BY DEF Moved
<1>2. \A d \in Calls : request'[d] = request[d]
  BY <1>1 DEF Steady
<1>3. made \in Seq(Calls) /\ made' = made /\ Len(made) \in Nat /\ TokenInv
  BY DEF OrderInv, TokenInv, TypeOK
<1>4. \A i \in 1 .. Len(made) : made[i] \in Calls /\ request[made[i]] \in Request
  BY <1>3 DEF OrderInv, MadeOnce
<1>5. MadeOnce'
  BY <1>2, <1>3, <1>4 DEF OrderInv, MadeOnce
<1>6. ASSUME NEW c \in Calls, (request[c] \in Request /\ InOrder(c))'
      PROVE  Located(c)'
  <2>1. request[c] \in Request /\ InOrder(c) /\ Located(c)
    BY <1>2, <1>6 DEF OrderInv, InOrder
  <2>2. CASE c = e
    BY <2>1, <2>2 DEF Advances, Located
  <2> QED BY <1>1, <2>1, <2>2, SteadyLocated
<1>7. ASSUME NEW i \in 1 .. Len(made'), NEW j \in 1 .. Len(made'), i < j,
             (InOrder(made[i]) /\ InOrder(made[j]))'
      PROVE  Behind(made[i], made[j])'
  <2>1. PICK c \in Calls, d \in Calls : c = made[i] /\ d = made[j]
    BY <1>3, <1>4
  <2>2. c # d
    BY <1>3, <1>7, <2>1 DEF OrderInv, MadeOnce
  <2>3. /\ request[c] \in Request /\ request[d] \in Request
        /\ InOrder(c) /\ InOrder(d) /\ Behind(c, d)
    BY <1>2, <1>3, <1>4, <1>7, <2>1 DEF OrderInv, InOrder
  <2>4. Behind(c, d)'
    <3>1. CASE c = e
      BY <1>1, <2>2, <2>3, <3>1, AdvancesFirst
    <3>2. CASE d = e
      BY <1>1, <1>3, <2>2, <2>3, <3>2, AdvancesSecond
    <3>3. CASE c # e /\ d # e
      BY <1>1, <2>3, <3>3, SteadyPair
    <3> QED BY <3>1, <3>2, <3>3
  <2> QED BY <1>3, <2>1, <2>4
<1> QED BY <1>5, <1>6, <1>7 DEF OrderInv

LEMMA OrderMade ==
  ASSUME OrderInv, TokenInv', NEW e \in Calls, Moved(e), made' = Append(made, e),
         request[e] = NoRequest, request'[e] \in Request,
         InOrder(e)' => \E m \in Nat : Queued(e, m)' /\ m = Len(queue'[asyncQueue])
  PROVE  OrderInv'
<1>1. PICK taken : /\ \A p \in Queues : taken[p] \in {0, 1}
                   /\ \A d \in Calls \ {e} : Steady(d, taken)
  BY DEF Moved
<1>2. \A d \in Calls \ {e} : request'[d] = request[d]
  BY <1>1 DEF Steady
<1> DEFINE n == Len(made)
<1>3. /\ made \in Seq(Calls) /\ n \in Nat /\ Len(made') = n + 1 /\ made'[n + 1] = e
      /\ \A i \in 1 .. n : made'[i] = made[i]
  BY DEF OrderInv, TokenInv, TypeOK
<1>4. ASSUME NEW i \in 1 .. n
      PROVE  /\ made[i] \in Calls \ {e} /\ request[made[i]] \in Request
             /\ request'[made[i]] = request[made[i]] /\ made'[i] = made[i]
  <2>1. request[made[i]] \in Request /\ made[i] \in Calls
    BY <1>3, <1>4 DEF OrderInv, MadeOnce
  <2> QED BY <1>2, <1>3, <2>1, RequestTypes
<1> HIDE DEF n
<1>5. MadeOnce'
  <2>1. ASSUME NEW i \in 1 .. Len(made') PROVE request'[made'[i]] \in Request
    <3>1. CASE i = n + 1
      BY <1>3, <3>1
    <3>2. CASE i # n + 1
      BY <1>3, <1>4, <3>2
    <3> QED BY <3>1, <3>2
  <2>2. ASSUME NEW i \in 1 .. Len(made'), NEW j \in 1 .. Len(made'), made'[i] = made'[j]
        PROVE  i = j
    <3>1. CASE i = n + 1 \/ j = n + 1
      BY <1>3, <1>4, <2>2, <3>1
    <3>2. CASE i # n + 1 /\ j # n + 1
      BY <1>3, <1>4, <2>2, <3>2 DEF OrderInv, MadeOnce, n
    <3> QED BY <3>1, <3>2
  <2> QED BY <2>1, <2>2 DEF MadeOnce
<1>6. ASSUME NEW c \in Calls, (request[c] \in Request /\ InOrder(c))'
      PROVE  Located(c)'
  <2>1. CASE c = e
    BY <1>6, <2>1 DEF Located
  <2>2. CASE c # e
    <3>1. request[c] \in Request /\ InOrder(c) /\ Located(c)
      BY <1>2, <1>6, <2>2 DEF OrderInv, InOrder
    <3> QED BY <1>1, <2>2, <3>1, SteadyLocated
  <2> QED BY <2>1, <2>2
<1>7. ASSUME NEW i \in 1 .. Len(made'), NEW j \in 1 .. Len(made'), i < j,
             (InOrder(made[i]) /\ InOrder(made[j]))'
      PROVE  Behind(made[i], made[j])'
  <2>1. i \in 1 .. n
    BY <1>3, <1>7
  <2>2. PICK c \in Calls \ {e} : c = made[i] /\ made'[i] = c
    BY <1>4, <2>1
  <2>3. request[c] \in Request /\ InOrder(c)
    BY <1>4, <1>7, <2>1, <2>2 DEF InOrder
  <2>4. CASE j = n + 1
    <3>1. PICK m \in Nat : Queued(e, m)' /\ m = Len(queue'[asyncQueue])
      BY <1>3, <1>7, <2>4
    <3>2. ASSUME NEW k \in Nat, Queued(c, k)' PROVE m > k
      <4>1. k # m
        BY <3>1, <3>2 DEF Queued
      <4> QED BY <3>1, <3>2, <4>1 DEF Queued
    <3>3. Behind(c, e)'
      BY <3>1, <3>2 DEF Behind
    <3> QED BY <1>3, <2>2, <2>4, <3>3
  <2>5. CASE j # n + 1
    <3>1. j \in 1 .. n
      BY <1>3, <2>5
    <3>2. PICK d \in Calls \ {e} : d = made[j] /\ made'[j] = d
      BY <1>4, <3>1
    <3>3. request[d] \in Request /\ InOrder(d)
      BY <1>4, <1>7, <3>1, <3>2 DEF InOrder
    <3>4. Behind(c, d)
      BY <1>7, <2>1, <2>2, <2>3, <3>1, <3>2, <3>3 DEF OrderInv, n
    <3>5. Behind(c, d)'
      BY <1>1, <2>3, <3>3, <3>4, SteadyPair
    <3> QED BY <2>2, <3>2, <3>5
  <2> QED BY <2>4, <2>5
<1> QED BY <1>5, <1>6, <1>7 DEF OrderInv

LEMMA AskedOrder ==
  ASSUME OrderInv, NEW c \in Calls, ResolveSync(c) \/ ResolveAsync(c)
  PROVE  OrderInv'
<1>1. PICK r \in Request :
        /\ Make(c, r) /\ addresses(c, r, queue)
        /\ \/ r.sync /\ blocked' = [blocked EXCEPT ![r.caller] = c]
           \/ ~ r.sync /\ r.method # "xrpAddress" /\ UNCHANGED blocked
  BY DEF ResolveSync, ResolveAsync
<1>2. TokenInv /\ request \in [Calls -> Request \cup {NoRequest}]
  BY DEF OrderInv, TokenInv, TypeOK
<1>3. TokenInv' /\ Moved(c)
  BY <1>1, <1>2, AskedKeeps
<1>4. request[c] = NoRequest /\ request'[c] = r /\ made' = Append(made, c)
  BY <1>1, <1>2 DEF Make
<1>5. ~ InOrder(c)'
  BY <1>1, <1>4 DEF InOrder
<1> QED BY <1>3, <1>4, <1>5, OrderMade

LEMMA xrpAddressOrder ==
  ASSUME OrderInv, NEW c \in Calls, xrpAddress(c)
  PROVE  OrderInv'
<1>1. PICK r \in Request :
        /\ request[c] = NoRequest /\ request' = [request EXCEPT ![c] = r]
        /\ made' = Append(made, c)
        /\ queue' = Async(queue, asyncQueue, "xrpAddress", c, "unknown")
  BY DEF xrpAddress, Make
<1>2. TokenInv /\ TypeOK /\ asyncQueue \in Queues
  BY DEF OrderInv, TokenInv, Queues
<1>3. TokenInv' /\ Moved(c)
  BY <1>2, xrpAddressKeeps
<1>4. request'[c] = r
  BY <1>1, <1>2 DEF TypeOK
<1>5. PICK b : b = [step |-> "xrpAddress", call |-> c, value |-> "unknown"]
  OBVIOUS
<1>6. queue[asyncQueue] \in Seq(Block) /\ Len(queue[asyncQueue]) \in Nat
  BY <1>2, LenType DEF TypeOK
<1>7. queue'[asyncQueue] = Append(queue[asyncQueue], b)
  BY <1>1, <1>2, <1>5 DEF Async, TypeOK
<1>8. /\ Len(queue'[asyncQueue]) = Len(queue[asyncQueue]) + 1
      /\ queue'[asyncQueue][Len(queue[asyncQueue]) + 1] = b
  BY <1>6, <1>7
<1>9. PICK m \in Nat : m = Len(queue'[asyncQueue])
  BY <1>6, <1>8
<1>10. Queued(c, m)'
  BY <1>5, <1>6, <1>8, <1>9 DEF Queued
<1> QED BY <1>1, <1>3, <1>4, <1>9, <1>10, OrderMade

(* While a call is waited for on asyncQueue, its own blocks are elsewhere.  *)
LEMMA WaitingAdvances ==
  ASSUME TokenInv, TokenInv', NEW e \in Calls, request[e] \in Request,
         request'[e] = request[e], blocked[asyncQueue] = e, blocked'[asyncQueue] = e
  PROVE  Advances(e)
BY OnePlaceHolds, OnePlaceAfter DEF OnePlace, Advances

(* Such a call is waited for as soon as it has been asked for, and until it *)
(* has been answered.                                                      *)
LEMMA AskedIsWaiting ==
  ASSUME OrderInv, NEW e \in Calls, request[e] \in Request, InOrder(e), ended[e] = 0,
         \A p \in Queues : \A i \in 1 .. Len(queue[p]) :
           queue[p][i].call = e => queue[p][i].step \notin {"xrpAddress", "deliver"}
  PROVE  blocked[asyncQueue] = e
<1>1. asyncQueue \in Queues /\ request[e].callbackQueue \in Queues
  BY RequestTypes DEF Queues
<1>2. \A k \in Nat : ~ Queued(e, k) /\ ~ Delivering(e, k)
  BY <1>1 DEF Queued, Delivering
<1> QED BY <1>2 DEF OrderInv, Located

LEMMA handleResponseOrder ==
  ASSUME OrderInv, NEW c \in Calls, handleResponse(c)
  PROVE  OrderInv'
<1>1. /\ c \in http
      /\ UNCHANGED <<request, blocked, semaphore, result, outcome, ended, made>>
  BY DEF handleResponse
<1>2. TokenInv
  BY DEF OrderInv
<1>3. TokenInv' /\ Moved(c)
  BY <1>2, handleResponseKeeps
<1>4. ASSUME request[c] \in Request, InOrder(c) PROVE Advances(c)
  <2>1. NoBlock(c) /\ ended[c] = 0
    BY <1>1, <1>2, TokenElsewhere DEF TokenInv, CallOK
  <2>2. blocked[asyncQueue] = c
    BY <1>4, <2>1, AskedIsWaiting DEF NoBlock
  <2> QED BY <1>1, <1>2, <1>3, <1>4, <2>2, WaitingAdvances
<1> QED BY <1>1, <1>3, <1>4, OrderKept

(* The blocks that run while a call is waited for.                          *)
LEMMA AnsweringOrder ==
  ASSUME OrderInv, TokenInv', NEW q \in Queues, queue[q] # <<>>,
         Head(queue[q]).step \in {"response", "addresses", "completion"},
         Moved(Head(queue[q]).call), UNCHANGED <<request, blocked, made>>
  PROVE  OrderInv'
<1>1. PICK e \in Calls : e = Head(queue[q]).call
  BY FirstBlock DEF OrderInv
<1>2. /\ TokenInv /\ Head(queue[q]) = queue[q][1] /\ 1 \in 1 .. Len(queue[q])
      /\ ended[e] = 0
  BY <1>1, FirstBlock DEF OrderInv, BlockOK
<1>3. ASSUME request[e] \in Request, InOrder(e) PROVE Advances(e)
  <2>1. \A p \in Queues : \A i \in 1 .. Len(queue[p]) :
          queue[p][i].call = e => queue[p][i].step \notin {"xrpAddress", "deliver"}
    BY <1>1, <1>2 DEF TokenInv, OneBlock
  <2>2. blocked[asyncQueue] = e
    BY <1>2, <1>3, <2>1, AskedIsWaiting
  <2> QED BY <1>2, <1>3, <2>2, WaitingAdvances
<1>4. Moved(e)
  BY <1>1
<1> QED BY <1>3, <1>4, OrderKept

LEMMA RunXRPAddressOrder ==
  ASSUME OrderInv, RunXRPAddress
  PROVE  OrderInv'
<1>1. /\ TokenInv /\ TypeOK /\ asyncQueue \in Queues /\ queue[asyncQueue] # <<>>
      /\ blocked[asyncQueue] = NoCall
      /\ Head(queue[asyncQueue]).step = "xrpAddress" /\ UNCHANGED <<request, made>>
  BY DEF OrderInv, TokenInv, RunXRPAddress, Runs, Queues
<1>2. PICK e \in Calls : e = Head(queue[asyncQueue]).call
  BY <1>1, FirstBlock
<1>3. TokenInv' /\ Moved(e)
  BY <1>1, <1>2, RunXRPAddressKeeps
<1>4. blocked'[asyncQueue] = e
  BY <1>1, <1>2 DEF RunXRPAddress, TypeOK
<1>5. ASSUME request[e] \in Request PROVE Advances(e)
  <2>1. OnePlace(e) /\ OnePlace(e)'
    BY <1>1, <1>3, OnePlaceHolds, OnePlaceAfter
  <2>2. Queued(e, 1)
    BY <1>1, <1>2, FirstBlock DEF Queued
  <2>3. \A m \in Nat : ~ Queued(e, m)'
    BY <1>1, <1>4, <1>5, <2>1 DEF OnePlace
  <2> QED BY <1>1, <1>4, <1>5, <2>1, <2>2, <2>3 DEF OnePlace, Advances
<1> QED BY <1>1, <1>3, <1>5, OrderKept

LEMMA RunCompletionOrder ==
  ASSUME OrderInv, NEW q \in Queues, RunCompletion(q)
  PROVE  OrderInv'
<1>1. /\ queue[q] # <<>> /\ Head(queue[q]).step \in {"completion", "deliver"}
      /\ UNCHANGED <<request, blocked, made>> /\ TokenInv /\ TypeOK
  BY DEF OrderInv, TokenInv, RunCompletion, Runs
<1>2. PICK e \in Calls : e = Head(queue[q]).call
  BY <1>1, FirstBlock
<1>3. TokenInv' /\ Moved(e)
  BY <1>1, <1>2, RunCompletionKeeps
<1>4. CASE Head(queue[q]).step = "deliver"
  <2>1. /\ BlockOK(q, Head(queue[q])) /\ Head(queue[q]) = queue[q][1]
        /\ 1 \in 1 .. Len(queue[q])
    BY <1>1, FirstBlock
  <2>2. q = request[e].callbackQueue /\ ended[e] = 0 /\ request[e] \in Request
    BY <1>2, <1>4, <2>1 DEF BlockOK
  <2>3. ended'[e] = 1
    <3>1. ended' = [ended EXCEPT ![e] = @ + 1]
      BY <1>2 DEF RunCompletion, Deliver
    <3> QED BY <1>1, <2>2, <3>1 DEF TypeOK
  <2>4. Delivering(e, 1)
    BY <1>2, <1>4, <2>1, <2>2 DEF Delivering
  <2>5. OnePlace(e) /\ OnePlace(e)'
    BY <1>1, <1>3, OnePlaceHolds, OnePlaceAfter
  <2>6. /\ \A m \in Nat : ~ Queued(e, m)' /\ ~ Delivering(e, m)'
        /\ ~ (blocked[asyncQueue] = e)'
    BY <1>1, <2>2, <2>3, <2>5 DEF OnePlace
  <2>7. Advances(e)
    BY <1>1, <2>2, <2>3, <2>4, <2>5, <2>6 DEF OnePlace, Advances
  <2> QED BY <1>1, <1>3, <2>7, OrderKept
<1>5. CASE Head(queue[q]).step = "completion"
  BY <1>1, <1>2, <1>3, <1>5, AnsweringOrder
<1> QED BY <1>1, <1>4, <1>5

LEMMA WakeOrder ==
  ASSUME OrderInv, NEW q \in Queues, Wake(q)
  PROVE  OrderInv'
<1>1. PICK e \in Calls : e = blocked[q] /\ e # NoCall
  BY DEF Wake, OrderInv, TokenInv, TypeOK
<1>2. /\ TokenInv /\ TypeOK /\ UNCHANGED <<request, made>> /\ BlockedOK(q)
      /\ blocked' = [blocked EXCEPT ![q] = NoCall]
  BY DEF Wake, OrderInv, TokenInv
<1>3. TokenInv' /\ Moved(e)
  BY <1>1, <1>2, WakeKeeps
<1>4. ASSUME InOrder(e) PROVE Advances(e)
  <2>1. request[e] \in Request /\ ~ request[e].sync /\ q = asyncQueue
    BY <1>1, <1>2, <1>4 DEF BlockedOK, WaitQueue, InOrder
  <2> DEFINE p == request[e].callbackQueue
             v == FinalResult(e, result[e])
  <2>2. queue' = Async(queue, p, "deliver", e, v) /\ p \in Queues
    BY <1>1, <2>1, RequestTypes DEF Wake, Queues
  <2>3. PICK b : b = [step |-> "deliver", call |-> e, value |-> v]
    OBVIOUS
  <2>4. b.step = "deliver" /\ b.call = e
    BY <2>3
  <2> HIDE DEF v, p
  <2>5. queue[p] \in Seq(Block) /\ Len(queue[p]) \in Nat
    BY <1>2, <2>2, LenType DEF TypeOK
  <2>6. queue'[p] = Append(queue[p], b)
    BY <1>2, <2>2, <2>3 DEF Async, TypeOK
  <2>7. Len(queue'[p]) = Len(queue[p]) + 1 /\ queue'[p][Len(queue[p]) + 1] = b
    BY <2>5, <2>6
  <2>8. PICK m \in Nat : m = Len(queue'[p])
    BY <2>5, <2>7
  <2>9. p = request'[e].callbackQueue
    BY <1>2 DEF p
  <2>10. Delivering(e, m)'
    BY <2>4, <2>5, <2>7, <2>8, <2>9 DEF Delivering
  <2>11. OnePlace(e) /\ OnePlace(e)'
    BY <1>2, <1>3, OnePlaceHolds, OnePlaceAfter
  <2>12. \A k \in Nat : ~ Queued(e, k) /\ ~ Queued(e, k)'
    BY <1>1, <1>2, <2>1, <2>10, <2>11 DEF OnePlace
  <2> QED BY <1>1, <1>2, <2>1, <2>8, <2>9, <2>10, <2>12 DEF Advances
<1> QED BY <1>2, <1>3, <1>4, OrderKept

LEMMA OrderInvInit == Init => OrderInv
<1> SUFFICES ASSUME Init PROVE OrderInv
  OBVIOUS
<1>1. TokenInv
  BY TokenInvInit
<1>2. made = <<>> /\ \A c \in Calls : request[c] = NoRequest
  BY DEF Init
<1>3. \A c \in Calls : request[c] \notin Request
  BY <1>2, RequestTypes
<1>4. Len(made) = 0
  BY <1>2
<1> QED BY <1>1, <1>3, <1>4 DEF OrderInv, MadeOnce

LEMMA OrderInvStutters == OrderInv /\ UNCHANGED vars => OrderInv'
<1> SUFFICES ASSUME OrderInv, UNCHANGED vars PROVE OrderInv'
  OBVIOUS
<1>1. TokenInv' /\ MadeOnce'
  BY TokenInvStutters DEF OrderInv, MadeOnce, vars
<1>2. ASSUME NEW c \in Calls, (request[c] \in Request /\ InOrder(c))' PROVE Located(c)'
  BY <1>2 DEF OrderInv, InOrder, Located, Queued, Delivering, vars
<1>3. ASSUME NEW i \in 1 .. Len(made'), NEW j \in 1 .. Len(made'), i < j,
             (InOrder(made[i]) /\ InOrder(made[j]))'
      PROVE  Behind(made[i], made[j])'
  <2>1. made' = made /\ Behind(made[i], made[j])
    BY <1>3 DEF OrderInv, InOrder, vars
  <2>2. PICK c, d : c = made[i] /\ d = made[j]
    OBVIOUS
  <2>3. ASSUME NEW k, Queued(d, k) PROVE Queued(d, k)'
    BY <2>3 DEF Queued, vars
  <2>4. ASSUME NEW k, Queued(c, k)' PROVE Queued(c, k)
    BY <2>4 DEF Queued, vars
  <2>5. ASSUME NEW k, Delivering(c, k)' PROVE Delivering(c, k)
    BY <2>5 DEF Delivering, vars
  <2>6. ASSUME NEW k, Delivering(d, k) PROVE Delivering(d, k)'
    BY <2>6 DEF Delivering, vars
  <2>7. request' = request /\ blocked' = blocked
    BY DEF vars
  <2>8. Behind(c, d)'
    BY <2>1, <2>2, <2>3, <2>4, <2>5, <2>6, <2>7 DEF Behind
  <2> QED BY <2>1, <2>2, <2>8
<1> QED BY <1>1, <1>2, <1>3 DEF OrderInv

LEMMA OrderInvNext == OrderInv /\ [Next]_vars => OrderInv'
<1> SUFFICES ASSUME OrderInv, [Next]_vars PROVE OrderInv'
  OBVIOUS
<1>1. TokenInv
  BY DEF OrderInv
<1>2. ASSUME NEW c \in Calls, ResolveSync(c) \/ ResolveAsync(c) PROVE OrderInv'
  BY <1>2, AskedOrder
<1>3. ASSUME NEW c \in Calls, xrpAddress(c) PROVE OrderInv'
  BY <1>3, xrpAddressOrder
<1>4. ASSUME NEW c \in Calls, handleResponse(c) PROVE OrderInv'
  BY <1>4, handleResponseOrder
<1>5. CASE RunXRPAddress
  BY <1>5, RunXRPAddressOrder
<1>6. ASSUME NEW q \in Queues, RunQueue(q) PROVE OrderInv'
  <2>1. CASE RunResponse(q)
    BY <1>1, <2>1, RunResponseKeeps, AnsweringOrder DEF RunResponse, Runs
  <2>2. CASE RunAddresses(q)
    BY <1>1, <2>2, RunAddressesKeeps, AnsweringOrder DEF RunAddresses, Runs
  <2>3. CASE RunSignal(q)
    BY <1>1, <2>3, RunSignalKeeps, AnsweringOrder DEF RunSignal, Runs
  <2> QED BY <1>6, <2>1, <2>2, <2>3, RunCompletionOrder, WakeOrder DEF RunQueue
<1>7. CASE UNCHANGED vars
  BY <1>7, OrderInvStutters
<1> QED BY <1>2, <1>3, <1>4, <1>5, <1>6, <1>7 DEF Next

LEMMA OrderInvHolds == Spec => []OrderInv
<1> QED BY OrderInvInit, OrderInvNext, PTL DEF Spec
-----------------------------------------------------------------------------
(* Type correctness: the queues hold blocks of calls, a semaphore is        *)
(* signalled once before it is waited for, and a call ends at most once.    *)
THEOREM PayIDTypeCorrect == Spec => []TypeOK
<1>1. TokenInv => TypeOK
  BY DEF TokenInv
<1> QED BY <1>1, TokenInvHolds, PTL

(* A call of PayIDClient or XRPPayIDClient that has returned, or called its *)
(* completion, gave what the service answered for its own PayID.            *)
THEOREM PayIDResultCorrect == Spec => []ResultIsTheAnswer
<1>1. TokenInv => ResultIsTheAnswer
  <2> SUFFICES ASSUME TokenInv, NEW c \in Calls, ended[c] > 0
               PROVE  answer[c] # "none" /\ outcome[c] = Expected(c)
    BY DEF ResultIsTheAnswer
  <2>1. ended[c] = 1
    BY DEF TokenInv, TypeOK
  <2> QED BY <2>1 DEF TokenInv, CallOK
<1> QED BY <1>1, TokenInvHolds, PTL

(* Asynchronous xrpAddress calls complete on a queue in the order in which  *)
(* they were made, for any number of calls and queues.                      *)
THEOREM PayIDInOrder == Spec => []XRPAddressesInOrder
<1>1. OrderInv => XRPAddressesInOrder
  <2> SUFFICES ASSUME OrderInv, NEW i \in 1 .. Len(made), NEW j \in 1 .. Len(made), i < j,
                      InOrder(made[i]), InOrder(made[j]),
                      request[made[i]].callbackQueue = request[made[j]].callbackQueue,
                      ended[made[j]] > 0
               PROVE  ended[made[i]] > 0
    BY DEF XRPAddressesInOrder
  <2>1. PICK c \in Calls, d \in Calls : c = made[i] /\ d = made[j]
    <3>1. made \in Seq(Calls)
      BY DEF OrderInv, TokenInv, TypeOK
    <3> QED BY <3>1
  <2>2. /\ request[c] \in Request /\ request[d] \in Request
        /\ Located(c) /\ Behind(c, d) /\ TokenInv
    BY <2>1 DEF OrderInv, MadeOnce
  <2>3. OnePlace(d) /\ ended[d] = 1
    <3>1. ended[d] \in {0, 1} /\ ended[d] > 0
      BY <2>1, <2>2 DEF TokenInv, TypeOK
    <3> QED BY <2>2, <3>1, OnePlaceHolds
  <2>4. /\ \A k \in Nat : ~ Queued(d, k) /\ ~ Delivering(d, k)
        /\ blocked[asyncQueue] # d
    BY <2>2, <2>3 DEF OnePlace
  <2>5. ended[c] = 1
    BY <2>1, <2>2, <2>4 DEF Located, Behind
  <2> QED BY <2>1, <2>5
<1> QED BY <1>1, OrderInvHolds, PTL
(* While any call is under way something can go on: a response is           *)
(* outstanding or a queue has a block to run or a semaphore to pass.  No    *)
(* use of the three methods from any queues makes their threads wait for    *)
(* each other.                                                             *)
THEOREM PayIDNoDeadlock == Spec => []NoDeadlock
<1> QED BY TokenInvHolds, TokenInvNoDeadlock, PTL

(* Every step brings one call further on its way and moves no other: a      *)
(* completion is not called twice and no block, signal or answer is lost.   *)
THEOREM PayIDStepsAdvance == Spec => EveryStepAdvances
<1> DEFINE A == \E c \in Calls :
                  /\ Places(c)' # {}
                  /\ \A p \in Places(c), r \in Places(c)' : Way[p] < Way[r]
                  /\ \A d \in Calls \ {c} : Places(d)' = Places(d)
<1>1. TokenInv /\ [Next]_vars => [A]_vars
  BY NextAdvances DEF Advanced, GoesOn, Moved
<1>2. TokenInv /\ [][Next]_vars => [][A]_vars
  BY <1>1, TokenInvNext, PTL
<1> QED BY <1>2, TokenInvInit, PTL DEF Spec, EveryStepAdvances
=============================================================================
