--------------------------- MODULE ILPClientProofs ---------------------------
(* Theorems about ILPClient, for any calls, accounts, tokens and amounts.    *)
EXTENDS ILPClient, TLAPS

(* What an answer that is under way says is true: a refusal is of a request *)
(* for which nothing was paid and with which its code was wrong, a balance *)
(* is one of those the account had, a payment result is what was paid.     *)
Honest(c, answer) ==
    \/ /\ answer \in [status: Codes]
       /\ answer.status \in {"notFound", "unauthenticated", "invalidArgument"} =>
            sent[c] = 0 /\ answer.status \in causes[c]
    \/ /\ request[c].method = "getBalance"
       /\ answer \in [accountID: {request[c].account}, clearingBalance: Nat,
                      prepaidAmount: {Prepaid}, netBalance: Nat]
       /\ answer.netBalance \in netBalances[c]
       /\ answer.netBalance = answer.clearingBalance + answer.prepaidAmount
    \/ /\ request[c].method = "sendPayment"
       /\ answer \in [originalAmount: {request[c].amount}, amountDelivered: Nat,
                      amountSent: Nat, successfulPayment: BOOLEAN]
       /\ answer.amountSent = sent[c] /\ answer.amountDelivered = delivered[c]
       /\ answer.successfulPayment <=> (sent[c] = request[c].amount)

(* How far the connector is with a call, and how far the call is.          *)
InStep(c) ==
    /\ stage[c] # "idle" => request[c] \in Requests
    /\ serving[c] = "nothing" <=> stage[c] \in {"idle", "invalidAccessToken", "metadataError"}
    /\ serving[c] \in {"nothing", "asked"} => sent[c] = 0
    /\ serving[c] = "paying" => request[c].method = "sendPayment"
    /\ stage[c] = "waiting" =>
         /\ Wrong(request[c], exists, authorized) \subseteq causes[c]
         /\ balance[request[c].account] + Prepaid \in netBalances[c]

AnswerInStep(c) ==
    reply[c] # None => stage[c] = "waiting" /\ serving[c] = "done" /\ Honest(c, reply[c])

ILPInv ==
    /\ ILPTypeOK /\ RefusedIsUnpaid /\ ResultIsTheAnswer
    /\ \A c \in Calls : InStep(c) /\ AnswerInStep(c)
-----------------------------------------------------------------------------
LEMMA InitInv == ILPInit => ILPInv
BY ILPAssumption DEF ILPInit, ILPInv, ILPTypeOK, RefusedIsUnpaid, ResultIsTheAnswer, Refusals,
     InStep, AnswerInStep, Throws, ILPErrors

LEMMA StutterInv == ILPInv /\ UNCHANGED vars => ILPInv'
BY DEF ILPInv, ILPTypeOK, RefusedIsUnpaid, ResultIsTheAnswer, InStep, AnswerInStep, Honest,
     vars, accountVars, paymentVars, callVars, history

LEMMA WrongCodes ==
  ASSUME NEW r, NEW existing, NEW access
  PROVE  Wrong(r, existing, access) \subseteq {"unauthenticated", "notFound", "invalidArgument"}
BY DEF Wrong

LEMMA CallKeepsInv ==
  ASSUME ILPInv, NEW c \in Calls, NEW r \in Requests, Call(c, r)
  PROVE  ILPInv'
<1> USE DEF ILPInv, Call, accountVars, paymentVars
<1>1. r.account \in Accounts /\ balance[r.account] + Prepaid \in Nat
  BY ILPAssumption DEF Requests, ILPTypeOK
<1>2. ILPTypeOK'
  BY <1>1, WrongCodes DEF ILPTypeOK, BadCredentials, Throws, ILPErrors
<1>3. RefusedIsUnpaid'
  BY DEF RefusedIsUnpaid, Refusals, BadCredentials, InStep, ILPTypeOK
<1>4. ResultIsTheAnswer'
  BY DEF ResultIsTheAnswer, BadCredentials, ILPTypeOK
<1>5. ASSUME NEW x \in Calls PROVE InStep(x)'
  <2> USE <1>1
  <2>1. CASE x = c
    BY <2>1 DEF InStep, BadCredentials, ILPTypeOK
  <2>2. CASE x # c
    <3>1. /\ request'[x] = request[x] /\ stage'[x] = stage[x] /\ serving'[x] = serving[x]
          /\ causes'[x] = causes[x] /\ netBalances'[x] = netBalances[x]
      BY <2>2 DEF ILPTypeOK
    <3> QED BY <3>1, <1>5 DEF InStep, Wrong
  <2> QED BY <2>1, <2>2
<1>6. ASSUME NEW x \in Calls PROVE AnswerInStep(x)'
  BY <1>6 DEF AnswerInStep, Honest, ILPTypeOK
<1> QED BY <1>2, <1>3, <1>4, <1>5, <1>6

LEMMA ReturnKeepsInv ==
  ASSUME ILPInv, NEW c \in Calls, Return(c)
  PROVE  ILPInv'
<1> USE DEF ILPInv, Return, accountVars, paymentVars, history
<1>1. Honest(c, reply[c]) /\ serving[c] = "done" /\ request[c] \in Requests
      /\ stage[c] = "waiting"
  BY DEF AnswerInStep, InStep
<1>2. \/ /\ reply[c] \in [status: Codes]
         /\ stage' = [stage EXCEPT ![c] = from(reply[c].status)]
         /\ result' = result
      \/ /\ "status" \notin DOMAIN reply[c]
         /\ stage' = [stage EXCEPT ![c] = "returned"]
         /\ result' = [result EXCEPT ![c] = IF request[c].method = "getBalance"
                                               THEN AccountBalance(reply[c])
                                               ELSE PaymentResult(reply[c])]
  BY <1>1 DEF Honest
<1>3. ILPTypeOK'
  BY <1>1, <1>2 DEF ILPTypeOK, Honest, from, Throws, ILPErrors, Codes, AccountBalance, PaymentResult
<1>4. RefusedIsUnpaid'
  BY <1>1, <1>2 DEF RefusedIsUnpaid, Refusals, Honest, from, Codes, ILPTypeOK
<1>5. ResultIsTheAnswer'
  BY <1>1, <1>2 DEF ResultIsTheAnswer, Honest, from, Codes, ILPTypeOK, AccountBalance, PaymentResult
<1>6. ASSUME NEW x \in Calls PROVE InStep(x)'
  BY <1>1, <1>2 DEF InStep, from, Codes, ILPTypeOK, Wrong
<1>7. ASSUME NEW x \in Calls PROVE AnswerInStep(x)'
  BY <1>1, <1>2 DEF AnswerInStep, Honest, ILPTypeOK
<1> QED BY <1>3, <1>4, <1>5, <1>6, <1>7

(* The steps of a call that drop its answer: an error made by the client.   *)
LEMMA LostKeepsInv ==
  ASSUME ILPInv, NEW c \in Calls, NoAnswer(c) \/ BadMessage(c)
  PROVE  ILPInv'
<1> USE DEF ILPInv, accountVars, paymentVars, history
<1>1. /\ stage[c] = "waiting"
      /\ \E e \in {"unknown", "rpcError"} : stage' = [stage EXCEPT ![c] = e]
      /\ reply' = [reply EXCEPT ![c] = None]
      /\ UNCHANGED <<accountVars, paymentVars, serving, request, result, history>>
  BY DEF NoAnswer, BadMessage, from
<1>2. ILPTypeOK'
  BY <1>1 DEF ILPTypeOK, Throws, ILPErrors
<1>3. RefusedIsUnpaid' /\ ResultIsTheAnswer'
  BY <1>1 DEF RefusedIsUnpaid, Refusals, ResultIsTheAnswer, ILPTypeOK
<1>4. ASSUME NEW x \in Calls PROVE InStep(x)'
  BY <1>1 DEF InStep, ILPTypeOK, Wrong
<1>5. ASSUME NEW x \in Calls PROVE AnswerInStep(x)'
  BY <1>1 DEF AnswerInStep, Honest, ILPTypeOK
<1> QED BY <1>2, <1>3, <1>4, <1>5
-----------------------------------------------------------------------------
(* The connector answers, honestly, a request it is serving.                *)
LEMMA AnswerKeepsInv ==
  ASSUME ILPInv, NEW c \in Calls, serving[c] \in {"asked", "paying"},
         NEW answer, stage[c] = "waiting" => Honest(c, answer), Answer(c, answer),
         UNCHANGED <<accountVars, paymentVars, callVars, history>>
  PROVE  ILPInv'
<1> USE DEF ILPInv, Answer, accountVars, paymentVars, callVars, history
<1>1. ILPTypeOK'
  BY DEF ILPTypeOK
<1>2. RefusedIsUnpaid' /\ ResultIsTheAnswer'
  BY DEF RefusedIsUnpaid, ResultIsTheAnswer, ILPTypeOK, Refusals, InStep
<1>3. ASSUME NEW x \in Calls PROVE InStep(x)'
  BY DEF InStep, ILPTypeOK, Wrong
<1>4. ASSUME NEW x \in Calls PROVE AnswerInStep(x)'
  BY DEF AnswerInStep, Honest, ILPTypeOK
<1> QED BY <1>1, <1>2, <1>3, <1>4

LEMMA AnswersKeepInv ==
  ASSUME ILPInv, NEW c \in Calls,
         Refuse(c) \/ TellBalance(c) \/ FinishPayment(c) \/ BreakPayment(c)
  PROVE  ILPInv'
<1>1. /\ serving[c] \in {"asked", "paying"} /\ stage[c] # "idle" /\ request[c] \in Requests
      /\ sent[c] \in Nat /\ delivered[c] \in Nat
  BY DEF ILPInv, InStep, ILPTypeOK, Refuse, TellBalance, FinishPayment, BreakPayment
<1>2. CASE Refuse(c)
  <2>1. PICK code \in Wrong(request[c], exists, authorized)
                        \cup {"internalError", "unavailable", "unimplemented"} :
          Answer(c, [status |-> code])
    BY <1>2 DEF Refuse
  <2>2. stage[c] = "waiting" => Honest(c, [status |-> code])
    BY <1>1, <1>2, <2>1, WrongCodes DEF Honest, Codes, ILPInv, InStep, Refuse
  <2> QED
    BY <1>1, <1>2, <2>1, <2>2, AnswerKeepsInv DEF Refuse
<1>3. CASE TellBalance(c)
  <2> DEFINE a == request[c].account
             told == [accountID |-> a, clearingBalance |-> balance[a],
                      prepaidAmount |-> Prepaid, netBalance |-> balance[a] + Prepaid]
  <2>1. Answer(c, told) /\ request[c].method = "getBalance"
    BY <1>3 DEF TellBalance
  <2>2. a \in Accounts /\ balance[a] \in Nat /\ balance[a] + Prepaid \in Nat
    BY <1>1, ILPAssumption DEF Requests, ILPInv, ILPTypeOK
  <2>3. stage[c] = "waiting" => Honest(c, told)
    BY <1>1, <2>1, <2>2, ILPAssumption DEF Honest, ILPInv, InStep
  <2> HIDE DEF told
  <2> QED
    BY <1>1, <1>3, <2>1, <2>3, AnswerKeepsInv DEF TellBalance
<1>4. CASE FinishPayment(c)
  <2> DEFINE paid == [originalAmount |-> request[c].amount, amountDelivered |-> delivered[c],
                      amountSent |-> sent[c],
                      successfulPayment |-> sent[c] = request[c].amount]
  <2>1. Answer(c, paid) /\ request[c].method = "sendPayment"
    BY <1>1, <1>4 DEF FinishPayment, ILPInv, InStep
  <2>2. Honest(c, paid)
    BY <1>1, <2>1 DEF Honest
  <2> HIDE DEF paid
  <2> QED
    BY <1>1, <1>4, <2>1, <2>2, AnswerKeepsInv DEF FinishPayment
<1>5. CASE BreakPayment(c)
  <2>1. Honest(c, [status |-> "internalError"])
    BY DEF Honest, Codes
  <2> QED
    BY <1>1, <1>5, <2>1, AnswerKeepsInv DEF BreakPayment
<1> QED BY <1>2, <1>3, <1>4, <1>5

(* The steps inside the connector.                                          *)
LEMMA StartKeepsInv ==
  ASSUME ILPInv, NEW c \in Calls, StartPayment(c)
  PROVE  ILPInv'
<1> USE DEF ILPInv, StartPayment, accountVars, paymentVars, callVars, history
<1>1. ILPTypeOK'
  BY DEF ILPTypeOK
<1>2. RefusedIsUnpaid' /\ ResultIsTheAnswer'
  BY DEF RefusedIsUnpaid, ResultIsTheAnswer, ILPTypeOK, Refusals, InStep
<1>3. ASSUME NEW x \in Calls PROVE InStep(x)' /\ AnswerInStep(x)'
  BY DEF InStep, AnswerInStep, Honest, ILPTypeOK, Wrong
<1> QED BY <1>1, <1>2, <1>3

LEMMA PacketKeepsInv ==
  ASSUME ILPInv, NEW c \in Calls, Packet(c)
  PROVE  ILPInv'
<1> USE DEF ILPInv, Packet, accountVars, callVars
<1>1. /\ stage[c] # "idle" /\ request[c] \in Requests /\ request[c].account \in Accounts
      /\ request[c].method = "sendPayment"
      /\ sent' = [sent EXCEPT ![c] = @ + 1] /\ sent[c] \in Nat
      /\ \E d \in {0, 1} : delivered' = [delivered EXCEPT ![c] = @ + d]
  BY DEF InStep, ILPTypeOK, Requests
<1>2. /\ balance' \in [Accounts -> 0 .. MaxBalance]
      /\ balance' = [balance EXCEPT ![request[c].account] = @ - 1]
  BY <1>1, ILPAssumption DEF ILPTypeOK
<1>3. \A x \in Calls : stage[x] = "waiting" => balance'[request[x].account] + Prepaid \in Nat
  BY <1>2, ILPAssumption DEF InStep, Requests
<1>4. netBalances' \in [Calls -> SUBSET Nat]
      /\ \A x \in Calls : netBalances[x] \subseteq netBalances'[x]
  BY <1>3 DEF ILPTypeOK
<1>5. ILPTypeOK'
  BY <1>1, <1>2, <1>4 DEF ILPTypeOK
<1>6. RefusedIsUnpaid'
  BY <1>1 DEF RefusedIsUnpaid, ILPTypeOK, Refusals
<1>7. ResultIsTheAnswer'
  BY <1>1, <1>4 DEF ResultIsTheAnswer, ILPTypeOK
<1>8. ASSUME NEW x \in Calls PROVE InStep(x)'
  BY <1>1 DEF InStep, ILPTypeOK, Wrong
<1>9. ASSUME NEW x \in Calls PROVE AnswerInStep(x)'
  BY <1>1, <1>4 DEF AnswerInStep, Honest, ILPTypeOK
<1> QED BY <1>5, <1>6, <1>7, <1>8, <1>9

LEMMA AdministerKeepsInv ==
  ASSUME ILPInv, Administer
  PROVE  ILPInv'
<1> USE DEF ILPInv, Administer, paymentVars, callVars
<1>1. causes' \in [Calls -> SUBSET {"unauthenticated", "notFound", "invalidArgument"}]
      /\ \A x \in Calls : causes[x] \subseteq causes'[x]
  BY WrongCodes DEF ILPTypeOK
<1>2. ILPTypeOK'
  BY <1>1, ILPAssumption DEF ILPTypeOK
<1>3. RefusedIsUnpaid' /\ ResultIsTheAnswer'
  BY <1>1 DEF RefusedIsUnpaid, ResultIsTheAnswer, Refusals
<1>4. ASSUME NEW x \in Calls PROVE InStep(x)'
  BY <1>1 DEF InStep
<1>5. ASSUME NEW x \in Calls PROVE AnswerInStep(x)'
  BY <1>1 DEF AnswerInStep, Honest
<1> QED BY <1>2, <1>3, <1>4, <1>5

LEMMA NextInv == ILPInv /\ [ILPNext]_vars => ILPInv'
<1> SUFFICES ASSUME ILPInv, [ILPNext]_vars PROVE ILPInv'
  OBVIOUS
<1>1. ASSUME NEW c \in Calls, getBalance(c) \/ sendPayment(c) PROVE ILPInv'
  BY <1>1, CallKeepsInv DEF getBalance, sendPayment
<1>2. ASSUME NEW c \in Calls, Return(c) PROVE ILPInv'
  BY <1>2, ReturnKeepsInv
<1>3. ASSUME NEW c \in Calls, NoAnswer(c) \/ BadMessage(c) PROVE ILPInv'
  BY <1>3, LostKeepsInv
<1>4. ASSUME NEW c \in Calls,
             Refuse(c) \/ TellBalance(c) \/ FinishPayment(c) \/ BreakPayment(c)
      PROVE  ILPInv'
  BY <1>4, AnswersKeepInv
<1>5. ASSUME NEW c \in Calls, StartPayment(c) PROVE ILPInv'
  BY <1>5, StartKeepsInv
<1>6. ASSUME NEW c \in Calls, Packet(c) PROVE ILPInv'
  BY <1>6, PacketKeepsInv
<1>7. CASE Administer
  BY <1>7, AdministerKeepsInv
<1>8. CASE UNCHANGED vars
  BY <1>8, StutterInv
<1> QED BY <1>1, <1>2, <1>3, <1>4, <1>5, <1>6, <1>7, <1>8 DEF ILPNext
-----------------------------------------------------------------------------
(* The state of the client and the connector stays well typed.              *)
THEOREM ILPTypeCorrect == ILPSpec => []ILPTypeOK
<1>1. ILPInv => ILPTypeOK
  BY DEF ILPInv
<1> QED BY <1>1, InitInv, NextInv, PTL DEF ILPSpec

(* An error that blames the request is deserved, and nothing was or will be *)
(* paid for the call, whatever answers are lost and whatever the connector *)
(* goes on doing.                                                          *)
THEOREM RefusalUnpaid == ILPSpec => []RefusedIsUnpaid
<1>1. ILPInv => RefusedIsUnpaid
  BY DEF ILPInv
<1> QED BY <1>1, InitInv, NextInv, PTL DEF ILPSpec

(* A result that is returned is final and is its own call's.                *)
THEOREM ResultCorrect == ILPSpec => []ResultIsTheAnswer
<1>1. ILPInv => ResultIsTheAnswer
  BY DEF ILPInv
<1> QED BY <1>1, InitInv, NextInv, PTL DEF ILPSpec
=============================================================================
