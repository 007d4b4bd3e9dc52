------------------------------ MODULE ILPClient ------------------------------
(***************************************************************************)
(* The client of an Interledger connector: DefaultILPClient behind         *)
(* ILPClient, and the deprecated DefaultIlpClient, which is the same code  *)
(* under another name.  Each call is one request; what makes it            *)
(* interesting is that a payment is many packets at the connector, that    *)
(* the connector does not stop when the caller stops waiting, and that the *)
(* caller has to read from an error whether anything was paid.             *)
(*                                                                         *)
(* The connector is not in the repository: it is modelled as the requests  *)
(* and the documentation of their results see it.                          *)
(***************************************************************************)
EXTENDS Integers

CONSTANTS Calls,
          Accounts,      \* account IDs that may exist at the connector
          PlainTokens,   \* access tokens without the prefix "Bearer "
          BearerTokens,  \* access tokens that start with it
          IllegalTokens, \* access tokens that gRPC metadata cannot carry
          Pointers,      \* payment pointers that resolve
          BadPointers,   \* payment pointers that do not
          Amounts,       \* what may be sent, in the units of the account
          MaxBalance,    \* what an account's clearing balance is at first
          Prepaid,       \* what each account has prepaid beside it
          MaxChanges,    \* bound: changes of accounts and authorizations
          None

AccessTokens == PlainTokens \cup BearerTokens \cup IllegalTokens

ASSUME ILPAssumption ==
    /\ MaxBalance \in Nat /\ Prepaid \in Nat /\ MaxChanges \in Nat
    /\ Amounts \subseteq Nat \ {0}
    /\ PlainTokens \cap (BearerTokens \cup IllegalTokens) = {}
    /\ BearerTokens \cap IllegalTokens = {}
    /\ Pointers \cap BadPointers = {}
    /\ None \notin Accounts

VARIABLES
    \* the connector
    exists,      \* accounts there are
    authorized,  \* by token: the account it gives access to, or None
    changes,     \* how often either has changed
    balance,     \* by account: the clearing balance
    serving,     \* by call: what the connector does about it
    sent,        \* by call: what the connector has taken from the sender
    delivered,   \* by call: what of it reached the receiver
    reply,       \* by call: the answer that is under way, or None
    \* the client
    request, stage, result,
    \* history
    causes,      \* by call: what was wrong with its request at some moment
                 \* while it waited
    netBalances  \* by call: the net balances of its account while it waited

accountVars == <<exists, authorized, changes>>
paymentVars == <<balance, sent, delivered>>
callVars == <<request, stage, result>>
history == <<causes, netBalances>>
vars == <<accountVars, paymentVars, serving, reply, callVars, history>>

Methods == {"getBalance", "sendPayment"}
Requests == [method: {"getBalance"}, account: Accounts, token: AccessTokens]
              \cup [method: {"sendPayment"}, account: Accounts, token: AccessTokens,
                    amount: Amounts, to: Pointers \cup BadPointers]

ILPErrors == {"accountNotFound", "internalError", "invalidAccessToken", "invalidArgument",
              "unauthenticated", "unknown"}
Codes == {"notFound", "unauthenticated", "invalidArgument", "internalError",
          "unavailable", "deadlineExceeded", "unimplemented"}

(* ILPError.from                                                           *)
BuggyFrom(code) ==
    CASE code = "unauthenticated" -> "unauthenticated"
      [] code = "invalidArgument" -> "invalidArgument"
      [] code = "internalError"   -> "internalError"
      [] OTHER                    -> "accountNotFound"
from(code) ==
    CASE code = "notFound"        -> "accountNotFound"
      [] code = "unauthenticated" -> "unauthenticated"
      [] code = "invalidArgument" -> "invalidArgument"
      [] code = "internalError"   -> "internalError"
      [] OTHER                    -> "unknown"

(* The models of the two responses.                                        *)
AccountBalance(response) ==
    [accountID       |-> response.accountID,
     clearingBalance |-> response.clearingBalance,
     prepaidAmount   |-> response.prepaidAmount,
     netBalance      |-> response.netBalance]
BuggyOriginal(response) == [response EXCEPT !.originalAmount = response.amountDelivered]
BuggySent(response) == [response EXCEPT !.amountSent = response.amountDelivered]
PaymentResult(response) ==
    [originalAmount    |-> response.originalAmount,
     amountDelivered   |-> response.amountDelivered,
     amountSent        |-> response.amountSent,
     successfulPayment |-> response.successfulPayment]

(* What is wrong with a request at the connector, as its gRPC codes.       *)
Wrong(r, existing, access) ==
    {code \in {"unauthenticated", "notFound", "invalidArgument"} :
       \/ code = "unauthenticated" /\ (r.token \notin PlainTokens \/ access[r.token] # r.account)
       \/ code = "notFound" /\ r.account \notin existing
       \/ code = "invalidArgument" /\ r.method = "sendPayment" /\ r.to \in BadPointers}

ILPInit ==
    /\ exists = Accounts
    /\ authorized \in [PlainTokens -> Accounts]
    /\ changes = 0
    /\ balance = [a \in Accounts |-> MaxBalance]
    /\ serving = [c \in Calls |-> "nothing"]
    /\ sent = [c \in Calls |-> 0]
    /\ delivered = [c \in Calls |-> 0]
    /\ reply = [c \in Calls |-> None]
    /\ request = [c \in Calls |-> None]
    /\ stage = [c \in Calls |-> "idle"]
    /\ result = [c \in Calls |-> None]
    /\ causes = [c \in Calls |-> {}]
    /\ netBalances = [c \in Calls |-> {}]
-----------------------------------------------------------------------------
(* The client.                                                             *)

(* ILPCredentials throws before there is a request.                        *)
BadCredentials(token) ==
    IF token \in BearerTokens THEN "invalidAccessToken"
    ELSE IF token \in IllegalTokens THEN "metadataError"
    ELSE None

Call(c, r) ==
    /\ stage[c] = "idle"
    /\ request' = [request EXCEPT ![c] = r]
    /\ IF BadCredentials(r.token) # None
         THEN /\ stage' = [stage EXCEPT ![c] = BadCredentials(r.token)]
              /\ UNCHANGED serving
         ELSE /\ stage' = [stage EXCEPT ![c] = "waiting"]
              /\ serving' = [serving EXCEPT ![c] = "asked"]
    /\ causes' = [causes EXCEPT ![c] = Wrong(r, exists, authorized)]
    /\ netBalances' = [netBalances EXCEPT ![c] = {balance[r.account] + Prepaid}]
    /\ UNCHANGED <<accountVars, paymentVars, reply, result>>

getBalance(c) == \E r \in Requests : r.method = "getBalance" /\ Call(c, r)
sendPayment(c) == \E r \in Requests : r.method = "sendPayment" /\ Call(c, r)

(* The answer arrives: a result is converted, a gRPC status is translated.  *)
Return(c) ==
    /\ stage[c] = "waiting" /\ reply[c] # None
    /\ \/ /\ "status" \in DOMAIN reply[c]
          /\ stage' = [stage EXCEPT ![c] = from(reply[c].status)]
          /\ UNCHANGED result
       \/ /\ "status" \notin DOMAIN reply[c]
          /\ stage' = [stage EXCEPT ![c] = "returned"]
          /\ result' = [result EXCEPT ![c] = IF request[c].method = "getBalance"
                                                THEN AccountBalance(reply[c])
                                                ELSE PaymentResult(reply[c])]
    /\ reply' = [reply EXCEPT ![c] = None]
    /\ UNCHANGED <<accountVars, paymentVars, serving, request, history>>

(* No answer arrives: the connection breaks, or gRPC's deadline passes, and *)
(* the status is made by the client.  What arrives later is dropped.       *)
NoAnswer(c) ==
    /\ stage[c] = "waiting"
    /\ \E code \in {"unavailable", "deadlineExceeded"} :
         stage' = [stage EXCEPT ![c] = from(code)]
    /\ reply' = [reply EXCEPT ![c] = None]
    /\ UNCHANGED <<accountVars, paymentVars, serving, request, result, history>>

(* An RPCError that carries no status is thrown on as it is.               *)
BadMessage(c) ==
    /\ stage[c] = "waiting" /\ reply[c] # None
    /\ stage' = [stage EXCEPT ![c] = "rpcError"]
    /\ reply' = [reply EXCEPT ![c] = None]
    /\ UNCHANGED <<accountVars, paymentVars, serving, request, result, history>>
-----------------------------------------------------------------------------
(* The connector.                                                          *)

Answer(c, a) ==
    /\ serving' = [serving EXCEPT ![c] = "done"]
    /\ reply' = [reply EXCEPT ![c] = IF stage[c] = "waiting" THEN a ELSE None]

(* It refuses a request with which something is wrong, or cannot do it.    *)
Refuse(c) ==
    /\ serving[c] = "asked"
    /\ \E code \in Wrong(request[c], exists, authorized)
                     \cup {"internalError", "unavailable", "unimplemented"} :
         Answer(c, [status |-> code])
    /\ UNCHANGED <<accountVars, paymentVars, callVars, history>>

TellBalance(c) ==
    /\ serving[c] = "asked" /\ request[c].method = "getBalance"
    /\ Wrong(request[c], exists, authorized) = {}
    /\ LET a == request[c].account IN
         Answer(c, [accountID |-> a, clearingBalance |-> balance[a], prepaidAmount |-> Prepaid,
                    netBalance |-> balance[a] + Prepaid])
    /\ UNCHANGED <<accountVars, paymentVars, callVars, history>>

StartPayment(c) ==
    /\ serving[c] = "asked" /\ request[c].method = "sendPayment"
    /\ Wrong(request[c], exists, authorized) = {}
    /\ serving' = [serving EXCEPT ![c] = "paying"]
    /\ UNCHANGED <<accountVars, paymentVars, reply, callVars, history>>

(* One packet of a payment is fulfilled; fees and the rate may leave        *)
(* nothing of it to the receiver.                                          *)
Packet(c) ==
    /\ serving[c] = "paying"
    /\ sent[c] < request[c].amount
    /\ balance[request[c].account] > 0
    /\ sent' = [sent EXCEPT ![c] = @ + 1]
    /\ \E d \in {0, 1} : delivered' = [delivered EXCEPT ![c] = @ + d]
    /\ balance' = [balance EXCEPT ![request[c].account] = @ - 1]
    /\ netBalances' = [x \in Calls |->
                         IF stage[x] = "waiting"
                           THEN netBalances[x] \cup {balance'[request[x].account] + Prepaid}
                           ELSE netBalances[x]]
    /\ UNCHANGED <<accountVars, serving, reply, callVars, causes>>

(* A payment ends when all is sent, or earlier: rejected packets and the    *)
(* connector's own timeout leave part of it unsent.                        *)
FinishPayment(c) ==
    /\ serving[c] = "paying"
    /\ Answer(c, [originalAmount |-> request[c].amount, amountDelivered |-> delivered[c],
                  amountSent |-> sent[c],
                  successfulPayment |-> sent[c] = request[c].amount])
    /\ UNCHANGED <<accountVars, paymentVars, callVars, history>>

(* The connector fails in the middle of a payment.                         *)
BreakPayment(c) ==
    /\ serving[c] = "paying"
    /\ Answer(c, [status |-> "internalError"])
    /\ UNCHANGED <<accountVars, paymentVars, callVars, history>>

(* Accounts are opened and closed, tokens given and revoked.               *)
Administer ==
    /\ changes < MaxChanges
    /\ changes' = changes + 1
    /\ \/ /\ \E a \in Accounts : exists' = IF a \in exists THEN exists \ {a} ELSE exists \cup {a}
          /\ UNCHANGED authorized
       \/ /\ \E t \in PlainTokens, a \in Accounts \cup {None} :
               authorized' = [authorized EXCEPT ![t] = a]
          /\ UNCHANGED exists
    /\ causes' = [c \in Calls |->
                    IF stage[c] = "waiting"
                      THEN causes[c] \cup Wrong(request[c], exists', authorized')
                      ELSE causes[c]]
    /\ UNCHANGED <<paymentVars, serving, reply, callVars, netBalances>>
-----------------------------------------------------------------------------
ILPNext ==
    \/ \E c \in Calls :
         \/ getBalance(c) \/ sendPayment(c) \/ Return(c) \/ NoAnswer(c) \/ BadMessage(c)
         \/ Refuse(c) \/ TellBalance(c) \/ StartPayment(c) \/ Packet(c)
         \/ FinishPayment(c) \/ BreakPayment(c)
    \/ Administer

ILPSpec == ILPInit /\ [][ILPNext]_vars
-----------------------------------------------------------------------------
(* Properties.                                                             *)

Throws == ILPErrors \cup {"metadataError", "rpcError"}

(* Types: a call that has returned has a result of its method's model,      *)
(* about the account or the amount it asked about.                         *)
ILPTypeOK ==
    /\ exists \subseteq Accounts
    /\ authorized \in [PlainTokens -> Accounts \cup {None}]
    /\ changes \in 0 .. MaxChanges
    /\ balance \in [Accounts -> 0 .. MaxBalance]
    /\ serving \in [Calls -> {"nothing", "asked", "paying", "done"}]
    /\ sent \in [Calls -> Nat] /\ delivered \in [Calls -> Nat]
    /\ request \in [Calls -> Requests \cup {None}]
    /\ stage \in [Calls -> {"idle", "waiting", "returned"} \cup Throws]
    /\ causes \in [Calls -> SUBSET {"unauthenticated", "notFound", "invalidArgument"}]
    /\ netBalances \in [Calls -> SUBSET Nat]
    /\ DOMAIN reply = Calls /\ DOMAIN result = Calls
    /\ \A c \in Calls : stage[c] = "returned" =>
         \/ request[c].method = "getBalance"
            /\ result[c] \in [accountID: {request[c].account}, clearingBalance: Nat,
                              prepaidAmount: {Prepaid}, netBalance: Nat]
         \/ request[c].method = "sendPayment"
            /\ result[c] \in [originalAmount: {request[c].amount}, amountDelivered: Nat,
                              amountSent: Nat, successfulPayment: BOOLEAN]

(* What the request itself is blamed for.                                  *)
Refusals == {"accountNotFound", "unauthenticated", "invalidArgument"}

(* An error that blames the request, and the guard on the token, mean that  *)
(* nothing has been paid and nothing will be, so that the caller may        *)
(* correct the request and send it again; and it blames what was wrong at  *)
(* some moment of the call.  Any other error leaves open what was paid,    *)
(* and the connector may go on paying after it.                            *)
RefusedIsUnpaid ==
    \A c \in Calls :
      /\ stage[c] \in Refusals =>
           /\ sent[c] = 0 /\ serving[c] = "done"
           /\ \E code \in causes[c] : from(code) = stage[c]
      /\ stage[c] \in {"invalidAccessToken", "metadataError"} => serving[c] = "nothing"

(* A result that is returned is final and its own call's.  What a payment   *)
(* says was sent and delivered is all the connector has paid, or will ever *)
(* pay, for this call; it is successful if and only if all was sent.  A    *)
(* balance is one the account had while the call waited, though other      *)
(* calls may have been paying from the account.                            *)
ResultIsTheAnswer ==
    \A c \in Calls : stage[c] = "returned" =>
      /\ serving[c] = "done"
      /\ request[c].method = "sendPayment" =>
           /\ result[c].amountSent = sent[c] /\ result[c].amountDelivered = delivered[c]
           /\ result[c].successfulPayment <=> (sent[c] = request[c].amount)
      /\ request[c].method = "getBalance" =>
           /\ result[c].netBalance \in netBalances[c]
           /\ result[c].netBalance = result[c].clearingBalance + result[c].prepaidAmount
=============================================================================
