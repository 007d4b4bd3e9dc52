-------------------------- MODULE PaymentDestination --------------------------
(***************************************************************************)
(* Where a payment goes, from the PayID or X-address a caller names to the *)
(* account, tag and memo of the validated transaction, and back to what    *)
(* getPayment and paymentHistory say of it.  A destination passes through  *)
(* six representations on the way: PayID, address details with a tag in    *)
(* text, X-address, protocol buffer, the JSON that is signed, and the      *)
(* models of the SDK.  The requests between them are the subject of the    *)
(* other modules: a submission is one step here.                           *)
(***************************************************************************)
EXTENDS XAddressCodec, Sequences

CONSTANTS Calls,
          Requests,        \* what a call may be asked to pay
          Owners,          \* PayIDs with a server: a host and a path each
          Entries,         \* address details an owner may publish
          Listings,        \* the lists of them that a server may answer with
          Unavailable,     \* its answer instead: status 415 or 503
          NonASCII,        \* characters of a PayID outside ASCII
          networkIsTest,   \* the clients' network is not the main one
          MaxPublished     \* bound: how often the owners publish

VARIABLES
    directory,   \* by owner: its server's answer, None for status 404
    published,   \* how often owners have published
    request,     \* by call: what it was asked to pay
    stage,       \* by call: how far it is, or its error
    address,     \* by call: the X-address its PayID stands for
    signed,      \* by call: the transaction signed for it, as JSON
    report,      \* by call: the model a query made of its validated transaction
    seen         \* history, by call: what its PayID's owner had published
                 \* between the call and the answer

vars == <<directory, published, request, stage, address, signed, report, seen>>

Parts == {"data", "format", "type"}          \* of a memo
Data == Seq(Nat)
Memo == [Parts -> Data]
ClassicAddress == [kind: {"classic"}, account: Accounts]
PayIDParts == [host: Seq(STRING), path: Seq(STRING)]

(* A transaction as it is signed, and what the SDK's models say of one.     *)
Transaction == [Account: ClassicAddress, Destination: ClassicAddress,
                DestinationTag: Tag \cup {None}, Memo: Memo \cup {None}]
Report == [sourceXAddress: Text, destinationXAddress: Text, memo: Memo \cup {None}]

(* A sender is a wallet, a memo one MemoField or None per part.  A field    *)
(* holds the bytes its text stands for: None when it is marked as hex and  *)
(* toBytes throws.  A caller of XpringClient names a PayID, one of an XRP  *)
(* client an address.                                                      *)
MemoField == [isHex: BOOLEAN, bytes: {None} \cup Data]
RequestOK(r) ==
    /\ r.wallet \in [account: Accounts, isTest: BOOLEAN]
    /\ r.memo \in {None} \cup [Parts -> {None} \cup MemoField]
    /\ \/ r.to = "PayID" /\ r.payID \in Seq(STRING) /\ r.address = None
       \/ r.to = "address" /\ r.address \in Text /\ r.payID = None

ASSUME DestinationAssumption ==
    /\ \A r \in Requests : RequestOK(r)
    /\ \A o \in Owners : o \in PayIDParts /\ o.host # <<>> /\ o.path # <<>>
    /\ \A e \in Entries : e.address \in Text
    /\ Listings \subseteq Seq(Entries)
    /\ None \notin Listings \cup Requests \cup PayIDParts \cup Transaction
    /\ Unavailable \notin Listings \cup {None}
    /\ networkIsTest \in BOOLEAN
    /\ MaxPublished \in Nat

Errors == {"invalidPayID", "mappingNotFound", "unexpectedResponse", "unknown",
           "invalidInputs", "signingError"}
Paid == {"validated", "reported"}
Answers == Listings \cup {None, Unavailable}
-----------------------------------------------------------------------------
(* PayIDs.                                                                 *)

Dollars(payID) == {i \in DOMAIN payID : payID[i] = "$"}

SplitAt(payID, i) ==
    IF i = 1 \/ i = Len(payID)
      THEN None
      ELSE [host |-> SubSeq(payID, i + 1, Len(payID)), path |-> SubSeq(payID, 1, i - 1)]

(* PayIdUtils.parsePayId; that the path starts with a slash, which         *)
(* addresses drops again, is left out.                                     *)
BuggyParsePayID(payID) ==
    IF (\E i \in DOMAIN payID : payID[i] \in NonASCII) \/ Dollars(payID) = {}
      THEN None
      ELSE SplitAt(payID, CHOOSE i \in Dollars(payID) : \A j \in Dollars(payID) : i <= j)
parsePayID(payID) ==
    IF (\E i \in DOMAIN payID : payID[i] \in NonASCII) \/ Dollars(payID) = {}
      THEN None
      ELSE SplitAt(payID, CHOOSE i \in Dollars(payID) : \A j \in Dollars(payID) : j <= i)

(* UInt32(rawTag), of a text that is a number in decimal or is not one.    *)
UInt32(rawTag) == IF rawTag \in Tag THEN rawTag ELSE None

toXAddress(entry) ==
    IF isValidXAddress(entry.address)
      THEN entry.address
      ELSE encode(entry.address, UInt32(entry.tag), networkIsTest)
-----------------------------------------------------------------------------
(* Memos: Data() is an empty sequence, nil is None.                        *)

EmptyData == <<>>

(* XRPMemo.fromMemoFields: no field gives empty data, a field that is      *)
(* marked as hex and does not convert gives nil.                           *)
fromMemoFields(fields) ==
    [p \in Parts |-> IF fields[p] = None THEN EmptyData ELSE fields[p].bytes]

(* The protocol buffer of a memo: nil becomes empty.                       *)
MemoProto(memo) == [p \in Parts |-> IF memo[p] = None THEN EmptyData ELSE memo[p]]
-----------------------------------------------------------------------------
(* Wallets, and the transaction from protocol buffer to signed JSON.       *)

walletAddress(wallet) == XAddress(wallet.account, None, wallet.isTest)

(* The account of a transaction: a classic address as it is, an X-address   *)
(* only if it has no tag.                                                  *)
AccountToJSON(text) ==
    IF isValidClassicAddress(text) THEN text
    ELSE IF decode(text) = None \/ decode(text).tag # None THEN None
    ELSE [kind |-> "classic", account |-> decode(text).classicAddress]

(* The destination's address and tag; a tag of 0 is a tag.                 *)
BuggyPaymentToJSON(text) ==
    IF decode(text) = None
      THEN [Destination |-> text, DestinationTag |-> None]
      ELSE [Destination    |-> [kind |-> "classic", account |-> decode(text).classicAddress],
            DestinationTag |-> IF decode(text).tag = 0 THEN None ELSE decode(text).tag]
BuggyRawDestination(text) ==
    [Destination    |-> text,
     DestinationTag |-> IF decode(text) = None THEN None ELSE decode(text).tag]
paymentToJSON(text) ==
    IF decode(text) = None
      THEN [Destination |-> text, DestinationTag |-> None]
      ELSE [Destination    |-> [kind |-> "classic", account |-> decode(text).classicAddress],
            DestinationTag |-> decode(text).tag]

(* Signer.sign of the payment that sendWithDetails builds.                 *)
signTransaction(account, destination, memo) ==
    IF AccountToJSON(account) = None
      THEN None
      ELSE [Account        |-> AccountToJSON(account),
            Destination    |-> paymentToJSON(destination).Destination,
            DestinationTag |-> paymentToJSON(destination).DestinationTag,
            Memo           |-> memo]
-----------------------------------------------------------------------------
(* The models made of a validated transaction.                             *)

(* The tag of a destination that has one (hasDestinationTag).              *)
BuggyDestinationTag(json) == IF json.DestinationTag = 0 THEN None ELSE json.DestinationTag
destinationTag(json) == json.DestinationTag

XRPTransaction(json) ==
    [sourceXAddress      |-> encode(json.Account, None, networkIsTest),
     destinationXAddress |-> encode(json.Destination, destinationTag(json), networkIsTest),
     memo                |-> json.Memo]
-----------------------------------------------------------------------------
(* The owners.                                                             *)

(* Whose PayID a text is: what stands before its last dollar is a path at   *)
(* the host named behind it.                                               *)
IsPayIDOf(payID, o) == /\ payID = o.path \o <<"$">> \o o.host
                       /\ \A i \in DOMAIN o.host : o.host[i] # "$"
                       /\ \A i \in DOMAIN payID : payID[i] \notin NonASCII

(* What the owner of a PayID has published, as its server answers; any      *)
(* other server has nothing to answer with.                                *)
PublishedFor(payID, dir) ==
    IF \E o \in Owners : IsPayIDOf(payID, o)
      THEN {dir[o] : o \in {x \in Owners : IsPayIDOf(payID, x)}}
      ELSE {None, Unavailable}

(* An owner changes its list of addresses or takes it away, or its server   *)
(* becomes unavailable or answers again.                                   *)
Publish(o, answer) ==
    /\ published < MaxPublished
    /\ published' = published + 1
    /\ answer # directory[o]
    /\ directory' = [directory EXCEPT ![o] = answer]
    /\ seen' = [c \in Calls |->
                  IF stage[c] = "resolving"
                    THEN seen[c] \cup PublishedFor(request[c].payID, directory')
                    ELSE seen[c]]
    /\ UNCHANGED <<request, stage, address, signed, report>>
-----------------------------------------------------------------------------
(* Calls.                                                                  *)

DestinationInit ==
    /\ directory = [o \in Owners |-> None]
    /\ published = 0
    /\ request = [c \in Calls |-> None]
    /\ stage = [c \in Calls |-> "idle"]
    /\ address = [c \in Calls |-> None]
    /\ signed = [c \in Calls |-> None]
    /\ report = [c \in Calls |-> None]
    /\ seen = [c \in Calls |-> {}]

(* sendWithDetails of XpringClient: resolves a PayID that parses.          *)
sendToPayID(c) ==
    /\ stage[c] = "idle"
    /\ \E r \in {x \in Requests : x.to = "PayID"} :
         /\ request' = [request EXCEPT ![c] = r]
         /\ stage' = [stage EXCEPT ![c] =
                        IF parsePayID(r.payID) = None THEN "invalidPayID" ELSE "resolving"]
         /\ seen' = [seen EXCEPT ![c] = PublishedFor(r.payID, directory)]
    /\ UNCHANGED <<directory, published, address, signed, report>>

(* The answer has exactly one address. *)
Single(answer) == answer \in Listings /\ Len(answer) = 1

(* What the server a parsed PayID names may answer.                        *)
AnswersOf(parts) == IF parts \in Owners THEN {directory[parts]} ELSE {None, Unavailable}

(* The answer of the PayID's server, and xrpAddress with it: status 415 or  *)
(* 503, another number of addresses than one and an address that does not  *)
(* convert are all an unexpectedResponse.                                  *)
xrpAddress(c) ==
    /\ stage[c] = "resolving"
    /\ \E answer \in AnswersOf(parsePayID(request[c].payID)) :
         LET x == IF Single(answer) THEN toXAddress(answer[1]) ELSE None IN
         /\ address' = [address EXCEPT ![c] = x]
         /\ stage' = [stage EXCEPT ![c] = IF answer = None THEN "mappingNotFound"
                                          ELSE IF x = None THEN "unexpectedResponse"
                                          ELSE "paying"]
    /\ UNCHANGED <<directory, published, request, signed, report, seen>>

(* sendWithDetails of an XRP client, called by the application.            *)
sendToAddress(c) ==
    /\ stage[c] = "idle"
    /\ \E r \in {x \in Requests : x.to = "address"} :
         /\ request' = [request EXCEPT ![c] = r]
         /\ address' = [address EXCEPT ![c] = r.address]
    /\ stage' = [stage EXCEPT ![c] = "paying"]
    /\ UNCHANGED <<directory, published, signed, report, seen>>

(* sendWithDetails: the guard on the address, the transaction, its signing  *)
(* and its submission.                                                     *)
sendWithDetails(c) ==
    /\ stage[c] = "paying"
    /\ LET r == request[c]
           sender == decode(walletAddress(r.wallet))
           tx == signTransaction([kind |-> "classic", account |-> sender.classicAddress],
                                 address[c],
                                 IF r.memo = None THEN None
                                 ELSE MemoProto(fromMemoFields(r.memo))) IN
         IF decode(address[c]) = None
           THEN /\ stage' = [stage EXCEPT ![c] = "invalidInputs"]
                /\ UNCHANGED signed
           ELSE /\ signed' = [signed EXCEPT ![c] = tx]
                /\ stage' = [stage EXCEPT ![c] = IF tx = None THEN "signingError"
                                                 ELSE "submitted"]
    /\ UNCHANGED <<directory, published, request, address, report, seen>>

(* A request of the call fails: the PayID's server gives no answer, or one  *)
(* with another status, or a request of the XRP client throws.             *)
RequestError(c) ==
    /\ stage[c] \in {"resolving", "paying"}
    /\ stage' = [stage EXCEPT ![c] = "unknown"]
    /\ UNCHANGED <<directory, published, request, address, signed, report, seen>>

(* A ledger with the transaction is validated.                             *)
Validate(c) ==
    /\ stage[c] = "submitted"
    /\ stage' = [stage EXCEPT ![c] = "validated"]
    /\ UNCHANGED <<directory, published, request, address, signed, report, seen>>

(* getPayment, or paymentHistory of either party, finds it.                *)
getPayment(c) ==
    /\ stage[c] = "validated"
    /\ stage' = [stage EXCEPT ![c] = "reported"]
    /\ report' = [report EXCEPT ![c] = XRPTransaction(signed[c])]
    /\ UNCHANGED <<directory, published, request, address, signed, seen>>

DestinationNext ==
    \/ \E o \in Owners, answer \in Answers : Publish(o, answer)
    \/ \E c \in Calls :
         \/ sendToPayID(c) \/ xrpAddress(c) \/ sendToAddress(c) \/ sendWithDetails(c)
         \/ RequestError(c) \/ Validate(c) \/ getPayment(c)

DestinationSpec == DestinationInit /\ [][DestinationNext]_vars
-----------------------------------------------------------------------------
(* Properties.                                                             *)

(* Types: what is signed names accounts by their classic address and has a  *)
(* tag that is a UInt32, whatever the destination was given as.            *)
DestinationTypeOK ==
    /\ directory \in [Owners -> Answers]
    /\ published \in 0 .. MaxPublished
    /\ request \in [Calls -> Requests \cup {None}]
    /\ stage \in [Calls -> {"idle", "resolving", "paying", "submitted"} \cup Paid \cup Errors]
    /\ address \in [Calls -> Text \cup {None}]
    /\ signed \in [Calls -> Transaction \cup {None}]
    /\ report \in [Calls -> Report \cup {None}]
    /\ seen \in [Calls -> SUBSET Answers]

(* What a text stands for, by the format of X-addresses: account a with     *)
(* tag t, or without one.                                                  *)
Denotes(text, a, t) ==
    /\ text.kind # "malformed"
    /\ text.account = a
    /\ \/ text.kind = "X" /\ text.flag = 0 /\ t = None
       \/ text.kind = "X" /\ text.flag = 1 /\ t \in Tag /\ TagBytes(t) = text.tag
       \/ text.kind = "classic" /\ t = None

(* What the owner of an entry asks for.  A tag beside a classic address is  *)
(* asked for if it is a number that a tag can be.                          *)
AsksFor(entry, a, t) ==
    IF entry.address.kind = "classic"
      THEN entry.address.account = a /\ (entry.tag \in Tag \cup {None} => t = entry.tag)
      ELSE entry.address.kind = "X" /\ Denotes(entry.address, a, t)

(* A payment to a PayID that is in a validated ledger went to the account   *)
(* and the tag that the PayID's owner, and nobody else, asked for at some   *)
(* moment between the call and the PayID server's answer, in a list of that *)
(* one address.  A tag is lost only when it is no UInt32; the owner's later *)
(* changes do not count.                                                   *)
PaidAsPublished ==
    \A c \in Calls :
      (stage[c] \in Paid /\ request[c].to = "PayID") =>
        \E answer \in seen[c] :
          /\ Single(answer)
          /\ AsksFor(answer[1], signed[c].Destination.account, signed[c].DestinationTag)

(* A payment to an X-address reads back as it was sent: the models of       *)
(* getPayment name its sender and its destination by X-addresses of the    *)
(* clients' network that stand for the same account and tag, 0 being a tag *)
(* and not the absence of one, and for an address that was encoded for     *)
(* that network by that very address; every part of its memo is the bytes  *)
(* of its field, and empty where there was none or it was not hex.         *)
ReadsBackAsSent ==
    \A c \in Calls : stage[c] = "reported" =>
      LET d == decode(report[c].destinationXAddress)
          s == decode(report[c].sourceXAddress) IN
        /\ d.isTest = networkIsTest /\ Denotes(address[c], d.classicAddress, d.tag)
        /\ s = [classicAddress |-> request[c].wallet.account, tag |-> None,
                isTest |-> networkIsTest]
        /\ (decode(address[c]).isTest = networkIsTest /\ address[c].rest = 0) =>
             report[c].destinationXAddress = address[c]
        /\ request[c].memo # None =>
             \A p \in Parts :
               LET field == request[c].memo[p] IN
               report[c].memo[p] = IF field = None THEN EmptyData
                                   ELSE IF field.bytes = None THEN EmptyData
                                   ELSE field.bytes

(* An error says what is wrong, and only what is wrong: a text is refused   *)
(* as a PayID only if it is nobody's and never could be; a mapping is      *)
(* missing only if its owner had none while the call asked; a response is   *)
(* unexpected only if the server was unavailable then, or had no address,   *)
(* several, or one that is no account's; an address is invalid input only   *)
(* if the caller gave it, and the way from a PayID never ends in an address *)
(* that the XRP client refuses.                                            *)
RefusalIsDeserved ==
    \A c \in Calls :
      /\ stage[c] = "invalidPayID" => \A o \in Owners : ~ IsPayIDOf(request[c].payID, o)
      /\ stage[c] = "mappingNotFound" => None \in seen[c]
      /\ stage[c] = "unexpectedResponse" =>
           \E answer \in seen[c] \ {None} :
             Single(answer) => /\ ~ isValidXAddress(answer[1].address)
                               /\ ~ isValidClassicAddress(answer[1].address)
      /\ stage[c] = "invalidInputs" =>
           /\ request[c].to = "address"
           /\ ~ isValidXAddress(request[c].address)
      /\ stage[c] # "signingError"
=============================================================================
