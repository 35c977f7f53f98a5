-------------------------- MODULE PaymentDecisions --------------------------
(***************************************************************************)
(* What becomes of one payment by its contents: validation, risk and the   *)
(* PIN check of POST /pay (app.js), the row and the payload it stores, and *)
(* the processor, router and systems that a worker later runs on that      *)
(* payload (jobs/transactionJobHandler.js).  The two halves run in         *)
(* different processes and share the stored payload alone.                 *)
(*                                                                         *)
(* Amounts are counted in thousandths, a tenth of what the amount column   *)
(* can tell apart.  A field that is absent, null or empty is "".           *)
(***************************************************************************)
EXTENDS Integers

CONSTANTS
    Requests,                       \* bodies of POST /pay
    NoAmount, NotANumber,           \* amounts that are absent, or no number
    TransactionLimit,               \* TRANSACTION_LIMIT: 10000
    DefaultBalance,                 \* DEFAULT_BALANCE: 5000
    InternationalAtmLimit,          \* config.riskRules: 1000
    EcommerceReviewLimit,           \* ... 5000
    InternationalPosReviewLimit,    \* ... 3000
    FailingAmount,                  \* the amount whose processing fails: 999
    LargestStored                   \* what NUMERIC(12,2) can hold

SupportedTypes == {"PURCHASE", "CASH_WITHDRAWAL", "BALANCE_INQUIRY", "REVERSAL"}
SupportedChannels ==
    {"DOMESTIC_ATM", "INTERNATIONAL_ATM", "DOMESTIC_POS", "INTERNATIONAL_POS", "ECOM"}
SupportedIssuers == {"INTERNAL", "EXTERNAL"}
SupportedNetworks == {"EXTERNAL_PROCESSOR", "CARD_NETWORK"}

\* accounts stands for fromAccount and toAccount, "tooLong" for a text of the body that
\* its column cannot hold (VARCHAR(50) of an account, 100 of a correlationId); of a card
\* number its length and whether it has digits matter.  A body may bring a pinVerified
\* and a cardLast4 of its own.
Bodies == [amount: Int \cup {NoAmount, NotANumber},
           type: SupportedTypes \cup {"", "OTHER"},
           channel: SupportedChannels \cup {"", "OTHER"},
           issuerType: SupportedIssuers \cup {"", "OTHER"},
           network: SupportedNetworks \cup {"", "OTHER"},
           accounts: {"", "fit", "tooLong"},
           pin: {"", "right", "wrong"},
           pinVerified: BOOLEAN,
           cardNumber: {"", "tooShort", "noDigits", "digits"},
           cardLast4: {"", "sent", "card"}]

ASSUME RequestsAssumption == Requests \subseteq Bodies
ASSUME NoNumberAssumption == NoAmount \notin Int /\ NotANumber \notin Int
ASSUME LimitsAssumption ==
    /\ TransactionLimit \in Nat \ {0} /\ DefaultBalance \in Nat
    /\ InternationalAtmLimit \in Nat /\ EcommerceReviewLimit \in Nat
    /\ InternationalPosReviewLimit \in Nat /\ FailingAmount \in Nat \ {0}
\* The column holds hundredths, and every amount the limit admits, rounding included.
ASSUME StorageAssumption ==
    LargestStored \in Nat /\ LargestStored % 10 = 0 /\ TransactionLimit + 5 <= LargestStored

VARIABLES
    request,        \* the body of POST /pay
    answer,         \* what it was answered
    stored,         \* the payload of the outbox event and the job, once committed
    seen,           \* the payload a worker decided on
    verdict         \* what it decided

vars == <<request, answer, stored, seen, verdict>>

NoPayload == [amount |-> NoAmount]
Undecided == [status |-> "none", reason |-> ""]

Answers == {"none", "DECLINED", "REJECTED", "MANUAL_REVIEW", "ERROR", "ACCEPTED"}
Reasons ==
    {"", "Invalid amount", "Simulated processor failure", "Invalid PIN",
     "Insufficient funds", "Unsupported external network", "Unsupported route"}
Results == [status: {"COMPLETED", "DECLINED", "FAILED"}, reason: Reasons]

Init ==
    /\ request \in Requests
    /\ answer = "none"
    /\ stored = NoPayload
    /\ seen = NoPayload
    /\ verdict = Undecided

-----------------------------------------------------------------------------
(* validateTransaction *)

Complete(r) ==
    /\ r.amount # NoAmount
    /\ "" \notin {r.type, r.channel, r.issuerType, r.accounts}

\* Mutants, here and below: what a plausible mistake would make of the definition
\* that follows.  Nothing uses them.
AmountIsValidUnlimitedInquiry(r) ==
    /\ r.amount # NotANumber
    /\ r.type # "BALANCE_INQUIRY" => r.amount > 0 /\ r.amount <= TransactionLimit

AmountIsValid(r) ==
    /\ r.amount # NotANumber
    /\ r.type # "BALANCE_INQUIRY" => r.amount > 0
    /\ r.amount <= TransactionLimit

NetworkIsValid(r) ==
    /\ r.issuerType = "EXTERNAL" => r.network # ""
    /\ r.network # "" => r.network \in SupportedNetworks

Valid(r) ==
    /\ Complete(r)
    /\ AmountIsValid(r)
    /\ r.type \in SupportedTypes
    /\ r.issuerType \in SupportedIssuers
    /\ r.channel \in SupportedChannels
    /\ NetworkIsValid(r)
    /\ r.cardNumber # "tooShort"

-----------------------------------------------------------------------------
(* evaluateRisk *)

RejectedForRiskAtLimit(r) == r.channel = "INTERNATIONAL_ATM" /\ r.amount >= InternationalAtmLimit

RejectedForRisk(r) == r.channel = "INTERNATIONAL_ATM" /\ r.amount > InternationalAtmLimit

ReviewedForRisk(r) ==
    \/ r.channel = "ECOM" /\ r.amount > EcommerceReviewLimit
    \/ r.channel = "INTERNATIONAL_POS" /\ r.amount > InternationalPosReviewLimit

-----------------------------------------------------------------------------
(* The payload POST /pay makes of the body *)

RequiresPin(r) == r.issuerType = "INTERNAL" /\ r.type # "BALANCE_INQUIRY"

PinVerified(r) == RequiresPin(r) => r.pin = "right"

LastFourOfCard(p) == IF p.cardNumber = "digits" THEN "card" ELSE ""

\* cardLast4, which an earlier pass may have left: overwritten only by digits.
LastFour(p) == IF p.cardNumber = "digits" THEN "card" ELSE p.cardLast4

\* sanitizeTransactionForPersistence: PIN and card number are removed.
Sanitized(p) == [p EXCEPT !.pin = "", !.cardNumber = "", !.cardLast4 = LastFour(p)]

\* insertOutboxEvent does it again.
EventPayload(p) == Sanitized(p)

\* And so did saveTransactionWithOutbox before.
Persisted(p) == EventPayload(Sanitized(p))

FullTxnOfSanitized(r) == [r EXCEPT !.pinVerified = PinVerified(Sanitized(r))]

\* ...validatedTxn comes before pinVerified: what the body says of it is lost.
FullTxn(r) == [r EXCEPT !.pinVerified = PinVerified(r)]

\* NUMERIC(12,2) rounds halves away from zero, and raises when it overflows.
Rounded(amount) ==
    IF amount >= 0 THEN 10 * ((amount + 5) \div 10) ELSE -10 * ((5 - amount) \div 10)

FitsRow(p) ==
    /\ Rounded(p.amount) <= LargestStored
    /\ -Rounded(p.amount) <= LargestStored
    /\ p.accounts # "tooLong"

Pay ==
    /\ answer = "none"
    /\ LET payload == Sanitized(FullTxn(request)) IN
       \/ /\ ~Valid(request)
          /\ answer' = "DECLINED"
          /\ UNCHANGED stored
       \/ /\ Valid(request)
          /\ RejectedForRisk(request)
          /\ answer' = "REJECTED"
          /\ UNCHANGED stored
       \/ /\ Valid(request)
          /\ ReviewedForRisk(request)
          /\ answer' = "MANUAL_REVIEW"
          /\ UNCHANGED stored
       \/ /\ Valid(request) /\ ~RejectedForRisk(request) /\ ~ReviewedForRisk(request)
          /\ \/ FitsRow(payload) /\ answer' = "ACCEPTED" /\ stored' = Persisted(payload)
             \/ ~FitsRow(payload) /\ answer' = "ERROR" /\ UNCHANGED stored
    /\ UNCHANGED <<request, seen, verdict>>

-----------------------------------------------------------------------------
(* processClaimedTransaction *)

Completed == [status |-> "COMPLETED", reason |-> ""]

Declined(reason) == [status |-> "DECLINED", reason |-> reason]

HandleInternal(p) ==
    IF p.type = "BALANCE_INQUIRY" THEN Completed
    ELSE IF ~p.pinVerified THEN Declined("Invalid PIN")
    ELSE IF p.type # "REVERSAL" /\ p.amount > DefaultBalance
    THEN Declined("Insufficient funds")
    ELSE Completed

HandleExternal(p) ==
    IF p.network \in SupportedNetworks THEN Completed
    ELSE Declined("Unsupported external network")

Route(p) ==
    IF p.issuerType = "INTERNAL" THEN "INTERNAL"
    ELSE IF p.network \in SupportedNetworks THEN p.network
    ELSE IF p.issuerType = "EXTERNAL" THEN "EXTERNAL"
    ELSE "UNKNOWN"

Routed(p) ==
    IF Route(p) = "INTERNAL" THEN HandleInternal(p)
    ELSE IF Route(p) \in SupportedNetworks THEN HandleExternal(p)
    ELSE Declined("Unsupported route")

\* processTransaction, then the routed system; a failure is retried and dead-lettered.
Decision(p) ==
    IF p.type # "BALANCE_INQUIRY" /\ p.amount <= 0 THEN Declined("Invalid amount")
    ELSE IF p.amount = FailingAmount
    THEN [status |-> "FAILED", reason |-> "Simulated processor failure"]
    ELSE Routed(p)

Work ==
    /\ answer = "ACCEPTED"
    /\ verdict = Undecided
    /\ seen' = Sanitized(stored)
    /\ verdict' = Decision(seen')
    /\ UNCHANGED <<request, answer, stored>>

Next == Pay \/ Work

Spec == Init /\ [][Next]_vars

-----------------------------------------------------------------------------
(* Properties *)

TypeOK ==
    /\ request \in Requests
    /\ answer \in Answers
    /\ stored \in Bodies \cup {NoPayload}
    /\ seen \in Bodies \cup {NoPayload}
    /\ verdict \in Results \cup {Undecided}

Decided == verdict # Undecided

\* The worker checks again what POST /pay checked: an accepted payment is never
\* declined for its amount or its route (processor.js:4-10 and the else of
\* transactionJobHandler.js:164 against validator.js:22-48).
AcceptedIsProcessable ==
    Decided => verdict.reason \notin
        {"Invalid amount", "Unsupported route", "Unsupported external network"}

\* An internal payment is completed only if the request had the right PIN, which the
\* worker never sees: pinVerified alone carries it, whatever the body said of it and
\* however often the payload is sanitized (app.js:172-182, systemA.js:4).
CompletedHadPin ==
    Decided /\ verdict.status = "COMPLETED" /\ request.issuerType = "INTERNAL"
        /\ request.type # "BALANCE_INQUIRY"
            => request.pin = "right"

\* The rules of the two halves as one table.
Policy(r) ==
    IF r.amount = FailingAmount THEN "FAILED"
    ELSE IF /\ r.issuerType = "INTERNAL" /\ r.type # "BALANCE_INQUIRY"
            /\ r.pin # "right" \/ (r.type # "REVERSAL" /\ r.amount > DefaultBalance)
    THEN "DECLINED"
    ELSE "COMPLETED"

\* What a worker decides on the payload is what the rules say of the request: nothing
\* that matters is lost or changed on the way through row, event and job.
VerdictIsPolicy == Decided => verdict.status = Policy(request)

\* POST /pay answers an error only for what validation does not look at: texts that are
\* too long, and inquiries that, rounded, are below what the amount column holds.
ErrorForCauseOnly ==
    answer = "ERROR" =>
        \/ request.accounts = "tooLong"
        \/ request.type = "BALANCE_INQUIRY" /\ request.amount + LargestStored <= -5

\* The later passes of sanitizing, when the card number is gone, keep the last four
\* digits the first one took (sensitiveData.js:66-73; store.js:9, 35,
\* transactionJobHandler.js:33).
CardSurvives ==
    Decided /\ request.cardNumber = "digits" => seen.cardLast4 = "card"

Admitted(r) == Valid(r) /\ ~RejectedForRisk(r) /\ ~ReviewedForRisk(r) /\ FitsRow(r)

With(r, amount) == [r EXCEPT !.amount = amount]

Limits ==
    {TransactionLimit, DefaultBalance, InternationalAtmLimit, EcommerceReviewLimit,
     InternationalPosReviewLimit}

\* A payment is treated no worse with an amount that exceeds no limit it did not exceed
\* before: if it was completed, so is the same one of any smaller amount, and of any
\* larger one up to and including the next limit, the failing amount aside.  The limits
\* of validation, risk and balance are compared in four places of two processes.
CompletesUpToTheLimits ==
    Decided /\ verdict.status = "COMPLETED" =>
        \A a \in {r.amount : r \in Requests} \cap Int :
            /\ 0 < a /\ a # FailingAmount
            /\ \A limit \in Limits : a > limit => request.amount > limit
            => /\ Admitted(With(request, a))
               /\ Decision(Sanitized(FullTxn(With(request, a)))).status = "COMPLETED"
=============================================================================
