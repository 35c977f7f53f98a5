----------------------- MODULE PaymentDecisionsProofs -----------------------
(* Theorems about PaymentDecisions, for every request and every setting of *)
(* the limits.                                                             *)
EXTENDS PaymentDecisions, TLAPS

-----------------------------------------------------------------------------
(* The payload on its way *)

Payload(r) == Persisted(Sanitized(FullTxn(r)))

\* What a worker sees of a request it decides on.
Seen(r) == Sanitized(Payload(r))

LEMMA SanitizedTypes ==
    ASSUME NEW p \in Bodies
    PROVE  /\ Sanitized(p) \in Bodies
           /\ Sanitized(p).pin = ""
           /\ Sanitized(p).cardNumber = "" /\ Sanitized(p).cardLast4 = LastFour(p)
           /\ Sanitized(p).amount = p.amount /\ Sanitized(p).type = p.type
           /\ Sanitized(p).issuerType = p.issuerType /\ Sanitized(p).network = p.network
           /\ Sanitized(p).pinVerified = p.pinVerified
<1>1. LastFour(p) \in {"", "sent", "card"}
  BY DEF Bodies, LastFour
<1>2. /\ "" \in {"", "right", "wrong"} /\ "" \in {"", "tooShort", "noDigits", "digits"}
  OBVIOUS
<1>3. Sanitized(p) \in Bodies
  BY <1>1, <1>2, ZenonT(60) DEF Bodies, Sanitized
<1>4. /\ Sanitized(p).pin = ""
      /\ Sanitized(p).cardNumber = "" /\ Sanitized(p).cardLast4 = LastFour(p)
      /\ Sanitized(p).amount = p.amount /\ Sanitized(p).type = p.type
  BY DEF Bodies, Sanitized
<1>5. /\ Sanitized(p).issuerType = p.issuerType /\ Sanitized(p).network = p.network
      /\ Sanitized(p).pinVerified = p.pinVerified
  BY DEF Bodies, Sanitized
<1> QED BY <1>3, <1>4, <1>5

LEMMA FullTxnTypes ==
    ASSUME NEW r \in Bodies
    PROVE  /\ FullTxn(r) \in Bodies
           /\ FullTxn(r).amount = r.amount /\ FullTxn(r).type = r.type
           /\ FullTxn(r).issuerType = r.issuerType /\ FullTxn(r).network = r.network
           /\ FullTxn(r).cardNumber = r.cardNumber
           /\ FullTxn(r).pinVerified = PinVerified(r)
<1>1. PinVerified(r) \in BOOLEAN
  BY DEF PinVerified
<1> QED BY <1>1 DEF Bodies, FullTxn

\* Another pass over a payload without a card number changes nothing.
LEMMA SanitizedAgain ==
    ASSUME NEW p \in Bodies
    PROVE  Sanitized(Sanitized(p)) = Sanitized(p)
<1> DEFINE q == Sanitized(p)
<1>1. q \in Bodies /\ q.pin = "" /\ q.cardNumber = ""
  BY SanitizedTypes
<1> HIDE DEF q
<1>2. LastFour(q) = q.cardLast4
  BY <1>1 DEF LastFour
<1>3. Sanitized(q) = q
  BY <1>1, <1>2 DEF Sanitized, Bodies
<1> QED BY <1>3 DEF q

LEMMA SeenIsRequest ==
    ASSUME NEW r \in Bodies
    PROVE  /\ Payload(r) \in Bodies /\ Seen(r) \in Bodies
           /\ Seen(r).amount = r.amount /\ Seen(r).type = r.type
           /\ Seen(r).issuerType = r.issuerType /\ Seen(r).network = r.network
           /\ Seen(r).pinVerified = PinVerified(r)
           /\ r.cardNumber = "digits" => Seen(r).cardLast4 = "card"
           /\ Seen(r) = Sanitized(FullTxn(r))
<1> DEFINE f == FullTxn(r)
<1>1. f \in Bodies
  BY FullTxnTypes
<1> HIDE DEF f
<1>2. Sanitized(f) \in Bodies
  BY <1>1, SanitizedTypes
<1>3. Persisted(Sanitized(f)) = Sanitized(f)
  BY <1>1, <1>2, SanitizedAgain DEF Persisted, EventPayload
<1>4. Payload(r) = Sanitized(f) /\ Seen(r) = Sanitized(f)
  BY <1>1, <1>3, SanitizedAgain DEF f, Payload, Seen
<1>5. r.cardNumber = "digits" => Sanitized(f).cardLast4 = "card"
  <2>1. f.cardNumber = r.cardNumber
    BY FullTxnTypes DEF f
  <2>2. Sanitized(f).cardLast4 = LastFour(f)
    BY <1>1, SanitizedTypes
  <2> QED BY <2>1, <2>2 DEF LastFour
<1>6. /\ Sanitized(f).amount = f.amount /\ Sanitized(f).type = f.type
      /\ Sanitized(f).issuerType = f.issuerType /\ Sanitized(f).network = f.network
      /\ Sanitized(f).pinVerified = f.pinVerified
  BY <1>1, SanitizedTypes
<1> QED BY <1>2, <1>4, <1>5, <1>6, FullTxnTypes DEF f

LEMMA ValidTypes ==
    ASSUME NEW r \in Bodies, Valid(r)
    PROVE  /\ r.amount \in Int /\ r.amount <= TransactionLimit
           /\ r.type # "BALANCE_INQUIRY" => r.amount > 0
           /\ r.issuerType = "INTERNAL" \/ (r.issuerType = "EXTERNAL" /\ r.network \in SupportedNetworks)
BY DEF Bodies, Valid, Complete, AmountIsValid, NetworkIsValid, SupportedIssuers

-----------------------------------------------------------------------------
(* The invariant: what is stored and decided follows from the request *)

DecisionInv ==
    /\ request \in Requests
    /\ answer \in Answers
    /\ answer = "ACCEPTED" =>
          Valid(request) /\ ~RejectedForRisk(request) /\ ~ReviewedForRisk(request)
             /\ FitsRow(Sanitized(FullTxn(request))) /\ stored = Payload(request)
    /\ answer # "ACCEPTED" => stored = NoPayload
    /\ answer = "ERROR" => Valid(request) /\ ~FitsRow(Sanitized(FullTxn(request)))
    /\ \/ verdict = Undecided /\ seen = NoPayload
       \/ answer = "ACCEPTED" /\ seen = Seen(request) /\ verdict = Decision(seen)

LEMMA DecisionInvariant == Spec => []DecisionInv
<1>1. Init => DecisionInv
  BY DEF Init, DecisionInv, Answers
<1>2. ASSUME DecisionInv, [Next]_vars PROVE DecisionInv'
  <2>1. CASE Pay
    <3>1. answer = "none" /\ seen = NoPayload /\ verdict = Undecided /\ stored = NoPayload
      BY <1>2, <2>1 DEF DecisionInv, Pay
    <3>2. UNCHANGED <<request, seen, verdict>>
      BY <2>1 DEF Pay
    <3>3. /\ answer' \in Answers
          /\ answer' = "ACCEPTED" =>
                Valid(request) /\ ~RejectedForRisk(request) /\ ~ReviewedForRisk(request)
                   /\ FitsRow(Sanitized(FullTxn(request))) /\ stored' = Payload(request)
          /\ answer' # "ACCEPTED" => stored' = NoPayload
          /\ answer' = "ERROR" => Valid(request) /\ ~FitsRow(Sanitized(FullTxn(request)))
      BY <2>1, <3>1 DEF Pay, Payload, Answers
    <3> QED BY <1>2, <3>1, <3>2, <3>3 DEF DecisionInv
  <2>2. CASE Work
    <3>1. /\ answer = "ACCEPTED" /\ stored = Payload(request)
          /\ seen' = Seen(request) /\ verdict' = Decision(seen')
      BY <1>2, <2>2 DEF DecisionInv, Work, Seen
    <3> QED BY <1>2, <2>2, <3>1 DEF DecisionInv, Work
  <2>3. CASE UNCHANGED vars
    BY <1>2, <2>3 DEF DecisionInv, vars
  <2> QED BY <1>2, <2>1, <2>2, <2>3 DEF Next
<1> QED BY <1>1, <1>2, PTL DEF Spec

\* What follows of a decided payment.
LEMMA DecidedFacts ==
    ASSUME DecisionInv, Decided
    PROVE  /\ request \in Bodies /\ Valid(request)
           /\ seen = Seen(request) /\ verdict = Decision(Seen(request))
BY RequestsAssumption DEF DecisionInv, Decided

-----------------------------------------------------------------------------
(* The decision on an admitted request *)

LEMMA ResultTypes ==
    /\ Completed \in Results /\ Completed.status = "COMPLETED" /\ Completed.reason = ""
    /\ \A reason \in Reasons :
          /\ Declined(reason) \in Results
          /\ Declined(reason).status = "DECLINED" /\ Declined(reason).reason = reason
BY DEF Completed, Declined, Results, Reasons

LEMMA DecisionOfValid ==
    ASSUME NEW r \in Bodies, Valid(r)
    PROVE  /\ Decision(Seen(r)) \in Results
           /\ Decision(Seen(r)).status = Policy(r)
           /\ Decision(Seen(r)).reason \notin
                {"Invalid amount", "Unsupported route", "Unsupported external network"}
<1> DEFINE p == Seen(r)
<1>1. /\ p.amount = r.amount /\ p.type = r.type /\ p.issuerType = r.issuerType
      /\ p.network = r.network /\ p.pinVerified = PinVerified(r)
  BY SeenIsRequest
<1>2. /\ r.amount \in Int /\ (r.type # "BALANCE_INQUIRY" => r.amount > 0)
      /\ r.issuerType = "INTERNAL" \/ (r.issuerType = "EXTERNAL" /\ r.network \in SupportedNetworks)
  BY ValidTypes
<1> HIDE DEF p
<1>3. ~(p.type # "BALANCE_INQUIRY" /\ p.amount <= 0)
  BY <1>1, <1>2
<1>4. CASE r.amount = FailingAmount
  BY <1>1, <1>3, <1>4 DEF p, Decision, Policy, Results, Reasons
<1>5. CASE r.amount # FailingAmount /\ r.issuerType = "INTERNAL"
  <2>1. Decision(p) = HandleInternal(p)
    BY <1>1, <1>3, <1>5 DEF Decision, Routed, Route
  <2>2. HandleInternal(p) \in {Completed, Declined("Invalid PIN"), Declined("Insufficient funds")}
    BY DEF HandleInternal
  <2>3. HandleInternal(p).status = Policy(r)
    BY <1>1, <1>5 DEF HandleInternal, Policy, PinVerified, RequiresPin, Completed, Declined
  <2>4. "Invalid PIN" \in Reasons /\ "Insufficient funds" \in Reasons
    BY DEF Reasons
  <2>5. HandleInternal(p) \in Results
        /\ HandleInternal(p).reason \in {"", "Invalid PIN", "Insufficient funds"}
    BY <2>2, <2>4, ResultTypes
  <2> QED BY <2>1, <2>3, <2>5 DEF p
<1>6. CASE r.amount # FailingAmount /\ r.issuerType # "INTERNAL"
  <2>1. Route(p) = p.network /\ Route(p) \in SupportedNetworks /\ Route(p) # "INTERNAL"
    BY <1>1, <1>2, <1>6 DEF Route, SupportedNetworks
  <2>2. Decision(p) = Completed
    BY <1>1, <1>3, <1>6, <2>1 DEF Decision, Routed, HandleExternal
  <2>3. Policy(r) = "COMPLETED"
    BY <1>6 DEF Policy
  <2> QED BY <2>2, <2>3, ResultTypes DEF p
<1> QED BY <1>4, <1>5, <1>6

-----------------------------------------------------------------------------
(* Theorems *)

\* The variables keep their types: whatever is stored is a payload, and every verdict
\* is a status the row can take.
THEOREM TypeCorrect == Spec => []TypeOK
<1>1. ASSUME DecisionInv PROVE TypeOK
  <2>1. request \in Bodies /\ Payload(request) \in Bodies /\ Seen(request) \in Bodies
    BY <1>1, RequestsAssumption, SeenIsRequest DEF DecisionInv
  <2>2. verdict # Undecided => verdict \in Results
    BY <1>1, DecidedFacts, DecisionOfValid DEF Decided
  <2> QED BY <1>1, <2>1, <2>2 DEF DecisionInv, TypeOK
<1> QED BY <1>1, DecisionInvariant, PTL

\* Whatever the limits are set to, the worker never declines for its amount or its
\* route what POST /pay accepted.
THEOREM AcceptedIsProcessableCorrect == Spec => []AcceptedIsProcessable
<1>1. DecisionInv => AcceptedIsProcessable
  BY DecidedFacts, DecisionOfValid DEF AcceptedIsProcessable
<1> QED BY <1>1, DecisionInvariant, PTL

\* The verdict on the stored payload is the rules' verdict on the request, for every
\* request and every setting of the limits.
THEOREM VerdictIsPolicyCorrect == Spec => []VerdictIsPolicy
<1>1. DecisionInv => VerdictIsPolicy
  BY DecidedFacts, DecisionOfValid DEF VerdictIsPolicy
<1> QED BY <1>1, DecisionInvariant, PTL

\* No internal payment is completed without the right PIN in its request.
THEOREM CompletedHadPinCorrect == Spec => []CompletedHadPin
<1>1. DecisionInv => CompletedHadPin
  BY DecidedFacts, DecisionOfValid DEF CompletedHadPin, Policy
<1> QED BY <1>1, DecisionInvariant, PTL

\* The last four digits of a card survive every pass of sanitizing.
THEOREM CardSurvivesCorrect == Spec => []CardSurvives
<1>1. DecisionInv => CardSurvives
  BY DecidedFacts, SeenIsRequest DEF CardSurvives
<1> QED BY <1>1, DecisionInvariant, PTL

LEMMA FittingIsOfTheRequest ==
    ASSUME NEW r \in Bodies
    PROVE  FitsRow(Sanitized(FullTxn(r))) <=> FitsRow(r)
<1>1. FullTxn(r).accounts = r.accounts /\ FullTxn(r) \in Bodies
  BY FullTxnTypes DEF FullTxn, Bodies
<1>2. Sanitized(FullTxn(r)).accounts = FullTxn(r).accounts
  BY <1>1 DEF Sanitized, Bodies
<1>3. Sanitized(FullTxn(r)).amount = r.amount
  BY <1>1, FullTxnTypes, SanitizedTypes
<1> QED BY <1>1, <1>2, <1>3 DEF FitsRow

\* The column holds every amount the limit admits.
LEMMA AdmittedAmountFits ==
    ASSUME NEW a \in Int, a >= 0, a <= TransactionLimit
    PROVE  Rounded(a) <= LargestStored /\ -Rounded(a) <= LargestStored
<1>1. Rounded(a) \in Int /\ Rounded(a) >= 0 /\ Rounded(a) <= a + 5
  BY DEF Rounded
<1> QED BY <1>1, LimitsAssumption, StorageAssumption

\* It holds every amount that is rounded to no less than it can.
LEMMA NegativeAmountFits ==
    ASSUME NEW a \in Int, a < 0, a + LargestStored > -5
    PROVE  Rounded(a) <= LargestStored /\ -Rounded(a) <= LargestStored
<1> DEFINE q == (5 - a) \div 10
<1>1. q \in Nat /\ Rounded(a) = -10 * q /\ 10 * q <= 5 - a
  BY DEF Rounded
<1>2. LargestStored \in Nat /\ LargestStored % 10 = 0
  BY StorageAssumption
<1> QED BY <1>1, <1>2, StorageAssumption

\* As long as the limit fits the column, POST /pay answers an error only for texts
\* that are too long and for inquiries that fall below what the column holds.
THEOREM ErrorForCauseOnlyCorrect == Spec => []ErrorForCauseOnly
<1>1. ASSUME DecisionInv, answer = "ERROR"
      PROVE  \/ request.accounts = "tooLong"
             \/ request.type = "BALANCE_INQUIRY" /\ request.amount + LargestStored <= -5
  <2>1. request \in Bodies /\ Valid(request) /\ ~FitsRow(request)
    BY <1>1, RequestsAssumption, FittingIsOfTheRequest DEF DecisionInv
  <2>2. /\ request.amount \in Int /\ request.amount <= TransactionLimit
        /\ request.type # "BALANCE_INQUIRY" => request.amount > 0
    BY <2>1, ValidTypes
  <2>3. CASE request.amount >= 0
    BY <2>1, <2>2, <2>3, AdmittedAmountFits DEF FitsRow
  <2>4. CASE request.amount < 0
    <3> DEFINE a == request.amount
    <3>1. a + LargestStored > -5 => Rounded(a) <= LargestStored /\ -Rounded(a) <= LargestStored
      BY <2>2, <2>4, NegativeAmountFits
    <3> QED BY <2>1, <2>2, <2>4, <3>1, StorageAssumption DEF FitsRow
  <2> QED BY <2>2, <2>3, <2>4
<1>2. DecisionInv => ErrorForCauseOnly
  BY <1>1 DEF ErrorForCauseOnly
<1> QED BY <1>2, DecisionInvariant, PTL

LEMMA WithTypes ==
    ASSUME NEW r \in Bodies, NEW a \in Int
    PROVE  /\ With(r, a) \in Bodies /\ With(r, a).amount = a
           /\ With(r, a).type = r.type /\ With(r, a).channel = r.channel
           /\ With(r, a).issuerType = r.issuerType /\ With(r, a).network = r.network
           /\ With(r, a).accounts = r.accounts /\ With(r, a).pin = r.pin
           /\ With(r, a).cardNumber = r.cardNumber
<1>1. With(r, a) \in Bodies
  BY DEF With, Bodies
<1>2. With(r, a).amount = a /\ With(r, a).type = r.type /\ With(r, a).channel = r.channel
  BY DEF With, Bodies
<1>3. /\ With(r, a).issuerType = r.issuerType /\ With(r, a).network = r.network
      /\ With(r, a).accounts = r.accounts
  BY DEF With, Bodies
<1>4. With(r, a).pin = r.pin /\ With(r, a).cardNumber = r.cardNumber
  BY DEF With, Bodies
<1> QED BY <1>1, <1>2, <1>3, <1>4

\* Validation, risk and balance draw their limits alike, each inclusive: whatever they are
\* set to, an amount that exceeds none but those of a completed payment is completed too.
THEOREM CompletesUpToTheLimitsCorrect == Spec => []CompletesUpToTheLimits
<1>1. ASSUME DecisionInv, Decided, verdict.status = "COMPLETED",
             NEW a \in Int, 0 < a, a # FailingAmount,
             \A limit \in Limits : a > limit => request.amount > limit
      PROVE  /\ Admitted(With(request, a))
             /\ Decision(Sanitized(FullTxn(With(request, a)))).status = "COMPLETED"
  <2> DEFINE w == With(request, a)
  <2>1. /\ request \in Bodies /\ Valid(request)
        /\ ~RejectedForRisk(request) /\ ~ReviewedForRisk(request) /\ FitsRow(request)
    BY <1>1, RequestsAssumption, FittingIsOfTheRequest DEF DecisionInv, Decided
  <2>2. Policy(request) = "COMPLETED"
    BY <1>1, <2>1, DecidedFacts, DecisionOfValid
  <2>3. request.amount \in Int /\ request.amount <= TransactionLimit
    BY <2>1, ValidTypes
  <2>4. /\ w \in Bodies /\ w.amount = a
        /\ w.type = request.type /\ w.channel = request.channel
        /\ w.issuerType = request.issuerType /\ w.network = request.network
        /\ w.accounts = request.accounts /\ w.pin = request.pin
        /\ w.cardNumber = request.cardNumber
    BY <2>1, WithTypes
  <2> HIDE DEF w
  <2>e. /\ a > TransactionLimit => request.amount > TransactionLimit
        /\ a > DefaultBalance => request.amount > DefaultBalance
        /\ a > InternationalAtmLimit => request.amount > InternationalAtmLimit
        /\ a > EcommerceReviewLimit => request.amount > EcommerceReviewLimit
        /\ a > InternationalPosReviewLimit => request.amount > InternationalPosReviewLimit
    BY <1>1 DEF Limits
  <2>5. a <= TransactionLimit
    BY <2>e, <2>3, LimitsAssumption
  <2>6. Valid(w)
    <3>1. AmountIsValid(w)
      BY <1>1, <2>4, <2>5, NoNumberAssumption DEF AmountIsValid
    <3>2. Complete(w) /\ NetworkIsValid(w)
      BY <2>1, <2>4, NoNumberAssumption DEF Valid, Complete, NetworkIsValid
    <3> QED BY <2>1, <2>4, <3>1, <3>2 DEF Valid
  <2>7. ~RejectedForRisk(w) /\ ~ReviewedForRisk(w)
    BY <2>e, <2>1, <2>4 DEF RejectedForRisk, ReviewedForRisk
  <2>8. FitsRow(w)
    BY <1>1, <2>1, <2>4, <2>5, AdmittedAmountFits DEF FitsRow
  <2>9. Policy(w) = "COMPLETED"
    BY <1>1, <2>e, <2>2, <2>4 DEF Policy
  <2>10. Decision(Sanitized(FullTxn(w))).status = "COMPLETED"
    <3>1. w \in Bodies
      BY <2>4
    <3>2. Decision(Seen(w)).status = Policy(w)
      BY <3>1, <2>6, DecisionOfValid
    <3>3. Seen(w) = Sanitized(FullTxn(w))
      BY <3>1, SeenIsRequest
    <3> QED BY <3>2, <3>3, <2>9
  <2> QED BY <2>6, <2>7, <2>8, <2>10 DEF w, Admitted
<1>2. DecisionInv => CompletesUpToTheLimits
  BY <1>1 DEF CompletesUpToTheLimits
<1> QED BY <1>2, DecisionInvariant, PTL
=============================================================================
