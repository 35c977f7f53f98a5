------------------------- MODULE RateLimiterProofs --------------------------
(* Theorems about RateLimiter, for every value of its constants. *)
EXTENDS RateLimiter, TLAPS

-----------------------------------------------------------------------------
(* Numbers kept by age *)

LEMMA OneMoreTypes ==
    ASSUME NEW m \in Nat, NEW f \in [0..m -> Nat]
    PROVE  /\ OneMore(f) \in [0..m -> Nat]
           /\ \A n \in 0..m : OneMore(f)[n] = f[n] + 1
BY DEF OneMore

LEMMA OlderTypes ==
    ASSUME NEW m \in Nat, NEW f \in [0..m -> Nat]
    PROVE  /\ Older(f) \in [0..m -> Nat]
           /\ Older(f)[0] = 0
           /\ \A n \in 0..m : n # 0 => n - 1 \in 0..m /\ Older(f)[n] = f[n - 1]
<1>1. \A n \in 0..m : n # 0 => n - 1 \in 0..m
  OBVIOUS
<1> QED BY <1>1 DEF Older

-----------------------------------------------------------------------------
(* Types *)

\* An answer given at most a ticks ago was given at most b ago, if b is no less.
Cumulative == \A c \in Clients, a, b \in Ages : a <= b => underway[c][a] <= underway[c][b]

LEMMA InitTypeOK == Init => TypeOK /\ Cumulative
BY MaxRequestsAssumption, WindowAssumption, MaxDelayAssumption
DEF Init, TypeOK, Cumulative, Ticks, Ages

LEMMA ExecutedTypes ==
    ASSUME TypeOK, NEW c \in Clients, Executed(c)
    PROVE  /\ count' \in [Clients -> 0..(MaxRequests + 1)]
           /\ ttl' \in [Clients -> 0..Window]
<1>1. /\ Incremented(count[c]) \in 0..(MaxRequests + 1)
      /\ TimeToLive(count[c], ttl[c]) \in 0..Window
  BY MaxRequestsAssumption, WindowAssumption DEF TypeOK, Incremented, TimeToLive
<1> QED BY <1>1 DEF TypeOK, Executed

\* What the count of a request changes for its client.
LEMMA AnsweredSteps ==
    ASSUME TypeOK, NEW c \in Clients, NEW counted, Answered(c, counted)
    PROVE  \/ /\ OverLimit(counted) /\ refused' = [refused EXCEPT ![c] = TRUE]
              /\ UNCHANGED <<underway, granted>>
           \/ /\ ~OverLimit(counted) /\ granted' = [granted EXCEPT ![c] = @ + 1]
              /\ underway' = [underway EXCEPT ![c] = OneMore(@)]
              /\ \A a \in Ages : underway'[c][a] = underway[c][a] + 1
              /\ underway' \in [Clients -> [Ages -> Nat]]
              /\ UNCHANGED refused
<1>1. /\ OneMore(underway[c]) \in [Ages -> Nat]
      /\ \A a \in Ages : OneMore(underway[c])[a] = underway[c][a] + 1
  BY OneMoreTypes, MaxDelayAssumption DEF TypeOK, Ages
<1> QED BY <1>1 DEF TypeOK, Answered

\* What an answer that arrives changes for its client.
LEMMA ArrivesSteps ==
    ASSUME TypeOK, Cumulative, NEW c \in Clients, NEW a \in Ages, Arrives(c, a)
    PROVE  /\ \A b \in Ages :
                 /\ b < a => underway'[c][b] = underway[c][b] /\ underway[c][b] < underway[c][a]
                 /\ b >= a => underway'[c][b] = underway[c][b] - 1 /\ underway[c][b] > 0
           /\ \A n \in Ticks : recent'[c][n] = recent[c][n] + 1
           /\ underway' \in [Clients -> [Ages -> Nat]]
           /\ recent' \in [Clients -> [Ticks -> Nat]]
<1> DEFINE left == [b \in Ages |-> IF b < a THEN underway[c][b] ELSE underway[c][b] - 1]
<1>1. /\ OneMore(recent[c]) \in [Ticks -> Nat]
      /\ \A n \in Ticks : OneMore(recent[c])[n] = recent[c][n] + 1
  BY OneMoreTypes, WindowAssumption DEF TypeOK, Ticks
<1>2. ASSUME NEW b \in Ages PROVE underway[c][b] \in Nat
  BY DEF TypeOK
<1>3. ASSUME NEW b \in Ages, b < a PROVE underway[c][b] < underway[c][a]
  <2>1. a # 0 /\ a - 1 \in Ages /\ b <= a - 1
    BY <1>3, MaxDelayAssumption DEF Ages
  <2>2. underway[c][b] <= underway[c][a - 1]
    BY <2>1 DEF Cumulative
  <2>3. underway[c][a] - underway[c][a - 1] > 0
    BY <2>1 DEF Arrives, Aged
  <2> QED BY <1>2, <2>1, <2>2, <2>3
<1>4. underway[c][a] > 0
  <2>1. CASE a = 0
    BY <1>2, <2>1 DEF Arrives, Aged
  <2>2. CASE a # 0
    <3>1. 0 \in Ages /\ 0 < a
      BY <2>2, MaxDelayAssumption DEF Ages
    <3> QED BY <1>2, <1>3, <3>1
  <2> QED BY <2>1, <2>2
<1>5. ASSUME NEW b \in Ages, b >= a PROVE underway[c][b] > 0
  <2>1. underway[c][a] <= underway[c][b]
    BY <1>5 DEF Cumulative
  <2> QED BY <1>2, <1>4, <2>1
<1>6. left \in [Ages -> Nat]
  <2> SUFFICES ASSUME NEW b \in Ages
               PROVE  (IF b < a THEN underway[c][b] ELSE underway[c][b] - 1) \in Nat
    OBVIOUS
  <2>1. b \in Int /\ a \in Int
    BY MaxDelayAssumption DEF Ages
  <2> QED BY <1>2, <1>5, <2>1
<1>7. underway' = [underway EXCEPT ![c] = left] /\ recent' = [recent EXCEPT ![c] = OneMore(@)]
  BY DEF Arrives
<1>8. underway'[c] = left /\ recent'[c] = OneMore(recent[c])
  BY <1>7 DEF TypeOK
<1>9. \A b \in Ages : left[b] = IF b < a THEN underway[c][b] ELSE underway[c][b] - 1
  OBVIOUS
<1>10. underway' \in [Clients -> [Ages -> Nat]] /\ recent' \in [Clients -> [Ticks -> Nat]]
  BY <1>1, <1>6, <1>7 DEF TypeOK
<1>11. \A b \in Ages : b \in Int /\ a \in Int
  BY MaxDelayAssumption DEF Ages
<1> QED BY <1>1, <1>3, <1>5, <1>8, <1>9, <1>10, <1>11

\* What time does to the numbers of one client.
LEMMA TickSteps ==
    ASSUME TypeOK, Tick, NEW c \in Clients
    PROVE  /\ underway'[c] = Older(underway[c]) /\ underway'[c] \in [Ages -> Nat]
           /\ recent'[c] = Older(recent[c]) /\ recent'[c] \in [Ticks -> Nat]
           /\ underway'[c][0] = 0 /\ recent'[c][0] = 0
           /\ \A a \in Ages :
                 a # 0 => a - 1 \in Ages /\ underway'[c][a] = underway[c][a - 1]
           /\ \A n \in Ticks :
                 n # 0 => n - 1 \in Ticks /\ recent'[c][n] = recent[c][n - 1]
<1>1. underway[c] \in [Ages -> Nat] /\ recent[c] \in [Ticks -> Nat]
  BY DEF TypeOK
<1>2. underway'[c] = Older(underway[c]) /\ recent'[c] = Older(recent[c])
  BY DEF Tick
<1>3. MaxDelay \in Nat /\ Window \in Nat
  BY MaxDelayAssumption, WindowAssumption
<1>4. /\ Older(underway[c]) \in [Ages -> Nat] /\ Older(underway[c])[0] = 0
      /\ \A a \in Ages : a # 0 => a - 1 \in Ages /\ Older(underway[c])[a] = underway[c][a - 1]
  BY <1>1, <1>3, OlderTypes DEF Ages
<1>5. /\ Older(recent[c]) \in [Ticks -> Nat] /\ Older(recent[c])[0] = 0
      /\ \A n \in Ticks : n # 0 => n - 1 \in Ticks /\ Older(recent[c])[n] = recent[c][n - 1]
  BY <1>1, <1>3, OlderTypes DEF Ticks
<1> QED BY <1>2, <1>4, <1>5

LEMMA NextTypeOK == TypeOK /\ Cumulative /\ [Next]_vars => TypeOK'
<1> SUFFICES ASSUME TypeOK, Cumulative, [Next]_vars
             PROVE  TypeOK'
  OBVIOUS
<1>1. ASSUME NEW c \in Clients, Request(c) PROVE TypeOK'
  <2>1. count' \in [Clients -> 0..(MaxRequests + 1)] /\ ttl' \in [Clients -> 0..Window]
    BY <1>1, ExecutedTypes DEF Request
  <2>2. /\ underway' \in [Clients -> [Ages -> Nat]] /\ granted' \in [Clients -> Nat]
        /\ refused' \in [Clients -> BOOLEAN]
    <3>1. Answered(c, Incremented(count[c]))
      BY <1>1 DEF Request
    <3>2. CASE UNCHANGED <<underway, granted>>
      BY <3>1, <3>2 DEF TypeOK, Answered
    <3>3. CASE granted' = [granted EXCEPT ![c] = @ + 1] /\ UNCHANGED refused
      <4>1. granted' \in [Clients -> Nat]
        BY <3>3 DEF TypeOK
      <4>2. underway' \in [Clients -> [Ages -> Nat]]
        BY <3>1, AnsweredSteps DEF TypeOK
      <4> QED BY <3>3, <4>1, <4>2 DEF TypeOK
    <3> QED BY <3>1, <3>2, <3>3 DEF Answered
  <2> QED BY <1>1, <2>1, <2>2 DEF TypeOK, Request
<1>2. ASSUME NEW c \in Clients, Arrive(c) PROVE TypeOK'
  BY <1>2, ArrivesSteps DEF TypeOK, Arrive, Arrives
<1>3. ASSUME NEW c \in Clients, EvalFails(c) PROVE TypeOK'
  BY <1>3, ExecutedTypes DEF TypeOK, EvalFails
<1>4. CASE Tick
  <2>1. underway' \in [Clients -> [Ages -> Nat]] /\ recent' \in [Clients -> [Ticks -> Nat]]
    <3>1. underway' = [c \in Clients |-> Older(underway[c])]
          /\ recent' = [c \in Clients |-> Older(recent[c])]
      BY <1>4 DEF Tick
    <3>2. \A c \in Clients : Older(underway[c]) \in [Ages -> Nat] /\ Older(recent[c]) \in [Ticks -> Nat]
      BY <1>4, TickSteps
    <3> QED BY <3>1, <3>2
  <2>2. ttl' \in [Clients -> 0..Window]
    <3>1. \A c \in Clients : (IF ttl[c] > 0 THEN ttl[c] - 1 ELSE 0) \in 0..Window
      BY WindowAssumption DEF TypeOK
    <3> QED BY <1>4, <3>1 DEF Tick
  <2>3. count' \in [Clients -> 0..(MaxRequests + 1)]
    BY <1>4, MaxRequestsAssumption DEF TypeOK, Tick
  <2> QED BY <1>4, <2>1, <2>2, <2>3 DEF TypeOK, Tick
<1>5. CASE UNCHANGED vars
  BY <1>5 DEF TypeOK, vars
<1> QED BY <1>1, <1>2, <1>3, <1>4, <1>5 DEF Next

\* A step about one client leaves the numbers of the others alone.
LEMMA OthersStay ==
    ASSUME TypeOK, NEW c \in Clients, NEW d \in Clients, d # c,
           Request(d) \/ Arrive(d) \/ EvalFails(d)
    PROVE  /\ count'[c] = count[c] /\ ttl'[c] = ttl[c] /\ underway'[c] = underway[c]
           /\ granted'[c] = granted[c] /\ refused'[c] = refused[c] /\ recent'[c] = recent[c]
BY DEF TypeOK, Request, Arrive, Arrives, EvalFails, Executed, Answered

LEMMA NextCumulative == TypeOK /\ Cumulative /\ [Next]_vars => Cumulative'
<1> SUFFICES ASSUME TypeOK, Cumulative, [Next]_vars, NEW c \in Clients,
                    NEW a \in Ages, NEW b \in Ages, a <= b
             PROVE  underway'[c][a] <= underway'[c][b]
  BY DEF Cumulative
<1>1. /\ underway[c][a] \in Nat /\ underway[c][b] \in Nat /\ underway[c][a] <= underway[c][b]
      /\ a \in Nat /\ b \in Nat
  BY MaxDelayAssumption DEF TypeOK, Cumulative, Ages
<1>2. ASSUME NEW d \in Clients, d # c, Request(d) \/ Arrive(d) \/ EvalFails(d)
      PROVE  underway'[c][a] <= underway'[c][b]
  BY <1>1, <1>2, OthersStay
<1>3. CASE Request(c)
  BY <1>1, <1>3, AnsweredSteps DEF Request
<1>4. CASE Arrive(c)
  <2>1. PICK e \in Ages : Arrives(c, e)
    BY <1>4 DEF Arrive
  <2>2. e \in Nat /\ underway[c][e] \in Nat
    BY MaxDelayAssumption DEF Ages, TypeOK
  <2>3. CASE b < e
    BY <1>1, <2>1, <2>2, <2>3, ArrivesSteps
  <2>4. CASE a < e /\ e <= b
    <3>1. underway[c][a] < underway[c][e] /\ underway[c][e] <= underway[c][b]
      BY <2>1, <2>4, ArrivesSteps DEF Cumulative
    <3>2. underway'[c][a] = underway[c][a] /\ underway'[c][b] = underway[c][b] - 1
      BY <1>1, <2>1, <2>2, <2>4, ArrivesSteps
    <3> QED BY <1>1, <2>2, <3>1, <3>2
  <2>5. CASE e <= a
    <3>1. underway'[c][a] = underway[c][a] - 1 /\ underway'[c][b] = underway[c][b] - 1
      BY <1>1, <2>1, <2>2, <2>5, ArrivesSteps
    <3> QED BY <1>1, <3>1
  <2> QED BY <1>1, <2>2, <2>3, <2>4, <2>5
<1>5. CASE EvalFails(c)
  BY <1>1, <1>5 DEF EvalFails
<1>6. CASE Tick
  <2>1. CASE a = 0
    <3>1. underway'[c][a] = 0 /\ underway'[c][b] \in Nat
      BY <1>6, <2>1, TickSteps
    <3> QED BY <3>1
  <2>2. CASE a # 0
    <3>1. /\ a - 1 \in Ages /\ underway'[c][a] = underway[c][a - 1]
          /\ b - 1 \in Ages /\ underway'[c][b] = underway[c][b - 1]
          /\ a - 1 <= b - 1
      BY <1>1, <1>6, <2>2, TickSteps
    <3> QED BY <3>1 DEF Cumulative
  <2> QED BY <2>1, <2>2
<1>7. CASE UNCHANGED vars
  BY <1>1, <1>7 DEF vars
<1> QED BY <1>2, <1>3, <1>4, <1>5, <1>6, <1>7 DEF Next

LEMMA Types == Spec => [](TypeOK /\ Cumulative)
BY InitTypeOK, NextTypeOK, NextCumulative, PTL DEF Spec

\* The variables of the rate limiter's model keep their types.
THEOREM TypeCorrect == Spec => []TypeOK
BY Types, PTL

-----------------------------------------------------------------------------
(* What was granted against what was counted *)

\* The request that counts n is granted exactly if n is within the limit; each answer
\* that is lost may have cost one.
Agrees(c) ==
    /\ count[c] > 0 <=> ttl[c] > 0
    /\ granted[c] <= MaxRequests /\ granted[c] <= count[c]
    /\ (IF count[c] > MaxRequests THEN MaxRequests ELSE count[c]) <= granted[c] + spent
    /\ refused[c] => count[c] > MaxRequests

Agreement == \A c \in Clients : Agrees(c)

LEMMA NextAgreement == TypeOK /\ Agreement /\ [Next]_vars => Agreement'
<1> SUFFICES ASSUME TypeOK, Agreement, [Next]_vars, NEW c \in Clients
             PROVE  Agrees(c)'
  BY DEF Agreement
<1> USE MaxRequestsAssumption, WindowAssumption
<1>t. /\ count[c] \in 0..(MaxRequests + 1) /\ ttl[c] \in 0..Window
      /\ granted[c] \in Nat /\ refused[c] \in BOOLEAN /\ spent \in Nat /\ Agrees(c)
  BY DEF TypeOK, Agreement
<1>1. ASSUME NEW d \in Clients, d # c, Request(d) \/ Arrive(d) \/ EvalFails(d)
      PROVE  Agrees(c)'
  <2>1. /\ count'[c] = count[c] /\ ttl'[c] = ttl[c]
        /\ granted'[c] = granted[c] /\ refused'[c] = refused[c]
    BY <1>1, OthersStay
  <2>2. spent' = spent \/ spent' = spent + 1
    BY <1>1 DEF Request, Arrive, Arrives, EvalFails
  <2> QED BY <1>t, <2>1, <2>2 DEF Agrees
<1>2. CASE Request(c)
  <2>1. /\ count'[c] = Incremented(count[c]) /\ ttl'[c] = TimeToLive(count[c], ttl[c])
        /\ spent' = spent /\ Answered(c, Incremented(count[c]))
    BY <1>2 DEF TypeOK, Request, Executed
  <2>2. CASE OverLimit(Incremented(count[c]))
    <3>1. granted'[c] = granted[c] /\ refused'[c] = TRUE
      BY <2>1, <2>2 DEF TypeOK, Answered
    <3> QED BY <1>t, <2>1, <2>2, <3>1 DEF Agrees, OverLimit, Incremented, TimeToLive
  <2>3. CASE ~OverLimit(Incremented(count[c]))
    <3>1. granted'[c] = granted[c] + 1 /\ refused'[c] = refused[c]
      BY <2>1, <2>3 DEF TypeOK, Answered
    <3> QED BY <1>t, <2>1, <2>3, <3>1 DEF Agrees, OverLimit, Incremented, TimeToLive
  <2> QED BY <2>2, <2>3
<1>3. CASE EvalFails(c)
  <2>1. spent' = spent + 1 /\ granted'[c] = granted[c] /\ refused'[c] = refused[c]
    BY <1>3 DEF EvalFails
  <2>2. \/ count'[c] = count[c] /\ ttl'[c] = ttl[c]
        \/ count'[c] = Incremented(count[c]) /\ ttl'[c] = TimeToLive(count[c], ttl[c])
    BY <1>3 DEF TypeOK, EvalFails, Executed
  <2> QED BY <1>t, <2>1, <2>2 DEF Agrees, Incremented, TimeToLive
<1>4. CASE Arrive(c)
  BY <1>t, <1>4 DEF Agrees, Arrive, Arrives
<1>5. CASE Tick
  <2>1. CASE ttl[c] = 1
    BY <1>5, <1>t, <2>1 DEF Tick, Agrees
  <2>2. CASE ttl[c] # 1
    BY <1>5, <1>t, <2>2 DEF Tick, Agrees
  <2> QED BY <2>1, <2>2
<1>6. CASE UNCHANGED vars
  BY <1>6, <1>t DEF Agrees, vars
<1> QED BY <1>1, <1>2, <1>3, <1>4, <1>5, <1>6 DEF Next

LEMMA InvariantAgreement == Spec => [](TypeOK /\ Cumulative /\ Agreement)
<1>1. Init => Agreement
  <2> SUFFICES ASSUME Init, NEW c \in Clients
               PROVE  Agrees(c)
    BY DEF Agreement
  <2>1. count[c] = 0 /\ ttl[c] = 0 /\ granted[c] = 0 /\ refused[c] = FALSE /\ spent = 0
    BY DEF Init
  <2> QED BY <2>1, MaxRequestsAssumption DEF Agrees
<1> QED BY <1>1, InitTypeOK, NextTypeOK, NextCumulative, NextAgreement, PTL DEF Spec

\* A counter always has an expiry.
THEOREM CountersExpireCorrect == Spec => []CountersExpire
<1>1. Agreement => CountersExpire
  BY DEF Agreement, Agrees, CountersExpire
<1> QED BY <1>1, InvariantAgreement, PTL

\* No more than the limit is granted of what one window counts.
THEOREM QuotaIsKeptCorrect == Spec => []QuotaIsKept
<1>1. Agreement => QuotaIsKept
  BY DEF Agreement, Agrees, QuotaIsKept
<1> QED BY <1>1, InvariantAgreement, PTL

\* Nobody is refused before the whole limit was granted, but for the answers lost.
THEOREM RefusedForCauseOnlyCorrect == Spec => []RefusedForCauseOnly
<1>1. TypeOK /\ Agreement => RefusedForCauseOnly
  BY MaxRequestsAssumption DEF TypeOK, Agreement, Agrees, RefusedForCauseOnly
<1> QED BY <1>1, InvariantAgreement, PTL

-----------------------------------------------------------------------------
(* What was let through against what was granted *)

\* Ticks since the counter of c was created; what is older belongs to windows before.
Age(c) == IF ttl[c] > 0 THEN Window - ttl[c] ELSE 0

\* A stretch of time that reaches k windows further back than the creation of the key
\* holds what was granted since then and k quotas, whether under way or let through;
\* what was let through n ticks ago was counted up to MaxDelay ticks before that.
Accounted(c) ==
    \A k \in Nat :
        /\ \A a \in Ages : a <= Age(c) + k * Window =>
              underway[c][a] <= granted[c] + k * MaxRequests
        /\ \A n \in Ticks : n + MaxDelay <= Age(c) + k * Window =>
              recent[c][n] + underway[c][MaxDelay] <= granted[c] + k * MaxRequests

Accounts == \A c \in Clients : Accounted(c)

LEMMA Multiples ==
    ASSUME NEW k \in Nat, NEW m \in Nat
    PROVE  /\ k * m \in Nat
           /\ k = 0 => k * m = 0
           /\ k # 0 => k - 1 \in Nat /\ (k - 1) * m = k * m - m
OBVIOUS

LEMMA OneMoreMultiple ==
    ASSUME NEW k \in Nat, NEW m \in Nat
    PROVE  (1 + k) * m = k * m + m
OBVIOUS

\* The quotient rounded up reaches what was divided.
LEMMA RoundedUp ==
    ASSUME NEW m \in Nat, NEW w \in Nat \ {0}
    PROVE  /\ (m + w - 1) \div w \in Nat
           /\ m <= ((m + w - 1) \div w) * w
OBVIOUS

\* The script leaves the expiry of an existing key alone, and gives a new one a whole
\* window: either way the window is no older after it.
LEMMA AgeStays ==
    ASSUME TypeOK, Agreement, NEW c \in Clients, Executed(c) \/ UNCHANGED <<count, ttl>>
    PROVE  Age(c)' = Age(c)
<1> USE MaxRequestsAssumption, WindowAssumption
<1>1. count[c] \in Nat /\ ttl[c] \in Nat /\ (count[c] > 0 <=> ttl[c] > 0)
  BY DEF TypeOK, Agreement, Agrees
<1>2. CASE Executed(c)
  <2>1. ttl'[c] = TimeToLive(count[c], ttl[c])
    BY <1>2 DEF TypeOK, Executed
  <2> QED BY <1>1, <2>1 DEF TimeToLive, Age
<1> QED BY <1>2 DEF Age

\* After a tick, what reaches k windows back reaches the same number of windows back
\* before it, or one less if the key has just expired.
LEMMA TickReaches ==
    ASSUME TypeOK, Agreement, Tick, NEW c \in Clients, NEW k \in Nat
    PROVE  \/ k = 0 /\ Age(c)' = 0
           \/ \E j \in Nat : /\ Age(c)' + k * Window <= Age(c) + j * Window + 1
                             /\ granted[c] + j * MaxRequests <= granted'[c] + k * MaxRequests
<1> USE MaxRequestsAssumption, WindowAssumption
<1>1. /\ ttl[c] \in 0..Window /\ granted[c] \in Nat /\ granted[c] <= MaxRequests
      /\ count[c] \in Nat /\ granted[c] <= count[c] /\ (count[c] > 0 <=> ttl[c] > 0)
  BY DEF TypeOK, Agreement, Agrees
<1>2. /\ ttl'[c] = IF ttl[c] > 0 THEN ttl[c] - 1 ELSE 0
      /\ granted'[c] = IF ttl[c] = 1 THEN 0 ELSE granted[c]
  BY DEF Tick
<1>3. k * Window \in Nat /\ k * MaxRequests \in Nat
  BY Multiples
<1>4. CASE ttl[c] # 1
  <2>1. Age(c)' <= Age(c) + 1 /\ granted'[c] = granted[c] /\ Age(c)' \in Nat /\ Age(c) \in Nat
    BY <1>1, <1>2, <1>4 DEF Age
  <2>2. /\ Age(c)' + k * Window <= Age(c) + k * Window + 1
        /\ granted[c] + k * MaxRequests <= granted'[c] + k * MaxRequests
    BY <1>1, <1>3, <2>1
  <2> QED BY <2>2
<1>5. CASE ttl[c] = 1
  <2>1. Age(c)' = 0 /\ granted'[c] = 0 /\ Age(c) = Window - 1
    BY <1>1, <1>2, <1>5 DEF Age
  <2>2. CASE k # 0
    <3>1. /\ k - 1 \in Nat
          /\ (k - 1) * Window = k * Window - Window
          /\ (k - 1) * MaxRequests = k * MaxRequests - MaxRequests
      BY <2>2, Multiples
    <3>2. /\ Age(c)' + k * Window <= Age(c) + (k - 1) * Window + 1
          /\ granted[c] + (k - 1) * MaxRequests <= granted'[c] + k * MaxRequests
      BY <1>1, <1>3, <2>1, <3>1
    <3> QED BY <3>1, <3>2
  <2> QED BY <2>1, <2>2
<1> QED BY <1>4, <1>5

LEMMA NextAccounts ==
    TypeOK /\ Cumulative /\ Agreement /\ Accounts /\ [Next]_vars => Accounts'
<1> SUFFICES ASSUME TypeOK, Cumulative, Agreement, Accounts, [Next]_vars,
                    NEW c \in Clients, NEW k \in Nat
             PROVE  /\ \A a \in Ages : a <= Age(c)' + k * Window =>
                          underway'[c][a] <= granted'[c] + k * MaxRequests
                    /\ \A n \in Ticks : n + MaxDelay <= Age(c)' + k * Window =>
                          recent'[c][n] + underway'[c][MaxDelay]
                             <= granted'[c] + k * MaxRequests
  BY DEF Accounts, Accounted
<1> USE MaxRequestsAssumption, WindowAssumption, MaxDelayAssumption
<1>t. /\ granted[c] \in Nat /\ MaxDelay \in Ages
      /\ \A a \in Ages : a \in Nat /\ a <= MaxDelay /\ underway[c][a] \in Nat
      /\ \A n \in Ticks : n \in Nat /\ recent[c][n] \in Nat
      /\ Age(c) \in Nat
  BY DEF TypeOK, Ticks, Ages, Age
<1>k. k * Window \in Nat /\ k * MaxRequests \in Nat
  BY Multiples
<1>a. /\ \A a \in Ages : a <= Age(c) + k * Window =>
            underway[c][a] <= granted[c] + k * MaxRequests
      /\ \A n \in Ticks : n + MaxDelay <= Age(c) + k * Window =>
            recent[c][n] + underway[c][MaxDelay] <= granted[c] + k * MaxRequests
  BY DEF Accounts, Accounted
<1> DEFINE far == k * Window
           quotas == k * MaxRequests
<1>1. ASSUME NEW d \in Clients, d # c, Request(d) \/ Arrive(d) \/ EvalFails(d)
      PROVE  /\ Age(c)' = Age(c) /\ granted'[c] = granted[c]
             /\ underway'[c] = underway[c] /\ recent'[c] = recent[c]
  BY <1>1, OthersStay DEF Age
<1>2. ASSUME /\ Age(c)' = Age(c) /\ granted'[c] = granted[c]
             /\ underway'[c] = underway[c] /\ recent'[c] = recent[c]
      PROVE  /\ \A a \in Ages : a <= Age(c)' + far =>
                    underway'[c][a] <= granted'[c] + quotas
             /\ \A n \in Ticks : n + MaxDelay <= Age(c)' + far =>
                    recent'[c][n] + underway'[c][MaxDelay] <= granted'[c] + quotas
  BY <1>a, <1>2
<1>3. CASE Request(c)
  <2>1. Age(c)' = Age(c) /\ recent'[c] = recent[c] /\ Answered(c, Incremented(count[c]))
    BY <1>3, AgeStays DEF Request
  <2>2. CASE UNCHANGED <<underway, granted>>
    BY <1>2, <2>1, <2>2
  <2>3. CASE /\ granted' = [granted EXCEPT ![c] = @ + 1]
             /\ \A a \in Ages : underway'[c][a] = underway[c][a] + 1
    <3>1. granted'[c] = granted[c] + 1
      BY <2>3 DEF TypeOK
    <3> HIDE DEF far, quotas
    <3> SUFFICES /\ \A a \in Ages : a <= Age(c)' + far =>
                       underway'[c][a] <= granted'[c] + quotas
                 /\ \A n \in Ticks : n + MaxDelay <= Age(c)' + far =>
                       recent'[c][n] + underway'[c][MaxDelay] <= granted'[c] + quotas
      BY DEF far, quotas
    <3>2. /\ \A a \in Ages : a <= Age(c) + far => underway[c][a] <= granted[c] + quotas
          /\ \A n \in Ticks : n + MaxDelay <= Age(c) + far =>
                recent[c][n] + underway[c][MaxDelay] <= granted[c] + quotas
          /\ far \in Nat /\ quotas \in Nat
      BY <1>a, <1>k DEF far, quotas
    <3> QED BY <1>t, <2>1, <2>3, <3>1, <3>2
  <2> QED BY <2>1, <2>2, <2>3, AnsweredSteps
<1>4. CASE EvalFails(c)
  <2>1. Age(c)' = Age(c)
    BY <1>4, AgeStays DEF EvalFails
  <2> QED BY <1>2, <1>4, <2>1 DEF EvalFails
<1>5. CASE Arrive(c)
  <2>1. PICK e \in Ages : Arrives(c, e)
    BY <1>5 DEF Arrive
  <2>2. Age(c)' = Age(c) /\ granted'[c] = granted[c]
    BY <2>1 DEF Arrives, Age
  <2>3. \A a \in Ages : underway'[c][a] <= underway[c][a]
    BY <1>t, <2>1, ArrivesSteps
  <2>4. underway'[c][MaxDelay] = underway[c][MaxDelay] - 1
    BY <1>t, <2>1, ArrivesSteps
  <2>5. \A n \in Ticks : recent'[c][n] = recent[c][n] + 1
    BY <2>1, ArrivesSteps
  <2>6. \A a \in Ages : underway'[c][a] \in Nat
    BY <2>1, ArrivesSteps
  <2>7. \A n \in Ticks : recent'[c][n] + underway'[c][MaxDelay]
                            = recent[c][n] + underway[c][MaxDelay]
    BY <1>t, <2>4, <2>5
  <2>8. ASSUME NEW a \in Ages, a <= Age(c) + k * Window
        PROVE  underway'[c][a] <= granted[c] + k * MaxRequests
    <3>1. underway[c][a] <= granted[c] + k * MaxRequests
      BY <1>a, <2>8
    <3> QED BY <1>t, <1>k, <2>3, <2>6, <3>1
  <2> QED BY <1>a, <2>2, <2>7, <2>8
<1>6. CASE Tick
  <2>t. /\ underway'[c] \in [Ages -> Nat] /\ recent'[c] \in [Ticks -> Nat]
        /\ underway'[c][0] = 0 /\ recent'[c][0] = 0
        /\ granted'[c] \in Nat
    BY <1>6, <1>t, TickSteps DEF Tick
  \* No answer is as old as may be, so that none gets too old.
  <2>1. MaxDelay # 0 => /\ MaxDelay - 1 \in Ages
                        /\ underway'[c][MaxDelay] = underway[c][MaxDelay - 1]
                        /\ underway[c][MaxDelay - 1] = underway[c][MaxDelay]
    <3>1. Aged(c, MaxDelay) = 0
      BY <1>6 DEF Tick
    <3>2. MaxDelay # 0 => /\ MaxDelay - 1 \in Ages
                          /\ underway'[c][MaxDelay] = underway[c][MaxDelay - 1]
      BY <1>6, <1>t, TickSteps
    <3> QED BY <1>t, <3>1, <3>2 DEF Aged
  <2>2. CASE k = 0 /\ Age(c)' = 0
    <3>1. k * Window = 0 /\ k * MaxRequests = 0
      BY <2>2, Multiples
    <3>2. \A a \in Ages : a <= 0 => a = 0
      BY <1>t
    <3>3. \A n \in Ticks : n + MaxDelay <= 0 => n = 0 /\ MaxDelay = 0
      BY <1>t
    <3> QED BY <2>t, <2>2, <3>1, <3>2, <3>3
  <2>3. ASSUME NEW j \in Nat,
               Age(c)' + k * Window <= Age(c) + j * Window + 1,
               granted[c] + j * MaxRequests <= granted'[c] + k * MaxRequests
        PROVE  /\ \A a \in Ages : a <= Age(c)' + far =>
                      underway'[c][a] <= granted'[c] + quotas
               /\ \A n \in Ticks : n + MaxDelay <= Age(c)' + far =>
                      recent'[c][n] + underway'[c][MaxDelay] <= granted'[c] + quotas
    <3> DEFINE before == Age(c) + j * Window
               old == granted[c] + j * MaxRequests
               after == Age(c)' + far
               new == granted'[c] + quotas
    <3>1. /\ before \in Nat /\ old \in Nat /\ new \in Nat /\ old <= new
          /\ after \in Nat /\ after <= before + 1
      <4>1. Age(c)' \in Nat
        BY <1>6, <1>t DEF TypeOK, Tick, Age
      <4>2. j * Window \in Nat /\ j * MaxRequests \in Nat
        BY Multiples
      <4> QED BY <1>t, <1>k, <2>t, <2>3, <4>1, <4>2
    <3>2. /\ \A a \in Ages : a <= before => underway[c][a] <= old
          /\ \A n \in Ticks : n + MaxDelay <= before =>
                recent[c][n] + underway[c][MaxDelay] <= old
      BY DEF Accounts, Accounted
    <3> HIDE DEF before, old, after, new
    <3>3. ASSUME NEW a \in Ages, a <= after PROVE underway'[c][a] <= new
      <4>1. CASE a = 0
        BY <2>t, <3>1, <4>1
      <4>2. CASE a # 0
        <5>1. a - 1 \in Ages /\ underway'[c][a] = underway[c][a - 1]
          BY <1>6, <4>2, TickSteps
        <5>2. a - 1 <= before
          BY <1>t, <3>1, <3>3
        <5>3. underway[c][a - 1] <= old
          BY <3>2, <5>1, <5>2
        <5>4. underway[c][a - 1] \in Nat
          BY <1>t, <5>1
        <5> QED BY <3>1, <5>1, <5>3, <5>4
      <4> QED BY <4>1, <4>2
    <3>4. ASSUME NEW n \in Ticks, n + MaxDelay <= after
          PROVE  recent'[c][n] + underway'[c][MaxDelay] <= new
      <4>1. CASE n = 0
        <5>1. underway'[c][MaxDelay] <= new
          BY <1>t, <3>1, <3>3, <3>4
        <5> QED BY <1>t, <2>t, <4>1, <5>1
      <4>2. CASE n # 0
        <5>1. n - 1 \in Ticks /\ recent'[c][n] = recent[c][n - 1]
          BY <1>6, <4>2, TickSteps
        <5>2. n - 1 + MaxDelay <= before
          BY <1>t, <3>1, <3>4
        <5>3. recent[c][n - 1] + underway[c][MaxDelay] <= old
          BY <3>2, <5>1, <5>2
        <5>4. underway'[c][MaxDelay] <= underway[c][MaxDelay]
          BY <1>t, <2>t, <2>1
        <5>5. underway'[c][MaxDelay] \in Nat
          BY <1>t, <2>t
        <5> QED BY <1>t, <3>1, <5>1, <5>3, <5>4, <5>5
      <4> QED BY <4>1, <4>2
    <3> QED BY <3>3, <3>4 DEF after, new
  <2> QED BY <1>6, <2>2, <2>3, TickReaches
<1>7. CASE UNCHANGED vars
  BY <1>2, <1>7 DEF vars, Age
<1> QED BY <1>1, <1>2, <1>3, <1>4, <1>5, <1>6, <1>7 DEF Next

\* However late the answers are: in any time as long as a window no client gets more
\* than two quotas through, and one more for each window's length, or part of one, that
\* an answer may take (middleware/rateLimiter.js:55, 61-64), at any limit, window,
\* delay and number of faults.
THEOREM BurstsAreBoundedCorrect == Spec => []BurstsAreBounded
<1> USE MaxRequestsAssumption, WindowAssumption, MaxDelayAssumption
<1>1. Init => Accounts
  <2> SUFFICES ASSUME Init, NEW c \in Clients, NEW k \in Nat
               PROVE  /\ \A a \in Ages : underway[c][a] <= granted[c] + k * MaxRequests
                      /\ \A n \in Ticks :
                            recent[c][n] + underway[c][MaxDelay] <= granted[c] + k * MaxRequests
    BY DEF Accounts, Accounted
  <2>1. /\ granted[c] = 0 /\ MaxDelay \in Ages
        /\ \A a \in Ages : underway[c][a] = 0
        /\ \A n \in Ticks : recent[c][n] = 0
    BY DEF Init, Ages
  <2>2. k * MaxRequests \in Nat
    BY Multiples
  <2> QED BY <2>1, <2>2
<1>2. TypeOK /\ Agreement /\ Accounts => BurstsAreBounded
  <2> SUFFICES ASSUME TypeOK, Agreement, Accounts, NEW c \in Clients, NEW n \in Ticks
               PROVE  recent[c][n] <= WindowsAtOnce * MaxRequests
    BY DEF BurstsAreBounded
  <2> DEFINE late == (MaxDelay + Window - 1) \div Window
             k == 1 + late
  <2>1. late \in Nat /\ MaxDelay <= late * Window
    BY RoundedUp
  <2>2. k \in Nat /\ k * Window = late * Window + Window
    BY <2>1, OneMoreMultiple
  <2>3. /\ Age(c) \in Nat /\ n <= Window /\ n \in Nat
        /\ recent[c][n] \in Nat /\ underway[c][MaxDelay] \in Nat
        /\ granted[c] \in Nat /\ granted[c] <= MaxRequests
    <3>1. MaxDelay \in Ages /\ n <= Window /\ n \in Nat
      BY DEF Ages, Ticks
    <3>2. ttl[c] \in 0..Window /\ granted[c] \in Nat /\ granted[c] <= MaxRequests
      BY DEF TypeOK, Agreement, Agrees
    <3>3. recent[c][n] \in Nat /\ underway[c][MaxDelay] \in Nat
      BY <3>1 DEF TypeOK
    <3>4. Age(c) \in Nat
      BY <3>2 DEF Age
    <3> QED BY <3>1, <3>2, <3>3, <3>4
  <2>4. late * Window \in Nat /\ k * MaxRequests \in Nat
    BY <2>1, <2>2, Multiples
  <2>5. n + MaxDelay <= Age(c) + k * Window
    <3> HIDE DEF late, k
    <3> QED BY <2>1, <2>2, <2>3, <2>4
  <2>6. recent[c][n] + underway[c][MaxDelay] <= granted[c] + k * MaxRequests
    <3> HIDE DEF k
    <3> QED BY <2>2, <2>5 DEF Accounts, Accounted
  <2>7. WindowsAtOnce * MaxRequests = k * MaxRequests + MaxRequests
    <3>1. WindowsAtOnce = 1 + k
      BY <2>1 DEF WindowsAtOnce
    <3> HIDE DEF k
    <3> QED BY <2>2, <3>1, OneMoreMultiple
  <2> HIDE DEF k
  <2> QED BY <2>3, <2>4, <2>6, <2>7
<1> QED BY <1>1, <1>2, InvariantAgreement, NextAccounts, PTL DEF Spec
=============================================================================
