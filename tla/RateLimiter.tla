----------------------------- MODULE RateLimiter ----------------------------
(***************************************************************************)
(* The rate limiter that every API process runs in front of its routes in  *)
(* production: middleware/rateLimiter.js:40-74, a counter per address in   *)
(* Redis.  The script runs as one step of Redis, whichever process sent    *)
(* it, so the processes need not be told apart.  Its answer is a message:  *)
(* next() runs when it arrives, and until then anything else may happen.   *)
(* Time passes in ticks, of which a window has Window.                     *)
(***************************************************************************)
EXTENDS Integers

CONSTANTS
    Clients,            \* addresses, req.ip
    MaxRequests,        \* RATE_LIMIT_MAX_REQUESTS: 20
    Window,             \* RATE_LIMIT_WINDOW_MS, in ticks
    MaxDelay,           \* bound: ticks between the script and next()
    MaxRedisFaults      \* bound: calls of eval whose answer is lost

ASSUME MaxRequestsAssumption == MaxRequests \in Nat \ {0}
ASSUME WindowAssumption == Window \in Nat \ {0}
ASSUME MaxDelayAssumption == MaxDelay \in Nat
ASSUME MaxRedisFaultsAssumption == MaxRedisFaults \in Nat

VARIABLES
    count,              \* the counters; 0: the key does not exist
    ttl,                \* ticks until the key expires; 0: it does not exist or never does
    underway,           \* answers within the limit that have not arrived, by their ages
    granted,            \* history: requests counted within the limit since the key was created
    refused,            \* history: whether one was counted over it since then
    recent,             \* history: requests let through in this tick and the n before it
    spent               \* history: answers that were lost

vars == <<count, ttl, underway, granted, refused, recent, spent>>

\* Any time as long as a window lies within a tick and the Window before it.
Ticks == 0..Window

\* Ages of answers: underway[c][a] are those the script gave at most a ticks ago.
Ages == 0..MaxDelay

TypeOK ==
    /\ count \in [Clients -> 0..(MaxRequests + 1)]
    /\ ttl \in [Clients -> 0..Window]
    /\ underway \in [Clients -> [Ages -> Nat]]
    /\ granted \in [Clients -> Nat]
    /\ refused \in [Clients -> BOOLEAN]
    /\ recent \in [Clients -> [Ticks -> Nat]]
    /\ spent \in Nat

Init ==
    /\ count = [c \in Clients |-> 0]
    /\ ttl = [c \in Clients |-> 0]
    /\ underway = [c \in Clients |-> [a \in Ages |-> 0]]
    /\ granted = [c \in Clients |-> 0]
    /\ refused = [c \in Clients |-> FALSE]
    /\ recent = [c \in Clients |-> [n \in Ticks |-> 0]]
    /\ spent = 0

\* Numbers kept by age: one that is new counts at every age, and all grow older.
OneMore(f) == [n \in DOMAIN f |-> f[n] + 1]

Older(f) == [n \in DOMAIN f |-> IF n = 0 THEN 0 ELSE f[n - 1]]

-----------------------------------------------------------------------------
(* The script *)

\* INCR.  Nothing depends on how far the counter is beyond the limit.
Incremented(n) == IF n > MaxRequests THEN n ELSE n + 1

\* Mutants of TimeToLive, the ttl after a request that found the counter at n: the
\* window is given in a smaller unit; each request starts it anew.
TimeToLiveTooShort(n, old) == IF n = 0 THEN 1 ELSE old

TimeToLiveRenewed(n, old) == Window

\* PEXPIRE if INCR answered 1.
TimeToLive(n, old) == IF n = 0 THEN Window ELSE old

\* The script ran for c.
Executed(c) ==
    /\ count' = [count EXCEPT ![c] = Incremented(@)]
    /\ ttl' = [ttl EXCEPT ![c] = TimeToLive(count[c], @)]

-----------------------------------------------------------------------------
(* One request *)

\* Mutants of OverLimit: one request too few, one too many.
OverLimitEarly(n) == n >= MaxRequests

OverLimitLate(n) == n > MaxRequests + 1

OverLimit(n) == n > MaxRequests

\* The count decides what becomes of the request when the answer arrives.  A 429
\* changes nothing here, whenever it is sent.
Answered(c, counted) ==
    IF OverLimit(counted)
    THEN refused' = [refused EXCEPT ![c] = TRUE] /\ UNCHANGED <<underway, granted>>
    ELSE /\ underway' = [underway EXCEPT ![c] = OneMore(@)]
         /\ granted' = [granted EXCEPT ![c] = @ + 1]
         /\ UNCHANGED refused

\* eval: the script runs, and its answer is under way.
Request(c) ==
    /\ Executed(c)
    /\ Answered(c, Incremented(count[c]))
    /\ UNCHANGED <<recent, spent>>

\* Answers for c that are a ticks old.
Aged(c, a) == underway[c][a] - (IF a = 0 THEN 0 ELSE underway[c][a - 1])

\* An answer within the limit arrives, next to any others: next().
Arrives(c, a) ==
    /\ Aged(c, a) > 0
    /\ underway' = [underway EXCEPT ![c] =
                      [b \in Ages |-> IF b < a THEN underway[c][b] ELSE underway[c][b] - 1]]
    /\ recent' = [recent EXCEPT ![c] = OneMore(@)]
    /\ UNCHANGED <<count, ttl, granted, refused, spent>>

\* eval rejects (503), or its process is gone before the answer: whether the script ran
\* or not, the request is not let through.  A script that ioredis sends again after a
\* broken connection (maxRetriesPerRequest: 1) is one that failed and one that did not.
EvalFails(c) ==
    /\ spent < MaxRedisFaults
    /\ spent' = spent + 1
    /\ Executed(c) \/ UNCHANGED <<count, ttl>>
    /\ UNCHANGED <<underway, granted, refused, recent>>

-----------------------------------------------------------------------------
\* A tick passes; keys whose time is up are gone, and with them the window.  No answer
\* takes more than MaxDelay of them.
Tick ==
    /\ \A c \in Clients : Aged(c, MaxDelay) = 0
    /\ ttl' = [c \in Clients |-> IF ttl[c] > 0 THEN ttl[c] - 1 ELSE 0]
    /\ count' = [c \in Clients |-> IF ttl[c] = 1 THEN 0 ELSE count[c]]
    /\ granted' = [c \in Clients |-> IF ttl[c] = 1 THEN 0 ELSE granted[c]]
    /\ refused' = [c \in Clients |-> IF ttl[c] = 1 THEN FALSE ELSE refused[c]]
    /\ underway' = [c \in Clients |-> Older(underway[c])]
    /\ recent' = [c \in Clients |-> Older(recent[c])]
    /\ UNCHANGED spent

Arrive(c) == \E a \in Ages : Arrives(c, a)

Next ==
    \/ \E c \in Clients : Request(c) \/ Arrive(c) \/ EvalFails(c)
    \/ Tick

Spec == Init /\ [][Next]_vars

\* Time passes and answers arrive, however busy the clients are.
FairSpec == Spec /\ WF_vars(Tick) /\ \A c \in Clients : WF_vars(Arrive(c))

-----------------------------------------------------------------------------
(* Safety *)

\* A counter always has an expiry, also when the call that created it failed: the
\* PEXPIRE is part of the script (lines 46-52), else a client would be shut out for
\* ever by a crash between the two commands.
CountersExpire == \A c \in Clients : count[c] > 0 <=> ttl[c] > 0

\* Of the requests counted since its key was created a client gets no more through
\* than the limit, however many processes it asks and whatever becomes of the answers.
QuotaIsKept == \A c \in Clients : granted[c] <= MaxRequests

\* Windows that may begin, end or lie in a window's length, seen from next().
WindowsAtOnce == 2 + (MaxDelay + Window - 1) \div Window

\* Fixed windows let more than the limit through around the boundary of two, and more
\* again for answers that come late: a quota counted long ago and the quotas of the
\* windows after it may reach next() together (line 55 against line 64).  In any time as
\* long as a window no more than two quotas pass, and one more for each window's length,
\* or part of one, that an answer may take.
BurstsAreBounded ==
    \A c \in Clients, n \in Ticks : recent[c][n] <= WindowsAtOnce * MaxRequests

\* Nobody is refused before the whole limit was granted in the same window, except for
\* the requests whose answers were lost: each of these costs one request at most.
RefusedForCauseOnly ==
    \A c \in Clients : refused[c] => granted[c] + spent >= MaxRequests

-----------------------------------------------------------------------------
(* Liveness, under FairSpec *)

\* A client that was refused is let in again, even if it never stops asking: only
\* the first request of a window sets the expiry (line 48).
RefusalEnds == \A c \in Clients : refused[c] ~> ~refused[c] /\ count[c] = 0
=============================================================================
