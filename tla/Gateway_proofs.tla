--------------------------- MODULE Gateway_proofs ---------------------------
(***************************************************************************)
(* Proofs about RateLimiter and Gateway, for every number of requests and  *)
(* every size of log.  The limiter comes first, on its own; the handlers   *)
(* use it as it is specified, so its theorems hold in the gateway.  Then   *)
(* the client, which is connected once, and the audit log.                 *)
(***************************************************************************)
EXTENDS Gateway, FiniteSetTheorems, TLAPS

(***************************************************************************)
(* The rate limiter on its own.                                            *)
(***************************************************************************)

\* The length of an interval.
LEMMA Span ==
  ASSUME NEW a \in Nat, NEW b \in Nat, a <= b + 1
  PROVE  IsFiniteSet(a .. b) /\ Cardinality(a .. b) = b - a + 1
<1>1. a \in Int /\ b \in Int
  OBVIOUS
<1>2. IsFiniteSet(a .. b) /\ Cardinality(a .. b) = IF a > b THEN 0 ELSE b - a + 1
  BY <1>1, FS_Interval
<1>3. CASE a > b
  <2>1. b - a + 1 = 0
    BY <1>3
  <2> QED
    BY <1>2, <1>3, <2>1
<1>4. CASE ~(a > b)
  BY <1>2, <1>4
<1> QED
  BY <1>3, <1>4

\* What is in a list of times is a time.
LEMMA Element == ASSUME NEW s \in Seq(Nat), NEW i \in 1 .. Len(s) PROVE s[i] \in Nat
OBVIOUS

\* The requests still in the window are among the latest: with n granted in
\* all, there is room for one more exactly when the request MaxRequests
\* places from the end has expired, or was never made.
LEMMA Room ==
  ASSUME RateIInv, NEW c \in Callers,
         NEW n \in Nat, n = Len(granted[c])
  PROVE  /\ Recent(c) \subseteq 1 .. n
         /\ n < MaxRequests => HasRoom(c)
         /\ n >= MaxRequests =>
              /\ HasRoom(c) <=> granted[c][n - MaxRequests + 1] + Window <= now
              /\ HasRoom(c) <=> n - MaxRequests + 1 \notin Recent(c)
              /\ \A i \in Recent(c) : i >= n - MaxRequests + 1
<1> USE RateAssumption
<1>1. /\ now \in Nat /\ MaxRequests \in Nat \ {0} /\ Window \in Nat
      /\ granted[c] \in Seq(Nat)
      /\ \A i \in 1 .. n : granted[c][i] \in Nat
  BY DEF RateIInv, RateTypeOK
<1>2. Recent(c) = {i \in 1 .. n : granted[c][i] + Window > now}
  <2>1. requests[c] \subseteq 1 .. n
    BY DEF RateIInv, Remembered
  <2>2. \A i \in 1 .. n : i \notin requests[c] => granted[c][i] + Window <= now
    BY DEF RateIInv, Remembered
  <2> QED
    BY <1>1, <2>1, <2>2 DEF Recent
<1>3. \A i, j \in 1 .. n : i <= j => granted[c][i] <= granted[c][j]
  BY DEF RateIInv, Ordered
<1>4. IsFiniteSet(1 .. n) /\ Cardinality(1 .. n) = n
  <2>1. 1 \in Nat /\ 1 <= n + 1 /\ n - 1 + 1 = n
    BY <1>1
  <2> QED
    BY <1>1, <2>1, Span
<1>5. IsFiniteSet(Recent(c)) /\ Cardinality(Recent(c)) \in Nat /\ Cardinality(Recent(c)) <= n
  <2>1. Recent(c) \subseteq 1 .. n
    BY <1>2
  <2> QED
    BY <1>4, <2>1, FS_Subset, FS_CardinalityType
<1>6. ASSUME n < MaxRequests PROVE HasRoom(c)
  BY <1>1, <1>5, <1>6 DEF HasRoom
<1>n. now \in Nat /\ Window \in Nat /\ MaxRequests \in Nat \ {0}
  BY <1>1
<1>7. ASSUME n >= MaxRequests, NEW o \in Nat, o = n - MaxRequests + 1
      PROVE  /\ HasRoom(c) <=> granted[c][o] + Window <= now
             /\ HasRoom(c) <=> o \notin Recent(c)
             /\ \A i \in Recent(c) : i >= o
  <2>1. /\ o \in 1 .. n /\ o + 1 \in Nat
        /\ n - o + 1 = MaxRequests /\ n - (o + 1) + 1 = MaxRequests - 1
        /\ o <= n + 1 /\ o + 1 <= n + 1
    BY <1>n, <1>7
  <2>2. o \in Recent(c) <=> ~(granted[c][o] + Window <= now)
    BY <1>1, <1>2, <2>1
  <2>3. ASSUME o \in Recent(c) PROVE ~HasRoom(c)
    <3>1. o .. n \subseteq Recent(c)
      <4> SUFFICES ASSUME NEW i \in o .. n PROVE granted[c][i] + Window > now /\ i \in 1 .. n
        BY <1>2
      <4>1. i \in 1 .. n /\ o <= i
        BY <2>1
      <4>a. granted[c][i] \in Nat /\ granted[c][o] \in Nat
        BY <1>1, <2>1, <4>1, Zenon
      <4>2. granted[c][o] <= granted[c][i]
        BY <1>3, <2>1, <4>1
      <4>3. now \in Nat /\ Window \in Nat /\ ~(granted[c][o] + Window <= now)
        BY <1>n, <2>2, <2>3, Zenon
      <4>4. ASSUME NEW x \in Nat, NEW y \in Nat, x <= y, ~(x + Window <= now)
            PROVE  y + Window > now
        BY ONLY <4>3, <4>4
      <4>5. granted[c][i] + Window > now
        BY <4>2, <4>3, <4>4, <4>a, Zenon
      <4> QED
        BY <4>1, <4>5
    <3>2. Cardinality(o .. n) = MaxRequests
      BY <1>1, <2>1, Span
    <3>3. Cardinality(o .. n) <= Cardinality(Recent(c))
      BY <1>5, <3>1, FS_Subset
    <3> QED
      BY <1>5, <3>2, <3>3 DEF HasRoom
  <2>4. ASSUME o \notin Recent(c) PROVE HasRoom(c)
    <3>1. Recent(c) \subseteq o + 1 .. n
      <4> SUFFICES ASSUME NEW i \in Recent(c), i <= o PROVE FALSE
        BY <1>1, <1>2, <2>1
      <4>1. i \in 1 .. n /\ granted[c][i] + Window > now
        BY <1>2
      <4>a. granted[c][i] \in Nat /\ granted[c][o] \in Nat
        BY <1>1, <2>1, <4>1, Zenon
      <4>2. granted[c][i] <= granted[c][o]
        BY <1>3, <2>1, <4>1
      <4>3. ~(granted[c][o] + Window > now)
        BY <1>n, <1>2, <2>1, <2>4
      <4>4. now \in Nat /\ Window \in Nat
        BY <1>n
      <4> QED
        BY <4>1, <4>2, <4>3, <4>4, <4>a
    <3>2. Cardinality(o + 1 .. n) = MaxRequests - 1 /\ IsFiniteSet(o + 1 .. n)
      BY <1>1, <2>1, Span
    <3>3. Cardinality(Recent(c)) <= Cardinality(o + 1 .. n)
      BY <3>1, <3>2, FS_Subset
    <3> QED
      BY <1>5, <3>2, <3>3 DEF HasRoom
  <2>5. \A i \in Recent(c) : i >= o
    <3> SUFFICES ASSUME NEW i \in Recent(c), i < o PROVE FALSE
      BY <1>1, <1>2, <2>1
    <3>1. i \in 1 .. n /\ i \in Nat /\ granted[c][i] + Window > now
      BY <1>2
    <3>a. granted[c][i] \in Nat
      BY <1>1, <3>1
    <3>2. i + MaxRequests \in 1 .. n
      BY <1>n, <1>7, <3>1
    <3>b. granted[c][i + MaxRequests] \in Nat
      BY <1>1, <3>2
    <3>3. granted[c][i + MaxRequests] >= granted[c][i] + Window
      BY <3>1, <3>2 DEF RateIInv, LimitHolds
    <3>4. granted[c][i + MaxRequests] <= now
      BY <3>2 DEF RateIInv, Ordered
    <3>c. now \in Nat /\ Window \in Nat
      BY <1>n
    <3>5. granted[c][i] + Window > now
      BY <3>1
    <3>6. ASSUME NEW x \in Nat, NEW y \in Nat, y >= x + Window, y <= now, x + Window > now
          PROVE  FALSE
      BY ONLY <3>6, <3>c
    <3> QED
      BY <3>3, <3>4, <3>5, <3>6, <3>a, <3>b, Zenon
  <2> QED
    BY <2>2, <2>3, <2>4, <2>5
<1> QED
  <2>1. n >= MaxRequests => n - MaxRequests + 1 \in Nat
    BY <1>1
  <2> QED
    BY <1>2, <1>6, <1>7, <2>1

\* The initial state satisfies the invariant.
LEMMA RateInitIInv == RateInit => RateIInv
  BY RateAssumption DEF RateInit, RateIInv, RateTypeOK, Ordered, Remembered, LimitHolds,
                        PromiseKept

\* A grant leaves the invariant, and the others' requests, alone.
LEMMA GrantKeeps ==
  ASSUME RateIInv, NEW c \in Callers, Grant(c)
  PROVE  RateIInv'
<1> USE RateAssumption
<1>0. PICK n \in Nat : n = Len(granted[c])
  BY DEF RateIInv, RateTypeOK
<1>1. /\ now \in Nat /\ granted \in [Callers -> Seq(Nat)] /\ requests \in [Callers -> SUBSET Nat]
      /\ promise \in [Callers -> Nat] /\ MaxRequests \in Nat \ {0} /\ Window \in Nat
  BY DEF RateIInv, RateTypeOK
<1>2. /\ HasRoom(c)
      /\ granted' = [granted EXCEPT ![c] = Append(granted[c], now)]
      /\ requests' = [requests EXCEPT ![c] = Recent(c) \cup {n + 1}]
      /\ promise' = [promise EXCEPT ![c] = 0]
      /\ now' = now
  BY <1>0 DEF Grant
<1>3. /\ Len(granted'[c]) = n + 1
      /\ granted'[c][n + 1] = now
      /\ \A i \in 1 .. n : granted'[c][i] = granted[c][i]
      /\ granted'[c] \in Seq(Nat)
  BY <1>0, <1>1, <1>2
<1>4. \A d \in Callers \ {c} : /\ granted'[d] = granted[d]
                              /\ requests'[d] = requests[d]
                              /\ promise'[d] = promise[d]
  BY <1>1, <1>2
<1>5. requests'[c] = Recent(c) \cup {n + 1} /\ promise'[c] = 0
  BY <1>1, <1>2
<1>6. /\ Recent(c) \subseteq 1 .. n
      /\ n >= MaxRequests => granted[c][n - MaxRequests + 1] + Window <= now
  BY <1>0, <1>2, Room
<1>7. \A i \in 1 .. n : granted[c][i] \in Nat /\ granted[c][i] <= now
  BY <1>0, <1>1 DEF RateIInv, Ordered
<1>8. RateTypeOK'
  BY <1>1, <1>2, <1>3, <1>6 DEF RateTypeOK
<1>9. Ordered'
  <2>1. \A i, j \in 1 .. n : i <= j => granted[c][i] <= granted[c][j]
    BY <1>0 DEF RateIInv, Ordered
  <2>2. \A i, j \in 1 .. n + 1 : /\ granted'[c][i] <= now
                                 /\ i <= j => granted'[c][i] <= granted'[c][j]
    <3> SUFFICES ASSUME NEW i \in 1 .. n + 1, NEW j \in 1 .. n + 1
                 PROVE  /\ granted'[c][i] <= now
                        /\ i <= j => granted'[c][i] <= granted'[c][j]
      OBVIOUS
    <3>1. i \in 1 .. n \/ i = n + 1
      OBVIOUS
    <3>2. j \in 1 .. n \/ j = n + 1
      OBVIOUS
    <3>3. granted'[c][i] <= now
      <4>1. CASE i = n + 1
        <5>1. granted'[c][i] = now /\ now \in Nat
          BY <1>1, <1>3, <4>1
        <5> QED
          BY <5>1
      <4>2. CASE i \in 1 .. n
        <5>1. granted'[c][i] = granted[c][i]
          BY <1>3, <4>2
        <5> QED
          BY <1>7, <4>2, <5>1
      <4> QED
        BY <3>1, <4>1, <4>2
    <3>4. ASSUME i <= j PROVE granted'[c][i] <= granted'[c][j]
      <4>1. CASE j = n + 1
        BY <1>3, <3>3, <4>1
      <4>2. CASE j # n + 1
        BY <1>3, <2>1, <3>1, <3>2, <3>4, <4>2
      <4> QED
        BY <4>1, <4>2
    <3> QED
      BY <3>3, <3>4
  <2> QED
    BY <1>2, <1>3, <1>4, <2>2 DEF RateIInv, Ordered
<1>10. Remembered'
  <2>1. \A i \in 1 .. n : i \notin Recent(c) => granted[c][i] + Window <= now
    BY <1>0, <1>1, <1>7 DEF RateIInv, Remembered, Recent
  <2>2. ASSUME NEW i \in 1 .. n + 1, i \notin requests'[c] PROVE granted'[c][i] + Window <= now
    <3>1. i \in 1 .. n /\ i \notin Recent(c)
      BY <1>1, <1>5, <2>2
    <3>2. granted'[c][i] = granted[c][i]
      BY <1>3, <3>1
    <3> QED
      BY <2>1, <3>1, <3>2
  <2>3. requests'[c] \subseteq 1 .. n + 1
    BY <1>1, <1>5, <1>6
  <2> QED
    BY <1>2, <1>3, <1>4, <2>2, <2>3 DEF RateIInv, Remembered
<1>11. LimitHolds'
  <2>1. \A i, j \in 1 .. n : j = i + MaxRequests => granted[c][j] >= granted[c][i] + Window
    BY <1>0 DEF RateIInv, LimitHolds
  <2>2. \A i, j \in 1 .. n + 1 : j = i + MaxRequests => granted'[c][j] >= granted'[c][i] + Window
    <3> SUFFICES ASSUME NEW i \in 1 .. n + 1, NEW j \in 1 .. n + 1, j = i + MaxRequests
                 PROVE  granted'[c][j] >= granted'[c][i] + Window
      OBVIOUS
    <3>1. CASE j = n + 1
      <4>1. i = n - MaxRequests + 1 /\ i \in 1 .. n /\ n >= MaxRequests
        BY <1>1, <3>1
      <4> QED
        BY <1>1, <1>3, <1>6, <1>7, <3>1, <4>1
    <3>2. CASE j # n + 1
      <4>1. i \in 1 .. n /\ j \in 1 .. n
        BY <1>1, <3>2
      <4> QED
        BY <1>3, <2>1, <4>1
    <3> QED
      BY <3>1, <3>2
  <2> QED
    BY <1>3, <1>4, <2>2 DEF RateIInv, LimitHolds
<1>12. PromiseKept'
  BY <1>4, <1>5 DEF RateIInv, PromiseKept
<1> QED
  BY <1>8, <1>9, <1>10, <1>11, <1>12 DEF RateIInv

\* A refusal points at the oldest remembered request.
LEMMA RefuseKeeps ==
  ASSUME RateIInv, NEW c \in Callers, Refuse(c)
  PROVE  RateIInv'
<1> USE RateAssumption
<1> DEFINE n == Len(granted[c])
           o == n - MaxRequests + 1
<1>1. /\ now \in Nat /\ granted \in [Callers -> Seq(Nat)] /\ requests \in [Callers -> SUBSET Nat]
      /\ promise \in [Callers -> Nat] /\ n \in Nat
  BY DEF RateIInv, RateTypeOK
<1>2. /\ ~HasRoom(c)
      /\ requests' = [requests EXCEPT ![c] = Recent(c)]
      /\ promise' = [promise EXCEPT ![c] = granted[c][Oldest(Recent(c))] + Window]
      /\ now' = now /\ granted' = granted
  BY DEF Refuse, RetryAt
<1>3. /\ n >= MaxRequests
      /\ o \in Recent(c)
      /\ \A i \in Recent(c) : i >= o
      /\ Recent(c) \subseteq 1 .. n
  BY <1>1, <1>2, Room
<1>4. Oldest(Recent(c)) = o
  <2>1. \A i \in Recent(c) : i \in Nat
    BY <1>1, <1>3
  <2>2. \A i \in Recent(c) : (\A j \in Recent(c) : i <= j) => i = o
    BY <1>1, <1>3, <2>1
  <2>3. o \in Recent(c) /\ \A j \in Recent(c) : o <= j
    BY <1>1, <1>3, <2>1
  <2> HIDE DEF o
  <2> QED
    BY <2>2, <2>3 DEF Oldest
<1>5. RateTypeOK'
  <2>1. granted[c] \in Seq(Nat) /\ o \in 1 .. n
    BY <1>1, <1>3
  <2>2. granted[c][o] + Window \in Nat
    <3>1. granted[c][o] \in Nat
      BY <2>1, Element, Zenon
    <3> HIDE DEF o
    <3> QED
      BY <3>1, RateAssumption
  <2>3. promise' \in [Callers -> Nat]
    <3>1. promise' = [promise EXCEPT ![c] = granted[c][o] + Window]
      BY <1>2, <1>4, Zenon
    <3>2. promise \in [Callers -> Nat]
      BY <1>1
    <3> QED
      BY <2>2, <3>1, <3>2
  <2>4. requests' \in [Callers -> SUBSET Nat]
    <3>1. Recent(c) \in SUBSET Nat
      BY <1>1, <1>3
    <3> QED
      BY <1>1, <1>2, <3>1
  <2> QED
    BY <1>1, <1>2, <2>3, <2>4 DEF RateTypeOK
<1>6. Remembered'
  <2>1. \A i \in 1 .. n : i \notin Recent(c) => granted[c][i] + Window <= now
    BY <1>1 DEF RateIInv, Remembered, Recent
  <2>2. requests'[c] = Recent(c) /\ \A d \in Callers \ {c} : requests'[d] = requests[d]
    BY <1>1, <1>2
  <2> QED
    BY <1>2, <1>3, <2>1, <2>2 DEF RateIInv, Remembered
<1>7. PromiseKept'
  <2>1. promise'[c] = granted[c][o] + Window /\ \A d \in Callers \ {c} : promise'[d] = promise[d]
    BY <1>1, <1>2, <1>4
  <2> QED
    BY <1>2, <1>3, <2>1 DEF RateIInv, PromiseKept
<1>8. Ordered' /\ LimitHolds'
  BY <1>2 DEF RateIInv, Ordered, LimitHolds
<1> QED
  BY <1>5, <1>6, <1>7, <1>8 DEF RateIInv

\* The passing of time preserves it.
LEMMA TickKeeps == RateIInv /\ Tick => RateIInv'
<1> SUFFICES ASSUME RateIInv, Tick PROVE RateIInv'
  OBVIOUS
<1>1. /\ now' = now + 1 /\ now \in Nat
      /\ UNCHANGED <<granted, requests, promise>>
      /\ \A c \in Callers : \A i \in 1 .. Len(granted[c]) : granted[c][i] \in Nat
  BY DEF Tick, RateIInv, RateTypeOK
<1>2. RateTypeOK' /\ LimitHolds' /\ PromiseKept'
  BY <1>1 DEF RateIInv, RateTypeOK, LimitHolds, PromiseKept
<1>3. Ordered' /\ Remembered'
  BY <1>1, RateAssumption DEF RateIInv, Ordered, Remembered
<1> QED
  BY <1>2, <1>3 DEF RateIInv

\* A step of something else preserves it.
LEMMA StutterKeeps == RateIInv /\ UNCHANGED limiter => RateIInv'
  BY DEF limiter, RateIInv, RateTypeOK, Ordered, Remembered, LimitHolds, PromiseKept

\* So does every step of the limiter.
LEMMA RateStepIInv == RateIInv /\ [RateNext]_limiter => RateIInv'
  BY GrantKeeps, RefuseKeeps, TickKeeps, StutterKeeps DEF RateNext

\* A promise is exact because there is room once its request has expired.
LEMMA PromiseIsExact == RateIInv => RetryAfterIsExact
<1> SUFFICES ASSUME RateIInv, NEW c \in Callers, promise[c] # 0
             PROVE  HasRoom(c) <=> now >= promise[c]
  BY DEF RetryAfterIsExact
<1> DEFINE n == Len(granted[c])
<1>1. n >= MaxRequests /\ promise[c] = granted[c][n - MaxRequests + 1] + Window
  BY DEF RateIInv, PromiseKept
<1>2. HasRoom(c) <=> granted[c][n - MaxRequests + 1] + Window <= now
  BY <1>1, Room
<1>3. now \in Nat /\ promise[c] \in Nat
  BY DEF RateIInv, RateTypeOK
<1> QED
  BY <1>1, <1>2, <1>3

\* The inductive invariant holds in every reachable state.
THEOREM RateInvariance == RateSpec => []RateIInv
  BY RateInitIInv, RateStepIInv, PTL DEF RateSpec

\* No window holds more than MaxRequests granted requests of a caller.
THEOREM LimitKept == RateSpec => []LimitHolds
<1>1. RateIInv => LimitHolds
  BY DEF RateIInv
<1> QED
  BY <1>1, RateInvariance, PTL

\* The retry_after that check returns is long enough and no longer than needed.
THEOREM RetryAfterExact == RateSpec => []RetryAfterIsExact
  BY RateInvariance, PromiseIsExact, PTL

(***************************************************************************)
(* The gateway.                                                            *)
(***************************************************************************)

\* An arrival is a probe, is refused, or is let in; where it goes then.
LEMMA Arrivals ==
  ASSUME NEW n \in Serials, Arrive(n)
  PROVE  /\ \/ Probe(n)
            \/ \E k \in Kinds :
                 \/ Reject(n, k)
                 \/ \E c \in Callers : Throttle(n, k, c) \/ Admit(n, k, c)
         /\ \E where \in {"call", "queued", "401", "429", "400", "202"} : Goes(n, where)
<1>1. CASE Probe(n)
  BY <1>1 DEF Probe, SeekClient
<1>2. ASSUME NEW k \in Kinds, Reject(n, k)
      PROVE  \E where \in {"401"} : Goes(n, where)
  BY <1>2 DEF Reject
<1>3. ASSUME NEW k \in Kinds, NEW c \in Callers, Throttle(n, k, c)
      PROVE  \E where \in {"429"} : Goes(n, where)
  BY <1>3 DEF Throttle
<1>4. ASSUME NEW c \in Callers,
             CreateDce(n, c) \/ CreateHas(n, c) \/ CreateIdp(n, c)
      PROVE  /\ Admit(n, "create", c)
             /\ \E where \in {"call", "queued", "400"} : Goes(n, where)
  BY <1>4 DEF CreateDce, CreateHas, CreateIdp, Create, SeekClient
<1>5. ASSUME NEW c \in Callers, SubmitFeedback(n, c)
      PROVE  Admit(n, "feedback", c) /\ Goes(n, "202")
  BY <1>5 DEF SubmitFeedback
<1>6. ASSUME NEW c \in Callers, GetStatus(n, c)
      PROVE  /\ Admit(n, "status", c)
             /\ \E where \in {"call", "queued"} : Goes(n, where)
  BY <1>6 DEF GetStatus, SeekClient
<1>7. {"create", "feedback", "status"} \subseteq Kinds
  BY DEF Kinds
<1> QED
  BY <1>1, <1>2, <1>3, <1>4, <1>5, <1>6, <1>7 DEF Arrive

\* The step of a handler is a check, a tick, or none of the limiter's.
LEMMA StepOfLimiter == [Next]_vars => [RateNext]_limiter
<1> SUFFICES ASSUME [Next]_vars PROVE [RateNext]_limiter
  OBVIOUS
<1>1. CASE UNCHANGED vars
  BY <1>1 DEF vars
<1>2. ASSUME NEW n \in Serials, Arrive(n) PROVE [RateNext]_limiter
  <2>1. CASE Probe(n)
    BY <2>1 DEF Probe
  <2>2. ASSUME NEW k \in Kinds, Reject(n, k) PROVE [RateNext]_limiter
    BY <2>2 DEF Reject
  <2>3. ASSUME NEW k \in Kinds, NEW c \in Callers, Throttle(n, k, c) PROVE [RateNext]_limiter
    BY <2>3 DEF Throttle, RateNext
  <2>4. ASSUME NEW k \in Kinds, NEW c \in Callers, Admit(n, k, c) PROVE [RateNext]_limiter
    BY <2>4 DEF Admit, RateNext
  <2> QED
    BY <1>2, <2>1, <2>2, <2>3, <2>4, Arrivals
<1>3. ASSUME NEW n \in Serials, Answer(n) PROVE UNCHANGED limiter
  BY <1>3 DEF Answer, Acquire, Connected, ConnectFails, ProbeTimesOut, StartWorkflow,
              Dispatched, CallFails, Described
<1>4. CASE Clock
  BY <1>4 DEF Clock, RateNext
<1> QED
  BY <1>1, <1>2, <1>3, <1>4 DEF Next

\* The gateway only ever uses the rate limiter as RateLimiter says.
THEOREM UsesLimiter == Spec => RateSpec
<1>1. Init => RateInit
  BY DEF Init
<1> QED
  BY <1>1, StepOfLimiter, PTL DEF Spec, RateSpec

\* So the limit on each caller holds behind the HTTP handlers, however
\* requests interleave.
THEOREM GatewayLimit == Spec => []LimitHolds
  BY UsesLimiter, LimitKept, PTL

\* No handler has touched the singleton at first.
LEMMA InitConn == Init => ConnIInv
<1> SUFFICES ASSUME Init PROVE ConnIInv
  OBVIOUS
<1>1. /\ pc = [n \in Serials |-> "none"]
      /\ lock = Nobody /\ client = FALSE /\ connects = 0
  BY DEF Init
<1>2. \A n \in Serials : n # Nobody /\ pc[n] # "connecting"
  BY <1>1, GatewayAssumption DEF Serials, Nobody
<1> QED
  BY <1>1, <1>2 DEF ConnIInv, LockIsHeldToConnect, OneConnection

\* Of the arrivals none touches the singleton, and none begins to connect.
LEMMA ArriveKeepsConn ==
  ASSUME ConnIInv, NEW n \in Serials, Arrive(n)
  PROVE  ConnIInv'
<1>1. /\ UNCHANGED <<lock, client, connects>>
      /\ pc[n] = "none"
  BY Arrivals DEF Probe, Reject, Throttle, Admit, Received
<1>2. PICK where \in {"call", "queued", "401", "429", "400", "202"} :
        pc' = [pc EXCEPT ![n] = where]
  BY Arrivals DEF Goes
<1>3. \A m \in Serials : pc'[m] = "connecting" <=> pc[m] = "connecting"
  BY <1>1, <1>2 DEF ConnIInv
<1>4. pc' \in [Serials -> {"none"} \cup Parked \cup Answers]
  BY <1>2 DEF ConnIInv, Parked, Answers
<1> QED
  BY <1>1, <1>3, <1>4 DEF ConnIInv, LockIsHeldToConnect, OneConnection

\* A parked handler that goes on preserves the invariant of the singleton.
LEMMA AnswerKeepsConn ==
  ASSUME ConnIInv, NEW n \in Serials, Answer(n)
  PROVE  ConnIInv'
<1> USE DEF ConnIInv, LockIsHeldToConnect, OneConnection, Goes, Unavailable, Parked, Answers
<1>0. \A m \in Serials : m # Nobody
  BY DEF Serials, Nobody
<1>1. CASE Acquire(n)
  BY <1>0, <1>1 DEF Acquire
<1>2. CASE Connected(n)
  BY <1>0, <1>2 DEF Connected
<1>3. CASE ConnectFails(n)
  BY <1>0, <1>3 DEF ConnectFails
<1>4. CASE ProbeTimesOut(n)
  BY <1>0, <1>4 DEF ProbeTimesOut
<1>5. CASE StartWorkflow(n)
  BY <1>5 DEF StartWorkflow
<1>6. CASE Dispatched(n)
  BY <1>6 DEF Dispatched
<1>7. CASE CallFails(n)
  BY <1>7 DEF CallFails
<1>8. CASE Described(n)
  BY <1>8 DEF Described
<1> QED
  BY <1>1, <1>2, <1>3, <1>4, <1>5, <1>6, <1>7, <1>8 DEF Answer

\* So does every step of the gateway.
LEMMA StepConn == ConnIInv /\ [Next]_vars => ConnIInv'
<1> SUFFICES ASSUME ConnIInv, [Next]_vars PROVE ConnIInv'
  OBVIOUS
<1>1. CASE Clock \/ UNCHANGED vars
  BY <1>1 DEF Clock, vars, gateway, ConnIInv, LockIsHeldToConnect, OneConnection
<1> QED
  BY <1>1, ArriveKeepsConn, AnswerKeepsConn DEF Next

\* At most one connection is made, by the holder of the lock, whichever
\* requests and probes race for it and wherever a probe is cancelled.
THEOREM ConnectsOnce == Spec => [](OneConnection /\ LockIsHeldToConnect)
<1>1. ConnIInv => OneConnection /\ LockIsHeldToConnect
  BY DEF ConnIInv
<1> QED
  BY <1>1, InitConn, StepConn, PTL DEF Spec

(***************************************************************************)
(* The audit log and its index.                                            *)
(***************************************************************************)

\* A list that filters a sequence still does when both grow by an entry of
\* its caller, and when the sequence alone grows by an entry of another's.
LEMMA FilterAppend ==
  ASSUME NEW es \in Seq(Entries), NEW list \in Seq(Entries), NEW c, NEW e \in Entries,
         IsFilter(list, c, es)
  PROVE  IsFilter(IF e.caller = c THEN Append(list, e) ELSE list, c, Append(es, e))
<1> DEFINE n == Len(list)
           m == Len(es)
           grown == Append(es, e)
<1>1. PICK at \in [1 .. n -> 1 .. m] :
        /\ \A i, j \in 1 .. n : i < j => at[i] < at[j]
        /\ \A i \in 1 .. n : list[i] = es[at[i]]
        /\ \A k \in 1 .. m : es[k].caller = c <=> \E i \in 1 .. n : at[i] = k
  BY DEF IsFilter
<1>2. /\ n \in Nat /\ m \in Nat
      /\ Len(grown) = m + 1
      /\ \A k \in 1 .. m : grown[k] = es[k]
      /\ grown[m + 1] = e
  OBVIOUS
<1>3. CASE e.caller = c
  <2> DEFINE longer == Append(list, e)
             next == [i \in 1 .. n + 1 |-> IF i = n + 1 THEN m + 1 ELSE at[i]]
  <2>1. /\ Len(longer) = n + 1
        /\ \A i \in 1 .. n : longer[i] = list[i]
        /\ longer[n + 1] = e
    OBVIOUS
  <2>2. next \in [1 .. n + 1 -> 1 .. m + 1]
    BY <1>1, <1>2
  <2>a. /\ \A i \in 1 .. n : i \in 1 .. n + 1 /\ next[i] = at[i] /\ at[i] \in 1 .. m
        /\ n + 1 \in 1 .. n + 1 /\ next[n + 1] = m + 1
        /\ \A i \in 1 .. n + 1 : i = n + 1 \/ i \in 1 .. n
    <3> HIDE DEF n, m, longer, grown
    <3>1. \A i \in 1 .. n + 1 : next[i] = IF i = n + 1 THEN m + 1 ELSE at[i]
      OBVIOUS
    <3>2. /\ \A i \in 1 .. n : i \in 1 .. n + 1 /\ i # n + 1 /\ at[i] \in 1 .. m
          /\ n + 1 \in 1 .. n + 1
          /\ \A i \in 1 .. n + 1 : i = n + 1 \/ i \in 1 .. n
      BY <1>1, <1>2
    <3> HIDE DEF next
    <3> QED
      BY <3>1, <3>2
  <2> HIDE DEF next, longer, grown, n, m
  <2>3. ASSUME NEW i \in 1 .. n + 1, NEW j \in 1 .. n + 1, i < j PROVE next[i] < next[j]
    <3>1. i \in 1 .. n
      BY <1>2, <2>3, <2>a
    <3>2. CASE j = n + 1
      BY <1>2, <2>a, <3>1, <3>2
    <3>3. CASE j \in 1 .. n
      BY <1>1, <2>3, <2>a, <3>1, <3>3
    <3> QED
      BY <2>a, <3>2, <3>3
  <2>4. ASSUME NEW i \in 1 .. n + 1 PROVE longer[i] = grown[next[i]]
    <3>1. CASE i = n + 1
      BY <1>2, <2>1, <2>a, <3>1
    <3>2. CASE i \in 1 .. n
      <4>1. longer[i] = list[i] /\ next[i] = at[i] /\ at[i] \in 1 .. m
        BY <2>1, <2>a, <3>2
      <4>2. list[i] = es[at[i]] /\ grown[at[i]] = es[at[i]]
        BY <1>1, <1>2, <3>2, <4>1
      <4> QED
        BY <4>1, <4>2
    <3> QED
      BY <2>a, <3>1, <3>2
  <2>5. ASSUME NEW k \in 1 .. m + 1
        PROVE  grown[k].caller = c <=> \E i \in 1 .. n + 1 : next[i] = k
    <3>1. CASE k = m + 1
      BY <1>2, <1>3, <2>a, <3>1
    <3>2. CASE k \in 1 .. m
      <4>1. grown[k].caller = c <=> \E i \in 1 .. n : at[i] = k
        BY <1>1, <1>2, <3>2
      <4>2. (\E i \in 1 .. n : at[i] = k) => \E i \in 1 .. n + 1 : next[i] = k
        BY <2>a
      <4>3. ASSUME NEW i \in 1 .. n + 1, next[i] = k PROVE i \in 1 .. n /\ at[i] = k
        BY <1>2, <2>a, <3>2, <4>3
      <4> QED
        BY <4>1, <4>2, <4>3
    <3> QED
      BY <1>2, <3>1, <3>2
  <2>b. n + 1 = Len(longer) /\ m + 1 = Len(grown)
    BY <1>2, <2>1
  <2>c. /\ next \in [1 .. Len(longer) -> 1 .. Len(grown)]
        /\ \A i, j \in 1 .. Len(longer) : i < j => next[i] < next[j]
        /\ \A i \in 1 .. Len(longer) : longer[i] = grown[next[i]]
        /\ \A k \in 1 .. Len(grown) :
             grown[k].caller = c <=> \E i \in 1 .. Len(longer) : next[i] = k
    BY <2>2, <2>3, <2>4, <2>5, <2>b
  <2>6. IsFilter(longer, c, grown)
    BY <2>c DEF IsFilter
  <2> QED
    BY <1>3, <2>6 DEF longer, grown
<1>4. CASE e.caller # c
  <2>1. at \in [1 .. n -> 1 .. m + 1]
    BY <1>1, <1>2
  <2>2. \A i \in 1 .. n : list[i] = grown[at[i]]
    BY <1>1, <1>2
  <2>3. ASSUME NEW k \in 1 .. m + 1
        PROVE  grown[k].caller = c <=> \E i \in 1 .. n : at[i] = k
    <3>1. CASE k = m + 1
      <4>1. \A i \in 1 .. n : at[i] # m + 1
        BY <1>1, <1>2
      <4> QED
        BY <1>2, <1>4, <3>1, <4>1
    <3>2. CASE k \in 1 .. m
      BY <1>1, <1>2, <3>2
    <3> QED
      BY <1>2, <3>1, <3>2
  <2>4. n = Len(list) /\ m + 1 = Len(grown)
    BY <1>2
  <2> HIDE DEF grown, n, m
  <2>5. /\ at \in [1 .. Len(list) -> 1 .. Len(grown)]
        /\ \A i, j \in 1 .. Len(list) : i < j => at[i] < at[j]
        /\ \A i \in 1 .. Len(list) : list[i] = grown[at[i]]
        /\ \A k \in 1 .. Len(grown) :
             grown[k].caller = c <=> \E i \in 1 .. Len(list) : at[i] = k
    BY <1>1, <2>1, <2>2, <2>3, <2>4
  <2>6. IsFilter(list, c, grown)
    BY <2>5 DEF IsFilter
  <2> QED
    BY <1>4, <2>6 DEF grown
<1> QED
  BY <1>3, <1>4

\* The first entry of the sequence is the first of its caller's list, and
\* when both are dropped the lists are filters of what remains.
LEMMA FilterTail ==
  ASSUME NEW es \in Seq(Entries), es # <<>>, NEW list \in Seq(Entries), NEW c,
         IsFilter(list, c, es)
  PROVE  /\ es[1].caller = c => list # <<>> /\ Head(list) = es[1]
         /\ IsFilter(IF es[1].caller = c THEN Tail(list) ELSE list, c, Tail(es))
<1> DEFINE n == Len(list)
           m == Len(es)
           rest == Tail(es)
<1>1. PICK at \in [1 .. n -> 1 .. m] :
        /\ \A i, j \in 1 .. n : i < j => at[i] < at[j]
        /\ \A i \in 1 .. n : list[i] = es[at[i]]
        /\ \A k \in 1 .. m : es[k].caller = c <=> \E i \in 1 .. n : at[i] = k
  BY DEF IsFilter
<1>2. /\ n \in Nat /\ m \in Nat \ {0}
      /\ Len(rest) = m - 1
      /\ \A k \in 1 .. m - 1 : rest[k] = es[k + 1]
  OBVIOUS
<1>3. CASE es[1].caller = c
  <2>1. PICK first \in 1 .. n : at[first] = 1
    BY <1>1, <1>2, <1>3
  <2>2. at[1] = 1 /\ n >= 1
    BY <1>1, <1>2, <2>1
  <2>3. list # <<>> /\ Head(list) = es[1]
    BY <1>1, <2>2
  <2> DEFINE shorter == Tail(list)
             next == [j \in 1 .. n - 1 |-> at[j + 1] - 1]
  <2>4. /\ Len(shorter) = n - 1
        /\ \A j \in 1 .. n - 1 : shorter[j] = list[j + 1]
    BY <2>3
  <2>5. ASSUME NEW j \in 1 .. n - 1 PROVE at[j + 1] \in 2 .. m
    <3>1. j + 1 \in 1 .. n /\ 1 \in 1 .. n /\ 1 < j + 1
      BY <1>2
    <3>2. at[j + 1] \in 1 .. m /\ at[1] < at[j + 1]
      BY <1>1, <3>1
    <3> QED
      BY <2>2, <3>2
  <2>6. next \in [1 .. n - 1 -> 1 .. m - 1]
    BY <1>2, <2>5
  <2>7. \A j, k \in 1 .. n - 1 : j < k => next[j] < next[k]
    BY <1>1, <1>2, <2>5
  <2>8. \A j \in 1 .. n - 1 : shorter[j] = rest[next[j]]
    BY <1>1, <1>2, <2>4, <2>5
  <2>9. ASSUME NEW k \in 1 .. m - 1
        PROVE  rest[k].caller = c <=> \E j \in 1 .. n - 1 : next[j] = k
    <3>1. rest[k].caller = c <=> \E j \in 1 .. n : at[j] = k + 1
      BY <1>1, <1>2
    <3>2. ASSUME NEW j \in 1 .. n, at[j] = k + 1
          PROVE  j - 1 \in 1 .. n - 1 /\ next[j - 1] = k
      <4>1. j # 1
        BY <2>2, <3>2
      <4>2. j - 1 \in 1 .. n - 1
        BY <4>1, <1>2
      <4> QED
        BY <3>2, <4>2
    <3>3. ASSUME NEW j \in 1 .. n - 1, next[j] = k
          PROVE  j + 1 \in 1 .. n /\ at[j + 1] = k + 1
      BY <1>2, <2>5, <3>3
    <3> QED
      BY <3>1, <3>2, <3>3
  <2>10. n - 1 = Len(shorter) /\ m - 1 = Len(rest)
    BY <1>2, <2>4
  <2> HIDE DEF shorter, next, rest, n, m
  <2>11. /\ next \in [1 .. Len(shorter) -> 1 .. Len(rest)]
         /\ \A i, j \in 1 .. Len(shorter) : i < j => next[i] < next[j]
         /\ \A i \in 1 .. Len(shorter) : shorter[i] = rest[next[i]]
         /\ \A k \in 1 .. Len(rest) :
              rest[k].caller = c <=> \E i \in 1 .. Len(shorter) : next[i] = k
    BY <2>6, <2>7, <2>8, <2>9, <2>10
  <2>12. IsFilter(shorter, c, rest)
    BY <2>11 DEF IsFilter
  <2> QED
    BY <1>3, <2>3, <2>12 DEF shorter, rest
<1>4. CASE es[1].caller # c
  <2>1. \A i \in 1 .. n : at[i] \in 2 .. m
    BY <1>1, <1>2, <1>4
  <2> DEFINE next == [i \in 1 .. n |-> at[i] - 1]
  <2>2. next \in [1 .. n -> 1 .. m - 1]
    BY <1>2, <2>1
  <2>3. \A i, j \in 1 .. n : i < j => next[i] < next[j]
    BY <1>1, <1>2, <2>1
  <2>4. \A i \in 1 .. n : list[i] = rest[next[i]]
    BY <1>1, <1>2, <2>1
  <2>5. ASSUME NEW k \in 1 .. m - 1
        PROVE  rest[k].caller = c <=> \E i \in 1 .. n : next[i] = k
    <3>1. rest[k].caller = c <=> \E j \in 1 .. n : at[j] = k + 1
      BY <1>1, <1>2
    <3>2. \A j \in 1 .. n : at[j] = k + 1 <=> next[j] = k
      BY <1>2, <2>1
    <3> QED
      BY <3>1, <3>2
  <2>6. n = Len(list) /\ m - 1 = Len(rest)
    BY <1>2
  <2> HIDE DEF next, rest, n, m
  <2>7. /\ next \in [1 .. Len(list) -> 1 .. Len(rest)]
        /\ \A i, j \in 1 .. Len(list) : i < j => next[i] < next[j]
        /\ \A i \in 1 .. Len(list) : list[i] = rest[next[i]]
        /\ \A k \in 1 .. Len(rest) :
             rest[k].caller = c <=> \E i \in 1 .. Len(list) : next[i] = k
    BY <2>2, <2>3, <2>4, <2>5, <2>6
  <2>8. IsFilter(list, c, rest)
    BY <2>7 DEF IsFilter
  <2> QED
    BY <1>4, <2>8 DEF rest
<1> QED
  BY <1>3, <1>4

\* Writing an entry keeps the log, its index and their history in agreement,
\* also when the oldest entry leaves.
LEMMA LogKeeps ==
  ASSUME TypeOK, AuditAgrees, NEW e \in Entries, Log(e)
  PROVE  /\ AuditAgrees'
         /\ entries' \in Seq(Entries)
         /\ byCaller' \in [Callers -> Seq(Entries)]
         /\ log' \in Seq(Entries)
<1> DEFINE grown == Append(entries, e)
           index == [c \in Callers |-> IF c = e.caller THEN Append(byCaller[c], e)
                                                       ELSE byCaller[c]]
<1>1. /\ entries \in Seq(Entries) /\ log \in Seq(Entries)
      /\ byCaller \in [Callers -> Seq(Entries)]
      /\ MaxEntries \in Nat \ {0}
  BY GatewayAssumption DEF TypeOK
<1>2. /\ log' = Append(log, e)
      /\ log' \in Seq(Entries)
      /\ Len(log') = Len(log) + 1
      /\ \A i \in 1 .. Len(log) : log'[i] = log[i]
      /\ log'[Len(log) + 1] = e
  BY <1>1 DEF Log
<1>3. /\ grown \in Seq(Entries) /\ grown # <<>>
      /\ Len(grown) = Len(entries) + 1
      /\ \A i \in 1 .. Len(entries) : grown[i] = entries[i]
      /\ grown[Len(entries) + 1] = e
  BY <1>1
<1>4. index \in [Callers -> Seq(Entries)]
  BY <1>1
<1>5. /\ Len(entries) \in Nat /\ Len(log) \in Nat
      /\ Len(entries) = IF Len(log) < MaxEntries THEN Len(log) ELSE MaxEntries
      /\ \A i \in 1 .. Len(entries) : entries[i] = log[Len(log) - Len(entries) + i]
  <2>1. Len(entries) \in Nat /\ Len(log) \in Nat
    BY <1>1
  <2> QED
    BY <2>1 DEF AuditAgrees
<1>6. ASSUME NEW c \in Callers PROVE IsFilter(index[c], c, grown)
  <2>1. byCaller[c] \in Seq(Entries) /\ IsFilter(byCaller[c], c, entries)
    BY <1>1 DEF AuditAgrees
  <2>2. IsFilter(IF e.caller = c THEN Append(byCaller[c], e) ELSE byCaller[c], c, grown)
    BY <1>1, <2>1, FilterAppend
  <2>3. index[c] = IF e.caller = c THEN Append(byCaller[c], e) ELSE byCaller[c]
    OBVIOUS
  <2> QED
    BY <2>2, <2>3
<1>a. /\ Len(grown) > MaxEntries => entries' = Tail(grown) /\ byCaller' = Indexed(index, Head(grown))
      /\ ~(Len(grown) > MaxEntries) => entries' = grown /\ byCaller' = index
  BY DEF Log
<1> HIDE DEF grown, index
<1>7. ASSUME NEW i \in 1 .. Len(entries) + 1
      PROVE  grown[i] = log'[Len(log) - Len(entries) + i]
  <2>1. CASE i = Len(entries) + 1
    <3>1. Len(log) - Len(entries) + i = Len(log) + 1
      BY <1>5, <2>1
    <3> QED
      BY <1>2, <1>3, <2>1, <3>1
  <2>2. CASE i \in 1 .. Len(entries)
    <3>1. Len(log) - Len(entries) + i \in 1 .. Len(log)
      BY <1>1, <1>5, <2>2
    <3> QED
      BY <1>2, <1>3, <1>5, <2>2, <3>1
  <2> QED
    BY <1>5, <2>1, <2>2
<1>8. CASE Len(grown) > MaxEntries
  <2>1. /\ entries' = Tail(grown) /\ byCaller' = Indexed(index, Head(grown))
        /\ Head(grown) = grown[1]
    BY <1>3, <1>8, <1>a
  <2>2. /\ Len(entries) = MaxEntries /\ Len(log) >= MaxEntries
        /\ entries' \in Seq(Entries)
        /\ Len(entries') = Len(entries)
        /\ \A i \in 1 .. Len(entries) : entries'[i] = grown[i + 1]
    BY <1>1, <1>3, <1>5, <1>8, <2>1
  <2>3. ASSUME NEW i \in 1 .. Len(entries')
        PROVE  entries'[i] = log'[Len(log') - Len(entries') + i]
    <3>1. /\ i + 1 \in 1 .. Len(entries) + 1
          /\ Len(log) - Len(entries) + (i + 1) = Len(log') - Len(entries') + i
          /\ i \in 1 .. Len(entries)
      <4>1. i \in 1 .. Len(entries) /\ Len(entries) \in Nat /\ Len(log) \in Nat
        BY <1>5, <2>2
      <4>2. Len(log') = Len(log) + 1 /\ Len(entries') = Len(entries)
        BY <1>2, <2>2
      <4> QED
        BY <4>1, <4>2
    <3>2. grown[i + 1] = log'[Len(log) - Len(entries) + (i + 1)]
      BY <1>7, <3>1
    <3> QED
      BY <2>2, <3>1, <3>2
  <2>4. ASSUME NEW c \in Callers
        PROVE  /\ IsFilter(byCaller'[c], c, entries')
               /\ byCaller'[c] \in Seq(Entries)
    <3>1. index[c] \in Seq(Entries)
      BY <1>4
    <3>2. /\ grown[1].caller = c => index[c] # <<>> /\ Head(index[c]) = grown[1]
          /\ IsFilter(IF grown[1].caller = c THEN Tail(index[c]) ELSE index[c], c, Tail(grown))
      BY <1>3, <1>6, <3>1, FilterTail
    <3>3. byCaller'[c] = IF grown[1].caller = c THEN Tail(index[c]) ELSE index[c]
      BY <2>1, <3>2 DEF Indexed
    <3>4. byCaller'[c] \in Seq(Entries)
      BY <3>1, <3>2, <3>3
    <3> QED
      BY <2>1, <3>2, <3>3, <3>4
  <2>5. byCaller' \in [Callers -> Seq(Entries)]
    <3>1. byCaller' = [c \in Callers |-> byCaller'[c]]
      BY <2>1 DEF Indexed
    <3> QED
      BY <2>4, <3>1
  <2>6. Len(entries') = IF Len(log') < MaxEntries THEN Len(log') ELSE MaxEntries
    BY <1>1, <1>2, <1>5, <2>2
  <2> QED
    BY <1>2, <2>2, <2>3, <2>4, <2>5, <2>6 DEF AuditAgrees
<1>9. CASE ~(Len(grown) > MaxEntries)
  <2>1. entries' = grown /\ byCaller' = index
    BY <1>9, <1>a
  <2>2. Len(entries') = IF Len(log') < MaxEntries THEN Len(log') ELSE MaxEntries
    BY <1>1, <1>2, <1>3, <1>5, <1>9, <2>1
  <2>3. ASSUME NEW i \in 1 .. Len(entries')
        PROVE  entries'[i] = log'[Len(log') - Len(entries') + i]
    <3>1. /\ i \in 1 .. Len(entries) + 1
          /\ Len(log) - Len(entries) + i = Len(log') - Len(entries') + i
      <4>1. /\ i \in 1 .. Len(entries) + 1 /\ Len(entries) \in Nat /\ Len(log) \in Nat
            /\ Len(entries') = Len(entries) + 1
        BY <1>3, <1>5, <2>1
      <4>2. Len(log') = Len(log) + 1
        BY <1>2
      <4> QED
        BY <4>1, <4>2
    <3> QED
      BY <1>7, <2>1, <3>1
  <2> QED
    BY <1>2, <1>3, <1>4, <1>6, <2>1, <2>2, <2>3 DEF AuditAgrees
<1> QED
  BY <1>8, <1>9

\* What an entry changes about who is logged as dispatched.
LEMMA LogsOne ==
  ASSUME TypeOK, NEW e \in Entries, log' = Append(log, e), NEW n
  PROVE  LoggedAs(n, "DISPATCH")' <=> \/ LoggedAs(n, "DISPATCH")
                                     \/ (e.of = n /\ e.event = "DISPATCH")
<1>1. /\ Len(log') = Len(log) + 1 /\ Len(log) \in Nat
      /\ \A i \in 1 .. Len(log) : log'[i] = log[i]
      /\ log'[Len(log) + 1] = e
  <2>1. log \in Seq(Entries)
    BY DEF TypeOK
  <2> QED
    BY <2>1
<1>2. ASSUME LoggedAs(n, "DISPATCH")' PROVE LoggedAs(n, "DISPATCH") \/ (e.of = n /\ e.event = "DISPATCH")
  <2>1. PICK i \in 1 .. Len(log') : log'[i].of = n /\ log'[i].event = "DISPATCH"
    BY <1>2 DEF LoggedAs
  <2>2. CASE i = Len(log) + 1
    BY <1>1, <2>1, <2>2
  <2>3. CASE i \in 1 .. Len(log)
    <3>1. log'[i] = log[i]
      BY <1>1, <2>3
    <3>2. log[i].of = n /\ log[i].event = "DISPATCH"
      BY <2>1, <3>1
    <3> QED
      BY <2>3, <3>2 DEF LoggedAs
  <2> QED
    BY <1>1, <2>2, <2>3
<1>3. ASSUME LoggedAs(n, "DISPATCH") PROVE LoggedAs(n, "DISPATCH")'
  <2>1. PICK i \in 1 .. Len(log) : log[i].of = n /\ log[i].event = "DISPATCH"
    BY <1>3 DEF LoggedAs
  <2>2. i \in 1 .. Len(log')
    BY <1>1
  <2> QED
    BY <1>1, <2>1, <2>2 DEF LoggedAs
<1>4. ASSUME e.of = n, e.event = "DISPATCH" PROVE LoggedAs(n, "DISPATCH")'
  <2>1. Len(log) + 1 \in 1 .. Len(log')
    BY <1>1
  <2> QED
    BY <1>1, <1>4, <2>1 DEF LoggedAs
<1> QED
  BY <1>2, <1>3, <1>4

(***************************************************************************)
(* The invariant as a whole.                                               *)
(***************************************************************************)

\* Nothing is logged at first.
LEMMA InitIInv == Init => IInv
<1> SUFFICES ASSUME Init PROVE IInv
  OBVIOUS
<1>1. RateTypeOK
  BY RateInitIInv DEF Init, RateIInv
<1>2. /\ pc = [n \in Serials |-> "none"] /\ kind = [n \in Serials |-> "none"]
      /\ caller = [n \in Serials |-> ""]
      /\ lock = Nobody /\ client = FALSE /\ connects = 0 /\ started = {}
      /\ entries = <<>> /\ byCaller = [c \in Callers |-> <<>>] /\ log = <<>>
  BY DEF Init
<1>3. TypeOK
  <2>1. /\ pc \in [Serials -> {"none"} \cup Parked \cup Answers]
        /\ kind \in [Serials -> Kinds \cup {"none"}]
        /\ caller \in [Serials -> Callers \cup {""}]
    BY <1>2
  <2>2. lock \in Serials \cup {Nobody} /\ client \in BOOLEAN /\ connects \in Nat
    BY <1>2
  <2>3. started \subseteq Serials
    BY <1>2
  <2>4. <<>> \in Seq(Entries)
    OBVIOUS
  <2>5. entries \in Seq(Entries) /\ log \in Seq(Entries) /\ byCaller \in [Callers -> Seq(Entries)]
    BY <1>2, <2>4
  <2> QED
    BY <1>1, <2>1, <2>2, <2>3, <2>5 DEF TypeOK
<1>4. Len(entries) = 0 /\ Len(log) = 0 /\ \A c \in Callers : Len(byCaller[c]) = 0
  BY <1>2
<1>5. AuditAgrees
  <2>1. ASSUME NEW c \in Callers PROVE IsFilter(byCaller[c], c, entries)
    <3> DEFINE none == [i \in 1 .. 0 |-> 0]
    <3>1. none \in [1 .. 0 -> 1 .. 0] /\ \A i \in 1 .. 0 : FALSE
      OBVIOUS
    <3> HIDE DEF none
    <3>2. /\ none \in [1 .. Len(byCaller[c]) -> 1 .. Len(entries)]
          /\ \A i, j \in 1 .. Len(byCaller[c]) : i < j => none[i] < none[j]
          /\ \A i \in 1 .. Len(byCaller[c]) : byCaller[c][i] = entries[none[i]]
          /\ \A k \in 1 .. Len(entries) :
               entries[k].caller = c <=> \E i \in 1 .. Len(byCaller[c]) : none[i] = k
      BY <1>4, <3>1
    <3> QED
      BY <3>2 DEF IsFilter
  <2>2. \A i \in 1 .. Len(entries) : entries[i] = log[Len(log) - Len(entries) + i]
    BY <1>4
  <2>3. Len(entries) = IF Len(log) < MaxEntries THEN Len(log) ELSE MaxEntries
    BY <1>4, GatewayAssumption
  <2> QED
    BY <2>1, <2>2, <2>3 DEF AuditAgrees
<1>6. \A n \in Serials : ~LoggedAs(n, "DISPATCH")
  BY <1>4 DEF LoggedAs
<1>7. DispatchIsLogged /\ ReplyIsOfStarted
  BY <1>2, <1>6 DEF DispatchIsLogged, ReplyIsOfStarted
<1> QED
  BY <1>3, <1>5, <1>7, InitConn DEF IInv

\* An arrival logs no dispatch, and leaves the audit log in agreement.
LEMMA ArriveKeeps ==
  ASSUME IInv, RateTypeOK', NEW n \in Serials, Arrive(n)
  PROVE  IInv'
<1>0. TypeOK /\ AuditAgrees /\ DispatchIsLogged /\ ReplyIsOfStarted
  BY DEF IInv
<1>1. /\ UNCHANGED <<lock, client, connects, started>>
      /\ pc[n] = "none"
  BY Arrivals DEF Probe, Reject, Throttle, Admit, Received
<1>2. PICK where \in {"call", "queued", "401", "429", "400", "202"} :
        pc' = [pc EXCEPT ![n] = where]
  BY Arrivals DEF Goes
<1>3. /\ kind' \in [Serials -> Kinds \cup {"none"}]
      /\ caller' \in [Serials -> Callers \cup {""}]
  <2>1. PICK k \in Kinds, c \in Callers \cup {""} :
          kind' = [kind EXCEPT ![n] = k] /\ caller' = [caller EXCEPT ![n] = c]
    BY Arrivals DEF Probe, Reject, Throttle, Admit, Received, Kinds
  <2> QED
    BY <1>0, <2>1 DEF TypeOK
<1>4. \/ UNCHANGED audit
      \/ \E e \in Entries : Log(e) /\ e.event # "DISPATCH"
  <2>1. CASE Probe(n)
    BY <2>1 DEF Probe
  <2>2. ASSUME NEW k \in Kinds, Reject(n, k)
        PROVE  \E e \in Entries : Log(e) /\ e.event # "DISPATCH"
    <3> DEFINE e == [event |-> "AUTH_FAILURE", caller |-> "", of |-> n]
    <3>1. e \in Entries /\ e.event # "DISPATCH"
      BY DEF Entries
    <3> QED
      BY <2>2, <3>1 DEF Reject
  <2>3. ASSUME NEW k \in Kinds, NEW c \in Callers, Throttle(n, k, c)
        PROVE  \E e \in Entries : Log(e) /\ e.event # "DISPATCH"
    <3> DEFINE e == [event |-> "RATE_LIMITED", caller |-> c, of |-> n]
    <3>1. e \in Entries /\ e.event # "DISPATCH"
      BY DEF Entries
    <3> QED
      BY <2>3, <3>1 DEF Throttle
  <2>4. ASSUME NEW k \in Kinds, NEW c \in Callers, Admit(n, k, c) PROVE UNCHANGED audit
    BY <2>4 DEF Admit
  <2> QED
    BY <2>1, <2>2, <2>3, <2>4, Arrivals
<1>5. /\ AuditAgrees'
      /\ entries' \in Seq(Entries)
      /\ byCaller' \in [Callers -> Seq(Entries)]
      /\ log' \in Seq(Entries)
      /\ \A m \in Serials : LoggedAs(m, "DISPATCH")' <=> LoggedAs(m, "DISPATCH")
  <2>1. CASE UNCHANGED audit
    BY <1>0, <2>1 DEF audit, AuditAgrees, TypeOK, LoggedAs
  <2>2. ASSUME NEW e \in Entries, Log(e), e.event # "DISPATCH"
        PROVE  <1>5!1 /\ <1>5!2 /\ <1>5!3 /\ <1>5!4 /\ <1>5!5
    <3>1. log' = Append(log, e)
      BY <2>2 DEF Log
    <3>2. \A m \in Serials : LoggedAs(m, "DISPATCH")' <=> LoggedAs(m, "DISPATCH")
      <4> TAKE m \in Serials
      <4>1. LoggedAs(m, "DISPATCH")' <=>
              LoggedAs(m, "DISPATCH") \/ (e.of = m /\ e.event = "DISPATCH")
        BY <1>0, <3>1, LogsOne
      <4> QED
        BY <2>2, <4>1
    <3> QED
      BY <1>0, <2>2, <3>2, LogKeeps
  <2> QED
    BY <1>4, <2>1, <2>2
<1>6. TypeOK'
  BY <1>0, <1>1, <1>2, <1>3, <1>5 DEF TypeOK, Parked, Answers
<1>7. ConnIInv'
  BY ArriveKeepsConn DEF IInv
<1>8. \A m \in Serials : pc'[m] = pc[m] \/ (m = n /\ pc'[m] \notin {"reply", "201", "503"})
  <2> TAKE m \in Serials
  <2>1. pc'[m] = IF m = n THEN where ELSE pc[m]
    BY <1>0, <1>2 DEF TypeOK
  <2> QED
    BY <1>2, <2>1
<1>9. DispatchIsLogged' /\ ReplyIsOfStarted'
  <2>1. started \subseteq Serials /\ n \notin started /\ started' = started
    BY <1>0, <1>1 DEF TypeOK, DispatchIsLogged
  <2>2. pc[n] # "201" /\ pc[n] # "reply"
    BY <1>1
  <2>3. \A m \in Serials : LoggedAs(m, "DISPATCH") <=> pc[m] = "201"
    BY <1>0 DEF DispatchIsLogged
  <2>4. \A m \in Serials : LoggedAs(m, "DISPATCH")' <=> pc'[m] = "201"
    BY <1>5, <1>8, <2>2, <2>3
  <2>5. /\ \A m \in Serials : pc'[m] = "201" => m \in started'
        /\ \A m \in started' : pc'[m] \in {"reply", "201", "503"}
        /\ \A m \in Serials : pc'[m] = "reply" => m \in started'
    BY <1>0, <1>8, <2>1 DEF DispatchIsLogged, ReplyIsOfStarted
  <2> QED
    BY <2>4, <2>5 DEF DispatchIsLogged, ReplyIsOfStarted
<1> QED
  BY <1>5, <1>6, <1>7, <1>9 DEF IInv

\* A parked handler that goes on logs its dispatch as it answers 201.
LEMMA AnswerKeeps ==
  ASSUME IInv, RateTypeOK', NEW n \in Serials, Answer(n)
  PROVE  IInv'
<1>0. TypeOK /\ AuditAgrees /\ DispatchIsLogged /\ ReplyIsOfStarted
  BY DEF IInv
<1>1. ConnIInv'
  BY AnswerKeepsConn DEF IInv
<1>2. UNCHANGED <<kind, caller>>
  BY DEF Answer, Acquire, Connected, ConnectFails, ProbeTimesOut, StartWorkflow,
         Dispatched, CallFails, Described
<1>3. /\ pc' \in [Serials -> {"none"} \cup Parked \cup Answers]
      /\ lock' \in Serials \cup {Nobody}
      /\ client' \in BOOLEAN
  BY <1>1 DEF ConnIInv
<1>4. connects' \in Nat
  BY <1>1 DEF ConnIInv, OneConnection
<1>5. CASE Dispatched(n)
  <2> DEFINE e == [event |-> "DISPATCH", caller |-> caller[n], of |-> n]
  <2>1. e \in Entries /\ e.of = n /\ e.event = "DISPATCH"
    BY <1>0 DEF TypeOK, Entries
  <2>2. Log(e) /\ pc[n] = "reply" /\ pc' = [pc EXCEPT ![n] = "201"] /\ UNCHANGED started
    BY <1>5 DEF Dispatched, Goes
  <2> HIDE DEF e
  <2>3. log' = Append(log, e)
    BY <2>2 DEF Log
  <2>4. /\ AuditAgrees'
        /\ entries' \in Seq(Entries)
        /\ byCaller' \in [Callers -> Seq(Entries)]
        /\ log' \in Seq(Entries)
    BY <1>0, <2>1, <2>2, LogKeeps
  <2>5. \A m \in Serials : LoggedAs(m, "DISPATCH")' <=> LoggedAs(m, "DISPATCH") \/ m = n
    BY <1>0, <2>1, <2>3, LogsOne
  <2>6. TypeOK'
    BY <1>0, <1>2, <1>3, <1>4, <2>2, <2>4 DEF TypeOK
  <2>7. pc'[n] = "201" /\ \A m \in Serials : m # n => pc'[m] = pc[m]
    BY <1>0, <2>2 DEF TypeOK
  <2>8. n \in started /\ started' = started /\ started \subseteq Serials
    BY <1>0, <2>2 DEF ReplyIsOfStarted, TypeOK
  <2>9. \A m \in Serials : LoggedAs(m, "DISPATCH")' <=> pc'[m] = "201"
    BY <1>0, <2>5, <2>7 DEF DispatchIsLogged
  <2>10. /\ \A m \in Serials : pc'[m] = "201" => m \in started'
         /\ \A m \in started' : pc'[m] \in {"reply", "201", "503"}
         /\ \A m \in Serials : pc'[m] = "reply" => m \in started'
    BY <1>0, <2>7, <2>8 DEF DispatchIsLogged, ReplyIsOfStarted
  <2> QED
    BY <1>1, <2>4, <2>6, <2>9, <2>10 DEF IInv, DispatchIsLogged, ReplyIsOfStarted
<1>6. CASE ~Dispatched(n)
  <2>1. UNCHANGED audit
    BY <1>6 DEF Answer, Acquire, Connected, ConnectFails, ProbeTimesOut, StartWorkflow,
                CallFails, Described
  <2>2. AuditAgrees' /\ \A m \in Serials : LoggedAs(m, "DISPATCH")' <=> LoggedAs(m, "DISPATCH")
    BY <1>0, <2>1 DEF audit, AuditAgrees, LoggedAs
  <2>3. /\ \A m \in Serials : m # n => pc'[m] = pc[m]
        /\ pc[n] # "201" /\ pc'[n] # "201"
        /\ \/ started' = started /\ pc'[n] = "503"
           \/ started' = started /\ n \notin started /\ pc'[n] # "reply"
           \/ started' = started \cup {n} /\ pc'[n] = "reply"
    <3> USE DEF Goes, Unavailable, Parked, Answers, TypeOK
    <3>0. n \in started => pc[n] \notin {"queued", "connecting", "call"}
      BY <1>0 DEF DispatchIsLogged
    <3>1. CASE Acquire(n)
      BY <1>0, <3>0, <3>1 DEF Acquire
    <3>2. CASE Connected(n)
      BY <1>0, <3>0, <3>2 DEF Connected
    <3>3. CASE ConnectFails(n)
      BY <1>0, <3>3 DEF ConnectFails
    <3>4. CASE ProbeTimesOut(n)
      BY <1>0, <3>4 DEF ProbeTimesOut
    <3>5. CASE StartWorkflow(n)
      BY <1>0, <3>5 DEF StartWorkflow
    <3>6. CASE CallFails(n)
      BY <1>0, <3>6 DEF CallFails
    <3>7. CASE Described(n)
      BY <1>0, <3>0, <3>7 DEF Described
    <3> QED
      BY <1>6, <3>1, <3>2, <3>3, <3>4, <3>5, <3>6, <3>7 DEF Answer
  <2>4. started \subseteq Serials /\ started' \subseteq Serials
    BY <1>0, <2>3 DEF TypeOK
  <2>5. TypeOK'
    BY <1>0, <1>2, <1>3, <1>4, <2>1, <2>4 DEF TypeOK, audit
  <2>6. \A m \in Serials : LoggedAs(m, "DISPATCH")' <=> pc'[m] = "201"
    BY <1>0, <2>2, <2>3 DEF DispatchIsLogged
  <2>7. /\ \A m \in Serials : pc'[m] = "201" => m \in started'
        /\ \A m \in started' : pc'[m] \in {"reply", "201", "503"}
        /\ \A m \in Serials : pc'[m] = "reply" => m \in started'
    BY <1>0, <2>3, <2>4 DEF DispatchIsLogged, ReplyIsOfStarted
  <2> QED
    BY <1>1, <2>2, <2>5, <2>6, <2>7 DEF IInv, DispatchIsLogged, ReplyIsOfStarted
<1> QED
  BY <1>5, <1>6

\* So does every step, given what the rate limiter keeps.
LEMMA StepIInv == IInv /\ RateTypeOK' /\ [Next]_vars => IInv'
<1> SUFFICES ASSUME IInv, RateTypeOK', [Next]_vars PROVE IInv'
  OBVIOUS
<1>1. CASE Clock \/ UNCHANGED vars
  <2>1. UNCHANGED <<gateway, audit>>
    BY <1>1 DEF Clock, vars
  <2>2. /\ pc' = pc /\ kind' = kind /\ caller' = caller /\ lock' = lock /\ client' = client
        /\ connects' = connects /\ started' = started
        /\ entries' = entries /\ byCaller' = byCaller /\ log' = log
    BY <2>1 DEF gateway, audit
  <2>3. TypeOK' /\ AuditAgrees'
    BY <2>2 DEF IInv, TypeOK, AuditAgrees
  <2>4. DispatchIsLogged' /\ ReplyIsOfStarted'
    BY <2>2 DEF IInv, DispatchIsLogged, LoggedAs, ReplyIsOfStarted
  <2> QED
    BY <2>3, <2>4, StepConn DEF IInv
<1> QED
  BY <1>1, ArriveKeeps, AnswerKeeps DEF Next

\* Every variable of the gateway keeps its type.
THEOREM TypeCorrect == Spec => []TypeOK
<1>1. Spec => []RateTypeOK
  <2>1. RateIInv => RateTypeOK
    BY DEF RateIInv
  <2> QED
    BY <2>1, UsesLimiter, RateInvariance, PTL
<1>2. IInv => TypeOK
  BY DEF IInv
<1> QED
  BY <1>1, <1>2, InitIInv, StepIInv, PTL DEF Spec

\* However the handlers interleave and however small the log: it holds the
\* newest entries and no others, and each caller's index is the log filtered
\* by that caller, although the two are evicted from separately.
THEOREM AuditAgreesAlways == Spec => []AuditAgrees
<1>1. Spec => []RateTypeOK
  <2>1. RateIInv => RateTypeOK
    BY DEF RateIInv
  <2> QED
    BY <2>1, UsesLimiter, RateInvariance, PTL
<1>2. IInv => AuditAgrees
  BY DEF IInv
<1> QED
  BY <1>1, <1>2, InitIInv, StepIInv, PTL DEF Spec

\* An operativo is logged as dispatched exactly when its caller is told 201,
\* and then the server has started it; the only others it has started are
\* those whose reply is under way or was lost.
THEOREM DispatchLogged == Spec => []DispatchIsLogged
<1>1. Spec => []RateTypeOK
  <2>1. RateIInv => RateTypeOK
    BY DEF RateIInv
  <2> QED
    BY <2>1, UsesLimiter, RateInvariance, PTL
<1>2. IInv => DispatchIsLogged
  BY DEF IInv
<1> QED
  BY <1>1, <1>2, InitIInv, StepIInv, PTL DEF Spec
=============================================================================
