----------------------------- MODULE RateLimiter -----------------------------
(***************************************************************************)
(* InMemoryRateLimiter (gateway/rate_limiter.py): a sliding window of      *)
(* request times per caller. A request is known by its place among those   *)
(* the caller was ever granted, so the list of timestamps is a set of such *)
(* places, its length a cardinality and its head the least of them.        *)
(***************************************************************************)
EXTENDS Naturals, Sequences, FiniteSets

CONSTANTS Callers,      \* the caller ids requests are counted under
          MaxRequests,  \* max_requests; with 0 the limiter is off and keeps no state
          Window,       \* window_seconds
          MaxNow        \* bound: the clock stops here

ASSUME RateAssumption == /\ MaxRequests \in Nat \ {0}
                         /\ Window \in Nat \ {0}
                         /\ MaxNow \in Nat

VARIABLES
  now,       \* time.monotonic()
  granted,   \* caller -> the times of all requests ever granted (history)
  requests,  \* caller -> _requests: which of those are in its list
  promise    \* caller -> when the last refusal said to come back, 0 for none

limiter == <<now, granted, requests, promise>>

RateInit == /\ now = 0
            /\ granted = [c \in Callers |-> <<>>]
            /\ requests = [c \in Callers |-> {}]
            /\ promise = [c \in Callers |-> 0]

\* Mutant of Recent: a timestamp is forgotten a second early.
Recent_short(c) == {i \in requests[c] : granted[c][i] + Window > now + 1}

\* The timestamps the pruning keeps: ts > now - window.
Recent(c) == {i \in requests[c] : granted[c][i] + Window > now}

HasRoom(c) == Cardinality(Recent(c)) < MaxRequests

Oldest(S) == CHOOSE i \in S : \A j \in S : i <= j

\* check() allows the request and remembers it.
Grant(c) == /\ HasRoom(c)
            /\ granted' = [granted EXCEPT ![c] = Append(@, now)]
            /\ requests' = [requests EXCEPT ![c] = Recent(c) \cup {Len(granted[c]) + 1}]
            /\ promise' = [promise EXCEPT ![c] = 0]
            /\ UNCHANGED now

\* Mutant of RetryAt: retry_after is counted from the newest timestamp.
RetryAt_newest(c) == granted[c][Len(granted[c])] + Window

\* now + retry_after: when the oldest remembered request leaves the window.
RetryAt(c) == granted[c][Oldest(Recent(c))] + Window

\* check() refuses and says how long to wait.
Refuse(c) == /\ ~HasRoom(c)
             /\ requests' = [requests EXCEPT ![c] = Recent(c)]
             /\ promise' = [promise EXCEPT ![c] = RetryAt(c)]
             /\ UNCHANGED <<now, granted>>

Tick == /\ now < MaxNow
        /\ now' = now + 1
        /\ UNCHANGED <<granted, requests, promise>>

RateNext == \/ \E c \in Callers : Grant(c) \/ Refuse(c)
            \/ Tick

RateSpec == RateInit /\ [][RateNext]_limiter

-----------------------------------------------------------------------------
RateTypeOK == /\ now \in Nat
              /\ granted \in [Callers -> Seq(Nat)]
              /\ requests \in [Callers -> SUBSET Nat]
              /\ promise \in [Callers -> Nat]

\* The limit holds for every window a caller could choose, not only for
\* those that begin or end at a check: of any MaxRequests + 1 requests
\* granted in a row the last is at least Window after the first, although
\* expired timestamps are forgotten.
LimitHolds ==
  \A c \in Callers :
    \A i, j \in 1 .. Len(granted[c]) :
      j = i + MaxRequests => granted[c][j] >= granted[c][i] + Window

\* The caller who waits as long as the last refusal said is let in, and no
\* earlier moment would have done. This is what check returns: the gateway
\* answers a constant 60 seconds in its place (app.py 219-220).
RetryAfterIsExact ==
  \A c \in Callers : promise[c] # 0 => (HasRoom(c) <=> now >= promise[c])
-----------------------------------------------------------------------------
(* The inductive invariant.                                                *)

\* Grants are in the order of their times, none in the future.
Ordered == \A c \in Callers :
  \A i, j \in 1 .. Len(granted[c]) :
    /\ granted[c][i] <= now
    /\ i <= j => granted[c][i] <= granted[c][j]

\* What was forgotten has left the window for good.
Remembered == \A c \in Callers :
  /\ requests[c] \subseteq 1 .. Len(granted[c])
  /\ \A i \in 1 .. Len(granted[c]) :
       i \notin requests[c] => granted[c][i] + Window <= now

\* A refusal points at the request whose expiry makes room.
PromiseKept == \A c \in Callers :
  promise[c] # 0 =>
    /\ Len(granted[c]) >= MaxRequests
    /\ promise[c] = granted[c][Len(granted[c]) - MaxRequests + 1] + Window

RateIInv == RateTypeOK /\ Ordered /\ Remembered /\ LimitHolds /\ PromiseKept
=============================================================================
