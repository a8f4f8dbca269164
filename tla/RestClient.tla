------------------------------- MODULE RestClient -----------------------------
(* services/http_client.py: requests to the exchange behind a token bucket,   *)
(* repeated with a growing delay when they are rate limited, and the counts   *)
(* kept of them. Tokens are counted in ticks: one token is Unit of them, and  *)
(* a tick refills one. Cancelling a request is an exception at its await.     *)
EXTENDS Runtime, SequencesExt

CONSTANTS Requests,     \* the logical calls
          Endpoint,       \* the endpoint each of them names
          Unit, Burst,    \* ticks per token, and the most the bucket holds, in ticks
          MaxRetries, BaseDelay

ASSUME RestAssumption ==
  /\ IsFiniteSet(Requests)
  /\ Unit \in Nat \ {0} /\ Burst \in Nat /\ MaxRetries \in Nat /\ BaseDelay \in Nat

VARIABLES limiter,        \* the bucket, and the requests at its lock, the holder first
          request,        \* where each request is
          counted,        \* the counters of the caller's class and of the endpoints
          window          \* the endpoints with an entry in the window that is sampled

restVars == <<limiter, request, counted, window>>

NotStarted == [pc |-> "new", attempt |-> 0, wake |-> 0, delay |-> 0]
FreshLimiter == [tokens |-> Burst, last |-> now, queue |-> << >>, grants |-> << >>]
Uncounted == [calls |-> 0, attempts |-> 0, rate_limited |-> 0, errors |-> 0, http_ok |-> 0, http_failed |-> 0, http_limited |-> 0]
RestInit ==
  /\ limiter = FreshLimiter /\ request = [r \in Requests |-> NotStarted]
  /\ counted = Uncounted /\ window = {}
(* A new process has a full bucket. *)
restart_rest ==
  /\ limiter' = FreshLimiter /\ request' = [r \in Requests |-> NotStarted]
  /\ counted' = Uncounted /\ window' = {}

Add(fields) == counted' = [f \in DOMAIN counted |-> IF f \in fields THEN counted[f] + 1 ELSE counted[f]]
Goes(r, pc) == request' = [request EXCEPT ![r].pc = pc]
PlacesOf(queue, r) == {i \in 1..Len(queue) : queue[i] = r}
WithoutRequest(queue, r) == IF PlacesOf(queue, r) = {} THEN queue ELSE RemoveAt(queue, CHOOSE i \in PlacesOf(queue, r) : TRUE)

(* call_with_backoff up to its wait for the limiter. *)
start_request(r) ==
  /\ request[r].pc = "new" /\ r \in budget.requests
  /\ request' = [request EXCEPT ![r] = [pc |-> "limiter", attempt |-> 0, wake |-> 0, delay |-> BaseDelay]]
  /\ limiter' = [limiter EXCEPT !.queue = Append(@, r)]
  /\ Add({"calls", "attempts"})
  /\ window' = window \cup {Endpoint[r]}
  /\ UNCHANGED <<now, budget>>

(* Faulty variant: the wait is not paid for. *)
refilled_twice == IF limiter.tokens + 2 * (now - limiter.last) <= Burst THEN limiter.tokens + 2 * (now - limiter.last) ELSE Burst
refilled == IF limiter.tokens + (now - limiter.last) <= Burst THEN limiter.tokens + (now - limiter.last) ELSE Burst
(* The holder of the lock, at first and whenever its sleep is over. *)
acquire ==
  /\ limiter.queue # << >>
  /\ LET r == Head(limiter.queue) IN
       /\ request[r].wake <= now
       /\ \/ /\ refilled >= Unit
             /\ limiter' = [tokens |-> refilled - Unit, last |-> now, queue |-> Tail(limiter.queue), grants |-> Append(limiter.grants, now)]
             /\ Goes(r, "network")
          \/ /\ refilled < Unit
             /\ limiter' = [limiter EXCEPT !.tokens = refilled, !.last = now]
             /\ request' = [request EXCEPT ![r].wake = now + Unit - refilled]
  /\ UNCHANGED <<counted, window, now, budget>>

answered(r) ==
  /\ request[r].pc = "network" /\ Goes(r, "returned") /\ Add({"http_ok"})
  /\ UNCHANGED <<limiter, window, now, budget>>

(* The handler takes the endpoint's window entry to be there still: the       *)
(* sampler may have cleared it meanwhile, and it then raises KeyError.        *)
refused(r) ==
  /\ Takes("refusals") /\ request[r].pc = "network"
  /\ IF Endpoint[r] \in window THEN Goes(r, "raised") /\ Add({"http_failed", "errors"})
                               ELSE Goes(r, "key_error") /\ Add({"http_failed"})
  /\ UNCHANGED <<limiter, window, now, budget>>
rate_limited(r) ==
  /\ request[r].pc = "network" /\ Spends("limits")
  /\ IF Endpoint[r] \notin window THEN Goes(r, "key_error") /\ Add({"http_limited"})
     ELSE IF request[r].attempt = MaxRetries THEN Goes(r, "raised") /\ Add({"http_limited", "rate_limited", "errors"})
     ELSE /\ request' = [request EXCEPT ![r].pc = "backoff", ![r].wake = now + request[r].delay, ![r].delay = 2 * @]
          /\ Add({"http_limited", "rate_limited"})
  /\ UNCHANGED <<limiter, window, now>>
retry(r) ==
  /\ request[r].pc = "backoff" /\ request[r].wake <= now
  /\ request' = [request EXCEPT ![r].pc = "limiter", ![r].wake = 0, ![r].attempt = @ + 1]
  /\ limiter' = [limiter EXCEPT !.queue = Append(@, r)]
  /\ Add({"attempts"})
  /\ UNCHANGED <<window, now, budget>>

(* At the limiter, on the network or in its backoff. *)
cancel_request(r) ==
  /\ request[r].pc \in {"limiter", "network", "backoff"} /\ Spends("cancels")
  /\ Goes(r, IF request[r].pc = "backoff" THEN "cancelled" ELSE "cut_short")
  /\ limiter' = [limiter EXCEPT !.queue = WithoutRequest(@, r)]
  /\ UNCHANGED <<counted, window, now>>

reset_rest_latency_window == window' = {}

RestNext ==
  \/ acquire
  \/ \E r \in Requests : start_request(r) \/ answered(r) \/ refused(r) \/ rate_limited(r) \/ retry(r) \/ cancel_request(r)

(* No stretch of time sees more requests leave than the bucket held and       *)
(* refilled in it, however they queue, sleep, retry or are cancelled.         *)
RateKept ==
  \A i, j \in 1..Len(limiter.grants) : i <= j => (j - i + 1) * Unit <= Burst + limiter.grants[j] - limiter.grants[i]

(* Every attempt of the class ends in one count of its endpoint: the two      *)
(* tables the reports join tell of the same requests.                         *)
In(pcs) == Cardinality({r \in Requests : request[r].pc \in pcs})
AttemptsAddUp ==
  counted.attempts = counted.http_ok + counted.http_failed + counted.http_limited + In({"limiter", "network", "cut_short"})
=============================================================================
