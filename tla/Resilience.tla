----------------------------- MODULE Resilience -----------------------------
(* What stands between a fetch and a service that fails: the status-aware  *)
(* retry of the Kubernetes calls (sources/k8s/retry.py) and the circuit    *)
(* breakers of src/utils/resilience.py.                                    *)
EXTENDS Integers

CONSTANTS
    MaxAttempts,    \* DEFAULT_MAX_ATTEMPTS
    FailMax         \* fail_max of the breakers

ASSUME ResilienceAssumption == MaxAttempts \in Nat \ {0} /\ FailMax \in Nat \ {0}

(* A reply is an HTTP status; an exception without one is a transport      *)
(* failure or something else.                                              *)
Success    == 200
Transport  == 0
OtherError == 1

(* The statuses the code lists, and the rule for the others.               *)
ShouldRetry(reply) ==
    \/ reply = Transport
    \/ reply \in {429, 500, 502, 503, 504}
    \/ reply >= 500

(* call_with_retry, when the attempts would get these replies in turn: the *)
(* reply of the first attempt that is not followed by another.             *)
IsFinal(replies, i) == replies[i] = Success \/ ~ShouldRetry(replies[i]) \/ i = MaxAttempts
CallWithRetry(replies) ==
    replies[CHOOSE i \in 1..MaxAttempts :
              IsFinal(replies, i) /\ \A j \in 1..(i - 1) : ~IsFinal(replies, j)]

(* A pybreaker breaker: it counts exceptions in a row, opens at FailMax,   *)
(* and lets one call try again when the reset timeout is over.             *)
BreakerStates == {"closed", "open", "half-open"}
Breakers == [state : BreakerStates, fails : 0..FailMax]
NewBreaker == [state |-> "closed", fails |-> 0]

Refuses(b)      == b.state = "open"
AfterReturn(b)  == NewBreaker
AfterRaise(b)   ==
    IF b.state = "half-open" \/ b.fails + 1 >= FailMax
    THEN [state |-> "open", fails |-> FailMax]
    ELSE [b EXCEPT !.fails = @ + 1]
AfterTimeout(b) == [b EXCEPT !.state = "half-open"]
=============================================================================
