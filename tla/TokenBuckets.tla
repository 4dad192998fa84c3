----------------------------- MODULE TokenBuckets -----------------------------
(***************************************************************************)
(* What the rate limiter of internal/httpapi/middleware/ratelimit.go       *)
(* promises: every client has a token bucket of its own, which is full     *)
(* before its first request and is never forgotten.                        *)
(*                                                                         *)
(* A token is counted as Den units, so that a bucket that refills by       *)
(* Num / Den tokens in a unit of time holds an integer.                    *)
(***************************************************************************)
EXTENDS Clock

CONSTANTS Keys, Num, Den, Burst

VARIABLES level, verdict

Full == Burst * Den
Least(a, b) == IF a < b THEN a ELSE b

Init ==
  /\ now = FirstTime /\ level = [ k \in Keys |-> Full ] /\ verdict = "none"

\* A request of client k is let through while its bucket holds a token.
Request(k) ==
  /\ \/ /\ level[k] >= Den /\ verdict' = "allowed"
        /\ level' = [ level EXCEPT ![k] = @ - Den ]
     \/ /\ level[k] < Den /\ verdict' = "limited" /\ UNCHANGED level
  /\ UNCHANGED now

Refill ==
  /\ Tick
  /\ level' = [ k \in Keys |-> Least(Full, level[k] + Num) ]
  /\ UNCHANGED verdict

Next == Refill \/ \E k \in Keys : Request(k)
Spec == Init /\ [][Next]_<< now, level, verdict >>
=============================================================================
