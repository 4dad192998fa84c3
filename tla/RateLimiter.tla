----------------------------- MODULE RateLimiter -----------------------------
(***************************************************************************)
(* The rate limiter of internal/httpapi/middleware/ratelimit.go.           *)
(*                                                                         *)
(* A client is known by the API key it presents, or else by its address.   *)
(* Its limiter is made at its first request and is forgotten once it has   *)
(* been idle for longer than the TTL: nothing runs in the background, the  *)
(* first request that comes more than a TTL after the last sweep sweeps.   *)
(* The limiter of golang.org/x/time/rate keeps the tokens it had when it   *)
(* last let a request through, and adds what has accrued since.            *)
(***************************************************************************)
EXTENDS Clock

CONSTANTS
  Keys,       \* what clientKey returns
  Num, Den,   \* API_RATE_LIMIT_PER_SECOND = Num / Den
  Burst,      \* API_RATE_LIMIT_BURST
  TTL

\* The comment on sweep says that a bucket has refilled when it is forgotten.
\* The defaults (20 a second, 40, ten minutes) are far from not doing so, and
\* config.Validate does not ask for it.
ASSUME LimiterAssumption ==
  /\ Num \in Nat \ {0} /\ Den \in Nat \ {0} /\ Burst \in Nat \ {0}
  /\ TTL \in Nat
  /\ Burst * Den <= Num * TTL

VARIABLES
  known,      \* the keys of the limiters map
  tokens,     \* what each limiter held at last
  last,       \* when it last let a request through
  lastSeen,   \* when its client last asked
  lastSweep,
  verdict     \* the answer to the last request

limiterVars == << known, tokens, last, lastSeen, lastSweep, verdict >>

-----------------------------------------------------------------------------

Least(a, b) == IF a < b THEN a ELSE b
Full  == Burst * Den

\* time.Time's zero value: longer ago than any TTL.
Never == FirstTime - TTL - 1

\* What limiter k holds at this moment, when it is known.
Accrued(k) == Least(Full, tokens[k] + Num * (now - last[k]))

LimiterInit ==
  /\ known = {} /\ lastSweep = Never /\ verdict = "none"
  /\ tokens = [ k \in Keys |-> 0 ] /\ last = [ k \in Keys |-> FirstTime ]
  /\ lastSeen = [ k \in Keys |-> FirstTime ]

\* A mutant of Idle: an idle time of a single unit is taken for long.
IdleTooSoon(k) == now - lastSeen[k] > 0

Idle(k) == now - lastSeen[k] > TTL

\* What sweep leaves, when it is due.
Kept == IF now - lastSweep > TTL THEN { k \in known : ~ Idle(k) } ELSE known

\* allow, under the mutex: sweep, look the limiter up or make a full one, and
\* ask it.  The last line is Limiter.Allow: a refusal leaves the limiter alone.
Request(k) ==
  LET held == IF k \in Kept THEN Accrued(k) ELSE Full IN
  /\ known' = Kept \cup {k}
  /\ lastSweep' = IF now - lastSweep > TTL THEN now ELSE lastSweep
  /\ lastSeen' = [ lastSeen EXCEPT ![k] = now ]
  /\ IF held >= Den
     THEN /\ verdict' = "allowed"
          /\ tokens' = [ tokens EXCEPT ![k] = held - Den ]
          /\ last' = [ last EXCEPT ![k] = now ]
     ELSE /\ verdict' = "limited" /\ UNCHANGED << tokens, last >>
  /\ UNCHANGED now

\* A mutant of RetryAfter: the wait is rounded down.
RetryRoundedDown == IF Num < Den THEN Den \div Num ELSE 1

\* The Retry-After of a 429, in seconds.
RetryAfter == IF Num < Den THEN Den \div Num + 1 ELSE 1

LimiterSpec ==
  /\ now = FirstTime /\ LimiterInit
  /\ [][ (Tick /\ UNCHANGED limiterVars) \/ (\E k \in Keys : Request(k)) ]_<< now, limiterVars >>

-----------------------------------------------------------------------------
(* Properties                                                              *)

RateLimiterTypeOK ==
  /\ now \in FirstTime .. LastTime /\ known \subseteq Keys
  /\ tokens \in [ Keys -> 0 .. Full ] /\ last \in [ Keys -> FirstTime .. now ]
  /\ lastSeen \in [ Keys -> FirstTime .. now ] /\ lastSweep \in Int
  /\ verdict \in { "none", "allowed", "limited" }

\* A client that is not known has what a new limiter would give it.
Level == [ k \in Keys |-> IF k \in known THEN Accrued(k) ELSE Full ]

Buckets == INSTANCE TokenBuckets WITH level <- Level

\* Forgetting idle clients is invisible: the limiter is one bucket for each
\* client for ever, so nobody gains a token by staying away, and the requests
\* of one client cost another none.
LimiterIsBuckets == Buckets!Spec
=============================================================================
