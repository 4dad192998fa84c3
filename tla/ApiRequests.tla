----------------------------- MODULE ApiRequests -----------------------------
(***************************************************************************)
(* Requests on their way through the router of internal/httpapi: the rate  *)
(* limiter, then the API keys, then the handler.                           *)
(*                                                                         *)
(* One client pages through the allocations.  Each page spends a token; a  *)
(* 429 makes it wait for as long as Retry-After says.  Others share the    *)
(* limiter with it, each under a key of its own, and the clock with it     *)
(* and with the collectors that write.                                     *)
(***************************************************************************)
EXTENDS RateLimiter, AllocationPages

CONSTANTS
  Client,     \* the key, or the address, of the client that pages
  KeySets     \* the values of API_KEYS: sets of keys

ASSUME RequestAssumption == Client \in Keys /\ KeySets \subseteq SUBSET Keys

VARIABLES
  apiKeys,    \* the keys that APIKeyAuth was given
  notBefore,  \* the client asks again no sooner
  denied      \* how many of its requests in a row were refused with 429

vars == << now, limiterVars, listingVars, apiKeys, notBefore, denied >>

\* APIKeyAuth: without any key it is off.
Authorised(k) == apiKeys = {} \/ k \in apiKeys

Init ==
  /\ now = FirstTime /\ LimiterInit /\ ListingInit
  /\ apiKeys \in KeySets /\ notBefore = FirstTime /\ denied = 0

\* The chain of NewRouter: the limiter before the keys, so that a request
\* without a valid key costs its sender a token all the same.
AskForPage ==
  /\ at = "asking" /\ now >= notBefore
  /\ Request(Client)
  /\ \/ /\ verdict' = "limited"
        /\ notBefore' = now + RetryAfter /\ denied' = denied + 1
        /\ UNCHANGED listingVars
     \/ /\ verdict' = "allowed" /\ ~ Authorised(Client) /\ TurnedAway
        /\ denied' = 0 /\ UNCHANGED notBefore
     \/ /\ verdict' = "allowed" /\ Authorised(Client) /\ Ask
        /\ denied' = 0 /\ UNCHANGED notBefore
  /\ UNCHANGED apiKeys

\* The handler's own steps; the writers and the other clients, as long as the
\* listing is under way.
Ended  == at \in { "done", "refused" }
Handle == Handling /\ UNCHANGED << limiterVars, apiKeys, notBefore, denied >>
Write  == ~ Ended /\ Writing /\ UNCHANGED << limiterVars, apiKeys, notBefore, denied >>
OtherRequest ==
  /\ ~ Ended
  /\ \E k \in Keys \ {Client} : Request(k)
  /\ UNCHANGED << listingVars, apiKeys, notBefore, denied >>
Later == ~ Ended /\ Tick /\ UNCHANGED << limiterVars, listingVars, apiKeys, notBefore, denied >>

Next == AskForPage \/ Handle \/ Write \/ OtherRequest \/ Later
Spec == Init /\ [][Next]_vars

-----------------------------------------------------------------------------
(* Properties                                                              *)

\* A client that is alone on its key and waits for Retry-After is never
\* refused twice running, whatever the others do.
RetryAfterIsEnough == denied <= 1
=============================================================================
