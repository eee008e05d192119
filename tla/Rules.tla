-------------------------------- MODULE Rules --------------------------------
(***************************************************************************)
(* The rules a registry holds and the limits they give a request           *)
(* (middleware/storage/file/registry.go, GetCompiledRule, and              *)
(* middleware/routing/middleware.go, getRateLimits).                       *)
(*                                                                         *)
(* A registry is a function from the ids of APIs to their registrations.   *)
(* Base paths and patterns are abstracted to what they select: an endpoint *)
(* has the set `paths' of request paths that begin with the API's base     *)
(* path and match the endpoint's pattern behind it.  Rates are counted in  *)
(* units of 1/RateUnit requests a second, durations in seconds; 0 in a     *)
(* registration means not set.                                             *)
(***************************************************************************)
EXTENDS Integers, Sequences

CONSTANTS
  RateUnit,  \* units of a rate that make one request a second
  Nothing    \* no API, no rule, nobody

ASSUME RateUnitAssumption == RateUnit \in Nat \ {0}

LimitFields == {"rps", "burst", "window", "block"}
Unset == [f \in LimitFields |-> 0]

\* What GetCompiledRule returns when nothing matches: IsExcluded.
Excluded == [api |-> Nothing, endpoint |-> 0, method |-> "", limits |-> Unset]

\* The endpoints that match a path, by the API's id and the endpoint's place.
Matches(apis, path) ==
  {m \in UNION {{a} \X DOMAIN apis[a].endpoints : a \in DOMAIN apis} :
     LET ep == apis[m[1]].endpoints[m[2]]
     IN  /\ apis[m[1]].status = "active"
         /\ ep.enabled
         /\ path \in ep.paths}

Priority(apis, m) == apis[m[1]].endpoints[m[2]].priority

\* The highest priority wins.  Of equal ones the first met wins, for the paths
\* compared as a tie break are both the request's: within an API that is the
\* first in order, between APIs the order of a map decides.
Chosen(apis, path) ==
  {m \in Matches(apis, path) :
     \A n \in Matches(apis, path) :
       /\ Priority(apis, n) <= Priority(apis, m)
       /\ Priority(apis, n) = Priority(apis, m) /\ n[1] = m[1] => m[2] <= n[2]}

\* Limits that are zero on the endpoint are those of the API.
Compiled(api, m) ==
  LET ep == api.endpoints[m[2]]
  IN  [api |-> m[1], endpoint |-> m[2], method |-> ep.method,
       limits |-> [f \in LimitFields |-> IF ep.limits[f] = 0 THEN api.limits[f]
                                                             ELSE ep.limits[f]]]

\* The rules GetCompiledRule may return for a path.
GetCompiledRule(apis, path) ==
  IF Chosen(apis, path) = {} THEN {Excluded}
  ELSE {Compiled(apis[m[1]], m) : m \in Chosen(apis, path)}

Accepts(rule, method) == rule.method \in {"*", "", method}

\* The limits the static configuration gives.  Its path limits are always empty.
StaticLimits(config) == [f \in LimitFields |-> config[f]]

\* Mutant: every limit of the rule that is set replaces the static one.
OverlaySet(config, rule) ==
  [f \in LimitFields |-> IF rule.limits[f] # 0 THEN rule.limits[f] ELSE config[f]]

\* Mutant: the rule's limits are taken as they are.
OverlayAll(config, rule) == rule.limits

\* The positive limits of the rule replace the static ones.
Overlay(config, rule) ==
  [f \in LimitFields |-> IF rule.limits[f] > 0 THEN rule.limits[f] ELSE config[f]]

\* getRateLimits of the middleware, with the rule that was found.
RequestLimits(config, rule, method) ==
  IF rule # Excluded /\ Accepts(rule, method) THEN Overlay(config, rule)
                                              ELSE StaticLimits(config)

\* int(rps * windowSize.Seconds()), and the burst if that is larger.
LimitOf(l) ==
  LET rated == (l.rps * l.window) \div RateUnit
  IN  IF rated < l.burst THEN l.burst ELSE rated
=============================================================================
