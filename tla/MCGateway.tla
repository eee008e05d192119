------------------------------ MODULE MCGateway ------------------------------
(***************************************************************************)
(* TLC instance of Gateway.                                                *)
(***************************************************************************)
EXTENDS Gateway, TLC

CONSTANTS req1, req2, api1, api2, pathP, pathQ

Limits(rps, burst, window, block) ==
  [rps |-> rps, burst |-> burst, window |-> window, block |-> block]

Endpoint(paths, method, priority, l) ==
  [paths |-> paths, method |-> method, enabled |-> TRUE, priority |-> priority,
   limits |-> l]

Content(status, url, endpoints, defaults) ==
  [status |-> status, url |-> url, endpoints |-> endpoints, limits |-> defaults]

\* Two endpoints of one priority on pathP, of which the second is never reached
\* there; on pathQ a rate of half a request a second; a burst that is negative.
Shop ==
  Content("active", "shop",
    <<Endpoint({pathP}, "GET", 1, Limits(60, 0, 0, 300)),
      Endpoint({pathP, pathQ}, "POST", 1, Limits(1, 0, 0, 0))>>, Limits(0, -1, 0, 300))
\* An endpoint for every method that outranks the others on pathP, with a longer
\* window.
Blog ==
  Content("active", "blog",
    <<Endpoint({pathP}, "*", 2, Limits(60, 5, 2, 600))>>, Unset)
\* Switched off, and moved.
Off == [Shop EXCEPT !.status = "inactive", !.url = "moved"]

MCContents == {Blog, Off}
\* On both APIs the same rules, of which either may be found first.
MCSaved == {(api1 :> Shop), (api1 :> Shop) @@ (api2 :> [Shop EXCEPT !.url = ""])}

MCMethods == {"GET", "get", "POST"}
MCUpper == [m \in MCMethods |-> IF m = "get" THEN "GET" ELSE m]
\* One request while the registry changes twice, and two while it changes once and
\* the process shuts down.
MCWorkloads ==
  {[asks |-> {req1} \X {pathP, pathQ} \X MCMethods, changes |-> 2,
    signal |-> FALSE],
   [asks |-> {<<req1, pathP, "GET">>, <<req2, pathP, "POST">>}, changes |-> 1,
    signal |-> TRUE]}

\* The files of the repository, what is built in, a file that sets nothing, one
\* whose longest block is too short, and one that cannot be parsed.
Development == [EmptyFile EXCEPT !.storage = "memory", !.threshold = 100,
                                 !.block = Minute, !.maxBlock = 5 * Minute]
Staging == [EmptyFile EXCEPT !.storage = "redis", !.addr = "staging",
              !.global = TRUE, !.globalRate = 500 * RateUnit, !.threshold = 5,
              !.block = 15 * Minute, !.maxBlock = 2 * Hour]
Production == [Staging EXCEPT !.addr = "prod", !.globalWindow = Minute,
                 !.threshold = 3, !.probes = 1, !.maxBlock = 24 * Hour,
                 !.decay = Hour, !.sliding = TRUE, !.window = 1,
                 !.strict = TRUE]
Short == [Development EXCEPT !.maxBlock = 30]

Start(env, file, addr) == [env |-> env, file |-> file, addr |-> addr]
MCStarts ==
  {Start("development", Development, "env"), Start("staging", NoFile, "env"),
   Start("production", Production, ""), Start("production", NoFile, ""),
   Start("production", Unreadable, ""), Start("development", EmptyFile, ""),
   Start("development", Short, "")}
=============================================================================
