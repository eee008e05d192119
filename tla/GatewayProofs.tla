---------------------------- MODULE GatewayProofs ----------------------------
(***************************************************************************)
(* Gateway, for any requests, rules, configurations and workloads: what a  *)
(* request is forwarded by was registered while the request was served,    *)
(* its limits are those of the rule it is routed by, and a process that    *)
(* serves has settings to serve with.                                      *)
(***************************************************************************)
EXTENDS Gateway, TLAPS

\* A record with the fields of a request.
IsRequest(x) ==
  x = [at |-> x.at, path |-> x.path, method |-> x.method, limits |-> x.limits,
       rule |-> x.rule, url |-> x.url, since |-> x.since]

Shape ==
  /\ DOMAIN req = Requests
  /\ req = [r \in Requests |-> req[r]]
  /\ \A r \in Requests : IsRequest(req[r])

\* Nothing is served before the registry is loaded.
NoneYet == phase \in {"configure", "ping", "load"} =>
             \A r \in Requests : req[r].at = "new"

\* The registry is among those a request has seen, until it is forwarded.
Looking == {"limits", "limiter", "route", "find", "forward"}
Current == \A r \in Requests : req[r].at \in Looking => apis \in req[r].since

\* The limits are those of a rule that was found.
Given(x, cfg) ==
  \E then \in x.since : \E found \in GetCompiledRule(then, x.path) :
    x.limits = RequestLimits(cfg, found, x.method)
Resolved ==
  \A r \in Requests :
    req[r].at \in Looking \ {"limits"} => Given(req[r], config)

\* The rule was found, and is for the method.
Found(x) ==
  /\ \E then \in x.since : x.rule \in GetCompiledRule(then, x.path)
  /\ x.rule # Excluded
  /\ x.rule.method \in {"", "*", Upper[x.method]}
Routed == \A r \in Requests : req[r].at \in {"find", "forward"} => Found(req[r])

\* The address was the API's.
Located(x) ==
  \E then \in x.since :
    x.rule.api \in DOMAIN then /\ then[x.rule.api].url = x.url
Addressed == \A r \in Requests : req[r].at = "forward" => Located(req[r])

Inv == Shape /\ NoneYet /\ Current /\ Resolved /\ Routed /\ Addressed

\* What the invariant says of one request, the present registry and the
\* configuration.
Holds(x, reg, cfg) ==
  /\ IsRequest(x)
  /\ x.at \in Looking => reg \in x.since
  /\ x.at \in Looking \ {"limits"} => Given(x, cfg)
  /\ x.at \in {"find", "forward"} => Found(x)
  /\ x.at = "forward" => Located(x)

\* The invariant, request by request.
LEMMA Split ==
  Inv <=> /\ DOMAIN req = Requests /\ req = [r \in Requests |-> req[r]]
          /\ NoneYet
          /\ \A r \in Requests : Holds(req[r], apis, config)
BY DEF Inv, Shape, Current, Resolved, Routed, Addressed, Holds

\* The requests that wait, and those that are over, satisfy it.
LEMMA Fresh ==
  ASSUME NEW reg, NEW cfg
  PROVE  Holds(NewRequest, reg, cfg) /\ Holds(Finished, reg, cfg)
BY DEF Holds, NewRequest, Finished, IsRequest, Looking

\* A step of one request, which leaves the registry alone, keeps the invariant if
\* that request goes on satisfying it.
LEMMA OneRequest ==
  ASSUME Inv, NEW r \in Requests, NEW x, Becomes(r, x), Holds(x, apis, config),
         Running, UNCHANGED <<server, registry>>
  PROVE  Inv'
<1>1. DOMAIN req = Requests /\ req = [s \in Requests |-> req[s]]
  BY DEF Inv, Shape
<1>2. req' = [s \in Requests |-> IF s = r THEN x ELSE req[s]]
  BY <1>1 DEF Becomes
<1>3. \A s \in Requests : Holds(req'[s], apis, config)
  BY <1>2, Split
<1>4. NoneYet'
  BY DEF NoneYet, Running, server
<1>5. apis' = apis /\ config' = config
  BY DEF registry, server
<1>6. \A s \in Requests : Holds(req'[s], apis', config')
  BY <1>3, <1>5
<1>7. DOMAIN req' = Requests /\ req' = [s \in Requests |-> req'[s]]
  BY <1>2
<1> QED
  BY <1>4, <1>6, <1>7 DEF Inv, Shape, Current, Resolved, Routed, Addressed, Holds

\* A step that leaves requests and registry alone keeps the invariant, if it does
\* not go back to the start.
LEMMA NoRequest ==
  ASSUME Inv, UNCHANGED <<req, apis>>,
         config' = config \/ phase = "configure",
         phase' \in {"configure", "ping", "load"} =>
           phase \in {"configure", "ping", "load"}
  PROVE  Inv'
<1>1. \A r \in Requests : Holds(req[r], apis, config')
  BY Split DEF Inv, NoneYet, Holds, Looking
<1>2. NoneYet'
  BY DEF Inv, NoneYet
<1>3. DOMAIN req = Requests /\ req = [r \in Requests |-> req[r]]
  BY DEF Inv, Shape
<1> QED
  BY <1>1, <1>2, <1>3 DEF Inv, Shape, Current, Resolved, Routed, Addressed, Holds

\* A change of the registry adds the new registry to those seen.
LEMMA InstallKeeps ==
  ASSUME Inv, NEW new, Install(new)
  PROVE  Inv'
<1> DEFINE next(r) == IF r \in Pending THEN [req[r] EXCEPT !.since = @ \cup {new}]
                                       ELSE req[r]
<1>1. req' = [r \in Requests |-> next(r)] /\ apis' = new /\ config' = config
  BY DEF Install, server
<1>2. ASSUME NEW r \in Requests
      PROVE  Holds(next(r), new, config)
  <2>1. Holds(req[r], apis, config)
    BY Split
  <2>2. CASE r \notin Pending
    <3>1. next(r) = req[r] /\ req[r].at \in {"new", "done"}
      BY <2>2 DEF Pending
    <3> QED
      BY <2>1, <3>1 DEF Holds, Looking
  <2>3. CASE r \in Pending
    <3> DEFINE x == req[r]  y == next(r)
    <3>1. IsRequest(x)
      BY <2>1 DEF Holds
    <3>2. y = [at |-> x.at, path |-> x.path, method |-> x.method,
               limits |-> x.limits, rule |-> x.rule, url |-> x.url,
               since |-> x.since \cup {new}]
      BY <2>3, <3>1 DEF IsRequest
    <3> HIDE DEF x, y
    <3>3. IsRequest(y)
      BY <3>2 DEF IsRequest
    <3>4. y.at = x.at /\ y.path = x.path /\ y.method = x.method
          /\ y.rule = x.rule /\ y.url = x.url /\ y.since = x.since \cup {new}
          /\ y.limits = x.limits
      BY <3>2
    <3>5. Found(x) => Found(y)
      BY <3>4 DEF Found
    <3>6. Located(x) => Located(y)
      BY <3>4 DEF Located
    <3>7. Given(x, config) => Given(y, config)
      BY <3>4 DEF Given
    <3>8. Holds(x, apis, config)
      BY <2>1 DEF x
    <3>9. Holds(y, new, config)
      BY <3>3, <3>4, <3>5, <3>6, <3>7, <3>8 DEF Holds
    <3> QED
      BY <3>9 DEF y
  <2> QED
    BY <2>2, <2>3
<1>3. \A r \in Requests : Holds(req'[r], apis', config')
  <2> HIDE DEF next
  <2> QED
    BY <1>1, <1>2
<1>4. DOMAIN req' = Requests /\ req' = [r \in Requests |-> req'[r]]
  BY <1>1
<1>5. NoneYet'
  BY DEF NoneYet, Install, Running, server
<1> QED
  BY <1>3, <1>4, <1>5 DEF Inv, Shape, Current, Resolved, Routed, Addressed, Holds

\* A request that has moved on, having set one field or none.
LEMMA MovedRequest ==
  ASSUME NEW x, IsRequest(x), NEW step
  PROVE  Moved(x, step) = [at |-> step, path |-> x.path, method |-> x.method,
                           limits |-> x.limits, rule |-> x.rule, url |-> x.url,
                           since |-> x.since]
BY DEF IsRequest, Moved

LEMMA Limited ==
  ASSUME NEW x, IsRequest(x), NEW l
  PROVE  [x EXCEPT !.limits = l] =
           [at |-> x.at, path |-> x.path, method |-> x.method, limits |-> l,
            rule |-> x.rule, url |-> x.url, since |-> x.since]
BY DEF IsRequest

LEMMA Ruled ==
  ASSUME NEW x, IsRequest(x), NEW found
  PROVE  [x EXCEPT !.rule = found] =
           [at |-> x.at, path |-> x.path, method |-> x.method,
            limits |-> x.limits, rule |-> found, url |-> x.url,
            since |-> x.since]
BY DEF IsRequest

LEMMA Addressing ==
  ASSUME NEW x, IsRequest(x), NEW u
  PROVE  [x EXCEPT !.url = u] =
           [at |-> x.at, path |-> x.path, method |-> x.method,
            limits |-> x.limits, rule |-> x.rule, url |-> u,
            since |-> x.since]
BY DEF IsRequest

\* A request is found as the invariant says.
LEMMA HoldsAt ==
  ASSUME Inv, NEW r \in Requests, NEW step, At(r, step)
  PROVE  Holds(req[r], apis, config) /\ IsRequest(req[r]) /\ req[r].at = step /\ Running
BY Split DEF At, Holds

-----------------------------------------------------------------------------
(* One lemma for each step of a request that sets something.               *)

LEMMA ArriveKeeps ==
  ASSUME Inv, NEW r \in Requests, NEW p, NEW m, Arrive(r, p, m)
  PROVE  Inv'
<1> DEFINE y == [at |-> "limits", path |-> p, method |-> m, limits |-> Unset,
                 rule |-> Excluded, url |-> Nothing, since |-> {apis}]
<1>1. Holds(y, apis, config)
  BY DEF Holds, IsRequest, Looking
<1>2. Becomes(r, y)
  BY DEF Arrive
<1> QED
  BY <1>1, <1>2, OneRequest DEF Arrive, At

LEMMA ResolveLimitsKeeps ==
  ASSUME Inv, NEW r \in Requests, ResolveLimits(r)
  PROVE  Inv'
<1>1. PICK found \in GetCompiledRule(apis, req[r].path) :
        Becomes(r, Moved([req[r] EXCEPT
          !.limits = RequestLimits(config, found, req[r].method)], "limiter"))
  BY DEF ResolveLimits
<1> DEFINE l == RequestLimits(config, found, req[r].method)
           x == [req[r] EXCEPT !.limits = l]
           y == Moved(x, "limiter")
<1>2. Holds(req[r], apis, config) /\ IsRequest(req[r]) /\ req[r].at = "limits"
  BY HoldsAt DEF ResolveLimits
<1> HIDE DEF l
<1>3. x = [at |-> req[r].at, path |-> req[r].path, method |-> req[r].method,
           limits |-> l, rule |-> req[r].rule, url |-> req[r].url,
           since |-> req[r].since]
  BY <1>2, Limited
<1> HIDE DEF x
<1>4. y = [at |-> "limiter", path |-> x.path, method |-> x.method,
           limits |-> x.limits, rule |-> x.rule, url |-> x.url,
           since |-> x.since]
  BY <1>3, MovedRequest DEF IsRequest
<1> HIDE DEF y
<1>5. y.at = "limiter" /\ y.path = req[r].path /\ y.method = req[r].method
      /\ y.limits = l /\ y.since = req[r].since /\ IsRequest(y)
  BY <1>3, <1>4 DEF IsRequest
<1>6. apis \in y.since
  BY <1>2, <1>5 DEF Holds, Looking
<1>7. Given(y, config)
  BY <1>5, <1>6 DEF Given, l
<1>8. Holds(y, apis, config)
  BY <1>5, <1>6, <1>7 DEF Holds
<1>9. Becomes(r, y)
  BY <1>1 DEF x, y, l
<1> QED
  BY <1>8, <1>9, OneRequest DEF ResolveLimits, At

LEMMA LimitKeeps ==
  ASSUME Inv, NEW r \in Requests, Limit(r)
  PROVE  Inv'
<1> DEFINE y == Moved(req[r], "route")
<1>1. Holds(req[r], apis, config) /\ IsRequest(req[r]) /\ req[r].at = "limiter"
  BY HoldsAt DEF Limit
<1>2. y = [at |-> "route", path |-> req[r].path, method |-> req[r].method,
           limits |-> req[r].limits, rule |-> req[r].rule, url |-> req[r].url,
           since |-> req[r].since]
  BY <1>1, MovedRequest
<1> HIDE DEF y
<1>3. y.path = req[r].path /\ y.method = req[r].method /\ y.since = req[r].since
      /\ y.limits = req[r].limits /\ y.at = "route" /\ IsRequest(y)
  BY <1>2 DEF IsRequest
<1>4. Given(y, config)
  BY <1>1, <1>3 DEF Given, Holds, Looking
<1>5. Holds(y, apis, config)
  BY <1>1, <1>3, <1>4 DEF Holds, Looking
<1>6. Becomes(r, y) \/ Becomes(r, Finished)
  BY DEF Limit, y
<1> QED
  BY <1>5, <1>6, Fresh, OneRequest DEF Limit, At

\* The rule is found in the present registry, which the request has seen.
LEMMA RouteKeeps ==
  ASSUME Inv, NEW r \in Requests, Route(r)
  PROVE  Inv'
<1>1. PICK found \in GetCompiledRule(apis, req[r].path) :
        Becomes(r, IF found # Excluded /\ Accepts(found, Upper[req[r].method])
                   THEN Moved([req[r] EXCEPT !.rule = found], "find")
                   ELSE Finished)
  BY DEF Route
<1>2. Holds(req[r], apis, config) /\ IsRequest(req[r]) /\ req[r].at = "route"
  BY HoldsAt DEF Route
<1>3. CASE ~(found # Excluded /\ Accepts(found, Upper[req[r].method]))
  <2>1. Becomes(r, Finished)
    BY <1>1, <1>3
  <2> QED
    BY <2>1, Fresh, OneRequest DEF Route, At
<1>4. CASE found # Excluded /\ Accepts(found, Upper[req[r].method])
  <2> DEFINE x == [req[r] EXCEPT !.rule = found]
             y == Moved(x, "find")
  <2>1. x = [at |-> req[r].at, path |-> req[r].path, method |-> req[r].method,
             limits |-> req[r].limits, rule |-> found, url |-> req[r].url,
             since |-> req[r].since]
    BY <1>2, Ruled
  <2>2. Becomes(r, y)
    BY <1>1, <1>4
  <2> HIDE DEF x
  <2>3. y = [at |-> "find", path |-> x.path, method |-> x.method,
             limits |-> x.limits, rule |-> x.rule, url |-> x.url,
             since |-> x.since]
    BY <2>1, MovedRequest DEF IsRequest
  <2> HIDE DEF y
  <2>4. y.rule = found /\ y.path = req[r].path /\ y.method = req[r].method
        /\ y.since = req[r].since /\ y.at = "find" /\ IsRequest(y)
        /\ y.limits = req[r].limits
    BY <2>1, <2>3 DEF IsRequest
  <2>5. apis \in y.since /\ Given(y, config)
    BY <1>2, <2>4 DEF Holds, Looking, Given
  <2>6. found.method \in {"", "*", Upper[y.method]}
    BY <1>4, <2>4 DEF Accepts
  <2>7. Found(y)
    BY <1>4, <2>4, <2>5, <2>6 DEF Found
  <2>8. Holds(y, apis, config)
    BY <2>4, <2>5, <2>7 DEF Holds
  <2> QED
    BY <2>2, <2>8, OneRequest DEF Route, At
<1> QED
  BY <1>3, <1>4

\* So is the address.
LEMMA FindAPIKeeps ==
  ASSUME Inv, NEW r \in Requests, FindAPI(r)
  PROVE  Inv'
<1> DEFINE a == req[r].rule.api
<1>1. Becomes(r, IF a \in DOMAIN apis /\ apis[a].url # ""
                 THEN Moved([req[r] EXCEPT !.url = apis[a].url], "forward")
                 ELSE Finished)
  BY DEF FindAPI
<1>2. Holds(req[r], apis, config) /\ IsRequest(req[r]) /\ req[r].at = "find"
  BY HoldsAt DEF FindAPI
<1>3. CASE ~(a \in DOMAIN apis /\ apis[a].url # "")
  <2>1. Becomes(r, Finished)
    BY <1>1, <1>3
  <2> QED
    BY <2>1, Fresh, OneRequest DEF FindAPI, At
<1>4. CASE a \in DOMAIN apis /\ apis[a].url # ""
  <2> DEFINE u == apis[a].url
             x == [req[r] EXCEPT !.url = u]
             y == Moved(x, "forward")
  <2>2. Becomes(r, y)
    BY <1>1, <1>4
  <2> HIDE DEF u
  <2>1. x = [at |-> req[r].at, path |-> req[r].path, method |-> req[r].method,
             limits |-> req[r].limits, rule |-> req[r].rule, url |-> u,
             since |-> req[r].since]
    BY <1>2, Addressing
  <2> HIDE DEF x
  <2>3. y = [at |-> "forward", path |-> x.path, method |-> x.method,
             limits |-> x.limits, rule |-> x.rule, url |-> x.url,
             since |-> x.since]
    BY <2>1, MovedRequest DEF IsRequest
  <2> HIDE DEF y
  <2>4. y.rule = req[r].rule /\ y.path = req[r].path /\ y.url = u
        /\ y.method = req[r].method /\ y.since = req[r].since
        /\ y.at = "forward" /\ IsRequest(y) /\ y.limits = req[r].limits
    BY <2>1, <2>3 DEF IsRequest
  <2>5. apis \in y.since /\ Found(req[r]) /\ Given(y, config)
    BY <1>2, <2>4 DEF Holds, Looking, Given
  <2>6. Found(y)
    BY <2>4, <2>5 DEF Found
  <2>7. Located(y)
    BY <1>4, <2>4, <2>5 DEF Located, u
  <2>8. Holds(y, apis, config)
    BY <2>4, <2>5, <2>6, <2>7 DEF Holds
  <2> QED
    BY <2>2, <2>8, OneRequest DEF FindAPI, At
<1> QED
  BY <1>3, <1>4

\* A request that is recorded carries nothing the invariant speaks of.
LEMMA Recorded ==
  ASSUME NEW x, IsRequest(x), NEW reg, NEW cfg, NEW step \in {"record", "describe"}
  PROVE  Holds(Moved(x, step), reg, cfg)
<1> DEFINE y == Moved(x, step)
<1>1. y = [at |-> step, path |-> x.path, method |-> x.method,
           limits |-> x.limits, rule |-> x.rule, url |-> x.url,
           since |-> x.since]
  BY MovedRequest
<1> HIDE DEF y
<1>2. IsRequest(y) /\ y.at = step
  BY <1>1 DEF IsRequest
<1>3. Holds(y, reg, cfg)
  BY <1>2 DEF Holds, Looking
<1> QED
  BY <1>3 DEF y

LEMMA RecordingKeeps ==
  ASSUME Inv, NEW r \in Requests,
         Forward(r) \/ RecordKnown(r) \/ RecordFirst(r) \/ Describe(r)
  PROVE  Inv'
<1>1. CASE Forward(r)
  <2> DEFINE f == [Excluded EXCEPT !.api = req[r].rule.api]
             x == [NewRequest EXCEPT !.rule = f]
  <2>1. Becomes(r, Moved(x, "record")) \/ Becomes(r, Finished)
    BY <1>1 DEF Forward
  <2> HIDE DEF f
  <2>2. IsRequest(NewRequest)
    BY DEF IsRequest, NewRequest
  <2>3. x = [at |-> NewRequest.at, path |-> NewRequest.path,
             method |-> NewRequest.method, limits |-> NewRequest.limits,
             rule |-> f, url |-> NewRequest.url, since |-> NewRequest.since]
    BY <2>2, Ruled
  <2>4. IsRequest(x)
    <3> HIDE DEF x
    <3> QED
      BY <2>3 DEF IsRequest
  <2> HIDE DEF x
  <2>5. Holds(Moved(x, "record"), apis, config)
    BY <2>4, Recorded
  <2> QED
    BY <1>1, <2>1, <2>5, Fresh, OneRequest DEF Forward, At
<1>2. CASE RecordKnown(r)
  BY <1>2, Fresh, OneRequest DEF RecordKnown, At
<1>3. CASE RecordFirst(r)
  <2>1. IsRequest(req[r])
    BY <1>3, HoldsAt DEF RecordFirst
  <2>2. Holds(Moved(req[r], "describe"), apis, config)
    BY <2>1, Recorded
  <2> QED
    BY <1>3, <2>2, OneRequest DEF RecordFirst, At
<1>4. CASE Describe(r)
  BY <1>4, Fresh, OneRequest DEF Describe, At
<1> QED
  BY <1>1, <1>2, <1>3, <1>4

-----------------------------------------------------------------------------
\* Inv holds at the start.
LEMMA Initially == Init => Inv
<1> SUFFICES ASSUME Init PROVE Inv
  OBVIOUS
<1>1. req = [r \in Requests |-> NewRequest]
  BY DEF Init
<1>2. \A r \in Requests : Holds(req[r], apis, config)
  BY <1>1, Fresh
<1>3. NoneYet
  BY <1>1 DEF NoneYet, NewRequest
<1> QED
  BY <1>1, <1>2, <1>3, Split

\* Before anything is served every request is new.
LEMMA ServeKeeps ==
  ASSUME Inv, Serve
  PROVE  Inv'
<1>1. req' = req /\ config' = config /\ \A r \in Requests : req[r].at = "new"
  BY DEF Serve, Inv, NoneYet
<1>2. \A r \in Requests : Holds(req'[r], apis', config')
  BY <1>1, Split DEF Holds, Looking
<1>3. NoneYet'
  BY <1>1 DEF NoneYet
<1> QED
  BY <1>1, <1>2, <1>3
  DEF Inv, Shape, Current, Resolved, Routed, Addressed, Holds

\* What is asked of the process comes from the requests, and does not change.
Asked == \A ask \in workload.asks : ask[1] \in Requests

LEMMA AskedAtFirst == Init => Asked
BY WorkloadsAssumption DEF Init, Asked

LEMMA AskedKept == Asked /\ [Next]_vars => Asked'
<1> SUFFICES ASSUME [Next]_vars PROVE workload' = workload
  BY DEF Asked
<1>1. CASE Main
  BY <1>1 DEF Main, PingRedis, Serve, ListenReturns, Exit
<1>2. ASSUME NEW a \in Apis, NEW c \in Contents, Register(a, c) \/ Update(a, c)
      PROVE  workload' = workload
  BY <1>2 DEF Register, Update, Install, server
<1>3. ASSUME NEW a \in Apis, Delete(a) PROVE workload' = workload
  BY <1>3 DEF Delete, Install, server
<1>4. CASE ReloadRules
  BY <1>4 DEF ReloadRules, Install, server
<1>5. ASSUME NEW r, NEW p, NEW m, Arrive(r, p, m) PROVE workload' = workload
  BY <1>5 DEF Arrive, server
<1>6. ASSUME NEW r \in Requests, Handle(r) PROVE workload' = workload
  BY <1>6 DEF Handle, ResolveLimits, Limit, Route, FindAPI, Forward, RecordKnown,
              RecordFirst, Describe, server
<1>7. CASE Signal \/ ShutdownReturns \/ CloseRegistry \/ CloseMetrics
  BY <1>7 DEF Signal, ShutdownReturns, CloseRegistry, CloseMetrics, Closer, server
<1>8. ASSUME NEW s \in Starts, Configure(s) PROVE workload' = workload
  BY <1>8 DEF Configure
<1>9. CASE UNCHANGED vars
  BY <1>9 DEF vars
<1> QED
  BY <1>1, <1>2, <1>3, <1>4, <1>5, <1>6, <1>7, <1>8, <1>9 DEF Next

\* Every step keeps Inv.
LEMMA Steps == Inv /\ Asked /\ [Next]_vars => Inv'
<1> SUFFICES ASSUME Inv, Asked, [Next]_vars PROVE Inv'
  OBVIOUS
<1>1. ASSUME NEW s \in Starts, Configure(s) PROVE Inv'
  BY <1>1, NoRequest DEF Configure, registry
<1>2. CASE PingRedis
  BY <1>2, NoRequest DEF PingRedis, registry
<1>3. CASE Serve
  BY <1>3, ServeKeeps
<1>4. CASE ListenReturns
  BY <1>4, NoRequest DEF ListenReturns, registry
<1>5. CASE Exit
  BY <1>5, NoRequest DEF Exit, registry
<1>6. ASSUME NEW a \in Apis, NEW c \in Contents, Register(a, c) \/ Update(a, c)
      PROVE  Inv'
  BY <1>6, InstallKeeps DEF Register, Update
<1>7. ASSUME NEW a \in Apis, Delete(a) PROVE Inv'
  BY <1>7, InstallKeeps DEF Delete
<1>8. CASE ReloadRules
  BY <1>8, InstallKeeps DEF ReloadRules
<1>9. ASSUME NEW ask \in workload.asks, Arrive(ask[1], ask[2], ask[3])
      PROVE  Inv'
  BY <1>9, ArriveKeeps DEF Asked
<1>10. ASSUME NEW r \in Requests, Handle(r) PROVE Inv'
  BY <1>10, ResolveLimitsKeeps, LimitKeeps, RouteKeeps, FindAPIKeeps,
     RecordingKeeps DEF Handle
<1>11. CASE Signal \/ ShutdownReturns \/ CloseRegistry \/ CloseMetrics
  BY <1>11, NoRequest
  DEF Signal, ShutdownReturns, CloseRegistry, CloseMetrics, Closer, server,
      registry
<1>12. CASE UNCHANGED vars
  BY <1>12, NoRequest DEF vars
<1> QED
  BY <1>1, <1>2, <1>3, <1>4, <1>5, <1>6, <1>7, <1>8, <1>9, <1>10, <1>11, <1>12
  DEF Next, Main

\* Whatever administrators change between the lookups of a request, it is
\* forwarded only by a rule that selected its path and method, to an address the
\* rule's API had, at some moment since it arrived: for any requests, rules,
\* configurations and number of changes, and without any fairness.
THEOREM Forwarding == Spec => []ForwardedWasRegistered
<1>1. Inv => ForwardedWasRegistered
  BY DEF Inv, Routed, Addressed, Found, Located, ForwardedWasRegistered
<1> QED
  BY <1>1, Initially, AskedAtFirst, AskedKept, Steps, PTL DEF Spec

\* The limits and the route agree when there is one rule to find in every registry
\* since the request arrived: the rule its limits come from is then the one it is
\* routed by, and is for its method.
LEMMA OneRule ==
  ASSUME NEW x, Found(x), NEW cfg, Given(x, cfg),
         \A then \in x.since : GetCompiledRule(then, x.path) = {x.rule},
         x.method = Upper[x.method], NEW f \in LimitFields
  PROVE  x.limits[f] = IfPositive(x.rule.limits[f], cfg[f])
<1>1. x.limits = RequestLimits(cfg, x.rule, x.method)
  BY DEF Given
<1>2. x.rule # Excluded /\ Accepts(x.rule, x.method)
  BY DEF Found, Accepts
<1>3. x.limits = Overlay(cfg, x.rule)
  BY <1>1, <1>2 DEF RequestLimits
<1> QED
  BY <1>3 DEF Overlay, IfPositive

\* The two lookups give a request the limits of the rule it is routed by, for any
\* registrations and configurations, unless the registry changes in between, the
\* rule is a matter of the order of a map, or the method is not in upper case.
THEOREM LimitsOfTheRoute == Spec => []LimitedAsRouted
<1>1. Inv => LimitedAsRouted
  <2> SUFFICES ASSUME Inv, NEW r \in Requests,
                      req[r].at \in {"find", "forward"},
                      \A then \in req[r].since :
                        GetCompiledRule(then, req[r].path) = {req[r].rule},
                      req[r].method = Upper[req[r].method],
                      NEW f \in LimitFields
               PROVE  req[r].limits[f] =
                        IfPositive(req[r].rule.limits[f], config[f])
    BY DEF LimitedAsRouted
  <2>1. Found(req[r]) /\ Given(req[r], config)
    BY DEF Inv, Routed, Resolved, Looking
  <2> QED
    BY <2>1, OneRule
<1> QED
  BY <1>1, Initially, AskedAtFirst, AskedKept, Steps, PTL DEF Spec

-----------------------------------------------------------------------------
(* A process that serves: what the configuration and the registry hold, if *)
(* files and registrations hold numbers, and the file no negative ones     *)
(* where Validate looks for zero only.                                     *)

IntegerLimits(l) == \A f \in LimitFields : l[f] \in Int

IntegerApi(api) ==
  /\ IntegerLimits(api.limits)
  /\ \A i \in DOMAIN api.endpoints : IntegerLimits(api.endpoints[i].limits)

IntegerRegistry(reg) == \A a \in DOMAIN reg : IntegerApi(reg[a])

NumberedFile(file) ==
  /\ file.block \in Int /\ file.maxBlock \in Int /\ file.memoryIPs \in Int
  /\ file.window \in Int
  /\ file.decay \in Nat /\ file.globalWindow \in Nat /\ file.threshold \in Nat

\* What the rest of the process may rely on.
Sound(c) ==
  /\ c.rps = 10 * RateUnit /\ c.burst = 20
  /\ c.window \in Nat \ {0} /\ c.block \in Nat \ {0}
  /\ c.maxBlock \in Int /\ (c.maxBlock > 0 => c.block <= c.maxBlock)
  /\ c.maxIPs \in Nat \ {0}
  /\ c.decay \in Nat \ {0} /\ c.globalWindow \in Nat \ {0}
  /\ c.threshold \in Nat \ {0}

LEMMA BuiltInNumbered ==
  ASSUME NEW env PROVE NumberedFile(BuiltIn(env))
BY DEF NumberedFile, BuiltIn, EmptyFile, Minute, Hour

\* The settings of a numbered file, laid over the defaults.
Numbered(c) ==
  /\ c.rps = 10 * RateUnit /\ c.burst = 20
  /\ c.window \in Nat \ {0} /\ c.block \in Int /\ c.maxBlock \in Int
  /\ c.maxIPs \in Nat \ {0}
  /\ c.decay \in Nat /\ c.globalWindow \in Nat /\ c.threshold \in Nat

LEMMA BaseConfig ==
  ASSUME NEW file, NumberedFile(file)
  PROVE  Numbered(ToBaseConfig(file)) /\ DOMAIN ToBaseConfig(file) = DOMAIN DefaultConfig
<1> DEFINE c == ToBaseConfig(file)
<1>1. c.rps = 10 * RateUnit /\ c.burst = 20
  BY DEF ToBaseConfig, DefaultConfig
<1>2. c.window = IF file.window > 0 THEN file.window ELSE 1
  BY DEF ToBaseConfig, DefaultConfig, IfPositive
<1>3. c.block = file.block /\ c.maxBlock = file.maxBlock
  BY DEF ToBaseConfig, DefaultConfig
<1>4. c.decay = file.decay /\ c.threshold = file.threshold
  BY DEF ToBaseConfig, DefaultConfig
<1>5. \/ c.globalWindow = file.globalWindow
      \/ c.globalWindow = Minute
  BY DEF ToBaseConfig, DefaultConfig
<1>6. \/ c.maxIPs = 100000
      \/ file.memoryIPs > 0 /\ c.maxIPs = file.memoryIPs
  BY DEF ToBaseConfig, DefaultConfig, IfPositive
<1>7. DOMAIN c = DOMAIN DefaultConfig
  BY DEF ToBaseConfig
<1> HIDE DEF c
<1> QED
  BY <1>1, <1>2, <1>3, <1>4, <1>5, <1>6, <1>7 DEF Numbered, NumberedFile, Minute, c

\* The environment changes the address of Redis only.
LEMMA EnvKeepsNumbers ==
  ASSUME NEW c, Numbered(c), DOMAIN c = DOMAIN DefaultConfig, NEW addr
  PROVE  Numbered(WithEnv(c, addr)) /\ DOMAIN WithEnv(c, addr) = DOMAIN DefaultConfig
<1> DEFINE d == WithEnv(c, addr)
<1>1. \A f \in DOMAIN DefaultConfig \ {"redisAddr"} : d[f] = c[f]
  BY DEF WithEnv
<1>2. DOMAIN d = DOMAIN DefaultConfig
  BY DEF WithEnv
<1>3. {"rps", "burst", "window", "block", "maxBlock", "maxIPs", "decay",
       "globalWindow", "threshold"} \subseteq DOMAIN DefaultConfig \ {"redisAddr"}
  BY DEF DefaultConfig
<1>4. /\ d.rps = c.rps /\ d.burst = c.burst /\ d.window = c.window
      /\ d.block = c.block /\ d.maxBlock = c.maxBlock /\ d.maxIPs = c.maxIPs
      /\ d.decay = c.decay /\ d.globalWindow = c.globalWindow
      /\ d.threshold = c.threshold
  BY <1>1, <1>3
<1> QED
  BY <1>2, <1>4 DEF Numbered

\* What is zero is filled in, and what is accepted is consistent.
LEMMA ValidateMakesSound ==
  ASSUME NEW c, Numbered(c), DOMAIN c = DOMAIN DefaultConfig, ~Refused(c)
  PROVE  Sound(Validate(c))
<1> DEFINE v == Validate(c)
<1>1. ~(c.block <= 0) /\ ~(c.maxBlock > 0 /\ c.maxBlock < c.block)
  BY DEF Refused
<1>2. c.block > 0 /\ (c.maxBlock > 0 => c.block <= c.maxBlock)
  BY <1>1 DEF Numbered
<1>3. /\ v.rps = c.rps /\ v.burst = c.burst /\ v.block = c.block
      /\ v.maxBlock = c.maxBlock
  BY DEF Validate, DefaultConfig
<1>4. /\ v.threshold = OrElse(c.threshold, 5) /\ v.decay = OrElse(c.decay, Hour)
  BY DEF Validate, DefaultConfig
<1>5. /\ v.maxIPs = OrElse(c.maxIPs, 100000)
      /\ v.globalWindow = OrElse(c.globalWindow, Minute)
  BY DEF Validate, DefaultConfig
<1>6. v.window = c.window \/ v.window = OrElse(c.window, 1)
  BY DEF Validate, DefaultConfig
<1> HIDE DEF v
<1> QED
  BY <1>2, <1>3, <1>4, <1>5, <1>6 DEF Numbered, Sound, OrElse, Hour, Minute, v

LEMMA LoadedIsSound ==
  ASSUME NEW env, NEW file, file \in {NoFile, Unreadable} \/ NumberedFile(file),
         NEW addr, LoadConfig(env, file, addr) # Invalid
  PROVE  Sound(LoadConfig(env, file, addr))
<1> DEFINE f == LoadEnvironmentConfig(env, file)
           c == WithEnv(ToBaseConfig(f), addr)
<1>1. file # Unreadable /\ LoadConfig(env, file, addr) = Validate(c)
  BY DEF LoadConfig
<1>2. NumberedFile(f)
  BY <1>1, BuiltInNumbered DEF LoadEnvironmentConfig
<1>3. Numbered(c) /\ DOMAIN c = DOMAIN DefaultConfig
  BY <1>2, BaseConfig, EnvKeepsNumbers
<1>4. ~Refused(c)
  BY <1>1 DEF Validate
<1> QED
  BY <1>1, <1>3, <1>4, ValidateMakesSound

-----------------------------------------------------------------------------
\* What a lookup returns has numbers for limits.
LEMMA FoundNumbered ==
  ASSUME NEW reg, IntegerRegistry(reg), NEW p, NEW found \in GetCompiledRule(reg, p)
  PROVE  IntegerLimits(found.limits)
<1>1. CASE found = Excluded
  <2>1. found.limits = Unset
    BY <1>1 DEF Excluded
  <2> QED
    BY <2>1 DEF Unset, IntegerLimits
<1>2. ASSUME NEW m \in Chosen(reg, p), found = Compiled(reg[m[1]], m)
      PROVE  IntegerLimits(found.limits)
  <2>1. PICK a \in DOMAIN reg : m \in {a} \X DOMAIN reg[a].endpoints
    BY DEF Chosen, Matches
  <2>2. m[1] \in DOMAIN reg /\ m[2] \in DOMAIN reg[m[1]].endpoints
    BY <2>1
  <2>3. IntegerApi(reg[m[1]])
    BY <2>2 DEF IntegerRegistry
  <2>4. /\ IntegerLimits(reg[m[1]].limits)
        /\ IntegerLimits(reg[m[1]].endpoints[m[2]].limits)
    BY <2>2, <2>3 DEF IntegerApi
  <2>5. found.limits =
          [f \in LimitFields |->
             IF reg[m[1]].endpoints[m[2]].limits[f] = 0
             THEN reg[m[1]].limits[f] ELSE reg[m[1]].endpoints[m[2]].limits[f]]
    BY <1>2 DEF Compiled
  <2> QED
    BY <2>4, <2>5 DEF IntegerLimits
<1> QED
  BY <1>1, <1>2 DEF GetCompiledRule

\* Limits that leave room for a request.
Positive(l) == \A f \in LimitFields : l[f] \in Nat \ {0}

LEMMA LimitsArePositive ==
  ASSUME NEW c, Sound(c), NEW found, IntegerLimits(found.limits), NEW m
  PROVE  Positive(RequestLimits(c, found, m))
<1>1. ASSUME NEW f \in LimitFields PROVE c[f] \in Nat \ {0}
  BY RateUnitAssumption DEF Sound, LimitFields
<1>2. Positive(Overlay(c, found))
  BY <1>1 DEF Overlay, IntegerLimits, Positive
<1>3. Positive(StaticLimits(c))
  BY <1>1 DEF StaticLimits, Positive
<1> QED
  BY <1>2, <1>3 DEF RequestLimits

LEMMA LimitIsPositive ==
  ASSUME NEW l, Positive(l)
  PROVE  LimitOf(l) > 0 /\ l.window > 0 /\ l.block > 0
<1>1. /\ l.rps \in Nat \ {0} /\ l.burst \in Nat \ {0}
      /\ l.window \in Nat \ {0} /\ l.block \in Nat \ {0}
  BY DEF Positive, LimitFields
<1> DEFINE product == l.rps * l.window
           rated == product \div RateUnit
<1>2. product \in Int
  BY <1>1
<1> HIDE DEF product
<1>3. rated \in Int
  BY <1>2, RateUnitAssumption
<1> HIDE DEF rated
<1>4. (IF rated < l.burst THEN l.burst ELSE rated) > 0
  BY <1>1, <1>3
<1> QED
  BY <1>1, <1>4 DEF LimitOf, rated, product

\* The window of the token bucket's parameters has a length.
LEMMA WindowHasLength ==
  ASSUME NEW c, Sound(c)
  PROVE  MemoryWindow(c) > 0
<1>1. ASSUME NEW n \in Nat \ {0} PROVE (20 * n) \div (10 * n) > 0
  <2> DEFINE b == 10 * n
  <2>1. b \in Nat \ {0} /\ 20 * n = b * 2
    OBVIOUS
  <2> HIDE DEF b
  <2>2. (b * 2) \div b = 2
    BY <2>1
  <2> QED
    BY <2>1, <2>2 DEF b
<1>2. c.burst * RateUnit = 20 * RateUnit /\ c.rps = 10 * RateUnit
  BY DEF Sound
<1>3. (c.burst * RateUnit) \div c.rps > 0
  BY <1>1, <1>2, RateUnitAssumption
<1>4. c.window > 0
  BY DEF Sound
<1> QED
  BY <1>3, <1>4 DEF MemoryWindow

-----------------------------------------------------------------------------
\* What holds from the start of the process on.
Ready ==
  /\ phase \notin {"configure", "panicked"} => Sound(config)
  /\ phase \in {"load", "serving", "returning", "exited"} =>
       (NeedsRedis(config) => connected)
  /\ IntegerRegistry(apis)

LEMMA ReadyIsUsable == Ready => Usable
<1> SUFFICES ASSUME Ready, Running PROVE Usable
  BY DEF Usable
<1>1. Sound(config) /\ (NeedsRedis(config) => connected)
  BY DEF Ready, Running
<1>2. ASSUME NEW p, NEW m, NEW found \in GetCompiledRule(apis, p)
      PROVE  LET l == RequestLimits(config, found, m)
             IN  LimitOf(l) > 0 /\ l.window > 0 /\ l.block > 0
  BY <1>1, FoundNumbered, LimitsArePositive, LimitIsPositive DEF Ready
<1>3. MemoryWindow(config) > 0
  BY <1>1, WindowHasLength
<1>4. /\ config.maxBlock > 0 => config.block <= config.maxBlock
      /\ config.maxIPs > 0
      /\ config.decay > 0 /\ config.globalWindow > 0 /\ config.threshold > 0
  BY <1>1 DEF Sound
<1> QED
  BY <1>1, <1>2, <1>3, <1>4 DEF Usable

LEMMA NoApisNumbered == IntegerRegistry(NoApis)
BY DEF IntegerRegistry, NoApis

LEMMA InstallReady ==
  ASSUME Ready, NEW new, IntegerRegistry(new), Install(new)
  PROVE  Ready'
BY DEF Ready, Install, server

\* A process started with files of numbers, none of them negative where Validate
\* looks for zero only, and given registrations of numbers has, whenever it
\* serves, limits, windows and blocks that are not empty, and the Redis it needs:
\* whatever else the files, the variables and the registrations hold.
THEOREM Serves ==
  ASSUME \A s \in Starts :
           s.file \in {NoFile, Unreadable} \/ NumberedFile(s.file),
         \A reg \in Saved : IntegerRegistry(reg),
         \A c \in Contents : IntegerApi(c)
  PROVE  Spec => []Usable
<1>1. Init => Ready
  BY NoApisNumbered DEF Init, Ready
<1>2. Ready /\ [Next]_vars => Ready'
  <2> SUFFICES ASSUME Ready, [Next]_vars PROVE Ready'
    OBVIOUS
  <2>1. ASSUME NEW s \in Starts, Configure(s) PROVE Ready'
    <3> DEFINE loaded == LoadConfig(s.env, s.file, s.addr)
    <3>1. loaded # Invalid => Sound(loaded)
      BY LoadedIsSound
    <3> HIDE DEF loaded
    <3>2. /\ config' = loaded
          /\ phase' = IF loaded = Invalid THEN "panicked"
                      ELSE IF NeedsRedis(loaded) THEN "ping" ELSE "load"
          /\ apis' = apis
      BY <2>1 DEF Configure, registry, loaded
    <3> QED
      BY <3>1, <3>2 DEF Ready
  <2>2. CASE PingRedis
    BY <2>2 DEF PingRedis, registry, Ready
  <2>3. CASE Serve
    BY <2>3, NoApisNumbered DEF Serve, Ready
  <2>4. CASE ListenReturns
    BY <2>4 DEF ListenReturns, registry, Ready
  <2>5. CASE Exit
    BY <2>5 DEF Exit, registry, Ready
  <2>6. ASSUME NEW a \in Apis, NEW c \in Contents, Register(a, c) PROVE Ready'
    <3> DEFINE new == [b \in DOMAIN apis \cup {a} |-> IF b = a THEN c ELSE apis[b]]
    <3>1. IntegerRegistry(new)
      BY DEF IntegerRegistry, Ready
    <3> QED
      BY <2>6, <3>1, InstallReady DEF Register
  <2>7. ASSUME NEW a \in Apis, NEW c \in Contents, Update(a, c) PROVE Ready'
    <3>1. IntegerRegistry([apis EXCEPT ![a] = c])
      BY DEF IntegerRegistry, Ready
    <3> QED
      BY <2>7, <3>1, InstallReady DEF Update
  <2>8. ASSUME NEW a \in Apis, Delete(a) PROVE Ready'
    <3>1. IntegerRegistry([b \in DOMAIN apis \ {a} |-> apis[b]])
      BY DEF IntegerRegistry, Ready
    <3> QED
      BY <2>8, <3>1, InstallReady DEF Delete
  <2>9. CASE ReloadRules
    BY <2>9, NoApisNumbered, InstallReady DEF ReloadRules
  <2>10. ASSUME NEW r, NEW p, NEW m, Arrive(r, p, m) PROVE Ready'
    BY <2>10 DEF Arrive, server, registry, Ready
  <2>11. ASSUME NEW r \in Requests, Handle(r) PROVE Ready'
    BY <2>11 DEF Handle, ResolveLimits, Limit, Route, FindAPI, Forward,
       RecordKnown, RecordFirst, Describe, server, registry, Ready
  <2>12. CASE Signal \/ ShutdownReturns \/ CloseRegistry \/ CloseMetrics
    BY <2>12 DEF Signal, ShutdownReturns, CloseRegistry, CloseMetrics, Closer,
       server, registry, Ready
  <2>13. CASE UNCHANGED vars
    BY <2>13 DEF vars, Ready
  <2> QED
    BY <2>1, <2>2, <2>3, <2>4, <2>5, <2>6, <2>7, <2>8, <2>9, <2>10, <2>11, <2>12,
       <2>13 DEF Next, Main
<1> QED
  BY <1>1, <1>2, ReadyIsUsable, PTL DEF Spec
=============================================================================
