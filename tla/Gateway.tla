------------------------------- MODULE Gateway -------------------------------
(***************************************************************************)
(* The process as main puts it together (middleware/cmd/main.go): it loads *)
(* its configuration and the registry, serves requests, and shuts down on  *)
(* a signal.  A request looks its rule up twice, for its limits and for    *)
(* its route, and then the API once more for the address to forward to,    *)
(* while administrators change the registry; after the answer it is        *)
(* recorded in the metrics collector.                                      *)
(*                                                                         *)
(* The limiter's decision is left open here (modules Middleware,           *)
(* MemoryBackend and RedisBackend), and a change of the registry is one    *)
(* step (module FileRegistry): it holds the registry's mutex throughout.   *)
(* ReloadRules never gives the mutex back.  Record holds the collector's   *)
(* mutex, and for the first request of an API takes the registry's inside. *)
(***************************************************************************)
EXTENDS Config

CONSTANTS
  Requests,    \* the requests that arrive
  Apis,        \* ids of APIs
  Contents,    \* the registrations administrators make
  Saved,       \* what a registry file may hold when main starts
  Paths,       \* request paths
  Methods,     \* request methods, in the case the client chose
  Upper,       \* strings.ToUpper on Methods
  Starts,      \* the environments, configuration files and values of REDIS_ADDR
               \* ("" if it is not set) the process is started with
  Workloads    \* what may be asked of a process: the requests <<request, path,
               \* method>>, a bound on the changes of the registry, and whether
               \* it may be sent a signal

ASSUME UpperAssumption == Upper \in [Methods -> Methods]
ASSUME WorkloadsAssumption ==
  Workloads \subseteq
    [asks : SUBSET (Requests \X Paths \X Methods), changes : Nat,
     signal : BOOLEAN]
ASSUME NobodyAssumption == Nothing \notin Requests \cup Apis

VARIABLES
  workload,   \* what is asked of this process
  phase,      \* what main does
  config,     \* the configuration, once it is loaded
  connected,  \* whether Redis has answered the ping
  apis,       \* the registry
  stuck,      \* whether ReloadRules keeps the registry's mutex
  req,        \* req[r]: where request r is and what it carries
  recorder,   \* the request that holds the collector's mutex
  known,      \* the APIs the collector has metrics of
  closing,    \* what the goroutine that waits for the signal does
  changes     \* history: the number of changes of the registry

server == <<workload, phase, config, connected>>
registry == <<apis, stuck, changes>>
collector == <<recorder, known>>
vars == <<workload, phase, config, connected, apis, stuck, req, recorder, known,
          closing, changes>>

NoApis == [a \in {} |-> Nothing]

\* A request: its next step, what it asks for, the limits it was given, the rule
\* it is routed by, the upstream it is forwarded to and, for the properties, the
\* registries there have been since it arrived.
NewRequest ==
  [at |-> "new", path |-> Nothing, method |-> Nothing, limits |-> Unset,
   rule |-> Excluded, url |-> Nothing, since |-> {}]
Finished == [NewRequest EXCEPT !.at = "done"]

Init ==
  /\ workload \in Workloads
  /\ phase = "configure" /\ config = Nothing /\ connected = FALSE
  /\ apis = NoApis /\ stuck = FALSE /\ changes = 0
  /\ req = [r \in Requests |-> NewRequest]
  /\ recorder = Nothing /\ known = {}
  /\ closing = "waiting"

-----------------------------------------------------------------------------
(* main: the start.  What fails panics.                                    *)

Configure(s) ==
  LET loaded == LoadConfig(s.env, s.file, s.addr)
  IN  /\ phase = "configure"
      /\ config' = loaded
      /\ phase' = IF loaded = Invalid THEN "panicked"
                  ELSE IF NeedsRedis(loaded) THEN "ping" ELSE "load"
      /\ UNCHANGED <<workload, connected, registry, req, collector, closing>>

PingRedis ==
  /\ phase = "ping"
  /\ connected' \in BOOLEAN
  /\ phase' = IF connected' THEN "load" ELSE "panicked"
  /\ UNCHANGED <<workload, config, registry, req, collector, closing>>

\* A registry file that cannot be loaded leaves the registry empty, and main
\* goes on; the event store, the collector or the port may then fail.
Serve ==
  /\ phase = "load"
  /\ apis' \in Saved \cup {NoApis}
  /\ phase' \in {"serving", "panicked"}
  /\ UNCHANGED <<workload, config, connected, stuck, changes, req, collector,
                 closing>>

-----------------------------------------------------------------------------
(* Administrators.                                                         *)

Running == phase \in {"serving", "returning"}

\* The requests between their arrival and their end.
Pending == {r \in Requests : req[r].at \notin {"new", "done"}}

Install(new) ==
  /\ Running /\ ~stuck
  /\ changes < workload.changes
  /\ changes' = changes + 1
  /\ apis' = new
  /\ req' = [r \in Requests |->
               IF r \in Pending THEN [req[r] EXCEPT !.since = @ \cup {new}]
                                ELSE req[r]]
  /\ UNCHANGED <<server, collector, closing>>

Register(a, content) ==
  /\ a \notin DOMAIN apis
  /\ Install([b \in DOMAIN apis \cup {a} |-> IF b = a THEN content ELSE apis[b]])
  /\ UNCHANGED stuck

\* UpdateAPI and the operations on endpoints.
Update(a, content) ==
  /\ a \in DOMAIN apis
  /\ Install([apis EXCEPT ![a] = content])
  /\ UNCHANGED stuck

Delete(a) ==
  /\ a \in DOMAIN apis
  /\ Install([b \in DOMAIN apis \ {a} |-> apis[b]])
  /\ UNCHANGED stuck

\* The map is replaced by an empty one; Load then waits for the mutex forever.
ReloadRules ==
  /\ Install(NoApis)
  /\ stuck' = TRUE

-----------------------------------------------------------------------------
(* A request.                                                              *)

At(r, step) == Running /\ req[r].at = step

Becomes(r, new) == req' = [req EXCEPT ![r] = new]
Moved(x, step) == [x EXCEPT !.at = step]

Arrive(r, p, m) ==
  /\ phase = "serving" /\ closing = "waiting"
  /\ At(r, "new")
  /\ Becomes(r, [at |-> "limits", path |-> p, method |-> m, limits |-> Unset,
                 rule |-> Excluded, url |-> Nothing, since |-> {apis}])
  /\ UNCHANGED <<server, registry, collector, closing>>

\* The middleware resolves the limits.
ResolveLimits(r) ==
  /\ At(r, "limits") /\ ~stuck
  /\ \E found \in GetCompiledRule(apis, req[r].path) :
       LET given == RequestLimits(config, found, req[r].method)
       IN  Becomes(r, Moved([req[r] EXCEPT !.limits = given], "limiter"))
  /\ UNCHANGED <<server, registry, collector, closing>>

\* The limiter admits the request or answers it itself.
Limit(r) ==
  /\ At(r, "limiter")
  /\ Becomes(r, Moved(req[r], "route")) \/ Becomes(r, Finished)
  /\ UNCHANGED <<server, registry, collector, closing>>

\* Mutant: the method is not compared.
RouteAnyMethod(r) ==
  /\ At(r, "route") /\ ~stuck
  /\ \E found \in GetCompiledRule(apis, req[r].path) :
       Becomes(r, IF found # Excluded
                  THEN Moved([req[r] EXCEPT !.rule = found], "find")
                  ELSE Finished)
  /\ UNCHANGED <<server, registry, collector, closing>>

\* The proxy looks the rule up again: 404 if there is none, 405 if it is one for
\* another method.
Route(r) ==
  /\ At(r, "route") /\ ~stuck
  /\ \E found \in GetCompiledRule(apis, req[r].path) :
       Becomes(r, IF found # Excluded /\ Accepts(found, Upper[req[r].method])
                  THEN Moved([req[r] EXCEPT !.rule = found], "find")
                  ELSE Finished)
  /\ UNCHANGED <<server, registry, collector, closing>>

\* The API of the rule is looked up, whatever its status: 500 if it is gone, 502
\* if it has no upstream.
FindAPI(r) ==
  LET a == req[r].rule.api
  IN  /\ At(r, "find") /\ ~stuck
      /\ Becomes(r, IF a \in DOMAIN apis /\ apis[a].url # ""
                    THEN Moved([req[r] EXCEPT !.url = apis[a].url], "forward")
                    ELSE Finished)
      /\ UNCHANGED <<server, registry, collector, closing>>

\* The upstream answers, or fails and the client is answered 502; the request is
\* recorded either way, under the API of its rule, unless its answer breaks off in
\* the middle, which ends the handler.
Forward(r) ==
  /\ At(r, "forward")
  /\ LET answered == [Excluded EXCEPT !.api = req[r].rule.api]
     IN  \/ Becomes(r, Moved([NewRequest EXCEPT !.rule = answered], "record"))
         \/ Becomes(r, Finished)
  /\ UNCHANGED <<server, registry, collector, closing>>

\* Record, for an API the collector knows.
RecordKnown(r) ==
  /\ At(r, "record") /\ recorder = Nothing
  /\ req[r].rule.api \in known
  /\ Becomes(r, Finished)
  /\ UNCHANGED <<server, registry, collector, closing>>

\* For the first request of an API it asks the registry for the base path,
\* holding the collector's mutex.
RecordFirst(r) ==
  /\ At(r, "record") /\ recorder = Nothing
  /\ req[r].rule.api \notin known
  /\ Becomes(r, Moved(req[r], "describe"))
  /\ recorder' = r
  /\ UNCHANGED <<server, registry, known, closing>>

\* Mutant: the collector's mutex is kept.
DescribeKeepsMutex(r) ==
  /\ At(r, "describe") /\ ~stuck
  /\ Becomes(r, Finished)
  /\ known' = known \cup {req[r].rule.api}
  /\ UNCHANGED <<server, registry, recorder, closing>>

Describe(r) ==
  /\ At(r, "describe") /\ ~stuck
  /\ Becomes(r, Finished)
  /\ known' = known \cup {req[r].rule.api}
  /\ recorder' = Nothing
  /\ UNCHANGED <<server, registry, closing>>

-----------------------------------------------------------------------------
(* The shutdown: the goroutine that waits for the signal, and main.        *)

Closer(from, to) ==
  /\ Running
  /\ closing = from
  /\ closing' = to
  /\ UNCHANGED <<server, registry, req, collector>>

Signal ==
  /\ phase = "serving" /\ workload.signal
  /\ Closer("waiting", "shutdown")

\* Shutdown returns when no request is being served or its timeout has passed,
\* which without a configuration file, or when the file sets none, is at once.
\* The client of Redis is closed next, which waits for nothing.
ShutdownReturns == Closer("shutdown", "registry")

CloseRegistry == ~stuck /\ Closer("registry", "metrics")

\* FlushAll takes the collector's mutex.  The event store and the cancellation
\* of the context follow without waiting for anything.
CloseMetrics == recorder = Nothing /\ Closer("metrics", "closed")

\* ListenAndServe returns as soon as Shutdown is called: main does not wait for
\* the requests that are being served, nor for the goroutine.
ListenReturns ==
  /\ phase = "serving" /\ closing # "waiting"
  /\ phase' = "returning"
  /\ UNCHANGED <<workload, config, connected, registry, req, collector, closing>>

\* The deferred Close of the collector, which takes its mutex, and of the event
\* store; then the process ends, and everything in it.
Exit ==
  /\ phase = "returning"
  /\ recorder = Nothing
  /\ phase' = "exited"
  /\ UNCHANGED <<workload, config, connected, registry, req, collector, closing>>

-----------------------------------------------------------------------------
Handle(r) ==
  \/ ResolveLimits(r) \/ Limit(r) \/ Route(r) \/ FindAPI(r) \/ Forward(r)
  \/ RecordKnown(r) \/ RecordFirst(r) \/ Describe(r)

Main == PingRedis \/ Serve \/ ListenReturns \/ Exit

Next ==
  \/ \E s \in Starts : Configure(s)
  \/ Main
  \/ \E a \in Apis : \/ \E c \in Contents : Register(a, c) \/ Update(a, c)
                     \/ Delete(a)
  \/ ReloadRules
  \/ \E ask \in workload.asks : Arrive(ask[1], ask[2], ask[3])
  \/ \E r \in Requests : Handle(r)
  \/ Signal \/ ShutdownReturns \/ CloseRegistry \/ CloseMetrics

\* Goroutines that can run are run; nothing makes a request arrive, a rule
\* change, or a signal come.
Fairness ==
  /\ WF_vars(Main)
  /\ \A r \in Requests : WF_vars(Handle(r))

Spec == Init /\ [][Next]_vars
FairSpec == Spec /\ Fairness

-----------------------------------------------------------------------------
\* A request is forwarded only by a rule that selected its path and method at
\* some moment since the request arrived, and only to an address that the rule's
\* API had at some moment since then: never by what was deleted or changed before
\* it arrived, however the registry changes between the lookups.
ForwardedWasRegistered ==
  \A r \in Requests :
    req[r].at = "forward" =>
      /\ \E then \in req[r].since :
           /\ req[r].rule \in GetCompiledRule(then, req[r].path)
           /\ req[r].rule.method \in {"", "*", Upper[req[r].method]}
      /\ \E then \in req[r].since :
           /\ req[r].rule.api \in DOMAIN then
           /\ then[req[r].rule.api].url = req[r].url

\* The limits a request was given are those of the rule it is routed by, although
\* they are looked up separately: unless the registry has changed since it
\* arrived, two rules of the highest priority match its path, or its method is
\* not in upper case, which the middleware compares as it is and the proxy does
\* not.
LimitedAsRouted ==
  \A r \in Requests :
    /\ req[r].at \in {"find", "forward"}
    /\ \A then \in req[r].since : GetCompiledRule(then, req[r].path) = {req[r].rule}
    /\ req[r].method = Upper[req[r].method]
    => \A f \in LimitFields :
         req[r].limits[f] = IfPositive(req[r].rule.limits[f], config[f])

\* Whatever the files and the variables it was started with, and whatever is
\* registered, a process that serves can do so: no path and method gets a limit
\* of nothing (the dry run divides by it), a window or a block of no length; no
\* block is longer than the longest; the backend has room; Redis has answered.
Usable ==
  Running =>
    /\ \A p \in Paths, m \in Methods : \A found \in GetCompiledRule(apis, p) :
         LET l == RequestLimits(config, found, m)
         IN  LimitOf(l) > 0 /\ l.window > 0 /\ l.block > 0
    /\ config.maxBlock > 0 => config.block <= config.maxBlock
    /\ config.maxIPs > 0 /\ MemoryWindow(config) > 0
    /\ config.decay > 0 /\ config.globalWindow > 0 /\ config.threshold > 0
    /\ NeedsRedis(config) => connected

\* After a signal the process ends, whatever the requests that are being served
\* and the goroutine that shuts down are waiting for; except when the first
\* request of an API holds the collector's mutex and waits for the registry's,
\* which ReloadRules has kept.
Exits ==
  closing = "shutdown" ~> phase = "exited" \/ (stuck /\ recorder # Nothing)

\* A request that was forwarded is recorded, whichever requests record at the same
\* time and whatever the shutdown and main do with the collector: nobody keeps its
\* mutex, except the first request of an API that waits for the registry's, which
\* ReloadRules has kept; or the process ends before.
ForwardedIsRecorded ==
  \A r \in Requests :
    req[r].at = "record" ~>
      \/ req[r].at = "done"
      \/ phase = "exited"
      \/ stuck /\ recorder # Nothing
=============================================================================
