--------------------------- MODULE CircuitBreaker ---------------------------
(***************************************************************************)
(* The circuit breaker that guards every Redis call                        *)
(* (middleware/base/cicuit_breaker.go), together with the wrapper every    *)
(* method of the Redis backend puts around its command                     *)
(* (middleware/storage/redis/store.go): Allow, defer ReleaseProbe, the     *)
(* command, then RecordFailure and / or RecordSuccess.                     *)
(*                                                                         *)
(* The breaker has no lock: its fields are separate atomics.  Each action  *)
(* below is one atomic access by one caller (a goroutine serving a         *)
(* request), so that everything another goroutine may do between two       *)
(* accesses is a behaviour of the specification.  A load followed by a     *)
(* compare-and-swap of the same word is one action: the pair takes effect  *)
(* at the swap, and a swap that loses changes nothing.                     *)
(*                                                                         *)
(* Time is kept as the age of the last recorded failure, in ticks,         *)
(* saturating just above the timeout: the code only asks whether the age   *)
(* exceeds the timeout.  The failure count saturates at the threshold for  *)
(* the same reason.                                                        *)
(*                                                                         *)
(* The names do not clash with those of RedisBackend, whose calls these    *)
(* are: RedisBackendProofs extends both.                                   *)
(***************************************************************************)
EXTENDS Integers, FiniteSets

CONSTANTS
  Callers,          \* goroutines that call the Redis backend
  Threshold,        \* circuit_breaker.threshold
  Timeout,          \* circuit_breaker.timeout, in ticks
  MaxProbesConfig,  \* circuit_breaker.max_probes as configured
  Results           \* how the commands of the backend methods in use may end

ASSUME CallersAssumption == IsFiniteSet(Callers)
ASSUME ThresholdAssumption == Threshold \in Nat
ASSUME TimeoutAssumption == Timeout \in Nat
ASSUME MaxProbesAssumption == MaxProbesConfig \in Int

\* A command is answered, fails, is answered redis.Nil (recorded neither as a
\* success nor as a failure), or fails in a method that does not return after
\* RecordFailure and so records a success as well (SetTokenBucket).
ASSUME ResultsAssumption ==
  Results \subseteq {"ok", "error", "miss", "errorThenOk"}

VARIABLES
  state,         \* atomic: "Closed", "Open" or "HalfOpen"
  failures,      \* atomic: consecutive failures, saturated at Threshold
  lastFailure,   \* atomic: age of the last failure, saturated at Timeout + 1
  halfOpenReqs,  \* atomic: the probe slots in use
  access,        \* access[c]: the next atomic access of caller c
  seen,          \* seen[c]: age of the lastFailure that c loaded in Allow
  fallsThrough,  \* callers whose method records a success after the failure
  probes,        \* history: callers that took a slot in this half-open round
  healthy        \* whether Redis answers without errors

breaker == <<state, failures, lastFailure, halfOpenReqs>>
breakerVars == <<state, failures, lastFailure, halfOpenReqs, access, seen,
                 fallsThrough, probes, healthy>>

\* NewCircuitBreaker: a limit that is not positive becomes one probe.
MaxProbes == IF MaxProbesConfig <= 0 THEN 1 ELSE MaxProbesConfig

Failed == {"error", "errorThenOk"}

AllowSteps == {"loadState", "loadLast", "casHalfOpen", "zeroProbes", "take"}
CallSteps == {"call", "stamp", "count", "open", "zeroOpen", "reset", "close",
              "zeroClosed", "release", "decrement"}
Steps == {"idle"} \cup AllowSteps \cup CallSteps

\* Caller c performs the access `from` and continues with `to`.
Goto(c, from, to) ==
  /\ access[c] = from
  /\ access' = [access EXCEPT ![c] = to]

BreakerInit ==
  /\ state = "Closed"
  /\ failures = 0
  /\ lastFailure = Timeout + 1
  /\ halfOpenReqs = 0
  /\ access = [c \in Callers |-> "idle"]
  /\ seen = [c \in Callers |-> Timeout + 1]
  /\ fallsThrough = {}
  /\ probes = {}
  /\ healthy = TRUE

-----------------------------------------------------------------------------
(* Allow                                                                   *)

StartCall(c) ==
  /\ Goto(c, "idle", "loadState")
  /\ UNCHANGED <<breaker, seen, fallsThrough, probes, healthy>>

LoadState(c) ==
  /\ Goto(c, "loadState",
          CASE state = "Closed"   -> "call"
            [] state = "Open"     -> "loadLast"
            [] state = "HalfOpen" -> "take")
  /\ UNCHANGED <<breaker, seen, fallsThrough, probes, healthy>>

LoadLastFailure(c) ==
  /\ Goto(c, "loadLast", "casHalfOpen")
  /\ seen' = [seen EXCEPT ![c] = lastFailure]
  /\ UNCHANGED <<breaker, fallsThrough, probes, healthy>>

\* The loaded age is not used again.
Forget(c) == seen' = [seen EXCEPT ![c] = Timeout + 1]

\* Mutant: a rejected call counts as a failure that restarts the timeout.
RejectOpenRestamps(c) ==
  /\ seen[c] <= Timeout
  /\ Goto(c, "casHalfOpen", "idle")
  /\ Forget(c)
  /\ lastFailure' = 0
  /\ UNCHANGED <<state, failures, halfOpenReqs, fallsThrough, probes, healthy>>

\* The timeout has not passed since the failure that was loaded.
RejectOpen(c) ==
  /\ seen[c] <= Timeout
  /\ Goto(c, "casHalfOpen", "idle")
  /\ Forget(c)
  /\ UNCHANGED <<breaker, fallsThrough, probes, healthy>>

CasHalfOpen(c) ==
  /\ seen[c] > Timeout
  /\ IF state = "Open"
     THEN /\ Goto(c, "casHalfOpen", "zeroProbes")
          /\ state' = "HalfOpen"
          /\ probes' = {}
     ELSE /\ Goto(c, "casHalfOpen", "take")
          /\ UNCHANGED <<state, probes>>
  /\ Forget(c)
  /\ UNCHANGED <<failures, lastFailure, halfOpenReqs, fallsThrough, healthy>>

ZeroProbes(c) ==
  /\ Goto(c, "zeroProbes", "take")
  /\ halfOpenReqs' = 0
  /\ UNCHANGED <<state, failures, lastFailure, seen, fallsThrough,
                 probes, healthy>>

TakeSlot(c) ==
  /\ halfOpenReqs < MaxProbes
  /\ Goto(c, "take", "call")
  /\ halfOpenReqs' = halfOpenReqs + 1
  /\ probes' = probes \cup {c}
  /\ UNCHANGED <<state, failures, lastFailure, seen, fallsThrough, healthy>>

RejectFull(c) ==
  /\ halfOpenReqs >= MaxProbes
  /\ Goto(c, "take", "idle")
  /\ UNCHANGED <<breaker, seen, fallsThrough, probes, healthy>>

-----------------------------------------------------------------------------
(* The command, then RecordFailure, RecordSuccess and ReleaseProbe         *)

\* Mutant: the method returns a missing key before it defers ReleaseProbe.
FinishSkipsRelease(c, r) ==
  /\ r \in Failed <=> ~healthy
  /\ Goto(c, "call", CASE r = "ok"     -> "reset"
                       [] r = "miss"   -> "idle"
                       [] r \in Failed -> "stamp")
  /\ fallsThrough' = fallsThrough \ {c}
  /\ UNCHANGED <<breaker, seen, probes, healthy>>

Finish(c, r) ==
  /\ r \in Failed <=> ~healthy
  /\ Goto(c, "call", CASE r = "ok"     -> "reset"
                       [] r = "miss"   -> "release"
                       [] r \in Failed -> "stamp")
  /\ fallsThrough' = IF r = "errorThenOk" THEN fallsThrough \cup {c}
                                          ELSE fallsThrough \ {c}
  /\ UNCHANGED <<breaker, seen, probes, healthy>>

StampFailure(c) ==
  /\ Goto(c, "stamp", "count")
  /\ lastFailure' = 0
  /\ UNCHANGED <<state, failures, halfOpenReqs, seen, fallsThrough,
                 probes, healthy>>

\* What a method does once RecordFailure has returned.
AfterFailure(c) == IF c \in fallsThrough THEN "reset" ELSE "release"

CountFailure(c) ==
  /\ failures' = IF failures < Threshold THEN failures + 1 ELSE failures
  /\ Goto(c, "count",
          IF failures + 1 >= Threshold THEN "open" ELSE AfterFailure(c))
  /\ UNCHANGED <<state, lastFailure, halfOpenReqs, seen, fallsThrough,
                 probes, healthy>>

StoreOpen(c) ==
  /\ Goto(c, "open", "zeroOpen")
  /\ state' = "Open"
  /\ UNCHANGED <<failures, lastFailure, halfOpenReqs, seen, fallsThrough,
                 probes, healthy>>

ZeroOpen(c) ==
  /\ Goto(c, "zeroOpen", AfterFailure(c))
  /\ halfOpenReqs' = 0
  /\ UNCHANGED <<state, failures, lastFailure, seen, fallsThrough,
                 probes, healthy>>

ResetFailures(c) ==
  /\ Goto(c, "reset", "close")
  /\ failures' = 0
  /\ UNCHANGED <<state, lastFailure, halfOpenReqs, seen, fallsThrough,
                 probes, healthy>>

CasClosed(c) ==
  /\ IF state = "HalfOpen"
     THEN /\ Goto(c, "close", "zeroClosed")
          /\ state' = "Closed"
     ELSE /\ Goto(c, "close", "release")
          /\ UNCHANGED state
  /\ UNCHANGED <<failures, lastFailure, halfOpenReqs, seen, fallsThrough,
                 probes, healthy>>

ZeroClosed(c) ==
  /\ Goto(c, "zeroClosed", "release")
  /\ halfOpenReqs' = 0
  /\ UNCHANGED <<state, failures, lastFailure, seen, fallsThrough,
                 probes, healthy>>

\* Mutant: the release in the half-open state forgets the decrement.
LoadReleaseLeaks(c) ==
  /\ Goto(c, "release", "idle")
  /\ probes' = probes \ {c}
  /\ UNCHANGED <<breaker, seen, fallsThrough, healthy>>

\* ReleaseProbe loads the state first; outside HalfOpen it gives nothing back.
LoadRelease(c) ==
  /\ IF state = "HalfOpen"
     THEN /\ Goto(c, "release", "decrement")
          /\ UNCHANGED probes
     ELSE /\ Goto(c, "release", "idle")
          /\ probes' = probes \ {c}
  /\ UNCHANGED <<breaker, seen, fallsThrough, healthy>>

Decrement(c) ==
  /\ Goto(c, "decrement", "idle")
  /\ halfOpenReqs' = halfOpenReqs - 1
  /\ probes' = probes \ {c}
  /\ UNCHANGED <<state, failures, lastFailure, seen, fallsThrough, healthy>>

-----------------------------------------------------------------------------
(* The environment                                                         *)

Older(age) == IF age <= Timeout THEN age + 1 ELSE age

BreakerTick ==
  /\ lastFailure' = Older(lastFailure)
  /\ seen' = [c \in Callers |-> Older(seen[c])]
  /\ UNCHANGED <<state, failures, halfOpenReqs, access, fallsThrough,
                 probes, healthy>>

BackendChanges ==
  /\ healthy' = ~healthy
  /\ UNCHANGED <<breaker, access, seen, fallsThrough, probes>>

-----------------------------------------------------------------------------
\* One access of a caller that is inside a backend method.
Step(c) ==
  \/ LoadState(c) \/ LoadLastFailure(c) \/ RejectOpen(c) \/ CasHalfOpen(c)
  \/ ZeroProbes(c) \/ TakeSlot(c) \/ RejectFull(c)
  \/ \E r \in Results : Finish(c, r)
  \/ StampFailure(c) \/ CountFailure(c) \/ StoreOpen(c) \/ ZeroOpen(c)
  \/ ResetFailures(c) \/ CasClosed(c) \/ ZeroClosed(c)
  \/ LoadRelease(c) \/ Decrement(c)

BreakerNext ==
  \/ \E c \in Callers : StartCall(c) \/ Step(c)
  \/ BreakerTick
  \/ BackendChanges

BreakerSpec == BreakerInit /\ [][BreakerNext]_breakerVars

\* Goroutines that are in a call run on and Redis commands return (the client
\* has read and write timeouts), time passes, requests keep arriving, and
\* among the commands that are answered some are recorded as successes.
Fairness ==
  /\ \A c \in Callers : WF_breakerVars(Step(c)) /\ WF_breakerVars(StartCall(c))
  /\ WF_breakerVars(BreakerTick)
  /\ SF_breakerVars(\E c \in Callers : Finish(c, "ok"))

FairSpec == BreakerSpec /\ Fairness

-----------------------------------------------------------------------------
TypeOK ==
  /\ state \in {"Closed", "Open", "HalfOpen"}
  /\ failures \in 0..Threshold
  /\ lastFailure \in 0..(Timeout + 1)
  /\ halfOpenReqs \in Int
  /\ access \in [Callers -> Steps]
  /\ seen \in [Callers -> 0..(Timeout + 1)]
  /\ fallsThrough \in SUBSET Callers
  /\ probes \in SUBSET Callers
  /\ healthy \in BOOLEAN

\* No probe slot is ever leaked: in the half-open state, once the caller that
\* opened the round has stored its zero, the slots in use are at most the
\* callers that took one in this round and have not given it back.  About the
\* two-access ReleaseProbe, which skips the decrement when the state has just
\* changed.
NoLeakedSlot ==
  /\ state = "HalfOpen"
  /\ \A c \in Callers : access[c] # "zeroProbes"
  => halfOpenReqs <= Cardinality(probes)

\* Whoever holds a probe slot has been admitted and has not returned yet.
SlotsHeldInCalls == \A c \in probes : access[c] \in CallSteps

\* The inductive invariant behind both properties.
IInv == TypeOK /\ SlotsHeldInCalls /\ NoLeakedSlot

\* The half-open state never locks everyone out: when no call is in flight the
\* next request is admitted as a probe, so the breaker can still close.
HalfOpenAdmits ==
  /\ state = "HalfOpen"
  /\ \A c \in Callers : access[c] = "idle"
  => halfOpenReqs < MaxProbes

\* An open breaker is always probed again, even if Redis keeps failing: late
\* failures of old calls cannot push lastFailure forward for ever.
EventuallyProbed == state = "Open" ~> state # "Open"

\* Once Redis stays healthy the breaker closes and stays closed, whatever the
\* calls that were in flight during the outage still record.
Recovers == <>[]healthy => <>[](state = "Closed")

=============================================================================
