----------------------------- MODULE Middleware -----------------------------
(***************************************************************************)
(* The request pipeline (middleware/routing/middleware.go, Handler): every *)
(* request goroutine counts itself in, reads the body, asks the backend    *)
(* about the global limit, about blocks of its key and about the limit of  *)
(* its key, and is refused, or forwarded to the next handler.  An          *)
(* administrator unblocks keys meanwhile.                                  *)
(*                                                                         *)
(* The backend is modelled by its interface: one step per call.  A call    *)
(* may fail (an open circuit, a timeout, a cancelled request), and a call  *)
(* that failed may still have taken effect, its answer being lost.  The two*)
(* backends differ where it matters here: the limiter of the in-memory one *)
(* refuses a blocked key, and it evicts entries with all they hold; the    *)
(* limiter of Redis never sees a block.  Modules MemoryBackend and         *)
(* RedisBackend have the steps inside their calls.  A tick is a second, to *)
(* which Redis rounds blocks.                                              *)
(***************************************************************************)
EXTENDS Integers, Sequences, FiniteSets

CONSTANTS
  Goroutines,      \* request goroutines
  Keys,            \* limit keys: client addresses or "user:..." names
  Modes,           \* the values of StrictBackendErrors to consider
  Backends,        \* the backends to consider: "memory", "redis"
  GlobalLimit,     \* admissions per window over all keys; 0: no global limit
  KeyLimit,        \* admissions per window of one key
  WindowSize,      \* the window length, in ticks
  BlockDuration,   \* BlockDuration of the configuration, in ticks
  RuleBlocks,      \* the BlockDurations of rules that have one of their own
  MaxBlockDuration,\* MaxBlockDuration, in ticks; 0: no maximum
  MaxDuration,     \* the largest time.Duration, in ticks
  BackoffBase,     \* ExponentialBackoffBase
  JitterMax,       \* JitterMaxPercent, in percent; 0: jitter disabled
  Before,          \* violations a key may have when the run, and its counts, begin
  MaxRequests,     \* bound on the number of requests
  MaxTime,         \* bound on the clock
  Global           \* the key of the global limit

ASSUME ConfigAssumption ==
  /\ Modes \subseteq BOOLEAN
  /\ {GlobalLimit, MaxBlockDuration, JitterMax, MaxRequests} \subseteq Nat
  /\ {KeyLimit, WindowSize, BlockDuration, BackoffBase, MaxTime, MaxDuration}
       \subseteq Nat \ {0}
  /\ Before \subseteq Nat /\ RuleBlocks \subseteq Nat \ {0}
  /\ Backends \subseteq {"memory", "redis"}
  /\ Global \notin Keys

ASSUME KeysAssumption == Keys # {}
ASSUME FinitelyManyGoroutines == IsFiniteSet(Goroutines)

VARIABLES
  now,           \* the clock
  strict,        \* StrictBackendErrors: fixed by the configuration
  store,         \* the backend in use: fixed by the configuration
  window,        \* window[k]: admission times the backend keeps for k
  blockedUntil,  \* blockedUntil[k]: when the block of k ends
  violations,    \* violations[k]
  pc, key, bot,  \* the step, the limit key and the nature of each request
  counted,       \* counted[g]: the violation count its increment returned
  reply,         \* reply[g]: the answer to the last request of g
  InFlight, Allowed, Blocked, BotBlocked,  \* the limiter's counters
  arrivals,      \* history: requests that arrived
  errors,        \* history: requests answered with none of the counters
  failed,        \* history: failed[g], a check of this request failed
  promised,      \* history: until when a Block that succeeded blocks k
  overflowed     \* history: whether an escalated block exceeded a Duration

backend == <<window, blockedUntil, violations>>
request == <<key, bot, counted>>
counters == <<InFlight, Allowed, Blocked, BotBlocked, errors>>
history == <<arrivals, failed, promised, overflowed>>
config == <<strict, store>>
vars == <<now, config, backend, pc, request, reply, counters, history>>

Init ==
  /\ now = 1
  /\ strict \in Modes /\ store \in Backends
  /\ window = [k \in Keys \cup {Global} |-> << >>]
  /\ blockedUntil = [k \in Keys |-> 0]
  /\ violations \in [Keys -> Before]
  /\ pc = [g \in Goroutines |-> "idle"]
  /\ key = [g \in Goroutines |-> CHOOSE k \in Keys : TRUE]
  /\ bot = [g \in Goroutines |-> FALSE]
  /\ counted = [g \in Goroutines |-> 0]
  /\ reply = [g \in Goroutines |-> "none"]
  /\ InFlight = 0 /\ Allowed = 0 /\ Blocked = 0 /\ BotBlocked = 0 /\ errors = 0
  /\ arrivals = 0
  /\ failed = [g \in Goroutines |-> FALSE]
  /\ promised = [k \in Keys |-> 0]
  /\ overflowed = FALSE

Goto(g, from, to) ==
  /\ pc[g] = from
  /\ pc' = [pc EXCEPT ![g] = to]

\* Write the response; the deferred decrement of InFlight is a step of its own.
Answer(g, from, r) ==
  /\ Goto(g, from, "return")
  /\ reply' = [reply EXCEPT ![g] = r]

\* Mutant: a refusal is not counted.
CountNothing == UNCHANGED counters

CountBlocked ==
  /\ Blocked' = Blocked + 1
  /\ UNCHANGED <<InFlight, Allowed, BotBlocked, errors>>

CountError ==
  /\ errors' = errors + 1
  /\ UNCHANGED <<InFlight, Allowed, Blocked, BotBlocked>>

-----------------------------------------------------------------------------
(* The backend's interface.                                                *)

\* The admissions of k inside the window, which were the last.
InWindow(k) ==
  LET old == {i \in DOMAIN window[k] : window[k][i] <= now - WindowSize}
  IN  SubSeq(window[k], Cardinality(old) + 1, Len(window[k]))

IsBlocked(k) == now < blockedUntil[k]

\* Whether AllowSlidingWindow refuses k for a block: the script of Redis compares
\* seconds with milliseconds, and finds none.
LimiterSeesBlock(k) == store = "memory" /\ IsBlocked(k)

\* AllowSlidingWindow(k, limit) admits, or refuses because the window is full.
Admit(k, limit) ==
  /\ Len(InWindow(k)) < limit
  /\ window' = [window EXCEPT ![k] = Append(InWindow(k), now)]
  /\ UNCHANGED <<blockedUntil, violations>>

Full(k, limit) ==
  /\ Len(InWindow(k)) >= limit
  /\ window' = [window EXCEPT ![k] = InWindow(k)]
  /\ UNCHANGED <<blockedUntil, violations>>

\* Block(k, d): a negative d unblocks and forgets the violations, and in Redis
\* the window too.
SetBlock(k, d) ==
  /\ blockedUntil' = [blockedUntil EXCEPT ![k] = IF d < 0 THEN 0 ELSE now + d]
  /\ violations' = IF d < 0 THEN [violations EXCEPT ![k] = 0] ELSE violations
  /\ window' = IF d < 0 /\ store = "redis"
               THEN [window EXCEPT ![k] = << >>] ELSE window

-----------------------------------------------------------------------------
(* The start of a request.                                                 *)

Arrive(g, k, b) ==
  /\ arrivals < MaxRequests
  /\ arrivals' = arrivals + 1
  /\ Goto(g, "idle", "body")
  /\ key' = [key EXCEPT ![g] = k]
  /\ bot' = [bot EXCEPT ![g] = b]
  /\ reply' = [reply EXCEPT ![g] = "none"]
  /\ failed' = [failed EXCEPT ![g] = FALSE]
  /\ InFlight' = InFlight + 1
  /\ UNCHANGED <<now, config, backend, counted, Allowed, Blocked, BotBlocked,
                 errors, promised, overflowed>>

\* The body cannot be read, or is larger than MaxRequestBodySize.
RejectBody(g) ==
  /\ Answer(g, "body", "badBody")
  /\ CountError
  /\ UNCHANGED <<now, config, backend, request, history>>

ReadBody(g) ==
  /\ Goto(g, "body", IF GlobalLimit > 0 THEN "global" ELSE "checkBlocked")
  /\ UNCHANGED <<now, config, backend, request, reply, counters, history>>

-----------------------------------------------------------------------------
(* A backend call failed: fail closed if StrictBackendErrors, else go on.  *)

\* Mutant: the request goes on whether or not errors are strict.
CallFailsOpen(g, from, to) ==
  /\ Goto(g, from, to)
  /\ failed' = [failed EXCEPT ![g] = TRUE]
  /\ UNCHANGED <<now, config, request, reply, counters, arrivals, promised,
                 overflowed>>

CallFails(g, from, to) ==
  /\ IF strict THEN Answer(g, from, "unavailable") /\ CountError
               ELSE Goto(g, from, to) /\ UNCHANGED <<reply, counters>>
  /\ failed' = [failed EXCEPT ![g] = TRUE]
  /\ UNCHANGED <<now, config, request, arrivals, promised, overflowed>>

-----------------------------------------------------------------------------
(* The global limit.                                                       *)

PassGlobal(g) ==
  /\ Goto(g, "global", "checkBlocked")
  /\ Admit(Global, GlobalLimit)
  /\ UNCHANGED <<now, config, request, reply, counters, history>>

RefuseGlobal(g) ==
  /\ Answer(g, "global", "globalLimit")
  /\ Full(Global, GlobalLimit)
  /\ CountBlocked
  /\ UNCHANGED <<now, config, request, history>>

GlobalFails(g) ==
  /\ CallFails(g, "global", "checkBlocked")
  /\ UNCHANGED backend \/ Admit(Global, GlobalLimit) \/ Full(Global, GlobalLimit)

-----------------------------------------------------------------------------
(* Blocked keys and bots.                                                  *)

RefuseBlocked(g) ==
  /\ Answer(g, "checkBlocked", "ipBlocked")
  /\ IsBlocked(key[g])
  /\ CountBlocked
  /\ UNCHANGED <<now, config, backend, request, history>>

PassBlockCheck(g) ==
  /\ Goto(g, "checkBlocked", "detectBot")
  /\ ~IsBlocked(key[g])
  /\ UNCHANGED <<now, config, backend, request, reply, counters, history>>

BlockCheckFails(g) ==
  /\ CallFails(g, "checkBlocked", "detectBot")
  /\ UNCHANGED backend

DetectBot(g) ==
  /\ bot[g]
  /\ Goto(g, "detectBot", "blockBot")
  /\ BotBlocked' = BotBlocked + 1
  /\ UNCHANGED <<now, config, backend, request, reply, InFlight, Allowed,
                 Blocked, errors, history>>

PassBotCheck(g) ==
  /\ ~bot[g]
  /\ Goto(g, "detectBot", "allow")
  /\ UNCHANGED <<now, config, backend, request, reply, counters, history>>

\* A Block whose outcome is unknown, or an unblock, withdraws the promise.
Unpromised(k) ==
  /\ promised' = [promised EXCEPT ![k] = 0]
  /\ UNCHANGED <<arrivals, failed>>

\* blockIP: an error of the backend is only logged.
BlockBot(g) ==
  /\ Answer(g, "blockBot", "botDetected")
  /\ SetBlock(key[g], BlockDuration)
  /\ promised' = [promised EXCEPT ![key[g]] = now + BlockDuration]
  /\ UNCHANGED <<now, config, request, counters, arrivals, failed, overflowed>>

BlockBotFails(g) ==
  /\ Answer(g, "blockBot", "botDetected")
  /\ UNCHANGED backend \/ SetBlock(key[g], BlockDuration)
  /\ Unpromised(key[g])
  /\ UNCHANGED <<now, config, request, counters, overflowed>>

-----------------------------------------------------------------------------
(* The limit of the key, and escalation.                                   *)

\* Mutant: the in-memory limiter does not look at the block either.
PassLimitBlind(g) ==
  /\ Goto(g, "allow", "forward")
  /\ Admit(key[g], KeyLimit)
  /\ UNCHANGED <<now, config, request, reply, counters, history>>

PassLimit(g) ==
  /\ Goto(g, "allow", "forward")
  /\ ~LimiterSeesBlock(key[g])
  /\ Admit(key[g], KeyLimit)
  /\ UNCHANGED <<now, config, request, reply, counters, history>>

\* A full window is refused with retryAfter > 0: no violation is counted.
RefuseFull(g) ==
  /\ Answer(g, "allow", "keyLimit")
  /\ ~LimiterSeesBlock(key[g])
  /\ Full(key[g], KeyLimit)
  /\ CountBlocked
  /\ UNCHANGED <<now, config, request, history>>

\* The key was blocked since the block check: the in-memory limiter refuses it
\* with the time that is left as retryAfter.
RefuseNewlyBlocked(g) ==
  /\ Answer(g, "allow", "keyLimit")
  /\ LimiterSeesBlock(key[g])
  /\ CountBlocked
  /\ UNCHANGED <<now, config, backend, request, history>>

\* The same with the block just ending: the backend reads the clock twice, and
\* at the second reading nothing is left.  retryAfter = 0 counts a violation.
BlockRunsOut(g) ==
  /\ Goto(g, "allow", "violation")
  /\ LimiterSeesBlock(key[g])
  /\ blockedUntil[key[g]] = now + 1
  /\ UNCHANGED <<now, config, backend, request, reply, counters, history>>

LimitFails(g) ==
  /\ CallFails(g, "allow", "forward")
  /\ \/ UNCHANGED backend
     \/ /\ ~LimiterSeesBlock(key[g])
        /\ Admit(key[g], KeyLimit) \/ Full(key[g], KeyLimit)

IncrementViolation(g) ==
  /\ Goto(g, "violation", "escalate")
  /\ violations' = [violations EXCEPT ![key[g]] = @ + 1]
  /\ counted' = [counted EXCEPT ![g] = violations'[key[g]]]
  /\ UNCHANGED <<now, config, window, blockedUntil, key, bot, reply, counters,
                 history>>

\* The error is only logged; the count is taken to be 0.
IncrementFails(g) ==
  /\ Goto(g, "violation", "escalate")
  /\ violations' \in {violations, [violations EXCEPT ![key[g]] = @ + 1]}
  /\ counted' = [counted EXCEPT ![g] = 0]
  /\ UNCHANGED <<now, config, window, blockedUntil, key, bot, reply, counters,
                 history>>

\* The conversion of a float64 to a Duration: what does not fit becomes one end
\* of the range, which depends on the processor.
ToDurations(x) ==
  IF x \in 0..MaxDuration THEN {x} ELSE {MaxDuration, -MaxDuration - 1}

\* The block of the request's limits: of the configuration, or of its rule.
BaseDurations == RuleBlocks \cup {BlockDuration}

Backoff(base, v) == base * BackoffBase^(v - 1)
Overflows(base, v) == v > 1 /\ Backoff(base, v) \notin 0..MaxDuration
Escalated(base, v) == IF v > 1 THEN ToDurations(Backoff(base, v)) ELSE {base}

\* Mutant: the maximum is not applied.
Uncapped(d) == d

Capped(d) == IF MaxBlockDuration > 0 /\ d > MaxBlockDuration
             THEN MaxBlockDuration ELSE d

\* A percentage of d by the clock, rounded towards zero.
Jitter(d, n) == (d * JitterMax * n) \div 10000
Jitters(d) == {IF d < 0 THEN -Jitter(-d, n) ELSE Jitter(d, n) : n \in 0..99}

\* The sum of two Durations wraps around.
Wrapped(d) ==
  IF d > MaxDuration THEN d - 2 * (MaxDuration + 1)
  ELSE IF d < -MaxDuration - 1 THEN d + 2 * (MaxDuration + 1) ELSE d

\* calculateBlockDuration: the jitter is added to the capped duration.
BlockDurations(base, v) ==
  LET durations(d) == {Wrapped(d + j) : j \in Jitters(d)}
  IN  UNION {durations(Capped(e)) : e \in Escalated(base, v)}

\* Block the violator; its request is refused whether or not the call fails.
Escalate(g) ==
  /\ Answer(g, "escalate", "keyLimit")
  /\ CountBlocked
  /\ \E base \in BaseDurations :
       /\ overflowed' = (overflowed \/ Overflows(base, counted[g]))
       /\ \E d \in BlockDurations(base, counted[g]) :
            /\ SetBlock(key[g], d)
            /\ promised' =
                 [promised EXCEPT ![key[g]] = IF d < 0 THEN 0 ELSE now + d]
  /\ UNCHANGED <<now, config, request, arrivals, failed>>

EscalateFails(g) ==
  /\ Answer(g, "escalate", "keyLimit")
  /\ CountBlocked
  /\ \E base \in BaseDurations :
       /\ overflowed' = (overflowed \/ Overflows(base, counted[g]))
       /\ \/ UNCHANGED backend
          \/ \E d \in BlockDurations(base, counted[g]) : SetBlock(key[g], d)
  /\ Unpromised(key[g])
  /\ UNCHANGED <<now, config, request>>

\* Validate refuses a maximum shorter than the configuration's block, though not
\* than a rule's, and no maximum is so long that a jitter takes it out of the range
\* of a Duration, some 292 years.
ASSUME MaximumAssumption ==
  /\ BaseDurations \subseteq 0..MaxDuration
  /\ MaxBlockDuration > 0 =>
       /\ BlockDuration <= MaxBlockDuration
       /\ \A j \in Jitters(MaxBlockDuration) : MaxBlockDuration + j <= MaxDuration

-----------------------------------------------------------------------------
(* The end of a request.                                                   *)

Forward(g) ==
  /\ Goto(g, "forward", "serve")
  /\ Allowed' = Allowed + 1
  /\ UNCHANGED <<now, config, backend, request, reply, InFlight, Blocked,
                 BotBlocked, errors, history>>

Serve(g) ==
  /\ Answer(g, "serve", "served")
  /\ UNCHANGED <<now, config, backend, request, counters, history>>

\* Mutant: InFlight is decremented by the handler and by its defer.
ReturnTwice(g) ==
  /\ Goto(g, "return", "idle")
  /\ InFlight' = InFlight - 2
  /\ UNCHANGED <<now, config, backend, request, reply, Allowed, Blocked,
                 BotBlocked, errors, history>>

Return(g) ==
  /\ Goto(g, "return", "idle")
  /\ InFlight' = InFlight - 1
  /\ UNCHANGED <<now, config, backend, request, reply, Allowed, Blocked,
                 BotBlocked, errors, history>>

-----------------------------------------------------------------------------
(* The administrator's /unblock, evictions, and time.                      *)

Unblock(k) ==
  /\ SetBlock(k, -1)
  /\ Unpromised(k)
  /\ UNCHANGED <<now, config, pc, request, reply, counters, overflowed>>

\* The in-memory backend evicts the entry of k, or finds it expired.
Evict(k) ==
  /\ store = "memory"
  /\ window' = [window EXCEPT ![k] = << >>]
  /\ blockedUntil' = [h \in Keys |-> IF h = k THEN 0 ELSE blockedUntil[h]]
  /\ violations' = [h \in Keys |-> IF h = k THEN 0 ELSE violations[h]]
  /\ promised' = [h \in Keys |-> IF h = k THEN 0 ELSE promised[h]]
  /\ UNCHANGED <<now, config, pc, request, reply, counters, arrivals, failed,
                 overflowed>>

Tick ==
  /\ now < MaxTime
  /\ now' = now + 1
  /\ UNCHANGED <<config, backend, pc, request, reply, counters, history>>

Step(g) ==
  \/ RejectBody(g) \/ ReadBody(g)
  \/ PassGlobal(g) \/ RefuseGlobal(g) \/ GlobalFails(g)
  \/ RefuseBlocked(g) \/ PassBlockCheck(g) \/ BlockCheckFails(g)
  \/ DetectBot(g) \/ PassBotCheck(g) \/ BlockBot(g) \/ BlockBotFails(g)
  \/ PassLimit(g) \/ RefuseFull(g) \/ RefuseNewlyBlocked(g) \/ BlockRunsOut(g)
  \/ LimitFails(g) \/ IncrementViolation(g) \/ IncrementFails(g)
  \/ Escalate(g) \/ EscalateFails(g)
  \/ Forward(g) \/ Serve(g) \/ Return(g)

Next ==
  \/ \E g \in Goroutines : Step(g)
  \/ \E g \in Goroutines, k \in Keys, b \in BOOLEAN : Arrive(g, k, b)
  \/ \E k \in Keys : Unblock(k)
  \/ \E k \in Keys \cup {Global} : Evict(k)
  \/ Tick

Spec == Init /\ [][Next]_vars

-----------------------------------------------------------------------------
Replies == {"none", "badBody", "unavailable", "globalLimit", "ipBlocked",
            "botDetected", "keyLimit", "served"}
Steps == {"idle", "body", "global", "checkBlocked", "detectBot", "blockBot",
          "allow", "violation", "escalate", "forward", "serve", "return"}

ControlTypeOK ==
  /\ pc \in [Goroutines -> Steps] /\ reply \in [Goroutines -> Replies]
  /\ key \in [Goroutines -> Keys] /\ bot \in [Goroutines -> BOOLEAN]
  /\ failed \in [Goroutines -> BOOLEAN]
  /\ InFlight \in Nat /\ Allowed \in Nat /\ Blocked \in Nat
  /\ BotBlocked \in Nat /\ errors \in Nat /\ arrivals \in Nat

BackendTypeOK ==
  /\ now \in 1..MaxTime /\ strict \in BOOLEAN /\ store \in {"memory", "redis"}
  /\ window \in [Keys \cup {Global} -> Seq(1..MaxTime)]
  /\ blockedUntil \in [Keys -> Nat] /\ violations \in [Keys -> Nat]
  /\ counted \in [Goroutines -> Nat]
  /\ promised \in [Keys -> Nat] /\ overflowed \in BOOLEAN

TypeOK == ControlTypeOK /\ BackendTypeOK

\* The requests that are in the handler, and those of them not yet counted.
Busy == {g \in Goroutines : pc[g] # "idle"}
CountedSteps == {"blockBot", "serve", "return"}
Uncounted == {g \in Goroutines : pc[g] \notin CountedSteps \cup {"idle"}}

\* The counters add up at every moment: InFlight is the number of requests in
\* the handler, and every request is counted allowed, blocked or bot-blocked, or
\* answered with an error, exactly once.
Accounting ==
  /\ InFlight = Cardinality(Busy)
  /\ arrivals = Allowed + Blocked + BotBlocked + errors + Cardinality(Uncounted)

\* strict_backend_errors fails closed: a request one of whose checks the backend
\* did not answer is neither forwarded nor checked any further.
StrictFailsClosed ==
  strict =>
    \A g \in Goroutines :
      failed[g] => pc[g] \in {"return", "idle"} /\ reply[g] = "unavailable"

\* A block that was set is in force until it ends, is lifted or is evicted: while
\* it lasts no request of the key passes the block check and, in memory, none is
\* admitted by the limiter that has passed the check before the block was set,
\* unless a check failed.  The limiter of Redis does admit such a request.
PassesCheck(g) == pc[g] = "checkBlocked" /\ pc'[g] = "detectBot"
PassesLimiter(g) == pc[g] = "allow" /\ pc'[g] = "forward"
BlocksEnforced ==
  [][\A g \in Goroutines :
       PassesCheck(g) \/ (store = "memory" /\ PassesLimiter(g)) =>
         failed'[g] \/ now >= promised[key[g]]]_vars

\* No block lasts longer than max_block_duration and the jitter that
\* calculateBlockDuration adds on top of it, as long as no escalation has exceeded
\* the range of a Duration: that escapes the maximum, for it may become negative.
BlockCapped ==
  MaxBlockDuration > 0 /\ ~overflowed =>
    \A k \in Keys : \E j \in Jitters(MaxBlockDuration) :
      blockedUntil[k] <= now + MaxBlockDuration + j
=============================================================================
