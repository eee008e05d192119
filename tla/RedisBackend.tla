---------------------------- MODULE RedisBackend ----------------------------
(***************************************************************************)
(* One key of the Redis backend (middleware/storage/redis/store.go): the   *)
(* scripts and commands of AllowSlidingWindow, GetSlidingWindowCount,      *)
(* Block and IsBlocked.  A script is atomic, but it is given the time its  *)
(* caller read before it was sent, and the client sends it again when no   *)
(* answer comes: a copy may run late, more than once, or never, and its    *)
(* answer may be lost.                                                     *)
(*                                                                         *)
(* A tick stands for the script's millisecond; PerSecond of them are what  *)
(* Unix() and EXPIRE count in.  A call the breaker rejects changes nothing *)
(* here (module CircuitBreaker).                                           *)
(***************************************************************************)
EXTENDS Integers, Sequences, FiniteSetsExt

CONSTANTS
  Calls,        \* the calls that may be in progress at once
  Limit, Window,  \* the arguments of AllowSlidingWindow, Window in ticks
  PerSecond,      \* ticks in a second
  DefaultWindow,  \* defaultWindowSecs, in ticks
  Workloads,      \* sets of requests; in each behaviour one of them is used.
                  \*   A request is [op, d], d the duration of a Block in
                  \*   ticks, negative to unblock, and otherwise 0
  MaxRetries,     \* how often the client library sends a command again
  MaxDelay,       \* bound on the ticks from reading the clock to the last of a call
  Start, MaxTime  \* the times considered

ASSUME RedisAssumption ==
  /\ Limit \in Nat \ {0} /\ PerSecond \in Nat \ {0} /\ MaxRetries \in Nat
  /\ Window \in Nat /\ MaxDelay \in 0..Window
  /\ DefaultWindow \in Nat /\ DefaultWindow % PerSecond = 0
  /\ Workloads \subseteq
       SUBSET [op : {"Allow", "Count", "Block", "IsBlocked"}, d : Int]
  /\ MaxTime \in Nat /\ Start \in 0..MaxTime

VARIABLES
  workload,      \* the requests that are made
  time,          \* the clock of the server and of its clients
  blockedUntil,  \* the field blocked_until, in ticks; Missing if there is none
  expiry,        \* when the hash expires; Missing if it has no TTL
  scores,        \* the sorted set key:sw: how many members have each score
  args,          \* of each call: the command, with the time it read
  pc,            \* "idle" or "waiting"
  try,           \* the attempt that the call waits for
  flight,        \* the attempts still to be run, also of calls that gave up
  field,         \* what an IsBlocked that waits has been answered; Unread before
  admitted,      \* history: when the last Limit + 1 admissions ran
  roomAt,        \* history: by when a refusal since the last admission
                 \*   promised room; Missing if there was none
  acked,         \* history: until when an acknowledged Block is in force;
                 \*   Missing if none is, or if it cannot be read any more
  due            \* history: what acked was when the call began, unless the
                 \*   block was lifted or masked since

server == <<blockedUntil, expiry, scores>>
history == <<admitted, roomAt, acked, due>>
vars == <<workload, time, server, args, pc, try, flight, field, history>>

Missing == -1
Times == Start..MaxTime
Unread == -2

Init ==
  /\ workload \in Workloads
  /\ time = Start
  /\ blockedUntil = Missing /\ expiry = Missing
  /\ scores = [t \in Times |-> 0]
  /\ args = [c \in Calls |-> [op |-> "IsBlocked", now |-> Start, d |-> 0]]
  /\ pc = [c \in Calls |-> "idle"]
  /\ try = [c \in Calls |-> 0]
  /\ flight = [c \in Calls |-> {}]
  /\ field = [c \in Calls |-> Unread]
  /\ admitted = << >> /\ roomAt = Missing /\ acked = Missing
  /\ due = [c \in Calls |-> Missing]

-----------------------------------------------------------------------------
(* The client.                                                             *)

\* Something of the call is left.
InUse(c) == pc[c] = "waiting" \/ flight[c] # {}

\* A call reads the clock and sends its command.  A slot is taken again when
\* nothing of the call before it is left.
Begin(c, r) ==
  /\ ~InUse(c)
  /\ args' = [args EXCEPT ![c] = [op |-> r.op, d |-> r.d, now |-> time]]
  /\ pc' = [pc EXCEPT ![c] = "waiting"]
  /\ try' = [try EXCEPT ![c] = 0]
  /\ flight' = [flight EXCEPT ![c] = {0}]
  /\ field' = [field EXCEPT ![c] = Unread]
  /\ due' = [due EXCEPT ![c] = IF r.op = "IsBlocked" THEN acked ELSE Missing]
  /\ UNCHANGED <<workload, time, server, admitted, roomAt, acked>>

\* now := float64(time.Now().Unix()), in ticks
Seconds(c) == (args[c].now \div PerSecond) * PerSecond

BlockEnd(c) == Seconds(c) + args[c].d

\* IsBlocked returns; it parses the field, or fails to, and compares it with the
\* clock as late as here.
Answer(c) ==
  /\ pc[c] = "waiting" /\ field[c] # Unread
  /\ pc' = [pc EXCEPT ![c] = "idle"]
  /\ UNCHANGED <<workload, time, server, args, try, flight, field, history>>

\* No answer in time: the command is sent once more, unchanged.
Retry(c) ==
  /\ pc[c] = "waiting" /\ try[c] < MaxRetries
  /\ try' = [try EXCEPT ![c] = @ + 1]
  /\ flight' = [flight EXCEPT ![c] = @ \cup {try[c] + 1}]
  /\ field' = [field EXCEPT ![c] = Unread]
  /\ UNCHANGED <<workload, time, server, args, pc, history>>

\* The last attempt, or the request's context, has run out of time.
GiveUp(c) ==
  /\ pc[c] = "waiting"
  /\ try[c] = MaxRetries \/ time = args[c].now + MaxDelay
  /\ pc' = [pc EXCEPT ![c] = "idle"]
  /\ UNCHANGED <<workload, time, server, args, try, flight, field, history>>

\* An attempt that never runs is given up when it is too late for it to run.
Lose(c, k) ==
  /\ k \in flight[c] /\ time = args[c].now + MaxDelay
  /\ flight' = [flight EXCEPT ![c] = @ \ {k}]
  /\ UNCHANGED <<workload, time, server, args, pc, try, field, history>>

-----------------------------------------------------------------------------
(* The server: each script and command runs as a whole.                    *)

\* Attempt k of c, a call of op, is run.
Runs(c, k, op) ==
  /\ k \in flight[c] /\ args[c].op = op
  /\ flight' = [flight EXCEPT ![c] = @ \ {k}]
  /\ UNCHANGED <<workload, time, args, try>>

\* Its answer ends the call, or is lost; that of an attempt the call no longer
\* waits for always is.
Answered(c, k) ==
  pc[c] = "waiting" /\ k = try[c] /\ pc' = [pc EXCEPT ![c] = "idle"]

Returns(c, k) == (Answered(c, k) \/ UNCHANGED pc) /\ UNCHANGED field

\* Mutant: scores are compared with the cutoff by their second only.
TrimmedBySecond(cutoff) ==
  [t \in Times |-> IF (t \div PerSecond) * PerSecond <= cutoff THEN 0
                   ELSE scores[t]]

\* ZREMRANGEBYSCORE windowKey 0 cutoff
Trimmed(cutoff) ==
  [t \in Times |-> IF t <= cutoff THEN 0 ELSE scores[t]]

\* ZCARD; a member is a score and a number among those of that score.
Members(z) == UNION {{t} \X (1..z[t]) : t \in Times}
Card(z) == Cardinality(Members(z))

Oldest(z) == Min({t \in Times : z[t] > 0})

\* The comparison of the script: blocked_until counts seconds, now ticks.
SeesBlock(now) == blockedUntil # Missing /\ now * PerSecond < blockedUntil

LastOf(s) == IF Len(s) > Limit + 1 THEN Tail(s) ELSE s

RunAdmit(c, k) ==
  LET now == args[c].now
      kept == Trimmed(now - Window)
  IN  /\ ~SeesBlock(now)
      /\ Card(kept) < Limit
      /\ scores' = [kept EXCEPT ![now] = @ + 1]
      /\ admitted' = LastOf(Append(admitted, time))
      /\ roomAt' = Missing
      /\ Runs(c, k, "Allow") /\ Returns(c, k)
      /\ UNCHANGED <<blockedUntil, expiry, acked, due>>

\* Mutant: the time left is rounded down.
RetryAfterFloor(oldest, now) == (oldest + Window - now) \div PerSecond

\* math.ceil((oldest + window - now) / 1000)
RetryAfter(oldest, now) ==
  (oldest + Window - now + PerSecond - 1) \div PerSecond

RunRefuse(c, k) ==
  LET now == args[c].now
      kept == Trimmed(now - Window)
      after == RetryAfter(Oldest(kept), now)
      promise == now + after * PerSecond
  IN  /\ ~SeesBlock(now)
      /\ Card(kept) >= Limit
      /\ scores' = kept
      /\ roomAt' = IF roomAt = Missing \/ promise < roomAt
                   THEN promise ELSE roomAt
      /\ Runs(c, k, "Allow") /\ Returns(c, k)
      /\ UNCHANGED <<blockedUntil, expiry, admitted, acked, due>>

\* GetSlidingWindowCount trims before it counts.
RunCount(c, k) ==
  LET kept == Trimmed(args[c].now - Window)
  IN  /\ scores' = kept
      /\ Runs(c, k, "Count") /\ Returns(c, k)
      /\ UNCHANGED <<blockedUntil, expiry, history>>

Whole(e) == e % PerSecond = 0

\* What is left of a promise when a block that ends at e is set: one that went
\* beyond e is lifted, and any is masked by an end that is no whole second,
\* which IsBlocked cannot parse.
Lifted(e, promise) ==
  IF promise > e \/ ~Whole(e) THEN Missing ELSE promise

\* How long the hash is to last, the time that EXPIRE is given.
Lasts(c) == Max({args[c].d, DefaultWindow})

\* Mutant: the hash expires when the window ends, whatever the duration.
RunBlockShortTTL(c, k) ==
  LET e == BlockEnd(c)
  IN  /\ args[c].d >= 0 /\ Whole(Lasts(c))
      /\ blockedUntil' = e
      /\ expiry' = time + DefaultWindow
      /\ Runs(c, k, "Block")
      /\ \/ Answered(c, k) /\ acked' = Lifted(e, e)
         \/ UNCHANGED pc /\ acked' = Lifted(e, acked)
      /\ due' = [b \in Calls |-> Lifted(e, due[b])]
      /\ UNCHANGED <<scores, field, admitted, roomAt>>

RunBlock(c, k) ==
  LET e == BlockEnd(c)
  IN  /\ args[c].d >= 0 /\ Whole(Lasts(c))
      /\ blockedUntil' = e
      /\ expiry' = time + Lasts(c)
      /\ Runs(c, k, "Block")
      /\ \/ Answered(c, k) /\ acked' = Lifted(e, e)
         \/ UNCHANGED pc /\ acked' = Lifted(e, acked)
      /\ due' = [b \in Calls |-> Lifted(e, due[b])]
      /\ UNCHANGED <<scores, field, admitted, roomAt>>

\* HMSET has stored the field when EXPIRE refuses a fraction and the script fails.
RunBlockFraction(c, k) ==
  LET e == BlockEnd(c)
  IN  /\ args[c].d >= 0 /\ ~Whole(Lasts(c))
      /\ blockedUntil' = e
      /\ Runs(c, k, "Block") /\ Returns(c, k)
      /\ acked' = Lifted(e, acked)
      /\ due' = [b \in Calls |-> Lifted(e, due[b])]
      /\ UNCHANGED <<expiry, scores, admitted, roomAt>>

RunUnblock(c, k) ==
  /\ args[c].d < 0
  /\ blockedUntil' = Missing /\ expiry' = Missing
  /\ scores' = [t \in Times |-> 0]
  /\ acked' = Missing
  /\ due' = [b \in Calls |-> Missing]
  /\ admitted' = << >>
  /\ roomAt' = Missing
  /\ Runs(c, k, "Block") /\ Returns(c, k)

\* HGET; the caller compares the field with the time when the answer comes.
RunIsBlocked(c, k) ==
  /\ Runs(c, k, "IsBlocked")
  /\ \/ k = try[c] /\ field' = [field EXCEPT ![c] = blockedUntil]
     \/ UNCHANGED field
  /\ UNCHANGED <<server, pc, history>>

\* Time passes; Redis drops a hash whose time has come.
Tick ==
  /\ time < MaxTime
  /\ \A c \in Calls : InUse(c) => time < args[c].now + MaxDelay
  /\ time' = time + 1
  /\ IF expiry # Missing /\ expiry <= time'
     THEN blockedUntil' = Missing /\ expiry' = Missing
     ELSE UNCHANGED <<blockedUntil, expiry>>
  /\ UNCHANGED <<workload, scores, args, pc, try, flight, field, history>>

Client(c) ==
  \/ \E r \in workload : Begin(c, r)
  \/ Answer(c) \/ Retry(c) \/ GiveUp(c)

Server(c) ==
  \E k \in flight[c] :
    \/ RunAdmit(c, k) \/ RunRefuse(c, k) \/ RunCount(c, k)
    \/ RunBlock(c, k) \/ RunBlockFraction(c, k) \/ RunUnblock(c, k)
    \/ RunIsBlocked(c, k)
    \/ Lose(c, k)

Next == Tick \/ \E c \in Calls : Client(c) \/ Server(c)

Spec == Init /\ [][Next]_vars

-----------------------------------------------------------------------------
\* Whatever runs late or twice: in no time shorter than the window, less the
\* time a command may be under way, do more than Limit admissions run.
\* Unblocking empties the window, and the count of admissions with it.
WithinLimit ==
  Len(admitted) = Limit + 1 =>
    admitted[Limit + 1] - admitted[1] >= Window - MaxDelay

\* The time a refusal tells its caller to wait is enough, and never zero: when
\* it is over there is room, unless others were admitted in between.
RetryAdmits ==
  roomAt # Missing => Card(Trimmed(roomAt - Window)) < Limit

\* What IsBlocked makes of the field at the present time, without an error.
SaysBlocked(v) == v # Missing /\ Whole(v) /\ time < v

\* A block that was acknowledged before IsBlocked was called, and ends at a whole
\* second, is reported without an error until it ends, unless it was lifted,
\* shortened or masked since: a block whose end is no whole second, whether it
\* was acknowledged or failed halfway, leaves a field that IsBlocked cannot parse.
BlockHolds ==
  \A c \in Calls :
    pc[c] = "waiting" /\ field[c] # Unread /\ time < due[c]
      => SaysBlocked(field[c])
=============================================================================
