------------------------------- MODULE Config -------------------------------
(***************************************************************************)
(* The configuration main starts with (middleware/config/loader.go,        *)
(* middleware/base/config.go): an environment's YAML file, or built-in     *)
(* values when there is none, laid over the defaults, then environment     *)
(* variables, then validation, which fills in what is zero.                *)
(*                                                                         *)
(* Of the settings, those are kept that decide whether the process starts, *)
(* which backend it uses, and the limits and blocks it applies.            *)
(* Durations are in seconds.  What YAML leaves out is zero or "".          *)
(***************************************************************************)
EXTENDS Rules

CONSTANTS
  NoFile,      \* the environment has no file
  Unreadable,  \* its file cannot be read or parsed
  Invalid      \* the configuration is refused

Minute == 60
Hour == 60 * Minute

\* An environment file in which nothing is set.
EmptyFile ==
  [storage |-> "", addr |-> "", memoryIPs |-> 0,
   global |-> FALSE, globalRate |-> 0, globalWindow |-> 0,
   threshold |-> 0, probes |-> 0, block |-> 0, maxBlock |-> 0, decay |-> 0,
   sliding |-> FALSE, window |-> 0, strict |-> FALSE]

DefaultConfig ==
  [backend |-> "memory", redisAddr |-> "", maxIPs |-> 100000,
   rps |-> 10 * RateUnit, burst |-> 20, window |-> 1,
   block |-> 15 * Minute, maxBlock |-> 24 * Hour, decay |-> Hour,
   globalRate |-> 0, globalWindow |-> Minute,
   threshold |-> 0, probes |-> 1, sliding |-> FALSE, strict |-> FALSE]

\* getDefaultConfig: what stands for a file that does not exist.
BuiltIn(env) ==
  CASE env = "production" ->
         [EmptyFile EXCEPT
            !.storage = "redis", !.global = TRUE,
            !.globalRate = 10000 * RateUnit, !.threshold = 3, !.probes = 1,
            !.block = 15 * Minute, !.maxBlock = 24 * Hour]
    [] env = "staging" ->
         [EmptyFile EXCEPT
            !.storage = "redis", !.global = TRUE,
            !.globalRate = 500 * RateUnit, !.threshold = 5, !.probes = 3,
            !.block = 15 * Minute, !.maxBlock = 2 * Hour]
    [] OTHER ->
         [EmptyFile EXCEPT
            !.storage = "memory", !.threshold = 100, !.probes = 1,
            !.block = Minute, !.maxBlock = 5 * Minute]

LoadEnvironmentConfig(env, file) == IF file = NoFile THEN BuiltIn(env) ELSE file

\* The file's value, unless it is not positive.
IfPositive(x, default) == IF x > 0 THEN x ELSE default

\* Most settings are taken from the file even when it leaves them out; the size
\* of the window and the number of tracked addresses only when they are set, and
\* the global limit only when it is enabled.
ToBaseConfig(file) ==
  LET redis == file.storage = "redis"
      memory == file.storage = "memory"
  IN  [DefaultConfig EXCEPT
         !.backend = IF redis THEN "redis" ELSE @,
         !.redisAddr = IF redis THEN file.addr ELSE @,
         !.maxIPs = IF memory THEN IfPositive(file.memoryIPs, @) ELSE @,
         !.globalRate = IF file.global THEN file.globalRate ELSE @,
         !.globalWindow = IF file.global THEN file.globalWindow ELSE @,
         !.threshold = file.threshold,
         !.probes = file.probes,
         !.block = file.block,
         !.maxBlock = file.maxBlock,
         !.decay = file.decay,
         !.sliding = file.sliding,
         !.window = IfPositive(file.window, @),
         !.strict = file.strict]

\* applyEnvOverrides: REDIS_ADDR, if it is set, also when the backend is memory.
WithEnv(config, addr) ==
  IF addr = "" THEN config ELSE [config EXCEPT !.redisAddr = addr]

Refused(config) ==
  \/ config.rps <= 0
  \/ config.burst < 1
  \/ config.block <= 0
  \/ config.maxBlock > 0 /\ config.maxBlock < config.block
  \/ config.backend = "redis" /\ config.redisAddr = ""

OrElse(x, default) == IF x = 0 THEN default ELSE x

Validate(config) ==
  IF Refused(config) THEN Invalid
  ELSE [config EXCEPT
          !.threshold = OrElse(@, 5), !.probes = OrElse(@, 1),
          !.decay = OrElse(@, Hour), !.maxIPs = OrElse(@, 100000),
          !.globalWindow = OrElse(@, Minute),
          !.window = IF config.sliding THEN OrElse(@, 1) ELSE @]

\* LoadConfig; an error makes main panic.
LoadConfig(env, file, addr) ==
  IF file = Unreadable THEN Invalid
  ELSE Validate(WithEnv(ToBaseConfig(LoadEnvironmentConfig(env, file)), addr))

\* main pings Redis whenever it has an address for it, and gives up if there is
\* no answer.
NeedsRedis(config) == config.backend = "redis" \/ config.redisAddr # ""

\* The window main gives the memory backend: burst divided by rate when the
\* algorithm is not the sliding window.
MemoryWindow(config) ==
  IF config.sliding THEN config.window
  ELSE (config.burst * RateUnit) \div config.rps
=============================================================================
