------------------------------- MODULE Metrics -------------------------------
(***************************************************************************)
(* The metrics collector (middleware/metrics/metrics.go): the requests of  *)
(* one API, counted by the hour, by the day and in total, queried by the   *)
(* metrics API, saved to a file every few minutes and once more when main  *)
(* returns, and loaded when the process starts.                            *)
(*                                                                         *)
(* Record holds the collector's mutex and is one step.  A save holds it    *)
(* only to look the API up: it copies the totals and then the hours, opens *)
(* the file, which truncates it, and writes it with the days as they are   *)
(* by then, while requests go on being recorded.  The clock is the local   *)
(* one, counted in hours; of a bucket only its number of requests is kept, *)
(* the other counters move with it.                                        *)
(***************************************************************************)
EXTENDS Integers, FiniteSets

CONSTANTS
  Savers,       \* who saves: the background flusher, main's deferred Close,
                \* the shutdown goroutine's Close
  HoursPerDay,  \* hours of a day
  Zones,        \* hours by which local time may be ahead of UTC
  Retention,    \* retentionDays
  MaxHours,     \* bound on the clock
  MaxRequests,  \* bound on the number of requests
  MaxRestarts,  \* bound on the number of restarts
  NoFile,       \* there is no file yet
  Torn          \* the contents of a file that was cut short

ASSUME SaversAssumption == Savers \subseteq {"flusher", "closer", "shutdown"}
ASSUME BoundsAssumption ==
  /\ {HoursPerDay, Retention, MaxHours} \subseteq Nat \ {0}
  /\ {MaxRequests, MaxRestarts} \subseteq Nat

Hours == 0..(MaxHours - 1)
Day(h) == h \div HoursPerDay
Midnight(d) == d * HoursPerDay
Days == {Day(h) : h \in Hours}

Counts == [Hours -> 0..MaxRequests]
DayCounts == [Days -> 0..MaxRequests]
Texts == [hours : Counts, days : DayCounts, total : 0..MaxRequests]

ASSUME ZonesAssumption == Zones \subseteq 1 - HoursPerDay .. HoursPerDay - 1

ASSUME FileAssumption == NoFile # Torn /\ {NoFile, Torn} \cap Texts = {}

VARIABLES
  now,       \* the present hour
  running,   \* whether the process has loaded the file and runs
  known,     \* whether the collector has metrics of the API
  hours,     \* HourlyStats: requests of each hour
  days,      \* DailyStats: requests of each day
  total,     \* TotalStats: all requests
  file,      \* the contents of the metrics file
  pc,        \* pc[s]: the next step of saver s
  copy,      \* copy[s]: the totals and hours s has copied
  counted,   \* history: the requests of each hour that were recorded
  saved,     \* history: the largest total of a completed save
  cut,       \* history: whether a save failed, was cut short, overlapped, or
             \* replaced a file that had not been read
  unread,    \* history: whether this process could not read the file
  restarts   \* history: restarts so far

memory == <<known, hours, days, total>>
history == <<counted, saved, cut, unread, restarts>>
vars == <<now, running, known, hours, days, total, file, pc, copy, counted,
          saved, cut, unread, restarts>>

None == [h \in Hours |-> 0]
NoDays == [d \in Days |-> 0]
NoCopy == [hours |-> None, total |-> 0]

\* The requests that f counts under the members of S, each under its number,
\* and how many they are.
Counted(f, S) == UNION {{x} \X (1..f[x]) : x \in S}
SumOf(f, S) == Cardinality(Counted(f, S))
HoursOf(d) == {h \in Hours : Day(h) = d}

Init ==
  /\ now \in Hours
  /\ running = TRUE
  /\ known = FALSE /\ hours = None /\ days = NoDays /\ total = 0
  /\ file = NoFile
  /\ pc = [s \in Savers |-> "idle"]
  /\ copy = [s \in Savers |-> NoCopy]
  /\ counted = None /\ saved = 0 /\ cut = FALSE /\ unread = FALSE
  /\ restarts = 0

Goto(s, from, to) ==
  /\ running
  /\ pc[s] = from
  /\ pc' = [pc EXCEPT ![s] = to]

-----------------------------------------------------------------------------
\* Mutant: the day's hours are added to what the day has already.
RecordAddsAgain ==
  /\ running
  /\ SumOf(counted, Hours) < MaxRequests
  /\ known' = TRUE
  /\ hours' = [hours EXCEPT ![now] = @ + 1]
  /\ days' = [days EXCEPT ![Day(now)] = @ + SumOf(hours', HoursOf(Day(now)))]
  /\ total' = total + 1
  /\ counted' = [counted EXCEPT ![now] = @ + 1]
  /\ UNCHANGED <<now, running, file, pc, copy, saved, cut, unread, restarts>>

\* A request is recorded; the day is added up again from its hours.
Record ==
  /\ running
  /\ SumOf(counted, Hours) < MaxRequests
  /\ known' = TRUE
  /\ hours' = [hours EXCEPT ![now] = @ + 1]
  /\ days' = [days EXCEPT ![Day(now)] = SumOf(hours', HoursOf(Day(now)))]
  /\ total' = total + 1
  /\ counted' = [counted EXCEPT ![now] = @ + 1]
  /\ UNCHANGED <<now, running, file, pc, copy, saved, cut, unread, restarts>>

-----------------------------------------------------------------------------
(* FlushAll: Save, and what follows it.                                    *)

CopyTotals(s) ==
  /\ known
  /\ Goto(s, "idle", "hours")
  /\ copy' = [copy EXCEPT ![s].total = total]
  /\ UNCHANGED <<now, running, memory, file, history>>

CopyHours(s) ==
  /\ Goto(s, "hours", "create")
  /\ copy' = [copy EXCEPT ![s].hours = hours]
  /\ UNCHANGED <<now, running, memory, file, history>>

CreateFile(s) ==
  /\ Goto(s, "create", "encode")
  /\ file' = Torn
  /\ cut' = (cut \/ unread)
  /\ UNCHANGED <<now, running, memory, copy, counted, saved, unread, restarts>>

\* The flusher goes on to clean up; the closer returns, and main with it.
Flushed(s, from) ==
  /\ Goto(s, from, IF s = "flusher" THEN "cleanup" ELSE "exit")
  /\ copy' = [copy EXCEPT ![s] = NoCopy]
  /\ UNCHANGED <<now, running, memory, counted, unread, restarts>>

\* The savers that are in the middle of a save.
Saving == {s \in Savers : pc[s] \in {"hours", "create", "encode"}}

\* A file the other saver has written meanwhile is overwritten from its start:
\* what is left of a longer one behind the new text makes it invalid.
EncodeFile(s) ==
  LET text == [hours |-> copy[s].hours, days |-> days, total |-> copy[s].total]
  IN  /\ Flushed(s, "encode")
      /\ file' \in {text} \cup (IF file = Torn THEN {} ELSE {Torn})
      /\ saved' = IF file' = text /\ copy[s].total > saved THEN copy[s].total
                                                           ELSE saved
      /\ cut' = (cut \/ file' = Torn \/ Saving # {s})

\* FlushAll ignores the errors of opening and of writing the file.
SaveFails(s) ==
  /\ \/ Flushed(s, "create")
     \/ Flushed(s, "encode")
  /\ cut' = TRUE
  /\ UNCHANGED <<file, saved>>

\* Mutant: the retention is not subtracted.
OldByNow(h) == h < now

\* The hours before the cutoff of the retention.
Old(h) == h < now - Retention * HoursPerDay

CleanupOldData ==
  /\ "flusher" \in Savers
  /\ Goto("flusher", "cleanup", "idle")
  /\ hours' = [h \in Hours |-> IF Old(h) THEN 0 ELSE hours[h]]
  /\ UNCHANGED <<now, running, known, days, total, file, copy, history>>

-----------------------------------------------------------------------------
(* The process ends, and starts again.                                     *)

\* A crash, or main's return after its deferred Close, which waits neither for
\* the flusher nor for requests that are being served.
Stop ==
  /\ running
  /\ restarts < MaxRestarts
  /\ restarts' = restarts + 1
  /\ running' = FALSE
  /\ cut' = (cut \/ file = Torn) /\ unread' = FALSE
  /\ known' = FALSE /\ hours' = None /\ days' = NoDays /\ total' = 0
  /\ pc' = [s \in Savers |-> "idle"]
  /\ copy' = [s \in Savers |-> NoCopy]
  /\ UNCHANGED <<now, file, counted, saved>>

\* Mutant: nothing is loaded.
LoadNothing ==
  /\ ~running
  /\ running' = TRUE
  /\ UNCHANGED <<now, memory, file, pc, copy, history>>

\* LoadAll passes over a file that is not valid.
LoadAll ==
  /\ ~running
  /\ running' = TRUE
  /\ IF file \in {NoFile, Torn}
     THEN UNCHANGED memory
     ELSE /\ known' = TRUE
          /\ hours' = file.hours /\ days' = file.days /\ total' = file.total
  /\ UNCHANGED <<now, file, pc, copy, history>>

\* It passes over a valid file, too, that it cannot read: the API starts at zero,
\* and the next save replaces the file.
LoadFails ==
  /\ ~running /\ file \notin {NoFile, Torn}
  /\ running' = TRUE
  /\ unread' = TRUE
  /\ UNCHANGED <<now, memory, file, pc, copy, counted, saved, cut, restarts>>

Tick ==
  /\ now + 1 \in Hours
  /\ now' = now + 1
  /\ UNCHANGED <<running, memory, file, pc, copy, history>>

Next ==
  \/ Record
  \/ \E s \in Savers : \/ CopyTotals(s) \/ CopyHours(s) \/ CreateFile(s)
                       \/ EncodeFile(s) \/ SaveFails(s)
  \/ CleanupOldData
  \/ Stop \/ LoadAll \/ LoadFails \/ Tick

Spec == Init /\ [][Next]_vars

-----------------------------------------------------------------------------
(* QueryMetrics: the total of the days whose date is in the range, and the *)
(* range GET .../today asks for.  The date of a bucket is the local one and *)
(* is parsed as a date in UTC, whose midnight is another moment off UTC;   *)
(* the range starts at the local midnight.                                 *)

DateTime(d, zone) == Midnight(d) + zone

\* Mutant: a range does not include its beginning.
AfterStart(from, to, time) == from < time /\ time <= to

Within(from, to, time) == from <= time /\ time <= to

Query(from, to, zone) ==
  SumOf(days, {d \in Days : Within(from, to, DateTime(d, zone))})

TodayTotal(zone) == Query(Midnight(Day(now)), now, zone)

-----------------------------------------------------------------------------
TypeOK ==
  /\ now \in Hours /\ {running, known, cut, unread} \subseteq BOOLEAN
  /\ hours \in Counts /\ days \in DayCounts /\ total \in 0..MaxRequests
  /\ file \in {NoFile, Torn} \cup Texts
  /\ pc \in [Savers -> {"idle", "hours", "create", "encode", "cleanup", "exit"}]
  /\ copy \in [Savers -> [hours : Counts, total : 0..MaxRequests]]

\* No request is counted twice: whatever was saved in the middle of recording,
\* lost and loaded again, no counter exceeds the requests there were, in memory
\* and, by their types, in the file.
NothingInvented ==
  /\ TypeOK
  /\ \A h \in Hours : hours[h] <= counted[h]
  /\ \A d \in Days : days[d] <= SumOf(counted, HoursOf(d))
  /\ total <= SumOf(counted, Hours)

\* Until the process restarts no request is missing: neither the concurrent
\* saves nor the removal of old hours take anything from the days or the total.
NothingMissing ==
  restarts = 0 =>
    /\ \A d \in Days : days[d] = SumOf(counted, HoursOf(d))
    /\ total = SumOf(counted, Hours)

\* Where local time is UTC, GET .../today answers with the requests there were
\* since midnight.  East of UTC it does so once the hour is the zone's number of
\* hours from midnight, and answers 0 before; west of UTC it answers 0 all day.
\* It never answers with another day's requests.
TodayCounted ==
  \A zone \in Zones :
    restarts = 0 =>
      TodayTotal(zone) =
        IF zone \in 0 .. now - Midnight(Day(now))
        THEN SumOf(counted, HoursOf(Day(now))) ELSE 0

\* Metrics that were saved are still there after any restart, unless a save
\* failed, was cut short, overlapped with another one, or replaced a file that
\* could not be read; a process that could not read the file has lost them from
\* memory, and the next one finds them again.
SavedUnlessCut == running /\ ~cut /\ ~unread => total >= saved
=============================================================================
