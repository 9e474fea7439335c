------------------------------ MODULE Triggers ------------------------------
(***************************************************************************)
(* The two hosts of triggers that keep state.  createTriggerScheduler has  *)
(* a slot for each cron trigger, with the time it fires next, and fires    *)
(* what is due when it is ticked; a dispatch may throw, which ends the     *)
(* tick.  Two clocks are read: registration is by Date.now(), a tick by    *)
(* whatever time its caller says it is.  createFileWatchDaemon debounces the events of a directory: each  *)
(* one sets the timer anew, and the timer dispatches the last.             *)
(***************************************************************************)
EXTENDS Naturals, Sequences

CONSTANTS
  CronIds,    \* cron triggers
  Interval,   \* [CronIds -> minutes between two times it fires]
  MaxMinute,  \* bound: time
  MaxWatchers \* bound: calls of start

ASSUME TriggersAssumption ==
  /\ Interval \in [CronIds -> Nat \ {0}]
  /\ MaxMinute \in Nat \ {0} /\ MaxWatchers \in Nat

VARIABLES
  minute,      \* the clock of the machine: Date.now()
  slots,       \* the Map of slots, in the order of insertion
  lastTick,    \* history: the time the last tick was given, what it fired, and which of the
               \* slots it got through were not registered or dropped since
  since,       \* history: when each trigger last fired or was registered, each by the clock
               \* that was read then, or 0
  watchers,    \* the watchers that were started: whether each still delivers events
  abort,       \* the one whose controller is kept, or 0
  timers,      \* the timers that are running: 1 .. pendingTimer at most
  pendingTimer,\* the timer set last, or 0
  hasPayload,  \* there is an event to dispatch
  doubled      \* history: start was called while another watcher was running

schedulerVars == <<minute, slots, lastTick, since>>
watchVars == <<watchers, abort, timers, pendingTimer, hasPayload, doubled>>
triggerVars == <<schedulerVars, watchVars>>

TriggersInit ==
  /\ minute = 1
  /\ slots = <<>>
  /\ lastTick = [at |-> 0, fired |-> {}, passed |-> {}]
  /\ since = [c \in CronIds |-> 0]
  /\ watchers = <<>>
  /\ abort = 0
  /\ timers = {}
  /\ pendingTimer = 0
  /\ hasPayload = FALSE
  /\ doubled = FALSE

-----------------------------------------------------------------------------
(* the scheduler *)

\* defaultComputeNext
computeNext(c, from) == from + Interval[c]

MinutePasses ==
  /\ minute < MaxMinute
  /\ minute' = minute + 1
  /\ UNCHANGED <<slots, lastTick, since, watchVars>>

\* a trigger that is registered again keeps its place in the Map
RegisterCron(c) ==
  /\ LET slot == [id |-> c, nextFireAt |-> computeNext(c, minute)]
         known == {i \in DOMAIN slots : slots[i].id = c}
     IN slots' = IF known = {} THEN Append(slots, slot)
                 ELSE [i \in DOMAIN slots |-> IF i \in known THEN slot ELSE slots[i]]
  /\ since' = [since EXCEPT ![c] = minute]
  /\ lastTick' = [lastTick EXCEPT !.passed = @ \ {c}]
  /\ UNCHANGED <<minute, watchVars>>

ResetSlots ==
  /\ slots' = <<>>
  /\ lastTick' = [lastTick EXCEPT !.passed = {}]
  /\ UNCHANGED <<minute, since, watchVars>>

\* Mutant of Advanced: the next time is counted from the time it should have fired at.
AdvancedFromDue(slot, now) ==
  IF slot.nextFireAt > now THEN slot
  ELSE [slot EXCEPT !.nextFireAt = computeNext(slot.id, slot.nextFireAt)]

\* a slot that the tick got through
Advanced(slot, now) ==
  IF slot.nextFireAt > now THEN slot
  ELSE [slot EXCEPT !.nextFireAt = computeNext(slot.id, now)]

\* the dispatch of the slot throwsAt throws, if there is one
TickSlots(now, throwsAt) ==
  /\ throwsAt \in DOMAIN slots => slots[throwsAt].nextFireAt <= now
  /\ slots' = [i \in DOMAIN slots |-> IF i < throwsAt THEN Advanced(slots[i], now) ELSE slots[i]]
  /\ LET through == {i \in DOMAIN slots : i < throwsAt}
         firing == {slots[i].id : i \in {j \in through : slots[j].nextFireAt <= now}}
     IN /\ since' = [c \in CronIds |-> IF c \in firing THEN now ELSE since[c]]
        /\ lastTick' = [at |-> now, fired |-> {[id |-> c, from |-> since[c]] : c \in firing},
                        passed |-> {slots[i].id : i \in through}]
  /\ UNCHANGED <<minute, watchVars>>

-----------------------------------------------------------------------------
(* the file watcher *)

StartWatch ==
  /\ Len(watchers) < MaxWatchers
  /\ watchers' = Append(watchers, TRUE)
  /\ abort' = Len(watchers) + 1
  /\ doubled' = (doubled \/ abort # 0)
  /\ UNCHANGED <<timers, pendingTimer, hasPayload, schedulerVars>>

\* a watcher that was not aborted delivers an event that matches: schedule
FileChanges(w) ==
  /\ watchers[w]
  /\ hasPayload' = TRUE
  /\ pendingTimer' = (pendingTimer % 2) + 1
  /\ timers' = (timers \ {pendingTimer}) \cup {pendingTimer'}
  /\ UNCHANGED <<watchers, abort, doubled, schedulerVars>>

\* flush
TimerFires(t) ==
  /\ t \in timers
  /\ timers' = timers \ {t}
  /\ hasPayload' = FALSE
  /\ UNCHANGED <<watchers, abort, pendingTimer, doubled, schedulerVars>>

\* Mutant of StopWatch: the timer goes on.
StopWatchOnly ==
  /\ watchers' = [w \in DOMAIN watchers |-> watchers[w] /\ w # abort]
  /\ abort' = 0
  /\ UNCHANGED <<timers, pendingTimer, hasPayload, doubled, schedulerVars>>

StopWatch ==
  /\ timers' = timers \ {pendingTimer}
  /\ pendingTimer' = 0
  /\ hasPayload' = FALSE
  /\ watchers' = [w \in DOMAIN watchers |-> watchers[w] /\ w # abort]
  /\ abort' = 0
  /\ UNCHANGED <<doubled, schedulerVars>>

SchedulerNext ==
  \/ MinutePasses \/ ResetSlots
  \/ \E c \in CronIds : RegisterCron(c)
  \/ \E now \in 1 .. MaxMinute, i \in 1 .. Len(slots) + 1 : TickSlots(now, i)

WatchNext ==
  \/ StartWatch \/ StopWatch
  \/ \E w \in DOMAIN watchers : FileChanges(w)
  \/ \E t \in timers : TimerFires(t)

TriggersNext == SchedulerNext \/ WatchNext

TriggersSpec == TriggersInit /\ [][TriggersNext]_triggerVars

-----------------------------------------------------------------------------
TriggersTypeOK ==
  /\ minute \in 1 .. MaxMinute
  /\ slots \in Seq([id : CronIds, nextFireAt : Nat])
  /\ lastTick \in [at : 0 .. MaxMinute, fired : SUBSET [id : CronIds, from : 0 .. MaxMinute],
                   passed : SUBSET CronIds]
  /\ since \in [CronIds -> 0 .. MaxMinute]
  /\ watchers \in Seq(BOOLEAN)
  /\ abort \in 0 .. Len(watchers)
  /\ timers \subseteq {1, 2} /\ pendingTimer \in 0 .. 2
  /\ hasPayload \in BOOLEAN /\ doubled \in BOOLEAN

\* Whatever times the ticks are given, late, early or twice the same: a trigger is never
\* dispatched sooner than one interval after its dispatch before or its registration, and
\* a tick leaves nothing that is an interval old among what it got through.  Times that
\* were missed are not made up for, and a dispatch that threw counts as none: the slot, and
\* the slots behind it, are left to the next tick.  A trigger that was registered since the
\* tick is left out, for it is due by another clock, which may be before the tick's time.
DispatchesKeepTime ==
  /\ \A f \in lastTick.fired : lastTick.at >= f.from + Interval[f.id]
  /\ \A c \in lastTick.passed : lastTick.at < since[c] + Interval[c]

\* Events close to each other are dispatched once: no timer but the last one runs, whatever
\* fired, was stopped or was started twice.  After stop nothing is dispatched any more,
\* neither by a timer nor by events, if the daemon was never started twice without a stop.
BurstsAreQuiet ==
  /\ timers \subseteq {pendingTimer}
  /\ abort = 0 /\ ~doubled => timers = {} /\ \A w \in DOMAIN watchers : ~watchers[w]
=============================================================================
