------------------------------ MODULE EventFeed ------------------------------
(***************************************************************************)
(* The event feed of the dashboard, useEventFeed: while it is paused,      *)
(* events go to a buffer that is shown when it is resumed.  Whether it is  *)
(* paused is React state, and is read inside its updaters, which React     *)
(* runs at once only if it knows of no pending one, and else at the next   *)
(* render; resume and clear take the buffer at once.  The updates of the   *)
(* events shown are all of updaters and take effect in the order of their  *)
(* calls, here at the call.  Events are numbered as they come.             *)
(***************************************************************************)
EXTENDS Naturals, Sequences, FiniteSets, Functions

CONSTANTS
  MaxEvents,  \* how many are shown
  MaxFed,     \* bound: events that come
  MaxQueued   \* bound: updates of isPaused that are not rendered

ASSUME FeedAssumption == MaxEvents \in Nat \ {0} /\ MaxFed \in Nat /\ MaxQueued \in Nat \ {0}

VARIABLES
  fed,           \* how many events came
  events,        \* those shown
  heldBack,      \* the buffer
  isPaused,
  pausedQueue,   \* updates of isPaused that are not rendered
  clearedEvents, \* history: the events that clear was called after
  overtook       \* history: resume was called while updates were queued

feedVars == <<fed, events, heldBack, isPaused, pausedQueue, clearedEvents, overtook>>

FeedInit ==
  /\ fed = 0
  /\ events = <<>>
  /\ heldBack = <<>>
  /\ isPaused = FALSE
  /\ pausedQueue = <<>>
  /\ clearedEvents = {}
  /\ overtook = FALSE

-----------------------------------------------------------------------------
\* what updaters work on
Feed == [events |-> events, heldBack |-> heldBack, isPaused |-> isPaused]

\* setEvents with more of them: the last MaxEvents are kept
Shown(feed, more) ==
  LET next == feed.events \o more
      kept == IF Len(next) < MaxEvents THEN Len(next) ELSE MaxEvents
  IN [feed EXCEPT !.events = SubSeq(next, Len(next) - kept + 1, Len(next))]

BufferShown(feed) == [Shown(feed, feed.heldBack) EXCEPT !.heldBack = <<>>]

\* Mutant of Toggled: what is taken from the buffer is not shown.
ToggledUnshown(feed) == [feed EXCEPT !.isPaused = ~@, !.heldBack = <<>>]

Toggled(feed) ==
  IF feed.isPaused THEN [BufferShown(feed) EXCEPT !.isPaused = FALSE]
  ELSE [feed EXCEPT !.isPaused = TRUE]

\* what an update of isPaused does when it is run, its side effects included
Updating(u, feed) ==
  CASE u.kind = "append" -> IF feed.isPaused THEN [feed EXCEPT !.heldBack = Append(@, u.event)]
                            ELSE Shown(feed, <<u.event>>)
    [] u.kind = "toggle" -> Toggled(feed)
    [] u.kind = "set" -> [feed EXCEPT !.isPaused = u.value]

Becomes(feed) == events' = feed.events /\ heldBack' = feed.heldBack

\* It is run now, and its result, when that is not the state it found, is queued; or it
\* is queued itself.  feed is what the caller has done before.
RunOrQueuePaused(u, feed) ==
  \/ /\ pausedQueue = <<>>
     /\ LET next == Updating(u, feed)
        IN /\ Becomes(next)
           /\ pausedQueue' = IF next.isPaused = isPaused THEN <<>>
                             ELSE <<[kind |-> "set", value |-> next.isPaused]>>
  \/ /\ Len(pausedQueue) < MaxQueued
     /\ pausedQueue' = Append(pausedQueue, u)
     /\ Becomes(feed)

\* events whose updater has not been run
Queued == {u.event : u \in {v \in Range(pausedQueue) : v.kind = "append"}}

-----------------------------------------------------------------------------
FeedEvent ==
  /\ fed < MaxFed
  /\ fed' = fed + 1
  /\ RunOrQueuePaused([kind |-> "append", event |-> fed + 1], Feed)
  /\ UNCHANGED <<isPaused, clearedEvents, overtook>>

PauseFeed ==
  /\ RunOrQueuePaused([kind |-> "set", value |-> TRUE], Feed)
  /\ UNCHANGED <<fed, isPaused, clearedEvents, overtook>>

ToggleFeed ==
  /\ RunOrQueuePaused([kind |-> "toggle"], Feed)
  /\ UNCHANGED <<fed, isPaused, clearedEvents, overtook>>

\* the buffer is taken now, the updates that are queued find it empty
ResumeFeed ==
  /\ RunOrQueuePaused([kind |-> "set", value |-> FALSE], BufferShown(Feed))
  /\ overtook' = (overtook \/ pausedQueue # <<>>)
  /\ UNCHANGED <<fed, isPaused, clearedEvents>>

ClearFeed ==
  /\ Becomes([Feed EXCEPT !.events = <<>>, !.heldBack = <<>>])
  /\ clearedEvents' = 1 .. fed \ Queued
  /\ UNCHANGED <<fed, isPaused, pausedQueue, overtook>>

FeedRender ==
  /\ pausedQueue # <<>>
  /\ LET feed[n \in 0 .. Len(pausedQueue)] ==
           IF n = 0 THEN Feed ELSE Updating(pausedQueue[n], feed[n - 1])
         last == feed[Len(pausedQueue)]
     IN Becomes(last) /\ isPaused' = last.isPaused
  /\ pausedQueue' = <<>>
  /\ UNCHANGED <<fed, clearedEvents, overtook>>

FeedNext == FeedEvent \/ PauseFeed \/ ToggleFeed \/ ResumeFeed \/ ClearFeed \/ FeedRender

FeedSpec == FeedInit /\ [][FeedNext]_feedVars

-----------------------------------------------------------------------------
FeedTypeOK ==
  /\ fed \in 0 .. MaxFed
  /\ events \in Seq(1 .. fed) /\ Len(events) <= MaxEvents
  /\ heldBack \in Seq(1 .. fed)
  /\ isPaused \in BOOLEAN
  /\ Len(pausedQueue) <= MaxQueued
  /\ clearedEvents \subseteq 1 .. fed
  /\ overtook \in BOOLEAN

\* Nothing that comes is dropped: it is shown or held back, unless the feed was cleared
\* since or is full with others.
NothingDropped ==
  \A e \in 1 .. fed \ (clearedEvents \cup Queued) :
    e \in Range(events) \cup Range(heldBack) \/ Len(events) = MaxEvents

\* Events are shown in the order they came, those held back follow, and are all shown
\* once the feed goes on.
FeedInOrder ==
  /\ LET all == events \o heldBack IN \A i \in 1 .. Len(all) - 1 : all[i] < all[i + 1]
  /\ pausedQueue = <<>> /\ ~isPaused => heldBack = <<>>

\* Whether updaters run at once or at the next render, and whatever is paused, toggled,
\* resumed or cleared meanwhile, the feed loses nothing; and it is in order unless resume
\* was called while updates were queued.
FeedIsWhole == NothingDropped /\ (~overtook => FeedInOrder)
=============================================================================
