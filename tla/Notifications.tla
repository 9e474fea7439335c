---------------------------- MODULE Notifications ----------------------------
(***************************************************************************)
(* The notification center: events of the sidecar are routed by the        *)
(* preferences and listed, and the list is kept in localStorage.           *)
(* NotificationsProvider subscribes once, when the page loads.  The list   *)
(* is React state that is changed by updaters: React runs an updater at    *)
(* once only if it knows of no pending one, and else at the next render.   *)
(* Time and the texts are left out, and so is a localStorage that is full. *)
(***************************************************************************)
EXTENDS Naturals, Sequences, FiniteSets

CONSTANTS
  EventTypes,   \* event types starting with error. or audit.flagged.
  KeysOf,       \* [EventTypes -> the routing keys for it, the most specific first]
  PrefChoices,  \* preferences: [quiet |-> "off" | "critical" | "all", routing |-> by keys]
  MaxMemory,    \* length of the list
  MaxPersist,   \* how many of it are stored
  MaxEventsIn,  \* bound: events of the sidecar, and updates that wait
  MaxReloads    \* bound: reloads of the page

ASSUME NotificationsAssumption ==
  /\ MaxPersist \in Nat \ {0} /\ MaxMemory \in Nat /\ MaxPersist <= MaxMemory
  /\ MaxEventsIn \in Nat /\ MaxReloads \in Nat

VARIABLES
  prefs,       \* the preferences, which are stored whenever they are saved
  routedBy,    \* the preferences in the closure of the subscription
  items,       \* the list, newest first
  itemsQueue,  \* updates of it that are not rendered
  storage,     \* what localStorage has
  clearOvertook, \* history: clear was called while a push or markRead was queued
  eventsIn,    \* how many events came; each names its notification
  reloads

notifyVars ==
  <<prefs, routedBy, items, itemsQueue, storage, clearOvertook, eventsIn, reloads>>

NotifyInit ==
  /\ prefs \in PrefChoices
  /\ routedBy = prefs
  /\ items = <<>>
  /\ itemsQueue = <<>>
  /\ storage = <<>>
  /\ clearOvertook = FALSE
  /\ eventsIn = 0
  /\ reloads = 0

-----------------------------------------------------------------------------
(* preferences *)

\* the most specific key that has a routing
findRouting(type, routing) ==
  LET known == {i \in DOMAIN KeysOf[type] : KeysOf[type][i] \in DOMAIN routing}
  IN IF known = {} THEN "panel"
     ELSE routing[KeysOf[type][CHOOSE i \in known : \A j \in known : i <= j]]

\* every type that is subscribed to is critical
routeNotification(type, p, inWindow) ==
  IF p.quiet = "all" /\ inWindow THEN "silent" ELSE findRouting(type, p.routing)

SavePreferences(p) ==
  /\ p # prefs
  /\ prefs' = p
  /\ UNCHANGED <<routedBy, items, itemsQueue, storage, clearOvertook, eventsIn, reloads>>

-----------------------------------------------------------------------------
(* the list *)

FirstOf(n, s) == SubSeq(s, 1, IF Len(s) < n THEN Len(s) ELSE n)

\* what an update makes of the list
Updated(u, s) ==
  CASE u.kind = "push" -> FirstOf(MaxMemory, <<[id |-> u.id, read |-> FALSE]>> \o s)
    [] u.kind = "markRead" -> [i \in DOMAIN s |-> IF s[i].id = u.id
                                                  THEN [s[i] EXCEPT !.read = TRUE] ELSE s[i]]
    [] u.kind = "clear" -> <<>>
    [] u.kind = "known" -> u.value

\* the updaters of push and markRead save, what they come to when they run
SavedBy(u, s, stored) ==
  IF u.kind \in {"push", "markRead"} THEN FirstOf(MaxPersist, Updated(u, s)) ELSE stored

\* the updater runs now, and the queue keeps its result, or it is queued
RunOrQueue(u) ==
  \/ /\ itemsQueue = <<>>
     /\ itemsQueue' = <<[kind |-> "known", value |-> Updated(u, items)]>>
     /\ storage' = SavedBy(u, items, storage)
  \/ /\ itemsQueue' = Append(itemsQueue, u)
     /\ UNCHANGED storage

\* the rest of the queue is run, in order
ItemsRender ==
  /\ itemsQueue # <<>>
  /\ LET state[n \in 0 .. Len(itemsQueue)] ==
           IF n = 0 THEN [items |-> items, stored |-> storage]
           ELSE LET u == itemsQueue[n]
                    before == state[n - 1]
                IN [items |-> Updated(u, before.items),
                    stored |-> SavedBy(u, before.items, before.stored)]
         last == state[Len(itemsQueue)]
     IN items' = last.items /\ storage' = last.stored
  /\ itemsQueue' = <<>>
  /\ UNCHANGED <<prefs, routedBy, clearOvertook, eventsIn, reloads>>

\* an event that is not routed to silence is pushed
SidecarEventArrives(type, inWindow) ==
  /\ eventsIn < MaxEventsIn
  /\ eventsIn' = eventsIn + 1
  /\ IF routeNotification(type, routedBy, inWindow) = "silent"
     THEN UNCHANGED <<itemsQueue, storage>>
     ELSE RunOrQueue([kind |-> "push", id |-> eventsIn + 1])
  /\ UNCHANGED <<prefs, routedBy, items, clearOvertook, reloads>>

MarkRead(i) ==
  /\ RunOrQueue([kind |-> "markRead", id |-> items[i].id])
  /\ Len(itemsQueue) < MaxEventsIn
  /\ UNCHANGED <<prefs, routedBy, items, clearOvertook, eventsIn, reloads>>

\* an updater that saves is queued
SavesWait == \E i \in DOMAIN itemsQueue : itemsQueue[i].kind \in {"push", "markRead"}

\* Mutant of ClearAll: the list is emptied and what is stored is left.
ClearList ==
  /\ Len(itemsQueue) < MaxEventsIn
  /\ itemsQueue' = Append(itemsQueue, [kind |-> "clear"])
  /\ clearOvertook' = (clearOvertook \/ SavesWait)
  /\ UNCHANGED <<prefs, routedBy, items, storage, eventsIn, reloads>>

\* the list is emptied by an update, what is stored is removed at once
ClearAll ==
  /\ Len(itemsQueue) < MaxEventsIn
  /\ itemsQueue' = Append(itemsQueue, [kind |-> "clear"])
  /\ storage' = <<>>
  /\ clearOvertook' = (clearOvertook \/ SavesWait)
  /\ UNCHANGED <<prefs, routedBy, items, eventsIn, reloads>>

\* the page loads anew, whatever was queued
Reload ==
  /\ reloads < MaxReloads
  /\ reloads' = reloads + 1
  /\ items' = storage
  /\ itemsQueue' = <<>>
  /\ routedBy' = prefs
  /\ UNCHANGED <<prefs, storage, clearOvertook, eventsIn>>

NotifyNext ==
  \/ \E p \in PrefChoices : SavePreferences(p)
  \/ \E type \in EventTypes, inWindow \in BOOLEAN : SidecarEventArrives(type, inWindow)
  \/ \E i \in DOMAIN items : MarkRead(i)
  \/ ItemsRender \/ ClearAll \/ Reload

NotifySpec == NotifyInit /\ [][NotifyNext]_notifyVars

-----------------------------------------------------------------------------
NotifyTypeOK ==
  /\ prefs \in PrefChoices /\ routedBy \in PrefChoices
  /\ items \in Seq([id : 1 .. eventsIn, read : BOOLEAN]) /\ Len(items) <= MaxMemory
  /\ storage \in Seq([id : 1 .. eventsIn, read : BOOLEAN]) /\ Len(storage) <= MaxPersist
  /\ \A i \in DOMAIN itemsQueue :
       itemsQueue[i].kind \in {"push", "markRead", "clear"} \cup (IF i = 1 THEN {"known"} ELSE {})
  /\ clearOvertook \in BOOLEAN
  /\ eventsIn \in 0 .. MaxEventsIn /\ reloads \in 0 .. MaxReloads

\* When all updates are rendered, the newest of the list are what a reload would bring
\* back, unless clear was called while an updater that saves was still queued.
StoredUnlessOvertaken ==
  itemsQueue = <<>> /\ ~clearOvertook => storage = FirstOf(MaxPersist, items)
=============================================================================
