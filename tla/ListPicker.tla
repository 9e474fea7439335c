----------------------------- MODULE ListPicker -----------------------------
(***************************************************************************)
(* The two lists of the desktop that are driven from the keyboard: the     *)
(* search overlay and the command palette.  Both rank what matches the     *)
(* query, show it in groups, keep one index as the selection, and run an   *)
(* entry on Enter.  They differ in what they reset, and the palette can be *)
(* narrowed to one category.  The effects of a render run before the next  *)
(* key, so a change and the effect that follows it are one step.           *)
(***************************************************************************)
EXTENDS Integers, FiniteSets, FiniteSetsExt, SequencesExt

CONSTANTS
  Pickers,      \* of "search" and "palette"
  EntryCount,   \* the entries: 1 .. n, as they are gathered or registered
  GroupOf,      \* [1 .. EntryCount -> groups]: the kinds or categories
  GroupOrder,   \* the groups, in the order they are shown
  Scores,       \* [queries -> [1 .. EntryCount -> Nat]], zero for no match
  NoQuery,      \* the empty query
  MaxResults,   \* the longest list
  AllGroups     \* the palette's category All

Entries == 1 .. EntryCount

ASSUME PickerAssumption ==
  /\ EntryCount \in Nat \ {0} /\ MaxResults \in Nat \ {0}
  /\ \A e \in Entries : \E i \in DOMAIN GroupOrder : GroupOf[e] = GroupOrder[i]
  /\ GroupOrder \in Seq(Range(GroupOrder)) /\ IsInjective(GroupOrder)
  /\ \A q \in DOMAIN Scores : Scores[q] \in [Entries -> Nat]
  /\ Pickers \subseteq {"search", "palette"}

VARIABLES
  picker,         \* which of the two
  isOpen,         \* it is shown
  query,          \* what was typed
  activeCategory, \* the palette's filter
  available,      \* entries that have been loaded or registered
  selectedIndex,  \* counted from zero
  chosenEntry     \* history: the entry that was marked when arrows or mouse last moved the
                  \* selection, Unchosen since the selection was reset, or Displaced when others
                  \* took the places in the list

pickerVars ==
  <<picker, isOpen, query, activeCategory, available, selectedIndex, chosenEntry>>

Unchosen == 0
Displaced == -1

PickerInit ==
  /\ picker \in Pickers
  /\ isOpen = FALSE
  /\ query = NoQuery
  /\ activeCategory = AllGroups
  /\ available \in SUBSET Entries
  /\ selectedIndex = 0
  /\ chosenEntry = Unchosen

-----------------------------------------------------------------------------
categoryFiltered ==
  {e \in available : activeCategory \in {AllGroups, GroupOf[e]}}

\* every entry matches nothing typed
score(e) == IF query = NoQuery THEN 1 ELSE Scores[query][e]

\* the pairs of entries of which the first comes first: the higher score, and the order
\* of the entries among equals
Ranks ==
  {p \in Entries \X Entries : \/ score(p[1]) > score(p[2])
                              \/ score(p[1]) = score(p[2]) /\ p[1] < p[2]}

\* the members of S one after the other
Arranged(S, before) ==
  CHOOSE list \in [1 .. Cardinality(S) -> S] :
    \A i, j \in 1 .. Cardinality(S) : i < j => <<list[i], list[j]>> \in before

\* fuzzyFilter, searchCommands
Matches == {e \in categoryFiltered : score(e) > 0}
results ==
  SubSeq(Arranged(Matches, Ranks), 1, Min({MaxResults, Cardinality(Matches)}))

\* what is shown, group by group
Group(e) == CHOOSE i \in DOMAIN GroupOrder : GroupOrder[i] = GroupOf[e]
flatResults ==
  Arranged(Range(results), {p \in Entries \X Entries :
                            \/ Group(p[1]) < Group(p[2])
                            \/ Group(p[1]) = Group(p[2]) /\ p \in Ranks})

\* the results may be others from now on: the selection starts at the first of them, or
\* stays at its place
Resets(afresh) ==
  /\ selectedIndex' = IF afresh THEN 0 ELSE selectedIndex
  /\ chosenEntry' = CASE afresh -> Unchosen
                      [] ~afresh /\ chosenEntry # Unchosen /\ results' # results -> Displaced
                      [] OTHER -> chosenEntry

\* Mutant of SelectionFollows: only a new query resets the selection.
SelectionFollowsQuery == Resets(query' # query)

\* the effect on [results.length, query]
SelectionFollows == Resets(Len(results') # Len(results) \/ query' # query)

-----------------------------------------------------------------------------
\* the overlay starts afresh when it opens, the palette when it closes
ResetPicker ==
  /\ query' = NoQuery
  /\ activeCategory' = AllGroups
  /\ selectedIndex' = 0
  /\ chosenEntry' = Unchosen

Closes ==
  /\ isOpen' = FALSE
  /\ IF picker = "palette" THEN ResetPicker
     ELSE UNCHANGED <<query, activeCategory, selectedIndex, chosenEntry>>
  /\ UNCHANGED <<picker, available>>

OpenPicker ==
  /\ ~isOpen
  /\ isOpen' = TRUE
  /\ IF picker = "search" THEN ResetPicker
     ELSE UNCHANGED <<query, activeCategory, selectedIndex, chosenEntry>>
  /\ UNCHANGED <<picker, available>>

\* Escape, the backdrop, or the shortcut again
ClosePicker == isOpen /\ Closes

TypeQuery(q) ==
  /\ isOpen
  /\ q # query
  /\ query' = q
  /\ UNCHANGED <<picker, isOpen, activeCategory, available>>
  /\ SelectionFollows

PickCategory(c) ==
  /\ isOpen
  /\ picker = "palette"
  /\ c # activeCategory
  /\ activeCategory' = c
  /\ UNCHANGED <<picker, isOpen, query, available>>
  /\ SelectionFollows

\* traces load, workspaces come and go, commands are registered
EntriesChange ==
  /\ available' \in SUBSET Entries \ {available}
  /\ picker = "palette" => available \subseteq available'
  /\ UNCHANGED <<picker, isOpen, query, activeCategory>>
  /\ SelectionFollows

MoveTo(i) ==
  /\ isOpen
  /\ selectedIndex' = i
  /\ chosenEntry' = IF i + 1 \in DOMAIN flatResults THEN flatResults[i + 1] ELSE Unchosen
  /\ UNCHANGED <<picker, isOpen, query, activeCategory, available>>

\* below the last entry there is none, which of an empty list is -1
ArrowDown == MoveTo(Min({selectedIndex + 1, Len(results) - 1}))
ArrowUp == MoveTo(Max({selectedIndex - 1, 0}))
\* an entry is pointed at by its place among those shown
PointAt == \E i \in DOMAIN flatResults : MoveTo(i - 1)

\* What Enter runs: the entry at the selection's place in the ranking.  The one that is
\* marked is at that place among those shown, flatResults[selectedIndex + 1].
entered == results[selectedIndex + 1]

\* Enter, and a click on an entry that is shown: its command runs, the list closes
RunSelected == isOpen /\ selectedIndex + 1 \in DOMAIN results /\ Closes
ClickEntry == isOpen /\ flatResults # <<>> /\ Closes

PickerNext ==
  \/ OpenPicker \/ ClosePicker \/ EntriesChange
  \/ ArrowDown \/ ArrowUp \/ PointAt \/ RunSelected \/ ClickEntry
  \/ \E q \in DOMAIN Scores \cup {NoQuery} : TypeQuery(q)
  \/ \E c \in Range(GroupOrder) \cup {AllGroups} : PickCategory(c)

PickerSpec == PickerInit /\ [][PickerNext]_pickerVars

-----------------------------------------------------------------------------
PickerTypeOK ==
  /\ picker \in Pickers
  /\ isOpen \in BOOLEAN
  /\ query \in DOMAIN Scores \cup {NoQuery}
  /\ activeCategory \in Range(GroupOrder) \cup {AllGroups}
  /\ picker = "search" => activeCategory = AllGroups
  /\ available \subseteq Entries
  /\ selectedIndex \in -1 .. EntryCount - 1
  /\ chosenEntry \in Entries \cup {Unchosen, Displaced}

\* the ranking has the entries in the order of their groups
RanksByGroup == \A i, j \in DOMAIN results : i < j => Group(results[i]) <= Group(results[j])

\* However the list shrinks and grows under the selection, by typing, by a category or by
\* entries that come and go: Enter finds an entry whenever there is one.  If nobody chose
\* one it is one that no other on offer matches better.  If arrows or mouse chose one, it is
\* that one, as the head of search-overlay.tsx says, unless as many other results took its
\* place, or the ranking is not in the order of the groups: then another one is marked than
\* the one Enter runs.
EnterRunsTheChosen ==
  results # <<>> =>
    /\ selectedIndex + 1 \in DOMAIN results
    /\ chosenEntry = Unchosen => \A e \in categoryFiltered : score(e) <= score(entered)
    /\ chosenEntry \in Entries /\ RanksByGroup => entered = chosenEntry
=============================================================================
