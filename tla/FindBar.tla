------------------------------- MODULE FindBar -------------------------------
(***************************************************************************)
(* The find bar of one pane (FindBar.tsx, findState.ts): an incremental    *)
(* search debounced behind the query and its two options, next and         *)
(* previous from the field, the buttons and the global commands, and the   *)
(* search addon it drives, which highlights one term at a time and reports *)
(* its matches, again whenever output changes them.                        *)
(***************************************************************************)
EXTENDS Naturals

CONSTANTS QUERIES,   \* what may be typed, besides nothing
          MALFORMED, \* the queries that are no regular expression
          COLORS, MAX_MATCHES

VARIABLES
  find,     \* FindState of the bar, with its colors and its debounce timer
  addon,    \* the highlighted term, its options, colors and matches
  pressed   \* history: next or previous since the query or an option last changed

vars == <<find, addon, pressed>>

Empty == ""
Plain == [term |-> Empty, matchCase |-> FALSE, regex |-> FALSE]
Terms == [term : QUERIES \cup {Empty}, matchCase : BOOLEAN, regex : BOOLEAN]

FindState == [open : BOOLEAN, query : Terms, total : 0..MAX_MATCHES, error : BOOLEAN,
              colors : COLORS, debounce : BOOLEAN]

TypeOK ==
  /\ find \in FindState
  /\ addon \in [query : Terms, colors : COLORS, total : 0..MAX_MATCHES]
  /\ pressed \in BOOLEAN

Init ==
  /\ find \in [open : {FALSE}, query : {Plain}, total : {0}, error : {FALSE}, colors : COLORS,
               debounce : {FALSE}]
  /\ addon = [query |-> Plain, colors |-> find.colors, total |-> 0]
  /\ pressed = FALSE

IsSearchable(s) == s.query.term # Empty /\ ~s.error
Unlit == [addon EXCEPT !.query = Plain, !.total = 0]

\* The error flag of a query; an errored one has no results.
WithError(s) ==
  LET error == s.query.regex /\ s.query.term \in MALFORMED
  IN [s EXCEPT !.error = error, !.total = IF error THEN 0 ELSE @]

\* setResults, ignored in the error state.
SetResults(s, n) == IF s.error THEN s ELSE [s EXCEPT !.total = n]

\* Open bar s, searching for its query: the addon finds n matches and says so.
FindNext(s, n) ==
  /\ addon' = [query |-> s.query, colors |-> s.colors, total |-> n]
  /\ find' = SetResults(s, n)

-----------------------------------------------------------------------------
Open ==
  /\ ~find.open
  /\ find' = [find EXCEPT !.open = TRUE, !.query = Plain, !.total = 0, !.error = FALSE,
                          !.debounce = TRUE]
  /\ pressed' = FALSE /\ UNCHANGED addon

\* (mutation) a change keeps the timer of the one before, or none
ChangeUnscheduled(query) ==
  /\ find.open /\ query # find.query
  /\ find' = WithError([find EXCEPT !.query = query])
  /\ pressed' = FALSE /\ UNCHANGED addon

\* setQuery, toggleCase, toggleRegex: the debounce starts over.  toggleCase alone leaves the flag.
Change(query) ==
  /\ find.open /\ query # find.query
  /\ find' = WithError([find EXCEPT !.query = query, !.debounce = TRUE])
  /\ pressed' = FALSE /\ UNCHANGED addon

Type(term) == Change([find.query EXCEPT !.term = term])
ToggleCase == Change([find.query EXCEPT !.matchCase = ~@])
ToggleRegex == Change([find.query EXCEPT !.regex = ~@])

\* runSearch: what is not searchable clears the highlights.
DebounceFires(n) ==
  /\ find.open /\ find.debounce
  /\ LET run == [find EXCEPT !.debounce = FALSE]
     IN IF IsSearchable(run) THEN FindNext(run, n) ELSE addon' = Unlit /\ find' = run
  /\ UNCHANGED pressed

\* (mutation) the queued search is left to run after the press
PressQueued(n) ==
  /\ find.open
  /\ IF IsSearchable(find) THEN FindNext(find, n) ELSE UNCHANGED <<find, addon>>
  /\ pressed' = TRUE

\* Next or previous: the queued search is superseded.
Press(n) ==
  /\ find.open
  /\ LET run == [find EXCEPT !.debounce = FALSE]
     IN IF IsSearchable(run) THEN FindNext(run, n) ELSE find' = run /\ UNCHANGED addon
  /\ pressed' = TRUE

\* A theme change re-tints in place.
Recolor(colors, n) ==
  /\ colors # find.colors
  /\ LET run == [find EXCEPT !.colors = colors, !.debounce = FALSE]
     IN IF run.open /\ IsSearchable(run) THEN FindNext(run, n) ELSE find' = run /\ UNCHANGED addon
  /\ UNCHANGED pressed

\* Output changed what matches.
Results(n) ==
  /\ addon.query # Plain
  /\ addon' = [addon EXCEPT !.total = n]
  /\ find' = IF find.open THEN SetResults(find, n) ELSE find
  /\ UNCHANGED pressed

\* onClose and the unmount.
Close ==
  /\ find.open
  /\ find' = [find EXCEPT !.open = FALSE, !.debounce = FALSE]
  /\ addon' = Unlit /\ UNCHANGED pressed

Next ==
  \/ Open \/ Close \/ ToggleCase \/ ToggleRegex
  \/ \E term \in QUERIES \cup {Empty} : Type(term)
  \/ \E n \in 0..MAX_MATCHES :
       DebounceFires(n) \/ Press(n) \/ Results(n) \/ \E c \in COLORS : Recolor(c, n)

Spec == Init /\ [][Next]_vars

-----------------------------------------------------------------------------
(* Properties.                                                             *)

(* Once nothing is queued, the highlights are those of the query in the    *)
(* field, with its options and the current colors, and the count beside it *)
(* is theirs; a press is never followed by a queued search, which would    *)
(* skip a match; and a closed bar leaves no highlight.                     *)
FindSettles ==
  /\ find.open /\ ~find.debounce /\ IsSearchable(find) =>
       /\ addon.query = find.query /\ addon.colors = find.colors
       /\ find.total = addon.total
  /\ pressed => ~find.debounce
  /\ ~find.open => addon.query = Plain

(* What the code does not keep: a query that is empty or malformed leaves  *)
(* no highlight ("empty/invalid -> clear decorations").                    *)
NothingToFind == find.open /\ ~find.debounce /\ ~IsSearchable(find) => addon.query = Plain

=============================================================================
