------------------------------- MODULE Palette --------------------------------
(***************************************************************************)
(* The command palette: the list that PaletteOverlay filters and moves in, *)
(* the commands, themes and scripts that CommandPalette gives it, and the  *)
(* dispatcher that runs what was picked.  The tabs, the themes and the     *)
(* scripts change under it.                                                *)
(*                                                                         *)
(* React commits a render some time after the state it shows was set, and  *)
(* runs the effect of a render some time after that commit; a key may come *)
(* at any of those times.  A key handler sees the rows of the last commit, *)
(* but reads the selection from a ref, which is always current.            *)
(***************************************************************************)
EXTENDS Integers, Sequences, SequencesExt, FiniteSetsExt

CONSTANTS COMMANDS,   \* the registry: a sequence of [id, needs, param]
          THEME_LISTS, LISTINGS,  \* what the registry of themes, the scripts directory may hold
          QUERIES,    \* what may be typed: sequences of letters
          LETTERS,    \* filterKey: the [letter, start] sequence of every item
          MAX_TABS, MAX_RUNS, MAX_KEYS  \* bounds: tabs, rows picked, moves between two commits

VARIABLES
  tabs,       \* how many there are
  page,       \* the page asked for: Closed, "commands", "themes" or "scripts"
  scripts, reading,       \* the scripts as loaded last; the read of the page, or Idle
  query,      \* as typed
  selected,   \* selectedRef
  overlay,    \* the last commit: [page, items, query, rows, row]
  fresh,      \* the items are another array than the commit's
  reset,      \* the effect of the last commit is due
  recent,     \* the dispatcher's mru
  keys,       \* history: the keys since the commit
  runs, astray  \* history: the rows picked; Enter ran another row than the one aimed at

typing == <<query, selected, keys>>
committed == <<overlay, fresh, reset>>
loading == <<page, scripts, reading>>
history == <<recent, runs, astray>>
vars == <<tabs, typing, committed, loading, history>>

Closed == "closed"
Idle == <<>>
Asked == <<"asked">>     \* with the answer appended once there
Nothing == "nothing"
Ids == {COMMANDS[n].id : n \in DOMAIN COMMANDS}
Command(id) == CHOOSE c \in Range(COMMANDS) : c.id = id

-----------------------------------------------------------------------------
(* The filter.                                                             *)

NoMatch == 0 - 1000

\* (mutation) a letter may match the same place again
FuzzyMatchAgain(q, candidate) ==
  IF \A k \in DOMAIN q : \E n \in DOMAIN candidate : candidate[n].letter = q[k] THEN 0 ELSE NoMatch

\* fuzzyMatch, in hundredths: every letter of the query where it comes first after the one
\* before, dearer at the start of a word or right after the last, cheaper in a long name.
FuzzyMatch(q, candidate) ==
  LET Next1(last, letter) == {n \in DOMAIN candidate : n > last /\ candidate[n].letter = letter}
      Take(s, letter) ==
        IF s.score = NoMatch \/ Next1(s.last, letter) = {} THEN [score |-> NoMatch, last |-> s.last]
        ELSE LET found == Min(Next1(s.last, letter)) IN
             [score |-> s.score + 100 + (IF found = s.last + 1 THEN 200 ELSE 0)
                                      + (IF candidate[found].start THEN 300 ELSE 0),
              last |-> found]
      end == FoldLeft(Take, [score |-> 0, last |-> 0 - 1], q)
  IN IF end.score = NoMatch \/ q = <<>> THEN end.score ELSE end.score - (Len(candidate) - Len(q))

\* fuzzyFilter: the matches, best first, and in their own order among equals.
FuzzyFilter(q, items) ==
  LET Score(n) == FuzzyMatch(q, LETTERS[items[n]])
      hits == {n \in DOMAIN items : Score(n) # NoMatch}
      Before(m, n) == Score(m) > Score(n) \/ (Score(m) = Score(n) /\ m < n)
  IN IF q = <<>> THEN items
     ELSE [p \in 1..Cardinality(hits) |->
             items[CHOOSE n \in hits : Cardinality({m \in hits : Before(m, n)}) = p - 1]]

-----------------------------------------------------------------------------
(* The commands.                                                           *)

When(id) == tabs >= Command(id).needs

Visible == SelectSeq([n \in DOMAIN COMMANDS |-> COMMANDS[n].id], When)

\* orderedCommands: the recent ones first, the rest in the registry's order.
OrderedCommands ==
  LET first == SelectSeq(recent, LAMBDA id : id \in Ids /\ When(id))
  IN first \o SelectSeq(Visible, LAMBDA id : id \notin Range(first))

\* (mutation) a command is recorded again each time
RecordAgain(id) == recent' = <<id>> \o recent

Record(id) == recent' = <<id>> \o SelectSeq(recent, LAMBDA other : other # id)

\* What a command does, as far as the palette can tell.
Effect(id) ==
  CASE id = "tab.new" /\ tabs < MAX_TABS -> tabs' = tabs + 1
    [] id = "tab.close" -> tabs' = tabs - 1
    [] OTHER -> UNCHANGED tabs

\* dispatch: the guard is asked again, and only what ran is recorded.
Dispatch(id) ==
  IF When(id) THEN Effect(id) /\ Record(id) ELSE UNCHANGED <<tabs, recent>>

-----------------------------------------------------------------------------
\* The registry of themes and the directory of scripts change unseen: any list may be there.
Items(p) ==
  CASE p = "commands" -> {OrderedCommands} [] p = "themes" -> THEME_LISTS
    [] p = "scripts" -> {scripts} [] p = Closed -> {<<>>}

Mounted(p, items) == [page |-> p, items |-> items, query |-> <<>>, rows |-> items, row |-> 0]

Key(kind) == [kind |-> kind, row |-> 0]
ToRow(n) == [kind |-> "row", row |-> n]

TypeOK ==
  /\ tabs \in 0..MAX_TABS /\ scripts \in LISTINGS \cup {<<>>}
  /\ reading \in {Idle, Asked} \cup {Append(Asked, listing) : listing \in LISTINGS}
  /\ query \in QUERIES /\ selected \in Int /\ overlay.row \in Int
  /\ {page, overlay.page} \subseteq {Closed, "commands", "themes", "scripts"}
  /\ {fresh, reset, astray} \subseteq BOOLEAN
  /\ Range(recent) \subseteq Ids /\ runs \in 0..MAX_RUNS
  /\ \A k \in DOMAIN keys : keys[k].kind \in {"down", "up", "row"} /\ keys[k].row \in Nat

Init ==
  /\ tabs = MAX_TABS /\ page = Closed /\ scripts = <<>> /\ reading = Idle
  /\ query = <<>> /\ selected = 0 /\ keys = <<>>
  /\ overlay = Mounted(Closed, <<>>) /\ fresh = FALSE /\ reset = FALSE
  /\ recent = <<>> /\ runs = 0 /\ astray = FALSE

Dirty == fresh \/ page # overlay.page \/ query # overlay.query \/ selected # overlay.row

\* showPalette; the palette starts over each time.
Open ==
  /\ page = Closed /\ overlay.page = Closed
  /\ page' = "commands" /\ scripts' = <<>>
  /\ UNCHANGED <<tabs, typing, committed, reading, history>>

\* A commit.  Every page mounts an overlay of its own; the page's effect reads the scripts, and
\* its cleanup drops a read still under way.
Commit ==
  /\ Dirty
  /\ fresh' = FALSE /\ keys' = <<>>
  /\ IF page # overlay.page
     THEN /\ \E items \in Items(page) : overlay' = Mounted(page, items)
          /\ query' = <<>> /\ selected' = 0 /\ reset' = FALSE
          /\ reading' = IF page = "scripts" THEN Asked ELSE Idle
     ELSE /\ \E items \in IF fresh THEN Items(page) ELSE {overlay.items} :
               overlay' = [overlay EXCEPT !.items = items, !.query = query,
                                          !.rows = FuzzyFilter(query, items), !.row = selected]
          /\ reset' = (reset \/ fresh \/ query # overlay.query)
          /\ UNCHANGED <<query, selected, reading>>
  /\ UNCHANGED <<tabs, page, scripts, history>>

\* (mutation) a list that was refreshed keeps the selection
ResetOnQuery ==
  /\ reset /\ reset' = FALSE
  /\ IF overlay.query = <<>> THEN UNCHANGED <<selected, keys>>
                             ELSE selected' = 0 /\ keys' = <<ToRow(1)>>
  /\ UNCHANGED <<tabs, query, overlay, fresh, loading, history>>

\* The effect over the query and the items: the top row again.
Reset ==
  /\ reset /\ reset' = FALSE
  /\ selected' = 0 /\ keys' = <<ToRow(1)>>
  /\ UNCHANGED <<tabs, query, overlay, fresh, loading, history>>

Type(q) ==
  /\ overlay.page # Closed /\ q # query /\ query' = q
  /\ UNCHANGED <<tabs, selected, keys, committed, loading, history>>

\* (mutation) the last row is not the end
DownUnclamped ==
  /\ overlay.page # Closed /\ Len(keys) < MAX_KEYS
  /\ selected' = selected + 1 /\ keys' = Append(keys, Key("down"))
  /\ UNCHANGED <<tabs, query, committed, loading, history>>

\* On an empty list this selects the row before the first.
Down ==
  /\ overlay.page # Closed /\ Len(keys) < MAX_KEYS
  /\ selected' = Min({selected + 1, Len(overlay.rows) - 1}) /\ keys' = Append(keys, Key("down"))
  /\ UNCHANGED <<tabs, query, committed, loading, history>>

Up ==
  /\ overlay.page # Closed /\ Len(keys) < MAX_KEYS
  /\ selected' = Max({selected - 1, 0}) /\ keys' = Append(keys, Key("up"))
  /\ UNCHANGED <<tabs, query, committed, loading, history>>

Hover(n) ==
  /\ overlay.page # Closed /\ n \in DOMAIN overlay.rows /\ selected # n - 1 /\ keys = <<>>
  /\ selected' = n - 1 /\ keys' = <<ToRow(n)>>
  /\ UNCHANGED <<tabs, query, committed, loading, history>>

\* onRun of the overlay that is mounted.
Run(item) ==
  /\ runs < MAX_RUNS /\ runs' = runs + 1
  /\ IF overlay.page = "commands" /\ Command(item).param # Nothing
     THEN /\ page' = IF page = Closed THEN Closed ELSE Command(item).param
          /\ UNCHANGED <<tabs, recent, fresh>>
     ELSE /\ Dispatch(CASE overlay.page = "commands" -> item
                        [] overlay.page = "themes" -> "theme.select"
                        [] overlay.page = "scripts" -> "script.run")
          /\ page' = Closed /\ fresh' = (fresh \/ overlay.page # "scripts")
  /\ UNCHANGED <<query, selected, keys, overlay, reset, scripts, reading>>

\* Where the keys since the commit lead from the row that it shows.
Aim ==
  LET Move(row, key) ==
        CASE key.kind = "down" -> Min({row + 1, Len(overlay.rows)})
          [] key.kind = "up" -> Max({row - 1, 1})
          [] key.kind = "row" -> key.row
      row == FoldLeft(Move, overlay.row + 1, keys)
  IN IF row \in DOMAIN overlay.rows THEN overlay.rows[row] ELSE Nothing

\* (mutation) the row of the last commit is run
EnterCommitted ==
  /\ overlay.row + 1 \in DOMAIN overlay.rows
  /\ Run(overlay.rows[overlay.row + 1])
  /\ astray' = (astray \/ overlay.rows[overlay.row + 1] # Aim)

Enter ==
  /\ selected + 1 \in DOMAIN overlay.rows
  /\ Run(overlay.rows[selected + 1])
  /\ astray' = (astray \/ overlay.rows[selected + 1] # Aim)

Click(n) ==
  /\ n \in DOMAIN overlay.rows /\ Run(overlay.rows[n]) /\ UNCHANGED astray

\* Back from a second page, or out; a click on the backdrop does the same.
Escape ==
  /\ overlay.page # Closed /\ page # Closed
  /\ page' = IF overlay.page = "commands" THEN Closed ELSE "commands"
  /\ UNCHANGED <<tabs, typing, committed, scripts, reading, history>>

Read ==
  /\ reading = Asked /\ \E listing \in LISTINGS : reading' = Append(Asked, listing)
  /\ UNCHANGED <<tabs, typing, committed, page, scripts, history>>

Loaded ==
  /\ Len(reading) = 2 /\ scripts' = reading[2] /\ reading' = Idle
  /\ fresh' = (fresh \/ overlay.page = "scripts")
  /\ UNCHANGED <<tabs, typing, page, overlay, reset, history>>

\* The App renders again: for a tab that came or went, or for anything else.  The commands and
\* the themes are new arrays each time, the scripts are not.
AppRenders(n) ==
  /\ n \in 0..MAX_TABS /\ n \in {tabs - 1, tabs, tabs + 1} /\ tabs' = n
  /\ overlay.page \notin {Closed, "scripts"} /\ ~fresh /\ fresh' = TRUE
  /\ UNCHANGED <<typing, overlay, reset, loading, history>>

Next ==
  \/ Open \/ Commit \/ Reset \/ Down \/ Up \/ Enter \/ Escape \/ Read \/ Loaded
  \/ \E q \in QUERIES : Type(q)
  \/ \E n \in 1..Len(overlay.rows) : Hover(n) \/ Click(n)
  \/ \E n \in 0..MAX_TABS : AppRenders(n)

Spec == Init /\ [][Next]_vars

-----------------------------------------------------------------------------
(* Properties.                                                             *)

Resting == overlay.page # Closed /\ ~Dirty /\ ~reset

IsSubsequence(q, candidate) ==
  \E places \in [DOMAIN q -> DOMAIN candidate] :
    /\ \A k \in DOMAIN q : candidate[places[k]].letter = q[k]
    /\ \A k, l \in DOMAIN q : k < l => places[k] < places[l]

(* Enter runs the row that the keys lead to from the one shown             *)
(* highlighted, whether or not React has caught up with them; the rows are *)
(* the items that have the query as a subsequence, each once; and once the *)
(* palette is at rest one of them is highlighted, unless there is none.    *)
PaletteRuns ==
  /\ ~astray
  /\ Cardinality(Range(overlay.rows)) = Len(overlay.rows)
  /\ Range(overlay.rows) =
       {item \in Range(overlay.items) : IsSubsequence(overlay.query, LETTERS[item])}
  /\ Resting /\ overlay.rows # <<>> => selected + 1 \in DOMAIN overlay.rows

=============================================================================
