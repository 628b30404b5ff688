----------------------------- MODULE ConfigText -----------------------------
(***************************************************************************)
(* termixion.toml as far as the synchronisation can tell texts apart: what *)
(* the entry of one setting (appearance.theme) holds and whether remote    *)
(* control is enabled.  Parsing, the single-key edit, the difference of    *)
(* two parses (config.rs, config_io.rs) and the webview's validation.      *)
(***************************************************************************)
EXTENDS Naturals, Sequences

CONSTANTS VALUES,   \* theme ids the file may name and the registry accepts
          DERIVED,  \* the theme the operating system's appearance derives
          SAVED     \* bound: the texts that an editor saves and that there may be at start

ASSUME ConfigTextAssumption ==
  /\ DERIVED \in VALUES
  /\ VALUES \cap {"white", "unset", "bad", "broken", "empty", "absent"} = {}

\* "unset": no such entry; "bad": an entry of the wrong type; "broken": not TOML;
\* "empty": the empty text, which stands for a deleted file; "absent": no file.
Text == [theme : VALUES \cup {"unset", "bad", "broken", "empty", "absent"}, rc : BOOLEAN]

Template == [theme |-> "unset", rc |-> FALSE]
Broken == [theme |-> "broken", rc |-> FALSE]
Empty == [theme |-> "empty", rc |-> FALSE]
Absent == [theme |-> "absent", rc |-> FALSE]

ASSUME SavedAssumption ==
  SAVED \subseteq [theme : VALUES \cup {"unset", "bad"}, rc : BOOLEAN] \cup {Broken}

\* parse_config: an entry that cannot be read keeps the default, "white", which
\* is no theme of the webview any more.
ConfigTheme == VALUES \cup {"white"}
Config == [theme : ConfigTheme, rc : BOOLEAN]
DefaultConfig == [theme |-> "white", rc |-> FALSE]
ParseConfig(text) ==
  [theme |-> IF text.theme \in VALUES THEN text.theme ELSE "white", rc |-> text.rc]

HasWarnings(text) == text.theme \in {"bad", "broken"}

\* edit_document refuses a file that is not TOML; otherwise every other entry stays.
Editable(text) == text # Broken
EditDocument(text, theme) == [text EXCEPT !.theme = theme]

\* The removed built-in is served as the derived theme.
Coerce(theme) == IF theme = "white" THEN DERIVED ELSE theme
=============================================================================
