---------------------------- MODULE MCConfigSync ----------------------------
(* ConfigSync on small instances.                                          *)
EXTENDS ConfigSync

Dawn == [theme |-> "dawn", rc |-> TRUE]
Bad == [theme |-> "bad", rc |-> FALSE]
Night == [theme |-> "night", rc |-> FALSE]

Readable(text) == [text |-> text, readable |-> TRUE]
Unreadable(text) == [text |-> text, readable |-> FALSE]

MCSaved == {Dawn, Night, Bad, Broken}
MCStart == {Readable(Absent), Readable(Bad), Unreadable(Dawn)}
UnreadableFile == {Unreadable(Dawn)}
=============================================================================
