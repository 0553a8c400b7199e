-------------------------------- MODULE Toml --------------------------------
(***************************************************************************)
(* toml_parse_file: the lines of a file, as TomlLine reads them, filed     *)
(* under sections.  Every [[name]] line opens a section "name#index" of    *)
(* its own, here the pair of the two; entries are looked up by section and *)
(* key, the first one wins.                                                *)
(***************************************************************************)
EXTENDS Integers, Sequences, SequencesExt

CONSTANTS
    Names,              \* the names of [[array-of-tables]] headers
    Tables,             \* the names of [table] headers, none of the form name#index
    Keys, Values,
    MaxEntries,         \* MAX_ENTRIES
    MaxNames,           \* MAX_ATABLE_NAMES
    MaxLines            \* bound: the lines that are read

VARIABLES
    entries,            \* entries[0..n)
    atables,            \* atable_names and atable_counts
    section,            \* cur_section
    pc,                 \* "reading", "done" or "failed"
    blocks              \* the file as it was meant: per header (an index left open), the keys under it

vars == <<entries, atables, section, pc, blocks>>

None == "none"

\* What stands before the first header has no section name.
TableSections == {<<table>> : table \in Tables \cup {""}}

Sections == TableSections \cup (Names \X Nat)

TypeOK ==
    /\ entries \in Seq([section : Sections, key : Keys, val : Values])
    /\ Len(entries) <= MaxEntries
    /\ atables \in Seq([name : Names, count : Nat])
    /\ Len(atables) <= MaxNames
    /\ section \in Sections
    /\ pc \in {"reading", "done", "failed"}

Init ==
    /\ entries = <<>> /\ atables = <<>>
    /\ section = <<"">>
    /\ pc = "reading"
    /\ blocks = <<[header |-> <<"">>, vals |-> <<>>]>>

-----------------------------------------------------------------------------

\* A line is read that is neither blank nor the end of the file.
LineRead == pc = "reading" /\ Len(blocks) + Len(entries) <= MaxLines

Fails == pc' = "failed" /\ UNCHANGED <<entries, atables, section>>

\* Fault: every name counts on from the headers before it.
CountAll(name) == FoldLeft(LAMBDA n, a : n + a.count, 0, atables)

\* atable_counts of a name, 0 if it is new
CountOf(name) ==
    LET i == SelectInSeq(atables, LAMBDA a : a.name = name)
    IN  IF i = 0 THEN 0 ELSE atables[i].count

Counted(name) ==
    LET i == SelectInSeq(atables, LAMBDA a : a.name = name)
    IN  IF i = 0 THEN Append(atables, [name |-> name, count |-> 1])
        ELSE [atables EXCEPT ![i].count = @ + 1]

\* [[name]]
ArrayHeader(name) ==
    /\ LineRead
    /\ blocks' = Append(blocks, [header |-> <<name, None>>, vals |-> <<>>])
    /\ IF Len(Counted(name)) > MaxNames THEN Fails
       ELSE /\ section' = <<name, CountOf(name)>>
            /\ atables' = Counted(name)
            /\ UNCHANGED <<entries, pc>>

\* [table]
TableHeader(table) ==
    /\ LineRead
    /\ blocks' = Append(blocks, [header |-> <<table>>, vals |-> <<>>])
    /\ section' = <<table>>
    /\ UNCHANGED <<entries, atables, pc>>

\* key = value
KeyValue(key, val) ==
    /\ LineRead
    /\ blocks' = [blocks EXCEPT ![Len(blocks)].vals = Append(@, [key |-> key, val |-> val])]
    /\ IF Len(entries) >= MaxEntries THEN Fails
       ELSE /\ entries' = Append(entries, [section |-> section, key |-> key, val |-> val])
            /\ UNCHANGED <<atables, section, pc>>

\* A header without its bracket, a line without "=", a bad value
Malformed == LineRead /\ Fails /\ UNCHANGED blocks

EndOfFile == pc = "reading" /\ pc' = "done" /\ UNCHANGED <<entries, atables, section, blocks>>

Next ==
    \/ \E name \in Names : ArrayHeader(name)
    \/ \E table \in Tables : TableHeader(table)
    \/ \E key \in Keys, val \in Values : KeyValue(key, val)
    \/ Malformed
    \/ EndOfFile

Spec == Init /\ [][Next]_vars

\* toml_get
Get(sec, key) ==
    LET i == SelectInSeq(entries, LAMBDA e : e.section = sec /\ e.key = key)
    IN  IF i = 0 THEN None ELSE entries[i].val

\* toml_array_len
ArrayLen(name) == CountOf(name)

-----------------------------------------------------------------------------
(* Properties *)

FirstOf(vals, key) ==
    LET i == SelectInSeq(vals, LAMBDA e : e.key = key)
    IN  IF i = 0 THEN None ELSE vals[i].val

\* The blocks of one [[name]], in the order of the file.
BlocksOf(name) == SelectSeq(blocks, LAMBDA b : b.header = <<name, None>>)

\* What config.c relies on when it walks "openbridge#i" and "link#i": however
\* blocks of several names, [table]s and repeated keys are mixed in a file,
\* toml_array_len counts the blocks of a name, and toml_get finds under the
\* i-th of them the first value that the i-th block itself gives the key.
FiledInOrder ==
    pc = "done" => \A name \in Names :
        /\ ArrayLen(name) = Len(BlocksOf(name))
        /\ \A i \in 1..ArrayLen(name), key \in Keys :
            Get(<<name, i - 1>>, key) = FirstOf(BlocksOf(name)[i].vals, key)

\* A [table] may be left and opened again; toml_get finds the first value any
\* of its parts gives the key, and none of another section.
TablesJoined ==
    pc = "done" => \A sec \in TableSections, key \in Keys :
        Get(sec, key) =
            FirstOf(FoldLeft(LAMBDA s, b : IF b.header = sec THEN s \o b.vals ELSE s, <<>>, blocks), key)
=============================================================================
