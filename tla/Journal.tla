------------------------------ MODULE Journal -------------------------------
(***************************************************************************)
(* The effect journal (edit_file, rollback and _journal in _api_impl.py):  *)
(* each tracked edit appends its inverse to a file of JSON lines, and      *)
(* rollback applies the last inverses and rewrites the file without them.  *)
(* There is no lock, and a caller may stop between any two writes.         *)
(*                                                                         *)
(* The journal is a sequence of lines, a line the sequence of the entries  *)
(* written on it: only a line with exactly one entry can be parsed.        *)
(***************************************************************************)
EXTENDS Naturals, Sequences, FiniteSets, SequencesExt, Ascending

CONSTANTS
    Callers,
    Paths,
    Contents,   \* what a file may contain, beside NoFile
    MaxEdits,   \* bound: the number of edits
    Counts,     \* bound: the numbers of entries a rollback is asked for
    NoFile      \* the file does not exist

ASSUME JournalAssumption == Counts \subseteq Nat

VARIABLES
    files,     \* [Paths -> the content, or NoFile]
    lines,     \* the journal
    ended,     \* whether the journal ends with a newline, or is empty
    edit_pc,   \* [Callers -> where its call stands]
    mem,       \* [Callers -> the local variables of its call]
    edits,     \* the number of edits so far
    lost       \* history: the paths an entry is missing of -- its caller
               \* stopped, its line was joined with another's, or its call
               \* overlapped one that used the same path or the journal

journalVars == <<files, lines, ended, edit_pc, mem, edits, lost>>

Entry == [path : Paths, before : Contents \cup {NoFile}]

JournalTypeOK ==
    /\ files \in [Paths -> Contents \cup {NoFile}]
    /\ lines \in Seq(Seq(Entry)) /\ ended \in BOOLEAN
    /\ edit_pc \in [Callers -> {"idle", "write", "append", "revert", "rewrite"}]
    /\ edits \in 0..MaxEdits /\ lost \subseteq Paths

JournalInit ==
    /\ files = [p \in Paths |-> NoFile] /\ lines = <<>> /\ ended = TRUE
    /\ edit_pc = [c \in Callers |-> "idle"] /\ mem = [c \in Callers |-> NoFile]
    /\ edits = 0 /\ lost = {}

-----------------------------------------------------------------------------
\* _journal: a line that does not parse is skipped
Parsed ==
    LET at == InOrder({i \in DOMAIN lines : Len(lines[i]) = 1})
    IN [k \in DOMAIN at |-> lines[at[k]][1]]

Goto(c, l) == edit_pc' = [edit_pc EXCEPT ![c] = l]
Keep(c, m) == mem' = [mem EXCEPT ![c] = m]
Rolling(c) == edit_pc[c] \in {"revert", "rewrite"}

\* edit_file: read what was there
BeginEdit(c, p, x) ==
    /\ edit_pc[c] = "idle" /\ edits < MaxEdits
    /\ Goto(c, "write") /\ Keep(c, [path |-> p, before |-> files[p], after |-> x])
    /\ edits' = edits + 1
    /\ lost' = lost \cup {q \in {p} : \E d \in Callers :
                             Rolling(d) \/ (edit_pc[d] # "idle" /\ mem[d].path = p)}
    /\ UNCHANGED <<files, lines, ended>>

WriteFile(c) ==
    /\ edit_pc[c] = "write" /\ Goto(c, "append")
    /\ files' = [files EXCEPT ![mem[c].path] = mem[c].after]
    /\ UNCHANGED <<lines, ended, mem, edits, lost>>

\* what is appended goes on the last line when that has no newline
Put(c, es) ==
    IF ended
    THEN lines' = Append(lines, es) /\ lost' = lost \cup IF Len(es) = 1 THEN {} ELSE {mem[c].path}
    ELSE /\ lines' = Append(Front(lines), Last(lines) \o es)
         /\ lost' = lost \cup {e.path : e \in ToSet(Last(lines) \o es)}

NewEntry(c) == [path |-> mem[c].path, before |-> mem[c].before]

AppendEntry(c) ==
    /\ edit_pc[c] = "append" /\ Goto(c, "idle") /\ Keep(c, NoFile)
    /\ Put(c, <<NewEntry(c)>>) /\ ended' = TRUE
    /\ UNCHANGED <<files, edits>>

\* Mutant of BeginRollback: the entries are undone in the order they were written
BeginRollbackForward(c, n) ==
    /\ edit_pc[c] = "idle" /\ lines # <<>>
    /\ LET m == IF n = 0 \/ n > Len(Parsed) THEN Len(Parsed) ELSE n
           cut == Len(Parsed) - m
       IN Keep(c, [undo |-> SubSeq(Parsed, cut + 1, Len(Parsed)), left |-> SubSeq(Parsed, 1, cut)])
    /\ Goto(c, "revert")
    /\ lost' = IF \E d \in Callers : edit_pc[d] # "idle" THEN Paths ELSE lost
    /\ UNCHANGED <<files, lines, ended, edits>>

\* rollback(n): entries[-n:], which is every entry when n is 0
BeginRollback(c, n) ==
    /\ edit_pc[c] = "idle" /\ lines # <<>>
    /\ LET m == IF n = 0 \/ n > Len(Parsed) THEN Len(Parsed) ELSE n
           cut == Len(Parsed) - m
       IN Keep(c, [undo |-> Reverse(SubSeq(Parsed, cut + 1, Len(Parsed))),
                   left |-> SubSeq(Parsed, 1, cut)])
    /\ Goto(c, "revert")
    /\ lost' = IF \E d \in Callers : edit_pc[d] # "idle" THEN Paths ELSE lost
    /\ UNCHANGED <<files, lines, ended, edits>>

RevertOne(c) ==
    /\ edit_pc[c] = "revert"
    /\ IF mem[c].undo = <<>>
       THEN Goto(c, "rewrite") /\ UNCHANGED <<files, mem>>
       ELSE /\ files' = [files EXCEPT ![Head(mem[c].undo).path] = Head(mem[c].undo).before]
            /\ Keep(c, [mem[c] EXCEPT !.undo = Tail(@)])
            /\ UNCHANGED edit_pc
    /\ UNCHANGED <<lines, ended, edits, lost>>

\* the entries that are left are joined by newlines, with none at the end
Rewrite(c) ==
    /\ edit_pc[c] = "rewrite" /\ Goto(c, "idle") /\ Keep(c, NoFile)
    /\ lines' = [i \in DOMAIN mem[c].left |-> <<mem[c].left[i]>>]
    /\ ended' = (mem[c].left = <<>>)
    /\ UNCHANGED <<files, edits, lost>>

\* the process stops between two writes
Stop(c) ==
    /\ edit_pc[c] # "idle" /\ Goto(c, "idle") /\ Keep(c, NoFile)
    /\ lost' = IF edit_pc[c] = "append" THEN lost \cup {mem[c].path} ELSE lost
    /\ UNCHANGED <<files, lines, ended, edits>>

\* it stops in the middle of one: a line that will never parse, or a journal
\* that was truncated to be rewritten
StopWriting(c) ==
    /\ \/ edit_pc[c] = "append" /\ Put(c, <<NewEntry(c), NewEntry(c)>>) /\ ended' = FALSE
       \/ edit_pc[c] = "rewrite" /\ lines' = <<>> /\ ended' = TRUE /\ lost' = Paths
    /\ Goto(c, "idle") /\ Keep(c, NoFile)
    /\ UNCHANGED <<files, edits>>

JournalNext ==
    \E c \in Callers :
        \/ \E p \in Paths, x \in Contents : BeginEdit(c, p, x)
        \/ \E n \in Counts : BeginRollback(c, n)
        \/ WriteFile(c) \/ AppendEntry(c) \/ RevertOne(c) \/ Rewrite(c)
        \/ Stop(c) \/ StopWriting(c)

JournalSpec == JournalInit /\ [][JournalNext]_journalVars

-----------------------------------------------------------------------------
\* the content of p when every entry has been undone
Unwound(p) ==
    LET at == {k \in DOMAIN Parsed : Parsed[k].path = p}
    IN IF at = {} THEN files[p] ELSE Parsed[CHOOSE k \in at : \A j \in at : k <= j].before

(* Every edit can be taken back.  Between calls, undoing all the journal    *)
(* holds brings a file back to what it was before the first edit, also      *)
(* after rollbacks that were interrupted between two files or before the    *)
(* journal was rewritten, and after overlapping edits of different files -- *)
(* unless an entry of that very file is missing.                            *)
Recoverable ==
    (\A c \in Callers : edit_pc[c] = "idle") => \A p \in Paths \ lost : Unwound(p) = NoFile
=============================================================================
