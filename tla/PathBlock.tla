----------------------------- MODULE PathBlock -----------------------------
(***************************************************************************)
(* The PATH block that `orcker path`, tool installs and `orcker uninstall` *)
(* keep in a shell start-up file which the user also edits.  A text is the *)
(* sequence of its lines as split at the newlines, so a final newline is a *)
(* last empty line and the empty text is one empty line.  Several orcker   *)
(* processes may edit at once, each in steps: read, back up, check that    *)
(* the file is still as read, rename a new file over it.                   *)
(***************************************************************************)
EXTENDS Naturals, Sequences, SequencesExt, FiniteSetsExt

CONSTANTS Procs,        \* orcker processes
          UserLines,    \* lines the user writes
          BreaksMarker, \* does the user also delete or leave a lone marker line?
          MaxEdits      \* bound on user edits

Open == "# >>>"
Close == "# <<<"
Body == "export PATH"
Block == <<Open, Body, Close, "">>
Empty == <<"">>

\* -------------------------------------------------------------- shell_profile
\* The block is the first opening marker and the first closing one after it.
Markers(text) ==
    {<<o, c>> \in (DOMAIN text) \X (DOMAIN text) :
        /\ text[o] = Open /\ text[c] = Close /\ o < c
        /\ \A i \in 1 .. o - 1 : text[i] # Open
        /\ \A i \in o .. c - 1 : text[i] # Close}

\* Lines a .. b joined: no line at all is the empty text too.
Joined(text, a, b) == IF a > b THEN Empty ELSE SubSeq(text, a, b)

\* The text without its final newlines.
Trimmed(text) ==
    LET full == {i \in DOMAIN text : text[i] # ""}
    IN IF full = {} THEN Empty ELSE SubSeq(text, 1, Max(full))

upsert_block(text) ==
    IF Markers(text) = {}
    THEN IF text = Empty THEN Block ELSE Trimmed(text) \o <<"">> \o Block
    ELSE LET m == CHOOSE p \in Markers(text) : TRUE
             before == Joined(text, 1, m[1] - 1)
             after == Joined(text, m[2] + 1, Len(text))
         IN (IF before = Empty THEN <<>> ELSE before) \o Front(Block)
              \o (IF after = Empty THEN <<"">> ELSE after)

remove_block_to_last(text) ==
    IF \E i, j \in DOMAIN text : text[i] = Open /\ text[j] = Close /\ i < j
    THEN LET o == CHOOSE i \in DOMAIN text : text[i] = Open
                                /\ \A j \in 1 .. i - 1 : text[j] # Open
         IN IF o = 1 THEN Empty ELSE SubSeq(text, 1, o - 1) \o <<"">>
    ELSE text

\* The blank line before the block goes with it.
remove_block(text) ==
    IF Markers(text) = {} THEN text
    ELSE LET m == CHOOSE p \in Markers(text) : TRUE
             start == IF m[1] > 1 /\ text[m[1] - 1] = "" THEN m[1] - 1 ELSE m[1]
             before == Joined(text, 1, start - 1)
             after == Joined(text, m[2] + 1, Len(text))
         IN IF before = Empty THEN after
            ELSE IF after = Empty
            THEN IF Last(text) = "" THEN Append(before, "") ELSE before
            ELSE before \o after

\* ------------------------------------------------------------------ the file
VARIABLES
    file,    \* the start-up file, or Missing
    bak,     \* FILE.orcker.bak, or Missing
    proc,    \* each process: step, what it does, what it read, and whether the user's
             \* lines changed too late for it to notice
    edits,   \* user edits so far
    pristine,\* every text the file had before Orcker first changed it
    missed   \* was Orcker without a whole copy when it went on to change the file?

vars == <<file, bak, proc, edits, pristine, missed>>

Missing == <<>>
Torn == <<"torn">>    \* what a copy that failed midway leaves
Text(f) == IF f = Missing THEN Empty ELSE f

Idle == [pc |-> "idle", install |-> FALSE, read |-> <<>>, late |-> FALSE]

Mine(text) == SelectSeq(text, LAMBDA l : l \in UserLines)

TypeOK ==
    /\ Mine(file) \in Seq(UserLines)
    /\ \A p \in Procs : proc[p].pc \in {"idle", "backup", "check", "rename"}
    /\ edits \in 0 .. MaxEdits /\ missed \in BOOLEAN

Init ==
    /\ \E u \in UserLines : file \in {Missing, Empty, <<u>>, <<u, "">>, <<u, "", "">>}
    /\ bak = Missing
    /\ proc = [p \in Procs |-> Idle]
    /\ edits = 0
    /\ pristine = {file}
    /\ missed = FALSE

Updated(text, install) == IF install THEN upsert_block(text) ELSE remove_block(text)

\* edit_one: a missing file is read as empty; nothing to change, nothing written.
Read(p, install) ==
    /\ proc[p].pc = "idle"
    /\ Updated(Text(file), install) # Text(file)
    /\ proc' = [proc EXCEPT ![p] = [pc |-> "backup", install |-> install, read |-> Text(file),
                                    late |-> FALSE]]
    /\ UNCHANGED <<file, bak, edits, pristine, missed>>

\* `orcker path`, the end of a tool install, and `orcker uninstall`.
PathCommand(p) == \E install \in BOOLEAN : Read(p, install)
AfterToolInstall(p) == Read(p, TRUE)
ForUninstall(p) == Read(p, FALSE)

\* A file that exists is copied unless a backup exists. A failed copy is ignored, and may
\* leave a part of the file as the backup.
BackUp(p) ==
    /\ proc[p].pc = "backup"
    /\ \/ bak # Missing /\ UNCHANGED <<bak, missed>>
       \/ bak = Missing /\ file # Missing /\ bak' = file /\ UNCHANGED missed
       \/ bak = Missing /\ file # Missing /\ bak' \in {Missing, Torn} /\ missed' = TRUE
       \/ bak = Missing /\ file = Missing /\ missed' = TRUE /\ UNCHANGED bak
    /\ proc' = [proc EXCEPT ![p].pc = "check"]
    /\ UNCHANGED <<file, edits, pristine>>

\* write_atomic: the file must still be as it was read, or be gone.
Check(p) ==
    /\ proc[p].pc = "check"
    /\ proc' = IF file \in {proc[p].read, Missing}
               THEN [proc EXCEPT ![p].pc = "rename", ![p].late = Text(file) # proc[p].read]
               ELSE [proc EXCEPT ![p] = Idle]
    /\ UNCHANGED <<file, bak, edits, pristine, missed>>

\* A change of the user's lines comes too late for who has compared the file.
Noticed ==
    [p \in Procs |-> [proc[p] EXCEPT !.late = @ \/ (proc[p].pc = "rename" /\ Mine(file') # Mine(file))]]

Rename(p) ==
    /\ proc[p].pc = "rename"
    /\ file' = Updated(proc[p].read, proc[p].install)
    /\ proc' = [Noticed EXCEPT ![p] = Idle]
    /\ UNCHANGED <<bak, edits, pristine, missed>>

\* Any step may fail, or its process may die.
Stop(p) ==
    /\ proc[p].pc # "idle"
    /\ proc' = [proc EXCEPT ![p] = Idle]
    /\ UNCHANGED <<file, bak, edits, pristine, missed>>

\* The user adds a line at the top or at the end, takes the block out by hand, or removes
\* the file.
UserEdits ==
    /\ edits < MaxEdits
    /\ edits' = edits + 1
    /\ \/ \E u \in UserLines :
            file' \in {<<u>> \o Text(file), IF file = Missing THEN <<u>> ELSE Trimmed(file) \o <<u, "">>}
       \/ file # Missing /\ file' = Missing
       \/ file' = SelectSeq(file, LAMBDA l : l \notin {Open, Body, Close}) /\ file' # <<>>
       \/ /\ BreaksMarker
          /\ \E i \in DOMAIN file : /\ file[i] \in {Open, Close} /\ Len(file) > 1
                                    /\ file' = RemoveAt(file, i)
    /\ pristine' = IF Open \in ToSet(file') \cup ToSet(file) THEN pristine
                   ELSE pristine \cup {file'}
    /\ proc' = Noticed
    /\ UNCHANGED <<bak, missed>>

Next ==
    \/ \E p \in Procs : \/ PathCommand(p) \/ AfterToolInstall(p) \/ ForUninstall(p)
                        \/ BackUp(p) \/ Check(p) \/ Rename(p) \/ Stop(p)
    \/ UserEdits

Spec == Init /\ [][Next]_vars

\* ---------------------------------------------------------------- properties
\* remove_block "never consumes a non-empty user line", and upsert_block replaces the
\* block only: whatever two processes do at once, a write keeps every line of the user's
\* that is in the file, in its order. The one exception is the window the code leaves: what
\* the user saves after a process has compared the file and before its rename is lost, and
\* a file removed in between comes back.
UserLinesKept ==
    \A p \in Procs : (proc[p].pc = "rename" /\ proc'[p].pc = "idle" /\ file' # file) =>
       proc[p].late \/ Mine(file') = Mine(file)

\* The backup is the file from before Orcker's first change to it, never a later one,
\* unless there was no file to copy, or the copy failed, when Orcker changed it.
BackupIsPristine == bak # Missing => bak \in pristine \/ missed
=============================================================================
