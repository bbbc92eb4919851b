----------------------------- MODULE DaemonLog -----------------------------
(***************************************************************************)
(* The rotating writer of the daemon's log (core, logging.rs).             *)
(*                                                                         *)
(* One thread writes the lines it is handed, in their order.  A rotation   *)
(* is a walk over the backups, each of whose steps can fail; the line it   *)
(* was for is then lost, and a later line starts the walk anew over what   *)
(* the failed one left.  The process can end at any step.                  *)
(*                                                                         *)
(* Lines are numbered.  Sizes are abstracted: a line fits or does not, but *)
(* always fits a file that nothing was written to.  A line is written once *)
(* it is in the file: one cut short, or lost in the buffer, is a failure   *)
(* to put it.  A file that is missing and an empty one are the same.       *)
(***************************************************************************)
EXTENDS Naturals

CONSTANT Backups  \* logging.backup_count

VARIABLES
    files,    \* the lines of the active file, 0, and of each backup
    open,     \* the writer has the active file open
    filled,   \* current_len > 0
    writer,       \* where the writer is
    opening,  \* the rotation is that of new, not of a line
    shift,    \* the file to be renamed next
    line,     \* the number of the last line handed over
    written   \* the lines that were written (history)

logVars == <<files, open, filled, writer, opening, shift, line, written>>

Rotating == {"flush", "oldest", "shift", "open"}

LogType ==
    /\ files \in [0..Backups -> SUBSET Nat] /\ written \subseteq Nat
    /\ open \in BOOLEAN /\ filled \in BOOLEAN /\ opening \in BOOLEAN
    /\ writer \in {"off", "ready", "put"} \cup Rotating
    /\ shift \in Nat /\ shift <= Backups /\ line \in Nat

LogInit ==
    /\ files = [i \in 0..Backups |-> {}] /\ written = {}
    /\ open = FALSE /\ filled = FALSE /\ opening = FALSE
    /\ writer = "off" /\ shift = 0 /\ line = 0

-----------------------------------------------------------------------------
\* SizeLimitedLogWriter::new: a full active file is rotated away first.
Start ==
    /\ writer = "off"
    /\ opening' = TRUE
    /\ \/ writer' = "open"
       \/ files[0] # {} /\ writer' = "oldest"
    /\ UNCHANGED <<files, open, filled, shift, line, written>>

\* write: the next line, after a rotation if it does not fit.
WriteNext ==
    /\ writer = "ready"
    /\ line' = line + 1
    /\ opening' = FALSE
    /\ \/ writer' = "put"
       \/ filled /\ open /\ writer' = "flush"
       \/ filled /\ ~open /\ writer' = "oldest"
    /\ UNCHANGED <<files, open, filled, shift, written>>

\* The file is closed, flushed or not.
Flush ==
    /\ writer = "flush"
    /\ open' = FALSE
    /\ writer' = "oldest"
    /\ UNCHANGED <<files, filled, opening, shift, line, written>>

\* The oldest backup is removed; without backups the active file is.
RemoveOldest ==
    /\ writer = "oldest"
    /\ files' = [files EXCEPT ![Backups] = {}]
    /\ IF Backups = 0
       THEN writer' = "open" /\ UNCHANGED shift
       ELSE writer' = "shift" /\ shift' = Backups - 1
    /\ UNCHANGED <<open, filled, opening, line, written>>

\* Each file becomes the next backup, the active one the last.
Shift ==
    /\ writer = "shift"
    /\ files' = [files EXCEPT ![shift + 1] = files[shift], ![shift] = {}]
    /\ IF shift = 0
       THEN writer' = "open" /\ UNCHANGED shift
       ELSE writer' = "shift" /\ shift' = shift - 1
    /\ UNCHANGED <<open, filled, opening, line, written>>

Open ==
    /\ writer = "open"
    /\ open' = TRUE
    /\ filled' = (opening /\ files[0] # {})
    /\ writer' = IF opening THEN "ready" ELSE "put"
    /\ UNCHANGED <<files, opening, shift, line, written>>

\* A file or a rename fails: an opening writer is given up, and logging with it; a
\* line is lost, and the writer stays as it is, maybe without a file.
Fail ==
    /\ writer \in Rotating \cup {"put"}
    /\ writer' = IF opening THEN "off" ELSE "ready"
    /\ open' = (open /\ writer # "flush")
    /\ filled' \in {filled, filled \/ (writer = "put" /\ open)}
    /\ UNCHANGED <<files, opening, shift, line, written>>

Put ==
    /\ writer = "put" /\ open
    /\ files' = [files EXCEPT ![0] = @ \cup {line}]
    /\ written' = written \cup {line}
    /\ filled' = TRUE
    /\ writer' = "ready"
    /\ UNCHANGED <<open, opening, shift, line>>

\* "log file is not open"
NotOpen ==
    /\ writer = "put" /\ ~open
    /\ writer' = "ready"
    /\ UNCHANGED <<files, open, filled, opening, shift, line, written>>

\* The process ends.
LogStops ==
    /\ writer' = "off" /\ open' = FALSE /\ filled' = FALSE
    /\ UNCHANGED <<files, opening, shift, line, written>>

Rotate == Flush \/ RemoveOldest \/ Shift \/ Open

LogNext == Start \/ WriteNext \/ Rotate \/ Fail \/ Put \/ NotOpen \/ LogStops

LogSpec == LogInit /\ [][LogNext]_logVars

-----------------------------------------------------------------------------
Retained == UNION {files[i] : i \in 0..Backups}

(* The files hold the newest lines: whatever rotations failed half way, a  *)
(* written line is missing only if all older ones are.                     *)
NewestRetained ==
    \A old \in Retained : \A new \in written : old < new => new \in Retained

(* Backups are in the order of their numbers, the active file is newest.   *)
FilesInOrder ==
    \A i, j \in 0..Backups : i < j => \A m \in files[i], n \in files[j] : n < m
=============================================================================
