---------------------------- MODULE JournalFile ----------------------------
(***************************************************************************)
(* ConnectState::save, load and delete of strategy/kwin/state.rs, one      *)
(* action per system call.  Each call may fail, the process may die        *)
(* between any two, and the machine may lose power with what was not       *)
(* synced.  The callers hold the strategy's mutex: one operation at a time.*)
(*                                                                         *)
(* A file's content is a record, or Torn for a prefix of one, the empty    *)
(* file included.  Whether a directory change that was not synced reaches  *)
(* the disk is settled when it is made, and shows after a loss of power.   *)
(*                                                                         *)
(* A definition marked "Mutation" is a bug put in place of the definition  *)
(* that follows it, to show that a property can fail.                      *)
(***************************************************************************)
CONSTANTS Records,  \* ConnectStates, as their JSON text
          NoFile,   \* the directory has no such entry
          Torn      \* a content that does not parse

ASSUME ContentsAssumption ==
    /\ NoFile \notin Records /\ Torn \notin Records \cup {NoFile}
    /\ {"error", "corrupt"} \cap (Records \cup {NoFile}) = {}

Contents == Records \cup {NoFile, Torn}

VARIABLES
    pc,       \* "idle" or the system call that comes next
    arg,      \* the record that save writes
    file,     \* state.json as the running system sees it
    tmp,      \* state.tmp.<pid>, likewise
    synced,   \* the content of tmp is on disk
    disk,     \* what state.json will be after a loss of power
    loaded,   \* result of the last load, or why it failed
    kept      \* history: the last saved value, and those of later calls

files == <<file, tmp, synced, disk>>
vars == <<pc, arg, files, loaded, kept>>

Init ==
    /\ pc = "idle" /\ arg = NoFile
    /\ file = NoFile /\ tmp = NoFile /\ synced = FALSE /\ disk = NoFile
    /\ loaded = NoFile /\ kept = {NoFile}

Goto(from, to) == pc = from /\ pc' = to

\* The call returns an error; what it did so far stays.
Fail(at) == Goto(at, "idle") /\ UNCHANGED <<arg, files, loaded, kept>>

-----------------------------------------------------------------------------
\* save

Save(r) ==
    /\ Goto("idle", "open") /\ arg' = r /\ kept' = kept \cup {r}
    /\ UNCHANGED <<files, loaded>>

\* create_dir_all, open with O_CREAT and O_TRUNC, set_permissions.
OpenTmp ==
    \/ /\ pc = "open" /\ pc' \in {"write", "idle"}
       /\ tmp' = Torn /\ synced' = FALSE
       /\ UNCHANGED <<arg, file, disk, loaded, kept>>
    \/ Fail("open")

\* Mutation: a short write goes unnoticed.
WriteTmpUnchecked ==
    /\ Goto("write", "sync") /\ tmp' \in {arg, Torn}
    /\ UNCHANGED <<arg, file, synced, disk, loaded, kept>>
WriteTmp ==
    \/ Goto("write", "sync") /\ tmp' = arg
       /\ UNCHANGED <<arg, file, synced, disk, loaded, kept>>
    \/ Fail("write")

\* Mutation: the temporary file is renamed without being synced.
SyncTmpSkipped ==
    Goto("sync", "rename") /\ UNCHANGED <<arg, files, loaded, kept>>
SyncTmp ==
    \/ Goto("sync", "rename") /\ synced' = TRUE
       /\ UNCHANGED <<arg, file, tmp, disk, loaded, kept>>
    \/ Fail("sync")

Rename ==
    \/ /\ Goto("rename", "sync_dir")
       /\ file' = tmp /\ tmp' = NoFile /\ synced' = FALSE
       /\ disk' \in {disk, tmp} \cup (IF synced THEN {} ELSE {Torn})
       /\ UNCHANGED <<arg, loaded, kept>>
    \/ Fail("rename")

\* Mutation: the rename is not synced.
SyncDirSkipped ==
    Goto("sync_dir", "idle") /\ kept' = {arg} /\ UNCHANGED <<arg, files, loaded>>
\* Opening the directory and syncing it; with it save returns Ok.
SyncDir ==
    \/ /\ Goto("sync_dir", "idle") /\ disk' = file /\ kept' = {arg}
       /\ UNCHANGED <<arg, file, tmp, synced, loaded>>
    \/ Fail("sync_dir")

-----------------------------------------------------------------------------
\* load

\* from_str, schema and connector checks.
Parsed(content) == IF content = Torn THEN "corrupt" ELSE content

\* symlink_metadata and the permission check.
Stat ==
    /\ pc = "idle"
    /\ \/ file = NoFile /\ loaded' = NoFile /\ UNCHANGED pc
       \/ file # NoFile /\ pc' = "read" /\ UNCHANGED loaded
       \/ loaded' = "error" /\ UNCHANGED pc
    /\ UNCHANGED <<arg, files, kept>>

Read ==
    /\ Goto("read", "idle") /\ loaded' \in {Parsed(file), "error"}
    /\ UNCHANGED <<arg, files, kept>>

-----------------------------------------------------------------------------
\* delete: remove_file, with no sync of the directory.
Delete ==
    /\ pc = "idle" /\ file' = NoFile
    /\ disk' \in {disk, NoFile} /\ kept' = kept \cup {NoFile}
    /\ UNCHANGED <<pc, arg, tmp, synced, loaded>>

-----------------------------------------------------------------------------
\* The process dies; its successor has a temporary name of its own, or finds
\* the old one's file under it.
ProcessDies ==
    /\ pc' = "idle" /\ arg' = NoFile /\ loaded' = NoFile
    /\ tmp' \in {tmp, NoFile} /\ synced' = (synced /\ tmp' = tmp)
    /\ UNCHANGED <<file, disk, kept>>

PowerLoss ==
    /\ pc' = "idle" /\ arg' = NoFile /\ loaded' = NoFile
    /\ file' = disk /\ UNCHANGED disk
    /\ tmp' \in {NoFile, Torn, tmp} /\ synced' = FALSE
    /\ UNCHANGED kept

Next ==
    \/ \E r \in Records : Save(r)
    \/ OpenTmp \/ WriteTmp \/ SyncTmp \/ Rename \/ SyncDir
    \/ Stat \/ Read \/ Delete
    \/ ProcessDies \/ PowerLoss

Spec == Init /\ [][Next]_vars

-----------------------------------------------------------------------------
Results == Records \cup {NoFile, "error", "corrupt"}

\* Type correctness.
JournalTypeOK ==
    /\ pc \in {"idle", "open", "write", "sync", "rename", "sync_dir", "read"}
    /\ arg \in Records \cup {NoFile}
    /\ file \in Contents /\ tmp \in Contents /\ disk \in Contents
    /\ synced \in BOOLEAN
    /\ loaded \in Results /\ kept \subseteq Records \cup {NoFile}

\* A save that returned Ok outlives every crash and loss of power: what the
\* next load can find is that record, or what was written or removed since.
SavedIsDurable == {disk, file} \subseteq kept

\* No load ever meets a journal that does not parse, which would leave a restart
\* with nothing to recover from.
NeverCorrupt == loaded # "corrupt"

\* Whenever the process dies or the power goes, state.json is some whole record
\* or absent: the steps of save look atomic to whoever reads the file.
Atomic == INSTANCE AtomicJournal WITH value <- file
ImplementsAtomicJournal == Atomic!Spec
=============================================================================
