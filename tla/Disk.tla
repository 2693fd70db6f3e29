-------------------------------- MODULE Disk --------------------------------
(***************************************************************************)
(* The user's files on disk and the one way the program replaces them,     *)
(* src/open_sstv/fsutil.py: write a uniquely named temporary file, fsync   *)
(* it, rename it over the target, fsync the directory.                     *)
(*                                                                         *)
(* The disk has two layers.  `files` is what a reader sees now, `stable`   *)
(* what is on the platter: a kill of the program loses nothing of `files`, *)
(* a power loss takes any file back to its `stable` content.               *)
(*                                                                         *)
(* A component that uses the disk EXTENDS this module, keeps at most one   *)
(* write in flight (`write`, the saver's local state) and says with the    *)
(* outcome of Replaced and WriteFailed what happens next.                  *)
(***************************************************************************)
EXTENDS Integers, FiniteSets

CONSTANT Names          \* the files the component keeps

VARIABLES
    files,    \* Names -> content a reader sees
    stable,   \* Names -> content a power loss leaves
    orphans,  \* temporaries no writer owns any more: [file, old]
    write     \* the write in flight, or NoWrite

diskVars == <<files, stable, orphans, write>>

Absent == 0
NoWrite == [step |-> "none"]

Exists(f) == files[f] # Absent

\* old: the temporary is past the 60 s age floor of the sweeps.
\* temp: it is there; a sweep may have taken it away.
Writing(f, c) ==
    [step |-> "synced", file |-> f, content |-> c, temp |-> TRUE, old |-> FALSE]

DiskInit(start) ==
    /\ files = start /\ stable = start
    /\ orphans = {} /\ write = NoWrite

----------------------------------------------------------------------------
(* atomic_write_bytes.  StartWrite is mkstemp, write, flush and fsync: the *)
(* data is whole from here on.  A failure of the disk (full, read-only) up *)
(* to the rename leaves the target as it was and no temporary behind.      *)

StartWrite(f, c) == write' = Writing(f, c)

CanReplace == write.step = "synced" /\ write.temp

\* os.replace
Replace ==
    /\ CanReplace
    /\ files' = [files EXCEPT ![write.file] = write.content]
    /\ write' = [write EXCEPT !.step = "replaced"]
    /\ UNCHANGED <<stable, orphans>>

\* An OSError at any step before the rename.
WriteFailed ==
    /\ write.step = "synced"
    /\ write' = NoWrite
    /\ UNCHANGED <<files, stable, orphans>>

\* fault: the directory is not synced, the rename stays in the cache.
NoSync(dir, works) ==
    /\ write.step = "replaced"
    /\ write' = NoWrite
    /\ UNCHANGED <<files, stable, orphans>>
\* _fsync_directory: best effort, Windows and some network disks refuse it.
\* It makes every rename in that directory durable.
SyncDirectory(dir, works) ==
    /\ write.step = "replaced"
    /\ stable' = IF works
                   THEN [f \in Names |-> IF f \in dir THEN files[f] ELSE stable[f]]
                   ELSE stable
    /\ write' = NoWrite
    /\ UNCHANGED <<files, orphans>>

----------------------------------------------------------------------------
(* What other parts do to the disk.                                        *)

\* path.write_bytes: in place, no fsync.
WriteInPlace(f, c) ==
    /\ files' = [files EXCEPT ![f] = c]
    /\ UNCHANGED <<stable, orphans, write>>

Unlink(f) == files' = [files EXCEPT ![f] = Absent]

\* sweep_stale_temps: every temporary of a directory that is past the age
\* floor, whoever owns it.  LoseTemp is its effect on the write in flight.
Stale(dir) == {t \in orphans : t.old /\ t.file \in dir}
Sweep(dir) == orphans' = orphans \ Stale(dir)
LoseTemp(dir) ==
    IF write.step = "synced" /\ write.old /\ write.file \in dir
      THEN [write EXCEPT !.temp = FALSE] ELSE write

\* A minute passes: every temporary is past the age floor.  The write in
\* flight belongs to a live program, which can be suspended in mid-save.
MinutePasses ==
    /\ orphans' = {[t EXCEPT !.old = TRUE] : t \in orphans}
    /\ write' = IF write.step = "synced"
                  THEN [write EXCEPT !.old = TRUE] ELSE write
    /\ <<orphans, write>>' # <<orphans, write>>
    /\ UNCHANGED <<files, stable>>

\* The operating system writes its cache back.
WriteBack ==
    /\ stable # files
    /\ stable' = files
    /\ UNCHANGED <<files, orphans, write>>

\* The program dies in the middle of whatever it does (SIGKILL, crash).
\* A write cut short leaves its temporary behind.
Abandoned ==
    IF write.step = "synced" /\ write.temp
      THEN {[file |-> write.file, old |-> write.old]} ELSE {}
DiskKill ==
    /\ orphans' = orphans \cup Abandoned
    /\ write' = NoWrite
    /\ UNCHANGED <<files, stable>>

\* The machine loses power: some of what was not yet durable is lost.
Unsynced == {f \in Names : stable[f] # files[f]}
DiskPowerLoss(lost) ==
    /\ files' = [f \in Names |-> IF f \in lost THEN stable[f] ELSE files[f]]
    /\ stable' = files'
    /\ orphans' = orphans \cup Abandoned
    /\ write' = NoWrite
=============================================================================
