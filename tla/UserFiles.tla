------------------------------ MODULE UserFiles ------------------------------
(***************************************************************************)
(* What the operator keeps in files, over the disk of module Disk: the     *)
(* settings (config/store.py, app.py, the saves of ui/main_window.py) and  *)
(* the templates (templates/manager.py, templates/toml_io.py, the one-time *)
(* installation of templates/migration.py, the editor and the gallery's    *)
(* Rename, Duplicate and Delete).                                          *)
(*                                                                         *)
(* The GUI thread does one operation at a time; between two of its steps   *)
(* the program may be killed, the machine may lose power, and a request    *)
(* thread of the remote server may list the templates, which sweeps stale  *)
(* temporaries.  Every file content is a number: documents the operator    *)
(* made are told apart, a negative number is a settings file broken by a   *)
(* hand edit.                                                              *)
(***************************************************************************)
EXTENDS Disk, Sequences

CONSTANTS
    Starters,     \* stems of the bundled templates, in installation order
    Legacy,       \* v0.2 overlays: the stem each migrates to
    MaxSuffix,    \* bound: files of one stem
    MaxEdits,     \* bound: what the operator changes, deletes or restores
    MaxCrashes    \* bound: kills and power losses

VARIABLES
    proc,      \* "down", "loading", "migrating", "restoring", "up", "closing"
    now,       \* the settings in memory
    gainDue,       \* a gain was committed, its debounced save is to come
    saved,     \* the last load or save of the settings succeeded
    base,      \* the settings on disk, as the program knows them
    mig,       \* progress of run_migration and install_starter_pack
    op,        \* what the write in flight is for
    editors,   \* the two template editors that may be open
    edits,     \* documents made so far
    crashes,
    overlays,  \* the v0.2 overlays found beside the settings, never deleted
    \* history
    start,     \* the files before the first launch
    kept,      \* contents the operator saved and did not give up since
    placed,    \* v0.2 overlays found migrated, or whose write failed
    gone,      \* files deleted since: <<file, was the pack marked as installed>>
    excuses    \* named events after which less is promised

settings == <<now, gainDue, saved, base>>
opVars == <<settings, editors, edits>>
origin == <<overlays, start>>
history == <<kept, placed, gone, excuses>>
filesVars == <<diskVars, proc, settings, mig, op, editors, edits, crashes, origin, history>>

StarterSet == {Starters[i] : i \in DOMAIN Starters}
LegacySet == {Legacy[i] : i \in DOMAIN Legacy}
Templates == (StarterSet \X {1}) \cup ((LegacySet \cup {"mine"}) \X (1 .. MaxSuffix))
Config == <<"config.toml", 0>>
Corrupt == <<"config.toml.corrupt", 0>>
StarterMark == <<".starter_pack_installed", 0>>
MigrationMark == <<".v2_migrated", 0>>
ConfigDir == {Config, Corrupt}
TemplatesDir == Templates \cup {StarterMark, MigrationMark}
AllFiles == ConfigDir \cup TemplatesDir

\* There is a starter; every overlay can have a file of its own.
ASSUME FilesConstants ==
    /\ Names = AllFiles
    /\ Starters \in Seq(STRING) /\ Starters # <<>>
    /\ Legacy \in Seq(STRING) /\ Legacy # <<>>
    /\ MaxSuffix \in Nat /\ Len(Legacy) <= MaxSuffix
    /\ MaxEdits \in Nat /\ MaxCrashes \in Nat

StarterFile(i) == <<Starters[i], 1>>
Pristine == 1                       \* a bundled template, a marker
LegacyDoc(i) == 1 + i
Doc(k) == Len(Legacy) + 3 + k       \* above all of those, from -1
Broken(k) == -k
NoFile == <<"none", 0>>
Closed == [open |-> FALSE]
NoOp == [kind |-> "none"]
NoMigration == [step |-> "idle", i |-> 0, written |-> {}]
NewDoc == Doc(edits + 1)
CanEdit == edits < MaxEdits
Ready == proc = "up" /\ op = NoOp    \* the GUI thread is idle

\* starter_pack_installed
Installed == Exists(StarterMark) \/ \E s \in StarterSet : Exists(<<s, 1>>)

\* unique_path_for_name: the first free suffix.
Free(stem) == {f \in Templates : f[1] = stem /\ ~Exists(f)}
HasFree(stem) == Free(stem) # {}
FreeFile(stem) == CHOOSE f \in Free(stem) : \A g \in Free(stem) : f[2] <= g[2]

\* The state the program may be first launched in: a new installation, a
\* v0.2 user with overlays (and perhaps a template of their own of the same
\* name), or a user of a version before the marker.
Blank == [f \in AllFiles |-> Absent]
Starts ==
    {<<Blank, <<>>>>,
     <<[f \in AllFiles |-> IF f \in StarterSet \X {1} THEN Pristine ELSE Blank[f]], <<>>>>,
     <<[Blank EXCEPT ![Config] = Doc(0)], Legacy>>,
     <<[Blank EXCEPT ![Config] = Doc(0), ![<<Legacy[1], 1>>] = Doc(-1)], Legacy>>}

\* bound: what counts as changed and as crashed before the first launch.  With
\* overlays there are two crashes and no change, or one change: together with a
\* crash where the user has a file of an overlay's name, without where not.
Spent ==
    IF overlays = <<>> THEN {<<0, 0>>}
    ELSE {<<2, 0>>, <<1, IF start[<<Legacy[1], 1>>] # Absent THEN 1 ELSE 2>>}

FilesInit ==
    /\ \E s \in Starts : start = s[1] /\ overlays = s[2]
    /\ DiskInit(start)
    /\ kept = {start[f] : f \in AllFiles} \ {Absent, Pristine}
    /\ proc = "down" /\ now = 0 /\ base = 0 /\ gainDue = FALSE /\ saved = TRUE
    /\ mig = NoMigration /\ op = NoOp
    /\ editors = [e \in 1 .. 2 |-> Closed]
    /\ \E spent \in Spent : edits = spent[1] /\ crashes = spent[2]
    /\ placed = {} /\ gone = {} /\ excuses = {}

----------------------------------------------------------------------------
(* Launch: load the settings once, then install the templates.             *)

Launch ==
    /\ proc = "down" /\ proc' = "loading"
    /\ UNCHANGED <<diskVars, opVars, mig, op, crashes, history>>

Loaded(doc, ok) ==
    /\ now' = doc /\ base' = doc /\ saved' = ok
    /\ UNCHANGED gainDue
    /\ proc' = "migrating" /\ mig' = [NoMigration EXCEPT !.step = "check"]
    /\ Sweep(ConfigDir)
    /\ UNCHANGED <<op, editors, edits, crashes, placed, gone>>

LoadGood ==
    /\ proc = "loading" /\ files[Config] >= 0
    /\ Loaded(files[Config], TRUE)
    /\ UNCHANGED <<files, stable, write, kept, excuses>>

\* A file that does not parse is moved aside, over an older such file, and
\* the program starts with the defaults.
LoadBroken ==
    /\ proc = "loading" /\ files[Config] < 0
    /\ Loaded(0, TRUE)
    /\ files' = [files EXCEPT ![Corrupt] = files[Config], ![Config] = Absent]
    /\ kept' = kept \ {files[Corrupt]}
    /\ UNCHANGED <<stable, write, excuses>>

\* The file cannot be moved aside, or cannot be read at all (an OSError that
\* _load_startup_config turns into the defaults): it stays where it is.
LoadFailed ==
    /\ proc = "loading" /\ Exists(Config)
    /\ Loaded(0, FALSE)
    /\ kept' = kept \ {files[Config]}
    /\ UNCHANGED <<files, stable, write, excuses>>

\* fault: the migration is marked as done before it is.
MigrationCheckMarks ==
    /\ proc = "migrating" /\ mig.step = "check"
    /\ LET legacy == ~Exists(MigrationMark) /\ overlays # <<>>
       IN  /\ mig' = CASE Installed -> NoMigration
                       [] ~Installed /\ legacy -> [mig EXCEPT !.step = "overlays", !.i = 1]
                       [] OTHER -> [mig EXCEPT !.step = "install", !.i = 1]
           /\ proc' = IF Installed THEN "up" ELSE proc
           /\ IF ~Installed /\ legacy THEN WriteInPlace(MigrationMark, Pristine)
              ELSE UNCHANGED diskVars
    /\ UNCHANGED <<opVars, op, crashes, history>>
\* run_migration: installed already, v0.2 overlays to migrate, or neither.
MigrationCheck ==
    /\ proc = "migrating" /\ mig.step = "check"
    /\ LET legacy == ~Exists(MigrationMark) /\ overlays # <<>>
       IN  /\ mig' = CASE Installed -> NoMigration
                       [] ~Installed /\ legacy -> [mig EXCEPT !.step = "overlays", !.i = 1]
                       [] OTHER -> [mig EXCEPT !.step = "install", !.i = 1]
           /\ proc' = IF Installed THEN "up" ELSE proc
    /\ UNCHANGED <<diskVars, opVars, op, crashes, history>>

\* The file of overlay i: a stem two overlays share is suffixed, a file that
\* was there before is the user's and is left alone.
OverlayFile(i) ==
    <<overlays[i], CHOOSE n \in 1 .. MaxSuffix :
                     /\ <<overlays[i], n>> \notin mig.written
                     /\ \A m \in 1 .. n - 1 : <<overlays[i], m>> \in mig.written>>

MigrateOverlay ==
    /\ mig.step = "overlays" /\ op = NoOp /\ mig.i <= Len(overlays)
    /\ LET f == OverlayFile(mig.i)
       IN  IF Exists(f)
             THEN /\ mig' = [mig EXCEPT !.i = @ + 1]
                  /\ placed' = placed \cup ({files[f]} \cap {LegacyDoc(mig.i)})
                  /\ UNCHANGED <<write, op>>
             ELSE /\ StartWrite(f, LegacyDoc(mig.i))
                  /\ op' = [kind |-> "overlay", agreed |-> {}, doc |-> LegacyDoc(mig.i)]
                  /\ mig' = [mig EXCEPT !.i = @ + 1, !.written = @ \cup {f}]
                  /\ UNCHANGED placed
    /\ UNCHANGED <<files, stable, orphans, opVars, proc, crashes, kept, gone, excuses>>

MarkMigrated ==
    /\ mig.step = "overlays" /\ op = NoOp /\ mig.i > Len(overlays)
    /\ WriteInPlace(MigrationMark, Pristine) \/ UNCHANGED diskVars
    /\ mig' = [mig EXCEPT !.step = "install", !.i = 1]
    /\ UNCHANGED <<opVars, op, proc, crashes, history>>

\* install_starter_pack: one file after the other, in place, then the marker.
InstallStarter ==
    /\ mig.step = "install" /\ mig.i <= Len(Starters)
    /\ LET f == StarterFile(mig.i)
       IN  IF Exists(f)
             THEN UNCHANGED diskVars
             ELSE WriteInPlace(f, Pristine)
    /\ mig' = [mig EXCEPT !.i = @ + 1]
    /\ UNCHANGED <<opVars, op, proc, crashes, history>>

\* An OSError ends the installation, or leaves it unmarked; launch goes on.
InstallFailed ==
    /\ mig.step = "install"
    /\ mig' = NoMigration /\ proc' = "up"
    /\ excuses' = excuses \cup (IF Exists(StarterMark) THEN {} ELSE {"unmarked"})
    /\ UNCHANGED <<diskVars, opVars, op, crashes, kept, placed, gone>>

InstallDone ==
    /\ mig.step = "install" /\ mig.i > Len(Starters)
    /\ IF Exists(StarterMark) THEN UNCHANGED diskVars ELSE WriteInPlace(StarterMark, Pristine)
    /\ mig' = NoMigration /\ proc' = "up"
    /\ UNCHANGED <<opVars, op, crashes, history>>

----------------------------------------------------------------------------
(* The GUI's own operations.                                               *)

SaveSettings(doc) ==
    /\ StartWrite(Config, doc)
    /\ op' = [kind |-> "config", agreed |-> {base}, doc |-> doc]
    /\ UNCHANGED <<files, stable, orphans, base, saved>>

\* Settings accepted, the waterfall toggled, the welcome dialog or the update
\* banner closed: the settings change in memory, then are saved whole.
ChangeSettings ==
    /\ Ready /\ CanEdit
    /\ now' = NewDoc
    /\ edits' = edits + 1
    /\ SaveSettings(NewDoc)
    /\ UNCHANGED <<gainDue, proc, mig, editors, crashes, history>>

\* A gain slider settles: the save waits for the slider to rest.
CommitGain ==
    /\ Ready /\ CanEdit
    /\ now' = NewDoc /\ gainDue' = TRUE
    /\ edits' = edits + 1
    /\ UNCHANGED <<diskVars, base, saved, proc, mig, op, editors, crashes, history>>

GainTimer ==
    /\ Ready /\ gainDue
    /\ gainDue' = FALSE
    /\ SaveSettings(now)
    /\ UNCHANGED <<now, edits, proc, mig, editors, crashes, history>>

\* An editor opens on a file, or on none, and the operator changes
\* something; base is what the editor read.
OpenEditor(e, f) ==
    /\ Ready /\ CanEdit /\ editors[e] = Closed
    /\ e = 2 => editors[1].open /\ editors[1].file = f
    /\ f # NoFile => files[f] > 0
    /\ editors' = [editors EXCEPT ![e] =
                      [open |-> TRUE, file |-> f, doc |-> NewDoc,
                       base |-> IF f = NoFile THEN Absent ELSE files[f]]]
    /\ edits' = edits + 1
    /\ UNCHANGED <<diskVars, settings, proc, mig, op, crashes, history>>

Edit(e) ==
    /\ Ready /\ CanEdit /\ editors[e].open
    /\ editors' = [editors EXCEPT ![e].doc = NewDoc]
    /\ edits' = edits + 1
    /\ UNCHANGED <<diskVars, settings, proc, mig, op, crashes, history>>

SaveFromEditor(e, f, agreed) ==
    /\ StartWrite(f, editors[e].doc)
    /\ op' = [kind |-> "editor", editor |-> e, agreed |-> agreed, doc |-> editors[e].doc]
    /\ UNCHANGED <<files, stable, orphans, opVars, proc, mig, crashes, history>>

\* Save: onto the editor's own file, or a free one for a new template.
Save(e, stem) ==
    /\ Ready /\ editors[e].open /\ editors[e].doc # editors[e].base
    /\ IF editors[e].file = NoFile
         THEN HasFree(stem) /\ SaveFromEditor(e, FreeFile(stem), {})
         ELSE SaveFromEditor(e, editors[e].file, {editors[e].base})

\* Save As: a taken name is replaced or kept beside, as the operator says.
SaveAs(e, stem, replace) ==
    /\ Ready /\ editors[e].open /\ editors[e].doc # editors[e].base
    /\ IF Exists(<<stem, 1>>) /\ replace
         THEN SaveFromEditor(e, <<stem, 1>>, {files[<<stem, 1>>]})
         ELSE HasFree(stem) /\ SaveFromEditor(e, FreeFile(stem), {})

\* Closing an editor asks about unsaved changes; those given up were never
\* saved.
CloseEditor(e) ==
    /\ Ready /\ editors[e].open
    /\ editors' = [editors EXCEPT ![e] = Closed]
    /\ UNCHANGED <<diskVars, settings, edits, proc, mig, op, crashes, history>>

Duplicate(f) ==
    /\ Ready /\ CanEdit /\ files[f] > 0 /\ HasFree(f[1])
    /\ StartWrite(FreeFile(f[1]), NewDoc)
    /\ op' = [kind |-> "copy", agreed |-> {}, doc |-> NewDoc]
    /\ edits' = edits + 1
    /\ UNCHANGED <<files, stable, orphans, settings, editors, proc, mig, crashes, history>>

\* Rename: save a copy under the new name, then remove the old file.
RenameTarget(f, stem, replace) ==
    IF Exists(<<stem, 1>>) /\ <<stem, 1>> # f /\ ~replace
      THEN FreeFile(stem) ELSE <<stem, 1>>
Rename(f, stem, replace) ==
    /\ Ready /\ CanEdit /\ files[f] > 0 /\ (replace \/ HasFree(stem))
    /\ LET new == RenameTarget(f, stem, replace)
       IN  /\ StartWrite(new, NewDoc)
           /\ op' = [kind |-> "rename", agreed |-> {files[new]}, doc |-> NewDoc,
                     from |-> f, to |-> new]
    /\ edits' = edits + 1
    /\ UNCHANGED <<files, stable, orphans, settings, editors, proc, mig, crashes, history>>

Forgotten(f) == gone \cup {<<f, stable[StarterMark] = Pristine>>}
NotGone(F) == {g \in gone : g[1] \notin F}

Delete(f) ==
    /\ Ready /\ CanEdit /\ Exists(f)
    /\ Unlink(f)
    /\ Sweep(TemplatesDir)
    /\ edits' = edits + 1
    /\ kept' = kept \ {files[f]}
    /\ gone' = Forgotten(f)
    /\ UNCHANGED <<stable, write, settings, editors, proc, mig, op, crashes, placed, excuses>>

\* Settings > Restore default templates.
Restore ==
    /\ Ready /\ CanEdit
    /\ edits' = edits + 1
    /\ proc' = "restoring" /\ mig' = [NoMigration EXCEPT !.step = "install", !.i = 1]
    /\ gone' = NotGone(StarterSet \X {1})
    /\ UNCHANGED <<diskVars, settings, editors, op, crashes, kept, placed, excuses>>

----------------------------------------------------------------------------
(* The write in flight.                                                    *)

Directory == IF write.file \in ConfigDir THEN ConfigDir ELSE TemplatesDir

\* The operator gave up what the write replaces, or a second editor of the
\* same file did it for them.
Commit ==
    /\ Replace
    /\ kept' = kept \ (op.agreed \cup IF op.kind = "editor" THEN {files[write.file]} ELSE {})
    /\ gone' = NotGone({write.file})
    /\ UNCHANGED <<opVars, proc, mig, op, crashes, placed, excuses>>

EditorSaved ==
    IF op.kind = "editor"
      THEN [editors EXCEPT ![op.editor] = [@ EXCEPT !.file = write.file, !.base = op.doc]]
      ELSE editors

\* The save returns.  A rename goes on to remove the old file.
Durable(works) ==
    /\ SyncDirectory(Directory, works)
    /\ kept' = IF works THEN kept \cup {op.doc} ELSE kept
    /\ placed' = IF op.kind = "overlay" THEN placed \cup {op.doc} ELSE placed
    /\ editors' = EditorSaved
    /\ base' = IF op.kind = "config" THEN op.doc ELSE base
    /\ saved' = (op.kind = "config" \/ saved)
    /\ op' = IF op.kind = "rename" /\ op.from # op.to
               THEN [op EXCEPT !.kind = "remove"] ELSE NoOp
    /\ UNCHANGED <<now, gainDue, edits, proc, mig, crashes, gone, excuses>>

RemoveOld ==
    /\ op.kind = "remove"
    /\ \/ /\ Unlink(op.from)
          /\ kept' = kept \ {files[op.from]}
          /\ gone' = Forgotten(op.from)
       \/ UNCHANGED <<files, kept, gone>>
    /\ Sweep(TemplatesDir)
    /\ op' = NoOp
    /\ UNCHANGED <<stable, write, opVars, proc, mig, crashes, placed, excuses>>

\* The disk is full or read-only, or a sweep took the temporary: the
\* operator is told, the old file is as it was.
SaveFailed ==
    /\ WriteFailed
    /\ op' = NoOp
    /\ placed' = IF op.kind = "overlay" THEN placed \cup {op.doc} ELSE placed
    /\ saved' = (op.kind # "config" /\ saved)
    /\ UNCHANGED <<now, gainDue, base, editors, edits, proc, mig, crashes, kept, gone, excuses>>

----------------------------------------------------------------------------
(* The world.                                                              *)

\* A request thread of the remote server lists the templates.
RemoteList ==
    /\ proc \in {"up", "restoring"}
    /\ Stale(TemplatesDir) # {} \/ write # LoseTemp(TemplatesDir)
    /\ Sweep(TemplatesDir) /\ write' = LoseTemp(TemplatesDir)
    /\ UNCHANGED <<files, stable, opVars, proc, mig, op, crashes, history>>

Minute ==
    /\ MinutePasses
    /\ UNCHANGED <<opVars, proc, mig, op, crashes, history>>

CacheWrittenBack ==
    /\ proc = "down"
    /\ WriteBack
    /\ UNCHANGED <<opVars, proc, mig, op, crashes, history>>

\* The operator edits the settings by hand and makes a mistake; the editor
\* syncs what it saves, and with it the earlier renames in that directory.
HandEdit ==
    /\ proc = "down" /\ CanEdit /\ files[Config] > 0
    /\ files' = [files EXCEPT ![Config] = Broken(edits + 1)]
    /\ stable' = [f \in AllFiles |-> IF f \in ConfigDir THEN files'[f] ELSE stable[f]]
    /\ kept' = (kept \ {files[Config]}) \cup {Broken(edits + 1)}
    /\ edits' = edits + 1
    /\ UNCHANGED <<orphans, write, settings, editors, proc, mig, op, crashes,
                   placed, gone, excuses>>

Stopped ==
    /\ proc' = "down" /\ mig' = NoMigration
    /\ now' = 0 /\ base' = 0 /\ gainDue' = FALSE /\ saved' = TRUE /\ op' = NoOp
    /\ editors' = [e \in 1 .. 2 |-> Closed]
    /\ excuses' = excuses
          \cup (IF mig.step = "overlays" THEN {"interrupted"} ELSE {})
          \cup (IF mig.step # "idle" \/ files'[StarterMark] # files[StarterMark]
                  THEN {"unmarked"} ELSE {})
    /\ UNCHANGED <<edits, kept, placed>>

\* closeEvent: a gain that waits for its save is saved first.
Quit ==
    /\ Ready
    /\ proc' = "closing" /\ gainDue' = FALSE
    /\ IF gainDue THEN SaveSettings(now)
              ELSE UNCHANGED <<diskVars, op, base, saved>>
    /\ UNCHANGED <<now, mig, editors, edits, crashes, history>>

Exit ==
    /\ proc = "closing" /\ op = NoOp
    /\ stable' = files           \* bound: it is written back before a relaunch
    /\ UNCHANGED <<files, orphans, write, crashes, gone>>
    /\ Stopped

Kill ==
    /\ proc # "down" /\ crashes < MaxCrashes
    /\ DiskKill /\ Stopped
    /\ crashes' = crashes + 1
    /\ UNCHANGED gone

\* A rename is one entry of the disk's journal: the moved settings file is
\* never lost under both names.
PowerLoss ==
    /\ proc # "down" /\ crashes < MaxCrashes
    /\ \E lost \in {{}, Unsynced} \cup {{f} : f \in Unsynced} :
          /\ Corrupt \in lost => Config \in lost
          /\ DiskPowerLoss(lost)
    /\ Stopped
    /\ crashes' = crashes + 1
    /\ gone' = {g \in gone : files'[g[1]] = Absent}

----------------------------------------------------------------------------
Startup == Launch \/ LoadGood \/ LoadBroken \/ LoadFailed
Installation == MigrationCheck \/ MigrateOverlay \/ MarkMigrated
    \/ InstallStarter \/ InstallFailed \/ InstallDone
Typed == {"mine", Starters[1]}       \* bound: the names the operator types
Chosen == {f \in Templates : f[1] \in Typed}
EditorStep(e) ==
    \/ \E f \in Chosen \cup {NoFile} : OpenEditor(e, f)
    \/ Edit(e) \/ Save(e, "mine") \/ CloseEditor(e)
    \/ \E stem \in Typed, replace \in BOOLEAN : SaveAs(e, stem, replace)
GalleryStep ==
    \E f \in Chosen :
        \/ Duplicate(f)
        \/ \E stem \in Typed, replace \in BOOLEAN :
              Rename(f, stem, replace)
WriteStep == Commit \/ Durable(TRUE) \/ Durable(FALSE) \/ RemoveOld \/ SaveFailed
World == RemoteList \/ Minute \/ CacheWrittenBack \/ HandEdit \/ Quit \/ Exit \/ Kill \/ PowerLoss

FilesNext ==
    /\ \/ Startup \/ Installation
       \/ ChangeSettings \/ CommitGain \/ GainTimer \/ Restore \/ GalleryStep \/ (\E f \in Templates : Delete(f))
       \/ \E e \in 1 .. 2 : EditorStep(e)
       \/ WriteStep \/ World
    /\ UNCHANGED origin

FilesSpec == FilesInit /\ [][FilesNext]_filesVars

----------------------------------------------------------------------------
(* Properties.                                                             *)

\* Whatever the operator saved and has not replaced, deleted or overwritten
\* is on the disk, whole, through kills and power losses at any point: the
\* settings, a template, a broken settings file moved aside.  Two cases lose
\* it: a settings file that could not be read is saved over, and an editor's
\* save replaces what another editor put in its file.
SavedStays == \A doc \in kept : \E f \in AllFiles : files[f] = doc

\* A program that quits leaves its settings on the disk as it had them, the
\* gain moved a moment ago included, unless the last save was refused.
SettingsReachDisk ==
    (proc = "closing" /\ op = NoOp /\ saved) => files[Config] = now

\* What the operator saved, and what the program itself saves for him, is on
\* the disk.
OnDisk == SavedStays /\ SettingsReachDisk

\* A v0.2 overlay is migrated however often the program dies while doing it,
\* unless its write failed, a template of the user already had its name, or
\* there was a starter at the first launch (an installation, to the code).
\* An interrupted migration makes no promise for overlays that share a stem,
\* nor when one of them has the name of a starter.
LegacyMigrated ==
    proc = "up"
        => \A i \in DOMAIN overlays :
              \/ LegacyDoc(i) \in placed
              \/ start[<<overlays[i], 1>>] # Absent
              \/ \E s \in StarterSet : start[<<s, 1>>] # Absent
              \/ /\ "interrupted" \in excuses
                 /\ \/ \E j \in DOMAIN Legacy \ {i} : Legacy[j] = Legacy[i]
                    \/ LegacySet \cap StarterSet # {}

\* A template deleted once the starter pack was marked as installed is never
\* brought back by a later launch, only by Restore or a save of its name.
DeletedStaysDeleted == \A g \in gone : g[2] => files[g[1]] = Absent

\* A launch loses no template and brings none back.
LaunchesKeepTemplates == LegacyMigrated /\ DeletedStaysDeleted

\* What the comments of manager.py promise to those who installed before the
\* marker existed: the marker is back-filled, so a deletion of every starter
\* is respected as well.
CurationRespected ==
    "unmarked" \notin excuses => \A g \in gone : files[g[1]] = Absent
=============================================================================
