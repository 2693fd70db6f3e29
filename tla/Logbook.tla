------------------------------- MODULE Logbook -------------------------------
(***************************************************************************)
(* The log of contacts: the SQLite store (logbook/store.py), the import    *)
(* and export of ADIF files (logbook/adif.py, logbook/coordinator.py), the *)
(* Logbook window with its form (ui/logbook_dialog.py, ui/log_qso_dialog.  *)
(* py) and the Gallery joined to it (ui/gallery_dialog.py, gallery/).      *)
(*                                                                         *)
(* Each window shows a copy of what it read last: the table the rows, the  *)
(* grid the image files with the row that links each.  The store changes   *)
(* under both.  Everything runs on the GUI thread; a statement of SQLite   *)
(* is one step.                                                            *)
(*                                                                         *)
(* A row is reduced to what the properties tell apart: whether it has a    *)
(* callsign, its time (`at`), its mode, the free text the operator typed   *)
(* last (a number, larger is later), the image and the recording it links, *)
(* and the transmission or reception it was made for (`of`, 0 for none).   *)
(***************************************************************************)
EXTENDS Integers, Sequences, FiniteSets

CONSTANTS
    Images,      \* transmissions and receptions, numbered from 1
    MaxRows,     \* bound: rows ever inserted
    MaxWork,     \* bound: operations of the operator, completions twice
    Foreign      \* ADIF files of other programs, sequences of records

ASSUME LogAssumption ==
    /\ IsFiniteSet(Images) /\ Images = 1 .. Cardinality(Images)
    /\ {MaxRows, MaxWork} \subseteq Nat
    /\ \A file \in Foreign : /\ Len(file) \in Nat /\ DOMAIN file = 1 .. Len(file)
                             /\ \A k \in DOMAIN file : file[k].id = 0

VARIABLES
    rows,      \* id -> row, or NoRow
    lastId,    \* AUTOINCREMENT: an id is never used again
    table,     \* the rows the Logbook window shows
    grid,      \* what the Gallery shows: image -> a copy of the row that links it
    form,      \* the New or Edit form, which blocks both windows
    pics,      \* image files in the save directory
    adif,      \* the file exported last: row id -> its record
    work,      \* of these, done so far
    \* history
    wanted,    \* id -> the text the operator saved last
    import,    \* what the last import found and did
    binned,    \* images deleted in the Gallery
    dangling   \* links left behind in a way the code does not prevent

logOnly == <<rows, lastId, table, grid, form, pics, adif, wanted, import, binned,
             dangling>>
logVars == <<logOnly, work>>

Ids == 1 .. MaxRows
NoRow == [row |-> FALSE]
NoForm == [open |-> FALSE]
NoImport == [added |-> 0, missing |-> 0, echoes |-> 0]
Live(log) == {i \in Ids : log[i] # NoRow}
CanInsert == lastId < MaxRows       \* bound

Draft(of, call, img, audio) ==
    [row |-> TRUE, call |-> call, at |-> lastId + 1, mode |-> "Martin M1",
     text |-> 0, img |-> img, audio |-> audio, of |-> of]

LogbookInit ==
    /\ rows = [i \in Ids |-> NoRow] /\ lastId = 0
    /\ table = rows /\ grid = <<>> /\ form = NoForm
    /\ pics = {} /\ adif = <<>> /\ work = 0
    /\ wanted = [i \in Ids |-> 0] /\ import = NoImport
    /\ binned = {} /\ dangling = {}

----------------------------------------------------------------------------
(* The store.                                                              *)

Insert(qso) ==
    /\ rows' = [rows EXCEPT ![lastId + 1] = qso]
    /\ lastId' = lastId + 1

\* update writes every column of the row.
Update(id, qso) == rows' = [rows EXCEPT ![id] = qso]

\* fault: the Gallery writes its whole copy of the row back.
ClearFromCopy(log, entry) ==
    IF log[entry.id] = NoRow THEN log
    ELSE [log EXCEPT ![entry.id].img = 0, ![entry.id].text = entry.text]
\* clear_image_path touches one column and ignores a row that is gone.
Cleared(log, entry) ==
    IF log[entry.id] = NoRow THEN log ELSE [log EXCEPT ![entry.id].img = 0]

Refresh == table' = rows'           \* LogbookDialog.refresh

\* build_qso_index and enrich: of two rows that link an image, the later.
LinkOf(log, img) ==
    LET linked == {i \in Live(log) : log[i].img = img}
    IN  IF linked = {} THEN 0 ELSE CHOOSE i \in linked : \A j \in linked : j <= i
Scan(files, log) ==
    [img \in files |-> LET i == LinkOf(log, img)
                       IN  [id |-> i, text |-> IF i = 0 THEN 0 ELSE log[i].text]]

----------------------------------------------------------------------------
(* The Logbook window.  The form is a modal dialog: while it is open the   *)
(* operator reaches neither window, but completions still insert rows.     *)

AtWindows == form = NoForm
Spend(n) == work' = work + n /\ work' <= MaxWork       \* bound

ShowLogbook ==                       \* Tools > Logbook, a filter, the -> QSO button
    /\ AtWindows /\ Spend(1) /\ table # rows
    /\ table' = rows
    /\ UNCHANGED <<rows, lastId, grid, form, pics, adif, wanted, import, binned, dangling>>

OpenForm(f) ==
    /\ AtWindows /\ Spend(1)
    /\ form' = f
    /\ UNCHANGED <<rows, lastId, table, grid, pics, adif, wanted, import, binned, dangling>>

\* New: the facts are the operator's to fill in, the mode may stay blank.
OpenNew ==
    /\ CanInsert
    /\ \E mode \in {"Martin M1", ""} :
         OpenForm([open |-> TRUE, id |-> 0, qso |-> [Draft(0, TRUE, 0, 0) EXCEPT !.mode = mode]])

\* Edit: a copy of the row as the table shows it.
OpenEdit == \E i \in Live(table) : OpenForm([open |-> TRUE, id |-> i, qso |-> table[i]])

Entered == [form.qso EXCEPT !.text = work, !.call = TRUE]

\* accept saves before it closes.  A failed save, or an update of a row that
\* is gone, leaves the form open with what was typed.
FormSaved ==
    /\ form.open
    /\ \/ form.id = 0 /\ CanInsert /\ Insert([Entered EXCEPT !.at = lastId + 1])
       \/ form.id # 0 /\ rows[form.id] # NoRow /\ Update(form.id, Entered) /\ UNCHANGED lastId
    /\ wanted' = [wanted EXCEPT ![IF form.id = 0 THEN lastId' ELSE form.id] = work]
    /\ dangling' = IF form.id # 0 /\ form.qso.img # rows[form.id].img
                     THEN dangling \cup {form.qso.img} ELSE dangling
    /\ form' = NoForm
    /\ Refresh
    /\ UNCHANGED <<grid, pics, adif, work, import, binned>>

FormCancelled ==
    /\ form.open /\ form' = NoForm
    /\ UNCHANGED <<rows, lastId, table, grid, pics, adif, work, wanted, import, binned, dangling>>

\* Delete keeps the files.  The row may be gone: refresh either way.
DeleteRow ==
    /\ AtWindows /\ Spend(1)
    /\ \E i \in Live(table) :
         /\ rows' = [rows EXCEPT ![i] = NoRow]
         /\ wanted' = [wanted EXCEPT ![i] = 0]
    /\ Refresh
    /\ UNCHANGED <<lastId, grid, form, pics, adif, import, binned, dangling>>

----------------------------------------------------------------------------
(* ADIF.  A record has no image and no recording.  It names its mode by    *)
(* MODE and SUBMODE; names are compared without blanks and dashes, which   *)
(* here are one name.                                                      *)

KeyOf(qso) == <<qso.at, qso.mode>>

\* The names that occur, by what adif.py knows of them.
SstvModes == {"Martin M1"}
AdifModes == {"SSTV", "MFSK", "PSK"}
Parents == {<<"FT4", "MFSK">>}                \* _SUBMODE_PARENT

\* adif_mode_fields.  A blank mode, and a name nobody knows, are SSTV.
ModeFields(mode) ==
    LET under == {p \in Parents : p[1] = mode} IN
    IF mode \in {"", "SSTV"} THEN <<"SSTV", "">>
    ELSE IF mode \notin SstvModes /\ under # {} THEN <<(CHOOSE p \in under : TRUE)[2], mode>>
    ELSE IF mode \notin SstvModes /\ mode \in AdifModes THEN <<mode, "">>
    ELSE <<"SSTV", mode>>

\* _build_qso keeps one name: the submode, unless export could not find the
\* way back from it.
ModeRead(r) ==
    IF r.submode = "" THEN r.mode
    ELSE IF /\ r.mode \in AdifModes \ {"SSTV"}
            /\ \A p \in Parents : p[1] # r.submode
         THEN r.mode ELSE r.submode

Record(i, qso) ==
    [id |-> i, key |-> KeyOf(qso), call |-> qso.call, at |-> qso.at, text |-> qso.text,
     mode |-> ModeFields(qso.mode)[1], submode |-> ModeFields(qso.mode)[2]]
Parsed(r) ==
    [row |-> TRUE, call |-> TRUE, at |-> r.at, mode |-> ModeRead(r), text |-> r.text,
     img |-> 0, audio |-> 0, of |-> 0]

\* The document: a record for each row, in their order; a row without a
\* callsign is a draft and left out.
Exported(log) == [i \in {j \in Live(log) : log[j].call} |-> Record(i, log[i])]
\* What import_adif can use of one: a record that lacks a callsign or a time
\* costs only itself.
Readable(file) == {k \in DOMAIN file : file[k].call}

\* Export writes the rows the table shows.
ExportAdif ==
    /\ AtWindows /\ Spend(1)
    /\ adif' = Exported(table)
    /\ adif' # adif
    /\ UNCHANGED <<rows, lastId, table, grid, form, pics, wanted, import, binned, dangling>>

StoredKeys == {KeyOf(rows[i]) : i \in {j \in Live(rows) : rows[j].call}}

\* fault: a contact twice in the file is not noticed.
SkipStored(file) == {k \in Readable(file) : KeyOf(Parsed(file[k])) \notin StoredKeys}
\* import_qsos: a contact already stored, or met earlier in the file, is
\* skipped.
Fresh(file) ==
    {k \in Readable(file) :
        /\ KeyOf(Parsed(file[k])) \notin StoredKeys
        /\ \A j \in Readable(file) : j < k => KeyOf(Parsed(file[j])) # KeyOf(Parsed(file[k]))}

Nth(n, picked) == CHOOSE k \in picked : Cardinality({j \in picked : j <= k}) = n
InsertMany(file, new) ==
    /\ rows' = [i \in Ids |-> IF i - lastId \in 1 .. Cardinality(new)
                                THEN Parsed(file[Nth(i - lastId, new)]) ELSE rows[i]]
    /\ lastId' = lastId + Cardinality(new)

\* insert_many commits every record or, when one cannot be written, rolls
\* the whole batch back; the window is left as it was then.
ImportAdif ==
    /\ AtWindows /\ Spend(1)
    /\ \E file \in {adif} \cup Foreign : \E fails \in BOOLEAN :
         LET new == Fresh(file)
             unchanged(r) == r.id # 0 /\ rows[r.id] # NoRow /\ KeyOf(rows[r.id]) = r.key
         IN  /\ Readable(file) # {} /\ lastId + Cardinality(new) <= MaxRows
             /\ IF fails THEN new # {} /\ UNCHANGED <<rows, lastId, table>>
                ELSE InsertMany(file, new) /\ Refresh
             /\ import' = [added |-> lastId' - lastId,
                           missing |-> Cardinality({KeyOf(Parsed(file[k])) : k \in Readable(file)}
                                                   \ StoredKeys),
                           echoes |-> IF fails THEN 0
                                      ELSE Cardinality({k \in new : unchanged(file[k])
                                                          /\ file[k].key[2] # ""})]
             /\ wanted' = [i \in Ids |-> IF i \in lastId + 1 .. lastId'
                                           THEN rows'[i].text ELSE wanted[i]]
    /\ UNCHANGED <<grid, form, pics, adif, binned, dangling>>

----------------------------------------------------------------------------
(* The Gallery.                                                            *)

ShowGallery ==                       \* Refresh, Show in Gallery, the first opening
    /\ AtWindows /\ Spend(1) /\ grid # Scan(pics, rows)
    /\ grid' = Scan(pics, rows)
    /\ UNCHANGED <<rows, lastId, table, form, pics, adif, wanted, import, binned, dangling>>

\* Delete: the file goes, the row the grid knows to link it loses its link
\* (unless the store fails: that is logged only), the grid is read again.
\* The Logbook window is not.
DeleteImage ==
    /\ AtWindows /\ Spend(1)
    /\ \E img \in DOMAIN grid : \E fails \in BOOLEAN :
         /\ pics' = pics \ {img} /\ binned' = binned \cup {img}
         /\ rows' = IF fails \/ grid[img].id = 0 THEN rows ELSE Cleared(rows, grid[img])
         /\ dangling' = IF fails \/ grid[img].id = 0 THEN dangling \cup {img} ELSE dangling
    /\ grid' = Scan(pics', rows')
    /\ UNCHANGED <<lastId, table, form, adif, wanted, import>>

LogbookNext ==
    \/ ShowLogbook \/ OpenNew \/ OpenEdit \/ FormSaved \/ FormCancelled \/ DeleteRow
    \/ ExportAdif \/ ImportAdif \/ ShowGallery \/ DeleteImage

----------------------------------------------------------------------------
(* Properties.                                                             *)

\* What the operator saved in a form stays until they save the row again:
\* nothing that writes from a copy (a form, the Gallery) puts older text back.
EditsStay == \A i \in Live(rows) : rows[i].text = wanted[i]

\* An import adds every contact of the file the log does not have, each once,
\* or, when it fails, nothing at all; and the file the program exported itself
\* adds nothing for a row that is still as it was (a blank mode excepted: it
\* comes back as SSTV).
ImportsExactly ==
    /\ import.added \in {0, import.missing}
    /\ import.echoes = 0

\* A row does not link an image file that is gone, but for the three ways the
\* code leaves open: the file was deleted while the grid showed it unlogged,
\* the store failed after the deletion, or a form opened on a table read
\* before the deletion wrote the link back.
LinksLive == \A i \in Live(rows) : rows[i].img \in {0} \cup pics \cup dangling

\* The rows hold what was put there last, by the Logbook or by the Gallery.
RowsStay == EditsStay /\ LinksLive
=============================================================================
