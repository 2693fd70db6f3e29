----------------------------- MODULE QsoCapture -----------------------------
(***************************************************************************)
(* How a completed transmission or reception becomes a row of the log:     *)
(* the slots of ui/main_window.py (_on_tx_complete, _on_rx_image_complete, *)
(* _capture_qso, the capture dialog, _autosave_image), over the log of     *)
(* module Logbook.                                                         *)
(*                                                                         *)
(* Signals of the transmit and receive workers reach the GUI thread in one *)
(* queue, `wire`.  A slot runs alone, except that the first failed save in *)
(* a streak opens a message box: its event loop delivers further signals   *)
(* while the slot waits.  So `calls` is a stack of slots; only the top one *)
(* moves, and a signal is taken when it waits in a message box.            *)
(***************************************************************************)
EXTENDS Logbook

CONSTANTS
    Options,     \* settings: [autoTx, autoRx, audio, autoLog, prompt]
    StripSize    \* _MAX_IMAGES of the receive strip

VARIABLES
    opt,       \* the settings, the same throughout
    engaged,   \* ToCall is filled in
    made,      \* transmissions and receptions begun
    air,       \* the image on the air, 0 for none
    wire,      \* signals on their way to the GUI thread
    calls,     \* the GUI thread's stack of slots
    stash,     \* _last_tx_image
    sound,     \* _pending_rx_audio
    dialog,    \* the capture dialog's context, or NoForm
    failing,   \* _autosave_failing
    strip,     \* decoded images kept in the receive strip
    closing,
    \* history
    key,       \* reception -> its mode and VIS code; 0 for a transmission
    sent,      \* transmissions played to the end
    due,       \* completions the log is owed
    logged,    \* completions inserted, though perhaps deleted since
    waived,    \* of these, dismissed, refused by the store, or met by closing
    unsaved,   \* images whose save failed
    clobbered  \* completions that waited in a message box for the next image

capVars == <<opt, engaged, made, air, wire, calls, stash, sound, dialog, failing,
             strip, closing>>
capHistory == <<key, sent, due, logged, waived, unsaved, clobbered>>
vars == <<logVars, capVars, capHistory>>

Init ==
    /\ LogbookInit
    /\ opt \in Options /\ engaged = FALSE
    /\ made = 0 /\ air = 0 /\ wire = <<>> /\ calls = <<>>
    /\ stash = 0 /\ sound = [of |-> 0, key |-> 0]
    /\ dialog = NoForm /\ failing = FALSE /\ strip = {} /\ closing = FALSE
    /\ key = [i \in Images |-> 0] /\ sent = {} /\ due = {} /\ waived = {}
    /\ logged = {} /\ unsaved = {} /\ clobbered = {}

Idle == calls = <<>>
Hears == ~Idle => Head(calls).step = "warned"    \* an event loop turns

----------------------------------------------------------------------------
(* The workers.                                                            *)

TxSignals == {k \in DOMAIN wire : wire[k].kind \in {"prepared", "sent", "aborted"}}
Post(signals) == wire' = wire \o signals
Signal(kind, i) == [kind |-> kind, of |-> i]

\* A transmission starts once the GUI thread has seen the end of the one
\* before.  The operator cannot press Send under a message box; a remote
\* client can.
Transmit ==
    /\ Hears /\ air = 0 /\ TxSignals = {} /\ made < Cardinality(Images) /\ ~closing
    /\ air' = made + 1 /\ made' = air' /\ Spend(2)
    /\ Post(<<Signal("prepared", air')>>)
    /\ UNCHANGED <<logOnly, opt, engaged, calls, stash, sound, dialog, failing, strip,
                   closing, capHistory>>

EndTransmit ==
    /\ air # 0 /\ air' = 0
    /\ \E kind \in {"sent", "aborted"} :
         /\ Post(<<Signal(kind, air)>>)
         /\ sent' = IF kind = "sent" THEN sent \cup {air} ELSE sent
    /\ UNCHANGED <<logVars, opt, engaged, made, calls, stash, sound, dialog, failing,
                   strip, closing, key, due, waived, unsaved, clobbered, logged>>

\* A whole live image comes with its recording, a partial one without, an
\* offline one from another thread.
Receive ==
    /\ made < Cardinality(Images) /\ made' = made + 1
    /\ Spend(2)
    /\ \E signals \in {<<"audio", "image">>, <<"image">>, <<"offline">>} :
       \E k \in IF signals = <<"offline">> THEN 1 .. 2 ELSE {1} :
         /\ Post([n \in DOMAIN signals |-> Signal(signals[n], made')])
         /\ key' = [key EXCEPT ![made'] = k]
    /\ UNCHANGED <<logOnly, opt, engaged, air, calls, stash, sound, dialog, failing,
                   strip, closing, sent, due, waived, unsaved, clobbered, logged>>

----------------------------------------------------------------------------
(* Signals.                                                                *)

Take(kinds) ==
    /\ Hears /\ wire # <<>> /\ Head(wire).kind \in kinds
    /\ wire' = Tail(wire)
Call(task) == calls' = <<task>> \o calls
Waiting(kind) == {calls[n].pic : n \in {m \in DOMAIN calls : calls[m].kind = kind}}

OnPrepared ==
    /\ Take({"prepared"})
    /\ stash' = Head(wire).of
    /\ clobbered' = clobbered \cup Waiting("tx")
                    \cup (IF Waiting("tx") = {} THEN {} ELSE {stash'})
    /\ UNCHANGED <<logVars, opt, engaged, made, air, calls, sound, dialog, failing,
                   strip, closing, key, sent, due, waived, unsaved, logged>>

OnAborted ==
    /\ Take({"aborted"})
    /\ stash' = 0
    /\ clobbered' = clobbered \cup Waiting("tx")
    /\ UNCHANGED <<logVars, opt, engaged, made, air, calls, sound, dialog, failing,
                   strip, closing, key, sent, due, waived, unsaved, logged>>

Task(kind, pic, save) ==
    [kind |-> kind, pic |-> pic, path |-> 0, audio |-> 0, call |-> FALSE,
     step |-> IF save THEN "save" ELSE "draft", then |-> "draft"]

OnTxComplete ==
    /\ Take({"sent"})
    /\ Call(Task("tx", Head(wire).of, opt.autoTx /\ stash # 0))
    /\ due' = due \cup {Head(wire).of}
    /\ UNCHANGED <<logVars, opt, engaged, made, air, stash, sound, dialog, failing,
                   strip, closing, key, sent, waived, unsaved, clobbered, logged>>

OnAudio ==
    /\ Take({"audio"})
    /\ sound' = [of |-> Head(wire).of, key |-> key[Head(wire).of]]
    /\ UNCHANGED <<logVars, opt, engaged, made, air, calls, stash, dialog, failing,
                   strip, closing, capHistory>>

\* fault: an offline decode takes the recording too.
TakeAnySound(i, live) == IF sound.key = key[i] THEN sound.of ELSE 0
\* Only a live completion takes the pending recording, and only when its mode
\* and VIS code are the same.
TakeSound(i, live) == IF live /\ sound.key = key[i] THEN sound.of ELSE 0

\* _save_rx_audio: the recording goes beside the image, or cannot be written.
Recording(i, live) == {0} \cup (IF opt.audio THEN {TakeSound(i, live)} ELSE {})

\* The strip keeps the newest images.
Keep(i) == {j \in strip \cup {i} : Cardinality({k \in strip \cup {i} : k > j}) < StripSize}

OnImage ==
    /\ Take({"image", "offline"})
    /\ LET i == Head(wire).of
           live == Head(wire).kind = "image"
       IN  /\ \E r \in Recording(i, live) : Call([Task("rx", i, opt.autoRx) EXCEPT !.audio = r])
           /\ sound' = IF live THEN [of |-> 0, key |-> 0] ELSE sound
           /\ strip' = Keep(i)
    /\ UNCHANGED <<logVars, opt, engaged, made, air, stash, dialog, failing, closing,
                   capHistory>>

----------------------------------------------------------------------------
(* A slot moves on.                                                        *)

Top == Head(calls)
Go(step) == calls' = [calls EXCEPT ![1].step = step]
Return == calls' = Tail(calls)

\* A transmission's slot reads the stash again after each wait.
Picture == IF Top.kind = "tx" THEN stash ELSE Top.pic

\* _autosave_image.
SaveImage ==
    /\ ~Idle /\ Top.step = "save"
    /\ \/ /\ pics' = pics \cup {Picture} /\ failing' = FALSE
          /\ calls' = [calls EXCEPT ![1].step = Top.then, ![1].path = Picture]
          /\ UNCHANGED unsaved
       \/ /\ failing' = TRUE
          /\ unsaved' = unsaved \cup {Picture}
          /\ Go(IF failing THEN Top.then ELSE "warned")
          /\ UNCHANGED pics
    /\ UNCHANGED <<rows, lastId, table, grid, form, adif, work, wanted, import, binned, dangling,
                   opt, engaged, made, air, wire, stash, sound, dialog, strip, closing,
                   key, sent, due, waived, clobbered, logged>>

DismissWarning ==
    /\ ~Idle /\ Top.step = "warned"
    /\ Go(Top.then)
    /\ UNCHANGED <<logVars, opt, engaged, made, air, wire, stash, sound, dialog, failing,
                   strip, closing, capHistory>>

Logs == opt.autoLog \/ opt.prompt = "always" \/ (opt.prompt = "in_qso" /\ engaged)

\* _capture_qso, silent: an image not yet on disk is saved first.
Silently(pic, path) == IF path = 0 /\ pic # 0 THEN "save" ELSE "insert"

\* fault: whatever arrives while the dialog is open is dropped.
OnlyWhenFree(mine) == opt.autoLog
\* auto_log, or the dialog is open and the completion is the operator's own.
SilentWhen(mine) == opt.autoLog \/ (dialog # NoForm /\ mine)

\* The draft: nothing while closing; silently, in the dialog, or, for
\* somebody else's traffic under an open dialog, not at all.
DraftQso ==
    /\ ~Idle /\ Top.step = "draft"
    /\ LET mine == Top.kind = "tx" \/ engaged
           wants == ~closing /\ IF Top.kind = "tx" THEN stash # 0 ELSE Logs
           task == [Top EXCEPT !.pic = Picture, !.then = "insert",
                               !.call = Top.kind = "tx" /\ engaged]
       IN  /\ IF wants /\ SilentWhen(mine)
                THEN /\ calls' = [calls EXCEPT ![1] =
                                    [task EXCEPT !.step = Silently(task.pic, task.path)]]
                     /\ UNCHANGED dialog
                ELSE /\ Return
                     /\ dialog' = IF wants /\ dialog = NoForm THEN task ELSE dialog
           /\ stash' = IF Top.kind = "tx" /\ ~(wants /\ SilentWhen(mine)) THEN 0 ELSE stash
           /\ due' = IF Top.kind = "rx" /\ wants /\ (opt.autoLog \/ mine)
                       THEN due \cup {Top.pic} ELSE due
           /\ waived' = IF closing THEN waived \cup {Top.pic} ELSE waived
    /\ UNCHANGED <<logVars, opt, engaged, made, air, wire, sound, failing, strip, closing,
                   key, sent, unsaved, clobbered, logged>>

\* save_draft; a store that fails is reported, nothing more.
InsertQso ==
    /\ ~Idle /\ Top.step = "insert"
    /\ \/ /\ CanInsert
          /\ Insert(Draft(Top.pic, Top.call, Top.path, Top.audio))
          /\ Refresh /\ logged' = logged \cup {Top.pic} /\ UNCHANGED waived
       \/ /\ waived' = waived \cup {Top.pic}
          /\ UNCHANGED <<rows, lastId, table, logged>>
    /\ Return
    /\ stash' = IF Top.kind = "tx" THEN 0 ELSE stash
    /\ UNCHANGED <<grid, form, pics, adif, work, wanted, import, binned, dangling, opt, engaged,
                   made, air, wire, sound, dialog, failing, strip, closing, key, sent,
                   due, unsaved, clobbered>>

----------------------------------------------------------------------------
(* The operator, who reaches no window under a message box.                *)

AcceptDialog ==
    /\ Idle /\ dialog # NoForm /\ ~closing
    /\ Call([dialog EXCEPT !.kind = "form", !.call = TRUE,
                           !.step = Silently(dialog.pic, dialog.path)])
    /\ dialog' = NoForm
    /\ UNCHANGED <<logVars, opt, engaged, made, air, wire, stash, sound, failing, strip,
                   closing, capHistory>>

DismissDialog ==
    /\ Idle /\ dialog # NoForm
    /\ dialog' = NoForm /\ waived' = waived \cup {dialog.pic}
    /\ UNCHANGED <<logVars, opt, engaged, made, air, wire, calls, stash, sound, failing,
                   strip, closing, key, sent, due, unsaved, clobbered, logged>>

\* Log QSO in the receive strip (bound: an image not logged or saved yet;
\* another save would be another file).
LogFromStrip ==
    /\ Idle /\ dialog = NoForm /\ form = NoForm /\ ~closing
    /\ \E i \in strip \ (logged \cup pics) : dialog' = [Task("rx", i, FALSE) EXCEPT !.then = "insert"]
    /\ UNCHANGED <<logVars, opt, engaged, made, air, wire, calls, stash, sound, failing,
                   strip, closing, capHistory>>

TypeToCall ==
    /\ Idle /\ form = NoForm /\ dialog = NoForm
    /\ engaged' = ~engaged
    /\ UNCHANGED <<logVars, opt, made, air, wire, calls, stash, sound, dialog, failing,
                   strip, closing, capHistory>>

\* closeEvent: what the queue still holds is delivered during the drain.
Close ==
    /\ Idle /\ ~closing /\ form = NoForm
    /\ closing' = TRUE
    /\ waived' = IF dialog = NoForm THEN waived ELSE waived \cup {dialog.pic}
    /\ dialog' = NoForm
    /\ UNCHANGED <<logVars, opt, engaged, made, air, wire, calls, stash, sound, failing,
                   strip, key, sent, due, unsaved, clobbered, logged>>

AtLogbook == Idle /\ ~closing /\ LogbookNext /\ UNCHANGED <<capVars, capHistory>>

Next ==
    \/ Transmit \/ EndTransmit \/ Receive
    \/ OnPrepared \/ OnAborted \/ OnTxComplete \/ OnAudio \/ OnImage
    \/ SaveImage \/ DismissWarning \/ DraftQso \/ InsertQso
    \/ AcceptDialog \/ DismissDialog \/ LogFromStrip \/ TypeToCall \/ Close
    \/ AtLogbook

Spec == Init /\ [][Next]_vars

----------------------------------------------------------------------------
(* Properties.                                                             *)

InHand == Waiting("tx") \cup Waiting("rx") \cup Waiting("form")
          \cup (IF dialog = NoForm THEN {} ELSE {dialog.pic})

\* Nothing of the operator's own QSO is lost: each transmission played to its
\* end, and each reception of theirs that is to be logged, is in the log, in
\* the dialog or on its way, unless it was dismissed, refused by the store, or
\* met by closing (or, `clobbered`, waited in a message box while the next
\* transmission replaced it, see ContactsKeptAlways).
Kept(i) == i \in logged \cup InHand \cup waived
ContactsKept == \A i \in due \ clobbered : Kept(i)
ContactsKeptAlways == \A i \in due : Kept(i)

\* A row's files are those of its own completion, and the picture is there
\* unless it could not be saved or was deleted in the Gallery.
OwnFiles ==
    \A i \in Live(rows) :
        LET r == rows[i] IN
        r.of # 0 =>
            /\ r.audio \in {0, r.of}
            /\ r.img \in {0, r.of}
            /\ r.img = 0 => r.of \in unsaved \cup binned

\* A completion ends in a row of its own, with its own picture and recording.
CompletionsFiled == ContactsKept /\ OwnFiles
=============================================================================
