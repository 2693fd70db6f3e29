---------------------------- MODULE MCQsoCapture ----------------------------
(* Settings and a foreign ADIF file for TLC.                               *)
EXTENDS QsoCapture

MCOptions ==
    {[autoTx |-> TRUE, autoRx |-> TRUE, audio |-> TRUE, autoLog |-> FALSE, prompt |-> "in_qso"],
     [autoTx |-> FALSE, autoRx |-> FALSE, audio |-> TRUE, autoLog |-> FALSE, prompt |-> "always"],
     [autoTx |-> FALSE, autoRx |-> FALSE, audio |-> FALSE, autoLog |-> TRUE, prompt |-> "never"]}
Contact(t, mode, submode) ==
    [id |-> 0, key |-> <<t, submode>>, call |-> TRUE, at |-> t, text |-> 0,
     mode |-> mode, submode |-> submode]
\* One file has a contact twice and a record without a callsign, the other
\* contacts of other modes.
MCForeign ==
    {<<Contact(90, "SSTV", "Martin M1"), [Contact(91, "SSTV", "") EXCEPT !.call = FALSE],
       Contact(90, "SSTV", "Martin M1")>>,
     <<Contact(92, "MFSK", "FT4"), Contact(92, "PSK", "PSK9999X")>>}
=============================================================================
