----------------------------- MODULE MCRecording -----------------------------
(***************************************************************************)
(* Small instances of Recording for TLC.                                   *)
(***************************************************************************)
EXTENDS Recording

TwoDays == {<<1>>, <<1, 2>>}
AnyOrder == {<<1>>, <<1, 2>>, <<2, 1>>}

Writes == {"record", "count"}
WriteAndSwitch == {"record", "switch"}
=============================================================================
