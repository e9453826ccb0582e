------------------------- MODULE MCChargingSessions -------------------------
(***************************************************************************)
(* Instances of ChargingSessions for TLC.  A CDR takes up 2 units of       *)
(* length, a report 1, or 3 (or none), a RecordSequenceNumber 1.  MaxSize  *)
(* is 3, or 4 where records are to be split: two short reports fit, or a   *)
(* short one and the number; a long one outgrows a record by itself.       *)
(* Numbers are written to base 2 where the text of "smf" and 2 is to be    *)
(* that of "smf1" and 0.                                                   *)
(***************************************************************************)
EXTENDS ChargingSessions

CONSTANTS imsi1, smf        \* letters

McLetters == {imsi1, smf}
McSupis == {<<imsi1>>}
OneConsumer == {<<smf>>}
TwoConsumers == {<<smf>>, <<smf, 1>>}
=============================================================================
