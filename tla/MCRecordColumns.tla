---------------------------- MODULE MCRecordColumns ----------------------------
(***************************************************************************)
(* Columns of 3 bits and 2 characters, seconds of four ticks, and requests *)
(* with values to either side of the columns' ends, some with a time.      *)
(***************************************************************************)
EXTENDS RecordColumns

Request(num, len, created) == [num |-> num, len |-> len, created |-> created]

MCAsked == {Request(-5, 0, NoTime), Request(-4, 2, 4), Request(3, 3, NoTime),
            Request(4, 2, 0)}
=============================================================================
