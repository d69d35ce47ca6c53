----------------------------- MODULE MCRecordDAO -----------------------------
(***************************************************************************)
(* Instances of RecordDAO for TLC.                                         *)
(***************************************************************************)
EXTENDS RecordDAO, TLC

CONSTANTS c1, c2, p1, p2, i1, i2

All    == [Size |-> 0, Page |-> 0]
AllOn1 == [Size |-> 0, Page |-> 1]
OneOn1 == [Size |-> 1, Page |-> 1]

TwoPods == c1 :> p1 @@ c2 :> p2
OnePod  == c1 :> p1 @@ c2 :> p1

AllOnly  == {All}
SamePage == {AllOn1, OneOn1}

\* The calls of one pod are alike, and so are the uuids.
Alike == Permutations({c1, c2}) \cup Permutations({i1, i2})

\* The strings asked for: a uuid, and one that is also the key of a listing.
IDAndKey == {i1, KeyOf(All)}
KeyOnly  == {KeyOf(AllOn1)}
=============================================================================
