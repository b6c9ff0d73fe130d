------------------------------ MODULE MCBlock -------------------------------
EXTENDS Block, TLC

CONSTANTS p1, p2, p3, f1, f2

\* Two files of the volume whose clusters alternate, and the device itself.
MCOpened == p1 :> f1 @@ p2 :> f2 @@ p3 :> Device
MCClusters == f1 :> <<4, 0>> @@ f2 :> <<8>>
MCLength == f1 :> 7 @@ f2 :> 3

\* Back by one, past the start, and forward, past the end of each file.
MCOffsets == {-1, 6}
=============================================================================
