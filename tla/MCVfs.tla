-------------------------------- MODULE MCVfs --------------------------------
(* Files of three blocks, two and none on a disc of four blocks.  Beside    *)
(* the file of two blocks, the one of three passes the check of the space   *)
(* (5 bytes, 2 free blocks of 3) and runs out of blocks.                    *)
EXTENDS Vfs

CONSTANTS jarek, legenda, tekst, pusty

MCNames == {jarek, legenda, pusty}

\* The files of the run VfsRemove.cfg: not empty, and both fit.
FittingNames == {legenda, tekst}

MCContents == [n \in MCNames \cup {tekst} |->
  CASE n = jarek   -> [size |-> 5, data |-> <<"j1", "j2", "j3">>]
    [] n = legenda -> [size |-> 3, data |-> <<"l1", "l2">>]
    [] n = tekst   -> [size |-> 1, data |-> <<"t1">>]
    [] n = pusty   -> [size |-> 0, data |-> << >>]]
=============================================================================
