--------------------------- MODULE MCDurableClear ---------------------------
(***************************************************************************)
(* Small instances of the durable clear; the .cfg files give the constants *)
(* and bounds.  Embedded frames belong to another origin than the page.    *)
(***************************************************************************)
EXTENDS DurableClear, TLC

PageOrigin  == CHOOSE o \in Origins : TRUE
MCHomeOf    == [f \in Frames |-> IF f = TopFrame THEN PageOrigin
                                 ELSE CHOOSE o \in Origins : o # PageOrigin]
MCDocuments == 0 .. MaxMoves

\* No safety property tells one path of a page from another.
PathNames   == Permutations(Paths)
=============================================================================
