------------------------------ MODULE MCRetrieve ------------------------------
(* RetrieveTransfer for TLC: an answer of up to three messages.  One of the   *)
(* posted files has the name of the local file of the second message.         *)
EXTENDS RetrieveTransfer

Drifts == -1 .. 1

CONSTANTS own1, own2, own3, ownJunk     \* the names of the local files

LocalNames == [m \in Mid \cup {Junk} |->
                 CASE m = 1 -> own1 [] m = 2 -> own2 [] m = 3 -> own3 [] OTHER -> ownJunk]
=============================================================================
