------------------------------ MODULE MCIdeDisk ------------------------------
(* Three sectors of two words on two cache lines; the file ends in the      *)
(* middle of the last sector.                                               *)
EXTENDS IdeDisk

MCWhole == Sectors \X Words

MCFile == (Sectors \X Words) \ {<<2, 1>>}

==============================================================================
