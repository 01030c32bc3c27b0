------------------------------ MODULE MCSeeds ------------------------------
(* Seeds over a four-letter alphabet, inputs up to four characters. *)
EXTENDS Seeds

MCAlphabet == {"h", "1", ":", ","}
=============================================================================
