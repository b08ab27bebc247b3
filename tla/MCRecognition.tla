----------------------------- MODULE MCRecognition -----------------------------
(* Two files in one directory and one in another.                            *)
EXTENDS Recognition, TLC

CONSTANTS f1, f2, g, d, e, s1

MCDirectoryOf == f1 :> d @@ f2 :> d @@ g :> e
=============================================================================
