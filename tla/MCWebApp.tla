------------------------------ MODULE MCWebApp ------------------------------
(* Instances of WebApp for TLC.                                             *)
EXTENDS WebApp

CONSTANTS r1, r2, s1, s2, w1, w2

AllAnswers == {"paid", "announced", "no money", "exhausted", "failed"}
=============================================================================
