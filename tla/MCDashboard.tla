----------------------------- MODULE MCDashboard -----------------------------
(* An instance of Dashboard for TLC: two requests can wait behind a third,  *)
(* and a second runtime would find a free handle.  Without symmetry, which  *)
(* would not be sound for EveryRequestAnswered.                             *)
EXTENDS Dashboard

CONSTANTS t1, t2, t3, m1, m2, h1, h2

Workers == {t1, t2, t3}
Gguf    == {m1, m2}
Free    == {h1, h2}
=============================================================================
