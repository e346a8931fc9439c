---- MODULE MC_Bap ----
EXTENDS Bap
====
