------------------------- MODULE MC_PowerManagement -------------------------
(* Instances of PowerManagement: frequencies and voltages on short scales on  *)
(* which the overheat reduction both stays inside the envelope and leaves it. *)
EXTENDS PowerManagement
=============================================================================
