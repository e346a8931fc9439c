----------------------------- MODULE MC_Settings -----------------------------
EXTENDS Settings
=============================================================================
