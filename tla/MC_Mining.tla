------------------------------ MODULE MC_Mining ------------------------------
(***************************************************************************)
(* The sessions with the pools, the work queue between two producers, the  *)
(* records of the work, and what tunes, feeds and tests the chip, checked  *)
(* in one run.  A behaviour is a behaviour of one of these parts, chosen   *)
(* at the start, while the others stay as they were initialised.           *)
(***************************************************************************)
EXTENDS Sv1Session, Sv2Session, SelfTest, Autotune, Regulator, WorkQueue, Records

VARIABLE part

\* Three presets of the chip.
MCPresets == <<4, 6, 8>>

MiningInit ==
    /\ part \in {"sv2", "sv1", "scoreboard", "statistics", "test", "autotune", "regulator",
                "queue"}
    /\ V2Init /\ V1Init /\ RecordsInit /\ TestInit /\ TunerInit /\ RegInit
    /\ Init
    /\ part # "autotune" => ~tunerOn /\ frequency = 3
    /\ part # "regulator" => family = "gamma"

Sv2Step ==
    part = "sv2" /\ V2Next
    /\ UNCHANGED <<part, v1Vars, boardVars, sampleVars, testVars, tunerVars, regVars, vars>>
Sv1Step ==
    part = "sv1" /\ V1Next
    /\ UNCHANGED <<part, v2Vars, boardVars, sampleVars, testVars, tunerVars, regVars, vars>>
ScoreboardStep ==
    part = "scoreboard" /\ BoardNext
    /\ UNCHANGED <<part, v2Vars, v1Vars, sampleVars, testVars, tunerVars, regVars, vars>>
StatisticsStep ==
    part = "statistics" /\ SamplesNext
    /\ UNCHANGED <<part, v2Vars, v1Vars, boardVars, testVars, tunerVars, regVars, vars>>
TestStep ==
    part = "test" /\ TestNext
    /\ UNCHANGED <<part, v2Vars, v1Vars, boardVars, sampleVars, tunerVars, regVars, vars>>
TunerStep ==
    part = "autotune" /\ TunerNext
    /\ UNCHANGED <<part, v2Vars, v1Vars, boardVars, sampleVars, testVars, regVars, vars>>
RegulatorStep ==
    part = "regulator" /\ RegNext
    /\ UNCHANGED <<part, v2Vars, v1Vars, boardVars, sampleVars, testVars, tunerVars, vars>>
QueueStep ==
    part = "queue" /\ Next
    /\ UNCHANGED <<part, v2Vars, v1Vars, boardVars, sampleVars, testVars, tunerVars, regVars>>

MiningNext == Sv2Step \/ Sv1Step \/ ScoreboardStep \/ StatisticsStep \/ TestStep \/ TunerStep
              \/ RegulatorStep \/ QueueStep

MiningSpec == MiningInit /\ [][MiningNext]_<<part, v2Vars, v1Vars, boardVars, sampleVars, testVars,
                                            tunerVars, regVars, vars>>
=============================================================================
