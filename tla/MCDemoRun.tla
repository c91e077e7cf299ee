------------------------------- MODULE MCDemoRun -------------------------------
(***************************************************************************)
(* Two runs of one identity, the second given the first's lock file, with a  *)
(* pipeline of two Jobs.                                                    *)
(***************************************************************************)
EXTENDS DemoRun, TLC

CONSTANTS r1, r2

MCSteps == <<"input", "hybrid">>
MCStrays == {"policy", "lease"}
================================================================================
