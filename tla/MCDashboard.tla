------------------------------- MODULE MCDashboard -------------------------------
\* The instance of Dashboard that TLC checks, which first evaluates what StateLoops
\* states of the loops behind its steps.
EXTENDS Dashboard, StateLoops

MCUnits == <<1, 1>>
MCFailed == {0}

ASSUME LoopsAsSpecified == PlanLoopAsSpecified /\ StatusLoopsAsSpecified
================================================================================
