---------------------------- MODULE MCSetupWizard ----------------------------
\* SetupWizard with names and heights as model values and chosen users.
EXTENDS SetupWizard

CONSTANTS a, b, zero, late

MCNames == {a, b}
MCHeights == {zero, late}
MCUsers ==
    {{}, {"stepsBack"}, {"opensFile"},
     Habits \ {"diskFails"}, Habits \ {"opensFile"}, Habits \ {"stepsBack"}}
MCRestarts == {{"restarts"}}
=============================================================================
