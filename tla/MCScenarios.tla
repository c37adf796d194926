---------------------------- MODULE MCScenarios ----------------------------
EXTENDS Scenarios

CONSTANTS l1, t1, t2, d1, d2   \* runs

\* The runs of a cast happen together: those that share a listing of templates,
\* and those that share one template.
MCCasts == {{t1, t2}, {d1, d2}, {l1}}
=============================================================================
