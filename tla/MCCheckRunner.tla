--------------------------- MODULE MCCheckRunner ---------------------------
\* Instances of CheckRunner for TLC.
EXTENDS CheckRunner

CONSTANTS m1, m2
============================================================================
