--------------------------- MODULE MCAlertOutbox ---------------------------
\* Instances of AlertOutbox for TLC.
EXTENDS AlertOutbox

CONSTANTS a1, a2, d1, d2
============================================================================
