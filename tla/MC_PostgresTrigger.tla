------------------------- MODULE MC_PostgresTrigger -------------------------
EXTENDS PostgresTrigger

\* a deactivation followed by a reactivation, with notifications around both
MC_MaxActivation == 2
MC_MaxNotify == 2

=============================================================================
