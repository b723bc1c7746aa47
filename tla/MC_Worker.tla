------------------------------ MODULE MC_Worker ------------------------------
EXTENDS Worker

CONSTANTS j1, j2

MC_Job == {j1, j2}
MC_Concurrency == 2

=============================================================================
