----------------------- MODULE MC_UserManagementMailer -----------------------
EXTENDS UserManagementMailer, TLC

CONSTANTS u1, u2, smtpHost

MC_User == {u1, u2}
MC_Symmetry == Permutations(MC_User)

=============================================================================
