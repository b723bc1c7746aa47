CONSTANTS
    u1 = u1
    u2 = u2
    smtpHost = smtpHost
    User <- MC_User
    Host <- smtpHost

SPECIFICATION Spec
SYMMETRY MC_Symmetry
INVARIANT
    ShareNotifiesSharees
