\* A profile update racing a password change of the same user.
CONSTANTS
    UClients = {k1, k2}
    Emails = {e1, e2}
    Passwords = {w1, w2}
    NoEmail = none
    UserOps = {"Create", "Update", "ChangePassword"}
    MaxUsers = 2
SPECIFICATION UserSpec
CONSTRAINT StateBound
SYMMETRY Symmetry
INVARIANT PasswordChangeSticks
