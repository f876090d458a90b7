\* Two concurrent user requests calling every operation: every row keeps
\* the shape Create gave it through the whole-row Saves.
CONSTANTS
    UClients = {k1, k2}
    Emails = {e1, e2}
    Passwords = {w1, w2}
    NoEmail = none
    UserOps = {"Create", "Update", "ChangePassword", "Delete"}
    MaxUsers = 2
SPECIFICATION UserSpec
CONSTRAINT StateBound
SYMMETRY Symmetry
INVARIANT UserTypeOK
