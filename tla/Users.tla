------------------------------- MODULE Users --------------------------------
(***************************************************************************)
(* Users (src/internal/modules/users).  usuario.correo has a unique index  *)
(* over every row, soft-deleted ones included, while the service's         *)
(* ExistsByEmail check is a scoped query over live rows.  Update and       *)
(* ChangePassword read the row and Save it whole.  Requests are the        *)
(* processes UClients.  Names and the bcrypt hash are abstracted: a        *)
(* password is a model value, verifying it is equality with the stored     *)
(* one, and the name (changed by Update) is a field no property reads.     *)
(***************************************************************************)
EXTENDS Integers, FiniteSets, TLC

CONSTANTS
    UClients,    \* concurrent user requests
    Emails,      \* e-mail addresses a request may carry
    Passwords,   \* passwords a request may carry
    NoEmail,     \* an omitted correo in an UpdateUserRequest
    UserOps      \* the operations the requests call

ASSUME /\ NoEmail \notin Emails
       /\ UserOps \subseteq {"Create", "Update", "ChangePassword", "Delete"}

VARIABLES
    user,     \* user[u]: the usuario rows [email, pw, live]
    lastPw,   \* lastPw[u]: the password the last completed ChangePassword
              \* (or the Create) of u set
    upc,      \* upc[c]: where request c is in its operation
    ureq      \* ureq[c]: its request and the row it read

uvars == <<user, lastPw, upc, ureq>>

UserRow == [email : Emails, pw : Passwords, live : BOOLEAN]

NoUserReq == [uid |-> 0, email |-> NoEmail,
              pw |-> CHOOSE w \in Passwords : TRUE,
              old |-> [email |-> CHOOSE e \in Emails : TRUE,
                       pw |-> CHOOSE w \in Passwords : TRUE, live |-> FALSE]]

NewUserId == Cardinality(DOMAIN user) + 1

LiveUser(u) == u \in DOMAIN user /\ user[u].live

\* ExistsByEmail: a scoped COUNT over live rows.
EmailInUse(e) == \E u \in DOMAIN user : user[u].live /\ user[u].email = e

\* The unique index on correo: an INSERT conflicts with any row, deleted or
\* not.
EmailIndexed(e) == \E u \in DOMAIN user : user[u].email = e

UserPCs == {"idle", "uc_insert", "uu_check", "uu_save", "cp_save"}

UFinish(c) == /\ upc' = [upc EXCEPT ![c] = "idle"]
              /\ ureq' = [ureq EXCEPT ![c] = NoUserReq]

UGoto(c, l) == upc' = [upc EXCEPT ![c] = l]

UserInit ==
    /\ user = <<>>
    /\ lastPw = <<>>
    /\ upc = [c \in UClients |-> "idle"]
    /\ ureq = [c \in UClients |-> NoUserReq]

-----------------------------------------------------------------------------
\* Create: bind, ExistsByEmail; then hashing, which touches no row.
CreateUserRequest(c) ==
    /\ "Create" \in UserOps
    /\ upc[c] = "idle"
    /\ \E e \in Emails, w \in Passwords :
          IF EmailInUse(e)
            THEN UFinish(c)
            ELSE /\ ureq' = [ureq EXCEPT ![c] = [NoUserReq EXCEPT
                                                  !.email = e, !.pw = w]]
                 /\ UGoto(c, "uc_insert")
    /\ UNCHANGED <<user, lastPw>>

\* repo.Create: the INSERT, rejected by the unique index.
CreateUserInsert(c) ==
    LET r == ureq[c] IN
    /\ upc[c] = "uc_insert"
    /\ IF EmailIndexed(r.email)
         THEN UNCHANGED <<user, lastPw>>
         ELSE /\ user' = user @@ (NewUserId :> [email |-> r.email,
                                                 pw |-> r.pw, live |-> TRUE])
              /\ lastPw' = lastPw @@ (NewUserId :> r.pw)
    /\ UFinish(c)

\* Update: bind, FindByID; a new e-mail different from the stored one is
\* checked next, otherwise the row goes straight to Save.
UpdateUserRequest(c) ==
    /\ "Update" \in UserOps
    /\ upc[c] = "idle"
    /\ \E u \in 1 .. NewUserId, e \in {NoEmail} \cup Emails :
          IF LiveUser(u)
            THEN /\ ureq' = [ureq EXCEPT ![c] = [NoUserReq EXCEPT
                                !.uid = u, !.email = e, !.old = user[u]]]
                 /\ UGoto(c, IF e # NoEmail /\ e # user[u].email
                               THEN "uu_check" ELSE "uu_save")
            ELSE UFinish(c)
    /\ UNCHANGED <<user, lastPw>>

\* ExistsByEmail(req.Email): an e-mail in use fails the update.
UpdateUserCheck(c) ==
    /\ upc[c] = "uu_check"
    /\ IF EmailInUse(ureq[c].email)
         THEN UFinish(c)
         ELSE /\ UGoto(c, "uu_save")
              /\ UNCHANGED ureq
    /\ UNCHANGED <<user, lastPw>>

\* Mutation: usr.Email = req.Email without the check that one was given.
UpdateUserSaveEmailUnguarded(c) ==
    LET r == ureq[c] IN
    /\ upc[c] = "uu_save"
    /\ \/ user' = [user EXCEPT ![r.uid] = [r.old EXCEPT !.email = r.email,
                                                       !.live = TRUE]]
       \/ /\ ~user[r.uid].live
          /\ UNCHANGED user
    /\ UFinish(c)
    /\ UNCHANGED lastPw

\* repo.Update = db.Save(usr): the row as read.  The code never assigns
\* usr.Email = req.Email, so the row keeps its e-mail (and its password as
\* read).  On a row soft-deleted since, nothing or an upsert back to live.
UpdateUserSave(c) ==
    LET r == ureq[c] IN
    /\ upc[c] = "uu_save"
    /\ \/ user' = [user EXCEPT ![r.uid] = [r.old EXCEPT !.live = TRUE]]
       \/ /\ ~user[r.uid].live
          /\ UNCHANGED user
    /\ UFinish(c)
    /\ UNCHANGED lastPw

\* ChangePassword: bind, FindByID, verify the current password, hash the
\* new one: one read, then local work.
ChangePasswordRequest(c) ==
    /\ "ChangePassword" \in UserOps
    /\ upc[c] = "idle"
    /\ \E u \in 1 .. NewUserId, cur \in Passwords, new \in Passwords :
          IF LiveUser(u) /\ cur = user[u].pw
            THEN /\ ureq' = [ureq EXCEPT ![c] = [NoUserReq EXCEPT
                                !.uid = u, !.pw = new, !.old = user[u]]]
                 /\ UGoto(c, "cp_save")
            ELSE UFinish(c)
    /\ UNCHANGED <<user, lastPw>>

\* Mutation: the row saved as read, without usr.Password = hashedPass.
ChangePasswordSaveStale(c) ==
    LET r == ureq[c] IN
    /\ upc[c] = "cp_save"
    /\ \/ /\ user' = [user EXCEPT ![r.uid] = [r.old EXCEPT !.live = TRUE]]
          /\ lastPw' = [lastPw EXCEPT ![r.uid] = r.pw]
       \/ /\ ~user[r.uid].live
          /\ UNCHANGED <<user, lastPw>>
    /\ UFinish(c)

\* repo.Update = db.Save(usr) with the new hash.
ChangePasswordSave(c) ==
    LET r == ureq[c] IN
    /\ upc[c] = "cp_save"
    /\ \/ /\ user' = [user EXCEPT ![r.uid] = [r.old EXCEPT !.pw = r.pw,
                                                           !.live = TRUE]]
          /\ lastPw' = [lastPw EXCEPT ![r.uid] = r.pw]
       \/ /\ ~user[r.uid].live
          /\ UNCHANGED <<user, lastPw>>
    /\ UFinish(c)

\* Delete: FindByID, then a soft delete; one step.
DeleteUser(c) ==
    /\ "Delete" \in UserOps
    /\ upc[c] = "idle"
    /\ \E u \in DOMAIN user :
          /\ user[u].live
          /\ user' = [user EXCEPT ![u].live = FALSE]
    /\ UNCHANGED <<lastPw, upc, ureq>>

UserNext ==
    \E c \in UClients :
        \/ CreateUserRequest(c) \/ CreateUserInsert(c)
        \/ UpdateUserRequest(c) \/ UpdateUserCheck(c) \/ UpdateUserSave(c)
        \/ ChangePasswordRequest(c) \/ ChangePasswordSave(c)
        \/ DeleteUser(c)

UserSpec == UserInit /\ [][UserNext]_uvars

-----------------------------------------------------------------------------
\* Every usuario row has an e-mail and a password of the request that made
\* it, and the ghost lastPw covers exactly the rows.  It is about the Save
\* of Update and ChangePassword, which write back a whole row as read.
UserTypeOK ==
    /\ DOMAIN user = 1 .. Cardinality(DOMAIN user)
    /\ \A u \in DOMAIN user : user[u] \in UserRow
    /\ DOMAIN lastPw = DOMAIN user
    /\ \A u \in DOMAIN lastPw : lastPw[u] \in Passwords
    /\ upc \in [UClients -> UserPCs]

(***************************************************************************)
(* A completed password change stays in effect: a live user's stored       *)
(* password is the one its last ChangePassword (or its Create) set.        *)
(* Update Saves the whole row it read, password included.                  *)
(***************************************************************************)
PasswordChangeSticks ==
    \A u \in DOMAIN user : user[u].live => user[u].pw = lastPw[u]

=============================================================================
