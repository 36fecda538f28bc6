------------------------------- MODULE Accounts -------------------------------
(***************************************************************************)
(* Accounts and what hangs on them: invitations and password resets, which *)
(* send a mail and then store the token in it, and the enrolment in TOTP,  *)
(* whose recovery codes live and die with the credential.  A request is    *)
(* one session: between its awaits other requests commit.                  *)
(***************************************************************************)
EXTENDS Naturals, FiniteSets

CONSTANTS Emails,
          Invites,
          Requests,
          MaxSerial,  \* bound on rows: users, tokens and credentials
          MaxFaults   \* bound on mails that are not delivered

AccountsAssumption == MaxSerial \in Nat

None == 0    \* no user, no token, no credential

VARIABLES
  user,     \* users: the id of the user with an e-mail address
  creds,    \* totp_credentials of a user: [row, verified]
  codes,    \* totp_recovery_codes of a user: the credentials they were issued for
  tokens,   \* password_reset_tokens of a user: [n, recent, used]
  invite,   \* user_invites: [state, email, n]
  made,     \* history: the users made from an invite
  mailed,   \* history: the tokens that were mailed
  linked,   \* history: users who have a link that should work
  task,     \* requests under way
  serial,
  faults

rows == <<user, creds, codes, tokens, invite>>
vars == <<rows, made, mailed, linked, task, serial, faults>>

Ids      == 1..MaxSerial
Live(u)  == \E e \in Emails : user[e] = u
NoCred   == [row |-> None, verified |-> FALSE]
NoInvite == [state |-> "none", email |-> CHOOSE e \in Emails : TRUE, n |-> None]
Idle     == [pc |-> "idle", u |-> None, n |-> None, i |-> CHOOSE i \in Invites : TRUE,
             old |-> {}, email |-> CHOOSE e \in Emails : TRUE]

Init == /\ user = [e \in Emails |-> None]
        /\ creds = [u \in Ids |-> NoCred]
        /\ codes = [u \in Ids |-> {}]
        /\ tokens = [u \in Ids |-> {}]
        /\ invite = [i \in Invites |-> NoInvite]
        /\ made = [i \in Invites |-> {}]
        /\ mailed = {} /\ linked = {}
        /\ task = [r \in Requests |-> Idle]
        /\ serial = 0 /\ faults = 0

Fresh      == serial < MaxSerial /\ serial' = serial + 1
Set(r, t)  == task' = [task EXCEPT ![r] = t]
End(r)     == Set(r, Idle)
Begin(r, t) == task[r].pc = "idle" /\ Set(r, t)

(* An error rolls back what the request wrote and ends it.                 *)
Fails(r)   == End(r) /\ UNCHANGED <<rows, made, mailed, linked, serial, faults>>

(* A credential whose deletion is not committed is locked, and the         *)
(* sessions that would write it wait.                                      *)
Locked(u) == \E r \in Requests : task[r].pc \in {"enroll", "disable"} /\ task[r].u = u
                                 /\ task[r].n # None

-----------------------------------------------------------------------------
(* Users.  A name and an e-mail address are unique in the table.           *)
CreateUser(e) == /\ user[e] = None /\ Fresh
                 /\ user' = [user EXCEPT ![e] = serial']
                 /\ UNCHANGED <<creds, codes, tokens, invite, made, mailed, linked, task, faults>>

UpdateEmail(e, f) == /\ user[e] # None /\ user[f] = None
                     /\ user' = [user EXCEPT ![e] = None, ![f] = user[e]]
                     /\ UNCHANGED <<creds, codes, tokens, invite, made, mailed, linked, task,
                                    serial, faults>>

(* The rows that belong to a user go with it.                              *)
DeleteUser(e) == /\ user[e] # None /\ ~Locked(user[e])
                 /\ user' = [user EXCEPT ![e] = None]
                 /\ creds' = [creds EXCEPT ![user[e]] = NoCred]
                 /\ codes' = [codes EXCEPT ![user[e]] = {}]
                 /\ tokens' = [tokens EXCEPT ![user[e]] = {}]
                 /\ UNCHANGED <<invite, made, mailed, linked, task, serial, faults>>

-----------------------------------------------------------------------------
(* Password resets.                                                        *)
RequestReset(r, e) ==
  /\ user[e] # None
  /\ ~\E k \in tokens[user[e]] : k.recent
  /\ Fresh
  /\ Begin(r, [Idle EXCEPT !.pc = "mail reset", !.u = user[e], !.n = serial'])
  /\ UNCHANGED <<rows, made, mailed, linked, faults>>

MailReset(r) == /\ task[r].pc = "mail reset"
                /\ mailed' = mailed \cup {task[r].n}
                /\ Set(r, [task[r] EXCEPT !.pc = "store reset"])
                /\ UNCHANGED <<rows, made, linked, serial, faults>>

(* Not delivered: nothing is stored and the earlier tokens stay.           *)
MailFails(r) == /\ task[r].pc \in {"mail reset", "mail invite", "mail again"}
                /\ faults < MaxFaults /\ faults' = faults + 1
                /\ End(r)
                /\ UNCHANGED <<rows, made, mailed, linked, serial>>

(* What the request's DELETE finds goes when it commits, with the new row: *)
(* a row that another request commits in between stays.                    *)
DeletePrior(r) == /\ task[r].pc = "store reset"
                  /\ Set(r, [task[r] EXCEPT !.pc = "commit reset", !.old = tokens[task[r].u]])
                  /\ UNCHANGED <<rows, made, mailed, linked, serial, faults>>

(* Wrong variant: the new row is added first and deleted with the others.  *)
StoreThenDelete(r) == /\ task[r].pc = "commit reset" /\ Live(task[r].u)
                      /\ tokens' = [tokens EXCEPT ![task[r].u] = @ \ task[r].old]
                      /\ linked' = linked \cup {task[r].u}
                      /\ End(r)
                      /\ UNCHANGED <<user, creds, codes, invite, made, mailed, serial, faults>>

StoreReset(r) == /\ task[r].pc = "commit reset" /\ Live(task[r].u)
                 /\ tokens' = [tokens EXCEPT ![task[r].u] =
                      (@ \ task[r].old) \cup {[n |-> task[r].n, recent |-> TRUE, used |-> FALSE]}]
                 /\ linked' = linked \cup {task[r].u}
                 /\ End(r)
                 /\ UNCHANGED <<user, creds, codes, invite, made, mailed, serial, faults>>

StoreResetFails(r) == task[r].pc = "commit reset" /\ ~Live(task[r].u) /\ Fails(r)

(* The limit on requests per user passes.                                  *)
Age(u) == /\ \E k \in tokens[u] : k.recent
          /\ tokens' = [tokens EXCEPT ![u] = {[k EXCEPT !.recent = FALSE] : k \in @}]
          /\ UNCHANGED <<user, creds, codes, invite, made, mailed, linked, task, serial, faults>>

ReadToken(r, u, k) == /\ k \in tokens[u] /\ ~k.used
                      /\ Begin(r, [Idle EXCEPT !.pc = "reset", !.u = u, !.n = k.n])
                      /\ UNCHANGED <<rows, made, mailed, linked, serial, faults>>

(* The password changes with the token's row, if that is still there.      *)
Mine(r)         == {k \in tokens[task[r].u] : k.n = task[r].n}
ConfirmReset(r) == /\ task[r].pc = "reset" /\ Mine(r) # {}
                   /\ tokens' = [tokens EXCEPT ![task[r].u] =
                        (@ \ Mine(r)) \cup {[k EXCEPT !.used = TRUE] : k \in Mine(r)}]
                   /\ linked' = linked \ {task[r].u}
                   /\ End(r)
                   /\ UNCHANGED <<user, creds, codes, invite, made, mailed, serial, faults>>

ConfirmResetFails(r) == task[r].pc = "reset" /\ Mine(r) = {} /\ Fails(r)

-----------------------------------------------------------------------------
(* Invitations.                                                            *)
CreateInvite(r, i, e) ==
  /\ user[e] = None /\ invite[i].state = "none" /\ Fresh
  /\ \A q \in Requests : ~(task[q].pc \in {"mail invite", "store invite"} /\ task[q].i = i)
  /\ Begin(r, [Idle EXCEPT !.pc = "mail invite", !.i = i, !.email = e, !.n = serial'])
  /\ UNCHANGED <<rows, made, mailed, linked, faults>>

(* Wrong variant: the row is stored first.                                 *)
MailLast(r) == /\ task[r].pc = "mail invite"
               /\ invite' = [invite EXCEPT ![task[r].i] =
                    [state |-> "open", email |-> task[r].email, n |-> task[r].n]]
               /\ Set(r, [task[r] EXCEPT !.pc = "mail again"])
               /\ UNCHANGED <<user, creds, codes, tokens, made, mailed, linked, serial, faults>>

MailInvite(r) == /\ task[r].pc = "mail invite"
                 /\ mailed' = mailed \cup {task[r].n}
                 /\ Set(r, [task[r] EXCEPT !.pc = "store invite"])
                 /\ UNCHANGED <<rows, made, linked, serial, faults>>

StoreInvite(r) == /\ task[r].pc = "store invite"
                  /\ invite' = [invite EXCEPT ![task[r].i] =
                       [state |-> "open", email |-> task[r].email, n |-> task[r].n]]
                  /\ End(r)
                  /\ UNCHANGED <<user, creds, codes, tokens, made, mailed, linked, serial, faults>>

CancelInvite(i) == /\ invite[i].state \in {"open", "accepted"}
                   /\ invite' = [invite EXCEPT ![i].state = "deleted"]
                   /\ UNCHANGED <<user, creds, codes, tokens, made, mailed, linked, task, serial,
                                  faults>>

ResendInvite(r, i) == /\ invite[i].state = "open" /\ Fresh
                      /\ Begin(r, [Idle EXCEPT !.pc = "mail again", !.i = i, !.n = serial'])
                      /\ UNCHANGED <<rows, made, mailed, linked, faults>>

MailAgain(r) == /\ task[r].pc = "mail again"
                /\ mailed' = mailed \cup {task[r].n}
                /\ Set(r, [task[r] EXCEPT !.pc = "store again"])
                /\ UNCHANGED <<rows, made, linked, serial, faults>>

(* It was open when it was read; the update hits the row if it is there.   *)
StoreAgain(r) == /\ task[r].pc = "store again" /\ invite[task[r].i].state # "deleted"
                 /\ invite' = [invite EXCEPT ![task[r].i].n = task[r].n]
                 /\ End(r)
                 /\ UNCHANGED <<user, creds, codes, tokens, made, mailed, linked, serial, faults>>

StoreAgainFails(r) == /\ task[r].pc = "store again" /\ invite[task[r].i].state = "deleted"
                      /\ Fails(r)

(* Acceptance checks that the address is free, then makes the user and     *)
(* closes the invite in one commit, which the unique address and the row   *)
(* being there decide.                                                     *)
CheckInvite(r, i) == /\ invite[i].state = "open" /\ user[invite[i].email] = None
                     /\ Begin(r, [Idle EXCEPT !.pc = "accept", !.i = i, !.email = invite[i].email])
                     /\ UNCHANGED <<rows, made, mailed, linked, serial, faults>>

Acceptable(r) == user[task[r].email] = None /\ invite[task[r].i].state # "deleted"

(* Wrong variant: the invite is closed whether or not there is a user.     *)
AcceptClosing(r) == /\ task[r].pc = "accept"
                    /\ invite' = [invite EXCEPT ![task[r].i].state = "accepted"]
                    /\ IF Acceptable(r) /\ serial < MaxSerial
                         THEN /\ Fresh
                              /\ user' = [user EXCEPT ![task[r].email] = serial']
                              /\ made' = [made EXCEPT ![task[r].i] = @ \cup {serial'}]
                         ELSE UNCHANGED <<serial, user, made>>
                    /\ End(r)
                    /\ UNCHANGED <<creds, codes, tokens, mailed, linked, faults>>

AcceptInvite(r) == /\ task[r].pc = "accept" /\ Acceptable(r) /\ Fresh
                   /\ user' = [user EXCEPT ![task[r].email] = serial']
                   /\ invite' = [invite EXCEPT ![task[r].i].state = "accepted"]
                   /\ made' = [made EXCEPT ![task[r].i] = @ \cup {serial'}]
                   /\ End(r)
                   /\ UNCHANGED <<creds, codes, tokens, mailed, linked, faults>>

AcceptFails(r) == task[r].pc = "accept" /\ ~Acceptable(r) /\ Fails(r)

-----------------------------------------------------------------------------
(* TOTP enrolment.                                                         *)
EnrollTotp(r, u) == /\ Live(u) /\ ~Locked(u)
                    /\ Begin(r, [Idle EXCEPT !.pc = "enroll", !.u = u, !.n = creds[u].row])
                    /\ UNCHANGED <<rows, made, mailed, linked, serial, faults>>

(* One credential per user: the insert fails if another has come since.    *)
Enrolled(r) == /\ task[r].pc = "enroll" /\ Live(task[r].u) /\ creds[task[r].u].row = task[r].n
               /\ Fresh
               /\ creds' = [creds EXCEPT ![task[r].u] = [row |-> serial', verified |-> FALSE]]
               /\ codes' = [codes EXCEPT ![task[r].u] = {}]
               /\ End(r)
               /\ UNCHANGED <<user, tokens, invite, made, mailed, linked, faults>>

EnrollFails(r) == /\ task[r].pc = "enroll"
                  /\ ~Live(task[r].u) \/ creds[task[r].u].row # task[r].n
                  /\ Fails(r)

(* The code is checked against the credential that was read.               *)
ReadCredential(r, u) == /\ creds[u].row # None
                        /\ Begin(r, [Idle EXCEPT !.pc = "confirm", !.u = u, !.n = creds[u].row])
                        /\ UNCHANGED <<rows, made, mailed, linked, serial, faults>>

(* The update of a credential that was replaced or deleted matches no row, *)
(* and the recovery codes are rolled back with it.                         *)
ConfirmTotp(r) == LET u == task[r].u IN
  /\ task[r].pc = "confirm" /\ creds[u].row = task[r].n /\ ~Locked(u)
  /\ creds' = [creds EXCEPT ![u].verified = TRUE]
  /\ codes' = [codes EXCEPT ![u] = @ \cup {task[r].n}]
  /\ End(r)
  /\ UNCHANGED <<user, tokens, invite, made, mailed, linked, serial, faults>>

ConfirmFails(r) == /\ task[r].pc = "confirm" /\ creds[task[r].u].row # task[r].n
                   /\ Fails(r)

(* Wrong variant: the codes are deleted before the credential, which is    *)
(* not locked meanwhile.                                                   *)
DisableCodesFirst(r, u) == /\ Live(u)
                           /\ Begin(r, [Idle EXCEPT !.pc = "disabled", !.u = u])
                           /\ codes' = [codes EXCEPT ![u] = {}]
                           /\ UNCHANGED <<user, creds, tokens, invite, made, mailed, linked,
                                          serial, faults>>

DisableTotp(r, u) == /\ Live(u) /\ ~Locked(u)
                     /\ Begin(r, [Idle EXCEPT !.pc = "disable", !.u = u, !.n = creds[u].row])
                     /\ UNCHANGED <<rows, made, mailed, linked, serial, faults>>

(* The codes that are there by then go too.                                *)
Disabled(r) == /\ task[r].pc \in {"disable", "disabled"}
               /\ LET u == task[r].u
                  IN /\ creds' = IF creds[u].row = task[r].n \/ task[r].pc = "disabled"
                                   THEN [creds EXCEPT ![u] = NoCred] ELSE creds
                     /\ codes' = IF task[r].pc = "disabled" THEN codes
                                   ELSE [codes EXCEPT ![u] = {}]
               /\ End(r)
               /\ UNCHANGED <<user, tokens, invite, made, mailed, linked, serial, faults>>

-----------------------------------------------------------------------------
Reset(r)  == \/ MailReset(r) \/ DeletePrior(r) \/ StoreReset(r) \/ StoreResetFails(r)
             \/ ConfirmReset(r) \/ ConfirmResetFails(r)
             \/ \E e \in Emails : RequestReset(r, e)
             \/ \E u \in Ids : \E k \in tokens[u] : ReadToken(r, u, k)
Invite(r) == \/ MailInvite(r) \/ StoreInvite(r) \/ MailAgain(r) \/ StoreAgain(r)
             \/ StoreAgainFails(r) \/ AcceptInvite(r) \/ AcceptFails(r)
             \/ \E i \in Invites : \/ ResendInvite(r, i) \/ CheckInvite(r, i)
                                   \/ \E e \in Emails : CreateInvite(r, i, e)
Totp(r)   == \/ Enrolled(r) \/ EnrollFails(r) \/ ConfirmTotp(r) \/ ConfirmFails(r) \/ Disabled(r)
             \/ \E u \in Ids : EnrollTotp(r, u) \/ ReadCredential(r, u) \/ DisableTotp(r, u)

Next == \/ \E e \in Emails : CreateUser(e) \/ DeleteUser(e) \/ \E f \in Emails : UpdateEmail(e, f)
        \/ \E r \in Requests : Reset(r) \/ Invite(r) \/ Totp(r) \/ MailFails(r)
        \/ \E i \in Invites : CancelInvite(i)
        \/ \E u \in Ids : Age(u)

Spec == Init /\ [][Next]_vars

-----------------------------------------------------------------------------
(* A user's recovery codes are those of its verified credential, however   *)
(* enrolment, confirmation, disabling and deletion overlap.                *)
CodesHaveCredential ==
  \A u \in Ids : codes[u] # {} => creds[u].verified /\ codes[u] = {creds[u].row}

(* Every token that is stored was mailed: a failed delivery leaves none.   *)
StoredWasMailed ==
  /\ \A u \in Ids : \A k \in tokens[u] : k.n \in mailed
  /\ \A i \in Invites : invite[i].state \in {"open", "accepted"} => invite[i].n \in mailed

(* A user who was sent a reset link has one that works until it is used,   *)
(* whatever became of later requests.                                      *)
LinkWorks == \A u \in linked : Live(u) => \E k \in tokens[u] : ~k.used

(* An accepted invite made a user.                                         *)
AcceptedMadeUser == \A i \in Invites : invite[i].state = "accepted" => made[i] # {}

(* models/auth_tokens.py:22: "only the latest is active.  Prior rows are   *)
(* deleted when a new reset request is initiated."                         *)
OnlyLatestActive == \A u \in Ids : Cardinality({k \in tokens[u] : ~k.used}) <= 1

AccountsHold == CodesHaveCredential /\ StoredWasMailed /\ LinkWorks /\ AcceptedMadeUser
===============================================================================
