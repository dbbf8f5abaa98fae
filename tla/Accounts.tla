------------------------------ MODULE Accounts ------------------------------
(***************************************************************************)
(* User accounts, their sessions and the tokens that reset passwords.      *)
(*                                                                         *)
(*   internal/auth/service.go          sessions and reset tokens           *)
(*   internal/user/store.go            the users table                     *)
(*   internal/httpapi/handlers         auth.go, users.go                   *)
(*   internal/app/app.go               admin create                        *)
(*                                                                         *)
(* SQLite runs one statement at a time; a request is the statements of its *)
(* handler, between which other requests run; one that its first statement *)
(* refuses changes nothing and is left out.  A password is the number of   *)
(* the statement that stored it, so a newer one is larger; ids and tokens  *)
(* are random and never given out twice.                                   *)
(***************************************************************************)
EXTENDS Naturals

CONSTANTS Requests,
          Ids,          \* of accounts
          Admins,       \* those with is_admin, which no statement changes
          Name,         \* the username an id is created with
          Sessions,     \* session tokens
          Resets,       \* password reset tokens
          Nobody,
          MaxPasswords  \* bound on passwords

ASSUME AdminsAssumption == Admins \subseteq Ids
ASSUME NameAssumption == Name = [i \in Ids |-> Name[i]]
ASSUME NobodyAssumption == Nobody \notin Ids \cup Sessions \cup Resets
ASSUME BoundsAssumption == MaxPasswords \in Nat

VARIABLES account,   \* the users table
          session,   \* the sessions table; history: the password shown for it,
                     \* and whether it was made past a reset that ended them
          reset,     \* the password_resets table
          req,       \* every request: its next statement and its locals
          passwords,
          shut,      \* history: the newest password of a reset that answered ok
          answered   \* history: tokens of resets that answered ok

tables == <<account, session, reset>>
history == <<shut, answered>>
vars == <<tables, req, passwords, history>>

Rows == {"none", "live", "gone"}
NoAccount == [row |-> "none", password |-> 0, disabled |-> FALSE]
NoSession == [row |-> "none", user |-> Nobody, expired |-> FALSE, shown |-> 0, late |-> FALSE]
GoneSession == [NoSession EXCEPT !.row = "gone"]
NoReset == [row |-> "none", user |-> Nobody, expired |-> FALSE, used |-> FALSE]

Manage == {"create", "disable", "enable", "delete"}
Ops == {"login", "password", "forgot", "reset", "cli"} \cup Manage
Statements == {"idle", "session", "verify", "store", "mint", "consume", "end",
               "taken", "insert", "target", "update"}

Idle == [pc |-> "idle", op |-> "login", token |-> Nobody, me |-> Nobody, id |-> Nobody,
         shown |-> 0, stored |-> 0, late |-> FALSE]
Request == [pc : Statements, op : Ops, token : Resets \cup {Nobody}, me : Ids \cup {Nobody},
            id : Ids \cup {Nobody}, shown : Nat, stored : Nat, late : BOOLEAN]

Init ==
  /\ account = [i \in Ids |-> NoAccount]
  /\ session = [s \in Sessions |-> NoSession]
  /\ reset = [t \in Resets |-> NoReset]
  /\ req = [r \in Requests |-> Idle]
  /\ passwords = 0
  /\ shut = [i \in Ids |-> 0] /\ answered = {}
----------------------------------------------------------------------------
At(r, statement) == req[r].pc = statement
Live(i) == i \in Ids /\ account[i].row = "live"
Go(r, statement) == req' = [req EXCEPT ![r].pc = statement]
Answer(r) == req' = [req EXCEPT ![r] = Idle]
Arrive(r, locals) == At(r, "idle") /\ req' = [req EXCEPT ![r] = locals]

\* The id stands for its username where a statement finds the account by that.
Taken(i) == \E j \in Ids : Live(j) /\ Name[j] = Name[i]

\* Logout is one statement.
Logout(s) ==
  /\ session[s].row = "live"
  /\ session' = [session EXCEPT ![s] = GoneSession]
  /\ UNCHANGED <<account, reset, req, passwords>>
----------------------------------------------------------------------------
(* Sessions.                                                               *)

\* Login: GetByUsername, Disabled, VerifyPassword.
CheckLogin(r) ==
  /\ \E i \in Ids : /\ Live(i) /\ ~account[i].disabled
                    /\ Arrive(r, [Idle EXCEPT !.pc = "session", !.id = i,
                                              !.shown = account[i].password])
  /\ UNCHANGED <<tables, passwords>>

NewSession(r) == [row |-> "live", user |-> req[r].id, expired |-> FALSE,
                  shown |-> req[r].shown, late |-> req[r].late]

\* Slip: the table does not refer to users.
CreateSessionUnreferenced(r) ==
  /\ At(r, "session")
  /\ \E s \in Sessions : session[s].row = "none" /\ session' = [session EXCEPT ![s] = NewSession(r)]
  /\ Answer(r)
  /\ UNCHANGED <<account, reset, passwords>>

\* The foreign key refuses the row of a user that is gone.
CreateSession(r) ==
  /\ At(r, "session")
  /\ \/ Live(req[r].id)
        /\ \E s \in Sessions :
             session[s].row = "none" /\ session' = [session EXCEPT ![s] = NewSession(r)]
     \/ ~Live(req[r].id) /\ UNCHANGED session
  /\ Answer(r)
  /\ UNCHANGED <<account, reset, passwords>>

\* ResolveSession, and AdminOnly on the routes that manage users.
Valid(s) == session[s].row = "live" /\ ~session[s].expired

EnterPassword(r) ==
  /\ \E s \in Sessions : /\ Valid(s)
                         /\ Arrive(r, [Idle EXCEPT !.pc = "verify", !.op = "password",
                                                   !.me = session[s].user])
  /\ UNCHANGED <<tables, passwords>>

EnterManage(r) ==
  /\ \E s \in Sessions, op \in Manage, i \in Ids :
       /\ Valid(s) /\ session[s].user \in Admins
       /\ account[i].row = IF op = "create" THEN "none" ELSE "live"
       /\ Arrive(r, [Idle EXCEPT !.pc = IF op = "create" THEN "taken" ELSE "target",
                                 !.op = op, !.me = session[s].user, !.id = i])
  /\ UNCHANGED <<tables, passwords>>

\* xwiki admin create needs no session.
EnterCli(r) ==
  /\ \E i \in Admins : Arrive(r, [Idle EXCEPT !.pc = "taken", !.op = "cli", !.id = i])
  /\ UNCHANGED <<tables, passwords>>

\* ResolveSession removes one that has expired.
SweepSession(s) ==
  /\ session[s].row = "live" /\ session[s].expired
  /\ session' = [session EXCEPT ![s] = GoneSession]
  /\ UNCHANGED <<account, reset, req, passwords>>

\* Time passes.
Expire ==
  /\ \/ \E s \in Sessions : /\ session[s].row = "live" /\ ~session[s].expired
                            /\ session' = [session EXCEPT ![s].expired = TRUE]
                            /\ UNCHANGED reset
     \/ \E t \in Resets : /\ reset[t].row = "live" /\ ~reset[t].expired
                          /\ reset' = [reset EXCEPT ![t].expired = TRUE]
                          /\ UNCHANGED session
  /\ UNCHANGED <<account, req, passwords>>
----------------------------------------------------------------------------
(* Passwords.                                                              *)

\* GetByUsername and VerifyPassword, with the name of the session's user: the
\* account that has it by now.
Verify(r) ==
  /\ At(r, "verify")
  /\ \/ \E i \in Ids : /\ Live(i) /\ Name[i] = Name[req[r].me]
                       /\ req' = [req EXCEPT ![r].pc = "store", ![r].id = i]
     \/ ~Taken(req[r].me) /\ Answer(r)
  /\ UNCHANGED <<tables, passwords>>

\* UpdatePassword; a change of password ends no session.
StorePassword(r) ==
  /\ At(r, "store")
  /\ \/ /\ Live(req[r].id) /\ passwords < MaxPasswords
        /\ passwords' = passwords + 1
        /\ account' = [account EXCEPT ![req[r].id].password = passwords + 1]
        /\ IF req[r].op = "reset" THEN req' = [req EXCEPT ![r].pc = "consume", ![r].stored = passwords + 1]
                                  ELSE Answer(r)
     \/ ~Live(req[r].id) /\ Answer(r) /\ UNCHANGED <<account, passwords>>
  /\ UNCHANGED <<session, reset>>

Forgot(r) ==
  /\ \E i \in Ids : /\ Live(i) /\ ~account[i].disabled
                    /\ Arrive(r, [Idle EXCEPT !.pc = "mint", !.op = "forgot", !.id = i])
  /\ UNCHANGED <<tables, passwords>>

CreatePasswordReset(r) ==
  /\ At(r, "mint")
  /\ \/ /\ Live(req[r].id)
        /\ \E t \in Resets : /\ reset[t].row = "none"
                             /\ reset' = [reset EXCEPT ![t] = [NoReset EXCEPT !.row = "live",
                                                                              !.user = req[r].id]]
     \/ ~Live(req[r].id) /\ UNCHANGED reset
  /\ Answer(r)
  /\ UNCHANGED <<account, session, passwords>>

\* ResolvePasswordReset.
Resolve(r) ==
  /\ \E t \in Resets : /\ reset[t].row = "live" /\ ~reset[t].used /\ ~reset[t].expired
                       /\ Arrive(r, [Idle EXCEPT !.pc = "store", !.op = "reset", !.token = t,
                                                 !.id = reset[t].user])
  /\ UNCHANGED <<tables, passwords>>

\* Slip: the statement names the used token.
ConsumeUsed(r) ==
  /\ At(r, "consume") /\ Go(r, "end")
  /\ UNCHANGED <<tables, passwords>>

\* An error is logged and the request goes on.
ConsumePasswordReset(r) ==
  /\ At(r, "consume")
  /\ \/ reset' = [reset EXCEPT ![req[r].token].used = TRUE] /\ Go(r, "end")
     \/ req' = [req EXCEPT ![r].pc = "end", ![r].token = Nobody] /\ UNCHANGED reset
  /\ UNCHANGED <<account, session, passwords>>

\* Logins of user i that have checked the password and have no session yet get
\* the history mark.
Marked(r, i) == [q \in Requests |->
  IF q = r THEN Idle
  ELSE IF At(q, "session") /\ req[q].id = i THEN [req[q] EXCEPT !.late = TRUE] ELSE req[q]]

\* Slip: only sessions that have expired are removed.
EndExpiredSessions(r) ==
  /\ At(r, "end")
  /\ session' = [s \in Sessions |->
       IF session[s].user = req[r].id /\ session[s].expired THEN GoneSession ELSE session[s]]
  /\ req' = Marked(r, req[r].id)
  /\ UNCHANGED <<account, reset, passwords>>

\* DeleteSessionsByUser.
EndSessions(r) ==
  /\ At(r, "end")
  /\ session' = [s \in Sessions |-> IF session[s].user = req[r].id THEN GoneSession ELSE session[s]]
  /\ req' = Marked(r, req[r].id)
  /\ UNCHANGED <<account, reset, passwords>>
----------------------------------------------------------------------------
(* Accounts.                                                               *)

\* GetByUsername, in POST /users and in admin create.
LookUpName(r) ==
  /\ At(r, "taken")
  /\ IF Taken(req[r].id) THEN Answer(r) ELSE Go(r, "insert")
  /\ UNCHANGED <<tables, passwords>>

NewAccount == [row |-> "live", password |-> passwords + 1, disabled |-> FALSE]

\* Slip: two rows may have one username.
InsertAnyName(r) ==
  /\ At(r, "insert") /\ passwords < MaxPasswords
  /\ account[req[r].id].row = "none"
  /\ account' = [account EXCEPT ![req[r].id] = NewAccount] /\ passwords' = passwords + 1
  /\ Answer(r)
  /\ UNCHANGED <<session, reset>>

\* The username is unique.
Insert(r) ==
  LET free == {i \in Ids : /\ account[i].row = "none" /\ Name[i] = Name[req[r].id]
                           /\ i \in Admins <=> req[r].id \in Admins} IN
  /\ At(r, "insert")
  /\ \/ /\ ~Taken(req[r].id)
        /\ passwords < MaxPasswords /\ passwords' = passwords + 1
        /\ \E i \in free : account' = [account EXCEPT ![i] = NewAccount]
     \/ Taken(req[r].id) /\ UNCHANGED <<account, passwords>>
  /\ Answer(r)
  /\ UNCHANGED <<session, reset>>

\* Slip: deleting and disabling stop at the own account only.
CheckNotSelf(r) ==
  /\ At(r, "target")
  /\ IF Live(req[r].id) /\ req[r].me # req[r].id THEN Go(r, "update") ELSE Answer(r)
  /\ UNCHANGED <<tables, passwords>>

\* The own account, GetByID, and is_admin unless it is enabled.
CheckTarget(r) ==
  /\ At(r, "target")
  /\ IF /\ Live(req[r].id) /\ req[r].me # req[r].id
        /\ req[r].op = "enable" \/ req[r].id \notin Admins
       THEN Go(r, "update") ELSE Answer(r)
  /\ UNCHANGED <<tables, passwords>>

SetDisabled(r) ==
  /\ At(r, "update") /\ req[r].op \in {"disable", "enable"}
  /\ account' = IF Live(req[r].id)
                  THEN [account EXCEPT ![req[r].id].disabled = (req[r].op = "disable")] ELSE account
  /\ Answer(r)
  /\ UNCHANGED <<session, reset, passwords>>

\* Sessions and reset tokens cascade.
Delete(r) ==
  /\ At(r, "update") /\ req[r].op = "delete"
  /\ IF Live(req[r].id)
       THEN /\ account' = [account EXCEPT ![req[r].id] = [NoAccount EXCEPT !.row = "gone"]]
            /\ session' = [s \in Sessions |-> IF session[s].user = req[r].id THEN GoneSession ELSE session[s]]
            /\ reset' = [t \in Resets |-> IF reset[t].user = req[r].id
                                            THEN [NoReset EXCEPT !.row = "gone"] ELSE reset[t]]
       ELSE UNCHANGED tables
  /\ Answer(r)
  /\ UNCHANGED passwords
----------------------------------------------------------------------------
\* A statement fails, the client leaves or the server is restarted.  The error
\* of the last statement of a reset is dropped: the answer is ok all the same.
Fail(r) ==
  /\ ~At(r, "idle")
  /\ Answer(r)
  /\ UNCHANGED <<tables, passwords>>

Sign(r) == CheckLogin(r) \/ CreateSession(r)
Change(r) == EnterPassword(r) \/ Verify(r) \/ StorePassword(r) \/ Forgot(r) \/ CreatePasswordReset(r)
               \/ Resolve(r) \/ ConsumePasswordReset(r)
Administer(r) == EnterManage(r) \/ EnterCli(r) \/ LookUpName(r) \/ Insert(r)
                   \/ CheckTarget(r) \/ SetDisabled(r) \/ Delete(r)

\* The history of a reset that came to its end.
Ended(r) ==
  /\ shut' = [shut EXCEPT ![req[r].id] = IF req[r].stored > @ THEN req[r].stored ELSE @]
  /\ answered' = answered \cup ({req[r].token} \ {Nobody})

Next ==
  \/ \E r \in Requests : EndSessions(r) /\ Ended(r)
  \/ /\ \/ \E r \in Requests : Sign(r) \/ Change(r) \/ Administer(r) \/ Fail(r)
        \/ \E s \in Sessions : Logout(s) \/ SweepSession(s)
        \/ Expire
     /\ UNCHANGED <<shut, answered>>

Spec == Init /\ [][Next]_vars
----------------------------------------------------------------------------
(* Properties. *)

\* Types, and the constraints of the tables: a username is that of one account.
TypeOK ==
  /\ account \in [Ids -> [row : Rows, password : Nat, disabled : BOOLEAN]]
  /\ session \in [Sessions -> [row : Rows, user : Ids \cup {Nobody}, expired : BOOLEAN,
                               shown : Nat, late : BOOLEAN]]
  /\ reset \in [Resets -> [row : Rows, user : Ids \cup {Nobody}, expired : BOOLEAN, used : BOOLEAN]]
  /\ req \in [Requests -> Request]
  /\ passwords \in Nat
  /\ shut \in [Ids -> Nat] /\ answered \subseteq Resets
  /\ \A i, j \in Ids : Live(i) /\ Live(j) /\ Name[i] = Name[j] => i = j

\* "Sessions and password resets cascade": neither outlives its account, though
\* a login or a forgotten password may be halfway when the account is deleted.
NothingOutlivesItsUser ==
  /\ \A s \in Sessions : session[s].row = "live" => Live(session[s].user)
  /\ \A t \in Resets : reset[t].row = "live" => Live(reset[t].user)

\* "Kill existing sessions so a leaked old password cannot be replayed": after a
\* reset was answered no session is left that was got with an older password, but
\* those of logins that had checked it when the reset ended the sessions.
ResetShutsOutStarted ==
  \A s \in Sessions : session[s].row = "live" /\ ~session[s].late
                        => session[s].shown >= shut[session[s].user]

\* A reset token is one-time: once a reset with it was answered and its use
\* recorded, only requests that had looked at it before store a password by it.
TokenIsOneTime ==
  [][\A r \in Requests : At(r, "idle") /\ At(r, "store")' => req'[r].token \notin answered]_vars

\* "Admin accounts cannot be disabled", "admin accounts cannot be deleted": by
\* no interleaving of checks and statements; somebody can always administer.
AdminsStay == \A i \in Admins : account[i].row # "gone" /\ ~account[i].disabled
=============================================================================
