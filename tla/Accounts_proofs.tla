-------------------------- MODULE Accounts_proofs --------------------------
(***************************************************************************)
(* TLAPS proofs about Accounts, for any requests, accounts, sessions and   *)
(* reset tokens and any number of passwords.                               *)
(***************************************************************************)
EXTENDS Accounts, TLAPS

Session == [row : Rows, user : Ids \cup {Nobody}, expired : BOOLEAN, shown : Nat, late : BOOLEAN]
Reset == [row : Rows, user : Ids \cup {Nobody}, expired : BOOLEAN, used : BOOLEAN]
Account == [row : Rows, password : Nat, disabled : BOOLEAN]

\* What a request's locals say of the tables, statement by statement.
RequestInv(r) ==
  /\ req[r].pc \notin {"idle", "verify"} => req[r].id \in Ids
  /\ At(r, "verify") => req[r].me \in Ids
  /\ At(r, "update") /\ req[r].op \in {"disable", "delete"} => req[r].id \notin Admins
  /\ At(r, "session") /\ ~req[r].late => shut[req[r].id] <= req[r].shown
  /\ req[r].pc \in {"verify", "store", "consume", "end"} /\ req[r].token # Nobody
       => reset[req[r].token].row # "none"
  /\ At(r, "end") /\ req[r].token # Nobody /\ reset[req[r].token].row = "live"
       => reset[req[r].token].used
  /\ req[r].pc \in {"consume", "end"} =>
       /\ req[r].stored <= passwords
       /\ Live(req[r].id) => req[r].stored <= account[req[r].id].password

\* Passwords are numbered in the order they are stored, and the one a reset
\* stored is not newer than the account's.
PasswordsOrdered ==
  \A i \in Ids : /\ account[i].password <= passwords
                 /\ shut[i] <= passwords
                 /\ Live(i) => shut[i] <= account[i].password

\* The token of an answered reset is used, or gone with its account.
AnsweredAreUsed ==
  \A t \in answered : reset[t].row # "none" /\ (reset[t].row = "live" => reset[t].used)

IInv ==
  /\ TypeOK
  /\ \A r \in Requests : RequestInv(r)
  /\ PasswordsOrdered
  /\ AnsweredAreUsed
  /\ NothingOutlivesItsUser
  /\ ResetShutsOutStarted
  /\ AdminsStay

LEMMA IdleType == Idle \in Request
BY DEF Idle, Request, Statements, Ops, Manage

\* The rows that are not there, or not there any more, are rows.
LEMMA EmptyRowTypes ==
  /\ NoAccount \in Account /\ [NoAccount EXCEPT !.row = "gone"] \in Account
  /\ NoSession \in Session /\ GoneSession \in Session
  /\ NoReset \in Reset /\ [NoReset EXCEPT !.row = "gone"] \in Reset
BY DEF NoAccount, Account, NoSession, GoneSession, Session, NoReset, Reset, Rows

\* A request that goes on to another statement keeps the type of its locals.
LEMMA LocalsTypes ==
  ASSUME NEW q \in Request, NEW p \in Statements, NEW i \in Ids \cup {Nobody}
  PROVE  /\ [q EXCEPT !.pc = p] \in Request
         /\ [q EXCEPT !.pc = p, !.id = i] \in Request
         /\ [q EXCEPT !.pc = p, !.token = Nobody] \in Request
BY DEF Request

LEMMA LocalsOf ==
  ASSUME IInv, NEW r \in Requests
  PROVE  req[r] \in Request
BY DEF IInv, TypeOK

LEMMA InitHolds == Init => IInv
<1> SUFFICES ASSUME Init PROVE IInv
  OBVIOUS
<1> USE DEF Init
<1>1. TypeOK
  BY IdleType, EmptyRowTypes DEF TypeOK, Live, NoAccount, Account, Session, Reset
<1>2. \A r \in Requests : RequestInv(r)
  BY DEF RequestInv, At, Idle
<1>3. PasswordsOrdered /\ AnsweredAreUsed
  BY DEF PasswordsOrdered, AnsweredAreUsed, NoAccount
<1>4. NothingOutlivesItsUser /\ ResetShutsOutStarted
  BY DEF NothingOutlivesItsUser, ResetShutsOutStarted, NoSession, NoReset
<1>5. AdminsStay
  BY AdminsAssumption DEF AdminsStay, NoAccount
<1>6. QED
  BY <1>1, <1>2, <1>3, <1>4, <1>5 DEF IInv

\* A request is answered or refused and the tables stay: nothing else is said of it.
LEMMA AnswerHolds ==
  ASSUME IInv, NEW r \in Requests, Answer(r), UNCHANGED <<tables, passwords, history>>
  PROVE  IInv'
<1> USE DEF IInv, tables, history, Answer
<1>1. TypeOK'
  BY NobodyAssumption DEF TypeOK, Request, Idle, Statements, Ops, Manage, Live
<1>2. ASSUME NEW q \in Requests PROVE RequestInv(q)'
  BY DEF RequestInv, At, Live, Idle, TypeOK, Request
<1>3. QED
  BY <1>1, <1>2 DEF PasswordsOrdered, AnsweredAreUsed, NothingOutlivesItsUser,
     ResetShutsOutStarted, AdminsStay, Live

\* A request goes on with other locals and the tables stay.
LEMMA StepHolds ==
  ASSUME IInv, NEW r \in Requests, NEW locals \in Request,
         req' = [req EXCEPT ![r] = locals], UNCHANGED <<tables, passwords, history>>,
         RequestInv(r)'
  PROVE  IInv'
<1> USE DEF IInv, tables, history
<1>1. TypeOK'
  BY DEF TypeOK, Live
<1>2. ASSUME NEW q \in Requests PROVE RequestInv(q)'
  <2>1. CASE q = r
    BY <2>1
  <2>2. CASE q # r
    BY <2>2 DEF RequestInv, At, Live, TypeOK
  <2>3. QED
    BY <2>1, <2>2
<1>3. QED
  BY <1>1, <1>2 DEF PasswordsOrdered, AnsweredAreUsed, NothingOutlivesItsUser,
     ResetShutsOutStarted, AdminsStay, Live
----------------------------------------------------------------------------
(* The actions that change no table. *)

LEMMA CheckLoginHolds ==
  ASSUME IInv, NEW r \in Requests, CheckLogin(r), UNCHANGED history
  PROVE  IInv'
<1>1. PICK i \in Ids : Live(i) /\ Arrive(r, [Idle EXCEPT !.pc = "session", !.id = i,
                                                       !.shown = account[i].password])
  BY DEF CheckLogin
<1> DEFINE locals == [Idle EXCEPT !.pc = "session", !.id = i, !.shown = account[i].password]
<1>2. account[i].password \in Nat
  BY DEF IInv, TypeOK
<1>3. locals \in Request
  BY <1>2, IdleType DEF Request, Idle, Statements
<1>4. req' = [req EXCEPT ![r] = locals] /\ UNCHANGED <<tables, passwords, history>>
  BY <1>1 DEF CheckLogin, Arrive
<1>5. RequestInv(r)'
  BY <1>1, <1>4 DEF RequestInv, At, Idle, IInv, TypeOK, PasswordsOrdered, Live, tables, history
<1>6. QED
  BY <1>3, <1>4, <1>5, StepHolds

LEMMA EnterPasswordHolds ==
  ASSUME IInv, NEW r \in Requests, EnterPassword(r), UNCHANGED history
  PROVE  IInv'
<1>1. PICK s \in Sessions :
        Valid(s) /\ Arrive(r, [Idle EXCEPT !.pc = "verify", !.op = "password", !.me = session[s].user])
  BY DEF EnterPassword
<1> DEFINE locals == [Idle EXCEPT !.pc = "verify", !.op = "password", !.me = session[s].user]
<1>2. session[s].user \in Ids
  BY <1>1 DEF IInv, NothingOutlivesItsUser, Valid, Live
<1>3. locals \in Request
  BY <1>2, IdleType DEF Request, Idle, Statements, Ops
<1>4. req' = [req EXCEPT ![r] = locals] /\ UNCHANGED <<tables, passwords, history>>
  BY <1>1 DEF EnterPassword, Arrive
<1>5. RequestInv(r)'
  BY <1>2, <1>4 DEF RequestInv, At, Idle, IInv, TypeOK
<1>6. QED
  BY <1>3, <1>4, <1>5, StepHolds

LEMMA EnterManageHolds ==
  ASSUME IInv, NEW r \in Requests, EnterManage(r), UNCHANGED history
  PROVE  IInv'
<1> DEFINE locals(s, op, i) ==
      [Idle EXCEPT !.pc = IF op = "create" THEN "taken" ELSE "target",
                   !.op = op, !.me = session[s].user, !.id = i]
<1>1. PICK s \in Sessions, op \in Manage, i \in Ids :
        Valid(s) /\ Arrive(r, locals(s, op, i))
  BY DEF EnterManage
<1>2. session[s].user \in Ids
  BY <1>1 DEF IInv, NothingOutlivesItsUser, Valid, Live
<1>3. locals(s, op, i) \in Request
  BY <1>2, IdleType DEF Request, Idle, Statements, Ops
<1>4. req' = [req EXCEPT ![r] = locals(s, op, i)] /\ UNCHANGED <<tables, passwords, history>>
  BY <1>1 DEF EnterManage, Arrive
<1>5. RequestInv(r)'
  BY <1>4 DEF RequestInv, At, Idle, IInv, TypeOK
<1> HIDE DEF locals
<1>6. QED
  BY <1>3, <1>4, <1>5, StepHolds

LEMMA EnterCliHolds ==
  ASSUME IInv, NEW r \in Requests, EnterCli(r), UNCHANGED history
  PROVE  IInv'
<1>1. PICK i \in Admins : Arrive(r, [Idle EXCEPT !.pc = "taken", !.op = "cli", !.id = i])
  BY DEF EnterCli
<1> DEFINE locals == [Idle EXCEPT !.pc = "taken", !.op = "cli", !.id = i]
<1>2. i \in Ids
  BY AdminsAssumption
<1>3. locals \in Request
  BY <1>2, IdleType DEF Request, Idle, Statements, Ops
<1>4. req' = [req EXCEPT ![r] = locals] /\ UNCHANGED <<tables, passwords, history>>
  BY <1>1 DEF EnterCli, Arrive
<1>5. RequestInv(r)'
  BY <1>2, <1>4 DEF RequestInv, At, Idle, IInv, TypeOK
<1>6. QED
  BY <1>3, <1>4, <1>5, StepHolds

LEMMA ForgotHolds ==
  ASSUME IInv, NEW r \in Requests, Forgot(r), UNCHANGED history
  PROVE  IInv'
<1>1. PICK i \in Ids : Arrive(r, [Idle EXCEPT !.pc = "mint", !.op = "forgot", !.id = i])
  BY DEF Forgot
<1> DEFINE locals == [Idle EXCEPT !.pc = "mint", !.op = "forgot", !.id = i]
<1>2. locals \in Request
  BY IdleType DEF Request, Idle, Statements, Ops
<1>3. req' = [req EXCEPT ![r] = locals] /\ UNCHANGED <<tables, passwords, history>>
  BY <1>1 DEF Forgot, Arrive
<1>4. RequestInv(r)'
  BY <1>3 DEF RequestInv, At, Idle, IInv, TypeOK
<1>5. QED
  BY <1>2, <1>3, <1>4, StepHolds

LEMMA ResolveHolds ==
  ASSUME IInv, NEW r \in Requests, Resolve(r), UNCHANGED history
  PROVE  IInv'
<1> DEFINE locals(t) == [Idle EXCEPT !.pc = "store", !.op = "reset", !.token = t,
                                     !.id = reset[t].user]
<1>1. PICK t \in Resets : reset[t].row = "live" /\ Arrive(r, locals(t))
  BY DEF Resolve
<1>2. reset[t].user \in Ids
  BY <1>1 DEF IInv, NothingOutlivesItsUser, Live
<1>3. locals(t) \in Request
  BY <1>2, IdleType DEF Request, Idle, Statements, Ops
<1>4. req' = [req EXCEPT ![r] = locals(t)] /\ UNCHANGED <<tables, passwords, history>>
  BY <1>1 DEF Resolve, Arrive
<1>5. RequestInv(r)'
  BY <1>1, <1>2, <1>4 DEF RequestInv, At, Idle, IInv, TypeOK, tables
<1> HIDE DEF locals
<1>6. QED
  BY <1>3, <1>4, <1>5, StepHolds

\* Going on with another statement and the same locals, or being answered.
LEMMA VerifyHolds ==
  ASSUME IInv, NEW r \in Requests, Verify(r), UNCHANGED history
  PROVE  IInv'
<1>1. CASE Answer(r)
  BY <1>1, AnswerHolds DEF Verify
<1>2. CASE ~Answer(r)
  <2>1. PICK i \in Ids : req' = [req EXCEPT ![r].pc = "store", ![r].id = i]
    BY <1>2 DEF Verify
  <2> DEFINE locals == [req[r] EXCEPT !.pc = "store", !.id = i]
  <2>2. locals \in Request
    BY LocalsOf, LocalsTypes DEF Statements
  <2>3. req' = [req EXCEPT ![r] = locals] /\ UNCHANGED <<tables, passwords, history>>
    BY <2>1 DEF Verify, IInv, TypeOK
  <2>4. req'[r].pc = "store" /\ req'[r].id = i /\ req'[r].token = req[r].token
    BY <2>3 DEF IInv, TypeOK, Request
  <2>5. req[r].token # Nobody => reset[req[r].token].row # "none"
    BY DEF Verify, At, IInv, RequestInv
  <2>6. RequestInv(r)'
    BY <2>3, <2>4, <2>5 DEF RequestInv, At, tables
  <2>7. QED
    BY <2>2, <2>3, <2>6, StepHolds
<1>3. QED
  BY <1>1, <1>2

LEMMA LookUpNameHolds ==
  ASSUME IInv, NEW r \in Requests, LookUpName(r), UNCHANGED history
  PROVE  IInv'
<1>1. CASE Answer(r)
  BY <1>1, AnswerHolds DEF LookUpName
<1>2. CASE Go(r, "insert")
  <2> DEFINE locals == [req[r] EXCEPT !.pc = "insert"]
  <2>1. locals \in Request
    BY LocalsOf, LocalsTypes DEF Statements
  <2>2. req' = [req EXCEPT ![r] = locals] /\ UNCHANGED <<tables, passwords, history>>
    BY <1>2 DEF LookUpName, Go, IInv, TypeOK
  <2>3. RequestInv(r)'
    BY <2>2 DEF RequestInv, At, IInv, TypeOK, LookUpName, Request
  <2>4. QED
    BY <2>1, <2>2, <2>3, StepHolds
<1>3. QED
  BY <1>1, <1>2 DEF LookUpName

LEMMA CheckTargetHolds ==
  ASSUME IInv, NEW r \in Requests, CheckTarget(r), UNCHANGED history
  PROVE  IInv'
<1>1. CASE Answer(r)
  BY <1>1, AnswerHolds DEF CheckTarget
<1>2. CASE ~Answer(r)
  <2> DEFINE locals == [req[r] EXCEPT !.pc = "update"]
  <2>1. locals \in Request
    BY LocalsOf, LocalsTypes DEF Statements
  <2>2. req' = [req EXCEPT ![r] = locals] /\ UNCHANGED <<tables, passwords, history>>
    BY <1>2 DEF CheckTarget, Go, IInv, TypeOK
  <2>3. req[r].op = "enable" \/ req[r].id \notin Admins
    BY <1>2 DEF CheckTarget
  <2>4. RequestInv(r)'
    BY <2>2, <2>3 DEF RequestInv, At, IInv, TypeOK, CheckTarget, Request
  <2>5. QED
    BY <2>1, <2>2, <2>4, StepHolds
<1>3. QED
  BY <1>1, <1>2
----------------------------------------------------------------------------
(* The actions that change a table. *)

\* Sessions that go away, or expire, take nothing else with them.
LEMMA SessionsGoHolds ==
  ASSUME IInv, UNCHANGED <<account, reset, req, passwords, history>>,
         session' \in [Sessions -> Session],
         \A s \in Sessions : session'[s].row = "live" =>
           /\ session[s].row = "live" /\ session'[s].user = session[s].user
           /\ session'[s].shown = session[s].shown /\ session'[s].late = session[s].late
  PROVE  IInv'
<1>1. TypeOK'
  BY DEF IInv, TypeOK, Live, history, Session
<1>2. \A r \in Requests : RequestInv(r)'
  BY DEF IInv, RequestInv, At, Live, history
<1>3. PasswordsOrdered' /\ AnsweredAreUsed' /\ AdminsStay'
  BY DEF IInv, PasswordsOrdered, AnsweredAreUsed, AdminsStay, Live, history
<1>4. NothingOutlivesItsUser' /\ ResetShutsOutStarted'
  BY DEF IInv, NothingOutlivesItsUser, ResetShutsOutStarted, Live, history
<1>5. QED
  BY <1>1, <1>2, <1>3, <1>4 DEF IInv

LEMMA LogoutHolds ==
  ASSUME IInv, NEW s \in Sessions, Logout(s) \/ SweepSession(s), UNCHANGED history
  PROVE  IInv'
<1>1. session' = [session EXCEPT ![s] = GoneSession] /\ UNCHANGED <<account, reset, req, passwords>>
  BY DEF Logout, SweepSession
<1>2. session \in [Sessions -> Session]
  BY DEF IInv, TypeOK, Session
<1>3. session' \in [Sessions -> Session]
  BY <1>1, <1>2, EmptyRowTypes
<1>4. \A x \in Sessions : session'[x].row = "live" => session'[x] = session[x]
  BY <1>1, <1>2 DEF GoneSession, NoSession
<1>5. QED
  BY <1>1, <1>3, <1>4, SessionsGoHolds

LEMMA ExpireHolds ==
  ASSUME IInv, Expire, UNCHANGED history
  PROVE  IInv'
<1>1. CASE \E s \in Sessions :
             session' = [session EXCEPT ![s].expired = TRUE] /\ UNCHANGED reset
  <2>1. PICK s \in Sessions : session' = [session EXCEPT ![s].expired = TRUE]
    BY <1>1
  <2>2. session \in [Sessions -> Session]
    BY DEF IInv, TypeOK, Session
  <2>3. session' \in [Sessions -> Session]
    BY <2>1, <2>2 DEF Session
  <2>4. \A x \in Sessions : session'[x].row = "live" =>
          /\ session[x].row = "live" /\ session'[x].user = session[x].user
          /\ session'[x].shown = session[x].shown /\ session'[x].late = session[x].late
    BY <2>1, <2>2 DEF Session
  <2>5. QED
    BY <1>1, <2>3, <2>4, SessionsGoHolds DEF Expire
<1>2. CASE \E t \in Resets :
             reset' = [reset EXCEPT ![t].expired = TRUE] /\ UNCHANGED session
  <2>1. PICK t \in Resets : reset' = [reset EXCEPT ![t].expired = TRUE]
    BY <1>2
  <2>2. reset \in [Resets -> Reset] /\ UNCHANGED <<account, session, req, passwords, history>>
    BY <1>2 DEF IInv, TypeOK, Reset, Expire
  <2>3. reset' \in [Resets -> Reset]
    BY <2>1, <2>2 DEF Reset
  <2>4. \A x \in Resets : /\ reset'[x].row = reset[x].row /\ reset'[x].used = reset[x].used
                          /\ reset'[x].user = reset[x].user
    BY <2>1, <2>2 DEF Reset
  <2>5. TypeOK'
    BY <2>2, <2>3 DEF IInv, TypeOK, Live, history, Reset
  <2>6. ASSUME NEW r \in Requests PROVE RequestInv(r)'
    <3>1. req[r].token # Nobody => req[r].token \in Resets
      BY DEF IInv, TypeOK, Request
    <3>2. QED
      BY <2>2, <2>4, <3>1 DEF IInv, RequestInv, At, Live, history
  <2>7. PasswordsOrdered' /\ AnsweredAreUsed' /\ AdminsStay'
    BY <2>2, <2>4 DEF IInv, TypeOK, PasswordsOrdered, AnsweredAreUsed, AdminsStay, Live, history
  <2>8. NothingOutlivesItsUser' /\ ResetShutsOutStarted'
    BY <2>2, <2>4 DEF IInv, NothingOutlivesItsUser, ResetShutsOutStarted, Live, history
  <2>9. QED
    BY <2>5, <2>6, <2>7, <2>8 DEF IInv
<1>3. QED
  BY <1>1, <1>2 DEF Expire

\* The foreign key holds the account, and the request's own history its password.
LEMMA CreateSessionHolds ==
  ASSUME IInv, NEW r \in Requests, CreateSession(r), UNCHANGED history
  PROVE  IInv'
<1>1. CASE UNCHANGED session
  BY <1>1, AnswerHolds DEF CreateSession, tables
<1>2. CASE ~UNCHANGED session
  <2>1. PICK s \in Sessions : session' = [session EXCEPT ![s] = NewSession(r)]
    BY <1>2 DEF CreateSession
  <2>2. /\ Answer(r) /\ At(r, "session") /\ Live(req[r].id)
        /\ UNCHANGED <<account, reset, passwords, shut, answered>>
    BY <1>2 DEF CreateSession, history
  <2>3. session \in [Sessions -> Session]
    BY DEF IInv, TypeOK, Session
  <2>4. NewSession(r) \in Session
    BY <2>2 DEF NewSession, Session, Rows, Live, IInv, TypeOK, Request
  <2>5. session' \in [Sessions -> Session]
    BY <2>1, <2>3, <2>4
  <2>6. req' \in [Requests -> Request]
    BY <2>2, IdleType DEF Answer, IInv, TypeOK
  <2>7. TypeOK'
    BY <2>2, <2>5, <2>6 DEF IInv, TypeOK, Live, Session
  <2>8. ASSUME NEW q \in Requests PROVE RequestInv(q)'
    BY <2>2 DEF IInv, TypeOK, RequestInv, At, Live, Answer, Idle
  <2>9. NothingOutlivesItsUser'
    BY <2>1, <2>2, <2>3 DEF IInv, NothingOutlivesItsUser, NewSession, Live
  <2>10. req[r].late \/ shut[req[r].id] <= req[r].shown
    BY <2>2 DEF IInv, RequestInv
  <2>11. shut[req[r].id] \in Nat /\ req[r].shown \in Nat
    BY <2>2 DEF IInv, TypeOK, Live, Request
  <2>12. ResetShutsOutStarted'
    BY <2>1, <2>2, <2>3, <2>10, <2>11 DEF IInv, ResetShutsOutStarted, NewSession
  <2>13. PasswordsOrdered' /\ AnsweredAreUsed' /\ AdminsStay'
    BY <2>2 DEF IInv, PasswordsOrdered, AnsweredAreUsed, AdminsStay, Live
  <2>14. QED
    BY <2>7, <2>8, <2>9, <2>12, <2>13 DEF IInv
<1>3. QED
  BY <1>1, <1>2

\* A password that is stored is newer than all before it.
LEMMA StorePasswordHolds ==
  ASSUME IInv, NEW r \in Requests, StorePassword(r), UNCHANGED history
  PROVE  IInv'
<1>1. CASE ~Live(req[r].id)
  BY <1>1, AnswerHolds DEF StorePassword, tables
<1>2. CASE Live(req[r].id)
  <2> DEFINE id == req[r].id
  <2>1. /\ At(r, "store") /\ id \in Ids
        /\ passwords' = passwords + 1
        /\ account' = [account EXCEPT ![id].password = passwords + 1]
        /\ UNCHANGED <<session, reset, shut, answered>>
    BY <1>2 DEF StorePassword, Live, history
  <2>2. PICK locals \in Request : /\ req' = [req EXCEPT ![r] = locals]
                                  /\ \/ locals = Idle
                                     \/ /\ locals.pc = "consume" /\ locals.stored = passwords + 1
                                        /\ locals.id = id /\ locals.token = req[r].token
    <3>1. CASE req[r].op = "reset"
      <4>1. req' = [req EXCEPT ![r] = [req[r] EXCEPT !.pc = "consume", !.stored = passwords + 1]]
        BY <1>2, <3>1 DEF StorePassword, IInv, TypeOK
      <4>2. [req[r] EXCEPT !.pc = "consume", !.stored = passwords + 1] \in Request
        <5>1. passwords + 1 \in Nat /\ req[r] \in Request
          BY DEF IInv, TypeOK
        <5>2. QED
          BY <5>1 DEF Request, Statements
      <4>3. /\ [req[r] EXCEPT !.pc = "consume", !.stored = passwords + 1].pc = "consume"
            /\ [req[r] EXCEPT !.pc = "consume", !.stored = passwords + 1].stored = passwords + 1
            /\ [req[r] EXCEPT !.pc = "consume", !.stored = passwords + 1].id = id
            /\ [req[r] EXCEPT !.pc = "consume", !.stored = passwords + 1].token = req[r].token
        BY DEF IInv, TypeOK, Request
      <4>4. QED
        BY <4>1, <4>2, <4>3
    <3>2. CASE req[r].op # "reset"
      BY <1>2, <3>2, IdleType DEF StorePassword, Answer
    <3>3. QED
      BY <3>1, <3>2
  <2>3. account \in [Ids -> Account] /\ passwords \in Nat
    BY DEF IInv, TypeOK, Account
  <2>4. account' \in [Ids -> Account]
    BY <2>1, <2>3 DEF Account
  <2>5. /\ \A i \in Ids : /\ account'[i].row = account[i].row
                          /\ account'[i].disabled = account[i].disabled
                          /\ account[i].password \in Nat
                          /\ account'[i].password = IF i = id THEN passwords + 1 ELSE account[i].password
    BY <2>1, <2>3 DEF Account
  <2>6. TypeOK'
    BY <2>1, <2>2, <2>3, <2>4, <2>5 DEF IInv, TypeOK, Live, Account
  <2>7. PasswordsOrdered'
    BY <2>1, <2>3, <2>5 DEF IInv, TypeOK, PasswordsOrdered, Live
  <2>8. ASSUME NEW q \in Requests PROVE RequestInv(q)'
    <3>1. CASE q = r
      <4>1. req'[r] = locals
        BY <2>2 DEF IInv, TypeOK
      <4>2. req[r].token # Nobody => reset[req[r].token].row # "none"
        BY <2>1 DEF IInv, RequestInv, At
      <4>3. CASE locals = Idle
        BY <3>1, <4>1, <4>3 DEF RequestInv, At, Idle
      <4>4. CASE locals # Idle
        BY <2>1, <2>2, <2>3, <2>5, <3>1, <4>1, <4>2, <4>4 DEF RequestInv, At
      <4>5. QED
        BY <4>3, <4>4
    <3>2. CASE q # r
      <4>1. req'[q] = req[q] /\ req[q].stored \in Nat
        BY <2>2, <3>2 DEF IInv, TypeOK, Request
      <4>2. RequestInv(q)
        BY DEF IInv
      <4>3. QED
        BY <2>1, <2>3, <2>5, <4>1, <4>2 DEF RequestInv, At, Live
    <3>3. QED
      BY <3>1, <3>2
  <2>9. NothingOutlivesItsUser' /\ ResetShutsOutStarted' /\ AnsweredAreUsed'
    BY <2>1, <2>5 DEF IInv, NothingOutlivesItsUser, ResetShutsOutStarted, AnsweredAreUsed, Live
  <2>10. AdminsStay'
    BY <2>5, AdminsAssumption DEF IInv, AdminsStay
  <2>11. QED
    BY <2>6, <2>7, <2>8, <2>9, <2>10 DEF IInv
<1>3. QED
  BY <1>1, <1>2

LEMMA CreatePasswordResetHolds ==
  ASSUME IInv, NEW r \in Requests, CreatePasswordReset(r), UNCHANGED history
  PROVE  IInv'
<1>1. CASE UNCHANGED reset
  BY <1>1, AnswerHolds DEF CreatePasswordReset, tables
<1>2. CASE ~UNCHANGED reset
  <2> DEFINE new == [NoReset EXCEPT !.row = "live", !.user = req[r].id]
  <2>1. PICK t \in Resets : reset[t].row = "none" /\ reset' = [reset EXCEPT ![t] = new]
    BY <1>2 DEF CreatePasswordReset
  <2>2. /\ At(r, "mint") /\ Live(req[r].id) /\ Answer(r)
        /\ UNCHANGED <<account, session, passwords, shut, answered>>
    BY <1>2 DEF CreatePasswordReset, history
  <2>3. reset \in [Resets -> Reset]
    BY DEF IInv, TypeOK, Reset
  <2>4. new \in Reset /\ new.row = "live" /\ new.user = req[r].id
    BY <2>2, EmptyRowTypes DEF NoReset, Reset, Rows, Live
  <2>5. reset' \in [Resets -> Reset]
    BY <2>1, <2>3, <2>4
  <2>6. \A x \in Resets : reset[x].row # "none" => reset'[x] = reset[x]
    BY <2>1, <2>3
  <2>7. req' \in [Requests -> Request]
    BY <2>2, IdleType DEF Answer, IInv, TypeOK
  <2>8. TypeOK'
    BY <2>2, <2>5, <2>7 DEF IInv, TypeOK, Live, Reset
  <2>9. ASSUME NEW q \in Requests PROVE RequestInv(q)'
    <3>1. req[q].token # Nobody => req[q].token \in Resets
      BY DEF IInv, TypeOK, Request
    <3>2. QED
      BY <2>2, <2>6, <3>1 DEF IInv, TypeOK, RequestInv, At, Live, Answer, Idle
  <2>10. NothingOutlivesItsUser'
    BY <2>1, <2>2, <2>3, <2>4 DEF IInv, NothingOutlivesItsUser, Live
  <2>11. AnsweredAreUsed'
    BY <2>2, <2>6 DEF IInv, TypeOK, AnsweredAreUsed
  <2>12. PasswordsOrdered' /\ ResetShutsOutStarted' /\ AdminsStay'
    BY <2>2 DEF IInv, PasswordsOrdered, ResetShutsOutStarted, AdminsStay, Live
  <2>13. QED
    BY <2>8, <2>9, <2>10, <2>11, <2>12 DEF IInv
<1>3. QED
  BY <1>1, <1>2

LEMMA ConsumePasswordResetHolds ==
  ASSUME IInv, NEW r \in Requests, ConsumePasswordReset(r), UNCHANGED history
  PROVE  IInv'
<1> DEFINE id == req[r].id
<1>1. At(r, "consume") /\ UNCHANGED <<account, session, passwords, shut, answered>>
  BY DEF ConsumePasswordReset, history
<1>2. PICK locals \in Request : /\ req' = [req EXCEPT ![r] = locals]
                                /\ locals.pc = "end" /\ locals.id = id
                                /\ locals.stored = req[r].stored
                                /\ \/ locals.token = Nobody /\ UNCHANGED reset
                                   \/ /\ locals.token = req[r].token
                                      /\ reset' = [reset EXCEPT ![req[r].token].used = TRUE]
  <2>1. CASE reset' = [reset EXCEPT ![req[r].token].used = TRUE] /\ Go(r, "end")
    <3>1. req' = [req EXCEPT ![r] = [req[r] EXCEPT !.pc = "end"]]
      BY <2>1 DEF Go, IInv, TypeOK
    <3>2. [req[r] EXCEPT !.pc = "end"] \in Request
      BY LocalsOf, LocalsTypes DEF Statements
    <3>3. /\ [req[r] EXCEPT !.pc = "end"].pc = "end" /\ [req[r] EXCEPT !.pc = "end"].id = id
          /\ [req[r] EXCEPT !.pc = "end"].stored = req[r].stored
          /\ [req[r] EXCEPT !.pc = "end"].token = req[r].token
      BY DEF IInv, TypeOK, Request
    <3>4. QED
      BY <2>1, <3>1, <3>2, <3>3
  <2>2. CASE req' = [req EXCEPT ![r].pc = "end", ![r].token = Nobody] /\ UNCHANGED reset
    <3>1. req' = [req EXCEPT ![r] = [req[r] EXCEPT !.pc = "end", !.token = Nobody]]
      BY <2>2 DEF IInv, TypeOK
    <3>2. [req[r] EXCEPT !.pc = "end", !.token = Nobody] \in Request
      BY LocalsOf, LocalsTypes DEF Statements
    <3>3. /\ [req[r] EXCEPT !.pc = "end", !.token = Nobody].pc = "end"
          /\ [req[r] EXCEPT !.pc = "end", !.token = Nobody].id = id
          /\ [req[r] EXCEPT !.pc = "end", !.token = Nobody].stored = req[r].stored
          /\ [req[r] EXCEPT !.pc = "end", !.token = Nobody].token = Nobody
      BY DEF IInv, TypeOK, Request
    <3>4. QED
      BY <2>2, <3>1, <3>2, <3>3
  <2>3. QED
    BY <2>1, <2>2 DEF ConsumePasswordReset
<1>3. reset \in [Resets -> Reset] /\ (req[r].token # Nobody => req[r].token \in Resets)
  BY DEF IInv, TypeOK, Reset, Request
<1>4. reset' \in [Resets -> Reset]
  BY <1>2, <1>3 DEF Reset
<1>5. \A t \in Resets : /\ reset'[t].row = reset[t].row /\ reset'[t].user = reset[t].user
                        /\ reset[t].used => reset'[t].used
  BY <1>2, <1>3 DEF Reset
<1>6. TypeOK'
  BY <1>1, <1>2, <1>4 DEF IInv, TypeOK, Live, Reset
<1>7. ASSUME NEW q \in Requests PROVE RequestInv(q)'
  <2>1. CASE q = r
    <3>1. req'[r] = locals
      BY <1>2 DEF IInv, TypeOK
    <3>2. /\ id \in Ids /\ req[r].stored <= passwords
          /\ Live(id) => req[r].stored <= account[id].password
          /\ req[r].token # Nobody => reset[req[r].token].row # "none"
      BY <1>1 DEF IInv, RequestInv, At
    <3>3. locals.token # Nobody => reset'[locals.token].used /\ reset'[locals.token].row # "none"
      BY <1>2, <1>3, <1>5, <3>2 DEF Reset
    <3>4. QED
      BY <1>1, <1>2, <2>1, <3>1, <3>2, <3>3 DEF RequestInv, At, Live
  <2>2. CASE q # r
    <3>1. req'[q] = req[q] /\ (req[q].token # Nobody => req[q].token \in Resets)
      BY <1>2, <2>2 DEF IInv, TypeOK, Request
    <3>2. RequestInv(q)
      BY DEF IInv
    <3>3. QED
      BY <1>1, <1>5, <3>1, <3>2 DEF RequestInv, At, Live
  <2>3. QED
    BY <2>1, <2>2
<1>8. PasswordsOrdered' /\ AdminsStay' /\ ResetShutsOutStarted'
  BY <1>1 DEF IInv, PasswordsOrdered, AdminsStay, ResetShutsOutStarted, Live
<1>9. NothingOutlivesItsUser' /\ AnsweredAreUsed'
  BY <1>1, <1>5 DEF IInv, TypeOK, NothingOutlivesItsUser, AnsweredAreUsed, Live
<1>10. QED
  BY <1>6, <1>7, <1>8, <1>9 DEF IInv

\* The sessions of the account are gone; a login that may still store one is marked.
LEMMA EndSessionsHolds ==
  ASSUME IInv, NEW r \in Requests, EndSessions(r), Ended(r)
  PROVE  IInv'
<1> DEFINE id == req[r].id
<1>1. /\ At(r, "end") /\ id \in Ids /\ req[r].stored <= passwords
      /\ Live(id) => req[r].stored <= account[id].password
      /\ req[r].stored \in Nat /\ shut[id] \in Nat
      /\ UNCHANGED <<account, reset, passwords>>
  BY DEF EndSessions, IInv, RequestInv, At, TypeOK, Request
<1>2. session' = [s \in Sessions |-> IF session[s].user = id THEN GoneSession ELSE session[s]]
  BY DEF EndSessions
<1>3. req' = Marked(r, id)
  BY DEF EndSessions
<1>4. shut' = [shut EXCEPT ![id] = IF req[r].stored > shut[id] THEN req[r].stored ELSE shut[id]]
  BY DEF Ended
<1>5. answered' = answered \cup ({req[r].token} \ {Nobody})
  BY DEF Ended
<1>6. session \in [Sessions -> Session] /\ req \in [Requests -> Request] /\ shut \in [Ids -> Nat]
  BY DEF IInv, TypeOK, Session
<1>7. session' \in [Sessions -> Session]
  BY <1>2, <1>6, EmptyRowTypes
<1>8. shut' \in [Ids -> Nat]
  BY <1>1, <1>4, <1>6
<1>9. \A q \in Requests :
        /\ req'[q] \in Request
        /\ q = r => req'[q] = Idle
        /\ q # r /\ At(q, "session") /\ req[q].id = id => /\ req'[q].pc = "session"
                                                          /\ req'[q].id = req[q].id
                                                          /\ req'[q].late
        /\ q # r /\ ~(At(q, "session") /\ req[q].id = id) => req'[q] = req[q]
  <2> TAKE q \in Requests
  <2>1. CASE q # r /\ At(q, "session") /\ req[q].id = id
    <3>1. req'[q] = [req[q] EXCEPT !.late = TRUE]
      BY <1>3, <2>1 DEF Marked
    <3>2. QED
      BY <1>6, <2>1, <3>1 DEF Request, At
  <2>2. CASE ~(q # r /\ At(q, "session") /\ req[q].id = id)
    BY <1>3, <1>6, <2>2, IdleType DEF Marked
  <2>3. QED
    BY <2>1, <2>2
<1>10. req' \in [Requests -> Request]
  BY <1>3, <1>9 DEF Marked
<1>11. answered' \subseteq Resets
  BY <1>5, <1>6 DEF IInv, TypeOK, Request
<1>12. TypeOK'
  BY <1>1, <1>7, <1>8, <1>10, <1>11 DEF IInv, TypeOK, Live, Session
<1>13. ASSUME NEW q \in Requests PROVE RequestInv(q)'
  <2>1. RequestInv(q)
    BY DEF IInv
  <2>2. CASE q = r
    BY <1>9, <2>2 DEF RequestInv, At, Idle
  <2>3. CASE q # r /\ At(q, "session") /\ req[q].id = id
    BY <1>1, <1>9, <2>3 DEF RequestInv, At
  <2>4. CASE q # r /\ ~(At(q, "session") /\ req[q].id = id)
    <3>1. req'[q] = req[q]
      BY <1>9, <2>4
    <3>2. At(q, "session") => shut'[req[q].id] = shut[req[q].id]
      BY <1>4, <1>6, <2>1, <2>4 DEF RequestInv, At
    <3>3. QED
      BY <1>1, <2>1, <3>1, <3>2 DEF RequestInv, At, Live
  <2>5. QED
    BY <2>2, <2>3, <2>4
<1>14. PasswordsOrdered'
  <2>1. \A i \in Ids : shut'[i] = shut[i] \/ (i = id /\ shut'[i] = req[r].stored)
    BY <1>1, <1>4, <1>6
  <2>2. QED
    BY <1>1, <2>1 DEF IInv, PasswordsOrdered, Live
<1>15. AnsweredAreUsed'
  BY <1>1, <1>5 DEF IInv, AnsweredAreUsed, RequestInv, At
<1>16. \A s \in Sessions : session'[s].row = "live" =>
         session'[s] = session[s] /\ session[s].user # id
  BY <1>2 DEF GoneSession, NoSession
<1>17. NothingOutlivesItsUser'
  BY <1>1, <1>16 DEF IInv, NothingOutlivesItsUser, Live
<1>18. ResetShutsOutStarted'
  <2>1. \A s \in Sessions : session'[s].row = "live" => shut'[session[s].user] = shut[session[s].user]
    BY <1>4, <1>6, <1>16 DEF IInv, NothingOutlivesItsUser, Live
  <2>2. QED
    BY <1>16, <2>1 DEF IInv, ResetShutsOutStarted
<1>19. AdminsStay'
  BY <1>1 DEF IInv, AdminsStay
<1>20. QED
  BY <1>12, <1>13, <1>14, <1>15, <1>17, <1>18, <1>19 DEF IInv

\* The unique key holds the username.
LEMMA InsertHolds ==
  ASSUME IInv, NEW r \in Requests, Insert(r), UNCHANGED history
  PROVE  IInv'
<1>1. CASE Taken(req[r].id)
  BY <1>1, AnswerHolds DEF Insert, tables
<1>2. CASE ~Taken(req[r].id)
  <2>1. PICK i \in Ids : /\ account[i].row = "none" /\ Name[i] = Name[req[r].id]
                         /\ account' = [account EXCEPT ![i] = NewAccount]
    BY <1>2 DEF Insert
  <2>2. /\ passwords' = passwords + 1 /\ Answer(r)
        /\ UNCHANGED <<session, reset, shut, answered>>
    BY <1>2 DEF Insert, history
  <2>3. account \in [Ids -> Account] /\ passwords \in Nat
    BY DEF IInv, TypeOK, Account
  <2>4. NewAccount \in Account /\ NewAccount.row = "live" /\ ~NewAccount.disabled
          /\ NewAccount.password = passwords + 1
    BY <2>3 DEF NewAccount, Account, Rows
  <2>5. account' \in [Ids -> Account]
    BY <2>1, <2>3, <2>4
  <2>6. /\ account'[i] = NewAccount
        /\ \A j \in Ids : j # i => account'[j] = account[j]
    BY <2>1, <2>3
  <2>7. \A j \in Ids : Live(j) => Live(j)' /\ j # i
    BY <2>1, <2>6 DEF Live
  <2>8. req' \in [Requests -> Request]
    BY <2>2, IdleType DEF Answer, IInv, TypeOK
  <2>9. \A j, k \in Ids : Live(j)' /\ Live(k)' /\ Name[j] = Name[k] => j = k
    <3>1. \A j \in Ids : Live(j) => Name[j] # Name[i]
      BY <1>2, <2>1 DEF Taken
    <3>2. \A j \in Ids : Live(j)' => j = i \/ Live(j)
      BY <2>6 DEF Live
    <3>3. QED
      BY <3>1, <3>2 DEF IInv, TypeOK
  <2>10. TypeOK'
    BY <2>2, <2>3, <2>5, <2>8, <2>9 DEF IInv, TypeOK, Account
  <2>11. PasswordsOrdered'
    <3>1. \A j \in Ids : account[j].password \in Nat /\ shut[j] \in Nat
      BY DEF IInv, TypeOK
    <3>2. QED
      BY <2>2, <2>3, <2>4, <2>6, <3>1 DEF IInv, PasswordsOrdered, Live
  <2>12. ASSUME NEW q \in Requests PROVE RequestInv(q)'
    <3>1. CASE q = r
      BY <2>2, <3>1 DEF Answer, RequestInv, At, Idle, IInv, TypeOK
    <3>2. CASE q # r
      <4>1. req'[q] = req[q] /\ req[q].stored \in Nat
        BY <2>2, <3>2 DEF Answer, IInv, TypeOK, Request
      <4>2. RequestInv(q)
        BY DEF IInv
      <4>3. req[q].pc \in {"consume", "end"} =>
              /\ req[q].stored <= passwords'
              /\ Live(req[q].id)' => req[q].stored <= account'[req[q].id].password
        BY <2>2, <2>3, <2>4, <2>6, <4>1, <4>2 DEF RequestInv, Live
      <4>4. QED
        BY <2>2, <4>1, <4>2, <4>3 DEF RequestInv, At, Live
    <3>3. QED
      BY <3>1, <3>2
  <2>13. NothingOutlivesItsUser'
    BY <2>2, <2>7 DEF IInv, NothingOutlivesItsUser, Live
  <2>14. ResetShutsOutStarted' /\ AnsweredAreUsed'
    BY <2>2 DEF IInv, ResetShutsOutStarted, AnsweredAreUsed
  <2>15. AdminsStay'
    BY <2>4, <2>6, AdminsAssumption DEF IInv, AdminsStay
  <2>16. QED
    BY <2>10, <2>11, <2>12, <2>13, <2>14, <2>15 DEF IInv
<1>3. QED
  BY <1>1, <1>2

\* Only "enable" gets an administrator's account this far.
LEMMA SetDisabledHolds ==
  ASSUME IInv, NEW r \in Requests, SetDisabled(r), UNCHANGED history
  PROVE  IInv'
<1> DEFINE id == req[r].id
<1>1. CASE ~Live(id)
  BY <1>1, AnswerHolds DEF SetDisabled, tables
<1>2. CASE Live(id)
  <2>1. /\ account' = [account EXCEPT ![id].disabled = (req[r].op = "disable")]
        /\ At(r, "update") /\ Answer(r) /\ id \in Ids
        /\ UNCHANGED <<session, reset, passwords, shut, answered>>
    BY <1>2 DEF SetDisabled, history, Live
  <2>2. account \in [Ids -> Account]
    BY DEF IInv, TypeOK, Account
  <2>3. account' \in [Ids -> Account]
    BY <2>1, <2>2 DEF Account
  <2>4. \A i \in Ids : /\ account'[i].row = account[i].row
                       /\ account'[i].password = account[i].password
                       /\ i # id => account'[i] = account[i]
                       /\ i = id => account'[i].disabled = (req[r].op = "disable")
    BY <2>1, <2>2 DEF Account
  <2>5. req' \in [Requests -> Request]
    BY <2>1, IdleType DEF Answer, IInv, TypeOK
  <2>6. TypeOK'
    BY <2>1, <2>3, <2>4, <2>5 DEF IInv, TypeOK, Live, Account
  <2>7. ASSUME NEW q \in Requests PROVE RequestInv(q)'
    BY <2>1, <2>4 DEF IInv, TypeOK, RequestInv, At, Live, Answer, Idle
  <2>8. id \in Admins => req[r].op # "disable"
    BY <2>1 DEF IInv, RequestInv
  <2>9. AdminsStay'
    BY <2>4, <2>8, AdminsAssumption DEF IInv, AdminsStay
  <2>10. PasswordsOrdered' /\ AnsweredAreUsed'
    BY <2>1, <2>4 DEF IInv, PasswordsOrdered, AnsweredAreUsed, Live
  <2>11. NothingOutlivesItsUser' /\ ResetShutsOutStarted'
    BY <2>1, <2>4 DEF IInv, NothingOutlivesItsUser, ResetShutsOutStarted, Live
  <2>12. QED
    BY <2>6, <2>7, <2>9, <2>10, <2>11 DEF IInv
<1>3. QED
  BY <1>1, <1>2

\* What refers to the account goes with it.
LEMMA DeleteHolds ==
  ASSUME IInv, NEW r \in Requests, Delete(r), UNCHANGED history
  PROVE  IInv'
<1> DEFINE id == req[r].id
<1>1. CASE ~Live(id)
  BY <1>1, AnswerHolds DEF Delete, tables
<1>2. CASE Live(id)
  <2>1. /\ account' = [account EXCEPT ![id] = [NoAccount EXCEPT !.row = "gone"]]
        /\ session' = [s \in Sessions |-> IF session[s].user = id THEN GoneSession ELSE session[s]]
        /\ reset' = [t \in Resets |-> IF reset[t].user = id
                                        THEN [NoReset EXCEPT !.row = "gone"] ELSE reset[t]]
        /\ At(r, "update") /\ req[r].op = "delete" /\ Answer(r) /\ id \in Ids
        /\ UNCHANGED <<passwords, shut, answered>>
    BY <1>2 DEF Delete, history, Live
  <2>2. /\ account \in [Ids -> Account] /\ session \in [Sessions -> Session]
        /\ reset \in [Resets -> Reset] /\ passwords \in Nat
    BY DEF IInv, TypeOK, Account, Session, Reset
  <2>3. /\ account' \in [Ids -> Account] /\ session' \in [Sessions -> Session]
        /\ reset' \in [Resets -> Reset]
    BY <2>1, <2>2, EmptyRowTypes
  <2>4. /\ account'[id].row = "gone" /\ account'[id].password = 0
        /\ \A i \in Ids : i # id => account'[i] = account[i]
    BY <2>1, <2>2 DEF NoAccount
  <2>5. \A s \in Sessions : session'[s].row = "live" => session'[s] = session[s] /\ session[s].user # id
    BY <2>1 DEF GoneSession, NoSession
  <2>6. \A t \in Resets : \/ reset'[t].row = "gone"
                          \/ reset'[t] = reset[t] /\ reset[t].user # id
    BY <2>1 DEF NoReset
  <2>7. \A i \in Ids : Live(i)' => i # id /\ Live(i)
    BY <2>4 DEF Live
  <2>8. req' \in [Requests -> Request]
    BY <2>1, IdleType DEF Answer, IInv, TypeOK
  <2>9. TypeOK'
    BY <2>1, <2>2, <2>3, <2>7, <2>8 DEF IInv, TypeOK, Account, Session, Reset
  <2>10. ASSUME NEW q \in Requests PROVE RequestInv(q)'
    <3>1. CASE q = r
      BY <2>1, <3>1 DEF Answer, RequestInv, At, Idle, IInv, TypeOK
    <3>2. CASE q # r
      <4>1. req'[q] = req[q] /\ (req[q].token # Nobody => req[q].token \in Resets)
        BY <2>1, <3>2 DEF Answer, IInv, TypeOK, Request
      <4>2. RequestInv(q)
        BY DEF IInv
      <4>3. req[q].pc \in {"consume", "end"} /\ Live(req[q].id)' =>
              req[q].stored <= account'[req[q].id].password
        BY <2>4, <2>7, <4>1, <4>2 DEF RequestInv
      <4>4. QED
        BY <2>1, <2>6, <4>1, <4>2, <4>3 DEF RequestInv, At
    <3>3. QED
      BY <3>1, <3>2
  <2>11. PasswordsOrdered'
    BY <2>1, <2>2, <2>4, <2>7 DEF IInv, PasswordsOrdered
  <2>12. NothingOutlivesItsUser'
    BY <2>4, <2>5, <2>6 DEF IInv, NothingOutlivesItsUser, Live
  <2>13. ResetShutsOutStarted' /\ AnsweredAreUsed'
    BY <2>1, <2>5, <2>6 DEF IInv, TypeOK, ResetShutsOutStarted, AnsweredAreUsed
  <2>14. id \notin Admins
    BY <2>1 DEF IInv, RequestInv
  <2>15. AdminsStay'
    BY <2>4, <2>14, AdminsAssumption DEF IInv, AdminsStay
  <2>16. QED
    BY <2>9, <2>10, <2>11, <2>12, <2>13, <2>15 DEF IInv
<1>3. QED
  BY <1>1, <1>2
----------------------------------------------------------------------------
(* The invariant, and the properties it implies. *)

LEMMA NextHolds == IInv /\ [Next]_vars => IInv'
<1> SUFFICES ASSUME IInv, [Next]_vars PROVE IInv'
  OBVIOUS
<1>1. CASE UNCHANGED vars
  <2>1. UNCHANGED <<account, session, reset, req, passwords, shut, answered>>
    BY <1>1 DEF vars, tables, history
  <2>2. TypeOK' /\ \A r \in Requests : RequestInv(r)'
    BY <2>1 DEF IInv, TypeOK, RequestInv, At, Live
  <2>3. QED
    BY <2>1, <2>2 DEF IInv, PasswordsOrdered, AnsweredAreUsed, NothingOutlivesItsUser,
       ResetShutsOutStarted, AdminsStay, Live
<1>2. CASE \E r \in Requests : EndSessions(r) /\ Ended(r)
  BY <1>2, EndSessionsHolds
<1>3. ASSUME NEW r \in Requests, Sign(r) \/ Change(r), UNCHANGED history PROVE IInv'
  BY <1>3, CheckLoginHolds, CreateSessionHolds, EnterPasswordHolds, VerifyHolds,
     StorePasswordHolds, ForgotHolds, CreatePasswordResetHolds, ResolveHolds,
     ConsumePasswordResetHolds DEF Sign, Change
<1>4. ASSUME NEW r \in Requests, Administer(r), UNCHANGED history PROVE IInv'
  BY <1>4, EnterManageHolds, EnterCliHolds, LookUpNameHolds, InsertHolds, CheckTargetHolds,
     SetDisabledHolds, DeleteHolds DEF Administer
<1>5. ASSUME NEW r \in Requests, Fail(r), UNCHANGED history PROVE IInv'
  BY <1>5, AnswerHolds DEF Fail
<1>6. QED
  BY <1>1, <1>2, <1>3, <1>4, <1>5, LogoutHolds, ExpireHolds DEF Next, history

\* The inductive invariant holds in every reachable state.
THEOREM InvariantHolds == Spec => []IInv
<1>1. QED
  BY InitHolds, NextHolds, PTL DEF Spec

\* Every variable keeps its type, and no two live accounts have one username.
THEOREM TypeCorrect == Spec => []TypeOK
<1>1. IInv => TypeOK
  BY DEF IInv
<1>2. QED
  BY <1>1, InvariantHolds, PTL

\* The cascade is complete: no session and no reset token outlives its account,
\* also when a request that was to store one is halfway at the deletion.
THEOREM CascadeComplete == Spec => []NothingOutlivesItsUser
<1>1. IInv => NothingOutlivesItsUser
  BY DEF IInv
<1>2. QED
  BY <1>1, InvariantHolds, PTL

\* A reset that ended the sessions leaves none that an older password got,
\* except to logins that were under way.
THEOREM ResetShutsOld == Spec => []ResetShutsOutStarted
<1>1. IInv => ResetShutsOutStarted
  BY DEF IInv
<1>2. QED
  BY <1>1, InvariantHolds, PTL

\* No interleaving disables or deletes an administrator.
THEOREM AdminsRemain == Spec => []AdminsStay
<1>1. IInv => AdminsStay
  BY DEF IInv
<1>2. QED
  BY <1>1, InvariantHolds, PTL

\* Once a reset was answered and its token recorded as used, no request starts
\* another with that token.
THEOREM TokensAreOneTime == Spec => TokenIsOneTime
<1>1. ASSUME IInv, Next, NEW r \in Requests, At(r, "idle"), At(r, "store")'
      PROVE  req'[r].token \notin answered
  <2>1. /\ req[r].pc = "idle" /\ req'[r].pc = "store"
        /\ req \in [Requests -> Request]
    BY <1>1 DEF At, IInv, TypeOK
  <2>2. PICK q \in Requests : Sign(q) \/ Change(q) \/ Administer(q) \/ Fail(q)
    <3>1. ASSUME NEW q \in Requests, EndSessions(q) PROVE FALSE
      <4>1. req'[r] = Idle \/ req'[r].pc = req[r].pc
        BY <2>1, <3>1 DEF EndSessions, Marked, At
      <4>2. QED
        BY <2>1, <4>1 DEF Idle
    <3>2. ~UNCHANGED req
      BY <2>1
    <3>3. QED
      BY <1>1, <3>1, <3>2 DEF Next, Logout, SweepSession, Expire
  <2>3. q = r
    <3>1. Sign(q) \/ Change(q) => \A x \in Requests : x # q => req'[x] = req[x]
      BY <2>1 DEF Sign, Change, CheckLogin, CreateSession, EnterPassword, Verify, StorePassword,
         Forgot, CreatePasswordReset, Resolve, ConsumePasswordReset, Arrive, Answer, Go
    <3>2. Administer(q) \/ Fail(q) => \A x \in Requests : x # q => req'[x] = req[x]
      BY <2>1 DEF Administer, EnterManage, EnterCli, LookUpName, Insert, CheckTarget, SetDisabled,
         Delete, Fail, Arrive, Answer, Go
    <3>3. QED
      BY <2>1, <2>2, <3>1, <3>2
  <2>4. Resolve(r)
    <3>1. ~Sign(r) /\ ~Administer(r) /\ ~Fail(r)
      <4>1. ~CheckLogin(r)
        BY <2>1 DEF CheckLogin, Arrive, Idle
      <4>2. ~EnterManage(r)
        BY <2>1 DEF EnterManage, Arrive, Idle
      <4>3. ~EnterCli(r)
        BY <2>1 DEF EnterCli, Arrive, Idle
      <4>4. QED
        BY <2>1, <4>1, <4>2, <4>3 DEF Sign, Administer, CreateSession, LookUpName, Insert, CheckTarget,
           SetDisabled, Delete, Fail, At
    <3>2. ~EnterPassword(r) /\ ~Forgot(r)
      BY <2>1 DEF EnterPassword, Forgot, Arrive, Idle
    <3>3. QED
      BY <2>1, <2>2, <2>3, <3>1, <3>2 DEF Change, Verify, StorePassword, CreatePasswordReset,
         ConsumePasswordReset, At
  <2>5. PICK t \in Resets : reset[t].row = "live" /\ ~reset[t].used /\ req'[r].token = t
    BY <2>1, <2>4 DEF Resolve, Arrive, Idle
  <2>6. QED
    BY <1>1, <2>5 DEF IInv, AnsweredAreUsed
<1>2. IInv /\ [Next]_vars =>
        [\A r \in Requests : At(r, "idle") /\ At(r, "store")' => req'[r].token \notin answered]_vars
  BY <1>1
<1>3. QED
  BY <1>2, InvariantHolds, PTL DEF Spec, TokenIsOneTime
============================================================================
