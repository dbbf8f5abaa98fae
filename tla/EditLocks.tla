----------------------------- MODULE EditLocks -----------------------------
(***************************************************************************)
(* The exclusive edit lock of one page: a row of edit_locks with a lease.  *)
(* A handler makes several database calls without a transaction, reads the *)
(* clock between them, and expired rows are purged lazily.                 *)
(*                                                                         *)
(*   internal/httpapi/handlers/locks.go                                    *)
(*                                                                         *)
(* All agent tokens act as one user, "agent".  The locks are advisory: no  *)
(* write looks at them.  Several requests of one user may run at once (two *)
(* tabs, two agents, a heartbeat overtaken by a release).                  *)
(***************************************************************************)
EXTENDS Integers

CONSTANTS Handlers,    \* the requests that may run at once
          Users,       \* lock owners: session users and "agent"
          Nobody,      \* the owner in a free row
          Lease,       \* lockLease
          MaxDelay,    \* bound on the time from reading the clock to the write
                       \* (busy_timeout is 5 s, the lease 5 min)
          MaxTime,     \* bound on the clock
          MaxSwallowed \* bound on purges whose error is dropped

ASSUME NobodyAssumption == Nobody \notin Users
ASSUME DelayAssumption == Lease \in Nat /\ MaxDelay \in Nat /\ MaxDelay < Lease
ASSUME BoundsAssumption == MaxTime \in Nat /\ MaxSwallowed \in Nat

VARIABLES row,      \* the page's row of edit_locks
          now,      \* the clock
          req,      \* every handler's locals
          promise,  \* history: the expiry each user was last told, while neither
                    \* it nor a forced release gave the lock up
          swallowed

vars == <<row, now, req, promise, swallowed>>

Free == [owner |-> Nobody, expires |-> 0]
Held == row # Free
HeldBy(u) == row.owner = u
Leased(u, t) == [owner |-> u, expires |-> t + Lease]
Rows == {Free} \cup [owner : Users, expires : Nat]

Ops == {"status", "acquire", "release", "heartbeat", "force"}
Steps == {"idle", "purge", "get", "stamp", "write", "conflict", "reread"}
Answers == {"none", "status", "ok", "locked", "lost", "not_holder", "released", "failed"}

Idle == [pc |-> "idle", op |-> "status", user |-> Nobody, sent |-> 0, stamp |-> 0,
         out |-> "none"]
Request == [pc : Steps, op : Ops, user : Users \cup {Nobody}, sent : Nat, stamp : Nat,
            out : Answers]

Init ==
  /\ row = Free
  /\ now = 0
  /\ req = [h \in Handlers |-> Idle]
  /\ promise = [u \in Users |-> -1]
  /\ swallowed = 0
----------------------------------------------------------------------------
At(h, step) == req[h].pc = step
Is(h, op) == req[h].op = op
User(h) == req[h].user
Go(h, step) == req' = [req EXCEPT ![h].pc = step]

\* out: the last answer the handler gave.
Answer(h, out) == req' = [req EXCEPT ![h] = [Idle EXCEPT !.out = out]]

\* A client that is told its lock and until when (to the second, rounded down).
AnswerOk(h) ==
  /\ Answer(h, "ok")
  /\ promise' = IF HeldBy(User(h)) THEN [promise EXCEPT ![User(h)] = row.expires]
                                   ELSE promise

GiveUp(u) == promise' = [promise EXCEPT ![u] = -1]

Arrive(h) ==
  /\ At(h, "idle")
  /\ \E op \in Ops, u \in Users :
       req' = [req EXCEPT ![h] = [Idle EXCEPT !.pc = IF op = "force" THEN "write" ELSE "purge",
                                              !.op = op, !.user = u, !.sent = now]]
  /\ UNCHANGED <<row, now, promise, swallowed>>

\* Slip: expired rows are left alone.
PurgeNothing(h) ==
  /\ At(h, "purge")
  /\ Go(h, "get")
  /\ UNCHANGED <<row, now, promise, swallowed>>

\* purgeExpired, whose error is dropped
PurgeExpired(h) ==
  /\ At(h, "purge")
  /\ \/ /\ row' = IF Held /\ row.expires < now THEN Free ELSE row
        /\ UNCHANGED swallowed
     \/ /\ swallowed < MaxSwallowed /\ swallowed' = swallowed + 1
        /\ UNCHANGED row
  /\ Go(h, "get")
  /\ UNCHANGED <<now, promise>>

\* Status
GetStatus(h) ==
  /\ At(h, "get") /\ Is(h, "status")
  /\ Answer(h, "status")
  /\ UNCHANGED <<row, now, promise, swallowed>>

\* Acquire: a held lock is refused, the holder's own included.
GetAcquire(h) ==
  /\ At(h, "get") /\ Is(h, "acquire")
  /\ IF Held THEN Answer(h, "locked") ELSE Go(h, "stamp")
  /\ UNCHANGED <<row, now, promise, swallowed>>

\* holderOnly, for Release and Heartbeat
HolderOnly(h) ==
  /\ At(h, "get") /\ (Is(h, "release") \/ Is(h, "heartbeat"))
  /\ \/ ~Held /\ Answer(h, IF Is(h, "release") THEN "released" ELSE "lost")
     \/ Held /\ ~HeldBy(User(h)) /\ Answer(h, "not_holder")
     \/ HeldBy(User(h)) /\ Go(h, IF Is(h, "release") THEN "write" ELSE "stamp")
  /\ UNCHANGED <<row, now, promise, swallowed>>

\* time.Now()
Stamp(h) ==
  /\ At(h, "stamp")
  /\ req' = [req EXCEPT ![h].pc = "write", ![h].stamp = now]
  /\ UNCHANGED <<row, now, promise, swallowed>>

\* Acquire: the primary key admits one of the racing inserts.
Insert(h) ==
  /\ At(h, "write") /\ Is(h, "acquire")
  /\ \/ /\ ~Held
        /\ row' = Leased(User(h), req[h].stamp) /\ Go(h, "reread")
     \/ Held /\ UNCHANGED row /\ Go(h, "conflict")
  /\ UNCHANGED <<now, promise, swallowed>>

Conflict(h) ==
  /\ At(h, "conflict")
  /\ Answer(h, IF Held THEN "locked" ELSE "failed")
  /\ UNCHANGED <<row, now, promise, swallowed>>

\* Slip: the DELETE does not name the user.
DeleteAnybodys(h) ==
  /\ At(h, "write") /\ Is(h, "release")
  /\ row' = Free
  /\ GiveUp(User(h))
  /\ Answer(h, "released")
  /\ UNCHANGED <<now, swallowed>>

\* Release: DELETE ... WHERE user_id = ?
Delete(h) ==
  /\ At(h, "write") /\ Is(h, "release")
  /\ row' = IF HeldBy(User(h)) THEN Free ELSE row
  /\ GiveUp(User(h))
  /\ Answer(h, "released")
  /\ UNCHANGED <<now, swallowed>>

\* Slip: the lease is written whether or not the row is still there.
UpdateOrInsert(h) ==
  /\ At(h, "write") /\ Is(h, "heartbeat")
  /\ row' = [row EXCEPT !.expires = req[h].stamp + Lease]
  /\ Go(h, "reread")
  /\ UNCHANGED <<now, promise, swallowed>>

\* Heartbeat: UPDATE ... WHERE user_id = ?, the row count not looked at
Update(h) ==
  /\ At(h, "write") /\ Is(h, "heartbeat")
  /\ row' = IF HeldBy(User(h)) THEN Leased(User(h), req[h].stamp) ELSE row
  /\ Go(h, "reread")
  /\ UNCHANGED <<now, promise, swallowed>>

\* The read-back that Acquire and Heartbeat answer with 200.
Reread(h) ==
  /\ At(h, "reread")
  /\ AnswerOk(h)
  /\ UNCHANGED <<row, now, swallowed>>

\* ForceRelease
ForceRelease(h) ==
  /\ At(h, "write") /\ Is(h, "force")
  /\ row' = Free
  /\ promise' = [u \in Users |-> -1]
  /\ Answer(h, "released")
  /\ UNCHANGED <<now, swallowed>>

\* A database call fails, or the server dies: the row stays as it is.
Fail(h) ==
  /\ ~At(h, "idle")
  /\ Answer(h, "failed")
  /\ UNCHANGED <<row, now, promise, swallowed>>

Late(h) == At(h, "write") /\ ~Is(h, "release") /\ ~Is(h, "force")
             /\ now - req[h].stamp >= MaxDelay

Tick ==
  /\ now < MaxTime
  /\ \A h \in Handlers : ~Late(h)
  /\ now' = now + 1
  /\ UNCHANGED <<row, req, promise, swallowed>>

Handle(h) ==
  \/ Arrive(h) \/ PurgeExpired(h) \/ GetStatus(h) \/ GetAcquire(h) \/ HolderOnly(h)
  \/ Stamp(h) \/ Insert(h) \/ Conflict(h) \/ Delete(h) \/ Update(h) \/ Reread(h)
  \/ ForceRelease(h) \/ Fail(h)

Next == (\E h \in Handlers : Handle(h)) \/ Tick

Spec == Init /\ [][Next]_vars
----------------------------------------------------------------------------
(* Properties. *)

TypeOK ==
  /\ row \in Rows
  /\ now \in Nat
  /\ req \in [Handlers -> Request]
  /\ promise \in [Users -> Nat \cup {-1}]
  /\ swallowed \in Nat

\* "Only one user may hold the lock on a given page at a time": a user that was
\* told a lease keeps the page, against every race of acquires, heartbeats,
\* releases and purges, until it or a forced release gives the lock up; a
\* heartbeat overtaken by a later one shortens the lease by its delay, no more.
LeaseHonoured ==
  \A u \in Users : promise[u] - MaxDelay >= now => HeldBy(u)

\* "Every operation purges rows whose lease has elapsed, so a crashed or
\* offline editor frees the page": a lock that had expired when a request for
\* it was sent does not get the request refused, unless a purge has failed.
ExpiredNeverBlocks ==
  [][swallowed = 0 =>
       \A h \in Handlers : ~At(h, "idle") /\ req'[h].out = "locked" =>
         row.expires + MaxDelay >= req[h].sent]_vars
============================================================================
