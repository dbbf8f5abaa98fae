-------------------------- MODULE EditLocks_proofs --------------------------
(***************************************************************************)
(* TLAPS proofs about EditLocks, for any handlers and users, any lease     *)
(* longer than the delay of a write, and any bounds.                       *)
(***************************************************************************)
EXTENDS EditLocks, TLAPS

\* A handler writes a clock reading that is at most MaxDelay old, and once it has
\* purged, a row that had expired before its request was sent is gone.
HandlerInv(h) ==
  /\ ~At(h, "idle") => User(h) \in Users /\ req[h].sent <= now /\ req[h].out = "none"
  /\ At(h, "conflict") => Is(h, "acquire")
  /\ At(h, "write") /\ ~Is(h, "release") /\ ~Is(h, "force") =>
       req[h].stamp <= now /\ now - req[h].stamp <= MaxDelay
  /\ swallowed = 0 /\ ~At(h, "idle") /\ ~At(h, "purge") /\ ~Is(h, "force") /\ Held =>
       row.expires + MaxDelay >= req[h].sent

\* Nobody was told more than a lease from now, and the row of a user whose promise
\* still runs expires at most MaxDelay before it.
PromiseInv(u) ==
  /\ promise[u] <= now + Lease
  /\ promise[u] - MaxDelay >= now => HeldBy(u) /\ row.expires >= promise[u] - MaxDelay

IInv ==
  /\ TypeOK
  /\ row.expires <= now + Lease
  /\ \A h \in Handlers : HandlerInv(h)
  /\ \A u \in Users : PromiseInv(u)
----------------------------------------------------------------------------
LEMMA RowTypes ==
  ASSUME NEW x \in Rows
  PROVE  /\ x.expires \in Nat /\ x.owner \in Users \cup {Nobody}
         /\ x = Free => x.expires = 0 /\ x.owner = Nobody
         /\ x # Free => x.owner \in Users
         /\ x.owner \in Users => x # Free
<1>1. x = Free \/ x \in [owner : Users, expires : Nat]
  BY DEF Rows
<1>2. Free.owner = Nobody /\ Free.expires = 0
  BY DEF Free
<1>3. QED
  BY <1>1, <1>2, NobodyAssumption

LEMMA IdleTypes ==
  /\ Idle \in Request /\ Idle.pc = "idle" /\ Idle.out = "none"
  /\ \A out \in Answers : /\ [Idle EXCEPT !.out = out] \in Request
                          /\ [Idle EXCEPT !.out = out].pc = "idle"
                          /\ [Idle EXCEPT !.out = out].out = out
BY DEF Idle, Request, Steps, Ops, Answers

LEMMA AnswerTypes ==
  ASSUME TypeOK, NEW h \in Handlers, NEW out \in Answers, Answer(h, out)
  PROVE  /\ req' \in [Handlers -> Request]
         /\ req'[h].pc = "idle" /\ req'[h].out = out
         /\ \A g \in Handlers \ {h} : req'[g] = req[g]
<1>1. req' = [req EXCEPT ![h] = [Idle EXCEPT !.out = out]]
  BY DEF Answer
<1>2. QED
  BY <1>1, IdleTypes DEF TypeOK

LEMMA GoTypes ==
  ASSUME TypeOK, NEW h \in Handlers, NEW step \in Steps, Go(h, step)
  PROVE  /\ req' \in [Handlers -> Request]
         /\ req'[h] = [req[h] EXCEPT !.pc = step]
         /\ req'[h].pc = step /\ req'[h].op = req[h].op /\ req'[h].user = req[h].user
         /\ req'[h].sent = req[h].sent /\ req'[h].stamp = req[h].stamp
         /\ req'[h].out = req[h].out
         /\ \A g \in Handlers \ {h} : req'[g] = req[g]
<1>1. req[h] \in Request /\ req' = [req EXCEPT ![h] = [req[h] EXCEPT !.pc = step]]
  BY DEF TypeOK, Go
<1>2. [req[h] EXCEPT !.pc = step] \in Request
  BY <1>1 DEF Request
<1>3. QED
  BY <1>1, <1>2 DEF TypeOK, Request
----------------------------------------------------------------------------
(* Types. *)

LEMMA LeasedTypes ==
  ASSUME NEW u \in Users, NEW t \in Nat
  PROVE  /\ Leased(u, t) \in Rows /\ Leased(u, t).owner = u
         /\ Leased(u, t).expires = t + Lease
BY DelayAssumption DEF Leased, Rows

\* The steps that only answer or move on.
Local(h) == Arrive(h) \/ GetStatus(h) \/ GetAcquire(h) \/ HolderOnly(h) \/ Stamp(h)
              \/ Conflict(h) \/ Fail(h)

\* The locals a request starts with.
Arrived(op, u, step, t) == [Idle EXCEPT !.pc = step, !.op = op, !.user = u, !.sent = t]

LEMMA ArrivedRequest ==
  ASSUME NEW op \in Ops, NEW u \in Users, NEW step \in Steps, NEW t \in Nat
  PROVE  \E q \in Request :
           /\ q = Arrived(op, u, step, t)
           /\ q.pc = step /\ q.op = op /\ q.user = u /\ q.sent = t /\ q.out = "none"
<1>1. PICK a \in Request : a = [Idle EXCEPT !.pc = step] /\ a.pc = step /\ a.out = "none"
  <2>1. [Idle EXCEPT !.pc = step] \in Request
    BY IdleTypes DEF Request
  <2>2. QED
    BY <2>1, IdleTypes DEF Request
<1>2. PICK b \in Request : /\ b = [a EXCEPT !.op = op]
                           /\ b.pc = step /\ b.out = "none" /\ b.op = op
  <2>1. [a EXCEPT !.op = op] \in Request
    BY DEF Request
  <2>2. QED
    BY <1>1, <2>1 DEF Request
<1>3. PICK c \in Request : /\ c = [b EXCEPT !.user = u]
                           /\ c.pc = step /\ c.out = "none" /\ c.op = op /\ c.user = u
  <2>1. [b EXCEPT !.user = u] \in Request
    BY DEF Request
  <2>2. QED
    BY <1>2, <2>1 DEF Request
<1>4. PICK d \in Request : /\ d = [c EXCEPT !.sent = t]
                           /\ d.pc = step /\ d.out = "none" /\ d.op = op /\ d.user = u
                           /\ d.sent = t
  <2>1. [c EXCEPT !.sent = t] \in Request
    BY DEF Request
  <2>2. QED
    BY <1>3, <2>1 DEF Request
<1>5. d = Arrived(op, u, step, t)
  BY <1>1, <1>2, <1>3, <1>4, Zenon DEF Arrived
<1>6. QED
  BY <1>4, <1>5

LEMMA ArriveStep ==
  ASSUME TypeOK, NEW h \in Handlers, Arrive(h)
  PROVE  /\ req' \in [Handlers -> Request]
         /\ \A g \in Handlers \ {h} : req'[g] = req[g]
         /\ req'[h].user \in Users /\ req'[h].sent = now /\ req'[h].out = "none"
         /\ (req'[h].pc = "purge" \/ (req'[h].pc = "write" /\ req'[h].op = "force"))
<1>1. PICK op \in Ops, u \in Users :
        req' = [req EXCEPT ![h] = Arrived(op, u, IF op = "force" THEN "write" ELSE "purge", now)]
  BY DEF Arrive, Arrived
<1>2. PICK step \in Steps : /\ step = IF op = "force" THEN "write" ELSE "purge"
                            /\ step = "purge" \/ (step = "write" /\ op = "force")
  BY DEF Steps
<1>3. PICK q \in Request :
        /\ q = Arrived(op, u, step, now)
        /\ q.pc = step /\ q.op = op /\ q.user = u /\ q.sent = now /\ q.out = "none"
  <2>1. now \in Nat
    BY DEF TypeOK
  <2>2. QED
    BY <2>1, ArrivedRequest
<1>4. req' = [req EXCEPT ![h] = q]
  BY <1>1, <1>2, <1>3
<1>5. QED
  BY <1>2, <1>3, <1>4 DEF TypeOK

LEMMA StampStep ==
  ASSUME TypeOK, NEW h \in Handlers, Stamp(h)
  PROVE  /\ req' \in [Handlers -> Request]
         /\ \A g \in Handlers \ {h} : req'[g] = req[g]
         /\ req'[h].pc = "write" /\ req'[h].stamp = now /\ req'[h].user = req[h].user
         /\ req'[h].sent = req[h].sent /\ req'[h].op = req[h].op /\ req'[h].out = req[h].out
<1> DEFINE q == [req[h] EXCEPT !.pc = "write", !.stamp = now]
<1>1. /\ q \in Request /\ q.pc = "write" /\ q.stamp = now /\ q.user = req[h].user
      /\ q.sent = req[h].sent /\ q.op = req[h].op /\ q.out = req[h].out
  BY DEF TypeOK, Request, Steps
<1>2. req' = [req EXCEPT ![h] = q]
  BY DEF Stamp
<1> HIDE DEF q
<1>3. QED
  BY <1>1, <1>2 DEF TypeOK

\* What every step does to the locals: the handler answers, moves on, arrives or reads
\* the clock.
LEMMA LocalSteps ==
  ASSUME NEW h \in Handlers, Handle(h)
  PROVE  \/ Arrive(h)
         \/ Stamp(h)
         \/ \E step \in Steps : Go(h, step)
         \/ \E out \in Answers : Answer(h, out)
BY DEF Handle, PurgeExpired, GetStatus, GetAcquire, HolderOnly, Insert, Conflict, Delete, Update,
       Reread, AnswerOk, ForceRelease, Fail, Steps, Answers

LEMMA StepTypes ==
  ASSUME TypeOK, NEW h \in Handlers, HandlerInv(h), Handle(h)
  PROVE  TypeOK' /\ \A g \in Handlers \ {h} : req'[g] = req[g]
<1>1. req' \in [Handlers -> Request] /\ \A g \in Handlers \ {h} : req'[g] = req[g]
  BY LocalSteps, ArriveStep, StampStep, GoTypes, AnswerTypes
<1>2. row' \in Rows
  <2>1. UNCHANGED row \/ row' = Free \/ (At(h, "write") /\ row' = Leased(User(h), req[h].stamp))
    BY DEF Handle, Arrive, PurgeExpired, GetStatus, GetAcquire, HolderOnly, Stamp, Insert,
           Conflict, Delete, Update, Reread, ForceRelease, Fail
  <2>2. At(h, "write") => User(h) \in Users /\ req[h].stamp \in Nat
    BY DEF HandlerInv, At, TypeOK, Request
  <2>3. QED
    BY <2>1, <2>2, LeasedTypes DEF TypeOK, Rows
<1>3. promise' \in [Users -> Nat \cup {-1}]
  <2>1. \/ UNCHANGED promise
        \/ promise' = [promise EXCEPT ![User(h)] = -1]
        \/ promise' = [promise EXCEPT ![User(h)] = row.expires]
        \/ promise' = [u \in Users |-> -1]
    BY DEF Handle, Arrive, PurgeExpired, GetStatus, GetAcquire, HolderOnly, Stamp, Insert,
           Conflict, Delete, GiveUp, Update, Reread, AnswerOk, ForceRelease, Fail
  <2>2. row.expires \in Nat
    BY RowTypes DEF TypeOK
  <2>3. QED
    BY <2>1, <2>2 DEF TypeOK
<1>4. now' \in Nat /\ swallowed' \in Nat
  <2>1. UNCHANGED now
    BY DEF Handle, Arrive, PurgeExpired, GetStatus, GetAcquire, HolderOnly, Stamp, Insert,
           Conflict, Delete, Update, Reread, ForceRelease, Fail
  <2>2. UNCHANGED swallowed \/ swallowed' = swallowed + 1
    BY DEF Handle, Arrive, PurgeExpired, GetStatus, GetAcquire, HolderOnly, Stamp, Insert,
           Conflict, Delete, Update, Reread, ForceRelease, Fail
  <2>3. QED
    BY <2>1, <2>2 DEF TypeOK
<1>5. QED
  BY <1>1, <1>2, <1>3, <1>4 DEF TypeOK
----------------------------------------------------------------------------
(* The row: who may write it, and what it may become. *)

\* A step that changes the row frees it or leases it, until at most a lease from now.
LEMMA RowSteps ==
  ASSUME IInv, NEW h \in Handlers, Handle(h)
  PROVE  /\ now' = now
         /\ swallowed' = 0 => swallowed = 0
         /\ \/ row' = row
            \/ /\ row' = Free
               /\ \/ At(h, "purge") /\ row.expires < now /\ promise' = promise
                  \/ At(h, "write") /\ HeldBy(User(h)) /\ promise' = [promise EXCEPT ![User(h)] = -1]
                  \/ promise' = [u \in Users |-> -1]
            \/ /\ row' \in Rows /\ row'.owner = User(h) /\ User(h) \in Users
               /\ row'.expires <= now + Lease /\ row'.expires + MaxDelay >= now + Lease
               /\ ~Held \/ HeldBy(User(h))
               /\ promise' = promise
<1>1. TypeOK /\ HandlerInv(h)
  BY DEF IInv
<1>2. CASE Insert(h) \/ Update(h)
  <2>1. /\ User(h) \in Users /\ req[h].stamp \in Nat /\ now \in Nat
        /\ req[h].stamp <= now /\ now - req[h].stamp <= MaxDelay
    BY <1>1, <1>2 DEF Insert, Update, HandlerInv, At, Is, TypeOK, Request
  <2>2. /\ UNCHANGED <<now, swallowed, promise>>
        /\ \/ row' = row
           \/ row' = Leased(User(h), req[h].stamp) /\ (~Held \/ HeldBy(User(h)))
    BY <1>2 DEF Insert, Update
  <2>3. CASE row' = Leased(User(h), req[h].stamp)
    <3>1. /\ row' \in Rows /\ row'.owner = User(h) /\ row'.expires = req[h].stamp + Lease
      BY <2>1, <2>3, LeasedTypes
    <3>2. row'.expires <= now + Lease /\ row'.expires + MaxDelay >= now + Lease
      BY <2>1, <3>1, DelayAssumption
    <3>3. QED
      BY <2>1, <2>2, <3>1, <3>2
  <2>4. QED
    BY <2>2, <2>3
<1>3. CASE PurgeExpired(h)
  <2>1. swallowed' = 0 => swallowed = 0
    BY <1>1, <1>3 DEF PurgeExpired, TypeOK
  <2>2. QED
    BY <1>3, <2>1 DEF PurgeExpired
<1>4. CASE Delete(h)
  BY <1>4 DEF Delete, GiveUp
<1>5. CASE ForceRelease(h)
  BY <1>5 DEF ForceRelease
<1>6. CASE Arrive(h) \/ GetStatus(h) \/ GetAcquire(h) \/ HolderOnly(h) \/ Stamp(h) \/ Conflict(h)
           \/ Reread(h) \/ Fail(h)
  BY <1>6 DEF Arrive, GetStatus, GetAcquire, HolderOnly, Stamp, Conflict, Reread, Fail
<1>7. QED
  BY <1>2, <1>3, <1>4, <1>5, <1>6 DEF Handle

LEMMA RowKeeps ==
  ASSUME IInv, NEW h \in Handlers, Handle(h)
  PROVE  /\ row'.expires <= now' + Lease
         /\ Held' => row' = row \/ row'.expires + MaxDelay >= now
<1>1. row \in Rows /\ now \in Nat /\ Lease \in Nat /\ MaxDelay \in Nat /\ row.expires <= now + Lease
  BY DelayAssumption DEF IInv, TypeOK
<1>2. CASE row' = row
  BY <1>1, <1>2, RowSteps
<1>3. CASE row' = Free
  <2>1. Free.expires = 0
    BY DEF Free
  <2>2. QED
    BY <1>1, <1>3, <2>1, RowSteps DEF Held
<1>4. CASE row' \in Rows /\ row'.expires <= now + Lease /\ row'.expires + MaxDelay >= now + Lease
  BY <1>1, <1>4, RowSteps, RowTypes
<1>5. QED
  BY <1>2, <1>3, <1>4, RowSteps

\* What the invariant says of a handler that has not moved depends on the row only
\* through its expiry.
LEMMA Waiting ==
  ASSUME IInv, NEW h \in Handlers, NEW g \in Handlers \ {h}, Handle(h)
  PROVE  HandlerInv(g)'
<1>1. /\ HandlerInv(g) /\ req[g].sent \in Nat /\ MaxDelay \in Nat /\ now \in Nat
      /\ row' \in Rows /\ req'[g] = req[g]
  BY StepTypes, DelayAssumption DEF IInv, TypeOK, Request
<1>2. now' = now /\ (swallowed' = 0 => swallowed = 0)
  BY RowSteps
<1>3. CASE row' = row
  BY <1>1, <1>2, <1>3 DEF HandlerInv, At, Is, User, Held
<1>4. CASE Held' => row'.expires + MaxDelay >= now
  <2>1. row'.expires \in Nat
    BY <1>1, RowTypes
  <2>2. ~At(g, "idle") => req[g].sent <= now
    BY <1>1 DEF HandlerInv
  <2>3. Held' /\ ~At(g, "idle") => row'.expires + MaxDelay >= req[g].sent
    BY <1>1, <1>4, <2>1, <2>2
  <2>4. QED
    BY <1>1, <1>2, <2>3 DEF HandlerInv, At, Is, User
<1>5. QED
  BY <1>3, <1>4, RowKeeps

\* The promises: only a user's own release or a forced one takes a running lease away.
LEMMA PromiseKeeps ==
  ASSUME IInv, NEW h \in Handlers, Handle(h), NEW u \in Users
  PROVE  PromiseInv(u)'
<1>0. /\ TypeOK /\ TypeOK' /\ HandlerInv(h) /\ PromiseInv(u) /\ row.expires <= now + Lease
      /\ now \in Nat /\ Lease \in Nat /\ MaxDelay \in Nat /\ MaxDelay < Lease
      /\ promise[u] \in Nat \cup {-1} /\ promise'[u] \in Nat \cup {-1}
      /\ row \in Rows /\ row' \in Rows /\ now' = now
      /\ row.expires \in Nat /\ row'.expires \in Nat
  <2>1. TypeOK' /\ now' = now
    BY StepTypes, RowSteps DEF IInv
  <2>2. row.expires \in Nat /\ row'.expires \in Nat
    BY <2>1, RowTypes DEF IInv, TypeOK
  <2>3. TypeOK /\ HandlerInv(h) /\ PromiseInv(u) /\ row.expires <= now + Lease
    BY DEF IInv
  <2>4. promise[u] \in Nat \cup {-1} /\ row \in Rows /\ now \in Nat
    BY <2>3 DEF TypeOK
  <2>5. promise'[u] \in Nat \cup {-1} /\ row' \in Rows
    BY <2>1 DEF TypeOK
  <2>6. QED
    BY <2>1, <2>2, <2>3, <2>4, <2>5, DelayAssumption
<1>1. CASE Reread(h)
  <2>1. row' = row /\ (promise'[u] = promise[u] \/ (HeldBy(u) /\ promise'[u] = row.expires))
    BY <1>0, <1>1 DEF Reread, AnswerOk, TypeOK
  <2>2. QED
    BY <1>0, <2>1 DEF PromiseInv, HeldBy
<1>2. CASE row' = row /\ ~Reread(h)
  <2>1. promise'[u] \in {promise[u], -1}
    BY <1>0, <1>2 DEF Handle, Arrive, PurgeExpired, GetStatus, GetAcquire, HolderOnly, Stamp,
                      Insert, Conflict, Delete, GiveUp, Update, ForceRelease, Fail, TypeOK
  <2>2. QED
    BY <1>0, <1>2, <2>1 DEF PromiseInv, HeldBy
<1>3. CASE row' = Free /\ At(h, "purge") /\ row.expires < now /\ promise' = promise
  BY <1>0, <1>3 DEF PromiseInv
<1>4. CASE row' = Free /\ HeldBy(User(h)) /\ promise' = [promise EXCEPT ![User(h)] = -1]
  BY <1>0, <1>4 DEF PromiseInv, HeldBy, TypeOK
<1>5. CASE row' = Free /\ promise' = [v \in Users |-> -1]
  BY <1>0, <1>5 DEF PromiseInv
<1>6. CASE /\ row'.owner = User(h) /\ User(h) \in Users
           /\ row'.expires <= now + Lease /\ row'.expires + MaxDelay >= now + Lease
           /\ ~Held \/ HeldBy(User(h))
           /\ promise' = promise
  <2>1. ~Held => ~HeldBy(u)
    BY <1>0, RowTypes DEF Held, HeldBy
  <2>2. HeldBy(u) => u = User(h)
    BY <1>6, <2>1 DEF HeldBy
  <2>3. QED
    BY <1>0, <1>6, <2>2 DEF PromiseInv, HeldBy
<1>7. QED
  BY <1>1, <1>2, <1>3, <1>4, <1>5, <1>6, RowSteps
----------------------------------------------------------------------------
(* The handler itself. *)

LEMMA OwnStep ==
  ASSUME IInv, NEW h \in Handlers, Handle(h)
  PROVE  HandlerInv(h)'
<1>0. /\ TypeOK /\ HandlerInv(h) /\ now \in Nat /\ MaxDelay \in Nat /\ now' = now
      /\ row \in Rows /\ row' \in Rows /\ row.expires \in Nat /\ row'.expires \in Nat
      /\ req[h].sent \in Nat /\ swallowed \in Nat
  <2>1. TypeOK /\ TypeOK' /\ HandlerInv(h) /\ now' = now
    BY StepTypes, RowSteps DEF IInv
  <2>2. row.expires \in Nat /\ row'.expires \in Nat
    BY <2>1, RowTypes DEF TypeOK
  <2>3. row \in Rows /\ row' \in Rows /\ req[h].sent \in Nat /\ now \in Nat /\ swallowed \in Nat
    BY <2>1 DEF TypeOK, Request
  <2>4. QED
    BY <2>1, <2>2, <2>3, DelayAssumption
<1>1. CASE \E out \in Answers : Answer(h, out)
  BY <1>0, <1>1, AnswerTypes DEF HandlerInv, At
<1>2. CASE Arrive(h)
  BY <1>0, <1>2, ArriveStep DEF HandlerInv, At, Is, User
<1>3. CASE Stamp(h)
  <2>1. UNCHANGED <<row, swallowed>> /\ req[h].pc = "stamp"
    BY <1>3 DEF Stamp, At
  <2>2. QED
    BY <1>0, <1>3, <2>1, StampStep DEF HandlerInv, At, Is, User, Held
<1>4. CASE PurgeExpired(h)
  <2>1. /\ req'[h].pc = "get" /\ req'[h].op = req[h].op /\ req'[h].user = req[h].user
        /\ req'[h].sent = req[h].sent /\ req'[h].out = req[h].out
    BY <1>0, <1>4, GoTypes DEF PurgeExpired, Steps
  <2>2. req[h].pc = "purge" /\ (swallowed' = 0 /\ Held' => row'.expires >= now)
    <3>1. CASE row' = IF Held /\ row.expires < now THEN Free ELSE row
      BY <1>0, <1>4, <3>1 DEF PurgeExpired, At, Held
    <3>2. CASE swallowed' = swallowed + 1
      BY <1>0, <1>4, <3>2 DEF PurgeExpired, At
    <3>3. QED
      BY <1>4, <3>1, <3>2 DEF PurgeExpired
  <2>3. req[h].sent <= now /\ User(h) \in Users /\ req[h].out = "none"
    BY <1>0, <2>2 DEF HandlerInv, At
  <2>4. QED
    BY <1>0, <2>1, <2>2, <2>3 DEF HandlerInv, At, Is, User
<1>5. CASE GetAcquire(h) \/ HolderOnly(h)
  <2>1. CASE Go(h, "stamp") \/ (Is(h, "release") /\ Go(h, "write"))
    <3>1. /\ req'[h].pc \in {"stamp", "write"} /\ req'[h].op = req[h].op
          /\ req'[h].user = req[h].user /\ req'[h].sent = req[h].sent /\ req'[h].out = req[h].out
          /\ req'[h].pc = "write" => req[h].op = "release"
      BY <1>0, <2>1, GoTypes DEF Steps, Is
    <3>2. UNCHANGED <<row, swallowed>> /\ req[h].pc = "get"
      BY <1>5 DEF GetAcquire, HolderOnly, At
    <3>3. QED
      BY <1>0, <3>1, <3>2 DEF HandlerInv, At, Is, User, Held
  <2>2. QED
    BY <1>1, <1>5, <2>1 DEF GetAcquire, HolderOnly, Answers, Is
<1>6. CASE (Insert(h) \/ Update(h))
  <2>1. /\ req'[h].pc \in {"conflict", "reread"} /\ req'[h].op = req[h].op
        /\ req'[h].user = req[h].user /\ req'[h].sent = req[h].sent /\ req'[h].out = req[h].out
        /\ req'[h].pc = "conflict" => req[h].op = "acquire"
    BY <1>0, <1>6, GoTypes DEF Insert, Update, Steps, Is
  <2>2. req[h].pc = "write" /\ UNCHANGED swallowed
    BY <1>6 DEF Insert, Update, At
  <2>3. req[h].sent <= now /\ User(h) \in Users /\ req[h].out = "none"
    BY <1>0, <2>2 DEF HandlerInv, At
  <2>4. CASE row' = row
    BY <1>0, <2>1, <2>2, <2>3, <2>4 DEF HandlerInv, At, Is, User, Held
  <2>5. CASE Held' => row'.expires + MaxDelay >= now
    BY <1>0, <2>1, <2>2, <2>3, <2>5 DEF HandlerInv, At, Is, User
  <2>6. QED
    BY <2>4, <2>5, RowKeeps
<1>7. CASE GetStatus(h) \/ Conflict(h) \/ Delete(h) \/ Reread(h) \/ ForceRelease(h) \/ Fail(h)
  BY <1>1, <1>7 DEF GetStatus, Conflict, Delete, Reread, AnswerOk, ForceRelease, Fail, Answers
<1>8. QED
  BY <1>2, <1>3, <1>4, <1>5, <1>6, <1>7 DEF Handle

LEMMA HandleKeeps ==
  ASSUME IInv, NEW h \in Handlers, Handle(h)
  PROVE  IInv'
<1>1. TypeOK'
  BY StepTypes DEF IInv
<1>2. \A g \in Handlers : HandlerInv(g)'
  BY OwnStep, Waiting
<1>3. \A u \in Users : PromiseInv(u)'
  BY PromiseKeeps
<1>4. QED
  BY <1>1, <1>2, <1>3, RowKeeps DEF IInv

\* Time passes only while no write is late: a clock reading grows old by one tick.
LEMMA TickKeeps ==
  ASSUME IInv, Tick
  PROVE  IInv'
<1>0. /\ TypeOK /\ now \in Nat /\ now' = now + 1 /\ MaxDelay \in Nat /\ Lease \in Nat
      /\ UNCHANGED <<row, req, promise, swallowed>>
  BY DelayAssumption DEF IInv, TypeOK, Tick
<1>1. TypeOK' /\ row.expires \in Nat
  BY <1>0, RowTypes DEF TypeOK
<1>2. row'.expires <= now' + Lease
  BY <1>0, <1>1 DEF IInv
<1>3. ASSUME NEW h \in Handlers PROVE HandlerInv(h)'
  <2>1. HandlerInv(h) /\ ~Late(h) /\ req[h].stamp \in Nat /\ req[h].sent \in Nat
    BY <1>0 DEF IInv, Tick, TypeOK, Request
  <2>2. QED
    BY <1>0, <2>1 DEF HandlerInv, Late, At, Is, User, Held
<1>4. ASSUME NEW u \in Users PROVE PromiseInv(u)'
  <2>1. PromiseInv(u) /\ promise[u] \in Nat \cup {-1}
    BY <1>0 DEF IInv, TypeOK
  <2>2. QED
    BY <1>0, <1>1, <2>1 DEF PromiseInv, HeldBy
<1>5. QED
  BY <1>1, <1>2, <1>3, <1>4 DEF IInv
----------------------------------------------------------------------------
(* Theorems. *)

LEMMA InitEstablishes == Init => IInv
<1> SUFFICES ASSUME Init PROVE IInv
  OBVIOUS
<1>1. TypeOK
  BY IdleTypes DEF Init, TypeOK, Rows
<1>2. row.expires = 0 /\ row.expires <= now + Lease
  BY DelayAssumption DEF Init, Free
<1>3. \A h \in Handlers : HandlerInv(h)
  BY IdleTypes DEF Init, HandlerInv, At
<1>4. \A u \in Users : PromiseInv(u)
  BY DelayAssumption DEF Init, PromiseInv
<1>5. QED
  BY <1>1, <1>2, <1>3, <1>4 DEF IInv

LEMMA NextKeeps == IInv /\ [Next]_vars => IInv'
<1> SUFFICES ASSUME IInv, [Next]_vars PROVE IInv'
  OBVIOUS
<1>1. CASE UNCHANGED vars
  BY <1>1 DEF vars, IInv, TypeOK, HandlerInv, PromiseInv, At, Is, User, Held, HeldBy
<1>2. CASE \E h \in Handlers : Handle(h)
  BY <1>2, HandleKeeps
<1>3. CASE Tick
  BY <1>3, TickKeeps
<1>4. QED
  BY <1>1, <1>2, <1>3 DEF Next

\* In every reachable state: the types, fresh clock readings in the writes under way,
\* no row or promise beyond a lease from now, and a row for every running promise.
THEOREM InvariantHolds == Spec => []IInv
BY InitEstablishes, NextKeeps, PTL DEF Spec

\* Every variable keeps its type.
THEOREM TypeCorrect == Spec => []TypeOK
<1>1. IInv => TypeOK
  BY DEF IInv
<1>2. QED
  BY <1>1, InvariantHolds, PTL

\* A user that was told a lease keeps the page until it runs out, less the delay of
\* one write, or until the user or a forced release gives it up.
THEOREM LeaseIsHonoured == Spec => []LeaseHonoured
<1>1. IInv => LeaseHonoured
  BY DEF IInv, PromiseInv, LeaseHonoured
<1>2. QED
  BY <1>1, InvariantHolds, PTL

\* While every purge works, a lock that had expired when a request was sent does not
\* get it refused.
THEOREM ExpiredIsNoObstacle == Spec => ExpiredNeverBlocks
<1>1. ASSUME IInv, Next, swallowed = 0, NEW h \in Handlers, ~At(h, "idle"),
             req'[h].out = "locked"
      PROVE  row.expires + MaxDelay >= req[h].sent
  <2>0. TypeOK /\ HandlerInv(h) /\ req[h].out = "none"
    BY <1>1 DEF IInv, HandlerInv
  <2>1. CASE Tick \/ \E g \in Handlers \ {h} : Handle(g)
    BY <1>1, <2>0, <2>1, StepTypes DEF IInv, Tick
  <2>2. CASE Handle(h)
    <3>1. \A out \in Answers : Answer(h, out) => out = "locked"
      BY <1>1, <2>0, AnswerTypes
    <3>2. \A step \in Steps : ~Go(h, step)
      BY <1>1, <2>0, GoTypes
    <3>3. ~Arrive(h) /\ ~Stamp(h)
      BY <1>1, <2>0, StampStep DEF Arrive
    <3>4. GetAcquire(h) \/ Conflict(h)
      <4>1. \A out \in {"status", "released", "lost", "not_holder", "ok", "failed"} :
              ~Answer(h, out)
        BY <3>1 DEF Answers
      <4>2. \A step \in {"get", "stamp", "write", "reread", "conflict"} : ~Go(h, step)
        BY <3>2 DEF Steps
      <4>3. QED
        BY <2>2, <3>3, <4>1, <4>2
           DEF Handle, PurgeExpired, GetStatus, HolderOnly, Insert, Delete, Update, Reread,
               AnswerOk, ForceRelease, Fail
    <3>5. Held
      <4>1. ~Answer(h, "failed") /\ ~Go(h, "stamp")
        BY <3>1, <3>2 DEF Answers, Steps
      <4>2. QED
        BY <3>4, <4>1 DEF GetAcquire, Conflict
    <3>6. ~At(h, "idle") /\ ~At(h, "purge") /\ (At(h, "conflict") \/ Is(h, "acquire"))
      BY <3>4 DEF GetAcquire, Conflict, At
    <3>7. Is(h, "acquire")
      BY <2>0, <3>6 DEF HandlerInv
    <3>8. QED
      BY <1>1, <2>0, <3>5, <3>6, <3>7 DEF HandlerInv, Is
  <2>3. QED
    BY <1>1, <2>1, <2>2 DEF Next
<1>2. IInv /\ [Next]_vars =>
        [swallowed = 0 =>
           \A h \in Handlers : ~At(h, "idle") /\ req'[h].out = "locked" =>
             row.expires + MaxDelay >= req[h].sent]_vars
  BY <1>1
<1>3. QED
  BY <1>2, InvariantHolds, PTL DEF Spec, ExpiredNeverBlocks
============================================================================
