---------------------- MODULE ProjectLifecycle_proofs ----------------------
(***************************************************************************)
(* TLAPS proofs about ProjectLifecycle, for any handlers, projects and     *)
(* names and any bounds on failures and crashes.                           *)
(***************************************************************************)
EXTENDS ProjectLifecycle, TLAPS

Creating == {"readme", "fetch", "normalize", "activate", "insert"}
Purging == {"stage", "remove_row", "remove_trash"}
\* Who works on the files of its project, and who holds its lock.
Owning == Creating \cup Purging
Locking == {"locked"} \cup Purging

\* What a handler relies on from one of its calls to the next.
HandlerInv(h) ==
  /\ ~At(h, "idle") => P(h) \in Projects \ fresh /\ req[h].out = "none"
  /\ req[h].pc \in Creating =>
       /\ row[P(h)] = Absent /\ trash[P(h)] = "none"
       /\ req[h].pc \in {"normalize", "activate"} <=> staging[P(h)] # "none"
       /\ staging[P(h)] \in {"none", "repo"}
  /\ At(h, "insert") => HasRepo(dir[P(h)])
  /\ req[h].pc \in {"stage", "remove_row"} => IsDeleted(P(h))
  /\ At(h, "remove_row") => dir[P(h)] = "none"
  /\ At(h, "remove_trash") => /\ row[P(h)] = Absent
                              /\ dir[P(h)] = "none" /\ staging[P(h)] = "none"

\* A project with a row has its repository once and nothing is staged for it; one
\* whose id was not handed out has nothing.
RepoKept(p) == \/ HasRepo(dir[p]) /\ trash[p] = "none"
               \/ HasRepo(trash[p]) /\ dir[p] = "none"

ProjectInv(p) ==
  /\ row[p] # Absent => RepoKept(p) /\ staging[p] = "none"
  /\ p \in fresh => /\ row[p] = Absent
                    /\ dir[p] = "none" /\ staging[p] = "none" /\ trash[p] = "none"

\* No two handlers work on the files of one project, and no two hold its lock.
Exclusive ==
  \A g, h \in Handlers : g # h /\ P(g) = P(h) =>
    /\ ~(req[g].pc \in Owning /\ req[h].pc \in Owning)
    /\ ~(req[g].pc \in Locking /\ req[h].pc \in Locking)

Rows == {Absent} \cup [state : {"live", "deleted"}, name : Names]

Types ==
  /\ row \in [Projects -> Rows]
  /\ dir \in [Projects -> Contents]
  /\ staging \in [Projects -> Contents] /\ trash \in [Projects -> Contents]
  /\ fresh \subseteq Projects
  /\ req \in [Handlers -> Request]
  /\ failures \in Nat /\ crashes \in Nat

IInv ==
  /\ Types
  /\ \A h \in Handlers : HandlerInv(h)
  /\ \A p \in Projects : ProjectInv(p)
  /\ Exclusive
----------------------------------------------------------------------------
(* Types. *)

HandlerStep(h) == Create(h) \/ Import(h) \/ Insert(h) \/ Retire(h) \/ Purge(h)

LEMMA LocalTypes ==
  ASSUME NEW q \in Request
  PROVE  /\ \A step \in Steps : [q EXCEPT !.pc = step] \in Request
         /\ \A out \in Answers : [q EXCEPT !.pc = "idle", !.out = out] \in Request
<1>1. \A step \in Steps : [q EXCEPT !.pc = step] \in Request
  BY DEF Request
<1>2. \A out \in Answers : [q EXCEPT !.pc = "idle", !.out = out] \in Request
  BY DEF Request, Steps
<1>3. QED
  BY <1>1, <1>2

LEMMA IdleTypes ==
  /\ Idle \in Request /\ Idle.pc = "idle" /\ Idle.out = "none"
  /\ \A op \in Ops, p \in Projects :
       [Idle EXCEPT !.pc = "locked", !.op = op, !.project = p] \in Request
<1>1. (CHOOSE n \in Names : TRUE) \in Names
  BY NamesAssumption
<1>2. Idle \in Request /\ Idle.pc = "idle" /\ Idle.out = "none"
  BY <1>1 DEF Idle, Request, Steps, Ops, Sources, Answers
<1>3. QED
  BY <1>2 DEF Request, Steps

\* The two ways a handler leaves its locals.
LEMMA GoTypes ==
  ASSUME Types, NEW h \in Handlers
  PROVE  /\ \A step \in Steps : Go(h, step) => req' \in [Handlers -> Request]
         /\ \A out \in Answers : Answer(h, out) => req' \in [Handlers -> Request]
<1>1. req[h] \in Request /\ req \in [Handlers -> Request]
  BY DEF Types
<1>2. ASSUME NEW step \in Steps, Go(h, step)
      PROVE  req' \in [Handlers -> Request]
  <2>1. req' = [req EXCEPT ![h] = [req[h] EXCEPT !.pc = step]]
    BY <1>2 DEF Go
  <2>2. QED
    BY <1>1, <2>1, LocalTypes
<1>3. ASSUME NEW out \in Answers, Answer(h, out)
      PROVE  req' \in [Handlers -> Request]
  <2>1. req' = [req EXCEPT ![h] = [req[h] EXCEPT !.pc = "idle", !.out = out]]
    BY <1>3 DEF Answer
  <2>2. QED
    BY <1>1, <2>1, LocalTypes
<1>4. QED
  BY <1>2, <1>3

LEMMA PutTypes ==
  ASSUME Types, NEW p \in Projects, NEW c \in Contents
  PROVE  /\ Put(dir, p, c) => dir' \in [Projects -> Contents]
         /\ Put(staging, p, c) => staging' \in [Projects -> Contents]
         /\ Put(trash, p, c) => trash' \in [Projects -> Contents]
BY DEF Types, Put

LEMMA CountTypes ==
  ASSUME Types
  PROVE  (Fails => failures' \in Nat) /\ (Works => failures' \in Nat)
BY DEF Types, Fails, Works

\* A handler at work has a project.
LEMMA AtWork ==
  ASSUME Types, NEW h \in Handlers, HandlerInv(h), ~At(h, "idle")
  PROVE  P(h) \in Projects /\ P(h) \notin fresh /\ req[h].out = "none"
BY DEF HandlerInv

LEMMA BeginTypes ==
  ASSUME Types, NEW h \in Handlers, NEW op \in Ops, NEW p \in Projects, NEW n \in Names,
         NEW s \in Sources, NEW step \in Steps,
         Begin(h, op, p, n, s, step) \/ Refuse(h, op, p, n)
  PROVE  req' \in [Handlers -> Request] /\ fresh' \subseteq Projects
<1>1. /\ [pc |-> step, op |-> op, project |-> p, name |-> n, source |-> s, out |-> "none"]
           \in Request
      /\ [pc |-> "idle", op |-> op, project |-> p, name |-> n, source |-> "main",
          out |-> "failed"] \in Request
  BY DEF Request, Steps, Sources, Answers
<1>2. QED
  BY <1>1 DEF Begin, Refuse, Types

LEMMA CreateTypes ==
  ASSUME Types, NEW h \in Handlers, HandlerInv(h), Create(h) \/ Import(h) \/ Insert(h)
  PROVE  Types'
<1> USE DEF disk
<1>0. {"none", "partial", "headless", "repo"} = Contents
  BY DEF Contents
<1>1. CASE InitBare(h)
  <2>1. PICK p \in Projects, n \in Names :
          /\ Put(dir, p, "partial")
          /\ \/ Begin(h, "create", p, n, "main", "readme") /\ Works
             \/ Refuse(h, "create", p, n) /\ Fails
    BY <1>1 DEF InitBare
  <2>2. "create" \in Ops /\ "main" \in Sources /\ "readme" \in Steps
    BY DEF Ops, Sources, Steps
  <2>3. req' \in [Handlers -> Request] /\ fresh' \subseteq Projects
    BY <2>1, <2>2, BeginTypes
  <2>4. failures' \in Nat /\ dir' \in [Projects -> Contents]
    BY <1>0, <2>1, CountTypes, PutTypes
  <2>5. QED
    BY <1>1, <2>3, <2>4 DEF InitBare, Types
<1>2. CASE CloneOrFetch(h)
  <2>1. PICK p \in Projects, n \in Names, op \in {"repo", "bundle"} :
          \/ /\ \E s \in Sources : Begin(h, op, p, n, s, "normalize")
             /\ Put(staging, p, "repo") /\ Works
          \/ /\ Refuse(h, op, p, n) /\ Fails
             /\ \E left \in {"none", "partial"} : Put(staging, p, left)
    BY <1>2 DEF CloneOrFetch
  <2>2. op \in Ops /\ "main" \in Sources /\ "normalize" \in Steps
    BY DEF Ops, Sources, Steps
  <2>3. req' \in [Handlers -> Request] /\ fresh' \subseteq Projects
    BY <2>1, <2>2, BeginTypes
  <2>4. failures' \in Nat /\ staging' \in [Projects -> Contents]
    BY <1>0, <2>1, CountTypes, PutTypes
  <2>5. QED
    BY <1>2, <2>3, <2>4 DEF CloneOrFetch, Types
<1>3. CASE MakeFolder(h)
  <2>1. PICK p \in Projects, n \in Names :
          /\ Put(dir, p, "partial")
          /\ \/ (\E s \in Sources : Begin(h, "folder", p, n, s, "fetch")) /\ Works
             \/ Refuse(h, "folder", p, n) /\ Fails
    BY <1>3 DEF MakeFolder
  <2>2. "folder" \in Ops /\ "main" \in Sources /\ "fetch" \in Steps
    BY DEF Ops, Sources, Steps
  <2>3. req' \in [Handlers -> Request] /\ fresh' \subseteq Projects
    BY <2>1, <2>2, BeginTypes
  <2>4. failures' \in Nat /\ dir' \in [Projects -> Contents]
    BY <1>0, <2>1, CountTypes, PutTypes
  <2>5. QED
    BY <1>3, <2>3, <2>4 DEF MakeFolder, Types
<1>4. CASE WriteReadme(h) \/ Normalize(h) \/ Activate(h) \/ FetchFolder(h) \/ Insert(h)
  <2>1. P(h) \in Projects
    BY <1>4, AtWork DEF WriteReadme, Normalize, Activate, FetchFolder, Insert, At
  <2>2. req' \in [Handlers -> Request]
    <3>1. \/ \E step \in Steps : Go(h, step)
          \/ \E out \in Answers : Answer(h, out)
      BY <1>4 DEF WriteReadme, Normalize, Activate, FetchFolder, Insert, Steps, Answers
    <3>2. QED
      BY <3>1, GoTypes
  <2>3. failures' \in Nat
    BY <1>4, CountTypes DEF WriteReadme, Normalize, Activate, FetchFolder, Insert
  <2>4. dir' \in [Projects -> Contents]
    <3>1. \/ UNCHANGED dir
          \/ \E c \in Contents : Put(dir, P(h), c)
      <4>1. staging[P(h)] \in Contents
        BY <2>1 DEF Types
      <4>2. QED
        BY <1>0, <1>4, <4>1 DEF WriteReadme, Normalize, Activate, FetchFolder, Insert
    <3>2. QED
      BY <2>1, <3>1, PutTypes DEF Types
  <2>5. staging' \in [Projects -> Contents]
    <3>1. UNCHANGED staging \/ Put(staging, P(h), "none")
      BY <1>4 DEF WriteReadme, Normalize, Activate, FetchFolder, Insert
    <3>2. QED
      BY <1>0, <2>1, <3>1, PutTypes DEF Types
  <2>6. row' \in [Projects -> Rows]
    <3>1. UNCHANGED row \/ Put(row, P(h), Live(req[h].name))
      BY <1>4 DEF WriteReadme, Normalize, Activate, FetchFolder, Insert
    <3>2. Live(req[h].name) \in Rows
      BY DEF Live, Rows, Types, Request
    <3>3. QED
      BY <3>1, <3>2 DEF Put, Types
  <2>7. UNCHANGED <<trash, fresh, crashes>>
    BY <1>4 DEF WriteReadme, Normalize, Activate, FetchFolder, Insert
  <2>8. QED
    BY <2>2, <2>3, <2>4, <2>5, <2>6, <2>7 DEF Types
<1>5. QED
  BY <1>1, <1>2, <1>3, <1>4 DEF Create, Import

LEMMA PurgeTypes ==
  ASSUME Types, NEW h \in Handlers, HandlerInv(h), Retire(h) \/ Purge(h)
  PROVE  Types'
<1>a. "none" \in Contents
  BY DEF Contents
<1>0. UNCHANGED <<staging, fresh, crashes>>
  <2>1. CASE Retire(h)
    BY <2>1 DEF Retire, Acquire, Delete, RestoreDeleted, disk
  <2>2. CASE Purge(h)
    BY <2>2 DEF Purge, PurgeLookup, Stage, RemoveRow, RemoveTrash, disk
  <2>3. QED
    BY <2>1, <2>2
<1>1. CASE Acquire(h)
  <2>1. req' \in [Handlers -> Request]
    <3>1. PICK p \in Projects, op \in {"delete", "restore", "purge"} :
            req' = [req EXCEPT ![h] = [Idle EXCEPT !.pc = "locked", !.op = op, !.project = p]]
      BY <1>1, Zenon DEF Acquire
    <3>2. op \in Ops
      BY DEF Ops
    <3>3. [Idle EXCEPT !.pc = "locked", !.op = op, !.project = p] \in Request
      BY <3>2, IdleTypes
    <3>4. QED
      BY <3>1, <3>3, Zenon DEF Types
  <2>2. QED
    BY <1>0, <1>1, <2>1 DEF Acquire, Types, disk
<1>2. CASE Delete(h) \/ RestoreDeleted(h) \/ Purge(h)
  <2>1. P(h) \in Projects
    BY <1>2, AtWork DEF Delete, RestoreDeleted, Purge, PurgeLookup, Stage, RemoveRow,
                        RemoveTrash, At
  <2>2. req' \in [Handlers -> Request]
    <3>1. \/ \E step \in Steps : Go(h, step)
          \/ \E out \in Answers : Answer(h, out)
      BY <1>2 DEF Delete, RestoreDeleted, Purge, PurgeLookup, Stage, RemoveRow, RemoveTrash,
                  Steps, Answers
    <3>2. QED
      BY <3>1, GoTypes
  <2>3. failures' \in Nat
    <3>1. Works \/ Fails \/ failures' = failures + 2
      BY <1>2 DEF Delete, RestoreDeleted, Purge, PurgeLookup, Stage, RemoveRow, RemoveTrash
    <3>2. QED
      BY <3>1, CountTypes DEF Types
  <2>4. dir' \in [Projects -> Contents] /\ trash' \in [Projects -> Contents]
    <3>1. dir[P(h)] \in Contents /\ trash[P(h)] \in Contents
      BY <2>1 DEF Types
    <3>2. /\ UNCHANGED dir \/ \E c \in Contents : Put(dir, P(h), c)
          /\ UNCHANGED trash \/ \E c \in Contents : Put(trash, P(h), c)
      BY <1>a, <1>2, <3>1 DEF Delete, RestoreDeleted, Purge, PurgeLookup, Stage, RemoveRow,
                              RemoveTrash, disk
    <3>3. QED
      BY <2>1, <3>2, PutTypes DEF Types
  <2>5. row' \in [Projects -> Rows]
    <3>1. \/ UNCHANGED row
          \/ Put(row, P(h), Absent)
          \/ IsLive(P(h)) /\ row' = [row EXCEPT ![P(h)].state = "deleted"]
          \/ IsDeleted(P(h)) /\ row' = [row EXCEPT ![P(h)].state = "live"]
      BY <1>2 DEF Delete, RestoreDeleted, Purge, PurgeLookup, Stage, RemoveRow, RemoveTrash
    <3>2. row[P(h)] \in Rows /\ Absent \in Rows
      BY <2>1 DEF Types, Rows
    <3>3. row[P(h)] # Absent =>
            [row[P(h)] EXCEPT !.state = "deleted"] \in Rows /\ [row[P(h)] EXCEPT !.state = "live"] \in Rows
      BY <3>2 DEF Rows
    <3>4. IsLive(P(h)) \/ IsDeleted(P(h)) => row[P(h)] # Absent
      BY DEF IsLive, IsDeleted, Absent
    <3>5. \E x \in Rows : row' = [row EXCEPT ![P(h)] = x] \/ UNCHANGED row
      BY <3>1, <3>2, <3>3, <3>4 DEF Put
    <3>6. QED
      BY <2>1, <3>5 DEF Types
  <2>6. QED
    BY <1>0, <2>2, <2>3, <2>4, <2>5 DEF Types
<1>3. QED
  BY <1>1, <1>2 DEF Retire

LEMMA StepTypes ==
  ASSUME Types, NEW h \in Handlers, HandlerInv(h), HandlerStep(h)
  PROVE  Types'
BY CreateTypes, PurgeTypes DEF HandlerStep
----------------------------------------------------------------------------
(* What a step of a handler leaves alone: the other handlers and every project but *)
(* the one it works on.                                                            *)

Frame(h) ==
  /\ P(h)' \in Projects
  /\ ~At(h, "idle") => P(h)' = P(h)
  /\ \A p \in Projects \ {P(h)'} : /\ row'[p] = row[p] /\ dir'[p] = dir[p]
                                   /\ staging'[p] = staging[p] /\ trash'[p] = trash[p]
  /\ \A g \in Handlers \ {h} : req'[g] = req[g]
  /\ fresh' \subseteq fresh /\ fresh \ {P(h)'} \subseteq fresh'

\* Where its locals are from one step to the next.
LEMMA GoFrame ==
  ASSUME Types, NEW h \in Handlers
  PROVE  /\ \A step \in Steps : Go(h, step) =>
              req'[h].pc = step /\ req'[h].project = P(h) /\ req'[h].out = req[h].out
              /\ req'[h].name = req[h].name
         /\ \A out \in Answers : Answer(h, out) =>
              req'[h].pc = "idle" /\ req'[h].project = P(h) /\ req'[h].out = out
         /\ \A step \in Steps : Go(h, step) => \A g \in Handlers \ {h} : req'[g] = req[g]
         /\ \A out \in Answers : Answer(h, out) => \A g \in Handlers \ {h} : req'[g] = req[g]
<1>1. req \in [Handlers -> Request] /\ req[h] \in Request
  BY DEF Types
<1>2. QED
  BY <1>1 DEF Go, Answer, P, Request

LEMMA BeginFrame ==
  ASSUME Types, NEW h \in Handlers, NEW op, NEW p, NEW n, NEW s, NEW step
  PROVE  /\ Begin(h, op, p, n, s, step) =>
              /\ req'[h].pc = step /\ req'[h].project = p /\ req'[h].out = "none"
              /\ \A g \in Handlers \ {h} : req'[g] = req[g]
              /\ At(h, "idle") /\ p \in fresh /\ fresh' = fresh \ {p}
         /\ Refuse(h, op, p, n) =>
              /\ req'[h].pc = "idle" /\ req'[h].project = p
              /\ \A g \in Handlers \ {h} : req'[g] = req[g]
              /\ At(h, "idle") /\ p \in fresh /\ fresh' = fresh \ {p}
BY DEF Begin, Refuse, Types

LEMMA PutFrame ==
  ASSUME Types, NEW p \in Projects, NEW c
  PROVE  /\ Put(row, p, c) => row'[p] = c /\ \A o \in Projects \ {p} : row'[o] = row[o]
         /\ Put(dir, p, c) => dir'[p] = c /\ \A o \in Projects \ {p} : dir'[o] = dir[o]
         /\ Put(staging, p, c) =>
              staging'[p] = c /\ \A o \in Projects \ {p} : staging'[o] = staging[o]
         /\ Put(trash, p, c) => trash'[p] = c /\ \A o \in Projects \ {p} : trash'[o] = trash[o]
BY DEF Put, Types

\* The steps that hand out an id.
Starting(h) == InitBare(h) \/ CloneOrFetch(h) \/ MakeFolder(h)

\* A new project: the id was fresh, nothing but one directory of it is made.
LEMMA StartingFrame ==
  ASSUME Types, NEW h \in Handlers, Starting(h)
  PROVE  \E p \in Projects :
           /\ At(h, "idle") /\ p \in fresh /\ fresh' = fresh \ {p} /\ req'[h].project = p
           /\ \A g \in Handlers \ {h} : req'[g] = req[g]
           /\ UNCHANGED <<row, trash>>
           /\ \A o \in Projects \ {p} : dir'[o] = dir[o] /\ staging'[o] = staging[o]
           /\ \/ req'[h].pc = "idle"
              \/ req'[h].pc \in {"readme", "fetch"} /\ UNCHANGED staging /\ req'[h].out = "none"
              \/ req'[h].pc = "normalize" /\ staging'[p] = "repo" /\ req'[h].out = "none"
<1>1. CASE InitBare(h)
  <2>1. PICK p \in Projects, n \in Names :
          /\ Put(dir, p, "partial")
          /\ \/ Begin(h, "create", p, n, "main", "readme")
             \/ Refuse(h, "create", p, n)
    BY <1>1 DEF InitBare
  <2>2. WITNESS p \in Projects
  <2>3. UNCHANGED <<row, staging, trash>>
    BY <1>1 DEF InitBare
  <2>4. \A o \in Projects \ {p} : dir'[o] = dir[o]
    BY <2>1, PutFrame
  <2>5. /\ At(h, "idle") /\ p \in fresh /\ fresh' = fresh \ {p} /\ req'[h].project = p
        /\ \A g \in Handlers \ {h} : req'[g] = req[g]
        /\ \/ req'[h].pc = "idle"
           \/ req'[h].pc \in {"readme", "fetch"} /\ req'[h].out = "none"
    BY <2>1, BeginFrame
  <2>6. QED
    BY <2>3, <2>4, <2>5
<1>2. CASE MakeFolder(h)
  <2>1. PICK p \in Projects, n \in Names :
          /\ Put(dir, p, "partial")
          /\ \/ \E s \in Sources : Begin(h, "folder", p, n, s, "fetch")
             \/ Refuse(h, "folder", p, n)
    BY <1>2 DEF MakeFolder
  <2>2. WITNESS p \in Projects
  <2>3. UNCHANGED <<row, staging, trash>>
    BY <1>2 DEF MakeFolder
  <2>4. \A o \in Projects \ {p} : dir'[o] = dir[o]
    BY <2>1, PutFrame
  <2>5. /\ At(h, "idle") /\ p \in fresh /\ fresh' = fresh \ {p} /\ req'[h].project = p
        /\ \A g \in Handlers \ {h} : req'[g] = req[g]
        /\ \/ req'[h].pc = "idle"
           \/ req'[h].pc \in {"readme", "fetch"} /\ req'[h].out = "none"
    BY <2>1, BeginFrame
  <2>6. QED
    BY <2>3, <2>4, <2>5
<1>3. CASE CloneOrFetch(h)
  <2>1. PICK p \in Projects, n \in Names, op \in {"repo", "bundle"} :
          \/ /\ \E s \in Sources : Begin(h, op, p, n, s, "normalize")
             /\ Put(staging, p, "repo")
          \/ /\ Refuse(h, op, p, n)
             /\ \E left \in {"none", "partial"} : Put(staging, p, left)
    BY <1>3 DEF CloneOrFetch
  <2>2. WITNESS p \in Projects
  <2>3. UNCHANGED <<row, dir, trash>>
    BY <1>3 DEF CloneOrFetch
  <2>4. CASE \E s \in Sources : Begin(h, op, p, n, s, "normalize") /\ Put(staging, p, "repo")
    <3>1. staging'[p] = "repo" /\ \A o \in Projects \ {p} : staging'[o] = staging[o]
      BY <2>4, PutFrame
    <3>2. QED
      BY <2>3, <2>4, <3>1, BeginFrame
  <2>5. CASE Refuse(h, op, p, n) /\ \E left \in {"none", "partial"} : Put(staging, p, left)
    <3>1. \A o \in Projects \ {p} : staging'[o] = staging[o]
      BY <2>5, PutFrame
    <3>2. QED
      BY <2>3, <2>5, <3>1, BeginFrame
  <2>6. QED
    BY <2>1, <2>4, <2>5
<1>4. QED
  BY <1>1, <1>2, <1>3 DEF Starting

\* A later step of a creation.
LEMMA BuildingFrame ==
  ASSUME Types, NEW h \in Handlers, HandlerInv(h),
         WriteReadme(h) \/ Normalize(h) \/ Activate(h) \/ FetchFolder(h) \/ Insert(h)
  PROVE  /\ Frame(h) /\ req[h].pc \in Creating /\ UNCHANGED <<trash, fresh>>
         /\ req'[h].pc \in Creating \cup {"idle"}
<1>1. P(h) \in Projects /\ ~At(h, "idle") /\ req[h].pc \in Creating
  BY AtWork DEF WriteReadme, Normalize, Activate, FetchFolder, Insert, At, Creating
<1>2. /\ UNCHANGED <<trash, fresh>>
      /\ UNCHANGED row \/ Put(row, P(h), Live(req[h].name))
      /\ UNCHANGED dir \/ \E c \in {"none", "repo", "headless", staging[P(h)]} : Put(dir, P(h), c)
      /\ UNCHANGED staging \/ Put(staging, P(h), "none")
  BY DEF WriteReadme, Normalize, Activate, FetchFolder, Insert
<1>3. \/ \E step \in Steps \cap Creating : Go(h, step)
      \/ \E out \in Answers : Answer(h, out)
  BY DEF WriteReadme, Normalize, Activate, FetchFolder, Insert, Steps, Answers, Creating
<1>4. /\ req'[h].project = P(h) /\ \A g \in Handlers \ {h} : req'[g] = req[g]
      /\ req'[h].pc \in Creating \cup {"idle"}
  BY <1>3, GoFrame
<1>5. \A p \in Projects \ {P(h)} : /\ row'[p] = row[p] /\ dir'[p] = dir[p]
                                   /\ staging'[p] = staging[p] /\ trash'[p] = trash[p]
  BY <1>1, <1>2, PutFrame
<1>6. QED
  BY <1>1, <1>2, <1>4, <1>5 DEF Frame, P

\* A step under the project lock.
LEMMA LockedFrame ==
  ASSUME Types, NEW h \in Handlers, HandlerInv(h), Delete(h) \/ RestoreDeleted(h) \/ Purge(h)
  PROVE  /\ Frame(h) /\ req[h].pc \in Locking /\ UNCHANGED <<staging, fresh>>
         /\ req'[h].pc \in Purging \cup {"idle"}
<1>1. P(h) \in Projects /\ ~At(h, "idle") /\ req[h].pc \in Locking
  BY AtWork DEF Delete, RestoreDeleted, Purge, PurgeLookup, Stage, RemoveRow, RemoveTrash,
                At, Locking, Purging
<1>2. CASE Delete(h) \/ RestoreDeleted(h) \/ PurgeLookup(h)
  <2>1. /\ UNCHANGED <<dir, staging, trash, fresh>>
        /\ \/ UNCHANGED row
           \/ \E s : row' = [row EXCEPT ![P(h)].state = s]
    BY <1>2 DEF Delete, RestoreDeleted, PurgeLookup, disk
  <2>2. Go(h, "stage") \/ \E out \in Answers : Answer(h, out)
    BY <1>2 DEF Delete, RestoreDeleted, PurgeLookup, Answers
  <2>3. /\ req'[h].project = P(h) /\ \A g \in Handlers \ {h} : req'[g] = req[g]
        /\ req'[h].pc \in Purging \cup {"idle"}
    BY <2>2, GoFrame DEF Steps, Purging
  <2>4. \A p \in Projects \ {P(h)} : row'[p] = row[p]
    BY <1>1, <2>1 DEF Types
  <2>5. QED
    BY <1>1, <2>1, <2>3, <2>4 DEF Frame, P
<1>3. CASE Stage(h) \/ RemoveRow(h) \/ RemoveTrash(h)
  <2>1. /\ UNCHANGED <<staging, fresh>>
        /\ UNCHANGED row \/ Put(row, P(h), Absent)
        /\ UNCHANGED dir \/ \E c : Put(dir, P(h), c)
        /\ UNCHANGED trash \/ \E c : Put(trash, P(h), c)
    BY <1>3 DEF Stage, RemoveRow, RemoveTrash
  <2>2. \/ \E step \in Steps \cap Purging : Go(h, step)
        \/ \E out \in Answers : Answer(h, out)
    BY <1>3 DEF Stage, RemoveRow, RemoveTrash, Answers, Steps, Purging
  <2>3. /\ req'[h].project = P(h) /\ \A g \in Handlers \ {h} : req'[g] = req[g]
        /\ req'[h].pc \in Purging \cup {"idle"}
    BY <2>2, GoFrame
  <2>4. \A p \in Projects \ {P(h)} : row'[p] = row[p] /\ dir'[p] = dir[p] /\ trash'[p] = trash[p]
    BY <1>1, <2>1, PutFrame
  <2>5. QED
    BY <1>1, <2>1, <2>3, <2>4 DEF Frame, P
<1>4. QED
  BY <1>2, <1>3 DEF Purge

LEMMA AcquireFrame ==
  ASSUME Types, NEW h \in Handlers, Acquire(h)
  PROVE  /\ Frame(h) /\ UNCHANGED <<row, dir, staging, trash, fresh>>
         /\ At(h, "idle") /\ req'[h].pc = "locked" /\ req'[h].out = "none"
         /\ req'[h].project \in Projects \ fresh /\ ~Locked(req'[h].project)
<1>1. PICK p \in Projects \ fresh, op \in {"delete", "restore", "purge"} :
        /\ ~Locked(p)
        /\ req' = [req EXCEPT ![h] = [Idle EXCEPT !.pc = "locked", !.op = op, !.project = p]]
  BY DEF Acquire
<1>2. [Idle EXCEPT !.pc = "locked", !.op = op, !.project = p].pc = "locked"
      /\ [Idle EXCEPT !.pc = "locked", !.op = op, !.project = p].out = "none"
      /\ [Idle EXCEPT !.pc = "locked", !.op = op, !.project = p].project = p
  BY DEF Idle
<1>3. req'[h].pc = "locked" /\ req'[h].out = "none" /\ req'[h].project = p
  BY <1>1, <1>2 DEF Types
<1>4. \A g \in Handlers \ {h} : req'[g] = req[g]
  BY <1>1 DEF Types
<1>5. At(h, "idle") /\ UNCHANGED <<row, dir, staging, trash, fresh>>
  BY DEF Acquire, disk
<1>6. QED
  BY <1>1, <1>3, <1>4, <1>5 DEF Frame, P

LEMMA StepFrame ==
  ASSUME Types, NEW h \in Handlers, HandlerInv(h), HandlerStep(h)
  PROVE  Frame(h)
<1>1. CASE Starting(h)
  BY <1>1, StartingFrame DEF Frame, P
<1>2. CASE WriteReadme(h) \/ Normalize(h) \/ Activate(h) \/ FetchFolder(h) \/ Insert(h)
  BY <1>2, BuildingFrame
<1>3. CASE Acquire(h)
  BY <1>3, AcquireFrame
<1>4. CASE Delete(h) \/ RestoreDeleted(h) \/ Purge(h)
  BY <1>4, LockedFrame
<1>5. QED
  BY <1>1, <1>2, <1>3, <1>4 DEF HandlerStep, Create, Import, Retire, Starting
----------------------------------------------------------------------------
(* The invariant. *)

\* Who owns the files of a project is not disturbed by a step of another handler.
LEMMA NoClash ==
  ASSUME IInv, NEW h \in Handlers, NEW g \in Handlers \ {h}, HandlerStep(h),
         req[g].pc \in Owning, P(g) = P(h)'
  PROVE  UNCHANGED <<row, dir, staging, trash>> /\ req'[h].pc \notin Owning
<1>1. Types /\ HandlerInv(h) /\ HandlerInv(g) /\ Exclusive
  BY DEF IInv
<1>2. P(g) \in Projects \ fresh
  BY <1>1 DEF HandlerInv, Owning, Creating, Purging, At
<1>3. req[g].pc \in Creating => row[P(g)] = Absent
  BY <1>1 DEF HandlerInv
<1>4. req[h].pc \notin Owning \/ P(h) # P(g)
  BY <1>1 DEF Exclusive
<1>5. CASE Starting(h)
  BY <1>1, <1>2, <1>5, StartingFrame DEF P
<1>6. CASE WriteReadme(h) \/ Normalize(h) \/ Activate(h) \/ FetchFolder(h) \/ Insert(h)
  <2>1. P(h)' = P(h) /\ req[h].pc \in Owning
    BY <1>1, <1>6, BuildingFrame DEF Frame, Owning, Creating, At
  <2>2. QED
    BY <1>4, <2>1
<1>7. CASE Acquire(h)
  BY <1>1, <1>7, AcquireFrame DEF Owning, Creating, Purging
<1>8. CASE Delete(h) \/ RestoreDeleted(h) \/ Purge(h)
  <2>1. P(h)' = P(h) /\ req[h].pc \in Locking /\ UNCHANGED staging
    BY <1>1, <1>8, LockedFrame DEF Frame, Locking, Purging, At
  <2>2. req[g].pc \in Creating /\ row[P(h)] = Absent
    BY <1>1, <1>3, <2>1 DEF Exclusive, Owning, Locking, Purging
  <2>3. ~IsLive(P(h)) /\ ~IsDeleted(P(h))
    BY <2>2 DEF IsLive, IsDeleted, Absent
  <2>4. req[h].pc = "locked"
    BY <1>4, <2>1 DEF Owning, Locking
  <2>5. Delete(h) \/ RestoreDeleted(h) \/ PurgeLookup(h)
    BY <1>8, <2>4 DEF Purge, Stage, RemoveRow, RemoveTrash, At
  <2>6. UNCHANGED <<row, dir, trash>> /\ \E out \in Answers : Answer(h, out)
    BY <2>3, <2>5 DEF Delete, RestoreDeleted, PurgeLookup, disk, Answers
  <2>7. req'[h].pc = "idle"
    BY <1>1, <2>6, GoFrame
  <2>8. QED
    BY <2>1, <2>6, <2>7 DEF Owning, Creating, Purging
<1>9. QED
  BY <1>5, <1>6, <1>7, <1>8 DEF HandlerStep, Create, Import, Retire, Starting

LEMMA Others ==
  ASSUME IInv, NEW h \in Handlers, HandlerStep(h)
  PROVE  /\ \A g \in Handlers \ {h} : HandlerInv(g)'
         /\ \A p \in Projects \ {P(h)'} : ProjectInv(p)'
<1>1. Frame(h)
  BY StepFrame DEF IInv
<1>2. ASSUME NEW g \in Handlers \ {h}
      PROVE  HandlerInv(g)'
  <2>1. HandlerInv(g) /\ req'[g] = req[g] /\ fresh' \subseteq fresh
    BY <1>1 DEF IInv, Frame
  <2>2. CASE req[g].pc \notin Owning
    BY <2>1, <2>2 DEF HandlerInv, Owning, Creating, Purging, At, P
  <2>3. CASE req[g].pc \in Owning /\ P(g) = P(h)'
    <3>1. UNCHANGED <<row, dir, staging, trash>>
      BY <2>3, NoClash
    <3>2. QED
      BY <2>1, <3>1 DEF HandlerInv, At, P, IsDeleted
  <2>4. CASE req[g].pc \in Owning /\ P(g) # P(h)'
    <3>1. P(g) \in Projects
      BY <2>1, <2>4 DEF HandlerInv, Owning, Creating, Purging, At
    <3>2. /\ row'[P(g)] = row[P(g)] /\ dir'[P(g)] = dir[P(g)]
          /\ staging'[P(g)] = staging[P(g)] /\ trash'[P(g)] = trash[P(g)]
      BY <1>1, <2>4, <3>1 DEF Frame
    <3>3. QED
      BY <2>1, <3>2 DEF HandlerInv, At, P, IsDeleted
  <2>5. QED
    BY <2>2, <2>3, <2>4
<1>3. ASSUME NEW p \in Projects \ {P(h)'}
      PROVE  ProjectInv(p)'
  BY <1>1 DEF IInv, ProjectInv, RepoKept, Frame
<1>4. QED
  BY <1>2, <1>3

LEMMA KeepsExclusive ==
  ASSUME IInv, NEW h \in Handlers, HandlerStep(h)
  PROVE  Exclusive'
<1>1. Types /\ HandlerInv(h) /\ Exclusive /\ Frame(h)
  BY StepFrame DEF IInv
<1>2. ASSUME NEW g \in Handlers \ {h}, P(g)' = P(h)'
      PROVE  /\ ~(req'[g].pc \in Owning /\ req'[h].pc \in Owning)
             /\ ~(req'[g].pc \in Locking /\ req'[h].pc \in Locking)
  <2>1. req'[g] = req[g] /\ P(g) = P(h)'
    BY <1>1, <1>2 DEF Frame, P
  <2>2. ~(req'[g].pc \in Owning /\ req'[h].pc \in Owning)
    BY <2>1, NoClash
  <2>3. ~(req'[g].pc \in Locking /\ req'[h].pc \in Locking)
    <3>1. CASE Starting(h)
      BY <1>1, <3>1, StartingFrame DEF Locking, Purging
    <3>2. CASE WriteReadme(h) \/ Normalize(h) \/ Activate(h) \/ FetchFolder(h) \/ Insert(h)
      BY <1>1, <3>2, BuildingFrame DEF Locking, Purging, Creating
    <3>3. CASE Acquire(h)
      BY <1>1, <2>1, <3>3, AcquireFrame DEF Locked, Locking, Purging, P
    <3>4. CASE Delete(h) \/ RestoreDeleted(h) \/ Purge(h)
      BY <1>1, <2>1, <3>4, LockedFrame DEF Exclusive, Frame, Locking, Purging, At
    <3>5. QED
      BY <3>1, <3>2, <3>3, <3>4 DEF HandlerStep, Create, Import, Retire, Starting
  <2>4. QED
    BY <2>2, <2>3
<1>3. ASSUME NEW f \in Handlers \ {h}, NEW g \in Handlers \ {h}, f # g, P(f)' = P(g)'
      PROVE  /\ ~(req'[f].pc \in Owning /\ req'[g].pc \in Owning)
             /\ ~(req'[f].pc \in Locking /\ req'[g].pc \in Locking)
  BY <1>1, <1>3 DEF Exclusive, Frame, P
<1>4. QED
  BY <1>2, <1>3 DEF Exclusive

\* A new project is nobody else's, and has no row yet.
LEMMA OwnStart ==
  ASSUME IInv, NEW h \in Handlers, Starting(h)
  PROVE  HandlerInv(h)' /\ \A p \in Projects : p = P(h)' => ProjectInv(p)'
<1>1. PICK p \in Projects :
        /\ At(h, "idle") /\ p \in fresh /\ fresh' = fresh \ {p} /\ req'[h].project = p
        /\ UNCHANGED <<row, trash>>
        /\ \/ req'[h].pc = "idle"
           \/ req'[h].pc \in {"readme", "fetch"} /\ UNCHANGED staging /\ req'[h].out = "none"
           \/ req'[h].pc = "normalize" /\ staging'[p] = "repo" /\ req'[h].out = "none"
  BY StartingFrame DEF IInv
<1>2. row'[p] = Absent /\ staging[p] = "none" /\ trash'[p] = "none"
  BY <1>1 DEF IInv, ProjectInv
<1>3. HandlerInv(h)'
  BY <1>1, <1>2 DEF HandlerInv, At, P, Creating
<1>4. ProjectInv(p)'
  BY <1>1, <1>2 DEF ProjectInv
<1>5. QED
  BY <1>1, <1>3, <1>4 DEF P

\* Building a repository and inserting its row.
LEMMA OwnBuild ==
  ASSUME IInv, NEW h \in Handlers,
         WriteReadme(h) \/ Normalize(h) \/ Activate(h) \/ FetchFolder(h) \/ Insert(h)
  PROVE  HandlerInv(h)' /\ \A p \in Projects : p = P(h) => ProjectInv(p)'
<1>1. Types /\ HandlerInv(h) /\ req[h].pc \in Creating /\ UNCHANGED <<trash, fresh>>
  BY BuildingFrame DEF IInv
<1>2. /\ P(h) \in Projects \ fresh /\ req[h].out = "none"
      /\ row[P(h)] = Absent /\ trash[P(h)] = "none"
      /\ req[h].pc \in {"normalize", "activate"} <=> staging[P(h)] # "none"
      /\ staging[P(h)] \in {"none", "repo"}
  BY <1>1 DEF HandlerInv, Creating, At
<1>3. CASE WriteReadme(h)
  <2>1. /\ UNCHANGED <<row, staging>> /\ staging[P(h)] = "none"
        /\ \/ Put(dir, P(h), "repo") /\ Go(h, "insert")
           \/ Answer(h, "failed")
    BY <1>2, <1>3 DEF WriteReadme, At
  <2>2. /\ req'[h].project = P(h)
        /\ \/ dir'[P(h)] = "repo" /\ req'[h].pc = "insert" /\ req'[h].out = "none"
           \/ req'[h].pc = "idle"
    BY <1>1, <1>2, <2>1, GoFrame, PutFrame DEF Steps, Answers
  <2>3. QED
    BY <1>1, <1>2, <2>1, <2>2 DEF HandlerInv, ProjectInv, At, P, Creating, HasRepo
<1>4. CASE Normalize(h)
  <2>1. /\ UNCHANGED <<row, dir>>
        /\ \/ Go(h, "activate") /\ UNCHANGED staging
           \/ \E out \in Answers : Answer(h, out)
    BY <1>4 DEF Normalize, Answers
  <2>2. /\ req'[h].project = P(h)
        /\ \/ req'[h].pc = "activate" /\ req'[h].out = "none" /\ UNCHANGED staging
           \/ req'[h].pc = "idle"
    BY <1>1, <1>2, <2>1, GoFrame DEF Steps
  <2>3. req[h].pc = "normalize"
    BY <1>4 DEF Normalize, At
  <2>4. QED
    BY <1>1, <1>2, <2>1, <2>2, <2>3 DEF HandlerInv, ProjectInv, At, P, Creating
<1>5. CASE Activate(h)
  <2>1. /\ UNCHANGED row /\ Put(staging, P(h), "none")
        /\ \/ Put(dir, P(h), staging[P(h)]) /\ Go(h, "insert")
           \/ Answer(h, "failed")
    BY <1>5 DEF Activate
  <2>2. staging[P(h)] = "repo"
    BY <1>2, <1>5 DEF Activate, At
  <2>3. /\ req'[h].project = P(h) /\ staging'[P(h)] = "none"
        /\ \/ dir'[P(h)] = "repo" /\ req'[h].pc = "insert" /\ req'[h].out = "none"
           \/ req'[h].pc = "idle"
    BY <1>1, <1>2, <2>1, <2>2, GoFrame, PutFrame DEF Steps, Answers
  <2>4. QED
    BY <1>1, <1>2, <2>1, <2>3 DEF HandlerInv, ProjectInv, At, P, Creating, HasRepo
<1>6. CASE FetchFolder(h)
  <2>1. /\ UNCHANGED <<row, staging>> /\ staging[P(h)] = "none"
        /\ \/ /\ Put(dir, P(h), "repo") \/ Put(dir, P(h), "headless")
              /\ Go(h, "insert")
           \/ Answer(h, "failed")
    BY <1>2, <1>6 DEF FetchFolder, At
  <2>2. /\ req'[h].project = P(h)
        /\ \/ dir'[P(h)] \in {"repo", "headless"} /\ req'[h].pc = "insert" /\ req'[h].out = "none"
           \/ req'[h].pc = "idle"
    BY <1>1, <1>2, <2>1, GoFrame, PutFrame DEF Steps, Answers
  <2>3. QED
    BY <1>1, <1>2, <2>1, <2>2 DEF HandlerInv, ProjectInv, At, P, Creating, HasRepo
<1>7. CASE Insert(h)
  <2>1. HasRepo(dir[P(h)]) /\ staging[P(h)] = "none" /\ UNCHANGED staging
    BY <1>1, <1>2, <1>7 DEF Insert, HandlerInv, At
  <2>2. \E out \in Answers : Answer(h, out)
    BY <1>7 DEF Insert, Answers
  <2>3. req'[h].pc = "idle"
    BY <1>1, <2>2, GoFrame
  <2>4. UNCHANGED row \/ UNCHANGED dir
    BY <1>7 DEF Insert
  <2>5. \A p \in Projects : p = P(h) => ProjectInv(p)'
    BY <1>1, <1>2, <2>1, <2>4 DEF ProjectInv, RepoKept
  <2>6. QED
    BY <2>3, <2>5 DEF HandlerInv, At, Creating
<1>8. QED
  BY <1>3, <1>4, <1>5, <1>6, <1>7

\* Deleting, restoring and purging.
LEMMA OwnLocked ==
  ASSUME IInv, NEW h \in Handlers, Delete(h) \/ RestoreDeleted(h) \/ Purge(h)
  PROVE  HandlerInv(h)' /\ \A p \in Projects : p = P(h) => ProjectInv(p)'
<1>1. /\ Types /\ HandlerInv(h) /\ req[h].pc \in Locking /\ UNCHANGED <<staging, fresh>>
      /\ req'[h].project = P(h)
  BY LockedFrame DEF IInv, Frame, P, Locking, Purging, At
<1>2. P(h) \in Projects \ fresh /\ req[h].out = "none" /\ ProjectInv(P(h))
  BY <1>1 DEF IInv, HandlerInv, Locking, Purging, At
<1>3. CASE Delete(h) \/ RestoreDeleted(h)
  <2>1. /\ UNCHANGED <<dir, trash>>
        /\ \/ UNCHANGED row
           \/ IsLive(P(h)) \/ IsDeleted(P(h))
    BY <1>3 DEF Delete, RestoreDeleted, disk
  <2>2. \E out \in Answers : Answer(h, out)
    BY <1>3 DEF Delete, RestoreDeleted, Answers
  <2>3. req'[h].pc = "idle"
    BY <1>1, <2>2, GoFrame
  <2>4. IsLive(P(h)) \/ IsDeleted(P(h)) => row[P(h)] # Absent
    BY DEF IsLive, IsDeleted, Absent
  <2>5. \A p \in Projects : p = P(h) => ProjectInv(p)'
    BY <1>1, <1>2, <2>1, <2>4 DEF ProjectInv, RepoKept
  <2>6. QED
    BY <2>3, <2>5 DEF HandlerInv, At, Creating
<1>4. CASE PurgeLookup(h)
  <2>1. /\ UNCHANGED <<row, dir, trash>>
        /\ \/ IsDeleted(P(h)) /\ Go(h, "stage")
           \/ \E out \in Answers : Answer(h, out)
    BY <1>4 DEF PurgeLookup, disk, Answers
  <2>2. \/ IsDeleted(P(h)) /\ req'[h].pc = "stage" /\ req'[h].out = "none"
        \/ req'[h].pc = "idle"
    BY <1>1, <1>2, <2>1, GoFrame DEF Steps
  <2>3. \A p \in Projects : p = P(h) => ProjectInv(p)'
    BY <1>1, <1>2, <2>1 DEF ProjectInv, RepoKept
  <2>4. QED
    BY <1>1, <1>2, <2>1, <2>2, <2>3 DEF HandlerInv, At, P, Creating, IsDeleted
<1>5. CASE Stage(h)
  <2>1. IsDeleted(P(h)) /\ UNCHANGED row /\ RepoKept(P(h)) /\ staging[P(h)] = "none"
    BY <1>1, <1>2, <1>5 DEF Stage, HandlerInv, ProjectInv, At, IsDeleted, Absent
  <2>2. \/ /\ Put(trash, P(h), dir[P(h)]) /\ Put(dir, P(h), "none")
           /\ Go(h, "remove_row") /\ dir[P(h)] # "none"
        \/ dir[P(h)] = "none" /\ Go(h, "remove_row") /\ UNCHANGED <<dir, trash>>
        \/ Answer(h, "failed") /\ UNCHANGED <<dir, trash>>
    BY <1>5 DEF Stage
  <2>3. /\ \A p \in Projects : p = P(h) => RepoKept(p)'
        /\ \/ req'[h].pc = "remove_row" /\ req'[h].out = "none" /\ dir'[P(h)] = "none"
           \/ req'[h].pc = "idle"
    BY <1>1, <1>2, <2>1, <2>2, GoFrame, PutFrame DEF RepoKept, HasRepo, Steps, Answers
  <2>4. QED
    BY <1>1, <1>2, <2>1, <2>3 DEF HandlerInv, ProjectInv, At, P, Creating, IsDeleted
<1>6. CASE RemoveRow(h)
  <2>1. /\ IsDeleted(P(h)) /\ RepoKept(P(h)) /\ staging[P(h)] = "none"
        /\ dir[P(h)] = "none"
    BY <1>1, <1>2, <1>6 DEF RemoveRow, HandlerInv, ProjectInv, At, IsDeleted, Absent
  <2>2. HasRepo(trash[P(h)])
    BY <2>1 DEF RepoKept, HasRepo
  <2>3. \/ Put(row, P(h), Absent) /\ Go(h, "remove_trash") /\ UNCHANGED <<dir, trash>>
        \/ /\ Answer(h, "failed") /\ Put(dir, P(h), trash[P(h)])
           /\ Put(trash, P(h), "none") /\ UNCHANGED row
        \/ Answer(h, "failed") /\ UNCHANGED <<row, dir, trash>>
    BY <1>6 DEF RemoveRow
  <2>4. \/ /\ row'[P(h)] = Absent /\ req'[h].pc = "remove_trash" /\ req'[h].out = "none"
           /\ dir'[P(h)] = "none"
        \/ /\ \A p \in Projects : p = P(h) => RepoKept(p)'
           /\ req'[h].pc = "idle"
    BY <1>1, <1>2, <2>1, <2>2, <2>3, GoFrame, PutFrame DEF RepoKept, Steps, Answers
  <2>5. QED
    BY <1>1, <1>2, <2>1, <2>4 DEF HandlerInv, ProjectInv, At, P, Creating
<1>7. CASE RemoveTrash(h)
  <2>1. row[P(h)] = Absent /\ UNCHANGED <<row, dir>> /\ \E out \in Answers : Answer(h, out)
    BY <1>1, <1>7 DEF RemoveTrash, HandlerInv, At, Answers
  <2>2. req'[h].pc = "idle"
    BY <1>1, <2>1, GoFrame
  <2>3. QED
    BY <1>1, <1>2, <2>1, <2>2 DEF HandlerInv, ProjectInv, At, Creating
<1>8. QED
  BY <1>3, <1>4, <1>5, <1>6, <1>7 DEF Purge

LEMMA Own ==
  ASSUME IInv, NEW h \in Handlers, HandlerStep(h)
  PROVE  HandlerInv(h)' /\ \A p \in Projects : p = P(h)' => ProjectInv(p)'
<1>1. Types /\ HandlerInv(h)
  BY DEF IInv
<1>2. CASE Starting(h)
  BY <1>2, OwnStart
<1>3. CASE WriteReadme(h) \/ Normalize(h) \/ Activate(h) \/ FetchFolder(h) \/ Insert(h)
  <2>1. P(h)' = P(h)
    BY <1>1, <1>3, BuildingFrame DEF Frame, Creating, At
  <2>2. QED
    BY <1>3, <2>1, OwnBuild
<1>4. CASE Acquire(h)
  <2>1. /\ UNCHANGED <<row, dir, staging, trash, fresh>>
        /\ req'[h].pc = "locked" /\ req'[h].out = "none" /\ P(h)' \in Projects \ fresh
    BY <1>1, <1>4, AcquireFrame DEF P
  <2>2. HandlerInv(h)'
    BY <2>1 DEF HandlerInv, At, P, Creating
  <2>3. QED
    BY <2>1, <2>2 DEF IInv, ProjectInv, RepoKept
<1>5. CASE Delete(h) \/ RestoreDeleted(h) \/ Purge(h)
  <2>1. P(h)' = P(h)
    BY <1>1, <1>5, LockedFrame DEF Frame, Locking, Purging, At
  <2>2. QED
    BY <1>5, <2>1, OwnLocked
<1>6. QED
  BY <1>2, <1>3, <1>4, <1>5 DEF HandlerStep, Create, Import, Retire, Starting

LEMMA StepKeeps ==
  ASSUME IInv, NEW h \in Handlers, HandlerStep(h)
  PROVE  IInv'
<1>1. Types'
  BY StepTypes DEF IInv
<1>2. P(h)' \in Projects
  BY StepFrame DEF IInv, Frame
<1>3. \A g \in Handlers : HandlerInv(g)'
  BY Own, Others
<1>4. \A p \in Projects : ProjectInv(p)'
  BY <1>2, Own, Others
<1>5. QED
  BY <1>1, <1>3, <1>4, KeepsExclusive DEF IInv

\* A crash makes every handler idle; rows and directories stay as they are.
LEMMA CrashKeeps ==
  ASSUME IInv, Crash
  PROVE  IInv'
<1>1. Types /\ UNCHANGED <<row, dir, staging, trash, fresh, failures>> /\ crashes' = crashes + 1
  BY DEF IInv, Crash, disk
<1>2. ASSUME NEW h \in Handlers
      PROVE  req'[h] \in Request /\ req'[h].pc = "idle"
  <2>1. req'[h] = IF At(h, "idle") THEN req[h] ELSE Idle
    BY DEF Crash
  <2>2. QED
    BY <1>1, <2>1, IdleTypes DEF Types, At
<1>3. Types'
  <2>1. req' = [h \in Handlers |-> req'[h]]
    BY DEF Crash
  <2>2. QED
    BY <1>1, <1>2, <2>1 DEF Types
<1>4. \A h \in Handlers : HandlerInv(h)'
  BY <1>2 DEF HandlerInv, At, Creating
<1>5. Exclusive'
  BY <1>2 DEF Exclusive, Owning, Locking, Creating, Purging
<1>6. \A p \in Projects : ProjectInv(p)'
  BY <1>1 DEF IInv, ProjectInv, RepoKept
<1>7. QED
  BY <1>3, <1>4, <1>5, <1>6 DEF IInv
----------------------------------------------------------------------------
(* Theorems. *)

LEMMA InitEstablishes == Init => IInv
<1> SUFFICES ASSUME Init PROVE IInv
  OBVIOUS
<1>1. \A h \in Handlers : req[h] = Idle
  BY DEF Init
<1>2. Types
  BY IdleTypes DEF Init, Types, Contents, Rows
<1>3. \A h \in Handlers : HandlerInv(h)
  BY <1>1, IdleTypes DEF HandlerInv, At, Creating
<1>4. \A p \in Projects : ProjectInv(p)
  BY DEF Init, ProjectInv
<1>5. Exclusive
  BY <1>1, IdleTypes DEF Exclusive, Owning, Locking, Creating, Purging
<1>6. QED
  BY <1>2, <1>3, <1>4, <1>5 DEF IInv

LEMMA NextKeeps == IInv /\ [Next]_vars => IInv'
<1> SUFFICES ASSUME IInv, [Next]_vars PROVE IInv'
  OBVIOUS
<1>1. CASE UNCHANGED vars
  BY <1>1 DEF vars, IInv, Types, HandlerInv, ProjectInv, Exclusive, At, P, IsDeleted, RepoKept
<1>2. CASE \E h \in Handlers : HandlerStep(h)
  BY <1>2, StepKeeps
<1>3. CASE Crash
  BY <1>3, CrashKeeps
<1>4. QED
  BY <1>1, <1>2, <1>3 DEF Next, HandlerStep

\* In every reachable state: the types, at most one handler on the files of a project
\* and one with its lock, and for each project what its row promises.
THEOREM InvariantHolds == Spec => []IInv
BY InitEstablishes, NextKeeps, PTL DEF Spec

\* Every variable keeps its type.
THEOREM TypeCorrect == Spec => []TypeOK
<1>1. IInv => TypeOK
  BY DEF IInv, Types, TypeOK, Rows
<1>2. QED
  BY <1>1, InvariantHolds, PTL

\* Whatever fails or dies between the row and the files, a project that has a row has
\* its repository, in its directory or in the trash and never in both.
THEOREM RepositoryKept == Spec => []RowKeepsRepo
<1>1. IInv => RowKeepsRepo
  BY DEF IInv, ProjectInv, RepoKept, RowKeepsRepo
<1>2. QED
  BY <1>1, InvariantHolds, PTL

\* A purge that is answered with success and a creation that finds its name taken
\* leave neither row nor files.
THEOREM NothingLeft == Spec => AnsweredIsGone
<1>1. ASSUME IInv, Next, NEW h \in Handlers, ~At(h, "idle"),
             req'[h].out \in {"purged", "conflict"}
      PROVE  /\ row[P(h)] = Absent
             /\ dir'[P(h)] = "none" /\ trash'[P(h)] = "none" /\ staging'[P(h)] = "none"
  <2>0. Types /\ HandlerInv(h) /\ req[h].out = "none" /\ P(h) \in Projects
    BY <1>1, AtWork DEF IInv
  <2>1. CASE Crash
    BY <1>1, <2>1, IdleTypes DEF Crash
  <2>2. CASE \E g \in Handlers \ {h} : HandlerStep(g)
    BY <1>1, <2>0, <2>2, StepFrame DEF IInv, Frame
  <2>3. CASE HandlerStep(h)
    <3>1. \A step \in Steps : ~Go(h, step)
      BY <1>1, <2>0, GoFrame
    <3>2. \A out \in Answers : Answer(h, out) => out \in {"purged", "conflict"}
      BY <1>1, <2>0, GoFrame
    <3>3. Insert(h) \/ RemoveTrash(h)
      <4>1. ~Starting(h) /\ ~Acquire(h)
        BY <1>1, <2>0, StartingFrame, AcquireFrame
      <4>2. \A step \in {"insert", "activate", "stage", "remove_row", "remove_trash"} :
              ~Go(h, step)
        BY <3>1 DEF Steps
      <4>3. \A out \in {"failed", "no_main", "deleted", "not_found", "restored",
                        "not_deleted"} : ~Answer(h, out)
        BY <3>2 DEF Answers
      <4>4. QED
        BY <2>3, <4>1, <4>2, <4>3
           DEF HandlerStep, Create, Import, Retire, Purge, Starting, WriteReadme, Normalize,
               Activate, FetchFolder, Delete, RestoreDeleted, PurgeLookup, Stage, RemoveRow
    <3>4. CASE Insert(h)
      <4>1. /\ row[P(h)] = Absent /\ staging[P(h)] = "none" /\ trash[P(h)] = "none"
            /\ UNCHANGED <<staging, trash>>
        BY <2>0, <3>4 DEF Insert, HandlerInv, At, Creating
      <4>2. ~Answer(h, "created")
        BY <3>2 DEF Answers
      <4>3. Put(dir, P(h), "none")
        BY <3>4, <4>2 DEF Insert
      <4>4. QED
        BY <2>0, <4>1, <4>3, PutFrame
    <3>5. CASE RemoveTrash(h)
      <4>1. /\ row[P(h)] = Absent /\ staging[P(h)] = "none" /\ dir[P(h)] = "none"
            /\ UNCHANGED <<staging, dir>>
        BY <2>0, <3>5 DEF RemoveTrash, HandlerInv, At
      <4>2. ~Answer(h, "failed")
        BY <3>2 DEF Answers
      <4>3. Put(trash, P(h), "none")
        BY <3>5, <4>2 DEF RemoveTrash
      <4>4. QED
        BY <2>0, <4>1, <4>3, PutFrame
    <3>6. QED
      BY <3>3, <3>4, <3>5
  <2>4. QED
    BY <1>1, <2>1, <2>2, <2>3 DEF Next, HandlerStep
<1>2. IInv /\ [Next]_vars =>
        [\A h \in Handlers : ~At(h, "idle") /\ req'[h].out \in {"purged", "conflict"} =>
           /\ row[P(h)] = Absent
           /\ dir'[P(h)] = "none" /\ trash'[P(h)] = "none" /\ staging'[P(h)] = "none"]_vars
  BY <1>1
<1>3. QED
  BY <1>2, InvariantHolds, PTL DEF Spec, AnsweredIsGone
============================================================================
