-------------------------- MODULE ProjectLifecycle --------------------------
(***************************************************************************)
(* A project is a row of "projects" and a bare repository in a directory.  *)
(* Creating, importing, deleting, restoring and purging change both, one   *)
(* after the other, and may fail or die in between.                        *)
(*                                                                         *)
(*   internal/project/service.go   Create, Delete, RestoreDeleted,         *)
(*                                 PurgeDeleted                            *)
(*   internal/project/transfer.go  ImportRepo, ImportBundle, ImportFolder  *)
(*   internal/project/repo.go      InitBare, WriteReadme                   *)
(*                                                                         *)
(* Ids are fresh, so only one request ever creates a given project; the    *)
(* other three operations hold its LockProjectWrite.                       *)
(***************************************************************************)
EXTENDS Integers, FiniteSets

CONSTANTS Handlers,    \* the requests that may run at once
          Projects,    \* project ids
          Names,       \* project names
          NoProject,
          MaxFailures, \* bound on failing calls
          MaxCrashes   \* bound on process crashes

ASSUME NoProjectAssumption == NoProject \notin Projects
ASSUME NamesAssumption == Names # {}
ASSUME BoundsAssumption == MaxFailures \in Nat /\ MaxCrashes \in Nat

VARIABLES row,     \* projects: the rows, live and soft-deleted
          dir,     \* repos/<id>
          staging, \* repos/.staging-<id>
          trash,   \* trash/<id>-purging
          fresh,   \* the ids not handed out yet
          req,     \* every handler's locals
          failures, crashes

vars == <<row, dir, staging, trash, fresh, req, failures, crashes>>
disk == <<dir, staging, trash>>

\* "partial" is a directory without a usable repository, "headless" one whose
\* HEAD, main, does not exist.
Contents == {"none", "partial", "headless", "repo"}
HasRepo(c) == c \in {"repo", "headless"}

Absent == [state |-> "absent"]
Live(n) == [state |-> "live", name |-> n]
IsLive(p) == row[p].state = "live"
IsDeleted(p) == row[p].state = "deleted"
Taken(n) == \E p \in Projects : row[p] # Absent /\ row[p].name = n

Ops == {"create", "repo", "bundle", "folder", "delete", "restore", "purge"}
Sources == {"main", "other"}  \* the branches of what is imported
Steps == {"idle", "readme", "fetch", "normalize", "activate", "insert",
          "locked", "stage", "remove_row", "remove_trash"}
Answers == {"none", "created", "conflict", "no_main", "deleted", "restored",
            "purged", "not_found", "not_deleted", "failed"}

Idle == [pc |-> "idle", op |-> "create", project |-> NoProject, name |-> CHOOSE n \in Names : TRUE,
         source |-> "main", out |-> "none"]
Request == [pc : Steps, op : Ops, project : Projects \cup {NoProject}, name : Names,
            source : Sources, out : Answers]

Init ==
  /\ row = [p \in Projects |-> Absent]
  /\ dir = [p \in Projects |-> "none"]
  /\ staging = dir /\ trash = dir
  /\ fresh = Projects
  /\ req = [h \in Handlers |-> Idle]
  /\ failures = 0 /\ crashes = 0
----------------------------------------------------------------------------
At(h, step) == req[h].pc = step
Is(h, ops) == req[h].op \in ops
P(h) == req[h].project
Go(h, step) == req' = [req EXCEPT ![h].pc = step]
Answer(h, out) == req' = [req EXCEPT ![h].pc = "idle", ![h].out = out]

Fails == failures < MaxFailures /\ failures' = failures + 1
Works == UNCHANGED failures
Put(where, p, content) == where' = [where EXCEPT ![p] = content]

Locked(p) == \E h \in Handlers : P(h) = p /\ req[h].pc \in {"locked", "stage", "remove_row", "remove_trash"}
----------------------------------------------------------------------------
(* Creating a project.  RemoveAll of the request's own directory, the       *)
(* deferred or explicit cleanup, is taken to succeed.                       *)

Begin(h, op, p, n, s, step) ==
  /\ At(h, "idle") /\ p \in fresh
  /\ fresh' = fresh \ {p}
  /\ req' = [req EXCEPT ![h] = [pc |-> step, op |-> op, project |-> p, name |-> n,
                                source |-> s, out |-> "none"]]

Refuse(h, op, p, n) ==
  /\ At(h, "idle") /\ p \in fresh
  /\ fresh' = fresh \ {p}
  /\ req' = [req EXCEPT ![h] = [pc |-> "idle", op |-> op, project |-> p, name |-> n,
                                source |-> "main", out |-> "failed"]]

\* InitBare: a failing "git init" leaves the parent directory it made.
InitBare(h) ==
  /\ \E p \in Projects, n \in Names :
       /\ Put(dir, p, "partial")
       /\ \/ Begin(h, "create", p, n, "main", "readme") /\ Works
          \/ Refuse(h, "create", p, n) /\ Fails
  /\ UNCHANGED <<row, staging, trash, crashes>>

\* WriteReadme
WriteReadme(h) ==
  /\ At(h, "readme")
  /\ \/ Put(dir, P(h), "repo") /\ Go(h, "insert") /\ Works
     \/ Put(dir, P(h), "none") /\ Answer(h, "failed") /\ Fails
  /\ UNCHANGED <<row, staging, trash, fresh, crashes>>

\* ImportRepo clones into the staging directory.  ImportBundle makes it with
\* "git init", before its cleanup is deferred, and then fetches into it.
CloneOrFetch(h) ==
  /\ \E p \in Projects, n \in Names, op \in {"repo", "bundle"} :
       \/ /\ \E s \in Sources : Begin(h, op, p, n, s, "normalize")
          /\ Put(staging, p, "repo") /\ Works
       \/ /\ Refuse(h, op, p, n) /\ Fails
          /\ \E left \in IF op = "bundle" THEN {"none", "partial"} ELSE {"none"} :
               Put(staging, p, left)
  /\ UNCHANGED <<row, dir, trash, crashes>>

\* Without a branch main, "git update-ref refs/heads/main <id> <branch>" takes
\* the branch for the old value of main and is refused.
Normalize(h) ==
  /\ At(h, "normalize")
  /\ \/ req[h].source = "main" /\ Go(h, "activate") /\ Works /\ UNCHANGED staging
     \/ req[h].source = "other" /\ Answer(h, "no_main") /\ Works /\ Put(staging, P(h), "none")
     \/ Answer(h, "failed") /\ Fails /\ Put(staging, P(h), "none")
  /\ UNCHANGED <<row, dir, trash, fresh, crashes>>

\* fsck, symbolic-ref and the rename to the project's directory.
Activate(h) ==
  /\ At(h, "activate")
  /\ Put(staging, P(h), "none")
  /\ \/ Put(dir, P(h), staging[P(h)]) /\ Go(h, "insert") /\ Works
     \/ Answer(h, "failed") /\ Fails /\ UNCHANGED dir
  /\ UNCHANGED <<row, trash, fresh, crashes>>

\* ImportFolder works in the project's directory.  A failing MkdirTemp leaves
\* it behind.
MakeFolder(h) ==
  /\ \E p \in Projects, n \in Names :
       /\ Put(dir, p, "partial")
       /\ \/ (\E s \in Sources : Begin(h, "folder", p, n, s, "fetch")) /\ Works
          \/ Refuse(h, "folder", p, n) /\ Fails
  /\ UNCHANGED <<row, staging, trash, crashes>>

\* "git init --bare" and the fetch of all branches; HEAD is main.
FetchFolder(h) ==
  /\ At(h, "fetch")
  /\ \/ /\ Put(dir, P(h), IF req[h].source = "main" THEN "repo" ELSE "headless")
        /\ Go(h, "insert") /\ Works
     \/ Put(dir, P(h), "none") /\ Answer(h, "failed") /\ Fails
  /\ UNCHANGED <<row, staging, trash, fresh, crashes>>

\* Store.Create: a name stays taken while its project is soft-deleted.
Insert(h) ==
  /\ At(h, "insert")
  /\ \/ /\ ~Taken(req[h].name) /\ Put(row, P(h), Live(req[h].name))
        /\ Answer(h, "created") /\ Works /\ UNCHANGED dir
     \/ /\ Taken(req[h].name) /\ Put(dir, P(h), "none")
        /\ Answer(h, "conflict") /\ Works /\ UNCHANGED row
     \/ Put(dir, P(h), "none") /\ Answer(h, "failed") /\ Fails /\ UNCHANGED row
  /\ UNCHANGED <<staging, trash, fresh, crashes>>
----------------------------------------------------------------------------
(* Deleting, restoring and purging, under the project lock. *)

\* LockProjectWrite.  Waiting is not part of the state.
Acquire(h) ==
  /\ At(h, "idle")
  /\ \E p \in Projects \ fresh, op \in {"delete", "restore", "purge"} :
       /\ ~Locked(p)
       /\ req' = [req EXCEPT ![h] = [Idle EXCEPT !.pc = "locked", !.op = op, !.project = p]]
  /\ UNCHANGED <<row, disk, fresh, failures, crashes>>

\* Slip: the row is written without the WHERE clause that finds a live one.
DeleteUnchecked(h) ==
  /\ At(h, "locked") /\ Is(h, {"delete"})
  /\ row' = [row EXCEPT ![P(h)].state = "deleted"]
  /\ Answer(h, "deleted")
  /\ Works /\ UNCHANGED <<disk, fresh, crashes>>

\* Store.SoftDelete
Delete(h) ==
  /\ At(h, "locked") /\ Is(h, {"delete"})
  /\ IF IsLive(P(h)) THEN /\ row' = [row EXCEPT ![P(h)].state = "deleted"]
                          /\ Answer(h, "deleted")
                     ELSE Answer(h, "not_found") /\ UNCHANGED row
  /\ Works /\ UNCHANGED <<disk, fresh, crashes>>

\* GetDeletedByID and Store.RestoreDeleted
RestoreDeleted(h) ==
  /\ At(h, "locked") /\ Is(h, {"restore"})
  /\ IF IsDeleted(P(h)) THEN /\ row' = [row EXCEPT ![P(h)].state = "live"]
                             /\ Answer(h, "restored")
                        ELSE Answer(h, "not_found") /\ UNCHANGED row
  /\ Works /\ UNCHANGED <<disk, fresh, crashes>>

PurgeLookup(h) ==
  /\ At(h, "locked") /\ Is(h, {"purge"})
  /\ \/ IsDeleted(P(h)) /\ Go(h, "stage")
     \/ IsLive(P(h)) /\ Answer(h, "not_deleted")
     \/ row[P(h)] = Absent /\ Answer(h, "not_found")
  /\ Works /\ UNCHANGED <<row, disk, fresh, crashes>>

\* Slip: any error of the rename is taken for a missing directory.
StageIgnoringErrors(h) ==
  /\ At(h, "stage")
  /\ \/ dir[P(h)] # "none" /\ Put(trash, P(h), dir[P(h)]) /\ Put(dir, P(h), "none") /\ Works
     \/ dir[P(h)] = "none" /\ UNCHANGED disk /\ Works
     \/ dir[P(h)] # "none" /\ UNCHANGED disk /\ Fails
  /\ Go(h, "remove_row")
  /\ UNCHANGED <<row, staging, fresh, crashes>>

\* The repository goes to the trash; a missing directory (an earlier purge
\* died after this step) is no error.
Stage(h) ==
  /\ At(h, "stage")
  /\ \/ /\ dir[P(h)] # "none"
        /\ Put(trash, P(h), dir[P(h)]) /\ Put(dir, P(h), "none")
        /\ Go(h, "remove_row") /\ Works
     \/ dir[P(h)] = "none" /\ Go(h, "remove_row") /\ Works /\ UNCHANGED <<dir, trash>>
     \/ Answer(h, "failed") /\ Fails /\ UNCHANGED <<dir, trash>>
  /\ UNCHANGED <<row, staging, fresh, crashes>>

\* Slip: the staged repository is removed before the row.
RemoveRowLast(h) ==
  /\ At(h, "remove_row")
  /\ Put(trash, P(h), "none")
  /\ Go(h, "remove_trash") /\ Works
  /\ UNCHANGED <<row, dir, staging, fresh, crashes>>

\* Store.Delete; when it fails the repository is moved back, best effort.
RemoveRow(h) ==
  /\ At(h, "remove_row")
  /\ \/ /\ Put(row, P(h), Absent)
        /\ Go(h, "remove_trash") /\ Works
        /\ UNCHANGED <<dir, trash>>
     \/ /\ Answer(h, "failed") /\ Fails
        /\ Put(dir, P(h), trash[P(h)]) /\ Put(trash, P(h), "none")
        /\ UNCHANGED row
     \/ /\ Answer(h, "failed")
        /\ failures + 2 <= MaxFailures /\ failures' = failures + 2
        /\ UNCHANGED <<row, dir, trash>>
  /\ UNCHANGED <<staging, fresh, crashes>>

RemoveTrash(h) ==
  /\ At(h, "remove_trash")
  /\ \/ Put(trash, P(h), "none") /\ Answer(h, "purged") /\ Works
     \/ Answer(h, "failed") /\ Fails /\ UNCHANGED trash
  /\ UNCHANGED <<row, dir, staging, fresh, crashes>>

\* The process dies; rows and directories stay.
Crash ==
  /\ crashes < MaxCrashes
  /\ \E h \in Handlers : ~At(h, "idle")
  /\ crashes' = crashes + 1
  /\ req' = [h \in Handlers |-> IF At(h, "idle") THEN req[h] ELSE Idle]
  /\ UNCHANGED <<row, disk, fresh, failures>>

Create(h) == InitBare(h) \/ WriteReadme(h)
Import(h) == CloneOrFetch(h) \/ Normalize(h) \/ Activate(h) \/ MakeFolder(h) \/ FetchFolder(h)
Retire(h) == Acquire(h) \/ Delete(h) \/ RestoreDeleted(h)
Purge(h) == PurgeLookup(h) \/ Stage(h) \/ RemoveRow(h) \/ RemoveTrash(h)

Next == (\E h \in Handlers : Create(h) \/ Import(h) \/ Insert(h) \/ Retire(h) \/ Purge(h)) \/ Crash

Spec == Init /\ [][Next]_vars
----------------------------------------------------------------------------
(* Properties. *)

TypeOK ==
  /\ \A p \in Projects : row[p] = Absent \/ row[p] \in [state : {"live", "deleted"}, name : Names]
  /\ dir \in [Projects -> Contents]
  /\ staging \in [Projects -> Contents] /\ trash \in [Projects -> Contents]
  /\ fresh \subseteq Projects
  /\ req \in [Handlers -> Request]
  /\ failures \in Nat /\ crashes \in Nat

\* "The repository stays, so that the project can be brought back": whatever
\* fails or dies, a project that has a row has its repository, in place or in
\* the trash, and in one of them only.
RowKeepsRepo ==
  \A p \in Projects : row[p] # Absent =>
    \/ HasRepo(dir[p]) /\ trash[p] = "none"
    \/ HasRepo(trash[p]) /\ dir[p] = "none"

\* "Permanently removes a soft-deleted project", "on any failure no partial record
\* survives": a purge that reports success, also when it finishes the work of one
\* that died, and a creation or import that finds its name taken once its repository
\* is in place have left neither row nor files.
AnsweredIsGone ==
  [][\A h \in Handlers : ~At(h, "idle") /\ req'[h].out \in {"purged", "conflict"} =>
       /\ row[P(h)] = Absent
       /\ dir'[P(h)] = "none" /\ trash'[P(h)] = "none" /\ staging'[P(h)] = "none"]_vars
============================================================================
