---------------------------- MODULE SearchIndex ----------------------------
(***************************************************************************)
(* The full-text and link index of one project: doc_index_state,           *)
(* page_links and project_index_state, kept by ReindexProject behind every *)
(* write.  A reindex holds no lock: other writes, other reindexes and the  *)
(* deletion of the project run between its steps.                          *)
(*                                                                         *)
(*   internal/search/service.go, store.go                                  *)
(*   internal/httpapi/handlers/{changesets,projects,githttp}.go   callers  *)
(*                                                                         *)
(* A revision is the index of its tree in "tree".                          *)
(***************************************************************************)
EXTENDS Integers, Sequences

CONSTANTS Workers,      \* the handlers and CLI processes that reindex
          Paths,        \* file paths; every one is a Markdown page
          Texts,        \* blobs the index takes
          Binaries,     \* blobs it skips: a NUL byte, or over maxBlob
          NoFile,       \* no file at a path
          MaxRevision,  \* bound on the revisions made
          MaxSwallowed, \* bound on failed calls whose error the code drops
          MaxCrashes    \* bound on process crashes

ASSUME BlobsAssumption == Texts \cap Binaries = {} /\ NoFile \notin Texts \cup Binaries
ASSUME BoundsAssumption == /\ MaxRevision \in Nat \ {0}
                           /\ MaxSwallowed \in Nat /\ MaxCrashes \in Nat

VARIABLES tree,      \* the file tree of every revision
          head,      \* the revision HEAD resolves to
          deleted,   \* projects.deleted_at is set
          index,     \* doc_index_state: the indexed blob of a path
          links,     \* page_links: the blob the links of a page are from
          state,     \* project_index_state
          worker,    \* every worker's locals
          disturbed, \* history: the workers whose reindex had a failing read, or
                     \* ran while another worker changed the index
          swallowed, crashes

vars == <<tree, head, deleted, index, links, state, worker, disturbed, swallowed, crashes>>

Blobs == Texts \cup Binaries
Trees == [Paths -> Blobs \cup {NoFile}]
Statuses == {"none", "dirty", "clean", "error"}
Steps == {"idle", "mark", "open", "revision", "walk", "links", "list", "remove", "drop"}

NoState == [status |-> "none", rev |-> 0]
Dirty == [status |-> "dirty", rev |-> 0]
Error == [status |-> "error", rev |-> 0]
Clean(v) == [status |-> "clean", rev |-> v]

\* seen: the walked paths; drop: the listed paths that were not seen.
Idle == [pc |-> "idle", rev |-> 0, seen |-> {}, drop |-> {}]
Locals == [pc : Steps, rev : Nat, seen : SUBSET Paths, drop : SUBSET Paths]

Files(t) == {p \in Paths : t[p] # NoFile}
Empty == [p \in Paths |-> NoFile]

Init ==
  /\ \E t \in Trees : tree = <<t>>
  /\ head = 1
  /\ deleted = FALSE
  /\ index = Empty /\ links = Empty
  /\ state = NoState
  /\ worker = [w \in Workers |-> Idle]
  /\ disturbed = {}
  /\ swallowed = 0 /\ crashes = 0
----------------------------------------------------------------------------
(* What the workers' requests do before the index is brought up to date. *)

At(w, step) == worker[w].pc = step
Go(w, step) == worker' = [worker EXCEPT ![w].pc = step]
Become(w, locals) == worker' = [worker EXCEPT ![w] = locals]
Starting == [Idle EXCEPT !.pc = "mark"]

\* A changeset, revert, rename or push puts a new revision on the branch.
Write(w) ==
  /\ At(w, "idle") /\ ~deleted /\ Len(tree) < MaxRevision
  /\ \E p \in Paths, b \in Blobs \cup {NoFile} :
       tree' = Append(tree, [tree[head] EXCEPT ![p] = b])
  /\ head' = Len(tree) + 1
  /\ Become(w, Starting)
  /\ UNCHANGED <<deleted, index, links, state, swallowed, crashes>>

\* A forced push takes the branch back to an earlier revision.
PushBack(w) ==
  /\ At(w, "idle") /\ ~deleted
  /\ \E v \in 1..(head - 1) : head' = v
  /\ Become(w, Starting)
  /\ UNCHANGED <<tree, deleted, index, links, state, swallowed, crashes>>

\* "xwiki reindex", a process of its own.
Reindex(w) ==
  /\ At(w, "idle")
  /\ Become(w, Starting)
  /\ UNCHANGED <<tree, head, deleted, index, links, state, swallowed, crashes>>

DeleteProject(w) ==
  /\ At(w, "idle") /\ ~deleted
  /\ deleted' = TRUE
  /\ Go(w, "drop")
  /\ UNCHANGED <<tree, head, index, links, state, swallowed, crashes>>

RestoreDeleted(w) ==
  /\ At(w, "idle") /\ deleted
  /\ deleted' = FALSE
  /\ Become(w, Starting)
  /\ UNCHANGED <<tree, head, index, links, state, swallowed, crashes>>

Swallow == swallowed < MaxSwallowed /\ swallowed' = swallowed + 1

\* Store.DeleteProject, one transaction; its failure is only logged.
DropIndex(w) ==
  /\ At(w, "drop")
  /\ \/ /\ index' = Empty /\ links' = Empty /\ state' = NoState
        /\ UNCHANGED swallowed
     \/ Swallow /\ UNCHANGED <<index, links, state>>
  /\ Go(w, "idle")
  /\ UNCHANGED <<tree, head, deleted, crashes>>
----------------------------------------------------------------------------
(* ReindexProject. *)

\* MarkDirty, whose error is dropped.
MarkDirty(w) ==
  /\ At(w, "mark")
  /\ \/ state' = Dirty /\ UNCHANGED swallowed
     \/ Swallow /\ UNCHANGED state
  /\ Go(w, "open")
  /\ UNCHANGED <<tree, head, deleted, index, links, crashes>>

OpenRepo(w) ==
  /\ At(w, "open") /\ ~deleted
  /\ Go(w, "revision")
  /\ UNCHANGED <<tree, head, deleted, index, links, state, swallowed, crashes>>

Revision(w) ==
  /\ At(w, "revision")
  /\ worker' = [worker EXCEPT ![w].pc = "walk", ![w].rev = head]
  /\ UNCHANGED <<tree, head, deleted, index, links, state, swallowed, crashes>>

Target(w) == tree[worker[w].rev]
See(w, p) == worker' = [worker EXCEPT ![w].seen = @ \cup {p}]

\* Slip: the blob is read from the branch, not from the resolved revision.
VisitBranch(w) ==
  /\ At(w, "walk")
  /\ \E p \in Files(Target(w)) \ worker[w].seen :
       /\ index' = [index EXCEPT ![p] = IF tree[head][p] \in Texts THEN tree[head][p] ELSE @]
       /\ See(w, p)
  /\ UNCHANGED <<tree, head, deleted, links, state, swallowed, crashes>>

\* Slip: a binary is written to the index like a text.
VisitAnyBlob(w) ==
  /\ At(w, "walk")
  /\ \E p \in Files(Target(w)) \ worker[w].seen :
       index' = [index EXCEPT ![p] = Target(w)[p]] /\ See(w, p)
  /\ UNCHANGED <<tree, head, deleted, links, state, swallowed, crashes>>

\* One entry of the walk: HasSHA, ReadBlob and Upsert.  A file that is indexed
\* as it is, a binary, and an unreadable blob leave the row alone.
Visit(w) ==
  /\ At(w, "walk")
  /\ \E p \in Files(Target(w)) \ worker[w].seen :
       /\ See(w, p)
       /\ \/ /\ Target(w)[p] \in Texts
             /\ index' = [index EXCEPT ![p] = Target(w)[p]]
             /\ UNCHANGED swallowed
          \/ Target(w)[p] \in Binaries /\ UNCHANGED <<index, swallowed>>
          \/ Swallow /\ UNCHANGED index
  /\ UNCHANGED <<tree, head, deleted, links, state, crashes>>

\* Slip: a directory that cannot be listed is skipped like a blob.
WalkDonePartly(w) ==
  /\ At(w, "walk")
  /\ Go(w, "links")
  /\ UNCHANGED <<tree, head, deleted, index, links, state, swallowed, crashes>>

WalkDone(w) ==
  /\ At(w, "walk") /\ Files(Target(w)) \subseteq worker[w].seen
  /\ Go(w, "links")
  /\ UNCHANGED <<tree, head, deleted, index, links, state, swallowed, crashes>>

\* rebuildLinks: a second walk over the same revision, then one transaction.
\* A binary has no links; an unreadable page is skipped.
RebuildLinks(w) ==
  /\ At(w, "links")
  /\ \/ links' = Target(w) /\ UNCHANGED swallowed
     \/ /\ Swallow
        /\ \E p \in Files(Target(w)) : links' = [Target(w) EXCEPT ![p] = NoFile]
  /\ Go(w, "list")
  /\ UNCHANGED <<tree, head, deleted, index, state, crashes>>

\* indexedPaths
ListIndexed(w) ==
  /\ At(w, "list")
  /\ worker' = [worker EXCEPT ![w].pc = "remove",
                              ![w].drop = Files(index) \ worker[w].seen]
  /\ UNCHANGED <<tree, head, deleted, index, links, state, swallowed, crashes>>

Remove(w) ==
  /\ At(w, "remove")
  /\ \E p \in worker[w].drop :
       /\ index' = [index EXCEPT ![p] = NoFile]
       /\ worker' = [worker EXCEPT ![w].drop = @ \ {p}]
  /\ UNCHANGED <<tree, head, deleted, links, state, swallowed, crashes>>

SetClean(w) ==
  /\ At(w, "remove") /\ worker[w].drop = {}
  /\ state' = Clean(worker[w].rev)
  /\ Become(w, Idle)
  /\ UNCHANGED <<tree, head, deleted, index, links, swallowed, crashes>>

Reindexing(w) == worker[w].pc \in Steps \ {"idle", "mark", "drop"}

\* Slip: the error is returned and the state left as it is.
FailSilently(w) ==
  /\ Reindexing(w)
  /\ Become(w, Idle)
  /\ UNCHANGED <<tree, head, deleted, index, links, state, swallowed, crashes>>

\* A call fails (a deleted project, a cancelled request): the deferred function
\* stores "error", under a context of its own, and drops the error of that.
Fail(w) ==
  /\ Reindexing(w)
  /\ \/ state' = Error /\ UNCHANGED swallowed
     \/ Swallow /\ UNCHANGED state
  /\ Become(w, Idle)
  /\ UNCHANGED <<tree, head, deleted, index, links, crashes>>

\* The processes die; the database and the repository stay.
Crash ==
  /\ crashes < MaxCrashes
  /\ \E w \in Workers : ~At(w, "idle")
  /\ crashes' = crashes + 1
  /\ worker' = [w \in Workers |-> Idle]
  /\ disturbed' = {}
  /\ UNCHANGED <<tree, head, deleted, index, links, state, swallowed>>

Request(w) == Write(w) \/ PushBack(w) \/ Reindex(w) \/ DeleteProject(w) \/ RestoreDeleted(w)

Handle(w) ==
  \/ MarkDirty(w) \/ OpenRepo(w) \/ Revision(w) \/ Visit(w) \/ WalkDone(w)
  \/ RebuildLinks(w) \/ ListIndexed(w) \/ Remove(w) \/ SetClean(w)
  \/ Fail(w) \/ DropIndex(w)

Disturb(w) ==
  disturbed' = {x \in Workers : worker'[x].pc # "idle"} \cap
                 (disturbed \cup (IF <<index, links>>' # <<index, links>> THEN Workers \ {w} ELSE {})
                            \cup (IF swallowed' # swallowed THEN {w} ELSE {}))

Work(w) == (Request(w) \/ Handle(w)) /\ Disturb(w)

Next == (\E w \in Workers : Work(w)) \/ Crash

Spec == Init /\ [][Next]_vars
----------------------------------------------------------------------------
(* Properties. *)

TypeOK ==
  /\ tree \in Seq(Trees) /\ head \in DOMAIN tree
  /\ deleted \in BOOLEAN
  /\ index \in [Paths -> Texts \cup {NoFile}]
  /\ links \in Trees
  /\ state \in [status : Statuses, rev : Nat]
  /\ worker \in [Workers -> Locals]
  /\ disturbed \subseteq Workers
  /\ swallowed \in Nat /\ crashes \in Nat

InSync(v) ==
  /\ \A p \in Paths : tree[v][p] \in Texts => index[p] = tree[v][p]
  /\ \A p \in Paths : tree[v][p] = NoFile => index[p] = NoFile
  /\ links = tree[v]

\* "The search index can be completely rebuilt": whatever overlapping, failed
\* or crashed reindexes and deletions left behind, one reindex that runs
\* undisturbed to its end leaves the index in sync with the revision it names.
ReindexRepairs ==
  [][\A w \in Workers : worker[w].pc = "remove" /\ worker'[w].pc = "idle"
       /\ state' = Clean(worker[w].rev) /\ w \notin disturbed
       /\ swallowed' = swallowed /\ crashes' = crashes
       => InSync(worker[w].rev)]_vars

\* However reindexes overlap, fail or crash, a document leaves the index of a
\* live project only when some revision really lacks it.
DocumentsStaySearchable ==
  [][\A p \in Paths : index[p] # NoFile /\ index'[p] = NoFile =>
       \/ \E w \in Workers : At(w, "drop")
       \/ \E v \in DOMAIN tree : tree[v][p] = NoFile]_vars

\* A dirty snapshot has somebody who will end it with "clean" or "error": it is
\* left dirty only by a process that dies, or when the failing call is the one
\* that stores the error.
DirtyHasWorker ==
  state.status = "dirty" /\ swallowed = 0 /\ crashes = 0 => \E w \in Workers : Reindexing(w)
============================================================================
