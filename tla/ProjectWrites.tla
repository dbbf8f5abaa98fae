--------------------------- MODULE ProjectWrites ---------------------------
(***************************************************************************)
(* The write path of one XWiki project: every operation that moves the     *)
(* project's branch or changes its row, run by concurrent HTTP requests    *)
(* that share the in-process project mutation lock.                        *)
(*                                                                         *)
(* A request's steps are the accesses to shared state (the SQLite row, the *)
(* refs and objects of the bare repository, the lock) in the order of the  *)
(* Go code; what happens inside a private worktree is one step.            *)
(*                                                                         *)
(*   changeset  internal/project/changeset.go   ApplyChangeset             *)
(*   revert     internal/project/history.go     RevertCommit               *)
(*   push       internal/httpapi/handlers/githttp.go  git receive-pack     *)
(*   rename     internal/project/service.go     Rename                     *)
(*   purge      internal/project/service.go     Purge (history rewrite)    *)
(*   archive, unarchive, delete, restore        internal/project/service.go*)
(*                                                                         *)
(* A commit is identified by its index in "object" (a fresh sha), the      *)
(* branch by the sequence "main" of the commits reachable from its tip,    *)
(* oldest first.  A tree maps each path to its content; the content of the *)
(* README is the title of its first heading, or Plain when the first line  *)
(* is no heading.                                                          *)
(***************************************************************************)
EXTENDS Integers, Sequences, FiniteSets

CONSTANTS Requests,    \* the HTTP requests; each runs one operation
          Kinds,       \* the operations the requests may be
          Docs,        \* document paths
          Names,       \* project names
          Plain,       \* any content that is no title heading
          Absent,      \* the "content" of a path that does not exist
          Changesets,  \* net effects of changesets: partial functions on Paths
          NoOne,       \* nobody holds the lock
          MaxCrashes   \* bound on process crashes

AllKinds == {"changeset", "revert", "push", "rename", "purge",
             "archive", "unarchive", "delete", "restore"}

Readme == "README.md"
Paths == Docs \cup {Readme}
Contents == Names \cup {Plain}
Trees == [Paths -> Contents \cup {Absent}]

ASSUME KindsAssumption == Kinds \subseteq AllKinds
ASSUME NamesAssumption == Names # {}
ASSUME NoOneAssumption == NoOne \notin Requests
ASSUME AbsentAssumption == Absent \notin Contents /\ Plain \notin Names
ASSUME DocsAssumption == Readme \notin Docs
ASSUME MaxCrashesAssumption == MaxCrashes \in Nat
ASSUME ChangesetsAssumption ==
  \A f \in Changesets : /\ DOMAIN f \subseteq Paths
                        /\ f \in [DOMAIN f -> Contents \cup {Absent}]

VARIABLES row,       \* "live", or "deleted" when deleted_at is set
          archived,  \* archived_at is set
          name,      \* projects.name
          object,    \* every commit object ever created
          odb,       \* the commits git still stores
          main,      \* the default branch, root first; <<>> when it has no ref
          pinned,    \* the commits that other refs and left-behind worktrees hold
          attached,  \* a worktree has the branch checked out
          lock,      \* the project mutation lock
          pc, req,   \* each request's next step and data
          crashes,   \* number of crashes so far
          moves,     \* history: how often each request moved the branch
          mayWrite,  \* history: requests that overlapped an open project
          erased     \* history: purged paths nobody has written since

meta == <<row, archived, name>>
repo == <<object, odb, main, pinned, attached>>
vars == <<row, archived, name, object, odb, main, pinned, attached, lock,
          pc, req, crashes, moves, mayWrite, erased>>
----------------------------------------------------------------------------
(* Commits and trees. *)

Commit == [parent : Nat, tree : Trees, paths : SUBSET Paths]

Tip == main[Len(main)]
EmptyTree == [p \in Paths |-> Absent]
TreeOf(c) == object[c].tree
ParentTree(c) == IF object[c].parent = 0 THEN EmptyTree
                 ELSE TreeOf(object[c].parent)

\* Slip: the worktree is added without a checkout.
OverwriteNothing(tree, f) ==
  [p \in Paths |-> IF p \in DOMAIN f THEN f[p] ELSE Absent]

\* A changeset's files written over, or removed from, a checked-out tree.
Overwrite(tree, f) == [p \in Paths |-> IF p \in DOMAIN f THEN f[p] ELSE tree[p]]

\* The paths a commit changed, as "git show" lists them.
Diff(c) == {p \in Paths : TreeOf(c)[p] # ParentTree(c)[p]}

\* git apply --reverse: the patch applies when every path it touches still
\* has the content the commit gave it, and the patch is not empty.
Reverses(c, tree) == /\ Diff(c) # {}
                     /\ \A p \in Diff(c) : tree[p] = TreeOf(c)[p]
Reversed(c, tree) ==
  [p \in Paths |-> IF p \in Diff(c) THEN ParentTree(c)[p] ELSE tree[p]]

\* RewriteReadmeTitle replaces a first line that is a heading, leaves any
\* other first line alone, and writes a fresh file when there is none.
Titled(tree, title) ==
  [tree EXCEPT ![Readme] = IF tree[Readme] = Plain THEN Plain ELSE title]

\* filter-branch --index-filter "git rm": the tree without the purged paths.
Strip(tree, P) == [p \in Paths |-> IF p \in P THEN Absent ELSE tree[p]]
----------------------------------------------------------------------------
(* Requests. *)

PcStates == {"idle", "wait", "locked", "resolved", "checkedout", "staged",
             "committed", "attach", "attached", "titled", "rewrite",
             "rewritten", "release", "done"}
InFlight == PcStates \ {"idle", "done"}
Critical == InFlight \ {"wait"}
\* A changeset or a revert between reading HEAD and moving the branch.
Building == {"resolved", "checkedout", "staged", "committed"}
Outcomes == {"none", "ok", "preview", "conflict", "archived", "notfound",
             "rejected", "error", "lost"}

\* kind and dry; base: the revision the client names (base_revision of a
\* changeset, the old id of a push, the commit to revert); title: the name a
\* rename writes; prior: the name it restores on failure; purge: the paths to
\* purge; cur, tree, paths: what the handler read and built; commit: the
\* commit it made or pushed; out: its answer.
Request == [kind : AllKinds \cup {"none"}, dry : BOOLEAN, base : Nat,
            title : Names, prior : Names, purge : SUBSET Paths,
            cur : Nat, tree : Trees, paths : SUBSET Paths,
            commit : Nat, out : Outcomes]

AName == CHOOSE n \in Names : TRUE
NoRequest == [kind |-> "none", dry |-> FALSE, base |-> 0, title |-> AName,
              prior |-> AName, purge |-> {}, cur |-> 0, tree |-> EmptyTree,
              paths |-> {}, commit |-> 0, out |-> "none"]

Open == row = "live" /\ ~archived

\* Slip: the unlock is not deferred, so the return keeps the lock.
ReturnHoldingLock(r, out) ==
  /\ pc' = [pc EXCEPT ![r] = "done"]
  /\ req' = [req EXCEPT ![r].out = out]

\* The handler returns: deferred cleanup and unlock come next.
Return(r, out) ==
  /\ pc' = [pc EXCEPT ![r] = "release"]
  /\ req' = [req EXCEPT ![r].out = out]
\* History: the request moves the branch.
Moved(r) == moves' = [moves EXCEPT ![r] = @ + 1]
----------------------------------------------------------------------------
Init ==
  /\ row = "live" /\ archived = FALSE
  /\ name \in Names
  /\ \E t \in Trees : /\ t[Readme] = name
                      /\ \A d \in Docs : t[d] = Absent
                      /\ object = <<[parent |-> 0, tree |-> t, paths |-> Paths]>>
  /\ odb = {1} /\ main = <<1>> /\ pinned = {} /\ attached = FALSE
  /\ lock = NoOne
  /\ pc = [r \in Requests |-> "idle"]
  /\ req = [r \in Requests |-> NoRequest]
  /\ crashes = 0 /\ mayWrite = {} /\ erased = {}
  /\ moves = [r \in Requests |-> 0]
----------------------------------------------------------------------------
(* Arrival.  Changesets, reverts and pushes read the row and refuse a      *)
(* missing or archived project before they queue for the lock.             *)

\* Slip: the archived flag is not consulted.
CheckRowIgnoringArchive == IF row # "live" THEN "notfound" ELSE "none"

\* What the unlocked check answers: "none" lets the request through.
CheckRow == IF row # "live" THEN "notfound"
            ELSE IF archived THEN "archived" ELSE "none"

Arrive(r, data) ==
  /\ pc[r] = "idle"
  /\ data.kind \in Kinds
  /\ req' = [req EXCEPT ![r] = data]
  /\ pc' = [pc EXCEPT ![r] = IF data.out = "none" THEN "wait" ELSE "done"]
  /\ mayWrite' = IF Open THEN mayWrite \cup {r} ELSE mayWrite
  /\ UNCHANGED <<row, archived, name, repo, lock, crashes, moves, erased>>

\* The client names any revision it may have read.
ArriveChangeset(r) ==
  \E base \in 1..Len(object), dry \in BOOLEAN :
    Arrive(r, [NoRequest EXCEPT !.kind = "changeset", !.base = base,
                                !.dry = dry, !.out = CheckRow])
ArriveRevert(r) ==
  \E sha \in 1..Len(object) :
    Arrive(r, [NoRequest EXCEPT !.kind = "revert", !.base = sha,
                                !.out = CheckRow])
\* The client's git read the tip it builds on from the ref advertisement.
ArrivePush(r) ==
  \E old \in 1..Len(object) :
    Arrive(r, [NoRequest EXCEPT !.kind = "push", !.base = old,
                                !.out = CheckRow])
ArriveRename(r) ==
  \E n \in Names :
    Arrive(r, [NoRequest EXCEPT !.kind = "rename", !.title = n])
ArrivePurge(r) ==
  \E P \in SUBSET Paths \ {{}} :
    Arrive(r, [NoRequest EXCEPT !.kind = "purge", !.purge = P])
ArriveAdmin(r) ==
  \E k \in {"archive", "unarchive", "delete", "restore"} :
    Arrive(r, [NoRequest EXCEPT !.kind = k])

\* Slip: the operation does not queue behind the one that holds the lock.
AcquireWithoutWaiting(r) ==
  /\ pc[r] = "wait"
  /\ lock' = r
  /\ pc' = [pc EXCEPT ![r] = "locked"]
  /\ UNCHANGED <<meta, repo, req, crashes, moves, mayWrite, erased>>

\* LockProjectWrite.
Acquire(r) ==
  /\ pc[r] = "wait" /\ lock = NoOne
  /\ lock' = r
  /\ pc' = [pc EXCEPT ![r] = "locked"]
  /\ UNCHANGED <<meta, repo, req, crashes, moves, mayWrite, erased>>

\* The deferred unlock; a temporary worktree is already removed.
Release(r) ==
  /\ pc[r] = "release"
  /\ lock' = NoOne
  /\ pc' = [pc EXCEPT ![r] = "done"]
  /\ req' = [req EXCEPT ![r].cur = 0, ![r].tree = EmptyTree, ![r].paths = {}]
  /\ UNCHANGED <<meta, repo, crashes, moves, mayWrite, erased>>
----------------------------------------------------------------------------
(* Changeset and revert: detached worktree, commit-tree, update-ref.       *)

\* Slip: the base revision is not compared with HEAD.
HeadAnswerUnchecked(r) ==
  CASE main = <<>> -> "error"
    [] main # <<>> /\ req[r].kind = "revert" /\ req[r].base \notin odb -> "notfound"
    [] OTHER -> "none"

\* ApplyChangeset refuses a base revision that is not HEAD; RevertCommit a
\* commit git does not have.  A branch without commits fails both.
HeadAnswer(r) ==
  CASE main = <<>> -> "error"
    [] main # <<>> /\ req[r].kind = "changeset" /\ req[r].base # Tip -> "conflict"
    [] main # <<>> /\ req[r].kind = "revert" /\ req[r].base \notin odb -> "notfound"
    [] OTHER -> "none"

ReadHead(r) ==
  /\ pc[r] = "locked" /\ req[r].kind \in {"changeset", "revert"}
  /\ IF HeadAnswer(r) # "none"
       THEN Return(r, HeadAnswer(r))
       ELSE /\ req' = [req EXCEPT ![r].cur = Tip]
            /\ pc' = [pc EXCEPT ![r] = "resolved"]
  /\ UNCHANGED <<meta, repo, lock, crashes, moves, mayWrite, erased>>

\* Slip: the worktree is that of the revision the request names.
CheckOutRequested(r) ==
  /\ pc[r] = "resolved"
  /\ req' = [req EXCEPT ![r].tree = TreeOf(req[r].base)]
  /\ pc' = [pc EXCEPT ![r] = "checkedout"]
  /\ UNCHANGED <<meta, repo, lock, crashes, moves, mayWrite, erased>>

\* git worktree add --detach <dir> <branch>: whatever the branch is now.
CheckOut(r) ==
  /\ pc[r] = "resolved"
  /\ req' = [req EXCEPT ![r].tree = TreeOf(Tip)]
  /\ pc' = [pc EXCEPT ![r] = "checkedout"]
  /\ UNCHANGED <<meta, repo, lock, crashes, moves, mayWrite, erased>>

\* applyOne for every change, git add -A, write-tree; a dry run ends here.
StageChangeset(r) ==
  /\ pc[r] = "checkedout" /\ req[r].kind = "changeset"
  /\ \/ \* a move without source or onto an occupied path
        Return(r, "rejected")
     \/ /\ req[r].dry
        /\ Return(r, "preview")
     \/ /\ ~req[r].dry
        /\ \E f \in Changesets :
             req' = [req EXCEPT ![r].tree = Overwrite(@, f),
                                ![r].paths = DOMAIN f]
        /\ pc' = [pc EXCEPT ![r] = "staged"]
  /\ UNCHANGED <<meta, repo, lock, crashes, moves, mayWrite, erased>>

\* git show | git apply --reverse; a failed preflight is a plain error.
StageRevert(r) ==
  /\ pc[r] = "checkedout" /\ req[r].kind = "revert"
  /\ IF Reverses(req[r].base, req[r].tree)
       THEN /\ req' = [req EXCEPT ![r].tree = Reversed(req[r].base, @),
                                  ![r].paths = Diff(req[r].base)]
            /\ pc' = [pc EXCEPT ![r] = "staged"]
       ELSE Return(r, "error")
  /\ UNCHANGED <<meta, repo, lock, crashes, moves, mayWrite, erased>>

CommitTree(r) ==
  /\ pc[r] = "staged"
  /\ object' = Append(object, [parent |-> req[r].cur, tree |-> req[r].tree,
                               paths |-> req[r].paths])
  /\ odb' = odb \cup {Len(object) + 1}
  /\ req' = [req EXCEPT ![r].commit = Len(object) + 1]
  /\ pc' = [pc EXCEPT ![r] = "committed"]
  /\ UNCHANGED <<meta, main, pinned, attached, lock, crashes, moves,
                 mayWrite, erased>>

\* Slip: a failed worktree cleanup after the swap is reported as an error.
UpdateRefThenFail(r) ==
  /\ pc[r] = "committed"
  /\ main' = Append(main, req[r].commit)
  /\ erased' = erased \ req[r].paths
  /\ Moved(r)
  /\ \/ Return(r, "ok")
     \/ Return(r, "error")
  /\ UNCHANGED <<meta, object, odb, pinned, attached, lock, crashes, mayWrite>>

\* git update-ref <branch> <commit> <current>: compare and swap.
UpdateRef(r) ==
  /\ pc[r] = "committed"
  /\ IF main # <<>> /\ Tip = req[r].cur
       THEN /\ main' = Append(main, req[r].commit)
            /\ erased' = erased \ req[r].paths
            /\ Moved(r)
            /\ Return(r, "ok")
       ELSE /\ req' = [req EXCEPT ![r].commit = 0, ![r].out = "conflict"]
            /\ pc' = [pc EXCEPT ![r] = "release"]
            /\ UNCHANGED <<main, moves, erased>>
  /\ UNCHANGED <<meta, object, odb, pinned, attached, lock, crashes, mayWrite>>
----------------------------------------------------------------------------
(* Push: git receive-pack behind http-backend, under the lock.  It moves   *)
(* the branch if its tip is still the old id the client names; nothing     *)
(* forbids a forced push, so the new tip may drop commits.                 *)

\* Another ref of the repository is created at a commit of the branch.
PushOtherRef(r) ==
  /\ pc[r] = "locked" /\ req[r].kind = "push"
  /\ \E k \in DOMAIN main : pinned' = pinned \cup {main[i] : i \in 1..k}
  /\ Return(r, "ok")
  /\ UNCHANGED <<meta, object, odb, main, attached, lock, crashes,
                 moves, mayWrite, erased>>

\* The branch becomes its first k commits and at most one commit c on top,
\* new or kept by the client from an earlier fetch.
PushBranch(r) ==
  /\ pc[r] = "locked" /\ req[r].kind = "push"
  /\ IF main = <<>> \/ Tip # req[r].base
       THEN /\ Return(r, "rejected")
            /\ UNCHANGED <<object, odb, main, moves, erased>>
       ELSE \E k \in DOMAIN main :
         \/ /\ k < Len(main)
            /\ main' = SubSeq(main, 1, k)
            /\ Moved(r)
            /\ Return(r, "ok")
            /\ UNCHANGED <<object, odb, erased>>
         \/ \E c \in 1..(Len(object) + 1) :
            /\ IF c \in DOMAIN object
                 THEN object[c].parent = main[k] /\ UNCHANGED object
                 ELSE \E f \in Changesets :
                        object' = Append(object,
                          [parent |-> main[k], paths |-> DOMAIN f,
                           tree |-> Overwrite(TreeOf(main[k]), f)])
            /\ main' = Append(SubSeq(main, 1, k), c)
            /\ main' # main
            /\ Moved(r)
            /\ odb' = odb \cup {c}
            /\ erased' = erased \ object'[c].paths
            /\ req' = [req EXCEPT ![r].commit = c, ![r].out = "ok"]
            /\ pc' = [pc EXCEPT ![r] = "release"]
  /\ UNCHANGED <<meta, pinned, attached, lock, crashes, mayWrite>>
----------------------------------------------------------------------------
(* Rename: README title first, projects.name second, no archived check.    *)

RenameLookup(r) ==
  /\ pc[r] = "locked" /\ req[r].kind = "rename"
  /\ CASE row # "live" -> Return(r, "notfound")
       [] row = "live" /\ name = req[r].title -> Return(r, "ok")
       [] OTHER -> /\ req' = [req EXCEPT ![r].prior = name]
                   /\ pc' = [pc EXCEPT ![r] = "attach"]
  /\ UNCHANGED <<meta, repo, lock, crashes, moves, mayWrite, erased>>

\* An answer already given stays: this is the compensation after a failed
\* store.Rename, whose own errors are dropped.
RenameFailed(r) ==
  Return(r, IF req[r].out = "none" THEN "error" ELSE req[r].out)

\* RewriteReadmeTitle up to "git add": git refuses a second worktree on the
\* branch, and one on a branch without commits.
AttachWorktree(r) ==
  /\ pc[r] = "attach"
  /\ IF attached \/ main = <<>>
       THEN RenameFailed(r) /\ UNCHANGED attached
       ELSE /\ attached' = TRUE
            /\ req' = [req EXCEPT ![r].tree = Titled(TreeOf(Tip), req[r].title)]
            /\ pc' = [pc EXCEPT ![r] = "attached"]
  /\ UNCHANGED <<meta, object, odb, main, pinned, lock, crashes,
                 moves, mayWrite, erased>>

\* git commit in the attached worktree: the index it checked out plus the
\* README, on top of whatever the branch is now; nothing to commit fails.
CommitTitle(r) ==
  /\ pc[r] = "attached"
  /\ attached' = FALSE
  /\ IF main = <<>> \/ req[r].tree = TreeOf(Tip)
       THEN RenameFailed(r) /\ UNCHANGED <<object, odb, main, moves, erased>>
       ELSE LET c == Len(object) + 1 IN
            /\ object' = Append(object, [parent |-> Tip, tree |-> req[r].tree,
                                         paths |-> {Readme}])
            /\ odb' = odb \cup {c}
            /\ main' = Append(main, c)
            /\ Moved(r)
            /\ erased' = erased \ {Readme}
            /\ req' = [req EXCEPT ![r].commit = c]
            /\ pc' = [pc EXCEPT ![r] = IF req[r].out = "none" THEN "titled"
                                       ELSE "release"]
  /\ UNCHANGED <<meta, pinned, lock, crashes, mayWrite>>

\* Slip: a refused rename does not restore the old title.
StoreRenameUncompensated(r) ==
  /\ pc[r] = "titled"
  /\ \/ name' = req[r].title /\ Return(r, "ok")
     \/ Return(r, "conflict") /\ UNCHANGED name
  /\ UNCHANGED <<row, archived, repo, lock, crashes, moves, mayWrite, erased>>

\* store.Rename: the row takes the name, or another project holds it and the
\* old title is written back.
StoreRename(r) ==
  /\ pc[r] = "titled"
  /\ \/ /\ name' = req[r].title
        /\ Return(r, "ok")
     \/ /\ req' = [req EXCEPT ![r].title = req[r].prior, ![r].out = "conflict"]
        /\ pc' = [pc EXCEPT ![r] = "attach"]
        /\ UNCHANGED name
  /\ UNCHANGED <<row, archived, repo, lock, crashes, moves, mayWrite, erased>>
----------------------------------------------------------------------------
(* Purge of paths: filter-branch, a root commit when nothing is left, gc.  *)

PurgeLookup(r) ==
  /\ pc[r] = "locked" /\ req[r].kind = "purge"
  /\ CASE row # "live" -> Return(r, "notfound")
       [] row = "live" /\ archived -> Return(r, "archived")
       [] row = "live" /\ ~archived /\ main = <<>> -> Return(r, "error")
       [] OTHER -> /\ pc' = [pc EXCEPT ![r] = "rewrite"]
                   /\ UNCHANGED req
  /\ UNCHANGED <<meta, repo, lock, crashes, moves, mayWrite, erased>>

\* Slip: only the tip is rewritten.
StrippedTip(P) ==
  [i \in DOMAIN main |-> IF i = Len(main) THEN Strip(TreeOf(main[i]), P)
                         ELSE TreeOf(main[i])]

\* The tree of every commit of the branch without the purged paths.
Stripped(P) == [i \in DOMAIN main |-> Strip(TreeOf(main[i]), P)]

\* --prune-empty keeps the commits whose rewritten tree differs from the
\* rewritten tree before them.
Kept(P) == {i \in DOMAIN main :
              Stripped(P)[i] # IF i = 1 THEN EmptyTree ELSE Stripped(P)[i - 1]}

\* Commits that are rewritten to themselves keep their sha.
SameSha(P) == {i \in DOMAIN main :
                 \A j \in 1..i : /\ j \in Kept(P)
                                 /\ Stripped(P)[j] = TreeOf(main[j])}

\* The positions of main that survive, oldest first, in a sequence of n.
Ascending(n, S) == {o \in [1..n -> S] :
                      /\ \A i, j \in 1..n : i < j => o[i] < o[j]
                      /\ \A i \in S : \E j \in 1..n : o[j] = i}

\* The i-th commit of the rewritten branch: an old one or a new one.
RewrittenId(P, i) ==
  LET same == Cardinality(SameSha(P)) IN
  IF i <= same THEN main[i] ELSE Len(object) + i - same

\* The new commits, o naming the old ones that survive.
RewrittenCommit(P, o, i) ==
  [parent |-> IF i = 1 THEN 0 ELSE RewrittenId(P, i - 1),
   tree |-> Stripped(P)[o[i]],
   paths |-> object[main[o[i]]].paths \ P]

RewrittenCommits(P, o) ==
  [k \in 1..(Cardinality(Kept(P)) - Cardinality(SameSha(P))) |->
     RewrittenCommit(P, o, Cardinality(SameSha(P)) + k)]

FilterBranch(r) ==
  /\ pc[r] = "rewrite"
  /\ LET P == req[r].purge
         n == Cardinality(Kept(P))
     IN \E o \in Ascending(n, Kept(P)) :
        /\ main' = [i \in 1..n |-> RewrittenId(P, i)]
        /\ object' = object \o RewrittenCommits(P, o)
        /\ odb' = odb \cup {RewrittenId(P, i) : i \in 1..n}
        /\ erased' = erased \cup P
  /\ Moved(r)
  /\ pc' = [pc EXCEPT ![r] = "rewritten"]
  /\ UNCHANGED <<meta, pinned, attached, lock, req, crashes, mayWrite>>

\* Slip: the branch is pointed at a commit that was never written.
EnsureBranchWithoutCommit(r) ==
  /\ pc[r] = "rewritten" /\ main = <<>>
  /\ main' = <<Len(object) + 1>>
  /\ odb' = odb \cup {Len(object) + 1}
  /\ Moved(r)
  /\ UNCHANGED <<meta, object, pinned, attached, lock, pc, req, crashes,
                 mayWrite, erased>>

\* ensureBranchExists: an empty root commit for a branch without commits.
EnsureBranchExists(r) ==
  /\ pc[r] = "rewritten" /\ main = <<>>
  /\ object' = Append(object, [parent |-> 0, tree |-> EmptyTree, paths |-> {}])
  /\ main' = <<Len(object) + 1>>
  /\ Moved(r)
  /\ odb' = odb \cup {Len(object) + 1}
  /\ UNCHANGED <<meta, pinned, attached, lock, pc, req, crashes, mayWrite,
                 erased>>

\* Slip: the refs/original backup is not deleted, so gc keeps everything.
CollectNothing(r) ==
  /\ pc[r] = "rewritten" /\ main # <<>>
  /\ Return(r, "ok")
  /\ UNCHANGED <<meta, repo, lock, crashes, moves, mayWrite, erased>>

\* reflog expire, gc --prune=now: what no ref and no worktree reaches is gone.
CollectGarbage(r) ==
  /\ pc[r] = "rewritten" /\ main # <<>>
  /\ odb' = pinned \cup {main[i] : i \in DOMAIN main}
  /\ Return(r, "ok")
  /\ UNCHANGED <<meta, object, main, pinned, attached, lock, crashes,
                 moves, mayWrite, erased>>
----------------------------------------------------------------------------
(* Operations on the row alone.  Archive and Unarchive update the row of a *)
(* deleted project too, and then do not find it.                           *)

\* Requests on their way when the project opens overlap an open project.
Witness == mayWrite' = IF Open' THEN mayWrite \cup {r \in Requests : pc[r] \in InFlight}
                       ELSE mayWrite

SetArchived(r) ==
  /\ pc[r] = "locked" /\ req[r].kind \in {"archive", "unarchive"}
  /\ archived' = (req[r].kind = "archive")
  /\ Return(r, IF row = "live" THEN "ok" ELSE "notfound")
  /\ UNCHANGED <<row, name, repo, lock, crashes, moves, erased>>
  /\ Witness

SetDeleted(r) ==
  /\ pc[r] = "locked" /\ req[r].kind \in {"delete", "restore"}
  /\ LET from == IF req[r].kind = "delete" THEN "live" ELSE "deleted"
         to   == IF req[r].kind = "delete" THEN "deleted" ELSE "live"
     IN IF row = from THEN row' = to /\ Return(r, "ok")
        ELSE UNCHANGED row /\ Return(r, "notfound")
  /\ UNCHANGED <<archived, name, repo, lock, crashes, moves, erased>>
  /\ Witness
----------------------------------------------------------------------------
(* Failures. *)

\* The request's context is cancelled (the client went away, or a git or
\* SQLite call failed): the next call fails and the handler returns.  A
\* rename whose store call fails still writes the old title back, with a
\* context of its own.
Cancel(r) ==
  /\ req[r].out = "none"
  /\ \/ /\ pc[r] \in {"locked", "resolved", "checkedout", "staged",
                      "committed", "attach", "rewrite", "rewritten"}
        /\ req' = [req EXCEPT ![r].commit = 0, ![r].out = "lost"]
        /\ pc' = [pc EXCEPT ![r] = "release"]
        /\ UNCHANGED attached
     \/ /\ pc[r] = "attached"
        /\ attached' = FALSE
        /\ Return(r, "lost")
     \/ /\ pc[r] = "titled"
        /\ req' = [req EXCEPT ![r].title = req[r].prior, ![r].out = "lost"]
        /\ pc' = [pc EXCEPT ![r] = "attach"]
        /\ UNCHANGED attached
  /\ UNCHANGED <<meta, object, odb, main, pinned, lock, crashes,
                 moves, mayWrite, erased>>

\* The process dies and restarts: the lock and every request are gone, the
\* row, the refs, the objects and a worktree stay.  A detached worktree holds
\* the commits it was checked out at, an attached one the branch.
Crash ==
  /\ crashes < MaxCrashes
  /\ \E r \in Requests : pc[r] \in InFlight
  /\ crashes' = crashes + 1
  /\ lock' = NoOne
  /\ pc' = [r \in Requests |-> IF pc[r] \in InFlight THEN "done" ELSE pc[r]]
  /\ req' = [r \in Requests |->
               IF pc[r] \in InFlight
               THEN [req[r] EXCEPT !.out = "lost", !.cur = 0,
                                   !.tree = EmptyTree, !.paths = {}]
               ELSE req[r]]
  /\ pinned' = IF \E r \in Requests : pc[r] \in {"checkedout", "staged", "committed"}
               THEN pinned \cup {main[i] : i \in DOMAIN main} ELSE pinned
  /\ UNCHANGED <<meta, object, odb, main, attached, moves, mayWrite, erased>>

\* Every request has been answered.
Finished == (\A r \in Requests : pc[r] = "done") /\ UNCHANGED vars
----------------------------------------------------------------------------
Arrival(r) == \/ ArriveChangeset(r) \/ ArriveRevert(r) \/ ArrivePush(r)
              \/ ArriveRename(r) \/ ArrivePurge(r) \/ ArriveAdmin(r)

\* The steps a handler takes once its request has arrived.
Step(r) ==
  \/ Acquire(r) \/ Release(r)
  \/ ReadHead(r) \/ CheckOut(r) \/ StageChangeset(r) \/ StageRevert(r)
  \/ CommitTree(r) \/ UpdateRef(r)
  \/ PushOtherRef(r) \/ PushBranch(r)
  \/ RenameLookup(r) \/ AttachWorktree(r) \/ CommitTitle(r) \/ StoreRename(r)
  \/ PurgeLookup(r) \/ FilterBranch(r) \/ EnsureBranchExists(r)
  \/ CollectGarbage(r)
  \/ SetArchived(r) \/ SetDeleted(r)

Next == \/ \E r \in Requests : Arrival(r) \/ Step(r) \/ Cancel(r)
        \/ Crash
        \/ Finished

Spec == Init /\ [][Next]_vars

\* The Go scheduler runs every handler to its end, and sync.Mutex hands the
\* lock over in arrival order once a waiter has waited a millisecond.
FairSpec == Spec /\ \A r \in Requests : WF_vars(Step(r))
----------------------------------------------------------------------------
(* Properties. *)

\* Every variable has its type: ids refer to commits that were created.
TypeOK ==
  /\ row \in {"live", "deleted"} /\ archived \in BOOLEAN /\ name \in Names
  /\ object \in Seq(Commit)
  /\ odb \subseteq DOMAIN object /\ pinned \subseteq DOMAIN object
  /\ main \in Seq(DOMAIN object)
  /\ attached \in BOOLEAN
  /\ lock \in Requests \cup {NoOne}
  /\ pc \in [Requests -> PcStates]
  /\ req \in [Requests -> Request]
  /\ crashes \in Nat /\ moves \in [Requests -> Nat]
  /\ mayWrite \subseteq Requests
  /\ erased \subseteq Paths

\* LockProjectWrite "serializes all operations that can move a project's Git
\* refs": a request between lock and unlock is the one that holds the lock.
MutualExclusion == \A r \in Requests : pc[r] \in Critical => lock = r

\* While a changeset or a revert is being built, the branch stays where the
\* handler read it, so the final compare-and-swap of update-ref succeeds.
HeadIsStable ==
  \A r \in Requests :
    pc[r] \in Building => main # <<>> /\ Tip = req[r].cur

\* No lost update: a commit differs from the commit below it on the branch
\* only in the paths its author named.  A rename or a revert that lands on a
\* tree it did not read would silently undo somebody else's write.
OnlyNamedPathsChange ==
  \A i \in DOMAIN main : i > 1 =>
    \A p \in Paths \ object[main[i]].paths :
      TreeOf(main[i])[p] = TreeOf(main[i - 1])[p]

\* Optimistic concurrency: the parent of a changeset that is answered with
\* success is the base revision its client named.
ChangesetOnItsBase ==
  \A r \in Requests :
    req[r].kind = "changeset" /\ req[r].out = "ok" =>
      object[req[r].commit].parent = req[r].base

\* Answers are truthful: a request that is refused, or only previewed, never
\* moved the branch, one that is granted a write moved it exactly once, and
\* one whose answer is lost at most once.  A rename that the store refuses is
\* the exception: it moves the branch, and moves it again to compensate.
TruthfulAnswers ==
  \A r \in Requests : pc[r] = "done" /\ req[r].kind # "rename" =>
    /\ req[r].out \notin {"ok", "lost"} => moves[r] = 0
    /\ req[r].out = "ok" /\ req[r].kind \in {"changeset", "revert"} => moves[r] = 1
    /\ req[r].out = "lost" /\ req[r].kind # "purge" => moves[r] <= 1

\* A changeset, revert or push that took effect overlapped a time when the
\* project was live and not archived: archiving is never bypassed by a request
\* that arrives after it.
WritesOverlapOpenProject ==
  \A r \in Requests :
    req[r].kind \in {"changeset", "revert", "push"} /\ req[r].out = "ok" =>
      r \in mayWrite

\* A purged path is in no commit of the branch until a request that names it
\* writes it again: no stale worktree brings it back.
ErasedStaysErased ==
  \A p \in erased, i \in DOMAIN main : TreeOf(main[i])[p] = Absent

\* Rename keeps the README headline and the metadata "in sync": as long as only
\* renames have written and the process did not die, the title of the README is
\* the project's name whenever no operation is under way.
TitleFollowsName ==
  /\ lock = NoOne /\ crashes = 0
  /\ \A r \in Requests : moves[r] > 0 => req[r].kind = "rename"
  => TreeOf(Tip)[Readme] = name

\* PurgePaths runs gc "so the blobs are physically gone from the object
\* store": a purge that succeeds has left no stored commit with a purged path,
\* but those that another ref or a left-behind worktree holds.
PurgeLeavesNoCopy ==
  [][\A r \in Requests :
       pc[r] = "rewritten" /\ req'[r].out = "ok" =>
         \A c \in odb' \ pinned : \A p \in req[r].purge : object'[c].tree[p] = Absent]_vars

\* The inductive invariant behind these: a handler at work is of the kind its
\* step belongs to, builds on the base its client named, has overlapped an
\* open project, and refers to commits that exist.
ObjectsLinked ==
  \A c \in DOMAIN object : object[c].parent \in DOMAIN object \cup {0}

RequestInv(r) ==
  /\ req[r].kind \in {"changeset", "revert", "push"} =>
       req[r].base \in DOMAIN object /\ (pc[r] \in InFlight => r \in mayWrite)
  /\ pc[r] \in {"wait", "locked"} \cup Building => req[r].out = "none"
  /\ pc[r] \in Building => req[r].kind \in {"changeset", "revert"}
  /\ pc[r] \in Building /\ req[r].kind = "changeset" => req[r].base = req[r].cur
  /\ pc[r] \in {"attach", "attached", "titled"} => req[r].kind = "rename"
  /\ pc[r] \in {"rewrite", "rewritten"} => req[r].kind = "purge"
  /\ pc[r] = "committed" => /\ req[r].commit \in DOMAIN object
                            /\ object[req[r].commit].parent = req[r].cur
  /\ req[r].kind = "changeset" /\ req[r].out = "ok" =>
       req[r].commit \in DOMAIN object

IInv ==
  /\ TypeOK /\ MutualExclusion /\ HeadIsStable /\ ChangesetOnItsBase
  /\ WritesOverlapOpenProject /\ ObjectsLinked
  /\ \A r \in Requests : RequestInv(r)

\* Every request that queues for the lock is answered: every early return
\* unlocks, and nothing waits for the lock while it holds it.
Answered == \A r \in Requests : pc[r] = "wait" ~> pc[r] = "done"
----------------------------------------------------------------------------
(* Refinement: the branch with its trees, and each request as its client   *)
(* sees it.                                                                *)

Told(r) == CASE pc[r] # "done" -> "none"
             [] pc[r] = "done" /\ req[r].out = "ok" -> "granted"
             [] pc[r] = "done" /\ req[r].out = "preview" -> "previewed"
             [] pc[r] = "done" /\ req[r].out = "lost" -> "unknown"
             [] OTHER -> "refused"

branchSeen == [i \in DOMAIN main |-> [tree |-> TreeOf(main[i]),
                                      paths |-> object[main[i]].paths]]
opSeen == [r \in Requests |-> req[r].kind]
answerSeen == [r \in Requests |-> Told(r)]

Atomic == INSTANCE AtomicWrites
            WITH Ops <- AllKinds, branch <- branchSeen, op <- opSeen,
                 answer <- answerSeen

\* Every write of ProjectWrites is one atomic write of AtomicWrites: it reads
\* the tip, changes the paths it names and is answered truthfully, whatever
\* the interleaving, cancellation or crash.
ImplementsAtomicWrites == Atomic!Spec
============================================================================
