---------------------------- MODULE AtomicWrites ----------------------------
(***************************************************************************)
(* What the write path of a project promises its clients, without locks,   *)
(* worktrees or commit objects: the branch is a sequence of commits, every *)
(* request that writes reads the tip and puts its commit on top in one     *)
(* step, and is answered truthfully.  ProjectWrites implements it.         *)
(***************************************************************************)
EXTENDS Naturals, Sequences

CONSTANTS Requests, Paths, Readme, Absent, Ops

VARIABLES branch,  \* the commits from the root to the tip: tree and paths named
          op,      \* the operation each request asked for, or "none"
          moves,   \* how often each request has moved the branch
          answer   \* what its client was told

vars == <<branch, op, moves, answer>>

Answers == {"granted", "previewed", "refused", "unknown"}

Init == /\ Len(branch) = 1
        /\ op = [r \in Requests |-> "none"]
        /\ moves = [r \in Requests |-> 0]
        /\ answer = [r \in Requests |-> "none"]

Working(r) == op[r] # "none" /\ answer[r] = "none"

\* The new tip is the old one with the named paths written, nothing else.
OnTop(base, commit) ==
  \A p \in Paths \ commit.paths :
    commit.tree[p] = IF base = <<>> THEN Absent ELSE base[Len(base)].tree[p]

\* branch' is base with one commit on top of it.
Extends(base) == /\ Len(branch') = Len(base) + 1
                 /\ SubSeq(branch', 1, Len(base)) = base
                 /\ OnTop(base, branch'[Len(branch')])

Invoke(r, a) ==
  /\ op[r] = "none"
  /\ \E k \in Ops : op' = [op EXCEPT ![r] = k]
  /\ a \in {"none", "refused"}
  /\ answer' = [answer EXCEPT ![r] = a]
  /\ UNCHANGED <<branch, moves>>

Moved(r) == /\ moves' = [moves EXCEPT ![r] = @ + 1]
            /\ UNCHANGED <<op, answer>>

\* A changeset or a revert: one commit on top of the tip, once.
Edit(r) == /\ Working(r) /\ op[r] \in {"changeset", "revert"} /\ moves[r] = 0
           /\ Extends(branch)
           /\ Moved(r)

\* A rename: the README's title, and once more when it is taken back.
Retitle(r) == /\ Working(r) /\ op[r] = "rename" /\ moves[r] < 2
              /\ Extends(branch)
              /\ branch'[Len(branch')].paths = {Readme}
              /\ Moved(r)

\* A push: the branch, cut anywhere, with at most one commit on top.
Push(r) == /\ Working(r) /\ op[r] = "push" /\ moves[r] = 0
           /\ \E k \in 1..Len(branch) :
                \/ branch' = SubSeq(branch, 1, k)
                \/ Extends(SubSeq(branch, 1, k))
           /\ Moved(r)

\* A purge: some paths leave every commit; what is left of the tip stays.
Purge(r) ==
  /\ Working(r) /\ op[r] = "purge" /\ moves[r] < 2
  /\ Len(branch') <= Len(branch) + 1
  /\ \E P \in SUBSET Paths :
       /\ \A i \in 1..Len(branch'), p \in P : branch'[i].tree[p] = Absent
       /\ \A p \in Paths \ P :
            branch # <<>> => branch[Len(branch)].tree[p] =
              IF branch' = <<>> THEN Absent ELSE branch'[Len(branch')].tree[p]
  /\ Moved(r)

\* A truthful answer; a client that hears nothing learns nothing.
MayHear(r, a) ==
  CASE a = "granted" -> op[r] \in {"changeset", "revert"} => moves[r] = 1
    [] a = "refused" -> op[r] # "rename" => moves[r] = 0
    [] a = "previewed" -> op[r] = "changeset" /\ moves[r] = 0
    [] OTHER -> TRUE

Answer(r) == /\ Working(r)
             /\ \E a \in Answers : /\ MayHear(r, a)
                                   /\ answer' = [answer EXCEPT ![r] = a]
             /\ UNCHANGED <<branch, op, moves>>

\* A crash: everybody at work is left without an answer.
Crash == /\ answer' = [r \in Requests |-> IF Working(r) THEN "unknown"
                                          ELSE answer[r]]
         /\ UNCHANGED <<branch, op, moves>>

Next == \/ \E r \in Requests : \/ \E a \in {"none", "refused"} : Invoke(r, a)
                               \/ Edit(r) \/ Retitle(r) \/ Push(r) \/ Purge(r)
                               \/ Answer(r)
        \/ Crash

Spec == Init /\ [][Next]_vars
============================================================================
