---------------------------- MODULE Idempotency ----------------------------
(***************************************************************************)
(* Retries of POST /changesets: ApplyIdempotent looks the Idempotency-Key  *)
(* up, runs the changeset, stores the result and the handler audits the    *)
(* write.  No lock spans these steps; the changeset itself runs under the  *)
(* project lock and is one atomic write (see ProjectWrites).               *)
(*                                                                         *)
(*   internal/agent/service.go, store.go   ApplyIdempotent, PutIdempotency *)
(*   internal/httpapi/handlers/changesets.go                        Apply  *)
(*                                                                         *)
(* A revision is the index of its commit in "commit"; the root is 1.       *)
(***************************************************************************)
EXTENDS Integers, Sequences

CONSTANTS Requests,    \* the HTTP requests of any tokens, retries included
          Keys,        \* Idempotency-Key values
          NoKey,       \* the header is absent
          Payloads,    \* changes, message and flags of a body
          DryRuns,     \* the values of the dry_run query parameter (the flag
                       \* of that name in a body is FALSE here)
          MaxRevision, \* bound on the revisions a body may name
          MaxCrashes   \* bound on process crashes

ASSUME NoKeyAssumption == NoKey \notin Keys
ASSUME DryRunsAssumption == DryRuns \subseteq BOOLEAN
ASSUME BoundsAssumption == MaxRevision \in Nat \ {0} /\ MaxCrashes \in Nat

VARIABLES commit,   \* every commit: its parent, the body and request it is from
          branch,   \* the revisions from the root to the tip
          stored,   \* idempotency_keys of the project
          audited,  \* the requests with an audit_logs entry
          pc, req, crashes

vars == <<commit, branch, stored, audited, pc, req, crashes>>

Root == 1
Body == [base : 1..MaxRevision, payload : Payloads]
None == [kind |-> "none", rev |-> 0]
Preview == [kind |-> "preview", rev |-> 0]
Committed(c) == [kind |-> "commit", rev |-> c]
Results == [kind : {"preview", "commit"}, rev : Nat]
Answers == {"none", "ok", "replayed", "stale", "reused", "failed", "lost"}
PcStates == {"idle", "lookup", "run", "put", "audit", "done"}

\* out: "stale" is 409 revision_conflict, "reused" 409 idempotency_conflict,
\* "failed" any other error, "lost" no answer at all.
Request == [key : Keys \cup {NoKey}, body : Body, dry : BOOLEAN,
            result : Results \cup {None}, out : Answers]

Tip == branch[Len(branch)]
Absent == [found |-> FALSE]

Init ==
  /\ commit = <<[parent |-> 0, by |-> {}]>>
  /\ branch = <<Root>>
  /\ stored = [k \in Keys |-> Absent]
  /\ audited = {}
  /\ pc = [r \in Requests |-> "idle"]
  /\ \E p \in Payloads :
       req = [r \in Requests |-> [key |-> NoKey, body |-> [base |-> Root, payload |-> p],
                                 dry |-> FALSE, result |-> None, out |-> "none"]]
  /\ crashes = 0
----------------------------------------------------------------------------
Go(r, step) == pc' = [pc EXCEPT ![r] = step]
Answer(r, out) == /\ Go(r, "done")
                  /\ req' = [req EXCEPT ![r].out = out]

\* The handler reads the body; the dry_run query parameter is not part of it.
Arrive(r) ==
  /\ pc[r] = "idle"
  /\ \E key \in Keys \cup {NoKey}, base \in 1..Len(commit), p \in Payloads, dry \in DryRuns :
       /\ base <= MaxRevision
       /\ req' = [req EXCEPT ![r].key = key, ![r].dry = dry,
                             ![r].body = [base |-> base, payload |-> p]]
       /\ Go(r, IF key = NoKey THEN "run" ELSE "lookup")
  /\ UNCHANGED <<commit, branch, stored, audited, crashes>>

\* Slip: the hash of the stored request is not compared.
LookupByKeyOnly(r) ==
  /\ pc[r] = "lookup"
  /\ IF stored[req[r].key].found
       THEN /\ req' = [req EXCEPT ![r].result = stored[req[r].key].result,
                                  ![r].out = "replayed"]
            /\ Go(r, "done")
       ELSE Go(r, "run") /\ UNCHANGED req
  /\ UNCHANGED <<commit, branch, stored, audited, crashes>>

\* Slip: the key is claimed before there is a result to store.
LookupClaiming(r) ==
  /\ pc[r] = "lookup"
  /\ stored' = [stored EXCEPT ![req[r].key] =
                  IF @.found THEN @ ELSE [found |-> TRUE, body |-> req[r].body,
                                          result |-> req[r].result]]
  /\ Go(r, "run")
  /\ UNCHANGED <<commit, branch, audited, req, crashes>>

\* GetIdempotency.  A failing query counts as an absent record.
Lookup(r) ==
  /\ pc[r] = "lookup"
  /\ LET old == stored[req[r].key] IN
     \/ /\ old.found /\ old.body = req[r].body
        /\ req' = [req EXCEPT ![r].result = old.result, ![r].out = "replayed"]
        /\ Go(r, "done")
     \/ /\ old.found /\ old.body # req[r].body
        /\ Answer(r, "reused")
     \/ Go(r, "run") /\ UNCHANGED req
  /\ UNCHANGED <<commit, branch, stored, audited, crashes>>

AfterRun(r) == IF req[r].key = NoKey THEN "audit" ELSE "put"

\* Slip: the base revision is not compared with HEAD.
RunUnchecked(r) ==
  /\ pc[r] = "run" /\ ~req[r].dry
  /\ commit' = Append(commit, [parent |-> Tip, by |-> {r}])
  /\ branch' = Append(branch, Len(commit) + 1)
  /\ req' = [req EXCEPT ![r].result = Committed(Len(commit) + 1)]
  /\ Go(r, AfterRun(r))
  /\ UNCHANGED <<stored, audited, crashes>>

\* ApplyChangeset: one write under the project lock.
Run(r) ==
  /\ pc[r] = "run"
  /\ \/ /\ req[r].body.base # Tip
        /\ Answer(r, "stale")
        /\ UNCHANGED <<commit, branch>>
     \/ /\ req[r].body.base = Tip /\ req[r].dry
        /\ req' = [req EXCEPT ![r].result = Preview]
        /\ Go(r, AfterRun(r))
        /\ UNCHANGED <<commit, branch>>
     \/ /\ req[r].body.base = Tip /\ ~req[r].dry
        /\ commit' = Append(commit, [parent |-> Tip, by |-> {r}])
        /\ branch' = Append(branch, Len(commit) + 1)
        /\ req' = [req EXCEPT ![r].result = Committed(Len(commit) + 1)]
        /\ Go(r, AfterRun(r))
     \/ \* any other error: nothing is written
        Answer(r, "failed") /\ UNCHANGED <<commit, branch>>
  /\ UNCHANGED <<stored, audited, crashes>>

\* Slip: the insert replaces a record that is already there.
PutReplacing(r) ==
  /\ pc[r] = "put"
  /\ stored' = [stored EXCEPT ![req[r].key] =
                  [found |-> TRUE, body |-> req[r].body, result |-> req[r].result]]
  /\ Go(r, "audit")
  /\ UNCHANGED <<commit, branch, audited, req, crashes>>

\* PutIdempotency: the first record of a key stays.  A request whose key was
\* taken in the meantime is an error for another body, and keeps its own
\* result for the same one; so is a failing insert (a cancelled request).
Put(r) ==
  /\ pc[r] = "put"
  /\ LET old == stored[req[r].key] IN
     \/ /\ ~old.found
        /\ stored' = [stored EXCEPT ![req[r].key] =
                        [found |-> TRUE, body |-> req[r].body, result |-> req[r].result]]
        /\ Go(r, "audit") /\ UNCHANGED req
     \/ /\ old.found /\ old.body = req[r].body
        /\ Go(r, "audit") /\ UNCHANGED <<req, stored>>
     \/ /\ old.found /\ old.body # req[r].body
        /\ Answer(r, "reused") /\ UNCHANGED stored
     \/ Answer(r, "failed") /\ UNCHANGED stored
  /\ UNCHANGED <<commit, branch, audited, crashes>>

\* The audit entry of a real write, whose failure is ignored, and the answer.
Audit(r) ==
  /\ pc[r] = "audit"
  /\ \/ audited' = audited
     \/ ~req[r].dry /\ audited' = audited \cup {r}
  /\ Answer(r, "ok")
  /\ UNCHANGED <<commit, branch, stored, crashes>>

\* A forced push takes commits off the branch.
PushBack ==
  /\ \E k \in 1..(Len(branch) - 1) : branch' = SubSeq(branch, 1, k)
  /\ UNCHANGED <<commit, stored, audited, pc, req, crashes>>

\* The process dies: what is in the database and the repository stays.
Crash ==
  /\ crashes < MaxCrashes
  /\ crashes' = crashes + 1
  /\ \E r \in Requests : pc[r] \notin {"idle", "done"}
  /\ pc' = [r \in Requests |-> IF pc[r] = "idle" THEN "idle" ELSE "done"]
  /\ req' = [r \in Requests |-> IF pc[r] \in {"idle", "done"} THEN req[r]
                                ELSE [req[r] EXCEPT !.out = "lost"]]
  /\ UNCHANGED <<commit, branch, stored, audited>>

Finished == (\A r \in Requests : pc[r] = "done") /\ UNCHANGED vars

Step(r) == Arrive(r) \/ Lookup(r) \/ Run(r) \/ Put(r) \/ Audit(r)

Next == (\E r \in Requests : Step(r)) \/ PushBack \/ Crash \/ Finished

Spec == Init /\ [][Next]_vars
----------------------------------------------------------------------------
(* Properties. *)

TypeOK ==
  /\ commit \in Seq([parent : Nat, by : SUBSET Requests])
  /\ branch \in Seq(DOMAIN commit) /\ branch # <<>>
  /\ \A k \in Keys : stored[k].found =>
       stored[k] \in [found : {TRUE}, body : Body, result : Results]
  /\ audited \subseteq Requests
  /\ pc \in [Requests -> PcStates]
  /\ req \in [Requests -> Request]
  /\ crashes \in Nat

\* "Retries with the same Idempotency-Key create no second commit": whatever is
\* lost, crashes or runs at once, the branch never holds two commits of the
\* same body, because both would have to be children of its base revision.
NoDuplicateCommit ==
  \A i, j \in DOMAIN branch : i # j =>
    \A r \in commit[branch[i]].by, s \in commit[branch[j]].by :
      req[r].body # req[s].body

\* A key answers every retry alike: a result once replayed stays the one its
\* key replays, although the requests that race to store it had different ones.
ReplaysAgree ==
  \A r \in Requests : req[r].out = "replayed" =>
    stored[req[r].key].result = req[r].result

\* What the server says of a write is so: a replayed commit is that of a request
\* with the same body, not of somebody else's changes; a request that is refused as
\* stale has committed nothing; and the audit log has no write that did not happen,
\* none of a preview or a replay.
TruthfulRecords ==
  /\ \A r \in Requests : req[r].out = "replayed" /\ req[r].result.kind = "commit" =>
       \A s \in commit[req[r].result.rev].by : req[s].body = req[r].body
  /\ \A r \in Requests : req[r].out = "stale" =>
       \A c \in DOMAIN commit : r \notin commit[c].by
  /\ \A r \in audited : \E c \in DOMAIN commit : r \in commit[c].by
============================================================================
