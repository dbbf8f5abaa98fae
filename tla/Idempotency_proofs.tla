------------------------- MODULE Idempotency_proofs -------------------------
(***************************************************************************)
(* TLAPS proofs about Idempotency, for any requests, keys and payloads and *)
(* any bounds on the revisions a body names and on crashes.                *)
(***************************************************************************)
EXTENDS Idempotency, TLAPS

CommitRecord == [parent : Nat, by : SUBSET Requests]
StoredRecord == [found : {TRUE}, body : Body, result : Results]

\* The branch starts at the root, every commit on it is a child of the one below,
\* and its revisions increase, so that no commit has two children on it.
Chain ==
  /\ branch[1] = Root
  /\ commit[Root].by = {}
  /\ \A i \in DOMAIN branch : i > 1 => commit[branch[i]].parent = branch[i - 1]
  /\ \A i, j \in DOMAIN branch : i < j => branch[i] < branch[j]

\* Whoever made a commit has run, on the base it names, and was not called stale.
CommitInv(c) ==
  \A r \in commit[c].by :
    /\ pc[r] \in {"put", "audit", "done"}
    /\ req[r].body.base = commit[c].parent
    /\ req[r].out # "stale"

\* A request that has run has its result, and the commit of it is its own alone.
RequestInv(r) ==
  /\ pc[r] # "done" => req[r].out = "none"
  /\ pc[r] \in {"lookup", "put"} => req[r].key \in Keys
  /\ pc[r] \in {"put", "audit"} =>
       /\ req[r].result \in Results
       /\ ~req[r].dry => req[r].result.kind = "commit"
       /\ req[r].result.kind = "commit" =>
            /\ req[r].result.rev \in DOMAIN commit
            /\ commit[req[r].result.rev].by = {r}
  /\ req[r].out = "replayed" =>
       /\ req[r].key \in Keys
       /\ stored[req[r].key].found
       /\ stored[req[r].key].body = req[r].body
       /\ stored[req[r].key].result = req[r].result

\* A stored result is that of a request with the stored body.
StoredInv(k) ==
  stored[k].found /\ stored[k].result.kind = "commit" =>
    /\ stored[k].result.rev \in DOMAIN commit
    /\ \A s \in commit[stored[k].result.rev].by : req[s].body = stored[k].body

AuditedInv == \A r \in audited : \E c \in DOMAIN commit : r \in commit[c].by

Types ==
  /\ commit \in Seq(CommitRecord)
  /\ branch \in Seq(DOMAIN commit) /\ branch # <<>>
  /\ stored \in [Keys -> StoredRecord \cup {Absent}]
  /\ audited \subseteq Requests
  /\ pc \in [Requests -> PcStates]
  /\ req \in [Requests -> Request]
  /\ crashes \in Nat

IInv ==
  /\ Types
  /\ Chain
  /\ \A c \in DOMAIN commit : CommitInv(c)
  /\ \A r \in Requests : RequestInv(r)
  /\ \A k \in Keys : StoredInv(k)
  /\ AuditedInv
----------------------------------------------------------------------------
\* What a step of request r leaves alone: the other requests, the commits there
\* are, the records there are; and what r itself keeps once it has run.
Ran == {"put", "audit", "done"}

Frame(r) ==
  /\ \A s \in Requests \ {r} : pc'[s] = pc[s] /\ req'[s] = req[s]
  /\ pc[r] \in Ran => /\ pc'[r] \in Ran
                      /\ req'[r].body = req[r].body
                      /\ req'[r].out # "stale"
  /\ DOMAIN commit \subseteq DOMAIN commit'
  /\ \A c \in DOMAIN commit : commit'[c] = commit[c]
  /\ \A k \in Keys : stored[k].found => stored'[k] = stored[k]

\* A request keeps its type when it is answered or gets a result.
LEMMA LocalTypes ==
  ASSUME NEW q \in Request
  PROVE  /\ \A out \in Answers : [q EXCEPT !.out = out] \in Request
         /\ \A x \in Results : [q EXCEPT !.result = x] \in Request
         /\ \A x \in Results, out \in Answers : [q EXCEPT !.result = x, !.out = out] \in Request
         /\ \A key \in Keys \cup {NoKey}, dry \in BOOLEAN, body \in Body :
              [q EXCEPT !.key = key, !.dry = dry, !.body = body] \in Request
<1>1. \A out \in Answers : [q EXCEPT !.out = out] \in Request
  BY DEF Request
<1>2. \A x \in Results : [q EXCEPT !.result = x] \in Request
  BY DEF Request
<1>3. \A x \in Results, out \in Answers : [q EXCEPT !.result = x, !.out = out] \in Request
  BY DEF Request
<1>4. \A key \in Keys \cup {NoKey}, dry \in BOOLEAN, body \in Body :
        [q EXCEPT !.key = key, !.dry = dry, !.body = body] \in Request
  BY DEF Request
<1>5. QED
  BY <1>1, <1>2, <1>3, <1>4

LEMMA ResultTypes == Preview \in Results /\ \A c \in Nat : Committed(c) \in Results
BY DEF Preview, Committed, Results

\* A record that is found is one that was stored.
LEMMA FoundTypes ==
  ASSUME NEW x \in StoredRecord \cup {Absent}, x.found
  PROVE  x \in StoredRecord /\ x.body \in Body /\ x.result \in Results
<1>1. x # Absent
  BY DEF Absent
<1>2. x \in StoredRecord
  BY <1>1
<1>3. QED
  BY <1>2 DEF StoredRecord

\* A commit on the tip, whose revision is the number of commits.
LEMMA Grown ==
  ASSUME Types, NEW x \in CommitRecord, commit' = Append(commit, x)
  PROVE  /\ commit' \in Seq(CommitRecord)
         /\ DOMAIN commit \subseteq DOMAIN commit'
         /\ \A c \in DOMAIN commit : commit'[c] = commit[c]
         /\ DOMAIN commit' = DOMAIN commit \cup {Len(commit) + 1}
         /\ commit'[Len(commit) + 1] = x
         /\ Len(commit) + 1 \in Nat
BY DEF Types

LEMMA CommitTypes ==
  ASSUME Types
  PROVE  \A c \in DOMAIN commit : /\ c \in Nat
                                  /\ commit[c].parent \in Nat
                                  /\ commit[c].by \subseteq Requests
<1>1. DOMAIN commit = 1 .. Len(commit) /\ Len(commit) \in Nat
  BY DEF Types
<1>2. \A c \in DOMAIN commit : c \in Nat /\ commit[c] \in CommitRecord
  BY <1>1 DEF Types
<1>3. QED
  BY <1>2 DEF CommitRecord

LEMMA TipIsCommit ==
  ASSUME Types
  PROVE  Len(branch) \in DOMAIN branch /\ Tip \in DOMAIN commit /\ Tip \in Nat
<1>1. Len(branch) \in Nat /\ Len(branch) > 0 /\ DOMAIN branch = 1 .. Len(branch)
  BY DEF Types
<1>2. DOMAIN commit = 1 .. Len(commit)
  BY DEF Types
<1>3. QED
  BY <1>1, <1>2 DEF Types, Tip

\* Run, where it commits.
Commits(r) ==
  /\ pc[r] = "run" /\ req[r].body.base = Tip /\ ~req[r].dry
  /\ commit' = Append(commit, [parent |-> Tip, by |-> {r}])
  /\ branch' = Append(branch, Len(commit) + 1)
  /\ req' = [req EXCEPT ![r].result = Committed(Len(commit) + 1)]
  /\ Go(r, AfterRun(r))
  /\ UNCHANGED <<stored, audited, crashes>>

LEMMA RunSplits ==
  ASSUME NEW r \in Requests, Run(r)
  PROVE  Commits(r) \/ UNCHANGED <<commit, branch>>
BY DEF Run, Commits

LEMMA FrameStep ==
  ASSUME Types, NEW r \in Requests, RequestInv(r), Step(r)
  PROVE  Frame(r)
<1>1. req \in [Requests -> Request] /\ pc \in [Requests -> PcStates]
  BY DEF Types
<1>2. CASE Arrive(r)
  BY <1>1, <1>2 DEF Arrive, Go, Frame, Ran
<1>3. CASE Lookup(r)
  BY <1>1, <1>3 DEF Lookup, Answer, Go, Frame, Ran
<1>4. CASE Run(r)
  <2>1. CASE Commits(r)
    <3>1. [parent |-> Tip, by |-> {r}] \in CommitRecord
      BY TipIsCommit DEF CommitRecord
    <3>2. QED
      BY <1>1, <2>1, <3>1, Grown DEF Commits, Go, Frame, Ran
  <2>2. CASE UNCHANGED <<commit, branch>>
    BY <1>1, <1>4, <2>2 DEF Run, Answer, Go, Frame, Ran
  <2>3. QED
    BY <1>4, <2>1, <2>2, RunSplits
<1>5. CASE Put(r)
  <2>1. pc[r] = "put" /\ req[r].out = "none"
    BY <1>5 DEF Put, RequestInv
  <2>0. \/ Go(r, "audit") /\ UNCHANGED req
        \/ \E out \in {"reused", "failed"} : Answer(r, out)
    BY <1>5 DEF Put
  <2>2. UNCHANGED commit
    BY <1>5 DEF Put
  <2>3. \A k \in Keys : stored[k].found => stored'[k] = stored[k]
    BY <1>5 DEF Put, Types
  <2>4. /\ pc'[r] \in Ran
        /\ req'[r].body = req[r].body
        /\ req'[r].out \in {"none", "reused", "failed"}
    <3>1. CASE Go(r, "audit") /\ UNCHANGED req
      BY <1>1, <2>1, <3>1 DEF Go, Ran
    <3>2. CASE \E out \in {"reused", "failed"} : Answer(r, out)
      BY <1>1, <3>2 DEF Go, Answer, Ran, Request
    <3>3. QED
      BY <2>0, <3>1, <3>2
  <2>5. \A s \in Requests \ {r} : pc'[s] = pc[s] /\ req'[s] = req[s]
    BY <1>1, <2>0 DEF Go, Answer
  <2>6. QED
    BY <2>2, <2>3, <2>4, <2>5 DEF Frame
<1>6. CASE Audit(r)
  BY <1>1, <1>6 DEF Audit, Answer, Go, Frame, Ran
<1>7. QED
  BY <1>2, <1>3, <1>4, <1>5, <1>6 DEF Step

\* A step of one request leaves what the invariant says of the rest.
LEMMA FrameKeeps ==
  ASSUME IInv, NEW r \in Requests, Frame(r)
  PROVE  /\ \A c \in DOMAIN commit : CommitInv(c)'
         /\ \A s \in Requests \ {r} : RequestInv(s)'
         /\ \A k \in Keys : stored[k].found => StoredInv(k)'
<1>1. ASSUME NEW c \in DOMAIN commit PROVE CommitInv(c)'
  <2>1. CommitInv(c) /\ commit'[c] = commit[c]
    BY DEF IInv, Frame
  <2>2. commit[c].by \subseteq Requests
    BY CommitTypes DEF IInv
  <2>3. QED
    BY <2>1, <2>2 DEF CommitInv, Frame, Ran
<1>2. ASSUME NEW s \in Requests \ {r} PROVE RequestInv(s)'
  <2>1. RequestInv(s) /\ pc'[s] = pc[s] /\ req'[s] = req[s]
    BY DEF IInv, Frame
  <2>2. QED
    BY <2>1 DEF RequestInv, Frame
<1>3. ASSUME NEW k \in Keys, stored[k].found PROVE StoredInv(k)'
  <2>1. StoredInv(k) /\ stored'[k] = stored[k]
    BY <1>3 DEF IInv, Frame
  <2>2. CASE stored[k].result.kind # "commit"
    BY <2>1, <2>2 DEF StoredInv
  <2>3. CASE stored[k].result.kind = "commit"
    <3> DEFINE c == stored[k].result.rev
    <3>1. c \in DOMAIN commit /\ \A s \in commit[c].by : req[s].body = stored[k].body
      BY <1>3, <2>1, <2>3 DEF StoredInv
    <3>2. \A s \in commit[c].by : s \in Requests /\ pc[s] \in Ran
      BY <3>1, CommitTypes DEF IInv, CommitInv, Ran
    <3>3. \A s \in commit[c].by : req'[s].body = req[s].body
      BY <3>2 DEF Frame
    <3>4. commit'[c] = commit[c] /\ c \in DOMAIN commit'
      BY <3>1 DEF Frame
    <3>5. QED
      BY <2>1, <3>1, <3>3, <3>4 DEF StoredInv
  <2>4. QED
    BY <2>2, <2>3
<1>4. QED
  BY <1>1, <1>2, <1>3
----------------------------------------------------------------------------
(* Types. *)

LEMMA LocalStepTypes ==
  ASSUME Types, NEW r \in Requests, NEW q \in Request, NEW step \in PcStates
  PROVE  /\ [req EXCEPT ![r] = q] \in [Requests -> Request]
         /\ [pc EXCEPT ![r] = step] \in [Requests -> PcStates]
BY DEF Types

LEMMA ArriveTypes ==
  ASSUME Types, NEW r \in Requests, Arrive(r)
  PROVE  Types'
<1>1. PICK key \in Keys \cup {NoKey}, base \in 1..Len(commit), p \in Payloads, dry \in DryRuns :
        /\ base <= MaxRevision
        /\ req' = [req EXCEPT ![r].key = key, ![r].dry = dry,
                              ![r].body = [base |-> base, payload |-> p]]
        /\ Go(r, IF key = NoKey THEN "run" ELSE "lookup")
  BY DEF Arrive
<1>2. [base |-> base, payload |-> p] \in Body /\ dry \in BOOLEAN
  BY <1>1, DryRunsAssumption, BoundsAssumption DEF Body, Types
<1>3. req' \in [Requests -> Request]
  <2>1. req[r] \in Request
    BY DEF Types
  <2> DEFINE q == [req[r] EXCEPT !.key = key, !.dry = dry,
                                 !.body = [base |-> base, payload |-> p]]
  <2>2. q \in Request
    BY <1>2, <2>1, LocalTypes
  <2>3. req' = [req EXCEPT ![r] = q]
    BY <1>1 DEF Types
  <2>4. QED
    BY <2>2, <2>3 DEF Types
<1>4. pc' \in [Requests -> PcStates]
  BY <1>1 DEF Types, Go, PcStates
<1>5. QED
  BY <1>3, <1>4 DEF Arrive, Types

LEMMA LookupTypes ==
  ASSUME Types, NEW r \in Requests, RequestInv(r), Lookup(r)
  PROVE  Types'
<1> DEFINE old == stored[req[r].key]
<1>1. old.found => old.result \in Results
  <2>1. old \in StoredRecord \cup {Absent}
    BY DEF Lookup, Types, RequestInv
  <2>2. QED
    BY <2>1, FoundTypes
<1>2. req' \in [Requests -> Request]
  <2>1. req[r] \in Request
    BY DEF Types
  <2>2. \/ \E x \in Results : req' = [req EXCEPT ![r] = [@ EXCEPT !.result = x, !.out = "replayed"]]
        \/ req' = [req EXCEPT ![r] = [@ EXCEPT !.out = "reused"]]
        \/ req' = req
    BY <1>1 DEF Lookup, Answer
  <2>3. \E q \in Request : req' = [req EXCEPT ![r] = q] \/ req' = req
    BY <2>1, <2>2, LocalTypes DEF Answers
  <2>4. QED
    BY <2>3 DEF Types
<1>3. pc' \in [Requests -> PcStates]
  BY DEF Lookup, Answer, Go, Types, PcStates
<1>4. QED
  BY <1>2, <1>3 DEF Lookup, Types

LEMMA RunTypes ==
  ASSUME Types, NEW r \in Requests, Run(r)
  PROVE  Types'
<1>1. pc' \in [Requests -> PcStates]
  BY DEF Run, Answer, AfterRun, Go, Types, PcStates
<1>2. Len(commit) + 1 \in Nat
  BY DEF Types
<1>3. req' \in [Requests -> Request]
  <2>1. req[r] \in Request
    BY DEF Types
  <2>2. \/ \E out \in {"stale", "failed"} : req' = [req EXCEPT ![r] = [@ EXCEPT !.out = out]]
        \/ \E x \in Results : req' = [req EXCEPT ![r] = [@ EXCEPT !.result = x]]
    BY <1>2, ResultTypes DEF Run, Answer
  <2>3. \E q \in Request : req' = [req EXCEPT ![r] = q] \/ req' = req
    BY <2>1, <2>2, LocalTypes DEF Answers
  <2>4. QED
    BY <2>3 DEF Types
<1>4. commit' \in Seq(CommitRecord) /\ branch' \in Seq(DOMAIN commit') /\ branch' # <<>>
  <2>1. CASE Commits(r)
    <3>1. [parent |-> Tip, by |-> {r}] \in CommitRecord
      BY TipIsCommit DEF CommitRecord
    <3>2. /\ commit' \in Seq(CommitRecord)
          /\ DOMAIN commit' = DOMAIN commit \cup {Len(commit) + 1}
      BY <2>1, <3>1, Grown DEF Commits
    <3>3. branch' \in Seq(DOMAIN commit') /\ branch' # <<>>
      BY <2>1, <3>2 DEF Commits, Types
    <3>4. QED
      BY <3>2, <3>3
  <2>2. CASE UNCHANGED <<commit, branch>>
    BY <2>2 DEF Types
  <2>3. QED
    BY <2>1, <2>2, RunSplits
<1>5. QED
  BY <1>1, <1>3, <1>4 DEF Run, Types

LEMMA PutTypes ==
  ASSUME Types, NEW r \in Requests, RequestInv(r), Put(r)
  PROVE  Types'
<1>1. req' \in [Requests -> Request]
  <2>1. req[r] \in Request
    BY DEF Types
  <2>2. \/ \E out \in {"reused", "failed"} : req' = [req EXCEPT ![r] = [@ EXCEPT !.out = out]]
        \/ req' = req
    BY DEF Put, Answer
  <2>3. \E q \in Request : req' = [req EXCEPT ![r] = q] \/ req' = req
    BY <2>1, <2>2, LocalTypes DEF Answers
  <2>4. QED
    BY <2>3 DEF Types
<1>2. pc' \in [Requests -> PcStates]
  BY DEF Put, Answer, Go, Types, PcStates
<1>3. stored' \in [Keys -> StoredRecord \cup {Absent}]
  <2>1. [found |-> TRUE, body |-> req[r].body, result |-> req[r].result] \in StoredRecord
    BY DEF Put, Types, Request, RequestInv, StoredRecord
  <2>2. QED
    BY <2>1 DEF Put, Types
<1>4. QED
  BY <1>1, <1>2, <1>3 DEF Put, Types

LEMMA AuditTypes ==
  ASSUME Types, NEW r \in Requests, Audit(r)
  PROVE  Types'
<1>1. req' \in [Requests -> Request]
  BY DEF Audit, Answer, Types, Request, Answers
<1>2. pc' \in [Requests -> PcStates]
  BY DEF Audit, Answer, Go, Types, PcStates
<1>3. audited' \subseteq Requests
  BY DEF Audit, Types
<1>4. QED
  BY <1>1, <1>2, <1>3 DEF Audit, Types

LEMMA StepTypes ==
  ASSUME Types, NEW r \in Requests, RequestInv(r), Step(r)
  PROVE  Types'
BY ArriveTypes, LookupTypes, RunTypes, PutTypes, AuditTypes DEF Step
----------------------------------------------------------------------------
(* The parts of the invariant that a request's own step can disturb. *)

LEMMA OwnRequest ==
  ASSUME IInv, NEW r \in Requests, Step(r)
  PROVE  RequestInv(r)'
<1>1. Types /\ RequestInv(r)
  BY DEF IInv
<1>2. req \in [Requests -> Request] /\ pc \in [Requests -> PcStates] /\ req[r] \in Request
  BY <1>1 DEF Types
<1>3. CASE Arrive(r)
  <2>1. PICK key \in Keys \cup {NoKey} :
          /\ req'[r].key = key /\ req'[r].out = req[r].out
          /\ pc'[r] = IF key = NoKey THEN "run" ELSE "lookup"
    BY <1>2, <1>3 DEF Arrive, Go, Request
  <2>2. req[r].out = "none"
    BY <1>1, <1>3 DEF Arrive, RequestInv
  <2>3. QED
    BY <2>1, <2>2 DEF RequestInv
<1>4. CASE Lookup(r)
  <2> DEFINE old == stored[req[r].key]
  <2>1. req[r].key \in Keys /\ req[r].out = "none" /\ UNCHANGED stored
    BY <1>1, <1>4 DEF Lookup, RequestInv
  <2>2. CASE old.found /\ old.body = req[r].body /\ pc'[r] = "done"
             /\ req' = [req EXCEPT ![r].result = old.result, ![r].out = "replayed"]
    <3>1. /\ req'[r].key = req[r].key /\ req'[r].body = req[r].body
          /\ req'[r].result = old.result
      BY <1>2, <2>2 DEF Request
    <3>2. QED
      BY <2>1, <2>2, <3>1 DEF RequestInv
  <2>3. CASE pc'[r] = "done" /\ req' = [req EXCEPT ![r].out = "reused"]
    BY <1>2, <2>3 DEF RequestInv, Request
  <2>4. CASE pc'[r] = "run" /\ req' = req
    BY <2>1, <2>4 DEF RequestInv
  <2>5. QED
    BY <1>2, <1>4, <2>2, <2>3, <2>4 DEF Lookup, Go, Answer
<1>5. CASE Run(r)
  <2>1. req[r].out = "none"
    BY <1>1, <1>5 DEF Run, RequestInv
  <2>2. CASE Commits(r)
    <3> DEFINE c == Len(commit) + 1
    <3>1. /\ req'[r].key = req[r].key /\ req'[r].dry = req[r].dry /\ req'[r].out = "none"
          /\ req'[r].result = Committed(c)
      BY <1>2, <2>1, <2>2 DEF Commits, Request
    <3>2. /\ pc'[r] \in {"put", "audit"}
          /\ pc'[r] = "put" => req[r].key \in Keys
      BY <1>2, <2>2 DEF Commits, Go, AfterRun, Request
    <3>3. [parent |-> Tip, by |-> {r}] \in CommitRecord
      BY <1>1, TipIsCommit DEF CommitRecord
    <3>4. c \in DOMAIN commit' /\ commit'[c].by = {r} /\ c \in Nat
      BY <1>1, <2>2, <3>3, Grown DEF Commits
    <3>5. Committed(c) \in Results /\ Committed(c).kind = "commit" /\ Committed(c).rev = c
      BY <3>4, ResultTypes DEF Committed
    <3>6. QED
      BY <3>1, <3>2, <3>4, <3>5 DEF RequestInv
  <2>3. CASE req[r].dry /\ req' = [req EXCEPT ![r].result = Preview] /\ Go(r, AfterRun(r))
    <3>1. /\ req'[r].key = req[r].key /\ req'[r].dry /\ req'[r].out = "none"
          /\ req'[r].result = Preview
      BY <1>2, <2>1, <2>3 DEF Request
    <3>2. /\ pc'[r] \in {"put", "audit"}
          /\ pc'[r] = "put" => req[r].key \in Keys
      BY <1>2, <2>3 DEF Go, AfterRun, Request
    <3>3. Preview \in Results /\ Preview.kind # "commit"
      BY ResultTypes DEF Preview
    <3>4. QED
      BY <3>1, <3>2, <3>3 DEF RequestInv
  <2>4. CASE Answer(r, "stale") \/ Answer(r, "failed")
    BY <1>2, <2>4 DEF Answer, Go, RequestInv, Request
  <2>5. QED
    BY <1>5, <2>2, <2>3, <2>4 DEF Run, Commits
<1>6. CASE Put(r)
  <2>1. req[r].out = "none" /\ pc[r] = "put" /\ UNCHANGED commit
    BY <1>1, <1>6 DEF Put, RequestInv
  <2>2. CASE pc'[r] = "audit" /\ UNCHANGED req
    BY <1>1, <2>1, <2>2 DEF RequestInv
  <2>3. CASE Answer(r, "reused") \/ Answer(r, "failed")
    BY <1>2, <2>3 DEF Answer, Go, RequestInv, Request
  <2>4. QED
    BY <1>2, <1>6, <2>2, <2>3 DEF Put, Go
<1>7. CASE Audit(r)
  BY <1>2, <1>7 DEF Audit, Answer, Go, RequestInv, Request
<1>8. QED
  BY <1>3, <1>4, <1>5, <1>6, <1>7 DEF Step

\* Only Run moves the branch, and puts its commit on top.
LEMMA OwnChain ==
  ASSUME IInv, NEW r \in Requests, Step(r)
  PROVE  Chain' /\ \A c \in DOMAIN commit' \ DOMAIN commit : CommitInv(c)'
<1>1. CASE UNCHANGED <<commit, branch>>
  BY <1>1 DEF IInv, Chain
<1>2. CASE Commits(r)
  <2> DEFINE c == Len(commit) + 1
             n == Len(branch)
  <2>0. Types /\ Chain
    BY DEF IInv
  <2>1. [parent |-> Tip, by |-> {r}] \in CommitRecord
    BY <2>0, TipIsCommit DEF CommitRecord
  <2>2. /\ DOMAIN commit' = DOMAIN commit \cup {c}
        /\ \A d \in DOMAIN commit : commit'[d] = commit[d]
        /\ commit'[c] = [parent |-> Tip, by |-> {r}]
    BY <1>2, <2>0, <2>1, Grown DEF Commits
  <2>3. n \in Nat /\ n > 0 /\ \A i \in 1 .. n : branch[i] \in DOMAIN commit
    BY <2>0 DEF Types
  <2>4. /\ DOMAIN branch = 1 .. n /\ DOMAIN branch' = 1 .. (n + 1)
        /\ branch'[n + 1] = c
        /\ \A i \in 1 .. n : branch'[i] = branch[i]
    BY <1>2, <2>0, <2>3 DEF Commits, Types
  <2>5. \A d \in DOMAIN commit : d \in Nat /\ d < c
    BY <2>0 DEF Types
  <2>6. branch'[1] = Root /\ commit'[Root].by = {}
    BY <2>0, <2>2, <2>3, <2>4 DEF Chain
  <2>7. ASSUME NEW i \in DOMAIN branch', i > 1
        PROVE  commit'[branch'[i]].parent = branch'[i - 1]
    <3>1. CASE i = n + 1
      BY <2>2, <2>3, <2>4, <3>1 DEF Tip
    <3>2. CASE i \in 1 .. n
      <4>1. i - 1 \in 1 .. n
        BY <2>3, <2>7, <3>2
      <4>2. QED
        BY <2>0, <2>2, <2>3, <2>4, <2>7, <3>2, <4>1 DEF Chain
    <3>3. QED
      BY <2>3, <2>4, <3>1, <3>2
  <2>8. ASSUME NEW i \in DOMAIN branch', NEW j \in DOMAIN branch', i < j
        PROVE  branch'[i] < branch'[j]
    <3>1. i \in 1 .. n
      BY <2>3, <2>4, <2>8
    <3>2. CASE j = n + 1
      BY <2>3, <2>4, <2>5, <3>1, <3>2
    <3>3. CASE j \in 1 .. n
      BY <2>0, <2>4, <2>8, <3>1, <3>3 DEF Chain
    <3>4. QED
      BY <2>3, <2>4, <3>2, <3>3
  <2>9. ASSUME NEW d \in DOMAIN commit' \ DOMAIN commit
        PROVE  CommitInv(d)'
    <3>0. d = c
      BY <2>2
    <3>1. req[r] \in Request /\ req[r].out = "none"
      BY <1>2 DEF IInv, Types, RequestInv, Commits
    <3>2. pc'[r] \in {"put", "audit"} /\ req'[r].body = req[r].body /\ req'[r].out = "none"
      BY <1>2, <2>0, <3>1 DEF Commits, Go, AfterRun, Types, Request
    <3>3. commit'[d].by = {r} /\ commit'[d].parent = req[r].body.base
      BY <1>2, <2>2, <3>0 DEF Commits
    <3>4. QED
      BY <3>2, <3>3 DEF CommitInv
  <2>10. QED
    BY <2>2, <2>6, <2>7, <2>8, <2>9 DEF Chain
<1>3. UNCHANGED <<commit, branch>> \/ Commits(r)
  BY RunSplits DEF Step, Arrive, Lookup, Put, Audit
<1>4. QED
  BY <1>1, <1>2, <1>3

\* Only Put stores a record, of the body and the result of the request.
LEMMA OwnRecord ==
  ASSUME IInv, NEW r \in Requests, Step(r), NEW k \in Keys, ~stored[k].found
  PROVE  StoredInv(k)'
<1>1. CASE stored'[k] = stored[k]
  BY <1>1 DEF StoredInv
<1>2. CASE stored'[k] # stored[k]
  <2>1. Put(r) /\ k = req[r].key
    BY <1>2 DEF Step, Arrive, Lookup, Run, Put, Audit, IInv, Types
  <2>2. /\ stored'[k] = [found |-> TRUE, body |-> req[r].body, result |-> req[r].result]
        /\ UNCHANGED <<req, commit>> /\ pc[r] = "put"
    BY <1>2, <2>1 DEF Put, IInv, Types
  <2>3. RequestInv(r)
    BY DEF IInv
  <2>4. QED
    BY <2>2, <2>3 DEF RequestInv, StoredInv
<1>3. QED
  BY <1>1, <1>2

\* Only Audit adds an entry, and of a request that has committed.
LEMMA OwnEntry ==
  ASSUME IInv, NEW r \in Requests, Step(r)
  PROVE  AuditedInv'
<1>1. Frame(r)
  BY FrameStep DEF IInv
<1>2. \A a \in audited : \E c \in DOMAIN commit' : a \in commit'[c].by
  BY <1>1 DEF IInv, AuditedInv, Frame
<1>3. ASSUME NEW a \in audited' \ audited
      PROVE  \E c \in DOMAIN commit' : a \in commit'[c].by
  <2>1. Audit(r) /\ a = r /\ ~req[r].dry
    BY <1>3 DEF Step, Arrive, Lookup, Run, Put, Audit
  <2>2. UNCHANGED commit /\ pc[r] = "audit" /\ RequestInv(r)
    BY <2>1 DEF Audit, IInv
  <2>3. req[r].result.rev \in DOMAIN commit /\ commit[req[r].result.rev].by = {r}
    BY <2>1, <2>2 DEF RequestInv
  <2>4. req[r].result.rev \in DOMAIN commit' /\ a \in commit'[req[r].result.rev].by
    BY <2>1, <2>2, <2>3
  <2>5. QED
    BY <2>4
<1>4. \A a \in audited' : \E c \in DOMAIN commit' : a \in commit'[c].by
  BY <1>2, <1>3
<1>5. QED
  BY <1>4 DEF AuditedInv

LEMMA StepKeeps ==
  ASSUME IInv, NEW r \in Requests, Step(r)
  PROVE  IInv'
<1>1. Types' /\ Frame(r)
  BY StepTypes, FrameStep DEF IInv
<1>2. \A c \in DOMAIN commit' : CommitInv(c)'
  BY <1>1, FrameKeeps, OwnChain
<1>3. \A s \in Requests : RequestInv(s)'
  BY <1>1, FrameKeeps, OwnRequest
<1>4. \A k \in Keys : StoredInv(k)'
  BY <1>1, FrameKeeps, OwnRecord
<1>5. QED
  BY <1>1, <1>2, <1>3, <1>4, OwnChain, OwnEntry DEF IInv

\* A push that takes commits off the branch leaves a branch that starts at the root.
LEMMA PushBackKeeps ==
  ASSUME IInv, PushBack
  PROVE  IInv'
<1>1. PICK k \in 1 .. (Len(branch) - 1) : branch' = SubSeq(branch, 1, k)
  BY DEF PushBack
<1>2. Types /\ Chain
  BY DEF IInv
<1>3. /\ k \in Nat /\ k > 0
      /\ DOMAIN branch' = 1 .. k /\ DOMAIN branch' \subseteq DOMAIN branch
      /\ \A i \in DOMAIN branch' : branch'[i] = branch[i]
      /\ branch' \in Seq(DOMAIN commit)
  <2>1. branch \in Seq(DOMAIN commit) /\ Len(branch) \in Nat
    BY <1>2 DEF Types
  <2>2. QED
    BY <1>1, <2>1
<1>4. UNCHANGED <<commit, stored, audited, pc, req, crashes>>
  BY DEF PushBack
<1>5. Types'
  <2>1. branch' # <<>>
    BY <1>3
  <2>2. QED
    BY <1>2, <1>3, <1>4, <2>1 DEF Types
<1>6. Chain'
  <2>1. branch'[1] = Root /\ commit'[Root].by = {}
    BY <1>2, <1>3, <1>4 DEF Chain
  <2>2. ASSUME NEW i \in DOMAIN branch', i > 1
        PROVE  commit'[branch'[i]].parent = branch'[i - 1]
    <3>1. i - 1 \in DOMAIN branch'
      BY <1>3, <2>2
    <3>2. QED
      BY <1>2, <1>3, <1>4, <2>2, <3>1 DEF Chain
  <2>3. \A i, j \in DOMAIN branch' : i < j => branch'[i] < branch'[j]
    BY <1>2, <1>3 DEF Chain
  <2>4. QED
    BY <2>1, <2>2, <2>3 DEF Chain
<1>7. /\ \A c \in DOMAIN commit' : CommitInv(c)'
      /\ \A r \in Requests : RequestInv(r)'
      /\ \A k1 \in Keys : StoredInv(k1)'
      /\ AuditedInv'
  BY <1>4 DEF IInv, CommitInv, RequestInv, StoredInv, AuditedInv
<1>8. QED
  BY <1>5, <1>6, <1>7 DEF IInv

\* A crash ends every request without an answer; what was written stays.
LEMMA CrashKeeps ==
  ASSUME IInv, Crash
  PROVE  IInv'
<1>1. Types /\ UNCHANGED <<commit, branch, stored, audited>>
  BY DEF IInv, Crash
<1>2. ASSUME NEW r \in Requests
      PROVE  \/ /\ pc[r] \in {"idle", "done"} /\ pc'[r] = pc[r] /\ req'[r] = req[r]
             \/ /\ pc[r] \notin {"idle", "done"} /\ pc'[r] = "done"
                /\ req'[r] = [req[r] EXCEPT !.out = "lost"]
  BY DEF Crash
<1>3. ASSUME NEW r \in Requests
      PROVE  /\ req'[r] \in Request /\ pc'[r] \in PcStates
             /\ pc[r] \in Ran => pc'[r] \in Ran
             /\ req'[r].body = req[r].body
             /\ req'[r].out \in {req[r].out, "lost"}
  <2>1. req[r] \in Request /\ pc[r] \in PcStates
    BY <1>1 DEF Types
  <2>2. QED
    BY <1>2, <2>1 DEF Request, Answers, PcStates, Ran
<1>4. Types'
  <2>1. req' \in [Requests -> Request] /\ pc' \in [Requests -> PcStates]
    <3>1. /\ req' = [r \in Requests |-> req'[r]]
          /\ pc' = [r \in Requests |-> pc'[r]]
      BY DEF Crash
    <3>2. QED
      BY <1>3, <3>1
  <2>2. crashes' \in Nat
    BY <1>1 DEF Crash, Types
  <2>3. QED
    BY <1>1, <2>1, <2>2 DEF Types
<1>5. ASSUME NEW c \in DOMAIN commit' PROVE CommitInv(c)'
  <2>1. CommitInv(c) /\ commit'[c] = commit[c] /\ commit[c].by \subseteq Requests
    BY <1>1, CommitTypes DEF IInv
  <2>2. QED
    BY <1>3, <2>1 DEF CommitInv, Ran
<1>6. ASSUME NEW r \in Requests PROVE RequestInv(r)'
  <2>1. RequestInv(r)
    BY DEF IInv
  <2>2. CASE pc'[r] = pc[r] /\ req'[r] = req[r]
    BY <1>1, <2>1, <2>2 DEF RequestInv
  <2>3. CASE pc'[r] = "done" /\ req'[r] = [req[r] EXCEPT !.out = "lost"]
    <3>1. req'[r].out = "lost"
      BY <1>1, <2>3 DEF Types, Request
    <3>2. QED
      BY <2>3, <3>1 DEF RequestInv
  <2>4. QED
    BY <1>2, <2>2, <2>3
<1>7. ASSUME NEW k \in Keys PROVE StoredInv(k)'
  <2>1. StoredInv(k)
    BY DEF IInv
  <2>2. \A c \in DOMAIN commit : \A s \in commit[c].by : req'[s].body = req[s].body
    BY <1>1, <1>3, CommitTypes
  <2>3. QED
    BY <1>1, <2>1, <2>2 DEF StoredInv
<1>8. Chain' /\ AuditedInv'
  BY <1>1 DEF IInv, Chain, AuditedInv
<1>9. QED
  BY <1>4, <1>5, <1>6, <1>7, <1>8 DEF IInv
----------------------------------------------------------------------------
(* Theorems. *)

LEMMA InitEstablishes == Init => IInv
<1> SUFFICES ASSUME Init PROVE IInv
  OBVIOUS
<1>1. DOMAIN commit = {1} /\ commit[1] = [parent |-> 0, by |-> {}]
  BY DEF Init
<1>2. DOMAIN branch = {1} /\ branch[1] = 1 /\ Len(branch) = 1
  BY DEF Init, Root
<1>3. PICK p \in Payloads :
        req = [r \in Requests |-> [key |-> NoKey, body |-> [base |-> Root, payload |-> p],
                                   dry |-> FALSE, result |-> None, out |-> "none"]]
  BY DEF Init
<1>4. req \in [Requests -> Request]
  <2>1. [base |-> Root, payload |-> p] \in Body
    BY BoundsAssumption DEF Body, Root
  <2>2. [key |-> NoKey, body |-> [base |-> Root, payload |-> p], dry |-> FALSE,
         result |-> None, out |-> "none"] \in Request
    BY <2>1 DEF Request, Answers
  <2>3. QED
    BY <1>3, <2>2
<1>5. Types
  <2>1. commit \in Seq(CommitRecord) /\ branch \in Seq(DOMAIN commit) /\ branch # <<>>
    <3>1. [parent |-> 0, by |-> {}] \in CommitRecord
      BY DEF CommitRecord
    <3>2. QED
      BY <1>1, <3>1 DEF Init, Root
  <2>2. QED
    BY <1>4, <2>1 DEF Init, Types, PcStates
<1>6. Chain
  BY <1>1, <1>2 DEF Chain, Root
<1>7. \A c \in DOMAIN commit : CommitInv(c)
  BY <1>1 DEF CommitInv
<1>8. \A r \in Requests : RequestInv(r)
  BY <1>3 DEF Init, RequestInv
<1>9. (\A k \in Keys : StoredInv(k)) /\ AuditedInv
  BY DEF Init, Absent, StoredInv, AuditedInv
<1>10. QED
  BY <1>5, <1>6, <1>7, <1>8, <1>9 DEF IInv

LEMMA NextKeeps == IInv /\ [Next]_vars => IInv'
<1> SUFFICES ASSUME IInv, [Next]_vars PROVE IInv'
  OBVIOUS
<1>1. CASE UNCHANGED vars
  BY <1>1 DEF vars, IInv, Types, Chain, CommitInv, RequestInv, StoredInv, AuditedInv
<1>2. CASE \E r \in Requests : Step(r)
  BY <1>2, StepKeeps
<1>3. CASE PushBack
  BY <1>3, PushBackKeeps
<1>4. CASE Crash
  BY <1>4, CrashKeeps
<1>5. QED
  BY <1>1, <1>2, <1>3, <1>4 DEF Next, Finished

\* In every reachable state: the types, a branch on which no commit has two children,
\* commits on the base their request names, and records, replays and audit entries of
\* commits that requests with those bodies made.
THEOREM InvariantHolds == Spec => []IInv
BY InitEstablishes, NextKeeps, PTL DEF Spec

\* Every variable keeps its type; a record that is found has a body and a result.
THEOREM TypeCorrect == Spec => []TypeOK
<1>1. IInv => TypeOK
  <2> SUFFICES ASSUME IInv PROVE TypeOK
    OBVIOUS
  <2>1. Types
    BY DEF IInv
  <2>2. \A k \in Keys : stored[k].found => stored[k] \in StoredRecord
    BY <2>1, FoundTypes DEF Types
  <2>3. QED
    BY <2>1, <2>2 DEF Types, TypeOK, CommitRecord, StoredRecord
<1>2. QED
  BY <1>1, InvariantHolds, PTL

\* However requests are retried, raced, lost or crashed, the branch never holds two
\* commits of the same body: both would be the child of its base on the branch.
THEOREM NoDuplicate == Spec => []NoDuplicateCommit
<1>1. IInv => NoDuplicateCommit
  <2> SUFFICES ASSUME IInv, NEW i \in DOMAIN branch, NEW j \in DOMAIN branch, i # j,
                      NEW r \in commit[branch[i]].by, NEW s \in commit[branch[j]].by,
                      req[r].body = req[s].body
               PROVE  FALSE
    BY DEF NoDuplicateCommit
  <2>1. Types /\ Chain
    BY DEF IInv
  <2>2. branch[i] \in DOMAIN commit /\ branch[j] \in DOMAIN commit
    BY <2>1 DEF Types
  <2>3. commit[branch[i]].parent = commit[branch[j]].parent
    BY <2>2 DEF IInv, CommitInv
  <2>4. DOMAIN branch = 1 .. Len(branch) /\ Len(branch) \in Nat
    BY <2>1 DEF Types
  <2>5. i > 1 /\ j > 1
    BY <2>1, <2>4 DEF Chain
  <2>6. branch[i - 1] = branch[j - 1]
    BY <2>1, <2>3, <2>5 DEF Chain
  <2>7. /\ i - 1 \in DOMAIN branch /\ j - 1 \in DOMAIN branch
        /\ i - 1 < j - 1 \/ j - 1 < i - 1
    BY <2>4, <2>5
  <2>8. branch[i - 1] < branch[j - 1] \/ branch[j - 1] < branch[i - 1]
    BY <2>1, <2>7 DEF Chain
  <2>9. branch[i - 1] \in Nat /\ branch[j - 1] \in Nat
    BY <2>1, <2>7, CommitTypes DEF Types
  <2>10. QED
    BY <2>6, <2>8, <2>9
<1>2. QED
  BY <1>1, InvariantHolds, PTL

\* Every replay of a key gives the result that its record holds from then on.
THEOREM ReplayOnce == Spec => []ReplaysAgree
<1>1. IInv => ReplaysAgree
  BY DEF IInv, RequestInv, ReplaysAgree
<1>2. QED
  BY <1>1, InvariantHolds, PTL

\* What the server says of a write is so, in its replays, refusals and audit log.
THEOREM RecordsTruthful == Spec => []TruthfulRecords
<1>1. IInv => TruthfulRecords
  <2> SUFFICES ASSUME IInv PROVE TruthfulRecords
    OBVIOUS
  <2>1. ASSUME NEW r \in Requests, req[r].out = "replayed", req[r].result.kind = "commit"
        PROVE  \A s \in commit[req[r].result.rev].by : req[s].body = req[r].body
    <3> DEFINE k == req[r].key
    <3>1. /\ k \in Keys /\ stored[k].found
          /\ stored[k].body = req[r].body /\ stored[k].result = req[r].result
      BY <2>1 DEF IInv, RequestInv
    <3>2. StoredInv(k)
      BY <3>1 DEF IInv
    <3>3. QED
      BY <2>1, <3>1, <3>2 DEF StoredInv
  <2>2. \A r \in Requests : req[r].out = "stale" =>
          \A c \in DOMAIN commit : r \notin commit[c].by
    BY DEF IInv, CommitInv
  <2>3. \A r \in audited : \E c \in DOMAIN commit : r \in commit[c].by
    BY DEF IInv, AuditedInv
  <2>4. QED
    BY <2>1, <2>2, <2>3 DEF TruthfulRecords
<1>2. QED
  BY <1>1, InvariantHolds, PTL
============================================================================
