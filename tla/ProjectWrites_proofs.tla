----------------------- MODULE ProjectWrites_proofs -----------------------
(***************************************************************************)
(* TLAPS proofs about ProjectWrites, for any number of requests, documents *)
(* and names, any changesets and any number of crashes.                    *)
(***************************************************************************)
EXTENDS ProjectWrites, FiniteSetTheorems, SequenceTheorems, NaturalsInduction,
        WellFoundedInduction, TLAPS

\* The name a fresh request carries is a name.
LEMMA ANameType == AName \in Names
BY NamesAssumption DEF AName

LEMMA EmptyTreeType == EmptyTree \in Trees
BY DEF EmptyTree, Trees

LEMMA NoRequestType == NoRequest \in Request
BY ANameType, EmptyTreeType DEF NoRequest, Request, Outcomes

\* Writing a changeset's files over a tree gives a tree.
LEMMA OverwriteType ==
  ASSUME NEW tree \in Trees, NEW f \in Changesets
  PROVE  /\ Overwrite(tree, f) \in Trees
         /\ DOMAIN f \subseteq Paths
<1>1. DOMAIN f \subseteq Paths /\ f \in [DOMAIN f -> Contents \cup {Absent}]
  BY ChangesetsAssumption
<1>2. \A p \in Paths :
        (IF p \in DOMAIN f THEN f[p] ELSE tree[p]) \in Contents \cup {Absent}
  BY <1>1 DEF Trees
<1>3. QED
  BY <1>1, <1>2 DEF Overwrite, Trees

LEMMA TitledType ==
  ASSUME NEW tree \in Trees, NEW t \in Names
  PROVE  Titled(tree, t) \in Trees
BY DEF Titled, Trees, Contents, Paths

LEMMA StripType ==
  ASSUME NEW tree \in Trees, NEW P
  PROVE  Strip(tree, P) \in Trees
BY DEF Strip, Trees

\* Reverse-applying the patch of an existing commit gives a tree.
LEMMA ReversedType ==
  ASSUME object \in Seq(Commit), NEW c \in DOMAIN object,
         object[c].parent \in DOMAIN object \cup {0}, NEW tree \in Trees
  PROVE  Reversed(c, tree) \in Trees /\ Diff(c) \subseteq Paths
<1>1. \A i \in DOMAIN object : object[i] \in Commit
  OBVIOUS
<1>2. \A i \in DOMAIN object : TreeOf(i) \in Trees
  BY <1>1 DEF TreeOf, Commit
<1>3. ParentTree(c) \in Trees
  BY <1>2, EmptyTreeType DEF ParentTree
<1>4. QED
  BY <1>3 DEF Reversed, Diff, Trees

----------------------------------------------------------------------------
(* Type correctness, one lemma per group of actions. *)

LEMMA ReturnType ==
  ASSUME TypeOK, NEW r \in Requests, NEW out \in Outcomes, Return(r, out)
  PROVE  pc' \in [Requests -> PcStates] /\ req' \in [Requests -> Request]
<1>1. pc \in [Requests -> PcStates] /\ req \in [Requests -> Request]
  BY DEF TypeOK
<1>2. pc' \in [Requests -> PcStates]
  BY <1>1 DEF Return, PcStates
<1>3. [req[r] EXCEPT !.out = out] \in Request
  BY <1>1 DEF Request
<1>4. QED
  BY <1>1, <1>2, <1>3 DEF Return

LEMMA InitType == Init => TypeOK
<1> SUFFICES ASSUME Init PROVE TypeOK
  OBVIOUS
<1>1. PICK t \in Trees :
        object = <<[parent |-> 0, tree |-> t, paths |-> Paths]>>
  BY DEF Init
<1>2. object \in Seq(Commit) /\ DOMAIN object = {1}
  BY <1>1 DEF Commit
<1>3. pc \in [Requests -> PcStates] /\ req \in [Requests -> Request]
  BY NoRequestType DEF Init, PcStates
<1>4. main \in Seq(DOMAIN object)
  BY <1>2 DEF Init
<1>5. QED
  BY <1>2, <1>3, <1>4 DEF Init, TypeOK

LEMMA ArrivalType ==
  ASSUME TypeOK, NEW r \in Requests, Arrival(r)
  PROVE  TypeOK'
<1>1. CheckRow \in Outcomes
  BY DEF CheckRow, Outcomes
<1>2. ASSUME NEW data \in Request, Arrive(r, data)
      PROVE  TypeOK'
  <2>1. pc' \in [Requests -> PcStates] /\ req' \in [Requests -> Request]
    BY <1>2 DEF Arrive, TypeOK, PcStates
  <2>2. mayWrite' \subseteq Requests
    BY <1>2 DEF Arrive, TypeOK
  <2>3. QED
    BY <1>2, <2>1, <2>2 DEF Arrive, TypeOK, repo
<1>3. 1..Len(object) \subseteq Nat
  BY DEF TypeOK
<1> USE NoRequestType, ANameType DEF Request, AllKinds, Outcomes
<1>4. CASE ArriveChangeset(r)
  BY <1>1, <1>2, <1>3, <1>4 DEF ArriveChangeset
<1>5. CASE ArriveRevert(r)
  BY <1>1, <1>2, <1>3, <1>5 DEF ArriveRevert
<1>6. CASE ArrivePush(r)
  BY <1>1, <1>2, <1>3, <1>6 DEF ArrivePush
<1>7. CASE ArriveRename(r)
  BY <1>2, <1>7 DEF ArriveRename
<1>8. CASE ArrivePurge(r)
  BY <1>2, <1>8 DEF ArrivePurge
<1>9. CASE ArriveAdmin(r)
  <2>1. PICK k \in {"archive", "unarchive", "delete", "restore"} :
          Arrive(r, [NoRequest EXCEPT !.kind = k])
    BY <1>9 DEF ArriveAdmin
  <2>2. [NoRequest EXCEPT !.kind = k] \in Request
    OBVIOUS
  <2>3. QED
    BY <1>2, <2>1, <2>2
<1>10. QED
  BY <1>4, <1>5, <1>6, <1>7, <1>8, <1>9 DEF Arrival
----------------------------------------------------------------------------
(* Control: only the holder of the lock takes steps.                       *)

\* Between lock and unlock a handler keeps the lock and stays between them.
Inside(r) == /\ pc[r] \in Critical /\ lock' = lock
             /\ \E s \in Critical : pc' = [pc EXCEPT ![r] = s]

LEMMA ReturnInside ==
  ASSUME NEW r \in Requests, NEW out, Return(r, out)
  PROVE  \E s \in Critical : pc' = [pc EXCEPT ![r] = s]
BY DEF Return, Critical, InFlight, PcStates

LEMMA StepInside ==
  ASSUME pc \in [Requests -> PcStates], NEW r \in Requests,
         Step(r) \/ Cancel(r)
  PROVE  Acquire(r) \/ Release(r) \/ Inside(r)
<1> USE ReturnInside DEF Inside, Critical, InFlight, PcStates
<1>1. CASE ReadHead(r)  BY <1>1 DEF ReadHead
<1>2. CASE CheckOut(r)  BY <1>2 DEF CheckOut
<1>3. CASE StageChangeset(r)  BY <1>3 DEF StageChangeset
<1>4. CASE StageRevert(r)  BY <1>4 DEF StageRevert
<1>5. CASE CommitTree(r)  BY <1>5 DEF CommitTree
<1>6. CASE UpdateRef(r)  BY <1>6 DEF UpdateRef
<1>7. CASE PushOtherRef(r)  BY <1>7 DEF PushOtherRef
<1>8. CASE PushBranch(r)  BY <1>8 DEF PushBranch
<1>9. CASE RenameLookup(r)  BY <1>9 DEF RenameLookup
<1>10. CASE AttachWorktree(r)  BY <1>10 DEF AttachWorktree, RenameFailed
<1>11. CASE CommitTitle(r)  BY <1>11 DEF CommitTitle, RenameFailed
<1>12. CASE StoreRename(r)  BY <1>12 DEF StoreRename
<1>13. CASE PurgeLookup(r)  BY <1>13 DEF PurgeLookup
<1>14. CASE FilterBranch(r)  BY <1>14 DEF FilterBranch
<1>15. CASE EnsureBranchExists(r)  BY <1>15 DEF EnsureBranchExists
<1>16. CASE CollectGarbage(r)  BY <1>16 DEF CollectGarbage
<1>17. CASE SetArchived(r)  BY <1>17 DEF SetArchived
<1>18. CASE SetDeleted(r)  BY <1>18 DEF SetDeleted
<1>19. CASE Cancel(r)  BY <1>19 DEF Cancel
<1>20. QED
  BY <1>1, <1>2, <1>3, <1>4, <1>5, <1>6, <1>7, <1>8, <1>9, <1>10, <1>11,
     <1>12, <1>13, <1>14, <1>15, <1>16, <1>17, <1>18, <1>19 DEF Step

\* The lock excludes: what makes MutualExclusion inductive is the range of pc.
LEMMA ExclusionStep ==
  ASSUME pc \in [Requests -> PcStates], MutualExclusion, [Next]_vars
  PROVE  MutualExclusion'
<1> USE DEF MutualExclusion, Critical, InFlight, PcStates
<1>1. ASSUME NEW r \in Requests, Arrival(r)
      PROVE  MutualExclusion'
  <2>1. ASSUME NEW data, Arrive(r, data)
        PROVE  MutualExclusion'
    BY <2>1 DEF Arrive
  <2>2. QED
    BY <1>1, <2>1 DEF Arrival, ArriveChangeset, ArriveRevert, ArrivePush,
                      ArriveRename, ArrivePurge, ArriveAdmin
<1>2. ASSUME NEW r \in Requests, Step(r) \/ Cancel(r)
      PROVE  MutualExclusion'
  <2>1. CASE Acquire(r)
    BY <2>1, NoOneAssumption DEF Acquire
  <2>2. CASE Release(r)
    BY <2>2 DEF Release
  <2>3. CASE Inside(r)
    BY <2>3 DEF Inside
  <2>4. QED
    BY <1>2, <2>1, <2>2, <2>3, StepInside
<1>3. CASE Crash
  BY <1>3 DEF Crash
<1>4. CASE UNCHANGED vars
  BY <1>4 DEF vars
<1>5. QED
  BY <1>1, <1>2, <1>3, <1>4 DEF Next, Finished
----------------------------------------------------------------------------
(* Data: the steps keep the types and the links between commits.           *)

\* A new commit on existing ones; everything that was there stays.
LEMMA AppendObject ==
  ASSUME TypeOK, ObjectsLinked, NEW c \in Commit,
         c.parent \in DOMAIN object \cup {0}, object' = Append(object, c)
  PROVE  /\ object' \in Seq(Commit) /\ ObjectsLinked'
         /\ Len(object') = Len(object) + 1
         /\ DOMAIN object' = DOMAIN object \cup {Len(object) + 1}
         /\ Len(object) + 1 \in DOMAIN object'
         /\ \A i \in DOMAIN object : object'[i] = object[i]
         /\ object'[Len(object) + 1] = c
         /\ Seq(DOMAIN object) \subseteq Seq(DOMAIN object')
<1>1. object \in Seq(Commit)
  BY DEF TypeOK
<1>2. object' \in Seq(Commit) /\ Len(object') = Len(object) + 1
  BY <1>1
<1>3. /\ DOMAIN object' = DOMAIN object \cup {Len(object) + 1}
      /\ Len(object) + 1 \in DOMAIN object'
  BY <1>1, <1>2
<1>4. /\ \A i \in DOMAIN object : object'[i] = object[i]
      /\ object'[Len(object) + 1] = c
  BY <1>1
<1>5. ObjectsLinked'
  BY <1>3, <1>4 DEF ObjectsLinked
<1>6. Seq(DOMAIN object) \subseteq Seq(DOMAIN object')
  BY <1>3, SeqDef
<1>7. QED
  BY <1>2, <1>3, <1>4, <1>5, <1>6

\* The tip of a branch with commits is a commit, and so is its tree a tree.
LEMMA TipType ==
  ASSUME TypeOK, main # <<>>
  PROVE  Tip \in DOMAIN object /\ Tip \in Nat /\ TreeOf(Tip) \in Trees
<1>1. main \in Seq(DOMAIN object) /\ object \in Seq(Commit)
  BY DEF TypeOK
<1>2. Len(main) \in 1..Len(main) /\ DOMAIN object = 1..Len(object)
  BY <1>1
<1>3. Tip \in DOMAIN object
  BY <1>1, <1>2 DEF Tip
<1>4. object[Tip] \in Commit
  BY <1>1, <1>3
<1>5. QED
  BY <1>1, <1>2, <1>3, <1>4 DEF TreeOf, Commit

\* Commits are never changed.
ObjectsStay == /\ DOMAIN object \subseteq DOMAIN object'
               /\ \A c \in DOMAIN object : object'[c] = object[c]

\* What a request's step leaves as it was.
Frame(r) ==
  /\ pc[r] \in InFlight
  /\ \A s \in Requests \ {r} : pc'[s] = pc[s] /\ req'[s] = req[s]
  /\ req'[r].kind = req[r].kind /\ req'[r].base = req[r].base
  /\ mayWrite \subseteq mayWrite'
  /\ ObjectsStay

LEMMA BuildType ==
  ASSUME IInv, NEW r \in Requests,
         \/ ReadHead(r) \/ CheckOut(r) \/ StageChangeset(r) \/ StageRevert(r)
         \/ CommitTree(r) \/ UpdateRef(r)
  PROVE  TypeOK' /\ ObjectsLinked'
<1> USE DEF repo, meta
<1>0. /\ TypeOK /\ HeadIsStable /\ ObjectsLinked /\ RequestInv(r)
      /\ req \in [Requests -> Request] /\ pc \in [Requests -> PcStates]
      /\ req[r] \in Request
  BY DEF IInv, TypeOK
<1>1. ASSUME UNCHANGED <<meta, repo, lock, crashes, moves, mayWrite, erased>>,
             NEW q \in Request, req' = [req EXCEPT ![r] = q],
             NEW s \in PcStates, pc' = [pc EXCEPT ![r] = s]
      PROVE  TypeOK' /\ ObjectsLinked'
  BY <1>0, <1>1 DEF TypeOK, ObjectsLinked
<1>2. ASSUME UNCHANGED <<meta, repo, lock, crashes, moves, mayWrite, erased>>,
             NEW out \in Outcomes, Return(r, out)
      PROVE  TypeOK' /\ ObjectsLinked'
  <2>1. pc' \in [Requests -> PcStates] /\ req' \in [Requests -> Request]
    BY <1>0, <1>2, ReturnType
  <2>2. QED
    BY <1>0, <1>2, <2>1 DEF TypeOK, ObjectsLinked
<1>3. CASE ReadHead(r)
  <2>1. CASE HeadAnswer(r) # "none"
    BY <1>2, <1>3, <2>1 DEF ReadHead, HeadAnswer, Outcomes
  <2>2. CASE HeadAnswer(r) = "none"
    <3>1. main # <<>>
      BY <2>2 DEF HeadAnswer
    <3>2. [req[r] EXCEPT !.cur = Tip] \in Request
      BY <1>0, <3>1, TipType DEF Request
    <3>3. QED
      BY <1>0, <1>1, <1>3, <2>2, <3>2 DEF ReadHead, PcStates
  <2>3. QED
    BY <2>1, <2>2
<1>4. CASE CheckOut(r)
  <2>1. main # <<>>
    BY <1>0, <1>4 DEF CheckOut, HeadIsStable, Building
  <2>2. [req[r] EXCEPT !.tree = TreeOf(Tip)] \in Request
    BY <1>0, <2>1, TipType DEF Request
  <2>3. QED
    BY <1>0, <1>1, <1>4, <2>2 DEF CheckOut, PcStates
<1>5. CASE StageChangeset(r)
  <2>1. ASSUME NEW f \in Changesets
        PROVE  [req[r] EXCEPT !.tree = Overwrite(@, f), !.paths = DOMAIN f] \in Request
    BY <1>0, OverwriteType DEF Request
  <2>2. CASE Return(r, "rejected") \/ Return(r, "preview")
    BY <1>2, <1>5, <2>2 DEF StageChangeset, Outcomes
  <2>3. ASSUME NEW f \in Changesets,
               req' = [req EXCEPT ![r].tree = Overwrite(@, f),
                                  ![r].paths = DOMAIN f],
               pc' = [pc EXCEPT ![r] = "staged"]
        PROVE  TypeOK' /\ ObjectsLinked'
    BY <1>0, <1>1, <1>5, <2>1, <2>3 DEF StageChangeset, PcStates
  <2>4. QED
    BY <1>5, <2>2, <2>3 DEF StageChangeset
<1>6. CASE StageRevert(r)
  <2>1. req[r].base \in DOMAIN object /\ req[r].tree \in Trees
        /\ object[req[r].base].parent \in DOMAIN object \cup {0}
    BY <1>0, <1>6 DEF StageRevert, RequestInv, ObjectsLinked, Request
  <2>2. /\ Reversed(req[r].base, req[r].tree) \in Trees
        /\ Diff(req[r].base) \subseteq Paths
    BY <1>0, <2>1, ReversedType DEF TypeOK
  <2>3. [req[r] EXCEPT !.tree = Reversed(req[r].base, @),
                       !.paths = Diff(req[r].base)] \in Request
    BY <1>0, <2>2 DEF Request
  <2>4. CASE Reverses(req[r].base, req[r].tree)
    BY <1>0, <1>1, <1>6, <2>3, <2>4 DEF StageRevert, PcStates
  <2>5. CASE ~Reverses(req[r].base, req[r].tree)
    BY <1>2, <1>6, <2>5 DEF StageRevert, Outcomes
  <2>6. QED
    BY <2>4, <2>5
<1>7. CASE CommitTree(r)
  <2> DEFINE c == [parent |-> req[r].cur, tree |-> req[r].tree,
                   paths |-> req[r].paths]
  <2>1. req[r].cur \in DOMAIN object
    BY <1>0, <1>7, TipType DEF CommitTree, HeadIsStable, Building
  <2>2. c \in Commit /\ c.parent \in DOMAIN object \cup {0}
    BY <1>0, <2>1 DEF Commit, Request
  <2>3. object' = Append(object, c)
    BY <1>7 DEF CommitTree
  <2> HIDE DEF c
  <2>4. /\ object' \in Seq(Commit) /\ ObjectsLinked'
        /\ DOMAIN object' = DOMAIN object \cup {Len(object) + 1}
        /\ Seq(DOMAIN object) \subseteq Seq(DOMAIN object')
    BY <1>0, <2>2, <2>3, AppendObject
  <2>5. [req[r] EXCEPT !.commit = Len(object) + 1] \in Request
    <3>1. Len(object) + 1 \in Nat
      BY <1>0 DEF TypeOK
    <3>2. QED
      BY <1>0, <3>1 DEF Request
  <2>6. pc' \in [Requests -> PcStates] /\ req' \in [Requests -> Request]
    BY <1>0, <1>7, <2>5 DEF CommitTree, PcStates
  <2>7. QED
    BY <1>0, <1>7, <2>4, <2>6 DEF CommitTree, TypeOK
<1>8. CASE UpdateRef(r)
  <2>1. [req[r] EXCEPT !.commit = 0, !.out = "conflict"] \in Request
    BY <1>0 DEF Request, Outcomes
  <2>2. pc' \in [Requests -> PcStates] /\ req' \in [Requests -> Request]
    <3>1. CASE Return(r, "ok")
      BY <1>0, <3>1, ReturnType DEF Outcomes
    <3>2. CASE ~Return(r, "ok")
      BY <1>0, <1>8, <2>1, <3>2 DEF UpdateRef, PcStates
    <3>3. QED
      BY <3>1, <3>2
  <2>3. main' \in Seq(DOMAIN object)
    <3>1. main \in Seq(DOMAIN object) /\ req[r].commit \in DOMAIN object
      BY <1>0, <1>8 DEF UpdateRef, RequestInv, TypeOK
    <3>2. main' = Append(main, req[r].commit) \/ main' = main
      BY <1>8 DEF UpdateRef
    <3>3. QED
      BY <3>1, <3>2
  <2>4. moves' \in [Requests -> Nat] /\ erased' \subseteq Paths
    <3>1. moves \in [Requests -> Nat] /\ erased \subseteq Paths
      BY <1>0 DEF TypeOK
    <3>2. Moved(r) \/ moves' = moves
      BY <1>8 DEF UpdateRef
    <3>3. moves' \in [Requests -> Nat]
      BY <3>1, <3>2 DEF Moved
    <3>4. erased' \subseteq erased
      BY <1>8 DEF UpdateRef
    <3>5. QED
      BY <3>1, <3>3, <3>4
  <2>5. QED
    BY <1>0, <1>8, <2>2, <2>3, <2>4 DEF UpdateRef, TypeOK, ObjectsLinked
<1>9. QED
  BY <1>3, <1>4, <1>5, <1>6, <1>7, <1>8
\* One more move of the branch is counted.
LEMMA MovedType ==
  ASSUME moves \in [Requests -> Nat], NEW r \in Requests, Moved(r)
  PROVE  moves' \in [Requests -> Nat]
BY DEF Moved

LEMMA PushType ==
  ASSUME IInv, NEW r \in Requests, PushOtherRef(r) \/ PushBranch(r)
  PROVE  TypeOK' /\ ObjectsLinked'
<1> USE DEF repo, meta
<1>0. /\ TypeOK /\ ObjectsLinked
      /\ req \in [Requests -> Request] /\ pc \in [Requests -> PcStates]
      /\ req[r] \in Request /\ moves \in [Requests -> Nat]
      /\ main \in Seq(DOMAIN object) /\ object \in Seq(Commit)
  BY DEF IInv, TypeOK
<1>1. \A k \in DOMAIN main : main[k] \in DOMAIN object
  BY <1>0
<1>2. CASE PushOtherRef(r)
  <2>1. pc' \in [Requests -> PcStates] /\ req' \in [Requests -> Request]
    BY <1>0, <1>2, ReturnType DEF PushOtherRef, Outcomes
  <2>2. pinned' \subseteq DOMAIN object
    <3>1. PICK k \in DOMAIN main : pinned' = pinned \cup {main[i] : i \in 1..k}
      BY <1>2 DEF PushOtherRef
    <3>2. 1..k \subseteq DOMAIN main
      BY <1>0
    <3>3. QED
      BY <1>0, <1>1, <3>1, <3>2 DEF TypeOK
  <2>3. QED
    BY <1>0, <1>2, <2>1, <2>2 DEF PushOtherRef, TypeOK, ObjectsLinked
<1>3. ASSUME NEW k \in DOMAIN main
      PROVE  SubSeq(main, 1, k) \in Seq(DOMAIN object)
  BY <1>0, <1>3
<1>4. CASE /\ PushBranch(r)
           /\ UNCHANGED <<object, odb>>
           /\ erased' \subseteq erased
           /\ main' \in Seq(DOMAIN object)
           /\ moves' = moves \/ Moved(r)
           /\ \E out \in Outcomes : Return(r, out)
  <2>1. pc' \in [Requests -> PcStates] /\ req' \in [Requests -> Request]
    BY <1>0, <1>4, ReturnType
  <2>2. moves' \in [Requests -> Nat]
    BY <1>0, <1>4, MovedType
  <2>3. UNCHANGED <<meta, pinned, attached, lock, crashes, mayWrite>>
    BY <1>4 DEF PushBranch
  <2>4. QED
    BY <1>0, <1>4, <2>1, <2>2, <2>3 DEF TypeOK, ObjectsLinked
<1>5. ASSUME NEW k \in DOMAIN main, NEW c \in 1..(Len(object) + 1),
             IF c \in DOMAIN object
               THEN object[c].parent = main[k] /\ UNCHANGED object
               ELSE \E f \in Changesets :
                      object' = Append(object,
                        [parent |-> main[k], paths |-> DOMAIN f,
                         tree |-> Overwrite(TreeOf(main[k]), f)])
      PROVE  /\ object' \in Seq(Commit) /\ ObjectsLinked'
             /\ DOMAIN object \subseteq DOMAIN object' /\ c \in DOMAIN object'
             /\ \A i \in DOMAIN object : object'[i] = object[i]
             /\ Seq(DOMAIN object) \subseteq Seq(DOMAIN object')
  <2>1. CASE c \in DOMAIN object
    BY <1>0, <1>5, <2>1 DEF ObjectsLinked
  <2>2. CASE c \notin DOMAIN object
    <3>1. c = Len(object) + 1
      BY <1>0, <2>2
    <3>2. PICK f \in Changesets :
            object' = Append(object, [parent |-> main[k], paths |-> DOMAIN f,
                                      tree |-> Overwrite(TreeOf(main[k]), f)])
      BY <1>5, <2>2
    <3> DEFINE x == [parent |-> main[k], paths |-> DOMAIN f,
                     tree |-> Overwrite(TreeOf(main[k]), f)]
    <3>3. main[k] \in DOMAIN object /\ main[k] \in Nat
      BY <1>0, <1>1
    <3>4. TreeOf(main[k]) \in Trees
      <4>1. object[main[k]] \in Commit
        BY <1>0, <3>3
      <4>2. QED
        BY <4>1 DEF TreeOf, Commit
    <3>5. x \in Commit /\ x.parent \in DOMAIN object \cup {0}
      BY <3>3, <3>4, OverwriteType DEF Commit
    <3>6. object' = Append(object, x)
      BY <3>2
    <3> HIDE DEF x
    <3>7. QED
      BY <1>0, <3>1, <3>5, <3>6, AppendObject
  <2>3. QED
    BY <2>1, <2>2
<1>6. ASSUME PushBranch(r), main # <<>>, Tip = req[r].base,
             NEW k \in DOMAIN main, NEW c \in 1..(Len(object) + 1),
             IF c \in DOMAIN object
               THEN object[c].parent = main[k] /\ UNCHANGED object
               ELSE \E f \in Changesets :
                      object' = Append(object,
                        [parent |-> main[k], paths |-> DOMAIN f,
                         tree |-> Overwrite(TreeOf(main[k]), f)]),
             main' = Append(SubSeq(main, 1, k), c),
             Moved(r), odb' = odb \cup {c}, erased' = erased \ object'[c].paths,
             req' = [req EXCEPT ![r].commit = c, ![r].out = "ok"],
             pc' = [pc EXCEPT ![r] = "release"]
      PROVE  TypeOK' /\ ObjectsLinked'
  <2>1. /\ object' \in Seq(Commit) /\ ObjectsLinked'
        /\ DOMAIN object \subseteq DOMAIN object' /\ c \in DOMAIN object'
        /\ Seq(DOMAIN object) \subseteq Seq(DOMAIN object')
    BY <1>5, <1>6
  <2>2. main' \in Seq(DOMAIN object')
    BY <1>3, <1>6, <2>1
  <2>3. c \in Nat
    BY <1>0
  <2>4. [req[r] EXCEPT !.commit = c, !.out = "ok"] \in Request
    BY <1>0, <2>3 DEF Request, Outcomes
  <2>5. pc' \in [Requests -> PcStates] /\ req' \in [Requests -> Request]
    BY <1>0, <1>6, <2>4 DEF PcStates
  <2>6. moves' \in [Requests -> Nat]
    BY <1>0, <1>6, MovedType
  <2>7. UNCHANGED <<meta, pinned, attached, lock, crashes, mayWrite>>
    BY <1>6 DEF PushBranch
  <2>8. erased' \subseteq Paths /\ odb' \subseteq DOMAIN object'
    BY <1>0, <1>6, <2>1 DEF TypeOK
  <2>9. QED
    BY <1>0, <2>1, <2>2, <2>5, <2>6, <2>7, <2>8 DEF TypeOK
<1>7. CASE PushBranch(r)
  <2>1. CASE main = <<>> \/ Tip # req[r].base
    BY <1>0, <1>4, <1>7, <2>1 DEF PushBranch, Outcomes
  <2>2. CASE ~(main = <<>> \/ Tip # req[r].base)
    <3>1. PICK k \in DOMAIN main :
         \/ /\ main' = SubSeq(main, 1, k)
            /\ Moved(r)
            /\ Return(r, "ok")
            /\ UNCHANGED <<object, odb, erased>>
         \/ \E c \in 1..(Len(object) + 1) :
            /\ IF c \in DOMAIN object
                 THEN object[c].parent = main[k] /\ UNCHANGED object
                 ELSE \E f \in Changesets :
                        object' = Append(object,
                          [parent |-> main[k], paths |-> DOMAIN f,
                           tree |-> Overwrite(TreeOf(main[k]), f)])
            /\ main' = Append(SubSeq(main, 1, k), c)
            /\ Moved(r)
            /\ odb' = odb \cup {c}
            /\ erased' = erased \ object'[c].paths
            /\ req' = [req EXCEPT ![r].commit = c, ![r].out = "ok"]
            /\ pc' = [pc EXCEPT ![r] = "release"]
      BY <1>7, <2>2 DEF PushBranch
    <3>2. CASE main' = SubSeq(main, 1, k) /\ Moved(r) /\ Return(r, "ok")
               /\ UNCHANGED <<object, odb, erased>>
      BY <1>3, <1>4, <1>7, <3>2 DEF Outcomes
    <3>3. QED
      BY <1>6, <1>7, <2>2, <3>1, <3>2
  <2>3. QED
    BY <2>1, <2>2
<1>8. QED
  BY <1>2, <1>7
LEMMA RenameType ==
  ASSUME IInv, NEW r \in Requests,
         RenameLookup(r) \/ AttachWorktree(r) \/ CommitTitle(r) \/ StoreRename(r)
  PROVE  TypeOK' /\ ObjectsLinked'
<1> USE DEF repo, meta
<1>0. /\ TypeOK /\ ObjectsLinked /\ name \in Names
      /\ req \in [Requests -> Request] /\ pc \in [Requests -> PcStates]
      /\ req[r] \in Request /\ moves \in [Requests -> Nat]
      /\ object \in Seq(Commit) /\ main \in Seq(DOMAIN object)
  BY DEF IInv, TypeOK
<1>1. ASSUME UNCHANGED <<row, archived, object, odb, main, pinned, lock,
                         crashes, moves, mayWrite, erased>>,
             name' \in Names, attached' \in BOOLEAN,
             pc' \in [Requests -> PcStates], req' \in [Requests -> Request]
      PROVE  TypeOK' /\ ObjectsLinked'
  BY <1>0, <1>1 DEF TypeOK, ObjectsLinked
<1>2. ASSUME NEW out \in Outcomes, Return(r, out)
      PROVE  pc' \in [Requests -> PcStates] /\ req' \in [Requests -> Request]
  BY <1>0, <1>2, ReturnType
<1>3. ASSUME RenameFailed(r)
      PROVE  pc' \in [Requests -> PcStates] /\ req' \in [Requests -> Request]
  <2>1. (IF req[r].out = "none" THEN "error" ELSE req[r].out) \in Outcomes
    BY <1>0 DEF Request, Outcomes
  <2>2. QED
    BY <1>2, <1>3, <2>1 DEF RenameFailed
<1>4. CASE RenameLookup(r)
  <2>1. [req[r] EXCEPT !.prior = name] \in Request
    BY <1>0 DEF Request
  <2>2. pc' \in [Requests -> PcStates] /\ req' \in [Requests -> Request]
    <3>1. CASE Return(r, "notfound") \/ Return(r, "ok")
      BY <1>2, <3>1 DEF Outcomes
    <3>2. CASE ~(Return(r, "notfound") \/ Return(r, "ok"))
      BY <1>0, <1>4, <2>1, <3>2 DEF RenameLookup, PcStates
    <3>3. QED
      BY <3>1, <3>2
  <2>3. QED
    BY <1>0, <1>1, <1>4, <2>2 DEF RenameLookup, TypeOK
<1>5. CASE AttachWorktree(r)
  <2>1. CASE attached \/ main = <<>>
    BY <1>0, <1>1, <1>3, <1>5, <2>1 DEF AttachWorktree, TypeOK
  <2>2. CASE ~(attached \/ main = <<>>)
    <3>1. Titled(TreeOf(Tip), req[r].title) \in Trees
      BY <1>0, <2>2, TipType, TitledType DEF Request
    <3>2. [req[r] EXCEPT !.tree = Titled(TreeOf(Tip), req[r].title)] \in Request
      BY <1>0, <3>1 DEF Request
    <3>3. pc' \in [Requests -> PcStates] /\ req' \in [Requests -> Request]
      BY <1>0, <1>5, <2>2, <3>2 DEF AttachWorktree, PcStates
    <3>4. QED
      BY <1>0, <1>1, <1>5, <2>2, <3>3 DEF AttachWorktree
  <2>3. QED
    BY <2>1, <2>2
<1>6. CASE CommitTitle(r)
  <2>1. CASE main = <<>> \/ req[r].tree = TreeOf(Tip)
    BY <1>0, <1>1, <1>3, <1>6, <2>1 DEF CommitTitle
  <2>2. CASE ~(main = <<>> \/ req[r].tree = TreeOf(Tip))
    <3> DEFINE c == [parent |-> Tip, tree |-> req[r].tree, paths |-> {Readme}]
               k == Len(object) + 1
    <3>1. c \in Commit /\ c.parent \in DOMAIN object \cup {0}
      BY <1>0, <2>2, TipType DEF Commit, Request, Paths
    <3>2. object' = Append(object, c)
      BY <1>6, <2>2 DEF CommitTitle
    <3> HIDE DEF c
    <3>3. /\ object' \in Seq(Commit) /\ ObjectsLinked' /\ k \in DOMAIN object'
          /\ DOMAIN object \subseteq DOMAIN object'
          /\ Seq(DOMAIN object) \subseteq Seq(DOMAIN object')
      BY <1>0, <3>1, <3>2, AppendObject
    <3>4. k \in Nat
      BY <1>0
    <3>5. /\ main' = Append(main, k) /\ odb' = odb \cup {k} /\ Moved(r)
          /\ erased' = erased \ {Readme} /\ attached' = FALSE
          /\ req' = [req EXCEPT ![r].commit = k]
          /\ pc' = [pc EXCEPT ![r] = IF req[r].out = "none" THEN "titled"
                                     ELSE "release"]
          /\ UNCHANGED <<meta, pinned, lock, crashes, mayWrite>>
      BY <1>6, <2>2 DEF CommitTitle
    <3> HIDE DEF k
    <3>6. [req[r] EXCEPT !.commit = k] \in Request
      BY <1>0, <3>4 DEF Request
    <3>7. pc' \in [Requests -> PcStates] /\ req' \in [Requests -> Request]
      BY <1>0, <3>5, <3>6 DEF PcStates
    <3>8. main' \in Seq(DOMAIN object')
      BY <1>0, <3>3, <3>5
    <3>9. moves' \in [Requests -> Nat]
      BY <1>0, <3>5, MovedType
    <3>10. QED
      BY <1>0, <3>3, <3>5, <3>7, <3>8, <3>9 DEF TypeOK
  <2>3. QED
    BY <2>1, <2>2
<1>7. CASE StoreRename(r)
  <2>1. [req[r] EXCEPT !.title = req[r].prior, !.out = "conflict"] \in Request
    BY <1>0 DEF Request, Outcomes
  <2>2. CASE name' = req[r].title /\ Return(r, "ok")
    <3>1. name' \in Names
      BY <1>0, <2>2 DEF Request
    <3>2. QED
      BY <1>0, <1>1, <1>2, <1>7, <2>2, <3>1 DEF StoreRename, Outcomes, TypeOK
  <2>3. CASE ~(name' = req[r].title /\ Return(r, "ok"))
    <3>1. pc' \in [Requests -> PcStates] /\ req' \in [Requests -> Request]
      BY <1>0, <1>7, <2>1, <2>3 DEF StoreRename, PcStates
    <3>2. QED
      BY <1>0, <1>1, <1>7, <2>3, <3>1 DEF StoreRename, TypeOK
  <2>4. QED
    BY <2>2, <2>3
<1>8. QED
  BY <1>4, <1>5, <1>6, <1>7
\* The commits that keep their sha are among those that are kept, and there
\* are no more of these than the branch has.
LEMMA KeptBounds ==
  ASSUME main \in Seq(DOMAIN object), NEW P
  PROVE  /\ Kept(P) \subseteq DOMAIN main /\ SameSha(P) \subseteq Kept(P)
         /\ Cardinality(Kept(P)) \in 0..Len(main)
         /\ Cardinality(SameSha(P)) \in 0..Cardinality(Kept(P))
<1>1. Kept(P) \subseteq DOMAIN main
  BY DEF Kept
<1>2. SameSha(P) \subseteq Kept(P)
  BY DEF SameSha
<1>3. Len(main) \in Nat /\ DOMAIN main = 1..Len(main)
  OBVIOUS
<1>4. IsFiniteSet(DOMAIN main) /\ Cardinality(DOMAIN main) = Len(main)
  <2>1. /\ IsFiniteSet(1..Len(main))
        /\ Cardinality(1..Len(main)) = IF 1 > Len(main) THEN 0 ELSE Len(main) - 1 + 1
    BY <1>3, FS_Interval
  <2>2. QED
    BY <1>3, <2>1
<1>5. IsFiniteSet(Kept(P)) /\ Cardinality(Kept(P)) <= Len(main)
  BY <1>1, <1>4, FS_Subset
<1>6. IsFiniteSet(SameSha(P)) /\ Cardinality(SameSha(P)) <= Cardinality(Kept(P))
  BY <1>2, <1>5, FS_Subset
<1>7. Cardinality(Kept(P)) \in Nat /\ Cardinality(SameSha(P)) \in Nat
  BY <1>5, <1>6, FS_CardinalityType
<1>8. QED
  BY <1>1, <1>2, <1>3, <1>5, <1>6, <1>7

LEMMA PurgeType ==
  ASSUME IInv, NEW r \in Requests,
         \/ PurgeLookup(r) \/ FilterBranch(r)
         \/ EnsureBranchExists(r) \/ CollectGarbage(r)
  PROVE  TypeOK' /\ ObjectsLinked' /\ ObjectsStay
<1> USE DEF repo, meta
<1>0. /\ TypeOK /\ ObjectsLinked
      /\ req \in [Requests -> Request] /\ pc \in [Requests -> PcStates]
      /\ req[r] \in Request /\ moves \in [Requests -> Nat]
      /\ object \in Seq(Commit) /\ main \in Seq(DOMAIN object)
  BY DEF IInv, TypeOK
<1>1. \A k \in DOMAIN main : main[k] \in DOMAIN object /\ main[k] \in Nat
  BY <1>0
<1>2. CASE PurgeLookup(r)
  <2>1. pc' \in [Requests -> PcStates] /\ req' \in [Requests -> Request]
    <3>1. CASE \E out \in Outcomes : Return(r, out)
      BY <1>0, <3>1, ReturnType
    <3>2. CASE ~\E out \in Outcomes : Return(r, out)
      BY <1>0, <1>2, <3>2 DEF PurgeLookup, PcStates, Outcomes
    <3>3. QED
      BY <3>1, <3>2
  <2>2. QED
    BY <1>0, <1>2, <2>1 DEF PurgeLookup, TypeOK, ObjectsLinked, ObjectsStay
<1>3. CASE FilterBranch(r)
  <2> DEFINE P == req[r].purge
             n == Cardinality(Kept(P))
             same == Cardinality(SameSha(P))
             top == Len(object) + n - same
  <2>1. PICK o \in Ascending(n, Kept(P)) :
          /\ main' = [i \in 1..n |-> RewrittenId(P, i)]
          /\ object' = object \o RewrittenCommits(P, o)
          /\ odb' = odb \cup {RewrittenId(P, i) : i \in 1..n}
          /\ erased' = erased \cup P
    BY <1>3 DEF FilterBranch
  <2>2. /\ n \in Nat /\ same \in Nat /\ same <= n /\ n <= Len(main)
        /\ Len(object) \in Nat /\ Len(main) \in Nat
        /\ DOMAIN main = 1..Len(main) /\ DOMAIN object = 1..Len(object)
    BY <1>0, KeptBounds
  <2>3. \A j \in 1..n : o[j] \in DOMAIN main
    BY <1>0, KeptBounds DEF Ascending
  <2>4. P \subseteq Paths
    BY <1>0 DEF Request
  <2>5. \A i : RewrittenId(P, i) = IF i <= same THEN main[i]
                                   ELSE Len(object) + i - same
    BY DEF RewrittenId
  <2>6. RewrittenCommits(P, o) =
          [k \in 1..(n - same) |-> RewrittenCommit(P, o, same + k)]
    BY DEF RewrittenCommits
  <2> HIDE DEF P, n, same
  <2>7. \A i \in 1..n : RewrittenId(P, i) \in 1..top
    <3> SUFFICES ASSUME NEW i \in 1..n
                 PROVE  RewrittenId(P, i) \in 1..top
      OBVIOUS
    <3>1. CASE i <= same
      <4>1. main[i] \in 1..Len(object)
        BY <1>1, <2>2
      <4>2. QED
        BY <2>2, <2>5, <3>1, <4>1
    <3>2. CASE ~(i <= same)
      BY <2>2, <2>5, <3>2
    <3>3. QED
      BY <3>1, <3>2
  <2>8. ASSUME NEW i \in 1..n
        PROVE  /\ RewrittenCommit(P, o, i) \in Commit
               /\ RewrittenCommit(P, o, i).parent \in 0..top
    <3>1. o[i] \in DOMAIN main /\ main[o[i]] \in DOMAIN object
      BY <1>1, <2>3
    <3>2. object[main[o[i]]] \in Commit
      BY <1>0, <3>1
    <3>3. TreeOf(main[o[i]]) \in Trees /\ object[main[o[i]]].paths \subseteq Paths
      BY <3>2 DEF TreeOf, Commit
    <3>4. Stripped(P)[o[i]] \in Trees
      BY <3>1, <3>3, StripType DEF Stripped
    <3>5. i # 1 => i - 1 \in 1..n
      BY <2>2
    <3>6. (IF i = 1 THEN 0 ELSE RewrittenId(P, i - 1)) \in 0..top
      <4>1. CASE i = 1
        BY <2>2, <4>1
      <4>2. CASE i # 1
        <5>1. RewrittenId(P, i - 1) \in 1..top
          BY <2>7, <3>5, <4>2
        <5>2. QED
          BY <2>2, <4>2, <5>1
      <4>3. QED
        BY <4>1, <4>2
    <3>7. (IF i = 1 THEN 0 ELSE RewrittenId(P, i - 1)) \in Nat
      BY <2>2, <3>6
    <3>8. QED
      BY <3>3, <3>4, <3>6, <3>7 DEF RewrittenCommit, Commit
  <2> DEFINE fresh == RewrittenCommits(P, o)
  <2>9. fresh \in [1..(n - same) -> Commit]
    <3>1. \A k \in 1..(n - same) : same + k \in 1..n
      BY <2>2
    <3>2. QED
      BY <2>6, <2>8, <3>1
  <2>10. fresh \in Seq(Commit) /\ Len(fresh) = n - same
    <3>1. n - same \in Nat
      BY <2>2
    <3> HIDE DEF fresh
    <3>2. fresh \in Seq(Commit)
      BY <2>9, <3>1, SeqDef
    <3>3. QED
      BY <2>9, <3>1, <3>2
  <2>11. \A k \in 1..(n - same) : fresh[k].parent \in 0..top
    <3>1. \A k \in 1..(n - same) : same + k \in 1..n
      BY <2>2
    <3>2. QED
      BY <2>6, <2>8, <3>1
  <2>12. object' = object \o fresh
    BY <2>1
  <2> HIDE DEF fresh
  <2>13. /\ object \o fresh \in Seq(Commit)
         /\ Len(object \o fresh) = Len(object) + Len(fresh)
         /\ \A i \in 1..Len(object) + Len(fresh) : (object \o fresh)[i] =
               IF i <= Len(object) THEN object[i] ELSE fresh[i - Len(object)]
    BY <1>0, <2>10, ConcatProperties
  <2>14. Len(object) + Len(fresh) = top
    BY <2>2, <2>10
  <2>15. /\ object' \in Seq(Commit) /\ DOMAIN object' = 1..top
         /\ \A i \in 1..top : object'[i] =
               IF i <= Len(object) THEN object[i] ELSE fresh[i - Len(object)]
    BY <2>12, <2>13, <2>14
  <2>16. main' \in Seq(DOMAIN object')
    <3>1. main' \in [1..n -> DOMAIN object']
      BY <2>1, <2>7, <2>15
    <3>2. QED
      BY <2>2, <3>1, SeqDef
  <2>17. ObjectsLinked'
    <3> SUFFICES ASSUME NEW c \in 1..top
                 PROVE  object'[c].parent \in 0..top
      BY <2>2, <2>15 DEF ObjectsLinked
    <3>1. CASE c <= Len(object)
      <4>1. object[c].parent \in 0..Len(object)
        BY <1>0, <2>2, <3>1 DEF ObjectsLinked
      <4>2. QED
        BY <2>2, <2>15, <3>1, <4>1
    <3>2. CASE ~(c <= Len(object))
      <4>1. c - Len(object) \in 1..(n - same)
        BY <2>2, <3>2
      <4>2. QED
        BY <2>11, <2>15, <3>2, <4>1
    <3>3. QED
      BY <3>1, <3>2
  <2>18. DOMAIN object \subseteq DOMAIN object'
    BY <2>2, <2>15
  <2>19. {RewrittenId(P, i) : i \in 1..n} \subseteq DOMAIN object'
    BY <2>7, <2>15
  <2>20. odb' \subseteq DOMAIN object'
    BY <1>0, <2>1, <2>18, <2>19 DEF TypeOK
  <2>21. erased' \subseteq Paths
    BY <1>0, <2>1, <2>4 DEF TypeOK
  <2>22. /\ moves' \in [Requests -> Nat] /\ pc' \in [Requests -> PcStates]
         /\ UNCHANGED <<meta, pinned, attached, lock, req, crashes, mayWrite>>
    BY <1>0, <1>3, MovedType DEF FilterBranch, PcStates
  <2>23. ObjectsStay
    BY <2>2, <2>15, <2>18 DEF ObjectsStay
  <2>24. QED
    BY <1>0, <2>15, <2>16, <2>17, <2>18, <2>20, <2>21, <2>22, <2>23 DEF TypeOK
<1>4. CASE EnsureBranchExists(r)
  <2> DEFINE c == [parent |-> 0, tree |-> EmptyTree, paths |-> {}]
             k == Len(object) + 1
  <2>1. c \in Commit /\ c.parent \in DOMAIN object \cup {0}
    BY EmptyTreeType DEF Commit
  <2>2. object' = Append(object, c)
    BY <1>4 DEF EnsureBranchExists
  <2> HIDE DEF c
  <2>3. /\ object' \in Seq(Commit) /\ ObjectsLinked' /\ k \in DOMAIN object'
        /\ ObjectsStay
    BY <1>0, <2>1, <2>2, AppendObject DEF ObjectsStay
  <2>4. main' = <<k>> /\ odb' = odb \cup {k}
    BY <1>4 DEF EnsureBranchExists
  <2> HIDE DEF k
  <2>5. main' \in Seq(DOMAIN object')
    BY <2>3, <2>4
  <2>6. moves' \in [Requests -> Nat]
    BY <1>0, <1>4, MovedType DEF EnsureBranchExists
  <2>7. QED
    BY <1>0, <1>4, <2>3, <2>4, <2>5, <2>6
       DEF EnsureBranchExists, TypeOK, ObjectsStay
<1>5. CASE CollectGarbage(r)
  <2>1. pc' \in [Requests -> PcStates] /\ req' \in [Requests -> Request]
    BY <1>0, <1>5, ReturnType DEF CollectGarbage, Outcomes
  <2>2. odb' \subseteq DOMAIN object
    BY <1>0, <1>1, <1>5 DEF CollectGarbage, TypeOK
  <2>3. QED
    BY <1>0, <1>5, <2>1, <2>2 DEF CollectGarbage, TypeOK, ObjectsLinked, ObjectsStay
<1>6. QED
  BY <1>2, <1>3, <1>4, <1>5
LEMMA LockAndRowType ==
  ASSUME IInv, NEW r \in Requests,
         \/ Acquire(r) \/ Release(r) \/ SetArchived(r) \/ SetDeleted(r) \/ Cancel(r)
  PROVE  TypeOK' /\ ObjectsLinked'
<1> USE DEF repo, meta
<1>0. /\ TypeOK /\ ObjectsLinked
      /\ req \in [Requests -> Request] /\ pc \in [Requests -> PcStates]
      /\ req[r] \in Request
  BY DEF IInv, TypeOK
<1>1. ASSUME row' \in {"live", "deleted"}, archived' \in BOOLEAN,
             UNCHANGED <<name, object, odb, main, pinned, crashes, moves, erased>>,
             attached' \in BOOLEAN, lock' \in Requests \cup {NoOne},
             mayWrite' \subseteq Requests,
             pc' \in [Requests -> PcStates], req' \in [Requests -> Request]
      PROVE  TypeOK' /\ ObjectsLinked'
  BY <1>0, <1>1 DEF TypeOK, ObjectsLinked
<1>2. ASSUME NEW out \in Outcomes, Return(r, out)
      PROVE  pc' \in [Requests -> PcStates] /\ req' \in [Requests -> Request]
  BY <1>0, <1>2, ReturnType
<1>3. CASE Acquire(r)
  <2>1. pc' \in [Requests -> PcStates]
    BY <1>0, <1>3 DEF Acquire, PcStates
  <2>2. QED
    BY <1>0, <1>1, <1>3, <2>1 DEF Acquire, TypeOK
<1>4. CASE Release(r)
  <2>1. pc' \in [Requests -> PcStates]
    BY <1>0, <1>4 DEF Release, PcStates
  <2>2. [req[r] EXCEPT !.cur = 0, !.tree = EmptyTree, !.paths = {}] \in Request
    BY <1>0, EmptyTreeType DEF Request
  <2>3. req' \in [Requests -> Request]
    BY <1>0, <1>4, <2>2 DEF Release
  <2>4. QED
    BY <1>0, <1>1, <1>4, <2>1, <2>3 DEF Release, TypeOK
<1>5. ASSUME Witness
      PROVE  mayWrite' \subseteq Requests
  BY <1>0, <1>5 DEF Witness, TypeOK
<1>6. CASE SetArchived(r)
  <2>1. pc' \in [Requests -> PcStates] /\ req' \in [Requests -> Request]
    BY <1>2, <1>6 DEF SetArchived, Outcomes
  <2>2. QED
    BY <1>0, <1>1, <1>5, <1>6, <2>1 DEF SetArchived, TypeOK
<1>7. CASE SetDeleted(r)
  <2>1. pc' \in [Requests -> PcStates] /\ req' \in [Requests -> Request]
    BY <1>2, <1>7 DEF SetDeleted, Outcomes
  <2>2. QED
    BY <1>0, <1>1, <1>5, <1>7, <2>1 DEF SetDeleted, TypeOK
<1>8. CASE Cancel(r)
  <2>1. /\ [req[r] EXCEPT !.commit = 0, !.out = "lost"] \in Request
        /\ [req[r] EXCEPT !.title = req[r].prior, !.out = "lost"] \in Request
    BY <1>0 DEF Request, Outcomes
  <2>2. pc' \in [Requests -> PcStates] /\ req' \in [Requests -> Request]
    <3>1. CASE Return(r, "lost")
      BY <1>2, <3>1 DEF Outcomes
    <3>2. CASE ~Return(r, "lost")
      BY <1>0, <1>8, <2>1, <3>2 DEF Cancel, PcStates
    <3>3. QED
      BY <3>1, <3>2
  <2>3. QED
    BY <1>0, <1>1, <1>8, <2>2 DEF Cancel, TypeOK
<1>9. QED
  BY <1>3, <1>4, <1>6, <1>7, <1>8

LEMMA CrashType ==
  ASSUME IInv, Crash
  PROVE  TypeOK' /\ ObjectsLinked'
<1> USE DEF repo, meta
<1>1. /\ TypeOK /\ ObjectsLinked
      /\ req \in [Requests -> Request] /\ pc \in [Requests -> PcStates]
      /\ main \in Seq(DOMAIN object)
  BY DEF IInv, TypeOK
<1>2. \A r \in Requests :
        [req[r] EXCEPT !.out = "lost", !.cur = 0, !.tree = EmptyTree,
                       !.paths = {}] \in Request
  <2>1. "lost" \in Outcomes
    BY DEF Outcomes
  <2>2. ASSUME NEW q \in Request
        PROVE  [q EXCEPT !.out = "lost", !.cur = 0, !.tree = EmptyTree,
                         !.paths = {}] \in Request
    BY <2>1, EmptyTreeType DEF Request
  <2>3. QED
    BY <1>1, <2>2
<1>3. req' \in [Requests -> Request]
  BY <1>1, <1>2 DEF Crash
<1>4. pc' \in [Requests -> PcStates]
  BY <1>1 DEF Crash, PcStates
<1>5. \A i \in DOMAIN main : main[i] \in DOMAIN object
  BY <1>1
<1>6. pinned' \subseteq DOMAIN object
  BY <1>1, <1>5 DEF Crash, TypeOK
<1>7. crashes' \in Nat
  <2>1. crashes \in Nat
    BY <1>1 DEF TypeOK
  <2>2. crashes' = crashes + 1
    BY DEF Crash
  <2>3. QED
    BY <2>1, <2>2
<1>8. QED
  BY <1>1, <1>3, <1>4, <1>6, <1>7 DEF Crash, TypeOK, ObjectsLinked
----------------------------------------------------------------------------
(* What a step does to its own request and leaves to the others.           *)

LEMMA StepType ==
  ASSUME IInv, NEW r \in Requests, Step(r) \/ Cancel(r)
  PROVE  TypeOK' /\ ObjectsLinked'
BY BuildType, PushType, RenameType, PurgeType, LockAndRowType DEF Step

LEMMA ReturnFrame ==
  ASSUME req \in [Requests -> Request], pc \in [Requests -> PcStates],
         NEW r \in Requests, NEW out, Return(r, out)
  PROVE  /\ \A s \in Requests \ {r} : pc'[s] = pc[s] /\ req'[s] = req[s]
         /\ req'[r].kind = req[r].kind /\ req'[r].base = req[r].base
BY DEF Return, Request

LEMMA StepFrame ==
  ASSUME IInv, NEW r \in Requests, Step(r) \/ Cancel(r)
  PROVE  Frame(r)
<1> USE DEF repo, meta, Frame, InFlight, PcStates
<1>0. /\ req \in [Requests -> Request] /\ pc \in [Requests -> PcStates]
      /\ TypeOK /\ ObjectsLinked
  BY DEF IInv, TypeOK
<1> HIDE DEF PcStates
<1>a. \A out : Return(r, out) =>
        /\ \A s \in Requests \ {r} : pc'[s] = pc[s] /\ req'[s] = req[s]
        /\ req'[r].kind = req[r].kind /\ req'[r].base = req[r].base
  BY <1>0, ReturnFrame
<1>b. ASSUME UNCHANGED object
      PROVE  ObjectsStay
  BY <1>b DEF ObjectsStay
<1>c. ASSUME NEW x, object' = Append(object, x)
      PROVE  ObjectsStay
  <2>1. object \in Seq(Commit)
    BY <1>0 DEF TypeOK
  <2>2. QED
    BY <1>c, <2>1 DEF ObjectsStay
<1> USE <1>0, <1>a, <1>b DEF Request, PcStates
<1>1. CASE Acquire(r)  BY <1>1 DEF Acquire
<1>2. CASE Release(r)  BY <1>2 DEF Release
<1>3. CASE ReadHead(r)  BY <1>3 DEF ReadHead
<1>4. CASE CheckOut(r)  BY <1>4 DEF CheckOut
<1>5. CASE StageChangeset(r)
  <2>1. pc[r] = "checkedout" /\ mayWrite' = mayWrite /\ UNCHANGED object
    BY <1>5 DEF StageChangeset
  <2>2. ObjectsStay
    BY <1>b, <2>1
  <2>3. CASE \E out : Return(r, out)
    BY <2>1, <2>2, <2>3
  <2>4. CASE ~\E out : Return(r, out)
    <3>1. PICK f \in Changesets :
            req' = [req EXCEPT ![r].tree = Overwrite(@, f), ![r].paths = DOMAIN f]
      BY <1>5, <2>4 DEF StageChangeset
    <3>2. pc' = [pc EXCEPT ![r] = "staged"]
      BY <1>5, <2>4 DEF StageChangeset
    <3>3. /\ \A s \in Requests \ {r} : pc'[s] = pc[s] /\ req'[s] = req[s]
          /\ req'[r].kind = req[r].kind /\ req'[r].base = req[r].base
      BY <3>1, <3>2
    <3>4. QED
      BY <2>1, <2>2, <3>3
  <2>5. QED
    BY <2>3, <2>4
<1>6. CASE StageRevert(r)  BY <1>6 DEF StageRevert
<1>7. CASE UpdateRef(r)  BY <1>7 DEF UpdateRef
<1>8. CASE PushOtherRef(r)  BY <1>8 DEF PushOtherRef
<1>9. CASE RenameLookup(r)  BY <1>9 DEF RenameLookup
<1>10. CASE AttachWorktree(r)  BY <1>10 DEF AttachWorktree, RenameFailed
<1>11. CASE StoreRename(r)  BY <1>11 DEF StoreRename
<1>12. CASE PurgeLookup(r)  BY <1>12, PurgeType DEF PurgeLookup
<1>13. CASE FilterBranch(r)  BY <1>13, PurgeType DEF FilterBranch
<1>14. CASE EnsureBranchExists(r)  BY <1>14, PurgeType DEF EnsureBranchExists
<1>15. CASE CollectGarbage(r)  BY <1>15, PurgeType DEF CollectGarbage
<1>16. CASE SetArchived(r)  BY <1>16 DEF SetArchived, Witness
<1>17. CASE SetDeleted(r)  BY <1>17 DEF SetDeleted, Witness
<1>18. CASE Cancel(r)  BY <1>18 DEF Cancel
<1>19. CASE CommitTree(r)
  <2>1. ObjectsStay
    BY <1>c, <1>19 DEF CommitTree
  <2>2. QED
    BY <1>19, <2>1 DEF CommitTree
<1>20. CASE CommitTitle(r)
  <2>1. ObjectsStay
    BY <1>c, <1>20 DEF CommitTitle
  <2>2. QED
    BY <1>20, <2>1 DEF CommitTitle, RenameFailed
<1>21. CASE PushBranch(r)
  <2>1. ObjectsStay
    BY <1>c, <1>21 DEF PushBranch
  <2>2. pc[r] = "locked" /\ mayWrite' = mayWrite
    BY <1>21 DEF PushBranch
  <2>3. \/ \E out : Return(r, out)
        \/ \E c : /\ req' = [req EXCEPT ![r].commit = c, ![r].out = "ok"]
                  /\ pc' = [pc EXCEPT ![r] = "release"]
    BY <1>21 DEF PushBranch
  <2>4. CASE \E out : Return(r, out)
    BY <2>1, <2>2, <2>4
  <2>5. ASSUME NEW c, req' = [req EXCEPT ![r].commit = c, ![r].out = "ok"],
               pc' = [pc EXCEPT ![r] = "release"]
        PROVE  Frame(r)
    BY <2>1, <2>2, <2>5
  <2>6. QED
    BY <2>3, <2>4, <2>5
<1>22. QED
  BY <1>1, <1>2, <1>3, <1>4, <1>5, <1>6, <1>7, <1>8, <1>9, <1>10, <1>11,
     <1>12, <1>13, <1>14, <1>15, <1>16, <1>17, <1>18, <1>19, <1>20, <1>21
     DEF Step
----------------------------------------------------------------------------
(* The invariant of one request, kept by its own steps and by those of the *)
(* others.                                                                 *)

Own(r) ==
  /\ RequestInv(r)
  /\ pc[r] \in Building => main # <<>> /\ Tip = req[r].cur
  /\ req[r].kind = "changeset" /\ req[r].out = "ok" =>
       object[req[r].commit].parent = req[r].base
  /\ req[r].kind \in {"changeset", "revert", "push"} /\ req[r].out = "ok" =>
       r \in mayWrite

LEMMA IInvParts ==
  IInv <=> /\ TypeOK /\ MutualExclusion /\ ObjectsLinked
           /\ \A r \in Requests : Own(r)
BY DEF IInv, Own, HeadIsStable, ChangesetOnItsBase, WritesOverlapOpenProject

LEMMA OtherStep ==
  ASSUME IInv, NEW r \in Requests, Step(r) \/ Cancel(r),
         NEW s \in Requests \ {r}
  PROVE  Own(s)'
<1>1. /\ Own(s) /\ MutualExclusion /\ pc \in [Requests -> PcStates]
  BY IInvParts DEF TypeOK
<1>2. /\ pc'[s] = pc[s] /\ req'[s] = req[s] /\ mayWrite \subseteq mayWrite'
      /\ DOMAIN object \subseteq DOMAIN object'
      /\ \A c \in DOMAIN object : object'[c] = object[c]
  BY StepFrame DEF Frame, ObjectsStay
<1>3. pc[s] \in Building => main' = main
  <2>1. CASE Acquire(r) \/ Release(r)
    BY <2>1 DEF Acquire, Release, repo
  <2>2. CASE Inside(r)
    BY <1>1, <2>2 DEF Inside, MutualExclusion, Critical, InFlight, PcStates, Building
  <2>3. QED
    BY <1>1, <2>1, <2>2, StepInside
<1>4. RequestInv(s)'
  BY <1>1, <1>2 DEF Own, RequestInv
<1>5. pc'[s] \in Building => main' # <<>> /\ Tip' = req'[s].cur
  BY <1>1, <1>2, <1>3 DEF Own, Tip
<1>6. req'[s].kind = "changeset" /\ req'[s].out = "ok" =>
        object'[req'[s].commit].parent = req'[s].base
  BY <1>1, <1>2 DEF Own, RequestInv
<1>7. req'[s].kind \in {"changeset", "revert", "push"} /\ req'[s].out = "ok" =>
        s \in mayWrite'
  BY <1>1, <1>2 DEF Own
<1>8. QED
  BY <1>4, <1>5, <1>6, <1>7 DEF Own

\* A return from a critical step leaves nothing to keep but the answer.
LEMMA ReturnOwn ==
  ASSUME IInv, NEW r \in Requests, Step(r), NEW out \in Outcomes, Return(r, out),
         out = "ok" /\ req[r].kind = "changeset" =>
           /\ req[r].commit \in DOMAIN object
           /\ object[req[r].commit].parent = req[r].base
  PROVE  Own(r)'
<1>1. /\ Own(r) /\ pc \in [Requests -> PcStates] /\ req \in [Requests -> Request]
      /\ req[r] \in Request
  BY IInvParts DEF TypeOK
<1>2. /\ pc[r] \in InFlight /\ mayWrite \subseteq mayWrite'
      /\ DOMAIN object \subseteq DOMAIN object'
      /\ \A c \in DOMAIN object : object'[c] = object[c]
  BY StepFrame DEF Frame, ObjectsStay
<1>3. /\ pc'[r] = "release" /\ req'[r] = [req[r] EXCEPT !.out = out]
  BY <1>1 DEF Return
<1>4. /\ req'[r].kind = req[r].kind /\ req'[r].base = req[r].base
      /\ req'[r].commit = req[r].commit /\ req'[r].out = out
  BY <1>1, <1>3 DEF Request
<1>5. RequestInv(r)'
  BY <1>1, <1>2, <1>3, <1>4 DEF Own, RequestInv, Building, InFlight, PcStates
<1>6. pc'[r] \notin Building
  BY <1>3 DEF Building
<1>7. QED
  BY <1>1, <1>2, <1>4, <1>5, <1>6 DEF Own, RequestInv
\* Any other step: what must hold of the state it goes to.
LEMMA AdvanceOwn ==
  ASSUME IInv, NEW r \in Requests, Step(r) \/ Cancel(r),
         req'[r].kind = "changeset" /\ req'[r].out = "ok" =>
           req[r].out = "ok" /\ req'[r].commit = req[r].commit,
         pc'[r] \in {"wait", "locked"} \cup Building => req'[r].out = "none",
         pc'[r] \in Building =>
           /\ req[r].kind \in {"changeset", "revert"}
           /\ main' # <<>> /\ Tip' = req'[r].cur
           /\ req[r].kind = "changeset" => req[r].base = req'[r].cur,
         pc'[r] \in {"attach", "attached", "titled"} => req[r].kind = "rename",
         pc'[r] \in {"rewrite", "rewritten"} => req[r].kind = "purge",
         pc'[r] = "committed" =>
           /\ req'[r].commit \in DOMAIN object'
           /\ object'[req'[r].commit].parent = req'[r].cur
  PROVE  Own(r)'
<1>1. Own(r)
  BY IInvParts
<1>2. /\ pc[r] \in InFlight /\ mayWrite \subseteq mayWrite'
      /\ DOMAIN object \subseteq DOMAIN object'
      /\ \A c \in DOMAIN object : object'[c] = object[c]
      /\ req'[r].kind = req[r].kind /\ req'[r].base = req[r].base
  BY StepFrame DEF Frame, ObjectsStay
<1>3. RequestInv(r)'
  BY <1>1, <1>2 DEF Own, RequestInv
<1>4. QED
  BY <1>1, <1>2, <1>3 DEF Own, RequestInv

LEMMA BuildOwn ==
  ASSUME IInv, NEW r \in Requests,
         \/ ReadHead(r) \/ CheckOut(r) \/ StageChangeset(r) \/ StageRevert(r)
         \/ CommitTree(r) \/ UpdateRef(r)
  PROVE  Own(r)'
<1> USE DEF repo, meta
<1>0. /\ Own(r) /\ pc \in [Requests -> PcStates] /\ req \in [Requests -> Request]
      /\ req[r] \in Request /\ object \in Seq(Commit) /\ Step(r)
  BY IInvParts DEF TypeOK, Step
<1>1. ASSUME NEW out \in Outcomes \ {"ok"}, Return(r, out)
      PROVE  Own(r)'
  BY <1>0, <1>1, ReturnOwn
<1>2. CASE ReadHead(r)
  <2>1. CASE HeadAnswer(r) # "none"
    BY <1>1, <1>2, <2>1 DEF ReadHead, HeadAnswer, Outcomes
  <2>2. CASE HeadAnswer(r) = "none"
    <3>1. main # <<>> /\ (req[r].kind = "changeset" => req[r].base = Tip)
      BY <2>2 DEF HeadAnswer
    <3>2. /\ pc'[r] = "resolved" /\ req'[r] = [req[r] EXCEPT !.cur = Tip]
          /\ main' = main /\ req[r].kind \in {"changeset", "revert"}
      BY <1>0, <1>2, <2>2 DEF ReadHead
    <3>3. /\ req'[r].cur = Tip /\ req'[r].out = req[r].out
          /\ req'[r].commit = req[r].commit /\ Tip' = Tip
      BY <1>0, <3>2 DEF Request, Tip
    <3>4. req[r].out = "none"
      BY <1>0, <1>2 DEF ReadHead, Own, RequestInv
    <3>5. QED
      BY <1>0, <3>1, <3>2, <3>3, <3>4, AdvanceOwn DEF Building
  <2>3. QED
    BY <2>1, <2>2
<1>3. CASE CheckOut(r)
  <2>1. /\ pc'[r] = "checkedout" /\ pc[r] = "resolved" /\ main' = main
        /\ req'[r] = [req[r] EXCEPT !.tree = TreeOf(Tip)]
    BY <1>0, <1>3 DEF CheckOut
  <2>2. /\ req'[r].cur = req[r].cur /\ req'[r].out = req[r].out
        /\ req'[r].commit = req[r].commit /\ Tip' = Tip
    BY <1>0, <2>1 DEF Request, Tip
  <2>3. /\ req[r].out = "none" /\ req[r].kind \in {"changeset", "revert"}
        /\ main # <<>> /\ Tip = req[r].cur
        /\ req[r].kind = "changeset" => req[r].base = req[r].cur
    BY <1>0, <2>1 DEF Building, Own, RequestInv
  <2>4. QED
    BY <1>0, <2>1, <2>2, <2>3, AdvanceOwn DEF Building
<1>4. CASE StageChangeset(r) \/ StageRevert(r)
  <2>1. CASE \E out \in Outcomes \ {"ok"} : Return(r, out)
    BY <1>1, <2>1
  <2>2. CASE ~\E out \in Outcomes \ {"ok"} : Return(r, out)
    <3>1. /\ pc' = [pc EXCEPT ![r] = "staged"] /\ pc[r] = "checkedout"
          /\ UNCHANGED main
          /\ \E t, P : req' = [req EXCEPT ![r].tree = t, ![r].paths = P]
      <4>1. CASE StageChangeset(r)
        <5>1. /\ ~Return(r, "rejected") /\ ~Return(r, "preview")
          BY <2>2 DEF Outcomes
        <5>2. PICK f \in Changesets :
                req' = [req EXCEPT ![r].tree = Overwrite(@, f),
                                   ![r].paths = DOMAIN f]
          BY <4>1, <5>1 DEF StageChangeset
        <5>3. req' = [req EXCEPT ![r].tree = Overwrite(req[r].tree, f),
                                 ![r].paths = DOMAIN f]
          BY <1>0, <5>2
        <5>4. QED
          BY <4>1, <5>1, <5>3 DEF StageChangeset
      <4>2. CASE StageRevert(r)
        <5>1. ~Return(r, "error")
          BY <2>2 DEF Outcomes
        <5>2. req' = [req EXCEPT ![r].tree = Reversed(req[r].base, @),
                                 ![r].paths = Diff(req[r].base)]
          BY <4>2, <5>1 DEF StageRevert
        <5>3. req' = [req EXCEPT ![r].tree = Reversed(req[r].base, req[r].tree),
                                 ![r].paths = Diff(req[r].base)]
          BY <1>0, <5>2
        <5>4. QED
          BY <4>2, <5>1, <5>3 DEF StageRevert
      <4>3. QED
        BY <1>4, <4>1, <4>2
    <3>2. /\ req'[r].cur = req[r].cur /\ req'[r].out = req[r].out
          /\ req'[r].commit = req[r].commit /\ Tip' = Tip /\ pc'[r] = "staged"
      BY <1>0, <3>1 DEF Request, Tip
    <3>3. QED
      BY <1>0, <3>1, <3>2, AdvanceOwn DEF Building, Own, RequestInv
  <2>3. QED
    BY <2>1, <2>2
<1>5. CASE CommitTree(r)
  <2>1. /\ pc'[r] = "committed" /\ pc[r] = "staged" /\ main' = main
        /\ req'[r] = [req[r] EXCEPT !.commit = Len(object) + 1]
    BY <1>0, <1>5 DEF CommitTree
  <2>2. /\ req'[r].cur = req[r].cur /\ req'[r].out = req[r].out
        /\ req'[r].commit = Len(object) + 1 /\ Tip' = Tip
    BY <1>0, <2>1 DEF Request, Tip
  <2>3. /\ Len(object) + 1 \in DOMAIN object'
        /\ object'[Len(object) + 1].parent = req[r].cur
    BY <1>0, <1>5 DEF CommitTree
  <2>4. req[r].out = "none"
    BY <1>0, <2>1 DEF Own, RequestInv, Building
  <2>5. QED
    BY <1>0, <2>1, <2>2, <2>3, <2>4, AdvanceOwn DEF Building, Own, RequestInv
<1>6. CASE UpdateRef(r)
  <2>1. CASE Return(r, "ok")
    BY <1>0, <1>6, <2>1, ReturnOwn
       DEF UpdateRef, Outcomes, Own, RequestInv, Building
  <2>2. CASE ~Return(r, "ok")
    <3>1. pc'[r] = "release" /\ req'[r].out = "conflict"
      BY <1>0, <1>6, <2>2 DEF UpdateRef, Request
    <3>2. QED
      BY <1>0, <3>1, AdvanceOwn DEF Building
  <2>3. QED
    BY <2>1, <2>2
<1>7. QED
  BY <1>2, <1>3, <1>4, <1>5, <1>6
\* The steps that do not build a changeset or a revert.
LEMMA RestOwn ==
  ASSUME IInv, NEW r \in Requests, Step(r) \/ Cancel(r),
         ~ \/ ReadHead(r) \/ CheckOut(r) \/ StageChangeset(r) \/ StageRevert(r)
           \/ CommitTree(r) \/ UpdateRef(r)
  PROVE  Own(r)'
<1> USE DEF repo, meta
<1>0. /\ Own(r) /\ pc \in [Requests -> PcStates] /\ req \in [Requests -> Request]
      /\ req[r] \in Request
  BY IInvParts DEF TypeOK
<1>1. ASSUME req[r].kind # "changeset" \/ req'[r].out # "ok",
             pc'[r] \in {"release", "done"}
      PROVE  Own(r)'
  <2>1. req'[r].kind = req[r].kind
    BY StepFrame DEF Frame
  <2>2. QED
    BY <1>1, <2>1, AdvanceOwn DEF Building
<1>2. ASSUME NEW out \in Outcomes, Return(r, out), Step(r),
             req[r].kind # "changeset"
      PROVE  Own(r)'
  BY <1>0, <1>2, ReturnOwn
<1>3. CASE Acquire(r)
  <2>1. pc'[r] = "locked" /\ req' = req /\ pc[r] = "wait"
    BY <1>0, <1>3 DEF Acquire
  <2>2. QED
    BY <1>0, <2>1, AdvanceOwn DEF Building, Own, RequestInv
<1>4. CASE Release(r)
  <2>1. /\ pc'[r] = "done"
        /\ req'[r] = [req[r] EXCEPT !.cur = 0, !.tree = EmptyTree, !.paths = {}]
    BY <1>0, <1>4 DEF Release
  <2>2. req'[r].out = req[r].out /\ req'[r].commit = req[r].commit
    BY <1>0, <2>1 DEF Request
  <2>3. QED
    BY <2>1, <2>2, AdvanceOwn DEF Building
<1>5. CASE PushOtherRef(r) \/ PushBranch(r)
  <2>1. req[r].kind = "push" /\ pc'[r] = "release"
    BY <1>0, <1>5 DEF PushOtherRef, PushBranch, Return
  <2>2. QED
    BY <1>1, <2>1
<1>6. CASE RenameLookup(r) \/ AttachWorktree(r) \/ CommitTitle(r) \/ StoreRename(r)
  <2>1. req[r].kind = "rename"
    BY <1>0, <1>6
       DEF RenameLookup, AttachWorktree, CommitTitle, StoreRename, Own, RequestInv
  <2>2. pc'[r] \in {"attach", "attached", "titled", "release"}
    BY <1>0, <1>6 DEF RenameLookup, AttachWorktree, CommitTitle, StoreRename,
                      RenameFailed, Return
  <2>3. req'[r].kind = "rename"
    BY <2>1, StepFrame DEF Frame
  <2>4. QED
    BY <2>1, <2>2, <2>3, AdvanceOwn DEF Building
<1>7. CASE PurgeLookup(r) \/ FilterBranch(r) \/ EnsureBranchExists(r) \/ CollectGarbage(r)
  <2>1. req[r].kind = "purge"
    BY <1>0, <1>7 DEF PurgeLookup, FilterBranch, EnsureBranchExists,
                      CollectGarbage, Own, RequestInv
  <2>2. pc'[r] \in {"rewrite", "rewritten", "release"}
    BY <1>0, <1>7 DEF PurgeLookup, FilterBranch, EnsureBranchExists,
                      CollectGarbage, Return
  <2>3. req'[r].kind = "purge"
    BY <2>1, StepFrame DEF Frame
  <2>4. QED
    BY <2>1, <2>2, <2>3, AdvanceOwn DEF Building
<1>8. CASE SetArchived(r) \/ SetDeleted(r)
  <2>1. req[r].kind # "changeset" /\ pc'[r] = "release"
    BY <1>0, <1>8 DEF SetArchived, SetDeleted, Return
  <2>2. QED
    BY <1>1, <2>1
<1>9. CASE Cancel(r)
  <2>1. req'[r].out = "lost"
    BY <1>0, <1>9 DEF Cancel, Return, Request
  <2>2. CASE pc[r] = "titled"
    <3>1. pc'[r] = "attach" /\ req[r].kind = "rename"
      BY <1>0, <1>9, <2>2 DEF Cancel, Own, RequestInv
    <3>2. QED
      BY <2>1, <3>1, AdvanceOwn DEF Building
  <2>3. CASE pc[r] # "titled"
    <3>1. pc'[r] = "release"
      BY <1>0, <1>9, <2>3 DEF Cancel, Return
    <3>2. QED
      BY <1>1, <2>1, <3>1
  <2>4. QED
    BY <2>2, <2>3
<1>10. QED
  BY <1>3, <1>4, <1>5, <1>6, <1>7, <1>8, <1>9 DEF Step

LEMMA InitOwn == Init => \A r \in Requests : Own(r)
BY DEF Init, Own, RequestInv, NoRequest, InFlight, PcStates, Building

LEMMA ArrivalOwn ==
  ASSUME IInv, NEW r \in Requests, Arrival(r), NEW s \in Requests
  PROVE  Own(s)'
<1> USE DEF repo
<1>0. /\ Own(s) /\ pc \in [Requests -> PcStates] /\ req \in [Requests -> Request]
      /\ object \in Seq(Commit)
  BY IInvParts DEF TypeOK
<1>1. ASSUME NEW data, Arrive(r, data),
             data.kind \in {"changeset", "revert", "push"} =>
               /\ data.base \in DOMAIN object
               /\ data.out = CheckRow,
             data.out # "ok"
      PROVE  Own(s)'
  <2>1. CASE s = r
    <3>1. req'[s] = data /\ pc'[s] = IF data.out = "none" THEN "wait" ELSE "done"
      BY <1>0, <1>1, <2>1 DEF Arrive
    <3>2. object' = object
      BY <1>1 DEF Arrive
    <3>3. data.out = "none" /\ data.kind \in {"changeset", "revert", "push"} =>
            r \in mayWrite'
      BY <1>1 DEF Arrive, CheckRow, Open
    <3>4. QED
      BY <1>1, <2>1, <3>1, <3>2, <3>3
         DEF Own, RequestInv, Building, InFlight, PcStates
  <2>2. CASE s # r
    <3>1. req'[s] = req[s] /\ pc'[s] = pc[s] /\ object' = object /\ main' = main
          /\ mayWrite \subseteq mayWrite'
      BY <1>0, <1>1, <2>2 DEF Arrive
    <3>2. QED
      BY <1>0, <3>1 DEF Own, RequestInv, Tip
  <2>3. QED
    BY <2>1, <2>2
<1>2. CheckRow # "ok"
  BY DEF CheckRow
<1>3. 1..Len(object) = DOMAIN object
  BY <1>0
<1> USE DEF NoRequest
<1>4. CASE ArriveChangeset(r)
  BY <1>1, <1>2, <1>3, <1>4 DEF ArriveChangeset
<1>5. CASE ArriveRevert(r)
  BY <1>1, <1>2, <1>3, <1>5 DEF ArriveRevert
<1>6. CASE ArrivePush(r)
  BY <1>1, <1>2, <1>3, <1>6 DEF ArrivePush
<1>7. CASE ArriveRename(r)
  BY <1>1, <1>7 DEF ArriveRename
<1>8. CASE ArrivePurge(r)
  BY <1>1, <1>8 DEF ArrivePurge
<1>9. CASE ArriveAdmin(r)
  <2>1. PICK k \in {"archive", "unarchive", "delete", "restore"} :
          Arrive(r, [NoRequest EXCEPT !.kind = k])
    BY <1>9 DEF ArriveAdmin
  <2>2. /\ [NoRequest EXCEPT !.kind = k].kind = k
        /\ [NoRequest EXCEPT !.kind = k].out = "none"
    OBVIOUS
  <2>3. QED
    BY <1>1, <2>1, <2>2
<1>10. QED
  BY <1>4, <1>5, <1>6, <1>7, <1>8, <1>9 DEF Arrival

LEMMA CrashOwn ==
  ASSUME IInv, Crash, NEW s \in Requests
  PROVE  Own(s)'
<1> USE DEF repo
<1>0. /\ Own(s) /\ pc \in [Requests -> PcStates] /\ req \in [Requests -> Request]
      /\ req[s] \in Request
  BY IInvParts DEF TypeOK
<1>1. object' = object /\ main' = main /\ mayWrite' = mayWrite
  BY DEF Crash
<1>2. CASE pc[s] \in InFlight
  <2>1. /\ pc'[s] = "done"
        /\ req'[s] = [req[s] EXCEPT !.out = "lost", !.cur = 0,
                                    !.tree = EmptyTree, !.paths = {}]
    BY <1>0, <1>2 DEF Crash
  <2>2. /\ req'[s].kind = req[s].kind /\ req'[s].base = req[s].base
        /\ req'[s].out = "lost"
    BY <1>0, <2>1 DEF Request
  <2>3. QED
    BY <1>0, <1>1, <2>1, <2>2 DEF Own, RequestInv, Building, InFlight
<1>3. CASE pc[s] \notin InFlight
  <2>1. pc'[s] = pc[s] /\ req'[s] = req[s]
    BY <1>0, <1>3 DEF Crash
  <2>2. QED
    BY <1>0, <1>1, <2>1 DEF Own, RequestInv, Tip
<1>4. QED
  BY <1>2, <1>3

----------------------------------------------------------------------------
(* The theorems. *)

LEMMA InductiveStep == IInv /\ [Next]_vars => IInv'
<1> SUFFICES ASSUME IInv, [Next]_vars
             PROVE  IInv'
  OBVIOUS
<1>1. MutualExclusion'
  BY ExclusionStep DEF IInv, TypeOK
<1>2. ASSUME NEW r \in Requests, Arrival(r)
      PROVE  IInv'
  <2>1. TypeOK'
    BY <1>2, ArrivalType DEF IInv
  <2>2. object' = object
    BY <1>2 DEF Arrival, ArriveChangeset, ArriveRevert, ArrivePush, ArriveRename,
                ArrivePurge, ArriveAdmin, Arrive, repo
  <2>3. ObjectsLinked'
    BY <2>2 DEF IInv, ObjectsLinked
  <2>4. \A s \in Requests : Own(s)'
    BY <1>2, ArrivalOwn
  <2>5. QED
    BY <1>1, <2>1, <2>3, <2>4
       DEF IInv, Own, HeadIsStable, ChangesetOnItsBase, WritesOverlapOpenProject
<1>3. ASSUME NEW r \in Requests, Step(r) \/ Cancel(r)
      PROVE  IInv'
  <2>1. TypeOK' /\ ObjectsLinked'
    BY <1>3, StepType
  <2>2. Own(r)'
    BY <1>3, BuildOwn, RestOwn
  <2>3. \A s \in Requests : Own(s)'
    BY <1>3, <2>2, OtherStep
  <2>4. QED
    BY <1>1, <2>1, <2>3
       DEF IInv, Own, HeadIsStable, ChangesetOnItsBase, WritesOverlapOpenProject
<1>4. CASE Crash
  <2>1. TypeOK' /\ ObjectsLinked'
    BY <1>4, CrashType
  <2>2. \A s \in Requests : Own(s)'
    BY <1>4, CrashOwn
  <2>3. QED
    BY <1>1, <2>1, <2>2
       DEF IInv, Own, HeadIsStable, ChangesetOnItsBase, WritesOverlapOpenProject
<1>5. CASE UNCHANGED vars
  BY <1>5 DEF vars, repo, IInv, TypeOK, MutualExclusion, HeadIsStable, Tip,
              ChangesetOnItsBase, WritesOverlapOpenProject, ObjectsLinked, RequestInv
<1>6. QED
  BY <1>2, <1>3, <1>4, <1>5 DEF Next, Finished
LEMMA InitInv == Init => IInv
<1> SUFFICES ASSUME Init PROVE IInv
  OBVIOUS
<1>1. TypeOK
  BY InitType
<1>2. MutualExclusion
  BY DEF Init, MutualExclusion, Critical, InFlight
<1>3. ObjectsLinked
  BY DEF Init, ObjectsLinked
<1>4. \A r \in Requests : Own(r)
  BY InitOwn
<1>5. QED
  BY <1>1, <1>2, <1>3, <1>4, IInvParts

\* The invariant the theorems below follow from holds in every behaviour of the
\* write path, whatever requests run at once, fail or are cut off by a crash.
THEOREM InvariantHolds == Spec => []IInv
BY InitInv, InductiveStep, PTL DEF Spec

\* Every id a request, a ref or a worktree holds is that of a commit that was
\* created, and every row and request stays in its type.
THEOREM TypeCorrect == Spec => []TypeOK
<1>1. IInv => TypeOK
  BY DEF IInv
<1>2. QED
  BY <1>1, InvariantHolds, PTL

\* LockProjectWrite serializes the operations that move a project's refs.
THEOREM LockExcludes == Spec => []MutualExclusion
<1>1. IInv => MutualExclusion
  BY DEF IInv
<1>2. QED
  BY <1>1, InvariantHolds, PTL

\* The branch does not move between a writer's reading HEAD and its update-ref.
THEOREM HeadStaysPut == Spec => []HeadIsStable
<1>1. IInv => HeadIsStable
  BY DEF IInv
<1>2. QED
  BY <1>1, InvariantHolds, PTL

\* A changeset that succeeds is a child of the revision its client named, so
\* it never overwrites a change its client has not seen.
THEOREM NoLostUpdate == Spec => []ChangesetOnItsBase
<1>1. IInv => ChangesetOnItsBase
  BY DEF IInv
<1>2. QED
  BY <1>1, InvariantHolds, PTL

\* A changeset, revert or push that takes effect overlapped an open project.
THEOREM OnlyOpenProjectsWritten == Spec => []WritesOverlapOpenProject
<1>1. IInv => WritesOverlapOpenProject
  BY DEF IInv
<1>2. QED
  BY <1>1, InvariantHolds, PTL
----------------------------------------------------------------------------
(* What the write path leaves on the branch and what it answers, on top of *)
(* the invariant above, and that ProjectWrites implements AtomicWrites.    *)

\* Every commit, on a branch or not, changes only the paths it names.
CommitsNamed ==
  \A c \in DOMAIN object : \A p \in Paths \ object[c].paths :
    TreeOf(c)[p] = ParentTree(c)[p]

\* The branch is a chain of parents down to a root.
Chain == \A i \in DOMAIN main :
           object[main[i]].parent = IF i = 1 THEN 0 ELSE main[i - 1]

\* What a handler has read and built so far.
Work(r) ==
  /\ pc[r] = "idle" <=> req[r].kind = "none"
  /\ req[r].out = "preview" => req[r].kind = "changeset"
  /\ pc[r] \in Building => req[r].cur \in DOMAIN object
  /\ pc[r] = "checkedout" => req[r].tree = TreeOf(req[r].cur)
  /\ pc[r] = "staged" =>
       \A p \in Paths \ req[r].paths : req[r].tree[p] = TreeOf(req[r].cur)[p]
  /\ pc[r] = "committed" => object[req[r].commit].paths = req[r].paths
  /\ pc[r] = "attached" =>
       main # <<>> /\ req[r].tree = Titled(TreeOf(Tip), req[r].title)
  /\ pc[r] \in {"rewrite", "rewritten"} => req[r].out = "none"
  /\ pc[r] = "rewritten" =>
       \A i \in DOMAIN main, p \in req[r].purge : TreeOf(main[i])[p] = Absent

\* How often a request has moved the branch at each of its steps.
MovesSoFar(r) ==
  /\ pc[r] \in {"idle", "wait", "locked", "rewrite"} \cup Building => moves[r] = 0
  /\ pc[r] \in {"attach", "attached"} => moves[r] = IF req[r].out = "none" THEN 0 ELSE 1
  /\ pc[r] = "titled" => moves[r] = 1 /\ req[r].out = "none"
  /\ pc[r] = "rewritten" => moves[r] \in {1, 2} /\ (main = <<>> => moves[r] = 1)
  /\ pc[r] \in {"release", "done"} =>
       /\ req[r].out # "none"
       /\ req[r].kind \notin {"rename", "purge"} => moves[r] <= 1
       /\ req[r].out \notin {"ok", "lost"} /\ req[r].kind # "rename" => moves[r] = 0
       /\ req[r].out = "ok" /\ req[r].kind \in {"changeset", "revert"} => moves[r] = 1

BranchInv ==
  /\ CommitsNamed /\ Chain /\ ErasedStaysErased
  /\ \A r \in Requests : Work(r) /\ MovesSoFar(r)

\* While only renames have written and the process has not died, the title follows the
\* rename under way.
OnlyRenames == crashes = 0 /\ \A r \in Requests : moves[r] > 0 => req[r].kind = "rename"

Title == TreeOf(Tip)[Readme]
Retitling == {"attach", "attached", "titled"}

TitleOf(r) ==
  /\ pc[r] \in {"attach", "attached"} /\ req[r].out = "none" =>
       Title = name /\ req[r].prior = name /\ req[r].title # name
  /\ pc[r] = "titled" =>
       Title = req[r].title /\ req[r].prior = name /\ req[r].title # name
  /\ pc[r] \in {"attach", "attached"} /\ req[r].out # "none" =>
       Title # name /\ req[r].title = name

TitleBody ==
  /\ main # <<>> /\ Title \in Names
  /\ attached => \E r \in Requests : pc[r] = "attached"
  /\ (\A r \in Requests : pc[r] \notin Retitling) => Title = name
  /\ \A r \in Requests : TitleOf(r)

TitleInv == OnlyRenames => TitleBody

HInv == IInv /\ BranchInv /\ TitleInv
----------------------------------------------------------------------------
(* The positions a purge keeps. *)

\* A set of natural numbers that is not empty has a least element.
LEMMA LeastExists ==
  ASSUME NEW T \in SUBSET Nat, T # {}
  PROVE  \E x \in T : \A y \in T : x <= y
<1> DEFINE R == {ss \in Nat \X Nat : ss[1] < ss[2]}
<1>1. IsWellFoundedOn(R, Nat)
  BY NatLessThanWellFounded DEF OpToRel
<1> HIDE DEF R
<1>2. PICK x \in T : \A y \in T : ~(<<y, x>> \in R)
  BY <1>1, WFMin
<1>3. \A y \in T : ~(y < x)
  BY <1>2 DEF R
<1>4. QED
  BY <1>3

LEMMA FirstOnes ==
  ASSUME NEW k \in Nat
  PROVE  IsFiniteSet(1..k) /\ Cardinality(1..k) = k
<1>1. /\ IsFiniteSet(1..k)
      /\ Cardinality(1..k) = IF 1 > k THEN 0 ELSE k - 1 + 1
  BY FS_Interval
<1>2. QED
  BY <1>1

\* The purged tree at a position of the branch; before the root there is nothing.
StrippedAt(P, i) == IF i = 0 THEN EmptyTree ELSE Stripped(P)[i]

\* A position that is not kept repeats the purged tree before it.
LEMMA DroppedRepeats ==
  ASSUME main \in Seq(DOMAIN object), NEW P, NEW i \in DOMAIN main, i \notin Kept(P)
  PROVE  StrippedAt(P, i) = StrippedAt(P, i - 1)
<1>1. i \in Nat /\ i # 0 /\ (i - 1 = 0 <=> i = 1)
  OBVIOUS
<1>2. Stripped(P)[i] = IF i = 1 THEN EmptyTree ELSE Stripped(P)[i - 1]
  BY DEF Kept
<1>3. QED
  BY <1>1, <1>2 DEF StrippedAt

\* So between two kept positions the purged tree stays as it is.
LEMMA BetweenKept ==
  ASSUME main \in Seq(DOMAIN object), NEW P, NEW i \in 0..Len(main), NEW j \in i..Len(main),
         \A m \in (i + 1)..j : m \notin Kept(P)
  PROVE  StrippedAt(P, j) = StrippedAt(P, i)
<1> DEFINE T == {m \in i..j : StrippedAt(P, m) # StrippedAt(P, i)}
<1>0. Len(main) \in Nat /\ DOMAIN main = 1..Len(main) /\ i \in Nat /\ j \in Nat
  OBVIOUS
<1>1. SUFFICES ASSUME T # {} PROVE FALSE
  BY <1>0
<1>2. T \in SUBSET Nat
  BY <1>0
<1> HIDE DEF T
<1>3. PICK m \in T : \A k \in T : m <= k
  BY <1>1, <1>2, LeastExists
<1>4. m \in i..j /\ StrippedAt(P, m) # StrippedAt(P, i) /\ m # i
  BY DEF T
<1>5. m \in (i + 1)..j /\ m - 1 \in i..j /\ m \in DOMAIN main /\ ~(m <= m - 1)
  BY <1>0, <1>4
<1>6. m - 1 \notin T
  BY <1>3, <1>5
<1>7. StrippedAt(P, m - 1) = StrippedAt(P, i)
  BY <1>5, <1>6 DEF T
<1>8. StrippedAt(P, m) = StrippedAt(P, m - 1)
  BY <1>5, DroppedRepeats
<1>9. QED
  BY <1>4, <1>7, <1>8

\* An ascending enumeration leaves out nothing between its neighbours.
LEMMA NothingBetween ==
  ASSUME NEW n \in Nat, NEW S \in SUBSET Nat, NEW o \in Ascending(n, S)
  PROVE  /\ \A i \in 1..n : o[i] \in S
         /\ \A i \in 1..n, m \in S : i > 1 /\ o[i - 1] < m => o[i] <= m
         /\ \A i \in 1..n, m \in S : i = 1 => o[i] <= m
         /\ \A m \in S : n > 0 /\ m <= o[n]
         /\ n = 0 => S = {}
<1>1. /\ o \in [1..n -> S]
      /\ \A i, j \in 1..n : i < j => o[i] < o[j]
      /\ \A m \in S : \E j \in 1..n : o[j] = m
  BY DEF Ascending
<1>2. \A i \in 1..n : o[i] \in S /\ o[i] \in Nat
  BY <1>1
<1>3. ASSUME NEW m \in S
      PROVE  /\ \A i \in 1..n : i > 1 /\ o[i - 1] < m => o[i] <= m
             /\ \A i \in 1..n : i = 1 => o[i] <= m
             /\ n > 0 /\ m <= o[n]
  <2>1. PICK j \in 1..n : o[j] = m
    BY <1>1
  <2>2. ASSUME NEW i \in 1..n, i > 1, o[i - 1] < m PROVE o[i] <= m
    <3>1. i - 1 \in 1..n
      BY <2>2
    <3>2. ~(j <= i - 1)
      <4>1. j < i - 1 => o[j] < o[i - 1]
        BY <1>1, <3>1
      <4>2. QED
        BY <1>2, <2>1, <2>2, <3>1, <4>1
    <3>3. j = i \/ i < j
      BY <3>2
    <3>4. QED
      BY <1>1, <1>2, <2>1, <3>3
  <2>3. ASSUME NEW i \in 1..n, i = 1 PROVE o[i] <= m
    <3>1. j = i \/ i < j
      BY <2>3
    <3>2. QED
      BY <1>1, <1>2, <2>1, <3>1
  <2>4. n > 0 /\ m <= o[n]
    <3>1. n \in 1..n /\ (j = n \/ j < n)
      BY <2>1
    <3>2. QED
      BY <1>1, <1>2, <2>1, <3>1
  <2>5. QED
    BY <2>2, <2>3, <2>4
<1>4. n = 0 => S = {}
  BY <1>3
<1>5. QED
  BY <1>2, <1>3, <1>4

\* The commits that keep their sha are the first ones, each in its own place.
LEMMA SameShaFirst ==
  ASSUME main \in Seq(DOMAIN object), NEW P, NEW n \in Nat, n = Cardinality(Kept(P)),
         NEW o \in Ascending(n, Kept(P))
  PROVE  /\ SameSha(P) = 1..Cardinality(SameSha(P))
         /\ \A i \in SameSha(P) : i \in 1..n /\ o[i] = i /\ Stripped(P)[i] = TreeOf(main[i])
<1> DEFINE same == Cardinality(SameSha(P))
<1>0. /\ Len(main) \in Nat /\ DOMAIN main = 1..Len(main)
      /\ Kept(P) \subseteq DOMAIN main /\ SameSha(P) \subseteq Kept(P)
      /\ same \in Nat /\ same <= n
  BY KeptBounds
<1>1. \A i \in SameSha(P) : i \in 1..Len(main) /\ 1..i \subseteq SameSha(P)
  BY <1>0 DEF SameSha
<1>2. IsFiniteSet(SameSha(P))
  <2>1. IsFiniteSet(1..Len(main))
    BY <1>0, FirstOnes
  <2>2. QED
    BY <1>0, <2>1, FS_Subset
<1>3. ASSUME NEW i \in SameSha(P) PROVE i \in 1..same
  <2>1. i \in Nat /\ i >= 1 /\ 1..i \subseteq SameSha(P)
    BY <1>1
  <2>2. Cardinality(1..i) = i
    BY <2>1, FirstOnes
  <2>3. Cardinality(1..i) <= same
    BY <1>2, <2>1, FS_Subset
  <2>4. QED
    BY <1>0, <2>1, <2>2, <2>3
<1>4. SameSha(P) = 1..same
  <2>1. IsFiniteSet(1..same) /\ Cardinality(1..same) = same
    <3> HIDE DEF same
    <3>1. QED
      BY <1>0, FirstOnes
  <2>2. QED
    BY <1>3, <2>1, FS_Subset
<1> HIDE DEF same
<1>5. /\ \A i \in 1..n : o[i] \in Kept(P) /\ o[i] \in Nat
      /\ \A i, j \in 1..n : i < j => o[i] < o[j]
      /\ \A i \in Kept(P) : \E j \in 1..n : o[j] = i
  BY <1>0 DEF Ascending
<1> DEFINE T == {i \in SameSha(P) : o[i] # i}
<1>6. T = {}
  <2>1. SUFFICES ASSUME T # {} PROVE FALSE
    OBVIOUS
  <2>2. T \in SUBSET Nat
    BY <1>4
  <2> HIDE DEF T
  <2>3. PICK i \in T : \A k \in T : i <= k
    BY <2>1, <2>2, LeastExists
  <2>4. i \in 1..same /\ i \in Kept(P) /\ o[i] # i
    BY <1>0, <1>4 DEF T
  <2>5. i \in 1..n
    BY <1>0, <2>4
  <2>6. \A k \in 1..n : k < i => o[k] = k
    BY <1>0, <1>4, <2>3, <2>4 DEF T
  <2>7. PICK j \in 1..n : o[j] = i
    BY <1>5, <2>4
  <2>8. i < j
    BY <2>4, <2>5, <2>6, <2>7
  <2>9. o[i] < i /\ o[i] \in Kept(P) /\ o[i] \in 1..n
    BY <1>0, <1>5, <2>5, <2>7, <2>8
  <2>10. o[o[i]] = o[i] /\ o[o[i]] < o[i]
    BY <1>5, <2>5, <2>6, <2>9
  <2>11. QED
    BY <1>5, <2>5, <2>10
<1>7. \A i \in SameSha(P) : o[i] = i
  BY <1>6
<1>8. \A i \in SameSha(P) : i \in 1..i
  BY <1>1
<1>9. \A i \in SameSha(P) : Stripped(P)[i] = TreeOf(main[i])
  BY <1>8 DEF SameSha
<1>10. \A i \in SameSha(P) : i \in 1..n
  BY <1>0, <1>4
<1>11. QED
  BY <1>4, <1>7, <1>9, <1>10 DEF same
----------------------------------------------------------------------------
(* The branch: commits on top of commits. *)

LEMMA CommitTypes ==
  ASSUME TypeOK, NEW c \in DOMAIN object
  PROVE  /\ object[c] \in Commit /\ TreeOf(c) \in Trees /\ object[c].tree = TreeOf(c)
         /\ object[c].paths \subseteq Paths /\ c \in Nat /\ c # 0
<1>1. object \in Seq(Commit) /\ DOMAIN object = 1..Len(object)
  BY DEF TypeOK
<1>2. object[c] \in Commit /\ c \in 1..Len(object)
  BY <1>1
<1>3. QED
  BY <1>1, <1>2 DEF Commit, TreeOf

LEMMA BranchTypes ==
  ASSUME TypeOK
  PROVE  /\ Len(main) \in Nat /\ DOMAIN main = 1..Len(main)
         /\ main = <<>> <=> Len(main) = 0
         /\ \A i \in DOMAIN main : main[i] \in DOMAIN object
BY DEF TypeOK

\* Commits are never changed, so a tree that was there stays.
LEMMA TreesStay ==
  ASSUME TypeOK, ObjectsLinked, ObjectsStay, NEW c \in DOMAIN object
  PROVE  /\ TreeOf(c)' = TreeOf(c) /\ ParentTree(c)' = ParentTree(c)
         /\ object'[c] = object[c] /\ c \in DOMAIN object'
<1>1. object[c].parent \in DOMAIN object \cup {0}
  BY DEF ObjectsLinked
<1>2. QED
  BY <1>1 DEF ObjectsStay, TreeOf, ParentTree, EmptyTree

\* A commit of the branch changes only the paths it names.
LEMMA ChainNamed ==
  ASSUME TypeOK, CommitsNamed, Chain, NEW i \in DOMAIN main,
         NEW p \in Paths \ object[main[i]].paths
  PROVE  TreeOf(main[i])[p] = IF i = 1 THEN EmptyTree[p] ELSE TreeOf(main[i - 1])[p]
<1>1. main[i] \in DOMAIN object /\ TreeOf(main[i])[p] = ParentTree(main[i])[p]
  BY BranchTypes DEF CommitsNamed
<1>2. object[main[i]].parent = IF i = 1 THEN 0 ELSE main[i - 1]
  BY DEF Chain
<1>3. i # 1 => main[i - 1] # 0
  <2>1. i # 1 => i - 1 \in DOMAIN main
    BY BranchTypes
  <2>2. QED
    BY <2>1, BranchTypes, CommitTypes
<1>4. QED
  BY <1>1, <1>2, <1>3 DEF ParentTree

\* Nothing moves.
LEMMA BranchStays ==
  ASSUME TypeOK, ObjectsLinked, ObjectsStay, Chain, ErasedStaysErased,
         main' = main, erased' = erased
  PROVE  Chain' /\ ErasedStaysErased'
<1>1. \A i \in DOMAIN main : /\ object'[main[i]] = object[main[i]]
                             /\ TreeOf(main[i])' = TreeOf(main[i])
  BY BranchTypes, TreesStay DEF TreeOf
<1>2. QED
  BY <1>1 DEF Chain, ErasedStaysErased, TreeOf

\* The branch becomes its first k commits with c on top.
Grown(k, c) == /\ DOMAIN main' = 1..(k + 1)
               /\ main'[k + 1] = c
               /\ \A i \in 1..k : main'[i] = main[i]

LEMMA BranchGrows ==
  ASSUME TypeOK, ObjectsLinked, ObjectsStay, Chain, ErasedStaysErased,
         TypeOK', ObjectsLinked', CommitsNamed',
         NEW k \in DOMAIN main, NEW c \in DOMAIN object', Grown(k, c),
         object'[c].parent = main[k], erased' = erased \ object'[c].paths
  PROVE  /\ Chain' /\ ErasedStaysErased'
         /\ \A p \in Paths \ object'[c].paths : TreeOf(c)'[p] = TreeOf(main[k])[p]
<1>0. k \in Nat /\ k >= 1 /\ \A i \in 1..k : i \in DOMAIN main
  BY BranchTypes
<1>1. \A i \in 1..k : /\ main[i] \in DOMAIN object
                      /\ object'[main[i]] = object[main[i]]
                      /\ object'[main[i]].tree = TreeOf(main[i])
  BY <1>0, BranchTypes, TreesStay DEF TreeOf
<1>2. \A p \in Paths \ object'[c].paths : object'[c].tree[p] = TreeOf(main[k])[p]
  <2> TAKE p \in Paths \ object'[c].paths
  <2>1. TreeOf(c)'[p] = ParentTree(c)'[p]
    BY DEF CommitsNamed
  <2>2. main[k] # 0
    BY <1>0, <1>1, CommitTypes
  <2>3. ParentTree(c)' = object'[main[k]].tree
    BY <2>2 DEF ParentTree, TreeOf
  <2>4. QED
    BY <1>0, <1>1, <2>1, <2>3 DEF TreeOf
<1>3. ASSUME NEW i \in DOMAIN main'
      PROVE  /\ object'[main'[i]].parent = IF i = 1 THEN 0 ELSE main'[i - 1]
             /\ \A p \in erased' : object'[main'[i]].tree[p] = Absent
  <2>1. CASE i \in 1..k
    <3>1. object'[main'[i]].parent = IF i = 1 THEN 0 ELSE main'[i - 1]
      <4>1. main'[i] = main[i] /\ object[main[i]].parent = IF i = 1 THEN 0 ELSE main[i - 1]
        BY <1>0, <2>1 DEF Grown, Chain
      <4>2. i # 1 => main'[i - 1] = main[i - 1]
        BY <1>0, <2>1 DEF Grown
      <4>3. QED
        BY <1>1, <2>1, <4>1, <4>2
    <3>2. \A p \in erased' : object'[main'[i]].tree[p] = Absent
      BY <1>0, <1>1, <2>1 DEF Grown, ErasedStaysErased
    <3>3. QED
      BY <3>1, <3>2
  <2>2. CASE i = k + 1
    <3>1. main'[i] = c /\ main'[i - 1] = main[k] /\ i # 1
      BY <1>0, <2>2 DEF Grown
    <3>2. \A p \in erased' : p \in Paths \ object'[c].paths /\ TreeOf(main[k])[p] = Absent
      BY <1>0 DEF ErasedStaysErased, TypeOK
    <3>3. QED
      BY <1>2, <3>1, <3>2
  <2>3. QED
    BY <1>0, <2>1, <2>2 DEF Grown
<1>4. QED
  BY <1>2, <1>3 DEF Chain, ErasedStaysErased, TreeOf

\* A new commit that changes only the paths it names.
LEMMA NamedGrows ==
  ASSUME TypeOK, ObjectsLinked, CommitsNamed, NEW c \in Commit,
         c.parent \in DOMAIN object, object' = Append(object, c),
         \A p \in Paths \ c.paths : c.tree[p] = TreeOf(c.parent)[p]
  PROVE  CommitsNamed' /\ ObjectsStay
<1>1. PICK n : n = Len(object) + 1
  OBVIOUS
<1>2. /\ DOMAIN object' = DOMAIN object \cup {n}
      /\ \A i \in DOMAIN object : object'[i] = object[i]
      /\ object'[n] = c
  BY <1>1, AppendObject
<1>3. ObjectsStay
  BY <1>2 DEF ObjectsStay
<1>4. ASSUME NEW x \in DOMAIN object, NEW p \in Paths \ object'[x].paths
      PROVE  TreeOf(x)'[p] = ParentTree(x)'[p]
  BY <1>3, <1>4, TreesStay DEF CommitsNamed
<1>5. ASSUME NEW p \in Paths \ c.paths
      PROVE  TreeOf(n)'[p] = ParentTree(n)'[p]
  <2>1. object'[n].tree = c.tree /\ object'[n].parent = c.parent /\ c.parent # 0
    BY <1>2, CommitTypes
  <2>2. object'[c.parent].tree = TreeOf(c.parent)
    BY <1>2 DEF TreeOf
  <2>3. QED
    BY <1>5, <2>1, <2>2 DEF TreeOf, ParentTree
<1>6. QED
  BY <1>2, <1>3, <1>4, <1>5 DEF CommitsNamed
----------------------------------------------------------------------------
(* What the steps that move the branch do to it. *)

LEMMA StillSteps ==
  ASSUME NEW r \in Requests, Step(r) \/ Cancel(r), ~UpdateRef(r),
         ~PushBranch(r), ~CommitTitle(r), ~FilterBranch(r), ~EnsureBranchExists(r)
  PROVE  UNCHANGED <<main, moves, erased>> /\ (CommitTree(r) \/ object' = object)
<1>1. CASE \/ Acquire(r) \/ Release(r) \/ ReadHead(r) \/ CheckOut(r) \/ StageChangeset(r)
           \/ StageRevert(r)
  BY <1>1 DEF Acquire, Release, ReadHead, CheckOut, StageChangeset, StageRevert, repo
<1>2. CASE \/ CommitTree(r) \/ PushOtherRef(r) \/ RenameLookup(r) \/ AttachWorktree(r)
           \/ StoreRename(r) \/ PurgeLookup(r)
  BY <1>2 DEF CommitTree, PushOtherRef, RenameLookup, AttachWorktree, StoreRename, PurgeLookup,
              repo
<1>3. CASE \/ CollectGarbage(r) \/ SetArchived(r) \/ SetDeleted(r) \/ Cancel(r)
  BY <1>3 DEF CollectGarbage, SetArchived, SetDeleted, Cancel, repo
<1>4. QED
  BY <1>1, <1>2, <1>3 DEF Step

LEMMA BranchParts ==
  ASSUME IInv, BranchInv, NEW r \in Requests, Step(r) \/ Cancel(r)
  PROVE  /\ TypeOK /\ TypeOK' /\ ObjectsLinked /\ ObjectsLinked' /\ ObjectsStay
         /\ CommitsNamed /\ Chain /\ ErasedStaysErased
         /\ Work(r) /\ MovesSoFar(r) /\ RequestInv(r)
         /\ req[r] \in Request /\ req' \in [Requests -> Request]
         /\ pc[r] \in InFlight /\ pc' \in [Requests -> PcStates]
         /\ moves[r] \in Nat /\ moves' \in [Requests -> Nat]
         /\ req'[r].kind = req[r].kind
         /\ \A s \in Requests \ {r} : pc'[s] = pc[s] /\ req'[s] = req[s]
<1>1. TypeOK' /\ ObjectsLinked' /\ Frame(r)
  BY StepType, StepFrame
<1>2. TypeOK /\ ObjectsLinked /\ RequestInv(r)
  BY DEF IInv
<1>3. QED
  BY <1>1, <1>2 DEF BranchInv, Frame, TypeOK

LEMMA CommitTreeEffect ==
  ASSUME IInv, BranchInv, NEW r \in Requests, CommitTree(r)
  PROVE  CommitsNamed' /\ Chain' /\ ErasedStaysErased'
<1>0. /\ TypeOK /\ ObjectsLinked /\ CommitsNamed /\ Chain /\ ErasedStaysErased
      /\ Work(r) /\ req[r] \in Request /\ pc[r] = "staged"
  BY BranchParts DEF Step, CommitTree
<1> DEFINE c == [parent |-> req[r].cur, tree |-> req[r].tree, paths |-> req[r].paths]
<1>1. req[r].cur \in DOMAIN object
  BY <1>0 DEF Work, Building
<1>2. c \in Commit /\ c.parent = req[r].cur /\ c.tree = req[r].tree /\ c.paths = req[r].paths
  BY <1>0 DEF Commit, Request
<1>3. object' = Append(object, c)
  BY DEF CommitTree
<1>4. \A p \in Paths \ c.paths : c.tree[p] = TreeOf(c.parent)[p]
  BY <1>0, <1>2 DEF Work
<1> HIDE DEF c
<1>5. CommitsNamed' /\ ObjectsStay
  BY <1>0, <1>1, <1>2, <1>3, <1>4, NamedGrows
<1>6. main' = main /\ erased' = erased
  BY DEF CommitTree
<1>7. QED
  BY <1>0, <1>5, <1>6, BranchStays

LEMMA UpdateRefEffect ==
  ASSUME IInv, BranchInv, NEW r \in Requests, UpdateRef(r)
  PROVE  /\ CommitsNamed' /\ Chain' /\ ErasedStaysErased'
         /\ Len(main) \in DOMAIN main
         /\ \E c \in DOMAIN object' :
              /\ Grown(Len(main), c)
              /\ \A p \in Paths \ object'[c].paths : TreeOf(c)'[p] = TreeOf(main[Len(main)])[p]
         /\ moves' = [moves EXCEPT ![r] = moves[r] + 1]
         /\ pc'[r] = "release" /\ req'[r].out = "ok"
<1>0. /\ TypeOK /\ ObjectsLinked /\ CommitsNamed /\ Chain /\ ErasedStaysErased
      /\ TypeOK' /\ ObjectsLinked' /\ ObjectsStay
      /\ Work(r) /\ RequestInv(r) /\ req[r] \in Request /\ pc[r] = "committed"
      /\ req \in [Requests -> Request] /\ pc \in [Requests -> PcStates]
  BY BranchParts DEF Step, UpdateRef, TypeOK
<1> DEFINE c == req[r].commit
<1>1. main # <<>> /\ Tip = req[r].cur
  BY <1>0 DEF IInv, HeadIsStable, Building
<1>2. /\ main' = Append(main, c) /\ erased' = erased \ req[r].paths /\ object' = object
      /\ moves' = [moves EXCEPT ![r] = moves[r] + 1] /\ Return(r, "ok")
  BY <1>1 DEF UpdateRef, Moved
<1>3. /\ c \in DOMAIN object /\ object[c].parent = main[Len(main)]
      /\ object[c].paths = req[r].paths
  BY <1>0, <1>1 DEF RequestInv, Work, Tip
<1>4. Len(main) \in DOMAIN main
  BY <1>0, <1>1, BranchTypes
<1>5. Grown(Len(main), c)
  <2>1. main \in Seq(DOMAIN object)
    BY <1>0 DEF TypeOK
  <2> HIDE DEF c
  <2>2. QED
    BY <1>2, <1>3, <2>1 DEF Grown
<1>6. CommitsNamed'
  BY <1>0, <1>2 DEF CommitsNamed, TreeOf, ParentTree, EmptyTree
<1>7. pc'[r] = "release" /\ req'[r].out = "ok"
  BY <1>0, <1>2 DEF Return, Request
<1>8. PICK k \in DOMAIN main : k = Len(main)
  BY <1>4
<1>9. PICK x \in DOMAIN object' : x = c
  BY <1>2, <1>3
<1>10. /\ Chain' /\ ErasedStaysErased'
       /\ \A p \in Paths \ object'[x].paths : TreeOf(x)'[p] = TreeOf(main[k])[p]
  BY <1>0, <1>2, <1>3, <1>5, <1>6, <1>8, <1>9, BranchGrows
<1>11. QED
  BY <1>2, <1>4, <1>5, <1>6, <1>7, <1>8, <1>9, <1>10

\* A push cuts the branch, or cuts it and puts one commit on top.
LEMMA PushBranchEffect ==
  ASSUME IInv, BranchInv, NEW r \in Requests, PushBranch(r)
  PROVE  /\ CommitsNamed' /\ Chain' /\ ErasedStaysErased'
         /\ pc'[r] = "release" /\ pc[r] = "locked" /\ req[r].kind = "push"
         /\ \/ /\ UNCHANGED <<object, main, moves>> /\ req'[r].out = "rejected"
            \/ /\ moves' = [moves EXCEPT ![r] = moves[r] + 1] /\ req'[r].out = "ok"
               /\ \E k \in DOMAIN main :
                    \/ main' = SubSeq(main, 1, k) /\ object' = object
                    \/ \E c \in DOMAIN object' :
                         /\ Grown(k, c)
                         /\ \A p \in Paths \ object'[c].paths :
                              TreeOf(c)'[p] = TreeOf(main[k])[p]
<1>0. /\ TypeOK /\ ObjectsLinked /\ CommitsNamed /\ Chain /\ ErasedStaysErased
      /\ TypeOK' /\ ObjectsLinked' /\ ObjectsStay
      /\ req[r] \in Request /\ pc[r] = "locked" /\ req[r].kind = "push"
      /\ req \in [Requests -> Request] /\ pc \in [Requests -> PcStates]
  BY BranchParts DEF Step, PushBranch, TypeOK
<1>1. CASE Return(r, "rejected") /\ UNCHANGED <<object, odb, main, moves, erased>>
  <2>1. Chain' /\ ErasedStaysErased'
    BY <1>0, <1>1, BranchStays
  <2>2. CommitsNamed'
    BY <1>0, <1>1 DEF CommitsNamed, TreeOf, ParentTree, EmptyTree
  <2>3. pc'[r] = "release" /\ req'[r].out = "rejected"
    BY <1>0, <1>1 DEF Return, Request
  <2>4. QED
    BY <1>0, <1>1, <2>1, <2>2, <2>3
<1>2. ASSUME NEW k \in DOMAIN main, main' = SubSeq(main, 1, k), Moved(r), Return(r, "ok"),
             UNCHANGED <<object, odb, erased>>
      PROVE  /\ CommitsNamed' /\ Chain' /\ ErasedStaysErased'
             /\ pc'[r] = "release" /\ req'[r].out = "ok"
             /\ moves' = [moves EXCEPT ![r] = moves[r] + 1]
  <2>1. /\ k \in 1..Len(main) /\ DOMAIN main' = 1..k /\ \A i \in 1..k : main'[i] = main[i]
    <3>1. main \in Seq(DOMAIN object)
      BY <1>0 DEF TypeOK
    <3>2. QED
      BY <1>2, <3>1
  <2>2. CommitsNamed'
    BY <1>0, <1>2 DEF CommitsNamed, TreeOf, ParentTree, EmptyTree
  <2>3. Chain'
    <3>1. \A i \in 1..k : i \in DOMAIN main /\ (i # 1 => i - 1 \in 1..k)
      BY <2>1, <1>0, BranchTypes
    <3>2. QED
      BY <1>0, <1>2, <2>1, <3>1 DEF Chain
  <2>4. ErasedStaysErased'
    <3>1. \A i \in 1..k : i \in DOMAIN main
      BY <2>1, <1>0, BranchTypes
    <3>2. QED
      BY <1>0, <1>2, <2>1, <3>1 DEF ErasedStaysErased, TreeOf
  <2>5. pc'[r] = "release" /\ req'[r].out = "ok"
    BY <1>0, <1>2 DEF Return, Request
  <2>6. QED
    BY <1>2, <2>2, <2>3, <2>4, <2>5 DEF Moved
<1>3. ASSUME NEW k \in DOMAIN main, NEW c \in 1..(Len(object) + 1),
             IF c \in DOMAIN object
               THEN object[c].parent = main[k] /\ UNCHANGED object
               ELSE \E f \in Changesets :
                      object' = Append(object, [parent |-> main[k], paths |-> DOMAIN f,
                                                tree |-> Overwrite(TreeOf(main[k]), f)]),
             main' = Append(SubSeq(main, 1, k), c), Moved(r),
             erased' = erased \ object'[c].paths,
             req' = [req EXCEPT ![r].commit = c, ![r].out = "ok"],
             pc' = [pc EXCEPT ![r] = "release"]
      PROVE  /\ CommitsNamed' /\ Chain' /\ ErasedStaysErased'
             /\ pc'[r] = "release" /\ req'[r].out = "ok"
             /\ moves' = [moves EXCEPT ![r] = moves[r] + 1]
             /\ c \in DOMAIN object' /\ Grown(k, c)
             /\ \A p \in Paths \ object'[c].paths : TreeOf(c)'[p] = TreeOf(main[k])[p]
  <2>0. /\ main[k] \in DOMAIN object /\ TreeOf(main[k]) \in Trees /\ main[k] \in Nat
        /\ DOMAIN object = 1..Len(object) /\ Len(object) \in Nat
    BY <1>0, BranchTypes, CommitTypes DEF TypeOK
  <2>1. CommitsNamed' /\ c \in DOMAIN object' /\ object'[c].parent = main[k]
    <3>1. CASE c \in DOMAIN object
      BY <1>0, <1>3, <3>1 DEF CommitsNamed, TreeOf, ParentTree, EmptyTree
    <3>2. CASE c \notin DOMAIN object
      <4>1. PICK f \in Changesets :
              object' = Append(object, [parent |-> main[k], paths |-> DOMAIN f,
                                        tree |-> Overwrite(TreeOf(main[k]), f)])
        BY <1>3, <3>2
      <4>2. c = Len(object) + 1
        BY <2>0, <3>2
      <4> DEFINE new == [parent |-> main[k], paths |-> DOMAIN f,
                         tree |-> Overwrite(TreeOf(main[k]), f)]
      <4>3. new \in Commit /\ new.parent = main[k]
        BY <2>0, OverwriteType DEF Commit
      <4>4. \A p \in Paths \ new.paths : new.tree[p] = TreeOf(new.parent)[p]
        BY <2>0, <4>3 DEF Overwrite
      <4>5. object' = Append(object, new)
        BY <4>1
      <4> HIDE DEF new
      <4>6. CommitsNamed'
        BY <1>0, <2>0, <4>3, <4>4, <4>5, NamedGrows
      <4>7. c \in DOMAIN object' /\ object'[c] = new
        BY <1>0, <2>0, <4>2, <4>3, <4>5, AppendObject
      <4>8. QED
        BY <4>3, <4>6, <4>7
    <3>3. QED
      BY <3>1, <3>2
  <2>2. Grown(k, c)
    <3>1. main \in Seq(DOMAIN object') /\ c \in DOMAIN object'
      <4>1. DOMAIN object \subseteq DOMAIN object' /\ main \in Seq(DOMAIN object)
        BY <1>0 DEF ObjectsStay, TypeOK
      <4>2. QED
        BY <2>1, <4>1, SeqDef
    <3>2. SubSeq(main, 1, k) \in Seq(DOMAIN object') /\ Len(SubSeq(main, 1, k)) = k
      BY <3>1
    <3>3. \A i \in 1..k : SubSeq(main, 1, k)[i] = main[i]
      BY <3>1
    <3>4. QED
      BY <1>3, <3>1, <3>2, <3>3 DEF Grown
  <2>3. /\ Chain' /\ ErasedStaysErased'
        /\ \A p \in Paths \ object'[c].paths : TreeOf(c)'[p] = TreeOf(main[k])[p]
    BY <1>0, <1>3, <2>1, <2>2, BranchGrows
  <2>4. pc'[r] = "release" /\ req'[r].out = "ok"
    BY <1>0, <1>3 DEF Request
  <2>5. QED
    BY <1>3, <2>1, <2>2, <2>3, <2>4 DEF Moved
<1>4. CASE main # <<>> /\ Tip = req[r].base
  <2>1. PICK k \in DOMAIN main :
         \/ /\ main' = SubSeq(main, 1, k)
            /\ Moved(r)
            /\ Return(r, "ok")
            /\ UNCHANGED <<object, odb, erased>>
         \/ \E c \in 1..(Len(object) + 1) :
            /\ IF c \in DOMAIN object
                 THEN object[c].parent = main[k] /\ UNCHANGED object
                 ELSE \E f \in Changesets :
                        object' = Append(object,
                          [parent |-> main[k], paths |-> DOMAIN f,
                           tree |-> Overwrite(TreeOf(main[k]), f)])
            /\ main' = Append(SubSeq(main, 1, k), c)
            /\ Moved(r)
            /\ erased' = erased \ object'[c].paths
            /\ req' = [req EXCEPT ![r].commit = c, ![r].out = "ok"]
            /\ pc' = [pc EXCEPT ![r] = "release"]
    BY <1>4, Zenon DEF PushBranch
  <2>2. CASE main' = SubSeq(main, 1, k) /\ Moved(r) /\ Return(r, "ok")
               /\ UNCHANGED <<object, odb, erased>>
    BY <1>0, <1>2, <2>2
  <2>3. CASE ~(main' = SubSeq(main, 1, k) /\ Moved(r) /\ Return(r, "ok")
               /\ UNCHANGED <<object, odb, erased>>)
    <3>1. PICK c \in 1..(Len(object) + 1) :
            /\ IF c \in DOMAIN object
                 THEN object[c].parent = main[k] /\ UNCHANGED object
                 ELSE \E f \in Changesets :
                        object' = Append(object,
                          [parent |-> main[k], paths |-> DOMAIN f,
                           tree |-> Overwrite(TreeOf(main[k]), f)])
            /\ main' = Append(SubSeq(main, 1, k), c)
            /\ Moved(r)
            /\ erased' = erased \ object'[c].paths
            /\ req' = [req EXCEPT ![r].commit = c, ![r].out = "ok"]
            /\ pc' = [pc EXCEPT ![r] = "release"]
      BY <2>1, <2>3, Zenon
    <3>2. /\ CommitsNamed' /\ Chain' /\ ErasedStaysErased'
          /\ pc'[r] = "release" /\ req'[r].out = "ok"
          /\ moves' = [moves EXCEPT ![r] = moves[r] + 1]
          /\ c \in DOMAIN object' /\ Grown(k, c)
          /\ \A p \in Paths \ object'[c].paths : TreeOf(c)'[p] = TreeOf(main[k])[p]
      BY <1>3, <3>1, Zenon
    <3>3. QED
      BY <1>0, <3>2
  <2>4. QED
    BY <2>2, <2>3
<1>5. CASE ~(main # <<>> /\ Tip = req[r].base)
  BY <1>1, <1>5 DEF PushBranch
<1>6. QED
  BY <1>4, <1>5

\* A rename's commit retitles the tree of the tip, and names the README only.
LEMMA CommitTitleEffect ==
  ASSUME IInv, BranchInv, NEW r \in Requests, CommitTitle(r)
  PROVE  /\ CommitsNamed' /\ Chain' /\ ErasedStaysErased'
         /\ pc[r] = "attached" /\ req[r].kind = "rename" /\ main # <<>>
         /\ req[r].tree = Titled(TreeOf(Tip), req[r].title)
         /\ req'[r].title = req[r].title /\ req'[r].prior = req[r].prior
         /\ \/ /\ req[r].tree = TreeOf(Tip)
               /\ UNCHANGED <<object, main, moves>>
               /\ pc'[r] = "release"
               /\ req'[r].out = IF req[r].out = "none" THEN "error" ELSE req[r].out
            \/ /\ req[r].tree # TreeOf(Tip)
               /\ moves' = [moves EXCEPT ![r] = moves[r] + 1]
               /\ pc'[r] = IF req[r].out = "none" THEN "titled" ELSE "release"
               /\ req'[r].out = req[r].out
               /\ Len(main) \in DOMAIN main
               /\ \E c \in DOMAIN object' :
                    /\ Grown(Len(main), c) /\ object'[c].paths = {Readme}
                    /\ object'[c].tree = req[r].tree
                    /\ \A p \in Paths \ object'[c].paths :
                         TreeOf(c)'[p] = TreeOf(main[Len(main)])[p]
<1>0. /\ TypeOK /\ ObjectsLinked /\ CommitsNamed /\ Chain /\ ErasedStaysErased
      /\ TypeOK' /\ ObjectsLinked' /\ ObjectsStay
      /\ Work(r) /\ RequestInv(r) /\ req[r] \in Request /\ pc[r] = "attached"
      /\ req \in [Requests -> Request] /\ pc \in [Requests -> PcStates]
  BY BranchParts DEF Step, CommitTitle, TypeOK
<1>1. /\ main # <<>> /\ req[r].tree = Titled(TreeOf(Tip), req[r].title)
      /\ req[r].kind = "rename" /\ req[r].title \in Names
  BY <1>0 DEF Work, RequestInv, Request
<1>2. Tip \in DOMAIN object /\ TreeOf(Tip) \in Trees /\ Tip \in Nat /\ Tip = main[Len(main)]
      /\ Len(main) \in DOMAIN main
  BY <1>0, <1>1, TipType, BranchTypes DEF Tip
<1>3. CASE req[r].tree = TreeOf(Tip)
  <2>1. RenameFailed(r) /\ UNCHANGED <<object, odb, main, moves, erased>>
    BY <1>1, <1>3 DEF CommitTitle
  <2>2. Chain' /\ ErasedStaysErased'
    BY <1>0, <2>1, BranchStays
  <2>3. CommitsNamed'
    BY <1>0, <2>1 DEF CommitsNamed, TreeOf, ParentTree, EmptyTree
  <2>4. /\ pc'[r] = "release"
        /\ req'[r].out = IF req[r].out = "none" THEN "error" ELSE req[r].out
        /\ req'[r].title = req[r].title /\ req'[r].prior = req[r].prior
    BY <1>0, <2>1 DEF RenameFailed, Return, Request
  <2>5. QED
    BY <1>0, <1>1, <1>3, <2>1, <2>2, <2>3, <2>4
<1>4. CASE req[r].tree # TreeOf(Tip)
  <2> DEFINE new == [parent |-> Tip, tree |-> req[r].tree, paths |-> {Readme}]
  <2>1. PICK c : c = Len(object) + 1
    OBVIOUS
  <2>2. /\ object' = Append(object, new) /\ main' = Append(main, c)
        /\ moves' = [moves EXCEPT ![r] = moves[r] + 1]
        /\ erased' = erased \ {Readme}
        /\ req' = [req EXCEPT ![r].commit = c]
        /\ pc' = [pc EXCEPT ![r] = IF req[r].out = "none" THEN "titled" ELSE "release"]
    BY <1>1, <1>4, <2>1 DEF CommitTitle, Moved
  <2>3. /\ new \in Commit /\ new.parent = Tip /\ new.paths = {Readme}
        /\ new.tree = req[r].tree
    BY <1>0, <1>2 DEF Commit, Request, Paths
  <2>4. \A p \in Paths \ new.paths : new.tree[p] = TreeOf(new.parent)[p]
    BY <1>1, <1>2, <2>3 DEF Titled, Trees
  <2> HIDE DEF new
  <2>5. CommitsNamed'
    BY <1>0, <1>2, <2>2, <2>3, <2>4, NamedGrows
  <2>6. c \in DOMAIN object' /\ object'[c] = new
    BY <1>0, <1>2, <2>1, <2>2, <2>3, AppendObject
  <2>7. Grown(Len(main), c)
    <3>1. main \in Seq(DOMAIN object') /\ c \in DOMAIN object'
      <4>1. DOMAIN object \subseteq DOMAIN object' /\ main \in Seq(DOMAIN object)
        BY <1>0 DEF ObjectsStay, TypeOK
      <4>2. QED
        BY <2>6, <4>1, SeqDef
    <3>2. QED
      BY <2>2, <3>1 DEF Grown
  <2>8. PICK k \in DOMAIN main : k = Len(main)
    BY <1>2
  <2>9. /\ Chain' /\ ErasedStaysErased'
        /\ \A p \in Paths \ object'[c].paths : TreeOf(c)'[p] = TreeOf(main[k])[p]
    BY <1>0, <1>2, <2>2, <2>3, <2>5, <2>6, <2>7, <2>8, BranchGrows
  <2>10. /\ pc'[r] = IF req[r].out = "none" THEN "titled" ELSE "release"
         /\ req'[r].out = req[r].out
         /\ req'[r].title = req[r].title /\ req'[r].prior = req[r].prior
    BY <1>0, <2>2 DEF Request
  <2>11. QED
    BY <1>0, <1>1, <1>2, <1>4, <2>2, <2>3, <2>5, <2>6, <2>7, <2>8, <2>9, <2>10
<1>5. QED
  BY <1>3, <1>4

\* A purge leaves an empty branch with one empty commit.
LEMMA EnsureEffect ==
  ASSUME IInv, BranchInv, NEW r \in Requests, EnsureBranchExists(r)
  PROVE  /\ CommitsNamed' /\ Chain' /\ ErasedStaysErased'
         /\ pc[r] = "rewritten" /\ main = <<>>
         /\ moves' = [moves EXCEPT ![r] = moves[r] + 1]
         /\ UNCHANGED <<pc, req>>
         /\ DOMAIN main' = {1} /\ Len(main') = 1 /\ main'[1] \in DOMAIN object'
         /\ object'[main'[1]].tree = EmptyTree
<1>0. /\ TypeOK /\ ObjectsLinked /\ CommitsNamed /\ Chain /\ ErasedStaysErased
      /\ TypeOK' /\ ObjectsLinked' /\ ObjectsStay
      /\ pc[r] = "rewritten" /\ main = <<>>
  BY BranchParts DEF Step, EnsureBranchExists, TypeOK
<1> DEFINE new == [parent |-> 0, tree |-> EmptyTree, paths |-> {}]
<1>1. PICK c : c = Len(object) + 1
  OBVIOUS
<1>2. /\ object' = Append(object, new) /\ main' = <<c>> /\ UNCHANGED <<erased, pc, req>>
      /\ moves' = [moves EXCEPT ![r] = moves[r] + 1]
  BY <1>1 DEF EnsureBranchExists, Moved
<1>3. /\ new \in Commit /\ new.parent = 0 /\ new.tree = EmptyTree
  BY EmptyTreeType DEF Commit
<1> HIDE DEF new
<1>4. /\ DOMAIN object' = DOMAIN object \cup {c} /\ object'[c] = new
      /\ \A i \in DOMAIN object : object'[i] = object[i]
  BY <1>0, <1>1, <1>2, <1>3, AppendObject
<1>5. CommitsNamed'
  <2>1. ASSUME NEW x \in DOMAIN object, NEW p \in Paths \ object'[x].paths
        PROVE  TreeOf(x)'[p] = ParentTree(x)'[p]
    BY <1>0, <2>1, TreesStay DEF CommitsNamed
  <2>2. TreeOf(c)' = EmptyTree /\ ParentTree(c)' = EmptyTree
    BY <1>3, <1>4 DEF TreeOf, ParentTree, EmptyTree
  <2>3. QED
    BY <1>4, <2>1, <2>2 DEF CommitsNamed
<1>6. DOMAIN main' = {1} /\ Len(main') = 1 /\ main'[1] = c
  BY <1>2
<1>7. Chain' /\ ErasedStaysErased'
  <2>1. \A p \in erased : EmptyTree[p] = Absent
    BY <1>0 DEF TypeOK, EmptyTree
  <2>2. QED
    BY <1>2, <1>3, <1>4, <1>6, <2>1 DEF Chain, ErasedStaysErased, TreeOf
<1>8. QED
  BY <1>0, <1>2, <1>3, <1>4, <1>5, <1>6, <1>7

\* What filter-branch makes of the branch: its kept commits in their order, each with
\* its purged tree, on the commit kept before it.
Rewritten(P, n, o) ==
  /\ n <= Len(main) /\ DOMAIN main' = 1..n /\ erased' = erased \cup P
  /\ \A i \in 1..n :
       /\ o[i] \in DOMAIN main
       /\ main'[i] \in DOMAIN object'
       /\ object'[main'[i]].parent = IF i = 1 THEN 0 ELSE main'[i - 1]
       /\ object'[main'[i]].tree = Stripped(P)[o[i]]
  /\ \A c \in DOMAIN object' \ DOMAIN object : \E i \in 1..n :
       /\ c = main'[i]
       /\ object'[c].paths = object[main[o[i]]].paths \ P

LEMMA RewrittenBranch ==
  ASSUME IInv, BranchInv, NEW r \in Requests, FilterBranch(r), NEW P, P = req[r].purge
  PROVE  \E n \in Nat : \E o \in Ascending(n, Kept(P)) : Rewritten(P, n, o)
<1>0. /\ TypeOK /\ ObjectsLinked /\ CommitsNamed /\ Chain /\ ObjectsStay
      /\ object \in Seq(Commit) /\ main \in Seq(DOMAIN object)
  BY BranchParts DEF Step, TypeOK
<1>1. PICK n, same : n = Cardinality(Kept(P)) /\ same = Cardinality(SameSha(P))
  OBVIOUS
<1>2. PICK o \in Ascending(n, Kept(P)) :
        /\ main' = [i \in 1..n |-> RewrittenId(P, i)]
        /\ object' = object \o RewrittenCommits(P, o)
        /\ erased' = erased \cup P
  BY <1>1 DEF FilterBranch
<1>3. /\ n \in Nat /\ same \in Nat /\ same <= n /\ n <= Len(main)
      /\ Len(object) \in Nat /\ Len(main) \in Nat
      /\ DOMAIN main = 1..Len(main) /\ DOMAIN object = 1..Len(object)
      /\ Kept(P) \subseteq DOMAIN main
  BY <1>0, <1>1, KeptBounds
<1>4. /\ SameSha(P) = 1..same
      /\ \A i \in 1..same : o[i] = i /\ Stripped(P)[i] = TreeOf(main[i])
  BY <1>0, <1>1, <1>3, SameShaFirst
<1>5. \A i : RewrittenId(P, i) = IF i <= same THEN main[i] ELSE Len(object) + i - same
  BY <1>1 DEF RewrittenId
<1>6. RewrittenCommits(P, o) = [k \in 1..(n - same) |-> RewrittenCommit(P, o, same + k)]
  BY <1>1 DEF RewrittenCommits
<1>7. \A j \in 1..n : o[j] \in DOMAIN main
  BY <1>3 DEF Ascending
<1>8. /\ DOMAIN object' = 1..(Len(object) + n - same)
      /\ \A k \in 1..(n - same) : object'[Len(object) + k] = RewrittenCommit(P, o, same + k)
  <2>1. PICK fresh : fresh = RewrittenCommits(P, o)
    OBVIOUS
  <2>2. /\ DOMAIN fresh = 1..(n - same) /\ n - same \in Nat
        /\ \A k \in 1..(n - same) : fresh[k] = RewrittenCommit(P, o, same + k)
    BY <1>3, <1>6, <2>1
  <2>3. object' = object \o fresh
    BY <1>2, <2>1
  <2>4. fresh = [k \in 1..(n - same) |-> fresh[k]]
    BY <1>6, <2>1
  <2>5. PICK T : \A k \in 1..(n - same) : fresh[k] \in T
    <3>1. \A k \in 1..(n - same) : fresh[k] \in {fresh[i] : i \in 1..(n - same)}
      OBVIOUS
    <3>2. QED
      BY <3>1
  <2>6. fresh \in Seq(T \cup Commit) /\ Len(fresh) = n - same /\ object \in Seq(T \cup Commit)
    <3>1. fresh \in [1..(n - same) -> T \cup Commit]
      BY <2>4, <2>5
    <3>2. fresh \in Seq(T \cup Commit)
      BY <2>2, <3>1, SeqDef
    <3>3. Len(fresh) = n - same
      BY <2>2, <3>2
    <3>4. QED
      BY <1>0, <3>2, <3>3
  <2>7. /\ object \o fresh \in Seq(T \cup Commit)
        /\ Len(object \o fresh) = Len(object) + Len(fresh)
        /\ \A i \in 1..Len(object) + Len(fresh) : (object \o fresh)[i] =
             IF i <= Len(object) THEN object[i] ELSE fresh[i - Len(object)]
    BY <2>6, ConcatProperties
  <2>8. DOMAIN object' = 1..(Len(object) + n - same)
    BY <1>3, <2>3, <2>6, <2>7
  <2>9. ASSUME NEW k \in 1..(n - same)
        PROVE  object'[Len(object) + k] = RewrittenCommit(P, o, same + k)
    <3>1. /\ Len(object) + k \in 1..(Len(object) + Len(fresh))
          /\ ~(Len(object) + k <= Len(object)) /\ Len(object) + k - Len(object) = k
      BY <1>3, <2>6, <2>9
    <3>2. object'[Len(object) + k] = fresh[k]
      BY <2>3, <2>7, <3>1
    <3>3. QED
      BY <2>2, <2>9, <3>2
  <2>10. QED
    BY <2>8, <2>9
<1>9. \A i \in 1..n : main'[i] = IF i <= same THEN main[i] ELSE Len(object) + (i - same)
  BY <1>2, <1>3, <1>5
<1>10. \A i \in (same + 1)..n :
         /\ main'[i] \in DOMAIN object'
         /\ object'[main'[i]] = RewrittenCommit(P, o, i)
         /\ RewrittenCommit(P, o, i).parent = IF i = 1 THEN 0 ELSE main'[i - 1]
         /\ RewrittenCommit(P, o, i).tree = Stripped(P)[o[i]]
         /\ RewrittenCommit(P, o, i).paths = object[main[o[i]]].paths \ P
  <2> TAKE i \in (same + 1)..n
  <2>1. /\ i - same \in 1..(n - same) /\ same + (i - same) = i /\ i \in 1..n /\ ~(i <= same)
        /\ Len(object) + (i - same) \in 1..(Len(object) + n - same)
        /\ i # 1 => i - 1 \in 1..n
    BY <1>3
  <2>2. object'[Len(object) + (i - same)] = RewrittenCommit(P, o, i)
    BY <1>8, <2>1
  <2>3. i # 1 => main'[i - 1] = RewrittenId(P, i - 1)
    BY <1>2, <2>1
  <2>4. QED
    BY <1>8, <1>9, <2>1, <2>2, <2>3 DEF RewrittenCommit
<1>11. \A i \in 1..same :
         /\ i \in 1..n /\ i \in DOMAIN main
         /\ main'[i] = main[i] /\ main[i] \in DOMAIN object
         /\ object'[main'[i]] = object[main[i]]
         /\ i # 1 => main'[i - 1] = main[i - 1]
  <2> TAKE i \in 1..same
  <2>1. i \in 1..n /\ i \in DOMAIN main /\ i <= same /\ (i # 1 => i - 1 \in 1..n /\ i - 1 <= same)
    BY <1>3
  <2>2. main[i] \in DOMAIN object
    BY <1>0, <2>1, BranchTypes
  <2>3. QED
    BY <1>0, <1>9, <2>1, <2>2 DEF ObjectsStay
<1>12. ASSUME NEW i \in 1..n
       PROVE  /\ o[i] \in DOMAIN main
              /\ main'[i] \in DOMAIN object'
              /\ object'[main'[i]].parent = IF i = 1 THEN 0 ELSE main'[i - 1]
              /\ object'[main'[i]].tree = Stripped(P)[o[i]]
  <2>1. CASE i \in 1..same
    <3>1. object[main[i]].parent = IF i = 1 THEN 0 ELSE main[i - 1]
      BY <1>0, <1>11, <2>1 DEF Chain
    <3>2. object[main[i]].tree = Stripped(P)[o[i]]
      BY <1>4, <2>1 DEF TreeOf
    <3>3. main'[i] \in DOMAIN object'
      BY <1>0, <1>11, <2>1 DEF ObjectsStay
    <3>4. QED
      BY <1>7, <1>11, <2>1, <3>1, <3>2, <3>3
  <2>2. CASE i \in (same + 1)..n
    BY <1>7, <1>10, <2>2
  <2>3. QED
    BY <1>3, <2>1, <2>2
<1>13. ASSUME NEW c \in DOMAIN object' \ DOMAIN object
       PROVE  \E i \in 1..n : c = main'[i] /\ object'[c].paths = object[main[o[i]]].paths \ P
  <2>1. c - Len(object) + same \in (same + 1)..n
    BY <1>3, <1>8
  <2>2. PICK i \in (same + 1)..n : i = c - Len(object) + same
    BY <2>1
  <2>3. i \in 1..n /\ main'[i] = c
    BY <1>3, <1>8, <1>9, <2>2
  <2>4. QED
    BY <1>10, <2>2, <2>3
<1>14. DOMAIN main' = 1..n
  BY <1>2
<1>15. Rewritten(P, n, o)
  BY <1>2, <1>3, <1>12, <1>13, <1>14 DEF Rewritten
<1>16. n \in Nat
  BY <1>3
<1>17. QED
  BY <1>15, <1>16, Zenon

\* The purged trees of the kept commits are what the branch had, less the purged paths.
LEMMA KeptTrees ==
  ASSUME IInv, BranchInv, NEW P, NEW n \in Nat, NEW o \in Ascending(n, Kept(P)),
         \A i \in 1..n : o[i] \in DOMAIN main
  PROVE  /\ \A i \in 1..n : StrippedAt(P, o[i] - 1) =
                              IF i = 1 THEN EmptyTree ELSE Stripped(P)[o[i - 1]]
         /\ StrippedAt(P, Len(main)) = IF n = 0 THEN EmptyTree ELSE Stripped(P)[o[n]]
<1>0. /\ TypeOK /\ main \in Seq(DOMAIN object)
      /\ Len(main) \in Nat /\ DOMAIN main = 1..Len(main) /\ Kept(P) \in SUBSET Nat
  BY BranchTypes DEF IInv, TypeOK, Kept
<1>1. /\ \A i \in 1..n : o[i] \in Kept(P)
      /\ \A i \in 1..n, m \in Kept(P) : i > 1 /\ o[i - 1] < m => o[i] <= m
      /\ \A i \in 1..n, m \in Kept(P) : i = 1 => o[i] <= m
      /\ \A m \in Kept(P) : n > 0 /\ m <= o[n]
  BY <1>0, NothingBetween
<1>2. StrippedAt(P, 0) = EmptyTree /\ \A i \in 1..n : StrippedAt(P, o[i]) = Stripped(P)[o[i]]
  BY <1>0 DEF StrippedAt
<1>3. ASSUME NEW i \in 1..n
      PROVE  StrippedAt(P, o[i] - 1) = IF i = 1 THEN EmptyTree ELSE Stripped(P)[o[i - 1]]
  <2>1. o[i] \in 1..Len(main) /\ o[i] - 1 \in 0..Len(main)
    BY <1>0
  <2>2. CASE i = 1
    <3>1. \A m \in (0 + 1)..(o[i] - 1) : m \notin Kept(P)
      BY <1>1, <2>1, <2>2
    <3>2. 0 \in 0..Len(main) /\ o[i] - 1 \in 0..Len(main)
      BY <1>0, <2>1
    <3>3. StrippedAt(P, o[i] - 1) = StrippedAt(P, 0)
      BY <1>0, <3>1, <3>2, BetweenKept
    <3>4. QED
      BY <1>2, <2>2, <3>3
  <2>3. CASE i # 1
    <3>1. i - 1 \in 1..n /\ i - 1 < i
      BY <2>3
    <3>2. o[i - 1] \in 1..Len(main) /\ o[i - 1] < o[i]
      BY <1>0, <3>1 DEF Ascending
    <3>3. \A m \in (o[i - 1] + 1)..(o[i] - 1) : m \notin Kept(P)
      <4>1. \A m \in Kept(P) : o[i - 1] < m => o[i] <= m
        BY <1>1, <2>3
      <4>2. ASSUME NEW m \in (o[i - 1] + 1)..(o[i] - 1) PROVE o[i - 1] < m /\ ~(o[i] <= m)
        BY <2>1, <3>2
      <4>3. QED
        BY <4>1, <4>2
    <3>4. o[i - 1] \in 0..Len(main) /\ o[i] - 1 \in o[i - 1]..Len(main)
      BY <1>0, <2>1, <3>2
    <3>5. StrippedAt(P, o[i] - 1) = StrippedAt(P, o[i - 1])
      BY <1>0, <3>3, <3>4, BetweenKept
    <3>6. QED
      BY <1>2, <2>3, <3>1, <3>5
  <2>4. QED
    BY <2>2, <2>3
<1>4. StrippedAt(P, Len(main)) = IF n = 0 THEN EmptyTree ELSE Stripped(P)[o[n]]
  <2>1. CASE n = 0
    <3>1. \A m \in (0 + 1)..Len(main) : m \notin Kept(P)
      BY <1>1, <2>1
    <3>2. 0 \in 0..Len(main) /\ Len(main) \in 0..Len(main)
      BY <1>0
    <3>3. StrippedAt(P, Len(main)) = StrippedAt(P, 0)
      BY <1>0, <3>1, <3>2, BetweenKept
    <3>4. QED
      BY <1>2, <2>1, <3>3
  <2>2. CASE n # 0
    <3>1. n \in 1..n /\ o[n] \in 1..Len(main)
      BY <1>0, <2>2
    <3>2. \A m \in (o[n] + 1)..Len(main) : m \notin Kept(P)
      BY <1>1, <3>1
    <3>3. o[n] \in 0..Len(main) /\ Len(main) \in o[n]..Len(main)
      BY <1>0, <3>1
    <3>4. StrippedAt(P, Len(main)) = StrippedAt(P, o[n])
      BY <1>0, <3>2, <3>3, BetweenKept
    <3>5. QED
      BY <1>2, <2>2, <3>1, <3>4
  <2>3. QED
    BY <2>1, <2>2
<1>5. QED
  BY <1>3, <1>4

LEMMA FilterBranchEffect ==
  ASSUME IInv, BranchInv, NEW r \in Requests, FilterBranch(r)
  PROVE  /\ CommitsNamed' /\ Chain' /\ ErasedStaysErased'
         /\ pc[r] = "rewrite" /\ pc' = [pc EXCEPT ![r] = "rewritten"] /\ req' = req
         /\ moves' = [moves EXCEPT ![r] = moves[r] + 1]
         /\ Len(main') <= Len(main)
         /\ \A i \in DOMAIN main', p \in req[r].purge : object'[main'[i]].tree[p] = Absent
         /\ \A p \in Paths \ req[r].purge :
              main # <<>> =>
                TreeOf(main[Len(main)])[p] =
                  IF main' = <<>> THEN Absent ELSE object'[main'[Len(main')]].tree[p]
<1>0. /\ TypeOK /\ ObjectsLinked /\ CommitsNamed /\ Chain /\ ErasedStaysErased
      /\ TypeOK' /\ ObjectsLinked' /\ ObjectsStay /\ req[r] \in Request
      /\ Len(main) \in Nat /\ DOMAIN main = 1..Len(main)
      /\ \A i \in DOMAIN main : main[i] \in DOMAIN object
  BY BranchParts, BranchTypes DEF Step, TypeOK
<1>1. /\ pc[r] = "rewrite" /\ pc' = [pc EXCEPT ![r] = "rewritten"] /\ req' = req
      /\ moves' = [moves EXCEPT ![r] = moves[r] + 1]
  BY DEF FilterBranch, Moved
<1>2. PICK P \in SUBSET Paths : P = req[r].purge
  BY <1>0 DEF Request
<1>3. PICK n \in Nat : \E o \in Ascending(n, Kept(P)) : Rewritten(P, n, o)
  BY <1>2, RewrittenBranch
<1>4. PICK o \in Ascending(n, Kept(P)) : Rewritten(P, n, o)
  BY <1>3
<1> USE DEF Rewritten
<1>5. /\ \A i \in 1..n : StrippedAt(P, o[i] - 1) =
                           IF i = 1 THEN EmptyTree ELSE Stripped(P)[o[i - 1]]
      /\ StrippedAt(P, Len(main)) = IF n = 0 THEN EmptyTree ELSE Stripped(P)[o[n]]
  BY <1>4, KeptTrees
<1>6. \A j \in DOMAIN main, p \in Paths :
        Stripped(P)[j][p] = IF p \in P THEN Absent ELSE TreeOf(main[j])[p]
  BY DEF Stripped, Strip
<1>7. \A p \in Paths : EmptyTree[p] = Absent
  BY DEF EmptyTree
<1>8. Chain'
  BY <1>4 DEF Chain
<1>9. \A i \in DOMAIN main', p \in P : object'[main'[i]].tree[p] = Absent
  BY <1>4, <1>6
<1>10. ErasedStaysErased'
  <2>1. ASSUME NEW i \in 1..n, NEW p \in erased PROVE object'[main'[i]].tree[p] = Absent
    <3>1. p \in Paths /\ TreeOf(main[o[i]])[p] = Absent
      BY <1>0, <1>4 DEF ErasedStaysErased, TypeOK
    <3>2. object'[main'[i]].tree = Stripped(P)[o[i]] /\ o[i] \in DOMAIN main
      BY <1>4
    <3>3. QED
      BY <1>6, <3>1, <3>2
  <2>2. QED
    BY <1>4, <1>9, <2>1 DEF ErasedStaysErased, TreeOf
<1>11. CommitsNamed'
  <2>1. ASSUME NEW x \in DOMAIN object, NEW p \in Paths \ object'[x].paths
        PROVE  TreeOf(x)'[p] = ParentTree(x)'[p]
    BY <1>0, <2>1, TreesStay DEF CommitsNamed
  <2>2. ASSUME NEW c \in DOMAIN object' \ DOMAIN object, NEW p \in Paths \ object'[c].paths
        PROVE  TreeOf(c)'[p] = ParentTree(c)'[p]
    <3>1. PICK i \in 1..n : c = main'[i] /\ object'[c].paths = object[main[o[i]]].paths \ P
      BY <1>4
    <3>2. /\ object'[c].tree = Stripped(P)[o[i]] /\ o[i] \in DOMAIN main
          /\ object'[c].parent = IF i = 1 THEN 0 ELSE main'[i - 1]
      BY <1>4, <3>1
    <3>3. ParentTree(c)' = IF i = 1 THEN EmptyTree ELSE Stripped(P)[o[i - 1]]
      <4>1. CASE i = 1
        BY <3>2, <4>1 DEF ParentTree, EmptyTree
      <4>2. CASE i # 1
        <5>1. i - 1 \in 1..n
          BY <4>2
        <5>2. main'[i - 1] # 0 /\ object'[main'[i - 1]].tree = Stripped(P)[o[i - 1]]
          <6>1. main'[i - 1] \in DOMAIN object' /\ 0 \notin DOMAIN object'
            <7>1. object' \in Seq(Commit)
              BY <1>0 DEF TypeOK
            <7>2. 0 \notin DOMAIN object'
              BY <7>1
            <7>3. main'[i - 1] \in DOMAIN object'
              BY <1>4, <5>1
            <7>4. QED
              BY <7>2, <7>3
          <6>2. QED
            BY <1>4, <5>1, <6>1
        <5>3. QED
          BY <3>2, <4>2, <5>2 DEF ParentTree, TreeOf
      <4>3. QED
        BY <4>1, <4>2
    <3>4. ParentTree(c)' = StrippedAt(P, o[i] - 1)
      BY <1>5, <3>3
    <3>5. CASE p \in P
      <4>1. Stripped(P)[o[i]][p] = Absent
        BY <1>6, <3>2, <3>5
      <4>2. StrippedAt(P, o[i] - 1)[p] = Absent
        <5>1. o[i] - 1 # 0 => o[i] - 1 \in DOMAIN main
          BY <1>0, <3>2
        <5>2. QED
          BY <1>6, <1>7, <3>5, <5>1 DEF StrippedAt
      <4>3. QED
        BY <3>2, <3>4, <4>1, <4>2 DEF TreeOf
    <3>6. CASE p \notin P
      <4>1. p \in Paths \ object[main[o[i]]].paths
        BY <2>2, <3>1, <3>6
      <4>2. TreeOf(main[o[i]])[p] =
              IF o[i] = 1 THEN EmptyTree[p] ELSE TreeOf(main[o[i] - 1])[p]
        BY <1>0, <3>2, <4>1, ChainNamed
      <4>3. StrippedAt(P, o[i] - 1)[p] = TreeOf(main[o[i]])[p]
        <5>1. o[i] # 1 => o[i] - 1 \in DOMAIN main /\ o[i] - 1 # 0
          BY <1>0, <3>2
        <5>2. o[i] = 1 => o[i] - 1 = 0
          OBVIOUS
        <5>3. QED
          BY <1>6, <3>6, <4>2, <5>1, <5>2 DEF StrippedAt
      <4>4. QED
        BY <1>6, <3>2, <3>4, <3>6, <4>3 DEF TreeOf
    <3>7. QED
      BY <3>5, <3>6
  <2>3. QED
    BY <2>1, <2>2 DEF CommitsNamed
<1>12. Len(main') = n /\ (main' = <<>> <=> n = 0)
  BY <1>0, <1>4 DEF TypeOK
<1>13. ASSUME NEW p \in Paths \ P, main # <<>>
       PROVE  TreeOf(main[Len(main)])[p] =
                IF main' = <<>> THEN Absent ELSE object'[main'[Len(main')]].tree[p]
  <2>1. Len(main) \in DOMAIN main /\ Len(main) # 0
    BY <1>0, <1>13, BranchTypes
  <2>2. StrippedAt(P, Len(main))[p] = TreeOf(main[Len(main)])[p]
    BY <1>6, <1>13, <2>1 DEF StrippedAt
  <2>3. n # 0 => n \in 1..n
    OBVIOUS
  <2>4. QED
    BY <1>4, <1>5, <1>7, <1>12, <2>2, <2>3
<1>14. QED
  BY <1>1, <1>2, <1>4, <1>8, <1>9, <1>10, <1>11, <1>12, <1>13
----------------------------------------------------------------------------
(* Every step keeps what the invariant says of the branch. *)

LEMMA StepBranch ==
  ASSUME IInv, BranchInv, NEW r \in Requests, Step(r) \/ Cancel(r)
  PROVE  CommitsNamed' /\ Chain' /\ ErasedStaysErased'
<1>1. CASE \/ UpdateRef(r) \/ PushBranch(r) \/ CommitTitle(r) \/ FilterBranch(r)
           \/ EnsureBranchExists(r) \/ CommitTree(r)
  BY <1>1, UpdateRefEffect, PushBranchEffect, CommitTitleEffect, FilterBranchEffect,
     EnsureEffect, CommitTreeEffect
<1>2. CASE UNCHANGED <<object, main, erased>>
  <2>1. TypeOK /\ ObjectsLinked /\ ObjectsStay /\ CommitsNamed /\ Chain /\ ErasedStaysErased
    BY BranchParts
  <2>2. CommitsNamed'
    BY <1>2, <2>1 DEF CommitsNamed, TreeOf, ParentTree, EmptyTree
  <2>3. QED
    BY <1>2, <2>1, <2>2, BranchStays
<1>3. QED
  BY <1>1, <1>2, StillSteps

\* A step moves the branch at most once, and only for its own request.
LEMMA StepMoves ==
  ASSUME IInv, BranchInv, NEW r \in Requests, Step(r) \/ Cancel(r)
  PROVE  /\ moves' = moves \/ moves' = [moves EXCEPT ![r] = moves[r] + 1]
         /\ \A s \in Requests \ {r} : moves'[s] = moves[s]
<1>1. moves' = moves \/ moves' = [moves EXCEPT ![r] = moves[r] + 1]
  BY StillSteps, UpdateRefEffect, PushBranchEffect, CommitTitleEffect, FilterBranchEffect,
     EnsureEffect
<1>2. QED
  BY <1>1, BranchParts DEF IInv, TypeOK

LEMMA OthersBranch ==
  ASSUME IInv, NEW r \in Requests, Step(r) \/ Cancel(r),
         NEW s \in Requests \ {r}, pc[s] \in Critical
  PROVE  main' = main
<1>1. MutualExclusion /\ pc \in [Requests -> PcStates]
  BY DEF IInv, TypeOK
<1>2. CASE Acquire(r) \/ Release(r)
  BY <1>2 DEF Acquire, Release, repo
<1>3. CASE Inside(r)
  BY <1>1, <1>3 DEF Inside, MutualExclusion
<1>4. QED
  BY <1>1, <1>2, <1>3, StepInside

LEMMA OthersHistory ==
  ASSUME IInv, BranchInv, NEW r \in Requests, Step(r) \/ Cancel(r),
         NEW s \in Requests \ {r}
  PROVE  Work(s)' /\ MovesSoFar(s)'
<1>1. /\ TypeOK /\ ObjectsLinked /\ ObjectsStay /\ Work(s) /\ MovesSoFar(s)
      /\ pc'[s] = pc[s] /\ req'[s] = req[s] /\ moves'[s] = moves[s] /\ RequestInv(s)
  BY BranchParts, StepMoves DEF BranchInv, IInv
<1>2. pc[s] \in {"attached", "rewritten"} => main' = main
  BY OthersBranch DEF Critical, InFlight, PcStates
<1>3. \A c \in DOMAIN object : object'[c] = object[c] /\ TreeOf(c)' = TreeOf(c)
                              /\ c \in DOMAIN object'
  BY <1>1, TreesStay
<1>4. pc[s] \in Building => req[s].cur \in DOMAIN object
  BY <1>1 DEF Work
<1>5. TreeOf(req[s].cur)' = object'[req'[s].cur].tree
  BY DEF TreeOf
<1>6. pc[s] = "checkedout" => req'[s].tree = TreeOf(req[s].cur)'
  BY <1>1, <1>3, <1>4 DEF Work, TreeOf, Building
<1>7. pc[s] = "staged" => \A p \in Paths \ req'[s].paths :
                            req'[s].tree[p] = TreeOf(req[s].cur)'[p]
  BY <1>1, <1>3, <1>4 DEF Work, TreeOf, Building
<1>8. pc[s] = "committed" => object'[req'[s].commit].paths = req'[s].paths
  BY <1>1, <1>3 DEF Work, RequestInv
<1>9. pc[s] = "attached" =>
        main' # <<>> /\ req'[s].tree = Titled(TreeOf(Tip)', req'[s].title)
  <2>1. main # <<>> => Tip \in DOMAIN object
    BY <1>1, TipType
  <2>2. QED
    BY <1>1, <1>2, <1>3, <2>1 DEF Work, TreeOf, Tip
<1>10. pc[s] = "rewritten" =>
         \A i \in DOMAIN main', p \in req'[s].purge : object'[main'[i]].tree[p] = Absent
  <2>1. \A i \in DOMAIN main : main[i] \in DOMAIN object
    BY <1>1, BranchTypes
  <2>2. QED
    BY <1>1, <1>2, <1>3, <2>1 DEF Work, TreeOf
<1>11. Work(s)'
  BY <1>1, <1>3, <1>4, <1>6, <1>7, <1>8, <1>9, <1>10 DEF Work, TreeOf, Titled
<1>12. MovesSoFar(s)'
  BY <1>1, <1>2 DEF MovesSoFar
<1>13. QED
  BY <1>11, <1>12
----------------------------------------------------------------------------
(* What a step leaves its own request with. *)

LEMMA ReturnEffect ==
  ASSUME TypeOK, NEW r \in Requests, NEW out, Return(r, out)
  PROVE  /\ pc'[r] = "release" /\ req'[r].out = out
         /\ req'[r].kind = req[r].kind
BY DEF Return, TypeOK, Request

\* Nothing is asked of a request that waits to be released, or is between two tries.
LEMMA QuietWork ==
  ASSUME IInv, BranchInv, NEW r \in Requests, Step(r) \/ Cancel(r),
         pc'[r] \in {"locked", "attach", "titled", "release", "done"},
         req'[r].out = "preview" => req[r].kind = "changeset"
  PROVE  Work(r)'
<1>1. Work(r) /\ pc[r] # "idle" /\ req'[r].kind = req[r].kind
  BY BranchParts DEF InFlight
<1>2. req[r].kind # "none"
  BY <1>1 DEF Work
<1>3. QED
  BY <1>1, <1>2 DEF Work, Building

\* An answer that agrees with the moves of the branch.
LEMMA AnsweredHistory ==
  ASSUME IInv, BranchInv, NEW r \in Requests, Step(r) \/ Cancel(r), pc'[r] = "release",
         req'[r].out # "none",
         req'[r].out = "preview" => req[r].kind = "changeset",
         req[r].kind \notin {"rename", "purge"} => moves'[r] <= 1,
         req'[r].out \notin {"ok", "lost"} /\ req[r].kind # "rename" => moves'[r] = 0,
         req'[r].out = "ok" /\ req[r].kind \in {"changeset", "revert"} => moves'[r] = 1
  PROVE  Work(r)' /\ MovesSoFar(r)'
<1>1. req'[r].kind = req[r].kind
  BY BranchParts
<1>2. Work(r)'
  BY QuietWork
<1>3. MovesSoFar(r)'
  BY <1>1 DEF MovesSoFar, Building
<1>4. QED
  BY <1>2, <1>3

LEMMA LockHistory ==
  ASSUME IInv, BranchInv, NEW r \in Requests,
         \/ Acquire(r) \/ Release(r) \/ SetArchived(r) \/ SetDeleted(r)
  PROVE  Work(r)' /\ MovesSoFar(r)'
<1>0. /\ TypeOK /\ Work(r) /\ MovesSoFar(r) /\ RequestInv(r) /\ req[r] \in Request
      /\ req \in [Requests -> Request] /\ pc \in [Requests -> PcStates] /\ Step(r)
  BY BranchParts DEF Step, TypeOK
<1>1. CASE Acquire(r)
  <2>1. pc'[r] = "locked" /\ req' = req /\ moves' = moves /\ pc[r] = "wait"
    BY <1>0, <1>1 DEF Acquire
  <2>2. Work(r)'
    BY <1>0, <2>1, QuietWork DEF Work
  <2>3. QED
    BY <1>0, <2>1, <2>2 DEF MovesSoFar, Building
<1>2. CASE Release(r)
  <2>1. /\ pc'[r] = "done" /\ moves' = moves /\ pc[r] = "release"
        /\ req'[r].out = req[r].out /\ req'[r].kind = req[r].kind
    BY <1>0, <1>2 DEF Release, Request
  <2>2. Work(r)'
    BY <1>0, <2>1, QuietWork DEF Work
  <2>3. QED
    BY <1>0, <2>1, <2>2 DEF MovesSoFar, Building
<1>3. CASE SetArchived(r) \/ SetDeleted(r)
  <2>1. /\ pc[r] = "locked" /\ moves' = moves
        /\ req[r].kind \in {"archive", "unarchive", "delete", "restore"}
        /\ Return(r, "ok") \/ Return(r, "notfound")
    BY <1>3 DEF SetArchived, SetDeleted
  <2>2. moves'[r] = 0
    BY <1>0, <2>1 DEF MovesSoFar
  <2>3. pc'[r] = "release" /\ req'[r].out \in {"ok", "notfound"}
    BY <1>0, <2>1, ReturnEffect
  <2>4. QED
    BY <1>0, <2>1, <2>2, <2>3, AnsweredHistory
<1>4. QED
  BY <1>1, <1>2, <1>3

LEMMA BuildHistory ==
  ASSUME IInv, BranchInv, NEW r \in Requests,
         \/ ReadHead(r) \/ CheckOut(r) \/ StageChangeset(r) \/ StageRevert(r)
         \/ CommitTree(r) \/ UpdateRef(r)
  PROVE  Work(r)' /\ MovesSoFar(r)'
<1>0. /\ TypeOK /\ ObjectsLinked /\ Work(r) /\ MovesSoFar(r) /\ RequestInv(r)
      /\ req[r] \in Request /\ ObjectsStay
      /\ req \in [Requests -> Request] /\ pc \in [Requests -> PcStates] /\ Step(r)
      /\ moves[r] \in Nat /\ moves \in [Requests -> Nat]
      /\ req'[r].kind = req[r].kind
  BY BranchParts DEF Step, TypeOK
<1>1. pc[r] \in {"locked"} \cup Building /\ req[r].kind \in {"changeset", "revert"}
  BY <1>0 DEF ReadHead, CheckOut, StageChangeset, StageRevert, CommitTree, UpdateRef,
              RequestInv, Building
<1>2. moves[r] = 0 /\ req[r].out = "none"
  BY <1>0, <1>1 DEF MovesSoFar, RequestInv
<1>3. ASSUME moves' = moves, NEW out \in {"error", "conflict", "notfound", "rejected"},
             Return(r, out)
      PROVE  Work(r)' /\ MovesSoFar(r)'
  BY <1>0, <1>1, <1>2, <1>3, ReturnEffect, AnsweredHistory
<1>4. ASSUME moves' = moves, pc'[r] \in Building, req'[r].out = req[r].out,
             req'[r].cur \in DOMAIN object',
             pc'[r] = "checkedout" => req'[r].tree = object'[req'[r].cur].tree,
             pc'[r] = "staged" => \A p \in Paths \ req'[r].paths :
                                    req'[r].tree[p] = object'[req'[r].cur].tree[p],
             pc'[r] = "committed" => object'[req'[r].commit].paths = req'[r].paths
      PROVE  Work(r)' /\ MovesSoFar(r)'
  <2>1. Work(r)'
    BY <1>0, <1>1, <1>2, <1>4 DEF Work, Building, TreeOf
  <2>2. MovesSoFar(r)'
    BY <1>2, <1>4 DEF MovesSoFar, Building
  <2>3. QED
    BY <2>1, <2>2
<1>5. CASE ReadHead(r)
  <2>1. CASE HeadAnswer(r) # "none"
    <3>1. Return(r, HeadAnswer(r)) /\ moves' = moves
      BY <1>5, <2>1 DEF ReadHead
    <3>2. HeadAnswer(r) \in {"error", "conflict", "notfound"}
      BY <2>1 DEF HeadAnswer
    <3>3. QED
      BY <1>3, <3>1, <3>2
  <2>2. CASE HeadAnswer(r) = "none"
    <3>1. main # <<>>
      BY <2>2 DEF HeadAnswer
    <3>2. Tip \in DOMAIN object
      BY <1>0, <3>1, TipType
    <3>3. /\ req' = [req EXCEPT ![r].cur = Tip] /\ pc' = [pc EXCEPT ![r] = "resolved"]
          /\ object' = object /\ moves' = moves
      BY <1>5, <2>2 DEF ReadHead, repo
    <3>4. /\ pc'[r] = "resolved" /\ req'[r].cur = Tip /\ req'[r].out = req[r].out
      BY <1>0, <3>3 DEF Request
    <3>5. QED
      BY <1>4, <3>2, <3>3, <3>4 DEF Building
  <2>3. QED
    BY <2>1, <2>2
<1>6. CASE CheckOut(r)
  <2>1. /\ req' = [req EXCEPT ![r].tree = TreeOf(Tip)]
        /\ pc' = [pc EXCEPT ![r] = "checkedout"]
        /\ object' = object /\ moves' = moves /\ pc[r] = "resolved"
    BY <1>6 DEF CheckOut, repo
  <2>2. Tip = req[r].cur /\ req[r].cur \in DOMAIN object
    BY <1>0, <2>1 DEF IInv, HeadIsStable, Work, Building
  <2>3. /\ pc'[r] = "checkedout" /\ req'[r].cur = req[r].cur /\ req'[r].out = req[r].out
        /\ req'[r].tree = TreeOf(Tip)
    BY <1>0, <2>1 DEF Request
  <2>4. QED
    BY <1>4, <2>1, <2>2, <2>3 DEF Building, TreeOf
<1>7. CASE StageChangeset(r)
  <2>1. CASE Return(r, "rejected")
    BY <1>3, <1>7, <2>1 DEF StageChangeset
  <2>2. CASE Return(r, "preview")
    <3>1. moves' = moves /\ req[r].kind = "changeset"
      BY <1>7 DEF StageChangeset
    <3>2. pc'[r] = "release" /\ req'[r].out = "preview"
      BY <1>0, <2>2, ReturnEffect
    <3>3. QED
      BY <1>0, <1>2, <3>1, <3>2, AnsweredHistory
  <2>3. CASE ~Return(r, "rejected") /\ ~Return(r, "preview")
    <3>1. PICK f \in Changesets : req' = [req EXCEPT ![r].tree = Overwrite(req[r].tree, f),
                                                     ![r].paths = DOMAIN f]
      BY <1>0, <1>7, <2>3 DEF StageChangeset
    <3>2. /\ pc' = [pc EXCEPT ![r] = "staged"] /\ object' = object /\ moves' = moves
          /\ pc[r] = "checkedout"
      BY <1>7, <2>3 DEF StageChangeset, repo
    <3>3. req[r].cur \in DOMAIN object /\ req[r].tree = TreeOf(req[r].cur)
      BY <1>0, <3>2 DEF Work, Building
    <3>4. PICK tree, paths : tree = Overwrite(req[r].tree, f) /\ paths = DOMAIN f
      OBVIOUS
    <3>5. req' = [req EXCEPT ![r].tree = tree, ![r].paths = paths]
      BY <3>1, <3>4
    <3>6. /\ pc'[r] = "staged" /\ req'[r].cur = req[r].cur /\ req'[r].out = req[r].out
          /\ req'[r].tree = tree /\ req'[r].paths = paths
      BY <1>0, <3>2, <3>5 DEF Request
    <3>7. \A p \in Paths \ paths : tree[p] = TreeOf(req[r].cur)[p]
      BY <3>3, <3>4 DEF Overwrite
    <3>8. QED
      BY <1>4, <3>2, <3>3, <3>6, <3>7 DEF Building, TreeOf
  <2>4. QED
    BY <2>1, <2>2, <2>3
<1>8. CASE StageRevert(r)
  <2>1. CASE Return(r, "error")
    BY <1>3, <1>8, <2>1 DEF StageRevert
  <2>2. CASE ~Return(r, "error")
    <3>1. /\ req' = [req EXCEPT ![r].tree = Reversed(req[r].base, req[r].tree),
                                ![r].paths = Diff(req[r].base)]
          /\ pc' = [pc EXCEPT ![r] = "staged"] /\ object' = object /\ moves' = moves
          /\ pc[r] = "checkedout"
      BY <1>0, <1>8, <2>2 DEF StageRevert, repo
    <3>2. req[r].cur \in DOMAIN object /\ req[r].tree = TreeOf(req[r].cur)
      BY <1>0, <3>1 DEF Work, Building
    <3>3. PICK tree, paths : tree = Reversed(req[r].base, req[r].tree)
                             /\ paths = Diff(req[r].base)
      OBVIOUS
    <3>4. req' = [req EXCEPT ![r].tree = tree, ![r].paths = paths]
      BY <3>1, <3>3
    <3>5. /\ pc'[r] = "staged" /\ req'[r].cur = req[r].cur /\ req'[r].out = req[r].out
          /\ req'[r].tree = tree /\ req'[r].paths = paths
      BY <1>0, <3>1, <3>4 DEF Request
    <3>6. \A p \in Paths \ paths : tree[p] = TreeOf(req[r].cur)[p]
      BY <3>2, <3>3 DEF Reversed
    <3>7. QED
      BY <1>4, <3>1, <3>2, <3>5, <3>6 DEF Building, TreeOf
  <2>3. QED
    BY <2>1, <2>2
<1>9. CASE CommitTree(r)
  <2> DEFINE new == [parent |-> req[r].cur, tree |-> req[r].tree, paths |-> req[r].paths]
  <2>1. PICK c : c = Len(object) + 1
    OBVIOUS
  <2>2. /\ object' = Append(object, new) /\ moves' = moves /\ pc[r] = "staged"
        /\ req' = [req EXCEPT ![r].commit = c]
        /\ pc' = [pc EXCEPT ![r] = "committed"]
    BY <1>9, <2>1 DEF CommitTree
  <2>3. req[r].cur \in DOMAIN object
    BY <1>0, <2>2 DEF Work, Building
  <2>4. /\ new \in Commit /\ new.parent = req[r].cur /\ new.paths = req[r].paths
    BY <1>0, <2>3, CommitTypes DEF Commit, Request
  <2> HIDE DEF new
  <2>5. object'[c] = new /\ DOMAIN object \subseteq DOMAIN object'
    BY <1>0, <2>1, <2>2, <2>3, <2>4, AppendObject
  <2>6. /\ pc'[r] = "committed" /\ req'[r].cur = req[r].cur /\ req'[r].out = req[r].out
        /\ req'[r].commit = c /\ req'[r].paths = req[r].paths
    BY <1>0, <2>2 DEF Request
  <2>7. QED
    BY <1>4, <2>2, <2>3, <2>4, <2>5, <2>6 DEF Building
<1>10. CASE UpdateRef(r)
  <2>1. /\ moves' = [moves EXCEPT ![r] = moves[r] + 1]
        /\ pc'[r] = "release" /\ req'[r].out = "ok"
    BY <1>10, UpdateRefEffect
  <2>2. moves'[r] = 1
    BY <1>0, <1>2, <2>1
  <2>3. QED
    BY <1>0, <1>1, <2>1, <2>2, AnsweredHistory
<1>11. QED
  BY <1>5, <1>6, <1>7, <1>8, <1>9, <1>10

LEMMA PushHistory ==
  ASSUME IInv, BranchInv, NEW r \in Requests, PushOtherRef(r) \/ PushBranch(r)
  PROVE  Work(r)' /\ MovesSoFar(r)'
<1>0. /\ TypeOK /\ MovesSoFar(r) /\ Step(r)
      /\ moves[r] \in Nat /\ moves \in [Requests -> Nat]
  BY BranchParts DEF Step, TypeOK
<1>1. pc[r] = "locked" /\ req[r].kind = "push"
  BY DEF PushOtherRef, PushBranch
<1>2. moves[r] = 0
  BY <1>0, <1>1 DEF MovesSoFar
<1>3. CASE PushOtherRef(r)
  <2>1. pc'[r] = "release" /\ req'[r].out = "ok" /\ moves' = moves
    BY <1>0, <1>3, ReturnEffect DEF PushOtherRef
  <2>2. QED
    BY <1>0, <1>1, <1>2, <2>1, AnsweredHistory
<1>4. CASE PushBranch(r)
  <2>1. /\ pc'[r] = "release"
        /\ \/ moves' = moves /\ req'[r].out = "rejected"
           \/ moves' = [moves EXCEPT ![r] = moves[r] + 1] /\ req'[r].out = "ok"
    BY <1>4, PushBranchEffect
  <2>2. QED
    BY <1>0, <1>1, <1>2, <2>1, AnsweredHistory
<1>5. QED
  BY <1>3, <1>4

LEMMA RenameHistory ==
  ASSUME IInv, BranchInv, NEW r \in Requests,
         RenameLookup(r) \/ AttachWorktree(r) \/ CommitTitle(r) \/ StoreRename(r)
  PROVE  Work(r)' /\ MovesSoFar(r)'
<1>0. /\ TypeOK /\ Work(r) /\ MovesSoFar(r) /\ RequestInv(r) /\ req[r] \in Request
      /\ req \in [Requests -> Request] /\ pc \in [Requests -> PcStates] /\ Step(r)
      /\ moves[r] \in Nat /\ moves \in [Requests -> Nat]
      /\ req'[r].kind = req[r].kind
  BY BranchParts DEF Step, TypeOK
<1>1. req[r].kind = "rename" /\ req[r].out # "preview" /\ pc[r] # "idle"
  BY <1>0 DEF RenameLookup, AttachWorktree, CommitTitle, StoreRename, RequestInv, Work
<1>2. ASSUME pc'[r] = "release", req'[r].out \notin {"none", "preview"}
      PROVE  Work(r)' /\ MovesSoFar(r)'
  BY <1>0, <1>1, <1>2, AnsweredHistory
<1>3. ASSUME pc'[r] \in {"attach", "titled"}, req'[r].out # "preview",
             pc'[r] = "attach" => moves'[r] = IF req'[r].out = "none" THEN 0 ELSE 1,
             pc'[r] = "titled" => moves'[r] = 1 /\ req'[r].out = "none"
      PROVE  Work(r)' /\ MovesSoFar(r)'
  <2>1. Work(r)'
    BY <1>0, <1>3, QuietWork
  <2>2. MovesSoFar(r)'
    BY <1>3 DEF MovesSoFar, Building
  <2>3. QED
    BY <2>1, <2>2
<1>4. CASE RenameLookup(r)
  <2>1. pc[r] = "locked" /\ moves' = moves
    BY <1>4 DEF RenameLookup
  <2>2. moves[r] = 0 /\ req[r].out = "none"
    BY <1>0, <2>1 DEF MovesSoFar, RequestInv
  <2>3. CASE Return(r, "notfound") \/ Return(r, "ok")
    BY <1>0, <1>2, <2>3, ReturnEffect
  <2>4. CASE ~(Return(r, "notfound") \/ Return(r, "ok"))
    <3>1. req' = [req EXCEPT ![r].prior = name] /\ pc' = [pc EXCEPT ![r] = "attach"]
      BY <1>4, <2>4 DEF RenameLookup
    <3>2. pc'[r] = "attach" /\ req'[r].out = "none"
      BY <1>0, <2>2, <3>1 DEF Request
    <3>3. QED
      BY <1>3, <2>1, <2>2, <3>2
  <2>5. QED
    BY <2>3, <2>4
<1>5. CASE AttachWorktree(r)
  <2>1. pc[r] = "attach" /\ moves' = moves /\ main' = main /\ object' = object
    BY <1>5 DEF AttachWorktree
  <2>2. CASE attached \/ main = <<>>
    <3>1. Return(r, IF req[r].out = "none" THEN "error" ELSE req[r].out)
      BY <1>5, <2>2 DEF AttachWorktree, RenameFailed
    <3>2. QED
      BY <1>0, <1>1, <1>2, <3>1, ReturnEffect
  <2>3. CASE ~(attached \/ main = <<>>)
    <3>1. PICK tree : tree = Titled(TreeOf(Tip), req[r].title)
      OBVIOUS
    <3>2. req' = [req EXCEPT ![r].tree = tree] /\ pc' = [pc EXCEPT ![r] = "attached"]
      BY <1>5, <2>3, <3>1 DEF AttachWorktree
    <3>3. /\ pc'[r] = "attached" /\ req'[r].tree = tree /\ req'[r].title = req[r].title
          /\ req'[r].out = req[r].out
      BY <1>0, <3>2 DEF Request
    <3>4. main' # <<>> /\ req'[r].tree = Titled(object'[Tip'].tree, req'[r].title)
      BY <2>1, <2>3, <3>1, <3>3 DEF TreeOf, Tip, Titled
    <3>5. Work(r)'
      <4>1. req[r].kind # "none"
        BY <1>1
      <4>2. QED
        BY <1>0, <1>1, <3>3, <3>4, <4>1 DEF Work, Building, TreeOf
    <3>6. MovesSoFar(r)'
      BY <1>0, <2>1, <3>3 DEF MovesSoFar, Building
    <3>7. QED
      BY <3>5, <3>6
  <2>4. QED
    BY <2>2, <2>3
<1>6. CASE CommitTitle(r)
  <2>1. pc[r] = "attached" /\ moves[r] = IF req[r].out = "none" THEN 0 ELSE 1
    BY <1>0, <1>6 DEF CommitTitle, MovesSoFar
  <2>2. CASE /\ pc'[r] = "release"
             /\ req'[r].out = IF req[r].out = "none" THEN "error" ELSE req[r].out
    BY <1>1, <1>2, <2>2
  <2>3. CASE /\ moves' = [moves EXCEPT ![r] = moves[r] + 1]
             /\ pc'[r] = IF req[r].out = "none" THEN "titled" ELSE "release"
             /\ req'[r].out = req[r].out
    <3>1. moves'[r] = moves[r] + 1
      BY <1>0, <2>3
    <3>2. QED
      BY <1>1, <1>2, <1>3, <2>1, <2>3, <3>1
  <2>4. QED
    BY <1>6, <2>2, <2>3, CommitTitleEffect
<1>7. CASE StoreRename(r)
  <2>1. pc[r] = "titled" /\ moves' = moves /\ moves[r] = 1
    BY <1>0, <1>7 DEF StoreRename, MovesSoFar
  <2>2. CASE Return(r, "ok")
    BY <1>0, <1>2, <2>2, ReturnEffect
  <2>3. CASE ~Return(r, "ok")
    <3>1. /\ req' = [req EXCEPT ![r].title = req[r].prior, ![r].out = "conflict"]
          /\ pc' = [pc EXCEPT ![r] = "attach"]
      BY <1>7, <2>3 DEF StoreRename
    <3>2. pc'[r] = "attach" /\ req'[r].out = "conflict"
      BY <1>0, <3>1 DEF Request
    <3>3. QED
      BY <1>3, <2>1, <3>2
  <2>4. QED
    BY <2>2, <2>3
<1>8. QED
  BY <1>4, <1>5, <1>6, <1>7

LEMMA PurgeHistory ==
  ASSUME IInv, BranchInv, NEW r \in Requests,
         \/ PurgeLookup(r) \/ FilterBranch(r)
         \/ EnsureBranchExists(r) \/ CollectGarbage(r)
  PROVE  Work(r)' /\ MovesSoFar(r)'
<1>0. /\ TypeOK /\ TypeOK' /\ Work(r) /\ MovesSoFar(r) /\ RequestInv(r)
      /\ req[r] \in Request
      /\ req \in [Requests -> Request] /\ pc \in [Requests -> PcStates] /\ Step(r)
      /\ moves[r] \in Nat /\ moves \in [Requests -> Nat]
      /\ req'[r].kind = req[r].kind
  BY BranchParts DEF Step, TypeOK
<1>1. /\ req[r].kind = "purge" /\ pc[r] \in {"locked", "rewrite", "rewritten"}
      /\ req[r].out = "none"
  BY <1>0 DEF PurgeLookup, FilterBranch, EnsureBranchExists, CollectGarbage, RequestInv, Work
<1>2. ASSUME NEW out \in {"notfound", "archived", "error"}, Return(r, out), moves' = moves,
             pc[r] = "locked"
      PROVE  Work(r)' /\ MovesSoFar(r)'
  <2>1. moves[r] = 0
    BY <1>0, <1>2 DEF MovesSoFar
  <2>2. QED
    BY <1>0, <1>1, <1>2, <2>1, ReturnEffect, AnsweredHistory
<1>3. ASSUME pc'[r] = "rewritten", req'[r] = req[r],
             \A i \in DOMAIN main', p \in req[r].purge : object'[main'[i]].tree[p] = Absent,
             moves'[r] \in {1, 2}, main' = <<>> => moves'[r] = 1
      PROVE  Work(r)' /\ MovesSoFar(r)'
  <2>1. Work(r)'
    BY <1>1, <1>3 DEF Work, Building, TreeOf
  <2>2. MovesSoFar(r)'
    BY <1>3 DEF MovesSoFar, Building
  <2>3. QED
    BY <2>1, <2>2
<1>4. CASE PurgeLookup(r)
  <2>1. CASE Return(r, "notfound") \/ Return(r, "archived") \/ Return(r, "error")
    BY <1>2, <1>4, <2>1 DEF PurgeLookup
  <2>2. CASE ~(Return(r, "notfound") \/ Return(r, "archived") \/ Return(r, "error"))
    <3>1. /\ pc' = [pc EXCEPT ![r] = "rewrite"] /\ req' = req /\ moves' = moves
          /\ pc[r] = "locked"
      BY <1>4, <2>2 DEF PurgeLookup
    <3>2. pc'[r] = "rewrite" /\ moves[r] = 0
      BY <1>0, <3>1 DEF MovesSoFar
    <3>3. Work(r)'
      <4>1. req[r].kind # "none" /\ req'[r] = req[r]
        BY <1>1, <3>1
      <4>2. QED
        BY <1>1, <3>2, <4>1 DEF Work, Building
    <3>4. MovesSoFar(r)'
      BY <3>1, <3>2 DEF MovesSoFar, Building
    <3>5. QED
      BY <3>3, <3>4
  <2>3. QED
    BY <2>1, <2>2
<1>5. CASE FilterBranch(r)
  <2>1. /\ pc[r] = "rewrite" /\ pc' = [pc EXCEPT ![r] = "rewritten"] /\ req' = req
        /\ moves' = [moves EXCEPT ![r] = moves[r] + 1]
        /\ \A i \in DOMAIN main', p \in req[r].purge : object'[main'[i]].tree[p] = Absent
    BY <1>5, FilterBranchEffect
  <2>2. moves'[r] = 1 /\ pc'[r] = "rewritten"
    BY <1>0, <2>1 DEF MovesSoFar
  <2>3. QED
    BY <1>3, <2>1, <2>2
<1>6. CASE EnsureBranchExists(r)
  <2>1. /\ pc[r] = "rewritten" /\ main = <<>>
        /\ moves' = [moves EXCEPT ![r] = moves[r] + 1]
        /\ UNCHANGED <<pc, req>>
        /\ DOMAIN main' = {1} /\ Len(main') = 1 /\ main'[1] \in DOMAIN object'
        /\ object'[main'[1]].tree = EmptyTree
    BY <1>6, EnsureEffect
  <2>2. moves'[r] = 2 /\ main' # <<>>
    <3>1. moves[r] = 1
      BY <1>0, <2>1 DEF MovesSoFar
    <3>2. moves'[r] = 2
      BY <1>0, <2>1, <3>1
    <3>3. main' # <<>>
      BY <2>1
    <3>4. QED
      BY <3>2, <3>3
  <2>3. \A p \in req[r].purge : EmptyTree[p] = Absent
    BY <1>0 DEF Request, EmptyTree
  <2>4. QED
    BY <1>3, <2>1, <2>2, <2>3
<1>7. CASE CollectGarbage(r)
  <2>1. pc'[r] = "release" /\ req'[r].out = "ok"
    BY <1>0, <1>7, ReturnEffect DEF CollectGarbage
  <2>2. QED
    BY <1>0, <1>1, <2>1, AnsweredHistory
<1>8. QED
  BY <1>4, <1>5, <1>6, <1>7

LEMMA CancelHistory ==
  ASSUME IInv, BranchInv, NEW r \in Requests, Cancel(r)
  PROVE  Work(r)' /\ MovesSoFar(r)'
<1>0. /\ TypeOK /\ Work(r) /\ MovesSoFar(r) /\ RequestInv(r) /\ req[r] \in Request
      /\ req \in [Requests -> Request] /\ pc \in [Requests -> PcStates]
      /\ req'[r].kind = req[r].kind /\ moves' = moves
  BY BranchParts DEF Cancel, TypeOK
<1>1. ASSUME pc'[r] = "release", req'[r].out = "lost", pc[r] # "release", pc[r] # "titled"
      PROVE  Work(r)' /\ MovesSoFar(r)'
  <2>1. pc[r] \in Critical \ {"release", "titled"}
    BY <1>1 DEF Cancel, Critical, InFlight, PcStates
  <2>2. req[r].kind \notin {"rename", "purge"} => moves[r] = 0
    BY <1>0, <2>1 DEF MovesSoFar, RequestInv, Critical, InFlight, PcStates, Building
  <2>3. QED
    BY <1>0, <1>1, <2>2, AnsweredHistory
<1>2. CASE /\ pc[r] \in {"locked", "resolved", "checkedout", "staged",
                         "committed", "attach", "rewrite", "rewritten"}
           /\ req' = [req EXCEPT ![r].commit = 0, ![r].out = "lost"]
           /\ pc' = [pc EXCEPT ![r] = "release"]
  <2>1. pc'[r] = "release" /\ req'[r].out = "lost"
    BY <1>0, <1>2 DEF Request
  <2>2. QED
    BY <1>1, <1>2, <2>1
<1>3. CASE pc[r] = "attached" /\ Return(r, "lost")
  BY <1>0, <1>1, <1>3, ReturnEffect
<1>4. CASE /\ pc[r] = "titled"
           /\ req' = [req EXCEPT ![r].title = req[r].prior, ![r].out = "lost"]
           /\ pc' = [pc EXCEPT ![r] = "attach"]
  <2>1. pc'[r] = "attach" /\ req'[r].out = "lost" /\ moves[r] = 1
    BY <1>0, <1>4 DEF Request, MovesSoFar
  <2>2. Work(r)'
    BY <2>1, QuietWork
  <2>3. MovesSoFar(r)'
    BY <1>0, <2>1 DEF MovesSoFar, Building
  <2>4. QED
    BY <2>2, <2>3
<1>5. QED
  BY <1>2, <1>3, <1>4 DEF Cancel

LEMMA OwnHistory ==
  ASSUME IInv, BranchInv, NEW r \in Requests, Step(r) \/ Cancel(r)
  PROVE  Work(r)' /\ MovesSoFar(r)'
BY LockHistory, BuildHistory, PushHistory, RenameHistory, PurgeHistory, CancelHistory DEF Step

\* A request arrives as one of the operations, to wait for the lock or refused.
Arrived(r) ==
  /\ pc[r] = "idle"
  /\ UNCHANGED <<name, object, main, attached, lock, crashes, moves, erased>>
  /\ req'[r].kind \in AllKinds
  /\ req'[r].out \in {"none", "notfound", "archived"}
  /\ pc'[r] = IF req'[r].out = "none" THEN "wait" ELSE "done"
  /\ \A s \in Requests \ {r} : req'[s] = req[s] /\ pc'[s] = pc[s]

LEMMA ArrivalEffect ==
  ASSUME TypeOK, NEW r \in Requests, Arrival(r)
  PROVE  Arrived(r)
<1>0. req \in [Requests -> Request] /\ pc \in [Requests -> PcStates]
  BY DEF TypeOK
<1>1. CheckRow \in {"none", "notfound", "archived"}
  BY DEF CheckRow
<1>2. ASSUME NEW data, Arrive(r, data), data.kind \in AllKinds,
             data.out \in {"none", "notfound", "archived"}
      PROVE  Arrived(r)
  <2>1. /\ req' = [req EXCEPT ![r] = data]
        /\ pc' = [pc EXCEPT ![r] = IF data.out = "none" THEN "wait" ELSE "done"]
        /\ pc[r] = "idle"
        /\ UNCHANGED <<name, object, main, attached, lock, crashes, moves, erased>>
    BY <1>2 DEF Arrive, repo
  <2>2. QED
    BY <1>0, <1>2, <2>1 DEF Arrived
<1> USE DEF NoRequest, AllKinds
<1>3. CASE ArriveChangeset(r)
  BY <1>1, <1>2, <1>3 DEF ArriveChangeset
<1>4. CASE ArriveRevert(r)
  BY <1>1, <1>2, <1>4 DEF ArriveRevert
<1>5. CASE ArrivePush(r)
  BY <1>1, <1>2, <1>5 DEF ArrivePush
<1>6. CASE ArriveRename(r)
  BY <1>2, <1>6 DEF ArriveRename
<1>7. CASE ArrivePurge(r)
  BY <1>2, <1>7 DEF ArrivePurge
<1>8. CASE ArriveAdmin(r)
  <2>1. PICK k \in {"archive", "unarchive", "delete", "restore"} :
          Arrive(r, [NoRequest EXCEPT !.kind = k])
    BY <1>8 DEF ArriveAdmin
  <2>2. /\ [NoRequest EXCEPT !.kind = k].kind = k
        /\ [NoRequest EXCEPT !.kind = k].out = "none"
    OBVIOUS
  <2>3. QED
    BY <1>2, <2>1, <2>2
<1>9. QED
  BY <1>3, <1>4, <1>5, <1>6, <1>7, <1>8 DEF Arrival

\* Without a step of the branch or of the request, its history stays.
LEMMA SameHistory ==
  ASSUME NEW s \in Requests, Work(s), MovesSoFar(s), req'[s] = req[s], pc'[s] = pc[s],
         moves' = moves, object' = object, main' = main
  PROVE  Work(s)' /\ MovesSoFar(s)'
BY DEF Work, MovesSoFar, TreeOf, Tip

LEMMA SameBranch ==
  ASSUME CommitsNamed, Chain, ErasedStaysErased,
         object' = object, main' = main, erased' = erased
  PROVE  CommitsNamed' /\ Chain' /\ ErasedStaysErased'
BY DEF CommitsNamed, Chain, ErasedStaysErased, TreeOf, ParentTree, EmptyTree

\* What a crash leaves of a request: one under way is lost.
LEMMA CrashEffect ==
  ASSUME TypeOK, Crash
  PROVE  /\ UNCHANGED <<name, object, main, attached, moves, erased>>
         /\ crashes' = crashes + 1
         /\ \A s \in Requests :
              /\ req'[s].kind = req[s].kind
              /\ pc[s] \in InFlight => pc'[s] = "done" /\ req'[s].out = "lost"
              /\ pc[s] \notin InFlight => pc'[s] = pc[s] /\ req'[s] = req[s]
<1>1. UNCHANGED <<name, object, main, attached, moves, erased>> /\ crashes' = crashes + 1
  BY DEF Crash, meta
<1>2. ASSUME NEW s \in Requests
      PROVE  /\ req'[s].kind = req[s].kind
             /\ pc[s] \in InFlight => pc'[s] = "done" /\ req'[s].out = "lost"
             /\ pc[s] \notin InFlight => pc'[s] = pc[s] /\ req'[s] = req[s]
  <2>1. req \in [Requests -> Request] /\ pc \in [Requests -> PcStates] /\ req[s] \in Request
    BY DEF TypeOK
  <2>2. CASE pc[s] \in InFlight
    <3>1. /\ pc'[s] = "done"
          /\ req'[s] = [req[s] EXCEPT !.out = "lost", !.cur = 0,
                                      !.tree = EmptyTree, !.paths = {}]
      BY <2>1, <2>2 DEF Crash
    <3>2. req'[s].kind = req[s].kind /\ req'[s].out = "lost"
      BY <2>1, <3>1 DEF Request
    <3>3. QED
      BY <2>2, <3>1, <3>2
  <2>3. CASE pc[s] \notin InFlight
    BY <2>1, <2>3 DEF Crash
  <2>4. QED
    BY <2>2, <2>3
<1>3. QED
  BY <1>1, <1>2

LEMMA CrashHistory ==
  ASSUME IInv, BranchInv, Crash, NEW s \in Requests
  PROVE  Work(s)' /\ MovesSoFar(s)'
<1>1. /\ TypeOK /\ Work(s) /\ MovesSoFar(s) /\ RequestInv(s)
      /\ moves[s] \in Nat /\ pc[s] \in PcStates
  BY DEF IInv, BranchInv, TypeOK
<1>2. CASE pc[s] \in InFlight
  <2>1. /\ moves' = moves /\ pc'[s] = "done" /\ req'[s].out = "lost"
        /\ req'[s].kind = req[s].kind
    BY <1>1, <1>2, CrashEffect
  <2>2. pc[s] # "idle" /\ req[s].kind # "none"
    BY <1>1, <1>2 DEF InFlight, Work
  <2>3. req[s].kind \notin {"rename", "purge"} => moves[s] <= 1
    BY <1>1, <1>2 DEF MovesSoFar, RequestInv, InFlight, PcStates, Building
  <2>4. Work(s)'
    BY <2>1, <2>2 DEF Work, Building
  <2>5. MovesSoFar(s)'
    BY <2>1, <2>3 DEF MovesSoFar, Building
  <2>6. QED
    BY <2>4, <2>5
<1>3. CASE pc[s] \notin InFlight
  BY <1>1, <1>3, CrashEffect, SameHistory
<1>4. QED
  BY <1>2, <1>3

LEMMA ArrivalHistory ==
  ASSUME IInv, BranchInv, NEW r \in Requests, Arrival(r), NEW s \in Requests
  PROVE  Work(s)' /\ MovesSoFar(s)'
<1>0. TypeOK /\ Work(s) /\ MovesSoFar(s)
  BY DEF IInv, BranchInv
<1>1. CASE s = r
  <2>1. /\ pc[s] = "idle" /\ moves' = moves
        /\ req'[s].kind \in AllKinds
        /\ req'[s].out \in {"none", "notfound", "archived"}
        /\ pc'[s] = IF req'[s].out = "none" THEN "wait" ELSE "done"
    BY <1>0, <1>1, ArrivalEffect DEF Arrived
  <2>2. moves[s] = 0 /\ req'[s].kind # "none"
    BY <1>0, <2>1 DEF MovesSoFar, AllKinds
  <2>3. Work(s)'
    BY <2>1, <2>2 DEF Work, Building
  <2>4. MovesSoFar(s)'
    BY <2>1, <2>2 DEF MovesSoFar, Building
  <2>5. QED
    BY <2>3, <2>4
<1>2. CASE s # r
  BY <1>0, <1>2, ArrivalEffect, SameHistory DEF Arrived
<1>3. QED
  BY <1>1, <1>2

LEMMA InitHistory == Init => BranchInv
<1> SUFFICES ASSUME Init PROVE BranchInv
  OBVIOUS
<1>1. PICK t \in Trees : object = <<[parent |-> 0, tree |-> t, paths |-> Paths]>>
  BY DEF Init
<1>2. main = <<1>> /\ erased = {} /\ DOMAIN object = {1} /\ DOMAIN main = {1}
  BY <1>1 DEF Init
<1>3. CommitsNamed
  BY <1>1, <1>2 DEF CommitsNamed
<1>4. Chain
  BY <1>1, <1>2 DEF Chain
<1>5. ErasedStaysErased
  BY <1>2 DEF ErasedStaysErased
<1>6. \A r \in Requests : Work(r) /\ MovesSoFar(r)
  BY DEF Init, NoRequest, Work, MovesSoFar, Building
<1>7. QED
  BY <1>3, <1>4, <1>5, <1>6 DEF BranchInv

LEMMA HistoryStep == IInv /\ BranchInv /\ [Next]_vars => BranchInv'
<1> SUFFICES ASSUME IInv, BranchInv, [Next]_vars PROVE BranchInv'
  OBVIOUS
<1>0. TypeOK /\ CommitsNamed /\ Chain /\ ErasedStaysErased
  BY DEF IInv, BranchInv
<1>1. ASSUME NEW r \in Requests, Arrival(r) PROVE BranchInv'
  <2>1. CommitsNamed' /\ Chain' /\ ErasedStaysErased'
    BY <1>0, <1>1, ArrivalEffect, SameBranch DEF Arrived
  <2>2. QED
    BY <1>1, <2>1, ArrivalHistory DEF BranchInv
<1>2. ASSUME NEW r \in Requests, Step(r) \/ Cancel(r) PROVE BranchInv'
  <2>1. CommitsNamed' /\ Chain' /\ ErasedStaysErased'
    BY <1>2, StepBranch
  <2>2. \A s \in Requests : Work(s)' /\ MovesSoFar(s)'
    BY <1>2, OwnHistory, OthersHistory
  <2>3. QED
    BY <2>1, <2>2 DEF BranchInv
<1>3. CASE Crash
  <2>1. CommitsNamed' /\ Chain' /\ ErasedStaysErased'
    BY <1>0, <1>3, CrashEffect, SameBranch
  <2>2. QED
    BY <1>3, <2>1, CrashHistory DEF BranchInv
<1>4. CASE UNCHANGED vars
  <2>1. CommitsNamed' /\ Chain' /\ ErasedStaysErased'
    BY <1>0, <1>4, SameBranch DEF vars, repo
  <2>2. UNCHANGED <<req, pc, moves, object, main>>
    BY <1>4 DEF vars, repo
  <2>3. \A s \in Requests : Work(s)' /\ MovesSoFar(s)'
    BY <2>2, SameHistory DEF BranchInv
  <2>4. QED
    BY <2>1, <2>3 DEF BranchInv
<1>5. QED
  BY <1>1, <1>2, <1>3, <1>4 DEF Next, Finished
----------------------------------------------------------------------------
(* The theorems about the branch and the answers. *)

\* The branch is a chain of commits that change what they name, and every handler has
\* built and moved what its step says, in every behaviour of the write path.
THEOREM HistoryHolds == Spec => []BranchInv
<1>1. Init => IInv /\ BranchInv
  BY InitInv, InitHistory
<1>2. IInv /\ BranchInv /\ [Next]_vars => (IInv /\ BranchInv)'
  BY InductiveStep, HistoryStep
<1>3. QED
  BY <1>1, <1>2, PTL DEF Spec

\* No lost update: a commit differs from the one below it on the branch only in the
\* paths its author named, however requests interleave and even after a purge rewrote it.
THEOREM NothingUndoneUnnamed == Spec => []OnlyNamedPathsChange
<1>1. IInv /\ BranchInv => OnlyNamedPathsChange
  <2>1. ASSUME IInv, BranchInv, NEW i \in DOMAIN main, i > 1,
               NEW p \in Paths \ object[main[i]].paths
        PROVE  TreeOf(main[i])[p] = TreeOf(main[i - 1])[p]
    <3>1. TypeOK /\ CommitsNamed /\ Chain
      BY <2>1 DEF IInv, BranchInv
    <3>2. i # 1
      BY <2>1, <3>1, BranchTypes
    <3>3. QED
      BY <2>1, <3>1, <3>2, ChainNamed
  <2>2. QED
    BY <2>1 DEF OnlyNamedPathsChange
<1>2. QED
  BY <1>1, InvariantHolds, HistoryHolds, PTL

\* A purged path stays out of every commit of the branch until a request that names it
\* writes it again: no commit built before the purge brings it back.
THEOREM PurgedStaysAway == Spec => []ErasedStaysErased
<1>1. BranchInv => ErasedStaysErased
  BY DEF BranchInv
<1>2. QED
  BY <1>1, HistoryHolds, PTL

\* What a client is told about its write is what happened to the branch.
THEOREM AnswersAreTrue == Spec => []TruthfulAnswers
<1>1. IInv /\ BranchInv => TruthfulAnswers
  <2>1. ASSUME IInv, BranchInv, NEW r \in Requests, pc[r] = "done", req[r].kind # "rename"
        PROVE  /\ req[r].out \notin {"ok", "lost"} => moves[r] = 0
               /\ req[r].out = "ok" /\ req[r].kind \in {"changeset", "revert"} => moves[r] = 1
               /\ req[r].out = "lost" /\ req[r].kind # "purge" => moves[r] <= 1
    BY <2>1 DEF BranchInv, MovesSoFar
  <2>2. QED
    BY <2>1 DEF TruthfulAnswers
<1>2. QED
  BY <1>1, InvariantHolds, HistoryHolds, PTL

\* A purge that succeeds has left no stored commit with a purged path but those another
\* ref or a left-behind worktree holds.
THEOREM NoCopyLeft == Spec => PurgeLeavesNoCopy
<1>1. ASSUME IInv, BranchInv, Next, NEW r \in Requests, pc[r] = "rewritten",
             req'[r].out = "ok"
      PROVE  \A c \in odb' \ pinned : \A p \in req[r].purge : object'[c].tree[p] = Absent
  <2>0. TypeOK /\ Work(r) /\ req[r].out = "none"
    BY <1>1 DEF IInv, BranchInv, Work
  <2>1. ASSUME NEW s \in Requests \ {r}, Arrival(s) \/ Step(s) \/ Cancel(s)
        PROVE  FALSE
    <3>1. CASE Arrival(s)
      BY <1>1, <2>0, <3>1, ArrivalEffect DEF Arrived
    <3>2. CASE Step(s) \/ Cancel(s)
      <4>1. req'[r] = req[r]
        BY <1>1, <3>2, BranchParts
      <4>2. QED
        BY <1>1, <2>0, <4>1
    <3>3. QED
      BY <2>1, <3>1, <3>2
  <2>2. ~Crash
    <3>1. Crash => req'[r].out = "lost"
      BY <1>1, <2>0, CrashEffect DEF InFlight, PcStates
    <3>2. QED
      BY <1>1, <3>1
  <2>3. ~Finished /\ ~Arrival(r)
    BY <1>1, <2>0, ArrivalEffect DEF Finished, Arrived
  <2>4. ~Cancel(r)
    <3>1. req \in [Requests -> Request] /\ req[r] \in Request
      BY <2>0 DEF TypeOK
    <3>2. Cancel(r) => req' = [req EXCEPT ![r].commit = 0, ![r].out = "lost"]
      BY <1>1 DEF Cancel
    <3>3. Cancel(r) => req'[r].out = "lost"
      BY <3>1, <3>2 DEF Request
    <3>4. QED
      BY <1>1, <3>3
  <2>5. Step(r)
    BY <1>1, <2>1, <2>2, <2>3, <2>4 DEF Next
  <2>6. EnsureBranchExists(r) \/ CollectGarbage(r)
    <3>1. ~(Acquire(r) \/ Release(r) \/ ReadHead(r) \/ CheckOut(r) \/ StageChangeset(r)
            \/ StageRevert(r) \/ CommitTree(r) \/ UpdateRef(r) \/ PushOtherRef(r))
      BY <1>1 DEF Acquire, Release, ReadHead, CheckOut, StageChangeset, StageRevert,
                  CommitTree, UpdateRef, PushOtherRef
    <3>2. ~(PushBranch(r) \/ RenameLookup(r) \/ AttachWorktree(r) \/ CommitTitle(r)
            \/ StoreRename(r) \/ PurgeLookup(r) \/ FilterBranch(r) \/ SetArchived(r)
            \/ SetDeleted(r))
      BY <1>1 DEF PushBranch, RenameLookup, AttachWorktree, CommitTitle, StoreRename,
                  PurgeLookup, FilterBranch, SetArchived, SetDeleted
    <3>3. QED
      BY <2>5, <3>1, <3>2 DEF Step
  <2>7. CollectGarbage(r)
    BY <1>1, <2>0, <2>6 DEF EnsureBranchExists
  <2>8. odb' = pinned \cup {main[i] : i \in DOMAIN main} /\ object' = object
    BY <2>7 DEF CollectGarbage
  <2>9. \A i \in DOMAIN main, p \in req[r].purge : object[main[i]].tree[p] = Absent
    BY <1>1, <2>0 DEF Work, TreeOf
  <2>10. QED
    BY <2>8, <2>9
<1>2. ASSUME IInv, UNCHANGED vars, BranchInv, NEW r \in Requests, pc[r] = "rewritten",
             req'[r].out = "ok"
      PROVE  FALSE
  BY <1>2 DEF vars, BranchInv, Work
<1>3. IInv /\ BranchInv /\ [Next]_vars =>
        [\A r \in Requests :
           pc[r] = "rewritten" /\ req'[r].out = "ok" =>
             \A c \in odb' \ pinned : \A p \in req[r].purge : object'[c].tree[p] = Absent]_vars
  BY <1>1, <1>2
<1>4. QED
  BY <1>3, InvariantHolds, HistoryHolds, PTL DEF Spec, PurgeLeavesNoCopy
----------------------------------------------------------------------------
(* The title of the README follows the name while only renames write. *)

LEMMA TitleStays ==
  ASSUME IInv, BranchInv, NEW r \in Requests, Step(r) \/ Cancel(r), main # <<>>, main' = main
  PROVE  Title' = Title
<1>1. TypeOK /\ ObjectsLinked /\ ObjectsStay
  BY BranchParts
<1>2. Tip \in DOMAIN object
  BY <1>1, TipType
<1>3. object'[Tip] = object[Tip]
  BY <1>1, <1>2 DEF ObjectsStay
<1>4. QED
  BY <1>3 DEF Title, TreeOf, Tip

\* A step that leaves branch, name and worktree alone, of a request that is no rename.
LEMMA QuietTitle ==
  ASSUME IInv, BranchInv, TitleBody, NEW r \in Requests, Step(r) \/ Cancel(r),
         UNCHANGED <<main, name, attached>>, pc[r] \notin Retitling, pc'[r] \notin Retitling
  PROVE  TitleBody'
<1>1. \A s \in Requests \ {r} : pc'[s] = pc[s] /\ req'[s] = req[s]
  BY BranchParts
<1>2. Title' = Title
  BY TitleStays DEF TitleBody
<1>3. attached' => \E s \in Requests : pc'[s] = "attached"
  BY <1>1 DEF TitleBody, Retitling
<1>4. (\A s \in Requests : pc'[s] \notin Retitling) => Title' = name'
  BY <1>1, <1>2 DEF TitleBody
<1>5. \A s \in Requests : TitleOf(s)'
  BY <1>1, <1>2 DEF TitleBody, TitleOf, Retitling
<1>6. QED
  BY <1>2, <1>3, <1>4, <1>5 DEF TitleBody

\* A step under the lock: no other request is retitling.
LEMMA HolderTitle ==
  ASSUME IInv, BranchInv, NEW r \in Requests, Step(r) \/ Cancel(r), lock = r,
         main' # <<>>, Title' \in Names, attached' => pc'[r] = "attached",
         pc'[r] \notin Retitling => Title' = name', TitleOf(r)'
  PROVE  TitleBody'
<1>1. \A s \in Requests \ {r} : pc'[s] = pc[s]
  BY BranchParts
<1>2. \A s \in Requests \ {r} : pc'[s] \notin Retitling
  BY <1>1 DEF IInv, MutualExclusion, Retitling, Critical, InFlight, PcStates
<1>3. \A s \in Requests : TitleOf(s)'
  BY <1>2 DEF TitleOf, Retitling
<1>4. QED
  BY <1>3 DEF TitleBody

LEMMA HoldsLock ==
  ASSUME IInv, NEW r \in Requests, pc[r] \in Critical
  PROVE  lock = r /\ \A s \in Requests \ {r} : pc[s] \notin Retitling
BY DEF IInv, MutualExclusion, Retitling, Critical, InFlight, PcStates

LEMMA RenameTitle ==
  ASSUME IInv, BranchInv, TitleBody, NEW r \in Requests,
         RenameLookup(r) \/ AttachWorktree(r) \/ CommitTitle(r) \/ StoreRename(r)
  PROVE  TitleBody'
<1>0. /\ TypeOK /\ req[r] \in Request /\ RequestInv(r) /\ Step(r)
      /\ req \in [Requests -> Request] /\ pc \in [Requests -> PcStates]
      /\ main # <<>> /\ Title \in Names /\ TitleOf(r) /\ name \in Names
  BY BranchParts DEF Step, TypeOK, TitleBody
<1>1. pc[r] \in {"locked"} \cup Retitling
  BY DEF RenameLookup, AttachWorktree, CommitTitle, StoreRename, Retitling
<1>2. lock = r /\ \A s \in Requests \ {r} : pc[s] \notin Retitling
  BY <1>1, HoldsLock DEF Retitling, Critical, InFlight, PcStates
<1>3. attached => pc[r] = "attached"
  BY <1>2 DEF TitleBody, Retitling
<1>4. CASE RenameLookup(r)
  <2>1. pc[r] = "locked" /\ UNCHANGED <<main, name, attached>> /\ req[r].out = "none"
    BY <1>0, <1>4 DEF RenameLookup, meta, repo, RequestInv
  <2>2. Title = name /\ Title' = Title
    BY <1>0, <1>2, <2>1, TitleStays DEF TitleBody, Retitling
  <2>3. CASE Return(r, "notfound") \/ Return(r, "ok")
    <3>1. pc'[r] = "release"
      BY <1>0, <2>3, ReturnEffect
    <3>2. QED
      BY <1>0, <2>1, <3>1, QuietTitle DEF Retitling
  <2>4. CASE ~(Return(r, "notfound") \/ Return(r, "ok"))
    <3>1. /\ req' = [req EXCEPT ![r].prior = name] /\ pc' = [pc EXCEPT ![r] = "attach"]
          /\ name # req[r].title
      BY <1>4, <2>4 DEF RenameLookup
    <3>2. /\ pc'[r] = "attach" /\ req'[r].out = "none" /\ req'[r].prior = name
          /\ req'[r].title = req[r].title
      BY <1>0, <2>1, <3>1 DEF Request
    <3>3. TitleOf(r)'
      BY <2>1, <2>2, <3>1, <3>2 DEF TitleOf
    <3>4. QED
      BY <1>0, <1>2, <1>3, <2>1, <2>2, <3>2, <3>3, HolderTitle DEF Retitling
  <2>5. QED
    BY <2>3, <2>4
<1>5. CASE AttachWorktree(r)
  <2>1. pc[r] = "attach" /\ ~(attached \/ main = <<>>)
    BY <1>0, <1>3, <1>5 DEF AttachWorktree
  <2>2. PICK tree : tree = Titled(TreeOf(Tip), req[r].title)
    OBVIOUS
  <2>3. /\ req' = [req EXCEPT ![r].tree = tree] /\ pc' = [pc EXCEPT ![r] = "attached"]
        /\ main' = main /\ name' = name
    BY <1>5, <2>1, <2>2 DEF AttachWorktree, meta
  <2>4. /\ pc'[r] = "attached" /\ req'[r].out = req[r].out
        /\ req'[r].title = req[r].title /\ req'[r].prior = req[r].prior
    BY <1>0, <2>3 DEF Request
  <2>5. Title' = Title
    BY <1>0, <2>3, TitleStays
  <2>6. TitleOf(r)'
    BY <1>0, <2>1, <2>3, <2>4, <2>5 DEF TitleOf
  <2>7. QED
    BY <1>0, <1>2, <2>3, <2>4, <2>5, <2>6, HolderTitle DEF Retitling
<1>6. CASE CommitTitle(r)
  <2>1. /\ pc[r] = "attached" /\ attached' = FALSE /\ name' = name
        /\ req[r].tree = Titled(TreeOf(Tip), req[r].title)
        /\ req'[r].title = req[r].title /\ req'[r].prior = req[r].prior
    BY <1>6, CommitTitleEffect DEF CommitTitle, meta
  <2>2. TreeOf(Tip) \in Trees /\ req[r].title \in Names
    BY <1>0, TipType DEF Request
  <2>3. req[r].tree[Readme] = req[r].title
    <3>1. TreeOf(Tip)[Readme] # Plain
      BY <1>0, AbsentAssumption DEF Title
    <3>2. QED
      BY <2>1, <2>2, <3>1 DEF Titled, Trees, Paths
  <2>4. req[r].title # Title
    BY <1>0, <2>1 DEF TitleOf
  <2>5. req[r].tree # TreeOf(Tip)
    BY <2>3, <2>4 DEF Title
  <2>6. /\ pc'[r] = IF req[r].out = "none" THEN "titled" ELSE "release"
        /\ req'[r].out = req[r].out
        /\ \E c \in DOMAIN object' :
             Grown(Len(main), c) /\ object'[c].tree = req[r].tree
    BY <1>6, <2>5, CommitTitleEffect
  <2>7. PICK c \in DOMAIN object' : Grown(Len(main), c) /\ object'[c].tree = req[r].tree
    BY <2>6
  <2>8. Len(main') = Len(main) + 1 /\ main' # <<>>
    <3>1. TypeOK' /\ Len(main) \in Nat
      BY <1>0, BranchParts, BranchTypes
    <3>2. main' \in Seq(DOMAIN object')
      BY <3>1 DEF TypeOK
    <3>3. QED
      BY <2>7, <3>1, <3>2 DEF Grown
  <2>9. Title' = req[r].title
    BY <2>3, <2>7, <2>8 DEF Title, TreeOf, Tip, Grown
  <2>10. TitleOf(r)'
    BY <1>0, <2>1, <2>6, <2>9 DEF TitleOf
  <2>11. req[r].out # "none" => Title' = name'
    BY <1>0, <2>1, <2>9 DEF TitleOf
  <2>12. QED
    BY <1>0, <1>2, <2>1, <2>2, <2>6, <2>8, <2>9, <2>10, <2>11, HolderTitle DEF Retitling
<1>7. CASE StoreRename(r)
  <2>1. pc[r] = "titled" /\ UNCHANGED <<main, attached>>
    BY <1>7 DEF StoreRename, repo
  <2>2. Title' = Title /\ Title = req[r].title /\ req[r].prior = name /\ req[r].title # name
    BY <1>0, <2>1, TitleStays DEF TitleOf
  <2>3. CASE name' = req[r].title /\ Return(r, "ok")
    <3>1. pc'[r] = "release"
      BY <1>0, <2>3, ReturnEffect
    <3>2. TitleOf(r)'
      BY <3>1 DEF TitleOf
    <3>3. QED
      BY <1>0, <1>2, <1>3, <2>1, <2>2, <2>3, <3>1, <3>2, HolderTitle
  <2>4. CASE ~(name' = req[r].title /\ Return(r, "ok"))
    <3>1. /\ req' = [req EXCEPT ![r].title = req[r].prior, ![r].out = "conflict"]
          /\ pc' = [pc EXCEPT ![r] = "attach"] /\ name' = name
      BY <1>7, <2>4 DEF StoreRename
    <3>2. pc'[r] = "attach" /\ req'[r].out = "conflict" /\ req'[r].title = req[r].prior
      BY <1>0, <3>1 DEF Request
    <3>3. TitleOf(r)'
      BY <2>2, <3>1, <3>2 DEF TitleOf
    <3>4. QED
      BY <1>0, <1>2, <1>3, <2>1, <2>2, <3>1, <3>2, <3>3, HolderTitle DEF Retitling
  <2>5. QED
    BY <2>3, <2>4
<1>8. QED
  BY <1>4, <1>5, <1>6, <1>7

LEMMA CancelTitle ==
  ASSUME IInv, BranchInv, TitleBody, NEW r \in Requests, Cancel(r)
  PROVE  TitleBody'
<1>0. /\ TypeOK /\ req[r] \in Request
      /\ req \in [Requests -> Request] /\ pc \in [Requests -> PcStates]
      /\ main # <<>> /\ Title \in Names /\ TitleOf(r) /\ name \in Names
  BY BranchParts DEF TypeOK, TitleBody
<1>1. /\ main' = main /\ name' = name /\ req[r].out = "none" /\ Title' = Title
      /\ pc[r] \in Critical
  BY <1>0, TitleStays DEF Cancel, meta, Critical, InFlight, PcStates
<1>2. lock = r /\ \A s \in Requests \ {r} : pc[s] \notin Retitling
  BY <1>1, HoldsLock
<1>3. attached => pc[r] = "attached"
  BY <1>2 DEF TitleBody, Retitling
<1>4. pc[r] # "titled" => Title = name
  BY <1>0, <1>1, <1>2 DEF TitleBody, TitleOf, Retitling
<1>5. ASSUME pc'[r] = "release", pc[r] # "titled", attached' => pc[r] # "attached" /\ attached
      PROVE  TitleBody'
  <2>1. TitleOf(r)'
    BY <1>5 DEF TitleOf
  <2>2. QED
    BY <1>0, <1>1, <1>2, <1>3, <1>4, <1>5, <2>1, HolderTitle
<1>6. CASE /\ pc[r] \in {"locked", "resolved", "checkedout", "staged",
                         "committed", "attach", "rewrite", "rewritten"}
           /\ pc' = [pc EXCEPT ![r] = "release"]
           /\ UNCHANGED attached
  BY <1>0, <1>5, <1>6
<1>7. CASE pc[r] = "attached" /\ attached' = FALSE /\ Return(r, "lost")
  BY <1>0, <1>5, <1>7, ReturnEffect
<1>8. CASE /\ pc[r] = "titled"
           /\ req' = [req EXCEPT ![r].title = req[r].prior, ![r].out = "lost"]
           /\ pc' = [pc EXCEPT ![r] = "attach"]
           /\ UNCHANGED attached
  <2>1. pc'[r] = "attach" /\ req'[r].out = "lost" /\ req'[r].title = req[r].prior
    BY <1>0, <1>8 DEF Request
  <2>2. Title = req[r].title /\ req[r].prior = name /\ req[r].title # name
    BY <1>0, <1>8 DEF TitleOf
  <2>3. TitleOf(r)'
    BY <1>1, <2>1, <2>2 DEF TitleOf
  <2>4. QED
    BY <1>0, <1>1, <1>2, <1>3, <1>8, <2>1, <2>3, HolderTitle DEF Retitling
<1>9. QED
  BY <1>6, <1>7, <1>8 DEF Cancel

\* The other steps that move the branch are those of requests that are no renames.
LEMMA StepTitle ==
  ASSUME IInv, BranchInv, TitleBody, NEW r \in Requests, Step(r) \/ Cancel(r),
         moves'[r] > 0 => req[r].kind = "rename"
  PROVE  TitleBody'
<1>0. /\ TypeOK /\ RequestInv(r) /\ pc \in [Requests -> PcStates]
      /\ moves \in [Requests -> Nat] /\ moves[r] \in Nat
  BY BranchParts DEF TypeOK
<1>1. CASE \/ RenameLookup(r) \/ AttachWorktree(r) \/ CommitTitle(r) \/ StoreRename(r)
           \/ Cancel(r)
  BY <1>1, RenameTitle, CancelTitle
<1>2. ~UpdateRef(r)
  <2>1. UpdateRef(r) => moves'[r] > 0
    BY <1>0, UpdateRefEffect
  <2>2. UpdateRef(r) => req[r].kind # "rename"
    BY <1>0 DEF UpdateRef, RequestInv, Building
  <2>3. QED
    BY <2>1, <2>2
<1>3. ~FilterBranch(r) /\ ~EnsureBranchExists(r)
  <2>1. FilterBranch(r) \/ EnsureBranchExists(r) => moves'[r] > 0
    BY <1>0, FilterBranchEffect, EnsureEffect
  <2>2. FilterBranch(r) \/ EnsureBranchExists(r) => req[r].kind # "rename"
    BY <1>0 DEF FilterBranch, EnsureBranchExists, RequestInv
  <2>3. QED
    BY <2>1, <2>2
<1>4. CASE PushBranch(r)
  <2>1. /\ pc[r] = "locked" /\ pc'[r] = "release" /\ req[r].kind = "push"
        /\ main' = main \/ moves'[r] > 0
    <3>1. ASSUME moves' = [moves EXCEPT ![r] = moves[r] + 1] PROVE moves'[r] > 0
      BY <1>0, <3>1
    <3>2. QED
      BY <1>4, <3>1, PushBranchEffect
  <2>2. UNCHANGED <<main, name, attached>>
    BY <1>4, <2>1 DEF PushBranch, meta
  <2>3. QED
    BY <2>1, <2>2, QuietTitle DEF Retitling
<1>5. CASE \/ Acquire(r) \/ Release(r) \/ ReadHead(r) \/ CheckOut(r) \/ StageChangeset(r)
           \/ StageRevert(r) \/ CommitTree(r)
  <2>1. UNCHANGED <<main, name, attached>>
    BY <1>5 DEF Acquire, Release, ReadHead, CheckOut, StageChangeset, StageRevert, CommitTree,
                meta, repo
  <2>2. pc[r] \notin Retitling
    BY <1>5 DEF Acquire, Release, ReadHead, CheckOut, StageChangeset, StageRevert, CommitTree,
                Retitling
  <2>3. pc'[r] \notin Retitling
    BY <1>0, <1>5 DEF Acquire, Release, ReadHead, CheckOut, StageChangeset, StageRevert,
                      CommitTree, Return, Retitling
  <2>4. QED
    BY <2>1, <2>2, <2>3, QuietTitle
<1>6. CASE \/ PushOtherRef(r) \/ PurgeLookup(r) \/ CollectGarbage(r)
           \/ SetArchived(r) \/ SetDeleted(r)
  <2>1. UNCHANGED <<main, name, attached>>
    BY <1>6 DEF PushOtherRef, PurgeLookup, CollectGarbage, SetArchived, SetDeleted, meta, repo
  <2>2. pc[r] \notin Retitling
    BY <1>6 DEF PushOtherRef, PurgeLookup, CollectGarbage, SetArchived, SetDeleted, Retitling
  <2>3. pc'[r] \notin Retitling
    BY <1>0, <1>6 DEF PushOtherRef, PurgeLookup, CollectGarbage, SetArchived, SetDeleted,
                      Return, Retitling
  <2>4. QED
    BY <2>1, <2>2, <2>3, QuietTitle
<1>7. QED
  BY <1>1, <1>2, <1>3, <1>4, <1>5, <1>6 DEF Step

LEMMA ArrivalTitle ==
  ASSUME TypeOK, TitleBody, NEW r \in Requests, Arrived(r)
  PROVE  TitleBody'
<1>1. /\ UNCHANGED <<main, object, name, attached>>
      /\ pc[r] \notin Retitling /\ pc'[r] \notin Retitling
      /\ \A s \in Requests \ {r} : req'[s] = req[s] /\ pc'[s] = pc[s]
  BY DEF Arrived, Retitling
<1>2. Title' = Title
  BY <1>1 DEF Title, TreeOf, Tip
<1>3. attached' => \E s \in Requests : pc'[s] = "attached"
  BY <1>1 DEF TitleBody, Retitling
<1>4. (\A s \in Requests : pc'[s] \notin Retitling) => Title' = name'
  BY <1>1, <1>2 DEF TitleBody
<1>5. \A s \in Requests : TitleOf(s)'
  BY <1>1, <1>2 DEF TitleBody, TitleOf, Retitling
<1>6. QED
  BY <1>1, <1>2, <1>3, <1>4, <1>5 DEF TitleBody

LEMMA TitleStep == IInv /\ BranchInv /\ TitleInv /\ [Next]_vars => TitleInv'
<1> SUFFICES ASSUME IInv, BranchInv, TitleInv, [Next]_vars, OnlyRenames' PROVE TitleBody'
  BY DEF TitleInv
<1>0. /\ TypeOK /\ crashes \in Nat /\ moves \in [Requests -> Nat]
      /\ \A r \in Requests : moves[r] \in Nat
  BY DEF IInv, TypeOK
<1>1. ASSUME NEW r \in Requests, Arrival(r) PROVE TitleBody'
  <2>1. Arrived(r)
    BY <1>0, <1>1, ArrivalEffect
  <2>2. moves[r] = 0
    BY <2>1 DEF Arrived, BranchInv, MovesSoFar
  <2>3. OnlyRenames
    BY <2>1, <2>2 DEF OnlyRenames, Arrived
  <2>4. QED
    BY <1>0, <2>1, <2>3, ArrivalTitle DEF TitleInv
<1>2. ASSUME NEW r \in Requests, Step(r) \/ Cancel(r) PROVE TitleBody'
  <2>1. /\ \A s \in Requests : req'[s].kind = req[s].kind
        /\ \A s \in Requests \ {r} : moves'[s] = moves[s]
        /\ moves' = moves \/ moves' = [moves EXCEPT ![r] = moves[r] + 1]
    BY <1>2, BranchParts, StepMoves
  <2>2. moves[r] > 0 => moves'[r] > 0
    BY <1>0, <2>1
  <2>3. crashes' = crashes
    BY <1>2 DEF Step, Cancel, Acquire, Release, ReadHead, CheckOut, StageChangeset, StageRevert,
                CommitTree, UpdateRef, PushOtherRef, PushBranch, RenameLookup, AttachWorktree,
                CommitTitle, StoreRename, PurgeLookup, FilterBranch, EnsureBranchExists,
                CollectGarbage, SetArchived, SetDeleted
  <2>4. OnlyRenames
    BY <2>1, <2>2, <2>3 DEF OnlyRenames
  <2>5. moves'[r] > 0 => req[r].kind = "rename"
    BY <2>1 DEF OnlyRenames
  <2>6. QED
    BY <1>2, <2>4, <2>5, StepTitle DEF TitleInv
<1>3. ~Crash
  BY <1>0, CrashEffect DEF OnlyRenames
<1>4. CASE UNCHANGED vars
  <2>1. UNCHANGED <<crashes, moves, req, pc, main, object, name, attached>>
    BY <1>4 DEF vars, repo, meta
  <2>2. TitleBody
    BY <2>1 DEF TitleInv, OnlyRenames
  <2>3. QED
    BY <2>1, <2>2 DEF TitleBody, TitleOf, Title, TreeOf, Tip
<1>5. QED
  BY <1>1, <1>2, <1>3, <1>4 DEF Next, Finished

LEMMA InitTitle == Init => TitleInv
<1> SUFFICES ASSUME Init PROVE TitleBody
  BY DEF TitleInv
<1>1. PICK t \in Trees : /\ t[Readme] = name
                         /\ object = <<[parent |-> 0, tree |-> t, paths |-> Paths]>>
  BY DEF Init
<1>2. main = <<1>> /\ attached = FALSE /\ name \in Names /\ \A r \in Requests : pc[r] = "idle"
  BY DEF Init
<1>3. Title = name /\ main # <<>>
  BY <1>1, <1>2 DEF Title, TreeOf, Tip
<1>4. QED
  BY <1>2, <1>3 DEF TitleBody, TitleOf

\* The invariant behind the next theorem: the title follows the rename under way.
THEOREM TitlesHold == Spec => []TitleInv
<1>1. Init => IInv /\ BranchInv /\ TitleInv
  BY InitInv, InitHistory, InitTitle
<1>2. IInv /\ BranchInv /\ TitleInv /\ [Next]_vars => (IInv /\ BranchInv /\ TitleInv)'
  BY InductiveStep, HistoryStep, TitleStep
<1>3. QED
  BY <1>1, <1>2, PTL DEF Spec

\* As long as only renames have written and the process did not die, whenever no operation
\* holds the lock the README's title is the project's name, refused renames included.
THEOREM TitleKeepsUp == Spec => []TitleFollowsName
<1>1. IInv /\ TitleInv => TitleFollowsName
  <2>1. ASSUME IInv, TitleInv, lock = NoOne, crashes = 0,
               \A r \in Requests : moves[r] > 0 => req[r].kind = "rename"
        PROVE  TreeOf(Tip)[Readme] = name
    <3>1. \A r \in Requests : pc[r] \notin Retitling
      BY <2>1, NoOneAssumption, HoldsLock DEF Retitling, Critical, InFlight, PcStates
    <3>2. TitleBody
      BY <2>1 DEF TitleInv, OnlyRenames
    <3>3. QED
      BY <3>1, <3>2 DEF TitleBody, Title
  <2>2. QED
    BY <2>1 DEF TitleFollowsName
<1>2. QED
  BY <1>1, InvariantHolds, TitlesHold, PTL
----------------------------------------------------------------------------
(* The refinement: every step is one of AtomicWrites, or none.             *)

\* The branch with its trees, as a value.
Seen(O, m) == [i \in DOMAIN m |-> [tree |-> O[m[i]].tree, paths |-> O[m[i]].paths]]

LEMMA SeenSeq ==
  ASSUME NEW O, NEW m \in Seq(DOMAIN O)
  PROVE  /\ Len(Seen(O, m)) = Len(m) /\ Len(m) \in Nat /\ DOMAIN m = 1..Len(m)
         /\ \A i \in 1..Len(m) : Seen(O, m)[i] = [tree |-> O[m[i]].tree, paths |-> O[m[i]].paths]
         /\ \E S : Seen(O, m) \in Seq(S)
         /\ Seen(O, m) = <<>> <=> m = <<>>
         /\ m = <<>> <=> Len(m) = 0
<1>1. Len(m) \in Nat /\ DOMAIN m = 1..Len(m)
  OBVIOUS
<1>2. PICK b : b = Seen(O, m)
  OBVIOUS
<1>3. b = [i \in 1..Len(m) |-> b[i]] /\ DOMAIN b = 1..Len(m)
  BY <1>1, <1>2 DEF Seen
<1>4. b \in [1..Len(m) -> {b[i] : i \in 1..Len(m)}]
  BY <1>3
<1>5. b \in Seq({b[i] : i \in 1..Len(m)})
  BY <1>1, <1>4, SeqDef
<1>6. Len(b) = Len(m)
  BY <1>1, <1>3, <1>5
<1>7. b = <<>> <=> m = <<>>
  BY <1>1, <1>3, <1>5, <1>6
<1>8. \A i \in 1..Len(m) : Seen(O, m)[i] = [tree |-> O[m[i]].tree, paths |-> O[m[i]].paths]
  BY <1>1 DEF Seen
<1>9. \E S : Seen(O, m) \in Seq(S)
  BY <1>2, <1>5
<1>10. QED
  BY <1>1, <1>2, <1>6, <1>7, <1>8, <1>9

\* Two sequences with the same first elements have the same beginning.
LEMMA SameBeginning ==
  ASSUME NEW S, NEW b \in Seq(S), NEW T, NEW c \in Seq(T), NEW k \in 0..Len(b), k <= Len(c),
         \A i \in 1..k : c[i] = b[i]
  PROVE  /\ SubSeq(c, 1, k) = SubSeq(b, 1, k)
         /\ Len(SubSeq(b, 1, k)) = k
         /\ \A i \in 1..k : SubSeq(b, 1, k)[i] = b[i]
         /\ k = Len(b) => SubSeq(b, 1, k) = b
<1>1. Len(b) \in Nat /\ Len(c) \in Nat
  OBVIOUS
<1>2. b \in Seq(S \cup T) /\ c \in Seq(S \cup T)
  BY SeqMonotonic
<1>3. /\ SubSeq(b, 1, k) \in Seq(S \cup T) /\ Len(SubSeq(b, 1, k)) = k
      /\ \A i \in 1..k : SubSeq(b, 1, k)[i] = b[i]
  BY <1>1, <1>2
<1>4. /\ SubSeq(c, 1, k) \in Seq(S \cup T) /\ Len(SubSeq(c, 1, k)) = k
      /\ \A i \in 1..k : SubSeq(c, 1, k)[i] = c[i]
  BY <1>1, <1>2
<1>5. SubSeq(c, 1, k) = SubSeq(b, 1, k)
  BY <1>3, <1>4, SeqEqual
<1>6. k = Len(b) => SubSeq(b, 1, k) = b
  BY <1>2, <1>3, SeqEqual
<1>7. QED
  BY <1>3, <1>5, <1>6

LEMMA BranchSeen ==
  /\ branchSeen = Seen(object, main)
  /\ branchSeen' = Seen(object', main')
BY DEF branchSeen, Seen, TreeOf

\* A commit on top of the first k commits of the branch is one on top of what is seen of them.
LEMMA SeenGrows ==
  ASSUME TypeOK, TypeOK', ObjectsStay, NEW k \in DOMAIN main, NEW c \in DOMAIN object',
         Grown(k, c),
         \A p \in Paths \ object'[c].paths : object'[c].tree[p] = TreeOf(main[k])[p]
  PROVE  /\ Atomic!Extends(SubSeq(branchSeen, 1, k))
         /\ k = Len(main) => SubSeq(branchSeen, 1, k) = branchSeen
         /\ branchSeen'[Len(branchSeen')].paths = object'[c].paths
         /\ k \in 1..Len(branchSeen)
<1>1. PICK b, bn : b = branchSeen /\ bn = branchSeen'
  OBVIOUS
<1>2. main \in Seq(DOMAIN object) /\ main' \in Seq(DOMAIN object')
  <2>1. main \in Seq(DOMAIN object)
    BY DEF TypeOK
  <2>2. main' \in Seq(DOMAIN object')
    BY DEF TypeOK
  <2>3. QED
    BY <2>1, <2>2
<1>3. /\ Len(b) = Len(main) /\ Len(main) \in Nat /\ DOMAIN main = 1..Len(main)
      /\ \A i \in 1..Len(main) : b[i] = [tree |-> object[main[i]].tree,
                                         paths |-> object[main[i]].paths]
      /\ \E S : b \in Seq(S)
  <2>1. b = Seen(object, main)
    BY <1>1, BranchSeen
  <2>2. /\ Len(Seen(object, main)) = Len(main) /\ Len(main) \in Nat /\ DOMAIN main = 1..Len(main)
        /\ \A i \in 1..Len(main) : Seen(object, main)[i] =
              [tree |-> object[main[i]].tree, paths |-> object[main[i]].paths]
        /\ \E S : Seen(object, main) \in Seq(S)
    BY <1>2, SeenSeq
  <2>3. QED
    BY <2>1, <2>2
<1>4. /\ Len(bn) = Len(main') /\ Len(main') \in Nat /\ DOMAIN main' = 1..Len(main')
      /\ \A i \in 1..Len(main') : bn[i] = [tree |-> object'[main'[i]].tree,
                                           paths |-> object'[main'[i]].paths]
      /\ \E S : bn \in Seq(S)
  <2>1. bn = Seen(object', main')
    BY <1>1, BranchSeen
  <2>2. /\ Len(Seen(object', main')) = Len(main') /\ Len(main') \in Nat /\ DOMAIN main' = 1..Len(main')
        /\ \A i \in 1..Len(main') : Seen(object', main')[i] =
              [tree |-> object'[main'[i]].tree, paths |-> object'[main'[i]].paths]
        /\ \E S : Seen(object', main') \in Seq(S)
    BY <1>2, SeenSeq
  <2>3. QED
    BY <2>1, <2>2
<1>5. k \in 1..Len(main) /\ Len(main') = k + 1 /\ main'[k + 1] = c
  BY <1>3, <1>4 DEF Grown
<1>6. \A i \in 1..k : bn[i] = b[i]
  <2> TAKE i \in 1..k
  <2>1. i \in 1..Len(main) /\ i \in 1..Len(main') /\ main'[i] = main[i] /\ main[i] \in DOMAIN object
    BY <1>3, <1>5, BranchTypes DEF Grown
  <2>2. object'[main'[i]] = object[main[i]]
    BY <2>1 DEF ObjectsStay
  <2>3. bn[i] = [tree |-> object[main[i]].tree, paths |-> object[main[i]].paths]
    BY <1>4, <2>1, <2>2
  <2>4. QED
    BY <1>3, <2>1, <2>3
<1>7. PICK base : base = SubSeq(b, 1, k)
  OBVIOUS
<1>8. /\ SubSeq(bn, 1, k) = base /\ Len(base) = k
      /\ \A i \in 1..k : base[i] = b[i]
      /\ k = Len(b) => base = b
  <2>1. k \in 0..Len(b) /\ k <= Len(bn)
    BY <1>3, <1>4, <1>5
  <2>2. QED
    BY <1>3, <1>4, <1>6, <1>7, <2>1, SameBeginning
<1>9. bn[Len(bn)].tree = object'[c].tree /\ bn[Len(bn)].paths = object'[c].paths
  <2>1. Len(bn) \in 1..Len(main') /\ main'[Len(bn)] = c
    BY <1>4, <1>5
  <2>2. bn[Len(bn)] = [tree |-> object'[c].tree, paths |-> object'[c].paths]
    BY <1>4, <2>1
  <2>3. QED
    BY <2>2
<1>10. base # <<>> /\ base[Len(base)].tree = TreeOf(main[k])
  <2>1. k \in 1..k /\ k # 0
    BY <1>5
  <2>2. base[k] = [tree |-> object[main[k]].tree, paths |-> object[main[k]].paths]
    BY <1>3, <1>5, <1>8, <2>1
  <2>3. QED
    BY <1>8, <2>1, <2>2 DEF TreeOf
<1>11. Atomic!OnTop(base, bn[Len(bn)])
  BY <1>9, <1>10 DEF Atomic!OnTop
<1>12. Len(bn) = Len(base) + 1
  BY <1>4, <1>5, <1>8
<1>13. Atomic!Extends(base)
  BY <1>1, <1>8, <1>11, <1>12 DEF Atomic!Extends
<1>14. QED
  BY <1>1, <1>3, <1>5, <1>7, <1>8, <1>9, <1>13

\* What a client sees of the requests when a handler takes a step.
LEMMA SeenRequests ==
  ASSUME IInv, BranchInv, NEW r \in Requests, Step(r) \/ Cancel(r)
  PROVE  /\ opSeen' = opSeen /\ opSeen[r] = req[r].kind
         /\ Atomic!Working(r)
         /\ \A s \in Requests \ {r} : Told(s)' = Told(s)
         /\ pc'[r] # "done" => answerSeen' = answerSeen
<1>1. /\ Work(r) /\ pc[r] \in InFlight /\ req'[r].kind = req[r].kind
      /\ \A s \in Requests \ {r} : pc'[s] = pc[s] /\ req'[s] = req[s]
  BY BranchParts
<1>2. opSeen' = opSeen /\ opSeen[r] = req[r].kind
  BY <1>1 DEF opSeen
<1>3. Told(r) = "none" /\ req[r].kind # "none"
  BY <1>1 DEF Told, Work, InFlight
<1>4. Atomic!Working(r)
  BY <1>2, <1>3 DEF Atomic!Working, answerSeen
<1>5. \A s \in Requests \ {r} : Told(s)' = Told(s)
  BY <1>1 DEF Told
<1>6. pc'[r] # "done" => Told(r)' = "none"
  BY DEF Told
<1>7. pc'[r] # "done" => answerSeen' = answerSeen
  BY <1>3, <1>5, <1>6 DEF answerSeen
<1>8. QED
  BY <1>2, <1>4, <1>5, <1>7

LEMMA OnlyReleaseAnswers ==
  ASSUME IInv, NEW r \in Requests, Step(r) \/ Cancel(r), ~Release(r)
  PROVE  pc'[r] # "done"
<1>1. pc \in [Requests -> PcStates]
  BY DEF IInv, TypeOK
<1>2. CASE Acquire(r)
  BY <1>1, <1>2 DEF Acquire
<1>3. CASE Inside(r)
  BY <1>1, <1>3 DEF Inside, Critical, InFlight
<1>4. QED
  BY <1>1, <1>2, <1>3, StepInside

LEMMA SeenStays ==
  ASSUME IInv, ObjectsStay, main' = main
  PROVE  branchSeen' = branchSeen
<1>1. main \in Seq(DOMAIN object) /\ \A i \in DOMAIN main : main[i] \in DOMAIN object
  BY BranchTypes DEF IInv, TypeOK
<1>2. \A i \in DOMAIN main : object'[main'[i]] = object[main[i]]
  BY <1>1 DEF ObjectsStay
<1>3. Seen(object', main') = Seen(object, main)
  BY <1>2 DEF Seen
<1>4. QED
  BY <1>3, BranchSeen

\* A step that moves the branch once is, to the clients, that and nothing else.
LEMMA MovedSeen ==
  ASSUME IInv, BranchInv, NEW r \in Requests, Step(r) \/ Cancel(r), ~Release(r),
         moves' = [moves EXCEPT ![r] = moves[r] + 1]
  PROVE  Atomic!Moved(r)
BY SeenRequests, OnlyReleaseAnswers DEF Atomic!Moved

LEMMA UpdateRefIsEdit ==
  ASSUME IInv, BranchInv, NEW r \in Requests, UpdateRef(r)
  PROVE  Atomic!Edit(r)
<1>1. /\ TypeOK /\ TypeOK' /\ ObjectsStay /\ MovesSoFar(r) /\ RequestInv(r)
      /\ pc[r] = "committed" /\ Step(r) /\ ~Release(r)
  BY BranchParts DEF Step, UpdateRef, Release
<1>2. req[r].kind \in {"changeset", "revert"} /\ moves[r] = 0
  BY <1>1 DEF RequestInv, MovesSoFar, Building
<1>3. PICK k \in DOMAIN main : k = Len(main)
  BY UpdateRefEffect
<1>4. PICK c \in DOMAIN object' :
        /\ Grown(k, c)
        /\ \A p \in Paths \ object'[c].paths : object'[c].tree[p] = TreeOf(main[k])[p]
  BY <1>3, UpdateRefEffect DEF TreeOf
<1>5. Atomic!Extends(branchSeen)
  BY <1>1, <1>3, <1>4, SeenGrows
<1>6. moves' = [moves EXCEPT ![r] = moves[r] + 1]
  BY UpdateRefEffect
<1>7. Atomic!Moved(r)
  BY <1>1, <1>6, MovedSeen
<1>8. QED
  BY <1>1, <1>2, <1>5, <1>7, SeenRequests DEF Atomic!Edit

LEMMA CommitTitleIsRetitle ==
  ASSUME IInv, BranchInv, NEW r \in Requests, CommitTitle(r)
  PROVE  Atomic!Retitle(r) \/ UNCHANGED Atomic!vars
<1>1. /\ TypeOK /\ TypeOK' /\ ObjectsStay /\ MovesSoFar(r) /\ RequestInv(r)
      /\ pc[r] = "attached" /\ Step(r) /\ ~Release(r) /\ req[r].kind = "rename"
  BY BranchParts, CommitTitleEffect DEF Step, CommitTitle, Release
<1>2. CASE UNCHANGED <<object, main, moves>>
  BY <1>1, <1>2, SeenRequests, SeenStays, OnlyReleaseAnswers DEF Atomic!vars
<1>3. CASE ~UNCHANGED <<object, main, moves>>
  <2>1. /\ moves' = [moves EXCEPT ![r] = moves[r] + 1]
        /\ Len(main) \in DOMAIN main
        /\ \E c \in DOMAIN object' :
             /\ Grown(Len(main), c) /\ object'[c].paths = {Readme}
             /\ \A p \in Paths \ object'[c].paths :
                  TreeOf(c)'[p] = TreeOf(main[Len(main)])[p]
    BY <1>3, CommitTitleEffect
  <2>2. PICK k \in DOMAIN main : k = Len(main)
    BY <2>1
  <2>3. PICK c \in DOMAIN object' :
          /\ Grown(k, c) /\ object'[c].paths = {Readme}
          /\ \A p \in Paths \ object'[c].paths : object'[c].tree[p] = TreeOf(main[k])[p]
    BY <2>1, <2>2 DEF TreeOf
  <2>4. Atomic!Extends(branchSeen) /\ branchSeen'[Len(branchSeen')].paths = {Readme}
    BY <1>1, <2>2, <2>3, SeenGrows
  <2>5. moves[r] < 2
    BY <1>1 DEF MovesSoFar
  <2>6. Atomic!Moved(r)
    BY <1>1, <2>1, MovedSeen
  <2>7. QED
    BY <1>1, <2>4, <2>5, <2>6, SeenRequests DEF Atomic!Retitle
<1>4. QED
  BY <1>2, <1>3

LEMMA PushBranchIsPush ==
  ASSUME IInv, BranchInv, NEW r \in Requests, PushBranch(r)
  PROVE  Atomic!Push(r) \/ UNCHANGED Atomic!vars
<1>1. /\ TypeOK /\ TypeOK' /\ ObjectsStay /\ MovesSoFar(r)
      /\ pc[r] = "locked" /\ Step(r) /\ ~Release(r) /\ req[r].kind = "push"
  BY BranchParts, PushBranchEffect DEF Step, PushBranch, Release
<1>2. CASE UNCHANGED <<object, main, moves>>
  BY <1>1, <1>2, SeenRequests, SeenStays, OnlyReleaseAnswers DEF Atomic!vars
<1>3. CASE ~UNCHANGED <<object, main, moves>>
  <2>1. /\ moves' = [moves EXCEPT ![r] = moves[r] + 1]
        /\ \E k \in DOMAIN main :
             \/ main' = SubSeq(main, 1, k) /\ object' = object
             \/ \E c \in DOMAIN object' :
                  /\ Grown(k, c)
                  /\ \A p \in Paths \ object'[c].paths :
                       TreeOf(c)'[p] = TreeOf(main[k])[p]
    BY <1>3, PushBranchEffect
  <2>2. PICK k \in DOMAIN main :
             \/ main' = SubSeq(main, 1, k) /\ object' = object
             \/ \E c \in DOMAIN object' :
                  /\ Grown(k, c)
                  /\ \A p \in Paths \ object'[c].paths :
                       object'[c].tree[p] = TreeOf(main[k])[p]
    BY <2>1 DEF TreeOf
  <2>3. /\ k \in 1..Len(branchSeen)
        /\ branchSeen' = SubSeq(branchSeen, 1, k) \/ Atomic!Extends(SubSeq(branchSeen, 1, k))
    <3>1. CASE main' = SubSeq(main, 1, k) /\ object' = object
      <4>1. main \in Seq(DOMAIN object)
        BY <1>1 DEF TypeOK
      <4>2. PICK b, bn : b = branchSeen /\ bn = branchSeen'
        OBVIOUS
      <4>3. /\ main' \in Seq(DOMAIN object) /\ Len(main') = k /\ k \in 1..Len(main)
            /\ \A i \in 1..k : main'[i] = main[i] /\ i \in 1..Len(main)
        BY <3>1, <4>1
      <4>4. /\ Len(b) = Len(main) /\ DOMAIN main = 1..Len(main) /\ Len(main) \in Nat
            /\ \A i \in 1..Len(main) : b[i] = [tree |-> object[main[i]].tree,
                                               paths |-> object[main[i]].paths]
            /\ \E S : b \in Seq(S)
        BY <4>1, <4>2, BranchSeen, SeenSeq
      <4>5. /\ Len(bn) = k
            /\ \A i \in 1..k : bn[i] = [tree |-> object[main'[i]].tree,
                                        paths |-> object[main'[i]].paths]
            /\ \E T : bn \in Seq(T)
        <5>1. bn = Seen(object, main')
          BY <3>1, <4>2, BranchSeen
        <5>2. QED
          BY <4>3, <5>1, SeenSeq
      <4>6. SubSeq(bn, 1, k) = SubSeq(b, 1, k)
        <5>1. k \in 0..Len(b) /\ k <= Len(bn)
          BY <4>3, <4>4, <4>5
        <5>2. \A i \in 1..k : bn[i] = b[i]
          BY <4>3, <4>4, <4>5
        <5>3. QED
          BY <4>4, <4>5, <5>1, <5>2, SameBeginning
      <4>7. SubSeq(bn, 1, k) = bn
        BY <4>5, SubSeqFull
      <4>8. QED
        BY <4>2, <4>3, <4>4, <4>6, <4>7
    <3>2. CASE \E c \in DOMAIN object' :
                 /\ Grown(k, c)
                 /\ \A p \in Paths \ object'[c].paths :
                      object'[c].tree[p] = TreeOf(main[k])[p]
      BY <1>1, <3>2, SeenGrows
    <3>3. QED
      BY <2>2, <3>1, <3>2
  <2>4. moves[r] = 0
    BY <1>1 DEF MovesSoFar
  <2>5. Atomic!Moved(r)
    BY <1>1, <2>1, MovedSeen
  <2>6. QED
    BY <1>1, <2>3, <2>4, <2>5, SeenRequests DEF Atomic!Push
<1>4. QED
  BY <1>2, <1>3

LEMMA RewriteIsPurge ==
  ASSUME IInv, BranchInv, NEW r \in Requests, FilterBranch(r) \/ EnsureBranchExists(r)
  PROVE  Atomic!Purge(r)
<1>1. /\ TypeOK /\ TypeOK' /\ MovesSoFar(r) /\ RequestInv(r) /\ req[r] \in Request
      /\ pc[r] \in {"rewrite", "rewritten"} /\ Step(r) /\ ~Release(r)
  BY BranchParts DEF Step, FilterBranch, EnsureBranchExists, Release
<1>2. req[r].kind = "purge"
  BY <1>1 DEF RequestInv
<1>3. moves' = [moves EXCEPT ![r] = moves[r] + 1]
  BY FilterBranchEffect, EnsureEffect
<1>4. moves[r] < 2
  BY <1>1, EnsureEffect DEF MovesSoFar, FilterBranch
<1>5. Atomic!Moved(r)
  BY <1>1, <1>3, MovedSeen
<1>6. PICK b, bn : b = branchSeen /\ bn = branchSeen'
  OBVIOUS
<1>7. main \in Seq(DOMAIN object) /\ main' \in Seq(DOMAIN object')
  BY <1>1 DEF TypeOK
<1>8. /\ Len(b) = Len(main) /\ Len(main) \in Nat /\ DOMAIN main = 1..Len(main)
      /\ \A i \in 1..Len(main) : b[i] = [tree |-> object[main[i]].tree,
                                         paths |-> object[main[i]].paths]
      /\ b = <<>> <=> main = <<>>
      /\ main = <<>> <=> Len(main) = 0
  BY <1>6, <1>7, BranchSeen, SeenSeq
<1>9. /\ Len(bn) = Len(main') /\ Len(main') \in Nat /\ DOMAIN main' = 1..Len(main')
      /\ \A i \in 1..Len(main') : bn[i] = [tree |-> object'[main'[i]].tree,
                                           paths |-> object'[main'[i]].paths]
      /\ bn = <<>> <=> main' = <<>>
      /\ main' = <<>> <=> Len(main') = 0
  BY <1>6, <1>7, BranchSeen, SeenSeq
<1>10. PICK P \in SUBSET Paths : P = req[r].purge
  BY <1>1 DEF Request
<1>11. /\ Len(main') <= Len(main) + 1
       /\ \A i \in 1..Len(main'), p \in P : object'[main'[i]].tree[p] = Absent
       /\ \A p \in Paths \ P : main # <<>> =>
            object[main[Len(main)]].tree[p] =
              IF main' = <<>> THEN Absent ELSE object'[main'[Len(main')]].tree[p]
  <2>1. CASE FilterBranch(r)
    <3>1. /\ Len(main') <= Len(main)
          /\ \A i \in DOMAIN main', p \in P : object'[main'[i]].tree[p] = Absent
          /\ \A p \in Paths \ P :
               main # <<>> =>
                 TreeOf(main[Len(main)])[p] =
                   IF main' = <<>> THEN Absent ELSE object'[main'[Len(main')]].tree[p]
      BY <1>10, <2>1, FilterBranchEffect
    <3>2. QED
      BY <1>8, <1>9, <3>1 DEF TreeOf
  <2>2. CASE EnsureBranchExists(r)
    <3>1. /\ main = <<>> /\ DOMAIN main' = {1} /\ Len(main') = 1
          /\ object'[main'[1]].tree = EmptyTree
      BY <2>2, EnsureEffect
    <3>2. \A p \in P : EmptyTree[p] = Absent
      BY DEF EmptyTree
    <3>3. QED
      BY <1>8, <3>1, <3>2
  <2>3. QED
    BY <2>1, <2>2
<1>12. Len(bn) <= Len(b) + 1
  BY <1>8, <1>9, <1>11
<1>13. /\ \A i \in 1..Len(main) : b[i].tree = object[main[i]].tree
       /\ \A i \in 1..Len(main') : bn[i].tree = object'[main'[i]].tree
  <2>1. ASSUME NEW i \in 1..Len(main) PROVE b[i].tree = object[main[i]].tree
    <3>1. b[i] = [tree |-> object[main[i]].tree, paths |-> object[main[i]].paths]
      BY <1>8
    <3>2. QED
      BY <3>1
  <2>2. ASSUME NEW i \in 1..Len(main') PROVE bn[i].tree = object'[main'[i]].tree
    <3>1. bn[i] = [tree |-> object'[main'[i]].tree, paths |-> object'[main'[i]].paths]
      BY <1>9
    <3>2. QED
      BY <3>1
  <2>3. QED
    BY <2>1, <2>2
<1>14. /\ \A i \in 1..Len(bn), p \in P : bn[i].tree[p] = Absent
       /\ \A p \in Paths \ P : b # <<>> => b[Len(b)].tree[p] =
              IF bn = <<>> THEN Absent ELSE bn[Len(bn)].tree[p]
  <2>1. \A i \in 1..Len(bn), p \in P : bn[i].tree[p] = Absent
    <3> TAKE i \in 1..Len(bn), p \in P
    <3>1. i \in 1..Len(main')
      BY <1>9
    <3>2. QED
      BY <1>11, <1>13, <3>1
  <2>2. main # <<>> => b[Len(b)].tree = object[main[Len(main)]].tree
    <3>1. main # <<>> => Len(main) \in 1..Len(main)
      BY <1>8
    <3>2. QED
      BY <1>8, <1>13, <3>1
  <2>3. main' # <<>> => bn[Len(bn)].tree = object'[main'[Len(main')]].tree
    <3>1. main' # <<>> => Len(main') \in 1..Len(main')
      BY <1>9
    <3>2. QED
      BY <1>9, <1>13, <3>1
  <2>4. ASSUME NEW p \in Paths \ P, b # <<>>
        PROVE  b[Len(b)].tree[p] = IF bn = <<>> THEN Absent ELSE bn[Len(bn)].tree[p]
    <3>1. main # <<>> /\ (bn = <<>> <=> main' = <<>>)
      BY <1>8, <1>9, <2>4
    <3>2. object[main[Len(main)]].tree[p] =
            IF main' = <<>> THEN Absent ELSE object'[main'[Len(main')]].tree[p]
      BY <1>11, <2>4, <3>1
    <3>3. QED
      BY <2>2, <2>3, <3>1, <3>2
  <2>5. QED
    BY <2>1, <2>4
<1>15. \E Q \in SUBSET Paths :
         /\ \A i \in 1..Len(branchSeen'), p \in Q : branchSeen'[i].tree[p] = Absent
         /\ \A p \in Paths \ Q :
              branchSeen # <<>> => branchSeen[Len(branchSeen)].tree[p] =
                IF branchSeen' = <<>> THEN Absent ELSE branchSeen'[Len(branchSeen')].tree[p]
  BY <1>6, <1>14
<1>16. Len(branchSeen') <= Len(branchSeen) + 1
  BY <1>6, <1>12
<1>17. QED
  BY <1>2, <1>4, <1>5, <1>15, <1>16, <1>1, SeenRequests DEF Atomic!Purge

LEMMA ReleaseIsAnswer ==
  ASSUME IInv, BranchInv, NEW r \in Requests, Release(r)
  PROVE  Atomic!Answer(r)
<1>1. /\ TypeOK /\ ObjectsStay /\ Work(r) /\ MovesSoFar(r) /\ Step(r) /\ pc[r] = "release"
      /\ req \in [Requests -> Request] /\ pc \in [Requests -> PcStates]
      /\ req[r] \in Request
  BY BranchParts DEF Step, Release, TypeOK
<1>2. /\ pc'[r] = "done" /\ UNCHANGED <<main, moves>> /\ req'[r].out = req[r].out
  BY <1>1 DEF Release, repo, Request
<1>3. PICK a : a = Told(r)'
  OBVIOUS
<1>4. a = CASE req[r].out = "ok" -> "granted"
            [] req[r].out = "preview" -> "previewed"
            [] req[r].out = "lost" -> "unknown"
            [] OTHER -> "refused"
  BY <1>2, <1>3 DEF Told
<1>5. /\ opSeen' = opSeen /\ opSeen[r] = req[r].kind
      /\ Atomic!Working(r)
      /\ \A s \in Requests \ {r} : Told(s)' = Told(s)
  BY <1>1, SeenRequests
<1>6. a \in Atomic!Answers
  BY <1>4 DEF Atomic!Answers
<1>7. Atomic!MayHear(r, a)
  <2>1. /\ a = "granted" <=> req[r].out = "ok"
        /\ a = "previewed" <=> req[r].out = "preview"
        /\ a = "refused" <=> req[r].out \notin {"ok", "preview", "lost"}
    BY <1>4
  <2>2. req[r].out = "ok" /\ req[r].kind \in {"changeset", "revert"} => moves[r] = 1
    BY <1>1 DEF MovesSoFar
  <2>3. req[r].out = "preview" => req[r].kind = "changeset" /\ moves[r] = 0
    BY <1>1 DEF MovesSoFar, Work
  <2>4. req[r].out \notin {"ok", "lost"} /\ req[r].kind # "rename" => moves[r] = 0
    BY <1>1 DEF MovesSoFar
  <2>5. QED
    BY <1>5, <2>1, <2>2, <2>3, <2>4 DEF Atomic!MayHear
<1>8. answerSeen' = [answerSeen EXCEPT ![r] = a]
  BY <1>3, <1>5 DEF answerSeen
<1>9. branchSeen' = branchSeen
  BY <1>1, <1>2, SeenStays
<1>10. QED
  BY <1>2, <1>5, <1>6, <1>7, <1>8, <1>9 DEF Atomic!Answer

LEMMA StepRefines ==
  ASSUME IInv, BranchInv, NEW r \in Requests, Step(r) \/ Cancel(r)
  PROVE  Atomic!Next \/ UNCHANGED Atomic!vars
<1>1. CASE \/ UpdateRef(r) \/ CommitTitle(r) \/ PushBranch(r) \/ FilterBranch(r)
           \/ EnsureBranchExists(r) \/ Release(r)
  BY <1>1, UpdateRefIsEdit, CommitTitleIsRetitle, PushBranchIsPush, RewriteIsPurge,
     ReleaseIsAnswer DEF Atomic!Next
<1>2. CASE ~ \/ UpdateRef(r) \/ CommitTitle(r) \/ PushBranch(r) \/ FilterBranch(r)
             \/ EnsureBranchExists(r) \/ Release(r)
  <2>1. main' = main /\ moves' = moves /\ ObjectsStay /\ pc'[r] # "done"
    BY <1>2, StillSteps, BranchParts, OnlyReleaseAnswers
  <2>2. QED
    BY <2>1, SeenStays, SeenRequests DEF Atomic!vars
<1>3. QED
  BY <1>1, <1>2

LEMMA ArrivalRefines ==
  ASSUME IInv, BranchInv, NEW r \in Requests, Arrival(r)
  PROVE  Atomic!Next
<1>0. TypeOK /\ Arrived(r) /\ Work(r)
  BY ArrivalEffect DEF IInv, BranchInv
<1>1. /\ pc[r] = "idle" /\ UNCHANGED <<main, object, moves>>
      /\ req'[r].kind \in AllKinds /\ req[r].kind = "none"
      /\ \A s \in Requests \ {r} : req'[s] = req[s] /\ pc'[s] = pc[s]
  BY <1>0 DEF Arrived, Work
<1>2. PICK a \in {"none", "refused"} : a = Told(r)'
  BY <1>0 DEF Arrived, Told
<1>3. \A s \in Requests \ {r} : Told(s)' = Told(s)
  BY <1>1 DEF Told
<1>4. answerSeen' = [answerSeen EXCEPT ![r] = a]
  BY <1>2, <1>3 DEF answerSeen
<1>5. PICK k \in AllKinds : k = req'[r].kind
  BY <1>1
<1>6. opSeen' = [opSeen EXCEPT ![r] = k] /\ opSeen[r] = "none"
  BY <1>1, <1>5 DEF opSeen
<1>7. branchSeen' = branchSeen
  BY <1>1, BranchSeen
<1>8. Atomic!Invoke(r, a)
  BY <1>1, <1>4, <1>6, <1>7 DEF Atomic!Invoke
<1>9. QED
  BY <1>8 DEF Atomic!Next

LEMMA CrashRefines ==
  ASSUME IInv, BranchInv, Crash
  PROVE  Atomic!Next
<1>0. /\ TypeOK /\ UNCHANGED <<main, object, moves>>
      /\ \A s \in Requests :
           /\ req'[s].kind = req[s].kind /\ Work(s) /\ pc[s] \in PcStates
           /\ pc[s] \in InFlight => pc'[s] = "done" /\ req'[s].out = "lost"
           /\ pc[s] \notin InFlight => pc'[s] = pc[s] /\ req'[s] = req[s]
  BY CrashEffect DEF IInv, BranchInv, TypeOK
<1>1. opSeen' = opSeen /\ branchSeen' = branchSeen
  BY <1>0, BranchSeen DEF opSeen
<1>2. ASSUME NEW s \in Requests
      PROVE  Told(s)' = IF Atomic!Working(s) THEN "unknown" ELSE answerSeen[s]
  <2>1. answerSeen[s] = Told(s) /\ opSeen[s] = req[s].kind
    BY DEF answerSeen, opSeen
  <2>2. Atomic!Working(s) <=> pc[s] \in InFlight
    <3>1. Told(s) = "none" <=> pc[s] # "done"
      BY DEF Told
    <3>2. req[s].kind # "none" <=> pc[s] # "idle"
      BY <1>0 DEF Work
    <3>3. QED
      BY <1>0, <2>1, <3>1, <3>2 DEF Atomic!Working, InFlight
  <2>3. pc[s] \in InFlight => Told(s)' = "unknown"
    BY <1>0 DEF Told
  <2>4. pc[s] \notin InFlight => Told(s)' = Told(s)
    BY <1>0 DEF Told
  <2>5. QED
    BY <2>1, <2>2, <2>3, <2>4
<1>3. answerSeen' = [s \in Requests |-> IF Atomic!Working(s) THEN "unknown" ELSE answerSeen[s]]
  BY <1>2 DEF answerSeen
<1>4. QED
  BY <1>0, <1>1, <1>3 DEF Atomic!Next, Atomic!Crash

LEMMA InitRefines == Init => Atomic!Init
<1> SUFFICES ASSUME Init PROVE Atomic!Init
  OBVIOUS
<1>1. main \in Seq(DOMAIN object) /\ Len(main) = 1
  <2>1. TypeOK
    BY InitType
  <2>2. QED
    BY <2>1 DEF Init, TypeOK
<1>2. Len(branchSeen) = 1
  BY <1>1, BranchSeen, SeenSeq
<1>3. /\ opSeen = [r \in Requests |-> "none"] /\ answerSeen = [r \in Requests |-> "none"]
      /\ moves = [r \in Requests |-> 0]
  BY DEF Init, opSeen, answerSeen, Told, NoRequest
<1>4. QED
  BY <1>2, <1>3 DEF Atomic!Init

\* Every behaviour of the write path is one of AtomicWrites: between its arrival and its
\* answer a request writes in one step on top of the tip, or not at all.
THEOREM WritesAreAtomic == Spec => ImplementsAtomicWrites
<1>1. Init => Atomic!Init
  BY InitRefines
<1>2. IInv /\ BranchInv /\ [Next]_vars => [Atomic!Next]_Atomic!vars
  <2>1. CASE UNCHANGED vars
    <3>1. UNCHANGED <<main, object, moves, req, pc>>
      BY <2>1 DEF vars, repo
    <3>2. UNCHANGED <<branchSeen, opSeen, moves, answerSeen>>
      BY <3>1, BranchSeen DEF opSeen, answerSeen, Told
    <3>3. QED
      BY <3>2 DEF Atomic!vars
  <2>2. QED
    BY <2>1, ArrivalRefines, StepRefines, CrashRefines DEF Next, Finished
<1>3. QED
  BY <1>1, <1>2, InvariantHolds, HistoryHolds, PTL DEF Spec, ImplementsAtomicWrites, Atomic!Spec
============================================================================
