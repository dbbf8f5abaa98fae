----------------------- MODULE ProjectReaders_proofs -----------------------
(***************************************************************************)
(* TLAPS proofs about SearchIndex and ProjectReaders, for any workers,     *)
(* paths and blobs, any bounds, and any number of reads at any time.       *)
(***************************************************************************)
EXTENDS ProjectReaders, TLAPS

Walking == {"walk", "links", "list", "remove"}
Walked == {"links", "list", "remove"}

\* What a reindex has walked and listed of its revision.
WalkInv(w) ==
  /\ worker[w].pc \in {"mark", "open", "revision"} => worker[w].seen = {}
  /\ worker[w].pc \in Walking => /\ worker[w].rev \in DOMAIN tree
                                 /\ worker[w].seen \subseteq Files(Target(w))
  /\ worker[w].pc \in Walked => Files(Target(w)) \subseteq worker[w].seen
  /\ At(w, "remove") => worker[w].drop \cap worker[w].seen = {}

\* What one that nothing has disturbed has brought about in the index.
SyncInv(w) ==
  w \notin disturbed =>
    /\ worker[w].pc \in Walking =>
         \A p \in worker[w].seen : Target(w)[p] \in Texts => index[p] = Target(w)[p]
    /\ worker[w].pc \in {"list", "remove"} => links = Target(w)
    /\ At(w, "remove") =>
         \A p \in Paths : Target(w)[p] = NoFile => index[p] = NoFile \/ p \in worker[w].drop

IndexInv ==
  /\ TypeOK
  /\ \A w \in Workers : WalkInv(w) /\ SyncInv(w)
  /\ DirtyHasWorker

\* What a read has got so far is of its revision, or of one the branch was at.
Covered(w, p) == \E v \in heads[w] : reader[w].got[p] = tree[v][p]

ReaderInv(w) ==
  /\ reader[w].pc \in {"revision", "blob", "home", "root"} => reader[w].got = Empty
  /\ reader[w].pc \in {"blob", "page"} => reader[w].rev \in DOMAIN tree
  /\ ReadAt(w, "page") =>
       \A p \in Paths : reader[w].got[p] # NoFile =>
         reader[w].got[p] = tree[reader[w].rev][p]
  /\ reader[w].pc \in {"stamp", "opening"} =>
       \A p \in Paths : reader[w].got[p] # NoFile => Covered(w, p)
  /\ ReadAt(w, "walk") =>
       /\ head \in heads[w]
       /\ reader[w].dir =>
            reader[w].todo \cap Sub = {} /\ \A p \in Sub : reader[w].got[p] = NoFile
       /\ \A p \in Paths \ reader[w].todo : ~(p \in Sub /\ reader[w].dir) => Covered(w, p)
  /\ ReadAt(w, "zip") => \A p \in Paths : Covered(w, p)

ReadInv == ReadTypeOK /\ \A w \in Workers : ReaderInv(w)

\* Reads without the bound EarlyAndAlone: any number of them, at any time.
FreeNext == (\E w \in Workers : Begin(w) \/ Read(w) \/ Beside(w)) \/ CrashAll

FreeSpec == ReadInit /\ [][FreeNext]_<<vars, readerVars>>
----------------------------------------------------------------------------
(* The index: types. *)

LEMMA IdleTypes ==
  /\ Idle \in Locals /\ Idle.pc = "idle" /\ Idle.seen = {}
  /\ Starting \in Locals /\ Starting.pc = "mark" /\ Starting.seen = {}
BY DEF Idle, Starting, Locals, Steps

LEMMA GoStep ==
  ASSUME TypeOK, NEW w \in Workers, NEW step \in Steps, Go(w, step)
  PROVE  /\ worker' \in [Workers -> Locals]
         /\ worker'[w].pc = step /\ worker'[w].rev = worker[w].rev
         /\ worker'[w].seen = worker[w].seen /\ worker'[w].drop = worker[w].drop
         /\ \A x \in Workers \ {w} : worker'[x] = worker[x]
<1>1. worker[w] \in Locals /\ worker' = [worker EXCEPT ![w] = [worker[w] EXCEPT !.pc = step]]
  BY DEF TypeOK, Go
<1>2. [worker[w] EXCEPT !.pc = step] \in Locals
  BY <1>1 DEF Locals
<1>3. QED
  BY <1>1, <1>2 DEF TypeOK, Locals

LEMMA BecomeStep ==
  ASSUME TypeOK, NEW w \in Workers, NEW locals \in Locals, Become(w, locals)
  PROVE  /\ worker' \in [Workers -> Locals] /\ worker'[w] = locals
         /\ \A x \in Workers \ {w} : worker'[x] = worker[x]
BY DEF TypeOK, Become

LEMMA RevisionStep ==
  ASSUME TypeOK, NEW w \in Workers, Revision(w)
  PROVE  /\ worker' \in [Workers -> Locals]
         /\ worker'[w].pc = "walk" /\ worker'[w].rev = head
         /\ worker'[w].seen = worker[w].seen
         /\ \A x \in Workers \ {w} : worker'[x] = worker[x]
<1>1. worker[w] \in Locals /\ worker \in [Workers -> Locals] /\ head \in Nat
  BY DEF TypeOK
<1>2. worker' = [worker EXCEPT ![w].pc = "walk", ![w].rev = head]
  BY DEF Revision
<1>3. worker' = [worker EXCEPT ![w] = [worker[w] EXCEPT !.pc = "walk", !.rev = head]]
  BY <1>1, <1>2
<1>4. [worker[w] EXCEPT !.pc = "walk", !.rev = head] \in Locals
  BY <1>1 DEF Locals, Steps
<1>5. QED
  BY <1>1, <1>3, <1>4 DEF Locals

LEMMA SeeStep ==
  ASSUME TypeOK, NEW w \in Workers, NEW p \in Paths, See(w, p)
  PROVE  /\ worker' \in [Workers -> Locals]
         /\ worker'[w].pc = worker[w].pc /\ worker'[w].rev = worker[w].rev
         /\ worker'[w].seen = worker[w].seen \cup {p}
         /\ \A x \in Workers \ {w} : worker'[x] = worker[x]
<1>1. /\ worker[w] \in Locals
      /\ worker' = [worker EXCEPT ![w] = [worker[w] EXCEPT !.seen = worker[w].seen \cup {p}]]
  BY DEF TypeOK, See
<1>2. [worker[w] EXCEPT !.seen = worker[w].seen \cup {p}] \in Locals
  BY <1>1 DEF Locals
<1>3. QED
  BY <1>1, <1>2 DEF TypeOK, Locals

LEMMA ListStep ==
  ASSUME TypeOK, NEW w \in Workers, ListIndexed(w)
  PROVE  /\ worker' \in [Workers -> Locals]
         /\ worker'[w].pc = "remove" /\ worker'[w].rev = worker[w].rev
         /\ worker'[w].seen = worker[w].seen
         /\ worker'[w].drop = Files(index) \ worker[w].seen
         /\ \A x \in Workers \ {w} : worker'[x] = worker[x]
<1> DEFINE l == [worker[w] EXCEPT !.pc = "remove", !.drop = Files(index) \ worker[w].seen]
<1>1. worker[w] \in Locals /\ worker' = [worker EXCEPT ![w] = l]
  BY DEF TypeOK, ListIndexed
<1>2. l \in Locals
  BY <1>1 DEF Locals, Steps, Files
<1>3. QED
  BY <1>1, <1>2 DEF TypeOK, Locals

LEMMA RemoveStep ==
  ASSUME TypeOK, NEW w \in Workers, Remove(w)
  PROVE  \E p \in worker[w].drop :
           /\ index' = [index EXCEPT ![p] = NoFile]
           /\ worker' \in [Workers -> Locals]
           /\ worker'[w].pc = worker[w].pc /\ worker'[w].rev = worker[w].rev
           /\ worker'[w].seen = worker[w].seen
           /\ worker'[w].drop = worker[w].drop \ {p}
           /\ \A x \in Workers \ {w} : worker'[x] = worker[x]
<1>1. PICK p \in worker[w].drop :
        /\ index' = [index EXCEPT ![p] = NoFile]
        /\ worker' = [worker EXCEPT ![w].drop = @ \ {p}]
  BY DEF Remove
<1>2. /\ worker[w] \in Locals
      /\ worker' = [worker EXCEPT ![w] = [worker[w] EXCEPT !.drop = worker[w].drop \ {p}]]
  BY <1>1 DEF TypeOK
<1>3. [worker[w] EXCEPT !.drop = worker[w].drop \ {p}] \in Locals
  BY <1>2 DEF Locals
<1>4. worker' \in [Workers -> Locals] /\ \A x \in Workers \ {w} : worker'[x] = worker[x]
  BY <1>2, <1>3 DEF TypeOK
<1>5. worker'[w] = [worker[w] EXCEPT !.drop = worker[w].drop \ {p}]
  BY <1>2 DEF TypeOK
<1>6. QED
  BY <1>1, <1>2, <1>4, <1>5 DEF Locals

\* Every revision is a tree, and a file of one is a blob.
LEMMA TreeTypes ==
  ASSUME TypeOK
  PROVE  /\ \A v \in DOMAIN tree : tree[v] \in Trees
         /\ \A v \in DOMAIN tree, p \in Paths : tree[v][p] \in Texts \cup Binaries \cup {NoFile}
         /\ head \in Nat /\ Len(tree) \in Nat /\ DOMAIN tree = 1..Len(tree)
BY DEF TypeOK, Trees, Blobs

\* Revisions are added and stay.
Grown == DOMAIN tree \subseteq DOMAIN tree' /\ \A v \in DOMAIN tree : tree'[v] = tree[v]

LEMMA WriteGrows ==
  ASSUME TypeOK, NEW w \in Workers, Write(w)
  PROVE  Grown /\ tree' \in Seq(Trees) /\ head' \in DOMAIN tree'
<1>1. PICK p \in Paths, b \in Blobs \cup {NoFile} :
        tree' = Append(tree, [tree[head] EXCEPT ![p] = b])
  BY DEF Write
<1>2. tree[head] \in Trees
  BY DEF TypeOK
<1>3. [tree[head] EXCEPT ![p] = b] \in Trees
  BY <1>2 DEF Trees
<1>4. head' = Len(tree) + 1
  BY DEF Write
<1>5. QED
  BY <1>1, <1>3, <1>4 DEF TypeOK, Grown
----------------------------------------------------------------------------
(* The index: what a step of one worker leaves to the others. *)

LEMMA DisturbSpares ==
  ASSUME NEW w \in Workers, Disturb(w),
         NEW x \in Workers, worker'[x].pc # "idle", x \notin disturbed'
  PROVE  /\ x \notin disturbed
         /\ x # w => index' = index /\ links' = links
         /\ x = w => swallowed' = swallowed
BY DEF Disturb

LEMMA SameTarget ==
  ASSUME Grown, NEW x \in Workers, worker'[x].rev = worker[x].rev, worker[x].rev \in DOMAIN tree
  PROVE  /\ worker'[x].rev \in DOMAIN tree' /\ Target(x)' = Target(x)
         /\ Files(Target(x))' = Files(Target(x))
BY DEF Grown, Target, Files

LEMMA OthersKeep ==
  ASSUME IndexInv, NEW w \in Workers, Disturb(w), Grown,
         NEW x \in Workers \ {w}, worker'[x] = worker[x]
  PROVE  WalkInv(x)' /\ SyncInv(x)'
<1>1. WalkInv(x) /\ SyncInv(x)
  BY DEF IndexInv
<1>2. worker[x].pc \in Walking =>
        /\ worker'[x].rev \in DOMAIN tree' /\ Target(x)' = Target(x)
        /\ Files(Target(x))' = Files(Target(x))
  BY <1>1, SameTarget DEF WalkInv
<1>3. WalkInv(x)'
  BY <1>1, <1>2 DEF WalkInv, At, Walking, Walked
<1>4. ASSUME x \notin disturbed', worker[x].pc \in Walking
      PROVE  x \notin disturbed /\ index' = index /\ links' = links
  BY <1>4, DisturbSpares DEF Walking
<1>5. SyncInv(x)'
  BY <1>1, <1>2, <1>4 DEF SyncInv, At, Walking
<1>6. QED
  BY <1>3, <1>5

\* A step is as it should be when its own worker and the status of the index are.
LEMMA StepKeeps ==
  ASSUME IndexInv, NEW w \in Workers, Disturb(w), Grown, TypeOK',
         \A x \in Workers \ {w} : worker'[x] = worker[x],
         WalkInv(w)', SyncInv(w)', DirtyHasWorker'
  PROVE  IndexInv'
BY OthersKeep DEF IndexInv

LEMMA DisturbTypes ==
  ASSUME NEW w \in Workers, Disturb(w)
  PROVE  disturbed' \subseteq Workers
BY DEF Disturb

\* While nobody stops reindexing, somebody still ends a dirty status.
LEMMA DirtyKept ==
  ASSUME IndexInv, NEW w \in Workers,
         \A x \in Workers \ {w} : worker'[x] = worker[x],
         Reindexing(w) => Reindexing(w)',
         state' = state, swallowed' \in {swallowed, swallowed + 1}, crashes' = crashes
  PROVE  DirtyHasWorker'
<1>1. swallowed \in Nat /\ DirtyHasWorker
  BY DEF IndexInv, TypeOK
<1>2. \A x \in Workers : Reindexing(x) => Reindexing(x)'
  BY DEF Reindexing
<1>3. swallowed' = 0 => swallowed = 0
  BY <1>1
<1>4. QED
  BY <1>1, <1>2, <1>3 DEF DirtyHasWorker
----------------------------------------------------------------------------
(* The index: its invariant. *)

LEMMA RequestKeeps ==
  ASSUME IndexInv, NEW w \in Workers, Request(w), Disturb(w)
  PROVE  IndexInv'
<1>1. /\ index' = index /\ links' = links /\ state' = state
      /\ swallowed' = swallowed /\ crashes' = crashes /\ At(w, "idle")
  BY DEF Request, Write, PushBack, Reindex, DeleteProject, RestoreDeleted
<1>2. Grown /\ tree' \in Seq(Trees) /\ head' \in DOMAIN tree' /\ deleted' \in BOOLEAN
  <2>1. CASE Write(w)
    BY <2>1, WriteGrows DEF IndexInv, TypeOK, Write
  <2>2. CASE PushBack(w)
    BY <2>2 DEF IndexInv, TypeOK, PushBack, Grown
  <2>3. CASE Reindex(w) \/ DeleteProject(w) \/ RestoreDeleted(w)
    BY <2>3 DEF IndexInv, TypeOK, Reindex, DeleteProject, RestoreDeleted, Grown
  <2>4. QED
    BY <2>1, <2>2, <2>3 DEF Request
<1>3. /\ worker' \in [Workers -> Locals]
      /\ \A x \in Workers \ {w} : worker'[x] = worker[x]
      /\ \/ worker'[w].pc = "mark" /\ worker'[w].seen = {}
         \/ worker'[w].pc = "drop"
  <2>1. CASE Write(w) \/ PushBack(w) \/ Reindex(w) \/ RestoreDeleted(w)
    <3>1. Become(w, Starting)
      BY <2>1 DEF Write, PushBack, Reindex, RestoreDeleted
    <3>2. QED
      BY <3>1, BecomeStep, IdleTypes DEF IndexInv
  <2>2. CASE DeleteProject(w)
    <3>1. Go(w, "drop")
      BY <2>2 DEF DeleteProject
    <3>2. QED
      BY <3>1, GoStep DEF IndexInv, Steps
  <2>3. QED
    BY <2>1, <2>2 DEF Request
<1>4. TypeOK'
  BY <1>1, <1>2, <1>3, DisturbTypes DEF IndexInv, TypeOK
<1>5. WalkInv(w)' /\ SyncInv(w)'
  BY <1>3 DEF WalkInv, SyncInv, At, Walking, Walked
<1>6. DirtyHasWorker'
  BY <1>1, <1>3, DirtyKept DEF Reindexing, At
<1>7. QED
  BY <1>2, <1>3, <1>4, <1>5, <1>6, StepKeeps

\* The steps of a reindex that change neither the branch nor the project's row.
LEMMA HandleFrame ==
  ASSUME IndexInv, NEW w \in Workers, Handle(w)
  PROVE  /\ tree' = tree /\ head' = head /\ deleted' = deleted /\ crashes' = crashes
         /\ Grown /\ tree \in Seq(Trees) /\ head \in DOMAIN tree /\ deleted \in BOOLEAN
         /\ crashes \in Nat /\ swallowed' \in {swallowed, swallowed + 1} /\ swallowed' \in Nat
<1>1. /\ tree' = tree /\ head' = head /\ deleted' = deleted /\ crashes' = crashes
      /\ swallowed' \in {swallowed, swallowed + 1}
  BY DEF Handle, MarkDirty, OpenRepo, Revision, Visit, WalkDone, RebuildLinks, ListIndexed,
         Remove, SetClean, Fail, DropIndex, Swallow
<1>2. QED
  BY <1>1 DEF IndexInv, TypeOK, Grown

LEMMA MarkOrDropKeeps ==
  ASSUME IndexInv, NEW w \in Workers, MarkDirty(w) \/ DropIndex(w), Disturb(w)
  PROVE  IndexInv'
<1>1. /\ tree' = tree /\ head' = head /\ deleted' = deleted /\ crashes' = crashes
      /\ Grown /\ tree \in Seq(Trees) /\ head \in DOMAIN tree /\ deleted \in BOOLEAN
      /\ crashes \in Nat /\ swallowed' \in {swallowed, swallowed + 1} /\ swallowed' \in Nat
  BY HandleFrame DEF Handle
<1>2. CASE MarkDirty(w)
  <2>1. /\ worker' \in [Workers -> Locals] /\ worker'[w].pc = "open"
        /\ worker'[w].seen = worker[w].seen
        /\ \A x \in Workers \ {w} : worker'[x] = worker[x]
    BY <1>2, GoStep DEF MarkDirty, IndexInv, Steps
  <2>2. /\ state' \in {state, Dirty} /\ index' = index /\ links' = links
    BY <1>2 DEF MarkDirty
  <2>3. TypeOK'
    BY <1>1, <2>1, <2>2, DisturbTypes DEF IndexInv, TypeOK, Dirty, Statuses
  <2>4. WalkInv(w)' /\ SyncInv(w)'
    BY <1>2, <2>1 DEF IndexInv, WalkInv, SyncInv, At, Walking, Walked, MarkDirty
  <2>5. DirtyHasWorker'
    BY <2>1 DEF DirtyHasWorker, Reindexing, Steps
  <2>6. QED
    BY <1>1, <2>1, <2>3, <2>4, <2>5, StepKeeps
<1>3. CASE DropIndex(w)
  <2>1. /\ worker' \in [Workers -> Locals] /\ worker'[w].pc = "idle" /\ At(w, "drop")
        /\ \A x \in Workers \ {w} : worker'[x] = worker[x]
    BY <1>3, GoStep DEF DropIndex, IndexInv, Steps
  <2>2. \/ index' = Empty /\ links' = Empty /\ state' = NoState
        \/ index' = index /\ links' = links /\ state' = state
    BY <1>3 DEF DropIndex
  <2>3. Empty \in [Paths -> Texts \cup {NoFile}] /\ Empty \in Trees
    BY DEF Empty, Trees
  <2>4. TypeOK'
    BY <1>1, <2>1, <2>2, <2>3, DisturbTypes DEF IndexInv, TypeOK, NoState, Statuses
  <2>5. WalkInv(w)' /\ SyncInv(w)'
    BY <2>1 DEF WalkInv, SyncInv, At, Walking, Walked
  <2>6. DirtyHasWorker'
    <3>1. CASE state' = state
      BY <1>1, <2>1, <3>1, DirtyKept DEF Reindexing, At
    <3>2. CASE state' = NoState
      BY <3>2 DEF DirtyHasWorker, NoState
    <3>3. QED
      BY <2>2, <3>1, <3>2
  <2>7. QED
    BY <1>1, <2>1, <2>4, <2>5, <2>6, StepKeeps
<1>4. QED
  BY <1>2, <1>3

\* OpenRepo, Revision and WalkDone change the worker's locals alone.
LEMMA WalkKeeps ==
  ASSUME IndexInv, NEW w \in Workers, OpenRepo(w) \/ Revision(w) \/ WalkDone(w), Disturb(w)
  PROVE  IndexInv'
<1>1. /\ tree' = tree /\ head' = head /\ deleted' = deleted /\ crashes' = crashes
      /\ Grown /\ tree \in Seq(Trees) /\ head \in DOMAIN tree /\ deleted \in BOOLEAN
      /\ crashes \in Nat /\ swallowed' \in {swallowed, swallowed + 1} /\ swallowed' \in Nat
  BY HandleFrame DEF Handle
<1>2. index' = index /\ links' = links /\ state' = state /\ Reindexing(w)
  BY DEF OpenRepo, Revision, WalkDone, Reindexing, At, Steps
<1>3. /\ worker' \in [Workers -> Locals]
      /\ \A x \in Workers \ {w} : worker'[x] = worker[x]
      /\ worker'[w].pc \in {"revision", "walk", "links"}
      /\ worker'[w].seen = worker[w].seen
  BY GoStep, RevisionStep DEF IndexInv, OpenRepo, WalkDone, Steps
<1>4. TypeOK'
  BY <1>1, <1>2, <1>3, DisturbTypes DEF IndexInv, TypeOK
<1>5. WalkInv(w)' /\ SyncInv(w)'
  <2>1. CASE OpenRepo(w)
    <3>1. worker'[w].pc = "revision" /\ worker[w].pc = "open"
      BY <2>1, GoStep DEF IndexInv, OpenRepo, Steps, At
    <3>2. QED
      BY <1>3, <3>1 DEF IndexInv, WalkInv, SyncInv, At, Walking, Walked
  <2>2. CASE Revision(w)
    <3>1. worker'[w].pc = "walk" /\ worker[w].pc = "revision" /\ worker'[w].rev = head
      BY <2>2, RevisionStep DEF IndexInv, Revision, At
    <3>2. worker'[w].seen = {}
      BY <1>3, <3>1 DEF IndexInv, WalkInv
    <3>3. QED
      BY <1>1, <3>1, <3>2 DEF WalkInv, SyncInv, At, Walking, Walked
  <2>3. CASE WalkDone(w)
    <3>1. /\ worker'[w].pc = "links" /\ worker[w].pc = "walk"
          /\ worker'[w].rev = worker[w].rev /\ Files(Target(w)) \subseteq worker[w].seen
      BY <2>3, GoStep DEF IndexInv, WalkDone, Steps, At
    <3>2. /\ worker[w].rev \in DOMAIN tree /\ worker[w].seen \subseteq Files(Target(w))
          /\ SyncInv(w)
      BY <3>1 DEF IndexInv, WalkInv, Walking
    <3>3. /\ worker'[w].rev \in DOMAIN tree' /\ Target(w)' = Target(w)
          /\ Files(Target(w))' = Files(Target(w))
      BY <1>1, <3>1, <3>2, SameTarget
    <3>4. WalkInv(w)'
      BY <1>3, <3>1, <3>2, <3>3 DEF WalkInv, At, Walking, Walked
    <3>5. w \notin disturbed' => w \notin disturbed
      BY <3>1, DisturbSpares
    <3>6. SyncInv(w)'
      BY <1>2, <1>3, <3>1, <3>2, <3>3, <3>5 DEF SyncInv, At, Walking
    <3>7. QED
      BY <3>4, <3>6
  <2>4. QED
    BY <2>1, <2>2, <2>3
<1>6. Reindexing(w)'
  BY <1>3 DEF Reindexing, Steps
<1>7. DirtyHasWorker'
  BY <1>1, <1>2, <1>3, <1>6, DirtyKept
<1>8. QED
  BY <1>1, <1>3, <1>4, <1>5, <1>7, StepKeeps

LEMMA VisitKeeps ==
  ASSUME IndexInv, NEW w \in Workers, Visit(w), Disturb(w)
  PROVE  IndexInv'
<1>1. /\ tree' = tree /\ head' = head /\ deleted' = deleted /\ crashes' = crashes
      /\ Grown /\ tree \in Seq(Trees) /\ head \in DOMAIN tree /\ deleted \in BOOLEAN
      /\ crashes \in Nat /\ swallowed' \in {swallowed, swallowed + 1} /\ swallowed' \in Nat
  BY HandleFrame DEF Handle
<1>2. PICK p \in Files(Target(w)) \ worker[w].seen :
        /\ See(w, p)
        /\ \/ /\ Target(w)[p] \in Texts
              /\ index' = [index EXCEPT ![p] = Target(w)[p]]
              /\ swallowed' = swallowed
           \/ Target(w)[p] \in Binaries /\ index' = index /\ swallowed' = swallowed
           \/ swallowed' = swallowed + 1 /\ index' = index
  BY DEF Visit, Swallow
<1>3. links' = links /\ state' = state /\ worker[w].pc = "walk"
  BY DEF Visit, At
<1>4. p \in Paths /\ Target(w)[p] # NoFile
  BY DEF Files
<1>5. /\ worker' \in [Workers -> Locals]
      /\ worker'[w].pc = "walk" /\ worker'[w].rev = worker[w].rev
      /\ worker'[w].seen = worker[w].seen \cup {p}
      /\ \A x \in Workers \ {w} : worker'[x] = worker[x]
  BY <1>2, <1>3, <1>4, SeeStep DEF IndexInv
<1>6. /\ worker[w].rev \in DOMAIN tree /\ worker[w].seen \subseteq Files(Target(w))
      /\ SyncInv(w) /\ index \in [Paths -> Texts \cup {NoFile}] /\ swallowed \in Nat
  BY <1>3 DEF IndexInv, WalkInv, Walking, TypeOK
<1>7. /\ worker'[w].rev \in DOMAIN tree' /\ Target(w)' = Target(w)
      /\ Files(Target(w))' = Files(Target(w))
  BY <1>1, <1>5, <1>6, SameTarget
<1>8. index' \in [Paths -> Texts \cup {NoFile}]
  BY <1>2, <1>6
<1>9. TypeOK'
  BY <1>1, <1>3, <1>5, <1>8, DisturbTypes DEF IndexInv, TypeOK
<1>10. WalkInv(w)'
  BY <1>2, <1>5, <1>6, <1>7 DEF WalkInv, At, Walking, Walked
<1>11. SyncInv(w)'
  <2>1. SUFFICES ASSUME w \notin disturbed'
                 PROVE  \A q \in worker'[w].seen :
                          Target(w)[q] \in Texts => index'[q] = Target(w)[q]
    BY <1>5, <1>7 DEF SyncInv, At, Walking
  <2>2. w \notin disturbed /\ swallowed' = swallowed
    BY <1>5, <2>1, DisturbSpares
  <2>3. \A q \in worker[w].seen : Target(w)[q] \in Texts => index[q] = Target(w)[q]
    BY <1>3, <1>6, <2>2 DEF SyncInv, Walking
  <2>4. CASE Target(w)[p] \in Texts /\ index' = [index EXCEPT ![p] = Target(w)[p]]
    <3>1. index'[p] = Target(w)[p] /\ \A q \in Paths \ {p} : index'[q] = index[q]
      BY <1>4, <1>6, <2>4
    <3>2. worker[w].seen \subseteq Paths
      BY <1>6 DEF Files
    <3>3. QED
      BY <1>5, <2>3, <3>1, <3>2
  <2>5. CASE Target(w)[p] \in Binaries /\ index' = index
    BY <1>5, <2>3, <2>5, BlobsAssumption
  <2>6. QED
    BY <1>2, <1>6, <2>2, <2>4, <2>5
<1>12. DirtyHasWorker'
  BY <1>1, <1>3, <1>5, DirtyKept DEF Reindexing, Steps
<1>13. QED
  BY <1>1, <1>5, <1>9, <1>10, <1>11, <1>12, StepKeeps

LEMMA RebuildLinksKeeps ==
  ASSUME IndexInv, NEW w \in Workers, RebuildLinks(w), Disturb(w)
  PROVE  IndexInv'
<1>1. /\ tree' = tree /\ head' = head /\ deleted' = deleted /\ crashes' = crashes
      /\ Grown /\ tree \in Seq(Trees) /\ head \in DOMAIN tree /\ deleted \in BOOLEAN
      /\ crashes \in Nat /\ swallowed' \in {swallowed, swallowed + 1} /\ swallowed' \in Nat
  BY HandleFrame DEF Handle
<1>2. /\ index' = index /\ state' = state /\ worker[w].pc = "links"
      /\ worker' \in [Workers -> Locals]
      /\ worker'[w].pc = "list" /\ worker'[w].rev = worker[w].rev
      /\ worker'[w].seen = worker[w].seen
      /\ \A x \in Workers \ {w} : worker'[x] = worker[x]
  BY GoStep DEF IndexInv, RebuildLinks, Steps, At
<1>3. /\ worker[w].rev \in DOMAIN tree /\ worker[w].seen \subseteq Files(Target(w))
      /\ Files(Target(w)) \subseteq worker[w].seen
      /\ SyncInv(w) /\ swallowed \in Nat
  BY <1>2 DEF IndexInv, WalkInv, Walking, Walked, TypeOK
<1>4. /\ worker'[w].rev \in DOMAIN tree' /\ Target(w)' = Target(w)
      /\ Files(Target(w))' = Files(Target(w))
  BY <1>1, <1>2, <1>3, SameTarget
<1>5. \/ links' = Target(w) /\ swallowed' = swallowed
      \/ swallowed' = swallowed + 1 /\ \E p \in Paths : links' = [Target(w) EXCEPT ![p] = NoFile]
  BY DEF RebuildLinks, Swallow, Files
<1>6. Target(w) \in Trees
  BY <1>3, TreeTypes DEF IndexInv, Target
<1>7. links' \in Trees
  BY <1>5, <1>6 DEF Trees
<1>8. TypeOK'
  BY <1>1, <1>2, <1>7, DisturbTypes DEF IndexInv, TypeOK
<1>9. WalkInv(w)'
  BY <1>2, <1>3, <1>4 DEF WalkInv, At, Walking, Walked
<1>10. w \notin disturbed' => w \notin disturbed /\ links' = Target(w)
  BY <1>2, <1>3, <1>5, DisturbSpares
<1>11. SyncInv(w)'
  BY <1>2, <1>3, <1>4, <1>10 DEF SyncInv, At, Walking
<1>12. DirtyHasWorker'
  BY <1>1, <1>2, DirtyKept DEF Reindexing, Steps
<1>13. QED
  BY <1>1, <1>2, <1>8, <1>9, <1>11, <1>12, StepKeeps

LEMMA ListIndexedKeeps ==
  ASSUME IndexInv, NEW w \in Workers, ListIndexed(w), Disturb(w)
  PROVE  IndexInv'
<1>1. /\ tree' = tree /\ head' = head /\ deleted' = deleted /\ crashes' = crashes
      /\ Grown /\ tree \in Seq(Trees) /\ head \in DOMAIN tree /\ deleted \in BOOLEAN
      /\ crashes \in Nat /\ swallowed' \in {swallowed, swallowed + 1} /\ swallowed' \in Nat
  BY HandleFrame DEF Handle
<1>2. /\ index' = index /\ links' = links /\ state' = state /\ worker[w].pc = "list"
      /\ worker' \in [Workers -> Locals]
      /\ worker'[w].pc = "remove" /\ worker'[w].rev = worker[w].rev
      /\ worker'[w].seen = worker[w].seen
      /\ worker'[w].drop = Files(index) \ worker[w].seen
      /\ \A x \in Workers \ {w} : worker'[x] = worker[x]
  BY ListStep DEF IndexInv, ListIndexed, At
<1>3. /\ worker[w].rev \in DOMAIN tree /\ worker[w].seen \subseteq Files(Target(w))
      /\ Files(Target(w)) \subseteq worker[w].seen /\ SyncInv(w)
  BY <1>2 DEF IndexInv, WalkInv, Walking, Walked
<1>4. /\ worker'[w].rev \in DOMAIN tree' /\ Target(w)' = Target(w)
      /\ Files(Target(w))' = Files(Target(w))
  BY <1>1, <1>2, <1>3, SameTarget
<1>5. TypeOK'
  BY <1>1, <1>2, DisturbTypes DEF IndexInv, TypeOK
<1>6. WalkInv(w)'
  BY <1>2, <1>3, <1>4 DEF WalkInv, At, Walking, Walked
<1>7. w \notin disturbed' => w \notin disturbed
  BY <1>2, DisturbSpares
<1>8. \A p \in Paths : Target(w)[p] = NoFile => index[p] = NoFile \/ p \in worker'[w].drop
  BY <1>2, <1>3 DEF Files
<1>9. SyncInv(w)'
  BY <1>2, <1>3, <1>4, <1>7, <1>8 DEF SyncInv, At, Walking
<1>10. DirtyHasWorker'
  BY <1>1, <1>2, DirtyKept DEF Reindexing, Steps
<1>11. QED
  BY <1>1, <1>2, <1>5, <1>6, <1>9, <1>10, StepKeeps

LEMMA RemoveKeeps ==
  ASSUME IndexInv, NEW w \in Workers, Remove(w), Disturb(w)
  PROVE  IndexInv'
<1>1. /\ tree' = tree /\ head' = head /\ deleted' = deleted /\ crashes' = crashes
      /\ Grown /\ tree \in Seq(Trees) /\ head \in DOMAIN tree /\ deleted \in BOOLEAN
      /\ crashes \in Nat /\ swallowed' \in {swallowed, swallowed + 1} /\ swallowed' \in Nat
  BY HandleFrame DEF Handle
<1>2. PICK p \in worker[w].drop :
        /\ index' = [index EXCEPT ![p] = NoFile]
        /\ worker' \in [Workers -> Locals]
        /\ worker'[w].pc = worker[w].pc /\ worker'[w].rev = worker[w].rev
        /\ worker'[w].seen = worker[w].seen
        /\ worker'[w].drop = worker[w].drop \ {p}
        /\ \A x \in Workers \ {w} : worker'[x] = worker[x]
  BY RemoveStep DEF IndexInv
<1>3. links' = links /\ state' = state /\ worker[w].pc = "remove"
  BY DEF Remove, At
<1>4. /\ worker[w].rev \in DOMAIN tree /\ worker[w].seen \subseteq Files(Target(w))
      /\ Files(Target(w)) \subseteq worker[w].seen
      /\ worker[w].drop \cap worker[w].seen = {} /\ SyncInv(w)
      /\ index \in [Paths -> Texts \cup {NoFile}]
  BY <1>3 DEF IndexInv, WalkInv, Walking, Walked, At, TypeOK
<1>5. p \in Paths /\ p \notin worker[w].seen
  BY <1>4 DEF IndexInv, TypeOK, Locals
<1>6. /\ worker'[w].rev \in DOMAIN tree' /\ Target(w)' = Target(w)
      /\ Files(Target(w))' = Files(Target(w))
  BY <1>1, <1>2, <1>4, SameTarget
<1>7. /\ index' \in [Paths -> Texts \cup {NoFile}] /\ index'[p] = NoFile
      /\ \A q \in Paths \ {p} : index'[q] = index[q]
  BY <1>2, <1>4, <1>5
<1>8. TypeOK'
  BY <1>1, <1>2, <1>3, <1>7, DisturbTypes DEF IndexInv, TypeOK
<1>9. WalkInv(w)'
  BY <1>2, <1>3, <1>4, <1>6 DEF WalkInv, At, Walking, Walked
<1>10. SyncInv(w)'
  <2>1. w \notin disturbed' => w \notin disturbed
    BY <1>2, <1>3, DisturbSpares
  <2>2. worker[w].seen \subseteq Paths \ {p}
    BY <1>4, <1>5 DEF Files
  <2>3. QED
    BY <1>2, <1>3, <1>4, <1>6, <1>7, <2>1, <2>2 DEF SyncInv, At, Walking
<1>11. DirtyHasWorker'
  BY <1>1, <1>2, <1>3, DirtyKept DEF Reindexing, Steps
<1>12. QED
  BY <1>1, <1>2, <1>8, <1>9, <1>10, <1>11, StepKeeps

\* A reindex ends: SetClean and Fail.
LEMMA EndKeeps ==
  ASSUME IndexInv, NEW w \in Workers, SetClean(w) \/ Fail(w), Disturb(w)
  PROVE  IndexInv'
<1>1. /\ tree' = tree /\ head' = head /\ deleted' = deleted /\ crashes' = crashes
      /\ Grown /\ tree \in Seq(Trees) /\ head \in DOMAIN tree /\ deleted \in BOOLEAN
      /\ crashes \in Nat /\ swallowed' \in {swallowed, swallowed + 1} /\ swallowed' \in Nat
  BY HandleFrame DEF Handle
<1>2. index' = index /\ links' = links /\ Become(w, Idle)
  BY DEF SetClean, Fail
<1>3. /\ worker' \in [Workers -> Locals] /\ worker'[w].pc = "idle"
      /\ \A x \in Workers \ {w} : worker'[x] = worker[x]
  BY <1>2, BecomeStep, IdleTypes DEF IndexInv
<1>4. \/ state' = Clean(worker[w].rev) \/ state' = Error
      \/ state' = state /\ swallowed' = swallowed + 1
  BY DEF SetClean, Fail, Swallow
<1>5. /\ worker[w].rev \in Nat /\ state \in [status : Statuses, rev : Nat] /\ swallowed \in Nat
      /\ DirtyHasWorker
  BY DEF IndexInv, TypeOK, Locals
<1>6. state' \in [status : Statuses, rev : Nat]
  BY <1>4, <1>5 DEF Clean, Error, Statuses
<1>7. TypeOK'
  BY <1>1, <1>2, <1>3, <1>6, DisturbTypes DEF IndexInv, TypeOK
<1>8. WalkInv(w)' /\ SyncInv(w)'
  BY <1>3 DEF WalkInv, SyncInv, At, Walking, Walked
<1>9. DirtyHasWorker'
  <2>1. \/ state'.status # "dirty" \/ swallowed' # 0
    BY <1>4, <1>5 DEF Clean, Error
  <2>2. QED
    BY <2>1 DEF DirtyHasWorker
<1>10. QED
  BY <1>1, <1>3, <1>7, <1>8, <1>9, StepKeeps

LEMMA CrashKeeps ==
  ASSUME IndexInv, Crash
  PROVE  IndexInv'
<1>1. /\ crashes' = crashes + 1 /\ worker' = [w \in Workers |-> Idle] /\ disturbed' = {}
      /\ tree' = tree /\ head' = head /\ deleted' = deleted /\ index' = index /\ links' = links
      /\ state' = state /\ swallowed' = swallowed
  BY DEF Crash
<1>2. TypeOK'
  BY <1>1, IdleTypes DEF IndexInv, TypeOK
<1>3. \A w \in Workers : WalkInv(w)' /\ SyncInv(w)'
  BY <1>1, IdleTypes DEF WalkInv, SyncInv, At, Walking, Walked
<1>4. DirtyHasWorker'
  BY <1>1 DEF IndexInv, TypeOK, DirtyHasWorker
<1>5. QED
  BY <1>2, <1>3, <1>4 DEF IndexInv

LEMMA InitIndex == Init => IndexInv
<1>1. SUFFICES ASSUME Init PROVE IndexInv
  OBVIOUS
<1>2. PICK t \in Trees : tree = <<t>>
  BY <1>1 DEF Init
<1>3. tree \in Seq(Trees) /\ head \in DOMAIN tree
  BY <1>1, <1>2 DEF Init
<1>4. Empty \in [Paths -> Texts \cup {NoFile}] /\ Empty \in Trees
  BY DEF Empty, Trees
<1>5. TypeOK
  BY <1>1, <1>3, <1>4, IdleTypes DEF Init, TypeOK, NoState, Statuses
<1>6. \A w \in Workers : WalkInv(w) /\ SyncInv(w)
  BY <1>1, IdleTypes DEF Init, WalkInv, SyncInv, At, Walking, Walked
<1>7. DirtyHasWorker
  BY <1>1 DEF Init, DirtyHasWorker, NoState
<1>8. QED
  BY <1>5, <1>6, <1>7 DEF IndexInv

LEMMA NextIndex == IndexInv /\ [Next]_vars => IndexInv'
<1>1. SUFFICES ASSUME IndexInv, [Next]_vars PROVE IndexInv'
  OBVIOUS
<1>2. ASSUME NEW w \in Workers, Work(w) PROVE IndexInv'
  <2>1. CASE Request(w)
    BY <1>1, <1>2, <2>1, RequestKeeps DEF Work
  <2>2. CASE MarkDirty(w) \/ DropIndex(w)
    BY <1>1, <1>2, <2>2, MarkOrDropKeeps DEF Work
  <2>3. CASE OpenRepo(w) \/ Revision(w) \/ WalkDone(w)
    BY <1>1, <1>2, <2>3, WalkKeeps DEF Work
  <2>4. CASE Visit(w)
    BY <1>1, <1>2, <2>4, VisitKeeps DEF Work
  <2>5. CASE RebuildLinks(w)
    BY <1>1, <1>2, <2>5, RebuildLinksKeeps DEF Work
  <2>6. CASE ListIndexed(w)
    BY <1>1, <1>2, <2>6, ListIndexedKeeps DEF Work
  <2>7. CASE Remove(w)
    BY <1>1, <1>2, <2>7, RemoveKeeps DEF Work
  <2>8. CASE SetClean(w) \/ Fail(w)
    BY <1>1, <1>2, <2>8, EndKeeps DEF Work
  <2>9. QED
    BY <1>2, <2>1, <2>2, <2>3, <2>4, <2>5, <2>6, <2>7, <2>8 DEF Work, Handle
<1>3. CASE Crash
  BY <1>1, <1>3, CrashKeeps
<1>4. CASE UNCHANGED vars
  BY <1>1, <1>4 DEF vars, IndexInv, TypeOK, WalkInv, SyncInv, DirtyHasWorker, Reindexing,
                    At, Target, Files
<1>5. QED
  BY <1>1, <1>2, <1>3, <1>4 DEF Next
----------------------------------------------------------------------------
(* The index: theorems. *)

\* The inductive invariant of the index.
THEOREM IndexHolds == Spec => []IndexInv
<1>1. Init => IndexInv
  BY InitIndex
<1>2. IndexInv /\ [Next]_vars => IndexInv'
  BY NextIndex
<1>3. QED
  BY <1>1, <1>2, PTL DEF Spec

\* A snapshot is left dirty only by a process that dies or a call that fails
\* (ReindexProject's deferred status).
THEOREM DirtyIsAttended == Spec => []DirtyHasWorker
<1>1. IndexInv => DirtyHasWorker
  BY DEF IndexInv
<1>2. QED
  BY <1>1, IndexHolds, PTL

\* The last step of a reindex that nothing disturbed.
LEMMA CleanIsInSync ==
  ASSUME IndexInv, [Next]_vars, NEW w \in Workers,
         worker[w].pc = "remove", worker'[w].pc = "idle",
         state' = Clean(worker[w].rev), w \notin disturbed,
         swallowed' = swallowed, crashes' = crashes
  PROVE  InSync(worker[w].rev)
<1>1. /\ swallowed \in Nat /\ crashes \in Nat /\ worker \in [Workers -> Locals]
      /\ links \in Trees /\ WalkInv(w) /\ SyncInv(w)
  BY DEF IndexInv, TypeOK
<1>2. PICK x \in Workers : Work(x)
  BY <1>1 DEF Next, Crash, vars
<1>3. x = w
  <2>1. CASE Request(x)
    <3>1. \/ Become(x, Starting) \/ Go(x, "drop")
      BY <2>1 DEF Request, Write, PushBack, Reindex, DeleteProject, RestoreDeleted
    <3>2. QED
      BY <3>1, BecomeStep, GoStep, IdleTypes DEF IndexInv, Steps
  <2>2. CASE MarkDirty(x) \/ OpenRepo(x) \/ WalkDone(x) \/ RebuildLinks(x) \/ DropIndex(x)
    <3>1. \E step \in Steps : Go(x, step)
      BY <2>2 DEF MarkDirty, OpenRepo, WalkDone, RebuildLinks, DropIndex, Steps
    <3>2. QED
      BY <3>1, GoStep DEF IndexInv
  <2>3. CASE Revision(x) \/ ListIndexed(x) \/ Remove(x)
    BY <2>3, RevisionStep, ListStep, RemoveStep DEF IndexInv
  <2>4. CASE Visit(x)
    <3>1. PICK p \in Paths : See(x, p)
      BY <2>4 DEF Visit, Files
    <3>2. QED
      BY <3>1, SeeStep DEF IndexInv
  <2>5. CASE SetClean(x) \/ Fail(x)
    <3>1. Become(x, Idle)
      BY <2>5 DEF SetClean, Fail
    <3>2. QED
      BY <3>1, BecomeStep, IdleTypes DEF IndexInv
  <2>6. QED
    BY <1>2, <2>1, <2>2, <2>3, <2>4, <2>5 DEF Work, Handle
<1>4. SetClean(w)
  <2>1. CASE Remove(w)
    BY <2>1, RemoveStep DEF IndexInv
  <2>2. CASE Fail(w)
    BY <1>1, <2>2 DEF Fail, Swallow, Error, Clean
  <2>3. \/ At(w, "idle") \/ At(w, "drop") \/ At(w, "mark") \/ At(w, "open")
        \/ At(w, "revision") \/ At(w, "walk") \/ At(w, "links") \/ At(w, "list")
        \/ Remove(w) \/ SetClean(w) \/ Fail(w)
    BY <1>2, <1>3 DEF Work, Request, Handle, Write, PushBack, Reindex, DeleteProject,
       RestoreDeleted, MarkDirty, DropIndex, OpenRepo, Revision, Visit, WalkDone, RebuildLinks,
       ListIndexed
  <2>4. QED
    BY <2>1, <2>2, <2>3 DEF At
<1>5. worker[w].drop = {}
  BY <1>4 DEF SetClean
<1>6. /\ \A p \in worker[w].seen : Target(w)[p] \in Texts => index[p] = Target(w)[p]
      /\ links = Target(w) /\ Files(Target(w)) \subseteq worker[w].seen
      /\ \A p \in Paths : Target(w)[p] = NoFile => index[p] = NoFile
  BY <1>1, <1>5 DEF WalkInv, SyncInv, At, Walking, Walked
<1>7. \A p \in Paths : Target(w)[p] \in Texts => index[p] = Target(w)[p]
  BY <1>6, BlobsAssumption DEF Files
<1>8. Target(w) = tree[worker[w].rev]
  BY DEF Target
<1>9. QED
  BY <1>5, <1>6, <1>7, <1>8 DEF InSync

\* "The search index can be completely rebuilt": an undisturbed reindex leaves it
\* in sync with the revision that its snapshot names (ReindexProject).
THEOREM ReindexSyncs == Spec => ReindexRepairs
<1>1. ASSUME IndexInv, [Next]_vars
      PROVE  [\A w \in Workers : worker[w].pc = "remove" /\ worker'[w].pc = "idle"
                /\ state' = Clean(worker[w].rev) /\ w \notin disturbed
                /\ swallowed' = swallowed /\ crashes' = crashes
                => InSync(worker[w].rev)]_vars
  BY <1>1, CleanIsInSync
<1>2. QED
  BY <1>1, IndexHolds, PTL DEF Spec, ReindexRepairs

\* However reindexes overlap, fail or die, a document of a live project leaves the
\* index only when some revision lacks it (ReindexProject, Store.DeleteProject).
THEOREM NothingVanishes == Spec => DocumentsStaySearchable
<1>1. ASSUME IndexInv, Next, NEW p \in Paths, index[p] # NoFile, index'[p] = NoFile
      PROVE  \/ \E w \in Workers : At(w, "drop")
             \/ \E v \in DOMAIN tree : tree[v][p] = NoFile
  <2>1. /\ index' # index /\ index \in [Paths -> Texts \cup {NoFile}]
        /\ worker \in [Workers -> Locals]
    BY <1>1 DEF IndexInv, TypeOK
  <2>2. PICK w \in Workers : Visit(w) \/ Remove(w) \/ DropIndex(w)
    BY <1>1, <2>1 DEF Next, Crash, Work, Request, Handle, Write, PushBack, Reindex, DeleteProject,
       RestoreDeleted, MarkDirty, OpenRepo, Revision, WalkDone, RebuildLinks, ListIndexed,
       SetClean, Fail
  <2>3. CASE Visit(w)
    <3>1. PICK q \in Paths : /\ Target(w)[q] \in Texts
                             /\ index' = [index EXCEPT ![q] = Target(w)[q]]
      BY <2>1, <2>3 DEF Visit, Files
    <3>2. index'[p] # NoFile
      BY <1>1, <2>1, <3>1, BlobsAssumption
    <3>3. QED
      BY <1>1, <3>2
  <2>4. CASE Remove(w)
    <3>1. PICK q \in worker[w].drop : index' = [index EXCEPT ![q] = NoFile]
      BY <2>4 DEF Remove
    <3>2. q = p
      BY <1>1, <2>1, <3>1
    <3>3. WalkInv(w) /\ worker[w].pc = "remove"
      BY <1>1, <2>4 DEF IndexInv, Remove, At
    <3>4. worker[w].rev \in DOMAIN tree /\ p \notin Files(Target(w))
      BY <3>1, <3>2, <3>3 DEF WalkInv, Walking, Walked, At
    <3>5. tree[worker[w].rev][p] = NoFile
      BY <3>4 DEF Files, Target
    <3>6. QED
      BY <3>4, <3>5
  <2>5. CASE DropIndex(w)
    BY <2>5 DEF DropIndex
  <2>6. QED
    BY <2>2, <2>3, <2>4, <2>5
<1>2. ASSUME IndexInv, [Next]_vars
      PROVE  [\A p \in Paths : index[p] # NoFile /\ index'[p] = NoFile =>
                \/ \E w \in Workers : At(w, "drop")
                \/ \E v \in DOMAIN tree : tree[v][p] = NoFile]_vars
  BY <1>1, <1>2
<1>3. QED
  BY <1>2, IndexHolds, PTL DEF Spec, DocumentsStaySearchable
----------------------------------------------------------------------------
(* The reads: types, and what one step leaves to the reads that do not take it. *)

ReaderSteps ==
  {"idle", "revision", "blob", "page", "home", "stamp", "opening", "root", "walk", "zip"}

\* The locals that the actions write.
Asked(pc, p) == [NoRead EXCEPT !.pc = pc, !.todo = {p}]
Exporting == [NoRead EXCEPT !.pc = "root"]
Moved(r, pc) == [r EXCEPT !.pc = pc]
MovedAt(r, pc, v) == [r EXCEPT !.pc = pc, !.rev = v]

LEMMA MovedFacts ==
  ASSUME NEW r \in Reads, NEW pc \in ReaderSteps
  PROVE  /\ Moved(r, pc) \in Reads /\ Moved(r, pc).pc = pc
         /\ Moved(r, pc).rev = r.rev /\ Moved(r, pc).dir = r.dir
         /\ Moved(r, pc).todo = r.todo /\ Moved(r, pc).got = r.got
BY DEF Moved, Reads, ReaderSteps

LEMMA MovedAtFacts ==
  ASSUME NEW r \in Reads, NEW pc \in ReaderSteps, NEW v \in Nat
  PROVE  /\ MovedAt(r, pc, v) \in Reads /\ MovedAt(r, pc, v).pc = pc
         /\ MovedAt(r, pc, v).rev = v /\ MovedAt(r, pc, v).got = r.got
BY DEF MovedAt, Reads, ReaderSteps

LEMMA NoReadTypes ==
  /\ NoRead \in Reads /\ NoRead.pc = "idle" /\ NoRead.got = Empty
  /\ \A pc \in ReaderSteps, p \in Paths :
       Asked(pc, p) \in Reads /\ Asked(pc, p).pc = pc /\ Asked(pc, p).got = Empty
  /\ Exporting \in Reads /\ Exporting.pc = "root" /\ Exporting.got = Empty
<1>1. Empty \in Trees
  BY DEF Empty, Trees
<1>2. NoRead \in Reads /\ NoRead.pc = "idle" /\ NoRead.got = Empty
  BY <1>1 DEF NoRead, Reads
<1>3. ASSUME NEW pc \in ReaderSteps, NEW p \in Paths
      PROVE  Asked(pc, p) \in Reads /\ Asked(pc, p).pc = pc /\ Asked(pc, p).got = Empty
  BY <1>2 DEF Asked, Reads, ReaderSteps
<1>4. Exporting \in Reads /\ Exporting.pc = "root" /\ Exporting.got = Empty
  BY <1>2 DEF Exporting, Reads
<1>5. QED
  BY <1>2, <1>3, <1>4

LEMMA GotFacts ==
  ASSUME ReadTypeOK, NEW w \in Workers, NEW p \in Paths, NEW blob \in Blobs \cup {NoFile}
  PROVE  /\ Got(w, p, blob) \in Reads
         /\ Got(w, p, blob).pc = reader[w].pc /\ Got(w, p, blob).rev = reader[w].rev
         /\ Got(w, p, blob).dir = reader[w].dir
         /\ Got(w, p, blob).todo = reader[w].todo \ {p}
         /\ Got(w, p, blob).got[p] = blob
         /\ \A q \in Paths \ {p} : Got(w, p, blob).got[q] = reader[w].got[q]
<1>1. reader[w] \in Reads /\ reader[w].got \in [Paths -> Blobs \cup {NoFile}]
  BY DEF ReadTypeOK, Reads, Trees
<1> DEFINE got == [reader[w].got EXCEPT ![p] = blob]
<1>a. got \in Trees /\ got[p] = blob /\ \A q \in Paths \ {p} : got[q] = reader[w].got[q]
  BY <1>1 DEF Trees
<1> HIDE DEF got
<1>2. PICK a \in Reads : /\ a = [reader[w] EXCEPT !.got = got]
                         /\ a.got = got
                         /\ a.pc = reader[w].pc /\ a.rev = reader[w].rev
                         /\ a.dir = reader[w].dir /\ a.todo = reader[w].todo
  <2>1. [reader[w] EXCEPT !.got = got] \in Reads
    BY <1>1, <1>a DEF Reads
  <2>2. QED
    BY <1>1, <2>1 DEF Reads
<1>3. Got(w, p, blob) = [a EXCEPT !.todo = reader[w].todo \ {p}]
  BY <1>1, <1>2 DEF Got, Reads, got
<1>4. reader[w].todo \ {p} \in SUBSET Paths
  BY <1>1 DEF Reads
<1>5. [a EXCEPT !.todo = reader[w].todo \ {p}] \in Reads
  BY <1>4 DEF Reads
<1>6. /\ Got(w, p, blob).pc = a.pc /\ Got(w, p, blob).rev = a.rev
      /\ Got(w, p, blob).dir = a.dir /\ Got(w, p, blob).got = a.got
      /\ Got(w, p, blob).todo = reader[w].todo \ {p}
  BY <1>3 DEF Reads
<1>7. QED
  BY <1>a, <1>2, <1>3, <1>5, <1>6

LEMMA FollowFacts ==
  ASSUME Follow, NEW x \in Workers
  PROVE  /\ reader'[x].pc \in {"walk", "stamp"} => heads'[x] = heads[x] \cup {head'}
         /\ reader'[x].pc \in {"zip", "opening"} => heads'[x] = heads[x]
         /\ reader'[x].pc \notin {"walk", "stamp", "zip", "opening"} => heads'[x] = {}
BY DEF Follow

LEMMA HeadsTypes ==
  ASSUME ReadTypeOK, Grown, head' \in DOMAIN tree', Follow
  PROVE  heads' \in [Workers -> SUBSET DOMAIN tree']
<1>1. ASSUME NEW x \in Workers PROVE heads'[x] \subseteq DOMAIN tree'
  <2>1. heads[x] \subseteq DOMAIN tree
    BY DEF ReadTypeOK
  <2>2. QED
    BY <2>1, FollowFacts DEF Grown
<1>2. heads' = [x \in Workers |-> heads'[x]]
  BY DEF Follow
<1>3. QED
  BY <1>1, <1>2

\* What was read stays read.
LEMMA CoveredKept ==
  ASSUME ReadTypeOK, Grown, Follow, NEW x \in Workers, NEW p \in Paths,
         reader'[x].pc \in {"walk", "stamp", "zip", "opening"},
         reader'[x].got[p] = reader[x].got[p], Covered(x, p)
  PROVE  Covered(x, p)'
<1>1. PICK v \in heads[x] : reader[x].got[p] = tree[v][p]
  BY DEF Covered
<1>2. v \in DOMAIN tree /\ v \in heads'[x]
  BY FollowFacts DEF ReadTypeOK
<1>3. QED
  BY <1>1, <1>2 DEF Covered, Grown

\* What the branch has now counts from a step of the walk on.
LEMMA CoveredNow ==
  ASSUME Follow, NEW x \in Workers, NEW p \in Paths, tree' = tree, head' = head,
         reader'[x].pc \in {"walk", "stamp"}, reader'[x].got[p] = tree[head][p]
  PROVE  Covered(x, p)'
BY FollowFacts DEF Covered

LEMMA ReaderFrame ==
  ASSUME ReadInv, Grown, Follow, NEW x \in Workers, reader'[x] = reader[x]
  PROVE  ReaderInv(x)'
<1>1. ReadTypeOK /\ ReaderInv(x)
  BY DEF ReadInv
<1>2. reader[x].pc \in {"walk", "stamp"} => head' \in heads'[x]
  BY FollowFacts
<1>3. reader[x].pc \in {"walk", "stamp", "zip", "opening"} =>
        \A p \in Paths : Covered(x, p) => Covered(x, p)'
  BY <1>1, CoveredKept
<1>4. reader[x].pc \in {"blob", "page"} =>
        reader[x].rev \in DOMAIN tree' /\ tree'[reader[x].rev] = tree[reader[x].rev]
  BY <1>1 DEF Grown, ReaderInv
<1>5. /\ reader[x].pc \in {"revision", "blob", "home", "root"} => reader'[x].got = Empty
      /\ reader[x].pc \in {"blob", "page"} => reader'[x].rev \in DOMAIN tree'
  BY <1>1, <1>4 DEF ReaderInv
<1>6. reader[x].pc = "page" =>
        \A p \in Paths : reader'[x].got[p] # NoFile =>
          reader'[x].got[p] = tree'[reader'[x].rev][p]
  BY <1>1, <1>4 DEF ReaderInv, ReadAt
<1>7. reader[x].pc \in {"stamp", "opening"} =>
        \A p \in Paths : reader'[x].got[p] # NoFile => Covered(x, p)'
  BY <1>1, <1>3 DEF ReaderInv
<1>8. reader[x].pc = "walk" =>
        /\ head' \in heads'[x]
        /\ reader'[x].dir =>
             reader'[x].todo \cap Sub = {} /\ \A p \in Sub : reader'[x].got[p] = NoFile
        /\ \A p \in Paths \ reader'[x].todo : ~(p \in Sub /\ reader'[x].dir) => Covered(x, p)'
  BY <1>1, <1>2, <1>3 DEF ReaderInv, ReadAt
<1>9. reader[x].pc = "zip" => \A p \in Paths : Covered(x, p)'
  BY <1>1, <1>3 DEF ReaderInv, ReadAt
<1>10. QED
  BY <1>5, <1>6, <1>7, <1>8, <1>9 DEF ReaderInv, ReadAt

LEMMA ReadOnFacts ==
  ASSUME ReadInv, NEW w \in Workers, NEW r \in Reads, ReadOn(w, r)
  PROVE  /\ Grown /\ Follow /\ tree' = tree /\ head' = head
         /\ reader'[w] = r /\ \A x \in Workers \ {w} : reader'[x] = reader[x]
         /\ ReadTypeOK'
         /\ IndexInv => IndexInv'
<1>1. /\ UNCHANGED vars /\ Follow /\ reader' = [reader EXCEPT ![w] = r]
      /\ reader \in [Workers -> Reads] /\ ReadTypeOK /\ TypeOK
  BY DEF ReadOn, ReadInv, ReadTypeOK
<1>2. tree' = tree /\ head' = head /\ Grown
  BY <1>1 DEF vars, Grown
<1>3. TypeOK'
  BY <1>1 DEF vars, TypeOK
<1>4. reader' \in [Workers -> Reads]
  BY <1>1
<1>5. heads' \in [Workers -> SUBSET DOMAIN tree']
  BY <1>1, <1>2, HeadsTypes DEF TypeOK
<1>6. IndexInv => IndexInv'
  BY <1>1, NextIndex
<1>7. QED
  BY <1>1, <1>2, <1>3, <1>4, <1>5, <1>6 DEF ReadTypeOK

LEMMA ReadOnKeeps ==
  ASSUME ReadInv, NEW w \in Workers, NEW r \in Reads, ReadOn(w, r), ReaderInv(w)'
  PROVE  ReadInv'
<1>1. \A x \in Workers : ReaderInv(x)'
  BY ReadOnFacts, ReaderFrame
<1>2. QED
  BY <1>1, ReadOnFacts DEF ReadInv
----------------------------------------------------------------------------
(* The reads: their invariant. *)

\* A read that has not read anything yet, and one that has ended.
LEMMA FreshKeeps ==
  ASSUME ReadInv, NEW w \in Workers, NEW r \in Reads, ReadOn(w, r),
         r.pc \in {"idle", "revision", "home", "root"}, r.got = Empty
  PROVE  ReadInv'
<1>1. reader'[w] = r
  BY ReadOnFacts
<1>2. ReaderInv(w)'
  BY <1>1 DEF ReaderInv, ReadAt
<1>3. QED
  BY <1>2, ReadOnKeeps

LEMMA BeginKeeps ==
  ASSUME ReadInv, NEW w \in Workers, Begin(w)
  PROVE  ReadInv'
<1>1. ASSUME NEW p \in Paths, NEW pc \in {"revision", "home"}, ReadOn(w, Asked(pc, p))
      PROVE  ReadInv'
  <2>1. pc \in ReaderSteps
    BY DEF ReaderSteps
  <2>2. QED
    BY <1>1, <2>1, NoReadTypes, FreshKeeps
<1>2. CASE ReadOn(w, Exporting)
  BY <1>2, NoReadTypes, FreshKeeps
<1>3. QED
  BY <1>1, <1>2 DEF Begin, Asked, Exporting

LEMMA EndReadKeeps ==
  ASSUME ReadInv, NEW w \in Workers, EndRead(w)
  PROVE  ReadInv'
BY NoReadTypes, FreshKeeps DEF EndRead

LEMMA ResolveKeeps ==
  ASSUME ReadInv, NEW w \in Workers, ResolveRevision(w)
  PROVE  ReadInv'
<1>1. PICK v \in DOMAIN tree : ReadOn(w, MovedAt(reader[w], "blob", v))
  BY DEF ResolveRevision, MovedAt
<1>2. reader[w] \in Reads /\ v \in Nat /\ reader[w].got = Empty
  BY DEF ReadInv, ReadTypeOK, TypeOK, ReaderInv, ResolveRevision, ReadAt
<1>3. PICK r \in Reads : /\ r = MovedAt(reader[w], "blob", v)
                         /\ r.pc = "blob" /\ r.rev = v /\ r.got = Empty
  <2>1. "blob" \in ReaderSteps
    BY DEF ReaderSteps
  <2>2. QED
    BY <1>2, <2>1, MovedAtFacts
<1>4. reader'[w] = r /\ tree' = tree
  BY <1>1, <1>3, ReadOnFacts
<1>5. ReaderInv(w)'
  BY <1>3, <1>4 DEF ReaderInv, ReadAt
<1>6. QED
  BY <1>1, <1>3, <1>5, ReadOnKeeps

\* A blob of a revision that exists is a blob.
LEMMA BlobTypes ==
  ASSUME ReadInv
  PROVE  /\ head \in DOMAIN tree
         /\ \A v \in DOMAIN tree, p \in Paths : tree[v][p] \in Blobs \cup {NoFile}
         /\ \A w \in Workers : reader[w] \in Reads /\ reader[w].todo \subseteq Paths
         /\ \A p \in Paths : Empty[p] = NoFile
BY TreeTypes DEF ReadInv, ReadTypeOK, TypeOK, Trees, Reads, Empty

LEMMA ReadBlobAtKeeps ==
  ASSUME ReadInv, NEW w \in Workers, ReadBlobAt(w)
  PROVE  ReadInv'
<1>1. PICK p \in reader[w].todo :
        ReadOn(w, Moved(Got(w, p, tree[reader[w].rev][p]), "page"))
  BY DEF ReadBlobAt, Moved
<1>2. p \in Paths /\ reader[w].rev \in DOMAIN tree /\ reader[w].got = Empty
  BY BlobTypes DEF ReadInv, ReaderInv, ReadBlobAt, ReadAt
<1>3. PICK g \in Reads : /\ g = Got(w, p, tree[reader[w].rev][p])
                         /\ g.rev = reader[w].rev /\ g.got[p] = tree[reader[w].rev][p]
                         /\ \A q \in Paths \ {p} : g.got[q] = NoFile
  BY <1>2, BlobTypes, GotFacts DEF ReadInv
<1>4. PICK r \in Reads : /\ r = Moved(g, "page") /\ r.pc = "page"
                         /\ r.rev = g.rev /\ r.got = g.got
  BY MovedFacts DEF ReaderSteps
<1>5. reader'[w] = r /\ tree' = tree
  BY <1>1, <1>3, <1>4, ReadOnFacts
<1>6. ReaderInv(w)'
  BY <1>2, <1>3, <1>4, <1>5 DEF ReaderInv, ReadAt
<1>7. QED
  BY <1>1, <1>3, <1>4, <1>6, ReadOnKeeps

LEMMA ReadHomeKeeps ==
  ASSUME ReadInv, NEW w \in Workers, ReadHome(w)
  PROVE  ReadInv'
<1>1. PICK p \in reader[w].todo : ReadOn(w, Moved(Got(w, p, tree[head][p]), "stamp"))
  BY DEF ReadHome, Moved
<1>2. p \in Paths /\ reader[w].got = Empty
  BY BlobTypes DEF ReadInv, ReaderInv, ReadHome, ReadAt
<1>3. PICK g \in Reads : /\ g = Got(w, p, tree[head][p]) /\ g.got[p] = tree[head][p]
                         /\ \A q \in Paths \ {p} : g.got[q] = NoFile
  BY <1>2, BlobTypes, GotFacts DEF ReadInv
<1>4. PICK r \in Reads : r = Moved(g, "stamp") /\ r.pc = "stamp" /\ r.got = g.got
  BY MovedFacts DEF ReaderSteps
<1>5. reader'[w] = r /\ tree' = tree /\ head' = head /\ Follow
  BY <1>1, <1>3, <1>4, ReadOnFacts
<1>6. Covered(w, p)'
  <2>1. reader'[w].pc = "stamp" /\ reader'[w].got[p] = tree[head][p]
    BY <1>3, <1>4, <1>5
  <2>2. QED
    BY <1>2, <1>5, <2>1, CoveredNow
<1>7. \A q \in Paths : reader'[w].got[q] # NoFile => Covered(w, q)'
  BY <1>3, <1>4, <1>5, <1>6
<1>8. ReaderInv(w)'
  BY <1>4, <1>5, <1>7 DEF ReaderInv, ReadAt
<1>9. QED
  BY <1>1, <1>3, <1>4, <1>8, ReadOnKeeps

LEMMA StampHomeKeeps ==
  ASSUME ReadInv, NEW w \in Workers, StampHome(w)
  PROVE  ReadInv'
<1>1. ReadOn(w, MovedAt(reader[w], "opening", head))
  BY DEF StampHome, MovedAt
<1>2. reader[w] \in Reads /\ head \in Nat /\ ReadTypeOK
  BY DEF ReadInv, ReadTypeOK, TypeOK
<1>3. PICK r \in Reads : /\ r = MovedAt(reader[w], "opening", head)
                         /\ r.pc = "opening" /\ r.got = reader[w].got
  <2>1. "opening" \in ReaderSteps
    BY DEF ReaderSteps
  <2>2. QED
    BY <1>2, <2>1, MovedAtFacts
<1>4. reader'[w] = r /\ Grown /\ Follow
  BY <1>1, <1>3, ReadOnFacts
<1>5. \A p \in Paths : reader[w].got[p] # NoFile => Covered(w, p)
  BY DEF ReadInv, ReaderInv, StampHome, ReadAt
<1>6. \A p \in Paths : reader'[w].got[p] # NoFile => Covered(w, p)'
  BY <1>2, <1>3, <1>4, <1>5, CoveredKept
<1>7. ReaderInv(w)'
  BY <1>3, <1>4, <1>6 DEF ReaderInv, ReadAt
<1>8. QED
  BY <1>1, <1>3, <1>7, ReadOnKeeps

\* ExportZip lists the root: what is not there then counts as read.
LEMMA ListRootKeeps ==
  ASSUME ReadInv, NEW w \in Workers, ListRoot(w)
  PROVE  ReadInv'
<1> DEFINE files == Files(tree[head])
           r == [reader[w] EXCEPT !.pc = "walk", !.todo = files \ Sub,
                                  !.dir = files \cap Sub # {}]
<1>1. ReadOn(w, r)
  BY DEF ListRoot
<1>2. reader[w] \in Reads /\ reader[w].got = Empty
  BY BlobTypes DEF ReadInv, ReaderInv, ListRoot, ReadAt
<1>3. files \subseteq Paths /\ \A p \in Paths \ files : tree[head][p] = NoFile
  BY DEF Files
<1> HIDE DEF files
<1>4. /\ r \in Reads /\ r.pc = "walk" /\ r.todo = files \ Sub /\ r.got = Empty
      /\ r.dir = (files \cap Sub # {})
  BY <1>2, <1>3 DEF Reads
<1> HIDE DEF r
<1>5. reader'[w] = r /\ tree' = tree /\ head' = head /\ Follow
  BY <1>1, <1>4, ReadOnFacts
<1>6. head \in heads'[w]
  BY <1>4, <1>5, FollowFacts
<1>7. ASSUME NEW p \in Paths \ r.todo, ~(p \in Sub /\ r.dir)
      PROVE  Covered(w, p)'
  <2>1. p \notin files
    BY <1>4, <1>7
  <2>2. reader'[w].got[p] = tree[head][p] /\ reader'[w].pc = "walk"
    BY <1>3, <1>4, <1>5, <2>1, BlobTypes
  <2>3. QED
    BY <1>5, <2>2, CoveredNow
<1>8. r.todo \cap Sub = {} /\ \A p \in Sub : r.got[p] = NoFile
  BY <1>4, BlobTypes, SubAssumption
<1>9. ReaderInv(w)'
  BY <1>4, <1>5, <1>6, <1>7, <1>8 DEF ReaderInv, ReadAt
<1>10. QED
  BY <1>1, <1>4, <1>9, ReadOnKeeps

\* ... and then the subdirectory.
LEMMA ListSubKeeps ==
  ASSUME ReadInv, NEW w \in Workers, ListSub(w)
  PROVE  ReadInv'
<1> DEFINE files == Files(tree[head]) \cap Sub
           r == [reader[w] EXCEPT !.todo = reader[w].todo \cup files, !.dir = FALSE]
<1>1. ReadOn(w, r)
  BY DEF ListSub
<1>2. /\ reader[w] \in Reads /\ ReadTypeOK
      /\ \A p \in Sub : reader[w].got[p] = NoFile
      /\ \A p \in Paths \ reader[w].todo : p \notin Sub => Covered(w, p)
      /\ reader[w].pc = "walk"
  BY BlobTypes DEF ReadInv, ReaderInv, ListSub, ReadAt
<1>3. files \subseteq Paths /\ \A p \in Sub \ files : tree[head][p] = NoFile
  BY SubAssumption DEF Files
<1> HIDE DEF files
<1>4. /\ r \in Reads /\ r.pc = "walk" /\ r.todo = reader[w].todo \cup files
      /\ r.got = reader[w].got /\ r.dir = FALSE
  BY <1>2, <1>3 DEF Reads
<1> HIDE DEF r
<1>5. reader'[w] = r /\ tree' = tree /\ head' = head /\ Follow /\ Grown
  BY <1>1, <1>4, ReadOnFacts
<1>6. head \in heads'[w]
  BY <1>4, <1>5, FollowFacts
<1>7. ASSUME NEW p \in Paths \ r.todo
      PROVE  Covered(w, p)'
  <2>1. p \notin files /\ p \notin reader[w].todo
    BY <1>4, <1>7
  <2>2. CASE p \in Sub
    <3>1. reader'[w].got[p] = tree[head][p] /\ reader'[w].pc = "walk"
      BY <1>2, <1>3, <1>4, <1>5, <2>1, <2>2
    <3>2. QED
      BY <1>5, <3>1, CoveredNow
  <2>3. CASE p \notin Sub
    <3>1. Covered(w, p)
      BY <1>2, <1>7, <2>1, <2>3
    <3>2. reader'[w].got[p] = reader[w].got[p] /\ reader'[w].pc = "walk"
      BY <1>4, <1>5
    <3>3. QED
      BY <1>2, <1>5, <3>1, <3>2, CoveredKept
  <2>4. QED
    BY <2>2, <2>3
<1>8. ReaderInv(w)'
  BY <1>4, <1>5, <1>6, <1>7 DEF ReaderInv, ReadAt
<1>9. QED
  BY <1>1, <1>4, <1>8, ReadOnKeeps

LEMMA ReadBlobKeeps ==
  ASSUME ReadInv, NEW w \in Workers, ReadBlob(w)
  PROVE  ReadInv'
<1>1. PICK p \in reader[w].todo : ReadOn(w, Got(w, p, tree[head][p]))
  BY DEF ReadBlob
<1>2. /\ p \in Paths /\ ReadTypeOK /\ reader[w].pc = "walk"
      /\ reader[w].dir => reader[w].todo \cap Sub = {}
      /\ reader[w].dir => \A q \in Sub : reader[w].got[q] = NoFile
      /\ \A q \in Paths \ reader[w].todo : ~(q \in Sub /\ reader[w].dir) => Covered(w, q)
  BY BlobTypes DEF ReadInv, ReaderInv, ReadBlob, ReadAt
<1>3. PICK g \in Reads : /\ g = Got(w, p, tree[head][p]) /\ g.pc = "walk"
                         /\ g.dir = reader[w].dir /\ g.todo = reader[w].todo \ {p}
                         /\ g.got[p] = tree[head][p]
                         /\ \A q \in Paths \ {p} : g.got[q] = reader[w].got[q]
  BY <1>2, BlobTypes, GotFacts
<1>4. reader'[w] = g /\ tree' = tree /\ head' = head /\ Follow /\ Grown
  BY <1>1, <1>3, ReadOnFacts
<1>5. head \in heads'[w]
  BY <1>3, <1>4, FollowFacts
<1>6. ASSUME NEW q \in Paths \ g.todo, ~(q \in Sub /\ g.dir)
      PROVE  Covered(w, q)'
  <2>1. CASE q = p
    BY <1>3, <1>4, <2>1, CoveredNow
  <2>2. CASE q # p
    <3>1. Covered(w, q)
      BY <1>2, <1>3, <1>6, <2>2
    <3>2. reader'[w].got[q] = reader[w].got[q] /\ reader'[w].pc = "walk"
      BY <1>3, <1>4, <2>2
    <3>3. QED
      BY <1>2, <1>4, <3>1, <3>2, CoveredKept
  <2>3. QED
    BY <2>1, <2>2
<1>7. g.dir => g.todo \cap Sub = {} /\ \A q \in Sub : g.got[q] = NoFile
  BY <1>2, <1>3, SubAssumption
<1>8. ReaderInv(w)'
  BY <1>3, <1>4, <1>5, <1>6, <1>7 DEF ReaderInv, ReadAt
<1>9. QED
  BY <1>1, <1>3, <1>8, ReadOnKeeps

LEMMA ZipDoneKeeps ==
  ASSUME ReadInv, NEW w \in Workers, ZipDone(w)
  PROVE  ReadInv'
<1>1. ReadOn(w, Moved(reader[w], "zip"))
  BY DEF ZipDone, Moved
<1>2. /\ reader[w] \in Reads /\ ReadTypeOK
      /\ \A p \in Paths : Covered(w, p)
  BY BlobTypes DEF ReadInv, ReaderInv, ZipDone, ReadAt
<1>3. PICK r \in Reads : /\ r = Moved(reader[w], "zip")
                         /\ r.pc = "zip" /\ r.got = reader[w].got
  BY <1>2, MovedFacts DEF ReaderSteps
<1>4. reader'[w] = r /\ Grown /\ Follow
  BY <1>1, <1>3, ReadOnFacts
<1>5. \A p \in Paths : Covered(w, p)'
  BY <1>2, <1>3, <1>4, CoveredKept
<1>6. ReaderInv(w)'
  BY <1>3, <1>4, <1>5 DEF ReaderInv, ReadAt
<1>7. QED
  BY <1>1, <1>3, <1>6, ReadOnKeeps

\* Every step of SearchIndex leaves the revisions as they are.
LEMMA RevisionsStay ==
  ASSUME IndexInv, [Next]_vars
  PROVE  Grown /\ TypeOK' /\ head' \in DOMAIN tree'
<1>1. TypeOK' /\ head' \in DOMAIN tree'
  BY NextIndex DEF IndexInv, TypeOK
<1>2. ASSUME NEW w \in Workers, Work(w) PROVE Grown
  <2>1. CASE Write(w)
    BY <2>1, WriteGrows DEF IndexInv
  <2>2. CASE ~Write(w)
    <3>1. tree' = tree
      BY <1>2, <2>2 DEF Work, Request, PushBack, Reindex, DeleteProject, RestoreDeleted,
         Handle, MarkDirty, OpenRepo, Revision, Visit, WalkDone, RebuildLinks, ListIndexed,
         Remove, SetClean, Fail, DropIndex
    <3>2. QED
      BY <3>1 DEF Grown
  <2>3. QED
    BY <2>1, <2>2
<1>3. Crash \/ UNCHANGED vars => Grown
  BY DEF Crash, vars, Grown
<1>4. QED
  BY <1>1, <1>2, <1>3 DEF Next

LEMMA BesideKeeps ==
  ASSUME IndexInv, ReadInv, NEW w \in Workers, Beside(w)
  PROVE  ReadInv'
<1>1. Grown /\ TypeOK' /\ head' \in DOMAIN tree'
  BY RevisionsStay DEF Beside, Next
<1>2. reader' = reader /\ Follow
  BY DEF Beside
<1>3. \A x \in Workers : ReaderInv(x)'
  BY <1>1, <1>2, ReaderFrame
<1>4. heads' \in [Workers -> SUBSET DOMAIN tree']
  BY <1>1, <1>2, HeadsTypes DEF ReadInv
<1>5. QED
  BY <1>1, <1>2, <1>3, <1>4 DEF ReadInv, ReadTypeOK

LEMMA CrashAllKeeps ==
  ASSUME IndexInv, ReadInv, CrashAll
  PROVE  ReadInv'
<1>1. Grown /\ TypeOK' /\ head' \in DOMAIN tree'
  BY RevisionsStay DEF CrashAll, Next
<1>2. reader' = [w \in Workers |-> NoRead] /\ Follow
  BY DEF CrashAll
<1>3. \A x \in Workers : ReaderInv(x)'
  BY <1>2, NoReadTypes DEF ReaderInv, ReadAt
<1>4. heads' \in [Workers -> SUBSET DOMAIN tree']
  BY <1>1, <1>2, HeadsTypes DEF ReadInv
<1>5. QED
  BY <1>1, <1>2, <1>3, <1>4, NoReadTypes DEF ReadInv, ReadTypeOK

LEMMA InitReads == ReadInit => IndexInv /\ ReadInv
<1>1. SUFFICES ASSUME ReadInit PROVE IndexInv /\ ReadInv
  OBVIOUS
<1>2. IndexInv
  BY <1>1, InitIndex DEF ReadInit
<1>3. ReadTypeOK
  BY <1>1, <1>2, NoReadTypes DEF ReadInit, ReadTypeOK, IndexInv
<1>4. \A w \in Workers : ReaderInv(w)
  BY <1>1, NoReadTypes DEF ReadInit, ReaderInv, ReadAt
<1>5. QED
  BY <1>2, <1>3, <1>4 DEF ReadInv

\* Seen from the index, a read does not happen.
LEMMA ReadsStutter ==
  [FreeNext]_<<vars, readerVars>> => [Next]_vars
<1>1. SUFFICES ASSUME FreeNext PROVE [Next]_vars
  BY DEF vars
<1>2. \A w \in Workers : Begin(w) \/ Read(w) => UNCHANGED vars
  BY DEF Begin, Read, Ask, ResolveRevision, ReadBlobAt, ReadHome, StampHome, ListRoot, ListSub,
     ReadBlob, ZipDone, EndRead, ReadOn
<1>3. \A w \in Workers : Beside(w) => Next
  BY DEF Beside, Next
<1>4. CrashAll => Next
  BY DEF CrashAll, Next
<1>5. QED
  BY <1>1, <1>2, <1>3, <1>4 DEF FreeNext

LEMMA NextReads ==
  IndexInv /\ ReadInv /\ [FreeNext]_<<vars, readerVars>> => IndexInv' /\ ReadInv'
<1>1. SUFFICES ASSUME IndexInv, ReadInv, [FreeNext]_<<vars, readerVars>>
               PROVE  IndexInv' /\ ReadInv'
  OBVIOUS
<1>2. IndexInv'
  BY <1>1, ReadsStutter, NextIndex
<1>3. ASSUME NEW w \in Workers, Begin(w) PROVE ReadInv'
  BY <1>1, <1>3, BeginKeeps
<1>4. ASSUME NEW w \in Workers, Read(w) PROVE ReadInv'
  <2>1. CASE Ask(w)
    BY <1>3, <2>1 DEF Ask
  <2>2. CASE ResolveRevision(w) \/ ReadBlobAt(w) \/ ReadHome(w) \/ StampHome(w)
    BY <1>1, <2>2, ResolveKeeps, ReadBlobAtKeeps, ReadHomeKeeps, StampHomeKeeps
  <2>3. CASE ListRoot(w) \/ ListSub(w) \/ ReadBlob(w) \/ ZipDone(w) \/ EndRead(w)
    BY <1>1, <2>3, ListRootKeeps, ListSubKeeps, ReadBlobKeeps, ZipDoneKeeps, EndReadKeeps
  <2>4. QED
    BY <1>4, <2>1, <2>2, <2>3 DEF Read
<1>5. ASSUME NEW w \in Workers, Beside(w) PROVE ReadInv'
  BY <1>1, <1>5, BesideKeeps
<1>6. CASE CrashAll
  BY <1>1, <1>2, <1>6, CrashAllKeeps
<1>7. CASE UNCHANGED <<vars, readerVars>>
  <2>1. Grown /\ UNCHANGED <<reader, heads, tree, head>> /\ TypeOK'
    BY <1>1, <1>2, <1>7 DEF vars, readerVars, Grown, IndexInv
  <2>2. \A w \in Workers : ReaderInv(w)'
    BY <1>1, <2>1 DEF ReadInv, ReaderInv, ReadAt, Covered
  <2>3. QED
    BY <1>1, <1>2, <2>1, <2>2 DEF ReadInv, ReadTypeOK
<1>8. QED
  BY <1>1, <1>2, <1>3, <1>4, <1>5, <1>6, <1>7 DEF FreeNext
----------------------------------------------------------------------------
(* The reads: theorems. *)

\* Any number of reads at any time: the inductive invariant of index and reads.
THEOREM FreeReadsHold == FreeSpec => [](IndexInv /\ ReadInv)
<1>1. ReadInit => IndexInv /\ ReadInv
  BY InitReads
<1>2. IndexInv /\ ReadInv /\ [FreeNext]_<<vars, readerVars>> => (IndexInv /\ ReadInv)'
  BY NextReads
<1>3. QED
  BY <1>1, <1>2, PTL DEF FreeSpec

\* The bound on the reads that TLC explores only takes behaviours away.
LEMMA BoundedReads == ReadSpec => FreeSpec
<1>1. [ReadNext]_<<vars, readerVars>> => [FreeNext]_<<vars, readerVars>>
  BY DEF ReadNext, FreeNext
<1>2. QED
  BY <1>1, PTL DEF ReadSpec, FreeSpec

\* Reading never touches the index, so what is proved of SearchIndex holds beside
\* any reads (docs.go and transfer.go only read).
THEOREM ReadsLeaveTheIndex == FreeSpec => Spec
<1>1. ReadInit => Init
  BY DEF ReadInit
<1>2. QED
  BY <1>1, ReadsStutter, PTL DEF FreeSpec, Spec

\* Types of the index, the reindexes and the reads.
THEOREM TypeCorrect == ReadSpec => []ReadTypeOK
<1>1. ReadInv => ReadTypeOK
  BY DEF ReadInv
<1>2. QED
  BY <1>1, FreeReadsHold, BoundedReads, PTL

\* The text of a page is that of the revision named beside it, whatever is written
\* between the two commands, for any number of reads (DocsHandler.Page).
THEOREM PagesAreTrue == (ReadSpec => []PageOfItsRevision) /\ (FreeSpec => []PageOfItsRevision)
<1>1. ReadInv => PageOfItsRevision
  BY DEF ReadInv, ReaderInv, PageOfItsRevision
<1>2. QED
  BY <1>1, FreeReadsHold, BoundedReads, PTL

\* Every file of an export, and the page a project opens with, is one that the branch
\* had during the read (Service.ExportZip, DocsHandler.Home).
THEOREM ReadsAreCovered == (ReadSpec => []ReadsCover) /\ (FreeSpec => []ReadsCover)
<1>1. ReadInv => ReadsCover
  BY DEF ReadInv, ReaderInv, ReadsCover, ReadAt, Covered
<1>2. QED
  BY <1>1, FreeReadsHold, BoundedReads, PTL
============================================================================
