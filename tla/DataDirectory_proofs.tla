------------------------ MODULE DataDirectory_proofs ------------------------
(***************************************************************************)
(* TLAPS proofs about DataDirectory, for any processes, files and bounds.  *)
(***************************************************************************)
EXTENDS DataDirectory, TLAPS

Written == [Files -> 0..writes]

Acquiring == {"mkdir", "create", "stamp", "inspect", "remove"}
BackingUp == {"checkpoint", "hash", "copy", "publish"}
Moving == {"swap", "rmdir", "rename"}
Restoring == {"stat", "check", "extract"} \cup Moving

\* What a command's step says of its kind, of its locals and of the database.
ProcessInv(p) ==
  /\ At(p, "open") \/ At(p, "running") => proc[p].kind \in {"serve", "admin"}
  /\ proc[p].pc \in Acquiring => ~Is(p, "admin")
  /\ proc[p].pc \in BackingUp => Is(p, "backup")
  /\ proc[p].pc \in Restoring => Is(p, "restore")
  /\ proc[p].pc \in Acquiring \cup {"idle", "open", "stat"} => ~proc[p].deferred
  /\ proc[p].pc \in BackingUp \cup {"close"} => proc[p].deferred
  /\ ~At(p, "hash") /\ ~At(p, "copy") => proc[p].next = 1
  /\ proc[p].manifest \in Written
  /\ proc[p].pc \in Moving => proc[p].content \in Written
  /\ HasDatabase(p) => files[Database] # 0

\* Every version in the directory and in the backup is one that was written.
WrittenInv ==
  /\ files \in Written /\ wal \in 0..writes
  /\ archive.manifest \in Written

\* Until two commands are at the lock at the same time it holds the PID of the
\* one command that works on the directory, or is about to.
HoldInv(p) ==
  /\ Holding(p) => lockfile = [pid |-> p, stamped |-> TRUE]
  /\ At(p, "stamp") => lockfile = [pid |-> p, stamped |-> FALSE]
  /\ Contending(p) /\ proc[p].pc \in {"remove", "rmdir", "rename", "close"} =>
       \A q \in Pids : ~Holding(q)

LockInv(p) ==
  /\ HoldInv(p)
  /\ Contending(p) => \A q \in Pids : Contending(q) => p = q

Hashed(p) == {Walk[i] : i \in 1..(proc[p].next - 1)}

\* While the files are hashed only the database changes, and what it was when it
\* was hashed is what a program saw.
HashInv(p) ==
  /\ files \in seen[p]
  /\ \A s \in seen[p] : \A f \in Files \ {Database} : s[f] = files[f]
  /\ \A f \in Hashed(p) \ {Database} : proc[p].manifest[f] = files[f]
  /\ Database \in Hashed(p) =>
       [files EXCEPT ![Database] = proc[p].manifest[Database]] \in seen[p]

SnapshotInv(p) ==
  seen[p] # {} =>
    /\ At(p, "hash") => HashInv(p)
    /\ At(p, "copy") \/ At(p, "publish") => proc[p].manifest \in seen[p]
    /\ proc[p].pc \in Moving => proc[p].content \in seen[p]

ArchiveInv == archive.seen # {} => archive.manifest \in archive.seen

IInv ==
  /\ TypeOK
  /\ WrittenInv
  /\ \A p \in Pids : ProcessInv(p)
  /\ ~overlapped => /\ \A p \in Pids : LockInv(p) /\ SnapshotInv(p)
                    /\ ArchiveInv
----------------------------------------------------------------------------
\* The lines of Next that are not a command's.
Watch ==
  /\ seen' = [p \in Pids |-> See(p)]
  /\ overlapped' = (overlapped \/ \E p, q \in Pids : p # q /\ Contending(p)' /\ Contending(q)')

\* Process p takes a step and no other does; its locals do not change.
Moved(p) == proc' \in [Pids -> Process] /\ \A q \in Pids \ {p} : proc'[q] = proc[q]
Keeps(p) ==
  /\ proc'[p].kind = proc[p].kind /\ proc'[p].deferred = proc[p].deferred
  /\ proc'[p].next = proc[p].next /\ proc'[p].manifest = proc[p].manifest
  /\ proc'[p].content = proc[p].content

\* Its locals are those of a process that has not started.
Fresh(p) ==
  /\ ~proc'[p].deferred /\ proc'[p].next = 1
  /\ proc'[p].manifest = Nothing /\ proc'[p].content = Nothing
----------------------------------------------------------------------------
LEMMA FileFacts ==
  /\ Database \in Files /\ Len(Walk) \in Nat /\ 1 \in 1..Len(Walk)
  /\ \A i \in 1..Len(Walk) : Walk[i] \in Files
  /\ \A f \in Files : \E i \in 1..Len(Walk) : f = Walk[i]
<1>1. Walk \in Seq(Files) /\ Database \in Files
  BY DatabaseAssumption
<1>2. DOMAIN Walk = 1..Len(Walk) /\ Len(Walk) \in Nat
  BY <1>1
<1>3. Files = {Walk[i] : i \in DOMAIN Walk}
  BY DEF Files, Range
<1>4. QED
  BY <1>1, <1>2, <1>3

LEMMA NothingTypes ==
  ASSUME writes \in Nat
  PROVE  /\ Nothing \in [Files -> Nat] /\ Nothing \in Written /\ Nothing \in Contents
         /\ \A f \in Files : Nothing[f] = 0
BY DEF Nothing, Contents, Written

LEMMA ExitedTypes ==
  ASSUME writes \in Nat
  PROVE  /\ Exited \in Process /\ Exited.pc = "idle" /\ Exited.kind = "serve"
         /\ ~Exited.deferred /\ Exited.next = 1
         /\ Exited.manifest = Nothing /\ Exited.content = Nothing
BY FileFacts, NothingTypes DEF Exited, Process, Steps, Kinds

LEMMA GoTypes ==
  ASSUME proc \in [Pids -> Process], NEW p \in Pids, NEW step \in Steps, Go(p, step)
  PROVE  Moved(p) /\ Keeps(p) /\ proc'[p].pc = step
BY DEF Go, Moved, Keeps, Process

LEMMA ExitTypes ==
  ASSUME TypeOK, NEW p \in Pids, Exit(p)
  PROVE  Moved(p) /\ Fresh(p) /\ proc'[p].pc = "idle" /\ proc'[p].kind = "serve"
BY ExitedTypes DEF Exit, Moved, Fresh, TypeOK

LEMMA QuitTypes ==
  ASSUME TypeOK, NEW p \in Pids, Quit(p)
  PROVE  /\ Moved(p)
         /\ proc[p].deferred =>
              /\ proc'[p].pc = "close" /\ proc'[p].kind = proc[p].kind /\ proc'[p].deferred
              /\ proc'[p].next = 1 /\ proc'[p].manifest = Nothing /\ proc'[p].content = Nothing
         /\ ~proc[p].deferred => Fresh(p) /\ proc'[p].pc = "idle" /\ proc'[p].kind = "serve"
<1>1. CASE ~proc[p].deferred
  BY <1>1, ExitTypes DEF Quit
<1>2. CASE proc[p].deferred
  <2> DEFINE r == [Exited EXCEPT !.pc = "close", !.kind = proc[p].kind, !.deferred = TRUE]
  <2>1. proc \in [Pids -> Process] /\ proc[p].kind \in Kinds /\ writes \in Nat
    BY DEF TypeOK, Process
  <2>2. /\ r \in Process /\ r.pc = "close" /\ r.kind = proc[p].kind /\ r.deferred
        /\ r.next = 1 /\ r.manifest = Nothing /\ r.content = Nothing
    BY <2>1, ExitedTypes DEF Process, Steps
  <2>3. proc' = [proc EXCEPT ![p] = r]
    BY <1>2 DEF Quit
  <2> HIDE DEF r
  <2>4. QED
    BY <1>2, <2>1, <2>2, <2>3 DEF Moved
<1>3. QED
  BY <1>1, <1>2

LEMMA ContentTypes ==
  ASSUME TypeOK
  PROVE  /\ Content \in [Files -> Nat]
         /\ wal = 0 => Content = files
         /\ wal # 0 => Content[Database] = wal
         /\ \A f \in Files \ {Database} : Content[f] = files[f]
         /\ Empty => files = Nothing /\ wal = 0
         /\ (files = Nothing /\ wal = 0 /\ ~leftover) => Empty
BY FileFacts, NothingTypes DEF TypeOK, Content, Empty
LEMMA WriteTypes ==
  ASSUME TypeOK, WrittenInv, NEW f \in Files, WriteFile(f)
  PROVE  /\ writes' = writes + 1 /\ writes' \in Nat
         /\ files' \in [Files -> 0..writes'] /\ wal' \in 0..writes'
         /\ (wal' # 0 => files'[Database] # 0)
         /\ (files[Database] # 0 \/ f = Database => files'[Database] # 0)
         /\ Content' = [Content EXCEPT ![f] = writes + 1]
         /\ f = Database => /\ \A g \in Files \ {Database} : files'[g] = files[g]
                            /\ files' = files \/ files' = Content'
<1>1. /\ writes \in Nat /\ writes' = writes + 1 /\ files \in [Files -> 0..writes]
      /\ wal \in 0..writes /\ Database \in Files /\ (wal # 0 => files[Database] # 0)
  BY FileFacts DEF TypeOK, WrittenInv, Written, WriteFile
<1>2. CASE f = Database /\ files[f] # 0
  <2>1. wal' = writes + 1 /\ files' = files
    BY <1>2 DEF WriteFile
  <2>2. Content' = [files EXCEPT ![Database] = writes + 1]
    BY <1>1, <2>1 DEF Content
  <2>3. Content' = [Content EXCEPT ![f] = writes + 1]
    BY <1>1, <1>2, <2>2 DEF Content
  <2>4. QED
    BY <1>1, <1>2, <2>1, <2>3
<1>3. CASE ~(f = Database /\ files[f] # 0)
  <2>1. files' = [files EXCEPT ![f] = writes + 1] /\ wal' = wal
    BY <1>3 DEF WriteFile
  <2>2. files' \in [Files -> 0..writes'] /\ files'[f] = writes + 1
        /\ \A g \in Files \ {f} : files'[g] = files[g]
    BY <1>1, <2>1
  <2>3. f = Database => wal = 0
    BY <1>1, <1>3
  <2>4. Content' = [Content EXCEPT ![f] = writes + 1]
    BY <1>1, <2>1, <2>3 DEF Content
  <2>5. f = Database => files' = Content'
    BY <2>1, <2>3 DEF Content
  <2>6. QED
    BY <1>1, <2>1, <2>2, <2>3, <2>4, <2>5
<1>4. QED
  BY <1>2, <1>3

LEMMA FoldTypes ==
  ASSUME TypeOK, WrittenInv, Fold
  PROVE  /\ files' \in Written /\ wal' = 0 /\ files' = Content /\ Content' = Content
         /\ (files[Database] # 0 => files'[Database] # 0)
         /\ \A g \in Files \ {Database} : files'[g] = files[g]
<1>1. files \in [Files -> 0..writes] /\ wal \in 0..writes /\ Database \in Files
  BY FileFacts DEF WrittenInv, Written
<1>2. files' = Content /\ wal' = 0
  BY DEF Fold
<1>3. Content \in [Files -> 0..writes] /\ (files[Database] # 0 => Content[Database] # 0)
  BY <1>1 DEF Content
<1>4. Content' = Content
  BY <1>2 DEF Content
<1>5. \A g \in Files \ {Database} : Content[g] = files[g]
  BY ContentTypes
<1>6. QED
  BY <1>2, <1>3, <1>4, <1>5 DEF Written

\* What a process keeps of the directory is made of versions.
LEMMA SeenTypes ==
  ASSUME TypeOK, Watch, Content' \in [Files -> Nat]
  PROVE  \A p \in Pids : seen'[p] \subseteq [Files -> Nat] /\ seen'[p] = See(p)
<1> SUFFICES ASSUME NEW p \in Pids
             PROVE  seen'[p] \subseteq [Files -> Nat] /\ seen'[p] = See(p)
  OBVIOUS
<1>1. seen'[p] = See(p)
  BY DEF Watch
<1>2. seen[p] \subseteq [Files -> Nat] /\ archive.seen \subseteq [Files -> Nat]
  BY DEF TypeOK
<1>3. See(p) \subseteq [Files -> Nat]
  BY <1>2 DEF See
<1>4. QED
  BY <1>1, <1>3

LEMMA ProcessStays ==
  ASSUME TypeOK, NEW p \in Pids, NEW q \in Pids \ {p}, ProcessInv(q), Moved(p),
         writes' \in Nat, writes <= writes', files[Database] # 0 => files'[Database] # 0
  PROVE  ProcessInv(q)'
<1>1. proc'[q] = proc[q]
  BY DEF Moved
<1>2. Written \subseteq Written'
  BY DEF TypeOK, Written
<1>3. QED
  BY <1>1, <1>2 DEF ProcessInv, HasDatabase, At, Is, Alive

\* What everyone but p relies on, when p alone has moved.
LEMMA SnapshotStays ==
  ASSUME TypeOK, Watch, NEW p \in Pids, NEW q \in Pids \ {p}, SnapshotInv(q), Moved(p),
         Content' \in [Files -> Nat], files' \in [Files -> Nat],
         At(q, "hash") /\ seen[q] # {} =>
           /\ \A f \in Files \ {Database} : files'[f] = files[f]
           /\ files' = files \/ files' = Content'
  PROVE  SnapshotInv(q)'
<1>1. proc'[q] = proc[q] /\ seen'[q] = See(q)
  BY SeenTypes DEF Moved
<1>2. CASE At(q, "hash")
  <2>1. seen'[q] = IF seen[q] # {} THEN seen[q] \cup {Content'} ELSE seen[q]
    BY <1>1, <1>2 DEF See, At
  <2>2. CASE seen[q] = {}
    BY <2>1, <2>2, <1>1 DEF SnapshotInv
  <2>3. CASE seen[q] # {}
    <3>1. HashInv(q)
      BY <1>2, <2>3 DEF SnapshotInv
    <3>2. \A f \in Files \ {Database} : files'[f] = files[f] /\ Content'[f] = files'[f]
      BY <1>2, <2>3 DEF Content
    <3>3. files' \in seen'[q]
      BY <1>2, <2>1, <2>3, <3>1 DEF HashInv
    <3>4. \A s \in seen'[q] : \A f \in Files \ {Database} : s[f] = files'[f]
      BY <2>1, <2>3, <3>1, <3>2 DEF HashInv
    <3>5. Hashed(q)' = Hashed(q)
      BY <1>1 DEF Hashed
    <3>6. \A f \in Hashed(q) \ {Database} : f \in Files /\ proc[q].manifest[f] = files'[f]
      <4>1. Hashed(q) \subseteq Files
        BY FileFacts DEF Hashed, TypeOK, Process
      <4>2. QED
        BY <3>1, <3>2, <4>1 DEF HashInv
    <3>7. [files' EXCEPT ![Database] = proc[q].manifest[Database]]
             = [files EXCEPT ![Database] = proc[q].manifest[Database]]
      BY <3>2 DEF TypeOK
    <3>8. HashInv(q)'
      BY <1>1, <2>1, <2>3, <3>1, <3>3, <3>4, <3>5, <3>6, <3>7 DEF HashInv
    <3>9. QED
      BY <1>1, <1>2, <3>8 DEF SnapshotInv, At, Moving
  <2>4. QED
    BY <2>2, <2>3
<1>3. CASE ~At(q, "hash")
  <2>1. seen[q] # {} \/ seen'[q] = {} \/ ~(proc[q].pc \in {"copy", "publish"} \cup Moving)
    BY <1>1, <1>3 DEF See, At, Moving
  <2>2. seen[q] \subseteq seen'[q] \/ ~(proc[q].pc \in {"copy", "publish"} \cup Moving)
    BY <1>1, <1>3 DEF See, At, Moving
  <2>3. QED
    BY <1>1, <1>3, <2>1, <2>2 DEF SnapshotInv, At, Moving
<1>4. QED
  BY <1>2, <1>3

LEMMA SnapshotLeft ==
  ASSUME Watch, NEW p \in Pids, proc'[p].pc \notin {"hash", "copy", "publish"} \cup Moving
  PROVE  SnapshotInv(p)'
BY DEF Watch, See, SnapshotInv, Moving

\* The parts of the invariant, put together after a step of p.
DiskInv ==
  /\ dir \in BOOLEAN /\ (~dir => Empty /\ lockfile = NoFile)
  /\ files \in Written /\ wal \in 0..writes /\ (wal # 0 => files[Database] # 0)
  /\ leftover \in BOOLEAN
  /\ lockfile \in {NoFile} \cup [pid : Pids, stamped : BOOLEAN]
  /\ writes \in Nat /\ wipes \in Nat /\ crashes \in Nat

ArchiveTyped ==
  /\ archive.manifest \in Written /\ archive.content \in Contents
  /\ archive.twice \in BOOLEAN /\ archive.seen \subseteq [Files -> Nat]

LEMMA DiskTypes ==
  ASSUME TypeOK, WrittenInv
  PROVE  DiskInv /\ ArchiveTyped
BY DEF TypeOK, WrittenInv, DiskInv, ArchiveTyped

LEMMA Assembled ==
  ASSUME IInv, Watch, DiskInv', ArchiveTyped',
         proc' \in [Pids -> Process],
         \A q \in Pids : ProcessInv(q)',
         ~overlapped' => /\ \A q \in Pids : HoldInv(q)' /\ SnapshotInv(q)'
                         /\ ArchiveInv'
  PROVE  IInv'
<1>1. Written' \subseteq [Files -> Nat] /\ Written' \subseteq Contents
  BY DEF Written, Contents, DiskInv
<1>2. TypeOK'
  <2>1. Content' \in [Files -> Nat]
    <3>1. files' \in [Files -> Nat] /\ wal' \in Nat
      BY <1>1 DEF DiskInv
    <3>2. QED
      BY <3>1, FileFacts DEF Content
  <2>2. \A p \in Pids : seen'[p] \subseteq [Files -> Nat]
    BY <2>1, SeenTypes DEF IInv
  <2>3. overlapped' \in BOOLEAN
    BY DEF Watch, IInv, TypeOK
  <2>4. QED
    BY <1>1, <2>2, <2>3 DEF DiskInv, ArchiveTyped, TypeOK
<1>3. WrittenInv'
  BY DEF WrittenInv, DiskInv, ArchiveTyped
<1>4. ASSUME ~overlapped', NEW p \in Pids
      PROVE  LockInv(p)'
  <2>1. \A q \in Pids : Contending(p)' /\ Contending(q)' => p = q
    BY <1>4 DEF Watch
  <2>2. HoldInv(p)'
    BY <1>4
  <2>3. QED
    BY <2>1, <2>2 DEF LockInv
<1>5. QED
  BY <1>2, <1>3, <1>4 DEF IInv

LEMMA Lock ==
  ASSUME IInv, Watch, ~overlapped'
  PROVE  /\ ~overlapped /\ ArchiveInv
         /\ \A p \in Pids : HoldInv(p) /\ SnapshotInv(p)
         /\ \A p, q \in Pids : Contending(p) /\ Contending(q) => p = q
         /\ \A p, q \in Pids : Holding(p) /\ Holding(q) => p = q
<1>1. ~overlapped
  BY DEF Watch
<1>2. \A p \in Pids : LockInv(p) /\ SnapshotInv(p)
  BY <1>1 DEF IInv
<1>3. QED
  BY <1>1, <1>2 DEF LockInv, HoldInv, IInv
----------------------------------------------------------------------------
LEMMA ArchiveStays ==
  ASSUME IInv, Watch, writes' \in Nat, writes <= writes', UNCHANGED archive
  PROVE  ArchiveTyped' /\ (~overlapped' => ArchiveInv')
<1>1. Written \subseteq Written' /\ ArchiveTyped
  BY DiskTypes DEF IInv, TypeOK, Written
<1>2. ~overlapped' => ArchiveInv
  BY Lock
<1>3. QED
  BY <1>1, <1>2 DEF ArchiveTyped, ArchiveInv

\* The lock of the others, when p does not come to hold it.
LEMMA HoldStays ==
  ASSUME NEW p \in Pids, \A q \in Pids : HoldInv(q), Moved(p), lockfile' = lockfile,
         ~Holding(p)' \/ Holding(p), NEW q \in Pids \ {p}
  PROVE  HoldInv(q)'
<1>1. proc'[q] = proc[q] /\ (Holding(q)' <=> Holding(q)) /\ (Contending(q)' <=> Contending(q))
  BY DEF Moved, Holding, Contending, At, Is
<1>2. \A r \in Pids : Holding(r)' => Holding(r)
  BY DEF Moved, Holding, At, Is
<1>3. HoldInv(q)
  OBVIOUS
<1>4. QED
  BY <1>1, <1>2, <1>3 DEF HoldInv, At

\* A step of p that touches neither the directory nor the backup file.
LEMMA QuietStep ==
  ASSUME IInv, Watch, NEW p \in Pids, Moved(p), UNCHANGED <<disk, archive, writes>>,
         wipes' \in Nat, crashes' \in Nat, ProcessInv(p)',
         ~Holding(p)' \/ Holding(p),
         ~overlapped' => HoldInv(p)' /\ SnapshotInv(p)'
  PROVE  IInv'
<1>1. TypeOK /\ WrittenInv /\ DiskInv /\ \A q \in Pids : ProcessInv(q)
  BY DiskTypes DEF IInv
<1>2. DiskInv' /\ Content' = Content /\ files' = files /\ writes' = writes
  BY <1>1 DEF DiskInv, disk, Empty, Content, Written
<1>3. ArchiveTyped' /\ (~overlapped' => ArchiveInv')
  BY <1>1, <1>2, ArchiveStays DEF DiskInv
<1>4. \A q \in Pids : ProcessInv(q)'
  BY <1>1, <1>2, ProcessStays DEF DiskInv
<1>5. ASSUME ~overlapped', NEW q \in Pids
      PROVE  HoldInv(q)' /\ SnapshotInv(q)'
  <2>1. \A r \in Pids : HoldInv(r) /\ SnapshotInv(r)
    BY <1>5, Lock
  <2>2. CASE q = p
    BY <1>5, <2>2
  <2>3. CASE q # p
    <3>1. lockfile' = lockfile /\ q \in Pids \ {p}
      BY <2>3 DEF disk
    <3>2. HoldInv(q)'
      BY <2>1, <3>1, HoldStays
    <3>3. Content' \in [Files -> Nat] /\ files' \in [Files -> Nat]
      BY <1>1, <1>2, ContentTypes DEF TypeOK
    <3>4. SnapshotInv(q)'
      BY <1>1, <1>2, <2>1, <3>1, <3>3, SnapshotStays
    <3>5. QED
      BY <3>2, <3>4
  <2>4. QED
    BY <2>2, <2>3
<1>6. proc' \in [Pids -> Process]
  BY DEF Moved
<1>7. QED
  BY <1>2, <1>3, <1>4, <1>5, <1>6, Assembled

\* Backup and restore end; with the lock, or with a Close still to come that nobody
\* else's lock is lost to.
LEMMA QuitStep ==
  ASSUME IInv, Watch, NEW p \in Pids, Quit(p), Is(p, "backup") \/ Is(p, "restore"), ~At(p, "close"),
         lockfile' = lockfile, writes' \in Nat
  PROVE  /\ Moved(p) /\ ProcessInv(p)' /\ ~Holding(p)'
         /\ proc'[p].pc \in {"idle", "close"}
         /\ ~overlapped' => HoldInv(p)' /\ SnapshotInv(p)'
<1>1. TypeOK /\ ProcessInv(p)
  BY DEF IInv
<1>2. /\ Moved(p) /\ proc'[p].manifest = Nothing /\ proc'[p].next = 1
      /\ \/ /\ proc'[p].pc = "close" /\ proc'[p].kind \in {"backup", "restore"}
            /\ proc'[p].deferred /\ proc[p].deferred
         \/ proc'[p].pc = "idle" /\ ~proc'[p].deferred
  BY <1>1, QuitTypes DEF Is, Fresh
<1>3. ProcessInv(p)'
  <2>1. Nothing \in Written'
    BY DEF Nothing, Written
  <2>2. QED
    BY <1>2, <2>1
       DEF ProcessInv, HasDatabase, Alive, At, Is, Acquiring, BackingUp, Moving, Restoring
<1>4. ~Holding(p)' /\ proc'[p].pc \in {"idle", "close"}
  BY <1>2 DEF Holding, At
<1>5. ASSUME ~overlapped'
      PROVE  HoldInv(p)' /\ SnapshotInv(p)'
  <2>1. SnapshotInv(p)'
    BY <1>4, SnapshotLeft DEF Moving
  <2>2. /\ \A q \in Pids : HoldInv(q)
        /\ \A q, r \in Pids : Holding(q) /\ Holding(r) => q = r
    BY <1>5, Lock
  <2>3. CASE proc'[p].pc = "idle"
    <3>1. ~Contending(p)' /\ ~At(p, "stamp")'
      BY <2>3 DEF Contending, At
    <3>2. QED
      BY <1>4, <2>1, <3>1 DEF HoldInv
  <2>4. CASE proc[p].deferred
    <3>1. proc[p].pc \in Steps
      BY <1>1 DEF TypeOK, Process
    <3>2. proc[p].pc \in BackingUp \cup {"check", "extract", "swap"} \cup {"rmdir", "rename"}
      BY <1>1, <2>4, <3>1 DEF ProcessInv, Steps, Acquiring, BackingUp, At, Is
    <3>3. Holding(p) \/ (Contending(p) /\ proc[p].pc \in {"rmdir", "rename"})
      BY <2>4, <3>2 DEF Holding, Contending, BackingUp
    <3>4. \A q \in Pids \ {p} : ~Holding(q)
      BY <2>2, <3>3 DEF HoldInv
    <3>5. \A q \in Pids \ {p} : ~Holding(q)'
      BY <1>2, <3>4 DEF Moved, Holding, At, Is
    <3>6. \A q \in Pids : ~Holding(q)'
      BY <1>4, <3>5
    <3>7. ~At(p, "stamp")'
      BY <1>4 DEF At
    <3>8. QED
      BY <1>4, <2>1, <3>6, <3>7 DEF HoldInv
  <2>5. QED
    BY <1>2, <2>1, <2>3, <2>4
<1>6. QED
  BY <1>2, <1>3, <1>4, <1>5
----------------------------------------------------------------------------
LEMMA StartKeeps ==
  ASSUME IInv, Watch, NEW p \in Pids, Start(p)
  PROVE  IInv'
<1>1. TypeOK /\ ProcessInv(p) /\ UNCHANGED <<disk, archive, writes>> /\ UNCHANGED <<wipes, crashes>>
  BY DEF IInv, Start, counters
<1>2. PICK kind \in Kinds :
        proc' = [proc EXCEPT ![p].kind = kind,
                             ![p].pc = CASE kind \in {"serve", "admin"} -> "open"
                                         [] kind = "backup" -> "mkdir"
                                         [] kind = "restore" -> "stat"]
  BY DEF Start
<1> DEFINE step == CASE kind \in {"serve", "admin"} -> "open"
                     [] kind = "backup" -> "mkdir"
                     [] kind = "restore" -> "stat"
<1>3. /\ step \in {"open", "mkdir", "stat"}
      /\ step = "open" => kind \in {"serve", "admin"}
      /\ step = "mkdir" => kind = "backup"
      /\ step = "stat" => kind = "restore"
  <2>1. CASE kind \in {"serve", "admin"}
    BY <2>1
  <2>2. CASE kind = "backup"
    BY <2>2
  <2>3. CASE kind = "restore"
    BY <2>3
  <2>4. kind \in {"serve", "admin"} \/ kind = "backup" \/ kind = "restore"
    BY DEF Kinds
  <2> HIDE DEF step
  <2>5. QED
    BY <2>1, <2>2, <2>3, <2>4
<1>4. proc' = [proc EXCEPT ![p].kind = kind, ![p].pc = step]
  BY <1>2
<1> HIDE DEF step
<1>5. /\ Moved(p) /\ proc'[p].kind = kind /\ proc'[p].pc = step
      /\ proc'[p].deferred = proc[p].deferred /\ proc'[p].next = proc[p].next
      /\ proc'[p].manifest = proc[p].manifest
  <2> DEFINE r == [proc[p] EXCEPT !.kind = kind, !.pc = step]
  <2>1. proc \in [Pids -> Process] /\ proc[p] \in Process /\ step \in Steps
    BY <1>1, <1>3 DEF TypeOK, Steps
  <2>2. /\ r \in Process /\ r.kind = kind /\ r.pc = step
        /\ r.deferred = proc[p].deferred /\ r.next = proc[p].next
        /\ r.manifest = proc[p].manifest
    BY <2>1 DEF Process
  <2>3. proc' = [proc EXCEPT ![p] = r]
    BY <1>4, <2>1
  <2> HIDE DEF r
  <2>4. QED
    BY <2>1, <2>2, <2>3 DEF Moved
<1>6. ~proc[p].deferred /\ proc[p].next = 1
  BY <1>1 DEF ProcessInv, Start, At
<1>7. ProcessInv(p)'
  BY <1>1, <1>3, <1>5, <1>6
     DEF ProcessInv, HasDatabase, Alive, At, Is, Acquiring, BackingUp, Moving, Restoring, Written
<1>8. ~Holding(p)' /\ ~Contending(p)' /\ ~At(p, "stamp")'
  BY <1>3, <1>5 DEF Holding, Contending, At
<1>9. SnapshotInv(p)'
  BY <1>3, <1>5, SnapshotLeft DEF Moving
<1>10. wipes' \in Nat /\ crashes' \in Nat
  BY <1>1 DEF TypeOK
<1>11. QED
  BY <1>1, <1>5, <1>7, <1>8, <1>9, <1>10, QuietStep DEF HoldInv

\* A step that goes on to another without touching anything.
LEMMA GoOn ==
  ASSUME IInv, Watch, NEW p \in Pids, NEW step \in Steps, Go(p, step),
         UNCHANGED <<disk, archive, writes>>, UNCHANGED <<wipes, crashes>>,
         ProcessInv(p)', step # "stamp",
         ~Holding(p)' \/ Holding(p),
         ~overlapped' /\ Contending(p)' /\ step \in {"remove", "rmdir", "rename", "close"} =>
            \A q \in Pids : ~Holding(q),
         ~overlapped' => SnapshotInv(p)'
  PROVE  IInv'
<1>1. TypeOK /\ wipes' \in Nat /\ crashes' \in Nat
  BY DEF IInv, TypeOK
<1>2. Moved(p) /\ Keeps(p) /\ proc'[p].pc = step
  BY <1>1, GoTypes DEF TypeOK
<1>3. ASSUME ~overlapped'
      PROVE  HoldInv(p)'
  <2>1. HoldInv(p) /\ lockfile' = lockfile
    BY <1>3, Lock DEF disk
  <2>2. Holding(p)' => lockfile' = [pid |-> p, stamped |-> TRUE]
    BY <2>1 DEF HoldInv
  <2>3. ~At(p, "stamp")'
    BY <1>2 DEF At
  <2>4. ASSUME Contending(p)', step \in {"remove", "rmdir", "rename", "close"}, NEW q \in Pids
        PROVE  ~Holding(q)'
    <3>1. \A r \in Pids : ~Holding(r)
      BY <1>3, <2>4
    <3>2. CASE q = p
      BY <3>1, <3>2
    <3>3. CASE q # p
      BY <1>2, <3>1, <3>3 DEF Moved, Holding, At, Is
    <3>4. QED
      BY <3>2, <3>3
  <2>5. QED
    BY <1>2, <2>2, <2>3, <2>4 DEF HoldInv
<1>4. QED
  BY <1>1, <1>2, <1>3, QuietStep

LEMMA StatKeeps ==
  ASSUME IInv, Watch, NEW p \in Pids, Stat(p)
  PROVE  IInv'
<1> DEFINE step == IF dir THEN "mkdir" ELSE "check"
<1>1. /\ TypeOK /\ ProcessInv(p) /\ At(p, "stat") /\ Go(p, step) /\ step \in {"mkdir", "check"}
      /\ UNCHANGED <<disk, archive, writes>> /\ UNCHANGED <<wipes, crashes>>
  BY DEF IInv, Stat, counters
<1> HIDE DEF step
<1>2. Moved(p) /\ Keeps(p) /\ proc'[p].pc = step /\ step \in Steps
  BY <1>1, GoTypes DEF TypeOK, Steps
<1>3. Is(p, "restore") /\ ~proc[p].deferred /\ proc[p].next = 1
  BY <1>1 DEF ProcessInv, At, Restoring
<1>4. ProcessInv(p)'
  BY <1>1, <1>2, <1>3
     DEF ProcessInv, HasDatabase, Alive, At, Is, Acquiring, BackingUp, Moving, Restoring, Written, Keeps
<1>5. ~Holding(p)' /\ ~Contending(p)' /\ step # "stamp"
  BY <1>1, <1>2, <1>3 DEF Holding, Contending, At, Is, Keeps
<1>6. SnapshotInv(p)'
  BY <1>1, <1>2, SnapshotLeft DEF Moving
<1>7. QED
  BY <1>1, <1>2, <1>4, <1>5, <1>6, GoOn

LEMMA ExitStep ==
  ASSUME IInv, Watch, NEW p \in Pids, Exit(p), writes' \in Nat
  PROVE  /\ Moved(p) /\ ProcessInv(p)' /\ ~Holding(p)' /\ ~Contending(p)'
         /\ proc'[p].pc = "idle" /\ HoldInv(p)' /\ SnapshotInv(p)'
<1>1. TypeOK
  BY DEF IInv
<1>2. Moved(p) /\ Fresh(p) /\ proc'[p].pc = "idle" /\ proc'[p].kind = "serve"
  BY <1>1, ExitTypes
<1>3. Nothing \in Written'
  BY DEF Nothing, Written
<1>4. ProcessInv(p)'
  BY <1>2, <1>3
     DEF ProcessInv, HasDatabase, Alive, At, Is, Acquiring, BackingUp, Moving, Restoring, Fresh
<1>5. ~Holding(p)' /\ ~Contending(p)' /\ ~At(p, "stamp")'
  BY <1>2 DEF Holding, Contending, At
<1>6. SnapshotInv(p)'
  BY <1>2, SnapshotLeft DEF Moving
<1>7. QED
  BY <1>2, <1>4, <1>5, <1>6 DEF HoldInv

LEMMA CrashKeeps ==
  ASSUME IInv, Watch, NEW p \in Pids, Crash(p)
  PROVE  IInv'
<1>1. /\ Exit(p) /\ UNCHANGED <<disk, archive, writes>> /\ writes' \in Nat
      /\ wipes' \in Nat /\ crashes' \in Nat
  BY DEF IInv, TypeOK, Crash
<1>2. QED
  BY <1>1, ExitStep, QuietStep

LEMMA QuitKeeps ==
  ASSUME IInv, Watch, NEW p \in Pids, Quit(p), Is(p, "backup") \/ Is(p, "restore"), ~At(p, "close"),
         UNCHANGED <<disk, archive, counters>>
  PROVE  IInv'
<1>1. /\ UNCHANGED <<disk, archive, writes>> /\ writes' \in Nat
      /\ wipes' \in Nat /\ crashes' \in Nat /\ lockfile' = lockfile
  BY DEF IInv, TypeOK, counters, disk
<1>2. QED
  BY <1>1, QuitStep, QuietStep

LEMMA FailKeeps ==
  ASSUME IInv, Watch, NEW p \in Pids, Fail(p)
  PROVE  IInv'
BY QuitKeeps DEF Fail

LEMMA InspectKeeps ==
  ASSUME IInv, Watch, NEW p \in Pids, Inspect(p)
  PROVE  IInv'
<1>1. /\ TypeOK /\ ProcessInv(p) /\ At(p, "inspect")
      /\ UNCHANGED <<disk, archive, writes>> /\ UNCHANGED <<wipes, crashes>>
      /\ writes' \in Nat /\ wipes' \in Nat /\ crashes' \in Nat
  BY DEF IInv, Inspect, counters, TypeOK
<1>2. CASE lockfile.stamped /\ Alive(lockfile.pid)
  <2>1. Exit(p)
    BY <1>2 DEF Inspect
  <2>2. QED
    BY <1>1, <2>1, ExitStep, QuietStep
<1>3. CASE ~(lockfile.stamped /\ Alive(lockfile.pid))
  <2>1. Go(p, "remove") /\ "remove" \in Steps
    BY <1>3 DEF Inspect, Steps
  <2>2. Moved(p) /\ Keeps(p) /\ proc'[p].pc = "remove"
    BY <1>1, <2>1, GoTypes DEF TypeOK
  <2>3. ~Is(p, "admin") /\ ~proc[p].deferred /\ proc[p].next = 1
    BY <1>1 DEF ProcessInv, At, Acquiring
  <2>4. ProcessInv(p)'
    BY <1>1, <2>2, <2>3
       DEF ProcessInv, HasDatabase, Alive, At, Is, Acquiring, BackingUp, Moving, Restoring, Written,
           Keeps, disk
  <2>5. ~Holding(p)'
    BY <2>2 DEF Holding, At
  <2>6. SnapshotInv(p)'
    BY <2>2, SnapshotLeft DEF Moving
  <2>7. ASSUME ~overlapped', NEW q \in Pids, Holding(q)
        PROVE  FALSE
    <3>1. lockfile = [pid |-> q, stamped |-> TRUE]
      BY <2>7, Lock DEF HoldInv
    <3>2. lockfile.pid = q /\ lockfile.stamped
      BY <3>1
    <3>3. Alive(q)
      BY <2>7 DEF Alive, Holding, At
    <3>4. QED
      BY <1>3, <3>2, <3>3
  <2>8. QED
    BY <1>1, <2>1, <2>4, <2>5, <2>6, <2>7, GoOn
<1>4. QED
  BY <1>2, <1>3

LEMMA CheckEmptyKeeps ==
  ASSUME IInv, Watch, NEW p \in Pids, CheckEmpty(p)
  PROVE  IInv'
<1>1. /\ TypeOK /\ ProcessInv(p) /\ At(p, "check") /\ UNCHANGED <<disk, archive, counters>>
      /\ UNCHANGED <<disk, archive, writes>> /\ UNCHANGED <<wipes, crashes>>
  BY DEF IInv, CheckEmpty, counters
<1>2. Is(p, "restore") /\ ~At(p, "close") /\ proc[p].next = 1
  BY <1>1 DEF ProcessInv, At, Restoring
<1>3. CASE Quit(p)
  BY <1>1, <1>2, <1>3, QuitKeeps
<1>4. CASE Go(p, "extract")
  <2>1. Moved(p) /\ Keeps(p) /\ proc'[p].pc = "extract" /\ "extract" \in Steps
    BY <1>1, <1>4, GoTypes DEF TypeOK, Steps
  <2>2. ProcessInv(p)'
    BY <1>1, <1>2, <2>1
       DEF ProcessInv, HasDatabase, Alive, At, Is, Acquiring, BackingUp, Moving, Restoring, Written,
           Keeps, disk
  <2>3. Holding(p)' => Holding(p)
    BY <1>1, <2>1 DEF Holding, At, Keeps
  <2>4. SnapshotInv(p)'
    BY <2>1, SnapshotLeft DEF Moving
  <2>5. ~("extract" \in {"remove", "rmdir", "rename", "close"}) /\ "extract" # "stamp"
    OBVIOUS
  <2>6. QED
    BY <1>1, <1>4, <2>1, <2>2, <2>3, <2>4, <2>5, GoOn
<1>5. QED
  BY <1>3, <1>4 DEF CheckEmpty

LEMMA ExtractKeeps ==
  ASSUME IInv, Watch, NEW p \in Pids, Extract(p)
  PROVE  IInv'
<1>1. /\ TypeOK /\ WrittenInv /\ ProcessInv(p) /\ At(p, "extract") /\ UNCHANGED <<disk, archive, counters>>
      /\ UNCHANGED <<disk, archive, writes>> /\ lockfile' = lockfile
      /\ wipes' \in Nat /\ crashes' \in Nat /\ writes' = writes /\ Content' = Content
  BY DEF IInv, Extract, counters, TypeOK, disk, Content
<1>2. Is(p, "restore") /\ ~At(p, "close") /\ proc[p].next = 1
  BY <1>1 DEF ProcessInv, At, Restoring
<1>3. CASE Quit(p)
  BY <1>1, <1>2, <1>3, QuitKeeps
<1>4. CASE ~Quit(p)
  <2>1. /\ Restorable(archive)
        /\ proc' = [proc EXCEPT ![p].pc = "swap", ![p].content = archive.content]
    BY <1>4 DEF Extract
  <2> DEFINE r == [proc[p] EXCEPT !.pc = "swap", !.content = archive.content]
  <2>2. proc \in [Pids -> Process] /\ proc[p] \in Process /\ archive.content \in Contents
    BY <1>1 DEF TypeOK
  <2>3. /\ r \in Process /\ r.pc = "swap" /\ r.kind = proc[p].kind
        /\ r.deferred = proc[p].deferred /\ r.next = proc[p].next
        /\ r.manifest = proc[p].manifest /\ r.content = archive.content
    BY <2>2 DEF Process, Steps
  <2>4. proc' = [proc EXCEPT ![p] = r]
    BY <2>1, <2>2
  <2> HIDE DEF r
  <2>5. Moved(p) /\ proc'[p] = r
    BY <2>2, <2>3, <2>4 DEF Moved
  <2>6. archive.content = archive.manifest /\ archive.content \in Written
    BY <1>1, <2>1 DEF Restorable, WrittenInv
  <2>7. ProcessInv(p)'
    BY <1>1, <1>2, <2>3, <2>5, <2>6
       DEF ProcessInv, HasDatabase, Alive, At, Is, Acquiring, BackingUp, Moving, Restoring, Written
  <2>8. Holding(p)' => Holding(p)
    BY <1>1, <2>3, <2>5 DEF Holding, At
  <2>9. ~Contending(p)' /\ ~At(p, "stamp")'
    BY <2>3, <2>5 DEF Contending, At
  <2>10. ASSUME ~overlapped'
         PROVE  HoldInv(p)' /\ SnapshotInv(p)'
    <3>1. HoldInv(p) /\ ArchiveInv
      BY <2>10, Lock
    <3>2. HoldInv(p)'
      BY <1>1, <2>8, <2>9, <3>1 DEF HoldInv
    <3>3. Content \in [Files -> Nat]
      BY <1>1, ContentTypes
    <3>4. seen'[p] = See(p)
      BY <1>1, <3>3, SeenTypes
    <3>5. seen'[p] = archive.seen
      BY <1>1, <2>3, <2>5, <3>4 DEF See, At
    <3>6. SnapshotInv(p)'
      BY <2>3, <2>5, <2>6, <3>1, <3>5 DEF SnapshotInv, ArchiveInv, At
    <3>7. QED
      BY <3>2, <3>6
  <2>11. QED
    BY <1>1, <2>5, <2>7, <2>8, <2>10, QuietStep
<1>5. QED
  BY <1>3, <1>4

\* The step on to the next file, or out of the loop.
LEMMA NextFileTypes ==
  ASSUME TypeOK, NEW p \in Pids
  PROVE  /\ Walk[proc[p].next] \in Files /\ NextFile(p) \in 1..Len(Walk)
         /\ proc[p].next \in 1..Len(Walk)
         /\ proc[p].next = Len(Walk) => NextFile(p) = 1
         /\ proc[p].next # Len(Walk) => NextFile(p) = proc[p].next + 1
BY FileFacts DEF TypeOK, Process, NextFile

LEMMA HashTypes ==
  ASSUME TypeOK, WrittenInv, NEW p \in Pids, HashFile(p)
  PROVE  /\ Moved(p) /\ proc'[p].kind = proc[p].kind /\ proc'[p].deferred = proc[p].deferred
         /\ proc'[p].next = NextFile(p)
         /\ proc'[p].pc = IF proc[p].next = Len(Walk) THEN "copy" ELSE "hash"
         /\ proc'[p].manifest = [proc[p].manifest EXCEPT ![Walk[proc[p].next]]
                                    = files[Walk[proc[p].next]]]
<1> DEFINE f == Walk[proc[p].next]
           m == [proc[p].manifest EXCEPT ![f] = files[f]]
           step == AfterLast(p, "copy")
           r == [proc[p] EXCEPT !.manifest = m, !.twice = leftover, !.pc = step, !.next = NextFile(p)]
<1>1. /\ proc \in [Pids -> Process] /\ proc[p] \in Process /\ leftover \in BOOLEAN
      /\ files \in [Files -> Nat] /\ f \in Files /\ NextFile(p) \in 1..Len(Walk)
  BY NextFileTypes DEF TypeOK
<1>2. step = (IF proc[p].next = Len(Walk) THEN "copy" ELSE "hash") /\ step \in Steps
  BY DEF AfterLast, HashFile, At, Steps
<1>3. m \in Contents
  BY <1>1 DEF Contents, Process
<1>4. proc' = [proc EXCEPT ![p] = r]
  <2>1. proc' = [proc EXCEPT ![p].manifest[f] = files[f], ![p].twice = leftover,
                             ![p].pc = step, ![p].next = NextFile(p)]
    BY DEF HashFile
  <2> HIDE DEF step
  <2>2. QED
    BY <1>1, <2>1
<1> HIDE DEF m, step, f
<1>5. /\ r \in Process /\ r.kind = proc[p].kind /\ r.deferred = proc[p].deferred
      /\ r.next = NextFile(p) /\ r.pc = step /\ r.manifest = m
  BY <1>1, <1>2, <1>3 DEF Process
<1> HIDE DEF r
<1>6. Moved(p) /\ proc'[p] = r
  BY <1>1, <1>4, <1>5 DEF Moved
<1>7. QED
  BY <1>2, <1>5, <1>6 DEF m, f

LEMMA HashKeeps ==
  ASSUME IInv, Watch, NEW p \in Pids, HashFile(p)
  PROVE  IInv'
<1> DEFINE f == Walk[proc[p].next]
           m == [proc[p].manifest EXCEPT ![f] = files[f]]
<1>1. /\ TypeOK /\ WrittenInv /\ ProcessInv(p) /\ At(p, "hash")
      /\ UNCHANGED <<disk, archive, writes>> /\ lockfile' = lockfile /\ files' = files
      /\ wipes' \in Nat /\ crashes' \in Nat /\ writes' = writes /\ Content' = Content
  BY DEF IInv, HashFile, counters, TypeOK, disk, Content
<1>2. Is(p, "backup") /\ proc[p].deferred
  BY <1>1 DEF ProcessInv, At, BackingUp
<1>3. /\ Moved(p) /\ proc'[p].kind = proc[p].kind /\ proc'[p].deferred = proc[p].deferred
      /\ proc'[p].next = NextFile(p) /\ proc'[p].manifest = m
      /\ proc'[p].pc = IF proc[p].next = Len(Walk) THEN "copy" ELSE "hash"
  BY <1>1, HashTypes
<1>4. f \in Files /\ files \in Written /\ proc[p].manifest \in Written /\ writes \in Nat
  BY <1>1, NextFileTypes DEF WrittenInv, ProcessInv, TypeOK
<1>5. /\ m \in Written /\ m[f] = files[f]
      /\ \A g \in Files \ {f} : m[g] = proc[p].manifest[g]
  BY <1>4 DEF Written
<1> HIDE DEF m, f
<1>6. ProcessInv(p)'
  <2>1. proc'[p].pc = "copy" \/ proc'[p].pc = "hash"
    BY <1>3
  <2>2. m \in Written'
    BY <1>1, <1>5 DEF Written
  <2>3. QED
    BY <1>2, <1>3, <2>1, <2>2
       DEF ProcessInv, HasDatabase, Alive, At, Is, Acquiring, BackingUp, Moving, Restoring
<1>7. Holding(p) /\ ~Contending(p)' /\ ~At(p, "stamp")'
  BY <1>1, <1>3 DEF Holding, Contending, At
<1>8. ASSUME ~overlapped', seen'[p] # {}
      PROVE  SnapshotInv(p)'
  <2>1. Content \in [Files -> Nat] /\ \A g \in Files \ {Database} : Content[g] = files[g]
    BY <1>1, ContentTypes
  <2>2. seen'[p] = See(p)
    BY <1>1, <2>1, SeenTypes
  <2>3. seen[p] # {} /\ seen'[p] = seen[p] \cup {Content}
    BY <1>1, <1>3, <1>8, <2>2 DEF See, At
  <2>4. HashInv(p)
    <3>1. SnapshotInv(p)
      BY <1>8, Lock
    <3>2. QED
      BY <1>1, <2>3, <3>1 DEF SnapshotInv
  <2> DEFINE H == Hashed(p) \cup {f}
  <2>5. H \subseteq Files
    BY <1>1, <1>4, FileFacts, NextFileTypes DEF Hashed
  <2>6. \A g \in H \ {Database} : m[g] = files[g]
    BY <1>5, <2>4, <2>5 DEF HashInv
  <2>7. Database \in H => [files EXCEPT ![Database] = m[Database]] \in seen'[p]
    <3>1. CASE f = Database
      <4>1. [files EXCEPT ![Database] = m[Database]] = files
        BY <1>4, <1>5, <3>1 DEF Written
      <4>2. QED
        BY <2>3, <2>4, <4>1 DEF HashInv
    <3>2. CASE f # Database /\ Database \in Hashed(p)
      <4>1. m[Database] = proc[p].manifest[Database]
        BY <1>5, <3>2, FileFacts
      <4>2. QED
        BY <2>3, <2>4, <3>2, <4>1 DEF HashInv
    <3>3. QED
      BY <3>1, <3>2
  <2>8. CASE proc[p].next = Len(Walk)
    <3>1. proc'[p].pc = "copy"
      BY <1>3, <2>8
    <3>2. ASSUME NEW g \in Files
          PROVE  g \in H
      <4>1. PICK i \in 1..Len(Walk) : g = Walk[i]
        BY FileFacts
      <4>2. i = proc[p].next \/ i \in 1..(proc[p].next - 1)
        BY <2>8, FileFacts
      <4>3. QED
        BY <4>1, <4>2 DEF Hashed, f
    <3>3. m = [files EXCEPT ![Database] = m[Database]]
      BY <1>4, <1>5, <2>6, <3>2, FileFacts DEF Written
    <3>4. m \in seen'[p]
      BY <2>7, <3>2, <3>3, FileFacts
    <3>5. QED
      BY <1>3, <3>1, <3>4 DEF SnapshotInv, At, Moving
  <2>9. CASE proc[p].next # Len(Walk)
    <3>1. proc'[p].pc = "hash" /\ proc'[p].next = proc[p].next + 1 /\ proc[p].next \in 1..Len(Walk)
      BY <1>1, <1>3, <2>9, NextFileTypes
    <3>2. Hashed(p)' = H
      <4>1. Hashed(p)' = {Walk[i] : i \in 1..proc[p].next}
        BY <3>1, FileFacts DEF Hashed
      <4>2. 1..proc[p].next = (1..(proc[p].next - 1)) \cup {proc[p].next}
        BY <3>1, FileFacts
      <4>3. QED
        BY <4>1, <4>2 DEF Hashed, f
    <3>3. files' \in seen'[p]
      BY <1>1, <2>3, <2>4 DEF HashInv
    <3>4. \A s \in seen'[p] : \A g \in Files \ {Database} : s[g] = files'[g]
      BY <1>1, <2>1, <2>3, <2>4 DEF HashInv
    <3>5. HashInv(p)'
      BY <1>1, <1>3, <2>6, <2>7, <3>2, <3>3, <3>4 DEF HashInv
    <3>6. QED
      BY <3>1, <3>5 DEF SnapshotInv, At, Moving
  <2>10. QED
    BY <2>8, <2>9
<1>9. ASSUME ~overlapped'
      PROVE  HoldInv(p)' /\ SnapshotInv(p)'
  <2>1. HoldInv(p)
    BY <1>9, Lock
  <2>2. HoldInv(p)'
    BY <1>1, <1>7, <2>1 DEF HoldInv
  <2>3. SnapshotInv(p)'
    BY <1>8, <1>9 DEF SnapshotInv
  <2>4. QED
    BY <2>2, <2>3
<1>10. QED
  BY <1>1, <1>3, <1>6, <1>7, <1>9, QuietStep

LEMMA CopyTypes ==
  ASSUME TypeOK, NEW p \in Pids, CopyFile(p), ~Quit(p)
  PROVE  /\ Moved(p) /\ proc'[p].kind = proc[p].kind /\ proc'[p].deferred = proc[p].deferred
         /\ proc'[p].next = NextFile(p) /\ proc'[p].manifest = proc[p].manifest
         /\ proc'[p].pc = IF proc[p].next = Len(Walk) THEN "publish" ELSE "copy"
<1> DEFINE f == Walk[proc[p].next]
           step == AfterLast(p, "publish")
<1>1. /\ proc \in [Pids -> Process] /\ proc[p] \in Process
      /\ files \in [Files -> Nat] /\ f \in Files /\ NextFile(p) \in 1..Len(Walk)
  BY NextFileTypes DEF TypeOK
<1>2. step = (IF proc[p].next = Len(Walk) THEN "publish" ELSE "copy") /\ step \in Steps
  BY DEF AfterLast, CopyFile, At, Steps
<1>3. PICK bytes \in IF Others(p) THEN {files[f], Torn} ELSE {files[f]} :
        proc' = [proc EXCEPT ![p].content[f] = IF proc[p].manifest[f] = 0 THEN 0 ELSE bytes,
                             ![p].pc = step, ![p].next = NextFile(p)]
  BY DEF CopyFile
<1> DEFINE b == IF proc[p].manifest[f] = 0 THEN 0 ELSE bytes
           c == [proc[p].content EXCEPT ![f] = b]
           r == [proc[p] EXCEPT !.content = c, !.pc = step, !.next = NextFile(p)]
<1>4. b \in Nat \cup {Torn}
  BY <1>1
<1>5. proc' = [proc EXCEPT ![p] = r]
  <2>1. proc' = [proc EXCEPT ![p].content[f] = b, ![p].pc = step, ![p].next = NextFile(p)]
    BY <1>3
  <2> HIDE DEF step, b, f
  <2>2. QED
    BY <1>1, <2>1
<1> HIDE DEF b, step, f
<1>6. c \in Contents
  BY <1>1, <1>4 DEF Contents, Process
<1> HIDE DEF c
<1>7. /\ r \in Process /\ r.kind = proc[p].kind /\ r.deferred = proc[p].deferred
      /\ r.next = NextFile(p) /\ r.pc = step /\ r.manifest = proc[p].manifest
  BY <1>1, <1>2, <1>6 DEF Process
<1> HIDE DEF r
<1>8. Moved(p) /\ proc'[p] = r
  BY <1>1, <1>5, <1>7 DEF Moved
<1>9. QED
  BY <1>2, <1>7, <1>8

LEMMA CopyKeeps ==
  ASSUME IInv, Watch, NEW p \in Pids, CopyFile(p)
  PROVE  IInv'
<1>1. /\ TypeOK /\ WrittenInv /\ ProcessInv(p) /\ At(p, "copy") /\ UNCHANGED <<disk, archive, counters>>
      /\ UNCHANGED <<disk, archive, writes>> /\ lockfile' = lockfile /\ files' = files
      /\ wipes' \in Nat /\ crashes' \in Nat /\ writes' = writes /\ Content' = Content
  BY DEF IInv, CopyFile, counters, TypeOK, disk, Content
<1>2. Is(p, "backup") /\ proc[p].deferred /\ ~At(p, "close")
  BY <1>1 DEF ProcessInv, At, BackingUp
<1>3. CASE Quit(p)
  BY <1>1, <1>2, <1>3, QuitKeeps
<1>4. CASE ~Quit(p)
  <2>1. /\ Moved(p) /\ proc'[p].kind = proc[p].kind /\ proc'[p].deferred = proc[p].deferred
        /\ proc'[p].next = NextFile(p) /\ proc'[p].manifest = proc[p].manifest
        /\ proc'[p].pc = IF proc[p].next = Len(Walk) THEN "publish" ELSE "copy"
    BY <1>1, <1>4, CopyTypes
  <2>2. proc[p].next = Len(Walk) => proc'[p].next = 1
    BY <1>1, <2>1, NextFileTypes
  <2>3. ProcessInv(p)'
    <3>1. proc'[p].pc = "copy" \/ (proc'[p].pc = "publish" /\ proc'[p].next = 1)
      BY <2>1, <2>2
    <3>2. proc[p].manifest \in Written'
      BY <1>1 DEF Written, ProcessInv
    <3>3. QED
      BY <1>2, <2>1, <3>1, <3>2
         DEF ProcessInv, HasDatabase, Alive, At, Is, Acquiring, BackingUp, Moving, Restoring
  <2>4. Holding(p) /\ ~Contending(p)' /\ ~At(p, "stamp")'
    BY <1>1, <2>1 DEF Holding, Contending, At
  <2>5. ASSUME ~overlapped'
        PROVE  HoldInv(p)' /\ SnapshotInv(p)'
    <3>1. HoldInv(p) /\ SnapshotInv(p)
      BY <2>5, Lock
    <3>2. HoldInv(p)'
      BY <1>1, <2>4, <3>1 DEF HoldInv
    <3>3. Content \in [Files -> Nat]
      BY <1>1, ContentTypes
    <3>4. seen'[p] = See(p)
      BY <1>1, <3>3, SeenTypes
    <3>5. seen[p] \subseteq seen'[p] /\ (seen[p] = {} => seen'[p] = {})
      BY <1>1, <2>1, <3>4 DEF See, At
    <3>6. SnapshotInv(p)'
      BY <1>1, <2>1, <3>1, <3>5 DEF SnapshotInv, At, Moving
    <3>7. QED
      BY <3>2, <3>6
  <2>6. QED
    BY <1>1, <2>1, <2>3, <2>4, <2>5, QuietStep
<1>5. QED
  BY <1>3, <1>4
----------------------------------------------------------------------------
\* A step of p that touches no file but the lock.
LEMMA FilesStay ==
  ASSUME IInv, Watch, NEW p \in Pids, Moved(p),
         UNCHANGED <<files, wal, leftover, archive, counters>>,
         dir' \in BOOLEAN, ~dir' => Empty /\ lockfile' = NoFile,
         lockfile' \in {NoFile} \cup [pid : Pids, stamped : BOOLEAN],
         ProcessInv(p)',
         ~overlapped' => /\ \A q \in Pids : HoldInv(q)'
                         /\ SnapshotInv(p)'
  PROVE  IInv'
<1>1. TypeOK /\ WrittenInv /\ DiskInv /\ \A q \in Pids : ProcessInv(q)
  BY DiskTypes DEF IInv
<1>2. /\ Content' = Content /\ files' = files /\ wal' = wal /\ leftover' = leftover
      /\ writes' = writes /\ wipes' = wipes /\ crashes' = crashes /\ (Empty' <=> Empty)
  BY DEF counters, Content, Empty
<1>3. DiskInv'
  BY <1>1, <1>2 DEF DiskInv, Written
<1>4. ArchiveTyped' /\ (~overlapped' => ArchiveInv')
  BY <1>1, <1>2, ArchiveStays DEF DiskInv
<1>5. \A q \in Pids : ProcessInv(q)'
  BY <1>1, <1>2, ProcessStays DEF DiskInv
<1>6. ASSUME ~overlapped', NEW q \in Pids \ {p}
      PROVE  SnapshotInv(q)'
  <2>1. SnapshotInv(q)
    BY <1>6, Lock
  <2>2. Content' \in [Files -> Nat] /\ files' \in [Files -> Nat]
    BY <1>1, <1>2, ContentTypes DEF TypeOK
  <2>3. QED
    BY <1>1, <1>2, <2>1, <2>2, SnapshotStays
<1>7. proc' \in [Pids -> Process]
  BY DEF Moved
<1>8. QED
  BY <1>3, <1>4, <1>5, <1>6, <1>7, Assembled

LEMMA LockNames ==
  ASSUME NEW p \in Pids, NEW q \in Pids
  PROVE  /\ [pid |-> p, stamped |-> TRUE] # NoFile /\ [pid |-> p, stamped |-> FALSE] # NoFile
         /\ [pid |-> p, stamped |-> TRUE] # [pid |-> q, stamped |-> FALSE]
         /\ [pid |-> p, stamped |-> TRUE] = [pid |-> q, stamped |-> TRUE] => p = q
<1>1. p # Unlocked
  BY UnlockedAssumption
<1>2. QED
  BY <1>1 DEF NoFile

\* Whoever gives up the lock, or removes a stale one, is the only one that could hold it.
LEMMA Released ==
  ASSUME IInv, Watch, ~overlapped', NEW p \in Pids, Moved(p),
         Holding(p) \/ (Contending(p) /\ proc[p].pc \in {"remove", "close"}),
         ~Holding(p)', ~At(p, "stamp")'
  PROVE  \A q \in Pids : HoldInv(q)'
<1>1. /\ \A q \in Pids : HoldInv(q)
      /\ \A q, r \in Pids : Holding(q) /\ Holding(r) => q = r
      /\ \A q, r \in Pids : Contending(q) /\ Contending(r) => q = r
  BY Lock
<1>2. ASSUME NEW q \in Pids \ {p}
      PROVE  ~Holding(q) /\ ~At(q, "stamp")
  <2>1. CASE Holding(p)
    <3>1. lockfile = [pid |-> p, stamped |-> TRUE]
      BY <1>1, <2>1 DEF HoldInv
    <3>2. At(q, "stamp") => lockfile = [pid |-> q, stamped |-> FALSE]
      BY <1>1 DEF HoldInv
    <3>3. QED
      BY <1>1, <2>1, <3>1, <3>2, LockNames
  <2>2. CASE Contending(p) /\ proc[p].pc \in {"remove", "close"}
    <3>1. ~Holding(q)
      BY <1>1, <2>2 DEF HoldInv
    <3>2. At(q, "stamp") => Contending(q)
      BY DEF At, Contending
    <3>3. QED
      BY <1>1, <2>2, <3>1, <3>2
  <2>3. QED
    BY <2>1, <2>2
<1>3. \A q \in Pids : ~Holding(q)' /\ ~At(q, "stamp")'
  BY <1>2 DEF Moved, Holding, At, Is
<1>4. QED
  BY <1>3 DEF HoldInv

LEMMA MakeDirKeeps ==
  ASSUME IInv, Watch, NEW p \in Pids, MakeDir(p)
  PROVE  IInv'
<1>1. /\ TypeOK /\ ProcessInv(p) /\ At(p, "mkdir") /\ dir' /\ Go(p, "create")
      /\ UNCHANGED <<files, wal, leftover, archive, counters>> /\ lockfile' = lockfile
      /\ files' = files /\ writes' = writes /\ dir' \in BOOLEAN
      /\ lockfile' \in {NoFile} \cup [pid : Pids, stamped : BOOLEAN]
  BY DEF IInv, MakeDir, counters, TypeOK
<1>2. Moved(p) /\ Keeps(p) /\ proc'[p].pc = "create"
  BY <1>1, GoTypes DEF TypeOK, Steps
<1>3. ~Is(p, "admin") /\ ~proc[p].deferred /\ proc[p].next = 1
  BY <1>1 DEF ProcessInv, At, Acquiring
<1>4. ProcessInv(p)'
  BY <1>1, <1>2, <1>3
     DEF ProcessInv, HasDatabase, Alive, At, Is, Acquiring, BackingUp, Moving, Restoring, Written, Keeps
<1>5. ~Holding(p)' /\ ~At(p, "stamp")' /\ proc'[p].pc \notin {"remove", "rmdir", "rename", "close"}
  BY <1>2 DEF Holding, At
<1>6. ASSUME ~overlapped', NEW q \in Pids
      PROVE  HoldInv(q)'
  <2>1. \A r \in Pids : HoldInv(r)
    BY <1>6, Lock
  <2>2. CASE q = p
    BY <1>5, <2>2 DEF HoldInv
  <2>3. CASE q # p
    BY <1>1, <1>2, <1>5, <2>1, <2>3, HoldStays
  <2>4. QED
    BY <2>2, <2>3
<1>7. SnapshotInv(p)'
  BY <1>2, SnapshotLeft DEF Moving
<1>8. QED
  BY <1>1, <1>2, <1>4, <1>6, <1>7, FilesStay

LEMMA CloseKeeps ==
  ASSUME IInv, Watch, NEW p \in Pids, Close(p)
  PROVE  IInv'
<1>1. /\ TypeOK /\ ProcessInv(p) /\ At(p, "close") /\ Exit(p)
      /\ UNCHANGED <<files, wal, leftover, archive, counters>> /\ lockfile' = NoFile
      /\ dir' = dir /\ dir' \in BOOLEAN /\ (~dir => Empty) /\ writes' \in Nat
  BY DEF IInv, Close, counters, TypeOK
<1>2. Contending(p) /\ proc[p].pc \in {"remove", "close"}
  BY <1>1 DEF Contending, At, ProcessInv
<1>3. Moved(p) /\ ProcessInv(p)' /\ ~Holding(p)' /\ ~At(p, "stamp")' /\ SnapshotInv(p)'
  BY <1>1, ExitStep DEF At
<1>4. ~overlapped' => \A q \in Pids : HoldInv(q)'
  BY <1>2, <1>3, Released
<1>5. QED
  BY <1>1, <1>3, <1>4, FilesStay

LEMMA RemoveStaleKeeps ==
  ASSUME IInv, Watch, NEW p \in Pids, RemoveStale(p)
  PROVE  IInv'
<1>1. /\ TypeOK /\ ProcessInv(p) /\ At(p, "remove")
      /\ proc' = [proc EXCEPT ![p].pc = "create", ![p].retry = TRUE]
      /\ UNCHANGED <<files, wal, leftover, archive, counters>> /\ lockfile' = NoFile
      /\ files' = files /\ writes' = writes
      /\ dir' = dir /\ dir' \in BOOLEAN /\ (~dir => Empty)
  BY DEF IInv, RemoveStale, counters, TypeOK
<1>2. Moved(p) /\ Keeps(p) /\ proc'[p].pc = "create"
  <2> DEFINE r == [proc[p] EXCEPT !.pc = "create", !.retry = TRUE]
  <2>1. proc \in [Pids -> Process] /\ proc[p] \in Process
    BY <1>1 DEF TypeOK
  <2>2. /\ r \in Process /\ r.pc = "create" /\ r.kind = proc[p].kind /\ r.deferred = proc[p].deferred
        /\ r.next = proc[p].next /\ r.manifest = proc[p].manifest /\ r.content = proc[p].content
    BY <2>1 DEF Process, Steps
  <2>3. proc' = [proc EXCEPT ![p] = r]
    BY <1>1, <2>1
  <2> HIDE DEF r
  <2>4. QED
    BY <2>1, <2>2, <2>3 DEF Moved, Keeps
<1>3. ~Is(p, "admin") /\ ~proc[p].deferred /\ proc[p].next = 1
  BY <1>1 DEF ProcessInv, At, Acquiring
<1>4. ProcessInv(p)'
  BY <1>1, <1>2, <1>3
     DEF ProcessInv, HasDatabase, Alive, At, Is, Acquiring, BackingUp, Moving, Restoring, Written, Keeps
<1>5. Contending(p) /\ proc[p].pc \in {"remove", "close"} /\ ~Holding(p)' /\ ~At(p, "stamp")'
  BY <1>1, <1>2 DEF Contending, Holding, At
<1>6. ~overlapped' => \A q \in Pids : HoldInv(q)'
  BY <1>2, <1>5, Released
<1>7. SnapshotInv(p)'
  BY <1>2, SnapshotLeft DEF Moving
<1>8. QED
  BY <1>1, <1>2, <1>4, <1>6, <1>7, FilesStay

LEMMA CreateKeeps ==
  ASSUME IInv, Watch, NEW p \in Pids, Create(p)
  PROVE  IInv'
<1>1. /\ TypeOK /\ ProcessInv(p) /\ At(p, "create") /\ dir' = dir /\ dir \in BOOLEAN
      /\ (~dir => Empty /\ lockfile = NoFile) /\ writes' = writes /\ writes' \in Nat
      /\ wipes' \in Nat /\ crashes' \in Nat /\ files' = files
      /\ UNCHANGED <<files, wal, leftover, archive, counters>>
  BY DEF IInv, Create, counters, TypeOK
<1>2. ~Is(p, "admin") /\ ~proc[p].deferred /\ proc[p].next = 1 /\ Contending(p)
  BY <1>1 DEF ProcessInv, At, Acquiring, Contending
<1>3. CASE Exit(p) /\ UNCHANGED lockfile
  <2>1. UNCHANGED <<disk, archive, writes>>
    BY <1>1, <1>3 DEF disk
  <2>2. QED
    BY <1>1, <1>3, <2>1, ExitStep, QuietStep
<1>4. CASE Go(p, "inspect") /\ UNCHANGED lockfile
  <2>1. UNCHANGED <<disk, archive, writes>> /\ UNCHANGED <<wipes, crashes>>
    BY <1>1, <1>4 DEF disk, counters
  <2>2. Moved(p) /\ Keeps(p) /\ proc'[p].pc = "inspect" /\ "inspect" \in Steps
    BY <1>1, <1>4, GoTypes DEF TypeOK, Steps
  <2>3. ProcessInv(p)'
    BY <1>1, <1>2, <2>2
       DEF ProcessInv, HasDatabase, Alive, At, Is, Acquiring, BackingUp, Moving, Restoring, Written, Keeps
  <2>4. ~Holding(p)'
    BY <2>2 DEF Holding, At
  <2>5. SnapshotInv(p)'
    BY <2>2, SnapshotLeft DEF Moving
  <2>6. ~("inspect" \in {"remove", "rmdir", "rename", "close"}) /\ "inspect" # "stamp"
    OBVIOUS
  <2>7. QED
    BY <1>4, <2>1, <2>2, <2>3, <2>4, <2>5, <2>6, GoOn
<1>5. CASE dir /\ lockfile = NoFile /\ Go(p, "stamp") /\ lockfile' = [pid |-> p, stamped |-> FALSE]
  <2>1. Moved(p) /\ Keeps(p) /\ proc'[p].pc = "stamp"
    BY <1>1, <1>5, GoTypes DEF TypeOK, Steps
  <2>2. ProcessInv(p)'
    BY <1>1, <1>2, <2>1
       DEF ProcessInv, HasDatabase, Alive, At, Is, Acquiring, BackingUp, Moving, Restoring, Written, Keeps
  <2>3. ~Holding(p)' /\ proc'[p].pc \notin {"remove", "rmdir", "rename", "close"}
    BY <2>1 DEF Holding, At
  <2>4. SnapshotInv(p)'
    BY <2>1, SnapshotLeft DEF Moving
  <2>5. ASSUME ~overlapped', NEW q \in Pids
        PROVE  HoldInv(q)'
    <3>1. /\ \A r \in Pids : HoldInv(r)
          /\ \A r, s \in Pids : Contending(r) /\ Contending(s) => r = s
      BY <2>5, Lock
    <3>2. ASSUME NEW r \in Pids
          PROVE  ~Holding(r)'
      <4>1. ~Holding(r)
        BY <1>5, <3>1, LockNames DEF HoldInv
      <4>2. QED
        BY <2>1, <2>3, <4>1 DEF Moved, Holding, At, Is
    <3>3. At(q, "stamp")' => q = p
      <4>1. At(q, "stamp") => Contending(q)
        BY DEF At, Contending
      <4>2. QED
        BY <1>2, <2>1, <3>1, <4>1 DEF Moved, At
    <3>4. QED
      BY <1>5, <3>2, <3>3 DEF HoldInv
  <2>6. lockfile' \in [pid : Pids, stamped : BOOLEAN]
    BY <1>5
  <2>7. dir' \in BOOLEAN /\ dir'
    BY <1>1, <1>5
  <2>8. QED
    BY <1>1, <2>1, <2>2, <2>4, <2>5, <2>6, <2>7, FilesStay
<1>6. QED
  BY <1>3, <1>4, <1>5 DEF Create

LEMMA StampKeeps ==
  ASSUME IInv, Watch, NEW p \in Pids, Stamp(p)
  PROVE  IInv'
<1>1. /\ TypeOK /\ ProcessInv(p) /\ At(p, "stamp") /\ dir' = dir /\ dir' \in BOOLEAN
      /\ (~dir => Empty /\ lockfile = NoFile) /\ writes' = writes /\ files' = files
      /\ lockfile' = (IF lockfile.pid = p THEN [lockfile EXCEPT !.stamped = TRUE] ELSE lockfile)
      /\ lockfile \in {NoFile} \cup [pid : Pids, stamped : BOOLEAN]
      /\ UNCHANGED <<files, wal, leftover, archive, counters>>
  BY DEF IInv, Stamp, counters, TypeOK
<1>2. /\ proc[p].kind \in {"serve", "backup", "restore"} /\ ~proc[p].deferred /\ proc[p].next = 1
      /\ Contending(p)
  BY <1>1 DEF ProcessInv, At, Is, Acquiring, Contending, TypeOK, Process, Kinds
<1> DEFINE step == Entered(proc[p].kind)
<1>3. /\ step \in {"running", "checkpoint", "check"}
      /\ step = "running" => proc[p].kind = "serve"
      /\ step = "checkpoint" => proc[p].kind = "backup"
      /\ step = "check" => proc[p].kind = "restore"
  <2>1. CASE proc[p].kind = "serve"
    BY <2>1 DEF Entered
  <2>2. CASE proc[p].kind = "backup"
    BY <2>2 DEF Entered
  <2>3. CASE proc[p].kind = "restore"
    BY <2>3 DEF Entered
  <2> HIDE DEF step
  <2>4. QED
    BY <1>2, <2>1, <2>2, <2>3
<1>4. /\ Moved(p) /\ proc'[p].pc = step /\ proc'[p].kind = proc[p].kind /\ proc'[p].deferred
      /\ proc'[p].next = proc[p].next /\ proc'[p].manifest = proc[p].manifest
  <2> DEFINE r == [proc[p] EXCEPT !.pc = step, !.deferred = TRUE, !.retry = FALSE]
  <2>1. proc' = [proc EXCEPT ![p].pc = step, ![p].deferred = TRUE, ![p].retry = FALSE]
    BY DEF Stamp
  <2> HIDE DEF step
  <2>2. proc \in [Pids -> Process] /\ proc[p] \in Process /\ step \in Steps
    BY <1>1, <1>3 DEF TypeOK, Steps
  <2>3. /\ r \in Process /\ r.pc = step /\ r.kind = proc[p].kind /\ r.deferred
        /\ r.next = proc[p].next /\ r.manifest = proc[p].manifest
    BY <2>2 DEF Process
  <2>4. proc' = [proc EXCEPT ![p] = r]
    BY <2>1, <2>2
  <2> HIDE DEF r
  <2>5. QED
    BY <2>2, <2>3, <2>4 DEF Moved
<1> HIDE DEF step
<1>5. ProcessInv(p)'
  <2>1. HasDatabase(p)' => HasDatabase(p)
    BY <1>1, <1>4 DEF HasDatabase, Alive, At
  <2>2. QED
    BY <1>1, <1>2, <1>3, <1>4, <2>1
       DEF ProcessInv, HasDatabase, Alive, At, Is, Acquiring, BackingUp, Moving, Restoring, Written
<1>6. ~Contending(p)' /\ ~At(p, "stamp")'
  BY <1>3, <1>4 DEF Contending, At
<1>7. SnapshotInv(p)'
  BY <1>3, <1>4, SnapshotLeft DEF Moving
<1>8. ASSUME ~overlapped', NEW q \in Pids
      PROVE  HoldInv(q)'
  <2>1. /\ \A r \in Pids : HoldInv(r)
        /\ \A r, s \in Pids : Contending(r) /\ Contending(s) => r = s
    BY <1>8, Lock
  <2>2. lockfile = [pid |-> p, stamped |-> FALSE] /\ lockfile' = [pid |-> p, stamped |-> TRUE]
    <3>1. lockfile = [pid |-> p, stamped |-> FALSE]
      BY <1>1, <2>1 DEF HoldInv
    <3>2. lockfile' = [lockfile EXCEPT !.stamped = TRUE]
      BY <1>1, <3>1
    <3>3. [lockfile EXCEPT !.stamped = TRUE] = [pid |-> p, stamped |-> TRUE]
      <4> DEFINE l == [lockfile EXCEPT !.stamped = TRUE]
      <4>1. lockfile \in [pid : Pids, stamped : BOOLEAN] /\ lockfile.pid = p
        BY <3>1
      <4>2. l \in [pid : Pids, stamped : BOOLEAN] /\ l.pid = p /\ l.stamped = TRUE
        BY <4>1
      <4> HIDE DEF l
      <4>3. l = [pid |-> p, stamped |-> TRUE]
        BY <4>2
      <4>4. QED
        BY <4>3 DEF l
    <3>4. QED
      BY <3>1, <3>2, <3>3
  <2>3. CASE q = p
    BY <1>6, <2>2, <2>3 DEF HoldInv
  <2>4. CASE q # p
    <3>1. ~Holding(q) /\ ~Contending(q)
      BY <1>2, <2>1, <2>2, <2>4, LockNames DEF HoldInv
    <3>2. ~Holding(q)' /\ ~Contending(q)'
      BY <1>4, <2>4, <3>1 DEF Moved, Holding, Contending, At, Is
    <3>3. At(q, "stamp")' => Contending(q)'
      BY DEF At, Contending
    <3>4. QED
      BY <3>2, <3>3 DEF HoldInv
  <2>5. QED
    BY <2>3, <2>4
<1>9. /\ lockfile' \in {NoFile} \cup [pid : Pids, stamped : BOOLEAN]
      /\ lockfile = NoFile => lockfile' = NoFile
  <2>1. NoFile.pid # p
    BY UnlockedAssumption DEF NoFile
  <2>2. CASE lockfile = NoFile
    BY <1>1, <2>1, <2>2
  <2>3. CASE lockfile \in [pid : Pids, stamped : BOOLEAN] /\ lockfile # NoFile
    <3>1. [lockfile EXCEPT !.stamped = TRUE] \in [pid : Pids, stamped : BOOLEAN]
      BY <2>3
    <3>2. QED
      BY <1>1, <2>3, <3>1
  <2>4. QED
    BY <1>1, <2>2, <2>3
<1>10. QED
  BY <1>1, <1>4, <1>5, <1>7, <1>8, <1>9, FilesStay

LEMMA SwapKeeps ==
  ASSUME IInv, Watch, NEW p \in Pids, Swap(p)
  PROVE  IInv'
<1> DEFINE step == IF dir THEN "rmdir" ELSE "rename"
<1>1. /\ TypeOK /\ ProcessInv(p) /\ At(p, "swap") /\ dir' = dir /\ dir' \in BOOLEAN
      /\ (~dir => Empty /\ lockfile = NoFile) /\ writes' = writes /\ files' = files
      /\ lockfile' = (IF dir /\ proc[p].deferred THEN NoFile ELSE lockfile)
      /\ lockfile \in {NoFile} \cup [pid : Pids, stamped : BOOLEAN]
      /\ Go(p, step) /\ step \in {"rmdir", "rename"} /\ (dir => step = "rmdir")
      /\ UNCHANGED <<files, wal, leftover, archive, counters>> /\ Content' = Content
  BY DEF IInv, Swap, counters, TypeOK, Content
<1> HIDE DEF step
<1>2. Moved(p) /\ Keeps(p) /\ proc'[p].pc = step
  BY <1>1, GoTypes DEF TypeOK, Steps
<1>3. Is(p, "restore") /\ proc[p].next = 1 /\ proc[p].content \in Written
  BY <1>1 DEF ProcessInv, At, Restoring, Moving
<1>4. ProcessInv(p)'
  BY <1>1, <1>2, <1>3
     DEF ProcessInv, HasDatabase, Alive, At, Is, Acquiring, BackingUp, Moving, Restoring, Written, Keeps
<1>5. ~Holding(p)' /\ ~At(p, "stamp")'
  BY <1>1, <1>2 DEF Holding, At
<1>6. ASSUME ~overlapped'
      PROVE  SnapshotInv(p)'
  <2>1. SnapshotInv(p)
    BY <1>6, Lock
  <2>2. Content' \in [Files -> Nat]
    BY <1>1, ContentTypes
  <2>3. seen'[p] = See(p)
    BY <1>1, <2>2, SeenTypes
  <2>4. seen'[p] = seen[p]
    BY <1>1, <1>2, <2>3 DEF See, At
  <2>5. QED
    BY <1>1, <1>2, <2>1, <2>4 DEF SnapshotInv, At, Moving, Keeps
<1>7. ASSUME ~overlapped', NEW q \in Pids
      PROVE  HoldInv(q)'
  <2>1. \A r \in Pids : HoldInv(r)
    BY <1>7, Lock
  <2>2. CASE proc[p].deferred
    <3>1. Holding(p)
      BY <1>1, <2>2 DEF Holding, At
    <3>2. QED
      BY <1>2, <1>5, <1>7, <3>1, Released
  <2>3. CASE ~proc[p].deferred
    <3>1. lockfile' = lockfile /\ ~Contending(p)'
      BY <1>1, <1>2, <2>3 DEF Contending, At, Keeps
    <3>2. CASE q = p
      BY <1>5, <3>1, <3>2 DEF HoldInv
    <3>3. CASE q # p
      BY <1>2, <1>5, <2>1, <3>1, <3>3, HoldStays
    <3>4. QED
      BY <3>2, <3>3
  <2>4. QED
    BY <2>2, <2>3
<1>8. QED
  BY <1>1, <1>2, <1>4, <1>6, <1>7, FilesStay

LEMMA StopKeeps ==
  ASSUME IInv, Watch, NEW p \in Pids, Stop(p)
  PROVE  IInv'
<1>1. /\ TypeOK /\ At(p, "running") /\ dir' = dir /\ dir' \in BOOLEAN
      /\ (~dir => Empty /\ lockfile = NoFile) /\ writes' \in Nat /\ Exit(p)
      /\ lockfile' = (IF Is(p, "serve") THEN NoFile ELSE lockfile)
      /\ lockfile \in {NoFile} \cup [pid : Pids, stamped : BOOLEAN]
      /\ UNCHANGED <<files, wal, leftover, archive, counters>>
  BY DEF IInv, Stop, counters, TypeOK
<1>2. /\ Moved(p) /\ ProcessInv(p)' /\ ~Holding(p)' /\ ~At(p, "stamp")' /\ HoldInv(p)'
      /\ SnapshotInv(p)'
  BY <1>1, ExitStep DEF At
<1>3. ASSUME ~overlapped', NEW q \in Pids
      PROVE  HoldInv(q)'
  <2>1. \A r \in Pids : HoldInv(r)
    BY <1>3, Lock
  <2>2. CASE Is(p, "serve")
    <3>1. Holding(p)
      BY <1>1, <2>2 DEF Holding
    <3>2. QED
      BY <1>2, <1>3, <3>1, Released
  <2>3. CASE ~Is(p, "serve")
    <3>1. lockfile' = lockfile
      BY <1>1, <2>3
    <3>2. CASE q = p
      BY <1>2, <3>2
    <3>3. CASE q # p
      BY <1>2, <2>1, <3>1, <3>3, HoldStays
    <3>4. QED
      BY <3>2, <3>3
  <2>4. QED
    BY <2>2, <2>3
<1>4. QED
  BY <1>1, <1>2, <1>3, FilesStay
----------------------------------------------------------------------------
\* A step of p that leaves the lock file alone.
LEMMA LockStays ==
  ASSUME IInv, Watch, NEW p \in Pids, Moved(p), lockfile' = lockfile,
         DiskInv', writes <= writes', files[Database] # 0 => files'[Database] # 0,
         ArchiveTyped', ProcessInv(p)', ~Holding(p)' \/ Holding(p),
         ~overlapped' =>
           /\ HoldInv(p)' /\ SnapshotInv(p)' /\ ArchiveInv'
           /\ \A q \in Pids \ {p} : At(q, "hash") /\ seen[q] # {} =>
                /\ \A f \in Files \ {Database} : files'[f] = files[f]
                /\ files' = files \/ files' = Content'
  PROVE  IInv'
<1>1. TypeOK /\ \A q \in Pids : ProcessInv(q)
  BY DEF IInv
<1>2. \A q \in Pids : ProcessInv(q)'
  BY <1>1, ProcessStays DEF DiskInv
<1>3. files' \in [Files -> Nat] /\ Content' \in [Files -> Nat]
  <2>1. files' \in [Files -> Nat] /\ wal' \in Nat
    BY DEF DiskInv, Written
  <2>2. QED
    BY <2>1, FileFacts DEF Content
<1>4. ASSUME ~overlapped', NEW q \in Pids
      PROVE  HoldInv(q)' /\ SnapshotInv(q)'
  <2>1. \A r \in Pids : HoldInv(r) /\ SnapshotInv(r)
    BY <1>4, Lock
  <2>2. CASE q = p
    BY <1>4, <2>2
  <2>3. CASE q # p
    <3>1. q \in Pids \ {p}
      BY <2>3
    <3>2. HoldInv(q)'
      BY <2>1, <3>1, HoldStays
    <3>3. SnapshotInv(q)'
      BY <1>1, <1>3, <1>4, <2>1, <3>1, SnapshotStays
    <3>4. QED
      BY <3>2, <3>3
  <2>4. QED
    BY <2>2, <2>3
<1>5. proc' \in [Pids -> Process]
  BY DEF Moved
<1>6. QED
  BY <1>2, <1>4, <1>5, Assembled

\* What a process that stays where it is relies on.
LEMMA StayHold ==
  ASSUME NEW p \in Pids, HoldInv(p), proc' = proc, lockfile' = lockfile
  PROVE  HoldInv(p)'
BY DEF HoldInv, Holding, Contending, At, Is

\* A command that has the database open has a directory to write to.
LEMMA DatabaseThere ==
  ASSUME IInv, NEW p \in Pids, HasDatabase(p)
  PROVE  files[Database] # 0 /\ dir
<1>1. TypeOK /\ files[Database] # 0 /\ (~dir => Empty) /\ dir \in BOOLEAN
  BY DEF IInv, TypeOK, ProcessInv
<1>2. Empty => files[Database] = 0
  BY <1>1, ContentTypes, FileFacts DEF Nothing
<1>3. QED
  BY <1>1, <1>2

\* Somebody who makes a backup is the one who works on the directory.
LEMMA HashingHolds ==
  ASSUME IInv, Watch, ~overlapped', NEW q \in Pids, At(q, "hash")
  PROVE  /\ Holding(q) /\ lockfile = [pid |-> q, stamped |-> TRUE] /\ lockfile # NoFile /\ dir
         /\ \A p \in Pids : Holding(p) => p = q
<1>1. Holding(q)
  BY DEF Holding, At
<1>2. HoldInv(q) /\ \A p \in Pids : Holding(p) => p = q
  BY <1>1, Lock
<1>3. lockfile = [pid |-> q, stamped |-> TRUE] /\ lockfile # NoFile
  BY <1>1, <1>2, LockNames DEF HoldInv
<1>4. dir
  BY <1>3 DEF IInv, TypeOK
<1>5. QED
  BY <1>1, <1>2, <1>3, <1>4

LEMMA WriteKeeps ==
  ASSUME IInv, Watch, NEW p \in Pids, Write(p)
  PROVE  IInv'
<1>1. /\ TypeOK /\ WrittenInv /\ ProcessInv(p) /\ At(p, "running") /\ proc' = proc
      /\ UNCHANGED <<dir, leftover, lockfile, archive, wipes, crashes>>
      /\ proc \in [Pids -> Process]
  BY DEF IInv, Write, TypeOK
<1>2. PICK f \in Files : WriteFile(f) /\ (Is(p, "serve") \/ f = Database)
  BY FileFacts DEF Write
<1>3. /\ writes' = writes + 1 /\ writes' \in Nat /\ writes \in Nat
      /\ files' \in [Files -> 0..writes'] /\ wal' \in 0..writes'
      /\ (wal' # 0 => files'[Database] # 0)
      /\ (files[Database] # 0 => files'[Database] # 0)
  BY <1>1, <1>2, WriteTypes DEF TypeOK
<1>4. HasDatabase(p) /\ dir
  <2>1. HasDatabase(p)
    BY <1>1 DEF HasDatabase, Alive, At, ProcessInv
  <2>2. QED
    BY <2>1, DatabaseThere
<1>5. DiskInv'
  BY <1>1, <1>3, <1>4 DEF DiskInv, TypeOK, Written
<1>6. Moved(p) /\ (Holding(p)' => Holding(p))
  BY <1>1 DEF Moved, Holding, At, Is
<1>7. ProcessInv(p)'
  <2>1. Written \subseteq Written'
    BY <1>3 DEF Written
  <2>2. QED
    BY <1>1, <1>3, <1>4, <2>1 DEF ProcessInv, HasDatabase, Alive, At, Is
<1>8. ArchiveTyped' /\ (~overlapped' => ArchiveInv')
  BY <1>1, <1>3, ArchiveStays
<1>9. ASSUME ~overlapped'
      PROVE  HoldInv(p)' /\ SnapshotInv(p)'
  <2>1. HoldInv(p)
    BY <1>9, Lock
  <2>2. HoldInv(p)'
    BY <1>1, <2>1, StayHold
  <2>3. SnapshotInv(p)'
    BY <1>1, SnapshotLeft DEF Moving, At
  <2>4. QED
    BY <2>2, <2>3
<1>10. ASSUME ~overlapped', NEW q \in Pids \ {p}, At(q, "hash")
       PROVE  /\ \A g \in Files \ {Database} : files'[g] = files[g]
              /\ files' = files \/ files' = Content'
  <2>1. ~Holding(p)
    BY <1>10, HashingHolds
  <2>2. f = Database
    BY <1>1, <1>2, <2>1 DEF Holding
  <2>3. QED
    BY <1>1, <1>2, <2>2, WriteTypes
<1>11. lockfile' = lockfile /\ writes <= writes'
  BY <1>1, <1>3
<1>12. QED
  BY <1>3, <1>5, <1>6, <1>7, <1>8, <1>9, <1>10, <1>11, LockStays

LEMMA AutoCheckpointKeeps ==
  ASSUME IInv, Watch, NEW p \in Pids, AutoCheckpoint(p)
  PROVE  IInv'
<1>1. /\ TypeOK /\ WrittenInv /\ ProcessInv(p) /\ HasDatabase(p) /\ Fold /\ proc' = proc
      /\ dir' = dir /\ leftover' = leftover /\ lockfile' = lockfile
      /\ UNCHANGED archive /\ writes' = writes /\ wipes' = wipes /\ crashes' = crashes
      /\ writes \in Nat /\ proc \in [Pids -> Process]
  BY DEF IInv, AutoCheckpoint, TypeOK, counters
<1>2. /\ files' \in Written /\ wal' = 0 /\ files' = Content /\ Content' = Content
      /\ (files[Database] # 0 => files'[Database] # 0)
      /\ \A g \in Files \ {Database} : files'[g] = files[g]
  BY <1>1, FoldTypes
<1>3. dir
  BY <1>1, DatabaseThere
<1>4. DiskInv'
  BY <1>1, <1>2, <1>3 DEF DiskInv, TypeOK, Written
<1>5. Moved(p) /\ (Holding(p)' => Holding(p))
  BY <1>1 DEF Moved, Holding, At, Is
<1>6. ProcessInv(p)'
  BY <1>1, <1>2 DEF ProcessInv, HasDatabase, Alive, At, Is, Written
<1>7. ArchiveTyped' /\ (~overlapped' => ArchiveInv')
  BY <1>1, ArchiveStays
<1>8. ASSUME ~overlapped'
      PROVE  HoldInv(p)' /\ SnapshotInv(p)'
  <2>1. HoldInv(p)
    BY <1>8, Lock
  <2>2. HoldInv(p)'
    BY <1>1, <2>1, StayHold
  <2>3. proc[p].pc \notin {"hash", "copy", "publish"} \cup Moving
    BY <1>1 DEF ProcessInv, HasDatabase, Is, BackingUp, Moving, Restoring
  <2>4. SnapshotInv(p)'
    BY <1>1, <2>3, SnapshotLeft
  <2>5. QED
    BY <2>2, <2>4
<1>9. QED
  BY <1>1, <1>2, <1>4, <1>5, <1>6, <1>7, <1>8, LockStays

LEMMA OpenKeeps ==
  ASSUME IInv, Watch, NEW p \in Pids, Open(p)
  PROVE  IInv'
<1> DEFINE step == IF Is(p, "serve") THEN "mkdir" ELSE "running"
<1>1. /\ TypeOK /\ WrittenInv /\ ProcessInv(p) /\ At(p, "open") /\ dir'
      /\ dir' \in BOOLEAN
      /\ UNCHANGED <<leftover, lockfile, archive, wipes, crashes>> /\ lockfile' = lockfile
      /\ writes \in Nat
  BY DEF IInv, Open, TypeOK
<1>2. /\ proc[p].kind \in {"serve", "admin"} /\ ~proc[p].deferred /\ proc[p].next = 1
      /\ ~HasDatabase(p)
  BY <1>1 DEF ProcessInv, At, HasDatabase
<1>3. \/ WriteFile(Database) /\ Go(p, step)
      \/ files[Database] # 0 /\ UNCHANGED <<files, wal, writes>> /\ Go(p, step)
      \/ Exit(p) /\ UNCHANGED <<files, wal, writes>>
  BY DEF Open
<1>4. Database \in Files
  BY FileFacts
<1>5. /\ writes' \in Nat /\ writes <= writes'
      /\ files' \in [Files -> 0..writes'] /\ wal' \in 0..writes'
      /\ (wal' # 0 => files'[Database] # 0)
      /\ (files[Database] # 0 => files'[Database] # 0)
      /\ \A g \in Files \ {Database} : files'[g] = files[g]
      /\ files' = files \/ files' = Content'
  <2>1. CASE WriteFile(Database)
    BY <1>1, <1>4, <2>1, WriteTypes
  <2>2. CASE UNCHANGED <<files, wal, writes>>
    BY <1>1, <2>2 DEF WrittenInv, Written, TypeOK
  <2>3. QED
    BY <1>3, <2>1, <2>2
<1>6. DiskInv'
  BY <1>1, <1>5 DEF DiskInv, TypeOK, Written
<1>7. ArchiveTyped' /\ (~overlapped' => ArchiveInv')
  BY <1>1, <1>5, ArchiveStays
<1>8. /\ Moved(p) /\ ProcessInv(p)' /\ ~Holding(p)'
      /\ ~overlapped' => HoldInv(p)' /\ SnapshotInv(p)'
  <2>1. CASE Exit(p)
    BY <1>5, <2>1, ExitStep
  <2>2. CASE Go(p, step) /\ files'[Database] # 0
    <3>1. /\ step \in {"mkdir", "running"} /\ (step = "mkdir" => Is(p, "serve"))
          /\ (step = "running" => Is(p, "admin")) /\ step \in Steps
      BY <1>2 DEF Is, Steps
    <3> HIDE DEF step
    <3>2. Moved(p) /\ Keeps(p) /\ proc'[p].pc = step
      BY <1>1, <2>2, <3>1, GoTypes DEF TypeOK
    <3>3. Written \subseteq Written'
      BY <1>1, <1>5 DEF Written
    <3>4. ProcessInv(p)'
      BY <1>1, <1>2, <2>2, <3>1, <3>2, <3>3
         DEF ProcessInv, HasDatabase, Alive, At, Is, Acquiring, BackingUp, Moving, Restoring, Keeps
    <3>5. ~Holding(p)' /\ ~Contending(p)' /\ ~At(p, "stamp")'
      BY <3>1, <3>2 DEF Holding, Contending, At, Is, Keeps
    <3>6. SnapshotInv(p)'
      BY <3>1, <3>2, SnapshotLeft DEF Moving
    <3>7. QED
      BY <3>2, <3>4, <3>5, <3>6 DEF HoldInv
  <2>3. WriteFile(Database) => files'[Database] # 0
    BY <1>1, <1>4, WriteTypes
  <2> HIDE DEF step
  <2>4. QED
    BY <1>3, <1>5, <2>1, <2>2, <2>3
<1>9. QED
  BY <1>1, <1>5, <1>6, <1>7, <1>8, LockStays

LEMMA CheckpointKeeps ==
  ASSUME IInv, Watch, NEW p \in Pids, Checkpoint(p)
  PROVE  IInv'
<1>1. /\ TypeOK /\ WrittenInv /\ ProcessInv(p) /\ At(p, "checkpoint") /\ Go(p, "hash")
      /\ Fold \/ (Others(p) /\ UNCHANGED <<files, wal>>)
      /\ dir' = dir /\ leftover' = leftover /\ lockfile' = lockfile /\ UNCHANGED archive
      /\ writes' = writes /\ wipes' = wipes /\ crashes' = crashes /\ writes \in Nat
  BY DEF IInv, Checkpoint, TypeOK, counters
<1>2. Is(p, "backup") /\ proc[p].deferred /\ proc[p].next = 1
  BY <1>1 DEF ProcessInv, At, BackingUp
<1>3. /\ files' \in Written /\ wal' \in 0..writes /\ Content' = Content
      /\ (files[Database] # 0 => files'[Database] # 0)
      /\ (wal' # 0 => files'[Database] # 0)
      /\ ~Others(p) => files' = Content'
      /\ files' = files \/ files' = Content'
      /\ \A g \in Files \ {Database} : files'[g] = files[g]
  <2>1. CASE Fold
    BY <1>1, <2>1, FoldTypes
  <2>2. CASE Others(p) /\ UNCHANGED <<files, wal>>
    BY <1>1, <2>2 DEF Content, WrittenInv, TypeOK
  <2>3. QED
    BY <1>1, <2>1, <2>2
<1>4. Content' = Nothing => Content = Nothing
  BY <1>3
<1>5. DiskInv'
  BY <1>1, <1>3 DEF DiskInv, TypeOK, Written, Empty
<1>6. Moved(p) /\ Keeps(p) /\ proc'[p].pc = "hash"
  BY <1>1, GoTypes DEF TypeOK, Steps
<1>7. ProcessInv(p)'
  BY <1>1, <1>2, <1>6
     DEF ProcessInv, HasDatabase, Alive, At, Is, Acquiring, BackingUp, Moving, Restoring, Written, Keeps
<1>8. Holding(p) /\ ~Contending(p)' /\ ~At(p, "stamp")'
  BY <1>1, <1>6 DEF Holding, Contending, At
<1>9. ArchiveTyped' /\ (~overlapped' => ArchiveInv')
  BY <1>1, ArchiveStays
<1>10. ASSUME ~overlapped'
       PROVE  HoldInv(p)' /\ SnapshotInv(p)'
  <2>1. HoldInv(p)
    BY <1>10, Lock
  <2>2. HoldInv(p)'
    BY <1>1, <1>8, <2>1 DEF HoldInv
  <2>3. Content' \in [Files -> Nat]
    BY <1>1, <1>3, ContentTypes
  <2>4. seen'[p] = See(p)
    BY <1>1, <2>3, SeenTypes
  <2>5. seen'[p] = IF Others(p) THEN {} ELSE {Content'}
    BY <1>1, <1>6, <2>4 DEF See, At
  <2>6. CASE Others(p)
    BY <2>2, <2>5, <2>6 DEF SnapshotInv
  <2>7. CASE ~Others(p)
    <3>1. seen'[p] = {files'}
      BY <1>3, <2>5, <2>7
    <3>2. Hashed(p)' = {}
      BY <1>2, <1>6 DEF Hashed, Keeps
    <3>3. HashInv(p)'
      BY <3>1, <3>2 DEF HashInv
    <3>4. QED
      BY <1>6, <2>2, <3>3 DEF SnapshotInv, At, Moving
  <2>8. QED
    BY <2>6, <2>7
<1>11. writes <= writes'
  BY <1>1
<1>12. QED
  BY <1>1, <1>3, <1>5, <1>6, <1>7, <1>8, <1>9, <1>10, <1>11, LockStays

LEMMA PublishKeeps ==
  ASSUME IInv, Watch, NEW p \in Pids, Publish(p)
  PROVE  IInv'
<1>1. /\ TypeOK /\ WrittenInv /\ ProcessInv(p) /\ At(p, "publish") /\ Quit(p)
      /\ archive' = [manifest |-> proc[p].manifest, content |-> proc[p].content,
                     twice |-> proc[p].twice, seen |-> seen[p]]
      /\ UNCHANGED <<disk, counters>> /\ lockfile' = lockfile /\ files' = files
      /\ writes' = writes /\ writes' \in Nat
  BY DEF IInv, Publish, TypeOK, counters, disk
<1>2. Is(p, "backup") /\ ~At(p, "close")
  BY <1>1 DEF ProcessInv, At, BackingUp
<1>3. /\ Moved(p) /\ ProcessInv(p)' /\ ~Holding(p)'
      /\ ~overlapped' => HoldInv(p)' /\ SnapshotInv(p)'
  BY <1>1, <1>2, QuitStep
<1>4. DiskInv'
  BY <1>1 DEF DiskInv, TypeOK, WrittenInv, disk, counters, Empty, Content, Written
<1>5. /\ archive'.manifest = proc[p].manifest /\ archive'.content = proc[p].content
      /\ archive'.twice = proc[p].twice /\ archive'.seen = seen[p]
  BY <1>1
<1>6. ArchiveTyped'
  <2>1. proc[p] \in Process /\ seen[p] \subseteq [Files -> Nat] /\ proc[p].manifest \in Written'
    BY <1>1 DEF TypeOK, ProcessInv, Written
  <2>2. QED
    BY <1>5, <2>1 DEF ArchiveTyped, Process
<1>7. ~overlapped' => ArchiveInv'
  <2>1. ~overlapped' => SnapshotInv(p)
    BY Lock
  <2>2. QED
    BY <1>1, <1>5, <2>1 DEF ArchiveInv, SnapshotInv
<1>8. writes <= writes'
  BY <1>1
<1>9. QED
  BY <1>1, <1>3, <1>4, <1>6, <1>7, <1>8, LockStays

LEMMA RemoveDirKeeps ==
  ASSUME IInv, Watch, NEW p \in Pids, RemoveDir(p)
  PROVE  IInv'
<1>1. /\ TypeOK /\ WrittenInv /\ ProcessInv(p) /\ At(p, "rmdir")
      /\ UNCHANGED <<files, wal, leftover, lockfile, archive, counters>>
      /\ lockfile' = lockfile /\ Content' = Content
  BY DEF IInv, RemoveDir, TypeOK, Content
<1>2. Is(p, "restore") /\ ~At(p, "close") /\ proc[p].next = 1 /\ proc[p].content \in Written
  BY <1>1 DEF ProcessInv, At, Restoring, Moving
<1>3. CASE Quit(p) /\ UNCHANGED dir
  <2>1. UNCHANGED <<disk, archive, counters>>
    BY <1>1, <1>3 DEF disk
  <2>2. QED
    BY <1>2, <1>3, <2>1, QuitKeeps
<1>4. CASE dir /\ Empty /\ lockfile = NoFile /\ dir' = FALSE /\ Go(p, "rename")
  <2>1. Moved(p) /\ Keeps(p) /\ proc'[p].pc = "rename"
    BY <1>1, <1>4, GoTypes DEF TypeOK, Steps
  <2>2. writes' = writes /\ files' = files
    BY <1>1 DEF counters
  <2>3. ProcessInv(p)'
    BY <1>1, <1>2, <2>1, <2>2
       DEF ProcessInv, HasDatabase, Alive, At, Is, Acquiring, BackingUp, Moving, Restoring, Written, Keeps
  <2>4. ~Holding(p)' /\ ~At(p, "stamp")' /\ (Contending(p)' => Contending(p))
    BY <1>1, <2>1 DEF Holding, Contending, At, Keeps
  <2>5. ASSUME ~overlapped', NEW q \in Pids
        PROVE  HoldInv(q)'
    <3>1. \A r \in Pids : HoldInv(r)
      BY <2>5, Lock
    <3>2. ~Holding(q)
      BY <1>4, <3>1, LockNames DEF HoldInv
    <3>3. CASE q = p
      <4>1. \A r \in Pids : ~Holding(r)
        BY <1>4, <3>1, LockNames DEF HoldInv
      <4>2. \A r \in Pids : ~Holding(r)'
        BY <2>1, <2>4, <4>1 DEF Moved, Holding, At, Is
      <4>3. QED
        BY <2>4, <3>3, <4>2 DEF HoldInv
    <3>4. CASE q # p
      BY <1>1, <2>1, <2>4, <3>1, <3>4, HoldStays
    <3>5. QED
      BY <3>3, <3>4
  <2>6. ASSUME ~overlapped'
        PROVE  SnapshotInv(p)'
    <3>1. SnapshotInv(p)
      BY <2>6, Lock
    <3>2. Content' \in [Files -> Nat]
      BY <1>1, ContentTypes
    <3>3. seen'[p] = See(p)
      BY <1>1, <3>2, SeenTypes
    <3>4. seen'[p] = seen[p]
      BY <1>1, <2>1, <3>3 DEF See, At
    <3>5. QED
      BY <1>1, <2>1, <3>1, <3>4 DEF SnapshotInv, At, Moving, Keeps
  <2>7. /\ dir' \in BOOLEAN /\ (~dir' => Empty /\ lockfile' = NoFile)
        /\ lockfile' \in {NoFile} \cup [pid : Pids, stamped : BOOLEAN]
    BY <1>1, <1>4
  <2>8. UNCHANGED <<files, wal, leftover, archive, counters>>
    BY <1>1
  <2>9. QED
    BY <2>1, <2>3, <2>5, <2>6, <2>7, <2>8, FilesStay
<1>5. QED
  BY <1>1, <1>3, <1>4 DEF RemoveDir

LEMMA RenameKeeps ==
  ASSUME IInv, Watch, NEW p \in Pids, Rename(p)
  PROVE  IInv'
<1>1. /\ TypeOK /\ WrittenInv /\ ProcessInv(p) /\ At(p, "rename") /\ Quit(p)
      /\ UNCHANGED <<wal, lockfile, archive, counters>> /\ lockfile' = lockfile
      /\ writes' = writes /\ writes' \in Nat /\ wipes' = wipes /\ crashes' = crashes
      /\ (~dir => Empty /\ lockfile = NoFile) /\ dir \in BOOLEAN
  BY DEF IInv, Rename, TypeOK, counters
<1>2. Is(p, "restore") /\ ~At(p, "close") /\ proc[p].content \in Written
  BY <1>1 DEF ProcessInv, At, Restoring, Moving
<1>3. CASE dir /\ UNCHANGED <<dir, files, leftover>>
  <2>1. UNCHANGED <<disk, archive, counters>>
    BY <1>1, <1>3 DEF disk
  <2>2. QED
    BY <1>1, <1>2, <2>1, QuitKeeps
<1>4. CASE /\ ~dir \/ (Empty /\ lockfile = NoFile)
           /\ dir' = TRUE /\ files' = proc[p].content /\ leftover' = TRUE
  <2>1. Empty /\ lockfile = NoFile
    BY <1>1, <1>4
  <2>2. wal = 0 /\ files[Database] = 0
    BY <1>1, <2>1, ContentTypes, FileFacts DEF Nothing
  <2>3. DiskInv'
    BY <1>1, <1>2, <1>4, <2>2 DEF DiskInv, TypeOK, Written
  <2>4. /\ Moved(p) /\ ProcessInv(p)' /\ ~Holding(p)'
        /\ ~overlapped' => HoldInv(p)' /\ SnapshotInv(p)'
    BY <1>1, <1>2, QuitStep
  <2>5. ArchiveTyped' /\ (~overlapped' => ArchiveInv')
    BY <1>1, ArchiveStays
  <2>6. ~overlapped' => \A q \in Pids : ~At(q, "hash")
    BY <2>1, HashingHolds
  <2>7. QED
    BY <1>1, <2>2, <2>3, <2>4, <2>5, <2>6, LockStays
<1>5. QED
  BY <1>3, <1>4 DEF Rename

LEMMA WipeKeeps ==
  ASSUME IInv, Watch, Wipe
  PROVE  IInv'
<1>1. /\ TypeOK /\ WrittenInv /\ \A p \in Pids : At(p, "idle")
      /\ dir' = FALSE /\ files' = Nothing /\ wal' = 0 /\ leftover' = FALSE /\ lockfile' = NoFile
      /\ UNCHANGED <<archive, proc, writes, crashes>> /\ writes' = writes
      /\ wipes' \in Nat /\ crashes' \in Nat /\ writes \in Nat /\ proc' = proc
  BY DEF IInv, Wipe, TypeOK, Alive
<1>2. DiskInv'
  <2>1. Nothing \in Written
    BY <1>1, NothingTypes
  <2>2. Empty'
    BY <1>1 DEF Empty, Content
  <2>3. files' \in Written' /\ wal' \in 0..writes' /\ writes' \in Nat
    BY <1>1, <2>1 DEF Written
  <2>4. ~dir' /\ dir' \in BOOLEAN /\ leftover' \in BOOLEAN
    BY <1>1
  <2>5. QED
    BY <1>1, <2>2, <2>3, <2>4 DEF DiskInv
<1>3. ArchiveTyped' /\ (~overlapped' => ArchiveInv')
  BY <1>1, ArchiveStays
<1>4. proc' \in [Pids -> Process]
  BY <1>1 DEF TypeOK
<1>5. ASSUME NEW p \in Pids
      PROVE  ProcessInv(p)' /\ HoldInv(p)' /\ SnapshotInv(p)'
  <2>1. proc'[p].pc = "idle" /\ ProcessInv(p)
    BY <1>1 DEF At, IInv
  <2>2. ProcessInv(p)'
    BY <1>1, <2>1 DEF ProcessInv, HasDatabase, Alive, At, Is, Acquiring, BackingUp, Moving, Restoring, Written
  <2>3. ~Holding(p)' /\ ~Contending(p)' /\ ~At(p, "stamp")'
    BY <2>1 DEF Holding, Contending, At
  <2>4. SnapshotInv(p)'
    BY <2>1, SnapshotLeft DEF Moving
  <2>5. QED
    BY <2>2, <2>3, <2>4 DEF HoldInv
<1>6. QED
  BY <1>2, <1>3, <1>4, <1>5, Assembled
----------------------------------------------------------------------------
\* The same steps when nothing happens.
LEMMA StutterKeeps ==
  ASSUME IInv, UNCHANGED vars
  PROVE  IInv'
<1>1. /\ dir' = dir /\ files' = files /\ wal' = wal /\ leftover' = leftover /\ lockfile' = lockfile
      /\ archive' = archive /\ proc' = proc /\ writes' = writes /\ wipes' = wipes
      /\ crashes' = crashes /\ seen' = seen /\ overlapped' = overlapped
  BY DEF vars, disk, counters
<1>2. Content' = Content /\ (Empty' <=> Empty)
  BY <1>1 DEF Content, Empty
<1>3. TypeOK' /\ WrittenInv'
  BY <1>1, <1>2 DEF IInv, TypeOK, WrittenInv, Written
<1>4. ASSUME NEW p \in Pids
      PROVE  /\ Holding(p)' <=> Holding(p)
             /\ Contending(p)' <=> Contending(p)
             /\ HasDatabase(p)' <=> HasDatabase(p)
  BY <1>1 DEF HasDatabase, Alive, Holding, Contending, At, Is
<1>5. ASSUME NEW p \in Pids
      PROVE  /\ ProcessInv(p)' <=> ProcessInv(p)
             /\ LockInv(p)' <=> LockInv(p)
             /\ SnapshotInv(p)' <=> SnapshotInv(p)
  <2>1. ProcessInv(p)' <=> ProcessInv(p)
    BY <1>1, <1>4 DEF ProcessInv, At, Is, Written
  <2>2. LockInv(p)' <=> LockInv(p)
    BY <1>1, <1>4 DEF LockInv, HoldInv, At
  <2>3. HashInv(p)' <=> HashInv(p)
    BY <1>1 DEF HashInv, Hashed
  <2>4. SnapshotInv(p)' <=> SnapshotInv(p)
    BY <1>1, <2>3 DEF SnapshotInv, At
  <2>5. QED
    BY <2>1, <2>2, <2>4
<1>6. ArchiveInv' <=> ArchiveInv
  BY <1>1 DEF ArchiveInv
<1>7. QED
  BY <1>1, <1>3, <1>5, <1>6 DEF IInv

LEMMA NextKeeps ==
  ASSUME IInv, [Next]_vars
  PROVE  IInv'
<1>1. CASE UNCHANGED vars
  BY <1>1, StutterKeeps
<1>2. CASE Next
  <2>1. Watch /\ Act
    BY <1>2 DEF Next, Watch
  <2>2. CASE Wipe
    BY <2>1, <2>2, WipeKeeps
  <2>3. ASSUME NEW p \in Pids, Serve(p)
        PROVE  IInv'
    BY <2>1, <2>3, OpenKeeps, WriteKeeps, AutoCheckpointKeeps, StopKeeps DEF Serve
  <2>4. ASSUME NEW p \in Pids, Acquire(p)
        PROVE  IInv'
    BY <2>1, <2>4, MakeDirKeeps, CreateKeeps, StampKeeps, InspectKeeps, RemoveStaleKeeps, CloseKeeps
       DEF Acquire
  <2>5. ASSUME NEW p \in Pids, Backup(p)
        PROVE  IInv'
    BY <2>1, <2>5, CheckpointKeeps, HashKeeps, CopyKeeps, PublishKeeps DEF Backup
  <2>6. ASSUME NEW p \in Pids, Restore(p)
        PROVE  IInv'
    BY <2>1, <2>6, StatKeeps, CheckEmptyKeeps, ExtractKeeps, SwapKeeps, RemoveDirKeeps, RenameKeeps
       DEF Restore
  <2>7. ASSUME NEW p \in Pids, Start(p) \/ Fail(p) \/ Crash(p)
        PROVE  IInv'
    BY <2>1, <2>7, StartKeeps, FailKeeps, CrashKeeps
  <2>8. QED
    BY <2>1, <2>2, <2>3, <2>4, <2>5, <2>6, <2>7 DEF Act
<1>3. QED
  BY <1>1, <1>2

LEMMA InitHolds == Init => IInv
<1> SUFFICES ASSUME Init PROVE IInv
  OBVIOUS
<1>1. /\ dir = FALSE /\ files = Nothing /\ wal = 0 /\ leftover = FALSE /\ lockfile = NoFile
      /\ archive = NoArchive /\ proc = [p \in Pids |-> Exited] /\ seen = [p \in Pids |-> {}]
      /\ writes = 0 /\ wipes = 0 /\ crashes = 0 /\ overlapped = FALSE
  BY DEF Init
<1>2. Nothing \in [Files -> Nat] /\ Nothing \in Written /\ Nothing \in Contents
  BY <1>1, NothingTypes
<1>3. /\ archive.manifest = Nothing /\ archive.content = Nothing /\ archive.twice = FALSE
      /\ archive.seen = {}
  BY <1>1 DEF NoArchive
<1>4. Content = Nothing /\ Empty
  BY <1>1 DEF Content, Empty
<1>5. Exited \in Process
  BY <1>1, ExitedTypes
<1>6. TypeOK
  BY <1>1, <1>2, <1>3, <1>4, <1>5 DEF TypeOK
<1>7. WrittenInv
  BY <1>1, <1>2, <1>3 DEF WrittenInv
<1>8. ASSUME NEW p \in Pids
      PROVE  ProcessInv(p) /\ LockInv(p) /\ SnapshotInv(p)
  <2>1. proc[p] = Exited /\ seen[p] = {}
    BY <1>1
  <2>2. ProcessInv(p)
    BY <1>1, <1>2, <2>1, ExitedTypes
       DEF ProcessInv, HasDatabase, Alive, At, Is, Acquiring, BackingUp, Moving, Restoring
  <2>3. ~Holding(p) /\ ~Contending(p) /\ ~At(p, "stamp")
    BY <1>1, <2>1, ExitedTypes DEF Holding, Contending, At
  <2>4. QED
    BY <2>1, <2>2, <2>3 DEF LockInv, HoldInv, SnapshotInv
<1>9. ArchiveInv
  BY <1>3 DEF ArchiveInv
<1>10. QED
  BY <1>6, <1>7, <1>8, <1>9 DEF IInv

\* The invariant holds in every reachable state of the data directory, however many
\* commands are started on it and whenever they are killed.
THEOREM InvariantHolds == Spec => []IInv
<1>1. Init => IInv
  BY InitHolds
<1>2. IInv /\ [Next]_vars => IInv'
  BY NextKeeps
<1>3. QED
  BY <1>1, <1>2, PTL DEF Spec

\* Every variable keeps its type: a directory that is not there has no file and no
\* lock, and the log is never without its database.
THEOREM TypeCorrect == Spec => []TypeOK
<1>1. IInv => TypeOK
  BY DEF IInv
<1>2. QED
  BY <1>1, InvariantHolds, PTL

\* The PID file keeps server, backup and restore apart as long as no two commands
\* take or leave it at the same time, over crashes, stale files and PIDs that are
\* given again.
THEOREM LockExcludes == Spec => []LockExcludesSoloStarts
<1>1. IInv => LockExcludesSoloStarts
  <2> SUFFICES ASSUME IInv, ~overlapped, NEW p \in Pids, NEW q \in Pids, Holding(p), Holding(q)
               PROVE  p = q
    BY DEF LockExcludesSoloStarts, DataLockExcludes
  <2>1. /\ lockfile = [pid |-> p, stamped |-> TRUE]
        /\ lockfile = [pid |-> q, stamped |-> TRUE]
    BY DEF IInv, LockInv, HoldInv
  <2>2. QED
    BY <2>1, LockNames
<1>2. QED
  BY <1>1, InvariantHolds, PTL

\* Who changes the files, and how.
LEMMA FileSteps ==
  ASSUME Act
  PROVE  \/ UNCHANGED <<files, wal>>
         \/ Fold
         \/ \E f \in Files : WriteFile(f)
         \/ \E p \in Pids : Rename(p) /\ files' = proc[p].content
                            /\ (~dir \/ Empty) /\ UNCHANGED wal
         \/ Wipe
<1>1. CASE Wipe
  BY <1>1
<1>2. ASSUME NEW p \in Pids, Serve(p)
      PROVE  UNCHANGED <<files, wal>> \/ Fold \/ \E f \in Files : WriteFile(f)
  BY <1>2, FileFacts DEF Serve, Open, Write, AutoCheckpoint, Stop
<1>3. ASSUME NEW p \in Pids, Acquire(p)
      PROVE  UNCHANGED <<files, wal>>
  BY <1>3 DEF Acquire, MakeDir, Create, Stamp, Inspect, RemoveStale, Close, disk
<1>4. ASSUME NEW p \in Pids, Backup(p)
      PROVE  UNCHANGED <<files, wal>> \/ Fold
  BY <1>4 DEF Backup, Checkpoint, HashFile, CopyFile, Publish, disk
<1>5. ASSUME NEW p \in Pids, Restore(p)
      PROVE  UNCHANGED <<files, wal>> \/ (Rename(p) /\ files' = proc[p].content
                                         /\ (~dir \/ Empty) /\ UNCHANGED wal)
  BY <1>5 DEF Restore, Stat, CheckEmpty, Extract, Swap, RemoveDir, Rename, disk
<1>6. ASSUME NEW p \in Pids, Start(p) \/ Fail(p) \/ Crash(p)
      PROVE  UNCHANGED <<files, wal>>
  BY <1>6 DEF Start, Fail, Crash, disk
<1>7. QED
  BY <1>1, <1>2, <1>3, <1>4, <1>5, <1>6 DEF Act

\* No command takes a file back to an older content or removes it, while a restore
\* checks, unlocks, removes and renames and whatever else is started in between.
THEOREM NothingIsLost == Spec => NothingWrittenIsLost
<1>1. IInv /\ [Next]_vars =>
        [(\E p \in Pids : Alive(p)) => \A f \in Files : Content'[f] >= Content[f]]_vars
  <2> SUFFICES ASSUME IInv, Next, NEW p \in Pids, Alive(p), NEW f \in Files
               PROVE  Content'[f] >= Content[f]
    OBVIOUS
  <2>1. TypeOK /\ WrittenInv /\ Act
    BY DEF IInv, Next
  <2>2. Content \in [Files -> 0..writes] /\ Content[f] \in Nat /\ writes \in Nat
    BY <2>1, FileFacts DEF Content, WrittenInv, Written, TypeOK
  <2>3. CASE UNCHANGED <<files, wal>>
    <3>1. Content' = Content
      BY <2>3 DEF Content
    <3>2. QED
      BY <2>2, <3>1
  <2>4. CASE Fold
    <3>1. Content' = Content
      BY <2>1, <2>4, FoldTypes
    <3>2. QED
      BY <2>2, <3>1
  <2>5. ASSUME NEW g \in Files, WriteFile(g)
        PROVE  Content'[f] >= Content[f]
    <3>1. Content' = [Content EXCEPT ![g] = writes + 1]
      BY <2>1, <2>5, WriteTypes
    <3>2. QED
      BY <2>2, <3>1
  <2>6. ASSUME NEW q \in Pids, Rename(q), files' = proc[q].content, ~dir \/ Empty, UNCHANGED wal
        PROVE  Content'[f] >= Content[f]
    <3>1. Content[f] = 0
      BY <2>1, <2>6, NothingTypes DEF TypeOK, Empty
    <3>2. wal = 0
      BY <2>1, <2>6, ContentTypes DEF TypeOK
    <3>3. proc[q].content \in Written
      <4>1. ProcessInv(q) /\ At(q, "rename")
        BY <2>6 DEF IInv, Rename
      <4>2. QED
        BY <4>1 DEF ProcessInv, At, Moving
    <3>4. Content' = proc[q].content
      BY <2>6, <3>2 DEF Content
    <3>5. QED
      BY <2>2, <3>1, <3>3, <3>4 DEF Written
  <2>7. ~Wipe
    BY DEF Wipe
  <2>8. QED
    BY <2>1, <2>3, <2>4, <2>5, <2>6, <2>7, FileSteps
<1>2. QED
  BY <1>1, InvariantHolds, PTL DEF Spec, NothingWrittenIsLost

\* What a restore puts in place is what the programs saw in the directory at one
\* instant of the backup, the commits in the log included, if nothing had the
\* database open when the backup started and the lock excluded.
THEOREM RestoresASnapshot == Spec => RestoredIsSnapshot
<1>1. IInv /\ [Next]_vars =>
        [\A p \in Pids : At(p, "rename") /\ ~At(p, "rename")' /\ files' # files
                           /\ seen[p] # {} /\ ~overlapped => files' \in seen[p]]_vars
  <2> SUFFICES ASSUME IInv, Next, NEW p \in Pids, At(p, "rename"), ~At(p, "rename")',
                      files' # files, seen[p] # {}, ~overlapped
               PROVE  files' \in seen[p]
    OBVIOUS
  <2>1. TypeOK /\ Act /\ SnapshotInv(p) /\ proc \in [Pids -> Process]
    BY DEF IInv, Next, TypeOK
  <2>2. proc'[p] # proc[p]
    BY DEF At
  <2>3. ASSUME NEW q \in Pids, Rename(q)
        PROVE  files' \in seen[p]
    <3>1. q = p
      <4>1. Moved(q)
        BY <2>1, <2>3, QuitTypes DEF Rename
      <4>2. QED
        BY <2>2, <4>1 DEF Moved
    <3>2. files' = proc[p].content
      BY <2>3, <3>1 DEF Rename
    <3>3. QED
      BY <2>1, <3>2 DEF SnapshotInv, At, Moving
  <2>4. ASSUME NEW q \in Pids, Serve(q)
        PROVE  FALSE
    <3>1. CASE Open(q)
      <4>1. q # p
        BY <3>1 DEF Open, At
      <4>2. proc'[p] = proc[p]
        BY <2>1, <3>1, <4>1 DEF Open, Go, Exit
      <4>3. QED
        BY <2>2, <4>2
    <3>2. CASE Write(q)
      BY <2>2, <3>2 DEF Write
    <3>3. CASE AutoCheckpoint(q)
      BY <2>2, <3>3 DEF AutoCheckpoint
    <3>4. CASE Stop(q)
      BY <3>4 DEF Stop
    <3>5. QED
      BY <2>4, <3>1, <3>2, <3>3, <3>4 DEF Serve
  <2>5. ASSUME NEW q \in Pids, Backup(q)
        PROVE  FALSE
    <3>1. CASE Checkpoint(q)
      <4>1. q # p
        BY <3>1 DEF Checkpoint, At
      <4>2. proc'[p] = proc[p]
        BY <2>1, <3>1, <4>1 DEF Checkpoint, Go
      <4>3. QED
        BY <2>2, <4>2
    <3>2. QED
      BY <2>5, <3>1 DEF Backup, HashFile, CopyFile, Publish, disk
  <2>6. ASSUME NEW q \in Pids, Acquire(q)
        PROVE  FALSE
    BY <2>6 DEF Acquire, MakeDir, Create, Stamp, Inspect, RemoveStale, Close, disk
  <2>7. ASSUME NEW q \in Pids, Restore(q), ~Rename(q)
        PROVE  FALSE
    BY <2>7 DEF Restore, Stat, CheckEmpty, Extract, Swap, RemoveDir, disk
  <2>8. ASSUME NEW q \in Pids, Start(q) \/ Fail(q) \/ Crash(q)
        PROVE  FALSE
    BY <2>8 DEF Start, Fail, Crash, disk
  <2>9. ~Wipe
    BY DEF Wipe, Alive, At
  <2>10. QED
    BY <2>1, <2>3, <2>4, <2>5, <2>6, <2>7, <2>8, <2>9 DEF Act
<1>2. QED
  BY <1>1, InvariantHolds, PTL DEF Spec, RestoredIsSnapshot
============================================================================
