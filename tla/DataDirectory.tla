--------------------------- MODULE DataDirectory ---------------------------
(***************************************************************************)
(* One data directory and the commands that are run on it: the server,     *)
(* offline backup and restore behind a PID-file lock, and the commands     *)
(* that open the database without it (reindex, admin create).              *)
(*                                                                         *)
(*   internal/ops/ops.go       AcquireDataLock, BackupCreate, BackupRestore*)
(*   internal/app/app.go       New, Run                                    *)
(*   cmd/xwiki/main.go         serve, admin, reindex, backup               *)
(*                                                                         *)
(* A file is the number of the write that made it, 0 if it is not there:   *)
(* reading or copying one file is a step.  SQLite commits to a write-ahead *)
(* log, which is a file of its own until a checkpoint moves it into the    *)
(* database file.  A process is known by its PID, which a later process    *)
(* may be given again.                                                     *)
(***************************************************************************)
EXTENDS Integers, Sequences, Functions

CONSTANTS Pids,      \* process ids
          Walk,      \* the files below the data directory in the order of Walk
          Database,  \* xwiki.db, one of them
          Unlocked,  \* the lock file does not exist
          MaxWrites, \* bound on writes
          MaxWipes,  \* bound on losses of the whole directory
          MaxCrashes \* bound on killed processes

Files == Range(Walk)

ASSUME DatabaseAssumption == Walk \in Seq(Files) /\ Database \in Files
ASSUME UnlockedAssumption == Unlocked \notin Pids
ASSUME BoundsAssumption == MaxWrites \in Nat /\ MaxWipes \in Nat /\ MaxCrashes \in Nat

VARIABLES dir,        \* the directory exists
          files,      \* its files
          wal,        \* xwiki.db-wal: the last commit in it, 0 if it is empty
          leftover,   \* MANIFEST.json of the backup it was restored from is in it
          lockfile,   \* .xwiki.lock: who created it, and whether its PID is in it
          archive,    \* the backup file, with its manifest
          proc,       \* every process: its step and locals
          writes, wipes, crashes,
          seen,       \* history: the contents the directory had while the backup was
                      \* made that a process makes or restores, none if something
                      \* else had the database open when it started
          overlapped  \* history: two processes were taking or leaving the lock
                      \* at the same time

disk == <<dir, files, wal, leftover, lockfile>>
counters == <<writes, wipes, crashes>>
vars == <<disk, archive, proc, counters, seen, overlapped>>

Nothing == [f \in Files |-> 0]
Torn == -1
Contents == [Files -> Nat \cup {Torn}]
NoFile == [pid |-> Unlocked, stamped |-> FALSE]
NoArchive == [manifest |-> Nothing, content |-> Nothing, twice |-> FALSE, seen |-> {}]

\* What a program reads: the log goes before the database file.
Content == IF wal = 0 THEN files ELSE [files EXCEPT ![Database] = wal]
Empty == Content = Nothing /\ ~leftover

Kinds == {"serve", "admin", "backup", "restore"}
Steps == {"idle", "open", "mkdir", "create", "stamp", "inspect", "remove",   \* AcquireDataLock
          "running", "checkpoint", "hash", "copy", "publish",                              \* backup
          "stat", "check", "extract", "swap", "rmdir", "rename", "close"}    \* restore

Exited == [pc |-> "idle", kind |-> "serve", retry |-> FALSE, deferred |-> FALSE,
           twice |-> FALSE, next |-> 1, manifest |-> Nothing, content |-> Nothing]
Process == [pc : Steps, kind : Kinds, retry : BOOLEAN, deferred : BOOLEAN,
            twice : BOOLEAN, next : 1..Len(Walk), manifest : Contents, content : Contents]

Init ==
  /\ dir = FALSE /\ files = Nothing /\ wal = 0 /\ leftover = FALSE
  /\ lockfile = NoFile
  /\ archive = NoArchive
  /\ proc = [p \in Pids |-> Exited]
  /\ writes = 0 /\ wipes = 0 /\ crashes = 0
  /\ seen = [p \in Pids |-> {}]
  /\ overlapped = FALSE
----------------------------------------------------------------------------
At(p, step) == proc[p].pc = step
Is(p, kind) == proc[p].kind = kind
Alive(p) == ~At(p, "idle")
Go(p, step) == proc' = [proc EXCEPT ![p].pc = step]
Exit(p) == proc' = [proc EXCEPT ![p] = Exited]

\* An early return: the deferred Close, if there is one.
Quit(p) ==
  IF proc[p].deferred
    THEN proc' = [proc EXCEPT ![p] = [Exited EXCEPT !.pc = "close", !.kind = proc[p].kind,
                                                    !.deferred = TRUE]]
    ELSE Exit(p)

\* The command has xwiki.db open: from app.New until it ends.
HasDatabase(p) == Alive(p) /\ proc[p].kind \in {"serve", "admin"} /\ ~At(p, "open")
Others(p) == \E q \in Pids : q # p /\ HasDatabase(q)

\* File f gets a content that no file has had; a database that exists keeps
\* its file and has the commit in the log.
WriteFile(f) ==
  /\ writes < MaxWrites
  /\ writes' = writes + 1
  /\ IF f = Database /\ files[f] # 0
       THEN wal' = writes + 1 /\ UNCHANGED files
       ELSE files' = [files EXCEPT ![f] = writes + 1] /\ UNCHANGED wal

Fold == files' = Content /\ wal' = 0

Start(p) ==
  /\ At(p, "idle")
  /\ \E kind \in Kinds :
       proc' = [proc EXCEPT ![p].kind = kind,
                            ![p].pc = CASE kind \in {"serve", "admin"} -> "open"
                                        [] kind = "backup" -> "mkdir"
                                        [] kind = "restore" -> "stat"]
  /\ UNCHANGED <<disk, archive, counters>>

\* app.New: sqlite.Open creates the directory and the database and applies
\* migrations that are pending, for the server too before it takes the lock.
Open(p) ==
  /\ At(p, "open")
  /\ dir' = TRUE
  /\ \/ WriteFile(Database) /\ Go(p, IF Is(p, "serve") THEN "mkdir" ELSE "running")
     \/ /\ files[Database] # 0 /\ UNCHANGED <<files, wal, writes>>
        /\ Go(p, IF Is(p, "serve") THEN "mkdir" ELSE "running")
     \/ Exit(p) /\ UNCHANGED <<files, wal, writes>>
  /\ UNCHANGED <<leftover, lockfile, archive, wipes, crashes>>

\* Requests change any file; admin create and reindex the database.
Write(p) ==
  /\ At(p, "running")
  /\ \E f \in IF Is(p, "serve") THEN Files ELSE {Database} : WriteFile(f)
  /\ UNCHANGED <<dir, leftover, lockfile, archive, proc, wipes, crashes>>

\* The server shuts down, deferred Close included; the other commands hold no lock.
Stop(p) ==
  /\ At(p, "running")
  /\ lockfile' = IF Is(p, "serve") THEN NoFile ELSE lockfile
  /\ Exit(p)
  /\ UNCHANGED <<dir, files, wal, leftover, archive, counters>>

\* SQLite moves the log into the database file when it has grown and when the
\* last connection is closed.
AutoCheckpoint(p) ==
  /\ HasDatabase(p) /\ wal # 0
  /\ Fold
  /\ UNCHANGED <<dir, leftover, lockfile, archive, proc, counters>>
----------------------------------------------------------------------------
(* AcquireDataLock.                                                        *)

MakeDir(p) ==
  /\ At(p, "mkdir")
  /\ dir' = TRUE
  /\ Go(p, "create")
  /\ UNCHANGED <<files, wal, leftover, lockfile, archive, counters>>

\* OpenFile with O_EXCL; the second attempt is the last.
Create(p) ==
  /\ At(p, "create")
  /\ \/ /\ dir /\ lockfile = NoFile
        /\ lockfile' = [pid |-> p, stamped |-> FALSE]
        /\ Go(p, "stamp")
     \/ /\ dir /\ lockfile # NoFile /\ ~proc[p].retry
        /\ Go(p, "inspect")
        /\ UNCHANGED lockfile
     \/ /\ dir /\ lockfile # NoFile /\ proc[p].retry
        /\ Exit(p)
        /\ UNCHANGED lockfile
     \/ /\ ~dir \* removed after MkdirAll
        /\ Exit(p)
        /\ UNCHANGED lockfile
  /\ UNCHANGED <<dir, files, wal, leftover, archive, counters>>

Entered(kind) == CASE kind = "serve" -> "running"
                   [] kind = "backup" -> "checkpoint"
                   [] kind = "restore" -> "check"

\* The PID is written through the open file, which may be unlinked by now.
Stamp(p) ==
  /\ At(p, "stamp")
  /\ lockfile' = IF lockfile.pid = p THEN [lockfile EXCEPT !.stamped = TRUE] ELSE lockfile
  /\ proc' = [proc EXCEPT ![p].pc = Entered(proc[p].kind), ![p].deferred = TRUE,
                          ![p].retry = FALSE]
  /\ UNCHANGED <<dir, files, wal, leftover, archive, counters>>

\* Slip: whoever is in the lock file is taken for dead.
InspectBlindly(p) ==
  /\ At(p, "inspect") /\ Go(p, "remove")
  /\ UNCHANGED <<disk, archive, counters>>

\* ReadFile and processExists: a file without PID counts as stale.
Inspect(p) ==
  /\ At(p, "inspect")
  /\ IF lockfile.stamped /\ Alive(lockfile.pid) THEN Exit(p) ELSE Go(p, "remove")
  /\ UNCHANGED <<disk, archive, counters>>

\* os.Remove: whatever is there by now.
RemoveStale(p) ==
  /\ At(p, "remove")
  /\ lockfile' = NoFile
  /\ proc' = [proc EXCEPT ![p].pc = "create", ![p].retry = TRUE]
  /\ UNCHANGED <<dir, files, wal, leftover, archive, counters>>

\* DataLock.Close, deferred: whatever is there by now.
Close(p) ==
  /\ At(p, "close")
  /\ lockfile' = NoFile
  /\ Exit(p)
  /\ UNCHANGED <<dir, files, wal, leftover, archive, counters>>
----------------------------------------------------------------------------
(* BackupCreate: every file is hashed, then every file is copied.  The log *)
(* is not one of them.                                                     *)

\* Slip: the log is left as it is.
CheckpointNothing(p) ==
  /\ At(p, "checkpoint")
  /\ Go(p, "hash")
  /\ UNCHANGED <<disk, archive, counters>>

\* PRAGMA wal_checkpoint(TRUNCATE): kept from its end by another connection it
\* reports that in a row that is not read.
Checkpoint(p) ==
  /\ At(p, "checkpoint")
  /\ Fold \/ (Others(p) /\ UNCHANGED <<files, wal>>)
  /\ Go(p, "hash")
  /\ UNCHANGED <<dir, leftover, lockfile, archive, counters>>

AfterLast(p, step) == IF proc[p].next = Len(Walk) THEN step ELSE proc[p].pc
\* Slip: the second loop goes on where the first ended.
NextFileOn(p) == proc[p].next + 1

NextFile(p) == IF proc[p].next = Len(Walk) THEN 1 ELSE proc[p].next + 1

HashFile(p) ==
  /\ At(p, "hash")
  /\ LET f == Walk[proc[p].next] IN
     proc' = [proc EXCEPT ![p].manifest[f] = files[f], ![p].twice = leftover,
                          ![p].pc = AfterLast(p, "copy"), ![p].next = NextFile(p)]
  /\ UNCHANGED <<disk, archive, counters>>

\* A file that is written to meanwhile is copied half old, half new; one whose
\* size is not the one in the manifest fails the copy.
CopyFile(p) ==
  /\ At(p, "copy")
  /\ LET f == Walk[proc[p].next] IN
     \/ /\ \E bytes \in IF Others(p) THEN {files[f], Torn} ELSE {files[f]} :
             proc' = [proc EXCEPT ![p].content[f] = IF proc[p].manifest[f] = 0 THEN 0 ELSE bytes,
                                  ![p].pc = AfterLast(p, "publish"), ![p].next = NextFile(p)]
     \/ proc[p].manifest[f] \notin {0, files[f]} /\ Quit(p)
  /\ UNCHANGED <<disk, archive, counters>>

Publish(p) ==
  /\ At(p, "publish")
  /\ archive' = [manifest |-> proc[p].manifest, content |-> proc[p].content,
               twice |-> proc[p].twice, seen |-> seen[p]]
  /\ Quit(p)
  /\ UNCHANGED <<disk, counters>>
----------------------------------------------------------------------------
(* BackupRestore.                                                          *)

\* The lock is taken only for a directory that is there.
Stat(p) ==
  /\ At(p, "stat")
  /\ Go(p, IF dir THEN "mkdir" ELSE "check")
  /\ UNCHANGED <<disk, archive, counters>>

\* "restore target must be empty"
CheckEmpty(p) ==
  /\ At(p, "check")
  /\ IF dir /\ ~Empty THEN Quit(p) ELSE Go(p, "extract")
  /\ UNCHANGED <<disk, archive, counters>>

\* The files are those of the manifest, and no name is in the archive twice: the
\* MANIFEST.json that a restore leaves in the directory is backed up like any
\* other file, next to the backup's own.
Restorable(a) == a.content = a.manifest /\ ~a.twice

\* extractBackup into a directory next to the target, validateRestored.
Extract(p) ==
  /\ At(p, "extract")
  /\ IF archive # NoArchive /\ Restorable(archive)
       THEN proc' = [proc EXCEPT ![p].pc = "swap", ![p].content = archive.content]
       ELSE Quit(p)
  /\ UNCHANGED <<disk, archive, counters>>

\* Close before the directory is removed; the deferred one stays.
Swap(p) ==
  /\ At(p, "swap")
  /\ lockfile' = IF dir /\ proc[p].deferred THEN NoFile ELSE lockfile
  /\ Go(p, IF dir THEN "rmdir" ELSE "rename")
  /\ UNCHANGED <<dir, files, wal, leftover, archive, counters>>

\* Slip: the directory is removed with what it holds.
RemoveDirAll(p) ==
  /\ At(p, "rmdir")
  /\ dir' = FALSE /\ files' = Nothing /\ wal' = 0 /\ leftover' = FALSE
  /\ lockfile' = NoFile
  /\ Go(p, "rename")
  /\ UNCHANGED <<archive, counters>>

\* os.Remove takes an empty directory only.
RemoveDir(p) ==
  /\ At(p, "rmdir")
  /\ IF dir /\ Empty /\ lockfile = NoFile THEN dir' = FALSE /\ Go(p, "rename")
                                          ELSE Quit(p) /\ UNCHANGED dir
  /\ UNCHANGED <<files, wal, leftover, lockfile, archive, counters>>

\* os.Rename fails on a directory; one that is created between its check and
\* the system call is replaced if it is empty.
Rename(p) ==
  /\ At(p, "rename")
  /\ \/ /\ ~dir \/ (Empty /\ lockfile = NoFile)
        /\ dir' = TRUE /\ files' = proc[p].content /\ leftover' = TRUE
     \/ dir /\ UNCHANGED <<dir, files, leftover>>
  /\ Quit(p)
  /\ UNCHANGED <<wal, lockfile, archive, counters>>
----------------------------------------------------------------------------
\* Another call of backup or restore fails.
Fail(p) ==
  /\ Alive(p) /\ (Is(p, "backup") \/ Is(p, "restore"))
  /\ ~At(p, "stamp") /\ ~At(p, "close")
  /\ Quit(p)
  /\ UNCHANGED <<disk, archive, counters>>

\* The process is killed; the lock file stays.
Crash(p) ==
  /\ Alive(p)
  /\ crashes < MaxCrashes /\ crashes' = crashes + 1
  /\ Exit(p)
  /\ UNCHANGED <<disk, archive, writes, wipes>>

\* The directory is lost, or moved away, while nothing runs.
Wipe ==
  /\ \A p \in Pids : ~Alive(p)
  /\ dir
  /\ wipes < MaxWipes /\ wipes' = wipes + 1
  /\ dir' = FALSE /\ files' = Nothing /\ wal' = 0 /\ leftover' = FALSE
  /\ lockfile' = NoFile
  /\ UNCHANGED <<archive, proc, writes, crashes>>

\* Serving, or working on the directory with the lock taken.
Holding(p) ==
  \/ At(p, "running") /\ Is(p, "serve")
  \/ proc[p].pc \in {"checkpoint", "hash", "copy", "publish"}
  \/ proc[p].pc \in {"check", "extract", "swap"} /\ proc[p].deferred

\* Taking the lock, or past giving it up and about to remove it again.
Contending(p) ==
  \/ proc[p].pc \in {"create", "stamp", "inspect", "remove"}
  \/ proc[p].pc \in {"rmdir", "rename", "close"} /\ proc[p].deferred

Acquire(p) == MakeDir(p) \/ Create(p) \/ Stamp(p) \/ Inspect(p) \/ RemoveStale(p) \/ Close(p)
Backup(p) == Checkpoint(p) \/ HashFile(p) \/ CopyFile(p) \/ Publish(p)
Restore(p) == Stat(p) \/ CheckEmpty(p) \/ Extract(p) \/ Swap(p) \/ RemoveDir(p) \/ Rename(p)
Serve(p) == Open(p) \/ Write(p) \/ AutoCheckpoint(p) \/ Stop(p)

Act ==
  \/ \E p \in Pids : Start(p) \/ Serve(p) \/ Acquire(p) \/ Backup(p) \/ Restore(p)
                       \/ Fail(p) \/ Crash(p)
  \/ Wipe

\* A process that is past its checkpoint keeps what the directory has had since.
See(p) ==
  IF proc'[p].pc \notin {"hash", "copy", "publish", "swap", "rmdir", "rename"} THEN {}
  ELSE CASE At(p, "checkpoint") -> IF Others(p) THEN {} ELSE {Content'}
         [] At(p, "extract") -> archive.seen
         [] proc[p].pc \in {"hash", "copy"} /\ seen[p] # {} -> seen[p] \cup {Content'}
         [] OTHER -> seen[p]

Next ==
  /\ Act
  /\ seen' = [p \in Pids |-> See(p)]
  /\ overlapped' = (overlapped \/ \E p, q \in Pids : p # q /\ Contending(p)' /\ Contending(q)')

Spec == Init /\ [][Next]_vars
----------------------------------------------------------------------------
(* Properties. *)

TypeOK ==
  /\ dir \in BOOLEAN /\ (~dir => Empty /\ lockfile = NoFile)
  /\ files \in [Files -> Nat] /\ wal \in Nat /\ (wal # 0 => files[Database] # 0)
  /\ leftover \in BOOLEAN
  /\ lockfile \in {NoFile} \cup [pid : Pids, stamped : BOOLEAN]
  /\ archive.manifest \in Contents /\ archive.content \in Contents
  /\ archive.twice \in BOOLEAN /\ archive.seen \subseteq [Files -> Nat]
  /\ proc \in [Pids -> Process]
  /\ writes \in Nat /\ wipes \in Nat /\ crashes \in Nat
  /\ \A p \in Pids : seen[p] \subseteq [Files -> Nat]
  /\ overlapped \in BOOLEAN

\* "Prevents the server and offline maintenance commands from using the same
\* data directory at the same time": never do two hold it.
DataLockExcludes == \A p, q \in Pids : Holding(p) /\ Holding(q) => p = q

\* As long as no two processes are taking or leaving the lock at the same time,
\* it excludes: over crashes, stale files of dead processes and PIDs that are
\* given again.
LockExcludesSoloStarts == ~overlapped => DataLockExcludes

\* "Restore target must be empty": no command removes a file or takes it back
\* to an older content, whatever else is started while a restore checks,
\* unlocks, removes and renames.
NothingWrittenIsLost ==
  [][(\E p \in Pids : Alive(p)) => \A f \in Files : Content'[f] >= Content[f]]_vars

\* "Create an offline data backup": what a backup writes while nothing else has
\* the directory can be restored.
BackupRestores == archive.seen # {} => Restorable(archive)

\* What a restore puts in place is what the programs saw in the directory at one
\* instant of the backup, the commits a killed server left in the log included,
\* if nothing had the database open when the backup started and the lock
\* excluded: admin create and reindex may open and write it while files are
\* hashed and copied.
RestoredIsSnapshot ==
  [][\A p \in Pids : At(p, "rename") /\ ~At(p, "rename")' /\ files' # files
                        /\ seen[p] # {} /\ ~overlapped => files' \in seen[p]]_vars
============================================================================
