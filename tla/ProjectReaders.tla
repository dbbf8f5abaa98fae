--------------------------- MODULE ProjectReaders ---------------------------
(***************************************************************************)
(* Reads of the documents, beside the writes and reindexes of SearchIndex: *)
(* a page for the web client or an agent, the page a project opens with,   *)
(* and the export of the whole tree as a ZIP.  No read holds a lock; each  *)
(* is several git commands, and the branch may move between any two.       *)
(*                                                                         *)
(*   internal/httpapi/handlers/docs.go   Page, Home                        *)
(*   internal/project/transfer.go        ExportZip                         *)
(*   internal/project/repo.go            Revision, ListTree, ReadBlob(At)  *)
(*                                                                         *)
(* A read runs in one of the workers of SearchIndex, which write and       *)
(* reindex when they do not read.                                          *)
(***************************************************************************)
EXTENDS SearchIndex

CONSTANTS Sub \* the paths that lie in a subdirectory

ASSUME SubAssumption == Sub \subseteq Paths

VARIABLES reader, \* the locals of every worker's read
          heads   \* history: the revisions the branch was at during the read

readerVars == <<reader, heads>>

\* path: the page asked for; dir: the subdirectory is still to be listed; todo: the
\* files listed and not yet read; got: what was read.
NoRead == [pc |-> "idle", rev |-> 0, dir |-> FALSE, todo |-> {}, got |-> Empty]
Reads == [pc : {"idle", "revision", "blob", "page", "home", "stamp", "opening", "root", "walk", "zip"}, rev : Nat,
          dir : BOOLEAN, todo : SUBSET Paths, got : Trees]

Reading(w) == reader[w].pc # "idle"
ReadAt(w, step) == reader[w].pc = step

\* heads: where the branch was from the first command that read it to the last
Follow ==
  heads' = [w \in Workers |->
    CASE reader'[w].pc \in {"walk", "stamp"} -> heads[w] \cup {head'}
      [] reader'[w].pc \in {"zip", "opening"} -> heads[w]
      [] OTHER -> {}]

ReadOn(w, r) == UNCHANGED vars /\ reader' = [reader EXCEPT ![w] = r] /\ Follow

ReadInit == Init /\ reader = [w \in Workers |-> NoRead] /\ heads = [w \in Workers |-> {}]
----------------------------------------------------------------------------
\* OpenRepo: a deleted project is not found; an archived one is read.
Begin(w) ==
  /\ At(w, "idle") /\ ~Reading(w) /\ ~deleted
  /\ \/ \E p \in Paths, pc \in {"revision", "home"} :
          ReadOn(w, [NoRead EXCEPT !.pc = pc, !.todo = {p}])
     \/ ReadOn(w, [NoRead EXCEPT !.pc = "root"])

\* Bound: reads change nothing and do not look at the index, so that one of them at a
\* time, begun before the first reindex, meets every move of the branch there is.
EarlyAndAlone ==
  (\A w \in Workers : ~Reading(w)) /\ index = Empty /\ links = Empty /\ state = NoState

Ask(w) == EarlyAndAlone /\ Begin(w)

\* Page: HEAD, or the commit that "at" names
ResolveRevision(w) ==
  /\ ReadAt(w, "revision")
  /\ \E v \in DOMAIN tree : ReadOn(w, [reader[w] EXCEPT !.pc = "blob", !.rev = v])

Got(w, p, blob) == [reader[w] EXCEPT !.got[p] = blob, !.todo = @ \ {p}]

\* Slip: the blob is read through the branch.
ReadBlobOfBranch(w) ==
  /\ ReadAt(w, "blob")
  /\ \E p \in reader[w].todo :
       /\ tree[head][p] # NoFile
       /\ ReadOn(w, [Got(w, p, tree[head][p]) EXCEPT !.pc = "page"])

\* Page: ReadBlobAt
ReadBlobAt(w) ==
  /\ ReadAt(w, "blob")
  /\ \E p \in reader[w].todo :
       /\ tree[reader[w].rev][p] # NoFile
       /\ ReadOn(w, [Got(w, p, tree[reader[w].rev][p]) EXCEPT !.pc = "page"])

\* Home: the first candidate the branch has, and then the revision that it is at
ReadHome(w) ==
  /\ ReadAt(w, "home")
  /\ \E p \in reader[w].todo :
       /\ tree[head][p] # NoFile
       /\ ReadOn(w, [Got(w, p, tree[head][p]) EXCEPT !.pc = "stamp"])

StampHome(w) ==
  /\ ReadAt(w, "stamp")
  /\ ReadOn(w, [reader[w] EXCEPT !.pc = "opening", !.rev = head])

\* ExportZip: ListTree of the branch's root
ListRoot(w) ==
  /\ ReadAt(w, "root")
  /\ LET files == Files(tree[head]) IN
     ReadOn(w, [reader[w] EXCEPT !.pc = "walk", !.todo = files \ Sub,
                                 !.dir = files \cap Sub # {}])

\* ... and of the subdirectory, which fails when it is gone by now.
ListSub(w) ==
  /\ ReadAt(w, "walk") /\ reader[w].dir
  /\ LET files == Files(tree[head]) \cap Sub IN
     /\ files # {}
     /\ ReadOn(w, [reader[w] EXCEPT !.todo = @ \cup files, !.dir = FALSE])

\* Slip: a file that cannot be read is left out.
ReadOrSkip(w) ==
  /\ ReadAt(w, "walk")
  /\ \E p \in reader[w].todo :
       ReadOn(w, Got(w, p, tree[head][p])) \/ ReadOn(w, Got(w, p, NoFile))

\* ReadBlob of the branch, which fails when the file is gone by now.
ReadBlob(w) ==
  /\ ReadAt(w, "walk")
  /\ \E p \in reader[w].todo :
       /\ tree[head][p] # NoFile
       /\ ReadOn(w, Got(w, p, tree[head][p]))

ZipDone(w) ==
  /\ ReadAt(w, "walk") /\ ~reader[w].dir /\ reader[w].todo = {}
  /\ ReadOn(w, [reader[w] EXCEPT !.pc = "zip"])

\* A git command fails, the client goes away, or the answer is sent.
EndRead(w) ==
  /\ Reading(w)
  /\ ReadOn(w, NoRead)

Read(w) ==
  \/ Ask(w) \/ ResolveRevision(w) \/ ReadBlobAt(w) \/ ReadHome(w) \/ StampHome(w)
  \/ ListRoot(w) \/ ListSub(w) \/ ReadBlob(w) \/ ZipDone(w) \/ EndRead(w)

\* The steps of SearchIndex.  A crash ends the reads too.
Beside(w) == ~Reading(w) /\ Work(w) /\ UNCHANGED reader /\ Follow

CrashAll == Crash /\ reader' = [w \in Workers |-> NoRead] /\ Follow

ReadNext == (\E w \in Workers : Read(w) \/ Beside(w)) \/ CrashAll

ReadSpec == ReadInit /\ [][ReadNext]_<<vars, readerVars>>
----------------------------------------------------------------------------
ReadTypeOK ==
  /\ TypeOK
  /\ reader \in [Workers -> Reads]
  /\ heads \in [Workers -> SUBSET DOMAIN tree]

\* "content and its optimistic concurrency base are always tied to the same Git
\* object" (repo.go:188-189): the text a page is answered with is that of the
\* revision named beside it, whatever was written between the two commands.  (Home
\* names the revision it finds after reading and is not held to this.)
PageOfItsRevision ==
  \A w \in Workers, p \in Paths :
    ReadAt(w, "page") /\ reader[w].got[p] # NoFile => reader[w].got[p] = tree[reader[w].rev][p]

\* An export that succeeds has, of every path, what the branch had there at some time
\* during the export: no file is made up, left out or taken from before.  So it is
\* one revision's tree when the branch was not moved meanwhile.  The page that Home
\* answers with is, like that, one the branch had by the time its revision was read.
ReadsCover ==
  \A w \in Workers, p \in Paths :
    /\ ReadAt(w, "zip") => \E v \in heads[w] : reader[w].got[p] = tree[v][p]
    /\ ReadAt(w, "opening") /\ reader[w].got[p] # NoFile =>
         \E v \in heads[w] : reader[w].got[p] = tree[v][p]
============================================================================
