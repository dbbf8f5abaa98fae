---------------------------- MODULE EditSession ----------------------------
(***************************************************************************)
(* Editing a page in the web client: the tab's edit session, the draft it  *)
(* keeps in localStorage, its heartbeat, and its saves.                    *)
(*                                                                         *)
(*   web/src/routes/docs-viewer.tsx   DocsViewerPage                       *)
(*   web/src/lib/api/locks.ts, changesets.ts                               *)
(*                                                                         *)
(* The server is reduced to what its own modules establish: a page's lock  *)
(* has one owner or none (EditLocks) and a changeset commits when its base *)
(* is the head of the branch (ProjectWrites).  A request and its answer    *)
(* are separate steps wherever the tab can do something in between.  A     *)
(* text is a set of marks: the page's own mark, which stands for what the  *)
(* page held before, and one for every edit made since.  Typing adds a     *)
(* mark, so a text without one of them has lost it; {} is the empty page.  *)
(*                                                                         *)
(* A tab stands for a user: two tabs of one user share a lock owner and a  *)
(* localStorage and are not modelled.  Nor is restoring an old version,    *)
(* which writes an old text over the page on purpose.                      *)
(***************************************************************************)
EXTENDS Integers

CONSTANTS Tabs,
          Pages,
          Home,       \* the docs root: no page, and "none" where a page may be
          MaxEdits,   \* bound on the edits anybody makes
          Nobody,     \* the owner of a free lock
          Colleague,  \* everybody who is not one of the tabs
          MaxRevision \* bound on the commits

ASSUME HomeAssumption == Home \notin Pages
ASSUME OwnersAssumption == {Nobody, Colleague} \cap Tabs = {} /\ Nobody # Colleague
ASSUME MarksAssumption == Pages \cap Nat = {}
ASSUME BoundsAssumption == MaxEdits \in Nat /\ MaxRevision \in Nat

VARIABLES tab,       \* the state of each tab's DocsViewerPage
          store,     \* localStorage: each tab's stored draft of each page
          save,      \* commitDraft in flight
          beat,      \* a heartbeat in flight
          leaving,   \* lockAndCommit releasing this page
          head,      \* the revision of the branch
          text,      \* the pages at the head
          holder,    \* who holds each page's lock
          edits,     \* history: how many edits were made so far
          settled,   \* history: the marks that were ever in the branch, and those
                     \* a user agreed to lose
          events     \* history: which of Events have happened

server == <<head, text, holder>>
flights == <<save, beat, leaving>>
vars == <<tab, store, flights, server, edits, settled, events>>

Edits == 1 .. MaxEdits
Texts == SUBSET (Pages \cup Edits)
Places == Pages \cup {Home}
Revisions == 0 .. MaxRevision

Draft == [text : Texts, base : Revisions]
NoDraft == [text |-> {}, base |-> -1]

Modes == {"reading", "acquiring", "fetching", "editing"}
Viewer == [at : Places, mode : Modes, target : Places, saved : Draft \cup {NoDraft},
           dialog : BOOLEAN, blocked : BOOLEAN, base : Revisions, beatBase : Revisions,
           shown : Texts, draft : Texts, dirty : BOOLEAN, timer : BOOLEAN]

\* at: the route; target: the page startEditing was called for; shown: the text
\* in the editor; draft: draftRef; base: editBaseRevision; beatBase: the base the
\* heartbeat's effect closed over; timer: the draft timer is running.
Opened == [at |-> Home, mode |-> "reading", target |-> Home, saved |-> NoDraft,
           dialog |-> FALSE, blocked |-> FALSE, base |-> 0, beatBase |-> 0,
           shown |-> {}, draft |-> {}, dirty |-> FALSE, timer |-> FALSE]

Saves == [stage : {"none", "sent", "accepted", "refused", "saved"}, page : Places,
          text : Texts, base : Revisions, rev : Revisions, finish : BOOLEAN]
NoSave == [stage |-> "none", page |-> Home, text |-> {}, base |-> 0, rev |-> 0,
           finish |-> FALSE]
NoBeat == [page |-> Home, base |-> 0]

\* What has happened that can cost somebody text:
\*   restored   a user chose a draft of an old version over the newer page
\*   unsynced   a text was saved or stored that no editor was showing
\*   dialog     the page was locked again under the unanswered draft dialog
\*   moved      a session began on a page it had not been started for
\*   late       a session began before the last one's requests were answered
\*   typing     what a save or a release took back was no longer all there was
\*   overtaken  the revision fetched after a save was somebody else's
Events == {"restored", "unsynced", "dialog", "moved", "late", "typing", "overtaken"}

Init ==
  /\ tab = [t \in Tabs |-> Opened]
  /\ store = [t \in Tabs |-> [p \in Pages |-> NoDraft]]
  /\ save = [t \in Tabs |-> NoSave]
  /\ beat = [t \in Tabs |-> NoBeat]
  /\ leaving = [t \in Tabs |-> Home]
  /\ head = 0
  /\ text = [p \in Pages |-> {p}]
  /\ holder = [p \in Pages |-> Nobody]
  /\ edits = 0
  /\ settled = Pages
  /\ events = {}
----------------------------------------------------------------------------
Editing(t) == tab[t].mode = "editing"
Saving(t) == save[t].stage # "none"
OnPage(t) == tab[t].at \in Pages

\* The effects that depend on the draft: [editing, dirty, id, filePath, base]
\* restarts the timer and nothing else does, later typing included.
Watched(s) == <<s.mode = "editing", s.dirty, s.at, s.base>>
Render(t, s) ==
  tab' = [tab EXCEPT ![t] = [s EXCEPT !.timer =
            IF Watched(s) = Watched(tab[t]) THEN tab[t].timer
            ELSE s.mode = "editing" /\ s.dirty /\ s.at \in Pages]]

\* setEditing(false) and setLockState("idle").  The ref keeps the draft; the rest is
\* set anew by the next session.  (The button that idle enables once more while a
\* session is still opening is not modelled.)
Ended(s) ==
  IF s.mode = "editing"
  THEN [Opened EXCEPT !.at = s.at, !.draft = s.draft, !.dirty = s.dirty]
  ELSE [s EXCEPT !.blocked = FALSE]
Clean(s) == [s EXCEPT !.dirty = FALSE]

StoreDraft(t, p, d) == store' = [store EXCEPT ![t][p] = d]
RemoveDraft(t, p) == StoreDraft(t, p, NoDraft)
Release(t, p) == holder' = [q \in Pages |-> IF q = p /\ holder[q] = t THEN Nobody ELSE holder[q]]

Happens(name, really) == events' = IF really THEN events \cup {name} ELSE events

NewEdit == edits < MaxEdits /\ edits' = edits + 1

\* The text in draftRef is not what an editor shows.
Unsynced(t) == ~Editing(t) \/ tab[t].dialog \/ tab[t].draft # tab[t].shown
----------------------------------------------------------------------------
\* startEditing reads the stored draft, then asks for the lock.
StartEditing(t) ==
  /\ tab[t].mode = "reading" /\ OnPage(t)
  /\ Render(t, [tab[t] EXCEPT !.mode = "acquiring", !.target = tab[t].at, !.blocked = FALSE,
                              !.saved = store[t][tab[t].at]])
  /\ UNCHANGED <<store, flights, server, edits, settled, events>>

\* The lock is taken, or it is not: held (by the tab itself, even) or no answer.
AcquireAnswered(t) ==
  /\ tab[t].mode = "acquiring"
  /\ LET s == tab[t] IN
     \/ /\ holder[s.target] = Nobody
        /\ holder' = [holder EXCEPT ![s.target] = t]
        /\ \/ Render(t, [s EXCEPT !.mode = "fetching"])
           \/ Render(t, [s EXCEPT !.mode = "reading", !.saved = NoDraft, !.target = Home])
     \/ /\ Render(t, [s EXCEPT !.mode = "reading", !.saved = NoDraft, !.target = Home,
                               !.blocked = holder[s.target] # Nobody])
        /\ UNCHANGED holder
  /\ UNCHANGED <<store, flights, head, text, edits, settled, events>>

\* Slip: a stored draft is resumed whatever it is based on.
ResumesAny(draft) == draft # NoDraft

\* A stored draft is resumed when it is of the revision that was fetched.
Resumes(draft) == draft # NoDraft /\ draft.base = head

\* The page has come: the editor opens on it, on the stored draft, or on the dialog
\* when the draft is of another revision.  draftRef is not set.
PageFetched(t) ==
  /\ tab[t].mode = "fetching"
  /\ LET s == tab[t]
         resumed == Resumes(s.saved)
         stale == s.saved # NoDraft /\ ~resumed
     IN
     /\ Render(t, [s EXCEPT
          !.mode = "editing", !.base = head, !.beatBase = head, !.target = Home,
          !.dialog = stale, !.saved = IF stale THEN s.saved ELSE NoDraft,
          !.shown = IF stale THEN {} ELSE IF resumed THEN s.saved.text ELSE text[s.target],
          !.dirty = resumed /\ s.saved.text # {}])
     /\ events' = events \cup (IF s.at # s.target THEN {"moved"} ELSE {})
          \cup (IF Saving(t) \/ beat[t] # NoBeat \/ leaving[t] # Home THEN {"late"} ELSE {})
  /\ UNCHANGED <<store, flights, server, edits, settled>>

FetchFailed(t) ==
  /\ tab[t].mode = "fetching"
  /\ Render(t, [tab[t] EXCEPT !.mode = "reading", !.saved = NoDraft, !.target = Home])
  /\ Release(t, tab[t].target) \/ UNCHANGED holder
  /\ UNCHANGED <<store, flights, head, text, edits, settled, events>>

\* resolveDraftConflict(true)
RestoreDraft(t) ==
  /\ Editing(t) /\ tab[t].dialog /\ OnPage(t)
  /\ LET s == tab[t] IN
     /\ Render(t, [s EXCEPT !.dialog = FALSE, !.saved = NoDraft, !.dirty = TRUE,
                            !.shown = s.saved.text, !.draft = s.saved.text])
     /\ StoreDraft(t, s.at, [text |-> s.saved.text, base |-> s.base])
  /\ Happens("restored", TRUE)
  /\ UNCHANGED <<flights, server, edits, settled>>

\* resolveDraftConflict(false).  The raw query was fetched again when editing
\* began; what it holds may be newer than the base.
DiscardDraft(t) ==
  /\ Editing(t) /\ tab[t].dialog /\ OnPage(t)
  /\ LET s == tab[t] IN
     /\ Render(t, Clean([s EXCEPT !.dialog = FALSE, !.saved = NoDraft, !.shown = text[s.at]]))
     /\ RemoveDraft(t, s.at)
     /\ settled' = settled \cup s.saved.text
  /\ UNCHANGED <<flights, server, edits, events>>

\* handleEditorChange
Type(t) ==
  /\ Editing(t) /\ OnPage(t) /\ ~tab[t].dialog
  /\ NewEdit
  /\ LET s == tab[t]
         md == s.shown \cup {edits'}
     IN Render(t, [s EXCEPT !.shown = md, !.draft = md, !.dirty = TRUE])
  /\ UNCHANGED <<store, flights, server, settled, events>>

DraftTimer(t) ==
  /\ tab[t].timer
  /\ StoreDraft(t, tab[t].at, [text |-> tab[t].draft, base |-> tab[t].base])
  /\ tab' = [tab EXCEPT ![t].timer = FALSE]
  /\ Happens("unsynced", Unsynced(t))
  /\ UNCHANGED <<flights, server, edits, settled>>
----------------------------------------------------------------------------
\* Slip: the base is looked up with the stored draft.
SubmitOnStoredBase(t, finish) ==
  /\ save' = [save EXCEPT ![t] = [stage |-> "sent", page |-> tab[t].at, text |-> tab[t].draft,
                                  base |-> store[t][tab[t].at].base, rev |-> 0,
                                  finish |-> finish]]
  /\ Happens("unsynced", Unsynced(t))
  /\ UNCHANGED <<tab, store, beat, leaving, server, edits, settled>>

\* commitDraft: what draftRef holds is sent on the session's base.
Submit(t, finish) ==
  /\ save' = [save EXCEPT ![t] = [stage |-> "sent", page |-> tab[t].at, text |-> tab[t].draft,
                                  base |-> tab[t].base, rev |-> 0, finish |-> finish]]
  /\ Happens("unsynced", Unsynced(t))
  /\ UNCHANGED <<tab, store, beat, leaving, server, edits, settled>>

\* Ctrl+S, with no look at dirty, nor at the dialog
Save(t) == Editing(t) /\ OnPage(t) /\ ~Saving(t) /\ Submit(t, FALSE)

\* lockAndCommit
LockAndCommit(t) ==
  /\ Editing(t) /\ OnPage(t) /\ ~Saving(t) /\ leaving[t] = Home
  /\ \/ tab[t].dirty /\ Submit(t, TRUE)
     \/ /\ ~tab[t].dirty
        /\ leaving' = [leaving EXCEPT ![t] = tab[t].at]
        /\ Happens("dialog", tab[t].dialog)
        /\ UNCHANGED <<tab, store, save, beat, server, edits, settled>>

Commit(p, new) ==
  /\ head < MaxRevision
  /\ head' = head + 1
  /\ text' = [text EXCEPT ![p] = new]
  /\ settled' = settled \cup new

Stage(t, stage) == save' = [save EXCEPT ![t].stage = stage]

\* The server takes the changeset; its answer arrives or is lost.
SaveServed(t) ==
  /\ save[t].stage = "sent" /\ save[t].base = head
  /\ Commit(save[t].page, save[t].text)
  /\ \E stage \in {"accepted", "refused"} :
       save' = [save EXCEPT ![t].stage = stage, ![t].rev = head + 1]
  /\ UNCHANGED <<tab, store, beat, leaving, holder, edits, events>>

\* 409 revision_conflict, another error, or a request that never arrives
SaveRefused(t) ==
  /\ save[t].stage = "sent"
  /\ Stage(t, "refused")
  /\ UNCHANGED <<tab, store, beat, leaving, server, edits, settled, events>>

\* submitChangeset returns: what was typed meanwhile is called clean too.
SaveAnswered(t) ==
  /\ save[t].stage = "accepted"
  /\ Render(t, Clean(tab[t]))
  /\ RemoveDraft(t, save[t].page)
  /\ Stage(t, "saved")
  /\ Happens("typing", ~Editing(t) \/ tab[t].draft # save[t].text)
  /\ UNCHANGED <<beat, leaving, server, edits, settled>>

\* The page is fetched again for its revision; its text is not looked at.
Refetched(t) ==
  /\ save[t].stage = "saved"
  /\ Render(t, IF Editing(t) THEN [tab[t] EXCEPT !.base = head] ELSE tab[t])
  /\ save' = [save EXCEPT ![t] = NoSave]
  /\ leaving' = IF save[t].finish THEN [leaving EXCEPT ![t] = save[t].page] ELSE leaving
  /\ Happens("overtaken", head # save[t].rev)
  /\ UNCHANGED <<store, beat, server, edits, settled>>

\* The catch of commitDraft: the changeset was refused, or the fetch failed.
SaveFailed(t) ==
  /\ save[t].stage \in {"refused", "saved"}
  /\ StoreDraft(t, save[t].page, [text |-> tab[t].draft, base |-> save[t].base])
  /\ save' = [save EXCEPT ![t] = NoSave]
  /\ Happens("unsynced", Unsynced(t))
  /\ UNCHANGED <<tab, beat, leaving, server, edits, settled>>

\* The rest of lockAndCommit, once releaseLock has answered or failed
Released(t) ==
  /\ leaving[t] # Home
  /\ Release(t, leaving[t]) \/ UNCHANGED holder
  /\ Render(t, Clean(Ended(tab[t])))
  /\ RemoveDraft(t, leaving[t])
  /\ leaving' = [leaving EXCEPT ![t] = Home]
  /\ Happens("typing", tab[t].dirty)
  /\ UNCHANGED <<save, beat, head, text, edits, settled>>
----------------------------------------------------------------------------
\* The heartbeat of the effect [editing, id, filePath].
SendBeat(t) ==
  /\ Editing(t) /\ OnPage(t) /\ beat[t] = NoBeat
  /\ beat' = [beat EXCEPT ![t] = [page |-> tab[t].at, base |-> tab[t].beatBase]]
  /\ UNCHANGED <<tab, store, save, leaving, server, edits, settled, events>>

BeatAnswered(t) ==
  /\ beat[t] # NoBeat /\ holder[beat[t].page] = t
  /\ beat' = [beat EXCEPT ![t] = NoBeat]
  /\ UNCHANGED <<tab, store, save, leaving, server, edits, settled, events>>

\* Slip: the editor closes without storing its draft.
BeatFailedUnstored(t) ==
  /\ beat[t] # NoBeat
  /\ Render(t, Ended(tab[t]))
  /\ beat' = [beat EXCEPT ![t] = NoBeat]
  /\ Happens("unsynced", Unsynced(t))
  /\ UNCHANGED <<store, save, leaving, server, edits, settled>>

\* Slip: the draft is stored and the editor stays open.
BeatFailedEditing(t) ==
  /\ beat[t] # NoBeat
  /\ StoreDraft(t, beat[t].page, [text |-> tab[t].draft, base |-> beat[t].base])
  /\ beat' = [beat EXCEPT ![t] = NoBeat]
  /\ Happens("unsynced", Unsynced(t))
  /\ UNCHANGED <<tab, save, leaving, server, edits, settled>>

\* The lock is lost, or the heartbeat got no answer: read-only, the draft stored.
BeatFailed(t) ==
  /\ beat[t] # NoBeat
  /\ StoreDraft(t, beat[t].page, [text |-> tab[t].draft, base |-> beat[t].base])
  /\ Render(t, Ended(tab[t]))
  /\ beat' = [beat EXCEPT ![t] = NoBeat]
  /\ Happens("unsynced", Unsynced(t))
  /\ UNCHANGED <<save, leaving, server, edits, settled>>

\* Another page, or the docs root.  Unsaved edits are asked about; then the effect
\* [id, filePath] ends the session and releases the page it has come to.
Navigate(t, p) ==
  LET s == tab[t]
      asked == Editing(t) /\ s.dirty
  IN
  /\ p # s.at
  /\ IF asked /\ OnPage(t)
     THEN /\ RemoveDraft(t, s.at)
          /\ settled' = settled \cup s.shown \cup store[t][s.at].text
     ELSE UNCHANGED <<store, settled>>
  /\ IF Editing(t)
     THEN /\ Render(t, [Clean(Ended(s)) EXCEPT !.at = p])
          /\ Release(t, p) \/ UNCHANGED holder
     ELSE /\ Render(t, [s EXCEPT !.at = p])
          /\ UNCHANGED holder
  /\ UNCHANGED <<flights, head, text, edits, events>>

\* beforeunload: with unsaved edits the user is asked, and the lock is released
\* whatever the answer.  A tab that reloads forgets all but localStorage (a save
\* that is not served by then is taken for lost).
Unload(t) ==
  LET s == tab[t]
      asked == Editing(t) /\ s.dirty
  IN
  /\ IF asked THEN Release(t, s.at) \/ UNCHANGED holder ELSE UNCHANGED holder
  /\ \/ /\ tab' = [tab EXCEPT ![t] = [Opened EXCEPT !.at = s.at]]
        /\ save' = [save EXCEPT ![t] = NoSave]
        /\ beat' = [beat EXCEPT ![t] = NoBeat]
        /\ leaving' = [leaving EXCEPT ![t] = Home]
        /\ settled' = IF asked THEN settled \cup s.shown ELSE settled
     \/ /\ asked
        /\ UNCHANGED <<tab, flights, settled>>
  /\ UNCHANGED <<store, head, text, edits, events>>

\* forceUnlock, offered while another's lock is shown
ForceUnlock(t) ==
  /\ tab[t].blocked /\ OnPage(t)
  /\ holder' = [holder EXCEPT ![tab[t].at] = Nobody]
  /\ Render(t, [tab[t] EXCEPT !.blocked = FALSE])
  /\ UNCHANGED <<store, flights, head, text, edits, settled, events>>
----------------------------------------------------------------------------
\* Everybody else: other users with a lock, agents and pushes that need none.
ColleagueLocks(p) ==
  /\ holder[p] = Nobody
  /\ holder' = [holder EXCEPT ![p] = Colleague]
  /\ UNCHANGED <<tab, store, flights, head, text, edits, settled, events>>

\* A release, a forced one, or the end of a lease (a tab that was asleep)
LockLost(p) ==
  /\ holder[p] # Nobody
  /\ holder' = [holder EXCEPT ![p] = Nobody]
  /\ UNCHANGED <<tab, store, flights, head, text, edits, settled, events>>

ColleagueCommits(p) ==
  /\ NewEdit
  /\ Commit(p, text[p] \cup {edits'})
  /\ UNCHANGED <<tab, store, flights, holder, events>>

Session(t) ==
  \/ StartEditing(t) \/ AcquireAnswered(t) \/ PageFetched(t) \/ FetchFailed(t)
  \/ RestoreDraft(t) \/ DiscardDraft(t) \/ Type(t) \/ DraftTimer(t)
  \/ Save(t) \/ LockAndCommit(t) \/ SaveServed(t) \/ SaveRefused(t) \/ SaveAnswered(t)
  \/ Refetched(t) \/ SaveFailed(t) \/ Released(t)
  \/ SendBeat(t) \/ BeatAnswered(t) \/ BeatFailed(t)
  \/ (\E p \in Places : Navigate(t, p)) \/ Unload(t) \/ ForceUnlock(t)

Others ==
  \E p \in Pages : ColleagueLocks(p) \/ LockLost(p) \/ ColleagueCommits(p)

Next == (\E t \in Tabs : Session(t)) \/ Others

\* setInterval runs while a session does, and a request is answered or fails.
Fairness ==
  \A t \in Tabs : WF_vars(SendBeat(t)) /\ WF_vars(BeatAnswered(t) \/ BeatFailed(t))

Spec == Init /\ [][Next]_vars /\ Fairness
----------------------------------------------------------------------------
\* Every variable stays within the shapes above.
TypeOK ==
  /\ tab \in [Tabs -> Viewer]
  /\ store \in [Tabs -> [Pages -> Draft \cup {NoDraft}]]
  /\ save \in [Tabs -> Saves]
  /\ beat \in [Tabs -> [page : Places, base : Revisions]]
  /\ leaving \in [Tabs -> Places]
  /\ head \in Revisions
  /\ text \in [Pages -> Texts]
  /\ holder \in [Pages -> Tabs \cup {Nobody, Colleague}]
  /\ edits \in 0 .. MaxEdits
  /\ settled \in Texts
  /\ events \subseteq Events

\* The events after which a save may overwrite text its user never saw.
Blinding == {"restored", "unsynced", "moved", "late", "overtaken"}

\* No save drops what the page holds, its own text or anybody's edit, unless one
\* of the Blinding events came first: the lock, the base revision, the check of the
\* stored draft's base and the resuming of drafts hold together.  (Nobody deletes
\* text here, so all that goes is lost.)
CommitsKeep ==
  [][events \cap Blinding = {} => \A p \in Pages : text[p] \subseteq text'[p]]_text

\* Where a tab still has an edit: the editor, the draft being opened, localStorage
Held(t) == (IF Editing(t) THEN tab[t].shown ELSE {}) \cup tab[t].saved.text
             \cup UNION {store[t][p].text : p \in Pages}

\* An edit is in the branch or within its user's reach, through refused and lost
\* saves, lost locks, navigation and reloads, unless the user agreed to lose it or
\* an event other than these two came first.
EditsKept ==
  events \subseteq {"restored", "overtaken"} =>
    1 .. edits \subseteq settled \cup UNION {Held(t) : t \in Tabs}

\* A tab whose lock has expired or was forced open leaves the editor: the heartbeat
\* finds out.
LostLockNoticed ==
  \A t \in Tabs, p \in Pages :
    (Editing(t) /\ tab[t].at = p /\ holder[p] # t)
      ~> ~(Editing(t) /\ tab[t].at = p) \/ holder[p] = t

\* "Commit the current draft" (docs-viewer.tsx:617): what is sent is what the editor
\* shows, the page or a resumed draft included.  It does not hold: draftRef is set
\* by typing and by the dialog only.
SavesAreShown ==
  [][\A t \in Tabs : save[t].stage = "none" /\ save'[t].stage = "sent"
        => save'[t].text = tab[t].shown]_vars
============================================================================
