------------------------- MODULE EditSession_proofs -------------------------
(***************************************************************************)
(* TLAPS proofs about EditSession, for any tabs and pages and any bounds.  *)
(***************************************************************************)
EXTENDS EditSession, TLAPS

Opening(t) == tab[t].mode \in {"acquiring", "fetching"}

\* What holds of a tab whatever has happened.
TabInv(t) ==
  /\ Opening(t) => tab[t].target \in Pages
  /\ ~Opening(t) /\ ~tab[t].dialog => tab[t].saved = NoDraft
  /\ tab[t].dialog => Editing(t) /\ ~tab[t].dirty
  /\ Saving(t) => save[t].page \in Pages
  /\ "moved" \notin events /\ Editing(t) => OnPage(t)

\* No base is ahead of the branch.
BasesInv(t) ==
  /\ tab[t].beatBase <= tab[t].base /\ tab[t].base <= head
  /\ tab[t].saved.base <= head /\ save[t].base <= head /\ save[t].rev <= head
  /\ beat[t].base <= head
  /\ \A p \in Pages : store[t][p].base <= head

\* Unless a session began too early, what is in flight is of the session.
FlightInv(t) ==
  "late" \notin events /\ Editing(t) =>
    /\ Saving(t) => save[t].page = tab[t].at /\ save[t].base = tab[t].base
    /\ beat[t] # NoBeat => beat[t].page = tab[t].at /\ beat[t].base = tab[t].beatBase
    /\ leaving[t] # Home => leaving[t] = tab[t].at

\* A text on the base of the head has all that the page holds.
Sighted == events \cap Blinding = {}

SightedInv(t) ==
  /\ save[t].stage = "sent" /\ save[t].base = head => text[save[t].page] \subseteq save[t].text
  /\ save[t].stage \in {"accepted", "saved"} /\ save[t].rev = head =>
       text[save[t].page] \subseteq save[t].text
  /\ Editing(t) /\ ~tab[t].dialog /\ tab[t].base = head => text[tab[t].at] \subseteq tab[t].shown
  /\ Opening(t) /\ tab[t].saved.base = head => text[tab[t].target] \subseteq tab[t].saved.text
  /\ \A p \in Pages : store[t][p].base = head => text[p] \subseteq store[t][p].text
  /\ Saving(t) /\ Editing(t) => ~tab[t].dialog /\ save[t].text \subseteq tab[t].shown

\* What a tab would lose by its next step is settled, or held somewhere else.
Quiet == events \subseteq {"restored", "overtaken"}

SameText(d, e) == d.text \subseteq e.text \cup settled /\ e.text \subseteq d.text \cup settled

QuietInv(t) ==
  /\ Editing(t) /\ ~tab[t].dirty => tab[t].shown \subseteq settled
  /\ Editing(t) /\ ~tab[t].dialog => store[t][tab[t].at].text \subseteq tab[t].shown \cup settled
  /\ Editing(t) /\ tab[t].dialog =>
       SameText(store[t][tab[t].at], tab[t].saved) /\ leaving[t] = Home
  /\ Opening(t) => SameText(store[t][tab[t].target], tab[t].saved)
  /\ Editing(t) /\ Saving(t) => ~tab[t].dialog /\ tab[t].draft = tab[t].shown
  /\ save[t].stage \in {"accepted", "saved"} => save[t].text \subseteq settled
  /\ ~Editing(t) /\ ~tab[t].dirty =>
       /\ leaving[t] # Home => store[t][leaving[t]].text \subseteq settled
       /\ save[t].stage = "saved" => store[t][save[t].page].text \subseteq settled

IInv ==
  /\ TypeOK
  /\ \A p \in Pages : text[p] \subseteq settled
  /\ \A t \in Tabs : TabInv(t) /\ BasesInv(t) /\ FlightInv(t)
  /\ Sighted => \A t \in Tabs : SightedInv(t)
  /\ Quiet => \A t \in Tabs : QuietInv(t)
  /\ EditsKept
----------------------------------------------------------------------------
(* Values. *)

Marks == Pages \cup Edits

LEMMA DraftTypes ==
  /\ NoDraft.text = {} /\ NoDraft.base = -1
  /\ \A d \in Draft \cup {NoDraft} :
       d.text \in Texts /\ d.base \in Revisions \cup {-1} /\ (d # NoDraft => d \in Draft)
  /\ \A d \in Draft : d.text \in Texts /\ d.base \in Revisions /\ d.base \in Int /\ 0 <= d.base
  /\ \A x \in Texts, b \in Revisions :
       /\ [text |-> x, base |-> b] \in Draft
       /\ [text |-> x, base |-> b].text = x /\ [text |-> x, base |-> b].base = b
<1>1. NoDraft.text = {} /\ NoDraft.base = -1
  BY DEF NoDraft
<1>2. \A d \in Draft : d.text \in Texts /\ d.base \in Revisions /\ d.base \in Int /\ 0 <= d.base
  BY DEF Draft, Revisions
<1>3. {} \in Texts
  BY DEF Texts
<1>4. \A d \in Draft \cup {NoDraft} :
        d.text \in Texts /\ d.base \in Revisions \cup {-1} /\ (d # NoDraft => d \in Draft)
  BY <1>1, <1>2, <1>3
<1>5. \A x \in Texts, b \in Revisions :
        /\ [text |-> x, base |-> b] \in Draft
        /\ [text |-> x, base |-> b].text = x /\ [text |-> x, base |-> b].base = b
  BY DEF Draft
<1>6. QED
  BY <1>1, <1>2, <1>4, <1>5

LEMMA TextTypes ==
  /\ {} \in Texts
  /\ \A x, y \in Texts : x \cup y \in Texts
  /\ \A x \in Texts, e \in Edits : x \cup {e} \in Texts
BY DEF Texts

LEMMA RevisionTypes ==
  /\ 0 \in Revisions /\ MaxRevision \in Nat
  /\ \A b \in Revisions : b \in Int /\ 0 <= b /\ b <= MaxRevision
  /\ \A b \in Revisions : b < MaxRevision => b + 1 \in Revisions
BY BoundsAssumption DEF Revisions

\* The fields of a tab, of what it has in flight, and the state of the server.
LEMMA TabTypes ==
  ASSUME TypeOK, NEW t \in Tabs
  PROVE  /\ tab[t] \in Viewer /\ tab[t].at \in Places /\ tab[t].mode \in Modes
         /\ tab[t].target \in Places /\ tab[t].saved \in Draft \cup {NoDraft}
         /\ tab[t].dialog \in BOOLEAN /\ tab[t].base \in Revisions
         /\ tab[t].beatBase \in Revisions /\ tab[t].shown \in Texts /\ tab[t].draft \in Texts
         /\ tab[t].dirty \in BOOLEAN
         /\ save[t] \in Saves /\ save[t].page \in Places /\ save[t].text \in Texts
         /\ save[t].base \in Revisions /\ save[t].rev \in Revisions
         /\ beat[t].page \in Places /\ beat[t].base \in Revisions
         /\ leaving[t] \in Places
         /\ \A p \in Pages : store[t][p] \in Draft \cup {NoDraft}
         /\ head \in Revisions /\ settled \in Texts /\ \A p \in Pages : text[p] \in Texts
BY DEF TypeOK, Viewer, Saves

LEMMA OpenedTypes ==
  /\ Opened \in Viewer /\ Opened.at = Home /\ Opened.mode = "reading" /\ Opened.saved = NoDraft
  /\ Opened.dialog = FALSE /\ Opened.base = 0 /\ Opened.beatBase = 0 /\ Opened.dirty = FALSE
  /\ NoSave \in Saves /\ NoSave.stage = "none" /\ NoSave.base = 0 /\ NoSave.rev = 0
  /\ NoBeat \in [page : Places, base : Revisions] /\ NoBeat.base = 0
<1>1. {} \in Texts /\ 0 \in Revisions /\ Home \in Places
  BY TextTypes, RevisionTypes DEF Places
<1>2. /\ Opened \in Viewer /\ Opened.at = Home /\ Opened.mode = "reading"
      /\ Opened.saved = NoDraft /\ Opened.dialog = FALSE /\ Opened.base = 0
      /\ Opened.beatBase = 0 /\ Opened.dirty = FALSE
  BY <1>1 DEF Opened, Viewer, Modes
<1>3. NoSave \in Saves /\ NoSave.stage = "none" /\ NoSave.base = 0 /\ NoSave.rev = 0
  BY <1>1 DEF NoSave, Saves
<1>4. NoBeat \in [page : Places, base : Revisions] /\ NoBeat.base = 0
  BY <1>1 DEF NoBeat
<1>5. QED
  BY <1>2, <1>3, <1>4

\* What Render changes beside the timer, which no property depends on.
Alike(s, r) ==
  /\ s.at = r.at /\ s.mode = r.mode /\ s.target = r.target /\ s.saved = r.saved
  /\ s.dialog = r.dialog /\ s.base = r.base /\ s.beatBase = r.beatBase
  /\ s.shown = r.shown /\ s.draft = r.draft /\ s.dirty = r.dirty

LEMMA TimedTypes ==
  ASSUME NEW s \in Viewer, NEW b \in BOOLEAN
  PROVE  [s EXCEPT !.timer = b] \in Viewer /\ Alike([s EXCEPT !.timer = b], s)
BY DEF Viewer, Alike

LEMMA RenderStep ==
  ASSUME TypeOK, NEW t \in Tabs, NEW s \in Viewer, Render(t, s)
  PROVE  /\ tab' \in [Tabs -> Viewer] /\ Alike(tab'[t], s)
         /\ \A u \in Tabs \ {t} : tab'[u] = tab[u]
<1> DEFINE b == IF Watched(s) = Watched(tab[t]) THEN tab[t].timer
                ELSE s.mode = "editing" /\ s.dirty /\ s.at \in Pages
<1>1. tab \in [Tabs -> Viewer] /\ tab[t].timer \in BOOLEAN /\ s.dirty \in BOOLEAN
  BY DEF TypeOK, Viewer
<1>2. b \in BOOLEAN
  BY <1>1
<1>3. tab' = [tab EXCEPT ![t] = [s EXCEPT !.timer = b]]
  BY DEF Render
<1> HIDE DEF b
<1>4. QED
  BY <1>1, <1>2, <1>3, TimedTypes

LEMMA StoreStep ==
  ASSUME TypeOK, NEW t \in Tabs, NEW p, NEW d \in Draft \cup {NoDraft}, StoreDraft(t, p, d)
  PROVE  /\ store' \in [Tabs -> [Pages -> Draft \cup {NoDraft}]]
         /\ \A u \in Tabs \ {t} : store'[u] = store[u]
         /\ \A q \in Pages : store'[t][q] = IF q = p THEN d ELSE store[t][q]
<1>1. store \in [Tabs -> [Pages -> Draft \cup {NoDraft}]]
  BY DEF TypeOK
<1>2. store' = [store EXCEPT ![t] = [store[t] EXCEPT ![p] = d]]
  BY <1>1 DEF StoreDraft
<1>3. [store[t] EXCEPT ![p] = d] \in [Pages -> Draft \cup {NoDraft}]
  BY <1>1
<1>4. QED
  BY <1>1, <1>2, <1>3
----------------------------------------------------------------------------
(* The tabs that the actions write. *)

Drafts == Draft \cup {NoDraft}

Acquires(s, d) ==
  [s EXCEPT !.mode = "acquiring", !.target = s.at, !.blocked = FALSE, !.saved = d]
Fetches(s) == [s EXCEPT !.mode = "fetching"]
GivesUp(s) == [s EXCEPT !.mode = "reading", !.saved = NoDraft, !.target = Home]
Opens(s, base, dialog, saved, shown, dirty) ==
  [s EXCEPT !.mode = "editing", !.base = base, !.beatBase = base, !.target = Home,
            !.dialog = dialog, !.saved = saved, !.shown = shown, !.dirty = dirty]
Restores(s) == [s EXCEPT !.dialog = FALSE, !.saved = NoDraft, !.dirty = TRUE,
                         !.shown = s.saved.text, !.draft = s.saved.text]
Discards(s, x) == Clean([s EXCEPT !.dialog = FALSE, !.saved = NoDraft, !.shown = x])
Typed(s, x) == [s EXCEPT !.shown = x, !.draft = x, !.dirty = TRUE]
Rebased(s, b) == [s EXCEPT !.base = b]
Blocked(s, b) == [s EXCEPT !.blocked = b]
Moved(s, p) == [s EXCEPT !.at = p]

LEMMA AcquiresTypes ==
  ASSUME NEW s \in Viewer, NEW d \in Drafts
  PROVE  LET r == Acquires(s, d)
         IN  /\ r \in Viewer /\ r.mode = "acquiring" /\ r.target = s.at /\ r.saved = d
             /\ r.at = s.at /\ r.dialog = s.dialog /\ r.base = s.base /\ r.beatBase = s.beatBase
             /\ r.dirty = s.dirty /\ r.draft = s.draft
BY DEF Acquires, Drafts, Viewer, Modes

LEMMA FetchesTypes ==
  ASSUME NEW s \in Viewer
  PROVE  LET r == Fetches(s)
         IN  /\ r \in Viewer /\ r.mode = "fetching" /\ r.target = s.target /\ r.saved = s.saved
             /\ r.at = s.at /\ r.dialog = s.dialog /\ r.base = s.base /\ r.beatBase = s.beatBase
             /\ r.dirty = s.dirty /\ r.draft = s.draft
BY DEF Fetches, Viewer, Modes

LEMMA GivesUpTypes ==
  ASSUME NEW s \in Viewer
  PROVE  LET r == GivesUp(s)
         IN  /\ r \in Viewer /\ r.mode = "reading" /\ r.saved = NoDraft
             /\ r.at = s.at /\ r.dialog = s.dialog /\ r.base = s.base /\ r.beatBase = s.beatBase
             /\ r.dirty = s.dirty /\ r.draft = s.draft
BY DEF GivesUp, Viewer, Modes, Places

LEMMA OpensTypes ==
  ASSUME NEW s \in Viewer, NEW b \in Revisions, NEW g \in BOOLEAN, NEW d \in Drafts,
         NEW x \in Texts, NEW y \in BOOLEAN
  PROVE  LET r == Opens(s, b, g, d, x, y)
         IN  /\ r \in Viewer /\ r.mode = "editing" /\ r.saved = d /\ r.dialog = g
             /\ r.at = s.at /\ r.base = b /\ r.beatBase = b
             /\ r.shown = x /\ r.dirty = y /\ r.draft = s.draft
<1>1. PICK a \in Viewer : /\ a = [s EXCEPT !.mode = "editing", !.base = b, !.beatBase = b]
                          /\ a.mode = "editing" /\ a.base = b /\ a.beatBase = b
                          /\ a.at = s.at /\ a.draft = s.draft
  <2>1. [s EXCEPT !.mode = "editing", !.base = b, !.beatBase = b] \in Viewer
    BY DEF Viewer, Modes
  <2>2. QED
    BY <2>1 DEF Viewer
<1>2. PICK c \in Viewer : /\ c = [a EXCEPT !.target = Home, !.dialog = g, !.saved = d]
                          /\ c.mode = "editing" /\ c.base = b /\ c.beatBase = b
                          /\ c.at = s.at /\ c.draft = s.draft
                          /\ c.dialog = g /\ c.saved = d
  <2>1. Home \in Places /\ d \in Draft \cup {NoDraft}
    BY DEF Drafts, Places
  <2>2. [a EXCEPT !.target = Home, !.dialog = g, !.saved = d] \in Viewer
    BY <2>1 DEF Viewer
  <2>3. QED
    BY <1>1, <2>2 DEF Viewer
<1>3. Opens(s, b, g, d, x, y) = [c EXCEPT !.shown = x, !.dirty = y]
  BY <1>1, <1>2 DEF Opens
<1>4. Opens(s, b, g, d, x, y) \in Viewer
  BY <1>3 DEF Viewer
<1>5. QED
  BY <1>2, <1>3, <1>4 DEF Viewer

LEMMA RestoresTypes ==
  ASSUME NEW s \in Viewer
  PROVE  LET r == Restores(s)
         IN  /\ r \in Viewer /\ r.mode = s.mode /\ r.saved = NoDraft /\ r.dialog = FALSE
             /\ r.at = s.at /\ r.base = s.base /\ r.beatBase = s.beatBase
             /\ r.shown = s.saved.text /\ r.draft = s.saved.text /\ r.dirty = TRUE
<1>1. s.saved.text \in Texts
  BY DraftTypes DEF Viewer
<1>2. QED
  BY <1>1 DEF Restores, Viewer

LEMMA CleanTypes ==
  ASSUME NEW s \in Viewer
  PROVE  LET r == Clean(s)
         IN  /\ r \in Viewer /\ r.mode = s.mode /\ r.saved = s.saved /\ r.dialog = s.dialog
             /\ r.at = s.at /\ r.target = s.target /\ r.base = s.base /\ r.beatBase = s.beatBase
             /\ r.shown = s.shown /\ r.draft = s.draft /\ r.dirty = FALSE
BY DEF Clean, Viewer

LEMMA DiscardsTypes ==
  ASSUME NEW s \in Viewer, NEW x \in Texts
  PROVE  LET r == Discards(s, x)
         IN  /\ r \in Viewer /\ r.mode = s.mode /\ r.saved = NoDraft /\ r.dialog = FALSE
             /\ r.at = s.at /\ r.base = s.base /\ r.beatBase = s.beatBase
             /\ r.shown = x /\ r.draft = s.draft /\ r.dirty = FALSE
<1>1. PICK a \in Viewer : /\ a = [s EXCEPT !.dialog = FALSE, !.saved = NoDraft, !.shown = x]
                          /\ a.mode = s.mode /\ a.saved = NoDraft /\ a.dialog = FALSE
                          /\ a.at = s.at /\ a.base = s.base /\ a.beatBase = s.beatBase
                          /\ a.shown = x /\ a.draft = s.draft
  <2>1. [s EXCEPT !.dialog = FALSE, !.saved = NoDraft, !.shown = x] \in Viewer
    BY DEF Viewer
  <2>2. QED
    BY <2>1 DEF Viewer
<1>2. QED
  BY <1>1, CleanTypes DEF Discards

LEMMA TypedTypes ==
  ASSUME NEW s \in Viewer, NEW x \in Texts
  PROVE  LET r == Typed(s, x)
         IN  /\ r \in Viewer /\ r.mode = s.mode /\ r.saved = s.saved /\ r.dialog = s.dialog
             /\ r.at = s.at /\ r.target = s.target /\ r.base = s.base /\ r.beatBase = s.beatBase
             /\ r.shown = x /\ r.draft = x /\ r.dirty = TRUE
BY DEF Typed, Viewer

LEMMA RebasedTypes ==
  ASSUME NEW s \in Viewer, NEW b \in Revisions
  PROVE  LET r == Rebased(s, b)
         IN  /\ r \in Viewer /\ r.mode = s.mode /\ r.saved = s.saved /\ r.dialog = s.dialog
             /\ r.at = s.at /\ r.target = s.target /\ r.base = b /\ r.beatBase = s.beatBase
             /\ r.shown = s.shown /\ r.draft = s.draft /\ r.dirty = s.dirty
BY DEF Rebased, Viewer

LEMMA BlockedTypes ==
  ASSUME NEW s \in Viewer, NEW b \in BOOLEAN
  PROVE  Blocked(s, b) \in Viewer /\ Alike(Blocked(s, b), s)
BY DEF Blocked, Viewer, Alike

LEMMA MovedTypes ==
  ASSUME NEW s \in Viewer, NEW p \in Places
  PROVE  LET r == Moved(s, p)
         IN  /\ r \in Viewer /\ r.mode = s.mode /\ r.saved = s.saved /\ r.dialog = s.dialog
             /\ r.at = p /\ r.target = s.target /\ r.base = s.base /\ r.beatBase = s.beatBase
             /\ r.shown = s.shown /\ r.draft = s.draft /\ r.dirty = s.dirty
BY DEF Moved, Viewer

\* A session that was being edited ends as a fresh tab, any other goes on.
LEMMA EndedTypes ==
  ASSUME NEW s \in Viewer
  PROVE  LET r == Ended(s)
         IN  /\ r \in Viewer /\ r.mode # "editing" /\ r.at = s.at /\ r.dirty = s.dirty
             /\ s.mode = "editing" =>
                  /\ r.mode = "reading" /\ r.saved = NoDraft /\ r.dialog = FALSE
                  /\ r.base = 0 /\ r.beatBase = 0
             /\ s.mode # "editing" => Alike(r, s)
<1>1. CASE s.mode = "editing"
  <2>1. [Opened EXCEPT !.at = s.at, !.draft = s.draft, !.dirty = s.dirty] \in Viewer
    BY OpenedTypes DEF Viewer
  <2>2. QED
    BY <1>1, <2>1, OpenedTypes DEF Ended, Viewer
<1>2. CASE s.mode # "editing"
  <2>1. Ended(s) = Blocked(s, FALSE)
    BY <1>2 DEF Ended, Blocked
  <2>2. Ended(s) \in Viewer /\ Alike(Ended(s), s)
    BY <2>1, BlockedTypes
  <2>3. QED
    BY <1>2, <2>2 DEF Alike
<1>3. QED
  BY <1>1, <1>2

LEMMA ReloadedTypes ==
  ASSUME NEW p \in Places
  PROVE  LET r == [Opened EXCEPT !.at = p]
         IN  /\ r \in Viewer /\ r.mode = "reading" /\ r.saved = NoDraft /\ r.dialog = FALSE
             /\ r.at = p /\ r.base = 0 /\ r.beatBase = 0 /\ r.dirty = FALSE
BY OpenedTypes DEF Viewer
----------------------------------------------------------------------------
(* A step of one tab leaves what holds of the others. *)

Unmoved(u) ==
  /\ tab'[u] = tab[u] /\ store'[u] = store[u] /\ save'[u] = save[u]
  /\ beat'[u] = beat[u] /\ leaving'[u] = leaving[u]

\* What every step does to the server and to the history.
Onward ==
  /\ events \subseteq events' /\ settled \subseteq settled'
  /\ \/ head' = head /\ text' = text
     \/ head' = head + 1 /\ \A p \in Pages : text'[p] \subseteq settled'

LEMMA OthersKeep ==
  ASSUME IInv, Onward, NEW u \in Tabs, Unmoved(u)
  PROVE  /\ TabInv(u)' /\ BasesInv(u)' /\ FlightInv(u)'
         /\ Sighted' => SightedInv(u)'
         /\ Quiet' => QuietInv(u)'
         /\ Held(u) = Held(u)'
<1> USE DEF Onward, Unmoved
<1>1. TypeOK /\ TabInv(u) /\ BasesInv(u) /\ FlightInv(u)
  BY DEF IInv
<1>2. /\ head \in Int /\ head' \in Int /\ head <= head'
      /\ tab[u].base \in Int /\ tab[u].beatBase \in Int /\ save[u].base \in Int
      /\ save[u].rev \in Int /\ beat[u].base \in Int /\ tab[u].saved.base \in Int
      /\ \A p \in Pages : store[u][p].base \in Int
  BY <1>1, TabTypes, RevisionTypes, DraftTypes
<1>3. TabInv(u)'
  BY <1>1 DEF TabInv, Opening, Editing, OnPage, Saving
<1>4. BasesInv(u)'
  BY <1>1, <1>2 DEF BasesInv
<1>5. FlightInv(u)'
  BY <1>1 DEF FlightInv, Editing, Saving
<1>6. ASSUME Sighted'
      PROVE  SightedInv(u)'
  <2>1. SightedInv(u)
    BY <1>6 DEF IInv, Sighted
  <2>2. CASE head' = head /\ text' = text
    BY <2>1, <2>2 DEF SightedInv, Opening, Editing, Saving
  <2>3. CASE head' = head + 1
    BY <1>1, <1>2, <2>1, <2>3 DEF SightedInv, BasesInv, Opening, Editing, Saving
  <2>4. QED
    BY <2>2, <2>3
<1>7. ASSUME Quiet'
      PROVE  QuietInv(u)'
  <2>1. QuietInv(u)
    BY <1>7 DEF IInv, Quiet
  <2>2. \A x, y : x \subseteq y \cup settled => x \subseteq y \cup settled'
    OBVIOUS
  <2>3. SameText(store[u][tab[u].at], tab[u].saved) =>
          SameText(store[u][tab[u].at], tab[u].saved)'
    BY <2>2 DEF SameText
  <2>4. SameText(store[u][tab[u].target], tab[u].saved) =>
          SameText(store[u][tab[u].target], tab[u].saved)'
    BY <2>2 DEF SameText
  <2>5. QED
    BY <2>1, <2>2, <2>3, <2>4 DEF QuietInv, Opening, Editing, Saving
<1>8. Held(u) = Held(u)'
  BY DEF Held, Editing
<1>9. QED
  BY <1>3, <1>4, <1>5, <1>6, <1>7, <1>8

\* What a step of t has to keep.
Keeps(t) ==
  /\ TypeOK'
  /\ \A p \in Pages : text'[p] \subseteq settled'
  /\ TabInv(t)' /\ BasesInv(t)' /\ FlightInv(t)'
  /\ Sighted' => SightedInv(t)'
  /\ Quiet' => QuietInv(t)'
  /\ Quiet' => 1 .. edits' \subseteq 1 .. edits \cup settled' \cup Held(t)'
  /\ Quiet' => Held(t) \subseteq settled' \cup Held(t)'

LEMMA StepKeeps ==
  ASSUME IInv, Onward, NEW t \in Tabs, Keeps(t), \A u \in Tabs \ {t} : Unmoved(u)
  PROVE  IInv'
<1>1. \A u \in Tabs : TabInv(u)' /\ BasesInv(u)' /\ FlightInv(u)'
  BY OthersKeep DEF Keeps
<1>2. Sighted' => \A u \in Tabs : SightedInv(u)'
  BY OthersKeep DEF Keeps
<1>3. Quiet' => \A u \in Tabs : QuietInv(u)'
  BY OthersKeep DEF Keeps
<1>4. EditsKept'
  <2>1. SUFFICES ASSUME Quiet', NEW e \in 1 .. edits'
                 PROVE  e \in settled' \/ \E u \in Tabs : e \in Held(u)'
    BY DEF EditsKept, Quiet
  <2>2. e \in 1 .. edits \/ e \in settled' \/ e \in Held(t)'
    BY <2>1 DEF Keeps
  <2>3. ASSUME e \in 1 .. edits
        PROVE  e \in settled' \/ \E u \in Tabs : e \in Held(u)'
    <3>1. Quiet /\ settled \subseteq settled'
      BY <2>1 DEF Onward, Quiet
    <3>2. e \in settled \/ \E u \in Tabs : e \in Held(u)
      BY <2>3, <3>1 DEF IInv, EditsKept, Quiet
    <3>3. ASSUME NEW u \in Tabs, e \in Held(u)
          PROVE  e \in settled' \/ \E v \in Tabs : e \in Held(v)'
      <4>1. CASE u = t
        BY <2>1, <3>3, <4>1 DEF Keeps
      <4>2. CASE u # t
        <5>1. Held(u) = Held(u)'
          BY <3>3, <4>2, OthersKeep
        <5>2. QED
          BY <3>3, <5>1
      <4>3. QED
        BY <4>1, <4>2
    <3>4. QED
      BY <3>1, <3>2, <3>3
  <2>4. QED
    BY <2>2, <2>3
<1>5. QED
  BY <1>1, <1>2, <1>3, <1>4 DEF IInv, Keeps
----------------------------------------------------------------------------
(* Opening a session. *)

\* The facts about a tab that every step of it starts from.
LEMMA Before ==
  ASSUME IInv, NEW t \in Tabs
  PROVE  /\ TypeOK /\ TabInv(t) /\ BasesInv(t) /\ FlightInv(t)
         /\ Sighted => SightedInv(t)
         /\ Quiet => QuietInv(t)
         /\ Sighted' /\ Onward => SightedInv(t)
         /\ Quiet' /\ Onward => QuietInv(t)
BY DEF IInv, Onward, Sighted, Quiet

LEMMA StartEditingKeeps ==
  ASSUME IInv, NEW t \in Tabs, StartEditing(t)
  PROVE  IInv'
<1> DEFINE s == tab[t]
           d == store[t][s.at]
<1>1. /\ s.mode = "reading" /\ s.at \in Pages /\ UNCHANGED <<store, save, beat, leaving>>
      /\ UNCHANGED <<head, text, holder, edits, settled, events>>
  BY DEF StartEditing, OnPage, flights, server
<1>2. /\ TypeOK /\ s \in Viewer /\ d \in Drafts
      /\ \A p \in Pages : text[p] \in Texts
  BY <1>1, TabTypes DEF IInv, Drafts
<1>3. Render(t, Acquires(s, d))
  BY DEF StartEditing, Acquires
<1>4. /\ tab' \in [Tabs -> Viewer] /\ \A u \in Tabs \ {t} : tab'[u] = tab[u]
      /\ tab'[t].mode = "acquiring" /\ tab'[t].target = s.at /\ tab'[t].saved = d
      /\ tab'[t].at = s.at /\ tab'[t].dialog = s.dialog /\ tab'[t].base = s.base
      /\ tab'[t].beatBase = s.beatBase /\ tab'[t].dirty = s.dirty
  <2>1. Acquires(s, d) \in Viewer
    BY <1>2, AcquiresTypes
  <2>2. Alike(tab'[t], Acquires(s, d))
    BY <1>2, <1>3, <2>1, RenderStep
  <2>3. QED
    BY <1>2, <1>3, <2>1, <2>2, RenderStep, AcquiresTypes DEF Alike
<1> HIDE DEF d
<1>5. Onward /\ \A u \in Tabs \ {t} : Unmoved(u)
  BY <1>1, <1>4 DEF Onward, Unmoved
<1>6. TypeOK' /\ \A p \in Pages : text'[p] \subseteq settled'
  BY <1>1, <1>2, <1>4 DEF TypeOK, IInv
<1>7. TabInv(t)' /\ BasesInv(t)' /\ FlightInv(t)'
  BY <1>1, <1>4, Before DEF TabInv, BasesInv, FlightInv, Opening, Editing, Saving, OnPage, d
<1>8. Sighted' => SightedInv(t)'
  BY <1>1, <1>4, <1>5, Before DEF SightedInv, Opening, Editing, Saving, d
<1>9. Quiet' => QuietInv(t)'
  BY <1>1, <1>4, <1>5, Before DEF QuietInv, SameText, Opening, Editing, Saving, d
<1>10. Held(t) \subseteq Held(t)' /\ edits' = edits
  <2>1. tab[t].saved = NoDraft
    BY <1>1, Before DEF TabInv, Opening, Editing
  <2>2. QED
    BY <1>1, <1>4, <2>1, DraftTypes DEF Held, Editing
<1>11. QED
  BY <1>5, <1>6, <1>7, <1>8, <1>9, <1>10, StepKeeps DEF Keeps

\* A session that does not open gives back the draft, which is still stored.
LEMMA GivingUpKeeps ==
  ASSUME IInv, NEW t \in Tabs, NEW s \in Viewer, Opening(t),
         Alike(s, GivesUp(tab[t])), Render(t, s),
         holder' \in [Pages -> Tabs \cup {Nobody, Colleague}],
         UNCHANGED <<store, flights, head, text, edits, settled, events>>
  PROVE  IInv'
<1>1. /\ UNCHANGED <<store, save, beat, leaving>>
      /\ UNCHANGED <<head, text, edits, settled, events>>
  BY DEF flights
<1>2. TypeOK /\ tab[t] \in Viewer
  BY TabTypes DEF IInv
<1>3. /\ tab' \in [Tabs -> Viewer] /\ \A u \in Tabs \ {t} : tab'[u] = tab[u]
      /\ tab'[t].mode = "reading" /\ tab'[t].saved = NoDraft
      /\ tab'[t].at = tab[t].at /\ tab'[t].dialog = tab[t].dialog
      /\ tab'[t].base = tab[t].base /\ tab'[t].beatBase = tab[t].beatBase
      /\ tab'[t].dirty = tab[t].dirty
  <2>1. Alike(tab'[t], s)
    BY <1>2, RenderStep
  <2>2. QED
    BY <1>2, <2>1, RenderStep, GivesUpTypes DEF Alike
<1>4. Onward /\ \A u \in Tabs \ {t} : Unmoved(u)
  BY <1>1, <1>3 DEF Onward, Unmoved
<1>5. TypeOK' /\ \A p \in Pages : text'[p] \subseteq settled'
  BY <1>1, <1>2, <1>3 DEF TypeOK, IInv
<1>6. TabInv(t)' /\ BasesInv(t)' /\ FlightInv(t)'
  <2>1. head \in Int /\ 0 <= head
    BY <1>2, TabTypes, RevisionTypes
  <2>2. QED
    BY <1>1, <1>3, <2>1, Before, DraftTypes
       DEF TabInv, BasesInv, FlightInv, Opening, Editing, Saving, OnPage
<1>7. Sighted' => SightedInv(t)'
  BY <1>1, <1>3, <1>4, Before DEF SightedInv, Opening, Editing, Saving
<1>8. Quiet' => QuietInv(t)'
  BY <1>1, <1>3, <1>4, Before DEF QuietInv, SameText, Opening, Editing, Saving
<1>9. Quiet' => Held(t) \subseteq settled' \cup Held(t)'
  <2>1. tab[t].target \in Pages /\ ~Editing(t)
    BY Before DEF TabInv, Opening, Editing
  <2>2. ASSUME Quiet'
        PROVE  tab[t].saved.text \subseteq store[t][tab[t].target].text \cup settled
    BY <1>4, <2>2, Before DEF QuietInv, SameText
  <2>3. QED
    BY <1>1, <2>1, <2>2 DEF Held
<1>10. QED
  BY <1>1, <1>4, <1>5, <1>6, <1>7, <1>8, <1>9, StepKeeps DEF Keeps

LEMMA AcquiredKeeps ==
  ASSUME IInv, NEW t \in Tabs, tab[t].mode = "acquiring", Render(t, Fetches(tab[t])),
         holder' \in [Pages -> Tabs \cup {Nobody, Colleague}],
         UNCHANGED <<store, flights, head, text, edits, settled, events>>
  PROVE  IInv'
<1>1. /\ UNCHANGED <<store, save, beat, leaving>>
      /\ UNCHANGED <<head, text, edits, settled, events>>
  BY DEF flights
<1>2. TypeOK /\ tab[t] \in Viewer
  BY TabTypes DEF IInv
<1>3. /\ tab' \in [Tabs -> Viewer] /\ \A u \in Tabs \ {t} : tab'[u] = tab[u]
      /\ tab'[t].mode = "fetching" /\ tab'[t].saved = tab[t].saved
      /\ tab'[t].target = tab[t].target
      /\ tab'[t].at = tab[t].at /\ tab'[t].dialog = tab[t].dialog
      /\ tab'[t].base = tab[t].base /\ tab'[t].beatBase = tab[t].beatBase
      /\ tab'[t].dirty = tab[t].dirty
  <2>1. Fetches(tab[t]) \in Viewer
    BY <1>2, FetchesTypes
  <2>2. Alike(tab'[t], Fetches(tab[t]))
    BY <1>2, <2>1, RenderStep
  <2>3. QED
    BY <1>2, <2>1, <2>2, RenderStep, FetchesTypes DEF Alike
<1>4. Onward /\ \A u \in Tabs \ {t} : Unmoved(u)
  BY <1>1, <1>3 DEF Onward, Unmoved
<1>5. TypeOK' /\ \A p \in Pages : text'[p] \subseteq settled'
  BY <1>1, <1>2, <1>3 DEF TypeOK, IInv
<1>6. TabInv(t)' /\ BasesInv(t)' /\ FlightInv(t)'
  BY <1>1, <1>3, Before DEF TabInv, BasesInv, FlightInv, Opening, Editing, Saving, OnPage
<1>7. Sighted' => SightedInv(t)'
  BY <1>1, <1>3, <1>4, Before DEF SightedInv, Opening, Editing, Saving
<1>8. Quiet' => QuietInv(t)'
  BY <1>1, <1>3, <1>4, Before DEF QuietInv, SameText, Opening, Editing, Saving
<1>9. Held(t) \subseteq Held(t)'
  BY <1>1, <1>3 DEF Held, Editing
<1>10. QED
  BY <1>1, <1>4, <1>5, <1>6, <1>7, <1>8, <1>9, StepKeeps DEF Keeps

LEMMA ReleaseTypes ==
  ASSUME TypeOK, NEW t \in Tabs, NEW p, Release(t, p) \/ UNCHANGED holder
  PROVE  holder' \in [Pages -> Tabs \cup {Nobody, Colleague}]
BY DEF TypeOK, Release

LEMMA AcquireAnsweredKeeps ==
  ASSUME IInv, NEW t \in Tabs, AcquireAnswered(t)
  PROVE  IInv'
<1> DEFINE s == tab[t]
           back == [s EXCEPT !.mode = "reading", !.saved = NoDraft, !.target = Home]
           held == [s EXCEPT !.mode = "reading", !.saved = NoDraft, !.target = Home,
                             !.blocked = holder[s.target] # Nobody]
<1>1. /\ s.mode = "acquiring"
      /\ UNCHANGED <<store, flights, head, text, edits, settled, events>>
  BY DEF AcquireAnswered
<1>2. TypeOK /\ s \in Viewer /\ Opening(t) /\ GivesUp(s) \in Viewer
  BY <1>1, TabTypes, GivesUpTypes DEF IInv, Opening
<1>3. /\ back = GivesUp(s)
      /\ \E b \in BOOLEAN : held = Blocked(GivesUp(s), b)
  BY DEF GivesUp, Blocked
<1> HIDE DEF back, held
<1>4. /\ back \in Viewer /\ Alike(back, GivesUp(s))
      /\ held \in Viewer /\ Alike(held, GivesUp(s))
  <2>1. Alike(GivesUp(s), GivesUp(s))
    BY DEF Alike
  <2>2. QED
    BY <1>2, <1>3, <2>1, BlockedTypes
<1>5. \/ /\ holder' = [holder EXCEPT ![s.target] = t]
         /\ Render(t, Fetches(s)) \/ Render(t, back)
      \/ Render(t, held) /\ UNCHANGED holder
  BY DEF AcquireAnswered, Fetches, back, held
<1>6. holder' \in [Pages -> Tabs \cup {Nobody, Colleague}]
  BY <1>2, <1>5 DEF TypeOK
<1>7. CASE Render(t, Fetches(s))
  BY <1>1, <1>6, <1>7, AcquiredKeeps
<1>8. CASE Render(t, back)
  BY <1>1, <1>2, <1>4, <1>6, <1>8, GivingUpKeeps
<1>9. CASE Render(t, held)
  BY <1>1, <1>2, <1>4, <1>6, <1>9, GivingUpKeeps
<1>10. QED
  BY <1>5, <1>7, <1>8, <1>9

LEMMA FetchFailedKeeps ==
  ASSUME IInv, NEW t \in Tabs, FetchFailed(t)
  PROVE  IInv'
<1>1. /\ tab[t].mode = "fetching" /\ Render(t, GivesUp(tab[t]))
      /\ Release(t, tab[t].target) \/ UNCHANGED holder
      /\ UNCHANGED <<store, flights, head, text, edits, settled, events>>
  BY DEF FetchFailed, GivesUp
<1>2. TypeOK /\ Opening(t) /\ GivesUp(tab[t]) \in Viewer
  BY <1>1, TabTypes, GivesUpTypes DEF IInv, Opening
<1>3. Alike(GivesUp(tab[t]), GivesUp(tab[t]))
  BY DEF Alike
<1>4. QED
  BY <1>1, <1>2, <1>3, ReleaseTypes, GivingUpKeeps

LEMMA PageFetchedKeeps ==
  ASSUME IInv, NEW t \in Tabs, PageFetched(t)
  PROVE  IInv'
<1> DEFINE s == tab[t]
           resumed == Resumes(s.saved)
           stale == s.saved # NoDraft /\ ~resumed
           kept == IF stale THEN s.saved ELSE NoDraft
           shown == IF stale THEN {} ELSE IF resumed THEN s.saved.text ELSE text[s.target]
           dirty == resumed /\ s.saved.text # {}
           fetched == Opens(s, head, stale, kept, shown, dirty)
<1>1. /\ s.mode = "fetching" /\ s.target \in Pages
      /\ UNCHANGED <<store, save, beat, leaving>>
      /\ UNCHANGED <<head, text, holder, edits, settled>>
      /\ events \subseteq events' /\ events' \subseteq Events
      /\ "moved" \notin events' => s.at = s.target
      /\ "late" \notin events' => ~Saving(t) /\ beat[t] = NoBeat /\ leaving[t] = Home
  <2>1. s.mode = "fetching" /\ UNCHANGED <<store, flights, server, edits, settled>>
    BY DEF PageFetched
  <2>2. events' = events \cup (IF s.at # s.target THEN {"moved"} ELSE {})
          \cup (IF Saving(t) \/ beat[t] # NoBeat \/ leaving[t] # Home THEN {"late"} ELSE {})
    BY DEF PageFetched
  <2>3. s.target \in Pages /\ events \subseteq Events
    BY <2>1, Before DEF TabInv, Opening, TypeOK
  <2>4. QED
    BY <2>1, <2>2, <2>3 DEF flights, server, Events
<1>2. /\ TypeOK /\ s \in Viewer /\ s.saved \in Drafts /\ head \in Revisions
      /\ text[s.target] \in Texts /\ s.saved.text \in Texts
  BY <1>1, TabTypes, DraftTypes DEF IInv, Drafts
<1>3. stale \in BOOLEAN /\ kept \in Drafts /\ shown \in Texts /\ dirty \in BOOLEAN
  BY <1>2, TextTypes DEF Drafts
<1>4. Render(t, fetched)
  BY DEF PageFetched, Opens
<1>5. /\ resumed => s.saved.base = head /\ kept = NoDraft /\ shown = s.saved.text
      /\ stale => kept = s.saved
      /\ ~resumed /\ ~stale => s.saved = NoDraft /\ kept = NoDraft /\ shown = text[s.target]
      /\ ~dirty /\ ~stale => shown = {} \/ shown = text[s.target]
      /\ stale => shown = {} /\ ~dirty
      /\ ~stale => kept = NoDraft
  BY DEF Resumes
<1> HIDE DEF resumed, stale, kept, shown, dirty, fetched
<1>6. /\ tab' \in [Tabs -> Viewer] /\ \A u \in Tabs \ {t} : tab'[u] = tab[u]
      /\ tab'[t].mode = "editing" /\ tab'[t].saved = kept /\ tab'[t].dialog = stale
      /\ tab'[t].at = s.at /\ tab'[t].base = head /\ tab'[t].beatBase = head
      /\ tab'[t].shown = shown /\ tab'[t].dirty = dirty /\ tab'[t].draft = s.draft
  <2>1. /\ fetched \in Viewer /\ fetched.mode = "editing" /\ fetched.saved = kept
        /\ fetched.dialog = stale /\ fetched.at = s.at /\ fetched.base = head
        /\ fetched.beatBase = head /\ fetched.shown = shown /\ fetched.dirty = dirty
        /\ fetched.draft = s.draft
    BY <1>2, <1>3, OpensTypes DEF fetched
  <2>2. Alike(tab'[t], fetched)
    BY <1>2, <1>4, <2>1, RenderStep
  <2>3. QED
    BY <1>2, <1>4, <2>1, <2>2, RenderStep DEF Alike
<1>7. Onward /\ \A u \in Tabs \ {t} : Unmoved(u)
  BY <1>1, <1>6 DEF Onward, Unmoved
<1>8. TypeOK' /\ \A p \in Pages : text'[p] \subseteq settled'
  BY <1>1, <1>2, <1>6 DEF TypeOK, IInv
<1>9. TabInv(t)' /\ BasesInv(t)' /\ FlightInv(t)'
  <2>1. head \in Int /\ 0 <= head
    BY <1>2, RevisionTypes
  <2>2. TabInv(t)' /\ FlightInv(t)'
    BY <1>1, <1>5, <1>6, Before DEF TabInv, FlightInv, Opening, Editing, Saving, OnPage
  <2>3. BasesInv(t)'
    BY <1>1, <1>5, <1>6, <2>1, Before, DraftTypes DEF BasesInv
  <2>4. QED
    BY <2>2, <2>3
<1>10. ASSUME Sighted'
       PROVE  SightedInv(t)'
  <2>1. SightedInv(t) /\ s.at = s.target /\ ~Saving(t)
    BY <1>1, <1>7, <1>10, Before DEF Sighted, Blinding
  <2>2. ~stale => text[s.target] \subseteq shown
    BY <1>1, <1>5, <2>1 DEF SightedInv, Opening
  <2>3. QED
    BY <1>1, <1>6, <2>1, <2>2 DEF SightedInv, Opening, Editing, Saving
<1>11. ASSUME Quiet'
       PROVE  QuietInv(t)'
  <2>1. /\ s.at = s.target /\ ~Saving(t) /\ leaving[t] = Home
        /\ SameText(store[t][s.at], s.saved)
    BY <1>1, <1>7, <1>11, Before DEF Quiet, QuietInv, Opening
  <2>2. ~dirty => shown \subseteq settled
    BY <1>1, <1>5 DEF IInv
  <2>3. ~stale => store[t][s.at].text \subseteq shown \cup settled
    BY <1>5, <2>1, DraftTypes DEF SameText
  <2>4. stale => SameText(store[t][s.at], kept)
    BY <1>5, <2>1
  <2>5. QED
    BY <1>1, <1>6, <2>1, <2>2, <2>3, <2>4 DEF QuietInv, SameText, Opening, Editing, Saving
<1>12. Held(t) \subseteq Held(t)'
  <2>1. s.saved.text \subseteq shown \cup kept.text
    BY <1>5, DraftTypes
  <2>2. QED
    BY <1>1, <1>6, <2>1 DEF Held, Editing
<1>13. QED
  BY <1>1, <1>7, <1>8, <1>9, <1>10, <1>11, <1>12, StepKeeps DEF Keeps
----------------------------------------------------------------------------
(* The dialog, typing and the timer. *)

LEMMA RestoreDraftKeeps ==
  ASSUME IInv, NEW t \in Tabs, RestoreDraft(t)
  PROVE  IInv'
<1> DEFINE s == tab[t]
           d == [text |-> s.saved.text, base |-> s.base]
<1>1. /\ Editing(t) /\ s.dialog /\ s.at \in Pages
      /\ UNCHANGED <<save, beat, leaving>> /\ UNCHANGED <<head, text, holder, edits, settled>>
      /\ events' = events \cup {"restored"}
      /\ Render(t, Restores(s)) /\ StoreDraft(t, s.at, d)
  BY DEF RestoreDraft, OnPage, flights, server, Happens, Restores
<1>2. /\ TypeOK /\ s \in Viewer /\ d \in Drafts /\ d.text = s.saved.text /\ d.base = s.base
      /\ s.base \in Int /\ s.base <= head
  BY TabTypes, DraftTypes, RevisionTypes, Before DEF IInv, Drafts, BasesInv
<1> HIDE DEF d
<1>3. /\ tab' \in [Tabs -> Viewer] /\ \A u \in Tabs \ {t} : tab'[u] = tab[u]
      /\ tab'[t].mode = "editing" /\ tab'[t].saved = NoDraft /\ tab'[t].dialog = FALSE
      /\ tab'[t].at = s.at /\ tab'[t].base = s.base /\ tab'[t].beatBase = s.beatBase
      /\ tab'[t].shown = s.saved.text /\ tab'[t].draft = s.saved.text /\ tab'[t].dirty = TRUE
  <2> DEFINE r == Restores(s)
  <2>1. /\ r \in Viewer /\ r.mode = s.mode /\ r.saved = NoDraft /\ r.dialog = FALSE
        /\ r.at = s.at /\ r.base = s.base /\ r.beatBase = s.beatBase
        /\ r.shown = s.saved.text /\ r.draft = s.saved.text /\ r.dirty = TRUE
    BY <1>2, RestoresTypes
  <2>2. Render(t, r) /\ s.mode = "editing"
    BY <1>1 DEF Editing
  <2> HIDE DEF r
  <2>3. Alike(tab'[t], r)
    BY <1>2, <2>1, <2>2, RenderStep
  <2>4. QED
    BY <1>2, <2>1, <2>2, <2>3, RenderStep DEF Alike
<1>4. /\ store' \in [Tabs -> [Pages -> Drafts]] /\ \A u \in Tabs \ {t} : store'[u] = store[u]
      /\ \A q \in Pages : store'[t][q] = IF q = s.at THEN d ELSE store[t][q]
  BY <1>1, <1>2, StoreStep DEF Drafts
<1>5. Onward /\ \A u \in Tabs \ {t} : Unmoved(u)
  BY <1>1, <1>3, <1>4 DEF Onward, Unmoved
<1>6. TypeOK' /\ \A p \in Pages : text'[p] \subseteq settled'
  BY <1>1, <1>2, <1>3, <1>4 DEF TypeOK, IInv, Drafts, Events
<1>7. TabInv(t)' /\ BasesInv(t)' /\ FlightInv(t)'
  <2>1. head \in Int /\ 0 <= head
    BY <1>2, TabTypes, RevisionTypes
  <2>2. TabInv(t)'
    BY <1>1, <1>3, Before DEF TabInv, Opening, Editing, Saving, OnPage
  <2>3. FlightInv(t)'
    BY <1>1, <1>3, Before DEF FlightInv, Editing, Saving
  <2>4. BasesInv(t)'
    <3>1. BasesInv(t) /\ NoDraft.base <= head /\ d.base <= head /\ head' = head
      BY <1>1, <1>2, <2>1, Before, DraftTypes
    <3>2. \A q \in Pages : store'[t][q].base <= head'
      BY <1>4, <3>1 DEF BasesInv
    <3>3. save' = save /\ beat' = beat
      BY <1>1
    <3>4. QED
      BY <1>3, <3>1, <3>2, <3>3 DEF BasesInv
  <2>5. QED
    BY <2>2, <2>3, <2>4
<1>8. ~Sighted'
  BY <1>1 DEF Sighted, Blinding
<1>9. ASSUME Quiet'
      PROVE  QuietInv(t)' /\ Held(t) \subseteq settled' \cup Held(t)'
  <2>1. QuietInv(t) /\ TabInv(t)
    BY <1>5, <1>9, Before
  <2>2. ~Saving(t) /\ s.shown \subseteq settled /\ SameText(store[t][s.at], s.saved)
    BY <1>1, <2>1 DEF QuietInv, TabInv
  <2>3. QuietInv(t)'
    BY <1>1, <1>2, <1>3, <1>4, <2>1, <2>2 DEF QuietInv, Opening, Editing, Saving
  <2>4. Held(t) \subseteq settled \cup Held(t)'
    BY <1>1, <1>2, <1>3, <1>4, <2>2 DEF Held, SameText, Editing
  <2>5. QED
    BY <1>1, <2>3, <2>4
<1>10. QED
  BY <1>1, <1>5, <1>6, <1>7, <1>8, <1>9, StepKeeps DEF Keeps

LEMMA DiscardDraftKeeps ==
  ASSUME IInv, NEW t \in Tabs, DiscardDraft(t)
  PROVE  IInv'
<1> DEFINE s == tab[t]
<1>1. /\ Editing(t) /\ s.dialog /\ s.at \in Pages
      /\ UNCHANGED <<save, beat, leaving>> /\ UNCHANGED <<head, text, holder, edits, events>>
      /\ settled' = settled \cup s.saved.text
      /\ Render(t, Discards(s, text[s.at])) /\ StoreDraft(t, s.at, NoDraft)
  BY DEF DiscardDraft, OnPage, flights, server, Discards, RemoveDraft
<1>2. /\ TypeOK /\ s \in Viewer /\ text[s.at] \in Texts /\ NoDraft \in Drafts
      /\ settled \in Texts /\ s.saved.text \in Texts
  BY <1>1, TabTypes, DraftTypes DEF IInv, Drafts
<1>3. /\ tab' \in [Tabs -> Viewer] /\ \A u \in Tabs \ {t} : tab'[u] = tab[u]
      /\ tab'[t].mode = "editing" /\ tab'[t].saved = NoDraft /\ tab'[t].dialog = FALSE
      /\ tab'[t].at = s.at /\ tab'[t].base = s.base /\ tab'[t].beatBase = s.beatBase
      /\ tab'[t].shown = text[s.at] /\ tab'[t].dirty = FALSE
  <2>1. PICK r \in Viewer : /\ r = Discards(s, text[s.at])
                            /\ r.mode = s.mode /\ r.saved = NoDraft /\ r.dialog = FALSE
                            /\ r.at = s.at /\ r.base = s.base /\ r.beatBase = s.beatBase
                            /\ r.shown = text[s.at] /\ r.dirty = FALSE
    BY <1>2, DiscardsTypes
  <2>2. Alike(tab'[t], r)
    BY <1>1, <1>2, <2>1, RenderStep
  <2>3. QED
    BY <1>1, <1>2, <2>1, <2>2, RenderStep DEF Alike, Editing
<1>4. /\ store' \in [Tabs -> [Pages -> Drafts]] /\ \A u \in Tabs \ {t} : store'[u] = store[u]
      /\ \A q \in Pages : store'[t][q] = IF q = s.at THEN NoDraft ELSE store[t][q]
  BY <1>1, <1>2, StoreStep DEF Drafts
<1>5. Onward /\ \A u \in Tabs \ {t} : Unmoved(u)
  BY <1>1, <1>3, <1>4 DEF Onward, Unmoved
<1>6. TypeOK' /\ \A p \in Pages : text'[p] \subseteq settled'
  <2>1. settled' \in Texts
    BY <1>1, <1>2, TextTypes
  <2>2. QED
    BY <1>1, <1>2, <1>3, <1>4, <2>1 DEF TypeOK, IInv, Drafts
<1>7. TabInv(t)' /\ BasesInv(t)' /\ FlightInv(t)'
  <2>1. head \in Int /\ 0 <= head
    BY <1>2, TabTypes, RevisionTypes
  <2>2. TabInv(t)' /\ FlightInv(t)'
    BY <1>1, <1>3, Before DEF TabInv, FlightInv, Opening, Editing, Saving, OnPage
  <2>3. BasesInv(t)'
    BY <1>1, <1>2, <1>3, <1>4, <2>1, Before, DraftTypes DEF BasesInv
  <2>4. QED
    BY <2>2, <2>3
<1>8. ASSUME Sighted'
      PROVE  SightedInv(t)'
  <2>1. SightedInv(t) /\ ~Saving(t) /\ head # -1
    BY <1>1, <1>2, <1>5, <1>8, Before, TabTypes, RevisionTypes DEF SightedInv
  <2>2. QED
    BY <1>1, <1>3, <1>4, <2>1, DraftTypes DEF SightedInv, Opening, Editing, Saving
<1>9. ASSUME Quiet'
      PROVE  QuietInv(t)' /\ Held(t) \subseteq settled' \cup Held(t)'
  <2>1. QuietInv(t) /\ TabInv(t) /\ text[s.at] \subseteq settled
    BY <1>1, <1>5, <1>9, Before DEF IInv
  <2>2. ~Saving(t) /\ s.shown \subseteq settled /\ SameText(store[t][s.at], s.saved)
    BY <1>1, <2>1 DEF QuietInv, TabInv
  <2>3. QuietInv(t)'
    BY <1>1, <1>2, <1>3, <1>4, <2>1, <2>2, DraftTypes DEF QuietInv, Opening, Editing, Saving
  <2>4. Held(t) \subseteq settled' \cup Held(t)'
    BY <1>1, <1>2, <1>3, <1>4, <2>2 DEF Held, SameText, Editing
  <2>5. QED
    BY <2>3, <2>4
<1>10. QED
  BY <1>1, <1>5, <1>6, <1>7, <1>8, <1>9, StepKeeps DEF Keeps

LEMMA TypeKeeps ==
  ASSUME IInv, NEW t \in Tabs, Type(t)
  PROVE  IInv'
<1> DEFINE s == tab[t]
           md == s.shown \cup {edits'}
<1>1. /\ Editing(t) /\ ~s.dialog /\ s.at \in Pages /\ edits < MaxEdits /\ edits' = edits + 1
      /\ UNCHANGED <<store, save, beat, leaving>>
      /\ UNCHANGED <<head, text, holder, settled, events>>
      /\ Render(t, Typed(s, md))
  BY DEF Type, OnPage, flights, server, Typed, NewEdit
<1>2. /\ TypeOK /\ s \in Viewer /\ edits' \in 0 .. MaxEdits /\ md \in Texts
      /\ 1 .. edits' \subseteq 1 .. edits \cup {edits'}
  <2>1. TypeOK /\ s \in Viewer /\ s.shown \in Texts /\ edits \in 0 .. MaxEdits
    BY TabTypes DEF IInv, TypeOK
  <2>2. edits' \in 0 .. MaxEdits /\ edits' \in Edits
    BY <1>1, <2>1, BoundsAssumption DEF Edits
  <2>3. 1 .. edits' \subseteq 1 .. edits \cup {edits'}
    BY <1>1, <2>1
  <2>4. QED
    BY <2>1, <2>2, <2>3, TextTypes
<1>3. s.shown \subseteq md /\ edits' \in md
  OBVIOUS
<1> HIDE DEF md
<1>4. /\ tab' \in [Tabs -> Viewer] /\ \A u \in Tabs \ {t} : tab'[u] = tab[u]
      /\ tab'[t].mode = "editing" /\ tab'[t].saved = s.saved /\ tab'[t].dialog = FALSE
      /\ tab'[t].at = s.at /\ tab'[t].base = s.base /\ tab'[t].beatBase = s.beatBase
      /\ tab'[t].shown = md /\ tab'[t].draft = md /\ tab'[t].dirty = TRUE
  <2> DEFINE r == Typed(s, md)
  <2>1. /\ r \in Viewer /\ r.mode = s.mode /\ r.saved = s.saved /\ r.dialog = s.dialog
        /\ r.at = s.at /\ r.base = s.base /\ r.beatBase = s.beatBase
        /\ r.shown = md /\ r.draft = md /\ r.dirty = TRUE
    BY <1>2, TypedTypes
  <2>2. Render(t, r) /\ s.mode = "editing" /\ s.dialog = FALSE
    BY <1>1, <1>2 DEF Editing, Viewer
  <2> HIDE DEF r
  <2>3. Alike(tab'[t], r)
    BY <1>2, <2>1, <2>2, RenderStep
  <2>4. QED
    BY <1>2, <2>1, <2>2, <2>3, RenderStep DEF Alike
<1>5. Onward /\ \A u \in Tabs \ {t} : Unmoved(u)
  BY <1>1, <1>4 DEF Onward, Unmoved
<1>6. TypeOK' /\ \A p \in Pages : text'[p] \subseteq settled'
  BY <1>1, <1>2, <1>4 DEF TypeOK, IInv
<1>7. TabInv(t)' /\ BasesInv(t)' /\ FlightInv(t)'
  BY <1>1, <1>4, Before DEF TabInv, BasesInv, FlightInv, Opening, Editing, Saving, OnPage
<1>8. Sighted' => SightedInv(t)'
  BY <1>1, <1>3, <1>4, <1>5, Before DEF SightedInv, Opening, Editing, Saving
<1>9. Quiet' => QuietInv(t)'
  BY <1>1, <1>3, <1>4, <1>5, Before DEF QuietInv, Opening, Editing, Saving
<1>10. Held(t) \subseteq Held(t)' /\ edits' \in Held(t)'
  BY <1>1, <1>3, <1>4 DEF Held, Editing
<1>11. 1 .. edits' \subseteq 1 .. edits \cup settled' \cup Held(t)'
  BY <1>2, <1>10
<1>12. QED
  BY <1>5, <1>6, <1>7, <1>8, <1>9, <1>10, <1>11, StepKeeps DEF Keeps

LEMMA DraftTimerKeeps ==
  ASSUME IInv, NEW t \in Tabs, DraftTimer(t)
  PROVE  IInv'
<1> DEFINE s == tab[t]
           d == [text |-> s.draft, base |-> s.base]
<1>1. /\ UNCHANGED <<save, beat, leaving>> /\ UNCHANGED <<head, text, holder, edits, settled>>
      /\ StoreDraft(t, s.at, d) /\ events \subseteq events'
      /\ events' \subseteq events \cup {"unsynced"}
      /\ "unsynced" \notin events' => Editing(t) /\ ~s.dialog /\ s.draft = s.shown
  BY DEF DraftTimer, flights, server, Happens, Unsynced
<1>2. /\ TypeOK /\ s \in Viewer /\ d \in Drafts /\ d.text = s.draft /\ d.base = s.base
      /\ s.base \in Int /\ s.base <= head
  BY TabTypes, DraftTypes, RevisionTypes, Before DEF IInv, Drafts, BasesInv
<1> HIDE DEF d
<1>3. /\ tab' \in [Tabs -> Viewer] /\ \A u \in Tabs \ {t} : tab'[u] = tab[u]
      /\ Alike(tab'[t], s)
  <2>1. tab' = [tab EXCEPT ![t] = [tab[t] EXCEPT !.timer = FALSE]]
    BY DEF DraftTimer
  <2>2. tab \in [Tabs -> Viewer]
    BY <1>2 DEF TypeOK
  <2>3. QED
    BY <1>2, <2>1, <2>2, TimedTypes
<1>4. /\ store' \in [Tabs -> [Pages -> Drafts]] /\ \A u \in Tabs \ {t} : store'[u] = store[u]
      /\ \A q \in Pages : store'[t][q] = IF q = s.at THEN d ELSE store[t][q]
  BY <1>1, <1>2, StoreStep DEF Drafts
<1>5. Onward /\ \A u \in Tabs \ {t} : Unmoved(u)
  BY <1>1, <1>3, <1>4 DEF Onward, Unmoved
<1>6. TypeOK' /\ \A p \in Pages : text'[p] \subseteq settled'
  BY <1>1, <1>2, <1>3, <1>4 DEF TypeOK, IInv, Drafts, Events
<1>7. TabInv(t)' /\ BasesInv(t)' /\ FlightInv(t)'
  <2>1. TabInv(t)' /\ FlightInv(t)'
    BY <1>1, <1>3, Before DEF TabInv, FlightInv, Alike, Opening, Editing, Saving, OnPage
  <2>2. BasesInv(t)'
    BY <1>1, <1>2, <1>3, <1>4, Before DEF BasesInv, Alike
  <2>3. QED
    BY <2>1, <2>2
<1>8. ASSUME Sighted'
      PROVE  SightedInv(t)'
  <2>1. SightedInv(t) /\ Editing(t) /\ ~s.dialog /\ s.draft = s.shown
    BY <1>1, <1>5, <1>8, Before DEF Sighted, Blinding
  <2>2. QED
    BY <1>1, <1>2, <1>3, <1>4, <2>1 DEF SightedInv, Alike, Opening, Editing, Saving
<1>9. ASSUME Quiet'
      PROVE  QuietInv(t)' /\ Held(t) \subseteq settled' \cup Held(t)'
  <2>1. /\ QuietInv(t) /\ Editing(t) /\ ~s.dialog /\ s.draft = s.shown /\ s.at \in Pages
    BY <1>1, <1>5, <1>9, Before DEF Quiet, TabInv, OnPage
  <2>2. QuietInv(t)'
    BY <1>1, <1>2, <1>3, <1>4, <2>1 DEF QuietInv, Alike, Opening, Editing, Saving
  <2>3. Held(t) \subseteq settled \cup Held(t)'
    BY <1>1, <1>2, <1>3, <1>4, <2>1 DEF Held, QuietInv, Alike, Editing
  <2>4. QED
    BY <1>1, <2>2, <2>3
<1>10. QED
  BY <1>1, <1>5, <1>6, <1>7, <1>8, <1>9, StepKeeps DEF Keeps
----------------------------------------------------------------------------
(* Saves. *)

Stages == {"none", "sent", "accepted", "refused", "saved"}
Staged(v, stage, rev) == [v EXCEPT !.stage = stage, !.rev = rev]

LEMMA StagedTypes ==
  ASSUME NEW v \in Saves, NEW b \in Revisions, NEW stage \in Stages
  PROVE  LET r == Staged(v, stage, b)
         IN  /\ r \in Saves /\ r.stage = stage /\ r.rev = b /\ r.page = v.page
             /\ r.text = v.text /\ r.base = v.base /\ r.finish = v.finish
BY DEF Staged, Saves, Stages

LEMMA StageStep ==
  ASSUME TypeOK, NEW t \in Tabs, Stage(t, "refused") \/ Stage(t, "saved")
  PROVE  /\ save' \in [Tabs -> Saves] /\ \A u \in Tabs \ {t} : save'[u] = save[u]
         /\ save'[t].stage \in {"refused", "saved"}
         /\ Stage(t, "refused") => save'[t].stage = "refused"
         /\ Stage(t, "saved") => save'[t].stage = "saved"
         /\ save'[t].page = save[t].page /\ save'[t].text = save[t].text
         /\ save'[t].base = save[t].base /\ save'[t].rev = save[t].rev
         /\ save'[t].finish = save[t].finish
<1>1. save \in [Tabs -> Saves] /\ save[t] \in Saves
  BY DEF TypeOK
<1>2. ASSUME NEW x \in {"refused", "saved"}, Stage(t, x)
      PROVE  /\ save' \in [Tabs -> Saves] /\ \A u \in Tabs \ {t} : save'[u] = save[u]
             /\ save'[t] = [save[t] EXCEPT !.stage = x]
  <2>1. [save[t] EXCEPT !.stage = x] \in Saves
    BY <1>1 DEF Saves
  <2>2. save' = [save EXCEPT ![t] = [save[t] EXCEPT !.stage = x]]
    BY <1>2 DEF Stage
  <2>3. QED
    BY <1>1, <2>1, <2>2
<1>3. QED
  BY <1>1, <1>2 DEF Saves

\* What the tab sends is what it shows, or the event says so.
LEMMA SubmitKeeps ==
  ASSUME IInv, NEW t \in Tabs, Editing(t), OnPage(t), ~Saving(t),
         NEW finish \in BOOLEAN, Submit(t, finish)
  PROVE  IInv'
<1> DEFINE s == tab[t]
           new == [stage |-> "sent", page |-> s.at, text |-> s.draft, base |-> s.base,
                   rev |-> 0, finish |-> finish]
<1>1. /\ save' = [save EXCEPT ![t] = new]
      /\ UNCHANGED <<tab, store, beat, leaving>> /\ UNCHANGED <<head, text, holder>>
      /\ UNCHANGED <<edits, settled>>
      /\ events \subseteq events' /\ events' \subseteq events \cup {"unsynced"}
      /\ "unsynced" \notin events' => ~s.dialog /\ s.draft = s.shown
  BY DEF Submit, server, Happens, Unsynced
<1>2. TypeOK /\ s \in Viewer /\ s.at \in Pages /\ save \in [Tabs -> Saves]
  BY TabTypes DEF IInv, OnPage, TypeOK
<1>3. /\ new \in Saves /\ new.stage = "sent" /\ new.page = s.at /\ new.text = s.draft
      /\ new.base = s.base /\ new.rev = 0
  BY <1>2, TabTypes, RevisionTypes DEF Saves, Places
<1> HIDE DEF new
<1>4. /\ save' \in [Tabs -> Saves] /\ \A u \in Tabs \ {t} : save'[u] = save[u]
      /\ save'[t].stage = "sent" /\ save'[t].page = s.at /\ save'[t].text = s.draft
      /\ save'[t].base = s.base /\ save'[t].rev = 0
  BY <1>1, <1>2, <1>3
<1>5. Onward /\ \A u \in Tabs \ {t} : Unmoved(u)
  BY <1>1, <1>4 DEF Onward, Unmoved
<1>6. TypeOK' /\ \A p \in Pages : text'[p] \subseteq settled'
  BY <1>1, <1>2, <1>4 DEF TypeOK, IInv, Events
<1>7. TabInv(t)' /\ BasesInv(t)' /\ FlightInv(t)'
  <2>1. head \in Int /\ 0 <= head
    BY <1>2, TabTypes, RevisionTypes
  <2>2. TabInv(t)' /\ FlightInv(t)'
    BY <1>1, <1>2, <1>4, Before DEF TabInv, FlightInv, Opening, Editing, Saving, OnPage
  <2>3. BasesInv(t)'
    BY <1>1, <1>4, <2>1, Before DEF BasesInv
  <2>4. QED
    BY <2>2, <2>3
<1>8. ASSUME Sighted'
      PROVE  SightedInv(t)'
  <2>1. SightedInv(t) /\ ~s.dialog /\ s.draft = s.shown
    BY <1>1, <1>5, <1>8, Before DEF Sighted, Blinding
  <2>2. QED
    BY <1>1, <1>4, <2>1 DEF SightedInv, Opening, Editing, Saving
<1>9. ASSUME Quiet'
      PROVE  QuietInv(t)'
  <2>1. QuietInv(t) /\ ~s.dialog /\ s.draft = s.shown
    BY <1>1, <1>5, <1>9, Before DEF Quiet
  <2>2. QED
    BY <1>1, <1>4, <2>1 DEF QuietInv, Opening, Editing, Saving
<1>10. Held(t) = Held(t)'
  BY <1>1 DEF Held, Editing
<1>11. QED
  BY <1>1, <1>5, <1>6, <1>7, <1>8, <1>9, <1>10, StepKeeps DEF Keeps

LEMMA LockAndCommitKeeps ==
  ASSUME IInv, NEW t \in Tabs, LockAndCommit(t)
  PROVE  IInv'
<1>1. Editing(t) /\ OnPage(t) /\ ~Saving(t)
  BY DEF LockAndCommit
<1>2. CASE Submit(t, TRUE)
  BY <1>1, <1>2, SubmitKeeps
<1>3. CASE /\ leaving' = [leaving EXCEPT ![t] = tab[t].at]
           /\ Happens("dialog", tab[t].dialog)
           /\ UNCHANGED <<tab, store, save, beat, server, edits, settled>>
  <2>1. /\ leaving' = [leaving EXCEPT ![t] = tab[t].at]
        /\ UNCHANGED <<tab, store, save, beat>> /\ UNCHANGED <<head, text, holder>>
        /\ UNCHANGED <<edits, settled>>
        /\ events \subseteq events' /\ events' \subseteq events \cup {"dialog"}
        /\ "dialog" \notin events' => ~tab[t].dialog
    BY <1>3 DEF server, Happens
  <2>2. TypeOK /\ tab[t].at \in Pages /\ leaving \in [Tabs -> Places]
    BY <1>1 DEF IInv, TypeOK, OnPage
  <2>3. /\ leaving' \in [Tabs -> Places] /\ \A u \in Tabs \ {t} : leaving'[u] = leaving[u]
        /\ leaving'[t] = tab[t].at
    BY <2>1, <2>2 DEF Places
  <2>4. Onward /\ \A u \in Tabs \ {t} : Unmoved(u)
    BY <2>1, <2>3 DEF Onward, Unmoved
  <2>5. TypeOK' /\ \A p \in Pages : text'[p] \subseteq settled'
    BY <2>1, <2>2, <2>3 DEF TypeOK, IInv, Events
  <2>6. TabInv(t)' /\ BasesInv(t)' /\ FlightInv(t)'
    BY <2>1, <2>3, Before DEF TabInv, BasesInv, FlightInv, Opening, Editing, Saving, OnPage
  <2>7. Sighted' => SightedInv(t)'
    BY <2>1, <2>4, Before DEF SightedInv, Opening, Editing, Saving
  <2>8. ASSUME Quiet'
        PROVE  QuietInv(t)'
    <3>1. QuietInv(t) /\ ~tab[t].dialog
      BY <2>1, <2>4, <2>8, Before DEF Quiet
    <3>2. QED
      BY <1>1, <2>1, <3>1 DEF QuietInv, Opening, Editing, Saving
  <2>9. Held(t) = Held(t)'
    BY <2>1 DEF Held, Editing
  <2>10. QED
    BY <2>1, <2>4, <2>5, <2>6, <2>7, <2>8, <2>9, StepKeeps DEF Keeps
<1>4. QED
  BY <1>2, <1>3 DEF LockAndCommit

\* A commit leaves every base behind; the text of the new head is what was sent.
LEMMA SaveServedKeeps ==
  ASSUME IInv, NEW t \in Tabs, SaveServed(t)
  PROVE  IInv'
<1>1. /\ save[t].stage = "sent" /\ head < MaxRevision /\ head' = head + 1
      /\ text' = [text EXCEPT ![save[t].page] = save[t].text]
      /\ settled' = settled \cup save[t].text
      /\ UNCHANGED <<tab, store, beat, leaving>> /\ UNCHANGED <<holder, edits, events>>
  BY DEF SaveServed, Commit
<1>2. /\ TypeOK /\ save \in [Tabs -> Saves] /\ text \in [Pages -> Texts] /\ settled \in Texts
      /\ save[t].page \in Pages /\ save[t].text \in Texts
      /\ head \in Int /\ head' \in Revisions
  BY <1>1, TabTypes, RevisionTypes, Before DEF IInv, TypeOK, TabInv, Saving
<1>3. PICK stage \in {"accepted", "refused"} :
        save' = [save EXCEPT ![t] = Staged(save[t], stage, head')]
  <2>1. PICK stage \in {"accepted", "refused"} :
          save' = [save EXCEPT ![t].stage = stage, ![t].rev = head + 1]
    BY DEF SaveServed
  <2>2. save' = [save EXCEPT ![t] = Staged(save[t], stage, head')]
    BY <1>1, <1>2, <2>1 DEF Staged
  <2>3. QED
    BY <2>2
<1>4. /\ save' \in [Tabs -> Saves] /\ \A u \in Tabs \ {t} : save'[u] = save[u]
      /\ save'[t].stage = stage /\ save'[t].page = save[t].page
      /\ save'[t].text = save[t].text /\ save'[t].base = save[t].base
      /\ save'[t].rev = head + 1
  <2>1. stage \in Stages /\ save[t] \in Saves
    BY <1>2 DEF Stages
  <2> DEFINE r == Staged(save[t], stage, head')
  <2>2. /\ r \in Saves /\ r.stage = stage /\ r.rev = head'
        /\ r.page = save[t].page /\ r.text = save[t].text /\ r.base = save[t].base
    <3>1. head' \in Revisions
      BY <1>2
    <3>2. QED
      BY <2>1, <3>1, StagedTypes
  <2> HIDE DEF r
  <2>3. save' = [save EXCEPT ![t] = r]
    BY <1>3 DEF r
  <2>4. QED
    BY <1>1, <1>2, <2>2, <2>3
<1>5. \A p \in Pages :
        text'[p] \in Texts /\ text'[p] = IF p = save[t].page THEN save[t].text ELSE text[p]
  BY <1>1, <1>2
<1>6. \A p \in Pages : text'[p] \subseteq settled'
  BY <1>1, <1>5 DEF IInv
<1>7. Onward /\ \A u \in Tabs \ {t} : Unmoved(u)
  BY <1>1, <1>4, <1>6 DEF Onward, Unmoved
<1>8. TypeOK'
  <2>1. settled' \in Texts /\ text' \in [Pages -> Texts]
    BY <1>1, <1>2, TextTypes
  <2>2. QED
    BY <1>1, <1>2, <1>4, <2>1 DEF TypeOK
<1>9. TabInv(t)' /\ BasesInv(t)' /\ FlightInv(t)'
  <2>1. /\ tab[t].base \in Int /\ tab[t].beatBase \in Int /\ save[t].base \in Int
        /\ beat[t].base \in Int /\ tab[t].saved.base \in Int
        /\ \A p \in Pages : store[t][p].base \in Int
    BY <1>2, TabTypes, RevisionTypes, DraftTypes
  <2>2. TabInv(t)'
    BY <1>1, <1>4, Before DEF TabInv, Opening, Editing, Saving, OnPage
  <2>3. FlightInv(t)'
    BY <1>1, <1>4, Before DEF FlightInv, Editing, Saving
  <2>4. BasesInv(t)'
    BY <1>1, <1>2, <1>4, <2>1, Before DEF BasesInv
  <2>5. QED
    BY <2>2, <2>3, <2>4
<1>10. ASSUME Sighted'
       PROVE  SightedInv(t)'
  <2>1. SightedInv(t) /\ BasesInv(t)
    BY <1>7, <1>10, Before
  <2>2. /\ tab[t].base # head' /\ tab[t].saved.base # head'
        /\ \A p \in Pages : store[t][p].base # head'
    BY <1>1, <1>2, <2>1, TabTypes, RevisionTypes, DraftTypes DEF BasesInv
  <2>3. QED
    BY <1>1, <1>2, <1>4, <1>5, <2>1, <2>2 DEF SightedInv, Opening, Editing, Saving
<1>11. ASSUME Quiet'
       PROVE  QuietInv(t)'
  <2>1. QuietInv(t)
    BY <1>7, <1>11, Before
  <2>2. /\ SameText(store[t][tab[t].at], tab[t].saved) =>
             SameText(store[t][tab[t].at], tab[t].saved)'
        /\ SameText(store[t][tab[t].target], tab[t].saved) =>
             SameText(store[t][tab[t].target], tab[t].saved)'
    BY <1>1 DEF SameText
  <2>3. settled \subseteq settled' /\ save[t].text \subseteq settled'
    BY <1>1
  <2>4. QED
    BY <1>1, <1>4, <2>1, <2>2, <2>3 DEF QuietInv, Opening, Editing, Saving
<1>12. Held(t) = Held(t)'
  BY <1>1 DEF Held, Editing
<1>13. QED
  BY <1>1, <1>6, <1>7, <1>8, <1>9, <1>10, <1>11, <1>12, StepKeeps DEF Keeps

LEMMA SaveRefusedKeeps ==
  ASSUME IInv, NEW t \in Tabs, SaveRefused(t)
  PROVE  IInv'
<1>1. /\ save[t].stage = "sent" /\ Stage(t, "refused") /\ UNCHANGED <<tab, store, beat, leaving>>
      /\ UNCHANGED <<head, text, holder, edits, settled, events>>
  BY DEF SaveRefused, server
<1>2. /\ save' \in [Tabs -> Saves] /\ \A u \in Tabs \ {t} : save'[u] = save[u]
      /\ save'[t].stage = "refused" /\ save'[t].page = save[t].page
      /\ save'[t].text = save[t].text /\ save'[t].base = save[t].base
      /\ save'[t].rev = save[t].rev
  BY <1>1, StageStep DEF IInv
<1>3. Onward /\ \A u \in Tabs \ {t} : Unmoved(u)
  BY <1>1, <1>2 DEF Onward, Unmoved
<1>4. TypeOK' /\ \A p \in Pages : text'[p] \subseteq settled'
  BY <1>1, <1>2 DEF TypeOK, IInv
<1>5. TabInv(t)' /\ BasesInv(t)' /\ FlightInv(t)'
  BY <1>1, <1>2, Before DEF TabInv, BasesInv, FlightInv, Opening, Editing, Saving, OnPage
<1>6. Sighted' => SightedInv(t)'
  BY <1>1, <1>2, <1>3, Before DEF SightedInv, Opening, Editing, Saving
<1>7. Quiet' => QuietInv(t)'
  BY <1>1, <1>2, <1>3, Before DEF QuietInv, SameText, Opening, Editing, Saving
<1>8. Held(t) = Held(t)'
  BY <1>1 DEF Held, Editing
<1>9. QED
  BY <1>1, <1>3, <1>4, <1>5, <1>6, <1>7, <1>8, StepKeeps DEF Keeps

\* The answer takes the draft of a page whose text is settled.
LEMMA SaveAnsweredKeeps ==
  ASSUME IInv, NEW t \in Tabs, SaveAnswered(t)
  PROVE  IInv'
<1> DEFINE s == tab[t]
<1>1. /\ save[t].stage = "accepted" /\ Stage(t, "saved") /\ Render(t, Clean(s))
      /\ StoreDraft(t, save[t].page, NoDraft)
      /\ UNCHANGED <<beat, leaving>> /\ UNCHANGED <<head, text, holder, edits, settled>>
      /\ events \subseteq events' /\ events' \subseteq events \cup {"typing"}
      /\ "typing" \notin events' => Editing(t) /\ s.draft = save[t].text
  BY DEF SaveAnswered, RemoveDraft, server, Happens
<1>2. TypeOK /\ s \in Viewer /\ NoDraft \in Drafts /\ save[t].page \in Pages
  BY <1>1, TabTypes, Before DEF IInv, Drafts, TabInv, Saving
<1>3. /\ tab' \in [Tabs -> Viewer] /\ \A u \in Tabs \ {t} : tab'[u] = tab[u]
      /\ tab'[t].mode = s.mode /\ tab'[t].saved = s.saved /\ tab'[t].dialog = s.dialog
      /\ tab'[t].at = s.at /\ tab'[t].target = s.target /\ tab'[t].base = s.base
      /\ tab'[t].beatBase = s.beatBase /\ tab'[t].shown = s.shown
      /\ tab'[t].draft = s.draft /\ tab'[t].dirty = FALSE
  <2>1. Clean(s) \in Viewer
    BY <1>2, CleanTypes
  <2>2. Alike(tab'[t], Clean(s))
    BY <1>1, <1>2, <2>1, RenderStep
  <2>3. QED
    BY <1>1, <1>2, <2>1, <2>2, RenderStep, CleanTypes DEF Alike
<1>4. /\ store' \in [Tabs -> [Pages -> Drafts]] /\ \A u \in Tabs \ {t} : store'[u] = store[u]
      /\ \A q \in Pages :
           store'[t][q] = IF q = save[t].page THEN NoDraft ELSE store[t][q]
  BY <1>1, <1>2, StoreStep DEF Drafts
<1>5. /\ save' \in [Tabs -> Saves] /\ \A u \in Tabs \ {t} : save'[u] = save[u]
      /\ save'[t].stage = "saved" /\ save'[t].page = save[t].page
      /\ save'[t].text = save[t].text /\ save'[t].base = save[t].base
      /\ save'[t].rev = save[t].rev
  BY <1>1, <1>2, StageStep
<1>6. Onward /\ \A u \in Tabs \ {t} : Unmoved(u)
  BY <1>1, <1>3, <1>4, <1>5 DEF Onward, Unmoved
<1>7. TypeOK' /\ \A p \in Pages : text'[p] \subseteq settled'
  BY <1>1, <1>2, <1>3, <1>4, <1>5 DEF TypeOK, IInv, Drafts, Events
<1>8. TabInv(t)' /\ BasesInv(t)' /\ FlightInv(t)'
  <2>1. head \in Int /\ 0 <= head
    BY <1>2, TabTypes, RevisionTypes
  <2>2. TabInv(t)'
    BY <1>1, <1>3, <1>5, Before DEF TabInv, Opening, Editing, Saving, OnPage
  <2>3. FlightInv(t)'
    BY <1>1, <1>3, <1>5, Before DEF FlightInv, Editing, Saving
  <2>4. BasesInv(t)'
    BY <1>1, <1>3, <1>4, <1>5, <2>1, Before, DraftTypes DEF BasesInv
  <2>5. QED
    BY <2>2, <2>3, <2>4
<1>9. ASSUME Sighted'
      PROVE  SightedInv(t)'
  <2>1. SightedInv(t) /\ head # -1
    BY <1>2, <1>6, <1>9, Before, TabTypes, RevisionTypes
  <2>2. QED
    BY <1>1, <1>3, <1>4, <1>5, <2>1, DraftTypes DEF SightedInv, Opening, Editing, Saving
<1>10. ASSUME Quiet'
       PROVE  QuietInv(t)' /\ Held(t) \subseteq settled' \cup Held(t)'
  <2>1. QuietInv(t) /\ FlightInv(t) /\ Editing(t) /\ s.draft = save[t].text /\ Saving(t)
    BY <1>1, <1>6, <1>10, Before DEF Quiet, Saving
  <2>2. /\ save[t].page = s.at /\ ~s.dialog /\ s.draft = s.shown /\ s.shown \subseteq settled
        /\ store[t][s.at].text \subseteq settled
    BY <1>1, <1>10, <2>1 DEF QuietInv, FlightInv, Quiet
  <2>3. QuietInv(t)'
    BY <1>1, <1>2, <1>3, <1>4, <1>5, <2>1, <2>2, DraftTypes
       DEF QuietInv, Opening, Editing, Saving
  <2>4. Held(t) \subseteq settled \cup Held(t)'
    BY <1>1, <1>3, <1>4, <2>2 DEF Held, Editing
  <2>5. QED
    BY <1>1, <2>3, <2>4
<1>11. QED
  BY <1>1, <1>6, <1>7, <1>8, <1>9, <1>10, StepKeeps DEF Keeps

\* A session on the revision it committed shows all that the page holds.
LEMMA RefetchedKeeps ==
  ASSUME IInv, NEW t \in Tabs, Refetched(t)
  PROVE  IInv'
<1> DEFINE s == tab[t]
           r == IF Editing(t) THEN Rebased(s, head) ELSE s
<1>1. /\ save[t].stage = "saved" /\ Render(t, r)
      /\ save' = [save EXCEPT ![t] = NoSave]
      /\ leaving' = IF save[t].finish THEN [leaving EXCEPT ![t] = save[t].page] ELSE leaving
      /\ UNCHANGED <<store, beat>> /\ UNCHANGED <<head, text, holder, edits, settled>>
      /\ events \subseteq events' /\ events' \subseteq events \cup {"overtaken"}
      /\ "overtaken" \notin events' => head = save[t].rev
  BY DEF Refetched, server, Happens, Rebased
<1>2. /\ TypeOK /\ s \in Viewer /\ head \in Revisions /\ save[t].page \in Pages
      /\ leaving \in [Tabs -> Places] /\ save \in [Tabs -> Saves]
  BY <1>1, TabTypes, Before DEF IInv, TypeOK, TabInv, Saving
<1>3. /\ tab' \in [Tabs -> Viewer] /\ \A u \in Tabs \ {t} : tab'[u] = tab[u]
      /\ tab'[t].mode = s.mode /\ tab'[t].saved = s.saved /\ tab'[t].dialog = s.dialog
      /\ tab'[t].at = s.at /\ tab'[t].target = s.target
      /\ tab'[t].base = (IF Editing(t) THEN head ELSE s.base)
      /\ tab'[t].beatBase = s.beatBase /\ tab'[t].shown = s.shown
      /\ tab'[t].draft = s.draft /\ tab'[t].dirty = s.dirty
  <2>1. /\ r \in Viewer /\ r.mode = s.mode /\ r.saved = s.saved /\ r.dialog = s.dialog
        /\ r.at = s.at /\ r.target = s.target
        /\ r.base = (IF Editing(t) THEN head ELSE s.base)
        /\ r.beatBase = s.beatBase /\ r.shown = s.shown /\ r.draft = s.draft
        /\ r.dirty = s.dirty
    BY <1>2, RebasedTypes
  <2> HIDE DEF r
  <2>2. Alike(tab'[t], r)
    BY <1>1, <1>2, <2>1, RenderStep
  <2>3. QED
    BY <1>1, <1>2, <2>1, <2>2, RenderStep DEF Alike
<1> HIDE DEF r
<1>4. /\ save' \in [Tabs -> Saves] /\ \A u \in Tabs \ {t} : save'[u] = save[u]
      /\ save'[t] = NoSave
  BY <1>1, <1>2, OpenedTypes
<1>5. /\ leaving' \in [Tabs -> Places] /\ \A u \in Tabs \ {t} : leaving'[u] = leaving[u]
      /\ leaving'[t] = leaving[t] \/ leaving'[t] = save[t].page
  BY <1>1, <1>2 DEF Places
<1>6. Onward /\ \A u \in Tabs \ {t} : Unmoved(u)
  BY <1>1, <1>3, <1>4, <1>5 DEF Onward, Unmoved
<1>7. TypeOK' /\ \A p \in Pages : text'[p] \subseteq settled'
  BY <1>1, <1>2, <1>3, <1>4, <1>5 DEF TypeOK, IInv, Events
<1>8. TabInv(t)' /\ BasesInv(t)' /\ FlightInv(t)'
  <2>1. /\ head \in Int /\ 0 <= head /\ s.base \in Int /\ s.beatBase \in Int
    BY <1>2, TabTypes, RevisionTypes
  <2>2. TabInv(t)'
    BY <1>1, <1>3, <1>4, Before, OpenedTypes DEF TabInv, Opening, Editing, Saving, OnPage
  <2>3. FlightInv(t)'
    BY <1>1, <1>3, <1>4, <1>5, Before, OpenedTypes DEF FlightInv, Editing, Saving
  <2>4. BasesInv(t)'
    BY <1>1, <1>3, <1>4, <2>1, Before, OpenedTypes DEF BasesInv
  <2>5. QED
    BY <2>2, <2>3, <2>4
<1>9. ASSUME Sighted'
      PROVE  SightedInv(t)'
  <2>1. SightedInv(t) /\ FlightInv(t) /\ head = save[t].rev /\ Saving(t)
    BY <1>1, <1>6, <1>9, Before DEF Sighted, Blinding, Saving
  <2>2. Editing(t) => text[s.at] \subseteq s.shown
    BY <1>1, <1>9, <2>1 DEF SightedInv, FlightInv, Sighted, Blinding
  <2>3. QED
    BY <1>1, <1>3, <1>4, <2>1, <2>2, OpenedTypes DEF SightedInv, Opening, Editing, Saving
<1>10. ASSUME Quiet'
       PROVE  QuietInv(t)'
  <2>1. QuietInv(t) /\ Saving(t) /\ (Editing(t) => ~s.dialog)
    BY <1>1, <1>6, <1>10, Before DEF QuietInv, Saving
  <2>2. QED
    BY <1>1, <1>3, <1>4, <1>5, <2>1, OpenedTypes
       DEF QuietInv, SameText, Opening, Editing, Saving
<1>11. Held(t) = Held(t)'
  BY <1>1, <1>3 DEF Held, Editing
<1>12. QED
  BY <1>1, <1>6, <1>7, <1>8, <1>9, <1>10, <1>11, StepKeeps DEF Keeps

LEMMA SaveFailedKeeps ==
  ASSUME IInv, NEW t \in Tabs, SaveFailed(t)
  PROVE  IInv'
<1> DEFINE s == tab[t]
           d == [text |-> s.draft, base |-> save[t].base]
<1>1. /\ save[t].stage \in {"refused", "saved"} /\ StoreDraft(t, save[t].page, d)
      /\ save' = [save EXCEPT ![t] = NoSave]
      /\ UNCHANGED <<tab, beat, leaving>> /\ UNCHANGED <<head, text, holder, edits, settled>>
      /\ events \subseteq events' /\ events' \subseteq events \cup {"unsynced"}
      /\ "unsynced" \notin events' => Editing(t) /\ ~s.dialog /\ s.draft = s.shown
  BY DEF SaveFailed, server, Happens, Unsynced
<1>2. /\ TypeOK /\ d \in Drafts /\ d.text = s.draft /\ d.base = save[t].base
      /\ save[t].page \in Pages /\ save \in [Tabs -> Saves]
      /\ save[t].base \in Int /\ save[t].base <= head
  BY <1>1, TabTypes, DraftTypes, RevisionTypes, Before
     DEF IInv, TypeOK, Drafts, BasesInv, TabInv, Saving
<1> HIDE DEF d
<1>3. /\ save' \in [Tabs -> Saves] /\ \A u \in Tabs \ {t} : save'[u] = save[u]
      /\ save'[t] = NoSave
  BY <1>1, <1>2, OpenedTypes
<1>4. /\ store' \in [Tabs -> [Pages -> Drafts]] /\ \A u \in Tabs \ {t} : store'[u] = store[u]
      /\ \A q \in Pages : store'[t][q] = IF q = save[t].page THEN d ELSE store[t][q]
  BY <1>1, <1>2, StoreStep DEF Drafts
<1>5. Onward /\ \A u \in Tabs \ {t} : Unmoved(u)
  BY <1>1, <1>3, <1>4 DEF Onward, Unmoved
<1>6. TypeOK' /\ \A p \in Pages : text'[p] \subseteq settled'
  BY <1>1, <1>2, <1>3, <1>4 DEF TypeOK, IInv, Drafts, Events
<1>7. TabInv(t)' /\ BasesInv(t)' /\ FlightInv(t)'
  <2>1. head \in Int /\ 0 <= head
    BY <1>2, TabTypes, RevisionTypes
  <2>2. TabInv(t)'
    BY <1>1, <1>3, Before, OpenedTypes DEF TabInv, Opening, Editing, Saving, OnPage
  <2>3. FlightInv(t)'
    BY <1>1, <1>3, Before, OpenedTypes DEF FlightInv, Editing, Saving
  <2>4. BasesInv(t)'
    BY <1>1, <1>2, <1>3, <1>4, <2>1, Before, OpenedTypes DEF BasesInv
  <2>5. QED
    BY <2>2, <2>3, <2>4
<1>8. ASSUME Sighted'
      PROVE  SightedInv(t)'
  <2>1. /\ SightedInv(t) /\ FlightInv(t) /\ Editing(t) /\ ~s.dialog /\ s.draft = s.shown
        /\ Saving(t)
    BY <1>1, <1>5, <1>8, Before DEF Sighted, Blinding, Saving
  <2>2. d.base = head => text[save[t].page] \subseteq d.text
    BY <1>1, <1>2, <1>8, <2>1 DEF SightedInv, FlightInv, Sighted, Blinding
  <2>3. QED
    BY <1>1, <1>2, <1>3, <1>4, <2>1, <2>2, OpenedTypes
       DEF SightedInv, Opening, Editing, Saving
<1>9. ASSUME Quiet'
      PROVE  QuietInv(t)' /\ Held(t) \subseteq settled' \cup Held(t)'
  <2>1. /\ QuietInv(t) /\ FlightInv(t) /\ Editing(t) /\ ~s.dialog /\ s.draft = s.shown
        /\ save[t].page = s.at
    BY <1>1, <1>5, <1>9, Before DEF Quiet, FlightInv, Saving
  <2>2. QuietInv(t)'
    BY <1>1, <1>2, <1>3, <1>4, <2>1, OpenedTypes DEF QuietInv, Opening, Editing, Saving
  <2>3. Held(t) \subseteq settled \cup Held(t)'
    BY <1>1, <1>2, <1>4, <2>1 DEF Held, QuietInv, Editing
  <2>4. QED
    BY <1>1, <2>2, <2>3
<1>10. QED
  BY <1>1, <1>5, <1>6, <1>7, <1>8, <1>9, StepKeeps DEF Keeps

\* Leaving takes a draft whose text is settled.
LEMMA ReleasedKeeps ==
  ASSUME IInv, NEW t \in Tabs, Released(t)
  PROVE  IInv'
<1> DEFINE s == tab[t]
           r == Clean(Ended(s))
<1>1. /\ leaving[t] # Home
      /\ Release(t, leaving[t]) \/ UNCHANGED holder
      /\ Render(t, r) /\ StoreDraft(t, leaving[t], NoDraft)
      /\ leaving' = [leaving EXCEPT ![t] = Home]
      /\ UNCHANGED <<save, beat>> /\ UNCHANGED <<head, text, edits, settled>>
      /\ events \subseteq events' /\ events' \subseteq events \cup {"typing"}
      /\ "typing" \notin events' => ~s.dirty
  BY DEF Released, RemoveDraft, Happens
<1>2. /\ TypeOK /\ s \in Viewer /\ NoDraft \in Drafts /\ leaving[t] \in Pages
      /\ leaving \in [Tabs -> Places]
      /\ holder' \in [Pages -> Tabs \cup {Nobody, Colleague}]
  BY <1>1, TabTypes, ReleaseTypes DEF IInv, TypeOK, Drafts, Places
<1>3. /\ tab' \in [Tabs -> Viewer] /\ \A u \in Tabs \ {t} : tab'[u] = tab[u]
      /\ tab'[t].mode # "editing" /\ tab'[t].at = s.at /\ tab'[t].dirty = FALSE
      /\ s.mode = "editing" =>
           /\ tab'[t].mode = "reading" /\ tab'[t].saved = NoDraft /\ tab'[t].dialog = FALSE
           /\ tab'[t].base = 0 /\ tab'[t].beatBase = 0
      /\ s.mode # "editing" =>
           /\ tab'[t].mode = s.mode /\ tab'[t].saved = s.saved /\ tab'[t].dialog = s.dialog
           /\ tab'[t].target = s.target
           /\ tab'[t].base = s.base /\ tab'[t].beatBase = s.beatBase
  <2> DEFINE e == Ended(s)
  <2>1. /\ e \in Viewer /\ e.mode # "editing" /\ e.at = s.at
        /\ s.mode = "editing" => e.mode = "reading" /\ e.saved = NoDraft /\ e.dialog = FALSE
                                   /\ e.base = 0 /\ e.beatBase = 0
        /\ s.mode # "editing" => Alike(e, s)
    BY <1>2, EndedTypes
  <2> HIDE DEF e
  <2>2. /\ r \in Viewer /\ r.mode = e.mode /\ r.saved = e.saved /\ r.dialog = e.dialog
        /\ r.at = e.at /\ r.target = e.target /\ r.base = e.base /\ r.beatBase = e.beatBase
        /\ r.dirty = FALSE
    <3>1. r = Clean(e) /\ e \in Viewer
      BY <2>1 DEF e
    <3> HIDE DEF r
    <3>2. QED
      BY <3>1, CleanTypes
  <2> HIDE DEF r
  <2>3. Alike(tab'[t], r)
    BY <1>1, <1>2, <2>2, RenderStep
  <2>4. QED
    BY <1>1, <1>2, <2>1, <2>2, <2>3, RenderStep DEF Alike
<1> HIDE DEF r
<1>4. /\ store' \in [Tabs -> [Pages -> Drafts]] /\ \A u \in Tabs \ {t} : store'[u] = store[u]
      /\ \A q \in Pages : store'[t][q] = IF q = leaving[t] THEN NoDraft ELSE store[t][q]
  BY <1>1, <1>2, StoreStep DEF Drafts
<1>5. /\ leaving' \in [Tabs -> Places] /\ \A u \in Tabs \ {t} : leaving'[u] = leaving[u]
      /\ leaving'[t] = Home
  BY <1>1, <1>2 DEF Places
<1>6. Onward /\ \A u \in Tabs \ {t} : Unmoved(u)
  BY <1>1, <1>3, <1>4, <1>5 DEF Onward, Unmoved
<1>7. TypeOK' /\ \A p \in Pages : text'[p] \subseteq settled'
  BY <1>1, <1>2, <1>3, <1>4, <1>5 DEF TypeOK, IInv, Drafts, Events
<1>8. TabInv(t)' /\ BasesInv(t)' /\ FlightInv(t)'
  <2>1. head \in Int /\ 0 <= head /\ s.base \in Int /\ s.beatBase \in Int
    BY <1>2, TabTypes, RevisionTypes
  <2>2. TabInv(t)' /\ FlightInv(t)'
    BY <1>1, <1>3, Before DEF TabInv, FlightInv, Opening, Editing, Saving, OnPage
  <2>3. BasesInv(t)'
    BY <1>1, <1>3, <1>4, <2>1, Before, DraftTypes DEF BasesInv
  <2>4. QED
    BY <2>2, <2>3
<1>9. ASSUME Sighted'
      PROVE  SightedInv(t)'
  <2>1. SightedInv(t) /\ head # -1
    BY <1>2, <1>6, <1>9, Before, TabTypes, RevisionTypes
  <2>2. QED
    BY <1>1, <1>3, <1>4, <2>1, DraftTypes DEF SightedInv, Opening, Editing, Saving
<1>10. ASSUME Quiet'
       PROVE  QuietInv(t)' /\ Held(t) \subseteq settled' \cup Held(t)'
  <2>1. QuietInv(t) /\ FlightInv(t) /\ TabInv(t) /\ ~s.dirty /\ "late" \notin events
    BY <1>1, <1>6, <1>10, Before DEF Quiet
  <2>2. CASE Editing(t)
    <3>1. /\ leaving[t] = s.at /\ ~s.dialog /\ s.shown \subseteq settled
          /\ store[t][s.at].text \subseteq settled
      BY <1>1, <2>1, <2>2 DEF QuietInv, FlightInv
    <3>2. s.saved = NoDraft
      BY <2>1, <2>2, <3>1 DEF TabInv, Opening, Editing
    <3>3. QuietInv(t)'
      BY <1>1, <1>2, <1>3, <1>4, <1>5, <2>1, <2>2, <3>1, DraftTypes
         DEF QuietInv, FlightInv, Opening, Editing, Saving
    <3>4. Held(t) \subseteq settled \cup Held(t)'
      BY <1>1, <1>3, <1>4, <2>2, <3>1, <3>2, DraftTypes DEF Held, Editing
    <3>5. QED
      BY <1>1, <3>3, <3>4
  <2>3. CASE ~Editing(t)
    <3>1. store[t][leaving[t]].text \subseteq settled
      BY <1>1, <2>1, <2>3 DEF QuietInv
    <3>2. /\ Opening(t)' => s.saved.text \subseteq store[t][s.target].text \cup settled
                             /\ s.target \in Pages
      BY <1>3, <2>1, <2>3 DEF QuietInv, SameText, TabInv, Opening, Editing
    <3>3. Opening(t)' => SameText(store[t][tab[t].target], tab[t].saved)'
      <4>1. Opening(t) = Opening(t)' /\ tab'[t].target = s.target /\ tab'[t].saved = s.saved
        BY <1>3, <2>3 DEF Opening, Editing
      <4>2. QED
        BY <1>1, <1>4, <2>1, <3>1, <3>2, <4>1, DraftTypes DEF QuietInv, SameText
    <3>4. save[t].stage = "saved" => store'[t][save[t].page].text \subseteq settled
      BY <1>1, <1>4, <2>1, <2>3, DraftTypes DEF QuietInv, TabInv, Saving
    <3>5. QuietInv(t)'
      BY <1>1, <1>3, <1>5, <2>1, <2>3, <3>3, <3>4 DEF QuietInv, Editing, Saving
    <3>6. Held(t) \subseteq settled \cup Held(t)'
      BY <1>3, <1>4, <2>3, <3>1 DEF Held, Editing
    <3>7. QED
      BY <1>1, <3>5, <3>6
  <2>4. QED
    BY <2>2, <2>3
<1>11. QED
  BY <1>1, <1>6, <1>7, <1>8, <1>9, <1>10, StepKeeps DEF Keeps
----------------------------------------------------------------------------
(* The heartbeat. *)

LEMMA SendBeatKeeps ==
  ASSUME IInv, NEW t \in Tabs, SendBeat(t)
  PROVE  IInv'
<1> DEFINE b == [page |-> tab[t].at, base |-> tab[t].beatBase]
<1>1. /\ Editing(t) /\ beat' = [beat EXCEPT ![t] = b]
      /\ UNCHANGED <<tab, store, save, leaving>>
      /\ UNCHANGED <<head, text, holder, edits, settled, events>>
  BY DEF SendBeat, server
<1>2. /\ TypeOK /\ beat \in [Tabs -> [page : Places, base : Revisions]]
      /\ b \in [page : Places, base : Revisions] /\ b.page = tab[t].at
      /\ b.base = tab[t].beatBase
      /\ tab[t].base \in Int /\ tab[t].beatBase \in Int /\ head \in Int
  BY TabTypes, RevisionTypes DEF IInv, TypeOK
<1> HIDE DEF b
<1>3. /\ beat' \in [Tabs -> [page : Places, base : Revisions]]
      /\ \A u \in Tabs \ {t} : beat'[u] = beat[u]
      /\ beat'[t].page = tab[t].at /\ beat'[t].base = tab[t].beatBase
  BY <1>1, <1>2
<1>4. Onward /\ \A u \in Tabs \ {t} : Unmoved(u)
  BY <1>1, <1>3 DEF Onward, Unmoved
<1>5. TypeOK' /\ \A p \in Pages : text'[p] \subseteq settled'
  BY <1>1, <1>2, <1>3 DEF TypeOK, IInv
<1>6. TabInv(t)' /\ BasesInv(t)' /\ FlightInv(t)'
  BY <1>1, <1>2, <1>3, Before
     DEF TabInv, BasesInv, FlightInv, Opening, Editing, Saving, OnPage
<1>7. Sighted' => SightedInv(t)'
  BY <1>1, <1>4, Before DEF SightedInv, Opening, Editing, Saving
<1>8. Quiet' => QuietInv(t)'
  BY <1>1, <1>4, Before DEF QuietInv, SameText, Opening, Editing, Saving
<1>9. Held(t) = Held(t)'
  BY <1>1 DEF Held, Editing
<1>10. QED
  BY <1>1, <1>4, <1>5, <1>6, <1>7, <1>8, <1>9, StepKeeps DEF Keeps

LEMMA BeatGone ==
  ASSUME TypeOK, NEW t \in Tabs, beat' = [beat EXCEPT ![t] = NoBeat]
  PROVE  /\ beat' \in [Tabs -> [page : Places, base : Revisions]]
         /\ \A u \in Tabs \ {t} : beat'[u] = beat[u]
         /\ beat'[t] = NoBeat
BY OpenedTypes DEF TypeOK

LEMMA BeatAnsweredKeeps ==
  ASSUME IInv, NEW t \in Tabs, BeatAnswered(t)
  PROVE  IInv'
<1>1. /\ beat' = [beat EXCEPT ![t] = NoBeat]
      /\ UNCHANGED <<tab, store, save, leaving>>
      /\ UNCHANGED <<head, text, holder, edits, settled, events>>
  BY DEF BeatAnswered, server
<1>2. /\ TypeOK /\ head \in Int /\ 0 <= head
  BY TabTypes, RevisionTypes DEF IInv, TypeOK
<1>3. /\ beat' \in [Tabs -> [page : Places, base : Revisions]]
      /\ \A u \in Tabs \ {t} : beat'[u] = beat[u] /\ beat'[t] = NoBeat
      /\ beat'[t] = NoBeat
  BY <1>1, <1>2, BeatGone
<1>4. Onward /\ \A u \in Tabs \ {t} : Unmoved(u)
  BY <1>1, <1>3 DEF Onward, Unmoved
<1>5. TypeOK' /\ \A p \in Pages : text'[p] \subseteq settled'
  BY <1>1, <1>2, <1>3 DEF TypeOK, IInv
<1>6. TabInv(t)' /\ BasesInv(t)' /\ FlightInv(t)'
  BY <1>1, <1>2, <1>3, Before, OpenedTypes
     DEF TabInv, BasesInv, FlightInv, Opening, Editing, Saving, OnPage
<1>7. Sighted' => SightedInv(t)'
  BY <1>1, <1>4, Before DEF SightedInv, Opening, Editing, Saving
<1>8. Quiet' => QuietInv(t)'
  BY <1>1, <1>4, Before DEF QuietInv, SameText, Opening, Editing, Saving
<1>9. Held(t) = Held(t)'
  BY <1>1 DEF Held, Editing
<1>10. QED
  BY <1>1, <1>4, <1>5, <1>6, <1>7, <1>8, <1>9, StepKeeps DEF Keeps

\* The editor closes on a draft of all that it showed.
LEMMA BeatFailedKeeps ==
  ASSUME IInv, NEW t \in Tabs, BeatFailed(t)
  PROVE  IInv'
<1> DEFINE s == tab[t]
           d == [text |-> s.draft, base |-> beat[t].base]
           r == Ended(s)
<1>1. /\ beat[t] # NoBeat /\ StoreDraft(t, beat[t].page, d) /\ Render(t, r)
      /\ beat' = [beat EXCEPT ![t] = NoBeat]
      /\ UNCHANGED <<save, leaving>> /\ UNCHANGED <<head, text, holder, edits, settled>>
      /\ events \subseteq events' /\ events' \subseteq events \cup {"unsynced"}
      /\ "unsynced" \notin events' => Editing(t) /\ ~s.dialog /\ s.draft = s.shown
  BY DEF BeatFailed, server, Happens, Unsynced
<1>2. /\ TypeOK /\ s \in Viewer /\ d \in Drafts /\ d.text = s.draft /\ d.base = beat[t].base
      /\ beat[t].base \in Int /\ beat[t].base <= head /\ head \in Int /\ 0 <= head
      /\ s.base \in Int /\ s.beatBase \in Int
  BY TabTypes, DraftTypes, RevisionTypes, Before DEF IInv, Drafts, BasesInv
<1> HIDE DEF d
<1>3. /\ tab' \in [Tabs -> Viewer] /\ \A u \in Tabs \ {t} : tab'[u] = tab[u]
      /\ tab'[t].mode # "editing" /\ tab'[t].at = s.at /\ tab'[t].dirty = s.dirty
      /\ s.mode = "editing" =>
           /\ tab'[t].mode = "reading" /\ tab'[t].saved = NoDraft /\ tab'[t].dialog = FALSE
           /\ tab'[t].base = 0 /\ tab'[t].beatBase = 0
      /\ s.mode # "editing" => Alike(tab'[t], s)
  <2>1. /\ r \in Viewer /\ r.mode # "editing" /\ r.at = s.at /\ r.dirty = s.dirty
        /\ s.mode = "editing" => r.mode = "reading" /\ r.saved = NoDraft /\ r.dialog = FALSE
                                   /\ r.base = 0 /\ r.beatBase = 0
        /\ s.mode # "editing" => Alike(r, s)
    BY <1>2, EndedTypes
  <2> HIDE DEF r
  <2>2. Alike(tab'[t], r)
    BY <1>1, <1>2, <2>1, RenderStep
  <2>3. QED
    BY <1>1, <1>2, <2>1, <2>2, RenderStep DEF Alike
<1> HIDE DEF r
<1>4. /\ store' \in [Tabs -> [Pages -> Drafts]] /\ \A u \in Tabs \ {t} : store'[u] = store[u]
      /\ \A q \in Pages : store'[t][q] = IF q = beat[t].page THEN d ELSE store[t][q]
  BY <1>1, <1>2, StoreStep DEF Drafts
<1>5. /\ beat' \in [Tabs -> [page : Places, base : Revisions]]
      /\ \A u \in Tabs \ {t} : beat'[u] = beat[u]
      /\ beat'[t] = NoBeat
  BY <1>1, <1>2, BeatGone
<1>6. Onward /\ \A u \in Tabs \ {t} : Unmoved(u)
  BY <1>1, <1>3, <1>4, <1>5 DEF Onward, Unmoved
<1>7. TypeOK' /\ \A p \in Pages : text'[p] \subseteq settled'
  BY <1>1, <1>2, <1>3, <1>4, <1>5 DEF TypeOK, IInv, Drafts, Events
<1>8. TabInv(t)' /\ BasesInv(t)' /\ FlightInv(t)'
  <2>1. TabInv(t)' /\ FlightInv(t)'
    BY <1>1, <1>3, Before DEF TabInv, FlightInv, Alike, Opening, Editing, Saving, OnPage
  <2>2. BasesInv(t)'
    <3>1. /\ tab'[t].beatBase <= tab'[t].base /\ tab'[t].base <= head
          /\ tab'[t].saved.base <= head
      BY <1>2, <1>3, Before, DraftTypes DEF BasesInv, Alike
    <3>2. \A q \in Pages : store'[t][q].base <= head
      BY <1>2, <1>4, Before DEF BasesInv
    <3>3. /\ save'[t].base <= head /\ save'[t].rev <= head /\ beat'[t].base <= head
          /\ head' = head
      BY <1>1, <1>2, <1>5, Before, OpenedTypes DEF BasesInv
    <3>4. QED
      BY <3>1, <3>2, <3>3 DEF BasesInv
  <2>3. QED
    BY <2>1, <2>2
<1>9. ASSUME Sighted'
      PROVE  SightedInv(t)'
  <2>1. /\ SightedInv(t) /\ FlightInv(t) /\ BasesInv(t) /\ "late" \notin events
        /\ Editing(t) /\ ~s.dialog /\ s.draft = s.shown
    BY <1>1, <1>6, <1>9, Before DEF Sighted, Blinding
  <2>2. beat[t].page = s.at /\ (beat[t].base = head => s.base = head)
    BY <1>1, <1>2, <2>1 DEF FlightInv, BasesInv
  <2>3. d.base = head => text[beat[t].page] \subseteq d.text
    BY <1>2, <2>1, <2>2 DEF SightedInv
  <2>4. QED
    BY <1>1, <1>3, <1>4, <2>1, <2>3 DEF SightedInv, Opening, Editing, Saving
<1>10. ASSUME Quiet'
       PROVE  QuietInv(t)' /\ Held(t) \subseteq settled' \cup Held(t)'
  <2>1. /\ QuietInv(t) /\ FlightInv(t) /\ TabInv(t)
        /\ "late" \notin events /\ "moved" \notin events
        /\ Editing(t) /\ ~s.dialog /\ s.draft = s.shown
    BY <1>1, <1>6, <1>10, Before DEF Quiet
  <2>2. beat[t].page = s.at /\ s.at \in Pages /\ s.saved = NoDraft
    BY <1>1, <2>1 DEF FlightInv, TabInv, OnPage, Opening, Editing
  <2>3. store'[t][s.at].text = s.shown
    BY <1>2, <1>4, <2>1, <2>2
  <2>4. QuietInv(t)'
    BY <1>1, <1>3, <2>1, <2>2, <2>3 DEF QuietInv, FlightInv, Opening, Editing, Saving
  <2>5. Held(t) \subseteq settled \cup Held(t)'
    <3>1. store[t][s.at].text \subseteq s.shown \cup settled
      BY <2>1 DEF QuietInv
    <3>2. QED
      BY <1>4, <2>1, <2>2, <2>3, <3>1, DraftTypes DEF Held
  <2>6. QED
    BY <1>1, <2>4, <2>5
<1>11. QED
  BY <1>1, <1>6, <1>7, <1>8, <1>9, <1>10, StepKeeps DEF Keeps
----------------------------------------------------------------------------
(* Leaving the page, and the server by itself. *)

LEMMA NavigateKeeps ==
  ASSUME IInv, NEW t \in Tabs, NEW p \in Places, Navigate(t, p)
  PROVE  IInv'
<1> DEFINE s == tab[t]
           asked == Editing(t) /\ s.dirty
           e == Clean(Ended(s))
           r == IF Editing(t) THEN Moved(e, p) ELSE Moved(s, p)
<1>1. /\ IF asked /\ OnPage(t)
         THEN /\ StoreDraft(t, s.at, NoDraft)
              /\ settled' = settled \cup s.shown \cup store[t][s.at].text
         ELSE UNCHANGED <<store, settled>>
      /\ Render(t, r)
      /\ Release(t, p) \/ UNCHANGED holder
      /\ UNCHANGED <<save, beat, leaving>> /\ UNCHANGED <<head, text, edits, events>>
  BY DEF Navigate, RemoveDraft, flights, Moved
<1>2. /\ TypeOK /\ s \in Viewer /\ NoDraft \in Drafts /\ settled \in Texts /\ s.shown \in Texts
      /\ \A q \in Pages : store[t][q].text \in Texts
      /\ holder' \in [Pages -> Tabs \cup {Nobody, Colleague}]
  BY <1>1, TabTypes, DraftTypes, ReleaseTypes DEF IInv, Drafts
<1>3. /\ tab' \in [Tabs -> Viewer] /\ \A u \in Tabs \ {t} : tab'[u] = tab[u]
      /\ tab'[t].mode # "editing"
      /\ s.mode = "editing" =>
           /\ tab'[t].mode = "reading" /\ tab'[t].saved = NoDraft /\ tab'[t].dialog = FALSE
           /\ tab'[t].base = 0 /\ tab'[t].beatBase = 0 /\ tab'[t].dirty = FALSE
      /\ s.mode # "editing" =>
           /\ tab'[t].mode = s.mode /\ tab'[t].saved = s.saved /\ tab'[t].dialog = s.dialog
           /\ tab'[t].target = s.target /\ tab'[t].dirty = s.dirty
           /\ tab'[t].base = s.base /\ tab'[t].beatBase = s.beatBase
  <2>1. /\ e \in Viewer
        /\ s.mode = "editing" => e.mode = "reading" /\ e.saved = NoDraft /\ e.dialog = FALSE
                                   /\ e.base = 0 /\ e.beatBase = 0 /\ e.dirty = FALSE
    <3> DEFINE x == Ended(s)
    <3>1. /\ x \in Viewer
          /\ s.mode = "editing" => x.mode = "reading" /\ x.saved = NoDraft /\ x.dialog = FALSE
                                     /\ x.base = 0 /\ x.beatBase = 0
      BY <1>2, EndedTypes
    <3>2. e = Clean(x)
      OBVIOUS
    <3> HIDE DEF x, e
    <3>3. QED
      BY <3>1, <3>2, CleanTypes
  <2> HIDE DEF e
  <2>2. /\ r \in Viewer
        /\ s.mode = "editing" => r.mode = e.mode /\ r.saved = e.saved /\ r.dialog = e.dialog
                                   /\ r.base = e.base /\ r.beatBase = e.beatBase
                                   /\ r.dirty = e.dirty
        /\ s.mode # "editing" => r.mode = s.mode /\ r.saved = s.saved /\ r.dialog = s.dialog
                                   /\ r.base = s.base /\ r.beatBase = s.beatBase
                                   /\ r.dirty = s.dirty /\ r.target = s.target
    BY <1>2, <2>1, MovedTypes DEF Editing
  <2> HIDE DEF r
  <2>3. Alike(tab'[t], r)
    BY <1>1, <1>2, <2>2, RenderStep
  <2>4. QED
    BY <1>1, <1>2, <2>1, <2>2, <2>3, RenderStep DEF Alike
<1> HIDE DEF r, e
<1>4. /\ store' \in [Tabs -> [Pages -> Drafts]] /\ \A u \in Tabs \ {t} : store'[u] = store[u]
      /\ \A q \in Pages :
           store'[t][q] = IF asked /\ q = s.at THEN NoDraft ELSE store[t][q]
  <2>1. CASE asked /\ OnPage(t)
    BY <1>1, <1>2, <2>1, StoreStep DEF Drafts
  <2>2. CASE ~(asked /\ OnPage(t))
    BY <1>1, <1>2, <2>2 DEF TypeOK, Drafts, OnPage
  <2>3. QED
    BY <2>1, <2>2
<1>5. settled \subseteq settled' /\ settled' \in Texts
  <2>1. CASE asked /\ OnPage(t)
    <3>1. store[t][s.at].text \in Texts /\ settled \cup s.shown \in Texts
      BY <1>2, <2>1, TextTypes DEF OnPage
    <3>2. QED
      BY <1>1, <2>1, <3>1, TextTypes
  <2>2. CASE ~(asked /\ OnPage(t))
    BY <1>1, <1>2, <2>2
  <2>3. QED
    BY <2>1, <2>2
<1>6. Onward /\ \A u \in Tabs \ {t} : Unmoved(u)
  BY <1>1, <1>3, <1>4, <1>5 DEF Onward, Unmoved
<1>7. TypeOK' /\ \A q \in Pages : text'[q] \subseteq settled'
  BY <1>1, <1>2, <1>3, <1>4, <1>5 DEF TypeOK, IInv, Drafts
<1>8. TabInv(t)' /\ BasesInv(t)' /\ FlightInv(t)'
  <2>1. head \in Int /\ 0 <= head /\ s.base \in Int /\ s.beatBase \in Int
    BY <1>2, TabTypes, RevisionTypes
  <2>2. TabInv(t)' /\ FlightInv(t)'
    <3>1. TabInv(t) /\ save' = save
      BY <1>1, Before
    <3>2. TabInv(t)'
      BY <1>3, <3>1 DEF TabInv, Opening, Editing, Saving, OnPage
    <3>3. FlightInv(t)'
      BY <1>3 DEF FlightInv, Editing
    <3>4. QED
      BY <3>2, <3>3
  <2>3. BasesInv(t)'
    <3>1. /\ tab'[t].beatBase <= tab'[t].base /\ tab'[t].base <= head
          /\ tab'[t].saved.base <= head
      BY <1>3, <2>1, Before, DraftTypes DEF BasesInv
    <3>2. \A q \in Pages : store'[t][q].base <= head
      BY <1>4, <2>1, Before, DraftTypes DEF BasesInv
    <3>3. save' = save /\ beat' = beat /\ head' = head /\ BasesInv(t)
      BY <1>1, Before
    <3>4. QED
      BY <3>1, <3>2, <3>3 DEF BasesInv
  <2>4. QED
    BY <2>2, <2>3
<1>9. ASSUME Sighted'
      PROVE  SightedInv(t)'
  <2>1. SightedInv(t) /\ head # -1
    BY <1>2, <1>6, <1>9, Before, TabTypes, RevisionTypes
  <2>2. QED
    BY <1>1, <1>3, <1>4, <2>1, DraftTypes DEF SightedInv, Opening, Editing, Saving
<1>10. ASSUME Quiet'
       PROVE  QuietInv(t)' /\ Held(t) \subseteq settled' \cup Held(t)'
  <2>1. /\ QuietInv(t) /\ FlightInv(t) /\ TabInv(t)
        /\ "late" \notin events /\ "moved" \notin events
    BY <1>1, <1>6, <1>10, Before DEF Quiet
  <2>2. CASE Editing(t)
    <3>1. /\ s.at \in Pages /\ s.shown \subseteq settled'
          /\ Saving(t) => save[t].page = s.at /\ ~s.dialog
          /\ leaving[t] # Home => leaving[t] = s.at /\ ~s.dialog
          /\ ~s.dialog => s.saved = NoDraft
          /\ s.dialog => ~s.dirty /\ SameText(store[t][s.at], s.saved)
      BY <1>1, <1>5, <2>1, <2>2 DEF QuietInv, FlightInv, TabInv, OnPage, Opening, Editing
    <3>2. ~s.dialog => store'[t][s.at].text \subseteq settled'
      BY <1>1, <1>4, <1>5, <2>1, <2>2, <3>1, DraftTypes DEF QuietInv
    <3>3. QuietInv(t)'
      BY <1>1, <1>3, <1>5, <2>1, <2>2, <3>1, <3>2
         DEF QuietInv, Opening, Editing, Saving
    <3>4. store[t][s.at].text \subseteq settled' \cup store'[t][s.at].text
      BY <1>1, <1>4, <2>2, <3>1 DEF OnPage
    <3>5. s.saved.text \subseteq settled' \cup store'[t][s.at].text
      BY <1>4, <1>5, <2>2, <3>1, DraftTypes DEF SameText
    <3>6. Held(t) \subseteq settled' \cup Held(t)'
      BY <1>3, <1>4, <2>2, <3>1, <3>4, <3>5 DEF Held
    <3>7. QED
      BY <3>3, <3>6
  <2>3. CASE ~Editing(t)
    <3>1. UNCHANGED <<store, settled>>
      BY <1>1, <2>3
    <3>2. QuietInv(t)'
      BY <1>1, <1>3, <2>1, <2>3, <3>1 DEF QuietInv, SameText, Opening, Editing, Saving
    <3>3. Held(t) \subseteq Held(t)'
      BY <1>3, <2>3, <3>1 DEF Held, Editing
    <3>4. QED
      BY <3>2, <3>3
  <2>4. QED
    BY <2>2, <2>3
<1>11. QED
  BY <1>1, <1>6, <1>7, <1>8, <1>9, <1>10, StepKeeps DEF Keeps

\* Steps that leave the tabs alone
LEMMA ServerKeeps ==
  ASSUME IInv, Onward, TypeOK', \A p \in Pages : text'[p] \subseteq settled',
         \A u \in Tabs : Unmoved(u), 1 .. edits' \subseteq 1 .. edits \cup settled'
  PROVE  IInv'
<1>1. \A u \in Tabs : TabInv(u)' /\ BasesInv(u)' /\ FlightInv(u)'
  BY OthersKeep
<1>2. Sighted' => \A u \in Tabs : SightedInv(u)'
  BY OthersKeep
<1>3. Quiet' => \A u \in Tabs : QuietInv(u)'
  BY OthersKeep
<1>4. EditsKept'
  <2>1. SUFFICES ASSUME Quiet', NEW e \in 1 .. edits, e \notin settled'
                 PROVE  \E u \in Tabs : e \in Held(u)'
    BY DEF EditsKept, Quiet
  <2>2. Quiet /\ e \notin settled
    BY <2>1 DEF Onward, Quiet
  <2>3. PICK u \in Tabs : e \in Held(u)
    BY <2>1, <2>2 DEF IInv, EditsKept, Quiet
  <2>4. Held(u) = Held(u)'
    BY OthersKeep
  <2>5. QED
    BY <2>3, <2>4
<1>5. QED
  BY <1>1, <1>2, <1>3, <1>4 DEF IInv

\* A tab that reloads keeps what is stored, and its user agreed to the rest.
LEMMA UnloadKeeps ==
  ASSUME IInv, NEW t \in Tabs, Unload(t)
  PROVE  IInv'
<1> DEFINE s == tab[t]
           asked == Editing(t) /\ s.dirty
           r == [Opened EXCEPT !.at = s.at]
<1>1. /\ Release(t, s.at) \/ UNCHANGED holder
      /\ UNCHANGED store /\ UNCHANGED <<head, text, edits, events>>
      /\ \/ /\ tab' = [tab EXCEPT ![t] = r]
            /\ save' = [save EXCEPT ![t] = NoSave]
            /\ beat' = [beat EXCEPT ![t] = NoBeat]
            /\ leaving' = [leaving EXCEPT ![t] = Home]
            /\ settled' = IF asked THEN settled \cup s.shown ELSE settled
         \/ UNCHANGED <<tab, save, beat, leaving, settled>>
  BY DEF Unload, flights
<1>2. /\ TypeOK /\ s \in Viewer /\ settled \in Texts /\ s.shown \in Texts /\ s.at \in Places
      /\ holder' \in [Pages -> Tabs \cup {Nobody, Colleague}]
  BY <1>1, TabTypes, ReleaseTypes DEF IInv
<1>3. CASE /\ tab' = [tab EXCEPT ![t] = r]
           /\ save' = [save EXCEPT ![t] = NoSave]
           /\ beat' = [beat EXCEPT ![t] = NoBeat]
           /\ leaving' = [leaving EXCEPT ![t] = Home]
           /\ settled' = IF asked THEN settled \cup s.shown ELSE settled
  <2>1. /\ tab' \in [Tabs -> Viewer] /\ \A u \in Tabs \ {t} : tab'[u] = tab[u]
        /\ tab'[t].mode = "reading" /\ tab'[t].saved = NoDraft /\ tab'[t].dialog = FALSE
        /\ tab'[t].base = 0 /\ tab'[t].beatBase = 0
    <3>1. /\ r \in Viewer /\ r.mode = "reading" /\ r.saved = NoDraft /\ r.dialog = FALSE
          /\ r.base = 0 /\ r.beatBase = 0
      BY <1>2, ReloadedTypes
    <3> HIDE DEF r
    <3>2. QED
      BY <1>2, <1>3, <3>1 DEF TypeOK
  <2> HIDE DEF r
  <2>2. /\ save' \in [Tabs -> Saves] /\ \A u \in Tabs \ {t} : save'[u] = save[u]
        /\ save'[t] = NoSave
    BY <1>2, <1>3, OpenedTypes DEF TypeOK
  <2>3. /\ beat' \in [Tabs -> [page : Places, base : Revisions]]
        /\ \A u \in Tabs \ {t} : beat'[u] = beat[u]
        /\ beat'[t] = NoBeat
    BY <1>2, <1>3, BeatGone
  <2>4. /\ leaving' \in [Tabs -> Places] /\ \A u \in Tabs \ {t} : leaving'[u] = leaving[u]
        /\ leaving'[t] = Home
    BY <1>2, <1>3 DEF TypeOK, Places
  <2>5. settled \subseteq settled' /\ settled' \in Texts
    BY <1>2, <1>3, TextTypes
  <2>6. Onward /\ \A u \in Tabs \ {t} : Unmoved(u)
    BY <1>1, <2>1, <2>2, <2>3, <2>4, <2>5 DEF Onward, Unmoved
  <2>7. TypeOK' /\ \A q \in Pages : text'[q] \subseteq settled'
    BY <1>1, <1>2, <2>1, <2>2, <2>3, <2>4, <2>5 DEF TypeOK, IInv
  <2>8. TabInv(t)' /\ BasesInv(t)' /\ FlightInv(t)'
    <3>1. head \in Int /\ 0 <= head
      BY <1>2, TabTypes, RevisionTypes
    <3>2. TabInv(t)' /\ FlightInv(t)'
      BY <2>1, <2>2, OpenedTypes DEF TabInv, FlightInv, Opening, Editing, Saving
    <3>3. BasesInv(t)'
      BY <1>1, <2>1, <2>2, <2>3, <3>1, Before, DraftTypes, OpenedTypes DEF BasesInv
    <3>4. QED
      BY <3>2, <3>3
  <2>9. Sighted' => SightedInv(t)'
    BY <1>1, <2>1, <2>2, <2>6, Before, OpenedTypes DEF SightedInv, Opening, Editing, Saving
  <2>10. QuietInv(t)'
    BY <2>1, <2>2, <2>4, OpenedTypes DEF QuietInv, Opening, Editing, Saving
  <2>11. ASSUME Quiet'
         PROVE  Held(t) \subseteq settled' \cup Held(t)'
    <3>1. QuietInv(t) /\ TabInv(t) /\ "moved" \notin events
      BY <1>1, <2>6, <2>11, Before DEF Quiet
    <3>2. Editing(t) => s.shown \subseteq settled'
      BY <1>3, <2>5, <3>1 DEF QuietInv
    <3>3. s.saved = NoDraft \/ \E q \in Pages : s.saved.text \subseteq store[t][q].text \cup settled
      BY <3>1 DEF QuietInv, SameText, TabInv, OnPage
    <3>4. s.saved.text \subseteq settled' \cup UNION {store[t][q].text : q \in Pages}
      BY <2>5, <3>3, DraftTypes
    <3>5. QED
      BY <1>1, <3>2, <3>4 DEF Held
  <2>12. QED
    BY <1>1, <2>6, <2>7, <2>8, <2>9, <2>10, <2>11, StepKeeps DEF Keeps
<1>4. CASE UNCHANGED <<tab, save, beat, leaving, settled>>
  <2>1. Onward /\ \A u \in Tabs : Unmoved(u)
    BY <1>1, <1>4 DEF Onward, Unmoved
  <2>2. TypeOK' /\ \A q \in Pages : text'[q] \subseteq settled'
    BY <1>1, <1>2, <1>4 DEF TypeOK, IInv
  <2>3. QED
    BY <1>1, <2>1, <2>2, ServerKeeps
<1>5. QED
  BY <1>1, <1>3, <1>4

LEMMA ForceUnlockKeeps ==
  ASSUME IInv, NEW t \in Tabs, ForceUnlock(t)
  PROVE  IInv'
<1>1. /\ holder' = [holder EXCEPT ![tab[t].at] = Nobody] /\ Render(t, Blocked(tab[t], FALSE))
      /\ UNCHANGED <<store, save, beat, leaving>>
      /\ UNCHANGED <<head, text, edits, settled, events>>
  BY DEF ForceUnlock, flights, Blocked
<1>2. TypeOK /\ tab[t] \in Viewer
  BY TabTypes DEF IInv
<1>3. /\ tab' \in [Tabs -> Viewer] /\ \A u \in Tabs \ {t} : tab'[u] = tab[u]
      /\ Alike(tab'[t], tab[t])
  <2>1. Blocked(tab[t], FALSE) \in Viewer /\ Alike(Blocked(tab[t], FALSE), tab[t])
    BY <1>2, BlockedTypes
  <2>2. Alike(tab'[t], Blocked(tab[t], FALSE))
    BY <1>1, <1>2, <2>1, RenderStep
  <2>3. QED
    BY <1>1, <1>2, <2>1, <2>2, RenderStep DEF Alike
<1>4. Onward /\ \A u \in Tabs \ {t} : Unmoved(u)
  BY <1>1, <1>3 DEF Onward, Unmoved
<1>5. TypeOK' /\ \A p \in Pages : text'[p] \subseteq settled'
  BY <1>1, <1>2, <1>3 DEF TypeOK, IInv
<1>6. TabInv(t)' /\ BasesInv(t)' /\ FlightInv(t)'
  <2>1. TabInv(t)'
    BY <1>1, <1>3, Before DEF TabInv, Alike, Opening, Editing, Saving, OnPage
  <2>2. BasesInv(t)'
    BY <1>1, <1>3, Before DEF BasesInv, Alike
  <2>3. FlightInv(t)'
    BY <1>1, <1>3, Before DEF FlightInv, Alike, Editing, Saving
  <2>4. QED
    BY <2>1, <2>2, <2>3
<1>7. ASSUME Sighted'
      PROVE  SightedInv(t)'
  <2>1. SightedInv(t)
    BY <1>4, <1>7, Before
  <2>2. QED
    BY <1>1, <1>3, <2>1 DEF SightedInv, Alike, Opening, Editing, Saving
<1>8. ASSUME Quiet'
      PROVE  QuietInv(t)'
  <2>1. QuietInv(t)
    BY <1>4, <1>8, Before
  <2>2. QED
    BY <1>1, <1>3, <2>1 DEF QuietInv, SameText, Alike, Opening, Editing, Saving
<1>9. Held(t) = Held(t)'
  BY <1>1, <1>3 DEF Held, Alike, Editing
<1>10. QED
  BY <1>1, <1>4, <1>5, <1>6, <1>7, <1>8, <1>9, StepKeeps DEF Keeps

LEMMA OthersStepKeeps ==
  ASSUME IInv, Others
  PROVE  IInv'
<1>1. PICK p \in Pages : ColleagueLocks(p) \/ LockLost(p) \/ ColleagueCommits(p)
  BY DEF Others
<1>2. TypeOK /\ text[p] \in Texts /\ settled \in Texts /\ head \in Revisions
  BY <1>1, TabTypes DEF IInv, TypeOK
<1>3. UNCHANGED <<tab, store, save, beat, leaving, events>>
  BY <1>1 DEF ColleagueLocks, LockLost, ColleagueCommits, flights
<1>4. CASE ColleagueLocks(p) \/ LockLost(p)
  <2>1. /\ UNCHANGED <<head, text, edits, settled>>
        /\ holder' \in [Pages -> Tabs \cup {Nobody, Colleague}]
    BY <1>2, <1>4 DEF ColleagueLocks, LockLost, TypeOK
  <2>2. Onward /\ \A u \in Tabs : Unmoved(u)
    BY <1>3, <2>1 DEF Onward, Unmoved
  <2>3. TypeOK' /\ \A q \in Pages : text'[q] \subseteq settled'
    BY <1>2, <1>3, <2>1 DEF TypeOK, IInv
  <2>4. QED
    BY <2>1, <2>2, <2>3, ServerKeeps
<1>5. CASE ColleagueCommits(p)
  <2> DEFINE new == text[p] \cup {edits'}
  <2>1. /\ edits < MaxEdits /\ edits' = edits + 1 /\ head < MaxRevision /\ head' = head + 1
        /\ text' = [text EXCEPT ![p] = new] /\ settled' = settled \cup new
        /\ holder' = holder
    BY <1>5 DEF ColleagueCommits, NewEdit, Commit
  <2>2. edits' \in 0 .. MaxEdits /\ edits' \in Edits /\ head' \in Revisions
    BY <1>2, <2>1, BoundsAssumption, RevisionTypes DEF TypeOK, Edits
  <2>3. new \in Texts
    BY <1>2, <2>2, TextTypes
  <2>4. 1 .. edits' \subseteq 1 .. edits \cup {edits'} /\ edits' \in new
    BY <1>2, <2>1 DEF TypeOK
  <2> HIDE DEF new
  <2>5. \A q \in Pages : text'[q] = IF q = p THEN new ELSE text[q]
    BY <1>2, <2>1 DEF TypeOK
  <2>6. \A q \in Pages : text'[q] \subseteq settled'
    BY <2>1, <2>5 DEF IInv
  <2>7. Onward /\ \A u \in Tabs : Unmoved(u)
    BY <1>3, <2>1, <2>6 DEF Onward, Unmoved
  <2>8. TypeOK'
    <3>1. settled' \in Texts /\ text' \in [Pages -> Texts]
      BY <1>2, <2>1, <2>3, TextTypes DEF TypeOK
    <3>2. QED
      BY <1>2, <1>3, <2>1, <2>2, <3>1 DEF TypeOK
  <2>9. 1 .. edits' \subseteq 1 .. edits \cup settled'
    BY <2>1, <2>4
  <2>10. QED
    BY <2>6, <2>7, <2>8, <2>9, ServerKeeps
<1>6. QED
  BY <1>1, <1>4, <1>5
----------------------------------------------------------------------------
(* The theorems. *)

LEMMA StartHolds == Init => IInv
<1> SUFFICES ASSUME Init
             PROVE  IInv
  OBVIOUS
<1>1. /\ \A t \in Tabs : /\ tab[t] = Opened /\ save[t] = NoSave /\ beat[t] = NoBeat
                         /\ leaving[t] = Home
                         /\ \A p \in Pages : store[t][p] = NoDraft
      /\ head = 0 /\ edits = 0 /\ settled = Pages /\ events = {}
      /\ \A p \in Pages : text[p] = {p}
  BY DEF Init
<1>2. TypeOK
  <2>1. Opened \in Viewer /\ NoSave \in Saves /\ NoBeat \in [page : Places, base : Revisions]
    BY OpenedTypes
  <2>2. Home \in Places /\ 0 \in Revisions /\ 0 \in 0 .. MaxEdits
    BY RevisionTypes, BoundsAssumption DEF Places
  <2>3. Pages \in Texts /\ \A p \in Pages : {p} \in Texts
    BY DEF Texts
  <2>4. QED
    BY <2>1, <2>2, <2>3 DEF Init, TypeOK
<1>3. \A p \in Pages : text[p] \subseteq settled
  BY <1>1
<1>4. ASSUME NEW t \in Tabs
      PROVE  /\ TabInv(t) /\ BasesInv(t) /\ FlightInv(t)
             /\ SightedInv(t) /\ QuietInv(t)
  <2>1. /\ tab[t].mode = "reading" /\ tab[t].dialog = FALSE /\ tab[t].saved.base = -1
        /\ tab[t].saved = NoDraft /\ tab[t].base = 0 /\ tab[t].beatBase = 0
    BY <1>1, <1>4, OpenedTypes, DraftTypes
  <2>2. /\ save[t].stage = "none" /\ save[t].base = 0 /\ save[t].rev = 0 /\ beat[t].base = 0
        /\ \A p \in Pages : store[t][p].base = -1
    BY <1>1, <1>4, OpenedTypes, DraftTypes
  <2>3. TabInv(t) /\ FlightInv(t)
    BY <2>1, <2>2 DEF TabInv, FlightInv, Opening, Editing, Saving
  <2>4. BasesInv(t)
    BY <1>1, <2>1, <2>2 DEF BasesInv
  <2>5. SightedInv(t)
    BY <1>1, <2>1, <2>2 DEF SightedInv, Opening, Editing, Saving
  <2>6. QuietInv(t)
    BY <1>1, <1>4, <2>1, <2>2 DEF QuietInv, Opening, Editing, Saving
  <2>7. QED
    BY <2>3, <2>4, <2>5, <2>6
<1>5. EditsKept
  BY <1>1 DEF EditsKept
<1>6. QED
  BY <1>2, <1>3, <1>4, <1>5 DEF IInv

LEMMA SessionKeeps ==
  ASSUME IInv, NEW t \in Tabs, Session(t)
  PROVE  IInv'
<1>1. CASE StartEditing(t) \/ AcquireAnswered(t) \/ PageFetched(t) \/ FetchFailed(t)
  BY <1>1, StartEditingKeeps, AcquireAnsweredKeeps, PageFetchedKeeps, FetchFailedKeeps
<1>2. CASE RestoreDraft(t) \/ DiscardDraft(t) \/ Type(t) \/ DraftTimer(t)
  BY <1>2, RestoreDraftKeeps, DiscardDraftKeeps, TypeKeeps, DraftTimerKeeps
<1>3. CASE Save(t) \/ LockAndCommit(t)
  BY <1>3, SubmitKeeps, LockAndCommitKeeps DEF Save
<1>4. CASE SaveServed(t) \/ SaveRefused(t) \/ SaveAnswered(t) \/ Refetched(t)
  BY <1>4, SaveServedKeeps, SaveRefusedKeeps, SaveAnsweredKeeps, RefetchedKeeps
<1>5. CASE SaveFailed(t) \/ Released(t)
  BY <1>5, SaveFailedKeeps, ReleasedKeeps
<1>6. CASE SendBeat(t) \/ BeatAnswered(t) \/ BeatFailed(t)
  BY <1>6, SendBeatKeeps, BeatAnsweredKeeps, BeatFailedKeeps
<1>7. CASE (\E p \in Places : Navigate(t, p)) \/ Unload(t) \/ ForceUnlock(t)
  BY <1>7, NavigateKeeps, UnloadKeeps, ForceUnlockKeeps
<1>8. QED
  BY <1>1, <1>2, <1>3, <1>4, <1>5, <1>6, <1>7 DEF Session

LEMMA StutterKeeps ==
  ASSUME IInv, UNCHANGED vars
  PROVE  IInv'
<1>1. /\ UNCHANGED <<tab, store, save, beat, leaving>>
      /\ UNCHANGED <<head, text, holder, edits, settled, events>>
  BY DEF vars, flights, server
<1>2. Onward /\ \A u \in Tabs : Unmoved(u)
  BY <1>1 DEF Onward, Unmoved
<1>3. TypeOK' /\ \A p \in Pages : text'[p] \subseteq settled'
  BY <1>1 DEF IInv, TypeOK
<1>4. QED
  BY <1>1, <1>2, <1>3, ServerKeeps

\* What a tab shows, has stored, and has in flight is always accounted for: the
\* invariant of every step of every tab and of everybody else.
THEOREM InvariantHolds == Spec => []IInv
<1>1. Init => IInv
  BY StartHolds
<1>2. IInv /\ [Next]_vars => IInv'
  BY SessionKeeps, OthersStepKeeps, StutterKeeps DEF Next
<1>3. QED
  BY <1>1, <1>2, PTL DEF Spec

\* Every variable stays within its shape.
THEOREM TypeCorrect == Spec => []TypeOK
<1>1. IInv => TypeOK
  BY DEF IInv
<1>2. QED
  BY <1>1, InvariantHolds, PTL

\* An edit is in the branch or within its user's reach, through refused and lost
\* saves, lost locks, navigation and reloads: docs-viewer.tsx drops no draft whose
\* text is nowhere else, unless its user agreed or an event named in EditsKept came
\* first.
THEOREM NoEditIsLost == Spec => []EditsKept
<1>1. IInv => EditsKept
  BY DEF IInv
<1>2. QED
  BY <1>1, InvariantHolds, PTL

LEMMA CommitsGrow ==
  ASSUME IInv, Next, Sighted, NEW p \in Pages
  PROVE  text[p] \subseteq text'[p]
<1>1. TypeOK /\ text \in [Pages -> Texts]
  BY DEF IInv, TypeOK
<1>2. CASE UNCHANGED text
  BY <1>2
<1>3. ASSUME NEW t \in Tabs, SaveServed(t)
      PROVE  text[p] \subseteq text'[p]
  <2>1. /\ save[t].stage = "sent" /\ save[t].base = head
        /\ text' = [text EXCEPT ![save[t].page] = save[t].text]
    BY <1>3 DEF SaveServed, Commit
  <2>2. text[save[t].page] \subseteq save[t].text
    BY <2>1 DEF IInv, SightedInv
  <2>3. QED
    BY <1>1, <2>1, <2>2
<1>4. ASSUME NEW q \in Pages, ColleagueCommits(q)
      PROVE  text[p] \subseteq text'[p]
  BY <1>1, <1>4 DEF ColleagueCommits, Commit
<1>5. ASSUME NEW t \in Tabs, Session(t), ~SaveServed(t)
      PROVE  UNCHANGED text
  <2>1. CASE StartEditing(t) \/ AcquireAnswered(t) \/ PageFetched(t) \/ FetchFailed(t)
    BY <2>1 DEF StartEditing, AcquireAnswered, PageFetched, FetchFailed, server
  <2>2. CASE RestoreDraft(t) \/ DiscardDraft(t) \/ Type(t) \/ DraftTimer(t)
    BY <2>2 DEF RestoreDraft, DiscardDraft, Type, DraftTimer, server
  <2>3. CASE Save(t) \/ LockAndCommit(t)
    BY <2>3 DEF Save, LockAndCommit, Submit, server
  <2>4. CASE SaveRefused(t) \/ SaveAnswered(t) \/ Refetched(t) \/ SaveFailed(t) \/ Released(t)
    BY <2>4 DEF SaveRefused, SaveAnswered, Refetched, SaveFailed, Released, server
  <2>5. CASE SendBeat(t) \/ BeatAnswered(t) \/ BeatFailed(t)
    BY <2>5 DEF SendBeat, BeatAnswered, BeatFailed, server
  <2>6. CASE (\E q \in Places : Navigate(t, q)) \/ Unload(t) \/ ForceUnlock(t)
    BY <2>6 DEF Navigate, Unload, ForceUnlock
  <2>7. QED
    BY <1>5, <2>1, <2>2, <2>3, <2>4, <2>5, <2>6 DEF Session
<1>6. ASSUME NEW q \in Pages, ColleagueLocks(q) \/ LockLost(q)
      PROVE  UNCHANGED text
  BY <1>6 DEF ColleagueLocks, LockLost
<1>7. QED
  BY <1>2, <1>3, <1>4, <1>5, <1>6 DEF Next, Others

\* No save drops what the page holds, its own text or anybody's edit, unless one of
\* the Blinding events came first: the lock, the base revision and the base of a
\* stored draft together keep a tab from committing over text it does not show.
THEOREM SavesDropNothing == Spec => CommitsKeep
<1>1. IInv /\ [Next]_vars =>
        [events \cap Blinding = {} => \A p \in Pages : text[p] \subseteq text'[p]]_text
  <2>1. SUFFICES ASSUME IInv, [Next]_vars, text' # text, events \cap Blinding = {},
                        NEW p \in Pages
                 PROVE  text[p] \subseteq text'[p]
    OBVIOUS
  <2>2. Next
    BY <2>1 DEF vars, server
  <2>3. QED
    BY <2>1, <2>2, CommitsGrow DEF Sighted
<1>2. QED
  BY <1>1, InvariantHolds, PTL DEF Spec, CommitsKeep
============================================================================
