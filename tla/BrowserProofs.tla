---------------------------- MODULE BrowserProofs ----------------------------
(***************************************************************************)
(* Proofs about what the browser keeps of notes and of the user's session   *)
(* and portrait: NoteDesk, for any set of notes, and Account, for any sets  *)
(* of requests and agents, each for every bound.  They share no variable.   *)
(***************************************************************************)
EXTENDS NoteDesk, Account, TLAPS

-----------------------------------------------------------------------------
(* NoteDesk: notes, their editor, the address and the one-shot signals. *)

Stored == [Notes -> Texts \cup {None}]
Asked  == {"none", "sent", "read"}

PanelRecords ==
  [seen : Paths \cup {None}, selected : Notes \cup {None}, list : Stored \cup {None},
   req : Asked, got : Stored \cup {None}, chosen : SUBSET Notes, creates : BOOLEAN,
   asked : BOOLEAN]
EditorRecords ==
  [text : Texts \cup {None}, req : Asked, got : Texts \cup {None}, failed : BOOLEAN,
   saving : BOOLEAN, deleting : BOOLEAN]
PreviewRecords ==
  [id : Notes \cup {None}, doc : Notes \cup {None}, req : Asked, got : Notes \cup {None},
   failed : BOOLEAN]
SaveRecords == [note : Notes, text : Texts, panel : BOOLEAN, editor : BOOLEAN]
ArchiveRecords ==
  [note : Notes, by : {"editor", "list", "nobody"}, panel : BOOLEAN, editor : BOOLEAN]

Types ==
  /\ stored \in Stored
  /\ path \in Paths /\ push \in Paths \cup {None} /\ view \in {"chat", "notes"}
  /\ editing \in Notes \cup {None} /\ intent \in Notes \cup {None}
  /\ panel \in PanelRecords /\ editor \in EditorRecords /\ preview \in PreviewRecords
  /\ attached \in Seq(Notes)
  /\ saves \subseteq SaveRecords /\ archives \subseteq ArchiveRecords
  /\ creating \in Notes \cup {None} /\ going \in Notes \cup {None}
  /\ typed \in Nat
  /\ acked \in [Notes -> SUBSET Edits]
  /\ blind \in BOOLEAN /\ reopened \in BOOLEAN /\ unloaded \in BOOLEAN /\ orphaned \in BOOLEAN

\* The note the pencil sent waits for the effects of a page whose address is the chat's.
SignalWaits == editing # None => view = "notes" /\ path = "chat"

\* The panel has selected what its effect saw in the address.
PathIsSeen == panel.selected = IF panel.seen = None THEN None ELSE IdIn(panel.seen)

\* The chat has no panel, and no panel waits for an answer there.
ChatIsBare ==
  view = "chat" => /\ panel = NoPanel
                   /\ \A s \in saves : ~ s.panel
                   /\ \A a \in archives : ~ a.panel
EditorFits == panel.selected = None => editor = NoEditor

\* The editor waits for one save.
SavesFit ==
  /\ \A s \in saves : s.editor => editor.saving
  /\ \A s, t \in saves : s.editor /\ t.editor => s = t

\* The editor has what it loaded.
Reads  == panel.selected # None /\ editor.req = "read"
Loaded == panel.selected # None /\ editor.req = "none" /\ ~ editor.failed

\* A text is of the note it is stored, saved or edited under.
TextsFit ==
  ~ blind =>
    /\ \A n \in Notes : stored[n] # None => stored[n].of = n
    /\ \A s \in saves : s.text.of = s.note
    /\ Reads => editor.got # None /\ editor.got.of = panel.selected
    /\ Loaded => editor.text # None /\ editor.text.of = panel.selected

\* It has every edit the user was told is saved; the text of an open note has those of
\* the save that is under way as well, and no other save of the note is.
EditsFit ==
  ~ blind /\ ~ reopened =>
    /\ \A n \in Notes : stored[n] # None => acked[n] \subseteq stored[n].edits
    /\ \A s \in saves : acked[s.note] \subseteq s.text.edits
    /\ \A s, t \in saves : s.note = t.note => s = t
    /\ Reads => /\ acked[panel.selected] \subseteq editor.got.edits
                /\ \A s \in saves : s.note # panel.selected
    /\ Loaded => /\ acked[panel.selected] \subseteq editor.text.edits
                 /\ \A s \in saves : s.note = panel.selected =>
                      s.editor /\ s.text.edits \subseteq editor.text.edits

\* A note that is being created is not there yet.
CreationFits == creating # None => stored[creating] = None /\ acked[creating] = {}

\* Archivings the list waits for were asked for by one panel, and reload its list with
\* the last of them.
ListsTogether == \A a, b \in archives : a.by = "list" /\ b.by = "list" => a.panel = b.panel
ListWaits     == \E a \in archives : a.by = "list" /\ a.panel

\* The list is the server's, or will be asked for again.
ListFits ==
  view = "notes" /\ ~ unloaded /\ ~ orphaned =>
    \/ panel.req = "sent" \/ ListWaits
    \/ panel.req = "read" /\ panel.got = Newest(stored)
    \/ panel.req = "none" /\ panel.list = Newest(stored)

\* The preview shows, or is about to show, what was chosen last.
PreviewFits ==
  view = "chat" => /\ preview.req = "read" => preview.got = preview.id
                   /\ preview.req = "none" /\ ~ preview.failed => preview.doc = preview.id

IInv ==
  /\ Types
  /\ SignalWaits
  /\ PathIsSeen
  /\ ChatIsBare
  /\ EditorFits
  /\ SavesFit
  /\ TextsFit
  /\ EditsFit
  /\ CreationFits
  /\ ListsTogether
  /\ ListFits
  /\ PreviewFits
-----------------------------------------------------------------------------
(* Records. *)

\* The records a panel, an editor and a preview start from.
LEMMA EmptyRecords ==
  /\ NoPanel \in PanelRecords /\ NewPanel \in PanelRecords
  /\ NoPanel.seen = None /\ NoPanel.selected = None /\ NoPanel.req = "none"
  /\ NoPanel.creates = FALSE /\ NoPanel.asked = FALSE
  /\ NewPanel.seen = None /\ NewPanel.selected = None /\ NewPanel.req = "sent"
  /\ NoEditor \in EditorRecords /\ NewEditor \in EditorRecords
  /\ NoEditor.req = "none" /\ NoEditor.saving = FALSE /\ NoEditor.deleting = FALSE
  /\ NewEditor.req = "sent" /\ NewEditor.saving = FALSE
  /\ NoPreview \in PreviewRecords /\ NoPreview.id = None /\ NoPreview.doc = None
  /\ NoPreview.req = "none"
<1>1. NoPanel \in PanelRecords /\ NoPanel.seen = None /\ NoPanel.selected = None
      /\ NoPanel.req = "none" /\ NoPanel.creates = FALSE /\ NoPanel.asked = FALSE
  BY DEF NoPanel, PanelRecords, Asked
<1>2. NewPanel \in PanelRecords /\ NewPanel.seen = None /\ NewPanel.selected = None
      /\ NewPanel.req = "sent"
  BY <1>1 DEF NewPanel, PanelRecords, Asked
<1>3. NoEditor \in EditorRecords /\ NoEditor.req = "none" /\ NoEditor.saving = FALSE
      /\ NoEditor.deleting = FALSE
  BY DEF NoEditor, EditorRecords, Asked
<1>4. NewEditor \in EditorRecords /\ NewEditor.req = "sent" /\ NewEditor.saving = FALSE
  BY <1>3 DEF NewEditor, EditorRecords, Asked
<1>5. NoPreview \in PreviewRecords /\ NoPreview.id = None /\ NoPreview.doc = None
      /\ NoPreview.req = "none"
  BY DEF NoPreview, PreviewRecords, Asked
<1> QED  BY <1>1, <1>2, <1>3, <1>4, <1>5

\* The fields of a panel.
LEMMA PanelTypes ==
  ASSUME NEW p \in PanelRecords
  PROVE  /\ p.seen \in Paths \cup {None} /\ p.selected \in Notes \cup {None}
         /\ p.req \in Asked /\ p.list \in Stored \cup {None} /\ p.got \in Stored \cup {None}
         /\ p.chosen \subseteq Notes /\ p.creates \in BOOLEAN
         /\ p.asked \in BOOLEAN
BY DEF PanelRecords

\* The fields of an editor.
LEMMA EditorTypes ==
  ASSUME NEW e \in EditorRecords
  PROVE  /\ e.text \in Texts \cup {None} /\ e.got \in Texts \cup {None} /\ e.req \in Asked
         /\ e.failed \in BOOLEAN /\ e.saving \in BOOLEAN /\ e.deleting \in BOOLEAN
BY DEF EditorRecords

\* The fields of a preview.
LEMMA PreviewTypes ==
  ASSUME NEW p \in PreviewRecords
  PROVE  /\ p.id \in Notes \cup {None} /\ p.doc \in Notes \cup {None}
         /\ p.got \in Notes \cup {None} /\ p.req \in Asked /\ p.failed \in BOOLEAN
BY DEF PreviewRecords

\* The fields of a save and of an archiving.
LEMMA CallTypes ==
  /\ \A s \in SaveRecords : s.note \in Notes /\ s.text \in Texts
                            /\ s.panel \in BOOLEAN /\ s.editor \in BOOLEAN
  /\ \A a \in ArchiveRecords : a.note \in Notes /\ a.by \in {"editor", "list", "nobody"}
                               /\ a.panel \in BOOLEAN /\ a.editor \in BOOLEAN
BY DEF SaveRecords, ArchiveRecords

\* A page of notes.
LEMMA NewestFacts ==
  ASSUME stored \in Stored
  PROVE  Newest(stored) \in Stored
BY DEF Newest, Stored

\* A list that is loaded again.
LEMMA ReloadedFacts ==
  ASSUME NEW p \in PanelRecords
  PROVE  /\ Reloaded(p) \in PanelRecords /\ Reloaded(p).req = "sent"
         /\ Reloaded(p).seen = p.seen /\ Reloaded(p).selected = p.selected
BY DEF Reloaded, PanelRecords, Asked

\* The preview after a choice.
LEMMA PreviewOfFacts ==
  ASSUME NEW p \in PreviewRecords, NEW n \in Notes \cup {None}
  PROVE  /\ PreviewOf(p, n) \in PreviewRecords
         /\ \/ PreviewOf(p, n) = p
            \/ PreviewOf(p, n).req = "sent"
            \/ PreviewOf(p, n) = NoPreview
<1>1. CASE n = p.id  BY <1>1 DEF PreviewOf
<1>2. CASE n # p.id /\ n = None  BY <1>2, EmptyRecords DEF PreviewOf
<1>3. CASE n # p.id /\ n # None
  <2> DEFINE q == [p EXCEPT !.id = n, !.req = "sent", !.failed = FALSE]
  <2>1. PreviewOf(p, n) = q  BY <1>3 DEF PreviewOf
  <2>2. q \in PreviewRecords /\ q.req = "sent"  BY DEF PreviewRecords, Asked
  <2> HIDE DEF q
  <2> QED  BY <2>1, <2>2
<1> QED  BY <1>1, <1>2, <1>3

\* The documents with one more.
LEMMA AttachFacts ==
  ASSUME attached \in Seq(Notes), NEW n \in Notes
  PROVE  Attach(n) \in Seq(Notes)
BY DEF Attach

\* The address of a page.
LEMMA AddressFacts ==
  /\ \A p \in Paths : ViewOf(p) \in {"chat", "notes"} /\ IdIn(p) \in Notes \cup {None}
  /\ ViewOf("chat") = "chat" /\ "chat" \in Paths /\ "grid" \in Paths /\ Notes \subseteq Paths
  /\ None \notin Paths /\ None \notin Notes
  /\ \A p \in Paths : ViewOf(p) = "chat" => p = "chat"
BY DeskAssumption DEF Paths, ViewOf, IdIn

-----------------------------------------------------------------------------
(* What leaves each part of the invariant alone. *)

\* The note the pencil sent.
LEMMA SignalStays ==
  ASSUME editing = None, editing' = editing
  PROVE  SignalWaits'
BY DEF SignalWaits

\* What the panel's effect saw and selected.
LEMMA PathStays ==
  ASSUME PathIsSeen, panel'.seen = panel.seen, panel'.selected = panel.selected
  PROVE  PathIsSeen'
BY DEF PathIsSeen, IdIn

\* The bare chat.
LEMMA BareStays ==
  ASSUME Types, ChatIsBare, view' = view, view = "chat" => panel' = panel,
         \A s \in saves' : view = "chat" => s \in saves \/ ~ s.panel,
         \A a \in archives' : view = "chat" => a \in archives \/ ~ a.panel
  PROVE  ChatIsBare'
BY DEF ChatIsBare, Types

\* The texts of the server, the saves and the editor.
LEMMA TextsStay ==
  ASSUME EditorFits, SavesFit, TextsFit, EditsFit,
         stored' = stored, saves' = saves, acked' = acked, blind' = blind,
         reopened' = reopened, panel'.selected = panel.selected,
         editor'.text = editor.text, editor'.got = editor.got, editor'.req = editor.req,
         editor'.failed = editor.failed, editor'.saving = editor.saving,
         panel.selected = None => editor' = editor
  PROVE  EditorFits' /\ SavesFit' /\ TextsFit' /\ EditsFit'
<1>1. EditorFits' /\ SavesFit'  BY DEF EditorFits, SavesFit
<1>2. TextsFit'  BY DEF TextsFit, Reads, Loaded
<1>3. EditsFit'  BY DEF EditsFit, Reads, Loaded
<1> QED  BY <1>1, <1>2, <1>3

\* The note that is being created.
LEMMA CreationStays ==
  ASSUME CreationFits, creating' = creating, stored' = stored, acked' = acked
  PROVE  CreationFits'
BY DEF CreationFits

\* The list of notes.
LEMMA ListStays ==
  ASSUME ListsTogether, ListFits, stored' = stored, view' = view, unloaded' = unloaded,
         orphaned' = orphaned, archives' = archives, panel'.req = panel.req,
         panel'.got = panel.got, panel'.list = panel.list
  PROVE  ListsTogether' /\ ListFits'
BY DEF ListsTogether, ListFits, ListWaits

\* The preview.
LEMMA PreviewStays ==
  ASSUME PreviewFits, preview' = preview, view' = view
  PROVE  PreviewFits'
BY DEF PreviewFits
-----------------------------------------------------------------------------
(* The steps.  First those that leave the texts alone. *)

\* Visit keeps the invariant.
LEMMA VisitStep ==
  ASSUME IInv, Visit
  PROVE  IInv'
<1>0. /\ Types /\ SignalWaits /\ PathIsSeen /\ ChatIsBare /\ EditorFits /\ SavesFit
      /\ TextsFit /\ EditsFit /\ CreationFits /\ ListsTogether /\ ListFits /\ PreviewFits
  BY DEF IInv
<1>1. /\ stored' = stored /\ view' = view /\ editing' = editing /\ intent' = intent
      /\ panel' = panel /\ editor' = editor /\ preview' = preview /\ attached' = attached
      /\ saves' = saves /\ archives' = archives /\ creating' = creating /\ going' = going
      /\ typed' = typed /\ faults' = faults /\ acked' = acked /\ blind' = blind
      /\ reopened' = reopened /\ unloaded' = unloaded /\ orphaned' = orphaned
  BY DEF Visit, signals, beside, waiting, history
<1>2. editing = None /\ intent = None
  BY DEF Visit, Event, Settled
<1>3. path' \in Paths /\ push' = None  BY DEF Visit
<1>4. Types'  BY <1>0, <1>1, <1>2, <1>3 DEF Types
<1>5. SignalWaits'  BY <1>0, <1>1, <1>2, <1>3, SignalStays
<1>6. PathIsSeen'  BY <1>0, <1>1, <1>2, <1>3, PathStays
<1>7. ChatIsBare'  BY <1>0, <1>1, <1>2, <1>3, BareStays
<1>8. EditorFits' /\ SavesFit' /\ TextsFit' /\ EditsFit'  BY <1>0, <1>1, <1>2, <1>3, TextsStay
<1>9. CreationFits'  BY <1>0, <1>1, <1>2, <1>3, CreationStays
<1>10. ListsTogether' /\ ListFits'  BY <1>0, <1>1, <1>2, <1>3, ListStays
<1>11. PreviewFits'  BY <1>0, <1>1, <1>2, <1>3, PreviewStays
<1> QED
  BY <1>4, <1>5, <1>6, <1>7, <1>8, <1>9, <1>10, <1>11 DEF IInv

\* Land keeps the invariant.
LEMMA LandStep ==
  ASSUME IInv, Land
  PROVE  IInv'
<1>0. /\ Types /\ SignalWaits /\ PathIsSeen /\ ChatIsBare /\ EditorFits /\ SavesFit
      /\ TextsFit /\ EditsFit /\ CreationFits /\ ListsTogether /\ ListFits /\ PreviewFits
  BY DEF IInv
<1>1. /\ stored' = stored /\ view' = view /\ editing' = editing /\ intent' = intent
      /\ panel' = panel /\ editor' = editor /\ preview' = preview /\ attached' = attached
      /\ saves' = saves /\ archives' = archives /\ creating' = creating /\ going' = going
      /\ typed' = typed /\ events' = events /\ faults' = faults /\ acked' = acked
      /\ blind' = blind /\ reopened' = reopened /\ unloaded' = unloaded
      /\ orphaned' = orphaned
  BY DEF Land, signals, beside, waiting, bounds, history
<1>2. editing = None /\ intent = None
  BY DEF Land, Heeded
<1>3. path' \in Paths /\ push' = None  BY <1>0 DEF Land, Types
<1>4. Types'  BY <1>0, <1>1, <1>2, <1>3 DEF Types
<1>5. SignalWaits'  BY <1>0, <1>1, <1>2, <1>3, SignalStays
<1>6. PathIsSeen'  BY <1>0, <1>1, <1>2, <1>3, PathStays
<1>7. ChatIsBare'  BY <1>0, <1>1, <1>2, <1>3, BareStays
<1>8. EditorFits' /\ SavesFit' /\ TextsFit' /\ EditsFit'  BY <1>0, <1>1, <1>2, <1>3, TextsStay
<1>9. CreationFits'  BY <1>0, <1>1, <1>2, <1>3, CreationStays
<1>10. ListsTogether' /\ ListFits'  BY <1>0, <1>1, <1>2, <1>3, ListStays
<1>11. PreviewFits'  BY <1>0, <1>1, <1>2, <1>3, PreviewStays
<1> QED
  BY <1>4, <1>5, <1>6, <1>7, <1>8, <1>9, <1>10, <1>11 DEF IInv

\* OpenCard keeps the invariant.
LEMMA OpenCardStep ==
  ASSUME IInv, OpenCard
  PROVE  IInv'
<1>0. /\ Types /\ SignalWaits /\ PathIsSeen /\ ChatIsBare /\ EditorFits /\ SavesFit
      /\ TextsFit /\ EditsFit /\ CreationFits /\ ListsTogether /\ ListFits /\ PreviewFits
  BY DEF IInv
<1>1. /\ stored' = stored /\ path' = path /\ view' = view /\ editing' = editing
      /\ intent' = intent /\ panel' = panel /\ editor' = editor /\ preview' = preview
      /\ attached' = attached /\ saves' = saves /\ archives' = archives
      /\ creating' = creating /\ going' = going /\ typed' = typed /\ faults' = faults
      /\ acked' = acked /\ blind' = blind /\ reopened' = reopened /\ unloaded' = unloaded
      /\ orphaned' = orphaned
  BY DEF OpenCard, signals, beside, waiting, history
<1>2. editing = None /\ intent = None
  BY DEF OpenCard, Event, Settled
<1>3. push' \in Paths \cup {None}  BY AddressFacts DEF OpenCard, Listed
<1>4. Types'  BY <1>0, <1>1, <1>2, <1>3 DEF Types
<1>5. SignalWaits'  BY <1>0, <1>1, <1>2, <1>3, SignalStays
<1>6. PathIsSeen'  BY <1>0, <1>1, <1>2, <1>3, PathStays
<1>7. ChatIsBare'  BY <1>0, <1>1, <1>2, <1>3, BareStays
<1>8. EditorFits' /\ SavesFit' /\ TextsFit' /\ EditsFit'  BY <1>0, <1>1, <1>2, <1>3, TextsStay
<1>9. CreationFits'  BY <1>0, <1>1, <1>2, <1>3, CreationStays
<1>10. ListsTogether' /\ ListFits'  BY <1>0, <1>1, <1>2, <1>3, ListStays
<1>11. PreviewFits'  BY <1>0, <1>1, <1>2, <1>3, PreviewStays
<1> QED
  BY <1>4, <1>5, <1>6, <1>7, <1>8, <1>9, <1>10, <1>11 DEF IInv

\* Choose keeps the invariant.
LEMMA ChooseStep ==
  ASSUME IInv, Choose
  PROVE  IInv'
<1>0. /\ Types /\ SignalWaits /\ PathIsSeen /\ ChatIsBare /\ EditorFits /\ SavesFit
      /\ TextsFit /\ EditsFit /\ CreationFits /\ ListsTogether /\ ListFits /\ PreviewFits
  BY DEF IInv
<1>1. /\ stored' = stored /\ path' = path /\ push' = push /\ view' = view /\ editing' = editing
      /\ intent' = intent /\ editor' = editor /\ preview' = preview /\ attached' = attached
      /\ saves' = saves /\ archives' = archives /\ creating' = creating /\ going' = going
      /\ typed' = typed /\ faults' = faults /\ acked' = acked /\ blind' = blind
      /\ reopened' = reopened /\ unloaded' = unloaded /\ orphaned' = orphaned
  BY DEF Choose, address, signals, beside, waiting, history
<1>2. editing = None /\ intent = None
  BY DEF Choose, Event, Settled
<1>3. PICK n \in Notes : panel' = [panel EXCEPT !.chosen = (@ \ {n}) \cup ({n} \ @)]
  BY DEF Choose, Listed
<1>4. /\ panel' \in PanelRecords /\ panel'.seen = panel.seen /\ panel'.selected = panel.selected
      /\ panel'.req = panel.req /\ panel'.got = panel.got /\ panel'.list = panel.list
  <2>1. panel \in PanelRecords /\ (panel.chosen \ {n}) \cup ({n} \ panel.chosen) \in SUBSET Notes
    BY <1>0, PanelTypes DEF Types
  <2> QED  BY <1>3, <2>1 DEF PanelRecords
<1>5. view = "notes"  BY DEF Choose, OnGrid
<1>6. Types'  BY <1>0, <1>1, <1>2, <1>3, <1>4, <1>5 DEF Types
<1>7. SignalWaits'  BY <1>0, <1>1, <1>2, <1>3, <1>4, <1>5, SignalStays
<1>8. PathIsSeen'  BY <1>0, <1>1, <1>2, <1>3, <1>4, <1>5, PathStays
<1>9. ChatIsBare'  BY <1>0, <1>1, <1>2, <1>3, <1>4, <1>5, BareStays
<1>10. EditorFits' /\ SavesFit' /\ TextsFit' /\ EditsFit'
  BY <1>0, <1>1, <1>2, <1>3, <1>4, <1>5, TextsStay
<1>11. CreationFits'  BY <1>0, <1>1, <1>2, <1>3, <1>4, <1>5, CreationStays
<1>12. ListsTogether' /\ ListFits'  BY <1>0, <1>1, <1>2, <1>3, <1>4, <1>5, ListStays
<1>13. PreviewFits'  BY <1>0, <1>1, <1>2, <1>3, <1>4, <1>5, PreviewStays
<1> QED
  BY <1>6, <1>7, <1>8, <1>9, <1>10, <1>11, <1>12, <1>13 DEF IInv

\* Refresh keeps the invariant.
LEMMA RefreshStep ==
  ASSUME IInv, Refresh
  PROVE  IInv'
<1>0. /\ Types /\ SignalWaits /\ PathIsSeen /\ ChatIsBare /\ EditorFits /\ SavesFit
      /\ TextsFit /\ EditsFit /\ CreationFits /\ ListsTogether /\ ListFits /\ PreviewFits
  BY DEF IInv
<1>1. /\ stored' = stored /\ path' = path /\ push' = push /\ view' = view /\ editing' = editing
      /\ intent' = intent /\ editor' = editor /\ preview' = preview /\ attached' = attached
      /\ saves' = saves /\ archives' = archives /\ creating' = creating /\ going' = going
      /\ typed' = typed /\ faults' = faults /\ acked' = acked /\ blind' = blind
      /\ reopened' = reopened /\ unloaded' = unloaded /\ orphaned' = orphaned
  BY DEF Refresh, address, signals, beside, waiting, history
<1>2. editing = None /\ intent = None
  BY DEF Refresh, Event, Settled
<1>3. view = "notes" /\ panel' = Reloaded(panel) /\ panel \in PanelRecords
  BY <1>0 DEF Refresh, OnGrid, Types
<1>4. /\ panel' \in PanelRecords /\ panel'.seen = panel.seen /\ panel'.selected = panel.selected
      /\ panel'.req = "sent"
  BY <1>3, ReloadedFacts
<1>5. Types'  BY <1>0, <1>1, <1>2, <1>3, <1>4 DEF Types
<1>6. SignalWaits'  BY <1>0, <1>1, <1>2, <1>3, <1>4, SignalStays
<1>7. PathIsSeen'  BY <1>0, <1>1, <1>2, <1>3, <1>4, PathStays
<1>8. ChatIsBare'  BY <1>0, <1>1, <1>2, <1>3, <1>4, BareStays
<1>9. EditorFits' /\ SavesFit' /\ TextsFit' /\ EditsFit'
  BY <1>0, <1>1, <1>2, <1>3, <1>4, TextsStay
<1>10. CreationFits'  BY <1>0, <1>1, <1>2, <1>3, <1>4, CreationStays
<1>11. ListsTogether' /\ ListFits'  BY <1>0, <1>1, <1>4 DEF ListsTogether, ListFits
<1>12. PreviewFits'  BY <1>0, <1>1, <1>2, <1>3, <1>4, PreviewStays
<1> QED
  BY <1>5, <1>6, <1>7, <1>8, <1>9, <1>10, <1>11, <1>12 DEF IInv

\* CreateNote keeps the invariant.
LEMMA CreateNoteStep ==
  ASSUME IInv, CreateNote
  PROVE  IInv'
<1>0. /\ Types /\ SignalWaits /\ PathIsSeen /\ ChatIsBare /\ EditorFits /\ SavesFit
      /\ TextsFit /\ EditsFit /\ CreationFits /\ ListsTogether /\ ListFits /\ PreviewFits
  BY DEF IInv
<1>1. /\ stored' = stored /\ path' = path /\ push' = push /\ view' = view /\ editing' = editing
      /\ intent' = intent /\ editor' = editor /\ preview' = preview /\ attached' = attached
      /\ saves' = saves /\ archives' = archives /\ going' = going /\ typed' = typed
      /\ faults' = faults /\ acked' = acked /\ blind' = blind /\ reopened' = reopened
      /\ unloaded' = unloaded /\ orphaned' = orphaned
  BY DEF CreateNote, address, signals, beside, history
<1>2. editing = None /\ intent = None
  BY DEF CreateNote, Event, Settled
<1>3. PICK n \in Notes : stored[n] = None /\ acked[n] = {} /\ creating' = n
  BY DEF CreateNote
<1>4. view = "notes" /\ panel \in PanelRecords /\ panel' = [panel EXCEPT !.creates = TRUE,
                                                                   !.asked = TRUE]
  BY <1>0 DEF CreateNote, OnGrid, Types
<1>5. /\ panel' \in PanelRecords /\ panel'.seen = panel.seen /\ panel'.selected = panel.selected
      /\ panel'.req = panel.req /\ panel'.got = panel.got /\ panel'.list = panel.list
  BY <1>4 DEF PanelRecords
<1>6. Types'  BY <1>0, <1>1, <1>2, <1>3, <1>4, <1>5 DEF Types
<1>7. SignalWaits'  BY <1>0, <1>1, <1>2, <1>3, <1>4, <1>5, SignalStays
<1>8. PathIsSeen'  BY <1>0, <1>1, <1>2, <1>3, <1>4, <1>5, PathStays
<1>9. ChatIsBare'  BY <1>0, <1>1, <1>2, <1>3, <1>4, <1>5, BareStays
<1>10. EditorFits' /\ SavesFit' /\ TextsFit' /\ EditsFit'
  BY <1>0, <1>1, <1>2, <1>3, <1>4, <1>5, TextsStay
<1>11. CreationFits'  BY <1>1, <1>3 DEF CreationFits
<1>12. ListsTogether' /\ ListFits'  BY <1>0, <1>1, <1>2, <1>3, <1>4, <1>5, ListStays
<1>13. PreviewFits'  BY <1>0, <1>1, <1>2, <1>3, <1>4, <1>5, PreviewStays
<1> QED
  BY <1>6, <1>7, <1>8, <1>9, <1>10, <1>11, <1>12, <1>13 DEF IInv

\* Back keeps the invariant.
LEMMA BackStep ==
  ASSUME IInv, Back
  PROVE  IInv'
<1>0. /\ Types /\ SignalWaits /\ PathIsSeen /\ ChatIsBare /\ EditorFits /\ SavesFit
      /\ TextsFit /\ EditsFit /\ CreationFits /\ ListsTogether /\ ListFits /\ PreviewFits
  BY DEF IInv
<1>1. /\ stored' = stored /\ path' = path /\ view' = view /\ editing' = editing
      /\ intent' = intent /\ editor' = editor /\ preview' = preview /\ attached' = attached
      /\ saves' = saves /\ archives' = archives /\ creating' = creating /\ going' = going
      /\ typed' = typed /\ faults' = faults /\ acked' = acked /\ blind' = blind
      /\ reopened' = reopened /\ unloaded' = unloaded /\ orphaned' = orphaned
  BY DEF Back, signals, beside, waiting, history
<1>2. editing = None /\ intent = None
  BY DEF Back, Event, Settled
<1>3. view = "notes" /\ panel \in PanelRecords /\ panel' = [panel EXCEPT !.chosen = {}]
      /\ push' = "grid"
  BY <1>0 DEF Back, Editing, Types
<1>4. /\ panel' \in PanelRecords /\ panel'.seen = panel.seen /\ panel'.selected = panel.selected
      /\ panel'.req = panel.req /\ panel'.got = panel.got /\ panel'.list = panel.list
      /\ push' \in Paths
  BY <1>3, AddressFacts DEF PanelRecords
<1>5. Types'  BY <1>0, <1>1, <1>2, <1>3, <1>4 DEF Types
<1>6. SignalWaits'  BY <1>0, <1>1, <1>2, <1>3, <1>4, SignalStays
<1>7. PathIsSeen'  BY <1>0, <1>1, <1>2, <1>3, <1>4, PathStays
<1>8. ChatIsBare'  BY <1>0, <1>1, <1>2, <1>3, <1>4, BareStays
<1>9. EditorFits' /\ SavesFit' /\ TextsFit' /\ EditsFit'
  BY <1>0, <1>1, <1>2, <1>3, <1>4, TextsStay
<1>10. CreationFits'  BY <1>0, <1>1, <1>2, <1>3, <1>4, CreationStays
<1>11. ListsTogether' /\ ListFits'  BY <1>0, <1>1, <1>2, <1>3, <1>4, ListStays
<1>12. PreviewFits'  BY <1>0, <1>1, <1>2, <1>3, <1>4, PreviewStays
<1> QED
  BY <1>5, <1>6, <1>7, <1>8, <1>9, <1>10, <1>11, <1>12 DEF IInv

\* GoToChat keeps the invariant.
LEMMA GoToChatStep ==
  ASSUME IInv, GoToChat
  PROVE  IInv'
<1>0. /\ Types /\ SignalWaits /\ PathIsSeen /\ ChatIsBare /\ EditorFits /\ SavesFit
      /\ TextsFit /\ EditsFit /\ CreationFits /\ ListsTogether /\ ListFits /\ PreviewFits
  BY DEF IInv
<1>1. /\ stored' = stored /\ path' = path /\ push' = push /\ view' = view /\ editing' = editing
      /\ intent' = intent /\ panel' = panel /\ editor' = editor /\ preview' = preview
      /\ attached' = attached /\ saves' = saves /\ archives' = archives
      /\ creating' = creating /\ typed' = typed /\ faults' = faults /\ acked' = acked
      /\ blind' = blind /\ reopened' = reopened /\ unloaded' = unloaded
      /\ orphaned' = orphaned
  BY DEF GoToChat, address, signals, beside, history
<1>2. editing = None /\ intent = None
  BY DEF GoToChat, Event, Settled
<1>3. going' \in Notes \cup {None}
  <2>1. panel \in PanelRecords  BY <1>0 DEF Types
  <2> QED  BY <2>1, PanelTypes DEF GoToChat
<1>4. Types'  BY <1>0, <1>1, <1>2, <1>3 DEF Types
<1>5. SignalWaits'  BY <1>0, <1>1, <1>2, <1>3, SignalStays
<1>6. PathIsSeen'  BY <1>0, <1>1, <1>2, <1>3, PathStays
<1>7. ChatIsBare'  BY <1>0, <1>1, <1>2, <1>3, BareStays
<1>8. EditorFits' /\ SavesFit' /\ TextsFit' /\ EditsFit'  BY <1>0, <1>1, <1>2, <1>3, TextsStay
<1>9. CreationFits'  BY <1>0, <1>1, <1>2, <1>3, CreationStays
<1>10. ListsTogether' /\ ListFits'  BY <1>0, <1>1, <1>2, <1>3, ListStays
<1>11. PreviewFits'  BY <1>0, <1>1, <1>2, <1>3, PreviewStays
<1> QED
  BY <1>4, <1>5, <1>6, <1>7, <1>8, <1>9, <1>10, <1>11 DEF IInv

\* The answer to GoToChat keeps the invariant.
LEMMA GoToChatAnsweredStep ==
  ASSUME IInv, GoToChatAnswered
  PROVE  IInv'
<1>0. /\ Types /\ SignalWaits /\ PathIsSeen /\ ChatIsBare /\ EditorFits /\ SavesFit
      /\ TextsFit /\ EditsFit /\ CreationFits /\ ListsTogether /\ ListFits /\ PreviewFits
  BY DEF IInv
<1>1. /\ stored' = stored /\ path' = path /\ view' = view /\ editing' = editing
      /\ panel' = panel /\ editor' = editor /\ preview' = preview /\ attached' = attached
      /\ saves' = saves /\ archives' = archives /\ creating' = creating /\ typed' = typed
      /\ events' = events /\ faults' = faults /\ acked' = acked /\ blind' = blind
      /\ reopened' = reopened /\ unloaded' = unloaded /\ orphaned' = orphaned
  BY DEF GoToChatAnswered, beside, bounds, history
<1>2. editing = None /\ intent = None
  BY DEF GoToChatAnswered, Heeded
<1>3. going' = None /\ intent' \in Notes \cup {None} /\ push' \in Paths \cup {None}
  BY <1>0, <1>1, <1>2, AddressFacts DEF GoToChatAnswered, Types
<1>4. Types'  BY <1>0, <1>1, <1>2, <1>3 DEF Types
<1>5. SignalWaits'  BY <1>0, <1>1, <1>2, <1>3, SignalStays
<1>6. PathIsSeen'  BY <1>0, <1>1, <1>2, <1>3, PathStays
<1>7. ChatIsBare'  BY <1>0, <1>1, <1>2, <1>3, BareStays
<1>8. EditorFits' /\ SavesFit' /\ TextsFit' /\ EditsFit'  BY <1>0, <1>1, <1>2, <1>3, TextsStay
<1>9. CreationFits'  BY <1>0, <1>1, <1>2, <1>3, CreationStays
<1>10. ListsTogether' /\ ListFits'  BY <1>0, <1>1, <1>2, <1>3, ListStays
<1>11. PreviewFits'  BY <1>0, <1>1, <1>2, <1>3, PreviewStays
<1> QED
  BY <1>4, <1>5, <1>6, <1>7, <1>8, <1>9, <1>10, <1>11 DEF IInv

\* ArchiveChosen keeps the invariant.
LEMMA ArchiveChosenStep ==
  ASSUME IInv, ArchiveChosen
  PROVE  IInv'
<1>0. /\ Types /\ SignalWaits /\ PathIsSeen /\ ChatIsBare /\ EditorFits /\ SavesFit
      /\ TextsFit /\ EditsFit /\ CreationFits /\ ListsTogether /\ ListFits /\ PreviewFits
  BY DEF IInv
<1>1. /\ stored' = stored /\ path' = path /\ push' = push /\ view' = view /\ editing' = editing
      /\ intent' = intent /\ panel' = panel /\ editor' = editor /\ preview' = preview
      /\ attached' = attached /\ saves' = saves /\ creating' = creating /\ going' = going
      /\ typed' = typed /\ faults' = faults /\ acked' = acked /\ blind' = blind
      /\ reopened' = reopened /\ unloaded' = unloaded /\ orphaned' = orphaned
  BY DEF ArchiveChosen, address, signals, beside, history
<1>2. editing = None /\ intent = None
  BY DEF ArchiveChosen, Event, Settled
<1>3. /\ view = "notes" /\ \A a \in archives : a.by # "list"
      /\ archives' = archives \cup
           {[note |-> n, by |-> "list", panel |-> TRUE, editor |-> FALSE] : n \in panel.chosen}
  BY DEF ArchiveChosen, OnGrid
<1>4. archives' \subseteq ArchiveRecords
  <2>1. panel.chosen \subseteq Notes  BY <1>0, PanelTypes DEF Types
  <2>2. \A n \in Notes :
          [note |-> n, by |-> "list", panel |-> TRUE, editor |-> FALSE] \in ArchiveRecords
    BY DEF ArchiveRecords
  <2> QED  BY <1>0, <1>3, <2>1, <2>2 DEF Types
<1>5. Types'  BY <1>0, <1>1, <1>2, <1>3, <1>4 DEF Types
<1>6. SignalWaits'  BY <1>0, <1>1, <1>2, <1>3, <1>4, SignalStays
<1>7. PathIsSeen'  BY <1>0, <1>1, <1>2, <1>3, <1>4, PathStays
<1>8. ChatIsBare'  BY <1>0, <1>1, <1>2, <1>3, <1>4, BareStays
<1>9. EditorFits' /\ SavesFit' /\ TextsFit' /\ EditsFit'
  BY <1>0, <1>1, <1>2, <1>3, <1>4, TextsStay
<1>10. CreationFits'  BY <1>0, <1>1, <1>2, <1>3, <1>4, CreationStays
<1>11. ListsTogether' /\ ListFits'
  <2>1. \A a \in archives' : a.by = "list" => a.panel = TRUE  BY <1>3
  <2>2. ListsTogether'  BY <2>1 DEF ListsTogether
  <2>3. ListFits'  BY <1>0, <1>1, <1>3 DEF ListFits, ListWaits
  <2> QED  BY <2>2, <2>3
<1>12. PreviewFits'  BY <1>0, <1>1, <1>2, <1>3, <1>4, PreviewStays
<1> QED
  BY <1>5, <1>6, <1>7, <1>8, <1>9, <1>10, <1>11, <1>12 DEF IInv

\* Delete keeps the invariant.
LEMMA DeleteStep ==
  ASSUME IInv, Delete
  PROVE  IInv'
<1>0. /\ Types /\ SignalWaits /\ PathIsSeen /\ ChatIsBare /\ EditorFits /\ SavesFit
      /\ TextsFit /\ EditsFit /\ CreationFits /\ ListsTogether /\ ListFits /\ PreviewFits
  BY DEF IInv
<1>1. /\ stored' = stored /\ path' = path /\ push' = push /\ view' = view /\ editing' = editing
      /\ intent' = intent /\ panel' = panel /\ preview' = preview /\ attached' = attached
      /\ saves' = saves /\ creating' = creating /\ going' = going /\ typed' = typed
      /\ faults' = faults /\ acked' = acked /\ blind' = blind /\ reopened' = reopened
      /\ unloaded' = unloaded /\ orphaned' = orphaned
  BY DEF Delete, address, signals, beside, history
<1>2. editing = None /\ intent = None
  BY DEF Delete, Event, Settled
<1>3. /\ view = "notes" /\ panel.selected # None /\ editor' = [editor EXCEPT !.deleting = TRUE]
      /\ archives' = archives \cup {[note |-> panel.selected, by |-> "editor", panel |-> TRUE,
                                     editor |-> TRUE]}
  BY DEF Delete, Ready, Editing
<1>4. archives' \subseteq ArchiveRecords
  <2>1. panel.selected \in Notes  BY <1>0, <1>3, PanelTypes DEF Types
  <2>2. [note |-> panel.selected, by |-> "editor", panel |-> TRUE, editor |-> TRUE]
          \in ArchiveRecords
    BY <2>1 DEF ArchiveRecords
  <2> QED  BY <1>0, <1>3, <2>2 DEF Types
<1>5. /\ editor' \in EditorRecords /\ editor'.text = editor.text /\ editor'.got = editor.got
      /\ editor'.req = editor.req /\ editor'.failed = editor.failed
      /\ editor'.saving = editor.saving
  <2>1. editor \in EditorRecords  BY <1>0 DEF Types
  <2> QED  BY <1>3, <2>1 DEF EditorRecords
<1>6. Types'  BY <1>0, <1>1, <1>2, <1>3, <1>4, <1>5 DEF Types
<1>7. SignalWaits'  BY <1>0, <1>1, <1>2, <1>3, <1>4, <1>5, SignalStays
<1>8. PathIsSeen'  BY <1>0, <1>1, <1>2, <1>3, <1>4, <1>5, PathStays
<1>9. ChatIsBare'  BY <1>0, <1>1, <1>2, <1>3, <1>4, <1>5, BareStays
<1>10. EditorFits' /\ SavesFit' /\ TextsFit' /\ EditsFit'
  BY <1>0, <1>1, <1>2, <1>3, <1>4, <1>5, TextsStay
<1>11. CreationFits'  BY <1>0, <1>1, <1>2, <1>3, <1>4, <1>5, CreationStays
<1>12. ListsTogether' /\ ListFits'
  <2>1. ListsTogether'  BY <1>0, <1>3 DEF ListsTogether
  <2>2. ListFits'  BY <1>0, <1>1, <1>3 DEF ListFits, ListWaits
  <2> QED  BY <2>1, <2>2
<1>13. PreviewFits'  BY <1>0, <1>1, <1>2, <1>3, <1>4, <1>5, PreviewStays
<1> QED
  BY <1>6, <1>7, <1>8, <1>9, <1>10, <1>11, <1>12, <1>13 DEF IInv

\* Pick keeps the invariant.
LEMMA PickStep ==
  ASSUME IInv, Pick
  PROVE  IInv'
<1>0. /\ Types /\ SignalWaits /\ PathIsSeen /\ ChatIsBare /\ EditorFits /\ SavesFit
      /\ TextsFit /\ EditsFit /\ CreationFits /\ ListsTogether /\ ListFits /\ PreviewFits
  BY DEF IInv
<1>1. /\ stored' = stored /\ path' = path /\ push' = push /\ view' = view /\ editing' = editing
      /\ intent' = intent /\ panel' = panel /\ editor' = editor /\ saves' = saves
      /\ archives' = archives /\ creating' = creating /\ going' = going /\ typed' = typed
      /\ faults' = faults /\ acked' = acked /\ blind' = blind /\ reopened' = reopened
      /\ unloaded' = unloaded /\ orphaned' = orphaned
  BY DEF Pick, address, signals, waiting, history
<1>2. editing = None /\ intent = None
  BY DEF Pick, Event, Settled
<1>3. PICK n \in Notes : attached' = Attach(n) /\ preview' = PreviewOf(preview, n)
  BY DEF Pick, Live
<1>4. /\ preview' \in PreviewRecords
      /\ \/ preview' = preview \/ preview'.req = "sent" \/ preview' = NoPreview
  BY <1>0, <1>3, PreviewOfFacts DEF Types
<1>5. attached' \in Seq(Notes)  BY <1>0, <1>3, AttachFacts DEF Types
<1>6. Types'  BY <1>0, <1>1, <1>2, <1>3, <1>4, <1>5 DEF Types
<1>7. SignalWaits'  BY <1>0, <1>1, <1>2, <1>3, <1>4, <1>5, SignalStays
<1>8. PathIsSeen'  BY <1>0, <1>1, <1>2, <1>3, <1>4, <1>5, PathStays
<1>9. ChatIsBare'  BY <1>0, <1>1, <1>2, <1>3, <1>4, <1>5, BareStays
<1>10. EditorFits' /\ SavesFit' /\ TextsFit' /\ EditsFit'
  BY <1>0, <1>1, <1>2, <1>3, <1>4, <1>5, TextsStay
<1>11. CreationFits'  BY <1>0, <1>1, <1>2, <1>3, <1>4, <1>5, CreationStays
<1>12. ListsTogether' /\ ListFits'  BY <1>0, <1>1, <1>2, <1>3, <1>4, <1>5, ListStays
<1>13. PreviewFits'  BY <1>0, <1>1, <1>4, EmptyRecords DEF PreviewFits
<1> QED
  BY <1>6, <1>7, <1>8, <1>9, <1>10, <1>11, <1>12, <1>13 DEF IInv

\* Without leaves documents.
LEMMA WithoutFacts ==
  ASSUME attached \in Seq(Notes), NEW i \in DOMAIN attached
  PROVE  /\ Without(i) \in Seq(Notes)
         /\ Without(i) # <<>> => Without(i)[1] \in Notes
<1>1. Len(attached) \in Nat /\ i \in 1 .. Len(attached)  OBVIOUS
<1>2. \A k \in 1 .. Len(attached) - 1 : attached[IF k < i THEN k ELSE k + 1] \in Notes
  <2> TAKE k \in 1 .. Len(attached) - 1
  <2>1. (IF k < i THEN k ELSE k + 1) \in 1 .. Len(attached)  BY <1>1
  <2> QED  BY <2>1
<1>3. Len(attached) - 1 \in Nat  BY <1>1
<1>4. Without(i) \in Seq(Notes)  BY <1>2, <1>3 DEF Without
<1> QED  BY <1>4

\* RemoveAttachedDoc keeps the invariant.
LEMMA RemoveStep ==
  ASSUME IInv, RemoveAttachedDoc
  PROVE  IInv'
<1>0. /\ Types /\ SignalWaits /\ PathIsSeen /\ ChatIsBare /\ EditorFits /\ SavesFit
      /\ TextsFit /\ EditsFit /\ CreationFits /\ ListsTogether /\ ListFits /\ PreviewFits
  BY DEF IInv
<1>1. /\ stored' = stored /\ path' = path /\ push' = push /\ view' = view /\ editing' = editing
      /\ intent' = intent /\ panel' = panel /\ editor' = editor /\ saves' = saves
      /\ archives' = archives /\ creating' = creating /\ going' = going /\ typed' = typed
      /\ faults' = faults /\ acked' = acked /\ blind' = blind /\ reopened' = reopened
      /\ unloaded' = unloaded /\ orphaned' = orphaned
  BY DEF RemoveAttachedDoc, address, signals, waiting, history
<1>2. editing = None /\ intent = None
  BY DEF RemoveAttachedDoc, Event, Settled
<1>3. PICK i \in DOMAIN attached :
       /\ attached' = Without(i)
       /\ preview' = IF preview.id # attached[i] THEN preview
                     ELSE PreviewOf(preview, IF attached' = <<>> THEN None ELSE attached'[1])
  BY DEF RemoveAttachedDoc
<1>4. /\ preview' \in PreviewRecords
      /\ \/ preview' = preview \/ preview'.req = "sent" \/ preview' = NoPreview
  <2>1. (IF attached' = <<>> THEN None ELSE attached'[1]) \in Notes \cup {None}
    BY <1>0, <1>3, WithoutFacts DEF Types
  <2> QED  BY <1>0, <1>3, <2>1, PreviewOfFacts DEF Types
<1>5. attached' \in Seq(Notes)  BY <1>0, <1>3, WithoutFacts DEF Types
<1>6. Types'  BY <1>0, <1>1, <1>2, <1>3, <1>4, <1>5 DEF Types
<1>7. SignalWaits'  BY <1>0, <1>1, <1>2, <1>3, <1>4, <1>5, SignalStays
<1>8. PathIsSeen'  BY <1>0, <1>1, <1>2, <1>3, <1>4, <1>5, PathStays
<1>9. ChatIsBare'  BY <1>0, <1>1, <1>2, <1>3, <1>4, <1>5, BareStays
<1>10. EditorFits' /\ SavesFit' /\ TextsFit' /\ EditsFit'
  BY <1>0, <1>1, <1>2, <1>3, <1>4, <1>5, TextsStay
<1>11. CreationFits'  BY <1>0, <1>1, <1>2, <1>3, <1>4, <1>5, CreationStays
<1>12. ListsTogether' /\ ListFits'  BY <1>0, <1>1, <1>2, <1>3, <1>4, <1>5, ListStays
<1>13. PreviewFits'  BY <1>0, <1>1, <1>4, EmptyRecords DEF PreviewFits
<1> QED
  BY <1>6, <1>7, <1>8, <1>9, <1>10, <1>11, <1>12, <1>13 DEF IInv

\* Navigate keeps the invariant.
LEMMA NavigateStep ==
  ASSUME IInv, Navigate
  PROVE  IInv'
<1>0. /\ Types /\ SignalWaits /\ PathIsSeen /\ ChatIsBare /\ EditorFits /\ SavesFit
      /\ TextsFit /\ EditsFit /\ CreationFits /\ ListsTogether /\ ListFits /\ PreviewFits
  BY DEF IInv
<1>1. /\ stored' = stored /\ path' = path /\ push' = push /\ view' = view /\ editing' = editing
      /\ intent' = intent /\ panel' = panel /\ editor' = editor /\ attached' = attached
      /\ saves' = saves /\ archives' = archives /\ creating' = creating /\ going' = going
      /\ typed' = typed /\ faults' = faults /\ acked' = acked /\ blind' = blind
      /\ reopened' = reopened /\ unloaded' = unloaded /\ orphaned' = orphaned
  BY DEF Navigate, address, signals, waiting, history
<1>2. editing = None /\ intent = None
  BY DEF Navigate, Event, Settled
<1>3. PICK i \in DOMAIN attached : preview' = PreviewOf(preview, attached[(i % Len(attached)) + 1])
  BY DEF Navigate
<1>4. /\ preview' \in PreviewRecords
      /\ \/ preview' = preview \/ preview'.req = "sent" \/ preview' = NoPreview
  <2>1. attached \in Seq(Notes) /\ Len(attached) \in Nat /\ Len(attached) > 1
        /\ i \in 1 .. Len(attached)
    BY <1>0 DEF Types, Navigate
  <2>2. (i % Len(attached)) + 1 \in 1 .. Len(attached)  BY <2>1
  <2>3. attached[(i % Len(attached)) + 1] \in Notes  BY <2>1, <2>2
  <2> QED  BY <1>0, <1>3, <2>3, PreviewOfFacts DEF Types
<1>5. Types'  BY <1>0, <1>1, <1>2, <1>3, <1>4 DEF Types
<1>6. SignalWaits'  BY <1>0, <1>1, <1>2, <1>3, <1>4, SignalStays
<1>7. PathIsSeen'  BY <1>0, <1>1, <1>2, <1>3, <1>4, PathStays
<1>8. ChatIsBare'  BY <1>0, <1>1, <1>2, <1>3, <1>4, BareStays
<1>9. EditorFits' /\ SavesFit' /\ TextsFit' /\ EditsFit'
  BY <1>0, <1>1, <1>2, <1>3, <1>4, TextsStay
<1>10. CreationFits'  BY <1>0, <1>1, <1>2, <1>3, <1>4, CreationStays
<1>11. ListsTogether' /\ ListFits'  BY <1>0, <1>1, <1>2, <1>3, <1>4, ListStays
<1>12. PreviewFits'  BY <1>0, <1>1, <1>4, EmptyRecords DEF PreviewFits
<1> QED
  BY <1>5, <1>6, <1>7, <1>8, <1>9, <1>10, <1>11, <1>12 DEF IInv

\* ClearPreview keeps the invariant.
LEMMA ClearPreviewStep ==
  ASSUME IInv, ClearPreview
  PROVE  IInv'
<1>0. /\ Types /\ SignalWaits /\ PathIsSeen /\ ChatIsBare /\ EditorFits /\ SavesFit
      /\ TextsFit /\ EditsFit /\ CreationFits /\ ListsTogether /\ ListFits /\ PreviewFits
  BY DEF IInv
<1>1. /\ stored' = stored /\ path' = path /\ push' = push /\ view' = view /\ editing' = editing
      /\ intent' = intent /\ panel' = panel /\ editor' = editor /\ saves' = saves
      /\ archives' = archives /\ creating' = creating /\ going' = going /\ typed' = typed
      /\ faults' = faults /\ acked' = acked /\ blind' = blind /\ reopened' = reopened
      /\ unloaded' = unloaded /\ orphaned' = orphaned
  BY DEF ClearPreview, address, signals, waiting, history
<1>2. editing = None /\ intent = None
  BY DEF ClearPreview, Event, Settled
<1>3. preview' = NoPreview /\ attached' \in {attached, <<>>}  BY DEF ClearPreview
<1>4. /\ preview' \in PreviewRecords
      /\ \/ preview' = preview \/ preview'.req = "sent" \/ preview' = NoPreview
  BY <1>3, EmptyRecords
<1>5. attached' \in Seq(Notes)
  <2>1. <<>> \in Seq(Notes)  OBVIOUS
  <2> QED  BY <1>0, <1>3, <2>1 DEF Types
<1>6. Types'  BY <1>0, <1>1, <1>2, <1>3, <1>4, <1>5 DEF Types
<1>7. SignalWaits'  BY <1>0, <1>1, <1>2, <1>3, <1>4, <1>5, SignalStays
<1>8. PathIsSeen'  BY <1>0, <1>1, <1>2, <1>3, <1>4, <1>5, PathStays
<1>9. ChatIsBare'  BY <1>0, <1>1, <1>2, <1>3, <1>4, <1>5, BareStays
<1>10. EditorFits' /\ SavesFit' /\ TextsFit' /\ EditsFit'
  BY <1>0, <1>1, <1>2, <1>3, <1>4, <1>5, TextsStay
<1>11. CreationFits'  BY <1>0, <1>1, <1>2, <1>3, <1>4, <1>5, CreationStays
<1>12. ListsTogether' /\ ListFits'  BY <1>0, <1>1, <1>2, <1>3, <1>4, <1>5, ListStays
<1>13. PreviewFits'  BY <1>0, <1>1, <1>4, EmptyRecords DEF PreviewFits
<1> QED
  BY <1>6, <1>7, <1>8, <1>9, <1>10, <1>11, <1>12, <1>13 DEF IInv

\* The answer to a preview's request keeps the invariant.
LEMMA PreviewReadStep ==
  ASSUME IInv, PreviewRead
  PROVE  IInv'
<1>0. /\ Types /\ SignalWaits /\ PathIsSeen /\ ChatIsBare /\ EditorFits /\ SavesFit
      /\ TextsFit /\ EditsFit /\ CreationFits /\ ListsTogether /\ ListFits /\ PreviewFits
  BY DEF IInv
<1>1. /\ stored' = stored /\ path' = path /\ push' = push /\ view' = view /\ editing' = editing
      /\ intent' = intent /\ panel' = panel /\ editor' = editor /\ attached' = attached
      /\ saves' = saves /\ archives' = archives /\ creating' = creating /\ going' = going
      /\ typed' = typed /\ events' = events /\ faults' = faults /\ acked' = acked
      /\ blind' = blind /\ reopened' = reopened /\ unloaded' = unloaded
      /\ orphaned' = orphaned
  BY DEF PreviewRead, address, signals, waiting, bounds, history
<1>2. editing = None /\ intent = None
  BY DEF PreviewRead, Heeded
<1>3. /\ preview.req = "sent"
      /\ preview' = IF stored[preview.id] # None
                    THEN [preview EXCEPT !.req = "read", !.got = preview.id]
                    ELSE [preview EXCEPT !.req = "none", !.failed = TRUE]
  BY DEF PreviewRead
<1>4. /\ preview' \in PreviewRecords
      /\ preview'.req = "read" => preview'.got = preview'.id
      /\ preview'.req = "none" => preview'.failed
  <2>1. preview \in PreviewRecords  BY <1>0 DEF Types
  <2> QED  BY <1>3, <2>1 DEF PreviewRecords, Asked
<1>5. Types'  BY <1>0, <1>1, <1>2, <1>3, <1>4 DEF Types
<1>6. SignalWaits'  BY <1>0, <1>1, <1>2, <1>3, <1>4, SignalStays
<1>7. PathIsSeen'  BY <1>0, <1>1, <1>2, <1>3, <1>4, PathStays
<1>8. ChatIsBare'  BY <1>0, <1>1, <1>2, <1>3, <1>4, BareStays
<1>9. EditorFits' /\ SavesFit' /\ TextsFit' /\ EditsFit'
  BY <1>0, <1>1, <1>2, <1>3, <1>4, TextsStay
<1>10. CreationFits'  BY <1>0, <1>1, <1>2, <1>3, <1>4, CreationStays
<1>11. ListsTogether' /\ ListFits'  BY <1>0, <1>1, <1>2, <1>3, <1>4, ListStays
<1>12. PreviewFits'  BY <1>4 DEF PreviewFits
<1> QED
  BY <1>5, <1>6, <1>7, <1>8, <1>9, <1>10, <1>11, <1>12 DEF IInv

\* Its arrival keeps the invariant.
LEMMA PreviewArrivesStep ==
  ASSUME IInv, PreviewArrives
  PROVE  IInv'
<1>0. /\ Types /\ SignalWaits /\ PathIsSeen /\ ChatIsBare /\ EditorFits /\ SavesFit
      /\ TextsFit /\ EditsFit /\ CreationFits /\ ListsTogether /\ ListFits /\ PreviewFits
  BY DEF IInv
<1>1. /\ stored' = stored /\ path' = path /\ push' = push /\ view' = view /\ editing' = editing
      /\ intent' = intent /\ panel' = panel /\ editor' = editor /\ attached' = attached
      /\ saves' = saves /\ archives' = archives /\ creating' = creating /\ going' = going
      /\ typed' = typed /\ events' = events /\ faults' = faults /\ acked' = acked
      /\ blind' = blind /\ reopened' = reopened /\ unloaded' = unloaded
      /\ orphaned' = orphaned
  BY DEF PreviewArrives, address, signals, waiting, bounds, history
<1>2. editing = None /\ intent = None
  BY DEF PreviewArrives, Heeded
<1>3. /\ preview.req = "read"
      /\ preview' = [preview EXCEPT !.req = "none", !.doc = preview.got, !.got = None]
  BY DEF PreviewArrives
<1>4. /\ preview' \in PreviewRecords /\ preview'.req = "none" /\ preview'.doc = preview.got
      /\ preview'.id = preview.id
  <2>1. preview \in PreviewRecords  BY <1>0 DEF Types
  <2> QED  BY <1>3, <2>1 DEF PreviewRecords, Asked
<1>5. Types'  BY <1>0, <1>1, <1>2, <1>3, <1>4 DEF Types
<1>6. SignalWaits'  BY <1>0, <1>1, <1>2, <1>3, <1>4, SignalStays
<1>7. PathIsSeen'  BY <1>0, <1>1, <1>2, <1>3, <1>4, PathStays
<1>8. ChatIsBare'  BY <1>0, <1>1, <1>2, <1>3, <1>4, BareStays
<1>9. EditorFits' /\ SavesFit' /\ TextsFit' /\ EditsFit'
  BY <1>0, <1>1, <1>2, <1>3, <1>4, TextsStay
<1>10. CreationFits'  BY <1>0, <1>1, <1>2, <1>3, <1>4, CreationStays
<1>11. ListsTogether' /\ ListFits'  BY <1>0, <1>1, <1>2, <1>3, <1>4, ListStays
<1>12. PreviewFits'  BY <1>0, <1>1, <1>3, <1>4 DEF PreviewFits
<1> QED
  BY <1>5, <1>6, <1>7, <1>8, <1>9, <1>10, <1>11, <1>12 DEF IInv

\* The server's reading for a list keeps the invariant.
LEMMA ListReadStep ==
  ASSUME IInv, ListRead
  PROVE  IInv'
<1>0. /\ Types /\ SignalWaits /\ PathIsSeen /\ ChatIsBare /\ EditorFits /\ SavesFit
      /\ TextsFit /\ EditsFit /\ CreationFits /\ ListsTogether /\ ListFits /\ PreviewFits
  BY DEF IInv
<1>1. /\ stored' = stored /\ path' = path /\ push' = push /\ view' = view /\ editing' = editing
      /\ intent' = intent /\ editor' = editor /\ preview' = preview /\ attached' = attached
      /\ saves' = saves /\ archives' = archives /\ creating' = creating /\ going' = going
      /\ typed' = typed /\ events' = events /\ faults' = faults /\ acked' = acked
      /\ blind' = blind /\ reopened' = reopened
  BY DEF ListRead, address, signals, beside, waiting, bounds
<1>2. editing = None /\ intent = None
  BY DEF ListRead, Heeded
<1>3. /\ panel.req = "sent" /\ panel' = [panel EXCEPT !.req = "read", !.got = Newest(stored)]
      /\ unloaded' = FALSE /\ orphaned' = FALSE
  BY DEF ListRead
<1>4. view = "notes"
  BY <1>0, <1>3, EmptyRecords DEF ChatIsBare, Types
<1>5. /\ panel' \in PanelRecords /\ panel'.seen = panel.seen /\ panel'.selected = panel.selected
      /\ panel'.req = "read" /\ panel'.got = Newest(stored)
  <2>1. panel \in PanelRecords /\ Newest(stored) \in Stored  BY <1>0, NewestFacts DEF Types
  <2> QED  BY <1>3, <2>1 DEF PanelRecords, Asked
<1>6. Types'  BY <1>0, <1>1, <1>2, <1>3, <1>4, <1>5 DEF Types
<1>7. SignalWaits'  BY <1>0, <1>1, <1>2, <1>3, <1>4, <1>5, SignalStays
<1>8. PathIsSeen'  BY <1>0, <1>1, <1>2, <1>3, <1>4, <1>5, PathStays
<1>9. ChatIsBare'  BY <1>0, <1>1, <1>2, <1>3, <1>4, <1>5, BareStays
<1>10. EditorFits' /\ SavesFit' /\ TextsFit' /\ EditsFit'
  BY <1>0, <1>1, <1>2, <1>3, <1>4, <1>5, TextsStay
<1>11. CreationFits'  BY <1>0, <1>1, <1>2, <1>3, <1>4, <1>5, CreationStays
<1>12. ListsTogether' /\ ListFits'  BY <1>0, <1>1, <1>5 DEF ListsTogether, ListFits
<1>13. PreviewFits'  BY <1>0, <1>1, <1>2, <1>3, <1>4, <1>5, PreviewStays
<1> QED
  BY <1>6, <1>7, <1>8, <1>9, <1>10, <1>11, <1>12, <1>13 DEF IInv

\* The arrival of a list keeps the invariant.
LEMMA ListArrivesStep ==
  ASSUME IInv, ListArrives
  PROVE  IInv'
<1>0. /\ Types /\ SignalWaits /\ PathIsSeen /\ ChatIsBare /\ EditorFits /\ SavesFit
      /\ TextsFit /\ EditsFit /\ CreationFits /\ ListsTogether /\ ListFits /\ PreviewFits
  BY DEF IInv
<1>1. /\ stored' = stored /\ path' = path /\ push' = push /\ view' = view /\ editing' = editing
      /\ intent' = intent /\ editor' = editor /\ preview' = preview /\ attached' = attached
      /\ saves' = saves /\ archives' = archives /\ creating' = creating /\ going' = going
      /\ typed' = typed /\ events' = events /\ faults' = faults /\ acked' = acked
      /\ blind' = blind /\ reopened' = reopened /\ unloaded' = unloaded
      /\ orphaned' = orphaned
  BY DEF ListArrives, address, signals, beside, waiting, bounds, history
<1>2. editing = None /\ intent = None
  BY DEF ListArrives, Heeded
<1>3. /\ panel.req = "read"
      /\ panel' = [panel EXCEPT !.req = "none", !.list = panel.got, !.got = None]
  BY DEF ListArrives
<1>4. view = "notes"
  BY <1>0, <1>3, EmptyRecords DEF ChatIsBare, Types
<1>5. /\ panel' \in PanelRecords /\ panel'.seen = panel.seen /\ panel'.selected = panel.selected
      /\ panel'.req = "none" /\ panel'.list = panel.got
  <2>1. panel \in PanelRecords  BY <1>0 DEF Types
  <2> QED  BY <1>3, <2>1 DEF PanelRecords, Asked
<1>6. Types'  BY <1>0, <1>1, <1>2, <1>3, <1>4, <1>5 DEF Types
<1>7. SignalWaits'  BY <1>0, <1>1, <1>2, <1>3, <1>4, <1>5, SignalStays
<1>8. PathIsSeen'  BY <1>0, <1>1, <1>2, <1>3, <1>4, <1>5, PathStays
<1>9. ChatIsBare'  BY <1>0, <1>1, <1>2, <1>3, <1>4, <1>5, BareStays
<1>10. EditorFits' /\ SavesFit' /\ TextsFit' /\ EditsFit'
  BY <1>0, <1>1, <1>2, <1>3, <1>4, <1>5, TextsStay
<1>11. CreationFits'  BY <1>0, <1>1, <1>2, <1>3, <1>4, <1>5, CreationStays
<1>12. ListsTogether' /\ ListFits'
  BY <1>0, <1>1, <1>3, <1>5 DEF ListsTogether, ListFits, ListWaits
<1>13. PreviewFits'  BY <1>0, <1>1, <1>2, <1>3, <1>4, <1>5, PreviewStays
<1> QED
  BY <1>6, <1>7, <1>8, <1>9, <1>10, <1>11, <1>12, <1>13 DEF IInv

\* The failure of a list's request keeps the invariant.
LEMMA ListFailsStep ==
  ASSUME IInv, ListFails
  PROVE  IInv'
<1>0. /\ Types /\ SignalWaits /\ PathIsSeen /\ ChatIsBare /\ EditorFits /\ SavesFit
      /\ TextsFit /\ EditsFit /\ CreationFits /\ ListsTogether /\ ListFits /\ PreviewFits
  BY DEF IInv
<1>1. /\ stored' = stored /\ path' = path /\ push' = push /\ view' = view /\ editing' = editing
      /\ intent' = intent /\ editor' = editor /\ preview' = preview /\ attached' = attached
      /\ saves' = saves /\ archives' = archives /\ creating' = creating /\ going' = going
      /\ typed' = typed /\ events' = events /\ acked' = acked /\ blind' = blind
      /\ reopened' = reopened /\ orphaned' = orphaned
  BY DEF ListFails, address, signals, beside, waiting
<1>2. editing = None /\ intent = None
  BY DEF ListFails, Heeded
<1>3. panel.req = "sent" /\ panel' = [panel EXCEPT !.req = "none"] /\ unloaded' = TRUE
  BY DEF ListFails
<1>4. view = "notes"
  BY <1>0, <1>3, EmptyRecords DEF ChatIsBare, Types
<1>5. /\ panel' \in PanelRecords /\ panel'.seen = panel.seen /\ panel'.selected = panel.selected
  <2>1. panel \in PanelRecords  BY <1>0 DEF Types
  <2> QED  BY <1>3, <2>1 DEF PanelRecords, Asked
<1>6. Types'  BY <1>0, <1>1, <1>2, <1>3, <1>4, <1>5 DEF Types
<1>7. SignalWaits'  BY <1>0, <1>1, <1>2, <1>3, <1>4, <1>5, SignalStays
<1>8. PathIsSeen'  BY <1>0, <1>1, <1>2, <1>3, <1>4, <1>5, PathStays
<1>9. ChatIsBare'  BY <1>0, <1>1, <1>2, <1>3, <1>4, <1>5, BareStays
<1>10. EditorFits' /\ SavesFit' /\ TextsFit' /\ EditsFit'
  BY <1>0, <1>1, <1>2, <1>3, <1>4, <1>5, TextsStay
<1>11. CreationFits'  BY <1>0, <1>1, <1>2, <1>3, <1>4, <1>5, CreationStays
<1>12. ListsTogether' /\ ListFits'  BY <1>0, <1>1, <1>3 DEF ListsTogether, ListFits
<1>13. PreviewFits'  BY <1>0, <1>1, <1>2, <1>3, <1>4, <1>5, PreviewStays
<1> QED
  BY <1>6, <1>7, <1>8, <1>9, <1>10, <1>11, <1>12, <1>13 DEF IInv
-----------------------------------------------------------------------------
(* The steps of the editor and of its saves. *)

\* The parts of a text.
LEMMA TextsAreTexts ==
  \A t \in Texts : t # None /\ t.of \in Notes /\ t.edits \subseteq Edits
<1>1. \A t \in Texts : t # None  BY DeskAssumption
<1>2. \A t \in Texts : t.of \in Notes /\ t.edits \subseteq Edits  BY DEF Texts
<1> QED  BY <1>1, <1>2

\* The server's reading of a note keeps the invariant.
LEMMA NoteReadStep ==
  ASSUME IInv, NoteRead
  PROVE  IInv'
<1>0. /\ Types /\ SignalWaits /\ PathIsSeen /\ ChatIsBare /\ EditorFits /\ SavesFit
      /\ TextsFit /\ EditsFit /\ CreationFits /\ ListsTogether /\ ListFits /\ PreviewFits
  BY DEF IInv
<1>1. /\ stored' = stored /\ path' = path /\ push' = push /\ view' = view /\ editing' = editing
      /\ intent' = intent /\ panel' = panel /\ preview' = preview /\ attached' = attached
      /\ saves' = saves /\ archives' = archives /\ creating' = creating /\ going' = going
      /\ typed' = typed /\ events' = events /\ faults' = faults /\ acked' = acked
      /\ blind' = blind /\ unloaded' = unloaded /\ orphaned' = orphaned
  BY DEF NoteRead, address, signals, beside, waiting, bounds
<1>2. editing = None /\ intent = None
  BY DEF NoteRead, Heeded
<1>3. /\ editor.req = "sent" /\ stored[panel.selected] # None
      /\ editor' = [editor EXCEPT !.req = "read", !.got = stored[panel.selected]]
      /\ reopened' = (reopened \/ \E s \in saves : s.note = panel.selected)
  BY DEF NoteRead
<1>4. panel.selected \in Notes /\ panel.selected # None
  <2>1. panel \in PanelRecords  BY <1>0 DEF Types
  <2>2. panel.selected # None  BY <1>0, <1>3, EmptyRecords DEF EditorFits
  <2> QED  BY <2>1, <2>2, PanelTypes
<1>5. /\ editor' \in EditorRecords /\ editor'.req = "read" /\ editor'.got = stored[panel.selected]
      /\ editor'.saving = editor.saving
  <2>1. editor \in EditorRecords /\ stored[panel.selected] \in Texts \cup {None}
    BY <1>0, <1>4 DEF Types, Stored
  <2> QED  BY <1>3, <2>1 DEF EditorRecords, Asked
<1>6. Types'  BY <1>0, <1>1, <1>2, <1>3, <1>4, <1>5 DEF Types
<1>7. SignalWaits'  BY <1>0, <1>1, <1>2, <1>3, <1>4, <1>5, SignalStays
<1>8. PathIsSeen'  BY <1>0, <1>1, <1>2, <1>3, <1>4, <1>5, PathStays
<1>9. ChatIsBare'  BY <1>0, <1>1, <1>2, <1>3, <1>4, <1>5, BareStays
<1>10. EditorFits' /\ SavesFit' /\ TextsFit' /\ EditsFit'
  <2>1. EditorFits'  BY <1>0, <1>1, <1>3, <1>4, <1>5 DEF EditorFits
  <2>2. SavesFit'  BY <1>0, <1>1, <1>3, <1>4, <1>5 DEF SavesFit
  <2>3. TextsFit'  BY <1>0, <1>1, <1>3, <1>4, <1>5 DEF TextsFit, Reads, Loaded
  <2>4. EditsFit'  BY <1>0, <1>1, <1>3, <1>4, <1>5 DEF EditsFit, Reads, Loaded
  <2> QED  BY <2>1, <2>2, <2>3, <2>4
<1>11. CreationFits'  BY <1>0, <1>1, <1>2, <1>3, <1>4, <1>5, CreationStays
<1>12. ListsTogether' /\ ListFits'  BY <1>0, <1>1, <1>2, <1>3, <1>4, <1>5, ListStays
<1>13. PreviewFits'  BY <1>0, <1>1, <1>2, <1>3, <1>4, <1>5, PreviewStays
<1> QED
  BY <1>6, <1>7, <1>8, <1>9, <1>10, <1>11, <1>12, <1>13 DEF IInv

\* The arrival of a note keeps the invariant.
LEMMA NoteArrivesStep ==
  ASSUME IInv, NoteArrives
  PROVE  IInv'
<1>0. /\ Types /\ SignalWaits /\ PathIsSeen /\ ChatIsBare /\ EditorFits /\ SavesFit
      /\ TextsFit /\ EditsFit /\ CreationFits /\ ListsTogether /\ ListFits /\ PreviewFits
  BY DEF IInv
<1>1. /\ stored' = stored /\ path' = path /\ push' = push /\ view' = view /\ editing' = editing
      /\ intent' = intent /\ panel' = panel /\ preview' = preview /\ attached' = attached
      /\ saves' = saves /\ archives' = archives /\ creating' = creating /\ going' = going
      /\ typed' = typed /\ events' = events /\ faults' = faults /\ acked' = acked
      /\ blind' = blind /\ reopened' = reopened /\ unloaded' = unloaded
      /\ orphaned' = orphaned
  BY DEF NoteArrives, address, signals, beside, waiting, bounds, history
<1>2. editing = None /\ intent = None
  BY DEF NoteArrives, Heeded
<1>3. /\ editor.req = "read"
      /\ editor' = [editor EXCEPT !.req = "none", !.text = editor.got, !.got = None]
  BY DEF NoteArrives
<1>4. panel.selected \in Notes /\ panel.selected # None
  <2>1. panel \in PanelRecords  BY <1>0 DEF Types
  <2>2. panel.selected # None  BY <1>0, <1>3, EmptyRecords DEF EditorFits
  <2> QED  BY <2>1, <2>2, PanelTypes
<1>5. /\ editor' \in EditorRecords /\ editor'.req = "none" /\ editor'.text = editor.got
      /\ editor'.saving = editor.saving
  <2>1. editor \in EditorRecords  BY <1>0 DEF Types
  <2> QED  BY <1>3, <2>1 DEF EditorRecords, Asked
<1>6. Types'  BY <1>0, <1>1, <1>2, <1>3, <1>4, <1>5 DEF Types
<1>7. SignalWaits'  BY <1>0, <1>1, <1>2, <1>3, <1>4, <1>5, SignalStays
<1>8. PathIsSeen'  BY <1>0, <1>1, <1>2, <1>3, <1>4, <1>5, PathStays
<1>9. ChatIsBare'  BY <1>0, <1>1, <1>2, <1>3, <1>4, <1>5, BareStays
<1>10. EditorFits' /\ SavesFit' /\ TextsFit' /\ EditsFit'
  <2>1. EditorFits'  BY <1>0, <1>1, <1>3, <1>4, <1>5 DEF EditorFits
  <2>2. SavesFit'  BY <1>0, <1>1, <1>3, <1>4, <1>5 DEF SavesFit
  <2>3. TextsFit'  BY <1>0, <1>1, <1>3, <1>4, <1>5 DEF TextsFit, Reads, Loaded
  <2>4. EditsFit'  BY <1>0, <1>1, <1>3, <1>4, <1>5 DEF EditsFit, Reads, Loaded
  <2> QED  BY <2>1, <2>2, <2>3, <2>4
<1>11. CreationFits'  BY <1>0, <1>1, <1>2, <1>3, <1>4, <1>5, CreationStays
<1>12. ListsTogether' /\ ListFits'  BY <1>0, <1>1, <1>2, <1>3, <1>4, <1>5, ListStays
<1>13. PreviewFits'  BY <1>0, <1>1, <1>2, <1>3, <1>4, <1>5, PreviewStays
<1> QED
  BY <1>6, <1>7, <1>8, <1>9, <1>10, <1>11, <1>12, <1>13 DEF IInv

\* The failure of a note's request keeps the invariant.
LEMMA NoteFailsStep ==
  ASSUME IInv, NoteFails
  PROVE  IInv'
<1>0. /\ Types /\ SignalWaits /\ PathIsSeen /\ ChatIsBare /\ EditorFits /\ SavesFit
      /\ TextsFit /\ EditsFit /\ CreationFits /\ ListsTogether /\ ListFits /\ PreviewFits
  BY DEF IInv
<1>1. /\ stored' = stored /\ path' = path /\ push' = push /\ view' = view /\ editing' = editing
      /\ intent' = intent /\ panel' = panel /\ preview' = preview /\ attached' = attached
      /\ saves' = saves /\ archives' = archives /\ creating' = creating /\ going' = going
      /\ typed' = typed /\ events' = events /\ acked' = acked /\ blind' = blind
      /\ reopened' = reopened /\ unloaded' = unloaded /\ orphaned' = orphaned
  BY DEF NoteFails, address, signals, beside, waiting, history
<1>2. editing = None /\ intent = None
  BY DEF NoteFails, Heeded
<1>3. editor.req = "sent" /\ editor' = [editor EXCEPT !.req = "none", !.failed = TRUE]
  BY DEF NoteFails
<1>4. panel.selected \in Notes /\ panel.selected # None
  <2>1. panel \in PanelRecords  BY <1>0 DEF Types
  <2>2. panel.selected # None  BY <1>0, <1>3, EmptyRecords DEF EditorFits
  <2> QED  BY <2>1, <2>2, PanelTypes
<1>5. /\ editor' \in EditorRecords /\ editor'.req = "none" /\ editor'.failed
      /\ editor'.saving = editor.saving
  <2>1. editor \in EditorRecords  BY <1>0 DEF Types
  <2> QED  BY <1>3, <2>1 DEF EditorRecords, Asked
<1>6. Types'  BY <1>0, <1>1, <1>2, <1>3, <1>4, <1>5 DEF Types
<1>7. SignalWaits'  BY <1>0, <1>1, <1>2, <1>3, <1>4, <1>5, SignalStays
<1>8. PathIsSeen'  BY <1>0, <1>1, <1>2, <1>3, <1>4, <1>5, PathStays
<1>9. ChatIsBare'  BY <1>0, <1>1, <1>2, <1>3, <1>4, <1>5, BareStays
<1>10. EditorFits' /\ SavesFit' /\ TextsFit' /\ EditsFit'
  <2>1. EditorFits'  BY <1>0, <1>1, <1>3, <1>4, <1>5 DEF EditorFits
  <2>2. SavesFit'  BY <1>0, <1>1, <1>3, <1>4, <1>5 DEF SavesFit
  <2>3. TextsFit'  BY <1>0, <1>1, <1>3, <1>4, <1>5 DEF TextsFit, Reads, Loaded
  <2>4. EditsFit'  BY <1>0, <1>1, <1>3, <1>4, <1>5 DEF EditsFit, Reads, Loaded
  <2> QED  BY <2>1, <2>2, <2>3, <2>4
<1>11. CreationFits'  BY <1>0, <1>1, <1>2, <1>3, <1>4, <1>5, CreationStays
<1>12. ListsTogether' /\ ListFits'  BY <1>0, <1>1, <1>2, <1>3, <1>4, <1>5, ListStays
<1>13. PreviewFits'  BY <1>0, <1>1, <1>2, <1>3, <1>4, <1>5, PreviewStays
<1> QED
  BY <1>6, <1>7, <1>8, <1>9, <1>10, <1>11, <1>12, <1>13 DEF IInv

\* Typing keeps the invariant.
LEMMA TypeStep ==
  ASSUME IInv, Type
  PROVE  IInv'
<1>0. /\ Types /\ SignalWaits /\ PathIsSeen /\ ChatIsBare /\ EditorFits /\ SavesFit
      /\ TextsFit /\ EditsFit /\ CreationFits /\ ListsTogether /\ ListFits /\ PreviewFits
  BY DEF IInv
<1>1. /\ stored' = stored /\ path' = path /\ push' = push /\ view' = view /\ editing' = editing
      /\ intent' = intent /\ panel' = panel /\ preview' = preview /\ attached' = attached
      /\ saves' = saves /\ archives' = archives /\ creating' = creating /\ going' = going
      /\ faults' = faults /\ acked' = acked /\ blind' = blind /\ reopened' = reopened
      /\ unloaded' = unloaded /\ orphaned' = orphaned
  BY DEF Type, address, signals, beside, waiting, history
<1>2. editing = None /\ intent = None
  BY DEF Type, Event, Settled
<1>3. /\ panel.selected # None /\ editor.req = "none" /\ typed < MaxEdits /\ typed' = typed + 1
      /\ editor' = [editor EXCEPT !.text = IF editor.text = None
                       THEN [of |-> panel.selected, edits |-> {typed'}]
                       ELSE [editor.text EXCEPT !.edits = editor.text.edits \cup {typed'}]]
  <2>1. /\ panel.selected # None /\ editor.req = "none" /\ typed < MaxEdits
        /\ typed' = typed + 1
    BY DEF Type, Ready, Editing
  <2>2. editor' = [editor EXCEPT !.text = IF editor.text = None
                     THEN [of |-> panel.selected, edits |-> {typed'}]
                     ELSE [editor.text EXCEPT !.edits = editor.text.edits \cup {typed'}]]
    BY DEF Type
  <2> QED  BY <2>1, <2>2
<1>4. panel.selected \in Notes /\ typed \in Nat /\ typed' \in Edits /\ editor \in EditorRecords
  <2>1. panel \in PanelRecords /\ typed \in Nat /\ editor \in EditorRecords  BY <1>0 DEF Types
  <2> QED  BY <1>3, <2>1, PanelTypes, DeskAssumption DEF Edits
<1>5. /\ editor' \in EditorRecords /\ editor'.req = "none" /\ editor'.failed = editor.failed
      /\ editor'.saving = editor.saving /\ editor'.text # None
      /\ editor.text # None => /\ editor'.text.of = editor.text.of
                               /\ editor.text.edits \subseteq editor'.text.edits
  <2> DEFINE t == IF editor.text = None THEN [of |-> panel.selected, edits |-> {typed'}]
                  ELSE [editor.text EXCEPT !.edits = editor.text.edits \cup {typed'}]
  <2>1. editor.text \in Texts \cup {None}  BY <1>4, EditorTypes
  <2>2. t \in Texts  BY <1>4, <2>1 DEF Texts
  <2>3. editor.text # None => t.of = editor.text.of /\ editor.text.edits \subseteq t.edits
    BY <2>1 DEF Texts
  <2>4. editor' = [editor EXCEPT !.text = t]  BY <1>3
  <2> HIDE DEF t
  <2>5. /\ editor' \in EditorRecords /\ editor'.req = editor.req /\ editor'.failed = editor.failed
        /\ editor'.saving = editor.saving /\ editor'.text = t
    BY <1>4, <2>2, <2>4 DEF EditorRecords
  <2>6. t # None  BY <2>2, TextsAreTexts
  <2> QED  BY <1>3, <2>3, <2>5, <2>6
<1>6. Types'  BY <1>0, <1>1, <1>2, <1>3, <1>4, <1>5 DEF Types
<1>7. SignalWaits'  BY <1>0, <1>1, <1>2, <1>3, <1>4, <1>5, SignalStays
<1>8. PathIsSeen'  BY <1>0, <1>1, <1>2, <1>3, <1>4, <1>5, PathStays
<1>9. ChatIsBare'  BY <1>0, <1>1, <1>2, <1>3, <1>4, <1>5, BareStays
<1>10. EditorFits' /\ SavesFit' /\ TextsFit' /\ EditsFit'
  <2>1. EditorFits'  BY <1>0, <1>1, <1>3 DEF EditorFits
  <2>2. SavesFit'  BY <1>0, <1>1, <1>5 DEF SavesFit
  <2>3. Loaded' /\ ~ blind => Loaded /\ editor.text # None
    BY <1>0, <1>1, <1>3, <1>5 DEF TextsFit, Loaded
  <2>4. TextsFit'  BY <1>0, <1>1, <1>5, <2>3 DEF TextsFit, Reads
  <2>5. EditsFit'  BY <1>0, <1>1, <1>5, <2>3 DEF EditsFit, Reads
  <2> QED  BY <2>1, <2>2, <2>4, <2>5
<1>11. CreationFits'  BY <1>0, <1>1, <1>2, <1>3, <1>4, <1>5, CreationStays
<1>12. ListsTogether' /\ ListFits'  BY <1>0, <1>1, <1>2, <1>3, <1>4, <1>5, ListStays
<1>13. PreviewFits'  BY <1>0, <1>1, <1>2, <1>3, <1>4, <1>5, PreviewStays
<1> QED
  BY <1>6, <1>7, <1>8, <1>9, <1>10, <1>11, <1>12, <1>13 DEF IInv

\* Saving keeps the invariant.
LEMMA SaveStep ==
  ASSUME IInv, Save
  PROVE  IInv'
<1>0. /\ Types /\ SignalWaits /\ PathIsSeen /\ ChatIsBare /\ EditorFits /\ SavesFit
      /\ TextsFit /\ EditsFit /\ CreationFits /\ ListsTogether /\ ListFits /\ PreviewFits
  BY DEF IInv
<1>1. /\ stored' = stored /\ path' = path /\ push' = push /\ view' = view /\ editing' = editing
      /\ intent' = intent /\ panel' = panel /\ preview' = preview /\ attached' = attached
      /\ archives' = archives /\ creating' = creating /\ going' = going /\ typed' = typed
      /\ faults' = faults /\ acked' = acked /\ reopened' = reopened /\ unloaded' = unloaded
      /\ orphaned' = orphaned
  BY DEF Save, address, signals, beside
<1>2. editing = None /\ intent = None
  BY DEF Save, Event, Settled
<1>3. /\ view = "notes" /\ panel.selected # None /\ editor.req = "none" /\ ~ editor.saving
      /\ editor.text # None /\ editor' = [editor EXCEPT !.saving = TRUE]
      /\ blind' = (blind \/ editor.failed)
  BY DEF Save, Ready, Editing
<1>4. /\ panel.selected \in Notes /\ editor.text \in Texts
      /\ editor \in EditorRecords /\ editor.failed \in BOOLEAN
  <2>1. panel \in PanelRecords /\ editor \in EditorRecords  BY <1>0 DEF Types
  <2> QED  BY <1>3, <2>1, PanelTypes, EditorTypes
<1>5. PICK s : /\ saves' = saves \cup {s} /\ s \in SaveRecords /\ s.note = panel.selected
               /\ s.text = editor.text /\ s.editor = TRUE
  <2> DEFINE s == [note |-> panel.selected, text |-> editor.text, panel |-> TRUE, editor |-> TRUE]
  <2>1. saves' = saves \cup {s}  BY DEF Save
  <2>2. s \in SaveRecords  BY <1>4 DEF SaveRecords
  <2>3. s.note = panel.selected /\ s.text = editor.text /\ s.editor = TRUE  OBVIOUS
  <2> HIDE DEF s
  <2> QED  BY <2>1, <2>2, <2>3
<1>6. /\ editor' \in EditorRecords /\ editor'.req = "none" /\ editor'.failed = editor.failed
      /\ editor'.text = editor.text /\ editor'.saving
  BY <1>3, <1>4 DEF EditorRecords
<1>7. Types'  BY <1>0, <1>1, <1>2, <1>3, <1>4, <1>5, <1>6 DEF Types
<1>8. SignalWaits'  BY <1>0, <1>1, <1>2, <1>3, <1>4, <1>5, <1>6, SignalStays
<1>9. PathIsSeen'  BY <1>0, <1>1, <1>2, <1>3, <1>4, <1>5, <1>6, PathStays
<1>10. ChatIsBare'  BY <1>0, <1>1, <1>2, <1>3, <1>4, <1>5, <1>6, BareStays
<1>11. EditorFits' /\ SavesFit' /\ TextsFit' /\ EditsFit'
  <2>1. EditorFits'  BY <1>1, <1>3 DEF EditorFits
  <2>2. \A t \in saves : ~ t.editor  BY <1>0, <1>3 DEF SavesFit
  <2>3. SavesFit'  BY <1>5, <1>6, <2>2 DEF SavesFit
  <2>4. ~ blind' => ~ blind /\ Loaded  BY <1>3 DEF Loaded
  <2>5. TextsFit'  BY <1>0, <1>1, <1>5, <1>6, <2>4 DEF TextsFit, Reads, Loaded
  <2>6. ~ blind' /\ ~ reopened => \A t \in saves : t.note # panel.selected
    BY <1>0, <2>2, <2>4 DEF EditsFit
  <2>7. EditsFit'  BY <1>0, <1>1, <1>5, <1>6, <2>4, <2>6 DEF EditsFit, Reads, Loaded
  <2> QED  BY <2>1, <2>3, <2>5, <2>7
<1>12. CreationFits'  BY <1>0, <1>1, <1>2, <1>3, <1>4, <1>5, <1>6, CreationStays
<1>13. ListsTogether' /\ ListFits'  BY <1>0, <1>1, <1>2, <1>3, <1>4, <1>5, <1>6, ListStays
<1>14. PreviewFits'  BY <1>0, <1>1, <1>2, <1>3, <1>4, <1>5, <1>6, PreviewStays
<1> QED
  BY <1>7, <1>8, <1>9, <1>10, <1>11, <1>12, <1>13, <1>14 DEF IInv

\* The end of a save keeps the invariant.
LEMMA SaveLandsStep ==
  ASSUME IInv, NEW s \in saves, SaveLands(s)
  PROVE  IInv'
<1>0. /\ Types /\ SignalWaits /\ PathIsSeen /\ ChatIsBare /\ EditorFits /\ SavesFit
      /\ TextsFit /\ EditsFit /\ CreationFits /\ ListsTogether /\ ListFits /\ PreviewFits
  BY DEF IInv
<1>1. /\ path' = path /\ push' = push /\ view' = view /\ editing' = editing /\ intent' = intent
      /\ preview' = preview /\ attached' = attached /\ archives' = archives
      /\ creating' = creating /\ going' = going /\ typed' = typed /\ events' = events
      /\ faults' = faults /\ blind' = blind /\ reopened' = reopened /\ unloaded' = unloaded
  BY DEF SaveLands, address, signals, beside, bounds
<1>2. editing = None /\ intent = None
  BY DEF SaveLands, Heeded
<1>3. /\ stored[s.note] # None /\ stored' = [stored EXCEPT ![s.note] = s.text]
      /\ acked' = [acked EXCEPT ![s.note] = acked[s.note] \cup s.text.edits]
      /\ saves' = saves \ {s}
      /\ editor' = IF s.editor THEN [editor EXCEPT !.saving = FALSE] ELSE editor
      /\ panel' = IF s.panel THEN Reloaded(panel) ELSE panel
      /\ orphaned' = (orphaned \/ (~ s.panel /\ view = "notes"))
  BY DEF SaveLands, ReloadFor
<1>4. /\ s \in saves /\ s.note \in Notes /\ s.text \in Texts /\ s.text # None
      /\ s.text.edits \subseteq Edits /\ panel \in PanelRecords
  <2>1. s \in SaveRecords  BY <1>0 DEF Types
  <2>2. s.note \in Notes /\ s.text \in Texts  BY <2>1, CallTypes
  <2> QED  BY <1>0, <2>2, TextsAreTexts DEF Types
<1>5. /\ editor' \in EditorRecords /\ editor'.text = editor.text /\ editor'.got = editor.got
      /\ editor'.req = editor.req /\ editor'.failed = editor.failed
      /\ s.editor => editor'.saving = FALSE
      /\ ~ s.editor => editor' = editor
  <2>1. editor \in EditorRecords  BY <1>0 DEF Types
  <2>2. CASE s.editor  BY <1>3, <2>1, <2>2 DEF EditorRecords
  <2>3. CASE ~ s.editor  BY <1>3, <2>1, <2>3
  <2> QED  BY <2>2, <2>3
<1>6. /\ panel' \in PanelRecords /\ panel'.seen = panel.seen /\ panel'.selected = panel.selected
      /\ s.panel => panel'.req = "sent"
      /\ ~ s.panel => panel' = panel
  BY <1>3, <1>4, ReloadedFacts
<1>7. /\ stored' \in Stored /\ acked' \in [Notes -> SUBSET Edits]
      /\ stored'[s.note] = s.text /\ acked'[s.note] = acked[s.note] \cup s.text.edits
      /\ \A n \in Notes \ {s.note} : stored'[n] = stored[n] /\ acked'[n] = acked[n]
  <2>1. stored \in [Notes -> Texts \cup {None}] /\ acked \in [Notes -> SUBSET Edits]
    BY <1>0 DEF Types, Stored
  <2> QED  BY <1>3, <1>4, <2>1 DEF Stored
<1>8. /\ \A t \in saves : t.note \in Notes
      /\ panel.selected \in Notes \cup {None}
  BY <1>0, CallTypes, PanelTypes DEF Types
<1>9. orphaned' \in BOOLEAN  BY <1>0, <1>3 DEF Types
<1>10. Types'  BY <1>0, <1>1, <1>3, <1>5, <1>6, <1>7, <1>9 DEF Types
<1>11. SignalWaits'  BY <1>0, <1>1, <1>2, <1>3, <1>4, <1>5, <1>6, <1>7, <1>8, <1>9, SignalStays
<1>12. PathIsSeen'  BY <1>0, <1>1, <1>2, <1>3, <1>4, <1>5, <1>6, <1>7, <1>8, <1>9, PathStays
<1>13. ChatIsBare'  BY <1>0, <1>1, <1>3, <1>4, <1>6 DEF ChatIsBare
<1>14. EditorFits' /\ SavesFit' /\ TextsFit' /\ EditsFit'
  <2>1. EditorFits'  BY <1>0, <1>4, <1>5, <1>6, EmptyRecords DEF EditorFits, SavesFit
  <2>2. SavesFit'  BY <1>0, <1>3, <1>4, <1>5 DEF SavesFit
  <2>3. TextsFit'
    <3>1. SUFFICES ASSUME ~ blind  PROVE  TextsFit'
      BY <1>1 DEF TextsFit
    <3>2. \A n \in Notes : stored'[n] # None => stored'[n].of = n
      BY <1>0, <1>4, <1>7, <3>1 DEF TextsFit
    <3>3. \A t \in saves' : t.text.of = t.note  BY <1>0, <1>3, <3>1 DEF TextsFit
    <3>4. Reads' => editor'.got # None /\ editor'.got.of = panel'.selected
      BY <1>0, <1>5, <1>6, <3>1 DEF TextsFit, Reads
    <3>5. Loaded' => editor'.text # None /\ editor'.text.of = panel'.selected
      BY <1>0, <1>5, <1>6, <3>1 DEF TextsFit, Loaded
    <3> QED  BY <3>2, <3>3, <3>4, <3>5 DEF TextsFit
  <2>4. EditsFit'
    <3>1. SUFFICES ASSUME ~ blind, ~ reopened  PROVE  EditsFit'
      BY <1>1 DEF EditsFit
    <3>2. /\ acked[s.note] \subseteq s.text.edits
          /\ \A t \in saves' : t \in saves /\ t.note # s.note
      BY <1>0, <1>3, <1>4, <3>1 DEF EditsFit
    <3>3. \A n \in Notes : stored'[n] # None => acked'[n] \subseteq stored'[n].edits
      BY <1>0, <1>4, <1>7, <3>1, <3>2 DEF EditsFit
    <3>4. \A t \in saves' : acked'[t.note] \subseteq t.text.edits
      BY <1>0, <1>7, <1>8, <3>1, <3>2 DEF EditsFit
    <3>5. \A t, u \in saves' : t.note = u.note => t = u  BY <1>0, <3>1, <3>2 DEF EditsFit
    <3>6. Reads' => /\ acked'[panel'.selected] \subseteq editor'.got.edits
                    /\ \A t \in saves' : t.note # panel'.selected
      BY <1>0, <1>4, <1>5, <1>6, <1>7, <1>8, <3>1, <3>2 DEF EditsFit, Reads
    <3>7. Loaded' => /\ acked'[panel'.selected] \subseteq editor'.text.edits
                     /\ \A t \in saves' : t.note = panel'.selected =>
                          t.editor /\ t.text.edits \subseteq editor'.text.edits
      BY <1>0, <1>4, <1>5, <1>6, <1>7, <1>8, <3>1, <3>2 DEF EditsFit, Loaded
    <3> QED  BY <3>3, <3>4, <3>5, <3>6, <3>7 DEF EditsFit
  <2> QED  BY <2>1, <2>2, <2>3, <2>4
<1>15. CreationFits'  BY <1>0, <1>1, <1>3, <1>7 DEF CreationFits, Types
<1>16. ListsTogether' /\ ListFits'
  <2>1. ListsTogether'  BY <1>0, <1>1 DEF ListsTogether
  <2>2. ListFits'
    <3>1. CASE s.panel  BY <1>6, <3>1 DEF ListFits
    <3>2. CASE ~ s.panel  BY <1>1, <1>3, <3>2 DEF ListFits
    <3> QED  BY <3>1, <3>2
  <2> QED  BY <2>1, <2>2
<1>17. PreviewFits'  BY <1>0, <1>1, <1>2, <1>3, <1>4, <1>5, <1>6, <1>7, <1>8, <1>9, PreviewStays
<1> QED
  BY <1>10, <1>11, <1>12, <1>13, <1>14, <1>15, <1>16, <1>17 DEF IInv

\* The failure of a save keeps the invariant.
LEMMA SaveFailsStep ==
  ASSUME IInv, NEW s \in saves, SaveFails(s)
  PROVE  IInv'
<1>0. /\ Types /\ SignalWaits /\ PathIsSeen /\ ChatIsBare /\ EditorFits /\ SavesFit
      /\ TextsFit /\ EditsFit /\ CreationFits /\ ListsTogether /\ ListFits /\ PreviewFits
  BY DEF IInv
<1>1. /\ path' = path /\ push' = push /\ view' = view /\ editing' = editing
      /\ intent' = intent /\ panel' = panel /\ preview' = preview /\ attached' = attached
      /\ archives' = archives /\ creating' = creating /\ going' = going /\ typed' = typed
      /\ events' = events /\ acked' = acked /\ blind' = blind /\ reopened' = reopened
      /\ orphaned' = orphaned
  BY DEF SaveFails, address, signals, beside
<1>2. editing = None /\ intent = None
  BY DEF SaveFails, Heeded
<1>3. /\ saves' = saves \ {s}
      /\ editor' = IF s.editor THEN [editor EXCEPT !.saving = FALSE] ELSE editor
  BY DEF SaveFails
<1>4. /\ s \in saves /\ s.note \in Notes /\ s.text \in Texts /\ s.text # None
      /\ panel.selected \in Notes \cup {None}
  <2>1. s \in SaveRecords /\ panel \in PanelRecords  BY <1>0 DEF Types
  <2>2. s.note \in Notes /\ s.text \in Texts  BY <2>1, CallTypes
  <2> QED  BY <2>1, <2>2, TextsAreTexts, PanelTypes
<1>5. /\ editor' \in EditorRecords /\ editor'.text = editor.text /\ editor'.got = editor.got
      /\ editor'.req = editor.req /\ editor'.failed = editor.failed
      /\ s.editor => editor'.saving = FALSE
      /\ ~ s.editor => editor' = editor
  <2>1. editor \in EditorRecords  BY <1>0 DEF Types
  <2>2. CASE s.editor  BY <1>3, <2>1, <2>2 DEF EditorRecords
  <2>3. CASE ~ s.editor  BY <1>3, <2>1, <2>3
  <2> QED  BY <2>2, <2>3
<1>6. /\ panel' = panel
      /\ stored' \in Stored /\ unloaded' \in BOOLEAN
      /\ \A n \in Notes \ {s.note} : stored'[n] = stored[n]
      /\ \/ stored'[s.note] = stored[s.note]
         \/ stored'[s.note] = s.text /\ stored[s.note] # None
      /\ (stored' = stored /\ unloaded' = unloaded) \/ unloaded'
  <2>1. stored \in [Notes -> Texts \cup {None}] /\ unloaded \in BOOLEAN
    BY <1>0 DEF Types, Stored
  <2>2. CASE stored' = stored /\ unloaded' = unloaded
    BY <1>1, <2>1, <2>2 DEF Stored
  <2>3. CASE /\ stored[s.note] # None /\ unloaded' = TRUE
             /\ stored' = [stored EXCEPT ![s.note] = s.text]
    BY <1>1, <1>4, <2>1, <2>3 DEF Stored
  <2> QED  BY <2>2, <2>3 DEF SaveFails
<1>7. Types'  BY <1>0, <1>1, <1>2, <1>3, <1>4, <1>5, <1>6 DEF Types
<1>8. SignalWaits'  BY <1>0, <1>1, <1>2, <1>3, <1>4, <1>5, <1>6, SignalStays
<1>9. PathIsSeen'  BY <1>0, <1>1, <1>2, <1>3, <1>4, <1>5, <1>6, PathStays
<1>10. ChatIsBare'  BY <1>0, <1>1, <1>2, <1>3, <1>4, <1>5, <1>6, BareStays
<1>11. EditorFits' /\ SavesFit' /\ TextsFit' /\ EditsFit'
  <2>1. EditorFits'  BY <1>0, <1>4, <1>5, <1>6, EmptyRecords DEF EditorFits, SavesFit
  <2>2. SavesFit'  BY <1>0, <1>3, <1>4, <1>5 DEF SavesFit
  <2>3. TextsFit'  BY <1>0, <1>1, <1>3, <1>4, <1>5, <1>6 DEF TextsFit, Reads, Loaded
  <2>4. EditsFit'  BY <1>0, <1>1, <1>3, <1>4, <1>5, <1>6 DEF EditsFit, Reads, Loaded
  <2> QED  BY <2>1, <2>2, <2>3, <2>4
<1>12. CreationFits'
  <2>1. creating # None => creating \in Notes  BY <1>0 DEF Types
  <2> QED  BY <1>0, <1>1, <1>6, <2>1 DEF CreationFits
<1>13. ListsTogether' /\ ListFits'
  <2>1. CASE stored' = stored /\ unloaded' = unloaded
    BY <1>0, <1>1, <1>6, <2>1, ListStays
  <2>2. CASE unloaded'  BY <1>0, <1>1, <2>2 DEF ListsTogether, ListFits
  <2> QED  BY <1>6, <2>1, <2>2
<1>14. PreviewFits'  BY <1>0, <1>1, <1>2, <1>3, <1>4, <1>5, <1>6, PreviewStays
<1> QED
  BY <1>7, <1>8, <1>9, <1>10, <1>11, <1>12, <1>13, <1>14 DEF IInv

\* The end of a creation keeps the invariant.
LEMMA CreateLandsStep ==
  ASSUME IInv, CreateLands
  PROVE  IInv'
<1>0. /\ Types /\ SignalWaits /\ PathIsSeen /\ ChatIsBare /\ EditorFits /\ SavesFit
      /\ TextsFit /\ EditsFit /\ CreationFits /\ ListsTogether /\ ListFits /\ PreviewFits
  BY DEF IInv
<1>1. /\ path' = path /\ view' = view /\ editing' = editing /\ intent' = intent
      /\ editor' = editor /\ preview' = preview /\ attached' = attached /\ saves' = saves
      /\ archives' = archives /\ going' = going /\ typed' = typed /\ events' = events
      /\ faults' = faults /\ acked' = acked /\ blind' = blind /\ reopened' = reopened
      /\ unloaded' = unloaded
  BY DEF CreateLands, signals, beside, bounds
<1>2. editing = None /\ intent = None
  BY DEF CreateLands, Heeded
<1>3. /\ creating # None /\ creating' = None /\ push' = creating
      /\ stored' = [stored EXCEPT ![creating] = [of |-> creating, edits |-> {}]]
      /\ panel' = IF panel.asked THEN Reloaded([panel EXCEPT !.asked = FALSE]) ELSE panel
      /\ orphaned' = (orphaned \/ (~ panel.asked /\ view = "notes"))
  BY DEF CreateLands, ReloadFor
<1>4. /\ creating \in Notes /\ push' \in Paths /\ acked[creating] = {}
      /\ panel \in PanelRecords /\ orphaned' \in BOOLEAN
  BY <1>0, <1>3, AddressFacts DEF Types, CreationFits
<1>5. /\ panel' \in PanelRecords /\ panel'.seen = panel.seen /\ panel'.selected = panel.selected
      /\ panel.asked => panel'.req = "sent"
      /\ ~ panel.asked => panel' = panel
  <2> DEFINE p == [panel EXCEPT !.asked = FALSE]
  <2>1. p \in PanelRecords /\ p.seen = panel.seen /\ p.selected = panel.selected
    BY <1>4 DEF PanelRecords
  <2>2. panel' = IF panel.asked THEN Reloaded(p) ELSE panel  BY <1>3
  <2> HIDE DEF p
  <2>3. CASE panel.asked  BY <2>1, <2>2, <2>3, ReloadedFacts
  <2>4. CASE ~ panel.asked  BY <1>4, <2>2, <2>4
  <2> QED  BY <2>3, <2>4
<1>6. /\ stored' \in Stored
      /\ stored'[creating].of = creating /\ stored'[creating].edits = {}
      /\ \A n \in Notes \ {creating} : stored'[n] = stored[n]
  <2> DEFINE t == [of |-> creating, edits |-> {}]
  <2>1. t \in Texts /\ t.of = creating /\ t.edits = {}  BY <1>4 DEF Texts
  <2>2. stored \in [Notes -> Texts \cup {None}]  BY <1>0 DEF Types, Stored
  <2>3. stored' = [stored EXCEPT ![creating] = t]  BY <1>3
  <2> HIDE DEF t
  <2> QED  BY <1>4, <2>1, <2>2, <2>3 DEF Stored
<1>7. Types'  BY <1>0, <1>1, <1>3, <1>4, <1>5, <1>6 DEF Types
<1>8. SignalWaits'  BY <1>0, <1>1, <1>2, <1>3, <1>4, <1>5, <1>6, SignalStays
<1>9. PathIsSeen'  BY <1>0, <1>1, <1>2, <1>3, <1>4, <1>5, <1>6, PathStays
<1>10. ChatIsBare'  BY <1>0, <1>1, <1>5, EmptyRecords DEF ChatIsBare
<1>11. EditorFits' /\ SavesFit' /\ TextsFit' /\ EditsFit'
  <2>1. EditorFits' /\ SavesFit'  BY <1>0, <1>1, <1>5 DEF EditorFits, SavesFit
  <2>2. TextsFit'  BY <1>0, <1>1, <1>4, <1>5, <1>6 DEF TextsFit, Reads, Loaded
  <2>3. EditsFit'  BY <1>0, <1>1, <1>4, <1>5, <1>6 DEF EditsFit, Reads, Loaded
  <2> QED  BY <2>1, <2>2, <2>3
<1>12. CreationFits'  BY <1>3 DEF CreationFits
<1>13. ListsTogether' /\ ListFits'
  <2>1. ListsTogether'  BY <1>0, <1>1 DEF ListsTogether
  <2>2. ListFits'
    <3>1. CASE panel.asked  BY <1>5, <3>1 DEF ListFits
    <3>2. CASE ~ panel.asked  BY <1>1, <1>3, <3>2 DEF ListFits
    <3> QED  BY <3>1, <3>2
  <2> QED  BY <2>1, <2>2
<1>14. PreviewFits'  BY <1>0, <1>1, <1>2, <1>3, <1>4, <1>5, <1>6, PreviewStays
<1> QED
  BY <1>7, <1>8, <1>9, <1>10, <1>11, <1>12, <1>13, <1>14 DEF IInv

\* The failure of a creation keeps the invariant.
LEMMA CreateFailsStep ==
  ASSUME IInv, CreateFails
  PROVE  IInv'
<1>0. /\ Types /\ SignalWaits /\ PathIsSeen /\ ChatIsBare /\ EditorFits /\ SavesFit
      /\ TextsFit /\ EditsFit /\ CreationFits /\ ListsTogether /\ ListFits /\ PreviewFits
  BY DEF IInv
<1>1. /\ path' = path /\ push' = push /\ view' = view /\ editing' = editing /\ intent' = intent
      /\ editor' = editor /\ preview' = preview /\ attached' = attached /\ saves' = saves
      /\ archives' = archives /\ going' = going /\ typed' = typed /\ events' = events
      /\ acked' = acked /\ blind' = blind /\ reopened' = reopened /\ orphaned' = orphaned
  BY DEF CreateFails, address, signals, beside
<1>2. editing = None /\ intent = None  BY DEF CreateFails, Heeded
<1>3. /\ creating # None /\ creating' = None
      /\ panel' = [panel EXCEPT !.creates = FALSE, !.asked = FALSE]
      /\ \/ stored' = stored /\ unloaded' = unloaded
         \/ /\ stored' = [stored EXCEPT ![creating] = [of |-> creating, edits |-> {}]]
            /\ unloaded' = TRUE
  BY DEF CreateFails
<1>4. creating \in Notes /\ acked[creating] = {} /\ panel \in PanelRecords
  BY <1>0, <1>3 DEF Types, CreationFits
<1>5. /\ panel' \in PanelRecords /\ panel'.seen = panel.seen /\ panel'.selected = panel.selected
      /\ panel'.req = panel.req /\ panel'.got = panel.got /\ panel'.list = panel.list
      /\ view = "chat" => panel' = panel
  <2>1. view = "chat" => panel.creates = FALSE /\ panel.asked = FALSE
    BY <1>0, EmptyRecords DEF ChatIsBare
  <2> QED  BY <1>3, <1>4, <2>1 DEF PanelRecords
<1>6. /\ stored' \in Stored /\ unloaded' \in BOOLEAN
      /\ \A n \in Notes \ {creating} : stored'[n] = stored[n]
      /\ \/ stored'[creating] = stored[creating]
         \/ stored'[creating].of = creating /\ stored'[creating].edits = {}
      /\ (stored' = stored /\ unloaded' = unloaded) \/ unloaded'
  <2> DEFINE t == [of |-> creating, edits |-> {}]
  <2>1. t \in Texts /\ t.of = creating /\ t.edits = {}  BY <1>4 DEF Texts
  <2>2. stored \in [Notes -> Texts \cup {None}] /\ unloaded \in BOOLEAN
    BY <1>0 DEF Types, Stored
  <2>3. \/ stored' = stored /\ unloaded' = unloaded
        \/ stored' = [stored EXCEPT ![creating] = t] /\ unloaded' = TRUE
    BY <1>3
  <2> HIDE DEF t
  <2> QED  BY <1>4, <2>1, <2>2, <2>3 DEF Stored
<1>7. Types'  BY <1>0, <1>1, <1>3, <1>4, <1>5, <1>6 DEF Types
<1>8. SignalWaits'  BY <1>0, <1>1, <1>2, <1>3, <1>4, <1>5, <1>6, SignalStays
<1>9. PathIsSeen'  BY <1>0, <1>1, <1>2, <1>3, <1>4, <1>5, <1>6, PathStays
<1>10. ChatIsBare'  BY <1>0, <1>1, <1>2, <1>3, <1>4, <1>5, <1>6, BareStays
<1>11. EditorFits' /\ SavesFit' /\ TextsFit' /\ EditsFit'
  <2>1. EditorFits' /\ SavesFit'  BY <1>0, <1>1, <1>5 DEF EditorFits, SavesFit
  <2>2. TextsFit'  BY <1>0, <1>1, <1>4, <1>5, <1>6 DEF TextsFit, Reads, Loaded
  <2>3. EditsFit'  BY <1>0, <1>1, <1>4, <1>5, <1>6 DEF EditsFit, Reads, Loaded
  <2> QED  BY <2>1, <2>2, <2>3
<1>12. CreationFits'  BY <1>3 DEF CreationFits
<1>13. ListsTogether' /\ ListFits'
  <2>1. CASE stored' = stored /\ unloaded' = unloaded
    BY <1>0, <1>1, <1>5, <2>1, ListStays
  <2>2. CASE unloaded'  BY <1>0, <1>1, <2>2 DEF ListsTogether, ListFits
  <2> QED  BY <1>6, <2>1, <2>2
<1>14. PreviewFits'  BY <1>0, <1>1, <1>2, <1>3, <1>4, <1>5, <1>6, PreviewStays
<1> QED
  BY <1>7, <1>8, <1>9, <1>10, <1>11, <1>12, <1>13, <1>14 DEF IInv

\* The end of an archiving keeps the invariant.
LEMMA ArchiveLandsStep ==
  ASSUME IInv, NEW a \in archives, ArchiveLands(a)
  PROVE  IInv'
<1>0. /\ Types /\ SignalWaits /\ PathIsSeen /\ ChatIsBare /\ EditorFits /\ SavesFit
      /\ TextsFit /\ EditsFit /\ CreationFits /\ ListsTogether /\ ListFits /\ PreviewFits
  BY DEF IInv
<1>1. /\ path' = path /\ view' = view /\ editing' = editing /\ intent' = intent
      /\ editor' = editor /\ preview' = preview /\ attached' = attached /\ saves' = saves
      /\ creating' = creating /\ going' = going /\ typed' = typed /\ events' = events
      /\ faults' = faults /\ acked' = acked /\ blind' = blind /\ reopened' = reopened
  BY DEF ArchiveLands, signals, beside, bounds
<1>2. editing = None /\ intent = None
  BY DEF ArchiveLands, Heeded
<1>3. /\ stored[a.note] # None /\ stored' = [stored EXCEPT ![a.note] = None]
      /\ archives' = archives \ {a}
      /\ push' = IF a.by = "editor" THEN "grid" ELSE push
      /\ unloaded' = (unloaded \/ a.by = "nobody")
  BY DEF ArchiveLands
<1>4. /\ a \in archives /\ a.note \in Notes /\ a.by \in {"editor", "list", "nobody"}
      /\ a.panel \in BOOLEAN /\ panel \in PanelRecords
  BY <1>0, CallTypes DEF Types
<1>5. \/ /\ a.by \in {"editor", "list"}
         /\ panel' = IF a.panel THEN Reloaded([panel EXCEPT !.chosen = {}]) ELSE panel
         /\ orphaned' = (orphaned \/ (~ a.panel /\ view = "notes"))
      \/ /\ a.by = "list" => \E b \in archives \ {a} : b.by = "list"
         /\ a.by # "editor" /\ panel' = panel
         /\ orphaned' = (orphaned \/ (a.by = "list" /\ ~ a.panel /\ view = "notes"))
  BY DEF ArchiveLands, ReloadFor
<1>6. /\ panel' \in PanelRecords /\ panel'.seen = panel.seen /\ panel'.selected = panel.selected
      /\ ~ a.panel => panel' = panel
      /\ a.panel /\ panel' # panel => panel'.req = "sent"
      /\ panel'.req = "sent" \/ panel' = panel
      /\ a.by = "editor" /\ a.panel => panel'.req = "sent"
      /\ a.by = "list" /\ a.panel => \/ panel'.req = "sent"
                                     \/ \E b \in archives \ {a} : b.by = "list"
  <2> DEFINE p == [panel EXCEPT !.chosen = {}]
  <2>1. p \in PanelRecords /\ p.seen = panel.seen /\ p.selected = panel.selected
    BY <1>4 DEF PanelRecords
  <2>2. \/ a.by \in {"editor", "list"} /\ panel' = IF a.panel THEN Reloaded(p) ELSE panel
        \/ /\ a.by = "list" => \E b \in archives \ {a} : b.by = "list"
           /\ a.by # "editor" /\ panel' = panel
    BY <1>5
  <2>3. /\ Reloaded(p) \in PanelRecords /\ Reloaded(p).req = "sent"
        /\ Reloaded(p).seen = panel.seen /\ Reloaded(p).selected = panel.selected
    BY <2>1, ReloadedFacts
  <2> HIDE DEF p
  <2> QED  BY <1>4, <2>2, <2>3
<1>7. /\ stored' \in Stored /\ stored'[a.note] = None
      /\ \A n \in Notes \ {a.note} : stored'[n] = stored[n]
  <2>1. stored \in [Notes -> Texts \cup {None}]  BY <1>0 DEF Types, Stored
  <2> QED  BY <1>3, <1>4, <2>1 DEF Stored
<1>8. push' \in Paths \cup {None} /\ orphaned' \in BOOLEAN /\ unloaded' \in BOOLEAN
  BY <1>0, <1>3, <1>5, AddressFacts DEF Types
<1>9. Types'  BY <1>0, <1>1, <1>3, <1>6, <1>7, <1>8 DEF Types
<1>10. SignalWaits'  BY <1>0, <1>1, <1>2, <1>3, <1>4, <1>5, <1>6, <1>7, <1>8, SignalStays
<1>11. PathIsSeen'  BY <1>0, <1>1, <1>2, <1>3, <1>4, <1>5, <1>6, <1>7, <1>8, PathStays
<1>12. ChatIsBare'  BY <1>0, <1>1, <1>3, <1>4, <1>6 DEF ChatIsBare
<1>13. EditorFits' /\ SavesFit' /\ TextsFit' /\ EditsFit'
  <2>1. EditorFits' /\ SavesFit'  BY <1>0, <1>1, <1>6 DEF EditorFits, SavesFit
  <2>2. TextsFit'  BY <1>0, <1>1, <1>4, <1>6, <1>7 DEF TextsFit, Reads, Loaded
  <2>3. EditsFit'  BY <1>0, <1>1, <1>4, <1>6, <1>7 DEF EditsFit, Reads, Loaded
  <2> QED  BY <2>1, <2>2, <2>3
<1>14. CreationFits'
  <2>1. creating # None => creating \in Notes  BY <1>0 DEF Types
  <2> QED  BY <1>0, <1>1, <1>7, <2>1 DEF CreationFits
<1>15. ListsTogether' /\ ListFits'
  <2>1. ListsTogether'  BY <1>0, <1>3 DEF ListsTogether
  <2>2. ListFits'
    <3>1. SUFFICES ASSUME view = "notes", ~ unloaded', ~ orphaned', panel'.req # "sent"
                   PROVE  ListFits'
      BY <1>1 DEF ListFits
    <3>2. a.by # "nobody" /\ panel' = panel  BY <1>3, <1>6, <3>1
    <3>3. a.by = "list" /\ a.panel  BY <1>4, <1>5, <1>6, <3>1, <3>2
    <3>4. PICK b \in archives \ {a} : b.by = "list"  BY <1>6, <3>1, <3>3
    <3>5. b.panel  BY <1>0, <1>4, <3>3, <3>4 DEF ListsTogether
    <3>6. ListWaits'  BY <1>3, <3>4, <3>5 DEF ListWaits
    <3> QED  BY <3>6 DEF ListFits
  <2> QED  BY <2>1, <2>2
<1>16. PreviewFits'  BY <1>0, <1>1, <1>2, <1>3, <1>4, <1>5, <1>6, <1>7, <1>8, PreviewStays
<1> QED
  BY <1>9, <1>10, <1>11, <1>12, <1>13, <1>14, <1>15, <1>16 DEF IInv

\* The failure of an archiving keeps the invariant.
LEMMA ArchiveFailsStep ==
  ASSUME IInv, NEW a \in archives, ArchiveFails(a)
  PROVE  IInv'
<1>0. /\ Types /\ SignalWaits /\ PathIsSeen /\ ChatIsBare /\ EditorFits /\ SavesFit
      /\ TextsFit /\ EditsFit /\ CreationFits /\ ListsTogether /\ ListFits /\ PreviewFits
  BY DEF IInv
<1>1. /\ path' = path /\ push' = push /\ view' = view /\ editing' = editing
      /\ intent' = intent /\ panel' = panel /\ preview' = preview /\ attached' = attached
      /\ saves' = saves /\ creating' = creating /\ going' = going /\ typed' = typed
      /\ events' = events /\ acked' = acked /\ blind' = blind /\ reopened' = reopened
      /\ orphaned' = orphaned
  BY DEF ArchiveFails, address, signals, beside
<1>2. editing = None /\ intent = None
  BY DEF ArchiveFails, Heeded
<1>3. /\ archives' = {IF a.by = "list" /\ b.by = "list" THEN [b EXCEPT !.by = "nobody"] ELSE b :
                       b \in archives \ {a}}
      /\ editor' = IF a.editor THEN [editor EXCEPT !.deleting = FALSE] ELSE editor
  BY DEF ArchiveFails
<1>4. \A b \in archives' :
        /\ b \in ArchiveRecords
        /\ \/ b \in archives /\ (a.by = "list" => b.by # "list")
           \/ a.by = "list" /\ b.by = "nobody" /\ \E c \in archives : b.panel = c.panel
  <2>1. \A b \in archives : LET c == [b EXCEPT !.by = "nobody"] IN
          b \in ArchiveRecords /\ c \in ArchiveRecords /\ c.by = "nobody" /\ c.panel = b.panel
    BY <1>0 DEF Types, ArchiveRecords
  <2> QED  BY <1>3, <2>1
<1>5. /\ editor' \in EditorRecords /\ editor'.text = editor.text /\ editor'.got = editor.got
      /\ editor'.req = editor.req /\ editor'.failed = editor.failed
      /\ editor'.saving = editor.saving
      /\ panel.selected = None => editor' = editor
  <2>1. editor \in EditorRecords  BY <1>0 DEF Types
  <2>2. editor.deleting = FALSE => [editor EXCEPT !.deleting = FALSE] = editor
    BY <2>1 DEF EditorRecords
  <2>3. CASE a.editor
    <3>1. panel.selected = None => editor' = editor
      BY <1>0, <1>3, <2>2, <2>3, EmptyRecords DEF EditorFits
    <3> QED  BY <1>3, <2>1, <2>3, <3>1 DEF EditorRecords
  <2>4. CASE ~ a.editor  BY <1>3, <2>1, <2>4
  <2> QED  BY <2>3, <2>4
<1>6. /\ stored' \in Stored /\ unloaded' \in BOOLEAN
      /\ \A n \in Notes : stored'[n] \in {stored[n], None}
      /\ a.by = "list" => unloaded'
      /\ (stored' = stored /\ unloaded' = unloaded) \/ unloaded'
  <2>1. stored \in [Notes -> Texts \cup {None}] /\ unloaded \in BOOLEAN
    BY <1>0 DEF Types, Stored
  <2>2. CASE stored' = stored /\ unloaded' = (unloaded \/ a.by = "list")
    BY <2>1, <2>2 DEF Stored
  <2>3. CASE unloaded' = TRUE /\ stored' = [stored EXCEPT ![a.note] = None]
    BY <2>1, <2>3 DEF Stored
  <2> QED  BY <2>2, <2>3 DEF ArchiveFails
<1>7. Types'  BY <1>0, <1>1, <1>4, <1>5, <1>6 DEF Types
<1>8. SignalWaits'  BY <1>0, <1>1, <1>2, <1>3, <1>4, <1>5, <1>6, SignalStays
<1>9. PathIsSeen'  BY <1>0, <1>1, <1>2, <1>3, <1>4, <1>5, <1>6, PathStays
<1>10. ChatIsBare'  BY <1>0, <1>1, <1>4 DEF ChatIsBare
<1>11. EditorFits' /\ SavesFit' /\ TextsFit' /\ EditsFit'
  <2>1. EditorFits' /\ SavesFit'  BY <1>0, <1>1, <1>5 DEF EditorFits, SavesFit
  <2>2. TextsFit'  BY <1>0, <1>1, <1>5, <1>6 DEF TextsFit, Reads, Loaded
  <2>3. EditsFit'  BY <1>0, <1>1, <1>5, <1>6 DEF EditsFit, Reads, Loaded
  <2> QED  BY <2>1, <2>2, <2>3
<1>12. CreationFits'
  <2>1. creating # None => creating \in Notes  BY <1>0 DEF Types
  <2> QED  BY <1>0, <1>1, <1>6, <2>1 DEF CreationFits
<1>13. ListsTogether' /\ ListFits'
  <2>1. CASE a.by = "list"
    <3>1. \A b \in archives' : b.by # "list"  BY <1>4, <2>1
    <3> QED  BY <1>6, <2>1, <3>1 DEF ListsTogether, ListFits
  <2>2. CASE a.by # "list"
    <3>1. archives' = archives \ {a}  BY <1>3, <2>2
    <3>2. ListsTogether'  BY <1>0, <3>1 DEF ListsTogether
    <3>3. CASE stored' = stored /\ unloaded' = unloaded
      BY <1>0, <1>1, <2>2, <3>1, <3>2, <3>3 DEF ListFits, ListWaits
    <3>4. CASE unloaded'  BY <3>2, <3>4 DEF ListFits
    <3> QED  BY <1>6, <2>2, <3>2, <3>3, <3>4
  <2> QED  BY <2>1, <2>2
<1>14. PreviewFits'  BY <1>0, <1>1, <1>2, <1>3, <1>4, <1>5, <1>6, PreviewStays
<1> QED
  BY <1>7, <1>8, <1>9, <1>10, <1>11, <1>12, <1>13, <1>14 DEF IInv

\* The pencil keeps the invariant.
LEMMA PencilStep ==
  ASSUME IInv, Pencil
  PROVE  IInv'
<1>0. /\ Types /\ SignalWaits /\ PathIsSeen /\ ChatIsBare /\ EditorFits /\ SavesFit
      /\ TextsFit /\ EditsFit /\ CreationFits /\ ListsTogether /\ ListFits /\ PreviewFits
  BY DEF IInv
<1>1. /\ stored' = stored /\ path' = path /\ push' = push /\ intent' = intent
      /\ editor' = editor /\ attached' = attached /\ saves' = saves /\ archives' = archives
      /\ creating' = creating /\ going' = going /\ typed' = typed /\ faults' = faults
      /\ acked' = acked /\ blind' = blind /\ reopened' = reopened /\ unloaded' = unloaded
      /\ orphaned' = orphaned
  BY DEF Pencil, waiting, history
<1>2. editing = None /\ intent = None
  BY DEF Pencil, Event, Settled
<1>3. /\ view = "chat" /\ preview.doc # None /\ editing' = preview.doc /\ view' = "notes"
      /\ panel' = NewPanel /\ preview' = [NoPreview EXCEPT !.id = preview.id]
  BY DEF Pencil, InChat
<1>4. panel = NoPanel /\ path = "chat"
  BY <1>0, <1>3, AddressFacts DEF Pencil, Event, Settled, ChatIsBare, Types
<1>5. /\ panel' \in PanelRecords /\ panel'.seen = None /\ panel'.selected = None
      /\ panel.selected = None /\ panel'.req = "sent"
  BY <1>3, <1>4, EmptyRecords
<1>6. preview' \in PreviewRecords /\ editing' \in Notes \cup {None}
  <2>1. preview \in PreviewRecords  BY <1>0 DEF Types
  <2>2. preview.id \in Notes \cup {None} /\ preview.doc \in Notes \cup {None}
    BY <2>1, PreviewTypes
  <2>3. NoPreview \in PreviewRecords  BY EmptyRecords
  <2> QED  BY <1>3, <2>2, <2>3 DEF PreviewRecords
<1>7. Types'  BY <1>0, <1>1, <1>3, <1>5, <1>6 DEF Types
<1>8. SignalWaits'  BY <1>1, <1>3, <1>4 DEF SignalWaits
<1>9. PathIsSeen'  BY <1>5 DEF PathIsSeen
<1>10. ChatIsBare'  BY <1>3 DEF ChatIsBare
<1>11. EditorFits' /\ SavesFit' /\ TextsFit' /\ EditsFit'
  BY <1>0, <1>1, <1>2, <1>3, <1>4, <1>5, <1>6, TextsStay
<1>12. CreationFits'  BY <1>0, <1>1, <1>2, <1>3, <1>4, <1>5, <1>6, CreationStays
<1>13. ListsTogether' /\ ListFits'  BY <1>0, <1>1, <1>5 DEF ListsTogether, ListFits
<1>14. PreviewFits'  BY <1>3 DEF PreviewFits
<1> QED
  BY <1>7, <1>8, <1>9, <1>10, <1>11, <1>12, <1>13, <1>14 DEF IInv

-----------------------------------------------------------------------------
(* The effects. *)

\* The address after a run of the effects, and what it leaves alone.
LEMMA FlushFrame ==
  ASSUME IInv, Flush
  PROVE  /\ stored' = stored /\ path' = path /\ push' = push /\ creating' = creating
         /\ going' = going /\ typed' = typed /\ acked' = acked /\ blind' = blind
         /\ reopened' = reopened
         /\ view' = ViewOf(path) /\ editing' = None /\ intent' = None
         /\ unloaded' = (unloaded /\ view' = "notes")
         /\ orphaned' = (orphaned /\ view' = "notes")
         /\ path \in Paths /\ view' \in {"chat", "notes"} /\ view \in {"chat", "notes"}
BY AddressFacts DEF Flush, bounds, IInv, Types, SignalWaits

\* The panel selects the note of the address, whatever the pencil sent.
LEMMA FlushPanel ==
  ASSUME IInv, Flush
  PROVE  /\ panel' \in PanelRecords /\ PathIsSeen'
         /\ view' = "chat" => panel' = NoPanel
         /\ view' = "notes" /\ view = "chat" => panel' = NewPanel
         /\ view' = "notes" /\ view = "notes" =>
              panel'.req = panel.req /\ panel'.got = panel.got /\ panel'.list = panel.list
<1>1. /\ panel \in PanelRecords /\ path \in Paths /\ view' = ViewOf(path)
      /\ view' \in {"chat", "notes"} /\ view \in {"chat", "notes"}
  BY FlushFrame DEF IInv, Types
<1>2. CASE view' = "chat"
  <2>1. panel' = NoPanel  BY <1>2 DEF Flush
  <2> QED  BY <1>2, <2>1, EmptyRecords DEF PathIsSeen
<1>3. CASE view' = "notes" /\ view = "chat"
  <2>1. panel' = NewPanel  BY <1>3 DEF Flush
  <2> QED  BY <1>3, <2>1, EmptyRecords DEF PathIsSeen
<1>4. CASE view' = "notes" /\ view = "notes"
  <2>1. editing = None  BY <1>1, <1>4 DEF IInv, SignalWaits, ViewOf
  <2>2. Selected = IdIn(path)
    <3>1. Selected = SelectedByPath  BY <2>1 DEF Selected
    <3>2. CASE panel.seen # path  BY <3>1, <3>2 DEF SelectedByPath
    <3>3. CASE panel.seen = path
      <4>1. panel.selected = IdIn(path)  BY <1>1, <3>3, AddressFacts DEF IInv, PathIsSeen
      <4> QED  BY <3>1, <3>3, <4>1 DEF SelectedByPath
    <3> QED  BY <3>2, <3>3
  <2>3. IdIn(path) \in Notes \cup {None} /\ path # None  BY <1>1, AddressFacts
  <2>4. panel' = [panel EXCEPT !.seen = path, !.selected = IdIn(path),
                               !.creates = panel.creates /\ IdIn(path) = None]
    BY <1>4, <2>2 DEF Flush
  <2>5. panel.creates \in BOOLEAN  BY <1>1, PanelTypes
  <2>6. /\ panel' \in PanelRecords /\ panel'.seen = path /\ panel'.selected = IdIn(path)
        /\ panel'.req = panel.req /\ panel'.got = panel.got /\ panel'.list = panel.list
    BY <1>1, <2>3, <2>4, <2>5 DEF PanelRecords
  <2>7. PathIsSeen'  BY <2>3, <2>6 DEF PathIsSeen
  <2> QED  BY <1>4, <2>6, <2>7
<1> QED  BY <1>1, <1>2, <1>3, <1>4

\* The editor is gone, loads, or is the one that was there.
LEMMA FlushEditor ==
  ASSUME IInv, Flush
  PROVE  /\ editor' \in EditorRecords /\ EditorFits'
         /\ editor' # NoEditor => editor'.saving = editor.saving
         /\ panel'.selected # None =>
              \/ editor'.req = "sent"
              \/ editor' = editor /\ panel'.selected = panel.selected
<1>1. editor \in EditorRecords /\ EditorFits  BY DEF IInv, Types
<1>2. editor' = Reopened(editor, panel.selected, panel'.selected)  BY DEF Flush
<1>3. CASE panel'.selected = None
  <2>1. editor' = NoEditor  BY <1>2, <1>3 DEF Reopened
  <2> QED  BY <1>3, <2>1, EmptyRecords DEF EditorFits
<1>4. CASE panel'.selected # None /\ panel.selected = None
  <2>1. editor' = NewEditor  BY <1>2, <1>4 DEF Reopened
  <2>2. editor = NoEditor  BY <1>1, <1>4 DEF EditorFits
  <2> QED  BY <1>4, <2>1, <2>2, EmptyRecords DEF EditorFits
<1>5. CASE panel'.selected # None /\ panel.selected # None /\ panel.selected # panel'.selected
  <2>1. editor' = [editor EXCEPT !.req = "sent", !.got = None, !.failed = FALSE]
    BY <1>2, <1>5 DEF Reopened
  <2>2. editor' \in EditorRecords /\ editor'.req = "sent" /\ editor'.saving = editor.saving
    BY <1>1, <2>1 DEF EditorRecords, Asked
  <2> QED  BY <1>5, <2>2 DEF EditorFits
<1>6. CASE panel'.selected # None /\ panel.selected = panel'.selected
  <2>1. editor' = editor  BY <1>2, <1>6 DEF Reopened
  <2> QED  BY <1>1, <1>6, <2>1 DEF EditorFits
<1> QED  BY <1>3, <1>4, <1>5, <1>6

\* The requests under way, after the effects.
LEMMA FlushCalls ==
  ASSUME IInv, Flush
  PROVE  /\ \A t \in saves' : t \in SaveRecords
         /\ \A t, u \in saves' : \E s, r \in saves :
              /\ t.note = s.note /\ t.text = s.text
              /\ t.panel = (s.panel /\ view' = "notes")
              /\ t.editor = (s.editor /\ editor' # NoEditor)
              /\ u.note = r.note /\ u.editor = (r.editor /\ editor' # NoEditor)
              /\ s = r => t = u
         /\ \A b \in archives' : b \in ArchiveRecords
         /\ \A b \in archives' : \E a \in archives :
              b.by = a.by /\ b.panel = (a.panel /\ view' = "notes")
         /\ \A a \in archives : \E b \in archives' :
              b.by = a.by /\ b.panel = (a.panel /\ view' = "notes")
<1> DEFINE v == view' = "notes"
           e == editor' # NoEditor
           S(s) == [s EXCEPT !.panel = @ /\ v, !.editor = @ /\ e]
<1>1. saves \subseteq SaveRecords /\ archives \subseteq ArchiveRecords  BY DEF IInv, Types
<1>2. saves' = {S(s) : s \in saves} /\ archives' = {S(a) : a \in archives}  BY DEF Flush
<1>3. v \in BOOLEAN /\ e \in BOOLEAN  OBVIOUS
<1> HIDE DEF v, e
<1>4. \A s \in SaveRecords : /\ S(s) \in SaveRecords /\ S(s).note = s.note
                             /\ S(s).text = s.text
                             /\ S(s).panel = (s.panel /\ v) /\ S(s).editor = (s.editor /\ e)
  BY <1>3 DEF SaveRecords
<1>5. \A a \in ArchiveRecords : /\ S(a) \in ArchiveRecords /\ S(a).by = a.by
                                /\ S(a).panel = (a.panel /\ v)
  BY <1>3 DEF ArchiveRecords
<1> HIDE DEF S
<1>6. \A t \in saves' : t \in SaveRecords  BY <1>1, <1>2, <1>4
<1>7. \A b \in archives' : b \in ArchiveRecords  BY <1>1, <1>2, <1>5
<1>8. \A t, u \in saves' : \E s, r \in saves :
        /\ t.note = s.note /\ t.text = s.text
        /\ t.panel = (s.panel /\ v) /\ t.editor = (s.editor /\ e)
        /\ u.note = r.note /\ u.editor = (r.editor /\ e)
        /\ s = r => t = u
  <2> TAKE t, u \in saves'
  <2>1. PICK s \in saves : t = S(s)  BY <1>2
  <2>2. PICK r \in saves : u = S(r)  BY <1>2
  <2>3. s = r => t = u  BY <2>1, <2>2
  <2> QED  BY <1>1, <1>4, <2>1, <2>2, <2>3
<1>9. \A b \in archives' : \E a \in archives : b.by = a.by /\ b.panel = (a.panel /\ v)
  BY <1>1, <1>2, <1>5
<1>10. \A a \in archives : \E b \in archives' : b.by = a.by /\ b.panel = (a.panel /\ v)
  BY <1>1, <1>2, <1>5
<1> QED  BY <1>6, <1>7, <1>8, <1>9, <1>10 DEF v, e

\* The preview and the documents of the chat.
LEMMA FlushPreview ==
  ASSUME IInv, Flush
  PROVE  preview' \in PreviewRecords /\ attached' \in Seq(Notes) /\ PreviewFits'
<1>1. /\ preview \in PreviewRecords /\ attached \in Seq(Notes) /\ intent \in Notes \cup {None}
      /\ view \in {"chat", "notes"}
  BY DEF IInv, Types
<1>2. attached' = IF view = "chat" /\ intent # None THEN Attach(intent) ELSE attached
  BY DEF Flush
<1>3. attached' \in Seq(Notes)  BY <1>1, <1>2, AttachFacts
<1>4. CASE view = "chat" /\ intent # None
  <2>1. preview' = PreviewOf(preview, intent)  BY <1>4 DEF Flush
  <2>2. /\ preview' \in PreviewRecords
        /\ preview' = preview \/ preview'.req = "sent" \/ preview' = NoPreview
    BY <1>1, <2>1, PreviewOfFacts
  <2>3. PreviewFits'  BY <1>4, <2>2, EmptyRecords DEF PreviewFits, IInv
  <2> QED  BY <1>3, <2>2, <2>3
<1>5. CASE ~ (view = "chat" /\ intent # None) /\ view = view'
  <2>1. preview' = preview  BY <1>5 DEF Flush
  <2>2. PreviewFits'  BY <1>5, <2>1 DEF PreviewFits, IInv
  <2> QED  BY <1>1, <1>3, <2>1, <2>2
<1>6. CASE ~ (view = "chat" /\ intent # None) /\ view # view'
  <2> DEFINE r == IF view' = "chat" /\ preview.id # None THEN "sent" ELSE "none"
  <2>1. preview' = [NoPreview EXCEPT !.id = preview.id, !.req = r]  BY <1>6 DEF Flush
  <2>2. r \in Asked /\ (r = "none" => view' # "chat" \/ preview.id = None) /\ r # "read"
    BY DEF Asked
  <2>3. preview.id \in Notes \cup {None} /\ NoPreview \in PreviewRecords /\ NoPreview.doc = None
    BY <1>1, PreviewTypes, EmptyRecords
  <2> HIDE DEF r
  <2>4. /\ preview' \in PreviewRecords /\ preview'.id = preview.id /\ preview'.req = r
        /\ preview'.doc = None
    BY <2>1, <2>2, <2>3 DEF PreviewRecords
  <2>5. PreviewFits'  BY <2>2, <2>4 DEF PreviewFits
  <2> QED  BY <1>3, <2>4, <2>5
<1> QED  BY <1>4, <1>5, <1>6

\* The effects keep the invariant.
LEMMA FlushStep ==
  ASSUME IInv, Flush
  PROVE  IInv'
<1>0. /\ Types /\ ChatIsBare /\ SavesFit /\ TextsFit /\ EditsFit /\ CreationFits
      /\ ListsTogether /\ ListFits
  BY DEF IInv
<1>1. /\ stored' = stored /\ path' = path /\ push' = push /\ creating' = creating
      /\ going' = going /\ typed' = typed /\ acked' = acked /\ blind' = blind
      /\ reopened' = reopened /\ editing' = None /\ intent' = None
      /\ unloaded' = (unloaded /\ view' = "notes") /\ orphaned' = (orphaned /\ view' = "notes")
      /\ view' \in {"chat", "notes"} /\ view \in {"chat", "notes"}
  BY FlushFrame
<1>2. /\ panel' \in PanelRecords /\ PathIsSeen'
      /\ view' = "chat" => panel' = NoPanel
      /\ view' = "notes" /\ view = "chat" => panel'.req = "sent"
      /\ view' = "notes" /\ view = "notes" =>
           panel'.req = panel.req /\ panel'.got = panel.got /\ panel'.list = panel.list
  BY FlushPanel, EmptyRecords
<1>3. /\ editor' \in EditorRecords /\ EditorFits'
      /\ editor' # NoEditor => editor'.saving = editor.saving
      /\ panel'.selected # None =>
           \/ editor'.req = "sent"
           \/ editor' = editor /\ panel'.selected = panel.selected
  BY FlushEditor
<1>4. \A t, u \in saves' : \E s, r \in saves :
        /\ t.note = s.note /\ t.text = s.text
        /\ t.panel = (s.panel /\ view' = "notes")
        /\ t.editor = (s.editor /\ editor' # NoEditor)
        /\ u.note = r.note /\ u.editor = (r.editor /\ editor' # NoEditor)
        /\ s = r => t = u
  BY FlushCalls
<1>5. /\ \A b \in archives' : \E a \in archives :
           b.by = a.by /\ b.panel = (a.panel /\ view' = "notes")
      /\ \A a \in archives : \E b \in archives' :
           b.by = a.by /\ b.panel = (a.panel /\ view' = "notes")
  BY FlushCalls
<1>6. Types'
  <2>1. saves' \subseteq SaveRecords /\ archives' \subseteq ArchiveRecords  BY FlushCalls
  <2>2. preview' \in PreviewRecords /\ attached' \in Seq(Notes)  BY FlushPreview
  <2>3. unloaded' \in BOOLEAN /\ orphaned' \in BOOLEAN  BY <1>1
  <2> QED  BY <1>0, <1>1, <1>2, <1>3, <2>1, <2>2, <2>3 DEF Types
<1>7. SignalWaits'  BY <1>1 DEF SignalWaits
<1>8. ChatIsBare'
  <2>1. SUFFICES ASSUME view' = "chat"  PROVE  ChatIsBare'  BY DEF ChatIsBare
  <2>2. \A t \in saves' : ~ t.panel  BY <1>4, <2>1
  <2>3. \A b \in archives' : ~ b.panel  BY <1>5, <2>1
  <2> QED  BY <1>2, <2>1, <2>2, <2>3 DEF ChatIsBare
<1>9. SavesFit'
  <2>1. \A t \in saves' : t.editor => editor'.saving  BY <1>0, <1>3, <1>4 DEF SavesFit
  <2>2. \A t, u \in saves' : t.editor /\ u.editor => t = u  BY <1>0, <1>4 DEF SavesFit
  <2> QED  BY <2>1, <2>2 DEF SavesFit
<1>10. /\ Reads' => Reads /\ editor' = editor /\ panel'.selected = panel.selected
       /\ Loaded' => Loaded /\ editor' = editor /\ panel'.selected = panel.selected
  BY <1>3 DEF Reads, Loaded
<1>11. TextsFit'
  <2>1. SUFFICES ASSUME ~ blind  PROVE  TextsFit'  BY <1>1 DEF TextsFit
  <2>2. \A t \in saves' : t.text.of = t.note  BY <1>0, <1>4, <2>1 DEF TextsFit
  <2> QED  BY <1>0, <1>1, <1>10, <2>1, <2>2 DEF TextsFit
<1>12. EditsFit'
  <2>1. SUFFICES ASSUME ~ blind, ~ reopened  PROVE  EditsFit'  BY <1>1 DEF EditsFit
  <2>2. \A t \in saves' : acked[t.note] \subseteq t.text.edits  BY <1>0, <1>4, <2>1 DEF EditsFit
  <2>3. \A t, u \in saves' : t.note = u.note => t = u  BY <1>0, <1>4, <2>1 DEF EditsFit
  <2>4. Reads' => /\ acked[panel'.selected] \subseteq editor'.got.edits
                  /\ \A t \in saves' : t.note # panel'.selected
    BY <1>0, <1>4, <1>10, <2>1 DEF EditsFit
  <2>5. Loaded' => /\ acked[panel'.selected] \subseteq editor'.text.edits
                   /\ \A t \in saves' : t.note = panel'.selected =>
                        t.editor /\ t.text.edits \subseteq editor'.text.edits
    <3>1. SUFFICES ASSUME Loaded'
                   PROVE  /\ acked[panel.selected] \subseteq editor.text.edits
                          /\ \A t \in saves' : t.note = panel.selected =>
                               t.editor /\ t.text.edits \subseteq editor.text.edits
      BY <1>10
    <3>2. /\ acked[panel.selected] \subseteq editor.text.edits
          /\ \A s \in saves : s.note = panel.selected =>
               s.editor /\ s.text.edits \subseteq editor.text.edits
      BY <1>0, <1>10, <2>1, <3>1 DEF EditsFit
    <3>3. \A s \in saves : s.editor => editor' # NoEditor
      BY <1>0, <1>10, <3>1, EmptyRecords DEF SavesFit
    <3>4. ASSUME NEW t \in saves', t.note = panel.selected
          PROVE  t.editor /\ t.text.edits \subseteq editor.text.edits
      <4>1. PICK s \in saves : /\ t.note = s.note /\ t.text = s.text
                               /\ t.editor = (s.editor /\ editor' # NoEditor)
        BY <1>4
      <4> QED  BY <3>2, <3>3, <3>4, <4>1
    <3> QED  BY <3>2, <3>4
  <2> QED  BY <1>0, <1>1, <2>1, <2>2, <2>3, <2>4, <2>5 DEF EditsFit
<1>13. CreationFits'  BY <1>0, <1>1 DEF CreationFits
<1>14. ListsTogether'  BY <1>0, <1>5 DEF ListsTogether
<1>15. ListFits'
  <2>1. SUFFICES ASSUME view' = "notes", view = "notes", ~ unloaded, ~ orphaned
                 PROVE  ListFits'
    BY <1>1, <1>2 DEF ListFits
  <2>2. ListWaits => ListWaits'  BY <1>5, <2>1 DEF ListWaits
  <2> QED  BY <1>0, <1>1, <1>2, <2>1, <2>2 DEF ListFits
<1>16. PreviewFits'  BY FlushPreview
<1> QED
  BY <1>2, <1>3, <1>6, <1>7, <1>8, <1>9, <1>11, <1>12, <1>13, <1>14, <1>15, <1>16 DEF IInv

-----------------------------------------------------------------------------
(* The theorems. *)

\* The invariant holds at first: the chat is shown and nothing is under way.
LEMMA InitInv ==
  ASSUME Init
  PROVE  IInv
<1>1. /\ panel = NoPanel /\ editor = NoEditor /\ preview = NoPreview /\ attached = <<>>
      /\ path = "chat" /\ push = None /\ view = "chat" /\ editing = None /\ intent = None
      /\ saves = {} /\ archives = {} /\ creating = None /\ going = None /\ typed = 0
      /\ blind = FALSE /\ reopened = FALSE /\ unloaded = FALSE /\ orphaned = FALSE
  BY DEF Init
<1>2. /\ stored \in Stored /\ acked \in [Notes -> SUBSET Edits]
      /\ \A n \in Notes : acked[n] = {}
      /\ \A n \in Notes : stored[n] # None => stored[n].of = n
  <2>1. \A n \in Notes : [of |-> n, edits |-> {}] \in Texts /\ [of |-> n, edits |-> {}].of = n
    BY DEF Texts
  <2>2. stored = [n \in Notes |-> IF n \in Existing THEN [of |-> n, edits |-> {}] ELSE None]
    BY DEF Init
  <2>3. acked = [n \in Notes |-> {}]  BY DEF Init
  <2>4. \A n \in Notes :
             stored[n] \in Texts \cup {None} /\ (stored[n] # None => stored[n].of = n)
    BY <2>1, <2>2
  <2>5. stored \in Stored
    <3>1. stored = [n \in Notes |-> stored[n]]  BY <2>2
    <3> QED  BY <2>4, <3>1 DEF Stored
  <2> QED  BY <2>3, <2>4, <2>5
<1>3. Types
  <2>1. <<>> \in Seq(Notes)  OBVIOUS
  <2>2. path \in Paths  BY <1>1, AddressFacts
  <2> QED  BY <1>1, <1>2, <2>1, <2>2, EmptyRecords DEF Types
<1>4. SignalWaits /\ PathIsSeen /\ ChatIsBare /\ EditorFits /\ SavesFit
  BY <1>1, EmptyRecords DEF SignalWaits, PathIsSeen, ChatIsBare, EditorFits, SavesFit
<1>5. TextsFit /\ EditsFit
  BY <1>1, <1>2, EmptyRecords DEF TextsFit, EditsFit, Reads, Loaded
<1>6. CreationFits /\ ListsTogether /\ ListFits /\ PreviewFits
  BY <1>1, EmptyRecords DEF CreationFits, ListsTogether, ListFits, PreviewFits
<1> QED  BY <1>3, <1>4, <1>5, <1>6 DEF IInv

\* A step that changes nothing keeps the invariant.
LEMMA StutterInv ==
  ASSUME IInv, UNCHANGED vars
  PROVE  IInv'
<1>1. /\ stored' = stored /\ path' = path /\ push' = push /\ view' = view
      /\ editing' = editing /\ intent' = intent /\ panel' = panel /\ editor' = editor
      /\ preview' = preview /\ attached' = attached /\ saves' = saves /\ archives' = archives
      /\ creating' = creating /\ going' = going /\ typed' = typed /\ acked' = acked
      /\ blind' = blind /\ reopened' = reopened /\ unloaded' = unloaded /\ orphaned' = orphaned
  BY DEF vars, address, signals, beside, waiting, bounds, history
<1>2. Types' /\ SignalWaits' /\ PathIsSeen' /\ ChatIsBare'
  BY <1>1 DEF IInv, Types, SignalWaits, PathIsSeen, ChatIsBare, IdIn
<1>3. EditorFits' /\ SavesFit' /\ TextsFit' /\ EditsFit'
  BY <1>1, TextsStay DEF IInv
<1>4. CreationFits' /\ ListsTogether' /\ ListFits' /\ PreviewFits'
  BY <1>1, CreationStays, ListStays, PreviewStays DEF IInv
<1> QED  BY <1>2, <1>3, <1>4 DEF IInv

\* Every event of the user keeps the invariant.
LEMMA EventInv ==
  ASSUME IInv, UserEvent
  PROVE  IInv'
BY VisitStep, OpenCardStep, ChooseStep, RefreshStep, CreateNoteStep, ArchiveChosenStep,
   TypeStep, SaveStep, DeleteStep, BackStep, GoToChatStep, PickStep, RemoveStep,
   NavigateStep, ClearPreviewStep, PencilStep
   DEF UserEvent

\* Every answer keeps the invariant.
LEMMA AnswerInv ==
  ASSUME IInv, Answer
  PROVE  IInv'
<1>1. CASE \E s \in saves : SaveLands(s) \/ SaveFails(s)
  BY <1>1, SaveLandsStep, SaveFailsStep
<1>2. CASE \E a \in archives : ArchiveLands(a) \/ ArchiveFails(a)
  BY <1>2, ArchiveLandsStep, ArchiveFailsStep
<1>3. CASE \/ ListRead \/ ListArrives \/ ListFails \/ NoteRead \/ NoteArrives \/ NoteFails
           \/ PreviewRead \/ PreviewArrives \/ GoToChatAnswered \/ CreateLands
           \/ CreateFails
  BY <1>3, ListReadStep, ListArrivesStep, ListFailsStep, NoteReadStep, NoteArrivesStep,
     NoteFailsStep, PreviewReadStep, PreviewArrivesStep, GoToChatAnsweredStep, CreateLandsStep,
     CreateFailsStep
<1> QED  BY <1>1, <1>2, <1>3 DEF Answer

\* The invariant holds in every state of the desk.
THEOREM Invariance == Spec => []IInv
<1>1. Init => IInv  BY InitInv
<1>2. IInv /\ [Next]_vars => IInv'
  BY StutterInv, FlushStep, LandStep, EventInv, AnswerInv DEF Next
<1> QED  BY <1>1, <1>2, PTL DEF Spec

\* Every variable keeps its type.
THEOREM TypeCorrect == Spec => []TypeOK
<1>1. IInv => TypeOK
  <2>1. SUFFICES ASSUME IInv  PROVE  TypeOK  OBVIOUS
  <2>2. Types  BY <2>1 DEF IInv
  <2>3. panel \in PanelRecords /\ editor \in EditorRecords /\ preview \in PreviewRecords
    BY <2>2 DEF Types
  <2>4. {editing, intent, panel.selected, creating, going, preview.id, preview.doc}
           \subseteq Notes \cup {None}
    BY <2>2, <2>3, PanelTypes, PreviewTypes DEF Types
  <2>5. {panel.req, editor.req, preview.req} \subseteq {"none", "sent", "read"}
    BY <2>3, PanelTypes, PreviewTypes, EditorTypes DEF Asked
  <2>6. editor.text \in Texts \cup {None} /\ panel.chosen \subseteq Notes
    BY <2>3, PanelTypes, EditorTypes
  <2>7. /\ \A s \in saves : s.note \in Notes /\ s.text \in Texts
        /\ \A a \in archives : a.note \in Notes /\ a.by \in {"editor", "list", "nobody"}
    BY <2>2, CallTypes DEF Types
  <2> QED  BY <2>2, <2>4, <2>5, <2>6, <2>7 DEF TypeOK, Types, Stored
<1> QED  BY <1>1, Invariance, PTL

\* No text is stored under another note and no edit the user was told is saved is lost,
\* unless a save followed a load that had failed or the note was opened during a save
\* of it (onSave, useAsyncState).
THEOREM TextsAreSafe == Spec => []TextsAreKept
<1>1. IInv => TextsAreKept  BY DEF IInv, TextsFit, EditsFit, TextsAreKept, Live
<1> QED  BY <1>1, Invariance, PTL

\* What is shown is what the server holds, whenever nothing is under way and nothing
\* failed (useAsyncState, reload, DocumentPreviewView).
THEOREM ShownIsSafe == Spec => []ShownIsCurrent
<1>1. IInv => ListIsCurrent  BY DEF IInv, ListFits, ListWaits, ListIsCurrent
<1>2. IInv => PreviewIsCurrent  BY DEF IInv, PreviewFits, PreviewIsCurrent
<1> QED  BY <1>1, <1>2, Invariance, PTL DEF ShownIsCurrent

\* The view and the note in the editor are the address's once the effects have run
\* (ChatLayout, NotesPanel).
THEOREM AddressIsSafe == Spec => []AddressRules
<1>1. IInv => AddressRules
  <2>1. SUFFICES ASSUME IInv, Settled  PROVE  AddressRules  BY DEF AddressRules
  <2>2. path \in Paths /\ path # None  BY <2>1, AddressFacts DEF IInv, Types
  <2>3. view = "notes" => panel.selected = IdIn(path)
    BY <2>1, <2>2 DEF IInv, PathIsSeen, Settled
  <2>4. view = "chat" => panel = NoPanel /\ editor = NoEditor
    BY <2>1, EmptyRecords DEF IInv, ChatIsBare, EditorFits
  <2> QED  BY <2>1, <2>3, <2>4 DEF AddressRules, Settled
<1> QED  BY <1>1, Invariance, PTL

-----------------------------------------------------------------------------
(* Account: the session, the settings page and the agents' memory. *)

Tokens == {"none", "fresh", "expired"}

CallRecords ==
  [pc : {"idle", "sent", "served", "answered", "refused", "waiting", "failed"},
   op : {"none", "load"} \cup Fields, text : SUBSET Lines, token : Tokens,
   retried : BOOLEAN, heard : BOOLEAN, form : BOOLEAN, got : Portraits]

FormRecords ==
  [alive : BOOLEAN, loading : BOOLEAN, text : Portraits, saved : Portraits,
   saving : SUBSET Fields, typed : Portraits, outdated : BOOLEAN]

AccountTypes ==
  /\ portrait \in Portraits /\ told \in Portraits
  /\ cookie \in Tokens /\ page \in {"login", "app"}
  /\ session \in BOOLEAN /\ leaving \in BOOLEAN
  /\ crossed \in BOOLEAN /\ kept \in BOOLEAN /\ ended \in BOOLEAN
  /\ together \in BOOLEAN /\ behind \in BOOLEAN /\ swept \in BOOLEAN /\ troubled \in BOOLEAN
  /\ refresh \in [pc : {"none", "sent", "ok", "failed"}, token : Tokens]
  /\ call \in [Calls -> CallRecords]
  /\ form \in FormRecords
  /\ agent \in [Agents -> [pc : {"idle", "read", "done"}, got : SUBSET Lines]]
  /\ lines \in 0 .. MaxLines

Saving(c, f) == call[c].form /\ call[c].op = f

\* The form is there only with a session; while it loads its fields are empty and none
\* of them is saved.
FormNeedsSession ==
  /\ form.alive => session
  /\ ~ form.alive => form = NoForm
  /\ form.loading => /\ form.text = Empty /\ form.saved = Empty /\ form.typed = Empty
                     /\ form.saving = {}

\* A request that is not under way has left nothing.
IdleIsEmpty == \A c \in Calls : IF Idle(c) THEN call[c] = NoCall ELSE call[c].op # "none"

\* The requests of the form are under way and heard: at most one for the load, which
\* disables the form, and one for each field.
FormHearsCalls ==
  \A c \in Calls : call[c].form =>
    /\ form.alive /\ call[c].heard /\ ~ Idle(c)
    /\ call[c].op = "load" => form.loading
OneRequestEach ==
  \A c, d \in Calls : call[c].form /\ call[d].form /\ call[c].op = call[d].op => c = d

\* A field is disabled exactly while it is saved.
SavingIsShown == \A f \in Fields : f \in form.saving <=> \E c \in Calls : Saving(c, f)

FormOwnsCalls ==
  FormNeedsSession /\ IdleIsEmpty /\ FormHearsCalls /\ OneRequestEach /\ SavingIsShown

\* After a logout that met no refresh: no session, a cookie only if the request
\* failed, and then nobody to use it; a refresh started since holds no token.
LogoutLasts ==
  last = "out" /\ ~ crossed =>
    /\ ~ session
    /\ cookie # "none" => kept
    /\ kept => \A c \in Calls : Idle(c)
    /\ refresh # NoRefresh => refresh.token = "none" /\ refresh.pc # "ok"

LoginLasts == last = "in" /\ ~ session => ended

\* A line that was not typed yet is nowhere.
UntypedIsNowhere ==
  \A n \in 1 .. MaxLines : n > lines =>
    /\ \A f \in Fields : n \notin portrait[f] /\ n \notin form.text[f] /\ n \notin form.saved[f]
    /\ \A c \in Calls : n \notin call[c].text /\ \A f \in Fields : n \notin call[c].got[f]
    /\ \A a \in Agents : n \notin agent[a].got

\* Unless an edit was swept away: what is typed and not saved is in the form and not
\* in its baseline; a form saves one field at a time, and the other one is clean.
EditsArePending ==
  ~ swept =>
    /\ \A f \in Fields : form.typed[f] \subseteq form.text[f]
    /\ \A f \in Fields : form.typed[f] \cap form.saved[f] = {}
    /\ \A c \in Calls, f \in Fields : Saving(c, f) =>
         /\ Dirty(f) /\ form.text[f] = call[c].text
         /\ Other(f) \notin form.saving /\ form.typed[Other(f)] = {}

\* Unless requests overlapped or failed: one request at a time, and of this form when
\* there is one; its answer, like the form's baseline, is what the server holds or an
\* agent wrote since.
AnswersAreStored ==
  ~ troubled =>
    /\ \A c, d \in Calls : ~ Idle(c) /\ ~ Idle(d) => c = d
    /\ \A c \in Calls :
         /\ call[c].pc # "failed"
         /\ ~ Idle(c) /\ form.alive => call[c].form
         /\ call[c].pc = "answered" /\ call[c].form => call[c].got = portrait \/ form.outdated
    /\ BaselineIsStored

\* Unless two writes of a field overlapped: who writes it does so alone, and an agent
\* knows what it replaces.
WritersAreAlone ==
  ~ together =>
    /\ \A c, d \in Calls, f \in Fields : c \in Saves(f) /\ d \in Saves(f) => c = d
    /\ \A a, b \in Reading : a = b
    /\ \A a \in Reading : Saves("mutable") = {} /\ agent[a].got = portrait["mutable"]

\* With every write alone and from the current text: a save holds all that was told,
\* and what it holds is stored once it is served.
WritesAreWhole ==
  ~ (together \/ behind \/ swept) =>
    /\ \A f \in Fields : told[f] \subseteq portrait[f]
    /\ \A f \in Fields : form.saved[f] \subseteq form.text[f]
    /\ \A f \in Fields : \A c \in Saves(f) :
         /\ call[c].pc \in {"sent", "refused", "waiting"} => told[f] \subseteq call[c].text
         /\ call[c].pc \in {"served", "answered"} => call[c].text = portrait[f]
         /\ call[c].pc = "answered" => call[c].got[f] = portrait[f]

AccountInv ==
  /\ AccountTypes
  /\ FormOwnsCalls
  /\ LogoutLasts
  /\ LoginLasts
  /\ UntypedIsNowhere
  /\ EditsArePending
  /\ AnswersAreStored
  /\ WritersAreAlone
  /\ WritesAreWhole
-----------------------------------------------------------------------------
\* The two fields of the portrait.
LEMMA OtherField ==
  \A f \in Fields :
    Other(f) \in Fields /\ Other(f) # f /\ Other(Other(f)) = f /\ Fields = {f, Other(f)}
  BY DEF Other, Fields

\* The bound on the lines, and who else owns one.
LEMMA LinesAreNumbers == MaxLines \in Nat /\ Agents \cap (1 .. MaxLines) = {}
  BY AccountAssumption

\* Setting one request.
LEMMA SetCallIsLocal ==
  ASSUME call \in [Calls -> CallRecords], NEW c \in Calls, NEW r \in CallRecords, SetCall(c, r)
  PROVE  /\ call' \in [Calls -> CallRecords] /\ call'[c] = r
         /\ \A d \in Calls \ {c} : call'[d] = call[d]
  BY DEF SetCall

LEMMA CallToIsLocal ==
  ASSUME call \in [Calls -> CallRecords], NEW c \in Calls, NEW p \in {"sent", "served",
     "answered", "refused", "waiting", "failed"},
         CallTo(c, p)
  PROVE  /\ call' \in [Calls -> CallRecords]
         /\ call'[c] = [call[c] EXCEPT !.pc = p]
         /\ \A d \in Calls \ {c} : call'[d] = call[d]
  BY DEF CallTo, SetCall, CallRecords

\* The values that stand for nothing have their types.
LEMMA Nothing == Empty \in Portraits /\ NoCall \in CallRecords /\ NoForm \in FormRecords
  BY DEF Empty, NoCall, NoForm, Portraits, CallRecords, FormRecords, Tokens

\* Clearing a flag that is not set.
LEMMA ClearedFlags ==
  /\ \A r \in CallRecords : ~ r.form => [r EXCEPT !.form = FALSE] = r
  /\ \A r \in FormRecords : ~ r.outdated => [r EXCEPT !.outdated = FALSE] = r
  /\ ~ NoCall.form /\ NoCall.pc = "idle" /\ ~ NoForm.outdated /\ ~ NoForm.alive
  /\ NoRefresh.pc = "none"
  BY DEF CallRecords, FormRecords, NoCall, NoForm, NoRefresh

\* Unmounting the form leaves every request but for its flag.
LEMMA UnmountedIsTyped ==
  call \in [Calls -> CallRecords] => Unmounted \in [Calls -> CallRecords]
  BY DEF Unmounted, CallRecords

\* Every step keeps the types.
LEMMA TypesStep ==
  AccountInv /\ [AccountNext]_accountVars => AccountTypes'
<1> SUFFICES ASSUME AccountInv, [AccountNext]_accountVars PROVE AccountTypes'
  OBVIOUS
<1> USE AccountAssumption, Nothing DEF AccountInv, AccountTypes, store, client, spent, signed,
  written
<1>1. CASE Login
  BY <1>1 DEF Login, User
<1>2. CASE Logout
  BY <1>2 DEF Logout, User
<1>3. CASE ServeSign
  BY <1>3 DEF ServeSign, Failure
<1>4. CASE LoginAnswered
  <2>1. cookie' \in Tokens /\ session' \in BOOLEAN
    BY <1>4 DEF LoginAnswered, Tokens
  <2>2. crossed' \in BOOLEAN /\ kept' \in BOOLEAN /\ ended' \in BOOLEAN
    BY <1>4 DEF LoginAnswered
  <2> QED
    BY <1>4, <2>1, <2>2 DEF LoginAnswered
<1>5. CASE LogoutAnswered
  BY <1>5, UnmountedIsTyped DEF LogoutAnswered, Tokens
<1>6. CASE Redirect
  BY <1>6 DEF Redirect
<1>7. CASE Reload
  <2>1. call' \in [Calls -> CallRecords]
    BY <1>7 DEF Reload, CallRecords
  <2>2. form' \in FormRecords
    BY <1>7 DEF Reload, Tokens, NoRefresh
  <2>3. portrait' \in Portraits /\ told' \in Portraits
    BY <1>7 DEF Reload, Tokens, NoRefresh
  <2> QED
    BY <1>7, <2>1, <2>2, <2>3 DEF Reload, Tokens, NoRefresh
<1>8. CASE Expire
  <2>1. call' \in [Calls -> CallRecords]
    BY <1>8 DEF Expire, CallRecords, Tokens
  <2>2. form' \in FormRecords
    BY <1>8 DEF Expire, Tokens
  <2>3. portrait' \in Portraits /\ told' \in Portraits
    BY <1>8 DEF Expire, Tokens
  <2> QED
    BY <1>8, <2>1, <2>2, <2>3 DEF Expire, Tokens
<1>9. CASE ServeRefresh
  BY <1>9 DEF ServeRefresh, Failure
<1>10. CASE Refreshed
  <2>1. call' \in [Calls -> CallRecords]
    BY <1>10 DEF Refreshed, CallRecords, Tokens, Waiting
  <2>2. form' \in FormRecords
    BY <1>10 DEF Refreshed, Tokens, NoRefresh
  <2>3. portrait' \in Portraits /\ told' \in Portraits
    BY <1>10 DEF Refreshed, Tokens, NoRefresh
  <2> QED
    BY <1>10, <2>1, <2>2, <2>3 DEF Refreshed, Tokens, NoRefresh
<1>11. CASE RefreshFailed
  <2>1. call' \in [Calls -> CallRecords]
    BY <1>11, UnmountedIsTyped DEF RefreshFailed, Tokens, NoRefresh
  <2>2. form' \in FormRecords
    BY <1>11 DEF RefreshFailed, Tokens, NoRefresh
  <2>3. portrait' \in Portraits /\ told' \in Portraits
    BY <1>11 DEF RefreshFailed, Tokens, NoRefresh
  <2> QED
    BY <1>11, <2>1, <2>2, <2>3 DEF RefreshFailed, Tokens, NoRefresh
<1>12. CASE CloseSettings
  BY <1>12, UnmountedIsTyped DEF CloseSettings, User
<1>13. ASSUME NEW f \in Fields, Edit(f) PROVE AccountTypes'
  <2>1. lines' \in 0 .. MaxLines /\ lines' \in Lines
    BY <1>13 DEF Edit, Lines
  <2>2. [form.text EXCEPT ![f] = @ \cup {lines'}] \in Portraits
    BY <2>1 DEF FormRecords, Portraits
  <2>3. [form.typed EXCEPT ![f] = @ \cup {lines'}] \in Portraits
    BY <2>1 DEF FormRecords, Portraits
  <2>4. form' \in FormRecords
    BY <1>13, <2>2, <2>3 DEF Edit, FormRecords
  <2>5. swept' \in BOOLEAN
    BY <1>13 DEF Edit
  <2> QED
    BY <1>13, <2>1, <2>4, <2>5 DEF Edit
<1>14. ASSUME NEW c \in Calls, Serve(c) PROVE AccountTypes'
  <2>1. call' \in [Calls -> CallRecords]
    BY <1>14, CallToIsLocal DEF Serve
  <2>2. form' \in FormRecords
    BY <1>14 DEF Serve
  <2>3. portrait' \in Portraits /\ told' \in Portraits
    BY <1>14 DEF Serve, Written, Portraits, CallRecords
  <2> QED
    BY <1>14, <2>1, <2>2, <2>3 DEF Serve
<1>15. ASSUME NEW c \in Calls, ReadBack(c) PROVE AccountTypes'
  <2>1. call' \in [Calls -> CallRecords]
    BY <1>15, SetCallIsLocal DEF ReadBack, CallRecords
  <2>2. form' \in FormRecords
    BY <1>15 DEF ReadBack, FormRecords, CallRecords
  <2>3. portrait' \in Portraits /\ told' \in Portraits
    BY <1>15 DEF ReadBack
  <2> QED
    BY <1>15, <2>1, <2>2, <2>3 DEF ReadBack
<1>16. ASSUME NEW c \in Calls, Break(c) PROVE AccountTypes'
  <2>1. call' \in [Calls -> CallRecords]
    BY <1>16, CallToIsLocal DEF Break
  <2>2. form' \in FormRecords
    BY <1>16 DEF Break
  <2>3. portrait' \in Portraits /\ told' \in Portraits
    BY <1>16 DEF Break
  <2> QED
    BY <1>16, <2>1, <2>2, <2>3 DEF Break
<1>17. ASSUME NEW c \in Calls, Refused(c) PROVE AccountTypes'
  <2>1. call' \in [Calls -> CallRecords]
    BY <1>17, CallToIsLocal DEF Refused
  <2>2. form' \in FormRecords
    BY <1>17 DEF Refused
  <2>3. portrait' \in Portraits /\ told' \in Portraits
    BY <1>17 DEF Refused
  <2> QED
    BY <1>17, <2>1, <2>2, <2>3 DEF Refused
<1>18. ASSUME NEW c \in Calls, Unheard(c) PROVE AccountTypes'
  <2>1. call' \in [Calls -> CallRecords]
    BY <1>18, SetCallIsLocal DEF Unheard
  <2>2. form' \in FormRecords
    BY <1>18 DEF Unheard
  <2>3. portrait' \in Portraits /\ told' \in Portraits
    BY <1>18 DEF Unheard
  <2> QED
    BY <1>18, <2>1, <2>2, <2>3 DEF Unheard
<1>19. ASSUME NEW c \in Calls, OpenSettings(c) PROVE AccountTypes'
  <2>1. call' \in [Calls -> CallRecords]
    BY <1>19 DEF OpenSettings, Begin, SetCall, CallRecords
  <2>2. form' \in FormRecords
    BY <1>19 DEF OpenSettings, FormRecords, NoForm
  <2>3. portrait' \in Portraits /\ told' \in Portraits
    BY <1>19 DEF OpenSettings, Begin
  <2> QED
    BY <1>19, <2>1, <2>2, <2>3 DEF OpenSettings, Begin
<1>20. ASSUME NEW c \in Calls, Answered(c) PROVE AccountTypes'
  <2>1. call' \in [Calls -> CallRecords]
    BY <1>20, SetCallIsLocal DEF Answered
  <2>2. form' \in FormRecords
    <3>1. LoadedForm(c) \in FormRecords
      BY DEF LoadedForm, FormRecords, CallRecords
    <3>2. ASSUME NEW f \in Fields PROVE Saved(c, f) \in FormRecords
      <4>1. [form.typed EXCEPT ![f] = {}] \in Portraits
        BY DEF FormRecords, Portraits
      <4>2. [form.text EXCEPT ![Other(f)] = call[c].got[Other(f)]] \in Portraits
        BY OtherField DEF FormRecords, CallRecords, Portraits
      <4> QED
        BY <4>1, <4>2 DEF Saved, FormRecords, CallRecords
    <3>3. call[c].op = "load" \/ call[c].op \in Fields
      BY <1>20 DEF Answered, CallRecords, FormOwnsCalls, IdleIsEmpty, Idle
    <3> QED
      BY <1>20, <3>1, <3>2, <3>3 DEF Answered
  <2>3. portrait' \in Portraits /\ told' \in Portraits
    BY <1>20 DEF Answered, CallRecords, Portraits
  <2> QED
    BY <1>20, <2>1, <2>2, <2>3 DEF Answered
<1>21. ASSUME NEW c \in Calls, Failed(c) PROVE AccountTypes'
  <2>1. call' \in [Calls -> CallRecords]
    BY <1>21, SetCallIsLocal DEF Failed
  <2>2. form' \in FormRecords
    BY <1>21 DEF Failed, FormRecords, CallRecords
  <2>3. portrait' \in Portraits /\ told' \in Portraits
    BY <1>21 DEF Failed
  <2> QED
    BY <1>21, <2>1, <2>2, <2>3 DEF Failed
<1>22. ASSUME NEW c \in Calls, NEW f \in Fields, SaveField(c, f) PROVE AccountTypes'
  <2>1. call' \in [Calls -> CallRecords]
    BY <1>22 DEF SaveField, Begin, SetCall, CallRecords, FormRecords, Portraits, NoCall
  <2>2. form' \in FormRecords
    BY <1>22 DEF SaveField, FormRecords
  <2>3. portrait' \in Portraits /\ told' \in Portraits
    BY <1>22 DEF SaveField, Begin
  <2> QED
    BY <1>22, <2>1, <2>2, <2>3 DEF SaveField, Begin
<1>23. ASSUME NEW a \in Agents, AgentRead(a) PROVE AccountTypes'
  BY <1>23 DEF AgentRead, Portraits, Fields
<1>24. ASSUME NEW a \in Agents, AgentWrite(a) PROVE AccountTypes'
  <2>1. a \in Lines /\ agent[a].got \subseteq Lines
    BY DEF Lines
  <2>2. PICK old \in {agent[a].got, {}} :
          /\ portrait' = [portrait EXCEPT !["mutable"] = old \cup {a}]
          /\ told' = [told EXCEPT !["mutable"] = IF old = {} THEN {a} ELSE @ \cup {a}]
    BY <1>24 DEF AgentWrite
  <2>3. portrait' \in Portraits /\ told' \in Portraits
    BY <2>1, <2>2 DEF Portraits, Fields
  <2>4. form' \in FormRecords
    BY <1>24 DEF AgentWrite, FormRecords
  <2>5. agent' \in [Agents -> [pc : {"idle", "read", "done"}, got : SUBSET Lines]]
    BY <1>24 DEF AgentWrite
  <2> QED
    BY <1>24, <2>3, <2>4, <2>5 DEF AgentWrite
<1>25. CASE UNCHANGED accountVars
  BY <1>25 DEF accountVars
<1> QED
  BY <1>1, <1>2, <1>3, <1>4, <1>5, <1>6, <1>7, <1>8, <1>9, <1>10, <1>11, <1>12, <1>13, <1>14,
     <1>15, <1>16, <1>17, <1>18, <1>19, <1>20, <1>21, <1>22, <1>23, <1>24, <1>25 DEF AccountNext
-----------------------------------------------------------------------------
(* What the actions do to the requests, whatever else they change. *)

\* Requests go on: nothing but pc, token, retried and got changes.
CallsGoOn ==
  \A d \in Calls :
    /\ Idle(d)' <=> Idle(d)
    /\ Idle(d) => call'[d] = call[d]
    /\ call'[d].op = call[d].op /\ call'[d].text = call[d].text
    /\ call'[d].heard = call[d].heard /\ call'[d].form = call[d].form

\* The form is gone: requests end or go on without it.
CallsLoseForm ==
  /\ form' = NoForm
  /\ \A d \in Calls :
       \/ call'[d] = NoCall
       \/ /\ ~ Idle(d) /\ call'[d].pc = call[d].pc
          /\ call'[d].op = call[d].op /\ call'[d].text = call[d].text
          /\ call'[d].got = call[d].got /\ ~ call'[d].form

CallEnds(c) == call'[c] = NoCall /\ \A d \in Calls \ {c} : call'[d] = call[d]

CallBegins(c, op, text) ==
  /\ Idle(c) /\ call'[c].pc = "sent" /\ call'[c].op = op /\ call'[c].text = text
  /\ call'[c].heard /\ call'[c].form /\ call'[c].got = Empty
  /\ \A d \in Calls \ {c} : call'[d] = call[d]

LEMMA GoOnSteps ==
  ASSUME AccountTypes, IdleIsEmpty,
         \/ Expire \/ Refreshed
         \/ \E c \in Calls : Serve(c) \/ ReadBack(c) \/ Break(c) \/ Refused(c)
  PROVE  CallsGoOn
<1> USE DEF AccountTypes, CallsGoOn, Idle
<1>1. CASE Expire
  BY <1>1 DEF Expire, CallRecords, IdleIsEmpty, NoCall
<1>2. CASE Refreshed
  BY <1>2 DEF Refreshed, Waiting, CallRecords
<1>3. ASSUME NEW c \in Calls, Serve(c) PROVE CallsGoOn
  BY <1>3 DEF Serve, CallTo, SetCall, CallRecords
<1>4. ASSUME NEW c \in Calls, ReadBack(c) PROVE CallsGoOn
  BY <1>4 DEF ReadBack, SetCall, CallRecords
<1>5. ASSUME NEW c \in Calls, Break(c) PROVE CallsGoOn
  BY <1>5 DEF Break, CallTo, SetCall, CallRecords
<1>6. ASSUME NEW c \in Calls, Refused(c) PROVE CallsGoOn
  BY <1>6 DEF Refused, CallTo, SetCall, CallRecords
<1> QED
  BY <1>1, <1>2, <1>3, <1>4, <1>5, <1>6

\* Only reading the portrait back changes what a request got.
LEMMA AnswersStay ==
  ASSUME AccountTypes, Expire \/ Refreshed \/ \E c \in Calls : Serve(c) \/ Break(c) \/ Refused(c)
  PROVE  \A d \in Calls : call'[d].got = call[d].got
<1> USE DEF AccountTypes
<1>1. CASE Expire
  BY <1>1 DEF Expire, CallRecords
<1>2. CASE Refreshed
  BY <1>2 DEF Refreshed, Waiting, CallRecords
<1>3. ASSUME NEW c \in Calls, Serve(c) \/ Break(c) \/ Refused(c)
      PROVE  \A d \in Calls : call'[d].got = call[d].got
  BY <1>3 DEF Serve, Break, Refused, CallTo, SetCall, CallRecords
<1> QED
  BY <1>1, <1>2, <1>3

LEMMA LoseFormSteps ==
  ASSUME AccountTypes, IdleIsEmpty, LogoutAnswered \/ Reload \/ RefreshFailed \/ CloseSettings
  PROVE  CallsLoseForm
<1> USE DEF AccountTypes, CallsLoseForm
<1>0. \A d \in Calls : Idle(d) => Unmounted[d] = NoCall
  BY ClearedFlags DEF Unmounted, IdleIsEmpty
<1>1. CASE LogoutAnswered
  BY <1>0, <1>1 DEF LogoutAnswered, Unmounted, CallRecords
<1>2. CASE Reload
  BY <1>2 DEF Reload, CallRecords, Idle
<1>3. CASE RefreshFailed
  BY <1>0, <1>3 DEF RefreshFailed, Unmounted, CallRecords
<1>4. CASE CloseSettings
  BY <1>0, <1>4 DEF CloseSettings, Unmounted, CallRecords
<1> QED
  BY <1>1, <1>2, <1>3, <1>4

LEMMA EndSteps ==
  ASSUME AccountTypes, NEW c \in Calls, Unheard(c) \/ Answered(c) \/ Failed(c)
  PROVE  CallEnds(c)
  BY Nothing, SetCallIsLocal DEF AccountTypes, CallEnds, Unheard, Answered, Failed

LEMMA OpenBegins ==
  ASSUME AccountTypes, NEW c \in Calls, OpenSettings(c)
  PROVE  CallBegins(c, "load", {})
  BY DEF AccountTypes, CallBegins, OpenSettings, Begin, SetCall, NoCall, CallRecords

LEMMA SaveBegins ==
  ASSUME AccountTypes, NEW c \in Calls, NEW f \in Fields, SaveField(c, f)
  PROVE  CallBegins(c, f, form.text[f])
  BY DEF AccountTypes, CallBegins, SaveField, Begin, SetCall, NoCall, CallRecords

\* What each of the four effects leaves of the requests of the form.
LEMMA GoOnKeepsForm ==
  ASSUME FormOwnsCalls, CallsGoOn,
         form'.alive = form.alive, form'.loading = form.loading, form'.saving = form.saving
  PROVE  IdleIsEmpty' /\ FormHearsCalls' /\ OneRequestEach' /\ SavingIsShown'
<1> USE DEF CallsGoOn, FormOwnsCalls
<1>1. IdleIsEmpty'
  BY DEF IdleIsEmpty
<1>2. FormHearsCalls'
  BY DEF FormHearsCalls
<1>3. OneRequestEach'
  BY DEF OneRequestEach
<1>4. SavingIsShown'
  BY DEF SavingIsShown, Saving
<1> QED
  BY <1>1, <1>2, <1>3, <1>4

LEMMA LoseFormEndsForm ==
  ASSUME FormOwnsCalls, CallsLoseForm
  PROVE  FormOwnsCalls'
<1> USE DEF CallsLoseForm, NoCall, NoForm
<1>1. FormNeedsSession'
  BY DEF FormNeedsSession
<1>2. IdleIsEmpty'
  <2>1. ASSUME NEW d \in Calls PROVE IF Idle(d)' THEN call'[d] = NoCall ELSE call'[d].op # "none"
    BY ClearedFlags DEF FormOwnsCalls, IdleIsEmpty, Idle
  <2> QED
    BY <2>1 DEF IdleIsEmpty
<1>3. \A d \in Calls : ~ call'[d].form
  OBVIOUS
<1>4. FormHearsCalls' /\ OneRequestEach' /\ SavingIsShown'
  BY <1>3 DEF FormHearsCalls, OneRequestEach, SavingIsShown, Saving
<1> QED
  BY <1>1, <1>2, <1>4 DEF FormOwnsCalls

\* The form may forget the request that ends.
LEMMA EndKeepsForm ==
  ASSUME FormOwnsCalls, NEW c \in Calls, CallEnds(c), form'.alive = form.alive,
         form.loading => form'.loading \/ (call[c].form /\ call[c].op = "load"),
         form'.saving = IF call[c].form THEN form.saving \ {call[c].op} ELSE form.saving
  PROVE  IdleIsEmpty' /\ FormHearsCalls' /\ OneRequestEach' /\ SavingIsShown'
<1> USE DEF CallEnds, NoCall, FormOwnsCalls
<1>1. IdleIsEmpty'
  <2>1. ASSUME NEW d \in Calls PROVE IF Idle(d)' THEN call'[d] = NoCall ELSE call'[d].op # "none"
    <3>1. CASE d = c
      BY <3>1, ClearedFlags DEF Idle
    <3>2. CASE d # c
      BY <3>2 DEF IdleIsEmpty, Idle
    <3> QED
      BY <3>1, <3>2
  <2> QED
    BY <2>1 DEF IdleIsEmpty
<1>2. FormHearsCalls'
  BY DEF FormHearsCalls, OneRequestEach, Idle
<1>3. OneRequestEach'
  BY DEF OneRequestEach
<1>4. ASSUME NEW f \in Fields PROVE f \in form'.saving <=> \E d \in Calls : Saving(d, f)'
  <2>1. CASE Saving(c, f)
    <3>1. f \notin form'.saving
      BY <2>1 DEF Saving
    <3>2. \A d \in Calls : ~ Saving(d, f)'
      BY <2>1 DEF Saving, OneRequestEach
    <3> QED
      BY <3>1, <3>2
  <2>2. CASE ~ Saving(c, f)
    <3>1. f \in form'.saving <=> f \in form.saving
      BY <2>2 DEF Saving
    <3>2. \A d \in Calls : Saving(d, f)' <=> Saving(d, f)
      BY <2>2 DEF Saving
    <3> QED
      BY <3>1, <3>2 DEF SavingIsShown
  <2> QED
    BY <2>1, <2>2
<1>5. SavingIsShown'
  BY <1>4 DEF SavingIsShown
<1> QED
  BY <1>1, <1>2, <1>3, <1>5

LEMMA BeginKeepsForm ==
  ASSUME FormOwnsCalls, NEW c \in Calls, NEW op \in {"load"} \cup Fields, NEW text,
         CallBegins(c, op, text), form'.alive, op = "load" => ~ form.alive /\ form'.loading,
         form'.loading = form.loading \/ op = "load",
         op \notin form.saving, form'.saving = IF op = "load" THEN {} ELSE form.saving \cup {op}
  PROVE  IdleIsEmpty' /\ FormHearsCalls' /\ OneRequestEach' /\ SavingIsShown'
<1> USE DEF CallBegins, FormOwnsCalls, Fields
<1>1. IdleIsEmpty'
  BY DEF IdleIsEmpty, Idle
<1>2. FormHearsCalls'
  BY DEF FormHearsCalls, Idle
<1>3. \A d \in Calls \ {c} : ~ (call[d].form /\ call[d].op = op)
  BY DEF FormHearsCalls, SavingIsShown, Saving
<1>4. OneRequestEach'
  BY <1>3 DEF OneRequestEach
<1>5. ~ call[c].form
  BY DEF FormHearsCalls
<1>6. ASSUME NEW f \in Fields PROVE f \in form'.saving <=> \E d \in Calls : Saving(d, f)'
  <2>1. CASE f = op
    BY <2>1 DEF Saving
  <2>2. CASE f # op
    BY <2>2, <1>5 DEF Saving, SavingIsShown, FormHearsCalls
  <2> QED
    BY <2>1, <2>2
<1>7. SavingIsShown'
  BY <1>6 DEF SavingIsShown
<1> QED
  BY <1>1, <1>2, <1>4, <1>7

\* The requests of the form and the fields it is saving.
LEMMA FormStep ==
  AccountInv /\ [AccountNext]_accountVars => FormOwnsCalls'
<1> SUFFICES ASSUME AccountInv, [AccountNext]_accountVars PROVE FormOwnsCalls'
  OBVIOUS
<1> USE DEF AccountInv
<1>1. CASE \/ Login \/ Logout \/ ServeSign \/ LoginAnswered \/ Redirect \/ ServeRefresh
           \/ (\E a \in Agents : AgentRead(a)) \/ UNCHANGED accountVars
  <2>1. call' = call /\ form' = form /\ (session => session')
    BY <1>1 DEF Login, Logout, ServeSign, LoginAnswered, Redirect, ServeRefresh, AgentRead,
       accountVars, store, client
  <2> QED
    BY <2>1 DEF FormOwnsCalls, FormNeedsSession, IdleIsEmpty, FormHearsCalls, OneRequestEach,
       SavingIsShown, Saving, Idle
<1>2. ASSUME NEW a \in Agents, AgentWrite(a) PROVE FormOwnsCalls'
  <2>1. /\ form'.alive = form.alive /\ form'.loading = form.loading
        /\ form'.saving = form.saving /\ call' = call /\ session' = session
    BY <1>2 DEF AgentWrite, AccountTypes, FormRecords, client
  <2>2. FormNeedsSession'
    <3>1. ~ form.alive => form' = NoForm
      <4>1. ~ form.alive => form' = [form EXCEPT !.outdated = FALSE]
        BY <1>2 DEF AgentWrite, AccountTypes, FormRecords
      <4> QED
        BY <4>1, ClearedFlags DEF FormOwnsCalls, FormNeedsSession, AccountTypes
    <3>2. form'.text = form.text /\ form'.saved = form.saved /\ form'.typed = form.typed
      BY <1>2 DEF AgentWrite, AccountTypes, FormRecords
    <3> QED
      BY <2>1, <3>1, <3>2 DEF FormOwnsCalls, FormNeedsSession
  <2>3. CallsGoOn
    BY <2>1 DEF CallsGoOn, Idle
  <2> QED
    BY <2>1, <2>2, <2>3, GoOnKeepsForm DEF FormOwnsCalls
<1>3. ASSUME NEW f \in Fields, Edit(f) PROVE FormOwnsCalls'
  <2>1. /\ form'.alive = form.alive /\ form'.loading = form.loading
        /\ form'.saving = form.saving /\ form.alive /\ ~ form.loading
        /\ call' = call /\ session' = session
    BY <1>3 DEF Edit, Enabled, AccountTypes, FormRecords, client
  <2>2. FormNeedsSession' /\ CallsGoOn
    BY <2>1 DEF FormOwnsCalls, FormNeedsSession, CallsGoOn, Idle
  <2> QED
    BY <2>1, <2>2, GoOnKeepsForm DEF FormOwnsCalls
<1>4. CASE Expire \/ Refreshed \/ \E c \in Calls : Serve(c) \/ Break(c) \/ Refused(c)
  <2>1. form' = form /\ (session => session')
    <3>1. /\ Expire => form' = form /\ session' = session
          /\ Refreshed => form' = form /\ session' = TRUE
      BY DEF Expire, Refreshed, client
    <3>2. \A c \in Calls :
               Serve(c) \/ Break(c) \/ Refused(c) => form' = form /\ session' = session
      BY DEF Serve, Break, Refused, client
    <3> QED
      BY <1>4, <3>1, <3>2
  <2>2. FormNeedsSession' /\ CallsGoOn
    BY <2>1, <1>4, GoOnSteps DEF FormOwnsCalls, FormNeedsSession
  <2> QED
    BY <2>1, <2>2, GoOnKeepsForm DEF FormOwnsCalls
<1>5. ASSUME NEW c \in Calls, ReadBack(c) PROVE FormOwnsCalls'
  <2>1. /\ form'.alive = form.alive /\ form'.loading = form.loading
        /\ form'.saving = form.saving
    BY <1>5 DEF ReadBack, AccountTypes, FormRecords
  <2>2. FormNeedsSession'
    <3>1. ~ form.alive => form' = NoForm
      <4>1. ~ form.alive => form' = [form EXCEPT !.outdated = FALSE]
        BY <1>5, ClearedFlags DEF ReadBack, FormOwnsCalls, FormNeedsSession
      <4> QED
        BY <4>1, ClearedFlags DEF FormOwnsCalls, FormNeedsSession, AccountTypes
    <3>2. form'.text = form.text /\ form'.saved = form.saved /\ form'.typed = form.typed
      BY <1>5 DEF ReadBack, AccountTypes, FormRecords
    <3> QED
      BY <1>5, <2>1, <3>1, <3>2 DEF ReadBack, client, FormOwnsCalls, FormNeedsSession
  <2>3. CallsGoOn
    BY <1>5, GoOnSteps DEF FormOwnsCalls
  <2> QED
    BY <2>1, <2>2, <2>3, GoOnKeepsForm DEF FormOwnsCalls
<1>6. CASE LogoutAnswered \/ Reload \/ RefreshFailed \/ CloseSettings
  BY <1>6, LoseFormSteps, LoseFormEndsForm DEF FormOwnsCalls
<1>7. ASSUME NEW c \in Calls, Unheard(c) PROVE FormOwnsCalls'
  <2>1. CallEnds(c) /\ form' = form /\ session' = session /\ ~ call[c].heard
    BY <1>7, EndSteps DEF Unheard, client
  <2>2. ~ call[c].form /\ FormNeedsSession'
    BY <2>1 DEF FormOwnsCalls, FormHearsCalls, FormNeedsSession
  <2> QED
    BY <2>1, <2>2, EndKeepsForm DEF FormOwnsCalls
<1>8. ASSUME NEW c \in Calls, Answered(c) PROVE FormOwnsCalls'
  <2>1. CallEnds(c) /\ session' = session
    BY <1>8, EndSteps DEF Answered, client
  <2>2. CASE ~ call[c].form
    <3>1. form' = form /\ FormNeedsSession'
      BY <1>8, <2>1, <2>2 DEF Answered, FormOwnsCalls, FormNeedsSession
    <3> QED
      BY <2>1, <2>2, <3>1, EndKeepsForm DEF FormOwnsCalls
  <2>3. CASE call[c].form /\ call[c].op = "load"
    <3>1. /\ form'.alive = form.alive /\ ~ form'.loading /\ form'.saving = form.saving
          /\ form.alive

        BY <1>8, <2>3
          DEF Answered, LoadedForm, AccountTypes, FormRecords, FormOwnsCalls, FormHearsCalls
    <3>2. form.saving \ {"load"} = form.saving
      BY DEF AccountTypes, FormRecords, Fields
    <3>3. FormNeedsSession'
      BY <2>1, <3>1 DEF FormOwnsCalls, FormNeedsSession
    <3> QED
      BY <2>1, <2>3, <3>1, <3>2, <3>3, EndKeepsForm DEF FormOwnsCalls
  <2>4. CASE call[c].form /\ call[c].op # "load"
    <3>1. call[c].op \in Fields /\ form.alive
      BY <2>4 DEF FormOwnsCalls, IdleIsEmpty, FormHearsCalls, AccountTypes, CallRecords
    <3>2. /\ form'.alive = form.alive /\ form'.loading = form.loading
          /\ form'.saving = form.saving \ {call[c].op}
      BY <1>8, <2>4 DEF Answered, Saved, AccountTypes, FormRecords
    <3>3. ~ form.loading
      BY <2>4, <3>1 DEF FormOwnsCalls, FormNeedsSession, SavingIsShown, Saving
    <3>4. FormNeedsSession'
      BY <2>1, <3>1, <3>2, <3>3 DEF FormOwnsCalls, FormNeedsSession
    <3> QED
      BY <2>1, <2>4, <3>2, <3>4, EndKeepsForm DEF FormOwnsCalls
  <2> QED
    BY <2>2, <2>3, <2>4
<1>9. ASSUME NEW c \in Calls, Failed(c) PROVE FormOwnsCalls'
  <2>1. CallEnds(c) /\ session' = session
    BY <1>9, EndSteps DEF Failed, client
  <2>2. CASE ~ call[c].form
    <3>1. form' = form /\ FormNeedsSession'
      BY <1>9, <2>1, <2>2 DEF Failed, FormOwnsCalls, FormNeedsSession
    <3> QED
      BY <2>1, <2>2, <3>1, EndKeepsForm DEF FormOwnsCalls
  <2>3. CASE call[c].form
    <3>1. /\ form'.alive = form.alive /\ form.alive
          /\ form'.loading = (form.loading /\ call[c].op # "load")
          /\ form'.saving = form.saving \ {call[c].op} /\ form'.text = form.text
          /\ form'.saved = form.saved /\ form'.typed = form.typed
      BY <1>9, <2>3 DEF Failed, AccountTypes, FormRecords, FormOwnsCalls, FormHearsCalls
    <3>2. FormNeedsSession'
      BY <2>1, <3>1 DEF FormOwnsCalls, FormNeedsSession
    <3> QED
      BY <2>1, <2>3, <3>1, <3>2, EndKeepsForm DEF FormOwnsCalls
  <2> QED
    BY <2>2, <2>3
<1>10. ASSUME NEW c \in Calls, OpenSettings(c) PROVE FormOwnsCalls'
  <2>1. CallBegins(c, "load", {}) /\ session' = session /\ session /\ ~ form.alive
    BY <1>10, OpenBegins DEF OpenSettings, client
  <2>2. /\ form'.alive /\ form'.loading /\ form'.saving = {} /\ form'.text = Empty
        /\ form'.saved = Empty /\ form'.typed = Empty
    BY <1>10 DEF OpenSettings, NoForm
  <2>3. "load" \notin form.saving /\ FormNeedsSession'
    BY <2>1, <2>2 DEF FormNeedsSession, AccountTypes, FormRecords, Fields
  <2> QED
    BY <2>1, <2>2, <2>3, BeginKeepsForm DEF FormOwnsCalls
<1>11. ASSUME NEW c \in Calls, NEW f \in Fields, SaveField(c, f) PROVE FormOwnsCalls'
  <2>1. CallBegins(c, f, form.text[f]) /\ session' = session
    BY <1>11, SaveBegins DEF SaveField, client
  <2>2. /\ form'.alive /\ form.alive /\ form'.loading = form.loading
        /\ form'.saving = form.saving \cup {f} /\ f \notin form.saving
        /\ form'.text = form.text /\ form'.saved = form.saved /\ form'.typed = form.typed
    BY <1>11 DEF SaveField, AccountTypes, FormRecords
  <2>3. f # "load" /\ FormNeedsSession'
    BY <1>11, <2>1, <2>2 DEF SaveField, Dirty, Fields, FormOwnsCalls, FormNeedsSession
  <2> QED
    BY <2>1, <2>2, <2>3, BeginKeepsForm DEF FormOwnsCalls
<1> QED
  BY <1>1, <1>2, <1>3, <1>4, <1>5, <1>6, <1>7, <1>8, <1>9, <1>10, <1>11 DEF AccountNext

\* A logout holds, unless it met a refresh.
LEMMA LogoutStep ==
  AccountInv /\ [AccountNext]_accountVars => LogoutLasts'
<1> SUFFICES ASSUME AccountInv, [AccountNext]_accountVars, (last = "out" /\ ~ crossed)' PROVE
      /\ ~ session' /\ (cookie' # "none" => kept')
      /\ kept' => \A c \in Calls : Idle(c)'
      /\ refresh' # NoRefresh => refresh'.token = "none" /\ refresh'.pc # "ok"
  BY DEF LogoutLasts
<1> USE DEF AccountInv, LogoutLasts, store, client, spent, signed, written
<1>1. CASE \/ Login \/ Logout \/ ServeSign \/ Redirect \/ CloseSettings \/ UNCHANGED accountVars
  BY <1>1, LoseFormSteps DEF Login, Logout, ServeSign, Redirect, CloseSettings, accountVars, Idle,
     CallsLoseForm, NoCall, FormOwnsCalls
<1>2. CASE LoginAnswered
  BY <1>2 DEF LoginAnswered, Idle
<1>3. CASE LogoutAnswered
  <2>1. kept' => \A c \in Calls : Idle(c)
    BY <1>3 DEF LogoutAnswered
  <2>2. CallsLoseForm
    BY <1>3, LoseFormSteps DEF FormOwnsCalls
  <2> QED
    BY <1>3, <2>1, <2>2, ClearedFlags DEF LogoutAnswered, CallsLoseForm, Idle
<1>4. CASE Reload
  <2>1. CallsLoseForm
    BY <1>4, LoseFormSteps DEF FormOwnsCalls
  <2> QED
    BY <1>4, <2>1, ClearedFlags DEF Reload, CallsLoseForm, Idle, NoRefresh
<1>5. CASE Expire
  <2>1. cookie # "none" /\ CallsGoOn
    BY <1>5, GoOnSteps DEF Expire, FormOwnsCalls
  <2> QED
    BY <1>5, <2>1 DEF Expire, CallsGoOn
<1>6. CASE ServeRefresh
  <2>1. refresh # NoRefresh
    BY <1>6 DEF ServeRefresh, NoRefresh
  <2> QED
    BY <1>6, <2>1 DEF ServeRefresh, Idle, AccountTypes
<1>7. CASE Refreshed
  <2>1. refresh # NoRefresh /\ refresh.pc = "ok"
    BY <1>7, ClearedFlags DEF Refreshed
  <2> QED
    BY <1>7, <2>1 DEF Refreshed
<1>8. CASE RefreshFailed
  <2>1. CallsLoseForm
    BY <1>8, LoseFormSteps DEF FormOwnsCalls
  <2> QED
    BY <1>8, <2>1, ClearedFlags DEF RefreshFailed, CallsLoseForm, Idle
<1>9. CASE \/ \E f \in Fields : Edit(f)
           \/ \E a \in Agents : AgentRead(a) \/ AgentWrite(a)
  <2>1. UNCHANGED <<cookie, session, refresh, call, last, crossed, kept>>
    BY <1>9 DEF Edit, AgentRead, AgentWrite
  <2> QED
    BY <2>1 DEF Idle
<1>10. ASSUME NEW c \in Calls, Serve(c) \/ ReadBack(c) \/ Break(c)
       PROVE  /\ refresh' = refresh /\ session' = session /\ cookie' = cookie
              /\ last' = last /\ crossed' = crossed /\ kept' = kept /\ CallsGoOn
  <2>1. CallsGoOn
    BY <1>10, GoOnSteps DEF FormOwnsCalls
  <2> QED
    BY <1>10, <2>1 DEF Serve, ReadBack, Break
<1>11. ASSUME NEW c \in Calls, Refused(c)
       PROVE  /\ ~ session' /\ (cookie' # "none" => kept')
              /\ kept' => \A d \in Calls : Idle(d)'
              /\ refresh' # NoRefresh => refresh'.token = "none" /\ refresh'.pc # "ok"
  <2>1. CallsGoOn /\ ~ Idle(c)
    BY <1>11, GoOnSteps DEF FormOwnsCalls, Refused, Idle
  <2>2. refresh' = refresh \/ refresh' = [pc |-> "sent", token |-> cookie]
    BY <1>11 DEF Refused
  <2> QED
    BY <1>11, <2>1, <2>2 DEF Refused, CallsGoOn
<1>12. ASSUME NEW c \in Calls, Unheard(c) \/ Answered(c) \/ Failed(c)
       PROVE  /\ refresh' = refresh /\ session' = session /\ cookie' = cookie
              /\ last' = last /\ crossed' = crossed /\ kept' = kept /\ CallEnds(c)
  <2>1. CallEnds(c)
    BY <1>12, EndSteps
  <2> QED
    BY <1>12, <2>1 DEF Unheard, Answered, Failed
<1>13. ASSUME NEW c \in Calls, OpenSettings(c) \/ \E f \in Fields : SaveField(c, f)
       PROVE  session /\ session' = session /\ last' = last /\ crossed' = crossed
  BY <1>13 DEF OpenSettings, SaveField, FormOwnsCalls, FormNeedsSession
<1>14. ASSUME NEW c \in Calls, Serve(c) \/ ReadBack(c) \/ Break(c)
       PROVE  /\ ~ session' /\ (cookie' # "none" => kept')
              /\ kept' => \A d \in Calls : Idle(d)'
              /\ refresh' # NoRefresh => refresh'.token = "none" /\ refresh'.pc # "ok"
  BY <1>10, <1>14 DEF CallsGoOn
<1>15. ASSUME NEW c \in Calls, Unheard(c) \/ Answered(c) \/ Failed(c)
       PROVE  /\ ~ session' /\ (cookie' # "none" => kept')
              /\ kept' => \A d \in Calls : Idle(d)'
              /\ refresh' # NoRefresh => refresh'.token = "none" /\ refresh'.pc # "ok"
  BY <1>12, <1>15, ClearedFlags DEF CallEnds, Idle
<1> QED
  BY <1>1, <1>2, <1>3, <1>4, <1>5, <1>6, <1>7, <1>8, <1>9, <1>11, <1>13, <1>14, <1>15
    DEF AccountNext

\* Only a failed refresh ends a login.
LEMMA LoginStep ==
  AccountInv /\ [AccountNext]_accountVars => LoginLasts'
<1> SUFFICES ASSUME AccountInv, [AccountNext]_accountVars PROVE LoginLasts'
  OBVIOUS
<1> USE DEF AccountInv, LoginLasts, client, signed
<1>1. CASE \/ Login \/ Logout \/ ServeSign \/ Redirect \/ Reload \/ Expire \/ ServeRefresh
           \/ CloseSettings \/ UNCHANGED accountVars
  BY <1>1
    DEF Login, Logout, ServeSign, Redirect, Reload, Expire, ServeRefresh, CloseSettings,
      accountVars
<1>2. CASE LoginAnswered \/ LogoutAnswered \/ Refreshed \/ RefreshFailed
  BY <1>2 DEF LoginAnswered, LogoutAnswered, Refreshed, RefreshFailed
<1>3. ASSUME \/ \E f \in Fields : Edit(f)
             \/ \E a \in Agents : AgentRead(a) \/ AgentWrite(a)
             \/ \E c \in Calls : \/ Serve(c) \/ ReadBack(c) \/ Break(c) \/ Refused(c)
                                 \/ Unheard(c) \/ OpenSettings(c) \/ Answered(c) \/ Failed(c)
                                 \/ \E f \in Fields : SaveField(c, f)
      PROVE  session' = session /\ last' = last /\ ended' = ended
  BY <1>3 DEF Edit, AgentRead, AgentWrite, Serve, ReadBack, Break, Refused, Unheard,
     OpenSettings, Answered, Failed, SaveField
<1> QED
  BY <1>1, <1>2, <1>3 DEF AccountNext

\* Lines come from the keyboard or from an agent, and are copied from there.
LEMMA UntypedStep ==
  AccountInv /\ [AccountNext]_accountVars => UntypedIsNowhere'
<1> DEFINE InTexts(n) == \E f \in Fields :
             n \in portrait[f] \/ n \in form.text[f] \/ n \in form.saved[f]
           InCall(n, c) == n \in call[c].text \/ \E f \in Fields : n \in call[c].got[f]
           Nowhere(n) == /\ ~ InTexts(n)
                         /\ \A c \in Calls : ~ InCall(n, c)
                         /\ \A a \in Agents : n \notin agent[a].got
<1>1. SUFFICES ASSUME AccountInv, [AccountNext]_accountVars, NEW n \in 1 .. MaxLines, n > lines'
               PROVE  Nowhere(n)'
  BY DEF UntypedIsNowhere
<1>2. n > lines
  <2>1. \/ \E f \in Fields : Edit(f)
        \/ \E f \in Fields, c \in Calls : SaveField(c, f)
        \/ \E c \in Calls : \/ Serve(c) \/ ReadBack(c) \/ Break(c) \/ Refused(c) \/ Unheard(c)
                            \/ OpenSettings(c) \/ Answered(c) \/ Failed(c)
        \/ lines' = lines

      BY <1>1
        DEF AccountNext, accountVars, spent, Login, Logout, ServeSign, LoginAnswered,
          LogoutAnswered,
       Redirect, Reload, Expire, ServeRefresh, Refreshed, RefreshFailed, CloseSettings,
       AgentRead, AgentWrite
  <2>2. \/ \E f \in Fields : Edit(f)
        \/ lines' = lines
    BY <2>1 DEF spent, Serve, ReadBack, Break, Refused, Unheard, OpenSettings, Answered,
       Failed, SaveField
  <2>3. lines' = lines + 1 \/ lines' = lines
    BY <2>2 DEF Edit
  <2>4. lines \in 0 .. MaxLines /\ n \in 1 .. MaxLines /\ n > lines'
    BY <1>1 DEF AccountInv, AccountTypes
  <2> QED
    BY <2>3, <2>4, LinesAreNumbers
<1>3. Nowhere(n)
  BY <1>1, <1>2 DEF AccountInv, UntypedIsNowhere
<1>4. AccountTypes /\ FormOwnsCalls /\ IdleIsEmpty
  BY <1>1 DEF AccountInv, FormOwnsCalls
<1>5. \A f \in Fields : Empty[f] = {}
  BY DEF Empty
<1>6. NoForm.text = Empty /\ NoForm.saved = Empty /\ NoCall.text = {} /\ NoCall.got = Empty
  BY DEF NoForm, NoCall
<1> HIDE <1>1
<1>7. CASE \/ Login \/ Logout \/ ServeSign \/ LoginAnswered \/ Redirect \/ ServeRefresh
           \/ UNCHANGED accountVars
  BY <1>3, <1>7
    DEF Login, Logout, ServeSign, LoginAnswered, Redirect, ServeRefresh, accountVars, store
<1>8. CASE Expire \/ Refreshed \/ \E c \in Calls : Break(c) \/ Refused(c)
  <2>1. portrait' = portrait /\ form' = form /\ agent' = agent
    BY <1>8 DEF Expire, Refreshed, Break, Refused, store
  <2>2. CallsGoOn /\ \A d \in Calls : call'[d].got = call[d].got
    BY <1>8, <1>4, GoOnSteps, AnswersStay
  <2> QED
    BY <1>3, <2>1, <2>2 DEF CallsGoOn
<1>9. ASSUME NEW c \in Calls, Serve(c) PROVE Nowhere(n)'
  <2>1. CallsGoOn /\ \A d \in Calls : call'[d].got = call[d].got
    BY <1>9, <1>4, GoOnSteps, AnswersStay
  <2>2. form' = form /\ agent' = agent /\ \A f \in Fields :
             portrait'[f] \in {portrait[f], call[c].text}
    BY <1>9, <1>4 DEF Serve, Written, AccountTypes, Portraits
  <2> QED
    BY <1>3, <2>1, <2>2 DEF CallsGoOn
<1>10. ASSUME NEW c \in Calls, ReadBack(c) PROVE Nowhere(n)'
  <2>1. CallsGoOn
    BY <1>10, <1>4, GoOnSteps
  <2>2. \A d \in Calls : call'[d].got \in {call[d].got, portrait}
    BY <1>10, <1>4 DEF ReadBack, SetCall, AccountTypes, CallRecords
  <2>3. /\ portrait' = portrait /\ agent' = agent
        /\ form'.text = form.text /\ form'.saved = form.saved
    BY <1>10, <1>4 DEF ReadBack, store, AccountTypes, FormRecords
  <2> QED
    BY <1>3, <2>1, <2>2, <2>3 DEF CallsGoOn
<1>11. CASE LogoutAnswered \/ Reload \/ RefreshFailed \/ CloseSettings
  <2>1. CallsLoseForm
    BY <1>11, <1>4, LoseFormSteps
  <2>2. portrait' = portrait /\ agent' = agent
    BY <1>11 DEF LogoutAnswered, Reload, RefreshFailed, CloseSettings, store
  <2> QED
    BY <1>3, <1>5, <1>6, <2>1, <2>2 DEF CallsLoseForm
<1>12. ASSUME NEW c \in Calls, Unheard(c) \/ Answered(c) \/ Failed(c) PROVE Nowhere(n)'
  <2>1. CallEnds(c) /\ portrait' = portrait /\ agent' = agent
    BY <1>12, <1>4, EndSteps DEF Unheard, Answered, Failed, store
  <2>2. \A f \in Fields : /\ form'.text[f] \in {form.text[f], call[c].got[f]}
                          /\ form'.saved[f] \in {form.saved[f], call[c].got[f]}
    <3>1. CASE Unheard(c) \/ Failed(c) \/ ~ call[c].form
      BY <1>12, <1>4, <3>1 DEF Unheard, Failed, Answered, client, AccountTypes, FormRecords
    <3>2. CASE Answered(c) /\ call[c].form
      BY <1>4, <3>2 DEF Answered, LoadedForm, Saved, AccountTypes, FormRecords, Portraits
    <3> QED
      BY <1>12, <3>1, <3>2
  <2> QED
    BY <1>3, <1>5, <1>6, <2>1, <2>2 DEF CallEnds
<1>13. ASSUME NEW c \in Calls, OpenSettings(c) PROVE Nowhere(n)'
  <2>1. CallBegins(c, "load", {})
    BY <1>13, <1>4, OpenBegins
  <2>2. portrait' = portrait /\ agent' = agent /\ form'.text = Empty /\ form'.saved = Empty
    BY <1>13 DEF OpenSettings, NoForm, store
  <2> QED
    BY <1>3, <1>5, <2>1, <2>2 DEF CallBegins
<1>14. ASSUME NEW c \in Calls, NEW f \in Fields, SaveField(c, f) PROVE Nowhere(n)'
  <2>1. CallBegins(c, f, form.text[f])
    BY <1>14, <1>4, SaveBegins
  <2>2. /\ portrait' = portrait /\ agent' = agent
        /\ form'.text = form.text /\ form'.saved = form.saved
    BY <1>14, <1>4 DEF SaveField, store, AccountTypes, FormRecords
  <2> QED
    BY <1>3, <1>5, <2>1, <2>2 DEF CallBegins
<1>15. ASSUME NEW f \in Fields, Edit(f) PROVE Nowhere(n)'
  <2>1. /\ portrait' = portrait /\ agent' = agent /\ call' = call /\ form'.saved = form.saved
        /\ \A g \in Fields : form'.text[g] \subseteq form.text[g] \cup {lines'}
    BY <1>15, <1>4 DEF Edit, store, AccountTypes, FormRecords, Portraits
  <2>2. n # lines'
    BY <1>1, AccountAssumption DEF AccountInv, AccountTypes
  <2> QED
    BY <1>3, <2>1, <2>2
<1>16. ASSUME NEW a \in Agents, AgentRead(a) PROVE Nowhere(n)'
  <2>1. /\ portrait' = portrait /\ form' = form /\ call' = call
        /\ \A b \in Agents : agent'[b].got \in {agent[b].got, portrait["mutable"]}
    BY <1>16, <1>4 DEF AgentRead, store, AccountTypes
  <2> QED
    BY <1>3, <2>1 DEF Fields
<1>17. ASSUME NEW a \in Agents, AgentWrite(a) PROVE Nowhere(n)'
  <2>1. /\ call' = call /\ form'.text = form.text /\ form'.saved = form.saved
        /\ \A b \in Agents : agent'[b].got \in {agent[b].got, {}}
    BY <1>17, <1>4 DEF AgentWrite, AccountTypes, FormRecords
  <2>2. \A f \in Fields : portrait'[f] \subseteq portrait[f] \cup agent[a].got \cup {a}
    BY <1>17, <1>4 DEF AgentWrite, AccountTypes, Portraits
  <2>3. n # a
    BY AccountAssumption
  <2> QED
    BY <1>3, <2>1, <2>2, <2>3
<1> QED
  BY <1>1, <1>7, <1>8, <1>9, <1>10, <1>11, <1>12, <1>13, <1>14, <1>15, <1>16, <1>17
    DEF AccountNext

\* A step that leaves the form as it is, and the requests but for their progress.
LEMMA PendingStays ==
  ASSUME EditsArePending, ~ swept, CallsGoOn, form'.text = form.text, form'.saved = form.saved,
         form'.typed = form.typed, form'.saving = form.saving
  PROVE  EditsArePending'
  BY DEF EditsArePending, CallsGoOn, Saving, Dirty

\* What the user typed and has not saved.
LEMMA PendingStep ==
  AccountInv /\ [AccountNext]_accountVars => EditsArePending'
<1> SUFFICES ASSUME AccountInv, [AccountNext]_accountVars, ~ swept' PROVE EditsArePending'
  BY DEF EditsArePending
<1>0. /\ AccountTypes /\ FormOwnsCalls /\ FormNeedsSession /\ IdleIsEmpty /\ FormHearsCalls
      /\ OneRequestEach /\ SavingIsShown /\ UntypedIsNowhere /\ EditsArePending
  BY DEF AccountInv, FormOwnsCalls
<1> USE DEF written
<1>1. CASE \/ Login \/ Logout \/ ServeSign \/ LoginAnswered \/ Redirect \/ ServeRefresh
           \/ UNCHANGED accountVars
  <2>1. call' = call /\ form' = form /\ swept' = swept
    BY <1>1 DEF Login, Logout, ServeSign, LoginAnswered, Redirect, ServeRefresh, accountVars
  <2> QED
    BY <1>0, <2>1, PendingStays DEF CallsGoOn, Idle
<1>2. ASSUME NEW a \in Agents, AgentRead(a) \/ AgentWrite(a) PROVE EditsArePending'
  <2>1. /\ call' = call /\ swept' = swept /\ form'.text = form.text /\ form'.saved = form.saved
        /\ form'.typed = form.typed /\ form'.saving = form.saving
    BY <1>0, <1>2 DEF AgentRead, AgentWrite, AccountTypes, FormRecords
  <2> QED
    BY <1>0, <2>1, PendingStays DEF CallsGoOn, Idle
<1>3. CASE Expire \/ Refreshed \/ \E c \in Calls : Serve(c) \/ Break(c) \/ Refused(c)
  <2>1. form' = form /\ swept' = swept
    BY <1>3 DEF Expire, Refreshed, Serve, Break, Refused, client
  <2> QED
    BY <1>0, <1>3, <2>1, GoOnSteps, PendingStays
<1>4. ASSUME NEW c \in Calls, ReadBack(c) PROVE EditsArePending'
  <2>1. /\ swept' = swept /\ form'.text = form.text /\ form'.saved = form.saved
        /\ form'.typed = form.typed /\ form'.saving = form.saving
    BY <1>0, <1>4 DEF ReadBack, AccountTypes, FormRecords
  <2> QED
    BY <1>0, <1>4, <2>1, GoOnSteps, PendingStays
<1>5. CASE LogoutAnswered \/ Reload \/ RefreshFailed \/ CloseSettings
  <2>1. CallsLoseForm
    BY <1>0, <1>5, LoseFormSteps
  <2>2. \A f \in Fields : form'.typed[f] = {}
    BY <2>1 DEF CallsLoseForm, NoForm, Empty
  <2>3. \A c \in Calls, f \in Fields : ~ Saving(c, f)'
    BY <2>1, ClearedFlags DEF CallsLoseForm, Saving
  <2> QED
    BY <2>2, <2>3 DEF EditsArePending
<1>6. ASSUME NEW c \in Calls, Unheard(c) \/ Failed(c) \/ (Answered(c) /\ ~ call[c].form)
      PROVE  EditsArePending'
  <2>1. CallEnds(c) /\ swept' = swept
    BY <1>6, <1>0, EndSteps DEF Unheard, Failed, Answered
  <2>2. /\ form'.text = form.text /\ form'.saved = form.saved /\ form'.typed = form.typed
        /\ form'.saving \subseteq form.saving
    <3>1. CASE Unheard(c) \/ (Answered(c) /\ ~ call[c].form)
      BY <3>1 DEF Unheard, Answered, client
    <3>2. CASE Failed(c)
      BY <1>0, <3>2 DEF Failed, AccountTypes, FormRecords
    <3> QED
      BY <1>6, <3>1, <3>2
  <2> QED
    BY <1>0, <2>1, <2>2, ClearedFlags DEF CallEnds, EditsArePending, Saving, Dirty
<1>7. ASSUME NEW c \in Calls, Answered(c), call[c].form, call[c].op = "load"
      PROVE  EditsArePending'
  <2>1. CallEnds(c) /\ swept' = swept
    BY <1>7, <1>0, EndSteps DEF Answered
  <2>2. form'.typed = Empty /\ form.saving = {}

      BY <1>0, <1>7
        DEF Answered, LoadedForm, AccountTypes, FormRecords, FormHearsCalls, FormNeedsSession
  <2>3. \A d \in Calls, f \in Fields : ~ Saving(d, f)'
    BY <1>0, <2>1, <2>2, ClearedFlags DEF CallEnds, Saving, SavingIsShown
  <2> QED
    BY <2>2, <2>3 DEF EditsArePending, Empty
<1>8. ASSUME NEW c \in Calls, Answered(c), call[c].form, call[c].op # "load"
      PROVE  EditsArePending'
  <2>1. CallEnds(c) /\ swept' = swept
    BY <1>8, <1>0, EndSteps DEF Answered
  <2> DEFINE f == call[c].op
  <2>2. f \in Fields /\ Saving(c, f)
    BY <1>0, <1>8 DEF Answered, AccountTypes, CallRecords, IdleIsEmpty, Idle, Saving
  <2>3. form' = Saved(c, f)
    BY <1>8 DEF Answered
  <2> HIDE DEF f
  <2>4. Fields = {f, Other(f)} /\ Other(f) # f /\ Other(f) \notin form.saving
        /\ form.typed[Other(f)] = {}
    BY <1>0, <2>1, <2>2, OtherField DEF EditsArePending
  <2>5. form'.typed[f] = {} /\ form'.typed[Other(f)] = {}
    BY <1>0, <2>2, <2>3, <2>4 DEF Saved, AccountTypes, FormRecords, Portraits
  <2>6. \A d \in Calls, g \in Fields : ~ Saving(d, g)'
    BY <1>0, <2>1, <2>2, <2>4, ClearedFlags DEF CallEnds, Saving, SavingIsShown, OneRequestEach
  <2> QED
    BY <2>4, <2>5, <2>6 DEF EditsArePending
<1>9. ASSUME NEW c \in Calls, OpenSettings(c) PROVE EditsArePending'
  <2>1. CallBegins(c, "load", {}) /\ ~ form.alive
    BY <1>0, <1>9, OpenBegins DEF OpenSettings
  <2>2. form'.typed = Empty
    BY <1>9 DEF OpenSettings, NoForm
  <2>3. \A d \in Calls, g \in Fields : ~ Saving(d, g)'
    BY <1>0, <2>1 DEF CallBegins, Saving, FormHearsCalls, Fields
  <2> QED
    BY <2>2, <2>3 DEF EditsArePending, Empty
<1>10. ASSUME NEW c \in Calls, NEW f \in Fields, SaveField(c, f) PROVE EditsArePending'
  <2>1. CallBegins(c, f, form.text[f])
    BY <1>0, <1>10, SaveBegins
  <2>2. /\ form'.text = form.text /\ form'.saved = form.saved /\ form'.typed = form.typed
        /\ form'.saving = form.saving \cup {f}
        /\ ~ swept /\ Dirty(f) /\ ~ Dirty(Other(f)) /\ Dirty(f)'
    BY <1>0, <1>10 DEF SaveField, Dirty, AccountTypes, FormRecords
  <2>3. Other(f) \in Fields /\ Other(f) # f /\ Fields = {f, Other(f)}
    BY OtherField
  <2>4. form.typed[Other(f)] = {}
    BY <1>0, <2>2, <2>3 DEF EditsArePending, Dirty
  <2>5. \A d \in Calls, g \in Fields : ~ Saving(d, g)
    BY <1>0, <1>10, <2>2, <2>3 DEF EditsArePending, SaveField, SavingIsShown
  <2>6. form'.saving = {f}
    BY <1>0, <2>2, <2>5 DEF SavingIsShown, AccountTypes, FormRecords
  <2>7. \A d \in Calls, g \in Fields : Saving(d, g)' => d = c /\ g = f
    BY <2>1, <2>5 DEF CallBegins, Saving
  <2> QED
    BY <1>0, <2>1, <2>2, <2>3, <2>4, <2>6, <2>7 DEF EditsArePending, CallBegins
<1>11. ASSUME NEW f \in Fields, Edit(f) PROVE EditsArePending'
  <2>1. /\ call' = call /\ form'.saved = form.saved /\ form'.saving = form.saving
        /\ form'.text = [form.text EXCEPT ![f] = @ \cup {lines'}]
        /\ form'.typed = [form.typed EXCEPT ![f] = @ \cup {lines'}]
        /\ f \notin form.saving /\ Other(f) \notin form.saving /\ ~ swept
    BY <1>0, <1>11 DEF Edit, Enabled, AccountTypes, FormRecords
  <2>2. lines' \notin form.saved[f]
    <3>1. lines' = lines + 1 /\ lines < MaxLines /\ lines \in Nat
      BY <1>0, <1>11 DEF Edit, AccountTypes
    <3>2. lines' \in 1 .. MaxLines /\ lines' > lines
      BY <3>1, LinesAreNumbers
    <3> QED
      BY <1>0, <3>2 DEF UntypedIsNowhere
  <2>3. Other(f) \in Fields /\ Other(f) # f /\ Fields = {f, Other(f)}
    BY OtherField
  <2>4. \A d \in Calls, g \in Fields : ~ Saving(d, g)'
    BY <1>0, <2>1, <2>3 DEF SavingIsShown, Saving
  <2>5. /\ form'.text[f] = form.text[f] \cup {lines'}
        /\ form'.typed[f] = form.typed[f] \cup {lines'}
        /\ form'.text[Other(f)] = form.text[Other(f)]
        /\ form'.typed[Other(f)] = form.typed[Other(f)]
    BY <1>0, <2>1, <2>3 DEF AccountTypes, FormRecords, Portraits
  <2> QED
    BY <1>0, <2>1, <2>2, <2>3, <2>4, <2>5 DEF EditsArePending
<1> QED
  BY <1>1, <1>2, <1>3, <1>4, <1>5, <1>6, <1>7, <1>8, <1>9, <1>10, <1>11 DEF AccountNext

\* Steps that neither begin nor fail a request keep who is under way.
LEMMA AnswersStayStored ==
  ASSUME AnswersAreStored, ~ troubled, CallsGoOn, portrait' = portrait \/ form'.outdated,
         form'.alive = form.alive, form.outdated => form'.outdated,
         form'.loading = form.loading, form'.saved = form.saved,
         \A c \in Calls : call'[c].got = call[c].got /\
           (call'[c].pc = "answered" => call[c].pc = "answered"),
         \A c \in Calls : call'[c].pc # "failed"
  PROVE  AnswersAreStored'
  BY DEF AnswersAreStored, BaselineIsStored, CallsGoOn

\* A request at a time brings what the server holds.
LEMMA AnswersStep ==
  AccountInv /\ [AccountNext]_accountVars => AnswersAreStored'
<1> SUFFICES ASSUME AccountInv, [AccountNext]_accountVars, ~ troubled' PROVE AnswersAreStored'
  BY DEF AnswersAreStored
<1>0. /\ AccountTypes /\ FormOwnsCalls /\ FormNeedsSession /\ IdleIsEmpty /\ FormHearsCalls
      /\ OneRequestEach /\ SavingIsShown /\ AnswersAreStored
  BY DEF AccountInv, FormOwnsCalls
<1> USE DEF written
<1>1. CASE \/ Login \/ Logout \/ ServeSign \/ LoginAnswered \/ Redirect \/ ServeRefresh
           \/ UNCHANGED accountVars
  <2>1. call' = call /\ form' = form /\ troubled' = troubled /\ portrait' = portrait

      BY <1>1
        DEF Login, Logout, ServeSign, LoginAnswered, Redirect, ServeRefresh, accountVars, store
  <2> QED
    BY <1>0, <2>1 DEF AnswersAreStored, BaselineIsStored, Idle
<1>2. ASSUME NEW f \in Fields, Edit(f) PROVE AnswersAreStored'
  <2>1. /\ call' = call /\ troubled' = troubled /\ portrait' = portrait
        /\ form'.alive = form.alive /\ form'.outdated = form.outdated
        /\ form'.loading = form.loading /\ form'.saved = form.saved
    BY <1>0, <1>2 DEF Edit, store, AccountTypes, FormRecords
  <2> QED
    BY <1>0, <2>1 DEF AnswersAreStored, BaselineIsStored, Idle
<1>3. ASSUME NEW a \in Agents, AgentRead(a) PROVE AnswersAreStored'
  BY <1>0, <1>3 DEF AgentRead, store, AnswersAreStored, BaselineIsStored, Idle
<1>4. ASSUME NEW a \in Agents, AgentWrite(a) PROVE AnswersAreStored'
  <2>1. /\ call' = call /\ troubled' = troubled
        /\ form'.alive = form.alive /\ form'.outdated = form.alive
    BY <1>0, <1>4 DEF AgentWrite, AccountTypes, FormRecords
  <2> QED
    BY <1>0, <2>1 DEF AnswersAreStored, BaselineIsStored, Idle, FormHearsCalls
<1>5. CASE Expire \/ Refreshed
  <2>1. form' = form /\ troubled' = troubled /\ portrait' = portrait
    BY <1>5 DEF Expire, Refreshed, client
  <2>2. CallsGoOn /\ \A d \in Calls : call'[d].got = call[d].got
    BY <1>0, <1>5, GoOnSteps, AnswersStay
  <2>3. \A d \in Calls : call'[d].pc \in {call[d].pc, "sent"}
    <3>1. CASE Expire
      BY <1>0, <3>1 DEF Expire, AccountTypes, CallRecords
    <3>2. CASE Refreshed
      BY <1>0, <3>2 DEF Refreshed, Waiting, AccountTypes, CallRecords
    <3> QED
      BY <1>5, <3>1, <3>2
  <2> QED
    BY <1>0, <2>1, <2>2, <2>3, AnswersStayStored DEF AnswersAreStored
<1>6. ASSUME NEW c \in Calls, Serve(c) PROVE AnswersAreStored'
  <2>1. form' = form /\ troubled' = troubled /\ ~ Idle(c)
    BY <1>6 DEF Serve, client, Idle
  <2>2. CallsGoOn
    BY <1>0, <1>6, GoOnSteps
  <2>3. call'[c].pc \in {"served", "refused"} /\ \A d \in Calls \ {c} : call'[d] = call[d]
    BY <1>0, <1>6 DEF Serve, CallTo, SetCall, AccountTypes, CallRecords
  <2> QED
    BY <1>0, <2>1, <2>2, <2>3 DEF AnswersAreStored, BaselineIsStored, CallsGoOn, Idle
<1>7. ASSUME NEW c \in Calls, ReadBack(c) PROVE AnswersAreStored'
  <2>1. /\ portrait' = portrait /\ troubled' = troubled /\ ~ Idle(c)
        /\ form'.alive = form.alive /\ form'.loading = form.loading
    BY <1>0, <1>7 DEF ReadBack, store, AccountTypes, FormRecords, Idle
  <2>2. CallsGoOn
    BY <1>0, <1>7, GoOnSteps
  <2>3. /\ call'[c].pc = "answered" /\ call'[c].got = portrait
        /\ \A d \in Calls \ {c} : call'[d] = call[d]
    BY <1>0, <1>7 DEF ReadBack, SetCall, AccountTypes, CallRecords
  <2> QED
    BY <1>0, <2>1, <2>2, <2>3 DEF AnswersAreStored, BaselineIsStored, CallsGoOn, Idle
<1>8. ASSUME NEW c \in Calls, Break(c) PROVE AnswersAreStored'
  BY <1>8 DEF Break
<1>9. ASSUME NEW c \in Calls, Refused(c) PROVE AnswersAreStored'
  <2>1. form' = form /\ troubled' = troubled /\ portrait' = portrait /\ ~ call[c].retried
    BY <1>0, <1>9 DEF Refused, store, AccountTypes
  <2>2. CallsGoOn /\ \A d \in Calls : call'[d].got = call[d].got
    BY <1>0, <1>9, GoOnSteps, AnswersStay
  <2>3. \A d \in Calls : call'[d].pc \in {call[d].pc, "waiting"}
    BY <1>0, <1>9, <2>1 DEF Refused, CallTo, SetCall, AccountTypes, CallRecords
  <2> QED
    BY <1>0, <2>1, <2>2, <2>3, AnswersStayStored DEF AnswersAreStored
<1>10. CASE LogoutAnswered \/ Reload \/ RefreshFailed \/ CloseSettings
  <2>1. CallsLoseForm /\ troubled' = troubled
    BY <1>0, <1>10, LoseFormSteps DEF LogoutAnswered, Reload, RefreshFailed, CloseSettings
  <2> QED
    BY <1>0, <2>1, ClearedFlags DEF CallsLoseForm, AnswersAreStored, BaselineIsStored, Idle
<1>11. ASSUME NEW c \in Calls, Unheard(c) \/ (Answered(c) /\ ~ call[c].form)
       PROVE  AnswersAreStored'
  <2>1. CallEnds(c) /\ troubled' = troubled /\ form' = form /\ portrait' = portrait
    BY <1>11, <1>0, EndSteps DEF Unheard, Answered, store, client
  <2>2. ~ Idle(c) /\ ~ call[c].form
    BY <1>0, <1>11 DEF Unheard, Answered, FormHearsCalls, Idle
  <2>3. ~ form.alive
    BY <1>0, <2>1, <2>2 DEF AnswersAreStored
  <2> QED

      BY <1>0, <2>1, <2>2, <2>3, ClearedFlags
        DEF CallEnds, AnswersAreStored, BaselineIsStored, Idle
<1>12. ASSUME NEW c \in Calls, Answered(c), call[c].form PROVE AnswersAreStored'
  <2>1. CallEnds(c) /\ troubled' = troubled /\ portrait' = portrait
    BY <1>12, <1>0, EndSteps DEF Answered, store
  <2>2. form'.saved = call[c].got /\ form'.outdated = form.outdated
    BY <1>0, <1>12 DEF Answered, LoadedForm, Saved, AccountTypes, FormRecords
  <2>3. ~ Idle(c) /\ call[c].pc = "answered"
    BY <1>12 DEF Answered, Idle
  <2>4. \A d \in Calls : Idle(d)'
    BY <1>0, <2>1, <2>3, ClearedFlags DEF CallEnds, AnswersAreStored, Idle
  <2> QED
    BY <1>0, <1>12, <2>1, <2>2, <2>3, <2>4 DEF AnswersAreStored, BaselineIsStored, Idle
<1>13. ASSUME NEW c \in Calls, Failed(c) PROVE AnswersAreStored'
  BY <1>0, <1>13 DEF Failed, AnswersAreStored
<1>14. ASSUME NEW c \in Calls, NEW op, NEW text, CallBegins(c, op, text), form'.alive,
              troubled' = (troubled \/ \E d \in Calls : ~ Idle(d))
       PROVE  AnswersAreStored'
  <2>1. ~ troubled /\ \A d \in Calls : Idle(d)
    BY <1>14
  <2>2. ~ Idle(c)'
    BY <1>14 DEF CallBegins, Idle
  <2> QED
    BY <1>0, <1>14, <2>1, <2>2 DEF CallBegins, AnswersAreStored, BaselineIsStored, Idle
<1>15. ASSUME NEW c \in Calls, OpenSettings(c) PROVE AnswersAreStored'
  BY <1>0, <1>14, <1>15, OpenBegins DEF OpenSettings, Begin, NoForm
<1>16. ASSUME NEW c \in Calls, NEW f \in Fields, SaveField(c, f) PROVE AnswersAreStored'
  <2>1. CallBegins(c, f, form.text[f])
    BY <1>0, <1>16, SaveBegins
  <2>2. form'.alive /\ troubled' = (troubled \/ \E d \in Calls : ~ Idle(d))
    BY <1>0, <1>16 DEF SaveField, Begin, AccountTypes, FormRecords
  <2> QED
    BY <1>14, <2>1, <2>2
<1> QED
  BY <1>1, <1>2, <1>3, <1>4, <1>5, <1>6, <1>7, <1>8, <1>9, <1>10, <1>11, <1>12, <1>13, <1>15,
     <1>16 DEF AccountNext

\* Steps that begin no write leave the writers of a field as few as they were.
LEMMA WritersStayAlone ==
  ASSUME WritersAreAlone, ~ together, agent' = agent, portrait'["mutable"] = portrait["mutable"],
         \A c \in Calls, f \in Fields : (c \in Saves(f))' => c \in Saves(f)
  PROVE  WritersAreAlone'
<1> USE DEF WritersAreAlone, Reading
<1>1. \A c, d \in Calls, f \in Fields : (c \in Saves(f))' /\ (d \in Saves(f))' => c = d
  OBVIOUS
<1>2. ASSUME NEW a \in Reading PROVE Saves("mutable")' = {}
  BY <1>2 DEF Saves, Fields
<1> QED
  BY <1>1, <1>2

\* Who writes a field does so alone.
LEMMA WritersStep ==
  AccountInv /\ [AccountNext]_accountVars => WritersAreAlone'
<1> SUFFICES ASSUME AccountInv, [AccountNext]_accountVars, ~ together' PROVE WritersAreAlone'
  BY DEF WritersAreAlone
<1>0. AccountTypes /\ FormOwnsCalls /\ IdleIsEmpty /\ WritersAreAlone
  BY DEF AccountInv, FormOwnsCalls
<1> USE DEF written
<1>1. CASE \/ Login \/ Logout \/ ServeSign \/ LoginAnswered \/ Redirect \/ ServeRefresh
           \/ (\E f \in Fields : Edit(f)) \/ UNCHANGED accountVars
  <2>1. call' = call /\ agent' = agent /\ together' = together /\ portrait' = portrait

      BY <1>1
        DEF Login, Logout, ServeSign, LoginAnswered, Redirect, ServeRefresh, Edit, accountVars,
          store
  <2> QED
    BY <1>0, <2>1, WritersStayAlone DEF Saves, Idle
<1>2. CASE Expire \/ Refreshed \/ \E c \in Calls : ReadBack(c) \/ Break(c) \/ Refused(c)
  <2>1. agent' = agent /\ together' = together /\ portrait' = portrait
    BY <1>2 DEF Expire, Refreshed, ReadBack, Break, Refused, store
  <2>2. CallsGoOn
    BY <1>0, <1>2, GoOnSteps
  <2> QED
    BY <1>0, <2>1, <2>2, WritersStayAlone DEF CallsGoOn, Saves
<1>3. ASSUME NEW c \in Calls, Serve(c) PROVE WritersAreAlone'
  <2>1. agent' = agent /\ together' = together /\ CallsGoOn
    BY <1>0, <1>3, GoOnSteps DEF Serve
  <2>2. portrait'["mutable"] = portrait["mutable"] \/ c \in Saves("mutable")
    <3>1. portrait' = portrait \/ portrait' = [portrait EXCEPT ![call[c].op] = call[c].text]
      BY <1>3 DEF Serve, Written
    <3>2. CASE call[c].op = "mutable"
      BY <1>3, <3>2 DEF Serve, Saves, Idle
    <3>3. CASE call[c].op # "mutable"
      BY <1>0, <3>1, <3>3 DEF AccountTypes, Portraits, Fields
    <3> QED
      BY <3>2, <3>3
  <2>3. ASSUME NEW d \in Calls, NEW f \in Fields PROVE (d \in Saves(f))' <=> d \in Saves(f)
    BY <2>1 DEF CallsGoOn, Saves
  <2>4. CASE c \in Saves("mutable")
    <3>1. Reading = {}
      BY <1>0, <2>1, <2>4 DEF WritersAreAlone
    <3> QED
      BY <1>0, <2>1, <2>3, <3>1 DEF WritersAreAlone, Reading
  <2> QED
    BY <1>0, <2>1, <2>2, <2>3, <2>4, WritersStayAlone
<1>4. CASE LogoutAnswered \/ Reload \/ RefreshFailed \/ CloseSettings
  <2>1. CallsLoseForm /\ agent' = agent /\ together' = together /\ portrait' = portrait
    BY <1>0, <1>4, LoseFormSteps DEF LogoutAnswered, Reload, RefreshFailed, CloseSettings, store
  <2> QED
    BY <1>0, <2>1, ClearedFlags, WritersStayAlone DEF CallsLoseForm, Saves, Idle
<1>5. ASSUME NEW c \in Calls, Unheard(c) \/ Answered(c) \/ Failed(c) PROVE WritersAreAlone'
  <2>1. CallEnds(c) /\ agent' = agent /\ together' = together /\ portrait' = portrait
    BY <1>0, <1>5, EndSteps DEF Unheard, Answered, Failed, store
  <2> QED
    BY <1>0, <2>1, ClearedFlags, WritersStayAlone DEF CallEnds, Saves, Idle
<1>6. ASSUME NEW c \in Calls, OpenSettings(c) PROVE WritersAreAlone'
  <2>1. /\ CallBegins(c, "load", {})
        /\ agent' = agent /\ together' = together /\ portrait' = portrait
    BY <1>0, <1>6, OpenBegins DEF OpenSettings, store
  <2> QED
    BY <1>0, <2>1, WritersStayAlone DEF CallBegins, Saves, Fields, Idle
<1>7. ASSUME NEW c \in Calls, NEW f \in Fields, SaveField(c, f) PROVE WritersAreAlone'
  <2>1. CallBegins(c, f, form.text[f]) /\ agent' = agent /\ portrait' = portrait
    BY <1>0, <1>7, SaveBegins DEF SaveField, store
  <2>2. ~ together /\ Saves(f) = {} /\ (f = "mutable" => Reading = {})
    BY <1>7 DEF SaveField
  <2>3. ASSUME NEW d \in Calls, NEW g \in Fields, (d \in Saves(g))'
        PROVE  (d = c /\ g = f) \/ (d \in Saves(g) /\ d # c)
    <3>1. CASE d = c
      <4>1. call'[c].op = g
        BY <2>3, <3>1 DEF Saves
      <4> QED
        BY <2>1, <3>1, <4>1 DEF CallBegins
    <3>2. CASE d # c
      BY <2>1, <2>3, <3>2 DEF CallBegins, Saves, Idle
    <3> QED
      BY <3>1, <3>2
  <2>4. \A d, e \in Calls, g \in Fields : (d \in Saves(g))' /\ (e \in Saves(g))' => d = e
    BY <1>0, <2>2, <2>3 DEF WritersAreAlone
  <2>5. Reading' = Reading
    BY <2>1 DEF Reading
  <2>6. Reading # {} => Saves("mutable")' = {}
    <3>1. Saves("mutable")' \subseteq Calls
      BY DEF Saves
    <3> QED
      BY <1>0, <2>2, <2>3, <3>1 DEF WritersAreAlone, Fields
  <2> QED
    BY <1>0, <2>1, <2>2, <2>4, <2>5, <2>6 DEF WritersAreAlone
<1>8. ASSUME NEW a \in Agents, AgentRead(a) PROVE WritersAreAlone'
  <2>1. /\ ~ together /\ Reading = {} /\ Saves("mutable") = {}
        /\ portrait' = portrait /\ call' = call
    BY <1>8 DEF AgentRead, store
  <2>2. Reading' = {a} /\ agent'[a].got = portrait["mutable"]
    BY <1>0, <1>8, <2>1 DEF AgentRead, Reading, AccountTypes
  <2> QED
    BY <1>0, <2>1, <2>2 DEF WritersAreAlone, Saves, Idle
<1>9. ASSUME NEW a \in Agents, AgentWrite(a) PROVE WritersAreAlone'
  <2>1. together' = together /\ call' = call
    BY <1>9 DEF AgentWrite
  <2>2. Reading' = Reading \ {a} /\ a \in Reading
    BY <1>0, <1>9 DEF AgentWrite, Reading, AccountTypes
  <2>3. Reading' = {}
    BY <1>0, <2>1, <2>2 DEF WritersAreAlone
  <2> QED
    BY <1>0, <2>1, <2>3 DEF WritersAreAlone, Saves, Idle
<1> QED
  BY <1>1, <1>2, <1>3, <1>4, <1>5, <1>6, <1>7, <1>8, <1>9 DEF AccountNext

\* None of the conditions under which a line may be lost.
Undisturbed == ~ (together \/ behind \/ swept)

\* Steps that change no text that was saved, stored or told.
LEMMA WritesStayWhole ==
  ASSUME WritesAreWhole, Undisturbed, portrait' = portrait, told' = told,
         \A f \in Fields : form'.saved[f] \subseteq form'.text[f],
         \A c \in Calls, f \in Fields : (c \in Saves(f))' =>
           /\ c \in Saves(f) /\ call'[c].text = call[c].text
           /\ call'[c].pc \in {"sent", "refused", "waiting"} =>
                call[c].pc \in {"sent", "refused", "waiting"}
           /\ call'[c].pc \in {"served", "answered"} => call[c].pc \in {"served", "answered"}
           /\ call'[c].pc = "answered" => \/ call[c].pc = "answered" /\ call'[c].got = call[c].got
                                          \/ call'[c].got = portrait
  PROVE  WritesAreWhole'
<1>1. \A f \in Fields : told'[f] \subseteq portrait'[f]
  BY DEF WritesAreWhole, Undisturbed
<1>2. ASSUME NEW f \in Fields, NEW c \in Saves(f)'
      PROVE  /\ call'[c].pc \in {"sent", "refused", "waiting"} => told'[f] \subseteq call'[c].text
             /\ call'[c].pc \in {"served", "answered"} => call'[c].text = portrait'[f]
             /\ call'[c].pc = "answered" => call'[c].got[f] = portrait'[f]
  <2>1. c \in Calls
    BY <1>2 DEF Saves
  <2> QED
    BY <1>2, <2>1 DEF WritesAreWhole, Undisturbed
<1> QED
  BY <1>1, <1>2 DEF WritesAreWhole

\* No line is lost that was told, unless a condition of the property holds.
LEMMA WritesStep ==
  AccountInv /\ [AccountNext]_accountVars => WritesAreWhole'
<1> SUFFICES ASSUME AccountInv, [AccountNext]_accountVars, Undisturbed' PROVE WritesAreWhole'
  BY DEF WritesAreWhole, Undisturbed
<1>0. /\ AccountTypes /\ FormOwnsCalls /\ FormNeedsSession /\ IdleIsEmpty /\ FormHearsCalls
      /\ OneRequestEach /\ SavingIsShown /\ EditsArePending /\ WritersAreAlone /\ WritesAreWhole
  BY DEF AccountInv, FormOwnsCalls
<1> USE DEF written
<1>1. CASE \/ Login \/ Logout \/ ServeSign \/ LoginAnswered \/ Redirect \/ ServeRefresh
           \/ UNCHANGED accountVars
  <2>1. call' = call /\ form' = form /\ portrait' = portrait /\ UNCHANGED written

      BY <1>1
        DEF Login, Logout, ServeSign, LoginAnswered, Redirect, ServeRefresh, accountVars, store
  <2>2. Undisturbed
    BY <2>1 DEF Undisturbed
  <2> QED
    BY <1>0, <2>1, <2>2, WritesStayWhole DEF Saves, Idle, WritesAreWhole, Undisturbed
<1>2. ASSUME NEW f \in Fields, Edit(f) PROVE WritesAreWhole'
  <2>1. /\ call' = call /\ portrait' = portrait /\ told' = told /\ form'.saved = form.saved
        /\ Undisturbed
        /\ \A g \in Fields : form.text[g] \subseteq form'.text[g]
    BY <1>0, <1>2 DEF Edit, store, AccountTypes, FormRecords, Portraits, Undisturbed
  <2>2. \A g \in Fields : form'.saved[g] \subseteq form'.text[g]
    BY <1>0, <2>1 DEF WritesAreWhole, Undisturbed
  <2> QED
    BY <1>0, <2>1, <2>2, WritesStayWhole DEF Saves, Idle
<1>3. CASE Expire \/ Refreshed \/ \E c \in Calls : Break(c) \/ Refused(c)
  <2>1. form' = form /\ portrait' = portrait /\ told' = told /\ Undisturbed
    <3>1. UNCHANGED <<form, portrait, told, together, behind, swept>>
      BY <1>3 DEF Expire, Refreshed, Break, Refused, client, store
    <3> QED
      BY <3>1 DEF Undisturbed
  <2>2. CallsGoOn /\ \A d \in Calls : call'[d].got = call[d].got
    BY <1>0, <1>3, GoOnSteps, AnswersStay
  <2>3. \A d \in Calls : \/ call'[d].pc = call[d].pc
                         \/ call[d].pc = "waiting" /\ call'[d].pc = "sent"
                         \/ call[d].pc = "refused" /\ call'[d].pc = "waiting"
                         \/ call'[d].pc = "failed"
    <3>1. CASE Expire
      BY <1>0, <3>1 DEF Expire, AccountTypes, CallRecords
    <3>2. CASE Refreshed
      BY <1>0, <3>2 DEF Refreshed, Waiting, AccountTypes, CallRecords
    <3>3. CASE \E c \in Calls : Break(c) \/ Refused(c)
      BY <1>0, <3>3 DEF Break, Refused, CallTo, SetCall, AccountTypes, CallRecords
    <3> QED
      BY <1>3, <3>1, <3>2, <3>3
  <2>4. \A g \in Fields : form'.saved[g] \subseteq form'.text[g]
    BY <1>0, <2>1 DEF WritesAreWhole, Undisturbed
  <2> QED
    BY <1>0, <2>1, <2>2, <2>3, <2>4, WritesStayWhole DEF CallsGoOn, Saves
<1>4. ASSUME NEW c \in Calls, ReadBack(c) PROVE WritesAreWhole'
  <2>1. /\ portrait' = portrait /\ told' = told /\ form'.saved = form.saved
        /\ form'.text = form.text /\ Undisturbed
    BY <1>0, <1>4 DEF ReadBack, store, AccountTypes, FormRecords, Undisturbed
  <2>2. CallsGoOn
    BY <1>0, <1>4, GoOnSteps
  <2>3. /\ call[c].pc = "served" /\ call'[c].pc = "answered" /\ call'[c].got = portrait
        /\ \A d \in Calls \ {c} : call'[d] = call[d]
    BY <1>0, <1>4 DEF ReadBack, SetCall, AccountTypes, CallRecords
  <2>4. \A g \in Fields : form'.saved[g] \subseteq form'.text[g]
    BY <1>0, <2>1 DEF WritesAreWhole, Undisturbed
  <2> QED
    BY <1>0, <2>1, <2>2, <2>3, <2>4, WritesStayWhole DEF CallsGoOn, Saves
<1>5. CASE LogoutAnswered \/ Reload \/ RefreshFailed \/ CloseSettings
  <2>1. CallsLoseForm /\ portrait' = portrait /\ told' = told /\ Undisturbed
    <3>1. UNCHANGED <<portrait, told, together, behind, swept>>
      BY <1>5 DEF LogoutAnswered, Reload, RefreshFailed, CloseSettings, store
    <3> QED
      BY <1>0, <1>5, <3>1, LoseFormSteps DEF Undisturbed
  <2>2. \A g \in Fields : form'.saved[g] \subseteq form'.text[g]
    BY <2>1 DEF CallsLoseForm, NoForm
  <2> QED
    BY <1>0, <2>1, <2>2, ClearedFlags, WritesStayWhole DEF CallsLoseForm, Saves, Idle
<1>6. ASSUME NEW c \in Calls, Unheard(c) \/ Failed(c) PROVE WritesAreWhole'
  <2>1. CallEnds(c) /\ portrait' = portrait /\ told' = told /\ Undisturbed
    <3>1. UNCHANGED <<portrait, told, together, behind, swept>>
      BY <1>6 DEF Unheard, Failed, store
    <3> QED
      BY <1>0, <1>6, <3>1, EndSteps DEF Undisturbed
  <2>2. form'.saved = form.saved /\ form'.text = form.text
    BY <1>0, <1>6 DEF Unheard, Failed, client, AccountTypes, FormRecords
  <2>3. \A g \in Fields : form'.saved[g] \subseteq form'.text[g]
    BY <1>0, <2>1, <2>2 DEF WritesAreWhole, Undisturbed
  <2> QED
    BY <1>0, <2>1, <2>3, ClearedFlags, WritesStayWhole DEF CallEnds, Saves, Idle
<1>7. ASSUME NEW c \in Calls, Answered(c) PROVE WritesAreWhole'
  <2>1. CallEnds(c) /\ portrait' = portrait /\ Undisturbed /\ call[c].pc = "answered" /\ ~ Idle(c)
    BY <1>0, <1>7, EndSteps DEF Answered, store, Undisturbed, Idle
  <2>2. \A g \in Fields : told'[g] \in {told[g]} \cup
          (IF c \in Saves(g) THEN {told[g] \cup call[c].text} ELSE {})
    BY <1>0, <1>7, <2>1 DEF Answered, AccountTypes, Portraits, Saves
  <2>3. \A g \in Fields : told'[g] \subseteq portrait[g]
    BY <1>0, <2>1, <2>2 DEF WritesAreWhole, Undisturbed
  <2>4. \A g \in Fields : form'.saved[g] \subseteq form'.text[g]
    <3>1. CASE ~ call[c].form
      BY <1>0, <1>7, <2>1, <3>1 DEF Answered, WritesAreWhole, Undisturbed
    <3>2. CASE call[c].form /\ call[c].op = "load"
      BY <1>0, <1>7, <3>2 DEF Answered, LoadedForm, AccountTypes, FormRecords
    <3>3. CASE call[c].form /\ call[c].op # "load"
      <4> DEFINE f == call[c].op
      <4>1. f \in Fields /\ c \in Saves(f) /\ Saving(c, f) /\ form' = Saved(c, f)

          BY <1>0, <1>7, <2>1, <3>3
            DEF Answered, AccountTypes, CallRecords, IdleIsEmpty, Idle, Saves, Saving
      <4> HIDE DEF f
      <4>2. Fields = {f, Other(f)} /\ Other(f) # f
        BY <4>1, OtherField
      <4>3. /\ form'.saved = call[c].got /\ form'.text[f] = form.text[f]
            /\ form'.text[Other(f)] = call[c].got[Other(f)]
        BY <1>0, <4>1, <4>2 DEF Saved, AccountTypes, FormRecords, Portraits
      <4>4. form.text[f] = call[c].text
        BY <1>0, <2>1, <4>1 DEF EditsArePending, Undisturbed
      <4>5. call[c].got[f] = call[c].text
        BY <1>0, <2>1, <4>1 DEF WritesAreWhole, Undisturbed
      <4> QED
        BY <4>2, <4>3, <4>4, <4>5
    <3> QED
      BY <3>1, <3>2, <3>3
  <2>5. \A d \in Calls, g \in Fields : (d \in Saves(g))' => d \in Saves(g) /\ call'[d] = call[d]
    BY <2>1, ClearedFlags DEF CallEnds, Saves, Idle
  <2>6. ASSUME NEW g \in Fields, NEW d \in Calls, (d \in Saves(g))'
        PROVE  /\ call[d].pc \in {"sent", "refused", "waiting"} => told'[g] \subseteq call[d].text
               /\ call[d].pc \in {"served", "answered"} => call[d].text = portrait[g]
               /\ call[d].pc = "answered" => call[d].got[g] = portrait[g]
    <3>1. d \in Saves(g) /\ d # c
      BY <2>1, <2>5, <2>6, ClearedFlags DEF CallEnds, Saves, Idle
    <3>2. c \notin Saves(g)
      BY <1>0, <2>1, <3>1 DEF WritersAreAlone, Undisturbed
    <3>3. told'[g] = told[g]
      BY <2>2, <3>2
    <3> QED
      BY <1>0, <2>1, <3>1, <3>3 DEF WritesAreWhole, Undisturbed
  <2> QED
    BY <2>1, <2>3, <2>4, <2>5, <2>6 DEF WritesAreWhole, Saves
<1>8. ASSUME NEW c \in Calls, OpenSettings(c) PROVE WritesAreWhole'
  <2>1. CallBegins(c, "load", {}) /\ portrait' = portrait /\ told' = told /\ Undisturbed
    BY <1>0, <1>8, OpenBegins DEF OpenSettings, store, Undisturbed
  <2>2. \A g \in Fields : form'.saved[g] \subseteq form'.text[g]
    BY <1>8 DEF OpenSettings, NoForm
  <2> QED
    BY <1>0, <2>1, <2>2, WritesStayWhole DEF CallBegins, Saves, Fields, Idle
<1>9. ASSUME NEW c \in Calls, NEW f \in Fields, SaveField(c, f) PROVE WritesAreWhole'
  <2>1. CallBegins(c, f, form.text[f]) /\ portrait' = portrait /\ told' = told
    BY <1>0, <1>9, SaveBegins DEF SaveField, store
  <2>2. /\ Undisturbed /\ form.saved[f] = portrait[f]
        /\ form'.saved = form.saved /\ form'.text = form.text
    BY <1>0, <1>9 DEF SaveField, Undisturbed, AccountTypes, FormRecords
  <2>3. told[f] \subseteq form.text[f] /\ \A g \in Fields :
             form'.saved[g] \subseteq form'.text[g]
    BY <1>0, <2>2 DEF WritesAreWhole, Undisturbed
  <2>4. ASSUME NEW g \in Fields, NEW d \in Saves(g)'
        PROVE  (d = c /\ g = f) \/ (d \in Saves(g) /\ call'[d] = call[d])
    <3>1. CASE d = c
      <4>1. call'[c].op = g
        BY <2>4, <3>1 DEF Saves
      <4> QED
        BY <2>1, <3>1, <4>1 DEF CallBegins
    <3>2. CASE d # c
      BY <2>1, <2>4, <3>2 DEF CallBegins, Saves, Idle
    <3> QED
      BY <3>1, <3>2
  <2> QED
    BY <1>0, <2>1, <2>2, <2>3, <2>4 DEF WritesAreWhole, Undisturbed, CallBegins
<1>10. ASSUME NEW c \in Calls, Serve(c) PROVE WritesAreWhole'
  <2>1. form' = form /\ told' = told /\ Undisturbed /\ call[c].pc = "sent" /\ ~ Idle(c)
    BY <1>10 DEF Serve, client, Undisturbed, Idle
  <2>2. CallsGoOn
    BY <1>0, <1>10, GoOnSteps
  <2>3. \A g \in Fields, d \in Calls : (d \in Saves(g))' <=> d \in Saves(g)
    BY <2>2 DEF CallsGoOn, Saves
  <2>4. \A d \in Calls \ {c} : call'[d] = call[d]
    BY <1>0, <1>10 DEF Serve, CallTo, SetCall, AccountTypes, CallRecords
  <2>5. ASSUME NEW g \in Fields
        PROVE  \/ /\ c \in Saves(g) /\ call'[c].pc = "served" /\ portrait'[g] = call[c].text
               \/ portrait'[g] = portrait[g] /\ (c \in Saves(g) => call'[c].pc = "refused")
    BY <1>0, <1>10, <2>1 DEF Serve, Written, CallTo, SetCall, Saves, AccountTypes, CallRecords,
       Portraits, Fields
  <2>6. ASSUME NEW g \in Fields PROVE told[g] \subseteq portrait'[g]
    BY <1>0, <2>1, <2>5 DEF WritesAreWhole, Undisturbed
  <2>7. ASSUME NEW g \in Fields, NEW d \in Saves(g)'
        PROVE  /\ call'[d].pc \in {"sent", "refused", "waiting"} => told[g] \subseteq call'[d].text
               /\ call'[d].pc \in {"served", "answered"} => call'[d].text = portrait'[g]
               /\ call'[d].pc = "answered" => call'[d].got[g] = portrait'[g]
    <3>1. d \in Calls /\ d \in Saves(g) /\ call'[d].text = call[d].text
      BY <2>2, <2>3, <2>7 DEF Saves, CallsGoOn
    <3>2. CASE d = c
      BY <1>0, <2>1, <2>5, <3>1, <3>2 DEF WritesAreWhole, Undisturbed
    <3>3. CASE d # c
      <4>1. c \notin Saves(g)
        BY <1>0, <2>1, <3>1, <3>3 DEF WritersAreAlone, Undisturbed
      <4> QED
        BY <1>0, <2>1, <2>4, <2>5, <3>1, <3>3, <4>1 DEF WritesAreWhole, Undisturbed
    <3> QED
      BY <3>2, <3>3
  <2> QED
    BY <1>0, <2>1, <2>6, <2>7 DEF WritesAreWhole, Undisturbed
<1>11. ASSUME NEW a \in Agents, AgentRead(a) PROVE WritesAreWhole'
  <2>1. call' = call /\ form' = form /\ portrait' = portrait /\ told' = told /\ Undisturbed
    BY <1>11 DEF AgentRead, store, Undisturbed
  <2> QED
    BY <1>0, <2>1, WritesStayWhole DEF Saves, Idle, WritesAreWhole, Undisturbed
<1>12. ASSUME NEW a \in Agents, AgentWrite(a) PROVE WritesAreWhole'
  <2>1. /\ call' = call /\ form'.saved = form.saved /\ form'.text = form.text
        /\ Undisturbed /\ a \in Reading
    BY <1>0, <1>12 DEF AgentWrite, AccountTypes, FormRecords, Undisturbed, Reading
  <2>2. Saves("mutable") = {} /\ agent[a].got = portrait["mutable"]
    BY <1>0, <2>1 DEF WritersAreAlone, Undisturbed
  <2>3. PICK old \in {agent[a].got, {}} :
          /\ portrait' = [portrait EXCEPT !["mutable"] = old \cup {a}]
          /\ told' = [told EXCEPT !["mutable"] = IF old = {} THEN {a} ELSE @ \cup {a}]
    BY <1>12 DEF AgentWrite
  <2>4. /\ portrait'["mutable"] = old \cup {a}
        /\ told'["mutable"] = IF old = {} THEN {a} ELSE told["mutable"] \cup {a}
        /\ \A g \in Fields \ {"mutable"} : portrait'[g] = portrait[g] /\ told'[g] = told[g]
    BY <1>0, <2>3 DEF AccountTypes, Portraits, Fields
  <2>5. \A g \in Fields : told'[g] \subseteq portrait'[g]
    BY <1>0, <2>1, <2>2, <2>3, <2>4 DEF WritesAreWhole, Undisturbed, Fields
  <2>6. \A g \in Fields : \A d \in Saves(g) : g # "mutable"
    BY <2>2
  <2> QED
    BY <1>0, <2>1, <2>4, <2>5, <2>6 DEF WritesAreWhole, Undisturbed, Saves, Idle
<1> QED
  BY <1>1, <1>2, <1>3, <1>4, <1>5, <1>6, <1>7, <1>8, <1>9, <1>10, <1>11, <1>12 DEF AccountNext

-----------------------------------------------------------------------------
\* The initial state satisfies the inductive invariant.
LEMMA InitIInv == AccountInit => AccountInv
<1> SUFFICES ASSUME AccountInit PROVE AccountInv
  OBVIOUS
<1> USE DEF AccountInit
<1>1. AccountTypes
  <2>1. call \in [Calls -> CallRecords]
    BY Nothing
  <2>2. agent \in [Agents -> [pc : {"idle", "read", "done"}, got : SUBSET Lines]]
    OBVIOUS
  <2>3. lines \in 0 .. MaxLines
    BY LinesAreNumbers
  <2>4. refresh \in [pc : {"none", "sent", "ok", "failed"}, token : Tokens]
    BY DEF NoRefresh, Tokens
  <2> QED
    BY <2>1, <2>2, <2>3, <2>4, Nothing DEF AccountTypes, Tokens
<1>2. \A c \in Calls : call[c] = NoCall /\ Idle(c) /\ ~ call[c].form
  BY ClearedFlags DEF Idle
<1>3. \A f \in Fields : ~ \E c \in Calls : c \in Saves(f)
  BY <1>2 DEF Saves
<1>4. \A f \in Fields : Empty[f] = {}
  BY DEF Empty
<1>5. /\ NoForm.text = Empty /\ NoForm.saved = Empty /\ NoForm.typed = Empty
      /\ NoForm.saving = {} /\ ~ NoForm.alive /\ ~ NoForm.loading
      /\ NoCall.text = {} /\ NoCall.got = Empty /\ NoCall.pc = "idle"
  BY DEF NoForm, NoCall
<1>6. FormOwnsCalls
  BY <1>2, <1>5 DEF FormOwnsCalls, FormNeedsSession, IdleIsEmpty, FormHearsCalls,
     OneRequestEach, SavingIsShown, Saving
<1>7. LogoutLasts /\ LoginLasts
  BY DEF LogoutLasts, LoginLasts
<1>8. UntypedIsNowhere
  BY <1>2, <1>4, <1>5 DEF UntypedIsNowhere
<1>9. EditsArePending
  BY <1>2, <1>4, <1>5 DEF EditsArePending, Saving
<1>10. AnswersAreStored
  BY <1>2, <1>5 DEF AnswersAreStored, BaselineIsStored
<1>11. WritersAreAlone
  BY <1>3 DEF WritersAreAlone, Reading, Saves
<1>12. WritesAreWhole
  BY <1>3, <1>4, <1>5 DEF WritesAreWhole, Saves
<1> QED
  BY <1>1, <1>6, <1>7, <1>8, <1>9, <1>10, <1>11, <1>12 DEF AccountInv

\* The inductive invariant holds of every state.
THEOREM AccountInvariance == AccountSpec => []AccountInv
<1>1. AccountInv /\ [AccountNext]_accountVars => AccountInv'
  BY TypesStep, FormStep, LogoutStep, LoginStep, UntypedStep, PendingStep, AnswersStep,
     WritersStep, WritesStep DEF AccountInv
<1> QED
  BY InitIInv, <1>1, PTL DEF AccountSpec

\* Every variable keeps its type, and a field is disabled exactly while a request of
\* the form saves it, for every number of requests and agents.
THEOREM AccountTyped == AccountSpec => []AccountTypeOK
<1>1. AccountInv => AccountTypeOK
  <2> SUFFICES ASSUME AccountInv PROVE AccountTypeOK
    OBVIOUS
  <2>1. form.saving = {call[c].op : c \in {d \in Calls : ~ Idle(d) /\ call[d].form}} \ {"load"}
    <3>1. \A c \in Calls : call[c].form => ~ Idle(c) /\ call[c].op \in {"load"} \cup Fields
      BY DEF AccountInv, FormOwnsCalls, FormHearsCalls, IdleIsEmpty, AccountTypes, CallRecords
    <3>2. form.saving \subseteq Fields /\ "load" \notin Fields
      BY DEF AccountInv, AccountTypes, FormRecords, Fields
    <3> QED
      BY <3>1, <3>2 DEF AccountInv, FormOwnsCalls, SavingIsShown, Saving
  <2>2. {portrait, told, form.text, form.saved, form.typed} \subseteq Portraits
    BY DEF AccountInv, AccountTypes, FormRecords
  <2> QED

      BY <2>1, <2>2
        DEF AccountInv, AccountTypes, Tokens, FormOwnsCalls, FormNeedsSession, AccountTypeOK
<1> QED
  BY AccountInvariance, <1>1, PTL

\* A logout ends the session for good unless a refresh was under way or the request
\* failed; a login lasts until a refresh fails.
THEOREM SessionIsTheUsers == AccountSpec => []SessionFollowsUser
<1>1. AccountInv => SessionFollowsUser
  BY DEF AccountInv, AccountTypes, LogoutLasts, LoginLasts, SessionFollowsUser
<1> QED
  BY AccountInvariance, <1>1, PTL

\* What the user typed stays in the form until it is saved, and the form's baseline is
\* what the server holds.
THEOREM PortraitIsSafe == AccountSpec => []PortraitIsKept
<1>1. AccountInv => PortraitIsKept
  BY DEF AccountInv, EditsArePending, AnswersAreStored, PortraitIsKept, EditsAreKept,
    BaselineIsStored
<1> QED
  BY AccountInvariance, <1>1, PTL

\* The server holds every line it said it holds.
THEOREM MemoryIsSafe == AccountSpec => []MemoryIsKept
<1>1. AccountInv => MemoryIsKept
  BY DEF AccountInv, WritesAreWhole, MemoryIsKept
<1> QED
  BY AccountInvariance, <1>1, PTL
=============================================================================
