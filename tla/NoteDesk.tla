------------------------------ MODULE NoteDesk ------------------------------
(***************************************************************************)
(* The notes of one user as the browser handles them: the list of notes     *)
(* (NotesPanel), the editor (NoteEditor), the preview beside the chat        *)
(* (DocumentPreviewView) and the layout that chooses between them            *)
(* (ChatLayout) from the address, which is the single source of truth.       *)
(* Requests are answered at any later time, after the component that sent    *)
(* them may have gone; useAsyncState drops an answer that a later request    *)
(* of its own has overtaken.  Effects run before the next event (React), so  *)
(* events wait until the page is Settled.                                    *)
(*                                                                         *)
(* A text is the note it was loaded from and the edits it holds.             *)
(***************************************************************************)
EXTENDS Naturals, Sequences, FiniteSets

CONSTANTS
  Notes,       \* notes; the first ones exist, the others may be created
  Existing,    \* the notes that exist at first
  Id,          \* the id of each note's document
  None,        \* nothing; an archived or future note
  PageSize,    \* notes the list asks for: 60
  MaxEdits,    \* bound: edits typed
  MaxEvents,   \* bound: events of the user
  MaxFaults    \* bound: requests that fail

Edits == 1 .. MaxEdits
Texts == [of : Notes, edits : SUBSET Edits]
Paths == Notes \cup {"chat", "grid"}

ASSUME DeskAssumption ==
  /\ Id \in [Notes -> Nat] /\ PageSize \in Nat
  /\ Existing \subseteq Notes /\ None \notin Paths /\ None \notin Texts
  /\ MaxEdits \in Nat /\ MaxEvents \in Nat /\ MaxFaults \in Nat

VARIABLES
  stored,      \* the server's text of each note, None: archived or not created
  path,        \* the address
  push,        \* the address router.push has yet to reach, None: none
  view,        \* viewStore.view
  editing,     \* noteEditingDocId
  intent,      \* the document of pendingChatIntent
  panel,       \* NotesPanel: the path its effect saw, selectedId, its list and
               \* the request for it, selectedIds, whether its DraftCard waits for a
               \* creation, whether it is the one that asked for the creation under way
  editor,      \* NoteEditor of panel.selected
  preview,     \* DocumentPreviewView and panelStore.previewDocId
  attached,    \* panelStore.attachedDocs
  saves,       \* updates under way
  archives,    \* archivings under way: the note and who waits for it
  creating,    \* the note being created
  going,       \* the note NoteEditor fetches to take it to the chat
  typed, events, faults,     \* counters of MaxEdits, MaxEvents, MaxFaults
  \* History: edits of each note the user was told are saved; a save followed a
  \* load that had failed; a note was loaded while a save of it was under way; the
  \* list failed to load, or a request that may have changed a note was told to have
  \* failed, since the list was last loaded; an answer came after its panel was gone.
  acked, blind, reopened, unloaded, orphaned

address == <<path, push, view>>
signals == <<editing, intent>>
beside  == <<preview, attached>>
waiting == <<saves, archives, creating, going>>
bounds  == <<typed, events, faults>>
history == <<acked, blind, reopened, unloaded, orphaned>>
vars    == <<stored, address, signals, panel, editor, beside, waiting, bounds, history>>

\* A request of useAsyncState: none, sent, or read by the server, with what it read.
NoPanel   == [seen |-> None, selected |-> None, list |-> None, req |-> "none", got |-> None,
              chosen |-> {}, creates |-> FALSE, asked |-> FALSE]
NewPanel  == [NoPanel EXCEPT !.req = "sent"]
NoEditor  == [text |-> None, req |-> "none", got |-> None, failed |-> FALSE,
              saving |-> FALSE, deleting |-> FALSE]
NewEditor == [NoEditor EXCEPT !.req = "sent"]
NoPreview == [id |-> None, doc |-> None, req |-> "none", got |-> None, failed |-> FALSE]

\* The preview of document n, loaded unless it was shown already.
PreviewOf(p, n) ==
  IF n = p.id THEN p
  ELSE IF n = None THEN NoPreview
  ELSE [p EXCEPT !.id = n, !.req = "sent", !.failed = FALSE]
Attach(n) == IF n \in {attached[i] : i \in DOMAIN attached} THEN attached
             ELSE Append(attached, n)

ViewOf(p) == IF p = "chat" THEN "chat" ELSE "notes"

\* Defect: any address under /notes is taken for a note's.
IdInAny(p) == IF p = "chat" THEN None ELSE p

IdIn(p) == IF p \in Notes THEN p ELSE None
Live      == {n \in Notes : stored[n] # None}
\* ListByUser: the notes with the greatest ids.
Newest(t) == [n \in Notes |->
  IF Cardinality({m \in Notes : t[m] # None /\ Id[m] > Id[n]}) < PageSize THEN t[n] ELSE None]
Editing   == view = "notes" /\ panel.selected # None

\* Nothing an effect would still change.
Settled ==
  /\ view = ViewOf(path) /\ editing = None /\ intent = None
  /\ view = "notes" => panel.seen = path

\* An event of the user waits for the effects; an answer for those of the stores.
Event  == Settled /\ events < MaxEvents /\ events' = events + 1
Heeded == editing = None /\ intent = None
Fault  == faults < MaxFaults /\ faults' = faults + 1
-----------------------------------------------------------------------------
Init ==
  /\ stored = [n \in Notes |-> IF n \in Existing THEN [of |-> n, edits |-> {}] ELSE None]
  /\ path = "chat" /\ push = None /\ view = "chat" /\ editing = None /\ intent = None
  /\ panel = NoPanel /\ editor = NoEditor
  /\ preview = NoPreview /\ attached = <<>>
  /\ saves = {} /\ archives = {} /\ creating = None /\ going = None
  /\ typed = 0 /\ events = 0 /\ faults = 0
  /\ acked = [n \in Notes |-> {}] /\ blind = FALSE /\ reopened = FALSE
  /\ unloaded = FALSE /\ orphaned = FALSE
-----------------------------------------------------------------------------
(* The address and the effects that follow it. *)

\* The user follows a link, goes back or forward.
Visit ==
  /\ Event
  /\ \E p \in Paths \ {path} : path' = p
  /\ push' = None
  /\ UNCHANGED <<stored, view, signals, panel, editor, beside, waiting, typed, faults,
                 history>>

\* A pushed address is reached.
Land ==
  /\ Heeded
  /\ push # None /\ path' = push /\ push' = None
  /\ UNCHANGED <<stored, view, signals, panel, editor, beside, waiting, bounds, history>>

\* Defect: the effect runs once.
SelectedAtFirst == IF panel.seen = None THEN IdIn(path) ELSE panel.selected

\* The address effect of NotesPanel, run when it mounts and when the address changes.
SelectedByPath == IF panel.seen # path THEN IdIn(path) ELSE panel.selected

\* The document the preview's pencil sent is opened, whatever the address.
Selected == IF editing # None THEN editing ELSE SelectedByPath

\* A mounted editor whose documentId changes loads again and keeps its text.
Reopened(e, from, to) ==
  IF to = None THEN NoEditor
  ELSE IF from = None THEN NewEditor
  ELSE IF from # to THEN [e EXCEPT !.req = "sent", !.got = None, !.failed = FALSE]
  ELSE e

\* One run of the effects, children first: NotesPanel's two, then ChatLayout's
\* view, intent and safety effects, all with the values of one rendering.
Flush ==
  /\ ~ Settled
  /\ view' = ViewOf(path) /\ intent' = None
  /\ editing' = IF view = "notes" THEN None ELSE editing
  /\ attached' = IF view = "chat" /\ intent # None THEN Attach(intent) ELSE attached
  /\ preview' = IF view = "chat" /\ intent # None THEN PreviewOf(preview, intent)
                ELSE IF view = view' THEN preview
                ELSE [NoPreview EXCEPT !.id = preview.id,
                        !.req = IF view' = "chat" /\ preview.id # None THEN "sent" ELSE "none"]
  /\ panel' = IF view' = "chat" THEN NoPanel
              ELSE IF view = "chat" THEN NewPanel
              ELSE [panel EXCEPT !.seen = path, !.selected = Selected,
                      !.creates = @ /\ Selected = None]
  /\ editor' = Reopened(editor, panel.selected, panel'.selected)
  /\ saves' = {[s EXCEPT !.panel = @ /\ view' = "notes",
                         !.editor = @ /\ editor' # NoEditor] : s \in saves}
  /\ archives' = {[a EXCEPT !.panel = @ /\ view' = "notes",
                            !.editor = @ /\ editor' # NoEditor] : a \in archives}
  /\ unloaded' = (unloaded /\ view' = "notes")
  /\ orphaned' = (orphaned /\ view' = "notes")
  /\ UNCHANGED <<stored, path, push, creating, going, bounds, acked, blind, reopened>>
-----------------------------------------------------------------------------
(* The list of notes. *)

OnGrid == view = "notes" /\ panel.selected = None
Listed == {n \in Notes : panel.list # None /\ panel.list[n] # None}

OpenCard ==
  /\ Event
  /\ OnGrid /\ \E n \in Listed : push' = n
  /\ UNCHANGED <<stored, path, view, signals, panel, editor, beside, waiting, typed,
                 faults, history>>

\* toggleSelect
Choose ==
  /\ Event
  /\ OnGrid
  /\ \E n \in Listed : panel' = [panel EXCEPT !.chosen = (@ \ {n}) \cup ({n} \ @)]
  /\ UNCHANGED <<stored, address, signals, editor, beside, waiting, typed, faults, history>>

\* Defect: nothing is asked while an answer is awaited.
ReloadedOnce(p) == IF p.req = "none" THEN [p EXCEPT !.req = "sent"] ELSE p

\* reload: the answer to an earlier request is dropped.
Reloaded(p) == [p EXCEPT !.req = "sent", !.got = None]

\* Bound: when the list may have missed a change.
Refresh ==
  /\ Event
  /\ OnGrid /\ panel.req = "none" /\ unloaded /\ panel' = Reloaded(panel)
  /\ UNCHANGED <<stored, address, signals, editor, beside, waiting, typed, faults, history>>

\* DraftCard.  Bound: one creation at a time, also of cards that are gone.
CreateNote ==
  /\ Event
  /\ OnGrid /\ creating = None /\ ~ panel.creates
  /\ \E n \in Notes \ Existing :
       /\ stored[n] = None /\ acked[n] = {} /\ \A m \in Live : Id[m] < Id[n]
       /\ creating' = n
  /\ panel' = [panel EXCEPT !.creates = TRUE, !.asked = TRUE]
  /\ UNCHANGED <<stored, address, signals, editor, beside, saves, archives, going, typed,
                 faults,
                 history>>

\* onDeleteSelected: all the archivings are started together.  Bound: once at a time.
ArchiveChosen ==
  /\ Event
  /\ OnGrid /\ panel.chosen # {} /\ \A a \in archives : a.by # "list"
  /\ archives' = archives \cup
       {[note |-> n, by |-> "list", panel |-> TRUE, editor |-> FALSE] : n \in panel.chosen}
  /\ UNCHANGED <<stored, address, signals, panel, editor, beside, saves, creating, going,
                 typed, faults, history>>
-----------------------------------------------------------------------------
(* The editor.  Its fields and buttons are disabled while it loads. *)

\* Defect: the fields are enabled while the note loads.
ReadyAtOnce == Editing

Ready == Editing /\ editor.req = "none"

Type ==
  /\ Event
  /\ Ready /\ typed < MaxEdits /\ typed' = typed + 1
  /\ editor' = [editor EXCEPT !.text = IF editor.text = None
                  THEN [of |-> panel.selected, edits |-> {typed'}]
                  ELSE [editor.text EXCEPT !.edits = @ \cup {typed'}]]
  /\ UNCHANGED <<stored, address, signals, panel, beside, waiting, faults, history>>

\* onSave: the button, or Ctrl+S with the latest onSave.
Save ==
  /\ Event
  /\ Ready /\ ~ editor.saving /\ editor.text # None
  /\ saves' = saves \cup {[note |-> panel.selected, text |-> editor.text, panel |-> TRUE,
                           editor |-> TRUE]}
  /\ editor' = [editor EXCEPT !.saving = TRUE]
  /\ blind' = (blind \/ editor.failed)
  /\ UNCHANGED <<stored, address, signals, panel, beside, archives, creating, going,
                 typed, faults,
                 acked, reopened, unloaded, orphaned>>

\* onDelete
Delete ==
  /\ Event
  /\ Ready /\ ~ editor.deleting
  /\ archives' = archives \cup {[note |-> panel.selected, by |-> "editor", panel |-> TRUE,
                                 editor |-> TRUE]}
  /\ editor' = [editor EXCEPT !.deleting = TRUE]
  /\ UNCHANGED <<stored, address, signals, panel, beside, saves, creating, going, typed,
                 faults,
                 history>>

\* onBack
Back ==
  /\ Event
  /\ Editing /\ push' = "grid" /\ panel' = [panel EXCEPT !.chosen = {}]
  /\ UNCHANGED <<stored, path, view, signals, editor, beside, waiting, typed, faults,
                 history>>

\* onGoToChat fetches the document first.
GoToChat ==
  /\ Event
  /\ Editing /\ going = None /\ going' = panel.selected
  /\ UNCHANGED <<stored, address, signals, panel, editor, beside, saves, archives, creating,
                 typed, faults, history>>

\* The document has come, wherever the user is by now.
GoToChatAnswered ==
  /\ Heeded
  /\ going # None /\ going' = None
  /\ IF stored[going] # None THEN intent' = going /\ push' = "chat"
     ELSE UNCHANGED <<intent, push>>
  /\ UNCHANGED <<stored, path, view, editing, panel, editor, beside, saves, archives,
                 creating, bounds, history>>
-----------------------------------------------------------------------------
(* The chat's documents and their preview. *)

InChat == view = "chat"

\* handlePickDocument
Pick ==
  /\ Event
  /\ InChat /\ \E n \in Live : attached' = Attach(n) /\ preview' = PreviewOf(preview, n)
  /\ UNCHANGED <<stored, address, signals, panel, editor, waiting, typed, faults, history>>

\* A document is attached once: without it one place is free.
Without(i) == [k \in 1 .. Len(attached) - 1 |-> attached[IF k < i THEN k ELSE k + 1]]

\* removeAttachedDoc moves the preview to the first document left.
RemoveAttachedDoc ==
  /\ Event
  /\ InChat
  /\ \E i \in DOMAIN attached :
       /\ attached' = Without(i)
       /\ preview' = IF preview.id # attached[i] THEN preview
                     ELSE PreviewOf(preview, IF attached' = <<>> THEN None ELSE attached'[1])
  /\ UNCHANGED <<stored, address, signals, panel, editor, waiting, typed, faults, history>>

\* goPrev and goNext walk round the attached documents.
Navigate ==
  /\ Event
  /\ InChat /\ Len(attached) > 1
  /\ \E i \in DOMAIN attached :
       /\ attached[i] = preview.id
       /\ preview' = PreviewOf(preview, attached[(i % Len(attached)) + 1])
  /\ UNCHANGED <<stored, address, signals, panel, editor, attached, waiting, typed,
                 faults, history>>

\* The X of the preview; sending the message clears the attached documents.
ClearPreview ==
  /\ Event
  /\ InChat /\ preview.id # None /\ preview' = NoPreview
  /\ attached' \in {attached, <<>>}
  /\ UNCHANGED <<stored, address, signals, panel, editor, waiting, typed, faults, history>>

\* The pencil opens the document that is shown: the view changes, not the address.
Pencil ==
  /\ Event
  /\ InChat /\ preview.doc # None
  /\ editing' = preview.doc /\ view' = "notes"
  /\ panel' = NewPanel /\ preview' = [NoPreview EXCEPT !.id = preview.id]
  /\ UNCHANGED <<stored, path, push, intent, editor, attached, waiting, typed, faults,
                 history>>
-----------------------------------------------------------------------------
(* Requests of useAsyncState and of the preview: the server reads, the answer   *)
(* arrives, or the request fails.                                              *)

ListRead ==
  /\ Heeded
  /\ panel.req = "sent" /\ panel' = [panel EXCEPT !.req = "read", !.got = Newest(stored)]
  /\ unloaded' = FALSE /\ orphaned' = FALSE
  /\ UNCHANGED <<stored, address, signals, editor, beside, waiting, bounds, acked, blind,
                 reopened>>

ListArrives ==
  /\ Heeded
  /\ panel.req = "read" /\ panel' = [panel EXCEPT !.req = "none", !.list = panel.got,
                                                  !.got = None]
  /\ UNCHANGED <<stored, address, signals, editor, beside, waiting, bounds, history>>

ListFails ==
  /\ Heeded
  /\ panel.req = "sent" /\ Fault
  /\ panel' = [panel EXCEPT !.req = "none"] /\ unloaded' = TRUE
  /\ UNCHANGED <<stored, address, signals, editor, beside, waiting, typed, events, acked,
                 blind, reopened, orphaned>>

NoteRead ==
  /\ Heeded
  /\ editor.req = "sent" /\ stored[panel.selected] # None
  /\ editor' = [editor EXCEPT !.req = "read", !.got = stored[panel.selected]]
  /\ reopened' = (reopened \/ \E s \in saves : s.note = panel.selected)
  /\ UNCHANGED <<stored, address, signals, panel, beside, waiting, bounds, acked, blind,
                 unloaded, orphaned>>

\* The text is copied into the fields, over whatever they held.
NoteArrives ==
  /\ Heeded
  /\ editor.req = "read"
  /\ editor' = [editor EXCEPT !.req = "none", !.text = editor.got, !.got = None]
  /\ UNCHANGED <<stored, address, signals, panel, beside, waiting, bounds, history>>

\* The fields keep what they held.
NoteFails ==
  /\ Heeded
  /\ editor.req = "sent"
  /\ IF stored[panel.selected] = None THEN UNCHANGED faults ELSE Fault
  /\ editor' = [editor EXCEPT !.req = "none", !.failed = TRUE]
  /\ UNCHANGED <<stored, address, signals, panel, beside, waiting, typed, events, history>>

PreviewRead ==
  /\ Heeded
  /\ preview.req = "sent"
  /\ preview' = IF stored[preview.id] # None
                THEN [preview EXCEPT !.req = "read", !.got = preview.id]
                ELSE [preview EXCEPT !.req = "none", !.failed = TRUE]
  /\ UNCHANGED <<stored, address, signals, panel, editor, attached, waiting, bounds,
                 history>>

PreviewArrives ==
  /\ Heeded
  /\ preview.req = "read"
  /\ preview' = [preview EXCEPT !.req = "none", !.doc = preview.got, !.got = None]
  /\ UNCHANGED <<stored, address, signals, panel, editor, attached, waiting, bounds,
                 history>>
-----------------------------------------------------------------------------
(* Answers to changes. *)

\* reload, if the panel that asked is still there.
ReloadFor(r, p) ==
  /\ panel' = IF r.panel THEN Reloaded(p) ELSE panel
  /\ orphaned' = (orphaned \/ (~ r.panel /\ view = "notes"))

SaveLands(s) ==
  /\ Heeded
  /\ stored[s.note] # None
  /\ stored' = [stored EXCEPT ![s.note] = s.text]
  /\ acked' = [acked EXCEPT ![s.note] = @ \cup s.text.edits]
  /\ saves' = saves \ {s}
  /\ editor' = IF s.editor THEN [editor EXCEPT !.saving = FALSE] ELSE editor
  /\ ReloadFor(s, panel)
  /\ UNCHANGED <<address, signals, beside, archives, creating, going, bounds, blind,
                 reopened, unloaded>>

\* Refused, or failed: with the new version current already or its answer lost, the
\* text has changed all the same.
SaveFails(s) ==
  /\ Heeded
  /\ saves' = saves \ {s}
  /\ editor' = IF s.editor THEN [editor EXCEPT !.saving = FALSE] ELSE editor
  /\ \/ stored[s.note] = None /\ UNCHANGED <<stored, unloaded, faults>>
     \/ stored[s.note] # None /\ Fault /\ UNCHANGED <<stored, unloaded>>
     \/ stored[s.note] # None /\ Fault /\ unloaded' = TRUE
        /\ stored' = [stored EXCEPT ![s.note] = s.text]
  /\ UNCHANGED <<address, signals, panel, beside, archives, creating, going, typed, events,
                 acked, blind, reopened, orphaned>>

\* onCreated: the address follows, and the list is loaded again if its panel is there.
CreateLands ==
  /\ Heeded
  /\ creating # None /\ creating' = None
  /\ stored' = [stored EXCEPT ![creating] = [of |-> creating, edits |-> {}]]
  /\ push' = creating
  /\ ReloadFor([panel |-> panel.asked], [panel EXCEPT !.asked = FALSE])
  /\ UNCHANGED <<path, view, signals, editor, beside, saves, archives, going, bounds, acked,
                 blind, reopened, unloaded>>

\* Failed, before or after the note was there.
CreateFails ==
  /\ Heeded /\ Fault
  /\ creating # None /\ creating' = None
  /\ panel' = [panel EXCEPT !.creates = FALSE, !.asked = FALSE]
  /\ \/ UNCHANGED <<stored, unloaded>>
     \/ stored' = [stored EXCEPT ![creating] = [of |-> creating, edits |-> {}]] /\ unloaded' = TRUE
  /\ UNCHANGED <<address, signals, editor, beside, saves, archives, going, typed, events,
                 acked, blind, reopened, orphaned>>

\* Archived; the editor's archiving takes the user to the list from anywhere, the
\* list's is complete with its last note.
ArchiveLands(a) ==
  /\ Heeded
  /\ stored[a.note] # None
  /\ stored' = [stored EXCEPT ![a.note] = None]
  /\ archives' = archives \ {a}
  /\ push' = IF a.by = "editor" THEN "grid" ELSE push
  /\ IF a.by = "editor" \/ (a.by = "list" /\ \A b \in archives \ {a} : b.by # "list")
     THEN ReloadFor(a, [panel EXCEPT !.chosen = {}])
     ELSE /\ UNCHANGED panel
          /\ orphaned' = (orphaned \/ (a.by = "list" /\ ~ a.panel /\ view = "notes"))
  /\ unloaded' = (unloaded \/ a.by = "nobody")
  /\ UNCHANGED <<path, view, signals, editor, beside, saves, creating, going, bounds, acked,
                 blind, reopened>>

\* One failure ends the wait for its fellows; the note may be archived all the same.
ArchiveFails(a) ==
  /\ Heeded
  /\ archives' = {IF a.by = "list" /\ b.by = "list" THEN [b EXCEPT !.by = "nobody"] ELSE b :
                  b \in archives \ {a}}
  /\ editor' = IF a.editor THEN [editor EXCEPT !.deleting = FALSE] ELSE editor
  /\ \/ /\ IF stored[a.note] = None THEN UNCHANGED faults ELSE Fault
        /\ unloaded' = (unloaded \/ a.by = "list") /\ UNCHANGED stored
     \/ /\ stored[a.note] # None /\ Fault
        /\ unloaded' = TRUE /\ stored' = [stored EXCEPT ![a.note] = None]
  /\ UNCHANGED <<address, signals, panel, beside, saves, creating, going, typed, events,
                 acked, blind, reopened, orphaned>>
-----------------------------------------------------------------------------
UserEvent ==
  \/ Visit \/ OpenCard \/ Choose \/ Refresh \/ CreateNote \/ ArchiveChosen
  \/ Type \/ Save \/ Delete \/ Back \/ GoToChat
  \/ Pick \/ RemoveAttachedDoc \/ Navigate \/ ClearPreview \/ Pencil

Answer ==
  \/ ListRead \/ ListArrives \/ ListFails \/ NoteRead \/ NoteArrives \/ NoteFails
  \/ PreviewRead \/ PreviewArrives \/ GoToChatAnswered \/ CreateLands \/ CreateFails
  \/ \E s \in saves : SaveLands(s) \/ SaveFails(s)
  \/ \E a \in archives : ArchiveLands(a) \/ ArchiveFails(a)

Next == Flush \/ Land \/ UserEvent \/ Answer

Spec == Init /\ [][Next]_vars
-----------------------------------------------------------------------------
\* Every variable keeps its type.
TypeOK ==
  /\ stored \in [Notes -> Texts \cup {None}]
  /\ path \in Paths /\ push \in Paths \cup {None} /\ view \in {"chat", "notes"}
  /\ {editing, intent, panel.selected, creating, going, preview.id, preview.doc}
       \subseteq Notes \cup {None}
  /\ {panel.req, editor.req, preview.req} \subseteq {"none", "sent", "read"}
  /\ editor.text \in Texts \cup {None} /\ panel.chosen \subseteq Notes
  /\ \A s \in saves : s.note \in Notes /\ s.text \in Texts
  /\ \A a \in archives : a.note \in Notes /\ a.by \in {"editor", "list", "nobody"}

\* A note holds a text of its own and every edit the user was told is saved in it,
\* although the editor stays mounted and keeps its text while another note loads;
\* unless it saved after a load that had failed, or the note was opened while a save
\* of it was under way (useAsyncState, onSave).
TextsAreKept ==
  \A n \in Live : \/ blind
                  \/ stored[n].of = n /\ (reopened \/ acked[n] \subseteq stored[n].edits)

ListIsCurrent ==
  view = "notes" /\ panel.req = "none" /\ saves = {} /\ archives = {} /\ creating = None =>
    panel.list = Newest(stored) \/ unloaded \/ orphaned
PreviewIsCurrent ==
  view = "chat" /\ preview.req = "none" /\ ~ preview.failed => preview.doc = preview.id

\* When the list waits for no answer and no change is under way, it shows the
\* newest page of the server's notes, unless loading it failed, a change was told to
\* have failed, or it was asked for by a panel that is gone; a preview that is neither
\* loading nor failed shows the document chosen last (useAsyncState, onSaved,
\* onDeleted, onCreated, onDeleteSelected, DocumentPreviewView).
ShownIsCurrent == ListIsCurrent /\ PreviewIsCurrent

\* "URL is the single source of truth": once the effects have run, the view and the
\* note in the editor are the address's, and no signal of another view is left to
\* act later (pathnameToView, NotesPanel's and ChatLayout's effects).
AddressRules ==
  Settled => /\ view = ViewOf(path)
             /\ view = "notes" => panel.selected = IdIn(path)
             /\ view = "chat" => panel = NoPanel /\ editor = NoEditor

=============================================================================
