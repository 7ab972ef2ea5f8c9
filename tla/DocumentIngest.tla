--------------------------- MODULE DocumentIngest ---------------------------
(***************************************************************************)
(* One document: its row, its versions with their objects in the object    *)
(* store, its node in the knowledge tree and its chunks.  Writers create   *)
(* and edit it (DocumentService), ingestions cut its current version into  *)
(* chunks (Ingestor): the one a knowledge document starts when written,    *)
(* the user's requests, and the periodic sweep over dirty documents.       *)
(*                                                                         *)
(* A text is the set of the writers whose edits it holds.  A version row is *)
(* named by its position in versions; its object's key is its version      *)
(* number, which two rows may share, since no index forbids it.            *)
(***************************************************************************)
EXTENDS Naturals, Sequences, FiniteSets

CONSTANTS
  Writers,     \* clients that create and edit the document, one call at a time each
  Ingests,     \* goroutines that run Ingest on it, one at a time each
  None,        \* no text
  MaxEdits,    \* bound: calls of AddVersion and ApplyEdits
  MaxFaults    \* bound: calls and commands that fail

ASSUME DocumentAssumption ==
  MaxEdits \in Nat /\ MaxFaults \in Nat

Texts   == (SUBSET Writers) \ {{}}
Numbers == 1 .. MaxEdits + 1

VARIABLES
  source,      \* "note" or "knowledge"
  status,      \* chunk_status; "none": there is no row
  current,     \* current_version_id, 0: NULL
  archived,    \* archived_at is set
  versions,    \* version rows [num, hash]; hash None: NULL
  objects,     \* text of each object, None: no object
  parents, children,   \* chunk rows: the ingestion that made them and its text
  node,        \* the tree holds a pointer to the document
  writer,      \* locals of each writer
  ingest,      \* locals of each ingestion
  archive,     \* "idle", "nodes" or "done"
  faults, calls,       \* counters of MaxFaults and MaxEdits
  \* History: the text if calls took effect one at a time; writers overlapped;
  \* an ingestion started beside another or on a chunked document; a version
  \* became current under an ingestion; one found no version; Archive ran before
  \* the document was complete.
  want, edited, repeated, overtaken, early, hasty

doc     == <<source, status, current, archived>>
data    == <<versions, objects>>
chunks  == <<parents, children>>
bounds  == <<faults, calls>>
history == <<want, edited, repeated, overtaken, early, hasty>>
vars    == <<doc, data, chunks, node, writer, ingest, archive, bounds, history>>

NewWriter == [pc |-> "idle", op |-> "create", base |-> 0, text |-> None, num |-> 0,
              id |-> 0]
NewIngest == [pc |-> "idle", text |-> None]

Writing(w)   == writer[w].pc \notin {"idle", "done", "failed"}
Ingesting(g) == ingest[g].pc # "idle"

SetWriter(w, r) == writer' = [writer EXCEPT ![w] = r]
SetIngest(g, r) == ingest' = [ingest EXCEPT ![g] = r]
WriterTo(w, pc) == SetWriter(w, [writer[w] EXCEPT !.pc = pc])
Return(w, pc)   == SetWriter(w, [NewWriter EXCEPT !.pc = pc])
IngestEnds(g, pc) == SetIngest(g, [NewIngest EXCEPT !.pc = pc])
IngestTo(g, pc) == SetIngest(g, [ingest[g] EXCEPT !.pc = pc])

\* What the object of a version row holds.
Text(i) == objects[versions[i].num]
-----------------------------------------------------------------------------
Init ==
  /\ source \in {"note", "knowledge"}
  /\ status = "none" /\ current = 0 /\ archived = FALSE
  /\ versions = <<>>
  /\ objects = [n \in Numbers |-> None]
  /\ parents = {} /\ children = {} /\ node = FALSE
  /\ writer = [w \in Writers |-> NewWriter]
  /\ ingest = [g \in Ingests |-> NewIngest]
  /\ archive = "idle" /\ faults = 0 /\ calls = 0
  /\ want = None /\ edited = FALSE /\ repeated = FALSE
  /\ overtaken = FALSE /\ early = FALSE /\ hasty = FALSE
-----------------------------------------------------------------------------
(* createInternal, AddVersion, ApplyEdits and writeNewVersion. *)

Create(w) ==
  /\ writer[w].pc = "idle" /\ status = "none"
  /\ status' = "dirty"
  /\ SetWriter(w, [NewWriter EXCEPT !.pc = "put", !.text = {w}, !.num = 1])
  /\ UNCHANGED <<source, current, archived, data, chunks, node, ingest, archive,
                 bounds, history>>

\* FindByID; a knowledge document is not editable.  Bound: the creation, which
\* returns the id, is over.
Edit(w) ==
  /\ writer[w].pc \in {"idle", "done"} /\ status # "none" /\ source = "note"
  /\ \A v \in Writers : Writing(v) => writer[v].op # "create"
  /\ calls < MaxEdits /\ calls' = calls + 1
  /\ \/ SetWriter(w, [NewWriter EXCEPT !.op = "edit", !.pc = "read", !.base = current])
     \/ SetWriter(w, [NewWriter EXCEPT !.op = "whole", !.pc = "hash", !.base = current,
                                       !.text = {w}])
  /\ edited' = (edited \/ \E v \in Writers : Writing(v))
  /\ UNCHANGED <<doc, data, chunks, node, ingest, archive, faults,
                 want, repeated, overtaken, early, hasty>>

\* Defect: edits are applied to the first version.
ReadFirst(w) ==
  /\ writer[w].pc = "read"
  /\ IF current = 0 THEN Return(w, "failed")
     ELSE SetWriter(w, [writer[w] EXCEPT !.pc = "hash", !.text = Text(1) \cup {w}])
  /\ UNCHANGED <<doc, data, chunks, node, ingest, archive, bounds, history>>

\* ReadCurrent: the row again and its version; without one the call fails.
ReadCurrent(w) ==
  /\ writer[w].pc = "read"
  /\ IF current = 0 THEN Return(w, "failed")
     ELSE SetWriter(w, [writer[w] EXCEPT !.pc = "hash",
                                           !.text = Text(current) \cup {w}])
  /\ UNCHANGED <<doc, data, chunks, node, ingest, archive, bounds, history>>

\* COALESCE(MAX(version), 0) + 1.
NextVersion ==
  CHOOSE n \in Numbers : /\ \A i \in 1 .. Len(versions) : versions[i].num < n
                         /\ n = 1 \/ \E i \in 1 .. Len(versions) : versions[i].num = n - 1

\* A text whose hash the version read first has is not written again, unless the
\* title changes as well.  Version rows never change, so that the numbering may
\* go with the comparison.
NumberVersion(w) ==
  LET base == writer[w].base IN
  /\ writer[w].pc = "hash"
  /\ \/ SetWriter(w, [writer[w] EXCEPT !.pc = "put", !.base = 0, !.num = NextVersion])
     \/ base # 0 /\ versions[base].hash = writer[w].text /\ Return(w, "done")
  /\ UNCHANGED <<doc, data, chunks, node, ingest, archive, bounds, history>>

PutObject(w) ==
  /\ writer[w].pc = "put"
  /\ objects' = [objects EXCEPT ![writer[w].num] = writer[w].text]
  /\ WriterTo(w, "insert")
  /\ UNCHANGED <<doc, versions, chunks, node, ingest, archive, bounds, history>>

\* Defect: the version's id is taken as known before its row is inserted.
InsertVersionLater(w) ==
  /\ writer[w].pc = "insert"
  /\ SetWriter(w, [writer[w] EXCEPT !.pc = "current", !.id = Len(versions) + 1,
                                    !.text = None, !.num = 0])
  /\ UNCHANGED <<doc, data, chunks, node, ingest, archive, bounds, history>>

\* createInternal leaves the hash NULL.
InsertVersion(w) ==
  /\ writer[w].pc = "insert"
  /\ versions' = Append(versions,
       [num |-> writer[w].num,
        hash |-> IF writer[w].op = "create" THEN None ELSE writer[w].text])
  /\ SetWriter(w, [writer[w] EXCEPT !.pc = "current", !.id = Len(versions'),
                                    !.text = None, !.num = 0])
  /\ UNCHANGED <<doc, objects, chunks, node, ingest, archive, bounds, history>>

\* UpdateCurrentVersion; then an edit marks the document dirty, while a creation
\* goes on to the tree.
SetCurrent(w) ==
  LET op == writer[w].op IN
  /\ writer[w].pc = "current"
  /\ current' = writer[w].id
  /\ \/ op # "create"
        /\ SetWriter(w, [NewWriter EXCEPT !.pc = "dirty", !.op = op, !.id = writer[w].id])
     \/ op = "create" /\ source = "knowledge" /\ Return(w, "node")
     \/ op = "create" /\ source = "note" /\ Return(w, "done")
  /\ want' = CASE edited -> None
               [] ~edited /\ op = "edit" -> want \cup {w}
               [] ~edited /\ op # "edit" -> {w}
  /\ overtaken' = (overtaken \/ \E g \in Ingests : ingest[g].pc \notin {"idle", "find"})
  /\ UNCHANGED <<source, status, archived, data, chunks, node, ingest, archive, bounds,
                 edited, repeated, early, hasty>>

\* Defect: a document chunked before stays so.
SetDirtyUnlessChunked(w) ==
  /\ writer[w].pc = "dirty"
  /\ status' = IF status = "chunked" THEN status ELSE "dirty"
  /\ Return(w, "done")
  /\ UNCHANGED <<source, current, archived, data, chunks, node, ingest, archive,
                 bounds, history>>

SetDirty(w) ==
  /\ writer[w].pc = "dirty"
  /\ status' = "dirty"
  /\ Return(w, "done")
  /\ UNCHANGED <<source, current, archived, data, chunks, node, ingest, archive,
                 bounds, history>>

InsertNode(w) ==
  /\ writer[w].pc = "node"
  /\ node' = TRUE
  /\ WriterTo(w, "launch")
  /\ UNCHANGED <<doc, data, chunks, ingest, archive, bounds, history>>

\* An error or a crash: nothing is undone.
WriterFails(w) ==
  /\ Writing(w)
  /\ faults < MaxFaults /\ faults' = faults + 1
  /\ SetWriter(w, [NewWriter EXCEPT !.pc = "failed",
                                    !.id = IF writer[w].pc = "dirty" THEN writer[w].id ELSE 0])
  /\ UNCHANGED <<doc, data, chunks, node, ingest, archive, calls, history>>

WriterStep(w) ==
  \/ Create(w) \/ Edit(w) \/ ReadCurrent(w) \/ NumberVersion(w)
  \/ PutObject(w) \/ InsertVersion(w) \/ SetCurrent(w)
  \/ SetDirty(w) \/ InsertNode(w) \/ WriterFails(w)
-----------------------------------------------------------------------------
(* Archive: the row, then its pointers in the tree. *)

\* Bound: once, and of a knowledge document, which has a node.
ArchiveRow ==
  /\ archive = "idle" /\ status # "none" /\ source = "knowledge"
  /\ archived' = TRUE
  /\ archive' = "nodes"
  /\ hasty' = \E w \in Writers : writer[w].op = "create" /\ Writing(w)
  /\ UNCHANGED <<source, status, current, data, chunks, node, writer, ingest, bounds,
                 want, edited, repeated, overtaken, early>>

DeleteNodes ==
  /\ archive = "nodes"
  /\ archive' = "done"
  /\ \/ node' = FALSE /\ UNCHANGED faults
     \/ faults < MaxFaults /\ faults' = faults + 1 /\ UNCHANGED node
  /\ UNCHANGED <<doc, data, chunks, writer, ingest, calls, history>>
-----------------------------------------------------------------------------
(* Ingest and replaceChunks, and who starts them. *)

Start(g) ==
  /\ ~Ingesting(g)
  /\ IngestTo(g, "find")
  /\ repeated' = (repeated \/ status = "chunked" \/ \E h \in Ingests : Ingesting(h))

\* maybeIngestOnWrite: the goroutine of a knowledge document's creation.
IngestOnWrite(w, g) ==
  /\ writer[w].pc = "launch"
  /\ Start(g)
  /\ Return(w, "done")
  /\ UNCHANGED <<doc, data, chunks, node, archive, bounds,
                 want, edited, overtaken, early, hasty>>

\* IngestOne: any status but chunked.  IngestAll: the same unless archived.
Request(g) ==
  /\ status \notin {"none", "chunked"}
  /\ Start(g)
  /\ UNCHANGED <<doc, data, chunks, node, writer, archive, bounds,
                 want, edited, overtaken, early, hasty>>

\* The sweep has listed the document and comes to it some time later.
Sweep(g) ==
  /\ status = "dirty" /\ ~archived
  /\ Start(g)
  /\ UNCHANGED <<doc, data, chunks, node, writer, archive, bounds,
                 want, edited, overtaken, early, hasty>>

\* FindByID, FindCurrent and the object's text.
Fetch(g) ==
  /\ ingest[g].pc = "find"
  /\ IF current = 0 THEN IngestEnds(g, "error")
     ELSE SetIngest(g, [pc |-> "clear", text |-> Text(current)])
  /\ early' = (early \/ current = 0)
  /\ UNCHANGED <<doc, data, chunks, node, writer, archive, bounds,
                 want, edited, repeated, overtaken, hasty>>

ClearChunks(g) ==
  /\ ingest[g].pc = "clear"
  /\ parents' = {} /\ children' = {}
  /\ IngestTo(g, "parents")
  /\ UNCHANGED <<doc, data, node, writer, archive, bounds, history>>

InsertParents(g) ==
  /\ ingest[g].pc = "parents"
  /\ parents' = parents \cup {<<g, ingest[g].text>>}
  /\ IngestTo(g, "children")
  /\ UNCHANGED <<doc, data, children, node, writer, archive, bounds, history>>

InsertChildren(g) ==
  /\ ingest[g].pc = "children"
  /\ children' = children \cup {<<g, ingest[g].text>>}
  /\ IngestEnds(g, "mark")
  /\ UNCHANGED <<doc, data, parents, node, writer, archive, bounds, history>>

MarkChunked(g) ==
  /\ ingest[g].pc = "mark"
  /\ status' = "chunked"
  /\ IngestEnds(g, "idle")
  /\ UNCHANGED <<source, current, archived, data, chunks, node, writer, archive,
                 bounds, history>>

MarkError(g) ==
  /\ ingest[g].pc = "error"
  /\ status' = "error"
  /\ IngestEnds(g, "idle")
  /\ UNCHANGED <<source, current, archived, data, chunks, node, writer, archive,
                 bounds, history>>

\* A command fails: fetching, splitting, embedding and inserting lead to
\* markError; a text without chunks clears the old ones first; MarkChunked and
\* markError itself, whose context may have expired, only log.
IngestFails(g) ==
  /\ Ingesting(g)
  /\ faults < MaxFaults /\ faults' = faults + 1
  /\ \/ ingest[g].pc \notin {"mark", "error"} /\ IngestEnds(g, "error") /\ UNCHANGED chunks
     \/ ingest[g].pc = "clear" /\ IngestEnds(g, "error") /\ parents' = {} /\ children' = {}
     \/ IngestEnds(g, "idle") /\ UNCHANGED chunks            \* also: a crash
  /\ UNCHANGED <<doc, data, node, writer, archive, calls, history>>

IngestStep(g) ==
  \/ Fetch(g) \/ ClearChunks(g) \/ InsertParents(g) \/ InsertChildren(g)
  \/ MarkChunked(g) \/ MarkError(g) \/ IngestFails(g)

Next ==
  \/ \E w \in Writers : WriterStep(w) \/ \E g \in Ingests : IngestOnWrite(w, g)
  \/ ArchiveRow \/ DeleteNodes
  \/ \E g \in Ingests : Request(g) \/ Sweep(g) \/ IngestStep(g)

Spec == Init /\ [][Next]_vars
-----------------------------------------------------------------------------
(* Properties. *)

\* Every variable keeps the type the code gives it.
TypeOK ==
  /\ source \in {"note", "knowledge"}
  /\ status \in {"none", "dirty", "chunked", "error"}
  /\ current \in 0 .. Len(versions)
  /\ \A i \in 1 .. Len(versions) :
       versions[i].num \in Numbers /\ versions[i].hash \in Texts \cup {None}
  /\ objects \in [Numbers -> Texts \cup {None}]
  /\ parents \cup children \subseteq Ingests \X Texts
  /\ {archived, node} \subseteq BOOLEAN
  /\ \A w \in Writers : writer[w].num \in 0 .. MaxEdits + 1
  /\ \A g \in Ingests : ingest[g].text \in Texts \cup {None}
  /\ faults \in 0 .. MaxFaults

\* One writer at a time, whichever of them fail at whichever step: the current
\* version holds every edit that was made current, since the last overwriting.
EditsAreKept == current # 0 /\ ~edited => Text(current) = want

\* One writer at a time: no two versions share a number, and an object still
\* holds what its version's hash was computed from.
VersionsAreKept ==
  ~edited =>
    \A i, j \in 1 .. Len(versions) :
      /\ i # j => versions[i].num # versions[j].num
      /\ versions[i].hash # None => Text(i) = versions[i].hash

\* A document that is chunked, and so retrieved, has the parents and children of
\* one ingestion, unless it was ingested twice: two ingestions ran together, or
\* the one of its creation found that the sweep had already chunked it.
ChunksAreWhole ==
  status = "chunked" /\ ~repeated =>
    Cardinality(children) = 1 /\ parents = children

\* Its chunks are of the current text, unless a version became current while it
\* was being ingested, or a writer made one current and never marked it dirty.
ChunksAreCurrent ==
  status = "chunked" /\ ~edited /\ ~overtaken =>
    \/ \A c \in children : c[2] = Text(current)
    \/ \E w \in Writers : writer[w].pc \in {"dirty", "failed"} /\ writer[w].id = current

\* A document ends in error, from where no sweep fetches it, only when a command
\* failed or the sweep came before its first version was current.
ErrorNeedsCause == status = "error" => faults > 0 \/ early

\* An archived document keeps no pointer in the tree unless its deletion failed or
\* the document was archived before its creation came to the tree.
ArchivedHasNoNode == archive = "done" /\ node => faults > 0 \/ hasty

\* Whichever command fails, and races apart, a document keeps what was written to it
\* and an archived one leaves nothing in the tree.
WritesAreKept == EditsAreKept /\ VersionsAreKept /\ ArchivedHasNoNode

\* What is retrieved is one ingestion's chunks of the current text, and a document
\* leaves the sweep's reach for a cause only.
ChunksFollowText == ChunksAreWhole /\ ChunksAreCurrent /\ ErrorNeedsCause
=============================================================================
