------------------------ MODULE DocumentIngestProofs ------------------------
(***************************************************************************)
(* Proofs about DocumentIngest, for every set of writers and ingestions and *)
(* for every bound.                                                         *)
(***************************************************************************)
EXTENDS DocumentIngest, FiniteSetTheorems, TLAPS

WriterPCs == {"idle", "put", "read", "hash", "insert", "current", "dirty", "node", "launch",
              "done", "failed"}
IngestPCs == {"idle", "find", "clear", "parents", "children", "mark", "error"}

WriterRecords ==
  [pc : WriterPCs, op : {"create", "edit", "whole"}, base : Nat, text : Texts \cup {None},
   num : 0 .. MaxEdits + 1, id : Nat]
IngestRecords == [pc : IngestPCs, text : Texts \cup {None}]
VersionRecords == [num : Numbers, hash : Texts \cup {None}]

Rows == 1 .. Len(versions)

Types ==
  /\ source \in {"note", "knowledge"} /\ status \in {"none", "dirty", "chunked", "error"}
  /\ current \in 0 .. Len(versions) /\ archived \in BOOLEAN /\ node \in BOOLEAN
  /\ versions \in Seq(VersionRecords)
  /\ objects \in [Numbers -> Texts \cup {None}]
  /\ parents \subseteq Ingests \X Texts /\ children \subseteq Ingests \X Texts
  /\ writer \in [Writers -> WriterRecords] /\ ingest \in [Ingests -> IngestRecords]
  /\ archive \in {"idle", "nodes", "done"}
  /\ faults \in 0 .. MaxFaults /\ calls \in 0 .. MaxEdits

\* What a writer has read and made at each point of its call.
WriterFits ==
  \A w \in Writers :
    /\ writer[w].id \in 0 .. Len(versions)
    /\ writer[w].pc \in {"hash", "put", "insert"} => writer[w].text \in Texts
    /\ writer[w].pc \in {"put", "insert"} => writer[w].num \in Numbers
    /\ writer[w].pc = "insert" => objects[writer[w].num] \in Texts
    /\ writer[w].pc = "current" => writer[w].id # 0
    /\ writer[w].pc \in {"node", "launch"} => writer[w].op = "create"
    /\ writer[w].pc \in {"hash", "dirty"} => writer[w].op # "create"
    /\ writer[w].pc = "read" => writer[w].op = "edit"

\* A version row comes after its object.
ObjectsExist == \A i \in Rows : objects[versions[i].num] \in Texts

\* The greatest number given, and how many calls have yet to take theirs.
Unnumbered == {w \in Writers : writer[w].pc \in {"read", "hash"}}
NumbersFit ==
  /\ IsFiniteSet(Unnumbered) /\ Cardinality(Unnumbered) <= calls
  /\ \E top \in Nat :
       /\ top + Cardinality(Unnumbered) <= calls + 1
       /\ \A i \in Rows : versions[i].num <= top
       /\ top = 0 \/ \E i \in Rows : versions[i].num = top
  /\ \A w \in Writers : writer[w].pc \in {"put", "insert"} =>
       writer[w].num + Cardinality(Unnumbered) <= calls + 1

\* Nothing comes before the creation, and nobody writes beside it.
CreationIsFirst ==
  /\ status = "none" => /\ versions = <<>> /\ archive = "idle" /\ ~ edited
                        /\ \A w \in Writers : ~ Writing(w)
                        /\ \A g \in Ingests : ~ Ingesting(g)
  /\ \A w \in Writers : Writing(w) /\ writer[w].op = "create" =>
       /\ \A v \in Writers : Writing(v) => v = w
       /\ writer[w].pc \in {"put", "insert"} => versions = <<>>
       /\ writer[w].pc \in {"put", "insert", "current"} => current = 0 /\ ~ edited

\* What the current version of a writer's call will hold.
Intended(w) == IF writer[w].op = "edit" THEN Text(current) \cup {w} ELSE {w}

\* One writer at a time: its number is new, its text is the one intended, and so is
\* the version it made.
WriterIsAlone ==
  ~ edited =>
    /\ \A v, w \in Writers : Writing(v) /\ Writing(w) => v = w
    /\ \A w \in Writers :
         /\ writer[w].pc \in {"put", "insert"} => \A i \in Rows : versions[i].num # writer[w].num
         /\ writer[w].pc \in {"hash", "put", "insert"} => writer[w].text = Intended(w)
         /\ writer[w].pc = "insert" => objects[writer[w].num] = writer[w].text
         /\ writer[w].pc = "current" => Text(writer[w].id) = Intended(w)
         /\ writer[w].pc \in {"hash", "put", "insert", "current"} /\ writer[w].op = "edit" =>
              current # 0
    /\ EditsAreKept
    /\ VersionsAreKept

\* After Archive, unless it was hasty, nobody is left to put the document in the tree.
ArchiveIsLast ==
  archive # "idle" /\ ~ hasty =>
    /\ \A w \in Writers : ~ (Writing(w) /\ writer[w].op = "create")
    /\ archive = "done" /\ node => faults > 0

\* An ingestion past its fetch has a text, so that the document has a version.
IngestFits ==
  /\ \A g \in Ingests : /\ ingest[g].pc \in {"clear", "parents", "children"} =>
                             ingest[g].text \in Texts
                        /\ ingest[g].pc = "error" => faults > 0 \/ early
  /\ current = 0 => /\ status # "chunked" /\ children = {}
                    /\ \A g \in Ingests : ingest[g].pc \in {"idle", "find", "error"}

\* One ingestion at a time, of a document that is not chunked: how far its chunks are.
IngestIsAlone ==
  ~ repeated =>
    /\ \A g, h \in Ingests : Ingesting(g) /\ Ingesting(h) => g = h
    /\ \A g \in Ingests :
         /\ Ingesting(g) => status # "chunked"
         /\ ingest[g].pc = "parents" => parents = {} /\ children = {}
         /\ ingest[g].pc = "children" => parents = {<<g, ingest[g].text>>} /\ children = {}
         /\ ingest[g].pc = "mark" => parents = children /\ \E x : children = {x}
    /\ status = "chunked" => parents = children /\ \E x : children = {x}

\* No version became current under an ingestion: the text it fetched is the current
\* one, and once it has cleared the chunks so is theirs.
ChunksAreFresh ==
  ~ edited /\ ~ overtaken =>
    /\ \A g \in Ingests : ingest[g].pc \in {"clear", "parents", "children"} =>
         ingest[g].text = Text(current)
    /\ (\E g \in Ingests : ingest[g].pc \in {"parents", "children", "mark"}) =>
         \A c \in children : c[2] = Text(current)
    /\ ChunksAreCurrent

IInv ==
  /\ Types
  /\ WriterFits
  /\ ObjectsExist
  /\ NumbersFit
  /\ CreationIsFirst
  /\ WriterIsAlone
  /\ ArchiveIsLast
  /\ IngestFits
  /\ IngestIsAlone
  /\ ChunksAreFresh
  /\ ErrorNeedsCause
-----------------------------------------------------------------------------
(* Writers and ingestions, one at a time. *)

\* Only w changes, and becomes r.
Becomes(w, r) == /\ writer' \in [Writers -> WriterRecords] /\ writer'[w] = r
                 /\ \A v \in Writers : v # w => writer'[v] = writer[v]
IngestBecomes(g, r) == /\ ingest' \in [Ingests -> IngestRecords] /\ ingest'[g] = r
                       /\ \A h \in Ingests : h # g => ingest'[h] = ingest[h]

\* A writer's record and its fields.
LEMMA WriterTypes ==
  ASSUME Types, NEW w \in Writers
  PROVE  /\ writer[w] \in WriterRecords /\ writer[w].pc \in WriterPCs
         /\ writer[w].op \in {"create", "edit", "whole"} /\ writer[w].base \in Nat
         /\ writer[w].text \in Texts \cup {None}
         /\ writer[w].num \in 0 .. MaxEdits + 1 /\ writer[w].id \in Nat
<1>1. writer[w] \in WriterRecords  BY DEF Types
<1> QED  BY <1>1 DEF WriterRecords

\* An ingestion's record and its fields.
LEMMA IngestTypes ==
  ASSUME Types, NEW g \in Ingests
  PROVE  /\ ingest[g] \in IngestRecords /\ ingest[g].pc \in IngestPCs
         /\ ingest[g].text \in Texts \cup {None}
<1>1. ingest[g] \in IngestRecords  BY DEF Types
<1> QED  BY <1>1 DEF IngestRecords

\* The record a writer gets.
LEMMA WriterIsSet ==
  ASSUME Types, NEW w \in Writers, NEW r \in WriterRecords, SetWriter(w, r)
  PROVE  Becomes(w, r)
BY DEF Types, SetWriter, Becomes

\* The record an ingestion gets.
LEMMA IngestIsSet ==
  ASSUME Types, NEW g \in Ingests, NEW r \in IngestRecords, SetIngest(g, r)
  PROVE  IngestBecomes(g, r)
BY DEF Types, SetIngest, IngestBecomes

\* A writer begins anew as a record of one.
LEMMA NewWriterType == NewWriter \in WriterRecords
BY DocumentAssumption DEF NewWriter, WriterRecords, WriterPCs

\* A step of a writer's program counter.
LEMMA WriterMoves ==
  ASSUME Types, NEW w \in Writers, NEW pc \in WriterPCs, WriterTo(w, pc)
  PROVE  /\ Becomes(w, [writer[w] EXCEPT !.pc = pc])
         /\ writer'[w].pc = pc /\ writer'[w].op = writer[w].op
         /\ writer'[w].text = writer[w].text /\ writer'[w].num = writer[w].num
         /\ writer'[w].id = writer[w].id
<1>1. writer[w] \in WriterRecords  BY WriterTypes
<1>2. [writer[w] EXCEPT !.pc = pc] \in WriterRecords  BY <1>1 DEF WriterRecords
<1>3. Becomes(w, [writer[w] EXCEPT !.pc = pc])  BY <1>2, WriterIsSet DEF WriterTo
<1> QED  BY <1>1, <1>3 DEF Becomes, WriterRecords

\* A writer's call ends, or goes on with nothing in hand.
LEMMA WriterReturns ==
  ASSUME Types, NEW w \in Writers, NEW pc \in WriterPCs, Return(w, pc)
  PROVE  /\ Becomes(w, [NewWriter EXCEPT !.pc = pc])
         /\ writer'[w].pc = pc /\ writer'[w].op = "create" /\ writer'[w].id = 0
<1>1. [NewWriter EXCEPT !.pc = pc] \in WriterRecords
  BY NewWriterType DEF WriterRecords
<1>2. Becomes(w, [NewWriter EXCEPT !.pc = pc])  BY <1>1, WriterIsSet DEF Return
<1> QED  BY <1>2 DEF Becomes, NewWriter

\* A step of an ingestion's program counter.
LEMMA IngestMoves ==
  ASSUME Types, NEW g \in Ingests, NEW pc \in IngestPCs,
         IngestTo(g, pc) \/ IngestEnds(g, pc)
  PROVE  /\ \E r : IngestBecomes(g, r)
         /\ ingest'[g].pc = pc
         /\ IngestTo(g, pc) => ingest'[g].text = ingest[g].text
<1>1. CASE IngestTo(g, pc)
  <2>1. ingest[g] \in IngestRecords  BY IngestTypes
  <2>2. [ingest[g] EXCEPT !.pc = pc] \in IngestRecords  BY <2>1 DEF IngestRecords
  <2>3. IngestBecomes(g, [ingest[g] EXCEPT !.pc = pc])
    BY <1>1, <2>2, IngestIsSet DEF IngestTo
  <2> QED  BY <2>1, <2>3 DEF IngestBecomes, IngestRecords
<1>2. CASE IngestEnds(g, pc) /\ ~ IngestTo(g, pc)
  <2>1. [NewIngest EXCEPT !.pc = pc] \in IngestRecords
    BY DEF NewIngest, IngestRecords, IngestPCs
  <2>2. IngestBecomes(g, [NewIngest EXCEPT !.pc = pc])
    BY <1>2, <2>1, IngestIsSet DEF IngestEnds
  <2> QED  BY <1>2, <2>2 DEF IngestBecomes, NewIngest
<1> QED  BY <1>1, <1>2
-----------------------------------------------------------------------------
(* What a step leaves alone. *)

\* A version row that there was is the same, and unless writers overlapped so is its text.
RowsStay ==
  /\ Len(versions') >= Len(versions)
  /\ \A i \in Rows : versions'[i] = versions[i]
  /\ ~ edited' => ~ edited /\ \A i \in Rows : Text(i)' = Text(i)

\* Rows are named by the positions of the sequence, which are naturals.
LEMMA RowFacts ==
  ASSUME Types
  PROVE  /\ Len(versions) \in Nat /\ current \in Nat
         /\ current # 0 => current \in Rows
         /\ \A i \in Rows : /\ i \in Nat /\ versions[i] \in VersionRecords
                            /\ versions[i].num \in Numbers /\ versions[i].num \in Nat
                            /\ versions[i].hash \in Texts \cup {None}
<1>1. Len(versions) \in Nat /\ current \in 0 .. Len(versions)  BY DEF Types
<1>2. \A i \in Rows : versions[i] \in VersionRecords  BY DEF Types, Rows
<1>3. Numbers \subseteq Nat  BY DocumentAssumption DEF Numbers
<1>4. \A i \in Rows : versions[i].num \in Numbers /\ versions[i].hash \in Texts \cup {None}
  BY <1>2 DEF VersionRecords
<1>5. Rows \subseteq Nat  BY <1>1 DEF Rows
<1>6. current \in Nat /\ (current # 0 => current \in Rows)  BY <1>1 DEF Rows
<1> QED  BY <1>1, <1>2, <1>3, <1>4, <1>5, <1>6

\* Ingestions do not see a step that leaves them and the chunks alone.
LEMMA IngestsStay ==
  ASSUME Types, Types', IngestFits, IngestIsAlone,
         UNCHANGED <<ingest, chunks, repeated, early>>,
         faults' >= faults, status' = status \/ status' # "chunked",
         current' = 0 => current = 0
  PROVE  IngestFits' /\ IngestIsAlone'
<1>1. \A g : Ingesting(g)' = Ingesting(g)  BY DEF Ingesting
<1>2. faults > 0 => faults' > 0  BY DEF Types
<1>3. IngestFits'  BY <1>2 DEF IngestFits, chunks
<1>4. IngestIsAlone'  BY <1>1 DEF IngestIsAlone, chunks
<1> QED  BY <1>3, <1>4

\* The chunks stay as current as they were while the current version, its text and
\* the writers that have yet to mark the document do.
LEMMA FreshStays ==
  ASSUME Types, Types', IngestFits, ChunksAreFresh, RowsStay,
         UNCHANGED <<ingest, chunks, current, overtaken>>,
         status' = status \/ status' # "chunked",
         status' = "chunked" =>
           \A w \in Writers : writer[w].pc \in {"dirty", "failed"} =>
             writer'[w].pc \in {"dirty", "failed"} /\ writer'[w].id = writer[w].id
  PROVE  ChunksAreFresh'
<1> SUFFICES ASSUME ~ edited', ~ overtaken' PROVE ChunksAreFresh'
  BY DEF ChunksAreFresh
<1>1. ~ edited /\ ~ overtaken  BY DEF RowsStay
<1>2. CASE current = 0
  <2>1. /\ children' = {} /\ status' # "chunked"
        /\ \A g \in Ingests : ingest'[g].pc \in {"idle", "find", "error"}
    BY <1>2 DEF IngestFits, chunks
  <2> QED  BY <2>1 DEF ChunksAreFresh, ChunksAreCurrent
<1>3. CASE current # 0
  <2>1. Text(current)' = Text(current)
    BY <1>3, RowFacts DEF RowsStay
  <2>2. /\ \A g \in Ingests : ingest'[g].pc \in {"clear", "parents", "children"} =>
             ingest'[g].text = Text(current)'
        /\ (\E g \in Ingests : ingest'[g].pc \in {"parents", "children", "mark"}) =>
             \A c \in children' : c[2] = Text(current)'
    BY <1>1, <2>1 DEF ChunksAreFresh, chunks
  <2>3. ChunksAreCurrent'
    BY <1>1, <2>1 DEF ChunksAreFresh, ChunksAreCurrent, chunks
  <2> QED  BY <2>2, <2>3 DEF ChunksAreFresh
<1> QED  BY <1>2, <1>3

\* The numbers still fit when nobody takes or asks for one.
LEMMA NumbersStay ==
  ASSUME NumbersFit, UNCHANGED <<versions, calls>>,
         \A w \in Writers :
           /\ (writer'[w].pc \in {"read", "hash"}) <=> (writer[w].pc \in {"read", "hash"})
           /\ writer'[w].pc \in {"put", "insert"} =>
                writer[w].pc \in {"put", "insert"} /\ writer'[w].num = writer[w].num
  PROVE  NumbersFit'
<1>1. Unnumbered' = Unnumbered  BY DEF Unnumbered
<1> QED  BY <1>1 DEF NumbersFit, Rows
-----------------------------------------------------------------------------
(* The steps of a writer. *)

\* The invariant holds when a document does not exist yet.
LEMMA InitIsSound == Init => IInv
<1> SUFFICES ASSUME Init PROVE IInv
  OBVIOUS
<1> USE DEF Init
<1>1. Rows = {}  BY DEF Rows
<1>2. Unnumbered = {}  BY DEF Unnumbered, NewWriter
<1>3. Types
  <2>1. [w \in Writers |-> NewWriter] \in [Writers -> WriterRecords]  BY NewWriterType
  <2>2. [g \in Ingests |-> NewIngest] \in [Ingests -> IngestRecords]
    BY DEF NewIngest, IngestRecords, IngestPCs
  <2>3. versions \in Seq(VersionRecords) /\ Len(versions) = 0  OBVIOUS
  <2>4. objects \in [Numbers -> Texts \cup {None}]  OBVIOUS
  <2>5. faults \in 0 .. MaxFaults /\ calls \in 0 .. MaxEdits /\ current \in 0 .. Len(versions)
    BY <2>3, DocumentAssumption
  <2> QED  BY <2>1, <2>2, <2>3, <2>4, <2>5 DEF Types
<1>4. \A w \in Writers : writer[w] = NewWriter  OBVIOUS
<1>5. \A g \in Ingests : ingest[g] = NewIngest  OBVIOUS
<1>6. \A w \in Writers : ~ Writing(w)  BY DEF Writing, NewWriter
<1>7. \A g \in Ingests : ~ Ingesting(g)  BY DEF Ingesting, NewIngest
<1>8. WriterFits  BY <1>4 DEF WriterFits, NewWriter
<1>9. ObjectsExist  BY <1>1 DEF ObjectsExist
<1>10. NumbersFit
  <2>1. IsFiniteSet(Unnumbered) /\ Cardinality(Unnumbered) = 0  BY <1>2, FS_EmptySet
  <2>2. 0 + Cardinality(Unnumbered) <= calls + 1  BY <2>1
  <2>3. \A w \in Writers : writer[w].pc \notin {"put", "insert"}  BY <1>4 DEF NewWriter
  <2> QED  BY <1>1, <2>1, <2>2, <2>3 DEF NumbersFit
<1>11. CreationIsFirst  BY <1>6, <1>7 DEF CreationIsFirst
<1>12. WriterIsAlone
  <2>1. EditsAreKept  BY DEF EditsAreKept
  <2>2. VersionsAreKept  BY DEF VersionsAreKept
  <2> QED  BY <1>4, <1>6, <2>1, <2>2 DEF WriterIsAlone, NewWriter
<1>13. ArchiveIsLast  BY DEF ArchiveIsLast
<1>14. IngestFits  BY <1>5 DEF IngestFits, NewIngest
<1>15. IngestIsAlone  BY <1>5, <1>7 DEF IngestIsAlone, NewIngest
<1>16. ChunksAreFresh
  BY <1>5 DEF ChunksAreFresh, ChunksAreCurrent, NewIngest
<1>17. ErrorNeedsCause  BY DEF ErrorNeedsCause
<1> QED
  BY <1>3, <1>8, <1>9, <1>10, <1>11, <1>12, <1>13, <1>14, <1>15, <1>16, <1>17 DEF IInv

\* Creating the document.
LEMMA CreateStep ==
  ASSUME IInv, NEW w \in Writers, Create(w)
  PROVE  IInv'
<1>0. /\ Types /\ WriterFits /\ ObjectsExist /\ NumbersFit /\ CreationIsFirst /\ WriterIsAlone
      /\ ArchiveIsLast /\ IngestFits /\ IngestIsAlone /\ ChunksAreFresh /\ ErrorNeedsCause
  BY DEF IInv
<1> DEFINE r == [NewWriter EXCEPT !.pc = "put", !.text = {w}, !.num = 1]
<1>a. {w} \in Texts  BY DEF Texts
<1>b. 1 \in Numbers /\ 1 \in 0 .. MaxEdits + 1  BY DocumentAssumption DEF Numbers
<1>1. r \in WriterRecords
  BY <1>a, <1>b, NewWriterType DEF WriterRecords, WriterPCs
<1>2. Becomes(w, r)  BY <1>0, <1>1, WriterIsSet DEF Create
<1>3. /\ writer'[w].pc = "put" /\ writer'[w].op = "create" /\ writer'[w].text = {w}
      /\ writer'[w].num = 1 /\ writer'[w].id = 0
  BY <1>2 DEF Becomes, NewWriter
<1> HIDE DEF r
<1>4. /\ UNCHANGED <<source, current, archived, versions, objects, chunks, node, ingest,
                     archive, faults, calls, want, edited, repeated, overtaken, early, hasty>>
      /\ status = "none" /\ status' = "dirty"
  BY DEF Create, data, bounds, history
<1>5. /\ versions = <<>> /\ archive = "idle" /\ ~ edited /\ Rows = {} /\ current = 0
      /\ \A v \in Writers : ~ Writing(v)
  BY <1>0, <1>4 DEF CreationIsFirst, Types, Rows
<1>6. \A v \in Writers : v # w => ~ Writing(v)'
  BY <1>2, <1>5 DEF Becomes, Writing
<1>7. \A v \in Writers : v # w => writer'[v].pc \in {"idle", "done", "failed"}
  BY <1>6 DEF Writing
<1>8. Types'  BY <1>0, <1>2, <1>4 DEF Types, Becomes, chunks
<1>9. {w} \in Texts /\ 1 \in Numbers /\ Rows' = {} /\ current' = 0
  BY <1>a, <1>b, <1>4, <1>5 DEF Rows
<1>10. RowsStay  BY <1>4, <1>5, <1>0, RowFacts DEF RowsStay
<1>11. WriterFits'
  <2>1. \A v \in Writers : v # w => writer'[v].id \in 0 .. Len(versions')
    BY <1>0, <1>2, <1>4 DEF WriterFits, Becomes
  <2>2. 0 \in 0 .. Len(versions')  BY <1>0, <1>4, RowFacts
  <2> QED  BY <1>3, <1>7, <1>9, <2>1, <2>2 DEF WriterFits
<1>12. ObjectsExist'  BY <1>9 DEF ObjectsExist
<1>13. NumbersFit'
  <2>1. Unnumbered = {}  BY <1>5 DEF Unnumbered, Writing
  <2>2. Unnumbered' = {}  BY <1>3, <1>7 DEF Unnumbered
  <2>3. Cardinality(Unnumbered') = 0  BY <2>2, FS_EmptySet
  <2>4. calls' \in Nat  BY <1>8 DEF Types
  <2>5. IsFiniteSet(Unnumbered')  BY <2>2, FS_EmptySet
  <2>6. \A v \in Writers : writer'[v].pc \in {"put", "insert"} =>
          writer'[v].num + Cardinality(Unnumbered') <= calls' + 1
    BY <1>3, <1>7, <2>3, <2>4
  <2>7. Cardinality(Unnumbered') <= calls'  BY <2>3, <2>4
  <2>8. 0 + Cardinality(Unnumbered') <= calls' + 1
    <3>1. \A n, c : n = 0 /\ c \in Nat => 0 + n <= c + 1  OBVIOUS
    <3> QED  BY <2>3, <2>4, <3>1
  <2> QED  BY <1>9, <2>5, <2>6, <2>7, <2>8 DEF NumbersFit
<1>14. CreationIsFirst'  BY <1>3, <1>4, <1>5, <1>6 DEF CreationIsFirst
<1>15. WriterIsAlone'
  <2>1. EditsAreKept'  BY <1>9 DEF EditsAreKept
  <2>2. VersionsAreKept'  BY <1>9 DEF VersionsAreKept, Rows
  <2>3. Intended(w)' = {w}  BY <1>3 DEF Intended
  <2>4. \A u, v \in Writers : (Writing(u) /\ Writing(v))' => u = v  BY <1>6
  <2>5. \A v \in Writers :
         /\ writer'[v].pc \in {"put", "insert"} =>
              \A i \in Rows' : versions'[i].num # writer'[v].num
         /\ writer'[v].pc \in {"hash", "put", "insert"} => writer'[v].text = Intended(v)'
         /\ writer'[v].pc # "insert" /\ writer'[v].pc # "current"
         /\ writer'[v].pc \in {"hash", "put", "insert", "current"} => writer'[v].op # "edit"
    BY <1>3, <1>7, <1>9, <2>3
  <2> QED  BY <2>1, <2>2, <2>4, <2>5 DEF WriterIsAlone
<1>16. ArchiveIsLast'  BY <1>4, <1>5 DEF ArchiveIsLast
<1>17. IngestFits' /\ IngestIsAlone'
  BY <1>0, <1>4, <1>8, IngestsStay DEF Types
<1>18. ChunksAreFresh'  BY <1>0, <1>4, <1>8, <1>10, FreshStays
<1>19. ErrorNeedsCause'  BY <1>4 DEF ErrorNeedsCause
<1> QED  BY <1>8, <1>11, <1>12, <1>13, <1>14, <1>15, <1>16, <1>17, <1>18, <1>19 DEF IInv

\* The parts that a step of a writer leaves alone when the version rows, the archive and
\* the document's being there do not change.
LEMMA PartsStay ==
  ASSUME IInv, Types', RowsStay,
         UNCHANGED <<current, archive, ingest, chunks, hasty, repeated, overtaken, early>>,
         faults' >= faults, status' = status \/ status' = "dirty", status # "none",
         NEW w \in Writers, \A v \in Writers : v # w => writer'[v] = writer[v],
         Writing(w)' /\ writer'[w].op = "create" => Writing(w) /\ writer[w].op = "create",
         node' = node \/ \E v \in Writers : Writing(v) /\ writer[v].op = "create",
         status' = "chunked" /\ writer[w].pc \in {"dirty", "failed"} =>
           writer'[w].pc \in {"dirty", "failed"} /\ writer'[w].id = writer[w].id
  PROVE  ArchiveIsLast' /\ IngestFits' /\ IngestIsAlone' /\ ChunksAreFresh' /\ ErrorNeedsCause'
<1>0. /\ Types /\ ArchiveIsLast /\ IngestFits /\ IngestIsAlone /\ ChunksAreFresh
      /\ ErrorNeedsCause
  BY DEF IInv
<1>1. faults > 0 => faults' > 0  BY <1>0 DEF Types
<1>2. \A v \in Writers : (Writing(v) /\ writer[v].op = "create")' =>
        Writing(v) /\ writer[v].op = "create"
  BY DEF Writing
<1>3. ArchiveIsLast'  BY <1>0, <1>1, <1>2 DEF ArchiveIsLast
<1>4. IngestFits' /\ IngestIsAlone'  BY <1>0, IngestsStay
<1>5. ChunksAreFresh'  BY <1>0, FreshStays
<1>6. ErrorNeedsCause'  BY <1>0, <1>1 DEF ErrorNeedsCause
<1> QED  BY <1>3, <1>4, <1>5, <1>6

\* Rows stay as they are when neither versions nor objects change.
LEMMA RowsStayPut ==
  ASSUME Types, UNCHANGED <<versions, objects>>, ~ edited' => ~ edited
  PROVE  RowsStay /\ Rows' = Rows /\ \A i : Text(i)' = Text(i)
<1>1. Len(versions) \in Nat  BY RowFacts
<1> QED  BY <1>1 DEF RowsStay, Text, Rows

\* A row's object is where it was, and so are the ids a writer may have.
LEMMA WritersStay ==
  ASSUME Types, WriterFits, ObjectsExist, UNCHANGED <<versions, objects>>, NEW w \in Writers,
         \A v \in Writers : v # w => writer'[v] = writer[v],
         writer'[w].id \in 0 .. Len(versions),
         writer'[w].pc \in {"hash", "put", "insert"} => writer'[w].text \in Texts,
         writer'[w].pc \in {"put", "insert"} => writer'[w].num \in Numbers,
         writer'[w].pc = "insert" => objects[writer'[w].num] \in Texts,
         writer'[w].pc = "current" => writer'[w].id # 0,
         writer'[w].pc \in {"node", "launch"} => writer'[w].op = "create",
         writer'[w].pc \in {"hash", "dirty"} => writer'[w].op # "create",
         writer'[w].pc = "read" => writer'[w].op = "edit"
  PROVE  WriterFits' /\ ObjectsExist'
<1>1. ObjectsExist'  BY DEF ObjectsExist, Rows
<1>2. WriterFits'  BY DEF WriterFits
<1> QED  BY <1>1, <1>2

\* An edit begins.
LEMMA EditStep ==
  ASSUME IInv, NEW w \in Writers, Edit(w)
  PROVE  IInv'
<1>0. /\ Types /\ WriterFits /\ ObjectsExist /\ NumbersFit /\ CreationIsFirst /\ WriterIsAlone
      /\ ArchiveIsLast /\ IngestFits /\ IngestIsAlone /\ ChunksAreFresh /\ ErrorNeedsCause
  BY DEF IInv
<1>1. /\ UNCHANGED <<source, status, current, archived, versions, objects, parents, children,
                     node, ingest, archive, faults, want, repeated, overtaken, early, hasty>>
      /\ status # "none" /\ writer[w].pc \in {"idle", "done"} /\ calls' = calls + 1
      /\ calls < MaxEdits /\ UNCHANGED chunks
      /\ \A v \in Writers : Writing(v) => writer[v].op # "create"
      /\ edited' = (edited \/ \E v \in Writers : Writing(v))
  BY DEF Edit, doc, data, chunks
<1>a. {w} \in Texts /\ current \in Nat  BY <1>0, RowFacts DEF Texts
<1>2. \E r \in WriterRecords :
        /\ Becomes(w, r) /\ r.id = 0
        /\ \/ r.op = "edit" /\ r.pc = "read"
           \/ r.op = "whole" /\ r.pc = "hash" /\ r.text = {w}
  <2>1. CASE SetWriter(w, [NewWriter EXCEPT !.op = "edit", !.pc = "read", !.base = current])
    <3> DEFINE r == [NewWriter EXCEPT !.op = "edit", !.pc = "read", !.base = current]
    <3>1. r \in WriterRecords  BY <1>a, NewWriterType DEF WriterRecords, WriterPCs
    <3>2. Becomes(w, r)  BY <1>0, <2>1, <3>1, WriterIsSet
    <3>3. r.id = 0 /\ r.op = "edit" /\ r.pc = "read"  BY DEF NewWriter
    <3> QED  BY <3>1, <3>2, <3>3
  <2>2. CASE SetWriter(w, [NewWriter EXCEPT !.op = "whole", !.pc = "hash", !.base = current,
                                            !.text = {w}])
    <3> DEFINE r == [NewWriter EXCEPT !.op = "whole", !.pc = "hash", !.base = current,
                                      !.text = {w}]
    <3>1. r \in WriterRecords  BY <1>a, NewWriterType DEF WriterRecords, WriterPCs
    <3>2. Becomes(w, r)  BY <1>0, <2>2, <3>1, WriterIsSet
    <3>3. r.id = 0 /\ r.op = "whole" /\ r.pc = "hash" /\ r.text = {w}  BY DEF NewWriter
    <3> QED  BY <3>1, <3>2, <3>3
  <2> QED  BY <2>1, <2>2 DEF Edit
<1>3. /\ writer' \in [Writers -> WriterRecords] /\ writer'[w].id = 0
      /\ \A v \in Writers : v # w => writer'[v] = writer[v]
      /\ writer'[w].pc \in {"read", "hash"} /\ writer'[w].op # "create"
      /\ writer'[w].pc = "hash" => writer'[w].text = {w} /\ writer'[w].op = "whole"
      /\ writer'[w].pc = "read" => writer'[w].op = "edit"
  BY <1>2 DEF Becomes
<1>4. ~ edited' => ~ edited /\ \A v \in Writers : ~ Writing(v)  BY <1>1
<1>6. Types'
  <2>1. calls' \in 0 .. MaxEdits  BY <1>0, <1>1, DocumentAssumption DEF Types
  <2> QED  BY <1>0, <1>1, <1>3, <2>1 DEF Types
<1>7. RowsStay /\ Rows' = Rows /\ \A i : Text(i)' = Text(i)
  BY <1>0, <1>1, <1>4, RowsStayPut
<1>8. 0 \in 0 .. Len(versions)  BY <1>0, RowFacts
<1>9. WriterFits' /\ ObjectsExist'
  BY <1>a, <1>0, <1>1, <1>3, <1>8, WritersStay
<1>10. NumbersFit'
  <2>1. w \notin Unnumbered  BY <1>1 DEF Unnumbered
  <2>2. Unnumbered' = Unnumbered \cup {w}
    BY <1>3 DEF Unnumbered
  <2>3. /\ IsFiniteSet(Unnumbered')
        /\ Cardinality(Unnumbered') = Cardinality(Unnumbered) + 1
    BY <1>0, <2>1, <2>2, FS_AddElement DEF NumbersFit
  <2>4. Cardinality(Unnumbered) \in Nat /\ calls \in Nat
    BY <1>0, FS_CardinalityType DEF NumbersFit, Types
  <2>5. Cardinality(Unnumbered') <= calls'  BY <1>0, <1>1, <2>3, <2>4 DEF NumbersFit
  <2>6. PICK top \in Nat :
          /\ top + Cardinality(Unnumbered) <= calls + 1
          /\ \A i \in Rows : versions[i].num <= top
          /\ top = 0 \/ \E i \in Rows : versions[i].num = top
    BY <1>0 DEF NumbersFit
  <2>7. top + Cardinality(Unnumbered') <= calls' + 1
    BY <1>1, <2>3, <2>4, <2>6
  <2>8. ASSUME NEW v \in Writers, writer'[v].pc \in {"put", "insert"}
        PROVE  writer'[v].num + Cardinality(Unnumbered') <= calls' + 1
    <3>1. v # w /\ writer'[v] = writer[v]  BY <1>3, <2>8
    <3>2. writer[v].num + Cardinality(Unnumbered) <= calls + 1
      BY <1>0, <2>8, <3>1 DEF NumbersFit
    <3>3. writer[v].num \in Nat  BY <1>0, WriterTypes, DocumentAssumption
    <3> QED  BY <1>1, <2>3, <2>4, <3>1, <3>2, <3>3
  <2> QED  BY <1>1, <1>7, <2>3, <2>5, <2>6, <2>7, <2>8 DEF NumbersFit
<1>11. CreationIsFirst'
  <2>1. \A v \in Writers : ~ (Writing(v) /\ writer[v].op = "create")'
    BY <1>1, <1>3 DEF Writing
  <2> QED  BY <1>1, <2>1 DEF CreationIsFirst
<1>12. WriterIsAlone'
  <2> SUFFICES ASSUME ~ edited' PROVE WriterIsAlone'
    BY DEF WriterIsAlone
  <2>1. \A v \in Writers : v # w => ~ Writing(v)'  BY <1>3, <1>4 DEF Writing
  <2>2. \A v \in Writers : v # w =>
          writer'[v].pc \notin {"hash", "put", "insert", "current"}
    BY <2>1 DEF Writing
  <2>3. EditsAreKept' /\ VersionsAreKept'
    BY <1>0, <1>1, <1>4, <1>7 DEF WriterIsAlone, EditsAreKept, VersionsAreKept
  <2>4. writer'[w].pc = "hash" => Intended(w)' = {w} /\ writer'[w].op # "edit"
    BY <1>3 DEF Intended
  <2>5. \A u, v \in Writers : (Writing(u) /\ Writing(v))' => u = v  BY <2>1
  <2>6. \A v \in Writers :
         /\ writer'[v].pc \notin {"put", "insert", "current"}
         /\ writer'[v].pc = "hash" => writer'[v].text = Intended(v)' /\ writer'[v].op # "edit"
    BY <1>3, <2>2, <2>4
  <2> QED  BY <2>3, <2>5, <2>6 DEF WriterIsAlone
<1>13. ArchiveIsLast' /\ IngestFits' /\ IngestIsAlone' /\ ChunksAreFresh' /\ ErrorNeedsCause'
  <2>1. faults' >= faults  BY <1>0, <1>1 DEF Types
  <2> QED  BY <1>1, <1>3, <1>6, <1>7, <2>1, PartsStay
<1> QED  BY <1>6, <1>9, <1>10, <1>11, <1>12, <1>13 DEF IInv

\* What a step of one writer keeps of the creation and of the writers' solitude, when the
\* document, its versions and its objects stay.
LEMMA OthersStay ==
  ASSUME Types, CreationIsFirst, WriterIsAlone, UNCHANGED <<versions, objects, want, edited>>,
         UNCHANGED <<current, archive, ingest>>, status # "none", status' # "none",
         NEW w \in Writers, Writing(w),
         \A v \in Writers : v # w => writer'[v] = writer[v],
         Writing(w)' => writer'[w].op = writer[w].op,
         writer'[w].pc \in {"put", "insert", "current"} /\ writer'[w].op = "create" =>
           writer[w].pc \in {"put", "insert", "current"},
         writer'[w].pc \in {"put", "insert"} /\ writer'[w].op = "create" =>
           writer[w].pc \in {"put", "insert"},
         ~ edited =>
           /\ writer'[w].pc \in {"put", "insert"} =>
                \A i \in Rows : versions[i].num # writer'[w].num
           /\ writer'[w].pc \in {"hash", "put", "insert"} => writer'[w].text = Intended(w)'
           /\ writer'[w].pc = "insert" => objects[writer'[w].num] = writer'[w].text
           /\ writer'[w].pc # "current"
           /\ writer'[w].pc \in {"hash", "put", "insert"} /\ writer'[w].op = "edit" => current # 0
  PROVE  CreationIsFirst' /\ WriterIsAlone'
<1>1. Rows' = Rows /\ \A i : Text(i)' = Text(i)  BY RowsStayPut
<1>2. \A v \in Writers : v # w => Writing(v)' = Writing(v)  BY DEF Writing
<1>3. CreationIsFirst'
  <2>1. ASSUME NEW v \in Writers, (Writing(v) /\ writer[v].op = "create")'
        PROVE  /\ \A u \in Writers : Writing(u)' => u = v
               /\ writer'[v].pc \in {"put", "insert"} => versions' = <<>>
               /\ writer'[v].pc \in {"put", "insert", "current"} => current' = 0 /\ ~ edited'
    <3>1. Writing(v) /\ writer[v].op = "create"  BY <1>2, <2>1
    <3>2. v = w  BY <3>1 DEF CreationIsFirst
    <3>3. \A u \in Writers : Writing(u)' => u = v  BY <1>2, <3>1, <3>2 DEF CreationIsFirst
    <3>4. /\ writer'[v].pc \in {"put", "insert"} => versions' = <<>>
          /\ writer'[v].pc \in {"put", "insert", "current"} => current' = 0 /\ ~ edited'
      BY <2>1, <3>1, <3>2 DEF CreationIsFirst
    <3> QED  BY <3>3, <3>4
  <2> QED  BY <2>1 DEF CreationIsFirst
<1>4. WriterIsAlone'
  <2> SUFFICES ASSUME ~ edited' PROVE WriterIsAlone'
    BY DEF WriterIsAlone
  <2>1. ~ edited  OBVIOUS
  <2>2. \A v \in Writers : v # w => ~ Writing(v)  BY <2>1 DEF WriterIsAlone
  <2>3. \A v \in Writers : v # w => ~ Writing(v)'  BY <1>2, <2>2
  <2>4. \A u, v \in Writers : (Writing(u) /\ Writing(v))' => u = v  BY <2>3
  <2>5. EditsAreKept' /\ VersionsAreKept'
    BY <1>1, <2>1 DEF WriterIsAlone, EditsAreKept, VersionsAreKept, Rows
  <2>6. \A v \in Writers : v # w =>
          writer'[v].pc \notin {"hash", "put", "insert", "current"}
    BY <2>3 DEF Writing
  <2>7. \A v \in Writers :
         /\ writer'[v].pc \in {"put", "insert"} =>
              \A i \in Rows' : versions'[i].num # writer'[v].num
         /\ writer'[v].pc \in {"hash", "put", "insert"} => writer'[v].text = Intended(v)'
         /\ writer'[v].pc = "insert" => objects'[writer'[v].num] = writer'[v].text
         /\ writer'[v].pc # "current"
         /\ writer'[v].pc \in {"hash", "put", "insert"} /\ writer'[v].op = "edit" =>
              current' # 0
    BY <1>1, <2>1, <2>6
  <2> QED  BY <2>4, <2>5, <2>7 DEF WriterIsAlone
<1> QED  BY <1>3, <1>4

\* The numbers fit when a writer gives up its number or its wish for one.
LEMMA NumbersLose ==
  ASSUME Types, Types', NumbersFit, UNCHANGED <<versions, calls>>, NEW w \in Writers,
         \A v \in Writers : v # w => writer'[v] = writer[v],
         writer'[w].pc \notin {"read", "hash", "put", "insert"}
  PROVE  NumbersFit'
<1>1. Unnumbered' = Unnumbered \ {w}  BY DEF Unnumbered
<1>2. /\ IsFiniteSet(Unnumbered')
      /\ Cardinality(Unnumbered') <= Cardinality(Unnumbered)
  <2>1. IsFiniteSet(Unnumbered)  BY DEF NumbersFit
  <2> QED  BY <1>1, <2>1, FS_Subset
<1>3. /\ Cardinality(Unnumbered) \in Nat /\ Cardinality(Unnumbered') \in Nat /\ calls \in Nat
      /\ calls' = calls
  BY <1>2, FS_CardinalityType DEF NumbersFit, Types
<1>4. Cardinality(Unnumbered') <= calls'  BY <1>2, <1>3 DEF NumbersFit
<1>5. PICK top \in Nat :
        /\ top + Cardinality(Unnumbered) <= calls + 1
        /\ \A i \in Rows : versions[i].num <= top
        /\ top = 0 \/ \E i \in Rows : versions[i].num = top
  BY DEF NumbersFit
<1>6. top + Cardinality(Unnumbered') <= calls' + 1  BY <1>2, <1>3, <1>5
<1>7. ASSUME NEW v \in Writers, writer'[v].pc \in {"put", "insert"}
      PROVE  writer'[v].num + Cardinality(Unnumbered') <= calls' + 1
  <2>1. v # w /\ writer'[v] = writer[v]  BY <1>7
  <2>2. writer[v].num + Cardinality(Unnumbered) <= calls + 1
    BY <1>7, <2>1 DEF NumbersFit
  <2>3. writer[v].num \in Nat  BY WriterTypes, DocumentAssumption
  <2> QED  BY <1>2, <1>3, <2>1, <2>2, <2>3
<1>8. Rows' = Rows  BY DEF Rows
<1> QED  BY <1>2, <1>4, <1>5, <1>6, <1>7, <1>8 DEF NumbersFit

\* A document is there while somebody writes it.
LEMMA WrittenIsThere ==
  ASSUME CreationIsFirst, NEW w \in Writers, Writing(w)
  PROVE  status # "none"
BY DEF CreationIsFirst

\* An edit reads the current version.
LEMMA ReadCurrentStep ==
  ASSUME IInv, NEW w \in Writers, ReadCurrent(w)
  PROVE  IInv'
<1>0. /\ Types /\ WriterFits /\ ObjectsExist /\ NumbersFit /\ CreationIsFirst /\ WriterIsAlone
  BY DEF IInv
<1>1. /\ UNCHANGED <<source, status, current, archived, versions, objects, parents, children,
                     node, ingest, archive, faults, calls, want, edited, repeated, overtaken,
                     early, hasty>>
      /\ UNCHANGED chunks /\ writer[w].pc = "read"
  BY DEF ReadCurrent, doc, data, chunks, bounds, history
<1>2. Writing(w) /\ status # "none" /\ writer[w].op = "edit"
  BY <1>0, <1>1, WrittenIsThere DEF Writing, WriterFits
<1>3. /\ writer' \in [Writers -> WriterRecords]
      /\ \A v \in Writers : v # w => writer'[v] = writer[v]
      /\ \/ writer'[w].pc = "failed" /\ writer'[w].id = 0
         \/ /\ writer'[w].pc = "hash" /\ writer'[w].op = "edit" /\ current # 0
            /\ writer'[w].text = Text(current) \cup {w} /\ writer'[w].id = writer[w].id
            /\ writer'[w].text \in Texts
  <2>1. CASE Return(w, "failed")
    <3>1. "failed" \in WriterPCs  BY DEF WriterPCs
    <3> QED  BY <1>0, <2>1, <3>1, WriterReturns DEF Becomes
  <2>2. CASE current # 0 /\ SetWriter(w, [writer[w] EXCEPT !.pc = "hash",
                                                         !.text = Text(current) \cup {w}])
    <3> DEFINE r == [writer[w] EXCEPT !.pc = "hash", !.text = Text(current) \cup {w}]
    <3>1. Text(current) \in Texts  BY <1>0, <2>2, RowFacts DEF ObjectsExist, Text
    <3>2. Text(current) \cup {w} \in Texts  BY <3>1 DEF Texts
    <3>3. writer[w] \in WriterRecords  BY <1>0, WriterTypes
    <3>4. r \in WriterRecords  BY <3>2, <3>3 DEF WriterRecords, WriterPCs
    <3>5. Becomes(w, r)  BY <1>0, <2>2, <3>4, WriterIsSet
    <3>6. r.pc = "hash" /\ r.op = "edit" /\ r.text = Text(current) \cup {w}
          /\ r.id = writer[w].id
      BY <1>2, <3>3 DEF WriterRecords
    <3> QED  BY <2>2, <3>2, <3>5, <3>6 DEF Becomes
  <2> QED  BY <2>1, <2>2 DEF ReadCurrent
<1>4. RowsStay /\ Rows' = Rows /\ \A i : Text(i)' = Text(i)
  BY <1>0, <1>1, RowsStayPut
<1>5. Types'  BY <1>0, <1>1, <1>3 DEF Types
<1>6. writer'[w].id \in 0 .. Len(versions)
  <2>1. 0 \in 0 .. Len(versions)  BY <1>0, RowFacts
  <2> QED  BY <1>0, <1>3, <2>1 DEF WriterFits
<1>7. WriterFits' /\ ObjectsExist'  BY <1>0, <1>1, <1>3, <1>6, WritersStay
<1>8. CreationIsFirst' /\ WriterIsAlone'
  <2>1. writer'[w].pc = "hash" => Intended(w)' = Text(current) \cup {w}
    BY <1>1, <1>3, <1>4 DEF Intended
  <2>2. Writing(w)' => writer'[w].op = writer[w].op
    BY <1>2, <1>3 DEF Writing
  <2>3. /\ writer'[w].pc \notin {"put", "insert", "current"}
        /\ writer'[w].pc = "hash" => writer'[w].text = Intended(w)' /\ current # 0
    BY <1>3, <2>1
  <2> QED  BY <1>0, <1>1, <1>2, <1>3, <2>2, <2>3, OthersStay
<1>9. ArchiveIsLast' /\ IngestFits' /\ IngestIsAlone' /\ ChunksAreFresh' /\ ErrorNeedsCause'
  <2>1. faults' >= faults  BY <1>0, <1>1 DEF Types
  <2>2. Writing(w)' /\ writer'[w].op = "create" => Writing(w) /\ writer[w].op = "create"
    BY <1>2, <1>3 DEF Writing
  <2> QED  BY <1>1, <1>2, <1>3, <1>4, <1>5, <2>1, <2>2, PartsStay
<1>10. NumbersFit'
  <2>1. CASE writer'[w].pc = "hash"
    <3>1. \A v \in Writers :
            /\ (writer'[v].pc \in {"read", "hash"}) <=> (writer[v].pc \in {"read", "hash"})
            /\ writer'[v].pc \in {"put", "insert"} =>
                 writer[v].pc \in {"put", "insert"} /\ writer'[v].num = writer[v].num
      BY <1>1, <1>3, <2>1
    <3> QED  BY <1>0, <1>1, <3>1, NumbersStay
  <2>2. CASE writer'[w].pc = "failed"
    <3>1. writer'[w].pc \notin {"read", "hash", "put", "insert"}  BY <2>2
    <3> QED  BY <1>0, <1>1, <1>3, <1>4, <1>5, <3>1, NumbersLose
  <2> QED  BY <1>3, <2>1, <2>2
<1> QED  BY <1>5, <1>7, <1>8, <1>9, <1>10 DEF IInv

\* The next number follows the greatest one, and there is room for it.
LEMMA NextIsFree ==
  ASSUME Types, NumbersFit, NEW w \in Writers, writer[w].pc = "hash"
  PROVE  /\ NextVersion \in Numbers
         /\ \A i \in Rows : versions[i].num < NextVersion
         /\ NextVersion + Cardinality(Unnumbered) <= calls + 2
<1>1. PICK top \in Nat :
        /\ top + Cardinality(Unnumbered) <= calls + 1
        /\ \A i \in Rows : versions[i].num <= top
        /\ top = 0 \/ \E i \in Rows : versions[i].num = top
  BY DEF NumbersFit
<1>2. Cardinality(Unnumbered) \in Nat /\ Cardinality(Unnumbered) # 0
  <2>1. w \in Unnumbered  BY DEF Unnumbered
  <2>2. IsFiniteSet(Unnumbered)  BY DEF NumbersFit
  <2>3. Unnumbered # {}  BY <2>1
  <2> QED  BY <2>2, <2>3, FS_EmptySet, FS_CardinalityType
<1>3. calls \in Nat /\ calls <= MaxEdits /\ MaxEdits \in Nat
  BY DocumentAssumption DEF Types
<1>4. top <= MaxEdits  BY <1>1, <1>2, <1>3
<1>5. top + 1 \in Numbers  BY <1>1, <1>3, <1>4 DEF Numbers
<1>6. \A i \in Rows : versions[i].num \in Nat  BY RowFacts
<1> DEFINE Fits(n) == /\ \A i \in Rows : versions[i].num < n
                      /\ n = 1 \/ \E i \in Rows : versions[i].num = n - 1
<1>7. Fits(top + 1)
  <2>1. \A i \in Rows : versions[i].num < top + 1  BY <1>1, <1>6
  <2>2. top + 1 = 1 \/ \E i \in Rows : versions[i].num = (top + 1) - 1  BY <1>1
  <2> QED  BY <2>1, <2>2
<1>8. ASSUME NEW n \in Numbers, Fits(n)
      PROVE  n <= top + 1
  <2>1. n \in Nat  BY <1>8, <1>3 DEF Numbers
  <2>2. CASE n = 1  BY <1>1, <2>1, <2>2
  <2>3. CASE \E i \in Rows : versions[i].num = n - 1  BY <1>1, <1>6, <2>1, <2>3
  <2> QED  BY <1>8, <2>2, <2>3
<1>9. NextVersion = CHOOSE n \in Numbers : Fits(n)  BY DEF NextVersion, Rows
<1> HIDE DEF Fits
<1>10. NextVersion \in Numbers /\ Fits(NextVersion)  BY <1>5, <1>7, <1>9
<1>11. NextVersion <= top + 1  BY <1>8, <1>10
<1>12. NextVersion \in Nat  BY <1>3, <1>10 DEF Numbers
<1>13. NextVersion + Cardinality(Unnumbered) <= calls + 2
  BY <1>1, <1>2, <1>3, <1>11, <1>12
<1> QED  BY <1>10, <1>13 DEF Fits

\* A writer takes a number for its version, or finds that it has nothing to write.
LEMMA NumberVersionStep ==
  ASSUME IInv, NEW w \in Writers, NumberVersion(w)
  PROVE  IInv'
<1>0. /\ Types /\ WriterFits /\ ObjectsExist /\ NumbersFit /\ CreationIsFirst /\ WriterIsAlone
  BY DEF IInv
<1>1. /\ UNCHANGED <<source, status, current, archived, versions, objects, parents, children,
                     node, ingest, archive, faults, calls, want, edited, repeated, overtaken,
                     early, hasty>>
      /\ UNCHANGED chunks /\ writer[w].pc = "hash"
  BY DEF NumberVersion, doc, data, chunks, bounds, history
<1>2. Writing(w) /\ status # "none" /\ writer[w].op # "create" /\ writer[w].text \in Texts
  BY <1>0, <1>1, WrittenIsThere DEF Writing, WriterFits
<1>a. /\ NextVersion \in Numbers /\ \A i \in Rows : versions[i].num < NextVersion
      /\ NextVersion + Cardinality(Unnumbered) <= calls + 2
  BY <1>0, <1>1, NextIsFree
<1>3. /\ writer' \in [Writers -> WriterRecords]
      /\ \A v \in Writers : v # w => writer'[v] = writer[v]
      /\ \/ writer'[w].pc = "done" /\ writer'[w].id = 0
         \/ /\ writer'[w].pc = "put" /\ writer'[w].op = writer[w].op
            /\ writer'[w].text = writer[w].text /\ writer'[w].id = writer[w].id
            /\ writer'[w].num = NextVersion
  <2>1. CASE Return(w, "done")
    <3>1. "done" \in WriterPCs  BY DEF WriterPCs
    <3> QED  BY <1>0, <2>1, <3>1, WriterReturns DEF Becomes
  <2>2. CASE SetWriter(w, [writer[w] EXCEPT !.pc = "put", !.base = 0, !.num = NextVersion])
    <3> DEFINE r == [writer[w] EXCEPT !.pc = "put", !.base = 0, !.num = NextVersion]
    <3>1. writer[w] \in WriterRecords  BY <1>0, WriterTypes
    <3>2. NextVersion \in 0 .. MaxEdits + 1  BY <1>a DEF Numbers
    <3>3. r \in WriterRecords  BY <3>1, <3>2 DEF WriterRecords, WriterPCs
    <3>4. Becomes(w, r)  BY <1>0, <2>2, <3>3, WriterIsSet
    <3>5. r.pc = "put" /\ r.op = writer[w].op /\ r.text = writer[w].text
          /\ r.id = writer[w].id /\ r.num = NextVersion
      BY <3>1 DEF WriterRecords
    <3> QED  BY <3>4, <3>5 DEF Becomes
  <2> QED  BY <2>1, <2>2 DEF NumberVersion
<1>4. RowsStay /\ Rows' = Rows /\ \A i : Text(i)' = Text(i)
  BY <1>0, <1>1, RowsStayPut
<1>5. Types'  BY <1>0, <1>1, <1>3 DEF Types
<1>6. writer'[w].id \in 0 .. Len(versions)
  <2>1. 0 \in 0 .. Len(versions)  BY <1>0, RowFacts
  <2> QED  BY <1>0, <1>3, <2>1 DEF WriterFits
<1>7. WriterFits' /\ ObjectsExist'  BY <1>a, <1>0, <1>1, <1>2, <1>3, <1>6, WritersStay
<1>8. CreationIsFirst' /\ WriterIsAlone'
  <2>1. writer'[w].pc = "put" => Intended(w)' = Intended(w)
    BY <1>1, <1>3, <1>4 DEF Intended
  <2>2. Writing(w)' => writer'[w].op = writer[w].op /\ writer'[w].op # "create"
    BY <1>2, <1>3 DEF Writing
  <2>3. writer'[w].pc = "put" => \A i \in Rows : versions[i].num # writer'[w].num
    <3>1. \A i \in Rows : versions[i].num \in Nat  BY <1>0, RowFacts
    <3> QED  BY <1>a, <1>3, <3>1
  <2>4. ~ edited => writer[w].text = Intended(w) /\ (writer[w].op = "edit" => current # 0)
    BY <1>0, <1>1 DEF WriterIsAlone
  <2>5. writer'[w].pc \notin {"insert", "current", "hash"}  BY <1>3
  <2>6. writer'[w].pc = "put" => writer'[w].text = writer[w].text /\ writer'[w].op = writer[w].op
    BY <1>3
  <2> QED  BY <1>0, <1>1, <1>2, <1>3, <2>1, <2>2, <2>3, <2>4, <2>5, <2>6, OthersStay
             DEF Writing
<1>9. ArchiveIsLast' /\ IngestFits' /\ IngestIsAlone' /\ ChunksAreFresh' /\ ErrorNeedsCause'
  <2>1. faults' >= faults  BY <1>0, <1>1 DEF Types
  <2>2. ~ (Writing(w)' /\ writer'[w].op = "create")
    BY <1>2, <1>3 DEF Writing
  <2> QED  BY <1>1, <1>2, <1>3, <1>4, <1>5, <2>1, <2>2, PartsStay
<1>10. NumbersFit'
  <2>1. CASE writer'[w].pc = "done"
    <3>1. writer'[w].pc \notin {"read", "hash", "put", "insert"}  BY <2>1
    <3> QED  BY <1>0, <1>1, <1>3, <1>5, <3>1, NumbersLose
  <2>2. CASE writer'[w].pc = "put"
    <3>1. Unnumbered' = Unnumbered \ {w} /\ w \in Unnumbered
      BY <1>1, <1>3, <2>2 DEF Unnumbered
    <3>2. IsFiniteSet(Unnumbered) /\ Cardinality(Unnumbered) \in Nat
      BY <1>0, FS_CardinalityType DEF NumbersFit
    <3>3. /\ IsFiniteSet(Unnumbered')
          /\ Cardinality(Unnumbered') = Cardinality(Unnumbered) - 1
      BY <3>1, <3>2, FS_RemoveElement
    <3>4. Cardinality(Unnumbered') \in Nat /\ calls \in Nat /\ calls' = calls
      BY <1>0, <1>1, <3>3, FS_CardinalityType DEF Types
    <3>5. Cardinality(Unnumbered') <= calls'  BY <1>0, <3>2, <3>3, <3>4 DEF NumbersFit
    <3>6. PICK top \in Nat :
            /\ top + Cardinality(Unnumbered) <= calls + 1
            /\ \A i \in Rows : versions[i].num <= top
            /\ top = 0 \/ \E i \in Rows : versions[i].num = top
      BY <1>0 DEF NumbersFit
    <3>7. top + Cardinality(Unnumbered') <= calls' + 1  BY <3>2, <3>3, <3>4, <3>6
    <3>8. ASSUME NEW v \in Writers, writer'[v].pc \in {"put", "insert"}
          PROVE  writer'[v].num + Cardinality(Unnumbered') <= calls' + 1
      <4>1. CASE v = w
        <5>1. writer'[v].num = NextVersion  BY <1>3, <2>2, <4>1
        <5>2. NextVersion \in Nat  BY <1>a, DocumentAssumption DEF Numbers
        <5> QED  BY <1>a, <3>2, <3>3, <3>4, <5>1, <5>2
      <4>2. CASE v # w
        <5>1. writer'[v] = writer[v]  BY <1>3, <4>2
        <5>2. writer[v].num + Cardinality(Unnumbered) <= calls + 1
          BY <1>0, <3>8, <5>1 DEF NumbersFit
        <5>3. writer[v].num \in Nat  BY <1>0, WriterTypes, DocumentAssumption
        <5> QED  BY <3>2, <3>3, <3>4, <5>1, <5>2, <5>3
      <4> QED  BY <4>1, <4>2
    <3> QED  BY <1>1, <1>4, <3>3, <3>5, <3>6, <3>7, <3>8 DEF NumbersFit
  <2> QED  BY <1>3, <2>1, <2>2
<1> QED  BY <1>5, <1>7, <1>8, <1>9, <1>10 DEF IInv

\* A writer puts its object.
LEMMA PutObjectStep ==
  ASSUME IInv, NEW w \in Writers, PutObject(w)
  PROVE  IInv'
<1>0. /\ Types /\ WriterFits /\ ObjectsExist /\ NumbersFit /\ CreationIsFirst /\ WriterIsAlone
  BY DEF IInv
<1>1. /\ UNCHANGED <<source, status, current, archived, versions, parents, children,
                     node, ingest, archive, faults, calls, want, edited, repeated, overtaken,
                     early, hasty>>
      /\ UNCHANGED chunks /\ writer[w].pc = "put" /\ WriterTo(w, "insert")
      /\ objects' = [objects EXCEPT ![writer[w].num] = writer[w].text]
  BY DEF PutObject, doc, data, chunks, bounds, history
<1>2. /\ Writing(w) /\ status # "none" /\ writer[w].text \in Texts
      /\ writer[w].num \in Numbers /\ writer[w].id \in 0 .. Len(versions)
  BY <1>0, <1>1, WrittenIsThere DEF Writing, WriterFits
<1>3. /\ writer' \in [Writers -> WriterRecords]
      /\ \A v \in Writers : v # w => writer'[v] = writer[v]
      /\ writer'[w].pc = "insert" /\ writer'[w].op = writer[w].op
      /\ writer'[w].text = writer[w].text /\ writer'[w].num = writer[w].num
      /\ writer'[w].id = writer[w].id
  <2>1. "insert" \in WriterPCs  BY DEF WriterPCs
  <2> QED  BY <1>0, <1>1, <2>1, WriterMoves DEF Becomes
<1>4. /\ objects' \in [Numbers -> Texts \cup {None}]
      /\ objects'[writer[w].num] = writer[w].text
      /\ \A n \in Numbers : n # writer[w].num => objects'[n] = objects[n]
  BY <1>0, <1>1, <1>2 DEF Types
<1>5. Types'  BY <1>0, <1>1, <1>3, <1>4 DEF Types
<1>6. Rows' = Rows  BY <1>1 DEF Rows
<1>7. ~ edited => \A i \in Rows : Text(i)' = Text(i) /\ versions[i].num # writer[w].num
  <2> SUFFICES ASSUME ~ edited, NEW i \in Rows
               PROVE  Text(i)' = Text(i) /\ versions[i].num # writer[w].num
    OBVIOUS
  <2>1. versions[i].num # writer[w].num  BY <1>0, <1>1 DEF WriterIsAlone
  <2>2. versions[i].num \in Numbers  BY <1>0, RowFacts
  <2> QED  BY <1>1, <1>4, <2>1, <2>2 DEF Text
<1>8. RowsStay
  <2>1. Len(versions') >= Len(versions)  BY <1>0, <1>1, RowFacts
  <2> QED  BY <1>1, <1>7, <2>1 DEF RowsStay
<1>9. ObjectsExist'
  <2> SUFFICES ASSUME NEW i \in Rows PROVE objects'[versions'[i].num] \in Texts
    BY <1>6 DEF ObjectsExist
  <2>1. versions[i].num \in Numbers /\ objects[versions[i].num] \in Texts
    BY <1>0, RowFacts DEF ObjectsExist
  <2> QED  BY <1>1, <1>2, <1>4, <2>1
<1>10. WriterFits'
  <2>1. \A v \in Writers : v # w /\ writer'[v].pc = "insert" =>
          objects'[writer'[v].num] \in Texts
    BY <1>0, <1>2, <1>3, <1>4 DEF WriterFits
  <2>2. objects'[writer'[w].num] \in Texts  BY <1>2, <1>3, <1>4
  <2> QED  BY <1>0, <1>1, <1>2, <1>3, <2>1, <2>2 DEF WriterFits
<1>11. NumbersFit'
  <2>1. \A v \in Writers :
          /\ (writer'[v].pc \in {"read", "hash"}) <=> (writer[v].pc \in {"read", "hash"})
          /\ writer'[v].pc \in {"put", "insert"} =>
               writer[v].pc \in {"put", "insert"} /\ writer'[v].num = writer[v].num
    BY <1>1, <1>3
  <2> QED  BY <1>0, <1>1, <2>1, NumbersStay
<1>12. \A v \in Writers : Writing(v)' = Writing(v) /\ writer'[v].op = writer[v].op
  BY <1>1, <1>3 DEF Writing
<1>13. CreationIsFirst'
  <2>1. ASSUME NEW v \in Writers, Writing(v), writer[v].op = "create"
        PROVE  /\ writer'[v].pc \in {"put", "insert"} => versions' = <<>>
               /\ writer'[v].pc \in {"put", "insert", "current"} => current' = 0 /\ ~ edited'
    <3>1. v = w  BY <1>0, <1>2, <2>1 DEF CreationIsFirst
    <3> QED  BY <1>0, <1>1, <2>1, <3>1 DEF CreationIsFirst
  <2> QED  BY <1>0, <1>1, <1>2, <1>12, <2>1 DEF CreationIsFirst
<1>14. WriterIsAlone'
  <2> SUFFICES ASSUME ~ edited' PROVE WriterIsAlone'
    BY DEF WriterIsAlone
  <2>1. ~ edited  BY <1>1
  <2>2. \A u, v \in Writers : (Writing(u) /\ Writing(v))' => u = v
    BY <1>0, <1>12, <2>1 DEF WriterIsAlone
  <2>3. \A v \in Writers : v # w =>
          writer'[v].pc \notin {"hash", "put", "insert", "current"}
    BY <1>2, <1>12, <2>2 DEF Writing
  <2>4. /\ writer[w].text = Intended(w) /\ (writer[w].op = "edit" => current # 0)
        /\ EditsAreKept /\ VersionsAreKept
    BY <1>0, <1>1, <2>1 DEF WriterIsAlone
  <2>5. current # 0 => Text(current)' = Text(current)
    BY <1>0, <1>1, <1>7, <2>1, RowFacts
  <2>6. Intended(w)' = Intended(w)
    BY <1>1, <1>3, <2>4, <2>5 DEF Intended
  <2>7. EditsAreKept'  BY <1>1, <2>1, <2>4, <2>5 DEF EditsAreKept
  <2>8. VersionsAreKept'
    BY <1>1, <1>7, <2>1, <2>4 DEF VersionsAreKept, Rows
  <2>9. \A v \in Writers :
         /\ writer'[v].pc \in {"put", "insert"} =>
              \A i \in Rows' : versions'[i].num # writer'[v].num
         /\ writer'[v].pc \in {"hash", "put", "insert"} => writer'[v].text = Intended(v)'
         /\ writer'[v].pc = "insert" => objects'[writer'[v].num] = writer'[v].text
         /\ writer'[v].pc # "current"
         /\ writer'[v].pc \in {"hash", "put", "insert"} /\ writer'[v].op = "edit" =>
              current' # 0
    BY <1>1, <1>3, <1>4, <1>6, <1>7, <2>1, <2>3, <2>4, <2>6
  <2> QED  BY <2>2, <2>7, <2>8, <2>9 DEF WriterIsAlone
<1>15. ArchiveIsLast' /\ IngestFits' /\ IngestIsAlone' /\ ChunksAreFresh' /\ ErrorNeedsCause'
  <2>1. faults' >= faults  BY <1>0, <1>1 DEF Types
  <2>2. Writing(w)' /\ writer'[w].op = "create" => Writing(w) /\ writer[w].op = "create"
    BY <1>12
  <2> QED  BY <1>1, <1>2, <1>3, <1>5, <1>8, <2>1, <2>2, PartsStay
<1> QED  BY <1>5, <1>9, <1>10, <1>11, <1>13, <1>14, <1>15 DEF IInv

\* A writer inserts its version's row.
LEMMA InsertVersionStep ==
  ASSUME IInv, NEW w \in Writers, InsertVersion(w)
  PROVE  IInv'
<1>0. /\ Types /\ WriterFits /\ ObjectsExist /\ NumbersFit /\ CreationIsFirst /\ WriterIsAlone
  BY DEF IInv
<1> DEFINE row == [num |-> writer[w].num,
                   hash |-> IF writer[w].op = "create" THEN None ELSE writer[w].text]
           r == [writer[w] EXCEPT !.pc = "current", !.id = Len(versions'),
                                  !.text = None, !.num = 0]
<1>1. /\ UNCHANGED <<source, status, current, archived, objects, parents, children,
                     node, ingest, archive, faults, calls, want, edited, repeated, overtaken,
                     early, hasty>>
      /\ UNCHANGED chunks /\ writer[w].pc = "insert"
      /\ versions' = Append(versions, row) /\ SetWriter(w, r)
  BY DEF InsertVersion, doc, chunks, bounds, history
<1>2. /\ Writing(w) /\ status # "none" /\ writer[w].text \in Texts
      /\ writer[w].num \in Numbers /\ objects[writer[w].num] \in Texts
  BY <1>0, <1>1, WrittenIsThere DEF Writing, WriterFits
<1>3. row \in VersionRecords /\ row.num = writer[w].num
      /\ (row.hash # None => row.hash = writer[w].text)
  BY <1>2 DEF VersionRecords
<1> HIDE DEF row
<1>a. versions \in Seq(VersionRecords)  BY <1>0 DEF Types
<1>4. /\ versions' \in Seq(VersionRecords) /\ Len(versions') = Len(versions) + 1
      /\ versions'[Len(versions) + 1] = row
      /\ \A i \in 1 .. Len(versions) : versions'[i] = versions[i]
  BY <1>1, <1>3, <1>a
<1>b. Len(versions) \in Nat /\ \A i \in Rows : i \in Nat  BY <1>0, RowFacts
<1>5. /\ Rows' = Rows \cup {Len(versions) + 1} /\ Rows \subseteq Rows'
      /\ Len(versions') \in Nat /\ Len(versions') > 0
      /\ \A i \in Rows : versions'[i] = versions[i] /\ i # Len(versions) + 1
      /\ 0 .. Len(versions) \subseteq 0 .. Len(versions') /\ Len(versions') >= Len(versions)
  <2>1. Rows' = Rows \cup {Len(versions) + 1}  BY <1>4, <1>b DEF Rows
  <2> QED  BY <1>4, <1>b, <2>1 DEF Rows
<1>6. r \in WriterRecords /\ r.pc = "current" /\ r.op = writer[w].op /\ r.id = Len(versions')
  <2>1. writer[w] \in WriterRecords  BY <1>0, WriterTypes
  <2>2. 0 \in 0 .. MaxEdits + 1  BY DocumentAssumption
  <2> QED  BY <1>5, <2>1, <2>2 DEF WriterRecords, WriterPCs
<1>7. Becomes(w, r)  BY <1>0, <1>1, <1>6, WriterIsSet
<1> HIDE DEF r
<1>8. /\ writer' \in [Writers -> WriterRecords]
      /\ \A v \in Writers : v # w => writer'[v] = writer[v]
      /\ writer'[w].pc = "current" /\ writer'[w].op = writer[w].op
      /\ writer'[w].id = Len(versions')
  BY <1>6, <1>7 DEF Becomes
<1>9. Types'
  <2>1. current' \in 0 .. Len(versions')  BY <1>0, <1>1, <1>5 DEF Types
  <2> QED  BY <1>0, <1>1, <1>4, <1>8, <2>1 DEF Types
<1>10. \A i \in Rows : Text(i)' = Text(i)  BY <1>1, <1>5 DEF Text
<1>11. objects'[versions'[Len(versions) + 1].num] = objects[writer[w].num]
  BY <1>1, <1>3, <1>4
<1>12. RowsStay  BY <1>1, <1>5, <1>10 DEF RowsStay
<1>13. ObjectsExist'
  <2>1. \A i \in Rows : objects'[versions'[i].num] \in Texts
    BY <1>0, <1>1, <1>5 DEF ObjectsExist
  <2> QED  BY <1>2, <1>5, <1>11, <2>1 DEF ObjectsExist
<1>14. WriterFits'
  <2>1. writer'[w].id \in 0 .. Len(versions') /\ writer'[w].id # 0  BY <1>5, <1>8
  <2>2. \A v \in Writers : v # w => writer'[v].id \in 0 .. Len(versions')
    BY <1>0, <1>5, <1>8 DEF WriterFits
  <2> QED  BY <1>0, <1>1, <1>8, <2>1, <2>2 DEF WriterFits
<1>15. NumbersFit'
  <2>1. Unnumbered' = Unnumbered  BY <1>1, <1>8 DEF Unnumbered
  <2>2. IsFiniteSet(Unnumbered) /\ Cardinality(Unnumbered) \in Nat
    BY <1>0, FS_CardinalityType DEF NumbersFit
  <2>3. PICK top \in Nat :
          /\ top + Cardinality(Unnumbered) <= calls + 1
          /\ \A i \in Rows : versions[i].num <= top
          /\ top = 0 \/ \E i \in Rows : versions[i].num = top
    BY <1>0 DEF NumbersFit
  <2>4. writer[w].num + Cardinality(Unnumbered) <= calls + 1
    BY <1>0, <1>1 DEF NumbersFit
  <2>5. writer[w].num \in Nat  BY <1>0, WriterTypes, DocumentAssumption
  <2>6. versions'[Len(versions) + 1].num = writer[w].num  BY <1>3, <1>4
  <2>7. \E t \in Nat :
          /\ t + Cardinality(Unnumbered) <= calls + 1
          /\ \A i \in Rows' : versions'[i].num <= t
          /\ t = 0 \/ \E i \in Rows' : versions'[i].num = t
    <3>1. \A i \in Rows : versions[i].num \in Nat  BY <1>0, RowFacts
    <3>2. CASE writer[w].num <= top
      <4>1. \A i \in Rows' : versions'[i].num <= top
        BY <1>5, <2>3, <2>6, <3>2
      <4>2. top = 0 \/ \E i \in Rows' : versions'[i].num = top  BY <1>5, <2>3
      <4> QED  BY <2>3, <4>1, <4>2
    <3>3. CASE writer[w].num > top
      <4>1. \A i \in Rows : versions[i].num <= writer[w].num  BY <2>3, <2>5, <3>1, <3>3
      <4>2. \A i \in Rows' : versions'[i].num <= writer[w].num
        BY <1>5, <2>5, <2>6, <4>1
      <4>3. \E i \in Rows' : versions'[i].num = writer[w].num  BY <1>5, <2>6
      <4> QED  BY <2>4, <2>5, <4>2, <4>3
    <3> QED  BY <2>3, <2>5, <3>2, <3>3
  <2>8. \A v \in Writers : writer'[v].pc \in {"put", "insert"} =>
          writer'[v].num + Cardinality(Unnumbered) <= calls + 1
    BY <1>0, <1>8 DEF NumbersFit
  <2> QED  BY <1>0, <1>1, <2>1, <2>2, <2>7, <2>8 DEF NumbersFit
<1>16. \A v \in Writers : Writing(v)' = Writing(v) /\ writer'[v].op = writer[v].op
  BY <1>1, <1>8 DEF Writing
<1>17. CreationIsFirst'
  <2>1. ASSUME NEW v \in Writers, Writing(v), writer[v].op = "create"
        PROVE  /\ writer'[v].pc \notin {"put", "insert"}
               /\ writer'[v].pc = "current" => current' = 0 /\ ~ edited'
    <3>1. v = w  BY <1>0, <1>2, <2>1 DEF CreationIsFirst
    <3> QED  BY <1>0, <1>1, <1>8, <2>1, <3>1 DEF CreationIsFirst
  <2> QED  BY <1>0, <1>1, <1>2, <1>16, <2>1 DEF CreationIsFirst
<1>18. WriterIsAlone'
  <2> SUFFICES ASSUME ~ edited' PROVE WriterIsAlone'
    BY DEF WriterIsAlone
  <2>1. ~ edited  BY <1>1
  <2>2. \A u, v \in Writers : (Writing(u) /\ Writing(v))' => u = v
    BY <1>0, <1>16, <2>1 DEF WriterIsAlone
  <2>3. \A v \in Writers : v # w =>
          writer'[v].pc \notin {"hash", "put", "insert", "current"}
    BY <1>2, <1>16, <2>2 DEF Writing
  <2>4. /\ writer[w].text = Intended(w) /\ (writer[w].op = "edit" => current # 0)
        /\ objects[writer[w].num] = writer[w].text
        /\ \A i \in Rows : versions[i].num # writer[w].num
        /\ EditsAreKept /\ VersionsAreKept
    BY <1>0, <1>1, <2>1 DEF WriterIsAlone
  <2>5. current # 0 => Text(current)' = Text(current)
    BY <1>0, <1>1, <1>10, <2>1, RowFacts
  <2>6. Intended(w)' = Intended(w)
    BY <1>1, <1>8, <2>4, <2>5 DEF Intended
  <2>7. EditsAreKept'  BY <1>1, <2>1, <2>4, <2>5 DEF EditsAreKept
  <2>8. VersionsAreKept'
    <3>1. versions'[Len(versions) + 1].num = writer[w].num  BY <1>3, <1>4
    <3>2. \A i \in Rows : versions'[i].num # versions'[Len(versions) + 1].num
      BY <1>5, <2>4, <3>1
    <3>3. \A i, j \in Rows : i # j => versions'[i].num # versions'[j].num
      BY <1>5, <2>1, <2>4 DEF VersionsAreKept, Rows
    <3>4. \A i, j \in Rows' : i # j => versions'[i].num # versions'[j].num
      BY <1>5, <3>2, <3>3
    <3>5. \A i \in Rows : versions'[i].hash # None => Text(i)' = versions'[i].hash
      BY <1>5, <1>10, <2>1, <2>4 DEF VersionsAreKept, Rows
    <3>7. \A i \in Rows' : versions'[i].hash # None => Text(i)' = versions'[i].hash
      <4> SUFFICES ASSUME NEW i \in Rows', versions'[i].hash # None
                   PROVE  Text(i)' = versions'[i].hash
        OBVIOUS
      <4>1. CASE i \in Rows  BY <3>5, <4>1
      <4>2. CASE i = Len(versions) + 1
        <5>1. objects'[versions'[i].num] = writer[w].text  BY <1>11, <2>4, <4>2
        <5> QED  BY <1>3, <1>4, <4>2, <5>1 DEF Text
      <4> QED  BY <1>5, <4>1, <4>2
    <3> QED  BY <3>4, <3>7 DEF VersionsAreKept, Rows
  <2>9. Text(writer[w].id)' = Intended(w)'
    <3>1. writer'[w].id = Len(versions) + 1  BY <1>4, <1>8
    <3> QED  BY <1>11, <2>4, <2>6, <3>1 DEF Text
  <2>10. \A v \in Writers :
         /\ writer'[v].pc \notin {"hash", "put", "insert"}
         /\ writer'[v].pc = "current" => Text(writer[v].id)' = Intended(v)'
         /\ writer'[v].pc = "current" /\ writer'[v].op = "edit" => current' # 0
    BY <1>1, <1>8, <2>3, <2>4, <2>9
  <2> QED  BY <2>2, <2>7, <2>8, <2>10 DEF WriterIsAlone
<1>19. ArchiveIsLast' /\ IngestFits' /\ IngestIsAlone' /\ ChunksAreFresh' /\ ErrorNeedsCause'
  <2>1. faults' >= faults  BY <1>0, <1>1 DEF Types
  <2>2. Writing(w)' /\ writer'[w].op = "create" => Writing(w) /\ writer[w].op = "create"
    BY <1>16
  <2> QED  BY <1>1, <1>2, <1>8, <1>9, <1>12, <2>1, <2>2, PartsStay
<1> QED  BY <1>9, <1>13, <1>14, <1>15, <1>17, <1>18, <1>19 DEF IInv

\* A version becomes current.
LEMMA SetCurrentStep ==
  ASSUME IInv, NEW w \in Writers, SetCurrent(w)
  PROVE  IInv'
<1>0. /\ Types /\ WriterFits /\ ObjectsExist /\ NumbersFit /\ CreationIsFirst /\ WriterIsAlone
      /\ ArchiveIsLast /\ IngestFits /\ IngestIsAlone /\ ChunksAreFresh /\ ErrorNeedsCause
  BY DEF IInv
<1>1. /\ UNCHANGED <<source, status, archived, versions, objects, parents, children,
                     node, ingest, archive, faults, calls, edited, repeated, early, hasty>>
      /\ UNCHANGED chunks /\ writer[w].pc = "current" /\ current' = writer[w].id
      /\ want' = CASE edited -> None
                   [] ~ edited /\ writer[w].op = "edit" -> want \cup {w}
                   [] ~ edited /\ writer[w].op # "edit" -> {w}
      /\ overtaken' = (overtaken \/ \E g \in Ingests : ingest[g].pc \notin {"idle", "find"})
  BY DEF SetCurrent, data, chunks, bounds
<1>2. /\ Writing(w) /\ status # "none" /\ writer[w].id \in 0 .. Len(versions)
      /\ writer[w].id # 0 /\ writer[w].op \in {"create", "edit", "whole"}
  BY <1>0, <1>1, WrittenIsThere, WriterTypes DEF Writing, WriterFits
<1>3. /\ writer' \in [Writers -> WriterRecords]
      /\ \A v \in Writers : v # w => writer'[v] = writer[v]
      /\ \/ /\ writer'[w].pc = "dirty" /\ writer'[w].op = writer[w].op
            /\ writer'[w].op # "create" /\ writer'[w].id = writer[w].id
         \/ /\ writer'[w].pc \in {"node", "done"} /\ writer'[w].op = "create"
            /\ writer[w].op = "create" /\ writer'[w].id = 0
  <2>1. CASE Return(w, "node") /\ writer[w].op = "create"
    <3>1. "node" \in WriterPCs  BY DEF WriterPCs
    <3> QED  BY <1>0, <2>1, <3>1, WriterReturns DEF Becomes
  <2>2. CASE Return(w, "done") /\ writer[w].op = "create"
    <3>1. "done" \in WriterPCs  BY DEF WriterPCs
    <3> QED  BY <1>0, <2>2, <3>1, WriterReturns DEF Becomes
  <2>3. CASE /\ writer[w].op # "create"
             /\ SetWriter(w, [NewWriter EXCEPT !.pc = "dirty", !.op = writer[w].op,
                                               !.id = writer[w].id])
    <3> DEFINE r == [NewWriter EXCEPT !.pc = "dirty", !.op = writer[w].op,
                                      !.id = writer[w].id]
    <3>1. writer[w].id \in Nat /\ writer[w].op \in {"create", "edit", "whole"}
      BY <1>0, WriterTypes
    <3>2. r \in WriterRecords  BY <3>1, NewWriterType DEF WriterRecords, WriterPCs
    <3>3. Becomes(w, r)  BY <1>0, <2>3, <3>2, WriterIsSet
    <3>4. r.pc = "dirty" /\ r.op = writer[w].op /\ r.id = writer[w].id  BY DEF NewWriter
    <3> QED  BY <2>3, <3>3, <3>4 DEF Becomes
  <2> QED  BY <2>1, <2>2, <2>3 DEF SetCurrent
<1>4. Rows' = Rows /\ \A i : Text(i)' = Text(i)
  BY <1>0, <1>1, RowsStayPut
<1>5. Types'  BY <1>0, <1>1, <1>2, <1>3 DEF Types
<1>6. WriterFits' /\ ObjectsExist'
  <2>1. 0 \in 0 .. Len(versions)  BY <1>0, RowFacts
  <2> QED  BY <1>0, <1>1, <1>2, <1>3, <2>1, WritersStay
<1>7. NumbersFit'
  <2>1. \A v \in Writers :
          /\ (writer'[v].pc \in {"read", "hash"}) <=> (writer[v].pc \in {"read", "hash"})
          /\ writer'[v].pc \in {"put", "insert"} =>
               writer[v].pc \in {"put", "insert"} /\ writer'[v].num = writer[v].num
    BY <1>1, <1>3
  <2> QED  BY <1>0, <1>1, <2>1, NumbersStay
<1>8. \A v \in Writers : Writing(v)' => Writing(v) /\ writer'[v].op = writer[v].op
  BY <1>2, <1>3 DEF Writing
<1>9. current' # 0 /\ current' \in Rows  BY <1>1, <1>2, <1>0, RowFacts DEF Rows
<1>10. CreationIsFirst'
  <2>1. ASSUME NEW v \in Writers, Writing(v)', writer'[v].op = "create"
        PROVE  writer'[v].pc \notin {"put", "insert", "current"}
    <3>1. v = w  BY <1>0, <1>2, <1>8, <2>1 DEF CreationIsFirst
    <3> QED  BY <1>3, <3>1
  <2> QED  BY <1>0, <1>1, <1>2, <1>8, <2>1 DEF CreationIsFirst
<1>11. WriterIsAlone'
  <2> SUFFICES ASSUME ~ edited' PROVE WriterIsAlone'
    BY DEF WriterIsAlone
  <2>1. ~ edited  BY <1>1
  <2>2. \A u, v \in Writers : (Writing(u) /\ Writing(v))' => u = v
    BY <1>0, <1>8, <2>1 DEF WriterIsAlone
  <2>3. \A v \in Writers : v # w => ~ Writing(v)'
    BY <1>0, <1>2, <1>8, <2>1 DEF WriterIsAlone
  <2>4. \A v \in Writers : writer'[v].pc \notin {"hash", "put", "insert", "current"}
    BY <1>3, <2>3 DEF Writing
  <2>5. /\ Text(writer[w].id) = Intended(w) /\ (writer[w].op = "edit" => current # 0)
        /\ EditsAreKept /\ VersionsAreKept
    BY <1>0, <1>1, <2>1 DEF WriterIsAlone
  <2>6. Text(current)' = Intended(w)  BY <1>1, <1>4, <2>5 DEF Text
  <2>7. want' = IF writer[w].op = "edit" THEN want \cup {w} ELSE {w}
    BY <1>1, <2>1
  <2>8. EditsAreKept'
    BY <2>1, <2>5, <2>6, <2>7 DEF EditsAreKept, Intended
  <2>9. VersionsAreKept'
    BY <1>1, <1>4, <2>1, <2>5 DEF VersionsAreKept
  <2> QED  BY <2>2, <2>4, <2>8, <2>9 DEF WriterIsAlone
<1>12. ArchiveIsLast'  BY <1>0, <1>1, <1>8 DEF ArchiveIsLast
<1>13. IngestFits' /\ IngestIsAlone'
  <2>1. faults' >= faults  BY <1>0, <1>1 DEF Types
  <2> QED  BY <1>0, <1>1, <1>5, <1>9, <2>1, IngestsStay
<1>14. ChunksAreFresh'
  <2> SUFFICES ASSUME ~ overtaken' PROVE ChunksAreFresh'
    BY DEF ChunksAreFresh
  <2>1. \A g \in Ingests : ingest'[g].pc \in {"idle", "find"}  BY <1>1
  <2>2. status' = "chunked" => writer'[w].pc = "dirty" /\ writer'[w].id = current'
    <3>1. writer[w].op = "create" => current = 0
      BY <1>0, <1>1, <1>2 DEF CreationIsFirst
    <3>2. current = 0 => status # "chunked"  BY <1>0 DEF IngestFits
    <3> QED  BY <1>1, <1>3, <3>1, <3>2
  <2>3. ChunksAreCurrent'  BY <2>2 DEF ChunksAreCurrent
  <2> QED  BY <2>1, <2>3 DEF ChunksAreFresh
<1>15. ErrorNeedsCause'  BY <1>0, <1>1 DEF ErrorNeedsCause
<1> QED  BY <1>5, <1>6, <1>7, <1>10, <1>11, <1>12, <1>13, <1>14, <1>15 DEF IInv

\* What a step that changes neither versions, objects nor the current version keeps, of a
\* writer whose call goes to its end.
LEMMA CallGoesOn ==
  ASSUME IInv, NEW w \in Writers, Writing(w),
         UNCHANGED <<source, current, archived, versions, objects, chunks, archive, calls,
                     want, edited, overtaken, early, hasty>>,
         Types', status' # "none",
         \A v \in Writers : v # w => writer'[v] = writer[v],
         writer'[w].pc \in {"launch", "done", "failed"},
         writer'[w].op = "create",
         writer'[w].pc = "launch" => writer[w].op = "create",
         writer'[w].id \in 0 .. Len(versions),
         ingest' = ingest
  PROVE  WriterFits' /\ ObjectsExist' /\ NumbersFit' /\ CreationIsFirst' /\ WriterIsAlone'
<1>0. /\ Types /\ WriterFits /\ ObjectsExist /\ NumbersFit /\ CreationIsFirst /\ WriterIsAlone
  BY DEF IInv
<1>1. WriterFits' /\ ObjectsExist'  BY <1>0, WritersStay
<1>2. NumbersFit'  BY <1>0, NumbersLose
<1>3. Writing(w)' => writer'[w].op = writer[w].op  BY DEF Writing
<1>4. CreationIsFirst' /\ WriterIsAlone'
  BY <1>0, <1>3, WrittenIsThere, OthersStay
<1> QED  BY <1>1, <1>2, <1>4

\* An edit marks the document dirty.
LEMMA SetDirtyStep ==
  ASSUME IInv, NEW w \in Writers, SetDirty(w)
  PROVE  IInv'
<1>0. Types /\ WriterFits  BY DEF IInv
<1>1. /\ UNCHANGED <<source, current, archived, versions, objects, parents, children,
                     node, ingest, archive, faults, calls, want, edited, repeated, overtaken,
                     early, hasty>>
      /\ UNCHANGED chunks /\ writer[w].pc = "dirty" /\ status' = "dirty" /\ Return(w, "done")
  BY DEF SetDirty, data, chunks, bounds, history
<1>2. Writing(w) /\ status # "none"  BY <1>1, WrittenIsThere DEF Writing, IInv
<1>3. /\ writer' \in [Writers -> WriterRecords]
      /\ \A v \in Writers : v # w => writer'[v] = writer[v]
      /\ writer'[w].pc = "done" /\ writer'[w].op = "create" /\ writer'[w].id = 0
  <2>1. "done" \in WriterPCs  BY DEF WriterPCs
  <2> QED  BY <1>0, <1>1, <2>1, WriterReturns DEF Becomes
<1>4. Types'  BY <1>0, <1>1, <1>3 DEF Types
<1>5. RowsStay  BY <1>0, <1>1, RowsStayPut
<1>6. WriterFits' /\ ObjectsExist' /\ NumbersFit' /\ CreationIsFirst' /\ WriterIsAlone'
  <2>1. 0 \in 0 .. Len(versions)  BY <1>0, RowFacts
  <2> QED  BY <1>1, <1>2, <1>3, <1>4, <2>1, CallGoesOn
<1>7. ArchiveIsLast' /\ IngestFits' /\ IngestIsAlone' /\ ChunksAreFresh' /\ ErrorNeedsCause'
  <2>1. faults' >= faults  BY <1>0, <1>1 DEF Types
  <2>2. ~ Writing(w)'  BY <1>3 DEF Writing
  <2> QED  BY <1>1, <1>2, <1>3, <1>4, <1>5, <2>1, <2>2, PartsStay
<1> QED  BY <1>4, <1>6, <1>7 DEF IInv

\* A creation puts the document in the tree.
LEMMA InsertNodeStep ==
  ASSUME IInv, NEW w \in Writers, InsertNode(w)
  PROVE  IInv'
<1>0. Types /\ WriterFits  BY DEF IInv
<1>1. /\ UNCHANGED <<source, status, current, archived, versions, objects, parents, children,
                     ingest, archive, faults, calls, want, edited, repeated, overtaken,
                     early, hasty>>
      /\ UNCHANGED chunks /\ writer[w].pc = "node" /\ node' = TRUE /\ WriterTo(w, "launch")
  BY DEF InsertNode, doc, data, chunks, bounds, history
<1>2. Writing(w) /\ status # "none" /\ writer[w].op = "create"
  BY <1>0, <1>1, WrittenIsThere DEF Writing, IInv, WriterFits
<1>3. /\ writer' \in [Writers -> WriterRecords]
      /\ \A v \in Writers : v # w => writer'[v] = writer[v]
      /\ writer'[w].pc = "launch" /\ writer'[w].op = "create" /\ writer'[w].id = writer[w].id
  <2>1. "launch" \in WriterPCs  BY DEF WriterPCs
  <2> QED  BY <1>0, <1>1, <1>2, <2>1, WriterMoves DEF Becomes
<1>4. Types'  BY <1>0, <1>1, <1>3 DEF Types
<1>5. RowsStay  BY <1>0, <1>1, RowsStayPut
<1>6. WriterFits' /\ ObjectsExist' /\ NumbersFit' /\ CreationIsFirst' /\ WriterIsAlone'
  <2>1. writer'[w].id \in 0 .. Len(versions)  BY <1>0, <1>3 DEF WriterFits
  <2> QED  BY <1>1, <1>2, <1>3, <1>4, <2>1, CallGoesOn
<1>7. ArchiveIsLast' /\ IngestFits' /\ IngestIsAlone' /\ ChunksAreFresh' /\ ErrorNeedsCause'
  <2>1. faults' >= faults  BY <1>0, <1>1 DEF Types
  <2>2. \E v \in Writers : Writing(v) /\ writer[v].op = "create"  BY <1>2
  <2> QED  BY <1>1, <1>2, <1>3, <1>4, <1>5, <2>1, <2>2, PartsStay
<1> QED  BY <1>4, <1>6, <1>7 DEF IInv

\* A writer's call fails.
LEMMA WriterFailsStep ==
  ASSUME IInv, NEW w \in Writers, WriterFails(w)
  PROVE  IInv'
<1>0. Types /\ WriterFits  BY DEF IInv
<1> DEFINE r == [NewWriter EXCEPT !.pc = "failed",
                   !.id = IF writer[w].pc = "dirty" THEN writer[w].id ELSE 0]
<1>1. /\ UNCHANGED <<source, status, current, archived, versions, objects, parents, children,
                     node, ingest, archive, calls, want, edited, repeated, overtaken,
                     early, hasty>>
      /\ UNCHANGED chunks /\ Writing(w) /\ faults < MaxFaults /\ faults' = faults + 1
      /\ SetWriter(w, r)
  BY DEF WriterFails, doc, data, chunks, history
<1>2. status # "none"  BY <1>1, WrittenIsThere DEF IInv
<1>3. /\ r \in WriterRecords /\ r.pc = "failed" /\ r.op = "create"
      /\ r.id = IF writer[w].pc = "dirty" THEN writer[w].id ELSE 0
  <2>1. writer[w].id \in Nat  BY <1>0, WriterTypes
  <2> QED  BY <2>1, NewWriterType DEF WriterRecords, WriterPCs, NewWriter
<1>4. Becomes(w, r)  BY <1>0, <1>1, <1>3, WriterIsSet
<1> HIDE DEF r
<1>5. /\ writer' \in [Writers -> WriterRecords]
      /\ \A v \in Writers : v # w => writer'[v] = writer[v]
      /\ writer'[w].pc = "failed" /\ writer'[w].op = "create"
      /\ writer[w].pc = "dirty" => writer'[w].id = writer[w].id
      /\ writer'[w].id \in {0, writer[w].id}
  BY <1>3, <1>4 DEF Becomes
<1>6. faults' \in 0 .. MaxFaults /\ faults' >= faults
  BY <1>0, <1>1, DocumentAssumption DEF Types
<1>7. Types'  BY <1>0, <1>1, <1>5, <1>6 DEF Types
<1>8. RowsStay  BY <1>0, <1>1, RowsStayPut
<1>9. WriterFits' /\ ObjectsExist' /\ NumbersFit' /\ CreationIsFirst' /\ WriterIsAlone'
  <2>1. 0 \in 0 .. Len(versions)  BY <1>0, RowFacts
  <2>2. writer'[w].id \in 0 .. Len(versions)  BY <1>0, <1>5, <2>1 DEF WriterFits
  <2> QED  BY <1>1, <1>2, <1>5, <1>7, <2>2, CallGoesOn
<1>10. ArchiveIsLast' /\ IngestFits' /\ IngestIsAlone' /\ ChunksAreFresh' /\ ErrorNeedsCause'
  <2>1. writer[w].pc # "failed"  BY <1>1 DEF Writing
  <2>2. ~ Writing(w)'  BY <1>5 DEF Writing
  <2> QED  BY <1>1, <1>2, <1>5, <1>6, <1>7, <1>8, <2>1, <2>2, PartsStay
<1> QED  BY <1>7, <1>9, <1>10 DEF IInv
-----------------------------------------------------------------------------
(* Archive. *)

\* The document is archived.
LEMMA ArchiveRowStep ==
  ASSUME IInv, ArchiveRow
  PROVE  IInv'
<1>0. /\ Types /\ WriterFits /\ ObjectsExist /\ NumbersFit /\ CreationIsFirst /\ WriterIsAlone
      /\ IngestFits /\ IngestIsAlone /\ ChunksAreFresh /\ ErrorNeedsCause
  BY DEF IInv
<1>1. /\ UNCHANGED <<source, status, current, versions, objects, parents, children, writer,
                     node, ingest, faults, calls, want, edited, repeated, overtaken, early>>
      /\ UNCHANGED chunks /\ archived' = TRUE /\ archive' = "nodes" /\ status # "none"
      /\ hasty' = \E w \in Writers : writer[w].op = "create" /\ Writing(w)
  BY DEF ArchiveRow, data, chunks, bounds
<1>2. Types'  BY <1>0, <1>1 DEF Types
<1>3. RowsStay /\ Rows' = Rows /\ \A i : Text(i)' = Text(i)  BY <1>0, <1>1, RowsStayPut
<1>4. \A w \in Writers : Writing(w)' = Writing(w) /\ Intended(w)' = Intended(w)
  BY <1>1, <1>3 DEF Writing, Intended
<1>5. WriterFits' /\ ObjectsExist'  BY <1>0, <1>1, <1>3 DEF WriterFits, ObjectsExist
<1>6. NumbersFit'  BY <1>0, <1>1, NumbersStay
<1>7. CreationIsFirst'  BY <1>0, <1>1, <1>4 DEF CreationIsFirst
<1>8. WriterIsAlone'
  <2>1. EditsAreKept' <=> EditsAreKept  BY <1>1, <1>3 DEF EditsAreKept
  <2>2. VersionsAreKept' <=> VersionsAreKept  BY <1>1, <1>3 DEF VersionsAreKept
  <2> QED  BY <1>0, <1>1, <1>3, <1>4, <2>1, <2>2 DEF WriterIsAlone
<1>9. ArchiveIsLast'  BY <1>1, <1>4 DEF ArchiveIsLast
<1>10. faults' >= faults  BY <1>0, <1>1 DEF Types
<1>11. IngestFits' /\ IngestIsAlone'  BY <1>0, <1>1, <1>2, <1>10, IngestsStay
<1>12. ChunksAreFresh'  BY <1>0, <1>1, <1>2, <1>3, FreshStays
<1>13. ErrorNeedsCause'  BY <1>0, <1>1 DEF ErrorNeedsCause
<1> QED  BY <1>2, <1>5, <1>6, <1>7, <1>8, <1>9, <1>11, <1>12, <1>13 DEF IInv

\* Its pointers in the tree are deleted, or that fails.
LEMMA DeleteNodesStep ==
  ASSUME IInv, DeleteNodes
  PROVE  IInv'
<1>0. /\ Types /\ WriterFits /\ ObjectsExist /\ NumbersFit /\ CreationIsFirst /\ WriterIsAlone
      /\ ArchiveIsLast /\ IngestFits /\ IngestIsAlone /\ ChunksAreFresh /\ ErrorNeedsCause
  BY DEF IInv
<1>1. /\ UNCHANGED <<source, status, current, archived, versions, objects, parents, children,
                     writer, ingest, calls, want, edited, repeated, overtaken, early, hasty>>
      /\ UNCHANGED chunks /\ archive = "nodes" /\ archive' = "done"
      /\ \/ node' = FALSE /\ faults' = faults
         \/ faults < MaxFaults /\ faults' = faults + 1 /\ node' = node
  BY DEF DeleteNodes, doc, data, chunks, history
<1>2. faults' \in 0 .. MaxFaults /\ faults' >= faults /\ (node' => faults' > 0)
  BY <1>0, <1>1, DocumentAssumption DEF Types
<1>3. Types'  BY <1>0, <1>1, <1>2 DEF Types
<1>4. RowsStay /\ Rows' = Rows /\ \A i : Text(i)' = Text(i)  BY <1>0, <1>1, RowsStayPut
<1>5. \A w \in Writers : Writing(w)' = Writing(w) /\ Intended(w)' = Intended(w)
  BY <1>1, <1>4 DEF Writing, Intended
<1>6. WriterFits' /\ ObjectsExist'  BY <1>0, <1>1, <1>4 DEF WriterFits, ObjectsExist
<1>7. NumbersFit'  BY <1>0, <1>1, NumbersStay
<1>8. CreationIsFirst'  BY <1>0, <1>1, <1>5 DEF CreationIsFirst
<1>9. WriterIsAlone'
  <2>1. EditsAreKept' <=> EditsAreKept  BY <1>1, <1>4 DEF EditsAreKept
  <2>2. VersionsAreKept' <=> VersionsAreKept  BY <1>1, <1>4 DEF VersionsAreKept
  <2> QED  BY <1>0, <1>1, <1>4, <1>5, <2>1, <2>2 DEF WriterIsAlone
<1>10. ArchiveIsLast'  BY <1>0, <1>1, <1>2, <1>5 DEF ArchiveIsLast
<1>11. IngestFits' /\ IngestIsAlone'  BY <1>0, <1>1, <1>2, <1>3, IngestsStay
<1>12. ChunksAreFresh'  BY <1>0, <1>1, <1>3, <1>4, FreshStays
<1>13. ErrorNeedsCause'
  <2>1. faults > 0 => faults' > 0  BY <1>0, <1>2 DEF Types
  <2> QED  BY <1>0, <1>1, <2>1 DEF ErrorNeedsCause
<1> QED  BY <1>3, <1>6, <1>7, <1>8, <1>9, <1>10, <1>11, <1>12, <1>13 DEF IInv
-----------------------------------------------------------------------------
(* The steps of an ingestion. *)

\* Writers do not see an ingestion's step, which the document must be there for.
LEMMA WritersIgnore ==
  ASSUME IInv, Types',
         UNCHANGED <<current, versions, objects, node, writer, archive, calls, want, edited,
                     hasty>>,
         faults' >= faults, status # "none", status' # "none"
  PROVE  WriterFits' /\ ObjectsExist' /\ NumbersFit' /\ CreationIsFirst' /\ WriterIsAlone'
         /\ ArchiveIsLast'
<1>0. /\ Types /\ WriterFits /\ ObjectsExist /\ NumbersFit /\ CreationIsFirst /\ WriterIsAlone
      /\ ArchiveIsLast
  BY DEF IInv
<1>1. Rows' = Rows /\ \A i : Text(i)' = Text(i)  BY <1>0, RowsStayPut
<1>2. \A w \in Writers : Writing(w)' = Writing(w) /\ Intended(w)' = Intended(w)
  BY <1>1 DEF Writing, Intended
<1>3. WriterFits' /\ ObjectsExist'  BY <1>0, <1>1 DEF WriterFits, ObjectsExist
<1>4. NumbersFit'  BY <1>0, NumbersStay
<1>5. CreationIsFirst'  BY <1>0, <1>2 DEF CreationIsFirst
<1>6. WriterIsAlone'
  <2>1. EditsAreKept' <=> EditsAreKept  BY <1>1 DEF EditsAreKept
  <2>2. VersionsAreKept' <=> VersionsAreKept  BY <1>1 DEF VersionsAreKept
  <2> QED  BY <1>0, <1>1, <1>2, <2>1, <2>2 DEF WriterIsAlone
<1>7. faults > 0 => faults' > 0  BY <1>0 DEF Types
<1>8. ArchiveIsLast'  BY <1>0, <1>2, <1>7 DEF ArchiveIsLast
<1> QED  BY <1>3, <1>4, <1>5, <1>6, <1>8

\* The text an ingestion has and the chunks it has not touched stay as current as they were.
LEMMA FreshGoesOn ==
  ASSUME Types, ChunksAreFresh, NEW g \in Ingests,
         \A h \in Ingests : h # g => ingest'[h] = ingest[h],
         UNCHANGED <<current, edited, overtaken, children, versions, objects>>,
         status' = status \/ status' # "chunked",
         \A w \in Writers : writer[w].pc \in {"dirty", "failed"} => writer'[w] = writer[w],
         ~ edited /\ ~ overtaken /\ ingest'[g].pc \in {"clear", "parents", "children"} =>
           ingest'[g].text = Text(current),
         ingest'[g].pc \in {"parents", "children", "mark"} =>
           ingest[g].pc \in {"parents", "children", "mark"}
  PROVE  ChunksAreFresh'
<1> SUFFICES ASSUME ~ edited', ~ overtaken' PROVE ChunksAreFresh'
  BY DEF ChunksAreFresh
<1>1. ~ edited /\ ~ overtaken  OBVIOUS
<1>2. \A i : Text(i)' = Text(i)  BY <1>1, RowsStayPut
<1>3. Text(current)' = Text(current)  BY <1>2
<1>4. \A h \in Ingests : ingest'[h].pc \in {"clear", "parents", "children"} =>
        ingest'[h].text = Text(current)'
  BY <1>1, <1>3 DEF ChunksAreFresh
<1>5. (\E h \in Ingests : ingest'[h].pc \in {"parents", "children", "mark"}) =>
        \A c \in children' : c[2] = Text(current)'
  <2>1. (\E h \in Ingests : ingest'[h].pc \in {"parents", "children", "mark"}) =>
          \E h \in Ingests : ingest[h].pc \in {"parents", "children", "mark"}
    OBVIOUS
  <2> QED  BY <1>1, <1>3, <2>1 DEF ChunksAreFresh
<1>6. ChunksAreCurrent'
  BY <1>1, <1>3 DEF ChunksAreFresh, ChunksAreCurrent
<1> QED  BY <1>4, <1>5, <1>6 DEF ChunksAreFresh

\* An ingestion starts: repeated when another goes on or the document is chunked.
LEMMA StartKeeps ==
  ASSUME IInv, NEW g \in Ingests, Start(g),
         UNCHANGED <<status, current, chunks, early, edited, overtaken, versions, objects>>,
         status # "none", faults' = faults, Types',
         \A w \in Writers : writer[w].pc \in {"dirty", "failed"} => writer'[w] = writer[w]
  PROVE  IngestFits' /\ IngestIsAlone' /\ ChunksAreFresh'
<1>0. Types /\ IngestFits /\ IngestIsAlone /\ ChunksAreFresh  BY DEF IInv
<1>1. /\ ingest'[g].pc = "find"
      /\ \A h \in Ingests : h # g => ingest'[h] = ingest[h]
  <2>1. "find" \in IngestPCs  BY DEF IngestPCs
  <2> QED  BY <1>0, <2>1, IngestMoves DEF Start, IngestBecomes
<1>2. ~ Ingesting(g)
      /\ repeated' = (repeated \/ status = "chunked" \/ \E h \in Ingests : Ingesting(h))
  BY DEF Start
<1>3. IngestFits'  BY <1>0, <1>1 DEF IngestFits, chunks
<1>4. IngestIsAlone'
  <2> SUFFICES ASSUME ~ repeated' PROVE IngestIsAlone'
    BY DEF IngestIsAlone
  <2>1. ~ repeated /\ status # "chunked" /\ \A h \in Ingests : ~ Ingesting(h)
    BY <1>2
  <2>2. \A h \in Ingests : h # g => ingest'[h].pc = "idle"  BY <1>1, <2>1 DEF Ingesting
  <2>3. \A h, i \in Ingests : (Ingesting(h) /\ Ingesting(i))' => h = i
    BY <2>2 DEF Ingesting
  <2>4. \A h \in Ingests : ingest'[h].pc \in {"idle", "find"}  BY <1>1, <2>2
  <2> QED  BY <2>1, <2>3, <2>4 DEF IngestIsAlone
<1>5. ChunksAreFresh'
  <2>1. children' = children  BY DEF chunks
  <2> QED  BY <1>0, <1>1, <2>1, FreshGoesOn
<1> QED  BY <1>3, <1>4, <1>5

\* The ingestion that a creation starts.
LEMMA IngestOnWriteStep ==
  ASSUME IInv, NEW w \in Writers, NEW g \in Ingests, IngestOnWrite(w, g)
  PROVE  IInv'
<1>0. Types /\ WriterFits /\ ArchiveIsLast /\ ErrorNeedsCause  BY DEF IInv
<1>1. /\ UNCHANGED <<source, status, current, archived, versions, objects, parents, children,
                     node, archive, faults, calls, want, edited, overtaken, early, hasty>>
      /\ UNCHANGED chunks /\ writer[w].pc = "launch" /\ Return(w, "done") /\ Start(g)
  BY DEF IngestOnWrite, doc, data, chunks, bounds
<1>2. Writing(w) /\ status # "none" /\ writer[w].op = "create"
  BY <1>0, <1>1, WrittenIsThere DEF Writing, IInv, WriterFits
<1>3. /\ writer' \in [Writers -> WriterRecords]
      /\ \A v \in Writers : v # w => writer'[v] = writer[v]
      /\ writer'[w].pc = "done" /\ writer'[w].op = "create" /\ writer'[w].id = 0
  <2>1. "done" \in WriterPCs  BY DEF WriterPCs
  <2> QED  BY <1>0, <1>1, <2>1, WriterReturns DEF Becomes
<1>4. ingest' \in [Ingests -> IngestRecords]
  <2>1. "find" \in IngestPCs  BY DEF IngestPCs
  <2> QED  BY <1>0, <1>1, <2>1, IngestMoves DEF Start, IngestBecomes
<1>5. Types'  BY <1>0, <1>1, <1>3, <1>4 DEF Types
<1>6. IngestFits' /\ IngestIsAlone' /\ ChunksAreFresh'
  BY <1>1, <1>2, <1>3, <1>5, StartKeeps
<1>7. WriterFits' /\ ObjectsExist' /\ NumbersFit' /\ CreationIsFirst' /\ WriterIsAlone'
  <2>1. 0 \in 0 .. Len(versions)  BY <1>0, RowFacts
  <2>2. WriterFits' /\ ObjectsExist'
    BY <1>0, <1>1, <1>3, <2>1, WritersStay DEF IInv
  <2>3. NumbersFit'  BY <1>0, <1>1, <1>3, <1>5, NumbersLose DEF IInv
  <2>4. ~ Writing(w)' /\ \A v \in Writers : v # w => Writing(v)' = Writing(v)
    BY <1>3 DEF Writing
  <2>5. \A i : Text(i)' = Text(i)  BY <1>0, <1>1, RowsStayPut
  <2>6. CreationIsFirst'
    BY <1>1, <1>2, <1>3, <2>4 DEF CreationIsFirst, IInv
  <2>7. EditsAreKept' <=> EditsAreKept  BY <1>1, <2>5 DEF EditsAreKept
  <2>8. VersionsAreKept' <=> VersionsAreKept  BY <1>1, <2>5 DEF VersionsAreKept
  <2>9. WriterIsAlone'
    <3> SUFFICES ASSUME ~ edited' PROVE WriterIsAlone'
      BY DEF WriterIsAlone
    <3>1. ~ edited /\ WriterIsAlone  BY <1>1 DEF IInv
    <3>2. \A v \in Writers : ~ Writing(v)'  BY <1>2, <2>4, <3>1 DEF WriterIsAlone
    <3>3. \A v \in Writers : writer'[v].pc \notin {"hash", "put", "insert", "current"}
      BY <3>2 DEF Writing
    <3> QED  BY <2>7, <2>8, <3>1, <3>2, <3>3 DEF WriterIsAlone
  <2> QED  BY <2>2, <2>3, <2>6, <2>9
<1>8. ArchiveIsLast'
  <2>1. \A v \in Writers : (Writing(v) /\ writer[v].op = "create")' =>
          Writing(v) /\ writer[v].op = "create"
    BY <1>3 DEF Writing
  <2> QED  BY <1>0, <1>1, <2>1 DEF ArchiveIsLast
<1>9. ErrorNeedsCause'  BY <1>0, <1>1 DEF ErrorNeedsCause
<1> QED  BY <1>5, <1>6, <1>7, <1>8, <1>9 DEF IInv

\* An ingestion is requested, or the sweep comes to the document.
LEMMA StartStep ==
  ASSUME IInv, NEW g \in Ingests, Request(g) \/ Sweep(g)
  PROVE  IInv'
<1>0. Types /\ ErrorNeedsCause  BY DEF IInv
<1>1. /\ UNCHANGED <<source, status, current, archived, versions, objects, parents, children,
                     node, writer, archive, faults, calls, want, edited, overtaken, early,
                     hasty>>
      /\ UNCHANGED chunks /\ Start(g) /\ status # "none"
  BY DEF Request, Sweep, doc, data, chunks, bounds
<1>2. ingest' \in [Ingests -> IngestRecords]
  <2>1. "find" \in IngestPCs  BY DEF IngestPCs
  <2> QED  BY <1>0, <1>1, <2>1, IngestMoves DEF Start, IngestBecomes
<1>3. Types'  BY <1>0, <1>1, <1>2 DEF Types
<1>4. faults' >= faults  BY <1>0, <1>1 DEF Types
<1>5. IngestFits' /\ IngestIsAlone' /\ ChunksAreFresh'  BY <1>1, <1>3, StartKeeps
<1>6. WriterFits' /\ ObjectsExist' /\ NumbersFit' /\ CreationIsFirst' /\ WriterIsAlone'
      /\ ArchiveIsLast'
  BY <1>1, <1>3, <1>4, WritersIgnore
<1>7. ErrorNeedsCause'  BY <1>0, <1>1 DEF ErrorNeedsCause
<1> QED  BY <1>3, <1>5, <1>6, <1>7 DEF IInv

\* The document of an ingestion is there.
LEMMA IngestedIsThere ==
  ASSUME IInv, NEW g \in Ingests, Ingesting(g)
  PROVE  status # "none"
BY DEF IInv, CreationIsFirst

\* An ingestion reads the document, its version and its text.
LEMMA FetchStep ==
  ASSUME IInv, NEW g \in Ingests, Fetch(g)
  PROVE  IInv'
<1>0. Types /\ ObjectsExist /\ IngestFits /\ IngestIsAlone /\ ChunksAreFresh /\ ErrorNeedsCause
  BY DEF IInv
<1>1. /\ UNCHANGED <<source, status, current, archived, versions, objects, parents, children,
                     node, writer, archive, faults, calls, want, edited, repeated, overtaken,
                     hasty>>
      /\ UNCHANGED chunks /\ ingest[g].pc = "find" /\ early' = (early \/ current = 0)
  BY DEF Fetch, doc, data, chunks, bounds
<1>2. Ingesting(g) /\ status # "none"  BY <1>1, IngestedIsThere DEF Ingesting
<1>3. /\ ingest' \in [Ingests -> IngestRecords]
      /\ \A h \in Ingests : h # g => ingest'[h] = ingest[h]
      /\ \/ ingest'[g].pc = "error" /\ current = 0
         \/ /\ ingest'[g].pc = "clear" /\ current # 0 /\ ingest'[g].text = Text(current)
            /\ Text(current) \in Texts
  <2>1. CASE current = 0
    <3>1. "error" \in IngestPCs  BY DEF IngestPCs
    <3>2. IngestEnds(g, "error")  BY <2>1 DEF Fetch
    <3> QED  BY <1>0, <2>1, <3>1, <3>2, IngestMoves DEF IngestBecomes
  <2>2. CASE current # 0
    <3> DEFINE r == [pc |-> "clear", text |-> Text(current)]
    <3>1. Text(current) \in Texts  BY <1>0, <2>2, RowFacts DEF ObjectsExist, Text
    <3>2. r \in IngestRecords  BY <3>1 DEF IngestRecords, IngestPCs
    <3>3. IngestBecomes(g, r)  BY <1>0, <2>2, <3>2, IngestIsSet DEF Fetch
    <3> QED  BY <2>2, <3>1, <3>3 DEF IngestBecomes
  <2> QED  BY <2>1, <2>2
<1>4. Types'  BY <1>0, <1>1, <1>3 DEF Types
<1>5. faults' >= faults  BY <1>0, <1>1 DEF Types
<1>6. IngestFits'  BY <1>0, <1>1, <1>3 DEF IngestFits
<1>7. IngestIsAlone'
  <2>1. \A h \in Ingests : Ingesting(h)' = Ingesting(h)  BY <1>1, <1>3 DEF Ingesting
  <2> QED  BY <1>0, <1>1, <1>3, <2>1 DEF IngestIsAlone
<1>8. ChunksAreFresh'  BY <1>0, <1>1, <1>3, FreshGoesOn
<1>9. WriterFits' /\ ObjectsExist' /\ NumbersFit' /\ CreationIsFirst' /\ WriterIsAlone'
      /\ ArchiveIsLast'
  BY <1>1, <1>2, <1>4, <1>5, WritersIgnore
<1>10. ErrorNeedsCause'  BY <1>0, <1>1 DEF ErrorNeedsCause
<1> QED  BY <1>4, <1>6, <1>7, <1>8, <1>9, <1>10 DEF IInv

\* The old chunks are deleted.
LEMMA ClearChunksStep ==
  ASSUME IInv, NEW g \in Ingests, ClearChunks(g)
  PROVE  IInv'
<1>0. Types /\ IngestFits /\ IngestIsAlone /\ ChunksAreFresh /\ ErrorNeedsCause
  BY DEF IInv
<1>1. /\ UNCHANGED <<source, status, current, archived, versions, objects,
                     node, writer, archive, faults, calls, want, edited, repeated, overtaken,
                     early, hasty>>
      /\ ingest[g].pc = "clear" /\ parents' = {} /\ children' = {} /\ IngestTo(g, "parents")
  BY DEF ClearChunks, doc, data, bounds, history
<1>2. Ingesting(g) /\ status # "none"  BY <1>1, IngestedIsThere DEF Ingesting
<1>3. /\ ingest' \in [Ingests -> IngestRecords]
      /\ \A h \in Ingests : h # g => ingest'[h] = ingest[h]
      /\ ingest'[g].pc = "parents" /\ ingest'[g].text = ingest[g].text
  <2>1. "parents" \in IngestPCs  BY DEF IngestPCs
  <2> QED  BY <1>0, <1>1, <2>1, IngestMoves DEF IngestBecomes
<1>4. Types'  BY <1>0, <1>1, <1>3 DEF Types
<1>5. faults' >= faults  BY <1>0, <1>1 DEF Types
<1>6. IngestFits'  BY <1>0, <1>1, <1>3 DEF IngestFits
<1>7. IngestIsAlone'
  <2> SUFFICES ASSUME ~ repeated' PROVE IngestIsAlone'
    BY DEF IngestIsAlone
  <2>1. ~ repeated  BY <1>1
  <2>2. \A h \in Ingests : Ingesting(h)' = Ingesting(h)  BY <1>1, <1>3 DEF Ingesting
  <2>3. \A h \in Ingests : h # g => ingest'[h].pc = "idle"
    BY <1>2, <1>3, <1>0, <2>1 DEF IngestIsAlone, Ingesting
  <2>4. status' # "chunked"  BY <1>0, <1>1, <1>2, <2>1 DEF IngestIsAlone
  <2>5. \A h, i \in Ingests : (Ingesting(h) /\ Ingesting(i))' => h = i
    BY <2>3 DEF Ingesting
  <2> QED  BY <1>1, <1>3, <2>3, <2>4, <2>5 DEF IngestIsAlone
<1>8. ChunksAreFresh'
  <2> SUFFICES ASSUME ~ edited', ~ overtaken' PROVE ChunksAreFresh'
    BY DEF ChunksAreFresh
  <2>1. Text(current)' = Text(current)  BY <1>0, <1>1 DEF Text
  <2>2. \A h \in Ingests : ingest'[h].pc \in {"clear", "parents", "children"} =>
          ingest'[h].text = Text(current)'
    BY <1>0, <1>1, <1>3, <2>1 DEF ChunksAreFresh
  <2> QED  BY <1>1, <2>2 DEF ChunksAreFresh, ChunksAreCurrent
<1>9. WriterFits' /\ ObjectsExist' /\ NumbersFit' /\ CreationIsFirst' /\ WriterIsAlone'
      /\ ArchiveIsLast'
  BY <1>1, <1>2, <1>4, <1>5, WritersIgnore
<1>10. ErrorNeedsCause'  BY <1>0, <1>1 DEF ErrorNeedsCause
<1> QED  BY <1>4, <1>6, <1>7, <1>8, <1>9, <1>10 DEF IInv

\* The parents are inserted.
LEMMA InsertParentsStep ==
  ASSUME IInv, NEW g \in Ingests, InsertParents(g)
  PROVE  IInv'
<1>0. Types /\ IngestFits /\ IngestIsAlone /\ ChunksAreFresh /\ ErrorNeedsCause
  BY DEF IInv
<1>1. /\ UNCHANGED <<source, status, current, archived, versions, objects, children,
                     node, writer, archive, faults, calls, want, edited, repeated, overtaken,
                     early, hasty>>
      /\ ingest[g].pc = "parents" /\ parents' = parents \cup {<<g, ingest[g].text>>}
      /\ IngestTo(g, "children")
  BY DEF InsertParents, doc, data, bounds, history
<1>2. Ingesting(g) /\ status # "none" /\ ingest[g].text \in Texts
  BY <1>0, <1>1, IngestedIsThere DEF Ingesting, IngestFits
<1>3. /\ ingest' \in [Ingests -> IngestRecords]
      /\ \A h \in Ingests : h # g => ingest'[h] = ingest[h]
      /\ ingest'[g].pc = "children" /\ ingest'[g].text = ingest[g].text
  <2>1. "children" \in IngestPCs  BY DEF IngestPCs
  <2> QED  BY <1>0, <1>1, <2>1, IngestMoves DEF IngestBecomes
<1>4. Types'  BY <1>0, <1>1, <1>2, <1>3 DEF Types
<1>5. faults' >= faults  BY <1>0, <1>1 DEF Types
<1>6. IngestFits'  BY <1>0, <1>1, <1>2, <1>3 DEF IngestFits
<1>7. IngestIsAlone'
  <2> SUFFICES ASSUME ~ repeated' PROVE IngestIsAlone'
    BY DEF IngestIsAlone
  <2>1. ~ repeated  BY <1>1
  <2>2. \A h \in Ingests : h # g => ingest'[h].pc = "idle"
    BY <1>2, <1>3, <1>0, <2>1 DEF IngestIsAlone, Ingesting
  <2>3. /\ status' # "chunked" /\ parents' = {<<g, ingest'[g].text>>} /\ children' = {}
    BY <1>0, <1>1, <1>2, <1>3, <2>1 DEF IngestIsAlone
  <2>4. \A h, i \in Ingests : (Ingesting(h) /\ Ingesting(i))' => h = i
    BY <2>2 DEF Ingesting
  <2> QED  BY <1>3, <2>2, <2>3, <2>4 DEF IngestIsAlone
<1>8. ChunksAreFresh'
  <2>1. ~ edited /\ ~ overtaken => ingest'[g].text = Text(current)
    BY <1>0, <1>1, <1>3 DEF ChunksAreFresh
  <2> QED  BY <1>0, <1>1, <1>3, <2>1, FreshGoesOn
<1>9. WriterFits' /\ ObjectsExist' /\ NumbersFit' /\ CreationIsFirst' /\ WriterIsAlone'
      /\ ArchiveIsLast'
  BY <1>1, <1>2, <1>4, <1>5, WritersIgnore
<1>10. ErrorNeedsCause'  BY <1>0, <1>1 DEF ErrorNeedsCause
<1> QED  BY <1>4, <1>6, <1>7, <1>8, <1>9, <1>10 DEF IInv

\* The children are inserted.
LEMMA InsertChildrenStep ==
  ASSUME IInv, NEW g \in Ingests, InsertChildren(g)
  PROVE  IInv'
<1>0. Types /\ IngestFits /\ IngestIsAlone /\ ChunksAreFresh /\ ErrorNeedsCause
  BY DEF IInv
<1>1. /\ UNCHANGED <<source, status, current, archived, versions, objects, parents,
                     node, writer, archive, faults, calls, want, edited, repeated, overtaken,
                     early, hasty>>
      /\ ingest[g].pc = "children" /\ children' = children \cup {<<g, ingest[g].text>>}
      /\ IngestEnds(g, "mark")
  BY DEF InsertChildren, doc, data, bounds, history
<1>2. Ingesting(g) /\ status # "none" /\ ingest[g].text \in Texts /\ current # 0
  BY <1>0, <1>1, IngestedIsThere DEF Ingesting, IngestFits
<1>3. /\ ingest' \in [Ingests -> IngestRecords]
      /\ \A h \in Ingests : h # g => ingest'[h] = ingest[h]
      /\ ingest'[g].pc = "mark"
  <2>1. "mark" \in IngestPCs  BY DEF IngestPCs
  <2> QED  BY <1>0, <1>1, <2>1, IngestMoves DEF IngestBecomes
<1>4. Types'  BY <1>0, <1>1, <1>2, <1>3 DEF Types
<1>5. faults' >= faults  BY <1>0, <1>1 DEF Types
<1>6. IngestFits'  BY <1>0, <1>1, <1>2, <1>3 DEF IngestFits
<1>7. IngestIsAlone'
  <2> SUFFICES ASSUME ~ repeated' PROVE IngestIsAlone'
    BY DEF IngestIsAlone
  <2>1. ~ repeated  BY <1>1
  <2>2. \A h \in Ingests : h # g => ingest'[h].pc = "idle"
    BY <1>2, <1>3, <1>0, <2>1 DEF IngestIsAlone, Ingesting
  <2>3. /\ status' # "chunked" /\ parents' = {<<g, ingest[g].text>>}
        /\ children' = {<<g, ingest[g].text>>}
    BY <1>0, <1>1, <1>2, <2>1 DEF IngestIsAlone
  <2>4. \A h, i \in Ingests : (Ingesting(h) /\ Ingesting(i))' => h = i
    BY <2>2 DEF Ingesting
  <2> QED  BY <1>3, <2>2, <2>3, <2>4 DEF IngestIsAlone
<1>8. ChunksAreFresh'
  <2> SUFFICES ASSUME ~ edited', ~ overtaken' PROVE ChunksAreFresh'
    BY DEF ChunksAreFresh
  <2>1. ~ edited /\ ~ overtaken  BY <1>1
  <2>2. Text(current)' = Text(current)  BY <1>0, <1>1 DEF Text
  <2>3. \A h \in Ingests : ingest'[h].pc \in {"clear", "parents", "children"} =>
          ingest'[h].text = Text(current)'
    BY <1>0, <1>3, <2>1, <2>2 DEF ChunksAreFresh
  <2>4. ingest[g].text = Text(current) /\ \A c \in children : c[2] = Text(current)
    BY <1>0, <1>1, <2>1 DEF ChunksAreFresh
  <2>5. \A c \in children' : c[2] = Text(current)'  BY <1>1, <2>2, <2>4
  <2> QED  BY <2>3, <2>5 DEF ChunksAreFresh, ChunksAreCurrent
<1>9. WriterFits' /\ ObjectsExist' /\ NumbersFit' /\ CreationIsFirst' /\ WriterIsAlone'
      /\ ArchiveIsLast'
  BY <1>1, <1>2, <1>4, <1>5, WritersIgnore
<1>10. ErrorNeedsCause'  BY <1>0, <1>1 DEF ErrorNeedsCause
<1> QED  BY <1>4, <1>6, <1>7, <1>8, <1>9, <1>10 DEF IInv

\* An ingestion marks the document chunked.
LEMMA MarkChunkedStep ==
  ASSUME IInv, NEW g \in Ingests, MarkChunked(g)
  PROVE  IInv'
<1>0. Types /\ IngestFits /\ IngestIsAlone /\ ChunksAreFresh /\ ErrorNeedsCause
  BY DEF IInv
<1>1. /\ UNCHANGED <<source, current, archived, versions, objects, parents, children,
                     node, writer, archive, faults, calls, want, edited, repeated, overtaken,
                     early, hasty>>
      /\ UNCHANGED chunks /\ ingest[g].pc = "mark" /\ status' = "chunked"
      /\ IngestEnds(g, "idle")
  BY DEF MarkChunked, data, chunks, bounds, history
<1>2. Ingesting(g) /\ status # "none" /\ current # 0
  BY <1>0, <1>1, IngestedIsThere DEF Ingesting, IngestFits
<1>3. /\ ingest' \in [Ingests -> IngestRecords]
      /\ \A h \in Ingests : h # g => ingest'[h] = ingest[h]
      /\ ingest'[g].pc = "idle"
  <2>1. "idle" \in IngestPCs  BY DEF IngestPCs
  <2> QED  BY <1>0, <1>1, <2>1, IngestMoves DEF IngestBecomes
<1>4. Types'  BY <1>0, <1>1, <1>3 DEF Types
<1>5. faults' >= faults  BY <1>0, <1>1 DEF Types
<1>6. IngestFits'  BY <1>0, <1>1, <1>2, <1>3 DEF IngestFits
<1>7. IngestIsAlone'
  <2> SUFFICES ASSUME ~ repeated' PROVE IngestIsAlone'
    BY DEF IngestIsAlone
  <2>1. ~ repeated  BY <1>1
  <2>2. \A h \in Ingests : ingest'[h].pc = "idle"
    BY <1>2, <1>3, <1>0, <2>1 DEF IngestIsAlone, Ingesting
  <2>3. parents' = children' /\ \E x : children' = {x}
    BY <1>0, <1>1, <2>1 DEF IngestIsAlone
  <2>4. \A h \in Ingests : ~ Ingesting(h)'  BY <2>2 DEF Ingesting
  <2> QED  BY <2>2, <2>3, <2>4 DEF IngestIsAlone
<1>8. ChunksAreFresh'
  <2> SUFFICES ASSUME ~ edited', ~ overtaken' PROVE ChunksAreFresh'
    BY DEF ChunksAreFresh
  <2>1. ~ edited /\ ~ overtaken  BY <1>1
  <2>2. Text(current)' = Text(current)  BY <1>0, <1>1 DEF Text
  <2>3. \A h \in Ingests : ingest'[h].pc \in {"clear", "parents", "children"} =>
          ingest'[h].text = Text(current)'
    BY <1>0, <1>3, <2>1, <2>2 DEF ChunksAreFresh
  <2>4. \A c \in children' : c[2] = Text(current)'
    BY <1>0, <1>1, <2>1, <2>2 DEF ChunksAreFresh
  <2> QED  BY <2>3, <2>4 DEF ChunksAreFresh, ChunksAreCurrent
<1>9. WriterFits' /\ ObjectsExist' /\ NumbersFit' /\ CreationIsFirst' /\ WriterIsAlone'
      /\ ArchiveIsLast'
  BY <1>1, <1>2, <1>4, <1>5, WritersIgnore
<1>10. ErrorNeedsCause'  BY <1>1 DEF ErrorNeedsCause
<1> QED  BY <1>4, <1>6, <1>7, <1>8, <1>9, <1>10 DEF IInv

\* An ingestion that failed marks the document so.
LEMMA MarkErrorStep ==
  ASSUME IInv, NEW g \in Ingests, MarkError(g)
  PROVE  IInv'
<1>0. Types /\ IngestFits /\ IngestIsAlone /\ ChunksAreFresh /\ ErrorNeedsCause
  BY DEF IInv
<1>1. /\ UNCHANGED <<source, current, archived, versions, objects, parents, children,
                     node, writer, archive, faults, calls, want, edited, repeated, overtaken,
                     early, hasty>>
      /\ UNCHANGED chunks /\ ingest[g].pc = "error" /\ status' = "error"
      /\ IngestEnds(g, "idle")
  BY DEF MarkError, data, chunks, bounds, history
<1>2. Ingesting(g) /\ status # "none"
  BY <1>0, <1>1, IngestedIsThere DEF Ingesting
<1>3. /\ ingest' \in [Ingests -> IngestRecords]
      /\ \A h \in Ingests : h # g => ingest'[h] = ingest[h]
      /\ ingest'[g].pc = "idle"
  <2>1. "idle" \in IngestPCs  BY DEF IngestPCs
  <2> QED  BY <1>0, <1>1, <2>1, IngestMoves DEF IngestBecomes
<1>4. Types'  BY <1>0, <1>1, <1>3 DEF Types
<1>5. faults' >= faults  BY <1>0, <1>1 DEF Types
<1>6. IngestFits'  BY <1>0, <1>1, <1>3 DEF IngestFits
<1>7. IngestIsAlone'
  <2>1. ~ Ingesting(g)' /\ \A h \in Ingests : Ingesting(h)' => Ingesting(h)
    BY <1>3 DEF Ingesting
  <2> QED  BY <1>0, <1>1, <1>3, <2>1 DEF IngestIsAlone
<1>8. ChunksAreFresh'  BY <1>0, <1>1, <1>3, FreshGoesOn
<1>9. WriterFits' /\ ObjectsExist' /\ NumbersFit' /\ CreationIsFirst' /\ WriterIsAlone'
      /\ ArchiveIsLast'
  BY <1>1, <1>2, <1>4, <1>5, WritersIgnore
<1>10. ErrorNeedsCause'  BY <1>0, <1>1 DEF ErrorNeedsCause, IngestFits
<1> QED  BY <1>4, <1>6, <1>7, <1>8, <1>9, <1>10 DEF IInv

\* A command of an ingestion fails.
LEMMA IngestFailsStep ==
  ASSUME IInv, NEW g \in Ingests, IngestFails(g)
  PROVE  IInv'
<1>0. Types /\ IngestFits /\ IngestIsAlone /\ ChunksAreFresh /\ ErrorNeedsCause
  BY DEF IInv
<1>1. /\ UNCHANGED <<source, status, current, archived, versions, objects,
                     node, writer, archive, calls, want, edited, repeated, overtaken,
                     early, hasty>>
      /\ Ingesting(g) /\ faults < MaxFaults /\ faults' = faults + 1
  BY DEF IngestFails, doc, data, history
<1>2. /\ \/ /\ ingest[g].pc \notin {"mark", "error"} /\ IngestEnds(g, "error")
            /\ parents' = parents /\ children' = children
         \/ /\ ingest[g].pc = "clear" /\ IngestEnds(g, "error")
            /\ parents' = {} /\ children' = {}
         \/ IngestEnds(g, "idle") /\ parents' = parents /\ children' = children
  BY DEF IngestFails, chunks
<1>3. /\ ingest' \in [Ingests -> IngestRecords]
      /\ \A h \in Ingests : h # g => ingest'[h] = ingest[h]
      /\ ingest'[g].pc \in {"error", "idle"}
      /\ \/ parents' = parents /\ children' = children
         \/ parents' = {} /\ children' = {} /\ ingest[g].pc = "clear"
  <2>1. "idle" \in IngestPCs /\ "error" \in IngestPCs  BY DEF IngestPCs
  <2> QED  BY <1>0, <1>2, <2>1, IngestMoves DEF IngestBecomes
<1>4. /\ status # "none"
      /\ faults' \in 0 .. MaxFaults /\ faults' >= faults /\ faults' > 0
  BY <1>0, <1>1, IngestedIsThere, DocumentAssumption DEF Types
<1>5. Types'  BY <1>0, <1>1, <1>3, <1>4 DEF Types
<1>6. IngestFits'  BY <1>0, <1>1, <1>3, <1>4 DEF IngestFits
<1>7. IngestIsAlone'
  <2> SUFFICES ASSUME ~ repeated' PROVE IngestIsAlone'
    BY DEF IngestIsAlone
  <2>1. ~ repeated /\ status' # "chunked"  BY <1>0, <1>1 DEF IngestIsAlone
  <2>2. \A h \in Ingests : h # g => ingest'[h].pc = "idle"
    BY <1>1, <1>3, <1>0, <2>1 DEF IngestIsAlone, Ingesting
  <2>3. \A h, i \in Ingests : (Ingesting(h) /\ Ingesting(i))' => h = i
    BY <2>2 DEF Ingesting
  <2> QED  BY <1>3, <2>1, <2>2, <2>3 DEF IngestIsAlone
<1>8. ChunksAreFresh'
  <2>1. CASE children' = children
    BY <1>0, <1>1, <1>3, <2>1, FreshGoesOn
  <2>2. CASE children' = {}
    <3> SUFFICES ASSUME ~ edited', ~ overtaken' PROVE ChunksAreFresh'
      BY DEF ChunksAreFresh
    <3>1. Text(current)' = Text(current)  BY <1>0, <1>1 DEF Text
    <3>2. \A h \in Ingests : ingest'[h].pc \in {"clear", "parents", "children"} =>
            ingest'[h].text = Text(current)'
      BY <1>0, <1>1, <1>3, <3>1 DEF ChunksAreFresh
    <3> QED  BY <2>2, <3>2 DEF ChunksAreFresh, ChunksAreCurrent
  <2> QED  BY <1>3, <2>1, <2>2
<1>9. WriterFits' /\ ObjectsExist' /\ NumbersFit' /\ CreationIsFirst' /\ WriterIsAlone'
      /\ ArchiveIsLast'
  BY <1>1, <1>4, <1>5, WritersIgnore
<1>10. ErrorNeedsCause'  BY <1>4 DEF ErrorNeedsCause
<1> QED  BY <1>5, <1>6, <1>7, <1>8, <1>9, <1>10 DEF IInv
-----------------------------------------------------------------------------
(* The theorems. *)

\* Nothing changes the invariant but a step.
LEMMA StutterKeeps ==
  ASSUME IInv, UNCHANGED vars
  PROVE  IInv'
<1>1. UNCHANGED <<source, status, current, archived, versions, objects, parents, children,
                  node, writer, ingest, archive, faults, calls, want, edited, repeated,
                  overtaken, early, hasty>>
  BY DEF vars, doc, data, chunks, bounds, history
<1>2. \A w : Writing(w)' = Writing(w)  BY <1>1 DEF Writing
<1>3. \A g : Ingesting(g)' = Ingesting(g)  BY <1>1 DEF Ingesting
<1>4. Rows' = Rows /\ \A i : Text(i)' = Text(i)  BY <1>1 DEF Rows, Text
<1>5. \A w : Intended(w)' = Intended(w)  BY <1>1, <1>4 DEF Intended
<1>6. Types'  BY <1>1 DEF IInv, Types
<1>7. WriterFits' /\ ObjectsExist'  BY <1>1, <1>4 DEF IInv, WriterFits, ObjectsExist
<1>8. NumbersFit'  BY <1>1, NumbersStay DEF IInv
<1>9. CreationIsFirst'  BY <1>1, <1>2, <1>3 DEF IInv, CreationIsFirst
<1>10. EditsAreKept' <=> EditsAreKept  BY <1>1, <1>4 DEF EditsAreKept
<1>11. VersionsAreKept' <=> VersionsAreKept  BY <1>1, <1>4 DEF VersionsAreKept
<1>12. WriterIsAlone'
  BY <1>1, <1>2, <1>4, <1>5, <1>10, <1>11 DEF IInv, WriterIsAlone
<1>13. ArchiveIsLast'  BY <1>1, <1>2 DEF IInv, ArchiveIsLast
<1>14. IngestFits' /\ IngestIsAlone'  BY <1>1, <1>3 DEF IInv, IngestFits, IngestIsAlone
<1>15. ChunksAreCurrent' <=> ChunksAreCurrent  BY <1>1, <1>4 DEF ChunksAreCurrent
<1>16. ChunksAreFresh'  BY <1>1, <1>4, <1>15 DEF IInv, ChunksAreFresh
<1>17. ErrorNeedsCause'  BY <1>1 DEF IInv, ErrorNeedsCause
<1> QED
  BY <1>6, <1>7, <1>8, <1>9, <1>12, <1>13, <1>14, <1>16, <1>17 DEF IInv

\* The invariant is inductive: the document, the writers of DocumentService and the runs of
\* Ingest fit together at every point of their calls.
THEOREM Invariance == Spec => []IInv
<1>1. Init => IInv  BY InitIsSound
<1>2. IInv /\ [Next]_vars => IInv'
  <2> SUFFICES ASSUME IInv, [Next]_vars PROVE IInv'
    OBVIOUS
  <2>1. ASSUME NEW w \in Writers, WriterStep(w) PROVE IInv'
    BY <2>1, CreateStep, EditStep, ReadCurrentStep, NumberVersionStep, PutObjectStep,
       InsertVersionStep, SetCurrentStep, SetDirtyStep, InsertNodeStep, WriterFailsStep
       DEF WriterStep
  <2>2. ASSUME NEW w \in Writers, NEW g \in Ingests, IngestOnWrite(w, g) PROVE IInv'
    BY <2>2, IngestOnWriteStep
  <2>3. CASE ArchiveRow  BY <2>3, ArchiveRowStep
  <2>4. CASE DeleteNodes  BY <2>4, DeleteNodesStep
  <2>5. ASSUME NEW g \in Ingests, Request(g) \/ Sweep(g) PROVE IInv'
    BY <2>5, StartStep
  <2>6. ASSUME NEW g \in Ingests, IngestStep(g) PROVE IInv'
    BY <2>6, FetchStep, ClearChunksStep, InsertParentsStep, InsertChildrenStep,
       MarkChunkedStep, MarkErrorStep, IngestFailsStep
       DEF IngestStep
  <2>7. CASE UNCHANGED vars  BY <2>7, StutterKeeps
  <2> QED  BY <2>1, <2>2, <2>3, <2>4, <2>5, <2>6, <2>7 DEF Next
<1> QED  BY <1>1, <1>2, PTL DEF Spec

\* Every variable keeps its type: a version's number stays within the table's, and an
\* ingestion's text is one that was written.
THEOREM TypeCorrect == Spec => []TypeOK
<1>1. IInv => TypeOK
  <2> SUFFICES ASSUME IInv PROVE TypeOK
    OBVIOUS
  <2>1. Types  BY DEF IInv
  <2>2. \A i \in 1 .. Len(versions) :
          versions[i].num \in Numbers /\ versions[i].hash \in Texts \cup {None}
    BY <2>1, RowFacts DEF Rows
  <2>3. \A w \in Writers : writer[w].num \in 0 .. MaxEdits + 1  BY <2>1, WriterTypes
  <2>4. \A g \in Ingests : ingest[g].text \in Texts \cup {None}  BY <2>1, IngestTypes
  <2> QED  BY <2>1, <2>2, <2>3, <2>4 DEF Types, TypeOK
<1> QED  BY <1>1, Invariance, PTL

\* Whatever fails, and races apart, a document keeps what was written to it, two versions
\* share neither number nor object, and an archived document leaves nothing in the tree.
THEOREM WritesAreSafe == Spec => []WritesAreKept
<1>1. IInv => WritesAreKept
  <2> SUFFICES ASSUME IInv PROVE WritesAreKept
    OBVIOUS
  <2>1. EditsAreKept  BY DEF IInv, WriterIsAlone, EditsAreKept
  <2>2. VersionsAreKept  BY DEF IInv, WriterIsAlone, VersionsAreKept
  <2>3. ArchivedHasNoNode  BY DEF IInv, ArchiveIsLast, ArchivedHasNoNode
  <2> QED  BY <2>1, <2>2, <2>3 DEF WritesAreKept
<1> QED  BY <1>1, Invariance, PTL

\* What is retrieved is one ingestion's chunks of the current text, the sweep's and the
\* requested ingestions' interleavings with the writers included, and a document ends in
\* error for a cause only.
THEOREM ChunksAreSound == Spec => []ChunksFollowText
<1>1. IInv => ChunksFollowText
  <2> SUFFICES ASSUME IInv PROVE ChunksFollowText
    OBVIOUS
  <2>1. ChunksAreWhole
    <3> SUFFICES ASSUME status = "chunked", ~ repeated
                 PROVE  Cardinality(children) = 1 /\ parents = children
      BY DEF ChunksAreWhole
    <3>1. parents = children /\ \E x : children = {x}  BY DEF IInv, IngestIsAlone
    <3> QED  BY <3>1, FS_Singleton
  <2>2. ChunksAreCurrent  BY DEF IInv, ChunksAreFresh, ChunksAreCurrent
  <2> QED  BY <2>1, <2>2 DEF ChunksFollowText, IInv
<1> QED  BY <1>1, Invariance, PTL
=============================================================================
