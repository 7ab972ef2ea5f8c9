---------------------------- MODULE KnowledgeTree ----------------------------
(***************************************************************************)
(* The knowledge tree of one user and the panel that shows it.  The server  *)
(* (TreeService, DocumentService) checks a change with separate statements  *)
(* and applies it with another; the table has no foreign key, no unique     *)
(* index and no transaction around them.  The panel (KnowledgePanel,        *)
(* PathTree) works on the lists it last received, starts changes without    *)
(* waiting for earlier ones, and asks for new lists after each.             *)
(*                                                                         *)
(* A document's node has the empty name, so only folders' names can clash.  *)
(***************************************************************************)
EXTENDS Naturals, Sequences, FiniteSets, FiniteSetsExt, SequencesExt

CONSTANTS
  Folders,         \* ids of folder nodes
  Docs,            \* ids of documents, each with at most one node
  Calls,           \* operations of the panel that may be under way together
  Names,           \* names of folders
  Root,            \* parent_id NULL
  None,            \* no row, nothing
  MaxFolderDepth,  \* document.MaxFolderDepth, MAX_FOLDER_DEPTH
  PageSize,        \* rows ListByUser answers when asked for more than 100: 20
  MaxOps           \* bound: operations started

ASSUME TreeAssumption ==
  /\ MaxFolderDepth \in Nat \ {0} /\ PageSize \in Nat \ {0} /\ MaxOps \in Nat
  /\ Docs \subseteq Nat /\ IsFiniteSet(Folders) /\ IsFiniteSet(Docs)
  /\ Folders \cap Docs = {}
  /\ Root \notin Folders \cup Docs /\ None \notin Folders \cup Docs \cup {Root} \cup Names

Nodes   == Folders \cup Docs
Parents == [Nodes -> Folders \cup {Root, None}]
Changes == {"folder", "rename", "move", "delete", "upload", "drop", "archive"}

VARIABLES
  parent,      \* knowledge_tree.parent_id of each node, None: no row
  name,        \* name of each folder, None: no row
  live,        \* documents that are not archived
  taken,       \* ids the sequences of the two tables have given out
  call,        \* locals of each operation: browser and server side
  nodes,       \* the panel's treeNodes
  items,       \* the panel's documents
  dialog,      \* the open confirmation: its kind, its target, the documents it counted
  answers,     \* lists the server has read and the panel has not received, oldest first
  ops,         \* counter of MaxOps
  \* History: kinds of two changes under way together; an answer arrived before
  \* an older one; a deletion failed half way; a dialog was opened while an
  \* operation was under way; a deletion archived a document its dialog had not
  \* counted.
  races, crossed, halfway, hasty, untold

server  == <<parent, name, live, taken>>
shown   == <<nodes, items>>
panel   == <<shown, dialog>>
history == <<races, crossed, halfway, hasty, untold>>
vars    == <<server, call, panel, answers, ops, history>>

NoDialog == [kind |-> "none", node |-> None, told |-> {}]
NewCall  == [pc |-> "idle", op |-> "none", node |-> None, to |-> None, name |-> None,
             from |-> None, list |-> <<>>, docs |-> {}, told |-> {}, todo |-> <<>>]

Idle(c)    == call[c].pc = "idle"
Serving(c) == ~ Idle(c) /\ call[c].pc # "reload"
Quiet      == \A c \in Calls : Idle(c)
SetCall(c, r) == call' = [call EXCEPT ![c] = r]
CallTo(c, pc) == SetCall(c, [call[c] EXCEPT !.pc = pc])
-----------------------------------------------------------------------------
(* What the statements of tree_repo.go compute from the parents p. *)

\* F applied k times to S.
Times(F, S, k) ==
  LET it[i \in 0 .. k] == IF i = 0 THEN S ELSE F[it[i - 1]] IN it[k]

\* The node and what it hangs from, as far up as parents are known.
Up(p)       == [S \in SUBSET Nodes |-> S \cup {p[m] : m \in {x \in S : p[x] \in Folders}}]
Chain(p, n) == Times(Up(p), {n} \ {Root}, Cardinality(Nodes))

\* The node and its ancestors, as far up as there are rows.
Ancestors(p, n) == {m \in Chain(p, n) : p[m] # None}
Subtree(p, n)  == {m \in Nodes : n \in Ancestors(p, m)}
OnCycle(p, n)  == p[n] \in Folders /\ n \in Ancestors(p, p[n])
AboveCycle(p, n) == \E m \in Ancestors(p, n) : OnCycle(p, m)
Depth(p, n)    == Cardinality(Ancestors(p, n))
SubtreeMaxDepth(p, n) ==
  Max({0} \cup {Cardinality(Ancestors(p, m) \cap Subtree(p, n)) - 1 :
                m \in Subtree(p, n) \cap Folders})
Children(p, n) == {m \in Nodes : p[m] = n}
NameTaken(f, to, nm) == \E s \in Children(parent, to) \cap Folders : s # f /\ name[s] = nm

\* Defect: the folder itself is not counted.
TooDeepOffByOne(f, to) == Depth(parent, to) + SubtreeMaxDepth(parent, f) > MaxFolderDepth

\* The limit as MoveNode checks it.
TooDeepUnder(f, to) == Depth(parent, to) + 1 + SubtreeMaxDepth(parent, f) > MaxFolderDepth

\* ListByUser: the documents of S with the greatest ids, a page of them; the
\* panel asks for 500, which is more than the 100 the repository allows.
Page(S) == {d \in S : Cardinality({e \in S : e > d}) < PageSize}

\* collectSubtree: everything below the folder, without the folder.
Below(p, f) == {m \in Nodes : p[m] # None /\ m # f /\ f \in Ancestors(p, m)}
-----------------------------------------------------------------------------
(* What the panel computes from the list t it holds. *)

\* buildTree: the rows at each level, from the home row down.
Down(t)      == [S \in SUBSET (Folders \cup {Root}) |-> {f \in Folders : t[f] \in S}]
Level(t, k)  == Times(Down(t), {Root}, k)
Levels       == 0 .. Cardinality(Folders)
RowsOf(t)    == UNION {Level(t, k) : k \in Levels}
RowDepth(t, r) == CHOOSE k \in Levels : r \in Level(t, k)

\* computeSubtreeMaxDepth: 0 without subfolders, else one more than the deepest.
RowSubtreeDepth(t, f) == Max({k \in Levels : Times(Down(t), {f}, k) # {}})

\* onDrop of TreeRow and of DocRow, whose depth is one more than its folder's.
DropFits(t, f, r)      == RowDepth(t, r) + 1 + RowSubtreeDepth(t, f) <= MaxFolderDepth
CanCreateFolderHere(t, r) == RowDepth(t, r) < MaxFolderDepth

\* attachDocs: documents with a node under a row and an entry in the other list.
DocRows(t, i) == {d \in i : t[d] \in RowsOf(t)}

\* Defect: only the documents directly inside are counted.
CountFlat(t, f) == {d \in Docs : t[d] = f}

\* countSubtreeImpact: the documents below the folder.
CountSubtree(t, f) == {d \in Docs : f \in Ancestors(t, d)}
-----------------------------------------------------------------------------
\* The forests a user can have built: rows in use hang from the root within
\* the depth, and folders side by side have different names.
IsForest(p, nm) ==
  /\ \A n \in Nodes : p[n] # None => p[n] \in RowsOf(p)
  /\ \A f \in RowsOf(p) : RowDepth(p, f) <= MaxFolderDepth
  /\ \A f \in Folders : nm[f] = None <=> p[f] = None
  /\ \A f, g \in Folders : f # g /\ p[f] = p[g] /\ p[f] # None => nm[f] # nm[g]

Init ==
  /\ parent \in Parents /\ name \in [Folders -> Names \cup {None}] /\ IsForest(parent, name)
  /\ live = {d \in Docs : parent[d] # None} /\ taken = {n \in Nodes : parent[n] # None}
  /\ call = [c \in Calls |-> NewCall]
  /\ nodes = parent /\ items = Page(live)
  /\ dialog = NoDialog /\ answers = <<>> /\ ops = 0
  /\ races = {} /\ crossed = FALSE /\ halfway = FALSE /\ hasty = FALSE /\ untold = FALSE
-----------------------------------------------------------------------------
(* The panel starts an operation.  A dialog is modal: nothing else can be    *)
(* started while it is open.                                                 *)

Begin(c, r) ==
  /\ ops' = ops + 1
  /\ SetCall(c, r)
  /\ races' = races \cup {{r.op, call[d].op} : d \in {x \in Calls : Serving(x)}}
  /\ UNCHANGED <<server, answers, crossed, halfway, hasty, untold>>

\* onStartCreateFolder and onDraftCommit.
StartFolder(c) ==
  /\ dialog = NoDialog
  /\ \E r \in RowsOf(nodes), nm \in Names :
       /\ CanCreateFolderHere(nodes, r)
       /\ Begin(c, [NewCall EXCEPT !.pc = "find", !.op = "folder", !.to = r, !.name = nm,
                                   !.todo = <<{"tree"}>>])
  /\ UNCHANGED panel

\* The rename dialog and onRenameFolder.
StartRename(c) ==
  /\ dialog = NoDialog
  /\ \E f \in RowsOf(nodes) \ {Root}, nm \in Names :
       Begin(c, [NewCall EXCEPT !.pc = "find", !.op = "rename", !.node = f, !.name = nm,
                                !.todo = <<{"tree"}>>])
  /\ UNCHANGED panel

\* Defect: the tree is not asked for again.
StartMoveKeepsTree(c) ==
  /\ dialog = NoDialog
  /\ \E f \in RowsOf(nodes) \ {Root}, r \in RowsOf(nodes) :
       /\ f # r /\ DropFits(nodes, f, r)
       /\ Begin(c, [NewCall EXCEPT !.pc = "find", !.op = "move", !.node = f, !.to = r,
                                   !.todo = <<{"docs"}>>])
  /\ UNCHANGED panel

\* A folder is dropped on a row; handleMoveFolder.
StartMove(c) ==
  /\ dialog = NoDialog
  /\ \E f \in RowsOf(nodes) \ {Root}, r \in RowsOf(nodes) :
       /\ f # r /\ DropFits(nodes, f, r)
       /\ Begin(c, [NewCall EXCEPT !.pc = "find", !.op = "move", !.node = f, !.to = r,
                                   !.todo = <<{"tree"}, {"docs"}>>])
  /\ UNCHANGED panel

\* A document is dropped on a row other than its own; handleDropDoc.
StartDrop(c) ==
  /\ dialog = NoDialog
  /\ \E d \in DocRows(nodes, items), r \in RowsOf(nodes) :
       /\ nodes[d] # r
       /\ Begin(c, [NewCall EXCEPT !.pc = "find", !.op = "drop", !.node = d, !.to = r,
                                   !.todo = <<{"tree"}, {"docs"}>>])
  /\ UNCHANGED panel

\* onUploadRequest and onUploadFile.
StartUpload(c) ==
  /\ dialog = NoDialog
  /\ \E r \in RowsOf(nodes) :
       Begin(c, [NewCall EXCEPT !.pc = "find", !.op = "upload", !.to = r,
                                !.todo = <<{"docs"}, {"tree"}>>])
  /\ UNCHANGED panel

\* The refresh button asks for both lists at once.
StartRefresh(c) ==
  /\ dialog = NoDialog
  /\ Begin(c, [NewCall EXCEPT !.pc = "reload", !.op = "refresh",
                              !.todo = <<{"tree", "docs"}>>])
  /\ UNCHANGED panel
-----------------------------------------------------------------------------
(* Confirmations. *)

\* onDeleteFolder counts what will go; onDeletePreview, the document previewed.
OpenDialog ==
  /\ dialog = NoDialog /\ ops < MaxOps
  /\ \/ \E f \in RowsOf(nodes) \ {Root} :
          dialog' = [kind |-> "delete", node |-> f, told |-> CountSubtree(nodes, f)]
     \/ \E d \in DocRows(nodes, items) :
          dialog' = [kind |-> "archive", node |-> d, told |-> {d}]
  /\ hasty' = (hasty \/ ~ Quiet)
  /\ UNCHANGED <<server, call, shown, answers, ops, races, crossed, halfway, untold>>

\* Cancel or Escape; Escape works while the operation runs.
CloseDialog ==
  /\ dialog # NoDialog /\ dialog' = NoDialog
  /\ UNCHANGED <<server, call, shown, answers, ops, history>>

\* handleConfirm: one confirmation of a kind at a time.
Confirm(c) ==
  /\ dialog # NoDialog
  /\ \A d \in Calls : call[d].op # dialog.kind
  /\ Begin(c, [NewCall EXCEPT !.pc = "find", !.op = dialog.kind, !.node = dialog.node,
                 !.told = dialog.told,
                 !.todo = IF dialog.kind = "delete" THEN <<{"tree"}>>
                          ELSE <<{"docs"}, {"tree"}>>])
  /\ UNCHANGED panel
-----------------------------------------------------------------------------
(* The server. *)

\* The request is answered with an error: the panel shows it and reloads nothing.
Refuse(c) ==
  /\ SetCall(c, NewCall)
  /\ UNCHANGED <<server, panel, answers, ops, history>>

Proceed(c, pc) ==
  /\ CallTo(c, pc)
  /\ UNCHANGED <<server, panel, answers, ops, history>>

\* The request succeeds: what the panel does before it asks for new lists.
Succeed(c) ==
  /\ SetCall(c, [NewCall EXCEPT !.pc = "reload", !.todo = call[c].todo,
                   !.op = IF call[c].op \in {"delete", "archive"} THEN call[c].op ELSE "none"])
  /\ dialog' = IF call[c].op \in {"delete", "archive"} THEN NoDialog ELSE dialog
  /\ UNCHANGED <<shown, answers, ops>>

At(c, op, pc) == call[c].op = op /\ call[c].pc = pc
Exists(n)     == n = Root \/ parent[n] # None

\* CreateFolder: the parent and its depth, then its children, then the insert.
FolderFind(c) ==
  /\ At(c, "folder", "find")
  /\ IF call[c].to = Root THEN Proceed(c, "names")
     ELSE IF ~ Exists(call[c].to) THEN Refuse(c) ELSE Proceed(c, "depth")

FolderDepth(c) ==
  /\ At(c, "folder", "depth") /\ ~ AboveCycle(parent, call[c].to)
  /\ IF Depth(parent, call[c].to) + 1 > MaxFolderDepth THEN Refuse(c) ELSE Proceed(c, "names")

FolderNames(c) ==
  /\ At(c, "folder", "names")
  /\ IF NameTaken(None, call[c].to, call[c].name) THEN Refuse(c) ELSE Proceed(c, "write")

FolderInsert(c) ==
  /\ At(c, "folder", "write")
  /\ \E f \in Folders \ taken :
       /\ parent' = [parent EXCEPT ![f] = call[c].to]
       /\ name' = [name EXCEPT ![f] = call[c].name]
       /\ taken' = taken \cup {f}
  /\ Succeed(c) /\ UNCHANGED <<live, history>>

\* RenameNode: the node, its siblings, the update.
RenameFind(c) ==
  /\ At(c, "rename", "find")
  /\ IF ~ Exists(call[c].node) THEN Refuse(c)
     ELSE /\ SetCall(c, [call[c] EXCEPT !.pc = "names", !.to = parent[call[c].node]])
          /\ UNCHANGED <<server, panel, answers, ops, history>>

RenameNames(c) ==
  /\ At(c, "rename", "names")
  /\ IF NameTaken(call[c].node, call[c].to, call[c].name) THEN Refuse(c)
     ELSE Proceed(c, "write")

RenameUpdate(c) ==
  /\ At(c, "rename", "write")
  /\ IF ~ Exists(call[c].node) THEN Refuse(c)
     ELSE /\ name' = [name EXCEPT ![call[c].node] = call[c].name]
          /\ Succeed(c) /\ UNCHANGED <<parent, live, taken, history>>

\* MoveNode: the node (whose name is kept) and the new parent; the cycle; the
\* depths, two statements in one action; the siblings; the update.
MoveFind(c) ==
  /\ At(c, "move", "find")
  /\ IF ~ Exists(call[c].node) \/ ~ Exists(call[c].to) THEN Refuse(c)
     ELSE /\ SetCall(c, [call[c] EXCEPT
               !.name = name[call[c].node],
               !.from = parent[call[c].node],
               !.pc = IF call[c].to # Root THEN "cycle"
                      ELSE IF parent[call[c].node] = Root THEN "same" ELSE "names"])
          /\ UNCHANGED <<server, panel, answers, ops, history>>

MoveCycle(c) ==
  /\ At(c, "move", "cycle") /\ ~ OnCycle(parent, call[c].node)
  /\ IF call[c].node \in Ancestors(parent, call[c].to) THEN Refuse(c)
     ELSE Proceed(c, "depth")

MoveDepth(c) ==
  /\ At(c, "move", "depth")
  /\ ~ AboveCycle(parent, call[c].to) /\ ~ OnCycle(parent, call[c].node)
  /\ IF TooDeepUnder(call[c].node, call[c].to) THEN Refuse(c)
     ELSE Proceed(c, IF call[c].from = call[c].to THEN "same" ELSE "names")

MoveSame(c) ==
  /\ At(c, "move", "same")
  /\ Succeed(c) /\ UNCHANGED <<server, history>>

\* Defect: the folder's old siblings are compared.
MoveNamesOfOldParent(c) ==
  /\ At(c, "move", "names")
  /\ IF NameTaken(call[c].node, call[c].from, call[c].name) THEN Refuse(c)
     ELSE Proceed(c, "write")

MoveNames(c) ==
  /\ At(c, "move", "names")
  /\ IF NameTaken(call[c].node, call[c].to, call[c].name) THEN Refuse(c)
     ELSE Proceed(c, "write")

MoveUpdate(c) ==
  /\ At(c, "move", "write")
  /\ IF ~ Exists(call[c].node) THEN Refuse(c)
     ELSE /\ parent' = [parent EXCEPT ![call[c].node] = call[c].to]
          /\ Succeed(c) /\ UNCHANGED <<name, live, taken, history>>

\* DocumentService.Move: the node and the new parent, then the update.
DropFind(c) ==
  /\ At(c, "drop", "find")
  /\ IF call[c].node \notin live \/ ~ Exists(call[c].node) \/ ~ Exists(call[c].to)
     THEN Refuse(c)
     ELSE Proceed(c, IF parent[call[c].node] = call[c].to THEN "same" ELSE "write")

DropUpdate(c) ==
  /\ call[c].op = "drop" /\ call[c].pc \in {"same", "write"}
  /\ IF call[c].pc = "same" THEN Succeed(c) /\ UNCHANGED <<server, history>>
     ELSE IF ~ Exists(call[c].node) THEN Refuse(c)
     ELSE /\ parent' = [parent EXCEPT ![call[c].node] = call[c].to]
          /\ Succeed(c) /\ UNCHANGED <<name, live, taken, history>>

\* createInternal: the parent, the document, at the end its node.
UploadFind(c) ==
  /\ At(c, "upload", "find")
  /\ IF ~ Exists(call[c].to) THEN Refuse(c)
     ELSE \E d \in Docs \ taken :
            /\ \A e \in Docs \cap taken : e < d
            /\ live' = live \cup {d} /\ taken' = taken \cup {d}
            /\ SetCall(c, [call[c] EXCEPT !.pc = "write", !.node = d])
            /\ UNCHANGED <<parent, name, panel, answers, ops, history>>

UploadInsert(c) ==
  /\ At(c, "upload", "write")
  /\ parent' = [parent EXCEPT ![call[c].node] = call[c].to]
  /\ Succeed(c) /\ UNCHANGED <<name, live, taken, history>>

\* Archive: the document, then its nodes.
ArchiveDoc(c) ==
  /\ At(c, "archive", "find")
  /\ IF call[c].node \notin live THEN Refuse(c)
     ELSE /\ live' = live \ {call[c].node} /\ CallTo(c, "write")
          /\ UNCHANGED <<parent, name, taken, panel, answers, ops, history>>

ArchiveNodes(c) ==
  /\ At(c, "archive", "write")
  /\ parent' = [parent EXCEPT ![call[c].node] = None]
  /\ Succeed(c) /\ UNCHANGED <<name, live, taken, history>>
-----------------------------------------------------------------------------
(* DeleteFolder: list holds the nodes to delete, parents before children, and *)
(* docs the documents to archive first, in the order of some such list.      *)

\* An empty folder is success; on a cycle collectSubtree would not return.
DeleteList(c) ==
  /\ At(c, "delete", "find")
  /\ IF ~ Exists(call[c].node) THEN Refuse(c)
     ELSE /\ ~ OnCycle(parent, call[c].node)
          /\ IF Below(parent, call[c].node) = {} THEN Succeed(c) /\ UNCHANGED <<server, history>>
             ELSE \E s \in SetToSeqs(Below(parent, call[c].node)) :
               /\ \A i, j \in DOMAIN s : i < j => s[j] \notin Ancestors(parent, s[i])
               /\ SetCall(c, [call[c] EXCEPT !.pc = "docs", !.list = s,
                                !.docs = Below(parent, call[c].node) \cap Docs])
               /\ UNCHANGED <<server, panel, answers, ops, history>>

DeleteFails(c) ==
  /\ SetCall(c, NewCall) /\ halfway' = TRUE
  /\ UNCHANGED <<server, panel, answers, ops, races, crossed, hasty, untold>>

\* Archive of the next document and of its node.
DeleteDocs(c) ==
  /\ At(c, "delete", "docs")
  /\ \/ call[c].docs = {} /\ Proceed(c, "nodes")
     \/ \E d \in call[c].docs :
          IF d \notin live THEN DeleteFails(c)
          ELSE /\ live' = live \ {d} /\ parent' = [parent EXCEPT ![d] = None]
               /\ untold' = (untold \/ d \notin call[c].told)
               /\ SetCall(c, [call[c] EXCEPT !.docs = @ \ {d}])
               /\ UNCHANGED <<name, taken, panel, answers, ops, races, crossed, halfway, hasty>>

\* The last node of the list; one whose row is gone, as an archived document's
\* is, is an error.
DeleteNodes(c) ==
  /\ At(c, "delete", "nodes")
  /\ LET n == Last(call[c].list) IN
     IF call[c].list = <<>> THEN Succeed(c) /\ UNCHANGED <<server, history>>
     ELSE IF ~ Exists(n) THEN DeleteFails(c)
     ELSE /\ parent' = [parent EXCEPT ![n] = None]
          /\ name' = [f \in Folders |-> IF f = n THEN None ELSE name[f]]
          /\ SetCall(c, [call[c] EXCEPT !.list = Front(@)])
          /\ UNCHANGED <<live, taken, panel, answers, ops, history>>
-----------------------------------------------------------------------------
(* New lists.  todo is the sequence of the reloads still to be awaited; the    *)
(* lists of one element are asked for together.                              *)

\* Defect: the operation is over with its first list.
AwaitedOnce(c, l) == SetCall(c, NewCall)

\* The list has come; after the last one the operation is over.
Awaited(c, l) ==
  SetCall(c, IF call[c].todo = <<{l}>> THEN NewCall
             ELSE [call[c] EXCEPT !.todo = IF Head(@) = {l} THEN Tail(@)
                                           ELSE <<Head(@) \ {l}>> \o Tail(@)])
Asked(c) == {a.list : a \in {x \in Range(answers) : x.call = c}}

\* The server reads a list.
ReadList(c) ==
  /\ call[c].pc = "reload" /\ call[c].todo # <<>>
  /\ \E l \in Head(call[c].todo) \ Asked(c) :
       answers' = Append(answers, [call |-> c, list |-> l, nodes |-> parent,
                                   items |-> Page(live)])
  /\ UNCHANGED <<server, call, panel, ops, history>>

\* setTreeNodes, setItems: whichever list arrives is shown.
Receive(c) ==
  /\ \E i \in DOMAIN answers :
       /\ answers[i].call = c
       /\ answers' = RemoveAt(answers, i)
       /\ nodes' = IF answers[i].list = "tree" THEN answers[i].nodes ELSE nodes
       /\ items' = IF answers[i].list = "docs" THEN answers[i].items ELSE items
       /\ Awaited(c, answers[i].list)
       /\ crossed' = (crossed \/ \E j \in 1 .. i - 1 : answers[j].list = answers[i].list)
  /\ UNCHANGED <<server, dialog, ops, races, halfway, hasty, untold>>
-----------------------------------------------------------------------------
Start(c) ==
  /\ Idle(c) /\ ops < MaxOps
  /\ \/ StartFolder(c) \/ StartRename(c) \/ StartMove(c) \/ StartDrop(c)
     \/ StartUpload(c) \/ StartRefresh(c) \/ Confirm(c)

Serve(c) ==
  \/ FolderFind(c) \/ FolderDepth(c) \/ FolderNames(c) \/ FolderInsert(c)
  \/ RenameFind(c) \/ RenameNames(c) \/ RenameUpdate(c)
  \/ MoveFind(c) \/ MoveCycle(c) \/ MoveDepth(c) \/ MoveSame(c) \/ MoveNames(c)
  \/ MoveUpdate(c) \/ DropFind(c) \/ DropUpdate(c)
  \/ UploadFind(c) \/ UploadInsert(c) \/ ArchiveDoc(c) \/ ArchiveNodes(c)
  \/ DeleteList(c) \/ DeleteDocs(c) \/ DeleteNodes(c)
  \/ ReadList(c) \/ Receive(c)

Next ==
  \/ \E c \in Calls : Start(c) \/ Serve(c)
  \/ OpenDialog \/ CloseDialog

Spec == Init /\ [][Next]_vars
-----------------------------------------------------------------------------
\* Every variable keeps its type; exactly the folders with a row have a name, and
\* every list on its way is one its operation waits for.
TypeOK ==
  /\ parent \in Parents /\ name \in [Folders -> Names \cup {None}] /\ live \subseteq Docs
  /\ \A f \in Folders : name[f] = None <=> parent[f] = None
  /\ nodes \in Parents /\ items \subseteq Docs
  /\ \A c \in Calls : Serving(c) => call[c].op # "none"
  /\ \A a \in Range(answers) : \E w \in Range(call[a.call].todo) : a.list \in w

\* The tree is damaged only by two changes under way together, and each kind of
\* damage only by the changes that check what it breaks: a cycle takes two folder
\* moves; a folder below the limit a move beside a move or a creation; two
\* folders of one name side by side takes two of creation, renaming and move; a
\* node without its parent takes a deletion beside something that adds to the
\* folder (MoveNode, CreateFolder, RenameNode, DeleteFolder).
DamageNeedsRace ==
  /\ (\E f \in Folders : OnCycle(parent, f)) => {"move"} \in races
  /\ (\E f \in RowsOf(parent) : RowDepth(parent, f) > MaxFolderDepth) =>
        {{"move"}, {"move", "folder"}} \cap races # {}
  /\ (\E f, g \in Folders : f # g /\ parent[f] # None /\ parent[f] = parent[g]
                            /\ name[f] = name[g]) =>
        \E r \in races : r \subseteq {"folder", "rename", "move"}
  /\ (\E n \in Nodes : parent[n] \in Folders /\ parent[parent[n]] = None) =>
        \E r \in races : "delete" \in r /\ r \cap {"folder", "move", "upload", "drop"} # {}

\* The panel refuses a drop or hides "new folder" exactly where the server
\* would refuse it for depth, although one counts levels down from the home row
\* and the other rows up from the folder; only at the root, where the server
\* does not look, may the panel be stricter, and then only in a tree that is
\* too deep already (path-tree.tsx, MoveNode, CreateFolder).
DepthChecksAgree ==
  Quiet => \A r \in RowsOf(parent) :
    /\ r # Root => (CanCreateFolderHere(parent, r) <=> Depth(parent, r) + 1 <= MaxFolderDepth)
    /\ \A f \in RowsOf(parent) \ {Root} :
         /\ r # Root /\ r \notin Subtree(parent, f) =>
              (DropFits(parent, f, r) <=> ~ TooDeepUnder(f, r))
         /\ r = Root /\ (\A g \in RowsOf(parent) : RowDepth(parent, g) <= MaxFolderDepth) =>
              DropFits(parent, f, r)

\* Once every operation has ended, the panel shows the server's tree and the
\* newest page of its documents, unless lists arrived in another order than they
\* were read or a deletion failed half way, after which nothing is reloaded
\* (reloadTree, reloadDocs and their callers, ListByUser).
PanelIsCurrent == Quiet => (nodes = parent /\ items = Page(live)) \/ crossed \/ halfway

\* A deletion archives only documents its dialog had counted, unless the dialog
\* was opened while an operation was under way or over a list that was wrong, or
\* another change ran beside the deletion, which Escape allows
\* (countSubtreeImpact, confirmDeleteFolder).
DeletionsAreTold ==
  untold => hasty \/ crossed \/ halfway \/ \E r \in races : "delete" \in r

\* "DeleteFolder archives descendants then removes nodes", and the dialog says the
\* folder goes: a deletion that ends alone has removed the folder.
DeletedFolderGoes ==
  [][\A c \in Calls : call[c].op = "delete" /\ races = {}
       /\ call[c].pc # "reload" /\ call'[c].pc = "reload" => parent'[call[c].node] = None]_vars
=============================================================================
