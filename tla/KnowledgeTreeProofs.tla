-------------------------- MODULE KnowledgeTreeProofs --------------------------
(***************************************************************************)
(* Proofs about KnowledgeTree: what the recursive queries compute, for any  *)
(* finite tree, and from it an inductive invariant of the tree, its panel   *)
(* and the operations under way.                                            *)
(***************************************************************************)
EXTENDS KnowledgeTree, FiniteSetTheorems, SequenceTheorems, WellFoundedInduction, TLAPS

Homes == Folders \cup {Root}
Lists == {"tree", "docs"}
Ops   == Changes \cup {"none", "refresh"}
PCs   == {"idle", "find", "cycle", "depth", "same", "names", "docs", "nodes", "write", "reload"}

CallRecords ==
  [pc : PCs, op : Ops, node : Nodes \cup {None}, to : Homes \cup {None},
   name : Names \cup {None}, from : Homes \cup {None}, list : Seq(Nodes),
   docs : SUBSET Docs, told : SUBSET Docs, todo : Seq(SUBSET Lists)]
DialogRecords ==
  [kind : {"none", "delete", "archive"}, node : Nodes \cup {None}, told : SUBSET Docs]
AnswerRecords == [call : Calls, list : Lists, nodes : Parents, items : SUBSET Docs]

Types ==
  /\ parent \in Parents /\ name \in [Folders -> Names \cup {None}]
  /\ live \subseteq Docs /\ taken \subseteq Nodes
  /\ call \in [Calls -> CallRecords] /\ dialog \in DialogRecords
  /\ nodes \in Parents /\ items \subseteq Docs /\ answers \in Seq(AnswerRecords)
  /\ races \subseteq SUBSET Ops
  /\ crossed \in BOOLEAN /\ halfway \in BOOLEAN /\ hasty \in BOOLEAN /\ untold \in BOOLEAN

\* A page of documents has only those.
LEMMA PageOf ==
  ASSUME NEW S
  PROVE  Page(S) \subseteq S
BY DEF Page

\* The reloads of an operation.
TodoOf(op) == IF op \in {"folder", "rename", "delete"} THEN <<{"tree"}>>
              ELSE IF op \in {"move", "drop"} THEN <<{"tree"}, {"docs"}>>
              ELSE <<{"docs"}, {"tree"}>>
Todos == {<<{"tree"}>>, <<{"docs"}>>, <<{"tree"}, {"docs"}>>, <<{"docs"}, {"tree"}>>,
          <<{"tree", "docs"}>>}

\* The locals r of an operation at each point.
Busy(r) == r.pc # "idle" /\ r.pc # "reload"
Local(r) ==
  /\ r.pc = "idle" => r = NewCall
  /\ r.pc = "reload" => r.todo \in Todos
  /\ Busy(r) => r.op \in Changes /\ r.todo = TodoOf(r.op)
  /\ Busy(r) /\ r.op = "folder" =>
       /\ r.pc \in {"find", "depth", "names", "write"}
       /\ r.to \in Homes /\ r.name \in Names /\ r.node = None
  /\ Busy(r) /\ r.op = "rename" =>
       /\ r.pc \in {"find", "names", "write"} /\ r.node \in Folders /\ r.name \in Names
       /\ r.pc # "find" => r.to \in Homes
  /\ Busy(r) /\ r.op = "move" =>
       /\ r.pc \in {"find", "cycle", "depth", "same", "names", "write"}
       /\ r.node \in Folders /\ r.to \in Homes
  /\ Busy(r) /\ r.op = "delete" =>
       /\ r.pc \in {"find", "docs", "nodes"} /\ r.node \in Folders
       /\ r.pc = "docs" => \A d \in r.docs : \E k \in 1 .. Len(r.list) : r.list[k] = d
  /\ Busy(r) /\ r.op = "upload" =>
       r.pc \in {"find", "write"} /\ r.to \in Homes /\ (r.pc = "write" => r.node \in Docs)
  /\ Busy(r) /\ r.op = "drop" =>
       r.pc \in {"find", "same", "write"} /\ r.node \in Docs /\ r.to \in Homes
  /\ Busy(r) /\ r.op = "archive" => r.pc \in {"find", "write"} /\ r.node \in Docs
\* Whatever is known of an id, the id is in S, the ids given out.
RefersTo(t, S) == \A n \in Nodes : t[n] # None => n \in S /\ t[n] \in S \cup {Root}
Known(r, S) == /\ r.to \in S \cup {Root, None} /\ r.node \in S \cup {None}
               /\ \A i \in 1 .. Len(r.list) : r.list[i] \in S

\* The node of an upload is still to come, and nobody knows of it.
Uploads(r) == r.op = "upload" /\ r.pc = "write"
Comes(r, p, S) == Uploads(r) => r.node \in S /\ p[r.node] = None
Apart(r, s) == /\ Uploads(r) /\ Uploads(s) => r.node # s.node
               /\ Uploads(r) => \A i \in 1 .. Len(s.list) : s.list[i] # r.node

\* Without a race of two moves there is no cycle, and none will be made.
NoMoves(R) == {"move"} \notin R
Acyclic(p) == \A f \in Folders : ~ OnCycle(p, f)
MakesNoCycle(r, p) ==
  r.op = "move" /\ r.pc \in {"depth", "names", "write"} =>
    r.node \notin Chain(p, r.to) \/ p[r.node] = None

\* Nor is a folder too deep, or will be, if no folder was made beside a move.
Shallow(R) == NoMoves(R) /\ {"move", "folder"} \notin R
DepthsFit(p) == \A f \in Folders : Depth(p, f) <= MaxFolderDepth
StaysShallow(r, p) ==
  /\ r.op = "folder" /\ r.pc \in {"names", "write"} => Depth(p, r.to) + 1 <= MaxFolderDepth
  /\ r.op = "move" /\ r.pc \in {"names", "write"} =>
       \A m \in Folders \cap Subtree(p, r.node) :
         Cardinality(Ancestors(p, m) \cap Subtree(p, r.node)) + Depth(p, r.to) <= MaxFolderDepth

\* Without a race of two that check names: the names differ and will, for the checked
\* name, its place and the folder's old name are as they were.
Naming       == {"folder", "rename", "move"}
NamesRace(R) == \E r \in R : r \subseteq Naming
Distinct(p, nm) ==
  \A f, g \in Folders : f # g /\ p[f] # None /\ p[f] = p[g] => nm[f] # nm[g]
StaysDistinct(r, p, nm) ==
  /\ r.op \in Naming /\ r.pc = "write" =>
       \A s \in Folders : p[s] = r.to /\ s # r.node => nm[s] # r.name
  /\ r.op = "rename" /\ r.pc \in {"names", "write"} => p[r.node] \in {r.to, None}
  /\ r.op = "move" /\ r.pc \in {"cycle", "depth", "names", "write"} =>
       nm[r.node] = r.name \/ p[r.node] = None

\* Without a deletion beside something that adds to a folder, every parent is there;
\* an operation that adds has found it, and a deletion will delete children first.
Adding        == {"folder", "move", "upload", "drop"}
OrphanRace(R) == \E r \in R : "delete" \in r /\ r \cap Adding # {}
Whole(p)      == \A n \in Nodes : p[n] \in Folders => p[p[n]] # None
StaysWhole(r, p) ==
  /\ Busy(r) /\ r.op \in Adding /\ r.pc # "find" => r.to = Root \/ p[r.to] # None
  /\ r.op = "delete" /\ r.pc \in {"docs", "nodes"} =>
       \A i \in 1 .. Len(r.list), n \in Nodes : p[n] = r.list[i] =>
         \E j \in i + 1 .. Len(r.list) : r.list[j] = n

\* The rows p with names nm, when S are the ids given out and R the races so far.
ForestFits(p, nm, S, R) ==
  /\ \A f \in Folders : nm[f] = None <=> p[f] = None
  /\ RefersTo(p, S)
  /\ NoMoves(R) => Acyclic(p)
  /\ Shallow(R) => DepthsFit(p)
  /\ ~ NamesRace(R) => Distinct(p, nm)
  /\ ~ OrphanRace(R) => Whole(p)

\* The locals of an operation over such rows.
CallFits(r, p, nm, S, R) ==
  /\ Local(r) /\ Known(r, S) /\ Comes(r, p, S)
  /\ NoMoves(R) => MakesNoCycle(r, p)
  /\ Shallow(R) => StaysShallow(r, p)
  /\ ~ NamesRace(R) => StaysDistinct(r, p, nm)
  /\ ~ OrphanRace(R) => StaysWhole(r, p)

ServerFits ==
  /\ ForestFits(parent, name, taken, races) /\ live \subseteq taken
  /\ \A c \in Calls : CallFits(call[c], parent, name, taken, races)

\* Two operations under way together are a race, and know of different uploads.
PairsFit ==
  \A c, d \in Calls : c # d =>
    /\ Busy(call[c]) /\ Busy(call[d]) => {call[c].op, call[d].op} \in races
    /\ Apart(call[c], call[d])

\* The lists on their way are awaited, each once.
Awaits(r, l) == r.pc = "reload" /\ l \in r.todo[1]
Single(s) == \A i, j \in 1 .. Len(s) : s[i].call = s[j].call /\ s[i].list = s[j].list => i = j
ListsFit ==
  /\ \A i \in 1 .. Len(answers) :
       /\ Awaits(call[answers[i].call], answers[i].list)
       /\ RefersTo(answers[i].nodes, taken)
  /\ Single(answers)

\* A list l that is not what is stored will be read again, or the newest on its way is it;
\* else it is shown, and none is on its way.
Item(a, l)       == IF l = "tree" THEN a.nodes ELSE a.items
Without(s, c, l) == \A i \in 1 .. Len(s) : s[i].call = c => s[i].list # l
ToRead(r, l)     == r.pc = "reload" /\ \E k \in 1 .. Len(r.todo) : l \in r.todo[k]
Newest(s, i, l)  == s[i].list = l /\ \A j \in i + 1 .. Len(s) : s[j].list # l
WillShow(s, l, old, new) ==
  \/ \E i \in 1 .. Len(s) : Newest(s, i, l) /\ Item(s[i], l) = new
  \/ old = new /\ \A i \in 1 .. Len(s) : s[i].list # l

\* A deletion under way reads the tree at its end; one that has archived a document cannot
\* succeed, and the list of documents stays as it was.
Deletes(r)  == r.op = "delete" /\ r.pc \in {"docs", "nodes"}
Dooms(r, p) == Deletes(r) /\ \E k \in 1 .. Len(r.list) : r.list[k] \in Docs /\ p[r.list[k]] = None
Archives(r) == r.op = "archive" /\ r.pc = "write"
TreeFits ==
  \/ WillShow(answers, "tree", nodes, parent)
  \/ \E c \in Calls : \/ ToRead(call[c], "tree") /\ Without(answers, c, "tree")
                      \/ Deletes(call[c])
DocsFit ==
  \/ WillShow(answers, "docs", items, Page(live))
  \/ \E c \in Calls : \/ ToRead(call[c], "docs") /\ Without(answers, c, "docs")
                      \/ Dooms(call[c], parent) \/ Archives(call[c]) \/ Uploads(call[c])
PanelFits == ~ crossed /\ ~ halfway => TreeFits /\ DocsFit

\* What a dialog is about.
DialogFits ==
  /\ dialog.kind = "delete" => dialog.node \in Folders
  /\ dialog.kind = "archive" => dialog.node \in Docs
  /\ dialog.kind = "none" => dialog = NoDialog
  /\ dialog.node \in taken \cup {None}

\* Opened at rest and over a right list, a dialog counts what its deletion will archive,
\* for nothing but the deletion can start before the dialog is closed.
DeleteRace(R) == \E r \in R : "delete" \in r
Calm == ~ hasty /\ ~ crossed /\ ~ halfway /\ ~ DeleteRace(races)
Counted(dg, p) ==
  dg.kind = "delete" =>
    /\ \A c \in Calls : Idle(c) \/ (call[c].op = "delete" /\ Busy(call[c]))
    /\ (\A c \in Calls : call[c].pc \in {"idle", "find"}) => dg.told = CountSubtree(p, dg.node)
Told(r, p) ==
  /\ r.pc = "find" => r.told = CountSubtree(p, r.node)
  /\ r.pc = "docs" => r.docs \subseteq r.told
ToldFits ==
  Calm =>
    /\ ~ untold /\ Counted(dialog, parent)
    /\ \A c \in Calls : call[c].op = "delete" /\ Busy(call[c]) =>
         Told(call[c], parent) /\ \A d \in Calls : d # c => Idle(d)

IInv ==
  /\ Types /\ ServerFits /\ PairsFit
  /\ RefersTo(nodes, taken) /\ DialogFits /\ ListsFit /\ PanelFits /\ ToldFits
-----------------------------------------------------------------------------
(* Repeated application. *)

\* A set of numbers that holds 0 and each one's successor holds all.
LEMMA SetInduction ==
  ASSUME NEW T, 0 \in T, \A k \in Nat : k \in T => k + 1 \in T
  PROVE  Nat \subseteq T
<1> DEFINE B == Nat \ T
           R == OpToRel(<, Nat)
<1>1. SUFFICES ASSUME B # {} PROVE FALSE  OBVIOUS
<1>2. PICK j \in B : \A y \in B : ~ (y < j)
  <2>1. IsWellFoundedOn(R, Nat)  BY Zenon, NatLessThanWellFounded
  <2>2. \A x, y \in Nat : x < y => <<x, y>> \in R  BY DEF OpToRel
  <2> HIDE DEF R
  <2>3. B \subseteq Nat  OBVIOUS
  <2>4. \E j \in B : \A y \in B : ~ (<<y, j>> \in R)  BY <1>1, <2>1, <2>3, WFMin
  <2> QED  BY <2>2, <2>3, <2>4
<1>3. j # 0 /\ j \in Nat  OBVIOUS
<1>4. j - 1 \in Nat /\ j - 1 < j /\ (j - 1) + 1 = j  BY <1>3
<1> QED  BY <1>2, <1>4

\* g is what F makes of S, up to n times.
IsRun(g, F, S, n) == g = [i \in 0 .. n |-> IF i = 0 THEN S ELSE F[g[i - 1]]]

\* There is such a g.
LEMMA RunExists ==
  ASSUME NEW F, NEW S, NEW n \in Nat
  PROVE  \E g : IsRun(g, F, S, n)
<1> DEFINE T == {k \in Nat : \E g : IsRun(g, F, S, k)}
<1>1. 0 \in T
  <2> DEFINE g == [i \in 0 .. 0 |-> S]
  <2>1. IsRun(g, F, S, 0)  BY DEF IsRun
  <2> QED  BY <2>1
<1>2. ASSUME NEW k \in Nat, k \in T PROVE k + 1 \in T
  <2>1. PICK g : IsRun(g, F, S, k)  BY <1>2
  <2> DEFINE h == [i \in 0 .. k + 1 |-> IF i = k + 1 THEN F[g[k]] ELSE g[i]]
  <2>2. \A i \in 0 .. k : g[i] = IF i = 0 THEN S ELSE F[g[i - 1]]
    <3> DEFINE e == [i \in 0 .. k |-> IF i = 0 THEN S ELSE F[g[i - 1]]]
    <3>1. g = e  BY <2>1 DEF IsRun
    <3>2. \A i \in 0 .. k : e[i] = IF i = 0 THEN S ELSE F[g[i - 1]]  OBVIOUS
    <3> QED  BY <3>1, <3>2
  <2>3. ASSUME NEW i \in 0 .. k + 1 PROVE h[i] = IF i = 0 THEN S ELSE F[h[i - 1]]
    <3>1. CASE i = k + 1
      <4>1. i # 0 /\ i - 1 = k /\ k \in 0 .. k + 1 /\ k # k + 1  BY <3>1
      <4> QED  BY <3>1, <4>1
    <3>2. CASE i # k + 1
      <4>1. i \in 0 .. k  BY <3>2
      <4>2. CASE i = 0  BY <2>2, <3>2, <4>1, <4>2
      <4>3. CASE i # 0
        <5>1. i - 1 \in 0 .. k + 1 /\ i - 1 # k + 1  BY <4>1, <4>3
        <5> QED  BY <2>2, <3>2, <4>1, <4>3, <5>1
      <4> QED  BY <4>2, <4>3
    <3> QED  BY <3>1, <3>2
  <2>4. DOMAIN h = 0 .. k + 1 /\ h = [i \in DOMAIN h |-> h[i]]  OBVIOUS
  <2> HIDE DEF h
  <2>5. h = [i \in 0 .. k + 1 |-> IF i = 0 THEN S ELSE F[h[i - 1]]]  BY <2>3, <2>4
  <2>6. IsRun(h, F, S, k + 1)  BY <2>5 DEF IsRun
  <2>7. k + 1 \in Nat  OBVIOUS
  <2> QED  BY <2>6, <2>7
<1>3. Nat \subseteq T
  <2> HIDE DEF T
  <2> QED  BY <1>1, <1>2, SetInduction
<1> QED  BY <1>3

\* Two of them agree as far as both go.
Agree(g, h, F, S, m, n) ==
  \A k \in Nat : k <= m /\ k <= n =>
    g[k] = h[k] /\ (k = 0 => g[k] = S) /\ (k # 0 => g[k] = F[g[k - 1]])

\* Being runs, they do.
LEMMA RunsAgree ==
  ASSUME NEW F, NEW S, NEW m \in Nat, NEW n \in Nat, NEW g, NEW h,
         IsRun(g, F, S, m), IsRun(h, F, S, n)
  PROVE  Agree(g, h, F, S, m, n)
<1>1. \A i \in 0 .. m : g[i] = IF i = 0 THEN S ELSE F[g[i - 1]]
  <2> DEFINE e == [i \in 0 .. m |-> IF i = 0 THEN S ELSE F[g[i - 1]]]
  <2>1. g = e  BY DEF IsRun
  <2>2. \A i \in 0 .. m : e[i] = IF i = 0 THEN S ELSE F[g[i - 1]]  OBVIOUS
  <2> QED  BY <2>1, <2>2
<1>2. \A i \in 0 .. n : h[i] = IF i = 0 THEN S ELSE F[h[i - 1]]
  <2> DEFINE e == [i \in 0 .. n |-> IF i = 0 THEN S ELSE F[h[i - 1]]]
  <2>1. h = e  BY DEF IsRun
  <2>2. \A i \in 0 .. n : e[i] = IF i = 0 THEN S ELSE F[h[i - 1]]  OBVIOUS
  <2> QED  BY <2>1, <2>2
<1> DEFINE T == {i \in Nat : i <= m /\ i <= n => g[i] = h[i]}
<1>3. 0 \in T  BY <1>1, <1>2
<1>4. ASSUME NEW i \in Nat, i \in T PROVE i + 1 \in T
  <2> SUFFICES ASSUME i + 1 <= m, i + 1 <= n PROVE g[i + 1] = h[i + 1]  OBVIOUS
  <2>1. /\ i + 1 \in 0 .. m /\ i + 1 \in 0 .. n /\ (i + 1) - 1 = i /\ i + 1 # 0
        /\ i <= m /\ i <= n  OBVIOUS
  <2>2. g[i] = h[i]  BY <1>4, <2>1
  <2>3. g[i + 1] = F[g[i]]  BY <1>1, <2>1
  <2>4. h[i + 1] = F[h[i]]  BY <1>2, <2>1
  <2> QED  BY <2>2, <2>3, <2>4
<1>5. Nat \subseteq T
  <2> HIDE DEF T
  <2> QED  BY <1>3, <1>4, SetInduction
<1>6. ASSUME NEW k \in Nat, k <= m, k <= n
      PROVE  g[k] = h[k] /\ (k = 0 => g[k] = S) /\ (k # 0 => g[k] = F[g[k - 1]])
  <2>1. k \in 0 .. m  BY <1>6
  <2> QED  BY <1>1, <1>5, <1>6, <2>1
<1> QED  BY <1>6 DEF Agree

\* F applied 0 times, and once more.
LEMMA TimesSteps ==
  ASSUME NEW F, NEW S
  PROVE  /\ Times(F, S, 0) = S
         /\ \A k \in Nat : Times(F, S, k + 1) = F[Times(F, S, k)]
<1> DEFINE Run(n) == CHOOSE g : IsRun(g, F, S, n)
<1>1. ASSUME NEW n \in Nat PROVE Times(F, S, n) = Run(n)[n]
  BY DEF Times, IsRun
<1>2. ASSUME NEW n \in Nat PROVE IsRun(Run(n), F, S, n)
  BY RunExists
<1> HIDE DEF Run
<1>5. ASSUME NEW m \in Nat, NEW n \in Nat, NEW k \in Nat, k <= m, k <= n
      PROVE  /\ Run(m)[k] = Run(n)[k]
             /\ k = 0 => Run(m)[k] = S
             /\ k # 0 => Run(m)[k] = F[Run(m)[k - 1]]
  <2> DEFINE g == Run(m)
             h == Run(n)
  <2>1. IsRun(g, F, S, m) /\ IsRun(h, F, S, n)  BY <1>2
  <2> HIDE DEF g, h
  <2>2. Agree(g, h, F, S, m, n)  BY <2>1, RunsAgree
  <2> QED  BY <1>5, <2>2 DEF g, h, Agree
<1>3. Times(F, S, 0) = S
  <2>1. 0 \in Nat /\ 0 <= 0  OBVIOUS
  <2>2. Run(0)[0] = S  BY <1>5, <2>1
  <2> QED  BY <1>1, <2>1, <2>2
<1>4. ASSUME NEW k \in Nat PROVE Times(F, S, k + 1) = F[Times(F, S, k)]
  <2>1. k + 1 \in Nat /\ k + 1 # 0 /\ (k + 1) - 1 = k /\ k <= k + 1 /\ k <= k /\ k + 1 <= k + 1
    OBVIOUS
  <2>2. Run(k + 1)[k + 1] = F[Run(k + 1)[k]]  BY <1>5, <2>1
  <2>3. Run(k + 1)[k] = Run(k)[k]  BY <1>5, <2>1
  <2> QED  BY <1>1, <2>1, <2>2, <2>3
<1> QED  BY <1>3, <1>4

-----------------------------------------------------------------------------
(* What a node hangs from. *)

\* The nodes are finitely many, and who is not one of them.
LEMMA NodesAreFinite ==
  /\ IsFiniteSet(Nodes) /\ Cardinality(Nodes) \in Nat
  /\ IsFiniteSet(Folders) /\ Cardinality(Folders) \in Nat
  /\ Folders \cap Docs = {} /\ Root \notin Nodes /\ None \notin Nodes /\ Root # None
  /\ Root \notin Folders /\ None \notin Folders /\ None \notin Names
<1>1. IsFiniteSet(Folders) /\ IsFiniteSet(Docs)  BY TreeAssumption
<1>2. IsFiniteSet(Nodes)  BY <1>1, FS_Union DEF Nodes
<1>3. Cardinality(Nodes) \in Nat /\ Cardinality(Folders) \in Nat
  BY <1>1, <1>2, FS_CardinalityType
<1> QED  BY <1>1, <1>2, <1>3, TreeAssumption DEF Nodes

\* One step up from a set of nodes.
LEMMA UpIs ==
  ASSUME NEW p \in Parents, NEW S \in SUBSET Nodes
  PROVE  /\ Up(p)[S] \in SUBSET Nodes /\ S \subseteq Up(p)[S]
         /\ \A x \in S : p[x] \in Folders => p[x] \in Up(p)[S]
         /\ \A y \in Up(p)[S] : y \in S \/ \E x \in S : p[x] \in Folders /\ y = p[x]
BY DEF Up, Nodes

\* S holds the parents of its members.
Closed(p, S) == \A x \in S : p[x] \in Folders => p[x] \in S

\* A chain is the least set that holds the node and the parents of its members.
LEMMA ChainIs ==
  ASSUME NEW p \in Parents, NEW n \in Nodes \cup {Root}
  PROVE  /\ Chain(p, n) \subseteq Nodes /\ {n} \ {Root} \subseteq Chain(p, n)
         /\ Closed(p, Chain(p, n))
         /\ \A S : {n} \ {Root} \subseteq S /\ Closed(p, S) => Chain(p, n) \subseteq S
<1> DEFINE D == {n} \ {Root}
           c(k) == Times(Up(p), D, k)
           N == Cardinality(Nodes)
<1>1. D \in SUBSET Nodes  OBVIOUS
<1>2. c(0) = D /\ \A k \in Nat : c(k + 1) = Up(p)[c(k)]  BY TimesSteps
<1>3. Chain(p, n) = c(N)  BY DEF Chain
<1>4. N \in Nat  BY NodesAreFinite
<1> HIDE DEF c, D, N
<1>5. \A k \in Nat : c(k) \in SUBSET Nodes /\ D \subseteq c(k)
  <2> DEFINE T == {k \in Nat : c(k) \in SUBSET Nodes /\ D \subseteq c(k)}
  <2>1. 0 \in T  BY <1>1, <1>2
  <2>2. ASSUME NEW k \in Nat, k \in T PROVE k + 1 \in T
    <3>1. c(k) \in SUBSET Nodes /\ D \subseteq c(k)  BY <2>2
    <3>2. c(k + 1) = Up(p)[c(k)]  BY <1>2
    <3>3. c(k + 1) \in SUBSET Nodes /\ c(k) \subseteq c(k + 1)  BY <3>1, <3>2, UpIs
    <3> QED  BY <3>1, <3>3
  <2>3. Nat \subseteq T
    <3> HIDE DEF T
    <3> QED  BY <2>1, <2>2, SetInduction
  <2> QED  BY <2>3
<1>6. ASSUME NEW S, D \subseteq S, Closed(p, S) PROVE \A k \in Nat : c(k) \subseteq S
  <2> DEFINE T == {k \in Nat : c(k) \subseteq S}
  <2>1. 0 \in T  BY <1>2, <1>6
  <2>2. ASSUME NEW k \in Nat, k \in T PROVE k + 1 \in T
    <3>1. c(k) \in SUBSET Nodes /\ c(k) \subseteq S  BY <1>5, <2>2
    <3>2. c(k + 1) = Up(p)[c(k)]  BY <1>2
    <3>3. \A y \in c(k + 1) : y \in c(k) \/ \E x \in c(k) : p[x] \in Folders /\ y = p[x]
      BY <3>1, <3>2, UpIs
    <3> QED  BY <1>6, <3>1, <3>3 DEF Closed
  <2>3. Nat \subseteq T
    <3> HIDE DEF T
    <3> QED  BY <2>1, <2>2, SetInduction
  <2> QED  BY <2>3
<1>7. \A k \in Nat : Closed(p, c(k)) \/ Cardinality(c(k)) >= k
  <2> DEFINE T == {k \in Nat : Closed(p, c(k)) \/ Cardinality(c(k)) >= k}
  <2>0. \A k \in Nat : IsFiniteSet(c(k)) /\ Cardinality(c(k)) \in Nat
    BY <1>5, NodesAreFinite, FS_Subset, FS_CardinalityType
  <2>1. 0 \in T  BY <2>0
  <2>2. ASSUME NEW k \in Nat, k \in T PROVE k + 1 \in T
    <3>1. c(k) \in SUBSET Nodes /\ c(k + 1) = Up(p)[c(k)] /\ k + 1 \in Nat  BY <1>2, <1>5
    <3>2. CASE Closed(p, c(k))
      <4>0. /\ c(k) \subseteq c(k + 1)
            /\ \A y \in c(k + 1) : y \in c(k) \/ \E x \in c(k) : p[x] \in Folders /\ y = p[x]
        BY <3>1, UpIs
      <4>1. c(k + 1) = c(k)  BY <3>2, <4>0 DEF Closed
      <4> QED  BY <3>1, <3>2, <4>1
    <3>3. CASE ~ Closed(p, c(k))
      <4>1. Cardinality(c(k)) >= k  BY <2>2, <3>3
      <4>2. PICK x \in c(k) : p[x] \in Folders /\ p[x] \notin c(k)  BY <3>3 DEF Closed
      <4>3. c(k) \cup {p[x]} \in SUBSET c(k + 1)  BY <3>1, <4>2, UpIs
      <4>4. Cardinality(c(k) \cup {p[x]}) = Cardinality(c(k)) + 1  BY <2>0, <4>2, FS_AddElement
      <4>5. Cardinality(c(k) \cup {p[x]}) <= Cardinality(c(k + 1))
        BY <2>0, <3>1, <4>3, FS_Subset
      <4>6. Cardinality(c(k + 1)) \in Nat /\ Cardinality(c(k)) \in Nat  BY <2>0, <3>1
      <4>7. Cardinality(c(k + 1)) >= k + 1  BY <4>1, <4>4, <4>5, <4>6
      <4> QED  BY <3>1, <4>7
    <3> QED  BY <3>2, <3>3
  <2>3. Nat \subseteq T
    <3> HIDE DEF T
    <3> QED  BY <2>1, <2>2, SetInduction
  <2> QED  BY <2>3
<1>8. Closed(p, c(N))
  <2>1. CASE Cardinality(c(N)) >= N
    <3>1. c(N) \in SUBSET Nodes /\ Cardinality(c(N)) <= N
      BY <1>4, <1>5, NodesAreFinite, FS_Subset DEF N
    <3>2. Cardinality(c(N)) = N
      <4>1. Cardinality(c(N)) \in Nat
        BY <3>1, NodesAreFinite, FS_Subset, FS_CardinalityType
      <4> QED  BY <1>4, <2>1, <3>1, <4>1
    <3>3. c(N) = Nodes  BY <3>1, <3>2, NodesAreFinite, FS_Subset DEF N
    <3> QED  BY <3>3 DEF Closed, Nodes
  <2> QED  BY <1>4, <1>7, <2>1
<1>9. c(N) \subseteq Nodes /\ D \subseteq c(N)  BY <1>4, <1>5
<1>10. \A S : D \subseteq S /\ Closed(p, S) => c(N) \subseteq S  BY <1>4, <1>6
<1> QED  BY <1>3, <1>8, <1>9, <1>10 DEF D

\* A node and its parent's chain.
LEMMA ChainOf ==
  ASSUME NEW p \in Parents
  PROVE  /\ Chain(p, Root) = {}
         /\ \A n \in Nodes : n \in Chain(p, n)
         /\ \A n \in Nodes : p[n] \in Folders => Chain(p, n) = {n} \cup Chain(p, p[n])
         /\ \A n \in Nodes : p[n] \notin Folders => Chain(p, n) = {n}
<1>1. Chain(p, Root) = {}
  <2>1. \A S : {Root} \ {Root} \subseteq S /\ Closed(p, S) => Chain(p, Root) \subseteq S
    BY ChainIs
  <2>2. {Root} \ {Root} \subseteq {} /\ Closed(p, {})  BY DEF Closed
  <2> QED  BY <2>1, <2>2
<1>2. ASSUME NEW n \in Nodes
      PROVE  /\ n \in Chain(p, n)
             /\ p[n] \in Folders => Chain(p, n) = {n} \cup Chain(p, p[n])
             /\ p[n] \notin Folders => Chain(p, n) = {n}
  <2>0. n # Root  BY NodesAreFinite
  <2>1. /\ Chain(p, n) \subseteq Nodes /\ n \in Chain(p, n) /\ Closed(p, Chain(p, n))
        /\ \A S : {n} \ {Root} \subseteq S /\ Closed(p, S) => Chain(p, n) \subseteq S
    BY <2>0, ChainIs
  <2>2. CASE p[n] \notin Folders
    <3>1. Closed(p, {n})  BY <2>2 DEF Closed
    <3> QED  BY <2>1, <2>2, <3>1
  <2>3. CASE p[n] \in Folders
    <3>0. p[n] \in Nodes \cup {Root} /\ p[n] # Root  BY <2>3, NodesAreFinite DEF Nodes
    <3>1. /\ p[n] \in Chain(p, p[n]) /\ Closed(p, Chain(p, p[n]))
          /\ \A S : {p[n]} \ {Root} \subseteq S /\ Closed(p, S) => Chain(p, p[n]) \subseteq S
      BY <3>0, ChainIs
    <3>2. Closed(p, {n} \cup Chain(p, p[n]))  BY <3>1 DEF Closed
    <3>3. Chain(p, n) \subseteq {n} \cup Chain(p, p[n])  BY <2>1, <3>2
    <3>4. p[n] \in Chain(p, n)  BY <2>1, <2>3 DEF Closed
    <3>5. Chain(p, p[n]) \subseteq Chain(p, n)  BY <2>1, <3>1, <3>4
    <3> QED  BY <2>1, <2>3, <3>3, <3>5
  <2> QED  BY <2>1, <2>2, <2>3
<1> QED  BY <1>1, <1>2

\* What a member of a chain hangs from is in the chain.
LEMMA ChainsNest ==
  ASSUME NEW p \in Parents, NEW n \in Nodes \cup {Root}, NEW m \in Chain(p, n)
  PROVE  m \in Nodes /\ Chain(p, m) \subseteq Chain(p, n)
<1>1. Chain(p, n) \subseteq Nodes /\ Closed(p, Chain(p, n))  BY ChainIs
<1>2. m \in Nodes \cup {Root}  BY <1>1
<1>3. \A S : {m} \ {Root} \subseteq S /\ Closed(p, S) => Chain(p, m) \subseteq S  BY <1>2, ChainIs
<1> QED  BY <1>1, <1>3

\* A folder hangs from folders; the chains are finite.
LEMMA ChainsAreFolders ==
  ASSUME NEW p \in Parents
  PROVE  /\ \A n \in Homes : Chain(p, n) \subseteq Folders
         /\ \A n \in Nodes \cup {Root} : IsFiniteSet(Ancestors(p, n)) /\ Depth(p, n) \in Nat
<1>1. ASSUME NEW n \in Homes PROVE Chain(p, n) \subseteq Folders
  <2>1. n \in Nodes \cup {Root}  BY DEF Homes, Nodes
  <2>2. {n} \ {Root} \subseteq Folders /\ Closed(p, Folders)  BY DEF Homes, Closed
  <2> QED  BY <2>1, <2>2, ChainIs
<1>2. ASSUME NEW n \in Nodes \cup {Root}
      PROVE  IsFiniteSet(Ancestors(p, n)) /\ Depth(p, n) \in Nat
  <2>1. Ancestors(p, n) \in SUBSET Nodes  BY ChainIs DEF Ancestors
  <2> QED  BY <2>1, NodesAreFinite, FS_Subset, FS_CardinalityType DEF Depth
<1> QED  BY <1>1, <1>2

-----------------------------------------------------------------------------
(* What the panel counts, and that it is what the queries count. *)

\* One level down from a set of rows.
LEMMA DownIs ==
  ASSUME NEW t, NEW S \in SUBSET Homes
  PROVE  Down(t)[S] = {f \in Folders : t[f] \in S} /\ Down(t)[S] \in SUBSET Homes
BY DEF Down, Homes

\* The rows k levels below a set of rows.
Descend(t, S) ==
  /\ Times(Down(t), S, 0) = S
  /\ \A k \in Nat : /\ Times(Down(t), S, k) \in SUBSET Homes
                    /\ Times(Down(t), S, k + 1) = {f \in Folders : t[f] \in Times(Down(t), S, k)}

\* They are the folders directly inside those one level up.
LEMMA LevelsBelow ==
  ASSUME NEW t, NEW S \in SUBSET Homes
  PROVE  Descend(t, S)
<1> DEFINE c(k) == Times(Down(t), S, k)
<1>1. c(0) = S /\ \A k \in Nat : c(k + 1) = Down(t)[c(k)]  BY TimesSteps
<1> HIDE DEF c
<1> DEFINE T == {k \in Nat : c(k) \in SUBSET Homes}
<1>2. 0 \in T  BY <1>1
<1>3. ASSUME NEW k \in Nat, k \in T PROVE k + 1 \in T
  <2>1. c(k + 1) = Down(t)[c(k)] /\ c(k) \in SUBSET Homes  BY <1>1, <1>3
  <2> QED  BY <2>1, DownIs
<1>4. Nat \subseteq T
  <2> HIDE DEF T
  <2> QED  BY <1>2, <1>3, SetInduction
<1>5. ASSUME NEW k \in Nat
      PROVE  c(k) \in SUBSET Homes /\ c(k + 1) = {f \in Folders : t[f] \in c(k)}
  <2>1. c(k + 1) = Down(t)[c(k)] /\ c(k) \in SUBSET Homes  BY <1>1, <1>4
  <2> QED  BY <2>1, DownIs
<1> QED  BY <1>1, <1>5 DEF c, Descend

\* The home row alone is at level 0; a folder is one level below its parent.
LEMMA LevelIs ==
  ASSUME NEW t
  PROVE  /\ Level(t, 0) = {Root}
         /\ \A k \in Nat : /\ Level(t, k) \subseteq Homes
                           /\ Level(t, k + 1) = {f \in Folders : t[f] \in Level(t, k)}
<1>1. {Root} \in SUBSET Homes  BY DEF Homes
<1>2. Descend(t, {Root})  BY <1>1, LevelsBelow
<1> QED  BY <1>2 DEF Level, Descend

\* A row is at one level only.
LEMMA LevelsDiffer ==
  ASSUME NEW t, NEW j \in Nat, NEW k \in Nat, NEW r, r \in Level(t, j), r \in Level(t, k)
  PROVE  j = k
<1> DEFINE T == {i \in Nat : \A n \in Nat : \A x : x \in Level(t, i) /\ x \in Level(t, n) => i = n}
<1>1. ASSUME NEW n \in Nat, n # 0 PROVE Level(t, n) \subseteq Folders
  <2>1. n - 1 \in Nat /\ (n - 1) + 1 = n  BY <1>1
  <2>2. Level(t, (n - 1) + 1) \subseteq Folders  BY <2>1, LevelIs
  <2> QED  BY <2>1, <2>2
<1>2. Root \notin Folders /\ Level(t, 0) = {Root}  BY NodesAreFinite, LevelIs
<1>3. 0 \in T  BY <1>1, <1>2
<1>4. ASSUME NEW i \in Nat, i \in T PROVE i + 1 \in T
  <2> SUFFICES ASSUME NEW n \in Nat, NEW x, x \in Level(t, i + 1), x \in Level(t, n)
               PROVE  i + 1 = n
    OBVIOUS
  <2>1. x \in Folders /\ t[x] \in Level(t, i)  BY LevelIs
  <2>2. n # 0  BY <1>2, <2>1
  <2>3. n - 1 \in Nat /\ (n - 1) + 1 = n  BY <2>2
  <2>4. x \in Level(t, (n - 1) + 1)  BY <2>3
  <2>5. t[x] \in Level(t, n - 1)  BY <2>3, <2>4, LevelIs
  <2>6. i = n - 1  BY <1>4, <2>1, <2>3, <2>5
  <2> QED  BY <2>3, <2>6
<1>5. Nat \subseteq T
  <2> HIDE DEF T
  <2> QED  BY <1>3, <1>4, SetInduction
<1> QED  BY <1>5

\* The ancestors of a row are one at each level down to it.
LEMMA AncestorsAreLevels ==
  ASSUME NEW t \in Parents, NEW k \in Nat, NEW r \in Level(t, k)
  PROVE  /\ Depth(t, r) = k
         /\ \A m \in Chain(t, r) : t[m] # None /\ \E i \in 1 .. k : m \in Level(t, i)
<1> DEFINE Fine(i) == \A x \in Level(t, i) :
             /\ Depth(t, x) = i
             /\ \A m \in Chain(t, x) : t[m] # None /\ \E j \in 1 .. i : m \in Level(t, j)
           T == {i \in Nat : Fine(i)}
<1>1. 0 \in T
  <2>1. Level(t, 0) = {Root} /\ Chain(t, Root) = {}  BY LevelIs, ChainOf
  <2>2. Ancestors(t, Root) = {}  BY <2>1 DEF Ancestors
  <2>3. Depth(t, Root) = 0  BY <2>2, FS_EmptySet DEF Depth
  <2> QED  BY <2>1, <2>3
<1>2. ASSUME NEW i \in Nat, i \in T PROVE i + 1 \in T
  <2> SUFFICES ASSUME NEW x \in Level(t, i + 1)
               PROVE  /\ Depth(t, x) = i + 1
                      /\ \A m \in Chain(t, x) :
                           t[m] # None /\ \E j \in 1 .. i + 1 : m \in Level(t, j)
    OBVIOUS
  <2>0. x \in Folders /\ t[x] \in Level(t, i) /\ Level(t, i) \subseteq Homes  BY LevelIs
  <2>1. x \in Folders /\ x \in Nodes /\ t[x] \in Level(t, i) /\ t[x] \in Homes
    BY <2>0 DEF Nodes
  <2>2. t[x] # None /\ Fine(i)  BY <1>2, <2>1, NodesAreFinite DEF Homes
  <2>3. CASE t[x] = Root
    <3>0. Root \in Level(t, 0)  BY LevelIs
    <3>1. i = 0  BY <2>1, <2>3, <3>0, LevelsDiffer
    <3>2. Chain(t, x) = {x}  BY <2>1, <2>3, ChainOf, NodesAreFinite
    <3>3. Ancestors(t, x) = {x}  BY <2>2, <3>2 DEF Ancestors
    <3>4. Depth(t, x) = 1  BY <3>3, FS_Singleton DEF Depth
    <3> QED  BY <2>2, <3>1, <3>2, <3>4
  <2>4. CASE t[x] # Root
    <3>1. t[x] \in Folders /\ t[x] \in Nodes  BY <2>1, <2>4 DEF Homes, Nodes
    <3>2. Chain(t, x) = {x} \cup Chain(t, t[x])  BY <2>1, <3>1, ChainOf
    <3>3. x \notin Chain(t, t[x])
      <4> SUFFICES ASSUME x \in Chain(t, t[x]) PROVE FALSE  OBVIOUS
      <4>1. PICK j \in 1 .. i : x \in Level(t, j)  BY <2>1, <2>2
      <4>2. j \in Nat /\ i + 1 \in Nat /\ j # i + 1  OBVIOUS
      <4> QED  BY <4>1, <4>2, LevelsDiffer
    <3>4. Ancestors(t, x) = Ancestors(t, t[x]) \cup {x} /\ x \notin Ancestors(t, t[x])
      BY <2>2, <3>2, <3>3 DEF Ancestors
    <3>5. Depth(t, x) = Depth(t, t[x]) + 1
      BY <3>1, <3>4, ChainsAreFolders, FS_AddElement DEF Depth
    <3>6. Depth(t, t[x]) = i  BY <2>1, <2>2
    <3>7. \A m \in Chain(t, x) : t[m] # None /\ \E j \in 1 .. i + 1 : m \in Level(t, j)
      <4> TAKE m \in Chain(t, x)
      <4>1. CASE m = x
        <5>1. i + 1 \in 1 .. i + 1  OBVIOUS
        <5> QED  BY <2>2, <4>1, <5>1
      <4>2. CASE m # x
        <5>1. PICK j \in 1 .. i : t[m] # None /\ m \in Level(t, j)  BY <2>1, <2>2, <3>2, <4>2
        <5>2. j \in 1 .. i + 1  OBVIOUS
        <5> QED  BY <5>1, <5>2
      <4> QED  BY <4>1, <4>2
    <3> QED  BY <3>5, <3>6, <3>7
  <2> QED  BY <2>3, <2>4
<1>3. Nat \subseteq T
  <2> HIDE DEF T
  <2> QED  BY <1>1, <1>2, SetInduction
<1>4. k \in T  BY <1>3
<1> QED  BY <1>4

-----------------------------------------------------------------------------
(* The two ways of counting agree. *)

\* A nonempty set of numbers up to n has a largest.
LEMMA MaxIsIn ==
  ASSUME NEW n \in Nat, NEW S \in SUBSET (0 .. n), S # {}
  PROVE  Max(S) \in S /\ \A y \in S : Max(S) >= y
<1> DEFINE T == {k \in Nat : \A D \in SUBSET (0 .. k) : D # {} => \E x \in D : \A y \in D : x >= y}
<1>1. 0 \in T
  <2> SUFFICES ASSUME NEW D \in SUBSET (0 .. 0), D # {} PROVE \E x \in D : \A y \in D : x >= y
    OBVIOUS
  <2>1. PICK x \in D : TRUE  OBVIOUS
  <2>2. \A y \in D : y = 0  OBVIOUS
  <2> QED  BY <2>1, <2>2
<1>2. ASSUME NEW k \in Nat, k \in T PROVE k + 1 \in T
  <2> SUFFICES ASSUME NEW D \in SUBSET (0 .. k + 1), D # {}
               PROVE  \E x \in D : \A y \in D : x >= y
    OBVIOUS
  <2>1. CASE k + 1 \in D
    <3>1. \A y \in D : k + 1 >= y  OBVIOUS
    <3> QED  BY <2>1, <3>1
  <2>2. CASE k + 1 \notin D
    <3>1. D \in SUBSET (0 .. k)
      <4>1. \A y \in D : y \in 0 .. k  BY <2>2
      <4> QED  BY <4>1
    <3> QED  BY <1>2, <3>1
  <2> QED  BY <2>1, <2>2
<1>3. Nat \subseteq T
  <2> HIDE DEF T
  <2> QED  BY <1>1, <1>2, SetInduction
<1>4. \E x \in S : \A y \in S : x >= y  BY <1>3
<1> QED  BY <1>4 DEF Max

\* The depth of a row is the number of its ancestors.
LEMMA RowDepthIs ==
  ASSUME NEW t \in Parents, NEW r \in RowsOf(t)
  PROVE  /\ RowDepth(t, r) = Depth(t, r) /\ Depth(t, r) \in Nat /\ r \in Homes
         /\ r \in Level(t, Depth(t, r))
<1>1. PICK k \in Levels : r \in Level(t, k)  BY DEF RowsOf
<1>2. /\ RowDepth(t, r) \in Levels /\ r \in Level(t, RowDepth(t, r))  BY <1>1 DEF RowDepth
<1>3. RowDepth(t, r) \in Nat  BY <1>2, NodesAreFinite DEF Levels
<1>4. Depth(t, r) = RowDepth(t, r)  BY <1>2, <1>3, AncestorsAreLevels
<1>5. Level(t, RowDepth(t, r)) \subseteq Homes  BY <1>3, LevelIs
<1> QED  BY <1>2, <1>3, <1>4, <1>5

\* Every level there is is counted.
LEMMA LevelsAreRows ==
  ASSUME NEW t \in Parents, NEW k \in Nat, NEW r \in Level(t, k)
  PROVE  k \in Levels /\ r \in RowsOf(t) /\ RowDepth(t, r) = k
<1>1. Level(t, k) \subseteq Homes  BY LevelIs
<1>2. r \in Homes /\ r \in Nodes \cup {Root}  BY <1>1 DEF Homes, Nodes
<1>3. Ancestors(t, r) \in SUBSET Folders  BY <1>2, ChainsAreFolders DEF Ancestors
<1>4. Cardinality(Ancestors(t, r)) <= Cardinality(Folders)
  BY <1>3, NodesAreFinite, FS_Subset
<1>5. Depth(t, r) = k  BY AncestorsAreLevels
<1>6. k \in Levels  BY <1>4, <1>5, NodesAreFinite DEF Levels, Depth
<1>7. r \in RowsOf(t)  BY <1>6 DEF RowsOf
<1> QED  BY <1>5, <1>6, <1>7, RowDepthIs

\* A folder one level below a row: the row's ancestors and itself.
LEMMA RowAncestors ==
  ASSUME NEW t \in Parents, NEW k \in Nat, NEW x \in Folders, t[x] \in Level(t, k)
  PROVE  /\ x \in Level(t, k + 1) /\ t[x] # None
         /\ Ancestors(t, x) = Ancestors(t, t[x]) \cup {x} /\ x \notin Ancestors(t, t[x])
<1>1. x \in Level(t, k + 1) /\ Level(t, k) \subseteq Homes  BY LevelIs
<1>2. x \in Nodes /\ t[x] \in Homes /\ t[x] # None  BY <1>1, NodesAreFinite DEF Homes, Nodes
<1>3. CASE t[x] = Root
  <2>1. Chain(t, t[x]) = {}  BY <1>3, ChainOf
  <2>2. Chain(t, x) = {x}  BY <1>2, <1>3, ChainOf, NodesAreFinite
  <2> QED  BY <1>1, <1>2, <2>1, <2>2 DEF Ancestors
<1>4. CASE t[x] # Root
  <2>1. t[x] \in Folders  BY <1>2, <1>4 DEF Homes
  <2>2. Chain(t, x) = {x} \cup Chain(t, t[x])  BY <1>2, <2>1, ChainOf
  <2>3. x \notin Chain(t, t[x])
    <3> SUFFICES ASSUME x \in Chain(t, t[x]) PROVE FALSE  OBVIOUS
    <3>1. PICK j \in 1 .. k : x \in Level(t, j)  BY AncestorsAreLevels
    <3>2. j \in Nat /\ k + 1 \in Nat /\ j # k + 1  OBVIOUS
    <3> QED  BY <1>1, <3>1, <3>2, LevelsDiffer
  <2> QED  BY <1>1, <1>2, <2>2, <2>3 DEF Ancestors
<1> QED  BY <1>3, <1>4

\* The folders i levels below f.
Under(t, f, i) == Times(Down(t), {f}, i)

\* They have i + 1 ancestors in the folder.
LEMMA UnderIs ==
  ASSUME NEW t \in Parents, NEW k \in Nat, NEW f \in Folders, f \in Level(t, k),
         NEW i \in Nat, NEW m \in Under(t, f, i)
  PROVE  /\ m \in Folders /\ m \in Level(t, k + i) /\ m \in Subtree(t, f)
         /\ Cardinality(Ancestors(t, m) \cap Subtree(t, f)) = i + 1
<1> DEFINE Sub == Subtree(t, f)
           Fine(n) == \A x \in Under(t, f, n) :
             /\ x \in Folders /\ x \in Level(t, k + n) /\ x \in Sub
             /\ Cardinality(Ancestors(t, x) \cap Sub) = n + 1
           T == {n \in Nat : Fine(n)}
<1>0. /\ Under(t, f, 0) = {f}
      /\ \A n \in Nat : Under(t, f, n + 1) = {x \in Folders : t[x] \in Under(t, f, n)}
  <2>1. {f} \in SUBSET Homes  BY DEF Homes
  <2>2. Descend(t, {f})  BY <2>1, LevelsBelow
  <2> QED  BY <2>2 DEF Under, Descend
<1>f. f \in Nodes /\ k # 0
  <2>1. Level(t, 0) = {Root}  BY LevelIs
  <2> QED  BY <2>1, NodesAreFinite DEF Nodes
<1>1. 0 \in T
  <2>1. k - 1 \in Nat /\ (k - 1) + 1 = k  BY <1>f
  <2>2. f \in Level(t, (k - 1) + 1)  BY <2>1
  <2>3. t[f] \in Level(t, k - 1)  BY <2>1, <2>2, LevelIs
  <2>4. /\ Ancestors(t, f) = Ancestors(t, t[f]) \cup {f} /\ f \notin Ancestors(t, t[f])
    BY <2>1, <2>3, RowAncestors
  <2>5. f \in Sub  BY <1>f, <2>4 DEF Subtree
  <2>6. ASSUME NEW x \in Ancestors(t, t[f]), x \in Sub PROVE FALSE
    <3>1. PICK j \in 1 .. k - 1 : x \in Level(t, j)
      BY <2>1, <2>3, AncestorsAreLevels DEF Ancestors
    <3>2. f \in Chain(t, x)  BY <2>6 DEF Subtree, Ancestors
    <3>3. PICK h \in 1 .. j : f \in Level(t, h)  BY <3>1, <3>2, AncestorsAreLevels
    <3>4. h \in Nat /\ h # k  OBVIOUS
    <3> QED  BY <3>3, <3>4, LevelsDiffer
  <2>7. Ancestors(t, f) \cap Sub = {f}  BY <2>4, <2>5, <2>6
  <2>8. Cardinality(Ancestors(t, f) \cap Sub) = 0 + 1  BY <2>7, FS_Singleton
  <2>9. k + 0 = k  OBVIOUS
  <2> QED  BY <1>0, <2>5, <2>8, <2>9
<1>2. ASSUME NEW n \in Nat, n \in T PROVE n + 1 \in T
  <2> SUFFICES ASSUME NEW x \in Under(t, f, n + 1)
               PROVE  /\ x \in Folders /\ x \in Level(t, k + (n + 1)) /\ x \in Sub
                      /\ Cardinality(Ancestors(t, x) \cap Sub) = (n + 1) + 1
    OBVIOUS
  <2>1. x \in Folders /\ t[x] \in Under(t, f, n)  BY <1>0
  <2>2. /\ t[x] \in Folders /\ t[x] \in Level(t, k + n) /\ t[x] \in Sub
        /\ Cardinality(Ancestors(t, t[x]) \cap Sub) = n + 1
    BY <1>2, <2>1
  <2>3. k + n \in Nat /\ (k + n) + 1 = k + (n + 1)  OBVIOUS
  <2>4. /\ x \in Level(t, (k + n) + 1)
        /\ Ancestors(t, x) = Ancestors(t, t[x]) \cup {x} /\ x \notin Ancestors(t, t[x])
    BY <2>1, <2>2, <2>3, RowAncestors
  <2>5. x \in Sub  BY <2>1, <2>2, <2>4 DEF Subtree, Nodes
  <2>6. Ancestors(t, x) \cap Sub = (Ancestors(t, t[x]) \cap Sub) \cup {x}
        /\ x \notin Ancestors(t, t[x]) \cap Sub
    BY <2>4, <2>5
  <2>7. IsFiniteSet(Ancestors(t, t[x]) \cap Sub)
    <3>1. IsFiniteSet(Ancestors(t, t[x]))  BY <2>2, ChainsAreFolders DEF Nodes
    <3> QED  BY <3>1, FS_Intersection
  <2>8. Cardinality(Ancestors(t, x) \cap Sub) = Cardinality(Ancestors(t, t[x]) \cap Sub) + 1
    <3> DEFINE A == Ancestors(t, t[x]) \cap Sub
    <3>1. IsFiniteSet(A) /\ x \notin A /\ Ancestors(t, x) \cap Sub = A \cup {x}  BY <2>6, <2>7
    <3> HIDE DEF A
    <3>2. Cardinality(A \cup {x}) = Cardinality(A) + 1  BY <3>1, FS_AddElement
    <3> QED  BY <3>1, <3>2 DEF A
  <2> QED  BY <2>1, <2>2, <2>3, <2>4, <2>5, <2>8
<1>3. Nat \subseteq T
  <2> HIDE DEF T
  <2> QED  BY <1>1, <1>2, SetInduction
<1>4. i \in T  BY <1>3
<1> QED  BY <1>4

\* A folder in the folder is some levels below it.
LEMMA SubtreeIsUnder ==
  ASSUME NEW t \in Parents, NEW f \in Folders, NEW m \in Subtree(t, f) \cap Folders
  PROVE  \E i \in Nat : m \in Under(t, f, i)
<1>1. /\ Under(t, f, 0) = {f}
      /\ \A n \in Nat : Under(t, f, n + 1) = {x \in Folders : t[x] \in Under(t, f, n)}
  <2>1. {f} \in SUBSET Homes  BY DEF Homes
  <2>2. Descend(t, {f})  BY <2>1, LevelsBelow
  <2> QED  BY <2>2 DEF Under, Descend
<1> DEFINE W == {x \in Folders : \A i \in Nat : x \notin Under(t, f, i)}
<1>2. Closed(t, W)
  <2> SUFFICES ASSUME NEW x \in W, t[x] \in Folders, NEW i \in Nat, t[x] \in Under(t, f, i)
               PROVE  FALSE
    BY DEF Closed
  <2>1. x \in Under(t, f, i + 1)  BY <1>1
  <2> QED  BY <2>1
<1>3. SUFFICES ASSUME m \in W PROVE FALSE  OBVIOUS
<1>4. m \in Nodes \cup {Root} /\ f \in Chain(t, m)  BY DEF Subtree, Ancestors, Nodes
<1>5. {m} \ {Root} \subseteq W  BY <1>3
<1> HIDE DEF W
<1>6. Chain(t, m) \subseteq W  BY <1>2, <1>4, <1>5, ChainIs
<1>7. f \in W /\ 0 \in Nat  BY <1>4, <1>6
<1> QED  BY <1>1, <1>7 DEF W

\* computeSubtreeMaxDepth and SubtreeMaxDepth.
LEMMA SubtreeDepthsAgree ==
  ASSUME NEW t \in Parents, NEW f \in RowsOf(t) \ {Root}
  PROVE  /\ RowSubtreeDepth(t, f) = SubtreeMaxDepth(t, f) /\ SubtreeMaxDepth(t, f) \in Nat
         /\ \E m \in RowsOf(t) : RowDepth(t, m) >= 1 + RowSubtreeDepth(t, f)
<1> DEFINE A == {k \in Levels : Under(t, f, k) # {}}
           B == {0} \cup {Cardinality(Ancestors(t, m) \cap Subtree(t, f)) - 1 :
                            m \in Subtree(t, f) \cap Folders}
           d == Depth(t, f)
<1>1. f \in Folders /\ d \in Nat /\ f \in Level(t, d) /\ d # 0
  <2>1. d \in Nat /\ f \in Homes /\ f \in Level(t, d)  BY RowDepthIs
  <2>2. Level(t, 0) = {Root}  BY LevelIs
  <2> QED  BY <2>1, <2>2 DEF Homes
<1> HIDE DEF d
<1>2. ASSUME NEW i \in Nat, NEW m \in Under(t, f, i)
      PROVE  /\ m \in Folders /\ m \in Subtree(t, f) /\ m \in RowsOf(t) /\ RowDepth(t, m) = d + i
             /\ Cardinality(Ancestors(t, m) \cap Subtree(t, f)) - 1 = i
             /\ i \in Levels
  <2>1. /\ m \in Folders /\ m \in Level(t, d + i) /\ m \in Subtree(t, f)
        /\ Cardinality(Ancestors(t, m) \cap Subtree(t, f)) = i + 1
    BY <1>1, UnderIs
  <2>2. d + i \in Nat  BY <1>1
  <2>3. d + i \in Levels /\ m \in RowsOf(t) /\ RowDepth(t, m) = d + i
    BY <2>1, <2>2, LevelsAreRows
  <2>4. i \in Levels  BY <1>1, <2>3, NodesAreFinite DEF Levels
  <2> QED  BY <2>1, <2>3, <2>4
<1>3. f \in Under(t, f, 0)
  <2>1. {f} \in SUBSET Homes  BY <1>1 DEF Homes
  <2>2. Descend(t, {f})  BY <2>1, LevelsBelow
  <2> QED  BY <2>2 DEF Under, Descend
<1>4. 0 \in A  BY <1>2, <1>3
<1>5. A = B
  <2>1. ASSUME NEW k \in A PROVE k \in B
    <3>1. k \in Nat  BY NodesAreFinite DEF Levels
    <3>2. PICK m : m \in Under(t, f, k)  OBVIOUS
    <3>3. /\ m \in Subtree(t, f) \cap Folders
          /\ k = Cardinality(Ancestors(t, m) \cap Subtree(t, f)) - 1
      BY <1>2, <3>1, <3>2
    <3> QED  BY <3>3
  <2>2. ASSUME NEW k \in B PROVE k \in A
    <3>1. CASE k = 0  BY <1>4, <3>1
    <3>2. CASE k # 0
      <4>1. PICK m \in Subtree(t, f) \cap Folders :
              k = Cardinality(Ancestors(t, m) \cap Subtree(t, f)) - 1
        BY <3>2
      <4>2. PICK i \in Nat : m \in Under(t, f, i)  BY <1>1, SubtreeIsUnder
      <4> QED  BY <1>2, <4>1, <4>2
    <3> QED  BY <3>1, <3>2
  <2> QED  BY <2>1, <2>2
<1>6. RowSubtreeDepth(t, f) = Max(A) /\ SubtreeMaxDepth(t, f) = Max(A)
  <2>1. RowSubtreeDepth(t, f) = Max(A)  BY DEF RowSubtreeDepth, Under
  <2>2. SubtreeMaxDepth(t, f) = Max(B)  BY DEF SubtreeMaxDepth
  <2> QED  BY <1>5, <2>1, <2>2
<1>7. Max(A) \in A
  <2>1. A \in SUBSET (0 .. Cardinality(Folders)) /\ A # {}  BY <1>4 DEF Levels
  <2> HIDE DEF A
  <2> QED  BY <2>1, NodesAreFinite, MaxIsIn
<1>8. PICK m : m \in Under(t, f, Max(A))  BY <1>7
<1>9. Max(A) \in Nat  BY <1>7, NodesAreFinite DEF Levels
<1>10. m \in RowsOf(t) /\ RowDepth(t, m) = d + Max(A)  BY <1>2, <1>8, <1>9
<1> HIDE DEF A
<1>11. RowDepth(t, m) >= 1 + Max(A)  BY <1>1, <1>9, <1>10
<1> QED  BY <1>6, <1>9, <1>10, <1>11

-----------------------------------------------------------------------------
(* What a change of one parent does to the chains. *)

\* A chain depends on the parents in it only.
LEMMA ChainsAreLocal ==
  ASSUME NEW p \in Parents, NEW q \in Parents, NEW n \in Nodes \cup {Root},
         \A x \in Chain(p, n) : q[x] = p[x]
  PROVE  Chain(q, n) = Chain(p, n) /\ Ancestors(q, n) = Ancestors(p, n)
<1>1. {n} \ {Root} \subseteq Chain(p, n) /\ Closed(p, Chain(p, n))  BY ChainIs
<1>2. {n} \ {Root} \subseteq Chain(q, n) /\ Closed(q, Chain(q, n))  BY ChainIs
<1>3. Closed(q, Chain(p, n))  BY <1>1 DEF Closed
<1>4. Chain(q, n) \subseteq Chain(p, n)  BY <1>1, <1>3, ChainIs
<1>5. Closed(p, Chain(q, n))  BY <1>2, <1>4 DEF Closed
<1>6. Chain(p, n) \subseteq Chain(q, n)  BY <1>2, <1>5, ChainIs
<1>7. Chain(q, n) = Chain(p, n)  BY <1>4, <1>6
<1> QED  BY <1>7 DEF Ancestors

\* A folder is on a cycle when it is in the chain of its parent.
LEMMA OnCycleIs ==
  ASSUME NEW p \in Parents, NEW n \in Nodes
  PROVE  OnCycle(p, n) <=> p[n] \in Folders /\ n \in Chain(p, p[n])
<1>1. p[n] \in Folders => p[n] # None  BY NodesAreFinite
<1> QED  BY <1>1 DEF OnCycle, Ancestors

\* Rows are taken out.
Cut(p, q) == \A x \in Nodes : q[x] \in {p[x], None}

\* Nothing hangs from more.
LEMMA CutChains ==
  ASSUME NEW p \in Parents, NEW q \in Parents, Cut(p, q), NEW n \in Nodes \cup {Root}
  PROVE  /\ Chain(q, n) \subseteq Chain(p, n) /\ Ancestors(q, n) \subseteq Ancestors(p, n)
         /\ Depth(q, n) <= Depth(p, n) /\ Subtree(q, n) \subseteq Subtree(p, n)
<1>0. ASSUME NEW m \in Nodes \cup {Root}
      PROVE  Chain(q, m) \subseteq Chain(p, m) /\ Ancestors(q, m) \subseteq Ancestors(p, m)
  <2>1. /\ {m} \ {Root} \subseteq Chain(p, m) /\ Closed(p, Chain(p, m))
        /\ Chain(p, m) \subseteq Nodes
    BY ChainIs
  <2>2. None \notin Folders  BY NodesAreFinite
  <2>3. Closed(q, Chain(p, m))  BY <2>1, <2>2 DEF Closed, Cut
  <2>4. Chain(q, m) \subseteq Chain(p, m)  BY <2>1, <2>3, ChainIs
  <2> QED  BY <2>1, <2>4 DEF Ancestors, Cut
<1>1. Chain(q, n) \subseteq Chain(p, n) /\ Ancestors(q, n) \subseteq Ancestors(p, n)  BY <1>0
<1>2. Depth(q, n) <= Depth(p, n)
  <2>1. IsFiniteSet(Ancestors(p, n)) /\ Ancestors(q, n) \in SUBSET Ancestors(p, n)
    BY <1>1, ChainsAreFolders
  <2> QED  BY <2>1, FS_Subset DEF Depth
<1>3. Subtree(q, n) \subseteq Subtree(p, n)  BY <1>0 DEF Subtree
<1> QED  BY <1>1, <1>2, <1>3

\* No cycle comes of it.
LEMMA CutIsAcyclic ==
  ASSUME NEW p \in Parents, NEW q \in Parents, Cut(p, q), Acyclic(p)
  PROVE  Acyclic(q)
<1> SUFFICES ASSUME NEW f \in Folders, OnCycle(q, f) PROVE FALSE  BY DEF Acyclic
<1>1. f \in Nodes /\ None \notin Folders  BY NodesAreFinite DEF Nodes
<1>2. q[f] \in Folders /\ f \in Chain(q, q[f])  BY <1>1, OnCycleIs
<1>3. q[f] = p[f] /\ q[f] \in Nodes \cup {Root}  BY <1>1, <1>2 DEF Cut, Nodes
<1>4. f \in Chain(p, p[f])  BY <1>2, <1>3, CutChains
<1> QED  BY <1>1, <1>2, <1>3, <1>4, OnCycleIs DEF Acyclic

\* Nor does a folder hang deeper.
LEMMA CutIsShallow ==
  ASSUME NEW p \in Parents, NEW q \in Parents, Cut(p, q), DepthsFit(p)
  PROVE  DepthsFit(q)
<1> SUFFICES ASSUME NEW f \in Folders PROVE Depth(q, f) <= MaxFolderDepth  BY DEF DepthsFit
<1>1. f \in Nodes \cup {Root}  BY DEF Nodes
<1>2. Depth(q, f) <= Depth(p, f) /\ Depth(p, f) \in Nat /\ Depth(q, f) \in Nat
  BY <1>1, CutChains, ChainsAreFolders
<1>3. Depth(p, f) <= MaxFolderDepth /\ MaxFolderDepth \in Nat  BY TreeAssumption DEF DepthsFit
<1> QED  BY <1>2, <1>3

\* Row n is put under to, which does not hang from it.
Linked(p, q, n, to) == q = [p EXCEPT ![n] = to] /\ n \notin Chain(p, to)

\* What does not hang from n keeps its chain.
LEMMA LinkKeeps ==
  ASSUME NEW p \in Parents, NEW n \in Nodes, NEW to \in Homes, NEW q, Linked(p, q, n, to),
         NEW m \in Nodes \cup {Root}, n \notin Chain(p, m)
  PROVE  Chain(q, m) = Chain(p, m) /\ Ancestors(q, m) = Ancestors(p, m)
<1>1. q \in Parents /\ \A x \in Nodes : x # n => q[x] = p[x]  BY DEF Linked, Parents, Homes
<1>2. Chain(p, m) \subseteq Nodes  BY ChainIs
<1>3. \A x \in Chain(p, m) : q[x] = p[x]  BY <1>1, <1>2
<1> QED  BY <1>1, <1>3, ChainsAreLocal

\* What hangs from n keeps the part of its chain up to n, and hangs from what to does.
LEMMA LinkMoves ==
  ASSUME NEW p \in Parents, NEW n \in Nodes, NEW to \in Homes, NEW q, Linked(p, q, n, to),
         NEW m \in Nodes, n \in Chain(p, m)
  PROVE  Chain(q, m) \subseteq {x \in Chain(p, m) : n \in Chain(p, x)} \cup Chain(p, to)
<1> DEFINE S == {x \in Chain(p, m) : n \in Chain(p, x)} \cup Chain(p, to)
<1>1. q \in Parents /\ q[n] = to /\ \A x \in Nodes : x # n => q[x] = p[x]
  BY DEF Linked, Parents, Homes
<1>2. /\ m \in Chain(p, m) /\ Chain(p, m) \subseteq Nodes /\ Closed(p, Chain(p, m))
  BY ChainOf, ChainIs
<1>3. to \in Nodes \cup {Root} /\ Chain(p, to) \subseteq Nodes /\ Closed(p, Chain(p, to))
      /\ {to} \ {Root} \subseteq Chain(p, to)
  BY ChainIs DEF Homes, Nodes
<1>4. m \in S  BY <1>2
<1>5. ASSUME NEW x \in S, q[x] \in Folders PROVE q[x] \in S
  <2>1. CASE x = n
    <3>1. q[x] = to /\ to # Root  BY <1>1, <1>5, <2>1, NodesAreFinite
    <3> QED  BY <1>3, <3>1
  <2>2. CASE x # n
    <3>1. x \in Nodes  BY <1>2, <1>3
    <3>2. q[x] = p[x]  BY <1>1, <2>2, <3>1
    <3>3. CASE x \in Chain(p, to)  BY <1>3, <1>5, <3>2, <3>3 DEF Closed
    <3>4. CASE x \notin Chain(p, to)
      <4>1. x \in Chain(p, m) /\ n \in Chain(p, x)  BY <3>4
      <4>2. p[x] \in Chain(p, m)  BY <1>2, <1>5, <3>2, <4>1 DEF Closed
      <4>3. Chain(p, x) = {x} \cup Chain(p, p[x])  BY <1>5, <3>1, <3>2, ChainOf
      <4>4. n \in Chain(p, p[x])  BY <2>2, <4>1, <4>3
      <4> QED  BY <3>2, <4>2, <4>4
    <3> QED  BY <3>3, <3>4
  <2> QED  BY <2>1, <2>2
<1>6. Closed(q, S)
  <2> HIDE DEF S
  <2> QED  BY <1>5 DEF Closed
<1>7. {m} \ {Root} \subseteq S  BY <1>4
<1> HIDE DEF S
<1>8. Chain(q, m) \subseteq S  BY <1>1, <1>6, <1>7, ChainIs
<1> QED  BY <1>8 DEF S

\* No cycle comes of it.
LEMMA LinkIsAcyclic ==
  ASSUME NEW p \in Parents, NEW n \in Nodes, NEW to \in Homes, NEW q, Linked(p, q, n, to),
         Acyclic(p)
  PROVE  Acyclic(q)
<1> SUFFICES ASSUME NEW f \in Folders, OnCycle(q, f) PROVE FALSE  BY DEF Acyclic
<1>1. /\ q \in Parents /\ q[n] = to /\ \A x \in Nodes : x # n => q[x] = p[x]
      /\ n \notin Chain(p, to)
  BY DEF Linked, Parents, Homes
<1>2. f \in Nodes /\ ~ OnCycle(p, f)  BY DEF Acyclic, Nodes
<1>3. q[f] \in Folders /\ f \in Chain(q, q[f]) /\ q[f] \in Nodes  BY <1>1, <1>2, OnCycleIs DEF Nodes
<1>4. CASE f = n
  <2>1. to \in Nodes \cup {Root} /\ q[f] = to  BY <1>1, <1>4 DEF Homes, Nodes
  <2>2. Chain(q, to) = Chain(p, to)  BY <1>1, <2>1, LinkKeeps
  <2> QED  BY <1>1, <1>3, <1>4, <2>1, <2>2
<1>5. CASE f # n
  <2>1. q[f] = p[f]  BY <1>1, <1>2, <1>5
  <2>2. f \notin Chain(p, p[f])  BY <1>2, <1>3, <2>1, OnCycleIs
  <2>3. CASE n \notin Chain(p, p[f])
    <3>1. Chain(q, p[f]) = Chain(p, p[f])  BY <1>3, <2>1, <2>3, LinkKeeps
    <3> QED  BY <1>3, <2>1, <2>2, <3>1
  <2>4. CASE n \in Chain(p, p[f])
    <3>1. Chain(q, p[f]) \subseteq {x \in Chain(p, p[f]) : n \in Chain(p, x)} \cup Chain(p, to)
      BY <1>3, <2>1, <2>4, LinkMoves
    <3>2. f \in Chain(p, to)  BY <1>3, <2>1, <2>2, <3>1
    <3>3. to \in Nodes \cup {Root}  BY DEF Homes, Nodes
    <3>4. Chain(p, f) \subseteq Chain(p, to)  BY <3>2, <3>3, ChainsNest
    <3>5. Chain(p, f) = {f} \cup Chain(p, p[f])  BY <1>2, <1>3, <2>1, ChainOf
    <3> QED  BY <1>1, <2>4, <3>4, <3>5
  <2> QED  BY <2>3, <2>4
<1> QED  BY <1>4, <1>5

\* What hangs from n afterwards hangs as deep below it as before, below what to does.
LEMMA LinkDepth ==
  ASSUME NEW p \in Parents, NEW n \in Nodes, NEW to \in Homes, NEW q, Linked(p, q, n, to),
         p[n] # None, NEW m \in Nodes, n \in Chain(p, m)
  PROVE  /\ m \in Subtree(p, n)
         /\ Depth(q, m) <= Cardinality(Ancestors(p, m) \cap Subtree(p, n)) + Depth(p, to)
<1> DEFINE A == Ancestors(p, m) \cap Subtree(p, n)
           B == Ancestors(p, to)
<1>1. /\ q \in Parents /\ q[n] = to /\ \A x \in Nodes : x # n => q[x] = p[x]
      /\ n \notin Chain(p, to) /\ to \in Nodes \cup {Root}
  BY DEF Linked, Parents, Homes, Nodes
<1>2. m \in Subtree(p, n)  BY DEF Subtree, Ancestors
<1>3. Chain(q, m) \subseteq {x \in Chain(p, m) : n \in Chain(p, x)} \cup Chain(p, to)
  BY LinkMoves
<1>4. Chain(p, m) \subseteq Nodes /\ Chain(p, to) \subseteq Nodes  BY <1>1, ChainIs
<1>5. ASSUME NEW x \in Ancestors(q, m) PROVE x \in A \cup B
  <2>1. x \in Chain(q, m) /\ q[x] # None  BY DEF Ancestors
  <2>2. CASE x \in Chain(p, to)
    <3>1. q[x] = p[x]  BY <1>1, <1>4, <2>2
    <3> QED  BY <2>1, <2>2, <3>1 DEF Ancestors
  <2>3. CASE x \notin Chain(p, to)
    <3>1. x \in Chain(p, m) /\ n \in Chain(p, x) /\ x \in Nodes  BY <1>3, <1>4, <2>1, <2>3
    <3>2. p[x] # None  BY <1>1, <2>1, <3>1
    <3> QED  BY <3>1, <3>2 DEF Ancestors, Subtree
  <2> QED  BY <2>2, <2>3
<1>6. IsFiniteSet(A) /\ IsFiniteSet(B)
  <2>1. IsFiniteSet(Ancestors(p, m)) /\ IsFiniteSet(B)  BY <1>1, ChainsAreFolders
  <2> QED  BY <2>1, FS_Intersection
<1> HIDE DEF A, B
<1>7. IsFiniteSet(A \cup B) /\ Cardinality(A \cup B) <= Cardinality(A) + Cardinality(B)
  <2>1. /\ IsFiniteSet(A \cup B) /\ IsFiniteSet(A \cap B)
        /\ Cardinality(A \cup B) = Cardinality(A) + Cardinality(B) - Cardinality(A \cap B)
    BY <1>6, FS_Union, FS_Intersection
  <2>2. Cardinality(A \cap B) \in Nat /\ Cardinality(A) \in Nat /\ Cardinality(B) \in Nat
    BY <1>6, <2>1, FS_CardinalityType
  <2> QED  BY <2>1, <2>2
<1>8. Cardinality(Ancestors(q, m)) <= Cardinality(A \cup B)
  <2>1. Ancestors(q, m) \in SUBSET (A \cup B)  BY <1>5
  <2> QED  BY <1>7, <2>1, FS_Subset
<1>9. /\ Cardinality(Ancestors(q, m)) \in Nat /\ Cardinality(A \cup B) \in Nat
      /\ Cardinality(A) \in Nat /\ Cardinality(B) \in Nat
  <2>1. Depth(q, m) \in Nat  BY <1>1, ChainsAreFolders
  <2> QED  BY <1>6, <1>7, <2>1, FS_CardinalityType DEF Depth
<1>10. Cardinality(Ancestors(q, m)) <= Cardinality(A) + Cardinality(B)
  BY <1>7, <1>8, <1>9
<1> QED  BY <1>2, <1>10 DEF A, B, Depth

\* A chain of ids given out holds no other id; a node that is not linked is its own chain.
LEMMA ChainsAreKnown ==
  ASSUME NEW p \in Parents, NEW S, RefersTo(p, S), NEW n \in Nodes \cup {Root}
  PROVE  /\ n \in S \cup {Root} => Chain(p, n) \subseteq S
         /\ n \in Nodes /\ p[n] \notin Folders => Chain(p, n) = {n}
<1>1. Chain(p, n) \subseteq Nodes  BY ChainIs
<1>2. ASSUME n \in S \cup {Root} PROVE Chain(p, n) \subseteq S
  <2> DEFINE D == S \cap Nodes
  <2>1. {n} \ {Root} \subseteq D  BY <1>2
  <2>2. Closed(p, D)
    <3> SUFFICES ASSUME NEW x \in D, p[x] \in Folders PROVE p[x] \in D  BY DEF Closed
    <3>1. p[x] # None /\ p[x] # Root /\ p[x] \in Nodes  BY NodesAreFinite DEF Nodes
    <3> QED  BY <3>1 DEF RefersTo
  <2> HIDE DEF D
  <2>3. Chain(p, n) \subseteq D  BY <2>1, <2>2, ChainIs
  <2> QED  BY <2>3 DEF D
<1>3. n \in Nodes /\ p[n] \notin Folders => Chain(p, n) = {n}  BY ChainOf
<1> QED  BY <1>2, <1>3
-----------------------------------------------------------------------------
(* What one step does to the rows, and to the other operations under way. *)

NamesOf == [Folders -> Names \cup {None}]

\* An operation that is over, or reads lists only.
Rests(r) == \/ r = NewCall
            \/ /\ r.pc = "reload" /\ r.todo \in Todos
               /\ r.to = None /\ r.node = None /\ r.list = <<>>

\* Such an operation fits any rows.
LEMMA RestFits ==
  ASSUME NEW r, Rests(r), NEW p, NEW nm, NEW S, NEW R
  PROVE  CallFits(r, p, nm, S, R)
<1>1. /\ r.pc \in {"idle", "reload"} /\ (r.pc = "idle" => r = NewCall)
      /\ (r.pc = "reload" => r.todo \in Todos)
      /\ r.to = None /\ r.node = None /\ r.list = <<>>
  BY DEF Rests, NewCall
<1>2. ~ Busy(r) /\ Len(r.list) = 0  BY <1>1 DEF Busy
<1>3. Local(r)  BY <1>1, <1>2 DEF Local
<1>4. Known(r, S)  BY <1>1, <1>2 DEF Known
<1>5. Comes(r, p, S) /\ MakesNoCycle(r, p) /\ StaysShallow(r, p)
  BY <1>1 DEF Comes, Uploads, MakesNoCycle, StaysShallow
<1>6. StaysDistinct(r, p, nm) /\ StaysWhole(r, p)
  BY <1>1, <1>2 DEF StaysDistinct, StaysWhole
<1> QED  BY <1>3, <1>4, <1>5, <1>6 DEF CallFits

\* More races and more ids excuse more.
LEMMA FitsGrow ==
  ASSUME NEW p, NEW nm, NEW S, NEW R, NEW S2, NEW R2, S \subseteq S2, R \subseteq R2
  PROVE  /\ ForestFits(p, nm, S, R) => ForestFits(p, nm, S2, R2)
         /\ \A r : CallFits(r, p, nm, S, R) => CallFits(r, p, nm, S2, R2)
<1>1. /\ NoMoves(R2) => NoMoves(R)  BY DEF NoMoves
<1>2. /\ Shallow(R2) => Shallow(R)  BY DEF Shallow, NoMoves
<1>3. /\ NamesRace(R) => NamesRace(R2)  BY DEF NamesRace
<1>4. /\ OrphanRace(R) => OrphanRace(R2)  BY DEF OrphanRace
<1>5. RefersTo(p, S) => RefersTo(p, S2)  BY DEF RefersTo
<1>6. ForestFits(p, nm, S, R) => ForestFits(p, nm, S2, R2)
  BY <1>1, <1>2, <1>3, <1>4, <1>5 DEF ForestFits
<1>7. ASSUME NEW r, CallFits(r, p, nm, S, R) PROVE CallFits(r, p, nm, S2, R2)
  <2>1. Known(r, S) => Known(r, S2)  BY DEF Known
  <2>2. Comes(r, p, S) => Comes(r, p, S2)  BY DEF Comes
  <2> QED  BY <1>1, <1>2, <1>3, <1>4, <1>7, <2>1, <2>2 DEF CallFits
<1> QED  BY <1>6, <1>7

\* Two operations that are both under way are a race.
Met(r, s, R) == Busy(r) /\ Busy(s) => {r.op, s.op} \in R

\* What is known of an operation that is about to write.
LEMMA WriterIs ==
  ASSUME NEW p \in Parents, NEW nm \in NamesOf, NEW S \in SUBSET Nodes, NEW R,
         NEW s, CallFits(s, p, nm, S, R), s.pc = "write"
  PROVE  /\ Busy(s)
         /\ s.op \in {"folder", "move"} => s.to \in Homes /\ s.to \in S \cup {Root}
         /\ s.op \in {"move", "rename"} => s.node \in Folders /\ s.node \in S /\ s.node \in Nodes
         /\ s.op = "folder" => s.node = None /\ s.name \in Names
         /\ s.op = "rename" => s.name \in Names
<1>1. Busy(s) /\ Local(s) /\ Known(s, S)  BY DEF CallFits, Busy
<1>2. /\ s.op \in {"folder", "move"} => s.to \in Homes
      /\ s.op \in {"move", "rename"} => s.node \in Folders
      /\ s.op = "folder" => s.node = None /\ s.name \in Names
      /\ s.op = "rename" => s.name \in Names
  BY <1>1 DEF Local
<1>3. /\ s.to \in S \cup {Root, None} /\ s.node \in S \cup {None}  BY <1>1 DEF Known
<1>4. None \notin Homes /\ None \notin Folders  BY NodesAreFinite DEF Homes
<1> QED  BY <1>1, <1>2, <1>3, <1>4 DEF Nodes

\* q is p with a new folder f under to.
Inserted(p, q, f, to) ==
  /\ q \in Parents /\ q[f] = to /\ (\A x \in Nodes : x # f => q[x] = p[x])
  /\ p[f] = None /\ Linked(p, q, f, to) /\ f \in Nodes /\ to \in Nodes \cup {Root}
  /\ Depth(q, f) = Depth(p, to) + 1
  /\ \A m \in (Nodes \cup {Root}) \ {f} :
       Chain(q, m) = Chain(p, m) /\ Ancestors(q, m) = Ancestors(p, m)

\* A folder with an id nobody knows hangs one deeper, and the other chains are kept.
LEMMA InsertChains ==
  ASSUME NEW p \in Parents, NEW S \in SUBSET Nodes, RefersTo(p, S),
         NEW f \in Folders \ S, NEW to \in Homes, to \in S \cup {Root}
  PROVE  Inserted(p, [p EXCEPT ![f] = to], f, to)
<1> DEFINE q == [p EXCEPT ![f] = to]
<1>1. q \in Parents /\ q[f] = to /\ (\A x \in Nodes : x # f => q[x] = p[x])
      /\ f \in Nodes /\ to \in Nodes \cup {Root} /\ to # None
  BY NodesAreFinite DEF Parents, Nodes, Homes
<1>2. p[f] = None  BY <1>1 DEF RefersTo
<1>3. f \notin Chain(p, to)  BY <1>1, ChainsAreKnown
<1>4. Linked(p, q, f, to)  BY <1>3 DEF Linked
<1> HIDE DEF q
<1>5. ASSUME NEW m \in (Nodes \cup {Root}) \ {f} PROVE f \notin Chain(p, m)
  <2>1. CASE m \in S \cup {Root}  BY <2>1, ChainsAreKnown
  <2>2. CASE m \notin S \cup {Root}
    <3>1. m \in Nodes /\ p[m] = None  BY <2>2 DEF RefersTo
    <3>2. Chain(p, m) = {m}  BY <3>1, ChainsAreKnown, NodesAreFinite
    <3> QED  BY <3>2
  <2> QED  BY <2>1, <2>2
<1>6. ASSUME NEW m \in (Nodes \cup {Root}) \ {f}
      PROVE  Chain(q, m) = Chain(p, m) /\ Ancestors(q, m) = Ancestors(p, m)
  BY <1>4, <1>1, <1>5, LinkKeeps
<1>7. Chain(q, f) = Chain(q, to) \cup {f}
  <2>1. CASE to = Root
    <3>1. Chain(q, to) = {}  BY <1>1, <2>1, ChainOf
    <3>2. q[f] \notin Folders  BY <1>1, <2>1, NodesAreFinite
    <3>3. Chain(q, f) = {f}  BY <1>1, <3>2, ChainOf
    <3> QED  BY <3>1, <3>3
  <2>2. CASE to # Root
    <3>1. q[f] \in Folders  BY <1>1, <2>2 DEF Homes
    <3>2. Chain(q, f) = {f} \cup Chain(q, q[f])  BY <1>1, <3>1, ChainOf
    <3> QED  BY <1>1, <3>2
  <2> QED  BY <2>1, <2>2
<1>8. to # f
  <2>1. CASE to = Root  BY <2>1, NodesAreFinite
  <2>2. CASE to # Root  BY <2>2
  <2> QED  BY <2>1, <2>2
<1>9. Chain(q, to) = Chain(p, to) /\ Ancestors(q, to) = Ancestors(p, to)  BY <1>1, <1>6, <1>8
<1>10. Ancestors(q, f) = Ancestors(p, to) \cup {f} /\ f \notin Ancestors(p, to)
  <2>1. q[f] # None  BY <1>1
  <2>2. Ancestors(q, f) = Ancestors(q, to) \cup {f}  BY <1>7, <2>1 DEF Ancestors
  <2>3. f \notin Ancestors(p, to)  BY <1>3 DEF Ancestors
  <2> QED  BY <1>9, <2>2, <2>3
<1>11. Depth(q, f) = Depth(p, to) + 1
  <2>1. IsFiniteSet(Ancestors(p, to))  BY <1>1, ChainsAreFolders
  <2> QED  BY <1>10, <2>1, FS_AddElement DEF Depth
<1> QED  BY <1>1, <1>2, <1>4, <1>6, <1>11 DEF Inserted, q

\* CreateFolder adds a folder: the rows fit.
LEMMA InsertForest ==
  ASSUME NEW p \in Parents, NEW nm \in NamesOf, NEW S \in SUBSET Nodes, NEW R,
         NEW s, CallFits(s, p, nm, S, R), s.op = "folder", s.pc = "write",
         ForestFits(p, nm, S, R), NEW f \in Folders \ S
  PROVE  ForestFits([p EXCEPT ![f] = s.to], [nm EXCEPT ![f] = s.name], S \cup {f}, R)
<1> DEFINE q == [p EXCEPT ![f] = s.to]
           n2 == [nm EXCEPT ![f] = s.name]
<1>1. /\ Busy(s) /\ s.to \in Homes /\ s.to \in S \cup {Root} /\ s.node = None /\ s.name \in Names
  BY WriterIs
<1>2. RefersTo(p, S)  BY DEF ForestFits
<1>3. /\ q \in Parents /\ q[f] = s.to /\ (\A x \in Nodes : x # f => q[x] = p[x])
      /\ p[f] = None /\ Linked(p, q, f, s.to) /\ f \in Nodes /\ s.to \in Nodes \cup {Root}
      /\ Depth(q, f) = Depth(p, s.to) + 1
      /\ \A m \in (Nodes \cup {Root}) \ {f} :
           Chain(q, m) = Chain(p, m) /\ Ancestors(q, m) = Ancestors(p, m)
  <2>1. Inserted(p, q, f, s.to)  BY <1>1, <1>2, InsertChains
  <2> QED  BY <2>1 DEF Inserted
<1>4. n2[f] = s.name /\ (\A g \in Folders : g # f => n2[g] = nm[g])  BY DEF NamesOf
<1>5. s.name # None /\ s.to # None /\ None \notin Folders
  BY <1>1, NodesAreFinite DEF Homes
<1> HIDE DEF q, n2
<1>6. \A g \in Folders : n2[g] = None <=> q[g] = None
  BY <1>3, <1>4, <1>5 DEF ForestFits, Nodes
<1>7. RefersTo(q, S \cup {f})  BY <1>1, <1>2, <1>3 DEF RefersTo
<1>8. NoMoves(R) => Acyclic(q)
  BY <1>1, <1>3, LinkIsAcyclic DEF ForestFits
<1>9. ASSUME Shallow(R) PROVE DepthsFit(q)
  <2>1. DepthsFit(p)  BY <1>9 DEF ForestFits
  <2>2. Depth(p, s.to) + 1 <= MaxFolderDepth
    <3>1. StaysShallow(s, p)  BY <1>9 DEF CallFits
    <3> QED  BY <3>1 DEF StaysShallow
  <2>3. ASSUME NEW m \in Folders PROVE Depth(q, m) <= MaxFolderDepth
    <3>1. CASE m = f  BY <1>3, <2>2, <3>1
    <3>2. CASE m # f
      <4>1. Ancestors(q, m) = Ancestors(p, m)  BY <1>3, <3>2 DEF Nodes
      <4> QED  BY <2>1, <4>1 DEF DepthsFit, Depth
    <3> QED  BY <3>1, <3>2
  <2> QED  BY <2>3 DEF DepthsFit
<1>10. ASSUME ~ NamesRace(R) PROVE Distinct(q, n2)
  <2>1. Distinct(p, nm) /\ StaysDistinct(s, p, nm)  BY <1>10 DEF ForestFits, CallFits
  <2>2. \A g \in Folders : p[g] = s.to => nm[g] # s.name
    <3>1. \A g \in Folders : g # None  BY <1>5
    <3> QED  BY <1>1, <2>1, <3>1 DEF StaysDistinct, Naming
  <2> SUFFICES ASSUME NEW g \in Folders, NEW h \in Folders, g # h, q[g] # None, q[g] = q[h]
               PROVE  n2[g] # n2[h]
    BY DEF Distinct
  <2>3. g \in Nodes /\ h \in Nodes  BY DEF Nodes
  <2>4. CASE g = f  BY <1>3, <1>4, <2>2, <2>3, <2>4
  <2>5. CASE h = f  BY <1>3, <1>4, <2>2, <2>3, <2>5
  <2>6. CASE g # f /\ h # f  BY <1>3, <1>4, <2>1, <2>3, <2>6 DEF Distinct
  <2> QED  BY <2>4, <2>5, <2>6
<1>11. ASSUME ~ OrphanRace(R) PROVE Whole(q)
  <2>1. Whole(p) /\ StaysWhole(s, p)  BY <1>11 DEF ForestFits, CallFits
  <2>2. s.to = Root \/ p[s.to] # None  BY <1>1, <2>1 DEF StaysWhole, Adding
  <2> SUFFICES ASSUME NEW n \in Nodes, q[n] \in Folders PROVE q[q[n]] # None  BY DEF Whole
  <2>3. q[n] \in Nodes /\ q[n] # Root  BY NodesAreFinite DEF Nodes
  <2>4. CASE n = f  BY <1>3, <1>5, <2>2, <2>3, <2>4
  <2>5. CASE n # f  BY <1>3, <1>5, <2>1, <2>3, <2>5 DEF Whole
  <2> QED  BY <2>4, <2>5
<1> QED  BY <1>6, <1>7, <1>8, <1>9, <1>10, <1>11 DEF ForestFits, q, n2

\* CreateFolder adds a folder: another operation r fits.
LEMMA InsertOthers ==
  ASSUME NEW p \in Parents, NEW nm \in NamesOf, NEW S \in SUBSET Nodes, NEW R,
         NEW s, CallFits(s, p, nm, S, R), s.op = "folder", s.pc = "write",
         ForestFits(p, nm, S, R), NEW f \in Folders \ S,
         NEW r, CallFits(r, p, nm, S, R), Met(r, s, R)
  PROVE  CallFits(r, [p EXCEPT ![f] = s.to], [nm EXCEPT ![f] = s.name], S \cup {f}, R)
<1> DEFINE q == [p EXCEPT ![f] = s.to]
           n2 == [nm EXCEPT ![f] = s.name]
<1>1. /\ Busy(s) /\ s.to \in Homes /\ s.to \in S \cup {Root} /\ s.node = None /\ s.name \in Names
  BY WriterIs
<1>2. RefersTo(p, S) /\ Local(r) /\ Known(r, S) /\ Comes(r, p, S)  BY DEF ForestFits, CallFits
<1>3. /\ q \in Parents /\ q[f] = s.to /\ (\A x \in Nodes : x # f => q[x] = p[x])
      /\ f \in Nodes
      /\ \A m \in (Nodes \cup {Root}) \ {f} :
           Chain(q, m) = Chain(p, m) /\ Ancestors(q, m) = Ancestors(p, m)
  <2>1. Inserted(p, q, f, s.to)  BY <1>1, <1>2, InsertChains
  <2> QED  BY <2>1 DEF Inserted
<1> HIDE DEF q, n2
<1>4. Known(r, S \cup {f})  BY <1>2 DEF Known
<1>5. Comes(r, q, S \cup {f})
  <2> SUFFICES ASSUME Uploads(r) PROVE r.node \in S \cup {f} /\ q[r.node] = None  BY DEF Comes
  <2>1. r.node \in S /\ p[r.node] = None  BY <1>2 DEF Comes
  <2> QED  BY <1>3, <2>1
<1>6. ASSUME NoMoves(R) PROVE MakesNoCycle(r, q)
  <2> SUFFICES ASSUME r.op = "move", r.pc \in {"depth", "names", "write"}
               PROVE  r.node \notin Chain(q, r.to) \/ q[r.node] = None
    BY DEF MakesNoCycle
  <2>1. Busy(r)  BY DEF Busy
  <2>2. r.node \in Folders /\ r.to \in Homes  BY <1>2, <2>1 DEF Local
  <2>3. r.node # None /\ r.to # None /\ Root # f  BY <2>2, NodesAreFinite DEF Homes
  <2>4. r.node \in S /\ r.to \in S \cup {Root}  BY <1>2, <2>3 DEF Known
  <2>5. r.node \in Nodes /\ r.node # f /\ r.to \in Nodes \cup {Root} /\ r.to # f  BY <2>3, <2>4
  <2>6. r.node \notin Chain(p, r.to) \/ p[r.node] = None  BY <1>6 DEF CallFits, MakesNoCycle
  <2>7. Chain(q, r.to) = Chain(p, r.to)  BY <1>3, <2>5
  <2> QED  BY <1>3, <2>5, <2>6, <2>7
<1>7. ASSUME Shallow(R) PROVE StaysShallow(r, q)
  <2>1. ASSUME r.op = "folder", r.pc \in {"names", "write"}
        PROVE  Depth(q, r.to) + 1 <= MaxFolderDepth
    <3>1. Busy(r)  BY <2>1 DEF Busy
    <3>2. r.to \in Homes /\ r.to # None /\ Root # f
      BY <1>2, <2>1, <3>1, NodesAreFinite DEF Local, Homes
    <3>3. r.to \in Nodes \cup {Root} /\ r.to # f  BY <1>2, <3>2 DEF Known
    <3>4. Ancestors(q, r.to) = Ancestors(p, r.to)  BY <1>3, <3>3
    <3>5. Depth(p, r.to) + 1 <= MaxFolderDepth  BY <1>7, <2>1 DEF CallFits, StaysShallow
    <3> QED  BY <3>4, <3>5 DEF Depth
  <2>2. ~ (r.op = "move" /\ r.pc \in {"names", "write"})
    <3> SUFFICES ASSUME r.op = "move", r.pc \in {"names", "write"} PROVE FALSE  OBVIOUS
    <3>1. Busy(r)  BY DEF Busy
    <3> QED  BY <1>1, <1>7, <3>1 DEF Met, Shallow
  <2> QED  BY <2>1, <2>2 DEF StaysShallow
<1>8. ASSUME ~ NamesRace(R) PROVE StaysDistinct(r, q, n2)
  <2>1. ~ Busy(r) \/ r.op \notin Naming
    <3> SUFFICES ASSUME Busy(r), r.op \in Naming PROVE FALSE  OBVIOUS
    <3>1. {r.op, s.op} \in R  BY <1>1 DEF Met
    <3>2. {r.op, s.op} \subseteq Naming  BY DEF Naming
    <3> QED  BY <1>8, <3>1, <3>2 DEF NamesRace
  <2> QED  BY <2>1 DEF StaysDistinct, Naming, Busy
<1>9. ASSUME ~ OrphanRace(R) PROVE StaysWhole(r, q)
  <2>1. StaysWhole(r, p)  BY <1>9 DEF CallFits
  <2>2. ASSUME Busy(r), r.op \in Adding, r.pc # "find" PROVE r.to = Root \/ q[r.to] # None
    <3>1. r.to = Root \/ p[r.to] # None  BY <2>1, <2>2 DEF StaysWhole
    <3>2. r.to \in Homes /\ r.to # None  BY <1>2, <2>2, NodesAreFinite DEF Local, Adding, Homes
    <3>3. r.to = Root \/ (r.to \in Nodes /\ r.to # f)  BY <1>2, <3>2 DEF Known
    <3> QED  BY <1>3, <3>1, <3>3
  <2>3. ~ (r.op = "delete" /\ r.pc \in {"docs", "nodes"})
    <3> SUFFICES ASSUME r.op = "delete", r.pc \in {"docs", "nodes"} PROVE FALSE  OBVIOUS
    <3>1. Busy(r)  BY DEF Busy
    <3>2. {r.op, s.op} \in R /\ s.op \in {r.op, s.op} \cap Adding /\ "delete" \in {r.op, s.op}
      BY <1>1, <3>1 DEF Met, Adding
    <3> QED  BY <1>9, <3>2 DEF OrphanRace
  <2> QED  BY <2>2, <2>3 DEF StaysWhole
<1> QED  BY <1>2, <1>4, <1>5, <1>6, <1>7, <1>8, <1>9 DEF CallFits, q, n2
\* RenameNode gives a folder its new name: the rows fit.
LEMMA RenameForest ==
  ASSUME NEW p \in Parents, NEW nm \in NamesOf, NEW S \in SUBSET Nodes, NEW R,
         NEW s, CallFits(s, p, nm, S, R), s.op = "rename", s.pc = "write", p[s.node] # None,
         ForestFits(p, nm, S, R)
  PROVE  ForestFits(p, [nm EXCEPT ![s.node] = s.name], S, R)
<1> DEFINE n2 == [nm EXCEPT ![s.node] = s.name]
<1>1. Busy(s) /\ s.node \in Folders /\ s.node \in Nodes /\ s.name \in Names /\ s.name # None
  BY WriterIs, NodesAreFinite
<1>2. n2[s.node] = s.name /\ (\A g \in Folders : g # s.node => n2[g] = nm[g])
  BY <1>1 DEF NamesOf
<1> HIDE DEF n2
<1>3. \A g \in Folders : n2[g] = None <=> p[g] = None  BY <1>1, <1>2 DEF ForestFits
<1>4. ASSUME ~ NamesRace(R) PROVE Distinct(p, n2)
  <2>1. Distinct(p, nm) /\ StaysDistinct(s, p, nm)  BY <1>4 DEF ForestFits, CallFits
  <2>2. /\ \A g \in Folders : p[g] = s.to /\ g # s.node => nm[g] # s.name
        /\ p[s.node] = s.to
    BY <2>1 DEF StaysDistinct, Naming
  <2> SUFFICES ASSUME NEW g \in Folders, NEW h \in Folders, g # h, p[g] # None, p[g] = p[h]
               PROVE  n2[g] # n2[h]
    BY DEF Distinct
  <2>3. CASE g = s.node  BY <1>2, <2>2, <2>3
  <2>4. CASE h = s.node  BY <1>2, <2>2, <2>4
  <2>5. CASE g # s.node /\ h # s.node  BY <1>2, <2>1, <2>5 DEF Distinct
  <2> QED  BY <2>3, <2>4, <2>5
<1> QED  BY <1>3, <1>4 DEF ForestFits, n2

\* RenameNode gives a folder its new name: another operation r fits.
LEMMA RenameOthers ==
  ASSUME NEW p \in Parents, NEW nm \in NamesOf, NEW S \in SUBSET Nodes, NEW R,
         NEW s, CallFits(s, p, nm, S, R), s.op = "rename", s.pc = "write",
         NEW r, CallFits(r, p, nm, S, R), Met(r, s, R)
  PROVE  CallFits(r, p, [nm EXCEPT ![s.node] = s.name], S, R)
<1> DEFINE n2 == [nm EXCEPT ![s.node] = s.name]
<1> HIDE DEF n2
<1>1. Busy(s)  BY WriterIs
<1>2. ASSUME ~ NamesRace(R) PROVE StaysDistinct(r, p, n2)
  <2>1. ~ Busy(r) \/ r.op \notin Naming
    <3> SUFFICES ASSUME Busy(r), r.op \in Naming PROVE FALSE  OBVIOUS
    <3>1. {r.op, s.op} \in R  BY <1>1 DEF Met
    <3>2. {r.op, s.op} \subseteq Naming  BY DEF Naming
    <3> QED  BY <1>2, <3>1, <3>2 DEF NamesRace
  <2> QED  BY <2>1 DEF StaysDistinct, Naming, Busy
<1> QED  BY <1>2 DEF CallFits, n2

\* MoveNode moves a folder: the rows fit.
LEMMA MoveForest ==
  ASSUME NEW p \in Parents, NEW nm \in NamesOf, NEW S \in SUBSET Nodes, NEW R,
         NEW s, CallFits(s, p, nm, S, R), s.op = "move", s.pc = "write", p[s.node] # None,
         ForestFits(p, nm, S, R)
  PROVE  ForestFits([p EXCEPT ![s.node] = s.to], nm, S, R)
<1> DEFINE q == [p EXCEPT ![s.node] = s.to]
<1>1. /\ Busy(s) /\ s.node \in Folders /\ s.node \in Nodes /\ s.node \in S
      /\ s.to \in Homes /\ s.to \in S \cup {Root} /\ s.to # None
  BY WriterIs, NodesAreFinite DEF Homes
<1>2. /\ q \in Parents /\ q[s.node] = s.to /\ (\A x \in Nodes : x # s.node => q[x] = p[x])
  BY <1>1 DEF Parents, Homes
<1>3. NoMoves(R) => Linked(p, q, s.node, s.to)
  BY DEF CallFits, MakesNoCycle, Linked
<1> HIDE DEF q
<1>4. \A g \in Folders : nm[g] = None <=> q[g] = None
  BY <1>1, <1>2 DEF ForestFits, Nodes
<1>5. RefersTo(q, S)  BY <1>1, <1>2 DEF RefersTo, ForestFits
<1>6. NoMoves(R) => Acyclic(q)  BY <1>1, <1>3, LinkIsAcyclic DEF ForestFits
<1>7. ASSUME Shallow(R) PROVE DepthsFit(q)
  <2>0. Linked(p, q, s.node, s.to)  BY <1>3, <1>7 DEF Shallow
  <2>1. DepthsFit(p) /\ StaysShallow(s, p)  BY <1>7 DEF ForestFits, CallFits
  <2>2. \A m \in Folders \cap Subtree(p, s.node) :
          Cardinality(Ancestors(p, m) \cap Subtree(p, s.node)) + Depth(p, s.to) <= MaxFolderDepth
    BY <2>1 DEF StaysShallow
  <2>3. ASSUME NEW m \in Folders PROVE Depth(q, m) <= MaxFolderDepth
    <3>0. m \in Nodes  BY DEF Nodes
    <3>1. CASE s.node \notin Chain(p, m)
      <4>1. Ancestors(q, m) = Ancestors(p, m)  BY <1>1, <2>0, <3>0, <3>1, LinkKeeps
      <4> QED  BY <2>1, <4>1 DEF DepthsFit, Depth
    <3>2. CASE s.node \in Chain(p, m)
      <4> DEFINE A == Cardinality(Ancestors(p, m) \cap Subtree(p, s.node))
                 B == Depth(p, s.to)
      <4>1. m \in Subtree(p, s.node) /\ Depth(q, m) <= A + B
        BY <1>1, <2>0, <3>0, <3>2, LinkDepth
      <4>2. A + B <= MaxFolderDepth  BY <2>2, <4>1
      <4>3. A \in Nat /\ B \in Nat /\ Depth(q, m) \in Nat /\ MaxFolderDepth \in Nat
        <5>1. IsFiniteSet(Ancestors(p, m))  BY <3>0, ChainsAreFolders
        <5>2. IsFiniteSet(Ancestors(p, m) \cap Subtree(p, s.node))  BY <5>1, FS_Intersection
        <5>3. A \in Nat  BY <5>2, FS_CardinalityType
        <5>4. s.to \in Nodes \cup {Root}  BY <1>1 DEF Homes, Nodes
        <5>5. B \in Nat /\ Depth(q, m) \in Nat  BY <1>2, <3>0, <5>4, ChainsAreFolders
        <5> QED  BY <5>3, <5>5, TreeAssumption
      <4> HIDE DEF A, B
      <4> QED  BY <4>1, <4>2, <4>3
    <3> QED  BY <3>1, <3>2
  <2> QED  BY <2>3 DEF DepthsFit
<1>8. ASSUME ~ NamesRace(R) PROVE Distinct(q, nm)
  <2>1. Distinct(p, nm) /\ StaysDistinct(s, p, nm)  BY <1>8 DEF ForestFits, CallFits
  <2>2. /\ \A g \in Folders : p[g] = s.to /\ g # s.node => nm[g] # s.name
        /\ nm[s.node] = s.name
    BY <2>1 DEF StaysDistinct, Naming
  <2> SUFFICES ASSUME NEW g \in Folders, NEW h \in Folders, g # h, q[g] # None, q[g] = q[h]
               PROVE  nm[g] # nm[h]
    BY DEF Distinct
  <2>0. g \in Nodes /\ h \in Nodes  BY DEF Nodes
  <2>3. CASE g = s.node  BY <1>2, <2>0, <2>2, <2>3
  <2>4. CASE h = s.node  BY <1>2, <2>0, <2>2, <2>4
  <2>5. CASE g # s.node /\ h # s.node  BY <1>2, <2>0, <2>1, <2>5 DEF Distinct
  <2> QED  BY <2>3, <2>4, <2>5
<1>9. ASSUME ~ OrphanRace(R) PROVE Whole(q)
  <2>1. Whole(p) /\ StaysWhole(s, p)  BY <1>9 DEF ForestFits, CallFits
  <2>2. s.to = Root \/ p[s.to] # None  BY <1>1, <2>1 DEF StaysWhole, Adding
  <2> SUFFICES ASSUME NEW n \in Nodes, q[n] \in Folders PROVE q[q[n]] # None  BY DEF Whole
  <2>3. q[n] \in Nodes /\ q[n] # Root  BY NodesAreFinite DEF Nodes
  <2>4. CASE n = s.node  BY <1>1, <1>2, <2>2, <2>3, <2>4
  <2>5. CASE n # s.node  BY <1>1, <1>2, <2>1, <2>3, <2>5 DEF Whole
  <2> QED  BY <2>4, <2>5
<1> QED  BY <1>4, <1>5, <1>6, <1>7, <1>8, <1>9 DEF ForestFits, q

\* MoveNode moves a folder: another operation r fits.
LEMMA MoveOthers ==
  ASSUME NEW p \in Parents, NEW nm \in NamesOf, NEW S \in SUBSET Nodes, NEW R,
         NEW s, CallFits(s, p, nm, S, R), s.op = "move", s.pc = "write",
         NEW r, CallFits(r, p, nm, S, R), Met(r, s, R)
  PROVE  CallFits(r, [p EXCEPT ![s.node] = s.to], nm, S, R)
<1> DEFINE q == [p EXCEPT ![s.node] = s.to]
<1>1. /\ Busy(s) /\ s.node \in Folders /\ s.node \in Nodes /\ s.to \in Homes /\ s.to # None
  BY WriterIs, NodesAreFinite DEF Homes
<1>2. /\ q \in Parents /\ q[s.node] = s.to /\ (\A x \in Nodes : x # s.node => q[x] = p[x])
  BY <1>1 DEF Parents, Homes
<1> HIDE DEF q
<1>3. Local(r) /\ Known(r, S) /\ Comes(r, p, S)  BY DEF CallFits
<1>4. Comes(r, q, S)
  <2> SUFFICES ASSUME Uploads(r) PROVE r.node \in S /\ q[r.node] = None  BY DEF Comes
  <2>1. r.node \in S /\ p[r.node] = None  BY <1>3 DEF Comes
  <2>2. r.node \in Docs  BY <1>3 DEF Local, Uploads, Busy
  <2>3. r.node # s.node  BY <1>1, <2>2, NodesAreFinite
  <2> QED  BY <1>2, <2>1, <2>3
<1>5. ASSUME NoMoves(R) PROVE MakesNoCycle(r, q)
  <2>1. Busy(r) => r.op # "move"  BY <1>1, <1>5 DEF Met, NoMoves
  <2> QED  BY <2>1 DEF MakesNoCycle, Busy
<1>6. ASSUME Shallow(R) PROVE StaysShallow(r, q)
  <2>1. Busy(r) => r.op # "move"  BY <1>1, <1>6 DEF Met, NoMoves, Shallow
  <2>2. Busy(r) => r.op # "folder"
    <3> SUFFICES ASSUME Busy(r), r.op = "folder" PROVE FALSE  OBVIOUS
    <3>1. {"folder", "move"} \in R  BY <1>1 DEF Met
    <3>2. {"folder", "move"} = {"move", "folder"}  OBVIOUS
    <3> QED  BY <1>6, <3>1, <3>2 DEF Shallow
  <2> QED  BY <2>1, <2>2 DEF StaysShallow, Busy
<1>7. ASSUME ~ NamesRace(R) PROVE StaysDistinct(r, q, nm)
  <2>1. ~ Busy(r) \/ r.op \notin Naming
    <3> SUFFICES ASSUME Busy(r), r.op \in Naming PROVE FALSE  OBVIOUS
    <3>1. {r.op, s.op} \in R  BY <1>1 DEF Met
    <3>2. {r.op, s.op} \subseteq Naming  BY DEF Naming
    <3> QED  BY <1>7, <3>1, <3>2 DEF NamesRace
  <2> QED  BY <2>1 DEF StaysDistinct, Naming, Busy
<1>8. ASSUME ~ OrphanRace(R) PROVE StaysWhole(r, q)
  <2>1. StaysWhole(r, p)  BY <1>8 DEF CallFits
  <2>2. ASSUME Busy(r), r.op \in Adding, r.pc # "find" PROVE r.to = Root \/ q[r.to] # None
    <3>1. r.to = Root \/ p[r.to] # None  BY <2>1, <2>2 DEF StaysWhole
    <3>2. r.to \in Homes  BY <1>3, <2>2 DEF Local, Adding
    <3>3. r.to = Root \/ r.to \in Nodes  BY <3>2 DEF Homes, Nodes
    <3> QED  BY <1>1, <1>2, <3>1, <3>3
  <2>3. ~ (r.op = "delete" /\ r.pc \in {"docs", "nodes"})
    <3> SUFFICES ASSUME r.op = "delete", r.pc \in {"docs", "nodes"} PROVE FALSE  OBVIOUS
    <3>1. Busy(r)  BY DEF Busy
    <3>2. {r.op, s.op} \in R /\ s.op \in {r.op, s.op} \cap Adding /\ "delete" \in {r.op, s.op}
      BY <1>1, <3>1 DEF Met, Adding
    <3> QED  BY <1>8, <3>2 DEF OrphanRace
  <2> QED  BY <2>2, <2>3 DEF StaysWhole
<1> QED  BY <1>3, <1>4, <1>5, <1>6, <1>7, <1>8 DEF CallFits, q

\* q is p but for the node of a document.
Placed(p, q, d) ==
  /\ q \in Parents /\ \A x \in Nodes : x # d => q[x] = p[x]
  /\ \A m \in Homes : Chain(q, m) = Chain(p, m) /\ Ancestors(q, m) = Ancestors(p, m)

\* No folder hangs from a document.
LEMMA DocChains ==
  ASSUME NEW p \in Parents, NEW d \in Docs, NEW v \in Homes \cup {None}
  PROVE  Placed(p, [p EXCEPT ![d] = v], d)
<1> DEFINE q == [p EXCEPT ![d] = v]
<1>1. q \in Parents /\ \A x \in Nodes : x # d => q[x] = p[x]  BY DEF Parents, Nodes, Homes
<1> HIDE DEF q
<1>2. ASSUME NEW m \in Homes
      PROVE  Chain(q, m) = Chain(p, m) /\ Ancestors(q, m) = Ancestors(p, m)
  <2>1. Chain(p, m) \subseteq Folders /\ m \in Nodes \cup {Root}
    BY ChainsAreFolders DEF Homes, Nodes
  <2>2. \A x \in Chain(p, m) : x \in Nodes /\ x # d  BY <2>1, NodesAreFinite DEF Nodes
  <2>3. \A x \in Chain(p, m) : q[x] = p[x]  BY <1>1, <2>2
  <2> QED  BY <1>1, <2>1, <2>3, ChainsAreLocal
<1> QED  BY <1>1, <1>2 DEF Placed, q

\* A document's node is put under v, or taken away: the rows fit.
LEMMA PlaceForest ==
  ASSUME NEW p \in Parents, NEW nm, NEW S \in SUBSET Nodes, NEW R, ForestFits(p, nm, S, R),
         NEW d \in Docs, NEW v \in Homes \cup {None}, NEW q, q = [p EXCEPT ![d] = v],
         v # None => d \in S /\ v \in S \cup {Root},
         v \in Folders /\ ~ OrphanRace(R) => p[v] # None
  PROVE  ForestFits(q, nm, S, R)
<1>1. Placed(p, q, d)  BY DocChains
<1>2. q \in Parents /\ (\A x \in Nodes : x # d => q[x] = p[x]) /\ q[d] = v
  BY <1>1 DEF Placed, Parents, Nodes
<1>3. \A m \in Folders : m \in Nodes /\ m # d /\ q[m] = p[m]
  BY <1>2, NodesAreFinite DEF Nodes
<1>4. \A m \in Homes : Chain(q, m) = Chain(p, m) /\ Ancestors(q, m) = Ancestors(p, m)
  BY <1>1 DEF Placed
<1>5. \A g \in Folders : nm[g] = None <=> q[g] = None  BY <1>3 DEF ForestFits
<1>6. RefersTo(q, S)
  <2>1. RefersTo(p, S)  BY DEF ForestFits
  <2>2. ASSUME NEW n \in Nodes, q[n] # None PROVE n \in S /\ q[n] \in S \cup {Root}
    <3>1. CASE n = d  BY <1>2, <2>2, <3>1
    <3>2. CASE n # d  BY <1>2, <2>1, <2>2, <3>2 DEF RefersTo
    <3> QED  BY <3>1, <3>2
  <2> QED  BY <2>2 DEF RefersTo
<1>7. Acyclic(p) => Acyclic(q)
  <2> SUFFICES ASSUME Acyclic(p), NEW f \in Folders, OnCycle(q, f) PROVE FALSE  BY DEF Acyclic
  <2>1. q[f] \in Folders /\ f \in Ancestors(q, q[f])  BY DEF OnCycle
  <2>2. q[f] = p[f] /\ Ancestors(q, q[f]) = Ancestors(p, q[f])  BY <1>3, <1>4, <2>1 DEF Homes
  <2> QED  BY <2>1, <2>2 DEF Acyclic, OnCycle
<1>8. DepthsFit(p) => DepthsFit(q)
  <2>1. \A m \in Folders : Depth(q, m) = Depth(p, m)  BY <1>4 DEF Depth, Homes
  <2> QED  BY <2>1 DEF DepthsFit
<1>9. Distinct(p, nm) => Distinct(q, nm)  BY <1>3 DEF Distinct
<1>10. ASSUME ~ OrphanRace(R) PROVE Whole(q)
  <2>1. Whole(p)  BY <1>10 DEF ForestFits
  <2>2. ASSUME NEW n \in Nodes, q[n] \in Folders PROVE q[q[n]] # None
    <3>1. q[q[n]] = p[q[n]]  BY <1>3, <2>2
    <3>2. CASE n = d  BY <1>2, <1>10, <2>2, <3>1, <3>2
    <3>3. CASE n # d  BY <1>2, <2>1, <2>2, <3>1, <3>3 DEF Whole
    <3> QED  BY <3>2, <3>3
  <2> QED  BY <2>2 DEF Whole
<1> QED  BY <1>5, <1>6, <1>7, <1>8, <1>9, <1>10 DEF ForestFits

\* A document's node is put under v, or taken away: another operation r fits.
LEMMA PlaceOthers ==
  ASSUME NEW p \in Parents, NEW nm, NEW S \in SUBSET Nodes, NEW R,
         NEW d \in Docs, NEW v \in Homes \cup {None}, NEW q, q = [p EXCEPT ![d] = v],
         NEW r, CallFits(r, p, nm, S, R),
         v # None /\ Uploads(r) => r.node # d,
         v # None /\ ~ OrphanRace(R) => ~ Deletes(r)
  PROVE  CallFits(r, q, nm, S, R)
<1>1. Placed(p, q, d)  BY DocChains
<1>2. q \in Parents /\ (\A x \in Nodes : x # d => q[x] = p[x]) /\ q[d] = v
  BY <1>1 DEF Placed, Parents, Nodes
<1>3. \A m \in Folders : m \in Nodes /\ m # d /\ q[m] = p[m]
  BY <1>2, NodesAreFinite DEF Nodes
<1>4. \A m \in Homes : Chain(q, m) = Chain(p, m) /\ Ancestors(q, m) = Ancestors(p, m)
  BY <1>1 DEF Placed
<1>5. Local(r) /\ Known(r, S) /\ Comes(r, p, S)  BY DEF CallFits
<1>6. Comes(r, q, S)
  <2> SUFFICES ASSUME Uploads(r) PROVE r.node \in S /\ q[r.node] = None  BY DEF Comes
  <2>1. r.node \in S /\ p[r.node] = None  BY <1>5 DEF Comes
  <2> QED  BY <1>2, <2>1
<1>7. ASSUME NoMoves(R) PROVE MakesNoCycle(r, q)
  <2> SUFFICES ASSUME r.op = "move", r.pc \in {"depth", "names", "write"}
               PROVE  r.node \notin Chain(q, r.to) \/ q[r.node] = None
    BY DEF MakesNoCycle
  <2>1. r.node \in Folders /\ r.to \in Homes  BY <1>5 DEF Local, Busy
  <2>2. r.node \notin Chain(p, r.to) \/ p[r.node] = None  BY <1>7 DEF CallFits, MakesNoCycle
  <2> QED  BY <1>3, <1>4, <2>1, <2>2
<1>8. ASSUME Shallow(R) PROVE StaysShallow(r, q)
  <2>0. StaysShallow(r, p)  BY <1>8 DEF CallFits
  <2>1. ASSUME r.op = "folder", r.pc \in {"names", "write"}
        PROVE  Depth(q, r.to) + 1 <= MaxFolderDepth
    <3>1. r.to \in Homes  BY <1>5, <2>1 DEF Local, Busy
    <3>2. Depth(q, r.to) = Depth(p, r.to)  BY <1>4, <3>1 DEF Depth
    <3> QED  BY <2>0, <2>1, <3>2 DEF StaysShallow
  <2>2. ASSUME r.op = "move", r.pc \in {"names", "write"},
               NEW m \in Folders \cap Subtree(q, r.node)
        PROVE  Cardinality(Ancestors(q, m) \cap Subtree(q, r.node)) + Depth(q, r.to)
                 <= MaxFolderDepth
    <3>1. r.node \in Folders /\ r.to \in Homes  BY <1>5, <2>2 DEF Local, Busy
    <3>2. Depth(q, r.to) = Depth(p, r.to)  BY <1>4, <3>1 DEF Depth
    <3>3. \A x \in Folders : x \in Subtree(q, r.node) <=> x \in Subtree(p, r.node)
      BY <1>3, <1>4 DEF Subtree, Homes
    <3>4. Ancestors(q, m) = Ancestors(p, m) /\ m \in Folders  BY <1>4 DEF Homes
    <3>5. Ancestors(p, m) \subseteq Folders
      BY <3>4, ChainsAreFolders DEF Ancestors, Homes
    <3>6. Ancestors(q, m) \cap Subtree(q, r.node) = Ancestors(p, m) \cap Subtree(p, r.node)
      BY <3>3, <3>4, <3>5
    <3>7. m \in Folders \cap Subtree(p, r.node)  BY <3>3
    <3>8. Cardinality(Ancestors(p, m) \cap Subtree(p, r.node)) + Depth(p, r.to)
            <= MaxFolderDepth
      BY <2>0, <2>2, <3>7 DEF StaysShallow
    <3> QED  BY <3>2, <3>6, <3>8
  <2> QED  BY <2>1, <2>2 DEF StaysShallow
<1>9. ASSUME ~ NamesRace(R) PROVE StaysDistinct(r, q, nm)
  <2>1. StaysDistinct(r, p, nm)  BY <1>9 DEF CallFits
  <2>2. Busy(r) /\ r.op \in {"rename", "move"} => r.node \in Folders  BY <1>5 DEF Local
  <2> QED  BY <1>3, <2>1, <2>2 DEF StaysDistinct, Busy
<1>10. ASSUME ~ OrphanRace(R) PROVE StaysWhole(r, q)
  <2>1. StaysWhole(r, p)  BY <1>10 DEF CallFits
  <2>2. ASSUME Busy(r), r.op \in Adding, r.pc # "find" PROVE r.to = Root \/ q[r.to] # None
    <3>1. r.to = Root \/ p[r.to] # None  BY <2>1, <2>2 DEF StaysWhole
    <3>2. r.to \in Homes  BY <1>5, <2>2 DEF Local, Adding
    <3> QED  BY <1>3, <3>1, <3>2 DEF Homes
  <2>3. ASSUME r.op = "delete", r.pc \in {"docs", "nodes"},
               NEW i \in 1 .. Len(r.list), NEW n \in Nodes, q[n] = r.list[i]
        PROVE  \E j \in i + 1 .. Len(r.list) : r.list[j] = n
    <3>1. v = None  BY <1>10, <2>3 DEF Deletes
    <3>2. r.list[i] # None
      <4>1. r.list[i] \in S  BY <1>5 DEF Known
      <4> QED  BY <4>1, NodesAreFinite
    <3>3. p[n] = r.list[i]  BY <1>2, <2>3, <3>1, <3>2
    <3> QED  BY <2>1, <2>3, <3>3 DEF StaysWhole
  <2> QED  BY <2>2, <2>3 DEF StaysWhole
<1> QED  BY <1>5, <1>6, <1>7, <1>8, <1>9, <1>10 DEF CallFits

\* Names without the folder n.
Unnamed(nm, n) == [f \in Folders |-> IF f = n THEN None ELSE nm[f]]

\* DeleteFolder removes a node in which nothing is: the rows fit.
LEMMA CutForest ==
  ASSUME NEW p \in Parents, NEW nm \in NamesOf, NEW S \in SUBSET Nodes, NEW R,
         ForestFits(p, nm, S, R), NEW n \in Nodes,
         ~ OrphanRace(R) => \A x \in Nodes : p[x] # n
  PROVE  ForestFits([p EXCEPT ![n] = None], Unnamed(nm, n), S, R)
<1> DEFINE q == [p EXCEPT ![n] = None]
           n2 == Unnamed(nm, n)
<1>1. q \in Parents /\ q[n] = None /\ \A x \in Nodes : x # n => q[x] = p[x]  BY DEF Parents
<1>2. \A f \in Folders : n2[f] = IF f = n THEN None ELSE nm[f]  BY DEF Unnamed
<1> HIDE DEF q, n2
<1>3. Cut(p, q)  BY <1>1 DEF Cut
<1>4. \A f \in Folders : n2[f] = None <=> q[f] = None  BY <1>1, <1>2 DEF ForestFits, Nodes
<1>5. RefersTo(q, S)  BY <1>1 DEF ForestFits, RefersTo
<1>6. Acyclic(p) => Acyclic(q)  BY <1>1, <1>3, CutIsAcyclic
<1>7. DepthsFit(p) => DepthsFit(q)  BY <1>1, <1>3, CutIsShallow
<1>8. Distinct(p, nm) => Distinct(q, n2)  BY <1>1, <1>2 DEF Distinct, Nodes
<1>9. ~ OrphanRace(R) => Whole(q)
  <2> SUFFICES ASSUME ~ OrphanRace(R), NEW x \in Nodes, q[x] \in Folders PROVE q[q[x]] # None
    BY DEF Whole
  <2>1. Whole(p) /\ p[x] # n  BY DEF ForestFits
  <2>2. q[x] # None /\ q[x] \in Nodes  BY NodesAreFinite DEF Nodes
  <2>3. q[x] = p[x]  BY <1>1, <2>2
  <2>4. q[q[x]] = p[q[x]]  BY <1>1, <2>1, <2>2, <2>3
  <2> QED  BY <2>1, <2>3, <2>4 DEF Whole
<1> QED  BY <1>4, <1>5, <1>6, <1>7, <1>8, <1>9 DEF ForestFits, q, n2

\* DeleteFolder removes a node: an operation r that adds nothing fits.
LEMMA CutOthers ==
  ASSUME NEW p \in Parents, NEW nm \in NamesOf, NEW S \in SUBSET Nodes, NEW R,
         NEW n \in Nodes, NEW r, CallFits(r, p, nm, S, R),
         ~ OrphanRace(R) => ~ (Busy(r) /\ r.op \in Adding)
  PROVE  CallFits(r, [p EXCEPT ![n] = None], Unnamed(nm, n), S, R)
<1> DEFINE q == [p EXCEPT ![n] = None]
           n2 == Unnamed(nm, n)
<1>1. q \in Parents /\ q[n] = None /\ \A x \in Nodes : x # n => q[x] = p[x]  BY DEF Parents
<1>2. \A f \in Folders : n2[f] = IF f = n THEN None ELSE nm[f]  BY DEF Unnamed
<1> HIDE DEF q, n2
<1>3. Cut(p, q)  BY <1>1 DEF Cut
<1>5. Local(r) /\ Known(r, S) /\ Comes(r, p, S)  BY DEF CallFits
<1>6. Comes(r, q, S)
  <2> SUFFICES ASSUME Uploads(r) PROVE r.node \in S /\ q[r.node] = None  BY DEF Comes
  <2>1. r.node \in S /\ p[r.node] = None  BY <1>5 DEF Comes
  <2> QED  BY <1>1, <2>1
<1>7. ASSUME NoMoves(R) PROVE MakesNoCycle(r, q)
  <2> SUFFICES ASSUME r.op = "move", r.pc \in {"depth", "names", "write"}
               PROVE  r.node \notin Chain(q, r.to) \/ q[r.node] = None
    BY DEF MakesNoCycle
  <2>1. r.node \in Nodes /\ r.to \in Nodes \cup {Root}  BY <1>5 DEF Local, Busy, Homes, Nodes
  <2>2. r.node \notin Chain(p, r.to) \/ p[r.node] = None  BY <1>7 DEF CallFits, MakesNoCycle
  <2>3. Chain(q, r.to) \subseteq Chain(p, r.to)  BY <1>1, <1>3, <2>1, CutChains
  <2> QED  BY <1>1, <2>1, <2>2, <2>3
<1>8. ASSUME Shallow(R) PROVE StaysShallow(r, q)
  <2>0. StaysShallow(r, p) /\ MaxFolderDepth \in Nat  BY <1>8, TreeAssumption DEF CallFits
  <2>1. ASSUME r.op = "folder", r.pc \in {"names", "write"}
        PROVE  Depth(q, r.to) + 1 <= MaxFolderDepth
    <3>1. r.to \in Nodes \cup {Root}  BY <1>5, <2>1 DEF Local, Busy, Homes, Nodes
    <3>2. Depth(q, r.to) <= Depth(p, r.to) /\ Depth(q, r.to) \in Nat /\ Depth(p, r.to) \in Nat
      BY <1>1, <1>3, <3>1, CutChains, ChainsAreFolders
    <3>3. Depth(p, r.to) + 1 <= MaxFolderDepth  BY <2>0, <2>1 DEF StaysShallow
    <3> QED  BY <2>0, <3>2, <3>3
  <2>2. ASSUME r.op = "move", r.pc \in {"names", "write"},
               NEW m \in Folders \cap Subtree(q, r.node)
        PROVE  Cardinality(Ancestors(q, m) \cap Subtree(q, r.node)) + Depth(q, r.to)
                 <= MaxFolderDepth
    <3> DEFINE A == Ancestors(p, m) \cap Subtree(p, r.node)
               B == Ancestors(q, m) \cap Subtree(q, r.node)
    <3>1. r.node \in Nodes \cup {Root} /\ r.to \in Nodes \cup {Root} /\ m \in Nodes \cup {Root}
      BY <1>5, <2>2 DEF Local, Busy, Homes, Nodes
    <3>2. Depth(q, r.to) <= Depth(p, r.to) /\ Depth(q, r.to) \in Nat /\ Depth(p, r.to) \in Nat
      BY <1>1, <1>3, <3>1, CutChains, ChainsAreFolders
    <3>3. Subtree(q, r.node) \subseteq Subtree(p, r.node)  BY <1>1, <1>3, <3>1, CutChains
    <3>4. Ancestors(q, m) \subseteq Ancestors(p, m)  BY <1>1, <1>3, <3>1, CutChains
    <3>5. IsFiniteSet(Ancestors(p, m))  BY <3>1, ChainsAreFolders
    <3>6. IsFiniteSet(A) /\ B \in SUBSET A  BY <3>3, <3>4, <3>5, FS_Intersection
    <3>7. m \in Folders \cap Subtree(p, r.node)  BY <3>3
    <3>8. Cardinality(A) + Depth(p, r.to) <= MaxFolderDepth
      BY <2>0, <2>2, <3>7 DEF StaysShallow
    <3> HIDE DEF A, B
    <3>9. Cardinality(B) <= Cardinality(A) /\ Cardinality(A) \in Nat /\ Cardinality(B) \in Nat
      BY <3>6, FS_Subset, FS_CardinalityType
    <3>10. Cardinality(B) + Depth(q, r.to) <= MaxFolderDepth  BY <2>0, <3>2, <3>8, <3>9
    <3> QED  BY <3>10 DEF B
  <2> QED  BY <2>1, <2>2 DEF StaysShallow
<1>9. ASSUME ~ NamesRace(R) PROVE StaysDistinct(r, q, n2)
  <2>1. StaysDistinct(r, p, nm)  BY <1>9 DEF CallFits
  <2>2. Busy(r) /\ r.op \in {"rename", "move"} => r.node \in Folders /\ r.node \in Nodes
    BY <1>5 DEF Local, Nodes
  <2>3. Busy(r) /\ r.op \in Naming /\ r.pc = "write" => r.to \in Homes /\ r.to # None
    BY <1>5, NodesAreFinite DEF Local, Naming, Homes
  <2>4. ASSUME r.op \in Naming, r.pc = "write", NEW s \in Folders, q[s] = r.to, s # r.node
        PROVE  n2[s] # r.name
    <3>1. Busy(r) /\ s \in Nodes  BY <2>4 DEF Busy, Nodes
    <3>2. s # n /\ p[s] = r.to  BY <1>1, <2>3, <2>4, <3>1
    <3> QED  BY <1>2, <2>1, <2>4, <3>2 DEF StaysDistinct
  <2>5. r.op = "rename" /\ r.pc \in {"names", "write"} => q[r.node] \in {r.to, None}
    BY <1>1, <2>1, <2>2 DEF StaysDistinct, Busy
  <2>6. r.op = "move" /\ r.pc \in {"cycle", "depth", "names", "write"} =>
          n2[r.node] = r.name \/ q[r.node] = None
    BY <1>1, <1>2, <2>1, <2>2 DEF StaysDistinct, Busy
  <2> QED  BY <2>4, <2>5, <2>6 DEF StaysDistinct
<1>10. ASSUME ~ OrphanRace(R) PROVE StaysWhole(r, q)
  <2>1. StaysWhole(r, p)  BY <1>10 DEF CallFits
  <2>3. ASSUME r.op = "delete", r.pc \in {"docs", "nodes"},
               NEW i \in 1 .. Len(r.list), NEW x \in Nodes, q[x] = r.list[i]
        PROVE  \E j \in i + 1 .. Len(r.list) : r.list[j] = x
    <3>2. r.list[i] # None
      <4>1. r.list[i] \in S  BY <1>5 DEF Known
      <4> QED  BY <4>1, NodesAreFinite
    <3>3. p[x] = r.list[i]  BY <1>1, <2>3, <3>2
    <3> QED  BY <2>1, <2>3, <3>3 DEF StaysWhole
  <2> QED  BY <1>10, <2>3 DEF StaysWhole
<1> QED  BY <1>5, <1>6, <1>7, <1>8, <1>9, <1>10 DEF CallFits, q, n2
-----------------------------------------------------------------------------
(* What every step of the server on operation c does. *)

Ends(c)    == call'[c] = NewCall /\ dialog' = dialog
Reloads(c) == /\ Rests(call'[c]) /\ call'[c].pc = "reload" /\ call'[c].todo = call[c].todo
              /\ IF call[c].op \in {"delete", "archive"} THEN dialog' = NoDialog
                 ELSE dialog' = dialog
Goes(c)    == /\ Busy(call'[c]) /\ call'[c].op = call[c].op /\ call'[c].todo = call[c].todo
              /\ call'[c].told = call[c].told /\ dialog' = dialog
Acts(c) ==
  /\ Busy(call[c]) /\ call' = [call EXCEPT ![c] = call'[c]] /\ call'[c] \in CallRecords
  /\ nodes' = nodes /\ items' = items /\ answers' = answers
  /\ races' = races /\ crossed' = crossed /\ hasty' = hasty
  /\ parent' \in Parents /\ name' \in NamesOf
  /\ live' \subseteq Docs /\ taken' \subseteq Nodes /\ taken \subseteq taken'
  /\ halfway' \in BOOLEAN /\ untold' \in BOOLEAN
  /\ Ends(c) \/ Reloads(c) \/ Goes(c)

\* The operation changes, and no other.
LEMMA OneChanges ==
  ASSUME Types, NEW c \in Calls, Acts(c)
  PROVE  /\ call' \in [Calls -> CallRecords] /\ dialog' \in {dialog, NoDialog}
         /\ \A d \in Calls : d # c => call'[d] = call[d]
         /\ Goes(c) \/ (~ Busy(call'[c]) /\ Rests(call'[c]))
<1>1. call' \in [Calls -> CallRecords] /\ \A d \in Calls : d # c => call'[d] = call[d]
  BY DEF Types, Acts
<1>2. dialog' \in {dialog, NoDialog}  BY DEF Acts, Ends, Reloads, Goes
<1>3. Goes(c) \/ (~ Busy(call'[c]) /\ Rests(call'[c]))
  BY DEF Acts, Ends, Reloads, Rests, NewCall, Busy
<1> QED  BY <1>1, <1>2, <1>3

\* Every variable keeps its type.
LEMMA ActsTypes ==
  ASSUME Types, NEW c \in Calls, Acts(c)
  PROVE  Types'
<1>1. call' \in [Calls -> CallRecords] /\ dialog' \in {dialog, NoDialog}  BY OneChanges
<1>2. NoDialog \in DialogRecords  BY DEF NoDialog, DialogRecords
<1>3. dialog' \in DialogRecords  BY <1>1, <1>2 DEF Types
<1>4. /\ nodes' \in Parents /\ items' \subseteq Docs /\ answers' \in Seq(AnswerRecords)
      /\ races' \subseteq SUBSET Ops /\ crossed' \in BOOLEAN /\ hasty' \in BOOLEAN
  BY DEF Types, Acts
<1>5. /\ parent' \in Parents /\ name' \in [Folders -> Names \cup {None}]
      /\ live' \subseteq Docs /\ taken' \subseteq Nodes
      /\ halfway' \in BOOLEAN /\ untold' \in BOOLEAN
  BY DEF Acts, NamesOf
<1> QED  BY <1>1, <1>3, <1>4, <1>5 DEF Types

\* No race is missed, and the uploads stay apart.
LEMMA ActsPairs ==
  ASSUME Types, PairsFit, NEW c \in Calls, Acts(c),
         \A d \in Calls : d # c => Apart(call'[c], call[d]) /\ Apart(call[d], call'[c])
  PROVE  PairsFit'
<1> SUFFICES ASSUME NEW d \in Calls, NEW e \in Calls, d # e
             PROVE  /\ Busy(call'[d]) /\ Busy(call'[e]) => {call'[d].op, call'[e].op} \in races
                    /\ Apart(call'[d], call'[e])
  BY DEF PairsFit, Acts
<1>1. \A x \in Calls : x # c => call'[x] = call[x]  BY OneChanges
<1>2. \A x \in Calls : Busy(call'[x]) => Busy(call[x]) /\ call'[x].op = call[x].op
  <2>1. Busy(call'[c]) => Busy(call[c]) /\ call'[c].op = call[c].op
    BY OneChanges DEF Goes, Acts
  <2> QED  BY <1>1, <2>1
<1>3. Busy(call'[d]) /\ Busy(call'[e]) => {call'[d].op, call'[e].op} \in races
  BY <1>2 DEF PairsFit
<1>4. Apart(call'[d], call'[e])
  <2>1. CASE d = c  BY <1>1, <2>1
  <2>2. CASE e = c  BY <1>1, <2>2
  <2>3. CASE d # c /\ e # c  BY <1>1, <2>3 DEF PairsFit
  <2> QED  BY <2>1, <2>2, <2>3
<1> QED  BY <1>3, <1>4

\* More ids are known.
LEMMA RefersGrow ==
  ASSUME NEW t, NEW S, NEW S2, RefersTo(t, S), S \subseteq S2
  PROVE  RefersTo(t, S2)
BY DEF RefersTo

\* Lists on their way are untouched.
LEMMA ActsLists ==
  ASSUME Types, ListsFit, RefersTo(nodes, taken), DialogFits, NEW c \in Calls, Acts(c)
  PROVE  ListsFit' /\ RefersTo(nodes, taken)' /\ DialogFits'
<1>1. /\ answers' = answers /\ nodes' = nodes /\ taken \subseteq taken' /\ Busy(call[c])
      /\ answers \in Seq(AnswerRecords)
  BY DEF Acts, Types
<1>2. \A d \in Calls : d # c => call'[d] = call[d]  BY OneChanges
<1>3. ASSUME NEW i \in 1 .. Len(answers)
      PROVE  /\ Awaits(call'[answers[i].call], answers[i].list)
             /\ RefersTo(answers[i].nodes, taken')
  <2>1. answers[i] \in AnswerRecords  BY <1>1
  <2>2. answers[i].call \in Calls  BY <2>1 DEF AnswerRecords
  <2>3. Awaits(call[answers[i].call], answers[i].list) /\ RefersTo(answers[i].nodes, taken)
    BY DEF ListsFit
  <2>4. answers[i].call # c  BY <1>1, <2>3 DEF Awaits, Busy
  <2>5. RefersTo(answers[i].nodes, taken')  BY <1>1, <2>3, RefersGrow
  <2> QED  BY <1>2, <2>2, <2>3, <2>4, <2>5
<1>4. ListsFit'  BY <1>1, <1>3 DEF ListsFit
<1>5. RefersTo(nodes', taken')  BY <1>1, RefersGrow
<1>6. DialogFits'
  <2>1. dialog' \in {dialog, NoDialog}  BY OneChanges
  <2> QED  BY <1>1, <2>1 DEF DialogFits, NoDialog
<1> QED  BY <1>4, <1>5, <1>6

\* What the step must do for the panel, when it changes the rows or the documents.
KeepsTree(c) == \/ parent' = parent /\ ~ Deletes(call[c])
                \/ Deletes(call'[c]) \/ call'[c].pc = "reload"
KeepsDocs(c) ==
  \/ /\ live' = live /\ ~ Dooms(call[c], parent) /\ ~ Archives(call[c]) /\ ~ Uploads(call[c])
     /\ \A d \in Calls : d # c => (Dooms(call[d], parent) => Dooms(call[d], parent'))
  \/ Dooms(call'[c], parent') \/ Archives(call'[c]) \/ Uploads(call'[c])
  \/ call'[c].pc = "reload" /\ call[c].op \notin {"folder", "rename", "delete"}

\* No list of an operation the server works on is on its way; it reads the tree at its end,
\* and the documents unless it is one of three.
LEMMA ReloadsRead ==
  ASSUME Types, ListsFit, NEW c \in Calls, Acts(c), Local(call[c]), call'[c].pc = "reload"
  PROVE  /\ \A l : Without(answers, c, l)
         /\ ToRead(call'[c], "tree")
         /\ call[c].op \notin {"folder", "rename", "delete"} => ToRead(call'[c], "docs")
<1>1. Reloads(c) /\ Busy(call[c])  BY DEF Acts, Ends, Goes, NewCall, Busy
<1>2. call'[c].todo = TodoOf(call[c].op)  BY <1>1 DEF Reloads, Local
<1>3. \A i \in 1 .. Len(answers) : answers[i].call # c
  BY <1>1 DEF ListsFit, Awaits, Busy
<1>4. CASE call[c].op \in {"folder", "rename", "delete"}
  <2>1. call'[c].todo = <<{"tree"}>>  BY <1>2, <1>4 DEF TodoOf
  <2>2. 1 \in 1 .. Len(call'[c].todo) /\ "tree" \in call'[c].todo[1]  BY <2>1
  <2> QED  BY <1>3, <1>4, <2>2 DEF ToRead, Without
<1>5. CASE call[c].op \notin {"folder", "rename", "delete"}
  <2>1. call'[c].todo = <<{"tree"}, {"docs"}>> \/ call'[c].todo = <<{"docs"}, {"tree"}>>
    BY <1>2, <1>5 DEF TodoOf
  <2>2. 1 \in 1 .. Len(call'[c].todo) /\ 2 \in 1 .. Len(call'[c].todo)  BY <2>1
  <2>3. ToRead(call'[c], "tree")  BY <2>1, <2>2 DEF ToRead
  <2>4. ToRead(call'[c], "docs")  BY <2>1, <2>2 DEF ToRead
  <2> QED  BY <1>3, <2>3, <2>4 DEF Without
<1> QED  BY <1>4, <1>5

\* A list that was right, or to come, still is.
LEMMA ActsPanel ==
  ASSUME Types, ListsFit, PanelFits, NEW c \in Calls, Acts(c), Local(call[c]),
         halfway => halfway', ~ halfway' => KeepsTree(c) /\ KeepsDocs(c)
  PROVE  PanelFits'
<1> SUFFICES ASSUME ~ crossed', ~ halfway' PROVE TreeFits' /\ DocsFit'  BY DEF PanelFits
<1>1. TreeFits /\ DocsFit /\ KeepsTree(c) /\ KeepsDocs(c) /\ Busy(call[c])
  BY DEF PanelFits, Acts
<1>2. answers' = answers /\ nodes' = nodes /\ items' = items  BY DEF Acts
<1>3. \A d \in Calls : d # c => call'[d] = call[d]  BY OneChanges
<1>4. ~ ToRead(call[c], "tree") /\ ~ ToRead(call[c], "docs")  BY <1>1 DEF ToRead, Busy
<1>5. TreeFits'
  <2>1. CASE call'[c].pc = "reload"
    <3>1. ToRead(call'[c], "tree") /\ Without(answers, c, "tree")  BY <2>1, ReloadsRead
    <3> QED  BY <1>2, <3>1 DEF TreeFits
  <2>2. CASE Deletes(call'[c])  BY <2>2 DEF TreeFits
  <2>3. CASE parent' = parent /\ ~ Deletes(call[c])
    <3>1. CASE WillShow(answers, "tree", nodes, parent)
      BY <1>2, <2>3, <3>1 DEF TreeFits
    <3>2. CASE ~ WillShow(answers, "tree", nodes, parent)
      <4>1. PICK d \in Calls : \/ ToRead(call[d], "tree") /\ Without(answers, d, "tree")
                               \/ Deletes(call[d])
        BY <1>1, <3>2 DEF TreeFits
      <4>2. call'[d] = call[d]  BY <1>3, <1>4, <2>3, <4>1
      <4> QED  BY <1>2, <4>1, <4>2 DEF TreeFits
    <3> QED  BY <3>1, <3>2
  <2> QED  BY <1>1, <2>1, <2>2, <2>3 DEF KeepsTree
<1>6. DocsFit'
  <2>1. CASE call'[c].pc = "reload" /\ call[c].op \notin {"folder", "rename", "delete"}
    <3>1. ToRead(call'[c], "docs") /\ Without(answers, c, "docs")  BY <2>1, ReloadsRead
    <3> QED  BY <1>2, <3>1 DEF DocsFit
  <2>2. CASE Dooms(call'[c], parent') \/ Archives(call'[c]) \/ Uploads(call'[c])
    BY <2>2 DEF DocsFit
  <2>3. CASE /\ live' = live /\ ~ Dooms(call[c], parent) /\ ~ Archives(call[c])
             /\ ~ Uploads(call[c])
             /\ \A d \in Calls : d # c => (Dooms(call[d], parent) => Dooms(call[d], parent'))
    <3>1. CASE WillShow(answers, "docs", items, Page(live))
      BY <1>2, <2>3, <3>1 DEF DocsFit
    <3>2. CASE ~ WillShow(answers, "docs", items, Page(live))
      <4>1. PICK d \in Calls : \/ ToRead(call[d], "docs") /\ Without(answers, d, "docs")
                               \/ Dooms(call[d], parent) \/ Archives(call[d]) \/ Uploads(call[d])
        BY <1>1, <3>2 DEF DocsFit
      <4>2. d # c  BY <1>4, <2>3, <4>1
      <4>3. call'[d] = call[d]  BY <1>3, <4>2
      <4>4. \/ ToRead(call'[d], "docs") /\ Without(answers, d, "docs")
            \/ Dooms(call'[d], parent') \/ Archives(call'[d]) \/ Uploads(call'[d])
        BY <2>3, <4>1, <4>2, <4>3
      <4> QED  BY <1>2, <4>4 DEF DocsFit
    <3> QED  BY <3>1, <3>2
  <2> QED  BY <1>1, <2>1, <2>2, <2>3 DEF KeepsDocs
<1> QED  BY <1>5, <1>6

\* Beside a deletion that is told right nothing else is under way.
LEMMA ActsTold ==
  ASSUME Types, ToldFits, NEW c \in Calls, Acts(c), call[c].op # "delete",
         halfway' = halfway, untold' = untold
  PROVE  ToldFits'
<1>1. /\ Busy(call[c]) /\ races' = races /\ crossed' = crossed /\ hasty' = hasty
      /\ dialog' \in {dialog, NoDialog} /\ \A d \in Calls : d # c => call'[d] = call[d]
  BY OneChanges DEF Acts
<1> SUFFICES ASSUME Calm' PROVE /\ ~ untold' /\ Counted(dialog, parent)'
                                /\ \A d \in Calls : ~ (call'[d].op = "delete" /\ Busy(call'[d]))
  BY DEF ToldFits
<1>2. Calm  BY <1>1 DEF Calm
<1>3. /\ ~ untold /\ Counted(dialog, parent)
      /\ \A d \in Calls : call[d].op = "delete" /\ Busy(call[d]) =>
           \A e \in Calls : e # d => Idle(e)
  BY <1>2 DEF ToldFits
<1>4. ~ Idle(c)  BY <1>1 DEF Idle, Busy
<1>5. dialog.kind # "delete"  BY <1>3, <1>4 DEF Counted
<1>6. dialog'.kind # "delete"  BY <1>1, <1>5 DEF NoDialog
<1>7. Counted(dialog, parent)'  BY <1>6 DEF Counted
<1>8. ASSUME NEW d \in Calls, call'[d].op = "delete", Busy(call'[d]) PROVE FALSE
  <2>1. CASE d = c
    <3>1. Goes(c)  BY <1>8, <2>1, OneChanges
    <3> QED  BY <1>8, <2>1, <3>1 DEF Goes
  <2>2. CASE d # c
    <3>1. call[d].op = "delete" /\ Busy(call[d])  BY <1>1, <1>8, <2>2
    <3> QED  BY <1>3, <1>4, <2>2, <3>1
  <2> QED  BY <2>1, <2>2
<1> QED  BY <1>3, <1>7, <1>8

\* Rows that stay or change, when all operations fit them afterwards.
LEMMA ActsServer ==
  ASSUME Types, NEW c \in Calls, Acts(c), live' \subseteq taken',
         ForestFits(parent', name', taken', races),
         CallFits(call'[c], parent', name', taken', races),
         \A d \in Calls : d # c => CallFits(call[d], parent', name', taken', races)
  PROVE  ServerFits'
<1>1. races' = races /\ \A d \in Calls : d # c => call'[d] = call[d]  BY OneChanges DEF Acts
<1>2. \A d \in Calls : CallFits(call'[d], parent', name', taken', races)  BY <1>1
<1> QED  BY <1>1, <1>2 DEF ServerFits

\* Put together.
LEMMA ActsKeep ==
  ASSUME IInv, NEW c \in Calls, Acts(c), ServerFits',
         \A d \in Calls : d # c => Apart(call'[c], call[d]) /\ Apart(call[d], call'[c]),
         halfway => halfway', ~ halfway' => KeepsTree(c) /\ KeepsDocs(c), ToldFits'
  PROVE  IInv'
<1>1. /\ Types /\ PairsFit /\ RefersTo(nodes, taken) /\ DialogFits /\ ListsFit /\ PanelFits
      /\ Local(call[c])
  BY DEF IInv, ServerFits, CallFits
<1>2. Types'  BY <1>1, ActsTypes
<1>3. PairsFit'  BY <1>1, ActsPairs
<1>4. ListsFit' /\ RefersTo(nodes, taken)' /\ DialogFits'  BY <1>1, ActsLists
<1>5. PanelFits'  BY <1>1, ActsPanel
<1> QED  BY <1>2, <1>3, <1>4, <1>5 DEF IInv
-----------------------------------------------------------------------------
(* Steps that read, and the ends of operations. *)

\* Only the program counter of s is set.
LEMMA PcSet ==
  ASSUME NEW s \in CallRecords, NEW x \in PCs
  PROVE  /\ [s EXCEPT !.pc = x] \in CallRecords /\ [s EXCEPT !.pc = x].pc = x
         /\ [s EXCEPT !.pc = x].op = s.op /\ [s EXCEPT !.pc = x].node = s.node
         /\ [s EXCEPT !.pc = x].to = s.to /\ [s EXCEPT !.pc = x].name = s.name
         /\ [s EXCEPT !.pc = x].from = s.from /\ [s EXCEPT !.pc = x].list = s.list
         /\ [s EXCEPT !.pc = x].docs = s.docs /\ [s EXCEPT !.pc = x].told = s.told
         /\ [s EXCEPT !.pc = x].todo = s.todo
BY DEF CallRecords

\* An operation that reads the lists t.
Reading(t, o) == [NewCall EXCEPT !.pc = "reload", !.todo = t, !.op = o]

\* The record of an operation that has not begun, and of one that reads lists.
LEMMA RestRecords ==
  /\ NewCall \in CallRecords
  /\ \A t \in Todos, o \in {"none", "delete", "archive"} :
       /\ Reading(t, o) \in CallRecords /\ Rests(Reading(t, o))
       /\ Reading(t, o).pc = "reload" /\ Reading(t, o).todo = t /\ Reading(t, o).op = o
<1>1. NewCall \in CallRecords
  BY DEF NewCall, CallRecords, PCs, Ops, Changes
<1>2. ASSUME NEW t \in Todos, NEW o \in {"none", "delete", "archive"}
      PROVE  /\ Reading(t, o) \in CallRecords /\ Rests(Reading(t, o))
             /\ Reading(t, o).pc = "reload" /\ Reading(t, o).todo = t /\ Reading(t, o).op = o
  <2> DEFINE r == Reading(t, o)
  <2>1. t \in Seq(SUBSET Lists)
    <3>1. \A a, b \in SUBSET Lists : <<a>> \in Seq(SUBSET Lists) /\ <<a, b>> \in Seq(SUBSET Lists)
      OBVIOUS
    <3>2. /\ {"tree"} \in SUBSET Lists /\ {"docs"} \in SUBSET Lists
          /\ {"tree", "docs"} \in SUBSET Lists
      BY DEF Lists
    <3> QED  BY <3>1, <3>2 DEF Todos
  <2>2. /\ r.pc = "reload" /\ r.todo = t /\ r.op = o /\ r.to = None /\ r.node = None
        /\ r.list = <<>>
    BY DEF NewCall, Reading
  <2>3. r \in CallRecords
    BY <1>1, <2>1 DEF CallRecords, PCs, Ops, Changes, Reading
  <2> HIDE DEF r
  <2>4. Rests(r)  BY <2>2 DEF Rests
  <2> QED  BY <2>2, <2>3, <2>4 DEF r
<1> QED  BY <1>1, <1>2

\* What the invariant says of one operation and of the rows.
LEMMA Holds ==
  ASSUME IInv, NEW c \in Calls
  PROVE  /\ Types /\ call[c] \in CallRecords /\ parent \in Parents /\ name \in NamesOf
         /\ taken \in SUBSET Nodes /\ live \subseteq taken /\ live \subseteq Docs
         /\ ForestFits(parent, name, taken, races) /\ RefersTo(parent, taken)
         /\ CallFits(call[c], parent, name, taken, races)
         /\ Local(call[c]) /\ Known(call[c], taken)
         /\ \A d \in Calls : CallFits(call[d], parent, name, taken, races)
         /\ \A d \in Calls : d # c => /\ Met(call[d], call[c], races)
                                      /\ Apart(call[c], call[d]) /\ Apart(call[d], call[c])
<1>1. Types /\ ServerFits /\ PairsFit  BY DEF IInv
<1>2. /\ call[c] \in CallRecords /\ parent \in Parents /\ name \in NamesOf
      /\ taken \in SUBSET Nodes /\ live \subseteq Docs
  BY <1>1 DEF Types, NamesOf
<1>3. /\ ForestFits(parent, name, taken, races) /\ live \subseteq taken
      /\ \A d \in Calls : CallFits(call[d], parent, name, taken, races)
  BY <1>1 DEF ServerFits
<1>4. RefersTo(parent, taken) /\ Local(call[c]) /\ Known(call[c], taken)
  BY <1>3 DEF ForestFits, CallFits
<1>5. \A d \in Calls : d # c => /\ Met(call[d], call[c], races)
                                /\ Apart(call[c], call[d]) /\ Apart(call[d], call[c])
  BY <1>1 DEF PairsFit, Met
<1> QED  BY <1>1, <1>2, <1>3, <1>4, <1>5

\* A statement that changes no row: the operation is over, or goes on and fits the rows.
LEMMA PlainKeeps ==
  ASSUME IInv, NEW c \in Calls, Busy(call[c]), call[c].op # "delete",
         ~ Uploads(call[c]), ~ Archives(call[c]),
         NEW r \in CallRecords, SetCall(c, r),
         UNCHANGED <<server, panel, answers, ops, history>>,
         \/ r = NewCall
         \/ /\ Busy(r) /\ r.op = call[c].op /\ r.todo = call[c].todo /\ r.told = call[c].told
            /\ r.list = call[c].list /\ ~ Uploads(r)
            /\ CallFits(r, parent, name, taken, races)
  PROVE  IInv'
<1>0. /\ Types /\ call[c] \in CallRecords /\ parent \in Parents /\ name \in NamesOf
      /\ taken \in SUBSET Nodes /\ live \subseteq taken /\ live \subseteq Docs
      /\ ForestFits(parent, name, taken, races)
      /\ \A d \in Calls : CallFits(call[d], parent, name, taken, races)
      /\ \A d \in Calls : d # c => Apart(call[d], call[c])
  BY Holds
<1>1. /\ parent' = parent /\ name' = name /\ live' = live /\ taken' = taken
      /\ nodes' = nodes /\ items' = items /\ answers' = answers /\ dialog' = dialog
      /\ races' = races /\ crossed' = crossed /\ hasty' = hasty
      /\ halfway' = halfway /\ untold' = untold
  BY DEF server, panel, shown, history
<1>2. call' = [call EXCEPT ![c] = r] /\ call'[c] = r  BY <1>0 DEF SetCall, Types
<1>3. halfway \in BOOLEAN /\ untold \in BOOLEAN  BY <1>0 DEF Types
<1>4. Ends(c) \/ Goes(c)  BY <1>1, <1>2 DEF Ends, Goes
<1>5. Acts(c)  BY <1>0, <1>1, <1>2, <1>3, <1>4 DEF Acts
<1>6. CallFits(r, parent, name, taken, races)  BY RestFits DEF Rests
<1>7. ServerFits'  BY <1>0, <1>1, <1>2, <1>5, <1>6, ActsServer
<1>8. ASSUME NEW d \in Calls, d # c
      PROVE  Apart(call'[c], call[d]) /\ Apart(call[d], call'[c])
  <2>1. ~ Uploads(r) /\ (r.list = <<>> \/ r.list = call[c].list)
    BY DEF NewCall, Uploads
  <2>2. Apart(r, call[d])  BY <2>1 DEF Apart
  <2>3. Apart(call[d], r)
    <3>1. Apart(call[d], call[c])  BY <1>0, <1>8
    <3> QED  BY <2>1, <3>1 DEF Apart
  <2> QED  BY <1>2, <2>2, <2>3
<1>9. KeepsTree(c) /\ KeepsDocs(c)  BY <1>1 DEF KeepsTree, KeepsDocs, Deletes, Dooms
<1>10. ToldFits'
  <2>1. ToldFits  BY DEF IInv
  <2> QED  BY <1>0, <1>1, <1>5, <2>1, ActsTold
<1> QED  BY <1>1, <1>5, <1>7, <1>8, <1>9, <1>10, ActsKeep

\* A request is refused.
LEMMA RefuseKeeps ==
  ASSUME IInv, NEW c \in Calls, Busy(call[c]), call[c].op # "delete",
         ~ Uploads(call[c]), ~ Archives(call[c]), Refuse(c)
  PROVE  IInv'
<1>1. NewCall \in CallRecords  BY RestRecords
<1> QED  BY <1>1, PlainKeeps DEF Refuse

\* The next statement: the operation goes on at x.
LEMMA ProceedKeeps ==
  ASSUME IInv, NEW c \in Calls, Busy(call[c]), call[c].op # "delete",
         ~ Uploads(call[c]), ~ Archives(call[c]), NEW x \in PCs, Proceed(c, x),
         x # "idle", x # "reload", call[c].op # "upload",
         CallFits([call[c] EXCEPT !.pc = x], parent, name, taken, races)
  PROVE  IInv'
<1> DEFINE r == [call[c] EXCEPT !.pc = x]
<1>0. call[c] \in CallRecords  BY Holds
<1>1. /\ r \in CallRecords /\ r.pc = x /\ r.op = call[c].op /\ r.todo = call[c].todo
      /\ r.told = call[c].told /\ r.list = call[c].list
  BY <1>0, PcSet
<1>2. SetCall(c, r) /\ UNCHANGED <<server, panel, answers, ops, history>>
  BY DEF Proceed, CallTo
<1>3. CallFits(r, parent, name, taken, races)  OBVIOUS
<1> HIDE DEF r
<1>4. Busy(r) /\ ~ Uploads(r)  BY <1>1 DEF Busy, Uploads
<1> QED  BY <1>1, <1>2, <1>3, <1>4, PlainKeeps

\* An operation other than a deletion succeeds; the rows and the other operations fit.
LEMMA SucceedKeeps ==
  ASSUME IInv, NEW c \in Calls, Busy(call[c]), call[c].op # "delete", Succeed(c),
         UNCHANGED <<live, history>>, taken \subseteq taken', taken' \subseteq Nodes,
         parent' \in Parents, name' \in NamesOf,
         ForestFits(parent', name', taken', races),
         \A d \in Calls : d # c => CallFits(call[d], parent', name', taken', races),
         \/ call[c].op \notin {"folder", "rename"}
         \/ \A d \in Docs : parent'[d] = parent[d]
  PROVE  IInv'
<1>0. /\ Types /\ call[c] \in CallRecords /\ taken \in SUBSET Nodes /\ live \subseteq taken
      /\ live \subseteq Docs /\ Local(call[c])
  BY Holds
<1>1. /\ live' = live
      /\ nodes' = nodes /\ items' = items /\ answers' = answers
      /\ races' = races /\ crossed' = crossed /\ hasty' = hasty
      /\ halfway' = halfway /\ untold' = untold
  BY DEF Succeed, shown, history
<1>2. call[c].todo \in Todos  BY <1>0 DEF Local, TodoOf, Todos
<1> DEFINE o == IF call[c].op \in {"delete", "archive"} THEN call[c].op ELSE "none"
           r == Reading(call[c].todo, o)
<1>3. o \in {"none", "delete", "archive"}  OBVIOUS
<1>4. SetCall(c, r)  BY DEF Succeed, Reading
<1>5. r \in CallRecords /\ Rests(r) /\ r.pc = "reload" /\ r.todo = call[c].todo /\ r.op = o
  BY <1>2, <1>3, RestRecords
<1> HIDE DEF r
<1>6. call' = [call EXCEPT ![c] = r] /\ call'[c] = r  BY <1>0, <1>4 DEF SetCall, Types
<1>7. Reloads(c)  BY <1>5, <1>6 DEF Reloads, Succeed
<1>8. halfway \in BOOLEAN /\ untold \in BOOLEAN  BY <1>0 DEF Types
<1>9. Acts(c)  BY <1>0, <1>1, <1>5, <1>6, <1>7, <1>8 DEF Acts
<1>10. CallFits(r, parent', name', taken', races)  BY <1>5, RestFits
<1>11. ServerFits'  BY <1>0, <1>1, <1>6, <1>9, <1>10, ActsServer
<1>12. ASSUME NEW d \in Calls, d # c
       PROVE  Apart(call'[c], call[d]) /\ Apart(call[d], call'[c])
  <2>1. ~ Uploads(r) /\ r.list = <<>>  BY <1>5 DEF Rests, NewCall, Uploads
  <2> QED  BY <1>6, <2>1 DEF Apart
<1>13. KeepsTree(c)  BY <1>5, <1>6 DEF KeepsTree
<1>14. KeepsDocs(c)
  <2>1. CASE call[c].op \notin {"folder", "rename"}
    BY <1>5, <1>6, <2>1 DEF KeepsDocs
  <2>2. CASE call[c].op \in {"folder", "rename"}
    <3>1. \A d \in Calls : Dooms(call[d], parent) => Dooms(call[d], parent')
      BY <2>2 DEF Dooms
    <3>2. ~ Dooms(call[c], parent) /\ ~ Archives(call[c]) /\ ~ Uploads(call[c])
      BY <2>2 DEF Dooms, Deletes, Archives, Uploads
    <3> QED  BY <1>1, <3>1, <3>2 DEF KeepsDocs
  <2> QED  BY <2>1, <2>2
<1>15. ToldFits'
  <2>1. ToldFits  BY DEF IInv
  <2> QED  BY <1>0, <1>1, <1>9, <2>1, ActsTold
<1> QED  BY <1>1, <1>9, <1>11, <1>12, <1>13, <1>14, <1>15, ActsKeep
-----------------------------------------------------------------------------
(* CreateFolder and RenameNode. *)

\* An operation of CreateFolder that goes on.
LEMMA GoFolder ==
  ASSUME NEW p, NEW nm, NEW S, NEW R, NEW s \in CallRecords, CallFits(s, p, nm, S, R),
         s.op = "folder", Busy(s), NEW x \in {"depth", "names", "write"},
         ~ OrphanRace(R) => s.to = Root \/ p[s.to] # None,
         Shallow(R) /\ x # "depth" => Depth(p, s.to) + 1 <= MaxFolderDepth,
         ~ NamesRace(R) /\ x = "write" => \A g \in Folders : p[g] = s.to => nm[g] # s.name
  PROVE  CallFits([s EXCEPT !.pc = x], p, nm, S, R)
<1> DEFINE r == [s EXCEPT !.pc = x]
<1>1. x \in PCs  BY DEF PCs
<1>2. /\ r.pc = x /\ r.op = s.op /\ r.node = s.node /\ r.to = s.to /\ r.name = s.name
      /\ r.list = s.list /\ r.todo = s.todo /\ r.docs = s.docs
  BY <1>1, PcSet
<1>3. Local(s) /\ Known(s, S)  BY DEF CallFits
<1> HIDE DEF r
<1>4. Busy(r)  BY <1>2 DEF Busy
<1>5. Local(r)  BY <1>2, <1>3, <1>4 DEF Local, Busy
<1>6. Known(r, S)  BY <1>2, <1>3 DEF Known
<1>7. Comes(r, p, S) /\ MakesNoCycle(r, p)  BY <1>2 DEF Comes, Uploads, MakesNoCycle
<1>8. Shallow(R) => StaysShallow(r, p)  BY <1>2 DEF StaysShallow
<1>9. ~ NamesRace(R) => StaysDistinct(r, p, nm)  BY <1>2 DEF StaysDistinct
<1>10. ~ OrphanRace(R) => StaysWhole(r, p)  BY <1>2 DEF StaysWhole
<1> QED  BY <1>5, <1>6, <1>7, <1>8, <1>9, <1>10 DEF CallFits, r

\* The request finds the parent.
LEMMA FolderFindKeeps ==
  ASSUME IInv, NEW c \in Calls, FolderFind(c)
  PROVE  IInv'
<1>1. /\ call[c] \in CallRecords /\ parent \in Parents
      /\ CallFits(call[c], parent, name, taken, races)
  BY Holds
<1>2. call[c].op = "folder" /\ call[c].pc = "find" /\ Busy(call[c])
  BY DEF FolderFind, At, Busy
<1>3. ~ Uploads(call[c]) /\ ~ Archives(call[c]) /\ call[c].op # "delete" /\ call[c].op # "upload"
  BY <1>2 DEF Uploads, Archives
<1>4. CASE call[c].to = Root /\ Proceed(c, "names")
  <2>1. Depth(parent, Root) + 1 <= MaxFolderDepth
    <3>1. Chain(parent, Root) = {}  BY <1>1, ChainOf
    <3>2. Ancestors(parent, Root) = {}  BY <3>1 DEF Ancestors
    <3>3. Depth(parent, Root) = 0  BY <3>2, FS_EmptySet DEF Depth
    <3> QED  BY <3>3, TreeAssumption
  <2>2. CallFits([call[c] EXCEPT !.pc = "names"], parent, name, taken, races)
    BY <1>1, <1>2, <1>4, <2>1, GoFolder
  <2> QED  BY <1>2, <1>3, <1>4, <2>2, ProceedKeeps DEF PCs
<1>5. CASE Refuse(c)  BY <1>2, <1>3, <1>5, RefuseKeeps
<1>6. CASE Exists(call[c].to) /\ Proceed(c, "depth")
  <2>1. call[c].to = Root \/ parent[call[c].to] # None  BY <1>6 DEF Exists
  <2>2. CallFits([call[c] EXCEPT !.pc = "depth"], parent, name, taken, races)
    BY <1>1, <1>2, <2>1, GoFolder
  <2> QED  BY <1>2, <1>3, <1>6, <2>2, ProceedKeeps DEF PCs
<1> QED  BY <1>4, <1>5, <1>6 DEF FolderFind

\* The depth of the parent is asked for.
LEMMA FolderDepthKeeps ==
  ASSUME IInv, NEW c \in Calls, FolderDepth(c)
  PROVE  IInv'
<1>1. /\ call[c] \in CallRecords /\ parent \in Parents /\ Local(call[c])
      /\ CallFits(call[c], parent, name, taken, races)
  BY Holds
<1>2. call[c].op = "folder" /\ call[c].pc = "depth" /\ Busy(call[c])
  BY DEF FolderDepth, At, Busy
<1>3. ~ Uploads(call[c]) /\ ~ Archives(call[c]) /\ call[c].op # "delete" /\ call[c].op # "upload"
  BY <1>2 DEF Uploads, Archives
<1>4. CASE Refuse(c)  BY <1>2, <1>3, <1>4, RefuseKeeps
<1>5. CASE ~ (Depth(parent, call[c].to) + 1 > MaxFolderDepth) /\ Proceed(c, "names")
  <2>1. call[c].to \in Nodes \cup {Root}  BY <1>1, <1>2 DEF Local, Homes, Nodes
  <2>2. Depth(parent, call[c].to) \in Nat  BY <1>1, <2>1, ChainsAreFolders
  <2>3. Depth(parent, call[c].to) + 1 <= MaxFolderDepth  BY <1>5, <2>2, TreeAssumption
  <2>4. ~ OrphanRace(races) => call[c].to = Root \/ parent[call[c].to] # None
    BY <1>1, <1>2 DEF CallFits, StaysWhole, Adding
  <2>5. CallFits([call[c] EXCEPT !.pc = "names"], parent, name, taken, races)
    BY <1>1, <1>2, <2>3, <2>4, GoFolder
  <2> QED  BY <1>2, <1>3, <1>5, <2>5, ProceedKeeps DEF PCs
<1> QED  BY <1>4, <1>5 DEF FolderDepth

\* The names beside it are read.
LEMMA FolderNamesKeeps ==
  ASSUME IInv, NEW c \in Calls, FolderNames(c)
  PROVE  IInv'
<1>1. /\ call[c] \in CallRecords /\ CallFits(call[c], parent, name, taken, races)
  BY Holds
<1>2. call[c].op = "folder" /\ call[c].pc = "names" /\ Busy(call[c])
  BY DEF FolderNames, At, Busy
<1>3. ~ Uploads(call[c]) /\ ~ Archives(call[c]) /\ call[c].op # "delete" /\ call[c].op # "upload"
  BY <1>2 DEF Uploads, Archives
<1>4. CASE Refuse(c)  BY <1>2, <1>3, <1>4, RefuseKeeps
<1>5. CASE ~ NameTaken(None, call[c].to, call[c].name) /\ Proceed(c, "write")
  <2>1. \A g \in Folders : parent[g] = call[c].to => name[g] # call[c].name
    BY <1>5, NodesAreFinite DEF NameTaken, Children, Nodes
  <2>2. Shallow(races) => Depth(parent, call[c].to) + 1 <= MaxFolderDepth
    BY <1>1, <1>2 DEF CallFits, StaysShallow
  <2>3. ~ OrphanRace(races) => call[c].to = Root \/ parent[call[c].to] # None
    BY <1>1, <1>2 DEF CallFits, StaysWhole, Adding
  <2>4. CallFits([call[c] EXCEPT !.pc = "write"], parent, name, taken, races)
    BY <1>1, <1>2, <2>1, <2>2, <2>3, GoFolder
  <2> QED  BY <1>2, <1>3, <1>5, <2>4, ProceedKeeps DEF PCs
<1> QED  BY <1>4, <1>5 DEF FolderNames

\* The folder is inserted.
LEMMA FolderInsertKeeps ==
  ASSUME IInv, NEW c \in Calls, FolderInsert(c)
  PROVE  IInv'
<1>1. /\ call[c] \in CallRecords /\ parent \in Parents /\ name \in NamesOf
      /\ taken \in SUBSET Nodes /\ ForestFits(parent, name, taken, races)
      /\ CallFits(call[c], parent, name, taken, races)
      /\ \A d \in Calls : CallFits(call[d], parent, name, taken, races)
      /\ \A d \in Calls : d # c => Met(call[d], call[c], races)
  BY Holds
<1>2. call[c].op = "folder" /\ call[c].pc = "write" /\ Busy(call[c])
  BY DEF FolderInsert, At, Busy
<1>3. PICK f \in Folders \ taken : /\ parent' = [parent EXCEPT ![f] = call[c].to]
                                   /\ name' = [name EXCEPT ![f] = call[c].name]
                                   /\ taken' = taken \cup {f}
  BY DEF FolderInsert
<1>4. Succeed(c) /\ UNCHANGED <<live, history>>  BY DEF FolderInsert
<1>5. ForestFits(parent', name', taken', races)  BY <1>1, <1>2, <1>3, InsertForest
<1>6. ASSUME NEW d \in Calls, d # c PROVE CallFits(call[d], parent', name', taken', races)
  BY <1>1, <1>2, <1>3, <1>6, InsertOthers
<1>7. call[c].to \in Homes /\ call[c].name \in Names  BY <1>1, <1>2, WriterIs
<1>8. parent' \in Parents /\ name' \in NamesOf
  BY <1>1, <1>3, <1>7 DEF Parents, NamesOf, Homes
<1>9. taken \subseteq taken' /\ taken' \subseteq Nodes  BY <1>1, <1>3 DEF Nodes
<1>10. \A d \in Docs : parent'[d] = parent[d]
  BY <1>1, <1>3, NodesAreFinite DEF Parents, Nodes
<1> QED  BY <1>2, <1>4, <1>5, <1>6, <1>8, <1>9, <1>10, SucceedKeeps

\* The row and the place to look for the name.
LEMMA RenameFindKeeps ==
  ASSUME IInv, NEW c \in Calls, RenameFind(c)
  PROVE  IInv'
<1>1. /\ call[c] \in CallRecords /\ parent \in Parents /\ RefersTo(parent, taken)
      /\ Local(call[c]) /\ Known(call[c], taken)
      /\ CallFits(call[c], parent, name, taken, races)
  BY Holds
<1>2. call[c].op = "rename" /\ call[c].pc = "find" /\ Busy(call[c])
  BY DEF RenameFind, At, Busy
<1>3. ~ Uploads(call[c]) /\ ~ Archives(call[c]) /\ call[c].op # "delete"
  BY <1>2 DEF Uploads, Archives
<1>4. CASE Refuse(c)  BY <1>2, <1>3, <1>4, RefuseKeeps
<1>5. CASE /\ Exists(call[c].node)
           /\ SetCall(c, [call[c] EXCEPT !.pc = "names", !.to = parent[call[c].node]])
           /\ UNCHANGED <<server, panel, answers, ops, history>>
  <2> DEFINE s == call[c]
             r == [s EXCEPT !.pc = "names", !.to = parent[s.node]]
  <2>1. s.node \in Folders /\ s.node \in Nodes /\ s.node # Root /\ s.name \in Names
    BY <1>1, <1>2, NodesAreFinite DEF Local, Nodes
  <2>2. parent[s.node] # None /\ parent[s.node] \in Homes
    BY <1>1, <1>5, <2>1 DEF Exists, Parents, Homes
  <2>3. parent[s.node] \in taken \cup {Root}  BY <1>1, <2>1, <2>2 DEF RefersTo
  <2>4. /\ r \in CallRecords /\ r.pc = "names" /\ r.op = s.op /\ r.node = s.node
        /\ r.to = parent[s.node] /\ r.name = s.name /\ r.list = s.list /\ r.todo = s.todo
        /\ r.told = s.told
    BY <1>1, <2>2 DEF CallRecords, PCs
  <2>5. SetCall(c, r)  BY <1>5
  <2> HIDE DEF r
  <2>6. Busy(r) /\ ~ Uploads(r)  BY <2>4 DEF Busy, Uploads
  <2>7. Local(r)  BY <1>1, <1>2, <2>1, <2>2, <2>4, <2>6 DEF Local, Busy
  <2>8. Known(r, taken)  BY <1>1, <2>3, <2>4 DEF Known
  <2>9. /\ Comes(r, parent, taken) /\ MakesNoCycle(r, parent) /\ StaysShallow(r, parent)
    BY <1>2, <2>4 DEF Comes, Uploads, MakesNoCycle, StaysShallow
  <2>10. StaysDistinct(r, parent, name) /\ StaysWhole(r, parent)
    BY <1>2, <2>4 DEF StaysDistinct, StaysWhole, Adding
  <2>11. CallFits(r, parent, name, taken, races)
    BY <2>7, <2>8, <2>9, <2>10 DEF CallFits
  <2> QED  BY <1>2, <1>3, <1>5, <2>4, <2>5, <2>6, <2>11, PlainKeeps
<1> QED  BY <1>4, <1>5 DEF RenameFind

\* The names beside it are read.
LEMMA RenameNamesKeeps ==
  ASSUME IInv, NEW c \in Calls, RenameNames(c)
  PROVE  IInv'
<1>1. /\ call[c] \in CallRecords /\ CallFits(call[c], parent, name, taken, races)
      /\ Local(call[c]) /\ Known(call[c], taken)
  BY Holds
<1>2. call[c].op = "rename" /\ call[c].pc = "names" /\ Busy(call[c])
  BY DEF RenameNames, At, Busy
<1>3. ~ Uploads(call[c]) /\ ~ Archives(call[c]) /\ call[c].op # "delete" /\ call[c].op # "upload"
  BY <1>2 DEF Uploads, Archives
<1>4. CASE Refuse(c)  BY <1>2, <1>3, <1>4, RefuseKeeps
<1>5. CASE ~ NameTaken(call[c].node, call[c].to, call[c].name) /\ Proceed(c, "write")
  <2> DEFINE s == call[c]
             r == [s EXCEPT !.pc = "write"]
  <2>1. \A g \in Folders : parent[g] = s.to /\ g # s.node => name[g] # s.name
    BY <1>5 DEF NameTaken, Children, Nodes
  <2>2. /\ r.pc = "write" /\ r.op = s.op /\ r.node = s.node /\ r.to = s.to
        /\ r.name = s.name /\ r.list = s.list /\ r.todo = s.todo
    BY <1>1, PcSet DEF PCs
  <2> HIDE DEF r
  <2>3. Local(r)  BY <1>1, <1>2, <2>2 DEF Local, Busy
  <2>4. Known(r, taken)  BY <1>1, <2>2 DEF Known
  <2>5. /\ Comes(r, parent, taken) /\ MakesNoCycle(r, parent) /\ StaysShallow(r, parent)
        /\ StaysWhole(r, parent)
    BY <1>2, <2>2 DEF Comes, Uploads, MakesNoCycle, StaysShallow, StaysWhole, Adding
  <2>6. ~ NamesRace(races) => StaysDistinct(r, parent, name)
    BY <1>1, <1>2, <2>1, <2>2 DEF CallFits, StaysDistinct
  <2>7. CallFits(r, parent, name, taken, races)
    BY <2>3, <2>4, <2>5, <2>6 DEF CallFits
  <2> QED  BY <1>2, <1>3, <1>5, <2>7, ProceedKeeps DEF PCs, r
<1> QED  BY <1>4, <1>5 DEF RenameNames

\* The name is updated.
LEMMA RenameUpdateKeeps ==
  ASSUME IInv, NEW c \in Calls, RenameUpdate(c)
  PROVE  IInv'
<1>1. /\ call[c] \in CallRecords /\ parent \in Parents /\ name \in NamesOf
      /\ taken \in SUBSET Nodes /\ ForestFits(parent, name, taken, races)
      /\ CallFits(call[c], parent, name, taken, races)
      /\ \A d \in Calls : CallFits(call[d], parent, name, taken, races)
      /\ \A d \in Calls : d # c => Met(call[d], call[c], races)
  BY Holds
<1>2. call[c].op = "rename" /\ call[c].pc = "write" /\ Busy(call[c])
  BY DEF RenameUpdate, At, Busy
<1>3. ~ Uploads(call[c]) /\ ~ Archives(call[c])  BY <1>2 DEF Uploads, Archives
<1>4. CASE Refuse(c)  BY <1>2, <1>3, <1>4, RefuseKeeps
<1>5. CASE /\ Exists(call[c].node)
           /\ name' = [name EXCEPT ![call[c].node] = call[c].name]
           /\ Succeed(c) /\ UNCHANGED <<parent, live, taken, history>>
  <2>1. call[c].node \in Folders /\ call[c].node # Root /\ call[c].name \in Names
    BY <1>1, <1>2, WriterIs, NodesAreFinite
  <2>2. parent[call[c].node] # None  BY <1>5, <2>1 DEF Exists
  <2>3. ForestFits(parent, name', taken, races)  BY <1>1, <1>2, <1>5, <2>2, RenameForest
  <2>4. ASSUME NEW d \in Calls, d # c PROVE CallFits(call[d], parent, name', taken, races)
    BY <1>1, <1>2, <1>5, <2>4, RenameOthers
  <2>5. name' \in NamesOf  BY <1>1, <1>5, <2>1 DEF NamesOf
  <2>6. parent' = parent /\ taken' = taken /\ UNCHANGED <<live, history>>  BY <1>5
  <2> QED  BY <1>1, <1>2, <1>5, <2>3, <2>4, <2>5, <2>6, SucceedKeeps
<1> QED  BY <1>4, <1>5 DEF RenameUpdate
-----------------------------------------------------------------------------
(* MoveNode. *)

\* The part of a folder's chain that is below another is at most the subtree's depth.
LEMMA SubtreeBound ==
  ASSUME NEW p \in Parents, NEW n \in Nodes
  PROVE  /\ SubtreeMaxDepth(p, n) \in Nat
         /\ \A m \in Folders \cap Subtree(p, n) :
              /\ Cardinality(Ancestors(p, m) \cap Subtree(p, n)) <= SubtreeMaxDepth(p, n) + 1
              /\ Cardinality(Ancestors(p, m) \cap Subtree(p, n)) <= Depth(p, m)
              /\ Cardinality(Ancestors(p, m) \cap Subtree(p, n)) \in Nat
<1> DEFINE C(m) == Ancestors(p, m) \cap Subtree(p, n)
           B == {0} \cup {Cardinality(C(m)) - 1 : m \in Subtree(p, n) \cap Folders}
           N == Cardinality(Nodes)
<1>1. ASSUME NEW m \in Folders \cap Subtree(p, n)
      PROVE  /\ Cardinality(C(m)) \in 1 .. N /\ Cardinality(C(m)) <= Depth(p, m)
  <2>1. m \in Nodes /\ n \in Ancestors(p, m)  BY DEF Subtree
  <2>2. m \in Chain(p, m) /\ (p[m] = None => Chain(p, m) = {m})
    BY <2>1, ChainOf, NodesAreFinite
  <2>3. p[m] # None  BY <2>1, <2>2 DEF Ancestors
  <2>4. m \in C(m)  BY <2>1, <2>2, <2>3 DEF Ancestors
  <2>5. IsFiniteSet(Ancestors(p, m))  BY <2>1, ChainsAreFolders
  <2>6. C(m) \in SUBSET Ancestors(p, m) /\ C(m) \in SUBSET Nodes  BY DEF Subtree
  <2>7. IsFiniteSet(C(m)) /\ Cardinality(C(m)) <= Depth(p, m)
    BY <2>5, <2>6, FS_Subset DEF Depth
  <2>8. Cardinality(C(m)) <= N  BY <2>6, NodesAreFinite, FS_Subset
  <2>9. Cardinality(C(m)) \in Nat /\ Cardinality(C(m)) # 0
    BY <2>4, <2>7, FS_CardinalityType, FS_EmptySet
  <2> QED  BY <2>7, <2>8, <2>9, NodesAreFinite
<1>2. N \in Nat  BY NodesAreFinite
<1>3. SubtreeMaxDepth(p, n) = Max(B)  BY DEF SubtreeMaxDepth
<1>4. \A m \in Folders \cap Subtree(p, n) : Cardinality(C(m)) - 1 \in B  OBVIOUS
<1>5. B \in SUBSET (0 .. N) /\ B # {}
  <2> HIDE DEF C, N
  <2>1. \A m \in Folders \cap Subtree(p, n) : Cardinality(C(m)) - 1 \in 0 .. N  BY <1>1, <1>2
  <2> QED  BY <1>2, <2>1
<1> HIDE DEF B, N
<1>6. Max(B) \in B /\ \A y \in B : Max(B) >= y  BY <1>2, <1>5, MaxIsIn
<1>7. Max(B) \in Nat
  <2>1. \A y \in B : y \in 0 .. N  BY <1>5
  <2>2. Max(B) \in 0 .. N  BY <1>6, <2>1
  <2> QED  BY <1>2, <2>2
<1>8. ASSUME NEW m \in Folders \cap Subtree(p, n)
      PROVE  /\ Cardinality(C(m)) <= Max(B) + 1 /\ Cardinality(C(m)) <= Depth(p, m)
             /\ Cardinality(C(m)) \in Nat
  <2>1. Cardinality(C(m)) \in 1 .. N /\ Cardinality(C(m)) <= Depth(p, m)  BY <1>1
  <2>2. Cardinality(C(m)) - 1 <= Max(B)  BY <1>4, <1>6, <1>7, <2>1, <1>2
  <2> HIDE DEF C
  <2> QED  BY <1>2, <1>7, <2>1, <2>2
<1> QED  BY <1>3, <1>7, <1>8

\* A folder put under to does not take its subfolders below the limit.
FitsUnder(p, n, to) ==
  \A m \in Folders \cap Subtree(p, n) :
    Cardinality(Ancestors(p, m) \cap Subtree(p, n)) + Depth(p, to) <= MaxFolderDepth

\* An operation s of MoveNode that goes on as r.
LEMMA GoMove ==
  ASSUME NEW p, NEW nm, NEW S, NEW R, NEW s, CallFits(s, p, nm, S, R), s.op = "move", Busy(s),
         NEW r, r.op = s.op, r.node = s.node, r.to = s.to, r.list = s.list, r.todo = s.todo,
         r.pc \in {"cycle", "depth", "same", "names", "write"},
         ~ OrphanRace(R) => s.to = Root \/ p[s.to] # None,
         NoMoves(R) /\ r.pc \in {"depth", "names", "write"} =>
           s.node \notin Chain(p, s.to) \/ p[s.node] = None,
         Shallow(R) /\ r.pc \in {"names", "write"} => FitsUnder(p, s.node, s.to),
         ~ NamesRace(R) /\ r.pc # "same" => nm[s.node] = r.name \/ p[s.node] = None,
         ~ NamesRace(R) /\ r.pc = "write" =>
           \A g \in Folders : p[g] = s.to /\ g # s.node => nm[g] # r.name
  PROVE  CallFits(r, p, nm, S, R)
<1>1. Local(s) /\ Known(s, S) /\ Busy(r)  BY DEF CallFits, Busy
<1>2. Local(r)  BY <1>1 DEF Local, Busy
<1>3. Known(r, S)  BY <1>1 DEF Known
<1>4. Comes(r, p, S)  BY DEF Comes, Uploads
<1>5. NoMoves(R) => MakesNoCycle(r, p)  BY DEF MakesNoCycle
<1>6. Shallow(R) => StaysShallow(r, p)  BY DEF StaysShallow, FitsUnder
<1>7. ~ NamesRace(R) => StaysDistinct(r, p, nm)  BY DEF StaysDistinct
<1>8. ~ OrphanRace(R) => StaysWhole(r, p)  BY DEF StaysWhole
<1> QED  BY <1>2, <1>3, <1>4, <1>5, <1>6, <1>7, <1>8 DEF CallFits

\* Both rows are found; the folder's name and place are kept.
LEMMA MoveFindKeeps ==
  ASSUME IInv, NEW c \in Calls, MoveFind(c)
  PROVE  IInv'
<1>1. /\ call[c] \in CallRecords /\ parent \in Parents /\ name \in NamesOf
      /\ Local(call[c]) /\ CallFits(call[c], parent, name, taken, races)
      /\ ForestFits(parent, name, taken, races)
  BY Holds
<1>2. call[c].op = "move" /\ call[c].pc = "find" /\ Busy(call[c])
  BY DEF MoveFind, At, Busy
<1>3. ~ Uploads(call[c]) /\ ~ Archives(call[c]) /\ call[c].op # "delete"
  BY <1>2 DEF Uploads, Archives
<1>4. CASE Refuse(c)  BY <1>2, <1>3, <1>4, RefuseKeeps
<1> DEFINE s == call[c]
           x == IF s.to # Root THEN "cycle" ELSE IF parent[s.node] = Root THEN "same" ELSE "names"
           r == [s EXCEPT !.name = name[s.node], !.from = parent[s.node], !.pc = x]
<1>5. CASE /\ Exists(s.node) /\ Exists(s.to) /\ SetCall(c, r)
           /\ UNCHANGED <<server, panel, answers, ops, history>>
  <2>1. s.node \in Folders /\ s.node \in Nodes /\ s.to \in Homes
    BY <1>1, <1>2, NodesAreFinite DEF Local, Nodes
  <2>2. name[s.node] \in Names \cup {None} /\ parent[s.node] \in Homes \cup {None}
    BY <1>1, <2>1 DEF NamesOf, Parents, Homes
  <2>3. x \in PCs /\ x \in {"cycle", "same", "names"} /\ (x # "cycle" => s.to = Root)
    BY DEF PCs
  <2>4. /\ r \in CallRecords /\ r.pc = x /\ r.op = s.op /\ r.node = s.node
        /\ r.to = s.to /\ r.name = name[s.node] /\ r.list = s.list /\ r.todo = s.todo
        /\ r.told = s.told
    BY <1>1, <2>2, <2>3 DEF CallRecords
  <2>5. SetCall(c, r)  BY <1>5
  <2> HIDE DEF r, x
  <2>6. Busy(r) /\ ~ Uploads(r)  BY <1>2, <2>3, <2>4 DEF Busy, Uploads
  <2>7. s.to = Root \/ parent[s.to] # None  BY <1>5 DEF Exists
  <2>8. Chain(parent, Root) = {} /\ Ancestors(parent, Root) = {}
    BY <1>1, ChainOf DEF Ancestors
  <2>9. Depth(parent, Root) = 0  BY <2>8, FS_EmptySet DEF Depth
  <2>10. ASSUME Shallow(races), x = "names" PROVE FitsUnder(parent, s.node, s.to)
    <3> SUFFICES ASSUME NEW m \in Folders \cap Subtree(parent, s.node)
                 PROVE  Cardinality(Ancestors(parent, m) \cap Subtree(parent, s.node))
                          + Depth(parent, s.to) <= MaxFolderDepth
      BY DEF FitsUnder
    <3> DEFINE k == Cardinality(Ancestors(parent, m) \cap Subtree(parent, s.node))
    <3>1. k <= Depth(parent, m) /\ k \in Nat  BY <1>1, <2>1, SubtreeBound
    <3>2. Depth(parent, m) <= MaxFolderDepth  BY <1>1, <2>10 DEF ForestFits, DepthsFit
    <3>3. Depth(parent, m) \in Nat  BY <1>1, ChainsAreFolders DEF Nodes
    <3>4. Depth(parent, s.to) = 0  BY <2>3, <2>9, <2>10
    <3> HIDE DEF k
    <3>5. k + Depth(parent, s.to) <= MaxFolderDepth
      BY <3>1, <3>2, <3>3, <3>4, TreeAssumption
    <3> QED  BY <3>5 DEF k
  <2>11. NoMoves(races) /\ r.pc \in {"depth", "names", "write"} =>
           s.node \notin Chain(parent, s.to) \/ parent[s.node] = None
    BY <2>3, <2>4, <2>8
  <2>12. CallFits(r, parent, name, taken, races)
    BY <1>1, <1>2, <2>3, <2>4, <2>7, <2>10, <2>11, GoMove
  <2> QED  BY <1>2, <1>3, <1>5, <2>4, <2>5, <2>6, <2>12, PlainKeeps
<1> QED  BY <1>4, <1>5 DEF MoveFind

\* The folder is not above its new place.
LEMMA MoveCycleKeeps ==
  ASSUME IInv, NEW c \in Calls, MoveCycle(c)
  PROVE  IInv'
<1>1. /\ call[c] \in CallRecords /\ CallFits(call[c], parent, name, taken, races)
  BY Holds
<1>2. call[c].op = "move" /\ call[c].pc = "cycle" /\ Busy(call[c])
  BY DEF MoveCycle, At, Busy
<1>3. ~ Uploads(call[c]) /\ ~ Archives(call[c]) /\ call[c].op # "delete" /\ call[c].op # "upload"
  BY <1>2 DEF Uploads, Archives
<1>4. CASE Refuse(c)  BY <1>2, <1>3, <1>4, RefuseKeeps
<1>5. CASE call[c].node \notin Ancestors(parent, call[c].to) /\ Proceed(c, "depth")
  <2> DEFINE s == call[c]
             r == [s EXCEPT !.pc = "depth"]
  <2>1. /\ r.pc = "depth" /\ r.op = s.op /\ r.node = s.node /\ r.to = s.to
        /\ r.name = s.name /\ r.list = s.list /\ r.todo = s.todo
    BY <1>1, PcSet DEF PCs
  <2> HIDE DEF r
  <2>2. s.node \notin Chain(parent, s.to) \/ parent[s.node] = None  BY <1>5 DEF Ancestors
  <2>3. ~ OrphanRace(races) => s.to = Root \/ parent[s.to] # None
    BY <1>1, <1>2 DEF CallFits, StaysWhole, Adding
  <2>4. ~ NamesRace(races) => name[s.node] = s.name \/ parent[s.node] = None
    BY <1>1, <1>2 DEF CallFits, StaysDistinct
  <2>5. CallFits(r, parent, name, taken, races)
    BY <1>1, <1>2, <2>1, <2>2, <2>3, <2>4, GoMove
  <2> QED  BY <1>2, <1>3, <1>5, <2>5, ProceedKeeps DEF PCs, r
<1> QED  BY <1>4, <1>5 DEF MoveCycle

\* Its subfolders stay within the limit.
LEMMA MoveDepthKeeps ==
  ASSUME IInv, NEW c \in Calls, MoveDepth(c)
  PROVE  IInv'
<1>1. /\ call[c] \in CallRecords /\ parent \in Parents /\ Local(call[c])
      /\ CallFits(call[c], parent, name, taken, races)
  BY Holds
<1>2. call[c].op = "move" /\ call[c].pc = "depth" /\ Busy(call[c])
  BY DEF MoveDepth, At, Busy
<1>3. ~ Uploads(call[c]) /\ ~ Archives(call[c]) /\ call[c].op # "delete" /\ call[c].op # "upload"
  BY <1>2 DEF Uploads, Archives
<1>4. CASE Refuse(c)  BY <1>2, <1>3, <1>4, RefuseKeeps
<1> DEFINE s == call[c]
           x == IF s.from = s.to THEN "same" ELSE "names"
<1>5. CASE ~ TooDeepUnder(s.node, s.to) /\ Proceed(c, x)
  <2> DEFINE r == [s EXCEPT !.pc = x]
  <2>0. x \in {"same", "names"} /\ x \in PCs  BY DEF PCs
  <2>1. /\ r.pc = x /\ r.op = s.op /\ r.node = s.node /\ r.to = s.to
        /\ r.name = s.name /\ r.list = s.list /\ r.todo = s.todo
    BY <1>1, <2>0, PcSet
  <2>2. Proceed(c, x)  BY <1>5
  <2> HIDE DEF r, x
  <2>3. s.node \in Nodes /\ s.to \in Nodes \cup {Root}
    BY <1>1, <1>2 DEF Local, Nodes, Homes
  <2>4. FitsUnder(parent, s.node, s.to)
    <3> SUFFICES ASSUME NEW m \in Folders \cap Subtree(parent, s.node)
                 PROVE  Cardinality(Ancestors(parent, m) \cap Subtree(parent, s.node))
                          + Depth(parent, s.to) <= MaxFolderDepth
      BY DEF FitsUnder
    <3> DEFINE k == Cardinality(Ancestors(parent, m) \cap Subtree(parent, s.node))
    <3>1. /\ k <= SubtreeMaxDepth(parent, s.node) + 1 /\ k \in Nat
          /\ SubtreeMaxDepth(parent, s.node) \in Nat
      BY <1>1, <2>3, SubtreeBound
    <3>2. Depth(parent, s.to) \in Nat  BY <1>1, <2>3, ChainsAreFolders
    <3> HIDE DEF k
    <3>3. ~ (Depth(parent, s.to) + 1 + SubtreeMaxDepth(parent, s.node) > MaxFolderDepth)
      BY <1>5 DEF TooDeepUnder
    <3>4. k + Depth(parent, s.to) <= MaxFolderDepth
      BY <3>1, <3>2, <3>3, TreeAssumption
    <3> QED  BY <3>4 DEF k
  <2>5. NoMoves(races) => s.node \notin Chain(parent, s.to) \/ parent[s.node] = None
    BY <1>1, <1>2 DEF CallFits, MakesNoCycle
  <2>6. ~ OrphanRace(races) => s.to = Root \/ parent[s.to] # None
    BY <1>1, <1>2 DEF CallFits, StaysWhole, Adding
  <2>7. ~ NamesRace(races) => name[s.node] = s.name \/ parent[s.node] = None
    BY <1>1, <1>2 DEF CallFits, StaysDistinct
  <2>8. CallFits(r, parent, name, taken, races)
    BY <1>1, <1>2, <2>0, <2>1, <2>4, <2>5, <2>6, <2>7, GoMove
  <2> QED  BY <1>2, <1>3, <2>0, <2>2, <2>8, ProceedKeeps DEF r
<1> QED  BY <1>4, <1>5 DEF MoveDepth

\* The folder is there already.
LEMMA MoveSameKeeps ==
  ASSUME IInv, NEW c \in Calls, MoveSame(c)
  PROVE  IInv'
<1>1. /\ parent \in Parents /\ name \in NamesOf /\ taken \in SUBSET Nodes
      /\ ForestFits(parent, name, taken, races)
      /\ \A d \in Calls : CallFits(call[d], parent, name, taken, races)
  BY Holds
<1>2. call[c].op = "move" /\ call[c].pc = "same" /\ Busy(call[c])
  BY DEF MoveSame, At, Busy
<1>3. /\ Succeed(c) /\ parent' = parent /\ name' = name /\ taken' = taken
      /\ UNCHANGED <<live, history>>
  BY DEF MoveSame, server
<1> QED  BY <1>1, <1>2, <1>3, SucceedKeeps

\* The names in the new place are read.
LEMMA MoveNamesKeeps ==
  ASSUME IInv, NEW c \in Calls, MoveNames(c)
  PROVE  IInv'
<1>1. /\ call[c] \in CallRecords /\ CallFits(call[c], parent, name, taken, races)
  BY Holds
<1>2. call[c].op = "move" /\ call[c].pc = "names" /\ Busy(call[c])
  BY DEF MoveNames, At, Busy
<1>3. ~ Uploads(call[c]) /\ ~ Archives(call[c]) /\ call[c].op # "delete" /\ call[c].op # "upload"
  BY <1>2 DEF Uploads, Archives
<1>4. CASE Refuse(c)  BY <1>2, <1>3, <1>4, RefuseKeeps
<1>5. CASE ~ NameTaken(call[c].node, call[c].to, call[c].name) /\ Proceed(c, "write")
  <2> DEFINE s == call[c]
             r == [s EXCEPT !.pc = "write"]
  <2>1. /\ r.pc = "write" /\ r.op = s.op /\ r.node = s.node /\ r.to = s.to
        /\ r.name = s.name /\ r.list = s.list /\ r.todo = s.todo
    BY <1>1, PcSet DEF PCs
  <2> HIDE DEF r
  <2>2. \A g \in Folders : parent[g] = s.to /\ g # s.node => name[g] # s.name
    BY <1>5 DEF NameTaken, Children, Nodes
  <2>3. NoMoves(races) => s.node \notin Chain(parent, s.to) \/ parent[s.node] = None
    BY <1>1, <1>2 DEF CallFits, MakesNoCycle
  <2>4. Shallow(races) => FitsUnder(parent, s.node, s.to)
    BY <1>1, <1>2 DEF CallFits, StaysShallow, FitsUnder
  <2>5. ~ OrphanRace(races) => s.to = Root \/ parent[s.to] # None
    BY <1>1, <1>2 DEF CallFits, StaysWhole, Adding
  <2>6. ~ NamesRace(races) => name[s.node] = s.name \/ parent[s.node] = None
    BY <1>1, <1>2 DEF CallFits, StaysDistinct
  <2>7. CallFits(r, parent, name, taken, races)
    BY <1>1, <1>2, <2>1, <2>2, <2>3, <2>4, <2>5, <2>6, GoMove
  <2> QED  BY <1>2, <1>3, <1>5, <2>7, ProceedKeeps DEF PCs, r
<1> QED  BY <1>4, <1>5 DEF MoveNames

\* The folder is moved.
LEMMA MoveUpdateKeeps ==
  ASSUME IInv, NEW c \in Calls, MoveUpdate(c)
  PROVE  IInv'
<1>1. /\ call[c] \in CallRecords /\ parent \in Parents /\ name \in NamesOf
      /\ taken \in SUBSET Nodes /\ ForestFits(parent, name, taken, races)
      /\ CallFits(call[c], parent, name, taken, races)
      /\ \A d \in Calls : CallFits(call[d], parent, name, taken, races)
      /\ \A d \in Calls : d # c => Met(call[d], call[c], races)
  BY Holds
<1>2. call[c].op = "move" /\ call[c].pc = "write" /\ Busy(call[c])
  BY DEF MoveUpdate, At, Busy
<1>3. ~ Uploads(call[c]) /\ ~ Archives(call[c])  BY <1>2 DEF Uploads, Archives
<1>4. CASE Refuse(c)  BY <1>2, <1>3, <1>4, RefuseKeeps
<1>5. CASE /\ Exists(call[c].node)
           /\ parent' = [parent EXCEPT ![call[c].node] = call[c].to]
           /\ Succeed(c) /\ UNCHANGED <<name, live, taken, history>>
  <2>1. call[c].node \in Folders /\ call[c].node # Root /\ call[c].to \in Homes
    BY <1>1, <1>2, WriterIs, NodesAreFinite
  <2>2. parent[call[c].node] # None  BY <1>5, <2>1 DEF Exists
  <2>3. ForestFits(parent', name, taken, races)  BY <1>1, <1>2, <1>5, <2>2, MoveForest
  <2>4. ASSUME NEW d \in Calls, d # c PROVE CallFits(call[d], parent', name, taken, races)
    BY <1>1, <1>2, <1>5, <2>4, MoveOthers
  <2>5. parent' \in Parents  BY <1>1, <1>5, <2>1 DEF Parents, Homes
  <2>6. name' = name /\ taken' = taken /\ UNCHANGED <<live, history>>  BY <1>5
  <2> QED  BY <1>1, <1>2, <1>5, <2>3, <2>4, <2>5, <2>6, SucceedKeeps
<1> QED  BY <1>4, <1>5 DEF MoveUpdate
-----------------------------------------------------------------------------
(* DocumentService.Move, createInternal and Archive. *)

\* An operation on a document, r, under way with these locals.
LEMMA GoDocument ==
  ASSUME NEW p, NEW nm, NEW S, NEW R, NEW r, r.op \in {"drop", "upload", "archive"},
         Busy(r), Local(r), Known(r, S), Comes(r, p, S),
         ~ OrphanRace(R) /\ r.op # "archive" /\ r.pc # "find" => r.to = Root \/ p[r.to] # None
  PROVE  CallFits(r, p, nm, S, R)
<1>1. MakesNoCycle(r, p) /\ StaysShallow(r, p)  BY DEF MakesNoCycle, StaysShallow
<1>2. StaysDistinct(r, p, nm)  BY DEF StaysDistinct, Naming
<1>3. ~ OrphanRace(R) => StaysWhole(r, p)  BY DEF StaysWhole, Adding
<1> QED  BY <1>1, <1>2, <1>3 DEF CallFits

\* The document's node and the new parent are found.
LEMMA DropFindKeeps ==
  ASSUME IInv, NEW c \in Calls, DropFind(c)
  PROVE  IInv'
<1>1. /\ call[c] \in CallRecords /\ Local(call[c]) /\ Known(call[c], taken)
  BY Holds
<1>2. call[c].op = "drop" /\ call[c].pc = "find" /\ Busy(call[c])
  BY DEF DropFind, At, Busy
<1>3. ~ Uploads(call[c]) /\ ~ Archives(call[c]) /\ call[c].op # "delete" /\ call[c].op # "upload"
  BY <1>2 DEF Uploads, Archives
<1>4. CASE Refuse(c)  BY <1>2, <1>3, <1>4, RefuseKeeps
<1> DEFINE s == call[c]
           x == IF parent[s.node] = s.to THEN "same" ELSE "write"
<1>5. CASE Exists(s.to) /\ Proceed(c, x)
  <2> DEFINE r == [s EXCEPT !.pc = x]
  <2>0. x \in {"same", "write"} /\ x \in PCs  BY DEF PCs
  <2>1. /\ r.pc = x /\ r.op = s.op /\ r.node = s.node /\ r.to = s.to
        /\ r.list = s.list /\ r.todo = s.todo
    BY <1>1, <2>0, PcSet
  <2>2. Proceed(c, x)  BY <1>5
  <2> HIDE DEF r, x
  <2>3. s.to = Root \/ parent[s.to] # None  BY <1>5 DEF Exists
  <2>4. Busy(r)  BY <2>0, <2>1 DEF Busy
  <2>5. Local(r)  BY <1>1, <1>2, <2>0, <2>1, <2>4 DEF Local
  <2>6. Known(r, taken)  BY <1>1, <2>1 DEF Known
  <2>7. Comes(r, parent, taken)  BY <1>2, <2>1 DEF Comes, Uploads
  <2>8. CallFits(r, parent, name, taken, races)
    BY <1>2, <2>1, <2>3, <2>4, <2>5, <2>6, <2>7, GoDocument
  <2> QED  BY <1>2, <1>3, <2>0, <2>2, <2>8, ProceedKeeps DEF r
<1> QED  BY <1>4, <1>5 DEF DropFind

\* A document's node is put under v, or taken away, and the operation succeeds.
LEMMA PlaceKeeps ==
  ASSUME IInv, NEW c \in Calls, Busy(call[c]), call[c].op \in {"drop", "upload", "archive"},
         NEW d \in Docs, NEW v \in Homes \cup {None},
         parent' = [parent EXCEPT ![d] = v],
         Succeed(c), UNCHANGED <<name, live, taken, history>>,
         v # None => /\ call[c].op # "archive"
                     /\ d \in taken /\ v \in taken \cup {Root}
                     /\ \A e \in Calls : e # c /\ Uploads(call[e]) => call[e].node # d,
         v \in Folders /\ ~ OrphanRace(races) => parent[v] # None
  PROVE  IInv'
<1>1. /\ call[c] \in CallRecords /\ parent \in Parents /\ name \in NamesOf
      /\ taken \in SUBSET Nodes /\ ForestFits(parent, name, taken, races)
      /\ \A e \in Calls : CallFits(call[e], parent, name, taken, races)
      /\ \A e \in Calls : e # c => Met(call[e], call[c], races)
  BY Holds
<1>2. ForestFits(parent', name, taken, races)  BY <1>1, PlaceForest
<1>3. ASSUME NEW e \in Calls, e # c PROVE CallFits(call[e], parent', name, taken, races)
  <2>1. CallFits(call[e], parent, name, taken, races) /\ Met(call[e], call[c], races)
    BY <1>1, <1>3
  <2>2. v # None /\ Uploads(call[e]) => call[e].node # d  BY <1>3
  <2>3. v # None /\ ~ OrphanRace(races) => ~ Deletes(call[e])
    <3> SUFFICES ASSUME v # None, ~ OrphanRace(races), Deletes(call[e]) PROVE FALSE  OBVIOUS
    <3>1. Busy(call[e]) /\ call[e].op = "delete" /\ call[c].op \in Adding
      BY DEF Deletes, Busy, Adding
    <3>2. {"delete", call[c].op} \in races  BY <2>1, <3>1 DEF Met
    <3>3. "delete" \in {"delete", call[c].op} /\ call[c].op \in {"delete", call[c].op} \cap Adding
      BY <3>1
    <3> QED  BY <3>2, <3>3 DEF OrphanRace
  <2> QED  BY <1>1, <2>1, <2>2, <2>3, PlaceOthers
<1>4. parent' \in Parents  BY <1>1 DEF Parents, Homes
<1>5. name' = name /\ taken' = taken /\ UNCHANGED <<live, history>>  OBVIOUS
<1> QED  BY <1>1, <1>2, <1>3, <1>4, <1>5, SucceedKeeps

\* The document's node is moved, unless it is there already.
LEMMA DropUpdateKeeps ==
  ASSUME IInv, NEW c \in Calls, DropUpdate(c)
  PROVE  IInv'
<1>1. /\ call[c] \in CallRecords /\ parent \in Parents /\ name \in NamesOf
      /\ taken \in SUBSET Nodes /\ ForestFits(parent, name, taken, races)
      /\ Local(call[c]) /\ Known(call[c], taken)
      /\ \A d \in Calls : CallFits(call[d], parent, name, taken, races)
  BY Holds
<1>2. call[c].op = "drop" /\ call[c].pc \in {"same", "write"} /\ Busy(call[c])
  BY DEF DropUpdate, Busy
<1>3. ~ Uploads(call[c]) /\ ~ Archives(call[c])  BY <1>2 DEF Uploads, Archives
<1>4. CASE call[c].pc = "same" /\ Succeed(c) /\ UNCHANGED <<server, history>>
  <2>1. parent' = parent /\ name' = name /\ taken' = taken /\ UNCHANGED <<live, history>>
    BY <1>4 DEF server
  <2> QED  BY <1>1, <1>2, <1>4, <2>1, SucceedKeeps
<1>5. CASE Refuse(c)  BY <1>2, <1>3, <1>5, RefuseKeeps
<1>6. CASE /\ Exists(call[c].node)
           /\ parent' = [parent EXCEPT ![call[c].node] = call[c].to]
           /\ Succeed(c) /\ UNCHANGED <<name, live, taken, history>>
  <2>1. /\ call[c].node \in Docs /\ call[c].node # Root /\ call[c].node # None
        /\ call[c].to \in Homes /\ call[c].to # None
    BY <1>1, <1>2, NodesAreFinite DEF Local, Nodes, Homes
  <2>2. call[c].node \in taken /\ call[c].to \in taken \cup {Root}  BY <1>1, <2>1 DEF Known
  <2>3. parent[call[c].node] # None  BY <1>6, <2>1 DEF Exists
  <2>4. ASSUME NEW e \in Calls, Uploads(call[e]) PROVE call[e].node # call[c].node
    BY <1>1, <2>3, <2>4 DEF CallFits, Comes
  <2>5. call[c].to \in Folders /\ ~ OrphanRace(races) => parent[call[c].to] # None
    BY <1>1, <1>2, NodesAreFinite DEF CallFits, StaysWhole, Adding
  <2> QED  BY <1>2, <1>6, <2>1, <2>2, <2>4, <2>5, PlaceKeeps
<1> QED  BY <1>4, <1>5, <1>6 DEF DropUpdate

\* The parent is found; the document gets its id.
LEMMA UploadFindKeeps ==
  ASSUME IInv, NEW c \in Calls, UploadFind(c)
  PROVE  IInv'
<1>1. /\ Types /\ call[c] \in CallRecords /\ parent \in Parents /\ name \in NamesOf
      /\ taken \in SUBSET Nodes /\ live \subseteq taken /\ live \subseteq Docs
      /\ ForestFits(parent, name, taken, races) /\ RefersTo(parent, taken)
      /\ Local(call[c]) /\ Known(call[c], taken)
      /\ \A d \in Calls : CallFits(call[d], parent, name, taken, races)
      /\ \A d \in Calls : d # c => Apart(call[c], call[d]) /\ Apart(call[d], call[c])
  BY Holds
<1>2. call[c].op = "upload" /\ call[c].pc = "find" /\ Busy(call[c])
  BY DEF UploadFind, At, Busy
<1>3. ~ Uploads(call[c]) /\ ~ Archives(call[c]) /\ call[c].op # "delete"
  BY <1>2 DEF Uploads, Archives
<1>4. CASE Refuse(c)  BY <1>2, <1>3, <1>4, RefuseKeeps
<1>5. ASSUME Exists(call[c].to), NEW d \in Docs \ taken,
             live' = live \cup {d}, taken' = taken \cup {d},
             SetCall(c, [call[c] EXCEPT !.pc = "write", !.node = d]),
             UNCHANGED <<parent, name, panel, answers, ops, history>>
      PROVE  IInv'
  <2> DEFINE s == call[c]
             r == [s EXCEPT !.pc = "write", !.node = d]
  <2>1. /\ r \in CallRecords /\ r.pc = "write" /\ r.op = "upload" /\ r.node = d /\ r.to = s.to
        /\ r.list = s.list /\ r.todo = s.todo /\ r.told = s.told
    BY <1>1, <1>2 DEF CallRecords, PCs, Nodes
  <2>2. call' = [call EXCEPT ![c] = r] /\ call'[c] = r  BY <1>1, <1>5 DEF SetCall, Types
  <2> HIDE DEF r
  <2>3. /\ parent' = parent /\ name' = name
        /\ nodes' = nodes /\ items' = items /\ answers' = answers /\ dialog' = dialog
        /\ races' = races /\ crossed' = crossed /\ hasty' = hasty
        /\ halfway' = halfway /\ untold' = untold
    BY <1>5 DEF panel, shown, history
  <2>4. halfway \in BOOLEAN /\ untold \in BOOLEAN  BY <1>1 DEF Types
  <2>5. Busy(r) /\ Uploads(r)  BY <2>1 DEF Busy, Uploads
  <2>6. Goes(c)  BY <1>2, <2>1, <2>2, <2>3, <2>5 DEF Goes
  <2>7. live' \subseteq Docs /\ taken' \subseteq Nodes /\ taken \subseteq taken'
    BY <1>1, <1>5 DEF Nodes
  <2>8. Acts(c)  BY <1>1, <1>2, <2>1, <2>2, <2>3, <2>4, <2>6, <2>7 DEF Acts
  <2>9. ForestFits(parent', name', taken', races)  BY <1>1, <2>3, <2>7, FitsGrow
  <2>10. \A e \in Calls : CallFits(call[e], parent', name', taken', races)
    BY <1>1, <2>3, <2>7, FitsGrow
  <2>11. CallFits(r, parent', name', taken', races)
    <3>1. Local(r)  BY <1>1, <1>2, <1>5, <2>1, <2>5 DEF Local
    <3>2. Known(r, taken')  BY <1>1, <1>5, <2>1 DEF Known
    <3>3. parent[d] = None  BY <1>1, <1>5 DEF RefersTo, Nodes
    <3>4. Comes(r, parent', taken')  BY <1>5, <2>1, <2>3, <3>3 DEF Comes
    <3>5. r.to = Root \/ parent'[r.to] # None  BY <1>5, <2>1, <2>3 DEF Exists
    <3> QED  BY <2>1, <2>5, <3>1, <3>2, <3>4, <3>5, GoDocument
  <2>12. live' \subseteq taken'  BY <1>1, <1>5
  <2>13. ServerFits'  BY <1>1, <2>2, <2>8, <2>9, <2>10, <2>11, <2>12, ActsServer
  <2>14. ASSUME NEW e \in Calls, e # c
         PROVE  Apart(call'[c], call[e]) /\ Apart(call[e], call'[c])
    <3>1. Known(call[e], taken) /\ Comes(call[e], parent, taken)  BY <1>1 DEF CallFits
    <3>2. Uploads(call[e]) => call[e].node # d  BY <1>5, <3>1 DEF Comes
    <3>3. \A i \in 1 .. Len(call[e].list) : call[e].list[i] # d  BY <1>5, <3>1 DEF Known
    <3>4. Apart(r, call[e])  BY <2>1, <3>2, <3>3 DEF Apart
    <3>5. Apart(call[e], s)  BY <1>1, <2>14
    <3>6. Apart(call[e], r)  BY <2>1, <3>2, <3>5 DEF Apart
    <3> QED  BY <2>2, <3>4, <3>6
  <2>15. KeepsTree(c)  BY <1>2, <2>3 DEF KeepsTree, Deletes
  <2>16. KeepsDocs(c)  BY <2>2, <2>5 DEF KeepsDocs
  <2>17. ToldFits'
    <3>1. ToldFits  BY DEF IInv
    <3> QED  BY <1>1, <1>3, <2>3, <2>8, <3>1, ActsTold
  <2> QED  BY <2>3, <2>8, <2>13, <2>14, <2>15, <2>16, <2>17, ActsKeep
<1> QED  BY <1>4, <1>5 DEF UploadFind

\* The document's node is inserted.
LEMMA UploadInsertKeeps ==
  ASSUME IInv, NEW c \in Calls, UploadInsert(c)
  PROVE  IInv'
<1>1. /\ Local(call[c]) /\ Known(call[c], taken)
      /\ CallFits(call[c], parent, name, taken, races)
      /\ \A d \in Calls : d # c => Apart(call[c], call[d])
  BY Holds
<1>2. call[c].op = "upload" /\ call[c].pc = "write" /\ Busy(call[c]) /\ Uploads(call[c])
  BY DEF UploadInsert, At, Busy, Uploads
<1>3. /\ call[c].node \in Docs /\ call[c].node \in taken
      /\ call[c].to \in Homes /\ call[c].to # None
  BY <1>1, <1>2, NodesAreFinite DEF Local, Homes, CallFits, Comes
<1>4. call[c].to \in taken \cup {Root}  BY <1>1, <1>3 DEF Known
<1>5. ASSUME NEW e \in Calls, e # c, Uploads(call[e]) PROVE call[e].node # call[c].node
  BY <1>1, <1>2, <1>5 DEF Apart
<1>6. call[c].to \in Folders /\ ~ OrphanRace(races) => parent[call[c].to] # None
  BY <1>1, <1>2, NodesAreFinite DEF CallFits, StaysWhole, Adding
<1>7. /\ parent' = [parent EXCEPT ![call[c].node] = call[c].to]
      /\ Succeed(c) /\ UNCHANGED <<name, live, taken, history>>
  BY DEF UploadInsert
<1> QED  BY <1>2, <1>3, <1>4, <1>5, <1>6, <1>7, PlaceKeeps

\* The document is archived.
LEMMA ArchiveDocKeeps ==
  ASSUME IInv, NEW c \in Calls, ArchiveDoc(c)
  PROVE  IInv'
<1>1. /\ Types /\ call[c] \in CallRecords /\ parent \in Parents /\ name \in NamesOf
      /\ taken \in SUBSET Nodes /\ live \subseteq taken /\ live \subseteq Docs
      /\ ForestFits(parent, name, taken, races)
      /\ Local(call[c]) /\ Known(call[c], taken)
      /\ \A d \in Calls : CallFits(call[d], parent, name, taken, races)
      /\ \A d \in Calls : d # c => Apart(call[c], call[d]) /\ Apart(call[d], call[c])
  BY Holds
<1>2. call[c].op = "archive" /\ call[c].pc = "find" /\ Busy(call[c])
  BY DEF ArchiveDoc, At, Busy
<1>3. ~ Uploads(call[c]) /\ ~ Archives(call[c]) /\ call[c].op # "delete"
  BY <1>2 DEF Uploads, Archives
<1>4. CASE Refuse(c)  BY <1>2, <1>3, <1>4, RefuseKeeps
<1>5. CASE /\ live' = live \ {call[c].node} /\ CallTo(c, "write")
           /\ UNCHANGED <<parent, name, taken, panel, answers, ops, history>>
  <2> DEFINE s == call[c]
             r == [s EXCEPT !.pc = "write"]
  <2>1. /\ r \in CallRecords /\ r.pc = "write" /\ r.op = s.op /\ r.node = s.node /\ r.to = s.to
        /\ r.list = s.list /\ r.todo = s.todo /\ r.told = s.told
    BY <1>1, PcSet DEF PCs
  <2>2. call' = [call EXCEPT ![c] = r] /\ call'[c] = r  BY <1>1, <1>5 DEF CallTo, SetCall, Types
  <2> HIDE DEF r
  <2>3. /\ parent' = parent /\ name' = name /\ taken' = taken
        /\ nodes' = nodes /\ items' = items /\ answers' = answers /\ dialog' = dialog
        /\ races' = races /\ crossed' = crossed /\ hasty' = hasty
        /\ halfway' = halfway /\ untold' = untold
    BY <1>5 DEF panel, shown, history
  <2>4. halfway \in BOOLEAN /\ untold \in BOOLEAN  BY <1>1 DEF Types
  <2>5. Busy(r) /\ Archives(r) /\ ~ Uploads(r)  BY <1>2, <2>1 DEF Busy, Archives, Uploads
  <2>6. Goes(c)  BY <2>1, <2>2, <2>3, <2>5 DEF Goes
  <2>7. live' \subseteq Docs /\ live' \subseteq taken'  BY <1>1, <1>5, <2>3
  <2>8. Acts(c)  BY <1>1, <1>2, <2>1, <2>2, <2>3, <2>4, <2>6, <2>7 DEF Acts
  <2>9. CallFits(r, parent, name, taken, races)
    <3>1. Local(r)  BY <1>1, <1>2, <2>1, <2>5 DEF Local
    <3>2. Known(r, taken)  BY <1>1, <2>1 DEF Known
    <3>3. Comes(r, parent, taken)  BY <2>5 DEF Comes
    <3> QED  BY <1>2, <2>1, <2>5, <3>1, <3>2, <3>3, GoDocument
  <2>10. ServerFits'  BY <1>1, <2>2, <2>3, <2>7, <2>8, <2>9, ActsServer
  <2>11. ASSUME NEW e \in Calls, e # c
         PROVE  Apart(call'[c], call[e]) /\ Apart(call[e], call'[c])
    <3>1. Apart(call[e], s)  BY <1>1, <2>11
    <3>2. Apart(r, call[e])  BY <2>5 DEF Apart
    <3>3. Apart(call[e], r)  BY <2>1, <2>5, <3>1 DEF Apart
    <3> QED  BY <2>2, <3>2, <3>3
  <2>12. KeepsTree(c)  BY <1>2, <2>3 DEF KeepsTree, Deletes
  <2>13. KeepsDocs(c)  BY <2>2, <2>5 DEF KeepsDocs
  <2>14. ToldFits'
    <3>1. ToldFits  BY DEF IInv
    <3> QED  BY <1>1, <1>3, <2>3, <2>8, <3>1, ActsTold
  <2> QED  BY <2>3, <2>8, <2>10, <2>11, <2>12, <2>13, <2>14, ActsKeep
<1> QED  BY <1>4, <1>5 DEF ArchiveDoc

\* Its node is removed.
LEMMA ArchiveNodesKeeps ==
  ASSUME IInv, NEW c \in Calls, ArchiveNodes(c)
  PROVE  IInv'
<1>1. Local(call[c])  BY Holds
<1>2. call[c].op = "archive" /\ call[c].pc = "write" /\ Busy(call[c])
  BY DEF ArchiveNodes, At, Busy
<1>3. call[c].node \in Docs /\ None \notin Folders  BY <1>1, <1>2, NodesAreFinite DEF Local
<1>4. /\ parent' = [parent EXCEPT ![call[c].node] = None]
      /\ Succeed(c) /\ UNCHANGED <<name, live, taken, history>>
  BY DEF ArchiveNodes
<1> QED  BY <1>2, <1>3, <1>4, PlaceKeeps
-----------------------------------------------------------------------------
(* DeleteFolder. *)

\* s lists the nodes S of the rows p, each once and no child before its parent.
Listed(p, S, s) ==
  /\ s \in Seq(Nodes) /\ (\A k \in 1 .. Len(s) : s[k] \in S)
  /\ \A x \in S : \E k \in 1 .. Len(s) : s[k] = x
  /\ \A i, j \in 1 .. Len(s) : i < j => s[j] \notin Ancestors(p, s[i])

\* So does the list the code makes.
LEMMA ListIs ==
  ASSUME NEW p, NEW S \in SUBSET Nodes, NEW s \in SetToSeqs(S),
         \A i, j \in DOMAIN s : i < j => s[j] \notin Ancestors(p, s[i])
  PROVE  Listed(p, S, s)
<1> DEFINE n == Cardinality(S)
<1>1. IsFiniteSet(S) /\ n \in Nat  BY NodesAreFinite, FS_Subset, FS_CardinalityType
<1>2. s \in [1 .. n -> S] /\ \A i, j \in 1 .. n : i # j => s[i] # s[j]
  BY DEF SetToSeqs
<1>3. IsFiniteSet(1 .. n) /\ Cardinality(1 .. n) = n
  <2>1. IsFiniteSet(1 .. n)  BY <1>1, FS_Interval
  <2>2. Cardinality(1 .. n) = IF 1 > n THEN 0 ELSE n - 1 + 1  BY <1>1, FS_Interval
  <2> HIDE DEF n
  <2> QED  BY <1>1, <2>1, <2>2
<1>4. s \in Injection(1 .. n, S)  BY <1>2 DEF Injection, IsInjective
<1>5. s \in Surjection(1 .. n, S)  BY <1>1, <1>3, <1>4, FS_Injection
<1>6. \A x \in S : \E k \in 1 .. n : s[k] = x  BY <1>5 DEF Surjection
<1> HIDE DEF n
<1>7. s \in Seq(Nodes) /\ Len(s) = n /\ DOMAIN s = 1 .. n  BY <1>1, <1>2
<1> QED  BY <1>2, <1>6, <1>7 DEF Listed

\* Deleting from the end of such a list of what is below a folder, no child is left.
LEMMA ListedIsWhole ==
  ASSUME NEW p \in Parents, NEW f \in Folders, ~ OnCycle(p, f),
         NEW s, Listed(p, Below(p, f), s), NEW i \in 1 .. Len(s),
         NEW n \in Nodes, p[n] = s[i]
  PROVE  \E j \in i + 1 .. Len(s) : s[j] = n
<1> DEFINE a == s[i]
<1>1. a \in Nodes /\ p[a] # None /\ a # f /\ f \in Ancestors(p, a)
  BY DEF Listed, Below
<1>2. f \in Nodes /\ None \notin Nodes /\ Root \notin Nodes /\ None \notin Folders
  BY NodesAreFinite DEF Nodes
<1>3. p[n] = a /\ a \in Folders /\ p[n] # None  BY <1>1, <1>2 DEF Parents
<1> HIDE DEF a
<1>4. f \in Chain(p, a) /\ p[f] # None  BY <1>1 DEF Ancestors
<1>5. Chain(p, n) = {n} \cup Chain(p, a) /\ a \in Chain(p, a)  BY <1>1, <1>3, ChainOf
<1>6. n # f  BY <1>2, <1>3, <1>4, OnCycleIs
<1>7. f \in Ancestors(p, n) /\ a \in Ancestors(p, n)  BY <1>1, <1>4, <1>5 DEF Ancestors
<1>8. n \in Below(p, f)  BY <1>3, <1>6, <1>7 DEF Below
<1>9. PICK j \in 1 .. Len(s) : s[j] = n  BY <1>8 DEF Listed
<1>10. n # a
  <2> SUFFICES ASSUME n = a PROVE FALSE  OBVIOUS
  <2>1. {n} \ {Root} \subseteq {n} /\ Closed(p, {n})  BY <1>3 DEF Closed
  <2>2. n \in Nodes \cup {Root}  OBVIOUS
  <2>3. Chain(p, n) \subseteq {n}  BY <2>1, <2>2, ChainIs
  <2> QED  BY <1>4, <1>5, <1>6, <2>3
<1>11. Len(s) \in Nat  BY DEF Listed
<1>12. ~ (j < i)
  <2> SUFFICES ASSUME j < i PROVE FALSE  OBVIOUS
  <2>1. s[i] \notin Ancestors(p, s[j])  BY DEF Listed
  <2> QED  BY <1>7, <1>9, <2>1 DEF a
<1>13. j # i  BY <1>9, <1>10 DEF a
<1>14. j \in i + 1 .. Len(s)  BY <1>11, <1>12, <1>13
<1> QED  BY <1>9, <1>14

\* A deletion with the list l, as it goes on or ends, knows of no upload under way.
LEMMA DeleteApart ==
  ASSUME IInv, NEW c \in Calls, call[c].op = "delete", NEW r, ~ Uploads(r),
         \A k \in 1 .. Len(r.list) :
           \/ parent[r.list[k]] # None
           \/ \E j \in 1 .. Len(call[c].list) : call[c].list[j] = r.list[k]
  PROVE  \A d \in Calls : d # c => Apart(r, call[d]) /\ Apart(call[d], r)
<1> SUFFICES ASSUME NEW d \in Calls, d # c PROVE Apart(r, call[d]) /\ Apart(call[d], r)
  OBVIOUS
<1>1. Apart(call[d], call[c]) /\ CallFits(call[d], parent, name, taken, races)  BY Holds
<1>2. Apart(r, call[d])  BY DEF Apart
<1>3. Uploads(call[d]) => parent[call[d].node] = None  BY <1>1 DEF CallFits, Comes
<1>4. Uploads(call[d]) => \A j \in 1 .. Len(call[c].list) : call[c].list[j] # call[d].node
  BY <1>1 DEF Apart
<1>5. Uploads(call[d]) => \A k \in 1 .. Len(r.list) : r.list[k] # call[d].node  BY <1>3, <1>4
<1> QED  BY <1>2, <1>5 DEF Apart

\* How a deletion that is told right goes on, or ends.
LEMMA DeleteTold ==
  ASSUME Types, ToldFits, NEW c \in Calls, Acts(c), call[c].op = "delete",
         \/ halfway'
         \/ /\ halfway' = halfway
            /\ \/ Ends(c) /\ call[c].pc = "find" /\ parent' = parent /\ untold' = untold
               \/ Reloads(c) /\ untold' = untold
               \/ /\ Goes(c) /\ call'[c].pc # "find"
                  /\ Calm => untold' = FALSE /\ Told(call'[c], parent')
  PROVE  ToldFits'
<1>1. /\ Busy(call[c]) /\ races' = races /\ crossed' = crossed /\ hasty' = hasty
      /\ \A d \in Calls : d # c => call'[d] = call[d]
  BY OneChanges DEF Acts
<1> SUFFICES ASSUME Calm'
             PROVE  /\ ~ untold' /\ Counted(dialog, parent)'
                    /\ \A d \in Calls : call'[d].op = "delete" /\ Busy(call'[d]) =>
                         Told(call'[d], parent') /\ \A e \in Calls : e # d => Idle(e)'
  BY DEF ToldFits
<1>2. Calm /\ ~ halfway' /\ halfway' = halfway  BY <1>1 DEF Calm
<1>3. /\ ~ untold /\ Counted(dialog, parent) /\ Told(call[c], parent)
      /\ \A d \in Calls : d # c => Idle(d)
  BY <1>1, <1>2 DEF ToldFits
<1>4. \A d \in Calls : d # c => call'[d].pc = "idle" /\ Idle(d)' /\ ~ Busy(call'[d])
  BY <1>1, <1>3 DEF Idle, Busy
<1>5. CASE Ends(c) /\ call[c].pc = "find" /\ parent' = parent /\ untold' = untold
  <2>1. call'[c].pc = "idle" /\ Idle(c)' /\ ~ Busy(call'[c]) /\ dialog' = dialog
    BY <1>5 DEF Ends, NewCall, Idle, Busy
  <2>2. \A d \in Calls : call[d].pc \in {"idle", "find"}  BY <1>3, <1>5 DEF Idle
  <2>3. dialog.kind = "delete" => dialog.told = CountSubtree(parent, dialog.node)
    BY <1>3, <2>2 DEF Counted
  <2>4. Counted(dialog, parent)'  BY <1>4, <1>5, <2>1, <2>3 DEF Counted
  <2> QED  BY <1>3, <1>4, <1>5, <2>1, <2>4
<1>6. CASE Reloads(c) /\ untold' = untold
  <2>1. dialog' = NoDialog /\ ~ Busy(call'[c])  BY <1>6 DEF Reloads, Busy
  <2>2. Counted(dialog, parent)'  BY <2>1 DEF Counted, NoDialog
  <2> QED  BY <1>3, <1>4, <1>6, <2>1, <2>2
<1>7. CASE /\ Goes(c) /\ call'[c].pc # "find"
           /\ Calm => untold' = FALSE /\ Told(call'[c], parent')
  <2>1. /\ dialog' = dialog /\ Busy(call'[c]) /\ call'[c].op = "delete"
        /\ ~ untold' /\ Told(call'[c], parent')
    BY <1>2, <1>7 DEF Goes
  <2>2. call'[c].pc \notin {"idle", "find"}  BY <1>7, <2>1 DEF Busy
  <2>3. Counted(dialog, parent)'  BY <1>4, <2>1, <2>2 DEF Counted
  <2>4. ASSUME NEW d \in Calls, call'[d].op = "delete", Busy(call'[d])
        PROVE  Told(call'[d], parent') /\ \A e \in Calls : e # d => Idle(e)'
    <3>1. d = c  BY <1>4, <2>4
    <3> QED  BY <1>4, <2>1, <3>1
  <2> QED  BY <2>1, <2>3, <2>4
<1> QED  BY <1>2, <1>5, <1>6, <1>7

\* What the invariant says of a deletion that is told right.
LEMMA DeleteIsTold ==
  ASSUME IInv, NEW c \in Calls, call[c].op = "delete", Busy(call[c])
  PROVE  Calm => untold = FALSE /\ Told(call[c], parent)
<1>1. Types /\ ToldFits  BY DEF IInv
<1> QED  BY <1>1 DEF ToldFits, Types

\* A deletion is refused, fails, or goes on, and changes no row.
LEMMA DeletePlain ==
  ASSUME IInv, NEW c \in Calls, Busy(call[c]), call[c].op = "delete",
         NEW r \in CallRecords, SetCall(c, r),
         UNCHANGED <<server, panel, answers, ops, races, crossed, hasty, untold>>,
         \/ r = NewCall /\ halfway' = TRUE
         \/ r = NewCall /\ call[c].pc = "find" /\ halfway' = halfway
         \/ /\ Deletes(r) /\ r.todo = call[c].todo /\ r.told = call[c].told /\ halfway' = halfway
            /\ CallFits(r, parent, name, taken, races)
            /\ \/ r.list = call[c].list /\ call[c].pc \in {"docs", "nodes"}
               \/ call[c].pc = "find" /\ \A k \in 1 .. Len(r.list) : parent[r.list[k]] # None
            /\ Calm => Told(r, parent)
  PROVE  IInv'
<1>0. /\ Types /\ call[c] \in CallRecords /\ parent \in Parents /\ name \in NamesOf
      /\ taken \in SUBSET Nodes /\ live \subseteq taken /\ live \subseteq Docs
      /\ ForestFits(parent, name, taken, races)
      /\ \A d \in Calls : CallFits(call[d], parent, name, taken, races)
  BY Holds
<1>1. /\ parent' = parent /\ name' = name /\ live' = live /\ taken' = taken
      /\ nodes' = nodes /\ items' = items /\ answers' = answers /\ dialog' = dialog
      /\ races' = races /\ crossed' = crossed /\ hasty' = hasty /\ untold' = untold
  BY DEF server, panel, shown
<1>2. call' = [call EXCEPT ![c] = r] /\ call'[c] = r  BY <1>0 DEF SetCall, Types
<1>3. halfway \in BOOLEAN /\ halfway' \in BOOLEAN /\ untold \in BOOLEAN /\ (halfway => halfway')
  BY <1>0 DEF Types
<1>4. Ends(c) \/ (Goes(c) /\ r.pc # "find")
  <2>1. CASE r = NewCall  BY <1>1, <1>2, <2>1 DEF Ends
  <2>2. CASE Deletes(r) /\ r.todo = call[c].todo /\ r.told = call[c].told
    BY <1>1, <1>2, <2>2 DEF Goes, Deletes, Busy
  <2> QED  BY <2>1, <2>2
<1>5. Acts(c)  BY <1>0, <1>1, <1>2, <1>3, <1>4 DEF Acts
<1>6. CallFits(r, parent, name, taken, races)  BY RestFits DEF Rests
<1>7. ServerFits'  BY <1>0, <1>1, <1>2, <1>5, <1>6, ActsServer
<1>8. \A d \in Calls : d # c => Apart(call'[c], call[d]) /\ Apart(call[d], call'[c])
  <2>1. ~ Uploads(r)  BY DEF NewCall, Uploads, Deletes
  <2>2. CASE r = NewCall
    <3>1. Len(r.list) = 0  BY <2>2 DEF NewCall
    <3>2. \A k \in 1 .. Len(r.list) : FALSE  BY <3>1
    <3> QED  BY <1>2, <2>1, <3>2, DeleteApart
  <2>3. CASE r.list = call[c].list
    <3>1. \A k \in 1 .. Len(r.list) : \E j \in 1 .. Len(call[c].list) : call[c].list[j] = r.list[k]
      BY <2>3
    <3> QED  BY <1>2, <2>1, <3>1, DeleteApart
  <2>4. CASE \A k \in 1 .. Len(r.list) : parent[r.list[k]] # None
    BY <1>2, <2>1, <2>4, DeleteApart
  <2> QED  BY <2>2, <2>3, <2>4
<1>9. ~ halfway' => KeepsTree(c) /\ KeepsDocs(c)
  <2> SUFFICES ASSUME ~ halfway' PROVE KeepsTree(c) /\ KeepsDocs(c)  OBVIOUS
  <2>1. KeepsTree(c)  BY <1>1, <1>2 DEF KeepsTree, Deletes
  <2>2. ~ Archives(call[c]) /\ ~ Uploads(call[c])  BY DEF Archives, Uploads
  <2>3. CASE Dooms(call[c], parent)
    <3>1. Deletes(r) /\ r.list = call[c].list  BY <2>3 DEF Dooms, Deletes
    <3>2. Dooms(r, parent)  BY <2>3, <3>1 DEF Dooms
    <3> QED  BY <1>1, <1>2, <2>1, <3>2 DEF KeepsDocs
  <2>4. CASE ~ Dooms(call[c], parent)
    BY <1>1, <2>1, <2>2, <2>4 DEF KeepsDocs
  <2> QED  BY <2>3, <2>4
<1>10. ToldFits'
  <2>1. ToldFits  BY DEF IInv
  <2>2. Calm => untold = FALSE  BY DeleteIsTold
  <2>3. \/ halfway'
        \/ /\ halfway' = halfway
           /\ \/ Ends(c) /\ call[c].pc = "find" /\ parent' = parent /\ untold' = untold
              \/ /\ Goes(c) /\ call'[c].pc # "find"
                 /\ Calm => untold' = FALSE /\ Told(call'[c], parent')
    <3>1. CASE r = NewCall
      <4>1. ~ Deletes(r)  BY <3>1 DEF NewCall, Deletes
      <4> QED  BY <1>1, <1>2, <3>1, <4>1 DEF Ends
    <3>2. CASE Deletes(r) /\ halfway' = halfway /\ (Calm => Told(r, parent))
      <4>1. Goes(c) /\ r.pc # "find"
        BY <1>1, <1>2, <1>4, <3>2 DEF Ends, NewCall, Deletes
      <4> QED  BY <1>1, <1>2, <2>2, <3>2, <4>1
    <3> QED  BY <3>1, <3>2
  <2> QED  BY <1>0, <1>5, <2>1, <2>3, DeleteTold
<1> QED  BY <1>3, <1>5, <1>7, <1>8, <1>9, <1>10, ActsKeep

\* A deletion succeeds.
LEMMA DeleteSucceeds ==
  ASSUME IInv, NEW c \in Calls, Busy(call[c]), call[c].op = "delete", Succeed(c),
         UNCHANGED <<server, history>>, ~ Dooms(call[c], parent)
  PROVE  IInv'
<1>0. /\ Types /\ call[c] \in CallRecords /\ parent \in Parents /\ name \in NamesOf
      /\ taken \in SUBSET Nodes /\ live \subseteq taken /\ live \subseteq Docs
      /\ Local(call[c]) /\ ForestFits(parent, name, taken, races)
      /\ \A d \in Calls : CallFits(call[d], parent, name, taken, races)
  BY Holds
<1>1. /\ parent' = parent /\ name' = name /\ live' = live /\ taken' = taken
      /\ nodes' = nodes /\ items' = items /\ answers' = answers
      /\ races' = races /\ crossed' = crossed /\ hasty' = hasty
      /\ halfway' = halfway /\ untold' = untold
  BY DEF Succeed, server, shown, history
<1>2. call[c].todo \in Todos  BY <1>0 DEF Local, TodoOf, Todos
<1> DEFINE r == Reading(call[c].todo, "delete")
<1>3. SetCall(c, r)  BY DEF Succeed, Reading
<1>4. /\ r \in CallRecords /\ Rests(r) /\ r.pc = "reload" /\ r.todo = call[c].todo
      /\ r.op = "delete"
  BY <1>2, RestRecords
<1> HIDE DEF r
<1>5. call' = [call EXCEPT ![c] = r] /\ call'[c] = r  BY <1>0, <1>3 DEF SetCall, Types
<1>6. Reloads(c)  BY <1>4, <1>5 DEF Reloads, Succeed
<1>7. halfway \in BOOLEAN /\ untold \in BOOLEAN  BY <1>0 DEF Types
<1>8. Acts(c)  BY <1>0, <1>1, <1>4, <1>5, <1>6, <1>7 DEF Acts
<1>9. CallFits(r, parent, name, taken, races)  BY <1>4, RestFits
<1>10. ServerFits'  BY <1>0, <1>1, <1>5, <1>8, <1>9, ActsServer
<1>11. \A d \in Calls : d # c => Apart(call'[c], call[d]) /\ Apart(call[d], call'[c])
  <2>1. ~ Uploads(r) /\ r.list = <<>>  BY <1>4 DEF Rests, NewCall, Uploads
  <2>2. \A k \in 1 .. Len(r.list) : FALSE  BY <2>1
  <2> QED  BY <1>5, <2>1, <2>2, DeleteApart
<1>12. KeepsTree(c)  BY <1>4, <1>5 DEF KeepsTree
<1>13. KeepsDocs(c)  BY <1>1 DEF KeepsDocs, Archives, Uploads
<1>14. ToldFits'
  <2>1. ToldFits  BY DEF IInv
  <2> QED  BY <1>0, <1>1, <1>6, <1>8, <2>1, DeleteTold
<1> QED  BY <1>1, <1>8, <1>10, <1>11, <1>12, <1>13, <1>14, ActsKeep

\* What the folder holds is listed.
LEMMA DeleteListKeeps ==
  ASSUME IInv, NEW c \in Calls, DeleteList(c)
  PROVE  IInv'
<1>1. /\ call[c] \in CallRecords /\ parent \in Parents /\ RefersTo(parent, taken)
      /\ Local(call[c]) /\ Known(call[c], taken)
  BY Holds
<1>2. call[c].op = "delete" /\ call[c].pc = "find" /\ Busy(call[c])
  BY DEF DeleteList, At, Busy
<1>3. CASE Refuse(c)
  <2>1. NewCall \in CallRecords /\ SetCall(c, NewCall)  BY <1>3, RestRecords DEF Refuse
  <2>2. /\ UNCHANGED <<server, panel, answers, ops, races, crossed, hasty, untold>>
        /\ halfway' = halfway
    BY <1>3 DEF Refuse, history
  <2> QED  BY <1>2, <2>1, <2>2, DeletePlain
<1>4. CASE Succeed(c) /\ UNCHANGED <<server, history>>
  <2>1. ~ Dooms(call[c], parent)  BY <1>2 DEF Dooms, Deletes
  <2> QED  BY <1>2, <1>4, <2>1, DeleteSucceeds
<1> DEFINE s == call[c]
           B == Below(parent, s.node)
           r(l) == [s EXCEPT !.pc = "docs", !.list = l, !.docs = B \cap Docs]
<1>5. ASSUME ~ OnCycle(parent, s.node), NEW l \in SetToSeqs(B),
             \A i, j \in DOMAIN l : i < j => l[j] \notin Ancestors(parent, l[i]),
             SetCall(c, r(l)), UNCHANGED <<server, panel, answers, ops, history>>
      PROVE  IInv'
  <2>1. s.node \in Folders /\ B \in SUBSET Nodes  BY <1>1, <1>2 DEF Local, Below
  <2>2. Listed(parent, B, l)  BY <1>5, <2>1, ListIs
  <2>3. l \in Seq(Nodes)  BY <2>2 DEF Listed
  <2>4. /\ r(l) \in CallRecords /\ r(l).pc = "docs" /\ r(l).op = "delete" /\ r(l).node = s.node
        /\ r(l).to = s.to /\ r(l).list = l /\ r(l).docs = B \cap Docs /\ r(l).told = s.told
        /\ r(l).todo = s.todo
    BY <1>1, <1>2, <2>3 DEF CallRecords, PCs
  <2>5. SetCall(c, r(l))  BY <1>5
  <2> DEFINE q == r(l)
  <2>6. /\ q \in CallRecords /\ q.pc = "docs" /\ q.op = "delete" /\ q.node = s.node
        /\ q.to = s.to /\ q.list = l /\ q.docs = B \cap Docs /\ q.told = s.told
        /\ q.todo = s.todo /\ SetCall(c, q)
    BY <2>4, <2>5
  <2> HIDE DEF q, r
  <2>7. Deletes(q) /\ Busy(q)  BY <2>6 DEF Deletes, Busy
  <2>8. Local(q)
    <3>1. \A d \in q.docs : \E k \in 1 .. Len(q.list) : q.list[k] = d
      BY <2>2, <2>6 DEF Listed
    <3> QED  BY <1>1, <1>2, <2>6, <2>7, <3>1 DEF Local
  <2>9. \A k \in 1 .. Len(l) : l[k] \in Nodes /\ parent[l[k]] # None
    BY <2>2 DEF Listed, Below
  <2>10. Known(q, taken)  BY <1>1, <2>6, <2>9 DEF Known, RefersTo
  <2>11. StaysWhole(q, parent)
    <3>1. \A i \in 1 .. Len(l), n \in Nodes : parent[n] = l[i] =>
            \E j \in i + 1 .. Len(l) : l[j] = n
      BY <1>1, <1>5, <2>1, <2>2, ListedIsWhole
    <3> QED  BY <2>6, <3>1 DEF StaysWhole, Adding
  <2>12. /\ Comes(q, parent, taken) /\ MakesNoCycle(q, parent) /\ StaysShallow(q, parent)
         /\ StaysDistinct(q, parent, name)
    BY <2>6 DEF Comes, Uploads, MakesNoCycle, StaysShallow, StaysDistinct, Naming
  <2>13. CallFits(q, parent, name, taken, races)
    BY <2>8, <2>10, <2>11, <2>12 DEF CallFits
  <2>14. Calm => Told(q, parent)
    <3> SUFFICES ASSUME Calm PROVE Told(q, parent)  OBVIOUS
    <3>1. Told(s, parent)  BY <1>2, DeleteIsTold
    <3>2. s.told = CountSubtree(parent, s.node)  BY <1>2, <3>1 DEF Told
    <3>3. B \cap Docs \subseteq s.told  BY <3>2 DEF Below, CountSubtree
    <3> QED  BY <2>6, <3>3 DEF Told
  <2>15. /\ UNCHANGED <<server, panel, answers, ops, races, crossed, hasty, untold>>
         /\ halfway' = halfway
    BY <1>5 DEF history
  <2> QED  BY <1>2, <2>6, <2>7, <2>9, <2>13, <2>14, <2>15, DeletePlain
<1> QED  BY <1>3, <1>4, <1>5 DEF DeleteList

\* A deletion fails.
LEMMA DeleteFailsKeeps ==
  ASSUME IInv, NEW c \in Calls, Busy(call[c]), call[c].op = "delete", DeleteFails(c)
  PROVE  IInv'
<1>1. NewCall \in CallRecords /\ SetCall(c, NewCall) /\ halfway' = TRUE
  BY RestRecords DEF DeleteFails
<1>2. UNCHANGED <<server, panel, answers, ops, races, crossed, hasty, untold>>
  BY DEF DeleteFails
<1> QED  BY <1>1, <1>2, DeletePlain

\* Documents of a list are archived one by one; one less to go.
LEMMA FewerDocs ==
  ASSUME NEW p, NEW nm, NEW S, NEW R, NEW s, CallFits(s, p, nm, S, R),
         s.op = "delete", s.pc = "docs",
         NEW r, r.op = s.op, r.pc = s.pc, r.node = s.node, r.to = s.to, r.list = s.list,
         r.todo = s.todo, r.docs \subseteq s.docs
  PROVE  CallFits(r, p, nm, S, R)
<1>1. Local(s) /\ Known(s, S) /\ Busy(s) /\ Busy(r)  BY DEF CallFits, Busy
<1>2. Local(r)  BY <1>1 DEF Local
<1>3. Known(r, S)  BY <1>1 DEF Known
<1>4. Comes(r, p, S) /\ MakesNoCycle(r, p) /\ StaysShallow(r, p) /\ StaysDistinct(r, p, nm)
  BY DEF Comes, Uploads, MakesNoCycle, StaysShallow, StaysDistinct, Naming
<1>5. ~ OrphanRace(R) => StaysWhole(r, p)  BY DEF CallFits, StaysWhole, Adding
<1> QED  BY <1>2, <1>3, <1>4, <1>5 DEF CallFits

\* A deletion removes node n, which is in its list, and goes on as r.
LEMMA DeleteStep ==
  ASSUME IInv, NEW c \in Calls, Busy(call[c]), call[c].op = "delete", Deletes(call[c]),
         NEW r \in CallRecords, SetCall(c, r), Deletes(r),
         r.todo = call[c].todo, r.told = call[c].told,
         \A k \in 1 .. Len(r.list) : \E j \in 1 .. Len(call[c].list) :
           call[c].list[j] = r.list[k],
         UNCHANGED <<taken, panel, answers, ops, races, crossed, halfway, hasty>>,
         parent' \in Parents, name' \in NamesOf, live' \subseteq live, untold' \in BOOLEAN,
         ForestFits(parent', name', taken, races), CallFits(r, parent', name', taken, races),
         \A d \in Calls : d # c => CallFits(call[d], parent', name', taken, races),
         KeepsDocs(c), Calm => untold' = FALSE /\ Told(r, parent')
  PROVE  IInv'
<1>0. Types /\ taken \in SUBSET Nodes /\ live \subseteq taken /\ live \subseteq Docs
  BY Holds
<1>1. /\ taken' = taken /\ nodes' = nodes /\ items' = items /\ answers' = answers
      /\ dialog' = dialog /\ races' = races /\ crossed' = crossed /\ hasty' = hasty
      /\ halfway' = halfway
  BY DEF panel, shown
<1>2. call' = [call EXCEPT ![c] = r] /\ call'[c] = r  BY <1>0 DEF SetCall, Types
<1>3. halfway \in BOOLEAN  BY <1>0 DEF Types
<1>4. Goes(c) /\ r.pc # "find"  BY <1>1, <1>2 DEF Goes, Deletes, Busy
<1>5. live' \subseteq Docs /\ live' \subseteq taken'  BY <1>0, <1>1
<1>6. Acts(c)  BY <1>0, <1>1, <1>2, <1>3, <1>4, <1>5 DEF Acts
<1>7. ServerFits'  BY <1>0, <1>1, <1>2, <1>5, <1>6, ActsServer
<1>8. \A d \in Calls : d # c => Apart(call'[c], call[d]) /\ Apart(call[d], call'[c])
  <2>1. ~ Uploads(r)  BY DEF Uploads, Deletes
  <2> QED  BY <1>2, <2>1, DeleteApart
<1>9. KeepsTree(c)  BY <1>2 DEF KeepsTree
<1>10. ToldFits'
  <2>1. ToldFits  BY DEF IInv
  <2> QED  BY <1>0, <1>1, <1>2, <1>4, <1>6, <2>1, DeleteTold
<1> QED  BY <1>1, <1>6, <1>7, <1>8, <1>9, <1>10, ActsKeep

\* The documents listed are archived, with their nodes.
LEMMA DeleteDocsKeeps ==
  ASSUME IInv, NEW c \in Calls, DeleteDocs(c)
  PROVE  IInv'
<1>1. /\ Types /\ call[c] \in CallRecords /\ parent \in Parents /\ name \in NamesOf
      /\ taken \in SUBSET Nodes /\ Local(call[c])
      /\ ForestFits(parent, name, taken, races)
      /\ \A d \in Calls : CallFits(call[d], parent, name, taken, races)
  BY Holds
<1>2. /\ call[c].op = "delete" /\ call[c].pc = "docs" /\ Busy(call[c])
      /\ Deletes(call[c])
  BY DEF DeleteDocs, At, Busy, Deletes
<1> DEFINE s == call[c]
<1>3. CASE Proceed(c, "nodes")
  <2> DEFINE r == [s EXCEPT !.pc = "nodes"]
  <2>1. /\ r \in CallRecords /\ r.pc = "nodes" /\ r.op = s.op /\ r.node = s.node /\ r.to = s.to
        /\ r.list = s.list /\ r.todo = s.todo /\ r.told = s.told
    BY <1>1, PcSet DEF PCs
  <2>2. SetCall(c, r)  BY <1>3 DEF Proceed, CallTo
  <2> HIDE DEF r
  <2>3. Deletes(r) /\ Busy(r)  BY <1>2, <2>1 DEF Deletes, Busy
  <2>4. Known(s, taken) /\ CallFits(s, parent, name, taken, races)  BY <1>1 DEF CallFits
  <2>5. Local(r)  BY <1>1, <1>2, <2>1, <2>3 DEF Local
  <2>6. Known(r, taken)  BY <2>1, <2>4 DEF Known
  <2>7. /\ Comes(r, parent, taken) /\ MakesNoCycle(r, parent) /\ StaysShallow(r, parent)
        /\ StaysDistinct(r, parent, name)
    BY <1>2, <2>1 DEF Comes, Uploads, MakesNoCycle, StaysShallow, StaysDistinct, Naming
  <2>8. ~ OrphanRace(races) => StaysWhole(r, parent)
    BY <1>2, <2>1, <2>4 DEF CallFits, StaysWhole, Adding
  <2>9. CallFits(r, parent, name, taken, races)
    BY <2>5, <2>6, <2>7, <2>8 DEF CallFits
  <2>10. /\ UNCHANGED <<server, panel, answers, ops, races, crossed, hasty, untold>>
         /\ halfway' = halfway
    BY <1>3 DEF Proceed, history
  <2>11. Told(r, parent)  BY <2>1 DEF Told
  <2> QED  BY <1>2, <2>1, <2>2, <2>3, <2>9, <2>10, <2>11, DeletePlain
<1>4. CASE DeleteFails(c)  BY <1>2, <1>4, DeleteFailsKeeps
<1>5. ASSUME NEW d \in s.docs, live' = live \ {d}, parent' = [parent EXCEPT ![d] = None],
             untold' = (untold \/ d \notin s.told),
             SetCall(c, [s EXCEPT !.docs = @ \ {d}]),
             UNCHANGED <<name, taken, panel, answers, ops, races, crossed, halfway, hasty>>
      PROVE  IInv'
  <2> DEFINE r == [s EXCEPT !.docs = @ \ {d}]
  <2>1. /\ r \in CallRecords /\ r.pc = s.pc /\ r.op = s.op /\ r.node = s.node /\ r.to = s.to
        /\ r.list = s.list /\ r.todo = s.todo /\ r.told = s.told /\ r.docs = s.docs \ {d}
        /\ s.docs \subseteq Docs
    BY <1>1 DEF CallRecords
  <2>2. SetCall(c, r)  BY <1>5
  <2> HIDE DEF r
  <2>3. d \in Docs /\ None \in Homes \cup {None} /\ None \notin Folders  BY <2>1, NodesAreFinite
  <2>4. parent' \in Parents /\ name' \in NamesOf /\ name' = name
    BY <1>1, <1>5, <2>3 DEF Parents, Nodes
  <2>5. ForestFits(parent', name', taken, races)  BY <1>1, <1>5, <2>3, <2>4, PlaceForest
  <2>6. \A e \in Calls : CallFits(call[e], parent', name', taken, races)
    BY <1>1, <1>5, <2>3, <2>4, PlaceOthers
  <2>7. CallFits(r, parent', name', taken, races)
    <3>1. CallFits(s, parent', name', taken, races) /\ r.docs \subseteq s.docs  BY <2>1, <2>6
    <3> QED  BY <1>2, <2>1, <3>1, FewerDocs
  <2>8. Deletes(r)  BY <1>2, <2>1 DEF Deletes
  <2>9. PICK k \in 1 .. Len(s.list) : s.list[k] = d  BY <1>1, <1>2 DEF Local
  <2>10. parent'[d] = None  BY <1>1, <1>5, <2>3 DEF Parents, Nodes
  <2>11. Dooms(r, parent')  BY <2>1, <2>3, <2>8, <2>9, <2>10 DEF Dooms
  <2>12. call'[c] = r  BY <1>1, <2>2 DEF SetCall, Types
  <2>13. KeepsDocs(c)  BY <2>11, <2>12 DEF KeepsDocs
  <2>14. Calm => untold' = FALSE /\ Told(r, parent')
    <3> SUFFICES ASSUME Calm PROVE untold' = FALSE /\ Told(r, parent')  OBVIOUS
    <3>1. untold = FALSE /\ Told(s, parent)  BY <1>2, DeleteIsTold
    <3>2. s.docs \subseteq s.told  BY <1>2, <3>1 DEF Told
    <3> QED  BY <1>2, <1>5, <2>1, <3>1, <3>2 DEF Told
  <2>15. untold' \in BOOLEAN  BY <1>5
  <2>16. live' \subseteq live  BY <1>5
  <2>17. \A i \in 1 .. Len(r.list) : \E j \in 1 .. Len(s.list) : s.list[j] = r.list[i]
    BY <2>1
  <2>18. \A e \in Calls : e # c => CallFits(call[e], parent', name', taken, races)  BY <2>6
  <2>19. UNCHANGED <<taken, panel, answers, ops, races, crossed, halfway, hasty>>  BY <1>5
  <2>20. Deletes(s) /\ Busy(s) /\ s.op = "delete" /\ r.todo = s.todo /\ r.told = s.told
    BY <1>2, <2>1
  <2> QED
    BY <2>1, <2>2, <2>4, <2>5, <2>7, <2>8, <2>13, <2>14, <2>15, <2>16, <2>17, <2>18, <2>19,
       <2>20, DeleteStep
<1> QED  BY <1>3, <1>4, <1>5 DEF DeleteDocs

\* The list without its last node.
LEMMA FrontIs ==
  ASSUME NEW s \in Seq(Nodes), s # <<>>
  PROVE  /\ Len(s) \in Nat /\ Len(s) # 0 /\ Last(s) = s[Len(s)] /\ Last(s) \in Nodes
         /\ Front(s) \in Seq(Nodes) /\ Len(Front(s)) = Len(s) - 1
         /\ \A i \in 1 .. Len(s) - 1 : Front(s)[i] = s[i]
<1>1. Len(s) \in Nat /\ Len(s) # 0  OBVIOUS
<1>2. Last(s) = s[Len(s)] /\ Last(s) \in Nodes  BY <1>1 DEF Last
<1>3. /\ Front(s) \in Seq(Nodes) /\ Len(Front(s)) = Len(s) - 1
      /\ \A i \in 1 .. Len(s) - 1 : Front(s)[i] = s[i]
  <2>1. \A i \in 1 .. Len(s) - 1 : s[i] \in Nodes  BY <1>1
  <2>2. Front(s) = SubSeq(s, 1, Len(s) - 1)  BY DEF Front
  <2>3. 1 \in Int /\ Len(s) - 1 \in Int  BY <1>1
  <2>4. /\ SubSeq(s, 1, Len(s) - 1) \in Seq(Nodes)
        /\ Len(SubSeq(s, 1, Len(s) - 1)) =
             IF 1 <= Len(s) - 1 THEN (Len(s) - 1) - 1 + 1 ELSE 0
        /\ \A i \in 1 .. (Len(s) - 1) - 1 + 1 : SubSeq(s, 1, Len(s) - 1)[i] = s[1 + i - 1]
    BY <2>1, <2>3, SubSeqProperties
  <2>5. Len(Front(s)) = Len(s) - 1
    <3> DEFINE t == SubSeq(s, 1, Len(s) - 1)
               m == Len(s)
    <3>1. Len(t) = IF 1 <= m - 1 THEN (m - 1) - 1 + 1 ELSE 0  BY <2>4
    <3>2. Front(s) = t /\ m \in Nat /\ m # 0  BY <1>1, <2>2
    <3> HIDE DEF t, m
    <3>3. Len(t) = m - 1  BY <3>1, <3>2
    <3> QED  BY <3>2, <3>3 DEF m
  <2>6. \A i \in 1 .. Len(s) - 1 : i \in 1 .. (Len(s) - 1) - 1 + 1 /\ 1 + i - 1 = i
    BY <1>1
  <2> QED  BY <2>2, <2>4, <2>5, <2>6
<1> QED  BY <1>1, <1>2, <1>3

\* The nodes listed are removed, the last first.
LEMMA DeleteNodesKeeps ==
  ASSUME IInv, NEW c \in Calls, DeleteNodes(c)
  PROVE  IInv'
<1>1. /\ Types /\ call[c] \in CallRecords /\ parent \in Parents /\ name \in NamesOf
      /\ taken \in SUBSET Nodes /\ Local(call[c]) /\ Known(call[c], taken)
      /\ ForestFits(parent, name, taken, races)
      /\ \A d \in Calls : CallFits(call[d], parent, name, taken, races)
      /\ \A d \in Calls : d # c => Met(call[d], call[c], races)
  BY Holds
<1>2. /\ call[c].op = "delete" /\ call[c].pc = "nodes" /\ Busy(call[c])
      /\ Deletes(call[c])
  BY DEF DeleteNodes, At, Busy, Deletes
<1> DEFINE s == call[c]
           n == Last(s.list)
<1>3. CASE s.list = <<>> /\ Succeed(c) /\ UNCHANGED <<server, history>>
  <2>1. Len(s.list) = 0  BY <1>3
  <2>2. ~ Dooms(s, parent)  BY <2>1 DEF Dooms
  <2> QED  BY <1>2, <1>3, <2>2, DeleteSucceeds
<1>4. CASE DeleteFails(c)  BY <1>2, <1>4, DeleteFailsKeeps
<1>5. CASE /\ s.list # <<>> /\ Exists(n) /\ parent' = [parent EXCEPT ![n] = None]
           /\ name' = [f \in Folders |-> IF f = n THEN None ELSE name[f]]
           /\ SetCall(c, [s EXCEPT !.list = Front(@)])
           /\ UNCHANGED <<live, taken, panel, answers, ops, history>>
  <2> DEFINE r == [s EXCEPT !.list = Front(@)]
             N == Len(s.list)
  <2>0. s.list \in Seq(Nodes)  BY <1>1 DEF CallRecords
  <2>1. /\ N \in Nat /\ N # 0 /\ n = s.list[N] /\ n \in Nodes
        /\ Front(s.list) \in Seq(Nodes) /\ Len(Front(s.list)) = N - 1
        /\ \A i \in 1 .. N - 1 : Front(s.list)[i] = s.list[i]
    BY <1>5, <2>0, FrontIs
  <2>2. /\ r \in CallRecords /\ r.pc = s.pc /\ r.op = s.op /\ r.node = s.node /\ r.to = s.to
        /\ r.list = Front(s.list) /\ r.todo = s.todo /\ r.told = s.told /\ r.docs = s.docs
    BY <1>1, <2>1 DEF CallRecords
  <2>3. SetCall(c, r)  BY <1>5
  <2> HIDE DEF r, N, n
  <2>4. n # Root /\ None \notin Nodes /\ None \notin Folders  BY <2>1, NodesAreFinite
  <2>5. parent[n] # None  BY <1>5, <2>4 DEF Exists
  <2>6. /\ parent' \in Parents /\ parent'[n] = None
        /\ \A x \in Nodes : x # n => parent'[x] = parent[x]
    BY <1>1, <1>5, <2>1 DEF Parents
  <2>7. name' = Unnamed(name, n) /\ name' \in NamesOf  BY <1>1, <1>5 DEF Unnamed, NamesOf
  <2>8. ASSUME ~ OrphanRace(races) PROVE \A x \in Nodes : parent[x] # n
    <3> SUFFICES ASSUME NEW x \in Nodes, parent[x] = n PROVE FALSE  OBVIOUS
    <3>1. StaysWhole(s, parent)  BY <1>1, <2>8 DEF CallFits
    <3>2. N \in 1 .. Len(s.list)  BY <2>1 DEF N
    <3>3. \E j \in N + 1 .. Len(s.list) : s.list[j] = x
      BY <1>2, <2>1, <3>1, <3>2 DEF StaysWhole
    <3> QED  BY <2>1, <3>3 DEF N
  <2>9. ForestFits(parent', name', taken, races)
    <3>1. ForestFits([parent EXCEPT ![n] = None], Unnamed(name, n), taken, races)
      BY <1>1, <2>1, <2>8, CutForest
    <3> QED  BY <1>5, <2>7, <3>1
  <2>10. ASSUME NEW d \in Calls PROVE CallFits(call[d], parent', name', taken, races)
    <3>1. ~ OrphanRace(races) => ~ (Busy(call[d]) /\ call[d].op \in Adding)
      <4> SUFFICES ASSUME ~ OrphanRace(races), Busy(call[d]), call[d].op \in Adding PROVE FALSE
        OBVIOUS
      <4>1. d # c  BY <1>2 DEF Adding
      <4>2. {call[d].op, "delete"} \in races  BY <1>1, <1>2, <4>1 DEF Met
      <4>3. call[d].op \in {call[d].op, "delete"} \cap Adding /\ "delete" \in {call[d].op, "delete"}
        OBVIOUS
      <4> QED  BY <4>2, <4>3 DEF OrphanRace
    <3>2. CallFits(call[d], parent, name, taken, races)  BY <1>1
    <3>3. CallFits(call[d], [parent EXCEPT ![n] = None], Unnamed(name, n), taken, races)
      BY <1>1, <2>1, <3>1, <3>2, CutOthers
    <3> QED  BY <1>5, <2>7, <3>3
  <2>11. Busy(r) /\ Deletes(r)  BY <1>2, <2>2 DEF Busy, Deletes
  <2>12. ASSUME NEW i \in 1 .. Len(r.list)
         PROVE  i \in 1 .. Len(s.list) /\ i \in 1 .. N - 1 /\ s.list[i] = r.list[i]
    BY <2>1, <2>2 DEF N
  <2>13. CallFits(r, parent', name', taken, races)
    <3>1. CallFits(s, parent', name', taken, races)  BY <2>10
    <3>2. Local(r)  BY <1>1, <1>2, <2>2, <2>11 DEF Local
    <3>3. Known(r, taken)  BY <1>1, <2>2, <2>12 DEF Known
    <3>4. /\ Comes(r, parent', taken) /\ MakesNoCycle(r, parent') /\ StaysShallow(r, parent')
          /\ StaysDistinct(r, parent', name')
      BY <1>2, <2>2 DEF Comes, Uploads, MakesNoCycle, StaysShallow, StaysDistinct, Naming
    <3>5. ASSUME ~ OrphanRace(races) PROVE StaysWhole(r, parent')
      <4>1. StaysWhole(s, parent')  BY <3>1, <3>5 DEF CallFits
      <4>2. ASSUME NEW i \in 1 .. Len(r.list), NEW x \in Nodes, parent'[x] = r.list[i]
            PROVE  \E j \in i + 1 .. Len(r.list) : r.list[j] = x
        <5>1. i \in 1 .. Len(s.list) /\ s.list[i] = r.list[i]  BY <2>12
        <5>2. PICK j \in i + 1 .. Len(s.list) : s.list[j] = x
          BY <1>2, <4>1, <4>2, <5>1 DEF StaysWhole
        <5>3. s.list[i] \in Nodes  BY <2>0, <5>1
        <5>4. x # n  BY <2>4, <2>6, <4>2, <5>1, <5>3
        <5>5. j # N  BY <2>1, <5>2, <5>4
        <5>6. j \in i + 1 .. Len(r.list) /\ j \in 1 .. Len(r.list)
          BY <2>1, <2>2, <5>2, <5>5 DEF N
        <5> QED  BY <2>12, <5>2, <5>6
      <4> QED  BY <1>2, <2>2, <4>2 DEF StaysWhole, Adding
    <3> QED  BY <3>2, <3>3, <3>4, <3>5 DEF CallFits
  <2>14. call'[c] = r  BY <1>1, <2>3 DEF SetCall, Types
  <2>15. KeepsDocs(c)
    <3>1. CASE Dooms(s, parent)
      <4>1. PICK k \in 1 .. Len(s.list) : s.list[k] \in Docs /\ parent[s.list[k]] = None
        BY <3>1 DEF Dooms
      <4>2. k # N  BY <2>1, <2>5, <4>1
      <4>3. k \in 1 .. Len(r.list)  BY <2>1, <2>2, <4>2 DEF N
      <4>4. r.list[k] = s.list[k]  BY <2>12, <4>3
      <4>5. parent'[r.list[k]] = None
        <5>1. s.list[k] \in Nodes  BY <2>0
        <5> QED  BY <2>6, <4>1, <4>4, <5>1
      <4>6. Dooms(r, parent')  BY <2>11, <4>1, <4>3, <4>4, <4>5 DEF Dooms
      <4> QED  BY <2>14, <4>6 DEF KeepsDocs
    <3>2. CASE ~ Dooms(s, parent)
      <4>1. ASSUME NEW d \in Calls, Dooms(call[d], parent) PROVE Dooms(call[d], parent')
        <5>1. call[d] \in CallRecords  BY <1>1 DEF Types
        <5>2. call[d].list \in Seq(Nodes)  BY <5>1 DEF CallRecords
        <5> QED  BY <2>6, <4>1, <5>2 DEF Dooms
      <4>2. ~ Archives(s) /\ ~ Uploads(s) /\ live' = live  BY <1>2, <1>5 DEF Archives, Uploads
      <4> QED  BY <3>2, <4>1, <4>2 DEF KeepsDocs
    <3> QED  BY <3>1, <3>2
  <2>16. Calm => untold' = FALSE /\ Told(r, parent')
    <3>1. Calm => untold = FALSE  BY <1>2, DeleteIsTold
    <3>2. untold' = untold  BY <1>5 DEF history
    <3>3. Told(r, parent')  BY <1>2, <2>2 DEF Told
    <3> QED  BY <3>1, <3>2, <3>3
  <2>17. untold' \in BOOLEAN /\ live' \subseteq live  BY <1>1, <1>5 DEF history, Types
  <2>18. \A i \in 1 .. Len(r.list) : \E j \in 1 .. Len(s.list) : s.list[j] = r.list[i]
    BY <2>12
  <2>19. UNCHANGED <<taken, panel, answers, ops, races, crossed, halfway, hasty>>
    BY <1>5 DEF history
  <2>20. Deletes(s) /\ Busy(s) /\ s.op = "delete" /\ r.todo = s.todo /\ r.told = s.told
    BY <1>2, <2>2
  <2>21. \A d \in Calls : d # c => CallFits(call[d], parent', name', taken, races)  BY <2>10
  <2> QED
    BY <2>2, <2>3, <2>6, <2>7, <2>9, <2>11, <2>13, <2>15, <2>16, <2>17, <2>18, <2>19, <2>20,
       <2>21, DeleteStep
<1> QED  BY <1>3, <1>4, <1>5 DEF DeleteNodes
-----------------------------------------------------------------------------
(* Lists are read, and received. *)

\* A list put at the end of those on their way.
LEMMA AppendShows ==
  ASSUME NEW s \in Seq(AnswerRecords), NEW a \in AnswerRecords, NEW l
  PROVE  /\ a.list = l => \A old : WillShow(Append(s, a), l, old, Item(a, l))
         /\ a.list # l => /\ \A old, new : WillShow(s, l, old, new) =>
                               WillShow(Append(s, a), l, old, new)
                          /\ \A c : Without(s, c, l) => Without(Append(s, a), c, l)
<1> DEFINE t == Append(s, a)
           n == Len(s)
<1>1. /\ n \in Nat /\ Len(t) = n + 1 /\ t[n + 1] = a /\ t \in Seq(AnswerRecords)
      /\ \A i \in 1 .. n : t[i] = s[i]
  OBVIOUS
<1> HIDE DEF t
<1>2. ASSUME a.list = l, NEW old PROVE WillShow(t, l, old, Item(a, l))
  <2>1. n + 1 \in 1 .. Len(t)  BY <1>1
  <2>2. Newest(t, n + 1, l)
    <3>1. \A j \in n + 1 + 1 .. Len(t) : FALSE  BY <1>1
    <3> QED  BY <1>1, <1>2, <3>1 DEF Newest
  <2> QED  BY <1>1, <2>1, <2>2 DEF WillShow
<1>3. ASSUME a.list # l, NEW old, NEW new, WillShow(s, l, old, new)
      PROVE  WillShow(t, l, old, new)
  <2>1. ASSUME NEW i \in 1 .. n, Newest(s, i, l), Item(s[i], l) = new PROVE WillShow(t, l, old, new)
    <3>1. i \in 1 .. Len(t) /\ t[i] = s[i]  BY <1>1
    <3>2. \A j \in i + 1 .. Len(t) : t[j].list # l
      <4> SUFFICES ASSUME NEW j \in i + 1 .. Len(t) PROVE t[j].list # l  OBVIOUS
      <4>1. CASE j = n + 1  BY <1>1, <1>3, <4>1
      <4>2. CASE j # n + 1
        <5>1. j \in i + 1 .. n /\ j \in 1 .. n  BY <1>1, <4>2
        <5> QED  BY <1>1, <2>1, <5>1 DEF Newest
      <4> QED  BY <4>1, <4>2
    <3>3. Newest(t, i, l)  BY <2>1, <3>1, <3>2 DEF Newest
    <3> QED  BY <2>1, <3>1, <3>3 DEF WillShow
  <2>2. ASSUME old = new, \A i \in 1 .. n : s[i].list # l PROVE WillShow(t, l, old, new)
    <3>1. ASSUME NEW i \in 1 .. Len(t) PROVE t[i].list # l
      <4>1. CASE i = n + 1  BY <1>1, <1>3, <4>1
      <4>2. CASE i # n + 1
        <5>1. i \in 1 .. n  BY <1>1, <4>2
        <5> QED  BY <1>1, <2>2, <5>1
      <4> QED  BY <4>1, <4>2
    <3> QED  BY <2>2, <3>1 DEF WillShow
  <2> QED  BY <1>3, <2>1, <2>2 DEF WillShow
<1>4. ASSUME a.list # l, NEW c, Without(s, c, l) PROVE Without(t, c, l)
  <2> SUFFICES ASSUME NEW i \in 1 .. Len(t), t[i].call = c PROVE t[i].list # l
    BY DEF Without
  <2>1. CASE i = n + 1  BY <1>1, <1>4, <2>1
  <2>2. CASE i # n + 1
    <3>1. i \in 1 .. n  BY <1>1, <2>2
    <3> QED  BY <1>1, <1>4, <3>1 DEF Without
  <2> QED  BY <2>1, <2>2
<1> QED  BY <1>2, <1>3, <1>4 DEF t

\* The server reads a list.
LEMMA ReadListKeeps ==
  ASSUME IInv, NEW c \in Calls, ReadList(c)
  PROVE  IInv'
<1>1. /\ Types /\ ServerFits /\ PairsFit /\ RefersTo(nodes, taken) /\ DialogFits /\ ListsFit
      /\ PanelFits /\ ToldFits
  BY DEF IInv
<1>2. /\ parent \in Parents /\ live \subseteq Docs /\ RefersTo(parent, taken)
      /\ Local(call[c]) /\ answers \in Seq(AnswerRecords)
  BY <1>1, Holds DEF Types
<1>3. PICK l \in Head(call[c].todo) \ Asked(c) :
        answers' = Append(answers, [call |-> c, list |-> l, nodes |-> parent, items |-> Page(live)])
  BY DEF ReadList
<1>4. /\ call[c].pc = "reload" /\ call[c].todo # <<>>
      /\ UNCHANGED <<server, call, panel, ops, history>>
  BY DEF ReadList
<1>5. /\ parent' = parent /\ name' = name /\ live' = live /\ taken' = taken /\ call' = call
      /\ nodes' = nodes /\ items' = items /\ dialog' = dialog
      /\ races' = races /\ crossed' = crossed /\ hasty' = hasty
      /\ halfway' = halfway /\ untold' = untold
  BY <1>4 DEF server, panel, shown, history
<1>6. call[c].todo \in Todos  BY <1>2, <1>4 DEF Local
<1>7. Head(call[c].todo) = call[c].todo[1] /\ l \in call[c].todo[1]  BY <1>3, <1>4
<1>8. l \in Lists  BY <1>6, <1>7 DEF Todos, Lists
<1> DEFINE a == [call |-> c, list |-> l, nodes |-> parent, items |-> Page(live)]
           n == Len(answers)
<1>9. a \in AnswerRecords
  <2>1. Page(live) \in SUBSET Docs  BY <1>2, PageOf
  <2> QED  BY <1>2, <1>8, <2>1 DEF AnswerRecords
<1>10. a.call = c /\ a.list = l /\ a.nodes = parent /\ a.items = Page(live)  OBVIOUS
<1>11. answers' = Append(answers, a)  BY <1>3
<1> HIDE DEF a
<1>12. /\ n \in Nat /\ Len(answers') = n + 1 /\ answers'[n + 1] = a
       /\ answers' \in Seq(AnswerRecords)
       /\ \A i \in 1 .. n : answers'[i] = answers[i]
  BY <1>2, <1>9, <1>11
<1>13. Types'  BY <1>1, <1>5, <1>12 DEF Types
<1>14. ServerFits' /\ PairsFit' /\ RefersTo(nodes, taken)' /\ DialogFits'
  BY <1>1, <1>5 DEF ServerFits, PairsFit, DialogFits
<1>15. ListsFit'
  <2>1. ASSUME NEW i \in 1 .. Len(answers')
        PROVE  /\ Awaits(call[answers'[i].call], answers'[i].list)
               /\ RefersTo(answers'[i].nodes, taken)
    <3>1. CASE i = n + 1  BY <1>2, <1>4, <1>7, <1>10, <1>12, <3>1 DEF Awaits
    <3>2. CASE i # n + 1
      <4>1. i \in 1 .. n  BY <1>12, <3>2
      <4> QED  BY <1>1, <1>12, <4>1 DEF ListsFit
    <3> QED  BY <3>1, <3>2
  <2>2. ASSUME NEW i \in 1 .. n PROVE answers[i].call # c \/ answers[i].list # l
    <3>1. answers[i] \in Range(answers)  BY <1>2 DEF Range
    <3> QED  BY <1>3, <3>1 DEF Asked
  <2>3. Single(answers')
    <3> SUFFICES ASSUME NEW i \in 1 .. Len(answers'), NEW j \in 1 .. Len(answers'),
                        answers'[i].call = answers'[j].call, answers'[i].list = answers'[j].list
                 PROVE  i = j
      BY DEF Single
    <3>1. CASE i = n + 1 /\ j = n + 1  BY <3>1
    <3>2. CASE i = n + 1 /\ j # n + 1
      <4>1. j \in 1 .. n  BY <1>12, <3>2
      <4> QED  BY <1>10, <1>12, <2>2, <3>2, <4>1
    <3>3. CASE i # n + 1 /\ j = n + 1
      <4>1. i \in 1 .. n  BY <1>12, <3>3
      <4> QED  BY <1>10, <1>12, <2>2, <3>3, <4>1
    <3>4. CASE i # n + 1 /\ j # n + 1
      <4>1. i \in 1 .. n /\ j \in 1 .. n  BY <1>12, <3>4
      <4>2. Single(answers)  BY <1>1 DEF ListsFit
      <4> QED  BY <1>12, <4>1, <4>2 DEF Single
    <3> QED  BY <3>1, <3>2, <3>3, <3>4
  <2> QED  BY <1>5, <2>1, <2>3 DEF ListsFit
<1>16. PanelFits'
  <2> SUFFICES ASSUME ~ crossed', ~ halfway' PROVE TreeFits' /\ DocsFit'  BY DEF PanelFits
  <2>0. TreeFits /\ DocsFit  BY <1>1, <1>5 DEF PanelFits
  <2>1. ASSUME NEW k
        PROVE  /\ l = k => \A old : WillShow(answers', k, old, Item(a, k))
               /\ l # k => /\ \A old, new : WillShow(answers, k, old, new) =>
                               WillShow(answers', k, old, new)
                           /\ \A d : Without(answers, d, k) => Without(answers', d, k)
    BY <1>2, <1>9, <1>10, <1>11, AppendShows
  <2>2. TreeFits'
    <3>1. CASE l = "tree"
      <4>1. Item(a, "tree") = parent  BY <1>10 DEF Item
      <4>2. WillShow(answers', "tree", nodes, parent)  BY <2>1, <3>1, <4>1
      <4> QED  BY <1>5, <4>2 DEF TreeFits
    <3>2. CASE l # "tree"
      <4>1. CASE WillShow(answers, "tree", nodes, parent)
        <5>1. WillShow(answers', "tree", nodes, parent)  BY <2>1, <3>2, <4>1
        <5> QED  BY <1>5, <5>1 DEF TreeFits
      <4>2. CASE ~ WillShow(answers, "tree", nodes, parent)
        <5>1. PICK d \in Calls : \/ ToRead(call[d], "tree") /\ Without(answers, d, "tree")
                                 \/ Deletes(call[d])
          BY <2>0, <4>2 DEF TreeFits
        <5>2. \/ ToRead(call[d], "tree") /\ Without(answers', d, "tree")
              \/ Deletes(call[d])
          BY <2>1, <3>2, <5>1
        <5> QED  BY <1>5, <5>2 DEF TreeFits
      <4> QED  BY <4>1, <4>2
    <3> QED  BY <3>1, <3>2
  <2>3. DocsFit'
    <3>1. CASE l = "docs"
      <4>1. Item(a, "docs") = Page(live)  BY <1>10 DEF Item
      <4>2. WillShow(answers', "docs", items, Page(live))  BY <2>1, <3>1, <4>1
      <4> QED  BY <1>5, <4>2 DEF DocsFit
    <3>2. CASE l # "docs"
      <4>1. CASE WillShow(answers, "docs", items, Page(live))
        <5>1. WillShow(answers', "docs", items, Page(live))  BY <2>1, <3>2, <4>1
        <5> QED  BY <1>5, <5>1 DEF DocsFit
      <4>2. CASE ~ WillShow(answers, "docs", items, Page(live))
        <5>1. PICK d \in Calls : \/ ToRead(call[d], "docs") /\ Without(answers, d, "docs")
                                 \/ Dooms(call[d], parent) \/ Archives(call[d])
                                 \/ Uploads(call[d])
          BY <2>0, <4>2 DEF DocsFit
        <5>2. \/ ToRead(call[d], "docs") /\ Without(answers', d, "docs")
              \/ Dooms(call[d], parent) \/ Archives(call[d]) \/ Uploads(call[d])
          BY <2>1, <3>2, <5>1
        <5> QED  BY <1>5, <5>2 DEF DocsFit
      <4> QED  BY <4>1, <4>2
    <3> QED  BY <3>1, <3>2
  <2> QED  BY <2>2, <2>3
<1>17. ToldFits'  BY <1>1, <1>5 DEF ToldFits, Calm, Counted, Idle
<1> QED  BY <1>13, <1>14, <1>15, <1>16, <1>17 DEF IInv

\* t is s without element i.
Shifted(s, t, i) ==
  /\ t \in Seq(AnswerRecords) /\ Len(t) = Len(s) - 1 /\ Len(s) \in Nat
  /\ \A k \in 1 .. Len(t) : t[k] = IF k < i THEN s[k] ELSE s[k + 1]

\* The sequence without one element.
LEMMA RemoveAtIs ==
  ASSUME NEW s \in Seq(AnswerRecords), NEW i \in 1 .. Len(s)
  PROVE  Shifted(s, RemoveAt(s, i), i)
<1> DEFINE n == Len(s)
           a == SubSeq(s, 1, i - 1)
           b == SubSeq(s, i + 1, n)
           t == a \o b
<1>1. n \in Nat /\ i \in 1 .. n /\ i \in Nat  OBVIOUS
<1>2. \A k \in 1 .. n : s[k] \in AnswerRecords  OBVIOUS
<1> HIDE DEF n
<1>3. /\ a \in Seq(AnswerRecords) /\ Len(a) = (IF 1 <= i - 1 THEN (i - 1) - 1 + 1 ELSE 0)
      /\ \A k \in 1 .. (i - 1) - 1 + 1 : a[k] = s[1 + k - 1]
  <2>1. 1 \in Int /\ i - 1 \in Int /\ \A k \in 1 .. i - 1 : s[k] \in AnswerRecords
    BY <1>1, <1>2
  <2> QED  BY <2>1, SubSeqProperties
<1>4. /\ b \in Seq(AnswerRecords) /\ Len(b) = (IF i + 1 <= n THEN n - (i + 1) + 1 ELSE 0)
      /\ \A k \in 1 .. n - (i + 1) + 1 : b[k] = s[(i + 1) + k - 1]
  <2>1. i + 1 \in Int /\ n \in Int /\ \A k \in i + 1 .. n : s[k] \in AnswerRecords
    BY <1>1, <1>2
  <2> QED  BY <2>1, SubSeqProperties
<1> HIDE DEF a, b
<1>5. Len(a) = i - 1 /\ Len(b) = n - i  BY <1>1, <1>3, <1>4
<1>6. /\ t \in Seq(AnswerRecords) /\ Len(t) = Len(a) + Len(b)
      /\ \A k \in 1 .. Len(a) + Len(b) : t[k] = IF k <= Len(a) THEN a[k] ELSE b[k - Len(a)]
  BY <1>3, <1>4, ConcatProperties
<1>7. Len(t) = n - 1  BY <1>1, <1>5, <1>6
<1> HIDE DEF t
<1>8. ASSUME NEW k \in 1 .. Len(t) PROVE t[k] = IF k < i THEN s[k] ELSE s[k + 1]
  <2>1. k \in 1 .. Len(a) + Len(b)  BY <1>6
  <2>2. CASE k < i
    <3>1. k \in 1 .. (i - 1) - 1 + 1 /\ 1 + k - 1 = k  BY <1>1, <1>7, <2>2
    <3>2. k <= Len(a)  BY <1>1, <1>5, <1>7, <2>2
    <3> QED  BY <1>3, <1>6, <2>1, <2>2, <3>1, <3>2
  <2>3. CASE ~ (k < i)
    <3>1. /\ k - (i - 1) \in 1 .. n - (i + 1) + 1 /\ (i + 1) + (k - (i - 1)) - 1 = k + 1
          /\ ~ (k <= i - 1)
      BY <1>1, <1>7, <2>3
    <3>2. t[k] = b[k - (i - 1)]  BY <1>5, <1>6, <2>1, <3>1
    <3> QED  BY <1>4, <2>3, <3>1, <3>2
  <2> QED  BY <2>2, <2>3
<1>9. RemoveAt(s, i) = t  BY DEF RemoveAt, t, a, b, n
<1> QED  BY <1>1, <1>6, <1>7, <1>8, <1>9 DEF Shifted, n

\* Each element but i is at one place of t.
Places(s, t, i) ==
  /\ \A k \in 1 .. Len(t) : \E j \in 1 .. Len(s) :
       j # i /\ t[k] = s[j] /\ (j = IF k < i THEN k ELSE k + 1)
  /\ \A j \in 1 .. Len(s) : j # i => \E k \in 1 .. Len(t) :
       t[k] = s[j] /\ (j = IF k < i THEN k ELSE k + 1)

\* So it is in a sequence without one element.
LEMMA ShiftedHas ==
  ASSUME NEW s \in Seq(AnswerRecords), NEW i \in 1 .. Len(s), NEW t, Shifted(s, t, i)
  PROVE  Places(s, t, i)
<1>1. Len(s) \in Nat /\ Len(t) = Len(s) - 1  BY DEF Shifted
<1>2. ASSUME NEW k \in 1 .. Len(t)
      PROVE  \E j \in 1 .. Len(s) : j # i /\ t[k] = s[j] /\ (j = IF k < i THEN k ELSE k + 1)
  <2>1. CASE k < i
    <3>1. k \in 1 .. Len(s) /\ k # i /\ t[k] = s[k]  BY <1>1, <2>1 DEF Shifted
    <3> QED  BY <2>1, <3>1
  <2>2. CASE ~ (k < i)
    <3>1. k + 1 \in 1 .. Len(s) /\ k + 1 # i  BY <1>1, <2>2
    <3>2. t[k] = s[k + 1]  BY <1>1, <2>2 DEF Shifted
    <3> QED  BY <2>2, <3>1, <3>2
  <2> QED  BY <2>1, <2>2
<1>3. ASSUME NEW j \in 1 .. Len(s), j # i
      PROVE  \E k \in 1 .. Len(t) : t[k] = s[j] /\ (j = IF k < i THEN k ELSE k + 1)
  <2>1. CASE j < i
    <3>1. j \in 1 .. Len(t)  BY <1>1, <2>1
    <3>2. t[j] = s[j]  BY <2>1, <3>1 DEF Shifted
    <3> QED  BY <2>1, <3>1, <3>2
  <2>2. CASE ~ (j < i)
    <3>1. j - 1 \in 1 .. Len(t) /\ ~ (j - 1 < i) /\ (j - 1) + 1 = j  BY <1>1, <1>3, <2>2
    <3>2. t[j - 1] = s[(j - 1) + 1]  BY <3>1 DEF Shifted
    <3>3. t[j - 1] = s[j]  BY <3>1, <3>2
    <3> QED  BY <3>1, <3>3
  <2> QED  BY <2>1, <2>2
<1> QED  BY <1>2, <1>3 DEF Places

\* One list arrives: those on their way still end with what is stored, and show it.
LEMMA ReceiveShows ==
  ASSUME NEW s \in Seq(AnswerRecords), NEW i \in 1 .. Len(s), NEW t, Shifted(s, t, i), NEW l
  PROVE  /\ s[i].list = l /\ (\A j \in 1 .. i - 1 : s[j].list # l) =>
              \A old, new : WillShow(s, l, old, new) => WillShow(t, l, Item(s[i], l), new)
         /\ s[i].list # l =>
              \A old, new : WillShow(s, l, old, new) => WillShow(t, l, old, new)
         /\ \A c : Without(s, c, l) => Without(t, c, l)
<1>1. /\ \A k \in 1 .. Len(t) : \E j \in 1 .. Len(s) :
           j # i /\ t[k] = s[j] /\ (j = IF k < i THEN k ELSE k + 1)
      /\ \A j \in 1 .. Len(s) : j # i => \E k \in 1 .. Len(t) :
           t[k] = s[j] /\ (j = IF k < i THEN k ELSE k + 1)
  <2>1. Places(s, t, i)  BY ShiftedHas
  <2> QED  BY <2>1 DEF Places
<1>2. Len(s) \in Nat /\ Len(t) \in Nat  BY DEF Shifted
<1>3. ASSUME NEW j \in 1 .. Len(s), j # i, Newest(s, j, l)
      PROVE  \E k \in 1 .. Len(t) : t[k] = s[j] /\ Newest(t, k, l)
  <2>1. PICK k \in 1 .. Len(t) : t[k] = s[j] /\ (j = IF k < i THEN k ELSE k + 1)
    BY <1>1, <1>3
  <2>2. ASSUME NEW k2 \in k + 1 .. Len(t) PROVE t[k2].list # l
    <3>1. k2 \in 1 .. Len(t) /\ k2 > k  BY <1>2
    <3>2. PICK j2 \in 1 .. Len(s) : t[k2] = s[j2] /\ (j2 = IF k2 < i THEN k2 ELSE k2 + 1)
      BY <1>1, <3>1
    <3>3. j2 \in j + 1 .. Len(s)  BY <1>2, <2>1, <3>1, <3>2
    <3> QED  BY <1>3, <3>2, <3>3 DEF Newest
  <2> QED  BY <1>3, <2>1, <2>2 DEF Newest
<1>4. ASSUME s[i].list = l, \A j \in 1 .. i - 1 : s[j].list # l, NEW old, NEW new,
             WillShow(s, l, old, new)
      PROVE  WillShow(t, l, Item(s[i], l), new)
  <2>1. PICK j \in 1 .. Len(s) : Newest(s, j, l) /\ Item(s[j], l) = new
    BY <1>4 DEF WillShow
  <2>2. CASE j = i
    <3>1. ASSUME NEW k \in 1 .. Len(t) PROVE t[k].list # l
      <4>1. PICK j2 \in 1 .. Len(s) : j2 # i /\ t[k] = s[j2]  BY <1>1
      <4>2. j2 \in 1 .. i - 1 \/ j2 \in i + 1 .. Len(s)  BY <1>2, <4>1
      <4> QED  BY <1>4, <2>1, <2>2, <4>1, <4>2 DEF Newest
    <3> QED  BY <2>1, <2>2, <3>1 DEF WillShow
  <2>3. CASE j # i
    <3>1. PICK k \in 1 .. Len(t) : t[k] = s[j] /\ Newest(t, k, l)  BY <1>3, <2>1, <2>3
    <3> QED  BY <2>1, <3>1 DEF WillShow
  <2> QED  BY <2>2, <2>3
<1>5. ASSUME s[i].list # l, NEW old, NEW new, WillShow(s, l, old, new)
      PROVE  WillShow(t, l, old, new)
  <2>1. ASSUME NEW j \in 1 .. Len(s), Newest(s, j, l), Item(s[j], l) = new
        PROVE  WillShow(t, l, old, new)
    <3>1. j # i  BY <1>5, <2>1 DEF Newest
    <3>2. PICK k \in 1 .. Len(t) : t[k] = s[j] /\ Newest(t, k, l)  BY <1>3, <2>1, <3>1
    <3> QED  BY <2>1, <3>2 DEF WillShow
  <2>2. ASSUME old = new, \A j \in 1 .. Len(s) : s[j].list # l
        PROVE  WillShow(t, l, old, new)
    <3>1. \A k \in 1 .. Len(t) : t[k].list # l  BY <1>1, <2>2
    <3> QED  BY <2>2, <3>1 DEF WillShow
  <2> QED  BY <1>5, <2>1, <2>2 DEF WillShow
<1>6. ASSUME NEW c, Without(s, c, l) PROVE Without(t, c, l)
  <2>1. ASSUME NEW k \in 1 .. Len(t), t[k].call = c PROVE t[k].list # l
    <3>1. PICK j \in 1 .. Len(s) : j # i /\ t[k] = s[j]  BY <1>1
    <3> QED  BY <1>6, <2>1, <3>1 DEF Without
  <2> QED  BY <2>1 DEF Without
<1> QED  BY <1>4, <1>5, <1>6

\* What is left to read after list l.
Left(s, l) ==
  IF s.todo = <<{l}>> THEN NewCall
  ELSE [s EXCEPT !.todo = IF Head(@) = {l} THEN Tail(@) ELSE <<Head(@) \ {l}>> \o Tail(@)]
Reads(s, m) == [s EXCEPT !.todo = <<{m}>>]

\* Nothing, or the other list.
LEMMA LeftIs ==
  ASSUME NEW s \in CallRecords, s.todo \in Todos, NEW l \in s.todo[1]
  PROVE  \/ s.todo = <<{l}>> /\ Left(s, l) = NewCall
         \/ \E m \in Lists : m # l /\ Left(s, l) = Reads(s, m)
<1>1. CASE s.todo = <<{l}>>  BY <1>1 DEF Left
<1>2. CASE s.todo # <<{l}>>
  <2>0. Left(s, l) = [s EXCEPT !.todo = IF Head(s.todo) = {l} THEN Tail(s.todo)
                                          ELSE <<Head(s.todo) \ {l}>> \o Tail(s.todo)]
    BY <1>2 DEF Left
  <2>1. CASE s.todo = <<{"tree"}, {"docs"}>>
    <3>1. l = "tree" /\ Head(s.todo) = {l} /\ Tail(s.todo) = <<{"docs"}>>  BY <2>1
    <3>2. Left(s, l) = Reads(s, "docs")  BY <2>0, <3>1 DEF Reads
    <3> QED  BY <3>1, <3>2 DEF Lists
  <2>2. CASE s.todo = <<{"docs"}, {"tree"}>>
    <3>1. l = "docs" /\ Head(s.todo) = {l} /\ Tail(s.todo) = <<{"tree"}>>  BY <2>2
    <3>2. Left(s, l) = Reads(s, "tree")  BY <2>0, <3>1 DEF Reads
    <3> QED  BY <3>1, <3>2 DEF Lists
  <2>3. CASE s.todo = <<{"tree", "docs"}>>
    <3> DEFINE m == IF l = "tree" THEN "docs" ELSE "tree"
    <3>1. l \in Lists /\ m \in Lists /\ m # l  BY <2>3 DEF Lists
    <3>2. Head(s.todo) = {"tree", "docs"} /\ Tail(s.todo) = <<>>  BY <2>3
    <3>3. Head(s.todo) # {l} /\ Head(s.todo) \ {l} = {m}  BY <3>1, <3>2 DEF Lists
    <3>4. <<{m}>> \o <<>> = <<{m}>>  OBVIOUS
    <3>5. Left(s, l) = Reads(s, m)  BY <2>0, <3>2, <3>3, <3>4 DEF Reads
    <3> QED  BY <3>1, <3>5
  <2>4. CASE s.todo \in {<<{"tree"}>>, <<{"docs"}>>}
    BY <1>2, <2>4
  <2> QED  BY <2>1, <2>2, <2>3, <2>4 DEF Todos
<1> QED  BY <1>1, <1>2

\* An operation that reads m fits wherever s, which read more, did.
LEMMA ReadsIs ==
  ASSUME NEW s \in CallRecords, s.pc = "reload", NEW m \in Lists
  PROVE  /\ Reads(s, m) \in CallRecords /\ Reads(s, m).pc = "reload"
         /\ Reads(s, m).todo = <<{m}>> /\ Reads(s, m).op = s.op /\ Reads(s, m).list = s.list
         /\ \A p, nm, S, R : CallFits(s, p, nm, S, R) => CallFits(Reads(s, m), p, nm, S, R)
<1> DEFINE r == Reads(s, m)
<1>1. <<{m}>> \in Seq(SUBSET Lists)
  <2>1. \A a \in SUBSET Lists : <<a>> \in Seq(SUBSET Lists)  OBVIOUS
  <2> QED  BY <2>1
<1>2. /\ r \in CallRecords /\ r.pc = "reload" /\ r.todo = <<{m}>> /\ r.op = s.op
      /\ r.list = s.list /\ r.to = s.to /\ r.node = s.node
  BY <1>1 DEF CallRecords, Reads
<1> HIDE DEF r
<1>3. r.todo \in Todos  BY <1>2 DEF Todos, Lists
<1>4. ASSUME NEW p, NEW nm, NEW S, NEW R, CallFits(s, p, nm, S, R)
      PROVE  CallFits(r, p, nm, S, R)
  <2>1. Known(s, S)  BY <1>4 DEF CallFits
  <2>2. Known(r, S)  BY <1>2, <2>1 DEF Known
  <2>3. Local(r)  BY <1>2, <1>3 DEF Local, Busy
  <2>4. Comes(r, p, S)  BY <1>2 DEF Comes, Uploads
  <2>5. MakesNoCycle(r, p) /\ StaysShallow(r, p) /\ StaysDistinct(r, p, nm) /\ StaysWhole(r, p)
    BY <1>2 DEF MakesNoCycle, StaysShallow, StaysDistinct, StaysWhole, Busy
  <2> QED  BY <2>2, <2>3, <2>4, <2>5 DEF CallFits
<1> QED  BY <1>2, <1>4 DEF r

\* A list has been received: operation c reads on, or is over.
LEMMA ReceiveKeeps ==
  ASSUME IInv, NEW c \in Calls, Receive(c)
  PROVE  IInv'
<1>1. /\ Types /\ ServerFits /\ PairsFit /\ RefersTo(nodes, taken) /\ DialogFits /\ ListsFit
      /\ PanelFits /\ ToldFits
  BY DEF IInv
<1>2. /\ parent \in Parents /\ live \subseteq Docs /\ call[c] \in CallRecords
      /\ Local(call[c]) /\ answers \in Seq(AnswerRecords)
      /\ \A d \in Calls : CallFits(call[d], parent, name, taken, races)
  BY <1>1, Holds DEF Types
<1>3. PICK i \in DOMAIN answers :
        /\ answers[i].call = c
        /\ answers' = RemoveAt(answers, i)
        /\ nodes' = IF answers[i].list = "tree" THEN answers[i].nodes ELSE nodes
        /\ items' = IF answers[i].list = "docs" THEN answers[i].items ELSE items
        /\ Awaited(c, answers[i].list)
        /\ crossed' = (crossed \/ \E j \in 1 .. i - 1 : answers[j].list = answers[i].list)
  BY DEF Receive
<1> DEFINE a == answers[i]
           l == answers[i].list
           r == Left(call[c], l)
<1>4. /\ parent' = parent /\ name' = name /\ live' = live /\ taken' = taken
      /\ dialog' = dialog /\ races' = races /\ hasty' = hasty /\ halfway' = halfway
      /\ untold' = untold
  BY DEF Receive, server
<1>5. i \in 1 .. Len(answers) /\ a \in AnswerRecords  BY <1>2
<1>6. /\ a.call = c /\ Awaits(call[c], l) /\ RefersTo(a.nodes, taken)
      /\ l \in Lists /\ a.nodes \in Parents /\ a.items \in SUBSET Docs
  BY <1>1, <1>3, <1>5 DEF ListsFit, AnswerRecords
<1>7. call[c].pc = "reload" /\ l \in call[c].todo[1] /\ call[c].todo \in Todos
  BY <1>2, <1>6 DEF Awaits, Local
<1>8. call' = [call EXCEPT ![c] = r]  BY <1>3 DEF Awaited, SetCall, Left
<1>9. \/ call[c].todo = <<{l}>> /\ r = NewCall
      \/ \E m \in Lists : m # l /\ r = Reads(call[c], m)
  BY <1>2, <1>7, LeftIs
<1>10. Shifted(answers, answers', i)  BY <1>2, <1>3, <1>5, RemoveAtIs
<1>11. answers' \in Seq(AnswerRecords)  BY <1>10 DEF Shifted
<1> HIDE DEF r
<1>12. /\ r \in CallRecords /\ ~ Busy(r) /\ (r.list = <<>> \/ r.list = call[c].list)
       /\ CallFits(r, parent, name, taken, races)
  <2>1. CASE r = NewCall
    <3>1. NewCall \in CallRecords  BY RestRecords
    <3>2. CallFits(r, parent, name, taken, races)  BY <2>1, RestFits DEF Rests
    <3> QED  BY <2>1, <3>1, <3>2 DEF NewCall, Busy
  <2>2. ASSUME NEW m \in Lists, r = Reads(call[c], m)
        PROVE  /\ r \in CallRecords /\ ~ Busy(r) /\ r.list = call[c].list
               /\ CallFits(r, parent, name, taken, races)
    BY <1>2, <1>7, <2>2, ReadsIs DEF Busy
  <2> QED  BY <1>9, <2>1, <2>2
<1>13. \A m \in Lists : m # l /\ r = Reads(call[c], m) =>
         /\ Awaits(r, m) /\ ToRead(r, m)
  <2> SUFFICES ASSUME NEW m \in Lists, r = Reads(call[c], m)
               PROVE  Awaits(r, m) /\ ToRead(r, m)
    OBVIOUS
  <2>1. r.pc = "reload" /\ r.todo = <<{m}>>  BY <1>2, <1>7, ReadsIs
  <2>2. 1 \in 1 .. Len(r.todo) /\ m \in r.todo[1]  BY <2>1
  <2> QED  BY <2>1, <2>2 DEF Awaits, ToRead
<1>14. /\ call' \in [Calls -> CallRecords] /\ call'[c] = r
       /\ \A d \in Calls : d # c => call'[d] = call[d]
  BY <1>1, <1>8, <1>12 DEF Types
<1>15. Types'
  <2>1. nodes' \in Parents /\ items' \subseteq Docs /\ crossed' \in BOOLEAN
    BY <1>1, <1>3, <1>6 DEF Types
  <2> QED  BY <1>1, <1>4, <1>11, <1>14, <2>1 DEF Types
<1>16. ServerFits'
  <2>1. \A d \in Calls : CallFits(call'[d], parent, name, taken, races)
    BY <1>2, <1>12, <1>14
  <2> QED  BY <1>1, <1>4, <2>1 DEF ServerFits
<1>17. PairsFit'
  <2> SUFFICES ASSUME NEW d \in Calls, NEW e \in Calls, d # e
               PROVE  /\ Busy(call'[d]) /\ Busy(call'[e]) => {call'[d].op, call'[e].op} \in races
                      /\ Apart(call'[d], call'[e])
    BY <1>4 DEF PairsFit
  <2>1. Apart(call[d], call[e])
        /\ (Busy(call[d]) /\ Busy(call[e]) => {call[d].op, call[e].op} \in races)
    BY <1>1 DEF PairsFit
  <2>2. ~ Uploads(r) /\ ~ Uploads(call[c])  BY <1>7, <1>12 DEF Uploads, Busy
  <2>3. CASE d = c  BY <1>12, <1>14, <2>2, <2>3 DEF Apart
  <2>4. CASE e = c  BY <1>12, <1>14, <2>1, <2>2, <2>4 DEF Apart
  <2>5. CASE d # c /\ e # c  BY <1>14, <2>1, <2>5
  <2> QED  BY <2>3, <2>4, <2>5
<1>18. RefersTo(nodes, taken)'
  <2>1. nodes' = a.nodes \/ nodes' = nodes  BY <1>3
  <2> QED  BY <1>1, <1>4, <1>6, <2>1
<1>19. DialogFits'  BY <1>1, <1>4 DEF DialogFits
<1>20. \A k \in 1 .. Len(answers') : \E j \in 1 .. Len(answers) :
         j # i /\ answers'[k] = answers[j] /\ (j = IF k < i THEN k ELSE k + 1)
  <2>1. Places(answers, answers', i)  BY <1>2, <1>5, <1>10, ShiftedHas
  <2> QED  BY <2>1 DEF Places
<1>21. ListsFit'
  <2>1. ASSUME NEW k \in 1 .. Len(answers')
        PROVE  /\ Awaits(call'[answers'[k].call], answers'[k].list)
               /\ RefersTo(answers'[k].nodes, taken)
    <3>1. PICK j \in 1 .. Len(answers) : j # i /\ answers'[k] = answers[j]  BY <1>20
    <3>2. Awaits(call[answers[j].call], answers[j].list) /\ RefersTo(answers[j].nodes, taken)
      BY <1>1 DEF ListsFit
    <3>3. answers[j] \in AnswerRecords  BY <1>2
    <3>4. answers[j].call \in Calls /\ answers[j].list \in Lists  BY <3>3 DEF AnswerRecords
    <3>5. CASE answers[j].call = c
      <4>1. answers[j].list # l
        <5>1. Single(answers)  BY <1>1 DEF ListsFit
        <5> QED  BY <1>3, <1>5, <3>1, <3>5, <5>1 DEF Single
      <4>2. answers[j].list \in call[c].todo[1]  BY <3>2, <3>5 DEF Awaits
      <4>3. call[c].todo # <<{l}>>  BY <4>1, <4>2
      <4>4. PICK m \in Lists : m # l /\ r = Reads(call[c], m)  BY <1>9, <4>3
      <4>5. m = answers[j].list  BY <1>6, <3>4, <4>1, <4>4 DEF Lists
      <4> QED  BY <1>13, <1>14, <3>1, <3>2, <3>5, <4>4, <4>5
    <3>6. CASE answers[j].call # c
      BY <1>14, <3>1, <3>2, <3>4, <3>6
    <3> QED  BY <3>5, <3>6
  <2>2. Single(answers')
    <3> SUFFICES ASSUME NEW k \in 1 .. Len(answers'), NEW h \in 1 .. Len(answers'),
                        answers'[k].call = answers'[h].call, answers'[k].list = answers'[h].list
                 PROVE  k = h
      BY DEF Single
    <3>1. PICK j \in 1 .. Len(answers) :
            j # i /\ answers'[k] = answers[j] /\ (j = IF k < i THEN k ELSE k + 1)
      BY <1>20
    <3>2. PICK g \in 1 .. Len(answers) :
            g # i /\ answers'[h] = answers[g] /\ (g = IF h < i THEN h ELSE h + 1)
      BY <1>20
    <3>3. Single(answers)  BY <1>1 DEF ListsFit
    <3>4. j = g  BY <3>1, <3>2, <3>3 DEF Single
    <3>5. Len(answers') \in Nat /\ i \in Nat  BY <1>5, <1>10 DEF Shifted
    <3> QED  BY <3>1, <3>2, <3>4, <3>5
  <2> QED  BY <1>4, <2>1, <2>2 DEF ListsFit
<1>22. PanelFits'
  <2> SUFFICES ASSUME ~ crossed', ~ halfway' PROVE TreeFits' /\ DocsFit'  BY DEF PanelFits
  <2>0. TreeFits /\ DocsFit  BY <1>1, <1>3, <1>4 DEF PanelFits
  <2>1. \A j \in 1 .. i - 1 : answers[j].list # l  BY <1>3
  <2>2. ASSUME NEW x
        PROVE  /\ l = x => \A old, new : WillShow(answers, x, old, new) =>
                                WillShow(answers', x, Item(a, x), new)
               /\ l # x => \A old, new : WillShow(answers, x, old, new) =>
                                WillShow(answers', x, old, new)
               /\ \A d : Without(answers, d, x) => Without(answers', d, x)
    BY <1>2, <1>5, <1>10, <2>1, ReceiveShows
  <2>3. ASSUME NEW x \in Lists, NEW d \in Calls, ToRead(call[d], x), Without(answers, d, x)
        PROVE  ToRead(call'[d], x) /\ Without(answers', d, x)
    <3>1. CASE d = c
      <4>1. x # l  BY <1>3, <1>5, <2>3, <3>1 DEF Without
      <4>2. call[c].todo # <<{l}>>  BY <2>3, <3>1, <4>1 DEF ToRead
      <4>3. PICK m \in Lists : m # l /\ r = Reads(call[c], m)  BY <1>9, <4>2
      <4>4. m = x  BY <1>6, <4>1, <4>3 DEF Lists
      <4> QED  BY <1>13, <1>14, <2>2, <2>3, <3>1, <4>3, <4>4
    <3>2. CASE d # c  BY <1>14, <2>2, <2>3, <3>2
    <3> QED  BY <3>1, <3>2
  <2>4. TreeFits'
    <3>1. CASE WillShow(answers, "tree", nodes, parent)
      <4>1. CASE l = "tree"
        <5>1. Item(a, "tree") = nodes'  BY <1>3, <4>1 DEF Item
        <5>2. WillShow(answers', "tree", nodes', parent)  BY <2>2, <3>1, <4>1, <5>1
        <5> QED  BY <1>4, <5>2 DEF TreeFits
      <4>2. CASE l # "tree"
        <5>1. nodes' = nodes  BY <1>3, <4>2
        <5>2. WillShow(answers', "tree", nodes', parent)  BY <2>2, <3>1, <4>2, <5>1
        <5> QED  BY <1>4, <5>2 DEF TreeFits
      <4> QED  BY <4>1, <4>2
    <3>2. CASE ~ WillShow(answers, "tree", nodes, parent)
      <4>1. PICK d \in Calls : \/ ToRead(call[d], "tree") /\ Without(answers, d, "tree")
                               \/ Deletes(call[d])
        BY <2>0, <3>2 DEF TreeFits
      <4>2. CASE Deletes(call[d])
        <5>1. d # c  BY <1>7, <4>2 DEF Deletes
        <5> QED  BY <1>14, <4>2, <5>1 DEF TreeFits
      <4>3. CASE ToRead(call[d], "tree") /\ Without(answers, d, "tree")
        <5>1. "tree" \in Lists  BY DEF Lists
        <5>2. ToRead(call'[d], "tree") /\ Without(answers', d, "tree")  BY <2>3, <4>3, <5>1
        <5> QED  BY <5>2 DEF TreeFits
      <4> QED  BY <4>1, <4>2, <4>3
    <3> QED  BY <3>1, <3>2
  <2>5. DocsFit'
    <3>1. CASE WillShow(answers, "docs", items, Page(live))
      <4>1. CASE l = "docs"
        <5>1. Item(a, "docs") = items'  BY <1>3, <4>1 DEF Item
        <5>2. WillShow(answers', "docs", items', Page(live))  BY <2>2, <3>1, <4>1, <5>1
        <5> QED  BY <1>4, <5>2 DEF DocsFit
      <4>2. CASE l # "docs"
        <5>1. items' = items  BY <1>3, <4>2
        <5>2. WillShow(answers', "docs", items', Page(live))  BY <2>2, <3>1, <4>2, <5>1
        <5> QED  BY <1>4, <5>2 DEF DocsFit
      <4> QED  BY <4>1, <4>2
    <3>2. CASE ~ WillShow(answers, "docs", items, Page(live))
      <4>1. PICK d \in Calls : \/ ToRead(call[d], "docs") /\ Without(answers, d, "docs")
                               \/ Dooms(call[d], parent) \/ Archives(call[d])
                               \/ Uploads(call[d])
        BY <2>0, <3>2 DEF DocsFit
      <4>2. CASE Dooms(call[d], parent) \/ Archives(call[d]) \/ Uploads(call[d])
        <5>1. d # c  BY <1>7, <4>2 DEF Dooms, Deletes, Archives, Uploads
        <5> QED  BY <1>4, <1>14, <4>2, <5>1 DEF DocsFit
      <4>3. CASE ToRead(call[d], "docs") /\ Without(answers, d, "docs")
        <5>1. "docs" \in Lists  BY DEF Lists
        <5>2. ToRead(call'[d], "docs") /\ Without(answers', d, "docs")  BY <2>3, <4>3, <5>1
        <5> QED  BY <5>2 DEF DocsFit
      <4> QED  BY <4>1, <4>2, <4>3
    <3> QED  BY <3>1, <3>2
  <2> QED  BY <2>4, <2>5
<1>23. ToldFits'
  <2> SUFFICES ASSUME Calm' PROVE /\ ~ untold' /\ Counted(dialog, parent)'
                                  /\ \A d \in Calls : ~ (call'[d].op = "delete" /\ Busy(call'[d]))
    BY DEF ToldFits
  <2>1. Calm  BY <1>3, <1>4 DEF Calm
  <2>2. /\ ~ untold /\ Counted(dialog, parent)
        /\ \A d \in Calls : call[d].op = "delete" /\ Busy(call[d]) =>
             \A e \in Calls : e # d => Idle(e)
    BY <1>1, <2>1 DEF ToldFits
  <2>3. ~ Idle(c) /\ ~ Busy(call[c])  BY <1>7 DEF Idle, Busy
  <2>4. dialog.kind # "delete"  BY <2>2, <2>3 DEF Counted
  <2>5. Counted(dialog, parent)'  BY <1>4, <2>4 DEF Counted
  <2>6. ASSUME NEW d \in Calls, call'[d].op = "delete", Busy(call'[d]) PROVE FALSE
    <3>1. d # c  BY <1>12, <1>14, <2>6
    <3>2. call[d].op = "delete" /\ Busy(call[d])  BY <1>14, <2>6, <3>1
    <3> QED  BY <2>2, <2>3, <3>1, <3>2
  <2> QED  BY <1>4, <2>2, <2>5, <2>6
<1> QED  BY <1>1, <1>15, <1>16, <1>17, <1>18, <1>19, <1>21, <1>22, <1>23 DEF IInv
-----------------------------------------------------------------------------
(* The panel starts operations, and opens and closes dialogs. *)

\* A row is the home row or a folder with a row above it.
LEMMA RowsHang ==
  ASSUME NEW t \in Parents, NEW r \in RowsOf(t)
  PROVE  r = Root \/ (r \in Folders /\ t[r] \in Homes /\ t[r] # None /\ t[r] \in RowsOf(t))
<1>1. PICK k \in Levels : r \in Level(t, k)  BY DEF RowsOf
<1>2. k \in Nat  BY <1>1, NodesAreFinite DEF Levels
<1>3. CASE k = 0  BY <1>1, <1>3, LevelIs
<1>4. CASE k # 0
  <2>1. k - 1 \in Nat /\ (k - 1) + 1 = k  BY <1>2, <1>4
  <2>2. Level(t, (k - 1) + 1) = {f \in Folders : t[f] \in Level(t, k - 1)}  BY <2>1, LevelIs
  <2>3. r \in Folders /\ t[r] \in Level(t, k - 1)  BY <1>1, <2>1, <2>2
  <2>4. t[r] \in Homes  BY <2>1, <2>3, LevelIs
  <2>5. t[r] \in RowsOf(t)  BY <2>1, <2>3, LevelsAreRows
  <2> QED  BY <2>3, <2>4, <2>5, NodesAreFinite DEF Homes
<1> QED  BY <1>3, <1>4

\* So every row of the panel is an id given out.
LEMMA RowsAreKnown ==
  ASSUME NEW t \in Parents, NEW S, RefersTo(t, S)
  PROVE  /\ \A r \in RowsOf(t) : r \in Homes /\ r \in S \cup {Root}
         /\ \A f \in RowsOf(t) \ {Root} : f \in Folders /\ f \in S
         /\ \A i : \A d \in DocRows(t, i) : d \in i /\ (d \in Docs => d \in S)
<1>1. \A r \in RowsOf(t) : r = Root \/ (r \in Folders /\ r \in S)
  BY RowsHang DEF RefersTo, Nodes
<1>2. ASSUME NEW d \in Docs, t[d] \in RowsOf(t) PROVE d \in S
  <2>1. t[d] # None  BY <1>1, <1>2, NodesAreFinite
  <2> QED  BY <2>1 DEF RefersTo, Nodes
<1> QED  BY <1>1, <1>2, NodesAreFinite DEF Homes, DocRows

\* An operation that begins: it has asked nothing yet.
Begins(r, S) ==
  /\ r \in CallRecords /\ r.pc \in {"find", "reload"} /\ Local(r) /\ Known(r, S)
  /\ r.list = <<>>

\* It fits any rows.
LEMMA BeginsFits ==
  ASSUME NEW p, NEW nm, NEW S, NEW R, NEW r, Begins(r, S)
  PROVE  CallFits(r, p, nm, S, R)
<1>1. Comes(r, p, S) /\ MakesNoCycle(r, p) /\ StaysShallow(r, p)
  BY DEF Begins, Comes, Uploads, MakesNoCycle, StaysShallow
<1>2. StaysDistinct(r, p, nm) /\ StaysWhole(r, p)
  BY DEF Begins, StaysDistinct, StaysWhole, Busy
<1> QED  BY <1>1, <1>2 DEF CallFits, Begins

\* Whatever begins keeps the invariant; a deletion begins from its dialog.
LEMMA BeginKeeps ==
  ASSUME IInv, NEW c \in Calls, Idle(c), NEW r, Begins(r, taken), Begin(c, r), UNCHANGED panel,
         \/ dialog.kind # "delete" /\ r.op # "delete"
         \/ /\ dialog.kind = "delete" /\ r.op = "delete" /\ r.pc = "find"
            /\ r.node = dialog.node /\ r.told = dialog.told
            /\ \A d \in Calls : call[d].op # "delete"
  PROVE  IInv'
<1>1. /\ Types /\ ServerFits /\ PairsFit /\ RefersTo(nodes, taken) /\ DialogFits /\ ListsFit
      /\ PanelFits /\ ToldFits
  BY DEF IInv
<1>2. /\ parent' = parent /\ name' = name /\ live' = live /\ taken' = taken
      /\ nodes' = nodes /\ items' = items /\ dialog' = dialog /\ answers' = answers
      /\ crossed' = crossed /\ hasty' = hasty /\ halfway' = halfway /\ untold' = untold
      /\ call' = [call EXCEPT ![c] = r]
      /\ races' = races \cup {{r.op, call[d].op} : d \in {x \in Calls : Serving(x)}}
  BY DEF Begin, server, panel, shown, SetCall
<1>3. /\ r \in CallRecords /\ r.pc \in {"find", "reload"} /\ r.list = <<>>
      /\ call \in [Calls -> CallRecords]
  BY <1>1 DEF Begins, Types
<1>4. /\ call' \in [Calls -> CallRecords] /\ call'[c] = r
      /\ \A d \in Calls : d # c => call'[d] = call[d]
  BY <1>2, <1>3
<1>5. ~ Busy(call[c]) /\ call[c].pc = "idle" /\ ~ Uploads(call[c])
  BY DEF Idle, Busy, Uploads
<1>6. races \subseteq races'
      /\ \A d \in Calls : Busy(call[d]) => {r.op, call[d].op} \in races'
  BY <1>2 DEF Serving, Idle, Busy
<1>7. Types'
  <2>1. ASSUME NEW d \in Calls PROVE {r.op, call[d].op} \subseteq Ops
    BY <1>3 DEF CallRecords
  <2>2. races' \subseteq SUBSET Ops  BY <1>1, <1>2, <2>1 DEF Types
  <2> QED  BY <1>1, <1>2, <1>4, <2>2 DEF Types
<1>8. ServerFits'
  <2>1. /\ ForestFits(parent, name, taken, races')
        /\ \A d \in Calls : CallFits(call[d], parent, name, taken, races')
    <3>1. /\ ForestFits(parent, name, taken, races) => ForestFits(parent, name, taken, races')
          /\ \A s : CallFits(s, parent, name, taken, races) =>
               CallFits(s, parent, name, taken, races')
      BY <1>6, FitsGrow
    <3> QED  BY <1>1, <3>1 DEF ServerFits
  <2>2. CallFits(r, parent, name, taken, races')  BY BeginsFits
  <2>3. \A d \in Calls : CallFits(call'[d], parent, name, taken, races')
    BY <1>4, <2>1, <2>2
  <2>4. live \subseteq taken  BY <1>1 DEF ServerFits
  <2> QED  BY <1>2, <2>1, <2>3, <2>4 DEF ServerFits
<1>9. PairsFit'
  <2> SUFFICES ASSUME NEW d \in Calls, NEW e \in Calls, d # e
               PROVE  /\ Busy(call'[d]) /\ Busy(call'[e]) => {call'[d].op, call'[e].op} \in races'
                      /\ Apart(call'[d], call'[e])
    BY DEF PairsFit
  <2>1. Apart(call[d], call[e])
        /\ (Busy(call[d]) /\ Busy(call[e]) => {call[d].op, call[e].op} \in races)
    BY <1>1 DEF PairsFit
  <2>2. ~ Uploads(r)  BY <1>3 DEF Uploads
  <2>3. \A x, y : {x, y} = {y, x}  OBVIOUS
  <2>4. CASE d = c
    <3>1. call'[d] = r /\ call'[e] = call[e]  BY <1>4, <2>4
    <3> QED  BY <1>6, <2>2, <3>1 DEF Apart
  <2>5. CASE e = c
    <3>1. call'[d] = call[d] /\ call'[e] = r  BY <1>4, <2>5
    <3>2. Apart(call[d], r)  BY <1>3, <2>2 DEF Apart
    <3> QED  BY <1>6, <2>3, <3>1, <3>2
  <2>6. CASE d # c /\ e # c  BY <1>4, <1>6, <2>1, <2>6
  <2> QED  BY <2>4, <2>5, <2>6
<1>10. RefersTo(nodes, taken)' /\ DialogFits'
  BY <1>1, <1>2 DEF DialogFits
<1>11. ListsFit'
  <2>1. ASSUME NEW i \in 1 .. Len(answers)
        PROVE  Awaits(call'[answers[i].call], answers[i].list)
    <3>1. Awaits(call[answers[i].call], answers[i].list)  BY <1>1 DEF ListsFit
    <3>2. answers[i].call \in Calls
      <4>1. answers \in Seq(AnswerRecords)  BY <1>1 DEF Types
      <4>2. answers[i] \in AnswerRecords  BY <4>1
      <4> QED  BY <4>2 DEF AnswerRecords
    <3>3. answers[i].call # c  BY <1>5, <3>1 DEF Awaits
    <3> QED  BY <1>4, <3>1, <3>2, <3>3
  <2> QED  BY <1>1, <1>2, <2>1 DEF ListsFit
<1>12. PanelFits'
  <2> SUFFICES ASSUME ~ crossed, ~ halfway PROVE TreeFits' /\ DocsFit'
    BY <1>2 DEF PanelFits
  <2>1. TreeFits /\ DocsFit  BY <1>1 DEF PanelFits
  <2>2. ~ ToRead(call[c], "tree") /\ ~ ToRead(call[c], "docs") /\ ~ Archives(call[c])
    BY <1>5 DEF ToRead, Archives
  <2>3. ~ Deletes(call[c]) /\ ~ Dooms(call[c], parent)  BY <1>5 DEF Deletes, Dooms
  <2>4. TreeFits'
    <3>1. CASE WillShow(answers, "tree", nodes, parent)  BY <1>2, <3>1 DEF TreeFits
    <3>2. CASE ~ WillShow(answers, "tree", nodes, parent)
      <4>1. PICK d \in Calls : \/ ToRead(call[d], "tree") /\ Without(answers, d, "tree")
                               \/ Deletes(call[d])
        BY <2>1, <3>2 DEF TreeFits
      <4>2. call'[d] = call[d]  BY <1>4, <2>2, <2>3, <4>1
      <4> QED  BY <1>2, <4>1, <4>2 DEF TreeFits
    <3> QED  BY <3>1, <3>2
  <2>5. DocsFit'
    <3>1. CASE WillShow(answers, "docs", items, Page(live))  BY <1>2, <3>1 DEF DocsFit
    <3>2. CASE ~ WillShow(answers, "docs", items, Page(live))
      <4>1. PICK d \in Calls : \/ ToRead(call[d], "docs") /\ Without(answers, d, "docs")
                               \/ Dooms(call[d], parent) \/ Archives(call[d])
                               \/ Uploads(call[d])
        BY <2>1, <3>2 DEF DocsFit
      <4>2. call'[d] = call[d]  BY <1>4, <1>5, <2>2, <2>3, <4>1
      <4> QED  BY <1>2, <4>1, <4>2 DEF DocsFit
    <3> QED  BY <3>1, <3>2
  <2> QED  BY <2>4, <2>5
<1>13. ToldFits'
  <2> SUFFICES ASSUME Calm'
               PROVE  /\ ~ untold' /\ Counted(dialog, parent)'
                      /\ \A d \in Calls : call'[d].op = "delete" /\ Busy(call'[d]) =>
                           Told(call'[d], parent) /\ \A e \in Calls : e # d => call'[e].pc = "idle"
    BY <1>2 DEF ToldFits, Idle
  <2>1. Calm /\ ~ DeleteRace(races')  BY <1>2, <1>6 DEF Calm, DeleteRace
  <2>2. /\ ~ untold /\ Counted(dialog, parent)
        /\ \A d \in Calls : call[d].op = "delete" /\ Busy(call[d]) =>
             \A e \in Calls : e # d => Idle(e)
    BY <1>1, <2>1 DEF ToldFits
  <2>3. ASSUME NEW d \in Calls, call[d].op = "delete", Busy(call[d]) PROVE FALSE
    <3>1. {r.op, "delete"} \in races'  BY <1>6, <2>3
    <3> QED  BY <2>1, <3>1 DEF DeleteRace
  <2>4. CASE dialog.kind # "delete" /\ r.op # "delete"
    <3>1. Counted(dialog, parent)'  BY <1>2, <2>4 DEF Counted
    <3>2. \A d \in Calls : ~ (call'[d].op = "delete" /\ Busy(call'[d]))
      BY <1>4, <2>3, <2>4
    <3> QED  BY <1>2, <2>2, <3>1, <3>2
  <2>5. CASE /\ dialog.kind = "delete" /\ r.op = "delete" /\ r.pc = "find"
             /\ r.node = dialog.node /\ r.told = dialog.told
             /\ \A d \in Calls : call[d].op # "delete"
    <3>1. \A d \in Calls : call[d].pc = "idle"
      BY <2>2, <2>5 DEF Counted, Idle
    <3>2. dialog.told = CountSubtree(parent, dialog.node)
      BY <2>2, <2>5, <3>1 DEF Counted
    <3>3. Busy(r) /\ Told(r, parent)  BY <2>5, <3>2 DEF Busy, Told
    <3>4. \A e \in Calls : e # c => call'[e].pc = "idle"  BY <1>4, <3>1
    <3>5. Counted(dialog, parent)'
      BY <1>2, <1>4, <2>5, <3>2, <3>3, <3>4 DEF Counted, Idle
    <3>6. \A d \in Calls : call'[d].op = "delete" /\ Busy(call'[d]) => d = c
      BY <3>4 DEF Busy
    <3> QED  BY <1>2, <1>4, <2>2, <3>3, <3>4, <3>5, <3>6
  <2> QED  BY <2>4, <2>5
<1> QED  BY <1>7, <1>8, <1>9, <1>10, <1>11, <1>12, <1>13 DEF IInv

\* An operation of the server that begins.
LEMMA ServedBegins ==
  ASSUME NEW S \in SUBSET Nodes, NEW r \in CallRecords, r.pc = "find", r.op \in Changes,
         r.node \in S \cup {None}, r.to \in S \cup {Root, None}, r.list = <<>>,
         r.todo = TodoOf(r.op),
         r.op \in {"rename", "move", "delete"} => r.node \in Folders,
         r.op \in {"drop", "archive"} => r.node \in Docs,
         r.op = "folder" => r.node = None,
         r.op \in {"folder", "move", "upload", "drop"} => r.to \in Homes,
         r.op \in {"folder", "rename"} => r.name \in Names
  PROVE  Begins(r, S)
<1>1. Local(r)  BY DEF Local, Changes, Busy
<1>2. Known(r, S)  BY DEF Known
<1> QED  BY <1>1, <1>2 DEF Begins

\* The operations the panel starts, from its rows or from a dialog.
LEMMA StartKeeps ==
  ASSUME IInv, NEW c \in Calls, Start(c)
  PROVE  IInv'
<1>1. /\ Types /\ RefersTo(nodes, taken) /\ DialogFits /\ nodes \in Parents
      /\ taken \in SUBSET Nodes /\ items \subseteq Docs /\ dialog \in DialogRecords
  BY DEF IInv, Types
<1>2. Idle(c)  BY DEF Start
<1>3. /\ \A r \in RowsOf(nodes) : r \in Homes /\ r \in taken \cup {Root}
      /\ \A f \in RowsOf(nodes) \ {Root} : f \in Folders /\ f \in taken
      /\ \A d \in DocRows(nodes, items) : d \in items /\ (d \in Docs => d \in taken)
  BY <1>1, RowsAreKnown
<1>4. /\ NewCall \in CallRecords /\ {"find", "reload"} \subseteq PCs
      /\ Folders \subseteq Nodes /\ Docs \subseteq Nodes
      /\ Changes \subseteq Ops /\ "refresh" \in Ops
      /\ {"folder", "rename", "move", "drop", "upload", "delete", "archive"} \subseteq Changes
  BY RestRecords DEF PCs, Nodes, Ops, Changes
<1>5. Todos \subseteq Seq(SUBSET Lists)
  <2>1. \A a, b \in SUBSET Lists : <<a>> \in Seq(SUBSET Lists) /\ <<a, b>> \in Seq(SUBSET Lists)
    OBVIOUS
  <2>2. /\ {"tree"} \in SUBSET Lists /\ {"docs"} \in SUBSET Lists
        /\ {"tree", "docs"} \in SUBSET Lists
    BY DEF Lists
  <2> QED  BY <2>1, <2>2 DEF Todos
<1>6. /\ NewCall.pc = "idle" /\ NewCall.node = None /\ NewCall.to = None /\ NewCall.list = <<>>
  BY DEF NewCall
<1>7. ASSUME NEW r, Begins(r, taken), dialog = NoDialog, r.op # "delete", Begin(c, r),
             UNCHANGED panel
      PROVE  IInv'
  <2>1. dialog.kind # "delete"  BY <1>7 DEF NoDialog
  <2> QED  BY <1>2, <1>7, <2>1, BeginKeeps
<1>8. CASE StartFolder(c)
  <2>1. PICK r \in RowsOf(nodes), nm \in Names :
          Begin(c, [NewCall EXCEPT !.pc = "find", !.op = "folder", !.to = r, !.name = nm,
                                   !.todo = <<{"tree"}>>])
    BY <1>8 DEF StartFolder
  <2> DEFINE s == [NewCall EXCEPT !.pc = "find", !.op = "folder", !.to = r, !.name = nm,
                             !.todo = <<{"tree"}>>]
  <2>2. /\ TodoOf("folder") = <<{"tree"}>>
        /\ TodoOf("folder") \in Todos
    BY DEF TodoOf, Todos
  <2>4. /\ s.pc = "find" /\ s.op = "folder" /\ s.todo = TodoOf("folder") /\ s.list = <<>>
        /\ s.node = None /\ s.to = r /\ s.name = nm
    BY <1>6, <2>2 DEF NewCall
  <2>5. s \in CallRecords  BY <1>3, <1>4, <1>5, <2>2 DEF CallRecords
  <2> HIDE DEF s
  <2>6. Begins(s, taken)  BY <1>1, <1>3, <1>4, <2>4, <2>5, ServedBegins
  <2>7. Begin(c, s)  BY <2>1 DEF s
  <2> QED  BY <1>7, <1>8, <2>4, <2>6, <2>7 DEF StartFolder
<1>9. CASE StartRename(c)
  <2>1. PICK f \in RowsOf(nodes) \ {Root}, nm \in Names :
          Begin(c, [NewCall EXCEPT !.pc = "find", !.op = "rename", !.node = f, !.name = nm,
                                   !.todo = <<{"tree"}>>])
    BY <1>9 DEF StartRename
  <2> DEFINE s == [NewCall EXCEPT !.pc = "find", !.op = "rename", !.node = f, !.name = nm,
                             !.todo = <<{"tree"}>>]
  <2>2. /\ TodoOf("rename") = <<{"tree"}>>
        /\ TodoOf("rename") \in Todos
    BY DEF TodoOf, Todos
  <2>4. /\ s.pc = "find" /\ s.op = "rename" /\ s.todo = TodoOf("rename") /\ s.list = <<>>
        /\ s.node = f /\ s.to = None /\ s.name = nm
    BY <1>6, <2>2 DEF NewCall
  <2>5. s \in CallRecords  BY <1>3, <1>4, <1>5, <2>2 DEF CallRecords
  <2> HIDE DEF s
  <2>6. Begins(s, taken)  BY <1>1, <1>3, <1>4, <2>4, <2>5, ServedBegins
  <2>7. Begin(c, s)  BY <2>1 DEF s
  <2> QED  BY <1>7, <1>9, <2>4, <2>6, <2>7 DEF StartRename
<1>10. CASE StartMove(c)
  <2>1. PICK f \in RowsOf(nodes) \ {Root}, r \in RowsOf(nodes) :
          Begin(c, [NewCall EXCEPT !.pc = "find", !.op = "move", !.node = f, !.to = r,
                                   !.todo = <<{"tree"}, {"docs"}>>])
    BY <1>10 DEF StartMove
  <2> DEFINE s == [NewCall EXCEPT !.pc = "find", !.op = "move", !.node = f, !.to = r,
                             !.todo = <<{"tree"}, {"docs"}>>]
  <2>2. /\ TodoOf("move") = <<{"tree"}, {"docs"}>>
        /\ TodoOf("move") \in Todos
    BY DEF TodoOf, Todos
  <2>4. /\ s.pc = "find" /\ s.op = "move" /\ s.todo = TodoOf("move") /\ s.list = <<>>
        /\ s.node = f /\ s.to = r
    BY <1>6, <2>2 DEF NewCall
  <2>5. s \in CallRecords  BY <1>3, <1>4, <1>5, <2>2 DEF CallRecords
  <2> HIDE DEF s
  <2>6. Begins(s, taken)  BY <1>1, <1>3, <1>4, <2>4, <2>5, ServedBegins
  <2>7. Begin(c, s)  BY <2>1 DEF s
  <2> QED  BY <1>7, <1>10, <2>4, <2>6, <2>7 DEF StartMove
<1>11. CASE StartDrop(c)
  <2>1. PICK d \in DocRows(nodes, items), r \in RowsOf(nodes) :
          Begin(c, [NewCall EXCEPT !.pc = "find", !.op = "drop", !.node = d, !.to = r,
                                   !.todo = <<{"tree"}, {"docs"}>>])
    BY <1>11 DEF StartDrop
  <2> DEFINE s == [NewCall EXCEPT !.pc = "find", !.op = "drop", !.node = d, !.to = r,
                             !.todo = <<{"tree"}, {"docs"}>>]
  <2>2. /\ TodoOf("drop") = <<{"tree"}, {"docs"}>>
        /\ TodoOf("drop") \in Todos
    BY DEF TodoOf, Todos
  <2>3. d \in Docs /\ d \in Nodes /\ d \in taken  BY <1>1, <1>3, <1>4
  <2>4. /\ s.pc = "find" /\ s.op = "drop" /\ s.todo = TodoOf("drop") /\ s.list = <<>>
        /\ s.node = d /\ s.to = r
    BY <1>6, <2>2 DEF NewCall
  <2>5. s \in CallRecords  BY <1>3, <1>4, <1>5, <2>2, <2>3 DEF CallRecords
  <2> HIDE DEF s
  <2>6. Begins(s, taken)  BY <1>1, <1>3, <1>4, <2>4, <2>5, <2>3, ServedBegins
  <2>7. Begin(c, s)  BY <2>1 DEF s
  <2> QED  BY <1>7, <1>11, <2>4, <2>6, <2>7 DEF StartDrop
<1>12. CASE StartUpload(c)
  <2>1. PICK r \in RowsOf(nodes) :
          Begin(c, [NewCall EXCEPT !.pc = "find", !.op = "upload", !.to = r,
                                   !.todo = <<{"docs"}, {"tree"}>>])
    BY <1>12 DEF StartUpload
  <2> DEFINE s == [NewCall EXCEPT !.pc = "find", !.op = "upload", !.to = r,
                             !.todo = <<{"docs"}, {"tree"}>>]
  <2>2. /\ TodoOf("upload") = <<{"docs"}, {"tree"}>>
        /\ TodoOf("upload") \in Todos
    BY DEF TodoOf, Todos
  <2>4. /\ s.pc = "find" /\ s.op = "upload" /\ s.todo = TodoOf("upload") /\ s.list = <<>>
        /\ s.node = None /\ s.to = r
    BY <1>6, <2>2 DEF NewCall
  <2>5. s \in CallRecords  BY <1>3, <1>4, <1>5, <2>2 DEF CallRecords
  <2> HIDE DEF s
  <2>6. Begins(s, taken)  BY <1>1, <1>3, <1>4, <2>4, <2>5, ServedBegins
  <2>7. Begin(c, s)  BY <2>1 DEF s
  <2> QED  BY <1>7, <1>12, <2>4, <2>6, <2>7 DEF StartUpload
<1>13. CASE StartRefresh(c)
  <2> DEFINE s == [NewCall EXCEPT !.pc = "reload", !.op = "refresh",
                                  !.todo = <<{"tree", "docs"}>>]
  <2>1. <<{"tree", "docs"}>> \in Todos  BY DEF Todos
  <2>2. /\ s.pc = "reload" /\ s.op = "refresh" /\ s.todo = <<{"tree", "docs"}>>
        /\ s.list = <<>> /\ s.node = None /\ s.to = None
    BY <1>6 DEF NewCall
  <2>3. s \in CallRecords  BY <1>4, <1>5, <2>1 DEF CallRecords
  <2>4. Begin(c, s) /\ UNCHANGED panel /\ dialog = NoDialog
    BY <1>13 DEF StartRefresh
  <2> HIDE DEF s
  <2>5. Local(s) /\ Known(s, taken)  BY <2>1, <2>2 DEF Local, Known, Busy
  <2>6. Begins(s, taken)  BY <2>2, <2>3, <2>5 DEF Begins
  <2> QED  BY <1>7, <2>2, <2>4, <2>6
<1>14. CASE Confirm(c)
  <2> DEFINE s == [NewCall EXCEPT !.pc = "find", !.op = dialog.kind, !.node = dialog.node,
                     !.told = dialog.told,
                     !.todo = IF dialog.kind = "delete" THEN <<{"tree"}>>
                              ELSE <<{"docs"}, {"tree"}>>]
  <2>1. /\ dialog.kind \in {"delete", "archive"} /\ dialog.told \in SUBSET Docs
        /\ dialog.node \in Nodes \cup {None} /\ dialog.node \in taken \cup {None}
        /\ dialog.kind = "delete" => dialog.node \in Folders
        /\ dialog.kind = "archive" => dialog.node \in Docs
    BY <1>1, <1>14 DEF Confirm, DialogFits, DialogRecords
  <2>2. /\ TodoOf(dialog.kind) = IF dialog.kind = "delete" THEN <<{"tree"}>>
                                 ELSE <<{"docs"}, {"tree"}>>
        /\ TodoOf(dialog.kind) \in Todos
    BY <2>1 DEF TodoOf, Todos
  <2>3. /\ s.pc = "find" /\ s.op = dialog.kind /\ s.todo = TodoOf(dialog.kind)
        /\ s.list = <<>> /\ s.node = dialog.node /\ s.to = None /\ s.told = dialog.told
    BY <1>6, <2>2 DEF NewCall
  <2>4. s \in CallRecords  BY <1>4, <1>5, <2>1, <2>2 DEF CallRecords
  <2>5. Begin(c, s) /\ UNCHANGED panel /\ \A d \in Calls : call[d].op # dialog.kind
    BY <1>14 DEF Confirm
  <2> HIDE DEF s
  <2>6. Begins(s, taken)  BY <1>1, <1>4, <2>1, <2>3, <2>4, ServedBegins
  <2> QED  BY <1>2, <2>1, <2>3, <2>5, <2>6, BeginKeeps
<1> QED  BY <1>8, <1>9, <1>10, <1>11, <1>12, <1>13, <1>14 DEF Start
-----------------------------------------------------------------------------
(* Dialogs, the initial states, and the theorems. *)

\* At rest both lists are shown as they are stored.
LEMMA RestShows ==
  ASSUME IInv, Quiet, ~ crossed, ~ halfway
  PROVE  nodes = parent /\ items = Page(live)
<1>1. Types /\ ListsFit /\ TreeFits /\ DocsFit  BY DEF IInv, PanelFits
<1>2. \A c \in Calls : call[c].pc = "idle"  BY DEF Quiet, Idle
<1>3. ASSUME NEW i \in 1 .. Len(answers) PROVE FALSE
  <2>1. answers \in Seq(AnswerRecords)  BY <1>1 DEF Types
  <2>2. answers[i] \in AnswerRecords  BY <2>1
  <2>3. answers[i].call \in Calls  BY <2>2 DEF AnswerRecords
  <2>4. Awaits(call[answers[i].call], answers[i].list)  BY <1>1 DEF ListsFit
  <2> QED  BY <1>2, <2>3, <2>4 DEF Awaits
<1>4. WillShow(answers, "tree", nodes, parent)  BY <1>1, <1>2 DEF TreeFits, ToRead, Deletes
<1>5. WillShow(answers, "docs", items, Page(live))
  BY <1>1, <1>2 DEF DocsFit, ToRead, Dooms, Deletes, Archives, Uploads
<1> QED  BY <1>3, <1>4, <1>5 DEF WillShow

\* A dialog opened at rest, over the list that is stored, counts what is stored.
LEMMA OpenDialogKeeps ==
  ASSUME IInv, OpenDialog
  PROVE  IInv'
<1>1. /\ Types /\ ServerFits /\ PairsFit /\ RefersTo(nodes, taken) /\ DialogFits /\ ListsFit
      /\ PanelFits /\ ToldFits
  BY DEF IInv
<1>2. /\ parent' = parent /\ name' = name /\ live' = live /\ taken' = taken /\ call' = call
      /\ nodes' = nodes /\ items' = items /\ answers' = answers /\ races' = races
      /\ crossed' = crossed /\ halfway' = halfway /\ untold' = untold
      /\ hasty' = (hasty \/ ~ Quiet)
  BY DEF OpenDialog, server, shown
<1>3. \/ \E f \in RowsOf(nodes) \ {Root} :
           dialog' = [kind |-> "delete", node |-> f, told |-> CountSubtree(nodes, f)]
      \/ \E d \in DocRows(nodes, items) :
           dialog' = [kind |-> "archive", node |-> d, told |-> {d}]
  BY DEF OpenDialog
<1>4. /\ \A f \in RowsOf(nodes) \ {Root} : f \in Folders /\ f \in taken
      /\ \A d \in DocRows(nodes, items) : d \in items /\ (d \in Docs => d \in taken)
      /\ items \subseteq Docs
  BY <1>1, RowsAreKnown DEF Types
<1>5. ASSUME NEW f \in Folders, f \in taken,
             dialog' = [kind |-> "delete", node |-> f, told |-> CountSubtree(nodes, f)]
      PROVE  /\ dialog' \in DialogRecords /\ DialogFits'
             /\ dialog'.kind = "delete" => dialog'.told = CountSubtree(nodes, dialog'.node)
  <2>1. CountSubtree(nodes, f) \subseteq Docs /\ f \in Nodes  BY DEF CountSubtree, Nodes
  <2>2. dialog' \in DialogRecords  BY <1>5, <2>1 DEF DialogRecords
  <2> QED  BY <1>2, <1>5, <2>2 DEF DialogFits
<1>6. ASSUME NEW d \in Docs, d \in taken,
             dialog' = [kind |-> "archive", node |-> d, told |-> {d}]
      PROVE  /\ dialog' \in DialogRecords /\ DialogFits' /\ dialog'.kind # "delete"
  <2>1. dialog' \in DialogRecords  BY <1>6 DEF DialogRecords, Nodes
  <2> QED  BY <1>2, <1>6, <2>1 DEF DialogFits
<1>7. /\ dialog' \in DialogRecords /\ DialogFits'
      /\ dialog'.kind = "delete" => dialog'.told = CountSubtree(nodes, dialog'.node)
  BY <1>3, <1>4, <1>5, <1>6
<1>8. Types'
  <2>1. hasty' \in BOOLEAN  BY <1>1, <1>2 DEF Types
  <2> QED  BY <1>1, <1>2, <1>7, <2>1 DEF Types
<1>9. ServerFits' /\ PairsFit' /\ RefersTo(nodes, taken)'
  BY <1>1, <1>2 DEF ServerFits, PairsFit
<1>10. ListsFit' /\ PanelFits'
  BY <1>1, <1>2 DEF ListsFit, PanelFits, TreeFits, DocsFit
<1>11. ToldFits'
  <2> SUFFICES ASSUME Calm' PROVE /\ ~ untold' /\ Counted(dialog, parent)'
                                  /\ \A d \in Calls : ~ Busy(call'[d])
    BY DEF ToldFits
  <2>1. Calm /\ Quiet /\ ~ crossed /\ ~ halfway  BY <1>2 DEF Calm
  <2>2. \A d \in Calls : call[d].pc = "idle"  BY <2>1 DEF Quiet, Idle
  <2>3. nodes = parent  BY <2>1, RestShows
  <2>4. Counted(dialog, parent)'
    BY <1>2, <1>7, <2>2, <2>3 DEF Counted, Idle
  <2>5. ~ untold  BY <1>1, <2>1 DEF ToldFits
  <2> QED  BY <1>2, <2>2, <2>4, <2>5 DEF Busy
<1> QED  BY <1>7, <1>8, <1>9, <1>10, <1>11 DEF IInv

\* A dialog that is closed counts nothing.
LEMMA CloseDialogKeeps ==
  ASSUME IInv, CloseDialog
  PROVE  IInv'
<1>1. /\ Types /\ ServerFits /\ PairsFit /\ RefersTo(nodes, taken) /\ DialogFits /\ ListsFit
      /\ PanelFits /\ ToldFits
  BY DEF IInv
<1>2. /\ parent' = parent /\ name' = name /\ live' = live /\ taken' = taken /\ call' = call
      /\ nodes' = nodes /\ items' = items /\ answers' = answers /\ races' = races
      /\ crossed' = crossed /\ halfway' = halfway /\ untold' = untold /\ hasty' = hasty
      /\ dialog' = NoDialog
  BY DEF CloseDialog, server, shown, history
<1>3. /\ NoDialog \in DialogRecords /\ NoDialog.kind = "none" /\ NoDialog.node = None
  BY DEF NoDialog, DialogRecords
<1>4. Types'  BY <1>1, <1>2, <1>3 DEF Types
<1>5. ServerFits' /\ PairsFit' /\ RefersTo(nodes, taken)'
  BY <1>1, <1>2 DEF ServerFits, PairsFit
<1>6. ListsFit' /\ PanelFits'
  BY <1>1, <1>2 DEF ListsFit, PanelFits, TreeFits, DocsFit
<1>7. DialogFits'  BY <1>2, <1>3 DEF DialogFits
<1>8. ToldFits'
  <2>1. Counted(dialog, parent)'  BY <1>2, <1>3 DEF Counted
  <2> QED  BY <1>1, <1>2, <2>1 DEF ToldFits, Calm, Idle
<1> QED  BY <1>4, <1>5, <1>6, <1>7, <1>8 DEF IInv

\* The forests a user can have built are undamaged.
LEMMA ForestsFit ==
  ASSUME NEW p \in Parents, NEW nm, IsForest(p, nm)
  PROVE  ForestFits(p, nm, {n \in Nodes : p[n] # None}, {})
<1>1. /\ \A n \in Nodes : p[n] # None => p[n] \in RowsOf(p)
      /\ \A f \in RowsOf(p) : RowDepth(p, f) <= MaxFolderDepth
      /\ \A f \in Folders : nm[f] = None <=> p[f] = None
      /\ \A f, g \in Folders : f # g /\ p[f] = p[g] /\ p[f] # None => nm[f] # nm[g]
  BY DEF IsForest
<1>2. ASSUME NEW n \in Nodes, p[n] # None
      PROVE  p[n] = Root \/ (p[n] \in Folders /\ p[p[n]] # None)
  BY <1>1, <1>2, RowsHang
<1>3. RefersTo(p, {n \in Nodes : p[n] # None})
  BY <1>2, NodesAreFinite DEF RefersTo, Nodes
<1>4. ASSUME NEW f \in Folders, p[f] # None
      PROVE  ~ OnCycle(p, f) /\ Depth(p, f) <= MaxFolderDepth
  <2>1. f \in Nodes  BY DEF Nodes
  <2>2. PICK k \in Levels : p[f] \in Level(p, k)  BY <1>1, <1>4, <2>1 DEF RowsOf
  <2>3. k \in Nat /\ k + 1 \in Nat  BY <2>2, NodesAreFinite DEF Levels
  <2>4. f \in Level(p, k + 1)  BY <2>2, <2>3, LevelIs
  <2>5. f \in RowsOf(p)  BY <2>3, <2>4, LevelsAreRows
  <2>6. Depth(p, f) <= MaxFolderDepth
    <3>1. RowDepth(p, f) = Depth(p, f)  BY <2>5, RowDepthIs
    <3> QED  BY <1>1, <2>5, <3>1
  <2>7. f \notin Chain(p, p[f])
    <3> SUFFICES ASSUME f \in Chain(p, p[f]) PROVE FALSE  OBVIOUS
    <3>1. \A m \in Chain(p, p[f]) : \E i \in 1 .. k : m \in Level(p, i)
      BY <2>2, <2>3, AncestorsAreLevels
    <3>2. PICK i \in 1 .. k : f \in Level(p, i)  BY <3>1
    <3>3. i = k + 1  BY <2>3, <2>4, <3>2, LevelsDiffer
    <3> QED  BY <2>3, <3>2, <3>3
  <2> QED  BY <2>1, <2>6, <2>7, OnCycleIs
<1>5. ASSUME NEW f \in Folders, p[f] = None
      PROVE  ~ OnCycle(p, f) /\ Depth(p, f) <= MaxFolderDepth
  <2>1. f \in Nodes /\ None \notin Folders  BY NodesAreFinite DEF Nodes
  <2>2. Chain(p, f) = {f}  BY <1>5, <2>1, ChainOf
  <2>3. Ancestors(p, f) = {}  BY <1>5, <2>2 DEF Ancestors
  <2>4. Depth(p, f) = 0  BY <2>3, FS_EmptySet DEF Depth
  <2>5. ~ OnCycle(p, f)  BY <1>5, <2>1 DEF OnCycle
  <2> QED  BY <2>4, <2>5, TreeAssumption
<1>6. Acyclic(p) /\ DepthsFit(p)  BY <1>4, <1>5 DEF Acyclic, DepthsFit
<1>7. Distinct(p, nm)  BY <1>1 DEF Distinct
<1>8. Whole(p)  BY <1>2, NodesAreFinite DEF Whole
<1> QED  BY <1>1, <1>3, <1>6, <1>7, <1>8 DEF ForestFits

\* Every initial state fits.
LEMMA InitFits == Init => IInv
<1> SUFFICES ASSUME Init PROVE IInv  OBVIOUS
<1>1. /\ parent \in Parents /\ name \in [Folders -> Names \cup {None}]
      /\ IsForest(parent, name)
      /\ live = {d \in Docs : parent[d] # None} /\ taken = {n \in Nodes : parent[n] # None}
      /\ call = [c \in Calls |-> NewCall] /\ nodes = parent /\ items = Page(live)
      /\ dialog = NoDialog /\ answers = <<>>
      /\ races = {} /\ crossed = FALSE /\ halfway = FALSE /\ hasty = FALSE /\ untold = FALSE
  BY DEF Init
<1>2. /\ NewCall \in CallRecords /\ NewCall.pc = "idle" /\ NewCall.list = <<>>
      /\ NewCall.op = "none"
  BY RestRecords DEF NewCall
<1>3. /\ NoDialog \in DialogRecords /\ NoDialog.kind = "none" /\ NoDialog.node = None
  BY DEF NoDialog, DialogRecords
<1>4. \A c \in Calls : call[c] = NewCall  BY <1>1
<1>5. Types
  <2>1. call \in [Calls -> CallRecords]  BY <1>1, <1>2
  <2>2. live \subseteq Docs /\ taken \subseteq Nodes /\ items \subseteq Docs
    BY <1>1, PageOf
  <2>3. answers \in Seq(AnswerRecords)  BY <1>1
  <2>4. races \subseteq SUBSET Ops  BY <1>1
  <2>5. dialog \in DialogRecords /\ nodes \in Parents  BY <1>1, <1>3
  <2> QED  BY <1>1, <2>1, <2>2, <2>3, <2>4, <2>5 DEF Types
<1>6. ForestFits(parent, name, taken, races)
  <2>1. ForestFits(parent, name, {n \in Nodes : parent[n] # None}, {})  BY <1>1, ForestsFit
  <2> QED  BY <1>1, <2>1
<1>7. ServerFits
  <2>1. live \subseteq taken  BY <1>1 DEF Nodes
  <2>2. \A c \in Calls : CallFits(call[c], parent, name, taken, races)
    BY <1>4, RestFits DEF Rests
  <2> QED  BY <1>6, <2>1, <2>2 DEF ServerFits
<1>8. PairsFit  BY <1>2, <1>4 DEF PairsFit, Busy, Apart, Uploads
<1>9. RefersTo(nodes, taken)  BY <1>1, <1>6 DEF ForestFits
<1>10. DialogFits  BY <1>1, <1>3 DEF DialogFits
<1>11. Len(answers) = 0  BY <1>1
<1>12. ListsFit  BY <1>11 DEF ListsFit, Single
<1>13. PanelFits  BY <1>1, <1>11 DEF PanelFits, TreeFits, DocsFit, WillShow
<1>14. ToldFits
  <2>1. Counted(dialog, parent)  BY <1>1, <1>3 DEF Counted
  <2> QED  BY <1>1, <1>2, <1>4, <2>1 DEF ToldFits, Busy
<1> QED  BY <1>5, <1>7, <1>8, <1>9, <1>10, <1>12, <1>13, <1>14 DEF IInv

\* Every step of the server keeps the invariant.
LEMMA ServeKeeps ==
  ASSUME IInv, NEW c \in Calls, Serve(c)
  PROVE  IInv'
<1>1. CASE FolderFind(c)  BY <1>1, FolderFindKeeps
<1>2. CASE FolderDepth(c)  BY <1>2, FolderDepthKeeps
<1>3. CASE FolderNames(c)  BY <1>3, FolderNamesKeeps
<1>4. CASE FolderInsert(c)  BY <1>4, FolderInsertKeeps
<1>5. CASE RenameFind(c)  BY <1>5, RenameFindKeeps
<1>6. CASE RenameNames(c)  BY <1>6, RenameNamesKeeps
<1>7. CASE RenameUpdate(c)  BY <1>7, RenameUpdateKeeps
<1>8. CASE MoveFind(c)  BY <1>8, MoveFindKeeps
<1>9. CASE MoveCycle(c)  BY <1>9, MoveCycleKeeps
<1>10. CASE MoveDepth(c)  BY <1>10, MoveDepthKeeps
<1>11. CASE MoveSame(c)  BY <1>11, MoveSameKeeps
<1>12. CASE MoveNames(c)  BY <1>12, MoveNamesKeeps
<1>13. CASE MoveUpdate(c)  BY <1>13, MoveUpdateKeeps
<1>14. CASE DropFind(c)  BY <1>14, DropFindKeeps
<1>15. CASE DropUpdate(c)  BY <1>15, DropUpdateKeeps
<1>16. CASE UploadFind(c)  BY <1>16, UploadFindKeeps
<1>17. CASE UploadInsert(c)  BY <1>17, UploadInsertKeeps
<1>18. CASE ArchiveDoc(c)  BY <1>18, ArchiveDocKeeps
<1>19. CASE ArchiveNodes(c)  BY <1>19, ArchiveNodesKeeps
<1>20. CASE DeleteList(c)  BY <1>20, DeleteListKeeps
<1>21. CASE DeleteDocs(c)  BY <1>21, DeleteDocsKeeps
<1>22. CASE DeleteNodes(c)  BY <1>22, DeleteNodesKeeps
<1>23. CASE ReadList(c)  BY <1>23, ReadListKeeps
<1>24. CASE Receive(c)  BY <1>24, ReceiveKeeps
<1> QED  BY <1>1, <1>2, <1>3, <1>4, <1>5, <1>6, <1>7, <1>8, <1>9, <1>10, <1>11, <1>12,
            <1>13, <1>14, <1>15, <1>16, <1>17, <1>18, <1>19,
            <1>20, <1>21, <1>22, <1>23, <1>24
          DEF Serve

\* A step that changes nothing.
LEMMA StutterKeeps ==
  ASSUME IInv, UNCHANGED vars
  PROVE  IInv'
<1>1. /\ parent' = parent /\ name' = name /\ live' = live /\ taken' = taken /\ call' = call
      /\ nodes' = nodes /\ items' = items /\ answers' = answers /\ races' = races
      /\ crossed' = crossed /\ halfway' = halfway /\ untold' = untold /\ hasty' = hasty
      /\ dialog' = dialog
  BY DEF vars, server, panel, shown, history
<1>2. Types' /\ ServerFits' /\ PairsFit'  BY <1>1 DEF IInv, Types, ServerFits, PairsFit
<1>3. RefersTo(nodes, taken)' /\ DialogFits' /\ ListsFit'
  BY <1>1 DEF IInv, DialogFits, ListsFit
<1>4. PanelFits' /\ ToldFits'
  BY <1>1 DEF IInv, PanelFits, TreeFits, DocsFit, ToldFits, Calm, Counted, Idle
<1> QED  BY <1>2, <1>3, <1>4 DEF IInv

\* The invariant holds in every reachable state.
THEOREM Invariance == Spec => []IInv
<1>1. Init => IInv  BY InitFits
<1>2. IInv /\ [Next]_vars => IInv'
  <2> SUFFICES ASSUME IInv, [Next]_vars PROVE IInv'  OBVIOUS
  <2>1. ASSUME NEW c \in Calls, Start(c) PROVE IInv'  BY <2>1, StartKeeps
  <2>2. ASSUME NEW c \in Calls, Serve(c) PROVE IInv'  BY <2>2, ServeKeeps
  <2>3. CASE OpenDialog  BY <2>3, OpenDialogKeeps
  <2>4. CASE CloseDialog  BY <2>4, CloseDialogKeeps
  <2>5. CASE UNCHANGED vars  BY <2>5, StutterKeeps
  <2> QED  BY <2>1, <2>2, <2>3, <2>4, <2>5 DEF Next
<1> QED  BY <1>1, <1>2, PTL DEF Spec

\* The type invariant.
THEOREM TypeCorrect == Spec => []TypeOK
<1>1. IInv => TypeOK
  <2> SUFFICES ASSUME IInv PROVE TypeOK  OBVIOUS
  <2>1. Types /\ ServerFits /\ ListsFit  BY DEF IInv
  <2>2. /\ \A f \in Folders : name[f] = None <=> parent[f] = None
        /\ \A c \in Calls : Local(call[c])
    BY <2>1 DEF ServerFits, ForestFits, CallFits
  <2>3. ASSUME NEW c \in Calls, Serving(c) PROVE call[c].op # "none"
    <3>1. Busy(call[c])  BY <2>3 DEF Serving, Idle, Busy
    <3> QED  BY <2>2, <3>1 DEF Local, Changes
  <2>4. ASSUME NEW a \in Range(answers)
        PROVE  \E w \in Range(call[a.call].todo) : a.list \in w
    <3>1. answers \in Seq(AnswerRecords)  BY <2>1 DEF Types
    <3>2. PICK i \in 1 .. Len(answers) : a = answers[i]  BY <3>1 DEF Range
    <3>3. Awaits(call[a.call], a.list)  BY <2>1, <3>2 DEF ListsFit
    <3>4. a \in AnswerRecords  BY <3>1, <3>2
    <3>5. a.call \in Calls  BY <3>4 DEF AnswerRecords
    <3>6. call[a.call].todo \in Todos  BY <2>2, <3>3, <3>5 DEF Awaits, Local
    <3>7. 1 \in DOMAIN call[a.call].todo  BY <3>6 DEF Todos
    <3> QED  BY <3>3, <3>7 DEF Awaits, Range
  <2> QED  BY <2>1, <2>2, <2>3, <2>4 DEF TypeOK, Types
<1> QED  BY <1>1, Invariance, PTL

\* The tree is damaged only by the two changes that can damage it so.
THEOREM TreeIsSafe == Spec => []DamageNeedsRace
<1>1. IInv => DamageNeedsRace
  <2> SUFFICES ASSUME IInv PROVE DamageNeedsRace  OBVIOUS
  <2>1. parent \in Parents /\ ForestFits(parent, name, taken, races)
    BY DEF IInv, Types, ServerFits
  <2>2. (\E f \in Folders : OnCycle(parent, f)) => {"move"} \in races
    BY <2>1 DEF ForestFits, NoMoves, Acyclic
  <2>3. ASSUME NEW f \in RowsOf(parent), RowDepth(parent, f) > MaxFolderDepth
        PROVE  {{"move"}, {"move", "folder"}} \cap races # {}
    <3> SUFFICES ASSUME {"move"} \notin races, {"move", "folder"} \notin races PROVE FALSE
      OBVIOUS
    <3>1. DepthsFit(parent)  BY <2>1 DEF ForestFits, Shallow, NoMoves
    <3>2. RowDepth(parent, f) = Depth(parent, f) /\ Depth(parent, f) \in Nat /\ f \in Homes
      BY <2>1, RowDepthIs
    <3>3. MaxFolderDepth \in Nat  BY TreeAssumption
    <3>4. CASE f \in Folders  BY <2>3, <3>1, <3>2, <3>3, <3>4 DEF DepthsFit
    <3>5. CASE f = Root
      <4>1. Root \in Level(parent, 0)  BY LevelIs
      <4>2. RowDepth(parent, Root) = 0  BY <2>1, <4>1, LevelsAreRows
      <4> QED  BY <2>3, <3>3, <3>5, <4>2
    <3> QED  BY <3>2, <3>4, <3>5 DEF Homes
  <2>4. (\E f, g \in Folders : f # g /\ parent[f] # None /\ parent[f] = parent[g]
                               /\ name[f] = name[g]) =>
          \E r \in races : r \subseteq {"folder", "rename", "move"}
    BY <2>1 DEF ForestFits, NamesRace, Naming, Distinct
  <2>5. (\E n \in Nodes : parent[n] \in Folders /\ parent[parent[n]] = None) =>
          \E r \in races : "delete" \in r /\ r \cap {"folder", "move", "upload", "drop"} # {}
    BY <2>1 DEF ForestFits, OrphanRace, Adding, Whole
  <2> QED  BY <2>2, <2>3, <2>4, <2>5 DEF DamageNeedsRace
<1> QED  BY <1>1, Invariance, PTL

\* At rest the panel shows what is stored, unless lists crossed or a deletion failed.
THEOREM PanelIsSafe == Spec => []PanelIsCurrent
<1>1. IInv => PanelIsCurrent  BY RestShows DEF PanelIsCurrent
<1> QED  BY <1>1, Invariance, PTL

\* A deletion archives what its dialog counted, unless something came between.
THEOREM DeletionsAreSafe == Spec => []DeletionsAreTold
<1>1. IInv => DeletionsAreTold
  BY DEF IInv, ToldFits, Calm, DeleteRace, DeletionsAreTold
<1> QED  BY <1>1, Invariance, PTL

\* Whatever the rows, the panel's check of a drop and the server's of the move it
\* asks for agree; so do those of a new folder.
THEOREM DepthsAgree == Spec => []DepthChecksAgree
<1>1. ASSUME parent \in Parents PROVE DepthChecksAgree
  <2> SUFFICES ASSUME NEW r \in RowsOf(parent)
      PROVE  /\ r # Root => (CanCreateFolderHere(parent, r)
                              <=> Depth(parent, r) + 1 <= MaxFolderDepth)
             /\ \A f \in RowsOf(parent) \ {Root} :
                  /\ r # Root /\ r \notin Subtree(parent, f) =>
                       (DropFits(parent, f, r) <=> ~ TooDeepUnder(f, r))
                  /\ r = Root
                     /\ (\A g \in RowsOf(parent) : RowDepth(parent, g) <= MaxFolderDepth) =>
                       DropFits(parent, f, r)
    BY DEF DepthChecksAgree
  <2>0. MaxFolderDepth \in Nat  BY TreeAssumption
  <2>1. RowDepth(parent, r) = Depth(parent, r) /\ Depth(parent, r) \in Nat
    BY <1>1, RowDepthIs
  <2>2. CanCreateFolderHere(parent, r) <=> Depth(parent, r) + 1 <= MaxFolderDepth
    BY <2>0, <2>1 DEF CanCreateFolderHere
  <2>3. ASSUME NEW f \in RowsOf(parent) \ {Root}
        PROVE  /\ DropFits(parent, f, r) <=> ~ TooDeepUnder(f, r)
               /\ r = Root /\ (\A g \in RowsOf(parent) : RowDepth(parent, g) <= MaxFolderDepth) =>
                    DropFits(parent, f, r)
    <3>1. /\ RowSubtreeDepth(parent, f) = SubtreeMaxDepth(parent, f)
          /\ SubtreeMaxDepth(parent, f) \in Nat
          /\ \E m \in RowsOf(parent) : RowDepth(parent, m) >= 1 + RowSubtreeDepth(parent, f)
      BY <1>1, SubtreeDepthsAgree
    <3>2. DropFits(parent, f, r) <=> ~ TooDeepUnder(f, r)
      BY <2>0, <2>1, <3>1 DEF DropFits, TooDeepUnder
    <3>3. ASSUME r = Root, \A g \in RowsOf(parent) : RowDepth(parent, g) <= MaxFolderDepth
          PROVE  DropFits(parent, f, r)
      <4>1. PICK m \in RowsOf(parent) : RowDepth(parent, m) >= 1 + SubtreeMaxDepth(parent, f)
        BY <3>1
      <4>2. RowDepth(parent, m) <= MaxFolderDepth /\ RowDepth(parent, m) \in Nat
        BY <1>1, <3>3, RowDepthIs
      <4>3. RowDepth(parent, r) = 0
        <5>1. Chain(parent, Root) = {}  BY <1>1, ChainOf
        <5>2. Ancestors(parent, r) = {}  BY <3>3, <5>1 DEF Ancestors
        <5> QED  BY <2>1, <5>2, FS_EmptySet DEF Depth
      <4> QED  BY <2>0, <3>1, <4>1, <4>2, <4>3 DEF DropFits
    <3> QED  BY <3>2, <3>3
  <2> QED  BY <2>2, <2>3
<1>2. Types => parent \in Parents  BY DEF Types
<1>3. IInv => DepthChecksAgree  BY <1>1, <1>2 DEF IInv
<1> QED  BY <1>3, Invariance, PTL
=============================================================================
