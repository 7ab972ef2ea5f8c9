-------------------------- MODULE MessageLogProofs --------------------------
(***************************************************************************)
(* Proofs about MessageLog, for every finite set of requests and for every  *)
(* bound.                                                                   *)
(***************************************************************************)
EXTENDS MessageLog, FiniteSetTheorems, SequenceTheorems, TLAPS

AllocSteps  == {"turn", "seq", "round", "roundSeq", "abort"}
CreateSteps == {"create", "roundCreate", "abortCreate"}
PushSteps   == {"push", "roundPush", "abortPush"}
Started     == {"push"} \cup RunSteps \cup AbortSteps

RequestRecords ==
  [pc : Working \cup {"idle", "ended"}, stage : {"exists", "watermark", "init", "incr"},
   wm : Nat, turn : 0 .. MaxTurn, seq : Nat, gseq : Nat, msgs : 0 .. MaxMsgs,
   fill : Seq(Rows)]

Types ==
  /\ db \subseteq Rows /\ IsFiniteSet(db)
  /\ ctr \in [Keys -> Nat]
  /\ cache \in Seq(Rows)
  /\ req \in [Requests -> RequestRecords]
  /\ losses \in Nat /\ gaps \in Nat
  /\ overlapped \in BOOLEAN /\ raced \in BOOLEAN /\ refused \in BOOLEAN /\ misled \in BOOLEAN

\* The locals of a request at each point of Chat.
LocalsFit ==
  \A p \in Requests :
    /\ req[p].pc \notin AllocSteps => req[p].stage = "exists"
    /\ req[p].pc \notin {"idle", "turn", "ended"} => req[p].turn # 0
    /\ req[p].pc = "create" => req[p].seq = 1
    /\ req[p].pc \in {"roundSeq", "roundCreate", "abortCreate"} \cup PushSteps => req[p].seq # 0
    /\ req[p].pc = "abortCreate" => req[p].gseq = 0

\* Every request takes one turn number at most, which bounds the numbers there are.
Numbered == {p \in Requests : req[p].pc \notin {"idle", "turn"}}
TurnsFit ==
  LET top == Cardinality(Numbered)
  IN  /\ ctr[TurnsKey] <= top
      /\ \A r \in db : r.turn <= top
      /\ \A p \in Requests : /\ req[p].turn <= top
                             /\ req[p].pc \in {"idle", "turn"} => req[p].wm <= top

\* The unique index.
RowsDiffer == \A r, s \in db : r.turn = s.turn /\ r.seq = s.seq => r = s

\* A request that has started has its user message stored.
StartedIsStored ==
  \A p \in Requests : req[p].pc \in Started => \E r \in db : r.turn = req[p].turn /\ r.seq = 1

\* What is cached, and what waits to be, is stored.
PushesAreStored ==
  /\ CacheIsStored
  /\ \A p \in Requests :
       /\ \A n \in 1 .. Len(req[p].fill) : req[p].fill[n] \in db
       /\ req[p].pc \in PushSteps => RowOf(p) \in db

OneAtWork == ~ overlapped => \A p, q \in Requests : Active(p) /\ Active(q) => p = q

\* n is not exceeded by a stored turn, a stored message number, a place in turn t.
TurnsUpTo(n)     == \A r \in db : r.turn <= n
NumbersUpTo(n)   == \A r \in db : r.gseq <= n
PlacesUpTo(t, n) == \A r \in db : r.turn = t => r.seq <= n

\* The same of the numbers a request is about to increment.
Covers(r, n) ==
  /\ r.pc = "turn" => TurnsUpTo(n)
  /\ r.pc \in {"seq", "roundSeq"} => NumbersUpTo(n)
  /\ r.pc \in {"round", "abort"} => PlacesUpTo(r.turn, n)

Undisturbed == ~ overlapped /\ ~ raced

\* A counter that exists covers what is stored and what is about to be; so does the
\* watermark a request has read, and a counter it found is still there.
CountersCover ==
  Undisturbed =>
    /\ ctr[TurnsKey] # 0 => TurnsUpTo(ctr[TurnsKey])
    /\ ctr[MsgsKey] # 0 => NumbersUpTo(ctr[MsgsKey])
    /\ \A t \in 1 .. MaxTurn : ctr[SeqKey(t)] # 0 => PlacesUpTo(t, ctr[SeqKey(t)])
PendingAreCovered ==
  Undisturbed =>
    \A p \in Requests :
      /\ req[p].pc \in Working \ {"turn"} /\ ctr[TurnsKey] # 0 => req[p].turn <= ctr[TurnsKey]
      /\ req[p].pc \in {"create", "roundCreate"} /\ ctr[MsgsKey] # 0 =>
           req[p].gseq <= ctr[MsgsKey]
      /\ req[p].pc \in {"roundSeq", "roundCreate", "abortCreate"}
           /\ ctr[SeqKey(req[p].turn)] # 0 => req[p].seq <= ctr[SeqKey(req[p].turn)]
StagesHold ==
  Undisturbed =>
    \A p \in Requests : req[p].pc \in AllocSteps =>
      /\ req[p].stage = "incr" => ctr[Key(p)] # 0
      /\ req[p].stage = "init" => Covers(req[p], req[p].wm)

\* The numbers a request has are greater than the stored ones.
NumbersAreFresh ==
  Undisturbed =>
    \A p \in Requests :
      /\ req[p].pc \in {"load", "fill", "seq", "create"} => \A r \in db : r.turn < req[p].turn
      /\ req[p].pc \in Working \ {"turn"} => TurnsUpTo(req[p].turn)
      /\ req[p].pc \in {"create", "roundCreate"} => \A r \in db : r.gseq < req[p].gseq
      /\ req[p].pc \in {"roundSeq", "roundCreate", "abortCreate"} =>
           \A r \in db : r.turn = req[p].turn => r.seq < req[p].seq

\* While the cache neither lapses nor fails it is the stored history, but for the row
\* about to be pushed.
CacheIsWhole ==
  Undisturbed /\ gaps = 0 =>
    /\ \A p \in Requests :
         /\ req[p].pc # "fill"
         /\ req[p].pc \in PushSteps => Listed = Append(cache, RowOf(p))
    /\ (\A p \in Requests : req[p].pc \notin PushSteps) => cache = Listed

IInv ==
  /\ Types
  /\ LocalsFit
  /\ TurnsFit
  /\ RowsDiffer
  /\ StartedIsStored
  /\ TurnIdsDiffer
  /\ PushesAreStored
  /\ OneAtWork
  /\ CountersCover
  /\ PendingAreCovered
  /\ StagesHold
  /\ NumbersAreFresh
  /\ RefusalNeedsRace
  /\ NumbersFollowTurns
  /\ CacheIsWhole
  /\ HistoryIsWhole
-----------------------------------------------------------------------------
(* The sorted list of a finite set of rows, of which no two share turn and place. *)

Keyed(S) == /\ S \subseteq Rows /\ IsFiniteSet(S)
            /\ \A r, s \in S : r.turn = s.turn /\ r.seq = s.seq => r = s

\* A row's numbers.
LEMMA RowTypes ==
  ASSUME NEW r \in Rows
  PROVE  /\ r.turn \in Nat /\ r.turn # 0 /\ r.turn \in 1 .. MaxTurn
         /\ r.seq \in Nat /\ r.seq # 0 /\ r.gseq \in Nat
BY DEF Rows

\* The order of ListByConversationID is strict.
LEMMA BeforeIsStrict ==
  ASSUME NEW r \in Rows, NEW s \in Rows
  PROVE  /\ ~ Before(r, r) /\ ~ (Before(r, s) /\ Before(s, r))
         /\ \A x \in Rows : Before(x, r) /\ Before(r, s) => Before(x, s)
<1>1. r.turn \in Nat /\ r.seq \in Nat /\ s.turn \in Nat /\ s.seq \in Nat  BY RowTypes
<1>2. \A x \in Rows : x.turn \in Nat /\ x.seq \in Nat  BY RowTypes
<1> QED  BY <1>1, <1>2 DEF Before

\* On the rows of a table it is total.
LEMMA BeforeIsTotal ==
  ASSUME NEW S, Keyed(S), NEW r \in S, NEW s \in S, r # s
  PROVE  Before(r, s) \/ Before(s, r)
<1>1. r \in Rows /\ s \in Rows  BY DEF Keyed
<1>2. r.turn \in Nat /\ r.seq \in Nat /\ s.turn \in Nat /\ s.seq \in Nat  BY <1>1, RowTypes
<1>3. r.turn # s.turn \/ r.seq # s.seq  BY DEF Keyed
<1> QED  BY <1>2, <1>3 DEF Before

\* A row's place is one of the table's.
LEMMA RankIsPlace ==
  ASSUME NEW S, Keyed(S), NEW r \in S
  PROVE  Rank(S, r) \in 1 .. Cardinality(S)
<1> DEFINE B == {x \in S : Before(x, r)}
<1>1. IsFiniteSet(S) /\ r \in Rows  BY DEF Keyed
<1>2. B \subseteq S \ {r}  BY <1>1, BeforeIsStrict
<1>3. IsFiniteSet(S \ {r}) /\ Cardinality(S \ {r}) = Cardinality(S) - 1
  BY <1>1, FS_RemoveElement
<1>4. IsFiniteSet(B) /\ Cardinality(B) <= Cardinality(S \ {r})
  BY <1>2, <1>3, FS_Subset
<1>5. Cardinality(B) \in Nat /\ Cardinality(S) \in Nat
  BY <1>1, <1>4, FS_CardinalityType
<1>6. Cardinality(B) + 1 \in 1 .. Cardinality(S)  BY <1>3, <1>4, <1>5
<1> QED  BY <1>6 DEF Rank

\* A row before another has a smaller place.
LEMMA RankGrows ==
  ASSUME NEW S, Keyed(S), NEW r \in S, NEW s \in S, Before(r, s)
  PROVE  Rank(S, r) < Rank(S, s)
<1> DEFINE B(x) == {y \in S : Before(y, x)}
<1>1. IsFiniteSet(S) /\ r \in Rows /\ s \in Rows /\ S \subseteq Rows  BY DEF Keyed
<1>2. B(r) \subseteq B(s) /\ r \in B(s) /\ r \notin B(r)  BY <1>1, BeforeIsStrict
<1>3. IsFiniteSet(B(r)) /\ IsFiniteSet(B(s))  BY <1>1, FS_Subset
<1>4. Cardinality(B(r)) <= Cardinality(B(s)) /\ Cardinality(B(r)) # Cardinality(B(s))
  <2>1. B(r) \in SUBSET B(s) /\ B(s) # B(r)  BY <1>2
  <2> HIDE DEF B
  <2> QED  BY <1>3, <2>1, FS_Subset
<1>5. Cardinality(B(r)) \in Nat /\ Cardinality(B(s)) \in Nat
  BY <1>3, FS_CardinalityType
<1>6. Cardinality(B(r)) + 1 < Cardinality(B(s)) + 1  BY <1>4, <1>5
<1> QED  BY <1>6 DEF Rank

\* No two rows have one place.
LEMMA RankIsOne ==
  ASSUME NEW S, Keyed(S), NEW r \in S, NEW s \in S, Rank(S, r) = Rank(S, s)
  PROVE  r = s
<1> SUFFICES ASSUME r # s PROVE FALSE
  OBVIOUS
<1>1. Before(r, s) \/ Before(s, r)  BY BeforeIsTotal
<1>2. Rank(S, r) < Rank(S, s) \/ Rank(S, s) < Rank(S, r)  BY <1>1, RankGrows
<1>3. Rank(S, r) \in 1 .. Cardinality(S) /\ IsFiniteSet(S)  BY RankIsPlace DEF Keyed
<1>4. Cardinality(S) \in Nat  BY <1>3, FS_CardinalityType
<1> QED  BY <1>2, <1>3, <1>4

\* Every place has a row.
LEMMA RankIsOnto ==
  ASSUME NEW S, Keyed(S), NEW n \in 1 .. Cardinality(S)
  PROVE  \E r \in S : Rank(S, r) = n
<1> DEFINE f == [r \in S |-> Rank(S, r)]
           T == 1 .. Cardinality(S)
<1>1. IsFiniteSet(S) /\ Cardinality(S) \in Nat  BY FS_CardinalityType DEF Keyed
<1>2. IsFiniteSet(T) /\ Cardinality(T) = Cardinality(S)
  BY <1>1, FS_Interval
<1>3. f \in [S -> T]  BY RankIsPlace
<1>4. \A r, s \in S : f[r] = f[s] => r = s  BY RankIsOne
<1>5. f \in Injection(S, T)  BY <1>3, <1>4 DEF Injection, IsInjective
<1>6. f \in Surjection(S, T)
  <2> HIDE DEF f, T
  <2> QED  BY <1>1, <1>2, <1>5, FS_Injection
<1>7. \E r \in S : f[r] = n  BY <1>6 DEF Surjection
<1> QED  BY <1>7

\* The list has every row at its place.
LEMMA SortedFacts ==
  ASSUME NEW S, Keyed(S)
  PROVE  /\ Sorted(S) \in Seq(S) /\ Len(Sorted(S)) = Cardinality(S)
         /\ Cardinality(S) \in Nat
         /\ \A n \in 1 .. Cardinality(S) : Sorted(S)[n] \in S /\ Rank(S, Sorted(S)[n]) = n
<1>1. Cardinality(S) \in Nat  BY FS_CardinalityType DEF Keyed
<1>2. \A n \in 1 .. Cardinality(S) : Sorted(S)[n] \in S /\ Rank(S, Sorted(S)[n]) = n
  <2> SUFFICES ASSUME NEW n \in 1 .. Cardinality(S)
               PROVE  Sorted(S)[n] \in S /\ Rank(S, Sorted(S)[n]) = n
    OBVIOUS
  <2>1. \E r \in S : Rank(S, r) = n  BY RankIsOnto
  <2>2. Sorted(S)[n] = CHOOSE r \in S : Rank(S, r) = n  BY DEF Sorted
  <2> QED  BY <2>1, <2>2
<1>3. Sorted(S) \in [1 .. Cardinality(S) -> S]
  <2>1. DOMAIN Sorted(S) = 1 .. Cardinality(S)
        /\ Sorted(S) = [n \in DOMAIN Sorted(S) |-> Sorted(S)[n]]
    BY DEF Sorted
  <2> QED  BY <1>2, <2>1
<1>4. Sorted(S) \in Seq(S) /\ Len(Sorted(S)) = Cardinality(S)
  BY <1>1, <1>3
<1> QED  BY <1>1, <1>2, <1>4

\* A row after all others joins the list at its end.
LEMMA SortedGrows ==
  ASSUME NEW S, Keyed(S), NEW row \in Rows, \A r \in S : Before(r, row)
  PROVE  /\ Keyed(S \cup {row})
         /\ Sorted(S \cup {row}) = Append(Sorted(S), row)
<1> DEFINE U == S \cup {row}
<1>1. row \notin S  BY BeforeIsStrict DEF Keyed
<1>2. IsFiniteSet(S) /\ S \subseteq Rows  BY DEF Keyed
<1>3. IsFiniteSet(U) /\ Cardinality(U) = Cardinality(S) + 1  BY <1>1, <1>2, FS_AddElement
<1>4. \A r \in S : r.turn # row.turn \/ r.seq # row.seq
  <2> SUFFICES ASSUME NEW r \in S, r.turn = row.turn, r.seq = row.seq PROVE FALSE
    OBVIOUS
  <2>1. r.turn \in Nat /\ r.seq \in Nat  BY <1>2, RowTypes
  <2> QED  BY <2>1 DEF Before
<1>5. Keyed(U)  BY <1>2, <1>3, <1>4 DEF Keyed
<1>6. Cardinality(S) \in Nat  BY <1>2, FS_CardinalityType
<1>7. \A r \in S : Rank(U, r) = Rank(S, r)
  <2> SUFFICES ASSUME NEW r \in S PROVE Rank(U, r) = Rank(S, r)
    OBVIOUS
  <2>1. ~ Before(row, r)  BY <1>2, BeforeIsStrict
  <2>2. {x \in U : Before(x, r)} = {x \in S : Before(x, r)}  BY <2>1
  <2> QED  BY <2>2 DEF Rank
<1>8. Rank(U, row) = Cardinality(S) + 1
  <2>1. ~ Before(row, row)  BY BeforeIsStrict
  <2>2. {x \in U : Before(x, row)} = S  BY <2>1
  <2> QED  BY <2>2 DEF Rank
<1>9. \A n \in 1 .. Cardinality(S) : Sorted(U)[n] = Sorted(S)[n]
  <2> SUFFICES ASSUME NEW n \in 1 .. Cardinality(S) PROVE Sorted(U)[n] = Sorted(S)[n]
    OBVIOUS
  <2>1. n \in 1 .. Cardinality(U)  BY <1>3, <1>6
  <2>2. Sorted(U)[n] \in U /\ Rank(U, Sorted(U)[n]) = n  BY <1>5, <2>1, SortedFacts
  <2>3. Sorted(S)[n] \in S /\ Rank(S, Sorted(S)[n]) = n  BY SortedFacts
  <2>4. Rank(U, Sorted(S)[n]) = n /\ Sorted(S)[n] \in U  BY <1>7, <2>3
  <2> QED  BY <1>5, <2>2, <2>4, RankIsOne
<1>10. Sorted(U)[Cardinality(S) + 1] = row
  <2> DEFINE m == Cardinality(S) + 1
  <2>1. m \in 1 .. Cardinality(U)  BY <1>3, <1>6
  <2>2. Sorted(U)[m] \in U /\ Rank(U, Sorted(U)[m]) = m  BY <1>5, <2>1, SortedFacts
  <2> QED  BY <1>5, <1>8, <2>2, RankIsOne
<1>11. /\ Sorted(S) \in Seq(Rows) /\ Len(Sorted(S)) = Cardinality(S)
       /\ Sorted(U) \in Seq(Rows) /\ Len(Sorted(U)) = Cardinality(S) + 1
  <2>1. U \subseteq Rows  BY <1>2
  <2>2. Sorted(S) \in Seq(S) /\ Sorted(U) \in Seq(U)  BY <1>5, SortedFacts
  <2>3. Sorted(S) \in Seq(Rows) /\ Sorted(U) \in Seq(Rows)
    BY <1>2, <2>1, <2>2, SeqMonotonic
  <2> QED  BY <1>3, <1>5, <2>3, SortedFacts
<1>12. Append(Sorted(S), row) \in Seq(Rows)
       /\ Len(Append(Sorted(S), row)) = Cardinality(S) + 1
       /\ Append(Sorted(S), row)[Cardinality(S) + 1] = row
       /\ \A n \in 1 .. Cardinality(S) : Append(Sorted(S), row)[n] = Sorted(S)[n]
  BY <1>6, <1>11
<1>13. \A n \in 1 .. Cardinality(S) + 1 : Sorted(U)[n] = Append(Sorted(S), row)[n]
  <2>1. \A n \in 1 .. Cardinality(S) + 1 : n \in 1 .. Cardinality(S) \/ n = Cardinality(S) + 1
    BY <1>6
  <2> QED  BY <1>9, <1>10, <1>12, <2>1
<1>14. Sorted(U) = Append(Sorted(S), row)  BY <1>11, <1>12, <1>13, SeqEqual
<1> QED  BY <1>5, <1>14
-----------------------------------------------------------------------------
(* Keys, sizes and records. *)

\* The counters are different keys.
LEMMA KeyFacts ==
  /\ TurnsKey \in Keys /\ MsgsKey \in Keys /\ TurnsKey # MsgsKey
  /\ \A t \in 1 .. MaxTurn : /\ SeqKey(t) \in Keys
                             /\ SeqKey(t) # TurnsKey /\ SeqKey(t) # MsgsKey
  /\ \A t, u \in 1 .. MaxTurn : SeqKey(t) = SeqKey(u) => t = u
  /\ \A key \in Keys : \/ key = TurnsKey \/ key = MsgsKey
                       \/ \E t \in 1 .. MaxTurn : key = SeqKey(t)
BY DEF Keys, TurnsKey, MsgsKey, SeqKey

\* Sets of requests are counted, and a part counts no more than the whole.
LEMMA SizeFacts ==
  /\ MaxTurn \in Nat
  /\ \A A \in SUBSET Requests : /\ IsFiniteSet(A) /\ Cardinality(A) \in Nat
                                /\ Cardinality(A) <= MaxTurn
  /\ \A A, B \in SUBSET Requests : A \subseteq B => Cardinality(A) <= Cardinality(B)
  /\ \A A \in SUBSET Requests : \A p \in Requests \ A :
       Cardinality(A \cup {p}) = Cardinality(A) + 1
<1>1. IsFiniteSet(Requests)  BY LogAssumption
<1>2. MaxTurn \in Nat  BY <1>1, FS_CardinalityType DEF MaxTurn
<1>3. \A A \in SUBSET Requests : IsFiniteSet(A) /\ Cardinality(A) <= Cardinality(Requests)
  BY <1>1, FS_Subset
<1>4. \A A \in SUBSET Requests : Cardinality(A) \in Nat  BY <1>3, FS_CardinalityType
<1>5. \A A, B \in SUBSET Requests : A \subseteq B => Cardinality(A) <= Cardinality(B)
  BY <1>3, FS_Subset
<1>6. \A A \in SUBSET Requests : \A p \in Requests \ A :
        Cardinality(A \cup {p}) = Cardinality(A) + 1
  BY <1>3, FS_AddElement
<1> QED  BY <1>2, <1>3, <1>4, <1>5, <1>6 DEF MaxTurn

\* The fields of a request.
LEMMA RecordTypes ==
  ASSUME NEW r \in RequestRecords
  PROVE  /\ r.pc \in Working \cup {"idle", "ended"}
         /\ r.stage \in {"exists", "watermark", "init", "incr"}
         /\ r.wm \in Nat /\ r.turn \in 0 .. MaxTurn /\ r.turn \in Nat
         /\ r.seq \in Nat /\ r.gseq \in Nat
         /\ r.msgs \in 0 .. MaxMsgs /\ r.fill \in Seq(Rows)
BY SizeFacts DEF RequestRecords

\* A request that is through.
LEMMA GoneFacts ==
  /\ Gone \in RequestRecords
  /\ Gone.pc = "ended" /\ Gone.stage = "exists" /\ Gone.turn = 0 /\ Gone.fill = <<>>
<1>1. Gone = [pc |-> "ended", stage |-> "exists", wm |-> 0, turn |-> 0, seq |-> 0,
              gseq |-> 0, msgs |-> 0, fill |-> <<>>]
  BY DEF Gone, Fresh
<1>2. 0 \in 0 .. MaxTurn /\ 0 \in 0 .. MaxMsgs /\ 0 \in Nat /\ <<>> \in Seq(Rows)
  BY SizeFacts, LogAssumption
<1>3. Gone \in RequestRecords  BY <1>1, <1>2 DEF RequestRecords
<1> QED  BY <1>1, <1>3

\* After a message comes the next one, or the end.
LEMMA AdvanceFacts ==
  ASSUME NEW r \in RequestRecords
  PROVE  /\ Advance(r) \in RequestRecords
         /\ \/ Advance(r) = Gone
            \/ /\ Advance(r).pc = "round" /\ Advance(r).stage = "exists"
               /\ Advance(r).turn = r.turn /\ Advance(r).fill = r.fill
<1> DEFINE s == [r EXCEPT !.pc = "round", !.stage = "exists", !.wm = 0, !.msgs = @ + 1]
<1>1. CASE r.msgs + 1 < MaxMsgs
  <2>1. r.msgs + 1 \in 0 .. MaxMsgs  BY <1>1, RecordTypes, LogAssumption
  <2>2. s \in RequestRecords  BY <2>1 DEF RequestRecords, Working, RunSteps
  <2>3. s.pc = "round" /\ s.stage = "exists" /\ s.turn = r.turn /\ s.fill = r.fill
    BY DEF RequestRecords
  <2>4. Advance(r) = s  BY <1>1 DEF Advance
  <2> HIDE DEF s
  <2> QED  BY <2>2, <2>3, <2>4
<1>2. CASE ~ (r.msgs + 1 < MaxMsgs)
  <2>1. Advance(r) = Gone  BY <1>2 DEF Advance
  <2> QED  BY <2>1, GoneFacts
<1> QED  BY <1>1, <1>2

\* The steps of a request are of one kind each.
LEMMA StepNames ==
  /\ AllocSteps \subseteq Working /\ CreateSteps \subseteq Working /\ PushSteps \subseteq Working
  /\ Started \subseteq Working /\ {"load", "fill", "idle", "ended"} \cap PushSteps = {}
  /\ AllocSteps \cap PushSteps = {} /\ CreateSteps \cap PushSteps = {}
  /\ "idle" \notin Working /\ "ended" \notin Working
BY DEF AllocSteps, CreateSteps, PushSteps, Started, Working, ChatSteps, RunSteps, AbortSteps

\* The other requests.
Others(p) == \A q \in Requests : q # p => req'[q] = req[q]

\* What Set does to the requests.
LEMMA ReqIsSet ==
  ASSUME Types, NEW p \in Requests, NEW r \in RequestRecords, Set(p, r)
  PROVE  req' \in [Requests -> RequestRecords] /\ req'[p] = r /\ Others(p)
BY DEF Types, Set, Others

\* The key of the counter a request is about to increment is a counter's.
LEMMA KeyOfRequest ==
  ASSUME Types, LocalsFit, NEW p \in Requests, Allocating(p)
  PROVE  /\ Key(p) \in Keys /\ ctr[Key(p)] \in Nat /\ req[p].pc \in AllocSteps
         /\ req[p].pc = "turn" => Key(p) = TurnsKey
         /\ req[p].pc \in {"seq", "roundSeq"} => Key(p) = MsgsKey
         /\ req[p].pc \in {"round", "abort"} =>
              Key(p) = SeqKey(req[p].turn) /\ req[p].turn \in 1 .. MaxTurn
<1>1. req[p] \in RequestRecords  BY DEF Types
<1>2. req[p].pc \in {"round", "abort"} => req[p].turn \in 1 .. MaxTurn
  BY <1>1, RecordTypes, SizeFacts DEF LocalsFit
<1>3. req[p].pc = "turn" => Key(p) = TurnsKey  BY DEF Key
<1>4. req[p].pc \in {"seq", "roundSeq"} => Key(p) = MsgsKey  BY DEF Key
<1>5. req[p].pc \in {"round", "abort"} => Key(p) = SeqKey(req[p].turn)  BY DEF Key
<1>6. Key(p) \in Keys  BY <1>2, <1>3, <1>4, <1>5, KeyFacts DEF Allocating
<1> QED  BY <1>2, <1>3, <1>4, <1>5, <1>6 DEF Types, Allocating, AllocSteps
-----------------------------------------------------------------------------
(* Steps that take no number and store no row: all but Begin, Increment, Create and  *)
(* the loss of a counter.                                                            *)

\* p looks at its counter.
Counts(p) ==
  /\ req[p].pc \in AllocSteps /\ req'[p].pc = req[p].pc /\ req'[p].turn = req[p].turn
  /\ req'[p].seq = req[p].seq /\ req'[p].gseq = req[p].gseq
  /\ req'[p].stage = "incr" => ctr[Key(p)] # 0
  /\ req'[p].stage = "init" => Covers(req[p], req'[p].wm)
  /\ req[p].pc = "turn" => req'[p].wm <= Cardinality(Numbered)

\* p has the history, or goes on to the next message.
Loads(p) ==
  /\ req[p].pc \in {"load", "fill"} /\ req'[p].pc \in {"fill", "seq"}
  /\ req'[p].stage = "exists" /\ req'[p].turn = req[p].turn
Continues(p) ==
  /\ req[p].pc \in Started /\ req'[p].pc \in {"round", "abort"}
  /\ req'[p].stage = "exists" /\ req'[p].turn = req[p].turn

Quiet(p) ==
  /\ UNCHANGED <<db, ctr, overlapped, raced>>
  /\ req' \in [Requests -> RequestRecords] /\ Others(p)
  /\ Active(p)
  /\ req'[p] = Gone \/ Counts(p) \/ Loads(p) \/ Continues(p)

\* Where the requests are after such a step.
LEMMA QuietFacts ==
  ASSUME Types, NEW p \in Requests, Quiet(p)
  PROVE  /\ req[p].pc \in Working
         /\ \A q \in Requests : req'[q].pc \in Working =>
              req[q].pc \in Working /\ req'[q].turn = req[q].turn
         /\ \A q \in Requests : req'[q].pc \in Started =>
              req[q].pc \in Started /\ req'[q].turn = req[q].turn
         /\ \A q \in Requests :
              req'[q].pc \in {"create", "roundSeq", "roundCreate", "abortCreate"} \cup PushSteps =>
                /\ req'[q].pc = req[q].pc /\ req'[q].turn = req[q].turn
                /\ req'[q].seq = req[q].seq /\ req'[q].gseq = req[q].gseq
         /\ \A q \in Requests : req'[q].pc \in {"idle", "turn"} =>
              req'[q].pc = req[q].pc /\ req'[q].turn = req[q].turn
<1>1. \A q \in Requests : q # p => req'[q] = req[q]  BY DEF Quiet, Others
<1>2. req[p].pc \in Working  BY DEF Quiet, Active
<1> DEFINE Goal(q) ==
      /\ req'[q].pc \in Working => req[q].pc \in Working /\ req'[q].turn = req[q].turn
      /\ req'[q].pc \in Started => req[q].pc \in Started /\ req'[q].turn = req[q].turn
      /\ req'[q].pc \in {"create", "roundSeq", "roundCreate", "abortCreate"} \cup PushSteps =>
                /\ req'[q].pc = req[q].pc /\ req'[q].turn = req[q].turn
                /\ req'[q].seq = req[q].seq /\ req'[q].gseq = req[q].gseq
      /\ req'[q].pc \in {"idle", "turn"} =>
           req'[q].pc = req[q].pc /\ req'[q].turn = req[q].turn
<1>3. Goal(p)
  <2>1. CASE req'[p] = Gone
    <3>1. req'[p].pc = "ended"  BY <2>1, GoneFacts
    <3> QED  BY <3>1 DEF Working, Started, PushSteps, ChatSteps, RunSteps, AbortSteps
  <2>2. CASE Counts(p)
    BY <1>2, <2>2 DEF Counts
  <2>3. CASE Loads(p)
    BY <1>2, <2>3 DEF Loads, Working, Started, PushSteps, ChatSteps, RunSteps, AbortSteps
  <2>4. CASE Continues(p)
    BY <1>2, <2>4 DEF Continues, Working, Started, PushSteps, ChatSteps, RunSteps, AbortSteps
  <2> QED  BY <2>1, <2>2, <2>3, <2>4 DEF Quiet
<1>4. \A q \in Requests : Goal(q)  BY <1>1, <1>3
<1> QED  BY <1>2, <1>4

\* Such a step keeps the locals in order.
LEMMA QuietKeepsLocals ==
  ASSUME Types, LocalsFit, NEW p \in Requests, Quiet(p)
  PROVE  LocalsFit'
<1>1. \A q \in Requests : q # p => req'[q] = req[q]  BY DEF Quiet, Others
<1> SUFFICES ASSUME NEW q \in Requests
             PROVE /\ req'[q].pc \notin AllocSteps => req'[q].stage = "exists"
                   /\ req'[q].pc \notin {"idle", "turn", "ended"} => req'[q].turn # 0
                   /\ req'[q].pc = "create" => req'[q].seq = 1
                   /\ req'[q].pc \in {"roundSeq", "roundCreate", "abortCreate"} \cup PushSteps =>
                        req'[q].seq # 0
                   /\ req'[q].pc = "abortCreate" => req'[q].gseq = 0
  BY DEF LocalsFit
<1>2. CASE q # p  BY <1>1, <1>2 DEF LocalsFit
<1>3. CASE q = p
  <2>1. CASE req'[p] = Gone
    BY <1>3, <2>1, GoneFacts DEF PushSteps
  <2>2. CASE Counts(p)
    BY <1>3, <2>2 DEF Counts, LocalsFit
  <2>3. CASE Loads(p)
    BY <1>3, <2>3 DEF Loads, LocalsFit, PushSteps
  <2>4. CASE Continues(p)
    BY <1>3, <2>4 DEF Continues, LocalsFit, PushSteps, Started, RunSteps, AbortSteps
  <2> QED  BY <2>1, <2>2, <2>3, <2>4 DEF Quiet
<1> QED  BY <1>2, <1>3

\* Such a step keeps the bound on turn numbers.
LEMMA QuietKeepsTurns ==
  ASSUME Types, TurnsFit, NEW p \in Requests, Quiet(p)
  PROVE  TurnsFit'
<1>1. \A q \in Requests : q # p => req'[q] = req[q]  BY DEF Quiet, Others
<1>2. db' = db /\ ctr' = ctr  BY DEF Quiet
<1>3. Numbered \subseteq Numbered'
  BY QuietFacts DEF Numbered
<1>4. /\ Cardinality(Numbered) \in Nat /\ Cardinality(Numbered') \in Nat
      /\ Cardinality(Numbered) <= Cardinality(Numbered')
  <2>1. Numbered \in SUBSET Requests /\ Numbered' \in SUBSET Requests  BY DEF Numbered
  <2> QED  BY <1>3, <2>1, SizeFacts
<1>5. ctr[TurnsKey] <= Cardinality(Numbered')
  <2>1. ctr[TurnsKey] \in Nat  BY KeyFacts DEF Types
  <2> QED  BY <1>4, <2>1 DEF TurnsFit
<1>6. \A r \in db : r.turn <= Cardinality(Numbered')
  <2>1. \A r \in db : r.turn \in Nat /\ r.turn <= Cardinality(Numbered)
    BY RowTypes DEF Types, TurnsFit
  <2> QED  BY <1>4, <2>1
<1>7. \A q \in Requests : /\ req'[q].turn <= Cardinality(Numbered')
                          /\ req'[q].pc \in {"idle", "turn"} => req'[q].wm <= Cardinality(Numbered')
  <2> TAKE q \in Requests
  <2>1. /\ req[q].turn \in Nat /\ req'[q].wm \in Nat /\ req[q].wm \in Nat
        /\ req[p].turn \in Nat /\ req'[p].wm \in Nat
    BY RecordTypes DEF Types, Quiet
  <2>2. /\ req[q].turn <= Cardinality(Numbered) /\ req[p].turn <= Cardinality(Numbered)
        /\ req[q].pc \in {"idle", "turn"} => req[q].wm <= Cardinality(Numbered)
    BY DEF TurnsFit
  <2>3. CASE q # p  BY <1>1, <1>4, <2>1, <2>2, <2>3
  <2>4. CASE q = p
    <3>1. CASE req'[p] = Gone  BY <1>4, <2>4, <3>1, GoneFacts
    <3>2. CASE Counts(p)  BY <1>4, <2>1, <2>2, <2>4, <3>2 DEF Counts, AllocSteps
    <3>3. CASE Loads(p)  BY <1>4, <2>1, <2>2, <2>4, <3>3 DEF Loads
    <3>4. CASE Continues(p)  BY <1>4, <2>1, <2>2, <2>4, <3>4 DEF Continues
    <3> QED  BY <3>1, <3>2, <3>3, <3>4 DEF Quiet
  <2> QED  BY <2>3, <2>4
<1> QED  BY <1>2, <1>5, <1>6, <1>7 DEF TurnsFit

\* Such a step keeps what was said of the stored rows and of the requests started.
LEMMA QuietKeepsRows ==
  ASSUME Types, RowsDiffer, StartedIsStored, TurnIdsDiffer, OneAtWork, NumbersFollowTurns,
         NEW p \in Requests, Quiet(p)
  PROVE  RowsDiffer' /\ StartedIsStored' /\ TurnIdsDiffer' /\ OneAtWork' /\ NumbersFollowTurns'
<1>1. db' = db /\ overlapped' = overlapped /\ raced' = raced  BY DEF Quiet
<1>2. RowsDiffer' /\ NumbersFollowTurns'  BY <1>1 DEF RowsDiffer, NumbersFollowTurns
<1>3. StartedIsStored'  BY <1>1, QuietFacts DEF StartedIsStored
<1>4. TurnIdsDiffer'
  <2>1. \A q \in Requests : req'[q].pc \in {"push"} \cup RunSteps \cup AbortSteps =>
          /\ req[q].pc \in {"push"} \cup RunSteps \cup AbortSteps
          /\ req'[q].turn = req[q].turn
    BY QuietFacts DEF Started
  <2> QED  BY <2>1 DEF TurnIdsDiffer
<1>5. OneAtWork'  BY <1>1, QuietFacts DEF OneAtWork, Active
<1> QED  BY <1>2, <1>3, <1>4, <1>5

\* Such a step keeps the numbers in order.
LEMMA QuietKeepsNumbers ==
  ASSUME Types, CountersCover, PendingAreCovered, StagesHold, NumbersAreFresh, OneAtWork,
         NEW p \in Requests, Quiet(p)
  PROVE  CountersCover' /\ PendingAreCovered' /\ StagesHold' /\ NumbersAreFresh'
<1>1. db' = db /\ ctr' = ctr /\ overlapped' = overlapped /\ raced' = raced  BY DEF Quiet
<1>2. \A q \in Requests : q # p => req'[q] = req[q]  BY DEF Quiet, Others
<1>3. Undisturbed' = Undisturbed  BY <1>1 DEF Undisturbed
<1>4. CountersCover'
  BY <1>1, <1>3 DEF CountersCover, TurnsUpTo, NumbersUpTo, PlacesUpTo
<1>5. PendingAreCovered'
  <2> SUFFICES ASSUME Undisturbed, NEW q \in Requests
               PROVE
      /\ req'[q].pc \in Working \ {"turn"} /\ ctr[TurnsKey] # 0 => req'[q].turn <= ctr[TurnsKey]
      /\ req'[q].pc \in {"create", "roundCreate"} /\ ctr[MsgsKey] # 0 =>
           req'[q].gseq <= ctr[MsgsKey]
      /\ req'[q].pc \in {"roundSeq", "roundCreate", "abortCreate"}
           /\ ctr[SeqKey(req'[q].turn)] # 0 => req'[q].seq <= ctr[SeqKey(req'[q].turn)]
    BY <1>1, <1>3 DEF PendingAreCovered
  <2>1. req'[q].pc \in Working \ {"turn"} =>
          req[q].pc \in Working \ {"turn"} /\ req'[q].turn = req[q].turn
    <3>1. CASE q # p  BY <1>2, <3>1
    <3>2. CASE q = p
      <4>1. CASE req'[p] = Gone  BY <3>2, <4>1, GoneFacts, StepNames
      <4>2. CASE Counts(p)  BY <3>2, <4>2, QuietFacts DEF Counts
      <4>3. CASE Loads(p)  BY <3>2, <4>3, QuietFacts DEF Loads
      <4>4. CASE Continues(p)
        BY <3>2, <4>4, QuietFacts DEF Continues, Started, RunSteps, AbortSteps
      <4> QED  BY <4>1, <4>2, <4>3, <4>4 DEF Quiet
    <3> QED  BY <3>1, <3>2
  <2>2. req'[q].pc \in {"create", "roundSeq", "roundCreate", "abortCreate"} =>
                /\ req'[q].pc = req[q].pc /\ req'[q].turn = req[q].turn
                /\ req'[q].seq = req[q].seq /\ req'[q].gseq = req[q].gseq
    BY QuietFacts
  <2> QED  BY <2>1, <2>2 DEF PendingAreCovered
<1>6. StagesHold'
  <2> SUFFICES ASSUME Undisturbed, NEW q \in Requests, req'[q].pc \in AllocSteps
               PROVE  /\ req'[q].stage = "incr" => ctr[Key(q)'] # 0
                      /\ req'[q].stage = "init" => Covers(req[q], req[q].wm)'
    BY <1>1, <1>3 DEF StagesHold
  <2>1. CASE q # p
    <3>1. req'[q] = req[q]  BY <1>2, <2>1
    <3>2. Key(q)' = Key(q)  BY <3>1 DEF Key
    <3>3. Covers(req[q], req[q].wm)' <=> Covers(req[q], req[q].wm)
      BY <1>1, <3>1 DEF Covers, TurnsUpTo, NumbersUpTo, PlacesUpTo
    <3> QED  BY <3>1, <3>2, <3>3 DEF StagesHold
  <2>2. CASE q = p
    <3>1. CASE req'[p] = Gone  BY <2>2, <3>1, GoneFacts
    <3>2. CASE Counts(p)
      <4>1. Key(p)' = Key(p)  BY <3>2 DEF Key, Counts
      <4>2. req'[p].stage = "incr" => ctr[Key(p)] # 0  BY <3>2 DEF Counts
      <4>3. req'[p].stage = "init" => Covers(req[p], req'[p].wm)  BY <3>2 DEF Counts
      <4>4. req'[p].pc = req[p].pc /\ req'[p].turn = req[p].turn  BY <3>2 DEF Counts
      <4>5. Covers(req[p], req'[p].wm) => Covers(req[p], req[p].wm)'
        BY <1>1, <4>4 DEF Covers, TurnsUpTo, NumbersUpTo, PlacesUpTo
      <4> QED  BY <2>2, <4>1, <4>2, <4>3, <4>5
    <3>3. CASE Loads(p)  BY <2>2, <3>3 DEF Loads
    <3>4. CASE Continues(p)  BY <2>2, <3>4 DEF Continues
    <3> QED  BY <3>1, <3>2, <3>3, <3>4 DEF Quiet
  <2> QED  BY <2>1, <2>2
<1>7. NumbersAreFresh'
  <2> SUFFICES ASSUME Undisturbed, NEW q \in Requests
               PROVE
      /\ req'[q].pc \in {"load", "fill", "seq", "create"} => \A r \in db : r.turn < req'[q].turn
      /\ req'[q].pc \in Working \ {"turn"} => \A r \in db : r.turn <= req'[q].turn
      /\ req'[q].pc \in {"create", "roundCreate"} => \A r \in db : r.gseq < req'[q].gseq
      /\ req'[q].pc \in {"roundSeq", "roundCreate", "abortCreate"} =>
           \A r \in db : r.turn = req'[q].turn => r.seq < req'[q].seq
    BY <1>1, <1>3 DEF NumbersAreFresh, TurnsUpTo
  <2>1. CASE q # p  BY <1>2, <2>1 DEF NumbersAreFresh, TurnsUpTo
  <2>2. CASE q = p
    <3>1. CASE req'[p] = Gone  BY <2>2, <3>1, GoneFacts, StepNames
    <3>2. CASE Counts(p)
      BY <2>2, <3>2 DEF Counts, NumbersAreFresh, TurnsUpTo
    <3>3. CASE Loads(p)
      BY <2>2, <3>3, QuietFacts DEF Loads, NumbersAreFresh, TurnsUpTo
    <3>4. CASE Continues(p)
      BY <2>2, <3>4, QuietFacts DEF Continues, NumbersAreFresh, TurnsUpTo, Started, RunSteps,
                                   AbortSteps
    <3> QED  BY <3>1, <3>2, <3>3, <3>4 DEF Quiet
  <2> QED  BY <2>1, <2>2
<1> QED  BY <1>4, <1>5, <1>6, <1>7
-----------------------------------------------------------------------------
(* The greatest of finitely many numbers, which the watermark query returns. *)

\* A set of numbers has a least one.
LEMMA LeastNumber ==
  ASSUME NEW T, T \subseteq Nat, T # {}
  PROVE  \E x \in T : \A y \in T : x <= y
<1> DEFINE R == OpToRel(<, Nat)
<1>1. IsWellFoundedOn(R, Nat)  BY NatLessThanWellFounded
<1>2. \A x, y \in Nat : <<y, x>> \notin R => x <= y
  BY DEF OpToRel
<1>3. \E x \in T : \A y \in T : ~ (<<y, x>> \in R)
  <2> HIDE DEF R
  <2> QED  BY <1>1, WFMin
<1> QED  BY <1>2, <1>3

\* Finitely many numbers have a bound.
LEMMA BoundOf ==
  ASSUME NEW S, IsFiniteSet(S), NEW f \in [S -> Nat]
  PROVE  \E m \in Nat : \A x \in S : f[x] <= m
<1>1. PICK n \in Nat : ExistsSurjection(1 .. n, S)  BY FS_NatSurjection
<1>2. PICK g \in [1 .. n -> S] : \A x \in S : \E i \in 1 .. n : g[i] = x
  BY <1>1 DEF ExistsSurjection, Surjection
<1> DEFINE Bounded(k) == \E m \in Nat : \A i \in 1 .. k : f[g[i]] <= m
           K == {k \in 0 .. n : ~ Bounded(k)}
<1>3. ASSUME K # {} PROVE FALSE
  <2>1. K \subseteq Nat  OBVIOUS
  <2>2. PICK k \in K : \A j \in K : k <= j  BY <1>3, <2>1, LeastNumber
  <2>3. k # 0
    <3>1. 0 \in Nat /\ \A i \in 1 .. 0 : f[g[i]] <= 0  OBVIOUS
    <3>2. Bounded(0)  BY <3>1
    <3> QED  BY <3>2, <2>2
  <2>4. k \in 1 .. n /\ k - 1 \in 0 .. n /\ k - 1 \notin K
    <3>1. k \in 0 .. n  BY <2>2
    <3>2. k \in 1 .. n /\ k - 1 \in 0 .. n /\ ~ (k <= k - 1)  BY <2>3, <3>1
    <3> HIDE DEF K
    <3> QED  BY <2>2, <3>2
  <2>5. PICK m \in Nat : \A i \in 1 .. k - 1 : f[g[i]] <= m  BY <2>4
  <2>6. f[g[k]] \in Nat  BY <1>2, <2>4
  <2>7. \A i \in 1 .. k : f[g[i]] \in Nat  BY <1>2, <2>4
  <2>8. \A i \in 1 .. k : f[g[i]] <= m + f[g[k]]
    <3> TAKE i \in 1 .. k
    <3>1. CASE i = k  BY <2>6, <3>1
    <3>2. CASE i # k
      <4>1. i \in 1 .. k - 1  BY <2>4, <3>2
      <4>2. f[g[i]] <= m /\ f[g[i]] \in Nat  BY <2>5, <2>7, <4>1
      <4> QED  BY <2>6, <4>2
    <3> QED  BY <3>1, <3>2
  <2>9. m + f[g[k]] \in Nat  BY <2>6
  <2>10. Bounded(k)  BY <2>8, <2>9
  <2> QED  BY <2>2, <2>10
<1>4. Bounded(n)
  <2>1. n \in 0 .. n  OBVIOUS
  <2> QED  BY <1>3, <2>1
<1>5. PICK m \in Nat : \A i \in 1 .. n : f[g[i]] <= m  BY <1>4
<1>6. \A x \in S : f[x] <= m  BY <1>2, <1>5
<1> QED  BY <1>6

\* Finitely many numbers have a greatest one, 0 if there is none.
LEMMA GreatestOf ==
  ASSUME NEW S, IsFiniteSet(S), NEW f \in [S -> Nat]
  PROVE  LET nums == {f[x] : x \in S}
             top  == CHOOSE m \in nums \cup {0} : \A n \in nums : n <= m
         IN  top \in nums \cup {0} /\ \A n \in nums : n <= top
<1> DEFINE nums == {f[x] : x \in S}
           B == {m \in Nat : \A n \in nums : n <= m}
<1>1. nums \subseteq Nat  OBVIOUS
<1>2. B # {}
  <2>1. PICK m \in Nat : \A x \in S : f[x] <= m  BY BoundOf
  <2> QED  BY <2>1
<1>3. PICK m \in B : \A b \in B : m <= b  BY <1>2, LeastNumber
<1>4. m \in nums \cup {0}
  <2> SUFFICES ASSUME m \notin nums, m # 0 PROVE FALSE
    OBVIOUS
  <2>1. m \in Nat /\ m - 1 \in Nat  BY <1>3
  <2>2. \A n \in nums : n <= m - 1
    <3> TAKE n \in nums
    <3>1. n \in Nat /\ n <= m /\ n # m  BY <1>1, <1>3
    <3> QED  BY <2>1, <3>1
  <2>3. m - 1 \in B  BY <2>1, <2>2
  <2> QED  BY <1>3, <2>1, <2>3
<1>5. \E k \in nums \cup {0} : \A n \in nums : n <= k  BY <1>3, <1>4
<1> DEFINE top == CHOOSE k \in nums \cup {0} : \A n \in nums : n <= k
<1>6. top \in nums \cup {0} /\ \A n \in nums : n <= top
  <2> HIDE DEF nums
  <2> QED  BY <1>5
<1> QED  BY <1>6

\* The watermark is the greatest number of its kind.
LEMMA WatermarkFacts ==
  ASSUME Types, LocalsFit, NEW p \in Requests, Allocating(p)
  PROVE  /\ Watermark(p) \in Nat /\ Covers(req[p], Watermark(p))
         /\ req[p].pc = "turn" => Watermark(p) = 0 \/ \E r \in db : Watermark(p) = r.turn
<1>1. db \subseteq Rows /\ IsFiniteSet(db)  BY DEF Types
<1>2. \A r \in db : r.turn \in Nat /\ r.seq \in Nat /\ r.gseq \in Nat  BY <1>1, RowTypes
<1>3. CASE req[p].pc = "turn"
  <2> DEFINE f == [r \in db |-> r.turn]
             nums == {r.turn : r \in db}
             top == CHOOSE m \in nums \cup {0} : \A n \in nums : n <= m
  <2>1. f \in [db -> Nat] /\ nums = {f[x] : x \in db}  BY <1>2
  <2>2. top \in nums \cup {0} /\ \A n \in nums : n <= top
    <3> HIDE DEF f
    <3>1. nums = {f[x] : x \in db}  BY <2>1
    <3> HIDE DEF nums
    <3> QED  BY <1>1, <2>1, <3>1, GreatestOf
  <2>3. Watermark(p) = top  BY <1>3 DEF Watermark
  <2>4. top \in Nat /\ TurnsUpTo(top)
    <3> HIDE DEF top
    <3> QED  BY <1>2, <2>2 DEF TurnsUpTo
  <2>5. top = 0 \/ \E r \in db : top = r.turn
    <3> HIDE DEF top
    <3> QED  BY <2>2
  <2> HIDE DEF top
  <2> QED  BY <1>3, <2>3, <2>4, <2>5 DEF Covers
<1>4. CASE req[p].pc \in {"seq", "roundSeq"}
  <2> DEFINE f == [r \in db |-> r.gseq]
             nums == {r.gseq : r \in db}
             top == CHOOSE m \in nums \cup {0} : \A n \in nums : n <= m
  <2>1. f \in [db -> Nat] /\ nums = {f[x] : x \in db}  BY <1>2
  <2>2. top \in nums \cup {0} /\ \A n \in nums : n <= top
    <3> HIDE DEF f
    <3>1. nums = {f[x] : x \in db}  BY <2>1
    <3> HIDE DEF nums
    <3> QED  BY <1>1, <2>1, <3>1, GreatestOf
  <2>3. Watermark(p) = top  BY <1>4 DEF Watermark
  <2>4. top \in Nat /\ NumbersUpTo(top)
    <3> HIDE DEF top
    <3> QED  BY <1>2, <2>2 DEF NumbersUpTo
  <2> HIDE DEF top
  <2> QED  BY <1>4, <2>3, <2>4 DEF Covers
<1>5. CASE req[p].pc \in {"round", "abort"}
  <2> DEFINE mine == {x \in db : x.turn = req[p].turn}
             f == [r \in mine |-> r.seq]
             nums == {r.seq : r \in mine}
             top == CHOOSE m \in nums \cup {0} : \A n \in nums : n <= m
  <2>1. mine \subseteq db /\ IsFiniteSet(mine)  BY <1>1, FS_Subset
  <2>2. f \in [mine -> Nat] /\ nums = {f[x] : x \in mine}  BY <1>2, <2>1
  <2>3. top \in nums \cup {0} /\ \A n \in nums : n <= top
    <3> HIDE DEF f, mine
    <3>1. nums = {f[x] : x \in mine}  BY <2>2
    <3> HIDE DEF nums
    <3> QED  BY <2>1, <2>2, <3>1, GreatestOf
  <2>4. Watermark(p) = top  BY <1>5 DEF Watermark
  <2>5. \A r \in db : r.turn = req[p].turn => r.seq \in nums  OBVIOUS
  <2>6. top \in Nat /\ PlacesUpTo(req[p].turn, top)
    <3>1. nums \subseteq Nat  BY <1>2
    <3>2. top \in Nat
      <4> HIDE DEF top, nums
      <4> QED  BY <2>3, <3>1
    <3>3. \A r \in db : r.turn = req[p].turn => r.seq <= top
      <4> HIDE DEF top, nums, mine
      <4> QED  BY <2>3, <2>5
    <3> HIDE DEF top
    <3> QED  BY <3>2, <3>3 DEF PlacesUpTo
  <2> HIDE DEF top
  <2> QED  BY <1>5, <2>4, <2>6 DEF Covers
<1> QED  BY <1>3, <1>4, <1>5 DEF Allocating
-----------------------------------------------------------------------------
(* The steps.  What is common to them first: the cache and the history flags.        *)

\* A step that stores nothing less and pushes nothing keeps what waits to be cached.
LEMMA PushesStay ==
  ASSUME PushesAreStored, NEW p \in Requests, db \subseteq db', Others(p), CacheIsStored',
         \A n \in 1 .. Len(req'[p].fill) : req'[p].fill[n] \in db',
         req'[p].pc \in PushSteps => RowOf(p)' \in db'
  PROVE  PushesAreStored'
<1> SUFFICES ASSUME NEW q \in Requests
             PROVE  /\ \A n \in 1 .. Len(req'[q].fill) : req'[q].fill[n] \in db'
                    /\ req'[q].pc \in PushSteps => RowOf(q)' \in db'
  BY DEF PushesAreStored
<1>1. CASE q = p  BY <1>1
<1>2. CASE q # p
  <2>1. req'[q] = req[q]  BY <1>2 DEF Others
  <2>2. RowOf(q)' = RowOf(q)  BY <2>1 DEF RowOf
  <2> QED  BY <2>1, <2>2 DEF PushesAreStored
<1> QED  BY <1>1, <1>2

\* A cache that keeps its rows keeps them stored.
LEMMA CacheStays ==
  ASSUME PushesAreStored, cache' = cache, db \subseteq db'
  PROVE  CacheIsStored'
BY DEF PushesAreStored, CacheIsStored

\* The table is keyed.
LEMMA TableIsKeyed ==
  ASSUME Types, RowsDiffer
  PROVE  Keyed(db)
BY DEF Types, RowsDiffer, Keyed

\* A step that leaves the cache and the table alone, with no push, keeps the one whole.
LEMMA WholeStays ==
  ASSUME CacheIsWhole, NEW p \in Requests, db' = db, cache' = cache, Others(p),
         req[p].pc \notin PushSteps, req'[p].pc \notin PushSteps,
         gaps' = 0 => gaps = 0, Undisturbed' => Undisturbed,
         Undisturbed /\ gaps = 0 => req'[p].pc # "fill"
  PROVE  CacheIsWhole'
<1> SUFFICES ASSUME Undisturbed, gaps = 0, Undisturbed', gaps' = 0
             PROVE
    /\ \A q \in Requests :
         /\ req'[q].pc # "fill"
         /\ req'[q].pc \in PushSteps => Listed' = Append(cache', RowOf(q)')
    /\ (\A q \in Requests : req'[q].pc \notin PushSteps) => cache' = Listed'
  BY DEF CacheIsWhole
<1>1. Listed' = Listed /\ cache' = cache  BY DEF Listed
<1>2. \A q \in Requests : q # p => req'[q] = req[q]  BY DEF Others
<1>3. \A q \in Requests : q # p => RowOf(q)' = RowOf(q)  BY <1>2 DEF RowOf
<1>4. \A q \in Requests : q # p => /\ req[q].pc # "fill"
                                   /\ req[q].pc \in PushSteps => Listed = Append(cache, RowOf(q))
  BY DEF CacheIsWhole
<1>5. \A q \in Requests : req'[q].pc # "fill"  BY <1>2, <1>4
<1>6. \A q \in Requests : req'[q].pc \in PushSteps => Listed' = Append(cache', RowOf(q)')
  BY <1>1, <1>2, <1>3, <1>4
<1>7. (\A q \in Requests : req'[q].pc \notin PushSteps) => cache' = Listed'
  <2> SUFFICES ASSUME \A q \in Requests : req'[q].pc \notin PushSteps PROVE cache = Listed
    BY <1>1
  <2>1. \A q \in Requests : req[q].pc \notin PushSteps  BY <1>2
  <2> QED  BY <2>1 DEF CacheIsWhole
<1> QED  BY <1>5, <1>6, <1>7

\* While one request is at work outside a push, the cache is the stored history.
LEMMA WholeCache ==
  ASSUME CacheIsWhole, OneAtWork, Undisturbed, gaps = 0, NEW p \in Requests,
         req[p].pc \in Working, req[p].pc \notin PushSteps
  PROVE  cache = Listed
<1>1. \A q \in Requests : req[q].pc \in PushSteps => q = p
  BY StepNames DEF OneAtWork, Undisturbed, Active
<1>2. \A q \in Requests : req[q].pc \notin PushSteps  BY <1>1
<1> QED  BY <1>2 DEF CacheIsWhole

\* The flags of history are never lowered.
LEMMA FlagsStay ==
  ASSUME Types, RefusalNeedsRace, HistoryIsWhole,
         refused' = refused, misled' = misled, gaps' = gaps \/ gaps' = gaps + 1,
         Undisturbed' => Undisturbed
  PROVE  RefusalNeedsRace' /\ HistoryIsWhole'
<1>1. gaps \in Nat  BY DEF Types
<1>2. gaps > 0 => gaps' > 0  BY <1>1
<1>3. (overlapped => overlapped') \/ raced'  BY DEF Types, Undisturbed
<1>4. overlapped \/ raced => overlapped' \/ raced'  BY DEF Types, Undisturbed
<1> QED  BY <1>2, <1>4 DEF RefusalNeedsRace, HistoryIsWhole

\* A quiet step keeps the invariant if it keeps the cache and the flags in order.
LEMMA QuietSuffices ==
  ASSUME IInv, NEW p \in Requests, Quiet(p), Types', PushesAreStored', RefusalNeedsRace',
         CacheIsWhole', HistoryIsWhole'
  PROVE  IInv'
<1>0. /\ Types /\ LocalsFit /\ TurnsFit /\ RowsDiffer /\ StartedIsStored /\ TurnIdsDiffer
      /\ OneAtWork /\ CountersCover /\ PendingAreCovered /\ StagesHold /\ NumbersAreFresh
      /\ NumbersFollowTurns
  BY DEF IInv
<1>1. LocalsFit' /\ TurnsFit'  BY <1>0, QuietKeepsLocals, QuietKeepsTurns
<1>2. RowsDiffer' /\ StartedIsStored' /\ TurnIdsDiffer' /\ OneAtWork' /\ NumbersFollowTurns'
  BY <1>0, QuietKeepsRows
<1>3. CountersCover' /\ PendingAreCovered' /\ StagesHold' /\ NumbersAreFresh'
  BY <1>0, QuietKeepsNumbers
<1> QED  BY <1>1, <1>2, <1>3 DEF IInv

\* The same of a quiet step that leaves cache and flags alone and pushes nothing.
LEMMA QuietIsEnough ==
  ASSUME IInv, NEW p \in Requests, Quiet(p), UNCHANGED <<cache, losses, gaps, refused, misled>>,
         req[p].pc \notin PushSteps, req'[p].pc \notin PushSteps \cup {"fill"},
         req'[p].fill = req[p].fill \/ req'[p].fill = <<>>
  PROVE  IInv'
<1>0. Types /\ PushesAreStored /\ RefusalNeedsRace /\ CacheIsWhole /\ HistoryIsWhole
  BY DEF IInv
<1>1. /\ db' = db /\ ctr' = ctr /\ overlapped' = overlapped /\ raced' = raced
      /\ cache' = cache /\ losses' = losses /\ gaps' = gaps /\ refused' = refused
      /\ misled' = misled /\ req' \in [Requests -> RequestRecords] /\ Others(p)
  BY DEF Quiet
<1>2. Types'  BY <1>0, <1>1 DEF Types
<1>3. Undisturbed' = Undisturbed  BY <1>1 DEF Undisturbed
<1>4. RefusalNeedsRace' /\ HistoryIsWhole'  BY <1>0, <1>1, <1>3, FlagsStay
<1>5. CacheIsWhole'  BY <1>0, <1>1, <1>3, WholeStays
<1>6. PushesAreStored'
  <2>1. CacheIsStored'  BY <1>0, <1>1, CacheStays
  <2>2. \A n \in 1 .. Len(req'[p].fill) : req'[p].fill[n] \in db'
    BY <1>0, <1>1 DEF PushesAreStored
  <2> QED  BY <1>0, <1>1, <2>1, <2>2, PushesStay
<1> QED  BY <1>2, <1>4, <1>5, <1>6, QuietSuffices

\* Exists keeps the invariant.
LEMMA ExistsStep ==
  ASSUME IInv, NEW p \in Requests, Exists(p)
  PROVE  IInv'
<1>0. Types /\ LocalsFit /\ TurnsFit  BY DEF IInv
<1> DEFINE r == [req[p] EXCEPT !.stage = IF ctr[Key(p)] = 0 THEN "watermark" ELSE "incr"]
<1>1. UNCHANGED <<db, ctr, cache, losses, overlapped, gaps, raced, refused, misled>>
  BY DEF Exists, store, hist
<1>2. req[p] \in RequestRecords  BY <1>0 DEF Types
<1>3. r \in RequestRecords  BY <1>2 DEF RequestRecords
<1>4. /\ r.pc = req[p].pc /\ r.turn = req[p].turn /\ r.seq = req[p].seq /\ r.gseq = req[p].gseq
      /\ r.wm = req[p].wm /\ r.fill = req[p].fill
      /\ r.stage = IF ctr[Key(p)] = 0 THEN "watermark" ELSE "incr"
  BY <1>2 DEF RequestRecords
<1>5. Set(p, r)  BY DEF Exists
<1> HIDE DEF r
<1>6. req' \in [Requests -> RequestRecords] /\ req'[p] = r /\ Others(p)
  BY <1>0, <1>3, <1>5, ReqIsSet
<1>7. req[p].pc \in AllocSteps  BY DEF Exists, Allocating, AllocSteps
<1>8. Counts(p)  BY <1>0, <1>4, <1>6, <1>7 DEF Counts, TurnsFit
<1>9. Quiet(p)  BY <1>1, <1>6, <1>7, <1>8, StepNames DEF Quiet, Active
<1>10. req[p].pc \notin PushSteps \cup {"fill"}  BY <1>7, StepNames DEF AllocSteps
<1>11. UNCHANGED <<cache, losses, gaps, refused, misled>>  BY <1>1
<1> QED  BY <1>4, <1>6, <1>9, <1>10, <1>11, QuietIsEnough

\* ReadWatermark keeps the invariant.
LEMMA ReadWatermarkStep ==
  ASSUME IInv, NEW p \in Requests, ReadWatermark(p)
  PROVE  IInv'
<1>0. Types /\ LocalsFit /\ TurnsFit  BY DEF IInv
<1> DEFINE r == [req[p] EXCEPT !.stage = "init", !.wm = Watermark(p)]
<1>1. UNCHANGED <<db, ctr, cache, losses, overlapped, gaps, raced, refused, misled>>
  BY DEF ReadWatermark, store, hist
<1>2. req[p] \in RequestRecords /\ Allocating(p)  BY <1>0 DEF Types, ReadWatermark
<1>3. /\ Watermark(p) \in Nat /\ Covers(req[p], Watermark(p))
      /\ req[p].pc = "turn" => Watermark(p) = 0 \/ \E x \in db : Watermark(p) = x.turn
  BY <1>0, <1>2, WatermarkFacts
<1>4. r \in RequestRecords  BY <1>2, <1>3 DEF RequestRecords
<1>5. /\ r.pc = req[p].pc /\ r.turn = req[p].turn /\ r.seq = req[p].seq /\ r.gseq = req[p].gseq
      /\ r.wm = Watermark(p) /\ r.fill = req[p].fill /\ r.stage = "init"
  BY <1>2 DEF RequestRecords
<1>6. Set(p, r)  BY DEF ReadWatermark
<1> HIDE DEF r
<1>7. req' \in [Requests -> RequestRecords] /\ req'[p] = r /\ Others(p)
  BY <1>0, <1>4, <1>6, ReqIsSet
<1>8. req[p].pc \in AllocSteps  BY <1>2 DEF Allocating, AllocSteps
<1>9. req[p].pc = "turn" => Watermark(p) <= Cardinality(Numbered)
  <2>1. Cardinality(Numbered) \in Nat
    <3>1. Numbered \in SUBSET Requests  BY DEF Numbered
    <3> QED  BY <3>1, SizeFacts
  <2>2. \A x \in db : x.turn <= Cardinality(Numbered)  BY <1>0 DEF TurnsFit
  <2> QED  BY <1>3, <2>1, <2>2
<1>10. Counts(p)  BY <1>3, <1>5, <1>7, <1>8, <1>9 DEF Counts
<1>11. Quiet(p)  BY <1>1, <1>7, <1>8, <1>10, StepNames DEF Quiet, Active
<1>12. req[p].pc \notin PushSteps \cup {"fill"}  BY <1>8, StepNames DEF AllocSteps
<1>13. UNCHANGED <<cache, losses, gaps, refused, misled>>  BY <1>1
<1> QED  BY <1>5, <1>7, <1>11, <1>12, <1>13, QuietIsEnough

\* Skip keeps the invariant.
LEMMA SkipStep ==
  ASSUME IInv, NEW p \in Requests, Skip(p)
  PROVE  IInv'
<1>0. Types  BY DEF IInv
<1> DEFINE r == Advance(req[p])
<1>1. UNCHANGED <<db, ctr, cache, losses, overlapped, gaps, raced, refused, misled>>
  BY DEF Skip, store, hist
<1>2. req[p] \in RequestRecords  BY <1>0 DEF Types
<1>3. r \in RequestRecords
      /\ \/ r = Gone
         \/ /\ r.pc = "round" /\ r.stage = "exists"
            /\ r.turn = req[p].turn /\ r.fill = req[p].fill
  BY <1>2, AdvanceFacts
<1>4. Set(p, r)  BY DEF Skip
<1> HIDE DEF r
<1>5. req' \in [Requests -> RequestRecords] /\ req'[p] = r /\ Others(p)
  BY <1>0, <1>3, <1>4, ReqIsSet
<1>6. req[p].pc \in Started /\ req[p].pc \notin PushSteps
  BY DEF Skip, Started, RunSteps, PushSteps
<1>7. r = Gone \/ Continues(p)  BY <1>3, <1>5, <1>6 DEF Continues
<1>8. Quiet(p)  BY <1>1, <1>5, <1>6, <1>7, StepNames DEF Quiet, Active
<1>9. /\ r.pc \notin PushSteps \cup {"fill"}
      /\ r.fill = req[p].fill \/ r.fill = <<>>
  BY <1>3, GoneFacts DEF PushSteps
<1>10. UNCHANGED <<cache, losses, gaps, refused, misled>>  BY <1>1
<1> QED  BY <1>5, <1>6, <1>8, <1>9, <1>10, QuietIsEnough

\* Abort keeps the invariant.
LEMMA AbortStep ==
  ASSUME IInv, NEW p \in Requests, Abort(p)
  PROVE  IInv'
<1>0. Types  BY DEF IInv
<1> DEFINE r == [req[p] EXCEPT !.pc = "abort", !.stage = "exists", !.wm = 0]
<1>1. UNCHANGED <<db, ctr, cache, losses, overlapped, gaps, raced, refused, misled>>
  BY DEF Abort, store, hist
<1>2. req[p] \in RequestRecords  BY <1>0 DEF Types
<1>3. r \in RequestRecords  BY <1>2 DEF RequestRecords, Working, AbortSteps
<1>4. r.pc = "abort" /\ r.stage = "exists" /\ r.turn = req[p].turn /\ r.fill = req[p].fill
  BY <1>2 DEF RequestRecords
<1>5. Set(p, r)  BY DEF Abort
<1> HIDE DEF r
<1>6. req' \in [Requests -> RequestRecords] /\ req'[p] = r /\ Others(p)
  BY <1>0, <1>3, <1>5, ReqIsSet
<1>7. req[p].pc \in Started /\ req[p].pc \notin PushSteps
  BY DEF Abort, Started, RunSteps, PushSteps
<1>8. Continues(p)  BY <1>4, <1>6, <1>7 DEF Continues
<1>9. Quiet(p)  BY <1>1, <1>6, <1>7, <1>8, StepNames DEF Quiet, Active
<1>10. r.pc \notin PushSteps \cup {"fill"}  BY <1>4 DEF PushSteps
<1>11. UNCHANGED <<cache, losses, gaps, refused, misled>>  BY <1>1
<1> QED  BY <1>4, <1>6, <1>7, <1>9, <1>10, <1>11, QuietIsEnough

\* UseCache keeps the invariant: the cache is then the stored history, or not all is well.
LEMMA UseCacheStep ==
  ASSUME IInv, NEW p \in Requests, UseCache(p)
  PROVE  IInv'
<1>0. /\ Types /\ LocalsFit /\ PushesAreStored /\ RefusalNeedsRace /\ CacheIsWhole
      /\ HistoryIsWhole /\ OneAtWork
  BY DEF IInv
<1> DEFINE r == [req[p] EXCEPT !.pc = "seq"]
<1>1. /\ UNCHANGED <<db, ctr, cache, losses, overlapped, gaps, raced, refused>>
      /\ misled' = (misled \/ cache # Listed) /\ req[p].pc = "load"
  BY DEF UseCache, store, hist
<1>2. req[p] \in RequestRecords  BY <1>0 DEF Types
<1>3. r \in RequestRecords  BY <1>2 DEF RequestRecords, Working, ChatSteps
<1>4. r.pc = "seq" /\ r.stage = req[p].stage /\ r.turn = req[p].turn /\ r.fill = req[p].fill
  BY <1>2 DEF RequestRecords
<1>5. Set(p, r)  BY DEF UseCache, Goto
<1> HIDE DEF r
<1>6. req' \in [Requests -> RequestRecords] /\ req'[p] = r /\ Others(p)
  BY <1>0, <1>3, <1>5, ReqIsSet
<1>7. req[p].stage = "exists"  BY <1>0, <1>1 DEF LocalsFit, AllocSteps
<1>8. Loads(p)  BY <1>1, <1>4, <1>6, <1>7 DEF Loads
<1>9. req[p].pc \in Working /\ req[p].pc \notin PushSteps
  BY <1>1 DEF Working, ChatSteps, PushSteps
<1>10. Quiet(p)  BY <1>1, <1>6, <1>8, <1>9 DEF Quiet, Active
<1>11. req'[p].pc \notin PushSteps \cup {"fill"}  BY <1>4, <1>6 DEF PushSteps
<1>12. Types'
  <2>1. misled' \in BOOLEAN  BY <1>1
  <2>2. /\ db' = db /\ ctr' = ctr /\ cache' = cache /\ losses' = losses
        /\ overlapped' = overlapped /\ gaps' = gaps /\ raced' = raced /\ refused' = refused
    BY <1>1
  <2> QED  BY <1>0, <1>6, <2>1, <2>2 DEF Types
<1>13. Undisturbed' = Undisturbed  BY <1>1 DEF Undisturbed
<1>14. CacheIsWhole'  BY <1>0, <1>1, <1>6, <1>9, <1>11, <1>13, WholeStays
<1>15. PushesAreStored'
  <2>1. CacheIsStored' /\ db' = db  BY <1>0, <1>1, CacheStays
  <2>2. \A n \in 1 .. Len(req'[p].fill) : req'[p].fill[n] \in db'
    BY <1>0, <1>4, <1>6, <2>1 DEF PushesAreStored
  <2> QED  BY <1>0, <1>6, <1>11, <2>1, <2>2, PushesStay
<1>16. RefusalNeedsRace'  BY <1>0, <1>1 DEF RefusalNeedsRace
<1>17. HistoryIsWhole'
  <2>1. Undisturbed /\ gaps = 0 => cache = Listed  BY <1>0, <1>9, WholeCache
  <2>2. gaps \in Nat /\ overlapped \in BOOLEAN /\ raced \in BOOLEAN  BY <1>0 DEF Types
  <2>3. cache # Listed => gaps > 0 \/ overlapped \/ raced
    BY <2>1, <2>2 DEF Undisturbed
  <2> QED  BY <1>0, <1>1, <2>3 DEF HistoryIsWhole
<1> QED  BY <1>10, <1>12, <1>14, <1>15, <1>16, <1>17, QuietSuffices

\* The elements of the list are rows of the table.
LEMMA ListedFacts ==
  ASSUME Types, RowsDiffer
  PROVE  /\ Listed \in Seq(Rows) /\ \A n \in 1 .. Len(Listed) : Listed[n] \in db
         /\ Listed = <<>> => db = {}
<1>1. Keyed(db)  BY TableIsKeyed
<1>2. /\ Sorted(db) \in Seq(db) /\ Len(Sorted(db)) = Cardinality(db)
      /\ \A n \in 1 .. Cardinality(db) : Sorted(db)[n] \in db
  BY <1>1, SortedFacts
<1>3. Sorted(db) \in Seq(Rows)  BY <1>2, SeqMonotonic DEF Types
<1>4. Sorted(db) = <<>> => db = {}
  <2> SUFFICES ASSUME Sorted(db) = <<>> PROVE db = {}
    OBVIOUS
  <2>1. Cardinality(db) = 0  BY <1>2
  <2> QED  BY <2>1, FS_EmptySet DEF Types
<1> QED  BY <1>2, <1>3, <1>4 DEF Listed

\* UseTable keeps the invariant.
LEMMA UseTableStep ==
  ASSUME IInv, NEW p \in Requests, UseTable(p)
  PROVE  IInv'
<1>0. /\ Types /\ LocalsFit /\ PushesAreStored /\ RefusalNeedsRace /\ CacheIsWhole
      /\ HistoryIsWhole /\ OneAtWork /\ RowsDiffer
  BY DEF IInv
<1> DEFINE r == [req[p] EXCEPT !.fill = Listed, !.pc = IF db = {} THEN "seq" ELSE "fill"]
<1>1. /\ UNCHANGED <<db, ctr, cache, losses, overlapped, raced, refused, misled>>
      /\ \/ cache = <<>> /\ gaps' = gaps
         \/ gaps' = gaps + 1
      /\ req[p].pc = "load"
  BY DEF UseTable, store
<1>2. req[p] \in RequestRecords  BY <1>0 DEF Types
<1>3. /\ Listed \in Seq(Rows) /\ \A n \in 1 .. Len(Listed) : Listed[n] \in db
      /\ Listed = <<>> => db = {}
  BY <1>0, ListedFacts
<1>4. r \in RequestRecords  BY <1>2, <1>3 DEF RequestRecords, Working, ChatSteps
<1>5. /\ r.pc = IF db = {} THEN "seq" ELSE "fill"
      /\ r.stage = req[p].stage /\ r.turn = req[p].turn /\ r.fill = Listed
  BY <1>2 DEF RequestRecords
<1>6. Set(p, r)  BY DEF UseTable
<1> HIDE DEF r
<1>7. req' \in [Requests -> RequestRecords] /\ req'[p] = r /\ Others(p)
  BY <1>0, <1>4, <1>6, ReqIsSet
<1>8. req[p].stage = "exists"  BY <1>0, <1>1 DEF LocalsFit, AllocSteps
<1>9. Loads(p)  BY <1>1, <1>5, <1>7, <1>8 DEF Loads
<1>10. req[p].pc \in Working /\ req[p].pc \notin PushSteps
  BY <1>1 DEF Working, ChatSteps, PushSteps
<1>11. Quiet(p)  BY <1>1, <1>7, <1>9, <1>10 DEF Quiet, Active
<1>12. req'[p].pc \notin PushSteps  BY <1>5, <1>7 DEF PushSteps
<1>13. gaps \in Nat /\ gaps' \in Nat /\ (gaps' = gaps \/ gaps' = gaps + 1)
  BY <1>0, <1>1 DEF Types
<1>14. Types'
  <2>1. /\ db' = db /\ ctr' = ctr /\ cache' = cache /\ losses' = losses /\ misled' = misled
        /\ overlapped' = overlapped /\ raced' = raced /\ refused' = refused
    BY <1>1
  <2> QED  BY <1>0, <1>7, <1>13, <2>1 DEF Types
<1>15. Undisturbed' = Undisturbed  BY <1>1 DEF Undisturbed
<1>16. CASE Undisturbed /\ gaps = 0 /\ cache = <<>>
  <2>1. cache = Listed  BY <1>0, <1>10, <1>16, WholeCache
  <2>2. req'[p].pc # "fill"  BY <1>3, <1>5, <1>7, <1>16, <2>1
  <2>3. CacheIsWhole'
    BY <1>0, <1>1, <1>7, <1>10, <1>12, <1>13, <1>15, <2>2, WholeStays
  <2> QED
    <3>1. PushesAreStored'
      <4>1. CacheIsStored' /\ db' = db  BY <1>0, <1>1, CacheStays
      <4> QED  BY <1>0, <1>3, <1>5, <1>7, <1>12, <4>1, PushesStay
    <3>2. RefusalNeedsRace' /\ HistoryIsWhole'  BY <1>0, <1>1, <1>13, <1>15, FlagsStay
    <3> QED  BY <1>11, <1>14, <2>3, <3>1, <3>2, QuietSuffices
<1>17. CASE ~ (Undisturbed /\ gaps = 0 /\ cache = <<>>)
  <2>1. ~ (Undisturbed' /\ gaps' = 0)  BY <1>1, <1>13, <1>15, <1>17
  <2>2. CacheIsWhole'  BY <2>1 DEF CacheIsWhole
  <2>3. PushesAreStored'
    <3>1. CacheIsStored' /\ db' = db  BY <1>0, <1>1, CacheStays
    <3> QED  BY <1>0, <1>3, <1>5, <1>7, <1>12, <3>1, PushesStay
  <2>4. RefusalNeedsRace' /\ HistoryIsWhole'  BY <1>0, <1>1, <1>13, <1>15, FlagsStay
  <2> QED  BY <1>11, <1>14, <2>2, <2>3, <2>4, QuietSuffices
<1> QED  BY <1>16, <1>17

\* Begin keeps the invariant: it counts an overlap if another request is at work.
LEMMA BeginStep ==
  ASSUME IInv, NEW p \in Requests, Begin(p)
  PROVE  IInv'
<1>0. /\ Types /\ LocalsFit /\ TurnsFit /\ RowsDiffer /\ StartedIsStored /\ TurnIdsDiffer
      /\ PushesAreStored /\ OneAtWork /\ CountersCover /\ PendingAreCovered /\ StagesHold
      /\ NumbersAreFresh /\ RefusalNeedsRace /\ NumbersFollowTurns /\ CacheIsWhole
      /\ HistoryIsWhole
  BY DEF IInv
<1> DEFINE r == [req[p] EXCEPT !.pc = "turn"]
<1>1. /\ db' = db /\ ctr' = ctr /\ cache' = cache /\ losses' = losses /\ gaps' = gaps
      /\ raced' = raced /\ refused' = refused /\ misled' = misled
      /\ overlapped' = (overlapped \/ \E q \in Requests : Active(q)) /\ req[p].pc = "idle"
  BY DEF Begin, store
<1>2. req[p] \in RequestRecords  BY <1>0 DEF Types
<1>3. r \in RequestRecords  BY <1>2 DEF RequestRecords, Working, ChatSteps
<1>4. /\ r.pc = "turn" /\ r.stage = req[p].stage /\ r.turn = req[p].turn /\ r.fill = req[p].fill
      /\ r.wm = req[p].wm
  BY <1>2 DEF RequestRecords
<1>5. Set(p, r)  BY DEF Begin, Goto
<1> HIDE DEF r
<1>6. req' \in [Requests -> RequestRecords] /\ req'[p] = r /\ Others(p)
  BY <1>0, <1>3, <1>5, ReqIsSet
<1>7. \A q \in Requests : q # p => req'[q] = req[q]  BY <1>6 DEF Others
<1>8. req[p].stage = "exists"  BY <1>0, <1>1 DEF LocalsFit, AllocSteps
<1>9. overlapped' \in BOOLEAN /\ (Undisturbed' => Undisturbed)
  BY <1>0, <1>1 DEF Types, Undisturbed, Active
<1>10. Types'  BY <1>0, <1>1, <1>6, <1>9 DEF Types
<1>11. LocalsFit'
  <2> SUFFICES ASSUME NEW q \in Requests
             PROVE /\ req'[q].pc \notin AllocSteps => req'[q].stage = "exists"
                   /\ req'[q].pc \notin {"idle", "turn", "ended"} => req'[q].turn # 0
                   /\ req'[q].pc = "create" => req'[q].seq = 1
                   /\ req'[q].pc \in {"roundSeq", "roundCreate", "abortCreate"} \cup PushSteps =>
                        req'[q].seq # 0
                   /\ req'[q].pc = "abortCreate" => req'[q].gseq = 0
    BY DEF LocalsFit
  <2>1. CASE q = p  BY <1>4, <1>6, <2>1 DEF AllocSteps, PushSteps
  <2>2. CASE q # p  BY <1>0, <1>7, <2>2 DEF LocalsFit
  <2> QED  BY <2>1, <2>2
<1>12. TurnsFit'
  <2>1. Numbered' = Numbered  BY <1>1, <1>4, <1>6, <1>7 DEF Numbered
  <2>2. \A q \in Requests : /\ req'[q].turn = req[q].turn /\ req'[q].wm = req[q].wm
                            /\ req'[q].pc \in {"idle", "turn"} => req[q].pc \in {"idle", "turn"}
    BY <1>1, <1>4, <1>6, <1>7
  <2> QED  BY <1>0, <1>1, <2>1, <2>2 DEF TurnsFit
<1>13. \A q \in Requests : req'[q].pc \in Started \cup PushSteps \cup CreateSteps =>
         req'[q] = req[q] /\ q # p
  BY <1>4, <1>6, <1>7 DEF Started, RunSteps, AbortSteps, PushSteps, CreateSteps
<1>14. RowsDiffer' /\ StartedIsStored' /\ TurnIdsDiffer'
  BY <1>0, <1>1, <1>13 DEF RowsDiffer, StartedIsStored, TurnIdsDiffer, Started
<1>15. PushesAreStored'
  <2>1. CacheIsStored'  BY <1>0, <1>1, CacheStays
  <2>2. \A n \in 1 .. Len(req'[p].fill) : req'[p].fill[n] \in db'
    BY <1>0, <1>1, <1>4, <1>6 DEF PushesAreStored
  <2>3. req'[p].pc \notin PushSteps  BY <1>4, <1>6 DEF PushSteps
  <2> QED  BY <1>0, <1>1, <1>6, <2>1, <2>2, <2>3, PushesStay
<1>16. OneAtWork'
  <2> SUFFICES ASSUME ~ overlapped', NEW q \in Requests, NEW s \in Requests,
                      Active(q)', Active(s)'
               PROVE  q = s
    BY DEF OneAtWork
  <2>1. \A x \in Requests : ~ Active(x)  BY <1>1
  <2>2. \A x \in Requests : Active(x)' => x = p  BY <1>7, <2>1 DEF Active
  <2> QED  BY <2>2
<1>17. CountersCover'
  BY <1>0, <1>1, <1>9 DEF CountersCover, TurnsUpTo, NumbersUpTo, PlacesUpTo
<1>18. PendingAreCovered'
  <2>1. \A q \in Requests : req'[q].pc # "turn" => req'[q] = req[q]  BY <1>4, <1>6, <1>7
  <2> QED  BY <1>0, <1>1, <1>9, <2>1 DEF PendingAreCovered
<1>19. StagesHold'
  <2> SUFFICES ASSUME Undisturbed, NEW q \in Requests, req'[q].pc \in AllocSteps
               PROVE  /\ req'[q].stage = "incr" => ctr[Key(q)'] # 0
                      /\ req'[q].stage = "init" => Covers(req[q], req[q].wm)'
    BY <1>1, <1>9 DEF StagesHold
  <2>1. CASE q # p
    <3>1. req'[q] = req[q]  BY <1>7, <2>1
    <3>2. Key(q)' = Key(q)  BY <3>1 DEF Key
    <3>3. Covers(req[q], req[q].wm)' <=> Covers(req[q], req[q].wm)
      BY <1>1, <3>1 DEF Covers, TurnsUpTo, NumbersUpTo, PlacesUpTo
    <3> QED  BY <1>0, <3>1, <3>2, <3>3 DEF StagesHold
  <2>2. CASE q = p  BY <1>4, <1>6, <1>8, <2>2
  <2> QED  BY <2>1, <2>2
<1>20. NumbersAreFresh'
  <2>1. \A q \in Requests : req'[q].pc # "turn" => req'[q] = req[q]  BY <1>4, <1>6, <1>7
  <2> QED  BY <1>0, <1>1, <1>9, <2>1 DEF NumbersAreFresh, TurnsUpTo
<1>21. RefusalNeedsRace' /\ HistoryIsWhole'  BY <1>0, <1>1, <1>9, FlagsStay
<1>22. NumbersFollowTurns'
  BY <1>0, <1>1, <1>9 DEF NumbersFollowTurns, Undisturbed
<1>23. CacheIsWhole'
  <2>1. req[p].pc \notin PushSteps /\ req'[p].pc \notin PushSteps /\ req'[p].pc # "fill"
    BY <1>1, <1>4, <1>6 DEF PushSteps
  <2> QED  BY <1>0, <1>1, <1>6, <1>9, <2>1, WholeStays
<1> QED
  BY <1>10, <1>11, <1>12, <1>14, <1>15, <1>16, <1>17, <1>18, <1>19, <1>20, <1>21, <1>22, <1>23
  DEF IInv

\* What RPUSH does.
LEMMA CachedFacts ==
  ASSUME Types, PushesAreStored, NEW rows \in Seq(Rows), \A n \in 1 .. Len(rows) : rows[n] \in db,
         db' = db, Cached(rows)
  PROVE  /\ cache' \in Seq(Rows) /\ CacheIsStored'
         /\ gaps' \in Nat /\ (gaps' = gaps \/ gaps' = gaps + 1)
         /\ gaps' = 0 => gaps = 0 /\ cache' = cache \o rows
<1>1. cache \in Seq(Rows) /\ gaps \in Nat  BY DEF Types
<1>2. \A n \in 1 .. Len(cache) : cache[n] \in db  BY DEF PushesAreStored, CacheIsStored
<1>3. CASE cache' = cache \o rows /\ gaps' = gaps
  <2>1. cache' \in Seq(Rows)  BY <1>1, <1>3
  <2>2. \A n \in 1 .. Len(cache') : cache'[n] \in db'
    <3>1. Len(cache') = Len(cache) + Len(rows)  BY <1>1, <1>3
    <3>2. Len(cache) \in Nat /\ Len(rows) \in Nat  BY <1>1
    <3> SUFFICES ASSUME NEW n \in 1 .. Len(cache') PROVE cache'[n] \in db
      OBVIOUS
    <3>3. CASE n <= Len(cache)
      <4>1. n \in 1 .. Len(cache) /\ cache'[n] = cache[n]  BY <1>1, <1>3, <3>1, <3>2, <3>3
      <4> QED  BY <1>2, <4>1
    <3>4. CASE ~ (n <= Len(cache))
      <4>1. n - Len(cache) \in 1 .. Len(rows) /\ cache'[n] = rows[n - Len(cache)]
        BY <1>1, <1>3, <3>1, <3>2, <3>4
      <4> QED  BY <4>1
    <3> QED  BY <3>3, <3>4
  <2> QED  BY <1>1, <1>3, <2>1, <2>2 DEF CacheIsStored
<1>4. CASE cache' = cache /\ gaps' = gaps + 1
  <2>1. CacheIsStored'  BY <1>2, <1>4 DEF CacheIsStored
  <2> QED  BY <1>1, <1>4, <2>1
<1> QED  BY <1>3, <1>4 DEF Cached

\* Fill keeps the invariant.
LEMMA FillStep ==
  ASSUME IInv, NEW p \in Requests, Fill(p)
  PROVE  IInv'
<1>0. /\ Types /\ LocalsFit /\ PushesAreStored /\ RefusalNeedsRace /\ CacheIsWhole
      /\ HistoryIsWhole
  BY DEF IInv
<1> DEFINE r == [req[p] EXCEPT !.fill = <<>>, !.pc = "seq"]
<1>1. /\ db' = db /\ ctr' = ctr /\ losses' = losses /\ overlapped' = overlapped
      /\ raced' = raced /\ refused' = refused /\ misled' = misled /\ req[p].pc = "fill"
  BY DEF Fill
<1>2. req[p] \in RequestRecords  BY <1>0 DEF Types
<1>3. r \in RequestRecords
  <2>1. <<>> \in Seq(Rows)  OBVIOUS
  <2> QED  BY <1>2, <2>1 DEF RequestRecords, Working, ChatSteps
<1>4. r.pc = "seq" /\ r.stage = req[p].stage /\ r.turn = req[p].turn /\ r.fill = <<>>
  BY <1>2 DEF RequestRecords
<1>5. Set(p, r)  BY DEF Fill
<1> HIDE DEF r
<1>6. req' \in [Requests -> RequestRecords] /\ req'[p] = r /\ Others(p)
  BY <1>0, <1>3, <1>5, ReqIsSet
<1>7. req[p].stage = "exists"  BY <1>0, <1>1 DEF LocalsFit, AllocSteps
<1>8. Loads(p)  BY <1>1, <1>4, <1>6, <1>7 DEF Loads
<1>9. req[p].pc \in Working  BY <1>1 DEF Working, ChatSteps
<1>10. Quiet(p)  BY <1>1, <1>6, <1>8, <1>9 DEF Quiet, Active
<1>11. req'[p].pc \notin PushSteps  BY <1>4, <1>6 DEF PushSteps
<1>12. /\ cache' \in Seq(Rows) /\ CacheIsStored'
       /\ gaps' \in Nat /\ (gaps' = gaps \/ gaps' = gaps + 1)
       /\ gaps' = 0 => gaps = 0
  <2>1. req[p].fill \in Seq(Rows)  BY <1>2, RecordTypes
  <2>2. \A n \in 1 .. Len(req[p].fill) : req[p].fill[n] \in db  BY <1>0 DEF PushesAreStored
  <2>3. Cached(req[p].fill)  BY DEF Fill
  <2> QED  BY <1>0, <1>1, <2>1, <2>2, <2>3, CachedFacts
<1>13. Types'  BY <1>0, <1>1, <1>6, <1>12 DEF Types
<1>14. Undisturbed' = Undisturbed  BY <1>1 DEF Undisturbed
<1>15. CacheIsWhole'
  <2>1. ~ (Undisturbed /\ gaps = 0)  BY <1>0, <1>1 DEF CacheIsWhole
  <2>2. ~ (Undisturbed' /\ gaps' = 0)  BY <1>12, <1>14, <2>1
  <2> QED  BY <2>2 DEF CacheIsWhole
<1>16. PushesAreStored'
  <2>1. \A n \in 1 .. Len(req'[p].fill) : req'[p].fill[n] \in db'  BY <1>4, <1>6
  <2> QED  BY <1>0, <1>1, <1>6, <1>11, <1>12, <2>1, PushesStay
<1>17. RefusalNeedsRace' /\ HistoryIsWhole'  BY <1>0, <1>1, <1>12, <1>14, FlagsStay
<1> QED  BY <1>10, <1>13, <1>15, <1>16, <1>17, QuietSuffices

\* Refused keeps the invariant: while all is well no row is taken.
LEMMA RefusedStep ==
  ASSUME IInv, NEW p \in Requests, Refused(p)
  PROVE  IInv'
<1>0. /\ Types /\ LocalsFit /\ PushesAreStored /\ RefusalNeedsRace /\ CacheIsWhole
      /\ HistoryIsWhole /\ NumbersAreFresh
  BY DEF IInv
<1> DEFINE r == IF req[p].pc = "roundCreate" THEN Advance(req[p]) ELSE Gone
<1>1. /\ db' = db /\ ctr' = ctr /\ cache' = cache /\ losses' = losses /\ gaps' = gaps
      /\ overlapped' = overlapped /\ raced' = raced /\ refused' = TRUE /\ misled' = misled
      /\ req[p].pc \in {"create", "roundCreate", "abortCreate"}
  BY DEF Refused, store
<1>2. req[p] \in RequestRecords  BY <1>0 DEF Types
<1>3. /\ r \in RequestRecords
      /\ \/ r = Gone
         \/ /\ req[p].pc = "roundCreate" /\ r.pc = "round" /\ r.stage = "exists"
            /\ r.turn = req[p].turn /\ r.fill = req[p].fill
  BY <1>2, AdvanceFacts, GoneFacts
<1>4. Set(p, r)  BY DEF Refused
<1> HIDE DEF r
<1>5. req' \in [Requests -> RequestRecords] /\ req'[p] = r /\ Others(p)
  BY <1>0, <1>3, <1>4, ReqIsSet
<1>6. r = Gone \/ Continues(p)  BY <1>3, <1>5 DEF Continues, Started, RunSteps
<1>7. req[p].pc \in Working /\ req[p].pc \notin PushSteps
  BY <1>1, StepNames DEF CreateSteps
<1>8. Quiet(p)  BY <1>1, <1>5, <1>6, <1>7 DEF Quiet, Active
<1>9. /\ r.pc \notin PushSteps \cup {"fill"}
      /\ r.fill = req[p].fill \/ r.fill = <<>>
  BY <1>3, GoneFacts DEF PushSteps
<1>10. Types'  BY <1>0, <1>1, <1>5 DEF Types
<1>11. Undisturbed' = Undisturbed  BY <1>1 DEF Undisturbed
<1>12. RefusalNeedsRace'
  <2> SUFFICES ASSUME Undisturbed PROVE FALSE
    BY <1>0, <1>1, <1>11 DEF RefusalNeedsRace, Undisturbed
  <2>1. PICK x \in db : x.turn = req[p].turn /\ x.seq = req[p].seq  BY DEF Refused, Taken
  <2>2. x.turn \in Nat /\ x.seq \in Nat  BY <1>0, RowTypes DEF Types
  <2>3. req[p].pc = "create" => x.turn < req[p].turn  BY <1>0 DEF NumbersAreFresh
  <2>4. req[p].pc \in {"roundCreate", "abortCreate"} => x.seq < req[p].seq
    BY <1>0, <2>1 DEF NumbersAreFresh
  <2> QED  BY <1>1, <2>1, <2>2, <2>3, <2>4
<1>13. HistoryIsWhole'  BY <1>0, <1>1 DEF HistoryIsWhole
<1>14. CacheIsWhole'  BY <1>0, <1>1, <1>5, <1>7, <1>9, <1>11, WholeStays
<1>15. PushesAreStored'
  <2>1. CacheIsStored' /\ db' = db  BY <1>0, <1>1, CacheStays
  <2>2. \A n \in 1 .. Len(req'[p].fill) : req'[p].fill[n] \in db'
    BY <1>0, <1>5, <1>9, <2>1 DEF PushesAreStored
  <2> QED  BY <1>0, <1>5, <1>9, <2>1, <2>2, PushesStay
<1> QED  BY <1>8, <1>10, <1>12, <1>13, <1>14, <1>15, QuietSuffices

\* Push keeps the invariant: it brings the cache up to the table.
LEMMA PushStep ==
  ASSUME IInv, NEW p \in Requests, Push(p)
  PROVE  IInv'
<1>0. /\ Types /\ LocalsFit /\ PushesAreStored /\ RefusalNeedsRace /\ CacheIsWhole
      /\ HistoryIsWhole /\ OneAtWork
  BY DEF IInv
<1>1. /\ db' = db /\ ctr' = ctr /\ losses' = losses /\ overlapped' = overlapped
      /\ raced' = raced /\ refused' = refused /\ misled' = misled
      /\ req[p].pc \in PushSteps
  BY DEF Push, PushSteps
<1>2. req[p] \in RequestRecords  BY <1>0 DEF Types
<1>3. PICK r \in RequestRecords :
        /\ Set(p, r)
        /\ \/ r = Gone
           \/ /\ req[p].pc \in {"push", "roundPush"} /\ r.pc = "round" /\ r.stage = "exists"
              /\ r.turn = req[p].turn /\ r.fill = req[p].fill
  <2>1. CASE req[p].pc = "push"
    <3> DEFINE s == [req[p] EXCEPT !.pc = "round"]
    <3>1. s \in RequestRecords  BY <1>2 DEF RequestRecords, Working, RunSteps
    <3>2. /\ s.pc = "round" /\ s.stage = req[p].stage /\ s.turn = req[p].turn
          /\ s.fill = req[p].fill
      BY <1>2 DEF RequestRecords
    <3>3. Set(p, s)  BY <2>1 DEF Push
    <3>4. req[p].stage = "exists"  BY <1>0, <2>1 DEF LocalsFit, AllocSteps
    <3> HIDE DEF s
    <3> QED  BY <2>1, <3>1, <3>2, <3>3, <3>4
  <2>2. CASE req[p].pc = "roundPush"
    <3>1. Set(p, Advance(req[p]))  BY <2>2 DEF Push
    <3> QED  BY <1>2, <2>2, <3>1, AdvanceFacts
  <2>3. CASE req[p].pc = "abortPush"
    <3>1. Set(p, Gone)  BY <2>3 DEF Push
    <3> QED  BY <3>1, GoneFacts
  <2> QED  BY <1>1, <2>1, <2>2, <2>3 DEF PushSteps
<1>4. req' \in [Requests -> RequestRecords] /\ req'[p] = r /\ Others(p)
  BY <1>0, <1>3, ReqIsSet
<1>5. r = Gone \/ Continues(p)  BY <1>3, <1>4 DEF Continues, Started, RunSteps
<1>6. req[p].pc \in Working  BY <1>1, StepNames
<1>7. Quiet(p)  BY <1>1, <1>4, <1>5, <1>6 DEF Quiet, Active
<1>8. /\ r.pc \notin PushSteps \cup {"fill"}
      /\ r.fill = req[p].fill \/ r.fill = <<>>
  BY <1>3, GoneFacts DEF PushSteps
<1>9. RowOf(p) \in db /\ RowOf(p) \in Rows
  BY <1>0, <1>1 DEF PushesAreStored, Types
<1>10. /\ cache' \in Seq(Rows) /\ CacheIsStored'
       /\ gaps' \in Nat /\ (gaps' = gaps \/ gaps' = gaps + 1)
       /\ gaps' = 0 => gaps = 0 /\ cache' = cache \o <<RowOf(p)>>
  <2>1. /\ <<RowOf(p)>> \in Seq(Rows)
        /\ \A n \in 1 .. Len(<<RowOf(p)>>) : <<RowOf(p)>>[n] \in db
    BY <1>9
  <2>2. Cached(<<RowOf(p)>>)  BY DEF Push
  <2> QED  BY <1>0, <1>1, <2>1, <2>2, CachedFacts
<1>11. Types'  BY <1>0, <1>1, <1>4, <1>10 DEF Types
<1>12. Undisturbed' = Undisturbed  BY <1>1 DEF Undisturbed
<1>13. CacheIsWhole'
  <2> SUFFICES ASSUME Undisturbed, gaps = 0, cache' = cache \o <<RowOf(p)>>
               PROVE
      /\ \A q \in Requests : req'[q].pc # "fill" /\ req'[q].pc \notin PushSteps
      /\ cache' = Listed'
    BY <1>10, <1>12 DEF CacheIsWhole
  <2>1. \A q \in Requests : q # p => req'[q] = req[q]  BY <1>4 DEF Others
  <2>2. \A q \in Requests : q # p => req[q].pc \notin Working
    BY <1>0, <1>6 DEF OneAtWork, Active, Undisturbed
  <2>3. \A q \in Requests : req'[q].pc \notin PushSteps
    BY <1>4, <1>8, <2>1, <2>2, StepNames
  <2>4. \A q \in Requests : req'[q].pc # "fill"
    BY <1>0, <1>4, <1>8, <2>1 DEF CacheIsWhole
  <2>5. Listed = Append(cache, RowOf(p))  BY <1>0, <1>1 DEF CacheIsWhole
  <2>6. Append(cache, RowOf(p)) = cache \o <<RowOf(p)>>
    <3>1. cache \in Seq(Rows)  BY <1>0 DEF Types
    <3> QED  BY <1>9, <3>1
  <2>7. Listed' = Listed  BY <1>1 DEF Listed
  <2> QED  BY <2>3, <2>4, <2>5, <2>6, <2>7
<1>14. PushesAreStored'
  <2>1. \A n \in 1 .. Len(req'[p].fill) : req'[p].fill[n] \in db'
    BY <1>0, <1>1, <1>4, <1>8 DEF PushesAreStored
  <2> QED  BY <1>0, <1>1, <1>4, <1>8, <1>10, <2>1, PushesStay
<1>15. RefusalNeedsRace' /\ HistoryIsWhole'  BY <1>0, <1>1, <1>10, <1>12, FlagsStay
<1> QED  BY <1>7, <1>11, <1>13, <1>14, <1>15, QuietSuffices

\* Stop keeps the invariant: a push that does not happen counts as a gap.
LEMMA StopStep ==
  ASSUME IInv, NEW p \in Requests, Stop(p)
  PROVE  IInv'
<1>0. /\ Types /\ PushesAreStored /\ RefusalNeedsRace /\ CacheIsWhole /\ HistoryIsWhole
  BY DEF IInv
<1>1. /\ db' = db /\ ctr' = ctr /\ cache' = cache /\ losses' = losses /\ misled' = misled
      /\ overlapped' = overlapped /\ raced' = raced /\ refused' = refused
      /\ req[p].pc \in Working
      /\ IF req[p].pc \in PushSteps THEN gaps' = gaps + 1 ELSE gaps' = gaps
  BY DEF Stop, store, Active, PushSteps
<1>2. Set(p, Gone)  BY DEF Stop
<1>3. req' \in [Requests -> RequestRecords] /\ req'[p] = Gone /\ Others(p)
  BY <1>0, <1>2, GoneFacts, ReqIsSet
<1>4. Quiet(p)  BY <1>1, <1>3 DEF Quiet, Active
<1>5. req'[p].pc \notin PushSteps \cup {"fill"} /\ req'[p].fill = <<>>
  BY <1>3, GoneFacts DEF PushSteps
<1>6. gaps \in Nat /\ gaps' \in Nat /\ (gaps' = gaps \/ gaps' = gaps + 1)
  BY <1>0, <1>1 DEF Types
<1>7. Types'  BY <1>0, <1>1, <1>3, <1>6 DEF Types
<1>8. Undisturbed' = Undisturbed  BY <1>1 DEF Undisturbed
<1>9. CacheIsWhole'
  <2>1. CASE req[p].pc \in PushSteps
    <3>1. gaps' # 0  BY <1>1, <1>6, <2>1
    <3> QED  BY <3>1 DEF CacheIsWhole
  <2>2. CASE req[p].pc \notin PushSteps
    <3>1. gaps' = gaps  BY <1>1, <2>2
    <3> QED  BY <1>0, <1>1, <1>3, <1>5, <1>8, <2>2, <3>1, WholeStays
  <2> QED  BY <2>1, <2>2
<1>10. PushesAreStored'
  <2>1. CacheIsStored'  BY <1>0, <1>1, CacheStays
  <2> QED  BY <1>0, <1>1, <1>3, <1>5, <2>1, PushesStay
<1>11. RefusalNeedsRace' /\ HistoryIsWhole'  BY <1>0, <1>1, <1>6, <1>8, FlagsStay
<1> QED  BY <1>4, <1>7, <1>9, <1>10, <1>11, QuietSuffices

\* The lapse of the cache keeps the invariant: it counts as a gap.
LEMMA CacheLapsesStep ==
  ASSUME IInv, CacheLapses
  PROVE  IInv'
<1>0. /\ Types /\ LocalsFit /\ TurnsFit /\ RowsDiffer /\ StartedIsStored /\ TurnIdsDiffer
      /\ PushesAreStored /\ OneAtWork /\ CountersCover /\ PendingAreCovered /\ StagesHold
      /\ NumbersAreFresh /\ RefusalNeedsRace /\ NumbersFollowTurns /\ HistoryIsWhole
  BY DEF IInv
<1>1. /\ db' = db /\ ctr' = ctr /\ req' = req /\ losses' = losses /\ misled' = misled
      /\ overlapped' = overlapped /\ raced' = raced /\ refused' = refused
      /\ cache' = <<>> /\ gaps' = gaps + 1
  BY DEF CacheLapses
<1>2. gaps \in Nat /\ gaps' \in Nat /\ gaps' # 0  BY <1>0, <1>1 DEF Types
<1>3. cache' \in Seq(Rows) /\ Len(cache') = 0  BY <1>1
<1>4. Types'  BY <1>0, <1>1, <1>2, <1>3 DEF Types
<1>5. LocalsFit' /\ TurnsFit' /\ RowsDiffer' /\ StartedIsStored'
  BY <1>0, <1>1 DEF LocalsFit, TurnsFit, Numbered, RowsDiffer, StartedIsStored
<1>6. TurnIdsDiffer' /\ OneAtWork'  BY <1>0, <1>1 DEF TurnIdsDiffer, OneAtWork, Active
<1>7. PushesAreStored'
  <2>1. CacheIsStored'  BY <1>3 DEF CacheIsStored
  <2> QED  BY <1>0, <1>1, <2>1 DEF PushesAreStored, RowOf
<1>8. CountersCover' /\ PendingAreCovered' /\ NumbersAreFresh'
  BY <1>0, <1>1 DEF CountersCover, PendingAreCovered, NumbersAreFresh, Undisturbed, TurnsUpTo,
                    NumbersUpTo, PlacesUpTo
<1>9. StagesHold'
  BY <1>0, <1>1 DEF StagesHold, Undisturbed, Covers, Key, TurnsUpTo, NumbersUpTo, PlacesUpTo
<1>10. RefusalNeedsRace' /\ HistoryIsWhole' /\ NumbersFollowTurns'
  BY <1>0, <1>1, <1>2 DEF RefusalNeedsRace, HistoryIsWhole, NumbersFollowTurns
<1>11. CacheIsWhole'  BY <1>2 DEF CacheIsWhole
<1> QED  BY <1>4, <1>5, <1>6, <1>7, <1>8, <1>9, <1>10, <1>11 DEF IInv

\* The loss of a counter keeps the invariant: what is not lost between EXISTS and INCR
\* is set anew from the table.
LEMMA LoseCounterStep ==
  ASSUME IInv, LoseCounter
  PROVE  IInv'
<1>0. /\ Types /\ LocalsFit /\ TurnsFit /\ RowsDiffer /\ StartedIsStored /\ TurnIdsDiffer
      /\ PushesAreStored /\ OneAtWork /\ CountersCover /\ PendingAreCovered /\ StagesHold
      /\ NumbersAreFresh /\ RefusalNeedsRace /\ NumbersFollowTurns /\ HistoryIsWhole
      /\ CacheIsWhole
  BY DEF IInv
<1>1. /\ db' = db /\ cache' = cache /\ req' = req /\ losses' = losses + 1 /\ misled' = misled
      /\ overlapped' = overlapped /\ refused' = refused /\ gaps' = gaps
  BY DEF LoseCounter
<1>2. PICK key \in Keys :
        /\ ctr' = [ctr EXCEPT ![key] = 0]
        /\ raced' = (raced \/ \E p \in Requests :
                      Allocating(p) /\ Key(p) = key /\ req[p].stage = "incr")
  BY DEF LoseCounter
<1>3. raced' \in BOOLEAN /\ losses' \in Nat /\ ctr' \in [Keys -> Nat]
  BY <1>0, <1>1, <1>2 DEF Types
<1>4. Types'  BY <1>0, <1>1, <1>3 DEF Types
<1>5. Undisturbed' => Undisturbed /\ \A p \in Requests :
                        ~ (Allocating(p) /\ Key(p) = key /\ req[p].stage = "incr")
  BY <1>0, <1>1, <1>2 DEF Undisturbed, Types
<1>6. \A k \in Keys : ctr'[k] = (IF k = key THEN 0 ELSE ctr[k]) /\ ctr[k] \in Nat
  BY <1>0, <1>2 DEF Types
<1>7. TurnsFit'
  <2>1. Numbered' = Numbered  BY <1>1 DEF Numbered
  <2>2. Cardinality(Numbered) \in Nat
    <3>1. Numbered \in SUBSET Requests  BY DEF Numbered
    <3> QED  BY <3>1, SizeFacts
  <2>3. ctr'[TurnsKey] <= Cardinality(Numbered)
    BY <1>0, <1>6, <2>2, KeyFacts DEF TurnsFit
  <2> QED  BY <1>0, <1>1, <2>1, <2>3 DEF TurnsFit
<1>8. LocalsFit' /\ RowsDiffer' /\ StartedIsStored' /\ TurnIdsDiffer' /\ OneAtWork'
  BY <1>0, <1>1 DEF LocalsFit, RowsDiffer, StartedIsStored, TurnIdsDiffer, OneAtWork, Active
<1>9. PushesAreStored'
  <2>1. CacheIsStored'  BY <1>0, <1>1, CacheStays
  <2> QED  BY <1>0, <1>1, <2>1 DEF PushesAreStored, RowOf
<1>10. CountersCover'
  <2>1. \A k \in Keys : ctr'[k] # 0 => ctr'[k] = ctr[k]  BY <1>6
  <2> QED
    BY <1>0, <1>1, <1>5, <2>1, KeyFacts
    DEF CountersCover, TurnsUpTo, NumbersUpTo, PlacesUpTo
<1>11. PendingAreCovered'
  <2> SUFFICES ASSUME Undisturbed, NEW q \in Requests
               PROVE
      /\ req[q].pc \in Working \ {"turn"} /\ ctr'[TurnsKey] # 0 => req[q].turn <= ctr'[TurnsKey]
      /\ req[q].pc \in {"create", "roundCreate"} /\ ctr'[MsgsKey] # 0 =>
           req[q].gseq <= ctr'[MsgsKey]
      /\ req[q].pc \in {"roundSeq", "roundCreate", "abortCreate"}
           /\ ctr'[SeqKey(req[q].turn)] # 0 => req[q].seq <= ctr'[SeqKey(req[q].turn)]
    BY <1>1, <1>5 DEF PendingAreCovered
  <2>1. \A k \in Keys : ctr'[k] # 0 => ctr'[k] = ctr[k]  BY <1>6
  <2>2. req[q].pc \in {"roundSeq", "roundCreate", "abortCreate"} =>
          SeqKey(req[q].turn) \in Keys
    <3>1. req[q] \in RequestRecords  BY <1>0 DEF Types
    <3>2. req[q].pc \in {"roundSeq", "roundCreate", "abortCreate"} =>
            req[q].turn \in 1 .. MaxTurn
      BY <1>0, <3>1, RecordTypes, SizeFacts DEF LocalsFit
    <3> QED  BY <3>2, KeyFacts
  <2> QED  BY <1>0, <2>1, <2>2, KeyFacts DEF PendingAreCovered
<1>12. StagesHold'
  <2> SUFFICES ASSUME Undisturbed', NEW q \in Requests, req[q].pc \in AllocSteps
               PROVE  /\ req[q].stage = "incr" => ctr'[Key(q)'] # 0
                      /\ req[q].stage = "init" => Covers(req[q], req[q].wm)'
    BY <1>1 DEF StagesHold
  <2>1. Key(q)' = Key(q)  BY <1>1 DEF Key
  <2>2. Covers(req[q], req[q].wm)' <=> Covers(req[q], req[q].wm)
    BY <1>1 DEF Covers, TurnsUpTo, NumbersUpTo, PlacesUpTo
  <2>3. Allocating(q)  BY DEF Allocating, AllocSteps
  <2>4. Key(q) \in Keys  BY <1>0, <2>3, KeyOfRequest
  <2>5. req[q].stage = "incr" => ctr'[Key(q)] # 0
    BY <1>0, <1>5, <1>6, <2>3, <2>4 DEF StagesHold
  <2> QED  BY <1>0, <1>5, <2>1, <2>2, <2>5 DEF StagesHold
<1>13. NumbersAreFresh' /\ NumbersFollowTurns'
  BY <1>0, <1>1, <1>5 DEF NumbersAreFresh, NumbersFollowTurns, TurnsUpTo, Undisturbed
<1>14. RefusalNeedsRace' /\ HistoryIsWhole'  BY <1>0, <1>1, <1>5, FlagsStay
<1>15. CacheIsWhole'
  <2>1. Listed' = Listed  BY <1>1 DEF Listed
  <2>2. \A q \in Requests : RowOf(q)' = RowOf(q)  BY <1>1 DEF RowOf
  <2> QED  BY <1>0, <1>1, <1>5, <2>1, <2>2 DEF CacheIsWhole
<1> QED
  BY <1>4, <1>7, <1>8, <1>9, <1>10, <1>11, <1>12, <1>13, <1>14, <1>15 DEF IInv

\* A step that changes nothing keeps the invariant.
LEMMA StutterStep ==
  ASSUME IInv, UNCHANGED vars
  PROVE  IInv'
<1>0. /\ Types /\ LocalsFit /\ TurnsFit /\ RowsDiffer /\ StartedIsStored /\ TurnIdsDiffer
      /\ PushesAreStored /\ OneAtWork /\ CountersCover /\ PendingAreCovered /\ StagesHold
      /\ NumbersAreFresh /\ RefusalNeedsRace /\ NumbersFollowTurns /\ HistoryIsWhole
      /\ CacheIsWhole
  BY DEF IInv
<1>1. /\ db' = db /\ ctr' = ctr /\ cache' = cache /\ req' = req /\ losses' = losses
      /\ misled' = misled /\ overlapped' = overlapped /\ refused' = refused /\ gaps' = gaps
      /\ raced' = raced
  BY DEF vars, store, hist
<1>2. Types'  BY <1>0, <1>1 DEF Types
<1>3. LocalsFit' /\ TurnsFit' /\ RowsDiffer' /\ StartedIsStored'
  BY <1>0, <1>1 DEF LocalsFit, TurnsFit, Numbered, RowsDiffer, StartedIsStored
<1>4. TurnIdsDiffer' /\ OneAtWork'  BY <1>0, <1>1 DEF TurnIdsDiffer, OneAtWork, Active
<1>5. PushesAreStored'
  <2>1. CacheIsStored'  BY <1>0, <1>1, CacheStays
  <2> QED  BY <1>0, <1>1, <2>1 DEF PushesAreStored, RowOf
<1>6. CountersCover' /\ PendingAreCovered' /\ NumbersAreFresh'
  BY <1>0, <1>1 DEF CountersCover, PendingAreCovered, NumbersAreFresh, Undisturbed, TurnsUpTo,
                    NumbersUpTo, PlacesUpTo
<1>7. StagesHold'
  BY <1>0, <1>1 DEF StagesHold, Undisturbed, Covers, Key, TurnsUpTo, NumbersUpTo, PlacesUpTo
<1>8. RefusalNeedsRace' /\ HistoryIsWhole' /\ NumbersFollowTurns'
  BY <1>0, <1>1 DEF RefusalNeedsRace, HistoryIsWhole, NumbersFollowTurns
<1>9. CacheIsWhole'
  <2>1. Listed' = Listed  BY <1>1 DEF Listed
  <2>2. \A q \in Requests : RowOf(q)' = RowOf(q)  BY <1>1 DEF RowOf
  <2> QED  BY <1>0, <1>1, <2>1, <2>2 DEF CacheIsWhole, Undisturbed
<1> QED  BY <1>2, <1>3, <1>4, <1>5, <1>6, <1>7, <1>8, <1>9 DEF IInv

\* The invariant holds at first.
LEMMA InitIsSound == Init => IInv
<1> SUFFICES ASSUME Init PROVE IInv
  OBVIOUS
<1>1. /\ db = {} /\ cache = <<>> /\ ctr = [key \in Keys |-> 0]
      /\ req = [p \in Requests |-> Fresh] /\ losses = 0 /\ overlapped = FALSE /\ gaps = 0
      /\ raced = FALSE /\ refused = FALSE /\ misled = FALSE
  BY DEF Init
<1>2. /\ Fresh \in RequestRecords /\ Fresh.pc = "idle" /\ Fresh.stage = "exists"
      /\ Fresh.wm = 0 /\ Fresh.turn = 0 /\ Fresh.fill = <<>>
  <2>1. 0 \in 0 .. MaxTurn /\ 0 \in 0 .. MaxMsgs /\ 0 \in Nat /\ <<>> \in Seq(Rows)
    BY SizeFacts, LogAssumption
  <2> QED  BY <2>1 DEF Fresh, RequestRecords
<1>3. \A p \in Requests : req[p] = Fresh  BY <1>1
<1>4. Keyed(db)  BY <1>1, FS_EmptySet DEF Keyed
<1>5. Types
  <2>1. db \subseteq Rows /\ IsFiniteSet(db)  BY <1>4 DEF Keyed
  <2>2. ctr \in [Keys -> Nat] /\ req \in [Requests -> RequestRecords]  BY <1>1, <1>2
  <2>3. cache \in Seq(Rows) /\ losses \in Nat /\ gaps \in Nat  BY <1>1
  <2> QED  BY <1>1, <2>1, <2>2, <2>3 DEF Types
<1>6. LocalsFit  BY <1>2, <1>3 DEF LocalsFit, PushSteps
<1>7. TurnsFit
  <2>1. Cardinality(Numbered) \in Nat
    <3>1. Numbered \in SUBSET Requests  BY DEF Numbered
    <3> QED  BY <3>1, SizeFacts
  <2>2. ctr[TurnsKey] = 0  BY <1>1, KeyFacts
  <2> QED  BY <1>1, <1>2, <1>3, <2>1, <2>2 DEF TurnsFit
<1>8. RowsDiffer /\ NumbersFollowTurns  BY <1>1 DEF RowsDiffer, NumbersFollowTurns
<1>9. \A p \in Requests : req[p].pc \notin Started \cup Working \cup PushSteps
  BY <1>2, <1>3, StepNames
<1>10. StartedIsStored /\ TurnIdsDiffer /\ OneAtWork
  BY <1>9 DEF StartedIsStored, TurnIdsDiffer, OneAtWork, Active, Started
<1>11. PushesAreStored
  BY <1>1, <1>2, <1>3, <1>9 DEF PushesAreStored, CacheIsStored
<1>12. CountersCover
  BY <1>1 DEF CountersCover, TurnsUpTo, NumbersUpTo, PlacesUpTo
<1>13. PendingAreCovered
  BY <1>2, <1>3, <1>9 DEF PendingAreCovered
<1>14. StagesHold
  BY <1>9, StepNames DEF StagesHold
<1>15. NumbersAreFresh
  BY <1>1 DEF NumbersAreFresh, TurnsUpTo
<1>16. RefusalNeedsRace /\ HistoryIsWhole  BY <1>1 DEF RefusalNeedsRace, HistoryIsWhole
<1>17. CacheIsWhole
  <2>1. /\ Sorted(db) \in Seq(db) /\ Len(Sorted(db)) = Cardinality(db)
    BY <1>4, SortedFacts
  <2>2. Cardinality(db) = 0  BY <1>1, FS_EmptySet
  <2>3. Listed = <<>>  BY <2>1, <2>2 DEF Listed
  <2> QED  BY <1>1, <1>2, <1>3, <1>9, <2>3 DEF CacheIsWhole
<1> QED
  BY <1>5, <1>6, <1>7, <1>8, <1>10, <1>11, <1>12, <1>13, <1>14, <1>15, <1>16, <1>17 DEF IInv

\* What a request does with the number it got.
LEMMA IncrementFacts ==
  ASSUME IInv, NEW p \in Requests, Increment(p)
  PROVE  \E n \in Nat \ {0} :
    /\ ctr' = [ctr EXCEPT ![Key(p)] = n] /\ ctr[Key(p)] < n
    /\ Undisturbed => \A m \in Nat : m + 1 = n => Covers(req[p], m)
    /\ req' \in [Requests -> RequestRecords] /\ Others(p)
    /\ req'[p].stage = "exists" /\ req'[p].fill = req[p].fill
    /\ \/ /\ req[p].pc = "turn" /\ req'[p].pc = "load" /\ req'[p].turn = n
          /\ n <= Cardinality(Numbered) + 1
       \/ /\ req[p].pc = "seq" /\ req'[p].pc = "create" /\ req'[p].turn = req[p].turn
          /\ req'[p].seq = 1 /\ req'[p].gseq = n
       \/ /\ req[p].pc = "round" /\ req'[p].pc = "roundSeq" /\ req'[p].turn = req[p].turn
          /\ req'[p].seq = n
       \/ /\ req[p].pc = "roundSeq" /\ req'[p].pc = "roundCreate"
          /\ req'[p].turn = req[p].turn /\ req'[p].seq = req[p].seq /\ req'[p].gseq = n
       \/ /\ req[p].pc = "abort" /\ req'[p].pc = "abortCreate" /\ req'[p].turn = req[p].turn
          /\ req'[p].seq = n /\ req'[p].gseq = 0
<1>0. Types /\ LocalsFit /\ TurnsFit /\ CountersCover /\ StagesHold  BY DEF IInv
<1>1. req[p] \in RequestRecords /\ Allocating(p)  BY <1>0 DEF Types, Increment
<1>2. /\ Key(p) \in Keys /\ ctr[Key(p)] \in Nat /\ req[p].pc \in AllocSteps
      /\ req[p].pc = "turn" => Key(p) = TurnsKey
      /\ req[p].pc \in {"seq", "roundSeq"} => Key(p) = MsgsKey
      /\ req[p].pc \in {"round", "abort"} =>
           Key(p) = SeqKey(req[p].turn) /\ req[p].turn \in 1 .. MaxTurn
  BY <1>0, <1>1, KeyOfRequest
<1> DEFINE base == IF req[p].stage = "init" /\ ctr[Key(p)] = 0 THEN req[p].wm ELSE ctr[Key(p)]
<1>3. base \in Nat /\ ctr[Key(p)] <= base  BY <1>1, <1>2, RecordTypes
<1>4. /\ ctr' = [ctr EXCEPT ![Key(p)] = base + 1]
      /\ Set(p, [Assigned(req[p], base + 1) EXCEPT !.stage = "exists", !.wm = 0])
      /\ req[p].stage \in {"init", "incr"}
  BY DEF Increment
<1>5. Undisturbed => Covers(req[p], base)
  <2> SUFFICES ASSUME Undisturbed PROVE Covers(req[p], base)
    OBVIOUS
  <2>1. CASE ctr[Key(p)] # 0
    <3>1. Covers(req[p], ctr[Key(p)])
      BY <1>0, <1>2, <2>1 DEF CountersCover, Covers, AllocSteps
    <3> QED  BY <2>1, <3>1
  <2>2. CASE ctr[Key(p)] = 0
    <3>1. req[p].stage = "init"  BY <1>0, <1>2, <1>4, <2>2 DEF StagesHold
    <3>2. Covers(req[p], req[p].wm)  BY <1>0, <1>2, <3>1 DEF StagesHold
    <3> QED  BY <2>2, <3>1, <3>2
  <2> QED  BY <2>1, <2>2
<1>6. req[p].pc = "turn" => base <= Cardinality(Numbered)
  BY <1>0, <1>2 DEF TurnsFit
<1>7. Cardinality(Numbered) \in Nat
      /\ (req[p].pc = "turn" => Cardinality(Numbered) + 1 <= MaxTurn)
  <2>1. Numbered \in SUBSET Requests  BY DEF Numbered
  <2>2. CASE req[p].pc = "turn"
    <3>1. p \in Requests \ Numbered /\ Numbered \cup {p} \in SUBSET Requests
      BY <2>1, <2>2 DEF Numbered
    <3>2. Cardinality(Numbered \cup {p}) = Cardinality(Numbered) + 1
          /\ Cardinality(Numbered \cup {p}) <= MaxTurn
      BY <2>1, <3>1, SizeFacts
    <3> QED  BY <2>1, <3>2, SizeFacts
  <2> QED  BY <2>1, <2>2, SizeFacts
<1> DEFINE n == base + 1
           s == [Assigned(req[p], n) EXCEPT !.stage = "exists", !.wm = 0]
<1>8. n \in Nat \ {0} /\ ctr[Key(p)] < n /\ \A m \in Nat : m + 1 = n => m = base
  BY <1>2, <1>3
<1>9. req[p].pc = "turn" => n \in 0 .. MaxTurn /\ n <= Cardinality(Numbered) + 1
  BY <1>3, <1>6, <1>7, SizeFacts
<1>10. ctr' = [ctr EXCEPT ![Key(p)] = n] /\ Set(p, s)  BY <1>4
<1> HIDE DEF base, n
<1>11. /\ s \in RequestRecords /\ s.stage = "exists" /\ s.fill = req[p].fill
       /\ \/ req[p].pc = "turn" /\ s.pc = "load" /\ s.turn = n
          \/ /\ req[p].pc = "seq" /\ s.pc = "create" /\ s.turn = req[p].turn
             /\ s.seq = 1 /\ s.gseq = n
          \/ req[p].pc = "round" /\ s.pc = "roundSeq" /\ s.turn = req[p].turn /\ s.seq = n
          \/ /\ req[p].pc = "roundSeq" /\ s.pc = "roundCreate" /\ s.turn = req[p].turn
             /\ s.seq = req[p].seq /\ s.gseq = n
          \/ /\ req[p].pc = "abort" /\ s.pc = "abortCreate" /\ s.turn = req[p].turn
             /\ s.seq = n /\ s.gseq = 0
  <2>1. CASE req[p].pc = "turn"
    <3> DEFINE t == [req[p] EXCEPT !.turn = n, !.pc = "load"]
    <3>1. Assigned(req[p], n) = t  BY <2>1 DEF Assigned
    <3>2. t \in RequestRecords  BY <1>1, <1>9, <2>1 DEF RequestRecords, Working, ChatSteps
    <3>3. t.pc = "load" /\ t.turn = n /\ t.fill = req[p].fill  BY <1>1 DEF RequestRecords
    <3> HIDE DEF t
    <3> QED  BY <2>1, <3>1, <3>2, <3>3 DEF RequestRecords
  <2>2. CASE req[p].pc = "seq"
    <3> DEFINE t == [req[p] EXCEPT !.gseq = n, !.seq = 1, !.pc = "create"]
    <3>1. Assigned(req[p], n) = t  BY <2>2 DEF Assigned
    <3>2. t \in RequestRecords  BY <1>1, <1>8 DEF RequestRecords, Working, ChatSteps
    <3>3. /\ t.pc = "create" /\ t.turn = req[p].turn /\ t.seq = 1 /\ t.gseq = n
          /\ t.fill = req[p].fill
      BY <1>1 DEF RequestRecords
    <3> HIDE DEF t
    <3> QED  BY <2>2, <3>1, <3>2, <3>3 DEF RequestRecords
  <2>3. CASE req[p].pc = "round"
    <3> DEFINE t == [req[p] EXCEPT !.seq = n, !.pc = "roundSeq"]
    <3>1. Assigned(req[p], n) = t  BY <2>3 DEF Assigned
    <3>2. t \in RequestRecords  BY <1>1, <1>8 DEF RequestRecords, Working, RunSteps
    <3>3. t.pc = "roundSeq" /\ t.turn = req[p].turn /\ t.seq = n /\ t.fill = req[p].fill
      BY <1>1 DEF RequestRecords
    <3> HIDE DEF t
    <3> QED  BY <2>3, <3>1, <3>2, <3>3 DEF RequestRecords
  <2>4. CASE req[p].pc = "roundSeq"
    <3> DEFINE t == [req[p] EXCEPT !.gseq = n, !.pc = "roundCreate"]
    <3>1. Assigned(req[p], n) = t  BY <2>4 DEF Assigned
    <3>2. t \in RequestRecords  BY <1>1, <1>8 DEF RequestRecords, Working, RunSteps
    <3>3. /\ t.pc = "roundCreate" /\ t.turn = req[p].turn /\ t.seq = req[p].seq
          /\ t.gseq = n /\ t.fill = req[p].fill
      BY <1>1 DEF RequestRecords
    <3> HIDE DEF t
    <3> QED  BY <2>4, <3>1, <3>2, <3>3 DEF RequestRecords
  <2>5. CASE req[p].pc = "abort"
    <3> DEFINE t == [req[p] EXCEPT !.seq = n, !.gseq = 0, !.pc = "abortCreate"]
    <3>1. Assigned(req[p], n) = t  BY <2>5 DEF Assigned
    <3>2. t \in RequestRecords  BY <1>1, <1>8 DEF RequestRecords, Working, AbortSteps
    <3>3. /\ t.pc = "abortCreate" /\ t.turn = req[p].turn /\ t.seq = n /\ t.gseq = 0
          /\ t.fill = req[p].fill
      BY <1>1 DEF RequestRecords
    <3> HIDE DEF t
    <3> QED  BY <2>5, <3>1, <3>2, <3>3 DEF RequestRecords
  <2> QED  BY <1>2, <2>1, <2>2, <2>3, <2>4, <2>5 DEF AllocSteps
<1> HIDE DEF s
<1>12. req' \in [Requests -> RequestRecords] /\ req'[p] = s /\ Others(p)
  BY <1>0, <1>10, <1>11, ReqIsSet
<1>13. Undisturbed => \A m \in Nat : m + 1 = n => Covers(req[p], m)  BY <1>5, <1>8
<1> QED  BY <1>8, <1>9, <1>10, <1>11, <1>12, <1>13

\* Increment keeps the invariant: the number is greater than all the table has.
LEMMA IncrementStep ==
  ASSUME IInv, NEW p \in Requests, Increment(p)
  PROVE  IInv'
<1>0. /\ Types /\ LocalsFit /\ TurnsFit /\ RowsDiffer /\ StartedIsStored /\ TurnIdsDiffer
      /\ PushesAreStored /\ OneAtWork /\ CountersCover /\ PendingAreCovered /\ StagesHold
      /\ NumbersAreFresh /\ RefusalNeedsRace /\ NumbersFollowTurns /\ CacheIsWhole
      /\ HistoryIsWhole
  BY DEF IInv
<1>1. /\ db' = db /\ cache' = cache /\ losses' = losses /\ gaps' = gaps
      /\ overlapped' = overlapped /\ raced' = raced /\ refused' = refused /\ misled' = misled
  BY DEF Increment, hist
<1>2. PICK n \in Nat \ {0} :
    /\ ctr' = [ctr EXCEPT ![Key(p)] = n] /\ ctr[Key(p)] < n
    /\ Undisturbed => \A m \in Nat : m + 1 = n => Covers(req[p], m)
    /\ req' \in [Requests -> RequestRecords] /\ Others(p)
    /\ req'[p].stage = "exists" /\ req'[p].fill = req[p].fill
    /\ \/ /\ req[p].pc = "turn" /\ req'[p].pc = "load" /\ req'[p].turn = n
          /\ n <= Cardinality(Numbered) + 1
       \/ /\ req[p].pc = "seq" /\ req'[p].pc = "create" /\ req'[p].turn = req[p].turn
          /\ req'[p].seq = 1 /\ req'[p].gseq = n
       \/ /\ req[p].pc = "round" /\ req'[p].pc = "roundSeq" /\ req'[p].turn = req[p].turn
          /\ req'[p].seq = n
       \/ /\ req[p].pc = "roundSeq" /\ req'[p].pc = "roundCreate"
          /\ req'[p].turn = req[p].turn /\ req'[p].seq = req[p].seq /\ req'[p].gseq = n
       \/ /\ req[p].pc = "abort" /\ req'[p].pc = "abortCreate" /\ req'[p].turn = req[p].turn
          /\ req'[p].seq = n /\ req'[p].gseq = 0
  BY IncrementFacts
<1>3. Allocating(p)  BY DEF Increment
<1>4. /\ Key(p) \in Keys /\ ctr[Key(p)] \in Nat /\ req[p].pc \in AllocSteps
      /\ req[p].pc = "turn" => Key(p) = TurnsKey
      /\ req[p].pc \in {"seq", "roundSeq"} => Key(p) = MsgsKey
      /\ req[p].pc \in {"round", "abort"} =>
           Key(p) = SeqKey(req[p].turn) /\ req[p].turn \in 1 .. MaxTurn
  BY <1>0, <1>3, KeyOfRequest
<1>5. \A q \in Requests : q # p => req'[q] = req[q]  BY <1>2 DEF Others
<1>6. n \in Nat /\ n # 0 /\ n - 1 \in Nat /\ (n - 1) + 1 = n  BY <1>2
<1>7. Undisturbed => Covers(req[p], n - 1)  BY <1>2, <1>6
<1>8. Undisturbed' = Undisturbed  BY <1>1 DEF Undisturbed
<1>9. \A k \in Keys : /\ ctr'[k] = (IF k = Key(p) THEN n ELSE ctr[k])
                      /\ ctr[k] \in Nat /\ ctr[k] <= ctr'[k]
  BY <1>0, <1>2, <1>4, <1>6 DEF Types
<1>11. req[p].pc \in Working /\ req'[p].pc \in Working
  BY <1>2, <1>4, StepNames DEF Working, ChatSteps, RunSteps, AbortSteps
<1>12. Undisturbed => \A q \in Requests : q # p => req[q].pc \notin Working
  BY <1>0, <1>11 DEF OneAtWork, Active, Undisturbed
<1>13. Types'
  <2>1. ctr' \in [Keys -> Nat]  BY <1>0, <1>2, <1>6 DEF Types
  <2> QED  BY <1>0, <1>1, <1>2, <2>1 DEF Types
<1>14. LocalsFit'
  <2> SUFFICES ASSUME NEW q \in Requests
             PROVE /\ req'[q].pc \notin AllocSteps => req'[q].stage = "exists"
                   /\ req'[q].pc \notin {"idle", "turn", "ended"} => req'[q].turn # 0
                   /\ req'[q].pc = "create" => req'[q].seq = 1
                   /\ req'[q].pc \in {"roundSeq", "roundCreate", "abortCreate"} \cup PushSteps =>
                        req'[q].seq # 0
                   /\ req'[q].pc = "abortCreate" => req'[q].gseq = 0
    BY DEF LocalsFit
  <2>1. CASE q # p  BY <1>0, <1>5, <2>1 DEF LocalsFit
  <2>2. CASE q = p  BY <1>0, <1>2, <2>2 DEF LocalsFit, PushSteps
  <2> QED  BY <2>1, <2>2
<1>15. TurnsFit'
  <2>1. Numbered \in SUBSET Requests /\ Numbered' \in SUBSET Requests  BY DEF Numbered
  <2>2. Numbered \subseteq Numbered' /\ p \in Numbered'
    BY <1>2, <1>5 DEF Numbered
  <2>3. /\ Cardinality(Numbered) \in Nat /\ Cardinality(Numbered') \in Nat
        /\ Cardinality(Numbered) <= Cardinality(Numbered')
    BY <2>1, <2>2, SizeFacts
  <2>4. req[p].pc = "turn" => n <= Cardinality(Numbered')
    <3> SUFFICES ASSUME req[p].pc = "turn" PROVE n <= Cardinality(Numbered')
      OBVIOUS
    <3>1. p \in Requests \ Numbered /\ Numbered \cup {p} \in SUBSET Requests
      BY <2>1 DEF Numbered
    <3>2. Cardinality(Numbered \cup {p}) = Cardinality(Numbered) + 1
      BY <2>1, <3>1, SizeFacts
    <3>3. Cardinality(Numbered \cup {p}) <= Cardinality(Numbered')
      BY <2>1, <2>2, <3>1, SizeFacts
    <3>4. n <= Cardinality(Numbered) + 1  BY <1>2
    <3> QED  BY <1>6, <2>3, <3>2, <3>3, <3>4
  <2>5. ctr'[TurnsKey] <= Cardinality(Numbered')
    <3>1. CASE req[p].pc = "turn"
      <4>1. ctr'[TurnsKey] = n  BY <1>4, <1>9, <3>1
      <4> QED  BY <2>4, <3>1, <4>1
    <3>2. CASE req[p].pc # "turn"
      <4>1. Key(p) # TurnsKey  BY <1>4, <3>2, KeyFacts DEF AllocSteps
      <4>2. ctr'[TurnsKey] = ctr[TurnsKey] /\ ctr[TurnsKey] \in Nat  BY <1>9, <4>1, KeyFacts
      <4> QED  BY <1>0, <2>3, <4>2 DEF TurnsFit
    <3> QED  BY <3>1, <3>2
  <2>6. \A x \in db : x.turn <= Cardinality(Numbered')
    <3>1. \A x \in db : x.turn \in Nat /\ x.turn <= Cardinality(Numbered)
      BY <1>0, RowTypes DEF Types, TurnsFit
    <3> QED  BY <2>3, <3>1
  <2>7. \A q \in Requests : /\ req'[q].turn <= Cardinality(Numbered')
                            /\ req'[q].pc \in {"idle", "turn"} =>
                                 req'[q].wm <= Cardinality(Numbered')
    <3> TAKE q \in Requests
    <3>1. req[q] \in RequestRecords /\ req[p] \in RequestRecords  BY <1>0 DEF Types
    <3>2. req[q].turn \in Nat /\ req[q].wm \in Nat /\ req[p].turn \in Nat
      BY <3>1, RecordTypes
    <3>3. /\ req[q].turn <= Cardinality(Numbered) /\ req[p].turn <= Cardinality(Numbered)
          /\ req[q].pc \in {"idle", "turn"} => req[q].wm <= Cardinality(Numbered)
      BY <1>0 DEF TurnsFit
    <3>4. CASE q # p  BY <1>5, <2>3, <3>2, <3>3, <3>4
    <3>5. CASE q = p
      <4>1. req'[p].pc \notin {"idle", "turn"}  BY <1>2
      <4>2. req'[p].turn <= Cardinality(Numbered')
        BY <1>2, <2>3, <2>4, <3>2, <3>3
      <4> QED  BY <3>5, <4>1, <4>2
    <3> QED  BY <3>4, <3>5
  <2> QED  BY <1>1, <2>5, <2>6, <2>7 DEF TurnsFit
<1>16. RowsDiffer' /\ NumbersFollowTurns'
  BY <1>0, <1>1 DEF RowsDiffer, NumbersFollowTurns
<1>17. \A q \in Requests : req'[q].pc \in Started =>
         req[q].pc \in Started /\ req'[q].turn = req[q].turn
  <2> TAKE q \in Requests
  <2>1. CASE q # p  BY <1>5, <2>1
  <2>2. CASE q = p  BY <1>2, <2>2 DEF Started, RunSteps, AbortSteps
  <2> QED  BY <2>1, <2>2
<1>18. StartedIsStored' /\ TurnIdsDiffer'
  BY <1>0, <1>1, <1>17 DEF StartedIsStored, TurnIdsDiffer, Started
<1>19. req'[p].pc \notin PushSteps /\ req[p].pc \notin PushSteps /\ req'[p].pc # "fill"
  BY <1>2 DEF PushSteps
<1>20. PushesAreStored'
  <2>1. CacheIsStored' /\ db' = db  BY <1>0, <1>1, CacheStays
  <2>2. \A i \in 1 .. Len(req'[p].fill) : req'[p].fill[i] \in db'
    BY <1>0, <1>2, <2>1 DEF PushesAreStored
  <2> QED  BY <1>0, <1>2, <1>19, <2>1, <2>2, PushesStay
<1>21. OneAtWork'
  <2>1. \A q \in Requests : Active(q)' => Active(q)  BY <1>5, <1>11 DEF Active
  <2> QED  BY <1>0, <1>1, <2>1 DEF OneAtWork
<1>23. Undisturbed => /\ req[p].pc = "turn" => \A x \in db : x.turn < n
                      /\ req[p].pc \in {"seq", "roundSeq"} => \A x \in db : x.gseq < n
                      /\ req[p].pc \in {"round", "abort"} =>
                           \A x \in db : x.turn = req[p].turn => x.seq < n
  <2>1. \A x \in db : x.turn \in Nat /\ x.seq \in Nat /\ x.gseq \in Nat
    BY <1>0, RowTypes DEF Types
  <2>2. \A m \in Nat : m <= n - 1 => m < n  BY <1>6
  <2> QED  BY <1>7, <2>1, <2>2 DEF Covers, TurnsUpTo, NumbersUpTo, PlacesUpTo
<1>24. CountersCover'
  <2> SUFFICES ASSUME Undisturbed
               PROVE
    /\ ctr'[TurnsKey] # 0 => TurnsUpTo(ctr'[TurnsKey])
    /\ ctr'[MsgsKey] # 0 => NumbersUpTo(ctr'[MsgsKey])
    /\ \A t \in 1 .. MaxTurn : ctr'[SeqKey(t)] # 0 => PlacesUpTo(t, ctr'[SeqKey(t)])
    BY <1>1, <1>8 DEF CountersCover, TurnsUpTo, NumbersUpTo, PlacesUpTo
  <2>1. \A x \in db : x.turn \in Nat /\ x.seq \in Nat /\ x.gseq \in Nat
    BY <1>0, RowTypes DEF Types
  <2>2. ctr'[TurnsKey] # 0 => TurnsUpTo(ctr'[TurnsKey])
    <3>1. CASE Key(p) = TurnsKey
      <4>1. req[p].pc = "turn" /\ ctr'[TurnsKey] = n
        BY <1>4, <1>9, <3>1, KeyFacts DEF AllocSteps
      <4> QED  BY <1>6, <1>23, <2>1, <4>1 DEF TurnsUpTo
    <3>2. CASE Key(p) # TurnsKey
      <4>1. ctr'[TurnsKey] = ctr[TurnsKey]  BY <1>9, <3>2, KeyFacts
      <4> QED  BY <1>0, <4>1 DEF CountersCover
    <3> QED  BY <3>1, <3>2
  <2>3. ctr'[MsgsKey] # 0 => NumbersUpTo(ctr'[MsgsKey])
    <3>1. CASE Key(p) = MsgsKey
      <4>1. req[p].pc \in {"seq", "roundSeq"} /\ ctr'[MsgsKey] = n
        BY <1>4, <1>9, <3>1, KeyFacts DEF AllocSteps
      <4> QED  BY <1>6, <1>23, <2>1, <4>1 DEF NumbersUpTo
    <3>2. CASE Key(p) # MsgsKey
      <4>1. ctr'[MsgsKey] = ctr[MsgsKey]  BY <1>9, <3>2, KeyFacts
      <4> QED  BY <1>0, <4>1 DEF CountersCover
    <3> QED  BY <3>1, <3>2
  <2>4. ASSUME NEW t \in 1 .. MaxTurn, ctr'[SeqKey(t)] # 0 PROVE PlacesUpTo(t, ctr'[SeqKey(t)])
    <3>1. CASE Key(p) = SeqKey(t)
      <4>1. req[p].pc \in {"round", "abort"} /\ ctr'[SeqKey(t)] = n
        BY <1>4, <1>9, <3>1, KeyFacts DEF AllocSteps
      <4>2. req[p].turn = t  BY <1>4, <3>1, <4>1, KeyFacts
      <4> QED  BY <1>6, <1>23, <2>1, <4>1, <4>2 DEF PlacesUpTo
    <3>2. CASE Key(p) # SeqKey(t)
      <4>1. ctr'[SeqKey(t)] = ctr[SeqKey(t)]  BY <1>9, <3>2, KeyFacts
      <4> QED  BY <1>0, <2>4, <4>1 DEF CountersCover
    <3> QED  BY <3>1, <3>2
  <2> QED  BY <2>2, <2>3, <2>4
<1>25. PendingAreCovered'
  <2> SUFFICES ASSUME Undisturbed, NEW q \in Requests
               PROVE
      /\ req'[q].pc \in Working \ {"turn"} /\ ctr'[TurnsKey] # 0 =>
           req'[q].turn <= ctr'[TurnsKey]
      /\ req'[q].pc \in {"create", "roundCreate"} /\ ctr'[MsgsKey] # 0 =>
           req'[q].gseq <= ctr'[MsgsKey]
      /\ req'[q].pc \in {"roundSeq", "roundCreate", "abortCreate"}
           /\ ctr'[SeqKey(req'[q].turn)] # 0 => req'[q].seq <= ctr'[SeqKey(req'[q].turn)]
    BY <1>8 DEF PendingAreCovered
  <2>1. CASE q # p
    <3>1. req'[q].pc \notin Working  BY <1>5, <1>12, <2>1
    <3> QED  BY <3>1 DEF Working, ChatSteps, RunSteps, AbortSteps
  <2>2. CASE q = p
    <3>1. CASE req[p].pc = "turn"
      <4>1. ctr'[TurnsKey] = n /\ req'[p].pc = "load" /\ req'[p].turn = n
        BY <1>2, <1>4, <1>9, <3>1
      <4> QED  BY <1>6, <2>2, <4>1
    <3>2. CASE req[p].pc # "turn"
      <4>1. ctr'[TurnsKey] = ctr[TurnsKey] /\ req'[p].turn = req[p].turn
        <5>1. Key(p) # TurnsKey  BY <1>4, <3>2, KeyFacts DEF AllocSteps
        <5> QED  BY <1>2, <1>9, <3>2, <5>1, KeyFacts
      <4>2. ctr'[TurnsKey] # 0 => req'[p].turn <= ctr'[TurnsKey]
        BY <1>0, <1>11, <3>2, <4>1 DEF PendingAreCovered
      <4>3. req'[p].pc \in {"create", "roundCreate"} =>
              ctr'[MsgsKey] = n /\ req'[p].gseq = n
        BY <1>2, <1>4, <1>9
      <4>4. req'[p].pc \in {"roundSeq", "abortCreate"} =>
              ctr'[SeqKey(req'[p].turn)] = n /\ req'[p].seq = n
        BY <1>2, <1>4, <1>9
      <4>5. req'[p].pc = "roundCreate" =>
              /\ ctr'[SeqKey(req'[p].turn)] = ctr[SeqKey(req[p].turn)]
              /\ req'[p].seq = req[p].seq /\ req[p].pc = "roundSeq"
        <5> SUFFICES ASSUME req'[p].pc = "roundCreate"
                     PROVE  /\ ctr'[SeqKey(req[p].turn)] = ctr[SeqKey(req[p].turn)]
                            /\ req'[p].seq = req[p].seq /\ req[p].pc = "roundSeq"
          BY <4>1
        <5>1. req[p].pc = "roundSeq" /\ req'[p].seq = req[p].seq  BY <1>2
        <5>2. req[p].turn \in 1 .. MaxTurn
          <6>1. req[p] \in RequestRecords  BY <1>0 DEF Types
          <6> QED  BY <1>0, <5>1, <6>1, RecordTypes, SizeFacts DEF LocalsFit
        <5>3. SeqKey(req[p].turn) \in Keys /\ SeqKey(req[p].turn) # Key(p)
          BY <1>4, <5>1, <5>2, KeyFacts
        <5> QED  BY <1>9, <5>1, <5>3
      <4>6. req'[p].pc = "roundCreate" /\ ctr'[SeqKey(req'[p].turn)] # 0 =>
              req'[p].seq <= ctr'[SeqKey(req'[p].turn)]
        BY <1>0, <4>1, <4>5 DEF PendingAreCovered
      <4> QED  BY <1>6, <2>2, <4>2, <4>3, <4>4, <4>6
    <3> QED  BY <3>1, <3>2
  <2> QED  BY <2>1, <2>2
<1>26. StagesHold'
  <2> SUFFICES ASSUME Undisturbed, NEW q \in Requests, req'[q].pc \in AllocSteps
               PROVE  req'[q].stage = "exists"
    BY <1>8 DEF StagesHold
  <2>1. q = p  BY <1>5, <1>12, StepNames
  <2> QED  BY <1>2, <2>1
<1>27. NumbersAreFresh'
  <2> SUFFICES ASSUME Undisturbed, NEW q \in Requests
               PROVE
      /\ req'[q].pc \in {"load", "fill", "seq", "create"} => \A x \in db : x.turn < req'[q].turn
      /\ req'[q].pc \in Working \ {"turn"} => \A x \in db : x.turn <= req'[q].turn
      /\ req'[q].pc \in {"create", "roundCreate"} => \A x \in db : x.gseq < req'[q].gseq
      /\ req'[q].pc \in {"roundSeq", "roundCreate", "abortCreate"} =>
           \A x \in db : x.turn = req'[q].turn => x.seq < req'[q].seq
    BY <1>1, <1>8 DEF NumbersAreFresh, TurnsUpTo
  <2>1. CASE q # p
    <3>1. req'[q].pc \notin Working  BY <1>5, <1>12, <2>1
    <3> QED  BY <3>1 DEF Working, ChatSteps, RunSteps, AbortSteps
  <2>2. CASE q = p
    <3>1. CASE req[p].pc = "turn"
      <4>1. \A x \in db : x.turn < n  BY <1>23, <3>1
      <4>2. \A x \in db : x.turn \in Nat  BY <1>0, RowTypes DEF Types
      <4>3. \A x \in db : x.turn <= n  BY <1>6, <4>1, <4>2
      <4>4. req'[p].pc = "load" /\ req'[p].turn = n  BY <1>2, <3>1
      <4> QED  BY <2>2, <4>1, <4>3, <4>4
    <3>2. CASE req[p].pc # "turn"
      <4>1. req'[p].turn = req[p].turn  BY <1>2, <3>2
      <4>2. \A x \in db : x.turn <= req[p].turn
        BY <1>0, <1>11, <3>2 DEF NumbersAreFresh, TurnsUpTo
      <4>3. req'[p].pc \in {"load", "fill", "seq", "create"} =>
              \A x \in db : x.turn < req[p].turn
        BY <1>0, <1>2, <3>2 DEF NumbersAreFresh
      <4>4. req'[p].pc \in {"create", "roundCreate"} => \A x \in db : x.gseq < req'[p].gseq
        BY <1>2, <1>23
      <4>5. req'[p].pc \in {"roundSeq", "roundCreate", "abortCreate"} =>
              \A x \in db : x.turn = req[p].turn => x.seq < req'[p].seq
        BY <1>0, <1>2, <1>23 DEF NumbersAreFresh
      <4> QED  BY <2>2, <4>1, <4>2, <4>3, <4>4, <4>5
    <3> QED  BY <3>1, <3>2
  <2> QED  BY <2>1, <2>2
<1>28. RefusalNeedsRace' /\ HistoryIsWhole'  BY <1>0, <1>1, <1>8, FlagsStay
<1>29. CacheIsWhole'  BY <1>0, <1>1, <1>2, <1>8, <1>19, WholeStays
<1> QED
  BY <1>13, <1>14, <1>15, <1>16, <1>18, <1>20, <1>21, <1>24, <1>25, <1>26, <1>27, <1>28, <1>29
  DEF IInv

\* What Create stores.
LEMMA CreateFacts ==
  ASSUME IInv, NEW p \in Requests, Create(p)
  PROVE  /\ UNCHANGED <<ctr, cache, losses, overlapped, gaps, raced, refused, misled>>
         /\ db' = db \cup {RowOf(p)} /\ RowOf(p) \in Rows
         /\ RowOf(p).turn = req[p].turn /\ RowOf(p).seq = req[p].seq
         /\ RowOf(p).gseq = req[p].gseq /\ RowOf(p)' = RowOf(p)
         /\ \A r \in db : ~ (r.turn = req[p].turn /\ r.seq = req[p].seq)
         /\ req' \in [Requests -> RequestRecords] /\ Others(p)
         /\ req'[p].stage = "exists" /\ req'[p].fill = req[p].fill /\ req'[p].wm = req[p].wm
         /\ req'[p].turn = req[p].turn /\ req'[p].seq = req[p].seq
         /\ req'[p].gseq = req[p].gseq
         /\ \/ req[p].pc = "create" /\ req'[p].pc = "push" /\ req[p].seq = 1
            \/ req[p].pc = "roundCreate" /\ req'[p].pc = "roundPush"
            \/ req[p].pc = "abortCreate" /\ req'[p].pc = "abortPush" /\ req[p].gseq = 0
<1>0. Types /\ LocalsFit  BY DEF IInv
<1>1. req[p] \in RequestRecords /\ req[p].pc \in CreateSteps
  BY <1>0 DEF Types, Create, CreateSteps
<1>2. UNCHANGED <<ctr, cache, losses, overlapped, gaps, raced, refused, misled>>
  BY DEF Create, hist
<1>3. db' = db \cup {RowOf(p)}  BY DEF Create
<1>4. \A r \in db : ~ (r.turn = req[p].turn /\ r.seq = req[p].seq)  BY DEF Create, Taken
<1>5. req[p].stage = "exists" /\ req[p].turn # 0 /\ req[p].seq # 0
      /\ (req[p].pc = "create" => req[p].seq = 1) /\ (req[p].pc = "abortCreate" => req[p].gseq = 0)
  BY <1>0, <1>1 DEF LocalsFit, CreateSteps, AllocSteps
<1>6. RowOf(p) \in Rows
  <2>1. req[p].turn \in 1 .. MaxTurn /\ req[p].seq \in Nat \ {0} /\ req[p].gseq \in Nat
    BY <1>1, <1>5, RecordTypes, SizeFacts
  <2> QED  BY <2>1 DEF RowOf, Rows
<1>7. RowOf(p).turn = req[p].turn /\ RowOf(p).seq = req[p].seq /\ RowOf(p).gseq = req[p].gseq
  BY DEF RowOf
<1>8. PICK l \in {"push", "roundPush", "abortPush"} :
        /\ Goto(p, l)
        /\ \/ req[p].pc = "create" /\ l = "push"
           \/ req[p].pc = "roundCreate" /\ l = "roundPush"
           \/ req[p].pc = "abortCreate" /\ l = "abortPush"
  <2>1. CASE req[p].pc = "create"  BY <2>1 DEF Create
  <2>2. CASE req[p].pc = "roundCreate"  BY <2>2 DEF Create
  <2>3. CASE req[p].pc = "abortCreate"  BY <2>3 DEF Create
  <2> QED  BY <1>1, <2>1, <2>2, <2>3 DEF CreateSteps
<1> DEFINE r == [req[p] EXCEPT !.pc = l]
<1>9. r \in RequestRecords
  <2>1. l \in Working  BY <1>8 DEF Working, ChatSteps, RunSteps, AbortSteps
  <2> QED  BY <1>1, <2>1 DEF RequestRecords
<1>10. /\ r.pc = l /\ r.stage = req[p].stage /\ r.turn = req[p].turn /\ r.seq = req[p].seq
       /\ r.gseq = req[p].gseq /\ r.fill = req[p].fill /\ r.wm = req[p].wm
  BY <1>1 DEF RequestRecords
<1>11. Set(p, r)  BY <1>8 DEF Goto
<1> HIDE DEF r
<1>12. req' \in [Requests -> RequestRecords] /\ req'[p] = r /\ Others(p)
  BY <1>0, <1>9, <1>11, ReqIsSet
<1>13. RowOf(p)' = RowOf(p)  BY <1>10, <1>12 DEF RowOf
<1> QED  BY <1>2, <1>3, <1>4, <1>5, <1>6, <1>7, <1>8, <1>10, <1>12, <1>13

\* Create keeps the invariant: the row comes after all others.
LEMMA CreateStep ==
  ASSUME IInv, NEW p \in Requests, Create(p)
  PROVE  IInv'
<1>0. /\ Types /\ LocalsFit /\ TurnsFit /\ RowsDiffer /\ StartedIsStored /\ TurnIdsDiffer
      /\ PushesAreStored /\ OneAtWork /\ CountersCover /\ PendingAreCovered /\ StagesHold
      /\ NumbersAreFresh /\ RefusalNeedsRace /\ NumbersFollowTurns /\ CacheIsWhole
      /\ HistoryIsWhole
  BY DEF IInv
<1> DEFINE row == RowOf(p)
<1>1. /\ ctr' = ctr /\ cache' = cache /\ losses' = losses /\ gaps' = gaps
      /\ overlapped' = overlapped /\ raced' = raced /\ refused' = refused /\ misled' = misled
      /\ req' \in [Requests -> RequestRecords] /\ Others(p)
  BY CreateFacts
<1>2. /\ db' = db \cup {row} /\ row \in Rows
      /\ row.turn = req[p].turn /\ row.seq = req[p].seq /\ row.gseq = req[p].gseq
      /\ RowOf(p)' = row
      /\ \A r \in db : ~ (r.turn = req[p].turn /\ r.seq = req[p].seq)
  BY CreateFacts
<1>3. /\ req'[p].stage = "exists" /\ req'[p].fill = req[p].fill /\ req'[p].wm = req[p].wm
      /\ req'[p].turn = req[p].turn /\ req'[p].seq = req[p].seq /\ req'[p].gseq = req[p].gseq
      /\ \/ req[p].pc = "create" /\ req'[p].pc = "push" /\ req[p].seq = 1
         \/ req[p].pc = "roundCreate" /\ req'[p].pc = "roundPush"
         \/ req[p].pc = "abortCreate" /\ req'[p].pc = "abortPush" /\ req[p].gseq = 0
  BY CreateFacts
<1> HIDE DEF row
<1>4. \A q \in Requests : q # p => req'[q] = req[q]  BY <1>1 DEF Others
<1>5. Undisturbed' = Undisturbed  BY <1>1 DEF Undisturbed
<1>6. req[p].pc \in Working /\ req'[p].pc \in Working /\ req'[p].pc \in PushSteps
      /\ req[p].pc \notin PushSteps
  BY <1>3, StepNames DEF CreateSteps, PushSteps
<1>7. Undisturbed => \A q \in Requests : q # p => req[q].pc \notin Working
  BY <1>0, <1>6 DEF OneAtWork, Active, Undisturbed
<1>8. \A x \in db' : x \in Rows /\ x.turn \in Nat /\ x.seq \in Nat /\ x.gseq \in Nat
  BY <1>0, <1>2, RowTypes DEF Types
<1>9. Types'
  <2>1. db' \subseteq Rows /\ IsFiniteSet(db')
    BY <1>0, <1>2, FS_AddElement DEF Types
  <2> QED  BY <1>0, <1>1, <2>1 DEF Types
<1>10. LocalsFit'
  <2> SUFFICES ASSUME NEW q \in Requests
             PROVE /\ req'[q].pc \notin AllocSteps => req'[q].stage = "exists"
                   /\ req'[q].pc \notin {"idle", "turn", "ended"} => req'[q].turn # 0
                   /\ req'[q].pc = "create" => req'[q].seq = 1
                   /\ req'[q].pc \in {"roundSeq", "roundCreate", "abortCreate"} \cup PushSteps =>
                        req'[q].seq # 0
                   /\ req'[q].pc = "abortCreate" => req'[q].gseq = 0
    BY DEF LocalsFit
  <2>1. CASE q # p  BY <1>0, <1>4, <2>1 DEF LocalsFit
  <2>2. CASE q = p  BY <1>0, <1>3, <2>2 DEF LocalsFit
  <2> QED  BY <2>1, <2>2
<1>11. TurnsFit'
  <2>1. Numbered' = Numbered  BY <1>3, <1>4 DEF Numbered
  <2>2. \A x \in db' : x.turn <= Cardinality(Numbered)  BY <1>0, <1>2 DEF TurnsFit
  <2>3. \A q \in Requests : /\ req'[q].turn = req[q].turn /\ req'[q].wm = req[q].wm
                            /\ req'[q].pc \in {"idle", "turn"} => req[q].pc \in {"idle", "turn"}
    BY <1>3, <1>4
  <2> QED  BY <1>0, <1>1, <2>1, <2>2, <2>3 DEF TurnsFit
<1>12. RowsDiffer'  BY <1>0, <1>2 DEF RowsDiffer
<1>13. StartedIsStored'
  <2> SUFFICES ASSUME NEW q \in Requests, req'[q].pc \in Started
               PROVE  \E x \in db' : x.turn = req'[q].turn /\ x.seq = 1
    BY DEF StartedIsStored
  <2>1. CASE q # p  BY <1>0, <1>2, <1>4, <2>1 DEF StartedIsStored
  <2>2. CASE q = p /\ req[p].pc = "create"  BY <1>2, <1>3, <2>2
  <2>3. CASE q = p /\ req[p].pc # "create"
    <3>1. req[p].pc \in Started  BY <1>3, <2>3 DEF Started, RunSteps, AbortSteps
    <3> QED  BY <1>0, <1>2, <1>3, <2>3, <3>1 DEF StartedIsStored
  <2> QED  BY <2>1, <2>2, <2>3
<1>14. TurnIdsDiffer'
  <2>1. \A q \in Requests : q # p /\ req[q].pc \in Started => req[q].turn # req[p].turn
    <3> SUFFICES ASSUME NEW q \in Requests, q # p, req[q].pc \in Started
                 PROVE  req[q].turn # req[p].turn
      OBVIOUS
    <3>1. CASE req[p].pc = "create"
      <4>1. PICK x \in db : x.turn = req[q].turn /\ x.seq = 1  BY <1>0 DEF StartedIsStored
      <4> QED  BY <1>2, <1>3, <3>1, <4>1
    <3>2. CASE req[p].pc # "create"
      <4>1. req[p].pc \in Started  BY <1>3, <3>2 DEF Started, RunSteps, AbortSteps
      <4> QED  BY <1>0, <4>1 DEF TurnIdsDiffer, Started
    <3> QED  BY <3>1, <3>2
  <2> SUFFICES ASSUME NEW q \in Requests, NEW s \in Requests, q # s,
                      req'[q].pc \in Started, req'[s].pc \in Started
               PROVE  req'[q].turn # req'[s].turn
    BY DEF TurnIdsDiffer, Started
  <2>2. CASE q # p /\ s # p  BY <1>0, <1>4, <2>2 DEF TurnIdsDiffer, Started
  <2>3. CASE q = p  BY <1>3, <1>4, <2>1, <2>3
  <2>4. CASE s = p  BY <1>3, <1>4, <2>1, <2>4
  <2> QED  BY <2>2, <2>3, <2>4
<1>15. PushesAreStored'
  <2>1. CacheIsStored' /\ db \subseteq db' /\ row \in db'  BY <1>0, <1>1, <1>2, CacheStays
  <2>2. \A i \in 1 .. Len(req'[p].fill) : req'[p].fill[i] \in db'
    BY <1>0, <1>3, <2>1 DEF PushesAreStored
  <2> QED  BY <1>0, <1>1, <1>2, <2>1, <2>2, PushesStay
<1>16. OneAtWork'
  <2>1. \A q \in Requests : Active(q)' => Active(q)  BY <1>4, <1>6 DEF Active
  <2> QED  BY <1>0, <1>1, <2>1 DEF OneAtWork
<1>17. CountersCover'
  <2> SUFFICES ASSUME Undisturbed
               PROVE
    /\ ctr[TurnsKey] # 0 => \A x \in db' : x.turn <= ctr[TurnsKey]
    /\ ctr[MsgsKey] # 0 => \A x \in db' : x.gseq <= ctr[MsgsKey]
    /\ \A t \in 1 .. MaxTurn : ctr[SeqKey(t)] # 0 =>
         \A x \in db' : x.turn = t => x.seq <= ctr[SeqKey(t)]
    BY <1>1, <1>5 DEF CountersCover, TurnsUpTo, NumbersUpTo, PlacesUpTo
  <2>1. \A k \in Keys : ctr[k] \in Nat  BY <1>0 DEF Types
  <2>2. ctr[TurnsKey] # 0 => row.turn <= ctr[TurnsKey]
    BY <1>0, <1>2, <1>3, <1>6 DEF PendingAreCovered
  <2>3. ctr[MsgsKey] # 0 => row.gseq <= ctr[MsgsKey]
    <3>1. CASE req[p].pc = "abortCreate"  BY <1>2, <1>3, <2>1, <3>1, KeyFacts
    <3>2. CASE req[p].pc # "abortCreate"  BY <1>0, <1>2, <1>3, <3>2 DEF PendingAreCovered
    <3> QED  BY <3>1, <3>2
  <2>4. row.turn \in 1 .. MaxTurn  BY <1>2, RowTypes
  <2>5. ctr[SeqKey(row.turn)] # 0 => row.seq <= ctr[SeqKey(row.turn)]
    <3>1. CASE req[p].pc = "create"
      <4>1. ctr[SeqKey(row.turn)] \in Nat  BY <2>1, <2>4, KeyFacts
      <4> QED  BY <1>2, <1>3, <3>1, <4>1
    <3>2. CASE req[p].pc # "create"  BY <1>0, <1>2, <1>3, <3>2 DEF PendingAreCovered
    <3> QED  BY <3>1, <3>2
  <2> QED
    BY <1>0, <1>2, <2>2, <2>3, <2>5 DEF CountersCover, TurnsUpTo, NumbersUpTo, PlacesUpTo
<1>18. PendingAreCovered'
  <2> SUFFICES ASSUME Undisturbed, NEW q \in Requests
               PROVE
      /\ req'[q].pc \in Working \ {"turn"} /\ ctr[TurnsKey] # 0 => req'[q].turn <= ctr[TurnsKey]
      /\ req'[q].pc \in {"create", "roundCreate"} /\ ctr[MsgsKey] # 0 =>
           req'[q].gseq <= ctr[MsgsKey]
      /\ req'[q].pc \in {"roundSeq", "roundCreate", "abortCreate"}
           /\ ctr[SeqKey(req'[q].turn)] # 0 => req'[q].seq <= ctr[SeqKey(req'[q].turn)]
    BY <1>1, <1>5 DEF PendingAreCovered
  <2>1. CASE q # p  BY <1>0, <1>4, <2>1 DEF PendingAreCovered
  <2>2. CASE q = p  BY <1>0, <1>3, <1>6, <2>2 DEF PendingAreCovered
  <2> QED  BY <2>1, <2>2
<1>19. StagesHold'
  <2> SUFFICES ASSUME Undisturbed, NEW q \in Requests, req'[q].pc \in AllocSteps
               PROVE  FALSE
    BY <1>5 DEF StagesHold
  <2> QED  BY <1>3, <1>4, <1>7, StepNames DEF AllocSteps
<1>20. NumbersAreFresh'
  <2> SUFFICES ASSUME Undisturbed, NEW q \in Requests
               PROVE
      /\ req'[q].pc \in {"load", "fill", "seq", "create"} => \A x \in db' : x.turn < req'[q].turn
      /\ req'[q].pc \in Working \ {"turn"} => \A x \in db' : x.turn <= req'[q].turn
      /\ req'[q].pc \in {"create", "roundCreate"} => \A x \in db' : x.gseq < req'[q].gseq
      /\ req'[q].pc \in {"roundSeq", "roundCreate", "abortCreate"} =>
           \A x \in db' : x.turn = req'[q].turn => x.seq < req'[q].seq
    BY <1>5 DEF NumbersAreFresh, TurnsUpTo
  <2>1. CASE q # p
    <3>1. req'[q].pc \notin Working  BY <1>4, <1>7, <2>1
    <3> QED  BY <3>1 DEF Working, ChatSteps, RunSteps, AbortSteps
  <2>2. CASE q = p
    <3>1. \A x \in db : x.turn <= req[p].turn
      BY <1>0, <1>3, <1>6 DEF NumbersAreFresh, TurnsUpTo
    <3>2. row.turn <= req[p].turn
      <4>1. row.turn \in Nat  BY <1>2, RowTypes
      <4> QED  BY <1>2, <4>1
    <3>3. \A x \in db' : x.turn <= req[p].turn  BY <1>2, <3>1, <3>2
    <3> QED  BY <1>3, <2>2, <3>3
  <2> QED  BY <2>1, <2>2
<1>21. RefusalNeedsRace' /\ HistoryIsWhole'  BY <1>0, <1>1, <1>5, FlagsStay
<1>22. NumbersFollowTurns'
  <2> SUFFICES ASSUME Undisturbed, NEW r \in db', NEW s \in db', r.turn < s.turn, s.gseq > 0
               PROVE  r.gseq < s.gseq
    BY <1>5 DEF NumbersFollowTurns, Undisturbed
  <2>1. CASE r \in db /\ s \in db  BY <1>0, <2>1 DEF NumbersFollowTurns, Undisturbed
  <2>2. CASE r \in db /\ s = row
    <3>1. req[p].pc \in {"create", "roundCreate"}  BY <1>2, <1>3, <2>2
    <3> QED  BY <1>0, <1>2, <2>2, <3>1 DEF NumbersAreFresh
  <2>3. CASE r = row
    <3>1. s \in db
      <4>1. row.turn \in Nat  BY <1>2, RowTypes
      <4> QED  BY <1>2, <2>3, <4>1
    <3>2. s.turn <= req[p].turn
      BY <1>0, <1>3, <1>6, <3>1 DEF NumbersAreFresh, TurnsUpTo
    <3> QED  BY <1>2, <1>8, <2>3, <3>2
  <2> QED  BY <1>2, <2>1, <2>2, <2>3
<1>23. CacheIsWhole'
  <2> SUFFICES ASSUME Undisturbed, gaps = 0
               PROVE
      /\ \A q \in Requests : /\ req'[q].pc # "fill"
                             /\ req'[q].pc \in PushSteps => Listed' = Append(cache, RowOf(q)')
      /\ (\A q \in Requests : req'[q].pc \notin PushSteps) => cache = Listed'
    BY <1>1, <1>5 DEF CacheIsWhole
  <2>1. cache = Listed  BY <1>0, <1>6, WholeCache
  <2>2. Keyed(db)  BY <1>0, TableIsKeyed
  <2>3. \A x \in db : Before(x, row)
    <3> TAKE x \in db
    <3>1. x.turn \in Nat /\ x.seq \in Nat /\ row.turn \in Nat /\ row.seq \in Nat
      BY <1>2, <1>8, RowTypes
    <3>2. x.turn <= row.turn
      BY <1>0, <1>2, <1>3, <1>6 DEF NumbersAreFresh, TurnsUpTo
    <3>3. req[p].pc = "create" => x.turn < row.turn  BY <1>0, <1>2 DEF NumbersAreFresh
    <3>4. req[p].pc # "create" /\ x.turn = row.turn => x.seq < row.seq
      BY <1>0, <1>2, <1>3 DEF NumbersAreFresh
    <3> QED  BY <3>1, <3>2, <3>3, <3>4 DEF Before
  <2>4. Sorted(db \cup {row}) = Append(Sorted(db), row)
    BY <1>2, <2>2, <2>3, SortedGrows
  <2>5. Listed' = Append(cache, row)  BY <1>2, <2>1, <2>4 DEF Listed
  <2>6. \A q \in Requests : q # p => req'[q].pc \notin PushSteps /\ req'[q].pc # "fill"
    BY <1>0, <1>4, <1>7, StepNames DEF CacheIsWhole
  <2>7. req'[p].pc # "fill"  BY <1>3
  <2> QED  BY <1>2, <1>6, <2>5, <2>6, <2>7
<1> QED
  BY <1>9, <1>10, <1>11, <1>12, <1>13, <1>14, <1>15, <1>16, <1>17, <1>18, <1>19, <1>20,
     <1>21, <1>22, <1>23
  DEF IInv
-----------------------------------------------------------------------------
(* The theorems. *)

\* The inductive invariant of the message log: while turns do not overlap and no counter
\* is lost between EXISTS and INCR, one request is at work, the numbers it holds are greater
\* than the stored ones and the cache is the table.
THEOREM Invariance == Spec => []IInv
<1>1. Init => IInv  BY InitIsSound
<1>2. IInv /\ [Next]_vars => IInv'
  <2> SUFFICES ASSUME IInv, [Next]_vars PROVE IInv'
    OBVIOUS
  <2>1. CASE CacheLapses  BY <2>1, CacheLapsesStep
  <2>2. CASE LoseCounter  BY <2>2, LoseCounterStep
  <2>3. ASSUME NEW p \in Requests, Step(p) PROVE IInv'
    <3>1. CASE Begin(p)  BY <3>1, BeginStep
    <3>2. CASE Exists(p)  BY <3>2, ExistsStep
    <3>3. CASE ReadWatermark(p)  BY <3>3, ReadWatermarkStep
    <3>4. CASE Increment(p)  BY <3>4, IncrementStep
    <3>5. CASE UseCache(p)  BY <3>5, UseCacheStep
    <3>6. CASE UseTable(p)  BY <3>6, UseTableStep
    <3>7. CASE Fill(p)  BY <3>7, FillStep
    <3>8. CASE Create(p)  BY <3>8, CreateStep
    <3>9. CASE Refused(p)  BY <3>9, RefusedStep
    <3>10. CASE Push(p)  BY <3>10, PushStep
    <3>11. CASE Skip(p)  BY <3>11, SkipStep
    <3>12. CASE Abort(p)  BY <3>12, AbortStep
    <3>13. CASE Stop(p)  BY <3>13, StopStep
    <3> QED
      BY <2>3, <3>1, <3>2, <3>3, <3>4, <3>5, <3>6, <3>7, <3>8, <3>9, <3>10, <3>11, <3>12, <3>13
      DEF Step
  <2>4. CASE UNCHANGED vars  BY <2>4, StutterStep
  <2> QED  BY <2>1, <2>2, <2>3, <2>4 DEF Next
<1> QED  BY <1>1, <1>2, PTL DEF Spec

\* The variables keep their types: in particular no turn number exceeds the number of
\* requests, and only rows are stored and cached.
THEOREM TypeCorrect == Spec => []TypeOK
<1>1. IInv => TypeOK
  <2> SUFFICES ASSUME IInv PROVE TypeOK
    OBVIOUS
  <2>1. Types  BY DEF IInv
  <2>2. \A key \in Keys : ctr[key] \in Nat  BY <2>1 DEF Types
  <2>3. \A n \in 1 .. Len(cache) : cache[n] \in Rows  BY <2>1 DEF Types
  <2>4. \A p \in Requests : req[p] \in RequestRecords  BY <2>1 DEF Types
  <2> QED  BY <2>1, <2>2, <2>3, <2>4, RecordTypes DEF Types, TypeOK
<1> QED  BY <1>1, Invariance, PTL

\* Numbering survives the loss of counters: of the requests whose user message is stored no
\* two have one turn id, whatever overlaps; and without an overlap or a counter lost between
\* EXISTS and INCR, later turns have greater message numbers and no message is refused.
THEOREM NumbersAreSafe == Spec => []NumbersAreSound
<1>1. IInv => NumbersAreSound  BY DEF IInv, NumbersAreSound
<1> QED  BY <1>1, Invariance, PTL

\* The prompt is the stored history: nothing is cached but stored messages, and while nothing
\* disturbed the cache every turn was prompted with all of them, each once and in order.
THEOREM PromptIsSafe == Spec => []PromptIsStored
<1>1. IInv => PromptIsStored  BY DEF IInv, PushesAreStored, PromptIsStored
<1> QED  BY <1>1, Invariance, PTL
=============================================================================
