-------------------------- MODULE EventReplayProofs --------------------------
(***************************************************************************)
(* Proofs about AgentRun, for any tools, batches of calls and bounds, and   *)
(* about EventReplay on the invariant of AgentRun.                          *)
(***************************************************************************)
EXTENDS EventReplay, SequenceTheorems, FiniteSetTheorems, WellFoundedInduction, TLAPS

CallRecords  == [tool : UNION {{b[n] : n \in 1 .. Len(b)} : b \in Batches}, idx : Nat]
EventRecords == [type : EventTypes, seq : Nat, call : CallIds]
RowRecords   == [role : {"assistant", "tool", "system"}, seq : Nat, calls : SUBSET CallIds]

\* Where the calls of the round are known, have been stored, and are dispatched.
Dispatching == pc \in {"emit", "invoke", "commit", "result"}
Before      == pc \in {"alloc", "stream", "answer", "record"}
Over        == pc \in {"cleanup", "deferred", "ended"}

Types ==
  /\ pc \in PCs /\ round \in 1 .. MaxRound + 1
  /\ turnSeq \in Nat \ {0} /\ roundSeq \in 0 .. turnSeq
  /\ first \in Nat /\ k \in Nat
  /\ calls \in Seq(CallRecords)
  /\ \A n \in 1 .. Len(calls) : calls[n].idx \in 1 .. Len(calls)
  /\ \A m, n \in 1 .. Len(calls) : calls[m].idx = calls[n].idx => m = n
  /\ issued \subseteq CallIds /\ fulfilled \subseteq CallIds
  /\ events \in Seq(EventRecords) /\ log \in Seq(RowRecords)
  /\ cancelled \in BOOLEAN /\ faults \in 0 .. MaxFaults /\ deltas \in 0 .. MaxDeltas

\* Where a round stands in its calls.
Place ==
  /\ pc \in {"alloc", "stream", "answer"} => calls = <<>>
  /\ pc \in {"stream", "answer", "record", "dispatched"} \/ Dispatching => round <= MaxRound
  /\ pc = "record" => Len(calls) > 0
  /\ Dispatching => /\ first \in 1 .. Len(calls)
                    /\ k \in first .. GroupEnd
                    /\ pc = "invoke" => k = first
                    /\ invoked \subseteq first .. GroupEnd
  /\ ~ Dispatching => invoked = {}

\* How many calls of the round have been announced, answered, and given a message.
Announced == IF pc = "record" THEN 0
             ELSE IF pc = "emit" THEN k - 1
             ELSE IF Dispatching THEN GroupEnd ELSE Len(calls)
Answered  == IF pc = "record" THEN 0
             ELSE IF pc \in {"emit", "invoke"} THEN first - 1
             ELSE IF Dispatching THEN k - 1 ELSE Len(calls)
Committed == IF pc = "result" THEN k ELSE Answered

\* Without a fault, calls and results come in pairs, in one order.
PairsFit ==
  faults = 0 =>
    /\ \A m, n \in At("tool_call") : events[m].call = events[n].call => m = n
    /\ \A m, n \in At("tool_result") : events[m].call = events[n].call => m = n
    /\ \A j \in At("tool_result") : \E m \in At("tool_call") :
         m < j /\ events[m].call = events[j].call
    /\ \A m, n \in At("tool_call") : \A j \in At("tool_result") :
         m < n /\ events[j].call = events[n].call =>
           \E i \in At("tool_result") : i < j /\ events[i].call = events[m].call

\* The calls of the round are announced and answered in their order; those of earlier
\* rounds are answered.
RoundFits ==
  faults = 0 =>
    /\ \A p \in 1 .. Len(calls) :
         (\E m \in At("tool_call") : events[m].call = Id(p)) <=> p <= Announced
    /\ \A p \in 1 .. Len(calls) :
         (\E m \in At("tool_result") : events[m].call = Id(p)) <=> p <= Answered
    /\ \A m, n \in At("tool_call") : \A p, q \in 1 .. Len(calls) :
         m < n /\ events[m].call = Id(p) /\ events[n].call = Id(q) => p < q
    /\ \A m \in At("tool_call") :
         \/ \E p \in 1 .. Len(calls) : events[m].call = Id(p)
         \/ \E j \in At("tool_result") : events[j].call = events[m].call

\* The numbers of events and rows; those of a round share its number.
NumbersFit ==
  /\ \A n \in DOMAIN events : events[n].seq <= roundSeq
  /\ \A m, n \in DOMAIN events :
       m < n /\ events[m].seq # 0 /\ events[n].seq # 0 => events[m].seq <= events[n].seq
  /\ \A m \in At("tool_call") :
       /\ events[m].call[1] <= round /\ (Before => events[m].call[1] < round)
       /\ events[m].call[1] = round => events[m].seq = roundSeq
  /\ \A n \in DOMAIN log : log[n].role = "assistant" =>
       \A c \in log[n].calls :
         /\ c[1] <= round /\ (Before => c[1] < round)
         /\ c[1] = round => log[n].seq = roundSeq
  /\ \A m \in At("tool_call"), n \in DOMAIN log :
       log[n].role = "assistant" /\ events[m].call \in log[n].calls =>
         events[m].seq = log[n].seq

\* The rows are stored in the order of their numbers.
RowsFit ==
  /\ \A n \in DOMAIN log : log[n].seq > 1 /\ log[n].seq <= turnSeq
  /\ \A m, n \in DOMAIN log : m < n => log[m].seq < log[n].seq
  /\ pc \in {"stream", "answer", "record"} =>
       roundSeq > 1 /\ \A n \in DOMAIN log : log[n].seq < roundSeq

\* A call has a message as soon as it is committed, and without a cancel or a fault
\* its messages are stored.
ToolsFit ==
  /\ issued \subseteq fulfilled \cup {Id(p) : p \in Committed + 1 .. Len(calls)}
  /\ faults = 0 =>
       \A n \in DOMAIN log : log[n].role = "tool" =>
         \A c \in log[n].calls : \E m \in 1 .. n : log[m].role = "assistant" /\ c \in log[m].calls
  /\ faults = 0 /\ ~ cancelled =>
       /\ \A c \in fulfilled : Stored(c, "tool")
       /\ Dispatching => \E m \in DOMAIN log :
                            log[m].role = "assistant" /\ Ids \subseteq log[m].calls

\* The last event comes when the turn is over, and unless it was lost it is there.
LastFits ==
  /\ \A n \in DOMAIN events : events[n].type \in {"done", "error"} => n = Len(events) /\ Over
  /\ Over /\ faults = 0 => events # <<>> /\ events[Len(events)].type \in {"done", "error"}

\* Without a cancel or a fault a round that has said something has its row, but for the
\* round under way.
HasRow(s)  == \E n \in DOMAIN log : log[n].role = "assistant" /\ log[n].seq = s
Says(n)    == events[n].type \in {"text", "tool_call"}
SayingsFit ==
  ~ cancelled /\ faults = 0 =>
    /\ \A n \in DOMAIN events : Says(n) =>
         events[n].seq > 1 /\ (events[n].seq = roundSeq \/ HasRow(events[n].seq))
    /\ Dispatching \/ pc = "dispatched" \/ (pc = "alloc" /\ round > 1) => HasRow(roundSeq)
    /\ \A n \in DOMAIN log : log[n].seq >= roundSeq /\ roundSeq > 1 => HasRow(roundSeq)
    /\ pc = "alloc" /\ round = 1 => \A n \in DOMAIN events : ~ Says(n)

IInv ==
  /\ Types
  /\ Place
  /\ PairsFit
  /\ RoundFits
  /\ NumbersFit
  /\ RowsFit
  /\ ToolsFit
  /\ LastFits
  /\ SayingsFit
-----------------------------------------------------------------------------
(* Groups of calls, sequences, and what an event or a row changes. *)

\* The end of the group of calls c that starts at f.
EndOf(c, f) ==
  IF ~ (c[f].tool \in Concurrent) THEN f
  ELSE CHOOSE j \in f .. Len(c) :
         /\ \A n \in f .. j : c[n].tool \in Concurrent
         /\ j < Len(c) => ~ (c[j + 1].tool \in Concurrent)

\* A group of calls ends among the calls of the round; a serial call is a group.
LEMMA EndFacts ==
  ASSUME NEW c \in Seq(CallRecords), NEW f \in 1 .. Len(c)
  PROVE  /\ EndOf(c, f) \in f .. Len(c)
         /\ EndOf(c, f) = f \/ \A n \in f .. EndOf(c, f) : c[n].tool \in Concurrent
<1>1. CASE c[f].tool \notin Concurrent  BY <1>1 DEF EndOf
<1>2. CASE c[f].tool \in Concurrent
  <2> DEFINE T == {j \in f .. Len(c) : j = Len(c) \/ c[j + 1].tool \notin Concurrent}
             R == OpToRel(<, Nat)
             Stops(j) == /\ \A n \in f .. j : c[n].tool \in Concurrent
                         /\ j < Len(c) => ~ (c[j + 1].tool \in Concurrent)
  <2>1. Len(c) \in T /\ T \subseteq Nat  OBVIOUS
  <2>2. PICK j \in T : \A y \in T : ~ (y < j)
    <3>1. IsWellFoundedOn(R, Nat)  BY Zenon, NatLessThanWellFounded
    <3>2. \A x, y \in Nat : x < y => <<x, y>> \in R  BY DEF OpToRel
    <3> HIDE DEF R
    <3>3. \E j \in T : \A y \in T : ~ (<<y, j>> \in R)  BY <2>1, <3>1, WFMin
    <3> QED  BY <2>1, <3>2, <3>3
  <2>3. \A n \in f .. j : c[n].tool \in Concurrent
    <3> TAKE n \in f .. j
    <3>1. CASE n = f  BY <1>2, <3>1
    <3>2. CASE n # f
      <4>1. n - 1 \in f .. Len(c) /\ n - 1 < j /\ (n - 1) + 1 = n  BY <3>2
      <4>2. n - 1 \notin T  BY <2>2, <4>1
      <4> QED  BY <4>1, <4>2
    <3> QED  BY <3>1, <3>2
  <2>4. j \in f .. Len(c) /\ (j < Len(c) => c[j + 1].tool \notin Concurrent)  OBVIOUS
  <2>5. \E i \in f .. Len(c) : Stops(i)
    <3>1. Stops(j)  BY <2>3, <2>4
    <3> HIDE DEF Stops
    <3> QED  BY <2>4, <3>1
  <2>6. EndOf(c, f) = CHOOSE i \in f .. Len(c) : Stops(i)  BY <1>2 DEF EndOf
  <2> HIDE DEF Stops
  <2>7. EndOf(c, f) \in f .. Len(c) /\ Stops(EndOf(c, f))  BY <2>5, <2>6
  <2> QED  BY <2>7 DEF Stops
<1> QED  BY <1>1, <1>2

\* GroupEnd is such an end, before a step and after it.
LEMMA GroupIs ==
  GroupEnd = EndOf(calls, first) /\ GroupEnd' = EndOf(calls', first')
BY DEF GroupEnd, EndOf, IsConcurrent

\* The group stays while its calls and its start do.
LEMMA GroupStays ==
  ASSUME calls' = calls, first' = first
  PROVE  GroupEnd' = GroupEnd
BY GroupIs

\* The group of the round.
LEMMA GroupFacts ==
  ASSUME Types, first \in 1 .. Len(calls)
  PROVE  /\ GroupEnd \in first .. Len(calls)
         /\ GroupEnd = first \/ \A n \in first .. GroupEnd : IsConcurrent(n)
BY GroupIs, EndFacts DEF Types, IsConcurrent

\* Where dispatchCalls stands in the round.
LEMMA PlaceFacts ==
  ASSUME Types, Place, Dispatching
  PROVE  /\ Len(calls) \in Nat /\ first \in 1 .. Len(calls) /\ k \in first .. GroupEnd
         /\ GroupEnd \in first .. Len(calls)
<1>1. first \in 1 .. Len(calls) /\ k \in first .. GroupEnd  BY DEF Place
<1>2. Len(calls) \in Nat  BY DEF Types
<1> QED  BY <1>1, <1>2, GroupFacts

\* The names of the round's calls.
LEMMA IdFacts ==
  ASSUME Types
  PROVE  /\ \A p, q \in 1 .. Len(calls) : Id(p) = Id(q) => p = q
         /\ \A p \in 1 .. Len(calls) : Id(p)[1] = round
         /\ round <= MaxRound => \A p \in 1 .. Len(calls) : Id(p) \in CallIds
         /\ \A p \in 1 .. Len(calls) : Id(p) \in Ids
         /\ \A c \in Ids : \E p \in 1 .. Len(calls) : c = Id(p)
<1>1. /\ \A m, n \in 1 .. Len(calls) : calls[m].idx = calls[n].idx => m = n
      /\ round \in 1 .. MaxRound + 1 /\ Len(calls) \in Nat
      /\ \A n \in 1 .. Len(calls) : calls[n].idx \in Nat
  BY DEF Types
<1>2. round <= MaxRound => round \in 1 .. MaxRound  BY <1>1, AgentAssumption
<1> QED  BY <1>1, <1>2 DEF Id, Ids, CallIds

\* The calls keep their names while the round lasts.
LEMMA IdStays ==
  ASSUME calls' = calls, round' = round
  PROVE  (\A p : Id(p)' = Id(p)) /\ Ids' = Ids
BY DEF Id, Ids

\* A sequence that has grown by one.
LEMMA AppendFacts ==
  ASSUME NEW S, NEW s \in Seq(S), NEW e \in S
  PROVE  /\ Append(s, e) \in Seq(S) /\ Len(s) \in Nat
         /\ DOMAIN s = 1 .. Len(s) /\ DOMAIN Append(s, e) = 1 .. Len(s) + 1
         /\ Len(Append(s, e)) = Len(s) + 1
         /\ Append(s, e)[Len(s) + 1] = e
         /\ \A n \in 1 .. Len(s) : Append(s, e)[n] = s[n]
OBVIOUS

\* Events and rows are records.
LEMMA RecordFacts ==
  /\ \A e \in EventRecords : e.type \in EventTypes /\ e.seq \in Nat /\ e.call \in CallIds
  /\ \A r \in RowRecords : /\ r.role \in {"assistant", "tool", "system"} /\ r.seq \in Nat
                           /\ r.calls \subseteq CallIds
BY DEF EventRecords, RowRecords

\* What Emit does: the event is the last of the stream, or lost.
LEMMA EmitFacts ==
  ASSUME Types, NEW e \in EventRecords, Emit(e)
  PROVE  /\ events' \in Seq(EventRecords) /\ faults' \in 0 .. MaxFaults
         /\ Len(events) \in Nat /\ DOMAIN events = 1 .. Len(events)
         /\ \/ events' = events /\ faults' # 0
            \/ /\ faults' = faults /\ Len(events') = Len(events) + 1
               /\ DOMAIN events' = 1 .. Len(events) + 1
               /\ events'[Len(events) + 1] = e
               /\ \A n \in 1 .. Len(events) : events'[n] = events[n]
<1>1. events \in Seq(EventRecords) /\ faults \in 0 .. MaxFaults /\ MaxFaults \in Nat
  BY AgentAssumption DEF Types
<1>2. CASE events' = Append(events, e) /\ UNCHANGED faults
  BY <1>1, <1>2, AppendFacts
<1>3. CASE Fault /\ UNCHANGED events
  BY <1>1, <1>3 DEF Fault
<1> QED  BY <1>2, <1>3 DEF Emit

\* What Store does: the row is the last of the table, unless the turn is cancelled or
\* the command fails.
LEMMA StoreFacts ==
  ASSUME Types, NEW r \in RowRecords, Store(r)
  PROVE  /\ log' \in Seq(RowRecords) /\ faults' \in 0 .. MaxFaults
         /\ Len(log) \in Nat /\ DOMAIN log = 1 .. Len(log)
         /\ faults' = 0 => faults = 0
         /\ \/ log' = log /\ (faults' # 0 \/ cancelled)
            \/ /\ ~ cancelled /\ Len(log') = Len(log) + 1
               /\ DOMAIN log' = 1 .. Len(log) + 1
               /\ log'[Len(log) + 1] = r
               /\ \A n \in 1 .. Len(log) : log'[n] = log[n]
<1>1. log \in Seq(RowRecords) /\ faults \in 0 .. MaxFaults /\ MaxFaults \in Nat
  BY AgentAssumption DEF Types
<1>2. CASE ~ cancelled /\ log' = Append(log, r) /\ UNCHANGED faults
  BY <1>1, <1>2, AppendFacts
<1>3. CASE cancelled /\ UNCHANGED <<log, faults>>
  BY <1>1, <1>3
<1>4. CASE Fault /\ UNCHANGED log
  BY <1>1, <1>4 DEF Fault
<1> QED  BY <1>2, <1>3, <1>4 DEF Store

-----------------------------------------------------------------------------
(* What leaves each part of the invariant alone. *)

\* The stream.
LEMMA PairsStay ==
  ASSUME PairsFit, events' = events, faults' = 0 => faults = 0
  PROVE  PairsFit'
BY DEF PairsFit, At

\* The round's place in the stream.
LEMMA RoundStays ==
  ASSUME RoundFits, events' = events, faults' = 0 => faults = 0, calls' = calls,
         round' = round, Announced' = Announced, Answered' = Answered
  PROVE  RoundFits'
<1>1. \A p : Id(p)' = Id(p)  BY IdStays
<1>2. At("tool_call")' = At("tool_call") /\ At("tool_result")' = At("tool_result")  BY DEF At
<1> QED  BY <1>1, <1>2 DEF RoundFits

\* The numbers.
LEMMA NumbersStay ==
  ASSUME NumbersFit, events' = events, log' = log, round' = round, roundSeq' = roundSeq,
         Before' => Before
  PROVE  NumbersFit'
<1>1. At("tool_call")' = At("tool_call")  BY DEF At
<1> QED  BY <1>1 DEF NumbersFit

\* The rows' order.
LEMMA RowsStay ==
  ASSUME Types, RowsFit, log' = log, turnSeq' \in Nat, turnSeq' >= turnSeq,
         pc' \in {"stream", "answer", "record"} =>
           pc \in {"stream", "answer", "record"} /\ roundSeq' = roundSeq
  PROVE  RowsFit'
<1>1. \A n \in DOMAIN log : log[n].seq \in Nat  BY RecordFacts DEF Types
<1> QED  BY <1>1 DEF RowsFit, Types

\* The tools' messages.
LEMMA ToolsStay ==
  ASSUME ToolsFit, log' = log, issued' = issued, fulfilled' = fulfilled, calls' = calls,
         round' = round, Committed' = Committed, faults' = 0 => faults = 0,
         ~ cancelled' => ~ cancelled, Dispatching' => Dispatching
  PROVE  ToolsFit'
<1>1. (\A p : Id(p)' = Id(p)) /\ Ids' = Ids  BY IdStays
<1> QED  BY <1>1 DEF ToolsFit, Stored

\* The last event.
LEMMA LastStays ==
  ASSUME LastFits, events' = events, faults' = 0 => faults = 0, Over' <=> Over
  PROVE  LastFits'
BY DEF LastFits

\* What the rounds have said.
LEMMA SayingsStay ==
  ASSUME SayingsFit, events' = events, log' = log, roundSeq' = roundSeq, round' = round,
         faults' = 0 => faults = 0, ~ cancelled' => ~ cancelled,
         Dispatching' => Dispatching,
         pc' \in {"alloc", "dispatched"} => pc' = pc
  PROVE  SayingsFit'
<1>1. (\A s : HasRow(s)' = HasRow(s)) /\ (\A n : Says(n)' = Says(n))  BY DEF HasRow, Says
<1> QED  BY <1>1 DEF SayingsFit
-----------------------------------------------------------------------------
(* What an event changes. *)

\* The events of a type, after another event.
LEMMA AtFacts ==
  ASSUME Types, NEW e \in EventRecords, Emit(e), NEW t
  PROVE  /\ \A n \in At(t)' : \/ n \in At(t)
                              \/ n = Len(events) + 1 /\ e.type = t /\ events'[n] = e
         /\ \A n \in At(t) : n \in 1 .. Len(events) /\ n \in At(t)' /\ events'[n] = events[n]
         /\ faults' = 0 => faults = 0
         /\ faults' = 0 /\ e.type = t => Len(events) + 1 \in At(t)'
                                         /\ events'[Len(events) + 1] = e
<1>1. /\ Len(events) \in Nat /\ DOMAIN events = 1 .. Len(events)
      /\ \/ events' = events /\ faults' # 0
         \/ /\ faults' = faults /\ DOMAIN events' = 1 .. Len(events) + 1
            /\ events'[Len(events) + 1] = e
            /\ \A n \in 1 .. Len(events) : events'[n] = events[n]
  BY EmitFacts
<1>2. CASE events' = events /\ faults' # 0  BY <1>1, <1>2 DEF At
<1>3. CASE /\ faults' = faults /\ DOMAIN events' = 1 .. Len(events) + 1
           /\ events'[Len(events) + 1] = e
           /\ \A n \in 1 .. Len(events) : events'[n] = events[n]
  BY <1>1, <1>3 DEF At
<1> QED  BY <1>1, <1>2, <1>3

\* An event that is neither a call nor a result leaves the pairs alone.
LEMMA PairsEmit ==
  ASSUME Types, PairsFit, NEW e \in EventRecords, Emit(e),
         e.type \notin {"tool_call", "tool_result"}
  PROVE  PairsFit'
<1>1. /\ At("tool_call")' = At("tool_call") /\ At("tool_result")' = At("tool_result")
      /\ \A n \in At("tool_call") \cup At("tool_result") : events'[n] = events[n]
      /\ faults' = 0 => faults = 0
  BY AtFacts
<1> QED  BY <1>1 DEF PairsFit

\* And the round's place.
LEMMA RoundEmit ==
  ASSUME Types, RoundFits, NEW e \in EventRecords, Emit(e),
         e.type \notin {"tool_call", "tool_result"},
         calls' = calls, round' = round, Announced' = Announced, Answered' = Answered
  PROVE  RoundFits'
<1>1. /\ At("tool_call")' = At("tool_call") /\ At("tool_result")' = At("tool_result")
      /\ \A n \in At("tool_call") \cup At("tool_result") : events'[n] = events[n]
      /\ faults' = 0 => faults = 0
  BY AtFacts
<1>2. \A p : Id(p)' = Id(p)  BY IdStays
<1> QED  BY <1>1, <1>2 DEF RoundFits

\* An event carries no number or the round's, and a call is the round's.
LEMMA NumbersEmit ==
  ASSUME Types, NumbersFit, NEW e \in EventRecords, Emit(e),
         e.seq \in {0, roundSeq},
         e.type = "tool_call" => e.seq = roundSeq /\ e.call[1] = round /\ ~ Before',
         Before' => Before, round' = round, roundSeq' = roundSeq, log' = log
  PROVE  NumbersFit'
<1>1. /\ Len(events) \in Nat /\ DOMAIN events = 1 .. Len(events)
      /\ \/ events' = events
         \/ /\ DOMAIN events' = 1 .. Len(events) + 1
            /\ events'[Len(events) + 1] = e
            /\ \A n \in 1 .. Len(events) : events'[n] = events[n]
  BY EmitFacts
<1>2. roundSeq \in Nat /\ round \in Nat /\ \A n \in 1 .. Len(events) : events[n].seq \in Nat
  BY <1>1, RecordFacts, AgentAssumption DEF Types
<1>3. /\ \A n \in At("tool_call")' : \/ n \in At("tool_call")
                                     \/ e.type = "tool_call" /\ events'[n] = e
      /\ \A n \in At("tool_call") : events'[n] = events[n]
  BY AtFacts
<1>4. \A n \in DOMAIN events' : events'[n].seq <= roundSeq'
  BY <1>1, <1>2 DEF NumbersFit
<1>5. \A m, n \in DOMAIN events' :
        m < n /\ events'[m].seq # 0 /\ events'[n].seq # 0 => events'[m].seq <= events'[n].seq
  <2> SUFFICES ASSUME NEW m \in DOMAIN events', NEW n \in DOMAIN events', m < n,
                      events'[m].seq # 0, events'[n].seq # 0
               PROVE  events'[m].seq <= events'[n].seq
    OBVIOUS
  <2>1. CASE n \in DOMAIN events
    <3>1. m \in DOMAIN events /\ events'[m] = events[m] /\ events'[n] = events[n]
      BY <1>1, <2>1
    <3> QED  BY <2>1, <3>1 DEF NumbersFit
  <2>2. CASE n \notin DOMAIN events
    <3>1. events'[n] = e  BY <1>1, <2>2
    <3>2. events'[n].seq = roundSeq'  BY <3>1
    <3> QED  BY <1>4, <3>2
  <2> QED  BY <2>1, <2>2
<1>6. \A m \in At("tool_call")' :
        /\ events'[m].call[1] <= round' /\ (Before' => events'[m].call[1] < round')
        /\ events'[m].call[1] = round' => events'[m].seq = roundSeq'
  BY <1>2, <1>3 DEF NumbersFit
<1>7. \A n \in DOMAIN log' : log'[n].role = "assistant" =>
        \A c \in log'[n].calls :
          /\ c[1] <= round' /\ (Before' => c[1] < round')
          /\ c[1] = round' => log'[n].seq = roundSeq'
  BY DEF NumbersFit
<1>8. \A m \in At("tool_call")', n \in DOMAIN log' :
        log'[n].role = "assistant" /\ events'[m].call \in log'[n].calls =>
          events'[m].seq = log'[n].seq
  BY <1>3 DEF NumbersFit
<1> QED  BY <1>4, <1>5, <1>6, <1>7, <1>8 DEF NumbersFit

\* An event before the last one.
LEMMA LastEmit ==
  ASSUME Types, LastFits, NEW e \in EventRecords, Emit(e),
         e.type \notin {"done", "error"}, ~ Over, ~ Over'
  PROVE  LastFits'
BY EmitFacts DEF LastFits

\* What a round says carries its number.
LEMMA SayingsEmit ==
  ASSUME Types, SayingsFit, NEW e \in EventRecords, Emit(e),
         e.type \in {"text", "tool_call"} =>
           e.seq = roundSeq /\ (faults' = 0 /\ ~ cancelled => roundSeq > 1),
         log' = log, roundSeq' = roundSeq, round' = round, cancelled' = cancelled,
         Dispatching' => Dispatching, pc' # "alloc", pc' = "dispatched" => Dispatching
  PROVE  SayingsFit'
<1>1. /\ Len(events) \in Nat /\ DOMAIN events = 1 .. Len(events)
      /\ faults' = 0 => /\ faults = 0
                        /\ DOMAIN events' = 1 .. Len(events) + 1
                        /\ events'[Len(events) + 1] = e
                        /\ \A n \in 1 .. Len(events) : events'[n] = events[n]
  BY EmitFacts
<1>2. \A s : HasRow(s)' = HasRow(s)  BY DEF HasRow
<1>3. SUFFICES ASSUME ~ cancelled, faults' = 0
               PROVE  SayingsFit'
  BY DEF SayingsFit
<1>4. \A n \in DOMAIN events' : Says(n)' =>
        events'[n].seq > 1 /\ (events'[n].seq = roundSeq \/ HasRow(events'[n].seq))
  BY <1>1, <1>3 DEF SayingsFit, Says
<1>5. Dispatching' \/ pc' = "dispatched" => HasRow(roundSeq)  BY <1>1, <1>3 DEF SayingsFit
<1>6. \A n \in DOMAIN log : log[n].seq >= roundSeq /\ roundSeq > 1 => HasRow(roundSeq)
  BY <1>1, <1>3 DEF SayingsFit
<1> QED  BY <1>2, <1>4, <1>5, <1>6 DEF SayingsFit
-----------------------------------------------------------------------------
(* The steps that neither emit nor store. *)

\* The rounds of calls are numbers.
LEMMA CallNumbers ==
  ASSUME Types
  PROVE  /\ \A m \in At("tool_call") \cup At("tool_result") : events[m].call[1] \in Nat
         /\ \A n \in DOMAIN log : \A c \in log[n].calls : c[1] \in Nat
<1>1. \A c \in CallIds : c[1] \in Nat  BY AgentAssumption DEF CallIds, NoCall
<1> QED  BY <1>1, RecordFacts DEF At, Types

\* AllocRound keeps the invariant.
LEMMA AllocRoundStep ==
  ASSUME IInv, AllocRound
  PROVE  IInv'
<1>0. /\ Types /\ Place /\ PairsFit /\ RoundFits /\ NumbersFit /\ RowsFit /\ ToolsFit
      /\ LastFits /\ SayingsFit
  BY DEF IInv
<1>1. /\ round' = round /\ calls' = calls /\ first' = first /\ k' = k /\ invoked' = invoked
      /\ issued' = issued /\ fulfilled' = fulfilled /\ deltas' = deltas /\ events' = events
      /\ log' = log /\ cancelled' = cancelled /\ faults' = faults
  BY DEF AllocRound, loop
<1>2. pc = "alloc" /\ pc' = "stream"
      /\ round <= MaxRound /\ turnSeq' = turnSeq + 1 /\ roundSeq' = turnSeq + 1
  BY DEF AllocRound, Goto, AllocOk
<1>3. /\ Announced' = Announced /\ Answered' = Answered /\ Committed' = Committed
      /\ Dispatching' = Dispatching /\ (Before' => Before) /\ Over' = Over
      /\ GroupEnd' = GroupEnd
  BY <1>1, <1>2, GroupStays DEF Announced, Answered, Committed, Dispatching, Before, Over
<1>4. /\ turnSeq \in Nat \ {0} /\ roundSeq \in Nat /\ roundSeq < roundSeq' /\ round \in Nat
      /\ \A n \in DOMAIN log : log[n].seq \in Nat
      /\ \A n \in DOMAIN events : events[n].seq \in Nat
      /\ At("tool_call")' = At("tool_call")
  <2>1. events \in Seq(EventRecords) /\ log \in Seq(RowRecords) /\ turnSeq \in Nat \ {0}
        /\ roundSeq \in 0 .. turnSeq /\ round \in 1 .. MaxRound + 1
    BY <1>0 DEF Types
  <2> QED  BY <1>1, <1>2, <2>1, RecordFacts, AgentAssumption DEF At
<1>5. Types'
  <2>1. turnSeq' \in Nat \ {0} /\ roundSeq' \in 0 .. turnSeq' /\ pc' \in PCs
    BY <1>2, <1>4 DEF Types, PCs
  <2> QED  BY <1>0, <1>1, <1>2, <2>1 DEF Types
<1>6. Place'  BY <1>0, <1>1, <1>2, <1>3, <1>4 DEF Place, Dispatching
<1>7. PairsFit'  BY <1>0, <1>1, <1>2, <1>3, <1>4, PairsStay
<1>8. RoundFits'  BY <1>0, <1>1, <1>2, <1>3, <1>4, RoundStays
<1>9. NumbersFit'
  <2>1. Before /\ Before'  BY <1>2 DEF Before
  <2>2. \A n \in DOMAIN events : events[n].seq <= roundSeq'
    BY <1>0, <1>2, <1>4 DEF NumbersFit
  <2>3. \A m \in At("tool_call") : events[m].call[1] <= round /\ events[m].call[1] # round
    BY <1>0, <1>4, <2>1, CallNumbers DEF NumbersFit
  <2>4. \A n \in DOMAIN log : log[n].role = "assistant" =>
          \A c \in log[n].calls : c[1] # round
    BY <1>0, <1>4, <2>1, CallNumbers DEF NumbersFit
  <2> QED  BY <1>0, <1>1, <1>4, <2>1, <2>2, <2>3, <2>4 DEF NumbersFit
<1>10. RowsFit'  BY <1>0, <1>1, <1>2, <1>3, <1>4 DEF RowsFit
<1>11. ToolsFit'  BY <1>0, <1>1, <1>2, <1>3, <1>4, ToolsStay
<1>12. LastFits'  BY <1>0, <1>1, <1>2, <1>3, <1>4, LastStays
<1>13. SayingsFit'
  <2>1. \A s : HasRow(s)' = HasRow(s)  BY <1>1 DEF HasRow
  <2>2. \A n : Says(n)' = Says(n)  BY <1>1 DEF Says
  <2>3. \A n \in DOMAIN log : ~ (log[n].seq >= roundSeq')  BY <1>0, <1>2, <1>4 DEF RowsFit
  <2>4. round > 1 \/ round = 1  BY <1>0, AgentAssumption DEF Types
  <2> QED  BY <1>0, <1>1, <1>2, <1>3, <1>4, <2>1, <2>2, <2>3, <2>4 DEF SayingsFit, Dispatching
<1> QED  BY <1>5, <1>6, <1>7, <1>8, <1>9, <1>10, <1>11, <1>12, <1>13 DEF IInv

\* AllocRoundFails keeps the invariant.
LEMMA AllocRoundFailsStep ==
  ASSUME IInv, AllocRoundFails
  PROVE  IInv'
<1>0. /\ Types /\ Place /\ PairsFit /\ RoundFits /\ NumbersFit /\ RowsFit /\ ToolsFit
      /\ LastFits /\ SayingsFit
  BY DEF IInv
<1>1. /\ round' = round /\ calls' = calls /\ first' = first /\ k' = k /\ invoked' = invoked
      /\ issued' = issued /\ fulfilled' = fulfilled /\ deltas' = deltas /\ roundSeq' = roundSeq
      /\ events' = events /\ log' = log /\ cancelled' = cancelled
  BY DEF AllocRoundFails, loop
<1>2. pc = "alloc" /\ pc' = "seqError"
  BY DEF AllocRoundFails, Goto
<1>3. /\ Announced' = Announced /\ Answered' = Answered /\ Committed' = Committed
      /\ Dispatching' = Dispatching /\ (Before' => Before) /\ Over' = Over
      /\ GroupEnd' = GroupEnd
  BY <1>1, <1>2, GroupStays DEF Announced, Answered, Committed, Dispatching, Before, Over
<1>4. /\ turnSeq \in Nat \ {0} /\ turnSeq' \in {turnSeq, turnSeq + 1}
      /\ faults' \in 0 .. MaxFaults /\ (faults' = 0 => faults = 0)
  BY <1>0, AgentAssumption DEF AllocRoundFails, AllocFail, Fault, Types
<1>5. Types'
  <2>0. roundSeq \in 0 .. turnSeq  BY <1>0 DEF Types
  <2>1. turnSeq' \in Nat \ {0} /\ roundSeq' \in 0 .. turnSeq' /\ pc' \in PCs
    BY <1>1, <1>2, <1>4, <2>0 DEF Types, PCs
  <2> QED  BY <1>0, <1>1, <1>2, <1>4, <2>1 DEF Types
<1>6. Place'  BY <1>0, <1>1, <1>2, <1>3, <1>4 DEF Place, Dispatching
<1>7. PairsFit'  BY <1>0, <1>1, <1>2, <1>3, <1>4, PairsStay
<1>8. RoundFits'  BY <1>0, <1>1, <1>2, <1>3, <1>4, RoundStays
<1>9. NumbersFit'  BY <1>0, <1>1, <1>2, <1>3, <1>4, NumbersStay
<1>10. RowsFit'  BY <1>0, <1>1, <1>2, <1>3, <1>4, RowsStay
<1>11. ToolsFit'  BY <1>0, <1>1, <1>2, <1>3, <1>4, ToolsStay
<1>12. LastFits'  BY <1>0, <1>1, <1>2, <1>3, <1>4, LastStays
<1>13. SayingsFit'  BY <1>0, <1>1, <1>2, <1>3, <1>4, SayingsStay
<1> QED  BY <1>5, <1>6, <1>7, <1>8, <1>9, <1>10, <1>11, <1>12, <1>13 DEF IInv

\* RoundsExhausted keeps the invariant.
LEMMA RoundsExhaustedStep ==
  ASSUME IInv, RoundsExhausted
  PROVE  IInv'
<1>0. /\ Types /\ Place /\ PairsFit /\ RoundFits /\ NumbersFit /\ RowsFit /\ ToolsFit
      /\ LastFits /\ SayingsFit
  BY DEF IInv
<1>1. /\ round' = round /\ calls' = calls /\ first' = first /\ k' = k /\ invoked' = invoked
      /\ issued' = issued /\ fulfilled' = fulfilled /\ deltas' = deltas /\ turnSeq' = turnSeq
      /\ roundSeq' = roundSeq /\ events' = events /\ log' = log /\ cancelled' = cancelled
      /\ faults' = faults
  BY DEF RoundsExhausted, loop
<1>2. pc = "alloc" /\ pc' = "roundError"
  BY DEF RoundsExhausted, Goto
<1>3. /\ Announced' = Announced /\ Answered' = Answered /\ Committed' = Committed
      /\ Dispatching' = Dispatching /\ (Before' => Before) /\ Over' = Over
      /\ GroupEnd' = GroupEnd
  BY <1>1, <1>2, GroupStays DEF Announced, Answered, Committed, Dispatching, Before, Over
<1>4. Types'  BY <1>0, <1>1, <1>2, <1>3 DEF Types, PCs
<1>5. Place'  BY <1>0, <1>1, <1>2, <1>3 DEF Place, Dispatching
<1>6. PairsFit'  BY <1>0, <1>1, <1>2, <1>3, PairsStay
<1>7. RoundFits'  BY <1>0, <1>1, <1>2, <1>3, RoundStays
<1>8. NumbersFit'  BY <1>0, <1>1, <1>2, <1>3, NumbersStay
<1>9. RowsFit'  BY <1>0, <1>1, <1>2, <1>3, RowsStay DEF Types
<1>10. ToolsFit'  BY <1>0, <1>1, <1>2, <1>3, ToolsStay
<1>11. LastFits'  BY <1>0, <1>1, <1>2, <1>3, LastStays
<1>12. SayingsFit'  BY <1>0, <1>1, <1>2, <1>3, SayingsStay
<1> QED  BY <1>4, <1>5, <1>6, <1>7, <1>8, <1>9, <1>10, <1>11, <1>12 DEF IInv

\* StreamFails keeps the invariant.
LEMMA StreamFailsStep ==
  ASSUME IInv, StreamFails
  PROVE  IInv'
<1>0. /\ Types /\ Place /\ PairsFit /\ RoundFits /\ NumbersFit /\ RowsFit /\ ToolsFit
      /\ LastFits /\ SayingsFit
  BY DEF IInv
<1>1. /\ round' = round /\ calls' = calls /\ first' = first /\ k' = k /\ invoked' = invoked
      /\ issued' = issued /\ fulfilled' = fulfilled /\ deltas' = deltas /\ turnSeq' = turnSeq
      /\ roundSeq' = roundSeq /\ events' = events /\ log' = log /\ cancelled' = cancelled
      /\ faults' = faults
  BY DEF StreamFails, loop
<1>2. pc = "stream" /\ pc' = "llmError"
  BY DEF StreamFails, Goto
<1>3. /\ Announced' = Announced /\ Answered' = Answered /\ Committed' = Committed
      /\ Dispatching' = Dispatching /\ (Before' => Before) /\ Over' = Over
      /\ GroupEnd' = GroupEnd
  BY <1>1, <1>2, GroupStays DEF Announced, Answered, Committed, Dispatching, Before, Over
<1>4. Types'  BY <1>0, <1>1, <1>2, <1>3 DEF Types, PCs
<1>5. Place'  BY <1>0, <1>1, <1>2, <1>3 DEF Place, Dispatching
<1>6. PairsFit'  BY <1>0, <1>1, <1>2, <1>3, PairsStay
<1>7. RoundFits'  BY <1>0, <1>1, <1>2, <1>3, RoundStays
<1>8. NumbersFit'  BY <1>0, <1>1, <1>2, <1>3, NumbersStay
<1>9. RowsFit'  BY <1>0, <1>1, <1>2, <1>3, RowsStay DEF Types
<1>10. ToolsFit'  BY <1>0, <1>1, <1>2, <1>3, ToolsStay
<1>11. LastFits'  BY <1>0, <1>1, <1>2, <1>3, LastStays
<1>12. SayingsFit'  BY <1>0, <1>1, <1>2, <1>3, SayingsStay
<1> QED  BY <1>4, <1>5, <1>6, <1>7, <1>8, <1>9, <1>10, <1>11, <1>12 DEF IInv

\* StreamAnswers keeps the invariant.
LEMMA StreamAnswersStep ==
  ASSUME IInv, StreamAnswers
  PROVE  IInv'
<1>0. /\ Types /\ Place /\ PairsFit /\ RoundFits /\ NumbersFit /\ RowsFit /\ ToolsFit
      /\ LastFits /\ SayingsFit
  BY DEF IInv
<1>1. /\ round' = round /\ calls' = calls /\ first' = first /\ k' = k /\ invoked' = invoked
      /\ issued' = issued /\ fulfilled' = fulfilled /\ deltas' = deltas /\ turnSeq' = turnSeq
      /\ roundSeq' = roundSeq /\ events' = events /\ log' = log /\ cancelled' = cancelled
      /\ faults' = faults
  BY DEF StreamAnswers, loop
<1>2. pc = "stream" /\ pc' = "answer"
  BY DEF StreamAnswers, Goto
<1>3. /\ Announced' = Announced /\ Answered' = Answered /\ Committed' = Committed
      /\ Dispatching' = Dispatching /\ (Before' => Before) /\ Over' = Over
      /\ GroupEnd' = GroupEnd
  BY <1>1, <1>2, GroupStays DEF Announced, Answered, Committed, Dispatching, Before, Over
<1>4. Types'  BY <1>0, <1>1, <1>2, <1>3 DEF Types, PCs
<1>5. Place'  BY <1>0, <1>1, <1>2, <1>3 DEF Place, Dispatching
<1>6. PairsFit'  BY <1>0, <1>1, <1>2, <1>3, PairsStay
<1>7. RoundFits'  BY <1>0, <1>1, <1>2, <1>3, RoundStays
<1>8. NumbersFit'  BY <1>0, <1>1, <1>2, <1>3, NumbersStay
<1>9. RowsFit'  BY <1>0, <1>1, <1>2, <1>3, RowsStay DEF Types
<1>10. ToolsFit'  BY <1>0, <1>1, <1>2, <1>3, ToolsStay
<1>11. LastFits'  BY <1>0, <1>1, <1>2, <1>3, LastStays
<1>12. SayingsFit'  BY <1>0, <1>1, <1>2, <1>3, SayingsStay
<1> QED  BY <1>4, <1>5, <1>6, <1>7, <1>8, <1>9, <1>10, <1>11, <1>12 DEF IInv

\* A cancel keeps the invariant.
LEMMA CancelStep ==
  ASSUME IInv, Cancel
  PROVE  IInv'
<1>0. /\ Types /\ Place /\ PairsFit /\ RoundFits /\ NumbersFit /\ RowsFit /\ ToolsFit
      /\ LastFits /\ SayingsFit
  BY DEF IInv
<1>1. /\ pc' = pc /\ round' = round /\ calls' = calls /\ first' = first /\ k' = k
      /\ invoked' = invoked /\ issued' = issued /\ fulfilled' = fulfilled /\ deltas' = deltas
      /\ turnSeq' = turnSeq /\ roundSeq' = roundSeq /\ events' = events /\ log' = log
      /\ faults' = faults
  BY DEF Cancel, loop
<1>2. cancelled' = TRUE
  BY DEF Cancel
<1>3. /\ Announced' = Announced /\ Answered' = Answered /\ Committed' = Committed
      /\ Dispatching' = Dispatching /\ (Before' => Before) /\ Over' = Over
      /\ GroupEnd' = GroupEnd
  BY <1>1, GroupStays DEF Announced, Answered, Committed, Dispatching, Before, Over
<1>4. Types'  BY <1>0, <1>1, <1>2, <1>3 DEF Types
<1>5. Place'  BY <1>0, <1>1, <1>2, <1>3 DEF Place, Dispatching
<1>6. PairsFit'  BY <1>0, <1>1, <1>2, <1>3, PairsStay
<1>7. RoundFits'  BY <1>0, <1>1, <1>2, <1>3, RoundStays
<1>8. NumbersFit'  BY <1>0, <1>1, <1>2, <1>3, NumbersStay
<1>9. RowsFit'  BY <1>0, <1>1, <1>2, <1>3, RowsStay DEF Types
<1>10. ToolsFit'  BY <1>0, <1>1, <1>2, <1>3, ToolsStay
<1>11. LastFits'  BY <1>0, <1>1, <1>2, <1>3, LastStays
<1>12. SayingsFit'  BY <1>0, <1>1, <1>2, <1>3, SayingsStay
<1> QED  BY <1>4, <1>5, <1>6, <1>7, <1>8, <1>9, <1>10, <1>11, <1>12 DEF IInv

\* Nothing is left to interrupt.
LEMMA NothingInterrupted ==
  ASSUME IInv, pc = "cleanup"
  PROVE  issued \subseteq fulfilled /\ Interrupted = <<>>
<1>1. Committed = Len(calls) /\ Len(calls) \in Nat
  BY DEF Committed, Answered, Dispatching, IInv, Types
<1>2. Committed + 1 .. Len(calls) = {}  BY <1>1
<1>3. issued \subseteq fulfilled  BY <1>2 DEF IInv, ToolsFit
<1>4. issued \ fulfilled = {}  BY <1>3
<1>5. SetToSeq({}) = <<>>
  <2> DEFINE F == [1 .. Cardinality({}) -> {}]
  <2>1. Cardinality({}) = 0  BY FS_EmptySet
  <2>2. \A f \in F : f = <<>>  BY <2>1
  <2>3. <<>> \in F  BY <2>1
  <2>4. IsInjective(<<>>)  BY DEF IsInjective
  <2>5. SetToSeq({}) = CHOOSE f \in F : IsInjective(f)  BY DEF SetToSeq
  <2> HIDE DEF F
  <2> QED  BY <2>2, <2>3, <2>4, <2>5
<1> QED  BY <1>3, <1>4, <1>5 DEF Interrupted

\* Cleanup keeps the invariant: it has nothing to write.
LEMMA CleanupStep ==
  ASSUME IInv, Cleanup
  PROVE  IInv'
<1>0. /\ Types /\ Place /\ PairsFit /\ RoundFits /\ NumbersFit /\ RowsFit /\ ToolsFit
      /\ LastFits /\ SayingsFit
  BY DEF IInv
<1>1. /\ round' = round /\ calls' = calls /\ first' = first /\ k' = k /\ invoked' = invoked
      /\ issued' = issued /\ fulfilled' = fulfilled /\ deltas' = deltas /\ roundSeq' = roundSeq
      /\ cancelled' = cancelled /\ faults' = faults
  BY DEF Cleanup, loop
<1>2. pc = "cleanup" /\ pc' = "deferred"
  BY DEF Cleanup, Goto
<1>3. turnSeq' = turnSeq /\ events' = events /\ log' = log
  <2>1. Interrupted = <<>> /\ Len(<<>>) = 0  BY <1>2, NothingInterrupted
  <2>2. /\ turnSeq' = turnSeq + Len(<<>>)
        /\ log' = log \o [n \in 1 .. Len(<<>>) |-> Row("tool", turnSeq + n, {<<>>[n]})]
        /\ events' = events \o [n \in 1 .. Len(<<>>) |-> Event("tool_result", 0, <<>>[n])]
    BY <2>1 DEF Cleanup
  <2>3. /\ [n \in 1 .. Len(<<>>) |-> Row("tool", turnSeq + n, {<<>>[n]})] = <<>>
        /\ [n \in 1 .. Len(<<>>) |-> Event("tool_result", 0, <<>>[n])] = <<>>
    BY <2>1
  <2>4. turnSeq \in Nat /\ log \in Seq(RowRecords) /\ events \in Seq(EventRecords)
    BY <1>0 DEF Types
  <2>5. log \o <<>> = log /\ events \o <<>> = events  BY <2>4
  <2> QED  BY <2>1, <2>2, <2>3, <2>4, <2>5
<1>4. /\ Announced' = Announced /\ Answered' = Answered /\ Committed' = Committed
      /\ Dispatching' = Dispatching /\ (Before' => Before) /\ Over' = Over
      /\ GroupEnd' = GroupEnd
  BY <1>1, <1>2, <1>3, GroupStays DEF Announced, Answered, Committed, Dispatching, Before, Over
<1>5. Types'  BY <1>0, <1>1, <1>2, <1>3, <1>4 DEF Types, PCs
<1>6. Place'  BY <1>0, <1>1, <1>2, <1>3, <1>4 DEF Place, Dispatching
<1>7. PairsFit'  BY <1>0, <1>1, <1>2, <1>3, <1>4, PairsStay
<1>8. RoundFits'  BY <1>0, <1>1, <1>2, <1>3, <1>4, RoundStays
<1>9. NumbersFit'  BY <1>0, <1>1, <1>2, <1>3, <1>4, NumbersStay
<1>10. RowsFit'  BY <1>0, <1>1, <1>2, <1>3, <1>4, RowsStay DEF Types
<1>11. ToolsFit'  BY <1>0, <1>1, <1>2, <1>3, <1>4, ToolsStay
<1>12. LastFits'  BY <1>0, <1>1, <1>2, <1>3, <1>4, LastStays
<1>13. SayingsFit'  BY <1>0, <1>1, <1>2, <1>3, <1>4, SayingsStay
<1> QED  BY <1>5, <1>6, <1>7, <1>8, <1>9, <1>10, <1>11, <1>12, <1>13 DEF IInv

\* StreamCalls keeps the invariant.
LEMMA StreamCallsStep ==
  ASSUME IInv, StreamCalls
  PROVE  IInv'
<1>0. /\ Types /\ Place /\ PairsFit /\ RoundFits /\ NumbersFit /\ RowsFit /\ ToolsFit
      /\ LastFits /\ SayingsFit
  BY DEF IInv
<1>1. /\ round' = round /\ first' = first /\ k' = k /\ invoked' = invoked /\ issued' = issued
      /\ fulfilled' = fulfilled /\ deltas' = deltas /\ turnSeq' = turnSeq
      /\ roundSeq' = roundSeq /\ events' = events /\ log' = log /\ cancelled' = cancelled
      /\ faults' = faults
  BY DEF StreamCalls
<1>2. pc = "stream" /\ pc' = "record"
  BY DEF StreamCalls, Goto
<1>3. PICK batch \in Batches : \E order \in [1 .. Len(batch) -> 1 .. Len(batch)] :
        /\ \A m, n \in 1 .. Len(batch) : order[m] = order[n] => m = n
        /\ calls' = [n \in 1 .. Len(batch) |-> [tool |-> batch[order[n]], idx |-> order[n]]]
  <2>1. \A batch \in Batches : Len(batch) \in Nat /\ DOMAIN batch = 1 .. Len(batch)
    BY AgentAssumption
  <2>2. PICK batch \in Batches : \E order \in Injection(1 .. Len(batch), 1 .. Len(batch)) :
          calls' = [n \in 1 .. Len(batch) |-> [tool |-> batch[order[n]], idx |-> order[n]]]
    BY DEF StreamCalls
  <2> DEFINE S == 1 .. Len(batch)
  <2>3. PICK order \in Injection(S, S) :
          calls' = [n \in 1 .. Len(batch) |-> [tool |-> batch[order[n]], idx |-> order[n]]]
    BY <2>2
  <2>4. order \in [S -> S] /\ \A m, n \in S : order[m] = order[n] => m = n
    <3> HIDE DEF S
    <3> QED  BY <2>3 DEF Injection, IsInjective
  <2> QED  BY <2>3, <2>4
<1> DEFINE L == Len(batch)
<1>4. PICK order \in [1 .. L -> 1 .. L] :
        /\ \A m, n \in 1 .. L : order[m] = order[n] => m = n
        /\ calls' = [n \in 1 .. L |-> [tool |-> batch[order[n]], idx |-> order[n]]]
  BY <1>3
<1>4B. L \in Nat \ {0} /\ DOMAIN batch = 1 .. L  BY AgentAssumption
<1> HIDE DEF L
<1>5. /\ calls' \in Seq(CallRecords) /\ Len(calls') = L
      /\ \A n \in 1 .. L : calls'[n].idx = order[n]
  <2>1. \A n \in 1 .. L : [tool |-> batch[order[n]], idx |-> order[n]] \in CallRecords
    BY <1>4, <1>4B DEF CallRecords, L
  <2> QED  BY <1>4, <1>4B, <2>1
<1>6. /\ calls = <<>> /\ Len(calls) = 0 /\ round <= MaxRound /\ round \in Nat
      /\ Before /\ Before' /\ ~ Dispatching /\ ~ Dispatching' /\ Over' = Over
      /\ Announced' = 0 /\ Answered' = 0 /\ Committed' = 0 /\ Committed = 0
      /\ At("tool_call")' = At("tool_call") /\ At("tool_result")' = At("tool_result")
      /\ \A p \in 1 .. L : Id(p)' = <<round, order[p]>>
  BY <1>0, <1>1, <1>2, <1>3, <1>4, <1>5, <1>4B, AgentAssumption
  DEF Place, Before, Dispatching, Over, Announced,
      Answered, Committed, Types, At, Id
<1>7. Types'  BY <1>0, <1>1, <1>2, <1>3, <1>4, <1>5, <1>6, <1>4B DEF Types, PCs
<1>8. Place'  BY <1>0, <1>1, <1>2, <1>3, <1>4, <1>5, <1>6, <1>4B DEF Place, Dispatching
<1>9. PairsFit'  BY <1>0, <1>1, <1>2, <1>3, <1>4, <1>5, <1>6, PairsStay
<1>10. RoundFits'
  <2>1. SUFFICES ASSUME faults = 0  PROVE  RoundFits'  BY <1>1 DEF RoundFits
  <2>2. \A m \in At("tool_call") : events[m].call[1] # round
    BY <1>0, <1>6, CallNumbers DEF NumbersFit
  <2>3. \A m \in At("tool_result") : events[m].call[1] # round
    BY <1>0, <2>1, <2>2 DEF PairsFit
  <2>4. \A p \in 1 .. L : Id(p)'[1] = round  BY <1>6
  <2>5. \A m \in At("tool_call") : \E j \in At("tool_result") : events[j].call = events[m].call
    BY <1>0, <1>6, <2>1 DEF RoundFits
  <2> QED  BY <1>1, <1>4, <1>4B, <1>5, <1>6, <2>2, <2>3, <2>4, <2>5 DEF RoundFits
<1>11. NumbersFit'  BY <1>0, <1>1, <1>2, <1>3, <1>4, <1>5, <1>6, NumbersStay
<1>12. RowsFit'  BY <1>0, <1>1, <1>2, <1>3, <1>4, <1>5, <1>6, RowsStay DEF Types
<1>13. ToolsFit'
  <2>1. issued \subseteq fulfilled  BY <1>0, <1>6 DEF ToolsFit
  <2> QED  BY <1>0, <1>1, <1>6, <2>1 DEF ToolsFit, Stored
<1>14. LastFits'  BY <1>0, <1>1, <1>2, <1>3, <1>4, <1>5, <1>6, LastStays
<1>15. SayingsFit'  BY <1>0, <1>1, <1>2, <1>3, <1>4, <1>5, <1>6, SayingsStay
<1> QED  BY <1>7, <1>8, <1>9, <1>10, <1>11, <1>12, <1>13, <1>14, <1>15 DEF IInv

\* A pause keeps the invariant.
LEMMA PauseStep ==
  ASSUME IInv, AfterDispatch, pc' = "pause"
  PROVE  IInv'
<1>0. /\ Types /\ Place /\ PairsFit /\ RoundFits /\ NumbersFit /\ RowsFit /\ ToolsFit
      /\ LastFits /\ SayingsFit
  BY DEF IInv
<1>1. /\ round' = round /\ calls' = calls /\ first' = first /\ k' = k /\ invoked' = invoked
      /\ issued' = issued /\ fulfilled' = fulfilled /\ deltas' = deltas /\ turnSeq' = turnSeq
      /\ roundSeq' = roundSeq /\ events' = events /\ log' = log /\ cancelled' = cancelled
      /\ faults' = faults
  BY DEF AfterDispatch, Goto, loop
<1>2. pc = "dispatched" /\ pc' = "pause"
  BY DEF AfterDispatch, Goto
<1>3. /\ Announced' = Announced /\ Answered' = Answered /\ Committed' = Committed
      /\ Dispatching' = Dispatching /\ (Before' => Before) /\ Over' = Over
      /\ GroupEnd' = GroupEnd
  BY <1>1, <1>2, GroupStays DEF Announced, Answered, Committed, Dispatching, Before, Over
<1>4. Types'  BY <1>0, <1>1, <1>2, <1>3 DEF Types, PCs
<1>5. Place'  BY <1>0, <1>1, <1>2, <1>3 DEF Place, Dispatching
<1>6. PairsFit'  BY <1>0, <1>1, <1>2, <1>3, PairsStay
<1>7. RoundFits'  BY <1>0, <1>1, <1>2, <1>3, RoundStays
<1>8. NumbersFit'  BY <1>0, <1>1, <1>2, <1>3, NumbersStay
<1>9. RowsFit'  BY <1>0, <1>1, <1>2, <1>3, RowsStay DEF Types
<1>10. ToolsFit'  BY <1>0, <1>1, <1>2, <1>3, ToolsStay
<1>11. LastFits'  BY <1>0, <1>1, <1>2, <1>3, LastStays
<1>12. SayingsFit'  BY <1>0, <1>1, <1>2, <1>3, SayingsStay
<1> QED  BY <1>4, <1>5, <1>6, <1>7, <1>8, <1>9, <1>10, <1>11, <1>12 DEF IInv

\* Another round keeps the invariant.
LEMMA NextRoundStep ==
  ASSUME IInv, AfterDispatch, pc' # "pause"
  PROVE  IInv'
<1>0. /\ Types /\ Place /\ PairsFit /\ RoundFits /\ NumbersFit /\ RowsFit /\ ToolsFit
      /\ LastFits /\ SayingsFit
  BY DEF IInv
<1>1. /\ first' = first /\ k' = k /\ invoked' = invoked /\ issued' = issued
      /\ fulfilled' = fulfilled /\ turnSeq' = turnSeq /\ roundSeq' = roundSeq
      /\ events' = events /\ log' = log /\ cancelled' = cancelled /\ faults' = faults
  BY DEF AfterDispatch, loop
<1>2. pc = "dispatched" /\ pc' = "alloc" /\ round' = round + 1 /\ calls' = <<>> /\ deltas' = 0
  BY DEF AfterDispatch, Goto
<1>3. /\ Len(calls) \in Nat /\ Len(calls') = 0 /\ round <= MaxRound /\ round \in Nat \ {0}
      /\ Before' /\ ~ Dispatching /\ ~ Dispatching' /\ Over' = Over
      /\ Announced' = 0 /\ Answered' = 0 /\ Committed' = 0
      /\ Answered = Len(calls) /\ Committed = Len(calls)
      /\ At("tool_call")' = At("tool_call") /\ At("tool_result")' = At("tool_result")
  BY <1>0, <1>1, <1>2, AgentAssumption DEF Place, Before, Dispatching, Over, Announced,
     Answered, Committed, Types, At
<1>4. Types'
  <2>1. <<>> \in Seq(CallRecords)  OBVIOUS
  <2>2. round + 1 \in 1 .. MaxRound + 1 /\ 0 \in 0 .. MaxDeltas  BY <1>3, AgentAssumption
  <2> QED  BY <1>0, <1>1, <1>2, <1>3, <2>1, <2>2 DEF Types, PCs
<1>5. Place'  BY <1>0, <1>1, <1>2, <1>3 DEF Place, Dispatching
<1>6. PairsFit'  BY <1>0, <1>1, <1>2, <1>3, PairsStay
<1>7. RoundFits'
  <2>1. faults = 0 => \A m \in At("tool_call") : \E j \in At("tool_result") :
          events[j].call = events[m].call
    BY <1>0, <1>3 DEF RoundFits
  <2> QED  BY <1>1, <1>2, <1>3, <2>1 DEF RoundFits
<1>8. NumbersFit'
  <2>1. \A m \in At("tool_call") : events[m].call[1] < round'
    BY <1>0, <1>2, <1>3, CallNumbers DEF NumbersFit
  <2>2. \A n \in DOMAIN log : log[n].role = "assistant" => \A c \in log[n].calls : c[1] < round'
    BY <1>0, <1>2, <1>3, CallNumbers DEF NumbersFit
  <2>3. \A x \in Nat : x < round' => x <= round' /\ x # round'  BY <1>2, <1>3
  <2> QED  BY <1>0, <1>1, <1>3, <2>1, <2>2, <2>3, CallNumbers DEF NumbersFit
<1>9. RowsFit'
  <2>1. turnSeq' \in Nat /\ turnSeq' >= turnSeq  BY <1>0, <1>1 DEF Types
  <2>2. pc' \notin {"stream", "answer", "record"}  BY <1>2
  <2> QED  BY <1>0, <1>1, <2>1, <2>2, RowsStay
<1>10. ToolsFit'
  <2>1. Committed + 1 .. Len(calls) = {}  BY <1>3
  <2>2. issued \subseteq fulfilled  BY <1>0, <2>1 DEF ToolsFit
  <2> QED  BY <1>0, <1>1, <1>3, <2>2 DEF ToolsFit, Stored
<1>11. LastFits'  BY <1>0, <1>1, <1>2, <1>3, LastStays
<1>12. SayingsFit'
  <2>1. (\A s : HasRow(s)' = HasRow(s)) /\ (\A n : Says(n)' = Says(n))  BY <1>1 DEF HasRow, Says
  <2>2. round' # 1 /\ pc # "alloc"  BY <1>2, <1>3
  <2> QED  BY <1>0, <1>1, <1>2, <1>3, <2>1, <2>2 DEF SayingsFit
<1> QED  BY <1>4, <1>5, <1>6, <1>7, <1>8, <1>9, <1>10, <1>11, <1>12 DEF IInv
-----------------------------------------------------------------------------
(* The steps that emit. *)

\* A delta keeps the invariant.
LEMMA StreamTextStep ==
  ASSUME IInv, StreamText
  PROVE  IInv'
<1>0. /\ Types /\ Place /\ PairsFit /\ RoundFits /\ NumbersFit /\ RowsFit /\ ToolsFit
      /\ LastFits /\ SayingsFit
  BY DEF IInv
<1>1. /\ pc' = pc /\ round' = round /\ calls' = calls /\ first' = first /\ k' = k
      /\ invoked' = invoked /\ issued' = issued /\ fulfilled' = fulfilled /\ turnSeq' = turnSeq
      /\ roundSeq' = roundSeq /\ log' = log /\ cancelled' = cancelled
  BY DEF StreamText
<1>2. pc = "stream" /\ deltas' \in 0 .. MaxDeltas
  BY <1>0, AgentAssumption DEF StreamText, Types
<1>3. /\ Announced' = Announced /\ Answered' = Answered /\ Committed' = Committed
      /\ Dispatching' = Dispatching /\ (Before' => Before) /\ Over' = Over
      /\ GroupEnd' = GroupEnd
  BY <1>1, GroupStays DEF Announced, Answered, Committed, Dispatching, Before, Over
<1> DEFINE e == Event("text", roundSeq, NoCall)
<1>4. /\ e \in EventRecords /\ Emit(e) /\ e.type = "text" /\ e.seq = roundSeq
  <2>1. roundSeq \in Nat /\ NoCall \in CallIds  BY <1>0 DEF Types, CallIds
  <2> QED  BY <1>0, <1>2, <2>1 DEF StreamText, Event, EventRecords, EventTypes
<1>5. /\ events' \in Seq(EventRecords) /\ faults' \in 0 .. MaxFaults
      /\ (faults' = 0 => faults = 0)
  BY <1>0, <1>4, EmitFacts
<1> HIDE DEF e
<1>6. Types'  BY <1>0, <1>1, <1>2, <1>3, <1>4, <1>5 DEF Types
<1>7. Place'  BY <1>0, <1>1, <1>2, <1>3, <1>4, <1>5 DEF Place, Dispatching
<1>8. PairsFit'  BY <1>0, <1>1, <1>2, <1>3, <1>4, <1>5, PairsEmit
<1>9. RoundFits'  BY <1>0, <1>1, <1>2, <1>3, <1>4, <1>5, RoundEmit
<1>10. NumbersFit'  BY <1>0, <1>1, <1>2, <1>3, <1>4, <1>5, NumbersEmit
<1>11. RowsFit'  BY <1>0, <1>1, <1>2, <1>3, <1>4, <1>5, RowsStay DEF Types
<1>12. ToolsFit'  BY <1>0, <1>1, <1>2, <1>3, <1>4, <1>5, ToolsStay
<1>13. LastFits'  BY <1>0, <1>1, <1>2, <1>3, <1>4, <1>5, LastEmit DEF Over
<1>14. SayingsFit'
  <2>1. roundSeq > 1  BY <1>0, <1>2 DEF RowsFit
  <2> QED  BY <1>0, <1>1, <1>2, <1>3, <1>4, <1>5, <2>1, SayingsEmit DEF Dispatching
<1> QED  BY <1>6, <1>7, <1>8, <1>9, <1>10, <1>11, <1>12, <1>13, <1>14 DEF IInv

\* Announcing a call keeps the invariant.
LEMMA EmitCallStep ==
  ASSUME IInv, EmitCall
  PROVE  IInv'
<1>0. /\ Types /\ Place /\ PairsFit /\ RoundFits /\ NumbersFit /\ RowsFit /\ ToolsFit
      /\ LastFits /\ SayingsFit
  BY DEF IInv
<1>1. /\ round' = round /\ calls' = calls /\ first' = first /\ invoked' = invoked
      /\ issued' = issued /\ fulfilled' = fulfilled /\ deltas' = deltas /\ turnSeq' = turnSeq
      /\ roundSeq' = roundSeq /\ log' = log /\ cancelled' = cancelled
  BY DEF EmitCall
<1>2. /\ pc = "emit" /\ pc' \in {"emit", "invoke"}
      /\ k < GroupEnd => k' = k + 1 /\ pc' = "emit"
      /\ ~ (k < GroupEnd) => k' = first /\ pc' = "invoke"
  BY DEF EmitCall, Goto
<1>3. /\ Len(calls) \in Nat /\ first \in 1 .. Len(calls) /\ k \in first .. GroupEnd
      /\ GroupEnd \in first .. Len(calls) /\ GroupEnd' = GroupEnd
  BY <1>0, <1>1, <1>2, PlaceFacts, GroupStays DEF Dispatching
<1>4. /\ Id(k) \in CallIds /\ Id(k)[1] = round /\ k \in 1 .. Len(calls)
      /\ \A p \in 1 .. Len(calls) : Id(k) = Id(p) => p = k
      /\ \A p : Id(p)' = Id(p)
  BY <1>0, <1>1, <1>2, <1>3, IdFacts, IdStays DEF Place, Dispatching
<1>5. /\ Announced = k - 1 /\ Announced' = k /\ Answered = first - 1 /\ Answered' = Answered
      /\ Committed' = Committed /\ Dispatching /\ Dispatching' /\ ~ Before' /\ ~ Over
      /\ ~ Over'
  BY <1>1, <1>2, <1>3 DEF Announced, Answered, Committed, Dispatching, Before, Over
<1> DEFINE e == Event("tool_call", roundSeq, Id(k))
<1>6. /\ e \in EventRecords /\ Emit(e) /\ e.type = "tool_call" /\ e.seq = roundSeq
      /\ e.call = Id(k)
  <2>1. roundSeq \in Nat /\ NoCall \in CallIds  BY <1>0 DEF Types, CallIds
  <2> QED  BY <1>0, <1>2, <2>1, <1>4 DEF EmitCall, Event, EventRecords, EventTypes
<1>7. /\ events' \in Seq(EventRecords) /\ faults' \in 0 .. MaxFaults
      /\ (faults' = 0 => faults = 0)
  BY <1>0, <1>6, EmitFacts
<1> HIDE DEF e
<1>8. /\ \A n \in At("tool_call")' :
           n \in At("tool_call") \/ (n = Len(events) + 1 /\ events'[n].call = Id(k))
      /\ At("tool_result")' = At("tool_result") /\ Len(events) \in Nat
      /\ \A n \in At("tool_call") \cup At("tool_result") :
           n \in 1 .. Len(events) /\ events'[n] = events[n]
      /\ \A n \in At("tool_call") : n \in At("tool_call")'
      /\ faults' = 0 => /\ Len(events) + 1 \in At("tool_call")'
                        /\ events'[Len(events) + 1].call = Id(k)
  <2>1. Len(events) \in Nat  BY <1>0, <1>6, EmitFacts
  <2>2. At("tool_result")' = At("tool_result")  BY <1>0, <1>6, AtFacts
  <2> QED  BY <1>0, <1>6, <2>1, <2>2, AtFacts
<1>9. faults = 0 => /\ \A m \in At("tool_call") : events[m].call # Id(k)
                     /\ \A j \in At("tool_result") : events[j].call # Id(k)
  BY <1>0, <1>3, <1>4, <1>5 DEF RoundFits
<1>10. Types'
  <2>1. k' \in Nat /\ pc' \in PCs  BY <1>2, <1>3 DEF PCs
  <2> QED  BY <1>0, <1>1, <1>7, <2>1 DEF Types
<1>11. Place'
  BY <1>0, <1>1, <1>2, <1>3, <1>4, <1>5, <1>6, <1>7, <1>8, <1>9 DEF Place, Dispatching
<1>12. PairsFit'
  <2> SUFFICES ASSUME faults' = 0  PROVE  PairsFit'  BY DEF PairsFit
  <2>1. faults = 0  BY <1>7
  <2>2. \A m, n \in At("tool_call")' : events'[m].call = events'[n].call => m = n
    BY <1>0, <1>8, <1>9, <2>1 DEF PairsFit
  <2>3. \A m, n \in At("tool_result")' : events'[m].call = events'[n].call => m = n
    BY <1>0, <1>8, <2>1 DEF PairsFit
  <2>4. \A j \in At("tool_result")' : \E m \in At("tool_call")' :
          m < j /\ events'[m].call = events'[j].call
    BY <1>0, <1>8, <2>1 DEF PairsFit
  <2>5. \A m, n \in At("tool_call")' : \A j \in At("tool_result")' :
          m < n /\ events'[j].call = events'[n].call =>
            \E i \in At("tool_result")' : i < j /\ events'[i].call = events'[m].call
    <3> SUFFICES ASSUME NEW m \in At("tool_call")', NEW n \in At("tool_call")', m < n,
                        NEW j \in At("tool_result"), events[j].call = events'[n].call
                 PROVE  \E i \in At("tool_result") : i < j /\ events[i].call = events'[m].call
      BY <1>8
    <3>1. n \in At("tool_call")  BY <1>8, <1>9, <2>1
    <3>2. m \in At("tool_call")  BY <1>8, <3>1
    <3> QED  BY <1>0, <1>8, <2>1, <3>1, <3>2 DEF PairsFit
  <2> QED  BY <2>2, <2>3, <2>4, <2>5 DEF PairsFit
<1>13. RoundFits'
  <2> SUFFICES ASSUME faults' = 0  PROVE  RoundFits'  BY DEF RoundFits
  <2>1. faults = 0  BY <1>7
  <2>2. \A p \in 1 .. Len(calls) :
          (\E m \in At("tool_call")' : events'[m].call = Id(p)) <=> p <= k
    <3> TAKE p \in 1 .. Len(calls)
    <3>1. (\E m \in At("tool_call") : events[m].call = Id(p)) <=> p <= k - 1
      BY <1>0, <1>5, <2>1 DEF RoundFits
    <3>2. CASE p = k  BY <1>8, <3>2
    <3>3. CASE p # k
      <4>1. p <= k <=> p <= k - 1  BY <1>3, <1>4, <3>3
      <4> QED  BY <1>4, <1>8, <3>1, <3>3, <4>1
    <3> QED  BY <3>2, <3>3
  <2>3. \A p \in 1 .. Len(calls) :
          (\E m \in At("tool_result")' : events'[m].call = Id(p)) <=> p <= Answered
    BY <1>0, <1>8, <2>1 DEF RoundFits
  <2>4. \A m, n \in At("tool_call")' : \A p, q \in 1 .. Len(calls) :
          m < n /\ events'[m].call = Id(p) /\ events'[n].call = Id(q) => p < q
    <3> SUFFICES ASSUME NEW m \in At("tool_call")', NEW n \in At("tool_call")',
                        NEW p \in 1 .. Len(calls), NEW q \in 1 .. Len(calls),
                        m < n, events'[m].call = Id(p), events'[n].call = Id(q)
                 PROVE  p < q
      OBVIOUS
    <3>1. m \in At("tool_call") /\ events[m].call = Id(p)  BY <1>8
    <3>2. CASE n \in At("tool_call")  BY <1>0, <1>8, <2>1, <3>1, <3>2 DEF RoundFits
    <3>3. CASE n = Len(events) + 1
      <4>1. q = k  BY <1>4, <1>8, <3>3
      <4>2. p <= k - 1  BY <1>0, <1>5, <2>1, <3>1 DEF RoundFits
      <4> QED  BY <1>4, <4>1, <4>2
    <3> QED  BY <1>8, <3>2, <3>3
  <2>5. \A m \in At("tool_call")' :
          \/ \E p \in 1 .. Len(calls) : events'[m].call = Id(p)
          \/ \E j \in At("tool_result")' : events'[j].call = events'[m].call
    BY <1>0, <1>4, <1>8, <2>1 DEF RoundFits
  <2> QED  BY <1>1, <1>4, <1>5, <2>2, <2>3, <2>4, <2>5 DEF RoundFits
<1>14. NumbersFit'  BY <1>0, <1>1, <1>2, <1>3, <1>4, <1>5, <1>6, <1>7, <1>8, <1>9, NumbersEmit
<1>15. RowsFit'
  BY <1>0, <1>1, <1>2, <1>3, <1>4, <1>5, <1>6, <1>7, <1>8, <1>9, RowsStay DEF Types
<1>16. ToolsFit'  BY <1>0, <1>1, <1>2, <1>3, <1>4, <1>5, <1>6, <1>7, <1>8, <1>9, ToolsStay
<1>17. LastFits'  BY <1>0, <1>1, <1>2, <1>3, <1>4, <1>5, <1>6, <1>7, <1>8, <1>9, LastEmit
<1>18. SayingsFit'
  <2>1. faults' = 0 /\ ~ cancelled => roundSeq > 1
    BY <1>0, <1>5, <1>7 DEF SayingsFit, RowsFit, HasRow
  <2>2. pc' # "alloc" /\ pc' # "dispatched"  BY <1>2
  <2> QED  BY <1>0, <1>1, <1>5, <1>6, <2>1, <2>2, SayingsEmit
<1> QED  BY <1>10, <1>11, <1>12, <1>13, <1>14, <1>15, <1>16, <1>17, <1>18 DEF IInv

\* A call that asks nothing keeps the invariant.
LEMMA InvokeStep ==
  ASSUME IInv, Invoke, UNCHANGED <<events, faults>>
  PROVE  IInv'
<1>0. /\ Types /\ Place /\ PairsFit /\ RoundFits /\ NumbersFit /\ RowsFit /\ ToolsFit
      /\ LastFits /\ SayingsFit
  BY DEF IInv
<1>1. /\ round' = round /\ calls' = calls /\ first' = first /\ k' = k /\ issued' = issued
      /\ fulfilled' = fulfilled /\ deltas' = deltas /\ turnSeq' = turnSeq
      /\ roundSeq' = roundSeq /\ log' = log /\ cancelled' = cancelled
  BY DEF Invoke
<1>2. /\ pc = "invoke" /\ pc' \in {"invoke", "commit"} /\ invoked' \subseteq first .. GroupEnd
  <2>1. invoked \subseteq first .. GroupEnd  BY <1>0 DEF Invoke, Place, Dispatching
  <2> QED  BY <2>1 DEF Invoke, Goto
<1>3. /\ Len(calls) \in Nat /\ first \in 1 .. Len(calls) /\ k \in first .. GroupEnd
      /\ GroupEnd \in first .. Len(calls) /\ GroupEnd' = GroupEnd
  BY <1>0, <1>1, <1>2, PlaceFacts, GroupStays DEF Dispatching
<1>4. /\ Announced' = Announced /\ Answered' = Answered /\ Committed' = Committed
      /\ Dispatching /\ Dispatching' /\ ~ Before' /\ ~ Over /\ ~ Over'
  <2>1. k = first  BY <1>0, <1>2 DEF Place, Dispatching
  <2> QED  BY <1>1, <1>2, <1>3, <2>1 DEF Announced, Answered, Committed, Dispatching, Before, Over
<1>5. events' = events /\ faults' = faults
  OBVIOUS
<1>6. Types'  BY <1>0, <1>1, <1>2, <1>3, <1>4, <1>5 DEF Types, PCs
<1>7. Place'  BY <1>0, <1>1, <1>2, <1>3, <1>4, <1>5 DEF Place, Dispatching
<1>8. PairsFit'  BY <1>0, <1>1, <1>2, <1>3, <1>4, <1>5, PairsStay
<1>9. RoundFits'  BY <1>0, <1>1, <1>2, <1>3, <1>4, <1>5, RoundStays
<1>10. NumbersFit'  BY <1>0, <1>1, <1>2, <1>3, <1>4, <1>5, NumbersStay
<1>11. RowsFit'  BY <1>0, <1>1, <1>2, <1>3, <1>4, <1>5, RowsStay DEF Types
<1>12. ToolsFit'  BY <1>0, <1>1, <1>2, <1>3, <1>4, <1>5, ToolsStay
<1>13. LastFits'  BY <1>0, <1>1, <1>2, <1>3, <1>4, <1>5, LastStays
<1>14. SayingsFit'
  <2>1. pc' # "alloc" /\ pc' # "dispatched"  BY <1>2
  <2> QED  BY <1>0, <1>1, <1>2, <1>3, <1>4, <1>5, <2>1, SayingsStay
<1> QED  BY <1>6, <1>7, <1>8, <1>9, <1>10, <1>11, <1>12, <1>13, <1>14 DEF IInv

\* A question keeps the invariant.
LEMMA QuestionStep ==
  ASSUME IInv, Invoke, NEW q \in first .. GroupEnd, Emit(Event("question", 0, Id(q)))
  PROVE  IInv'
<1>0. /\ Types /\ Place /\ PairsFit /\ RoundFits /\ NumbersFit /\ RowsFit /\ ToolsFit
      /\ LastFits /\ SayingsFit
  BY DEF IInv
<1>1. /\ round' = round /\ calls' = calls /\ first' = first /\ k' = k /\ issued' = issued
      /\ fulfilled' = fulfilled /\ deltas' = deltas /\ turnSeq' = turnSeq
      /\ roundSeq' = roundSeq /\ log' = log /\ cancelled' = cancelled
  BY DEF Invoke
<1>2. /\ pc = "invoke" /\ pc' \in {"invoke", "commit"} /\ invoked' \subseteq first .. GroupEnd
  <2>1. invoked \subseteq first .. GroupEnd  BY <1>0 DEF Invoke, Place, Dispatching
  <2> QED  BY <2>1 DEF Invoke, Goto
<1>3. /\ Len(calls) \in Nat /\ first \in 1 .. Len(calls) /\ k \in first .. GroupEnd
      /\ GroupEnd \in first .. Len(calls) /\ GroupEnd' = GroupEnd
  BY <1>0, <1>1, <1>2, PlaceFacts, GroupStays DEF Dispatching
<1>4. /\ Announced' = Announced /\ Answered' = Answered /\ Committed' = Committed
      /\ Dispatching /\ Dispatching' /\ ~ Before' /\ ~ Over /\ ~ Over'
  <2>1. k = first  BY <1>0, <1>2 DEF Place, Dispatching
  <2> QED  BY <1>1, <1>2, <1>3, <2>1 DEF Announced, Answered, Committed, Dispatching, Before, Over
<1> DEFINE e == Event("question", 0, Id(q))
<1>5. /\ e \in EventRecords /\ Emit(e) /\ e.type = "question" /\ e.seq = 0
  <2>1. q \in 1 .. Len(calls)  BY <1>3
  <2>2. Id(q) \in CallIds  BY <1>0, <1>2, <2>1, IdFacts DEF Place, Dispatching
  <2> QED  BY <2>2 DEF Event, EventRecords, EventTypes
<1>6. /\ events' \in Seq(EventRecords) /\ faults' \in 0 .. MaxFaults
      /\ (faults' = 0 => faults = 0)
  BY <1>0, <1>5, EmitFacts
<1> HIDE DEF e
<1>7. Types'  BY <1>0, <1>1, <1>2, <1>3, <1>4, <1>5, <1>6 DEF Types, PCs
<1>8. Place'  BY <1>0, <1>1, <1>2, <1>3, <1>4, <1>5, <1>6 DEF Place, Dispatching
<1>9. PairsFit'  BY <1>0, <1>1, <1>2, <1>3, <1>4, <1>5, <1>6, PairsEmit
<1>10. RoundFits'  BY <1>0, <1>1, <1>2, <1>3, <1>4, <1>5, <1>6, RoundEmit
<1>11. NumbersFit'  BY <1>0, <1>1, <1>2, <1>3, <1>4, <1>5, <1>6, NumbersEmit
<1>12. RowsFit'  BY <1>0, <1>1, <1>2, <1>3, <1>4, <1>5, <1>6, RowsStay DEF Types
<1>13. ToolsFit'  BY <1>0, <1>1, <1>2, <1>3, <1>4, <1>5, <1>6, ToolsStay
<1>14. LastFits'  BY <1>0, <1>1, <1>2, <1>3, <1>4, <1>5, <1>6, LastEmit
<1>15. SayingsFit'
  <2>1. pc' # "alloc" /\ pc' # "dispatched"  BY <1>2
  <2> QED  BY <1>0, <1>1, <1>2, <1>3, <1>4, <1>5, <1>6, <2>1, SayingsEmit
<1> QED  BY <1>7, <1>8, <1>9, <1>10, <1>11, <1>12, <1>13, <1>14, <1>15 DEF IInv

\* A result keeps the invariant.
LEMMA EmitResultStep ==
  ASSUME IInv, EmitResult
  PROVE  IInv'
<1>0. /\ Types /\ Place /\ PairsFit /\ RoundFits /\ NumbersFit /\ RowsFit /\ ToolsFit
      /\ LastFits /\ SayingsFit
  BY DEF IInv
<1>1. /\ round' = round /\ calls' = calls /\ issued' = issued /\ fulfilled' = fulfilled
      /\ deltas' = deltas /\ turnSeq' = turnSeq /\ roundSeq' = roundSeq /\ log' = log
      /\ cancelled' = cancelled
  BY DEF EmitResult
<1>2. /\ pc = "result"
      /\ k < GroupEnd => k' = k + 1 /\ pc' = "commit" /\ first' = first /\ invoked' = invoked
      /\ ~ (k < GroupEnd) => /\ first' = k + 1 /\ k' = k + 1 /\ invoked' = {}
                             /\ pc' = IF k < Len(calls) THEN "emit" ELSE "dispatched"
  BY DEF EmitResult, Goto
<1>3. /\ Len(calls) \in Nat /\ first \in 1 .. Len(calls) /\ k \in first .. GroupEnd
      /\ GroupEnd \in first .. Len(calls)
  BY <1>0, <1>2, PlaceFacts DEF Dispatching
<1>4. /\ Id(k) \in CallIds /\ Id(k)[1] = round /\ k \in 1 .. Len(calls)
      /\ \A p \in 1 .. Len(calls) : Id(k) = Id(p) => p = k
      /\ \A p : Id(p)' = Id(p)
  BY <1>0, <1>1, <1>2, <1>3, IdFacts, IdStays DEF Place, Dispatching
<1>5. /\ k < GroupEnd => GroupEnd' = GroupEnd
      /\ ~ (k < GroupEnd) => /\ k = GroupEnd
                             /\ k < Len(calls) => GroupEnd' \in k + 1 .. Len(calls)
  <2>1. CASE k < GroupEnd  BY <1>1, <1>2, <2>1, GroupStays
  <2>2. CASE ~ (k < GroupEnd)
    <3>1. k = GroupEnd  BY <1>3, <2>2
    <3>2. CASE k < Len(calls)
      <4>1. k + 1 \in 1 .. Len(calls) /\ calls \in Seq(CallRecords)  BY <1>0, <1>4, <3>2 DEF Types
      <4>2. EndOf(calls, k + 1) \in k + 1 .. Len(calls)  BY <4>1, EndFacts
      <4>3. GroupEnd' = EndOf(calls, k + 1)  BY <1>1, <1>2, <2>2, GroupIs
      <4> QED  BY <2>2, <3>1, <4>2, <4>3
    <3> QED  BY <2>2, <3>1, <3>2
  <2> QED  BY <2>1, <2>2
<1>6. /\ Announced = GroupEnd /\ Announced' = Announced /\ Answered = k - 1 /\ Answered' = k
      /\ Committed' = Committed /\ Dispatching /\ ~ Before' /\ ~ Over /\ ~ Over'
      /\ pc' # "alloc" /\ pc' \in PCs
  <2>1. CASE k < GroupEnd
    BY <1>1, <1>2, <1>3, <1>5, <2>1 DEF Announced, Answered, Committed, Dispatching, Before,
       Over, PCs
  <2>2. CASE ~ (k < GroupEnd)
    BY <1>1, <1>2, <1>3, <1>5, <2>2 DEF Announced, Answered, Committed, Dispatching, Before,
       Over, PCs
  <2> QED  BY <2>1, <2>2
<1> DEFINE e == Event("tool_result", 0, Id(k))
<1>7. /\ e \in EventRecords /\ Emit(e) /\ e.type = "tool_result" /\ e.seq = 0
      /\ e.call = Id(k)
  <2>1. roundSeq \in Nat /\ NoCall \in CallIds  BY <1>0 DEF Types, CallIds
  <2> QED  BY <1>0, <1>2, <2>1, <1>4 DEF EmitResult, Event, EventRecords, EventTypes
<1>8. /\ events' \in Seq(EventRecords) /\ faults' \in 0 .. MaxFaults
      /\ (faults' = 0 => faults = 0)
  BY <1>0, <1>7, EmitFacts
<1> HIDE DEF e
<1>9. /\ \A n \in At("tool_result")' :
           n \in At("tool_result") \/ (n = Len(events) + 1 /\ events'[n].call = Id(k))
      /\ At("tool_call")' = At("tool_call") /\ Len(events) \in Nat
      /\ \A n \in At("tool_call") \cup At("tool_result") :
           n \in 1 .. Len(events) /\ events'[n] = events[n]
      /\ \A n \in At("tool_result") : n \in At("tool_result")'
      /\ faults' = 0 => /\ Len(events) + 1 \in At("tool_result")'
                        /\ events'[Len(events) + 1].call = Id(k)
  <2>1. Len(events) \in Nat  BY <1>0, <1>7, EmitFacts
  <2>2. At("tool_call")' = At("tool_call")  BY <1>0, <1>7, AtFacts
  <2> QED  BY <1>0, <1>7, <2>1, <2>2, AtFacts
<1>10. Types'  BY <1>0, <1>1, <1>2, <1>3, <1>6, <1>8 DEF Types
<1>11. Place'
  <2>1. CASE k < GroupEnd  BY <1>0, <1>1, <1>2, <1>3, <1>5, <2>1 DEF Place, Dispatching
  <2>2. CASE ~ (k < GroupEnd)
    <3>1. CASE k < Len(calls)
      BY <1>0, <1>1, <1>2, <1>3, <1>5, <2>2, <3>1 DEF Place, Dispatching
    <3>2. CASE ~ (k < Len(calls))
      BY <1>0, <1>1, <1>2, <1>3, <1>5, <2>2, <3>2 DEF Place, Dispatching
    <3> QED  BY <3>1, <3>2
  <2> QED  BY <2>1, <2>2
<1>12. PairsFit'
  <2> SUFFICES ASSUME faults' = 0  PROVE  PairsFit'  BY DEF PairsFit
  <2>1. faults = 0  BY <1>8
  <2>2. \A j \in At("tool_result") : events[j].call # Id(k)
    BY <1>0, <1>3, <1>4, <1>6, <2>1 DEF RoundFits
  <2>3. \E m \in At("tool_call") : events[m].call = Id(k)
    BY <1>0, <1>3, <1>4, <1>6, <2>1 DEF RoundFits
  <2>4. \A m, n \in At("tool_call") : m < n /\ events[n].call = Id(k) =>
          \E i \in At("tool_result") : events[i].call = events[m].call
    <3> SUFFICES ASSUME NEW m \in At("tool_call"), NEW n \in At("tool_call"), m < n,
                        events[n].call = Id(k)
                 PROVE  \E i \in At("tool_result") : events[i].call = events[m].call
      OBVIOUS
    <3>1. CASE \E p \in 1 .. Len(calls) : events[m].call = Id(p)
      <4>1. PICK p \in 1 .. Len(calls) : events[m].call = Id(p)  BY <3>1
      <4>2. p < k  BY <1>0, <1>4, <2>1, <4>1 DEF RoundFits
      <4>3. p <= k - 1  BY <1>4, <4>2
      <4> QED  BY <1>0, <1>6, <2>1, <4>1, <4>3 DEF RoundFits
    <3> QED  BY <1>0, <2>1, <3>1 DEF RoundFits
  <2>5. \A m, n \in At("tool_call")' : events'[m].call = events'[n].call => m = n
    BY <1>0, <1>9, <2>1 DEF PairsFit
  <2>6. \A m, n \in At("tool_result")' : events'[m].call = events'[n].call => m = n
    BY <1>0, <1>9, <2>1, <2>2 DEF PairsFit
  <2>7. \A j \in At("tool_result")' : \E m \in At("tool_call")' :
          m < j /\ events'[m].call = events'[j].call
    BY <1>0, <1>9, <2>1, <2>3 DEF PairsFit
  <2>8. \A m, n \in At("tool_call")' : \A j \in At("tool_result")' :
          m < n /\ events'[j].call = events'[n].call =>
            \E i \in At("tool_result")' : i < j /\ events'[i].call = events'[m].call
    <3> SUFFICES ASSUME NEW m \in At("tool_call"), NEW n \in At("tool_call"), m < n,
                        NEW j \in At("tool_result")', events'[j].call = events[n].call
                 PROVE  \E i \in At("tool_result") : i < j /\ events[i].call = events[m].call
      BY <1>9
    <3>1. CASE j \in At("tool_result")  BY <1>0, <1>9, <2>1, <3>1 DEF PairsFit
    <3>2. CASE j = Len(events) + 1 /\ events'[j].call = Id(k)  BY <1>9, <2>4, <3>2
    <3> QED  BY <1>9, <3>1, <3>2
  <2> QED  BY <2>5, <2>6, <2>7, <2>8 DEF PairsFit
<1>13. RoundFits'
  <2> SUFFICES ASSUME faults' = 0  PROVE  RoundFits'  BY DEF RoundFits
  <2>1. faults = 0  BY <1>8
  <2>2. \A p \in 1 .. Len(calls) :
          (\E m \in At("tool_result")' : events'[m].call = Id(p)) <=> p <= k
    <3> TAKE p \in 1 .. Len(calls)
    <3>1. (\E m \in At("tool_result") : events[m].call = Id(p)) <=> p <= k - 1
      BY <1>0, <1>6, <2>1 DEF RoundFits
    <3>2. CASE p = k  BY <1>9, <3>2
    <3>3. CASE p # k
      <4>1. p <= k <=> p <= k - 1  BY <1>3, <1>4, <3>3
      <4> QED  BY <1>4, <1>9, <3>1, <3>3, <4>1
    <3> QED  BY <3>2, <3>3
  <2>3. \A p \in 1 .. Len(calls) :
          (\E m \in At("tool_call")' : events'[m].call = Id(p)) <=> p <= Announced
    BY <1>0, <1>9, <2>1 DEF RoundFits
  <2>4. \A m, n \in At("tool_call")' : \A p, q \in 1 .. Len(calls) :
          m < n /\ events'[m].call = Id(p) /\ events'[n].call = Id(q) => p < q
    BY <1>0, <1>9, <2>1 DEF RoundFits
  <2>5. \A m \in At("tool_call")' :
          \/ \E p \in 1 .. Len(calls) : events'[m].call = Id(p)
          \/ \E j \in At("tool_result")' : events'[j].call = events'[m].call
    BY <1>0, <1>9, <2>1 DEF RoundFits
  <2> QED  BY <1>1, <1>4, <1>6, <2>2, <2>3, <2>4, <2>5 DEF RoundFits
<1>14. NumbersFit'  BY <1>0, <1>1, <1>2, <1>3, <1>4, <1>5, <1>6, <1>7, <1>8, <1>9, NumbersEmit
<1>15. RowsFit'
  BY <1>0, <1>1, <1>2, <1>3, <1>4, <1>5, <1>6, <1>7, <1>8, <1>9, RowsStay DEF Types
<1>16. ToolsFit'
  <2>1. (\A p : Id(p)' = Id(p)) /\ Ids' = Ids  BY <1>1, IdStays
  <2> QED  BY <1>0, <1>1, <1>2, <1>3, <1>4, <1>5, <1>6, <1>7, <1>8, <1>9, <2>1 DEF ToolsFit, Stored
<1>17. LastFits'  BY <1>0, <1>1, <1>2, <1>3, <1>4, <1>5, <1>6, <1>7, <1>8, <1>9, LastEmit
<1>18. SayingsFit'  BY <1>0, <1>1, <1>2, <1>3, <1>4, <1>5, <1>6, <1>7, <1>8, <1>9, SayingsEmit
<1> QED  BY <1>10, <1>11, <1>12, <1>13, <1>14, <1>15, <1>16, <1>17, <1>18 DEF IInv

\* The last event keeps the invariant.
LEMMA EmitLastStep ==
  ASSUME IInv, EmitLast
  PROVE  IInv'
<1>0. /\ Types /\ Place /\ PairsFit /\ RoundFits /\ NumbersFit /\ RowsFit /\ ToolsFit
      /\ LastFits /\ SayingsFit
  BY DEF IInv
<1>1. /\ round' = round /\ calls' = calls /\ first' = first /\ k' = k /\ invoked' = invoked
      /\ issued' = issued /\ fulfilled' = fulfilled /\ deltas' = deltas /\ turnSeq' = turnSeq
      /\ roundSeq' = roundSeq /\ log' = log /\ cancelled' = cancelled
  BY DEF EmitLast, loop
<1>2. pc \in {"done", "pause", "seqError", "llmError", "roundError"} /\ pc' = "cleanup"
  BY DEF EmitLast, Goto
<1>3. /\ Announced' = Announced /\ Answered' = Answered /\ Committed' = Committed
      /\ ~ Dispatching /\ ~ Dispatching' /\ ~ Before' /\ ~ Over /\ Over'
  BY <1>1, <1>2 DEF Announced, Answered, Committed, Dispatching, Before, Over
<1> DEFINE e == LastEvent
<1>4. /\ e \in EventRecords /\ Emit(e) /\ e.type \in {"done", "error"}
      /\ e.seq \in {0, roundSeq}
  <2>1. roundSeq \in Nat /\ NoCall \in CallIds  BY <1>0 DEF Types, CallIds
  <2> QED  BY <1>2, <2>1 DEF EmitLast, LastEvent, Event, EventRecords, EventTypes
<1>5. /\ events' \in Seq(EventRecords) /\ faults' \in 0 .. MaxFaults
      /\ (faults' = 0 => faults = 0)
  BY <1>0, <1>4, EmitFacts
<1> HIDE DEF e
<1>6. Types'  BY <1>0, <1>1, <1>2, <1>3, <1>4, <1>5 DEF Types, PCs
<1>7. Place'  BY <1>0, <1>1, <1>2, <1>3, <1>4, <1>5 DEF Place, Dispatching
<1>8. PairsFit'  BY <1>0, <1>1, <1>2, <1>3, <1>4, <1>5, PairsEmit
<1>9. RoundFits'  BY <1>0, <1>1, <1>2, <1>3, <1>4, <1>5, RoundEmit
<1>10. NumbersFit'  BY <1>0, <1>1, <1>2, <1>3, <1>4, <1>5, NumbersEmit
<1>11. RowsFit'  BY <1>0, <1>1, <1>2, <1>3, <1>4, <1>5, RowsStay DEF Types
<1>12. ToolsFit'  BY <1>0, <1>1, <1>2, <1>3, <1>4, <1>5, ToolsStay
<1>13. LastFits'
  <2>1. \A n \in DOMAIN events : events[n].type \notin {"done", "error"}
    BY <1>0, <1>3 DEF LastFits
  <2>2. /\ Len(events) \in Nat /\ DOMAIN events = 1 .. Len(events)
        /\ \/ events' = events /\ faults' # 0
           \/ /\ Len(events') = Len(events) + 1 /\ DOMAIN events' = 1 .. Len(events) + 1
              /\ events'[Len(events) + 1] = e
              /\ \A n \in 1 .. Len(events) : events'[n] = events[n]
    BY <1>0, <1>4, EmitFacts
  <2>3. CASE events' = events /\ faults' # 0  BY <2>1, <2>3 DEF LastFits
  <2>4. CASE /\ Len(events') = Len(events) + 1 /\ DOMAIN events' = 1 .. Len(events) + 1
             /\ events'[Len(events) + 1] = e
             /\ \A n \in 1 .. Len(events) : events'[n] = events[n]
    BY <1>3, <1>4, <2>1, <2>2, <2>4 DEF LastFits
  <2> QED  BY <2>2, <2>3, <2>4
<1>14. SayingsFit'  BY <1>0, <1>1, <1>2, <1>3, <1>4, <1>5, SayingsEmit DEF Types
<1> QED  BY <1>6, <1>7, <1>8, <1>9, <1>10, <1>11, <1>12, <1>13, <1>14 DEF IInv
-----------------------------------------------------------------------------
(* The steps that store. *)

Grown(r) == /\ DOMAIN log' = 1 .. Len(log) + 1
            /\ log'[Len(log) + 1] = r
            /\ \A n \in 1 .. Len(log) : log'[n] = log[n]

\* The rows stay where they are when one is added.
LEMMA GrownFacts ==
  ASSUME Types, Types', NEW r, log' = log \/ Grown(r)
  PROVE  /\ Len(log) \in Nat /\ DOMAIN log = 1 .. Len(log)
         /\ \A n \in DOMAIN log : n \in DOMAIN log' /\ log'[n] = log[n]
         /\ \A n \in DOMAIN log' : \/ n \in DOMAIN log
                                   \/ /\ n = Len(log) + 1 /\ log'[n] = r
                                      /\ Grown(r)
         /\ \A s : HasRow(s) => HasRow(s)'
         /\ \A c, role : Stored(c, role) => Stored(c, role)'
<1>1. Len(log) \in Nat /\ DOMAIN log = 1 .. Len(log) /\ log \in Seq(RowRecords)
  BY DEF Types
<1>2. \A n \in DOMAIN log : n \in DOMAIN log' /\ log'[n] = log[n]
  BY <1>1 DEF Grown
<1>3. \A n \in DOMAIN log' : n \in DOMAIN log \/ (n = Len(log) + 1 /\ log'[n] = r /\ Grown(r))
  BY <1>1 DEF Grown
<1>4. \A s : HasRow(s) => HasRow(s)'  BY <1>2 DEF HasRow
<1>5. Len(log') \in Nat /\ DOMAIN log' = 1 .. Len(log')
  BY DEF Types
<1>6. \A c, role : Stored(c, role) => Stored(c, role)'  BY <1>1, <1>2, <1>5 DEF Stored
<1> QED  BY <1>1, <1>2, <1>3, <1>4, <1>6

\* A row of an answer or of a tool joins the numbers.
LEMMA NumbersStore ==
  ASSUME Types, Types', NumbersFit, NEW r, log' = log \/ Grown(r), events' = events,
         round' = round, roundSeq' = roundSeq, Before' => Before,
         r.role = "assistant" => /\ r.seq = roundSeq
                                 /\ \A c \in r.calls : /\ c[1] = round
                                                        /\ Before /\ ~ Before'
  PROVE  NumbersFit'
<1>1. /\ At("tool_call")' = At("tool_call")
      /\ \A m \in At("tool_call") : events[m].call[1] \in Nat
      /\ round \in Nat
  BY CallNumbers, AgentAssumption DEF At, Types
<1>2. /\ \A n \in DOMAIN log : n \in DOMAIN log' /\ log'[n] = log[n]
      /\ \A n \in DOMAIN log' : n \in DOMAIN log \/ log'[n] = r
  BY GrownFacts
<1>3. \A n \in DOMAIN log' : log'[n].role = "assistant" =>
        \A c \in log'[n].calls :
          /\ c[1] <= round' /\ (Before' => c[1] < round')
          /\ c[1] = round' => log'[n].seq = roundSeq'
  BY <1>1, <1>2 DEF NumbersFit
<1>4. \A m \in At("tool_call")', n \in DOMAIN log' :
        log'[n].role = "assistant" /\ events'[m].call \in log'[n].calls =>
          events'[m].seq = log'[n].seq
  <2> SUFFICES ASSUME NEW m \in At("tool_call"), NEW n \in DOMAIN log',
                      log'[n].role = "assistant", events[m].call \in log'[n].calls
               PROVE  events[m].seq = log'[n].seq
    BY <1>1
  <2>1. CASE n \in DOMAIN log  BY <1>2, <2>1 DEF NumbersFit
  <2>2. CASE log'[n] = r
    <3>1. events[m].call[1] = round /\ Before  BY <2>2
    <3>2. events[m].call[1] < round  BY <3>1 DEF NumbersFit
    <3> QED  BY <1>1, <3>1, <3>2
  <2> QED  BY <1>2, <2>1, <2>2
<1> QED  BY <1>1, <1>3, <1>4 DEF NumbersFit

\* A row whose number is new follows the others.
LEMMA RowsStore ==
  ASSUME Types, Types', RowsFit, NEW r, log' = log \/ Grown(r), turnSeq' >= turnSeq,
         Grown(r) => /\ r.seq > 1 /\ r.seq <= turnSeq'
                     /\ \A n \in DOMAIN log : log[n].seq < r.seq,
         pc' \notin {"stream", "answer", "record"}
  PROVE  RowsFit'
<1>1. /\ Len(log) \in Nat /\ DOMAIN log = 1 .. Len(log)
      /\ \A n \in DOMAIN log : log'[n] = log[n]
      /\ \A n \in DOMAIN log' :
           n \in DOMAIN log \/ (n = Len(log) + 1 /\ log'[n] = r /\ Grown(r))
  BY GrownFacts
<1>2. \A n \in DOMAIN log : log[n].seq \in Nat  BY RecordFacts DEF Types
<1>3. turnSeq \in Nat /\ turnSeq' \in Nat  BY DEF Types
<1>4. \A n \in DOMAIN log' : log'[n].seq > 1 /\ log'[n].seq <= turnSeq'
  BY <1>1, <1>2, <1>3 DEF RowsFit
<1>5. \A m, n \in DOMAIN log' : m < n => log'[m].seq < log'[n].seq
  BY <1>1, <1>2 DEF RowsFit
<1> QED  BY <1>4, <1>5 DEF RowsFit

\* The messages of the tools stay stored when an answer joins them.
LEMMA ToolsStore ==
  ASSUME Types, Types', ToolsFit, NEW r, log' = log \/ Grown(r), r.role # "tool",
         fulfilled' = fulfilled, faults' = 0 => faults = 0, ~ cancelled' => ~ cancelled,
         issued' \subseteq fulfilled \cup {Id(p)' : p \in Committed' + 1 .. Len(calls')},
         faults' = 0 /\ ~ cancelled' /\ Dispatching' =>
           \E m \in DOMAIN log' : log'[m].role = "assistant" /\ Ids' \subseteq log'[m].calls
  PROVE  ToolsFit'
<1>1. /\ Len(log) \in Nat /\ DOMAIN log = 1 .. Len(log)
      /\ \A n \in DOMAIN log : n \in DOMAIN log' /\ log'[n] = log[n]
      /\ \A n \in DOMAIN log' :
           n \in DOMAIN log \/ (n = Len(log) + 1 /\ log'[n] = r /\ Grown(r))
      /\ \A c, role : Stored(c, role) => Stored(c, role)'
  BY GrownFacts
<1>2. faults' = 0 =>
       \A n \in DOMAIN log' : log'[n].role = "tool" =>
         \A c \in log'[n].calls :
           \E m \in 1 .. n : log'[m].role = "assistant" /\ c \in log'[m].calls
  <2> SUFFICES ASSUME faults' = 0, NEW n \in DOMAIN log', log'[n].role = "tool",
                      NEW c \in log'[n].calls
               PROVE  \E m \in 1 .. n : log'[m].role = "assistant" /\ c \in log'[m].calls
    OBVIOUS
  <2>1. n \in DOMAIN log /\ log'[n] = log[n]  BY <1>1
  <2>2. PICK m \in 1 .. n : log[m].role = "assistant" /\ c \in log[m].calls
    BY <2>1 DEF ToolsFit
  <2>3. m \in DOMAIN log  BY <1>1, <2>1
  <2> QED  BY <1>1, <2>2, <2>3
<1>3. faults' = 0 /\ ~ cancelled' => \A c \in fulfilled' : Stored(c, "tool")'
  BY <1>1 DEF ToolsFit
<1> QED  BY <1>2, <1>3 DEF ToolsFit

\* Storing the answer keeps the invariant.
LEMMA PersistAnswerStep ==
  ASSUME IInv, PersistAnswer
  PROVE  IInv'
<1>0. /\ Types /\ Place /\ PairsFit /\ RoundFits /\ NumbersFit /\ RowsFit /\ ToolsFit
      /\ LastFits /\ SayingsFit
  BY DEF IInv
<1>1. /\ round' = round /\ calls' = calls /\ first' = first /\ k' = k /\ invoked' = invoked
      /\ issued' = issued /\ fulfilled' = fulfilled /\ deltas' = deltas /\ turnSeq' = turnSeq
      /\ roundSeq' = roundSeq /\ events' = events /\ cancelled' = cancelled
  BY DEF PersistAnswer, loop
<1>2. pc = "answer" /\ pc' = "done"
  BY DEF PersistAnswer, Goto
<1>3. /\ Announced' = Announced /\ Answered' = Answered /\ Committed' = Committed
      /\ ~ Dispatching /\ ~ Dispatching' /\ (Before' => Before) /\ Over' = Over
      /\ GroupEnd' = GroupEnd
  BY <1>1, <1>2, GroupStays DEF Announced, Answered, Committed, Dispatching, Before, Over
<1> DEFINE r == Row("assistant", roundSeq, {})
<1>4. /\ r \in RowRecords /\ Store(r) /\ r.role = "assistant" /\ r.seq = roundSeq
      /\ r.calls = {}
  <2>1. roundSeq \in Nat /\ {} \subseteq CallIds
    BY <1>0, <1>2 DEF Types
  <2> QED  BY <2>1 DEF PersistAnswer, Row, RowRecords
<1>5. /\ log' \in Seq(RowRecords) /\ faults' \in 0 .. MaxFaults /\ (faults' = 0 => faults = 0)
      /\ (log' = log /\ (faults' # 0 \/ cancelled)) \/ Grown(r)
  BY <1>0, <1>4, StoreFacts DEF Grown
<1> HIDE DEF r
<1>6. Types'  BY <1>0, <1>1, <1>2, <1>3, <1>4, <1>5 DEF Types, PCs
<1>7. Place'  BY <1>0, <1>1, <1>2, <1>3, <1>4, <1>5 DEF Place, Dispatching
<1>8. PairsFit'  BY <1>0, <1>1, <1>2, <1>3, <1>4, <1>5, PairsStay
<1>9. RoundFits'  BY <1>0, <1>1, <1>2, <1>3, <1>4, <1>5, RoundStays
<1>10. NumbersFit'  BY <1>0, <1>1, <1>2, <1>3, <1>4, <1>5, <1>6, NumbersStore
<1>11. RowsFit'
  <2>1. /\ roundSeq > 1 /\ \A n \in DOMAIN log : log[n].seq < roundSeq
        /\ roundSeq \in 0 .. turnSeq /\ turnSeq \in Nat
    BY <1>0, <1>2 DEF RowsFit, Types
  <2> QED  BY <1>0, <1>1, <1>2, <1>3, <1>4, <1>5, <2>1, <1>6, RowsStore
<1>12. ToolsFit'
  <2>1. \A p : Id(p)' = Id(p)  BY <1>1, IdStays
  <2>2. issued' \subseteq fulfilled \cup {Id(p)' : p \in Committed' + 1 .. Len(calls')}
    BY <1>0, <1>1, <1>3, <2>1 DEF ToolsFit
  <2> QED  BY <1>0, <1>1, <1>2, <1>3, <1>4, <1>5, <2>2, <1>6, ToolsStore
<1>13. LastFits'  BY <1>0, <1>1, <1>2, <1>3, <1>4, <1>5, LastStays
<1>14. SayingsFit'
  <2>1. SUFFICES ASSUME ~ cancelled, faults' = 0  PROVE  SayingsFit'
    BY <1>1 DEF SayingsFit
  <2>2. Grown(r) /\ faults = 0  BY <2>1, <1>5
  <2>3. /\ Len(log) \in Nat /\ \A s : HasRow(s) => HasRow(s)'
        /\ \A n \in DOMAIN log' : n \in DOMAIN log \/ (n = Len(log) + 1 /\ log'[n] = r)
        /\ \A n \in DOMAIN log : log'[n] = log[n]
    BY <1>0, <1>6, <2>2, GrownFacts
  <2>4. \A n : Says(n)' = Says(n)  BY <1>1 DEF Says
  <2>5. HasRow(roundSeq)'  BY <1>1, <1>4, <2>2, <2>3 DEF HasRow, Grown
  <2> QED  BY <1>0, <1>1, <1>2, <1>3, <2>1, <2>2, <2>3, <2>4, <2>5 DEF SayingsFit
<1> QED  BY <1>6, <1>7, <1>8, <1>9, <1>10, <1>11, <1>12, <1>13, <1>14 DEF IInv

\* Storing the calls keeps the invariant.
LEMMA PersistCallsStep ==
  ASSUME IInv, PersistCalls
  PROVE  IInv'
<1>0. /\ Types /\ Place /\ PairsFit /\ RoundFits /\ NumbersFit /\ RowsFit /\ ToolsFit
      /\ LastFits /\ SayingsFit
  BY DEF IInv
<1>1. /\ round' = round /\ calls' = calls /\ fulfilled' = fulfilled /\ deltas' = deltas
      /\ turnSeq' = turnSeq /\ roundSeq' = roundSeq /\ events' = events
      /\ cancelled' = cancelled
  BY DEF PersistCalls
<1>2. /\ pc = "record" /\ pc' = "emit" /\ issued' = issued \cup Ids /\ first' = 1 /\ k' = 1
      /\ invoked' = {} /\ round <= MaxRound /\ Len(calls) > 0
  BY <1>0 DEF PersistCalls, Goto, Place
<1>3. /\ GroupEnd' \in 1 .. Len(calls) /\ Len(calls) \in Nat /\ 1 \in 1 .. Len(calls)
      /\ (\A p : Id(p)' = Id(p)) /\ Ids' = Ids
  <2>1. calls \in Seq(CallRecords) /\ Len(calls) \in Nat  BY <1>0 DEF Types
  <2>2. 1 \in 1 .. Len(calls)  BY <1>2, <2>1
  <2>3. EndOf(calls, 1) \in 1 .. Len(calls)  BY <2>1, <2>2, EndFacts
  <2> QED  BY <1>1, <1>2, <2>1, <2>2, <2>3, GroupIs, IdStays
<1>4. /\ Announced' = Announced /\ Answered' = Answered /\ Committed' = 0 /\ Committed = 0
      /\ Dispatching' /\ Before /\ ~ Before' /\ Over' = Over
  BY <1>1, <1>2 DEF Announced, Answered, Committed, Dispatching, Before, Over
<1> DEFINE r == Row("assistant", roundSeq, Ids)
<1>5. /\ r \in RowRecords /\ Store(r) /\ r.role = "assistant" /\ r.seq = roundSeq
      /\ r.calls = Ids
  <2>1. roundSeq \in Nat /\ Ids \subseteq CallIds
    BY <1>0, <1>2, IdFacts DEF Types
  <2> QED  BY <2>1 DEF PersistCalls, Row, RowRecords
<1>6. /\ log' \in Seq(RowRecords) /\ faults' \in 0 .. MaxFaults /\ (faults' = 0 => faults = 0)
      /\ (log' = log /\ (faults' # 0 \/ cancelled)) \/ Grown(r)
  BY <1>0, <1>5, StoreFacts DEF Grown
<1> HIDE DEF r
<1>7. Types'
  <2>1. issued' \subseteq CallIds
    BY <1>0, <1>2, <1>5 DEF Types, RowRecords
  <2> QED  BY <1>0, <1>1, <1>2, <1>3, <1>4, <1>5, <1>6, <2>1 DEF Types, PCs
<1>8. Place'  BY <1>0, <1>1, <1>2, <1>3, <1>4, <1>5, <1>6 DEF Place, Dispatching
<1>9. PairsFit'  BY <1>0, <1>1, <1>2, <1>3, <1>4, <1>5, <1>6, PairsStay
<1>10. RoundFits'  BY <1>0, <1>1, <1>2, <1>3, <1>4, <1>5, <1>6, RoundStays
<1>11. NumbersFit'
  <2>1. \A c \in r.calls : c[1] = round  BY <1>0, <1>5, IdFacts
  <2> QED  BY <1>0, <1>1, <1>2, <1>3, <1>4, <1>5, <1>6, <2>1, <1>7, NumbersStore
<1>12. RowsFit'
  <2>1. /\ roundSeq > 1 /\ \A n \in DOMAIN log : log[n].seq < roundSeq
        /\ roundSeq \in 0 .. turnSeq /\ turnSeq \in Nat
    BY <1>0, <1>2 DEF RowsFit, Types
  <2> QED  BY <1>0, <1>1, <1>2, <1>3, <1>4, <1>5, <1>6, <2>1, <1>7, RowsStore
<1>13. ToolsFit'
  <2>1. issued' \subseteq fulfilled \cup {Id(p)' : p \in Committed' + 1 .. Len(calls')}
    <3>1. issued \subseteq fulfilled \cup {Id(p) : p \in 1 .. Len(calls)}
      BY <1>0, <1>4 DEF ToolsFit
    <3>2. Committed' + 1 = 1  BY <1>4
    <3>3. \A c \in Ids : \E p \in 1 .. Len(calls) : c = Id(p)  BY <1>0, IdFacts
    <3> QED  BY <1>1, <1>2, <1>3, <3>1, <3>2, <3>3
  <2>2. faults' = 0 /\ ~ cancelled => \E m \in DOMAIN log' :
          log'[m].role = "assistant" /\ Ids' \subseteq log'[m].calls
    <3> SUFFICES ASSUME faults' = 0, ~ cancelled
                 PROVE  \E m \in DOMAIN log' :
                          log'[m].role = "assistant" /\ Ids' \subseteq log'[m].calls
      OBVIOUS
    <3>1. Grown(r) /\ Len(log) \in Nat  BY <1>0, <1>6, <1>7, GrownFacts
    <3> QED  BY <1>3, <1>5, <3>1 DEF Grown
  <2> QED  BY <1>0, <1>1, <1>2, <1>3, <1>4, <1>5, <1>6, <2>1, <2>2, <1>7, ToolsStore
<1>14. LastFits'  BY <1>0, <1>1, <1>2, <1>3, <1>4, <1>5, <1>6, LastStays
<1>15. SayingsFit'
  <2>1. SUFFICES ASSUME ~ cancelled, faults' = 0  PROVE  SayingsFit'
    BY <1>1 DEF SayingsFit
  <2>2. Grown(r) /\ faults = 0  BY <2>1, <1>6
  <2>3. /\ Len(log) \in Nat /\ \A s : HasRow(s) => HasRow(s)'
        /\ \A n \in DOMAIN log' : n \in DOMAIN log \/ (n = Len(log) + 1 /\ log'[n] = r)
        /\ \A n \in DOMAIN log : log'[n] = log[n]
    BY <1>0, <1>7, <2>2, GrownFacts
  <2>4. \A n : Says(n)' = Says(n)  BY <1>1 DEF Says
  <2>5. HasRow(roundSeq)'  BY <1>1, <1>5, <2>2, <2>3 DEF HasRow, Grown
  <2>6. pc' # "alloc"  BY <1>2
  <2> QED  BY <1>0, <1>1, <2>1, <2>2, <2>3, <2>4, <2>5, <2>6 DEF SayingsFit
<1> QED  BY <1>7, <1>8, <1>9, <1>10, <1>11, <1>12, <1>13, <1>14, <1>15 DEF IInv

\* Committing a tool message keeps the invariant.
LEMMA CommitToolStep ==
  ASSUME IInv, CommitTool
  PROVE  IInv'
<1>0. /\ Types /\ Place /\ PairsFit /\ RoundFits /\ NumbersFit /\ RowsFit /\ ToolsFit
      /\ LastFits /\ SayingsFit
  BY DEF IInv
<1>1. /\ round' = round /\ calls' = calls /\ first' = first /\ k' = k /\ invoked' = invoked
      /\ issued' = issued /\ deltas' = deltas /\ roundSeq' = roundSeq /\ events' = events
      /\ cancelled' = cancelled
  BY DEF CommitTool
<1>2. pc = "commit" /\ pc' = "result" /\ fulfilled' = fulfilled \cup {Id(k)}
  BY DEF CommitTool, Goto
<1>3. /\ Len(calls) \in Nat /\ first \in 1 .. Len(calls) /\ k \in first .. GroupEnd
      /\ GroupEnd \in first .. Len(calls) /\ GroupEnd' = GroupEnd
  BY <1>0, <1>1, <1>2, PlaceFacts, GroupStays DEF Dispatching
<1>4. /\ Id(k) \in CallIds /\ Id(k) \in Ids /\ k \in 1 .. Len(calls)
      /\ (\A p : Id(p)' = Id(p)) /\ Ids' = Ids
  BY <1>0, <1>1, <1>2, <1>3, IdFacts, IdStays DEF Place, Dispatching
<1>5. /\ Announced' = Announced /\ Answered' = Answered /\ Committed = k - 1 /\ Committed' = k
      /\ Dispatching /\ Dispatching' /\ ~ Before /\ ~ Before' /\ Over' = Over
  BY <1>1, <1>2, <1>3 DEF Announced, Answered, Committed, Dispatching, Before, Over
<1> DEFINE r == Row("tool", turnSeq + 1, {Id(k)})
<1>6. /\ r \in RowRecords /\ r.role = "tool" /\ r.seq = turnSeq + 1 /\ r.calls = {Id(k)}
      /\ turnSeq \in Nat \ {0}
  BY <1>0, <1>4 DEF Row, RowRecords, Types
<1>7. /\ log' \in Seq(RowRecords) /\ faults' \in 0 .. MaxFaults /\ (faults' = 0 => faults = 0)
      /\ turnSeq' \in {turnSeq, turnSeq + 1}
      /\ \/ log' = log /\ (faults' # 0 \/ cancelled)
         \/ Grown(r) /\ ~ cancelled /\ turnSeq' = turnSeq + 1
  <2>1. CASE AllocOk /\ Store(Row("tool", turnSeq', {Id(k)}))
    <3>1. turnSeq' = turnSeq + 1 /\ Store(r)  BY <2>1 DEF AllocOk
    <3> HIDE DEF r
    <3> QED  BY <1>0, <1>6, <3>1, StoreFacts DEF Grown
  <2>2. CASE AllocFail /\ UNCHANGED log
    <3>1. log \in Seq(RowRecords) /\ faults \in 0 .. MaxFaults /\ MaxFaults \in Nat
      BY <1>0, AgentAssumption DEF Types
    <3> QED  BY <2>2, <3>1 DEF AllocFail, Fault
  <2> QED  BY <2>1, <2>2 DEF CommitTool
<1> HIDE DEF r
<1>8. Types'
  <2>1. /\ fulfilled' \subseteq CallIds /\ turnSeq' \in Nat \ {0} /\ roundSeq \in 0 .. turnSeq'
        /\ pc' \in PCs
    BY <1>0, <1>2, <1>4, <1>6, <1>7 DEF Types, PCs
  <2> QED  BY <1>0, <1>1, <1>7, <2>1 DEF Types
<1>9. Place'  BY <1>0, <1>1, <1>2, <1>3, <1>4, <1>5, <1>6, <1>7 DEF Place, Dispatching
<1>10. PairsFit'  BY <1>0, <1>1, <1>2, <1>3, <1>4, <1>5, <1>6, <1>7, PairsStay
<1>11. RoundFits'  BY <1>0, <1>1, <1>2, <1>3, <1>4, <1>5, <1>6, <1>7, RoundStays
<1>12. NumbersFit'  BY <1>0, <1>1, <1>2, <1>3, <1>4, <1>5, <1>6, <1>7, <1>8, NumbersStore
<1>13. RowsFit'
  <2>1. turnSeq' >= turnSeq /\ pc' \notin {"stream", "answer", "record"}  BY <1>2, <1>6, <1>7
  <2>2. \A n \in DOMAIN log : log[n].seq \in Nat /\ log[n].seq <= turnSeq
    BY <1>0, RecordFacts DEF RowsFit, Types
  <2>3. log' = log \/ (Grown(r) /\ turnSeq' = turnSeq + 1)  BY <1>7
  <2>4. Grown(r) /\ turnSeq' = turnSeq + 1 => /\ r.seq > 1 /\ r.seq <= turnSeq'
                                             /\ \A n \in DOMAIN log : log[n].seq < r.seq
    BY <1>6, <2>2
  <2>5. CASE log' = log  BY <1>0, <1>2, <1>6, <1>7, <2>1, <2>5, RowsStay
  <2>6. CASE Grown(r) /\ turnSeq' = turnSeq + 1
    BY <1>0, <1>8, <2>1, <2>4, <2>6, RowsStore
  <2> QED  BY <2>3, <2>5, <2>6
<1>14. ToolsFit'
  <2>1. /\ Len(log) \in Nat /\ DOMAIN log = 1 .. Len(log)
        /\ \A n \in DOMAIN log : n \in DOMAIN log' /\ log'[n] = log[n]
        /\ \A n \in DOMAIN log' :
             n \in DOMAIN log \/ (n = Len(log) + 1 /\ log'[n] = r /\ Grown(r))
        /\ \A c, role : Stored(c, role) => Stored(c, role)'
    BY <1>0, <1>7, <1>8, GrownFacts
  <2>2. issued' \subseteq fulfilled' \cup {Id(p)' : p \in Committed' + 1 .. Len(calls')}
    <3>1. issued \subseteq fulfilled \cup {Id(p) : p \in (k - 1) + 1 .. Len(calls)}
      BY <1>0, <1>5 DEF ToolsFit
    <3>2. \A p \in (k - 1) + 1 .. Len(calls) : p = k \/ p \in k + 1 .. Len(calls)
      BY <1>3, <1>4
    <3> QED  BY <1>1, <1>2, <1>4, <1>5, <3>1, <3>2
  <2>3. faults' = 0 /\ ~ cancelled =>
          \E m \in DOMAIN log : log[m].role = "assistant" /\ Ids \subseteq log[m].calls
    BY <1>0, <1>5, <1>7 DEF ToolsFit
  <2>4. faults' = 0 =>
         \A n \in DOMAIN log' : log'[n].role = "tool" =>
           \A c \in log'[n].calls :
             \E m \in 1 .. n : log'[m].role = "assistant" /\ c \in log'[m].calls
    <3> SUFFICES ASSUME faults' = 0, NEW n \in DOMAIN log', log'[n].role = "tool",
                        NEW c \in log'[n].calls
                 PROVE  \E m \in 1 .. n : log'[m].role = "assistant" /\ c \in log'[m].calls
      OBVIOUS
    <3>1. CASE n \in DOMAIN log
      <4>1. PICK m \in 1 .. n : log[m].role = "assistant" /\ c \in log[m].calls
        BY <1>0, <1>7, <2>1, <3>1 DEF ToolsFit
      <4>2. m \in DOMAIN log  BY <2>1, <3>1
      <4> QED  BY <2>1, <4>1, <4>2
    <3>2. CASE n = Len(log) + 1 /\ log'[n] = r /\ log' # log
      <4>1. ~ cancelled /\ c = Id(k)  BY <1>6, <1>7, <3>2
      <4>2. PICK m \in DOMAIN log : log[m].role = "assistant" /\ Ids \subseteq log[m].calls
        BY <2>3, <4>1
      <4> QED  BY <1>4, <2>1, <3>2, <4>1, <4>2
    <3> QED  BY <2>1, <3>1, <3>2
  <2>5. faults' = 0 /\ ~ cancelled => \A c \in fulfilled' : Stored(c, "tool")'
    <3> SUFFICES ASSUME faults' = 0, ~ cancelled, NEW c \in fulfilled'
                 PROVE  Stored(c, "tool")'
      OBVIOUS
    <3>1. CASE c \in fulfilled  BY <1>0, <1>7, <2>1, <3>1 DEF ToolsFit
    <3>2. CASE c = Id(k)
      <4>1. Grown(r)  BY <1>7
      <4>2. DOMAIN log' = 1 .. Len(log')  BY <1>8 DEF Types
      <4>3. Len(log) + 1 \in DOMAIN log' /\ log'[Len(log) + 1] = r  BY <2>1, <4>1 DEF Grown
      <4> QED  BY <1>6, <3>2, <4>2, <4>3 DEF Stored
    <3> QED  BY <1>2, <3>1, <3>2
  <2>6. faults' = 0 /\ ~ cancelled =>
          \E m \in DOMAIN log' : log'[m].role = "assistant" /\ Ids' \subseteq log'[m].calls
    BY <1>4, <2>1, <2>3
  <2> QED  BY <1>1, <2>2, <2>4, <2>5, <2>6 DEF ToolsFit
<1>15. LastFits'  BY <1>0, <1>1, <1>2, <1>3, <1>4, <1>5, <1>6, <1>7, LastStays
<1>16. SayingsFit'
  <2>1. SUFFICES ASSUME ~ cancelled, faults' = 0  PROVE  SayingsFit'
    BY <1>1 DEF SayingsFit
  <2>2. faults = 0 /\ (log' = log \/ Grown(r))  BY <1>7, <2>1
  <2>3. \A s : HasRow(s) => HasRow(s)'  BY <1>0, <1>8, <2>2, GrownFacts
  <2>4. \A n : Says(n)' = Says(n)  BY <1>1 DEF Says
  <2>5. HasRow(roundSeq)  BY <1>0, <1>5, <2>1, <2>2 DEF SayingsFit
  <2>6. pc' # "alloc"  BY <1>2
  <2> QED  BY <1>0, <1>1, <2>1, <2>2, <2>3, <2>4, <2>5, <2>6 DEF SayingsFit
<1> QED  BY <1>8, <1>9, <1>10, <1>11, <1>12, <1>13, <1>14, <1>15, <1>16 DEF IInv

\* AbortSysMsg keeps the invariant.
LEMMA DeferredStep ==
  ASSUME IInv, Deferred
  PROVE  IInv'
<1>0. /\ Types /\ Place /\ PairsFit /\ RoundFits /\ NumbersFit /\ RowsFit /\ ToolsFit
      /\ LastFits /\ SayingsFit
  BY DEF IInv
<1>1. /\ round' = round /\ calls' = calls /\ first' = first /\ k' = k /\ invoked' = invoked
      /\ issued' = issued /\ fulfilled' = fulfilled /\ deltas' = deltas /\ roundSeq' = roundSeq
      /\ events' = events /\ cancelled' = cancelled
  BY DEF Deferred, loop
<1>2. pc = "deferred" /\ pc' = "ended"
  BY DEF Deferred, Goto
<1>3. /\ Announced' = Announced /\ Answered' = Answered /\ Committed' = Committed
      /\ ~ Dispatching /\ ~ Dispatching' /\ (Before' => Before) /\ Over' = Over
      /\ GroupEnd' = GroupEnd
  BY <1>1, <1>2, GroupStays DEF Announced, Answered, Committed, Dispatching, Before, Over
<1> DEFINE r == Row("system", turnSeq + 1, {})
<1>4. /\ r \in RowRecords /\ r.role = "system" /\ r.seq = turnSeq + 1 /\ r.calls = {}
      /\ turnSeq \in Nat \ {0}
  BY <1>0 DEF Row, RowRecords, Types
<1>5. /\ log' \in Seq(RowRecords) /\ faults' \in 0 .. MaxFaults /\ (faults' = 0 => faults = 0)
      /\ turnSeq' \in {turnSeq, turnSeq + 1}
      /\ log' = log \/ (Grown(r) /\ cancelled /\ turnSeq' = turnSeq + 1)
  <2>1. log \in Seq(RowRecords) /\ faults \in 0 .. MaxFaults /\ MaxFaults \in Nat
    BY <1>0, AgentAssumption DEF Types
  <2>2. CASE ~ cancelled /\ UNCHANGED <<turnSeq, log, faults>>  BY <2>1, <2>2
  <2>3. CASE /\ cancelled /\ turnSeq' = turnSeq + 1 /\ UNCHANGED faults
             /\ log' = Append(log, Row("system", turnSeq', {}))
    <3>1. log' = Append(log, r)  BY <2>3
    <3> HIDE DEF r
    <3> QED  BY <1>4, <2>1, <2>3, <3>1, AppendFacts DEF Grown
  <2>4. CASE cancelled /\ Fault /\ turnSeq' \in {turnSeq, turnSeq + 1} /\ UNCHANGED log
    BY <2>1, <2>4 DEF Fault
  <2> QED  BY <2>2, <2>3, <2>4 DEF Deferred
<1> HIDE DEF r
<1>6. Types'
  <2>1. turnSeq' \in Nat \ {0} /\ roundSeq \in 0 .. turnSeq' /\ pc' \in PCs
    BY <1>0, <1>2, <1>4, <1>5 DEF Types, PCs
  <2> QED  BY <1>0, <1>1, <1>5, <2>1 DEF Types
<1>7. Place'  BY <1>0, <1>1, <1>2, <1>3, <1>4, <1>5 DEF Place, Dispatching
<1>8. PairsFit'  BY <1>0, <1>1, <1>2, <1>3, <1>4, <1>5, PairsStay
<1>9. RoundFits'  BY <1>0, <1>1, <1>2, <1>3, <1>4, <1>5, RoundStays
<1>10. NumbersFit'  BY <1>0, <1>1, <1>2, <1>3, <1>4, <1>5, <1>6, NumbersStore
<1>11. RowsFit'
  <2>1. turnSeq' >= turnSeq /\ pc' \notin {"stream", "answer", "record"}  BY <1>2, <1>4, <1>5
  <2>2. \A n \in DOMAIN log : log[n].seq \in Nat /\ log[n].seq <= turnSeq
    BY <1>0, RecordFacts DEF RowsFit, Types
  <2>4. Grown(r) /\ turnSeq' = turnSeq + 1 => /\ r.seq > 1 /\ r.seq <= turnSeq'
                                             /\ \A n \in DOMAIN log : log[n].seq < r.seq
    BY <1>4, <2>2
  <2>5. CASE log' = log  BY <1>0, <1>2, <1>4, <1>5, <2>1, <2>5, RowsStay
  <2>6. CASE Grown(r) /\ turnSeq' = turnSeq + 1
    BY <1>0, <1>6, <2>1, <2>4, <2>6, RowsStore
  <2> QED  BY <1>5, <2>5, <2>6
<1>12. ToolsFit'
  <2>1. \A p : Id(p)' = Id(p)  BY <1>1, IdStays
  <2>2. issued' \subseteq fulfilled \cup {Id(p)' : p \in Committed' + 1 .. Len(calls')}
    BY <1>0, <1>1, <1>3, <2>1 DEF ToolsFit
  <2> QED  BY <1>0, <1>1, <1>2, <1>3, <1>4, <1>5, <2>2, <1>6, ToolsStore
<1>13. LastFits'  BY <1>0, <1>1, <1>2, <1>3, <1>4, <1>5, LastStays
<1>14. SayingsFit'
  <2>1. CASE log' = log
    <3>1. pc' \notin {"alloc", "dispatched"}  BY <1>2
    <3> QED  BY <1>0, <1>1, <1>3, <1>5, <2>1, <3>1, SayingsStay
  <2>2. CASE cancelled  BY <1>1, <2>2 DEF SayingsFit
  <2> QED  BY <1>5, <2>1, <2>2
<1> QED  BY <1>6, <1>7, <1>8, <1>9, <1>10, <1>11, <1>12, <1>13, <1>14 DEF IInv
-----------------------------------------------------------------------------
(* The invariant, and what it gives. *)

\* A turn starts with nothing said and nothing stored.
LEMMA InitInvariant == Init => IInv
<1> SUFFICES ASSUME Init  PROVE  IInv  OBVIOUS
<1>1. /\ pc = "alloc" /\ round = 1 /\ turnSeq = 1 /\ roundSeq = 0 /\ calls = <<>> /\ first = 0
      /\ k = 0 /\ invoked = {} /\ issued = {} /\ fulfilled = {} /\ events = <<>>
      /\ log = <<>> /\ cancelled = FALSE /\ faults = 0 /\ deltas = 0
  BY DEF Init
<1>2. /\ Len(<<>>) = 0 /\ DOMAIN events = {} /\ DOMAIN log = {} /\ Len(calls) = 0
      /\ At("tool_call") = {} /\ At("tool_result") = {} /\ ~ Dispatching /\ ~ Over
  BY <1>1 DEF At, Dispatching, Over
<1>3. Types
  <2>1. <<>> \in Seq(CallRecords) /\ <<>> \in Seq(EventRecords) /\ <<>> \in Seq(RowRecords)
    OBVIOUS
  <2>2. 1 \in 1 .. MaxRound + 1 /\ 0 \in 0 .. MaxFaults /\ 0 \in 0 .. MaxDeltas
    BY AgentAssumption
  <2>3. 1 .. Len(calls) = {} /\ roundSeq \in 0 .. turnSeq /\ turnSeq \in Nat \ {0}
    BY <1>1, <1>2
  <2>4. pc \in PCs /\ first \in Nat /\ k \in Nat  BY <1>1 DEF PCs
  <2> QED  BY <1>1, <2>1, <2>2, <2>3, <2>4 DEF Types
<1>4. Place  BY <1>1 DEF Place, Dispatching
<1>5. PairsFit  BY <1>2 DEF PairsFit
<1>6. RoundFits  BY <1>2 DEF RoundFits
<1>7. NumbersFit  BY <1>2 DEF NumbersFit
<1>8. RowsFit  BY <1>1, <1>2 DEF RowsFit
<1>9. ToolsFit  BY <1>1, <1>2 DEF ToolsFit
<1>10. LastFits  BY <1>2 DEF LastFits
<1>11. SayingsFit  BY <1>1, <1>2 DEF SayingsFit
<1> QED  BY <1>3, <1>4, <1>5, <1>6, <1>7, <1>8, <1>9, <1>10, <1>11 DEF IInv

\* A step that changes nothing keeps it.
LEMMA StutterStep ==
  ASSUME IInv, UNCHANGED vars
  PROVE  IInv'
<1>0. /\ Types /\ Place /\ PairsFit /\ RoundFits /\ NumbersFit /\ RowsFit /\ ToolsFit
      /\ LastFits /\ SayingsFit
  BY DEF IInv
<1>1. /\ pc' = pc /\ round' = round /\ calls' = calls /\ first' = first /\ k' = k
      /\ invoked' = invoked /\ issued' = issued /\ fulfilled' = fulfilled /\ deltas' = deltas
      /\ turnSeq' = turnSeq /\ roundSeq' = roundSeq /\ events' = events /\ log' = log
      /\ cancelled' = cancelled /\ faults' = faults
  BY DEF vars, loop
<1>2. /\ Announced' = Announced /\ Answered' = Answered /\ Committed' = Committed
      /\ Dispatching' = Dispatching /\ Before' = Before /\ Over' = Over /\ GroupEnd' = GroupEnd
  BY <1>1, GroupStays DEF Announced, Answered, Committed, Dispatching, Before, Over
<1>3. Types'  BY <1>0, <1>1 DEF Types
<1>4. Place'  BY <1>0, <1>1, <1>2 DEF Place
<1>5. PairsFit'  BY <1>0, <1>1, PairsStay
<1>6. RoundFits'  BY <1>0, <1>1, <1>2, RoundStays
<1>7. NumbersFit'  BY <1>0, <1>1, <1>2, NumbersStay
<1>8. RowsFit'  BY <1>0, <1>1, RowsStay DEF Types
<1>9. ToolsFit'  BY <1>0, <1>1, <1>2, ToolsStay
<1>10. LastFits'  BY <1>0, <1>1, <1>2, LastStays
<1>11. SayingsFit'  BY <1>0, <1>1, <1>2, SayingsStay
<1> QED  BY <1>3, <1>4, <1>5, <1>6, <1>7, <1>8, <1>9, <1>10, <1>11 DEF IInv

\* Every step of the turn keeps it.
LEMMA NextInvariant ==
  ASSUME IInv, [Next]_vars
  PROVE  IInv'
<1>1. CASE AllocRound  BY <1>1, AllocRoundStep
<1>2. CASE AllocRoundFails  BY <1>2, AllocRoundFailsStep
<1>3. CASE RoundsExhausted  BY <1>3, RoundsExhaustedStep
<1>4. CASE StreamText  BY <1>4, StreamTextStep
<1>5. CASE StreamFails  BY <1>5, StreamFailsStep
<1>6. CASE StreamAnswers  BY <1>6, StreamAnswersStep
<1>7. CASE StreamCalls  BY <1>7, StreamCallsStep
<1>8. CASE PersistAnswer  BY <1>8, PersistAnswerStep
<1>9. CASE PersistCalls  BY <1>9, PersistCallsStep
<1>10. CASE EmitCall  BY <1>10, EmitCallStep
<1>11. CASE Invoke
  <2>1. \/ UNCHANGED <<events, faults>>
        \/ \E n \in first .. GroupEnd : Emit(Event("question", 0, Id(n)))
    BY <1>11 DEF Invoke
  <2>2. CASE UNCHANGED <<events, faults>>  BY <1>11, <2>2, InvokeStep
  <2>3. CASE \E n \in first .. GroupEnd : Emit(Event("question", 0, Id(n)))
    BY <1>11, <2>3, QuestionStep
  <2> QED  BY <2>1, <2>2, <2>3
<1>12. CASE CommitTool  BY <1>12, CommitToolStep
<1>13. CASE EmitResult  BY <1>13, EmitResultStep
<1>14. CASE AfterDispatch
  <2>1. CASE pc' = "pause"  BY <1>14, <2>1, PauseStep
  <2>2. CASE pc' # "pause"  BY <1>14, <2>2, NextRoundStep
  <2> QED  BY <2>1, <2>2
<1>15. CASE EmitLast  BY <1>15, EmitLastStep
<1>16. CASE Cleanup  BY <1>16, CleanupStep
<1>17. CASE Deferred  BY <1>17, DeferredStep
<1>18. CASE Cancel  BY <1>18, CancelStep
<1>19. CASE UNCHANGED vars  BY <1>19, StutterStep
<1> QED
  BY <1>1, <1>2, <1>3, <1>4, <1>5, <1>6, <1>7, <1>8, <1>9, <1>10, <1>11, <1>12, <1>13, <1>14,
     <1>15, <1>16, <1>17, <1>18, <1>19 DEF Next, Step

\* The invariant holds at every step of every turn.
THEOREM Invariance == Spec => []IInv
<1>1. IInv /\ [Next]_vars => IInv'  BY NextInvariant
<1> QED  BY <1>1, InitInvariant, PTL DEF Spec

\* Every variable keeps the type the code gives it.
THEOREM TypeCorrect == Spec => []TypeOK
<1>1. ASSUME IInv  PROVE  TypeOK
  <2>1. Types /\ Place  BY <1>1 DEF IInv
  <2>2. invoked \subseteq 1 .. Len(calls)
    <3>1. CASE Dispatching
      <4>1. first \in 1 .. Len(calls) /\ invoked \subseteq first .. GroupEnd
        BY <2>1, <3>1 DEF Place
      <4>2. GroupEnd \in first .. Len(calls) /\ Len(calls) \in Nat
        BY <2>1, <4>1, GroupFacts DEF Types
      <4> QED  BY <4>1, <4>2
    <3>2. CASE ~ Dispatching  BY <2>1, <3>2 DEF Place
    <3> QED  BY <3>1, <3>2
  <2>3. /\ \A n \in 1 .. Len(events) : events[n] \in EventRecords
        /\ \A n \in 1 .. Len(log) : log[n] \in RowRecords
    BY <2>1 DEF Types
  <2>4. turnSeq \in Nat /\ roundSeq \in Nat /\ first \in Nat /\ k \in Nat
    BY <2>1 DEF Types
  <2>5. \A n \in 1 .. Len(log) : /\ log[n].role \in {"assistant", "tool", "system"}
                                 /\ log[n].seq \in Nat /\ log[n].calls \subseteq CallIds
    BY <2>3, RecordFacts
  <2> QED  BY <2>1, <2>2, <2>3, <2>4, <2>5 DEF Types, TypeOK, EventRecords
<1> QED  BY <1>1, Invariance, PTL

\* The stream and the table tell one story: one last event, and rows and events under
\* numbers in the order Replay's cursor and the unique index rely on.
THEOREM StreamIsSafe == Spec => []StreamFitsLog
<1>1. ASSUME IInv  PROVE  StreamFitsLog
  <2>1. Types /\ NumbersFit /\ RowsFit /\ ToolsFit /\ LastFits  BY <1>1 DEF IInv
  <2>2. DOMAIN events = 1 .. Len(events) /\ DOMAIN log = 1 .. Len(log)  BY <2>1 DEF Types
  <2>3. OneLastEvent  BY <2>1, <2>2 DEF LastFits, OneLastEvent, Over
  <2>4. SeqIdsAreOrdered
    <3>1. \A m \in 1 .. Len(events) : events[m].type = "tool_call" => m \in At("tool_call")
      BY <2>2 DEF At
    <3> QED  BY <2>1, <2>2, <3>1 DEF NumbersFit, SeqIdsAreOrdered
  <2>5. RowsAreOrdered  BY <2>1, <2>2 DEF RowsFit, RowsAreOrdered
  <2>6. ToolRowNeedsCall  BY <2>1, <2>2 DEF ToolsFit, ToolRowNeedsCall
  <2> QED  BY <2>3, <2>4, <2>5, <2>6 DEF StreamFitsLog
<1> QED  BY <1>1, Invariance, PTL

\* Every call of a turn is run as its tool allows and answered, in the stream, in the
\* table and in the prompt (dispatchCalls, commitTool, Run's deferred cleanup).
THEOREM CallsAreSafe == Spec => []CallsAreAnswered
<1>1. ASSUME IInv  PROVE  CallsAreAnswered
  <2>1. Types /\ Place /\ PairsFit /\ RoundFits /\ ToolsFit  BY <1>1 DEF IInv
  <2>2. pc \in {"ended", "cleanup"} =>
          Answered = Len(calls) /\ Committed = Len(calls) /\ Len(calls) \in Nat
    BY <2>1 DEF Answered, Committed, Dispatching, Types
  <2>3. ResultsFollowCalls
    <3>1. pc = "ended" /\ faults = 0 => \A m \in At("tool_call") :
            \E j \in At("tool_result") : events[j].call = events[m].call
      BY <2>1, <2>2 DEF RoundFits
    <3> QED  BY <2>1, <3>1 DEF PairsFit, ResultsFollowCalls
  <2>4. SerialRunsAlone
    <3> SUFFICES ASSUME pc = "invoke", NEW n \in first .. GroupEnd, ~ IsConcurrent(n)
                 PROVE  first .. GroupEnd = {n}
      BY DEF SerialRunsAlone
    <3>1. first \in 1 .. Len(calls) /\ first \in Nat  BY <2>1 DEF Place, Dispatching, Types
    <3>2. GroupEnd = first  BY <2>1, <3>1, GroupFacts
    <3> QED  BY <3>1, <3>2
  <2>5. UnansweredNeedsCancel
    <3>1. pc = "ended" => issued \subseteq fulfilled
      <4>1. pc = "ended" => Committed + 1 .. Len(calls) = {}  BY <2>2
      <4> QED  BY <2>1, <4>1 DEF ToolsFit
    <3> QED  BY <2>1, <3>1 DEF ToolsFit, UnansweredNeedsCancel
  <2>6. CallsAreCommitted  BY <1>1, NothingInterrupted DEF CallsAreCommitted
  <2> QED  BY <2>3, <2>4, <2>5, <2>6 DEF CallsAreAnswered
<1> QED  BY <1>1, Invariance, PTL

-----------------------------------------------------------------------------
(* The browsers. *)

ListedRecords == [role : {"user", "assistant", "tool", "system"}, seq : Nat,
                  calls : SUBSET CallIds]

\* The types, and what a browser has before it asked.
ClientsFit ==
  /\ live \in {"open", "closed"} /\ sent \in 1 .. 2 /\ (live = "open" => sent = 1)
  /\ resume \in {"away", "listed", "open", "idle", "closed"}
  /\ livePos \in 0 .. Len(events) /\ liveSeen \subseteq 1 .. Len(events)
  /\ resPos \in 0 .. Len(events) /\ resSeen \subseteq 1 .. resPos
  /\ listed \in Seq(ListedRecords)
  /\ resume = "away" => listed = <<>> /\ resPos = 0

\* The list ends with its greatest number; what the resumed stream passes lies behind it.
ListingFits ==
  resume # "away" =>
    /\ Len(listed) > 0 /\ ListedSeq <= turnSeq
    /\ \A m \in 1 .. Len(listed) : listed[m].seq <= ListedSeq
    /\ \A n \in 1 .. resPos : n \in resSeen <=> events[n].seq > ListedSeq

\* Without a cancel or a fault, what was said up to the list's number is in the list.
ListedHas(s) == \E m \in 1 .. Len(listed) : listed[m].role = "assistant" /\ listed[m].seq = s
ShownFits ==
  resume # "away" /\ ~ cancelled /\ faults = 0 =>
    /\ \A n \in DOMAIN events :
         Says(n) /\ events[n].seq <= ListedSeq => ListedHas(events[n].seq)
    /\ roundSeq > 1 /\ roundSeq <= ListedSeq => ListedHas(roundSeq)

RInv == IInv /\ ClientsFit /\ ListingFits /\ ShownFits

-----------------------------------------------------------------------------
(* What a step of the turn does to what the browsers hold on to. *)

\* One event more, or none; what it says carries the round's number.
GrownBy(e) == /\ Len(events') = Len(events) + 1
              /\ events'[Len(events) + 1] = e
              /\ \A n \in 1 .. Len(events) : events'[n] = events[n]

\* An emission adds one event or none.
LEMMA EmitGrows ==
  ASSUME Types, NEW e \in EventRecords, Emit(e)
  PROVE  (events' = events \/ GrownBy(e)) /\ (faults' = 0 => faults = 0)
BY EmitFacts DEF GrownBy

\* A step that does not emit leaves the stream, and its counters only grow.
LEMMA QuietSteps ==
  ASSUME IInv,
         \/ AllocRound \/ AllocRoundFails \/ RoundsExhausted \/ StreamFails \/ StreamAnswers
         \/ StreamCalls \/ PersistAnswer \/ PersistCalls \/ CommitTool \/ AfterDispatch
         \/ Cleanup \/ Deferred \/ Cancel \/ UNCHANGED vars
  PROVE  /\ events' = events /\ (faults' = 0 => faults = 0) /\ (~ cancelled' => ~ cancelled)
         /\ turnSeq' >= turnSeq /\ roundSeq' \in {roundSeq, turnSeq + 1}
<1>1. turnSeq \in Nat /\ faults \in Nat /\ Types
  <2>1. Types  BY DEF IInv
  <2>2. turnSeq \in Nat /\ faults \in 0 .. MaxFaults /\ MaxFaults \in Nat
    BY <2>1, AgentAssumption DEF Types
  <2> QED  BY <2>1, <2>2
<1>2. CASE AllocRound  BY <1>1, <1>2 DEF AllocRound, AllocOk
<1>3. CASE AllocRoundFails  BY <1>1, <1>3 DEF AllocRoundFails, AllocFail, Fault
<1>4. CASE RoundsExhausted  BY <1>1, <1>4 DEF RoundsExhausted
<1>5. CASE StreamFails  BY <1>1, <1>5 DEF StreamFails
<1>6. CASE StreamAnswers  BY <1>1, <1>6 DEF StreamAnswers
<1>7. CASE StreamCalls  BY <1>1, <1>7 DEF StreamCalls
<1>8. CASE PersistAnswer  BY <1>1, <1>8 DEF PersistAnswer, Store, Fault
<1>9. CASE PersistCalls  BY <1>1, <1>9 DEF PersistCalls, Store, Fault
<1>10. CASE CommitTool  BY <1>1, <1>10 DEF CommitTool, Store, AllocOk, AllocFail, Fault
<1>11. CASE AfterDispatch  BY <1>1, <1>11 DEF AfterDispatch, loop
<1>12. CASE Cleanup
  <2>1. Interrupted = <<>> /\ Len(<<>>) = 0  BY <1>12, NothingInterrupted DEF Cleanup
  <2>2. /\ turnSeq' = turnSeq + Len(<<>>) /\ UNCHANGED <<roundSeq, cancelled, faults>>
        /\ events' = events \o [n \in 1 .. Len(<<>>) |-> Event("tool_result", 0, <<>>[n])]
    BY <1>12, <2>1 DEF Cleanup
  <2>3. [n \in 1 .. Len(<<>>) |-> Event("tool_result", 0, <<>>[n])] = <<>>  BY <2>1
  <2>4. events \in Seq(EventRecords)  BY <1>1 DEF Types
  <2>5. events \o <<>> = events  BY <2>4
  <2>6. events' = events  BY <2>2, <2>3, <2>5
  <2>7. turnSeq' = turnSeq  BY <1>1, <2>1, <2>2
  <2> QED  BY <1>1, <2>2, <2>6, <2>7
<1>13. CASE Deferred  BY <1>1, <1>13 DEF Deferred, Fault
<1>14. CASE Cancel  BY <1>1, <1>14 DEF Cancel
<1>15. CASE UNCHANGED vars  BY <1>1, <1>15 DEF vars
<1> QED  BY <1>2, <1>3, <1>4, <1>5, <1>6, <1>7, <1>8, <1>9, <1>10, <1>11, <1>12, <1>13,
            <1>14, <1>15

\* A step that emits says something under the round's number only.
LEMMA EmittingSteps ==
  ASSUME IInv, StreamText \/ EmitCall \/ Invoke \/ EmitResult \/ EmitLast
  PROVE  /\ \/ events' = events
            \/ \E e \in EventRecords : /\ GrownBy(e)
                                       /\ e.type \in {"text", "tool_call"} => e.seq = roundSeq
         /\ (faults' = 0 => faults = 0) /\ cancelled' = cancelled
         /\ turnSeq' = turnSeq /\ roundSeq' = roundSeq
<1> DEFINE Quiet(e) == e.type \in {"text", "tool_call"} => e.seq = roundSeq
<1>1. /\ Types /\ Place /\ roundSeq \in Nat /\ NoCall \in CallIds
      /\ \A p \in 1 .. Len(calls) : round <= MaxRound => Id(p) \in CallIds
  BY IdFacts DEF IInv, Types, CallIds
<1>2. CASE StreamText
  <2> DEFINE e == Event("text", roundSeq, NoCall)
  <2>1. e \in EventRecords /\ Quiet(e) /\ Emit(e) /\ cancelled' = cancelled
        /\ turnSeq' = turnSeq /\ roundSeq' = roundSeq
    BY <1>1, <1>2 DEF StreamText, Event, EventRecords, EventTypes
  <2> HIDE DEF e
  <2> QED  BY <1>1, <2>1, EmitGrows
<1>3. CASE EmitCall
  <2> DEFINE e == Event("tool_call", roundSeq, Id(k))
  <2>1. Dispatching  BY <1>3 DEF EmitCall, Dispatching
  <2>2. k \in 1 .. Len(calls) /\ round <= MaxRound  BY <1>1, <2>1, PlaceFacts DEF Place
  <2>3. e \in EventRecords /\ Quiet(e) /\ Emit(e) /\ cancelled' = cancelled
        /\ turnSeq' = turnSeq /\ roundSeq' = roundSeq
    BY <1>1, <1>3, <2>2 DEF EmitCall, Event, EventRecords, EventTypes
  <2> HIDE DEF e
  <2> QED  BY <1>1, <2>3, EmitGrows
<1>4. CASE Invoke
  <2>1. cancelled' = cancelled /\ turnSeq' = turnSeq /\ roundSeq' = roundSeq
    BY <1>4 DEF Invoke
  <2>2. \/ UNCHANGED <<events, faults>>
        \/ \E n \in first .. GroupEnd : Emit(Event("question", 0, Id(n)))
    BY <1>4 DEF Invoke
  <2>3. ASSUME NEW n \in first .. GroupEnd, Emit(Event("question", 0, Id(n)))
        PROVE  /\ (faults' = 0 => faults = 0)
               /\ events' = events \/ \E e \in EventRecords : GrownBy(e) /\ Quiet(e)
    <3> DEFINE e == Event("question", 0, Id(n))
    <3>1. Dispatching  BY <1>4 DEF Invoke, Dispatching
    <3>2. n \in 1 .. Len(calls) /\ round <= MaxRound  BY <1>1, <3>1, PlaceFacts DEF Place
    <3>3. e \in EventRecords /\ Quiet(e) /\ Emit(e)
      BY <1>1, <2>3, <3>2 DEF Event, EventRecords, EventTypes
    <3> HIDE DEF e
    <3> QED  BY <1>1, <3>3, EmitGrows
  <2> QED  BY <2>1, <2>2, <2>3
<1>5. CASE EmitResult
  <2> DEFINE e == Event("tool_result", 0, Id(k))
  <2>1. Dispatching  BY <1>5 DEF EmitResult, Dispatching
  <2>2. k \in 1 .. Len(calls) /\ round <= MaxRound  BY <1>1, <2>1, PlaceFacts DEF Place
  <2>3. e \in EventRecords /\ Quiet(e) /\ Emit(e) /\ cancelled' = cancelled
        /\ turnSeq' = turnSeq /\ roundSeq' = roundSeq
    BY <1>1, <1>5, <2>2 DEF EmitResult, Event, EventRecords, EventTypes
  <2> HIDE DEF e
  <2> QED  BY <1>1, <2>3, EmitGrows
<1>6. CASE EmitLast
  <2> DEFINE e == LastEvent
  <2>1. e \in EventRecords /\ e.type \in {"done", "error"} /\ Emit(e) /\ cancelled' = cancelled
        /\ turnSeq' = turnSeq /\ roundSeq' = roundSeq
    BY <1>1, <1>6 DEF EmitLast, LastEvent, Event, EventRecords, EventTypes
  <2> HIDE DEF e
  <2>2. Quiet(e)  BY <2>1
  <2> QED  BY <1>1, <2>1, <2>2, EmitGrows
<1> QED  BY <1>2, <1>3, <1>4, <1>5, <1>6

\* The stream only grows, and what is new in it carries the round's number.
LEMMA TurnSteps ==
  ASSUME IInv, [Next]_vars
  PROVE  /\ Len(events) \in Nat /\ Len(events') \in Nat /\ Len(events) <= Len(events')
         /\ \A n \in 1 .. Len(events) : events'[n] = events[n]
         /\ \A n \in DOMAIN events' : \/ n \in 1 .. Len(events)
                                      \/ Says(n)' => events'[n].seq = roundSeq'
         /\ (faults' = 0 => faults = 0) /\ (~ cancelled' => ~ cancelled)
         /\ turnSeq' >= turnSeq /\ roundSeq' \in {roundSeq, turnSeq + 1}
<1>1. Types /\ Types'  BY NextInvariant DEF IInv
<1>2. /\ Len(events) \in Nat /\ DOMAIN events = 1 .. Len(events) /\ turnSeq \in Nat
      /\ Len(events') \in Nat /\ DOMAIN events' = 1 .. Len(events')
  BY <1>1 DEF Types
<1>3. CASE \/ AllocRound \/ AllocRoundFails \/ RoundsExhausted \/ StreamFails \/ StreamAnswers
           \/ StreamCalls \/ PersistAnswer \/ PersistCalls \/ CommitTool \/ AfterDispatch
           \/ Cleanup \/ Deferred \/ Cancel \/ UNCHANGED vars
  <2>1. /\ events' = events /\ (faults' = 0 => faults = 0) /\ (~ cancelled' => ~ cancelled)
        /\ turnSeq' >= turnSeq /\ roundSeq' \in {roundSeq, turnSeq + 1}
    BY <1>3, QuietSteps
  <2> QED  BY <1>2, <2>1
<1>4. CASE StreamText \/ EmitCall \/ Invoke \/ EmitResult \/ EmitLast
  <2>1. /\ \/ events' = events
           \/ \E e \in EventRecords : /\ GrownBy(e)
                                      /\ e.type \in {"text", "tool_call"} => e.seq = roundSeq
        /\ (faults' = 0 => faults = 0) /\ cancelled' = cancelled
        /\ turnSeq' = turnSeq /\ roundSeq' = roundSeq
    BY <1>4, EmittingSteps
  <2>2. CASE events' = events  BY <1>2, <2>1, <2>2
  <2>3. ASSUME NEW e \in EventRecords, GrownBy(e),
               e.type \in {"text", "tool_call"} => e.seq = roundSeq
        PROVE  /\ Len(events) <= Len(events')
               /\ \A n \in 1 .. Len(events) : events'[n] = events[n]
               /\ \A n \in DOMAIN events' : \/ n \in 1 .. Len(events)
                                            \/ Says(n)' => events'[n].seq = roundSeq'
    <3>1. \A n \in DOMAIN events' : n \in 1 .. Len(events) \/ events'[n] = e
      BY <1>2, <2>3 DEF GrownBy
    <3>2. \A n : events'[n] = e /\ Says(n)' => events'[n].seq = roundSeq'
      BY <2>1, <2>3 DEF Says
    <3> QED  BY <1>2, <2>3, <3>1, <3>2 DEF GrownBy
  <2> QED  BY <1>2, <2>1, <2>2, <2>3
<1> QED  BY <1>3, <1>4 DEF Next, Step

-----------------------------------------------------------------------------
(* The invariant. *)

\* The second browser's list stays what it was while it is not asked for again.
LEMMA ListedStays ==
  ASSUME listed' = listed
  PROVE  ListedSeq' = ListedSeq /\ \A s : ListedHas(s)' = ListedHas(s)
BY DEF ListedSeq, ListedHas

\* A step of the turn leaves the browsers where they are.
LEMMA TurnKeeps ==
  ASSUME RInv, [Next]_vars, UNCHANGED clients
  PROVE  RInv'
<1>1. IInv' /\ SayingsFit'  BY NextInvariant DEF RInv, IInv
<1>2. /\ live' = live /\ livePos' = livePos /\ liveSeen' = liveSeen /\ sent' = sent
      /\ resume' = resume /\ resPos' = resPos /\ resSeen' = resSeen /\ listed' = listed
      /\ ListedSeq' = ListedSeq /\ \A s : ListedHas(s)' = ListedHas(s)
  BY ListedStays DEF clients
<1>3. /\ Len(events) \in Nat /\ Len(events') \in Nat /\ Len(events) <= Len(events')
      /\ \A n \in 1 .. Len(events) : events'[n] = events[n]
      /\ \A n \in DOMAIN events' : \/ n \in 1 .. Len(events)
                                   \/ Says(n)' => events'[n].seq = roundSeq'
      /\ (faults' = 0 => faults = 0) /\ (~ cancelled' => ~ cancelled)
      /\ turnSeq' >= turnSeq /\ roundSeq' \in {roundSeq, turnSeq + 1}
  BY TurnSteps DEF RInv
<1>4. /\ Types /\ DOMAIN events = 1 .. Len(events) /\ turnSeq \in Nat /\ turnSeq' \in Nat
      /\ roundSeq \in Nat
  BY <1>1 DEF RInv, IInv, Types
<1>5. ClientsFit'
  <2>1. ClientsFit  BY DEF RInv
  <2>2. \A i \in 0 .. Len(events) : i \in 0 .. Len(events')  BY <1>3
  <2>3. \A S : S \subseteq 1 .. Len(events) => S \subseteq 1 .. Len(events')  BY <1>3
  <2> QED  BY <1>2, <2>1, <2>2, <2>3 DEF ClientsFit
<1>6. ListingFits'
  <2> SUFFICES ASSUME resume # "away"  PROVE  ListingFits'  BY <1>2 DEF ListingFits
  <2>1. /\ Len(listed) > 0 /\ ListedSeq <= turnSeq /\ ListedSeq \in Nat
        /\ \A m \in 1 .. Len(listed) : listed[m].seq <= ListedSeq
        /\ \A n \in 1 .. resPos : n \in resSeen <=> events[n].seq > ListedSeq
        /\ resPos \in 0 .. Len(events)
    <3>1. listed \in Seq(ListedRecords) /\ Len(listed) > 0
      BY DEF RInv, ClientsFit, ListingFits
    <3>2. listed[Len(listed)] \in ListedRecords  BY <3>1
    <3> QED  BY <3>2 DEF RInv, ListingFits, ClientsFit, ListedSeq, ListedRecords
  <2>2. \A n \in 1 .. resPos : events'[n] = events[n]  BY <1>3, <2>1
  <2> QED  BY <1>2, <1>3, <1>4, <2>1, <2>2 DEF ListingFits
<1>7. ShownFits'
  <2> SUFFICES ASSUME resume # "away", ~ cancelled', faults' = 0  PROVE  ShownFits'
    BY <1>2 DEF ShownFits
  <2>1. /\ \A n \in DOMAIN events :
             Says(n) /\ events[n].seq <= ListedSeq => ListedHas(events[n].seq)
        /\ roundSeq > 1 /\ roundSeq <= ListedSeq => ListedHas(roundSeq)
    BY <1>3 DEF RInv, ShownFits
  <2>2. ListedSeq <= turnSeq /\ ListedSeq \in Nat
    <3>1. listed \in Seq(ListedRecords) /\ Len(listed) > 0
      BY DEF RInv, ClientsFit, ListingFits
    <3>2. listed[Len(listed)] \in ListedRecords  BY <3>1
    <3> QED  BY <3>2 DEF RInv, ListingFits, ListedSeq, ListedRecords
  <2>3. roundSeq' > 1 /\ roundSeq' <= ListedSeq => ListedHas(roundSeq')
    BY <1>3, <1>4, <2>1, <2>2
  <2>4. \A n \in DOMAIN events' :
          Says(n)' /\ events'[n].seq <= ListedSeq => ListedHas(events'[n].seq)
    <3> SUFFICES ASSUME NEW n \in DOMAIN events', Says(n)', events'[n].seq <= ListedSeq
                 PROVE  ListedHas(events'[n].seq)
      OBVIOUS
    <3>1. CASE n \in 1 .. Len(events)
      <4>1. events'[n] = events[n] /\ Says(n)  BY <1>3, <3>1 DEF Says
      <4> QED  BY <1>4, <2>1, <3>1, <4>1
    <3>2. CASE events'[n].seq = roundSeq'
      <4>1. events'[n].seq > 1  BY <1>1 DEF SayingsFit
      <4> QED  BY <2>3, <3>2, <4>1
    <3> QED  BY <1>3, <3>1, <3>2
  <2> QED  BY <1>2, <2>3, <2>4 DEF ShownFits
<1> QED  BY <1>1, <1>5, <1>6, <1>7 DEF RInv

\* A step of a browser leaves the turn alone.
LEMMA TurnRests ==
  ASSUME IInv, UNCHANGED vars
  PROVE  /\ IInv' /\ events' = events /\ turnSeq' = turnSeq /\ roundSeq' = roundSeq
         /\ cancelled' = cancelled /\ faults' = faults /\ \A n : Says(n)' = Says(n)
         /\ Len(events) \in Nat /\ DOMAIN events = 1 .. Len(events)
<1>1. IInv'  BY StutterStep
<1>2. events \in Seq(EventRecords)  BY DEF IInv, Types
<1> QED  BY <1>1, <1>2 DEF vars, Says

\* The first browser's reads and its reconnection.
LEMMA LiveKeeps ==
  ASSUME RInv, LiveRead \/ LiveReconnect
  PROVE  RInv'
<1>1. IInv /\ UNCHANGED vars  BY DEF RInv, LiveRead, LiveReconnect
<1>2. /\ IInv' /\ events' = events /\ turnSeq' = turnSeq /\ roundSeq' = roundSeq
      /\ cancelled' = cancelled /\ faults' = faults /\ \A n : Says(n)' = Says(n)
      /\ Len(events) \in Nat /\ DOMAIN events = 1 .. Len(events)
  BY <1>1, TurnRests
<1>3. /\ resume' = resume /\ resPos' = resPos /\ resSeen' = resSeen /\ listed' = listed
      /\ ListedSeq' = ListedSeq /\ \A s : ListedHas(s)' = ListedHas(s)
  BY ListedStays DEF LiveRead, LiveReconnect
<1>4. ClientsFit'
  <2>1. ClientsFit  BY DEF RInv
  <2>2. /\ live' \in {"open", "closed"} /\ sent' \in 1 .. 2 /\ (live' = "open" => sent' = 1)
        /\ livePos' \in 0 .. Len(events) /\ liveSeen' \subseteq 1 .. Len(events)
    <3>1. CASE LiveRead
      <4>1. livePos' \in 1 .. Len(events)  BY <1>2, <2>1, <3>1 DEF LiveRead, ClientsFit
      <4> QED  BY <2>1, <3>1, <4>1 DEF LiveRead, ClientsFit
    <3>2. CASE LiveReconnect  BY <2>1, <3>2 DEF LiveReconnect, ClientsFit
    <3> QED  BY <3>1, <3>2
  <2> QED  BY <1>2, <1>3, <2>1, <2>2 DEF ClientsFit
<1>5. ListingFits'  BY <1>2, <1>3 DEF RInv, ListingFits
<1>6. ShownFits'  BY <1>2, <1>3 DEF RInv, ShownFits
<1> QED  BY <1>2, <1>4, <1>5, <1>6 DEF RInv

\* The second browser's list: the turn's rows behind the user's message.
LEMMA ListKeeps ==
  ASSUME RInv, List
  PROVE  RInv'
<1>1. IInv /\ UNCHANGED vars  BY DEF RInv, List
<1>2. /\ IInv' /\ events' = events /\ turnSeq' = turnSeq /\ roundSeq' = roundSeq
      /\ cancelled' = cancelled /\ faults' = faults /\ \A n : Says(n)' = Says(n)
      /\ Len(events) \in Nat /\ DOMAIN events = 1 .. Len(events)
  BY <1>1, TurnRests
<1>3. /\ live' = live /\ livePos' = livePos /\ liveSeen' = liveSeen /\ sent' = sent
      /\ resume' = "listed" /\ resPos' = resPos /\ resSeen' = resSeen /\ resPos = 0
      /\ listed' = <<UserRow>> \o log
  BY DEF List, RInv, ClientsFit
<1>4. /\ log \in Seq(RowRecords) /\ Len(log) \in Nat /\ DOMAIN log = 1 .. Len(log)
      /\ turnSeq \in Nat \ {0} /\ roundSeq \in Nat
      /\ \A n \in 1 .. Len(log) : log[n] \in ListedRecords /\ log[n].seq \in Nat
  <2>1. log \in Seq(RowRecords)  BY <1>1 DEF IInv, Types
  <2>2. RowRecords \subseteq ListedRecords  BY DEF RowRecords, ListedRecords
  <2>3. turnSeq \in Nat \ {0} /\ roundSeq \in Nat  BY <1>1 DEF IInv, Types
  <2> QED  BY <2>1, <2>2, <2>3, RecordFacts
<1>5. UserRow \in ListedRecords /\ UserRow.seq = 1  BY DEF UserRow, Row, ListedRecords
<1>6. /\ listed' \in Seq(ListedRecords) /\ Len(listed') = Len(log) + 1
      /\ listed'[1] = UserRow /\ \A n \in 1 .. Len(log) : listed'[n + 1] = log[n]
  <2>1. log \in Seq(ListedRecords) /\ <<UserRow>> \in Seq(ListedRecords)  BY <1>4, <1>5
  <2> QED  BY <1>3, <2>1
<1>7. /\ \A m, n \in 1 .. Len(log) : m < n => log[m].seq < log[n].seq
      /\ \A n \in 1 .. Len(log) : log[n].seq > 1 /\ log[n].seq <= turnSeq
  BY <1>1, <1>4 DEF IInv, RowsFit
<1>8. \/ Len(log) = 0 /\ ListedSeq' = 1
      \/ Len(log) > 0 /\ ListedSeq' = log[Len(log)].seq
  BY <1>4, <1>5, <1>6 DEF ListedSeq
<1>9. \A m \in 1 .. Len(listed') : m = 1 \/ (m - 1 \in 1 .. Len(log) /\ listed'[m] = log[m - 1])
  BY <1>4, <1>6
<1>10. ListedSeq' <= turnSeq /\ ListedSeq' \in Nat \ {0}
  <2>1. CASE Len(log) = 0  BY <1>4, <1>8, <2>1
  <2>2. CASE Len(log) > 0
    <3>1. Len(log) \in 1 .. Len(log)  BY <1>4, <2>2
    <3>2. log[Len(log)].seq \in Nat /\ log[Len(log)].seq > 1 /\ log[Len(log)].seq <= turnSeq
      BY <1>4, <1>7, <3>1
    <3> QED  BY <1>8, <2>2, <3>2
  <2> QED  BY <1>4, <2>1, <2>2
<1>11. \A m \in 1 .. Len(log) : log[m].seq <= ListedSeq'
  BY <1>4, <1>7, <1>8
<1>12. \A s : HasRow(s) => ListedHas(s)'
  <2> SUFFICES ASSUME NEW s, HasRow(s)  PROVE  ListedHas(s)'  OBVIOUS
  <2>1. PICK n \in 1 .. Len(log) : log[n].role = "assistant" /\ log[n].seq = s
    BY <1>4 DEF HasRow
  <2>2. n + 1 \in 1 .. Len(listed') /\ listed'[n + 1] = log[n]  BY <1>4, <1>6
  <2> QED  BY <2>1, <2>2 DEF ListedHas
<1>13. ClientsFit'
  BY <1>2, <1>3, <1>6 DEF RInv, ClientsFit
<1>14. ListingFits'
  BY <1>2, <1>3, <1>4, <1>5, <1>6, <1>9, <1>10, <1>11 DEF ListingFits
<1>15. ShownFits'
  <2> SUFFICES ASSUME ~ cancelled, faults = 0  PROVE  ShownFits'  BY <1>2 DEF ShownFits
  <2>1. SayingsFit  BY <1>1 DEF IInv
  <2>2. roundSeq > 1 /\ roundSeq <= ListedSeq' => ListedHas(roundSeq)'
    <3> SUFFICES ASSUME roundSeq > 1, roundSeq <= ListedSeq'  PROVE  ListedHas(roundSeq)'
      BY <1>2 DEF ListedHas
    <3>1. Len(log) > 0 /\ ListedSeq' = log[Len(log)].seq  BY <1>4, <1>8
    <3>2. Len(log) \in DOMAIN log  BY <1>4, <3>1
    <3>3. HasRow(roundSeq)  BY <2>1, <3>1, <3>2 DEF SayingsFit
    <3> QED  BY <1>2, <1>12, <3>3 DEF ListedHas
  <2>3. \A n \in DOMAIN events :
          Says(n) /\ events[n].seq <= ListedSeq' => ListedHas(events[n].seq)'
    <3> SUFFICES ASSUME NEW n \in DOMAIN events, Says(n), events[n].seq <= ListedSeq'
                 PROVE  ListedHas(events[n].seq)'
      OBVIOUS
    <3>1. events[n].seq > 1 /\ (events[n].seq = roundSeq \/ HasRow(events[n].seq))
      BY <2>1 DEF SayingsFit
    <3>2. CASE events[n].seq = roundSeq
      <4>1. ListedHas(roundSeq)'  BY <2>2, <3>1, <3>2
      <4> QED  BY <1>2, <3>2, <4>1 DEF ListedHas
    <3>3. CASE HasRow(events[n].seq)
      <4> DEFINE s == events[n].seq
      <4>1. s' = s  BY <1>2
      <4>2. HasRow(s)  BY <3>3
      <4> HIDE DEF s
      <4>3. \E m \in 1 .. Len(listed') : listed'[m].role = "assistant" /\ listed'[m].seq = s
        BY <1>4, <1>6, <4>2 DEF HasRow
      <4> QED  BY <4>1, <4>3 DEF ListedHas, s
    <3> QED  BY <3>1, <3>2, <3>3
  <2> QED  BY <1>2, <2>2, <2>3 DEF ShownFits, ListedHas
<1> QED  BY <1>2, <1>13, <1>14, <1>15 DEF RInv

\* The second browser's subscription.
LEMMA ResumeKeeps ==
  ASSUME RInv, CheckInFlight \/ ResumeRead
  PROVE  RInv'
<1>1. IInv /\ UNCHANGED vars /\ ClientsFit /\ ListingFits /\ ShownFits
  BY DEF RInv, CheckInFlight, ResumeRead
<1>2. /\ IInv' /\ events' = events /\ turnSeq' = turnSeq /\ roundSeq' = roundSeq
      /\ cancelled' = cancelled /\ faults' = faults /\ \A n : Says(n)' = Says(n)
      /\ Len(events) \in Nat /\ DOMAIN events = 1 .. Len(events)
  BY <1>1, TurnRests
<1>3. /\ live' = live /\ livePos' = livePos /\ liveSeen' = liveSeen /\ sent' = sent
      /\ listed' = listed /\ ListedSeq' = ListedSeq /\ \A s : ListedHas(s)' = ListedHas(s)
      /\ resume # "away" /\ resume' \in {"open", "idle", "closed"}
  BY ListedStays DEF CheckInFlight, ResumeRead
<1>4. /\ resPos' \in 0 .. Len(events) /\ resSeen' \subseteq 1 .. resPos'
      /\ \A n \in 1 .. resPos' : n \in resSeen' <=> events[n].seq > ListedSeq
  <2>1. CASE CheckInFlight  BY <1>1, <1>3, <2>1 DEF CheckInFlight, ClientsFit, ListingFits
  <2>2. CASE ResumeRead
    <3>1. resPos' = resPos + 1 /\ resPos \in 0 .. Len(events) /\ resPos < Len(events)
      BY <1>1, <2>2 DEF ResumeRead, ClientsFit
    <3>2. /\ events[resPos'].seq > ListedSeq => resSeen' = resSeen \cup {resPos'}
          /\ ~ (events[resPos'].seq > ListedSeq) => resSeen' = resSeen
      BY <1>1, <1>2, <2>2 DEF ResumeRead, Passes, vars
    <3>3. /\ resSeen \subseteq 1 .. resPos
          /\ \A n \in 1 .. resPos : n \in resSeen <=> events[n].seq > ListedSeq
      BY <1>1, <1>3 DEF ClientsFit, ListingFits
    <3>4. \A n \in 1 .. resPos' : n = resPos' \/ n \in 1 .. resPos  BY <1>2, <3>1
    <3>5. resPos' \notin 1 .. resPos /\ resPos' \in 1 .. Len(events)  BY <1>2, <3>1
    <3>6. 1 .. resPos \subseteq 1 .. resPos' /\ resPos' \in 1 .. resPos'  BY <1>2, <3>1
    <3>7. resPos' \in 0 .. Len(events) /\ resSeen' \subseteq 1 .. resPos'
      <4>1. resPos' \in 0 .. Len(events)  BY <1>2, <3>5
      <4>2. resSeen \subseteq 1 .. resPos' /\ {resPos'} \subseteq 1 .. resPos'
        BY <3>3, <3>6
      <4>3. resSeen' \subseteq resSeen \cup {resPos'}  BY <3>2
      <4> QED  BY <4>1, <4>2, <4>3
    <3>8. resPos' \notin resSeen  BY <3>3, <3>5
    <3>9. \A n \in 1 .. resPos' : n \in resSeen' <=> events[n].seq > ListedSeq
      <4> TAKE n \in 1 .. resPos'
      <4>1. CASE n = resPos'  BY <3>2, <3>8, <4>1
      <4>2. CASE n # resPos'
        <5>1. n \in 1 .. resPos  BY <3>4, <4>2
        <5>2. n \in resSeen' <=> n \in resSeen  BY <3>2, <4>2
        <5> QED  BY <3>3, <5>1, <5>2
      <4> QED  BY <4>1, <4>2
    <3> QED  BY <3>7, <3>9
  <2> QED  BY <2>1, <2>2
<1>5. ClientsFit'  BY <1>1, <1>2, <1>3, <1>4 DEF ClientsFit
<1>6. ListingFits'  BY <1>1, <1>2, <1>3, <1>4 DEF ListingFits
<1>7. ShownFits'  BY <1>1, <1>2, <1>3 DEF ShownFits
<1> QED  BY <1>2, <1>5, <1>6, <1>7 DEF RInv

\* The browsers start before the turn's first event.
LEMMA ReplayInitInvariant == ReplayInit => RInv
<1> SUFFICES ASSUME ReplayInit  PROVE  RInv  OBVIOUS
<1>1. IInv  BY InitInvariant DEF ReplayInit
<1>2. /\ live = "open" /\ livePos = 0 /\ liveSeen = {} /\ sent = 1 /\ resume = "away"
      /\ resPos = 0 /\ resSeen = {} /\ listed = <<>>
  BY DEF ReplayInit
<1>3. Len(events) \in Nat /\ <<>> \in Seq(ListedRecords)  BY <1>1 DEF IInv, Types
<1>4. ClientsFit  BY <1>2, <1>3 DEF ClientsFit
<1>5. ListingFits /\ ShownFits  BY <1>2 DEF ListingFits, ShownFits
<1> QED  BY <1>1, <1>4, <1>5 DEF RInv

\* Every step of the turn and of the browsers keeps the invariant.
LEMMA ReplayNextInvariant ==
  ASSUME RInv, [ReplayNext]_allVars
  PROVE  RInv'
<1>1. CASE Next /\ UNCHANGED clients  BY <1>1, TurnKeeps
<1>2. CASE LiveRead \/ LiveReconnect  BY <1>2, LiveKeeps
<1>3. CASE List  BY <1>3, ListKeeps
<1>4. CASE CheckInFlight \/ ResumeRead  BY <1>4, ResumeKeeps
<1>5. CASE UNCHANGED allVars
  <2>1. UNCHANGED vars /\ UNCHANGED clients  BY <1>5 DEF allVars
  <2> QED  BY <2>1, TurnKeeps
<1> QED  BY <1>1, <1>2, <1>3, <1>4, <1>5 DEF ReplayNext

\* The invariant holds at every step of a turn with its two browsers.
THEOREM ReplayInvariance == ReplaySpec => []RInv
<1>1. RInv /\ [ReplayNext]_allVars => RInv'  BY ReplayNextInvariant
<1> QED  BY <1>1, ReplayInitInvariant, PTL DEF ReplaySpec

\* The clients' states have their types, and positions lie in the stream.
THEOREM ReplayTypeCorrect == ReplaySpec => []ReplayTypeOK
<1>1. ASSUME RInv  PROVE  ReplayTypeOK
  <2>1. ClientsFit /\ Len(events) \in Nat  BY <1>1 DEF RInv, IInv, Types
  <2>2. 1 .. resPos \subseteq 1 .. Len(events)  BY <2>1 DEF ClientsFit
  <2> QED  BY <2>1, <2>2 DEF ClientsFit, ReplayTypeOK
<1> QED  BY <1>1, ReplayInvariance, PTL

\* List and stream together give a resuming client each text and call once: what it
\* loaded is not streamed again, and what it is not streamed it has loaded, unless the
\* turn was cancelled or storage failed (Replay, GetMessages).
THEOREM ResumeIsSafe == ReplaySpec => []ResumeIsExact
<1>1. ASSUME RInv  PROVE  ResumeIsExact
  <2>1. IInv /\ ClientsFit /\ ListingFits /\ ShownFits /\ Len(events) \in Nat
        /\ DOMAIN events = 1 .. Len(events)
    BY <1>1 DEF RInv, IInv, Types
  <2>2. ResumeRepeatsNothing
    <3> SUFFICES ASSUME NEW n \in resSeen, NEW m \in 1 .. Len(listed),
                        events[n].seq = listed[m].seq
                 PROVE  FALSE
      BY DEF ResumeRepeatsNothing, ListedRows
    <3>1. resume # "away" /\ n \in 1 .. resPos  BY <2>1 DEF ClientsFit
    <3>2. events[n].seq > ListedSeq /\ listed[m].seq <= ListedSeq
      BY <2>1, <3>1 DEF ListingFits
    <3>3. listed[m].seq \in Nat /\ ListedSeq \in Nat
      <4>1. listed \in Seq(ListedRecords) /\ Len(listed) > 0
        BY <2>1, <3>1 DEF ClientsFit, ListingFits
      <4>2. listed[Len(listed)] \in ListedRecords /\ listed[m] \in ListedRecords  BY <4>1
      <4> QED  BY <4>2 DEF ListedSeq, ListedRecords
    <3> QED  BY <3>2, <3>3
  <2>3. ResumeLosesNothing
    <3> SUFFICES ASSUME resume \in {"open", "closed"}, ~ cancelled, faults = 0,
                        NEW n \in 1 .. resPos, Says(n), n \notin resSeen
                 PROVE  \E r \in ListedRows : r.role = "assistant" /\ r.seq = events[n].seq
      BY DEF ResumeLosesNothing, Says
    <3>1. n \in DOMAIN events  BY <2>1 DEF ClientsFit
    <3>2. ~ (events[n].seq > ListedSeq)  BY <2>1 DEF ListingFits
    <3>3. events[n].seq \in Nat /\ ListedSeq \in Nat
      <4>1. listed \in Seq(ListedRecords) /\ Len(listed) > 0
        BY <2>1 DEF ClientsFit, ListingFits
      <4>2. listed[Len(listed)] \in ListedRecords  BY <4>1
      <4>3. events[n] \in EventRecords  BY <2>1, <3>1 DEF IInv, Types
      <4> QED  BY <4>2, <4>3, RecordFacts DEF ListedSeq, ListedRecords
    <3>4. ListedHas(events[n].seq)  BY <2>1, <3>1, <3>2, <3>3 DEF ShownFits
    <3> QED  BY <3>4 DEF ListedHas, ListedRows
  <2> QED  BY <2>2, <2>3 DEF ResumeIsExact
<1> QED  BY <1>1, ReplayInvariance, PTL
=============================================================================
