----------------------------- MODULE MessageLog -----------------------------
(***************************************************************************)
(* The message log of one conversation: the turn, message and in-turn      *)
(* counters in Redis with their cold start from the database (msgSeqRepo), *)
(* the messages table with its unique (turn_id, seq_id) index (msgRepo),   *)
(* the Redis list of recent messages (msgCacheRepo), and the way Chat and  *)
(* persistSink use them.  No row is ever marked modified: Chat reaches     *)
(* MarkModifiedFromTurn only with a prevTurnID, which is always 0 (Turn).  *)
(***************************************************************************)
EXTENDS Naturals, Sequences, FiniteSets

CONSTANTS
  Requests,     \* Chat requests that got past acquireTurn
  MaxMsgs,      \* bound: messages an agent stores
  MaxLosses,    \* bound: counters Redis loses (restart, eviction)
  MaxGaps       \* bound: lapses and failures of the message cache

ASSUME LogAssumption ==
  /\ IsFiniteSet(Requests)
  /\ MaxMsgs \in Nat /\ MaxLosses \in Nat /\ MaxGaps \in Nat

VARIABLES
  db,        \* rows [turn, seq, gseq] of the messages table
  ctr,       \* the counters that exist in Redis: 0 stands for a missing key
  cache,     \* the list msgs:<conv>, oldest first; empty: no key
  req,       \* the locals of each request, see Fresh
  losses,
  \* History variables: two requests were at work together because a lease was
  \* lost; lapses and failures of the cache so far; a counter was lost between
  \* EXISTS and INCR; the index refused a message; a turn was prompted with
  \* something else than the stored messages.
  overlapped, gaps, raced, refused, misled

store == <<db, ctr, cache>>
hist  == <<overlapped, gaps, raced, refused, misled>>
vars  == <<store, req, losses, hist>>

MaxTurn   == Cardinality(Requests)
TurnsKey  == <<"turns:count", 0>>
MsgsKey   == <<"msgs:seq", 0>>
SeqKey(t) == <<"seq", t>>
Keys      == {TurnsKey, MsgsKey} \cup {SeqKey(t) : t \in 1 .. MaxTurn}

ChatSteps  == {"turn", "load", "fill", "seq", "create", "push"}
RunSteps   == {"round", "roundSeq", "roundCreate", "roundPush"}
AbortSteps == {"abort", "abortCreate", "abortPush"}
Working    == ChatSteps \cup RunSteps \cup AbortSteps
Active(p)  == req[p].pc \in Working

\* pc; the stage of its coldStartIncr and the watermark it read; the turn and
\* the numbers of its next row; messages handled; the rows PushAll will push.
Fresh == [pc |-> "idle", stage |-> "exists", wm |-> 0,
          turn |-> 0, seq |-> 0, gseq |-> 0, msgs |-> 0, fill |-> <<>>]
Gone  == [Fresh EXCEPT !.pc = "ended"]

Set(p, r)   == req' = [req EXCEPT ![p] = r]
Goto(p, l)  == Set(p, [req[p] EXCEPT !.pc = l])

\* The counter a request is about to increment.
Key(p) == CASE req[p].pc = "turn"                -> TurnsKey
            [] req[p].pc \in {"seq", "roundSeq"} -> MsgsKey
            [] req[p].pc \in {"round", "abort"}  -> SeqKey(req[p].turn)

\* Defect: the counter restarts at the number of rows.
WatermarkCount(p) == Cardinality(db)

\* Defect: the message counter restarts from the rows of its own turn.
WatermarkOfTurn(p) ==
  LET mine == {x \in db : x.turn = req[p].turn}
      nums == CASE req[p].pc = "turn"                -> {r.turn : r \in db}
                [] req[p].pc \in {"seq", "roundSeq"} -> {r.gseq : r \in mine}
                [] OTHER                             -> {r.seq : r \in mine}
  IN  CHOOSE m \in nums \cup {0} : \A n \in nums : n <= m

\* MAX over the table for that counter, 0 for no rows.
Watermark(p) ==
  LET nums == CASE req[p].pc = "turn"                -> {r.turn : r \in db}
                [] req[p].pc \in {"seq", "roundSeq"} -> {r.gseq : r \in db}
                [] OTHER -> {r.seq : r \in {x \in db : x.turn = req[p].turn}}
  IN  CHOOSE m \in nums \cup {0} : \A n \in nums : n <= m

\* Defect: ORDER BY seq.
BeforeBySeq(a, b) == a.gseq < b.gseq

\* ListByConversationID: ORDER BY turn_id, seq_id.
Before(a, b) == \/ a.turn < b.turn
                \/ a.turn = b.turn /\ a.seq < b.seq

\* A row's place in the list is after all rows before it.
Rank(rows, r) == Cardinality({x \in rows : Before(x, r)}) + 1
Sorted(rows)  == [n \in 1 .. Cardinality(rows) |-> CHOOSE r \in rows : Rank(rows, r) = n]
Listed        == Sorted(db)
-----------------------------------------------------------------------------
Init ==
  /\ db = {} /\ cache = <<>>
  /\ ctr = [key \in Keys |-> 0]
  /\ req = [p \in Requests |-> Fresh]
  /\ losses = 0
  /\ overlapped = FALSE /\ gaps = 0 /\ raced = FALSE /\ refused = FALSE /\ misled = FALSE

Begin(p) ==
  /\ req[p].pc = "idle"
  /\ overlapped' = (overlapped \/ \E q \in Requests : Active(q))
  /\ Goto(p, "turn")
  /\ UNCHANGED <<store, losses, gaps, raced, refused, misled>>
-----------------------------------------------------------------------------
(* coldStartIncr: EXISTS, then INCR, or the watermark query and the script. *)

Allocating(p) == req[p].pc \in {"turn", "seq", "round", "roundSeq", "abort"}

Exists(p) ==
  /\ Allocating(p) /\ req[p].stage = "exists"
  /\ Set(p, [req[p] EXCEPT !.stage = IF ctr[Key(p)] = 0 THEN "watermark" ELSE "incr"])
  /\ UNCHANGED <<store, losses, hist>>

ReadWatermark(p) ==
  /\ Allocating(p) /\ req[p].stage = "watermark"
  /\ Set(p, [req[p] EXCEPT !.stage = "init", !.wm = Watermark(p)])
  /\ UNCHANGED <<store, losses, hist>>

\* What a request does with the number it got.  The user message has SeqID 1;
\* AbortSysMsg leaves Seq at 0.
Assigned(r, n) ==
  CASE r.pc = "turn"     -> [r EXCEPT !.turn = n, !.pc = "load"]
    [] r.pc = "seq"      -> [r EXCEPT !.gseq = n, !.seq = 1, !.pc = "create"]
    [] r.pc = "round"    -> [r EXCEPT !.seq = n, !.pc = "roundSeq"]
    [] r.pc = "roundSeq" -> [r EXCEPT !.gseq = n, !.pc = "roundCreate"]
    [] r.pc = "abort"    -> [r EXCEPT !.seq = n, !.gseq = 0, !.pc = "abortCreate"]

\* INCR, or initSeqScript, which sets a missing counter to the watermark first.
Increment(p) ==
  /\ Allocating(p) /\ req[p].stage \in {"init", "incr"}
  /\ LET base == IF req[p].stage = "init" /\ ctr[Key(p)] = 0
                 THEN req[p].wm ELSE ctr[Key(p)]
     IN  /\ ctr' = [ctr EXCEPT ![Key(p)] = base + 1]
         /\ Set(p, [Assigned(req[p], base + 1) EXCEPT !.stage = "exists", !.wm = 0])
  /\ UNCHANGED <<db, cache, losses, hist>>
-----------------------------------------------------------------------------
(* Chat: loadHistory, the user message; persistSink.Persist: the agent's. *)

UseCache(p) ==
  /\ req[p].pc = "load" /\ cache # <<>>
  /\ misled' = (misled \/ cache # Listed)
  /\ Goto(p, "seq")
  /\ UNCHANGED <<store, losses, overlapped, gaps, raced, refused>>

\* The cache is empty, or its List failed.
UseTable(p) ==
  /\ req[p].pc = "load"
  /\ \/ cache = <<>> /\ UNCHANGED gaps
     \/ cache # <<>> /\ gaps < MaxGaps /\ gaps' = gaps + 1
  /\ Set(p, [req[p] EXCEPT !.fill = Listed, !.pc = IF db = {} THEN "seq" ELSE "fill"])
  /\ UNCHANGED <<store, losses, overlapped, raced, refused, misled>>

\* RPUSH, or its logged failure.
Cached(rows) ==
  \/ cache' = cache \o rows /\ UNCHANGED gaps
  \/ gaps < MaxGaps /\ gaps' = gaps + 1 /\ UNCHANGED cache

Fill(p) ==
  /\ req[p].pc = "fill"
  /\ Cached(req[p].fill)
  /\ Set(p, [req[p] EXCEPT !.fill = <<>>, !.pc = "seq"])
  /\ UNCHANGED <<db, ctr, losses, overlapped, raced, refused, misled>>

RowOf(p) == [turn |-> req[p].turn, seq |-> req[p].seq, gseq |-> req[p].gseq]

Taken(p) == \E r \in db : r.turn = req[p].turn /\ r.seq = req[p].seq

\* The agent's next message, or the end of Run.
Advance(r) == IF r.msgs + 1 < MaxMsgs
              THEN [r EXCEPT !.pc = "round", !.stage = "exists", !.wm = 0, !.msgs = @ + 1]
              ELSE Gone

\* INSERT under the unique index on (turn_id, seq_id).
Create(p) ==
  /\ req[p].pc \in {"create", "roundCreate", "abortCreate"}
  /\ ~Taken(p)
  /\ db' = db \cup {RowOf(p)}
  /\ Goto(p, CASE req[p].pc = "create"      -> "push"
               [] req[p].pc = "roundCreate" -> "roundPush"
               [] req[p].pc = "abortCreate" -> "abortPush")
  /\ UNCHANGED <<ctr, cache, losses, hist>>

\* A refused user message ends Chat, a refused agent message is only logged.
Refused(p) ==
  /\ req[p].pc \in {"create", "roundCreate", "abortCreate"}
  /\ Taken(p)
  /\ refused' = TRUE
  /\ Set(p, IF req[p].pc = "roundCreate" THEN Advance(req[p]) ELSE Gone)
  /\ UNCHANGED <<store, losses, overlapped, gaps, raced, misled>>

Push(p) ==
  /\ req[p].pc \in {"push", "roundPush", "abortPush"}
  /\ Cached(<<RowOf(p)>>)
  /\ Set(p, CASE req[p].pc = "push"      -> [req[p] EXCEPT !.pc = "round"]
              [] req[p].pc = "roundPush" -> Advance(req[p])
              [] req[p].pc = "abortPush" -> Gone)
  /\ UNCHANGED <<db, ctr, losses, overlapped, raced, refused, misled>>

\* A command of AllocTurnSeq or Persist fails: logged, the message is not stored.
Skip(p) ==
  /\ req[p].pc \in {"round", "roundSeq", "roundCreate"}
  /\ Set(p, Advance(req[p]))
  /\ UNCHANGED <<store, losses, hist>>

\* The agent's context is cancelled: Run returns and AbortSysMsg begins.
Abort(p) ==
  /\ req[p].pc \in {"round", "roundSeq", "roundCreate"}
  /\ Set(p, [req[p] EXCEPT !.pc = "abort", !.stage = "exists", !.wm = 0])
  /\ UNCHANGED <<store, losses, hist>>

\* An error of Chat or AbortSysMsg, or the end of the process: between INSERT
\* and RPUSH it leaves the cache without the row.
Stop(p) ==
  /\ Active(p)
  /\ IF req[p].pc \in {"push", "roundPush", "abortPush"}
     THEN gaps < MaxGaps /\ gaps' = gaps + 1
     ELSE UNCHANGED gaps
  /\ Set(p, Gone)
  /\ UNCHANGED <<store, losses, overlapped, raced, refused, misled>>
-----------------------------------------------------------------------------
(* Redis: MessageCacheTTL without a push, and the loss of a counter. *)

CacheLapses ==
  /\ cache # <<>> /\ gaps < MaxGaps
  /\ cache' = <<>>
  /\ gaps' = gaps + 1
  /\ UNCHANGED <<db, ctr, req, losses, overlapped, raced, refused, misled>>

LoseCounter ==
  /\ losses < MaxLosses
  /\ losses' = losses + 1
  /\ \E key \in Keys :
       /\ ctr[key] # 0
       /\ ctr' = [ctr EXCEPT ![key] = 0]
       /\ raced' = (raced \/ \E p \in Requests :
                      Allocating(p) /\ Key(p) = key /\ req[p].stage = "incr")
  /\ UNCHANGED <<db, cache, req, overlapped, gaps, refused, misled>>

Step(p) ==
  \/ Begin(p) \/ Exists(p) \/ ReadWatermark(p) \/ Increment(p)
  \/ UseCache(p) \/ UseTable(p) \/ Fill(p) \/ Create(p) \/ Refused(p) \/ Push(p)
  \/ Skip(p) \/ Abort(p) \/ Stop(p)

Next == CacheLapses \/ LoseCounter \/ \E p \in Requests : Step(p)

Spec == Init /\ [][Next]_vars
-----------------------------------------------------------------------------
(* Properties. *)

Rows == [turn : 1 .. MaxTurn, seq : Nat \ {0}, gseq : Nat]

\* Every variable keeps the type the code gives it.
TypeOK ==
  /\ db \subseteq Rows
  /\ \A key \in Keys : ctr[key] \in Nat
  /\ \A n \in 1 .. Len(cache) : cache[n] \in Rows
  /\ \A p \in Requests :
       /\ req[p].pc \in Working \cup {"idle", "ended"}
       /\ req[p].stage \in {"exists", "watermark", "init", "incr"}
       /\ req[p].turn \in 0 .. MaxTurn
       /\ {req[p].wm, req[p].seq, req[p].gseq} \subseteq Nat
       /\ req[p].msgs \in 0 .. MaxMsgs

\* Requests whose user message is stored run under different turn ids, even
\* when Redis lost the counter under them and two turns overlap.
TurnIdsDiffer ==
  \A p, q \in Requests :
    LET started(r) == req[r].pc \in {"push"} \cup RunSteps \cup AbortSteps
    IN  p # q /\ started(p) /\ started(q) => req[p].turn # req[q].turn

\* While turns do not overlap, the unique index refuses a message only after a
\* counter vanished between EXISTS and INCR: a restart of Redis at any other
\* moment costs no message.
RefusalNeedsRace == refused => raced \/ overlapped

\* Message numbers follow the turns, even when Redis lost the counters between
\* two of them: a later turn's messages have greater numbers.
NumbersFollowTurns ==
  ~raced /\ ~overlapped =>
    \A r, s \in db : r.turn < s.turn /\ s.gseq > 0 => r.gseq < s.gseq

\* What is cached is stored: a prompt never shows the model a message the
\* database refused.
CacheIsStored == \A n \in 1 .. Len(cache) : cache[n] \in db

\* While turns do not overlap, no counter vanishes between EXISTS and INCR and the
\* cache neither lapses nor fails, every turn's prompt holds all earlier messages,
\* each once and in order.
HistoryIsWhole == misled => gaps > 0 \/ overlapped \/ raced

\* Numbering survives the loss of counters: ids of turns differ, later messages have
\* greater numbers, and nothing is refused but by a race.
NumbersAreSound == TurnIdsDiffer /\ NumbersFollowTurns /\ RefusalNeedsRace

\* The prompt is the stored history: nothing else is cached, and nothing is missing.
PromptIsStored == CacheIsStored /\ HistoryIsWhole
=============================================================================
