------------------------------ MODULE AgentRun ------------------------------
(***************************************************************************)
(* One agent turn: Agent.Run with the sinks Chat gives it, from the first  *)
(* LLM round to the deferred cleanup and AbortSysMsg.  The turn's user     *)
(* message is already stored with SeqID 1.  Texts, arguments and results   *)
(* are left out; a tool call is its round and its index in the LLM's       *)
(* answer.                                                                 *)
(***************************************************************************)
EXTENDS Naturals, Sequences, FiniteSets, SequencesExt

CONSTANTS
  Concurrent,   \* tools whose Traits().Concurrent is set
  Pausing,      \* tools whose Traits().PausesTurn is set: ask_user_tool
  Batches,      \* the sequences of tools an LLM answer can call
  MaxRound,     \* Agent.maxRound
  MaxDeltas,    \* bound: text deltas per round
  MaxFaults,    \* bound: failing Redis and database commands
  MayCancel     \* the agent's context may be cancelled

\* An answer without calls is the last of the turn, not a batch.
ASSUME AgentAssumption ==
  /\ \A b \in Batches : Len(b) \in Nat \ {0} /\ DOMAIN b = 1 .. Len(b)
  /\ {MaxRound, MaxDeltas, MaxFaults} \subseteq Nat

VARIABLES
  pc, round,
  turnSeq,      \* the counter behind NextTurnSeq
  roundSeq,     \* roundTurnSeq
  calls,        \* the tool calls of the round, as Stream returned them
  first, k,     \* dispatchCalls: start of the group, call at hand
  invoked,      \* positions of the group whose Invoke returned
  issued,       \* msgs: calls of the assistant messages appended so far
  fulfilled,    \* msgs: calls whose tool message was appended
  events,       \* the turn's part of the Redis stream
  log,          \* the turn's rows in the messages table, in insertion order
  cancelled, faults, deltas

loop == <<round, calls, first, k, invoked, issued, fulfilled, deltas>>
vars == <<pc, loop, turnSeq, roundSeq, events, log, cancelled, faults>>

NoCall == <<0, 0>>
Id(n)  == <<round, calls[n].idx>>
Ids    == {Id(n) : n \in 1 .. Len(calls)}

Goto(label) == pc' = label

Event(type, seq, call) == [type |-> type, seq |-> seq, call |-> call]
Row(role, seq, ids)    == [role |-> role, seq |-> seq, calls |-> ids]

Fault == faults < MaxFaults /\ faults' = faults + 1

\* fanoutSink.Emit: XADD under context.Background(); callers drop its error.
Emit(e) ==
  \/ events' = Append(events, e) /\ UNCHANGED faults
  \/ Fault /\ UNCHANGED events

\* AllocTurnSeq: INCR under the agent's context.
AllocOk   == ~cancelled /\ turnSeq' = turnSeq + 1
AllocFail == \/ cancelled /\ UNCHANGED <<turnSeq, faults>>
             \/ Fault /\ turnSeq' \in {turnSeq, turnSeq + 1}

\* Persist under the agent's context: a cancelled context or a failing command
\* stores nothing and Run goes on.
Store(row) ==
  \/ ~cancelled /\ log' = Append(log, row) /\ UNCHANGED faults
  \/ cancelled /\ UNCHANGED <<log, faults>>
  \/ Fault /\ UNCHANGED log
-----------------------------------------------------------------------------
Init ==
  /\ pc = "alloc" /\ round = 1
  /\ turnSeq = 1 /\ roundSeq = 0
  /\ calls = <<>> /\ first = 0 /\ k = 0 /\ invoked = {}
  /\ issued = {} /\ fulfilled = {}
  /\ events = <<>> /\ log = <<>>
  /\ cancelled = FALSE /\ faults = 0 /\ deltas = 0

\* Defect: one round too many.
AllocRoundTooMany ==
  /\ pc = "alloc" /\ round <= MaxRound + 1
  /\ AllocOk
  /\ roundSeq' = turnSeq'
  /\ Goto("stream")
  /\ UNCHANGED <<loop, events, log, cancelled, faults>>

AllocRound ==
  /\ pc = "alloc" /\ round <= MaxRound
  /\ AllocOk
  /\ roundSeq' = turnSeq'
  /\ Goto("stream")
  /\ UNCHANGED <<loop, events, log, cancelled, faults>>

AllocRoundFails ==
  /\ pc = "alloc" /\ round <= MaxRound
  /\ AllocFail
  /\ Goto("seqError")
  /\ UNCHANGED <<loop, roundSeq, events, log, cancelled>>

RoundsExhausted ==
  /\ pc = "alloc" /\ round > MaxRound
  /\ Goto("roundError")
  /\ UNCHANGED <<loop, turnSeq, roundSeq, events, log, cancelled, faults>>

\* The onText callback of Stream.
StreamText ==
  /\ pc = "stream" /\ deltas < MaxDeltas
  /\ deltas' = deltas + 1
  /\ Emit(Event("text", roundSeq, NoCall))
  /\ UNCHANGED <<pc, round, calls, first, k, invoked, issued, fulfilled,
                 turnSeq, roundSeq, log, cancelled>>

StreamFails ==
  /\ pc = "stream"
  /\ Goto("llmError")
  /\ UNCHANGED <<loop, turnSeq, roundSeq, events, log, cancelled, faults>>

StreamAnswers ==
  /\ pc = "stream"
  /\ Goto("answer")
  /\ UNCHANGED <<loop, turnSeq, roundSeq, events, log, cancelled, faults>>

\* Stream collects the calls in a map by index and returns them in the order
\* Go iterates over it, which is any order.
StreamCalls ==
  /\ pc = "stream"
  /\ \E batch \in Batches :
       \E order \in Injection(1 .. Len(batch), 1 .. Len(batch)) :
         calls' = [n \in 1 .. Len(batch) |->
                     [tool |-> batch[order[n]], idx |-> order[n]]]
  /\ Goto("record")
  /\ UNCHANGED <<round, first, k, invoked, issued, fulfilled, deltas,
                 turnSeq, roundSeq, events, log, cancelled, faults>>

PersistAnswer ==
  /\ pc = "answer"
  /\ Store(Row("assistant", roundSeq, {}))
  /\ Goto("done")
  /\ UNCHANGED <<loop, turnSeq, roundSeq, events, cancelled>>

PersistCalls ==
  /\ pc = "record"
  /\ Store(Row("assistant", roundSeq, Ids))
  /\ issued' = issued \cup Ids
  /\ first' = 1 /\ k' = 1 /\ invoked' = {}
  /\ Goto("emit")
  /\ UNCHANGED <<round, calls, fulfilled, deltas, turnSeq, roundSeq, events, cancelled>>
-----------------------------------------------------------------------------
(* dispatchCalls: groups of consecutive concurrent calls, one call otherwise. *)

IsConcurrent(n) == calls[n].tool \in Concurrent

\* Defect: the group does not stop at the next serial call.
GroupEndOfAll == IF ~IsConcurrent(first) THEN first ELSE Len(calls)

\* The last call of the group that starts at first.
GroupEnd ==
  IF ~IsConcurrent(first) THEN first
  ELSE CHOOSE j \in first .. Len(calls) :
         /\ \A n \in first .. j : IsConcurrent(n)
         /\ j < Len(calls) => ~IsConcurrent(j + 1)

EmitCall ==
  /\ pc = "emit"
  /\ Emit(Event("tool_call", roundSeq, Id(k)))
  /\ IF k < GroupEnd THEN k' = k + 1 /\ Goto("emit")
                     ELSE k' = first /\ Goto("invoke")
  /\ UNCHANGED <<round, calls, first, invoked, issued, fulfilled, deltas,
                 turnSeq, roundSeq, log, cancelled>>

\* Defect: the pausing tool waits for the user's answer.
InvokeWaits ==
  /\ pc = "invoke"
  /\ \E n \in first .. GroupEnd \ invoked :
       /\ calls[n].tool \notin Pausing
       /\ invoked' = invoked \cup {n}
       /\ UNCHANGED <<events, faults>>
  /\ Goto(IF invoked' = first .. GroupEnd THEN "commit" ELSE "invoke")
  /\ UNCHANGED <<round, calls, first, k, issued, fulfilled, deltas,
                 turnSeq, roundSeq, log, cancelled>>

\* The invocations of a group end in any order.  A pausing tool with valid
\* arguments emits its question, without a SeqID.
Invoke ==
  /\ pc = "invoke"
  /\ \E n \in first .. GroupEnd \ invoked :
       /\ invoked' = invoked \cup {n}
       /\ \/ calls[n].tool \in Pausing /\ Emit(Event("question", 0, Id(n)))
          \/ UNCHANGED <<events, faults>>
  /\ Goto(IF invoked' = first .. GroupEnd THEN "commit" ELSE "invoke")
  /\ UNCHANGED <<round, calls, first, k, issued, fulfilled, deltas,
                 turnSeq, roundSeq, log, cancelled>>

\* Defect: the tool message is stored under context.Background().
CommitToolDetached ==
  /\ pc = "commit"
  /\ fulfilled' = fulfilled \cup {Id(k)}
  /\ turnSeq' = turnSeq + 1
  /\ log' = Append(log, Row("tool", turnSeq', {Id(k)}))
  /\ Goto("result")
  /\ UNCHANGED <<round, calls, first, k, invoked, issued, deltas,
                 roundSeq, events, cancelled, faults>>

\* commitTool up to Persist: the message joins msgs before anything is stored.
CommitTool ==
  /\ pc = "commit"
  /\ fulfilled' = fulfilled \cup {Id(k)}
  /\ \/ AllocOk /\ Store(Row("tool", turnSeq', {Id(k)}))
     \/ AllocFail /\ UNCHANGED log
  /\ Goto("result")
  /\ UNCHANGED <<round, calls, first, k, invoked, issued, deltas,
                 roundSeq, events, cancelled>>

EmitResult ==
  /\ pc = "result"
  /\ Emit(Event("tool_result", 0, Id(k)))
  /\ IF k < GroupEnd
     THEN k' = k + 1 /\ Goto("commit") /\ UNCHANGED <<first, invoked>>
     ELSE /\ first' = k + 1 /\ k' = k + 1 /\ invoked' = {}
          /\ Goto(IF k < Len(calls) THEN "emit" ELSE "dispatched")
  /\ UNCHANGED <<round, calls, issued, fulfilled, deltas,
                 turnSeq, roundSeq, log, cancelled>>

AfterDispatch ==
  /\ pc = "dispatched"
  /\ IF \E n \in 1 .. Len(calls) : calls[n].tool \in Pausing
     THEN Goto("pause") /\ UNCHANGED loop
     ELSE /\ Goto("alloc")
          /\ round' = round + 1 /\ calls' = <<>> /\ deltas' = 0
          /\ UNCHANGED <<first, k, invoked, issued, fulfilled>>
  /\ UNCHANGED <<turnSeq, roundSeq, events, log, cancelled, faults>>
-----------------------------------------------------------------------------
(* The ends of Run, its deferred cleanup, and Chat's deferred AbortSysMsg. *)

LastEvent ==
  CASE pc = "done"       -> Event("done", roundSeq, NoCall)
    [] pc = "pause"      -> Event("done", 0, NoCall)
    [] pc = "seqError"   -> Event("error", 0, NoCall)
    [] pc = "llmError"   -> Event("error", 0, NoCall)
    [] pc = "roundError" -> Event("error", 0, NoCall)

EmitLast ==
  /\ pc \in {"done", "pause", "seqError", "llmError", "roundError"}
  /\ Emit(LastEvent)
  /\ Goto("cleanup")
  /\ UNCHANGED <<loop, turnSeq, roundSeq, log, cancelled>>

\* The calls of msgs without a tool message, when the context is cancelled.
Interrupted == IF cancelled THEN SetToSeq(issued \ fulfilled) ELSE <<>>

\* Each gets an "interrupted" message and result, under context.Background();
\* there is none by then (CallsAreCommitted), so their failures are left out.
Cleanup ==
  /\ pc = "cleanup"
  /\ turnSeq' = turnSeq + Len(Interrupted)
  /\ log' = log \o [n \in 1 .. Len(Interrupted) |->
                      Row("tool", turnSeq + n, {Interrupted[n]})]
  /\ events' = events \o [n \in 1 .. Len(Interrupted) |->
                            Event("tool_result", 0, Interrupted[n])]
  /\ Goto("deferred")
  /\ UNCHANGED <<loop, roundSeq, cancelled, faults>>

\* Chat's deferred function: AbortSysMsg, under context.Background().
Deferred ==
  /\ pc = "deferred"
  /\ \/ ~cancelled /\ UNCHANGED <<turnSeq, log, faults>>
     \/ /\ cancelled
        /\ turnSeq' = turnSeq + 1
        /\ log' = Append(log, Row("system", turnSeq', {}))
        /\ UNCHANGED faults
     \/ cancelled /\ Fault /\ turnSeq' \in {turnSeq, turnSeq + 1} /\ UNCHANGED log
  /\ Goto("ended")
  /\ UNCHANGED <<loop, roundSeq, events, cancelled>>

Cancel ==
  /\ MayCancel /\ ~cancelled /\ pc # "ended"
  /\ cancelled' = TRUE
  /\ UNCHANGED <<pc, loop, turnSeq, roundSeq, events, log, faults>>
-----------------------------------------------------------------------------
Step ==
  \/ AllocRound \/ AllocRoundFails \/ RoundsExhausted
  \/ StreamText \/ StreamFails \/ StreamAnswers \/ StreamCalls
  \/ PersistAnswer \/ PersistCalls
  \/ EmitCall \/ Invoke \/ CommitTool \/ EmitResult \/ AfterDispatch
  \/ EmitLast \/ Cleanup \/ Deferred

Next == Step \/ Cancel

Spec == Init /\ [][Next]_vars

\* The turn's goroutine runs until Run and the deferred calls return.
FairSpec == Spec /\ WF_vars(Step)
-----------------------------------------------------------------------------
(* Properties. *)

PCs == {"alloc", "stream", "answer", "record", "emit", "invoke", "commit", "result",
        "dispatched", "done", "pause", "seqError", "llmError", "roundError",
        "cleanup", "deferred", "ended"}
EventTypes == {"text", "tool_call", "tool_result", "question", "done", "error"}
CallIds    == {NoCall} \cup ((1 .. MaxRound) \X Nat)

\* Every variable keeps the type the code gives it.
TypeOK ==
  /\ pc \in PCs
  /\ round \in 1 .. MaxRound + 1
  /\ {turnSeq, roundSeq, first, k} \subseteq Nat
  /\ \A n \in 1 .. Len(calls) : calls[n].idx \in 1 .. Len(calls)
  /\ invoked \subseteq 1 .. Len(calls)
  /\ issued \cup fulfilled \subseteq CallIds
  /\ \A n \in 1 .. Len(events) :
       events[n] \in [type : EventTypes, seq : Nat, call : CallIds]
  /\ \A n \in 1 .. Len(log) :
       /\ log[n].role \in {"assistant", "tool", "system"}
       /\ log[n].seq \in Nat
       /\ log[n].calls \subseteq CallIds
  /\ cancelled \in BOOLEAN
  /\ faults \in 0 .. MaxFaults
  /\ deltas \in 0 .. MaxDeltas

At(type) == {n \in DOMAIN events : events[n].type = type}
Stored(c, role) == \E n \in 1 .. Len(log) : log[n].role = role /\ c \in log[n].calls

\* A turn ends with one done or error event, on every path of Run, unless Redis
\* failed; nothing is emitted after it.
OneLastEvent ==
  /\ \A n \in 1 .. Len(events) :
       events[n].type \in {"done", "error"} => n = Len(events)
  /\ pc = "ended" /\ faults = 0 =>
       events # <<>> /\ events[Len(events)].type \in {"done", "error"}

\* Serial or parallel, cancelled or not: every call is announced once and answered at
\* most once, after its announcement and after every call announced before it; a turn
\* ends with no call unanswered.
ResultsFollowCalls ==
  faults = 0 =>
    /\ \A type \in {"tool_call", "tool_result"} : \A m, n \in At(type) :
         events[m].call = events[n].call => m = n
    /\ \A j \in At("tool_result") : \E m \in At("tool_call") :
         m < j /\ events[m].call = events[j].call
    /\ \A m, n \in At("tool_call") : \A j \in At("tool_result") :
         m < n /\ events[j].call = events[n].call =>
           \E i \in At("tool_result") : i < j /\ events[i].call = events[m].call
    /\ pc = "ended" => \A m \in At("tool_call") : \E j \in At("tool_result") :
                         events[j].call = events[m].call

\* A tool without the Concurrent trait never runs beside another call.
SerialRunsAlone ==
  pc = "invoke" =>
    \A n \in first .. GroupEnd : ~IsConcurrent(n) => first .. GroupEnd = {n}

\* The rows of a turn are stored in the order of their SeqIDs, none twice and
\* none with the user message's: the unique index rejects no message of a run.
RowsAreOrdered ==
  /\ \A n \in 1 .. Len(log) : log[n].seq > 1
  /\ \A m, n \in 1 .. Len(log) : m < n => log[m].seq < log[n].seq

\* A stored tool message answers a stored assistant message, unless the
\* database failed: cancelling never orphans one.
ToolRowNeedsCall ==
  faults = 0 =>
    \A n \in 1 .. Len(log) : log[n].role = "tool" =>
      \A c \in log[n].calls : \E m \in 1 .. n : log[m].role = "assistant" /\ c \in log[m].calls

\* A finished turn leaves a tool call without a stored result only if it was
\* cancelled or the database failed.
UnansweredNeedsCancel ==
  pc = "ended" /\ ~cancelled /\ faults = 0 =>
    \A c \in issued : Stored(c, "assistant") => Stored(c, "tool")

\* Events that carry a SeqID carry it in stream order, and announce a call
\* under the SeqID of the assistant row that holds it: what Replay's cursor needs.
SeqIdsAreOrdered ==
  /\ \A m, n \in 1 .. Len(events) :
       m < n /\ events[m].seq # 0 /\ events[n].seq # 0 => events[m].seq <= events[n].seq
  /\ \A m \in 1 .. Len(events), n \in 1 .. Len(log) :
       /\ events[m].type = "tool_call" /\ log[n].role = "assistant"
       /\ events[m].call \in log[n].calls
       => events[m].seq = log[n].seq

\* Every tool call of msgs has its tool message when Run's cleanup looks: the
\* "interrupted" messages it could write are never due.
CallsAreCommitted == pc = "cleanup" => issued \subseteq fulfilled

\* Every call of a turn is run as its tool allows and answered, in the stream, in the
\* table and in the prompt (dispatchCalls, commitTool, Run's deferred cleanup).
CallsAreAnswered ==
  ResultsFollowCalls /\ SerialRunsAlone /\ UnansweredNeedsCancel /\ CallsAreCommitted

\* The stream and the table tell one story: one last event, and rows and events under
\* numbers in the order Replay's cursor and the unique index rely on.
StreamFitsLog == OneLastEvent /\ SeqIdsAreOrdered /\ RowsAreOrdered /\ ToolRowNeedsCall

\* Run returns, cancelled or not, within its rounds.
TurnEnds == <>(pc = "ended")
=============================================================================
