----------------------------- MODULE Transcript -----------------------------
(***************************************************************************)
(* One conversation as the browser shows it: live, folding the events of    *)
(* each turn into its bubble (applyEvent), and after a reload, from the      *)
(* stored rows (rebuildEventsFromHistory) with the rest of the turn resumed  *)
(* behind them.  The server is the part of AgentRun the browser sees: a      *)
(* round's text comes in deltas cut anywhere, then its row is stored, its    *)
(* calls are announced and their results stored; an event of a result may    *)
(* not arrive (EventReplay: it has no SeqID).                                *)
(*                                                                         *)
(* Texts are sequences of characters; the tags are the shortest ones that    *)
(* share a beginning as <think> and </think> do.                             *)
(***************************************************************************)
EXTENDS Naturals, Sequences, FiniteSets, SequencesExt, FiniteSetsExt

CONSTANTS
  Letters,     \* characters of plain text; "<" may be one of them
  Tools,       \* tools an answer may call: "bash", "ask", "other"
  MaxTurns, MaxTokens, MaxCalls, MaxReloads   \* bounds

ASSUME TranscriptAssumption ==
  /\ Letters \subseteq {"<", "a"} /\ Tools \subseteq {"bash", "ask", "other"}
  /\ {MaxTurns, MaxTokens, MaxCalls, MaxReloads} \subseteq Nat

ThinkStart == <<"<", ">">>
ThinkEnd   == <<"<", "/", ">">>
Chars      == {"<", "/", ">"} \cup Letters

VARIABLES
  pc,        \* the agent: waiting for a message, in a round's text, in its calls
  draft,     \* characters of the round
  unsent,    \* those of them no delta has carried yet
  inside,    \* the round's text is inside a think tag
  rows,      \* stored rows
  calls,     \* calls of the round, the numbers announced and with a stored result
  announced, finished,
  msgs,      \* ConversationState.messages
  split,     \* ThinkSplitState of the last bubble
  stream,    \* its stream: none, sent (streamToAssistant) or resumed (subscribeReplay)
  terminal,  \* bashStreamStore.entries of the conversation
  turns, tokens, ids, reloads,
  \* History: what the model meant as text and as reasoning; calls whose row was
  \* loaded before their result; since the last load the browser stopped a stream or
  \* dropped characters it kept pending; a round ended inside a tag.
  meant, early, stopped, cut, unclosed

server  == <<pc, draft, unsent, inside, rows, calls, announced, finished>>
shown   == <<msgs, split, stream, terminal>>
spent   == <<turns, tokens, ids, reloads>>
noted   == <<meant, early, stopped, cut, unclosed>>
vars == <<server, shown, spent, noted>>

NoSplit    == [pending |-> <<>>, inThink |-> FALSE]
NewMessage(role) == [role |-> role, events |-> <<>>]
TextEv(s)   == [kind |-> "text", text |-> s]
ReasonEv(s) == [kind |-> "reason", text |-> s]
ToolEv(c, status) == [kind |-> "tool", call |-> c, status |-> status, stub |-> FALSE]
-----------------------------------------------------------------------------
(* Tags in texts. *)

At(s, tag, i) == i + Len(tag) <= Len(s) + 1 /\ SubSeq(s, i, i + Len(tag) - 1) = tag

\* indexOf, 0 when there is none.
First(s, tag) == LET found == {i \in DOMAIN s : At(s, tag, i)}
                 IN  IF found = {} THEN 0 ELSE Min(found)

\* stripThinkTag: literal tags are removed.
Strip(s) ==
  FlattenSeq([i \in DOMAIN s |->
    IF \E k \in 1 .. i : \E tag \in {ThinkStart, ThinkEnd} : At(s, tag, k) /\ i < k + Len(tag)
    THEN <<>> ELSE <<s[i]>>])

\* Defect: only a lone '<' is kept for the next delta.
PartialOfOne(s, tag) == IF s # <<>> /\ Last(s) = tag[1] THEN 1 ELSE 0

\* The length of the longest end of s that begins the tag.
Partial(s, tag) ==
  Max({0} \cup {k \in 1 .. Len(tag) - 1 :
                k <= Len(s) /\ SubSeq(s, Len(s) - k + 1, Len(s)) = SubSeq(tag, 1, k)})

Tag(inThink) == IF inThink THEN ThinkEnd ELSE ThinkStart

\* The loop of splitTextDelta: the text and the reasoning of s, begun inside a tag or
\* not, and the state behind it.
SplitRest[s \in Seq(Chars)] ==
  [inThink \in BOOLEAN |->
     LET tag  == Tag(inThink)
         i    == First(s, tag)
         n    == IF i = 0 THEN Len(s) - Partial(s, tag) ELSE i - 1
         out  == SubSeq(s, 1, n)
         more == IF i = 0
                 THEN [text |-> <<>>, reason |-> <<>>,
                       next |-> [pending |-> SubSeq(s, n + 1, Len(s)), inThink |-> inThink]]
                 ELSE SplitRest[SubSeq(s, i + Len(tag), Len(s))][~ inThink]
     IN  [text   |-> IF inThink THEN more.text ELSE out \o more.text,
          reason |-> IF inThink THEN out \o more.reason ELSE more.reason,
          next   |-> more.next]]

SplitTextDelta(state, delta) ==
  LET out == SplitRest[state.pending \o delta][state.inThink]
  IN  [out EXCEPT !.text = Strip(@), !.reason = Strip(@)]

\* splitThinkContent: the segments of a stored text that are not empty.
Segment(e) == IF e.text = <<>> THEN <<>> ELSE <<e>>
SplitContent[s \in Seq(Chars)] ==
  LET i    == First(s, ThinkStart)
      rest == SubSeq(s, i + Len(ThinkStart), Len(s))
      j    == First(rest, ThinkEnd)
      past == SubSeq(rest, j + Len(ThinkEnd), Len(rest))
  IN  IF i = 0 THEN Segment(TextEv(s))
      ELSE Segment(TextEv(Strip(SubSeq(s, 1, i - 1)))) \o
           IF j = 0 THEN Segment(ReasonEv(Strip(rest)))
           ELSE Segment(ReasonEv(Strip(SubSeq(rest, 1, j - 1)))) \o SplitContent[past]
-----------------------------------------------------------------------------
(* A bubble's events. *)

\* appendTextEvent and appendReasonEvent.
Extend(events, e) ==
  IF e.text = <<>> THEN events
  ELSE IF events # <<>> /\ Last(events).kind = e.kind
       THEN Append(Front(events), [e EXCEPT !.text = Last(events).text \o e.text])
       ELSE Append(events, e)

\* The text of a delta goes before its reasoning, in whatever order they came.
ApplyText(events, out) == Extend(Extend(events, TextEv(out.text)), ReasonEv(out.reason))

\* Bash does not join the events.
ApplyCall(events, c) == IF c.tool = "bash" THEN events ELSE Append(events, ToolEv(c, "pending"))

\* Defect: a result is always shown on its own.
ApplyResultApart(events, c) == Append(events, [ToolEv(c, "done") EXCEPT !.stub = TRUE])

\* A result without its call is shown as a stub without arguments, a bash result always.
ApplyResult(events, c) ==
  IF \E i \in DOMAIN events : events[i].kind = "tool" /\ events[i].call.id = c.id
  THEN [i \in DOMAIN events |-> IF events[i].kind = "tool" /\ events[i].call.id = c.id
                                THEN [events[i] EXCEPT !.status = "done"] ELSE events[i]]
  ELSE Append(events, [ToolEv(c, "done") EXCEPT !.stub = TRUE])

\* Defect: only the last event is looked at.
ReconciledLast(events) ==
  IF events # <<>> /\ Last(events).kind = "tool" /\ Last(events).status = "pending"
  THEN Append(Front(events), ToolEv(Last(events).call, "error")) ELSE events

\* reconcilePendingTools, and applyEvent of done.
Reconciled(events) ==
  [i \in DOMAIN events |-> IF events[i].kind = "tool" /\ events[i].status = "pending"
                           THEN ToolEv(events[i].call, "error") ELSE events[i]]

\* flushThinkSplit
Flushed(events, state) ==
  Extend(events, IF state.inThink THEN ReasonEv(state.pending) ELSE TextEv(state.pending))

Bubble        == Last(msgs).events
Patch(events) == msgs' = Append(Front(msgs), [Last(msgs) EXCEPT !.events = events])
-----------------------------------------------------------------------------
(* What a reload makes of the stored rows. *)

ResultStored(c) == \E i \in DOMAIN rows : rows[i].role = "tool" /\ rows[i].call = c

\* The events of an assistant's row: its segments, then its calls but bash.
EventsOf(row) ==
  SplitContent[row.text] \o
  FlattenSeq([i \in DOMAIN row.calls |->
    LET c == row.calls[i]
    IN  IF c.tool = "bash" THEN <<>>
        ELSE <<ToolEv(c, IF ResultStored(c) THEN "done" ELSE "pending")>>])

\* coalesceAssistantRounds: neighbouring rows of the assistant are one bubble.
Joined(ms, events) ==
  IF ms # <<>> /\ Last(ms).role = "assistant"
  THEN Append(Front(ms), [role |-> "assistant", events |-> Last(ms).events \o events])
  ELSE Append(ms, [role |-> "assistant", events |-> events])

Rebuilt ==
  LET built[n \in 0 .. Len(rows)] ==
        IF n = 0 THEN <<>>
        ELSE IF rows[n].role = "tool" THEN built[n - 1]
        ELSE IF rows[n].role = "user" THEN Append(built[n - 1], NewMessage("user"))
        ELSE Joined(built[n - 1], EventsOf(rows[n]))
  IN  built[Len(rows)]

\* The commands of a row; the terminal's entries, all with a result.
Commands(row) ==
  IF row.role # "assistant" THEN <<>>
  ELSE FlattenSeq([i \in DOMAIN row.calls |->
         IF row.calls[i].tool = "bash" THEN <<row.calls[i].id>> ELSE <<>>])
RebuiltTerminal == FlattenSeq([n \in DOMAIN rows |-> Commands(rows[n])])
-----------------------------------------------------------------------------
Init ==
  /\ pc = "idle" /\ draft = <<>> /\ unsent = <<>> /\ inside = FALSE /\ rows = <<>>
  /\ calls = <<>> /\ announced = 0 /\ finished = 0
  /\ msgs = <<>> /\ split = NoSplit /\ stream = "none" /\ terminal = <<>>
  /\ turns = 0 /\ tokens = 0 /\ ids = 0 /\ reloads = 0
  /\ meant = [text |-> <<>>, reason |-> <<>>] /\ early = {} /\ stopped = FALSE
  /\ cut = FALSE /\ unclosed = FALSE

\* Defect: no bubble is added for the answer.
SendAlone ==
  /\ pc = "idle" /\ stream = "none" /\ turns < MaxTurns /\ turns' = turns + 1
  /\ rows' = Append(rows, [role |-> "user"])
  /\ msgs' = Append(msgs, NewMessage("user"))
  /\ stream' = "sent" /\ split' = NoSplit /\ pc' = "text"
  /\ UNCHANGED <<draft, unsent, inside, calls, announced, finished, terminal, tokens, ids,
                 reloads, noted>>

\* sendMessage, by the input or as the answer to a question: the user's message and
\* an empty bubble.
Send ==
  /\ pc = "idle" /\ stream = "none" /\ turns < MaxTurns /\ turns' = turns + 1
  /\ rows' = Append(rows, [role |-> "user"])
  /\ msgs' = msgs \o <<NewMessage("user"), NewMessage("assistant")>>
  /\ stream' = "sent" /\ split' = NoSplit /\ pc' = "text"
  /\ UNCHANGED <<draft, unsent, inside, calls, announced, finished, terminal, tokens, ids,
                 reloads, noted>>
-----------------------------------------------------------------------------
(* The turn. *)

\* The model produces a letter, or opens or closes its reasoning.
Produce ==
  /\ pc = "text" /\ tokens < MaxTokens /\ tokens' = tokens + 1
  /\ \/ \E a \in Letters :
          /\ draft' = Append(draft, a) /\ unsent' = Append(unsent, a) /\ UNCHANGED inside
          /\ meant' = IF inside THEN [meant EXCEPT !.reason = Append(@, a)]
                      ELSE [meant EXCEPT !.text = Append(@, a)]
     \/ LET tag == IF inside THEN ThinkEnd ELSE ThinkStart
        IN  /\ draft' = draft \o tag /\ unsent' = unsent \o tag /\ inside' = ~ inside
            /\ UNCHANGED meant
  /\ UNCHANGED <<pc, rows, calls, announced, finished, shown, turns, ids, reloads, early,
                 stopped, cut, unclosed>>

\* A delta, which nobody may be there to receive.
Delta ==
  /\ pc = "text" /\ unsent # <<>>
  /\ \E n \in 1 .. Len(unsent) :
       LET out == SplitTextDelta(split, SubSeq(unsent, 1, n))
       IN  /\ unsent' = SubSeq(unsent, n + 1, Len(unsent))
           /\ IF stream = "none" THEN UNCHANGED <<msgs, split>>
              ELSE Patch(ApplyText(Bubble, out)) /\ split' = out.next
  /\ UNCHANGED <<pc, draft, inside, rows, calls, announced, finished, stream, terminal, spent,
                 noted>>

\* The round's row, with the calls it makes; a round that makes none is the last.
StoreRow ==
  /\ pc = "text" /\ unsent = <<>>
  /\ \E n \in 0 .. MaxCalls - ids : \E ts \in [1 .. n -> Tools] :
       /\ calls' = [i \in 1 .. n |-> [id |-> ids + i, tool |-> ts[i]]]
       /\ ids' = ids + n
  /\ rows' = Append(rows, [role |-> "assistant", text |-> draft, calls |-> calls'])
  /\ unclosed' = (unclosed \/ inside)
  /\ draft' = <<>> /\ inside' = FALSE /\ announced' = 0 /\ finished' = 0
  /\ pc' = IF calls' = <<>> THEN "ended" ELSE "calls"
  /\ UNCHANGED <<unsent, shown, turns, tokens, reloads, meant, early, stopped, cut>>

\* The calls are loaded with their row by a browser that resumes after it.
Resumed == \E i \in DOMAIN calls : calls[i].id \in early

\* tool_call: into the bubble, or into the terminal unless it is there already.
Announce ==
  /\ pc = "calls" /\ announced < Len(calls) /\ announced' = announced + 1
  /\ LET c == calls[announced']
     IN  IF stream = "none" \/ Resumed THEN UNCHANGED <<msgs, terminal>>
         ELSE /\ Patch(ApplyCall(Bubble, c))
              /\ terminal' = IF c.tool = "bash" /\ ~ Contains(terminal, c.id)
                             THEN Append(terminal, c.id) ELSE terminal
  /\ UNCHANGED <<pc, draft, unsent, inside, rows, calls, finished, split, stream, spent,
                 noted>>

\* The result's row is stored and its event comes, or does not.
Finish ==
  /\ pc = "calls" /\ finished < announced /\ finished' = finished + 1
  /\ LET c == calls[finished']
     IN  /\ rows' = Append(rows, [role |-> "tool", call |-> c])
         /\ \/ UNCHANGED msgs
            \/ stream # "none" /\ Patch(ApplyResult(Bubble, c))
  /\ UNCHANGED <<pc, draft, unsent, inside, calls, announced, split, stream, terminal, spent,
                 noted>>

\* Another round, unless one of the calls was a question.
NextRound ==
  /\ pc = "calls" /\ finished = Len(calls)
  /\ pc' = IF \E i \in DOMAIN calls : calls[i].tool = "ask" THEN "ended" ELSE "text"
  /\ calls' = <<>> /\ announced' = 0 /\ finished' = 0
  /\ UNCHANGED <<draft, unsent, inside, rows, shown, spent, noted>>
-----------------------------------------------------------------------------
(* The browser's stream ends. *)

Ends(flush) ==
  /\ stream' = "none" /\ split' = NoSplit
  /\ Patch(Reconciled(IF flush THEN Flushed(Bubble, split) ELSE Bubble))
  /\ cut' = (cut \/ (~ flush /\ split.pending # <<>>))

\* done, or the server closes the connection, behind which a resumed stream is not
\* flushed.
StreamEnds ==
  /\ pc = "ended" /\ stream # "none"
  /\ \E flush \in {TRUE, stream = "sent"} : Ends(flush)
  /\ UNCHANGED <<server, terminal, spent, meant, early, stopped, unclosed>>

TurnEnds ==
  /\ pc = "ended" /\ stream = "none" /\ pc' = "idle"
  /\ UNCHANGED <<draft, unsent, inside, rows, calls, announced, finished, shown, spent,
                 noted>>

\* stop: the stream is aborted, flushed unless a record was waiting; the turn goes on.
Stop ==
  /\ stream # "none" /\ pc # "ended"
  /\ \E flush \in BOOLEAN : Ends(flush)
  /\ stopped' = TRUE
  /\ UNCHANGED <<server, terminal, spent, meant, early, unclosed>>

\* The page is loaded anew: the rows, and with a turn under way a bubble for the rest
\* of it, which is sent again from behind the last row.
Reload ==
  /\ msgs # <<>> /\ reloads < MaxReloads /\ reloads' = reloads + 1
  /\ LET flying == pc # "idle"
     IN  /\ msgs' = Rebuilt \o IF flying THEN <<NewMessage("assistant")>> ELSE <<>>
         /\ stream' = IF flying THEN "resumed" ELSE "none"
  /\ terminal' = RebuiltTerminal
  /\ split' = NoSplit /\ unsent' = draft
  /\ early' = early \cup {calls[i].id : i \in finished + 1 .. Len(calls)}
  /\ stopped' = FALSE /\ cut' = FALSE
  /\ UNCHANGED <<pc, draft, inside, rows, calls, announced, finished, turns, tokens, ids,
                 meant, unclosed>>
-----------------------------------------------------------------------------
Next ==
  \/ Send \/ Produce \/ Delta \/ StoreRow \/ Announce \/ Finish \/ NextRound
  \/ StreamEnds \/ TurnEnds \/ Stop \/ Reload

Spec == Init /\ [][Next]_vars
-----------------------------------------------------------------------------
(* What is shown. *)

Said(ms, k) ==
  FlattenSeq([i \in DOMAIN ms |-> FlattenSeq([n \in DOMAIN ms[i].events |->
    IF ms[i].events[n].kind = k THEN ms[i].events[n].text ELSE <<>>])])
CallIds(ms) ==
  FlattenSeq([i \in DOMAIN ms |-> FlattenSeq([n \in DOMAIN ms[i].events |->
    LET e == ms[i].events[n]
    IN  IF e.kind = "tool" /\ e.call.tool # "bash" THEN <<e.call.id>> ELSE <<>>])])

\* derivePendingQuestion: the last question asked, unless the user wrote after it or
\* it is a stub without the question.
PendingQuestion(ms) ==
  LET asks(i) == {n \in DOMAIN ms[i].events :
                    /\ ms[i].events[n].kind = "tool" /\ ms[i].events[n].call.tool = "ask"}
      asking  == {i \in DOMAIN ms : asks(i) # {}}
      at      == Max(asking)
      last    == ms[at].events[Max(asks(at))]
  IN  IF asking = {} \/ (\E i \in at + 1 .. Len(ms) : ms[i].role = "user") \/ last.stub THEN 0
      ELSE last.call.id

\* Every variable keeps its type, and a stream has a bubble to write to.
TypeOK ==
  /\ pc \in {"idle", "text", "calls", "ended"} /\ stream \in {"none", "sent", "resumed"}
  /\ \A i \in DOMAIN msgs : \A n \in DOMAIN msgs[i].events :
       msgs[i].events[n].kind \in {"text", "reason", "tool"}
  /\ stream # "none" => msgs # <<>> /\ Last(msgs).role = "assistant"
  /\ finished <= announced /\ announced <= Len(calls)

\* However the deltas are cut, the bubbles show as text and as reasoning what the
\* model meant as such, unless the browser stopped, characters kept back were dropped,
\* or a round ended inside a tag (splitTextDelta, flushThinkSplit, splitThinkContent).
TextIsWhole ==
  unsent = <<>> /\ ~ (stopped \/ cut \/ unclosed) =>
    LET kept(b) == IF split.inThink = b THEN split.pending ELSE <<>>
    IN  /\ Said(msgs, "text") \o kept(FALSE) = meant.text
        /\ Said(msgs, "reason") \o kept(TRUE) = meant.reason

\* Once no stream is under way no call is shown as running, but one whose row was
\* loaded before its result (reconcilePendingTools, toolViewFromHistory).
NothingSpins ==
  stream = "none" =>
    \A i \in DOMAIN msgs : \A n \in DOMAIN msgs[i].events :
      LET e == msgs[i].events[n]
      IN  e.kind = "tool" /\ e.status = "pending" => e.call.id \in early

\* When the turn is over, the bubbles show the calls, the terminal the commands, and
\* the prompt the question that a reload would show, unless a reload came between a
\* call and its result (applyEvent, rebuildEventsFromHistory, derivePendingQuestion).
ReloadShowsTheSame ==
  stream = "none" /\ pc # "calls" /\ ~ stopped =>
    /\ terminal = RebuiltTerminal
    /\ early = {} => /\ CallIds(msgs) = CallIds(Rebuilt)
                     /\ PendingQuestion(msgs) = PendingQuestion(Rebuilt)
=============================================================================
