----------------------------- MODULE EventReplay -----------------------------
(***************************************************************************)
(* Two browsers on the turn of AgentRun: the one whose request started it  *)
(* and streams its events live, and one that opens the conversation later, *)
(* loads the stored messages and resumes the stream behind them (Events,   *)
(* streamSSE, Replay, GetMessages; EventSource and useConversations).      *)
(* The stream is not trimmed: a turn stays below StreamMaxLen entries.     *)
(***************************************************************************)
EXTENDS AgentRun

VARIABLES
  live,       \* the first browser's EventSource: "open" or "closed"
  livePos,    \* its read position in the stream
  liveSeen,   \* stream entries it was sent
  sent,       \* Chat calls made for its one message
  resume,     \* the second browser: "away", "listed", "open", "idle", "closed"
  resPos, resSeen,
  listed      \* rows of the turn GetMessages returned to it

clients == <<live, livePos, liveSeen, sent, resume, resPos, resSeen, listed>>
allVars == <<vars, clients>>

UserRow == Row("user", 1, {})

\* Defect: only text passes.
PassesText(n, lastSeq) == events[n].type = "text" /\ events[n].seq > lastSeq

\* Replay's filter for an event of the cursor's turn.
Passes(n, lastSeq) == events[n].seq > lastSeq

ListedRows  == {listed[n] : n \in 1 .. Len(listed)}
\* Defect: the cursor is the counter, not the last row.
ListedSeqOfCounter == turnSeq

\* GetMessages' lastSeq: the last row in (turn_id, seq_id) order.
ListedSeq   == listed[Len(listed)].seq

ReplayInit ==
  /\ Init
  /\ live = "open" /\ livePos = 0 /\ liveSeen = {} /\ sent = 1
  /\ resume = "away" /\ resPos = 0 /\ resSeen = {} /\ listed = <<>>

\* The cursor of a new turn is (turnID, 0).
LiveRead ==
  /\ live = "open" /\ livePos < Len(events)
  /\ livePos' = livePos + 1
  /\ liveSeen' = IF Passes(livePos', 0) THEN liveSeen \cup {livePos'} ELSE liveSeen
  /\ live' = IF livePos' \in liveSeen' /\ events[livePos'].type = "done"
             THEN "closed" ELSE "open"
  /\ UNCHANGED <<vars, sent, resume, resPos, resSeen, listed>>

\* Defect: a refused reconnection is tried again and again.
LiveReconnectForever ==
  /\ live = "open"
  /\ sent' = sent + 1
  /\ UNCHANGED <<vars, live, livePos, liveSeen, resume, resPos, resSeen, listed>>

\* The connection drops and EventSource requests the same URL again, with
\* content: Events calls Chat, which is refused while the turn holds the lock.
LiveReconnect ==
  /\ live = "open"
  /\ live' = "closed"
  /\ sent' = IF pc = "ended" THEN sent + 1 ELSE sent
  /\ UNCHANGED <<vars, livePos, liveSeen, resume, resPos, resSeen, listed>>

List ==
  /\ resume = "away"
  /\ listed' = <<UserRow>> \o log
  /\ resume' = "listed"
  /\ UNCHANGED <<vars, live, livePos, liveSeen, sent, resPos, resSeen>>

\* IsTurnActive, after the list: the lease is held until the deferred release.
CheckInFlight ==
  /\ resume = "listed"
  /\ resume' = IF pc = "ended" THEN "idle" ELSE "open"
  /\ UNCHANGED <<vars, live, livePos, liveSeen, sent, resPos, resSeen, listed>>

\* The subscription reads the stream from its start, with the list's cursor.
ResumeRead ==
  /\ resume = "open" /\ resPos < Len(events)
  /\ resPos' = resPos + 1
  /\ resSeen' = IF Passes(resPos', ListedSeq) THEN resSeen \cup {resPos'} ELSE resSeen
  /\ resume' = IF resPos' \in resSeen' /\ events[resPos'].type = "done"
               THEN "closed" ELSE "open"
  /\ UNCHANGED <<vars, live, livePos, liveSeen, sent, listed>>

ReplayNext ==
  \/ Next /\ UNCHANGED clients
  \/ LiveRead \/ LiveReconnect
  \/ List \/ CheckInFlight \/ ResumeRead

ReplaySpec == ReplayInit /\ [][ReplayNext]_allVars

\* The turn's goroutine and both read loops are scheduled; connections need not
\* drop and the second browser need not come.
ReplayFairSpec ==
  /\ ReplaySpec
  /\ WF_allVars(Step /\ UNCHANGED clients)
  /\ WF_allVars(LiveRead) /\ WF_allVars(CheckInFlight) /\ WF_allVars(ResumeRead)
-----------------------------------------------------------------------------
(* Properties. *)

\* The clients' states have their types, and positions lie in the stream.
ReplayTypeOK ==
  /\ live \in {"open", "closed"} /\ sent \in 1 .. 2
  /\ resume \in {"away", "listed", "open", "idle", "closed"}
  /\ {livePos, resPos} \subseteq 0 .. Len(events)
  /\ liveSeen \cup resSeen \subseteq 1 .. Len(events)

\* What a resumed client is streamed it has not already loaded: no text or call
\* of a listed assistant row comes again.
ResumeRepeatsNothing ==
  \A n \in resSeen :
    events[n].seq \notin {r.seq : r \in {x \in ListedRows : x.role = "assistant"}}

\* What a resumed client is not streamed it has loaded: every text and call it
\* skipped belongs to a listed row, unless the turn was cancelled or storage failed.
ResumeLosesNothing ==
  resume \in {"open", "closed"} /\ ~cancelled /\ faults = 0 =>
    \A n \in 1 .. resPos :
      events[n].type \in {"text", "tool_call"} /\ n \notin resSeen =>
        \E r \in ListedRows : r.role = "assistant" /\ r.seq = events[n].seq

\* A live stream of a turn that ends with an answer ends for its reader.
AnswerClosesLive ==
  (\E n \in 1 .. Len(events) : events[n].type = "done" /\ events[n].seq > 0) ~> live = "closed"

\* A resumed stream ends as well, unless the client had already loaded the row
\* that the done event is about and skips both.
AnswerClosesResumed ==
  (resume = "open" /\ \E n \in 1 .. Len(events) :
                        events[n].type = "done" /\ events[n].seq > ListedSeq)
    ~> resume = "closed"

\* List and stream together give a resuming client each text and call once.
ResumeIsExact == ResumeRepeatsNothing /\ ResumeLosesNothing

\* A turn that ends with an answer ends the streams that wait for it.
AnswerClosesStreams == AnswerClosesLive /\ AnswerClosesResumed
=============================================================================
