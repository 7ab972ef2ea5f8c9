# A verification of VisualKB

VisualKB is a knowledge base with a conversational agent: a Go server (Gin, PostgreSQL
through GORM, Redis, an asynq queue, MinIO, sandboxes in Kubernetes) and a React client. This
directory holds TLA+ modules translated from the server and client source, the TLC
configurations that check them, and TLAPS proofs. `PROJECT.json` lists components, runs, mutants,
the source lines behind every definition, findings and hazards; all paths below are under `src/`.

To check a run: `tlc -config X.cfg MCModule.tla`. To check the proofs of a component: `tlapm
XProofs.tla`.

## 1. The system's parts

| component | state it keeps | operations | interacts with | hard behaviour |
|---|---|---|---|---|
| Session lock and cancel bus (`internal/infra/redis/lock.go`, `cancel_bus.go`) | one Redis key per conversation holding an owner string, with a TTL; one pub/sub channel per process | SETNX, owner-checked refresh and delete, GET, EXISTS; PUBLISH, SUBSCRIBE | turn coordination | expiry under a running turn, lost replies, equal owner strings, lost and late cancels |
| Turn coordination (`conversation_service.go`: `Chat`, `acquireTurn`, `tryAcquireAfterCancel`, `waitLockReleased`, `handleRemoteCancel`, `releaseHandle`; `cmd/server/bootstrap.go`) | `localTurns` per process, a `turnHandle` per turn, the listener goroutine | start a turn, supersede a turn (edit), cancel, renew, release, crash | lock, cancel bus, message log, agent loop | every request races every other request, the listener and the clock |
| Agent loop (`agent.go`) | round and turn counters, the prompt (`msgs`), the current batch of calls | LLM rounds, streaming, serial and parallel tool dispatch, pause, cleanup | LLM client, tools, event stream, message log | cancellation and storage errors between any two steps; result order under concurrency |
| Event stream and replay (`event_stream_repo.go`, `Replay`, `conversation_handler.go`, `ChatRepository.ts`, `useConversations.ts`) | a Redis stream per conversation, a cursor per reader | XADD, XREAD, filter by (turn, seq), list messages, is a turn in flight | agent loop, message log, browser | list and stream are read at different moments; reconnections |
| Message log (`msg_seq_repo.go`, `msg_repo.go`, `msg_cache_repo.go`) | table `messages` with a unique (turn, seq) index per conversation, three Redis counters, a Redis list of recent messages | cold-start increment, insert, push, list, load history | `Chat`, agent loop | counters and cache are lost independently of the table |
| Documents and versions (`document_service.go`) | documents, versions, current version, chunk status, objects in MinIO | create, rewrite, apply edits, archive | tree, ingestion, storage | two writers; partial failure between database and object store |
| Ingestion and queue (`ingest/ingestor.go`, `queue/`) | chunks, chunk status, asynq tasks | ingest on write, periodic sweep, replace chunks | documents, embedding, search indexes | an ingestion finishes for text that is no longer current |
| Knowledge tree (`tree_service.go`, `knowledge-panel.tsx`, `path-tree.tsx`) | tree nodes with parent and name; the panel's two lists and its dialog | create, rename, move, delete folders; upload, move, archive documents; reload | documents | check-then-act on parent, depth and name; recursive deletion; a panel that works on old lists |
| Projects and sandboxes (`project_service.go`, `sandbox_service.go`) | project and sandbox rows, Kubernetes resources | create, ensure running, archive | tools (bash), controller | start against archive; waiting for readiness |
| Users, authentication, memory portrait (`user_service.go`, `auth_service.go`, `AuthClient.ts`, `settings-panel.tsx`) | user rows, the token's cookie, the browser's session, the settings form | register, login, logout, refresh, save either half of the portrait | tools (`write_memory`) | a refresh shared by requests; read-modify-write of the portrait; two halves in one answer |
| Conversation CRUD (`conversation_service.go`, `useConversations.ts`) | conversation rows, the browser's list | create, list, get, archive | turn coordination (ownership check) | answers that arrive after the list changed |
| Retrieval (dense, BM25, RRF, rerank) | none | queries | documents | rank fusion is a pure algorithm |
| Chunking, extraction, embedding | none | pure text functions, remote calls | ingestion | none that is concurrent |
| LLM client, tools, skills | a registry | stream an answer, invoke a tool | agent loop | order of tool calls; tools that pause a turn |
| HTTP layer, configuration, observability, deployment | none | binding, errors, metrics | everything | none |
| Web client: conversations (`useConversations.ts`, `chat-interface.tsx`) | conversations, messages with their events, one held stream, `pending`, the terminal | load, send, edit, stop, resume, draft, archive, fold events, rebuild from rows | HTTP layer, event stream | answers and events that meet state which has changed since they were asked for |
| Web client: notes (`notes-panel.tsx`, `note-editor.tsx`, `chat-layout.tsx`, `document-preview-view.tsx`) | address, view, one-shot signals, list, editor, preview, attached documents | open, write, save, archive, create, quote in the chat, preview | documents | effects, an editor that stays mounted, answers to components that are gone |

What makes each of them correct:

- *lock and turns*: at most one undisturbed turn per conversation; no path leaves the conversation
  locked; a cancel reaches the right turn; every request ends.
- *agent loop*: the event stream and the message table tell the same story; tool calls and results
  pair up; one terminal event; the loop ends.
- *replay*: list and stream together give each text and call once; a reader learns of the end.
- *message log*: no message is refused because a counter was lost; numbers follow turns; the prompt is
  the stored history.
- *documents, ingestion*: the current version exists in storage; `chunked` means chunks of the current
  version; no edit is lost; a dirty document is eventually ingested.
- *tree*: the parents form a forest of bounded depth with distinct names; deleting a folder deletes what
  its dialog announced; the panel ends up showing the tree.
- *projects, sandboxes*: an archived project has no resource; a returned sandbox is ready.
- *users*: a session lasts from login to logout; no portrait update is lost, typed or saved.
- *conversations in the browser*: a message is shown once and where it belongs, live or reloaded; the stop
  button reaches the stream that closes the input; the list is the server's.
- *notes in the browser*: a note keeps its own text and every edit the user was told is saved; the address
  decides what is shown.

## 2. What is modelled

### Turn (`Turn.tla`, `TurnLease.tla`, `TurnProofs.tla`, `MCTurn.tla`)

One conversation, any number of requests (`Turns`) on any number of processes (`Instances`).

- `holder`, `ttl`: the lease key. The model keeps the turn whose SETNX created it and compares
  `owner[holder]`, since the scripts compare *strings*. `buildOwner` is
  `<INSTANCE_ID>:<pid>:<runtime.NumGoroutine()>:0`; a pid is the same in every container start, so a
  string is the pair (instance, goroutine count), and two requests may build equal ones.
- `proc`, `listening`, `inbox`, `listener`, `localTurns`: a process is down, booting or serving. `inbox`
  is the set of delivered cancels: delivery may be lost, late and in any order.
- `pc` follows one request through `acquireTurn` (`acquire`, `readOwner`, `publish`, `wait`,
  `reacquire`), `Chat` (`store`, `setup`, `running`) and `releaseHandle` (`relMap`, `relLock`).
- Each Redis command is one action. A command whose reply is lost is a disjunct of its own
  (`AcquireFails` can grant the lease to nobody); a DEL that never arrives is the second disjunct of
  `ReleaseLock`.
- `lost` and `dropped` are history variables: how a turn lost its lease, and whose DEL went missing.
- `CleanupOnReturn`: `Bootstrap` defers the cancellation of the listener's context and thereby ends the
  subscription before the server serves (`TRUE`, as written); the comment beside it wants it to live
  as long as the process (`FALSE`). The proofs hold for both. The passing runs use `FALSE`, which has
  all lease behaviours of `TRUE` (a cancel without a subscriber is a cancel that is not delivered) and
  more.

`TurnLease` is what all that should amount to: a lease granted only when there is none, turns that work
from their grant on, and turns displaced when their lease goes. `Turn!Lease` is the refinement mapping
`lease <- holder, working <- turns at work, displaced <- turns that lost it`.

Left out: the agent's work (AgentRun), numbering (MessageLog), and the HTTP response.

### AgentRun (`AgentRun.tla`, `MCAgentRun.tla`, `EventReplayProofs.tla`)

One turn: `Agent.Run` with the sinks of `Chat`. `events` and `log` are the turn's part of the stream and
of the table, `issued` and `fulfilled` the calls of `msgs` and the ones with a tool message. `turnSeq`
is the Redis counter, `roundSeq` the number a round's events share. A tool call is its round and its
index in the LLM's answer; `Batches` are the tool lists an answer may hold. `StreamCalls` permutes a
batch, because `Client.Stream` ranges over a Go map. `Invoke` completes the calls of a group in any
order. `Cancel` may happen before any step, and `Fault` makes a Redis or database command fail, with
or without effect. `Cleanup` and `Deferred` are the deferred function of `Run` and `AbortSysMsg`.

### EventReplay (`EventReplay.tla`, `MCEventReplay.tla`, `EventReplayProofs.tla`)

AgentRun composed with two browsers: the one that submitted the message, reading with cursor
(turn, 0), and one that opens the conversation at any moment, lists the stored messages, then asks
whether a turn is in flight, then reads the stream from its start with the list's last SeqID as
cursor. `Passes` is the filter of `Replay`. Left out: trimming at `StreamMaxLen` (a turn stays below
it), heartbeats, tab switches, a reconnection before the turn's end of a request that is itself an edit.

### MessageLog (`MessageLog.tla`, `MCMessageLog.tla`, `MessageLogProofs.tla`)

The numbering and storage of a conversation across turns. Each request allocates its turn id, loads the
history, allocates and stores its user message, and then the agent's messages, every allocation being
the three-step `coldStartIncr` (EXISTS; if absent, a MAX query; then the script that sets a missing
counter and increments). Redis may lose any counter at any moment, the cache may expire or fail,
requests may die anywhere, and two requests may overlap. No row is ever marked modified: `Chat` marks
only with a previous turn id, and that is always 0 (section 3, *Seen while modelling*).

### DocumentIngest (`DocumentIngest.tla`, `MCDocumentIngest.tla`, `DocumentIngestProofs.tla`)

One document with its row, version rows, objects, chunks and tree pointer. `writer` holds the locals of
clients between the commands of `createInternal`, `ApplyEdits` and `writeNewVersion`; `ingest` those of
the goroutines in `Ingestor.Ingest` and `replaceChunks`, which a creation (`IngestOnWrite`), a user
(`Request`) or the periodic task (`Sweep`) starts. Each command is an action and may fail, undoing
nothing; the expiry of an ingestion's context and a crash are failures that set no status. A text is the
set of writers whose edits it holds, which is what lost updates and stale chunks are told by. `want` is
the text that calls one after the other would give; `edited`, `repeated`, `overtaken`, `early` and
`hasty` record the races the properties except. Left out: titles, several documents, the contents
and embeddings of chunks, moving the node (KnowledgeTree), the queue's own retries.

### KnowledgeTree (`KnowledgeTree.tla`, `MCKnowledgeTree.tla`, `KnowledgeTreeProofs.tla`)

One user's tree and the panel that shows it. The server's side is a parent and a name per row, the set of
live documents, and `taken`, the ids the two tables' sequences have given out, none of which comes again;
each statement of `CreateFolder`, `RenameNode`, `MoveNode`, `DeleteFolder`,
`createInternal`, `Move` and `Archive` is an action, the checks before the update included, and their
locals are in `call[c]`. `Depth`, `SubtreeMaxDepth` and `IsDescendant` are what the recursive queries of
`tree_repo.go` compute, a step up or down applied again and again (`Times`, `Up`, `Down`); over a cycle
they, and `collectSubtree`, do not end, so a call that meets one stays where it is. The panel's side is
`nodes` and `items`, the lists it last received, the open `dialog` with the documents it counted, and
`answers`, the lists read by the server and not yet received, which arrive in any order. `RowDepth`,
`RowSubtreeDepth`, `DropFits` and `CountSubtree` are the panel's own computations on its list. `todo`
holds the reloads an operation waits for, as each handler orders them. A document is its id, and the list
of documents is what `ListByUser` answers: the newest `PageSize` (`Page`), since the panel asks for 500 and a
limit above 100 becomes 20. The dialog and `DeleteFolder` work on the tree's nodes, which have no page.
Left out: which folders are expanded, the search filter, the preview's content, the sidebar's width,
"ingest all", and list requests that fail (they set an error text and nothing else).

### NoteDesk (`NoteDesk.tla`, `MCNoteDesk.tla`, `BrowserProofs.tla`)

The notes in the browser. `path` is the address, `push` one the router has yet to reach; `view`, `editing`
and `intent` are the stores' one-shot signals; `panel`, `editor` and `preview` are the three components
with the state of their `useAsyncState`, whose `Reloaded`/`ListArrives`/`NoteArrives` drop an answer that a
later request overtook. `saves`, `archives`, `creating` and `going` are requests whose answers run even
if their component is gone. React runs effects before the next event, so every event waits for
`Settled`, and each effect of the layout (`Flush`), of the panel (`SelectedByPath`, `Selected`) and of the
editor (`Reopened`) is an action. A text is the note it came from and the edits it holds: a text under a
foreign id and a lost edit are what is told apart. The list is the newest page (`Newest`, 60 notes). The
card that asked for a creation goes when a note is opened, its panel stays (`panel.asked`). A request told
to have failed may have changed the note all the same: a new version is current before `MarkDirty` and
`UpdateTitleAndLang` run, and an answer may be lost (`SaveFails`, `CreateFails`, `ArchiveFails`). A creation
that fails half way may also leave a note without text, which is DocumentIngest's matter. Left out:
titles, the Markdown preview, split modes, counters, later pages.

### Account (`Account.tla`, `MCAccount.tla`, `BrowserProofs.tla`)

Session and portrait. `cookie`, `session` and `page` are the three places that hold a session; `call` are the
requests of `authedFetch`, each refused for an expired token, waiting for the one shared `refresh`, and
sent again once; `sign` is the login or logout under way. `form` is the settings page with its two
halves (what is typed, what is believed saved, what is being saved), and `agent` the read and the write of
`write_memory`. Answers reach a form that may have been closed, or another one. The specification is
`AccountSpec`, and other names differ from those of the other modules (`AccountTypeOK`, `portrait` for what
is stored, `failures`), because BrowserProofs extends NoteDesk and Account together. Left out: registration
data, passwords, token signing, the limit of the portrait's length.

### Transcript (`Transcript.tla`, `MCTranscript.tla`, `TranscriptProofs.tla`)

What a bubble shows, live and after a reload. The server is the part of AgentRun a browser sees: a
round's text in deltas cut anywhere, then its row, its calls and their results, whose events may not
arrive. `split` is the state of `splitTextDelta`, which holds back the beginning of a tag; the tags are
`<>` and `</>`, the shortest that share a beginning as `<think>` and `</think>` do, and are modelled
character by character because the property is about them. `applyEvent`, `flushThinkSplit`,
`reconcilePendingTools`, `rebuildEventsFromHistory` and `derivePendingQuestion` are functions on messages,
`terminal` the entries of `bashStreamStore`. The splitter's loop is a recursive function on the text left
(`SplitRest`), so that theorems may reach it. Left out: arguments and contents of tools, whitespace
trimming, the layout of events.

### ChatView (`ChatView.tla`, `MCChatView.tla`, `ChatViewProofs.tla`)

The conversations of one tab. `list` are the entries of `conversations` with their messages, each message
the items `<<turn, n>>` it shows; `loads`, `listing`, `creates` and `hide` are requests under way; `streams`
are all streams opened with their place in the log and the bubble they write to, `held` is `abortRef` and
`pending` closes the input. The server is the part of Turn a tab sees: one live turn per conversation, a
second send refused, an edit superseding. `Patched` writes to a bubble by its key, so a bubble that a
load replaced takes nothing. `harmed` and `orphaned` are history: the conversations one of the races that
`ShownIsStored` names has been at, and those with a stream that was let go of. Left out: message text (Transcript), titles, pages after the first, switching
the project of a conversation, creating projects.

## 3. The runs

| run | question | bounds |
|---|---|---|
| `turn_contention` | can any interleaving of three requests, with expiry, lost replies and cancels, leak the lease, overlap or delete a foreign lease without its known cause? does every step refine `TurnLease`? | 3 turns, 1 process, 2 goroutine counts, TTL 1, no renewal; symmetric in turns and counts |
| `turn_crash` | with a second process, a crash and a restart: does the map stay exact, does a cancelled turn stop, does every request end and every lease go? | 2 turns, 2 processes, TTL 2, 1 renewal, 1 crash |
| `agent_run` | do events, rows, calls and results pair up on every path? | 2 rounds, groups of up to 2 parallel calls before a serial one, 1 text delta per round, 1 fault, a cancel anywhere |
| `replay` | list plus stream give each text and call once; an answer closes the streams | 2 rounds of one call, cancel anywhere |
| `message_log` | what can a lost counter, a lapsed cache or an overlap do to numbers and prompts? | 2 requests, a user and an agent message (or an abort message) each, 2 lost counters, 1 cache gap |
| `document_ingest` | which races and failures lose an edit, share a version number, or leave chunks that are stale or mixed? | 2 writers, a creation and 2 edits, 2 ingestions, 1 failure; symmetric in writers and ingestions |
| `knowledge_tree` | which overlap damages the tree in which way? do the two depth checks agree? is the panel right in the end, and does a deletion take only what its dialog counted? | every forest of up to 3 folders with a document, a second one beside it or to be uploaded, a page of 1, depth 2, 2 names, 2 operations under way together; symmetric |
| `tree_delete` (violation) | "DeleteFolder archives descendants then removes nodes" | as `knowledge_tree`, 1 document |
| `note_desk` | can a note get another's text, lose a told edit, or a stale answer or signal decide what is shown? | 2 notes, the second yet to be created, of which the list holds 1, 1 edit, 6 events of the user, 1 failing request |
| `account` | can a login, a logout, a portrait line or a memory line be undone, and by what? | 2 requests together, 2 agents, 2 typed lines, 5 operations, 1 expiry, 1 failure; symmetric in requests and agents |
| `transcript` | do the bubbles show what was said, and what a reload shows? | letters `a` and `<`, 2 turns, 3 tokens and 2 calls (`bash`, `ask`) in all, 1 reload |
| `chat_view` | which message is shown where, what does the stop button reach, what is listed? | a conversation with a turn under way, one to be made, 1 project, 2 acts, 2 loads, 1 failure, 1 round per turn |

What the merged properties consist of is in the modules; the names of their parts say what each guards:
`LeaseSafety` (`NoLeakedLease`, `OverlapNeedsLoss`, `TheftNeedsTwin`), `CancelSafety` (`HandleIsLive`,
`UnregisteredNeedsLoss`, `CancelledTurnStops`, `CancelNeedsEdit`), `CallsAreAnswered`, `StreamFitsLog`,
`NumbersAreSound`, `PromptIsStored`, `WritesAreKept`, `ChunksFollowText`, `ResumeIsExact` and
`AnswerClosesStreams`.

Why the bounds are enough. Three turns are a turn at work, the edit that supersedes it, and a third that
slips in between the release and the reacquisition, or shares an owner string with one of them; TTL 1
lets the lease expire between any two steps. Two processes are the sender and the receiver of a cancel.
Two rounds let the first be any batch and the second see its leftovers; a group of two already has both
completion orders, and a third, serial call ends it. Two lost counters suffice to lose one twice, or
two of the three at once. A creation and two edits are the shortest history in which an edit can be lost
or an unchanged text be skipped (a creation stores no hash), and two ingestions the fewest that mix. An
edit starts after the creation, which returns the id, and only knowledge documents are archived. In a
group no property depends on how many members it has beyond two.

Two changes of the tree are what every kind of damage takes, and since the run starts from *every* small
forest, longer histories would only prepare another start; a depth of 2 with three folders puts a
folder with a subfolder at the limit and beyond. A page of one document, or note, of two already has an
edge that creations and archivings move documents over. One edit is enough to be lost, and six events reach
through open, type, save, back, open, and a further save or quote. Two requests share a refresh and can
overtake each other; two agents lose a line of each other, one agent and the page the rest. Three tokens
cut a tag in all ways, two turns make a second bubble to which late events must not go. Two acts are a
send and whatever the user does to it; by hand, three acts with one load hold as well.

Deadlock checking is off everywhere: requests end, turns end, the bounds run out, and nothing has to happen
after that.

**Fairness.** `Turn!FairSpec` assumes that time passes (`Tick`), and that the Go scheduler runs each
request's goroutine and each listener; requests need not arrive, processes need not start and the
environment need not crash. Weak fairness of a request's step as a whole does not force the *wait* to
succeed: it may end with the five-second timeout (`WaitReleased`'s second disjunct). Likewise
`AgentReturns` is part of the step: `EveryTurnEnds` is about the waits of the coordination, not about
an LLM that never answers, which `Setup` and `Heartbeat` cannot delay for ever because renewals are
bounded by `MaxBeats`. `AgentRun!FairSpec` runs the turn's goroutine, whose rounds `MaxRound` bounds.
`EventReplay` adds the two read loops and the in-flight check of a browser that has listed; dropped
connections and the arrival of the second browser are not fair. The modules of the browser and the tree
state safety only: their requests may stay unanswered for ever.

**What they show.** The coordination keeps its promise up to the lease: two turns overlap only after an
expiry, a cancel, or a theft by a turn with an equal owner string, and the theorems say so for
every instance. The agent loop's bookkeeping is right on all paths, including the (unreachable)
"interrupted" messages of the cleanup: `commitTool` joins a result to `msgs` before it stores anything,
so a cleanup never finds an open call (`CallsAreCommitted`). The SeqIDs on events make the replay cursor
sound for texts, calls and the final `done`. The cold start is sound unless a counter disappears in the
two-command window between EXISTS and INCR. Documents are consistent one writer and one ingestion at a
time, whatever command fails, with one exception: when the command that marks a rewritten document dirty
fails, it stays `chunked` with the old text's chunks and no sweep visits it (`ChunksAreCurrent`).

The tree is damaged only by two changes under way together, and each kind of damage only by the pairs
`DamageNeedsRace` names; one at a time, the checks of `MoveNode` and `CreateFolder` are complete, and
the panel's own depth checks agree with them (`DepthChecksAgree`) except at the root, where the server does
not look. The panel ends with the server's tree and its newest page of documents unless two reloads arrive in the
wrong order or a deletion fails half way. Notes keep their own text although the editor stays mounted between them, with two
exceptions the property names: a save after a load that failed (the old text is saved under the new
note's id), and a note opened while a save of it is under way (the old text is loaded and saved back).
`useAsyncState` keeps stale answers off the screen. Sessions follow the user but for a refresh under
way at the logout. The think-tag splitter is right however deltas are cut. A reload shows what was
shown live, calls and questions included, unless it comes between a call and its result. The stop button
reaches the stream that closes the input; another stream writes on only after an automatic resume
replaced it.

### Findings

One, as a violation run: `DeleteFolder` never deletes the folder (`tree_delete`). `collectSubtree` starts
below the folder, an empty folder is left by an early return, and with a document inside the deletion
fails on the node that the document's archiving has deleted already. `tree_service.go:159` says
"DeleteFolder archives descendants then removes nodes.", the handler's comment (`tree_handler.go:95`)
"DeleteFolder deletes only empty folders.", the dialog "将递归删除该目录" (the folder is deleted
recursively).

### Seen while modelling

These are behaviours of the code that the models contain and that the properties above name as exceptions,
or that no property forbids. They have no run of their own.

*Server.* The agent's context has no deadline, so a turn whose lease expired keeps running
(`conversation_service.go:376`; `lock.go:38` says "TTL caps agent ctx"). `Bootstrap` cancels the listener's
context when it returns, before the server serves (`bootstrap.go:145-151`). No handle ever carries its own
turn id, so an edit never marks the superseded turn modified (`conversation_service.go:414-420`), and a
reload shows the old branch again. Tool calls are announced and executed in Go map order (`openai.go:170`;
`agent.go:249` says "in LLM order"). `tool_result`, `question`, `error` and the `done` of a pause carry
SeqID 0 and never pass the replay filter, which live readers use too (`conversation_service.go:336`). A new
turn's EventSource reconnects with the URL that submitted the message and submits it again
(`ChatRepository.ts:5`, `conversation_handler.go:118`). A turn can delete the lease of another that read
the same goroutine count; a cancel names only the conversation and may stop the turn after the one it
was meant for; a turn that ends between the list and the in-flight check leaves a browser with an
incomplete list and nothing to resume; after the message cache expires in mid-turn the next prompt
holds only what was pushed since. Archiving a project ignores conversations it failed to archive.

*Browser.* The tree shows the 20 newest documents and no others, although the panel asks for 500
(`document_repo.go:131`; `knowledge-panel.tsx:75` says that all are shown). Because of the filter, live tools end as "turn ended before tool result arrived" and `bash`
entries run for ever in the terminal; a pause's stream stays open with the input closed. The stop button
closes the stream only: the turn goes on and the next send is refused. A draft can be sent twice
before its conversation exists, and a created conversation takes the user there from wherever they are.
A call resumed in mid-turn is a stub without arguments, which hides its question card. The pencil of
the preview never opens the editor: the effect that follows the address sets the view back before
the panel mounts. "去对话" (to the chat) is cleared by the layout's safety effect unless the chat is already
shown. The answer to the editor's archiving leads to the notes from anywhere. One failing archiving of
several leaves list and selection as they were. A save that is told to have failed may have changed the
note, whose list entry keeps its old title and date. The answer to a save of one half of the portrait
replaces what is typed in the other (`settings-panel.tsx:164`; line 128 calls the halves independent). A
logout that fails keeps the cookie; a refresh that fails after a login clears the new session.

### Mutants

Every checked property has a mutant: a definition commented "Defect" beside the definition it replaces,
a plausible bug in the same code (a return without release, a handler that reads the map twice, a context
that is not the agent's, an off-by-one in a depth check, an answer applied to the last bubble instead of
its own). Substituting it makes TLC report the property.
They are no part of any specification.

## 4. The proofs

Each `<Module>Proofs.tla` extends its module (EventReplayProofs holds the proofs about AgentRun, which
EventReplay extends, as well; BrowserProofs holds those about NoteDesk and about Account, which share
no variable) and is laid out alike: the inductive invariant (`IInv`,
`RInv` for EventReplay, `AccountInv` for Account, `PageInv` with `TextFits` and `CallsInv` for Transcript) as a conjunction of named parts, one lemma or step per action that says
which parts it can disturb and why they survive, then `Init => IInv`, `IInv /\ [Next]_vars => IInv'`, and
the theorems. The invariants were run through TLC on the instances of section 3 before they were proved.
The theorems hold for every value of the constants that satisfies the named assumption of the module,
so for any number of requests, rounds, writers, notes or agents, and any bound on faults, expiries or
losses; they use no fairness.

| module | theorems (`Spec => []...`) |
|---|---|
| `TurnProofs` | `Inductive`, `TypeCorrect`, `LeaseIsSafe`, `CancelIsSafe`, `Refinement`, `Exclusion` |
| `EventReplayProofs` | of AgentRun: `Invariance`, `TypeCorrect`, `StreamIsSafe` (`StreamFitsLog`), `CallsAreSafe` (`CallsAreAnswered`); of EventReplay: `ReplayInvariance`, `ReplayTypeCorrect`, `ResumeIsSafe` (`ResumeIsExact`) |
| `MessageLogProofs` | `Invariance`, `TypeCorrect`, `NumbersAreSafe` (`NumbersAreSound`), `PromptIsSafe` (`PromptIsStored`) |
| `DocumentIngestProofs` | `Invariance`, `TypeCorrect`, `WritesAreSafe` (`WritesAreKept`), `ChunksAreSound` (`ChunksFollowText`) |
| `BrowserProofs` | of NoteDesk: `Invariance`, `TypeCorrect`, `TextsAreSafe` (`TextsAreKept`), `ShownIsSafe` (`ShownIsCurrent`), `AddressIsSafe` (`AddressRules`); of Account: `AccountInvariance`, `AccountTyped` (`AccountTypeOK`), `SessionIsTheUsers` (`SessionFollowsUser`), `PortraitIsSafe` (`PortraitIsKept`), `MemoryIsSafe` (`MemoryIsKept`) |
| `KnowledgeTreeProofs` | `Invariance`, `TypeCorrect`, `TreeIsSafe` (`DamageNeedsRace`), `DepthsAgree` (`DepthChecksAgree`), `PanelIsSafe` (`PanelIsCurrent`), `DeletionsAreSafe` (`DeletionsAreTold`) |
| `ChatViewProofs` | `Invariance`, `TypeCorrect`, `HeldIsSafe` (`OneStreamIsHeld`), `ListIsSafe` (`ListIsComplete`), `ShownInvariance`, `ShownIsSafe` (`ShownIsStored`) |
| `TranscriptProofs` | `PageInvariance`, `TranscriptTyped` (`TypeOK`), `TranscriptSettles` (`NothingSpins`), `TranscriptIsWhole` (`TextIsWhole`), `TranscriptReloads` (`ReloadShowsTheSame`) |

**Turn** (`ConstantAssumption`: None is no turn, instance or count; TTL is positive; the bounds are
natural numbers). `LeaseIsSafe` and `CancelIsSafe` have theorems for their parts (`NoLeak`,
`Serialised`, `TheftHasTwin`, `HandlesAreLive`, `CancelStops`). `Refinement` is `Spec => LeaseRefined`: the code
implements the abstract lease; `Exclusion` is the abstract lease's invariant (a working turn that was
not displaced holds the lease), proved once in terms of `TurnLease` and inherited through the
refinement.

`IInv` (theorem `Inductive`) adds to the properties what they need to survive a step: a request that
has not started has no owner string and no tries, and one that has carries the instance of its process
and acquires at most twice (`Started`), only a turn that has been granted a lease can have lost one
(`LossIsLate`), a turn whose DEL is missing is over (`DroppedIsOver`), a turn at work that has not lost
its lease is the one the key names (`HolderIsNamed`), the holder of the lease is at work or dropped
(`NoLeakedLease`), a listener holds a handle of its own process (`ListenerIsLocal`). Serialisation
follows from `HolderIsNamed`: two turns that both lost nothing would both be the one holder. One lemma
per action shows that it preserves each conjunct it can disturb; the refinement maps each action to
`Begin`, `Strand`, `Finish`, `Lapse` or a stutter. `CancelSafety` needs two conjuncts that are not in
`IInv` and are inductive beside it. `MapStep` shows that a turn at work that has not lost its lease is in
the map of its process. `CancelsAreAsked` follows a cancel back to its cause: a pending or delivered
message, a listener at work and a cancelled turn are on a process that some edit read as the owner's
(`Asked`), and only edits get as far as reading an owner.

**AgentRun** (`AgentAssumption`: a batch is a sequence of at least one call; the bounds are natural
numbers). The properties speak of the whole stream and the whole table, a step of one call, so `IInv`
must say where in its calls a round stands. `Place` bounds `first`, `k` and `invoked`; `Announced`,
`Answered` and `Committed` count, for each program point, the calls with an event, a result and a tool
message, and `RoundFits` and `ToolsFit` state that exactly those calls have them. `PairsFit` is the
pairing over all rounds; `NumbersFit` and `RowsFit` relate the numbers of events and rows to `roundSeq`
and `turnSeq`; `LastFits` places the last event; `SayingsFit` says that a round which said something has
its row unless it is the round under way. The group of parallel calls ends at a `CHOOSE`, so that the
proof first shows that such an end exists (`EndFacts`: a least serial call, by the well-ordering of the
naturals). That `msgs` holds a message for every call when the cleanup begins (`CallsAreCommitted`)
follows from `ToolsFit`: the count is complete wherever the cleanup can start. `ResultsFollowCalls` is
stated over pairs of stream positions, which says the same as "the results are a prefix of the calls"
and needs no induction over the stream.

**EventReplay** (the same assumption). `RInv` is AgentRun's `IInv` and three parts on the browsers. A
step of the turn only lengthens the stream, and what it adds carries `roundSeq` (`TurnSteps`); a step of
a browser leaves the turn alone. The list ends with its greatest number and the resumed reader has
passed exactly the events behind it (`ListingFits`), which gives "nothing twice"; without a cancel or a
fault, whatever was said up to that number is in the list (`ShownFits`), which gives "nothing lost".
The second is where `SayingsFit` is needed: the cursor is exact because a round's row is stored before a
later round speaks.

**MessageLog** (`LogAssumption`: finitely many requests, a real restriction only in that infinitely many
would leave "the greatest number given" undefined; the bounds are natural numbers). `TurnIdsDiffer` holds
whatever overlaps and whatever Redis loses, since the unique index on the first message refuses a
second use of a turn id (`RowsDiffer`, `StartedIsStored`). The rest is under `Undisturbed`, no overlap
and no counter lost between EXISTS and INCR: a counter that exists covers every stored number and every
number taken but not stored (`CountersCover`, `PendingAreCovered`); a request about to initialise one holds
a watermark that still covers, one about to increment finds the key it saw (`StagesHold`); hence a new
number is greater than all stored ones (`NumbersAreFresh`). `CacheIsWhole` carries the prompt: the cache is
the sorted table but for the row about to be pushed. `TurnsFit` bounds the turn ids by the number of
requests that have taken one, by cardinality. `Sorted` places each row by the number of rows before it
(its rank), since a sort defined by choice has no properties the provers could use. The proof found one
exception too few: `HistoryIsWhole` held a misled prompt to be the work of gaps and overlaps only, where a
lost counter (`raced`) can cause it as well.

**DocumentIngest** (`DocumentAssumption`: the bounds are natural numbers). `WriterFits`, `ObjectsExist` and
`CreationIsFirst` say what a call knows at each point. A version number is one more than the greatest
one; that it stays in range takes a count: the greatest number given, and the calls that have yet to take
one, add up to at most the calls made (`NumbersFit`). `WriterIsAlone` follows a single writer's text from
its read to the row (`Intended`), `ArchiveIsLast` says that nobody is left to put an archived document
back into the tree, `IngestIsAlone` how far the chunks of one ingestion are at each point, and
`ChunksAreFresh` that the text it fetched is still the current one. Each is under the history flag of the
race the property excepts, and of nothing more.

**NoteDesk** (`DeskAssumption`: ids and the page's size are numbers, the existing notes are notes, None is neither an address nor a text). The
invariant says for each request what it carries and what waits for it: `SavesFit` (the editor waits for one
save), `TextsFit` (a text is of the note it is stored, saved or edited under, and a loaded editor has a
text of the note selected), `EditsFit` (it has every edit the user was told is saved; an open note has those
of the save under way too), `CreationFits`, `ListsTogether` and `ListFits` (the list is the server's newest
page, or a reload of it is yet to come), `PreviewFits`. `SignalWaits`, `PathIsSeen` and `ChatIsBare` give the
addresses: whatever order the effects ran in, the panel has selected what its effect saw.

**Account** (`AccountAssumption`: the bounds are natural numbers; an agent's lines are not the user's, as
a line stands for who wrote it). `FormOwnsCalls` relates the form to its requests: no form without a
session, one request for the load and one for each field, a field disabled exactly while it is saved.
`LogoutLasts` and `LoginLasts` carry the session: after a logout that met no refresh, a refresh started
since holds no token. `UntypedIsNowhere` makes a new line new. `EditsArePending` and `AnswersAreStored` carry
the portrait, `WritersAreAlone` and `WritesAreWhole` the memory: a save whose write is alone holds all
that was told, so that serving it loses nothing.

**KnowledgeTree** (`TreeAssumption`: finitely many folders and documents, which are different ids, a document's
a number; the
root and None are neither, and None is no name; the depth limit is positive). The rows are any map from
nodes to parents, cycles included, so the lemmas first say what the recursive queries compute on it:
`ChainIs` (the chain of a node is the least set that holds it and the parents of its members),
`LevelIs`, `AncestorsAreLevels` (a row k levels below the home row has k ancestors) and `SubtreeDepthsAgree`
(the panel's recursion over levels and the server's over rows give the same depth of a subtree). Repeated
application is `Times`, a recursive function, and what holds after every number of steps follows from
`SetInduction`: a set of numbers that holds 0 and each member's successor holds all, since a least number
outside it would have a predecessor inside. No induction theorem with an operator parameter is needed.
`DepthsAgree` follows from these lemmas alone and holds of any rows.

The invariant then says what a check has established and which races can undo it. `ForestFits` is the state
of the rows under each race that has not happened, and `CallFits` what an operation knows at its point:
a move past `MoveCycle` does not hang its folder below itself (`MakesNoCycle`), one past `MoveDepth` leaves
room for the whole subtree (`StaysShallow`), an operation about to write has a free name
(`StaysDistinct`), one that has found its folder still has it and a deletion takes children before their
parents (`StaysWhole`). Each operation's write is shown to keep the rows and every other operation's
knowledge; that needs what a change of one row does to the chains through it (`Linked`, `Placed`,
`Inserted`, `Cut`). `PanelFits` is why the panel comes right: a list that differs from what is stored is
the newest on its way, or will be read by an operation that has not asked for it, or a deletion is under
way, which reads at its end or fails. `ListsFit` gives each list on its way one operation that awaits it.
`ToldFits` carries the dialog's count to the deletion: opened at rest the panel's tree is the stored one,
and nothing else can start before the dialog closes. A deletion that has archived a document never
succeeds (`Dooms`), which is the finding of section 3 seen from the invariant: without it the list of
documents would not be read after a deletion.

**ChatView** (`ChatViewAssumption`: what is made here is not there when the page opens). `HoldFits` is
`OneStreamIsHeld`, which every step keeps: a message takes the place of a stream it aborts, and a resume
that of one it lets go of. `ListFits` is why the list comes out complete whatever order its answers take:
a conversation of the server that the list lacks is on its way (`Coming`) or in the answer of the page's
opening, one of the list that the server lacks is being archived (`Going`), unless an answer was given
behind a change.

`ShownIsStored` needs a second invariant, `ShownInv`, which compares three copies of a conversation that
grow apart and together again: the turns stored, the rows a load has read, the bubbles shown.
`EntryListsFit` says what an entry may hold of turns it has not seen end, `IdsFit` that no two turns, sent
messages or drafts have one id, `RowsFit` that the rows of a load are the stored turns some steps earlier
(`Grown`: only the last of them has had more rounds), `MadeFits` that a conversation on its way has said
nothing. `ShownFits` gives each conversation that nothing harmed what it still lacks (`WholeFits`): the
bubbles and what the held stream has yet to receive are together what is stored. The steps are proved from
lemmas about `FlattenSeq` (what a longer last element, another one or a part replaced makes of the whole).
The first attempt failed, rightly: with three acts a conversation leaves the list when an archive is
answered and comes back with an older list, or a project's archive takes a conversation off that the server
passed over, and neither counted as harm; `DeleteArrives` and `ProjectArrives` now say so.

**Transcript** (`TranscriptAssumption`: the letters are among `<` and one that is in no tag, the tools among
`bash`, `ask` and one other; the bounds are natural
numbers). Three invariants, each proved with those before it.

`PageInv` is the server (`AgentFits`), the browser (`BrowserFits`) and why a call that spins on the page is
one that will be settled (`SpinsShown`, `CallsSettle`): it is in the bubble of the open stream, which settles
it at its end, or its row was loaded before its result (`early`). `NothingSpins` follows.

`TextFits` carries what is said. `DraftTells` says that the rows and the draft of the round under way are
together what was meant, and `BubbleTells` that the bubbles, what the splitter keeps back and the text no
delta has carried yet are; each is under the events `TextIsWhole` excepts (`unclosed`, `cut`, `stopped`), and
of nothing more. `TurnShown` says that without a stream no turn is at work, so nothing is missed. Both rest on one fact
about the splitter, whatever the text: where it is cut does not matter. `SplitRest` recurses on a text that gets
shorter, so the lemmas first show that it is the function its equation describes (by `SetInduction` on the
length), then what one turn of its loop does (`FirstOnly`, `WholeTag`, `WholeNone`), then that splitting a
text and going on with another is splitting the two together; `ContentTells` is the same for a stored text,
which is split at once.

`CallsInv` gives `ReloadShowsTheSame`: the calls a live bubble shows and those whose events are still to come
are together those of the rows (`CallsFit`), unless the user stopped the stream or a call was loaded before
its result (`early`). A result shown without its call is a command's, which nobody waits for (`Stubs`); any
other call under way has its event in the bubble (`BubbleHas`). The pending question is computed from all
bubbles, so it is first shown to be a function of the trail of questions and answers alone (`Trail`,
`PendingTells`), and the trails of the live and the reloaded page are then compared. `UsersAsk`, `NumbersFit`
and `TerminalFits` place the user's bubbles, the numbers of calls and the entries of the terminal.

**Only model-checked.** Liveness (`EveryTurnEnds`, `LeaseIsFreed`, `TurnEnds`, `AnswerClosesStreams`): the
prover has no fairness or ENABLED. Every safety property of a passing run is proved.

## 5. What is left

Not modelled, and why:

- *sandboxes* (`sandbox_service.go`): their states are those of a Kubernetes controller that this code
  polls; a model would be mostly of the controller. The two races in `start` are listed as hazards.
- *an agent's crash and the next prompt*: what a language model does with an unanswered call is outside.
- *trimming at `StreamMaxLen`*: the promise of replay is then only that of the entries kept.
- *retrieval, rank fusion, chunking, extraction, embedding, reranking*: queries, remote calls and text
  processing without state.
- *HTTP binding, configuration, observability, deployment*: no protocol state.
- *the rest of the web client*: styling, theme, generic UI parts, the live preview of a project, the
  terminal's layout.
