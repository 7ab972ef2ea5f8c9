------------------------------ MODULE ChatView ------------------------------
(***************************************************************************)
(* The conversations as one browser tab holds them (useConversations): the  *)
(* list read when the page opens, the messages loaded when a conversation   *)
(* is visited, and the streams that write into their bubbles, of which one  *)
(* at a time is held for the stop button.  The server is the part of Turn   *)
(* the tab sees: one turn of a conversation at a time, which nothing but an *)
(* edit stops.                                                              *)
(*                                                                         *)
(* What a bubble shows is a sequence of items <<turn, n>>: the user's       *)
(* message of a turn is item 0, the rounds of its answer are 1, 2, ...      *)
(***************************************************************************)
EXTENDS Naturals, Sequences, FiniteSets, SequencesExt, FiniteSetsExt

CONSTANTS
  Convs, Projects, None,
  Fresh,       \* ids the server gives to conversations made here
  Flying,      \* conversations with a turn under way when the page opens
  Grouped,     \* conversations bound to the project when the page opens
  MaxRounds, MaxLoads,
  MaxActs     \* bounds: acts of the user and failures together

ASSUME ChatViewAssumption ==
  /\ Fresh \subseteq Convs /\ Flying \subseteq Convs \ Fresh
  /\ None \notin Convs \cup Projects /\ Grouped \subseteq Convs \ Fresh
  /\ {MaxRounds, MaxActs, MaxLoads} \subseteq Nat

VARIABLES
  made, alive,   \* conversations made; those of them not archived
  bound,     \* active_project_id of each
  log,       \* stored turns of each
  url,       \* /c/:id, or None for the draft
  focus,     \* ?project=:id of the draft
  list,      \* conversations: the first entry of each that the list has
  twice,     \* the project of the entry behind it, of those listed twice
  projects,  \* the projects on the sidebar
  listing,   \* the request of the page's opening
  loads,     \* getMessages requests under way, in the order they were made
  streams,   \* every stream opened: its place in the log, and what has become of it
  held,      \* abortRef: the number of a stream, 0 for null
  pending,
  creates,   \* conversations being made for the draft's message
  hide,      \* the archive request under way
  acts,      \* acts of the user and failures so far
  \* History: conversations whose bubbles a named race has damaged, or whose stream
  \* was let go of while it ran; the list was answered or filtered behind a change, or
  \* a change was told to have failed.
  harmed, orphaned, swept

server   == <<made, alive, bound, log>>
view     == <<url, focus, list, twice, projects, loads>>
channel  == <<streams, held, pending>>
requests == <<listing, creates, hide>>
history  == <<harmed, orphaned, swept>>
vars     == <<server, view, channel, requests, acts, history>>

NewTurn(id) == [id |-> id, out |-> 0, asks |-> FALSE, end |-> "live"]
UserMsg(id)   == [got |-> <<<<id, 0>>>>, key |-> 0]
Bubble(key)   == [got |-> <<>>, key |-> key]
NoHide        == [st |-> "none"]
Over          == [state |-> "over", served |-> TRUE]

Live(c)     == log[c] # <<>> /\ Last(log[c]).end = "live"
Running     == {s \in DOMAIN streams : streams[s].state = "open"}
Loading(c)  == \E i \in DOMAIN loads : loads[i].conv = c
Act         == acts < MaxActs /\ acts' = acts + 1
Fault       == Act
\* The id of a message that is sent, by an act, or sent again, by a failure.
NewId       == acts + 1
\* The events behind a place: a turn and the number of its next round.
Behind(c, k, n) ==
  {p \in (DOMAIN log[c]) \X (1 .. MaxRounds) :
     p[2] <= log[c][p[1]].out /\ (p = <<k, n>> \/ (p[1] > k /\ p[2] = 1))}

TurnItems(t) == [n \in 1 .. t.out + 1 |-> <<t.id, n - 1>>]
Stored(c)    == FlattenSeq([i \in DOMAIN log[c] |-> TurnItems(log[c][i])])
Shown(c)     == FlattenSeq([i \in DOMAIN list[c].msgs |-> list[c].msgs[i].got])

\* The bubbles of loaded rows (rebuildEventsFromHistory, Transcript).
Rebuilt(rows) ==
  FlattenSeq([i \in DOMAIN rows |->
    <<UserMsg(rows[i].id)>> \o
    IF rows[i].out = 0 THEN <<>> ELSE <<[got |-> Tail(TurnItems(rows[i])), key |-> 0]>>])

\* derivePendingQuestion: the last thing shown is a question.
QuestionShown(c) ==
  /\ c \in DOMAIN list /\ Shown(c) # <<>>
  /\ \E i \in DOMAIN log[c] : log[c][i].asks /\ Last(Shown(c)) = <<log[c][i].id, log[c][i].out>>

\* Defect: the item goes to the last bubble, whichever stream that one is of.
PatchedLast(c, key, item) ==
  IF c \notin DOMAIN list \/ list[c].msgs = <<>> THEN list
  ELSE [list EXCEPT ![c].msgs = Append(Front(@), [Last(@) EXCEPT !.got = Append(@, item)])]

\* patchMessage: the bubble may be gone.
WithItem(ms, key, item) ==
  [i \in DOMAIN ms |->
     IF ms[i].key = key THEN [ms[i] EXCEPT !.got = Append(@, item)] ELSE ms[i]]
Patched(c, key, item) ==
  IF c \notin DOMAIN list THEN list ELSE [list EXCEPT ![c].msgs = WithItem(@, key, item)]

Said(l, c, more) == IF c \in DOMAIN l THEN [l EXCEPT ![c].msgs = @ \o more] ELSE l

\* The effect on the address and the list: the visited conversation is loaded unless
\* it has been, whatever is under way already (ensureLoaded).
LoadsAfter(l, u, q) ==
  IF u \in DOMAIN l /\ ~ l[u].loaded /\ Len(q) < MaxLoads
  THEN Append(q, [conv |-> u, st |-> "asked"]) ELSE q

\* Defect: a picked project becomes the path instead of the query.
GoesByPath(u, f) == url' = (IF u = None THEN f ELSE u) /\ focus' = None

Goes(u, f) == url' = u /\ focus' = f

\* abort: the loop of the held stream runs to its end before anything else happens,
\* and finds that another stream is held, or none.  Its request may still be served.
Aborted(ss) ==
  [s \in DOMAIN ss |-> IF s # held THEN ss[s] ELSE IF ss[s].served THEN Over
                       ELSE [ss[s] EXCEPT !.state = "over"]]

\* Conversations in which ending stream h leaves something unshown.
Cut(h) ==
  {streams[s].conv : s \in {x \in {h} \cap Running :
      LET r == streams[x]
      IN  \/ ~ r.served \/ Live(r.conv) \/ Behind(r.conv, r.turn, r.n) # {}}}
Loss == Cut(held)

Init ==
  /\ made = Convs \ Fresh /\ alive = made /\ bound \in [Convs -> Projects \cup {None}]
  /\ \A c \in Convs : bound[c] # None <=> c \in Grouped
  /\ log = [c \in Convs |-> IF c \in Flying THEN <<NewTurn(0)>> ELSE <<>>]
  /\ url \in {None} \cup made /\ focus = None /\ list = <<>> /\ twice = <<>> /\ loads = <<>>
  /\ projects = Projects /\ listing = [st |-> "asked"] /\ creates = {} /\ hide = NoHide
  /\ streams = <<>> /\ held = 0 /\ pending = FALSE
  /\ acts = 0
  /\ harmed = {} /\ orphaned = {} /\ swept = FALSE
-----------------------------------------------------------------------------
(* The page opens and the user goes about. *)

ListRead ==
  /\ listing.st = "asked" /\ listing' = [st |-> "read", got |-> alive]
  /\ UNCHANGED <<server, view, channel, creates, hide, acts, history>>

\* The answer replaces whatever the list has by now.
ListArrives ==
  /\ listing.st = "read" /\ listing' = [listing EXCEPT !.st = "answered"]
  /\ list' = [c \in listing.got |-> [msgs |-> <<>>, loaded |-> FALSE, proj |-> bound[c]]]
  /\ twice' = <<>> /\ loads' = LoadsAfter(list', url, loads)
  /\ swept' = (swept \/ ~ (DOMAIN list \subseteq listing.got /\ listing.got \subseteq alive))
  /\ harmed' = harmed \cup {c \in DOMAIN list : list[c].msgs # <<>>}
  /\ UNCHANGED <<server, url, focus, projects, channel, creates, hide, acts, orphaned>>

ListFails ==
  /\ listing.st = "asked" /\ Fault /\ listing' = [st |-> "failed"]
  /\ UNCHANGED <<server, view, channel, creates, hide, history>>

\* selectConversation, newConversation, pickProject.
Visit ==
  /\ Act
  /\ \E to \in ((DOMAIN list) \X {None}) \cup ({None} \X (projects \cup {None})) :
       /\ to # <<url, focus>> /\ Goes(to[1], to[2])
       /\ loads' = IF to[1] = url THEN loads ELSE LoadsAfter(list, to[1], loads)
  /\ UNCHANGED <<server, list, twice, projects, channel, requests, history>>
-----------------------------------------------------------------------------
(* Loading a conversation. *)

LoadRead(i) ==
  /\ loads[i].st = "asked" /\ loads[i].conv \in alive
  /\ loads' = [loads EXCEPT ![i] = [conv |-> @.conv, st |-> "read", rows |-> log[@.conv]]]
  /\ UNCHANGED <<server, url, focus, projects, list, twice, channel, requests, acts,
                 history>>

\* IsTurnActive: a turn in flight is looked for behind the rows.
LoadChecked(i) ==
  /\ loads[i].st = "read"
  /\ loads' = [loads EXCEPT ![i] = [conv |-> @.conv, st |-> "checked", rows |-> @.rows,
                                    flying |-> Live(@.conv)]]
  /\ UNCHANGED <<server, url, focus, projects, list, twice, channel, requests, acts,
                 history>>

\* A failed load is tried again when the list changes next.  One whose answer is lost is
\* as good as unread.
LoadFails(i) ==
  /\ loads[i].st = "asked" /\ ((loads[i].conv \notin alive /\ UNCHANGED acts) \/ Fault)
  /\ loads' = RemoveAt(loads, i)
  /\ UNCHANGED <<server, url, focus, projects, list, twice, channel, requests, history>>

\* ensureLoaded's answer replaces the messages; with a turn in flight a bubble and a
\* stream for the rest of it come behind (maybeAutoResumeReplay), and the stream held
\* so far is let go of.
LoadArrives(i) ==
  /\ loads[i].st = "checked"
  /\ LET r == loads[i]
         c == r.conv
         n == Len(r.rows)
     IN  /\ list' = IF c \notin DOMAIN list THEN list
                    ELSE [list EXCEPT ![c].loaded = TRUE,
                            ![c].msgs = Rebuilt(r.rows) \o
                              IF r.flying THEN <<Bubble(Len(streams) + 1)>> ELSE <<>>]
         /\ loads' = LoadsAfter(list', url, RemoveAt(loads, i))
         /\ IF r.flying
            THEN /\ streams' = Append(streams,
                      [conv |-> c, by |-> "resume", served |-> TRUE, state |-> "open",
                       heard |-> FALSE, turn |-> IF n = 0 THEN 1 ELSE n,
                       n |-> IF n = 0 THEN 1 ELSE r.rows[n].out + 1])
                 /\ held' = Len(streams') /\ pending' = TRUE
                 /\ orphaned' = orphaned \cup {streams[s].conv : s \in {held} \cap Running}
            ELSE UNCHANGED <<channel, orphaned>>
         /\ harmed' = IF \/ n < Len(log[c])
                         \/ ~ r.flying /\ n > 0 /\ r.rows[n].out < log[c][n].out
                      THEN harmed \cup {c} ELSE harmed
  /\ UNCHANGED <<server, url, focus, projects, twice, requests, acts, swept>>

Load == \E i \in DOMAIN loads :
  LoadRead(i) \/ LoadChecked(i) \/ LoadFails(i) \/ LoadArrives(i)
-----------------------------------------------------------------------------
(* Sending. *)

\* streamToAssistant: the held stream is aborted.
Post(c, by, harm) ==
  /\ streams' = Append(Aborted(streams),
                       [conv |-> c, msg |-> NewId, by |-> by, served |-> FALSE,
                        state |-> "open", turn |-> 0, n |-> 0, heard |-> FALSE])
  /\ held' = Len(streams') /\ pending' = TRUE
  /\ harmed' = harmed \cup Loss \cup harm

\* sendMessage in a conversation, from the input or as the answer to a question, which
\* does not wait for the stream to end.
Send ==
  /\ url # None /\ (~ pending \/ QuestionShown(url))
  /\ Act
  /\ list' = Said(list, url, <<UserMsg(NewId), Bubble(Len(streams) + 1)>>)
  /\ loads' = LoadsAfter(list', url, loads)
  /\ Post(url, "message",
          IF url \in DOMAIN list /\ list[url].loaded /\ ~ Loading(url) THEN {} ELSE {url})
  /\ UNCHANGED <<server, url, focus, projects, twice, requests, orphaned, swept>>

\* editMessage: the last message of the user and what follows it are dropped here, but
\* stay stored.
Edit ==
  /\ url \in DOMAIN list /\ Act
  /\ LET ms    == list[url].msgs
         users == {i \in DOMAIN ms : ms[i].got # <<>> /\ ms[i].got[1][2] = 0}
     IN  /\ users # {}
         /\ list' = [list EXCEPT ![url].msgs =
                       SubSeq(ms, 1, Max(users) - 1)
                         \o <<UserMsg(NewId), Bubble(Len(streams) + 1)>>]
  /\ loads' = LoadsAfter(list', url, loads)
  /\ Post(url, "edit", {url})
  /\ UNCHANGED <<server, url, focus, projects, twice, requests, orphaned, swept>>

Unused == Fresh \ made

\* sendMessage in the draft: nothing is pending until the conversation is made, so the
\* user may send again.
SendDraft ==
  /\ url = None /\ ~ pending
  /\ Act /\ Cardinality(creates) < Cardinality(Unused)
  /\ creates' = creates \cup {[id |-> NewId, focus |-> focus, conv |-> None]}
  /\ UNCHANGED <<server, view, channel, listing, hide, history>>

\* The conversation is made, then bound to the project of the draft, which may fail.
CreateServed ==
  \E r \in creates : \E c \in Unused :
    /\ r.conv = None /\ creates' = (creates \ {r}) \cup {[r EXCEPT !.conv = c]}
    /\ made' = made \cup {c} /\ alive' = alive \cup {c}
    /\ \/ bound' = [bound EXCEPT ![c] = r.focus] /\ UNCHANGED acts
       \/ r.focus # None /\ Fault /\ UNCHANGED bound
    /\ UNCHANGED <<log, view, channel, listing, hide, history>>

\* Failed, before or after the conversation was made.
CreateFails ==
  \E r \in creates :
    /\ r.conv = None /\ Fault /\ creates' = creates \ {r}
    /\ \/ UNCHANGED <<made, alive, swept>>
       \/ \E c \in Unused : /\ made' = made \cup {c} /\ alive' = alive \cup {c}
                            /\ swept' = (swept \/ listing.st # "asked")
    /\ UNCHANGED <<bound, log, view, channel, listing, hide, harmed, orphaned>>

\* The user is taken to the new conversation from wherever they are.  It goes to the
\* head of the list, also if the list has it already.
CreateArrives ==
  \E r \in creates :
    /\ r.conv # None /\ creates' = creates \ {r}
    /\ list' = [c \in DOMAIN list \cup {r.conv} |->
                  IF c # r.conv THEN list[c]
                  ELSE [msgs |-> <<UserMsg(r.id), Bubble(Len(streams) + 1)>>, loaded |-> TRUE,
                        proj |-> r.focus]]
    /\ twice' = [c \in DOMAIN twice \cup ({r.conv} \cap DOMAIN list) |->
                   IF c = r.conv THEN list[c].proj ELSE twice[c]]
    /\ Goes(r.conv, None) /\ loads' = LoadsAfter(list', r.conv, loads)
    /\ streams' = Append(Aborted(streams),
                         [conv |-> r.conv, msg |-> r.id, by |-> "message", served |-> FALSE,
                          state |-> "open", turn |-> 0, n |-> 0, heard |-> FALSE])
    /\ held' = Len(streams') /\ pending' = TRUE
    /\ harmed' = harmed \cup Loss
                   \cup {c \in {r.conv} : Loading(c) \/ (c \in DOMAIN list /\ list[c].msgs # <<>>)}
    /\ swept' = (swept \/ r.conv \notin alive)
    /\ UNCHANGED <<server, projects, listing, hide, acts, orphaned>>
-----------------------------------------------------------------------------
(* Streams. *)

\* Defect: whichever stream ends, abortRef is cleared.
EndsAnyway(s, r) ==
  /\ streams' = [streams EXCEPT ![s] = r] /\ held' = 0 /\ pending' = FALSE
  /\ loads' = LoadsAfter(list, url, loads)
  /\ UNCHANGED <<url, focus, list, twice, projects>>

\* A stream has ended: it is forgotten if it is the one held.
Ends(s, r) ==
  /\ streams' = [streams EXCEPT ![s] = r]
  /\ held' = IF held = s THEN 0 ELSE held
  /\ pending' = (pending /\ held # s)
  /\ loads' = LoadsAfter(list, url, loads)
  /\ UNCHANGED <<url, focus, list, twice, projects>>

\* Chat begins the turn; an edit first stops the one under way.
Admit(s) ==
  LET r == streams[s]
  IN  /\ ~ r.served /\ r.conv \in alive /\ (Live(r.conv) => r.by = "edit")
      /\ log' = [log EXCEPT ![r.conv] =
                   Append(IF Live(r.conv)
                          THEN Append(Front(@), [Last(@) EXCEPT !.end = "silent"]) ELSE @,
                          NewTurn(r.msg))]
      /\ streams' = [streams EXCEPT ![s] =
                       IF r.state = "over" THEN Over
                       ELSE [conv |-> r.conv, by |-> r.by, served |-> TRUE, state |-> r.state,
                             turn |-> Len(log'[r.conv]), n |-> 1, heard |-> FALSE]]
      /\ UNCHANGED <<made, alive, bound, view, held, pending, requests, acts, history>>

\* Chat refuses: the conversation is archived, has a turn under way, or the turn an
\* edit is to stop does not stop in time.
Refuse(s) ==
  LET r == streams[s]
  IN  /\ ~ r.served
      /\ \/ (r.conv \notin alive \/ (Live(r.conv) /\ r.by # "edit")) /\ UNCHANGED acts
         \/ Live(r.conv) /\ r.by = "edit" /\ Fault
      /\ Ends(s, Over) /\ harmed' = harmed \cup {r.conv}
      /\ UNCHANGED <<server, requests, orphaned, swept>>

\* The next event.  A stream is not closed by a turn that ends without a done event
\* it is sent, and goes on to the next.
Receive(s) ==
  LET r    == streams[s]
      done == r.heard /\ log[r.conv][r.turn].end = "done" /\ r.n > log[r.conv][r.turn].out
      at   == Behind(r.conv, r.turn, r.n)
      next == CHOOSE p \in at : \A q \in at : p[1] <= q[1]
  IN  /\ r.state = "open" /\ r.served
      /\ \/ done /\ Ends(s, Over)
         \/ /\ ~ done /\ at # {}
            /\ list' = Patched(r.conv, s, <<log[r.conv][next[1]].id, next[2]>>)
            /\ loads' = LoadsAfter(list', url, loads)
            /\ streams' = [streams EXCEPT ![s].turn = next[1], ![s].n = next[2] + 1,
                                          ![s].heard = TRUE]
            /\ UNCHANGED <<url, focus, twice, projects, held, pending>>
      /\ UNCHANGED <<server, requests, acts, history>>

\* The connection breaks and the reconnection is refused.  An archived conversation
\* refuses a message; to a resumed stream it answers with errors for ever.
Break(s) ==
  LET r == streams[s]
  IN  /\ r.state = "open" /\ r.served
      /\ (r.conv \notin alive /\ r.by # "resume" /\ UNCHANGED acts) \/ Fault
      /\ Ends(s, Over) /\ harmed' = harmed \cup Cut(s)
      /\ UNCHANGED <<server, requests, orphaned, swept>>

\* The connection of a message breaks, and the reconnection submits it once more (Events
\* with content).  A resumed stream goes on where it was.
Resubmit(s) ==
  LET r == streams[s]
  IN  /\ r.state = "open" /\ r.served /\ r.by # "resume" /\ Fault
      /\ streams' = [streams EXCEPT ![s] =
                       [conv |-> r.conv, msg |-> NewId, by |-> r.by, served |-> FALSE,
                        state |-> "open", turn |-> 0, n |-> 0, heard |-> FALSE]]
      /\ harmed' = harmed \cup {r.conv}
      /\ UNCHANGED <<server, view, held, pending, requests, orphaned, swept>>

\* stop: the held stream is aborted; its turn goes on.
Stop ==
  /\ pending /\ Act /\ streams' = Aborted(streams) /\ held' = 0 /\ pending' = FALSE
  /\ harmed' = harmed \cup Loss
  /\ UNCHANGED <<server, view, requests, orphaned, swept>>

Stream == \E s \in DOMAIN streams :
  Admit(s) \/ Refuse(s) \/ Receive(s) \/ Break(s) \/ Resubmit(s)
-----------------------------------------------------------------------------
(* Turns. *)

Turn(c, t) ==
  /\ log' = [log EXCEPT ![c] = Append(Front(@), t)]
  /\ UNCHANGED <<made, alive, bound, view, channel, requests, history>>

\* A round, which may ask the user something; then the turn ends.
Produce ==
  \E c \in Convs : \E asks \in BOOLEAN :
    /\ Live(c) /\ ~ Last(log[c]).asks /\ Last(log[c]).out < MaxRounds
    /\ Turn(c, [Last(log[c]) EXCEPT !.out = @ + 1, !.asks = asks])
    /\ UNCHANGED acts

\* An answer ends with a done event; a question's has no number, and an error's does
\* not close a stream.
EndTurn ==
  \E c \in Convs :
    /\ Live(c)
    /\ \/ /\ Last(log[c]).out > 0 /\ UNCHANGED acts
          /\ Turn(c, [Last(log[c]) EXCEPT !.end = IF Last(log[c]).asks THEN "silent" ELSE "done"])
       \/ Fault /\ Turn(c, [Last(log[c]) EXCEPT !.end = "silent"])
-----------------------------------------------------------------------------
(* Archiving. *)

\* deleteActive, with the list as the click found it.
DeleteActive ==
  /\ Act /\ hide.st = "none" /\ url \in DOMAIN list /\ list[url].msgs # <<>>
  /\ hide' = [st |-> "asked", kind |-> "delete", targets |-> {url}, was |-> list,
              second |-> twice]
  /\ UNCHANGED <<server, view, channel, listing, creates, history>>

\* archiveProject, with the conversations the click found in the project.
ArchiveProject ==
  /\ Act /\ hide.st = "none"
  /\ \E p \in projects :
       LET targets == {c \in DOMAIN list :
                      list[c].proj = p \/ (c \in DOMAIN twice /\ twice[c] = p)}
       IN  hide' = [st |-> "asked", kind |-> "project", targets |-> targets, of |-> p,
                    leave |-> url \in targets \/ focus = p]
  /\ UNCHANGED <<server, view, channel, listing, creates, history>>

Missing == hide.kind = "delete" /\ ~ (hide.targets \subseteq alive)

\* A conversation of the project that cannot be archived is passed over.
HideServed ==
  /\ hide.st = "asked" /\ ~ Missing
  /\ \/ alive' = alive \ hide.targets /\ UNCHANGED acts
     \/ /\ hide.kind = "project" /\ Fault
        /\ \E c \in hide.targets \cap alive : alive' = (alive \ hide.targets) \cup {c}
  /\ hide' = [hide EXCEPT !.st = "served"]
  /\ UNCHANGED <<made, bound, log, view, channel, listing, creates, history>>

\* Failed, before or after the conversation was archived.
HideFails ==
  /\ hide.st = "asked" /\ hide' = NoHide
  /\ \/ ((Missing /\ UNCHANGED acts) \/ Fault) /\ UNCHANGED <<alive, swept>>
     \/ /\ hide.kind = "delete" /\ ~ Missing /\ Fault
        /\ alive' = alive \ hide.targets /\ swept' = TRUE
  /\ UNCHANGED <<made, bound, log, view, channel, listing, creates, harmed, orphaned>>

\* Defect: only the conversation on display is taken off the list.
WithoutActive(l, cs) == [c \in DOMAIN l \ (cs \cap {url}) |-> l[c]]

Without(l, cs) == [c \in DOMAIN l \ cs |-> l[c]]

\* The list of the click comes back without the conversation.
DeleteArrives ==
  /\ hide.st = "served" /\ hide.kind = "delete" /\ hide' = NoHide
  /\ list' = Without(hide.was, hide.targets) /\ Goes(None, None)
  /\ twice' = Without(hide.second, hide.targets)
  /\ UNCHANGED <<projects, loads>>
  /\ harmed' = harmed \cup (DOMAIN list \ DOMAIN list')
                 \cup {c \in DOMAIN list' : c \notin DOMAIN list \/ list[c] # list'[c]}
  /\ swept' = (swept \/ DOMAIN hide.was # DOMAIN list)
  /\ UNCHANGED <<server, channel, listing, creates, acts, orphaned>>

ProjectArrives ==
  /\ hide.st = "served" /\ hide.kind = "project" /\ hide' = NoHide
  /\ list' = Without(list, hide.targets) /\ twice' = Without(twice, hide.targets)
  /\ projects' = projects \ {hide.of}
  /\ IF hide.leave THEN Goes(None, None) ELSE UNCHANGED <<url, focus>>
  /\ loads' = LoadsAfter(list', url', loads)
  /\ harmed' = harmed \cup (hide.targets \cap alive)
  /\ swept' = (swept \/ hide.targets \cap alive # {})
  /\ UNCHANGED <<server, channel, listing, creates, acts, orphaned>>
-----------------------------------------------------------------------------
Next ==
  \/ ListRead \/ ListArrives \/ ListFails \/ Visit \/ Load
  \/ Send \/ Edit \/ SendDraft \/ CreateServed \/ CreateFails \/ CreateArrives
  \/ Stream \/ Stop \/ Produce \/ EndTurn
  \/ DeleteActive \/ ArchiveProject \/ HideServed \/ HideFails \/ DeleteArrives
  \/ ProjectArrives

Spec == Init /\ [][Next]_vars
-----------------------------------------------------------------------------
(* Properties. *)

\* Every variable keeps its type.
TypeOK ==
  /\ alive \subseteq made /\ made \subseteq Convs /\ bound \in [Convs -> Projects \cup {None}]
  /\ url \in Convs \cup {None} /\ focus \in Projects \cup {None}
  /\ projects \subseteq Projects
  /\ DOMAIN list \subseteq Convs /\ held \in 0 .. Len(streams) /\ pending \in BOOLEAN
  /\ harmed \cup orphaned \subseteq Convs

\* While the input is closed there is a stream the stop button reaches, and any other
\* stream that still writes was let go of by a resume (abortRef, pending).
OneStreamIsHeld ==
  /\ pending <=> held # 0
  /\ held # 0 => held \in Running
  /\ \A s \in Running \ {held} : streams[s].conv \in orphaned

\* Unless a stream was let go of while it ran, nothing is shown twice, and a
\* conversation without a stream or a load shows what is stored of it, each message and
\* round in its place, unless it was damaged: by a load that read before a turn began or
\* ended, a stream stopped, aborted or broken off with events to come, a message that a
\* reconnection submitted again, one that was refused or sent before the load, an edit,
\* or an archive whose answer puts an older list back or takes a conversation off that
\* it passed over (ensureLoaded, maybeAutoResumeReplay,
\* sendMessage, editMessage, deleteActive, archiveProject).
ShownIsStored ==
  \A c \in DOMAIN list \ orphaned :
    /\ IsInjective(Shown(c))
    /\ /\ c \in alive /\ list[c].loaded /\ ~ Live(c) /\ ~ Loading(c) /\ c \notin harmed
       /\ \A s \in Running : streams[s].conv = c =>
            streams[s].served /\ Behind(c, streams[s].turn, streams[s].n) = {}
       => Shown(c) = Stored(c)

\* The list is that of the server once its requests are answered, unless one of them
\* was answered behind a change it had not seen (the opening's list, deleteActive), or a
\* change was told to have failed; and only a conversation made here that was in the
\* answer of the page's opening before its own creation was answered is listed twice.
ListIsComplete ==
  /\ listing.st = "answered" /\ creates = {} /\ hide.st = "none" /\ ~ swept =>
       DOMAIN list = alive
  /\ \A c \in DOMAIN twice : listing.st = "answered" /\ c \in listing.got \cap Fresh
=============================================================================
