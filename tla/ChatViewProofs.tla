---------------------------- MODULE ChatViewProofs ----------------------------
(***************************************************************************)
(* Proofs about ChatView, for any conversations and projects and for every  *)
(* bound.                                                                   *)
(***************************************************************************)
EXTENDS ChatView, SequenceTheorems, WellFoundedInduction, TLAPS

TurnRecords == [id : Nat, out : Nat, asks : BOOLEAN, end : {"live", "silent", "done"}]
LoadRecords ==
  [conv : Convs, st : {"asked"}] \cup [conv : Convs, st : {"read"}, rows : Seq(TurnRecords)]
    \cup [conv : Convs, st : {"checked"}, rows : Seq(TurnRecords), flying : BOOLEAN]
Means == {"message", "edit", "resume"}
Posted ==
  [conv : Convs, msg : Nat, by : Means, served : {FALSE}, state : {"open", "over"}, turn : {0},
   n : {0}, heard : {FALSE}]
Reading ==
  [conv : Convs, by : Means, served : {TRUE}, state : {"open"}, turn : Nat, n : Nat,
   heard : BOOLEAN]
StreamRecords == Posted \cup Reading \cup {Over}
ListingRecords ==
  [st : {"asked", "failed"}] \cup [st : {"read", "answered"}, got : SUBSET Convs]
CreateRecords == [id : Nat, focus : Projects \cup {None}, conv : Convs \cup {None}]

\* An archive request as the click left it.
IsDelete(h) ==
  /\ h.kind = "delete"
  /\ h = [st |-> h.st, kind |-> "delete", targets |-> h.targets, was |-> h.was,
          second |-> h.second]
IsArchive(h) ==
  /\ h.kind = "project"
  /\ h = [st |-> h.st, kind |-> "project", targets |-> h.targets, of |-> h.of, leave |-> h.leave]

ServerFits ==
  /\ made \subseteq Convs /\ alive \subseteq made
  /\ bound \in [Convs -> Projects \cup {None}] /\ log \in [Convs -> Seq(TurnRecords)]
ViewFits ==
  /\ url \in Convs \cup {None} /\ focus \in Projects \cup {None} /\ projects \subseteq Projects
  /\ DOMAIN list \subseteq made /\ loads \in Seq(LoadRecords)
ChannelFits ==
  /\ streams \in Seq(StreamRecords) /\ held \in 0 .. Len(streams) /\ pending \in BOOLEAN
RequestsFit ==
  /\ listing \in ListingRecords /\ creates \subseteq CreateRecords
  /\ hide = NoHide
     \/ /\ hide.st \in {"asked", "served"} /\ hide.targets \subseteq made
        /\ \/ IsDelete(hide) /\ DOMAIN hide.was \subseteq made
           \/ IsArchive(hide)
CountsFit ==
  /\ acts \in Nat
  /\ harmed \subseteq Convs /\ orphaned \subseteq Convs /\ swept \in BOOLEAN

\* What the stop button does not reach was let go of.
HoldFits ==
  /\ pending <=> held # 0
  /\ held # 0 => held \in Running
  /\ \A s \in Running \ {held} : streams[s].conv \in orphaned

\* Conversations made and not yet in the list; those archived and still in it.
Coming == {r.conv : r \in creates} \ {None}
Going  == IF hide.st = "served" THEN hide.targets ELSE {}

\* What the list has, and the answer of the page's opening will have, is the server's.
ListFits ==
  /\ Coming \subseteq made
  /\ hide.st = "served" /\ hide.kind = "delete" => hide.targets \cap alive = {}
  /\ listing.st = "read" =>
       (swept \/ alive \subseteq listing.got \cup DOMAIN list \cup Coming)
       /\ listing.got \subseteq made
  /\ listing.st = "answered" /\ ~ swept =>
       alive \subseteq DOMAIN list \cup Coming /\ DOMAIN list \subseteq alive \cup Going

\* The list had the conversations of S from the page's opening before their creation was
\* answered.
Doubled(S) == \A c \in S : listing.st = "answered" /\ c \in listing.got \cap Fresh

\* What is listed twice, or will be.
TwiceFits ==
  /\ Coming \subseteq Fresh
  /\ \A r, q \in creates : r.conv = q.conv /\ r.conv # None => r = q
  /\ Doubled(DOMAIN twice) /\ Doubled(Coming \cap DOMAIN list)
  /\ hide # NoHide /\ hide.kind = "delete" =>
       Doubled(DOMAIN hide.second) /\ Doubled(Coming \cap DOMAIN hide.was)

IInv == /\ ServerFits /\ ViewFits /\ ChannelFits /\ RequestsFit /\ CountsFit
        /\ HoldFits /\ ListFits


\* What the bubbles of a conversation say, and what its turns do.
Got(ms)      == FlattenSeq([i \in DOMAIN ms |-> ms[i].got])
ItemsOf(ts)  == FlattenSeq([i \in DOMAIN ts |-> TurnItems(ts[i])])
LiveIn(ts)   == ts # <<>> /\ Last(ts).end = "live"

Items        == Nat \X Nat
Bubbles      == [got : Seq(Items), key : Nat]
EntryRecords == [msgs : Seq(Bubbles), loaded : BOOLEAN, proj : Projects \cup {None}]

\* The turns rs some steps later: only the last of them has had more rounds, and it is not
\* live again.
Grown(rs, ts) ==
  /\ Len(rs) <= Len(ts) /\ (LiveIn(ts) => LiveIn(rs) \/ Len(ts) > Len(rs))
  /\ \A j \in DOMAIN rs :
       /\ rs[j].id = ts[j].id /\ rs[j].out <= ts[j].out
       /\ j < Len(rs) => rs[j].out = ts[j].out

\* The rounds of the last turn from round n on; an item of the turns up to there.
Ahead(ts, n) == [i \in 1 .. Last(ts).out + 1 - n |-> <<Last(ts).id, n - 1 + i>>]
Told(x, ts, k, n) == \E j \in DOMAIN ts : ts[j].id = x[1] /\ (j < k \/ (j = k /\ x[2] < n))

\* The entry of a conversation whose turns are ts, with k streams and a acts so far.
EntryFits(e, ts, k, a) ==
  /\ e \in EntryRecords /\ \A i \in DOMAIN e.msgs : e.msgs[i].key <= k
  /\ \A x \in Range(Got(e.msgs)) :
       x[1] <= a /\ (x[2] # 0 => \E j \in DOMAIN ts : ts[j].id = x[1])

\* The bubble of stream h, which r tells of, is the last, and nothing is shown that r
\* has yet to receive.
BubbleFits(ms, ts, h, r) ==
  \A i \in DOMAIN ms : ms[i].key = h =>
    /\ i = Len(ms)
    /\ r.served => \A x \in Range(Got(ms)) : x[2] # 0 => Told(x, ts, r.turn, r.n)

\* The held stream is c's; stream s is under way, or its request is.
Holds(c)    == held # 0 /\ streams[held].conv = c
Waits(s, c) ==
  /\ streams[s].state = "open" \/ ~ streams[s].served
  /\ streams[s].conv = c

FitsFor(e, c) ==
  c \notin orphaned =>
    /\ EntryFits(e, log[c], Len(streams), acts) /\ IsInjective(Got(e.msgs))
    /\ Holds(c) => BubbleFits(e.msgs, log[c], held, streams[held])

\* The list, and the one a click on delete remembers.
EntriesFit(l) == l = [c \in DOMAIN l |-> l[c]] /\ \A c \in DOMAIN l : FitsFor(l[c], c)
Remembers     == hide # NoHide /\ hide.kind = "delete"
EntryListsFit == EntriesFit(list) /\ (Remembers => EntriesFit(hide.was))

\* Every message has an id of its own.
Unserved == {s \in DOMAIN streams : ~ streams[s].served}
LogIdsFit ==
  \A c \in Convs : \A j \in DOMAIN log[c] :
    /\ log[c][j].id <= acts /\ log[c][j].out <= MaxRounds
    /\ \A k \in DOMAIN log[c] : log[c][j].id = log[c][k].id => j = k
    /\ \A s \in Unserved : log[c][j].id # streams[s].msg
    /\ \A r \in creates : log[c][j].id # r.id
SentIdsFit ==
  \A s \in Unserved :
    /\ streams[s].msg <= acts
    /\ \A t \in Unserved : streams[s].msg = streams[t].msg => s = t
    /\ \A r \in creates : streams[s].msg # r.id
DraftIdsFit == \A r \in creates : r.id <= acts /\ \A q \in creates : r.id = q.id => r = q
IdsFit == LogIdsFit /\ SentIdsFit /\ DraftIdsFit

\* Rows that were read are the turns as they were, and so is what was found in flight.
Seen(r, ts) ==
  /\ r.st # "asked" => Grown(r.rows, ts)
  /\ r.st = "checked" => IF r.flying THEN ts # <<>>
                         ELSE LiveIn(ts) => Len(ts) > Len(r.rows)
RowsFit ==
  \A i \in DOMAIN loads : loads[i].conv \in made /\ Seen(loads[i], log[loads[i].conv])

\* A conversation that is not made has no turns, and nothing is sent to it.
MadeFits ==
  /\ url \in made \cup {None}
  /\ \A c \in Convs \ made : log[c] = <<>> /\ \A s \in DOMAIN streams : ~ Waits(s, c)

\* What is shown of turns that nothing writes about, ...
Even(ms, ts) == ~ LiveIn(ts) /\ Got(ms) = ItemsOf(ts)
\* ... of turns to which the message of stream h, which r tells of, is to be added, ...
Sent(ms, ts, h, r) ==
  /\ ms # <<>> /\ Last(ms) = Bubble(h) /\ ~ LiveIn(ts)
  /\ Got(ms) = Append(ItemsOf(ts), <<r.msg, 0>>)
\* ... of turns whose last is told by r as it goes on, ...
Followed(ms, ts, h, r) ==
  ms # <<>> /\ Last(ms).key = h /\ Got(ms) \o Ahead(ts, r.n) = ItemsOf(ts)
\* ... or of turns that were loaded while r still told of the last.
Aside(ms, ts, h) == Even(ms, ts) /\ \A i \in DOMAIN ms : ms[i].key # h

StreamFits(c) ==
  LET r == streams[held]
  IN  IF r.served
      THEN log[c] # <<>> /\ r.turn = Len(log[c]) /\ r.n \in 1 .. Last(log[c]).out + 1
      ELSE c \in DOMAIN list /\ list[c].loaded /\ ~ Loading(c)
EntryShows(c) ==
  LET ms == list[c].msgs
      r  == streams[held]
  IN  IF ~ Holds(c) THEN Even(ms, log[c])
      ELSE IF r.served THEN Followed(ms, log[c], held, r) \/ Aside(ms, log[c], held)
      ELSE Sent(ms, log[c], held, r)
Untouched(c) ==
  \/ c \in DOMAIN list /\ list[c].msgs # <<>>
  \/ log[c] = <<>> /\ \A s \in DOMAIN streams : ~ Waits(s, c)

\* A conversation no race has damaged: its stream is the held one, what is shown of it
\* lacks what that one has yet to bring, and a draft's message finds it as it was made.
WholeFits(c) ==
  /\ \A s \in DOMAIN streams : Waits(s, c) => s = held
  /\ Holds(c) => StreamFits(c)
  /\ c \in DOMAIN list /\ list[c].loaded => EntryShows(c)
  /\ \A r \in creates : r.conv = c => Untouched(c)
ShownFits == \A c \in alive \ (harmed \cup orphaned) : WholeFits(c)

ShownInv == EntryListsFit /\ IdsFit /\ RowsFit /\ MadeFits /\ ShownFits
-----------------------------------------------------------------------------
(* Sequences and records. *)

\* A set of numbers has a least one.
LEMMA LeastNumber ==
  ASSUME NEW T, T \subseteq Nat, T # {}
  PROVE  \E x \in T : \A y \in T : x <= y
<1> DEFINE R == OpToRel(<, Nat)
<1>1. IsWellFoundedOn(R, Nat)  BY NatLessThanWellFounded
<1>2. \A x, y \in Nat : <<y, x>> \notin R => x <= y
  BY DEF OpToRel
<1>3. \E x \in T : \A y \in T : ~ (<<y, x>> \in R)
  <2> HIDE DEF R
  <2> QED  BY <1>1, WFMin
<1> QED  BY <1>2, <1>3

\* One element more.
LEMMA AppendFits ==
  ASSUME NEW S, NEW s \in Seq(S), NEW e \in S
  PROVE  /\ Append(s, e) \in Seq(S) /\ Len(Append(s, e)) = Len(s) + 1
         /\ Append(s, e)[Len(s) + 1] = e /\ \A i \in 1 .. Len(s) : Append(s, e)[i] = s[i]
OBVIOUS

\* One element less.
LEMMA RemoveFits ==
  ASSUME NEW S, NEW s \in Seq(S), NEW i \in 1 .. Len(s)
  PROVE  RemoveAt(s, i) \in Seq(S)
<1>1. \A k \in 1 .. Len(s) : s[k] \in S  OBVIOUS
<1>2. SubSeq(s, 1, i - 1) \in Seq(S)
  <2>1. 1 \in Int /\ i - 1 \in Int /\ \A k \in 1 .. i - 1 : s[k] \in S  BY <1>1
  <2> QED  BY <2>1, SubSeqProperties
<1>3. SubSeq(s, i + 1, Len(s)) \in Seq(S)
  <2>1. i + 1 \in Int /\ Len(s) \in Int /\ \A k \in i + 1 .. Len(s) : s[k] \in S  BY <1>1
  <2> QED  BY <2>1, SubSeqProperties
<1> QED  BY <1>2, <1>3, ConcatProperties DEF RemoveAt

\* One element changed.
LEMMA ReplaceFits ==
  ASSUME NEW S, NEW s \in Seq(S), NEW i \in 1 .. Len(s), NEW e \in S
  PROVE  /\ [s EXCEPT ![i] = e] \in Seq(S) /\ Len([s EXCEPT ![i] = e]) = Len(s)
         /\ [s EXCEPT ![i] = e][i] = e
         /\ \A j \in 1 .. Len(s) : j # i => [s EXCEPT ![i] = e][j] = s[j]
OBVIOUS

\* The last element changed.
LEMMA LastFits ==
  ASSUME NEW S, NEW s \in Seq(S), s # <<>>
  PROVE  /\ Last(s) \in S /\ Front(s) \in Seq(S)
         /\ \A e \in S : Append(Front(s), e) \in Seq(S)
<1>1. Len(s) \in Nat /\ Len(s) # 0 /\ \A k \in 1 .. Len(s) : s[k] \in S  OBVIOUS
<1>2. Last(s) \in S  BY <1>1 DEF Last
<1>3. Front(s) \in Seq(S)
  <2>1. 1 \in Int /\ Len(s) - 1 \in Int /\ \A k \in 1 .. Len(s) - 1 : s[k] \in S  BY <1>1
  <2> QED  BY <2>1, SubSeqProperties DEF Front
<1> QED  BY <1>2, <1>3, AppendFits

\* What a stream's record has.
LEMMA StreamFields ==
  ASSUME NEW r \in StreamRecords
  PROVE  /\ r.state \in {"open", "over"} /\ r.served \in BOOLEAN
         /\ r.state = "open" \/ ~ r.served => r.conv \in Convs
         /\ ~ r.served => r \in Posted
         /\ r.served /\ r.state = "open" => r \in Reading
<1>1. CASE r \in Posted  BY <1>1 DEF Posted
<1>2. CASE r \in Reading
  <2>1. r.conv \in Convs /\ r.state = "open" /\ r.served = TRUE  BY <1>2 DEF Reading
  <2> QED  BY <1>2, <2>1
<1>3. CASE r = Over
  <2>1. r.state = "over" /\ r.served = TRUE  BY <1>3 DEF Over
  <2> QED  BY <2>1
<1> QED  BY <1>1, <1>2, <1>3 DEF StreamRecords

\* A stream's number is its place.
LEMMA StreamNumbers ==
  ASSUME ChannelFits
  PROVE  /\ DOMAIN streams = 1 .. Len(streams) /\ Len(streams) \in Nat
         /\ \A s \in 1 .. Len(streams) : streams[s] \in StreamRecords
         /\ Running = {s \in 1 .. Len(streams) : streams[s].state = "open"}
BY DEF ChannelFits, Running

\* The conversation a request loads, when it is asked for and when it is read.
LEMMA LoadFields ==
  ASSUME NEW r \in LoadRecords
  PROVE  /\ r.conv \in Convs /\ r.st \in {"asked", "read", "checked"}
         /\ r.st # "asked" => r.rows \in Seq(TurnRecords)
         /\ r.st = "checked" => r.flying \in BOOLEAN
BY DEF LoadRecords

\* The effect on the address adds a request at most.
LEMMA LoadsFit ==
  ASSUME NEW l, NEW u, NEW q \in Seq(LoadRecords), DOMAIN l \subseteq Convs
  PROVE  LoadsAfter(l, u, q) \in Seq(LoadRecords)
<1>1. CASE u \in DOMAIN l
  <2>1. [conv |-> u, st |-> "asked"] \in LoadRecords  BY <1>1 DEF LoadRecords
  <2> QED  BY <2>1, AppendFits DEF LoadsAfter
<1>2. CASE u \notin DOMAIN l  BY <1>2 DEF LoadsAfter
<1> QED  BY <1>1, <1>2

\* Aborting the held stream ends it and leaves the others alone.
LEMMA AbortedFits ==
  ASSUME ChannelFits
  PROVE  /\ Aborted(streams) \in Seq(StreamRecords) /\ Len(Aborted(streams)) = Len(streams)
         /\ \A s \in 1 .. Len(streams) :
              /\ s # held => Aborted(streams)[s] = streams[s]
              /\ s = held => Aborted(streams)[s].state = "over"
<1>1. streams \in Seq(StreamRecords) /\ DOMAIN streams = 1 .. Len(streams)  BY DEF ChannelFits
<1>2. ASSUME NEW s \in 1 .. Len(streams)
      PROVE  /\ Aborted(streams)[s] \in StreamRecords
             /\ s # held => Aborted(streams)[s] = streams[s]
             /\ s = held => Aborted(streams)[s].state = "over"
  <2>1. streams[s] \in StreamRecords  BY <1>1
  <2>2. Aborted(streams)[s] =
          IF s # held THEN streams[s] ELSE IF streams[s].served THEN Over
          ELSE [streams[s] EXCEPT !.state = "over"]
    BY <1>1 DEF Aborted
  <2>3. CASE s = held /\ streams[s].served  BY <2>2, <2>3 DEF StreamRecords, Over
  <2>4. CASE s = held /\ ~ streams[s].served
    <3>1. streams[s] \in Posted  BY <2>1, <2>4, StreamFields
    <3>2. /\ [streams[s] EXCEPT !.state = "over"] \in Posted
          /\ [streams[s] EXCEPT !.state = "over"].state = "over"
      BY <3>1 DEF Posted
    <3> QED  BY <2>2, <2>4, <3>2 DEF StreamRecords
  <2> QED  BY <2>1, <2>2, <2>3, <2>4
<1>3. Aborted(streams) = [s \in 1 .. Len(streams) |-> Aborted(streams)[s]]
  BY <1>1 DEF Aborted
<1>4. Len(streams) \in Nat  BY <1>1
<1> QED  BY <1>2, <1>3, <1>4

\* Conversations whose stream is aborted are conversations.
LEMMA LossFits ==
  ASSUME ChannelFits
  PROVE  Loss \subseteq Convs /\ \A s \in DOMAIN streams : Cut(s) \subseteq Convs
BY StreamNumbers, StreamFields DEF Loss, Cut, Running

-----------------------------------------------------------------------------
(* What a step that leaves a part alone keeps of the invariant. *)

\* The streams as they were.
LEMMA ChannelStays ==
  ASSUME IInv, UNCHANGED channel, orphaned \subseteq orphaned'
  PROVE  ChannelFits' /\ HoldFits'
BY DEF IInv, ChannelFits, HoldFits, Running, channel

\* The list's conversations and the requests as they were.
LEMMA ListStays ==
  ASSUME IInv, UNCHANGED <<made, alive, requests, swept>>, DOMAIN list' = DOMAIN list
  PROVE  RequestsFit' /\ ListFits'
BY DEF IInv, RequestsFit, ListFits, Coming, Going, IsDelete, IsArchive, requests

\* An act or a fault is counted.
LEMMA CountsStay ==
  ASSUME IInv, UNCHANGED acts \/ Act, UNCHANGED <<orphaned, swept>>,
         harmed' \subseteq Convs
  PROVE  CountsFit'
BY DEF IInv, CountsFit, Act

\* Nothing happens.
LEMMA StutterStep ==
  ASSUME IInv, UNCHANGED vars
  PROVE  IInv'
<1>1. ChannelFits' /\ HoldFits'  BY ChannelStays DEF vars, channel, history
<1>2. RequestsFit' /\ ListFits'
  BY ListStays DEF vars, server, view, requests, history
<1>3. ServerFits' /\ ViewFits' /\ CountsFit'
  BY DEF IInv, ServerFits, ViewFits, CountsFit, vars, server, view, history
<1> QED  BY <1>1, <1>2, <1>3 DEF IInv

-----------------------------------------------------------------------------
(* The page opens and the user goes about. *)

\* What is read is all there is.
LEMMA ListReadStep ==
  ASSUME IInv, ListRead
  PROVE  IInv'
<1>1. ChannelFits' /\ HoldFits'  BY ChannelStays DEF ListRead, channel, history
<1>2. ServerFits' /\ ViewFits' /\ CountsFit'
  BY DEF IInv, ServerFits, ViewFits, CountsFit, ListRead, server, view, history
<1>3. listing' = [st |-> "read", got |-> alive] /\ listing'.st = "read" /\ listing'.got = alive
  BY DEF ListRead
<1>4. UNCHANGED <<made, alive, list, creates, hide, swept>>
  BY DEF ListRead, server, view, history
<1>5. alive \subseteq made /\ made \subseteq Convs  BY DEF IInv, ServerFits
<1>6. RequestsFit'
  <2>1. listing' \in ListingRecords  BY <1>3, <1>5 DEF ListingRecords
  <2> QED  BY <1>4, <2>1 DEF IInv, RequestsFit, IsDelete, IsArchive
<1>7. ListFits'  BY <1>3, <1>4, <1>5 DEF IInv, ListFits, Coming, Going
<1> QED  BY <1>1, <1>2, <1>6, <1>7 DEF IInv

\* What arrives is complete, unless it was answered behind a change.
LEMMA ListArrivesStep ==
  ASSUME IInv, ListArrives
  PROVE  IInv'
<1>1. /\ listing.st = "read" /\ listing' = [listing EXCEPT !.st = "answered"]
      /\ list' = [c \in listing.got |-> [msgs |-> <<>>, loaded |-> FALSE, proj |-> bound[c]]]
      /\ loads' = LoadsAfter(list', url, loads)
      /\ swept' = (swept \/ ~ (DOMAIN list \subseteq listing.got /\ listing.got \subseteq alive))
      /\ harmed' = harmed \cup {c \in DOMAIN list : list[c].msgs # <<>>}
      /\ UNCHANGED <<made, alive, bound, log, url, focus, projects, creates, hide, acts,
                     orphaned>>
      /\ UNCHANGED channel
  BY DEF ListArrives, server, channel
<1>2. /\ DOMAIN list' = listing.got
      /\ listing' \in ListingRecords /\ listing'.st = "answered"
  <2>1. listing \in [st : {"read", "answered"}, got : SUBSET Convs]
    BY <1>1 DEF IInv, RequestsFit, ListingRecords
  <2> QED  BY <1>1, <2>1 DEF ListingRecords
<1>3. listing.got \subseteq made /\ made \subseteq Convs /\ DOMAIN list \subseteq made
  BY <1>1 DEF IInv, ListFits, ServerFits, ViewFits
<1>4. ChannelFits' /\ HoldFits'  BY <1>1, ChannelStays
<1>5. ServerFits'  BY <1>1 DEF IInv, ServerFits
<1>6. ViewFits'
  <2>1. loads' \in Seq(LoadRecords)
    <3>1. loads \in Seq(LoadRecords)  BY DEF IInv, ViewFits
    <3> QED  BY <1>1, <1>2, <1>3, <3>1, LoadsFit
  <2> QED  BY <1>1, <1>2, <1>3, <2>1 DEF IInv, ViewFits
<1>7. CountsFit'  BY <1>1, <1>3 DEF IInv, CountsFit
<1>8. RequestsFit'  BY <1>1, <1>2 DEF IInv, RequestsFit, IsDelete, IsArchive
<1>9. ListFits'
  <2>1. Coming' = Coming /\ Going' = Going  BY <1>1 DEF Coming, Going
  <2> QED  BY <1>1, <1>2, <2>1 DEF IInv, ListFits
<1> QED  BY <1>4, <1>5, <1>6, <1>7, <1>8, <1>9 DEF IInv

\* The list is not shown.
LEMMA ListFailsStep ==
  ASSUME IInv, ListFails
  PROVE  IInv'
<1>1. /\ listing' = [st |-> "failed"] /\ Act
      /\ UNCHANGED <<made, alive, bound, log, url, focus, list, projects, loads, creates, hide,
                     harmed, orphaned, swept>>
      /\ UNCHANGED channel
  BY DEF ListFails, Fault, server, view, history
<1>2. ChannelFits' /\ HoldFits'  BY <1>1, ChannelStays
<1>3. ServerFits' /\ ViewFits' /\ CountsFit'
  BY <1>1 DEF IInv, ServerFits, ViewFits, CountsFit, Act
<1>4. RequestsFit'
  <2>1. listing' \in ListingRecords  BY <1>1 DEF ListingRecords
  <2> QED  BY <1>1, <2>1 DEF IInv, RequestsFit, IsDelete, IsArchive
<1>5. ListFits'
  <2>1. Coming' = Coming /\ listing'.st = "failed"  BY <1>1 DEF Coming
  <2> QED  BY <1>1, <2>1 DEF IInv, ListFits
<1> QED  BY <1>2, <1>3, <1>4, <1>5 DEF IInv

\* Another address.
LEMMA VisitStep ==
  ASSUME IInv, Visit
  PROVE  IInv'
<1>1. PICK to \in ((DOMAIN list) \X {None}) \cup ({None} \X (projects \cup {None})) :
        /\ url' = to[1] /\ focus' = to[2]
        /\ loads' = IF to[1] = url THEN loads ELSE LoadsAfter(list, to[1], loads)
  BY DEF Visit, Goes
<1>2. /\ Act /\ UNCHANGED <<list, projects, harmed, orphaned, swept>>
      /\ UNCHANGED server /\ UNCHANGED channel /\ UNCHANGED requests
  BY DEF Visit, history
<1>3. ChannelFits' /\ HoldFits'  BY <1>2, ChannelStays
<1>4. RequestsFit' /\ ListFits'  BY <1>2, ListStays DEF server
<1>5. ServerFits'  BY <1>2 DEF IInv, ServerFits, server
<1>6. CountsFit'
  <2>1. harmed \subseteq Convs  BY DEF IInv, CountsFit
  <2> QED  BY <1>2, <2>1, CountsStay
<1>7. ViewFits'
  <2>1. /\ DOMAIN list \subseteq Convs /\ loads \in Seq(LoadRecords) /\ projects \subseteq Projects
        /\ DOMAIN list \subseteq made
    BY DEF IInv, ServerFits, ViewFits
  <2>2. loads' \in Seq(LoadRecords)  BY <1>1, <2>1, LoadsFit
  <2>3. to[1] \in Convs \cup {None} /\ to[2] \in Projects \cup {None}  BY <1>1, <2>1
  <2> QED  BY <1>1, <1>2, <2>1, <2>2, <2>3 DEF ViewFits, server
<1> QED  BY <1>3, <1>4, <1>5, <1>6, <1>7 DEF IInv

-----------------------------------------------------------------------------
(* Loading a conversation. *)

\* A new stream is held; one that ran and is not held any more was let go of.
LEMMA ResumeStays ==
  ASSUME IInv, NEW r \in Reading, streams' = Append(streams, r), held' = Len(streams'),
         pending' = TRUE, orphaned' = orphaned \cup {streams[s].conv : s \in {held} \cap Running}
  PROVE  ChannelFits' /\ HoldFits'
<1> DEFINE n == Len(streams)
<1>1. streams \in Seq(StreamRecords) /\ r \in StreamRecords /\ r.state = "open" /\ n \in Nat
  <2>1. streams \in Seq(StreamRecords) /\ n \in Nat  BY DEF IInv, ChannelFits
  <2>2. r \in StreamRecords  BY DEF StreamRecords
  <2>3. r.state = "open"  BY DEF Reading
  <2> QED  BY <2>1, <2>2, <2>3
<1>2. /\ streams' \in Seq(StreamRecords) /\ Len(streams') = n + 1
      /\ streams'[n + 1] = r /\ \A i \in 1 .. n : streams'[i] = streams[i]
  BY <1>1, AppendFits
<1>3. ChannelFits'  BY <1>1, <1>2 DEF ChannelFits
<1>4. ChannelFits  BY DEF IInv
<1>5. /\ Running = {s \in 1 .. n : streams[s].state = "open"}
      /\ Running' = {s \in 1 .. n + 1 : streams'[s].state = "open"}
  BY <1>2, <1>3, <1>4, StreamNumbers DEF Running, ChannelFits
<1>6. held' = n + 1 /\ held' # 0 /\ held' \in Running'  BY <1>1, <1>2, <1>5
<1>7. ASSUME NEW s \in Running' \ {held'} PROVE streams'[s].conv \in orphaned'
  <2>1. s \in 1 .. n /\ streams'[s] = streams[s] /\ s \in Running
    BY <1>1, <1>2, <1>5, <1>6, <1>7
  <2> QED  BY <2>1 DEF IInv, HoldFits
<1> QED  BY <1>3, <1>6, <1>7 DEF HoldFits

\* The rows are those of the log.
LEMMA LoadReadStep ==
  ASSUME IInv, NEW i \in DOMAIN loads, LoadRead(i)
  PROVE  IInv'
<1> DEFINE r == [conv |-> loads[i].conv, st |-> "read", rows |-> log[loads[i].conv]]
<1>1. /\ loads' = [loads EXCEPT ![i] = r]
      /\ UNCHANGED <<url, focus, list, projects, swept, orphaned, harmed, acts>>
      /\ UNCHANGED server /\ UNCHANGED channel /\ UNCHANGED requests
  BY DEF LoadRead, history
<1>2. loads \in Seq(LoadRecords) /\ i \in 1 .. Len(loads) /\ loads[i] \in LoadRecords
  BY DEF IInv, ViewFits
<1>3. r \in LoadRecords
  <2>1. loads[i].conv \in Convs  BY <1>2, LoadFields
  <2>2. log[loads[i].conv] \in Seq(TurnRecords)  BY <2>1 DEF IInv, ServerFits
  <2> QED  BY <2>1, <2>2 DEF LoadRecords
<1>4. loads' \in Seq(LoadRecords)
  <2> HIDE DEF r
  <2> QED  BY <1>1, <1>2, <1>3, ReplaceFits
<1>5. ChannelFits' /\ HoldFits'  BY <1>1, ChannelStays
<1>6. RequestsFit' /\ ListFits'  BY <1>1, ListStays DEF server
<1>7. ServerFits' /\ CountsFit'  BY <1>1 DEF IInv, ServerFits, CountsFit, server
<1>8. ViewFits'  BY <1>1, <1>4 DEF IInv, ViewFits, server
<1> QED  BY <1>5, <1>6, <1>7, <1>8 DEF IInv

\* The rows stay.
LEMMA LoadCheckedStep ==
  ASSUME IInv, NEW i \in DOMAIN loads, LoadChecked(i)
  PROVE  IInv'
<1> DEFINE r == [conv |-> loads[i].conv, st |-> "checked", rows |-> loads[i].rows,
                 flying |-> Live(loads[i].conv)]
<1>1. /\ loads[i].st = "read" /\ loads' = [loads EXCEPT ![i] = r]
      /\ UNCHANGED <<url, focus, list, projects, swept, orphaned, harmed, acts>>
      /\ UNCHANGED server /\ UNCHANGED channel /\ UNCHANGED requests
  BY DEF LoadChecked, history
<1>2. loads \in Seq(LoadRecords) /\ i \in 1 .. Len(loads) /\ loads[i] \in LoadRecords
  BY DEF IInv, ViewFits
<1>3. r \in LoadRecords
  <2>1. loads[i].conv \in Convs /\ loads[i].rows \in Seq(TurnRecords)
    BY <1>1, <1>2, LoadFields
  <2>2. Live(loads[i].conv) \in BOOLEAN  BY DEF Live
  <2> HIDE DEF Live
  <2> QED  BY <2>1, <2>2 DEF LoadRecords
<1>4. loads' \in Seq(LoadRecords)
  <2> HIDE DEF r
  <2> QED  BY <1>1, <1>2, <1>3, ReplaceFits
<1>5. ChannelFits' /\ HoldFits'  BY <1>1, ChannelStays
<1>6. RequestsFit' /\ ListFits'  BY <1>1, ListStays DEF server
<1>7. ServerFits' /\ CountsFit'  BY <1>1 DEF IInv, ServerFits, CountsFit, server
<1>8. ViewFits'  BY <1>1, <1>4 DEF IInv, ViewFits, server
<1> QED  BY <1>5, <1>6, <1>7, <1>8 DEF IInv

\* A request less.
LEMMA LoadFailsStep ==
  ASSUME IInv, NEW i \in DOMAIN loads, LoadFails(i)
  PROVE  IInv'
<1>1. /\ loads' = RemoveAt(loads, i) /\ (UNCHANGED acts \/ Act)
      /\ UNCHANGED <<url, focus, list, projects, swept, orphaned, harmed>>
      /\ UNCHANGED server /\ UNCHANGED channel /\ UNCHANGED requests
  BY DEF LoadFails, Fault, history
<1>2. loads \in Seq(LoadRecords) /\ i \in 1 .. Len(loads)  BY DEF IInv, ViewFits
<1>3. loads' \in Seq(LoadRecords)  BY <1>1, <1>2, RemoveFits
<1>4. ChannelFits' /\ HoldFits'  BY <1>1, ChannelStays
<1>5. RequestsFit' /\ ListFits'  BY <1>1, ListStays DEF server
<1>6. CountsFit'
  <2>1. harmed \subseteq Convs  BY DEF IInv, CountsFit
  <2> QED  BY <1>1, <2>1, CountsStay
<1>7. ServerFits' /\ ViewFits'  BY <1>1, <1>3 DEF IInv, ServerFits, ViewFits, server
<1> QED  BY <1>4, <1>5, <1>6, <1>7 DEF IInv

\* With a turn in flight the stream for the rest of it takes the place of the one held.
LEMMA LoadArrivesStep ==
  ASSUME IInv, NEW i \in DOMAIN loads, LoadArrives(i)
  PROVE  IInv'
<1> DEFINE r == loads[i]
           c == r.conv
           n == Len(r.rows)
           s == [conv |-> c, by |-> "resume", served |-> TRUE, state |-> "open", heard |-> FALSE,
                 turn |-> IF n = 0 THEN 1 ELSE n,
                 n |-> IF n = 0 THEN 1 ELSE r.rows[n].out + 1]
<1>1. loads[i] \in LoadRecords /\ loads \in Seq(LoadRecords) /\ i \in 1 .. Len(loads)
  BY DEF IInv, ViewFits
<1>2. r.st = "checked" /\ c \in Convs /\ r.rows \in Seq(TurnRecords)
  BY <1>1, LoadFields DEF LoadArrives
<1>3. /\ DOMAIN list' = DOMAIN list
      /\ loads' = LoadsAfter(list', url, RemoveAt(loads, i))
      /\ harmed' \subseteq harmed \cup {c}
      /\ UNCHANGED <<url, focus, projects, acts, swept>>
      /\ UNCHANGED server /\ UNCHANGED requests
  BY DEF LoadArrives
<1>4. \/ /\ streams' = Append(streams, s) /\ held' = Len(streams') /\ pending' = TRUE
         /\ orphaned' = orphaned \cup {streams[x].conv : x \in {held} \cap Running}
      \/ UNCHANGED channel /\ orphaned' = orphaned
  BY DEF LoadArrives
<1>5. s \in Reading
  <2>1. n \in Nat /\ (n # 0 => r.rows[n] \in TurnRecords)  BY <1>2
  <2>2. n # 0 => r.rows[n].out \in Nat  BY <2>1 DEF TurnRecords
  <2> DEFINE k == IF n = 0 THEN 1 ELSE n
             m == IF n = 0 THEN 1 ELSE r.rows[n].out + 1
  <2>3. k \in Nat /\ m \in Nat  BY <2>1, <2>2
  <2> HIDE DEF k, m
  <2>4. [conv |-> c, by |-> "resume", served |-> TRUE, state |-> "open", heard |-> FALSE,
         turn |-> k, n |-> m] \in Reading
    BY <1>2, <2>3 DEF Reading, Means
  <2> QED  BY <2>4 DEF k, m
<1> HIDE DEF s
<1>6. ChannelFits' /\ HoldFits'
  <2>1. ASSUME streams' = Append(streams, s), held' = Len(streams'), pending' = TRUE,
               orphaned' = orphaned \cup {streams[x].conv : x \in {held} \cap Running}
        PROVE  ChannelFits' /\ HoldFits'
    BY <1>5, <2>1, ResumeStays
  <2>2. ASSUME UNCHANGED channel, orphaned' = orphaned  PROVE ChannelFits' /\ HoldFits'
    BY <2>2, ChannelStays
  <2> QED  BY <1>4, <2>1, <2>2
<1>7. RequestsFit' /\ ListFits'  BY <1>3, ListStays DEF server
<1>8. ServerFits'  BY <1>3 DEF IInv, ServerFits, server
<1>9. CountsFit'
  <2>1. {streams[x].conv : x \in {held} \cap Running} \subseteq Convs
    BY StreamNumbers, StreamFields DEF IInv
  <2>2. orphaned' \subseteq Convs  BY <1>4, <2>1 DEF IInv, CountsFit
  <2> QED  BY <1>2, <1>3, <2>2 DEF IInv, CountsFit
<1>10. ViewFits'
  <2>1. RemoveAt(loads, i) \in Seq(LoadRecords)  BY <1>1, RemoveFits
  <2>2. DOMAIN list' \subseteq made /\ made \subseteq Convs
    BY <1>3 DEF IInv, ViewFits, ServerFits
  <2>3. loads' \in Seq(LoadRecords)  BY <1>3, <2>1, <2>2, LoadsFit
  <2> QED  BY <1>3, <2>2, <2>3 DEF IInv, ViewFits, server
<1> QED  BY <1>6, <1>7, <1>8, <1>9, <1>10 DEF IInv

-----------------------------------------------------------------------------
(* Sending. *)

\* A message asked for, in place of the stream held.
LEMMA PostStays ==
  ASSUME IInv, NEW r \in Posted, r.state = "open", streams' = Append(Aborted(streams), r),
         held' = Len(streams'), pending' = TRUE, orphaned' = orphaned
  PROVE  ChannelFits' /\ HoldFits'
<1> DEFINE n == Len(streams)
<1>1. r \in StreamRecords /\ ChannelFits /\ n \in Nat
  BY DEF IInv, ChannelFits, StreamRecords
<1>2. /\ Aborted(streams) \in Seq(StreamRecords) /\ Len(Aborted(streams)) = n
      /\ \A s \in 1 .. n : /\ s # held => Aborted(streams)[s] = streams[s]
                           /\ s = held => Aborted(streams)[s].state = "over"
  BY <1>1, AbortedFits
<1>3. /\ streams' \in Seq(StreamRecords) /\ Len(streams') = n + 1
      /\ streams'[n + 1] = r /\ \A i \in 1 .. n : streams'[i] = Aborted(streams)[i]
  BY <1>1, <1>2, AppendFits
<1>4. ChannelFits'  BY <1>1, <1>3 DEF ChannelFits
<1>5. /\ Running = {s \in 1 .. n : streams[s].state = "open"}
      /\ Running' = {s \in 1 .. n + 1 : streams'[s].state = "open"}
  BY <1>1, <1>3, <1>4, StreamNumbers DEF Running, ChannelFits
<1>6. held' = n + 1 /\ held' # 0 /\ held' \in Running'  BY <1>1, <1>3, <1>5
<1>7. ASSUME NEW s \in Running' \ {held'} PROVE streams'[s].conv \in orphaned'
  <2>1. s \in 1 .. n /\ streams'[s] = Aborted(streams)[s] /\ streams'[s].state = "open"
    BY <1>1, <1>3, <1>5, <1>6, <1>7
  <2>2. s # held  BY <1>2, <2>1
  <2>3. streams'[s] = streams[s] /\ s \in Running \ {held}  BY <1>2, <1>5, <2>1, <2>2
  <2> QED  BY <2>3 DEF IInv, HoldFits
<1> QED  BY <1>4, <1>6, <1>7 DEF HoldFits

\* So the stream of a message sent to a conversation.
LEMMA PostIs ==
  ASSUME IInv, NEW c \in Convs, NEW by \in Means, NEW harm, harm \subseteq Convs, Act,
         Post(c, by, harm), UNCHANGED <<orphaned, swept>>
  PROVE  ChannelFits' /\ HoldFits' /\ CountsFit'
<1> DEFINE r == [conv |-> c, msg |-> acts', by |-> by, served |-> FALSE,
                 state |-> "open", turn |-> 0, n |-> 0, heard |-> FALSE]
<1>1. acts' \in Nat  BY DEF IInv, CountsFit, Act
<1>2. r \in Posted /\ r.state = "open"  BY <1>1 DEF Posted
<1>3. streams' = Append(Aborted(streams), r) /\ held' = Len(streams') /\ pending' = TRUE
      /\ harmed' = harmed \cup Loss \cup harm
  BY DEF Post, NewId, Act
<1> HIDE DEF r
<1>4. ChannelFits' /\ HoldFits'  BY <1>2, <1>3, PostStays
<1>5. Loss \subseteq Convs  BY LossFits DEF IInv
<1>6. CountsFit'  BY <1>1, <1>3, <1>5 DEF IInv, CountsFit
<1> QED  BY <1>4, <1>6

\* A message in a conversation.
LEMMA SendStep ==
  ASSUME IInv, Send
  PROVE  IInv'
<1>1. /\ url # None /\ DOMAIN list' = DOMAIN list
      /\ loads' = LoadsAfter(list', url, loads)
      /\ UNCHANGED <<url, focus, projects, orphaned, swept>>
      /\ UNCHANGED server /\ UNCHANGED requests /\ Act
  BY DEF Send, Said
<1>2. PICK harm \in SUBSET {url} : Post(url, "message", harm)  BY DEF Send
<1>3. url \in Convs  BY <1>1 DEF IInv, ViewFits
<1>4. ChannelFits' /\ HoldFits' /\ CountsFit'
  <2>1. harm \subseteq Convs /\ "message" \in Means  BY <1>2, <1>3 DEF Means
  <2> QED  BY <1>1, <1>2, <1>3, <2>1, PostIs
<1>5. RequestsFit' /\ ListFits'  BY <1>1, ListStays DEF server
<1>6. ServerFits'  BY <1>1 DEF IInv, ServerFits, server
<1>7. ViewFits'
  <2>1. DOMAIN list' \subseteq made /\ made \subseteq Convs /\ loads \in Seq(LoadRecords)
    BY <1>1 DEF IInv, ViewFits, ServerFits
  <2>2. loads' \in Seq(LoadRecords)  BY <1>1, <2>1, LoadsFit
  <2> QED  BY <1>1, <2>1, <2>2 DEF IInv, ViewFits, server
<1> QED  BY <1>4, <1>5, <1>6, <1>7 DEF IInv

\* Another last message.
LEMMA EditStep ==
  ASSUME IInv, Edit
  PROVE  IInv'
<1>1. /\ url \in DOMAIN list /\ DOMAIN list' = DOMAIN list
      /\ loads' = LoadsAfter(list', url, loads)
      /\ UNCHANGED <<url, focus, projects, orphaned, swept>>
      /\ UNCHANGED server /\ UNCHANGED requests /\ Act /\ Post(url, "edit", {url})
  BY DEF Edit
<1>2. DOMAIN list' \subseteq made /\ made \subseteq Convs /\ loads \in Seq(LoadRecords)
  BY <1>1 DEF IInv, ViewFits, ServerFits
<1>3. url \in Convs /\ {url} \subseteq Convs /\ "edit" \in Means  BY <1>1, <1>2 DEF Means
<1>4. ChannelFits' /\ HoldFits' /\ CountsFit'  BY <1>1, <1>3, PostIs
<1>5. RequestsFit' /\ ListFits'  BY <1>1, ListStays DEF server
<1>6. ServerFits'  BY <1>1 DEF IInv, ServerFits, server
<1>7. ViewFits'
  <2>1. loads' \in Seq(LoadRecords)  BY <1>1, <1>2, LoadsFit
  <2> QED  BY <1>1, <1>2, <2>1 DEF IInv, ViewFits, server
<1> QED  BY <1>4, <1>5, <1>6, <1>7 DEF IInv

\* What a conversation being made has.
LEMMA CreateFields ==
  ASSUME IInv, NEW r \in creates
  PROVE  r.id \in Nat /\ r.focus \in Projects \cup {None} /\ r.conv \in Convs \cup {None}
         /\ (r.conv # None => r.conv \in made)
         /\ r = [id |-> r.id, focus |-> r.focus, conv |-> r.conv]
<1>1. r \in CreateRecords  BY DEF IInv, RequestsFit
<1>2. r.conv # None => r.conv \in Coming  BY DEF Coming
<1>3. Coming \subseteq made  BY DEF IInv, ListFits
<1> QED  BY <1>1, <1>2, <1>3 DEF CreateRecords

\* A conversation is asked for.
LEMMA SendDraftStep ==
  ASSUME IInv, SendDraft
  PROVE  IInv'
<1> DEFINE r == [id |-> acts', focus |-> focus, conv |-> None]
<1>1. /\ creates' = creates \cup {r} /\ Act
      /\ UNCHANGED <<listing, hide, harmed, orphaned, swept>>
      /\ UNCHANGED server /\ UNCHANGED view /\ UNCHANGED channel
  BY DEF SendDraft, NewId, Act, history
<1>2. ChannelFits' /\ HoldFits'  BY <1>1, ChannelStays
<1>3. ServerFits' /\ ViewFits'  BY <1>1 DEF IInv, ServerFits, ViewFits, server, view
<1>4. CountsFit'
  <2>1. harmed \subseteq Convs  BY DEF IInv, CountsFit
  <2> QED  BY <1>1, <2>1, CountsStay
<1>5. r \in CreateRecords
  <2>1. acts' \in Nat /\ focus \in Projects \cup {None}
    BY <1>1 DEF IInv, CountsFit, ViewFits, Act
  <2> QED  BY <2>1 DEF CreateRecords
<1>6. RequestsFit'
  BY <1>1, <1>5 DEF IInv, RequestsFit, IsDelete, IsArchive, server
<1>7. Coming' = Coming
  <2>1. r.conv = None  OBVIOUS
  <2> HIDE DEF r
  <2> QED  BY <1>1, <2>1 DEF Coming
<1>8. ListFits'  BY <1>1, <1>7 DEF IInv, ListFits, Going, server, view
<1> QED  BY <1>2, <1>3, <1>4, <1>6, <1>8 DEF IInv

\* The conversation is made.
LEMMA CreateServedStep ==
  ASSUME IInv, CreateServed
  PROVE  IInv'
<1>1. PICK r \in creates, c \in Unused :
        /\ r.conv = None /\ creates' = (creates \ {r}) \cup {[r EXCEPT !.conv = c]}
        /\ made' = made \cup {c} /\ alive' = alive \cup {c}
        /\ \/ bound' = [bound EXCEPT ![c] = r.focus] /\ UNCHANGED acts
           \/ Act /\ UNCHANGED bound
        /\ UNCHANGED <<log, listing, hide>>
        /\ UNCHANGED view /\ UNCHANGED channel /\ UNCHANGED history
  BY DEF CreateServed, Fault
<1>2. c \in Convs /\ c \notin made /\ c # None
  BY <1>1, ChatViewAssumption DEF Unused
<1>3. ChannelFits' /\ HoldFits'  BY <1>1, ChannelStays DEF history
<1>4. ServerFits'
  <2>1. r.focus \in Projects \cup {None}  BY <1>1, CreateFields
  <2> QED  BY <1>1, <1>2, <2>1 DEF IInv, ServerFits
<1>5. ViewFits'  BY <1>1 DEF IInv, ViewFits, view
<1>6. CountsFit'
  <2>1. harmed \subseteq Convs  BY DEF IInv, CountsFit
  <2> QED  BY <1>1, <2>1, CountsStay DEF history
<1> DEFINE q == [r EXCEPT !.conv = c]
<1>7. q \in CreateRecords /\ q.conv = c
  <2>1. r \in CreateRecords  BY <1>1 DEF IInv, RequestsFit
  <2> QED  BY <1>2, <2>1 DEF CreateRecords
<1>8. RequestsFit'
  BY <1>1, <1>7 DEF IInv, RequestsFit, IsDelete, IsArchive
<1>9. Coming' = Coming \cup {c}
  <2> HIDE DEF q
  <2>1. creates' = (creates \ {r}) \cup {q}  BY <1>1 DEF q
  <2> QED  BY <1>1, <1>2, <1>7, <2>1 DEF Coming
<1>10. ListFits'
  <2>1. hide.st = "served" => hide.targets \subseteq made  BY DEF IInv, RequestsFit, NoHide
  <2> QED  BY <1>1, <1>2, <1>9, <2>1 DEF IInv, ListFits, Going, view, history
<1> QED  BY <1>3, <1>4, <1>5, <1>6, <1>8, <1>10 DEF IInv

\* It is not made, or the tab is not told so.
LEMMA CreateFailsStep ==
  ASSUME IInv, CreateFails
  PROVE  IInv'
<1>1. PICK r \in creates :
        /\ r.conv = None /\ Act /\ creates' = creates \ {r}
        /\ \/ UNCHANGED <<made, alive, swept>>
           \/ \E c \in Unused : /\ made' = made \cup {c} /\ alive' = alive \cup {c}
                                /\ swept' = (swept \/ listing.st # "asked")
        /\ UNCHANGED <<bound, log, listing, hide, harmed, orphaned>>
        /\ UNCHANGED view /\ UNCHANGED channel
  BY DEF CreateFails, Fault
<1>2. ChannelFits' /\ HoldFits'  BY <1>1, ChannelStays
<1>3. Unused \subseteq Convs  BY ChatViewAssumption DEF Unused
<1>4. made' \subseteq Convs /\ alive' \subseteq made' /\ made \subseteq made' /\ swept' \in BOOLEAN
  BY <1>1, <1>3 DEF IInv, ServerFits, CountsFit
<1>5. ServerFits' /\ ViewFits'  BY <1>1, <1>4 DEF IInv, ServerFits, ViewFits, view
<1>6. CountsFit'  BY <1>1, <1>4 DEF IInv, CountsFit, Act
<1>7. RequestsFit'  BY <1>1, <1>4 DEF IInv, RequestsFit, IsDelete, IsArchive
<1>8. Coming' = Coming  BY <1>1 DEF Coming
<1>9. ListFits'
  <2>1. CASE UNCHANGED <<made, alive, swept>>
    BY <1>1, <1>8, <2>1 DEF IInv, ListFits, Going, view
  <2>2. CASE \E c \in Unused : /\ made' = made \cup {c} /\ alive' = alive \cup {c}
                               /\ swept' = (swept \/ listing.st # "asked")
    <3>1. PICK c \in Unused : /\ made' = made \cup {c} /\ alive' = alive \cup {c}
                             /\ swept' = (swept \/ listing.st # "asked")
      BY <2>2
    <3>2. hide.st = "served" => hide.targets \subseteq made
      BY DEF IInv, RequestsFit, NoHide
    <3>3. c \notin made  BY DEF Unused
    <3> QED  BY <1>1, <1>4, <1>8, <3>1, <3>2, <3>3 DEF IInv, ListFits, Going
  <2> QED  BY <1>1, <2>1, <2>2
<1> QED  BY <1>2, <1>5, <1>6, <1>7, <1>9 DEF IInv

\* The conversation made comes into the list, and the message is sent to it.
LEMMA CreateArrivesStep ==
  ASSUME IInv, CreateArrives
  PROVE  IInv'
<1>1. PICK r \in creates :
        /\ r.conv # None /\ creates' = creates \ {r}
        /\ DOMAIN list' = DOMAIN list \cup {r.conv}
        /\ url' = r.conv /\ focus' = None /\ loads' = LoadsAfter(list', r.conv, loads)
        /\ streams' = Append(Aborted(streams),
                             [conv |-> r.conv, msg |-> r.id, by |-> "message", served |-> FALSE,
                              state |-> "open", turn |-> 0, n |-> 0, heard |-> FALSE])
        /\ held' = Len(streams') /\ pending' = TRUE
        /\ harmed' \subseteq harmed \cup Loss \cup {r.conv}
        /\ swept' = (swept \/ r.conv \notin alive)
        /\ UNCHANGED <<projects, listing, hide, acts, orphaned>>
        /\ UNCHANGED server
  BY DEF CreateArrives, Goes
<1> DEFINE c == r.conv
           s == [conv |-> c, msg |-> r.id, by |-> "message", served |-> FALSE,
                 state |-> "open", turn |-> 0, n |-> 0, heard |-> FALSE]
<1>2. c \in made /\ made \subseteq Convs /\ r.id \in Nat
  BY <1>1, CreateFields DEF IInv, ServerFits
<1>3. s \in Posted /\ s.state = "open"  BY <1>2 DEF Posted, Means
<1>4. ChannelFits' /\ HoldFits'
  <2>1. streams' = Append(Aborted(streams), s)  BY <1>1
  <2> HIDE DEF s
  <2> QED  BY <1>1, <1>3, <2>1, PostStays
<1>5. ServerFits'  BY <1>1 DEF IInv, ServerFits, server
<1>6. ViewFits'
  <2>1. DOMAIN list' \subseteq made /\ loads \in Seq(LoadRecords)
    BY <1>1, <1>2 DEF IInv, ViewFits
  <2>2. loads' \in Seq(LoadRecords)  BY <1>1, <1>2, <2>1, LoadsFit
  <2> QED  BY <1>1, <1>2, <2>1, <2>2 DEF IInv, ViewFits, server
<1>7. CountsFit'
  <2>1. Loss \subseteq Convs  BY LossFits DEF IInv
  <2>2. harmed' \subseteq Convs  BY <1>1, <1>2, <2>1 DEF IInv, CountsFit
  <2>3. swept' \in BOOLEAN  BY <1>1 DEF IInv, CountsFit
  <2> QED  BY <1>1, <2>2, <2>3 DEF IInv, CountsFit
<1>8. RequestsFit'  BY <1>1 DEF IInv, RequestsFit, IsDelete, IsArchive, server
<1>9. Coming' \subseteq Coming /\ Coming \subseteq Coming' \cup {c}  BY <1>1 DEF Coming
<1>10. ListFits'
  BY <1>1, <1>2, <1>9 DEF IInv, ListFits, Going, server
<1> QED  BY <1>4, <1>5, <1>6, <1>7, <1>8, <1>10 DEF IInv

-----------------------------------------------------------------------------
(* Streams. *)

\* A stream's record changes and its state does not.
LEMMA StreamStays ==
  ASSUME IInv, NEW s \in DOMAIN streams, NEW e \in StreamRecords,
         streams' = [streams EXCEPT ![s] = e], e.state = streams[s].state,
         e.state = "open" => e.conv = streams[s].conv, UNCHANGED <<held, pending, orphaned>>
  PROVE  ChannelFits' /\ HoldFits'
<1> DEFINE n == Len(streams)
<1>1. ChannelFits /\ streams \in Seq(StreamRecords) /\ s \in 1 .. n /\ n \in Nat
  BY DEF IInv, ChannelFits
<1>2. /\ streams' \in Seq(StreamRecords) /\ Len(streams') = n /\ streams'[s] = e
      /\ \A x \in 1 .. n : x # s => streams'[x] = streams[x]
  BY <1>1, ReplaceFits
<1>3. ChannelFits'  BY <1>1, <1>2 DEF ChannelFits
<1>4. /\ Running = {x \in 1 .. n : streams[x].state = "open"}
      /\ Running' = {x \in 1 .. n : streams'[x].state = "open"}
  BY <1>1, <1>2, <1>3, StreamNumbers DEF Running, ChannelFits
<1>5. Running' = Running  BY <1>1, <1>2, <1>4
<1>6. \A x \in Running : streams'[x].conv = streams[x].conv  BY <1>1, <1>2, <1>4
<1> QED  BY <1>3, <1>5, <1>6 DEF IInv, HoldFits

\* A stream ends.
LEMMA EndsStays ==
  ASSUME IInv, NEW s \in DOMAIN streams, Ends(s, Over), UNCHANGED orphaned
  PROVE  ChannelFits' /\ HoldFits'
<1> DEFINE n == Len(streams)
<1>1. ChannelFits /\ streams \in Seq(StreamRecords) /\ s \in 1 .. n /\ n \in Nat
  BY DEF IInv, ChannelFits
<1>2. streams' = [streams EXCEPT ![s] = Over] /\ Over \in StreamRecords /\ Over.state = "over"
      /\ held' = (IF held = s THEN 0 ELSE held) /\ pending' = (pending /\ held # s)
  BY DEF Ends, StreamRecords, Over
<1>3. /\ streams' \in Seq(StreamRecords) /\ Len(streams') = n /\ streams'[s] = Over
      /\ \A x \in 1 .. n : x # s => streams'[x] = streams[x]
  BY <1>1, <1>2, ReplaceFits
<1>4. ChannelFits'  BY <1>1, <1>2, <1>3 DEF ChannelFits
<1>5. /\ Running = {x \in 1 .. n : streams[x].state = "open"}
      /\ Running' = {x \in 1 .. n : streams'[x].state = "open"}
  BY <1>1, <1>3, <1>4, StreamNumbers DEF Running, ChannelFits
<1>6. Running' = Running \ {s} /\ \A x \in Running' : streams'[x] = streams[x]
  BY <1>1, <1>2, <1>3, <1>5
<1>7. s # 0  BY <1>1
<1>8. (pending' <=> held' # 0) /\ (held' # 0 => held' \in Running')
  BY <1>2, <1>6, <1>7 DEF IInv, HoldFits
<1>9. ASSUME NEW x \in Running' \ {held'} PROVE streams'[x].conv \in orphaned'
  <2>1. x \in Running \ {held}  BY <1>2, <1>6, <1>9
  <2> QED  BY <1>6, <2>1 DEF IInv, HoldFits
<1> QED  BY <1>4, <1>8, <1>9 DEF HoldFits

\* A turn in place of the last, and what is behind a turn that is appended.
LEMMA LogFits ==
  ASSUME IInv, NEW c \in Convs, log[c] # <<>>
  PROVE  /\ Last(log[c]) \in TurnRecords
         /\ \A t \in TurnRecords : Append(Front(log[c]), t) \in Seq(TurnRecords)
<1>1. log[c] \in Seq(TurnRecords)  BY DEF IInv, ServerFits
<1> QED  BY <1>1, LastFits

\* A message is served: its stream reads the new turn, if it is not over.
LEMMA AdmitStep ==
  ASSUME IInv, NEW s \in DOMAIN streams, Admit(s)
  PROVE  IInv'
<1> DEFINE r == streams[s]
           c == r.conv
           t == NewTurn(r.msg)
           old == IF Live(c) THEN Append(Front(log[c]), [Last(log[c]) EXCEPT !.end = "silent"])
                  ELSE log[c]
           open == [conv |-> c, by |-> r.by, served |-> TRUE, state |-> r.state,
                    turn |-> Len(log'[c]), n |-> 1, heard |-> FALSE]
           e == IF r.state = "over" THEN Over ELSE open
<1>1. /\ ~ r.served /\ log' = [log EXCEPT ![c] = Append(old, t)]
      /\ streams' = [streams EXCEPT ![s] = e]
      /\ UNCHANGED <<made, alive, bound, held, pending>>
      /\ UNCHANGED view /\ UNCHANGED requests /\ UNCHANGED acts /\ UNCHANGED history
  BY DEF Admit
<1>2. r \in Posted /\ r \in StreamRecords
  BY <1>1, StreamNumbers, StreamFields DEF IInv
<1>3. c \in Convs /\ r.msg \in Nat /\ r.by \in Means /\ r.state \in {"open", "over"}
  BY <1>2 DEF Posted
<1>4. t \in TurnRecords  BY <1>3 DEF TurnRecords, NewTurn
<1>5. log \in [Convs -> Seq(TurnRecords)]  BY DEF IInv, ServerFits
<1>6. old \in Seq(TurnRecords)
  <2>1. CASE Live(c)
    <3>1. log[c] # <<>>  BY <2>1 DEF Live
    <3>2. /\ Last(log[c]) \in TurnRecords
          /\ \A x \in TurnRecords : Append(Front(log[c]), x) \in Seq(TurnRecords)
      BY <1>3, <3>1, LogFits
    <3>3. [Last(log[c]) EXCEPT !.end = "silent"] \in TurnRecords  BY <3>2 DEF TurnRecords
    <3> QED  BY <2>1, <3>2, <3>3
  <2>2. CASE ~ Live(c)  BY <1>3, <1>5, <2>2
  <2> QED  BY <2>1, <2>2
<1> HIDE DEF t, old
<1>7. Append(old, t) \in Seq(TurnRecords)  BY <1>4, <1>6, AppendFits
<1>8. log' \in [Convs -> Seq(TurnRecords)] /\ log'[c] \in Seq(TurnRecords)
  BY <1>1, <1>3, <1>5, <1>7
<1>9. e \in StreamRecords /\ e.state = r.state /\ (e.state = "open" => e.conv = c)
  <2>1. CASE r.state = "over"  BY <2>1 DEF StreamRecords, Over
  <2>2. CASE r.state = "open"
    <3>1. e = open /\ open \in Reading  BY <1>3, <1>8, <2>2 DEF Reading
    <3>2. open.state = r.state /\ open.conv = c  OBVIOUS
    <3> QED  BY <3>1, <3>2 DEF StreamRecords
  <2> QED  BY <1>3, <2>1, <2>2
<1>10. ChannelFits' /\ HoldFits'
  <2> HIDE DEF e
  <2> QED  BY <1>1, <1>9, StreamStays DEF history
<1>11. ServerFits'  BY <1>1, <1>8 DEF IInv, ServerFits
<1>12. ViewFits' /\ CountsFit'
  BY <1>1 DEF IInv, ViewFits, CountsFit, view, history
<1>13. RequestsFit' /\ ListFits'  BY <1>1, ListStays DEF view, history
<1> QED  BY <1>10, <1>11, <1>12, <1>13 DEF IInv

\* The rest of a step in which a stream ends.
LEMMA EndsRest ==
  ASSUME IInv, NEW s \in DOMAIN streams, Ends(s, Over),
         UNCHANGED <<server, requests, orphaned, swept>>,
         UNCHANGED acts \/ Act, harmed' \subseteq Convs
  PROVE  IInv'
<1>1. UNCHANGED <<url, focus, list, projects, made, alive, bound, log>>
      /\ loads' = LoadsAfter(list, url, loads)
  BY DEF Ends, server
<1>2. ChannelFits' /\ HoldFits'  BY EndsStays
<1>3. RequestsFit' /\ ListFits'  BY <1>1, ListStays
<1>4. CountsFit'  BY CountsStay
<1>5. loads' \in Seq(LoadRecords)
  <2>1. DOMAIN list \subseteq Convs /\ loads \in Seq(LoadRecords)
    BY DEF IInv, ViewFits, ServerFits
  <2> QED  BY <1>1, <2>1, LoadsFit
<1>6. ServerFits' /\ ViewFits'  BY <1>1, <1>5 DEF IInv, ServerFits, ViewFits
<1> QED  BY <1>2, <1>3, <1>4, <1>6 DEF IInv

\* A message is refused.
LEMMA RefuseStep ==
  ASSUME IInv, NEW s \in DOMAIN streams, Refuse(s)
  PROVE  IInv'
<1>1. /\ ~ streams[s].served /\ Ends(s, Over) /\ harmed' = harmed \cup {streams[s].conv}
      /\ UNCHANGED <<server, requests, orphaned, swept>> /\ (UNCHANGED acts \/ Act)
  BY DEF Refuse, Fault
<1>2. streams[s].conv \in Convs  BY <1>1, StreamNumbers, StreamFields DEF IInv
<1>3. harmed' \subseteq Convs  BY <1>1, <1>2 DEF IInv, CountsFit
<1> QED  BY <1>1, <1>3, EndsRest

\* A stream breaks.
LEMMA BreakStep ==
  ASSUME IInv, NEW s \in DOMAIN streams, Break(s)
  PROVE  IInv'
<1>1. /\ Ends(s, Over) /\ harmed' = harmed \cup Cut(s)
      /\ UNCHANGED <<server, requests, orphaned, swept>> /\ (UNCHANGED acts \/ Act)
  BY DEF Break, Fault
<1>2. Cut(s) \subseteq Convs  BY LossFits DEF IInv
<1>3. harmed' \subseteq Convs  BY <1>1, <1>2 DEF IInv, CountsFit
<1> QED  BY <1>1, <1>3, EndsRest

\* A message is submitted once more.
LEMMA ResubmitStep ==
  ASSUME IInv, NEW s \in DOMAIN streams, Resubmit(s)
  PROVE  IInv'
<1> DEFINE r == streams[s]
           e == [conv |-> r.conv, msg |-> acts', by |-> r.by, served |-> FALSE,
                 state |-> "open", turn |-> 0, n |-> 0, heard |-> FALSE]
<1>1. /\ r.state = "open" /\ r.served /\ Act
      /\ streams' = [streams EXCEPT ![s] = e] /\ harmed' = harmed \cup {r.conv}
      /\ UNCHANGED <<held, pending, orphaned, swept>>
      /\ UNCHANGED server /\ UNCHANGED view /\ UNCHANGED requests
  BY DEF Resubmit, Fault, NewId, Act
<1>2. r \in Reading  BY <1>1, StreamNumbers, StreamFields DEF IInv
<1>3. r.conv \in Convs /\ r.by \in Means  BY <1>2 DEF Reading
<1>4. acts' \in Nat  BY <1>1 DEF IInv, CountsFit, Act
<1>5. e \in Posted  BY <1>3, <1>4 DEF Posted
<1>6. e \in StreamRecords /\ e.state = r.state /\ e.conv = r.conv
  BY <1>1, <1>5 DEF StreamRecords
<1> HIDE DEF e
<1>7. ChannelFits' /\ HoldFits'  BY <1>1, <1>6, StreamStays
<1>8. RequestsFit' /\ ListFits'  BY <1>1, ListStays DEF server, view
<1>9. ServerFits' /\ ViewFits'  BY <1>1 DEF IInv, ServerFits, ViewFits, server, view
<1>10. CountsFit'  BY <1>1, <1>3, <1>4 DEF IInv, CountsFit
<1> QED  BY <1>7, <1>8, <1>9, <1>10 DEF IInv

\* The events behind a place have a first one.
LEMMA NextEvent ==
  ASSUME NEW c, NEW k, NEW n, Behind(c, k, n) # {}, NEW m \in Nat, DOMAIN log[c] \subseteq 1 .. m
  PROVE  LET at == Behind(c, k, n)
             next == CHOOSE p \in at : \A q \in at : p[1] <= q[1]
         IN  next \in at /\ next[1] \in Nat /\ next[2] \in Nat
<1> DEFINE at == Behind(c, k, n)
           next == CHOOSE p \in at : \A q \in at : p[1] <= q[1]
<1>1. at \subseteq (1 .. m) \X (1 .. MaxRounds)  BY DEF Behind
<1>2. \E p \in at : \A q \in at : p[1] <= q[1]
  <2> DEFINE T == {p[1] : p \in at}
  <2>1. T \subseteq Nat /\ T # {}  BY <1>1
  <2>2. PICK x \in T : \A y \in T : x <= y
    <3> HIDE DEF T
    <3> QED  BY <2>1, LeastNumber
  <2> QED  BY <2>2
<1>3. next \in at  BY <1>2
<1> HIDE DEF at, next
<1>4. next \in (1 .. m) \X (1 .. MaxRounds)  BY <1>1, <1>3
<1>5. next[1] \in Nat /\ next[2] \in Nat  BY <1>4, ChatViewAssumption
<1> QED  BY <1>3, <1>5 DEF at, next

\* The next event, or the end of the stream.
LEMMA ReceiveStep ==
  ASSUME IInv, NEW s \in DOMAIN streams, Receive(s)
  PROVE  IInv'
<1> DEFINE r == streams[s]
           at == Behind(r.conv, r.turn, r.n)
           next == CHOOSE p \in at : \A q \in at : p[1] <= q[1]
           e == [r EXCEPT !.turn = next[1], !.n = next[2] + 1, !.heard = TRUE]
<1>1. /\ r.state = "open" /\ r.served
      /\ UNCHANGED server /\ UNCHANGED requests /\ UNCHANGED acts /\ UNCHANGED history
  BY DEF Receive
<1>2. \/ Ends(s, Over)
      \/ /\ at # {} /\ DOMAIN list' = DOMAIN list /\ loads' = LoadsAfter(list', url, loads)
         /\ streams' = [streams EXCEPT ![s].turn = next[1], ![s].n = next[2] + 1,
                                       ![s].heard = TRUE]
         /\ UNCHANGED <<url, focus, projects, held, pending>>
  BY DEF Receive, Patched
<1>3. CASE Ends(s, Over)
  <2>1. harmed' \subseteq Convs  BY <1>1 DEF IInv, CountsFit, history
  <2> QED  BY <1>1, <1>3, <2>1, EndsRest DEF history
<1>4. ASSUME at # {}, DOMAIN list' = DOMAIN list, loads' = LoadsAfter(list', url, loads),
             streams' = [streams EXCEPT ![s].turn = next[1], ![s].n = next[2] + 1,
                                        ![s].heard = TRUE],
             UNCHANGED <<url, focus, projects, held, pending>>
      PROVE  IInv'
  <2>1. r \in Reading /\ s \in 1 .. Len(streams) /\ streams \in Seq(StreamRecords)
    BY <1>1, StreamNumbers, StreamFields DEF IInv, ChannelFits
  <2>2. next[1] \in Nat /\ next[2] + 1 \in Nat
    <3>1. r.conv \in Convs  BY <2>1 DEF Reading
    <3>2. log[r.conv] \in Seq(TurnRecords)  BY <3>1 DEF IInv, ServerFits
    <3>3. Len(log[r.conv]) \in Nat /\ DOMAIN log[r.conv] \subseteq 1 .. Len(log[r.conv])
      BY <3>2
    <3>4. next[1] \in Nat /\ next[2] \in Nat  BY <1>4, <3>3, NextEvent
    <3> HIDE DEF next
    <3> QED  BY <3>4
  <2> HIDE DEF next
  <2>3. e \in Reading /\ e.state = r.state /\ e.conv = r.conv  BY <2>1, <2>2 DEF Reading
  <2>4. streams' = [streams EXCEPT ![s] = e]  BY <1>4, <2>1
  <2>5. e \in StreamRecords  BY <2>3 DEF StreamRecords
  <2> HIDE DEF e
  <2>6. ChannelFits' /\ HoldFits'  BY <1>1, <1>4, <2>3, <2>4, <2>5, StreamStays DEF history
  <2>7. RequestsFit' /\ ListFits'  BY <1>1, <1>4, ListStays DEF server, history
  <2>8. ServerFits' /\ CountsFit'
    BY <1>1 DEF IInv, ServerFits, CountsFit, server, history
  <2>9. ViewFits'
    <3>1. DOMAIN list' \subseteq made /\ made \subseteq Convs /\ loads \in Seq(LoadRecords)
      BY <1>4 DEF IInv, ViewFits, ServerFits
    <3>2. loads' \in Seq(LoadRecords)  BY <1>4, <3>1, LoadsFit
    <3> QED  BY <1>1, <1>4, <3>1, <3>2 DEF IInv, ViewFits, server
  <2> QED  BY <2>6, <2>7, <2>8, <2>9 DEF IInv
<1> HIDE DEF e, at, next
<1> QED  BY <1>2, <1>3, <1>4

\* The held stream is stopped.
LEMMA StopStep ==
  ASSUME IInv, Stop
  PROVE  IInv'
<1> DEFINE n == Len(streams)
<1>1. /\ Act /\ streams' = Aborted(streams) /\ held' = 0 /\ pending' = FALSE
      /\ harmed' = harmed \cup Loss
      /\ UNCHANGED <<orphaned, swept>>
      /\ UNCHANGED server /\ UNCHANGED view /\ UNCHANGED requests
  BY DEF Stop
<1>2. ChannelFits /\ n \in Nat  BY DEF IInv, ChannelFits
<1>3. /\ streams' \in Seq(StreamRecords) /\ Len(streams') = n
      /\ \A s \in 1 .. n : /\ s # held => streams'[s] = streams[s]
                           /\ s = held => streams'[s].state = "over"
  BY <1>1, <1>2, AbortedFits
<1>4. ChannelFits'
  <2>1. held' \in 0 .. n  BY <1>1, <1>2
  <2>2. pending' \in BOOLEAN  BY <1>1, Zenon
  <2> QED  BY <1>3, <2>1, <2>2 DEF ChannelFits
<1>5. /\ Running = {s \in 1 .. n : streams[s].state = "open"}
      /\ Running' = {s \in 1 .. n : streams'[s].state = "open"}
  BY <1>2, <1>3, <1>4, StreamNumbers DEF Running, ChannelFits
<1>6. HoldFits'
  <2>1. ASSUME NEW s \in Running' PROVE streams'[s].conv \in orphaned'
    <3>1. s \in Running \ {held} /\ streams'[s] = streams[s]  BY <1>3, <1>5, <2>1
    <3> QED  BY <1>1, <3>1 DEF IInv, HoldFits
  <2> QED  BY <1>1, <2>1 DEF HoldFits
<1>7. RequestsFit' /\ ListFits'  BY <1>1, ListStays DEF server, view
<1>8. ServerFits' /\ ViewFits'  BY <1>1 DEF IInv, ServerFits, ViewFits, server, view
<1>9. CountsFit'
  <2>1. harmed' \subseteq Convs  BY <1>1, LossFits DEF IInv, CountsFit
  <2> QED  BY <1>1, <2>1, CountsStay
<1> QED  BY <1>4, <1>6, <1>7, <1>8, <1>9 DEF IInv

-----------------------------------------------------------------------------
(* Turns. *)

\* The last turn of a conversation changes.
LEMMA TurnStep ==
  ASSUME IInv, NEW c \in Convs, NEW t \in TurnRecords, log[c] # <<>>, Turn(c, t),
         UNCHANGED acts \/ Act
  PROVE  IInv'
<1>1. /\ log' = [log EXCEPT ![c] = Append(Front(@), t)]
      /\ UNCHANGED <<made, alive, bound, harmed, orphaned, swept>>
      /\ UNCHANGED view /\ UNCHANGED channel /\ UNCHANGED requests
  BY DEF Turn, history
<1>2. ChannelFits' /\ HoldFits'  BY <1>1, ChannelStays
<1>3. RequestsFit' /\ ListFits'  BY <1>1, ListStays DEF view
<1>4. CountsFit'
  <2>1. harmed' \subseteq Convs  BY <1>1 DEF IInv, CountsFit
  <2> QED  BY <1>1, <2>1, CountsStay
<1>5. ServerFits'
  <2>1. log \in [Convs -> Seq(TurnRecords)]  BY DEF IInv, ServerFits
  <2>2. Append(Front(log[c]), t) \in Seq(TurnRecords)  BY LogFits
  <2>3. log' \in [Convs -> Seq(TurnRecords)]  BY <1>1, <2>1, <2>2
  <2> QED  BY <1>1, <2>3 DEF IInv, ServerFits
<1>6. ViewFits'  BY <1>1 DEF IInv, ViewFits, view
<1> QED  BY <1>2, <1>3, <1>4, <1>5, <1>6 DEF IInv

\* A turn with a round more.
LEMMA RoundFits ==
  ASSUME NEW l \in TurnRecords, NEW n \in Nat, NEW x \in BOOLEAN
  PROVE  [l EXCEPT !.out = n, !.asks = x] \in TurnRecords
<1> DEFINE B == BOOLEAN
           R == [id : Nat, out : Nat, asks : B, end : {"live", "silent", "done"}]
<1>1. x \in B  OBVIOUS
<1>2. l \in R  BY DEF TurnRecords
<1> HIDE DEF B
<1>3. [l EXCEPT !.out = n, !.asks = x] \in R  BY <1>1, <1>2
<1> QED  BY <1>3 DEF TurnRecords, B

\* A round.
LEMMA ProduceStep ==
  ASSUME IInv, Produce
  PROVE  IInv'
<1>1. PICK c \in Convs, asks \in BOOLEAN :
        /\ Live(c) /\ Turn(c, [Last(log[c]) EXCEPT !.out = @ + 1, !.asks = asks])
        /\ UNCHANGED acts
  BY DEF Produce
<1>2. log[c] # <<>>  BY <1>1 DEF Live
<1>3. Last(log[c]) \in TurnRecords  BY <1>2, LogFits
<1>4. [Last(log[c]) EXCEPT !.out = @ + 1, !.asks = asks] \in TurnRecords
  <2>1. Last(log[c]).out + 1 \in Nat  BY <1>3 DEF TurnRecords
  <2> QED  BY <1>3, <2>1, RoundFits
<1> QED  BY <1>1, <1>2, <1>4, TurnStep

\* The end of a turn.
LEMMA EndTurnStep ==
  ASSUME IInv, EndTurn
  PROVE  IInv'
<1>1. PICK c \in Convs, end \in {"silent", "done"} :
        /\ Live(c) /\ Turn(c, [Last(log[c]) EXCEPT !.end = end])
        /\ UNCHANGED acts \/ Act
  BY DEF EndTurn, Fault
<1>2. log[c] # <<>>  BY <1>1 DEF Live
<1>3. Last(log[c]) \in TurnRecords  BY <1>2, LogFits
<1>4. [Last(log[c]) EXCEPT !.end = end] \in TurnRecords  BY <1>3 DEF TurnRecords
<1> QED  BY <1>1, <1>2, <1>4, TurnStep

-----------------------------------------------------------------------------
(* Archiving. *)

\* What a step leaves alone when it only changes the archive request.
LEMMA HideRest ==
  ASSUME IInv, UNCHANGED acts \/ Act, swept' \in BOOLEAN,
         UNCHANGED <<made, bound, log, view, channel, harmed, orphaned>>, alive' \subseteq alive
  PROVE  ServerFits' /\ ViewFits' /\ ChannelFits' /\ HoldFits' /\ CountsFit'
<1>1. ChannelFits' /\ HoldFits'  BY ChannelStays
<1>2. CountsFit'  BY DEF IInv, CountsFit, Act
<1>3. ServerFits' /\ ViewFits'  BY DEF IInv, ServerFits, ViewFits, view
<1> QED  BY <1>1, <1>2, <1>3

\* The conversation on display is to be archived.
LEMMA DeleteActiveStep ==
  ASSUME IInv, DeleteActive
  PROVE  IInv'
<1>1. /\ Act /\ url \in DOMAIN list /\ UNCHANGED <<alive, list, listing, creates, swept>>
      /\ hide' = [st |-> "asked", kind |-> "delete", targets |-> {url}, was |-> list,
                  second |-> twice]
      /\ UNCHANGED <<made, bound, log, view, channel, harmed, orphaned>>
  BY DEF DeleteActive, server, view, history
<1>2. ServerFits' /\ ViewFits' /\ ChannelFits' /\ HoldFits' /\ CountsFit'
  BY <1>1, HideRest DEF IInv, CountsFit
<1>3. /\ hide'.st = "asked" /\ hide'.kind = "delete" /\ hide'.targets = {url}
      /\ hide'.was = list
  BY <1>1
<1>4. DOMAIN list \subseteq made  BY DEF IInv, ViewFits
<1>5. RequestsFit'
  BY <1>1, <1>3, <1>4 DEF IInv, RequestsFit, IsDelete
<1>6. ListFits'
  <2>1. Coming' = Coming  BY <1>1 DEF Coming
  <2>2. hide.st = "none"  BY DEF DeleteActive
  <2>3. Going = {} /\ Going' = {}  BY <1>3, <2>2 DEF Going
  <2> QED  BY <1>1, <1>3, <2>1, <2>3 DEF IInv, ListFits
<1> QED  BY <1>2, <1>5, <1>6 DEF IInv

\* A project is to be archived.
LEMMA ArchiveProjectStep ==
  ASSUME IInv, ArchiveProject
  PROVE  IInv'
<1> DEFINE T(p) == {c \in DOMAIN list :
                      list[c].proj = p \/ (c \in DOMAIN twice /\ twice[c] = p)}
<1>1. PICK p \in projects :
        hide' = [st |-> "asked", kind |-> "project", targets |-> T(p), of |-> p,
                 leave |-> (url \in T(p) \/ focus = p)]
  BY DEF ArchiveProject
<1>2. /\ Act /\ UNCHANGED <<alive, list, listing, creates, swept>> /\ hide.st = "none"
      /\ UNCHANGED <<made, bound, log, view, channel, harmed, orphaned>>
  BY DEF ArchiveProject, server, view, history
<1>3. ServerFits' /\ ViewFits' /\ ChannelFits' /\ HoldFits' /\ CountsFit'
  BY <1>2, HideRest DEF IInv, CountsFit
<1>4. hide'.st = "asked" /\ hide'.targets \subseteq DOMAIN list /\ IsArchive(hide')
  <2>1. T(p) \subseteq DOMAIN list  OBVIOUS
  <2> HIDE DEF T
  <2> QED  BY <1>1, <2>1 DEF IsArchive
<1>5. DOMAIN list \subseteq made  BY DEF IInv, ViewFits
<1>6. RequestsFit'  BY <1>2, <1>4, <1>5 DEF IInv, RequestsFit, IsArchive
<1>7. ListFits'
  <2>1. Coming' = Coming  BY <1>2 DEF Coming
  <2>2. Going = {} /\ Going' = {}  BY <1>2, <1>4 DEF Going
  <2> QED  BY <1>2, <1>4, <2>1, <2>2 DEF IInv, ListFits
<1> QED  BY <1>3, <1>6, <1>7 DEF IInv

\* The archived conversations are still in the list.
LEMMA HideServedStep ==
  ASSUME IInv, HideServed
  PROVE  IInv'
<1>1. /\ hide.st = "asked" /\ hide' = [hide EXCEPT !.st = "served"]
      /\ UNCHANGED <<list, listing, creates, swept>>
      /\ UNCHANGED <<made, bound, log, view, channel, harmed, orphaned>>
  BY DEF HideServed, view, history
<1>2. /\ alive \ hide.targets \subseteq alive' /\ alive' \subseteq alive
      /\ hide.kind = "delete" => alive' = alive \ hide.targets
      /\ UNCHANGED acts \/ Act
  BY DEF HideServed, Fault
<1>3. ServerFits' /\ ViewFits' /\ ChannelFits' /\ HoldFits' /\ CountsFit'
  BY <1>1, <1>2, HideRest DEF IInv, CountsFit
<1>4. hide # NoHide /\ hide.targets \subseteq made
      /\ ((IsDelete(hide) /\ DOMAIN hide.was \subseteq made) \/ IsArchive(hide))
  BY <1>1 DEF IInv, RequestsFit, NoHide
<1>5. /\ hide'.st = "served" /\ hide'.targets = hide.targets /\ hide'.kind = hide.kind
      /\ IsDelete(hide) => IsDelete(hide') /\ hide'.was = hide.was
      /\ IsArchive(hide) => IsArchive(hide')
  <2>1. CASE IsDelete(hide)
    <3> DEFINE h == [st |-> "served", kind |-> "delete", targets |-> hide.targets,
                     was |-> hide.was, second |-> hide.second]
    <3>1. hide' = h
      <4>1. hide = [st |-> hide.st, kind |-> "delete", targets |-> hide.targets,
                    was |-> hide.was, second |-> hide.second]
        BY <2>1 DEF IsDelete
      <4> QED  BY <1>1, <4>1
    <3> QED  BY <2>1, <3>1 DEF IsDelete, IsArchive
  <2>2. CASE IsArchive(hide)
    <3> DEFINE h == [st |-> "served", kind |-> "project", targets |-> hide.targets,
                     of |-> hide.of, leave |-> hide.leave]
    <3>1. hide' = h
      <4>1. hide = [st |-> hide.st, kind |-> "project", targets |-> hide.targets,
                    of |-> hide.of, leave |-> hide.leave]
        BY <2>2 DEF IsArchive
      <4> QED  BY <1>1, <4>1
    <3> QED  BY <2>2, <3>1 DEF IsDelete, IsArchive
  <2> QED  BY <1>4, <2>1, <2>2
<1>6. RequestsFit'  BY <1>1, <1>4, <1>5 DEF IInv, RequestsFit
<1>7. ListFits'
  <2>1. Coming' = Coming  BY <1>1 DEF Coming
  <2>2. Going = {} /\ Going' = hide.targets  BY <1>1, <1>5 DEF Going
  <2>3. hide'.st = "served" /\ hide'.kind = "delete" => hide'.targets \cap alive' = {}
    BY <1>2, <1>5
  <2>4. listing'.st = "answered" /\ ~ swept' =>
          alive' \subseteq DOMAIN list' \cup Coming' /\ DOMAIN list' \subseteq alive' \cup Going'
    BY <1>1, <1>2, <2>1, <2>2 DEF IInv, ListFits
  <2>5. listing'.st = "read" =>
          (swept' \/ alive' \subseteq listing'.got \cup DOMAIN list' \cup Coming')
          /\ listing'.got \subseteq made'
    BY <1>1, <1>2, <2>1 DEF IInv, ListFits
  <2>6. Coming' \subseteq made'  BY <1>1, <2>1 DEF IInv, ListFits
  <2> QED  BY <2>3, <2>4, <2>5, <2>6 DEF ListFits
<1> QED  BY <1>3, <1>6, <1>7 DEF IInv

\* Nothing was archived, or the tab is not told so.
LEMMA HideFailsStep ==
  ASSUME IInv, HideFails
  PROVE  IInv'
<1>1. /\ hide.st = "asked" /\ hide' = NoHide
      /\ UNCHANGED <<alive, swept>> \/ (alive' = alive \ hide.targets /\ swept' = TRUE)
      /\ UNCHANGED <<list, listing, creates>>
      /\ UNCHANGED <<made, bound, log, view, channel, harmed, orphaned>>
      /\ UNCHANGED acts \/ Act
  BY DEF HideFails, Fault, view
<1>2. swept' \in BOOLEAN /\ alive' \subseteq alive
  <2>1. swept \in BOOLEAN /\ TRUE \in BOOLEAN  BY DEF IInv, CountsFit
  <2> QED  BY <1>1, <2>1
<1>3. ServerFits' /\ ViewFits' /\ ChannelFits' /\ HoldFits' /\ CountsFit'
  BY <1>1, <1>2, HideRest
<1>4. RequestsFit'  BY <1>1 DEF IInv, RequestsFit
<1>5. ListFits'
  <2>1. Coming' = Coming  BY <1>1 DEF Coming
  <2>2. hide'.st = "none" /\ Going = {} /\ Going' = {}  BY <1>1 DEF Going, NoHide
  <2>3. UNCHANGED <<alive, swept>> \/ swept'  BY <1>1
  <2> QED  BY <1>1, <2>1, <2>2, <2>3 DEF IInv, ListFits
<1> QED  BY <1>3, <1>4, <1>5 DEF IInv

\* The list of the click comes back: complete, unless something came or went since.
LEMMA DeleteArrivesStep ==
  ASSUME IInv, DeleteArrives
  PROVE  IInv'
<1>1. /\ hide.st = "served" /\ hide.kind = "delete" /\ hide' = NoHide
      /\ DOMAIN list' = DOMAIN hide.was \ hide.targets /\ url' = None /\ focus' = None
      /\ UNCHANGED <<projects, loads, listing, creates, acts, orphaned>>
      /\ harmed' \subseteq harmed \cup DOMAIN list \cup DOMAIN list'
      /\ swept' = (swept \/ DOMAIN hide.was # DOMAIN list)
      /\ UNCHANGED <<made, alive, bound, log>> /\ UNCHANGED channel
  BY DEF DeleteArrives, Without, Goes, server
<1>2. DOMAIN hide.was \subseteq made /\ hide.targets \cap alive = {} /\ made \subseteq Convs
  <2>1. hide # NoHide /\ ~ IsArchive(hide)  BY <1>1 DEF NoHide, IsArchive
  <2> QED  BY <1>1, <2>1 DEF IInv, RequestsFit, ListFits, ServerFits
<1>3. ChannelFits' /\ HoldFits'  BY <1>1, ChannelStays
<1>4. ServerFits' /\ ViewFits'  BY <1>1, <1>2 DEF IInv, ServerFits, ViewFits
<1>5. CountsFit'
  <2>1. swept' \in BOOLEAN  BY <1>1 DEF IInv, CountsFit
  <2>2. DOMAIN list \subseteq Convs  BY <1>2 DEF IInv, ViewFits
  <2>3. harmed' \subseteq Convs  BY <1>1, <1>2, <2>2 DEF IInv, CountsFit
  <2> QED  BY <1>1, <2>1, <2>3 DEF IInv, CountsFit
<1>6. RequestsFit'  BY <1>1 DEF IInv, RequestsFit
<1>7. ListFits'
  <2>1. Coming' = Coming  BY <1>1 DEF Coming
  <2>2. hide'.st = "none" /\ Going = hide.targets /\ Going' = {}  BY <1>1 DEF Going, NoHide
  <2> QED  BY <1>1, <1>2, <2>1, <2>2 DEF IInv, ListFits
<1> QED  BY <1>3, <1>4, <1>5, <1>6, <1>7 DEF IInv

\* The project's conversations leave the list.
LEMMA ProjectArrivesStep ==
  ASSUME IInv, ProjectArrives
  PROVE  IInv'
<1>1. /\ hide.st = "served" /\ hide.kind = "project" /\ hide' = NoHide
      /\ DOMAIN list' = DOMAIN list \ hide.targets /\ projects' = projects \ {hide.of}
      /\ (url' = None /\ focus' = None) \/ UNCHANGED <<url, focus>>
      /\ loads' = LoadsAfter(list', url', loads)
      /\ UNCHANGED <<listing, creates, acts, orphaned>>
      /\ harmed' = harmed \cup (hide.targets \cap alive)
      /\ swept' = (swept \/ hide.targets \cap alive # {})
      /\ UNCHANGED <<made, alive, bound, log>> /\ UNCHANGED channel
  BY DEF ProjectArrives, Without, Goes, server
<1>2. ChannelFits' /\ HoldFits'  BY <1>1, ChannelStays
<1>3. ServerFits'  BY <1>1 DEF IInv, ServerFits
<1>4. ViewFits'
  <2>1. DOMAIN list' \subseteq made /\ made \subseteq Convs /\ loads \in Seq(LoadRecords)
    BY <1>1 DEF IInv, ViewFits, ServerFits
  <2>2. loads' \in Seq(LoadRecords)  BY <1>1, <2>1, LoadsFit
  <2> QED  BY <1>1, <2>1, <2>2 DEF IInv, ViewFits
<1>5. CountsFit'
  <2>1. swept' \in BOOLEAN  BY <1>1 DEF IInv, CountsFit
  <2>2. harmed' \subseteq Convs  BY <1>1 DEF IInv, CountsFit, ServerFits
  <2> QED  BY <1>1, <2>1, <2>2 DEF IInv, CountsFit
<1>6. RequestsFit'  BY <1>1 DEF IInv, RequestsFit
<1>7. ListFits'
  <2>1. Coming' = Coming  BY <1>1 DEF Coming
  <2>2. hide'.st = "none" /\ Going = hide.targets /\ Going' = {}  BY <1>1 DEF Going, NoHide
  <2>3. ~ swept' => ~ swept /\ hide.targets \cap alive = {}  BY <1>1
  <2> QED  BY <1>1, <2>1, <2>2, <2>3 DEF IInv, ListFits
<1> QED  BY <1>2, <1>3, <1>4, <1>5, <1>6, <1>7 DEF IInv

-----------------------------------------------------------------------------
(* The theorems. *)

\* The page opens.
LEMMA InitInvariant == Init => IInv
<1> SUFFICES ASSUME Init PROVE IInv  OBVIOUS
<1>1. /\ made = Convs \ Fresh /\ alive = made /\ bound \in [Convs -> Projects \cup {None}]
      /\ log = [c \in Convs |-> IF c \in Flying THEN <<NewTurn(0)>> ELSE <<>>]
      /\ url \in {None} \cup made /\ focus = None /\ list = <<>> /\ loads = <<>>
      /\ projects = Projects /\ listing = [st |-> "asked"] /\ creates = {} /\ hide = NoHide
      /\ streams = <<>> /\ held = 0 /\ pending = FALSE
      /\ acts = 0
      /\ harmed = {} /\ orphaned = {} /\ swept = FALSE
  BY DEF Init
<1>2. ServerFits
  <2>1. NewTurn(0) \in TurnRecords  BY DEF NewTurn, TurnRecords
  <2>2. <<NewTurn(0)>> \in Seq(TurnRecords)
    <3> HIDE DEF NewTurn
    <3> QED  BY <2>1
  <2>3. <<>> \in Seq(TurnRecords)  OBVIOUS
  <2>4. log \in [Convs -> Seq(TurnRecords)]  BY <1>1, <2>2, <2>3
  <2> QED  BY <1>1, <2>4 DEF ServerFits
<1>3. DOMAIN list = {}  BY <1>1
<1>4. ViewFits
  <2>1. loads \in Seq(LoadRecords)  BY <1>1
  <2> QED  BY <1>1, <1>3, <2>1 DEF ViewFits
<1>5. ChannelFits
  <2>1. streams \in Seq(StreamRecords) /\ Len(streams) = 0  BY <1>1
  <2>2. held \in 0 .. Len(streams)  BY <1>1, <2>1
  <2>3. pending \in BOOLEAN  BY <1>1, Zenon
  <2> QED  BY <2>1, <2>2, <2>3 DEF ChannelFits
<1>6. RequestsFit
  <2>1. listing \in ListingRecords  BY <1>1 DEF ListingRecords
  <2> QED  BY <1>1, <2>1 DEF RequestsFit
<1>7. CountsFit  BY <1>1 DEF CountsFit
<1>8. Running = {}  BY <1>1 DEF Running
<1>9. HoldFits  BY <1>1, <1>8 DEF HoldFits
<1>10. ListFits
  <2>1. Coming = {} /\ hide.st = "none" /\ listing.st = "asked"  BY <1>1 DEF Coming, NoHide
  <2> QED  BY <2>1 DEF ListFits
<1> QED  BY <1>2, <1>4, <1>5, <1>6, <1>7, <1>9, <1>10 DEF IInv

\* Whatever the user, the server and the streams do next.
LEMMA NextInvariant ==
  ASSUME IInv, [Next]_vars
  PROVE  IInv'
<1>1. CASE UNCHANGED vars  BY <1>1, StutterStep
<1>2. CASE ListRead \/ ListArrives \/ ListFails \/ Visit
  BY <1>2, ListReadStep, ListArrivesStep, ListFailsStep, VisitStep
<1>3. CASE Load
  BY <1>3, LoadReadStep, LoadCheckedStep, LoadFailsStep, LoadArrivesStep DEF Load
<1>4. CASE Send \/ Edit \/ SendDraft
  BY <1>4, SendStep, EditStep, SendDraftStep
<1>5. CASE CreateServed \/ CreateFails \/ CreateArrives
  BY <1>5, CreateServedStep, CreateFailsStep, CreateArrivesStep
<1>6. CASE Stream \/ Stop
  BY <1>6, AdmitStep, RefuseStep, ReceiveStep, BreakStep, ResubmitStep, StopStep DEF Stream
<1>7. CASE Produce \/ EndTurn
  BY <1>7, ProduceStep, EndTurnStep
<1>8. CASE \/ DeleteActive \/ ArchiveProject \/ HideServed \/ HideFails \/ DeleteArrives
           \/ ProjectArrives
  BY <1>8, DeleteActiveStep, ArchiveProjectStep, HideServedStep, HideFailsStep,
     DeleteArrivesStep, ProjectArrivesStep
<1> QED  BY <1>1, <1>2, <1>3, <1>4, <1>5, <1>6, <1>7, <1>8 DEF Next

\* The invariant holds in every state of the tab.
THEOREM Invariance == Spec => []IInv
<1>1. Init => IInv  BY InitInvariant
<1>2. IInv /\ [Next]_vars => IInv'  BY NextInvariant
<1> QED  BY <1>1, <1>2, PTL DEF Spec

\* Every variable keeps its type.
THEOREM TypeCorrect == Spec => []TypeOK
<1>1. IInv => TypeOK
  BY DEF IInv, ServerFits, ViewFits, ChannelFits, CountsFit, TypeOK
<1> QED  BY <1>1, Invariance, PTL

\* While the input is closed the stop button reaches a stream, and any other stream that
\* still writes was let go of by a resume (abortRef, pending, maybeAutoResumeReplay).
THEOREM HeldIsSafe == Spec => []OneStreamIsHeld
<1>1. IInv => OneStreamIsHeld  BY DEF IInv, HoldFits, OneStreamIsHeld
<1> QED  BY <1>1, Invariance, PTL

\* The list loses at most, and the requests are as they were.
LEMMA TwiceStays ==
  ASSUME TwiceFits, UNCHANGED requests, DOMAIN list' \subseteq DOMAIN list,
         DOMAIN twice' \subseteq DOMAIN twice
  PROVE  TwiceFits'
<1>1. UNCHANGED <<listing, creates, hide>>  BY DEF requests
<1>2. Coming' = Coming  BY <1>1 DEF Coming
<1> QED  BY <1>1, <1>2 DEF TwiceFits, Doubled

\* The opening's list has conversations whose creation is still to be answered.
LEMMA ListingTwice ==
  ASSUME IInv, TwiceFits, ListRead \/ ListArrives \/ ListFails
  PROVE  TwiceFits'
<1>1. /\ listing.st \in {"asked", "read"}
      /\ UNCHANGED <<creates, hide>>
  BY DEF ListRead, ListArrives, ListFails
<1>2. Coming' = Coming  BY <1>1 DEF Coming
<1>3. /\ Coming \subseteq Fresh /\ DOMAIN twice = {} /\ Coming \cap DOMAIN list = {}
      /\ hide # NoHide /\ hide.kind = "delete" =>
           DOMAIN hide.second = {} /\ Coming \cap DOMAIN hide.was = {}
  BY <1>1 DEF TwiceFits, Doubled
<1>4. CASE ListRead \/ ListFails
  <2>1. UNCHANGED <<list, twice>>  BY <1>4 DEF ListRead, ListFails, view
  <2> QED  BY <1>1, <1>2, <1>3, <2>1 DEF TwiceFits, Doubled
<1>5. CASE ListArrives
  <2>1. /\ listing.st = "read" /\ listing' = [listing EXCEPT !.st = "answered"]
        /\ DOMAIN list' = listing.got /\ twice' = <<>>
    BY <1>5 DEF ListArrives
  <2>2. listing'.st = "answered" /\ listing'.got = listing.got
    <3>1. listing \in [st : {"read", "answered"}, got : SUBSET Convs]
      BY <2>1 DEF IInv, RequestsFit, ListingRecords
    <3> QED  BY <2>1, <3>1
  <2>3. DOMAIN twice' = {}  BY <2>1
  <2> QED  BY <1>1, <1>2, <1>3, <2>1, <2>2, <2>3 DEF TwiceFits, Doubled
<1> QED  BY <1>4, <1>5

\* A conversation that is made is in no list yet.
LEMMA CreatesTwice ==
  ASSUME IInv, TwiceFits, SendDraft \/ CreateServed \/ CreateFails
  PROVE  TwiceFits'
<1>1. UNCHANGED <<list, twice, listing, hide>>
  BY DEF SendDraft, CreateServed, CreateFails, view
<1>2. CASE SendDraft
  <2> DEFINE e == [id |-> NewId, focus |-> focus, conv |-> None]
  <2>1. creates' = creates \cup {e} /\ e.conv = None  BY <1>2 DEF SendDraft
  <2> HIDE DEF e
  <2>2. Coming' = Coming  BY <2>1 DEF Coming
  <2> QED  BY <1>1, <2>1, <2>2 DEF TwiceFits, Doubled
<1>3. CASE CreateServed
  <2>1. PICK r \in creates, c \in Unused :
          r.conv = None /\ creates' = (creates \ {r}) \cup {[r EXCEPT !.conv = c]}
    BY <1>3 DEF CreateServed
  <2>2. r \in CreateRecords  BY DEF IInv, RequestsFit
  <2>3. PICK q : q = [r EXCEPT !.conv = c]  OBVIOUS
  <2>4. q.conv = c  BY <2>2, <2>3 DEF CreateRecords
  <2>5. c \in Fresh /\ c \notin made /\ c # None  BY ChatViewAssumption DEF Unused
  <2>6. Coming' = Coming \cup {c}  BY <2>1, <2>3, <2>4, <2>5 DEF Coming
  <2>7. c \notin Coming /\ c \notin DOMAIN list
    BY <2>5 DEF IInv, ListFits, ViewFits
  <2>8. hide # NoHide /\ hide.kind = "delete" => c \notin DOMAIN hide.was
    BY <2>5 DEF IInv, RequestsFit, IsArchive
  <2>9. \A u \in creates : u.conv # c  BY <2>5, <2>7 DEF Coming
  <2>10. \A u, w \in creates' : u.conv = w.conv /\ u.conv # None => u = w
    BY <2>1, <2>3, <2>4, <2>9 DEF TwiceFits
  <2>11. Coming' \cap DOMAIN list' = Coming \cap DOMAIN list  BY <1>1, <2>6, <2>7
  <2>12. hide # NoHide /\ hide.kind = "delete" =>
           Coming' \cap DOMAIN hide'.was = Coming \cap DOMAIN hide.was
    BY <1>1, <2>6, <2>8
  <2> QED  BY <1>1, <2>5, <2>6, <2>10, <2>11, <2>12 DEF TwiceFits, Doubled
<1>4. CASE CreateFails
  <2>1. PICK r \in creates : r.conv = None /\ creates' = creates \ {r}
    BY <1>4 DEF CreateFails
  <2>2. Coming' = Coming  BY <2>1 DEF Coming
  <2> QED  BY <1>1, <2>1, <2>2 DEF TwiceFits, Doubled
<1> QED  BY <1>2, <1>3, <1>4

\* Its creation is answered.
LEMMA CreateArrivesTwice ==
  ASSUME TwiceFits, CreateArrives
  PROVE  TwiceFits'
<1>1. PICK r \in creates :
        /\ r.conv # None /\ creates' = creates \ {r}
        /\ DOMAIN list' = DOMAIN list \cup {r.conv}
        /\ DOMAIN twice' = DOMAIN twice \cup ({r.conv} \cap DOMAIN list)
        /\ UNCHANGED <<listing, hide>>
  BY DEF CreateArrives
<1>2. Coming' \subseteq Coming /\ r.conv \in Coming /\ r.conv \notin Coming'
  BY <1>1 DEF Coming, TwiceFits
<1>3. Coming' \cap DOMAIN list' \subseteq Coming \cap DOMAIN list
      /\ DOMAIN twice' \subseteq DOMAIN twice \cup (Coming \cap DOMAIN list)
  BY <1>1, <1>2
<1> QED  BY <1>1, <1>2, <1>3 DEF TwiceFits, Doubled

\* The list of a click comes back, or loses what is archived.
LEMMA ArchivingTwice ==
  ASSUME IInv, TwiceFits,
         \/ DeleteActive \/ ArchiveProject \/ HideServed \/ HideFails \/ DeleteArrives
         \/ ProjectArrives
  PROVE  TwiceFits'
<1>1. UNCHANGED <<listing, creates>>
  BY DEF DeleteActive, ArchiveProject, HideServed, HideFails, DeleteArrives, ProjectArrives
<1>2. Coming' = Coming  BY <1>1 DEF Coming
<1>3. CASE DeleteActive
  <2>1. /\ hide' = [st |-> "asked", kind |-> "delete", targets |-> {url}, was |-> list,
                    second |-> twice]
        /\ UNCHANGED <<list, twice>>
    BY <1>3 DEF DeleteActive, view
  <2>2. hide'.was = list /\ hide'.second = twice  BY <2>1
  <2> QED  BY <1>1, <1>2, <2>1, <2>2 DEF TwiceFits, Doubled
<1>4. CASE ArchiveProject
  <2>1. hide'.kind = "project" /\ UNCHANGED <<list, twice>>
    BY <1>4 DEF ArchiveProject, view
  <2> QED  BY <1>1, <1>2, <2>1 DEF TwiceFits, Doubled
<1>5. CASE HideServed
  <2>1. hide.st = "asked" /\ hide' = [hide EXCEPT !.st = "served"] /\ UNCHANGED <<list, twice>>
    BY <1>5 DEF HideServed, view
  <2>2. IsDelete(hide) \/ IsArchive(hide)  BY <2>1 DEF IInv, RequestsFit, NoHide
  <2>3. hide # NoHide  BY <2>1 DEF NoHide
  <2>4. CASE IsDelete(hide)
    <3>1. hide = [st |-> hide.st, kind |-> "delete", targets |-> hide.targets,
                  was |-> hide.was, second |-> hide.second]
      BY <2>4 DEF IsDelete
    <3>2. hide'.was = hide.was /\ hide'.second = hide.second /\ hide.kind = "delete"
      BY <2>1, <2>4, <3>1 DEF IsDelete
    <3> QED  BY <1>1, <1>2, <2>1, <2>3, <3>2 DEF TwiceFits, Doubled
  <2>5. CASE IsArchive(hide)
    <3>1. hide = [st |-> hide.st, kind |-> "project", targets |-> hide.targets,
                  of |-> hide.of, leave |-> hide.leave]
      BY <2>5 DEF IsArchive
    <3>2. hide'.kind = "project"  BY <2>1, <3>1
    <3> QED  BY <1>1, <1>2, <2>1, <3>2 DEF TwiceFits, Doubled
  <2> QED  BY <2>2, <2>4, <2>5
<1>6. CASE HideFails
  <2>1. hide' = NoHide /\ UNCHANGED <<list, twice>>  BY <1>6 DEF HideFails, view
  <2> QED  BY <1>1, <1>2, <2>1 DEF TwiceFits, Doubled
<1>7. CASE DeleteArrives
  <2>1. /\ hide.st = "served" /\ hide.kind = "delete" /\ hide' = NoHide
        /\ DOMAIN list' \subseteq DOMAIN hide.was /\ DOMAIN twice' \subseteq DOMAIN hide.second
    BY <1>7 DEF DeleteArrives, Without
  <2>2. hide # NoHide  BY <2>1 DEF NoHide
  <2> QED  BY <1>1, <1>2, <2>1, <2>2 DEF TwiceFits, Doubled
<1>8. CASE ProjectArrives
  <2>1. /\ hide' = NoHide
        /\ DOMAIN list' \subseteq DOMAIN list /\ DOMAIN twice' \subseteq DOMAIN twice
    BY <1>8 DEF ProjectArrives, Without
  <2> QED  BY <1>1, <1>2, <2>1 DEF TwiceFits, Doubled
<1> QED  BY <1>3, <1>4, <1>5, <1>6, <1>7, <1>8

\* Whatever happens next.
LEMMA NextTwice ==
  ASSUME IInv, TwiceFits, [Next]_vars
  PROVE  TwiceFits'
<1>1. CASE UNCHANGED vars
  <2>1. UNCHANGED requests /\ UNCHANGED <<list, twice>>  BY <1>1 DEF vars, view
  <2> QED  BY <2>1, TwiceStays
<1>2. CASE Visit \/ Load \/ Produce \/ EndTurn \/ Stop
  <2>1. UNCHANGED requests /\ UNCHANGED twice /\ DOMAIN list' = DOMAIN list
    BY <1>2 DEF Visit, Load, LoadRead, LoadChecked, LoadFails, LoadArrives, Produce, EndTurn,
       Turn, Stop, view
  <2> QED  BY <2>1, TwiceStays
<1>3. CASE Send \/ Edit
  <2>1. UNCHANGED requests /\ UNCHANGED twice /\ DOMAIN list' = DOMAIN list
    BY <1>3 DEF Send, Edit, Said
  <2> QED  BY <2>1, TwiceStays
<1>4. CASE Stream
  <2>1. UNCHANGED requests /\ UNCHANGED twice /\ DOMAIN list' = DOMAIN list
    <3>1. PICK s \in DOMAIN streams :
            Admit(s) \/ Refuse(s) \/ Receive(s) \/ Break(s) \/ Resubmit(s)
      BY <1>4 DEF Stream
    <3>2. CASE Receive(s)  BY <3>2 DEF Receive, Patched, Ends
    <3> QED  BY <3>1, <3>2 DEF Admit, Refuse, Break, Resubmit, Ends, view
  <2> QED  BY <2>1, TwiceStays
<1>5. CASE ListRead \/ ListArrives \/ ListFails  BY <1>5, ListingTwice
<1>6. CASE SendDraft \/ CreateServed \/ CreateFails  BY <1>6, CreatesTwice
<1>7. CASE CreateArrives  BY <1>7, CreateArrivesTwice
<1>8. CASE \/ DeleteActive \/ ArchiveProject \/ HideServed \/ HideFails \/ DeleteArrives
           \/ ProjectArrives
  BY <1>8, ArchivingTwice
<1> QED  BY <1>1, <1>2, <1>3, <1>4, <1>5, <1>6, <1>7, <1>8 DEF Next

\* The list is that of the server once its requests are answered, unless an answer was
\* given behind a change it had not seen, or a change was told to have failed; listed
\* twice are only conversations that the opening's list had before their creation was
\* answered (listConversations, sendMessage, deleteActive).
THEOREM ListIsSafe == Spec => []ListIsComplete
<1>1. IInv /\ TwiceFits => ListIsComplete
  <2>1. ASSUME IInv, listing.st = "answered", creates = {}, hide.st = "none", ~ swept
        PROVE  DOMAIN list = alive
    <3>1. Coming = {} /\ Going = {}  BY <2>1 DEF Coming, Going
    <3> QED  BY <2>1, <3>1 DEF IInv, ListFits
  <2> QED  BY <2>1 DEF ListIsComplete, TwiceFits, Doubled
<1>2. Init => TwiceFits
  <2>1. SUFFICES ASSUME Init PROVE TwiceFits  OBVIOUS
  <2>2. creates = {} /\ hide = NoHide /\ list = <<>> /\ twice = <<>>  BY <2>1 DEF Init
  <2>3. Coming = {} /\ DOMAIN list = {} /\ DOMAIN twice = {}  BY <2>2 DEF Coming
  <2> QED  BY <2>2, <2>3 DEF TwiceFits, Doubled
<1>3. IInv /\ TwiceFits /\ [Next]_vars => TwiceFits'  BY NextTwice
<1> QED  BY <1>1, <1>2, <1>3, Invariance, PTL DEF Spec

-----------------------------------------------------------------------------
(* What FlattenSeq makes of a sequence of sequences.  Its recursive function is that of *)
(* IsFlat, which SetInduction shows to exist. *)

\* A set of numbers that holds 0 and each one's successor holds all.
LEMMA SetInduction ==
  ASSUME NEW T, 0 \in T, \A k \in Nat : k \in T => k + 1 \in T
  PROVE  Nat \subseteq T
<1> DEFINE B == Nat \ T
<1>1. SUFFICES ASSUME B # {} PROVE FALSE  OBVIOUS
<1>2. PICK j \in B : \A y \in B : j <= y
  <2>1. B \subseteq Nat  OBVIOUS
  <2> HIDE DEF B
  <2> QED  BY <1>1, <2>1, LeastNumber
<1>3. j # 0 /\ j \in Nat  OBVIOUS
<1>4. j - 1 \in Nat /\ ~ (j <= j - 1) /\ (j - 1) + 1 = j  BY <1>3
<1> QED  BY <1>2, <1>4

\* f is FlattenSeq's function on the first n sequences of ss.
IsFlat(f, ss, n) == f = [i \in 1 .. n |-> IF i = 1 THEN ss[i] ELSE f[i - 1] \o ss[i]]

\* Its values.
LEMMA FlatStep ==
  ASSUME NEW f, NEW ss, NEW n, IsFlat(f, ss, n)
  PROVE  \A i \in 1 .. n : f[i] = IF i = 1 THEN ss[i] ELSE f[i - 1] \o ss[i]
<1> DEFINE g == [i \in 1 .. n |-> IF i = 1 THEN ss[i] ELSE f[i - 1] \o ss[i]]
<1>1. f = g  BY DEF IsFlat
<1>2. \A i \in 1 .. n : g[i] = IF i = 1 THEN ss[i] ELSE f[i - 1] \o ss[i]  OBVIOUS
<1> HIDE DEF g
<1> QED  BY <1>1, <1>2

\* There is one.
LEMMA FlatExists ==
  ASSUME NEW ss, NEW n \in Nat
  PROVE  \E f : IsFlat(f, ss, n)
<1> DEFINE T == {k \in Nat : \E f : IsFlat(f, ss, k)}
<1>1. 0 \in T
  <2>1. \A f : [i \in 1 .. 0 |-> IF i = 1 THEN ss[i] ELSE f[i - 1] \o ss[i]] = <<>>  OBVIOUS
  <2>2. IsFlat(<<>>, ss, 0)  BY <2>1 DEF IsFlat
  <2> QED  BY <2>2
<1>2. ASSUME NEW k \in Nat, k \in T PROVE k + 1 \in T
  <2>1. PICK f : IsFlat(f, ss, k)  BY <1>2
  <2> DEFINE g == [i \in 1 .. k + 1 |->
                     IF i = k + 1 THEN IF i = 1 THEN ss[i] ELSE f[i - 1] \o ss[i] ELSE f[i]]
  <2>2. ASSUME NEW i \in 1 .. k + 1
        PROVE  g[i] = IF i = 1 THEN ss[i] ELSE g[i - 1] \o ss[i]
    <3>1. CASE i = k + 1
      <4>1. i # 1 => i - 1 \in 1 .. k + 1 /\ i - 1 # k + 1  BY <3>1
      <4> QED  BY <3>1, <4>1
    <3>2. CASE i # k + 1
      <4>1. i \in 1 .. k /\ (i # 1 => i - 1 \in 1 .. k)  BY <3>2
      <4>2. f[i] = IF i = 1 THEN ss[i] ELSE f[i - 1] \o ss[i]  BY <2>1, <4>1, FlatStep
      <4> QED  BY <3>2, <4>1, <4>2
    <3> QED  BY <3>1, <3>2
  <2>3. IsFlat(g, ss, k + 1)
    <3>1. g = [i \in 1 .. k + 1 |-> g[i]]  OBVIOUS
    <3> HIDE DEF g
    <3> QED  BY <2>2, <3>1 DEF IsFlat
  <2> QED  BY <2>3
<1>3. Nat \subseteq T
  <2> HIDE DEF T
  <2> QED  BY <1>1, <1>2, SetInduction
<1> QED  BY <1>3

\* Two that are made of sequences that begin alike do.
LEMMA FlatAgrees ==
  ASSUME NEW f, NEW g, NEW ss, NEW tt, NEW n \in Nat, NEW m \in Nat,
         IsFlat(f, ss, n), IsFlat(g, tt, m), n <= m, \A i \in 1 .. n : ss[i] = tt[i]
  PROVE  \A i \in 1 .. n : f[i] = g[i]
<1> DEFINE T == {i \in Nat : i \in 1 .. n => f[i] = g[i]}
<1>1. 0 \in T  OBVIOUS
<1>2. ASSUME NEW i \in Nat, i \in T PROVE i + 1 \in T
  <2>1. SUFFICES ASSUME i + 1 \in 1 .. n PROVE f[i + 1] = g[i + 1]  OBVIOUS
  <2>2. i + 1 \in 1 .. n /\ i + 1 \in 1 .. m /\ ss[i + 1] = tt[i + 1] /\ (i + 1) - 1 = i
    BY <2>1
  <2>3. /\ f[i + 1] = IF i + 1 = 1 THEN ss[i + 1] ELSE f[i] \o ss[i + 1]
        /\ g[i + 1] = IF i + 1 = 1 THEN tt[i + 1] ELSE g[i] \o tt[i + 1]
    <3>1. f[i + 1] = IF i + 1 = 1 THEN ss[i + 1] ELSE f[(i + 1) - 1] \o ss[i + 1]
      BY <2>2, FlatStep
    <3>2. g[i + 1] = IF i + 1 = 1 THEN tt[i + 1] ELSE g[(i + 1) - 1] \o tt[i + 1]
      BY <2>2, FlatStep
    <3> QED  BY <2>2, <3>1, <3>2
  <2>4. i + 1 # 1 => f[i] = g[i]  BY <1>2, <2>1
  <2> QED  BY <2>2, <2>3, <2>4
<1>3. Nat \subseteq T
  <2> HIDE DEF T
  <2> QED  BY <1>1, <1>2, SetInduction
<1> QED  BY <1>3

\* FlattenSeq's value is that function's last.
LEMMA FlattenValue ==
  ASSUME NEW S, NEW ss \in Seq(S), Len(ss) # 0
  PROVE  \E f : IsFlat(f, ss, Len(ss)) /\ FlattenSeq(ss) = f[Len(ss)]
<1> DEFINE f == CHOOSE f : IsFlat(f, ss, Len(ss))
<1>1. IsFlat(f, ss, Len(ss))
  <2>1. Len(ss) \in Nat  OBVIOUS
  <2> QED  BY <2>1, FlatExists
<1>2. FlattenSeq(ss) = f[Len(ss)]  BY DEF FlattenSeq, IsFlat
<1> QED  BY <1>1, <1>2

\* One sequence more.
LEMMA FlattenAppend ==
  ASSUME NEW T, NEW ss \in Seq(Seq(T)), NEW s \in Seq(T)
  PROVE  FlattenSeq(Append(ss, s)) = FlattenSeq(ss) \o s
<1> DEFINE n == Len(ss)
           tt == Append(ss, s)
<1>1. /\ n \in Nat /\ tt \in Seq(Seq(T)) /\ Len(tt) = n + 1 /\ tt[n + 1] = s
      /\ \A i \in 1 .. n : tt[i] = ss[i]
  BY AppendFits
<1> HIDE DEF tt
<1>2. PICK g : IsFlat(g, tt, n + 1) /\ FlattenSeq(tt) = g[n + 1]
  BY <1>1, FlattenValue
<1>3. FlattenSeq(tt) = IF n + 1 = 1 THEN s ELSE g[n] \o s
  <2>1. n + 1 \in 1 .. n + 1 /\ (n + 1) - 1 = n  BY <1>1
  <2>2. g[n + 1] = IF n + 1 = 1 THEN tt[n + 1] ELSE g[(n + 1) - 1] \o tt[n + 1]
    BY <1>2, <2>1, FlatStep
  <2> QED  BY <1>1, <1>2, <2>1, <2>2
<1>4. CASE n = 0
  <2>1. ss = <<>> /\ FlattenSeq(ss) = ss  BY <1>4 DEF FlattenSeq
  <2>2. FlattenSeq(tt) = s  BY <1>3, <1>4
  <2>3. <<>> \o s = s  BY ConcatEmptySeq
  <2> QED  BY <2>1, <2>2, <2>3 DEF tt
<1>5. CASE n # 0
  <2>1. PICK f : IsFlat(f, ss, n) /\ FlattenSeq(ss) = f[n]  BY <1>5, FlattenValue
  <2>2. \A i \in 1 .. n : ss[i] = tt[i]  BY <1>1
  <2>3. n \in 1 .. n /\ n + 1 # 1 /\ n <= n + 1 /\ n <= n /\ n + 1 \in Nat  BY <1>1, <1>5
  <2>4. \A i \in 1 .. n : f[i] = g[i]
    <3> DEFINE m == n + 1
    <3>1. /\ IsFlat(f, ss, n) /\ IsFlat(g, tt, m) /\ n <= m /\ n \in Nat /\ m \in Nat
          /\ \A i \in 1 .. n : ss[i] = tt[i]
      BY <1>1, <1>2, <2>1, <2>2, <2>3
    <3> HIDE DEF m, n
    <3> QED  BY ZenonT(40), <3>1, FlatAgrees
  <2> QED  BY <1>3, <2>1, <2>3, <2>4 DEF tt
<1> QED  BY <1>4, <1>5

\* Nothing to flatten, and the type of what is.
LEMMA FlattenFits ==
  ASSUME NEW T
  PROVE  FlattenSeq(<<>>) = <<>> /\ \A ss \in Seq(Seq(T)) : FlattenSeq(ss) \in Seq(T)
<1>1. FlattenSeq(<<>>) = <<>>  BY DEF FlattenSeq
<1> DEFINE N == {n \in Nat : \A ss \in Seq(Seq(T)) : Len(ss) = n => FlattenSeq(ss) \in Seq(T)}
<1>2. 0 \in N
  <2>1. \A ss \in Seq(Seq(T)) : Len(ss) = 0 => ss = <<>>  OBVIOUS
  <2>2. <<>> \in Seq(T)  OBVIOUS
  <2> QED  BY <1>1, <2>1, <2>2
<1>3. ASSUME NEW n \in Nat, n \in N PROVE n + 1 \in N
  <2>1. SUFFICES ASSUME NEW ss \in Seq(Seq(T)), Len(ss) = n + 1
                 PROVE  FlattenSeq(ss) \in Seq(T)
    BY <1>3
  <2>2. ss # <<>>  BY <2>1
  <2>3. PICK tt \in Seq(Seq(T)), t \in Seq(T) : ss = Append(tt, t)
    BY <2>2, SequenceEmptyOrAppend
  <2>4. Len(tt) = n
    <3>1. Len(Append(tt, t)) = Len(tt) + 1 /\ Len(tt) \in Nat  BY AppendFits
    <3> QED  BY <2>1, <2>3, <3>1
  <2>5. FlattenSeq(tt) \in Seq(T)  BY <1>3, <2>4
  <2>6. FlattenSeq(ss) = FlattenSeq(tt) \o t  BY <2>3, FlattenAppend
  <2> QED  BY <2>5, <2>6, ConcatProperties
<1>4. Nat \subseteq N
  <2> HIDE DEF N
  <2> QED  BY <1>2, <1>3, SetInduction
<1>5. ASSUME NEW ss \in Seq(Seq(T)) PROVE FlattenSeq(ss) \in Seq(T)
  <2>1. Len(ss) \in Nat  OBVIOUS
  <2> QED  BY <1>4, <2>1
<1> QED  BY <1>1, <1>5

-----------------------------------------------------------------------------
(* What bubbles say and what turns do. *)

\* Two elements.
LEMMA Pair ==
  ASSUME NEW S, NEW x \in S, NEW y \in S, NEW s \in Seq(S)
  PROVE  <<x>> \o <<y>> = <<x, y>> /\ s \o <<x, y>> = Append(Append(s, x), y)
<1>1. <<x>> \in Seq(S) /\ Append(<<x>>, y) = <<x, y>>
  <2>1. <<x>> \in Seq(S) /\ Len(<<x>>) = 1 /\ <<x>>[1] = x  OBVIOUS
  <2>2. <<x, y>> \in Seq(S) /\ Len(<<x, y>>) = 2 /\ <<x, y>>[1] = x /\ <<x, y>>[2] = y
    OBVIOUS
  <2> DEFINE p == <<x, y>>
             q == <<x>>
  <2>3. Append(q, y) \in Seq(S) /\ Len(Append(q, y)) = 2 /\ Append(q, y)[1] = x
        /\ Append(q, y)[2] = y
    <3> HIDE DEF q
    <3> QED  BY <2>1, AppendFits DEF q
  <2>4. \A i \in 1 .. 2 : Append(q, y)[i] = p[i]
    <3> HIDE DEF p, q
    <3>1. p[1] = x /\ p[2] = y  BY <2>2 DEF p
    <3>2. \A i \in 1 .. 2 : i = 1 \/ i = 2  OBVIOUS
    <3> QED  BY <2>3, <3>1, <3>2
  <2> HIDE DEF p, q
  <2>5. p \in Seq(S) /\ Len(p) = 2  BY <2>2 DEF p
  <2>6. Append(q, y) = p  BY <2>3, <2>4, <2>5, SeqEqual
  <2> QED  BY <2>1, <2>6 DEF p, q
<1>2. <<x>> \o <<y>> = <<x, y>>  BY <1>1, AppendIsConcat
<1>3. s \o <<x>> = Append(s, x) /\ Append(s, x) \in Seq(S)  BY AppendIsConcat, AppendFits
<1>4. (s \o <<x>>) \o <<y>> = s \o (<<x>> \o <<y>>)
  <2>1. <<y>> \in Seq(S)  OBVIOUS
  <2> QED  BY <1>1, <2>1, ConcatAssociative
<1>5. (s \o <<x>>) \o <<y>> = Append(Append(s, x), y)  BY <1>3, AppendIsConcat
<1> QED  BY <1>2, <1>4, <1>5

\* Three sequences in a row.
LEMMA Three ==
  ASSUME NEW S, NEW s \in Seq(S), NEW t \in Seq(S), NEW u \in Seq(S)
  PROVE  (s \o t) \o u = s \o (t \o u)
BY ConcatAssociative

\* A mapped sequence, one element longer.
LEMMA GotAppend ==
  ASSUME NEW ms \in Seq(Bubbles)
  PROVE  /\ Got(ms) \in Seq(Items)
         /\ \A b \in Bubbles : Got(Append(ms, b)) = Got(ms) \o b.got
<1> DEFINE G(m) == [i \in DOMAIN m |-> m[i].got]
<1>1. \A b \in Bubbles : b.got \in Seq(Items)  BY DEF Bubbles, Items
<1>2. ASSUME NEW m \in Seq(Bubbles) PROVE G(m) \in Seq(Seq(Items)) /\ Len(G(m)) = Len(m)
  <2>1. \A i \in 1 .. Len(m) : m[i].got \in Seq(Items)  BY <1>1
  <2> QED  BY <2>1
<1>3. Got(ms) \in Seq(Items)
  <2>1. G(ms) \in Seq(Seq(Items))  BY <1>2
  <2> HIDE DEF G
  <2>2. FlattenSeq(G(ms)) \in Seq(Items)  BY <2>1, FlattenFits
  <2> QED  BY <2>2 DEF Got, G
<1>4. ASSUME NEW b \in Bubbles PROVE Got(Append(ms, b)) = Got(ms) \o b.got
  <2>1. G(Append(ms, b)) = Append(G(ms), b.got)
    <3>1. Append(ms, b) \in Seq(Bubbles)  OBVIOUS
    <3>2. \A i \in 1 .. Len(ms) + 1 : G(Append(ms, b))[i] = Append(G(ms), b.got)[i]
      OBVIOUS
    <3>3. /\ G(Append(ms, b)) \in Seq(Seq(Items)) /\ Append(G(ms), b.got) \in Seq(Seq(Items))
          /\ Len(G(Append(ms, b))) = Len(ms) + 1 /\ Len(Append(G(ms), b.got)) = Len(ms) + 1
      <4> HIDE DEF G
      <4>1. G(ms) \in Seq(Seq(Items)) /\ b.got \in Seq(Items) /\ Len(G(ms)) = Len(ms)
        BY <1>1, <1>2
      <4>2. Len(Append(ms, b)) = Len(ms) + 1  OBVIOUS
      <4>3. G(Append(ms, b)) \in Seq(Seq(Items)) /\ Len(G(Append(ms, b))) = Len(ms) + 1
        BY <1>2, <3>1, <4>2
      <4>4. /\ Append(G(ms), b.got) \in Seq(Seq(Items))
            /\ Len(Append(G(ms), b.got)) = Len(G(ms)) + 1
        BY <4>1, AppendFits
      <4> QED  BY <4>1, <4>3, <4>4
    <3> HIDE DEF G
    <3> QED  BY <3>2, <3>3, SeqEqual
  <2>2. G(ms) \in Seq(Seq(Items)) /\ b.got \in Seq(Items)  BY <1>1, <1>2
  <2> HIDE DEF G
  <2>3. FlattenSeq(Append(G(ms), b.got)) = FlattenSeq(G(ms)) \o b.got  BY <2>2, FlattenAppend
  <2> QED  BY <2>1, <2>3 DEF Got, G
<1> QED  BY <1>3, <1>4

\* No bubbles.
LEMMA GotEmpty == Got(<<>>) = <<>>
<1>1. [i \in DOMAIN <<>> |-> <<>>[i].got] = <<>>  OBVIOUS
<1> QED  BY <1>1, FlattenFits DEF Got

\* The bubbles of one turn's items.
LEMMA TurnFits ==
  ASSUME NEW t \in TurnRecords
  PROVE  /\ TurnItems(t) \in Seq(Items) /\ Len(TurnItems(t)) = t.out + 1
         /\ \A i \in 1 .. t.out + 1 : TurnItems(t)[i] = <<t.id, i - 1>>
<1>1. t.out \in Nat /\ t.id \in Nat  BY DEF TurnRecords
<1>2. \A i \in 1 .. t.out + 1 : <<t.id, i - 1>> \in Items  BY <1>1 DEF Items
<1> QED  BY <1>1, <1>2 DEF TurnItems

\* One turn more.
LEMMA ItemsAppend ==
  ASSUME NEW ts \in Seq(TurnRecords)
  PROVE  /\ ItemsOf(ts) \in Seq(Items)
         /\ \A t \in TurnRecords : ItemsOf(Append(ts, t)) = ItemsOf(ts) \o TurnItems(t)
<1> DEFINE G(m) == [i \in DOMAIN m |-> TurnItems(m[i])]
<1>1. \A t \in TurnRecords : TurnItems(t) \in Seq(Items)  BY TurnFits
<1>2. ASSUME NEW m \in Seq(TurnRecords) PROVE G(m) \in Seq(Seq(Items)) /\ Len(G(m)) = Len(m)
  <2>1. \A i \in 1 .. Len(m) : TurnItems(m[i]) \in Seq(Items)  BY <1>1
  <2> QED  BY <2>1
<1>3. ItemsOf(ts) \in Seq(Items)
  <2>1. G(ts) \in Seq(Seq(Items))  BY <1>2
  <2> HIDE DEF G
  <2>2. FlattenSeq(G(ts)) \in Seq(Items)  BY <2>1, FlattenFits
  <2> QED  BY <2>2 DEF ItemsOf, G
<1>4. ASSUME NEW t \in TurnRecords PROVE ItemsOf(Append(ts, t)) = ItemsOf(ts) \o TurnItems(t)
  <2>1. G(Append(ts, t)) = Append(G(ts), TurnItems(t))
    <3>1. Append(ts, t) \in Seq(TurnRecords)  OBVIOUS
    <3>2. \A i \in 1 .. Len(ts) + 1 : G(Append(ts, t))[i] = Append(G(ts), TurnItems(t))[i]
      OBVIOUS
    <3>3. /\ G(Append(ts, t)) \in Seq(Seq(Items)) /\ Append(G(ts), TurnItems(t)) \in Seq(Seq(Items))
          /\ Len(G(Append(ts, t))) = Len(ts) + 1 /\ Len(Append(G(ts), TurnItems(t))) = Len(ts) + 1
      <4> HIDE DEF G
      <4>1. G(ts) \in Seq(Seq(Items)) /\ TurnItems(t) \in Seq(Items) /\ Len(G(ts)) = Len(ts)
        BY <1>1, <1>2
      <4>2. Len(Append(ts, t)) = Len(ts) + 1  OBVIOUS
      <4>3. G(Append(ts, t)) \in Seq(Seq(Items)) /\ Len(G(Append(ts, t))) = Len(ts) + 1
        BY <1>2, <3>1, <4>2
      <4>4. /\ Append(G(ts), TurnItems(t)) \in Seq(Seq(Items))
            /\ Len(Append(G(ts), TurnItems(t))) = Len(G(ts)) + 1
        BY <4>1, AppendFits
      <4> QED  BY <4>1, <4>3, <4>4
    <3> HIDE DEF G
    <3> QED  BY <3>2, <3>3, SeqEqual
  <2>2. G(ts) \in Seq(Seq(Items)) /\ TurnItems(t) \in Seq(Items)  BY <1>1, <1>2
  <2> HIDE DEF G
  <2>3. FlattenSeq(Append(G(ts), TurnItems(t))) = FlattenSeq(G(ts)) \o TurnItems(t)
    BY <2>2, FlattenAppend
  <2> QED  BY <2>1, <2>3 DEF ItemsOf, G
<1> QED  BY <1>3, <1>4

\* No turns.
LEMMA ItemsEmpty == ItemsOf(<<>>) = <<>>
<1>1. [i \in DOMAIN <<>> |-> TurnItems(<<>>[i])] = <<>>  OBVIOUS
<1> QED  BY <1>1, FlattenFits DEF ItemsOf

\* The bubbles of a stored turn.
TurnBubbles(t) ==
  <<UserMsg(t.id)>> \o
  IF t.out = 0 THEN <<>> ELSE <<[got |-> Tail(TurnItems(t)), key |-> 0]>>

\* They say what it did.
LEMMA TurnBubblesFit ==
  ASSUME NEW t \in TurnRecords
  PROVE  /\ TurnBubbles(t) \in Seq(Bubbles) /\ TurnBubbles(t) # <<>>
         /\ \A i \in DOMAIN TurnBubbles(t) : TurnBubbles(t)[i].key = 0
         /\ \A ms \in Seq(Bubbles) : Got(ms \o TurnBubbles(t)) = Got(ms) \o TurnItems(t)
<1> DEFINE u == UserMsg(t.id)
           a == [got |-> Tail(TurnItems(t)), key |-> 0]
<1>1. t.id \in Nat /\ t.out \in Nat  BY DEF TurnRecords
<1>2. TurnItems(t) \in Seq(Items) /\ Len(TurnItems(t)) = t.out + 1 /\ TurnItems(t) # <<>>
      /\ TurnItems(t)[1] = <<t.id, 0>>
  <2>1. 1 \in 1 .. t.out + 1  BY <1>1
  <2> QED  BY <1>1, <2>1, TurnFits
<1>3. u \in Bubbles /\ u.got = <<<<t.id, 0>>>> /\ u.key = 0
  <2> DEFINE e == <<t.id, 0>>
  <2>1. e \in Items  BY <1>1 DEF Items
  <2> HIDE DEF e
  <2>2. <<e>> \in Seq(Items)  BY <2>1
  <2>3. [got |-> <<e>>, key |-> 0] \in Bubbles  BY <2>2 DEF Bubbles
  <2> QED  BY <2>3 DEF UserMsg, e
<1>4. a \in Bubbles /\ a.got = Tail(TurnItems(t)) /\ a.key = 0
  <2>1. Tail(TurnItems(t)) \in Seq(Items)  BY <1>2, HeadTailProperties
  <2> QED  BY <2>1 DEF Bubbles
<1>5. u.got \o a.got = TurnItems(t)
  <2>1. <<TurnItems(t)[1]>> \o Tail(TurnItems(t)) = TurnItems(t)  BY <1>2
  <2> QED  BY <1>2, <1>3, <1>4, <2>1
<1> HIDE DEF u, a
<1>6. CASE t.out = 0
  <2>1. TurnBubbles(t) = <<u>>
    <3>1. <<u>> \o <<>> = <<u>>  BY <1>3
    <3> QED  BY <1>6, <3>1 DEF TurnBubbles, u
  <2>2. TurnItems(t) = u.got
    <3>1. Len(TurnItems(t)) = 1  BY <1>1, <1>2, <1>6
    <3> QED  BY <1>2, <1>3, <3>1
  <2>3. ASSUME NEW ms \in Seq(Bubbles) PROVE Got(ms \o <<u>>) = Got(ms) \o u.got
    <3>1. ms \o <<u>> = Append(ms, u)  BY <1>3, AppendIsConcat
    <3> QED  BY <1>3, <3>1, GotAppend
  <2>4. <<u>> \in Seq(Bubbles) /\ <<u>> # <<>> /\ DOMAIN <<u>> = {1} /\ <<u>>[1] = u
    BY <1>3
  <2> QED  BY <1>3, <2>1, <2>2, <2>3, <2>4
<1>7. CASE t.out # 0
  <2>1. TurnBubbles(t) = <<u, a>>
    <3>1. <<u>> \o <<a>> = <<u, a>>
      <4>1. u \in Bubbles /\ a \in Bubbles /\ <<u>> \in Seq(Bubbles)  BY <1>3, <1>4
      <4> QED  BY <4>1, Pair
    <3> QED  BY <1>7, <3>1 DEF TurnBubbles, u, a
  <2>2. ASSUME NEW ms \in Seq(Bubbles) PROVE Got(ms \o <<u, a>>) = Got(ms) \o TurnItems(t)
    <3>1. ms \o <<u, a>> = Append(Append(ms, u), a) /\ Append(ms, u) \in Seq(Bubbles)
      BY <1>3, <1>4
    <3>2. Got(ms \o <<u, a>>) = (Got(ms) \o u.got) \o a.got
      BY <1>3, <1>4, <3>1, GotAppend
    <3>3. Got(ms) \in Seq(Items) /\ u.got \in Seq(Items) /\ a.got \in Seq(Items)
      BY <1>3, <1>4, GotAppend DEF Bubbles, Items
    <3>4. (Got(ms) \o u.got) \o a.got = Got(ms) \o (u.got \o a.got)
      <4> DEFINE x == Got(ms)
                 y == u.got
                 z == a.got
      <4>1. x \in Seq(Items) /\ y \in Seq(Items) /\ z \in Seq(Items)  BY <3>3
      <4> HIDE DEF x, y, z
      <4>2. (x \o y) \o z = x \o (y \o z)  BY <4>1, Three
      <4> QED  BY <4>2 DEF x, y, z
    <3> QED  BY <1>5, <3>2, <3>4
  <2>3. /\ <<u, a>> \in Seq(Bubbles) /\ <<u, a>> # <<>> /\ DOMAIN <<u, a>> = {1, 2}
        /\ <<u, a>>[1] = u /\ <<u, a>>[2] = a
    BY <1>3, <1>4
  <2> QED  BY <1>3, <1>4, <2>1, <2>2, <2>3
<1> QED  BY <1>1, <1>6, <1>7

\* What two runs of bubbles say.
LEMMA GotConcat ==
  ASSUME NEW ms \in Seq(Bubbles)
  PROVE  \A ns \in Seq(Bubbles) : Got(ms \o ns) = Got(ms) \o Got(ns)
<1> DEFINE N == {n \in Nat : \A ns \in Seq(Bubbles) :
                   Len(ns) = n => Got(ms \o ns) = Got(ms) \o Got(ns)}
<1>1. 0 \in N
  <2>1. \A ns \in Seq(Bubbles) : Len(ns) = 0 => ns = <<>>  OBVIOUS
  <2>2. ms \o <<>> = ms  BY ConcatEmptySeq
  <2>3. Got(ms) \o Got(<<>>) = Got(ms)
    <3>1. Got(ms) \in Seq(Items)  BY GotAppend
    <3> QED  BY <3>1, GotEmpty, ConcatEmptySeq
  <2> QED  BY <2>1, <2>2, <2>3
<1>2. ASSUME NEW n \in Nat, n \in N PROVE n + 1 \in N
  <2>1. SUFFICES ASSUME NEW ns \in Seq(Bubbles), Len(ns) = n + 1
                 PROVE  Got(ms \o ns) = Got(ms) \o Got(ns)
    BY <1>2
  <2>2. ns # <<>>  BY <2>1
  <2>3. PICK ps \in Seq(Bubbles), b \in Bubbles : ns = Append(ps, b)
    BY <2>2, SequenceEmptyOrAppend
  <2>4. Len(ps) = n
    <3>1. Len(Append(ps, b)) = Len(ps) + 1 /\ Len(ps) \in Nat  BY AppendFits
    <3> QED  BY <2>1, <2>3, <3>1
  <2>5. Got(ms \o ps) = Got(ms) \o Got(ps)  BY <1>2, <2>4
  <2>6. ms \o ns = Append(ms \o ps, b) /\ ms \o ps \in Seq(Bubbles)
    <3>1. <<b>> \in Seq(Bubbles) /\ ns = ps \o <<b>>  BY <2>3, AppendIsConcat
    <3>2. (ms \o ps) \o <<b>> = ms \o (ps \o <<b>>)  BY <3>1, Three
    <3>3. ms \o ps \in Seq(Bubbles)  BY ConcatProperties
    <3> QED  BY <3>1, <3>2, <3>3, AppendIsConcat
  <2>7. Got(ms \o ns) = Got(ms \o ps) \o b.got /\ Got(ns) = Got(ps) \o b.got
    BY <2>3, <2>6, GotAppend
  <2>8. (Got(ms) \o Got(ps)) \o b.got = Got(ms) \o (Got(ps) \o b.got)
    <3> DEFINE x == Got(ms)
               y == Got(ps)
               z == b.got
    <3>1. x \in Seq(Items) /\ y \in Seq(Items) /\ z \in Seq(Items)
      BY GotAppend DEF Bubbles, Items
    <3> HIDE DEF x, y, z
    <3>2. (x \o y) \o z = x \o (y \o z)  BY SMTT(40), <3>1, Three
    <3> QED  BY <3>2 DEF x, y, z
  <2> QED  BY <2>5, <2>7, <2>8
<1>3. Nat \subseteq N
  <2> HIDE DEF N
  <2> QED  BY <1>1, <1>2, SetInduction
<1>4. ASSUME NEW ns \in Seq(Bubbles) PROVE Got(ms \o ns) = Got(ms) \o Got(ns)
  <2>1. Len(ns) \in Nat  OBVIOUS
  <2> QED  BY <1>3, <2>1
<1> QED  BY <1>4

\* One more bubble among the rebuilt.
LEMMA RebuiltAppend ==
  ASSUME NEW ts \in Seq(TurnRecords)
  PROVE  /\ Rebuilt(ts) \in Seq(Bubbles)
         /\ \A t \in TurnRecords : Rebuilt(Append(ts, t)) = Rebuilt(ts) \o TurnBubbles(t)
<1> DEFINE G(m) == [i \in DOMAIN m |-> TurnBubbles(m[i])]
<1>1. \A t \in TurnRecords : TurnBubbles(t) \in Seq(Bubbles)  BY TurnBubblesFit
<1>2. ASSUME NEW m \in Seq(TurnRecords) PROVE G(m) \in Seq(Seq(Bubbles)) /\ Len(G(m)) = Len(m)
  <2>1. \A i \in 1 .. Len(m) : TurnBubbles(m[i]) \in Seq(Bubbles)  BY <1>1
  <2> QED  BY <2>1
<1>3. \A m : Rebuilt(m) = FlattenSeq(G(m))  BY DEF Rebuilt, TurnBubbles
<1>4. Rebuilt(ts) \in Seq(Bubbles)
  <2>1. G(ts) \in Seq(Seq(Bubbles))  BY <1>2
  <2> HIDE DEF G
  <2>2. FlattenSeq(G(ts)) \in Seq(Bubbles)  BY <2>1, FlattenFits
  <2> QED  BY <1>3, <2>2
<1>5. ASSUME NEW t \in TurnRecords PROVE Rebuilt(Append(ts, t)) = Rebuilt(ts) \o TurnBubbles(t)
  <2>1. G(Append(ts, t)) = Append(G(ts), TurnBubbles(t))
    <3>1. Append(ts, t) \in Seq(TurnRecords)  OBVIOUS
    <3>2. \A i \in 1 .. Len(ts) + 1 : G(Append(ts, t))[i] = Append(G(ts), TurnBubbles(t))[i]
      OBVIOUS
    <3>3. /\ G(Append(ts, t)) \in Seq(Seq(Bubbles))
          /\ Append(G(ts), TurnBubbles(t)) \in Seq(Seq(Bubbles))
          /\ Len(G(Append(ts, t))) = Len(ts) + 1 /\ Len(Append(G(ts), TurnBubbles(t))) = Len(ts) + 1
      <4> HIDE DEF G
      <4>1. G(ts) \in Seq(Seq(Bubbles)) /\ TurnBubbles(t) \in Seq(Bubbles) /\ Len(G(ts)) = Len(ts)
        BY <1>1, <1>2
      <4>2. Len(Append(ts, t)) = Len(ts) + 1  OBVIOUS
      <4>3. G(Append(ts, t)) \in Seq(Seq(Bubbles)) /\ Len(G(Append(ts, t))) = Len(ts) + 1
        BY <1>2, <3>1, <4>2
      <4>4. /\ Append(G(ts), TurnBubbles(t)) \in Seq(Seq(Bubbles))
            /\ Len(Append(G(ts), TurnBubbles(t))) = Len(G(ts)) + 1
        BY <4>1, AppendFits
      <4> QED  BY <4>1, <4>3, <4>4
    <3> HIDE DEF G
    <3> QED  BY <3>2, <3>3, SeqEqual
  <2>2. G(ts) \in Seq(Seq(Bubbles)) /\ TurnBubbles(t) \in Seq(Bubbles)  BY <1>1, <1>2
  <2> HIDE DEF G
  <2>3. FlattenSeq(Append(G(ts), TurnBubbles(t))) = FlattenSeq(G(ts)) \o TurnBubbles(t)
    BY <2>2, FlattenAppend
  <2> QED  BY <1>3, <2>1, <2>3
<1> QED  BY <1>4, <1>5

\* Rebuilt bubbles say what the turns did; no stream's is among them.
LEMMA RebuiltFits ==
  ASSUME NEW ts \in Seq(TurnRecords)
  PROVE  /\ Rebuilt(ts) \in Seq(Bubbles) /\ Got(Rebuilt(ts)) = ItemsOf(ts)
         /\ \A i \in DOMAIN Rebuilt(ts) : Rebuilt(ts)[i].key = 0
         /\ ts # <<>> => Rebuilt(ts) # <<>>
<1> DEFINE P(m) == /\ Got(Rebuilt(m)) = ItemsOf(m)
                   /\ \A i \in DOMAIN Rebuilt(m) : Rebuilt(m)[i].key = 0
                   /\ m # <<>> => Rebuilt(m) # <<>>
           N == {n \in Nat : \A m \in Seq(TurnRecords) : Len(m) = n => P(m)}
<1>1. 0 \in N
  <2>1. \A m \in Seq(TurnRecords) : Len(m) = 0 => m = <<>>  OBVIOUS
  <2>2. Rebuilt(<<>>) = <<>>
    <3>1. [i \in DOMAIN <<>> |-> TurnBubbles(<<>>[i])] = <<>>  OBVIOUS
    <3>2. Rebuilt(<<>>) = FlattenSeq([i \in DOMAIN <<>> |-> TurnBubbles(<<>>[i])])
      BY DEF Rebuilt, TurnBubbles
    <3> QED  BY <3>1, <3>2, FlattenFits
  <2>3. P(<<>>)  BY <2>2, GotEmpty, ItemsEmpty
  <2> HIDE DEF P
  <2> QED  BY <2>1, <2>3
<1>2. ASSUME NEW n \in Nat, n \in N PROVE n + 1 \in N
  <2>1. SUFFICES ASSUME NEW m \in Seq(TurnRecords), Len(m) = n + 1 PROVE P(m)
    BY <1>2
  <2>2. m # <<>>  BY <2>1
  <2>3. PICK ps \in Seq(TurnRecords), t \in TurnRecords : m = Append(ps, t)
    BY <2>2, SequenceEmptyOrAppend
  <2>4. Len(ps) = n
    <3>1. Len(Append(ps, t)) = Len(ps) + 1 /\ Len(ps) \in Nat  BY AppendFits
    <3> QED  BY <2>1, <2>3, <3>1
  <2>5. P(ps)  BY <1>2, <2>4
  <2>6. Rebuilt(m) = Rebuilt(ps) \o TurnBubbles(t) /\ Rebuilt(ps) \in Seq(Bubbles)
    BY <2>3, RebuiltAppend
  <2>7. /\ TurnBubbles(t) \in Seq(Bubbles) /\ TurnBubbles(t) # <<>>
        /\ \A i \in DOMAIN TurnBubbles(t) : TurnBubbles(t)[i].key = 0
        /\ Got(Rebuilt(ps) \o TurnBubbles(t)) = Got(Rebuilt(ps)) \o TurnItems(t)
    BY <2>6, TurnBubblesFit
  <2>8. Got(Rebuilt(m)) = ItemsOf(m)
    <3>1. ItemsOf(m) = ItemsOf(ps) \o TurnItems(t)  BY <2>3, ItemsAppend
    <3> QED  BY <2>5, <2>6, <2>7, <3>1
  <2>9. /\ \A i \in DOMAIN Rebuilt(m) : Rebuilt(m)[i].key = 0
        /\ Rebuilt(m) # <<>>
    <3> DEFINE x == Rebuilt(ps)
               y == TurnBubbles(t)
    <3>1. /\ x \in Seq(Bubbles) /\ y \in Seq(Bubbles) /\ y # <<>> /\ Rebuilt(m) = x \o y
          /\ \A i \in DOMAIN x : x[i].key = 0
          /\ \A i \in DOMAIN y : y[i].key = 0
      BY <2>5, <2>6, <2>7
    <3> HIDE DEF x, y, P, N
    <3>2. \A i \in DOMAIN (x \o y) : (x \o y)[i].key = 0
      <4>1. /\ Len(x) \in Nat /\ Len(y) \in Nat /\ DOMAIN (x \o y) = 1 .. Len(x) + Len(y)
            /\ \A i \in 1 .. Len(x) : (x \o y)[i] = x[i]
            /\ \A i \in 1 .. Len(y) : (x \o y)[Len(x) + i] = y[i]
            /\ DOMAIN x = 1 .. Len(x) /\ DOMAIN y = 1 .. Len(y)
        BY <3>1, ConcatProperties
      <4>2. ASSUME NEW i \in 1 .. Len(x) + Len(y) PROVE (x \o y)[i].key = 0
        <5>1. CASE i \in 1 .. Len(x)  BY <3>1, <4>1, <5>1
        <5>2. CASE i \notin 1 .. Len(x)
          <6>1. i - Len(x) \in 1 .. Len(y) /\ Len(x) + (i - Len(x)) = i  BY <4>1, <5>2
          <6>2. (x \o y)[i] = y[i - Len(x)]  BY <4>1, <6>1
          <6> QED  BY <3>1, <4>1, <6>1, <6>2
        <5> QED  BY <5>1, <5>2
      <4> QED  BY <4>1, <4>2
    <3>3. x \o y # <<>>
      <4>1. Len(x \o y) = Len(x) + Len(y) /\ Len(x) \in Nat /\ Len(y) \in Nat /\ Len(y) # 0
        BY <3>1, ConcatProperties
      <4> QED  BY <4>1
    <3> QED  BY <3>1, <3>2, <3>3
  <2> QED  BY <2>8, <2>9
<1>3. Nat \subseteq N
  <2> HIDE DEF N
  <2> QED  BY <1>1, <1>2, SetInduction
<1>4. P(ts)
  <2>1. Len(ts) \in Nat  OBVIOUS
  <2> HIDE DEF P
  <2> QED  BY <1>3, <2>1
<1> QED  BY <1>4, RebuiltAppend

-----------------------------------------------------------------------------
(* Nothing twice. *)

\* An element more.
LEMMA OnceAppend ==
  ASSUME NEW S, NEW s \in Seq(S), NEW e \in S
  PROVE  /\ Range(Append(s, e)) = Range(s) \cup {e}
         /\ IsInjective(s) /\ e \notin Range(s) => IsInjective(Append(s, e))
<1> DEFINE t == Append(s, e)
<1>1. /\ Len(s) \in Nat /\ DOMAIN s = 1 .. Len(s) /\ DOMAIN t = 1 .. Len(s) + 1
      /\ t[Len(s) + 1] = e /\ \A i \in 1 .. Len(s) : t[i] = s[i]
  <2>1. t \in Seq(S) /\ Len(t) = Len(s) + 1  BY AppendFits
  <2> QED  BY <2>1, AppendFits
<1> HIDE DEF t
<1>2. Range(t) = Range(s) \cup {e}
  <2>1. ASSUME NEW x \in Range(t) PROVE x \in Range(s) \cup {e}
    <3>1. PICK i \in 1 .. Len(s) + 1 : x = t[i]  BY <1>1 DEF Range
    <3>2. i \in 1 .. Len(s) \/ i = Len(s) + 1  BY <1>1
    <3> QED  BY <1>1, <3>1, <3>2 DEF Range
  <2>2. ASSUME NEW x \in Range(s) PROVE x \in Range(t)
    <3>1. PICK i \in 1 .. Len(s) : x = s[i]  BY <1>1 DEF Range
    <3>2. i \in 1 .. Len(s) + 1 /\ t[i] = x  BY <1>1, <3>1
    <3> QED  BY <1>1, <3>2 DEF Range
  <2>3. e \in Range(t)
    <3>1. Len(s) + 1 \in 1 .. Len(s) + 1  BY <1>1
    <3> QED  BY <1>1, <3>1 DEF Range
  <2> QED  BY <2>1, <2>2, <2>3
<1>3. ASSUME IsInjective(s), e \notin Range(s) PROVE IsInjective(t)
  <2>1. \A i \in 1 .. Len(s) : s[i] # e  BY <1>1, <1>3 DEF Range
  <2>2. \A i, j \in 1 .. Len(s) : s[i] = s[j] => i = j  BY <1>1, <1>3 DEF IsInjective
  <2>3. \A i \in 1 .. Len(s) + 1 : i \in 1 .. Len(s) \/ i = Len(s) + 1  BY <1>1
  <2>4. \A i, j \in 1 .. Len(s) + 1 : t[i] = t[j] => i = j
    BY <1>1, <2>1, <2>2, <2>3
  <2> QED  BY <1>1, <2>4 DEF IsInjective
<1> QED  BY <1>2, <1>3 DEF t

\* Two in a row.
LEMMA ConcatFits ==
  ASSUME NEW S, NEW s \in Seq(S), NEW t \in Seq(S)
  PROVE  /\ s \o t \in Seq(S) /\ Len(s \o t) = Len(s) + Len(t)
         /\ \A i \in 1 .. Len(s) : (s \o t)[i] = s[i]
         /\ \A i \in 1 .. Len(t) : (s \o t)[Len(s) + i] = t[i]
BY ConcatProperties

\* One in front.
LEMMA Prefixed ==
  ASSUME NEW S, NEW e \in S, NEW s \in Seq(S)
  PROVE  /\ <<e>> \o s \in Seq(S) /\ Len(<<e>> \o s) = 1 + Len(s) /\ (<<e>> \o s)[1] = e
         /\ \A i \in 1 .. Len(s) : (<<e>> \o s)[1 + i] = s[i]
<1> DEFINE q == <<e>>
<1>1. q \in Seq(S) /\ Len(q) = 1 /\ q[1] = e /\ 1 \in 1 .. 1  OBVIOUS
<1> HIDE DEF q
<1>2. /\ q \o s \in Seq(S) /\ Len(q \o s) = Len(q) + Len(s)
      /\ \A i \in 1 .. Len(q) : (q \o s)[i] = q[i]
      /\ \A i \in 1 .. Len(s) : (q \o s)[Len(q) + i] = s[i]
  BY <1>1, ConcatFits
<1>3. /\ q \o s \in Seq(S) /\ Len(q \o s) = 1 + Len(s) /\ (q \o s)[1] = e
      /\ \A i \in 1 .. Len(s) : (q \o s)[1 + i] = s[i]
  BY <1>1, <1>2
<1> QED  BY <1>3 DEF q

\* Two in a row: the parts keep what the whole has, and the whole what they have apart.
LEMMA OnceConcat ==
  ASSUME NEW S, NEW s \in Seq(S), NEW t \in Seq(S)
  PROVE  /\ Range(s \o t) = Range(s) \cup Range(t)
         /\ IsInjective(s \o t) => IsInjective(s)
         /\ IsInjective(s) /\ IsInjective(t) /\ Range(s) \cap Range(t) = {} => IsInjective(s \o t)
<1> DEFINE u == s \o t
           m == Len(s)
           n == Len(t)
<1>1. /\ m \in Nat /\ n \in Nat /\ DOMAIN s = 1 .. m /\ DOMAIN t = 1 .. n
      /\ DOMAIN u = 1 .. m + n
      /\ \A i \in 1 .. m : u[i] = s[i]
      /\ \A i \in 1 .. n : u[m + i] = t[i]
  BY ConcatProperties
<1>2. \A i \in 1 .. m + n : i \in 1 .. m \/ (i - m \in 1 .. n /\ u[i] = t[i - m])
  <2>1. ASSUME NEW i \in 1 .. m + n, i \notin 1 .. m PROVE i - m \in 1 .. n /\ u[i] = t[i - m]
    <3>1. i - m \in 1 .. n /\ m + (i - m) = i  BY <1>1, <2>1
    <3> QED  BY <1>1, <3>1
  <2> QED  BY <2>1
<1>3. \A i \in 1 .. n : m + i \in 1 .. m + n /\ m + i \notin 1 .. m  BY <1>1
<1>4. \A i \in 1 .. m : i \in 1 .. m + n  BY <1>1
<1> HIDE DEF u, m, n
<1>5. Range(u) = Range(s) \cup Range(t)
  <2>1. Range(u) \subseteq Range(s) \cup Range(t)  BY <1>1, <1>2 DEF Range
  <2>2. Range(s) \subseteq Range(u)  BY <1>1, <1>4 DEF Range
  <2>3. Range(t) \subseteq Range(u)
    <3>1. ASSUME NEW x \in Range(t) PROVE x \in Range(u)
      <4>1. PICK i \in 1 .. n : x = t[i]  BY <1>1 DEF Range
      <4> DEFINE k == m + i
      <4>2. k \in 1 .. m + n /\ u[k] = x  BY <1>1, <1>3, <4>1
      <4> HIDE DEF k
      <4> QED  BY <1>1, <4>2 DEF Range
    <3> QED  BY <3>1
  <2> QED  BY <2>1, <2>2, <2>3
<1>6. IsInjective(u) => IsInjective(s)  BY <1>1, <1>4 DEF IsInjective
<1>7. ASSUME IsInjective(s), IsInjective(t), Range(s) \cap Range(t) = {} PROVE IsInjective(u)
  <2>1. SUFFICES ASSUME NEW i \in 1 .. m + n, NEW j \in 1 .. m + n, u[i] = u[j] PROVE i = j
    BY <1>1 DEF IsInjective
  <2>2. \A a \in 1 .. m : \A b \in 1 .. n : s[a] # t[b]  BY <1>1, <1>7 DEF Range
  <2>3. CASE i \in 1 .. m /\ j \in 1 .. m  BY <1>1, <1>7, <2>1, <2>3 DEF IsInjective
  <2>4. CASE i \notin 1 .. m /\ j \notin 1 .. m
    <3>1. i - m \in 1 .. n /\ j - m \in 1 .. n /\ t[i - m] = t[j - m]  BY <1>2, <2>1, <2>4
    <3>2. i - m = j - m  BY <1>1, <1>7, <3>1 DEF IsInjective
    <3> QED  BY <1>1, <3>2
  <2>5. CASE i \in 1 .. m /\ j \notin 1 .. m  BY <1>1, <1>2, <2>1, <2>2, <2>5
  <2>6. CASE i \notin 1 .. m /\ j \in 1 .. m
    <3>1. i - m \in 1 .. n /\ u[i] = t[i - m] /\ u[j] = s[j]  BY <1>1, <1>2, <2>6
    <3> QED  BY <2>1, <2>2, <2>6, <3>1
  <2> QED  BY <2>3, <2>4, <2>5, <2>6
<1> QED  BY <1>5, <1>6, <1>7 DEF u

-----------------------------------------------------------------------------
(* What turns do. *)

\* Turns in which each message has an id of its own.
OwnIds(ts) == \A i, j \in DOMAIN ts : ts[i].id = ts[j].id => i = j

\* What one turn does is its own, and nothing is done twice.
LEMMA TurnItemsOnce ==
  ASSUME NEW t \in TurnRecords
  PROVE  /\ IsInjective(TurnItems(t))
         /\ \A x \in Range(TurnItems(t)) : x[1] = t.id /\ x[2] \in Nat /\ x[2] <= t.out
<1>1. t.out \in Nat /\ DOMAIN TurnItems(t) = 1 .. t.out + 1
      /\ \A i \in 1 .. t.out + 1 : TurnItems(t)[i] = <<t.id, i - 1>>
  <2>1. t.out \in Nat  BY DEF TurnRecords
  <2> QED  BY <2>1, TurnFits
<1>2. \A i, j \in 1 .. t.out + 1 : <<t.id, i - 1>> = <<t.id, j - 1>> => i = j  BY <1>1
<1>3. IsInjective(TurnItems(t))  BY <1>1, <1>2 DEF IsInjective
<1>4. ASSUME NEW x \in Range(TurnItems(t))
      PROVE  x[1] = t.id /\ x[2] \in Nat /\ x[2] <= t.out
  <2>1. PICK i \in 1 .. t.out + 1 : x = <<t.id, i - 1>>  BY <1>1 DEF Range
  <2> QED  BY <1>1, <2>1
<1> QED  BY <1>3, <1>4

\* Whatever is done is some turn's, and nothing is done twice.
LEMMA ItemsOnce ==
  ASSUME NEW ts \in Seq(TurnRecords)
  PROVE  /\ \A x \in Range(ItemsOf(ts)) :
              \E j \in DOMAIN ts : ts[j].id = x[1] /\ x[2] \in Nat /\ x[2] <= ts[j].out
         /\ OwnIds(ts) => IsInjective(ItemsOf(ts))
<1> DEFINE P(m) == /\ \A x \in Range(ItemsOf(m)) :
                        \E j \in DOMAIN m : m[j].id = x[1] /\ x[2] \in Nat /\ x[2] <= m[j].out
                   /\ OwnIds(m) => IsInjective(ItemsOf(m))
           N == {n \in Nat : \A m \in Seq(TurnRecords) : Len(m) = n => P(m)}
<1>1. 0 \in N
  <2>1. \A m \in Seq(TurnRecords) : Len(m) = 0 => m = <<>>  OBVIOUS
  <2>2. P(<<>>)  BY ItemsEmpty DEF Range, IsInjective
  <2> HIDE DEF P
  <2> QED  BY <2>1, <2>2
<1>2. ASSUME NEW n \in Nat, n \in N PROVE n + 1 \in N
  <2>1. SUFFICES ASSUME NEW m \in Seq(TurnRecords), Len(m) = n + 1 PROVE P(m)
    BY <1>2
  <2>2. m # <<>>  BY <2>1
  <2>3. PICK ps \in Seq(TurnRecords), t \in TurnRecords : m = Append(ps, t)
    BY <2>2, SequenceEmptyOrAppend
  <2>4. /\ Len(ps) = n /\ m[n + 1] = t /\ \A i \in 1 .. n : m[i] = ps[i]
        /\ DOMAIN m = 1 .. n + 1 /\ DOMAIN ps = 1 .. n
    <3>1. /\ Len(Append(ps, t)) = Len(ps) + 1 /\ Len(ps) \in Nat /\ m[Len(ps) + 1] = t
          /\ \A i \in 1 .. Len(ps) : m[i] = ps[i]
      BY <2>3, AppendFits
    <3> QED  BY <2>1, <2>3, <3>1
  <2>5. P(ps)  BY <1>2, <2>4
  <2> DEFINE x == ItemsOf(ps)
             y == TurnItems(t)
  <2>6. ItemsOf(m) = x \o y /\ x \in Seq(Items) /\ y \in Seq(Items)
    BY <2>3, ItemsAppend, TurnFits
  <2>7. /\ IsInjective(y)
        /\ \A z \in Range(y) : z[1] = t.id /\ z[2] \in Nat /\ z[2] <= t.out
    BY TurnItemsOnce
  <2>8. \A z \in Range(x) :
          \E j \in 1 .. n : ps[j].id = z[1] /\ z[2] \in Nat /\ z[2] <= ps[j].out
    BY <2>4, <2>5
  <2> HIDE DEF x, y
  <2>9. Range(x \o y) = Range(x) \cup Range(y)  BY <2>6, OnceConcat
  <2>10. ASSUME NEW z \in Range(ItemsOf(m))
         PROVE  \E j \in DOMAIN m : m[j].id = z[1] /\ z[2] \in Nat /\ z[2] <= m[j].out
    <3>1. CASE z \in Range(x)
      <4>1. PICK j \in 1 .. n : ps[j].id = z[1] /\ z[2] \in Nat /\ z[2] <= ps[j].out
        BY <2>8, <3>1
      <4>2. j \in 1 .. n + 1 /\ m[j] = ps[j]  BY <2>4
      <4> QED  BY <2>4, <4>1, <4>2
    <3>2. CASE z \in Range(y)
      <4>1. n + 1 \in DOMAIN m /\ m[n + 1] = t  BY <2>4
      <4> QED  BY <2>7, <3>2, <4>1
    <3> QED  BY <2>6, <2>9, <2>10, <3>1, <3>2
  <2>11. ASSUME OwnIds(m) PROVE IsInjective(ItemsOf(m))
    <3>1. OwnIds(ps)
      <4>1. \A i \in 1 .. n : i \in 1 .. n + 1  OBVIOUS
      <4> QED  BY <2>4, <2>11, <4>1 DEF OwnIds
    <3>2. IsInjective(x)  BY <2>5, <3>1 DEF x
    <3>3. Range(x) \cap Range(y) = {}
      <4>1. \A j \in 1 .. n : ps[j].id # t.id
        <5>1. n + 1 \in 1 .. n + 1 /\ \A j \in 1 .. n : j \in 1 .. n + 1 /\ j # n + 1  OBVIOUS
        <5> QED  BY <2>4, <2>11, <5>1 DEF OwnIds
      <4> QED  BY <2>7, <2>8, <4>1
    <3>4. IsInjective(x \o y)  BY <2>6, <2>7, <3>2, <3>3, OnceConcat
    <3> QED  BY <2>6, <3>4
  <2> HIDE DEF N
  <2> QED  BY <2>10, <2>11
<1>3. Nat \subseteq N
  <2> HIDE DEF N
  <2> QED  BY <1>1, <1>2, SetInduction
<1>4. P(ts)
  <2>1. Len(ts) \in Nat  OBVIOUS
  <2> HIDE DEF P
  <2> QED  BY <1>3, <2>1
<1> QED  BY <1>4

\* The same ids and rounds.
SameRounds(rs, ts) ==
  Len(rs) = Len(ts) /\ \A j \in DOMAIN rs : rs[j].id = ts[j].id /\ rs[j].out = ts[j].out

\* What turns do is told by their ids and rounds.
LEMMA ItemsSame ==
  ASSUME NEW rs \in Seq(TurnRecords), NEW ts \in Seq(TurnRecords), SameRounds(rs, ts)
  PROVE  ItemsOf(rs) = ItemsOf(ts)
<1> DEFINE n == Len(rs)
           f == [i \in 1 .. n |-> TurnItems(rs[i])]
           g == [i \in 1 .. n |-> TurnItems(ts[i])]
<1>1. DOMAIN rs = 1 .. n /\ DOMAIN ts = 1 .. n  BY DEF SameRounds
<1>2. \A i \in 1 .. n : TurnItems(rs[i]) = TurnItems(ts[i])
  BY <1>1 DEF SameRounds, TurnItems
<1>3. f = g  BY <1>2
<1>4. ItemsOf(rs) = FlattenSeq(f) /\ ItemsOf(ts) = FlattenSeq(g)
  BY <1>1 DEF ItemsOf
<1> HIDE DEF f, g
<1> QED  BY <1>3, <1>4

\* A log is its last turn behind the others.
LEMMA LastTurn ==
  ASSUME NEW ts \in Seq(TurnRecords), ts # <<>>
  PROVE  /\ Len(ts) \in Nat /\ Len(ts) >= 1 /\ DOMAIN ts = 1 .. Len(ts)
         /\ Last(ts) = ts[Len(ts)] /\ Last(ts) \in TurnRecords
         /\ Front(ts) \in Seq(TurnRecords) /\ Len(Front(ts)) = Len(ts) - 1
         /\ \A i \in 1 .. Len(ts) - 1 : Front(ts)[i] = ts[i]
         /\ ts = Append(Front(ts), Last(ts))
<1>1. Len(ts) \in Nat /\ Len(ts) >= 1 /\ DOMAIN ts = 1 .. Len(ts) /\ Last(ts) = ts[Len(ts)]
      /\ Last(ts) \in TurnRecords
  <2>1. Len(ts) \in Nat /\ Len(ts) # 0 /\ DOMAIN ts = 1 .. Len(ts)  OBVIOUS
  <2>2. ts[Len(ts)] \in TurnRecords  BY <2>1
  <2> QED  BY <2>1, <2>2 DEF Last
<1>2. PICK s \in Seq(TurnRecords), e \in TurnRecords : ts = Append(s, e)
  BY SequenceEmptyOrAppend
<1>3. /\ Len(ts) = Len(s) + 1 /\ ts[Len(s) + 1] = e /\ Len(s) \in Nat
      /\ \A i \in 1 .. Len(s) : ts[i] = s[i]
  BY <1>2, AppendFits
<1>4. Front(ts) = SubSeq(ts, 1, Len(ts) - 1)  BY DEF Front
<1>5. SubSeq(ts, 1, Len(ts) - 1) = s
  <2>1. /\ SubSeq(ts, 1, Len(s)) \in Seq(TurnRecords)
        /\ Len(SubSeq(ts, 1, Len(s))) = Len(s)
        /\ \A i \in 1 .. Len(s) : SubSeq(ts, 1, Len(s))[i] = ts[i]
    <3>1. \A i \in 1 .. Len(s) : ts[i] \in TurnRecords  BY <1>1, <1>3
    <3> QED  BY <1>3, <3>1, SubSeqProperties
  <2>2. SubSeq(ts, 1, Len(s)) = s  BY <1>3, <2>1, SeqEqual
  <2> QED  BY <1>3, <2>2
<1> QED  BY <1>1, <1>2, <1>3, <1>4, <1>5

\* The last turn put in its place again, with as many rounds.
LEMMA ItemsKept ==
  ASSUME NEW ts \in Seq(TurnRecords), ts # <<>>, NEW t \in TurnRecords,
         t.id = Last(ts).id, t.out = Last(ts).out
  PROVE  /\ Append(Front(ts), t) \in Seq(TurnRecords)
         /\ SameRounds(Append(Front(ts), t), ts)
         /\ ItemsOf(Append(Front(ts), t)) = ItemsOf(ts)
<1> DEFINE n == Len(ts)
           us == Append(Front(ts), t)
<1>1. /\ n \in Nat /\ n >= 1 /\ DOMAIN ts = 1 .. n /\ Last(ts) = ts[n]
      /\ Front(ts) \in Seq(TurnRecords) /\ Len(Front(ts)) = n - 1
      /\ \A i \in 1 .. n - 1 : Front(ts)[i] = ts[i]
  BY LastTurn
<1>2. /\ us \in Seq(TurnRecords) /\ Len(us) = (n - 1) + 1 /\ us[(n - 1) + 1] = t
      /\ \A i \in 1 .. n - 1 : us[i] = Front(ts)[i]
  <2>1. /\ us \in Seq(TurnRecords) /\ Len(us) = Len(Front(ts)) + 1 /\ us[Len(Front(ts)) + 1] = t
        /\ \A i \in 1 .. Len(Front(ts)) : us[i] = Front(ts)[i]
    <3> DEFINE f == Front(ts)
    <3>1. f \in Seq(TurnRecords)  BY <1>1
    <3> HIDE DEF f
    <3>2. /\ Append(f, t) \in Seq(TurnRecords) /\ Len(Append(f, t)) = Len(f) + 1
          /\ Append(f, t)[Len(f) + 1] = t /\ \A i \in 1 .. Len(f) : Append(f, t)[i] = f[i]
      BY <3>1, AppendFits
    <3> QED  BY <3>2 DEF f
  <2> HIDE DEF us, n
  <2> QED  BY <1>1, <2>1
<1> HIDE DEF us, n
<1>3. SameRounds(us, ts)
  <2>1. Len(us) = n /\ DOMAIN us = 1 .. n /\ us[n] = t  BY <1>1, <1>2
  <2>2. \A i \in 1 .. n : i \in 1 .. n - 1 \/ i = n  BY <1>1
  <2> QED  BY <1>1, <1>2, <2>1, <2>2 DEF SameRounds, n
<1> QED  BY <1>2, <1>3, ItemsSame DEF us

\* The rounds to come of the last turn.
LEMMA AheadFits ==
  ASSUME NEW ts \in Seq(TurnRecords), ts # <<>>, NEW n \in 1 .. Last(ts).out + 1
  PROVE  /\ Ahead(ts, n) \in Seq(Items) /\ Len(Ahead(ts, n)) = Last(ts).out + 1 - n
         /\ \A i \in 1 .. Last(ts).out + 1 - n : Ahead(ts, n)[i] = <<Last(ts).id, n - 1 + i>>
         /\ n = Last(ts).out + 1 => Ahead(ts, n) = <<>>
<1> DEFINE m == Last(ts).out + 1 - n
<1>1. Last(ts) \in TurnRecords  BY LastTurn
<1>2. Last(ts).out \in Nat /\ Last(ts).id \in Nat  BY <1>1 DEF TurnRecords
<1>3. m \in Nat  BY <1>2
<1>4. \A i \in 1 .. m : <<Last(ts).id, n - 1 + i>> \in Items  BY <1>2 DEF Items
<1>5. Ahead(ts, n) = [i \in 1 .. m |-> <<Last(ts).id, n - 1 + i>>]  BY DEF Ahead
<1>6. n = Last(ts).out + 1 => m = 0  BY <1>2
<1> HIDE DEF m
<1>7. [i \in 1 .. m |-> <<Last(ts).id, n - 1 + i>>] \in Seq(Items)
      /\ Len([i \in 1 .. m |-> <<Last(ts).id, n - 1 + i>>]) = m
  <2> DEFINE f == [i \in 1 .. m |-> <<Last(ts).id, n - 1 + i>>]
  <2>1. f \in [1 .. m -> Items]  BY <1>4
  <2> HIDE DEF f
  <2>2. f \in Seq(Items) /\ Len(f) = m  BY <1>3, <2>1
  <2> QED  BY <2>2 DEF f
<1>8. m = 0 => [i \in 1 .. m |-> <<Last(ts).id, n - 1 + i>>] = <<>>  BY <1>3
<1> QED  BY <1>5, <1>6, <1>7, <1>8 DEF m

\* The next of them is shown.
LEMMA AheadNext ==
  ASSUME NEW ts \in Seq(TurnRecords), ts # <<>>, NEW n \in 1 .. Last(ts).out,
         NEW g \in Seq(Items), g \o Ahead(ts, n) = ItemsOf(ts)
  PROVE  Append(g, <<Last(ts).id, n>>) \o Ahead(ts, n + 1) = ItemsOf(ts)
<1> DEFINE e == <<Last(ts).id, n>>
           a == Ahead(ts, n)
           b == Ahead(ts, n + 1)
           m == Last(ts).out
<1>1. m \in Nat /\ Last(ts).id \in Nat
  <2>1. Last(ts) \in TurnRecords  BY LastTurn
  <2> QED  BY <2>1 DEF TurnRecords
<1>2. n \in 1 .. m + 1 /\ n + 1 \in 1 .. m + 1 /\ e \in Items  BY <1>1 DEF Items
<1>3. /\ a \in Seq(Items) /\ Len(a) = m + 1 - n
      /\ \A i \in 1 .. m + 1 - n : a[i] = <<Last(ts).id, n - 1 + i>>
  BY <1>2, AheadFits
<1>4. /\ b \in Seq(Items) /\ Len(b) = m + 1 - (n + 1)
      /\ \A i \in 1 .. m + 1 - (n + 1) : b[i] = <<Last(ts).id, (n + 1) - 1 + i>>
  BY <1>2, AheadFits
<1>5. <<e>> \in Seq(Items) /\ Len(<<e>>) = 1 /\ <<e>>[1] = e  BY <1>2
<1> DEFINE q == <<e>>
<1>6. a = q \o b
  <2> HIDE DEF a, b, q
  <2>1. /\ q \o b \in Seq(Items) /\ Len(q \o b) = 1 + Len(b) /\ (q \o b)[1] = e
        /\ \A i \in 1 .. Len(b) : (q \o b)[1 + i] = b[i]
    <3>1. b \in Seq(Items)  BY <1>4
    <3> HIDE DEF e
    <3> QED  BY <1>2, <3>1, Prefixed DEF q
  <2>2. Len(q \o b) = Len(a)  BY SMTT(40), <1>1, <1>3, <1>4, <2>1
  <2>3. ASSUME NEW i \in 1 .. Len(a) PROVE a[i] = (q \o b)[i]
    <3>1. CASE i = 1
      <4>1. a[1] = <<Last(ts).id, n - 1 + 1>>  BY <1>1, <1>3, <2>3, <3>1
      <4>2. n - 1 + 1 = n  BY <1>2
      <4> QED  BY <2>1, <3>1, <4>1, <4>2
    <3>2. CASE i # 1
      <4> DEFINE k == i - 1
      <4>1. k \in 1 .. Len(b) /\ 1 + k = i /\ k \in 1 .. m + 1 - (n + 1)
            /\ (n + 1) - 1 + k = n - 1 + i
        BY <1>1, <1>3, <1>4, <3>2
      <4>2. a[i] = <<Last(ts).id, n - 1 + i>>  BY <1>3
      <4> HIDE DEF k
      <4>3. b[k] = <<Last(ts).id, n - 1 + i>> /\ (q \o b)[i] = b[k]  BY <1>4, <2>1, <4>1
      <4> QED  BY <4>2, <4>3
    <3> QED  BY <3>1, <3>2
  <2> QED  BY <1>3, <2>1, <2>2, <2>3, SeqEqual
<1>7. Append(g, e) = g \o q
  BY <1>2, AppendIsConcat
<1>8. (g \o q) \o b = g \o (q \o b)  BY SMTT(40), <1>4, <1>5, Three
<1> QED  BY <1>6, <1>7, <1>8

\* A round more.
LEMMA AheadGrows ==
  ASSUME NEW ts \in Seq(TurnRecords), ts # <<>>, NEW n \in 1 .. Last(ts).out + 1,
         NEW g \in Seq(Items), g \o Ahead(ts, n) = ItemsOf(ts),
         NEW t \in TurnRecords, t.id = Last(ts).id, t.out = Last(ts).out + 1
  PROVE  g \o Ahead(Append(Front(ts), t), n) = ItemsOf(Append(Front(ts), t))
<1> DEFINE us == Append(Front(ts), t)
           m == Last(ts).out
           a == Ahead(ts, n)
           b == Ahead(us, n)
           e == <<t.id, m + 1>>
           f == Front(ts)
<1>1. /\ m \in Nat /\ t.id \in Nat /\ f \in Seq(TurnRecords) /\ Last(ts) \in TurnRecords
      /\ ts = Append(f, Last(ts)) /\ e \in Items
  <2>1. Last(ts) \in TurnRecords /\ f \in Seq(TurnRecords) /\ ts = Append(f, Last(ts))
    BY LastTurn
  <2> QED  BY <2>1 DEF TurnRecords, Items
<1>2. us \in Seq(TurnRecords) /\ us # <<>> /\ Last(us) = t
  <2>1. /\ us \in Seq(TurnRecords) /\ Len(us) = Len(f) + 1 /\ us[Len(f) + 1] = t
        /\ Len(f) \in Nat
    BY <1>1, AppendFits
  <2> QED  BY <2>1 DEF Last
<1>3. TurnItems(t) = Append(TurnItems(Last(ts)), e)
  <2> DEFINE x == TurnItems(t)
             y == TurnItems(Last(ts))
  <2>1. /\ x \in Seq(Items) /\ Len(x) = m + 1 + 1
        /\ \A i \in 1 .. m + 1 + 1 : x[i] = <<t.id, i - 1>>
    BY <1>1, TurnFits
  <2>2. /\ y \in Seq(Items) /\ Len(y) = m + 1 /\ \A i \in 1 .. m + 1 : y[i] = <<t.id, i - 1>>
    BY <1>1, TurnFits
  <2> HIDE DEF x, y
  <2>3. /\ Append(y, e) \in Seq(Items) /\ Len(Append(y, e)) = m + 1 + 1
        /\ Append(y, e)[m + 1 + 1] = e /\ \A i \in 1 .. m + 1 : Append(y, e)[i] = y[i]
    BY <1>1, <2>2, AppendFits
  <2>4. \A i \in 1 .. m + 1 + 1 : i \in 1 .. m + 1 \/ (i = m + 1 + 1 /\ i - 1 = m + 1)
    BY <1>1
  <2>5. \A i \in 1 .. m + 1 + 1 : x[i] = Append(y, e)[i]
    BY <2>1, <2>2, <2>3, <2>4
  <2>6. x = Append(y, e)  BY <2>1, <2>3, <2>5, SeqEqual
  <2> QED  BY <2>6 DEF x, y
<1>4. ItemsOf(us) = Append(ItemsOf(ts), e)
  <2> DEFINE x == ItemsOf(f)
             y == TurnItems(Last(ts))
  <2>1. ItemsOf(us) = x \o Append(y, e) /\ ItemsOf(ts) = x \o y
    BY <1>1, <1>3, ItemsAppend
  <2>2. x \in Seq(Items) /\ y \in Seq(Items)  BY <1>1, ItemsAppend, TurnFits
  <2> HIDE DEF x, y, e
  <2>3. <<e>> \in Seq(Items)  BY <1>1
  <2>4. Append(y, e) = y \o <<e>> /\ Append(x \o y, e) = (x \o y) \o <<e>>
    BY <1>1, <2>2, AppendIsConcat, ConcatProperties
  <2>5. x \o (y \o <<e>>) = (x \o y) \o <<e>>  BY <2>2, <2>3, Three
  <2> QED  BY <2>1, <2>4, <2>5
<1>5. b = Append(a, e)
  <2>1. /\ n \in 1 .. m + 1 /\ n \in 1 .. Last(us).out + 1
    BY <1>1, <1>2
  <2>2. /\ a \in Seq(Items) /\ Len(a) = m + 1 - n
        /\ \A i \in 1 .. m + 1 - n : a[i] = <<t.id, n - 1 + i>>
    BY <2>1, AheadFits
  <2>3. /\ b \in Seq(Items) /\ Len(b) = m + 1 + 1 - n
        /\ \A i \in 1 .. m + 1 + 1 - n : b[i] = <<t.id, n - 1 + i>>
    <3>1. Last(us).out = m + 1  BY <1>2
    <3> HIDE DEF us
    <3> QED  BY <1>2, <2>1, <3>1, AheadFits
  <2> HIDE DEF a, b
  <2>4. /\ Append(a, e) \in Seq(Items) /\ Len(Append(a, e)) = Len(a) + 1
        /\ Append(a, e)[Len(a) + 1] = e /\ \A i \in 1 .. Len(a) : Append(a, e)[i] = a[i]
    BY SMTT(40), <1>1, <2>2, AppendFits
  <2>5. Len(a) + 1 = m + 1 + 1 - n /\ n - 1 + (Len(a) + 1) = m + 1  BY SMTT(40), <1>1, <2>1, <2>2
  <2>6. \A i \in 1 .. m + 1 + 1 - n : i \in 1 .. Len(a) \/ i = Len(a) + 1
    BY SMTT(40), <1>1, <2>1, <2>2
  <2>7. ASSUME NEW i \in 1 .. m + 1 + 1 - n PROVE b[i] = Append(a, e)[i]
    <3>1. CASE i \in 1 .. Len(a)  BY <2>2, <2>3, <2>4, <3>1
    <3>2. CASE i = Len(a) + 1
      <4>1. b[i] = <<t.id, n - 1 + i>> /\ n - 1 + i = m + 1  BY <2>3, <2>5, <3>2
      <4> QED  BY <2>4, <3>2, <4>1
    <3> QED  BY <2>6, <3>1, <3>2
  <2>8. Len(b) = Len(Append(a, e)) /\ Len(b) = m + 1 + 1 - n  BY <2>3, <2>4, <2>5
  <2> HIDE DEF e, m
  <2> QED  BY <2>3, <2>4, <2>7, <2>8, SeqEqual
<1>6. g \o Append(a, e) = Append(g \o a, e)
  <2>1. a \in Seq(Items)  BY AheadFits
  <2> HIDE DEF a, e
  <2>2. <<e>> \in Seq(Items)  BY <1>1
  <2>3. Append(a, e) = a \o <<e>> /\ Append(g \o a, e) = (g \o a) \o <<e>>
    BY <1>1, <2>1, AppendIsConcat, ConcatProperties
  <2>4. g \o (a \o <<e>>) = (g \o a) \o <<e>>  BY <2>1, <2>2, Three
  <2> QED  BY <2>3, <2>4
<1> QED  BY <1>4, <1>5, <1>6

\* Turns grow and grow on.
LEMMA GrownOn ==
  ASSUME NEW rs \in Seq(TurnRecords), NEW ts \in Seq(TurnRecords), NEW us \in Seq(TurnRecords),
         Grown(rs, ts), Grown(ts, us)
  PROVE  Grown(rs, us)
<1>1. /\ Len(rs) \in Nat /\ Len(ts) \in Nat /\ Len(us) \in Nat
      /\ Len(rs) <= Len(ts) /\ Len(ts) <= Len(us)
      /\ DOMAIN rs = 1 .. Len(rs) /\ DOMAIN ts = 1 .. Len(ts) /\ DOMAIN us = 1 .. Len(us)
  BY DEF Grown
<1>4. LiveIn(us) => LiveIn(rs) \/ Len(us) > Len(rs)
  <2>1. LiveIn(us) => LiveIn(ts) \/ Len(us) > Len(ts)  BY DEF Grown
  <2>2. LiveIn(ts) => LiveIn(rs) \/ Len(ts) > Len(rs)  BY DEF Grown
  <2> QED  BY <1>1, <2>1, <2>2
<1>2. ASSUME NEW j \in 1 .. Len(rs)
      PROVE  /\ rs[j].id = us[j].id /\ rs[j].out <= us[j].out
             /\ j < Len(rs) => rs[j].out = us[j].out
  <2>1. j \in 1 .. Len(ts) /\ j \in 1 .. Len(us) /\ (j < Len(rs) => j < Len(ts))  BY <1>1
  <2>2. rs[j].out \in Nat /\ ts[j].out \in Nat /\ us[j].out \in Nat
    <3>1. rs[j] \in TurnRecords /\ ts[j] \in TurnRecords /\ us[j] \in TurnRecords
      BY <1>1, <2>1
    <3> QED  BY <3>1 DEF TurnRecords
  <2>3. /\ rs[j].id = ts[j].id /\ rs[j].out <= ts[j].out
        /\ j < Len(rs) => rs[j].out = ts[j].out
    BY <1>1 DEF Grown
  <2>4. /\ ts[j].id = us[j].id /\ ts[j].out <= us[j].out
        /\ j < Len(ts) => ts[j].out = us[j].out
    BY <1>1, <2>1 DEF Grown
  <2>5. rs[j].out <= us[j].out  BY <2>2, <2>3, <2>4
  <2> QED  BY <2>1, <2>3, <2>4, <2>5
<1>3. Len(rs) <= Len(us)  BY <1>1
<1> QED  BY <1>1, <1>2, <1>3, <1>4 DEF Grown

\* Turns that stay have grown.
LEMMA GrownSame ==
  ASSUME NEW ts \in Seq(TurnRecords)
  PROVE  Grown(ts, ts)
<1>1. Len(ts) \in Nat /\ \A j \in DOMAIN ts : ts[j].out \in Nat
  <2>1. \A j \in DOMAIN ts : ts[j] \in TurnRecords  OBVIOUS
  <2> QED  BY <2>1 DEF TurnRecords
<1> QED  BY <1>1 DEF Grown

\* A turn more, or a round more in the last.
LEMMA GrownAppend ==
  ASSUME NEW ts \in Seq(TurnRecords), NEW t \in TurnRecords
  PROVE  /\ Grown(ts, Append(ts, t))
         /\ ts # <<>> /\ t.id = Last(ts).id /\ Last(ts).out <= t.out
              /\ (t.end = "live" => Last(ts).end = "live")
              => Grown(ts, Append(Front(ts), t))
<1> DEFINE n == Len(ts)
<1>1. n \in Nat /\ DOMAIN ts = 1 .. n /\ \A j \in 1 .. n : ts[j].out \in Nat
  <2>1. \A j \in DOMAIN ts : ts[j] \in TurnRecords  OBVIOUS
  <2> QED  BY <2>1 DEF TurnRecords
<1>2. Grown(ts, Append(ts, t))
  <2>1. /\ Len(Append(ts, t)) = n + 1 /\ \A i \in 1 .. n : Append(ts, t)[i] = ts[i]
    BY AppendFits
  <2>2. n <= n + 1 /\ n + 1 > n /\ \A j \in 1 .. n : ts[j].out <= ts[j].out  BY <1>1
  <2> QED  BY <1>1, <2>1, <2>2 DEF Grown
<1>3. ASSUME ts # <<>>, t.id = Last(ts).id, Last(ts).out <= t.out,
             t.end = "live" => Last(ts).end = "live"
      PROVE  Grown(ts, Append(Front(ts), t))
  <2> DEFINE f == Front(ts)
             us == Append(f, t)
  <2>1. /\ n >= 1 /\ Last(ts) = ts[n] /\ f \in Seq(TurnRecords) /\ Len(f) = n - 1
        /\ \A i \in 1 .. n - 1 : f[i] = ts[i]
    BY <1>3, LastTurn
  <2> HIDE DEF f
  <2>2. /\ Len(us) = Len(f) + 1 /\ us[Len(f) + 1] = t
        /\ \A i \in 1 .. Len(f) : us[i] = f[i]
    BY <2>1, AppendFits
  <2> HIDE DEF us
  <2>3. Len(us) = n /\ us[n] = t /\ \A i \in 1 .. n - 1 : us[i] = ts[i]
    BY <1>1, <2>1, <2>2
  <2> HIDE DEF n
  <2>4. ASSUME NEW j \in 1 .. n
        PROVE  /\ ts[j].id = us[j].id /\ ts[j].out <= us[j].out
               /\ j < n => ts[j].out = us[j].out
    <3>1. CASE j = n  BY <1>1, <1>3, <2>1, <2>3, <3>1
    <3>2. CASE j # n
      <4>1. j \in 1 .. n - 1  BY <1>1, <3>2
      <4>2. us[j] = ts[j]  BY <2>3, <4>1
      <4> QED  BY <1>1, <4>2
    <3> QED  BY <3>1, <3>2
  <2>5. n <= Len(us)  BY <1>1, <2>3
  <2>6. LiveIn(us) => LiveIn(ts)
    <3>1. Last(us) = t  BY <2>3 DEF Last
    <3> QED  BY <1>3, <3>1 DEF LiveIn
  <2> QED  BY <1>1, <2>4, <2>5, <2>6 DEF Grown, us, f, n
<1> QED  BY <1>2, <1>3

\* What is still to come of rows that were read in the last turn.
LEMMA RowsRest ==
  ASSUME NEW rs \in Seq(TurnRecords), NEW ts \in Seq(TurnRecords), rs # <<>>,
         Grown(rs, ts), Len(rs) = Len(ts)
  PROVE  /\ ts # <<>> /\ rs[Len(rs)].out + 1 \in 1 .. Last(ts).out + 1
         /\ ItemsOf(rs) \o Ahead(ts, rs[Len(rs)].out + 1) = ItemsOf(ts)
         /\ rs[Len(rs)].out = Last(ts).out => ItemsOf(rs) = ItemsOf(ts)
<1> DEFINE m == Len(rs)
           r == rs[m]
           t == Last(ts)
           p == Front(rs)
           q == Front(ts)
           k == r.out + 1
<1>1. /\ m \in Nat /\ m >= 1 /\ DOMAIN rs = 1 .. m /\ Last(rs) = r /\ r \in TurnRecords
      /\ p \in Seq(TurnRecords) /\ Len(p) = m - 1 /\ \A i \in 1 .. m - 1 : p[i] = rs[i]
      /\ rs = Append(p, r)
  BY LastTurn
<1>2. ts # <<>>  BY <1>1
<1>3. /\ DOMAIN ts = 1 .. m /\ t = ts[m] /\ t \in TurnRecords
      /\ q \in Seq(TurnRecords) /\ Len(q) = m - 1 /\ \A i \in 1 .. m - 1 : q[i] = ts[i]
      /\ ts = Append(q, t)
  BY <1>2, LastTurn
<1>4. r.out \in Nat /\ t.out \in Nat /\ r.id \in Nat  BY <1>1, <1>3 DEF TurnRecords
<1>5. /\ r.id = t.id /\ r.out <= t.out
      /\ \A i \in 1 .. m - 1 : rs[i].id = ts[i].id /\ rs[i].out = ts[i].out
  <2>1. m \in 1 .. m /\ \A i \in 1 .. m - 1 : i \in 1 .. m /\ i < m  BY <1>1
  <2> QED  BY <1>1, <1>3, <2>1 DEF Grown
<1>6. k \in 1 .. t.out + 1  BY <1>4, <1>5
<1>7. ItemsOf(p) = ItemsOf(q)
  <2> HIDE DEF p, q, m, r, t
  <2>1. DOMAIN p = 1 .. m - 1 /\ Len(p) = Len(q)  BY <1>1, <1>3
  <2>2. \A i \in 1 .. m - 1 : p[i].id = q[i].id /\ p[i].out = q[i].out
    BY <1>1, <1>3, <1>5
  <2>3. SameRounds(p, q)  BY <2>1, <2>2 DEF SameRounds
  <2> QED  BY <1>1, <1>3, <2>3, ItemsSame
<1>8. TurnItems(r) \o Ahead(ts, k) = TurnItems(t)
  <2> DEFINE x == TurnItems(r)
             y == Ahead(ts, k)
             z == TurnItems(t)
  <2>1. /\ x \in Seq(Items) /\ Len(x) = r.out + 1
        /\ \A i \in 1 .. r.out + 1 : x[i] = <<r.id, i - 1>>
    BY <1>1, TurnFits
  <2>2. /\ y \in Seq(Items) /\ Len(y) = t.out + 1 - k
        /\ \A i \in 1 .. t.out + 1 - k : y[i] = <<t.id, k - 1 + i>>
    BY <1>2, <1>6, AheadFits
  <2>3. /\ z \in Seq(Items) /\ Len(z) = t.out + 1
        /\ \A i \in 1 .. t.out + 1 : z[i] = <<t.id, i - 1>>
    BY <1>3, TurnFits
  <2> HIDE DEF x, y, z
  <2>4. /\ x \o y \in Seq(Items) /\ Len(x \o y) = Len(x) + Len(y)
        /\ \A i \in 1 .. Len(x) : (x \o y)[i] = x[i]
        /\ \A i \in 1 .. Len(y) : (x \o y)[Len(x) + i] = y[i]
    <3>1. x \in Seq(Items) /\ y \in Seq(Items)  BY <2>1, <2>2
    <3> QED  BY <3>1, ConcatFits
  <2>5. ASSUME NEW i \in 1 .. t.out + 1 PROVE (x \o y)[i] = z[i]
    <3>1. CASE i \in 1 .. k  BY <1>4, <1>5, <2>1, <2>3, <2>4, <3>1
    <3>2. CASE i \notin 1 .. k
      <4> DEFINE j == i - k
      <4>1. j \in 1 .. Len(y) /\ Len(x) + j = i /\ k - 1 + j = i - 1
        <5>1. r.out \in Nat /\ t.out \in Nat /\ Len(x) = r.out + 1 /\ Len(y) = t.out + 1 - k
          BY <1>4, <2>1, <2>2
        <5>2. i \in 1 .. t.out + 1 /\ ~ (i \in 1 .. r.out + 1)  BY <3>2
        <5> HIDE DEF r, t
        <5> QED  BY SMTT(40), <5>1, <5>2
      <4> HIDE DEF j
      <4>2. (x \o y)[i] = y[j] /\ y[j] = <<t.id, i - 1>>
        BY <2>2, <2>4, <4>1
      <4> QED  BY <2>3, <4>2
    <3> QED  BY <3>1, <3>2
  <2>6. Len(x \o y) = t.out + 1  BY <1>4, <1>6, <2>1, <2>2, <2>4
  <2> HIDE DEF t, r, k
  <2>7. x \o y = z  BY ZenonT(40), <2>3, <2>4, <2>5, <2>6, SeqEqual
  <2> QED  BY <2>7 DEF x, y, z
<1>9. ItemsOf(rs) = ItemsOf(p) \o TurnItems(r) /\ ItemsOf(ts) = ItemsOf(q) \o TurnItems(t)
  BY <1>1, <1>3, ItemsAppend
<1>10. (ItemsOf(p) \o TurnItems(r)) \o Ahead(ts, k) = ItemsOf(p) \o (TurnItems(r) \o Ahead(ts, k))
  <2> DEFINE x == ItemsOf(p)
             y == TurnItems(r)
             z == Ahead(ts, k)
  <2>1. x \in Seq(Items) /\ y \in Seq(Items) /\ z \in Seq(Items)
    BY <1>1, <1>2, <1>6, ItemsAppend, TurnFits, AheadFits
  <2> HIDE DEF x, y, z
  <2>2. (x \o y) \o z = x \o (y \o z)  BY <2>1, Three
  <2> QED  BY <2>2 DEF x, y, z
<1>11. ItemsOf(rs) \o Ahead(ts, k) = ItemsOf(ts)  BY <1>7, <1>8, <1>9, <1>10
<1>12. ASSUME r.out = t.out PROVE ItemsOf(rs) = ItemsOf(ts)
  <2>1. TurnItems(r) = TurnItems(t)  BY <1>5, <1>12 DEF TurnItems
  <2> QED  BY <1>7, <1>9, <2>1
<1> QED  BY <1>2, <1>6, <1>11, <1>12

-----------------------------------------------------------------------------
(* What is shown, step by step: how the parts of the invariant go on. *)

\* Types of what the steps look at.
LEMMA HeldFacts ==
  ASSUME IInv
  PROVE  /\ acts \in Nat /\ Len(streams) \in Nat /\ held \in 0 .. Len(streams)
         /\ DOMAIN streams = 1 .. Len(streams)
         /\ \A c \in Convs : log[c] \in Seq(TurnRecords)
         /\ held # 0 =>
              /\ held \in DOMAIN streams /\ streams[held].state = "open"
              /\ streams[held].conv \in Convs
              /\ streams[held].served => streams[held].turn \in Nat /\ streams[held].n \in Nat
<1>1. /\ acts \in Nat /\ Len(streams) \in Nat /\ held \in 0 .. Len(streams)
      /\ DOMAIN streams = 1 .. Len(streams)
      /\ \A s \in 1 .. Len(streams) : streams[s] \in StreamRecords
  BY StreamNumbers DEF IInv, CountsFit, ChannelFits
<1>2. \A c \in Convs : log[c] \in Seq(TurnRecords)  BY DEF IInv, ServerFits
<1>3. ASSUME held # 0
      PROVE  /\ held \in DOMAIN streams /\ streams[held].state = "open"
             /\ streams[held].conv \in Convs
             /\ streams[held].served => streams[held].turn \in Nat /\ streams[held].n \in Nat
  <2>1. held \in DOMAIN streams /\ streams[held].state = "open"
    BY <1>3 DEF IInv, HoldFits, Running
  <2>2. streams[held] \in StreamRecords  BY <1>1, <2>1
  <2>3. streams[held].conv \in Convs  BY <2>1, <2>2, StreamFields
  <2>4. ASSUME streams[held].served
        PROVE  streams[held].turn \in Nat /\ streams[held].n \in Nat
    <3>1. streams[held] \in Reading  BY <2>1, <2>2, <2>4, StreamFields
    <3> QED  BY <3>1 DEF Reading
  <2> QED  BY <2>1, <2>3, <2>4
<1> QED  BY <1>1, <1>2, <1>3

\* The same, a step later.
LEMMA HeldFactsNext ==
  ASSUME IInv'
  PROVE  /\ acts' \in Nat /\ Len(streams') \in Nat /\ held' \in 0 .. Len(streams')
         /\ DOMAIN streams' = 1 .. Len(streams')
         /\ \A c \in Convs : log'[c] \in Seq(TurnRecords)
         /\ held' # 0 =>
              /\ held' \in DOMAIN streams' /\ streams'[held'].state = "open"
              /\ streams'[held'].conv \in Convs
              /\ streams'[held'].served =>
                   streams'[held'].turn \in Nat /\ streams'[held'].n \in Nat
<1>1. streams' \in Seq(StreamRecords) /\ held' \in 0 .. Len(streams') /\ acts' \in Nat
  BY DEF IInv, CountsFit, ChannelFits
<1>2. /\ Len(streams') \in Nat /\ DOMAIN streams' = 1 .. Len(streams')
      /\ \A s \in 1 .. Len(streams') : streams'[s] \in StreamRecords
  BY <1>1
<1>3. \A c \in Convs : log'[c] \in Seq(TurnRecords)  BY DEF IInv, ServerFits
<1>4. ASSUME held' # 0
      PROVE  /\ held' \in DOMAIN streams' /\ streams'[held'].state = "open"
             /\ streams'[held'].conv \in Convs
             /\ streams'[held'].served =>
                  streams'[held'].turn \in Nat /\ streams'[held'].n \in Nat
  <2>1. held' \in DOMAIN streams' /\ streams'[held'].state = "open"
    BY <1>4 DEF IInv, HoldFits, Running
  <2>2. streams'[held'] \in StreamRecords  BY <1>2, <2>1
  <2>3. streams'[held'].conv \in Convs  BY <2>1, <2>2, StreamFields
  <2>4. ASSUME streams'[held'].served
        PROVE  streams'[held'].turn \in Nat /\ streams'[held'].n \in Nat
    <3>1. streams'[held'] \in Reading  BY <2>1, <2>2, <2>4, StreamFields
    <3> QED  BY <3>1 DEF Reading
  <2> QED  BY <2>1, <2>3, <2>4
<1> QED  BY <1>1, <1>2, <1>3, <1>4

\* The next place in the turns ts of a stream at round n of turn k.
Further(ts, k, n, l, m) == l > Len(ts) \/ k < l \/ (k = l /\ n <= m)

\* The turns of c grow, and a stream that is held goes on or is another.
Onward(c) ==
  /\ Grown(log[c], log'[c]) /\ acts <= acts' /\ Len(streams) <= Len(streams')
  /\ orphaned \subseteq orphaned'
  /\ held' # 0 /\ streams'[held'].conv = c =>
       \/ held' > Len(streams)
       \/ /\ Holds(c) /\ held' = held
          /\ streams'[held].served =>
               \/ streams'[held].turn > Len(log[c])
               \/ /\ streams[held].served
                  /\ Further(log[c], streams[held].turn, streams[held].n,
                             streams'[held].turn, streams'[held].n)

\* A turn keeps its id.
LEMMA GrownIds ==
  ASSUME NEW rs \in Seq(TurnRecords), NEW ts \in Seq(TurnRecords), Grown(rs, ts)
  PROVE  \A j \in DOMAIN rs : j \in DOMAIN ts /\ ts[j].id = rs[j].id
BY DEF Grown

\* An entry that fitted fits.
LEMMA EntryGrows ==
  ASSUME NEW e, NEW rs \in Seq(TurnRecords), NEW ts \in Seq(TurnRecords), Grown(rs, ts),
         NEW k \in Nat, NEW l \in Nat, k <= l, NEW a \in Nat, NEW b \in Nat, a <= b,
         EntryFits(e, rs, k, a)
  PROVE  EntryFits(e, ts, l, b)
<1>1. e \in EntryRecords /\ e.msgs \in Seq(Bubbles)  BY DEF EntryFits, EntryRecords
<1>2. \A i \in DOMAIN e.msgs : e.msgs[i].key <= l
  <2>1. \A i \in DOMAIN e.msgs : e.msgs[i].key \in Nat /\ e.msgs[i].key <= k
    <3>1. \A i \in DOMAIN e.msgs : e.msgs[i] \in Bubbles  BY <1>1
    <3> QED  BY <3>1 DEF EntryFits, Bubbles
  <2> QED  BY <2>1
<1>3. ASSUME NEW x \in Range(Got(e.msgs))
      PROVE  x[1] <= b /\ (x[2] # 0 => \E j \in DOMAIN ts : ts[j].id = x[1])
  <2>1. x[1] \in Nat
    <3>1. Got(e.msgs) \in Seq(Items)  BY <1>1, GotAppend
    <3>2. x \in Items  BY <3>1 DEF Range
    <3> QED  BY <3>2 DEF Items
  <2>2. x[1] <= a /\ (x[2] # 0 => \E j \in DOMAIN rs : rs[j].id = x[1])  BY DEF EntryFits
  <2>3. x[1] <= b  BY <2>1, <2>2
  <2> QED  BY <2>2, <2>3, GrownIds
<1> QED  BY <1>1, <1>2, <1>3 DEF EntryFits

\* What r has yet to receive it has not shown.
LEMMA BubbleGrows ==
  ASSUME NEW ms \in Seq(Bubbles), NEW rs \in Seq(TurnRecords), NEW ts \in Seq(TurnRecords),
         Grown(rs, ts), NEW h, NEW r, NEW q, BubbleFits(ms, rs, h, r),
         \A x \in Range(Got(ms)) : x[2] # 0 => \E j \in DOMAIN rs : rs[j].id = x[1],
         q.served => /\ q.turn \in Nat /\ q.n \in Nat
                     /\ \/ q.turn > Len(rs)
                        \/ /\ r.served /\ r.turn \in Nat /\ r.n \in Nat
                           /\ Further(rs, r.turn, r.n, q.turn, q.n)
  PROVE  BubbleFits(ms, ts, h, q)
<1> SUFFICES ASSUME NEW i \in DOMAIN ms, ms[i].key = h
             PROVE  /\ i = Len(ms)
                    /\ q.served => \A x \in Range(Got(ms)) : x[2] # 0 => Told(x, ts, q.turn, q.n)
  BY DEF BubbleFits
<1>1. /\ i = Len(ms)
      /\ r.served => \A x \in Range(Got(ms)) : x[2] # 0 => Told(x, rs, r.turn, r.n)
  BY DEF BubbleFits
<1>2. ASSUME q.served, NEW x \in Range(Got(ms)), x[2] # 0 PROVE Told(x, ts, q.turn, q.n)
  <2>1. x[2] \in Nat
    <3>1. Got(ms) \in Seq(Items)  BY GotAppend
    <3>2. x \in Items  BY <3>1 DEF Range
    <3> QED  BY <3>2 DEF Items
  <2>2. /\ q.turn \in Nat /\ q.n \in Nat
        /\ DOMAIN rs = 1 .. Len(rs) /\ Len(rs) \in Nat
        /\ \A j \in DOMAIN rs : j \in DOMAIN ts /\ ts[j].id = rs[j].id
    BY <1>2, GrownIds
  <2>3. CASE q.turn > Len(rs)
    <3>1. PICK j \in DOMAIN rs : rs[j].id = x[1]  BY <1>2
    <3>2. j < q.turn  BY <2>2, <2>3
    <3> QED  BY <2>2, <3>1, <3>2 DEF Told
  <2>4. CASE ~ (q.turn > Len(rs))
    <3>1. /\ r.served /\ r.turn \in Nat /\ r.n \in Nat
          /\ r.turn < q.turn \/ (r.turn = q.turn /\ r.n <= q.n)
      BY <1>2, <2>4 DEF Further
    <3>2. Told(x, rs, r.turn, r.n)  BY <1>1, <1>2, <3>1
    <3>3. PICK j \in DOMAIN rs :
            rs[j].id = x[1] /\ (j < r.turn \/ (j = r.turn /\ x[2] < r.n))
      BY <3>2 DEF Told
    <3>4. j < q.turn \/ (j = q.turn /\ x[2] < q.n)  BY <2>1, <2>2, <3>1, <3>3
    <3> QED  BY <2>2, <3>3, <3>4 DEF Told
  <2> QED  BY <2>3, <2>4
<1> QED  BY <1>1, <1>2

\* An entry that fits goes on fitting.
LEMMA FitsStay ==
  ASSUME IInv, IInv', NEW c \in Convs, NEW e, FitsFor(e, c), Onward(c)
  PROVE  FitsFor(e, c)'
<1>1. /\ Grown(log[c], log'[c]) /\ acts <= acts' /\ Len(streams) <= Len(streams')
      /\ orphaned \subseteq orphaned'
  BY DEF Onward
<1>2. /\ acts \in Nat /\ acts' \in Nat /\ Len(streams) \in Nat /\ Len(streams') \in Nat
      /\ log[c] \in Seq(TurnRecords) /\ log'[c] \in Seq(TurnRecords)
  BY HeldFacts, HeldFactsNext
<1> SUFFICES ASSUME c \notin orphaned'
             PROVE  /\ EntryFits(e, log'[c], Len(streams'), acts') /\ IsInjective(Got(e.msgs))
                    /\ held' # 0 /\ streams'[held'].conv = c
                         => BubbleFits(e.msgs, log'[c], held', streams'[held'])
  BY DEF FitsFor, Holds
<1>3. EntryFits(e, log[c], Len(streams), acts)  BY <1>1 DEF FitsFor
<1>4. EntryFits(e, log'[c], Len(streams'), acts')  BY <1>1, <1>2, <1>3, EntryGrows
<1>5. IsInjective(Got(e.msgs))  BY <1>1 DEF FitsFor
<1>6. ASSUME held' # 0, streams'[held'].conv = c
      PROVE  BubbleFits(e.msgs, log'[c], held', streams'[held'])
  <2>1. e.msgs \in Seq(Bubbles) /\ \A i \in DOMAIN e.msgs : e.msgs[i].key \in Nat
    <3>1. e \in EntryRecords  BY <1>3 DEF EntryFits
    <3>2. e.msgs \in Seq(Bubbles)  BY <3>1 DEF EntryRecords
    <3>3. \A i \in DOMAIN e.msgs : e.msgs[i] \in Bubbles  BY <3>2
    <3> QED  BY <3>2, <3>3 DEF Bubbles
  <2>2. CASE held' > Len(streams)
    <3>1. held' \in Nat  BY HeldFactsNext
    <3>2. \A i \in DOMAIN e.msgs : e.msgs[i].key <= Len(streams)  BY <1>3 DEF EntryFits
    <3>3. \A i \in DOMAIN e.msgs : e.msgs[i].key # held'  BY <1>2, <2>1, <2>2, <3>1, <3>2
    <3> QED  BY <3>3 DEF BubbleFits
  <2>3. CASE ~ (held' > Len(streams))
    <3> DEFINE r == streams[held]
               q == streams'[held]
    <3>1. /\ Holds(c) /\ held' = held
          /\ q.served => \/ q.turn > Len(log[c])
                         \/ r.served /\ Further(log[c], r.turn, r.n, q.turn, q.n)
      BY <1>6, <2>3 DEF Onward
    <3>2. held # 0 /\ held' # 0  BY <1>6, <3>1
    <3>3. /\ q.served => q.turn \in Nat /\ q.n \in Nat
          /\ r.served => r.turn \in Nat /\ r.n \in Nat
      BY <3>1, <3>2, HeldFacts, HeldFactsNext
    <3>4. BubbleFits(e.msgs, log[c], held, r)  BY <1>1, <1>6, <3>1 DEF FitsFor
    <3>5. \A x \in Range(Got(e.msgs)) : x[2] # 0 => \E j \in DOMAIN log[c] : log[c][j].id = x[1]
      BY <1>3 DEF EntryFits
    <3> HIDE DEF r, q
    <3>6. BubbleFits(e.msgs, log'[c], held, q)
      BY <1>1, <1>2, <2>1, <3>1, <3>3, <3>4, <3>5, BubbleGrows
    <3> QED  BY <3>1, <3>6 DEF q
  <2> QED  BY <2>2, <2>3
<1> QED  BY <1>4, <1>5, <1>6

\* A list that fits goes on fitting.
LEMMA EntriesStay ==
  ASSUME IInv, IInv', NEW l, EntriesFit(l), DOMAIN l \subseteq Convs,
         \A c \in Convs : Onward(c)
  PROVE  EntriesFit(l)'
<1>1. l = [c \in DOMAIN l |-> l[c]]  BY DEF EntriesFit
<1>2. ASSUME NEW c \in DOMAIN l PROVE FitsFor(l[c], c)'
  <2>1. c \in Convs /\ FitsFor(l[c], c) /\ Onward(c)  BY DEF EntriesFit
  <2> QED  BY <2>1, FitsStay
<1> QED  BY <1>1, <1>2 DEF EntriesFit

\* The lists: the entries of the one are as they were, or fit.
LEMMA EntryListsStay ==
  ASSUME IInv, IInv', EntryListsFit, \A c \in Convs : Onward(c),
         list' = [c \in DOMAIN list' |-> list'[c]],
         \A c \in DOMAIN list' :
           (c \in DOMAIN list /\ list'[c] = list[c]) \/ FitsFor(list[c], c)',
         Remembers' => (Remembers /\ hide'.was = hide.was) \/ hide'.was = list
  PROVE  EntryListsFit'
<1>1. /\ DOMAIN list \subseteq Convs /\ DOMAIN list' \subseteq Convs
      /\ Remembers => DOMAIN hide.was \subseteq Convs
  <2>1. made \subseteq Convs /\ made' \subseteq Convs  BY DEF IInv, ServerFits
  <2>2. DOMAIN list \subseteq made /\ DOMAIN list' \subseteq made'  BY DEF IInv, ViewFits
  <2>3. Remembers => DOMAIN hide.was \subseteq made
    BY DEF IInv, RequestsFit, Remembers, IsArchive
  <2> QED  BY <2>1, <2>2, <2>3
<1>2. EntriesFit(list)'
  <2>1. ASSUME NEW c \in DOMAIN list' PROVE FitsFor(list[c], c)'
    <3>1. CASE c \in DOMAIN list /\ list'[c] = list[c]
      <4>1. c \in Convs /\ FitsFor(list[c], c) /\ Onward(c)
        BY <1>1, <3>1 DEF EntryListsFit, EntriesFit
      <4>2. ASSUME NEW e, FitsFor(e, c) PROVE FitsFor(e, c)'  BY <4>1, <4>2, FitsStay
      <4> QED  BY <3>1, <4>1, <4>2
    <3>2. CASE FitsFor(list[c], c)'  BY <3>2
    <3> QED  BY <2>1, <3>1, <3>2
  <2> QED  BY <2>1 DEF EntriesFit
<1>3. ASSUME Remembers' PROVE EntriesFit(hide.was)'
  <2>1. ASSUME NEW l, EntriesFit(l), DOMAIN l \subseteq Convs PROVE EntriesFit(l)'
    BY <2>1, EntriesStay
  <2>2. CASE Remembers /\ hide'.was = hide.was
    BY <1>1, <2>1, <2>2 DEF EntryListsFit
  <2>3. CASE hide'.was = list
    BY <1>1, <2>1, <2>3 DEF EntryListsFit
  <2> QED  BY <1>3, <2>2, <2>3
<1> QED  BY <1>2, <1>3 DEF EntryListsFit

\* The held stream and the turns' ids are numbers.
LEMMA IdFacts ==
  ASSUME IInv
  PROVE  /\ \A s \in Unserved : streams[s].msg \in Nat /\ streams[s].conv \in Convs
         /\ \A c \in Convs : \A j \in DOMAIN log[c] :
              log[c][j] \in TurnRecords /\ log[c][j].id \in Nat /\ log[c][j].out \in Nat
         /\ \A r \in creates : r.id \in Nat
<1>1. ASSUME NEW s \in Unserved PROVE streams[s].msg \in Nat /\ streams[s].conv \in Convs
  <2>1. streams[s] \in StreamRecords /\ ~ streams[s].served
    BY StreamNumbers DEF IInv, Unserved
  <2>2. streams[s] \in Posted  BY <2>1, StreamFields
  <2> QED  BY <2>2 DEF Posted
<1>2. ASSUME NEW c \in Convs, NEW j \in DOMAIN log[c]
      PROVE  log[c][j] \in TurnRecords /\ log[c][j].id \in Nat /\ log[c][j].out \in Nat
  <2>1. log[c] \in Seq(TurnRecords)  BY HeldFacts
  <2>2. log[c][j] \in TurnRecords  BY <2>1
  <2> QED  BY <2>2 DEF TurnRecords
<1>3. ASSUME NEW r \in creates PROVE r.id \in Nat
  <2>1. r \in CreateRecords  BY DEF IInv, RequestsFit
  <2> QED  BY <2>1 DEF CreateRecords
<1> QED  BY <1>1, <1>2, <1>3

\* A stream that is held is the same one, or new, and the turns grow or stay.
LEMMA OnwardFits ==
  ASSUME IInv, acts' = acts \/ acts' = acts + 1, Len(streams') \in Nat,
         Len(streams) <= Len(streams'), orphaned \subseteq orphaned',
         \A c \in Convs : log'[c] = log[c] \/ Grown(log[c], log'[c]),
         \/ held' = 0 \/ held' > Len(streams)
         \/ held' = held /\ (held # 0 => streams'[held] = streams[held])
  PROVE  \A c \in Convs : Onward(c)
<1> SUFFICES ASSUME NEW c \in Convs PROVE Onward(c)  OBVIOUS
<1>1. Grown(log[c], log'[c])  BY HeldFacts, GrownSame
<1>2. acts <= acts'  BY HeldFacts
<1>3. ASSUME held' # 0, streams'[held'].conv = c
      PROVE  \/ held' > Len(streams)
             \/ /\ Holds(c) /\ held' = held
                /\ streams'[held].served =>
                     \/ streams'[held].turn > Len(log[c])
                     \/ /\ streams[held].served
                        /\ Further(log[c], streams[held].turn, streams[held].n,
                                   streams'[held].turn, streams'[held].n)
  <2>1. CASE held' > Len(streams)  BY <2>1
  <2>2. CASE ~ (held' > Len(streams))
    <3>1. held' = held /\ held # 0 /\ streams'[held] = streams[held]  BY <1>3, <2>2
    <3>2. Holds(c)  BY <1>3, <3>1 DEF Holds
    <3>3. ASSUME streams[held].served
          PROVE  Further(log[c], streams[held].turn, streams[held].n,
                         streams[held].turn, streams[held].n)
      <4>1. streams[held].n \in Nat  BY <3>1, <3>3, HeldFacts
      <4> QED  BY <4>1 DEF Further
    <3> QED  BY <3>1, <3>2, <3>3
  <2> QED  BY <2>1, <2>2
<1> QED  BY <1>1, <1>2, <1>3 DEF Onward

\* Nothing has a new id.
LEMMA IdsStay ==
  ASSUME IInv, IdsFit, acts' = acts \/ acts' = acts + 1,
         \A c \in Convs : \A j \in DOMAIN log'[c] :
           j \in DOMAIN log[c] /\ log'[c][j].id = log[c][j].id /\ log'[c][j].out <= MaxRounds,
         \A s \in Unserved' : s \in Unserved /\ streams'[s].msg = streams[s].msg,
         \A r \in creates' : \E q \in creates : q.id = r.id,
         \A r, q \in creates' : r.id = q.id => r = q
  PROVE  IdsFit'
<1>1. acts \in Nat /\ (acts' = acts \/ acts' = acts + 1)  BY HeldFacts
<1>2. \A k \in Nat : k <= acts => k <= acts'  BY <1>1
<1>3. LogIdsFit'
  <2>1. SUFFICES ASSUME NEW c \in Convs, NEW j \in DOMAIN log'[c]
                 PROVE  /\ log'[c][j].id <= acts' /\ log'[c][j].out <= MaxRounds
                        /\ \A k \in DOMAIN log'[c] : log'[c][j].id = log'[c][k].id => j = k
                        /\ \A s \in Unserved' : log'[c][j].id # streams'[s].msg
                        /\ \A r \in creates' : log'[c][j].id # r.id
    BY DEF LogIdsFit
  <2>2. j \in DOMAIN log[c] /\ log'[c][j].id = log[c][j].id /\ log'[c][j].out <= MaxRounds
    BY <2>1
  <2>3. /\ log[c][j].id <= acts
        /\ \A k \in DOMAIN log[c] : log[c][j].id = log[c][k].id => j = k
        /\ \A s \in Unserved : log[c][j].id # streams[s].msg
        /\ \A r \in creates : log[c][j].id # r.id
    BY <2>2 DEF IdsFit, LogIdsFit
  <2>4. log'[c][j].id <= acts'  BY <1>2, <2>2, <2>3, IdFacts
  <2>5. \A k \in DOMAIN log'[c] : log'[c][j].id = log'[c][k].id => j = k  BY <2>2, <2>3
  <2>6. \A s \in Unserved' : log'[c][j].id # streams'[s].msg  BY <2>2, <2>3
  <2>7. \A r \in creates' : log'[c][j].id # r.id  BY <2>2, <2>3
  <2> QED  BY <2>2, <2>4, <2>5, <2>6, <2>7
<1>4. SentIdsFit'
  <2>1. SUFFICES ASSUME NEW s \in Unserved'
                 PROVE  /\ streams'[s].msg <= acts'
                        /\ \A t \in Unserved' : streams'[s].msg = streams'[t].msg => s = t
                        /\ \A r \in creates' : streams'[s].msg # r.id
    BY DEF SentIdsFit
  <2>2. s \in Unserved /\ streams'[s].msg = streams[s].msg  BY <2>1
  <2>3. /\ streams[s].msg <= acts
        /\ \A t \in Unserved : streams[s].msg = streams[t].msg => s = t
        /\ \A r \in creates : streams[s].msg # r.id
    BY <2>2 DEF IdsFit, SentIdsFit
  <2>4. streams'[s].msg <= acts'  BY <1>2, <2>2, <2>3, IdFacts
  <2> QED  BY <2>2, <2>3, <2>4
<1>5. DraftIdsFit'
  <2>1. \A r \in creates : r.id <= acts'  BY <1>2, IdFacts DEF IdsFit, DraftIdsFit
  <2> QED  BY <2>1 DEF DraftIdsFit
<1> QED  BY <1>3, <1>4, <1>5 DEF IdsFit

\* Every request under way was under way, or has seen what is stored, or asks for a
\* conversation of the list that is not loaded.
NowSeen(r) == r.st # "asked" => r.rows \in Seq(TurnRecords) /\ Seen(r, log[r.conv])
LoadsOnward ==
  \A i \in DOMAIN loads' :
    \/ \E j \in DOMAIN loads : loads'[i] = loads[j]
    \/ \E j \in DOMAIN loads : loads'[i].conv = loads[j].conv /\ NowSeen(loads'[i])
    \/ /\ loads'[i].st = "asked" /\ loads'[i].conv \in DOMAIN list'
       /\ ~ list'[loads'[i].conv].loaded

\* The effect on the address asks for such a conversation.
LEMMA LoadsFrom ==
  ASSUME NEW l, NEW u, NEW q \in Seq(LoadRecords), DOMAIN l \subseteq Convs
  PROVE  \A i \in DOMAIN LoadsAfter(l, u, q) :
           \/ \E j \in DOMAIN q : LoadsAfter(l, u, q)[i] = q[j]
           \/ /\ LoadsAfter(l, u, q)[i].st = "asked" /\ LoadsAfter(l, u, q)[i].conv \in DOMAIN l
              /\ ~ l[LoadsAfter(l, u, q)[i].conv].loaded
<1> DEFINE e == [conv |-> u, st |-> "asked"]
<1>1. CASE u \in DOMAIN l /\ ~ l[u].loaded /\ Len(q) < MaxLoads
  <2>1. LoadsAfter(l, u, q) = Append(q, e)  BY <1>1 DEF LoadsAfter
  <2>2. e \in LoadRecords /\ e.conv = u /\ e.st = "asked"  BY <1>1 DEF LoadRecords
  <2> HIDE DEF e
  <2>3. /\ Append(q, e) \in Seq(LoadRecords) /\ Len(Append(q, e)) = Len(q) + 1
        /\ Append(q, e)[Len(q) + 1] = e /\ \A i \in 1 .. Len(q) : Append(q, e)[i] = q[i]
    BY <2>2, AppendFits
  <2>4. /\ DOMAIN Append(q, e) = 1 .. Len(q) + 1 /\ DOMAIN q = 1 .. Len(q)
        /\ \A i \in 1 .. Len(q) + 1 : i \in 1 .. Len(q) \/ i = Len(q) + 1
    BY <2>3
  <2> QED  BY <1>1, <2>1, <2>2, <2>3, <2>4
<1>2. CASE ~ (u \in DOMAIN l /\ ~ l[u].loaded /\ Len(q) < MaxLoads)
  <2>1. LoadsAfter(l, u, q) = q  BY <1>2 DEF LoadsAfter
  <2> QED  BY <2>1
<1> QED  BY <1>1, <1>2

\* A request less.
LEMMA RemoveFrom ==
  ASSUME NEW S, NEW s \in Seq(S), NEW i \in 1 .. Len(s)
  PROVE  \A k \in DOMAIN RemoveAt(s, i) : \E j \in DOMAIN s : RemoveAt(s, i)[k] = s[j]
<1> DEFINE p == SubSeq(s, 1, i - 1)
           q == SubSeq(s, i + 1, Len(s))
<1>1. Len(s) \in Nat /\ DOMAIN s = 1 .. Len(s) /\ \A k \in 1 .. Len(s) : s[k] \in S  OBVIOUS
<1>2. /\ p \in Seq(S) /\ Len(p) = i - 1 /\ \A k \in 1 .. i - 1 : p[k] = s[k]
  <2>1. /\ 1 \in Int /\ i - 1 \in Int /\ \A k \in 1 .. i - 1 : s[k] \in S  BY <1>1
  <2>2. /\ p \in Seq(S)
        /\ Len(p) = IF 1 <= i - 1 THEN (i - 1) - 1 + 1 ELSE 0
        /\ \A k \in 1 .. (i - 1) - 1 + 1 : p[k] = s[1 + k - 1]
    BY <2>1, SubSeqProperties
  <2> HIDE DEF p
  <2>3. Len(p) = i - 1  BY <1>1, <2>2
  <2>4. ASSUME NEW k \in 1 .. i - 1 PROVE p[k] = s[k]
    <3>1. k \in 1 .. (i - 1) - 1 + 1 /\ 1 + k - 1 = k  BY <1>1
    <3> QED  BY <2>2, <3>1
  <2> QED  BY <2>2, <2>3, <2>4
<1>3. /\ q \in Seq(S) /\ Len(q) = Len(s) - i /\ \A k \in 1 .. Len(s) - i : q[k] = s[i + k]
  <2>1. /\ i + 1 \in Int /\ Len(s) \in Int /\ \A k \in i + 1 .. Len(s) : s[k] \in S
    BY <1>1
  <2>2. /\ q \in Seq(S)
        /\ Len(q) = IF i + 1 <= Len(s) THEN Len(s) - (i + 1) + 1 ELSE 0
        /\ \A k \in 1 .. Len(s) - (i + 1) + 1 : q[k] = s[(i + 1) + k - 1]
    BY <2>1, SubSeqProperties
  <2> HIDE DEF q
  <2> DEFINE n == Len(s)
  <2>5. n \in Nat /\ i \in Nat /\ i <= n  BY <1>1
  <2>6. Len(q) = IF i + 1 <= n THEN n - (i + 1) + 1 ELSE 0  BY <2>2
  <2> HIDE DEF n
  <2>7. Len(q) = n - i  BY <2>5, <2>6
  <2>3. Len(q) = Len(s) - i  BY <2>7 DEF n
  <2>4. ASSUME NEW k \in 1 .. Len(s) - i PROVE q[k] = s[i + k]
    <3>1. k \in 1 .. Len(s) - (i + 1) + 1 /\ (i + 1) + k - 1 = i + k  BY <1>1
    <3> QED  BY <2>2, <3>1
  <2> QED  BY <2>2, <2>3, <2>4
<1>4. RemoveAt(s, i) = p \o q  BY DEF RemoveAt
<1> HIDE DEF p, q
<1>8. p \in Seq(S) /\ q \in Seq(S)  BY <1>2, <1>3
<1>5. /\ p \o q \in Seq(S) /\ Len(p \o q) = Len(p) + Len(q)
      /\ \A k \in 1 .. Len(p) : (p \o q)[k] = p[k]
      /\ \A k \in 1 .. Len(q) : (p \o q)[Len(p) + k] = q[k]
  BY <1>8, ConcatFits
<1>6. ASSUME NEW k \in 1 .. Len(p) + Len(q) PROVE \E j \in DOMAIN s : (p \o q)[k] = s[j]
  <2>1. CASE k \in 1 .. Len(p)
    <3>1. k \in DOMAIN s  BY <1>1, <1>2, <2>1
    <3> QED  BY <1>2, <1>5, <2>1, <3>1
  <2>2. CASE k \notin 1 .. Len(p)
    <3> DEFINE m == k - Len(p)
    <3>1. m \in 1 .. Len(q) /\ Len(p) + m = k /\ m \in 1 .. Len(s) - i /\ i + m \in DOMAIN s
      BY <1>1, <1>2, <1>3, <2>2
    <3> HIDE DEF m
    <3>2. (p \o q)[k] = s[i + m]  BY <1>3, <1>5, <3>1
    <3> QED  BY <3>1, <3>2
  <2> QED  BY <2>1, <2>2
<1>7. DOMAIN (p \o q) = 1 .. Len(p) + Len(q)  BY <1>5
<1> QED  BY <1>4, <1>6, <1>7

\* What was seen stays so as the turns go on.
LEMMA SeenStays ==
  ASSUME NEW r, NEW ts \in Seq(TurnRecords), NEW us \in Seq(TurnRecords), Grown(ts, us),
         r.st # "asked" => r.rows \in Seq(TurnRecords), Seen(r, ts)
  PROVE  Seen(r, us)
<1>1. ASSUME r.st # "asked" PROVE Grown(r.rows, us)
  <2>1. r.rows \in Seq(TurnRecords) /\ Grown(r.rows, ts)  BY <1>1 DEF Seen
  <2> QED  BY <2>1, GrownOn
<1>2. ASSUME r.st = "checked"
      PROVE  IF r.flying THEN us # <<>> ELSE LiveIn(us) => Len(us) > Len(r.rows)
  <2>1. /\ Len(ts) \in Nat /\ Len(us) \in Nat /\ Len(ts) <= Len(us)
        /\ LiveIn(us) => LiveIn(ts) \/ Len(us) > Len(ts)
    BY DEF Grown
  <2>2. CASE r.flying
    <3>1. ts # <<>>  BY <1>2, <2>2 DEF Seen
    <3>2. Len(ts) # 0  BY <3>1
    <3> QED  BY <2>1, <2>2, <3>2
  <2>3. CASE ~ r.flying
    <3>1. LiveIn(ts) => Len(ts) > Len(r.rows)  BY <1>2, <2>3 DEF Seen
    <3>2. r.rows \in Seq(TurnRecords) /\ Grown(r.rows, ts)  BY <1>2 DEF Seen
    <3>3. Len(r.rows) \in Nat /\ Len(r.rows) <= Len(ts)  BY <3>2 DEF Grown
    <3>4. LiveIn(us) => Len(us) > Len(r.rows)  BY <2>1, <3>1, <3>3
    <3> QED  BY <2>3, <3>4
  <2> QED  BY <2>2, <2>3
<1> QED  BY <1>1, <1>2 DEF Seen

\* The requests go on.
LEMMA RowsStay ==
  ASSUME IInv, IInv', RowsFit, made \subseteq made', \A c \in Convs : Onward(c), LoadsOnward
  PROVE  RowsFit'
<1> SUFFICES ASSUME NEW i \in DOMAIN loads'
             PROVE  loads'[i].conv \in made' /\ Seen(loads'[i], log'[loads'[i].conv])
  BY DEF RowsFit, Seen
<1>1. made \subseteq Convs /\ DOMAIN list' \subseteq made'
  BY DEF IInv, ServerFits, ViewFits
<1>2. \A j \in DOMAIN loads :
        /\ loads[j].conv \in made /\ Seen(loads[j], log[loads[j].conv])
        /\ loads[j].st # "asked" => loads[j].rows \in Seq(TurnRecords)
  <2>1. \A j \in DOMAIN loads : loads[j] \in LoadRecords  BY DEF IInv, ViewFits
  <2> QED  BY <2>1, LoadFields DEF RowsFit
<1>3. ASSUME NEW r, r.conv \in made, Seen(r, log[r.conv]),
             r.st # "asked" => r.rows \in Seq(TurnRecords)
      PROVE  Seen(r, log'[r.conv])
  <2> DEFINE c == r.conv
  <2>1. c \in Convs  BY <1>1, <1>3
  <2>2. log[c] \in Seq(TurnRecords) /\ log'[c] \in Seq(TurnRecords)
    BY <2>1, HeldFacts, HeldFactsNext
  <2>3. Grown(log[c], log'[c])  BY <2>1 DEF Onward
  <2> QED  BY <1>3, <2>2, <2>3, SeenStays
<1>4. CASE \E j \in DOMAIN loads : loads'[i] = loads[j]
  <2>1. PICK j \in DOMAIN loads : loads'[i] = loads[j]  BY <1>4
  <2>2. Seen(loads[j], log'[loads[j].conv])  BY <1>2, <1>3
  <2> QED  BY <1>2, <2>1, <2>2
<1>5. CASE \E j \in DOMAIN loads : loads'[i].conv = loads[j].conv /\ NowSeen(loads'[i])
  <2>1. PICK r : r = loads'[i]  OBVIOUS
  <2>2. r.conv \in made  BY <1>2, <1>5, <2>1
  <2>3. CASE r.st = "asked"  BY <2>1, <2>2, <2>3 DEF Seen
  <2>4. CASE r.st # "asked"
    <3>1. r.rows \in Seq(TurnRecords) /\ Seen(r, log[r.conv])  BY <1>5, <2>1, <2>4 DEF NowSeen
    <3>2. Seen(r, log'[r.conv])  BY <1>3, <2>2, <3>1
    <3> QED  BY <2>1, <2>2, <3>2
  <2> QED  BY <2>3, <2>4
<1>6. CASE loads'[i].st = "asked" /\ loads'[i].conv \in DOMAIN list'
  BY <1>1, <1>6 DEF Seen
<1> QED  BY <1>4, <1>5, <1>6 DEF LoadsOnward

-----------------------------------------------------------------------------
(* What a step that leaves a conversation alone keeps of what it shows. *)

\* Nothing happens to conversation c, its streams and its drafts.
WaitsLess(c) ==
  \A s \in DOMAIN streams' : Waits(s, c)' => s \in DOMAIN streams /\ Waits(s, c)
Keeps(c) ==
  /\ log'[c] = log[c] /\ WaitsLess(c)
  /\ Holds(c) => held' = held /\ streams'[held] = streams[held]
  /\ c \in DOMAIN list' <=> c \in DOMAIN list
  /\ c \in DOMAIN list => list'[c] = list[c]
  /\ \A r \in creates' : r.conv = c => \E q \in creates : q.conv = c

\* The held stream is not lost when it waits.
LEMMA KeptHolds ==
  ASSUME IInv', NEW c, WaitsLess(c), \A s \in DOMAIN streams : Waits(s, c) => s = held
  PROVE  Holds(c)' => held' = held /\ Holds(c)
<1> SUFFICES ASSUME Holds(c)' PROVE held' = held /\ Holds(c)  OBVIOUS
<1>1. held' # 0 /\ streams'[held'].conv = c  BY DEF Holds
<1>2. held' \in DOMAIN streams' /\ streams'[held'].state = "open"  BY <1>1, HeldFactsNext
<1> DEFINE h == held'
<1>3. h \in DOMAIN streams /\ Waits(h, c)
  BY <1>1, <1>2 DEF WaitsLess, Waits
<1>4. h = held /\ streams[h].conv = c /\ h # 0  BY <1>1, <1>3 DEF Waits
<1> QED  BY <1>4 DEF Holds

\* So it is as it was.
LEMMA KeptFits ==
  ASSUME IInv, IInv', NEW c \in Convs, WholeFits(c), Keeps(c), LoadsOnward
  PROVE  WholeFits(c)'
<1>1. /\ \A s \in DOMAIN streams : Waits(s, c) => s = held
      /\ Holds(c) => StreamFits(c)
      /\ c \in DOMAIN list /\ list[c].loaded => EntryShows(c)
      /\ \A r \in creates : r.conv = c => Untouched(c)
  BY DEF WholeFits
<1>2. /\ log'[c] = log[c] /\ WaitsLess(c)
      /\ Holds(c) => held' = held /\ streams'[held] = streams[held]
      /\ c \in DOMAIN list' <=> c \in DOMAIN list
      /\ c \in DOMAIN list => list'[c] = list[c]
      /\ \A r \in creates' : r.conv = c => \E q \in creates : q.conv = c
  BY DEF Keeps
<1>3. Holds(c)' => held' = held /\ Holds(c)  BY <1>1, <1>2, KeptHolds
<1>4. Holds(c) => Holds(c)'  BY <1>2 DEF Holds
<1>5. \A s \in DOMAIN streams' : Waits(s, c)' => s = held'
  <2>1. SUFFICES ASSUME NEW s \in DOMAIN streams', Waits(s, c)' PROVE s = held'  OBVIOUS
  <2>2. s \in DOMAIN streams /\ Waits(s, c)  BY <1>2, <2>1 DEF WaitsLess
  <2>3. s = held /\ s # 0 /\ streams[s].conv = c  BY <1>1, <2>2, HeldFacts DEF Waits
  <2>4. Holds(c)  BY <2>3 DEF Holds
  <2> QED  BY <1>2, <2>3, <2>4
<1>6. c \in DOMAIN list /\ list[c].loaded /\ ~ Loading(c) => ~ Loading(c)'
  <2>1. SUFFICES ASSUME c \in DOMAIN list, list[c].loaded, ~ Loading(c), Loading(c)' PROVE FALSE
    OBVIOUS
  <2>2. PICK i \in DOMAIN loads' : loads'[i].conv = c  BY <2>1 DEF Loading
  <2>3. \A j \in DOMAIN loads : loads[j].conv # c  BY <2>1 DEF Loading
  <2>4. list'[c].loaded  BY <1>2, <2>1
  <2> QED  BY <2>2, <2>3, <2>4 DEF LoadsOnward
<1>7. ASSUME Holds(c)' PROVE StreamFits(c)'
  <2>1. Holds(c) /\ held' = held /\ streams'[held] = streams[held] /\ StreamFits(c)
    BY <1>1, <1>2, <1>3, <1>7
  <2>2. CASE streams[held].served  BY <1>2, <2>1, <2>2 DEF StreamFits
  <2>3. CASE ~ streams[held].served  BY <1>2, <1>6, <2>1, <2>3 DEF StreamFits
  <2> QED  BY <2>2, <2>3
<1>8. ASSUME c \in DOMAIN list', list'[c].loaded PROVE EntryShows(c)'
  <2>1. c \in DOMAIN list /\ list'[c] = list[c] /\ EntryShows(c)  BY <1>1, <1>2, <1>8
  <2>2. CASE Holds(c)
    <3>1. held' = held /\ streams'[held] = streams[held] /\ Holds(c)'  BY <1>2, <1>4, <2>2
    <3> QED  BY <1>2, <2>1, <2>2, <3>1 DEF EntryShows
  <2>3. CASE ~ Holds(c)
    <3>1. ~ Holds(c)'  BY <1>3, <2>3
    <3> QED  BY <1>2, <2>1, <2>3, <3>1 DEF EntryShows
  <2> QED  BY <2>2, <2>3
<1>9. ASSUME NEW r \in creates', r.conv = c PROVE Untouched(c)'
  <2>1. Untouched(c)  BY <1>1, <1>2, <1>9
  <2> QED  BY <1>2, <2>1 DEF Untouched, WaitsLess
<1> QED  BY <1>5, <1>7, <1>8, <1>9 DEF WholeFits

\* What a conversation that is not made has, if a step gives it nothing.
LEMMA MadeStay ==
  ASSUME MadeFits, made \subseteq made', url' \in made' \cup {None},
         \A c \in Convs \ made' : log'[c] = log[c] /\ WaitsLess(c)
  PROVE  MadeFits'
<1> SUFFICES ASSUME NEW c \in Convs \ made'
             PROVE  log'[c] = <<>> /\ \A s \in DOMAIN streams' : ~ Waits(s, c)'
  BY DEF MadeFits
<1>1. c \in Convs \ made /\ log'[c] = log[c] /\ WaitsLess(c)  OBVIOUS
<1>2. log[c] = <<>> /\ \A s \in DOMAIN streams : ~ Waits(s, c)  BY <1>1 DEF MadeFits
<1> QED  BY <1>1, <1>2 DEF WaitsLess

\* The invariant, part by part.
LEMMA StepShows ==
  ASSUME IInv, IInv', ShownInv, made \subseteq made', url' \in made' \cup {None},
         harmed \subseteq harmed', orphaned \subseteq orphaned',
         \A c \in Convs : Onward(c),
         list' = [c \in DOMAIN list' |-> list'[c]],
         \A c \in DOMAIN list' :
           (c \in DOMAIN list /\ list'[c] = list[c]) \/ FitsFor(list[c], c)',
         Remembers' => (Remembers /\ hide'.was = hide.was) \/ hide'.was = list,
         IdsFit', LoadsOnward,
         \A c \in Convs \ made' : log'[c] = log[c] /\ WaitsLess(c),
         \A c \in alive' \ (harmed' \cup orphaned') : (c \in alive /\ Keeps(c)) \/ WholeFits(c)'
  PROVE  ShownInv'
<1>1. EntryListsFit'  BY EntryListsStay DEF ShownInv
<1>2. RowsFit'  BY RowsStay DEF ShownInv
<1>3. MadeFits'  BY MadeStay DEF ShownInv
<1>4. ShownFits'
  <2>1. SUFFICES ASSUME NEW c \in alive' \ (harmed' \cup orphaned') PROVE WholeFits(c)'
    BY DEF ShownFits
  <2>2. CASE c \in alive /\ Keeps(c)
    <3>1. WholeFits(c)  BY <2>2 DEF ShownInv, ShownFits
    <3>2. c \in Convs  BY <2>2 DEF IInv, ServerFits
    <3> QED  BY <2>2, <3>1, <3>2, KeptFits
  <2> QED  BY <2>2
<1> QED  BY <1>1, <1>2, <1>3, <1>4 DEF ShownInv

\* A step that leaves the turns, the streams and the list alone.
LEMMA QuietStep ==
  ASSUME IInv, IInv', ShownInv,
         UNCHANGED <<made, log, list, streams, held, harmed, orphaned>>, alive' \subseteq alive,
         url' \in made \cup {None}, acts' = acts \/ acts' = acts + 1,
         Remembers' => (Remembers /\ hide'.was = hide.was) \/ hide'.was = list,
         \A r \in creates' : r.conv = None \/ \E q \in creates : q.conv = r.conv,
         IdsFit', LoadsOnward
  PROVE  ShownInv'
<1>1. \A c \in Convs : Onward(c)
  BY HeldFacts, OnwardFits
<1>2. \A c \in Convs : log'[c] = log[c] /\ WaitsLess(c)
  BY DEF WaitsLess, Waits
<1>3. ASSUME NEW c \in alive' PROVE c \in alive /\ Keeps(c)
  <2>1. c \in alive /\ c \in Convs /\ c # None
    BY <1>3, ChatViewAssumption DEF IInv, ServerFits
  <2> QED  BY <1>2, <2>1 DEF Keeps
<1>4. list' = [c \in DOMAIN list' |-> list'[c]]  BY DEF ShownInv, EntryListsFit, EntriesFit
<1> QED  BY <1>1, <1>2, <1>3, <1>4, StepShows

-----------------------------------------------------------------------------
(* The steps that leave the turns, the streams and the list alone. *)

\* No request is made.
LEMMA LoadsSame ==
  ASSUME loads' = loads
  PROVE  LoadsOnward
BY DEF LoadsOnward

\* Nobody says anything.
LEMMA IdsSame ==
  ASSUME IInv, IdsFit, UNCHANGED <<log, streams>>, acts' = acts \/ acts' = acts + 1,
         creates' \subseteq creates
  PROVE  IdsFit'
<1>1. \A c \in Convs : \A j \in DOMAIN log[c] : log[c][j].out <= MaxRounds
  BY DEF IdsFit, LogIdsFit
<1>2. \A r, q \in creates' : r.id = q.id => r = q  BY DEF IdsFit, DraftIdsFit
<1>3. \A s \in Unserved' : s \in Unserved /\ streams'[s].msg = streams[s].msg  BY DEF Unserved
<1>4. \A r \in creates' : \E q \in creates : q.id = r.id  OBVIOUS
<1>5. \A c \in Convs : \A j \in DOMAIN log'[c] :
        j \in DOMAIN log[c] /\ log'[c][j].id = log[c][j].id /\ log'[c][j].out <= MaxRounds
  BY <1>1
<1> QED  BY <1>2, <1>3, <1>4, <1>5, IdsStay

\* The address, the requests, an act or a fault.
LEMMA QuietShows ==
  ASSUME IInv, IInv', ShownInv,
         UNCHANGED <<made, log, list, streams, held, harmed, orphaned>>, alive' \subseteq alive,
         url' \in made \cup {None}, acts' = acts \/ acts' = acts + 1,
         Remembers' => (Remembers /\ hide'.was = hide.was) \/ hide'.was = list,
         creates' \subseteq creates, LoadsOnward
  PROVE  ShownInv'
<1>1. IdsFit'  BY IdsSame DEF ShownInv
<1>2. \A r \in creates' : r.conv = None \/ \E q \in creates : q.conv = r.conv  OBVIOUS
<1> QED  BY <1>1, <1>2, QuietStep

\* The address as it was.
LEMMA UrlStays ==
  ASSUME ShownInv
  PROVE  url \in made \cup {None}
BY DEF ShownInv, MadeFits

\* The list is read.
LEMMA ListReadShows ==
  ASSUME IInv, IInv', ShownInv, ListRead
  PROVE  ShownInv'
<1>1. UNCHANGED <<made, alive, log, list, url, loads, streams, held, creates, hide, acts,
                  harmed, orphaned>>
  BY DEF ListRead, server, view, channel, history
<1>2. Remembers' => Remembers /\ hide'.was = hide.was  BY <1>1 DEF Remembers
<1> QED  BY <1>1, <1>2, LoadsSame, UrlStays, QuietShows

\* It is not.
LEMMA ListFailsShows ==
  ASSUME IInv, IInv', ShownInv, ListFails
  PROVE  ShownInv'
<1>1. /\ UNCHANGED <<made, alive, log, list, url, loads, streams, held, creates, hide,
                     harmed, orphaned>>
      /\ acts' = acts + 1
  BY DEF ListFails, Fault, Act, server, view, channel, history
<1>2. Remembers' => Remembers /\ hide'.was = hide.was  BY <1>1 DEF Remembers
<1> QED  BY <1>1, <1>2, LoadsSame, UrlStays, QuietShows

\* Another conversation, or the draft.
LEMMA VisitShows ==
  ASSUME IInv, IInv', ShownInv, Visit
  PROVE  ShownInv'
<1>1. PICK to \in ((DOMAIN list) \X {None}) \cup ({None} \X (projects \cup {None})) :
        /\ url' = to[1] /\ Act
        /\ loads' = IF to[1] = url THEN loads ELSE LoadsAfter(list, to[1], loads)
        /\ UNCHANGED <<made, alive, log, list, streams, held, creates, hide, harmed, orphaned>>
  BY DEF Visit, Goes, server, channel, requests, history
<1>2. DOMAIN list \subseteq made /\ DOMAIN list \subseteq Convs /\ loads \in Seq(LoadRecords)
  BY DEF IInv, ViewFits, ServerFits
<1>3. url' \in made \cup {None}  BY <1>1, <1>2
<1>4. LoadsOnward
  <2>1. CASE loads' = loads  BY <2>1, LoadsSame
  <2>2. CASE loads' = LoadsAfter(list, to[1], loads)
    BY <1>1, <1>2, <2>2, LoadsFrom DEF LoadsOnward
  <2> QED  BY <1>1, <2>1, <2>2
<1>5. Remembers' => Remembers /\ hide'.was = hide.was  BY <1>1 DEF Remembers
<1> QED  BY <1>1, <1>3, <1>4, <1>5, QuietShows DEF Act

\* The server answers a load.
LEMMA LoadReadShows ==
  ASSUME IInv, IInv', ShownInv, NEW i \in DOMAIN loads, LoadRead(i)
  PROVE  ShownInv'
<1>1. /\ loads' = [loads EXCEPT ![i] =
                     [conv |-> loads[i].conv, st |-> "read", rows |-> log[loads[i].conv]]]
      /\ UNCHANGED <<made, alive, log, list, url, streams, held, creates, hide, acts,
                     harmed, orphaned>>
  BY DEF LoadRead, server, channel, requests, history
<1>2. LoadsOnward
  <2>1. SUFFICES ASSUME NEW k \in DOMAIN loads'
                 PROVE  \E j \in DOMAIN loads :
                          \/ loads'[k] = loads[j]
                          \/ loads'[k].conv = loads[j].conv /\ NowSeen(loads'[k])
    BY DEF LoadsOnward
  <2>2. loads \in Seq(LoadRecords)  BY DEF IInv, ViewFits
  <2>3. k \in DOMAIN loads  BY <1>1, <2>1
  <2>4. CASE k = i
    <3> DEFINE c == loads[i].conv
    <3>1. c \in Convs  BY DEF ShownInv, RowsFit, IInv, ServerFits
    <3>2. log[c] \in Seq(TurnRecords)  BY <3>1, HeldFacts
    <3>3. Grown(log[c], log[c])  BY <3>2, GrownSame
    <3>4. loads'[k] = [conv |-> c, st |-> "read", rows |-> log[c]]  BY <1>1, <2>3, <2>4
    <3>5. loads'[k].conv = c /\ loads'[k].st = "read" /\ loads'[k].rows = log[c]  BY <3>4
    <3>6. NowSeen(loads'[k])  BY <3>2, <3>3, <3>5 DEF NowSeen, Seen
    <3> QED  BY <3>5, <3>6
  <2>5. CASE k # i  BY <1>1, <2>3, <2>5
  <2> QED  BY <2>4, <2>5
<1>3. Remembers' => Remembers /\ hide'.was = hide.was  BY <1>1 DEF Remembers
<1> QED  BY <1>1, <1>2, <1>3, UrlStays, QuietShows

\* It looks for a turn in flight.
LEMMA LoadCheckedShows ==
  ASSUME IInv, IInv', ShownInv, NEW i \in DOMAIN loads, LoadChecked(i)
  PROVE  ShownInv'
<1> DEFINE r == loads[i]
           c == r.conv
           q == [conv |-> c, st |-> "checked", rows |-> r.rows, flying |-> Live(c)]
<1>1. /\ loads' = [loads EXCEPT ![i] = q] /\ r.st = "read"
      /\ UNCHANGED <<made, alive, log, list, url, streams, held, creates, hide, acts,
                     harmed, orphaned>>
  BY DEF LoadChecked, server, channel, requests, history
<1>2. c \in Convs /\ r.rows \in Seq(TurnRecords) /\ Grown(r.rows, log[c])
  <2>1. r \in LoadRecords /\ loads \in Seq(LoadRecords)  BY DEF IInv, ViewFits
  <2>2. c \in made /\ Seen(r, log[c])  BY DEF ShownInv, RowsFit
  <2>3. r.rows \in Seq(TurnRecords)  BY <1>1, <2>1, LoadFields
  <2> QED  BY <1>1, <2>2, <2>3 DEF Seen, IInv, ServerFits
<1>3. /\ q.conv = c /\ q.st = "checked" /\ q.rows = r.rows /\ q.flying = LiveIn(log[c])
  BY DEF Live, LiveIn
<1> HIDE DEF q
<1>4. NowSeen(q)
  <2>1. LiveIn(log[c]) => log[c] # <<>>  BY DEF LiveIn
  <2> QED  BY <1>2, <1>3, <2>1 DEF NowSeen, Seen
<1>5. LoadsOnward
  <2>1. SUFFICES ASSUME NEW k \in DOMAIN loads'
                 PROVE  \E j \in DOMAIN loads :
                          \/ loads'[k] = loads[j]
                          \/ loads'[k].conv = loads[j].conv /\ NowSeen(loads'[k])
    BY DEF LoadsOnward
  <2>2. k \in DOMAIN loads  BY <1>1, <2>1
  <2>3. CASE k = i  BY <1>1, <1>3, <1>4, <2>2, <2>3
  <2>4. CASE k # i  BY <1>1, <2>2, <2>4
  <2> QED  BY <2>3, <2>4
<1>6. Remembers' => Remembers /\ hide'.was = hide.was  BY <1>1 DEF Remembers
<1> QED  BY <1>1, <1>5, <1>6, UrlStays, QuietShows

\* It does not.
LEMMA LoadFailsShows ==
  ASSUME IInv, IInv', ShownInv, NEW i \in DOMAIN loads, LoadFails(i)
  PROVE  ShownInv'
<1>1. /\ loads' = RemoveAt(loads, i)
      /\ UNCHANGED <<made, alive, log, list, url, streams, held, creates, hide,
                     harmed, orphaned>>
      /\ acts' = acts \/ acts' = acts + 1
  BY DEF LoadFails, Fault, Act, server, channel, requests, history
<1>2. LoadsOnward
  <2>1. loads \in Seq(LoadRecords)  BY DEF IInv, ViewFits
  <2>2. i \in 1 .. Len(loads)  BY <2>1
  <2>3. \A k \in DOMAIN loads' : \E j \in DOMAIN loads : loads'[k] = loads[j]
    BY <1>1, <2>1, <2>2, RemoveFrom
  <2> QED  BY <2>3 DEF LoadsOnward
<1>3. Remembers' => Remembers /\ hide'.was = hide.was  BY <1>1 DEF Remembers
<1> QED  BY <1>1, <1>2, <1>3, UrlStays, QuietShows

\* A message for a conversation that is to be made: its id is new.
LEMMA SendDraftShows ==
  ASSUME IInv, IInv', ShownInv, SendDraft
  PROVE  ShownInv'
<1> DEFINE e == [id |-> acts', focus |-> focus, conv |-> None]
<1>1. /\ creates' = creates \cup {e} /\ Act
      /\ UNCHANGED <<made, alive, log, list, url, loads, streams, held, hide, harmed, orphaned>>
  BY DEF SendDraft, NewId, Act, server, view, channel, history
<1>2. e.id = acts' /\ e.conv = None  OBVIOUS
<1> HIDE DEF e
<1>3. acts \in Nat /\ acts' = acts + 1  BY <1>1, HeldFacts DEF Act
<1>4. /\ \A c \in Convs : \A j \in DOMAIN log[c] : log[c][j].id <= acts /\ log[c][j].id \in Nat
      /\ \A s \in Unserved : streams[s].msg <= acts /\ streams[s].msg \in Nat
      /\ \A r \in creates : r.id <= acts /\ r.id \in Nat
  BY IdFacts DEF ShownInv, IdsFit, LogIdsFit, SentIdsFit, DraftIdsFit
<1>5. Unserved' = Unserved  BY <1>1 DEF Unserved
<1>6. LogIdsFit /\ SentIdsFit /\ DraftIdsFit  BY DEF ShownInv, IdsFit
<1>7. LogIdsFit'
  <2>1. SUFFICES ASSUME NEW c \in Convs, NEW j \in DOMAIN log[c]
                 PROVE  /\ log[c][j].id <= acts' /\ log[c][j].out <= MaxRounds
                        /\ \A k \in DOMAIN log[c] : log[c][j].id = log[c][k].id => j = k
                        /\ \A s \in Unserved : log[c][j].id # streams[s].msg
                        /\ \A r \in creates' : log[c][j].id # r.id
    BY <1>1, <1>5 DEF LogIdsFit
  <2>2. log[c][j].id <= acts /\ log[c][j].id \in Nat  BY <1>4
  <2>3. log[c][j].id <= acts' /\ log[c][j].id # e.id  BY <1>2, <1>3, <2>2
  <2> QED  BY <1>1, <1>6, <2>3 DEF LogIdsFit
<1>8. SentIdsFit'
  <2>1. SUFFICES ASSUME NEW s \in Unserved
                 PROVE  /\ streams[s].msg <= acts'
                        /\ \A t \in Unserved : streams[s].msg = streams[t].msg => s = t
                        /\ \A r \in creates' : streams[s].msg # r.id
    BY <1>1, <1>5 DEF SentIdsFit
  <2>2. streams[s].msg <= acts /\ streams[s].msg \in Nat  BY <1>4
  <2>3. streams[s].msg <= acts' /\ streams[s].msg # e.id  BY <1>2, <1>3, <2>2
  <2> QED  BY <1>1, <1>6, <2>3 DEF SentIdsFit
<1>9. DraftIdsFit'
  <2>1. \A r \in creates : r.id <= acts' /\ r.id # e.id  BY <1>2, <1>3, <1>4
  <2>2. e.id <= acts'  BY <1>2, <1>3
  <2> QED  BY <1>1, <1>6, <2>1, <2>2 DEF DraftIdsFit
<1>10. \A r \in creates' : r.conv = None \/ \E q \in creates : q.conv = r.conv  BY <1>1, <1>2
<1>11. Remembers' => Remembers /\ hide'.was = hide.was  BY <1>1 DEF Remembers
<1>12. IdsFit'  BY <1>7, <1>8, <1>9 DEF IdsFit
<1> QED  BY <1>1, <1>3, <1>10, <1>11, <1>12, LoadsSame, UrlStays, QuietStep

\* A conversation is to be archived, with the list as it is.
LEMMA DeleteActiveShows ==
  ASSUME IInv, IInv', ShownInv, DeleteActive
  PROVE  ShownInv'
<1>1. /\ Act /\ hide'.was = list
      /\ UNCHANGED <<made, alive, log, list, url, loads, streams, held, creates,
                     harmed, orphaned>>
  BY DEF DeleteActive, server, view, channel, history
<1> QED  BY <1>1, LoadsSame, UrlStays, QuietShows DEF Act

\* A project is.
LEMMA ArchiveProjectShows ==
  ASSUME IInv, IInv', ShownInv, ArchiveProject
  PROVE  ShownInv'
<1>1. /\ Act /\ hide'.kind = "project"
      /\ UNCHANGED <<made, alive, log, list, url, loads, streams, held, creates,
                     harmed, orphaned>>
  BY DEF ArchiveProject, server, view, channel, history
<1>2. ~ Remembers'  BY <1>1 DEF Remembers
<1> QED  BY <1>1, <1>2, LoadsSame, UrlStays, QuietShows DEF Act

\* They are archived.
LEMMA HideServedShows ==
  ASSUME IInv, IInv', ShownInv, HideServed
  PROVE  ShownInv'
<1>1. /\ hide.st = "asked" /\ hide' = [hide EXCEPT !.st = "served"] /\ alive' \subseteq alive
      /\ UNCHANGED <<made, log, list, url, loads, streams, held, creates,
                     harmed, orphaned>>
      /\ acts' = acts \/ acts' = acts + 1
  BY DEF HideServed, Fault, Act, view, channel, history
<1>2. hide # NoHide  BY <1>1 DEF NoHide
<1>3. Remembers' => Remembers /\ hide'.was = hide.was
  BY <1>1, <1>2 DEF Remembers, NoHide
<1> QED  BY <1>1, <1>3, LoadsSame, UrlStays, QuietShows

\* They are not.
LEMMA HideFailsShows ==
  ASSUME IInv, IInv', ShownInv, HideFails
  PROVE  ShownInv'
<1>1. /\ hide' = NoHide /\ alive' \subseteq alive /\ (acts' = acts \/ acts' = acts + 1)
      /\ UNCHANGED <<made, log, list, url, loads, streams, held, creates, harmed, orphaned>>
  BY DEF HideFails, Fault, Act, server, view, channel, history
<1>2. ~ Remembers'  BY <1>1 DEF Remembers, NoHide
<1> QED  BY <1>1, <1>2, LoadsSame, UrlStays, QuietShows

\* Nothing happens.
LEMMA StutterShows ==
  ASSUME IInv, IInv', ShownInv, UNCHANGED vars
  PROVE  ShownInv'
<1>1. UNCHANGED <<made, alive, log, list, url, loads, streams, held, creates, hide, acts,
                  harmed, orphaned>>
  BY DEF vars, server, view, channel, requests, history
<1>2. Remembers' => Remembers /\ hide'.was = hide.was  BY <1>1 DEF Remembers
<1> QED  BY <1>1, <1>2, LoadsSame, UrlStays, QuietShows

-----------------------------------------------------------------------------
(* The list changes, a stream ends, or a conversation is made. *)

\* An entry of the list to come.
LEMMA NewEntry ==
  ASSUME NEW c, NEW e, e = list'[c], FitsFor(e, c)'
  PROVE  FitsFor(list[c], c)'
BY DEF FitsFor, Holds

\* One that shows nothing.
LEMMA EmptyFits ==
  ASSUME NEW c, NEW e \in EntryRecords, e.msgs = <<>>
  PROVE  FitsFor(e, c)'
<1>1. Got(e.msgs) = <<>> /\ DOMAIN e.msgs = {}  BY GotEmpty
<1>2. Range(Got(e.msgs)) = {} /\ IsInjective(Got(e.msgs))  BY <1>1 DEF Range, IsInjective
<1>3. EntryFits(e, log'[c], Len(streams'), acts')  BY <1>1, <1>2 DEF EntryFits
<1>4. BubbleFits(e.msgs, log'[c], held', streams'[held'])  BY <1>1 DEF BubbleFits
<1> QED  BY <1>2, <1>3, <1>4 DEF FitsFor

\* A step that leaves the turns and the streams alone, but not the list.
LEMMA ListStep ==
  ASSUME IInv, IInv', ShownInv, UNCHANGED <<made, alive, log, streams, held, acts, orphaned>>,
         harmed \subseteq harmed', url' \in made \cup {None}, creates' \subseteq creates,
         list' = [c \in DOMAIN list' |-> list'[c]],
         \A c \in DOMAIN list' :
           (c \in DOMAIN list /\ list'[c] = list[c]) \/ FitsFor(list[c], c)',
         Remembers' => Remembers /\ hide'.was = hide.was, LoadsOnward,
         \A c \in alive \ (harmed' \cup orphaned) :
           \/ /\ c \in DOMAIN list' <=> c \in DOMAIN list
              /\ c \in DOMAIN list => list'[c] = list[c]
           \/ WholeFits(c)'
  PROVE  ShownInv'
<1>1. \A c \in Convs : Onward(c)  BY HeldFacts, OnwardFits
<1>2. \A c \in Convs : log'[c] = log[c] /\ WaitsLess(c)  BY DEF WaitsLess, Waits
<1>3. IdsFit'  BY IdsSame DEF ShownInv
<1>4. \A c \in alive' \ (harmed' \cup orphaned') : (c \in alive /\ Keeps(c)) \/ WholeFits(c)'
  <2>1. SUFFICES ASSUME NEW c \in alive \ (harmed' \cup orphaned), ~ WholeFits(c)' PROVE Keeps(c)
    OBVIOUS
  <2>2. c \in Convs  BY DEF IInv, ServerFits
  <2> QED  BY <1>2, <2>1, <2>2 DEF Keeps
<1> QED  BY <1>1, <1>2, <1>3, <1>4, StepShows

\* The list as the server read it: nothing in it is loaded.
LEMMA ListArrivesShows ==
  ASSUME IInv, IInv', ShownInv, ListArrives
  PROVE  ShownInv'
<1>1. /\ list' = [c \in listing.got |-> [msgs |-> <<>>, loaded |-> FALSE, proj |-> bound[c]]]
      /\ loads' = LoadsAfter(list', url, loads) /\ listing.st = "read"
      /\ harmed' = harmed \cup {c \in DOMAIN list : list[c].msgs # <<>>}
      /\ UNCHANGED <<made, alive, log, url, streams, held, creates, hide, acts, orphaned>>
  BY DEF ListArrives, server, channel
<1>2. DOMAIN list' \subseteq Convs /\ loads \in Seq(LoadRecords)
  BY DEF IInv, ViewFits, ServerFits
<1>3. LoadsOnward  BY ZenonT(40), <1>1, <1>2, LoadsFrom DEF LoadsOnward
<1>4. ASSUME NEW c \in DOMAIN list' PROVE FitsFor(list[c], c)'
  <2>1. PICK e : e = list'[c]  OBVIOUS
  <2>2. e = [msgs |-> <<>>, loaded |-> FALSE, proj |-> bound[c]]  BY <1>1, <1>4, <2>1
  <2>3. bound[c] \in Projects \cup {None} /\ <<>> \in Seq(Bubbles)
    BY <1>2, <1>4 DEF IInv, ServerFits
  <2>4. e \in EntryRecords /\ e.msgs = <<>>  BY <2>2, <2>3 DEF EntryRecords
  <2> QED  BY <2>1, <2>4, EmptyFits, NewEntry
<1>5. ASSUME NEW c \in alive \ (harmed' \cup orphaned) PROVE WholeFits(c)'
  <2>1. c \in DOMAIN list => list[c].msgs = <<>>  BY <1>1
  <2>2. WholeFits(c)  BY <1>1 DEF ShownInv, ShownFits
  <2>3. /\ \A s \in DOMAIN streams : Waits(s, c) => s = held
        /\ Holds(c) => StreamFits(c)
        /\ c \in DOMAIN list /\ list[c].loaded => EntryShows(c)
        /\ \A r \in creates : r.conv = c => Untouched(c)
    BY <2>2 DEF WholeFits
  <2>4. Holds(c)' <=> Holds(c)  BY <1>1 DEF Holds
  <2>5. ASSUME Holds(c) PROVE streams[held].served
    <3>1. SUFFICES ASSUME ~ streams[held].served PROVE FALSE  OBVIOUS
    <3>2. c \in DOMAIN list /\ list[c].loaded  BY <2>3, <2>5, <3>1 DEF StreamFits
    <3>3. list[c].msgs # <<>>  BY <2>3, <2>5, <3>1, <3>2 DEF EntryShows, Sent
    <3> QED  BY <2>1, <3>2, <3>3
  <2>6. Holds(c)' => StreamFits(c)'  BY <1>1, <2>3, <2>4, <2>5 DEF StreamFits
  <2>7. c \in DOMAIN list' => ~ list'[c].loaded  BY <1>1
  <2>8. ASSUME NEW r \in creates', r.conv = c PROVE Untouched(c)'
    <3>1. Untouched(c)  BY <1>1, <2>3, <2>8
    <3> QED  BY <1>1, <2>1, <3>1 DEF Untouched, Waits
  <2>9. \A s \in DOMAIN streams' : Waits(s, c)' => s = held'  BY <1>1, <2>3 DEF Waits
  <2> QED  BY <2>6, <2>7, <2>8, <2>9 DEF WholeFits
<1>6. Remembers' => Remembers /\ hide'.was = hide.was  BY <1>1 DEF Remembers
<1>7. list' = [c \in DOMAIN list' |-> list'[c]]  BY <1>1
<1> QED  BY <1>1, <1>3, <1>4, <1>5, <1>6, <1>7, UrlStays, ListStep

\* The list of the click: what is not as it was there is damaged.
LEMMA DeleteArrivesShows ==
  ASSUME IInv, IInv', ShownInv, DeleteArrives
  PROVE  ShownInv'
<1>1. /\ hide.kind = "delete" /\ hide.st = "served" /\ hide' = NoHide
      /\ list' = [c \in DOMAIN hide.was \ hide.targets |-> hide.was[c]] /\ url' = None
      /\ harmed' = harmed \cup (DOMAIN list \ DOMAIN list')
                     \cup {c \in DOMAIN list' : c \notin DOMAIN list \/ list[c] # list'[c]}
      /\ UNCHANGED <<made, alive, log, loads, streams, held, creates, acts, orphaned>>
  BY DEF DeleteArrives, Without, Goes, server, channel
<1>2. \A c \in Convs : Onward(c)  BY <1>1, HeldFacts, OnwardFits
<1>3. ASSUME NEW c \in DOMAIN list' PROVE FitsFor(list[c], c)'
  <2>1. PICK l : l = hide.was  OBVIOUS
  <2>2. hide # NoHide  BY <1>1 DEF NoHide
  <2>3. EntriesFit(l)  BY <1>1, <2>1, <2>2 DEF ShownInv, EntryListsFit, Remembers
  <2>4. DOMAIN l \subseteq Convs
    BY <1>1, <2>1, <2>2 DEF IInv, RequestsFit, ServerFits, IsArchive
  <2>5. EntriesFit(l)'  BY <1>2, <2>3, <2>4, EntriesStay
  <2>6. PICK e : e = list'[c]  OBVIOUS
  <2>7. e = l[c] /\ c \in DOMAIN l  BY <1>1, <1>3, <2>1, <2>6
  <2>8. FitsFor(e, c)'  BY <2>5, <2>7 DEF EntriesFit
  <2> QED  BY <2>6, <2>8, NewEntry
<1>4. ~ Remembers'  BY <1>1 DEF Remembers
<1>5. list' = [c \in DOMAIN list' |-> list'[c]]  BY <1>1
<1> QED  BY <1>1, <1>3, <1>4, <1>5, LoadsSame, ListStep

\* The project's conversations leave the list: those that go on elsewhere are damaged.
LEMMA ProjectArrivesShows ==
  ASSUME IInv, IInv', ShownInv, ProjectArrives
  PROVE  ShownInv'
<1>1. /\ hide' = NoHide /\ list' = [c \in DOMAIN list \ hide.targets |-> list[c]]
      /\ url' \in {url, None} /\ loads' = LoadsAfter(list', url', loads)
      /\ harmed' = harmed \cup (hide.targets \cap alive)
      /\ UNCHANGED <<made, alive, log, streams, held, creates, acts, orphaned>>
  BY DEF ProjectArrives, Without, Goes, server, channel
<1>2. DOMAIN list' \subseteq Convs /\ loads \in Seq(LoadRecords)
  BY DEF IInv, ViewFits, ServerFits
<1>3. LoadsOnward  BY ZenonT(40), <1>1, <1>2, LoadsFrom DEF LoadsOnward
<1>4. ~ Remembers'  BY <1>1 DEF Remembers
<1>5. list' = [c \in DOMAIN list' |-> list'[c]]  BY <1>1
<1>6. \A c \in DOMAIN list' : c \in DOMAIN list /\ list'[c] = list[c]  BY <1>1
<1>7. \A c \in alive \ (harmed' \cup orphaned) :
        (c \in DOMAIN list' <=> c \in DOMAIN list) /\ (c \in DOMAIN list => list'[c] = list[c])
  BY <1>1
<1> QED  BY <1>1, <1>3, <1>4, <1>5, <1>6, <1>7, UrlStays, ListStep

\* A stream ends: what its conversation shows is the caller's matter.
LEMMA EndsShows ==
  ASSUME IInv, IInv', ShownInv, NEW s \in DOMAIN streams, Ends(s, Over),
         UNCHANGED server, UNCHANGED requests, UNCHANGED orphaned,
         acts' = acts \/ acts' = acts + 1,
         harmed \subseteq harmed',
         \A c \in alive \ (harmed' \cup orphaned) : streams[s].conv = c => WholeFits(c)'
  PROVE  ShownInv'
<1>1. /\ streams' = [streams EXCEPT ![s] = Over] /\ held' = (IF held = s THEN 0 ELSE held)
      /\ loads' = LoadsAfter(list, url, loads)
      /\ UNCHANGED <<made, alive, log, url, list, creates, hide>>
  BY DEF Ends, server, requests
<1>2. DOMAIN list \subseteq Convs /\ loads \in Seq(LoadRecords) /\ ChannelFits
  BY DEF IInv, ViewFits, ServerFits
<1>3. LoadsOnward  BY <1>1, <1>2, LoadsFrom DEF LoadsOnward
<1>4. /\ DOMAIN streams' = DOMAIN streams /\ streams'[s] = Over
      /\ \A t \in DOMAIN streams : t # s => streams'[t] = streams[t]
      /\ s \in Nat /\ s # 0
  BY <1>1, HeldFacts
<1>5. Len(streams') = Len(streams)
  <2>1. streams \in Seq(StreamRecords) /\ Over \in StreamRecords /\ s \in 1 .. Len(streams)
    BY <1>2, HeldFacts DEF ChannelFits, StreamRecords
  <2> HIDE DEF Over
  <2> QED  BY <1>1, <2>1, ReplaceFits
<1>6. \A c \in Convs : Onward(c)
  <2>1. held' = 0 \/ (held' = held /\ (held # 0 => streams'[held] = streams[held]))
    <3>1. held # 0 => held \in DOMAIN streams  BY HeldFacts
    <3>4. held' = (IF held = s THEN 0 ELSE held)  BY <1>1
    <3>2. CASE held = s  BY <3>2, <3>4
    <3>3. CASE held # s  BY <1>4, <3>1, <3>3, <3>4
    <3> QED  BY <3>2, <3>3
  <2> QED  BY <1>1, <1>5, <2>1, HeldFacts, OnwardFits
<1>7. Over.state = "over" /\ Over.served  BY DEF Over
<1>8. \A c : WaitsLess(c)
  <2> HIDE DEF Over
  <2> QED  BY <1>4, <1>7 DEF WaitsLess, Waits
<1>9. IdsFit'
  <2>1. IdsFit  BY DEF ShownInv
  <2>2. \A t \in Unserved' : t \in Unserved /\ streams'[t].msg = streams[t].msg
    <3> HIDE DEF Over
    <3> QED  BY <1>4, <1>7 DEF Unserved
  <2>3. \A c \in Convs : \A j \in DOMAIN log'[c] :
          j \in DOMAIN log[c] /\ log'[c][j].id = log[c][j].id /\ log'[c][j].out <= MaxRounds
    BY <1>1, <2>1 DEF IdsFit, LogIdsFit
  <2>4. \A r \in creates' : \E q \in creates : q.id = r.id  BY <1>1
  <2>5. \A r, q \in creates' : r.id = q.id => r = q  BY <1>1, <2>1 DEF IdsFit, DraftIdsFit
  <2> QED  BY <2>1, <2>2, <2>3, <2>4, <2>5, IdsStay
<1>10. ASSUME NEW c \in alive' \ (harmed' \cup orphaned')
       PROVE  (c \in alive /\ Keeps(c)) \/ WholeFits(c)'
  <2>1. CASE streams[s].conv = c  BY <1>1, <2>1
  <2>2. CASE streams[s].conv # c
    <3>1. Holds(c) => held' = held /\ streams'[held] = streams[held]
      BY <1>1, <1>4, <2>2, HeldFacts DEF Holds
    <3> QED  BY <1>1, <1>8, <3>1 DEF Keeps
  <2> QED  BY <2>1, <2>2
<1>11. Remembers' => Remembers /\ hide'.was = hide.was  BY <1>1 DEF Remembers
<1>12. list' = [c \in DOMAIN list' |-> list'[c]]
  BY <1>1 DEF ShownInv, EntryListsFit, EntriesFit
<1> QED  BY <1>1, <1>3, <1>6, <1>8, <1>9, <1>10, <1>11, <1>12, UrlStays, StepShows

\* A message is refused.
LEMMA RefuseShows ==
  ASSUME IInv, IInv', ShownInv, NEW s \in DOMAIN streams, Refuse(s)
  PROVE  ShownInv'
<1>1. /\ Ends(s, Over) /\ harmed' = harmed \cup {streams[s].conv}
      /\ UNCHANGED server /\ UNCHANGED requests /\ UNCHANGED orphaned
      /\ acts' = acts \/ acts' = acts + 1
  BY DEF Refuse, Fault, Act
<1> QED  BY <1>1, EndsShows

\* A conversation is made: nothing was said in it, and nothing is sent to it.
LEMMA CreateServedShows ==
  ASSUME IInv, IInv', ShownInv, CreateServed
  PROVE  ShownInv'
<1>1. PICK r \in creates, c \in Unused :
        /\ r.conv = None /\ creates' = (creates \ {r}) \cup {[r EXCEPT !.conv = c]}
        /\ made' = made \cup {c} /\ alive' = alive \cup {c}
        /\ UNCHANGED <<log, url, list, loads, streams, held, hide, harmed, orphaned>>
        /\ acts' = acts \/ acts' = acts + 1
  BY DEF CreateServed, Fault, Act, view, channel, history
<1> DEFINE q == [r EXCEPT !.conv = c]
<1>2. q.id = r.id /\ q.conv = c
  <2>1. r \in CreateRecords  BY <1>1 DEF IInv, RequestsFit
  <2> QED  BY <2>1 DEF CreateRecords
<1>3. creates' = (creates \ {r}) \cup {q}  BY <1>1
<1> HIDE DEF q
<1>4. c \in Convs /\ c \notin made /\ c \notin DOMAIN list /\ c # None
  BY <1>1, ChatViewAssumption DEF Unused, IInv, ViewFits
<1>5. \A d \in Convs : Onward(d)  BY <1>1, HeldFacts, OnwardFits
<1>6. \A d : log'[d] = log[d] /\ WaitsLess(d)  BY <1>1 DEF WaitsLess, Waits
<1>7. IdsFit'
  <2>1. IdsFit  BY DEF ShownInv
  <2>2. \A t \in Unserved' : t \in Unserved /\ streams'[t].msg = streams[t].msg
    BY <1>1 DEF Unserved
  <2>3. \A d \in Convs : \A j \in DOMAIN log'[d] :
          j \in DOMAIN log[d] /\ log'[d][j].id = log[d][j].id /\ log'[d][j].out <= MaxRounds
    BY <1>1, <2>1 DEF IdsFit, LogIdsFit
  <2>4. \A t \in creates' : \E u \in creates : u.id = t.id  BY <1>1, <1>2, <1>3
  <2>5. \A t, u \in creates' : t.id = u.id => t = u
    BY <1>1, <1>2, <1>3, <2>1 DEF IdsFit, DraftIdsFit
  <2> QED  BY <1>1, <2>1, <2>2, <2>3, <2>4, <2>5, IdsStay
<1>8. log[c] = <<>> /\ \A s \in DOMAIN streams : ~ Waits(s, c)
  BY <1>4 DEF ShownInv, MadeFits
<1>9. WholeFits(c)'
  <2>1. \A s \in DOMAIN streams' : ~ Waits(s, c)'  BY <1>1, <1>8 DEF Waits
  <2>2. ~ Holds(c)'  BY <1>1, <1>8, HeldFacts DEF Holds, Waits
  <2>3. c \notin DOMAIN list'  BY <1>1, <1>4
  <2>4. Untouched(c)'  BY <1>1, <1>8, <2>1 DEF Untouched
  <2> QED  BY <2>1, <2>2, <2>3, <2>4 DEF WholeFits
<1>10. ASSUME NEW d \in alive' \ (harmed' \cup orphaned')
       PROVE  (d \in alive /\ Keeps(d)) \/ WholeFits(d)'
  <2>1. CASE d = c  BY <1>9, <2>1
  <2>2. CASE d # c
    <3>1. d \in alive  BY <1>1, <2>2
    <3>2. \A t \in creates' : t.conv = d => t \in creates  BY <1>2, <1>3, <2>2
    <3> QED  BY <1>1, <1>6, <3>1, <3>2 DEF Keeps
  <2> QED  BY <2>1, <2>2
<1>11. Remembers' => Remembers /\ hide'.was = hide.was  BY <1>1 DEF Remembers
<1>12. list' = [d \in DOMAIN list' |-> list'[d]]
  BY <1>1 DEF ShownInv, EntryListsFit, EntriesFit
<1>13. url' \in made' \cup {None}  BY <1>1, UrlStays
<1> QED  BY <1>1, <1>5, <1>6, <1>7, <1>10, <1>11, <1>12, <1>13, LoadsSame, StepShows

\* It is not made, or the tab is told that it is not.
LEMMA CreateFailsShows ==
  ASSUME IInv, IInv', ShownInv, CreateFails
  PROVE  ShownInv'
<1>1. /\ creates' \subseteq creates /\ acts' = acts + 1
      /\ UNCHANGED <<log, list, url, loads, streams, held, hide, harmed, orphaned>>
  BY DEF CreateFails, Fault, Act, view, channel
<1>2. Remembers' => Remembers /\ hide'.was = hide.was  BY <1>1 DEF Remembers
<1>3. CASE UNCHANGED <<made, alive>>  BY <1>1, <1>2, <1>3, LoadsSame, UrlStays, QuietShows
<1>4. CASE \E c \in Unused : made' = made \cup {c} /\ alive' = alive \cup {c}
  <2>1. PICK c \in Unused : made' = made \cup {c} /\ alive' = alive \cup {c}  BY <1>4
  <2>2. c \in Convs /\ c \notin made /\ c \notin DOMAIN list /\ c # None
    BY <2>1, ChatViewAssumption DEF Unused, IInv, ViewFits
  <2>3. \A d \in Convs : Onward(d)  BY <1>1, HeldFacts, OnwardFits
  <2>4. \A d : log'[d] = log[d] /\ WaitsLess(d)  BY <1>1 DEF WaitsLess, Waits
  <2>5. IdsFit'  BY <1>1, IdsSame DEF ShownInv
  <2>6. log[c] = <<>> /\ \A s \in DOMAIN streams : ~ Waits(s, c)
    BY <2>2 DEF ShownInv, MadeFits
  <2>7. WholeFits(c)'
    <3>1. \A s \in DOMAIN streams' : ~ Waits(s, c)'  BY <1>1, <2>6 DEF Waits
    <3>2. ~ Holds(c)'  BY <1>1, <2>6, HeldFacts DEF Holds, Waits
    <3>3. c \notin DOMAIN list'  BY <1>1, <2>2
    <3>4. Untouched(c)'  BY <1>1, <2>6, <3>1 DEF Untouched
    <3> QED  BY <3>1, <3>2, <3>3, <3>4 DEF WholeFits
  <2>8. ASSUME NEW d \in alive' \ (harmed' \cup orphaned')
        PROVE  (d \in alive /\ Keeps(d)) \/ WholeFits(d)'
    <3>1. CASE d = c  BY <2>7, <3>1
    <3>2. CASE d # c
      <4>1. d \in alive  BY <2>1, <3>2
      <4> QED  BY <1>1, <2>4, <4>1 DEF Keeps
    <3> QED  BY <3>1, <3>2
  <2>9. list' = [d \in DOMAIN list' |-> list'[d]]
    BY <1>1 DEF ShownInv, EntryListsFit, EntriesFit
  <2>10. made \subseteq made' /\ url' \in made' \cup {None}  BY <1>1, <2>1, UrlStays
  <2> QED
    BY <1>1, <1>2, <2>3, <2>4, <2>5, <2>8, <2>9, <2>10, LoadsSame, StepShows
<1> QED  BY <1>3, <1>4 DEF CreateFails

-----------------------------------------------------------------------------
(* A turn goes on. *)

\* The turns with another last one.
LEMMA LastChanged ==
  ASSUME NEW ts \in Seq(TurnRecords), ts # <<>>, NEW t \in TurnRecords
  PROVE  LET us == Append(Front(ts), t)
         IN  /\ us \in Seq(TurnRecords) /\ us # <<>> /\ Len(us) = Len(ts) /\ Last(us) = t
             /\ DOMAIN us = DOMAIN ts
             /\ \A i \in DOMAIN ts : us[i] = IF i = Len(ts) THEN t ELSE ts[i]
<1> DEFINE us == Append(Front(ts), t)
           n  == Len(ts)
<1>1. /\ n \in Nat /\ n >= 1 /\ DOMAIN ts = 1 .. n
      /\ Front(ts) \in Seq(TurnRecords) /\ Len(Front(ts)) = n - 1
      /\ \A i \in 1 .. n - 1 : Front(ts)[i] = ts[i]
  BY LastTurn
<1>2. /\ us \in Seq(TurnRecords) /\ Len(us) = (n - 1) + 1
      /\ us[(n - 1) + 1] = t /\ \A i \in 1 .. n - 1 : us[i] = Front(ts)[i]
  <2> DEFINE f == Front(ts)
  <2>1. f \in Seq(TurnRecords) /\ Len(f) = n - 1  BY <1>1
  <2> HIDE DEF f, n
  <2>2. /\ Append(f, t) \in Seq(TurnRecords) /\ Len(Append(f, t)) = Len(f) + 1
        /\ Append(f, t)[Len(f) + 1] = t /\ \A i \in 1 .. Len(f) : Append(f, t)[i] = f[i]
    BY <2>1, AppendFits
  <2> QED  BY <2>1, <2>2 DEF f
<1> HIDE DEF us, n
<1>3. Len(us) = n /\ us[n] = t /\ DOMAIN us = 1 .. n  BY <1>1, <1>2
<1>4. \A i \in 1 .. n : us[i] = IF i = n THEN t ELSE ts[i]
  <2>1. SUFFICES ASSUME NEW i \in 1 .. n, i # n PROVE us[i] = ts[i]  BY <1>3
  <2>2. i \in 1 .. n - 1  BY <1>1, <2>1
  <2> QED  BY <1>1, <1>2, <2>2
<1>5. us # <<>> /\ Last(us) = t  BY <1>1, <1>2, <1>3 DEF Last
<1> QED  BY <1>1, <1>2, <1>3, <1>4, <1>5 DEF us, n

\* What is shown and what is to come are still all there is.
LEMMA AheadRuns ==
  ASSUME NEW ts \in Seq(TurnRecords), ts # <<>>, NEW n \in 1 .. Last(ts).out + 1,
         NEW g \in Seq(Items), g \o Ahead(ts, n) = ItemsOf(ts),
         NEW t \in TurnRecords, t.id = Last(ts).id,
         t.out = Last(ts).out \/ t.out = Last(ts).out + 1
  PROVE  g \o Ahead(Append(Front(ts), t), n) = ItemsOf(Append(Front(ts), t))
<1>1. CASE t.out = Last(ts).out + 1  BY <1>1, AheadGrows
<1>2. CASE t.out = Last(ts).out
  <2> DEFINE us == Append(Front(ts), t)
  <2>1. Last(us) = t  BY LastChanged
  <2>2. ItemsOf(us) = ItemsOf(ts)  BY <1>2, ItemsKept
  <2> HIDE DEF us
  <2>3. Ahead(us, n) = Ahead(ts, n)  BY <1>2, <2>1 DEF Ahead
  <2> QED  BY <2>2, <2>3 DEF us
<1> QED  BY <1>1, <1>2

\* A live turn that is followed stays so.
LEMMA TurnShows ==
  ASSUME IInv, IInv', ShownInv, NEW c \in Convs, NEW t \in TurnRecords, Live(c), Turn(c, t),
         t.id = Last(log[c]).id, t.out = Last(log[c]).out \/ t.out = Last(log[c]).out + 1,
         t.out <= MaxRounds, t.end = "live" => Last(log[c]).end = "live",
         acts' = acts \/ acts' = acts + 1
  PROVE  ShownInv'
<1> DEFINE ts == log[c]
           us == Append(Front(ts), t)
<1>1. /\ log' = [log EXCEPT ![c] = us]
      /\ UNCHANGED <<made, alive, url, list, loads, streams, held, creates, hide,
                     harmed, orphaned>>
  BY DEF Turn, view, channel, requests, history
<1>2. ts # <<>> /\ LiveIn(ts) /\ ts \in Seq(TurnRecords)  BY HeldFacts DEF Live, LiveIn
<1>3. Last(ts) \in TurnRecords /\ Last(ts) = ts[Len(ts)] /\ Last(ts).out \in Nat
  BY <1>2, LastTurn DEF TurnRecords
<1>4. /\ us \in Seq(TurnRecords) /\ us # <<>> /\ Len(us) = Len(ts) /\ Last(us) = t
      /\ DOMAIN us = DOMAIN ts
      /\ \A i \in DOMAIN ts : us[i] = IF i = Len(ts) THEN t ELSE ts[i]
  BY <1>2, LastChanged
<1>5. log'[c] = us /\ \A d \in Convs : d # c => log'[d] = log[d]
  BY <1>1 DEF IInv, ServerFits
<1>6. Grown(ts, us)
  <2>1. Last(ts).out <= t.out  BY <1>3
  <2> QED  BY <1>2, <2>1, GrownAppend
<1> HIDE DEF us, ts
<1>7. \A d \in Convs : log'[d] = log[d] \/ Grown(log[d], log'[d])  BY <1>5, <1>6 DEF ts
<1>8. \A d \in Convs : Onward(d)  BY <1>1, <1>7, HeldFacts, OnwardFits
<1>9. \A d : WaitsLess(d)  BY <1>1 DEF WaitsLess, Waits
<1>10. IdsFit'
  <2>1. IdsFit  BY DEF ShownInv
  <2>2. \A s \in Unserved' : s \in Unserved /\ streams'[s].msg = streams[s].msg
    BY <1>1 DEF Unserved
  <2>3. ASSUME NEW d \in Convs, NEW j \in DOMAIN log'[d]
        PROVE  j \in DOMAIN log[d] /\ log'[d][j].id = log[d][j].id /\ log'[d][j].out <= MaxRounds
    <3>1. CASE d = c
      <4>1. j \in DOMAIN ts /\ us[j] = IF j = Len(ts) THEN t ELSE ts[j]
        BY <1>4, <1>5, <2>3, <3>1
      <4>2. ts[j].out <= MaxRounds  BY <2>1, <4>1 DEF IdsFit, LogIdsFit, ts
      <4>3. us[j].id = ts[j].id /\ us[j].out <= MaxRounds  BY <1>3, <4>1, <4>2 DEF ts
      <4> QED  BY <1>5, <3>1, <4>1, <4>3 DEF ts
    <3>2. CASE d # c
      BY <1>5, <2>1, <2>3, <3>2 DEF IdsFit, LogIdsFit
    <3> QED  BY <3>1, <3>2
  <2>4. \A r \in creates' : \E q \in creates : q.id = r.id  BY <1>1
  <2>5. \A r, q \in creates' : r.id = q.id => r = q  BY <1>1, <2>1 DEF IdsFit, DraftIdsFit
  <2> QED  BY <1>1, <2>1, <2>2, <2>3, <2>4, <2>5, IdsStay
<1>11. c \in made  BY <1>2 DEF ShownInv, MadeFits, ts
<1>12. ASSUME c \in alive \ (harmed \cup orphaned) PROVE WholeFits(c)'
  <2>1. /\ \A s \in DOMAIN streams : Waits(s, c) => s = held
        /\ Holds(c) => StreamFits(c)
        /\ c \in DOMAIN list /\ list[c].loaded => EntryShows(c)
        /\ \A r \in creates : r.conv = c => Untouched(c)
    BY <1>12 DEF ShownInv, ShownFits, WholeFits
  <2>2. Holds(c)' <=> Holds(c)  BY <1>1 DEF Holds
  <2>3. \A s \in DOMAIN streams' : Waits(s, c)' => s = held'  BY <1>1, <2>1 DEF Waits
  <2>4. ASSUME Holds(c)' PROVE StreamFits(c)'
    <3>1. Holds(c) /\ StreamFits(c)  BY <2>1, <2>2, <2>4
    <3>2. CASE ~ streams[held].served  BY <1>1, <3>1, <3>2 DEF StreamFits, Loading
    <3>3. CASE streams[held].served
      <4>1. streams[held].turn = Len(ts) /\ streams[held].n \in 1 .. Last(ts).out + 1
        BY <3>1, <3>3 DEF StreamFits, ts
      <4> DEFINE x == Last(ts).out
      <4>3. x \in Nat /\ (t.out = x \/ t.out = x + 1)  BY <1>3 DEF ts
      <4>4. streams[held].n \in 1 .. x + 1  BY <4>1
      <4> HIDE DEF x
      <4>2. streams[held].n \in 1 .. t.out + 1  BY <4>3, <4>4
      <4> QED  BY <1>1, <1>4, <1>5, <3>3, <4>1, <4>2 DEF StreamFits
    <3> QED  BY <3>2, <3>3
  <2>5. ASSUME c \in DOMAIN list', list'[c].loaded PROVE EntryShows(c)'
    <3> DEFINE ms == list[c].msgs
               r  == streams[held]
    <3>1. EntryShows(c) /\ c \in DOMAIN list  BY <1>1, <2>1, <2>5
    <3>2. Holds(c) /\ r.served /\ Followed(ms, ts, held, r)
      BY <1>2, <3>1 DEF EntryShows, Even, Sent, Aside, ts
    <3>3. r.n \in 1 .. Last(ts).out + 1  BY <2>1, <3>2 DEF StreamFits, ts
    <3>4. Got(ms) \in Seq(Items)
      <4>1. list[c] \in EntryRecords
        BY <1>12, <3>1 DEF ShownInv, EntryListsFit, EntriesFit, FitsFor, EntryFits
      <4>2. ms \in Seq(Bubbles)  BY <4>1 DEF EntryRecords
      <4> QED  BY <4>2, GotAppend
    <3> HIDE DEF ms, r
    <3>5. Got(ms) \o Ahead(ts, r.n) = ItemsOf(ts)  BY <3>2 DEF Followed
    <3>6. t.id = Last(ts).id /\ (t.out = Last(ts).out \/ t.out = Last(ts).out + 1)  BY DEF ts
    <3>7. Got(ms) \o Ahead(us, r.n) = ItemsOf(us)
      BY <1>2, <3>3, <3>4, <3>5, <3>6, AheadRuns DEF us
    <3>8. Followed(ms, us, held, r)  BY <3>2, <3>7 DEF Followed
    <3> QED  BY <1>1, <1>5, <2>2, <3>2, <3>8 DEF EntryShows, ms, r
  <2>6. ASSUME NEW r \in creates', r.conv = c PROVE Untouched(c)'
    <3>1. Untouched(c)  BY <1>1, <2>1, <2>6
    <3> QED  BY <1>1, <1>2, <3>1 DEF Untouched, ts
  <2> QED  BY <2>3, <2>4, <2>5, <2>6 DEF WholeFits
<1>13. ASSUME NEW d \in alive' \ (harmed' \cup orphaned')
       PROVE  (d \in alive /\ Keeps(d)) \/ WholeFits(d)'
  <2>1. CASE d = c  BY <1>1, <1>12, <2>1
  <2>2. CASE d # c
    <3>1. d \in alive /\ d \in Convs  BY <1>1 DEF IInv, ServerFits
    <3> QED  BY <1>1, <1>5, <1>9, <2>2, <3>1 DEF Keeps
  <2> QED  BY <2>1, <2>2
<1>14. Remembers' => Remembers /\ hide'.was = hide.was  BY <1>1 DEF Remembers
<1>15. list' = [d \in DOMAIN list' |-> list'[d]]
  BY <1>1 DEF ShownInv, EntryListsFit, EntriesFit
<1>16. \A d \in Convs \ made' : log'[d] = log[d] /\ WaitsLess(d)  BY <1>1, <1>5, <1>9, <1>11
<1>17. made \subseteq made' /\ url' \in made' \cup {None}  BY <1>1, UrlStays
<1>18. LoadsOnward  BY <1>1, LoadsSame
<1>19. harmed \subseteq harmed' /\ orphaned \subseteq orphaned'  BY <1>1
<1>20. \A d \in DOMAIN list' : d \in DOMAIN list /\ list'[d] = list[d]  BY <1>1
<1> QED
  BY <1>8, <1>10, <1>13, <1>14, <1>15, <1>16, <1>17, <1>18, <1>19, <1>20, StepShows

\* A round.
LEMMA ProduceShows ==
  ASSUME IInv, IInv', ShownInv, Produce
  PROVE  ShownInv'
<1>1. PICK c \in Convs, asks \in BOOLEAN :
        /\ Live(c) /\ Last(log[c]).out < MaxRounds
        /\ UNCHANGED acts
        /\ Turn(c, [Last(log[c]) EXCEPT !.out = @ + 1, !.asks = asks])
  BY DEF Produce
<1> DEFINE l == Last(log[c])
           t == [l EXCEPT !.out = l.out + 1, !.asks = asks]
<1>2. l \in TurnRecords
  <2>1. log[c] \in Seq(TurnRecords) /\ log[c] # <<>>  BY <1>1, HeldFacts DEF Live
  <2> QED  BY <2>1, LastTurn
<1>3. l.out \in Nat /\ l.out + 1 \in Nat /\ MaxRounds \in Nat /\ l.out < MaxRounds
  BY <1>1, <1>2, ChatViewAssumption DEF TurnRecords
<1>4. t \in TurnRecords  BY <1>2, <1>3, RoundFits
<1>5. t.id = l.id /\ t.out = l.out + 1 /\ t.end = l.end  BY <1>2 DEF TurnRecords
<1>6. t.out <= MaxRounds  BY <1>3, <1>5
<1>7. Turn(c, t)  BY <1>1
<1> HIDE DEF t
<1> QED  BY <1>1, <1>4, <1>5, <1>6, <1>7, TurnShows

\* The end of a turn.
LEMMA EndTurnShows ==
  ASSUME IInv, IInv', ShownInv, EndTurn
  PROVE  ShownInv'
<1>1. PICK c \in Convs, end \in {"silent", "done"} :
        /\ Live(c) /\ Turn(c, [Last(log[c]) EXCEPT !.end = end])
        /\ acts' = acts \/ acts' = acts + 1
  BY DEF EndTurn, Fault, Act
<1> DEFINE l == Last(log[c])
           t == [l EXCEPT !.end = end]
<1>2. log[c] \in Seq(TurnRecords) /\ log[c] # <<>>  BY <1>1, HeldFacts DEF Live
<1>3. l \in TurnRecords /\ l = log[c][Len(log[c])] /\ Len(log[c]) \in DOMAIN log[c]
  BY <1>2, LastTurn
<1>4. t \in TurnRecords  BY <1>3 DEF TurnRecords
<1>5. t.id = l.id /\ t.out = l.out /\ t.end # "live"  BY <1>3 DEF TurnRecords
<1>6. t.out <= MaxRounds  BY <1>3, <1>5 DEF ShownInv, IdsFit, LogIdsFit
<1>7. Turn(c, t)  BY <1>1
<1> HIDE DEF t
<1> QED  BY <1>1, <1>4, <1>5, <1>6, <1>7, TurnShows

-----------------------------------------------------------------------------
(* A turn begins. *)

\* One element behind.
LEMMA OneBehind ==
  ASSUME NEW S, NEW e \in S, NEW s \in Seq(S)
  PROVE  /\ <<e>> \in Seq(S) /\ s \o <<e>> = Append(s, e)
         /\ \A t \in Seq(S) : s \o Append(t, e) = Append(s \o t, e)
<1>1. <<e>> \in Seq(S)  OBVIOUS
<1> DEFINE q == <<e>>
<1>2. \A t \in Seq(S) : t \o q = Append(t, e)  BY AppendIsConcat
<1> HIDE DEF q
<1>3. q \in Seq(S)  BY <1>1 DEF q
<1>4. ASSUME NEW t \in Seq(S) PROVE s \o Append(t, e) = Append(s \o t, e)
  <2>1. s \o t \in Seq(S)  BY ConcatFits
  <2>2. (s \o t) \o q = s \o (t \o q)  BY <1>3, Three
  <2> QED  BY <1>2, <2>1, <2>2
<1> QED  BY <1>1, <1>2, <1>4 DEF q

\* The stream that is held moves on, or the turns do.
LEMMA OnwardMoves ==
  ASSUME IInv, UNCHANGED <<held, orphaned>>, acts' = acts \/ acts' = acts + 1,
         Len(streams') = Len(streams),
         \A c \in Convs : log'[c] = log[c] \/ Grown(log[c], log'[c]),
         held # 0 =>
           \/ streams'[held] = streams[held]
           \/ /\ streams'[held].conv = streams[held].conv
              /\ streams'[held].served =>
                   \/ streams'[held].turn > Len(log[streams[held].conv])
                   \/ /\ streams[held].served
                      /\ Further(log[streams[held].conv], streams[held].turn, streams[held].n,
                                 streams'[held].turn, streams'[held].n)
  PROVE  \A c \in Convs : Onward(c)
<1> SUFFICES ASSUME NEW c \in Convs PROVE Onward(c)  OBVIOUS
<1>1. Grown(log[c], log'[c])  BY HeldFacts, GrownSame
<1>2. acts <= acts' /\ Len(streams) <= Len(streams')  BY HeldFacts
<1>3. ASSUME held' # 0, streams'[held'].conv = c
      PROVE  /\ Holds(c) /\ held' = held
             /\ streams'[held].served =>
                  \/ streams'[held].turn > Len(log[c])
                  \/ /\ streams[held].served
                     /\ Further(log[c], streams[held].turn, streams[held].n,
                                streams'[held].turn, streams'[held].n)
  <2>1. held # 0 /\ held' = held /\ streams'[held].conv = c  BY <1>3
  <2>2. CASE streams'[held] = streams[held]
    <3>1. ASSUME streams[held].served
          PROVE  Further(log[c], streams[held].turn, streams[held].n,
                         streams[held].turn, streams[held].n)
      <4>1. streams[held].n \in Nat  BY <2>1, <3>1, HeldFacts
      <4> QED  BY <4>1 DEF Further
    <3> QED  BY <2>1, <2>2, <3>1 DEF Holds
  <2>3. CASE streams'[held] # streams[held]  BY <2>1, <2>3 DEF Holds
  <2> QED  BY <2>2, <2>3
<1>4. held' # 0 /\ streams'[held'].conv = c =>
       \/ held' > Len(streams)
       \/ /\ Holds(c) /\ held' = held
          /\ streams'[held].served =>
               \/ streams'[held].turn > Len(log[c])
               \/ /\ streams[held].served
                  /\ Further(log[c], streams[held].turn, streams[held].n,
                             streams'[held].turn, streams'[held].n)
  BY <1>3
<1> QED  BY <1>1, <1>2, <1>4 DEF Onward

\* The turns, when another one begins.
Begun(ts, id) ==
  Append(IF LiveIn(ts) THEN Append(Front(ts), [Last(ts) EXCEPT !.end = "silent"]) ELSE ts,
         NewTurn(id))

\* They stay well formed, and the new one is the last.
LEMMA BegunFits ==
  ASSUME NEW ts \in Seq(TurnRecords), NEW id \in Nat
  PROVE  LET us == Begun(ts, id)
         IN  /\ us \in Seq(TurnRecords) /\ Len(us) = Len(ts) + 1 /\ us # <<>>
             /\ Last(us) = NewTurn(id) /\ us[Len(ts) + 1] = NewTurn(id) /\ Grown(ts, us)
             /\ DOMAIN us = 1 .. Len(ts) + 1
             /\ \A j \in 1 .. Len(ts) : us[j].id = ts[j].id /\ us[j].out = ts[j].out
             /\ ~ LiveIn(ts) => us = Append(ts, NewTurn(id))
<1> DEFINE e == NewTurn(id)
           w == IF LiveIn(ts) THEN Append(Front(ts), [Last(ts) EXCEPT !.end = "silent"]) ELSE ts
           us == Append(w, e)
           n == Len(ts)
<1>1. e \in TurnRecords  BY DEF NewTurn, TurnRecords
<1>2. /\ w \in Seq(TurnRecords) /\ Len(w) = n /\ Grown(ts, w)
      /\ \A j \in 1 .. n : w[j].id = ts[j].id /\ w[j].out = ts[j].out
  <2>1. CASE ~ LiveIn(ts)  BY <2>1, GrownSame
  <2>2. CASE LiveIn(ts)
    <3> DEFINE t == [Last(ts) EXCEPT !.end = "silent"]
    <3>1. ts # <<>>  BY <2>2 DEF LiveIn
    <3>2. Last(ts) \in TurnRecords /\ Last(ts) = ts[Len(ts)] /\ DOMAIN ts = 1 .. Len(ts)
      BY <3>1, LastTurn
    <3>3. /\ t \in TurnRecords /\ t.id = Last(ts).id /\ t.out = Last(ts).out
          /\ Last(ts).out <= t.out /\ t.end # "live"
      <4> DEFINE l == Last(ts)
      <4>1. l \in TurnRecords  BY <3>2
      <4>2. t = [l EXCEPT !.end = "silent"]  OBVIOUS
      <4> HIDE DEF l, t
      <4>3. t \in TurnRecords /\ t.id = l.id /\ t.out = l.out /\ l.out \in Nat /\ t.end # "live"
        BY <4>1, <4>2 DEF TurnRecords
      <4> QED  BY <4>3 DEF l
    <3>4. w = Append(Front(ts), t)  BY <2>2
    <3> HIDE DEF t, w
    <3>5. Grown(ts, Append(Front(ts), t))  BY <3>1, <3>3, GrownAppend
    <3>6. /\ Append(Front(ts), t) \in Seq(TurnRecords) /\ Len(Append(Front(ts), t)) = Len(ts)
          /\ \A i \in DOMAIN ts : Append(Front(ts), t)[i] = IF i = Len(ts) THEN t ELSE ts[i]
      BY <3>1, <3>3, LastChanged
    <3> QED  BY <3>2, <3>3, <3>4, <3>5, <3>6
  <2> QED  BY <2>1, <2>2
<1>3. n \in Nat  OBVIOUS
<1> HIDE DEF e, w, us, n
<1>4. /\ Append(w, e) \in Seq(TurnRecords) /\ Len(Append(w, e)) = Len(w) + 1
      /\ Append(w, e)[Len(w) + 1] = e /\ \A i \in 1 .. Len(w) : Append(w, e)[i] = w[i]
  BY <1>1, <1>2, AppendFits
<1>5. /\ us \in Seq(TurnRecords) /\ Len(us) = n + 1 /\ us[n + 1] = e
      /\ \A i \in 1 .. n : us[i] = w[i]
  BY <1>2, <1>4 DEF us
<1>6. us # <<>> /\ Last(us) = e /\ DOMAIN us = 1 .. n + 1  BY <1>3, <1>5 DEF Last
<1>7. Grown(w, us)  BY <1>1, <1>2, GrownAppend DEF us
<1>8. Grown(ts, us)  BY <1>2, <1>5, <1>7, GrownOn
<1>9. \A j \in 1 .. n : us[j].id = ts[j].id /\ us[j].out = ts[j].out  BY <1>2, <1>5
<1>10. ~ LiveIn(ts) => us = Append(ts, e)  BY DEF us, w
<1>11. us = Begun(ts, id)  BY DEF us, w, e, Begun
<1> QED  BY <1>5, <1>6, <1>8, <1>9, <1>10, <1>11 DEF e, n

\* The message that was shown is stored, and nothing else.
LEMMA BegunShows ==
  ASSUME NEW ts \in Seq(TurnRecords), NEW id \in Nat, ~ LiveIn(ts),
         NEW g, g = Append(ItemsOf(ts), <<id, 0>>)
  PROVE  g \o Ahead(Begun(ts, id), 1) = ItemsOf(Begun(ts, id))
<1> DEFINE e == NewTurn(id)
           x == <<id, 0>>
<1>1. e \in TurnRecords /\ e.id = id /\ e.out = 0  BY DEF NewTurn, TurnRecords
<1>2. x \in Items  BY DEF Items
<1>3. /\ Begun(ts, id) = Append(ts, e) /\ Begun(ts, id) \in Seq(TurnRecords)
      /\ Begun(ts, id) # <<>> /\ Last(Begun(ts, id)) = e
  BY BegunFits
<1>4. TurnItems(e) = <<x>>
  <2>1. /\ TurnItems(e) \in Seq(Items) /\ Len(TurnItems(e)) = e.out + 1
        /\ \A i \in 1 .. e.out + 1 : TurnItems(e)[i] = <<e.id, i - 1>>
    BY <1>1, TurnFits
  <2> HIDE DEF e
  <2>2. Len(TurnItems(e)) = 1 /\ TurnItems(e)[1] = x  BY <1>1, <2>1
  <2> HIDE DEF x
  <2>3. <<x>> \in Seq(Items) /\ Len(<<x>>) = 1 /\ <<x>>[1] = x  BY <1>2
  <2> DEFINE p == TurnItems(e)
             q == <<x>>
  <2>4. p \in Seq(Items) /\ q \in Seq(Items) /\ Len(p) = 1 /\ Len(q) = 1 /\ p[1] = q[1]
    BY <2>1, <2>2, <2>3
  <2> HIDE DEF p, q
  <2>5. \A i \in 1 .. 1 : p[i] = q[i]  BY <2>4
  <2>6. p = q  BY <2>4, <2>5, SeqEqual
  <2> QED  BY <2>6 DEF p, q
<1> HIDE DEF e, x
<1>5. ItemsOf(ts) \in Seq(Items) /\ ItemsOf(Append(ts, e)) = ItemsOf(ts) \o TurnItems(e)
  BY <1>1, ItemsAppend
<1>6. ItemsOf(ts) \o <<x>> = Append(ItemsOf(ts), x) /\ Append(ItemsOf(ts), x) \in Seq(Items)
  BY <1>2, <1>5, OneBehind
<1>7. Ahead(Begun(ts, id), 1) = <<>>
  <2>1. 1 \in 1 .. Last(Begun(ts, id)).out + 1 /\ 1 = Last(Begun(ts, id)).out + 1
    BY <1>1, <1>3
  <2> QED  BY <1>3, <2>1, AheadFits
<1>8. g = ItemsOf(Begun(ts, id)) /\ g \in Seq(Items)
  BY <1>3, <1>4, <1>5, <1>6 DEF x
<1>9. g \o <<>> = g  BY <1>8, ConcatEmptySeq
<1> QED  BY <1>7, <1>8, <1>9

\* Nobody knows the id of the turn that begins.
LEMMA BegunIds ==
  ASSUME IInv, IdsFit, NEW s \in Unserved, UNCHANGED <<acts, creates>>,
         log' = [log EXCEPT ![streams[s].conv] = Begun(log[streams[s].conv], streams[s].msg)],
         \A t \in Unserved' : t \in Unserved /\ t # s /\ streams'[t].msg = streams[t].msg
  PROVE  IdsFit'
<1> DEFINE c == streams[s].conv
           m == streams[s].msg
           n == Len(log[c])
<1>1. m \in Nat /\ c \in Convs  BY IdFacts
<1>2. log[c] \in Seq(TurnRecords) /\ n \in Nat /\ DOMAIN log[c] = 1 .. n  BY <1>1, HeldFacts
<1>3. /\ DOMAIN log'[c] = 1 .. n + 1 /\ log'[c][n + 1] = NewTurn(m)
      /\ \A j \in 1 .. n : log'[c][j].id = log[c][j].id /\ log'[c][j].out = log[c][j].out
      /\ \A d \in Convs : d # c => log'[d] = log[d]
  <2>1. /\ DOMAIN Begun(log[c], m) = 1 .. n + 1 /\ Begun(log[c], m)[n + 1] = NewTurn(m)
        /\ \A j \in 1 .. n : /\ Begun(log[c], m)[j].id = log[c][j].id
                             /\ Begun(log[c], m)[j].out = log[c][j].out
    BY <1>1, <1>2, BegunFits
  <2>2. log \in [Convs -> Seq(TurnRecords)] /\ log' = [log EXCEPT ![c] = Begun(log[c], m)]
    BY DEF IInv, ServerFits
  <2> HIDE DEF c, m, n
  <2>3. log'[c] = Begun(log[c], m) /\ \A d \in Convs : d # c => log'[d] = log[d]
    BY <1>1, <2>2
  <2> QED  BY <2>1, <2>3
<1>4. NewTurn(m).id = m /\ NewTurn(m).out = 0  BY DEF NewTurn
<1>5. /\ m <= acts
      /\ \A t \in Unserved : m = streams[t].msg => s = t
      /\ \A r \in creates : m # r.id
  BY DEF IdsFit, SentIdsFit
<1>6. \A d \in Convs : \A j \in DOMAIN log[d] :
        /\ log[d][j].id <= acts /\ log[d][j].out <= MaxRounds
        /\ \A k \in DOMAIN log[d] : log[d][j].id = log[d][k].id => j = k
        /\ \A t \in Unserved : log[d][j].id # streams[t].msg
        /\ \A r \in creates : log[d][j].id # r.id
  BY DEF IdsFit, LogIdsFit
<1>7. \A j \in 1 .. n : log[c][j].id # m  BY <1>1, <1>2, <1>6
<1>8. MaxRounds \in Nat  BY ChatViewAssumption
<1> HIDE DEF c, m, n
<1>9. ASSUME NEW d \in Convs, NEW j \in DOMAIN log'[d]
      PROVE  /\ log'[d][j].id <= acts' /\ log'[d][j].out <= MaxRounds
             /\ \A k \in DOMAIN log'[d] : log'[d][j].id = log'[d][k].id => j = k
             /\ \A t \in Unserved' : log'[d][j].id # streams'[t].msg
             /\ \A r \in creates' : log'[d][j].id # r.id
  <2>1. CASE d # c
    <3>1. log'[d] = log[d]  BY <1>3, <2>1
    <3> QED  BY <1>6, <1>9, <3>1
  <2>2. CASE d = c /\ j \in 1 .. n
    <3>1. j \in DOMAIN log[c] /\ log'[c][j].id = log[c][j].id /\ log'[c][j].out = log[c][j].out
      BY <1>2, <1>3, <2>2
    <3>2. \A k \in 1 .. n + 1 : log'[c][j].id = log'[c][k].id => j = k
      <4>1. SUFFICES ASSUME NEW k \in 1 .. n + 1, log'[c][j].id = log'[c][k].id PROVE j = k
        OBVIOUS
      <4>2. CASE k \in 1 .. n
        <5>1. k \in DOMAIN log[c] /\ log[c][j].id = log[c][k].id  BY <1>2, <1>3, <3>1, <4>1, <4>2
        <5>2. \A l \in DOMAIN log[c] : log[c][j].id = log[c][l].id => j = l  BY <1>1, <1>6, <3>1
        <5> QED  BY <5>1, <5>2
      <4>3. CASE k \notin 1 .. n
        <5>1. k = n + 1  BY <1>2, <4>1, <4>3
        <5> QED  BY <1>3, <1>4, <1>7, <2>2, <3>1, <4>1, <5>1
      <4> QED  BY <4>2, <4>3
    <3>3. /\ log[c][j].id <= acts /\ log[c][j].out <= MaxRounds
          /\ \A t \in Unserved : log[c][j].id # streams[t].msg
          /\ \A r \in creates : log[c][j].id # r.id
      BY <1>1, <1>6, <3>1
    <3> QED  BY ZenonT(40), <1>3, <2>2, <3>1, <3>2, <3>3
  <2>3. CASE d = c /\ j \notin 1 .. n
    <3>1. j = n + 1  BY <1>2, <1>3, <1>9, <2>3
    <3>2. log'[c][j].id = m /\ log'[c][j].out = 0  BY <1>3, <1>4, <3>1
    <3>3. \A k \in 1 .. n + 1 : m = log'[c][k].id => j = k
      <4>1. \A k \in 1 .. n + 1 : k \in 1 .. n \/ k = n + 1  BY <1>2
      <4> QED  BY <1>3, <1>7, <3>1, <4>1
    <3>4. 0 <= MaxRounds  BY <1>8
    <3>5. \A t \in Unserved' : m # streams'[t].msg  BY <1>5
    <3>6. m <= acts' /\ \A r \in creates' : m # r.id  BY <1>5
    <3> QED  BY ZenonT(40), <1>3, <2>3, <3>2, <3>3, <3>4, <3>5, <3>6
  <2> QED  BY <2>1, <2>2, <2>3
<1>10. LogIdsFit'  BY <1>9 DEF LogIdsFit
<1>11. SentIdsFit'
  <2>1. \A t \in Unserved :
          /\ streams[t].msg <= acts
          /\ \A u \in Unserved : streams[t].msg = streams[u].msg => t = u
          /\ \A r \in creates : streams[t].msg # r.id
    BY DEF IdsFit, SentIdsFit
  <2> QED  BY <2>1 DEF SentIdsFit
<1>12. DraftIdsFit'  BY DEF IdsFit, DraftIdsFit
<1> QED  BY <1>10, <1>11, <1>12 DEF IdsFit

\* Chat begins the turn of a message, which is followed if it was sent by the held stream.
LEMMA AdmitShows ==
  ASSUME IInv, IInv', ShownInv, NEW s \in DOMAIN streams, Admit(s)
  PROVE  ShownInv'
<1>24. PICK c : c = streams[s].conv  OBVIOUS
<1> DEFINE r == streams[s]
           m == r.msg
           ts == log[c]
           us == Begun(ts, m)
           q == IF r.state = "over" THEN Over
                ELSE [conv |-> c, by |-> r.by, served |-> TRUE, state |-> r.state,
                      turn |-> Len(log'[c]), n |-> 1, heard |-> FALSE]
<1>1. /\ ~ r.served /\ c \in alive
      /\ log' = [log EXCEPT ![c] = us] /\ streams' = [streams EXCEPT ![s] = q]
      /\ UNCHANGED <<made, alive, url, list, loads, held, creates, hide, acts,
                     harmed, orphaned>>
  BY <1>24 DEF Admit, Begun, Live, LiveIn, view, requests, history
<1>2. s \in Unserved /\ c \in Convs /\ m \in Nat  BY <1>1, <1>24, IdFacts DEF Unserved
<1>3. r \in Posted
  <2>1. r \in StreamRecords  BY StreamNumbers DEF IInv
  <2> QED  BY <1>1, <2>1, StreamFields
<1>4. ts \in Seq(TurnRecords) /\ Len(ts) \in Nat  BY <1>2, HeldFacts
<1>5. /\ us \in Seq(TurnRecords) /\ Len(us) = Len(ts) + 1 /\ us # <<>> /\ Last(us) = NewTurn(m)
      /\ Grown(ts, us)
  BY <1>2, <1>4, BegunFits
<1>6. log'[c] = us /\ \A d \in Convs : d # c => log'[d] = log[d]
  <2>1. log \in [Convs -> Seq(TurnRecords)]  BY DEF IInv, ServerFits
  <2> HIDE DEF us
  <2> QED  BY <1>1, <1>2, <2>1
<1>7. /\ q.served
      /\ \/ q.state = "over"
         \/ /\ q.state = "open" /\ r.state = "open" /\ q.conv = c
            /\ q.turn = Len(ts) + 1 /\ q.n = 1
  <2>1. r.state \in {"open", "over"}  BY <1>3 DEF Posted
  <2>2. CASE r.state = "over"  BY <2>2 DEF Over
  <2>3. CASE r.state = "open"
    <3>1. q = [conv |-> c, by |-> r.by, served |-> TRUE, state |-> "open",
               turn |-> Len(log'[c]), n |-> 1, heard |-> FALSE]
      BY <2>3
    <3> HIDE DEF q
    <3> QED  BY <1>5, <1>6, <2>3, <3>1
  <2> QED  BY <2>1, <2>2, <2>3
<1>8. held # 0 => held \in DOMAIN streams /\ streams[held].state = "open"  BY HeldFacts
<1>9. s # 0 /\ s \in Nat /\ DOMAIN streams = 1 .. Len(streams)  BY HeldFacts
<1> HIDE DEF q, us, m
<1>10. /\ DOMAIN streams' = DOMAIN streams /\ streams'[s] = q
       /\ \A t \in DOMAIN streams : t # s => streams'[t] = streams[t]
  BY <1>1
<1>11. Len(streams') = Len(streams)
  <2>1. Len(streams) \in Nat /\ Len(streams') \in Nat /\ DOMAIN streams' = 1 .. Len(streams')
    BY HeldFacts, HeldFactsNext
  <2> QED  BY <1>9, <1>10, <2>1
<1>12. \A d \in Convs : Onward(d)
  <2>1. \A d \in Convs : log'[d] = log[d] \/ Grown(log[d], log'[d])  BY <1>5, <1>6
  <2>2. ASSUME held # 0, streams'[held] # streams[held]
        PROVE  /\ streams'[held].conv = streams[held].conv
               /\ streams'[held].turn > Len(log[streams[held].conv])
    <3>1. held = s /\ streams'[s] = q /\ r.state = "open"  BY <1>8, <1>10, <2>2
    <3>2. q.conv = c /\ q.turn = Len(ts) + 1
      <4>1. q.state = "open"  BY <2>2, <3>1, HeldFactsNext, <1>1
      <4> QED  BY <1>7, <4>1
    <3>3. q.turn > Len(ts)  BY <1>4, <3>2
    <3> QED  BY <1>24, <3>1, <3>2, <3>3
  <2>3. held # 0 =>
          \/ streams'[held] = streams[held]
          \/ /\ streams'[held].conv = streams[held].conv
             /\ \/ streams'[held].turn > Len(log[streams[held].conv])
                \/ /\ streams[held].served
                   /\ Further(log[streams[held].conv], streams[held].turn, streams[held].n,
                              streams'[held].turn, streams'[held].n)
    BY <2>2
  <2>4. UNCHANGED <<acts, held, orphaned>>  BY <1>1
  <2> QED  BY <1>11, <2>1, <2>3, <2>4, OnwardMoves
<1>13. \A d : d # c => WaitsLess(d)
  <2>1. SUFFICES ASSUME NEW d, d # c, NEW t \in DOMAIN streams', Waits(t, d)'
                 PROVE  t \in DOMAIN streams /\ Waits(t, d)
    BY DEF WaitsLess
  <2>2. /\ streams'[t].state = "open" \/ ~ streams'[t].served
        /\ streams'[t].conv = d
    BY <2>1 DEF Waits
  <2>3. t # s  BY <1>7, <1>10, <2>1, <2>2
  <2> QED  BY <1>10, <2>1, <2>2, <2>3 DEF Waits
<1>14. IdsFit'
  <2>1. \A t \in Unserved' : t \in Unserved /\ t # s /\ streams'[t].msg = streams[t].msg
    BY <1>7, <1>10 DEF Unserved
  <2>2. IdsFit /\ UNCHANGED <<acts, creates>>  BY <1>1 DEF ShownInv
  <2>3. log' = [log EXCEPT ![streams[s].conv] = Begun(log[streams[s].conv], streams[s].msg)]
    BY <1>1, <1>24 DEF us, m
  <2> QED  BY <1>2, <2>1, <2>2, <2>3, BegunIds
<1>15. ASSUME c \notin harmed \cup orphaned PROVE WholeFits(c)'
  <2>1. /\ \A t \in DOMAIN streams : Waits(t, c) => t = held
        /\ Holds(c) => StreamFits(c)
        /\ c \in DOMAIN list /\ list[c].loaded => EntryShows(c)
    BY <1>1, <1>15 DEF ShownInv, ShownFits, WholeFits
  <2>2. Waits(s, c)  BY <1>1, <1>24 DEF Waits
  <2>3. s = held /\ Holds(c)  BY <1>9, <1>24, <2>1, <2>2 DEF Holds
  <2>4. /\ c \in DOMAIN list /\ list[c].loaded /\ EntryShows(c)
    BY <1>1, <2>1, <2>3 DEF StreamFits
  <2> DEFINE ms == list[c].msgs
  <2>5. Sent(ms, ts, held, r)  BY <1>1, <2>3, <2>4 DEF EntryShows
  <2>6. /\ ms # <<>> /\ Last(ms) = Bubble(held) /\ ~ LiveIn(ts)
        /\ Got(ms) = Append(ItemsOf(ts), <<m, 0>>)
    BY <2>5 DEF Sent, m
  <2>7. q.conv = c /\ q.turn = Len(us) /\ q.n = 1 /\ q.state = "open"
    <3>1. q.state = "open"  BY <1>1, <1>8, <1>9, <1>10, <2>3, HeldFactsNext
    <3> QED  BY <1>5, <1>7, <3>1
  <2>8. streams'[held'] = q /\ held' = held /\ list' = list  BY <1>1, <1>10, <2>3
  <2>9. Holds(c)'  BY <1>9, <2>3, <2>7, <2>8 DEF Holds
  <2>10. StreamFits(c)'
    <3>1. NewTurn(m).out = 0  BY DEF NewTurn
    <3>2. 1 \in 1 .. Last(us).out + 1  BY <1>5, <3>1
    <3>3. q.served /\ log'[c] = us /\ us # <<>>  BY <1>5, <1>6, <1>7
    <3> HIDE DEF ts, r
    <3> QED  BY <2>7, <2>8, <3>2, <3>3 DEF StreamFits
  <2>11. EntryShows(c)'
    <3>1. Got(ms) \o Ahead(us, 1) = ItemsOf(us)
      <4> DEFINE g == Got(ms)
      <4>1. g = Append(ItemsOf(ts), <<m, 0>>)  BY <2>6
      <4> HIDE DEF g, ts
      <4> QED  BY <1>2, <1>4, <2>6, <4>1, BegunShows DEF us, g
    <3>2. Last(ms).key = held  BY <2>6 DEF Bubble
    <3>3. Followed(ms, us, held, q)  BY <2>6, <2>7, <3>1, <3>2 DEF Followed
    <3>4. q.served /\ log'[c] = us  BY <1>6, <1>7
    <3> HIDE DEF ts, r
    <3> QED  BY <2>8, <2>9, <3>3, <3>4 DEF EntryShows
  <2>12. \A t \in DOMAIN streams' : Waits(t, c)' => t = held'
    <3>1. SUFFICES ASSUME NEW t \in DOMAIN streams', Waits(t, c)', t # s PROVE t = held'
      BY <2>3, <2>8
    <3>2. t \in DOMAIN streams /\ Waits(t, c)  BY <1>10, <3>1 DEF Waits
    <3> QED  BY <2>1, <2>8, <3>2
  <2>13. Untouched(c)'  BY <2>4, <2>6, <2>8 DEF Untouched
  <2> QED  BY <2>10, <2>11, <2>12, <2>13 DEF WholeFits
<1>16. ASSUME NEW d \in alive' \ (harmed' \cup orphaned')
       PROVE  (d \in alive /\ Keeps(d)) \/ WholeFits(d)'
  <2>1. CASE d = c  BY <1>1, <1>15, <1>16, <2>1
  <2>2. CASE d # c
    <3>1. d \in alive /\ d \in Convs  BY <1>1, <1>16 DEF IInv, ServerFits
    <3>2. Holds(d) => held' = held /\ streams'[held] = streams[held]
      BY <1>1, <1>8, <1>10, <1>24, <2>2 DEF Holds
    <3> QED  BY <1>1, <1>6, <1>13, <2>2, <3>1, <3>2 DEF Keeps
  <2> QED  BY <2>1, <2>2
<1>17. Remembers' => Remembers /\ hide'.was = hide.was  BY <1>1 DEF Remembers
<1>18. list' = [d \in DOMAIN list' |-> list'[d]]
  BY <1>1 DEF ShownInv, EntryListsFit, EntriesFit
<1>19. \A d \in Convs \ made' : log'[d] = log[d] /\ WaitsLess(d)
  <2>1. c \in made  BY <1>1 DEF IInv, ServerFits
  <2> QED  BY <1>1, <1>6, <1>13, <2>1
<1>20. made \subseteq made' /\ url' \in made' \cup {None}  BY <1>1, UrlStays
<1>21. LoadsOnward  BY <1>1, LoadsSame
<1>22. harmed \subseteq harmed' /\ orphaned \subseteq orphaned'  BY <1>1
<1>23. \A d \in DOMAIN list' : d \in DOMAIN list /\ list'[d] = list[d]  BY <1>1
<1> QED
  BY <1>12, <1>14, <1>16, <1>17, <1>18, <1>19, <1>20, <1>21, <1>22, <1>23, StepShows

-----------------------------------------------------------------------------
(* An event arrives. *)

\* Only the last bubble is the stream's, if any is.
LEMMA WithFits ==
  ASSUME NEW ms \in Seq(Bubbles), NEW k, NEW x \in Items,
         \A i \in DOMAIN ms : ms[i].key = k => i = Len(ms)
  PROVE  LET ns == WithItem(ms, k, x)
         IN  /\ ns \in Seq(Bubbles) /\ Len(ns) = Len(ms) /\ DOMAIN ns = DOMAIN ms
             /\ \A i \in DOMAIN ms : ns[i].key = ms[i].key
             /\ ms # <<>> => ns # <<>> /\ Last(ns).key = Last(ms).key
             /\ ms # <<>> /\ Last(ms).key = k => Got(ns) = Append(Got(ms), x)
             /\ (\A i \in DOMAIN ms : ms[i].key # k) => ns = ms
<1> DEFINE n  == Len(ms)
           ns == WithItem(ms, k, x)
           b  == [Last(ms) EXCEPT !.got = Append(@, x)]
<1>1. n \in Nat /\ DOMAIN ms = 1 .. n /\ \A i \in 1 .. n : ms[i] \in Bubbles  OBVIOUS
<1>2. ASSUME NEW e \in Bubbles
      PROVE  /\ [e EXCEPT !.got = Append(@, x)] \in Bubbles
             /\ [e EXCEPT !.got = Append(@, x)].key = e.key
             /\ [e EXCEPT !.got = Append(@, x)].got = Append(e.got, x)
             /\ e.got \in Seq(Items)
  <2>1. e.got \in Seq(Items) /\ e.key \in Nat /\ e = [got |-> e.got, key |-> e.key]
    BY DEF Bubbles, Items
  <2>2. Append(e.got, x) \in Seq(Items)  BY <2>1, AppendFits
  <2> QED  BY <2>1, <2>2 DEF Bubbles, Items
<1>3. /\ DOMAIN ns = 1 .. n
      /\ \A i \in 1 .. n :
           ns[i] = IF ms[i].key = k THEN [ms[i] EXCEPT !.got = Append(@, x)] ELSE ms[i]
  BY <1>1 DEF WithItem
<1>4. \A i \in 1 .. n : ns[i] \in Bubbles /\ ns[i].key = ms[i].key
  <2>1. SUFFICES ASSUME NEW i \in 1 .. n PROVE ns[i] \in Bubbles /\ ns[i].key = ms[i].key
    OBVIOUS
  <2>2. ms[i] \in Bubbles /\ ns[i] \in {[ms[i] EXCEPT !.got = Append(@, x)], ms[i]}
    BY <1>1, <1>3
  <2> DEFINE e == ms[i]
             f == [e EXCEPT !.got = Append(@, x)]
  <2>3. f \in Bubbles /\ f.key = e.key  BY <1>2, <2>2
  <2> HIDE DEF ns, e, f
  <2>4. ns[i] = f \/ ns[i] = e  BY <2>2 DEF e, f
  <2> QED  BY <2>2, <2>3, <2>4 DEF e
<1>5. ns \in Seq(Bubbles) /\ Len(ns) = n
  <2>1. ns = [i \in 1 .. n |-> ns[i]]  BY <1>1 DEF WithItem
  <2> HIDE DEF ns
  <2> QED  BY <1>1, <1>4, <2>1
<1>6. ASSUME \A i \in DOMAIN ms : ms[i].key # k PROVE ns = ms
  <2>1. \A i \in 1 .. n : ns[i] = ms[i]  BY <1>1, <1>3, <1>6
  <2> HIDE DEF ns, n
  <2>2. Len(ns) = Len(ms) /\ \A i \in 1 .. Len(ns) : ns[i] = ms[i]  BY <1>5, <2>1 DEF n
  <2> QED  BY <1>5, <2>2, SeqEqual
<1>7. ASSUME ms # <<>> PROVE ns # <<>> /\ Last(ns).key = Last(ms).key
  <2>1. n \in 1 .. n  BY <1>1, <1>7
  <2>2. ns[n].key = ms[n].key  BY <1>4, <2>1
  <2> HIDE DEF ns
  <2>3. Last(ns) = ns[n] /\ Last(ms) = ms[n]  BY <1>5 DEF Last
  <2> QED  BY <1>3, <2>1, <2>2, <2>3
<1>8. ASSUME ms # <<>>, Last(ms).key = k PROVE Got(ns) = Append(Got(ms), x)
  <2> DEFINE p == Front(ms)
             l == Last(ms)
  <2>1. n >= 1 /\ l = ms[n]  BY <1>1, <1>8 DEF Last
  <2>2. l \in Bubbles  BY <1>1, <2>1
  <2>3. /\ p \in Seq(Bubbles) /\ Len(p) = n - 1 /\ ms = Append(p, l)
        /\ \A i \in 1 .. n - 1 : p[i] = ms[i]
    <3>1. p = [i \in 1 .. n - 1 |-> ms[i]]  BY <1>1 DEF Front
    <3>2. \A i \in 1 .. n - 1 : i \in 1 .. n  BY <1>1
    <3>3. n - 1 \in Nat  BY <1>1, <2>1
    <3> HIDE DEF n
    <3>4. \A i \in 1 .. n - 1 : ms[i] \in Bubbles  BY <1>1, <3>2
    <3>5. p \in Seq(Bubbles) /\ Len(p) = n - 1  BY <3>1, <3>3, <3>4
    <3>6. ms = Append(p, l)
      <4> HIDE DEF p, l
      <4>1. /\ Append(p, l) \in Seq(Bubbles) /\ Len(Append(p, l)) = Len(p) + 1
            /\ Append(p, l)[Len(p) + 1] = l /\ \A i \in 1 .. Len(p) : Append(p, l)[i] = p[i]
        BY <2>2, <3>5, AppendFits
      <4>2. Len(Append(p, l)) = n /\ Append(p, l)[n] = ms[n]  BY <1>1, <2>1, <3>5, <4>1
      <4>3. \A i \in 1 .. n - 1 : Append(p, l)[i] = ms[i]  BY <3>1, <3>5, <4>1
      <4>4. \A i \in 1 .. n : i = n \/ i \in 1 .. n - 1  BY <1>1
      <4>5. \A i \in 1 .. n : Append(p, l)[i] = ms[i]  BY <4>2, <4>3, <4>4
      <4>6. Len(Append(p, l)) = Len(ms)  BY <4>2 DEF n
      <4> QED  BY <4>1, <4>2, <4>5, <4>6, SeqEqual
    <3> QED  BY <3>1, <3>5, <3>6
  <2>4. b \in Bubbles /\ b.got = Append(l.got, x) /\ l.got \in Seq(Items)  BY <1>2, <2>2
  <2>5. ns[n] = b /\ \A i \in 1 .. n - 1 : ns[i] = p[i]
    <3>1. n \in 1 .. n /\ \A i \in 1 .. n - 1 : i \in 1 .. n /\ i # n
      <4>1. n \in Nat /\ n >= 1  BY <1>1, <2>1
      <4> HIDE DEF n
      <4> QED  BY <4>1
    <3>2. ms[n].key = k  BY <1>8, <2>1
    <3>3. ns[n] = [ms[n] EXCEPT !.got = Append(@, x)]  BY <1>3, <3>1, <3>2
    <3>4. ns[n] = b  BY <2>1, <3>3
    <3>5. \A i \in 1 .. n - 1 : ms[i].key # k  BY <1>1, <3>1
    <3> QED  BY <1>3, <2>3, <3>1, <3>4, <3>5
  <2> HIDE DEF b, ns, p, l, n
  <2>6. ns = Append(p, b)
    <3>1. /\ Append(p, b) \in Seq(Bubbles) /\ Len(Append(p, b)) = Len(p) + 1
          /\ Append(p, b)[Len(p) + 1] = b /\ \A i \in 1 .. Len(p) : Append(p, b)[i] = p[i]
      BY <2>3, <2>4, AppendFits
    <3>2. Len(Append(p, b)) = n /\ Append(p, b)[n] = b  BY <1>1, <2>1, <2>3, <3>1
    <3>3. \A i \in 1 .. n : i = n \/ i \in 1 .. n - 1  BY <1>1
    <3>4. \A i \in 1 .. n : Append(p, b)[i] = ns[i]  BY <2>3, <2>5, <3>1, <3>2, <3>3
    <3> QED  BY <1>5, <3>1, <3>2, <3>4, SeqEqual
  <2>7. Got(ns) = Got(p) \o b.got /\ Got(ms) = Got(p) \o l.got /\ Got(p) \in Seq(Items)
    <3>1. Got(p) \in Seq(Items) /\ \A d \in Bubbles : Got(Append(p, d)) = Got(p) \o d.got
      BY <2>3, GotAppend
    <3>2. Got(Append(p, b)) = Got(p) \o b.got  BY <2>4, <3>1
    <3>3. Got(Append(p, l)) = Got(p) \o l.got  BY <2>2, <3>1
    <3>4. ms = Append(p, l)  BY <2>3
    <3> QED  BY <2>6, <3>1, <3>2, <3>3, <3>4
  <2>8. Got(p) \o Append(l.got, x) = Append(Got(p) \o l.got, x)  BY <2>4, <2>7, OneBehind
  <2> QED  BY <2>4, <2>7, <2>8
<1> QED  BY <1>1, <1>3, <1>4, <1>5, <1>6, <1>7, <1>8

\* What follows a place: the next round of its turn, or the first of a later one.
LEMMA NextFits ==
  ASSUME NEW c \in Convs, log[c] \in Seq(TurnRecords), NEW k \in Nat, NEW n \in Nat,
         Behind(c, k, n) # {}
  PROVE  LET next == CHOOSE p \in Behind(c, k, n) : \A q \in Behind(c, k, n) : p[1] <= q[1]
         IN  /\ next[1] \in DOMAIN log[c] /\ next[2] \in Nat /\ next[2] >= 1
             /\ next[2] <= log[c][next[1]].out /\ next = <<next[1], next[2]>>
             /\ next = <<k, n>> \/ next[1] > k
<1> DEFINE at == Behind(c, k, n)
           T  == {p[1] : p \in at}
           next == CHOOSE p \in at : \A q \in at : p[1] <= q[1]
<1>1. DOMAIN log[c] \subseteq Nat  OBVIOUS
<1>2. \A p \in at : /\ p[1] \in DOMAIN log[c] /\ p[2] \in 1 .. MaxRounds /\ p = <<p[1], p[2]>>
                    /\ p[2] <= log[c][p[1]].out /\ (p = <<k, n>> \/ p[1] > k)
  BY DEF Behind
<1> HIDE DEF at
<1>3. T \subseteq Nat /\ T # {}  BY <1>1, <1>2 DEF at
<1>4. PICK m \in T : \A y \in T : m <= y  BY <1>3, LeastNumber
<1>5. \E p \in at : \A q \in at : p[1] <= q[1]
  <2>1. PICK p \in at : p[1] = m  BY <1>4
  <2> QED  BY <1>4, <2>1
<1>6. next \in at  BY <1>5
<1> HIDE DEF next
<1>7. next[2] \in Nat /\ next[2] >= 1
  <2>1. next[2] \in 1 .. MaxRounds  BY <1>2, <1>6
  <2> QED  BY <2>1, ChatViewAssumption
<1> QED  BY <1>2, <1>6, <1>7 DEF next, at

\* A stream that is not held was let go of.
LEMMA OpenStream ==
  ASSUME IInv, NEW s \in DOMAIN streams, streams[s].state = "open", streams[s].served
  PROVE  /\ streams[s].conv \in Convs /\ streams[s].turn \in Nat /\ streams[s].n \in Nat
         /\ log[streams[s].conv] \in Seq(TurnRecords)
         /\ streams[s].conv \notin orphaned => s = held /\ Holds(streams[s].conv)
<1>1. streams[s] \in StreamRecords /\ s \in Running /\ s \in Nat /\ s # 0
  BY StreamNumbers DEF IInv, Running
<1>2. streams[s] \in Reading  BY <1>1, StreamFields
<1>3. streams[s].conv \in Convs /\ streams[s].turn \in Nat /\ streams[s].n \in Nat
  BY <1>2 DEF Reading
<1>4. streams[s].conv \notin orphaned => s = held  BY <1>1 DEF IInv, HoldFits
<1>5. s = held => Holds(streams[s].conv)  BY <1>1 DEF Holds
<1> QED  BY <1>3, <1>4, <1>5, HeldFacts

\* The held stream has all there is.
LEMMA DoneShows ==
  ASSUME IInv, IInv', ShownInv, NEW s \in DOMAIN streams, Ends(s, Over),
         streams[s].state = "open", streams[s].served,
         log[streams[s].conv][streams[s].turn].end = "done",
         streams[s].n > log[streams[s].conv][streams[s].turn].out,
         UNCHANGED server, UNCHANGED requests, UNCHANGED acts, UNCHANGED history
  PROVE  ShownInv'
<1>1. /\ streams' = [streams EXCEPT ![s] = Over] /\ held' = (IF held = s THEN 0 ELSE held)
      /\ UNCHANGED <<alive, log, list, creates, acts, harmed, orphaned>>
  BY DEF Ends, server, requests, history
<1>2. ASSUME NEW c \in alive \ (harmed' \cup orphaned), streams[s].conv = c PROVE WholeFits(c)'
  <2> DEFINE r  == streams[held]
             ts == log[c]
             ms == list[c].msgs
  <2>1. s = held /\ Holds(c) /\ c \in Convs /\ ts \in Seq(TurnRecords) /\ held # 0
    BY <1>1, <1>2, OpenStream DEF Holds
  <2>2. /\ \A t \in DOMAIN streams : Waits(t, c) => t = held
        /\ StreamFits(c)
        /\ c \in DOMAIN list /\ list[c].loaded => EntryShows(c)
        /\ \A q \in creates : q.conv = c => Untouched(c)
    BY <1>1, <1>2, <2>1 DEF ShownInv, ShownFits, WholeFits
  <2>3. r.served /\ ts # <<>> /\ r.turn = Len(ts) /\ r.n \in 1 .. Last(ts).out + 1
    BY <2>1, <2>2 DEF StreamFits
  <2>4. Last(ts) = ts[r.turn] /\ Last(ts).out \in Nat
    <3>1. Last(ts) \in TurnRecords /\ Last(ts) = ts[Len(ts)]  BY <2>1, <2>3, LastTurn
    <3> QED  BY <2>3, <3>1 DEF TurnRecords
  <2>5. Last(ts).end = "done" /\ r.n > Last(ts).out  BY <1>2, <2>1, <2>4
  <2>6. r.n = Last(ts).out + 1
    <3> DEFINE o == Last(ts).out
    <3>1. o \in Nat /\ r.n \in 1 .. o + 1 /\ r.n > o  BY <2>3, <2>4, <2>5
    <3> HIDE DEF o, r
    <3>2. r.n = o + 1  BY <3>1
    <3> QED  BY <3>2 DEF o
  <2>7. ~ Holds(c)'  BY <1>1, <2>1 DEF Holds
  <2>8. \A t \in DOMAIN streams' : ~ Waits(t, c)'
    <3>1. SUFFICES ASSUME NEW t \in DOMAIN streams', Waits(t, c)' PROVE FALSE  OBVIOUS
    <3>2. t # s  BY <1>1, <3>1 DEF Waits, Over
    <3>3. t \in DOMAIN streams /\ streams'[t] = streams[t]  BY <1>1, <3>1, <3>2
    <3>4. Waits(t, c)  BY <3>1, <3>3 DEF Waits
    <3> QED  BY <2>1, <2>2, <3>2, <3>3, <3>4
  <2>9. ASSUME c \in DOMAIN list', list'[c].loaded PROVE EntryShows(c)'
    <3>1. c \in DOMAIN list /\ EntryShows(c)  BY <1>1, <2>2, <2>9
    <3>2. Followed(ms, ts, held, r) \/ Aside(ms, ts, held)  BY <2>1, <2>3, <3>1 DEF EntryShows
    <3>3. Got(ms) \in Seq(Items)
      <4>1. list[c] \in EntryRecords
        BY <1>1, <1>2, <3>1 DEF ShownInv, EntryListsFit, EntriesFit, FitsFor, EntryFits
      <4>2. ms \in Seq(Bubbles)  BY <4>1 DEF EntryRecords
      <4> QED  BY <4>2, GotAppend
    <3>4. ASSUME Followed(ms, ts, held, r) PROVE Got(ms) = ItemsOf(ts)
      <4> HIDE DEF r, ts, ms
      <4>1. Got(ms) \o Ahead(ts, r.n) = ItemsOf(ts)  BY <3>4 DEF Followed
      <4>2. Ahead(ts, r.n) = <<>>  BY <2>1, <2>3, <2>6, AheadFits
      <4>3. Got(ms) \o <<>> = Got(ms)  BY <3>3, ConcatEmptySeq
      <4> QED  BY <4>1, <4>2, <4>3
    <3>5. ~ LiveIn(ts)  BY <2>5 DEF LiveIn
    <3>6. Even(ms, ts)  BY <3>2, <3>4, <3>5 DEF Even, Aside
    <3> QED  BY <1>1, <2>7, <3>6 DEF EntryShows
  <2>10. ASSUME NEW q \in creates', q.conv = c PROVE Untouched(c)'
    <3>1. Untouched(c)  BY <1>1, <2>2, <2>10
    <3> QED  BY <1>1, <2>3, <3>1 DEF Untouched
  <2> QED  BY <2>7, <2>8, <2>9, <2>10 DEF WholeFits
<1>3. harmed \subseteq harmed' /\ UNCHANGED <<acts, orphaned>>  BY <1>1
<1> QED  BY <1>2, <1>3, EndsShows

\* Only the entry's messages change.
LEMMA PatchedIs ==
  ASSUME NEW c \in DOMAIN list, NEW k, NEW x
  PROVE  Patched(c, k, x) =
           [list EXCEPT ![c] = [list[c] EXCEPT !.msgs = WithItem(list[c].msgs, k, x)]]
BY DEF Patched

\* The next round comes to the conversation's bubble.
LEMMA EventShows ==
  ASSUME IInv, IInv', ShownInv, NEW s \in DOMAIN streams, NEW c, c = streams[s].conv,
         streams[s].state = "open", streams[s].served,
         NEW k, NEW n,
         k \in DOMAIN log[c] /\ n \in Nat /\ n >= 1 /\ n <= log[c][k].out,
         (k = streams[s].turn /\ n = streams[s].n) \/ k > streams[s].turn,
         list' = Patched(c, s, <<log[c][k].id, n>>), loads' = LoadsAfter(list', url, loads),
         streams' = [streams EXCEPT ![s].turn = k, ![s].n = n + 1, ![s].heard = TRUE],
         UNCHANGED server, UNCHANGED requests, UNCHANGED acts, UNCHANGED history,
         UNCHANGED <<url, held>>
  PROVE  ShownInv'
<1> DEFINE r  == streams[s]
           q  == streams'[s]
           ts == log[c]
           x  == <<ts[k].id, n>>
           ms == list[c].msgs
           ns == WithItem(ms, s, x)
<1>1. /\ UNCHANGED <<made, alive, log, creates, hide, acts, harmed, orphaned>>
      /\ \A d \in DOMAIN list : d # c => list'[d] = list[d]
      /\ DOMAIN list' = DOMAIN list /\ list' = [d \in DOMAIN list' |-> list'[d]]
  <2>1. list = [d \in DOMAIN list |-> list[d]]  BY DEF ShownInv, EntryListsFit, EntriesFit
  <2>2. UNCHANGED <<made, alive, log, creates, hide, acts, harmed, orphaned>>
    BY DEF server, requests, history
  <2> QED  BY <2>1, <2>2 DEF Patched
<1>2. c \in DOMAIN list => list'[c] = [list[c] EXCEPT !.msgs = ns]
  <2>1. SUFFICES ASSUME c \in DOMAIN list PROVE list'[c] = [list[c] EXCEPT !.msgs = ns]
    OBVIOUS
  <2>2. list' = [list EXCEPT ![c] = [list[c] EXCEPT !.msgs = ns]]  BY <2>1, PatchedIs
  <2> HIDE DEF ns
  <2> QED  BY <2>1, <2>2
<1>3. /\ c \in Convs /\ r.turn \in Nat /\ r.n \in Nat /\ ts \in Seq(TurnRecords)
      /\ c \notin orphaned => s = held /\ Holds(c)
  BY OpenStream
<1>4. /\ DOMAIN streams' = DOMAIN streams
      /\ \A t \in DOMAIN streams : t # s => streams'[t] = streams[t]
      /\ q.turn = k /\ q.n = n + 1 /\ q.conv = c /\ q.state = "open" /\ q.served
  <2>1. r \in Reading
    <3>1. r \in StreamRecords  BY StreamNumbers DEF IInv
    <3> QED  BY <3>1, StreamFields
  <2>2. q = [r EXCEPT !.turn = k, !.n = n + 1, !.heard = TRUE]  OBVIOUS
  <2>3. q.turn = k /\ q.n = n + 1 /\ q.conv = r.conv /\ q.state = r.state /\ q.served = r.served
    <3> HIDE DEF r, q
    <3> QED  BY <2>1, <2>2 DEF Reading
  <2> QED  BY <2>3
<1>5. /\ s \in Nat /\ s # 0 /\ held # 0 => held \in DOMAIN streams
      /\ Len(streams') = Len(streams)
  <2>1. Len(streams) \in Nat /\ Len(streams') \in Nat /\ DOMAIN streams' = 1 .. Len(streams')
        /\ DOMAIN streams = 1 .. Len(streams)
    BY HeldFacts, HeldFactsNext
  <2>2. Len(streams') = Len(streams)  BY <1>4, <2>1
  <2> QED  BY <2>1, <2>2, HeldFacts
<1>6. /\ ts[k] \in TurnRecords /\ ts[k].id \in Nat /\ k \in Nat /\ x \in Items
      /\ x[1] = ts[k].id /\ x[2] = n
  <2>1. ts[k] \in TurnRecords /\ k \in Nat  BY <1>3
  <2>2. ts[k].id \in Nat  BY <2>1 DEF TurnRecords
  <2> QED  BY <2>1, <2>2 DEF Items
<1>7. /\ ts[k].id <= acts /\ \A j \in DOMAIN ts : ts[k].id = ts[j].id => k = j
  BY <1>3 DEF ShownInv, IdsFit, LogIdsFit
<1> HIDE DEF ns, x
<1>8. ASSUME c \in DOMAIN list, c \notin orphaned
      PROVE  /\ s = held /\ list[c] \in EntryRecords /\ ms \in Seq(Bubbles)
             /\ EntryFits(list[c], ts, Len(streams), acts) /\ IsInjective(Got(ms))
             /\ BubbleFits(ms, ts, s, r)
             /\ ns \in Seq(Bubbles) /\ Len(ns) = Len(ms) /\ DOMAIN ns = DOMAIN ms
             /\ \A i \in DOMAIN ms : ns[i].key = ms[i].key
             /\ ms # <<>> => ns # <<>> /\ Last(ns).key = Last(ms).key
             /\ ms # <<>> /\ Last(ms).key = s => Got(ns) = Append(Got(ms), x)
             /\ (\A i \in DOMAIN ms : ms[i].key # s) => ns = ms
             /\ (\E i \in DOMAIN ms : ms[i].key = s) => ms # <<>> /\ Last(ms).key = s
             /\ Got(ms) \in Seq(Items)
  <2>1. s = held /\ Holds(c)  BY <1>3, <1>8
  <2>2. /\ EntryFits(list[c], ts, Len(streams), acts) /\ IsInjective(Got(ms))
        /\ BubbleFits(ms, ts, s, r)
    BY <1>8, <2>1 DEF ShownInv, EntryListsFit, EntriesFit, FitsFor
  <2>3. list[c] \in EntryRecords /\ ms \in Seq(Bubbles)  BY <2>2 DEF EntryFits, EntryRecords
  <2>4. \A i \in DOMAIN ms : ms[i].key = s => i = Len(ms)  BY <2>2 DEF BubbleFits
  <2>5. (\E i \in DOMAIN ms : ms[i].key = s) => ms # <<>> /\ Last(ms).key = s
    BY <2>3, <2>4 DEF Last
  <2>6. Got(ms) \in Seq(Items)  BY <2>3, GotAppend
  <2> HIDE DEF ms, r, ts
  <2>7. /\ ns \in Seq(Bubbles) /\ Len(ns) = Len(ms) /\ DOMAIN ns = DOMAIN ms
        /\ \A i \in DOMAIN ms : ns[i].key = ms[i].key
        /\ ms # <<>> => ns # <<>> /\ Last(ns).key = Last(ms).key
        /\ ms # <<>> /\ Last(ms).key = s => Got(ns) = Append(Got(ms), x)
        /\ (\A i \in DOMAIN ms : ms[i].key # s) => ns = ms
    BY <1>6, <2>3, <2>4, WithFits DEF ns
  <2> QED  BY <2>1, <2>2, <2>3, <2>5, <2>6, <2>7
<1> HIDE DEF q
<1>9. ASSUME c \in DOMAIN list PROVE FitsFor(list[c], c)'
  <2>1. PICK e : e = [list[c] EXCEPT !.msgs = ns]  OBVIOUS
  <2>2. SUFFICES ASSUME c \notin orphaned
                 PROVE  /\ EntryFits(e, ts, Len(streams'), acts) /\ IsInjective(Got(e.msgs))
                        /\ BubbleFits(e.msgs, ts, s, q)
    <3>1. c \notin orphaned => s = held  BY <1>3
    <3>2. ASSUME c \notin orphaned =>
                   /\ EntryFits(e, ts, Len(streams'), acts) /\ IsInjective(Got(e.msgs))
                   /\ BubbleFits(e.msgs, ts, s, q)
          PROVE  FitsFor(e, c)'
      BY <1>1, <3>1, <3>2 DEF FitsFor, q
    <3> QED  BY <1>2, <1>9, <2>1, <3>2, NewEntry
  <2>3. /\ e \in EntryRecords /\ e.msgs = ns
    <3>1. list[c] \in EntryRecords /\ ns \in Seq(Bubbles)  BY <1>8, <1>9, <2>2
    <3> QED  BY <2>1, <3>1 DEF EntryRecords
  <2>4. EntryFits(list[c], ts, Len(streams), acts)  BY <1>8, <1>9, <2>2
  <2>5. BubbleFits(ms, ts, s, r) /\ IsInjective(Got(ms)) /\ Got(ms) \in Seq(Items)
    BY <1>8, <1>9, <2>2
  <2>6. /\ \A i \in DOMAIN ms : ms[i].key <= Len(streams')
        /\ \A y \in Range(Got(ms)) :
             y[1] <= acts /\ (y[2] # 0 => \E j \in DOMAIN ts : ts[j].id = y[1])
    BY <1>5, <2>4 DEF EntryFits
  <2>7. CASE \A i \in DOMAIN ms : ms[i].key # s
    <3>1. ns = ms  BY <1>8, <1>9, <2>2, <2>7
    <3>2. EntryFits(e, ts, Len(streams'), acts)  BY <2>3, <2>6, <3>1 DEF EntryFits
    <3>3. BubbleFits(ns, ts, s, q)  BY <2>7, <3>1 DEF BubbleFits
    <3> QED  BY <2>3, <2>5, <3>1, <3>2, <3>3
  <2>8. CASE \E i \in DOMAIN ms : ms[i].key = s
    <3>1. Got(ns) = Append(Got(ms), x) /\ DOMAIN ns = DOMAIN ms /\ Len(ns) = Len(ms)
          /\ \A i \in DOMAIN ms : ns[i].key = ms[i].key
      BY <1>8, <1>9, <2>2, <2>8
    <3>2. Range(Got(ns)) = Range(Got(ms)) \cup {x}  BY <1>6, <2>5, <3>1, OnceAppend
    <3>3. /\ \A i \in DOMAIN ms : ms[i].key = s => i = Len(ms)
          /\ \A y \in Range(Got(ms)) : y[2] # 0 => Told(y, ts, r.turn, r.n)
      BY <2>5, <2>8 DEF BubbleFits
    <3>4. ~ Told(x, ts, r.turn, r.n)
      <4>1. SUFFICES ASSUME NEW j \in DOMAIN ts, ts[j].id = x[1],
                            j < r.turn \/ (j = r.turn /\ x[2] < r.n)
                     PROVE  FALSE
        BY DEF Told
      <4>2. j = k  BY <1>6, <1>7, <4>1
      <4> HIDE DEF r, ts
      <4>3. (k = r.turn /\ n = r.n) \/ k > r.turn  BY DEF r
      <4> QED  BY <1>3, <1>6, <4>1, <4>2, <4>3
    <3>5. x \notin Range(Got(ms))  BY <1>6, <3>3, <3>4
    <3>6. IsInjective(Got(ns))  BY <1>6, <2>5, <3>1, <3>5, OnceAppend
    <3>7. ASSUME NEW y \in Range(Got(ns))
          PROVE  /\ y[1] <= acts /\ (y[2] # 0 => \E j \in DOMAIN ts : ts[j].id = y[1])
                 /\ y[2] # 0 => Told(y, ts, k, n + 1)
      <4>1. CASE y = x
        <5>1. n < n + 1  OBVIOUS
        <5> QED  BY <1>6, <1>7, <4>1, <5>1 DEF Told
      <4>2. CASE y \in Range(Got(ms))
        <5>1. y[1] <= acts /\ (y[2] # 0 => \E j \in DOMAIN ts : ts[j].id = y[1])
          BY <2>6, <4>2
        <5>2. ASSUME y[2] # 0 PROVE Told(y, ts, k, n + 1)
          <6>1. PICK j \in DOMAIN ts :
                  ts[j].id = y[1] /\ (j < r.turn \/ (j = r.turn /\ y[2] < r.n))
            BY <3>3, <4>2, <5>2 DEF Told
          <6>2. y[2] \in Nat
            <7>1. y \in Items  BY <2>5, <4>2 DEF Range
            <7> QED  BY <7>1 DEF Items
          <6>3. j \in Nat  BY <1>3
          <6> HIDE DEF r, ts
          <6>4. (k = r.turn /\ n = r.n) \/ k > r.turn  BY DEF r
          <6>5. j < k \/ (j = k /\ y[2] < n + 1)  BY <1>3, <1>6, <6>1, <6>2, <6>3, <6>4
          <6> QED  BY <6>1, <6>5 DEF Told
        <5> QED  BY <5>1, <5>2
      <4> QED  BY <3>2, <3>7, <4>1, <4>2
    <3>8. EntryFits(e, ts, Len(streams'), acts)  BY <2>3, <2>6, <3>1, <3>7 DEF EntryFits
    <3>9. BubbleFits(ns, ts, s, q)
      <4>1. \A i \in DOMAIN ns : ns[i].key = s => i = Len(ns)  BY <3>1, <3>3
      <4>2. q.turn = k /\ q.n = n + 1  BY <1>4
      <4>3. \A y \in Range(Got(ns)) : y[2] # 0 => Told(y, ts, q.turn, q.n)  BY <3>7, <4>2
      <4> HIDE DEF ts
      <4> QED  BY <4>1, <4>3 DEF BubbleFits
    <3> QED  BY <2>3, <3>6, <3>8, <3>9
  <2> QED  BY <2>7, <2>8
<1>10. \A d \in Convs : Onward(d)
  <2>1. held # 0 =>
          \/ streams'[held] = streams[held]
          \/ /\ streams'[held].conv = streams[held].conv
             /\ \/ streams'[held].turn > Len(log[streams[held].conv])
                \/ /\ streams[held].served
                   /\ Further(log[streams[held].conv], streams[held].turn, streams[held].n,
                              streams'[held].turn, streams'[held].n)
    <3>1. SUFFICES ASSUME held = s
                   PROVE  q.conv = r.conv /\ r.served /\ Further(ts, r.turn, r.n, q.turn, q.n)
      BY <1>4, <1>5 DEF q
    <3>2. (k = r.turn /\ n = r.n) \/ k > r.turn  OBVIOUS
    <3> HIDE DEF r, ts
    <3>3. Further(ts, r.turn, r.n, k, n + 1)  BY <1>3, <1>6, <3>2 DEF Further
    <3> QED  BY <1>4, <3>3 DEF r
  <2>2. UNCHANGED <<acts, held, orphaned>> /\ \A d \in Convs : log'[d] = log[d]  BY <1>1
  <2> QED  BY <1>5, <2>1, <2>2, OnwardMoves
<1>11. \A d : WaitsLess(d)
  <2>1. SUFFICES ASSUME NEW d, NEW t \in DOMAIN streams', Waits(t, d)'
                 PROVE  t \in DOMAIN streams /\ Waits(t, d)
    BY DEF WaitsLess
  <2>2. CASE t = s  BY <1>4, <2>1, <2>2 DEF Waits, q
  <2>3. CASE t # s  BY <1>4, <2>1, <2>3 DEF Waits
  <2> QED  BY <2>2, <2>3
<1>12. IdsFit'
  <2>1. IdsFit  BY DEF ShownInv
  <2>2. \A t \in Unserved' : t \in Unserved /\ streams'[t].msg = streams[t].msg
    BY <1>4 DEF Unserved, q
  <2>3. \A d \in Convs : \A j \in DOMAIN log'[d] :
          j \in DOMAIN log[d] /\ log'[d][j].id = log[d][j].id /\ log'[d][j].out <= MaxRounds
    BY <1>1, <2>1 DEF IdsFit, LogIdsFit
  <2>4. \A t \in creates' : \E u \in creates : u.id = t.id  BY <1>1
  <2>5. \A t, u \in creates' : t.id = u.id => t = u  BY <1>1, <2>1 DEF IdsFit, DraftIdsFit
  <2> QED  BY <1>1, <2>1, <2>2, <2>3, <2>4, <2>5, IdsStay
<1>13. ASSUME c \in alive \ (harmed \cup orphaned) PROVE WholeFits(c)'
  <2>1. s = held /\ Holds(c)  BY <1>3, <1>13
  <2>2. /\ \A t \in DOMAIN streams : Waits(t, c) => t = held
        /\ StreamFits(c)
        /\ c \in DOMAIN list /\ list[c].loaded => EntryShows(c)
        /\ \A u \in creates : u.conv = c => Untouched(c)
    BY <1>13, <2>1 DEF ShownInv, ShownFits, WholeFits
  <2>3. ts # <<>> /\ r.turn = Len(ts) /\ r.n \in 1 .. Last(ts).out + 1
    BY <2>1, <2>2 DEF StreamFits
  <2>4. k = Len(ts) /\ n = r.n /\ Last(ts) = ts[k]
    <3>1. k \in 1 .. Len(ts) /\ Len(ts) \in Nat /\ Last(ts) = ts[Len(ts)]
      BY <1>3, <2>3 DEF Last
    <3>2. (k = r.turn /\ n = r.n) \/ k > r.turn  OBVIOUS
    <3> HIDE DEF r, ts
    <3> QED  BY <2>3, <3>1, <3>2
  <2>5. n \in 1 .. Last(ts).out /\ n + 1 \in 1 .. Last(ts).out + 1
    <3>1. ts[k].out \in Nat  BY <1>6 DEF TurnRecords
    <3>2. n <= ts[k].out  OBVIOUS
    <3> HIDE DEF ts
    <3> QED  BY <2>4, <3>1, <3>2
  <2>6. streams'[held'] = q /\ held' = held  BY <2>1 DEF q
  <2>7. Holds(c)'  BY <1>4, <1>5, <2>1, <2>6 DEF Holds
  <2>8. StreamFits(c)'
    <3>1. log' = log  BY <1>1
    <3> HIDE DEF r
    <3> QED  BY <1>4, <2>3, <2>4, <2>5, <2>6, <3>1 DEF StreamFits
  <2>9. ASSUME c \in DOMAIN list', list'[c].loaded PROVE EntryShows(c)'
    <3>1. c \in DOMAIN list /\ list'[c].msgs = ns /\ list'[c].loaded = list[c].loaded
      <4>1. list[c] \in EntryRecords /\ c \in DOMAIN list  BY <1>1, <1>8, <1>13, <2>9
      <4> QED  BY <1>2, <4>1 DEF EntryRecords
    <3>2. EntryShows(c)  BY <2>2, <2>9, <3>1
    <3>3. Followed(ms, ts, s, r) \/ Aside(ms, ts, s)  BY <2>1, <3>2 DEF EntryShows
    <3>4. ASSUME Followed(ms, ts, s, r) PROVE Followed(ns, ts, s, q)
      <4>1. ms # <<>> /\ Last(ms).key = s /\ Got(ms) \o Ahead(ts, r.n) = ItemsOf(ts)
        BY <3>4 DEF Followed
      <4>2. /\ Got(ns) = Append(Got(ms), x) /\ ns # <<>> /\ Last(ns).key = s
            /\ Got(ms) \in Seq(Items)
        BY <1>8, <1>13, <3>1, <4>1
      <4> DEFINE g == Got(ms)
      <4> HIDE DEF g, r, ts
      <4>3. g \in Seq(Items) /\ g \o Ahead(ts, n) = ItemsOf(ts)  BY <2>4, <4>1, <4>2 DEF g
      <4>4. Append(g, <<Last(ts).id, n>>) \o Ahead(ts, n + 1) = ItemsOf(ts)
        BY <1>3, <2>3, <2>5, <4>3, AheadNext
      <4>5. x = <<Last(ts).id, n>>  BY <2>4 DEF x
      <4>6. Got(ns) \o Ahead(ts, q.n) = ItemsOf(ts)  BY <1>4, <4>2, <4>4, <4>5 DEF g
      <4> QED  BY <4>2, <4>6 DEF Followed
    <3>5. ASSUME Aside(ms, ts, s) PROVE Aside(ns, ts, s)
      <4>1. ns = ms  BY <1>8, <1>13, <3>1, <3>5 DEF Aside
      <4> QED  BY <3>5, <4>1
    <3>6. Followed(ns, ts, s, q) \/ Aside(ns, ts, s)  BY <3>3, <3>4, <3>5
    <3> HIDE DEF ms, r
    <3> QED  BY <1>1, <1>4, <2>1, <2>6, <2>7, <3>1, <3>6 DEF EntryShows
  <2>10. \A t \in DOMAIN streams' : Waits(t, c)' => t = held'
    BY <1>11, <2>2 DEF WaitsLess
  <2>11. ASSUME NEW u \in creates', u.conv = c PROVE Untouched(c)'
    <3>1. Untouched(c) /\ ts # <<>>  BY <1>1, <2>2, <2>3, <2>11
    <3>2. c \in DOMAIN list /\ ms # <<>>  BY <3>1 DEF Untouched
    <3>3. list'[c].msgs = ns /\ ns # <<>>
      <4>1. list[c] \in EntryRecords /\ ns # <<>>  BY <1>8, <1>13, <3>2
      <4> QED  BY <1>2, <3>2, <4>1 DEF EntryRecords
    <3> QED  BY <1>1, <3>2, <3>3 DEF Untouched
  <2> QED  BY <2>8, <2>9, <2>10, <2>11 DEF WholeFits
<1>14. ASSUME NEW d \in alive' \ (harmed' \cup orphaned')
       PROVE  (d \in alive /\ Keeps(d)) \/ WholeFits(d)'
  <2>1. CASE d = c  BY <1>1, <1>13, <1>14, <2>1
  <2>2. CASE d # c
    <3>1. Holds(d) => held' = held /\ streams'[held] = streams[held]
      BY <1>4, <1>5, <2>2 DEF Holds
    <3> QED  BY <1>1, <1>11, <1>14, <2>2, <3>1 DEF Keeps
  <2> QED  BY <2>1, <2>2
<1>15. LoadsOnward
  <2>1. DOMAIN list' \subseteq Convs /\ loads \in Seq(LoadRecords)
    BY <1>1 DEF IInv, ViewFits, ServerFits
  <2> QED  BY SMTT(40), <2>1, LoadsFrom DEF LoadsOnward
<1>16. Remembers' => Remembers /\ hide'.was = hide.was  BY <1>1 DEF Remembers
<1>17. \A d \in DOMAIN list' :
         (d \in DOMAIN list /\ list'[d] = list[d]) \/ FitsFor(list[d], d)'
  BY <1>1, <1>9
<1>18. made \subseteq made' /\ url' \in made' \cup {None}  BY <1>1, UrlStays
<1>19. \A d \in Convs \ made' : log'[d] = log[d] /\ WaitsLess(d)  BY <1>1, <1>11
<1>20. harmed \subseteq harmed' /\ orphaned \subseteq orphaned'  BY <1>1
<1> QED
  BY <1>1, <1>10, <1>12, <1>14, <1>15, <1>16, <1>17, <1>18, <1>19, <1>20, StepShows

\* The next event.
LEMMA ReceiveShows ==
  ASSUME IInv, IInv', ShownInv, NEW s \in DOMAIN streams, Receive(s)
  PROVE  ShownInv'
<1>1. PICK c : c = streams[s].conv  OBVIOUS
<1> DEFINE r    == streams[s]
           at   == Behind(c, r.turn, r.n)
           next == CHOOSE p \in at : \A q \in at : p[1] <= q[1]
<1>2. /\ r.state = "open" /\ r.served
      /\ UNCHANGED server /\ UNCHANGED requests /\ UNCHANGED acts /\ UNCHANGED history
  BY DEF Receive
<1>3. \/ log[c][r.turn].end = "done" /\ r.n > log[c][r.turn].out /\ Ends(s, Over)
      \/ /\ at # {} /\ list' = Patched(c, s, <<log[c][next[1]].id, next[2]>>)
         /\ loads' = LoadsAfter(list', url, loads)
         /\ streams' = [streams EXCEPT ![s].turn = next[1], ![s].n = next[2] + 1,
                                       ![s].heard = TRUE]
         /\ UNCHANGED <<url, held>>
  BY <1>1 DEF Receive
<1>4. CASE log[c][r.turn].end = "done" /\ r.n > log[c][r.turn].out /\ Ends(s, Over)
  BY <1>1, <1>2, <1>4, DoneShows
<1>5. CASE /\ at # {} /\ list' = Patched(c, s, <<log[c][next[1]].id, next[2]>>)
           /\ loads' = LoadsAfter(list', url, loads)
           /\ streams' = [streams EXCEPT ![s].turn = next[1], ![s].n = next[2] + 1,
                                         ![s].heard = TRUE]
           /\ UNCHANGED <<url, held>>
  <2>1. c \in Convs /\ log[c] \in Seq(TurnRecords) /\ r.turn \in Nat /\ r.n \in Nat
    BY <1>1, <1>2, OpenStream
  <2>2. /\ next[1] \in DOMAIN log[c] /\ next[2] \in Nat /\ next[2] >= 1
        /\ next[2] <= log[c][next[1]].out /\ next = <<next[1], next[2]>>
        /\ next = <<r.turn, r.n>> \/ next[1] > r.turn
    BY <1>5, <2>1, NextFits
  <2>3. PICK k, n : k = next[1] /\ n = next[2]  OBVIOUS
  <2> HIDE DEF next
  <2>4. /\ k \in DOMAIN log[c] /\ n \in Nat /\ n >= 1 /\ n <= log[c][k].out
        /\ (k = r.turn /\ n = r.n) \/ k > r.turn
    BY <2>2, <2>3
  <2>5. /\ list' = Patched(c, s, <<log[c][k].id, n>>) /\ loads' = LoadsAfter(list', url, loads)
        /\ streams' = [streams EXCEPT ![s].turn = k, ![s].n = n + 1, ![s].heard = TRUE]
        /\ UNCHANGED <<url, held>>
    BY <1>5, <2>3
  <2> QED  BY <1>1, <1>2, <2>4, <2>5, EventShows
<1> QED  BY <1>3, <1>4, <1>5

-----------------------------------------------------------------------------
(* A conversation is loaded. *)

\* The bubbles of the rows, and behind them the one for what is to come.
LEMMA RowsShown ==
  ASSUME NEW rows \in Seq(TurnRecords), NEW h \in Nat
  PROVE  /\ LET ns == Rebuilt(rows) \o <<>>
            IN  /\ ns \in Seq(Bubbles) /\ Got(ns) = ItemsOf(rows)
                /\ \A i \in DOMAIN ns : ns[i].key = 0
                /\ (rows # <<>> => ns # <<>>)
         /\ LET ns == Rebuilt(rows) \o <<Bubble(h)>>
            IN  /\ ns \in Seq(Bubbles) /\ Got(ns) = ItemsOf(rows)
                /\ \A i \in DOMAIN ns : ns[i].key = 0 \/ (ns[i].key = h /\ i = Len(ns))
                /\ ns # <<>> /\ Last(ns).key = h
<1> DEFINE p == Rebuilt(rows)
           b == Bubble(h)
<1>1. /\ p \in Seq(Bubbles) /\ Got(p) = ItemsOf(rows) /\ (rows # <<>> => p # <<>>)
      /\ \A i \in DOMAIN p : p[i].key = 0
  <2>1. /\ p \in Seq(Bubbles) /\ Got(p) = ItemsOf(rows) /\ \A i \in DOMAIN p : p[i].key = 0
    BY RebuiltFits
  <2>2. rows # <<>> => p # <<>>  BY RebuiltFits
  <2> QED  BY <2>1, <2>2
<1>2. b \in Bubbles /\ b.key = h /\ b.got = <<>>
  <2>1. <<>> \in Seq(Items)  OBVIOUS
  <2> QED  BY <2>1 DEF Bubble, Bubbles
<1>3. ItemsOf(rows) \in Seq(Items) /\ Len(p) \in Nat
  BY <1>1, ItemsAppend
<1> HIDE DEF p, b
<1>4. p \o <<>> = p  BY <1>1, ConcatEmptySeq
<1>5. ASSUME NEW ns, ns = p \o <<b>>
      PROVE  /\ ns \in Seq(Bubbles) /\ Got(ns) = ItemsOf(rows)
             /\ \A i \in DOMAIN ns : ns[i].key = 0 \/ (ns[i].key = h /\ i = Len(ns))
             /\ ns # <<>> /\ Last(ns).key = h
  <2>2. ns = Append(p, b)  BY <1>1, <1>2, <1>5, OneBehind
  <2>3. /\ Append(p, b) \in Seq(Bubbles) /\ Len(Append(p, b)) = Len(p) + 1
        /\ Append(p, b)[Len(p) + 1] = b /\ \A i \in 1 .. Len(p) : Append(p, b)[i] = p[i]
    BY <1>1, <1>2, AppendFits
  <2>4. Got(ns) = ItemsOf(rows)
    <3>1. Got(Append(p, b)) = Got(p) \o b.got  BY <1>1, <1>2, GotAppend
    <3>2. Got(p) \o <<>> = Got(p)  BY <1>1, <1>3, ConcatEmptySeq
    <3> QED  BY <1>1, <1>2, <2>2, <3>1, <3>2
  <2>5. Len(ns) = Len(p) + 1 /\ DOMAIN ns = 1 .. Len(p) + 1 /\ DOMAIN p = 1 .. Len(p)
    BY <1>1, <2>2, <2>3
  <2>6. \A i \in 1 .. Len(p) + 1 : i \in 1 .. Len(p) \/ i = Len(p) + 1  BY <1>3
  <2>7. \A i \in DOMAIN ns : ns[i].key = 0 \/ (ns[i].key = h /\ i = Len(ns))
    BY <1>1, <1>2, <2>2, <2>3, <2>5, <2>6
  <2>8. ns # <<>> /\ Last(ns).key = h
    <3>1. Last(ns) = b /\ ns # <<>>  BY <1>3, <2>2, <2>3, <2>5 DEF Last
    <3> QED  BY <1>2, <3>1
  <2> QED  BY <2>2, <2>3, <2>4, <2>7, <2>8
<1>6. /\ p \o <<b>> \in Seq(Bubbles) /\ Got(p \o <<b>>) = ItemsOf(rows)
      /\ \A i \in DOMAIN (p \o <<b>>) :
           (p \o <<b>>)[i].key = 0 \/ ((p \o <<b>>)[i].key = h /\ i = Len(p \o <<b>>))
      /\ p \o <<b>> # <<>> /\ Last(p \o <<b>>).key = h
  BY <1>5
<1> QED  BY <1>1, <1>4, <1>6 DEF p, b

\* An item of rows that were read is an item of the turns as they are.
LEMMA RowsTold ==
  ASSUME NEW rs \in Seq(TurnRecords), NEW ts \in Seq(TurnRecords), Grown(rs, ts), OwnIds(ts)
  PROVE  /\ IsInjective(ItemsOf(rs))
         /\ \A x \in Range(ItemsOf(rs)) :
              /\ \E j \in DOMAIN ts : ts[j].id = x[1]
              /\ rs # <<>> /\ Told(x, ts, Len(rs), rs[Len(rs)].out + 1)
<1>1. \A j \in DOMAIN rs : j \in DOMAIN ts /\ ts[j].id = rs[j].id  BY GrownIds
<1>2. OwnIds(rs)  BY <1>1 DEF OwnIds
<1>3. ASSUME NEW x \in Range(ItemsOf(rs))
      PROVE  /\ \E j \in DOMAIN ts : ts[j].id = x[1]
             /\ rs # <<>> /\ Told(x, ts, Len(rs), rs[Len(rs)].out + 1)
  <2>1. PICK j \in DOMAIN rs : rs[j].id = x[1] /\ x[2] \in Nat /\ x[2] <= rs[j].out
    BY <1>3, ItemsOnce
  <2>2. j \in DOMAIN ts /\ ts[j].id = x[1]  BY <1>1, <2>1
  <2>3. rs # <<>> /\ Len(rs) \in Nat /\ j \in 1 .. Len(rs) /\ rs[j] \in TurnRecords  BY <2>1
  <2>4. rs[j].out \in Nat  BY <2>3 DEF TurnRecords
  <2>5. j < Len(rs) \/ (j = Len(rs) /\ x[2] < rs[Len(rs)].out + 1)
    <3>1. CASE j = Len(rs)
      <4> DEFINE o == rs[j].out
      <4>1. o \in Nat /\ x[2] \in Nat /\ x[2] <= o  BY <2>1, <2>4
      <4> HIDE DEF o
      <4>2. x[2] < o + 1  BY <4>1
      <4> QED  BY <3>1, <4>2 DEF o
    <3>2. CASE j # Len(rs)  BY <2>3, <3>2
    <3> QED  BY <3>1, <3>2
  <2> QED  BY <2>2, <2>3, <2>5 DEF Told
<1> QED  BY <1>2, <1>3, ItemsOnce

\* The rows replace the messages; with a turn in flight a stream follows it from there.
LEMMA LoadArrivesShows ==
  ASSUME IInv, IInv', ShownInv, NEW i \in DOMAIN loads, LoadArrives(i)
  PROVE  ShownInv'
<1>1. PICK c : c = loads[i].conv  OBVIOUS
<1> DEFINE rows   == loads[i].rows
           n      == Len(rows)
           ts     == log[c]
           flying == loads[i].flying
           h      == Len(streams) + 1
           ns     == Rebuilt(rows) \o IF flying THEN <<Bubble(h)>> ELSE <<>>
           q      == [conv |-> c, by |-> "resume", served |-> TRUE, state |-> "open",
                      heard |-> FALSE, turn |-> IF n = 0 THEN 1 ELSE n,
                      n |-> IF n = 0 THEN 1 ELSE rows[n].out + 1]
<1>2. /\ loads[i].st = "checked" /\ flying \in BOOLEAN
      /\ list' = (IF c \notin DOMAIN list THEN list
                  ELSE [list EXCEPT ![c].loaded = TRUE, ![c].msgs = ns])
      /\ loads' = LoadsAfter(list', url, RemoveAt(loads, i))
      /\ harmed' = (IF n < Len(ts) \/ (~ flying /\ n > 0 /\ rows[n].out < ts[n].out)
                    THEN harmed \cup {c} ELSE harmed)
      /\ UNCHANGED <<made, alive, log, url, creates, hide, acts>>
  <2>1. loads[i] \in LoadRecords  BY DEF IInv, ViewFits
  <2>2. loads[i].st = "checked"  BY DEF LoadArrives
  <2>3. flying \in BOOLEAN  BY <2>1, <2>2, LoadFields
  <2> QED  BY <1>1, <2>2, <2>3 DEF LoadArrives, server, requests
<1>3. \/ /\ flying /\ streams' = Append(streams, q) /\ held' = Len(streams')
         /\ orphaned' = orphaned \cup {streams[s].conv : s \in {held} \cap Running}
      \/ /\ ~ flying /\ UNCHANGED <<streams, held, orphaned>>
  BY <1>1 DEF LoadArrives, channel
<1>4. /\ c \in made /\ made \subseteq Convs /\ c \in Convs /\ rows \in Seq(TurnRecords)
      /\ Grown(rows, ts) /\ ts \in Seq(TurnRecords)
  <2>1. loads[i] \in LoadRecords  BY DEF IInv, ViewFits
  <2>2. rows \in Seq(TurnRecords)  BY <1>2, <2>1, LoadFields
  <2>3. c \in made /\ Grown(rows, ts)  BY <1>1, <1>2 DEF ShownInv, RowsFit, Seen
  <2>4. made \subseteq Convs  BY DEF IInv, ServerFits
  <2> QED  BY <2>2, <2>3, <2>4, HeldFacts
<1>28. IF flying THEN ts # <<>> ELSE LiveIn(ts) => Len(ts) > n
  BY <1>1, <1>2 DEF ShownInv, RowsFit, Seen
<1>5. /\ n \in Nat /\ Len(ts) \in Nat /\ n <= Len(ts) /\ Len(streams) \in Nat
      /\ h \in Nat /\ h # 0 /\ h > Len(streams)
      /\ held \in 0 .. Len(streams) /\ DOMAIN streams = 1 .. Len(streams)
  <2>1. n \in Nat /\ Len(ts) \in Nat /\ n <= Len(ts)  BY <1>4 DEF Grown
  <2>2. Len(streams) \in Nat /\ held \in 0 .. Len(streams) /\ DOMAIN streams = 1 .. Len(streams)
    BY HeldFacts
  <2> QED  BY <2>1, <2>2
<1>6. ASSUME flying
      PROVE  /\ DOMAIN streams' = 1 .. h /\ Len(streams') = h /\ streams'[h] = q /\ held' = h
             /\ \A s \in DOMAIN streams : streams'[s] = streams[s] /\ s \in DOMAIN streams'
  <2>1. q \in StreamRecords
    <3>1. n # 0 => rows[n].out \in Nat
      <4>1. n # 0 => rows[n] \in TurnRecords  BY <1>4, <1>5
      <4> QED  BY <4>1 DEF TurnRecords
    <3>2. q.turn \in Nat /\ q.n \in Nat  BY <1>5, <3>1
    <3> DEFINE k == IF n = 0 THEN 1 ELSE n
               m == IF n = 0 THEN 1 ELSE rows[n].out + 1
    <3>3. k \in Nat /\ m \in Nat  BY <1>5, <3>1
    <3>4. q = [conv |-> c, by |-> "resume", served |-> TRUE, state |-> "open",
               heard |-> FALSE, turn |-> k, n |-> m]
      OBVIOUS
    <3> HIDE DEF k, m, q
    <3> QED  BY <1>4, <3>3, <3>4 DEF StreamRecords, Reading, Means
  <2>2. streams \in Seq(StreamRecords)  BY DEF IInv, ChannelFits
  <2>3. streams' = Append(streams, q) /\ held' = Len(streams')  BY <1>3, <1>6
  <2> HIDE DEF q
  <2>4. /\ Append(streams, q) \in Seq(StreamRecords)
        /\ Len(Append(streams, q)) = Len(streams) + 1
        /\ Append(streams, q)[Len(streams) + 1] = q
        /\ \A s \in 1 .. Len(streams) : Append(streams, q)[s] = streams[s]
    BY <2>1, <2>2, AppendFits
  <2>5. \A s \in 1 .. Len(streams) : s \in 1 .. h  BY <1>5
  <2> QED  BY <1>5, <2>3, <2>4, <2>5
<1>7. q.conv = c /\ q.served /\ q.state = "open"  OBVIOUS
<1>8. n # 0 => q.turn = n /\ q.n = rows[n].out + 1  OBVIOUS
<1>9. held # 0 => held \in Running
  BY DEF IInv, HoldFits
<1>10. /\ ns \in Seq(Bubbles) /\ Got(ns) = ItemsOf(rows)
       /\ \A j \in DOMAIN ns : ns[j].key = 0 \/ (flying /\ ns[j].key = h /\ j = Len(ns))
       /\ (flying => ns # <<>> /\ Last(ns).key = h)
       /\ (rows # <<>> => ns # <<>>)
  <2>1. CASE flying
    <3>1. ns = Rebuilt(rows) \o <<Bubble(h)>>  BY <2>1
    <3> HIDE DEF rows, h, flying, ns
    <3>2. LET g == Rebuilt(rows) \o <<Bubble(h)>>
          IN  /\ g \in Seq(Bubbles) /\ Got(g) = ItemsOf(rows)
              /\ \A j \in DOMAIN g : g[j].key = 0 \/ (g[j].key = h /\ j = Len(g))
              /\ g # <<>> /\ Last(g).key = h
      BY <1>4, <1>5, RowsShown
    <3> QED  BY <2>1, <3>1, <3>2
  <2>2. CASE ~ flying
    <3>1. ns = Rebuilt(rows) \o <<>>  BY <2>2
    <3> HIDE DEF rows, h, flying, ns
    <3>2. LET g == Rebuilt(rows) \o <<>>
          IN  /\ g \in Seq(Bubbles) /\ Got(g) = ItemsOf(rows)
              /\ \A j \in DOMAIN g : g[j].key = 0
              /\ (rows # <<>> => g # <<>>)
      BY <1>4, <1>5, RowsShown
    <3> QED  BY <2>2, <3>1, <3>2
  <2> QED  BY <2>1, <2>2
<1>11. c \in DOMAIN list => list'[c] = [list[c] EXCEPT !.loaded = TRUE, !.msgs = ns]
  <2> HIDE DEF ns
  <2>1. SUFFICES ASSUME c \in DOMAIN list
                 PROVE  list'[c] = [list[c] EXCEPT !.loaded = TRUE, !.msgs = ns]
    OBVIOUS
  <2>2. list' = [list EXCEPT ![c].loaded = TRUE, ![c].msgs = ns]  BY <1>2, <2>1
  <2> QED  BY <2>1, <2>2
<1> HIDE DEF ns, q
<1>12. /\ DOMAIN list' = DOMAIN list /\ list' = [d \in DOMAIN list' |-> list'[d]]
       /\ \A d \in DOMAIN list : d # c => list'[d] = list[d]
  <2>1. list = [d \in DOMAIN list |-> list[d]]  BY DEF ShownInv, EntryListsFit, EntriesFit
  <2> QED  BY <1>2, <2>1
<1>13. OwnIds(ts)  BY <1>4 DEF ShownInv, IdsFit, LogIdsFit, OwnIds
<1> HIDE DEF rows, ts, flying, h
<1>14. /\ IsInjective(Got(ns)) /\ Got(ns) \in Seq(Items)
       /\ \A x \in Range(Got(ns)) :
            /\ x[1] <= acts /\ \E j \in DOMAIN ts : ts[j].id = x[1]
            /\ n # 0 /\ Told(x, ts, n, rows[n].out + 1)
  <2>1. /\ IsInjective(ItemsOf(rows))
        /\ \A x \in Range(ItemsOf(rows)) :
             /\ \E j \in DOMAIN ts : ts[j].id = x[1]
             /\ rows # <<>> /\ Told(x, ts, n, rows[n].out + 1)
    BY <1>4, <1>13, RowsTold
  <2>2. \A j \in DOMAIN ts : ts[j].id <= acts  BY <1>4 DEF ShownInv, IdsFit, LogIdsFit, ts
  <2>3. rows # <<>> => n # 0  BY <1>4
  <2>4. ItemsOf(rows) \in Seq(Items)  BY <1>4, ItemsAppend
  <2> QED  BY <1>10, <2>1, <2>2, <2>3, <2>4
<1>15. ASSUME c \in DOMAIN list PROVE FitsFor(list[c], c)'
  <2>1. PICK e : e = [list[c] EXCEPT !.loaded = TRUE, !.msgs = ns]  OBVIOUS
  <2>2. SUFFICES ASSUME c \notin orphaned'
                 PROVE  /\ EntryFits(e, ts, Len(streams'), acts) /\ IsInjective(Got(e.msgs))
                        /\ held' # 0 /\ streams'[held'].conv = c
                             => BubbleFits(e.msgs, ts, held', streams'[held'])
    <3>1. ASSUME c \notin orphaned' =>
                   /\ EntryFits(e, ts, Len(streams'), acts) /\ IsInjective(Got(e.msgs))
                   /\ held' # 0 /\ streams'[held'].conv = c
                        => BubbleFits(e.msgs, ts, held', streams'[held'])
          PROVE  FitsFor(e, c)'
      BY <1>2, <3>1 DEF FitsFor, Holds, ts
    <3> QED  BY <1>11, <1>15, <2>1, <3>1, NewEntry
  <2>3. e \in EntryRecords /\ e.msgs = ns
    <3>1. list[c] \in EntryRecords
      BY <1>3, <1>15, <2>2 DEF ShownInv, EntryListsFit, EntriesFit, FitsFor, EntryFits
    <3> QED  BY <1>10, <2>1, <3>1 DEF EntryRecords
  <2>4. EntryFits(e, ts, Len(streams'), acts)
    <3>1. \A j \in DOMAIN ns : ns[j].key <= Len(streams')
      <4>1. CASE flying
        <5>1. Len(streams') = h /\ h \in Nat  BY <1>5, <1>6, <4>1
        <5> QED  BY <1>10, <5>1
      <4>2. CASE ~ flying
        <5>1. Len(streams') \in Nat  BY <1>3, <1>5, <4>2
        <5> QED  BY <1>10, <4>2, <5>1
      <4> QED  BY <4>1, <4>2
    <3> QED  BY <1>14, <2>3, <3>1 DEF EntryFits
  <2>5. ASSUME held' # 0, streams'[held'].conv = c PROVE BubbleFits(ns, ts, held', streams'[held'])
    <3>1. CASE flying
      <4>1. held' = h /\ streams'[held'] = q  BY <1>6, <3>1
      <4>2. \A x \in Range(Got(ns)) : Told(x, ts, q.turn, q.n)  BY <1>8, <1>14
      <4>3. \A j \in DOMAIN ns : ns[j].key = h => j = Len(ns)  BY <1>5, <1>10
      <4>4. BubbleFits(ns, ts, h, q)  BY <4>2, <4>3 DEF BubbleFits
      <4> QED  BY <4>1, <4>4
    <3>2. CASE ~ flying
      <4>1. \A j \in DOMAIN ns : ns[j].key # held'  BY <1>10, <2>5, <3>2
      <4> QED  BY <4>1 DEF BubbleFits
    <3> QED  BY <3>1, <3>2
  <2> QED  BY <1>14, <2>3, <2>4, <2>5
<1>16. \A d \in Convs : Onward(d)
  <2>1. CASE flying
    <3>1. /\ Len(streams') \in Nat /\ Len(streams) <= Len(streams') /\ held' > Len(streams)
          /\ orphaned \subseteq orphaned'
      BY <1>3, <1>5, <1>6, <2>1
    <3> QED  BY <1>2, <3>1, OnwardFits
  <2>2. CASE ~ flying  BY <1>2, <1>3, <1>5, <2>2, OnwardFits
  <2> QED  BY <2>1, <2>2
<1>17. ASSUME NEW d, d # c PROVE WaitsLess(d)
  <2>1. SUFFICES ASSUME NEW t \in DOMAIN streams', Waits(t, d)'
                 PROVE  t \in DOMAIN streams /\ Waits(t, d)
    BY DEF WaitsLess
  <2>2. CASE ~ flying  BY <1>3, <2>1, <2>2 DEF Waits
  <2>3. CASE flying
    <3>1. t # h  BY <1>6, <1>7, <1>17, <2>1, <2>3 DEF Waits
    <3>2. t \in 1 .. h  BY <1>6, <2>1, <2>3
    <3>3. t \in DOMAIN streams  BY <1>5, <3>1, <3>2 DEF h
    <3>4. streams'[t] = streams[t]  BY <1>6, <2>3, <3>3
    <3> QED  BY <2>1, <3>3, <3>4 DEF Waits
  <2> QED  BY <2>2, <2>3
<1>18. IdsFit'
  <2>1. IdsFit  BY DEF ShownInv
  <2>2. \A t \in Unserved' : t \in Unserved /\ streams'[t].msg = streams[t].msg
    <3>1. CASE ~ flying  BY <1>3, <3>1 DEF Unserved
    <3>2. CASE flying
      <4>1. SUFFICES ASSUME NEW t \in DOMAIN streams', ~ streams'[t].served
                     PROVE  t \in DOMAIN streams /\ streams'[t] = streams[t]
        BY DEF Unserved
      <4>2. t # h /\ t \in 1 .. h  BY <1>6, <1>7, <3>2, <4>1
      <4>3. t \in DOMAIN streams  BY <1>5, <4>2 DEF h
      <4> QED  BY <1>6, <3>2, <4>3
    <3> QED  BY <3>1, <3>2
  <2>3. \A d \in Convs : \A j \in DOMAIN log'[d] :
          j \in DOMAIN log[d] /\ log'[d][j].id = log[d][j].id /\ log'[d][j].out <= MaxRounds
    BY <1>2, <2>1 DEF IdsFit, LogIdsFit
  <2>4. \A t \in creates' : \E u \in creates : u.id = t.id  BY <1>2
  <2>5. \A t, u \in creates' : t.id = u.id => t = u  BY <1>2, <2>1 DEF IdsFit, DraftIdsFit
  <2> QED  BY <1>2, <2>1, <2>2, <2>3, <2>4, <2>5, IdsStay
<1>19. LoadsOnward
  <2>1. DOMAIN list' \subseteq Convs /\ loads \in Seq(LoadRecords) /\ i \in 1 .. Len(loads)
    BY <1>12 DEF IInv, ViewFits, ServerFits
  <2> DEFINE rest == RemoveAt(loads, i)
  <2>2. /\ rest \in Seq(LoadRecords)
        /\ \A k \in DOMAIN rest : \E j \in DOMAIN loads : rest[k] = loads[j]
    BY <2>1, RemoveFits, RemoveFrom
  <2>3. loads' = LoadsAfter(list', url, rest)  BY <1>2
  <2> HIDE DEF rest
  <2>4. \A k \in DOMAIN loads' :
          \/ \E j \in DOMAIN rest : loads'[k] = rest[j]
          \/ /\ loads'[k].st = "asked" /\ loads'[k].conv \in DOMAIN list'
             /\ ~ list'[loads'[k].conv].loaded
    BY <2>1, <2>2, <2>3, LoadsFrom
  <2> QED  BY <2>2, <2>4 DEF LoadsOnward
<1>20. Loading(c)  BY <1>1 DEF Loading
<1>21. ASSUME c \in alive \ (harmed' \cup orphaned') PROVE WholeFits(c)'
  <2>1. /\ \A t \in DOMAIN streams : Waits(t, c) => t = held
        /\ Holds(c) => StreamFits(c)
        /\ \A u \in creates : u.conv = c => Untouched(c)
    BY <1>2, <1>3, <1>21 DEF ShownInv, ShownFits, WholeFits
  <2>2. n = Len(ts) /\ ~ (~ flying /\ n > 0 /\ rows[n].out < ts[n].out)
    BY <1>2, <1>5, <1>21
  <2>3. \A t \in DOMAIN streams : Waits(t, c) => Holds(c)
    <3>1. SUFFICES ASSUME NEW t \in DOMAIN streams, Waits(t, c) PROVE Holds(c)  OBVIOUS
    <3>2. t = held /\ t # 0  BY <1>5, <2>1, <3>1
    <3> QED  BY <3>1, <3>2 DEF Holds, Waits
  <2>4. ASSUME c \in DOMAIN list PROVE list'[c].loaded /\ list'[c].msgs = ns
    <3>1. list[c] \in EntryRecords
      BY <1>3, <1>21, <2>4 DEF ShownInv, EntryListsFit, EntriesFit, FitsFor, EntryFits
    <3> QED  BY <1>11, <2>4, <3>1 DEF EntryRecords
  <2>5. CASE flying
    <3>1. ~ Holds(c)  BY <1>3, <1>9, <1>21, <2>5 DEF Holds
    <3>2. \A t \in DOMAIN streams' : Waits(t, c)' => t = held'
      <4>1. SUFFICES ASSUME NEW t \in DOMAIN streams', Waits(t, c)', t # h PROVE FALSE
        BY <1>6, <2>5
      <4>2. t \in 1 .. h  BY <1>6, <2>5, <4>1
      <4>3. t \in DOMAIN streams  BY <1>5, <4>1, <4>2 DEF h
      <4>4. streams'[t] = streams[t]  BY <1>6, <2>5, <4>3
      <4>5. Waits(t, c)  BY <4>1, <4>4 DEF Waits
      <4> QED  BY <2>3, <3>1, <4>3, <4>5
    <3>3. ts # <<>> /\ rows # <<>> /\ n # 0
      <4>1. ts # <<>>  BY <1>28, <2>5
      <4> QED  BY <1>4, <2>2, <4>1
    <3>4. /\ rows[n].out + 1 \in 1 .. Last(ts).out + 1
          /\ ItemsOf(rows) \o Ahead(ts, rows[n].out + 1) = ItemsOf(ts)
      BY <1>4, <2>2, <3>3, RowsRest
    <3>5. q.turn = Len(ts) /\ q.n = rows[n].out + 1  BY <1>8, <2>2, <3>3
    <3>6. held' = h /\ streams'[h] = q /\ log'[c] = ts /\ DOMAIN list' = DOMAIN list
      BY <1>2, <1>6, <1>12, <2>5 DEF ts
    <3>7. Holds(c)'  BY <1>5, <1>7, <3>6 DEF Holds
    <3> HIDE DEF n
    <3>8. StreamFits(c)'  BY <1>7, <3>3, <3>4, <3>5, <3>6 DEF StreamFits
    <3>9. ASSUME c \in DOMAIN list' PROVE EntryShows(c)'
      <4>1. list'[c].msgs = ns  BY <2>4, <3>6, <3>9
      <4>2. ns # <<>> /\ Last(ns).key = h /\ Got(ns) = ItemsOf(rows)  BY <1>10, <2>5
      <4>3. Followed(ns, ts, h, q)  BY <3>4, <3>5, <4>2 DEF Followed
      <4> QED  BY <1>7, <3>6, <3>7, <4>1, <4>3 DEF EntryShows
    <3>10. ASSUME NEW u \in creates', u.conv = c PROVE Untouched(c)'
      <4>1. Untouched(c)  BY <1>2, <2>1, <3>10
      <4>2. c \in DOMAIN list  BY <3>3, <4>1 DEF Untouched, ts
      <4>3. list'[c].msgs # <<>>  BY <1>10, <2>4, <2>5, <4>2
      <4> QED  BY <3>6, <4>2, <4>3 DEF Untouched
    <3> QED  BY <3>2, <3>8, <3>9, <3>10 DEF WholeFits
  <2>6. CASE ~ flying
    <3>1. UNCHANGED <<streams, held, log, creates>> /\ DOMAIN list' = DOMAIN list
      BY <1>2, <1>3, <1>12, <2>6
    <3>2. ASSUME Holds(c) PROVE streams[held].served  BY <1>20, <2>1, <3>2 DEF StreamFits
    <3>3. Holds(c)' <=> Holds(c)  BY <3>1 DEF Holds
    <3>4. ItemsOf(rows) = ItemsOf(ts)
      <4>1. CASE n = 0
        <5>1. Len(rows) = 0 /\ Len(ts) = 0  BY <2>2, <4>1
        <5>2. rows = <<>> /\ ts = <<>>  BY <1>4, <5>1
        <5> QED  BY <5>2
      <4>2. CASE n # 0
        <5>1. rows # <<>> /\ ts # <<>> /\ n > 0  BY <1>4, <1>5, <2>2, <4>2
        <5>2. Last(ts) = ts[n] /\ ts[n] \in TurnRecords  BY <1>4, <2>2, <5>1, LastTurn
        <5>3. rows[n].out + 1 \in 1 .. Last(ts).out + 1  BY <1>4, <2>2, <5>1, RowsRest
        <5>4. ts[n].out \in Nat /\ rows[n].out \in Nat
          <6>1. rows[n] \in TurnRecords  BY <1>4, <1>5, <5>1
          <6> QED  BY <5>2, <6>1 DEF TurnRecords
        <5>5. ~ (rows[n].out < ts[n].out)  BY <2>2, <2>6, <5>1
        <5>6. rows[n].out = Last(ts).out
          <6> DEFINE x == rows[n].out
                     y == ts[n].out
          <6>1. x \in Nat /\ y \in Nat /\ ~ (x < y) /\ x + 1 \in 1 .. y + 1
            BY <5>2, <5>3, <5>4, <5>5
          <6> HIDE DEF x, y
          <6>2. x = y  BY <6>1
          <6> QED  BY <5>2, <6>2 DEF x, y
        <5> QED  BY <1>4, <2>2, <5>1, <5>6, RowsRest
      <4> QED  BY <4>1, <4>2
    <3>5. ~ LiveIn(ts)  BY <1>5, <1>28, <2>2, <2>6
    <3>6. Even(ns, ts)  BY <1>10, <3>4, <3>5 DEF Even
    <3>7. held # 0 => Aside(ns, ts, held)  BY <1>10, <2>6, <3>6 DEF Aside
    <3>8. Holds(c)' => StreamFits(c)'  BY <2>1, <3>1, <3>2, <3>3 DEF StreamFits
    <3>9. ASSUME c \in DOMAIN list' PROVE EntryShows(c)'
      <4>1. list'[c].msgs = ns  BY <2>4, <3>1, <3>9
      <4>2. CASE Holds(c)
        <5>1. held # 0 /\ streams[held].served  BY <3>2, <4>2 DEF Holds
        <5> QED  BY <3>1, <3>3, <3>7, <4>1, <4>2, <5>1 DEF EntryShows, ts
      <4>3. CASE ~ Holds(c)  BY <3>1, <3>3, <3>6, <4>1, <4>3 DEF EntryShows, ts
      <4> QED  BY <4>2, <4>3
    <3>10. ASSUME NEW u \in creates', u.conv = c PROVE Untouched(c)'
      <4>1. Untouched(c)  BY <2>1, <3>1, <3>10
      <4>2. CASE log[c] # <<>>
        <5>1. c \in DOMAIN list /\ n # 0  BY <1>4, <2>2, <4>1, <4>2 DEF Untouched, ts
        <5>2. rows # <<>>  BY <5>1
        <5> QED  BY <1>10, <2>4, <3>1, <5>1, <5>2 DEF Untouched
      <4>3. CASE log[c] = <<>>
        <5>1. ~ Holds(c)  BY <2>1, <3>2, <4>3 DEF StreamFits
        <5>2. \A t \in DOMAIN streams : ~ Waits(t, c)  BY <2>3, <5>1
        <5> QED  BY <3>1, <4>3, <5>2 DEF Untouched, Waits
      <4> QED  BY <4>2, <4>3
    <3>11. \A t \in DOMAIN streams' : Waits(t, c)' => t = held'  BY <2>1, <3>1 DEF Waits
    <3> QED  BY <3>8, <3>9, <3>10, <3>11 DEF WholeFits
  <2> QED  BY <2>5, <2>6
<1>22. ASSUME NEW d \in alive' \ (harmed' \cup orphaned')
       PROVE  (d \in alive /\ Keeps(d)) \/ WholeFits(d)'
  <2>1. CASE d = c  BY <1>2, <1>21, <1>22, <2>1
  <2>2. CASE d # c
    <3>1. ASSUME Holds(d) PROVE held' = held /\ streams'[held] = streams[held]
      <4>1. CASE flying
        <5>1. held \in Running /\ streams[held].conv = d  BY <1>9, <3>1 DEF Holds
        <5>2. d \in orphaned'  BY <1>3, <4>1, <5>1
        <5> QED  BY <1>22, <5>2
      <4>2. CASE ~ flying  BY <1>3, <4>2
      <4> QED  BY <4>1, <4>2
    <3> QED  BY <1>2, <1>12, <1>17, <1>22, <2>2, <3>1 DEF Keeps
  <2> QED  BY <2>1, <2>2
<1>23. Remembers' => Remembers /\ hide'.was = hide.was  BY <1>2 DEF Remembers
<1>24. \A d \in DOMAIN list' :
         (d \in DOMAIN list /\ list'[d] = list[d]) \/ FitsFor(list[d], d)'
  BY <1>12, <1>15
<1>25. made \subseteq made' /\ url' \in made' \cup {None}  BY <1>2, UrlStays
<1>26. \A d \in Convs \ made' : log'[d] = log[d] /\ WaitsLess(d)  BY <1>2, <1>4, <1>17
<1>27. harmed \subseteq harmed' /\ orphaned \subseteq orphaned'  BY <1>2, <1>3
<1> QED
  BY <1>12, <1>16, <1>18, <1>19, <1>22, <1>23, <1>24, <1>25, <1>26, <1>27, StepShows

-----------------------------------------------------------------------------
(* The held stream is aborted. *)

\* What becomes of a stream, and what waits afterwards.
LEMMA AbortIs ==
  ASSUME IInv, NEW s \in DOMAIN streams, streams'[s] = Aborted(streams)[s], NEW c
  PROVE  /\ Waits(s, c)' => Waits(s, c) /\ (s = held => ~ streams[s].served)
         /\ ~ streams'[s].served => ~ streams[s].served /\ streams'[s].msg = streams[s].msg
<1>1. streams'[s] =
        IF s # held THEN streams[s] ELSE IF streams[s].served THEN Over
        ELSE [streams[s] EXCEPT !.state = "over"]
  BY DEF Aborted
<1>2. CASE s # held  BY <1>1, <1>2 DEF Waits
<1>3. CASE s = held /\ streams[s].served
  <2>1. streams'[s].state = "over" /\ streams'[s].served  BY <1>1, <1>3 DEF Over
  <2> QED  BY <2>1 DEF Waits
<1>4. CASE s = held /\ ~ streams[s].served
  <2>1. streams[s] \in StreamRecords  BY StreamNumbers DEF IInv
  <2>2. streams[s] \in Posted  BY <1>4, <2>1, StreamFields
  <2>3. streams'[s] = [streams[s] EXCEPT !.state = "over"]  BY <1>1, <1>4
  <2>4. streams'[s].conv = streams[s].conv /\ streams'[s].msg = streams[s].msg
    BY <2>2, <2>3 DEF Posted
  <2> QED  BY <1>4, <2>4 DEF Waits
<1> QED  BY <1>2, <1>3, <1>4

\* A conversation whose stream has nothing to bring shows all there is.
LEMMA AllShown ==
  ASSUME IInv, ShownInv, NEW c \in alive \ orphaned, WholeFits(c),
         c \in DOMAIN list, list[c].loaded,
         Holds(c) => /\ streams[held].served /\ ~ Live(c)
                     /\ Behind(c, streams[held].turn, streams[held].n) = {}
  PROVE  Even(list[c].msgs, log[c])
<1> DEFINE ms == list[c].msgs
           ts == log[c]
           k  == streams[held].turn
           n  == streams[held].n
<1>1. /\ Holds(c) => StreamFits(c)
      /\ EntryShows(c)
  BY DEF WholeFits
<1>2. c \in Convs /\ log[c] \in Seq(TurnRecords)
  BY HeldFacts DEF IInv, ServerFits
<1>3. CASE ~ Holds(c)  BY <1>1, <1>3 DEF EntryShows
<1>4. CASE Holds(c)
  <2>1. Followed(ms, ts, held, streams[held]) \/ Aside(ms, ts, held)
    BY <1>1, <1>4 DEF EntryShows
  <2>2. CASE Aside(ms, ts, held)  BY <2>2 DEF Aside
  <2>3. CASE Followed(ms, ts, held, streams[held])
    <3>1. ~ LiveIn(ts)  BY <1>4 DEF Live, LiveIn
    <3>2. ts # <<>> /\ k = Len(ts) /\ n \in 1 .. Last(ts).out + 1
      BY <1>1, <1>4 DEF StreamFits
    <3>3. Behind(c, k, n) = {}  BY <1>4
    <3>4. Got(ms) \o Ahead(ts, n) = ItemsOf(ts)  BY <2>3 DEF Followed
    <3>5. ms \in Seq(Bubbles)
      <4>1. list[c] \in EntryRecords
        BY DEF ShownInv, EntryListsFit, EntriesFit, FitsFor, EntryFits
      <4> QED  BY <4>1 DEF EntryRecords
    <3>6. /\ Len(ts) \in DOMAIN ts /\ Last(ts) = ts[Len(ts)]
          /\ Last(ts).out \in Nat /\ Last(ts).out <= MaxRounds
      <4>1. /\ Len(ts) \in Nat /\ Len(ts) >= 1 /\ DOMAIN ts = 1 .. Len(ts)
            /\ Last(ts) = ts[Len(ts)] /\ Last(ts) \in TurnRecords
        BY <1>2, <3>2, LastTurn
      <4>2. Last(ts).out \in Nat  BY <4>1 DEF TurnRecords
      <4>3. \A j \in DOMAIN ts : ts[j].out <= MaxRounds
        BY <1>2 DEF ShownInv, IdsFit, LogIdsFit
      <4>4. Len(ts) \in DOMAIN ts  BY <4>1
      <4> QED  BY <4>1, <4>2, <4>3, <4>4
    <3>7. n = Last(ts).out + 1
      <4>1. SUFFICES ASSUME n # Last(ts).out + 1 PROVE FALSE  OBVIOUS
      <4> DEFINE o == Last(ts).out
      <4>2. o \in Nat /\ n \in 1 .. o + 1 /\ n # o + 1 /\ o <= MaxRounds /\ MaxRounds \in Nat
        BY <3>2, <3>6, <4>1, ChatViewAssumption
      <4>3. k \in DOMAIN ts /\ ts[k].out = o  BY <3>2, <3>6
      <4> HIDE DEF o, n, k
      <4>4. n <= o /\ n \in 1 .. MaxRounds  BY <4>2
      <4>5. <<k, n>> \in (DOMAIN ts) \X (1 .. MaxRounds)  BY <4>3, <4>4
      <4> DEFINE p == <<k, n>>
      <4>6. p[1] = k /\ p[2] = n  OBVIOUS
      <4> HIDE DEF p
      <4>7. p \in Behind(c, k, n)  BY <4>3, <4>4, <4>5, <4>6 DEF Behind, p
      <4> QED  BY <3>3, <4>7
    <3> HIDE DEF ms, ts, n
    <3>8. Ahead(ts, n) = <<>>  BY <1>2, <3>2, <3>7, AheadFits DEF ts
    <3>9. Got(ms) \in Seq(Items)  BY <3>5, GotAppend
    <3>10. Got(ms) = ItemsOf(ts)  BY <3>4, <3>8, <3>9, ConcatEmptySeq
    <3> QED  BY <3>1, <3>10 DEF Even, ms, ts
  <2> QED  BY <2>1, <2>2, <2>3
<1> QED  BY <1>3, <1>4

\* A conversation that loses nothing has nothing under way.
LEMMA LetGo ==
  ASSUME IInv, ShownInv, NEW c \in alive \ (harmed \cup orphaned \cup Loss)
  PROVE  /\ \A s \in DOMAIN streams : Waits(s, c) => s = held /\ streams[s].served
         /\ c \in DOMAIN list /\ list[c].loaded => Even(list[c].msgs, log[c])
         /\ \A r \in creates : r.conv = c => Untouched(c)
<1>1. /\ \A s \in DOMAIN streams : Waits(s, c) => s = held
      /\ Holds(c) => StreamFits(c)
      /\ c \in DOMAIN list /\ list[c].loaded => EntryShows(c)
      /\ \A r \in creates : r.conv = c => Untouched(c)
  BY DEF ShownInv, ShownFits, WholeFits
<1>2. WholeFits(c)  BY DEF ShownInv, ShownFits
<1>3. ASSUME Holds(c)
      PROVE  /\ streams[held].served /\ ~ Live(c)
             /\ Behind(c, streams[held].turn, streams[held].n) = {}
  <2>1. held \in Running /\ streams[held].conv = c  BY <1>3 DEF Holds, IInv, HoldFits
  <2>2. streams[held].conv \notin Loss  BY <2>1
  <2>3. /\ streams[held].served /\ ~ Live(streams[held].conv)
        /\ Behind(streams[held].conv, streams[held].turn, streams[held].n) = {}
    BY <2>1, <2>2 DEF Loss, Cut
  <2> QED  BY <2>1, <2>3
<1>4. ASSUME NEW s \in DOMAIN streams, Waits(s, c) PROVE s = held /\ streams[s].served
  <2>1. s = held /\ s # 0 /\ streams[s].conv = c  BY <1>1, <1>4, HeldFacts DEF Waits
  <2> QED  BY <1>3, <2>1 DEF Holds
<1>5. c \in DOMAIN list /\ list[c].loaded => Even(list[c].msgs, log[c])
  BY <1>2, <1>3, AllShown
<1> QED  BY <1>1, <1>4, <1>5

\* It stays so when nothing else happens to it.
LEMMA LetGoStays ==
  ASSUME IInv, IInv', ShownInv, NEW c \in alive \ (harmed \cup orphaned \cup Loss),
         log'[c] = log[c],
         \A s \in DOMAIN streams : streams'[s] = Aborted(streams)[s],
         \A s \in DOMAIN streams' : s \in DOMAIN streams \/ ~ Waits(s, c)',
         c \in DOMAIN list' <=> c \in DOMAIN list, c \in DOMAIN list => list'[c] = list[c],
         creates' \subseteq creates
  PROVE  WholeFits(c)'
<1>1. /\ \A s \in DOMAIN streams : Waits(s, c) => s = held /\ streams[s].served
      /\ c \in DOMAIN list /\ list[c].loaded => Even(list[c].msgs, log[c])
      /\ \A r \in creates : r.conv = c => Untouched(c)
  BY LetGo
<1>2. \A s \in DOMAIN streams' : ~ Waits(s, c)'
  <2>1. SUFFICES ASSUME NEW s \in DOMAIN streams', Waits(s, c)' PROVE FALSE  OBVIOUS
  <2>2. s \in DOMAIN streams  BY <2>1
  <2>3. Waits(s, c) /\ (s = held => ~ streams[s].served)  BY <2>1, <2>2, AbortIs
  <2> QED  BY <1>1, <2>2, <2>3
<1>3. ~ Holds(c)'  BY <1>2, HeldFactsNext DEF Holds, Waits
<1>4. c \in DOMAIN list' /\ list'[c].loaded => EntryShows(c)'  BY <1>1, <1>3 DEF EntryShows
<1>5. \A r \in creates' : r.conv = c => Untouched(c)'  BY <1>1, <1>2 DEF Untouched
<1> QED  BY <1>2, <1>3, <1>4, <1>5 DEF WholeFits

\* A stream breaks off: one with nothing to bring is not missed.
LEMMA BreakShows ==
  ASSUME IInv, IInv', ShownInv, NEW s \in DOMAIN streams, Break(s)
  PROVE  ShownInv'
<1>1. /\ Ends(s, Over) /\ harmed' = harmed \cup Cut(s) /\ streams[s].state = "open"
      /\ UNCHANGED server /\ UNCHANGED requests /\ UNCHANGED orphaned
      /\ acts' = acts \/ acts' = acts + 1
  BY DEF Break, Fault, Act
<1>2. ASSUME NEW c \in alive \ (harmed' \cup orphaned), streams[s].conv = c
      PROVE  WholeFits(c)'
  <2>1. c \in alive \ (harmed \cup orphaned) /\ c \notin Cut(s)  BY <1>1, <1>2
  <2>2. s = held /\ s # 0
    <3>1. Waits(s, c)  BY <1>1, <1>2 DEF Waits
    <3> QED  BY <2>1, <3>1, HeldFacts DEF ShownInv, ShownFits, WholeFits
  <2>3. c \in alive \ (harmed \cup orphaned \cup Loss)  BY <2>1, <2>2 DEF Loss
  <2>4. /\ \A t \in DOMAIN streams : Waits(t, c) => t = held /\ streams[t].served
        /\ c \in DOMAIN list /\ list[c].loaded => Even(list[c].msgs, log[c])
        /\ \A r \in creates : r.conv = c => Untouched(c)
    BY <2>3, LetGo
  <2>5. /\ streams' = [streams EXCEPT ![s] = Over] /\ held' = 0
        /\ UNCHANGED <<log, list, creates>>
    BY <1>1, <2>2 DEF Ends, server, requests
  <2>6. \A t \in DOMAIN streams' : ~ Waits(t, c)'
    <3>1. SUFFICES ASSUME NEW t \in DOMAIN streams', Waits(t, c)' PROVE FALSE  OBVIOUS
    <3>2. CASE t = s
      <4>1. streams'[t] = Over  BY <2>5, <3>2
      <4> QED  BY <3>1, <4>1 DEF Waits, Over
    <3>3. CASE t # s
      <4>1. t \in DOMAIN streams /\ streams'[t] = streams[t]  BY <2>5, <3>1, <3>3
      <4>2. Waits(t, c)  BY <3>1, <4>1 DEF Waits
      <4> QED  BY <2>2, <2>4, <3>3, <4>1, <4>2
    <3> QED  BY <3>2, <3>3
  <2>7. ~ Holds(c)'  BY <2>5 DEF Holds
  <2>8. c \in DOMAIN list' /\ list'[c].loaded => EntryShows(c)'
    BY <2>4, <2>5, <2>7 DEF EntryShows
  <2>9. \A r \in creates' : r.conv = c => Untouched(c)'  BY <2>4, <2>5, <2>6 DEF Untouched
  <2> QED  BY <2>6, <2>7, <2>8, <2>9 DEF WholeFits
<1> QED  BY <1>1, <1>2, EndsShows

\* The user stops the stream.
LEMMA StopShows ==
  ASSUME IInv, IInv', ShownInv, Stop
  PROVE  ShownInv'
<1>1. /\ streams' = Aborted(streams) /\ held' = 0 /\ harmed' = harmed \cup Loss
      /\ acts' = acts + 1
      /\ UNCHANGED <<made, alive, log, url, list, loads, creates, hide, orphaned>>
  BY DEF Stop, Act, server, view, requests
<1>2. /\ DOMAIN streams' = DOMAIN streams /\ Len(streams') = Len(streams)
      /\ \A s \in DOMAIN streams : streams'[s] = Aborted(streams)[s]
  BY <1>1, AbortedFits, HeldFacts, HeldFactsNext DEF IInv
<1>3. \A c \in Convs : Onward(c)
  <2>1. Len(streams') \in Nat /\ Len(streams) <= Len(streams')  BY <1>2, HeldFacts
  <2> QED  BY <1>1, <2>1, OnwardFits
<1>4. \A c : WaitsLess(c)  BY <1>2, AbortIs DEF WaitsLess
<1>5. IdsFit'
  <2>1. IdsFit  BY DEF ShownInv
  <2>2. \A t \in Unserved' : t \in Unserved /\ streams'[t].msg = streams[t].msg
    BY <1>2, AbortIs DEF Unserved
  <2>3. \A d \in Convs : \A j \in DOMAIN log'[d] :
          j \in DOMAIN log[d] /\ log'[d][j].id = log[d][j].id /\ log'[d][j].out <= MaxRounds
    BY <1>1, <2>1 DEF IdsFit, LogIdsFit
  <2>4. \A t \in creates' : \E u \in creates : u.id = t.id  BY <1>1
  <2>5. \A t, u \in creates' : t.id = u.id => t = u  BY <1>1, <2>1 DEF IdsFit, DraftIdsFit
  <2> QED  BY <1>1, <2>1, <2>2, <2>3, <2>4, <2>5, IdsStay
<1>6. \A c \in alive' \ (harmed' \cup orphaned') : WholeFits(c)'
  <2>1. SUFFICES ASSUME NEW c \in alive' \ (harmed' \cup orphaned') PROVE WholeFits(c)'
    OBVIOUS
  <2>2. c \in alive \ (harmed \cup orphaned \cup Loss)  BY <1>1
  <2> QED  BY <1>1, <1>2, <2>2, LetGoStays
<1>7. Remembers' => Remembers /\ hide'.was = hide.was  BY <1>1 DEF Remembers
<1>8. list' = [c \in DOMAIN list' |-> list'[c]]
  BY <1>1 DEF ShownInv, EntryListsFit, EntriesFit
<1>9. /\ made \subseteq made' /\ url' \in made' \cup {None} /\ harmed \subseteq harmed'
      /\ orphaned \subseteq orphaned' /\ \A c \in Convs \ made' : log'[c] = log[c]
  BY <1>1, UrlStays
<1>10. \A c \in DOMAIN list' : c \in DOMAIN list /\ list'[c] = list[c]  BY <1>1
<1> QED
  BY <1>1, <1>3, <1>4, <1>5, <1>6, <1>7, <1>8, <1>9, <1>10, LoadsSame, StepShows

-----------------------------------------------------------------------------
(* A message is sent. *)

\* The message and the bubble of the answer, behind what is shown.
LEMMA SentIs ==
  ASSUME NEW ms \in Seq(Bubbles), NEW k \in Nat, k # 0, NEW m \in Nat,
         \A i \in DOMAIN ms : ms[i].key < k,
         IsInjective(Got(ms)), <<m, 0>> \notin Range(Got(ms))
  PROVE  LET ns == ms \o <<UserMsg(m), Bubble(k)>>
         IN  /\ IsInjective(Got(ns)) /\ Range(Got(ns)) = Range(Got(ms)) \cup {<<m, 0>>}
             /\ \A i \in DOMAIN ns : ns[i].key <= k /\ (ns[i].key = k => i = Len(ns))
             /\ ns # <<>> /\ Last(ns) = Bubble(k) /\ Got(ns) = Append(Got(ms), <<m, 0>>)
<1> DEFINE u  == UserMsg(m)
           b  == Bubble(k)
           x  == <<m, 0>>
           ps == Append(ms, u)
           ns == Append(ps, b)
           n  == Len(ms)
<1>1. x \in Items  BY DEF Items
<1>2. u \in Bubbles /\ u.key = 0 /\ u.got = <<x>>
  <2>1. u = [got |-> <<x>>, key |-> 0]  BY DEF UserMsg
  <2> HIDE DEF u, x
  <2>2. <<x>> \in Seq(Items)  BY <1>1, OneBehind
  <2> QED  BY <2>1, <2>2 DEF Bubbles
<1>3. b \in Bubbles /\ b.key = k /\ b.got = <<>>
  <2>1. <<>> \in Seq(Items)  OBVIOUS
  <2> QED  BY <2>1 DEF Bubble, Bubbles
<1> HIDE DEF u, b
<1>4. ms \o <<UserMsg(m), Bubble(k)>> = ns
  <2>1. ms \o <<UserMsg(m), Bubble(k)>> = ms \o <<u, b>>  BY DEF u, b
  <2> QED  BY <1>2, <1>3, <2>1, Pair
<1> HIDE DEF x, ps, ns, n
<1>5. /\ ps \in Seq(Bubbles) /\ Len(ps) = n + 1 /\ ps[n + 1] = u
      /\ \A i \in 1 .. n : ps[i] = ms[i]
  BY <1>2, AppendFits DEF ps, n
<1>6. n \in Nat /\ DOMAIN ms = 1 .. n  BY DEF n
<1>7. /\ ns \in Seq(Bubbles) /\ Len(ns) = Len(ps) + 1 /\ ns[Len(ps) + 1] = b
      /\ \A i \in 1 .. Len(ps) : ns[i] = ps[i]
  BY <1>3, <1>5, AppendFits DEF ns
<1>8. /\ Len(ns) = n + 2 /\ ns[n + 2] = b /\ ns[n + 1] = u /\ DOMAIN ns = 1 .. n + 2
      /\ \A i \in 1 .. n : ns[i] = ms[i]
  <2>1. n + 1 \in 1 .. n + 1 /\ \A i \in 1 .. n : i \in 1 .. n + 1  BY <1>6
  <2>2. (n + 1) + 1 = n + 2  BY <1>6
  <2> QED  BY <1>5, <1>7, <2>1, <2>2
<1>9. \A i \in 1 .. n + 2 : i \in 1 .. n \/ i = n + 1 \/ i = n + 2  BY <1>6
<1>10. \A i \in 1 .. n + 2 : ns[i].key <= k /\ (ns[i].key = k => i = n + 2)
  <2>1. \A i \in 1 .. n : ms[i].key \in Nat /\ ms[i].key < k
    <3>1. \A i \in 1 .. n : ms[i] \in Bubbles  BY <1>6
    <3> QED  BY <1>6, <3>1 DEF Bubbles
  <2>2. \A i \in 1 .. n : ns[i].key <= k /\ ns[i].key # k  BY <1>8, <2>1
  <2>3. 0 <= k /\ 0 # k /\ k <= k  OBVIOUS
  <2> QED  BY <1>2, <1>3, <1>8, <1>9, <2>2, <2>3
<1>11. Got(ns) = Append(Got(ms), x) /\ Got(ms) \in Seq(Items)
  <2>1. Got(ms) \in Seq(Items) /\ Got(ps) = Got(ms) \o <<x>>  BY <1>2, GotAppend DEF ps
  <2>2. Got(ps) = Append(Got(ms), x) /\ Append(Got(ms), x) \in Seq(Items)
    BY <1>1, <2>1, OneBehind, AppendFits
  <2>3. Got(ns) = Got(ps) \o <<>>  BY <1>3, <1>5, GotAppend DEF ns
  <2> QED  BY <2>1, <2>2, <2>3, ConcatEmptySeq
<1>12. Range(Got(ns)) = Range(Got(ms)) \cup {x} /\ IsInjective(Got(ns))
  <2>1. x \notin Range(Got(ms))  BY DEF x
  <2> QED  BY <1>1, <1>11, <2>1, OnceAppend
<1>13. ns # <<>> /\ Last(ns) = b  BY <1>6, <1>8 DEF Last
<1> QED  BY <1>4, <1>8, <1>10, <1>11, <1>12, <1>13 DEF b, x

\* An entry with them fits.
LEMMA SentFits ==
  ASSUME NEW e \in EntryRecords, NEW ms \in Seq(Bubbles), NEW ts, NEW k, NEW a, NEW m, m <= a,
         Range(Got(e.msgs)) = Range(Got(ms)) \cup {<<m, 0>>},
         \A i \in DOMAIN e.msgs : e.msgs[i].key <= k /\ (e.msgs[i].key = k => i = Len(e.msgs)),
         \A x \in Range(Got(ms)) :
           x[1] <= a /\ (x[2] # 0 => \E j \in DOMAIN ts : ts[j].id = x[1]),
         NEW r, ~ r.served
  PROVE  EntryFits(e, ts, k, a) /\ BubbleFits(e.msgs, ts, k, r)
<1>1. <<m, 0>>[1] = m /\ <<m, 0>>[2] = 0  OBVIOUS
<1>2. EntryFits(e, ts, k, a)  BY <1>1 DEF EntryFits
<1>3. BubbleFits(e.msgs, ts, k, r)  BY DEF BubbleFits
<1> QED  BY <1>2, <1>3

\* A message with an id of its own is asked for.
LEMMA AskedIds ==
  ASSUME IInv, IdsFit, acts' = acts \/ acts' = acts + 1, log' = log, creates' \subseteq creates,
         NEW m, m <= acts',
         \E h : \A t \in Unserved' :
           \/ t \in Unserved /\ streams'[t].msg = streams[t].msg
           \/ t = h /\ streams'[t].msg = m,
         \A t \in Unserved : streams[t].msg # m,
         \A r \in creates' : r.id # m,
         \A c \in Convs : \A j \in DOMAIN log[c] : log[c][j].id # m
  PROVE  IdsFit'
<1>6. PICK h : \A t \in Unserved' : \/ t \in Unserved /\ streams'[t].msg = streams[t].msg
                                    \/ t = h /\ streams'[t].msg = m
  OBVIOUS
<1>1. acts \in Nat /\ acts' \in Nat /\ acts <= acts'  BY HeldFacts
<1>2. /\ \A s \in Unserved : streams[s].msg \in Nat
      /\ \A c \in Convs : \A j \in DOMAIN log[c] : log[c][j].id \in Nat
      /\ \A r \in creates : r.id \in Nat
  BY IdFacts
<1>3. LogIdsFit'
  <2>1. ASSUME NEW c \in Convs, NEW j \in DOMAIN log[c]
        PROVE  /\ log[c][j].id <= acts' /\ log[c][j].out <= MaxRounds
               /\ \A k \in DOMAIN log[c] : log[c][j].id = log[c][k].id => j = k
               /\ \A s \in Unserved' : log[c][j].id # streams'[s].msg
               /\ \A r \in creates' : log[c][j].id # r.id
    <3>1. /\ log[c][j].id <= acts /\ log[c][j].out <= MaxRounds
          /\ \A k \in DOMAIN log[c] : log[c][j].id = log[c][k].id => j = k
          /\ \A s \in Unserved : log[c][j].id # streams[s].msg
          /\ \A r \in creates : log[c][j].id # r.id
      BY DEF IdsFit, LogIdsFit
    <3>2. log[c][j].id <= acts'  BY <1>1, <1>2, <3>1
    <3> QED  BY <1>6, <3>1, <3>2
  <2> QED  BY <2>1 DEF LogIdsFit
<1>4. SentIdsFit'
  <2>1. \A t \in Unserved :
          /\ streams[t].msg <= acts'
          /\ \A u \in Unserved : streams[t].msg = streams[u].msg => t = u
          /\ \A r \in creates : streams[t].msg # r.id
    <3>1. \A t \in Unserved : streams[t].msg <= acts  BY DEF IdsFit, SentIdsFit
    <3> QED  BY <1>1, <1>2, <3>1 DEF IdsFit, SentIdsFit
  <2> QED  BY <1>6, <2>1 DEF SentIdsFit
<1>5. DraftIdsFit'
  <2>1. \A r \in creates : r.id <= acts /\ \A q \in creates : r.id = q.id => r = q
    BY DEF IdsFit, DraftIdsFit
  <2>2. \A r \in creates : r.id <= acts'  BY <1>1, <1>2, <2>1
  <2> QED  BY <2>1, <2>2 DEF DraftIdsFit
<1> QED  BY <1>3, <1>4, <1>5 DEF IdsFit

\* The same, of the stream r the page has just made its own.
LEMMA PostIds ==
  ASSUME IInv, IdsFit, acts' = acts \/ acts' = acts + 1, log' = log, creates' \subseteq creates,
         NEW r, r.msg <= acts',
         \A t \in Unserved' : \/ t \in Unserved /\ streams'[t].msg = streams[t].msg
                              \/ t = held' /\ streams'[t].msg = r.msg,
         \A t \in Unserved : streams[t].msg # r.msg,
         \A u \in creates' : u.id # r.msg,
         \A c \in Convs : \A j \in DOMAIN log[c] : log[c][j].id # r.msg
  PROVE  IdsFit'
<1>1. PICK m : m = r.msg  OBVIOUS
<1>2. /\ m <= acts' /\ \A t \in Unserved : streams[t].msg # m
      /\ \A u \in creates' : u.id # m
      /\ \A c \in Convs : \A j \in DOMAIN log[c] : log[c][j].id # m
  BY <1>1
<1>3. \E h : \A t \in Unserved' : \/ t \in Unserved /\ streams'[t].msg = streams[t].msg
                                  \/ t = h /\ streams'[t].msg = m
  BY <1>1
<1> QED  BY <1>2, <1>3, AskedIds

\* The message of a stream is submitted once more.
LEMMA ResubmitShows ==
  ASSUME IInv, IInv', ShownInv, NEW s \in DOMAIN streams, Resubmit(s)
  PROVE  ShownInv'
<1> DEFINE d == streams[s].conv
           q == [conv |-> d, msg |-> acts', by |-> streams[s].by, served |-> FALSE,
                 state |-> "open", turn |-> 0, n |-> 0, heard |-> FALSE]
<1>1. /\ streams' = [streams EXCEPT ![s] = q] /\ harmed' = harmed \cup {d}
      /\ acts' = acts + 1 /\ streams[s].state = "open"
      /\ UNCHANGED <<made, alive, log, url, list, loads, held, creates, hide, orphaned>>
  BY DEF Resubmit, Fault, Act, NewId, server, view, requests
<1>2. q.conv = d /\ ~ q.served /\ q.msg = acts'  OBVIOUS
<1> HIDE DEF q
<1>3. /\ DOMAIN streams' = DOMAIN streams /\ streams'[s] = q
      /\ \A t \in DOMAIN streams : t # s => streams'[t] = streams[t]
  BY <1>1
<1>4. Len(streams') = Len(streams)  BY <1>3, HeldFacts, HeldFactsNext
<1>5. \A c \in Convs : Onward(c)
  <2>1. held # 0 => \/ streams'[held] = streams[held]
                    \/ streams'[held].conv = streams[held].conv /\ ~ streams'[held].served
    BY <1>2, <1>3, HeldFacts
  <2> QED  BY <1>1, <1>4, <2>1, OnwardMoves
<1>6. \A c : WaitsLess(c)
  <2>1. ASSUME NEW c, NEW t \in DOMAIN streams', Waits(t, c)'
        PROVE  t \in DOMAIN streams /\ Waits(t, c)
    <3>1. CASE t = s  BY <1>1, <1>2, <1>3, <2>1, <3>1 DEF Waits
    <3>2. CASE t # s  BY <1>3, <2>1, <3>2 DEF Waits
    <3> QED  BY <3>1, <3>2
  <2> QED  BY <2>1 DEF WaitsLess
<1>7. IdsFit'
  <2>1. /\ \A c \in Convs : \A j \in DOMAIN log[c] : log[c][j].id <= acts /\ log[c][j].id \in Nat
        /\ \A t \in Unserved : streams[t].msg <= acts /\ streams[t].msg \in Nat
        /\ \A r \in creates : r.id <= acts /\ r.id \in Nat
    BY IdFacts DEF ShownInv, IdsFit, LogIdsFit, SentIdsFit, DraftIdsFit
  <2>2. acts \in Nat /\ acts' \in Nat  BY HeldFacts, HeldFactsNext
  <2>3. /\ \A t \in Unserved : streams[t].msg # acts'
        /\ \A r \in creates' : r.id # acts'
        /\ \A c \in Convs : \A j \in DOMAIN log[c] : log[c][j].id # acts'
    BY <1>1, <2>1, <2>2
  <2>4. \A t \in Unserved' : \/ t \in Unserved /\ streams'[t].msg = streams[t].msg
                             \/ t = s /\ streams'[t].msg = acts'
    BY <1>2, <1>3 DEF Unserved
  <2>5. IdsFit /\ log' = log /\ creates' \subseteq creates /\ acts' <= acts'
    BY <1>1, <2>2 DEF ShownInv
  <2>6. PICK m : m = acts'  OBVIOUS
  <2> QED  BY <1>1, <2>3, <2>4, <2>5, <2>6, AskedIds
<1>8. ASSUME NEW c \in alive' \ (harmed' \cup orphaned') PROVE c \in alive /\ Keeps(c)
  <2>1. c \in alive /\ c # d  BY <1>1, <1>8
  <2>2. Holds(c) => held' = held /\ streams'[held] = streams[held]
    BY <1>1, <1>3, <2>1, HeldFacts DEF Holds
  <2> QED  BY <1>1, <1>6, <2>1, <2>2 DEF Keeps
<1>9. Remembers' => Remembers /\ hide'.was = hide.was  BY <1>1 DEF Remembers
<1>10. list' = [c \in DOMAIN list' |-> list'[c]]
  BY <1>1 DEF ShownInv, EntryListsFit, EntriesFit
<1>11. /\ made \subseteq made' /\ url' \in made' \cup {None} /\ harmed \subseteq harmed'
       /\ orphaned \subseteq orphaned'
       /\ \A c \in Convs \ made' : log'[c] = log[c] /\ WaitsLess(c)
       /\ \A c \in DOMAIN list' : c \in DOMAIN list /\ list'[c] = list[c]
  BY <1>1, <1>6, UrlStays
<1> QED
  BY <1>5, <1>7, <1>8, <1>9, <1>10, <1>11, <1>1, LoadsSame, StepShows

\* The streams, when one more is opened for conversation c and the held one is let go of.
LEMMA PostStreams ==
  ASSUME IInv, IInv', NEW r \in Posted, streams' = Append(Aborted(streams), r),
         held' = Len(streams')
  PROVE  /\ held' = Len(streams) + 1 /\ streams'[held'] = r /\ held' > Len(streams)
         /\ held' \in Nat /\ held' # 0 /\ Len(streams') = held' /\ held' \in DOMAIN streams'
         /\ \A s \in DOMAIN streams :
              s \in DOMAIN streams' /\ streams'[s] = Aborted(streams)[s] /\ s # held'
         /\ \A s \in DOMAIN streams' : s \in DOMAIN streams \/ s = held'
<1> DEFINE n == Len(streams)
<1>1. r \in StreamRecords /\ ChannelFits /\ n \in Nat /\ DOMAIN streams = 1 .. n
  BY HeldFacts DEF IInv, StreamRecords
<1>2. Aborted(streams) \in Seq(StreamRecords) /\ Len(Aborted(streams)) = n
  BY <1>1, AbortedFits
<1>3. /\ streams' \in Seq(StreamRecords) /\ Len(streams') = n + 1
      /\ streams'[n + 1] = r /\ \A i \in 1 .. n : streams'[i] = Aborted(streams)[i]
  BY <1>1, <1>2, AppendFits
<1>4. DOMAIN streams' = 1 .. n + 1 /\ held' = n + 1  BY <1>3
<1> HIDE DEF n
<1>5. /\ \A s \in 1 .. n : s \in 1 .. n + 1 /\ s # n + 1
      /\ \A s \in 1 .. n + 1 : s \in 1 .. n \/ s = n + 1
      /\ n + 1 \in Nat /\ n + 1 # 0 /\ n + 1 > n /\ n + 1 \in 1 .. n + 1
  BY <1>1
<1> QED  BY <1>1, <1>3, <1>4, <1>5 DEF n

\* What is shown where it is sent is what was shown and the message.
LEMMA SentShows ==
  ASSUME IInv, IInv', ShownInv, NEW r \in Posted, r.state = "open",
         streams' = Append(Aborted(streams), r), held' = Len(streams'),
         NEW c, c = r.conv, log'[c] = log[c], NEW ms \in Seq(Bubbles), Even(ms, log[c]),
         \A s \in DOMAIN streams : Waits(s, c) => s = held /\ streams[s].served,
         c \in DOMAIN list', list'[c].loaded, ~ Loading(c)',
         list'[c].msgs # <<>>, Last(list'[c].msgs) = Bubble(held'),
         Got(list'[c].msgs) = Append(Got(ms), <<r.msg, 0>>)
  PROVE  WholeFits(c)'
<1>1. /\ streams'[held'] = r /\ held' # 0
      /\ \A s \in DOMAIN streams : s \in DOMAIN streams' /\ streams'[s] = Aborted(streams)[s]
      /\ \A s \in DOMAIN streams' : s \in DOMAIN streams \/ s = held'
  BY PostStreams
<1>2. ~ r.served  BY DEF Posted
<1>3. \A s \in DOMAIN streams' : Waits(s, c)' => s = held'
  <2>1. SUFFICES ASSUME NEW s \in DOMAIN streams', Waits(s, c)', s # held' PROVE FALSE  OBVIOUS
  <2>2. s \in DOMAIN streams /\ streams'[s] = Aborted(streams)[s]  BY <1>1, <2>1
  <2>3. Waits(s, c) /\ (s = held => ~ streams[s].served)  BY <2>1, <2>2, AbortIs
  <2> QED  BY <2>2, <2>3
<1>4. Holds(c)'  BY <1>1 DEF Holds
<1>5. StreamFits(c)'  BY <1>1, <1>2 DEF StreamFits
<1>6. Sent(list'[c].msgs, log'[c], held', r)  BY DEF Sent, Even
<1>7. EntryShows(c)'  BY <1>1, <1>2, <1>4, <1>6 DEF EntryShows
<1>8. Untouched(c)'  BY DEF Untouched
<1> QED  BY <1>3, <1>5, <1>7, <1>8 DEF WholeFits

\* And nothing else changes.
LEMMA PostShows ==
  ASSUME IInv, IInv', ShownInv, NEW r \in Posted, r.state = "open",
         streams' = Append(Aborted(streams), r), held' = Len(streams'), NEW c, c = r.conv,
         UNCHANGED <<made, alive, log, hide, orphaned>>, harmed \cup Loss \subseteq harmed',
         acts' = acts \/ acts' = acts + 1, creates' \subseteq creates, c \in made,
         url' \in made \cup {None},
         list' = [d \in DOMAIN list' |-> list'[d]],
         \A d : d # c => (d \in DOMAIN list' <=> d \in DOMAIN list)
                         /\ (d \in DOMAIN list => list'[d] = list[d]),
         c \in DOMAIN list' => FitsFor(list[c], c)',
         r.msg <= acts', \A t \in Unserved : streams[t].msg # r.msg,
         \A u \in creates' : u.id # r.msg,
         \A d \in Convs : \A j \in DOMAIN log[d] : log[d][j].id # r.msg,
         LoadsOnward, c \in alive \ (harmed' \cup orphaned) => WholeFits(c)'
  PROVE  ShownInv'
<1>1. /\ held' > Len(streams) /\ held' \in Nat /\ Len(streams') = held' /\ streams'[held'] = r
      /\ \A s \in DOMAIN streams : s \in DOMAIN streams' /\ streams'[s] = Aborted(streams)[s]
      /\ \A s \in DOMAIN streams' : s \in DOMAIN streams \/ s = held'
  BY PostStreams
<1>2. \A d \in Convs : Onward(d)
  <2>1. Len(streams') \in Nat /\ Len(streams) <= Len(streams')  BY <1>1, HeldFacts
  <2> QED  BY <1>1, <2>1, OnwardFits
<1>3. \A d : d # c => WaitsLess(d)
  <2>1. SUFFICES ASSUME NEW d, d # c, NEW s \in DOMAIN streams', Waits(s, d)'
                 PROVE  s \in DOMAIN streams /\ Waits(s, d)
    BY DEF WaitsLess
  <2>2. s # held'  BY <1>1, <2>1 DEF Waits
  <2>3. s \in DOMAIN streams /\ streams'[s] = Aborted(streams)[s]  BY <1>1, <2>2
  <2> QED  BY <2>1, <2>3, AbortIs
<1>4. IdsFit'
  <2>1. \A t \in Unserved' : \/ t \in Unserved /\ streams'[t].msg = streams[t].msg
                             \/ t = held' /\ streams'[t].msg = r.msg
    BY <1>1, AbortIs DEF Unserved
  <2>2. IdsFit /\ log' = log  BY DEF ShownInv
  <2> QED  BY <2>1, <2>2, PostIds
<1>5. \A d \in alive' \ (harmed' \cup orphaned') : WholeFits(d)'
  <2>1. SUFFICES ASSUME NEW d \in alive' \ (harmed' \cup orphaned'), d # c PROVE WholeFits(d)'
    OBVIOUS
  <2>2. d \in alive \ (harmed \cup orphaned \cup Loss)  OBVIOUS
  <2>3. \A s \in DOMAIN streams' : s \in DOMAIN streams \/ ~ Waits(s, d)'
    BY <1>3, <2>1 DEF WaitsLess
  <2>4. log'[d] = log[d]  OBVIOUS
  <2>5. (d \in DOMAIN list' <=> d \in DOMAIN list) /\ (d \in DOMAIN list => list'[d] = list[d])
    BY <2>1
  <2>6. \A s \in DOMAIN streams : streams'[s] = Aborted(streams)[s]  BY <1>1
  <2> QED  BY <2>2, <2>3, <2>4, <2>5, <2>6, LetGoStays
<1>6. Remembers' => Remembers /\ hide'.was = hide.was  BY DEF Remembers
<1>7. \A d \in DOMAIN list' :
        (d \in DOMAIN list /\ list'[d] = list[d]) \/ FitsFor(list[d], d)'
  <2>1. SUFFICES ASSUME NEW d \in DOMAIN list'
                 PROVE  (d \in DOMAIN list /\ list'[d] = list[d]) \/ FitsFor(list[d], d)'
    OBVIOUS
  <2>2. CASE d = c  BY <2>1, <2>2
  <2>3. CASE d # c  BY <2>1, <2>3
  <2> QED  BY <2>2, <2>3
<1>8. \A d \in Convs \ made' : log'[d] = log[d] /\ WaitsLess(d)  BY <1>3
<1>9. /\ made \subseteq made' /\ url' \in made' \cup {None} /\ harmed \subseteq harmed'
      /\ orphaned \subseteq orphaned'
  OBVIOUS
<1> QED
  BY <1>2, <1>4, <1>5, <1>6, <1>7, <1>8, <1>9, StepShows

-----------------------------------------------------------------------------
(* The three ways to send. *)

\* The message and the bubble of the answer.
LEMMA SaidFits ==
  ASSUME NEW m \in Nat, NEW k \in Nat
  PROVE  <<UserMsg(m), Bubble(k)>> \in Seq(Bubbles)
<1> DEFINE x == <<m, 0>>
           u == UserMsg(m)
           v == Bubble(k)
<1>1. u = [got |-> <<x>>, key |-> 0]  BY DEF UserMsg
<1>2. x \in Items  BY DEF Items
<1> HIDE DEF x
<1>3. <<x>> \in Seq(Items) /\ <<>> \in Seq(Items)  BY <1>2
<1>4. u \in Bubbles /\ v \in Bubbles  BY <1>1, <1>3 DEF Bubble, Bubbles
<1> HIDE DEF u, v
<1>5. <<u, v>> \in Seq(Bubbles)  BY <1>4
<1> QED  BY <1>5 DEF u, v

\* The entry a message is added to.
LEMMA TargetFits ==
  ASSUME IInv, IInv', NEW r \in Posted, streams' = Append(Aborted(streams), r),
         held' = Len(streams'), NEW c, c = r.conv, log'[c] = log[c],
         NEW e \in EntryRecords, e = list'[c], NEW ms \in Seq(Bubbles),
         e.msgs = ms \o <<UserMsg(r.msg), Bubble(Len(streams) + 1)>>, r.msg <= acts',
         \A i \in DOMAIN ms : ms[i].key <= Len(streams), IsInjective(Got(ms)),
         \A x \in Range(Got(ms)) :
           /\ x[1] <= acts' /\ x # <<r.msg, 0>>
           /\ x[2] # 0 => \E j \in DOMAIN log[c] : log[c][j].id = x[1]
  PROVE  /\ FitsFor(list[c], c)'
         /\ list'[c].msgs # <<>> /\ Last(list'[c].msgs) = Bubble(held')
         /\ Got(list'[c].msgs) = Append(Got(ms), <<r.msg, 0>>)
<1>1. /\ held' = Len(streams) + 1 /\ streams'[held'] = r /\ held' \in Nat /\ held' # 0
      /\ Len(streams') = held'
  BY PostStreams
<1>2. PICK k : k = held'  OBVIOUS
<1>3. PICK a : a = acts'  OBVIOUS
<1>4. PICK ts : ts = log[c]  OBVIOUS
<1>5. k \in Nat /\ k # 0 /\ e.msgs = ms \o <<UserMsg(r.msg), Bubble(k)>>  BY <1>1, <1>2
<1>6. a \in Nat /\ r.msg <= a /\ r.msg \in Nat /\ ~ r.served
  BY <1>3, HeldFactsNext DEF Posted
<1>7. \A i \in DOMAIN ms : ms[i].key < k
  <2>1. SUFFICES ASSUME NEW i \in DOMAIN ms PROVE ms[i].key < k  OBVIOUS
  <2>2. ms[i] \in Bubbles  OBVIOUS
  <2>3. ms[i].key \in Nat /\ ms[i].key <= Len(streams) /\ k = Len(streams) + 1
    BY <1>1, <1>2, <2>2 DEF Bubbles
  <2>4. Len(streams) \in Nat  BY HeldFacts
  <2> QED  BY <2>3, <2>4
<1>8. \A x \in Range(Got(ms)) :
        x[1] <= a /\ x # <<r.msg, 0>> /\ (x[2] # 0 => \E j \in DOMAIN ts : ts[j].id = x[1])
  BY <1>3, <1>4
<1>9. /\ EntryFits(e, ts, k, a) /\ IsInjective(Got(e.msgs)) /\ BubbleFits(e.msgs, ts, k, r)
      /\ e.msgs # <<>> /\ Last(e.msgs) = Bubble(k)
      /\ Got(e.msgs) = Append(Got(ms), <<r.msg, 0>>)
  <2>1. PICK m : m = r.msg  OBVIOUS
  <2>2. m \in Nat /\ m <= a /\ e.msgs = ms \o <<UserMsg(m), Bubble(k)>>  BY <1>5, <1>6, <2>1
  <2>3. \A x \in Range(Got(ms)) :
          x[1] <= a /\ x # <<m, 0>> /\ (x[2] # 0 => \E j \in DOMAIN ts : ts[j].id = x[1])
    BY <1>8, <2>1
  <2>4. /\ EntryFits(e, ts, k, a) /\ IsInjective(Got(e.msgs)) /\ BubbleFits(e.msgs, ts, k, r)
        /\ e.msgs # <<>> /\ Last(e.msgs) = Bubble(k)
        /\ Got(e.msgs) = Append(Got(ms), <<m, 0>>)
    <3>1. PICK ns : ns = e.msgs  OBVIOUS
    <3>2. ns = ms \o <<UserMsg(m), Bubble(k)>> /\ <<m, 0>> \notin Range(Got(ms))
      BY <2>2, <2>3, <3>1
    <3>3. /\ IsInjective(Got(ns)) /\ Range(Got(ns)) = Range(Got(ms)) \cup {<<m, 0>>}
          /\ \A i \in DOMAIN ns : ns[i].key <= k /\ (ns[i].key = k => i = Len(ns))
          /\ ns # <<>> /\ Last(ns) = Bubble(k) /\ Got(ns) = Append(Got(ms), <<m, 0>>)
      BY <1>5, <1>7, <2>2, <3>2, SentIs
    <3>4. EntryFits(e, ts, k, a)  BY <1>6, <2>2, <2>3, <3>1, <3>3, SentFits
    <3>5. BubbleFits(e.msgs, ts, k, r)  BY <1>6, <2>2, <2>3, <3>1, <3>3, SentFits
    <3> QED  BY <3>1, <3>3, <3>4, <3>5
  <2> QED  BY <2>1, <2>4
<1>10. FitsFor(e, c)'
  BY <1>1, <1>2, <1>3, <1>4, <1>9 DEF FitsFor
<1> QED  BY <1>2, <1>9, <1>10, NewEntry

\* What is known of the entry of a conversation of which no stream was let go.
LEMMA EntryKnown ==
  ASSUME IInv, ShownInv, NEW c \in DOMAIN list \ orphaned
  PROVE  /\ list[c] \in EntryRecords /\ list[c].msgs \in Seq(Bubbles)
         /\ IsInjective(Got(list[c].msgs)) /\ Got(list[c].msgs) \in Seq(Items)
         /\ \A i \in DOMAIN list[c].msgs : list[c].msgs[i].key <= Len(streams)
         /\ \A x \in Range(Got(list[c].msgs)) :
              /\ x[1] <= acts /\ x[1] \in Nat
              /\ x[2] # 0 => \E j \in DOMAIN log[c] : log[c][j].id = x[1]
<1>1. EntryFits(list[c], log[c], Len(streams), acts) /\ IsInjective(Got(list[c].msgs))
  BY DEF ShownInv, EntryListsFit, EntriesFit, FitsFor
<1>2. list[c] \in EntryRecords /\ list[c].msgs \in Seq(Bubbles)
  BY <1>1 DEF EntryFits, EntryRecords
<1>3. Got(list[c].msgs) \in Seq(Items)  BY <1>2, GotAppend
<1>4. \A x \in Range(Got(list[c].msgs)) : x[1] \in Nat
  <2>1. \A x \in Range(Got(list[c].msgs)) : x \in Items  BY <1>3 DEF Range
  <2> QED  BY <2>1 DEF Items
<1> QED  BY <1>1, <1>2, <1>3, <1>4 DEF EntryFits

\* A message of the user's counting is nobody's yet.
LEMMA NewIds ==
  ASSUME IInv, ShownInv, Act
  PROVE  /\ acts' = acts + 1 /\ acts \in Nat /\ acts' \in Nat
         /\ \A t \in Unserved : streams[t].msg # acts'
         /\ \A u \in creates : u.id # acts'
         /\ \A d \in Convs : \A j \in DOMAIN log[d] : log[d][j].id # acts'
         /\ \A x : x[1] \in Nat /\ x[1] <= acts => x[1] <= acts' /\ x # <<acts', 0>>
<1>1. acts' = acts + 1 /\ acts \in Nat  BY HeldFacts DEF Act
<1>2. \A k \in Nat : k <= acts => k # acts' /\ k <= acts'  BY <1>1
<1>3. /\ \A t \in Unserved : streams[t].msg \in Nat /\ streams[t].msg <= acts
      /\ \A u \in creates : u.id \in Nat /\ u.id <= acts
      /\ \A d \in Convs : \A j \in DOMAIN log[d] : log[d][j].id \in Nat /\ log[d][j].id <= acts
  BY IdFacts DEF ShownInv, IdsFit, LogIdsFit, SentIdsFit, DraftIdsFit
<1>4. ASSUME NEW x, x[1] \in Nat, x[1] <= acts PROVE x[1] <= acts' /\ x # <<acts', 0>>
  <2>1. x[1] # acts' /\ x[1] <= acts'  BY <1>2, <1>4
  <2> QED  BY <2>1
<1> QED  BY <1>1, <1>2, <1>3, <1>4

\* In a conversation.
LEMMA SendShows ==
  ASSUME IInv, IInv', ShownInv, Send
  PROVE  ShownInv'
<1>1. PICK c : c = url  OBVIOUS
<1>2. PICK m : m = acts'  OBVIOUS
<1>3. PICK k : k = Len(streams) + 1  OBVIOUS
<1> DEFINE r == [conv |-> c, msg |-> m, by |-> "message", served |-> FALSE,
                 state |-> "open", turn |-> 0, n |-> 0, heard |-> FALSE]
<1>4. /\ c # None /\ Act /\ list' = Said(list, c, <<UserMsg(m), Bubble(k)>>)
      /\ loads' = LoadsAfter(list', c, loads)
      /\ streams' = Append(Aborted(streams), r) /\ held' = Len(streams')
      /\ harmed' = harmed \cup Loss \cup (IF c \in DOMAIN list /\ list[c].loaded /\ ~ Loading(c)
                                            THEN {} ELSE {c})
      /\ UNCHANGED <<made, alive, log, url, creates, hide, orphaned>>
  BY <1>1, <1>2, <1>3 DEF Send, Post, NewId, Act, server, requests
<1>5. c \in made /\ made \subseteq Convs /\ c \in Convs
  BY <1>1, <1>4, UrlStays DEF IInv, ServerFits
<1>6. acts' = acts + 1 /\ acts \in Nat /\ m \in Nat  BY <1>2, <1>4, NewIds
<1>7. r \in Posted /\ r.state = "open" /\ r.conv = c /\ r.msg = m  BY <1>5, <1>6 DEF Posted, Means
<1> HIDE DEF r
<1>8. DOMAIN list' = DOMAIN list /\ \A d : d # c /\ d \in DOMAIN list => list'[d] = list[d]
  BY <1>4 DEF Said
<1>9. list' = [d \in DOMAIN list' |-> list'[d]]
  <2>1. list = [d \in DOMAIN list |-> list[d]]  BY DEF ShownInv, EntryListsFit, EntriesFit
  <2> QED  BY <1>4, <2>1 DEF Said
<1>10. ASSUME c \in DOMAIN list \ orphaned
       PROVE  /\ FitsFor(list[c], c)' /\ list'[c].loaded = list[c].loaded
              /\ list'[c].msgs # <<>> /\ Last(list'[c].msgs) = Bubble(held')
              /\ Got(list'[c].msgs) = Append(Got(list[c].msgs), <<m, 0>>)
              /\ list[c].msgs \in Seq(Bubbles)
  <2>1. /\ list[c] \in EntryRecords /\ list[c].msgs \in Seq(Bubbles)
        /\ IsInjective(Got(list[c].msgs))
        /\ \A i \in DOMAIN list[c].msgs : list[c].msgs[i].key <= Len(streams)
        /\ \A x \in Range(Got(list[c].msgs)) :
             /\ x[1] <= acts /\ x[1] \in Nat
             /\ x[2] # 0 => \E j \in DOMAIN log[c] : log[c][j].id = x[1]
    BY <1>10, EntryKnown
  <2>2. PICK ms : ms = list[c].msgs  OBVIOUS
  <2>3. PICK e : e = list'[c]  OBVIOUS
  <2>4. PICK b : b = <<UserMsg(m), Bubble(k)>>  OBVIOUS
  <2>5. e = [list[c] EXCEPT !.msgs = @ \o b]  BY <1>4, <1>10, <2>3, <2>4 DEF Said
  <2>6. ms \o b \in Seq(Bubbles)
    <3>3. b \in Seq(Bubbles)  BY <1>3, <1>6, <2>4, HeldFacts, SaidFits
    <3> QED  BY <2>1, <2>2, <3>3, ConcatFits
  <2>7. e \in EntryRecords /\ e.msgs = ms \o b /\ e.loaded = list[c].loaded
    BY <2>1, <2>2, <2>5, <2>6 DEF EntryRecords
  <2>8. e.msgs = ms \o <<UserMsg(r.msg), Bubble(Len(streams) + 1)>>
    BY <1>3, <1>7, <2>4, <2>7
  <2>9. /\ r.msg <= acts' /\ \A x \in Range(Got(ms)) :
             /\ x[1] <= acts' /\ x # <<r.msg, 0>>
             /\ x[2] # 0 => \E j \in DOMAIN log[c] : log[c][j].id = x[1]
    <3>1. \A x : x[1] \in Nat /\ x[1] <= acts => x[1] <= acts' /\ x # <<acts', 0>>
      BY <1>4, NewIds
    <3>2. r.msg <= acts'  BY <1>2, <1>6, <1>7
    <3> QED  BY <1>2, <1>7, <2>1, <2>2, <3>1, <3>2
  <2>10. /\ FitsFor(list[c], c)' /\ list'[c].msgs # <<>> /\ Last(list'[c].msgs) = Bubble(held')
         /\ Got(list'[c].msgs) = Append(Got(ms), <<r.msg, 0>>)
    BY ZenonT(40), <1>4, <1>7, <2>1, <2>2, <2>3, <2>7, <2>8, <2>9, TargetFits
  <2> QED  BY <1>7, <2>1, <2>2, <2>3, <2>7, <2>10
<1>11. c \in DOMAIN list' => FitsFor(list[c], c)'
  <2>1. SUFFICES ASSUME c \in DOMAIN list', c \in orphaned' PROVE FitsFor(list[c], c)'
    BY <1>4, <1>8, <1>10
  <2> QED  BY <2>1 DEF FitsFor
<1>12. LoadsOnward
  <2>1. DOMAIN list' \subseteq Convs /\ loads \in Seq(LoadRecords)
    BY <1>8 DEF IInv, ViewFits, ServerFits
  <2> QED  BY SMTT(40), <1>4, <2>1, LoadsFrom DEF LoadsOnward
<1>13. ASSUME c \in alive \ (harmed' \cup orphaned) PROVE WholeFits(c)'
  <2>1. /\ c \in DOMAIN list /\ list[c].loaded /\ ~ Loading(c)
        /\ c \in alive \ (harmed \cup orphaned \cup Loss)
    BY <1>4, <1>13
  <2>2. /\ \A s \in DOMAIN streams : Waits(s, c) => s = held /\ streams[s].served
        /\ Even(list[c].msgs, log[c])
    BY <2>1, LetGo
  <2>3. c \in DOMAIN list' /\ list'[c].loaded /\ ~ Loading(c)'
    <3>1. c \in DOMAIN list' /\ list'[c].loaded  BY <1>8, <1>10, <1>13, <2>1
    <3>2. loads' = loads  BY <1>4, <3>1 DEF LoadsAfter
    <3> QED  BY <2>1, <3>1, <3>2 DEF Loading
  <2>4. /\ list'[c].msgs # <<>> /\ Last(list'[c].msgs) = Bubble(held')
        /\ Got(list'[c].msgs) = Append(Got(list[c].msgs), <<r.msg, 0>>)
        /\ list[c].msgs \in Seq(Bubbles)
    BY <1>7, <1>10, <1>13, <2>1
  <2>5. log'[c] = log[c]  BY <1>4
  <2>6. PICK ms \in Seq(Bubbles) : ms = list[c].msgs  BY <2>4
  <2> QED  BY <1>4, <1>7, <2>2, <2>3, <2>4, <2>5, <2>6, SentShows
<1>14. /\ r.msg <= acts' /\ \A t \in Unserved : streams[t].msg # r.msg
       /\ \A u \in creates' : u.id # r.msg
       /\ \A d \in Convs : \A j \in DOMAIN log[d] : log[d][j].id # r.msg
  <2>1. r.msg = acts' /\ acts' \in Nat  BY <1>2, <1>6, <1>7
  <2> QED  BY <1>4, <2>1, NewIds
<1>15. harmed \cup Loss \subseteq harmed' /\ url' \in made \cup {None} /\ creates' \subseteq creates
  BY <1>4, UrlStays
<1>16. UNCHANGED <<made, alive, log, hide, orphaned>>  BY <1>4
<1>17. \A d : d # c => (d \in DOMAIN list' <=> d \in DOMAIN list)
                       /\ (d \in DOMAIN list => list'[d] = list[d])
  BY <1>8
<1>18. /\ r \in Posted /\ r.state = "open" /\ c = r.conv /\ c \in made
       /\ streams' = Append(Aborted(streams), r) /\ held' = Len(streams')
       /\ (acts' = acts \/ acts' = acts + 1)
  BY <1>4, <1>5, <1>6, <1>7
<1> QED
  BY <1>9, <1>11, <1>12, <1>13, <1>14, <1>15, <1>16, <1>17, <1>18, PostShows

\* The last of some places in a sequence.
LEMMA LastPlace ==
  ASSUME NEW n \in Nat, NEW T, T \subseteq 1 .. n, T # {}
  PROVE  Max(T) \in T
<1> DEFINE U == {n - i : i \in T}
<1>1. U \subseteq Nat /\ U # {}
  <2>1. \A i \in T : n - i \in Nat  OBVIOUS
  <2> QED  BY <2>1
<1> HIDE DEF U
<1>2. PICK u \in U : \A v \in U : u <= v  BY <1>1, LeastNumber
<1>3. PICK x \in T : u = n - x  BY DEF U
<1>4. \A y \in T : x >= y
  <2>1. SUFFICES ASSUME NEW y \in T PROVE x >= y  OBVIOUS
  <2>2. n - y \in U  BY DEF U
  <2>3. n - x <= n - y /\ x \in 1 .. n /\ y \in 1 .. n  BY <1>2, <1>3, <2>2
  <2> QED  BY <2>3
<1>5. \E z \in T : \A y \in T : z >= y  BY <1>4
<1> QED  BY <1>5 DEF Max

\* The bubbles in front of one of them.
LEMMA PrefixFits ==
  ASSUME NEW ms \in Seq(Bubbles), NEW i \in 1 .. Len(ms)
  PROVE  LET p == SubSeq(ms, 1, i - 1)
         IN  /\ p \in Seq(Bubbles) /\ Range(Got(p)) \subseteq Range(Got(ms))
             /\ \A j \in DOMAIN p : j \in DOMAIN ms /\ p[j] = ms[j]
             /\ (IsInjective(Got(ms)) => IsInjective(Got(p)))
<1> DEFINE n == Len(ms)
           h == i - 1
           p == SubSeq(ms, 1, h)
           q == SubSeq(ms, h + 1, n)
<1>1. n \in Nat /\ DOMAIN ms = 1 .. n /\ \A j \in 1 .. n : ms[j] \in Bubbles  OBVIOUS
<1>2. h \in 0 .. n /\ h \in Int /\ n \in Int /\ n \in h .. n /\ 1 \in 1 .. n + 1 /\ h \in 1 - 1 .. n
  BY <1>1
<1> HIDE DEF h
<1>3. /\ p \in Seq(Bubbles) /\ Len(p) = (IF 1 <= h THEN h - 1 + 1 ELSE 0)
      /\ \A j \in 1 .. h - 1 + 1 : p[j] = ms[1 + j - 1]
  <2>1. \A j \in 1 .. h : ms[j] \in Bubbles  BY <1>1, <1>2
  <2> QED  BY <1>2, <2>1, SubSeqProperties
<1>4. q \in Seq(Bubbles)
  <2>1. \A j \in h + 1 .. n : ms[j] \in Bubbles  BY <1>1, <1>2
  <2>2. h + 1 \in Int  BY <1>2
  <2> QED  BY <1>2, <2>1, <2>2, SubSeqProperties
<1>5. p \o q = ms
  <2>1. p \o q = SubSeq(ms, 1, n)  BY <1>2, ConcatAdjacentSubSeq
  <2> QED  BY <2>1, SubSeqFull
<1>6. \A j \in DOMAIN p : j \in DOMAIN ms /\ p[j] = ms[j]
  <2>1. Len(p) = h  BY <1>2, <1>3
  <2>2. DOMAIN p = 1 .. h  BY <1>3, <2>1
  <2>3. \A j \in 1 .. h : j \in 1 .. n /\ p[j] = ms[j]
    <3>1. \A j \in 1 .. h : j \in 1 .. n /\ j \in 1 .. h - 1 + 1 /\ 1 + j - 1 = j  BY <1>1, <1>2
    <3> HIDE DEF p, n
    <3> QED  BY <1>3, <3>1
  <2> QED  BY <1>1, <2>2, <2>3
<1> HIDE DEF p, q, n
<1>7. Got(ms) = Got(p) \o Got(q) /\ Got(p) \in Seq(Items) /\ Got(q) \in Seq(Items)
  BY <1>3, <1>4, <1>5, GotConcat, GotAppend
<1>8. /\ Range(Got(p) \o Got(q)) = Range(Got(p)) \cup Range(Got(q))
      /\ IsInjective(Got(p) \o Got(q)) => IsInjective(Got(p))
  BY <1>7, OnceConcat
<1>9. Range(Got(p)) \subseteq Range(Got(ms)) /\ (IsInjective(Got(ms)) => IsInjective(Got(p)))
  BY <1>7, <1>8
<1> QED  BY <1>3, <1>6, <1>9 DEF p, h

\* Another last message: what is shown is no longer what is stored.
LEMMA EditShows ==
  ASSUME IInv, IInv', ShownInv, Edit
  PROVE  ShownInv'
<1>1. PICK c : c = url  OBVIOUS
<1>2. PICK m : m = acts'  OBVIOUS
<1>3. PICK k : k = Len(streams) + 1  OBVIOUS
<1>4. PICK ms : ms = list[c].msgs  OBVIOUS
<1> DEFINE r == [conv |-> c, msg |-> m, by |-> "edit", served |-> FALSE,
                 state |-> "open", turn |-> 0, n |-> 0, heard |-> FALSE]
           users == {i \in DOMAIN ms : ms[i].got # <<>> /\ ms[i].got[1][2] = 0}
           p == SubSeq(ms, 1, Max(users) - 1)
           more == p \o <<UserMsg(m), Bubble(k)>>
<1>5. /\ c \in DOMAIN list /\ Act /\ users # {}
      /\ list' = [list EXCEPT ![c].msgs = more]
      /\ loads' = LoadsAfter(list', c, loads)
      /\ streams' = Append(Aborted(streams), r) /\ held' = Len(streams')
      /\ harmed' = harmed \cup Loss \cup {c}
      /\ UNCHANGED <<made, alive, log, url, creates, hide, orphaned>>
  BY <1>1, <1>2, <1>3, <1>4 DEF Edit, Post, NewId, Act, server, requests
<1>6. c \in made /\ made \subseteq Convs /\ c \in Convs
  BY <1>5 DEF IInv, ServerFits, ViewFits
<1>7. acts' = acts + 1 /\ acts \in Nat /\ m \in Nat  BY <1>2, <1>5, NewIds
<1>8. r \in Posted /\ r.state = "open" /\ r.conv = c /\ r.msg = m  BY <1>6, <1>7 DEF Posted, Means
<1> HIDE DEF r, users, p, more
<1>9. DOMAIN list' = DOMAIN list /\ \A d : d # c /\ d \in DOMAIN list => list'[d] = list[d]
  BY <1>5
<1>10. list' = [d \in DOMAIN list' |-> list'[d]]
  <2>1. list = [d \in DOMAIN list |-> list[d]]  BY DEF ShownInv, EntryListsFit, EntriesFit
  <2> QED  BY <1>5, <2>1
<1>11. FitsFor(list[c], c)'
  <2>1. SUFFICES ASSUME c \notin orphaned' PROVE FitsFor(list[c], c)'  BY DEF FitsFor
  <2>2. /\ list[c] \in EntryRecords /\ ms \in Seq(Bubbles) /\ IsInjective(Got(ms))
        /\ \A i \in DOMAIN ms : ms[i].key <= Len(streams)
        /\ \A x \in Range(Got(ms)) :
             /\ x[1] <= acts /\ x[1] \in Nat
             /\ x[2] # 0 => \E j \in DOMAIN log[c] : log[c][j].id = x[1]
    BY <1>4, <1>5, <2>1, EntryKnown
  <2>3. Max(users) \in 1 .. Len(ms)
    <3>1. Len(ms) \in Nat /\ users \subseteq 1 .. Len(ms)  BY <2>2 DEF users
    <3> QED  BY <1>5, <3>1, LastPlace
  <2>4. /\ p \in Seq(Bubbles) /\ Range(Got(p)) \subseteq Range(Got(ms))
        /\ \A j \in DOMAIN p : j \in DOMAIN ms /\ p[j] = ms[j]
        /\ IsInjective(Got(p))
    BY <2>2, <2>3, PrefixFits DEF p
  <2>5. PICK e : e = list'[c]  OBVIOUS
  <2>6. e = [list[c] EXCEPT !.msgs = more]  BY <1>5, <2>5
  <2>7. more \in Seq(Bubbles)
    <3>1. k \in Nat  BY <1>3, HeldFacts
    <3>2. <<UserMsg(m), Bubble(k)>> \in Seq(Bubbles)  BY <1>7, <3>1, SaidFits
    <3> QED  BY <2>4, <3>2, ConcatFits DEF more
  <2>8. e \in EntryRecords /\ e.msgs = more  BY <2>2, <2>6, <2>7 DEF EntryRecords
  <2>9. PICK q : q = p  OBVIOUS
  <2>10. e.msgs = q \o <<UserMsg(r.msg), Bubble(Len(streams) + 1)>>
    BY <1>3, <1>8, <2>8, <2>9 DEF more
  <2>11. /\ r.msg <= acts' /\ \A x \in Range(Got(q)) :
              /\ x[1] <= acts' /\ x # <<r.msg, 0>>
              /\ x[2] # 0 => \E j \in DOMAIN log[c] : log[c][j].id = x[1]
    <3>1. \A x : x[1] \in Nat /\ x[1] <= acts => x[1] <= acts' /\ x # <<acts', 0>>
      BY <1>5, NewIds
    <3>2. r.msg <= acts'  BY <1>2, <1>7, <1>8
    <3> QED  BY <1>2, <1>8, <2>2, <2>4, <2>9, <3>1, <3>2
  <2>12. \A i \in DOMAIN q : q[i].key <= Len(streams)  BY <2>2, <2>4, <2>9
  <2>13. q \in Seq(Bubbles) /\ IsInjective(Got(q))  BY <2>4, <2>9
  <2>14. /\ log'[c] = log[c] /\ r \in Posted /\ c = r.conv
         /\ streams' = Append(Aborted(streams), r) /\ held' = Len(streams')
    BY <1>5, <1>8
  <2> QED
    BY <2>5, <2>8, <2>10, <2>11, <2>12, <2>13, <2>14, TargetFits
<1>12. LoadsOnward
  <2>1. DOMAIN list' \subseteq Convs /\ loads \in Seq(LoadRecords)
    BY <1>9 DEF IInv, ViewFits, ServerFits
  <2>2. loads' = LoadsAfter(list', c, loads)  BY <1>5
  <2> QED  BY <2>1, <2>2, LoadsFrom DEF LoadsOnward
<1>13. c \notin alive \ (harmed' \cup orphaned)  BY <1>5
<1>14. /\ r.msg <= acts' /\ \A t \in Unserved : streams[t].msg # r.msg
       /\ \A u \in creates' : u.id # r.msg
       /\ \A d \in Convs : \A j \in DOMAIN log[d] : log[d][j].id # r.msg
  <2>1. r.msg = acts' /\ acts' \in Nat  BY <1>2, <1>7, <1>8
  <2> QED  BY <1>5, <2>1, NewIds
<1>15. harmed \cup Loss \subseteq harmed' /\ url' \in made \cup {None} /\ creates' \subseteq creates
  BY <1>5, UrlStays
<1>16. UNCHANGED <<made, alive, log, hide, orphaned>>  BY <1>5
<1>17. \A d : d # c => (d \in DOMAIN list' <=> d \in DOMAIN list)
                       /\ (d \in DOMAIN list => list'[d] = list[d])
  BY <1>9
<1>18. /\ r \in Posted /\ r.state = "open" /\ c = r.conv /\ c \in made
       /\ streams' = Append(Aborted(streams), r) /\ held' = Len(streams')
       /\ (acts' = acts \/ acts' = acts + 1)
  BY <1>5, <1>6, <1>7, <1>8
<1> QED
  BY <1>10, <1>11, <1>12, <1>13, <1>14, <1>15, <1>16, <1>17, <1>18, PostShows

\* In a conversation just made, where nothing was said unless a race has been at it.
LEMMA CreateArrivesShows ==
  ASSUME IInv, IInv', ShownInv, CreateArrives
  PROVE  ShownInv'
<1>1. PICK u \in creates :
        /\ u.conv # None /\ creates' = creates \ {u}
        /\ list' = [c \in DOMAIN list \cup {u.conv} |->
                      IF c # u.conv THEN list[c]
                      ELSE [msgs |-> <<UserMsg(u.id), Bubble(Len(streams) + 1)>>,
                            loaded |-> TRUE, proj |-> u.focus]]
        /\ url' = u.conv /\ loads' = LoadsAfter(list', u.conv, loads)
        /\ streams' = Append(Aborted(streams),
                             [conv |-> u.conv, msg |-> u.id, by |-> "message", served |-> FALSE,
                              state |-> "open", turn |-> 0, n |-> 0, heard |-> FALSE])
        /\ held' = Len(streams')
        /\ harmed' = harmed \cup Loss
                       \cup {c \in {u.conv} :
                               Loading(c) \/ (c \in DOMAIN list /\ list[c].msgs # <<>>)}
        /\ UNCHANGED <<made, alive, log, hide, acts, orphaned>>
  BY DEF CreateArrives, Goes, server
<1>2. PICK c : c = u.conv  OBVIOUS
<1>3. PICK m : m = u.id  OBVIOUS
<1>4. PICK k : k = Len(streams) + 1  OBVIOUS
<1>5. PICK e : e = [msgs |-> <<UserMsg(m), Bubble(k)>>, loaded |-> TRUE, proj |-> u.focus]
  OBVIOUS
<1> DEFINE r == [conv |-> c, msg |-> m, by |-> "message", served |-> FALSE,
                 state |-> "open", turn |-> 0, n |-> 0, heard |-> FALSE]
<1>6. /\ list' = [d \in DOMAIN list \cup {c} |-> IF d # c THEN list[d] ELSE e]
      /\ loads' = LoadsAfter(list', c, loads)
      /\ streams' = Append(Aborted(streams), r) /\ held' = Len(streams')
      /\ c \notin harmed' => ~ Loading(c) /\ ~ (c \in DOMAIN list /\ list[c].msgs # <<>>)
      /\ harmed \cup Loss \subseteq harmed'
  BY <1>1, <1>2, <1>3, <1>4, <1>5
<1>7. /\ c \in made /\ c \in Convs /\ m \in Nat /\ u.focus \in Projects \cup {None}
  BY <1>1, <1>2, <1>3, CreateFields DEF IInv, ServerFits
<1>8. r \in Posted /\ r.state = "open" /\ r.conv = c /\ r.msg = m  BY <1>7 DEF Posted, Means
<1> HIDE DEF r
<1>9. <<UserMsg(m), Bubble(k)>> \in Seq(Bubbles)
  <2>1. k \in Nat  BY <1>4, HeldFacts
  <2> QED  BY <1>7, <2>1, SaidFits
<1>10. PICK b : b = <<UserMsg(m), Bubble(k)>>  OBVIOUS
<1>11. e \in EntryRecords /\ e.msgs = b /\ e.loaded
  <2>1. e = [msgs |-> b, loaded |-> TRUE, proj |-> u.focus] /\ b \in Seq(Bubbles)
    BY <1>5, <1>9, <1>10
  <2> QED  BY <1>7, <2>1 DEF EntryRecords
<1>12. PICK ms : ms = <<>>  OBVIOUS
<1>13. ms \in Seq(Bubbles) /\ Got(ms) = <<>> /\ Len(ms) = 0  BY <1>12, GotEmpty
<1>14. /\ c \in DOMAIN list' /\ list'[c] = e
       /\ \A d : d # c => (d \in DOMAIN list' <=> d \in DOMAIN list)
                          /\ (d \in DOMAIN list => list'[d] = list[d])
       /\ list' = [d \in DOMAIN list' |-> list'[d]]
  BY <1>6
<1>15. m <= acts' /\ acts' = acts  BY <1>1, <1>3 DEF ShownInv, IdsFit, DraftIdsFit
<1>16. log'[c] = log[c]  BY <1>1
<1>17. /\ FitsFor(list[c], c)'
       /\ list'[c].msgs # <<>> /\ Last(list'[c].msgs) = Bubble(held')
       /\ Got(list'[c].msgs) = Append(Got(ms), <<r.msg, 0>>)
  <2>1. e.msgs = ms \o <<UserMsg(r.msg), Bubble(Len(streams) + 1)>>
    <3>1. ms \o b = b  BY <1>9, <1>10, <1>12, ConcatEmptySeq
    <3>2. b = <<UserMsg(r.msg), Bubble(Len(streams) + 1)>>  BY <1>4, <1>8, <1>10
    <3> QED  BY <1>11, <3>1, <3>2
  <2>2. /\ Range(Got(ms)) = {} /\ IsInjective(Got(ms))
        /\ \A i \in DOMAIN ms : ms[i].key <= Len(streams)
    <3>1. DOMAIN Got(ms) = {} /\ DOMAIN ms = {}  BY <1>12, <1>13
    <3> QED  BY <3>1 DEF Range, IsInjective
  <2>3. /\ e = list'[c] /\ c = r.conv /\ r.msg <= acts'
        /\ streams' = Append(Aborted(streams), r) /\ held' = Len(streams')
        /\ \A x \in Range(Got(ms)) :
             /\ x[1] <= acts' /\ x # <<r.msg, 0>>
             /\ x[2] # 0 => \E j \in DOMAIN log[c] : log[c][j].id = x[1]
    BY <1>6, <1>8, <1>14, <1>15, <2>2
  <2> QED  BY <1>8, <1>11, <1>13, <1>16, <2>1, <2>2, <2>3, TargetFits
<1>18. LoadsOnward
  <2>1. DOMAIN list' \subseteq Convs /\ loads \in Seq(LoadRecords)
    BY <1>6, <1>7 DEF IInv, ViewFits, ServerFits
  <2>2. loads' = LoadsAfter(list', c, loads)  BY <1>6
  <2> QED  BY <2>1, <2>2, LoadsFrom DEF LoadsOnward
<1>19. ASSUME c \in alive \ (harmed' \cup orphaned) PROVE WholeFits(c)'
  <2>1. /\ ~ Loading(c) /\ ~ (c \in DOMAIN list /\ list[c].msgs # <<>>)
        /\ c \in alive \ (harmed \cup orphaned \cup Loss)
    BY <1>6, <1>19
  <2>2. /\ \A s \in DOMAIN streams : Waits(s, c) => s = held /\ streams[s].served
        /\ Untouched(c)
    BY <1>1, <1>2, <2>1, LetGo
  <2>3. log[c] = <<>>  BY <2>1, <2>2 DEF Untouched
  <2>4. Even(ms, log[c])
    <3>1. Got(ms) = ItemsOf(log[c])  BY <1>13, <2>3, ItemsEmpty
    <3>2. ~ LiveIn(log[c])  BY <2>3 DEF LiveIn
    <3> QED  BY <3>1, <3>2 DEF Even
  <2>5. c \in DOMAIN list' /\ list'[c].loaded /\ ~ Loading(c)'
    <3>1. c \in DOMAIN list' /\ list'[c].loaded  BY <1>11, <1>14
    <3>2. loads' = loads  BY <1>6, <3>1 DEF LoadsAfter
    <3> QED  BY <2>1, <3>1, <3>2 DEF Loading
  <2>6. streams' = Append(Aborted(streams), r) /\ held' = Len(streams')  BY <1>6
  <2> QED  BY <1>8, <1>13, <1>16, <1>17, <2>2, <2>4, <2>5, <2>6, SentShows
<1>20. /\ r.msg <= acts' /\ \A t \in Unserved : streams[t].msg # r.msg
       /\ \A v \in creates' : v.id # r.msg
       /\ \A d \in Convs : \A j \in DOMAIN log[d] : log[d][j].id # r.msg
  BY <1>1, <1>3, <1>8, <1>15 DEF ShownInv, IdsFit, LogIdsFit, SentIdsFit, DraftIdsFit
<1>21. /\ r \in Posted /\ r.state = "open" /\ c = r.conv /\ c \in made
       /\ streams' = Append(Aborted(streams), r) /\ held' = Len(streams')
       /\ (acts' = acts \/ acts' = acts + 1)
       /\ harmed \cup Loss \subseteq harmed' /\ url' \in made \cup {None}
       /\ creates' \subseteq creates
  BY <1>1, <1>2, <1>6, <1>7, <1>8
<1>22. UNCHANGED <<made, alive, log, hide, orphaned>>  BY <1>1
<1> QED
  BY <1>14, <1>17, <1>18, <1>19, <1>20, <1>21, <1>22, PostShows

-----------------------------------------------------------------------------
(* What is shown is what is stored. *)

\* The page opens, and shows nothing.
LEMMA InitShows == Init => ShownInv
<1> SUFFICES ASSUME Init PROVE ShownInv  OBVIOUS
<1>1. /\ made = Convs \ Fresh /\ alive = made
      /\ log = [c \in Convs |-> IF c \in Flying THEN <<NewTurn(0)>> ELSE <<>>]
      /\ url \in {None} \cup made /\ list = <<>> /\ loads = <<>> /\ creates = {}
      /\ hide = NoHide /\ streams = <<>> /\ held = 0 /\ acts = 0
  BY DEF Init
<1>2. /\ DOMAIN list = {} /\ DOMAIN loads = {} /\ DOMAIN streams = {} /\ Unserved = {}
  BY <1>1 DEF Unserved
<1>3. EntryListsFit
  <2>1. list = [c \in DOMAIN list |-> list[c]]  BY <1>1
  <2>2. EntriesFit(list)  BY <1>2, <2>1 DEF EntriesFit
  <2> QED  BY <1>1, <2>2 DEF EntryListsFit, Remembers
<1>4. IdsFit
  <2>1. \A c \in Convs : \A j \in DOMAIN log[c] :
          j = 1 /\ log[c][j].id = 0 /\ log[c][j].out = 0
    <3>1. SUFFICES ASSUME NEW c \in Convs, NEW j \in DOMAIN log[c]
                   PROVE  j = 1 /\ log[c][j].id = 0 /\ log[c][j].out = 0
      OBVIOUS
    <3> DEFINE t == NewTurn(0)
    <3>2. t.id = 0 /\ t.out = 0  BY DEF NewTurn
    <3>3. log[c] = <<t>> \/ log[c] = <<>>  BY <1>1
    <3> HIDE DEF t
    <3>4. log[c] = <<t>>  BY <3>1, <3>3
    <3>5. j = 1 /\ log[c][1] = t  BY <3>1, <3>4
    <3> QED  BY <3>2, <3>5
  <2>2. 0 <= acts /\ 0 <= MaxRounds  BY <1>1, ChatViewAssumption
  <2>3. LogIdsFit  BY <1>1, <1>2, <2>1, <2>2 DEF LogIdsFit
  <2> QED  BY <1>1, <1>2, <2>3 DEF IdsFit, SentIdsFit, DraftIdsFit
<1>5. RowsFit  BY <1>2 DEF RowsFit
<1>6. MadeFits
  <2>1. \A c \in Convs \ made : c \notin Flying  BY <1>1, ChatViewAssumption
  <2>2. \A c \in Convs \ made : log[c] = <<>>  BY <1>1, <2>1
  <2> QED  BY <1>1, <1>2, <2>2 DEF MadeFits
<1>7. ShownFits
  <2>1. \A c : ~ Holds(c)  BY <1>1 DEF Holds
  <2> QED  BY <1>1, <1>2, <2>1 DEF ShownFits, WholeFits
<1> QED  BY <1>3, <1>4, <1>5, <1>6, <1>7 DEF ShownInv

\* Whatever the user, the server and the streams do next.
LEMMA NextShows ==
  ASSUME IInv, IInv', ShownInv, [Next]_vars
  PROVE  ShownInv'
<1>1. CASE UNCHANGED vars  BY <1>1, StutterShows
<1>2. CASE ListRead \/ ListArrives \/ ListFails \/ Visit
  BY <1>2, ListReadShows, ListArrivesShows, ListFailsShows, VisitShows
<1>3. CASE Load
  BY <1>3, LoadReadShows, LoadCheckedShows, LoadFailsShows, LoadArrivesShows DEF Load
<1>4. CASE Send \/ Edit \/ SendDraft
  BY <1>4, SendShows, EditShows, SendDraftShows
<1>5. CASE CreateServed \/ CreateFails \/ CreateArrives
  BY <1>5, CreateServedShows, CreateFailsShows, CreateArrivesShows
<1>6. CASE Stream \/ Stop
  BY <1>6, AdmitShows, RefuseShows, ReceiveShows, BreakShows, ResubmitShows, StopShows
     DEF Stream
<1>7. CASE Produce \/ EndTurn
  BY <1>7, ProduceShows, EndTurnShows
<1>8. CASE \/ DeleteActive \/ ArchiveProject \/ HideServed \/ HideFails \/ DeleteArrives
           \/ ProjectArrives
  BY <1>8, DeleteActiveShows, ArchiveProjectShows, HideServedShows, HideFailsShows,
     DeleteArrivesShows, ProjectArrivesShows
<1> QED  BY <1>1, <1>2, <1>3, <1>4, <1>5, <1>6, <1>7, <1>8 DEF Next

\* So the invariant says.
LEMMA ShownFollows ==
  ASSUME IInv, ShownInv
  PROVE  ShownIsStored
<1> SUFFICES ASSUME NEW c \in DOMAIN list \ orphaned
             PROVE  /\ IsInjective(Shown(c))
                    /\ /\ c \in alive /\ list[c].loaded /\ ~ Live(c) /\ ~ Loading(c)
                       /\ c \notin harmed
                       /\ \A s \in Running : streams[s].conv = c =>
                            streams[s].served /\ Behind(c, streams[s].turn, streams[s].n) = {}
                       => Shown(c) = Stored(c)
  BY DEF ShownIsStored
<1>1. Shown(c) = Got(list[c].msgs) /\ Stored(c) = ItemsOf(log[c])
  BY DEF Shown, Got, Stored, ItemsOf
<1>2. IsInjective(Shown(c))  BY <1>1, EntryKnown
<1>3. ASSUME c \in alive, list[c].loaded, ~ Live(c), c \notin harmed,
             \A s \in Running : streams[s].conv = c =>
               streams[s].served /\ Behind(c, streams[s].turn, streams[s].n) = {}
      PROVE  Shown(c) = Stored(c)
  <2>1. WholeFits(c)  BY <1>3 DEF ShownInv, ShownFits
  <2>2. Holds(c) => /\ streams[held].served /\ ~ Live(c)
                    /\ Behind(c, streams[held].turn, streams[held].n) = {}
    <3>1. held # 0 => held \in Running  BY DEF IInv, HoldFits
    <3> QED  BY <1>3, <3>1 DEF Holds
  <2>3. Even(list[c].msgs, log[c])  BY <1>3, <2>1, <2>2, AllShown
  <2> QED  BY <1>1, <2>3 DEF Even
<1> QED  BY <1>2, <1>3

\* Both invariants hold in every state of the tab: what the entries of the list, the
\* streams and the requests know of the turns fits what is stored.
THEOREM ShownInvariance == Spec => [](IInv /\ ShownInv)
<1>1. Init => IInv /\ ShownInv  BY InitInvariant, InitShows
<1>2. IInv /\ ShownInv /\ [Next]_vars => (IInv /\ ShownInv)'
  <2>1. SUFFICES ASSUME IInv, ShownInv, [Next]_vars PROVE IInv' /\ ShownInv'  OBVIOUS
  <2>2. IInv'  BY <2>1, NextInvariant
  <2> QED  BY <2>1, <2>2, NextShows
<1> QED  BY <1>1, <1>2, PTL DEF Spec

\* Unless a stream was let go of while it ran, nothing is shown twice, and a conversation
\* at rest shows each message and round stored of it in its place, unless one of the
\* races ShownIsStored names has damaged it (ensureLoaded, sendMessage, patchMessage).
THEOREM ShownIsSafe == Spec => []ShownIsStored
<1>1. IInv /\ ShownInv => ShownIsStored  BY ShownFollows
<1> QED  BY <1>1, ShownInvariance, PTL
=============================================================================
