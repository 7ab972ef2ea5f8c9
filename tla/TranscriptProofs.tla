-------------------------- MODULE TranscriptProofs --------------------------
(***************************************************************************)
(* Proofs about Transcript, for every bound.                                *)
(***************************************************************************)
EXTENDS Transcript, SequenceTheorems, WellFoundedInduction, TLAPS

(* Sequences and sets of numbers. *)

\* A set of numbers has a least one.
LEMMA LeastNumber ==
  ASSUME NEW T, T \subseteq Nat, T # {}
  PROVE  \E x \in T : \A y \in T : x <= y
<1> DEFINE R == OpToRel(<, Nat)
<1>1. IsWellFoundedOn(R, Nat)  BY NatLessThanWellFounded
<1>2. \A x, y \in Nat : <<y, x>> \notin R => x <= y
  BY DEF OpToRel
<1>3. \E x \in T : \A y \in T : ~ (<<y, x>> \in R)
  <2> HIDE DEF R
  <2> QED  BY <1>1, WFMin
<1> QED  BY <1>2, <1>3

\* One element more.
LEMMA AppendFits ==
  ASSUME NEW S, NEW s \in Seq(S), NEW e \in S
  PROVE  /\ Append(s, e) \in Seq(S) /\ Len(Append(s, e)) = Len(s) + 1
         /\ Append(s, e)[Len(s) + 1] = e /\ \A i \in 1 .. Len(s) : Append(s, e)[i] = s[i]
OBVIOUS

\* A set of numbers that holds 0 and each one's successor holds all.
LEMMA SetInduction ==
  ASSUME NEW T, 0 \in T, \A k \in Nat : k \in T => k + 1 \in T
  PROVE  Nat \subseteq T
<1> DEFINE B == Nat \ T
<1>1. SUFFICES ASSUME B # {} PROVE FALSE  OBVIOUS
<1>2. PICK j \in B : \A y \in B : j <= y
  <2>1. B \subseteq Nat  OBVIOUS
  <2> HIDE DEF B
  <2> QED  BY <1>1, <2>1, LeastNumber
<1>3. j # 0 /\ j \in Nat  OBVIOUS
<1>4. j - 1 \in Nat /\ ~ (j <= j - 1) /\ (j - 1) + 1 = j  BY <1>3
<1> QED  BY <1>2, <1>4

\* f is FlattenSeq's function on the first n sequences of ss.
IsFlat(f, ss, n) == f = [i \in 1 .. n |-> IF i = 1 THEN ss[i] ELSE f[i - 1] \o ss[i]]

\* Its values.
LEMMA FlatStep ==
  ASSUME NEW f, NEW ss, NEW n, IsFlat(f, ss, n)
  PROVE  \A i \in 1 .. n : f[i] = IF i = 1 THEN ss[i] ELSE f[i - 1] \o ss[i]
<1> DEFINE g == [i \in 1 .. n |-> IF i = 1 THEN ss[i] ELSE f[i - 1] \o ss[i]]
<1>1. f = g  BY DEF IsFlat
<1>2. \A i \in 1 .. n : g[i] = IF i = 1 THEN ss[i] ELSE f[i - 1] \o ss[i]  OBVIOUS
<1> HIDE DEF g
<1> QED  BY <1>1, <1>2

\* There is one.
LEMMA FlatExists ==
  ASSUME NEW ss, NEW n \in Nat
  PROVE  \E f : IsFlat(f, ss, n)
<1> DEFINE T == {k \in Nat : \E f : IsFlat(f, ss, k)}
<1>1. 0 \in T
  <2>1. \A f : [i \in 1 .. 0 |-> IF i = 1 THEN ss[i] ELSE f[i - 1] \o ss[i]] = <<>>  OBVIOUS
  <2>2. IsFlat(<<>>, ss, 0)  BY <2>1 DEF IsFlat
  <2> QED  BY <2>2
<1>2. ASSUME NEW k \in Nat, k \in T PROVE k + 1 \in T
  <2>1. PICK f : IsFlat(f, ss, k)  BY <1>2
  <2> DEFINE g == [i \in 1 .. k + 1 |->
                     IF i = k + 1 THEN IF i = 1 THEN ss[i] ELSE f[i - 1] \o ss[i] ELSE f[i]]
  <2>2. ASSUME NEW i \in 1 .. k + 1
        PROVE  g[i] = IF i = 1 THEN ss[i] ELSE g[i - 1] \o ss[i]
    <3>1. CASE i = k + 1
      <4>1. i # 1 => i - 1 \in 1 .. k + 1 /\ i - 1 # k + 1  BY <3>1
      <4> QED  BY <3>1, <4>1
    <3>2. CASE i # k + 1
      <4>1. i \in 1 .. k /\ (i # 1 => i - 1 \in 1 .. k)  BY <3>2
      <4>2. f[i] = IF i = 1 THEN ss[i] ELSE f[i - 1] \o ss[i]  BY <2>1, <4>1, FlatStep
      <4> QED  BY <3>2, <4>1, <4>2
    <3> QED  BY <3>1, <3>2
  <2>3. IsFlat(g, ss, k + 1)
    <3>1. g = [i \in 1 .. k + 1 |-> g[i]]  OBVIOUS
    <3> HIDE DEF g
    <3> QED  BY <2>2, <3>1 DEF IsFlat
  <2> QED  BY <2>3
<1>3. Nat \subseteq T
  <2> HIDE DEF T
  <2> QED  BY <1>1, <1>2, SetInduction
<1> QED  BY <1>3

\* Two that are made of sequences that begin alike do.
LEMMA FlatAgrees ==
  ASSUME NEW f, NEW g, NEW ss, NEW tt, NEW n \in Nat, NEW m \in Nat,
         IsFlat(f, ss, n), IsFlat(g, tt, m), n <= m, \A i \in 1 .. n : ss[i] = tt[i]
  PROVE  \A i \in 1 .. n : f[i] = g[i]
<1> DEFINE T == {i \in Nat : i \in 1 .. n => f[i] = g[i]}
<1>1. 0 \in T  OBVIOUS
<1>2. ASSUME NEW i \in Nat, i \in T PROVE i + 1 \in T
  <2>1. SUFFICES ASSUME i + 1 \in 1 .. n PROVE f[i + 1] = g[i + 1]  OBVIOUS
  <2>2. i + 1 \in 1 .. n /\ i + 1 \in 1 .. m /\ ss[i + 1] = tt[i + 1] /\ (i + 1) - 1 = i
    BY <2>1
  <2>3. /\ f[i + 1] = IF i + 1 = 1 THEN ss[i + 1] ELSE f[i] \o ss[i + 1]
        /\ g[i + 1] = IF i + 1 = 1 THEN tt[i + 1] ELSE g[i] \o tt[i + 1]
    <3>1. f[i + 1] = IF i + 1 = 1 THEN ss[i + 1] ELSE f[(i + 1) - 1] \o ss[i + 1]
      BY <2>2, FlatStep
    <3>2. g[i + 1] = IF i + 1 = 1 THEN tt[i + 1] ELSE g[(i + 1) - 1] \o tt[i + 1]
      BY <2>2, FlatStep
    <3> QED  BY <2>2, <3>1, <3>2
  <2>4. i + 1 # 1 => f[i] = g[i]  BY <1>2, <2>1
  <2> QED  BY <2>2, <2>3, <2>4
<1>3. Nat \subseteq T
  <2> HIDE DEF T
  <2> QED  BY <1>1, <1>2, SetInduction
<1> QED  BY <1>3

\* FlattenSeq's value is that function's last.
LEMMA FlattenValue ==
  ASSUME NEW S, NEW ss \in Seq(S), Len(ss) # 0
  PROVE  \E f : IsFlat(f, ss, Len(ss)) /\ FlattenSeq(ss) = f[Len(ss)]
<1> DEFINE f == CHOOSE f : IsFlat(f, ss, Len(ss))
<1>1. IsFlat(f, ss, Len(ss))
  <2>1. Len(ss) \in Nat  OBVIOUS
  <2> QED  BY <2>1, FlatExists
<1>2. FlattenSeq(ss) = f[Len(ss)]  BY DEF FlattenSeq, IsFlat
<1> QED  BY <1>1, <1>2

\* One sequence more.
LEMMA FlattenAppend ==
  ASSUME NEW T, NEW ss \in Seq(Seq(T)), NEW s \in Seq(T)
  PROVE  FlattenSeq(Append(ss, s)) = FlattenSeq(ss) \o s
<1> DEFINE n == Len(ss)
           tt == Append(ss, s)
<1>1. /\ n \in Nat /\ tt \in Seq(Seq(T)) /\ Len(tt) = n + 1 /\ tt[n + 1] = s
      /\ \A i \in 1 .. n : tt[i] = ss[i]
  BY AppendFits
<1> HIDE DEF tt
<1>2. PICK g : IsFlat(g, tt, n + 1) /\ FlattenSeq(tt) = g[n + 1]
  BY <1>1, FlattenValue
<1>3. FlattenSeq(tt) = IF n + 1 = 1 THEN s ELSE g[n] \o s
  <2>1. n + 1 \in 1 .. n + 1 /\ (n + 1) - 1 = n  BY <1>1
  <2>2. g[n + 1] = IF n + 1 = 1 THEN tt[n + 1] ELSE g[(n + 1) - 1] \o tt[n + 1]
    BY <1>2, <2>1, FlatStep
  <2> QED  BY <1>1, <1>2, <2>1, <2>2
<1>4. CASE n = 0
  <2>1. ss = <<>> /\ FlattenSeq(ss) = ss  BY <1>4 DEF FlattenSeq
  <2>2. FlattenSeq(tt) = s  BY <1>3, <1>4
  <2>3. <<>> \o s = s  BY ConcatEmptySeq
  <2> QED  BY <2>1, <2>2, <2>3 DEF tt
<1>5. CASE n # 0
  <2>1. PICK f : IsFlat(f, ss, n) /\ FlattenSeq(ss) = f[n]  BY <1>5, FlattenValue
  <2>2. \A i \in 1 .. n : ss[i] = tt[i]  BY <1>1
  <2>3. n \in 1 .. n /\ n + 1 # 1 /\ n <= n + 1 /\ n <= n /\ n + 1 \in Nat  BY <1>1, <1>5
  <2>4. \A i \in 1 .. n : f[i] = g[i]
    <3> DEFINE m == n + 1
    <3>1. /\ IsFlat(f, ss, n) /\ IsFlat(g, tt, m) /\ n <= m /\ n \in Nat /\ m \in Nat
          /\ \A i \in 1 .. n : ss[i] = tt[i]
      BY <1>1, <1>2, <2>1, <2>2, <2>3
    <3> HIDE DEF m, n
    <3> QED  BY ZenonT(40), <3>1, FlatAgrees
  <2> QED  BY <1>3, <2>1, <2>3, <2>4 DEF tt
<1> QED  BY <1>4, <1>5

\* Nothing to flatten, and the type of what is.
LEMMA FlattenFits ==
  ASSUME NEW T
  PROVE  FlattenSeq(<<>>) = <<>> /\ \A ss \in Seq(Seq(T)) : FlattenSeq(ss) \in Seq(T)
<1>1. FlattenSeq(<<>>) = <<>>  BY DEF FlattenSeq
<1> DEFINE N == {n \in Nat : \A ss \in Seq(Seq(T)) : Len(ss) = n => FlattenSeq(ss) \in Seq(T)}
<1>2. 0 \in N
  <2>1. \A ss \in Seq(Seq(T)) : Len(ss) = 0 => ss = <<>>  OBVIOUS
  <2>2. <<>> \in Seq(T)  OBVIOUS
  <2> QED  BY <1>1, <2>1, <2>2
<1>3. ASSUME NEW n \in Nat, n \in N PROVE n + 1 \in N
  <2>1. SUFFICES ASSUME NEW ss \in Seq(Seq(T)), Len(ss) = n + 1
                 PROVE  FlattenSeq(ss) \in Seq(T)
    BY <1>3
  <2>2. ss # <<>>  BY <2>1
  <2>3. PICK tt \in Seq(Seq(T)), t \in Seq(T) : ss = Append(tt, t)
    BY <2>2, SequenceEmptyOrAppend
  <2>4. Len(tt) = n
    <3>1. Len(Append(tt, t)) = Len(tt) + 1 /\ Len(tt) \in Nat  BY AppendFits
    <3> QED  BY <2>1, <2>3, <3>1
  <2>5. FlattenSeq(tt) \in Seq(T)  BY <1>3, <2>4
  <2>6. FlattenSeq(ss) = FlattenSeq(tt) \o t  BY <2>3, FlattenAppend
  <2> QED  BY <2>5, <2>6, ConcatProperties
<1>4. Nat \subseteq N
  <2> HIDE DEF N
  <2> QED  BY <1>2, <1>3, SetInduction
<1>5. ASSUME NEW ss \in Seq(Seq(T)) PROVE FlattenSeq(ss) \in Seq(T)
  <2>1. Len(ss) \in Nat  OBVIOUS
  <2> QED  BY <1>4, <2>1
<1> QED  BY <1>1, <1>5

\* Two elements.
LEMMA Pair ==
  ASSUME NEW S, NEW x \in S, NEW y \in S, NEW s \in Seq(S)
  PROVE  <<x>> \o <<y>> = <<x, y>> /\ s \o <<x, y>> = Append(Append(s, x), y)
<1>1. <<x>> \in Seq(S) /\ Append(<<x>>, y) = <<x, y>>
  <2>1. <<x>> \in Seq(S) /\ Len(<<x>>) = 1 /\ <<x>>[1] = x  OBVIOUS
  <2>2. <<x, y>> \in Seq(S) /\ Len(<<x, y>>) = 2 /\ <<x, y>>[1] = x /\ <<x, y>>[2] = y
    OBVIOUS
  <2> DEFINE p == <<x, y>>
             q == <<x>>
  <2>3. Append(q, y) \in Seq(S) /\ Len(Append(q, y)) = 2 /\ Append(q, y)[1] = x
        /\ Append(q, y)[2] = y
    <3> HIDE DEF q
    <3> QED  BY <2>1, AppendFits DEF q
  <2>4. \A i \in 1 .. 2 : Append(q, y)[i] = p[i]
    <3> HIDE DEF p, q
    <3>1. p[1] = x /\ p[2] = y  BY <2>2 DEF p
    <3>2. \A i \in 1 .. 2 : i = 1 \/ i = 2  OBVIOUS
    <3> QED  BY <2>3, <3>1, <3>2
  <2> HIDE DEF p, q
  <2>5. p \in Seq(S) /\ Len(p) = 2  BY <2>2 DEF p
  <2>6. Append(q, y) = p  BY <2>3, <2>4, <2>5, SeqEqual
  <2> QED  BY <2>1, <2>6 DEF p, q
<1>2. <<x>> \o <<y>> = <<x, y>>  BY <1>1, AppendIsConcat
<1>3. s \o <<x>> = Append(s, x) /\ Append(s, x) \in Seq(S)  BY AppendIsConcat, AppendFits
<1>4. (s \o <<x>>) \o <<y>> = s \o (<<x>> \o <<y>>)
  <2>1. <<y>> \in Seq(S)  OBVIOUS
  <2> QED  BY <1>1, <2>1, ConcatAssociative
<1>5. (s \o <<x>>) \o <<y>> = Append(Append(s, x), y)  BY <1>3, AppendIsConcat
<1> QED  BY <1>2, <1>4, <1>5

\* Three sequences in a row.
LEMMA Three ==
  ASSUME NEW S, NEW s \in Seq(S), NEW t \in Seq(S), NEW u \in Seq(S)
  PROVE  (s \o t) \o u = s \o (t \o u)
BY SMTT(40), ConcatAssociative

\* Two in a row.
LEMMA ConcatFits ==
  ASSUME NEW S, NEW s \in Seq(S), NEW t \in Seq(S)
  PROVE  /\ s \o t \in Seq(S) /\ Len(s \o t) = Len(s) + Len(t)
         /\ \A i \in 1 .. Len(s) : (s \o t)[i] = s[i]
         /\ \A i \in 1 .. Len(t) : (s \o t)[Len(s) + i] = t[i]
BY ConcatProperties

Text     == Seq(Chars)
Calls    == [id : Nat, tool : {"bash", "ask", "other"}]
Plain    == Chars \ {">"}
CallSeqs == Seq(Calls)
TextEvents == [kind : {"text", "reason"}, text : Text]
ToolEvents ==
  [kind : {"tool"}, call : Calls, status : {"pending", "done", "error"}, stub : BOOLEAN]
Events   == TextEvents \cup ToolEvents
Messages == [role : {"user", "assistant"}, events : Seq(Events)]
UserRows == [role : {"user"}]
TextRows == [role : {"assistant"}, text : Text, calls : CallSeqs]
CallRows == [role : {"tool"}, call : Calls]
Rows     == UserRows \cup TextRows \cup CallRows
Splits   == [pending : Text, inThink : BOOLEAN]

\* The agent, and the browser, as their variables may be.
AgentFits ==
  /\ draft \in Text /\ unsent \in Text /\ inside \in BOOLEAN /\ rows \in Seq(Rows)
  /\ calls \in CallSeqs /\ announced \in Nat /\ finished \in Nat /\ ids \in Nat
  /\ pc \in {"idle", "text", "calls", "ended"}
  /\ finished <= announced /\ announced <= Len(calls)
  /\ pc # "text" => draft = <<>> /\ unsent = <<>> /\ inside = FALSE
  /\ pc # "calls" => calls = <<>>
BrowserFits ==
  /\ msgs \in Seq(Messages) /\ split \in Splits /\ terminal \in Seq(Nat)
  /\ stream \in {"none", "sent", "resumed"}
  /\ stream # "none" => msgs # <<>> /\ Last(msgs).role = "assistant"
  /\ stream = "none" => split = NoSplit

\* A call that is shown as running is loaded from before its result, or the stream will
\* tell of it; each call of a row has its result, or is yet to be made.
Spins(e) == e.kind = "tool" /\ e.status = "pending"
SpinsShown ==
  \A i \in DOMAIN msgs : \A n \in DOMAIN msgs[i].events :
    LET e == msgs[i].events[n]
    IN  Spins(e) => e.call.id \in early \/ (i = Len(msgs) /\ stream # "none")
Awaited(c) == \E j \in finished + 1 .. Len(calls) : calls[j] = c
CallsSettle ==
  \A i \in DOMAIN rows : rows[i].role = "assistant" =>
    \A n \in DOMAIN rows[i].calls :
      LET c == rows[i].calls[n]
      IN  ResultStored(c) \/ Awaited(c)

PageInv == AgentFits /\ BrowserFits /\ SpinsShown /\ CallsSettle

\* s, when k is what is said inside a tag or, without b, outside; everything a text
\* says, begun inside a tag or not, with what is kept pending.
On(b, k, s) == IF b = (k = "reason") THEN s ELSE <<>>
Part(x, k)  == IF k = "reason" THEN x.reason ELSE x.text
Held(z, k)  == On(z.inThink, k, z.pending)
Whole(s, b, k) == LET x == SplitRest[s][b] IN Part(x, k) \o Held(x.next, k)
Final(s, b) == SplitRest[s][b].next.inThink
Of(k)       == IF k = "reason" THEN meant.reason ELSE meant.text
Kinds       == {"text", "reason"}

\* What events and rows say.
WordsOf(es, k) ==
  FlattenSeq([n \in DOMAIN es |-> IF es[n].kind = k THEN es[n].text ELSE <<>>])
RowWords(r, k)   == IF r.role = "assistant" THEN WordsOf(SplitContent[r.text], k) ELSE <<>>
RowsWords(rs, k) == FlattenSeq([i \in DOMAIN rs |-> RowWords(rs[i], k)])

Undelivered == split.pending \o unsent
MeantFits   == meant \in [text : Seq(Plain), reason : Seq(Plain)]
TurnShown   == ~ stopped /\ stream = "none" => pc \in {"idle", "ended"}
DraftTells  ==
  /\ Final(draft, FALSE) = inside
  /\ ~ unclosed => \A k \in Kinds : RowsWords(rows, k) \o Whole(draft, FALSE, k) = Of(k)
BubbleTells ==
  ~ (stopped \/ cut \/ unclosed) =>
    /\ Final(Undelivered, split.inThink) = inside
    /\ \A k \in Kinds : Said(msgs, k) \o Whole(Undelivered, split.inThink, k) = Of(k)
TextFits ==
  /\ MeantFits /\ split.pending \in Seq(Plain) /\ TurnShown
  /\ DraftTells /\ BubbleTells

\* The calls a bubble shows, and those of a list; 0 is a message of the user.
IdOf(c, b)     == IF (c.tool = "bash") = b THEN <<c.id>> ELSE <<>>
IdsOf(cs, b)   == FlattenSeq([i \in DOMAIN cs |-> IdOf(cs[i], b)])
AskOf(c)       == IF c.tool = "ask" THEN <<c.id>> ELSE <<>>
AsksOf(cs)     == FlattenSeq([i \in DOMAIN cs |-> AskOf(cs[i])])
RowIds(r, b)   == IF r.role = "assistant" THEN IdsOf(r.calls, b) ELSE <<>>
RowsIds(rs, b) == FlattenSeq([i \in DOMAIN rs |-> RowIds(rs[i], b)])
RowAsks(r) ==
  IF r.role = "assistant" THEN AsksOf(r.calls) ELSE IF r.role = "user" THEN <<0>> ELSE <<>>
RowsAsks(rs)   == FlattenSeq([i \in DOMAIN rs |-> RowAsks(rs[i])])
AskedIn(es)      ==
  FlattenSeq([n \in DOMAIN es |-> IF es[n].kind = "tool" THEN AskOf(es[n].call) ELSE <<>>])
Trail(ms) ==
  FlattenSeq([i \in DOMAIN ms |-> IF ms[i].role = "user" THEN <<0>> ELSE AskedIn(ms[i].events)])
Upcoming  == SubSeq(calls, announced + 1, Len(calls))

\* Calls are numbered as they are made, and the terminal has none that is yet to come.
NumbersFit ==
  /\ early \subseteq 1 .. ids
  /\ Len(calls) <= ids /\ \A j \in DOMAIN calls : calls[j].id = ids - Len(calls) + j
  /\ RowsIds(rows, TRUE) \in Seq(1 .. ids) /\ terminal \in Seq(1 .. ids)
  /\ ~ Resumed => \A n \in DOMAIN terminal : terminal[n] <= ids - Len(calls) + announced

\* A running call that is yet to end is in the bubble; only a command's result is shown
\* without its call.
HasCall(es, i) == \E n \in DOMAIN es : es[n].kind = "tool" /\ es[n].call.id = i
BubbleHas ==
  \A j \in finished + 1 .. announced : calls[j].tool # "bash" => HasCall(Bubble, calls[j].id)
Stubs(ms) ==
  \A i \in DOMAIN ms : \A n \in DOMAIN ms[i].events :
    LET e == ms[i].events[n]
    IN  e.kind = "tool" /\ e.stub => e.call.tool = "bash"
UsersAsk(ms) == \A i \in DOMAIN ms : ms[i].role = "user" => ms[i].events = <<>>
TerminalFits ==
  ~ stopped =>
    terminal \o (IF Resumed THEN <<>> ELSE IdsOf(Upcoming, TRUE)) = RowsIds(rows, TRUE)
CallsFit ==
  ~ stopped /\ early = {} =>
    /\ CallIds(msgs) \o IdsOf(Upcoming, FALSE) = RowsIds(rows, FALSE)
    /\ Trail(msgs) \o AsksOf(Upcoming) = RowsAsks(rows)
    /\ BubbleHas /\ Stubs(msgs)
CallsInv == UsersAsk(msgs) /\ NumbersFit /\ TerminalFits /\ CallsFit

-----------------------------------------------------------------------------
(* Tags in texts. *)

\* Membership of a sequence.
LEMMA ContainsMeans == \A s, e : Contains(s, e) <=> \E i \in 1 .. Len(s) : s[i] = e
BY DEF Contains

\* The tags end in a character they hold nowhere else.
LEMMA TagFits ==
  ASSUME NEW b \in BOOLEAN
  PROVE  /\ Tag(b) \in Text /\ Len(Tag(b)) \in {2, 3} /\ Tag(b)[Len(Tag(b))] = ">"
         /\ \A i \in 1 .. Len(Tag(b)) - 1 : Tag(b)[i] # ">"
<1>1. /\ ThinkStart \in Text /\ Len(ThinkStart) = 2 /\ ThinkStart[2] = ">"
      /\ ThinkStart[1] # ">"
  BY DEF ThinkStart, Text, Chars
<1>2. /\ ThinkEnd \in Text /\ Len(ThinkEnd) = 3 /\ ThinkEnd[3] = ">"
      /\ ThinkEnd[1] # ">" /\ ThinkEnd[2] # ">"
  BY DEF ThinkEnd, Text, Chars
<1>3. CASE b
  <2>1. Tag(b) = ThinkEnd  BY <1>3 DEF Tag
  <2>2. \A i \in 1 .. 3 - 1 : i = 1 \/ i = 2  OBVIOUS
  <2> QED  BY <1>2, <2>1, <2>2
<1>4. CASE ~ b
  <2>1. Tag(b) = ThinkStart  BY <1>4 DEF Tag
  <2>2. \A i \in 1 .. 2 - 1 : i = 1  OBVIOUS
  <2> QED  BY <1>1, <2>1, <2>2
<1> QED  BY <1>3, <1>4

\* The tag t begins at place i of s.
Occurs(s, t, i) ==
  /\ i \in 1 .. Len(s) /\ i + Len(t) <= Len(s) + 1
  /\ \A k \in 1 .. Len(t) : s[i + k - 1] = t[k]

\* That is what At says.
LEMMA AtIs ==
  ASSUME NEW s \in Text, NEW t \in Text, NEW i \in 1 .. Len(s), t # <<>>
  PROVE  At(s, t, i) <=> Occurs(s, t, i)
<1>1. Len(s) \in Nat /\ Len(t) \in Nat /\ Len(t) >= 1  BY DEF Text
<1>2. CASE i + Len(t) <= Len(s) + 1
  <2> DEFINE m == i + Len(t) - 1
             u == SubSeq(s, i, m)
  <2>1. m \in Int /\ i \in Int /\ i <= m /\ m <= Len(s) /\ m - i + 1 = Len(t)  BY <1>1, <1>2
  <2>2. \A j \in i .. m : s[j] \in Chars
    <3>1. \A j \in i .. m : j \in 1 .. Len(s)  BY <1>1, <2>1
    <3>2. \A j \in 1 .. Len(s) : s[j] \in Chars  BY DEF Text
    <3> QED  BY <3>1, <3>2
  <2>3. u \in Seq(Chars) /\ Len(u) = Len(t) /\ \A k \in 1 .. Len(t) : u[k] = s[i + k - 1]
    <3> HIDE DEF m
    <3> QED  BY <2>1, <2>2, SubSeqProperties
  <2> HIDE DEF u
  <2>4. u = t <=> \A k \in 1 .. Len(t) : u[k] = t[k]
    <3>1. t \in Seq(Chars)  BY DEF Text
    <3> QED  BY <2>3, <3>1, SeqEqual
  <2> QED  BY <1>2, <2>3, <2>4 DEF At, Occurs, u
<1>3. CASE ~ (i + Len(t) <= Len(s) + 1)
  BY <1>3 DEF At, Occurs
<1> QED  BY <1>2, <1>3

\* The first tag, if there is one.
LEMMA FirstIs ==
  ASSUME NEW s \in Text, NEW b \in BOOLEAN
  PROVE  LET t == Tag(b)
             i == First(s, t)
         IN  /\ i \in 0 .. Len(s)
             /\ i # 0 => Occurs(s, t, i)
             /\ \A j \in Nat : i = 0 \/ j < i => ~ Occurs(s, t, j)
<1> DEFINE t == Tag(b)
           found == {j \in DOMAIN s : At(s, t, j)}
<1>1. t \in Text /\ t # <<>>
  <2>1. t \in Text /\ Len(t) \in {2, 3}  BY TagFits
  <2>2. Len(<<>>) = 0  OBVIOUS
  <2> HIDE DEF t
  <2> QED  BY <2>1, <2>2
<1>2. DOMAIN s = 1 .. Len(s) /\ Len(s) \in Nat  BY DEF Text
<1>3. First(s, t) = IF found = {} THEN 0 ELSE Min(found)
  <2>1. First(s, t) = IF found = {} THEN 0 ELSE Min(found)  BY DEF First
  <2> HIDE DEF found
  <2> QED  BY <2>1
<1>4. \A j : j \in found <=> Occurs(s, t, j)
  <2> HIDE DEF t
  <2>1. ASSUME NEW j \in 1 .. Len(s) PROVE j \in found <=> Occurs(s, t, j)
    BY <1>1, <1>2, AtIs
  <2>2. \A j : Occurs(s, t, j) => j \in 1 .. Len(s)  BY DEF Occurs
  <2> QED  BY <1>2, <2>1, <2>2
<1>5. found \subseteq Nat /\ found \subseteq 1 .. Len(s)  BY <1>2
<1> HIDE DEF found, t
<1>6. CASE found = {}
  <2>1. First(s, t) = 0  BY <1>3, <1>6
  <2>2. \A j \in Nat : ~ Occurs(s, t, j)  BY <1>4, <1>6
  <2> QED  BY <1>2, <2>1, <2>2 DEF t
<1>7. CASE found # {}
  <2>1. \E x \in found : \A y \in found : x <= y  BY <1>5, <1>7, LeastNumber
  <2>2. Min(found) \in found /\ \A y \in found : Min(found) <= y  BY <2>1 DEF Min
  <2> DEFINE i == First(s, t)
  <2>3. i \in found /\ \A y \in found : i <= y  BY <1>3, <1>7, <2>2
  <2> HIDE DEF i
  <2>4. i \in 1 .. Len(s) /\ i # 0  BY <1>2, <1>5, <2>3
  <2>5. \A j \in Nat : j < i => j \notin found  BY <1>2, <2>3, <2>4
  <2> QED  BY <1>2, <1>4, <2>3, <2>4, <2>5 DEF t, i
<1> QED  BY <1>6, <1>7

\* It is the only one with no other before it.
LEMMA FirstOnly ==
  ASSUME NEW s \in Text, NEW b \in BOOLEAN
  PROVE  /\ \A i \in Nat :
                 Occurs(s, Tag(b), i) /\ (\A j \in Nat : j < i => ~ Occurs(s, Tag(b), j))
                             => First(s, Tag(b)) = i
         /\ (\A j \in Nat : ~ Occurs(s, Tag(b), j)) => First(s, Tag(b)) = 0
<1> DEFINE t == Tag(b)
           f == First(s, t)
<1>1. /\ f \in 0 .. Len(s)
      /\ f # 0 => Occurs(s, t, f)
      /\ \A j \in Nat : f = 0 \/ j < f => ~ Occurs(s, t, j)
  BY FirstIs
<1>2. \A i : Occurs(s, t, i) => i \in 1 .. Len(s)  BY DEF Occurs
<1>3. Len(s) \in Nat  BY DEF Text
<1> HIDE DEF f, t
<1>4. ASSUME NEW i \in Nat, Occurs(s, t, i), \A j \in Nat : j < i => ~ Occurs(s, t, j)
      PROVE  f = i
  <2>1. f # 0 /\ ~ (i < f)  BY <1>1, <1>4
  <2>2. f \in Nat /\ ~ (f < i)  BY <1>1, <1>3, <1>4, <2>1
  <2> QED  BY <2>1, <2>2
<1>5. (\A j \in Nat : ~ Occurs(s, t, j)) => f = 0  BY <1>1, <1>3
<1> QED  BY <1>4, <1>5 DEF f, t

\* What s may keep back: nothing, or the beginning of the tag.
LEMMA PartialIs ==
  ASSUME NEW s \in Text, NEW b \in BOOLEAN
  PROVE  LET t == Tag(b)
             p == Partial(s, t)
         IN  /\ p \in 0 .. Len(t) - 1 /\ p <= Len(s)
             /\ \A k \in 1 .. p : s[Len(s) - p + k] = t[k]
<1> DEFINE t == Tag(b)
           E == {k \in 1 .. Len(t) - 1 :
                   k <= Len(s) /\ SubSeq(s, Len(s) - k + 1, Len(s)) = SubSeq(t, 1, k)}
           D == {0} \cup E
<1>1. t \in Text /\ Len(t) \in {2, 3} /\ Len(s) \in Nat /\ Len(t) \in Nat
  BY TagFits DEF Text
<1>2. Partial(s, t) = Max(D)
  <2>1. Partial(s, t) = Max(D)  BY DEF Partial
  <2> HIDE DEF D
  <2> QED  BY <2>1
<1>3. Max(D) \in D
  <2>1. \A x \in D : x \in 0 .. 2
    <3>1. \A x \in E : x \in 1 .. Len(t) - 1  OBVIOUS
    <3>2. Len(t) - 1 \in {1, 2}  BY <1>1
    <3> HIDE DEF E, t
    <3>3. ASSUME NEW x \in E PROVE x \in 0 .. 2
      <4>1. x \in 1 .. Len(t) - 1  BY <3>1
      <4> HIDE DEF E
      <4>2. x \in 1 .. 1 \/ x \in 1 .. 2  BY <3>2, <4>1
      <4> QED  BY <4>2
    <3> QED  BY <3>3
  <2>2. 0 \in D  OBVIOUS
  <2> HIDE DEF D
  <2>3. \E x \in D : \A y \in D : x >= y
    <3>1. CASE 2 \in D  BY <2>1, <3>1
    <3>2. CASE 2 \notin D /\ 1 \in D  BY <2>1, <3>2
    <3>3. CASE 2 \notin D /\ 1 \notin D  BY <2>1, <2>2, <3>3
    <3> QED  BY <3>1, <3>2, <3>3
  <2> QED  BY <2>3 DEF Max
<1> DEFINE p == Partial(s, t)
<1>4. p = 0 \/ p \in E  BY <1>2, <1>3
<1>5. CASE p = 0
  <2>1. 0 \in 0 .. Len(t) - 1  BY <1>1
  <2> HIDE DEF p
  <2> QED  BY <1>1, <1>5, <2>1 DEF p
<1>6. CASE p \in E
  <2>1. p \in 1 .. Len(t) - 1 /\ p <= Len(s)  BY <1>6
  <2>2. SubSeq(s, Len(s) - p + 1, Len(s)) = SubSeq(t, 1, p)  BY <1>6
  <2> HIDE DEF p, t, E, D
  <2>3. ASSUME NEW k \in 1 .. p PROVE s[Len(s) - p + k] = t[k]
    <3> DEFINE m == Len(s) - p + 1
               n == Len(s)
    <3>1. /\ m \in Int /\ n \in Int /\ k \in 1 .. n - m + 1 /\ m + k - 1 = Len(s) - p + k
          /\ p \in Int /\ 1 \in Int /\ k \in 1 .. p - 1 + 1 /\ 1 + k - 1 = k
      BY <1>1, <2>1
    <3>2. \A i \in m .. n : s[i] \in Chars
      <4>1. \A i \in m .. n : i \in 1 .. Len(s)  BY <1>1, <2>1
      <4>2. \A i \in 1 .. Len(s) : s[i] \in Chars  BY DEF Text
      <4> QED  BY <4>1, <4>2
    <3>3. \A i \in 1 .. p : t[i] \in Chars
      <4>1. \A i \in 1 .. p : i \in 1 .. Len(t)  BY <1>1, <2>1
      <4>2. \A i \in 1 .. Len(t) : t[i] \in Chars  BY <1>1 DEF Text
      <4> QED  BY <4>1, <4>2
    <3> HIDE DEF m, n
    <3>4. SubSeq(s, m, n)[k] = s[m + k - 1]  BY <3>1, <3>2, SubSeqProperties
    <3>5. SubSeq(t, 1, p)[k] = t[1 + k - 1]  BY <3>1, <3>3, SubSeqProperties
    <3>6. SubSeq(s, m, n) = SubSeq(t, 1, p)  BY <2>2 DEF m, n
    <3> QED  BY <3>1, <3>4, <3>5, <3>6
  <2>4. p \in 0 .. Len(t) - 1  BY <1>1, <2>1
  <2> QED  BY <2>1, <2>3, <2>4 DEF p, t
<1> QED  BY <1>4, <1>5, <1>6

\* The characters of s from m to n; those behind a tag are fewer.
LEMMA CutFits ==
  ASSUME NEW s \in Text, NEW m \in Int, NEW n \in Int, 1 <= m, n <= Len(s)
  PROVE  /\ SubSeq(s, m, n) \in Text /\ Len(SubSeq(s, m, n)) = IF m <= n THEN n - m + 1 ELSE 0
         /\ \A i \in 1 .. n - m + 1 : SubSeq(s, m, n)[i] = s[m + i - 1]
<1>1. \A i \in m .. n : s[i] \in Chars
  <2>1. \A i \in 1 .. Len(s) : s[i] \in Chars  BY DEF Text
  <2>2. \A i \in m .. n : i \in 1 .. Len(s)  BY DEF Text
  <2> QED  BY <2>1, <2>2
<1> QED  BY <1>1, SubSeqProperties DEF Text

\* What is behind the first tag.
After(s, t) == SubSeq(s, First(s, t) + Len(t), Len(s))

\* It is a text, and shorter.
LEMMA AfterIs ==
  ASSUME NEW s \in Text, NEW b \in BOOLEAN, First(s, Tag(b)) # 0
  PROVE  /\ After(s, Tag(b)) \in Text /\ Len(After(s, Tag(b))) \in Nat
         /\ Len(After(s, Tag(b))) = Len(s) + 1 - First(s, Tag(b)) - Len(Tag(b))
         /\ Len(After(s, Tag(b))) < Len(s)
<1> DEFINE t == Tag(b)
           f == First(s, t)
<1>1. f \in 0 .. Len(s) /\ (f # 0 => Occurs(s, t, f))  BY FirstIs
<1>2. Len(t) \in {2, 3} /\ Len(s) \in Nat  BY TagFits DEF Text
<1>3. Occurs(s, t, f)  BY <1>1
<1> HIDE DEF f, t
<1>4. f + Len(t) <= Len(s) + 1 /\ f \in 1 .. Len(s)  BY <1>3 DEF Occurs
<1> DEFINE m == f + Len(t)
           n == Len(s)
<1>5. /\ m \in Int /\ n \in Int /\ 1 <= m /\ n <= Len(s) /\ m <= n + 1 /\ n \in Nat
  BY <1>2, <1>4
<1>6. n - m + 1 = Len(s) + 1 - f - Len(t) /\ n - m + 1 < Len(s)  BY SMTT(40), <1>2, <1>4
<1> HIDE DEF m, n
<1>7. SubSeq(s, m, n) \in Text /\ Len(SubSeq(s, m, n)) = IF m <= n THEN n - m + 1 ELSE 0
  BY <1>5, CutFits
<1>8. Len(SubSeq(s, m, n)) = n - m + 1 /\ n - m + 1 \in Nat  BY <1>5, <1>7
<1>9. After(s, t) = SubSeq(s, m, n)  BY DEF After, m, n, f
<1> QED  BY <1>6, <1>7, <1>8, <1>9 DEF f, t

-----------------------------------------------------------------------------
(* The splitter's recursive function. *)

\* What SplitRest makes of s, by f for what is behind the first tag.
SplitStep(f, s) ==
  [inThink \in BOOLEAN |->
     LET tag  == Tag(inThink)
         i    == First(s, tag)
         n    == IF i = 0 THEN Len(s) - Partial(s, tag) ELSE i - 1
         out  == SubSeq(s, 1, n)
         more == IF i = 0
                 THEN [text |-> <<>>, reason |-> <<>>,
                       next |-> [pending |-> SubSeq(s, n + 1, Len(s)), inThink |-> inThink]]
                 ELSE f[SubSeq(s, i + Len(tag), Len(s))][~ inThink]
     IN  [text   |-> IF inThink THEN more.text ELSE out \o more.text,
          reason |-> IF inThink THEN out \o more.reason ELSE more.reason,
          next   |-> more.next]]

\* It looks at shorter texts only.
LEMMA SplitLocal ==
  ASSUME NEW f, NEW g, NEW s \in Text, \A u \in Text : Len(u) < Len(s) => f[u] = g[u]
  PROVE  SplitStep(f, s) = SplitStep(g, s)
<1>1. ASSUME NEW b \in BOOLEAN, First(s, Tag(b)) # 0
      PROVE  f[After(s, Tag(b))] = g[After(s, Tag(b))]
  <2>1. After(s, Tag(b)) \in Text /\ Len(After(s, Tag(b))) < Len(s)  BY <1>1, AfterIs
  <2> QED  BY <2>1
<1>2. SplitStep(f, s) = [b \in BOOLEAN |-> SplitStep(f, s)[b]]
  BY DEF SplitStep
<1>3. SplitStep(g, s) = [b \in BOOLEAN |-> SplitStep(g, s)[b]]
  BY DEF SplitStep
<1>4. ASSUME NEW b \in BOOLEAN PROVE SplitStep(f, s)[b] = SplitStep(g, s)[b]
  <2>1. CASE First(s, Tag(b)) # 0
    <3>1. f[After(s, Tag(b))] = g[After(s, Tag(b))]  BY <1>1, <2>1
    <3> QED  BY <2>1, <3>1 DEF SplitStep, After
  <2>2. CASE First(s, Tag(b)) = 0
    BY <2>2 DEF SplitStep
  <2> QED  BY <2>1, <2>2
<1> QED  BY <1>2, <1>3, <1>4

\* f is as SplitRest on the texts shorter than n.
SplitsTo(f, n) ==
  f = [s \in Text |-> f[s]] /\ \A s \in Text : Len(s) < n => f[s] = SplitStep(f, s)

\* There is such a function, ...
LEMMA SplitsExist == \A n \in Nat : \E f : SplitsTo(f, n)
<1> DEFINE N == {n \in Nat : \E f : SplitsTo(f, n)}
<1>0. \A s \in Text : Len(s) \in Nat  BY DEF Text
<1>1. 0 \in N
  <2> DEFINE f == [s \in Text |-> 0]
  <2>1. f = [s \in Text |-> f[s]]  OBVIOUS
  <2>2. \A s \in Text : ~ (Len(s) < 0)  BY <1>0
  <2> HIDE DEF f
  <2>3. SplitsTo(f, 0)  BY <2>1, <2>2 DEF SplitsTo
  <2> QED  BY <2>3
<1>2. ASSUME NEW n \in Nat, n \in N PROVE n + 1 \in N
  <2>1. PICK f : SplitsTo(f, n)  BY <1>2
  <2> DEFINE g == [s \in Text |-> IF Len(s) < n THEN f[s] ELSE SplitStep(f, s)]
  <2>2. /\ g = [s \in Text |-> g[s]]
        /\ \A s \in Text : g[s] = IF Len(s) < n THEN f[s] ELSE SplitStep(f, s)
    OBVIOUS
  <2> HIDE DEF g
  <2>3. ASSUME NEW s \in Text, Len(s) < n + 1 PROVE g[s] = SplitStep(g, s)
    <3>1. Len(s) \in Nat /\ Len(s) <= n  BY <1>0, <2>3
    <3>2. \A u \in Text : Len(u) < Len(s) => g[u] = f[u]  BY <1>0, <2>2, <3>1
    <3>3. SplitStep(g, s) = SplitStep(f, s)  BY <3>2, SplitLocal
    <3>4. Len(s) < n => f[s] = SplitStep(f, s)  BY <2>1 DEF SplitsTo
    <3> QED  BY <2>2, <3>3, <3>4
  <2>4. SplitsTo(g, n + 1)  BY <2>2, <2>3 DEF SplitsTo
  <2> QED  BY <2>4
<1>3. Nat \subseteq N
  <2> HIDE DEF N
  <2> QED  BY <1>1, <1>2, SetInduction
<1> QED  BY <1>3

\* ... any two agree, ...
LEMMA SplitsAgree ==
  ASSUME NEW f, NEW g, NEW m \in Nat, NEW n \in Nat, SplitsTo(f, m), SplitsTo(g, n)
  PROVE  \A s \in Text : Len(s) < m /\ Len(s) < n => f[s] = g[s]
<1> DEFINE N == {k \in Nat : \A s \in Text : Len(s) < k /\ Len(s) < m /\ Len(s) < n => f[s] = g[s]}
<1>0. \A s \in Text : Len(s) \in Nat  BY DEF Text
<1>1. 0 \in N  BY <1>0
<1>2. ASSUME NEW k \in Nat, k \in N PROVE k + 1 \in N
  <2>1. \A s \in Text : Len(s) < k /\ Len(s) < m /\ Len(s) < n => f[s] = g[s]  BY <1>2
  <2>2. ASSUME NEW s \in Text, Len(s) < k + 1, Len(s) < m, Len(s) < n PROVE f[s] = g[s]
    <3>1. \A u \in Text : Len(u) < Len(s) => Len(u) < k /\ Len(u) < m /\ Len(u) < n
      BY <1>0, <2>2
    <3>2. \A u \in Text : Len(u) < Len(s) => f[u] = g[u]  BY <2>1, <3>1
    <3>3. SplitStep(f, s) = SplitStep(g, s)  BY <3>2, SplitLocal
    <3> QED  BY <2>2, <3>3 DEF SplitsTo
  <2> HIDE DEF N
  <2>3. \A s \in Text : Len(s) < k + 1 /\ Len(s) < m /\ Len(s) < n => f[s] = g[s]  BY <2>2
  <2> QED  BY <2>3 DEF N
<1>3. Nat \subseteq N
  <2> HIDE DEF N
  <2> QED  BY <1>1, <1>2, SetInduction
<1>4. ASSUME NEW s \in Text, Len(s) < m, Len(s) < n PROVE f[s] = g[s]
  <2>1. m \in N  BY <1>3
  <2> QED  BY <1>4, <2>1
<1> QED  BY <1>4

\* ... so there is one for all, which is SplitRest.
LEMMA SplitIs == \A s \in Text : SplitRest[s] = SplitStep(SplitRest, s)
<1> DEFINE Run(n) == CHOOSE f : SplitsTo(f, n)
           f == [s \in Text |-> Run(Len(s) + 1)[s]]
<1>0. \A s \in Text : Len(s) \in Nat  BY DEF Text
<1>1. \A n \in Nat : SplitsTo(Run(n), n)  BY SplitsExist
<1> HIDE DEF Run
<1>2. \A s \in Text : f[s] = Run(Len(s) + 1)[s]  OBVIOUS
<1>3. ASSUME NEW s \in Text PROVE f[s] = SplitStep(f, s)
  <2> DEFINE n == Len(s) + 1
             g == Run(n)
  <2>1. n \in Nat /\ Len(s) < n  BY <1>0
  <2>2. SplitsTo(g, n)  BY <1>1, <2>1
  <2>3. ASSUME NEW u \in Text, Len(u) < Len(s) PROVE f[u] = g[u]
    <3> DEFINE k == Len(u) + 1
               h == Run(k)
    <3>1. k \in Nat /\ Len(u) < k /\ Len(u) < n  BY <1>0, <2>1, <2>3
    <3>2. SplitsTo(h, k)  BY <1>1, <3>1
    <3>3. f[u] = h[u]  BY <1>2
    <3> HIDE DEF f, g, h, k, n
    <3>4. h[u] = g[u]  BY <2>1, <2>2, <3>1, <3>2, SplitsAgree
    <3> QED  BY <3>3, <3>4
  <2>4. f[s] = g[s]  BY <1>2
  <2> HIDE DEF f, g, n
  <2>5. g[s] = SplitStep(g, s)  BY <2>1, <2>2 DEF SplitsTo
  <2>6. SplitStep(f, s) = SplitStep(g, s)  BY <2>3, SplitLocal
  <2> QED  BY <2>4, <2>5, <2>6
<1>4. f = [s \in Text |-> SplitStep(f, s)]
  <2>1. f = [s \in Text |-> f[s]]  OBVIOUS
  <2> HIDE DEF f
  <2> QED  BY <1>3, <2>1
<1> DEFINE IsIt(g) == g = [s \in Text |-> SplitStep(g, s)]
<1>5. SplitRest = CHOOSE g : IsIt(g)  BY DEF SplitRest, SplitStep, Text
<1>6. IsIt(f)
  <2> HIDE DEF f
  <2> QED  BY <1>4
<1> HIDE DEF IsIt, f
<1>7. IsIt(SplitRest)  BY <1>5, <1>6
<1> QED
  <2> DEFINE g == SplitRest
  <2>1. g = [s \in Text |-> SplitStep(g, s)]  BY <1>7 DEF IsIt
  <2> HIDE DEF g
  <2>2. \A s \in Text : [u \in Text |-> SplitStep(g, u)][s] = SplitStep(g, s)  OBVIOUS
  <2> QED  BY <2>1, <2>2 DEF g

-----------------------------------------------------------------------------
(* What the splitter says of a text. *)

Plainly     == [pending : Seq(Plain), inThink : BOOLEAN]
Outs        == [text : Text, reason : Text, next : Plainly]

\* Without a tag everything is said at once but the beginning of one; ...
LEMMA SplitNone ==
  ASSUME NEW s \in Text, NEW b \in BOOLEAN, First(s, Tag(b)) = 0
  PROVE  LET n == Len(s) - Partial(s, Tag(b))
             x == SplitRest[s][b]
         IN  /\ \A k \in Kinds : Part(x, k) = On(b, k, SubSeq(s, 1, n))
             /\ x.next = [pending |-> SubSeq(s, n + 1, Len(s)), inThink |-> b]
             /\ x = [text |-> x.text, reason |-> x.reason, next |-> x.next]
<1> DEFINE n == Len(s) - Partial(s, Tag(b))
           out == SubSeq(s, 1, n)
           x == SplitRest[s][b]
<1>1. x = SplitStep(SplitRest, s)[b]  BY SplitIs
<1>2. /\ x = [text |-> IF b THEN <<>> ELSE out \o <<>>,
              reason |-> IF b THEN out \o <<>> ELSE <<>>,
              next |-> [pending |-> SubSeq(s, n + 1, Len(s)), inThink |-> b]]
  BY <1>1 DEF SplitStep
<1>3. out \o <<>> = out
  <2>1. Partial(s, Tag(b)) \in Nat /\ Partial(s, Tag(b)) <= Len(s) /\ Len(s) \in Nat
    <3>1. Partial(s, Tag(b)) \in 0 .. Len(Tag(b)) - 1 /\ Partial(s, Tag(b)) <= Len(s)
      BY PartialIs
    <3> QED  BY <3>1 DEF Text
  <2>2. n \in Int /\ n <= Len(s) /\ 1 \in Int /\ 1 <= 1  BY <2>1
  <2> HIDE DEF n
  <2>3. out \in Text  BY <2>2, CutFits
  <2> QED  BY <2>3, ConcatEmptySeq DEF Text
<1> HIDE DEF out, n, x
<1>4. ASSUME NEW k \in Kinds PROVE Part(x, k) = On(b, k, out)
  BY <1>2, <1>3 DEF Part, On, Kinds
<1>5. x.next = [pending |-> SubSeq(s, n + 1, Len(s)), inThink |-> b]  BY <1>2
<1>6. x = [text |-> x.text, reason |-> x.reason, next |-> x.next]
  <2> DEFINE tx == IF b THEN <<>> ELSE out \o <<>>
             rx == IF b THEN out \o <<>> ELSE <<>>
             nx == [pending |-> SubSeq(s, n + 1, Len(s)), inThink |-> b]
  <2>1. x = [text |-> tx, reason |-> rx, next |-> nx]  BY <1>2
  <2> HIDE DEF tx, rx, nx
  <2> QED  BY <2>1
<1> QED  BY <1>4, <1>5, <1>6 DEF out, n, x

\* ... with one, what is before it, and then what is behind it.
LEMMA SplitTag ==
  ASSUME NEW s \in Text, NEW b \in BOOLEAN, First(s, Tag(b)) # 0
  PROVE  LET x == SplitRest[s][b]
             y == SplitRest[After(s, Tag(b))][~ b]
             out == SubSeq(s, 1, First(s, Tag(b)) - 1)
         IN  /\ x = [text |-> IF b THEN y.text ELSE out \o y.text,
                     reason |-> IF b THEN out \o y.reason ELSE y.reason,
                     next |-> y.next]
             /\ out \in Text /\ Len(out) = First(s, Tag(b)) - 1
             /\ \A i \in 1 .. Len(out) : out[i] = s[i]
<1> DEFINE f == First(s, Tag(b))
           out == SubSeq(s, 1, f - 1)
           x == SplitRest[s][b]
           y == SplitRest[After(s, Tag(b))][~ b]
<1>1. x = SplitStep(SplitRest, s)[b]  BY SplitIs
<1>2. /\ x = [text |-> IF b THEN y.text ELSE out \o y.text,
              reason |-> IF b THEN out \o y.reason ELSE y.reason,
              next |-> y.next]
  BY <1>1 DEF SplitStep, After
<1>3. f \in 0 .. Len(s)  BY FirstIs
<1>4. f - 1 \in Int /\ f - 1 <= Len(s) /\ 1 \in Int /\ 1 <= 1 /\ f - 1 >= 0 /\ f - 1 - 1 + 1 = f - 1
  <2>1. f # 0 /\ Len(s) \in Nat  BY DEF Text
  <2> HIDE DEF f
  <2> QED  BY <1>3, <2>1
<1> DEFINE n == f - 1
<1>5. out \in Text /\ Len(out) = (IF 1 <= n THEN n - 1 + 1 ELSE 0)
      /\ \A i \in 1 .. n - 1 + 1 : SubSeq(s, 1, n)[i] = s[1 + i - 1]
  <2> HIDE DEF n
  <2> QED  BY <1>4, CutFits DEF n
<1>6. Len(out) = n /\ \A i \in 1 .. n : out[i] = s[i]
  <2> HIDE DEF f
  <2> QED  BY <1>4, <1>5
<1> QED  BY <1>2, <1>5, <1>6

\* Everything keeps its type, and what is kept back holds no end of a tag.
LEMMA SplitFits == \A s \in Text, b \in BOOLEAN : SplitRest[s][b] \in Outs
<1>0. \A s \in Text : Len(s) \in Nat  BY DEF Text
<1> DEFINE N == {n \in Nat : \A s \in Text, b \in BOOLEAN :
                              Len(s) < n => SplitRest[s][b] \in Outs}
<1>1. 0 \in N  BY <1>0
<1>2. ASSUME NEW n \in Nat, n \in N PROVE n + 1 \in N
  <2>0. \A s \in Text, b \in BOOLEAN : Len(s) < n => SplitRest[s][b] \in Outs  BY <1>2
  <2>1. ASSUME NEW s \in Text, NEW b \in BOOLEAN, Len(s) < n + 1
        PROVE  SplitRest[s][b] \in Outs
    <3> DEFINE x == SplitRest[s][b]
    <3>1. CASE First(s, Tag(b)) = 0
      <4> DEFINE t == Tag(b)
                 p == Partial(s, t)
                 m == Len(s) - p
      <4>1. /\ p \in 0 .. Len(t) - 1 /\ p <= Len(s)
            /\ \A k \in 1 .. p : s[Len(s) - p + k] = t[k]
        BY PartialIs
      <4>2. /\ t \in Text /\ Len(t) \in {2, 3} /\ \A i \in 1 .. Len(t) - 1 : t[i] # ">"
        BY TagFits
      <4>3. Len(s) \in Nat /\ Len(t) \in Nat  BY <1>0, <4>2
      <4>4. m \in Int /\ 1 \in Int /\ 1 <= 1 /\ m <= Len(s) /\ m + 1 \in Int /\ Len(s) \in Int
            /\ 1 <= m + 1 /\ Len(s) <= Len(s)
        <5> HIDE DEF t, p
        <5> QED  BY <4>1, <4>3
      <4>5. SubSeq(s, 1, m) \in Text
        <5> HIDE DEF m
        <5> QED  BY <4>4, CutFits
      <4>6. SubSeq(s, m + 1, Len(s)) \in Seq(Plain)
        <5>1. ASSUME NEW i \in m + 1 .. Len(s) PROVE s[i] \in Plain
          <6> DEFINE j == i - m
          <6>1. j \in 1 .. p /\ i = Len(s) - p + j /\ j \in 1 .. Len(t) - 1 /\ i \in 1 .. Len(s)
            <7> HIDE DEF t, p
            <7> QED  BY <4>1, <4>3, <4>4, <5>1
          <6>2. s[i] = t[j]
            <7> HIDE DEF t, p, j
            <7> QED  BY <4>1, <6>1
          <6>3. t[j] # ">"
            <7> HIDE DEF t, p, j
            <7> QED  BY <4>2, <6>1
          <6>4. s[i] \in Chars  BY <6>1 DEF Text
          <6> QED  BY <6>2, <6>3, <6>4 DEF Plain
        <5> HIDE DEF m
        <5> QED  BY <4>4, <5>1, SubSeqProperties
      <4>7. /\ \A k \in Kinds : Part(x, k) = On(b, k, SubSeq(s, 1, m))
            /\ x.next = [pending |-> SubSeq(s, m + 1, Len(s)), inThink |-> b]
            /\ x = [text |-> x.text, reason |-> x.reason, next |-> x.next]
        BY <3>1, SplitNone
      <4>8. <<>> \in Text  BY DEF Text
      <4> HIDE DEF m, x
      <4>9. x.text \in Text /\ x.reason \in Text
        <5>1. x.text = On(b, "text", SubSeq(s, 1, m)) /\ x.reason = On(b, "reason", SubSeq(s, 1,
          m))
          BY <4>7 DEF Part, Kinds
        <5> QED  BY <4>5, <4>8, <5>1 DEF On
      <4>10. x.next \in Plainly  BY <4>6, <4>7 DEF Plainly
      <4>11. x \in Outs  BY <4>7, <4>9, <4>10 DEF Outs
      <4> QED  BY <4>11 DEF x
    <3>2. CASE First(s, Tag(b)) # 0
      <4> DEFINE u == After(s, Tag(b))
                 y == SplitRest[u][~ b]
                 out == SubSeq(s, 1, First(s, Tag(b)) - 1)
      <4>1. u \in Text /\ Len(u) \in Nat /\ Len(u) < Len(s)  BY <3>2, AfterIs
      <4>2. Len(u) < n /\ (~ b) \in BOOLEAN  BY <1>0, <2>1, <4>1
      <4>3. y \in Outs  BY <2>0, <4>1, <4>2
      <4>4. /\ x = [text |-> IF b THEN y.text ELSE out \o y.text,
                    reason |-> IF b THEN out \o y.reason ELSE y.reason,
                    next |-> y.next]
            /\ out \in Text
        BY <3>2, SplitTag
      <4> HIDE DEF x, y, out
      <4>5. y.text \in Text /\ y.reason \in Text /\ y.next \in Plainly  BY <4>3 DEF Outs
      <4>6. out \o y.text \in Text /\ out \o y.reason \in Text
        BY <4>4, <4>5, ConcatProperties DEF Text
      <4> QED  BY <4>4, <4>5, <4>6 DEF Outs, x
    <3> QED  BY <3>1, <3>2
  <2> HIDE DEF N
  <2>2. \A s \in Text, b \in BOOLEAN : Len(s) < n + 1 => SplitRest[s][b] \in Outs  BY <2>1
  <2> QED  BY <2>2 DEF N
<1>3. Nat \subseteq N
  <2> HIDE DEF N
  <2> QED  BY <1>1, <1>2, SetInduction
<1>4. ASSUME NEW s \in Text, NEW b \in BOOLEAN PROVE SplitRest[s][b] \in Outs
  <2>1. Len(s) + 1 \in N /\ Len(s) < Len(s) + 1  BY <1>0, <1>3
  <2> QED  BY <2>1
<1> QED  BY <1>4

\* What is said has its type.
LEMMA SaysFits ==
  ASSUME NEW s \in Text, NEW b \in BOOLEAN, NEW k \in Kinds
  PROVE  /\ Whole(s, b, k) \in Text /\ Final(s, b) \in BOOLEAN
         /\ Part(SplitRest[s][b], k) \in Text /\ Held(SplitRest[s][b].next, k) \in Seq(Plain)
<1> DEFINE x == SplitRest[s][b]
<1>1. x \in Outs  BY SplitFits
<1> HIDE DEF x
<1>2. x.next \in Plainly /\ Part(x, k) \in Text  BY <1>1 DEF Outs, Part
<1>3. x.next.inThink \in BOOLEAN /\ x.next.pending \in Seq(Plain)  BY <1>2 DEF Plainly
<1>4. <<>> \in Seq(Plain)  OBVIOUS
<1>5. Held(x.next, k) \in Seq(Plain)  BY <1>3, <1>4 DEF Held, On
<1>6. Plain \subseteq Chars  BY DEF Plain
<1>7. Held(x.next, k) \in Text  BY <1>5, <1>6, SeqMonotonic DEF Text
<1>8. Part(x, k) \o Held(x.next, k) \in Text  BY <1>2, <1>7, ConcatProperties DEF Text
<1>9. Whole(s, b, k) \in Text  BY <1>8 DEF Whole, x
<1>10. Final(s, b) \in BOOLEAN  BY <1>3 DEF Final, x
<1> QED  BY <1>2, <1>5, <1>9, <1>10 DEF x

\* Texts are joined in any order.
LEMMA ThreeTexts ==
  \A x \in Text, y \in Text, z \in Text : (x \o y) \o z = x \o (y \o z)
<1> SUFFICES ASSUME NEW x \in Text, NEW y \in Text, NEW z \in Text
             PROVE  (x \o y) \o z = x \o (y \o z)
  OBVIOUS
<1> DEFINE S == Chars
<1>1. x \in Seq(S) /\ y \in Seq(S) /\ z \in Seq(S)  BY DEF Text
<1> HIDE DEF S
<1> QED  BY <1>1, Three

\* On puts a concatenation together.
LEMMA OnConcat ==
  ASSUME NEW s \in Text, NEW t \in Text, NEW b, NEW k
  PROVE  /\ On(b, k, s) \in Text /\ On(b, k, s) \o On(b, k, t) = On(b, k, s \o t)
<1>1. <<>> \in Text  BY DEF Text
<1>2. <<>> \o <<>> = <<>>  BY <1>1, ConcatEmptySeq DEF Text
<1> QED  BY <1>1, <1>2 DEF On

Joins(b, k, s, t) == On(b, k, s) \o On(b, k, t) = On(b, k, s \o t)

\* The same, for any two.
LEMMA OnJoins ==
  \A b, k : \A s \in Text : On(b, k, s) \in Text /\ \A t \in Text : Joins(b, k, s, t)
<1> SUFFICES ASSUME NEW b, NEW k, NEW s \in Text
             PROVE  On(b, k, s) \in Text /\ \A t \in Text : Joins(b, k, s, t)
  OBVIOUS
<1>1. On(b, k, s) \in Text  BY OnConcat
<1>2. ASSUME NEW t \in Text PROVE Joins(b, k, s, t)  BY OnConcat DEF Joins
<1> QED  BY <1>1, <1>2

\* Without a tag s is said on one side.
LEMMA WholeNone ==
  ASSUME NEW s \in Text, NEW b \in BOOLEAN, First(s, Tag(b)) = 0
  PROVE  Final(s, b) = b /\ \A k \in Kinds : Whole(s, b, k) = On(b, k, s)
<1> DEFINE p == Partial(s, Tag(b))
           n == Len(s) - p
           x == SplitRest[s][b]
           l == SubSeq(s, 1, n)
           r == SubSeq(s, n + 1, Len(s))
<1>1. /\ \A k \in Kinds : Part(x, k) = On(b, k, l)
      /\ x.next = [pending |-> r, inThink |-> b]
  BY SplitNone
<1>2. p \in 0 .. Len(Tag(b)) - 1 /\ p <= Len(s)  BY PartialIs
<1>3. Len(s) \in Nat /\ p \in Nat  BY <1>2 DEF Text
<1>4. n \in 0 .. Len(s)
  <2> HIDE DEF p
  <2> QED  BY <1>2, <1>3
<1> HIDE DEF n, p, x
<1>5. l \in Text
  <2>1. n \in Int /\ 1 \in Int /\ 1 <= 1 /\ n <= Len(s)  BY <1>3, <1>4
  <2> QED  BY <2>1, CutFits
<1>6. r \in Text
  <2>1. n + 1 \in Int /\ 1 <= n + 1 /\ Len(s) \in Int /\ Len(s) <= Len(s)  BY <1>3, <1>4
  <2> QED  BY <2>1, CutFits
<1>7. l \o r = s
  <2>1. /\ 1 \in 1 .. Len(s) + 1 /\ n \in 1 - 1 .. Len(s) /\ Len(s) \in n .. Len(s)
    BY <1>3, <1>4
  <2>2. l \o r = SubSeq(s, 1, Len(s))  BY <2>1, ConcatAdjacentSubSeq DEF Text
  <2> QED  BY <2>2, SubSeqFull DEF Text
<1> HIDE DEF l, r
<1>8. ASSUME NEW k \in Kinds PROVE Whole(s, b, k) = On(b, k, s)
  <2>1. Whole(s, b, k) = Part(x, k) \o Held(x.next, k)  BY DEF Whole, x
  <2>2. Held(x.next, k) = On(b, k, r)  BY <1>1 DEF Held
  <2>3. On(b, k, l) \o On(b, k, r) = On(b, k, l \o r)
    <3>1. Joins(b, k, l, r)  BY Zenon, <1>5, <1>6, OnJoins
    <3> QED  BY <3>1 DEF Joins
  <2> QED  BY <1>1, <1>7, <2>1, <2>2, <2>3
<1>9. Final(s, b) = b  BY <1>1 DEF Final, x
<1> QED  BY <1>8, <1>9

\* Before a tag it is, and what is behind goes on on the other.
LEMMA WholeTag ==
  ASSUME NEW s \in Text, NEW b \in BOOLEAN, First(s, Tag(b)) # 0
  PROVE  /\ Final(s, b) = Final(After(s, Tag(b)), ~ b)
         /\ \A k \in Kinds :
              Whole(s, b, k) = On(b, k, SubSeq(s, 1, First(s, Tag(b)) - 1))
                                 \o Whole(After(s, Tag(b)), ~ b, k)
<1> DEFINE u == After(s, Tag(b))
           x == SplitRest[s][b]
           y == SplitRest[u][~ b]
           out == SubSeq(s, 1, First(s, Tag(b)) - 1)
<1>1. u \in Text /\ (~ b) \in BOOLEAN  BY AfterIs
<1>2. y \in Outs  BY <1>1, SplitFits
<1>3. /\ x = [text |-> IF b THEN y.text ELSE out \o y.text,
              reason |-> IF b THEN out \o y.reason ELSE y.reason,
              next |-> y.next]
      /\ out \in Text
  BY SplitTag
<1> HIDE DEF u, x, y, out
<1>4. x.next = y.next  BY <1>3
<1>5. ASSUME NEW k \in Kinds
      PROVE  Part(x, k) \o Held(x.next, k) = On(b, k, out) \o (Part(y, k) \o Held(y.next, k))
  <2>1. Part(y, k) \in Text /\ Held(y.next, k) \in Text /\ On(b, k, out) \in Text
    <3>1. Part(y, k) \in Text /\ Held(y.next, k) \in Seq(Plain)
      <4> DEFINE c == ~ b
      <4>1. c \in BOOLEAN /\ y = SplitRest[u][c]  BY <1>1 DEF y
      <4> HIDE DEF c
      <4>2. /\ Part(SplitRest[u][c], k) \in Text
            /\ Held(SplitRest[u][c].next, k) \in Seq(Plain)
        BY <1>1, <4>1, SaysFits
      <4> QED  BY <4>1, <4>2
    <3>2. Plain \subseteq Chars  BY DEF Plain
    <3>3. Held(y.next, k) \in Text  BY <3>1, <3>2, SeqMonotonic DEF Text
    <3>4. On(b, k, out) \in Text  BY Zenon, <1>3, OnJoins
    <3> QED  BY Zenon, <3>1, <3>3, <3>4
  <2>2. Part(x, k) = On(b, k, out) \o Part(y, k)
    <3>1. <<>> \o Part(y, k) = Part(y, k)  BY <2>1, ConcatEmptySeq DEF Text
    <3>2. CASE b = (k = "reason")
      <4>1. On(b, k, out) = out  BY <3>2 DEF On
      <4>2. Part(x, k) = out \o Part(y, k)  BY <1>3, <3>2 DEF Part, Kinds
      <4> QED  BY <4>1, <4>2
    <3>3. CASE b # (k = "reason")
      <4>1. On(b, k, out) = <<>>  BY <3>3 DEF On
      <4>2. Part(x, k) = Part(y, k)  BY <1>3, <3>3 DEF Part, Kinds
      <4> QED  BY <3>1, <4>1, <4>2
    <3> QED  BY <3>2, <3>3
  <2>3. (On(b, k, out) \o Part(y, k)) \o Held(y.next, k)
          = On(b, k, out) \o (Part(y, k) \o Held(y.next, k))
    BY Zenon, <2>1, ThreeTexts
  <2> QED  BY <1>4, <2>2, <2>3
<1>6. Final(s, b) = Final(u, ~ b)  BY <1>4 DEF Final, x, y
<1>7. ASSUME NEW k \in Kinds PROVE Whole(s, b, k) = On(b, k, out) \o Whole(u, ~ b, k)
  BY <1>5 DEF Whole, x, y
<1> QED  BY <1>6, <1>7 DEF out, u

\* Cuts of a concatenation.
LEMMA CutRight ==
  ASSUME NEW s \in Text, NEW r \in Text, NEW m \in 1 .. Len(r) + 1
  PROVE  SubSeq(s \o r, Len(s) + m, Len(s \o r)) = SubSeq(r, m, Len(r))
<1> DEFINE w == s \o r
           i == Len(s) + m
           n == Len(w)
<1>1. /\ w \in Text /\ Len(w) = Len(s) + Len(r)
      /\ \A j \in 1 .. Len(r) : w[Len(s) + j] = r[j]
  BY ConcatFits DEF Text
<1>2. Len(s) \in Nat /\ Len(r) \in Nat  BY DEF Text
<1> HIDE DEF w
<1>3. i \in Int /\ n \in Int /\ 1 <= i /\ n <= Len(w) /\ n - i + 1 = Len(r) - m + 1
      /\ m \in Int /\ Len(r) \in Int /\ 1 <= m /\ Len(r) <= Len(r)
  BY <1>1, <1>2
<1>4. (i <= n) <=> (m <= Len(r))  BY <1>1, <1>2
<1> HIDE DEF i, n
<1>5. /\ SubSeq(w, i, n) \in Text /\ Len(SubSeq(w, i, n)) = IF i <= n THEN n - i + 1 ELSE 0
      /\ \A j \in 1 .. n - i + 1 : SubSeq(w, i, n)[j] = w[i + j - 1]
  BY <1>1, <1>3, CutFits
<1>6. /\ SubSeq(r, m, Len(r)) \in Text
      /\ Len(SubSeq(r, m, Len(r))) = IF m <= Len(r) THEN Len(r) - m + 1 ELSE 0
      /\ \A j \in 1 .. Len(r) - m + 1 : SubSeq(r, m, Len(r))[j] = r[m + j - 1]
  BY <1>3, CutFits
<1>7. Len(SubSeq(w, i, n)) = Len(SubSeq(r, m, Len(r)))
  BY <1>3, <1>4, <1>5, <1>6
<1>8. ASSUME NEW j \in 1 .. Len(SubSeq(w, i, n))
      PROVE  SubSeq(w, i, n)[j] = SubSeq(r, m, Len(r))[j]
  <2>1. j \in 1 .. n - i + 1 /\ j \in 1 .. Len(r) - m + 1
    <3>1. CASE i <= n
      <4>1. Len(SubSeq(w, i, n)) = n - i + 1  BY <1>5, <3>1
      <4> QED  BY <1>3, <1>8, <4>1
    <3>2. CASE ~ (i <= n)
      <4>1. Len(SubSeq(w, i, n)) = 0  BY <1>5, <3>2
      <4>2. j \in 1 .. 0  BY <1>8, <4>1
      <4> QED  BY <4>2
    <3> QED  BY <3>1, <3>2
  <2>2. i + j - 1 = Len(s) + (m + j - 1) /\ m + j - 1 \in 1 .. Len(r)
    BY <1>2, <1>3, <2>1 DEF i
  <2>3. w[Len(s) + (m + j - 1)] = r[m + j - 1]  BY <1>1, <2>2
  <2> QED  BY <1>5, <1>6, <2>1, <2>2, <2>3
<1>9. SubSeq(w, i, n) = SubSeq(r, m, Len(r))
  <2> DEFINE p == SubSeq(w, i, n)
             q == SubSeq(r, m, Len(r))
  <2>1. p \in Seq(Chars) /\ q \in Seq(Chars) /\ Len(p) = Len(q)
        /\ \A j \in 1 .. Len(p) : p[j] = q[j]
    BY <1>5, <1>6, <1>7, <1>8 DEF Text
  <2> HIDE DEF p, q
  <2>2. p = q  BY <2>1, SeqEqual
  <2> QED  BY <2>2 DEF p, q
<1> QED  BY <1>9 DEF i, n, w

\* The beginning of one.
LEMMA CutLeft ==
  ASSUME NEW s \in Text, NEW r \in Text
  PROVE  /\ \A n \in 0 .. Len(s) : SubSeq(s \o r, 1, n) = SubSeq(s, 1, n)
         /\ \A n \in 0 .. Len(r) : SubSeq(s \o r, 1, Len(s) + n) = s \o SubSeq(r, 1, n)
<1> DEFINE w == s \o r
<1>1. /\ w \in Text /\ Len(w) = Len(s) + Len(r)
      /\ \A j \in 1 .. Len(s) : w[j] = s[j]
      /\ \A j \in 1 .. Len(r) : w[Len(s) + j] = r[j]
  BY ConcatFits DEF Text
<1>2. Len(s) \in Nat /\ Len(r) \in Nat  BY DEF Text
<1> HIDE DEF w
<1>3. ASSUME NEW u \in Text, NEW n \in 0 .. Len(u)
      PROVE  /\ SubSeq(u, 1, n) \in Text /\ Len(SubSeq(u, 1, n)) = n
             /\ \A i \in 1 .. n : SubSeq(u, 1, n)[i] = u[i]
  <2>1. n \in Int /\ 1 \in Int /\ 1 <= 1 /\ n <= Len(u)  BY DEF Text
  <2>2. /\ SubSeq(u, 1, n) \in Text /\ Len(SubSeq(u, 1, n)) = IF 1 <= n THEN n - 1 + 1 ELSE 0
        /\ \A i \in 1 .. n - 1 + 1 : SubSeq(u, 1, n)[i] = u[1 + i - 1]
    BY <2>1, CutFits
  <2> QED  BY <2>1, <2>2
<1>4. ASSUME NEW n \in 0 .. Len(s) PROVE SubSeq(w, 1, n) = SubSeq(s, 1, n)
  <2> DEFINE p == SubSeq(w, 1, n)
             q == SubSeq(s, 1, n)
  <2>1. n \in 0 .. Len(w)  BY <1>1, <1>2
  <2>2. p \in Text /\ Len(p) = n /\ \A i \in 1 .. n : p[i] = w[i]  BY <1>1, <1>3, <2>1
  <2>3. q \in Text /\ Len(q) = n /\ \A i \in 1 .. n : q[i] = s[i]  BY <1>3
  <2>4. \A i \in 1 .. n : w[i] = s[i]  BY <1>1, <1>2
  <2>5. p \in Seq(Chars) /\ q \in Seq(Chars) /\ Len(p) = Len(q)
        /\ \A i \in 1 .. Len(p) : p[i] = q[i]
    <3> HIDE DEF p, q
    <3> QED  BY <2>2, <2>3, <2>4 DEF Text
  <2> HIDE DEF p, q
  <2>6. p = q  BY <2>5, SeqEqual
  <2> QED  BY <2>6 DEF p, q
<1>5. ASSUME NEW n \in 0 .. Len(r) PROVE SubSeq(w, 1, Len(s) + n) = s \o SubSeq(r, 1, n)
  <2> DEFINE m == Len(s) + n
             p == SubSeq(w, 1, m)
             c == SubSeq(r, 1, n)
             q == s \o c
  <2>1. m \in 0 .. Len(w) /\ n \in Nat /\ m \in Nat  BY <1>1, <1>2
  <2>2. p \in Text /\ Len(p) = m /\ \A i \in 1 .. m : p[i] = w[i]
    <3> HIDE DEF m
    <3> QED  BY <1>1, <1>3, <2>1
  <2>3. c \in Text /\ Len(c) = n /\ \A i \in 1 .. n : c[i] = r[i]  BY <1>3
  <2> HIDE DEF c, p
  <2>4. q \in Text /\ Len(q) = m /\ (\A i \in 1 .. Len(s) : q[i] = s[i])
        /\ \A i \in 1 .. n : q[Len(s) + i] = c[i]
    <3>1. s \in Seq(Chars) /\ c \in Seq(Chars)  BY <2>3 DEF Text
    <3>2. /\ q \in Seq(Chars) /\ Len(q) = Len(s) + Len(c)
          /\ \A i \in 1 .. Len(s) : q[i] = s[i]
          /\ \A i \in 1 .. Len(c) : q[Len(s) + i] = c[i]
      BY <3>1, ConcatFits
    <3> HIDE DEF q
    <3> QED  BY <2>3, <3>2 DEF Text
  <2> HIDE DEF q
  <2>5. ASSUME NEW i \in 1 .. m PROVE p[i] = q[i]
    <3>1. CASE i <= Len(s)
      <4>1. i \in 1 .. Len(s)  BY <1>2, <2>1, <3>1
      <4> QED  BY <1>1, <2>2, <2>4, <4>1
    <3>2. CASE ~ (i <= Len(s))
      <4> DEFINE j == i - Len(s)
      <4>1. j \in 1 .. n /\ j \in 1 .. Len(r) /\ i = Len(s) + j  BY <1>2, <2>1, <3>2
      <4> HIDE DEF j
      <4>2. w[Len(s) + j] = r[j] /\ q[Len(s) + j] = c[j] /\ c[j] = r[j]
        BY <1>1, <2>3, <2>4, <4>1
      <4> QED  BY <2>2, <4>1, <4>2
    <3> QED  BY <3>1, <3>2
  <2>6. p \in Seq(Chars) /\ q \in Seq(Chars) /\ Len(p) = Len(q)
        /\ \A i \in 1 .. Len(p) : p[i] = q[i]
    BY <2>2, <2>4, <2>5 DEF Text
  <2>7. p = q  BY <2>6, SeqEqual
  <2> QED  BY <2>7 DEF p, q, c
<1> QED  BY <1>4, <1>5 DEF w

\* The end of one, with what comes after.
LEMMA CutThrough ==
  ASSUME NEW s \in Text, NEW r \in Text, NEW m \in 1 .. Len(s) + 1
  PROVE  SubSeq(s \o r, m, Len(s \o r)) = SubSeq(s, m, Len(s)) \o r
<1> DEFINE w == s \o r
           n == Len(w)
           p == SubSeq(w, m, n)
           c == SubSeq(s, m, Len(s))
           q == c \o r
           l == Len(s) - m + 1
<1>1. /\ w \in Text /\ Len(w) = Len(s) + Len(r)
      /\ \A j \in 1 .. Len(s) : w[j] = s[j]
      /\ \A j \in 1 .. Len(r) : w[Len(s) + j] = r[j]
  BY ConcatFits DEF Text
<1>2. Len(s) \in Nat /\ Len(r) \in Nat  BY DEF Text
<1> HIDE DEF w
<1>3. /\ m \in Int /\ n \in Int /\ 1 <= m /\ n <= Len(w) /\ n - m + 1 = l + Len(r) /\ l \in Nat
      /\ Len(s) \in Int /\ Len(s) <= Len(s)
  BY <1>1, <1>2
<1>4. /\ (IF m <= n THEN n - m + 1 ELSE 0) = l + Len(r)
      /\ (IF m <= Len(s) THEN Len(s) - m + 1 ELSE 0) = l
  BY <1>1, <1>2
<1> HIDE DEF n
<1>5. /\ SubSeq(w, m, n) \in Text /\ Len(SubSeq(w, m, n)) = IF m <= n THEN n - m + 1 ELSE 0
      /\ \A j \in 1 .. n - m + 1 : SubSeq(w, m, n)[j] = w[m + j - 1]
  BY <1>1, <1>3, CutFits
<1>6. /\ SubSeq(s, m, Len(s)) \in Text
      /\ Len(SubSeq(s, m, Len(s))) = IF m <= Len(s) THEN Len(s) - m + 1 ELSE 0
      /\ \A j \in 1 .. Len(s) - m + 1 : SubSeq(s, m, Len(s))[j] = s[m + j - 1]
  BY <1>3, CutFits
<1>7. p \in Text /\ Len(p) = l + Len(r) /\ \A j \in 1 .. l + Len(r) : p[j] = w[m + j - 1]
  BY <1>3, <1>4, <1>5
<1>8. c \in Text /\ Len(c) = l /\ \A j \in 1 .. l : c[j] = s[m + j - 1]
  BY <1>4, <1>6
<1> HIDE DEF p, c
<1>9. q \in Text /\ Len(q) = l + Len(r) /\ (\A i \in 1 .. l : q[i] = c[i])
      /\ \A i \in 1 .. Len(r) : q[l + i] = r[i]
  <2>1. c \in Seq(Chars) /\ r \in Seq(Chars)  BY <1>8 DEF Text
  <2>2. /\ q \in Seq(Chars) /\ Len(q) = Len(c) + Len(r)
        /\ \A i \in 1 .. Len(c) : q[i] = c[i]
        /\ \A i \in 1 .. Len(r) : q[Len(c) + i] = r[i]
    BY <2>1, ConcatFits
  <2> HIDE DEF q, l
  <2> QED  BY <1>8, <2>2 DEF Text
<1> HIDE DEF q
<1>10. ASSUME NEW i \in 1 .. l + Len(r) PROVE p[i] = q[i]
  <2>1. CASE i <= l
    <3>1. i \in 1 .. l /\ m + i - 1 \in 1 .. Len(s)  BY <1>2, <1>3, <2>1
    <3>2. w[m + i - 1] = s[m + i - 1]  BY <1>1, <3>1
    <3> HIDE DEF l
    <3> QED  BY <1>7, <1>8, <1>9, <3>1, <3>2
  <2>2. CASE ~ (i <= l)
    <3> DEFINE j == i - l
    <3>1. j \in 1 .. Len(r) /\ i = l + j /\ m + i - 1 = Len(s) + j
      BY <1>2, <1>3, <2>2
    <3> HIDE DEF j, l
    <3>2. w[Len(s) + j] = r[j] /\ q[l + j] = r[j]  BY <1>1, <1>9, <3>1
    <3> QED  BY <1>7, <3>1, <3>2
  <2> QED  BY <2>1, <2>2
<1>11. p \in Seq(Chars) /\ q \in Seq(Chars) /\ Len(p) = Len(q)
       /\ \A i \in 1 .. Len(p) : p[i] = q[i]
  BY <1>7, <1>9, <1>10 DEF Text
<1>12. p = q  BY <1>11, SeqEqual
<1> QED  BY <1>12 DEF p, q, c, n, w

\* Tags in a concatenation.
LEMMA OccursConcat ==
  ASSUME NEW s \in Text, NEW r \in Text, NEW t \in Text, t # <<>>
  PROVE  /\ \A j \in Nat : Occurs(s, t, j) => Occurs(s \o r, t, j)
         /\ \A j \in Nat : Occurs(s \o r, t, j) /\ j + Len(t) <= Len(s) + 1 => Occurs(s, t, j)
         /\ \A j \in Nat \ {0} : Occurs(r, t, j) <=> Occurs(s \o r, t, Len(s) + j)
<1> DEFINE w == s \o r
<1>1. /\ w \in Text /\ Len(w) = Len(s) + Len(r)
      /\ \A j \in 1 .. Len(s) : w[j] = s[j]
      /\ \A j \in 1 .. Len(r) : w[Len(s) + j] = r[j]
  BY ConcatFits DEF Text
<1>2. Len(s) \in Nat /\ Len(r) \in Nat /\ Len(t) \in Nat /\ Len(t) >= 1  BY DEF Text
<1> HIDE DEF w
<1>3. ASSUME NEW j \in Nat, Occurs(s, t, j) PROVE Occurs(w, t, j)
  <2>1. /\ j \in 1 .. Len(s) /\ j + Len(t) <= Len(s) + 1
        /\ \A k \in 1 .. Len(t) : s[j + k - 1] = t[k]
    BY <1>3 DEF Occurs
  <2>2. \A k \in 1 .. Len(t) : j + k - 1 \in 1 .. Len(s)  BY <1>2, <2>1
  <2>3. \A k \in 1 .. Len(t) : w[j + k - 1] = t[k]  BY <1>1, <2>1, <2>2
  <2>4. j \in 1 .. Len(w) /\ j + Len(t) <= Len(w) + 1  BY <1>1, <1>2, <2>1
  <2> QED  BY <2>3, <2>4 DEF Occurs
<1>4. ASSUME NEW j \in Nat, Occurs(w, t, j), j + Len(t) <= Len(s) + 1 PROVE Occurs(s, t, j)
  <2>1. j \in 1 .. Len(w) /\ \A k \in 1 .. Len(t) : w[j + k - 1] = t[k]
    BY <1>4 DEF Occurs
  <2>2. j \in 1 .. Len(s) /\ \A k \in 1 .. Len(t) : j + k - 1 \in 1 .. Len(s)
    BY <1>2, <1>4, <2>1
  <2>3. \A k \in 1 .. Len(t) : s[j + k - 1] = t[k]  BY <1>1, <2>1, <2>2
  <2> QED  BY <1>4, <2>2, <2>3 DEF Occurs
<1>5. ASSUME NEW j \in Nat \ {0} PROVE Occurs(r, t, j) <=> Occurs(w, t, Len(s) + j)
  <2> DEFINE i == Len(s) + j
  <2>1. ASSUME j + Len(t) <= Len(r) + 1
        PROVE  \A k \in 1 .. Len(t) : w[i + k - 1] = r[j + k - 1]
    <3>1. ASSUME NEW k \in 1 .. Len(t)
          PROVE  j + k - 1 \in 1 .. Len(r) /\ i + k - 1 = Len(s) + (j + k - 1)
      BY <1>2, <2>1
    <3> HIDE DEF i
    <3> QED  BY <1>1, <3>1
  <2>2. i + Len(t) <= Len(w) + 1 <=> j + Len(t) <= Len(r) + 1  BY <1>1, <1>2
  <2>3. j + Len(t) <= Len(r) + 1 => j \in 1 .. Len(r) /\ i \in 1 .. Len(w)  BY <1>1, <1>2
  <2> HIDE DEF i
  <2>4. Occurs(r, t, j) <=> Occurs(w, t, i)  BY <2>1, <2>2, <2>3 DEF Occurs
  <2> QED  BY <2>4 DEF i
<1> QED  BY <1>3, <1>4, <1>5 DEF w

\* What is kept back is the longest end that begins the tag.
LEMMA PartialMost ==
  ASSUME NEW s \in Text, NEW b \in BOOLEAN, NEW q \in 1 .. Len(Tag(b)) - 1, q <= Len(s),
         \A k \in 1 .. q : s[Len(s) - q + k] = Tag(b)[k]
  PROVE  q <= Partial(s, Tag(b))
<1> DEFINE t == Tag(b)
           E == {k \in 1 .. Len(t) - 1 :
                   k <= Len(s) /\ SubSeq(s, Len(s) - k + 1, Len(s)) = SubSeq(t, 1, k)}
           D == {0} \cup E
           m == Len(s) - q + 1
<1>1. t \in Text /\ Len(t) \in {2, 3} /\ Len(s) \in Nat /\ Len(t) \in Nat
  BY TagFits DEF Text
<1>2. Partial(s, t) = Max(D)
  <2>1. Partial(s, t) = Max(D)  BY DEF Partial
  <2> HIDE DEF D
  <2> QED  BY <2>1
<1>3. \A x \in D : x \in 0 .. 2
  <2>1. \A x \in E : x \in 1 .. Len(t) - 1  OBVIOUS
  <2>2. Len(t) - 1 \in {1, 2}  BY <1>1
  <2> HIDE DEF E, t
  <2>3. ASSUME NEW x \in E PROVE x \in 0 .. 2
    <3>1. x \in 1 .. Len(t) - 1  BY <2>1
    <3>2. x \in 1 .. 1 \/ x \in 1 .. 2  BY <2>2, <3>1
    <3> QED  BY <3>2
  <2> QED  BY <2>3
<1>4. \A x \in D : x <= Max(D)
  <2>1. 0 \in D  OBVIOUS
  <2> HIDE DEF D
  <2>2. \E x \in D : \A y \in D : x >= y
    <3>1. CASE 2 \in D  BY <1>3, <3>1
    <3>2. CASE 2 \notin D /\ 1 \in D
      <4>1. \A y \in D : 1 >= y  BY <1>3, <3>2
      <4> QED  BY <3>2, <4>1
    <3>3. CASE 2 \notin D /\ 1 \notin D  BY SMTT(40), <1>3, <2>1, <3>3
    <3> QED  BY <3>1, <3>2, <3>3
  <2>3. Max(D) \in D /\ \A y \in D : Max(D) >= y  BY <2>2 DEF Max
  <2> QED  BY <1>3, <2>3
<1>5. q \in Nat /\ q <= Len(t) /\ q >= 1  BY <1>1
<1>6. SubSeq(s, m, Len(s)) = SubSeq(t, 1, q)
  <2> DEFINE x == SubSeq(s, m, Len(s))
             y == SubSeq(t, 1, q)
  <2>1. /\ m \in Int /\ Len(s) \in Int /\ 1 <= m /\ Len(s) <= Len(s) /\ m <= Len(s)
        /\ Len(s) - m + 1 = q
    BY <1>1, <1>5
  <2>2. /\ x \in Text /\ Len(x) = q /\ \A i \in 1 .. q : x[i] = s[m + i - 1]
    <3> HIDE DEF m
    <3>1. /\ x \in Text /\ Len(x) = IF m <= Len(s) THEN Len(s) - m + 1 ELSE 0
          /\ \A i \in 1 .. Len(s) - m + 1 : x[i] = s[m + i - 1]
      BY <2>1, CutFits
    <3> QED  BY <2>1, <3>1
  <2>3. y \in Text /\ Len(y) = q /\ \A i \in 1 .. q : y[i] = t[i]
    <3> HIDE DEF t
    <3>1. q \in Int /\ 1 \in Int /\ 1 <= 1 /\ q <= Len(t)  BY <1>5
    <3>2. /\ y \in Text /\ Len(y) = IF 1 <= q THEN q - 1 + 1 ELSE 0
          /\ \A i \in 1 .. q - 1 + 1 : y[i] = t[1 + i - 1]
      BY <1>1, <3>1, CutFits
    <3> QED  BY <1>5, <3>2
  <2>4. \A i \in 1 .. q : m + i - 1 = Len(s) - q + i  BY <1>1, <1>5
  <2>5. x \in Seq(Chars) /\ y \in Seq(Chars) /\ Len(x) = Len(y)
        /\ \A i \in 1 .. Len(x) : x[i] = y[i]
    <3> HIDE DEF x, y, m
    <3> QED  BY <2>2, <2>3, <2>4 DEF Text
  <2> HIDE DEF x, y
  <2>6. x = y  BY <2>5, SeqEqual
  <2> QED  BY <2>6 DEF x, y
<1>7. q \in E  BY <1>6
<1> HIDE DEF E
<1>8. q \in D  BY <1>7
<1> HIDE DEF D
<1> QED  BY <1>2, <1>4, <1>8

\* A beginning in which no tag begins is said as it is.
LEMMA SkipSays ==
  ASSUME NEW a \in Text, NEW v \in Text, NEW b \in BOOLEAN,
         \A j \in 1 .. Len(a) : ~ Occurs(a \o v, Tag(b), j)
  PROVE  /\ Final(a \o v, b) = Final(v, b)
         /\ \A k \in Kinds : Whole(a \o v, b, k) = On(b, k, a) \o Whole(v, b, k)
<1> DEFINE w == a \o v
           t == Tag(b)
           f == First(v, t)
<1>1. w \in Text /\ Len(w) = Len(a) + Len(v)  BY ConcatFits DEF Text
<1>2. Len(a) \in Nat /\ Len(v) \in Nat  BY DEF Text
<1>3. t \in Text /\ t # <<>> /\ Len(t) \in {2, 3} /\ Len(t) \in Nat
  <2>1. t \in Text /\ Len(t) \in {2, 3}  BY TagFits
  <2>2. Len(<<>>) = 0  OBVIOUS
  <2> HIDE DEF t
  <2> QED  BY <2>1, <2>2
<1>4. /\ f \in 0 .. Len(v)
      /\ f # 0 => Occurs(v, t, f)
      /\ \A j \in Nat : f = 0 \/ j < f => ~ Occurs(v, t, j)
  BY FirstIs
<1>5. \A j \in Nat \ {0} : Occurs(v, t, j) <=> Occurs(w, t, Len(a) + j)
  <2> HIDE DEF t
  <2> QED  BY <1>3, OccursConcat
<1>6. \A j \in 1 .. Len(a) : ~ Occurs(w, t, j)  OBVIOUS
<1>7. \A j : Occurs(w, t, j) => j \in 1 .. Len(w)  BY DEF Occurs
<1> HIDE DEF w, f
<1>8. CASE f = 0
  <2>1. ASSUME NEW j \in Nat PROVE ~ Occurs(w, t, j)
    <3>1. CASE j \in 1 .. Len(a) \/ j = 0  BY <1>6, <1>7, <3>1
    <3>2. CASE ~ (j \in 1 .. Len(a) \/ j = 0)
      <4> DEFINE i == j - Len(a)
      <4>1. i \in Nat \ {0} /\ j = Len(a) + i  BY <1>2, <3>2
      <4> HIDE DEF i, t
      <4> QED  BY <1>4, <1>5, <1>8, <4>1
    <3> QED  BY <3>1, <3>2
  <2>2. First(w, t) = 0  BY <1>1, <2>1, FirstOnly
  <2>3. Final(w, b) = b /\ \A k \in Kinds : Whole(w, b, k) = On(b, k, w)
    BY <1>1, <2>2, WholeNone
  <2>4. Final(v, b) = b /\ \A k \in Kinds : Whole(v, b, k) = On(b, k, v)
    BY <1>8, WholeNone DEF f
  <2>5. \A k \in Kinds : On(b, k, a) \o On(b, k, v) = On(b, k, w)  BY OnConcat DEF w
  <2> QED  BY <2>3, <2>4, <2>5 DEF w
<1>9. CASE f # 0
  <2> DEFINE g == Len(a) + f
  <2>1. Occurs(w, t, g) /\ f \in Nat \ {0} /\ g \in Nat /\ g # 0
    <3>1. f \in Nat \ {0} /\ Occurs(v, t, f)  BY <1>2, <1>4, <1>9
    <3> HIDE DEF t
    <3> QED  BY <1>2, <1>5, <3>1
  <2>2. ASSUME NEW j \in Nat, j < g PROVE ~ Occurs(w, t, j)
    <3>1. CASE j \in 1 .. Len(a) \/ j = 0  BY <1>6, <1>7, <3>1
    <3>2. CASE ~ (j \in 1 .. Len(a) \/ j = 0)
      <4> DEFINE i == j - Len(a)
      <4>1. i \in Nat \ {0} /\ j = Len(a) + i /\ i < f  BY <1>2, <2>1, <2>2, <3>2
      <4> HIDE DEF i, t, g
      <4> QED  BY <1>4, <1>5, <4>1
    <3> QED  BY <3>1, <3>2
  <2> HIDE DEF g
  <2>3. First(w, t) = g  BY <1>1, <2>1, <2>2, FirstOnly
  <2>4. f + Len(t) <= Len(v) + 1
    <3>1. Occurs(v, t, f)  BY <1>4, <1>9
    <3> QED  BY <3>1 DEF Occurs
  <2>5. After(w, t) = After(v, t)
    <3> DEFINE m == f + Len(t)
    <3>1. m \in 1 .. Len(v) + 1 /\ g + Len(t) = Len(a) + m  BY <1>2, <1>3, <2>1, <2>4 DEF g
    <3>2. SubSeq(w, Len(a) + m, Len(w)) = SubSeq(v, m, Len(v))
      <4> HIDE DEF m
      <4> QED  BY <3>1, CutRight DEF w
    <3>3. After(w, t) = SubSeq(w, g + Len(t), Len(w))  BY <2>3 DEF After
    <3>4. After(v, t) = SubSeq(v, m, Len(v))  BY DEF After, f
    <3> QED  BY <3>1, <3>2, <3>3, <3>4
  <2> DEFINE c == SubSeq(v, 1, f - 1)
  <2>6. SubSeq(w, 1, g - 1) = a \o c
    <3> DEFINE n == f - 1
    <3>1. n \in 0 .. Len(v) /\ g - 1 = Len(a) + n  BY <1>2, <1>4, <2>1 DEF g
    <3> HIDE DEF n
    <3>2. SubSeq(w, 1, Len(a) + n) = a \o SubSeq(v, 1, n)  BY <3>1, CutLeft DEF w
    <3> QED  BY <3>1, <3>2 DEF n
  <2>7. /\ Final(w, b) = Final(After(w, t), ~ b)
        /\ \A k \in Kinds :
                Whole(w, b, k) = On(b, k, SubSeq(w, 1, g - 1)) \o Whole(After(w, t), ~ b, k)
    BY <1>1, <2>1, <2>3, WholeTag
  <2>8. /\ Final(v, b) = Final(After(v, t), ~ b)
        /\ \A k \in Kinds : Whole(v, b, k) = On(b, k, c) \o Whole(After(v, t), ~ b, k)
    BY <1>9, WholeTag DEF f
  <2>9. c \in Text  BY <1>9, SplitTag DEF f
  <2> DEFINE u == After(v, t)
  <2>10. u \in Text /\ (~ b) \in BOOLEAN  BY <1>9, AfterIs DEF f
  <2> HIDE DEF c, u
  <2>11. ASSUME NEW k \in Kinds PROVE Whole(w, b, k) = On(b, k, a) \o Whole(v, b, k)
    <3>1. Whole(u, ~ b, k) \in Text  BY <2>10, SaysFits
    <3>2. On(b, k, a) \in Text /\ On(b, k, a) \o On(b, k, c) = On(b, k, a \o c)
      <4>1. a \in Text  OBVIOUS
      <4>2. On(b, k, a) \in Text /\ Joins(b, k, a, c)  BY Zenon, <2>9, <4>1, OnJoins
      <4> QED  BY <4>2 DEF Joins
    <3> DEFINE oa == On(b, k, a)
               oc == On(b, k, c)
               wu == Whole(u, ~ b, k)
    <3>3. (oa \o oc) \o wu = oa \o (oc \o wu)
      <4>1. oc \in Text  BY Zenon, <2>9, OnJoins
      <4>2. oa \in Seq(Chars) /\ oc \in Seq(Chars) /\ wu \in Seq(Chars)
        BY <3>1, <3>2, <4>1 DEF Text
      <4> HIDE DEF oa, oc, wu
      <4> QED  BY <4>2, Three
    <3>4. Whole(w, b, k) = On(b, k, a \o c) \o Whole(u, ~ b, k)  BY <2>5, <2>6, <2>7 DEF u
    <3>5. Whole(v, b, k) = On(b, k, c) \o Whole(u, ~ b, k)  BY <2>8 DEF u
    <3> QED  BY <3>2, <3>3, <3>4, <3>5
  <2>12. Final(w, b) = Final(v, b)  BY <2>5, <2>7, <2>8
  <2> QED  BY <2>11, <2>12 DEF w
<1> QED  BY <1>8, <1>9

\* Splitting a text leaves the rest of it to go on from what is kept back.
GoesOn(s, r, b) ==
  LET x == SplitRest[s][b]
  IN  /\ Final(s \o r, b) = Final(x.next.pending \o r, x.next.inThink)
      /\ \A k \in Kinds :
           Whole(s \o r, b, k) = Part(x, k) \o Whole(x.next.pending \o r, x.next.inThink, k)

\* Without a tag, the end that may begin one is kept back.
LEMMA GoesOnNone ==
  ASSUME NEW s \in Text, NEW r \in Text, NEW b \in BOOLEAN, First(s, Tag(b)) = 0
  PROVE  GoesOn(s, r, b)
<1> DEFINE t == Tag(b)
           p == Partial(s, t)
           n == Len(s) - p
           x == SplitRest[s][b]
           a == SubSeq(s, 1, n)
           c == SubSeq(s, n + 1, Len(s))
           w == s \o r
<1>1. /\ \A k \in Kinds : Part(x, k) = On(b, k, a)
      /\ x.next = [pending |-> c, inThink |-> b]
  BY SplitNone
<1>2. p \in 0 .. Len(t) - 1 /\ p <= Len(s)  BY PartialIs
<1>3. t \in Text /\ Len(t) \in {2, 3} /\ Len(t) \in Nat /\ Len(s) \in Nat /\ Len(r) \in Nat
  BY TagFits DEF Text
<1>4. p \in Nat
  <2> HIDE DEF p, t
  <2> QED  BY <1>2, <1>3
<1>5. n \in 0 .. Len(s)
  <2> HIDE DEF p
  <2> QED  BY <1>2, <1>3, <1>4
<1>6. \A q \in 1 .. Len(t) - 1 :
        q <= Len(s) /\ (\A k \in 1 .. q : s[Len(s) - q + k] = t[k]) => q <= p
  BY PartialMost
<1>7. \A j \in Nat : ~ Occurs(s, t, j)  BY FirstIs
<1>8. t # <<>>
  <2>1. Len(<<>>) = 0  OBVIOUS
  <2> HIDE DEF t
  <2> QED  BY SMTT(40), <1>3, <2>1
<1>9. n + p = Len(s)
  <2> HIDE DEF p
  <2> QED  BY <1>3, <1>4
<1> HIDE DEF n, p, x
<1>10. a \in Text /\ Len(a) = n
  <2>1. n \in Int /\ 1 \in Int /\ 1 <= 1 /\ n <= Len(s)  BY <1>3, <1>5
  <2>2. a \in Text /\ Len(a) = IF 1 <= n THEN n - 1 + 1 ELSE 0  BY <2>1, CutFits
  <2> HIDE DEF a
  <2> QED  BY <1>5, <2>1, <2>2
<1>11. c \in Text
  <2>1. n + 1 \in Int /\ 1 <= n + 1 /\ Len(s) \in Int /\ Len(s) <= Len(s)  BY <1>3, <1>5
  <2> QED  BY <2>1, CutFits
<1>12. a \o c = s
  <2>1. /\ 1 \in 1 .. Len(s) + 1 /\ n \in 1 - 1 .. Len(s) /\ Len(s) \in n .. Len(s)
    BY <1>3, <1>5
  <2>2. a \o c = SubSeq(s, 1, Len(s))  BY <2>1, ConcatAdjacentSubSeq DEF Text
  <2> QED  BY <2>2, SubSeqFull DEF Text
<1> HIDE DEF a, c
<1>13. a \o (c \o r) = w /\ c \o r \in Text
  <2>1. (a \o c) \o r = a \o (c \o r)
    <3>1. a \in Seq(Chars) /\ c \in Seq(Chars) /\ r \in Seq(Chars)
      BY <1>10, <1>11 DEF Text
    <3> QED  BY <3>1, Three
  <2>2. c \o r \in Text  BY <1>11, ConcatProperties DEF Text
  <2> QED  BY <1>12, <2>1, <2>2
<1>14. w \in Text /\ Len(w) = Len(s) + Len(r) /\ \A j \in 1 .. Len(s) : w[j] = s[j]
  BY ConcatFits DEF Text
<1>15. ASSUME NEW j \in 1 .. Len(a), Occurs(w, t, j) PROVE FALSE
  <2>1. j \in 1 .. n  BY <1>10
  <2>2. CASE j + Len(t) <= Len(s) + 1
    <3>1. Occurs(s, t, j)
      <4>1. j \in Nat  OBVIOUS
      <4> HIDE DEF t
      <4> QED  BY <1>3, <1>8, <1>15, <2>2, <4>1, OccursConcat
    <3>2. j \in Nat  OBVIOUS
    <3> QED  BY <1>7, <3>1, <3>2
  <2>3. CASE ~ (j + Len(t) <= Len(s) + 1)
    <3> DEFINE q == Len(s) - j + 1
    <3>1. q \in 1 .. Len(t) - 1 /\ q <= Len(s) /\ ~ (q <= p)
      <4> HIDE DEF t
      <4> QED  BY <1>3, <1>4, <1>5, <1>9, <2>1, <2>3
    <3>2. ASSUME NEW k \in 1 .. q PROVE s[Len(s) - q + k] = t[k]
      <4>1. /\ Len(s) - q + k = j + k - 1 /\ j + k - 1 \in 1 .. Len(s) /\ k \in 1 .. Len(t)
        <5> HIDE DEF t
        <5> QED  BY <1>3, <1>5, <2>1, <3>1
      <4>2. w[j + k - 1] = t[k]  BY <1>15, <4>1 DEF Occurs
      <4>3. w[j + k - 1] = s[j + k - 1]  BY <1>14, <4>1
      <4> QED  BY <4>1, <4>2, <4>3
    <3> HIDE DEF q, t
    <3> QED  BY <1>6, <3>1, <3>2
  <2> QED  BY <2>2, <2>3
<1> DEFINE v == c \o r
<1>16. \A j \in 1 .. Len(a) : ~ Occurs(a \o v, Tag(b), j)
  BY <1>13, <1>15
<1>17. v \in Text  BY <1>13
<1> HIDE DEF v
<1>18. /\ Final(a \o v, b) = Final(v, b)
       /\ \A k \in Kinds : Whole(a \o v, b, k) = On(b, k, a) \o Whole(v, b, k)
  BY <1>10, <1>16, <1>17, SkipSays
<1>19. a \o v = w  BY <1>13 DEF v
<1>20. x.next.pending = c /\ x.next.inThink = b  BY <1>1
<1>21. Final(w, b) = Final(v, b)  BY <1>18, <1>19
<1>22. \A k \in Kinds : Whole(w, b, k) = Part(x, k) \o Whole(v, b, k)  BY <1>1, <1>18, <1>19
<1>23. GoesOn(s, r, b) <=>
         /\ Final(w, b) = Final(x.next.pending \o r, x.next.inThink)
         /\ \A k \in Kinds :
              Whole(w, b, k) = Part(x, k) \o Whole(x.next.pending \o r, x.next.inThink, k)
  BY DEF GoesOn, x
<1> HIDE DEF w
<1> QED  BY <1>20, <1>21, <1>22, <1>23 DEF v

\* What is said up to a tag.
LEMMA PartTag ==
  ASSUME NEW s \in Text, NEW b \in BOOLEAN, First(s, Tag(b)) # 0
  PROVE  LET x == SplitRest[s][b]
             y == SplitRest[After(s, Tag(b))][~ b]
             out == SubSeq(s, 1, First(s, Tag(b)) - 1)
         IN  /\ x.next = y.next
             /\ \A k \in Kinds : Part(x, k) = On(b, k, out) \o Part(y, k)
<1> DEFINE u == After(s, Tag(b))
           x == SplitRest[s][b]
           y == SplitRest[u][~ b]
           out == SubSeq(s, 1, First(s, Tag(b)) - 1)
<1>1. u \in Text /\ (~ b) \in BOOLEAN  BY AfterIs
<1>2. y \in Outs  BY <1>1, SplitFits
<1>3. /\ x = [text |-> IF b THEN y.text ELSE out \o y.text,
              reason |-> IF b THEN out \o y.reason ELSE y.reason,
              next |-> y.next]
      /\ out \in Text
  BY SplitTag
<1> HIDE DEF u, x, y, out
<1>4. x.next = y.next  BY <1>3
<1>5. ASSUME NEW k \in Kinds PROVE Part(x, k) = On(b, k, out) \o Part(y, k)
  <2>1. y.text \in Text /\ y.reason \in Text  BY <1>2 DEF Outs
  <2>2. <<>> \o y.text = y.text /\ <<>> \o y.reason = y.reason  BY <2>1, ConcatEmptySeq DEF Text
  <2>3. CASE b = (k = "reason")
    <3>1. On(b, k, out) = out  BY <2>3 DEF On
    <3>2. Part(x, k) = out \o Part(y, k)  BY <1>3, <2>3 DEF Part, Kinds
    <3> QED  BY <3>1, <3>2
  <2>4. CASE b # (k = "reason")
    <3>1. On(b, k, out) = <<>>  BY <2>4 DEF On
    <3>2. Part(x, k) = Part(y, k)  BY <1>3, <2>4 DEF Part, Kinds
    <3>3. <<>> \o Part(y, k) = Part(y, k)  BY <2>2 DEF Part
    <3> QED  BY <3>1, <3>2, <3>3
  <2> QED  BY <2>3, <2>4
<1> QED  BY <1>4, <1>5 DEF x, y, out, u

\* With a tag, what is behind it goes on on the other side.
LEMMA GoesOnTag ==
  ASSUME NEW s \in Text, NEW r \in Text, NEW b \in BOOLEAN, First(s, Tag(b)) # 0,
         GoesOn(After(s, Tag(b)), r, ~ b)
  PROVE  GoesOn(s, r, b)
<1> DEFINE t == Tag(b)
           i == First(s, t)
           u == After(s, t)
           x == SplitRest[s][b]
           d == ~ b
           y == SplitRest[u][d]
           out == SubSeq(s, 1, i - 1)
           w == s \o r
<1>1. t \in Text /\ Len(t) \in {2, 3} /\ Len(t) \in Nat /\ Len(s) \in Nat /\ Len(r) \in Nat
  BY TagFits DEF Text
<1>2. t # <<>>
  <2>1. Len(<<>>) = 0  OBVIOUS
  <2> HIDE DEF t
  <2> QED  BY <1>1, <2>1
<1>3. i \in 0 .. Len(s) /\ Occurs(s, t, i) /\ \A j \in Nat : j < i => ~ Occurs(s, t, j)
  BY FirstIs
<1>4. w \in Text  BY ConcatProperties DEF Text
<1>5. u \in Text /\ d \in BOOLEAN  BY AfterIs
<1>6. x.next = y.next /\ \A k \in Kinds : Part(x, k) = On(b, k, out) \o Part(y, k)
  BY PartTag
<1>7. out \in Text  BY SplitTag
<1>8. After(s, t) = SubSeq(s, i + Len(t), Len(s))  BY DEF After
<1>9. i # 0  OBVIOUS
<1> HIDE DEF i
<1>10. i \in 1 .. Len(s) /\ i + Len(t) <= Len(s) + 1 /\ i \in Nat
  BY <1>3 DEF Occurs
<1>11. Occurs(w, t, i)
  <2> HIDE DEF t
  <2> QED  BY <1>1, <1>2, <1>3, <1>10, OccursConcat
<1>12. ASSUME NEW j \in Nat, j < i PROVE ~ Occurs(w, t, j)
  <2>1. j + Len(t) <= Len(s) + 1
    <3> HIDE DEF t
    <3> QED  BY <1>1, <1>10, <1>12
  <2> HIDE DEF t
  <2> QED  BY <1>1, <1>2, <1>3, <1>12, <2>1, OccursConcat
<1>13. First(w, t) = i  BY <1>4, <1>10, <1>11, <1>12, FirstOnly
<1>14. After(w, t) = u \o r
  <2> DEFINE m == i + Len(t)
  <2>1. m \in 1 .. Len(s) + 1
    <3> HIDE DEF t
    <3> QED  BY <1>1, <1>10
  <2>2. SubSeq(w, m, Len(w)) = SubSeq(s, m, Len(s)) \o r
    <3> HIDE DEF m
    <3> QED  BY <2>1, CutThrough
  <2>3. After(w, t) = SubSeq(w, m, Len(w))  BY <1>13 DEF After
  <2> QED  BY <1>8, <2>2, <2>3
<1>15. SubSeq(w, 1, i - 1) = out
  <2> DEFINE n == i - 1
  <2>1. n \in 0 .. Len(s)  BY <1>1, <1>10
  <2> HIDE DEF n
  <2>2. SubSeq(s \o r, 1, n) = SubSeq(s, 1, n)  BY <2>1, CutLeft
  <2> QED  BY <2>2 DEF n
<1>16. /\ Final(w, b) = Final(After(w, t), d)
       /\ \A k \in Kinds :
            Whole(w, b, k) = On(b, k, SubSeq(w, 1, i - 1)) \o Whole(After(w, t), d, k)
  BY <1>4, <1>9, <1>13, WholeTag
<1> DEFINE q == y.next.pending
           z == y.next.inThink
<1>17. /\ Final(u \o r, d) = Final(q \o r, z)
       /\ \A k \in Kinds : Whole(u \o r, d, k) = Part(y, k) \o Whole(q \o r, z, k)
  BY DEF GoesOn
<1>18. q \in Text /\ z \in BOOLEAN /\ \A k \in Kinds : Part(y, k) \in Text
  <2>1. y \in Outs  BY <1>5, SplitFits
  <2> HIDE DEF y, u, d
  <2>2. y.next \in Plainly /\ y.text \in Text /\ y.reason \in Text  BY <2>1 DEF Outs
  <2>3. y.next.pending \in Seq(Plain) /\ y.next.inThink \in BOOLEAN  BY <2>2 DEF Plainly
  <2>4. Plain \subseteq Chars  BY DEF Plain
  <2>5. y.next.pending \in Text  BY <2>3, <2>4, SeqMonotonic DEF Text
  <2> QED  BY <2>2, <2>3, <2>5 DEF Part
<1>19. q \o r \in Text
  <2> HIDE DEF q
  <2> QED  BY <1>18, ConcatProperties DEF Text
<1> HIDE DEF u, x, y, out, d, t, w, q, z
<1> DEFINE v == q \o r
<1>20. ASSUME NEW k \in Kinds PROVE Whole(w, b, k) = Part(x, k) \o Whole(v, z, k)
  <2> DEFINE oa == On(b, k, out)
             pa == Part(y, k)
             wa == Whole(v, z, k)
  <2>1. oa \in Seq(Chars) /\ pa \in Seq(Chars) /\ wa \in Seq(Chars)
    <3>1. oa \in Text  BY <1>7, OnConcat
    <3>2. wa \in Text
      <4> HIDE DEF v
      <4>1. v \in Text  BY <1>19 DEF v
      <4> QED  BY <1>18, <4>1, SaysFits
    <3> QED  BY <1>18, <3>1, <3>2 DEF Text
  <2>2. Whole(w, b, k) = oa \o (pa \o wa)  BY <1>14, <1>15, <1>16, <1>17
  <2>3. Part(x, k) = oa \o pa  BY <1>6
  <2> HIDE DEF oa, pa, wa
  <2>4. (oa \o pa) \o wa = oa \o (pa \o wa)  BY <2>1, Three
  <2> QED  BY <2>2, <2>3, <2>4 DEF wa
<1>21. Final(w, b) = Final(v, z)  BY <1>14, <1>16, <1>17
<1>22. x.next.pending = q /\ x.next.inThink = z  BY <1>6 DEF q, z
<1>23. GoesOn(s, r, b) <=>
         /\ Final(w, b) = Final(x.next.pending \o r, x.next.inThink)
         /\ \A k \in Kinds :
              Whole(w, b, k) = Part(x, k) \o Whole(x.next.pending \o r, x.next.inThink, k)
  BY DEF GoesOn, x, w
<1> QED  BY <1>20, <1>21, <1>22, <1>23

\* So it is for every text, by the length of what comes first.
LEMMA SplitGoesOn == \A s \in Text, r \in Text, b \in BOOLEAN : GoesOn(s, r, b)
<1>0. \A s \in Text : Len(s) \in Nat  BY DEF Text
<1> DEFINE N == {n \in Nat : \A s \in Text, r \in Text, b \in BOOLEAN :
                              Len(s) < n => GoesOn(s, r, b)}
<1>1. 0 \in N  BY <1>0
<1>2. ASSUME NEW n \in Nat, n \in N PROVE n + 1 \in N
  <2>0. \A s \in Text, r \in Text, b \in BOOLEAN : Len(s) < n => GoesOn(s, r, b)  BY <1>2
  <2>1. ASSUME NEW s \in Text, NEW r \in Text, NEW b \in BOOLEAN, Len(s) < n + 1
        PROVE  GoesOn(s, r, b)
    <3>1. CASE First(s, Tag(b)) = 0  BY <3>1, GoesOnNone
    <3>2. CASE First(s, Tag(b)) # 0
      <4>1. /\ After(s, Tag(b)) \in Text /\ Len(After(s, Tag(b))) \in Nat
            /\ Len(After(s, Tag(b))) < Len(s)
        BY <3>2, AfterIs
      <4>2. Len(After(s, Tag(b))) < n /\ (~ b) \in BOOLEAN  BY <1>0, <2>1, <4>1
      <4>3. GoesOn(After(s, Tag(b)), r, ~ b)  BY <2>0, <4>1, <4>2
      <4> QED  BY <3>2, <4>3, GoesOnTag
    <3> QED  BY <3>1, <3>2
  <2> HIDE DEF N
  <2>2. \A s \in Text, r \in Text, b \in BOOLEAN : Len(s) < n + 1 => GoesOn(s, r, b)  BY <2>1
  <2> QED  BY <2>2 DEF N
<1>3. Nat \subseteq N
  <2> HIDE DEF N
  <2> QED  BY <1>1, <1>2, SetInduction
<1>4. ASSUME NEW s \in Text, NEW r \in Text, NEW b \in BOOLEAN PROVE GoesOn(s, r, b)
  <2>1. Len(s) + 1 \in N /\ Len(s) < Len(s) + 1  BY <1>0, <1>3
  <2> QED  BY <2>1
<1> QED  BY <1>4

\* A text without an end of a tag holds no tag.
LEMMA PlainHasNone ==
  ASSUME NEW s \in Seq(Plain), NEW b \in BOOLEAN
  PROVE  s \in Text /\ \A j \in Nat : ~ Occurs(s, Tag(b), j)
<1>1. Plain \subseteq Chars  BY DEF Plain
<1>2. s \in Text  BY <1>1, SeqMonotonic DEF Text
<1> DEFINE t == Tag(b)
<1>3. Len(t) \in {2, 3} /\ t[Len(t)] = ">"  BY TagFits
<1>4. Len(s) \in Nat /\ \A i \in 1 .. Len(s) : s[i] # ">"
  <2>1. \A i \in 1 .. Len(s) : s[i] \in Plain  OBVIOUS
  <2> QED  BY <1>2, <2>1 DEF Plain, Text
<1>5. ASSUME NEW j \in Nat, Occurs(s, t, j) PROVE FALSE
  <2>1. /\ j \in 1 .. Len(s) /\ j + Len(t) <= Len(s) + 1
        /\ \A k \in 1 .. Len(t) : s[j + k - 1] = t[k]
    BY <1>5 DEF Occurs
  <2> HIDE DEF t
  <2>2. Len(t) \in 1 .. Len(t) /\ j + Len(t) - 1 \in 1 .. Len(s)
    <3> DEFINE n == Len(t)
               m == Len(s)
    <3>1. (n = 2 \/ n = 3) /\ m \in Nat /\ j \in 1 .. m /\ j + n <= m + 1  BY <1>3, <1>4, <2>1
    <3> HIDE DEF n, m
    <3>2. n \in 1 .. n /\ j + n - 1 \in 1 .. m  BY <3>1
    <3> QED  BY <3>2 DEF n, m
  <2> QED  BY <1>3, <1>4, <2>1, <2>2
<1> QED  BY <1>2, <1>5

\* It is said on the side it begins on.
LEMMA PlainSays ==
  ASSUME NEW s \in Seq(Plain), NEW b \in BOOLEAN
  PROVE  s \in Text /\ Final(s, b) = b /\ \A k \in Kinds : Whole(s, b, k) = On(b, k, s)
<1>1. s \in Text /\ \A j \in Nat : ~ Occurs(s, Tag(b), j)  BY PlainHasNone
<1>2. First(s, Tag(b)) = 0  BY <1>1, FirstOnly
<1> QED  BY <1>1, <1>2, WholeNone

\* Nothing says nothing.
LEMMA NothingSays ==
  ASSUME NEW b \in BOOLEAN
  PROVE  <<>> \in Text /\ Final(<<>>, b) = b /\ \A k \in Kinds : Whole(<<>>, b, k) = <<>>
<1>1. <<>> \in Seq(Plain)  OBVIOUS
<1>2. <<>> \in Text /\ Final(<<>>, b) = b /\ \A k \in Kinds : Whole(<<>>, b, k) = On(b, k, <<>>)
  BY <1>1, PlainSays
<1>3. \A k : On(b, k, <<>>) = <<>>  BY DEF On
<1> QED  BY <1>2, <1>3

\* What x keeps back, and what is said of s with it, by name.
LEMMA KeptFacts ==
  ASSUME NEW s \in Text, NEW b \in BOOLEAN
  PROVE  LET z == SplitRest[s][b].next
         IN  /\ z.pending \in Seq(Plain) /\ z.pending \in Text /\ z.inThink \in BOOLEAN
             /\ Final(s, b) = z.inThink
             /\ \A k \in Kinds : Part(SplitRest[s][b], k) \in Text
             /\ \A k \in Kinds :
                  Whole(s, b, k) = Part(SplitRest[s][b], k) \o On(z.inThink, k, z.pending)
<1> DEFINE x == SplitRest[s][b]
           z == x.next
<1>1. x \in Outs  BY SplitFits
<1>2. Final(s, b) = z.inThink  BY DEF Final
<1>3. \A k \in Kinds : Whole(s, b, k) = Part(x, k) \o On(z.inThink, k, z.pending)
  BY DEF Whole, Held
<1> HIDE DEF x
<1>4. z \in Plainly /\ \A k \in Kinds : Part(x, k) \in Text  BY <1>1 DEF Outs, Part
<1>5. z.pending \in Seq(Plain) /\ z.inThink \in BOOLEAN  BY <1>4 DEF Plainly
<1>6. z.pending \in Text  BY <1>5, PlainSays
<1> QED  BY <1>2, <1>3, <1>4, <1>5, <1>6 DEF x

\* More of what is said on the side the text is on.
LEMMA PlainGoesOn ==
  ASSUME NEW s \in Text, NEW r \in Seq(Plain), NEW b \in BOOLEAN
  PROVE  /\ Final(s \o r, b) = Final(s, b)
         /\ \A k \in Kinds : Whole(s \o r, b, k) = Whole(s, b, k) \o On(Final(s, b), k, r)
<1> DEFINE x == SplitRest[s][b]
           p == x.next.pending
           f == x.next.inThink
           q == p \o r
<1>1. /\ p \in Seq(Plain) /\ p \in Text /\ f \in BOOLEAN /\ Final(s, b) = f
      /\ \A k \in Kinds : Part(x, k) \in Text
      /\ \A k \in Kinds : Whole(s, b, k) = Part(x, k) \o On(f, k, p)
  BY KeptFacts
<1>2. r \in Text  BY PlainSays
<1>3. GoesOn(s, r, b)  BY <1>2, SplitGoesOn
<1>4. /\ Final(s \o r, b) = Final(q, f)
      /\ \A k \in Kinds : Whole(s \o r, b, k) = Part(x, k) \o Whole(q, f, k)
  BY <1>3 DEF GoesOn
<1> HIDE DEF x, p, f
<1>5. q \in Seq(Plain)  BY <1>1, ConcatProperties
<1> HIDE DEF q
<1>6. Final(q, f) = f /\ \A k \in Kinds : Whole(q, f, k) = On(f, k, q)
  BY <1>1, <1>5, PlainSays
<1>7. ASSUME NEW k \in Kinds PROVE Whole(s \o r, b, k) = Whole(s, b, k) \o On(f, k, r)
  <2> DEFINE a == Part(x, k)
             c == On(f, k, p)
             d == On(f, k, r)
  <2>1. c \o d = On(f, k, q) /\ c \in Text
    <3>1. On(f, k, p) \in Text /\ On(f, k, p) \o On(f, k, r) = On(f, k, p \o r)
      <4>1. On(f, k, p) \in Text /\ Joins(f, k, p, r)  BY Zenon, <1>1, <1>2, OnJoins
      <4> QED  BY <4>1 DEF Joins
    <3> QED  BY <3>1 DEF q
  <2>2. d \in Text  BY <1>1, <1>2, OnConcat
  <2>3. a \in Seq(Chars) /\ c \in Seq(Chars) /\ d \in Seq(Chars)
    BY <1>1, <2>1, <2>2 DEF Text
  <2>4. Whole(s \o r, b, k) = a \o On(f, k, q) /\ Whole(s, b, k) = a \o c  BY <1>1, <1>4, <1>6
  <2> HIDE DEF a, c, d
  <2>5. (a \o c) \o d = a \o (c \o d)  BY <2>3, Three
  <2> QED  BY <2>1, <2>4, <2>5 DEF d
<1> QED  BY <1>1, <1>4, <1>6, <1>7

\* A tag turns to the other side.
LEMMA PlainTag ==
  ASSUME NEW p \in Seq(Plain), NEW f \in BOOLEAN
  PROVE  /\ Final(p \o Tag(f), f) = ~ f
         /\ \A k \in Kinds : Whole(p \o Tag(f), f, k) = On(f, k, p)
<1> DEFINE t == Tag(f)
           w == p \o t
           l == Len(p) + 1
<1>1. p \in Text  BY PlainSays
<1>2. /\ t \in Text /\ Len(t) \in {2, 3} /\ t[Len(t)] = ">"
      /\ \A i \in 1 .. Len(t) - 1 : t[i] # ">"
  BY TagFits
<1>3. Len(p) \in Nat /\ Len(t) \in Nat /\ \A i \in 1 .. Len(p) : p[i] # ">"
  <2>1. \A i \in 1 .. Len(p) : p[i] \in Plain  OBVIOUS
  <2> QED  BY <1>1, <1>2, <2>1 DEF Plain, Text
<1>4. t # <<>>
  <2>1. Len(<<>>) = 0  OBVIOUS
  <2> HIDE DEF t
  <2> QED  BY <1>2, <2>1
<1>5. /\ w \in Text /\ Len(w) = Len(p) + Len(t)
      /\ \A j \in 1 .. Len(p) : w[j] = p[j]
      /\ \A j \in 1 .. Len(t) : w[Len(p) + j] = t[j]
  <2>1. p \in Seq(Chars) /\ t \in Seq(Chars)  BY <1>1, <1>2 DEF Text
  <2> HIDE DEF t
  <2> QED  BY <2>1, ConcatFits DEF Text
<1>6. Occurs(w, t, l)
  <2>1. l \in 1 .. Len(w) /\ l + Len(t) <= Len(w) + 1
    <3> HIDE DEF t, w
    <3> QED  BY SMTT(40), <1>2, <1>3, <1>5
  <2>2. ASSUME NEW k \in 1 .. Len(t) PROVE w[l + k - 1] = t[k]
    <3>1. l + k - 1 = Len(p) + k
      <4> HIDE DEF t
      <4> QED  BY <1>3
    <3> QED  BY <1>5, <3>1
  <2> QED  BY <2>1, <2>2 DEF Occurs
<1>7. ASSUME NEW j \in Nat, j < l, Occurs(w, t, j) PROVE FALSE
  <2>1. /\ j \in 1 .. Len(w) /\ j + Len(t) <= Len(w) + 1
        /\ \A k \in 1 .. Len(t) : w[j + k - 1] = t[k]
    BY <1>7 DEF Occurs
  <2> DEFINE e == j + Len(t) - 1
  <2> HIDE DEF t, w
  <2>2. w[e] = ">"
    <3>1. Len(t) \in 1 .. Len(t)  BY <1>2, <1>3
    <3> QED  BY <1>2, <2>1, <3>1
  <2>3. CASE e <= Len(p)
    <3>1. e \in 1 .. Len(p)  BY <1>2, <1>3, <2>1, <2>3
    <3> HIDE DEF e
    <3> QED  BY <1>3, <1>5, <2>2, <3>1
  <2>4. CASE ~ (e <= Len(p))
    <3> DEFINE i == e - Len(p)
    <3>1. i \in 1 .. Len(t) /\ i \in 1 .. Len(t) - 1 /\ e = Len(p) + i
      BY <1>2, <1>3, <1>7, <2>1, <2>4
    <3> HIDE DEF i, e
    <3> QED  BY <1>2, <1>5, <2>2, <3>1
  <2> QED  BY <2>3, <2>4
<1>8. First(w, t) = l
  <2>1. l \in Nat  BY <1>3
  <2> HIDE DEF l, w
  <2> QED  BY <1>5, <1>6, <1>7, <2>1, FirstOnly
<1>9. After(w, t) = <<>>
  <2>1. After(w, t) = SubSeq(w, l + Len(t), Len(w))  BY <1>8 DEF After
  <2> DEFINE m == l + Len(t)
  <2>2. m \in Int /\ Len(w) \in Int /\ Len(w) < m
    <3> HIDE DEF t, w
    <3> QED  BY <1>2, <1>3, <1>5
  <2> HIDE DEF m
  <2>3. SubSeq(w, m, Len(w)) = <<>>  BY <2>2, SubSeqEmpty
  <2> QED  BY <2>1, <2>3 DEF m
<1>10. SubSeq(w, 1, l - 1) = p
  <2>1. Len(p) \in 0 .. Len(p) /\ l - 1 = Len(p)  BY <1>3
  <2>2. SubSeq(w, 1, Len(p)) = SubSeq(p, 1, Len(p))
    <3> HIDE DEF t
    <3> QED  BY <1>1, <1>2, <2>1, CutLeft
  <2>3. SubSeq(p, 1, Len(p)) = p  BY SubSeqFull
  <2> QED  BY <2>1, <2>2, <2>3
<1>11. l # 0  BY <1>3
<1> HIDE DEF l, w
<1>12. /\ Final(w, f) = Final(After(w, t), ~ f)
       /\ \A k \in Kinds :
            Whole(w, f, k) = On(f, k, SubSeq(w, 1, l - 1)) \o Whole(After(w, t), ~ f, k)
  BY <1>5, <1>8, <1>11, WholeTag
<1>13. Final(<<>>, ~ f) = ~ f /\ \A k \in Kinds : Whole(<<>>, ~ f, k) = <<>>
  <2> DEFINE g == ~ f
  <2>1. g \in BOOLEAN  OBVIOUS
  <2> HIDE DEF g
  <2>2. Final(<<>>, g) = g /\ \A k \in Kinds : Whole(<<>>, g, k) = <<>>  BY <2>1, NothingSays
  <2> QED  BY <2>2 DEF g
<1>14. \A k : On(f, k, p) \o <<>> = On(f, k, p)
  <2>1. \A k : On(f, k, p) \in Text  BY <1>1, OnConcat
  <2> QED  BY <2>1, ConcatEmptySeq DEF Text
<1> QED  BY <1>9, <1>10, <1>12, <1>13, <1>14 DEF w

\* A tag behind a text says nothing, and what follows is on the other side of it.
LEMMA TagGoesOn ==
  ASSUME NEW s \in Text, NEW b \in BOOLEAN
  PROVE  /\ s \o Tag(Final(s, b)) \in Text
         /\ Final(s \o Tag(Final(s, b)), b) = ~ Final(s, b)
         /\ \A k \in Kinds : Whole(s \o Tag(Final(s, b)), b, k) = Whole(s, b, k)
<1> DEFINE x == SplitRest[s][b]
           p == x.next.pending
           f == x.next.inThink
           t == Tag(f)
           q == p \o t
<1>1. /\ p \in Seq(Plain) /\ p \in Text /\ f \in BOOLEAN /\ Final(s, b) = f
      /\ \A k \in Kinds : Whole(s, b, k) = Part(x, k) \o On(f, k, p)
  BY KeptFacts
<1> HIDE DEF f
<1>2. t \in Text  BY <1>1, TagFits
<1> HIDE DEF t
<1>3. GoesOn(s, t, b)  BY <1>2, SplitGoesOn
<1>4. /\ Final(s \o t, b) = Final(q, f)
      /\ \A k \in Kinds : Whole(s \o t, b, k) = Part(x, k) \o Whole(q, f, k)
  BY <1>3 DEF GoesOn, f
<1> HIDE DEF x, p
<1>5. Final(q, f) = ~ f /\ \A k \in Kinds : Whole(q, f, k) = On(f, k, p)
  BY <1>1, PlainTag DEF t
<1>6. s \o t \in Text  BY <1>2, ConcatProperties DEF Text
<1> HIDE DEF q
<1>7. /\ Final(s \o t, b) = ~ f
      /\ \A k \in Kinds : Whole(s \o t, b, k) = Whole(s, b, k)
  BY <1>1, <1>4, <1>5
<1> QED  BY <1>1, <1>6, <1>7 DEF t

-----------------------------------------------------------------------------
(* Sequences that are put together from what f makes of the elements of another. *)

Mapped(f, s) == FlattenSeq([i \in 1 .. Len(s) |-> f[s[i]]])

\* Its type, of nothing, and of one element more.
LEMMA MappedFits ==
  ASSUME NEW S, NEW R, NEW f \in [S -> Seq(R)]
  PROVE  /\ Mapped(f, <<>>) = <<>>
         /\ \A s \in Seq(S) : Mapped(f, s) \in Seq(R)
         /\ \A s \in Seq(S), e \in S : Mapped(f, Append(s, e)) = Mapped(f, s) \o f[e]
<1>1. Mapped(f, <<>>) = <<>>
  <2>1. [i \in 1 .. Len(<<>>) |-> f[(<<>>)[i]]] = <<>>  OBVIOUS
  <2> QED  BY <2>1, FlattenFits DEF Mapped
<1>2. ASSUME NEW s \in Seq(S)
      PROVE  /\ [i \in 1 .. Len(s) |-> f[s[i]]] \in Seq(Seq(R))
             /\ Mapped(f, s) \in Seq(R)
  <2> DEFINE g == [i \in 1 .. Len(s) |-> f[s[i]]]
  <2>1. \A i \in 1 .. Len(s) : f[s[i]] \in Seq(R)  OBVIOUS
  <2>2. g \in Seq(Seq(R))  BY <2>1
  <2> HIDE DEF g
  <2>3. FlattenSeq(g) \in Seq(R)  BY <2>2, FlattenFits
  <2> QED  BY <2>2, <2>3 DEF Mapped, g
<1>3. ASSUME NEW s \in Seq(S), NEW e \in S
      PROVE  Mapped(f, Append(s, e)) = Mapped(f, s) \o f[e]
  <2> DEFINE t == Append(s, e)
             g == [i \in 1 .. Len(s) |-> f[s[i]]]
             h == [i \in 1 .. Len(t) |-> f[t[i]]]
  <2>1. /\ t \in Seq(S) /\ Len(t) = Len(s) + 1 /\ Len(s) \in Nat
        /\ t[Len(s) + 1] = e /\ \A i \in 1 .. Len(s) : t[i] = s[i]
    BY AppendFits
  <2> HIDE DEF t
  <2>2. g \in Seq(Seq(R)) /\ h \in Seq(Seq(R))  BY <1>2, <2>1
  <2>3. f[e] \in Seq(R)  OBVIOUS
  <2>4. Len(g) = Len(s) /\ Len(h) = Len(s) + 1 /\ h[Len(s) + 1] = f[e]
        /\ \A i \in 1 .. Len(s) : h[i] = f[s[i]] /\ g[i] = f[s[i]]
    BY <2>1
  <2> HIDE DEF g, h
  <2>5. h = Append(g, f[e])
    <3> DEFINE w == Append(g, f[e])
    <3>1. /\ w \in Seq(Seq(R)) /\ Len(w) = Len(g) + 1
          /\ w[Len(g) + 1] = f[e] /\ \A i \in 1 .. Len(g) : w[i] = g[i]
      BY <2>2, <2>3, AppendFits
    <3> HIDE DEF w
    <3>2. Len(h) = Len(w)  BY <2>4, <3>1
    <3>3. \A i \in 1 .. Len(h) : h[i] = w[i]
      <4>1. ASSUME NEW i \in 1 .. Len(h) PROVE h[i] = w[i]
        <5>1. i \in 1 .. Len(s) \/ i = Len(s) + 1  BY <2>1, <2>4
        <5> QED  BY <2>4, <3>1, <5>1
      <4> QED  BY <4>1
    <3>4. h = w  BY <2>2, <3>1, <3>2, <3>3, SeqEqual
    <3> QED  BY <3>4 DEF w
  <2>6. FlattenSeq(h) = FlattenSeq(g) \o f[e]  BY <2>2, <2>3, <2>5, FlattenAppend
  <2> QED  BY <2>6 DEF Mapped, g, h, t
<1> QED  BY <1>1, <1>2, <1>3

\* Of one, and of two one after the other.
LEMMA MappedConcat ==
  ASSUME NEW S, NEW R, NEW f \in [S -> Seq(R)]
  PROVE  /\ \A e \in S : Mapped(f, <<e>>) = f[e]
         /\ \A s \in Seq(S), t \in Seq(S) : Mapped(f, s \o t) = Mapped(f, s) \o Mapped(f, t)
<1>1. /\ Mapped(f, <<>>) = <<>>
      /\ \A s \in Seq(S) : Mapped(f, s) \in Seq(R)
      /\ \A s \in Seq(S), e \in S : Mapped(f, Append(s, e)) = Mapped(f, s) \o f[e]
  BY MappedFits
<1>2. ASSUME NEW e \in S PROVE Mapped(f, <<e>>) = f[e]
  <2>1. Append(<<>>, e) = <<e>> /\ <<>> \in Seq(S)  OBVIOUS
  <2>2. Mapped(f, Append(<<>>, e)) = Mapped(f, <<>>) \o f[e]  BY <1>1, <2>1
  <2>3. <<>> \o f[e] = f[e]  BY ConcatEmptySeq
  <2> QED  BY <1>1, <2>1, <2>2, <2>3
<1> DEFINE Splits2(s, t) == Mapped(f, s \o t) = Mapped(f, s) \o Mapped(f, t)
           N == {n \in Nat : \A s \in Seq(S), t \in Seq(S) : Len(t) = n => Splits2(s, t)}
<1>3. 0 \in N
  <2>1. ASSUME NEW s \in Seq(S), NEW t \in Seq(S), Len(t) = 0 PROVE Splits2(s, t)
    <3>1. t = <<>>  BY <2>1
    <3>2. s \o <<>> = s  BY ConcatEmptySeq
    <3>3. Mapped(f, s) \o <<>> = Mapped(f, s)
      <4>1. Mapped(f, s) \in Seq(R)  BY <1>1
      <4> QED  BY <4>1, ConcatEmptySeq
    <3> QED  BY <1>1, <3>1, <3>2, <3>3
  <2> HIDE DEF Splits2
  <2> QED  BY <2>1
<1>4. ASSUME NEW n \in Nat, n \in N PROVE n + 1 \in N
  <2>1. \A s \in Seq(S), t \in Seq(S) : Len(t) = n => Splits2(s, t)  BY <1>4
  <2>2. ASSUME NEW s \in Seq(S), NEW t \in Seq(S), Len(t) = n + 1 PROVE Splits2(s, t)
    <3>1. t # <<>>  BY <2>2
    <3>2. PICK u \in Seq(S), e \in S : t = Append(u, e)  BY <3>1, SequenceEmptyOrAppend
    <3>3. Len(u) = n
      <4>1. Len(Append(u, e)) = Len(u) + 1 /\ Len(u) \in Nat  BY AppendFits
      <4> QED  BY <2>2, <3>2, <4>1
    <3>4. Mapped(f, s \o u) = Mapped(f, s) \o Mapped(f, u)
      <4>1. Splits2(s, u)  BY <2>1, <3>3
      <4> QED  BY <4>1
    <3>5. s \o t = Append(s \o u, e) /\ s \o u \in Seq(S)
      <4> DEFINE q == <<e>>
      <4>1. q \in Seq(S) /\ s \o u \in Seq(S)  BY ConcatProperties
      <4>2. Append(u, e) = u \o q /\ Append(s \o u, e) = (s \o u) \o q
        BY <4>1, AppendIsConcat
      <4> HIDE DEF q
      <4>3. (s \o u) \o q = s \o (u \o q)  BY SMTT(40), <4>1, Three
      <4> QED  BY <3>2, <4>1, <4>2, <4>3
    <3>6. Mapped(f, s \o t) = Mapped(f, s \o u) \o f[e] /\ Mapped(f, t) = Mapped(f, u) \o f[e]
      BY <1>1, <3>2, <3>5
    <3> DEFINE a == Mapped(f, s)
               c == Mapped(f, u)
               d == f[e]
    <3>7. a \in Seq(R) /\ c \in Seq(R) /\ d \in Seq(R)  BY <1>1
    <3>8. Mapped(f, s \o t) = (a \o c) \o d /\ Mapped(f, t) = c \o d  BY <3>4, <3>6
    <3>9. (a \o c) \o d = a \o (c \o d)
      <4> HIDE DEF a, c, d, N, Splits2
      <4>1. \A x \in Seq(R), y \in Seq(R), z \in Seq(R) : (x \o y) \o z = x \o (y \o z)
        BY SMTT(40), Three
      <4> QED  BY <3>7, <4>1
    <3> QED  BY <3>8, <3>9
  <2> HIDE DEF N, Splits2
  <2>3. \A s \in Seq(S), t \in Seq(S) : Len(t) = n + 1 => Splits2(s, t)  BY <2>2
  <2> QED  BY <2>3 DEF N
<1>5. Nat \subseteq N
  <2> HIDE DEF N
  <2> QED  BY <1>3, <1>4, SetInduction
<1> HIDE DEF Splits2
<1>6. ASSUME NEW s \in Seq(S), NEW t \in Seq(S) PROVE Splits2(s, t)
  <2>1. Len(t) \in N  BY <1>5
  <2> QED  BY <2>1
<1> QED  BY <1>2, <1>6 DEF Splits2

\* Two that make the same of elements one by one.
LEMMA MappedSame ==
  ASSUME NEW f, NEW g, NEW s, NEW t, Len(s) = Len(t), \A i \in 1 .. Len(s) : f[s[i]] = g[t[i]]
  PROVE  Mapped(f, s) = Mapped(g, t)
<1>1. [i \in 1 .. Len(s) |-> f[s[i]]] = [i \in 1 .. Len(t) |-> g[t[i]]]  OBVIOUS
<1> QED  BY <1>1 DEF Mapped

\* Putting each as it is gives the sequence.
LEMMA MappedSingles ==
  ASSUME NEW S, NEW s \in Seq(S)
  PROVE  Mapped([e \in S |-> <<e>>], s) = s
<1> DEFINE f == [e \in S |-> <<e>>]
<1>1. f \in [S -> Seq(S)] /\ \A e \in S : f[e] = <<e>>  OBVIOUS
<1> HIDE DEF f
<1>2. /\ Mapped(f, <<>>) = <<>>
      /\ \A u \in Seq(S), e \in S : Mapped(f, Append(u, e)) = Mapped(f, u) \o f[e]
  BY ZenonT(40), <1>1, MappedFits
<1> DEFINE N == {n \in Nat : \A u \in Seq(S) : Len(u) = n => Mapped(f, u) = u}
<1>3. 0 \in N
  <2>1. \A u \in Seq(S) : Len(u) = 0 => u = <<>>  OBVIOUS
  <2> QED  BY <1>2, <2>1
<1>4. ASSUME NEW n \in Nat, n \in N PROVE n + 1 \in N
  <2>1. \A u \in Seq(S) : Len(u) = n => Mapped(f, u) = u  BY <1>4
  <2>2. ASSUME NEW t \in Seq(S), Len(t) = n + 1 PROVE Mapped(f, t) = t
    <3>1. t # <<>>  BY <2>2
    <3>2. PICK u \in Seq(S), e \in S : t = Append(u, e)  BY <3>1, SequenceEmptyOrAppend
    <3>3. Len(u) = n
      <4>1. Len(Append(u, e)) = Len(u) + 1 /\ Len(u) \in Nat  BY AppendFits
      <4> QED  BY <2>2, <3>2, <4>1
    <3>4. Append(u, e) = u \o <<e>>  BY AppendIsConcat
    <3> QED  BY <1>1, <1>2, <2>1, <3>2, <3>3, <3>4
  <2> HIDE DEF N
  <2>3. \A u \in Seq(S) : Len(u) = n + 1 => Mapped(f, u) = u  BY <2>2
  <2> QED  BY <2>3 DEF N
<1>5. Nat \subseteq N
  <2> HIDE DEF N
  <2> QED  BY <1>3, <1>4, SetInduction
<1>6. Len(s) \in N  BY <1>5
<1> QED  BY <1>6 DEF f

\* Stripping a text has its type, and changes nothing when it holds no tag.
LEMMA StripFits ==
  /\ \A s \in Text : Strip(s) \in Text
  /\ \A s \in Seq(Plain) : Strip(s) = s
<1> DEFINE In(s, i) == \E k \in 1 .. i : \E tag \in {ThinkStart, ThinkEnd} :
                          At(s, tag, k) /\ i < k + Len(tag)
           G(s) == [i \in 1 .. Len(s) |-> IF In(s, i) THEN <<>> ELSE <<s[i]>>]
<1>1. ASSUME NEW s \in Text PROVE Strip(s) = FlattenSeq(G(s))
  <2>1. DOMAIN s = 1 .. Len(s)  BY DEF Text
  <2>2. Strip(s) = FlattenSeq(G(s))  BY <2>1 DEF Strip
  <2> HIDE DEF G
  <2> QED  BY <2>2
<1>2. ASSUME NEW s \in Text PROVE Strip(s) \in Text
  <2>1. \A i \in 1 .. Len(s) : s[i] \in Chars  BY DEF Text
  <2>2. \A i \in 1 .. Len(s) : (IF In(s, i) THEN <<>> ELSE <<s[i]>>) \in Seq(Chars)
    <3> HIDE DEF In
    <3> QED  BY <2>1
  <2>3. Len(s) \in Nat  BY DEF Text
  <2> HIDE DEF In
  <2>4. G(s) \in Seq(Seq(Chars))  BY <2>2, <2>3
  <2> HIDE DEF G
  <2> QED  BY <1>1, <2>4, FlattenFits DEF Text
<1>3. ASSUME NEW s \in Seq(Plain) PROVE Strip(s) = s
  <2>1. s \in Text /\ \A b \in BOOLEAN, j \in Nat : ~ Occurs(s, Tag(b), j)
    <3>1. s \in Text  BY PlainHasNone
    <3> QED  BY <3>1, PlainHasNone
  <2>2. ASSUME NEW i \in 1 .. Len(s), In(s, i) PROVE FALSE
    <3>1. PICK k \in 1 .. i, tag \in {ThinkStart, ThinkEnd} : At(s, tag, k)  BY <2>2
    <3>2. PICK b \in BOOLEAN : tag = Tag(b)
      <4>1. Tag(TRUE) = ThinkEnd /\ Tag(FALSE) = ThinkStart  BY DEF Tag
      <4> QED  BY <4>1
    <3>3. tag \in Text /\ tag # <<>>
      <4>1. tag \in Text /\ Len(tag) \in {2, 3}  BY <3>2, TagFits
      <4>2. Len(<<>>) = 0  OBVIOUS
      <4> QED  BY <4>1, <4>2
    <3>4. k \in 1 .. Len(s) /\ k \in Nat  OBVIOUS
    <3>5. Occurs(s, tag, k)  BY <2>1, <3>1, <3>3, <3>4, AtIs
    <3> QED  BY <2>1, <3>2, <3>4, <3>5
  <2> DEFINE f == [e \in Plain |-> <<e>>]
  <2>3. G(s) = [i \in 1 .. Len(s) |-> f[s[i]]]
    <3>1. \A i \in 1 .. Len(s) : s[i] \in Plain  OBVIOUS
    <3> HIDE DEF In
    <3> QED  BY <2>2, <3>1
  <2>4. FlattenSeq(G(s)) = Mapped(f, s)  BY <2>3 DEF Mapped
  <2> HIDE DEF G, f
  <2>5. Mapped(f, s) = s  BY MappedSingles DEF f
  <2> QED  BY <1>1, <2>1, <2>4, <2>5
<1> QED  BY <1>2, <1>3

-----------------------------------------------------------------------------
(* What a reload makes of a stored text.  SplitContent exists as SplitRest does. *)

\* What SplitContent makes of s, by f for what is behind its first two tags.
ContentStep(f, s) ==
  LET i    == First(s, ThinkStart)
      rest == SubSeq(s, i + Len(ThinkStart), Len(s))
      j    == First(rest, ThinkEnd)
      past == SubSeq(rest, j + Len(ThinkEnd), Len(rest))
  IN  IF i = 0 THEN Segment(TextEv(s))
      ELSE Segment(TextEv(Strip(SubSeq(s, 1, i - 1)))) \o
           IF j = 0 THEN Segment(ReasonEv(Strip(rest)))
           ELSE Segment(ReasonEv(Strip(SubSeq(rest, 1, j - 1)))) \o f[past]

\* What is behind the two, when s has both.
LEMMA PastIs ==
  ASSUME NEW s \in Text, First(s, ThinkStart) # 0,
         First(After(s, ThinkStart), ThinkEnd) # 0
  PROVE  /\ After(s, ThinkStart) \in Text
         /\ After(After(s, ThinkStart), ThinkEnd) \in Text
         /\ Len(After(After(s, ThinkStart), ThinkEnd)) < Len(s)
<1>1. Tag(FALSE) = ThinkStart /\ Tag(TRUE) = ThinkEnd  BY DEF Tag
<1> DEFINE u == After(s, ThinkStart)
           v == After(u, ThinkEnd)
<1>2. u \in Text /\ Len(u) \in Nat /\ Len(u) < Len(s)
  <2>1. First(s, Tag(FALSE)) # 0 /\ FALSE \in BOOLEAN  BY <1>1
  <2>2. /\ After(s, Tag(FALSE)) \in Text /\ Len(After(s, Tag(FALSE))) \in Nat
        /\ Len(After(s, Tag(FALSE))) < Len(s)
    BY <2>1, AfterIs
  <2> QED  BY <1>1, <2>2
<1>3. v \in Text /\ Len(v) \in Nat /\ Len(v) < Len(u)
  <2>1. First(u, Tag(TRUE)) # 0 /\ TRUE \in BOOLEAN  BY <1>1
  <2> HIDE DEF u
  <2>2. /\ After(u, Tag(TRUE)) \in Text /\ Len(After(u, Tag(TRUE))) \in Nat
        /\ Len(After(u, Tag(TRUE))) < Len(u)
    BY <1>2, <2>1, AfterIs
  <2> QED  BY <1>1, <2>2
<1>4. Len(s) \in Nat  BY DEF Text
<1> HIDE DEF u, v
<1>5. Len(v) < Len(s)  BY <1>2, <1>3, <1>4
<1> QED  BY <1>2, <1>3, <1>5 DEF u, v

\* It looks at shorter texts only.
LEMMA ContentLocal ==
  ASSUME NEW f, NEW g, NEW s \in Text, \A u \in Text : Len(u) < Len(s) => f[u] = g[u]
  PROVE  ContentStep(f, s) = ContentStep(g, s)
<1> DEFINE v == After(After(s, ThinkStart), ThinkEnd)
<1>1. CASE /\ First(s, ThinkStart) # 0
           /\ First(After(s, ThinkStart), ThinkEnd) # 0
  <2>1. v \in Text /\ Len(v) < Len(s)  BY <1>1, PastIs
  <2>2. f[v] = g[v]  BY <2>1
  <2> QED  BY <1>1, <2>2 DEF ContentStep, After
<1>2. CASE ~ /\ First(s, ThinkStart) # 0
             /\ First(After(s, ThinkStart), ThinkEnd) # 0
  BY <1>2 DEF ContentStep, After
<1> QED  BY <1>1, <1>2

\* f is as SplitContent on the texts shorter than n.
ContentsTo(f, n) ==
  f = [s \in Text |-> f[s]] /\ \A s \in Text : Len(s) < n => f[s] = ContentStep(f, s)

\* There is such a function, ...
LEMMA ContentsExist == \A n \in Nat : \E f : ContentsTo(f, n)
<1> DEFINE N == {n \in Nat : \E f : ContentsTo(f, n)}
<1>0. \A s \in Text : Len(s) \in Nat  BY DEF Text
<1>1. 0 \in N
  <2> DEFINE f == [s \in Text |-> 0]
  <2>1. f = [s \in Text |-> f[s]]  OBVIOUS
  <2>2. \A s \in Text : ~ (Len(s) < 0)  BY <1>0
  <2> HIDE DEF f
  <2>3. ContentsTo(f, 0)  BY <2>1, <2>2 DEF ContentsTo
  <2> QED  BY <2>3
<1>2. ASSUME NEW n \in Nat, n \in N PROVE n + 1 \in N
  <2>1. PICK f : ContentsTo(f, n)  BY <1>2
  <2> DEFINE g == [s \in Text |-> IF Len(s) < n THEN f[s] ELSE ContentStep(f, s)]
  <2>2. /\ g = [s \in Text |-> g[s]]
        /\ \A s \in Text : g[s] = IF Len(s) < n THEN f[s] ELSE ContentStep(f, s)
    OBVIOUS
  <2> HIDE DEF g
  <2>3. ASSUME NEW s \in Text, Len(s) < n + 1 PROVE g[s] = ContentStep(g, s)
    <3>1. Len(s) \in Nat /\ Len(s) <= n  BY <1>0, <2>3
    <3>2. \A u \in Text : Len(u) < Len(s) => g[u] = f[u]  BY <1>0, <2>2, <3>1
    <3>3. ContentStep(g, s) = ContentStep(f, s)  BY <3>2, ContentLocal
    <3>4. Len(s) < n => f[s] = ContentStep(f, s)  BY <2>1 DEF ContentsTo
    <3> QED  BY <2>2, <3>3, <3>4
  <2>4. ContentsTo(g, n + 1)  BY <2>2, <2>3 DEF ContentsTo
  <2> QED  BY <2>4
<1>3. Nat \subseteq N
  <2> HIDE DEF N
  <2> QED  BY <1>1, <1>2, SetInduction
<1> QED  BY <1>3

\* ... any two agree, ...
LEMMA ContentsAgree ==
  ASSUME NEW f, NEW g, NEW m \in Nat, NEW n \in Nat, ContentsTo(f, m), ContentsTo(g, n)
  PROVE  \A s \in Text : Len(s) < m /\ Len(s) < n => f[s] = g[s]
<1> DEFINE N == {k \in Nat : \A s \in Text : Len(s) < k /\ Len(s) < m /\ Len(s) < n => f[s] = g[s]}
<1>0. \A s \in Text : Len(s) \in Nat  BY DEF Text
<1>1. 0 \in N  BY <1>0
<1>2. ASSUME NEW k \in Nat, k \in N PROVE k + 1 \in N
  <2>1. \A s \in Text : Len(s) < k /\ Len(s) < m /\ Len(s) < n => f[s] = g[s]  BY <1>2
  <2>2. ASSUME NEW s \in Text, Len(s) < k + 1, Len(s) < m, Len(s) < n PROVE f[s] = g[s]
    <3>1. \A u \in Text : Len(u) < Len(s) => Len(u) < k /\ Len(u) < m /\ Len(u) < n
      BY <1>0, <2>2
    <3>2. \A u \in Text : Len(u) < Len(s) => f[u] = g[u]  BY <2>1, <3>1
    <3>3. ContentStep(f, s) = ContentStep(g, s)  BY <3>2, ContentLocal
    <3> QED  BY <2>2, <3>3 DEF ContentsTo
  <2> HIDE DEF N
  <2>3. \A s \in Text : Len(s) < k + 1 /\ Len(s) < m /\ Len(s) < n => f[s] = g[s]  BY <2>2
  <2> QED  BY <2>3 DEF N
<1>3. Nat \subseteq N
  <2> HIDE DEF N
  <2> QED  BY <1>1, <1>2, SetInduction
<1>4. ASSUME NEW s \in Text, Len(s) < m, Len(s) < n PROVE f[s] = g[s]
  <2>1. m \in N  BY <1>3
  <2> QED  BY <1>4, <2>1
<1> QED  BY <1>4

\* ... so there is one for all, which is SplitContent.
LEMMA ContentIs == \A s \in Text : SplitContent[s] = ContentStep(SplitContent, s)
<1> DEFINE Run(n) == CHOOSE f : ContentsTo(f, n)
           f == [s \in Text |-> Run(Len(s) + 1)[s]]
<1>0. \A s \in Text : Len(s) \in Nat  BY DEF Text
<1>1. \A n \in Nat : ContentsTo(Run(n), n)  BY ContentsExist
<1> HIDE DEF Run
<1>2. \A s \in Text : f[s] = Run(Len(s) + 1)[s]  OBVIOUS
<1>3. ASSUME NEW s \in Text PROVE f[s] = ContentStep(f, s)
  <2> DEFINE n == Len(s) + 1
             g == Run(n)
  <2>1. n \in Nat /\ Len(s) < n  BY <1>0
  <2>2. ContentsTo(g, n)  BY <1>1, <2>1
  <2>3. ASSUME NEW u \in Text, Len(u) < Len(s) PROVE f[u] = g[u]
    <3> DEFINE k == Len(u) + 1
               h == Run(k)
    <3>1. k \in Nat /\ Len(u) < k /\ Len(u) < n  BY <1>0, <2>1, <2>3
    <3>2. ContentsTo(h, k)  BY <1>1, <3>1
    <3>3. f[u] = h[u]  BY <1>2
    <3> HIDE DEF f, g, h, k, n
    <3>4. h[u] = g[u]  BY <2>1, <2>2, <3>1, <3>2, ContentsAgree
    <3> QED  BY <3>3, <3>4
  <2>4. f[s] = g[s]  BY <1>2
  <2> HIDE DEF f, g, n
  <2>5. g[s] = ContentStep(g, s)  BY <2>1, <2>2 DEF ContentsTo
  <2>6. ContentStep(f, s) = ContentStep(g, s)  BY <2>3, ContentLocal
  <2> QED  BY <2>4, <2>5, <2>6
<1>4. f = [s \in Text |-> ContentStep(f, s)]
  <2>1. f = [s \in Text |-> f[s]]  OBVIOUS
  <2> HIDE DEF f
  <2> QED  BY <1>3, <2>1
<1> DEFINE IsIt(g) == g = [s \in Text |-> ContentStep(g, s)]
<1>5. SplitContent = CHOOSE g : IsIt(g)  BY DEF SplitContent, ContentStep, Text
<1>6. IsIt(f)
  <2> HIDE DEF f
  <2> QED  BY <1>4
<1> HIDE DEF IsIt, f
<1>7. IsIt(SplitContent)  BY <1>5, <1>6
<1> QED
  <2> DEFINE g == SplitContent
  <2>1. g = [s \in Text |-> ContentStep(g, s)]  BY <1>7 DEF IsIt
  <2> HIDE DEF g
  <2>2. \A s \in Text : [u \in Text |-> ContentStep(g, u)][s] = ContentStep(g, s)  OBVIOUS
  <2> QED  BY <2>1, <2>2 DEF g

\* What an event says.
Word(e, k) == IF e.kind = k THEN e.text ELSE <<>>

\* It is a text.
LEMMA WordFits ==
  ASSUME NEW e \in Events, NEW k \in Kinds
  PROVE  Word(e, k) \in Text
<1>1. <<>> \in Text  BY DEF Text
<1>2. e \in TextEvents => e.text \in Text  BY DEF TextEvents
<1>3. e \in ToolEvents => e.kind = "tool"  BY DEF ToolEvents
<1>4. k # "tool"  BY DEF Kinds
<1> QED  BY <1>1, <1>2, <1>3, <1>4 DEF Word, Events

\* What events say one after the other.
LEMMA WordsFit ==
  ASSUME NEW k \in Kinds
  PROVE  /\ WordsOf(<<>>, k) = <<>>
         /\ \A es \in Seq(Events) : WordsOf(es, k) \in Text
         /\ \A e \in Events : WordsOf(<<e>>, k) = Word(e, k)
         /\ \A es \in Seq(Events), e \in Events :
              WordsOf(Append(es, e), k) = WordsOf(es, k) \o Word(e, k)
         /\ \A es \in Seq(Events), fs \in Seq(Events) :
              WordsOf(es \o fs, k) = WordsOf(es, k) \o WordsOf(fs, k)
<1> DEFINE f == [e \in Events |-> Word(e, k)]
<1>1. f \in [Events -> Seq(Chars)] /\ \A e \in Events : f[e] = Word(e, k)
  BY WordFits DEF Text
<1>2. ASSUME NEW es \in Seq(Events) PROVE WordsOf(es, k) = Mapped(f, es)
  <2>1. DOMAIN es = 1 .. Len(es) /\ \A n \in 1 .. Len(es) : es[n] \in Events  OBVIOUS
  <2>2. WordsOf(es, k) = FlattenSeq([n \in 1 .. Len(es) |-> Word(es[n], k)])
    BY <2>1 DEF WordsOf, Word
  <2> HIDE DEF f
  <2>3. [n \in 1 .. Len(es) |-> Word(es[n], k)] = [n \in 1 .. Len(es) |-> f[es[n]]]
    BY <1>1, <2>1
  <2> QED  BY <2>2, <2>3 DEF Mapped
<1> HIDE DEF f
<1>3. /\ Mapped(f, <<>>) = <<>>
      /\ \A s \in Seq(Events) : Mapped(f, s) \in Seq(Chars)
      /\ \A s \in Seq(Events), e \in Events : Mapped(f, Append(s, e)) = Mapped(f, s) \o f[e]
  BY <1>1, MappedFits
<1>4. /\ \A e \in Events : Mapped(f, <<e>>) = f[e]
      /\ \A s \in Seq(Events), t \in Seq(Events) :
              Mapped(f, s \o t) = Mapped(f, s) \o Mapped(f, t)
  BY <1>1, MappedConcat
<1>5. <<>> \in Seq(Events) /\ \A e \in Events : <<e>> \in Seq(Events)  OBVIOUS
<1>6. ASSUME NEW es \in Seq(Events), NEW e \in Events
      PROVE  WordsOf(Append(es, e), k) = WordsOf(es, k) \o Word(e, k)
  <2>1. Append(es, e) \in Seq(Events)  BY AppendFits
  <2> QED  BY <1>1, <1>2, <1>3, <2>1
<1>7. ASSUME NEW es \in Seq(Events), NEW fs \in Seq(Events)
      PROVE  WordsOf(es \o fs, k) = WordsOf(es, k) \o WordsOf(fs, k)
  <2>1. es \o fs \in Seq(Events)  BY ConcatProperties
  <2> QED  BY <1>2, <1>4, <2>1
<1>8. WordsOf(<<>>, k) = <<>>  BY <1>2, <1>3, <1>5
<1>9. \A es \in Seq(Events) : WordsOf(es, k) \in Text  BY <1>2, <1>3 DEF Text
<1>10. \A e \in Events : WordsOf(<<e>>, k) = Word(e, k)  BY <1>1, <1>2, <1>4, <1>5
<1> QED  BY <1>6, <1>7, <1>8, <1>9, <1>10

\* A segment of a text is an event, or none when it is empty.
SideEvent(b, s) == IF b THEN ReasonEv(s) ELSE TextEv(s)

\* It says the text, on its side.
LEMMA SegmentFits ==
  ASSUME NEW b \in BOOLEAN, NEW s \in Text
  PROVE  /\ SideEvent(b, s) \in TextEvents /\ SideEvent(b, s) \in Events
         /\ Segment(SideEvent(b, s)) \in Seq(TextEvents)
         /\ Segment(SideEvent(b, s)) \in Seq(Events)
         /\ \A k \in Kinds : Word(SideEvent(b, s), k) = On(b, k, s)
         /\ \A k \in Kinds : WordsOf(Segment(SideEvent(b, s)), k) = On(b, k, s)
<1> DEFINE e == SideEvent(b, s)
<1>1. e \in TextEvents /\ e.text = s /\ e.kind = (IF b THEN "reason" ELSE "text")
  BY DEF SideEvent, ReasonEv, TextEv, TextEvents
<1>2. e \in Events  BY <1>1 DEF Events
<1> HIDE DEF e
<1>3. Segment(e) = IF s = <<>> THEN <<>> ELSE <<e>>  BY <1>1 DEF Segment
<1>4. Segment(e) \in Seq(TextEvents) /\ Segment(e) \in Seq(Events)  BY <1>1, <1>2, <1>3
<1>5. ASSUME NEW k \in Kinds PROVE Word(e, k) = On(b, k, s)
  BY <1>1 DEF Word, On, Kinds
<1>6. ASSUME NEW k \in Kinds PROVE WordsOf(Segment(e), k) = On(b, k, s)
  <2>1. CASE s = <<>>
    <3>1. WordsOf(<<>>, k) = <<>>  BY WordsFit
    <3>2. On(b, k, <<>>) = <<>>  BY DEF On
    <3> QED  BY <1>3, <2>1, <3>1, <3>2
  <2>2. CASE s # <<>>
    <3>1. WordsOf(<<e>>, k) = Word(e, k)  BY <1>2, WordsFit
    <3> QED  BY <1>3, <1>5, <2>2, <3>1
  <2> QED  BY <2>1, <2>2
<1> QED  BY <1>1, <1>2, <1>4, <1>5, <1>6 DEF e

\* Parts of a text without an end of a tag hold none either.
LEMMA PlainParts ==
  ASSUME NEW s \in Text, NEW t \in Text, s \o t \in Seq(Plain)
  PROVE  s \in Seq(Plain) /\ t \in Seq(Plain)
<1>1. /\ Len(s \o t) = Len(s) + Len(t) /\ Len(s) \in Nat /\ Len(t) \in Nat
      /\ \A j \in 1 .. Len(s) : (s \o t)[j] = s[j]
      /\ \A j \in 1 .. Len(t) : (s \o t)[Len(s) + j] = t[j]
  BY ConcatFits DEF Text
<1>2. \A j \in 1 .. Len(s) + Len(t) : (s \o t)[j] \in Plain  BY <1>1
<1>3. \A j \in 1 .. Len(s) : s[j] \in Plain  BY <1>1, <1>2
<1>4. \A j \in 1 .. Len(t) : t[j] \in Plain
  <2>1. \A j \in 1 .. Len(t) : Len(s) + j \in 1 .. Len(s) + Len(t)  BY <1>1
  <2> QED  BY <1>1, <1>2, <2>1
<1>5. ASSUME NEW u \in Text, \A j \in 1 .. Len(u) : u[j] \in Plain PROVE u \in Seq(Plain)
  <2>1. u = [j \in 1 .. Len(u) |-> u[j]] /\ Len(u) \in Nat  BY DEF Text
  <2>2. [j \in 1 .. Len(u) |-> u[j]] \in [1 .. Len(u) -> Plain]  BY <1>5
  <2>3. [1 .. Len(u) -> Plain] \subseteq Seq(Plain)  BY <2>1
  <2> QED  BY <2>1, <2>2, <2>3
<1> QED  BY <1>3, <1>4, <1>5

\* What is plain on both sides is.
LEMMA PlainOn ==
  ASSUME NEW b \in BOOLEAN, NEW s \in Text, \A k \in Kinds : On(b, k, s) \in Seq(Plain)
  PROVE  s \in Seq(Plain) /\ Strip(s) = s
<1>1. On(b, IF b THEN "reason" ELSE "text", s) = s  BY DEF On
<1>2. (IF b THEN "reason" ELSE "text") \in Kinds  BY DEF Kinds
<1>3. s \in Seq(Plain)  BY <1>1, <1>2
<1> QED  BY <1>3, StripFits

\* The events of a stored text are texts, and say what the text does unless a tag is in
\* what is said.
Plainspoken(s) == \A k \in Kinds : Whole(s, FALSE, k) \in Seq(Plain)
Tells(s) ==
  /\ SplitContent[s] \in Seq(TextEvents) /\ SplitContent[s] \in Seq(Events)
  /\ Plainspoken(s) => \A k \in Kinds : WordsOf(SplitContent[s], k) = Whole(s, FALSE, k)

\* The beginnings a segment is made of.
LEMMA BeforeTag ==
  ASSUME NEW s \in Text, NEW b \in BOOLEAN, First(s, Tag(b)) # 0
  PROVE  /\ SubSeq(s, 1, First(s, Tag(b)) - 1) \in Text
         /\ Strip(SubSeq(s, 1, First(s, Tag(b)) - 1)) \in Text
<1>1. SubSeq(s, 1, First(s, Tag(b)) - 1) \in Text  BY SplitTag
<1> QED  BY <1>1, StripFits

\* A stored text without a tag, ...
LEMMA ContentNone ==
  ASSUME NEW s \in Text, First(s, Tag(FALSE)) = 0
  PROVE  Tells(s)
<1> DEFINE g == Segment(SideEvent(FALSE, s))
<1>1. SplitContent[s] = ContentStep(SplitContent, s)  BY ContentIs
<1>2. Tag(FALSE) = ThinkStart  BY DEF Tag
<1>3. SplitContent[s] = g  BY <1>1, <1>2 DEF ContentStep, SideEvent
<1>4. FALSE \in BOOLEAN  OBVIOUS
<1>5. /\ g \in Seq(TextEvents) /\ g \in Seq(Events)
      /\ \A k \in Kinds : WordsOf(g, k) = On(FALSE, k, s)
  BY <1>4, SegmentFits
<1>6. \A k \in Kinds : Whole(s, FALSE, k) = On(FALSE, k, s)  BY <1>4, WholeNone
<1> HIDE DEF g
<1> QED  BY <1>3, <1>5, <1>6 DEF Tells

\* ... with a tag that is not closed, ...
LEMMA ContentOne ==
  ASSUME NEW s \in Text, First(s, Tag(FALSE)) # 0,
         First(After(s, Tag(FALSE)), Tag(TRUE)) = 0
  PROVE  Tells(s)
<1> DEFINE u == After(s, Tag(FALSE))
           a == SubSeq(s, 1, First(s, Tag(FALSE)) - 1)
           g == Segment(SideEvent(FALSE, Strip(a)))
           h == Segment(SideEvent(TRUE, Strip(u)))
<1>1. SplitContent[s] = ContentStep(SplitContent, s)  BY ContentIs
<1>2. Tag(FALSE) = ThinkStart /\ Tag(TRUE) = ThinkEnd  BY DEF Tag
<1>3. SplitContent[s] = g \o h  BY <1>1, <1>2 DEF ContentStep, SideEvent, After
<1>4. FALSE \in BOOLEAN /\ TRUE \in BOOLEAN  OBVIOUS
<1>5. u \in Text  BY <1>4, AfterIs
<1>6. a \in Text /\ Strip(a) \in Text  BY <1>4, BeforeTag
<1>7. Strip(u) \in Text
  <2> HIDE DEF u
  <2> QED  BY <1>5, StripFits
<1>8. \A k \in Kinds : Whole(s, FALSE, k) = On(FALSE, k, a) \o Whole(u, TRUE, k)
  <2>1. ~ FALSE = TRUE  OBVIOUS
  <2> QED  BY <1>4, <2>1, WholeTag
<1> HIDE DEF a
<1>9. \A k \in Kinds : Whole(u, TRUE, k) = On(TRUE, k, u)
  <2>1. First(u, Tag(TRUE)) = 0  OBVIOUS
  <2> HIDE DEF u
  <2> QED  BY <1>4, <1>5, <2>1, WholeNone
<1> HIDE DEF u
<1>10. /\ g \in Seq(TextEvents) /\ g \in Seq(Events)
       /\ \A k \in Kinds : WordsOf(g, k) = On(FALSE, k, Strip(a))
  BY <1>4, <1>6, SegmentFits
<1>11. /\ h \in Seq(TextEvents) /\ h \in Seq(Events)
       /\ \A k \in Kinds : WordsOf(h, k) = On(TRUE, k, Strip(u))
  BY <1>4, <1>7, SegmentFits
<1> HIDE DEF g, h
<1>12. g \o h \in Seq(TextEvents) /\ g \o h \in Seq(Events)
  BY <1>10, <1>11, ConcatProperties
<1>13. ASSUME Plainspoken(s), NEW k \in Kinds PROVE WordsOf(g \o h, k) = Whole(s, FALSE, k)
  <2>1. ASSUME NEW l \in Kinds PROVE On(FALSE, l, a) \in Seq(Plain) /\ On(TRUE, l,
    u) \in Seq(Plain)
    <3> DEFINE x == On(FALSE, l, a)
               y == On(TRUE, l, u)
    <3>1. x \o y \in Seq(Plain)  BY <1>8, <1>9, <1>13 DEF Plainspoken
    <3>2. x \in Text /\ y \in Text  BY <1>4, <1>5, <1>6, OnConcat
    <3> HIDE DEF x, y
    <3>3. x \in Seq(Plain) /\ y \in Seq(Plain)  BY <3>1, <3>2, PlainParts
    <3> QED  BY <3>3 DEF x, y
  <2>2. Strip(a) = a  BY <1>4, <1>6, <2>1, PlainOn
  <2>3. Strip(u) = u  BY <1>4, <1>5, <2>1, PlainOn
  <2>4. WordsOf(g \o h, k) = WordsOf(g, k) \o WordsOf(h, k)  BY <1>10, <1>11, WordsFit
  <2> QED  BY <1>8, <1>9, <1>10, <1>11, <2>2, <2>3, <2>4
<1> QED  BY <1>3, <1>12, <1>13 DEF Tells

\* ... and with one that is, when what is behind that tells.
LEMMA ContentTwo ==
  ASSUME NEW s \in Text, First(s, Tag(FALSE)) # 0,
         First(After(s, Tag(FALSE)), Tag(TRUE)) # 0,
         Tells(After(After(s, Tag(FALSE)), Tag(TRUE)))
  PROVE  Tells(s)
<1> DEFINE u == After(s, Tag(FALSE))
           v == After(u, Tag(TRUE))
           a == SubSeq(s, 1, First(s, Tag(FALSE)) - 1)
           c == SubSeq(u, 1, First(u, Tag(TRUE)) - 1)
           g == Segment(SideEvent(FALSE, Strip(a)))
           h == Segment(SideEvent(TRUE, Strip(c)))
           z == SplitContent[v]
<1>1. SplitContent[s] = ContentStep(SplitContent, s)  BY ContentIs
<1>2. Tag(FALSE) = ThinkStart /\ Tag(TRUE) = ThinkEnd  BY DEF Tag
<1>3. SplitContent[s] = g \o (h \o z)  BY <1>1, <1>2 DEF ContentStep, SideEvent, After
<1>4. FALSE \in BOOLEAN /\ TRUE \in BOOLEAN  OBVIOUS
<1>5. u \in Text  BY <1>4, AfterIs
<1>6. a \in Text /\ Strip(a) \in Text  BY <1>4, BeforeTag
<1>7. \A k \in Kinds : Whole(s, FALSE, k) = On(FALSE, k, a) \o Whole(u, TRUE, k)
  <2>1. ~ FALSE = TRUE  OBVIOUS
  <2> QED  BY <1>4, <2>1, WholeTag
<1> HIDE DEF a
<1>8. First(u, Tag(TRUE)) # 0  OBVIOUS
<1>9. Tells(v)  OBVIOUS
<1> HIDE DEF u
<1>10. v \in Text  BY <1>4, <1>5, <1>8, AfterIs
<1>11. c \in Text /\ Strip(c) \in Text  BY <1>4, <1>5, <1>8, BeforeTag
<1>12. \A k \in Kinds : Whole(u, TRUE, k) = On(TRUE, k, c) \o Whole(v, FALSE, k)
  <2>1. ~ TRUE = FALSE  OBVIOUS
  <2> QED  BY <1>4, <1>5, <1>8, <2>1, WholeTag
<1> HIDE DEF c, v
<1>13. /\ g \in Seq(TextEvents) /\ g \in Seq(Events)
       /\ \A k \in Kinds : WordsOf(g, k) = On(FALSE, k, Strip(a))
  BY <1>4, <1>6, SegmentFits
<1>14. /\ h \in Seq(TextEvents) /\ h \in Seq(Events)
       /\ \A k \in Kinds : WordsOf(h, k) = On(TRUE, k, Strip(c))
  BY <1>4, <1>11, SegmentFits
<1>15. /\ z \in Seq(TextEvents) /\ z \in Seq(Events)
       /\ Plainspoken(v) => \A k \in Kinds : WordsOf(z, k) = Whole(v, FALSE, k)
  BY <1>9 DEF Tells
<1> HIDE DEF g, h, z
<1>16. h \o z \in Seq(TextEvents) /\ h \o z \in Seq(Events)
  BY <1>14, <1>15, ConcatProperties
<1>17. g \o (h \o z) \in Seq(TextEvents) /\ g \o (h \o z) \in Seq(Events)
  BY <1>13, <1>16, ConcatProperties
<1>18. ASSUME Plainspoken(s), NEW k \in Kinds
       PROVE  WordsOf(g \o (h \o z), k) = Whole(s, FALSE, k)
  <2>1. ASSUME NEW l \in Kinds
        PROVE  /\ On(FALSE, l, a) \in Seq(Plain) /\ On(TRUE, l, c) \in Seq(Plain)
               /\ Whole(v, FALSE, l) \in Seq(Plain)
    <3> DEFINE x == On(FALSE, l, a)
               y == On(TRUE, l, c)
               w == Whole(v, FALSE, l)
    <3>1. x \o (y \o w) \in Seq(Plain)  BY <1>7, <1>12, <1>18 DEF Plainspoken
    <3>2. x \in Text /\ y \in Text  BY <1>4, <1>6, <1>11, OnConcat
    <3>3. w \in Text  BY <1>4, <1>10, SaysFits
    <3> HIDE DEF x, y, w
    <3>4. y \o w \in Text  BY <3>2, <3>3, ConcatProperties DEF Text
    <3>5. x \in Seq(Plain) /\ y \o w \in Seq(Plain)  BY <3>1, <3>2, <3>4, PlainParts
    <3>6. y \in Seq(Plain) /\ w \in Seq(Plain)  BY <3>2, <3>3, <3>5, PlainParts
    <3> QED  BY <3>5, <3>6 DEF x, y, w
  <2>2. Strip(a) = a  BY <1>4, <1>6, <2>1, PlainOn
  <2>3. Strip(c) = c  BY <1>4, <1>11, <2>1, PlainOn
  <2>4. Plainspoken(v)  BY <2>1 DEF Plainspoken
  <2>5. WordsOf(g \o (h \o z), k) = WordsOf(g, k) \o WordsOf(h \o z, k)
    BY <1>13, <1>16, WordsFit
  <2>6. WordsOf(h \o z, k) = WordsOf(h, k) \o WordsOf(z, k)  BY <1>14, <1>15, WordsFit
  <2> QED  BY <1>7, <1>12, <1>13, <1>14, <1>15, <2>2, <2>3, <2>4, <2>5, <2>6
<1> QED  BY <1>3, <1>17, <1>18 DEF Tells

\* The segments of every stored text say what its deltas say (splitThinkContent).
LEMMA ContentTells == \A s \in Text : Tells(s)
<1>0. \A s \in Text : Len(s) \in Nat  BY DEF Text
<1> DEFINE N == {n \in Nat : \A s \in Text : Len(s) < n => Tells(s)}
<1>1. 0 \in N  BY <1>0
<1>2. ASSUME NEW n \in Nat, n \in N PROVE n + 1 \in N
  <2>0. \A s \in Text : Len(s) < n => Tells(s)  BY <1>2
  <2>1. ASSUME NEW s \in Text, Len(s) < n + 1 PROVE Tells(s)
    <3>1. CASE First(s, Tag(FALSE)) = 0  BY <3>1, ContentNone
    <3>2. CASE First(s, Tag(FALSE)) # 0
      <4> DEFINE u == After(s, Tag(FALSE))
                 v == After(u, Tag(TRUE))
      <4>1. CASE First(u, Tag(TRUE)) = 0  BY <3>2, <4>1, ContentOne
      <4>2. CASE First(u, Tag(TRUE)) # 0
        <5>1. Tag(FALSE) = ThinkStart /\ Tag(TRUE) = ThinkEnd  BY DEF Tag
        <5>2. v \in Text /\ Len(v) < Len(s)
          <6>1. First(s, ThinkStart) # 0 /\ First(After(s, ThinkStart), ThinkEnd) # 0
            BY <3>2, <4>2, <5>1
          <6>2. /\ After(After(s, ThinkStart), ThinkEnd) \in Text
                /\ Len(After(After(s, ThinkStart), ThinkEnd)) < Len(s)
            BY <6>1, PastIs
          <6> QED  BY <5>1, <6>2
        <5>3. Len(v) < n
          <6> HIDE DEF v
          <6>1. Len(v) \in Nat /\ Len(s) \in Nat  BY <1>0, <5>2
          <6> QED  BY <2>1, <5>2, <6>1
        <5>4. Tells(v)  BY <2>0, <5>2, <5>3
        <5> QED  BY <3>2, <4>2, <5>4, ContentTwo
      <4> QED  BY <4>1, <4>2
    <3> QED  BY <3>1, <3>2
  <2> HIDE DEF N
  <2>2. \A s \in Text : Len(s) < n + 1 => Tells(s)  BY <2>1
  <2> QED  BY <2>2 DEF N
<1>3. Nat \subseteq N
  <2> HIDE DEF N
  <2> QED  BY <1>1, <1>2, SetInduction
<1>4. ASSUME NEW s \in Text PROVE Tells(s)
  <2>1. Len(s) + 1 \in N /\ Len(s) < Len(s) + 1  BY <1>0, <1>3
  <2> QED  BY <2>1
<1> QED  BY <1>4

-----------------------------------------------------------------------------
(* What lists of events, messages, calls and rows hold, in order. *)

\* The call an event shows, and the question it asks.
Show(e) == IF e.kind = "tool" /\ e.call.tool # "bash" THEN <<e.call.id>> ELSE <<>>
Ask(e)  == IF e.kind = "tool" THEN AskOf(e.call) ELSE <<>>
ShownCalls(es) == FlattenSeq([n \in DOMAIN es |-> Show(es[n])])
TrailOf(m)   == IF m.role = "user" THEN <<0>> ELSE AskedIn(m.events)

\* The calls events show.
LEMMA ShownFit ==
  /\ ShownCalls(<<>>) = <<>>
  /\ \A s \in Seq(Events) : ShownCalls(s) \in Seq(Nat)
  /\ \A e \in Events : ShownCalls(<<e>>) = Show(e)
  /\ \A s \in Seq(Events), e \in Events : ShownCalls(Append(s, e)) = ShownCalls(s) \o Show(e)
  /\ \A s \in Seq(Events), t \in Seq(Events) :
          ShownCalls(s \o t) = ShownCalls(s) \o ShownCalls(t)
<1> DEFINE f == [e \in Events |-> Show(e)]
<1>1. \A e \in Events : Show(e) \in Seq(Nat)
  <2>1. ASSUME NEW e \in Events PROVE Show(e) \in Seq(Nat)
    <3>1. e \in TextEvents => e.kind # "tool"  BY DEF TextEvents
    <3>2. e \in ToolEvents => e.call.id \in Nat  BY DEF ToolEvents, Calls
    <3>3. <<>> \in Seq(Nat)  OBVIOUS
    <3>4. \A i \in Nat : <<i>> \in Seq(Nat)  OBVIOUS
    <3> QED  BY <3>1, <3>2, <3>3, <3>4 DEF Events, Show
  <2> QED  BY <2>1
<1>2. f \in [Events -> Seq(Nat)] /\ \A e \in Events : f[e] = Show(e)  BY <1>1
<1>3. ASSUME NEW s \in Seq(Events) PROVE ShownCalls(s) = Mapped(f, s)
  <2>1. DOMAIN s = 1 .. Len(s) /\ \A n \in 1 .. Len(s) : s[n] \in Events  OBVIOUS
  <2>2. ShownCalls(s) = FlattenSeq([n \in 1 .. Len(s) |-> Show(s[n])])  BY <2>1 DEF ShownCalls
  <2> HIDE DEF f
  <2>3. [n \in 1 .. Len(s) |-> Show(s[n])] = [n \in 1 .. Len(s) |-> f[s[n]]]
    BY <1>2, <2>1
  <2> QED  BY <2>2, <2>3 DEF Mapped
<1> HIDE DEF f
<1>4. /\ Mapped(f, <<>>) = <<>>
      /\ \A s \in Seq(Events) : Mapped(f, s) \in Seq(Nat)
      /\ \A s \in Seq(Events), e \in Events : Mapped(f, Append(s, e)) = Mapped(f, s) \o f[e]
  BY <1>2, MappedFits
<1>5. /\ \A e \in Events : Mapped(f, <<e>>) = f[e]
      /\ \A s \in Seq(Events), t \in Seq(Events) :
              Mapped(f, s \o t) = Mapped(f, s) \o Mapped(f, t)
  BY <1>2, MappedConcat
<1>6. <<>> \in Seq(Events) /\ \A e \in Events : <<e>> \in Seq(Events)  OBVIOUS
<1>7. ASSUME NEW s \in Seq(Events), NEW e \in Events
      PROVE  ShownCalls(Append(s, e)) = ShownCalls(s) \o Show(e)
  <2>1. Append(s, e) \in Seq(Events)  BY AppendFits
  <2> QED  BY <1>2, <1>3, <1>4, <2>1
<1>8. ASSUME NEW s \in Seq(Events), NEW t \in Seq(Events)
      PROVE  ShownCalls(s \o t) = ShownCalls(s) \o ShownCalls(t)
  <2>1. s \o t \in Seq(Events)  BY ConcatProperties
  <2> QED  BY <1>3, <1>5, <2>1
<1>9. ShownCalls(<<>>) = <<>>  BY <1>3, <1>4, <1>6
<1>10. \A s \in Seq(Events) : ShownCalls(s) \in Seq(Nat)  BY <1>3, <1>4
<1>11. \A e \in Events : ShownCalls(<<e>>) = Show(e)  BY <1>2, <1>3, <1>5, <1>6
<1> QED  BY <1>7, <1>8, <1>9, <1>10, <1>11

\* The questions they ask.
LEMMA AskedFit ==
  /\ AskedIn(<<>>) = <<>>
  /\ \A s \in Seq(Events) : AskedIn(s) \in Seq(Nat)
  /\ \A e \in Events : AskedIn(<<e>>) = Ask(e)
  /\ \A s \in Seq(Events), e \in Events : AskedIn(Append(s, e)) = AskedIn(s) \o Ask(e)
  /\ \A s \in Seq(Events), t \in Seq(Events) : AskedIn(s \o t) = AskedIn(s) \o AskedIn(t)
<1> DEFINE f == [e \in Events |-> Ask(e)]
<1>1. \A e \in Events : Ask(e) \in Seq(Nat)
  <2>1. ASSUME NEW e \in Events PROVE Ask(e) \in Seq(Nat)
    <3>1. e \in TextEvents => e.kind # "tool"  BY DEF TextEvents
    <3>2. e \in ToolEvents => e.call.id \in Nat  BY DEF ToolEvents, Calls
    <3>3. <<>> \in Seq(Nat)  OBVIOUS
    <3>4. \A i \in Nat : <<i>> \in Seq(Nat)  OBVIOUS
    <3> QED  BY <3>1, <3>2, <3>3, <3>4 DEF Events, Ask, AskOf
  <2> QED  BY <2>1
<1>2. f \in [Events -> Seq(Nat)] /\ \A e \in Events : f[e] = Ask(e)  BY <1>1
<1>3. ASSUME NEW s \in Seq(Events) PROVE AskedIn(s) = Mapped(f, s)
  <2>1. DOMAIN s = 1 .. Len(s) /\ \A n \in 1 .. Len(s) : s[n] \in Events  OBVIOUS
  <2>2. AskedIn(s) = FlattenSeq([n \in 1 .. Len(s) |-> Ask(s[n])])  BY <2>1 DEF AskedIn, Ask
  <2> HIDE DEF f
  <2>3. [n \in 1 .. Len(s) |-> Ask(s[n])] = [n \in 1 .. Len(s) |-> f[s[n]]]
    BY <1>2, <2>1
  <2> QED  BY <2>2, <2>3 DEF Mapped
<1> HIDE DEF f
<1>4. /\ Mapped(f, <<>>) = <<>>
      /\ \A s \in Seq(Events) : Mapped(f, s) \in Seq(Nat)
      /\ \A s \in Seq(Events), e \in Events : Mapped(f, Append(s, e)) = Mapped(f, s) \o f[e]
  BY <1>2, MappedFits
<1>5. /\ \A e \in Events : Mapped(f, <<e>>) = f[e]
      /\ \A s \in Seq(Events), t \in Seq(Events) :
              Mapped(f, s \o t) = Mapped(f, s) \o Mapped(f, t)
  BY <1>2, MappedConcat
<1>6. <<>> \in Seq(Events) /\ \A e \in Events : <<e>> \in Seq(Events)  OBVIOUS
<1>7. ASSUME NEW s \in Seq(Events), NEW e \in Events
      PROVE  AskedIn(Append(s, e)) = AskedIn(s) \o Ask(e)
  <2>1. Append(s, e) \in Seq(Events)  BY AppendFits
  <2> QED  BY <1>2, <1>3, <1>4, <2>1
<1>8. ASSUME NEW s \in Seq(Events), NEW t \in Seq(Events)
      PROVE  AskedIn(s \o t) = AskedIn(s) \o AskedIn(t)
  <2>1. s \o t \in Seq(Events)  BY ConcatProperties
  <2> QED  BY <1>3, <1>5, <2>1
<1>9. AskedIn(<<>>) = <<>>  BY <1>3, <1>4, <1>6
<1>10. \A s \in Seq(Events) : AskedIn(s) \in Seq(Nat)  BY <1>3, <1>4
<1>11. \A e \in Events : AskedIn(<<e>>) = Ask(e)  BY <1>2, <1>3, <1>5, <1>6
<1> QED  BY <1>7, <1>8, <1>9, <1>10, <1>11

\* A message's events.
LEMMA MessageFits == \A m \in Messages :
                          m.events \in Seq(Events) /\ m.role \in {"user", "assistant"}
BY DEF Messages

\* What messages say.
LEMMA SaidIs ==
  ASSUME NEW k \in Kinds
  PROVE  /\ Said(<<>>, k) = <<>>
         /\ \A s \in Seq(Messages) : Said(s, k) \in Seq(Chars)
         /\ \A e \in Messages : Said(<<e>>, k) = WordsOf(e.events, k)
         /\ \A s \in Seq(Messages), e \in Messages :
                 Said(Append(s, e), k) = Said(s, k) \o WordsOf(e.events, k)
         /\ \A s \in Seq(Messages), t \in Seq(Messages) :
                 Said(s \o t, k) = Said(s, k) \o Said(t, k)
<1> DEFINE f == [e \in Messages |-> WordsOf(e.events, k)]
<1>1. \A e \in Messages : WordsOf(e.events, k) \in Seq(Chars)
  BY MessageFits, WordsFit DEF Text
<1>2. f \in [Messages -> Seq(Chars)] /\ \A e \in Messages : f[e] = WordsOf(e.events, k)
  BY <1>1
<1>3. ASSUME NEW s \in Seq(Messages) PROVE Said(s, k) = Mapped(f, s)
  <2>1. DOMAIN s = 1 .. Len(s) /\ \A n \in 1 .. Len(s) : s[n] \in Messages  OBVIOUS
  <2>2. Said(s, k) = FlattenSeq([n \in 1 .. Len(s) |-> WordsOf(s[n].events, k)])
    <3> DEFINE w(i) == [n \in DOMAIN s[i].events |->
                          IF s[i].events[n].kind = k THEN s[i].events[n].text ELSE <<>>]
    <3>1. Said(s, k) = FlattenSeq([i \in DOMAIN s |-> FlattenSeq(w(i))])  BY DEF Said
    <3>2. \A i : FlattenSeq(w(i)) = WordsOf(s[i].events, k)
      <4>1. \A i : WordsOf(s[i].events, k) = FlattenSeq(w(i))  BY DEF WordsOf
      <4> HIDE DEF w
      <4> QED  BY <4>1
    <3> HIDE DEF w
    <3>3. [i \in DOMAIN s |-> FlattenSeq(w(i))] = [i \in 1 .. Len(s) |-> WordsOf(s[i].events, k)]
      BY <2>1, <3>2
    <3>4. Said(s, k) = FlattenSeq([i \in 1 .. Len(s) |-> WordsOf(s[i].events, k)])
      BY <3>1, <3>3
    <3> QED  BY <3>4
  <2> HIDE DEF f
  <2>3. [n \in 1 .. Len(s) |-> WordsOf(s[n].events, k)] = [n \in 1 .. Len(s) |-> f[s[n]]]
    BY <1>2, <2>1
  <2> QED  BY <2>2, <2>3 DEF Mapped
<1> HIDE DEF f
<1>4. /\ Mapped(f, <<>>) = <<>>
      /\ \A s \in Seq(Messages) : Mapped(f, s) \in Seq(Chars)
      /\ \A s \in Seq(Messages), e \in Messages : Mapped(f, Append(s, e)) = Mapped(f, s) \o f[e]
  BY <1>2, MappedFits
<1>5. /\ \A e \in Messages : Mapped(f, <<e>>) = f[e]
      /\ \A s \in Seq(Messages), t \in Seq(Messages) :
              Mapped(f, s \o t) = Mapped(f, s) \o Mapped(f, t)
  BY <1>2, MappedConcat
<1>6. <<>> \in Seq(Messages) /\ \A e \in Messages : <<e>> \in Seq(Messages)  OBVIOUS
<1>7. ASSUME NEW s \in Seq(Messages), NEW e \in Messages
      PROVE  Said(Append(s, e), k) = Said(s, k) \o WordsOf(e.events, k)
  <2>1. Append(s, e) \in Seq(Messages)  BY AppendFits
  <2> QED  BY <1>2, <1>3, <1>4, <2>1
<1>8. ASSUME NEW s \in Seq(Messages), NEW t \in Seq(Messages)
      PROVE  Said(s \o t, k) = Said(s, k) \o Said(t, k)
  <2>1. s \o t \in Seq(Messages)  BY ConcatProperties
  <2> QED  BY <1>3, <1>5, <2>1
<1>9. Said(<<>>, k) = <<>>  BY <1>3, <1>4, <1>6
<1>10. \A s \in Seq(Messages) : Said(s, k) \in Seq(Chars)  BY <1>3, <1>4
<1>11. \A e \in Messages : Said(<<e>>, k) = WordsOf(e.events, k)  BY <1>2, <1>3, <1>5, <1>6
<1> QED  BY <1>7, <1>8, <1>9, <1>10, <1>11

\* The calls they show.
LEMMA CallIdsFit ==
  /\ CallIds(<<>>) = <<>>
  /\ \A s \in Seq(Messages) : CallIds(s) \in Seq(Nat)
  /\ \A e \in Messages : CallIds(<<e>>) = ShownCalls(e.events)
  /\ \A s \in Seq(Messages), e \in Messages :
          CallIds(Append(s, e)) = CallIds(s) \o ShownCalls(e.events)
  /\ \A s \in Seq(Messages), t \in Seq(Messages) :
          CallIds(s \o t) = CallIds(s) \o CallIds(t)
<1> DEFINE f == [e \in Messages |-> ShownCalls(e.events)]
<1>1. \A e \in Messages : ShownCalls(e.events) \in Seq(Nat)
  BY MessageFits, ShownFit
<1>2. f \in [Messages -> Seq(Nat)] /\ \A e \in Messages : f[e] = ShownCalls(e.events)  BY <1>1
<1>3. ASSUME NEW s \in Seq(Messages) PROVE CallIds(s) = Mapped(f, s)
  <2>1. DOMAIN s = 1 .. Len(s) /\ \A n \in 1 .. Len(s) : s[n] \in Messages  OBVIOUS
  <2>2. CallIds(s) = FlattenSeq([n \in 1 .. Len(s) |-> ShownCalls(s[n].events)])
    <3> DEFINE w(i) == [n \in DOMAIN s[i].events |-> Show(s[i].events[n])]
    <3>1. CallIds(s) = FlattenSeq([i \in DOMAIN s |-> FlattenSeq(w(i))])
      BY DEF CallIds, Show
    <3>2. \A i : FlattenSeq(w(i)) = ShownCalls(s[i].events)
      <4>1. \A i : ShownCalls(s[i].events) = FlattenSeq(w(i))  BY DEF ShownCalls
      <4> HIDE DEF w
      <4> QED  BY <4>1
    <3> HIDE DEF w
    <3>3. [i \in DOMAIN s |-> FlattenSeq(w(i))] = [i \in 1 .. Len(s) |-> ShownCalls(s[i].events)]
      BY <2>1, <3>2
    <3>4. CallIds(s) = FlattenSeq([i \in 1 .. Len(s) |-> ShownCalls(s[i].events)])
      BY <3>1, <3>3
    <3> QED  BY <3>4
  <2> HIDE DEF f
  <2>3. [n \in 1 .. Len(s) |-> ShownCalls(s[n].events)] = [n \in 1 .. Len(s) |-> f[s[n]]]
    BY <1>2, <2>1
  <2> QED  BY <2>2, <2>3 DEF Mapped
<1> HIDE DEF f
<1>4. /\ Mapped(f, <<>>) = <<>>
      /\ \A s \in Seq(Messages) : Mapped(f, s) \in Seq(Nat)
      /\ \A s \in Seq(Messages), e \in Messages : Mapped(f, Append(s, e)) = Mapped(f, s) \o f[e]
  BY <1>2, MappedFits
<1>5. /\ \A e \in Messages : Mapped(f, <<e>>) = f[e]
      /\ \A s \in Seq(Messages), t \in Seq(Messages) :
              Mapped(f, s \o t) = Mapped(f, s) \o Mapped(f, t)
  BY <1>2, MappedConcat
<1>6. <<>> \in Seq(Messages) /\ \A e \in Messages : <<e>> \in Seq(Messages)  OBVIOUS
<1>7. ASSUME NEW s \in Seq(Messages), NEW e \in Messages
      PROVE  CallIds(Append(s, e)) = CallIds(s) \o ShownCalls(e.events)
  <2>1. Append(s, e) \in Seq(Messages)  BY AppendFits
  <2> QED  BY <1>2, <1>3, <1>4, <2>1
<1>8. ASSUME NEW s \in Seq(Messages), NEW t \in Seq(Messages)
      PROVE  CallIds(s \o t) = CallIds(s) \o CallIds(t)
  <2>1. s \o t \in Seq(Messages)  BY ConcatProperties
  <2> QED  BY <1>3, <1>5, <2>1
<1>9. CallIds(<<>>) = <<>>  BY <1>3, <1>4, <1>6
<1>10. \A s \in Seq(Messages) : CallIds(s) \in Seq(Nat)  BY <1>3, <1>4
<1>11. \A e \in Messages : CallIds(<<e>>) = ShownCalls(e.events)  BY <1>2, <1>3, <1>5, <1>6
<1> QED  BY <1>7, <1>8, <1>9, <1>10, <1>11

\* The questions and the user's messages among them.
LEMMA TrailFit ==
  /\ Trail(<<>>) = <<>>
  /\ \A s \in Seq(Messages) : Trail(s) \in Seq(Nat)
  /\ \A e \in Messages : Trail(<<e>>) = TrailOf(e)
  /\ \A s \in Seq(Messages), e \in Messages : Trail(Append(s, e)) = Trail(s) \o TrailOf(e)
  /\ \A s \in Seq(Messages), t \in Seq(Messages) : Trail(s \o t) = Trail(s) \o Trail(t)
<1> DEFINE f == [e \in Messages |-> TrailOf(e)]
<1>1. \A e \in Messages : TrailOf(e) \in Seq(Nat)
  <2>1. \A m \in Messages : AskedIn(m.events) \in Seq(Nat)  BY MessageFits, AskedFit
  <2>2. <<0>> \in Seq(Nat)  OBVIOUS
  <2> QED  BY <2>1, <2>2 DEF TrailOf
<1>2. f \in [Messages -> Seq(Nat)] /\ \A e \in Messages : f[e] = TrailOf(e)  BY <1>1
<1>3. ASSUME NEW s \in Seq(Messages) PROVE Trail(s) = Mapped(f, s)
  <2>1. DOMAIN s = 1 .. Len(s) /\ \A n \in 1 .. Len(s) : s[n] \in Messages  OBVIOUS
  <2>2. Trail(s) = FlattenSeq([n \in 1 .. Len(s) |-> TrailOf(s[n])])  BY <2>1 DEF Trail, TrailOf
  <2> HIDE DEF f
  <2>3. [n \in 1 .. Len(s) |-> TrailOf(s[n])] = [n \in 1 .. Len(s) |-> f[s[n]]]
    BY <1>2, <2>1
  <2> QED  BY <2>2, <2>3 DEF Mapped
<1> HIDE DEF f
<1>4. /\ Mapped(f, <<>>) = <<>>
      /\ \A s \in Seq(Messages) : Mapped(f, s) \in Seq(Nat)
      /\ \A s \in Seq(Messages), e \in Messages : Mapped(f, Append(s, e)) = Mapped(f, s) \o f[e]
  BY <1>2, MappedFits
<1>5. /\ \A e \in Messages : Mapped(f, <<e>>) = f[e]
      /\ \A s \in Seq(Messages), t \in Seq(Messages) :
              Mapped(f, s \o t) = Mapped(f, s) \o Mapped(f, t)
  BY <1>2, MappedConcat
<1>6. <<>> \in Seq(Messages) /\ \A e \in Messages : <<e>> \in Seq(Messages)  OBVIOUS
<1>7. ASSUME NEW s \in Seq(Messages), NEW e \in Messages
      PROVE  Trail(Append(s, e)) = Trail(s) \o TrailOf(e)
  <2>1. Append(s, e) \in Seq(Messages)  BY AppendFits
  <2> QED  BY <1>2, <1>3, <1>4, <2>1
<1>8. ASSUME NEW s \in Seq(Messages), NEW t \in Seq(Messages)
      PROVE  Trail(s \o t) = Trail(s) \o Trail(t)
  <2>1. s \o t \in Seq(Messages)  BY ConcatProperties
  <2> QED  BY <1>3, <1>5, <2>1
<1>9. Trail(<<>>) = <<>>  BY <1>3, <1>4, <1>6
<1>10. \A s \in Seq(Messages) : Trail(s) \in Seq(Nat)  BY <1>3, <1>4
<1>11. \A e \in Messages : Trail(<<e>>) = TrailOf(e)  BY <1>2, <1>3, <1>5, <1>6
<1> QED  BY <1>7, <1>8, <1>9, <1>10, <1>11

\* The calls of a list, the commands or the others.
LEMMA IdsOfFit ==
  ASSUME NEW b \in BOOLEAN
  PROVE  /\ IdsOf(<<>>, b) = <<>>
         /\ \A s \in Seq(Calls) : IdsOf(s, b) \in Seq(Nat)
         /\ \A e \in Calls : IdsOf(<<e>>, b) = IdOf(e, b)
         /\ \A s \in Seq(Calls), e \in Calls : IdsOf(Append(s, e), b) = IdsOf(s, b) \o IdOf(e, b)
         /\ \A s \in Seq(Calls), t \in Seq(Calls) : IdsOf(s \o t, b) = IdsOf(s, b) \o IdsOf(t, b)
<1> DEFINE f == [e \in Calls |-> IdOf(e, b)]
<1>1. \A e \in Calls : IdOf(e, b) \in Seq(Nat)
  <2>1. \A e \in Calls : <<e.id>> \in Seq(Nat)  BY DEF Calls
  <2>2. <<>> \in Seq(Nat)  OBVIOUS
  <2> QED  BY <2>1, <2>2 DEF IdOf
<1>2. f \in [Calls -> Seq(Nat)] /\ \A e \in Calls : f[e] = IdOf(e, b)  BY <1>1
<1>3. ASSUME NEW s \in Seq(Calls) PROVE IdsOf(s, b) = Mapped(f, s)
  <2>1. DOMAIN s = 1 .. Len(s) /\ \A n \in 1 .. Len(s) : s[n] \in Calls  OBVIOUS
  <2>2. IdsOf(s, b) = FlattenSeq([n \in 1 .. Len(s) |-> IdOf(s[n], b)])  BY <2>1 DEF IdsOf
  <2> HIDE DEF f
  <2>3. [n \in 1 .. Len(s) |-> IdOf(s[n], b)] = [n \in 1 .. Len(s) |-> f[s[n]]]
    BY <1>2, <2>1
  <2> QED  BY <2>2, <2>3 DEF Mapped
<1> HIDE DEF f
<1>4. /\ Mapped(f, <<>>) = <<>>
      /\ \A s \in Seq(Calls) : Mapped(f, s) \in Seq(Nat)
      /\ \A s \in Seq(Calls), e \in Calls : Mapped(f, Append(s, e)) = Mapped(f, s) \o f[e]
  BY <1>2, MappedFits
<1>5. /\ \A e \in Calls : Mapped(f, <<e>>) = f[e]
      /\ \A s \in Seq(Calls), t \in Seq(Calls) : Mapped(f, s \o t) = Mapped(f, s) \o Mapped(f, t)
  BY <1>2, MappedConcat
<1>6. <<>> \in Seq(Calls) /\ \A e \in Calls : <<e>> \in Seq(Calls)  OBVIOUS
<1>7. ASSUME NEW s \in Seq(Calls), NEW e \in Calls
      PROVE  IdsOf(Append(s, e), b) = IdsOf(s, b) \o IdOf(e, b)
  <2>1. Append(s, e) \in Seq(Calls)  BY AppendFits
  <2> QED  BY <1>2, <1>3, <1>4, <2>1
<1>8. ASSUME NEW s \in Seq(Calls), NEW t \in Seq(Calls)
      PROVE  IdsOf(s \o t, b) = IdsOf(s, b) \o IdsOf(t, b)
  <2>1. s \o t \in Seq(Calls)  BY ConcatProperties
  <2> QED  BY <1>3, <1>5, <2>1
<1>9. IdsOf(<<>>, b) = <<>>  BY <1>3, <1>4, <1>6
<1>10. \A s \in Seq(Calls) : IdsOf(s, b) \in Seq(Nat)  BY <1>3, <1>4
<1>11. \A e \in Calls : IdsOf(<<e>>, b) = IdOf(e, b)  BY <1>2, <1>3, <1>5, <1>6
<1> QED  BY <1>7, <1>8, <1>9, <1>10, <1>11

\* The questions of one.
LEMMA AsksOfFit ==
  /\ AsksOf(<<>>) = <<>>
  /\ \A s \in Seq(Calls) : AsksOf(s) \in Seq(Nat)
  /\ \A e \in Calls : AsksOf(<<e>>) = AskOf(e)
  /\ \A s \in Seq(Calls), e \in Calls : AsksOf(Append(s, e)) = AsksOf(s) \o AskOf(e)
  /\ \A s \in Seq(Calls), t \in Seq(Calls) : AsksOf(s \o t) = AsksOf(s) \o AsksOf(t)
<1> DEFINE f == [e \in Calls |-> AskOf(e)]
<1>1. \A e \in Calls : AskOf(e) \in Seq(Nat)
  <2>1. \A e \in Calls : <<e.id>> \in Seq(Nat)  BY DEF Calls
  <2>2. <<>> \in Seq(Nat)  OBVIOUS
  <2> QED  BY <2>1, <2>2 DEF AskOf
<1>2. f \in [Calls -> Seq(Nat)] /\ \A e \in Calls : f[e] = AskOf(e)  BY <1>1
<1>3. ASSUME NEW s \in Seq(Calls) PROVE AsksOf(s) = Mapped(f, s)
  <2>1. DOMAIN s = 1 .. Len(s) /\ \A n \in 1 .. Len(s) : s[n] \in Calls  OBVIOUS
  <2>2. AsksOf(s) = FlattenSeq([n \in 1 .. Len(s) |-> AskOf(s[n])])  BY <2>1 DEF AsksOf
  <2> HIDE DEF f
  <2>3. [n \in 1 .. Len(s) |-> AskOf(s[n])] = [n \in 1 .. Len(s) |-> f[s[n]]]
    BY <1>2, <2>1
  <2> QED  BY <2>2, <2>3 DEF Mapped
<1> HIDE DEF f
<1>4. /\ Mapped(f, <<>>) = <<>>
      /\ \A s \in Seq(Calls) : Mapped(f, s) \in Seq(Nat)
      /\ \A s \in Seq(Calls), e \in Calls : Mapped(f, Append(s, e)) = Mapped(f, s) \o f[e]
  BY <1>2, MappedFits
<1>5. /\ \A e \in Calls : Mapped(f, <<e>>) = f[e]
      /\ \A s \in Seq(Calls), t \in Seq(Calls) : Mapped(f, s \o t) = Mapped(f, s) \o Mapped(f, t)
  BY <1>2, MappedConcat
<1>6. <<>> \in Seq(Calls) /\ \A e \in Calls : <<e>> \in Seq(Calls)  OBVIOUS
<1>7. ASSUME NEW s \in Seq(Calls), NEW e \in Calls
      PROVE  AsksOf(Append(s, e)) = AsksOf(s) \o AskOf(e)
  <2>1. Append(s, e) \in Seq(Calls)  BY AppendFits
  <2> QED  BY <1>2, <1>3, <1>4, <2>1
<1>8. ASSUME NEW s \in Seq(Calls), NEW t \in Seq(Calls)
      PROVE  AsksOf(s \o t) = AsksOf(s) \o AsksOf(t)
  <2>1. s \o t \in Seq(Calls)  BY ConcatProperties
  <2> QED  BY <1>3, <1>5, <2>1
<1>9. AsksOf(<<>>) = <<>>  BY <1>3, <1>4, <1>6
<1>10. \A s \in Seq(Calls) : AsksOf(s) \in Seq(Nat)  BY <1>3, <1>4
<1>11. \A e \in Calls : AsksOf(<<e>>) = AskOf(e)  BY <1>2, <1>3, <1>5, <1>6
<1> QED  BY <1>7, <1>8, <1>9, <1>10, <1>11

\* The fields of a row.
LEMMA RowFits ==
  ASSUME NEW r \in Rows
  PROVE  /\ r.role \in {"user", "assistant", "tool"}
         /\ r.role = "assistant" => r.text \in Text /\ r.calls \in CallSeqs /\ r \in TextRows
         /\ r.role = "tool" => r.call \in Calls
BY DEF Rows, UserRows, TextRows, CallRows

\* What rows say.
LEMMA RowsWordsFit ==
  ASSUME NEW k \in Kinds
  PROVE  /\ RowsWords(<<>>, k) = <<>>
         /\ \A s \in Seq(Rows) : RowsWords(s, k) \in Seq(Chars)
         /\ \A e \in Rows : RowsWords(<<e>>, k) = RowWords(e, k)
         /\ \A s \in Seq(Rows), e \in Rows :
                 RowsWords(Append(s, e), k) = RowsWords(s, k) \o RowWords(e, k)
         /\ \A s \in Seq(Rows), t \in Seq(Rows) :
                 RowsWords(s \o t, k) = RowsWords(s, k) \o RowsWords(t, k)
<1> DEFINE f == [e \in Rows |-> RowWords(e, k)]
<1>1. \A e \in Rows : RowWords(e, k) \in Seq(Chars)
  <2>1. <<>> \in Seq(Chars)  OBVIOUS
  <2>2. ASSUME NEW r \in Rows, r.role = "assistant"
        PROVE  WordsOf(SplitContent[r.text], k) \in Seq(Chars)
    <3>1. r.text \in Text  BY <2>2, RowFits
    <3>2. SplitContent[r.text] \in Seq(Events)  BY <3>1, ContentTells DEF Tells
    <3> QED  BY <3>2, WordsFit DEF Text
  <2> QED  BY <2>1, <2>2 DEF RowWords
<1>2. f \in [Rows -> Seq(Chars)] /\ \A e \in Rows : f[e] = RowWords(e, k)  BY <1>1
<1>3. ASSUME NEW s \in Seq(Rows) PROVE RowsWords(s, k) = Mapped(f, s)
  <2>1. DOMAIN s = 1 .. Len(s) /\ \A n \in 1 .. Len(s) : s[n] \in Rows  OBVIOUS
  <2>2. RowsWords(s, k) = FlattenSeq([n \in 1 .. Len(s) |-> RowWords(s[n], k)])
    BY <2>1 DEF RowsWords
  <2> HIDE DEF f
  <2>3. [n \in 1 .. Len(s) |-> RowWords(s[n], k)] = [n \in 1 .. Len(s) |-> f[s[n]]]
    BY <1>2, <2>1
  <2> QED  BY <2>2, <2>3 DEF Mapped
<1> HIDE DEF f
<1>4. /\ Mapped(f, <<>>) = <<>>
      /\ \A s \in Seq(Rows) : Mapped(f, s) \in Seq(Chars)
      /\ \A s \in Seq(Rows), e \in Rows : Mapped(f, Append(s, e)) = Mapped(f, s) \o f[e]
  BY <1>2, MappedFits
<1>5. /\ \A e \in Rows : Mapped(f, <<e>>) = f[e]
      /\ \A s \in Seq(Rows), t \in Seq(Rows) : Mapped(f, s \o t) = Mapped(f, s) \o Mapped(f, t)
  BY <1>2, MappedConcat
<1>6. <<>> \in Seq(Rows) /\ \A e \in Rows : <<e>> \in Seq(Rows)  OBVIOUS
<1>7. ASSUME NEW s \in Seq(Rows), NEW e \in Rows
      PROVE  RowsWords(Append(s, e), k) = RowsWords(s, k) \o RowWords(e, k)
  <2>1. Append(s, e) \in Seq(Rows)  BY AppendFits
  <2> QED  BY <1>2, <1>3, <1>4, <2>1
<1>8. ASSUME NEW s \in Seq(Rows), NEW t \in Seq(Rows)
      PROVE  RowsWords(s \o t, k) = RowsWords(s, k) \o RowsWords(t, k)
  <2>1. s \o t \in Seq(Rows)  BY ConcatProperties
  <2> QED  BY <1>3, <1>5, <2>1
<1>9. RowsWords(<<>>, k) = <<>>  BY <1>3, <1>4, <1>6
<1>10. \A s \in Seq(Rows) : RowsWords(s, k) \in Seq(Chars)  BY <1>3, <1>4
<1>11. \A e \in Rows : RowsWords(<<e>>, k) = RowWords(e, k)  BY <1>2, <1>3, <1>5, <1>6
<1> QED  BY <1>7, <1>8, <1>9, <1>10, <1>11

\* The calls of rows.
LEMMA RowsIdsFit ==
  ASSUME NEW b \in BOOLEAN
  PROVE  /\ RowsIds(<<>>, b) = <<>>
         /\ \A s \in Seq(Rows) : RowsIds(s, b) \in Seq(Nat)
         /\ \A e \in Rows : RowsIds(<<e>>, b) = RowIds(e, b)
         /\ \A s \in Seq(Rows), e \in Rows :
                 RowsIds(Append(s, e), b) = RowsIds(s, b) \o RowIds(e, b)
         /\ \A s \in Seq(Rows), t \in Seq(Rows) :
                 RowsIds(s \o t, b) = RowsIds(s, b) \o RowsIds(t, b)
<1> DEFINE f == [e \in Rows |-> RowIds(e, b)]
<1>1. \A e \in Rows : RowIds(e, b) \in Seq(Nat)
  <2>1. <<>> \in Seq(Nat)  OBVIOUS
  <2>2. ASSUME NEW r \in Rows, r.role = "assistant" PROVE IdsOf(r.calls, b) \in Seq(Nat)
    <3>1. r.calls \in Seq(Calls)  BY <2>2, RowFits DEF CallSeqs
    <3> QED  BY <3>1, IdsOfFit
  <2> QED  BY <2>1, <2>2 DEF RowIds
<1>2. f \in [Rows -> Seq(Nat)] /\ \A e \in Rows : f[e] = RowIds(e, b)  BY <1>1
<1>3. ASSUME NEW s \in Seq(Rows) PROVE RowsIds(s, b) = Mapped(f, s)
  <2>1. DOMAIN s = 1 .. Len(s) /\ \A n \in 1 .. Len(s) : s[n] \in Rows  OBVIOUS
  <2>2. RowsIds(s, b) = FlattenSeq([n \in 1 .. Len(s) |-> RowIds(s[n], b)])  BY <2>1 DEF RowsIds
  <2> HIDE DEF f
  <2>3. [n \in 1 .. Len(s) |-> RowIds(s[n], b)] = [n \in 1 .. Len(s) |-> f[s[n]]]
    BY <1>2, <2>1
  <2> QED  BY <2>2, <2>3 DEF Mapped
<1> HIDE DEF f
<1>4. /\ Mapped(f, <<>>) = <<>>
      /\ \A s \in Seq(Rows) : Mapped(f, s) \in Seq(Nat)
      /\ \A s \in Seq(Rows), e \in Rows : Mapped(f, Append(s, e)) = Mapped(f, s) \o f[e]
  BY <1>2, MappedFits
<1>5. /\ \A e \in Rows : Mapped(f, <<e>>) = f[e]
      /\ \A s \in Seq(Rows), t \in Seq(Rows) : Mapped(f, s \o t) = Mapped(f, s) \o Mapped(f, t)
  BY <1>2, MappedConcat
<1>6. <<>> \in Seq(Rows) /\ \A e \in Rows : <<e>> \in Seq(Rows)  OBVIOUS
<1>7. ASSUME NEW s \in Seq(Rows), NEW e \in Rows
      PROVE  RowsIds(Append(s, e), b) = RowsIds(s, b) \o RowIds(e, b)
  <2>1. Append(s, e) \in Seq(Rows)  BY AppendFits
  <2> QED  BY <1>2, <1>3, <1>4, <2>1
<1>8. ASSUME NEW s \in Seq(Rows), NEW t \in Seq(Rows)
      PROVE  RowsIds(s \o t, b) = RowsIds(s, b) \o RowsIds(t, b)
  <2>1. s \o t \in Seq(Rows)  BY ConcatProperties
  <2> QED  BY <1>3, <1>5, <2>1
<1>9. RowsIds(<<>>, b) = <<>>  BY <1>3, <1>4, <1>6
<1>10. \A s \in Seq(Rows) : RowsIds(s, b) \in Seq(Nat)  BY <1>3, <1>4
<1>11. \A e \in Rows : RowsIds(<<e>>, b) = RowIds(e, b)  BY <1>2, <1>3, <1>5, <1>6
<1> QED  BY <1>7, <1>8, <1>9, <1>10, <1>11

\* Their questions and the user's messages.
LEMMA RowsAsksFit ==
  /\ RowsAsks(<<>>) = <<>>
  /\ \A s \in Seq(Rows) : RowsAsks(s) \in Seq(Nat)
  /\ \A e \in Rows : RowsAsks(<<e>>) = RowAsks(e)
  /\ \A s \in Seq(Rows), e \in Rows : RowsAsks(Append(s, e)) = RowsAsks(s) \o RowAsks(e)
  /\ \A s \in Seq(Rows), t \in Seq(Rows) : RowsAsks(s \o t) = RowsAsks(s) \o RowsAsks(t)
<1> DEFINE f == [e \in Rows |-> RowAsks(e)]
<1>1. \A e \in Rows : RowAsks(e) \in Seq(Nat)
  <2>1. <<>> \in Seq(Nat) /\ <<0>> \in Seq(Nat)  OBVIOUS
  <2>2. ASSUME NEW r \in Rows, r.role = "assistant" PROVE AsksOf(r.calls) \in Seq(Nat)
    <3>1. r.calls \in Seq(Calls)  BY <2>2, RowFits DEF CallSeqs
    <3> QED  BY <3>1, AsksOfFit
  <2> QED  BY <2>1, <2>2 DEF RowAsks
<1>2. f \in [Rows -> Seq(Nat)] /\ \A e \in Rows : f[e] = RowAsks(e)  BY <1>1
<1>3. ASSUME NEW s \in Seq(Rows) PROVE RowsAsks(s) = Mapped(f, s)
  <2>1. DOMAIN s = 1 .. Len(s) /\ \A n \in 1 .. Len(s) : s[n] \in Rows  OBVIOUS
  <2>2. RowsAsks(s) = FlattenSeq([n \in 1 .. Len(s) |-> RowAsks(s[n])])  BY <2>1 DEF RowsAsks
  <2> HIDE DEF f
  <2>3. [n \in 1 .. Len(s) |-> RowAsks(s[n])] = [n \in 1 .. Len(s) |-> f[s[n]]]
    BY <1>2, <2>1
  <2> QED  BY <2>2, <2>3 DEF Mapped
<1> HIDE DEF f
<1>4. /\ Mapped(f, <<>>) = <<>>
      /\ \A s \in Seq(Rows) : Mapped(f, s) \in Seq(Nat)
      /\ \A s \in Seq(Rows), e \in Rows : Mapped(f, Append(s, e)) = Mapped(f, s) \o f[e]
  BY <1>2, MappedFits
<1>5. /\ \A e \in Rows : Mapped(f, <<e>>) = f[e]
      /\ \A s \in Seq(Rows), t \in Seq(Rows) : Mapped(f, s \o t) = Mapped(f, s) \o Mapped(f, t)
  BY <1>2, MappedConcat
<1>6. <<>> \in Seq(Rows) /\ \A e \in Rows : <<e>> \in Seq(Rows)  OBVIOUS
<1>7. ASSUME NEW s \in Seq(Rows), NEW e \in Rows
      PROVE  RowsAsks(Append(s, e)) = RowsAsks(s) \o RowAsks(e)
  <2>1. Append(s, e) \in Seq(Rows)  BY AppendFits
  <2> QED  BY <1>2, <1>3, <1>4, <2>1
<1>8. ASSUME NEW s \in Seq(Rows), NEW t \in Seq(Rows)
      PROVE  RowsAsks(s \o t) = RowsAsks(s) \o RowsAsks(t)
  <2>1. s \o t \in Seq(Rows)  BY ConcatProperties
  <2> QED  BY <1>3, <1>5, <2>1
<1>9. RowsAsks(<<>>) = <<>>  BY <1>3, <1>4, <1>6
<1>10. \A s \in Seq(Rows) : RowsAsks(s) \in Seq(Nat)  BY <1>3, <1>4
<1>11. \A e \in Rows : RowsAsks(<<e>>) = RowAsks(e)  BY <1>2, <1>3, <1>5, <1>6
<1> QED  BY <1>7, <1>8, <1>9, <1>10, <1>11

-----------------------------------------------------------------------------
(* What a reload makes of the rows. *)

\* Calls of rows, and the events a reload shows.
RowCalls ==
  {c \in Calls : \E i \in DOMAIN rows :
                   /\ rows[i].role = "assistant"
                   /\ \E n \in DOMAIN rows[i].calls : c = rows[i].calls[n]}
CallStatus(c) == IF ResultStored(c) THEN "done" ELSE "pending"
Restored == TextEvents \cup {ToolEv(c, CallStatus(c)) : c \in RowCalls}

\* They are events.
LEMMA RestoredFits == Restored \subseteq Events
<1>1. ASSUME NEW c \in RowCalls PROVE ToolEv(c, CallStatus(c)) \in ToolEvents
  <2>1. c \in Calls  BY DEF RowCalls
  <2> QED  BY <2>1 DEF ToolEv, CallStatus, ToolEvents
<1> QED  BY <1>1 DEF Restored, Events

\* The event of a call of a row.
RowEvent(c) == IF c.tool = "bash" THEN <<>> ELSE <<ToolEv(c, CallStatus(c))>>

\* It says nothing, and shows the call unless it is a command.
LEMMA RowEventFits ==
  ASSUME NEW c \in RowCalls
  PROVE  /\ c \in Calls /\ RowEvent(c) \in Seq(Restored) /\ RowEvent(c) \in Seq(Events)
         /\ \A k \in Kinds : WordsOf(RowEvent(c), k) = <<>>
         /\ ShownCalls(RowEvent(c)) = IdOf(c, FALSE) /\ AskedIn(RowEvent(c)) = AskOf(c)
<1> DEFINE e == ToolEv(c, CallStatus(c))
<1>1. c \in Calls  BY DEF RowCalls
<1>2. e \in Restored /\ e \in Events  BY RestoredFits DEF Restored
<1>3. e.kind = "tool" /\ e.call = c  BY DEF ToolEv
<1> HIDE DEF e
<1>4. RowEvent(c) = IF c.tool = "bash" THEN <<>> ELSE <<e>>  BY DEF RowEvent, e
<1>5. RowEvent(c) \in Seq(Restored) /\ RowEvent(c) \in Seq(Events)  BY <1>2, <1>4
<1>6. ASSUME NEW k \in Kinds PROVE WordsOf(RowEvent(c), k) = <<>>
  <2>1. WordsOf(<<>>, k) = <<>> /\ WordsOf(<<e>>, k) = Word(e, k)  BY <1>2, WordsFit
  <2>2. Word(e, k) = <<>>  BY <1>3 DEF Word, Kinds
  <2> QED  BY <1>4, <2>1, <2>2
<1>7. ShownCalls(RowEvent(c)) = IdOf(c, FALSE)
  <2>1. ShownCalls(<<>>) = <<>> /\ ShownCalls(<<e>>) = Show(e)  BY <1>2, ShownFit
  <2> QED  BY <1>3, <1>4, <2>1 DEF Show, IdOf
<1>8. AskedIn(RowEvent(c)) = AskOf(c)
  <2>1. AskedIn(<<>>) = <<>> /\ AskedIn(<<e>>) = Ask(e)  BY <1>2, AskedFit
  <2> QED  BY <1>3, <1>4, <2>1 DEF Ask, AskOf
<1> QED  BY <1>1, <1>5, <1>6, <1>7, <1>8

\* The events of a row's calls.
TailOf(cs) == FlattenSeq([i \in DOMAIN cs |-> RowEvent(cs[i])])
\* One call at a time.
LEMMA TailIs ==
  /\ TailOf(<<>>) = <<>>
  /\ \A s \in Seq(RowCalls) : TailOf(s) \in Seq(Restored)
  /\ \A e \in RowCalls : TailOf(<<e>>) = RowEvent(e)
  /\ \A s \in Seq(RowCalls), e \in RowCalls : TailOf(Append(s, e)) = TailOf(s) \o RowEvent(e)
  /\ \A s \in Seq(RowCalls), t \in Seq(RowCalls) : TailOf(s \o t) = TailOf(s) \o TailOf(t)
<1> DEFINE f == [e \in RowCalls |-> RowEvent(e)]
<1>1. \A e \in RowCalls : RowEvent(e) \in Seq(Restored)
  BY RowEventFits
<1>2. f \in [RowCalls -> Seq(Restored)] /\ \A e \in RowCalls : f[e] = RowEvent(e)  BY <1>1
<1>3. ASSUME NEW s \in Seq(RowCalls) PROVE TailOf(s) = Mapped(f, s)
  <2>1. DOMAIN s = 1 .. Len(s) /\ \A n \in 1 .. Len(s) : s[n] \in RowCalls  OBVIOUS
  <2>2. TailOf(s) = FlattenSeq([n \in 1 .. Len(s) |-> RowEvent(s[n])])  BY <2>1 DEF TailOf
  <2> HIDE DEF f
  <2>3. [n \in 1 .. Len(s) |-> RowEvent(s[n])] = [n \in 1 .. Len(s) |-> f[s[n]]]
    BY <1>2, <2>1
  <2> QED  BY <2>2, <2>3 DEF Mapped
<1> HIDE DEF f
<1>4. /\ Mapped(f, <<>>) = <<>>
      /\ \A s \in Seq(RowCalls) : Mapped(f, s) \in Seq(Restored)
      /\ \A s \in Seq(RowCalls), e \in RowCalls : Mapped(f, Append(s, e)) = Mapped(f, s) \o f[e]
  BY <1>2, MappedFits
<1>5. /\ \A e \in RowCalls : Mapped(f, <<e>>) = f[e]
      /\ \A s \in Seq(RowCalls), t \in Seq(RowCalls) :
              Mapped(f, s \o t) = Mapped(f, s) \o Mapped(f, t)
  BY <1>2, MappedConcat
<1>6. <<>> \in Seq(RowCalls) /\ \A e \in RowCalls : <<e>> \in Seq(RowCalls)  OBVIOUS
<1>7. ASSUME NEW s \in Seq(RowCalls), NEW e \in RowCalls
      PROVE  TailOf(Append(s, e)) = TailOf(s) \o RowEvent(e)
  <2>1. Append(s, e) \in Seq(RowCalls)  BY AppendFits
  <2> QED  BY <1>2, <1>3, <1>4, <2>1
<1>8. ASSUME NEW s \in Seq(RowCalls), NEW t \in Seq(RowCalls)
      PROVE  TailOf(s \o t) = TailOf(s) \o TailOf(t)
  <2>1. s \o t \in Seq(RowCalls)  BY ConcatProperties
  <2> QED  BY <1>3, <1>5, <2>1
<1>9. TailOf(<<>>) = <<>>  BY <1>3, <1>4, <1>6
<1>10. \A s \in Seq(RowCalls) : TailOf(s) \in Seq(Restored)  BY <1>3, <1>4
<1>11. \A e \in RowCalls : TailOf(<<e>>) = RowEvent(e)  BY <1>2, <1>3, <1>5, <1>6
<1> QED  BY <1>7, <1>8, <1>9, <1>10, <1>11

\* A row is restored as its segments and the events of its calls.
LEMMA EventsAre ==
  ASSUME NEW r \in TextRows
  PROVE  EventsOf(r) = SplitContent[r.text] \o TailOf(r.calls)
<1> DEFINE w == [i \in DOMAIN r.calls |-> RowEvent(r.calls[i])]
<1>1. EventsOf(r) = SplitContent[r.text] \o FlattenSeq(w)
  BY DEF EventsOf, RowEvent, CallStatus
<1>2. TailOf(r.calls) = FlattenSeq(w)  BY DEF TailOf
<1> HIDE DEF w
<1> QED  BY <1>1, <1>2

\* They say nothing, and show the calls.
TailTells(cs) ==
  /\ TailOf(cs) \in Seq(Restored) /\ TailOf(cs) \in Seq(Events)
  /\ \A k \in Kinds : WordsOf(TailOf(cs), k) = <<>>
  /\ ShownCalls(TailOf(cs)) = IdsOf(cs, FALSE) /\ AskedIn(TailOf(cs)) = AsksOf(cs)

\* So it is for every list of calls, one after the other.
LEMMA TailFits == \A cs \in Seq(RowCalls) : TailTells(cs)
<1>0. RowCalls \subseteq Calls /\ \A cs \in Seq(RowCalls) : cs \in Seq(Calls)
  BY SeqMonotonic DEF RowCalls
<1> DEFINE N == {n \in Nat : \A cs \in Seq(RowCalls) : Len(cs) = n => TailTells(cs)}
<1>1. 0 \in N
  <2>1. \A cs \in Seq(RowCalls) : Len(cs) = 0 => cs = <<>>  OBVIOUS
  <2>2. TailOf(<<>>) = <<>>  BY TailIs
  <2>3. <<>> \in Seq(Restored) /\ <<>> \in Seq(Events)  OBVIOUS
  <2>4. /\ \A k \in Kinds : WordsOf(<<>>, k) = <<>>
        /\ ShownCalls(<<>>) = <<>> /\ AskedIn(<<>>) = <<>> /\ AsksOf(<<>>) = <<>>
    BY WordsFit, ShownFit, AskedFit, AsksOfFit
  <2>5. IdsOf(<<>>, FALSE) = <<>>
    <3>1. FALSE \in BOOLEAN  OBVIOUS
    <3> QED  BY <3>1, IdsOfFit
  <2>6. TailTells(<<>>)  BY <2>2, <2>3, <2>4, <2>5 DEF TailTells
  <2> QED  BY <2>1, <2>6
<1>2. ASSUME NEW n \in Nat, n \in N PROVE n + 1 \in N
  <2>1. \A cs \in Seq(RowCalls) : Len(cs) = n => TailTells(cs)  BY <1>2
  <2>2. ASSUME NEW cs \in Seq(RowCalls), Len(cs) = n + 1 PROVE TailTells(cs)
    <3>1. cs # <<>>  BY <2>2
    <3>2. PICK u \in Seq(RowCalls), c \in RowCalls : cs = Append(u, c)
      BY <3>1, SequenceEmptyOrAppend
    <3>3. Len(u) = n
      <4>1. Len(Append(u, c)) = Len(u) + 1 /\ Len(u) \in Nat  BY AppendFits
      <4> QED  BY <2>2, <3>2, <4>1
    <3>4. TailTells(u)  BY <2>1, <3>3
    <3> DEFINE a == TailOf(u)
               e == RowEvent(c)
    <3>5. TailOf(cs) = a \o e  BY <3>2, TailIs
    <3>6. /\ c \in Calls /\ e \in Seq(Restored) /\ e \in Seq(Events)
          /\ \A k \in Kinds : WordsOf(e, k) = <<>>
          /\ ShownCalls(e) = IdOf(c, FALSE) /\ AskedIn(e) = AskOf(c)
      BY RowEventFits
    <3>7. /\ a \in Seq(Restored) /\ a \in Seq(Events)
          /\ \A k \in Kinds : WordsOf(a, k) = <<>>
          /\ ShownCalls(a) = IdsOf(u, FALSE) /\ AskedIn(a) = AsksOf(u)
      BY <3>4 DEF TailTells
    <3> HIDE DEF a, e
    <3>8. a \o e \in Seq(Restored) /\ a \o e \in Seq(Events)  BY <3>6, <3>7, ConcatProperties
    <3>9. ASSUME NEW k \in Kinds PROVE WordsOf(a \o e, k) = <<>>
      <4>1. WordsOf(a \o e, k) = WordsOf(a, k) \o WordsOf(e, k)  BY <3>6, <3>7, WordsFit
      <4>2. <<>> \o <<>> = <<>>
        <5>1. <<>> \in Seq(Nat)  OBVIOUS
        <5> QED  BY <5>1, ConcatEmptySeq
      <4> QED  BY <3>6, <3>7, <4>1, <4>2
    <3>10. ShownCalls(a \o e) = IdsOf(cs, FALSE)
      <4>1. ShownCalls(a \o e) = ShownCalls(a) \o ShownCalls(e)  BY <3>6, <3>7, ShownFit
      <4>2. FALSE \in BOOLEAN /\ u \in Seq(Calls)  BY <1>0
      <4>3. IdsOf(Append(u, c), FALSE) = IdsOf(u, FALSE) \o IdOf(c, FALSE)
        BY <3>6, <4>2, IdsOfFit
      <4> QED  BY <3>2, <3>6, <3>7, <4>1, <4>3
    <3>11. AskedIn(a \o e) = AsksOf(cs)
      <4>1. AskedIn(a \o e) = AskedIn(a) \o AskedIn(e)  BY <3>6, <3>7, AskedFit
      <4>2. u \in Seq(Calls)  BY <1>0
      <4>3. AsksOf(Append(u, c)) = AsksOf(u) \o AskOf(c)  BY <3>6, <4>2, AsksOfFit
      <4> QED  BY <3>2, <3>6, <3>7, <4>1, <4>3
    <3> QED  BY <3>5, <3>8, <3>9, <3>10, <3>11 DEF TailTells
  <2> HIDE DEF N
  <2>3. \A cs \in Seq(RowCalls) : Len(cs) = n + 1 => TailTells(cs)  BY <2>2
  <2> QED  BY <2>3 DEF N
<1>3. Nat \subseteq N
  <2> HIDE DEF N
  <2> QED  BY <1>1, <1>2, SetInduction
<1>4. ASSUME NEW cs \in Seq(RowCalls) PROVE TailTells(cs)
  <2>1. Len(cs) \in N  BY <1>3
  <2> QED  BY <2>1
<1> QED  BY <1>4

\* Texts show no calls.
LEMMA TextsShow ==
  \A es \in Seq(TextEvents) : es \in Seq(Events) /\ ShownCalls(es) = <<>> /\ AskedIn(es) = <<>>
<1>0. TextEvents \subseteq Events  BY DEF Events
<1>1. \A es \in Seq(TextEvents) : es \in Seq(Events)  BY <1>0, SeqMonotonic
<1> DEFINE Silent(es) == ShownCalls(es) = <<>> /\ AskedIn(es) = <<>>
           N == {n \in Nat : \A es \in Seq(TextEvents) : Len(es) = n => Silent(es)}
<1>2. 0 \in N
  <2>1. \A es \in Seq(TextEvents) : Len(es) = 0 => es = <<>>  OBVIOUS
  <2>2. Silent(<<>>)  BY ShownFit, AskedFit
  <2> HIDE DEF Silent
  <2> QED  BY <2>1, <2>2
<1>3. ASSUME NEW n \in Nat, n \in N PROVE n + 1 \in N
  <2>1. \A es \in Seq(TextEvents) : Len(es) = n => Silent(es)  BY <1>3
  <2>2. ASSUME NEW es \in Seq(TextEvents), Len(es) = n + 1 PROVE Silent(es)
    <3>1. es # <<>>  BY <2>2
    <3>2. PICK u \in Seq(TextEvents), e \in TextEvents : es = Append(u, e)
      BY <3>1, SequenceEmptyOrAppend
    <3>3. Len(u) = n
      <4>1. Len(Append(u, e)) = Len(u) + 1 /\ Len(u) \in Nat  BY AppendFits
      <4> QED  BY <2>2, <3>2, <4>1
    <3>4. Silent(u)  BY <2>1, <3>3
    <3>5. u \in Seq(Events) /\ e \in Events /\ e.kind # "tool"  BY <1>0, <1>1 DEF TextEvents
    <3>6. ShownCalls(es) = ShownCalls(u) \o Show(e) /\ AskedIn(es) = AskedIn(u) \o Ask(e)
      BY <3>2, <3>5, ShownFit, AskedFit
    <3>7. Show(e) = <<>> /\ Ask(e) = <<>>  BY <3>5 DEF Show, Ask
    <3>8. <<>> \o <<>> = <<>>
      <4>1. <<>> \in Seq(Nat)  OBVIOUS
      <4> QED  BY <4>1, ConcatEmptySeq
    <3> QED  BY <3>4, <3>6, <3>7, <3>8
  <2> HIDE DEF N, Silent
  <2>3. \A es \in Seq(TextEvents) : Len(es) = n + 1 => Silent(es)  BY <2>2
  <2> QED  BY <2>3 DEF N
<1>4. Nat \subseteq N
  <2> HIDE DEF N
  <2> QED  BY <1>2, <1>3, SetInduction
<1>5. ASSUME NEW es \in Seq(TextEvents) PROVE Silent(es)
  <2>1. Len(es) \in N  BY <1>4
  <2> HIDE DEF Silent
  <2> QED  BY <2>1
<1> QED  BY <1>1, <1>5

\* The events of a row say and show what it holds.
LEMMA EventsFit ==
  ASSUME rows \in Seq(Rows), NEW i \in DOMAIN rows, rows[i].role = "assistant"
  PROVE  LET r == rows[i]
             es == EventsOf(r)
         IN  /\ es \in Seq(Restored) /\ es \in Seq(Events)
             /\ \A k \in Kinds : WordsOf(es, k) = RowWords(r, k)
             /\ ShownCalls(es) = RowIds(r, FALSE) /\ AskedIn(es) = RowAsks(r)
<1> DEFINE r == rows[i]
           t == SplitContent[r.text]
           u == TailOf(r.calls)
<1>1. r \in Rows /\ r.role = "assistant"  OBVIOUS
<1> HIDE DEF r
<1>2. r.text \in Text /\ r.calls \in Seq(Calls) /\ r \in TextRows  BY <1>1, RowFits DEF CallSeqs
<1>3. r.calls \in Seq(RowCalls)
  <2> DEFINE cs == r.calls
  <2>1. DOMAIN cs = 1 .. Len(cs) /\ Len(cs) \in Nat /\ \A n \in 1 .. Len(cs) : cs[n] \in Calls
    BY <1>2
  <2>2. \A n \in 1 .. Len(cs) : cs[n] \in RowCalls
    BY <1>1, <2>1 DEF RowCalls, r
  <2>3. cs = [n \in 1 .. Len(cs) |-> cs[n]]  BY <1>2
  <2> HIDE DEF cs
  <2>4. [n \in 1 .. Len(cs) |-> cs[n]] \in [1 .. Len(cs) -> RowCalls]  BY <2>2
  <2>5. [1 .. Len(cs) -> RowCalls] \subseteq Seq(RowCalls)  BY <2>1
  <2> QED  BY <2>3, <2>4, <2>5 DEF cs
<1>4. /\ u \in Seq(Restored) /\ u \in Seq(Events)
      /\ \A k \in Kinds : WordsOf(u, k) = <<>>
      /\ ShownCalls(u) = IdsOf(r.calls, FALSE) /\ AskedIn(u) = AsksOf(r.calls)
  BY <1>3, TailFits DEF TailTells
<1>5. t \in Seq(TextEvents) /\ t \in Seq(Events)  BY <1>2, ContentTells DEF Tells
<1>6. t \in Seq(Restored)
  <2>1. TextEvents \subseteq Restored  BY DEF Restored
  <2> HIDE DEF t
  <2> QED  BY <1>5, <2>1, SeqMonotonic
<1>7. EventsOf(r) = t \o u  BY <1>2, EventsAre
<1>8. \A k \in Kinds : RowWords(r, k) = WordsOf(t, k)  BY <1>1 DEF RowWords
<1>9. RowIds(r, FALSE) = IdsOf(r.calls, FALSE) /\ RowAsks(r) = AsksOf(r.calls)
  BY <1>1 DEF RowIds, RowAsks
<1> HIDE DEF t, u
<1>10. t \o u \in Seq(Restored) /\ t \o u \in Seq(Events)
  BY <1>4, <1>5, <1>6, ConcatProperties
<1>11. ASSUME NEW k \in Kinds PROVE WordsOf(t \o u, k) = RowWords(r, k)
  <2>1. WordsOf(t \o u, k) = WordsOf(t, k) \o WordsOf(u, k)  BY <1>4, <1>5, WordsFit
  <2>2. WordsOf(t, k) \in Text  BY <1>5, WordsFit
  <2>3. WordsOf(t, k) \o <<>> = WordsOf(t, k)  BY <2>2, ConcatEmptySeq DEF Text
  <2> QED  BY <1>4, <1>8, <2>1, <2>3
<1>12. ShownCalls(t) = <<>> /\ AskedIn(t) = <<>>  BY <1>5, TextsShow
<1>13. ShownCalls(t \o u) = ShownCalls(u)
  <2>1. ShownCalls(t \o u) = ShownCalls(t) \o ShownCalls(u)  BY <1>4, <1>5, ShownFit
  <2>2. ShownCalls(u) \in Seq(Nat)  BY <1>4, ShownFit
  <2>3. <<>> \o ShownCalls(u) = ShownCalls(u)  BY <2>2, ConcatEmptySeq
  <2> QED  BY <1>12, <2>1, <2>3
<1>14. AskedIn(t \o u) = AskedIn(u)
  <2>1. AskedIn(t \o u) = AskedIn(t) \o AskedIn(u)  BY <1>4, <1>5, AskedFit
  <2>2. AskedIn(u) \in Seq(Nat)  BY <1>4, AskedFit
  <2>3. <<>> \o AskedIn(u) = AskedIn(u)  BY <2>2, ConcatEmptySeq
  <2> QED  BY <1>12, <2>1, <2>3
<1> QED  BY <1>4, <1>7, <1>9, <1>10, <1>11, <1>13, <1>14 DEF r

-----------------------------------------------------------------------------
(* The bubbles a reload makes. *)

\* A sequence with its last element apart.
LEMMA LastIs ==
  ASSUME NEW S, NEW s \in Seq(S), s # <<>>
  PROVE  /\ Len(s) \in Nat /\ Len(s) >= 1 /\ DOMAIN s = 1 .. Len(s)
         /\ Last(s) = s[Len(s)] /\ Last(s) \in S
         /\ Front(s) \in Seq(S) /\ Len(Front(s)) = Len(s) - 1
         /\ \A i \in 1 .. Len(s) - 1 : Front(s)[i] = s[i]
         /\ s = Append(Front(s), Last(s))
<1>1. Len(s) \in Nat /\ Len(s) >= 1 /\ DOMAIN s = 1 .. Len(s) /\ Last(s) = s[Len(s)]
      /\ Last(s) \in S
  <2>1. Len(s) \in Nat /\ Len(s) # 0 /\ DOMAIN s = 1 .. Len(s)  OBVIOUS
  <2>2. s[Len(s)] \in S  BY <2>1
  <2> QED  BY <2>1, <2>2 DEF Last
<1>2. PICK u \in Seq(S), e \in S : s = Append(u, e)  BY SequenceEmptyOrAppend
<1>3. /\ Len(s) = Len(u) + 1 /\ s[Len(u) + 1] = e /\ Len(u) \in Nat
      /\ \A i \in 1 .. Len(u) : s[i] = u[i]
  BY <1>2, AppendFits
<1>4. Front(s) = SubSeq(s, 1, Len(s) - 1)  BY DEF Front
<1>5. SubSeq(s, 1, Len(s) - 1) = u
  <2>1. /\ SubSeq(s, 1, Len(u)) \in Seq(S)
        /\ Len(SubSeq(s, 1, Len(u))) = Len(u)
        /\ \A i \in 1 .. Len(u) : SubSeq(s, 1, Len(u))[i] = s[i]
    <3>1. \A i \in 1 .. Len(u) : s[i] \in S  BY <1>1, <1>3
    <3> QED  BY <1>3, <3>1, SubSeqProperties
  <2>2. SubSeq(s, 1, Len(u)) = u  BY <1>3, <2>1, SeqEqual
  <2> QED  BY <1>3, <2>2
<1> QED  BY <1>1, <1>2, <1>3, <1>4, <1>5

\* An assistant's message, and messages of which the last has other events.
Bubbly(es) == [role |-> "assistant", events |-> es]
Renewed(ms, es) == Append(Front(ms), Bubbly(es))

\* Lists of numbers are joined in any order.
LEMMA ThreeLists ==
  \A x \in Seq(Nat), y \in Seq(Nat), z \in Seq(Nat) : (x \o y) \o z = x \o (y \o z)
<1> SUFFICES ASSUME NEW x \in Seq(Nat), NEW y \in Seq(Nat), NEW z \in Seq(Nat)
             PROVE  (x \o y) \o z = x \o (y \o z)
  OBVIOUS
<1> DEFINE S == Nat
<1>1. x \in Seq(S) /\ y \in Seq(S) /\ z \in Seq(S)  OBVIOUS
<1> HIDE DEF S
<1> QED  BY SMTT(40), <1>1, Three

\* An assistant's message.
LEMMA BubblyFits ==
  ASSUME NEW es \in Seq(Events)
  PROVE  /\ Bubbly(es) \in Messages /\ Bubbly(es).events = es
         /\ Bubbly(es).role = "assistant" /\ TrailOf(Bubbly(es)) = AskedIn(es)
<1>1. Bubbly(es) \in Messages /\ Bubbly(es).events = es /\ Bubbly(es).role = "assistant"
  BY DEF Bubbly, Messages
<1> HIDE DEF Bubbly
<1> QED  BY <1>1 DEF TrailOf

\* Messages with the last one apart.
LEMMA LastTells ==
  ASSUME NEW ms \in Seq(Messages), ms # <<>>
  PROVE  /\ Front(ms) \in Seq(Messages) /\ Last(ms) \in Messages
         /\ \A k \in Kinds :
              Said(ms, k) = Said(Front(ms), k) \o WordsOf(Last(ms).events, k)
         /\ CallIds(ms) = CallIds(Front(ms)) \o ShownCalls(Last(ms).events)
         /\ Trail(ms) = Trail(Front(ms)) \o TrailOf(Last(ms))
<1> DEFINE f == Front(ms)
           m == Last(ms)
<1>1. f \in Seq(Messages) /\ m \in Messages /\ ms = Append(f, m)  BY LastIs
<1> HIDE DEF f, m
<1>2. ASSUME NEW k \in Kinds PROVE Said(ms, k) = Said(f, k) \o WordsOf(m.events, k)
  BY <1>1, SaidIs
<1>3. CallIds(ms) = CallIds(f) \o ShownCalls(m.events)  BY <1>1, CallIdsFit
<1>4. Trail(ms) = Trail(f) \o TrailOf(m)  BY <1>1, TrailFit
<1> QED  BY <1>1, <1>2, <1>3, <1>4 DEF f, m

\* Its events replaced.
LEMMA RenewedTells ==
  ASSUME NEW ms \in Seq(Messages), ms # <<>>, NEW es \in Seq(Events)
  PROVE  /\ Renewed(ms, es) \in Seq(Messages) /\ Len(Renewed(ms, es)) = Len(ms)
         /\ Renewed(ms, es) # <<>> /\ Last(Renewed(ms, es)) = Bubbly(es)
         /\ Renewed(ms, es)[Len(ms)] = Bubbly(es)
         /\ \A i \in 1 .. Len(ms) - 1 : Renewed(ms, es)[i] = ms[i]
         /\ \A k \in Kinds :
              Said(Renewed(ms, es), k) = Said(Front(ms), k) \o WordsOf(es, k)
         /\ CallIds(Renewed(ms, es)) = CallIds(Front(ms)) \o ShownCalls(es)
         /\ Trail(Renewed(ms, es)) = Trail(Front(ms)) \o AskedIn(es)
<1> DEFINE f == Front(ms)
           m == Bubbly(es)
           n == Renewed(ms, es)
<1>1. /\ f \in Seq(Messages) /\ Len(f) = Len(ms) - 1 /\ Len(ms) \in Nat /\ Len(ms) >= 1
      /\ \A i \in 1 .. Len(ms) - 1 : f[i] = ms[i]
  BY LastIs
<1>2. /\ m \in Messages /\ m.events = es /\ TrailOf(m) = AskedIn(es)  BY BubblyFits
<1>3. n = Append(f, m)  BY DEF Renewed
<1> HIDE DEF f, m, n
<1>4. /\ n \in Seq(Messages) /\ Len(n) = Len(f) + 1 /\ n[Len(f) + 1] = m
      /\ \A i \in 1 .. Len(f) : n[i] = f[i]
  BY <1>1, <1>2, <1>3, AppendFits
<1>5. Len(n) = Len(ms) /\ n[Len(ms)] = m /\ \A i \in 1 .. Len(ms) - 1 : n[i] = ms[i]
  BY <1>1, <1>4
<1>6. n # <<>>  BY <1>1, <1>5
<1>7. Last(n) = m  BY <1>5 DEF Last
<1>8. ASSUME NEW k \in Kinds PROVE Said(n, k) = Said(f, k) \o WordsOf(es, k)
  BY <1>1, <1>2, <1>3, SaidIs
<1>9. CallIds(n) = CallIds(f) \o ShownCalls(es)  BY <1>1, <1>2, <1>3, CallIdsFit
<1>10. Trail(n) = Trail(f) \o AskedIn(es)  BY <1>1, <1>2, <1>3, TrailFit
<1> QED  BY <1>4, <1>5, <1>6, <1>7, <1>8, <1>9, <1>10 DEF f, m, n

\* Each tells what it did, and then what is added.
Adds(ns, ms, es) ==
  /\ ns \in Seq(Messages) /\ ns # <<>>
  /\ \A k \in Kinds : Said(ns, k) = Said(ms, k) \o WordsOf(es, k)
  /\ CallIds(ns) = CallIds(ms) \o ShownCalls(es)
  /\ Trail(ns) = Trail(ms) \o AskedIn(es)

\* The last bubble goes on.
LEMMA BubbleAdds ==
  ASSUME NEW ms \in Seq(Messages), ms # <<>>, Last(ms).role = "assistant",
         NEW es \in Seq(Events)
  PROVE  Adds(Renewed(ms, Last(ms).events \o es), ms, es)
<1> DEFINE f == Front(ms)
           b == Last(ms).events
           a == b \o es
<1>1. /\ f \in Seq(Messages) /\ Last(ms) \in Messages
      /\ \A k \in Kinds : Said(ms, k) = Said(f, k) \o WordsOf(b, k)
      /\ CallIds(ms) = CallIds(f) \o ShownCalls(b)
      /\ Trail(ms) = Trail(f) \o TrailOf(Last(ms))
  BY LastTells
<1>2. TrailOf(Last(ms)) = AskedIn(b)  BY DEF TrailOf
<1>3. b \in Seq(Events)  BY <1>1, MessageFits
<1> HIDE DEF b, f
<1>4. a \in Seq(Events)  BY <1>3, ConcatProperties
<1>5. ASSUME NEW k \in Kinds PROVE WordsOf(a, k) = WordsOf(b, k) \o WordsOf(es, k)
  BY <1>3, WordsFit
<1>6. ShownCalls(a) = ShownCalls(b) \o ShownCalls(es)  BY <1>3, ShownFit
<1>7. AskedIn(a) = AskedIn(b) \o AskedIn(es)  BY <1>3, AskedFit
<1> HIDE DEF a
<1> DEFINE n == Renewed(ms, a)
<1>8. /\ n \in Seq(Messages) /\ n # <<>>
      /\ \A k \in Kinds : Said(n, k) = Said(f, k) \o WordsOf(a, k)
      /\ CallIds(n) = CallIds(f) \o ShownCalls(a)
      /\ Trail(n) = Trail(f) \o AskedIn(a)
  BY <1>4, RenewedTells DEF f
<1> HIDE DEF n
<1>9. ASSUME NEW k \in Kinds PROVE Said(n, k) = Said(ms, k) \o WordsOf(es, k)
  <2> DEFINE x == Said(f, k)
             y == WordsOf(b, k)
             z == WordsOf(es, k)
  <2>1. x \in Seq(Chars)  BY <1>1, SaidIs
  <2>2. y \in Seq(Chars) /\ z \in Seq(Chars)  BY <1>3, WordsFit DEF Text
  <2>3. Said(n, k) = x \o (y \o z) /\ Said(ms, k) = x \o y  BY <1>1, <1>5, <1>8
  <2> HIDE DEF x, y, z
  <2>4. x \o (y \o z) = (x \o y) \o z  BY SMTT(40), <2>1, <2>2, Three
  <2> QED  BY <2>3, <2>4 DEF z
<1>10. CallIds(n) = CallIds(ms) \o ShownCalls(es)
  <2> DEFINE x == CallIds(f)
             y == ShownCalls(b)
             z == ShownCalls(es)
  <2>1. x \in Seq(Nat)  BY <1>1, CallIdsFit
  <2>2. y \in Seq(Nat) /\ z \in Seq(Nat)  BY <1>3, ShownFit
  <2>3. CallIds(n) = x \o (y \o z) /\ CallIds(ms) = x \o y  BY <1>1, <1>6, <1>8
  <2> HIDE DEF x, y, z
  <2>4. x \o (y \o z) = (x \o y) \o z  BY <2>1, <2>2, ThreeLists
  <2> QED  BY <2>3, <2>4 DEF z
<1>11. Trail(n) = Trail(ms) \o AskedIn(es)
  <2> DEFINE x == Trail(f)
             y == AskedIn(b)
             z == AskedIn(es)
  <2>1. x \in Seq(Nat)  BY <1>1, TrailFit
  <2>2. y \in Seq(Nat) /\ z \in Seq(Nat)  BY <1>3, AskedFit
  <2>3. Trail(n) = x \o (y \o z) /\ Trail(ms) = x \o y  BY <1>1, <1>2, <1>7, <1>8
  <2> HIDE DEF x, y, z
  <2>4. x \o (y \o z) = (x \o y) \o z  BY <2>1, <2>2, ThreeLists
  <2> QED  BY <2>3, <2>4 DEF z
<1> QED  BY <1>8, <1>9, <1>10, <1>11 DEF n, a, b, Adds

\* What the rows become, one row at a time.
BuildStep(ms, r) ==
  IF r.role = "tool" THEN ms
  ELSE IF r.role = "user" THEN Append(ms, NewMessage("user"))
  ELSE Joined(ms, EventsOf(r))
BuildsTo(f, n) == f = [i \in 0 .. n |-> IF i = 0 THEN <<>> ELSE BuildStep(f[i - 1], rows[i])]

\* Its values.
LEMMA BuildValues ==
  ASSUME NEW f, NEW n, BuildsTo(f, n)
  PROVE  \A i \in 0 .. n : f[i] = IF i = 0 THEN <<>> ELSE BuildStep(f[i - 1], rows[i])
<1> DEFINE g == [i \in 0 .. n |-> IF i = 0 THEN <<>> ELSE BuildStep(f[i - 1], rows[i])]
<1>1. f = g  BY DEF BuildsTo
<1>2. \A i \in 0 .. n : g[i] = IF i = 0 THEN <<>> ELSE BuildStep(f[i - 1], rows[i])  OBVIOUS
<1> HIDE DEF g
<1> QED  BY <1>1, <1>2

\* There is one.
LEMMA BuildExists == \A n \in Nat : \E f : BuildsTo(f, n)
<1> DEFINE N == {k \in Nat : \E f : BuildsTo(f, k)}
<1>1. 0 \in N
  <2> DEFINE g == [i \in 0 .. 0 |-> <<>>]
  <2>1. g = [i \in 0 .. 0 |-> IF i = 0 THEN <<>> ELSE BuildStep(g[i - 1], rows[i])]
    <3>1. \A i \in 0 .. 0 : i = 0  OBVIOUS
    <3> QED  BY <3>1
  <2>2. BuildsTo(g, 0)  BY <2>1 DEF BuildsTo
  <2> QED  BY <2>2
<1>2. ASSUME NEW k \in Nat, k \in N PROVE k + 1 \in N
  <2>1. PICK f : BuildsTo(f, k)  BY <1>2
  <2> DEFINE g == [i \in 0 .. k + 1 |-> IF i = k + 1 THEN BuildStep(f[k], rows[i]) ELSE f[i]]
  <2>2. ASSUME NEW i \in 0 .. k + 1
        PROVE  g[i] = IF i = 0 THEN <<>> ELSE BuildStep(g[i - 1], rows[i])
    <3>1. CASE i = k + 1
      <4>1. i # 0 /\ i - 1 \in 0 .. k + 1 /\ i - 1 # k + 1 /\ i - 1 = k  BY <3>1
      <4>2. g[i] = BuildStep(f[k], rows[i])  BY <3>1
      <4>3. g[i - 1] = f[k]  BY <4>1
      <4> QED  BY <4>1, <4>2, <4>3
    <3>2. CASE i # k + 1
      <4>1. i \in 0 .. k  BY <3>2
      <4>2. f[i] = IF i = 0 THEN <<>> ELSE BuildStep(f[i - 1], rows[i])
        BY <2>1, <4>1, BuildValues
      <4>3. g[i] = f[i]  BY <3>2
      <4>4. CASE i = 0  BY <4>2, <4>3, <4>4
      <4>5. CASE i # 0
        <5>1. i - 1 \in 0 .. k + 1 /\ i - 1 # k + 1  BY <4>1, <4>5
        <5>2. g[i - 1] = f[i - 1]  BY <5>1
        <5> HIDE DEF g
        <5> QED  BY <4>2, <4>3, <4>5, <5>2
      <4> QED  BY <4>4, <4>5
    <3> QED  BY <3>1, <3>2
  <2>3. BuildsTo(g, k + 1)
    <3>1. g = [i \in 0 .. k + 1 |-> g[i]]  OBVIOUS
    <3> HIDE DEF g
    <3> QED  BY <2>2, <3>1 DEF BuildsTo
  <2> QED  BY <2>3
<1>3. Nat \subseteq N
  <2> HIDE DEF N
  <2> QED  BY <1>1, <1>2, SetInduction
<1> QED  BY <1>3

\* Rebuilt is its last value.
LEMMA RebuiltIs ==
  ASSUME Len(rows) \in Nat
  PROVE  \E f : BuildsTo(f, Len(rows)) /\ Rebuilt = f[Len(rows)]
<1> DEFINE f == CHOOSE f : BuildsTo(f, Len(rows))
<1>1. BuildsTo(f, Len(rows))  BY BuildExists
<1>2. Rebuilt = f[Len(rows)]  BY DEF Rebuilt, BuildsTo, BuildStep
<1> QED  BY <1>1, <1>2

\* Messages tell what rows do, with events a reload shows.
Retells(ms, rs) ==
  /\ ms \in Seq(Messages)
  /\ \A i \in DOMAIN ms : /\ ms[i].events \in Seq(Restored)
                          /\ ms[i].role = "user" => ms[i].events = <<>>
  /\ \A k \in Kinds : Said(ms, k) = RowsWords(rs, k)
  /\ CallIds(ms) = RowsIds(rs, FALSE)
  /\ Trail(ms) = RowsAsks(rs)

\* A message of the user.
LEMMA UserTells ==
  LET u == NewMessage("user")
  IN  /\ u \in Messages /\ u.role = "user" /\ u.events = <<>> /\ u.events \in Seq(Restored)
      /\ \A k \in Kinds : WordsOf(u.events, k) = <<>>
      /\ ShownCalls(u.events) = <<>> /\ TrailOf(u) = <<0>>
<1> DEFINE u == NewMessage("user")
<1>1. u = [role |-> "user", events |-> <<>>]  BY DEF NewMessage
<1> HIDE DEF u
<1>2. <<>> \in Seq(Events) /\ <<>> \in Seq(Restored)  OBVIOUS
<1>3. u \in Messages /\ u.role = "user" /\ u.events = <<>>  BY <1>1, <1>2 DEF Messages
<1>4. \A k \in Kinds : WordsOf(<<>>, k) = <<>>  BY WordsFit
<1>5. ShownCalls(<<>>) = <<>>  BY ShownFit
<1>6. TrailOf(u) = <<0>>  BY <1>3 DEF TrailOf
<1> QED  BY <1>2, <1>3, <1>4, <1>5, <1>6 DEF u

\* An answer's row is joined to the bubble before it or is a new one.
LEMMA JoinedIs ==
  ASSUME NEW ms \in Seq(Messages), NEW es \in Seq(Events)
  PROVE  /\ Adds(Joined(ms, es), ms, es)
         /\ \A i \in DOMAIN Joined(ms, es) :
              \/ i \in DOMAIN ms /\ Joined(ms, es)[i] = ms[i]
              \/ Joined(ms, es)[i] = Bubbly(es)
              \/ ms # <<>> /\ Joined(ms, es)[i] = Bubbly(Last(ms).events \o es)
<1> DEFINE n == Joined(ms, es)
<1>1. CASE ms # <<>> /\ Last(ms).role = "assistant"
  <2> DEFINE a == Last(ms).events \o es
  <2>1. n = Renewed(ms, a)  BY <1>1 DEF Joined, Renewed, Bubbly
  <2>2. Adds(n, ms, es)  BY <1>1, <2>1, BubbleAdds
  <2>3. Last(ms) \in Messages  BY <1>1, LastIs
  <2>4. a \in Seq(Events)  BY <2>3, MessageFits, ConcatProperties
  <2> HIDE DEF a, n
  <2>5. /\ Len(n) = Len(ms) /\ n[Len(ms)] = Bubbly(a) /\ n \in Seq(Messages)
        /\ \A i \in 1 .. Len(ms) - 1 : n[i] = ms[i]
    BY <1>1, <2>1, <2>4, RenewedTells
  <2>6. Len(ms) \in Nat /\ DOMAIN ms = 1 .. Len(ms) /\ DOMAIN n = 1 .. Len(ms)  BY <2>5
  <2>7. \A i \in 1 .. Len(ms) : i = Len(ms) \/ i \in 1 .. Len(ms) - 1
    <3>1. \A m \in Nat : \A i \in 1 .. m : i = m \/ i \in 1 .. m - 1  OBVIOUS
    <3>2. Len(ms) \in Nat  BY Zenon, <2>6
    <3> QED  BY <3>1, <3>2
  <2>8. \A i \in DOMAIN n : (i \in DOMAIN ms /\ n[i] = ms[i]) \/ n[i] = Bubbly(a)
    BY <2>5, <2>6, <2>7
  <2> QED  BY <1>1, <2>2, <2>8 DEF a, n
<1>2. CASE ~ (ms # <<>> /\ Last(ms).role = "assistant")
  <2> DEFINE b == Bubbly(es)
  <2>1. n = Append(ms, b)  BY <1>2 DEF Joined, Bubbly
  <2>2. b \in Messages /\ b.events = es /\ TrailOf(b) = AskedIn(es)  BY BubblyFits
  <2> HIDE DEF b, n
  <2>3. /\ n \in Seq(Messages) /\ Len(n) = Len(ms) + 1 /\ n[Len(ms) + 1] = b
        /\ \A i \in 1 .. Len(ms) : n[i] = ms[i]
    BY <2>1, <2>2, AppendFits
  <2>4. Len(ms) \in Nat /\ DOMAIN ms = 1 .. Len(ms) /\ DOMAIN n = 1 .. Len(ms) + 1  BY <2>3
  <2>5. \A i \in 1 .. Len(ms) + 1 : i = Len(ms) + 1 \/ i \in 1 .. Len(ms)  BY <2>4
  <2>6. \A i \in DOMAIN n : (i \in DOMAIN ms /\ n[i] = ms[i]) \/ n[i] = b
    BY <2>3, <2>4, <2>5
  <2>7. n # <<>>  BY <2>3, <2>4
  <2>8. ASSUME NEW k \in Kinds PROVE Said(n, k) = Said(ms, k) \o WordsOf(es, k)
    BY <2>1, <2>2, SaidIs
  <2>9. CallIds(n) = CallIds(ms) \o ShownCalls(es)  BY <2>1, <2>2, CallIdsFit
  <2>10. Trail(n) = Trail(ms) \o AskedIn(es)  BY <2>1, <2>2, TrailFit
  <2>11. Adds(n, ms, es)  BY <2>3, <2>7, <2>8, <2>9, <2>10 DEF Adds
  <2> QED  BY <2>6, <2>11 DEF b, n
<1> QED  BY <1>1, <1>2

\* One row more.
LEMMA MoreRows ==
  ASSUME NEW rs \in Seq(Rows), NEW r \in Rows
  PROVE  /\ \A k \in Kinds : /\ RowsWords(rs \o <<r>>, k) = RowsWords(rs, k) \o RowWords(r, k)
                             /\ RowsWords(rs, k) \in Seq(Chars)
         /\ \A b \in BOOLEAN : /\ RowsIds(rs \o <<r>>, b) = RowsIds(rs, b) \o RowIds(r, b)
                               /\ RowsIds(rs, b) \in Seq(Nat)
         /\ RowsAsks(rs \o <<r>>) = RowsAsks(rs) \o RowAsks(r) /\ RowsAsks(rs) \in Seq(Nat)
<1>1. rs \o <<r>> = Append(rs, r)  BY AppendIsConcat
<1>2. ASSUME NEW k \in Kinds
      PROVE  /\ RowsWords(Append(rs, r), k) = RowsWords(rs, k) \o RowWords(r, k)
             /\ RowsWords(rs, k) \in Seq(Chars)
  BY RowsWordsFit
<1>3. ASSUME NEW b \in BOOLEAN
      PROVE  /\ RowsIds(Append(rs, r), b) = RowsIds(rs, b) \o RowIds(r, b)
             /\ RowsIds(rs, b) \in Seq(Nat)
  BY RowsIdsFit
<1>4. RowsAsks(Append(rs, r)) = RowsAsks(rs) \o RowAsks(r) /\ RowsAsks(rs) \in Seq(Nat)
  BY RowsAsksFit
<1> QED  BY <1>1, <1>2, <1>3, <1>4

\* What a row becomes tells what the row does.
LEMMA BuildTells ==
  ASSUME rows \in Seq(Rows), NEW i \in 1 .. Len(rows), NEW ms,
         Retells(ms, SubSeq(rows, 1, i - 1))
  PROVE  Retells(BuildStep(ms, rows[i]), SubSeq(rows, 1, i))
<1> DEFINE rs == SubSeq(rows, 1, i - 1)
           r == rows[i]
           n == BuildStep(ms, r)
<1>1. Len(rows) \in Nat /\ i \in DOMAIN rows /\ DOMAIN rows = 1 .. Len(rows)  OBVIOUS
<1>2. SubSeq(rows, 1, i) = rs \o <<r>>
  <2>1. 1 \in 1 .. Len(rows) /\ i \in 1 .. Len(rows)  BY <1>1
  <2> QED  BY <2>1, SubSeqRecursiveSecond
<1>3. rs \in Seq(Rows)
  <2>1. 1 \in Int /\ i - 1 \in Int /\ \A j \in 1 .. i - 1 : rows[j] \in Rows  BY <1>1
  <2> QED  BY <2>1, SubSeqProperties
<1>4. r \in Rows  BY <1>1
<1>5. /\ \A k \in Kinds : /\ RowsWords(rs \o <<r>>, k) = RowsWords(rs, k) \o RowWords(r, k)
                          /\ RowsWords(rs, k) \in Seq(Chars)
      /\ RowsIds(rs \o <<r>>, FALSE) = RowsIds(rs, FALSE) \o RowIds(r, FALSE)
      /\ RowsIds(rs, FALSE) \in Seq(Nat)
      /\ RowsAsks(rs \o <<r>>) = RowsAsks(rs) \o RowAsks(r) /\ RowsAsks(rs) \in Seq(Nat)
  BY <1>3, <1>4, MoreRows
<1>6. Retells(ms, rs)  OBVIOUS
<1>7. r.role = "assistant" =>
        LET es == EventsOf(r)
        IN  /\ es \in Seq(Restored) /\ es \in Seq(Events)
            /\ \A k \in Kinds : WordsOf(es, k) = RowWords(r, k)
            /\ ShownCalls(es) = RowIds(r, FALSE) /\ AskedIn(es) = RowAsks(r)
  BY <1>1, EventsFit
<1>8. r.role \in {"user", "assistant", "tool"}  BY <1>4, RowFits
<1> HIDE DEF rs, r
<1>9. SUFFICES Retells(n, rs \o <<r>>)  BY <1>2 DEF r, rs
<1>10. /\ ms \in Seq(Messages)
       /\ \A j \in DOMAIN ms : /\ ms[j].events \in Seq(Restored)
                               /\ ms[j].role = "user" => ms[j].events = <<>>
       /\ \A k \in Kinds : Said(ms, k) = RowsWords(rs, k)
       /\ CallIds(ms) = RowsIds(rs, FALSE)
       /\ Trail(ms) = RowsAsks(rs)
  BY <1>6 DEF Retells
<1>11. /\ \A s \in Seq(Chars) : s \o <<>> = s
       /\ \A s \in Seq(Nat) : s \o <<>> = s
  BY ConcatEmptySeq
<1>12. CASE r.role = "tool"
  <2>1. n = ms  BY <1>12 DEF BuildStep
  <2>2. /\ \A k \in Kinds : RowWords(r, k) = <<>>
        /\ RowIds(r, FALSE) = <<>> /\ RowAsks(r) = <<>>
    BY <1>12 DEF RowWords, RowIds, RowAsks
  <2> HIDE DEF n
  <2>3. \A k \in Kinds : Said(ms, k) = RowsWords(rs \o <<r>>, k)
    <3>1. ASSUME NEW k \in Kinds PROVE Said(ms, k) = RowsWords(rs \o <<r>>, k)
      <4>1. RowsWords(rs, k) \o <<>> = RowsWords(rs, k)  BY <1>5, <1>11
      <4> QED  BY <1>5, <1>10, <2>2, <4>1
    <3> QED  BY <3>1
  <2>4. CallIds(ms) = RowsIds(rs \o <<r>>, FALSE)
    <3>1. RowsIds(rs, FALSE) \o <<>> = RowsIds(rs, FALSE)  BY <1>5, <1>11
    <3> QED  BY <1>5, <1>10, <2>2, <3>1
  <2>5. Trail(ms) = RowsAsks(rs \o <<r>>)
    <3>1. RowsAsks(rs) \o <<>> = RowsAsks(rs)  BY <1>5, <1>11
    <3> QED  BY <1>5, <1>10, <2>2, <3>1
  <2> QED  BY <1>10, <2>1, <2>3, <2>4, <2>5 DEF Retells
<1>13. CASE r.role = "user"
  <2> DEFINE u == NewMessage("user")
  <2>1. n = Append(ms, u)  BY <1>13 DEF BuildStep
  <2>2. /\ \A k \in Kinds : RowWords(r, k) = <<>>
        /\ RowIds(r, FALSE) = <<>> /\ RowAsks(r) = <<0>>
    BY <1>13 DEF RowWords, RowIds, RowAsks
  <2>3. /\ u \in Messages /\ u.role = "user" /\ u.events = <<>> /\ u.events \in Seq(Restored)
        /\ \A k \in Kinds : WordsOf(u.events, k) = <<>>
        /\ ShownCalls(u.events) = <<>> /\ TrailOf(u) = <<0>>
    BY UserTells
  <2> HIDE DEF u, n
  <2>4. /\ n \in Seq(Messages) /\ Len(n) = Len(ms) + 1 /\ n[Len(ms) + 1] = u
        /\ \A j \in 1 .. Len(ms) : n[j] = ms[j]
    BY <1>10, <2>1, <2>3, AppendFits
  <2>5. \A j \in DOMAIN n : /\ n[j].events \in Seq(Restored)
                            /\ n[j].role = "user" => n[j].events = <<>>
    <3>1. Len(ms) \in Nat /\ DOMAIN ms = 1 .. Len(ms) /\ DOMAIN n = 1 .. Len(ms) + 1
      BY <1>10, <2>4
    <3>2. \A j \in 1 .. Len(ms) + 1 : j = Len(ms) + 1 \/ j \in 1 .. Len(ms)  BY <3>1
    <3> QED  BY <1>10, <2>3, <2>4, <3>1, <3>2
  <2>6. ASSUME NEW k \in Kinds PROVE Said(n, k) = RowsWords(rs \o <<r>>, k)
    <3>1. Said(n, k) = Said(ms, k) \o <<>>  BY <1>10, <2>1, <2>3, SaidIs
    <3> QED  BY <1>5, <1>10, <2>2, <3>1
  <2>7. CallIds(n) = RowsIds(rs \o <<r>>, FALSE)
    <3>1. CallIds(n) = CallIds(ms) \o <<>>  BY <1>10, <2>1, <2>3, CallIdsFit
    <3> QED  BY <1>5, <1>10, <2>2, <3>1
  <2>8. Trail(n) = RowsAsks(rs \o <<r>>)
    <3>1. Trail(n) = Trail(ms) \o <<0>>  BY <1>10, <2>1, <2>3, TrailFit
    <3> QED  BY <1>5, <1>10, <2>2, <3>1
  <2> QED  BY <2>4, <2>5, <2>6, <2>7, <2>8 DEF Retells
<1>14. CASE r.role = "assistant"
  <2> DEFINE es == EventsOf(r)
  <2>1. n = Joined(ms, es)  BY <1>14 DEF BuildStep
  <2>2. /\ es \in Seq(Restored) /\ es \in Seq(Events)
        /\ \A k \in Kinds : WordsOf(es, k) = RowWords(r, k)
        /\ ShownCalls(es) = RowIds(r, FALSE) /\ AskedIn(es) = RowAsks(r)
    BY <1>7, <1>14
  <2> HIDE DEF es, n
  <2>3. /\ Adds(n, ms, es)
        /\ \A j \in DOMAIN n :
              \/ j \in DOMAIN ms /\ n[j] = ms[j]
              \/ n[j] = Bubbly(es)
              \/ ms # <<>> /\ n[j] = Bubbly(Last(ms).events \o es)
    BY <1>10, <2>1, <2>2, JoinedIs
  <2>4. \A j \in DOMAIN n : /\ n[j].events \in Seq(Restored)
                            /\ n[j].role = "user" => n[j].events = <<>>
    <3>1. ASSUME NEW j \in DOMAIN n, n[j] = Bubbly(es)
          PROVE  n[j].events \in Seq(Restored) /\ n[j].role # "user"
      BY <2>2, <3>1 DEF Bubbly
    <3>2. ASSUME NEW j \in DOMAIN n, ms # <<>>, n[j] = Bubbly(Last(ms).events \o es)
          PROVE  n[j].events \in Seq(Restored) /\ n[j].role # "user"
      <4>1. Len(ms) \in DOMAIN ms /\ Last(ms) = ms[Len(ms)]
        <5>1. Len(ms) \in Nat /\ Len(ms) >= 1 /\ DOMAIN ms = 1 .. Len(ms)
              /\ Last(ms) = ms[Len(ms)]
          BY <1>10, <3>2, LastIs
        <5> QED  BY <5>1
      <4>2. Last(ms).events \in Seq(Restored)  BY <1>10, <4>1
      <4>3. Last(ms).events \o es \in Seq(Restored)  BY <2>2, <4>2, ConcatProperties
      <4> QED  BY <3>2, <4>3 DEF Bubbly
    <3> QED  BY <1>10, <2>3, <3>1, <3>2
  <2>5. /\ n \in Seq(Messages)
        /\ \A k \in Kinds : Said(n, k) = Said(ms, k) \o WordsOf(es, k)
        /\ CallIds(n) = CallIds(ms) \o ShownCalls(es)
        /\ Trail(n) = Trail(ms) \o AskedIn(es)
    BY <2>3 DEF Adds
  <2>6. \A k \in Kinds : Said(n, k) = RowsWords(rs \o <<r>>, k)  BY <1>5, <1>10, <2>2, <2>5
  <2>7. CallIds(n) = RowsIds(rs \o <<r>>, FALSE)  BY <1>5, <1>10, <2>2, <2>5
  <2>8. Trail(n) = RowsAsks(rs \o <<r>>)  BY <1>5, <1>10, <2>2, <2>5
  <2> QED  BY <2>4, <2>5, <2>6, <2>7, <2>8 DEF Retells
<1> QED  BY <1>8, <1>12, <1>13, <1>14

\* What a reload shows tells what the rows do.
LEMMA RebuiltTells ==
  ASSUME rows \in Seq(Rows)
  PROVE  Retells(Rebuilt, rows)
<1> DEFINE m == Len(rows)
<1>1. m \in Nat  OBVIOUS
<1>2. PICK f : BuildsTo(f, m) /\ Rebuilt = f[m]  BY <1>1, RebuiltIs
<1>3. \A i \in 0 .. m : f[i] = IF i = 0 THEN <<>> ELSE BuildStep(f[i - 1], rows[i])
  BY <1>2, BuildValues
<1> DEFINE N == {i \in Nat : i <= m => Retells(f[i], SubSeq(rows, 1, i))}
<1>4. 0 \in N
  <2>1. f[0] = <<>>
    <3>1. 0 \in 0 .. m  BY <1>1
    <3> QED  BY <1>3, <3>1
  <2>2. SubSeq(rows, 1, 0) = <<>>  OBVIOUS
  <2>3. /\ \A k \in Kinds : Said(<<>>, k) = <<>> /\ RowsWords(<<>>, k) = <<>>
        /\ CallIds(<<>>) = <<>> /\ Trail(<<>>) = <<>> /\ RowsAsks(<<>>) = <<>>
    BY SaidIs, CallIdsFit, TrailFit, RowsWordsFit, RowsAsksFit
  <2>4. RowsIds(<<>>, FALSE) = <<>>
    <3>1. FALSE \in BOOLEAN  OBVIOUS
    <3> QED  BY <3>1, RowsIdsFit
  <2>5. <<>> \in Seq(Messages) /\ DOMAIN <<>> = {}  OBVIOUS
  <2>6. Retells(<<>>, <<>>)  BY <2>3, <2>4, <2>5 DEF Retells
  <2> QED  BY <2>1, <2>2, <2>6
<1>5. ASSUME NEW i \in Nat, i \in N PROVE i + 1 \in N
  <2>1. SUFFICES ASSUME i + 1 <= m PROVE Retells(f[i + 1], SubSeq(rows, 1, i + 1))  OBVIOUS
  <2>2. i + 1 \in 0 .. m /\ i + 1 \in 1 .. m /\ (i + 1) - 1 = i /\ i + 1 # 0 /\ i <= m
    BY <1>1, <2>1
  <2>3. f[i + 1] = BuildStep(f[(i + 1) - 1], rows[i + 1])  BY <1>3, <2>2
  <2>4. Retells(f[i], SubSeq(rows, 1, i))  BY <1>5, <2>2
  <2>5. Retells(f[(i + 1) - 1], SubSeq(rows, 1, (i + 1) - 1))  BY <2>2, <2>4
  <2> DEFINE j == i + 1
  <2>6. j \in 1 .. Len(rows) /\ Retells(f[j - 1], SubSeq(rows, 1, j - 1))  BY <2>2, <2>5
  <2>7. f[j] = BuildStep(f[j - 1], rows[j])  BY <2>3
  <2> HIDE DEF j, m, N
  <2>8. Retells(BuildStep(f[j - 1], rows[j]), SubSeq(rows, 1, j))  BY <2>6, BuildTells
  <2>9. Retells(f[j], SubSeq(rows, 1, j))  BY <2>7, <2>8
  <2> QED  BY <2>9 DEF j
<1>6. Nat \subseteq N
  <2> HIDE DEF N
  <2> QED  BY <1>4, <1>5, SetInduction
<1>7. Retells(f[m], SubSeq(rows, 1, m))
  <2>1. m \in N /\ m <= m  BY <1>1, <1>6
  <2> QED  BY <2>1
<1>8. SubSeq(rows, 1, m) = rows  BY SubSeqFull
<1> QED  BY <1>2, <1>7, <1>8

\* The terminal shows the commands of the rows.
LEMMA TerminalIs ==
  ASSUME rows \in Seq(Rows)
  PROVE  RebuiltTerminal = RowsIds(rows, TRUE)
<1>1. ASSUME NEW i \in DOMAIN rows PROVE Commands(rows[i]) = RowIds(rows[i], TRUE)
  <2> DEFINE cs == rows[i].calls
             v == [n \in DOMAIN cs |-> IF cs[n].tool = "bash" THEN <<cs[n].id>> ELSE <<>>]
             w == [n \in DOMAIN cs |-> IdOf(cs[n], TRUE)]
  <2>1. v = w  BY DEF IdOf
  <2>2. Commands(rows[i]) = IF rows[i].role # "assistant" THEN <<>> ELSE FlattenSeq(v)
    BY DEF Commands
  <2>3. IdsOf(cs, TRUE) = FlattenSeq(w)  BY DEF IdsOf
  <2> HIDE DEF v, w
  <2> QED  BY <2>1, <2>2, <2>3 DEF RowIds
<1> DEFINE v == [n \in DOMAIN rows |-> Commands(rows[n])]
           w == [n \in DOMAIN rows |-> RowIds(rows[n], TRUE)]
<1>2. v = w  BY <1>1
<1>3. RebuiltTerminal = FlattenSeq(v)  BY DEF RebuiltTerminal
<1>4. RowsIds(rows, TRUE) = FlattenSeq(w)  BY DEF RowsIds
<1> HIDE DEF v, w
<1> QED  BY <1>2, <1>3, <1>4

-----------------------------------------------------------------------------
(* What becomes of a bubble's events. *)

\* The fields of an event.
LEMMA EventFields ==
  ASSUME NEW e \in Events
  PROVE  /\ e.kind \in {"text", "reason", "tool"}
         /\ e.kind = "tool" => /\ e \in ToolEvents /\ e.call \in Calls /\ e.call.id \in Nat
                               /\ e.status \in {"pending", "done", "error"} /\ e.stub \in BOOLEAN
         /\ e.kind # "tool" => e \in TextEvents /\ e.text \in Text
<1>1. CASE e \in TextEvents  BY <1>1 DEF TextEvents
<1>2. CASE e \in ToolEvents
  <2>1. /\ e.kind = "tool" /\ e.call \in Calls
        /\ e.status \in {"pending", "done", "error"} /\ e.stub \in BOOLEAN
    BY <1>2 DEF ToolEvents
  <2>2. e.call.id \in Nat  BY <2>1 DEF Calls
  <2> QED  BY <1>2, <2>1, <2>2
<1> QED  BY <1>1, <1>2 DEF Events

\* A call's event.
LEMMA ToolFits ==
  ASSUME NEW c \in Calls, NEW st \in {"pending", "done", "error"}, NEW stub \in BOOLEAN
  PROVE  LET e == [kind |-> "tool", call |-> c, status |-> st, stub |-> stub]
         IN  /\ e \in Events
             /\ \A k \in Kinds : Word(e, k) = <<>>
             /\ Show(e) = IdOf(c, FALSE) /\ Ask(e) = AskOf(c)
<1> DEFINE e == [kind |-> "tool", call |-> c, status |-> st, stub |-> stub]
<1>1. e \in Events  BY DEF Events, ToolEvents
<1>2. e.kind = "tool" /\ e.call = c  OBVIOUS
<1> HIDE DEF e
<1>3. \A k \in Kinds : Word(e, k) = <<>>  BY <1>2 DEF Word, Kinds
<1>4. Show(e) = IdOf(c, FALSE) /\ Ask(e) = AskOf(c)  BY <1>2 DEF Show, IdOf, Ask
<1> QED  BY <1>1, <1>3, <1>4 DEF e

\* Events that differ in the state of calls only.
Alike(fs, es) ==
  /\ Len(fs) = Len(es)
  /\ \A n \in 1 .. Len(es) :
       /\ fs[n].kind = es[n].kind
       /\ es[n].kind = "tool" => fs[n].call = es[n].call /\ (fs[n].stub => es[n].stub)
       /\ es[n].kind # "tool" => fs[n] = es[n]

\* They tell the same.
LEMMA AlikeTells ==
  ASSUME NEW es \in Seq(Events), NEW fs \in Seq(Events), Alike(fs, es)
  PROVE  /\ \A k \in Kinds : WordsOf(fs, k) = WordsOf(es, k)
         /\ ShownCalls(fs) = ShownCalls(es) /\ AskedIn(fs) = AskedIn(es)
<1>1. /\ DOMAIN fs = 1 .. Len(es) /\ DOMAIN es = 1 .. Len(es)
      /\ \A n \in 1 .. Len(es) :
           /\ fs[n].kind = es[n].kind
           /\ es[n].kind = "tool" => fs[n].call = es[n].call
           /\ es[n].kind # "tool" => fs[n] = es[n]
  BY DEF Alike
<1>2. ASSUME NEW k \in Kinds PROVE WordsOf(fs, k) = WordsOf(es, k)
  <2> DEFINE v == [n \in DOMAIN fs |-> IF fs[n].kind = k THEN fs[n].text ELSE <<>>]
             w == [n \in DOMAIN es |-> IF es[n].kind = k THEN es[n].text ELSE <<>>]
  <2>1. k # "tool"  BY DEF Kinds
  <2>2. v = w  BY <1>1, <2>1
  <2>3. WordsOf(fs, k) = FlattenSeq(v) /\ WordsOf(es, k) = FlattenSeq(w)  BY DEF WordsOf
  <2> HIDE DEF v, w
  <2> QED  BY <2>2, <2>3
<1>3. ShownCalls(fs) = ShownCalls(es)
  <2> DEFINE v == [n \in DOMAIN fs |-> Show(fs[n])]
             w == [n \in DOMAIN es |-> Show(es[n])]
  <2>1. \A n \in 1 .. Len(es) : Show(fs[n]) = Show(es[n])  BY <1>1 DEF Show
  <2>2. v = w  BY <1>1, <2>1
  <2>3. ShownCalls(fs) = FlattenSeq(v) /\ ShownCalls(es) = FlattenSeq(w)  BY DEF ShownCalls
  <2> HIDE DEF v, w
  <2> QED  BY <2>2, <2>3
<1>4. AskedIn(fs) = AskedIn(es)
  <2> DEFINE v == [n \in DOMAIN fs |-> IF fs[n].kind = "tool" THEN AskOf(fs[n].call) ELSE <<>>]
             w == [n \in DOMAIN es |-> IF es[n].kind = "tool" THEN AskOf(es[n].call) ELSE <<>>]
  <2>1. \A n \in 1 .. Len(es) :
          fs[n].kind = es[n].kind /\ (es[n].kind = "tool" => fs[n].call = es[n].call)
    BY <1>1
  <2>2. v = w  BY <1>1, <2>1
  <2>3. AskedIn(fs) = FlattenSeq(v) /\ AskedIn(es) = FlattenSeq(w)  BY DEF AskedIn
  <2> HIDE DEF v, w
  <2> QED  BY <2>2, <2>3
<1> QED  BY <1>2, <1>3, <1>4

\* Events that hold the same calls at the same places.
SameCalls(fs, es) ==
  /\ ShownCalls(fs) = ShownCalls(es) /\ AskedIn(fs) = AskedIn(es)
  /\ \A n \in DOMAIN fs : fs[n].kind = "tool" => n \in DOMAIN es /\ fs[n] = es[n]
  /\ \A n \in DOMAIN es : es[n].kind = "tool" => n \in DOMAIN fs /\ fs[n] = es[n]

\* A text is added.
LEMMA ExtendTells ==
  ASSUME NEW es \in Seq(Events), NEW e \in TextEvents
  PROVE  /\ Extend(es, e) \in Seq(Events) /\ SameCalls(Extend(es, e), es)
         /\ \A k \in Kinds : WordsOf(Extend(es, e), k) = WordsOf(es, k) \o Word(e, k)
<1> DEFINE fs == Extend(es, e)
<1>1. e \in Events /\ e.kind # "tool" /\ e.text \in Text /\ e.kind \in Kinds
  BY DEF Events, TextEvents, Kinds
<1>2. \A k \in Kinds : WordsOf(es, k) \in Seq(Chars)  BY WordsFit DEF Text
<1>3. CASE e.text = <<>>
  <2>1. fs = es  BY <1>3 DEF Extend
  <2>2. \A k \in Kinds : Word(e, k) = <<>>  BY <1>3 DEF Word
  <2>3. \A k \in Kinds : WordsOf(es, k) \o <<>> = WordsOf(es, k)  BY <1>2, ConcatEmptySeq
  <2> HIDE DEF fs
  <2> QED  BY <2>1, <2>2, <2>3 DEF SameCalls, fs
<1>4. CASE e.text # <<>> /\ ~ (es # <<>> /\ Last(es).kind = e.kind)
  <2>1. fs = Append(es, e)  BY <1>4 DEF Extend
  <2> HIDE DEF fs
  <2>2. \A k \in Kinds : WordsOf(fs, k) = WordsOf(es, k) \o Word(e, k)  BY <1>1, <2>1, WordsFit
  <2>3. /\ fs \in Seq(Events) /\ Len(fs) = Len(es) + 1 /\ fs[Len(es) + 1] = e
        /\ \A n \in 1 .. Len(es) : fs[n] = es[n]
    BY <1>1, <2>1, AppendFits
  <2>4. Show(e) = <<>> /\ Ask(e) = <<>>  BY <1>1 DEF Show, Ask
  <2>5. ShownCalls(fs) = ShownCalls(es)
    <3>1. ShownCalls(fs) = ShownCalls(es) \o <<>> /\ ShownCalls(es) \in Seq(Nat)
      BY <1>1, <2>1, <2>4, ShownFit
    <3> QED  BY <3>1, ConcatEmptySeq
  <2>6. AskedIn(fs) = AskedIn(es)
    <3>1. AskedIn(fs) = AskedIn(es) \o <<>> /\ AskedIn(es) \in Seq(Nat)
      BY <1>1, <2>1, <2>4, AskedFit
    <3> QED  BY <3>1, ConcatEmptySeq
  <2>7. Len(es) \in Nat /\ DOMAIN es = 1 .. Len(es) /\ DOMAIN fs = 1 .. Len(es) + 1  BY <2>3
  <2>8. \A n \in 1 .. Len(es) + 1 : n = Len(es) + 1 \/ n \in 1 .. Len(es)  BY <2>7
  <2>9. /\ \A n \in DOMAIN fs : fs[n].kind = "tool" => n \in DOMAIN es /\ fs[n] = es[n]
        /\ \A n \in DOMAIN es : n \in DOMAIN fs
    BY <1>1, <2>3, <2>7, <2>8
  <2> QED  BY <2>2, <2>3, <2>5, <2>6, <2>7, <2>9 DEF SameCalls, fs
<1>5. CASE e.text # <<>> /\ es # <<>> /\ Last(es).kind = e.kind
  <2> DEFINE f == Front(es)
             l == Last(es)
             g == [e EXCEPT !.text = l.text \o e.text]
  <2>1. fs = Append(f, g)  BY <1>5 DEF Extend
  <2>2. /\ f \in Seq(Events) /\ l \in Events /\ es = Append(f, l) /\ Len(f) = Len(es) - 1
        /\ \A n \in 1 .. Len(es) - 1 : f[n] = es[n]
        /\ es[Len(es)] = l /\ Len(es) \in Nat /\ Len(es) >= 1 /\ DOMAIN es = 1 .. Len(es)
    BY <1>5, LastIs
  <2>3. l.kind = e.kind  BY <1>5
  <2> HIDE DEF f, l, fs
  <2>4. l.text \in Text  BY <1>1, <2>2, <2>3, EventFields
  <2>5. l.text \o e.text \in Text  BY <1>1, <2>4, ConcatProperties DEF Text
  <2>6. g.kind = e.kind /\ g.text = l.text \o e.text /\ g \in TextEvents
    BY <2>5 DEF TextEvents
  <2>7. g \in Events /\ g.kind # "tool" /\ l.kind # "tool"  BY <1>1, <2>3, <2>6 DEF Events
  <2> HIDE DEF g
  <2>8. /\ fs \in Seq(Events) /\ Len(fs) = Len(f) + 1 /\ fs[Len(f) + 1] = g
        /\ \A n \in 1 .. Len(f) : fs[n] = f[n]
    BY <2>1, <2>2, <2>7, AppendFits
  <2>9. Show(l) = <<>> /\ Ask(l) = <<>> /\ Show(g) = <<>> /\ Ask(g) = <<>>
    BY <2>7 DEF Show, Ask
  <2>10. ShownCalls(fs) = ShownCalls(es)
    <3>1. ShownCalls(fs) = ShownCalls(f) \o Show(g) /\ ShownCalls(es) = ShownCalls(f) \o Show(l)
      BY <2>1, <2>2, <2>7, ShownFit
    <3> QED  BY <2>9, <3>1
  <2>11. AskedIn(fs) = AskedIn(es)
    <3>1. AskedIn(fs) = AskedIn(f) \o Ask(g) /\ AskedIn(es) = AskedIn(f) \o Ask(l)
      BY <2>1, <2>2, <2>7, AskedFit
    <3> QED  BY <2>9, <3>1
  <2>12. DOMAIN fs = 1 .. Len(es) /\ fs[Len(es)] = g
         /\ \A n \in 1 .. Len(es) - 1 : fs[n] = es[n]
    BY <2>2, <2>8
  <2>13. \A n \in 1 .. Len(es) : n = Len(es) \/ n \in 1 .. Len(es) - 1
    <3>1. \A m \in Nat : \A i \in 1 .. m : i = m \/ i \in 1 .. m - 1  OBVIOUS
    <3> QED  BY <2>2, <3>1
  <2>14. /\ \A n \in DOMAIN fs : fs[n].kind = "tool" => n \in DOMAIN es /\ fs[n] = es[n]
         /\ \A n \in DOMAIN es : es[n].kind = "tool" => n \in DOMAIN fs /\ fs[n] = es[n]
    BY <2>2, <2>7, <2>12, <2>13
  <2>15. ASSUME NEW k \in Kinds PROVE WordsOf(fs, k) = WordsOf(es, k) \o Word(e, k)
    <3>1. /\ WordsOf(fs, k) = WordsOf(f, k) \o Word(g, k)
          /\ WordsOf(es, k) = WordsOf(f, k) \o Word(l, k)
      BY <2>1, <2>2, <2>7, WordsFit
    <3>2. Word(g, k) = Word(l, k) \o Word(e, k)
      <4>1. CASE e.kind = k  BY <2>3, <2>6, <4>1 DEF Word
      <4>2. CASE e.kind # k
        <5>1. Word(g, k) = <<>> /\ Word(l, k) = <<>> /\ Word(e, k) = <<>>
          BY <2>3, <2>6, <4>2 DEF Word
        <5>2. <<>> \o <<>> = <<>>
          <6>1. <<>> \in Seq(Nat)  OBVIOUS
          <6> QED  BY <6>1, ConcatEmptySeq
        <5> QED  BY <5>1, <5>2
      <4> QED  BY <4>1, <4>2
    <3> DEFINE x == WordsOf(f, k)
               y == Word(l, k)
               z == Word(e, k)
    <3>3. x \in Seq(Chars)  BY <2>2, WordsFit DEF Text
    <3>4. y \in Seq(Chars) /\ z \in Seq(Chars)  BY <1>1, <2>2, WordFits DEF Text
    <3>5. WordsOf(fs, k) = x \o (y \o z) /\ WordsOf(es, k) = x \o y  BY <3>1, <3>2
    <3> HIDE DEF x, y, z
    <3>6. x \o (y \o z) = (x \o y) \o z  BY SMTT(40), <3>3, <3>4, Three
    <3> QED  BY <3>5, <3>6 DEF z
  <2> QED  BY <2>8, <2>10, <2>11, <2>14, <2>15 DEF SameCalls, fs
<1> QED  BY <1>3, <1>4, <1>5

\* Nothing is different between two and between the second and a third.
LEMMA SameCallsOn ==
  ASSUME NEW es, NEW fs, NEW gs, SameCalls(gs, fs), SameCalls(fs, es)
  PROVE  SameCalls(gs, es)
BY DEF SameCalls

\* What a delta adds to the bubble is what it splits into.
LEMMA ApplyTextTells ==
  ASSUME NEW es \in Seq(Events), NEW out, out.text \in Text, out.reason \in Text
  PROVE  /\ ApplyText(es, out) \in Seq(Events) /\ SameCalls(ApplyText(es, out), es)
         /\ \A k \in Kinds : WordsOf(ApplyText(es, out), k) = WordsOf(es, k) \o Part(out, k)
<1> DEFINE a == SideEvent(FALSE, out.text)
           b == SideEvent(TRUE, out.reason)
           fs == Extend(es, a)
           gs == Extend(fs, b)
<1>1. ApplyText(es, out) = gs  BY DEF ApplyText, SideEvent
<1>2. a \in TextEvents /\ b \in TextEvents
  BY SegmentFits
<1>3. \A k \in Kinds :
           Word(a, k) = On(FALSE, k, out.text) /\ Word(b, k) = On(TRUE, k, out.reason)
  <2>1. FALSE \in BOOLEAN /\ TRUE \in BOOLEAN  OBVIOUS
  <2> QED  BY <2>1, SegmentFits
<1> HIDE DEF a, b
<1>4. /\ fs \in Seq(Events) /\ SameCalls(fs, es)
      /\ \A k \in Kinds : WordsOf(fs, k) = WordsOf(es, k) \o Word(a, k)
  BY <1>2, ExtendTells
<1> HIDE DEF fs
<1>5. /\ gs \in Seq(Events) /\ SameCalls(gs, fs)
      /\ \A k \in Kinds : WordsOf(gs, k) = WordsOf(fs, k) \o Word(b, k)
  BY <1>2, <1>4, ExtendTells
<1> HIDE DEF gs
<1>6. SameCalls(gs, es)  BY <1>4, <1>5, SameCallsOn
<1>7. ASSUME NEW k \in Kinds PROVE WordsOf(gs, k) = WordsOf(es, k) \o Part(out, k)
  <2>1. WordsOf(es, k) \in Seq(Chars)  BY WordsFit DEF Text
  <2>2. \A s \in Seq(Chars) : s \o <<>> = s  BY ConcatEmptySeq
  <2>3. CASE k = "reason"
    <3>1. Word(a, k) = <<>> /\ Word(b, k) = Part(out, k)  BY <1>3, <2>3 DEF On, Part
    <3> QED  BY <1>4, <1>5, <2>1, <2>2, <3>1
  <2>4. CASE k = "text"
    <3>1. Word(a, k) = Part(out, k) /\ Word(b, k) = <<>>  BY <1>3, <2>4 DEF On, Part
    <3>2. WordsOf(fs, k) \in Seq(Chars)  BY <1>4, WordsFit DEF Text
    <3> QED  BY <1>4, <1>5, <2>2, <3>1, <3>2
  <2> QED  BY <2>3, <2>4 DEF Kinds
<1> QED  BY <1>1, <1>5, <1>6, <1>7

\* What was kept back is added when it is flushed.
LEMMA FlushedTells ==
  ASSUME NEW es \in Seq(Events), NEW z \in Splits
  PROVE  /\ Flushed(es, z) \in Seq(Events) /\ SameCalls(Flushed(es, z), es)
         /\ \A k \in Kinds : WordsOf(Flushed(es, z), k) = WordsOf(es, k) \o Held(z, k)
<1> DEFINE a == SideEvent(z.inThink, z.pending)
<1>1. z.inThink \in BOOLEAN /\ z.pending \in Text  BY DEF Splits
<1>2. Flushed(es, z) = Extend(es, a)  BY DEF Flushed, SideEvent
<1>3. a \in TextEvents /\ \A k \in Kinds : Word(a, k) = On(z.inThink, k, z.pending)
  BY <1>1, SegmentFits
<1> HIDE DEF a
<1>4. /\ Extend(es, a) \in Seq(Events) /\ SameCalls(Extend(es, a), es)
      /\ \A k \in Kinds : WordsOf(Extend(es, a), k) = WordsOf(es, k) \o Word(a, k)
  BY <1>3, ExtendTells
<1> QED  BY <1>2, <1>3, <1>4 DEF Held

\* An event is put behind the others.
LEMMA AppendTells ==
  ASSUME NEW es \in Seq(Events), NEW e \in Events, \A k \in Kinds : Word(e, k) = <<>>
  PROVE  LET fs == Append(es, e)
         IN  /\ fs \in Seq(Events)
             /\ \A k \in Kinds : WordsOf(fs, k) = WordsOf(es, k)
             /\ ShownCalls(fs) = ShownCalls(es) \o Show(e) /\ AskedIn(fs) = AskedIn(es) \o Ask(e)
             /\ \A n \in DOMAIN fs : (n \in DOMAIN es /\ fs[n] = es[n]) \/ fs[n] = e
             /\ \A n \in DOMAIN es : n \in DOMAIN fs /\ fs[n] = es[n]
             /\ Len(es) + 1 \in DOMAIN fs /\ fs[Len(es) + 1] = e
<1> DEFINE fs == Append(es, e)
<1>1. /\ fs \in Seq(Events) /\ Len(fs) = Len(es) + 1 /\ fs[Len(es) + 1] = e
      /\ \A n \in 1 .. Len(es) : fs[n] = es[n]
  BY AppendFits
<1>2. Len(es) \in Nat /\ DOMAIN es = 1 .. Len(es) /\ DOMAIN fs = 1 .. Len(es) + 1  BY <1>1
<1>3. \A n \in 1 .. Len(es) + 1 : n = Len(es) + 1 \/ n \in 1 .. Len(es)  BY <1>2
<1>4. ASSUME NEW k \in Kinds PROVE WordsOf(fs, k) = WordsOf(es, k)
  <2>1. WordsOf(fs, k) = WordsOf(es, k) \o <<>>  BY WordsFit
  <2>2. WordsOf(es, k) \in Seq(Chars)  BY WordsFit DEF Text
  <2> HIDE DEF fs
  <2> QED  BY <2>1, <2>2, ConcatEmptySeq
<1>5. ShownCalls(fs) = ShownCalls(es) \o Show(e)  BY ShownFit
<1>6. AskedIn(fs) = AskedIn(es) \o Ask(e)  BY AskedFit
<1>7. /\ \A n \in DOMAIN es : n \in DOMAIN fs /\ fs[n] = es[n]
      /\ \A n \in DOMAIN fs : (n \in DOMAIN es /\ fs[n] = es[n]) \/ fs[n] = e
      /\ Len(es) + 1 \in DOMAIN fs
  <2> HIDE DEF fs
  <2> QED  BY <1>1, <1>2, <1>3
<1> HIDE DEF fs
<1> QED  BY <1>1, <1>4, <1>5, <1>6, <1>7 DEF fs

\* A call that is announced.
LEMMA ApplyCallTells ==
  ASSUME NEW es \in Seq(Events), NEW c \in Calls
  PROVE  LET fs == ApplyCall(es, c)
         IN  /\ fs \in Seq(Events)
             /\ \A k \in Kinds : WordsOf(fs, k) = WordsOf(es, k)
             /\ ShownCalls(fs) = ShownCalls(es) \o IdOf(c, FALSE)
             /\ AskedIn(fs) = AskedIn(es) \o AskOf(c)
             /\ \A n \in DOMAIN fs : (n \in DOMAIN es /\ fs[n] = es[n])
                                     \/ fs[n] = ToolEv(c, "pending")
             /\ \A n \in DOMAIN es : n \in DOMAIN fs /\ fs[n] = es[n]
             /\ c.tool # "bash" => \E n \in DOMAIN fs : fs[n] = ToolEv(c, "pending")
<1>1. CASE c.tool = "bash"
  <2>1. ApplyCall(es, c) = es  BY <1>1 DEF ApplyCall
  <2>2. IdOf(c, FALSE) = <<>> /\ AskOf(c) = <<>>  BY <1>1 DEF IdOf, AskOf
  <2>3. ShownCalls(es) \in Seq(Nat) /\ AskedIn(es) \in Seq(Nat)  BY ShownFit, AskedFit
  <2>4. ShownCalls(es) \o <<>> = ShownCalls(es) /\ AskedIn(es) \o <<>> = AskedIn(es)
    BY <2>3, ConcatEmptySeq
  <2> QED  BY <1>1, <2>1, <2>2, <2>4
<1>2. CASE c.tool # "bash"
  <2> DEFINE e == ToolEv(c, "pending")
  <2>1. ApplyCall(es, c) = Append(es, e)  BY <1>2 DEF ApplyCall
  <2>2. e = [kind |-> "tool", call |-> c, status |-> "pending", stub |-> FALSE]  BY DEF ToolEv
  <2>3. "pending" \in {"pending", "done", "error"} /\ FALSE \in BOOLEAN  OBVIOUS
  <2>4. e \in Events /\ Show(e) = IdOf(c, FALSE) /\ Ask(e) = AskOf(c)
        /\ \A k \in Kinds : Word(e, k) = <<>>
    BY <2>2, <2>3, ToolFits
  <2> HIDE DEF e
  <2>5. LET fs == Append(es, e)
        IN  /\ fs \in Seq(Events)
            /\ \A k \in Kinds : WordsOf(fs, k) = WordsOf(es, k)
            /\ ShownCalls(fs) = ShownCalls(es) \o Show(e) /\ AskedIn(fs) = AskedIn(es) \o Ask(e)
            /\ \A n \in DOMAIN fs : (n \in DOMAIN es /\ fs[n] = es[n]) \/ fs[n] = e
            /\ \A n \in DOMAIN es : n \in DOMAIN fs /\ fs[n] = es[n]
            /\ Len(es) + 1 \in DOMAIN fs /\ fs[Len(es) + 1] = e
    BY <2>4, AppendTells
  <2> QED  BY <2>1, <2>4, <2>5 DEF e
<1> QED  BY <1>1, <1>2

\* A result that is told.
LEMMA ApplyResultTells ==
  ASSUME NEW es \in Seq(Events), NEW c \in Calls
  PROVE  LET fs == ApplyResult(es, c)
         IN  /\ fs \in Seq(Events)
             /\ \A k \in Kinds : WordsOf(fs, k) = WordsOf(es, k)
             /\ HasCall(es, c.id) \/ c.tool = "bash" =>
                  ShownCalls(fs) = ShownCalls(es) /\ AskedIn(fs) = AskedIn(es)
             /\ \A n \in DOMAIN fs : Spins(fs[n]) => n \in DOMAIN es /\ fs[n] = es[n]
             /\ HasCall(es, c.id) \/ c.tool = "bash" =>
                  \A n \in DOMAIN fs : fs[n].kind = "tool" =>
                    \/ /\ n \in DOMAIN es /\ es[n].kind = "tool" /\ fs[n].call = es[n].call
                       /\ fs[n].stub => es[n].stub
                    \/ c.tool = "bash" /\ fs[n].call = c
             /\ \A i \in Nat : HasCall(es, i) => HasCall(fs, i)
<1> DEFINE fs == ApplyResult(es, c)
<1>0. Len(es) \in Nat /\ DOMAIN es = 1 .. Len(es) /\ \A n \in DOMAIN es : es[n] \in Events
  OBVIOUS
<1>1. CASE HasCall(es, c.id)
  <2> DEFINE g(n) == IF es[n].kind = "tool" /\ es[n].call.id = c.id
                     THEN [es[n] EXCEPT !.status = "done"] ELSE es[n]
  <2>1. fs = [n \in DOMAIN es |-> g(n)]  BY <1>1 DEF ApplyResult, HasCall
  <2>2. ASSUME NEW n \in DOMAIN es
        PROVE  /\ g(n) \in Events /\ g(n).kind = es[n].kind
               /\ es[n].kind = "tool" => g(n).call = es[n].call /\ g(n).stub = es[n].stub
               /\ es[n].kind # "tool" => g(n) = es[n]
               /\ Spins(g(n)) => g(n) = es[n]
    <3>1. CASE es[n].kind = "tool" /\ es[n].call.id = c.id
      <4> DEFINE e == es[n]
      <4>1. e \in ToolEvents  BY <1>0, <3>1, EventFields
      <4>2. g(n) = [e EXCEPT !.status = "done"]  BY <3>1
      <4> HIDE DEF e
      <4>3. [e EXCEPT !.status = "done"] \in ToolEvents  BY <4>1 DEF ToolEvents
      <4>4. /\ [e EXCEPT !.status = "done"].kind = e.kind
            /\ [e EXCEPT !.status = "done"].call = e.call
            /\ [e EXCEPT !.status = "done"].stub = e.stub
            /\ [e EXCEPT !.status = "done"].status = "done"
        BY <4>1 DEF ToolEvents
      <4> QED  BY <3>1, <4>2, <4>3, <4>4 DEF Events, Spins, e
    <3>2. CASE ~ (es[n].kind = "tool" /\ es[n].call.id = c.id)
      <4>1. g(n) = es[n]  BY <3>2
      <4> QED  BY <1>0, <4>1
    <3> QED  BY <3>1, <3>2
  <2> HIDE DEF g
  <2>3. DOMAIN fs = DOMAIN es /\ \A n \in DOMAIN es : fs[n] = g(n)  BY <2>1
  <2>4. fs \in Seq(Events) /\ Len(fs) = Len(es)
    <3>1. fs \in [1 .. Len(es) -> Events]  BY <1>0, <2>1, <2>2
    <3> HIDE DEF fs
    <3> QED  BY <1>0, <3>1
  <2> HIDE DEF fs
  <2>5. Alike(fs, es)  BY <1>0, <2>2, <2>3, <2>4 DEF Alike
  <2>6. /\ \A k \in Kinds : WordsOf(fs, k) = WordsOf(es, k)
        /\ ShownCalls(fs) = ShownCalls(es) /\ AskedIn(fs) = AskedIn(es)
    BY <2>4, <2>5, AlikeTells
  <2>7. \A n \in DOMAIN fs : Spins(fs[n]) => n \in DOMAIN es /\ fs[n] = es[n]  BY <2>2, <2>3
  <2>8. \A n \in DOMAIN fs : fs[n].kind = "tool" =>
          /\ n \in DOMAIN es /\ es[n].kind = "tool" /\ fs[n].call = es[n].call
          /\ fs[n].stub => es[n].stub
    BY <2>2, <2>3
  <2>9. \A i \in Nat : HasCall(es, i) => HasCall(fs, i)  BY <2>2, <2>3 DEF HasCall
  <2> QED  BY <2>4, <2>6, <2>7, <2>8, <2>9 DEF fs
<1>2. CASE ~ HasCall(es, c.id)
  <2> DEFINE d == ToolEv(c, "done")
             e == [d EXCEPT !.stub = TRUE]
  <2>1. d \in ToolEvents /\ d.kind = "tool" /\ d.call = c /\ d.status = "done"
    BY DEF ToolEv, ToolEvents
  <2>2. fs = Append(es, e)  BY <1>2 DEF ApplyResult, HasCall
  <2> HIDE DEF d, fs
  <2>3. e \in ToolEvents /\ e.kind = "tool" /\ e.call = c /\ e.status = "done"
    BY <2>1 DEF ToolEvents
  <2> HIDE DEF e
  <2>4. /\ e \in Events /\ \A k \in Kinds : Word(e, k) = <<>>
        /\ Show(e) = IdOf(c, FALSE) /\ Ask(e) = AskOf(c)
    BY <2>3 DEF Events, Word, Kinds, Show, IdOf, Ask
  <2>5. ~ Spins(e) /\ e.kind = "tool" /\ e.call = c  BY <2>3 DEF Spins
  <2>6. LET gs == Append(es, e)
        IN  /\ gs \in Seq(Events)
            /\ \A k \in Kinds : WordsOf(gs, k) = WordsOf(es, k)
            /\ ShownCalls(gs) = ShownCalls(es) \o Show(e) /\ AskedIn(gs) = AskedIn(es) \o Ask(e)
            /\ \A n \in DOMAIN gs : (n \in DOMAIN es /\ gs[n] = es[n]) \/ gs[n] = e
            /\ \A n \in DOMAIN es : n \in DOMAIN gs /\ gs[n] = es[n]
            /\ Len(es) + 1 \in DOMAIN gs /\ gs[Len(es) + 1] = e
    BY <2>4, AppendTells
  <2>11. /\ fs \in Seq(Events)
         /\ \A k \in Kinds : WordsOf(fs, k) = WordsOf(es, k)
         /\ ShownCalls(fs) = ShownCalls(es) \o Show(e) /\ AskedIn(fs) = AskedIn(es) \o Ask(e)
         /\ \A n \in DOMAIN fs : (n \in DOMAIN es /\ fs[n] = es[n]) \/ fs[n] = e
         /\ \A n \in DOMAIN es : n \in DOMAIN fs /\ fs[n] = es[n]
    BY <2>2, <2>6
  <2>7. c.tool = "bash" => ShownCalls(fs) = ShownCalls(es) /\ AskedIn(fs) = AskedIn(es)
    <3>1. SUFFICES ASSUME c.tool = "bash"
                   PROVE  ShownCalls(fs) = ShownCalls(es) /\ AskedIn(fs) = AskedIn(es)
      OBVIOUS
    <3>2. IdOf(c, FALSE) = <<>> /\ AskOf(c) = <<>>  BY <3>1 DEF IdOf, AskOf
    <3>3. ShownCalls(es) \in Seq(Nat) /\ AskedIn(es) \in Seq(Nat)  BY ShownFit, AskedFit
    <3>4. ShownCalls(es) \o <<>> = ShownCalls(es) /\ AskedIn(es) \o <<>> = AskedIn(es)
      BY <3>3, ConcatEmptySeq
    <3> QED  BY <2>4, <2>11, <3>2, <3>4
  <2>8. \A n \in DOMAIN fs : Spins(fs[n]) => n \in DOMAIN es /\ fs[n] = es[n]  BY <2>5, <2>11
  <2>9. c.tool = "bash" =>
          \A n \in DOMAIN fs : fs[n].kind = "tool" =>
            \/ n \in DOMAIN es /\ es[n].kind = "tool" /\ fs[n].call = es[n].call
               /\ (fs[n].stub => es[n].stub)
            \/ fs[n].call = c
    BY <2>5, <2>11
  <2>10. \A i \in Nat : HasCall(es, i) => HasCall(fs, i)  BY <2>11 DEF HasCall
  <2> QED  BY <1>2, <2>11, <2>7, <2>8, <2>9, <2>10 DEF fs
<1> QED  BY <1>1, <1>2

\* What is shown as running is shown as failed.
LEMMA ReconciledTells ==
  ASSUME NEW es \in Seq(Events)
  PROVE  LET fs == Reconciled(es)
         IN  /\ fs \in Seq(Events) /\ Alike(fs, es)
             /\ \A n \in DOMAIN fs : ~ Spins(fs[n])
<1> DEFINE g(n) == IF es[n].kind = "tool" /\ es[n].status = "pending"
                   THEN ToolEv(es[n].call, "error") ELSE es[n]
           fs == Reconciled(es)
<1>0. Len(es) \in Nat /\ DOMAIN es = 1 .. Len(es) /\ \A n \in DOMAIN es : es[n] \in Events
  OBVIOUS
<1>1. fs = [n \in DOMAIN es |-> g(n)]  BY DEF Reconciled
<1>2. ASSUME NEW n \in DOMAIN es
      PROVE  /\ g(n) \in Events /\ g(n).kind = es[n].kind
             /\ es[n].kind = "tool" => g(n).call = es[n].call /\ (g(n).stub => es[n].stub)
             /\ es[n].kind # "tool" => g(n) = es[n]
             /\ ~ Spins(g(n))
  <2> DEFINE c == es[n].call
             e == ToolEv(c, "error")
  <2>1. CASE es[n].kind = "tool" /\ es[n].status = "pending"
    <3>1. c \in Calls  BY <1>0, <2>1, EventFields
    <3>2. g(n) = e  BY <2>1
    <3>3. e = [kind |-> "tool", call |-> c, status |-> "error", stub |-> FALSE]
      BY DEF ToolEv
    <3>4. "error" \in {"pending", "done", "error"} /\ FALSE \in BOOLEAN  OBVIOUS
    <3>5. e \in Events  BY <3>1, <3>3, <3>4, ToolFits
    <3>6. e.kind = "tool" /\ e.call = c /\ e.stub = FALSE /\ e.status # "pending"  BY <3>3
    <3> HIDE DEF e, g
    <3> QED  BY <2>1, <3>2, <3>5, <3>6 DEF Spins
  <2>2. CASE ~ (es[n].kind = "tool" /\ es[n].status = "pending")
    <3>1. g(n) = es[n]  BY <2>2
    <3> QED  BY <1>0, <2>2, <3>1 DEF Spins
  <2> QED  BY <2>1, <2>2
<1> HIDE DEF g
<1>3. DOMAIN fs = DOMAIN es /\ \A n \in DOMAIN es : fs[n] = g(n)  BY <1>1
<1>4. fs \in Seq(Events) /\ Len(fs) = Len(es)
  <2>1. fs \in [1 .. Len(es) -> Events]  BY <1>0, <1>1, <1>2
  <2> HIDE DEF fs
  <2> QED  BY <1>0, <2>1
<1> HIDE DEF fs
<1>5. Alike(fs, es)  BY <1>0, <1>2, <1>3, <1>4 DEF Alike
<1>6. \A n \in DOMAIN fs : ~ Spins(fs[n])  BY <1>2, <1>3
<1> QED  BY <1>4, <1>5, <1>6 DEF fs

-----------------------------------------------------------------------------
(* A step on the last bubble. *)

\* The last message's events are replaced.
LEMMA PatchIs ==
  ASSUME BrowserFits, stream # "none", NEW fs \in Seq(Events), Patch(fs)
  PROVE  /\ msgs \in Seq(Messages) /\ msgs # <<>> /\ Last(msgs).role = "assistant"
         /\ Bubble = Last(msgs).events /\ Bubble \in Seq(Events)
         /\ msgs' = Renewed(msgs, fs)
<1> DEFINE m == Last(msgs)
<1>1. msgs \in Seq(Messages) /\ msgs # <<>> /\ m.role = "assistant"  BY DEF BrowserFits
<1>2. m \in Messages  BY <1>1, LastIs
<1>3. Bubble = m.events  BY DEF Bubble
<1>4. msgs' = Append(Front(msgs), [m EXCEPT !.events = fs])  BY DEF Patch
<1> HIDE DEF m
<1>5. [m EXCEPT !.events = fs] = Bubbly(fs)  BY <1>1, <1>2 DEF Messages, Bubbly
<1>6. m.events \in Seq(Events)  BY <1>2, MessageFits
<1> QED  BY <1>1, <1>3, <1>4, <1>5, <1>6 DEF m, Renewed

\* The bubble, while there is a stream.
LEMMA BubbleIs ==
  ASSUME BrowserFits, stream # "none"
  PROVE  /\ msgs \in Seq(Messages) /\ msgs # <<>> /\ Last(msgs).role = "assistant"
         /\ Bubble = Last(msgs).events /\ Bubble \in Seq(Events)
<1> DEFINE m == Last(msgs)
<1>1. msgs \in Seq(Messages) /\ msgs # <<>> /\ m.role = "assistant"  BY DEF BrowserFits
<1>2. m \in Messages  BY <1>1, LastIs
<1>3. Bubble = m.events  BY DEF Bubble
<1>4. m.events \in Seq(Events)  BY <1>2, MessageFits
<1> QED  BY <1>1, <1>3, <1>4

\* The messages say more by what the bubble does, ...
LEMMA RenewedSays ==
  ASSUME NEW ms \in Seq(Messages), ms # <<>>, NEW fs \in Seq(Events), NEW k \in Kinds,
         NEW x \in Text, WordsOf(fs, k) = WordsOf(Last(ms).events, k) \o x
  PROVE  Said(Renewed(ms, fs), k) = Said(ms, k) \o x
<1> DEFINE a == Said(Front(ms), k)
           b == WordsOf(Last(ms).events, k)
<1>1. /\ Front(ms) \in Seq(Messages) /\ Last(ms) \in Messages
      /\ \A j \in Kinds :
           Said(ms, j) = Said(Front(ms), j) \o WordsOf(Last(ms).events, j)
  BY LastTells
<1>2. Said(Renewed(ms, fs), k) = Said(Front(ms), k) \o WordsOf(fs, k)  BY RenewedTells
<1>3. a \in Text  BY <1>1, SaidIs DEF Text
<1>4. b \in Text
  <2>1. Last(ms).events \in Seq(Events)  BY <1>1, MessageFits
  <2> QED  BY <2>1, WordsFit
<1>6. Said(Renewed(ms, fs), k) = a \o (b \o x) /\ Said(ms, k) = a \o b  BY <1>1, <1>2
<1> HIDE DEF a, b
<1>7. a \o (b \o x) = (a \o b) \o x  BY <1>3, <1>4, ThreeTexts
<1> QED  BY <1>6, <1>7

\* ... and the same when it does.
LEMMA RenewedSame ==
  ASSUME NEW ms \in Seq(Messages), ms # <<>>, NEW fs \in Seq(Events)
  PROVE  /\ \A k \in Kinds : WordsOf(fs, k) = WordsOf(Last(ms).events, k) =>
              Said(Renewed(ms, fs), k) = Said(ms, k)
         /\ ShownCalls(fs) = ShownCalls(Last(ms).events) =>
              CallIds(Renewed(ms, fs)) = CallIds(ms)
         /\ Last(ms).role = "assistant" /\ AskedIn(fs) = AskedIn(Last(ms).events) =>
              Trail(Renewed(ms, fs)) = Trail(ms)
<1>1. /\ Front(ms) \in Seq(Messages) /\ Last(ms) \in Messages
      /\ \A k \in Kinds :
           Said(ms, k) = Said(Front(ms), k) \o WordsOf(Last(ms).events, k)
      /\ CallIds(ms) = CallIds(Front(ms)) \o ShownCalls(Last(ms).events)
      /\ Trail(ms) = Trail(Front(ms)) \o TrailOf(Last(ms))
  BY LastTells
<1>2. /\ \A k \in Kinds :
           Said(Renewed(ms, fs), k) = Said(Front(ms), k) \o WordsOf(fs, k)
      /\ CallIds(Renewed(ms, fs)) = CallIds(Front(ms)) \o ShownCalls(fs)
      /\ Trail(Renewed(ms, fs)) = Trail(Front(ms)) \o AskedIn(fs)
  BY RenewedTells
<1>3. Last(ms).role = "assistant" => TrailOf(Last(ms)) = AskedIn(Last(ms).events)
  BY DEF TrailOf
<1> QED  BY <1>1, <1>2, <1>3

\* The messages show more calls and questions by what the bubble does.
LEMMA RenewedShows ==
  ASSUME NEW ms \in Seq(Messages), ms # <<>>, NEW fs \in Seq(Events), NEW x \in Seq(Nat)
  PROVE  /\ ShownCalls(fs) = ShownCalls(Last(ms).events) \o x =>
              CallIds(Renewed(ms, fs)) = CallIds(ms) \o x
         /\ Last(ms).role = "assistant" /\ AskedIn(fs) = AskedIn(Last(ms).events) \o x =>
              Trail(Renewed(ms, fs)) = Trail(ms) \o x
<1> DEFINE f == Front(ms)
           es == Last(ms).events
<1>1. /\ f \in Seq(Messages) /\ Last(ms) \in Messages
      /\ CallIds(ms) = CallIds(f) \o ShownCalls(es)
      /\ Trail(ms) = Trail(f) \o TrailOf(Last(ms))
  BY LastTells
<1>2. /\ CallIds(Renewed(ms, fs)) = CallIds(f) \o ShownCalls(fs)
      /\ Trail(Renewed(ms, fs)) = Trail(f) \o AskedIn(fs)
  BY RenewedTells
<1>3. Last(ms).role = "assistant" => TrailOf(Last(ms)) = AskedIn(es)
  BY DEF TrailOf
<1>4. es \in Seq(Events)  BY <1>1, MessageFits
<1>5. CallIds(f) \in Seq(Nat) /\ Trail(f) \in Seq(Nat)  BY <1>1, CallIdsFit, TrailFit
<1>6. ShownCalls(es) \in Seq(Nat) /\ AskedIn(es) \in Seq(Nat)  BY <1>4, ShownFit, AskedFit
<1>7. CallIds(f) \o (ShownCalls(es) \o x) = (CallIds(f) \o ShownCalls(es)) \o x
  BY ZenonT(40), <1>5, <1>6, ThreeLists
<1>8. Trail(f) \o (AskedIn(es) \o x) = (Trail(f) \o AskedIn(es)) \o x
  BY <1>5, <1>6, ThreeLists
<1> HIDE DEF f, es
<1>9. ShownCalls(fs) = ShownCalls(es) \o x => CallIds(Renewed(ms, fs)) = CallIds(ms) \o x
  BY <1>1, <1>2, <1>7
<1>10. Last(ms).role = "assistant" /\ AskedIn(fs) = AskedIn(es) \o x =>
         Trail(Renewed(ms, fs)) = Trail(ms) \o x
  BY <1>1, <1>2, <1>3, <1>8
<1> QED  BY <1>9, <1>10 DEF es

-----------------------------------------------------------------------------
(* Types, and what is shown as running. *)

\* While a stream goes on the bubble may show what it will as running.
LEMMA PatchPage ==
  ASSUME BrowserFits, SpinsShown, stream # "none", NEW fs \in Seq(Events), Patch(fs),
         split' \in Splits, terminal' \in Seq(Nat), stream' = stream, early' = early
  PROVE  BrowserFits' /\ SpinsShown'
<1>1. /\ msgs \in Seq(Messages) /\ msgs # <<>> /\ msgs' = Renewed(msgs, fs)
  BY PatchIs
<1>2. /\ msgs' \in Seq(Messages) /\ Len(msgs') = Len(msgs) /\ msgs' # <<>>
      /\ Last(msgs') = Bubbly(fs) /\ \A i \in 1 .. Len(msgs) - 1 : msgs'[i] = msgs[i]
  BY <1>1, RenewedTells
<1>3. Last(msgs').role = "assistant"  BY <1>2 DEF Bubbly
<1>4. BrowserFits'  BY <1>2, <1>3 DEF BrowserFits
<1>5. /\ Len(msgs) \in Nat /\ DOMAIN msgs = 1 .. Len(msgs) /\ DOMAIN msgs' = 1 .. Len(msgs)
  BY <1>1, <1>2
<1>6. \A i \in 1 .. Len(msgs) : i = Len(msgs) \/ (i \in 1 .. Len(msgs) - 1 /\ i # Len(msgs))
  <2>1. \A m \in Nat : \A i \in 1 .. m : i = m \/ (i \in 1 .. m - 1 /\ i # m)  OBVIOUS
  <2> QED  BY Zenon, <1>5, <2>1
<1>7. ASSUME NEW i \in DOMAIN msgs', NEW n \in DOMAIN msgs'[i].events,
             Spins(msgs'[i].events[n]), i # Len(msgs')
      PROVE  msgs'[i].events[n].call.id \in early'
  <2>1. i \in DOMAIN msgs /\ msgs'[i] = msgs[i] /\ i # Len(msgs)
    BY Zenon, <1>2, <1>5, <1>6, <1>7
  <2>2. n \in DOMAIN msgs[i].events /\ Spins(msgs[i].events[n])  BY <1>7, <2>1
  <2>3. msgs[i].events[n].call.id \in early  BY <2>1, <2>2 DEF SpinsShown
  <2> QED  BY Zenon, <2>1, <2>3
<1> QED  BY <1>4, <1>7 DEF SpinsShown

\* When it ends none of the bubble is shown as running.
LEMMA EndsPage ==
  ASSUME BrowserFits, SpinsShown, stream # "none", NEW flush \in BOOLEAN, Ends(flush),
         terminal' = terminal, early' = early
  PROVE  BrowserFits' /\ SpinsShown'
<1> DEFINE es == IF flush THEN Flushed(Bubble, split) ELSE Bubble
           fs == Reconciled(es)
<1>1. /\ msgs \in Seq(Messages) /\ msgs # <<>> /\ Bubble \in Seq(Events)  BY BubbleIs
<1>2. es \in Seq(Events)
  <2>1. split \in Splits  BY DEF BrowserFits
  <2> QED  BY <1>1, <2>1, FlushedTells
<1>3. Patch(fs) /\ stream' = "none" /\ split' = NoSplit  BY DEF Ends
<1> HIDE DEF es
<1>4. fs \in Seq(Events) /\ \A n \in DOMAIN fs : ~ Spins(fs[n])  BY <1>2, ReconciledTells
<1> HIDE DEF fs
<1>5. msgs' = Renewed(msgs, fs)  BY <1>3, <1>4, PatchIs
<1>6. /\ msgs' \in Seq(Messages) /\ Len(msgs') = Len(msgs) /\ msgs'[Len(msgs)] = Bubbly(fs)
      /\ \A i \in 1 .. Len(msgs) - 1 : msgs'[i] = msgs[i]
  BY <1>1, <1>4, <1>5, RenewedTells
<1>7. NoSplit \in Splits  BY DEF NoSplit, Splits, Text
<1>8. BrowserFits'  BY <1>3, <1>6, <1>7 DEF BrowserFits, NoSplit
<1>9. /\ Len(msgs) \in Nat /\ DOMAIN msgs = 1 .. Len(msgs) /\ DOMAIN msgs' = 1 .. Len(msgs)
  BY <1>1, <1>6
<1>10. \A i \in 1 .. Len(msgs) : i = Len(msgs) \/ (i \in 1 .. Len(msgs) - 1 /\ i # Len(msgs))
  <2>1. \A m \in Nat : \A i \in 1 .. m : i = m \/ (i \in 1 .. m - 1 /\ i # m)  OBVIOUS
  <2> QED  BY Zenon, <1>9, <2>1
<1>11. ASSUME NEW i \in DOMAIN msgs', NEW n \in DOMAIN msgs'[i].events,
              Spins(msgs'[i].events[n])
       PROVE  msgs'[i].events[n].call.id \in early'
  <2>1. CASE i = Len(msgs)
    <3>1. msgs'[i].events = fs  BY <1>6, <2>1 DEF Bubbly
    <3> QED  BY <1>4, <1>11, <3>1
  <2>2. CASE i # Len(msgs)
    <3>1. i \in DOMAIN msgs /\ msgs'[i] = msgs[i]  BY <1>6, <1>9, <1>10, <2>2
    <3>2. n \in DOMAIN msgs[i].events /\ Spins(msgs[i].events[n])  BY <1>11, <3>1
    <3>3. msgs[i].events[n].call.id \in early  BY <2>2, <3>1, <3>2 DEF SpinsShown
    <3> QED  BY ZenonT(60), <3>1, <3>3
  <2> QED  BY <2>1, <2>2
<1> QED  BY <1>8, <1>11 DEF SpinsShown

\* The agent, when it does nothing.
LEMMA AgentStays ==
  ASSUME AgentFits, UNCHANGED <<server, ids>>
  PROVE  AgentFits'
BY DEF AgentFits, server

\* The calls, when no row is stored and no call made.
LEMMA SettleStays ==
  ASSUME CallsSettle, UNCHANGED <<rows, calls, finished>>
  PROVE  CallsSettle'
BY DEF CallsSettle, ResultStored, Awaited

\* At first nothing is shown.
LEMMA InitPage == Init => PageInv
<1> SUFFICES ASSUME Init PROVE PageInv  OBVIOUS
<1>1. AgentFits
  <2>1. <<>> \in Text /\ <<>> \in CallSeqs /\ <<>> \in Seq(Rows) /\ Len(<<>>) = 0
    BY DEF Text, CallSeqs
  <2>2. /\ pc = "idle" /\ draft = <<>> /\ unsent = <<>> /\ inside = FALSE /\ rows = <<>>
        /\ calls = <<>> /\ announced = 0 /\ finished = 0 /\ ids = 0
    BY DEF Init
  <2>3. inside \in BOOLEAN /\ inside = FALSE  BY <2>2
  <2>4. announced \in Nat /\ finished \in Nat /\ ids \in Nat /\ finished <= announced
        /\ announced <= Len(calls)
    BY <2>1, <2>2
  <2>5. pc \in {"idle", "text", "calls", "ended"} /\ pc # "text" /\ pc # "calls"  BY <2>2
  <2> QED  BY <2>1, <2>2, <2>3, <2>4, <2>5 DEF AgentFits
<1>2. BrowserFits
  <2>1. NoSplit \in Splits  BY DEF NoSplit, Splits, Text
  <2> QED  BY <2>1 DEF Init, BrowserFits
<1>3. SpinsShown /\ CallsSettle  BY DEF Init, SpinsShown, CallsSettle
<1> QED  BY <1>1, <1>2, <1>3 DEF PageInv

\* A message is sent: two messages more, that show no call.
LEMMA SendPage == ASSUME PageInv, Send PROVE PageInv'
<1> DEFINE u == NewMessage("user")
           a == NewMessage("assistant")
<1>1. AgentFits /\ BrowserFits /\ SpinsShown /\ CallsSettle  BY DEF PageInv
<1>2. /\ pc = "idle" /\ stream = "none" /\ rows' = Append(rows, [role |-> "user"])
      /\ msgs' = msgs \o <<u, a>> /\ stream' = "sent" /\ split' = NoSplit /\ pc' = "text"
      /\ UNCHANGED <<draft, unsent, inside, calls, announced, finished, terminal, ids, early>>
  BY DEF Send, noted
<1>3. AgentFits'
  <2>1. [role |-> "user"] \in Rows  BY DEF Rows, UserRows
  <2>2. rows' \in Seq(Rows)  BY <1>1, <1>2, <2>1, AppendFits DEF AgentFits
  <2> QED  BY <1>1, <1>2, <2>2 DEF AgentFits
<1>4. u \in Messages /\ a \in Messages /\ a.role = "assistant" /\ u.events = <<>> /\ a.events = <<>>
  BY DEF NewMessage, Messages
<1> HIDE DEF u, a
<1>5. msgs \in Seq(Messages)  BY <1>1 DEF BrowserFits
<1> DEFINE v == Append(msgs, u)
<1>6. msgs' = Append(v, a)  BY <1>2, <1>4, <1>5, Pair
<1>7. /\ v \in Seq(Messages) /\ Len(v) = Len(msgs) + 1 /\ v[Len(msgs) + 1] = u
      /\ \A i \in 1 .. Len(msgs) : v[i] = msgs[i]
  BY <1>4, <1>5, AppendFits
<1> HIDE DEF v
<1>8. /\ msgs' \in Seq(Messages) /\ Len(msgs') = Len(v) + 1 /\ msgs'[Len(v) + 1] = a
      /\ \A i \in 1 .. Len(v) : msgs'[i] = v[i]
  BY <1>4, <1>6, <1>7, AppendFits
<1>9. /\ Len(msgs) \in Nat /\ DOMAIN msgs = 1 .. Len(msgs) /\ Len(v) = Len(msgs) + 1
      /\ DOMAIN msgs' = 1 .. Len(msgs) + 2
  BY <1>5, <1>7, <1>8
<1>10. msgs' # <<>> /\ Last(msgs') = a
  <2>1. Len(msgs') = Len(v) + 1 /\ Len(msgs') # 0  BY <1>8, <1>9
  <2> QED  BY <1>8, <2>1 DEF Last
<1>11. BrowserFits'
  <2>1. NoSplit \in Splits  BY DEF NoSplit, Splits, Text
  <2> QED  BY <1>1, <1>2, <1>4, <1>8, <1>10, <2>1 DEF BrowserFits
<1>12. SpinsShown'
  <2>1. \A i \in 1 .. Len(msgs) + 2 :
          i \in 1 .. Len(msgs) \/ i = Len(msgs) + 1 \/ i = Len(msgs) + 2
    BY <1>9
  <2>2. ASSUME NEW i \in DOMAIN msgs' PROVE (i \in DOMAIN msgs /\ msgs'[i] = msgs[i])
                                             \/ msgs'[i].events = <<>>
    <3>1. CASE i \in 1 .. Len(msgs)  BY <1>7, <1>8, <1>9, <3>1
    <3>2. CASE i = Len(msgs) + 1
      <4>1. i \in 1 .. Len(v)  BY <1>9, <3>2
      <4> QED  BY <1>4, <1>7, <1>8, <3>2, <4>1
    <3>3. CASE i = Len(msgs) + 2
      <4>1. i = Len(v) + 1  BY <1>9, <3>3
      <4> QED  BY <1>4, <1>8, <4>1
    <3> QED  BY <1>9, <2>1, <3>1, <3>2, <3>3
  <2> QED  BY <1>1, <1>2, <2>2 DEF SpinsShown
<1>13. CallsSettle'
  <2>1. rows \in Seq(Rows)  BY <1>1 DEF AgentFits
  <2>2. /\ Len(rows') = Len(rows) + 1 /\ rows'[Len(rows) + 1] = [role |-> "user"]
        /\ \A i \in 1 .. Len(rows) : rows'[i] = rows[i]
        /\ rows' \in Seq(Rows)
    <3>1. [role |-> "user"] \in Rows  BY DEF Rows, UserRows
    <3> QED  BY <1>2, <2>1, <3>1, AppendFits
  <2>3. /\ Len(rows) \in Nat /\ DOMAIN rows = 1 .. Len(rows) /\ DOMAIN rows' = 1 .. Len(rows) + 1
        /\ \A i \in 1 .. Len(rows) + 1 : i \in 1 .. Len(rows) \/ i = Len(rows) + 1
    BY <2>1, <2>2
  <2>4. \A c : ResultStored(c) => ResultStored(c)'  BY <2>2, <2>3 DEF ResultStored
  <2>5. \A i \in DOMAIN rows' : rows'[i].role = "assistant" =>
          i \in DOMAIN rows /\ rows'[i] = rows[i]
    BY <2>2, <2>3
  <2>6. \A c : Awaited(c) => Awaited(c)'  BY <1>2 DEF Awaited
  <2> QED  BY <1>1, <2>4, <2>5, <2>6 DEF CallsSettle
<1> QED  BY <1>3, <1>11, <1>12, <1>13 DEF PageInv

\* Nothing is shown of what is only produced.
LEMMA ProducePage == ASSUME PageInv, Produce PROVE PageInv'
<1>1. AgentFits /\ BrowserFits /\ SpinsShown /\ CallsSettle  BY DEF PageInv
<1>2. /\ pc = "text"
      /\ UNCHANGED <<pc, rows, calls, announced, finished, msgs, split, stream, terminal, ids,
                     early>>
  BY DEF Produce, shown
<1>3. draft' \in Text /\ unsent' \in Text /\ inside' \in BOOLEAN
  <2>1. draft \in Text /\ unsent \in Text /\ inside \in BOOLEAN  BY <1>1 DEF AgentFits
  <2>2. ASSUME NEW a \in Letters, draft' = Append(draft, a), unsent' = Append(unsent, a),
               UNCHANGED inside
        PROVE  draft' \in Text /\ unsent' \in Text /\ inside' \in BOOLEAN
    <3>1. a \in Chars  BY DEF Chars
    <3> QED  BY <2>1, <2>2, <3>1, AppendFits DEF Text
  <2>3. ASSUME draft' = draft \o Tag(inside), unsent' = unsent \o Tag(inside),
               inside' = ~ inside
        PROVE  draft' \in Text /\ unsent' \in Text /\ inside' \in BOOLEAN
    <3>1. Tag(inside) \in Text  BY <2>1, TagFits
    <3>2. draft' \in Text /\ unsent' \in Text  BY <2>1, <2>3, <3>1, ConcatProperties DEF Text
    <3> QED  BY <2>1, <2>3, <3>2
  <2>4. \/ \E a \in Letters : draft' = Append(draft, a) /\ unsent' = Append(unsent, a)
                              /\ UNCHANGED inside
        \/ draft' = draft \o Tag(inside) /\ unsent' = unsent \o Tag(inside)
           /\ inside' = ~ inside
    BY DEF Produce, Tag
  <2> QED  BY <2>2, <2>3, <2>4
<1>4. AgentFits'  BY <1>1, <1>2, <1>3 DEF AgentFits
<1>5. BrowserFits' /\ SpinsShown'  BY <1>1, <1>2 DEF BrowserFits, SpinsShown
<1>6. CallsSettle'  BY <1>1, <1>2, SettleStays
<1> QED  BY <1>4, <1>5, <1>6 DEF PageInv

\* A delta is split and shown.
LEMMA DeltaPage == ASSUME PageInv, Delta PROVE PageInv'
<1>1. AgentFits /\ BrowserFits /\ SpinsShown /\ CallsSettle  BY DEF PageInv
<1>2. /\ pc = "text" /\ unsent # <<>>
      /\ UNCHANGED <<pc, draft, inside, rows, calls, announced, finished, stream, terminal, ids,
                     early>>
  BY DEF Delta, spent, noted
<1>3. PICK n \in 1 .. Len(unsent) :
        /\ unsent' = SubSeq(unsent, n + 1, Len(unsent))
        /\ IF stream = "none" THEN UNCHANGED <<msgs, split>>
           ELSE LET out == SplitTextDelta(split, SubSeq(unsent, 1, n))
                IN  Patch(ApplyText(Bubble, out)) /\ split' = out.next
  BY DEF Delta
<1>4. unsent \in Text /\ Len(unsent) \in Nat  BY <1>1 DEF AgentFits, Text
<1>5. unsent' \in Text /\ SubSeq(unsent, 1, n) \in Text
  <2>1. /\ n + 1 \in Int /\ Len(unsent) \in Int /\ 1 <= n + 1 /\ Len(unsent) <= Len(unsent)
        /\ 1 \in Int /\ n \in Int /\ 1 <= 1 /\ n <= Len(unsent)
    BY <1>4
  <2> QED  BY <1>3, <1>4, <2>1, CutFits
<1>6. AgentFits'  BY <1>1, <1>2, <1>5 DEF AgentFits
<1>7. CallsSettle'  BY <1>1, <1>2, SettleStays
<1>8. CASE stream = "none"
  <2>1. UNCHANGED <<msgs, split, stream, terminal, early>>  BY <1>2, <1>3, <1>8
  <2> QED  BY <1>1, <1>6, <1>7, <2>1 DEF PageInv, BrowserFits, SpinsShown
<1>9. CASE stream # "none"
  <2> DEFINE out == SplitTextDelta(split, SubSeq(unsent, 1, n))
             fs == ApplyText(Bubble, out)
  <2>1. Patch(fs) /\ split' = out.next  BY <1>3, <1>9
  <2>2. out.text \in Text /\ out.reason \in Text /\ out.next \in Splits
    <3> DEFINE s == split.pending \o SubSeq(unsent, 1, n)
               x == SplitRest[s][split.inThink]
    <3>1. split.pending \in Text /\ split.inThink \in BOOLEAN
      BY <1>1 DEF BrowserFits, Splits
    <3>2. s \in Text  BY <1>5, <3>1, ConcatProperties DEF Text
    <3>3. out = [x EXCEPT !.text = Strip(@), !.reason = Strip(@)]  BY DEF SplitTextDelta
    <3> HIDE DEF s, out
    <3>4. x \in Outs  BY <3>1, <3>2, SplitFits
    <3> HIDE DEF x
    <3>5. out.text = Strip(x.text) /\ out.reason = Strip(x.reason) /\ out.next = x.next
      BY <3>3, <3>4 DEF Outs
    <3>6. x.text \in Text /\ x.reason \in Text /\ x.next \in Splits
      <4>1. x.text \in Text /\ x.reason \in Text /\ x.next \in Plainly  BY <3>4 DEF Outs
      <4>2. Plainly \subseteq Splits
        <5>1. Plain \subseteq Chars  BY DEF Plain
        <5>2. Seq(Plain) \subseteq Text  BY <5>1, SeqMonotonic DEF Text
        <5> QED  BY <5>2 DEF Plainly, Splits
      <4> QED  BY <4>1, <4>2
    <3> QED  BY <3>5, <3>6, StripFits
  <2> HIDE DEF out
  <2>3. Bubble \in Seq(Events)  BY <1>1, <1>9, BubbleIs
  <2>4. fs \in Seq(Events)  BY <2>2, <2>3, ApplyTextTells
  <2> HIDE DEF fs
  <2>5. terminal' \in Seq(Nat) /\ stream' = stream /\ early' = early
    BY <1>1, <1>2 DEF BrowserFits
  <2>6. BrowserFits' /\ SpinsShown'  BY <1>1, <1>9, <2>1, <2>2, <2>4, <2>5, PatchPage
  <2> QED  BY <1>6, <1>7, <2>6 DEF PageInv
<1> QED  BY <1>8, <1>9

\* The calls of an answer, with the ids that follow m.
Numbered(n, m, ts) == [i \in 1 .. n |-> [id |-> m + i, tool |-> ts[i]]]
Follow(n, m, cs) ==
  cs \in CallSeqs /\ Len(cs) = n /\ \A i \in 1 .. n : cs[i].id = m + i

\* They are calls.
LEMMA NumberedFits ==
  ASSUME Tools \subseteq {"bash", "ask", "other"}
  PROVE  \A n \in Nat, m \in Nat : \A ts \in [1 .. n -> Tools] :
           Follow(n, m, Numbered(n, m, ts))
<1> SUFFICES ASSUME NEW n \in Nat, NEW m \in Nat, NEW ts \in [1 .. n -> Tools]
             PROVE  Follow(n, m, Numbered(n, m, ts))
  OBVIOUS
<1> DEFINE cs == Numbered(n, m, ts)
<1>1. \A i \in 1 .. n : ts[i] \in {"bash", "ask", "other"}  OBVIOUS
<1>2. \A i \in 1 .. n : [id |-> m + i, tool |-> ts[i]] \in Calls  BY <1>1 DEF Calls
<1>3. cs \in [1 .. n -> Calls]  BY <1>2 DEF Numbered
<1>4. \A i \in 1 .. n : cs[i].id = m + i  BY DEF Numbered
<1> HIDE DEF cs
<1>5. cs \in Seq(Calls) /\ Len(cs) = n  BY <1>3
<1>6. Follow(n, m, cs)  BY <1>4, <1>5 DEF CallSeqs, Follow
<1> QED  BY <1>6 DEF cs

\* One row is added.
LEMMA RowAdded ==
  ASSUME rows \in Seq(Rows), NEW r \in Rows, rows' = Append(rows, r)
  PROVE  /\ rows' \in Seq(Rows) /\ \A c : ResultStored(c) => ResultStored(c)'
         /\ r.role = "tool" => ResultStored(r.call)'
         /\ \A i \in DOMAIN rows' : (i \in DOMAIN rows /\ rows'[i] = rows[i]) \/ rows'[i] = r
<1>1. /\ Len(rows') = Len(rows) + 1 /\ rows'[Len(rows) + 1] = r
      /\ \A i \in 1 .. Len(rows) : rows'[i] = rows[i]
      /\ rows' \in Seq(Rows)
  BY AppendFits
<1>2. /\ Len(rows) \in Nat /\ DOMAIN rows = 1 .. Len(rows) /\ DOMAIN rows' = 1 .. Len(rows) + 1
      /\ \A i \in 1 .. Len(rows) + 1 : i \in 1 .. Len(rows) \/ i = Len(rows) + 1
      /\ Len(rows) + 1 \in 1 .. Len(rows) + 1
      /\ \A i \in 1 .. Len(rows) : i \in 1 .. Len(rows) + 1
  BY <1>1
<1>3. \A c : ResultStored(c) => ResultStored(c)'  BY <1>1, <1>2 DEF ResultStored
<1>4. r.role = "tool" => ResultStored(r.call)'  BY <1>1, <1>2 DEF ResultStored
<1> QED  BY <1>1, <1>2, <1>3, <1>4

\* The round's row and its calls.
StoredRow == [role |-> "assistant", text |-> draft, calls |-> calls']

\* What the agent does with them.
LEMMA StoreRowIs ==
  ASSUME AgentFits, StoreRow
  PROVE  /\ pc = "text" /\ unsent = <<>> /\ draft \in Text /\ calls = <<>>
         /\ calls' \in CallSeqs /\ ids' = ids + Len(calls') /\ ids' \in Nat
         /\ \A j \in DOMAIN calls' : calls'[j].id = ids + j
         /\ StoredRow \in Rows /\ StoredRow \in TextRows /\ StoredRow.calls = calls'
         /\ StoredRow.text = draft /\ StoredRow.role = "assistant"
         /\ rows \in Seq(Rows) /\ rows' = Append(rows, StoredRow)
         /\ draft' = <<>> /\ unsent' = <<>> /\ inside' = FALSE /\ announced' = 0 /\ finished' = 0
         /\ unclosed' = (unclosed \/ inside)
         /\ pc' \in {"ended", "calls"} /\ (pc' # "calls" => calls' = <<>>)
         /\ UNCHANGED <<msgs, split, stream, terminal, meant, early, stopped, cut>>
<1>1. /\ pc = "text" /\ unsent = <<>> /\ rows' = Append(rows, StoredRow)
      /\ draft' = <<>> /\ inside' = FALSE /\ announced' = 0 /\ finished' = 0
      /\ unclosed' = (unclosed \/ inside)
      /\ pc' = (IF calls' = <<>> THEN "ended" ELSE "calls")
      /\ UNCHANGED <<unsent, msgs, split, stream, terminal, meant, early, stopped, cut>>
  BY DEF StoreRow, shown, StoredRow
<1>0. PICK n \in 0 .. MaxCalls - ids : \E ts \in [1 .. n -> Tools] :
        /\ calls' = [i \in 1 .. n |-> [id |-> ids + i, tool |-> ts[i]]]
        /\ ids' = ids + n
  BY DEF StoreRow
<1>2. PICK ts \in [1 .. n -> Tools] :
        /\ calls' = [i \in 1 .. n |-> [id |-> ids + i, tool |-> ts[i]]]
        /\ ids' = ids + n
  BY <1>0
<1>3. /\ draft \in Text /\ calls = <<>> /\ rows \in Seq(Rows) /\ ids \in Nat
  BY <1>1 DEF AgentFits
<1>4. n \in Nat  OBVIOUS
<1>5. Tools \subseteq {"bash", "ask", "other"}  BY TranscriptAssumption
<1>6. /\ calls' \in CallSeqs /\ Len(calls') = n /\ \A i \in 1 .. n : calls'[i].id = ids + i
  <2> DEFINE cs == Numbered(n, ids, ts)
  <2>1. Follow(n, ids, cs)  BY Zenon, <1>3, <1>4, <1>5, NumberedFits
  <2>2. calls' = cs  BY <1>2 DEF Numbered
  <2> HIDE DEF cs
  <2> QED  BY <2>1, <2>2 DEF Follow
<1>7. DOMAIN calls' = 1 .. n  BY <1>6 DEF CallSeqs
<1>8. StoredRow \in TextRows /\ StoredRow \in Rows /\ StoredRow.calls = calls'
      /\ StoredRow.text = draft /\ StoredRow.role = "assistant"
  BY <1>3, <1>6 DEF StoredRow, TextRows, Rows
<1>9. ids' \in Nat  BY <1>2, <1>3, <1>4
<1>10. pc' \in {"ended", "calls"} /\ (pc' # "calls" => calls' = <<>>)  BY <1>1
<1>11. ids' = ids + Len(calls') /\ unsent' = <<>>  BY <1>1, <1>2, <1>6
<1>12. \A j \in DOMAIN calls' : calls'[j].id = ids + j  BY <1>6, <1>7
<1> QED  BY <1>1, <1>3, <1>6, <1>8, <1>9, <1>10, <1>11, <1>12

\* Its calls are yet to be made.
LEMMA StoreRowPage == ASSUME PageInv, StoreRow PROVE PageInv'
<1>1. AgentFits /\ BrowserFits /\ SpinsShown /\ CallsSettle  BY DEF PageInv
<1> DEFINE r == StoredRow
<1>2. /\ calls = <<>> /\ calls' \in CallSeqs /\ ids' \in Nat
      /\ r \in Rows /\ r.calls = calls' /\ r.role = "assistant"
      /\ rows \in Seq(Rows) /\ rows' = Append(rows, r)
      /\ draft' = <<>> /\ unsent' = <<>> /\ inside' = FALSE /\ announced' = 0 /\ finished' = 0
      /\ pc' \in {"ended", "calls"} /\ (pc' # "calls" => calls' = <<>>)
      /\ UNCHANGED <<msgs, split, stream, terminal, early>>
  BY <1>1, StoreRowIs
<1> HIDE DEF r
<1>3. /\ rows' \in Seq(Rows) /\ \A c : ResultStored(c) => ResultStored(c)'
      /\ \A i \in DOMAIN rows' : (i \in DOMAIN rows /\ rows'[i] = rows[i]) \/ rows'[i] = r
  BY <1>2, RowAdded
<1>4. DOMAIN calls' = 1 .. Len(calls') /\ Len(calls') \in Nat  BY <1>2 DEF CallSeqs
<1>5. AgentFits'
  <2>1. <<>> \in Text  BY DEF Text
  <2>2. announced' \in Nat /\ finished' \in Nat /\ finished' <= announced'
        /\ announced' <= Len(calls')
    BY <1>2, <1>4
  <2>3. inside' \in BOOLEAN /\ inside' = FALSE  BY <1>2
  <2>4. pc' \in {"idle", "text", "calls", "ended"} /\ pc' # "text"  BY <1>2
  <2>5. draft' \in Text /\ unsent' \in Text  BY <1>2, <2>1
  <2> QED  BY <1>2, <1>3, <2>2, <2>3, <2>4, <2>5 DEF AgentFits
<1>6. BrowserFits' /\ SpinsShown'  BY <1>1, <1>2 DEF BrowserFits, SpinsShown
<1>7. CallsSettle'
  <2>1. \A c : ~ Awaited(c)
    <3>1. Len(calls) = 0 /\ finished = 0  BY <1>1, <1>2 DEF AgentFits
    <3>2. \A j : j \notin 1 .. 0  OBVIOUS
    <3> QED  BY <3>1, <3>2 DEF Awaited
  <2>2. \A c : (\E n \in DOMAIN calls' : c = calls'[n]) => Awaited(c)'
    <3>1. ASSUME NEW c, NEW n \in DOMAIN calls', c = calls'[n] PROVE Awaited(c)'
      <4>1. n \in finished' + 1 .. Len(calls')  BY <1>2, <1>4
      <4> QED  BY <3>1, <4>1 DEF Awaited
    <3> QED  BY <3>1
  <2>3. \A i \in DOMAIN rows : rows[i].role = "assistant" =>
          \A n \in DOMAIN rows[i].calls : ResultStored(rows[i].calls[n])
    BY <1>1, <2>1 DEF CallsSettle
  <2>4. ASSUME NEW i \in DOMAIN rows', rows'[i].role = "assistant",
               NEW n \in DOMAIN rows'[i].calls, NEW c, c = rows'[i].calls[n]
        PROVE  ResultStored(c)' \/ Awaited(c)'
    <3>1. CASE i \in DOMAIN rows /\ rows'[i] = rows[i]
      <4>1. ResultStored(c)  BY <2>3, <2>4, <3>1
      <4> QED  BY <1>3, <4>1
    <3>2. CASE rows'[i] = r  BY <1>2, <2>2, <2>4, <3>2
    <3> QED  BY <1>3, <3>1, <3>2
  <2> QED  BY <2>4 DEF CallsSettle
<1> QED  BY <1>5, <1>6, <1>7 DEF PageInv

\* The call that is announced.
LEMMA AnnounceIs ==
  ASSUME AgentFits, Announce
  PROVE  LET c == calls[announced + 1]
         IN  /\ pc = "calls" /\ announced + 1 \in DOMAIN calls /\ announced' = announced + 1
             /\ c \in Calls /\ announced' \in Nat /\ announced' <= Len(calls)
             /\ (stream = "none" \/ Resumed) => UNCHANGED <<msgs, terminal>>
             /\ ~ (stream = "none" \/ Resumed) =>
                  /\ Patch(ApplyCall(Bubble, c))
                  /\ terminal' = IF c.tool = "bash" /\ ~ Contains(terminal, c.id)
                                 THEN Append(terminal, c.id) ELSE terminal
             /\ UNCHANGED <<pc, draft, unsent, inside, rows, calls, finished, split, stream,
                            spent, noted>>
<1> DEFINE c == calls[announced + 1]
<1>1. /\ pc = "calls" /\ announced < Len(calls) /\ announced' = announced + 1
      /\ (stream = "none" \/ Resumed) => UNCHANGED <<msgs, terminal>>
      /\ ~ (stream = "none" \/ Resumed) =>
           /\ Patch(ApplyCall(Bubble, c))
           /\ terminal' = IF c.tool = "bash" /\ ~ Contains(terminal, c.id)
                          THEN Append(terminal, c.id) ELSE terminal
      /\ UNCHANGED <<pc, draft, unsent, inside, rows, calls, finished, split, stream,
                     spent, noted>>
  BY DEF Announce
<1>2. announced \in Nat /\ calls \in Seq(Calls)  BY DEF AgentFits, CallSeqs
<1>3. announced + 1 \in DOMAIN calls /\ announced' \in Nat /\ announced' <= Len(calls)
  BY <1>1, <1>2
<1>4. c \in Calls  BY <1>2, <1>3
<1> QED  BY <1>1, <1>3, <1>4

\* It is shown as running, and the stream goes on.
LEMMA AnnouncePage == ASSUME PageInv, Announce PROVE PageInv'
<1>1. AgentFits /\ BrowserFits /\ SpinsShown /\ CallsSettle  BY DEF PageInv
<1> DEFINE c == calls[announced + 1]
<1>2. /\ announced' = announced + 1
      /\ c \in Calls /\ announced' \in Nat /\ announced' <= Len(calls)
      /\ (stream = "none" \/ Resumed) => UNCHANGED <<msgs, terminal>>
      /\ ~ (stream = "none" \/ Resumed) =>
           /\ Patch(ApplyCall(Bubble, c))
           /\ terminal' = IF c.tool = "bash" /\ ~ Contains(terminal, c.id)
                          THEN Append(terminal, c.id) ELSE terminal
      /\ UNCHANGED <<pc, draft, unsent, inside, rows, calls, finished, split, stream,
                     spent, noted>>
  BY <1>1, AnnounceIs
<1>3. UNCHANGED <<ids, early>>  BY <1>2 DEF spent, noted
<1> HIDE DEF c
<1>4. AgentFits'
  <2>1. finished <= announced + 1  BY <1>1 DEF AgentFits
  <2> QED  BY <1>1, <1>2, <1>3, <2>1 DEF AgentFits
<1>5. CallsSettle'  BY <1>1, <1>2, SettleStays
<1>6. CASE stream = "none" \/ Resumed
  BY <1>1, <1>2, <1>3, <1>4, <1>5, <1>6 DEF PageInv, BrowserFits, SpinsShown
<1>7. CASE ~ (stream = "none" \/ Resumed)
  <2> DEFINE fs == ApplyCall(Bubble, c)
  <2>1. Bubble \in Seq(Events)  BY <1>1, <1>7, BubbleIs
  <2>2. fs \in Seq(Events)  BY <1>2, <2>1, ApplyCallTells
  <2>3. Patch(fs) /\ split' \in Splits  BY <1>1, <1>2, <1>7 DEF BrowserFits
  <2>4. terminal' \in Seq(Nat)
    <3>1. terminal \in Seq(Nat)  BY <1>1 DEF BrowserFits
    <3>2. c.id \in Nat  BY <1>2 DEF Calls
    <3>3. Append(terminal, c.id) \in Seq(Nat)  BY <3>1, <3>2, AppendFits
    <3> QED  BY <1>2, <1>7, <3>1, <3>3
  <2> HIDE DEF fs
  <2>5. BrowserFits' /\ SpinsShown'
    BY <1>1, <1>2, <1>3, <1>7, <2>2, <2>3, <2>4, PatchPage
  <2> QED  BY <1>4, <1>5, <2>5 DEF PageInv
<1> QED  BY <1>6, <1>7

\* The result that is stored.
ResultRow(c) == [role |-> "tool", call |-> c]

\* Finish, taken apart.
LEMMA FinishIs ==
  ASSUME AgentFits, Finish
  PROVE  \E c \in Calls :
           /\ pc = "calls" /\ finished' = finished + 1 /\ finished + 1 \in 1 .. announced
           /\ finished + 1 \in DOMAIN calls /\ c = calls[finished + 1]
           /\ finished' \in Nat /\ finished' <= announced
           /\ ResultRow(c) \in Rows /\ rows \in Seq(Rows) /\ rows' = Append(rows, ResultRow(c))
           /\ UNCHANGED msgs \/ (stream # "none" /\ Patch(ApplyResult(Bubble, c)))
           /\ UNCHANGED <<pc, draft, unsent, inside, calls, announced, split, stream, terminal,
                          spent, noted>>
<1> DEFINE c == calls[finished + 1]
<1>1. /\ pc = "calls" /\ finished < announced /\ finished' = finished + 1
      /\ rows' = Append(rows, ResultRow(c))
      /\ UNCHANGED msgs \/ (stream # "none" /\ Patch(ApplyResult(Bubble, c)))
      /\ UNCHANGED <<pc, draft, unsent, inside, calls, announced, split, stream, terminal,
                     spent, noted>>
  BY DEF Finish, ResultRow
<1>2. /\ finished \in Nat /\ announced \in Nat /\ announced <= Len(calls)
      /\ calls \in Seq(Calls) /\ rows \in Seq(Rows)
  BY DEF AgentFits, CallSeqs
<1>3. finished + 1 \in DOMAIN calls /\ finished' \in Nat /\ finished' <= announced
      /\ finished + 1 \in 1 .. announced
  BY <1>1, <1>2
<1>4. c \in Calls  BY <1>2, <1>3
<1>5. ResultRow(c) \in Rows  BY <1>4 DEF Rows, CallRows, ResultRow
<1> HIDE DEF c
<1>6. c = calls[finished + 1]  BY DEF c
<1> QED  BY <1>1, <1>2, <1>3, <1>4, <1>5, <1>6

\* The call has its result, whether its event comes or not.
LEMMA FinishPage == ASSUME PageInv, Finish PROVE PageInv'
<1>1. AgentFits /\ BrowserFits /\ SpinsShown /\ CallsSettle  BY DEF PageInv
<1>2. PICK c \in Calls :
        /\ finished' = finished + 1 /\ finished + 1 \in DOMAIN calls
        /\ c = calls[finished + 1] /\ finished' \in Nat /\ finished' <= announced
        /\ ResultRow(c) \in Rows /\ rows \in Seq(Rows) /\ rows' = Append(rows, ResultRow(c))
        /\ UNCHANGED msgs \/ (stream # "none" /\ Patch(ApplyResult(Bubble, c)))
        /\ UNCHANGED <<pc, draft, unsent, inside, calls, announced, split, stream, terminal,
                       spent, noted>>
  BY <1>1, FinishIs
<1>3. UNCHANGED <<ids, early>>  BY <1>2 DEF spent, noted
<1>4. PICK r \in Rows : r = ResultRow(c) /\ r.role = "tool" /\ r.call = c
  BY <1>2 DEF ResultRow
<1>5. /\ rows' \in Seq(Rows) /\ \A d : ResultStored(d) => ResultStored(d)'
      /\ r.role = "tool" => ResultStored(r.call)'
      /\ \A i \in DOMAIN rows' : (i \in DOMAIN rows /\ rows'[i] = rows[i]) \/ rows'[i] = r
  BY <1>2, <1>4, RowAdded
<1>10. ResultStored(c)'  BY <1>4, <1>5
<1>6. AgentFits'  BY <1>1, <1>2, <1>3, <1>5 DEF AgentFits
<1>7. CallsSettle'
  <2>1. ASSUME NEW d, Awaited(d) PROVE Awaited(d)' \/ d = c
    <3>1. PICK j \in finished + 1 .. Len(calls) : calls[j] = d  BY <2>1 DEF Awaited
    <3>2. finished \in Nat /\ Len(calls) \in Nat  BY <1>1 DEF AgentFits, CallSeqs
    <3>3. j = finished + 1 \/ j \in finished + 2 .. Len(calls)  BY <3>1, <3>2
    <3>4. finished' + 1 = finished + 2  BY <1>2, <3>2
    <3> QED  BY <1>2, <3>1, <3>3, <3>4 DEF Awaited
  <2>2. ASSUME NEW i \in DOMAIN rows', rows'[i].role = "assistant",
               NEW n \in DOMAIN rows'[i].calls, NEW d, d = rows'[i].calls[n]
        PROVE  ResultStored(d)' \/ Awaited(d)'
    <3>1. i \in DOMAIN rows /\ rows'[i] = rows[i]  BY <1>4, <1>5, <2>2
    <3>2. ResultStored(d) \/ Awaited(d)  BY <1>1, <2>2, <3>1 DEF CallsSettle
    <3> QED  BY <1>5, <1>10, <2>1, <3>2
  <2> QED  BY <2>2 DEF CallsSettle
<1>8. CASE UNCHANGED msgs
  BY <1>1, <1>2, <1>3, <1>6, <1>7, <1>8 DEF PageInv, BrowserFits, SpinsShown
<1>9. CASE stream # "none" /\ Patch(ApplyResult(Bubble, c))
  <2> DEFINE fs == ApplyResult(Bubble, c)
  <2>1. Bubble \in Seq(Events)  BY <1>1, <1>9, BubbleIs
  <2>2. fs \in Seq(Events)  BY <2>1, ApplyResultTells
  <2>3. Patch(fs) /\ split' \in Splits /\ terminal' \in Seq(Nat)
    BY <1>1, <1>2, <1>9 DEF BrowserFits
  <2> HIDE DEF fs
  <2>4. BrowserFits' /\ SpinsShown'
    BY <1>1, <1>2, <1>3, <1>9, <2>2, <2>3, PatchPage
  <2> QED  BY <1>6, <1>7, <2>4 DEF PageInv
<1> QED  BY <1>2, <1>8, <1>9

\* The next round has no calls yet.
LEMMA NextRoundPage == ASSUME PageInv, NextRound PROVE PageInv'
<1>1. AgentFits /\ BrowserFits /\ SpinsShown /\ CallsSettle  BY DEF PageInv
<1>2. /\ pc = "calls" /\ finished = Len(calls) /\ calls' = <<>> /\ announced' = 0 /\ finished' = 0
      /\ pc' \in {"ended", "text"}
      /\ UNCHANGED <<draft, unsent, inside, rows, msgs, split, stream, terminal, ids, early>>
  BY DEF NextRound, shown, spent, noted
<1>3. AgentFits'
  <2>1. calls' \in CallSeqs /\ Len(calls') = 0  BY <1>2 DEF CallSeqs
  <2>2. announced' \in Nat /\ finished' \in Nat /\ finished' <= announced'
        /\ announced' <= Len(calls')
    BY <1>2, <2>1
  <2>3. pc' \in {"idle", "text", "calls", "ended"} /\ calls' = <<>>  BY <1>2
  <2>4. draft' = <<>> /\ unsent' = <<>> /\ inside' = FALSE  BY <1>1, <1>2 DEF AgentFits
  <2>5. /\ draft' \in Text /\ unsent' \in Text /\ inside' \in BOOLEAN /\ rows' \in Seq(Rows)
        /\ ids' \in Nat
    BY <1>1, <1>2 DEF AgentFits
  <2> QED  BY <2>1, <2>2, <2>3, <2>4, <2>5 DEF AgentFits
<1>4. BrowserFits' /\ SpinsShown'  BY <1>1, <1>2 DEF BrowserFits, SpinsShown
<1>5. CallsSettle'
  <2>1. \A c : ~ Awaited(c)
    <3>1. Len(calls) \in Nat  BY <1>1 DEF AgentFits, CallSeqs
    <3>2. \A j : j \notin finished + 1 .. Len(calls)  BY <1>2, <3>1
    <3> QED  BY <3>2 DEF Awaited
  <2>2. \A c : ResultStored(c) => ResultStored(c)'  BY <1>2 DEF ResultStored
  <2>3. ASSUME NEW i \in DOMAIN rows', rows'[i].role = "assistant",
               NEW n \in DOMAIN rows'[i].calls, NEW d, d = rows'[i].calls[n]
        PROVE  ResultStored(d)'
    <3>1. i \in DOMAIN rows /\ rows'[i] = rows[i]  BY <1>2, <2>3
    <3>2. ResultStored(d)  BY <1>1, <2>1, <2>3, <3>1 DEF CallsSettle
    <3> QED  BY <2>2, <3>2
  <2> QED  BY <2>3 DEF CallsSettle
<1> QED  BY <1>3, <1>4, <1>5 DEF PageInv

\* The stream ends.
LEMMA StreamEndsPage == ASSUME PageInv, StreamEnds PROVE PageInv'
<1>1. AgentFits /\ BrowserFits /\ SpinsShown /\ CallsSettle  BY DEF PageInv
<1>2. /\ stream # "none"
      /\ UNCHANGED <<server, terminal, ids, early>>
  BY DEF StreamEnds, spent
<1>3. PICK flush \in BOOLEAN : Ends(flush)
  <2>1. PICK flush \in {TRUE, stream = "sent"} : Ends(flush)  BY DEF StreamEnds
  <2>2. flush \in BOOLEAN  OBVIOUS
  <2> QED  BY <2>1, <2>2
<1>4. AgentFits'  BY <1>1, <1>2, AgentStays
<1>5. UNCHANGED <<rows, calls, finished>>  BY <1>2 DEF server
<1>6. CallsSettle'  BY <1>1, <1>5, SettleStays
<1>7. BrowserFits' /\ SpinsShown'  BY <1>1, <1>2, <1>3, EndsPage
<1> QED  BY <1>4, <1>6, <1>7 DEF PageInv

\* The turn ends.
LEMMA TurnEndsPage == ASSUME PageInv, TurnEnds PROVE PageInv'
<1>1. AgentFits /\ BrowserFits /\ SpinsShown /\ CallsSettle  BY DEF PageInv
<1>2. /\ pc = "ended" /\ pc' = "idle"
      /\ UNCHANGED <<draft, unsent, inside, rows, calls, announced, finished, msgs, split, stream,
                     terminal, ids, early>>
  BY DEF TurnEnds, shown, spent, noted
<1>3. AgentFits'  BY <1>1, <1>2 DEF AgentFits
<1>4. CallsSettle'  BY <1>1, <1>2, SettleStays
<1>5. BrowserFits' /\ SpinsShown'  BY <1>1, <1>2 DEF BrowserFits, SpinsShown
<1> QED  BY <1>3, <1>4, <1>5 DEF PageInv

\* The browser stops its stream.
LEMMA StopPage == ASSUME PageInv, Stop PROVE PageInv'
<1>1. AgentFits /\ BrowserFits /\ SpinsShown /\ CallsSettle  BY DEF PageInv
<1>2. /\ stream # "none"
      /\ UNCHANGED <<server, terminal, ids, early>>
  BY DEF Stop, spent
<1>3. PICK flush \in BOOLEAN : Ends(flush)  BY DEF Stop
<1>4. AgentFits'  BY <1>1, <1>2, AgentStays
<1>5. UNCHANGED <<rows, calls, finished>>  BY <1>2 DEF server
<1>6. CallsSettle'  BY <1>1, <1>5, SettleStays
<1>7. BrowserFits' /\ SpinsShown'  BY <1>1, <1>2, <1>3, EndsPage
<1> QED  BY <1>4, <1>6, <1>7 DEF PageInv

\* What a load shows as running has no result yet.
LEMMA RestoredSpins ==
  ASSUME CallsSettle, NEW e \in Restored, Spins(e)
  PROVE  \E j \in finished + 1 .. Len(calls) : e.call.id = calls[j].id
<1>1. e \notin TextEvents  BY DEF Spins, TextEvents
<1>2. PICK c \in RowCalls : e = ToolEv(c, CallStatus(c))  BY <1>1 DEF Restored
<1>3. e.call = c /\ e.status = CallStatus(c)  BY <1>2 DEF ToolEv
<1>4. ~ ResultStored(c)  BY <1>3 DEF Spins, CallStatus
<1>5. Awaited(c)  BY <1>4 DEF CallsSettle, RowCalls
<1> QED  BY <1>3, <1>5 DEF Awaited

\* What the page shows when it is loaded.
LEMMA ReloadIs ==
  ASSUME AgentFits, Reload
  PROVE  /\ Retells(Rebuilt, rows) /\ Rebuilt \in Seq(Messages)
         /\ \/ pc = "idle" /\ msgs' = Rebuilt /\ stream' = "none"
            \/ /\ pc # "idle" /\ msgs' = Append(Rebuilt, Bubbly(<<>>))
               /\ stream' = "resumed"
         /\ terminal' = RowsIds(rows, TRUE) /\ terminal' \in Seq(Nat)
         /\ split' = NoSplit /\ unsent' = draft
         /\ early' = early \cup {calls[i].id : i \in finished + 1 .. Len(calls)}
         /\ stopped' = FALSE /\ cut' = FALSE
         /\ UNCHANGED <<pc, draft, inside, rows, calls, announced, finished, ids, meant,
                        unclosed>>
<1>1. rows \in Seq(Rows)  BY DEF AgentFits
<1>2. Retells(Rebuilt, rows) /\ Rebuilt \in Seq(Messages)
  BY <1>1, RebuiltTells DEF Retells
<1>3. NewMessage("assistant") = Bubbly(<<>>)  BY DEF NewMessage, Bubbly
<1>4. /\ msgs' = Rebuilt \o IF pc # "idle" THEN <<Bubbly(<<>>)>> ELSE <<>>
      /\ stream' = IF pc # "idle" THEN "resumed" ELSE "none"
      /\ terminal' = RebuiltTerminal
      /\ split' = NoSplit /\ unsent' = draft
      /\ early' = early \cup {calls[i].id : i \in finished + 1 .. Len(calls)}
      /\ stopped' = FALSE /\ cut' = FALSE
      /\ UNCHANGED <<pc, draft, inside, rows, calls, announced, finished, ids, meant, unclosed>>
  BY <1>3 DEF Reload
<1>5. /\ Rebuilt \o <<>> = Rebuilt
      /\ Rebuilt \o <<Bubbly(<<>>)>> = Append(Rebuilt, Bubbly(<<>>))
  <2>1. <<>> \in Seq(Events)  OBVIOUS
  <2>2. Bubbly(<<>>) \in Messages  BY <2>1, BubblyFits
  <2> QED  BY <1>2, <2>2, ConcatEmptySeq, AppendIsConcat
<1>6. terminal' = RowsIds(rows, TRUE)  BY <1>1, <1>4, TerminalIs
<1>7. RowsIds(rows, TRUE) \in Seq(Nat)
  <2>1. TRUE \in BOOLEAN  OBVIOUS
  <2> QED  BY <1>1, <2>1, RowsIdsFit
<1> QED  BY <1>2, <1>4, <1>5, <1>6, <1>7

\* A load shows no call as running that is not to end, but those it was too early for.
LEMMA ReloadPage == ASSUME PageInv, Reload PROVE PageInv'
<1>1. AgentFits /\ BrowserFits /\ SpinsShown /\ CallsSettle  BY DEF PageInv
<1> DEFINE ms == Rebuilt
<1>2. /\ Retells(ms, rows) /\ ms \in Seq(Messages)
      /\ \/ pc = "idle" /\ msgs' = ms /\ stream' = "none"
         \/ pc # "idle" /\ msgs' = Append(ms, Bubbly(<<>>)) /\ stream' = "resumed"
      /\ terminal' \in Seq(Nat) /\ split' = NoSplit /\ unsent' = draft
      /\ early' = early \cup {calls[i].id : i \in finished + 1 .. Len(calls)}
      /\ UNCHANGED <<pc, draft, inside, rows, calls, announced, finished, ids>>
  BY <1>1, ReloadIs
<1>3. \A i \in DOMAIN ms : ms[i].events \in Seq(Restored)  BY <1>2 DEF Retells
<1> HIDE DEF ms
<1>4. AgentFits'  BY <1>1, <1>2 DEF AgentFits
<1>5. CallsSettle'  BY <1>1, <1>2, SettleStays
<1>6. NoSplit \in Splits  BY DEF NoSplit, Splits, Text
<1>7. ASSUME NEW i \in DOMAIN ms, NEW n \in DOMAIN ms[i].events, Spins(ms[i].events[n])
      PROVE  ms[i].events[n].call.id \in early'
  <2>1. ms[i].events \in Seq(Restored)  BY <1>3
  <2>2. ms[i].events[n] \in Restored  BY <2>1
  <2>3. \E j \in finished + 1 .. Len(calls) : ms[i].events[n].call.id = calls[j].id
    BY <1>1, <1>7, <2>2, RestoredSpins
  <2> QED  BY <1>2, <2>3
<1>8. CASE pc = "idle" /\ msgs' = ms /\ stream' = "none"
  <2>1. BrowserFits'  BY <1>2, <1>6, <1>8 DEF BrowserFits
  <2>2. SpinsShown'  BY <1>7, <1>8 DEF SpinsShown
  <2> QED  BY <1>4, <1>5, <2>1, <2>2 DEF PageInv
<1>9. CASE pc # "idle" /\ msgs' = Append(ms, Bubbly(<<>>)) /\ stream' = "resumed"
  <2> DEFINE b == Bubbly(<<>>)
  <2>1. b \in Messages /\ b.events = <<>> /\ b.role = "assistant"
    <3>1. <<>> \in Seq(Events)  OBVIOUS
    <3> QED  BY <3>1, BubblyFits
  <2> HIDE DEF b
  <2>2. /\ msgs' \in Seq(Messages) /\ Len(msgs') = Len(ms) + 1 /\ msgs'[Len(ms) + 1] = b
        /\ \A i \in 1 .. Len(ms) : msgs'[i] = ms[i]
    BY <1>2, <1>9, <2>1, AppendFits DEF b
  <2>3. /\ Len(ms) \in Nat /\ DOMAIN ms = 1 .. Len(ms) /\ DOMAIN msgs' = 1 .. Len(ms) + 1
        /\ \A i \in 1 .. Len(ms) + 1 : i \in 1 .. Len(ms) \/ i = Len(ms) + 1
    BY <1>2, <2>2
  <2>4. msgs' # <<>> /\ Last(msgs') = b
    <3>1. Len(msgs') # 0  BY <2>2, <2>3
    <3> QED  BY <2>2, <3>1 DEF Last
  <2>5. BrowserFits'  BY <1>2, <1>6, <1>9, <2>1, <2>2, <2>4 DEF BrowserFits
  <2>6. ASSUME NEW i \in DOMAIN msgs', NEW n \in DOMAIN msgs'[i].events, Spins(msgs'[i].events[n])
        PROVE  msgs'[i].events[n].call.id \in early'
    <3>1. CASE i \in 1 .. Len(ms)
      <4>1. msgs'[i] = ms[i] /\ i \in DOMAIN ms  BY <2>2, <2>3, <3>1
      <4> QED  BY <1>7, <2>6, <4>1
    <3>2. CASE i = Len(ms) + 1
      <4>1. n \in DOMAIN <<>>  BY <2>1, <2>2, <2>6, <3>2
      <4> QED  BY <4>1
    <3> QED  BY <2>3, <3>1, <3>2
  <2>7. SpinsShown'  BY <2>6 DEF SpinsShown
  <2> QED  BY <1>4, <1>5, <2>5, <2>7 DEF PageInv
<1> QED  BY <1>2, <1>8, <1>9

\* Nothing happens.
LEMMA StutterPage == ASSUME PageInv, UNCHANGED vars PROVE PageInv'
<1>1. AgentFits /\ BrowserFits /\ SpinsShown /\ CallsSettle  BY DEF PageInv
<1>2. UNCHANGED <<server, msgs, split, stream, terminal, ids, early>>
  BY DEF vars, shown, spent, noted
<1>3. UNCHANGED <<rows, calls, finished>>  BY <1>2 DEF server
<1>4. AgentFits'  BY <1>1, <1>2, AgentStays
<1>5. CallsSettle'  BY <1>1, <1>3, SettleStays
<1>6. BrowserFits' /\ SpinsShown'  BY <1>1, <1>2 DEF BrowserFits, SpinsShown
<1> QED  BY <1>4, <1>5, <1>6 DEF PageInv

\* Every step keeps the types and what is shown as running.
LEMMA NextPage == ASSUME PageInv, [Next]_vars PROVE PageInv'
<1>1. CASE Next
  BY <1>1, SendPage, ProducePage, DeltaPage, StoreRowPage, AnnouncePage, FinishPage,
     NextRoundPage, StreamEndsPage, TurnEndsPage, StopPage, ReloadPage DEF Next
<1>2. CASE UNCHANGED vars  BY <1>2, StutterPage
<1> QED  BY <1>1, <1>2

-----------------------------------------------------------------------------
(* What is said. *)

\* A text is its beginning and the rest.
LEMMA CutJoins ==
  ASSUME NEW s \in Text, NEW n \in 1 .. Len(s)
  PROVE  /\ SubSeq(s, 1, n) \in Text /\ SubSeq(s, n + 1, Len(s)) \in Text
         /\ SubSeq(s, 1, n) \o SubSeq(s, n + 1, Len(s)) = s
<1> DEFINE a == SubSeq(s, 1, n)
           r == SubSeq(s, n + 1, Len(s))
<1>1. Len(s) \in Nat  BY DEF Text
<1>2. /\ n + 1 \in Int /\ Len(s) \in Int /\ 1 <= n + 1 /\ Len(s) <= Len(s)
      /\ 1 \in Int /\ n \in Int /\ 1 <= 1 /\ n <= Len(s)
  BY <1>1
<1>3. a \in Text /\ r \in Text  BY <1>2, CutFits
<1>4. a \o r = s  BY <1>1 DEF Text
<1> QED  BY <1>3, <1>4

\* What was meant.
LEMMA OfFits ==
  ASSUME MeantFits, NEW k \in Kinds
  PROVE  Of(k) \in Seq(Plain) /\ Of(k) \in Text
<1>1. Of(k) \in Seq(Plain)  BY DEF MeantFits, Of, Kinds
<1>2. Seq(Plain) \subseteq Text
  <2>1. Plain \subseteq Chars  BY DEF Plain
  <2> QED  BY <2>1, SeqMonotonic DEF Text
<1> QED  BY <1>1, <1>2

\* What the messages and the rows say is a text.
LEMMA SaidText ==
  ASSUME NEW k \in Kinds, PageInv
  PROVE  Said(msgs, k) \in Text /\ RowsWords(rows, k) \in Text
<1>1. msgs \in Seq(Messages) /\ rows \in Seq(Rows)  BY DEF PageInv, AgentFits, BrowserFits
<1>2. \A s \in Seq(Messages) : Said(s, k) \in Seq(Chars)  BY SaidIs
<1>3. \A s \in Seq(Rows) : RowsWords(s, k) \in Seq(Chars)  BY RowsWordsFit
<1>4. Said(msgs, k) \in Seq(Chars)  BY <1>1, <1>2
<1>5. RowsWords(rows, k) \in Seq(Chars)  BY <1>1, <1>3
<1>6. Said(msgs, k) \in Text  BY <1>4 DEF Text
<1>7. RowsWords(rows, k) \in Text  BY <1>5 DEF Text
<1> QED  BY <1>6, <1>7

\* What is on its way.
LEMMA UndeliveredFits ==
  ASSUME PageInv
  PROVE  /\ split.pending \in Text /\ split.inThink \in BOOLEAN /\ unsent \in Text
         /\ draft \in Text /\ inside \in BOOLEAN /\ Undelivered \in Text
<1>1. split.pending \in Text /\ split.inThink \in BOOLEAN  BY DEF PageInv, BrowserFits, Splits
<1>2. unsent \in Text /\ draft \in Text /\ inside \in BOOLEAN  BY DEF PageInv, AgentFits
<1>3. Undelivered \in Text  BY <1>1, <1>2, ConcatProperties DEF Undelivered, Text
<1> QED  BY <1>1, <1>2, <1>3

\* A step that does not change the rows' words leaves the draft's part, ...
LEMMA DraftStays ==
  ASSUME DraftTells, UNCHANGED <<draft, inside, unclosed, meant>>,
         \A k \in Kinds : RowsWords(rows', k) = RowsWords(rows, k)
  PROVE  DraftTells'
BY DEF DraftTells, Of

\* ... and one that does not change the messages' words the bubble's.
LEMMA BubbleStays ==
  ASSUME BubbleTells, UNCHANGED <<split, unsent, inside, meant, stopped, cut, unclosed>>,
         \A k \in Kinds : Said(msgs', k) = Said(msgs, k)
  PROVE  BubbleTells'
BY DEF BubbleTells, Of, Undelivered

\* At first nothing is said.
LEMMA InitText == Init => TextFits
<1> SUFFICES ASSUME Init PROVE TextFits  OBVIOUS
<1>1. /\ pc = "idle" /\ draft = <<>> /\ unsent = <<>> /\ inside = FALSE /\ rows = <<>>
      /\ msgs = <<>> /\ split = NoSplit
      /\ meant = [text |-> <<>>, reason |-> <<>>]
  BY DEF Init
<1>2. split.pending = <<>> /\ split.inThink = FALSE  BY <1>1 DEF NoSplit
<1>3. <<>> \in Seq(Plain) /\ <<>> \o <<>> = <<>>  BY EmptySeq, ConcatEmptySeq
<1>4. FALSE \in BOOLEAN  OBVIOUS
<1>5. Final(<<>>, FALSE) = FALSE /\ \A k \in Kinds : Whole(<<>>, FALSE, k) = <<>>
  BY <1>4, NothingSays
<1>6. \A k \in Kinds : RowsWords(rows, k) = <<>> /\ Said(msgs, k) = <<>>
  BY <1>1, SaidIs, RowsWordsFit
<1>7. \A k \in Kinds : Of(k) = <<>>  BY <1>1 DEF Of
<1>8. MeantFits  BY <1>1, <1>3 DEF MeantFits
<1>9. TurnShown  BY <1>1 DEF TurnShown
<1>10. DraftTells  BY <1>1, <1>3, <1>5, <1>6, <1>7 DEF DraftTells
<1>11. Undelivered = <<>>  BY <1>1, <1>2, <1>3 DEF Undelivered
<1>12. BubbleTells  BY <1>1, <1>2, <1>3, <1>5, <1>6, <1>7, <1>11 DEF BubbleTells
<1> QED  BY <1>2, <1>3, <1>8, <1>9, <1>10, <1>12 DEF TextFits

\* The answer's bubble says nothing yet.
LEMMA SendText == ASSUME PageInv, TextFits, Send PROVE TextFits'
<1> DEFINE u == NewMessage("user")
           a == NewMessage("assistant")
           r == [role |-> "user"]
           v == Append(msgs, u)
<1>1. /\ MeantFits /\ split.pending \in Seq(Plain) /\ TurnShown /\ DraftTells /\ BubbleTells
  BY DEF TextFits
<1>2. /\ stream = "none" /\ rows' = Append(rows, r)
      /\ msgs' = msgs \o <<u, a>> /\ stream' = "sent" /\ split' = NoSplit
      /\ UNCHANGED <<draft, unsent, inside, meant, stopped, cut, unclosed>>
  BY DEF Send, noted
<1>3. msgs \in Seq(Messages) /\ rows \in Seq(Rows) /\ split = NoSplit
  BY <1>2 DEF PageInv, AgentFits, BrowserFits
<1>4. u \in Messages /\ a \in Messages /\ u.events = <<>> /\ a.events = <<>>
  BY DEF NewMessage, Messages
<1>5. r \in Rows /\ r.role = "user"  BY DEF Rows, UserRows
<1> HIDE DEF u, a, r
<1>6. ASSUME NEW k \in Kinds
      PROVE  Said(msgs', k) = Said(msgs, k) /\ RowsWords(rows', k) = RowsWords(rows, k)
  <2>1. /\ WordsOf(<<>>, k) = <<>>
        /\ \A s \in Seq(Messages), e \in Messages :
             Said(Append(s, e), k) = Said(s, k) \o WordsOf(e.events, k)
        /\ \A s \in Seq(Rows), e \in Rows :
             RowsWords(Append(s, e), k) = RowsWords(s, k) \o RowWords(e, k)
    BY WordsFit, SaidIs, RowsWordsFit
  <2>2. Said(msgs, k) \in Text /\ RowsWords(rows, k) \in Text  BY SaidText
  <2>3. Said(msgs, k) \o <<>> = Said(msgs, k) /\ RowsWords(rows, k) \o <<>> = RowsWords(rows, k)
    BY <2>2, ConcatEmptySeq DEF Text
  <2>4. RowWords(r, k) = <<>>  BY <1>5 DEF RowWords
  <2>5. RowsWords(rows', k) = RowsWords(rows, k)  BY <1>2, <1>3, <1>5, <2>1, <2>3, <2>4
  <2>6. msgs' = Append(v, a) /\ v \in Seq(Messages)  BY <1>2, <1>3, <1>4, Pair, AppendFits
  <2>7. Said(v, k) = Said(msgs, k)  BY <1>3, <1>4, <2>1, <2>3
  <2> HIDE DEF v
  <2>8. Said(msgs', k) = Said(msgs, k)  BY <1>4, <2>1, <2>3, <2>6, <2>7
  <2> QED  BY <2>5, <2>8
<1>7. DraftTells'  BY <1>1, <1>2, <1>6, DraftStays
<1>8. UNCHANGED split  BY <1>2, <1>3
<1>9. BubbleTells'  BY <1>1, <1>2, <1>6, <1>8, BubbleStays
<1>10. MeantFits' /\ TurnShown'  BY <1>1, <1>2 DEF MeantFits, TurnShown
<1> QED  BY <1>1, <1>7, <1>8, <1>9, <1>10 DEF TextFits

\* What is produced is said by the draft and by what is on its way.
LEMMA ProducedTells ==
  ASSUME PageInv, TextFits, NEW x \in Text, NEW y \in [Kinds -> Text],
         draft' = draft \o x, unsent' = unsent \o x,
         \A k \in Kinds : Of(k)' = Of(k) \o y[k],
         \A s \in Text, b \in BOOLEAN : Final(s, b) = inside =>
           /\ Final(s \o x, b) = inside'
           /\ \A k \in Kinds : Whole(s \o x, b, k) = Whole(s, b, k) \o y[k],
         UNCHANGED <<rows, msgs, split, stopped, cut, unclosed>>
  PROVE  DraftTells' /\ BubbleTells'
<1>1. /\ MeantFits /\ DraftTells /\ BubbleTells  BY DEF TextFits
<1>2. /\ split.pending \in Text /\ split.inThink \in BOOLEAN /\ unsent \in Text
      /\ draft \in Text /\ Undelivered \in Text
  BY UndeliveredFits
<1>3. Undelivered' = Undelivered \o x
  <2>1. (split.pending \o unsent) \o x = split.pending \o (unsent \o x)  BY <1>2, ThreeTexts
  <2> QED  BY <2>1 DEF Undelivered
<1>4. FALSE \in BOOLEAN  OBVIOUS
<1>5. \A k \in Kinds : y[k] \in Text  OBVIOUS
<1>6. DraftTells'
  <2>1. Final(draft, FALSE) = inside  BY <1>1 DEF DraftTells
  <2>2. Final(draft', FALSE) = inside'  BY <1>2, <1>4, <2>1
  <2>3. ASSUME ~ unclosed, NEW k \in Kinds
        PROVE  RowsWords(rows, k) \o Whole(draft', FALSE, k) = Of(k)'
    <3>1. Whole(draft', FALSE, k) = Whole(draft, FALSE, k) \o y[k]  BY <1>2, <1>4, <2>1
    <3>2. RowsWords(rows, k) \o Whole(draft, FALSE, k) = Of(k)  BY <1>1, <2>3 DEF DraftTells
    <3>3. RowsWords(rows, k) \in Text /\ Whole(draft, FALSE, k) \in Text /\ y[k] \in Text
      BY <1>2, <1>4, <1>5, SaidText, SaysFits
    <3>4. (RowsWords(rows, k) \o Whole(draft, FALSE, k)) \o y[k]
            = RowsWords(rows, k) \o (Whole(draft, FALSE, k) \o y[k])
      BY <3>3, ThreeTexts
    <3> QED  BY <3>1, <3>2, <3>4
  <2> QED  BY <2>2, <2>3 DEF DraftTells
<1>7. BubbleTells'
  <2> DEFINE b == split.inThink
             w == Undelivered
  <2>0. b \in BOOLEAN /\ w \in Text  BY <1>2
  <2>1. SUFFICES ASSUME ~ (stopped \/ cut \/ unclosed)
                 PROVE  /\ Final(w \o x, b) = inside'
                        /\ \A k \in Kinds : Said(msgs, k) \o Whole(w \o x, b, k) = Of(k)'
    BY <1>3 DEF BubbleTells
  <2>2. Final(w, b) = inside /\ \A k \in Kinds : Said(msgs, k) \o Whole(w, b, k) = Of(k)
    BY <1>1, <2>1 DEF BubbleTells
  <2> HIDE DEF b, w
  <2>3. Final(w \o x, b) = inside'  BY <2>0, <2>2
  <2>4. ASSUME NEW k \in Kinds PROVE Said(msgs, k) \o Whole(w \o x, b, k) = Of(k)'
    <3>1. Whole(w \o x, b, k) = Whole(w, b, k) \o y[k]  BY <2>0, <2>2
    <3>2. Said(msgs, k) \o Whole(w, b, k) = Of(k)  BY <2>2
    <3>3. Said(msgs, k) \in Text /\ Whole(w, b, k) \in Text /\ y[k] \in Text
      BY <1>5, <2>0, SaidText, SaysFits
    <3>4. (Said(msgs, k) \o Whole(w, b, k)) \o y[k] = Said(msgs, k) \o (Whole(w, b, k) \o y[k])
      BY <3>3, ThreeTexts
    <3> QED  BY <3>1, <3>2, <3>4
  <2> QED  BY <2>3, <2>4
<1> QED  BY <1>6, <1>7

\* A letter adds to what is said where the text is; a tag to nothing.
LEMMA ProduceText ==
  ASSUME PageInv, TextFits, Produce
  PROVE  TextFits'
<1>1. MeantFits /\ split.pending \in Seq(Plain) /\ TurnShown  BY DEF TextFits
<1>2. UNCHANGED <<pc, rows, msgs, split, stream, stopped, cut, unclosed>>
  BY DEF Produce, shown
<1>3. draft \in Text /\ unsent \in Text /\ inside \in BOOLEAN  BY UndeliveredFits
<1>4. TurnShown'  BY <1>1, <1>2 DEF TurnShown
<1>5. ASSUME NEW a \in Letters, draft' = Append(draft, a), unsent' = Append(unsent, a),
             UNCHANGED inside,
             meant' = IF inside THEN [meant EXCEPT !.reason = Append(@, a)]
                      ELSE [meant EXCEPT !.text = Append(@, a)]
      PROVE  MeantFits' /\ DraftTells' /\ BubbleTells'
  <2> DEFINE x == <<a>>
             y == [k \in Kinds |-> On(inside, k, x)]
  <2>1. a \in Chars /\ a \in Plain
    <3>1. a \in {"<", "a"}  BY TranscriptAssumption
    <3>2. a \in Chars  BY DEF Chars
    <3>3. a # ">"  BY <3>1
    <3> QED  BY <3>2, <3>3 DEF Plain
  <2>2. x \in Text /\ x \in Seq(Plain)  BY <2>1 DEF Text
  <2>3. <<>> \in Text  BY DEF Text
  <2>4. y \in [Kinds -> Text]  BY <2>2, <2>3 DEF On
  <2>5. draft' = draft \o x /\ unsent' = unsent \o x
    BY <1>3, <1>5, <2>1, AppendIsConcat DEF Text
  <2>6. MeantFits'
    <3>1. /\ Append(meant.text, a) \in Seq(Plain) /\ Append(meant.reason, a) \in Seq(Plain)
      BY <1>1, <2>1 DEF MeantFits
    <3> QED  BY <1>1, <1>5, <3>1 DEF MeantFits
  <2>7. ASSUME NEW k \in Kinds PROVE Of(k)' = Of(k) \o y[k]
    <3>1. meant.text \in Seq(Plain) /\ meant.reason \in Seq(Plain)  BY <1>1 DEF MeantFits
    <3>2. \A s \in Seq(Plain) : Append(s, a) = s \o x /\ s \o <<>> = s
      BY <2>1, AppendIsConcat, ConcatEmptySeq
    <3>3. y[k] = On(inside, k, x)  OBVIOUS
    <3>4. CASE inside
      <4>1. Of(k)' = IF k = "reason" THEN Append(meant.reason, a) ELSE meant.text
        BY <1>1, <1>5, <3>4 DEF MeantFits, Of
      <4>2. y[k] = IF k = "reason" THEN x ELSE <<>>  BY <1>3, <3>3, <3>4 DEF On
      <4> HIDE DEF x, y
      <4> QED  BY <3>1, <3>2, <4>1, <4>2 DEF Of
    <3>5. CASE ~ inside
      <4>1. Of(k)' = IF k = "reason" THEN meant.reason ELSE Append(meant.text, a)
        BY <1>1, <1>5, <3>5 DEF MeantFits, Of
      <4>2. y[k] = IF k = "reason" THEN <<>> ELSE x  BY <1>3, <3>3, <3>5 DEF On
      <4> HIDE DEF x, y
      <4> QED  BY <3>1, <3>2, <4>1, <4>2 DEF Of
    <3> QED  BY <3>4, <3>5
  <2>8. ASSUME NEW s \in Text, NEW b \in BOOLEAN, Final(s, b) = inside
        PROVE  /\ Final(s \o x, b) = inside'
               /\ \A k \in Kinds : Whole(s \o x, b, k) = Whole(s, b, k) \o y[k]
    <3>1. /\ Final(s \o x, b) = Final(s, b)
          /\ \A k \in Kinds : Whole(s \o x, b, k) = Whole(s, b, k) \o On(Final(s, b), k, x)
      BY <2>2, PlainGoesOn
    <3> QED  BY <1>5, <2>8, <3>1
  <2> HIDE DEF x, y
  <2>9. DraftTells' /\ BubbleTells'
    BY <1>2, <2>2, <2>4, <2>5, <2>7, <2>8, ProducedTells
  <2> QED  BY <2>6, <2>9
<1>6. ASSUME draft' = draft \o Tag(inside), unsent' = unsent \o Tag(inside),
             inside' = ~ inside, UNCHANGED meant
      PROVE  MeantFits' /\ DraftTells' /\ BubbleTells'
  <2> DEFINE x == Tag(inside)
             y == [k \in Kinds |-> <<>>]
  <2>1. x \in Text  BY <1>3, TagFits
  <2>2. y \in [Kinds -> Text]
    <3>1. <<>> \in Text  BY DEF Text
    <3> QED  BY <3>1
  <2>3. MeantFits'  BY <1>1, <1>6 DEF MeantFits
  <2>4. ASSUME NEW k \in Kinds PROVE Of(k)' = Of(k) \o y[k]
    <3>1. Of(k) \in Text  BY <1>1, OfFits
    <3>2. Of(k) \o <<>> = Of(k)  BY <3>1, ConcatEmptySeq DEF Text
    <3>3. Of(k)' = Of(k)  BY <1>6 DEF Of
    <3> QED  BY <3>2, <3>3
  <2>5. ASSUME NEW s \in Text, NEW b \in BOOLEAN, Final(s, b) = inside
        PROVE  /\ Final(s \o x, b) = inside'
               /\ \A k \in Kinds : Whole(s \o x, b, k) = Whole(s, b, k) \o y[k]
    <3>1. /\ Final(s \o x, b) = ~ Final(s, b)
          /\ \A k \in Kinds : Whole(s \o x, b, k) = Whole(s, b, k)
      <4>1. /\ Final(s \o Tag(Final(s, b)), b) = ~ Final(s, b)
            /\ \A k \in Kinds : Whole(s \o Tag(Final(s, b)), b, k) = Whole(s, b, k)
        BY TagGoesOn
      <4> QED  BY <2>5, <4>1
    <3>2. ASSUME NEW k \in Kinds PROVE Whole(s, b, k) \o <<>> = Whole(s, b, k)
      <4>1. Whole(s, b, k) \in Text  BY SaysFits
      <4> QED  BY <4>1, ConcatEmptySeq DEF Text
    <3> QED  BY <1>6, <2>5, <3>1, <3>2
  <2>6. draft' = draft \o x /\ unsent' = unsent \o x  BY <1>6
  <2> HIDE DEF x, y
  <2>7. DraftTells' /\ BubbleTells'
    BY <1>2, <2>1, <2>2, <2>4, <2>5, <2>6, ProducedTells
  <2> QED  BY <2>3, <2>7
<1>7. \/ \E a \in Letters :
           /\ draft' = Append(draft, a) /\ unsent' = Append(unsent, a) /\ UNCHANGED inside
           /\ meant' = IF inside THEN [meant EXCEPT !.reason = Append(@, a)]
                       ELSE [meant EXCEPT !.text = Append(@, a)]
      \/ /\ draft' = draft \o Tag(inside) /\ unsent' = unsent \o Tag(inside)
         /\ inside' = ~ inside /\ UNCHANGED meant
  BY DEF Produce, Tag
<1>8. MeantFits' /\ DraftTells' /\ BubbleTells'  BY <1>5, <1>6, <1>7
<1> QED  BY <1>1, <1>2, <1>4, <1>8 DEF TextFits

\* A delta that is split is shown as far as it goes, and the rest is kept.
LEMMA DeltaText == ASSUME PageInv, TextFits, Delta PROVE TextFits'
<1>1. /\ MeantFits /\ split.pending \in Seq(Plain) /\ TurnShown /\ DraftTells /\ BubbleTells
  BY DEF TextFits
<1>2. /\ pc = "text" /\ unsent # <<>>
      /\ UNCHANGED <<pc, draft, inside, rows, stream, meant, stopped, cut, unclosed>>
  BY DEF Delta, noted
<1>3. PICK n \in 1 .. Len(unsent) :
        /\ unsent' = SubSeq(unsent, n + 1, Len(unsent))
        /\ IF stream = "none" THEN UNCHANGED <<msgs, split>>
           ELSE LET out == SplitTextDelta(split, SubSeq(unsent, 1, n))
                IN  Patch(ApplyText(Bubble, out)) /\ split' = out.next
  BY DEF Delta
<1>4. MeantFits' /\ TurnShown'  BY <1>1, <1>2 DEF MeantFits, TurnShown
<1>5. DraftTells'  BY <1>1, <1>2, DraftStays
<1>6. CASE stream = "none"
  <2>1. stopped /\ stopped'  BY <1>1, <1>2, <1>6 DEF TurnShown
  <2>2. BubbleTells'  BY <2>1 DEF BubbleTells
  <2>3. split' = split  BY <1>3, <1>6
  <2> QED  BY <1>1, <1>4, <1>5, <2>2, <2>3 DEF TextFits
<1>7. CASE stream # "none"
  <2> DEFINE a == SubSeq(unsent, 1, n)
             b == split.inThink
             s == split.pending \o a
             x == SplitRest[s][b]
             z == x.next
             out == SplitTextDelta(split, a)
             fs == ApplyText(Bubble, out)
  <2>1. /\ split.pending \in Text /\ b \in BOOLEAN /\ unsent \in Text  BY UndeliveredFits
  <2>2. a \in Text /\ unsent' \in Text /\ a \o unsent' = unsent  BY <1>3, <2>1, CutJoins
  <2>3. Patch(fs) /\ split' = out.next  BY <1>3, <1>7
  <2>4. out = [x EXCEPT !.text = Strip(@), !.reason = Strip(@)]  BY DEF SplitTextDelta
  <2> HIDE DEF a, out
  <2>5. s \in Text  BY <2>1, <2>2, ConcatProperties DEF Text
  <2>6. s \o unsent' = Undelivered
    <3>1. s \o unsent' = split.pending \o (a \o unsent')  BY ZenonT(40), <2>1, <2>2, ThreeTexts
    <3> QED  BY <2>2, <3>1 DEF Undelivered
  <2> HIDE DEF s
  <2>7. /\ z.pending \in Seq(Plain) /\ z.pending \in Text /\ z.inThink \in BOOLEAN
        /\ \A k \in Kinds : Part(x, k) \in Text
    BY <2>1, <2>5, KeptFacts
  <2>8. GoesOn(s, unsent', b)  BY <2>1, <2>2, <2>5, SplitGoesOn
  <2>9. x \in Outs  BY <2>1, <2>5, SplitFits
  <2>10. /\ Final(Undelivered, b) = Final(z.pending \o unsent', z.inThink)
         /\ \A k \in Kinds :
              Whole(Undelivered, b, k) = Part(x, k) \o Whole(z.pending \o unsent', z.inThink, k)
    BY <2>6, <2>8 DEF GoesOn
  <2> HIDE DEF x
  <2>11. out.text = Strip(x.text) /\ out.reason = Strip(x.reason) /\ out.next = z
    BY <2>4, <2>9 DEF Outs
  <2>12. \A k \in Kinds : Part(out, k) = Strip(Part(x, k))  BY <2>11 DEF Part
  <2> HIDE DEF z, fs
  <2>13. split' = z  BY <2>3, <2>11
  <2>14. /\ msgs \in Seq(Messages) /\ msgs # <<>> /\ Bubble = Last(msgs).events
         /\ Bubble \in Seq(Events)
    BY <1>7, BubbleIs DEF PageInv
  <2>15. /\ fs \in Seq(Events)
         /\ \A k \in Kinds : WordsOf(fs, k) = WordsOf(Bubble, k) \o Part(out, k)
    <3>1. x.text \in Text /\ x.reason \in Text  BY <2>9 DEF Outs
    <3>2. out.text \in Text /\ out.reason \in Text  BY <2>11, <3>1, StripFits
    <3> QED  BY <2>14, <3>2, ApplyTextTells DEF fs
  <2>16. msgs' = Renewed(msgs, fs)  BY <1>7, <2>3, <2>15, PatchIs DEF PageInv
  <2>17. ASSUME ~ (stopped \/ cut \/ unclosed), NEW k \in Kinds
         PROVE  Said(msgs', k) \o Whole(z.pending \o unsent', z.inThink, k) = Of(k)
    <3> DEFINE m == Said(msgs, k)
               p == Part(x, k)
               w == Whole(z.pending \o unsent', z.inThink, k)
    <3>1. m \o (p \o w) = Of(k)  BY <1>1, <2>10, <2>17 DEF BubbleTells
    <3>2. z.pending \o unsent' \in Text  BY <2>2, <2>7, ConcatProperties DEF Text
    <3>3. m \in Text /\ p \in Text /\ w \in Text  BY <2>7, <3>2, SaidText, SaysFits
    <3>4. p \o w \in Text  BY <3>3, ConcatProperties DEF Text
    <3>5. m \o (p \o w) \in Seq(Plain)  BY <1>1, <3>1, OfFits
    <3>6. p \in Seq(Plain)
      <4> HIDE DEF m, p, w
      <4>1. p \o w \in Seq(Plain)  BY <3>3, <3>4, <3>5, PlainParts
      <4> QED  BY <3>3, <4>1, PlainParts
    <3>7. Part(out, k) = p  BY <2>12, <3>6, StripFits
    <3>8. WordsOf(fs, k) = WordsOf(Last(msgs).events, k) \o p  BY <2>14, <2>15, <3>7
    <3> HIDE DEF p, w
    <3>9. Said(msgs', k) = m \o p  BY <2>14, <2>15, <2>16, <3>3, <3>8, RenewedSays
    <3> HIDE DEF m
    <3>10. (m \o p) \o w = m \o (p \o w)  BY <3>3, ThreeTexts
    <3>11. Said(msgs', k) \o w = Of(k)  BY <3>1, <3>9, <3>10
    <3> QED  BY <3>11 DEF w
  <2>18. BubbleTells'
    <3>1. Undelivered' = z.pending \o unsent'  BY <2>13 DEF Undelivered
    <3>2. ASSUME ~ (stopped \/ cut \/ unclosed)
          PROVE  Final(z.pending \o unsent', z.inThink) = inside
      BY <1>1, <2>10, <3>2 DEF BubbleTells
    <3>3. \A k \in Kinds : Of(k)' = Of(k)  BY <1>2 DEF Of
    <3> QED  BY <1>2, <2>13, <2>17, <3>1, <3>2, <3>3 DEF BubbleTells
  <2> QED  BY <1>4, <1>5, <2>7, <2>13, <2>18 DEF TextFits
<1> QED  BY <1>6, <1>7

\* The row says what the draft did, unless the draft ends inside a tag.
LEMMA StoreRowText ==
  ASSUME PageInv, TextFits, StoreRow
  PROVE  TextFits'
<1>1. /\ MeantFits /\ split.pending \in Seq(Plain) /\ TurnShown /\ DraftTells /\ BubbleTells
  BY DEF TextFits
<1> DEFINE r == StoredRow
<1>2. /\ pc = "text" /\ unsent = <<>> /\ draft \in Text
      /\ r \in Rows /\ r.text = draft /\ r.role = "assistant"
      /\ rows \in Seq(Rows) /\ rows' = Append(rows, r)
      /\ draft' = <<>> /\ unsent' = <<>> /\ inside' = FALSE
      /\ unclosed' = (unclosed \/ inside)
      /\ UNCHANGED <<msgs, split, stream, meant, stopped, cut>>
  BY StoreRowIs DEF PageInv
<1> HIDE DEF r
<1>3. inside \in BOOLEAN  BY UndeliveredFits
<1>4. MeantFits'  BY <1>1, <1>2 DEF MeantFits
<1>5. TurnShown'  BY <1>1, <1>2 DEF TurnShown
<1>6. FALSE \in BOOLEAN  OBVIOUS
<1>7. ~ unclosed' => ~ unclosed /\ inside = FALSE  BY <1>2, <1>3
<1>8. DraftTells'
  <2>1. Final(<<>>, FALSE) = FALSE /\ \A k \in Kinds : Whole(<<>>, FALSE, k) = <<>>
    BY <1>6, NothingSays
  <2>2. ASSUME ~ unclosed', NEW k \in Kinds PROVE RowsWords(rows', k) = Of(k)
    <3>1. \A j \in Kinds : RowsWords(rows, j) \o Whole(draft, FALSE, j) = Of(j)
      BY <1>1, <1>7, <2>2 DEF DraftTells
    <3>2. Plainspoken(draft)
      <4>1. ASSUME NEW j \in Kinds PROVE Whole(draft, FALSE, j) \in Seq(Plain)
        <5>1. RowsWords(rows, j) \in Text /\ Whole(draft, FALSE, j) \in Text
          BY <1>2, <1>6, SaidText, SaysFits
        <5>2. RowsWords(rows, j) \o Whole(draft, FALSE, j) \in Seq(Plain)
          BY <1>1, <3>1, OfFits
        <5> QED  BY <5>1, <5>2, PlainParts
      <4> QED  BY <4>1 DEF Plainspoken
    <3>3. Tells(draft)  BY <1>2, ContentTells
    <3>4. RowWords(r, k) = Whole(draft, FALSE, k)  BY <1>2, <3>2, <3>3 DEF Tells, RowWords
    <3>5. RowsWords(rows', k) = RowsWords(rows, k) \o RowWords(r, k)  BY <1>2, RowsWordsFit
    <3> QED  BY <3>1, <3>4, <3>5
  <2>3. ASSUME NEW k \in Kinds PROVE Of(k) \o <<>> = Of(k) /\ Of(k)' = Of(k)
    <3>1. Of(k) \in Text  BY <1>1, OfFits
    <3> QED  BY <1>2, <3>1, ConcatEmptySeq DEF Text, Of
  <2>4. Final(draft', FALSE) = inside' /\ \A k \in Kinds : Whole(draft', FALSE, k) = <<>>
    BY <1>2, <2>1
  <2>5. ASSUME ~ unclosed', NEW k \in Kinds
        PROVE  RowsWords(rows', k) \o Whole(draft', FALSE, k) = Of(k)'
    BY <2>2, <2>3, <2>4, <2>5
  <2> QED  BY <2>4, <2>5 DEF DraftTells
<1>9. BubbleTells'
  <2>1. CASE stopped \/ cut \/ unclosed'  BY <1>2, <2>1 DEF BubbleTells
  <2>2. CASE ~ (stopped \/ cut \/ unclosed')
    <3>1. inside' = inside  BY <1>2, <1>7, <2>2
    <3>2. ~ (stopped \/ cut \/ unclosed)  BY <1>7, <2>2
    <3>3. Undelivered' = Undelivered  BY <1>2 DEF Undelivered
    <3>4. \A k \in Kinds : Of(k)' = Of(k)  BY <1>2 DEF Of
    <3> QED  BY <1>1, <1>2, <3>1, <3>2, <3>3, <3>4 DEF BubbleTells
  <2> QED  BY <2>1, <2>2
<1> QED  BY <1>1, <1>2, <1>4, <1>5, <1>8, <1>9 DEF TextFits

\* A step that says nothing.
LEMMA WordlessStep ==
  ASSUME TextFits, TurnShown',
         UNCHANGED <<draft, unsent, inside, meant, split, stopped, cut, unclosed>>,
         \A k \in Kinds : Said(msgs', k) = Said(msgs, k),
         \A k \in Kinds : RowsWords(rows', k) = RowsWords(rows, k)
  PROVE  TextFits'
<1>1. /\ MeantFits /\ split.pending \in Seq(Plain) /\ DraftTells /\ BubbleTells
  BY DEF TextFits
<1>2. DraftTells'  BY <1>1, DraftStays
<1>3. BubbleTells'  BY <1>1, BubbleStays
<1> QED  BY <1>1, <1>2, <1>3 DEF TextFits, MeantFits

\* A call that is shown says nothing, ...
LEMMA AnnounceText == ASSUME PageInv, TextFits, Announce PROVE TextFits'
<1> DEFINE c == calls[announced + 1]
<1>1. /\ c \in Calls
      /\ (stream = "none" \/ Resumed) => UNCHANGED <<msgs, terminal>>
      /\ ~ (stream = "none" \/ Resumed) =>
           /\ Patch(ApplyCall(Bubble, c))
           /\ terminal' = IF c.tool = "bash" /\ ~ Contains(terminal, c.id)
                          THEN Append(terminal, c.id) ELSE terminal
      /\ UNCHANGED <<pc, draft, unsent, inside, rows, calls, finished, split, stream,
                     spent, noted>>
  BY AnnounceIs DEF PageInv
<1> HIDE DEF c
<1>2. UNCHANGED <<meant, stopped, cut, unclosed>>  BY <1>1 DEF noted
<1>3. TurnShown'  BY <1>1, <1>2 DEF TextFits, TurnShown
<1>4. \A k \in Kinds : Said(msgs', k) = Said(msgs, k)
  <2>1. CASE stream = "none" \/ Resumed  BY <1>1, <2>1
  <2>2. CASE ~ (stream = "none" \/ Resumed)
    <3> DEFINE fs == ApplyCall(Bubble, c)
    <3>1. /\ msgs \in Seq(Messages) /\ msgs # <<>> /\ Bubble = Last(msgs).events
          /\ Bubble \in Seq(Events)
      BY <2>2, BubbleIs DEF PageInv
    <3>2. fs \in Seq(Events) /\ \A k \in Kinds : WordsOf(fs, k) = WordsOf(Bubble, k)
      BY <1>1, <3>1, ApplyCallTells
    <3>3. Patch(fs)  BY <1>1, <2>2
    <3> HIDE DEF fs
    <3>4. msgs' = Renewed(msgs, fs)  BY <2>2, <3>2, <3>3, PatchIs DEF PageInv
    <3> QED  BY <3>1, <3>2, <3>4, RenewedSame
  <2> QED  BY <2>1, <2>2
<1> QED  BY <1>1, <1>2, <1>3, <1>4, WordlessStep

\* ... nor does its result.
LEMMA FinishText == ASSUME PageInv, TextFits, Finish PROVE TextFits'
<1>1. PICK c \in Calls :
        /\ ResultRow(c) \in Rows /\ rows \in Seq(Rows) /\ rows' = Append(rows, ResultRow(c))
        /\ UNCHANGED msgs \/ (stream # "none" /\ Patch(ApplyResult(Bubble, c)))
        /\ UNCHANGED <<pc, draft, unsent, inside, calls, announced, split, stream, terminal,
                       spent, noted>>
  BY FinishIs DEF PageInv
<1>2. UNCHANGED <<meant, stopped, cut, unclosed>>  BY <1>1 DEF noted
<1>3. TurnShown'  BY <1>1, <1>2 DEF TextFits, TurnShown
<1>4. \A k \in Kinds : Said(msgs', k) = Said(msgs, k)
  <2>1. CASE UNCHANGED msgs  BY <2>1
  <2>2. CASE stream # "none" /\ Patch(ApplyResult(Bubble, c))
    <3> DEFINE fs == ApplyResult(Bubble, c)
    <3>1. /\ msgs \in Seq(Messages) /\ msgs # <<>> /\ Bubble = Last(msgs).events
          /\ Bubble \in Seq(Events)
      BY <2>2, BubbleIs DEF PageInv
    <3>2. fs \in Seq(Events) /\ \A k \in Kinds : WordsOf(fs, k) = WordsOf(Bubble, k)
      BY <3>1, ApplyResultTells
    <3>3. Patch(fs)  BY <2>2
    <3> HIDE DEF fs
    <3>4. msgs' = Renewed(msgs, fs)  BY <2>2, <3>2, <3>3, PatchIs DEF PageInv
    <3> QED  BY <3>1, <3>2, <3>4, RenewedSame
  <2> QED  BY <1>1, <2>1, <2>2
<1>5. ASSUME NEW k \in Kinds PROVE RowsWords(rows', k) = RowsWords(rows, k)
  <2>1. RowWords(ResultRow(c), k) = <<>>  BY DEF RowWords, ResultRow
  <2>2. RowsWords(rows', k) = RowsWords(rows, k) \o RowWords(ResultRow(c), k)
    BY <1>1, RowsWordsFit
  <2>3. RowsWords(rows, k) \in Text  BY SaidText
  <2> QED  BY <2>1, <2>2, <2>3, ConcatEmptySeq DEF Text
<1> QED  BY <1>1, <1>2, <1>3, <1>4, <1>5, WordlessStep

\* Between rounds nothing is said.
LEMMA NextRoundText == ASSUME PageInv, TextFits, NextRound PROVE TextFits'
<1>1. /\ pc = "calls"
      /\ UNCHANGED <<draft, unsent, inside, rows, msgs, split, stream, meant, stopped, cut,
                     unclosed>>
  BY DEF NextRound, shown, noted
<1>2. TurnShown'  BY <1>1 DEF TextFits, TurnShown
<1> QED  BY <1>1, <1>2, WordlessStep

\* The turn is over.
LEMMA TurnEndsText == ASSUME PageInv, TextFits, TurnEnds PROVE TextFits'
<1>1. /\ pc' = "idle"
      /\ UNCHANGED <<draft, unsent, inside, rows, msgs, split, stream, meant, stopped, cut,
                     unclosed>>
  BY DEF TurnEnds, shown, noted
<1>2. TurnShown'  BY <1>1 DEF TurnShown
<1> QED  BY <1>1, <1>2, WordlessStep

\* What is kept is shown when the stream ends, or dropped.
LEMMA StreamEndsText == ASSUME PageInv, TextFits, StreamEnds PROVE TextFits'
<1>1. /\ MeantFits /\ split.pending \in Seq(Plain) /\ DraftTells /\ BubbleTells
  BY DEF TextFits
<1>2. /\ pc = "ended" /\ stream # "none"
      /\ UNCHANGED <<pc, draft, unsent, inside, rows, meant, stopped, unclosed>>
  BY DEF StreamEnds, server
<1>3. PICK flush \in BOOLEAN : Ends(flush)  BY DEF StreamEnds
<1> DEFINE es == IF flush THEN Flushed(Bubble, split) ELSE Bubble
           fs == Reconciled(es)
<1>4. /\ stream' = "none" /\ split' = NoSplit /\ Patch(fs)
      /\ cut' = (cut \/ (~ flush /\ split.pending # <<>>))
  BY <1>3 DEF Ends
<1>5. unsent = <<>> /\ draft = <<>> /\ inside = FALSE  BY <1>2 DEF PageInv, AgentFits
<1>6. MeantFits' /\ TurnShown'  BY <1>1, <1>2 DEF MeantFits, TurnShown
<1>7. DraftTells'  BY <1>1, <1>2, DraftStays
<1>8. split'.pending = <<>> /\ split'.inThink = FALSE /\ Undelivered' = <<>>
  <2>1. <<>> \o <<>> = <<>>  BY EmptySeq, ConcatEmptySeq
  <2> QED  BY <1>2, <1>4, <1>5, <2>1 DEF NoSplit, Undelivered
<1>9. <<>> \in Seq(Plain)  BY EmptySeq
<1>10. split \in Splits /\ split.pending \in Text /\ split.inThink \in BOOLEAN
  BY UndeliveredFits DEF PageInv, BrowserFits
<1>11. /\ msgs \in Seq(Messages) /\ msgs # <<>> /\ Bubble = Last(msgs).events
       /\ Bubble \in Seq(Events)
  BY <1>2, BubbleIs DEF PageInv
<1>12. /\ es \in Seq(Events)
       /\ flush => \A k \in Kinds : WordsOf(es, k) = WordsOf(Bubble, k) \o Held(split, k)
       /\ ~ flush => es = Bubble
  BY <1>10, <1>11, FlushedTells
<1> HIDE DEF es
<1>13. fs \in Seq(Events) /\ \A k \in Kinds : WordsOf(fs, k) = WordsOf(es, k)
  <2>1. fs \in Seq(Events) /\ Alike(fs, es)  BY <1>12, ReconciledTells
  <2> HIDE DEF fs
  <2> QED  BY <1>12, <2>1, AlikeTells
<1> HIDE DEF fs
<1>14. msgs' = Renewed(msgs, fs)  BY <1>2, <1>4, <1>13, PatchIs DEF PageInv
<1>15. ASSUME ~ (stopped \/ cut' \/ unclosed), NEW k \in Kinds PROVE Said(msgs', k) = Of(k)
  <2>1. ~ (stopped \/ cut \/ unclosed) /\ (flush \/ split.pending = <<>>)  BY <1>4, <1>15
  <2>2. Undelivered = split.pending  BY <1>5, <1>10, ConcatEmptySeq DEF Undelivered, Text
  <2>3. Whole(Undelivered, split.inThink, k) = Held(split, k)
    <3>1. Whole(split.pending, split.inThink, k) = On(split.inThink, k, split.pending)
      BY <1>1, <1>10, PlainSays
    <3> QED  BY <2>2, <3>1 DEF Held
  <2>4. Said(msgs, k) \o Held(split, k) = Of(k)  BY <1>1, <2>1, <2>3 DEF BubbleTells
  <2>5. Held(split, k) \in Text
    <3>1. <<>> \in Text  BY DEF Text
    <3> QED  BY <1>10, <3>1 DEF Held, On
  <2>6. CASE flush
    <3>1. WordsOf(fs, k) = WordsOf(Last(msgs).events, k) \o Held(split, k)
      BY <1>11, <1>12, <1>13, <2>6
    <3>2. Said(Renewed(msgs, fs), k) = Said(msgs, k) \o Held(split, k)
      BY <1>11, <1>13, <2>5, <3>1, RenewedSays
    <3> QED  BY <1>14, <2>4, <3>2
  <2>7. CASE ~ flush
    <3>1. Held(split, k) = <<>>  BY <2>1, <2>7 DEF Held, On
    <3>2. Said(msgs, k) = Of(k)
      <4>1. Said(msgs, k) \in Text  BY SaidText
      <4> QED  BY <2>4, <3>1, <4>1, ConcatEmptySeq DEF Text
    <3>3. WordsOf(fs, k) = WordsOf(Last(msgs).events, k)  BY <1>11, <1>12, <1>13, <2>7
    <3>4. Said(Renewed(msgs, fs), k) = Said(msgs, k)  BY <1>11, <1>13, <3>3, RenewedSame
    <3> QED  BY <1>14, <3>2, <3>4
  <2> QED  BY <2>6, <2>7
<1>16. BubbleTells'
  <2>0. FALSE \in BOOLEAN  OBVIOUS
  <2>1. Final(<<>>, FALSE) = FALSE /\ \A k \in Kinds : Whole(<<>>, FALSE, k) = <<>>
    BY <2>0, NothingSays
  <2>2. ASSUME NEW k \in Kinds PROVE Of(k) \o <<>> = Of(k) /\ Of(k)' = Of(k)
    <3>1. Of(k) \in Text  BY <1>1, OfFits
    <3> QED  BY <1>2, <3>1, ConcatEmptySeq DEF Text, Of
  <2>3. /\ Final(Undelivered', split'.inThink) = inside'
        /\ \A k \in Kinds : Whole(Undelivered', split'.inThink, k) = <<>>
    BY <1>2, <1>5, <1>8, <2>1
  <2>4. ASSUME ~ (stopped \/ cut' \/ unclosed), NEW k \in Kinds
        PROVE  Said(msgs', k) \o Whole(Undelivered', split'.inThink, k) = Of(k)'
    BY <1>15, <2>2, <2>3, <2>4
  <2> QED  BY <1>2, <2>3, <2>4 DEF BubbleTells
<1> QED  BY <1>6, <1>7, <1>8, <1>9, <1>16 DEF TextFits

\* Once the browser has stopped a stream nothing is said of what it shows.
LEMMA StopText == ASSUME PageInv, TextFits, Stop PROVE TextFits'
<1>1. MeantFits /\ DraftTells  BY DEF TextFits
<1>2. /\ stopped' = TRUE /\ UNCHANGED <<draft, inside, rows, meant, unclosed>>
  BY DEF Stop, server
<1>3. split' = NoSplit  BY DEF Stop, Ends
<1>4. <<>> \in Seq(Plain)  BY EmptySeq
<1>5. MeantFits' /\ TurnShown' /\ BubbleTells'
  BY <1>1, <1>2 DEF MeantFits, TurnShown, BubbleTells
<1>6. DraftTells'  BY <1>1, <1>2, DraftStays
<1> QED  BY <1>3, <1>4, <1>5, <1>6 DEF TextFits, NoSplit

\* The rows say what was stored, and the draft is sent again.
LEMMA ReloadText == ASSUME PageInv, TextFits, Reload PROVE TextFits'
<1>1. MeantFits /\ DraftTells  BY DEF TextFits
<1> DEFINE ms == Rebuilt
           b == Bubbly(<<>>)
<1>2. /\ Retells(ms, rows) /\ ms \in Seq(Messages)
      /\ \/ pc = "idle" /\ msgs' = ms /\ stream' = "none"
         \/ /\ pc # "idle" /\ msgs' = Append(ms, b)
            /\ stream' = "resumed"
      /\ split' = NoSplit /\ unsent' = draft
      /\ UNCHANGED <<pc, draft, inside, rows, meant, unclosed>>
  BY ReloadIs DEF PageInv
<1> HIDE DEF ms
<1>3. draft \in Text  BY UndeliveredFits
<1>4. b \in Messages /\ b.events = <<>>
  <2>1. <<>> \in Seq(Events)  BY EmptySeq
  <2> QED  BY <2>1, BubblyFits
<1> HIDE DEF b
<1>5. ASSUME NEW k \in Kinds PROVE Said(msgs', k) = RowsWords(rows, k)
  <2>1. Said(ms, k) = RowsWords(rows, k)  BY <1>2 DEF Retells
  <2>2. Said(Append(ms, b), k) = Said(ms, k) \o WordsOf(<<>>, k)  BY <1>2, <1>4, SaidIs
  <2>3. WordsOf(<<>>, k) = <<>>  BY WordsFit
  <2>4. RowsWords(rows, k) \in Text  BY SaidText
  <2>5. RowsWords(rows, k) \o <<>> = RowsWords(rows, k)  BY <2>4, ConcatEmptySeq DEF Text
  <2> QED  BY <1>2, <2>1, <2>2, <2>3, <2>5
<1>6. split'.pending = <<>> /\ split'.inThink = FALSE  BY <1>2 DEF NoSplit
<1>7. Undelivered' = draft  BY <1>2, <1>3, <1>6, ConcatEmptySeq DEF Undelivered, Text
<1>8. DraftTells'  BY <1>1, <1>2, DraftStays
<1>9. TurnShown'  BY <1>2 DEF TurnShown
<1>10. BubbleTells'
  <2>1. Final(draft, FALSE) = inside  BY <1>1 DEF DraftTells
  <2>2. ASSUME ~ unclosed, NEW k \in Kinds
        PROVE  Said(msgs', k) \o Whole(draft, FALSE, k) = Of(k)
    BY <1>1, <1>5, <2>2 DEF DraftTells
  <2>3. \A k \in Kinds : Of(k)' = Of(k)  BY <1>2 DEF Of
  <2> QED  BY <1>2, <1>6, <1>7, <2>1, <2>2, <2>3 DEF BubbleTells
<1>11. MeantFits' /\ <<>> \in Seq(Plain)  BY <1>1, <1>2, EmptySeq DEF MeantFits
<1> QED  BY <1>6, <1>8, <1>9, <1>10, <1>11 DEF TextFits

\* Every step keeps what is said.
LEMMA NextText ==
  ASSUME PageInv, TextFits, [Next]_vars
  PROVE  TextFits'
<1>1. CASE Next
  BY <1>1, SendText, ProduceText, DeltaText, StoreRowText, AnnounceText, FinishText,
     NextRoundText, StreamEndsText, TurnEndsText, StopText, ReloadText DEF Next
<1>2. CASE UNCHANGED vars
  <2>1. /\ UNCHANGED <<pc, stream, rows, msgs>>
        /\ UNCHANGED <<draft, unsent, inside, meant, split, stopped, cut, unclosed>>
    BY <1>2 DEF vars, server, shown, noted
  <2>2. TurnShown'  BY <2>1 DEF TextFits, TurnShown
  <2> QED  BY <2>1, <2>2, WordlessStep
<1> QED  BY <1>1, <1>2

\* When all is delivered the bubbles say what was meant.
LEMMA TextFitsIsWhole == ASSUME PageInv, TextFits PROVE TextIsWhole
<1>1. SUFFICES ASSUME unsent = <<>>, ~ (stopped \/ cut \/ unclosed)
               PROVE  /\ Said(msgs, "text")
                           \o (IF split.inThink = FALSE THEN split.pending ELSE <<>>) = meant.text
                      /\ Said(msgs, "reason")
                           \o (IF split.inThink = TRUE THEN split.pending ELSE <<>>)
                         = meant.reason
  BY DEF TextIsWhole
<1>2. split.pending \in Text /\ split.inThink \in BOOLEAN  BY UndeliveredFits
<1>3. split.pending \in Seq(Plain) /\ BubbleTells  BY DEF TextFits
<1>4. Undelivered = split.pending  BY <1>1, <1>2, ConcatEmptySeq DEF Undelivered, Text
<1>5. \A k \in Kinds : Said(msgs, k) \o On(split.inThink, k, split.pending) = Of(k)
  <2>1. \A k \in Kinds : Whole(split.pending, split.inThink, k)
                           = On(split.inThink, k, split.pending)
    BY <1>2, <1>3, PlainSays
  <2> QED  BY <1>1, <1>3, <1>4, <2>1 DEF BubbleTells
<1>6. "text" \in Kinds /\ "reason" \in Kinds  BY DEF Kinds
<1>7. /\ Said(msgs, "text") \o On(split.inThink, "text", split.pending) = meant.text
      /\ Said(msgs, "reason") \o On(split.inThink, "reason", split.pending) = meant.reason
  BY <1>5, <1>6 DEF Of
<1>8. /\ On(split.inThink, "text", split.pending)
           = IF split.inThink = FALSE THEN split.pending ELSE <<>>
      /\ On(split.inThink, "reason", split.pending)
           = IF split.inThink = TRUE THEN split.pending ELSE <<>>
  BY <1>2 DEF On
<1> QED  BY <1>7, <1>8

-----------------------------------------------------------------------------
(* The theorems. *)

\* The types, and what is shown as running, hold in every state.
LEMMA PageInvariance == Spec => []PageInv
<1>1. Init => PageInv  BY InitPage
<1>2. PageInv /\ [Next]_vars => PageInv'  BY NextPage
<1> QED  BY <1>1, <1>2, PTL DEF Spec

\* Every variable keeps its type, and a stream has a bubble to write to.
THEOREM TranscriptTyped == Spec => []TypeOK
<1>1. PageInv => TypeOK
  <2> SUFFICES ASSUME PageInv PROVE TypeOK  OBVIOUS
  <2>1. msgs \in Seq(Messages)  BY DEF PageInv, BrowserFits
  <2>2. ASSUME NEW i \in DOMAIN msgs, NEW n \in DOMAIN msgs[i].events
        PROVE  msgs[i].events[n].kind \in {"text", "reason", "tool"}
    <3>1. msgs[i] \in Messages  BY <2>1
    <3>2. msgs[i].events \in Seq(Events)  BY <3>1, MessageFits
    <3>3. msgs[i].events[n] \in Events  BY <3>2
    <3> QED  BY <3>3, EventFields
  <2>3. stream # "none" => msgs # <<>> /\ Last(msgs).role = "assistant"
    BY DEF PageInv, BrowserFits
  <2> QED  BY <2>2, <2>3 DEF PageInv, AgentFits, BrowserFits, TypeOK
<1> QED  BY <1>1, PageInvariance, PTL

\* Once no stream is under way no call is shown as running, but one that was loaded
\* before its result.
THEOREM TranscriptSettles == Spec => []NothingSpins
<1>1. PageInv => NothingSpins  BY DEF PageInv, SpinsShown, Spins, NothingSpins
<1> QED  BY <1>1, PageInvariance, PTL

\* However the deltas are cut, what is shown is what was meant.
THEOREM TranscriptIsWhole == Spec => []TextIsWhole
<1>1. Init => TextFits  BY InitText
<1>2. PageInv /\ TextFits /\ [Next]_vars => TextFits'  BY NextText
<1>3. PageInv /\ TextFits => TextIsWhole  BY TextFitsIsWhole
<1>4. Spec => []PageInv  BY PageInvariance
<1> QED  BY <1>1, <1>2, <1>3, <1>4, PTL DEF Spec

-----------------------------------------------------------------------------
(* Which calls are shown. *)

\* A list's calls have the numbers of its members.
LEMMA IdsWithin ==
  ASSUME NEW S, NEW cs \in Seq(Calls), NEW b \in BOOLEAN, \A j \in DOMAIN cs : cs[j].id \in S
  PROVE  IdsOf(cs, b) \in Seq(S)
<1> DEFINE C == {c \in Calls : c.id \in S}
           f == [c \in C |-> IdOf(c, b)]
<1>1. \A c \in C : IdOf(c, b) \in Seq(S)
  <2>1. <<>> \in Seq(S) /\ \A x \in S : <<x>> \in Seq(S)  OBVIOUS
  <2> QED  BY <2>1 DEF IdOf
<1>2. f \in [C -> Seq(S)] /\ \A c \in C : f[c] = IdOf(c, b)  BY <1>1
<1>3. cs \in Seq(C)
  <2>1. cs \in [1 .. Len(cs) -> C] /\ Len(cs) \in Nat  OBVIOUS
  <2> HIDE DEF C
  <2> QED  BY <2>1
<1>4. IdsOf(cs, b) = Mapped(f, cs)
  <2>1. DOMAIN cs = 1 .. Len(cs) /\ \A n \in 1 .. Len(cs) : cs[n] \in C  BY <1>3
  <2>2. IdsOf(cs, b) = FlattenSeq([n \in 1 .. Len(cs) |-> IdOf(cs[n], b)])  BY <2>1 DEF IdsOf
  <2> HIDE DEF f, C
  <2>3. [n \in 1 .. Len(cs) |-> IdOf(cs[n], b)] = [n \in 1 .. Len(cs) |-> f[cs[n]]]
    BY Zenon, <1>2, <2>1
  <2> QED  BY <2>2, <2>3 DEF Mapped
<1> HIDE DEF f, C
<1>5. Mapped(f, cs) \in Seq(S)  BY Zenon, <1>2, <1>3, MappedFits
<1> QED  BY <1>4, <1>5

\* The calls that are yet to be announced: none, when all are or there are no calls.
LEMMA UpcomingIs ==
  ASSUME AgentFits
  PROVE  /\ calls \in Seq(Calls) /\ Len(calls) \in Nat /\ announced \in Nat /\ finished \in Nat
         /\ ids \in Nat /\ DOMAIN calls = 1 .. Len(calls)
         /\ Upcoming \in Seq(Calls)
         /\ announced = Len(calls) => Upcoming = <<>>
         /\ pc # "calls" => calls = <<>> /\ Len(calls) = 0 /\ announced = 0 /\ finished = 0
<1>1. /\ calls \in Seq(Calls) /\ announced \in Nat /\ finished \in Nat
      /\ finished <= announced /\ announced <= Len(calls) /\ ids \in Nat
  BY DEF AgentFits, CallSeqs
<1>2. Len(calls) \in Nat /\ DOMAIN calls = 1 .. Len(calls)  BY <1>1
<1>3. Upcoming \in Seq(Calls)  BY <1>1, <1>2 DEF Upcoming
<1>4. announced = Len(calls) => Upcoming = <<>>
  <2>1. ASSUME announced = Len(calls) PROVE SubSeq(calls, announced + 1, Len(calls)) = <<>>
    BY <1>1, <1>2, <2>1
  <2> QED  BY <2>1 DEF Upcoming
<1>5. pc # "calls" => calls = <<>>  BY DEF AgentFits
<1>6. calls = <<>> => Len(calls) = 0 /\ announced = 0 /\ finished = 0  BY <1>1
<1> QED  BY Zenon, <1>1, <1>2, <1>3, <1>4, <1>5, <1>6

\* Nothing is shown of no calls.
LEMMA NoneShown ==
  /\ \A b \in BOOLEAN : IdsOf(<<>>, b) = <<>>
  /\ AsksOf(<<>>) = <<>>
  /\ \A s \in Seq(Nat) : s \o <<>> = s /\ <<>> \o s = s
<1>1. \A b \in BOOLEAN : IdsOf(<<>>, b) = <<>>  BY IdsOfFit
<1>2. AsksOf(<<>>) = <<>>  BY AsksOfFit
<1> QED  BY <1>1, <1>2, ConcatEmptySeq

\* The first of them is announced.
LEMMA UpcomingNext ==
  ASSUME AgentFits, announced + 1 \in DOMAIN calls, announced' = announced + 1, calls' = calls
  PROVE  LET c == calls[announced + 1]
         IN  /\ c \in Calls /\ Upcoming' \in Seq(Calls)
             /\ \A b \in BOOLEAN : IdsOf(Upcoming, b) = IdOf(c, b) \o IdsOf(Upcoming', b)
             /\ AsksOf(Upcoming) = AskOf(c) \o AsksOf(Upcoming')
<1> DEFINE c == calls[announced + 1]
           u == SubSeq(calls, announced + 2, Len(calls))
<1>1. calls \in Seq(Calls) /\ Len(calls) \in Nat /\ announced \in Nat
      /\ DOMAIN calls = 1 .. Len(calls)
  BY UpcomingIs
<1>2. c \in Calls /\ <<c>> \in Seq(Calls)  BY <1>1
<1>3. Upcoming' = u
  <2>1. announced' + 1 = announced + 2  BY <1>1
  <2> QED  BY <2>1 DEF Upcoming
<1>4. u \in Seq(Calls)  BY <1>1
<1>5. Upcoming = <<c>> \o u
  <2>1. announced + 1 <= Len(calls)  BY <1>1
  <2> DEFINE p == SubSeq(calls, announced + 1, Len(calls))
             q == <<c>> \o u
             m == Len(calls) - announced
  <2>2. m \in Nat /\ 1 <= m /\ \A i \in 1 .. m : i = 1 \/ (i - 1 \in 1 .. m - 1 /\ i # 1)
    BY <1>1, <2>1
  <2>3. /\ p \in Seq(Calls) /\ Len(p) = m /\ \A i \in 1 .. m : p[i] = calls[announced + i]
    BY SMTT(40), <1>1, <2>1
  <2>4. /\ Len(u) = m - 1 /\ \A i \in 1 .. m - 1 : u[i] = calls[announced + 1 + i]
    <3> DEFINE k == announced + 2
               l == Len(calls)
    <3>1. /\ k \in 1 .. l + 1 /\ l \in k - 1 .. l /\ l - k + 1 = m - 1
          /\ \A i \in 1 .. m - 1 : k + i - 1 = announced + 1 + i
      BY <1>1, <2>1
    <3>2. /\ Len(SubSeq(calls, k, l)) = l - k + 1
          /\ \A i \in 1 .. l - k + 1 : SubSeq(calls, k, l)[i] = calls[k + i - 1]
      <4> HIDE DEF k, l
      <4> QED  BY <1>1, <3>1, SubSeqProperties DEF l
    <3> QED  BY <3>1, <3>2
  <2>5. Len(<<c>>) = 1 /\ <<c>>[1] = c  OBVIOUS
  <2> HIDE DEF u
  <2>6. /\ q \in Seq(Calls) /\ Len(q) = 1 + Len(u)
        /\ q[1] = c /\ \A i \in 1 .. Len(u) : q[1 + i] = u[i]
    BY <1>2, <1>4, <2>5
  <2> HIDE DEF p, q
  <2>7. ASSUME NEW i \in 1 .. m PROVE p[i] = q[i]
    <3>1. CASE i = 1  BY <2>2, <2>3, <2>6, <3>1 DEF c
    <3>2. CASE i - 1 \in 1 .. m - 1
      <4>1. PICK j \in 1 .. m - 1 : j = i - 1  BY <3>2
      <4>2. i = 1 + j /\ announced + i = announced + 1 + j  BY <1>1, <2>2, <4>1
      <4>3. p[i] = calls[announced + 1 + j]  BY <2>3, <4>2
      <4>4. q[i] = u[j]  BY <2>2, <2>4, <2>6, <4>1, <4>2
      <4> QED  BY <2>4, <4>3, <4>4
    <3> QED  BY <2>2, <3>1, <3>2
  <2>8. Len(q) = m  BY <2>2, <2>4, <2>6
  <2>9. p = q  BY <2>2, <2>3, <2>6, <2>7, <2>8
  <2> QED  BY <2>9 DEF Upcoming, p, q
<1> HIDE DEF c, u
<1>6. ASSUME NEW b \in BOOLEAN PROVE IdsOf(Upcoming, b) = IdOf(c, b) \o IdsOf(u, b)
  <2>1. /\ \A e \in Calls : IdsOf(<<e>>, b) = IdOf(e, b)
        /\ \A s \in Seq(Calls), t \in Seq(Calls) : IdsOf(s \o t, b) = IdsOf(s, b) \o IdsOf(t, b)
    BY IdsOfFit
  <2> QED  BY <1>2, <1>4, <1>5, <2>1
<1>7. AsksOf(Upcoming) = AskOf(c) \o AsksOf(u)  BY <1>2, <1>4, <1>5, AsksOfFit
<1> QED  BY <1>2, <1>3, <1>4, <1>6, <1>7 DEF c

\* A bubble that is renewed is not the user's, and has the stubs it is given.
StubsIn(es) == \A n \in DOMAIN es : es[n].kind = "tool" /\ es[n].stub => es[n].call.tool = "bash"

\* The other messages are as they were.
LEMMA RenewedStubs ==
  ASSUME NEW ms \in Seq(Messages), ms # <<>>, NEW fs \in Seq(Events)
  PROVE  /\ UsersAsk(ms) => UsersAsk(Renewed(ms, fs))
         /\ Stubs(ms) /\ StubsIn(fs) => Stubs(Renewed(ms, fs))
         /\ Stubs(ms) => StubsIn(Last(ms).events)
<1> DEFINE ns == Renewed(ms, fs)
<1>1. /\ ns \in Seq(Messages) /\ Len(ns) = Len(ms) /\ ns[Len(ms)] = Bubbly(fs)
      /\ \A i \in 1 .. Len(ms) - 1 : ns[i] = ms[i]
  BY RenewedTells
<1> HIDE DEF ns
<1>2. /\ Len(ms) \in Nat /\ Len(ms) >= 1 /\ DOMAIN ms = 1 .. Len(ms) /\ Last(ms) = ms[Len(ms)]
  BY LastIs
<1>3. /\ DOMAIN ns = 1 .. Len(ms) /\ Len(ms) \in DOMAIN ms  BY <1>1, <1>2
<1>4. \A i \in DOMAIN ns : (i \in DOMAIN ms /\ ns[i] = ms[i]) \/ ns[i] = Bubbly(fs)
  <2>1. \A m \in Nat : \A i \in 1 .. m : i = m \/ i \in 1 .. m - 1  OBVIOUS
  <2> QED  BY <1>1, <1>2, <1>3, <2>1
<1>5. Bubbly(fs).role = "assistant" /\ Bubbly(fs).events = fs  BY BubblyFits
<1>6. UsersAsk(ms) => UsersAsk(ns)  BY <1>4, <1>5 DEF UsersAsk
<1>7. ASSUME Stubs(ms), StubsIn(fs) PROVE Stubs(ns)
  <2>1. ASSUME NEW i \in DOMAIN ns PROVE StubsIn(ns[i].events)
    BY <1>4, <1>5, <1>7, <2>1 DEF Stubs, StubsIn
  <2> QED  BY <2>1 DEF Stubs, StubsIn
<1>8. Stubs(ms) => StubsIn(Last(ms).events)  BY <1>2, <1>3 DEF Stubs, StubsIn
<1> QED  BY <1>6, <1>7, <1>8 DEF ns

\* A bubble that holds the same calls holds each of them.
LEMMA SameHas ==
  ASSUME NEW fs, NEW es, SameCalls(fs, es)
  PROVE  (\A i \in Nat : HasCall(es, i) => HasCall(fs, i)) /\ (StubsIn(es) => StubsIn(fs))
<1>1. \A i \in Nat : HasCall(es, i) => HasCall(fs, i)  BY DEF SameCalls, HasCall
<1>2. StubsIn(es) => StubsIn(fs)  BY DEF SameCalls, StubsIn
<1> QED  BY <1>1, <1>2

\* A step that shows the same calls.
LEMMA CallsKept ==
  ASSUME CallsInv, UNCHANGED <<calls, announced, finished, ids, early, stopped, terminal>>,
         UsersAsk(msgs'), Stubs(msgs) => Stubs(msgs'),
         CallIds(msgs') = CallIds(msgs), Trail(msgs') = Trail(msgs),
         \A b \in BOOLEAN :
              RowsIds(rows', b) = RowsIds(rows, b), RowsAsks(rows') = RowsAsks(rows),
         AgentFits, \A i \in Nat : HasCall(Bubble, i) => HasCall(Bubble', i)
  PROVE  CallsInv'
<1>1. NumbersFit /\ TerminalFits /\ CallsFit  BY DEF CallsInv
<1>2. TRUE \in BOOLEAN /\ FALSE \in BOOLEAN  OBVIOUS
<1>3. Resumed' <=> Resumed  BY DEF Resumed
<1>4. Upcoming' = Upcoming  BY DEF Upcoming
<1>5. NumbersFit'  BY <1>1, <1>2, <1>3 DEF NumbersFit
<1>6. TerminalFits'  BY <1>1, <1>2, <1>3, <1>4 DEF TerminalFits
<1>7. CallsFit'
  <2>1. SUFFICES ASSUME ~ stopped, early = {}
                 PROVE  /\ CallIds(msgs') \o IdsOf(Upcoming, FALSE) = RowsIds(rows', FALSE)
                        /\ Trail(msgs') \o AsksOf(Upcoming) = RowsAsks(rows')
                        /\ BubbleHas' /\ Stubs(msgs')
    BY <1>4 DEF CallsFit
  <2>2. BubbleHas /\ Stubs(msgs)  BY <1>1, <2>1 DEF CallsFit
  <2>3. BubbleHas'
    <3>1. ASSUME NEW j \in finished + 1 .. announced PROVE calls[j].id \in Nat
      <4>1. /\ calls \in Seq(Calls) /\ finished \in Nat /\ announced \in Nat
            /\ announced <= Len(calls)
        BY DEF AgentFits, CallSeqs
      <4>2. j \in 1 .. Len(calls)  BY <4>1
      <4>3. calls[j] \in Calls  BY <4>1, <4>2
      <4> QED  BY <4>3 DEF Calls
    <3> QED  BY <2>2, <3>1 DEF BubbleHas
  <2> QED  BY <1>1, <1>2, <2>1, <2>2, <2>3 DEF CallsFit
<1> QED  BY <1>5, <1>6, <1>7 DEF CallsInv

\* At first nothing is shown.
LEMMA InitCalls == Init => CallsInv
<1> SUFFICES ASSUME Init PROVE CallsInv  OBVIOUS
<1>1. /\ calls = <<>> /\ announced = 0 /\ finished = 0 /\ rows = <<>> /\ msgs = <<>>
      /\ terminal = <<>> /\ ids = 0 /\ early = {}
  BY DEF Init
<1>2. TRUE \in BOOLEAN /\ FALSE \in BOOLEAN  OBVIOUS
<1>3. /\ RowsIds(rows, TRUE) = <<>> /\ RowsIds(rows, FALSE) = <<>> /\ RowsAsks(rows) = <<>>
      /\ CallIds(msgs) = <<>> /\ Trail(msgs) = <<>>
  BY <1>1, <1>2, RowsIdsFit, RowsAsksFit, CallIdsFit, TrailFit
<1>4. Upcoming = <<>>
  <2>1. announced + 1 = 1 /\ Len(calls) = 0  BY <1>1
  <2>2. SubSeq(<<>>, 1, 0) = <<>>  OBVIOUS
  <2> QED  BY <1>1, <2>1, <2>2 DEF Upcoming
<1>5. IdsOf(<<>>, TRUE) = <<>> /\ IdsOf(<<>>, FALSE) = <<>> /\ AsksOf(<<>>) = <<>>
      /\ <<>> \o <<>> = <<>>
  BY <1>2, NoneShown, EmptySeq
<1>6. UsersAsk(msgs) /\ Stubs(msgs)  BY <1>1 DEF UsersAsk, Stubs
<1>7. NumbersFit
  <2>1. Len(calls) = 0 /\ DOMAIN calls = {} /\ DOMAIN terminal = {}  BY <1>1
  <2>2. <<>> \in Seq(1 .. ids)  BY EmptySeq
  <2>3. RowsIds(rows, TRUE) \in Seq(1 .. ids) /\ terminal \in Seq(1 .. ids)  BY <1>1, <1>3, <2>2
  <2>4. early \subseteq 1 .. ids /\ Len(calls) <= ids  BY <1>1, <2>1
  <2> QED  BY <2>1, <2>3, <2>4 DEF NumbersFit
<1>8. TerminalFits  BY <1>1, <1>3, <1>4, <1>5 DEF TerminalFits
<1>9. BubbleHas  BY <1>1 DEF BubbleHas
<1>10. CallsFit  BY <1>3, <1>4, <1>5, <1>6, <1>9 DEF CallsFit
<1> QED  BY <1>6, <1>7, <1>8, <1>10 DEF CallsInv

\* The message of the user is none of the calls, and is on the trail.
LEMMA SendCalls == ASSUME PageInv, CallsInv, Send PROVE CallsInv'
<1> DEFINE u == NewMessage("user")
           a == NewMessage("assistant")
           r == [role |-> "user"]
           v == Append(msgs, u)
<1>1. UsersAsk(msgs) /\ NumbersFit /\ TerminalFits /\ CallsFit  BY DEF CallsInv
<1>2. /\ pc = "idle" /\ rows' = Append(rows, r) /\ msgs' = msgs \o <<u, a>>
      /\ UNCHANGED <<calls, announced, finished, terminal, ids, early, stopped>>
  BY DEF Send, noted
<1>3. msgs \in Seq(Messages) /\ rows \in Seq(Rows)  BY DEF PageInv, AgentFits, BrowserFits
<1>4. /\ u \in Messages /\ a \in Messages /\ u.events = <<>> /\ a.events = <<>>
      /\ a.role = "assistant" /\ u.role = "user"
  BY DEF NewMessage, Messages
<1>5. r \in Rows /\ r.role = "user"  BY DEF Rows, UserRows
<1>6. /\ calls = <<>> /\ announced = 0 /\ finished = 0 /\ Len(calls) = 0 /\ Upcoming = <<>>
  BY <1>2, UpcomingIs DEF PageInv
<1> HIDE DEF u, a, r
<1>7. msgs' = Append(v, a) /\ v \in Seq(Messages)  BY <1>2, <1>3, <1>4, Pair, AppendFits
<1>8. /\ Len(v) = Len(msgs) + 1 /\ v[Len(msgs) + 1] = u
      /\ \A i \in 1 .. Len(msgs) : v[i] = msgs[i]
  BY <1>3, <1>4, AppendFits
<1> HIDE DEF v
<1>9. /\ msgs' \in Seq(Messages) /\ Len(msgs') = Len(v) + 1 /\ msgs'[Len(v) + 1] = a
      /\ \A i \in 1 .. Len(v) : msgs'[i] = v[i]
  BY <1>4, <1>7, AppendFits
<1>10. \A i \in DOMAIN msgs' :
            (i \in DOMAIN msgs /\ msgs'[i] = msgs[i]) \/ msgs'[i].events = <<>>
  <2>1. /\ Len(msgs) \in Nat /\ DOMAIN msgs = 1 .. Len(msgs) /\ DOMAIN msgs' = 1 .. Len(msgs) + 2
        /\ Len(v) = Len(msgs) + 1
    BY <1>3, <1>8, <1>9
  <2>2. \A i \in 1 .. Len(msgs) + 2 :
          (i \in 1 .. Len(msgs) /\ i \in 1 .. Len(v)) \/ (i = Len(msgs) + 1 /\ i \in 1 .. Len(v))
          \/ i = Len(v) + 1
    BY <2>1
  <2> QED  BY <1>4, <1>8, <1>9, <2>1, <2>2
<1>11. UsersAsk(msgs')  BY <1>1, <1>10 DEF UsersAsk
<1>12. Stubs(msgs) => Stubs(msgs')
  <2>1. SUFFICES ASSUME Stubs(msgs), NEW i \in DOMAIN msgs', NEW n \in DOMAIN msgs'[i].events,
                        msgs'[i].events[n].kind = "tool", msgs'[i].events[n].stub
                 PROVE  msgs'[i].events[n].call.tool = "bash"
    BY DEF Stubs
  <2>2. i \in DOMAIN msgs /\ msgs'[i] = msgs[i]
    <3>1. DOMAIN <<>> = {}  OBVIOUS
    <3> QED  BY <1>10, <2>1, <3>1
  <2> QED  BY <2>1, <2>2 DEF Stubs
<1>13. TRUE \in BOOLEAN /\ FALSE \in BOOLEAN  OBVIOUS
<1>14. CallIds(msgs') = CallIds(msgs)
  <2>1. CallIds(v) = CallIds(msgs) \o ShownCalls(<<>>)
    <3>1. CallIds(Append(msgs, u)) = CallIds(msgs) \o ShownCalls(u.events)
      BY <1>3, <1>4, CallIdsFit
    <3> QED  BY <1>4, <3>1 DEF v
  <2>2. CallIds(msgs') = CallIds(v) \o ShownCalls(<<>>)  BY <1>4, <1>7, CallIdsFit
  <2>3. CallIds(msgs) \in Seq(Nat) /\ ShownCalls(<<>>) = <<>>  BY <1>3, CallIdsFit, ShownFit
  <2> QED  BY <2>1, <2>2, <2>3, ConcatEmptySeq
<1>15. Trail(msgs') = Trail(msgs) \o <<0>>
  <2>1. Trail(v) = Trail(msgs) \o <<0>>
    <3>1. Trail(Append(msgs, u)) = Trail(msgs) \o TrailOf(u)  BY <1>3, <1>4, TrailFit
    <3> QED  BY <1>4, <3>1 DEF v, TrailOf
  <2>2. Trail(msgs') = Trail(v) \o AskedIn(<<>>)
    <3>1. Trail(msgs') = Trail(v) \o TrailOf(a)  BY <1>4, <1>7, TrailFit
    <3> QED  BY <1>4, <3>1 DEF TrailOf
  <2>3. Trail(v) \in Seq(Nat) /\ AskedIn(<<>>) = <<>>  BY <1>7, TrailFit, AskedFit
  <2> QED  BY <2>1, <2>2, <2>3, ConcatEmptySeq
<1>16. /\ RowsIds(rows', TRUE) = RowsIds(rows, TRUE)
       /\ RowsIds(rows', FALSE) = RowsIds(rows, FALSE)
       /\ RowsAsks(rows') = RowsAsks(rows) \o <<0>>
  <2>1. ASSUME NEW b \in BOOLEAN PROVE RowsIds(rows', b) = RowsIds(rows, b)
    <3>1. RowsIds(rows', b) = RowsIds(rows, b) \o RowIds(r, b)  BY <1>2, <1>3, <1>5, RowsIdsFit
    <3>2. RowIds(r, b) = <<>> /\ RowsIds(rows, b) \in Seq(Nat)
      BY <1>3, <1>5, RowsIdsFit DEF RowIds
    <3> QED  BY <3>1, <3>2, ConcatEmptySeq
  <2>2. RowsAsks(rows') = RowsAsks(rows) \o RowAsks(r)  BY <1>2, <1>3, <1>5, RowsAsksFit
  <2> QED  BY <1>5, <1>13, <2>1, <2>2 DEF RowAsks
<1>17. Upcoming' = <<>>  BY <1>2, <1>6 DEF Upcoming
<1>18. Resumed' <=> Resumed  BY <1>2 DEF Resumed
<1>19. NumbersFit'  BY <1>1, <1>2, <1>16, <1>18 DEF NumbersFit
<1>20. TerminalFits'  BY <1>1, <1>2, <1>6, <1>16, <1>17, <1>18 DEF TerminalFits
<1>21. CallsFit'
  <2>1. BubbleHas'
    <3>1. finished' + 1 .. announced' = {}  BY <1>2, <1>6
    <3> QED  BY <3>1 DEF BubbleHas
  <2>2. AsksOf(<<>>) = <<>> /\ IdsOf(<<>>, FALSE) = <<>>  BY <1>13, NoneShown
  <2>3. ASSUME ~ stopped, early = {}
        PROVE  /\ CallIds(msgs) \o <<>> = RowsIds(rows, FALSE)
               /\ Trail(msgs) \o <<>> = RowsAsks(rows) /\ Stubs(msgs)
    BY <1>1, <1>6, <2>2, <2>3 DEF CallsFit
  <2>4. Trail(msgs) \in Seq(Nat) /\ Trail(msgs') \in Seq(Nat)  BY <1>3, <1>9, TrailFit
  <2>5. Trail(msgs) \o <<>> = Trail(msgs) /\ Trail(msgs') \o <<>> = Trail(msgs')
    BY <2>4, ConcatEmptySeq
  <2> QED  BY <1>2, <1>12, <1>14, <1>15, <1>16, <1>17, <2>1, <2>2, <2>3, <2>5 DEF CallsFit
<1> QED  BY <1>11, <1>19, <1>20, <1>21 DEF CallsInv

\* Nothing is shown of what is only produced.
LEMMA ProduceCalls == ASSUME PageInv, CallsInv, Produce PROVE CallsInv'
<1>1. UNCHANGED <<rows, calls, announced, finished, msgs, ids, early, stopped, terminal>>
  BY DEF Produce, shown
<1>2. UsersAsk(msgs)  BY DEF CallsInv
<1>3. Bubble' = Bubble  BY <1>1 DEF Bubble
<1>4. AgentFits  BY DEF PageInv
<1> QED  BY <1>1, <1>2, <1>3, <1>4, CallsKept

\* A text in the bubble leaves the calls in it.
LEMMA PatchCalls ==
  ASSUME PageInv, CallsInv, stream # "none", NEW fs \in Seq(Events), Patch(fs),
         SameCalls(fs, Bubble),
         UNCHANGED <<calls, announced, finished, ids, early, stopped, terminal, rows>>
  PROVE  CallsInv'
<1>1. /\ msgs \in Seq(Messages) /\ msgs # <<>> /\ Last(msgs).role = "assistant"
      /\ Bubble = Last(msgs).events /\ Bubble \in Seq(Events)
      /\ msgs' = Renewed(msgs, fs)
  BY PatchIs DEF PageInv
<1>2. UsersAsk(msgs)  BY DEF CallsInv
<1>3. (\A i \in Nat : HasCall(Bubble, i) => HasCall(fs, i))
      /\ (StubsIn(Bubble) => StubsIn(fs))
  BY SameHas
<1>4. UsersAsk(msgs') /\ (Stubs(msgs) => Stubs(msgs'))  BY <1>1, <1>2, <1>3, RenewedStubs
<1>5. Bubble' = fs
  <2>1. Bubble' = Last(msgs').events  BY DEF Bubble
  <2>2. Last(msgs') = Bubbly(fs)  BY <1>1, RenewedTells
  <2> QED  BY <2>1, <2>2, BubblyFits
<1>6. ShownCalls(fs) = ShownCalls(Last(msgs).events) /\ AskedIn(fs) = AskedIn(Last(msgs).events)
  BY <1>1 DEF SameCalls
<1>7. CallIds(msgs') = CallIds(msgs) /\ Trail(msgs') = Trail(msgs)
  BY <1>1, <1>6, RenewedSame
<1>8. AgentFits  BY DEF PageInv
<1>9. \A i \in Nat : HasCall(Bubble, i) => HasCall(Bubble', i)  BY <1>3, <1>5
<1> QED  BY <1>4, <1>7, <1>8, <1>9, CallsKept

\* The text of a delta is none of the calls.
LEMMA DeltaCalls == ASSUME PageInv, CallsInv, Delta PROVE CallsInv'
<1>1. UNCHANGED <<rows, calls, announced, finished, ids, early, stopped, terminal>>
  BY DEF Delta, spent, noted
<1>2. PICK n \in 1 .. Len(unsent) :
        IF stream = "none" THEN UNCHANGED <<msgs, split>>
        ELSE LET out == SplitTextDelta(split, SubSeq(unsent, 1, n))
             IN  Patch(ApplyText(Bubble, out)) /\ split' = out.next
  BY DEF Delta
<1>3. CASE stream = "none"
  <2>1. msgs' = msgs /\ Bubble' = Bubble  BY <1>2, <1>3 DEF Bubble
  <2>2. UsersAsk(msgs) /\ AgentFits  BY DEF CallsInv, PageInv
  <2> QED  BY <1>1, <2>1, <2>2, CallsKept
<1>4. CASE stream # "none"
  <2> DEFINE out == SplitTextDelta(split, SubSeq(unsent, 1, n))
             fs == ApplyText(Bubble, out)
  <2>1. Patch(fs)  BY <1>2, <1>4
  <2>2. out.text \in Text /\ out.reason \in Text
    <3> DEFINE s == split.pending \o SubSeq(unsent, 1, n)
               x == SplitRest[s][split.inThink]
    <3>1. split.pending \in Text /\ split.inThink \in BOOLEAN /\ unsent \in Text
      BY UndeliveredFits
    <3>2. SubSeq(unsent, 1, n) \in Text  BY <3>1, CutJoins
    <3>3. s \in Text  BY <3>1, <3>2, ConcatProperties DEF Text
    <3>4. out = [x EXCEPT !.text = Strip(@), !.reason = Strip(@)]  BY DEF SplitTextDelta
    <3> HIDE DEF s, out
    <3>5. x \in Outs  BY <3>1, <3>3, SplitFits
    <3> HIDE DEF x
    <3>6. out.text = Strip(x.text) /\ out.reason = Strip(x.reason)
          /\ x.text \in Text /\ x.reason \in Text
      BY <3>4, <3>5 DEF Outs
    <3> QED  BY <3>6, StripFits
  <2> HIDE DEF out
  <2>3. Bubble \in Seq(Events)  BY <1>4, BubbleIs DEF PageInv
  <2>4. fs \in Seq(Events) /\ SameCalls(fs, Bubble)  BY <2>2, <2>3, ApplyTextTells
  <2> HIDE DEF fs
  <2> QED  BY <1>1, <1>4, <2>1, <2>4, PatchCalls
<1> QED  BY <1>3, <1>4

\* What is in a sequence is in its set.
LEMMA OfSeq == ASSUME NEW S, NEW s \in Seq(S) PROVE \A n \in DOMAIN s : s[n] \in S
  OBVIOUS

\* The round's row has its calls, and all of them are yet to be announced.
LEMMA StoreRowCalls ==
  ASSUME PageInv, CallsInv, StoreRow
  PROVE  CallsInv'
<1>1. UsersAsk(msgs) /\ NumbersFit /\ TerminalFits /\ CallsFit  BY DEF CallsInv
<1> DEFINE r == StoredRow
           n == Len(calls')
<1>2. /\ pc = "text" /\ calls' \in Seq(Calls) /\ ids' = ids + n /\ ids' \in Nat
      /\ \A j \in DOMAIN calls' : calls'[j].id = ids + j
      /\ r \in Rows /\ r.calls = calls' /\ r.role = "assistant"
      /\ rows \in Seq(Rows) /\ rows' = Append(rows, r)
      /\ announced' = 0 /\ finished' = 0
      /\ UNCHANGED <<msgs, terminal, early, stopped>>
  BY StoreRowIs DEF PageInv, CallSeqs
<1> HIDE DEF r
<1>3. /\ calls = <<>> /\ Len(calls) = 0 /\ announced = 0 /\ Upcoming = <<>> /\ ids \in Nat
  BY <1>2, UpcomingIs DEF PageInv
<1>4. n \in Nat /\ DOMAIN calls' = 1 .. n  BY <1>2
<1>5. TRUE \in BOOLEAN /\ FALSE \in BOOLEAN  OBVIOUS
<1>6. Upcoming' = calls'
  <2>1. announced' + 1 = 1  BY <1>2
  <2>2. SubSeq(calls', 1, Len(calls')) = calls'  BY <1>2, SubSeqFull
  <2> QED  BY <2>1, <2>2 DEF Upcoming
<1>7. \A b \in BOOLEAN : RowsIds(rows', b) = RowsIds(rows, b) \o IdsOf(calls', b)
  <2>1. ASSUME NEW b \in BOOLEAN PROVE RowsIds(rows', b) = RowsIds(rows, b) \o IdsOf(calls', b)
    <3>1. RowsIds(rows', b) = RowsIds(rows, b) \o RowIds(r, b)  BY <1>2, RowsIdsFit
    <3> QED  BY <1>2, <3>1 DEF RowIds
  <2> QED  BY <2>1
<1>8. RowsAsks(rows') = RowsAsks(rows) \o AsksOf(calls')
  <2>1. RowsAsks(rows') = RowsAsks(rows) \o RowAsks(r)  BY <1>2, RowsAsksFit
  <2> QED  BY <1>2, <2>1 DEF RowAsks
<1>9. ~ Resumed /\ ~ Resumed'
  <2>1. ~ Resumed  BY <1>3 DEF Resumed
  <2>2. ASSUME NEW j \in 1 .. n PROVE calls'[j].id \notin early
    <3>1. calls'[j].id = ids + j  BY <1>2, <1>4
    <3>2. \A i \in Nat, k \in Nat : k >= 1 => i + k \notin 1 .. i  OBVIOUS
    <3>3. j \in Nat /\ j >= 1  BY <1>4
    <3>4. ids + j \notin 1 .. ids  BY <1>3, <3>2, <3>3
    <3> QED  BY <1>1, <3>1, <3>4 DEF NumbersFit
  <2> QED  BY <1>2, <1>4, <2>1, <2>2 DEF Resumed
<1>10. /\ early \subseteq 1 .. ids /\ RowsIds(rows, TRUE) \in Seq(1 .. ids)
       /\ terminal \in Seq(1 .. ids)
  BY <1>1 DEF NumbersFit
<1>11. 1 .. ids \subseteq 1 .. ids'  BY <1>2, <1>3, <1>4
<1>12. NumbersFit'
  <2>1. early' \subseteq 1 .. ids'  BY <1>2, <1>10, <1>11
  <2>2. n <= ids' /\ \A j \in DOMAIN calls' : calls'[j].id = ids' - n + j
    BY <1>2, <1>3, <1>4
  <2>3. terminal' \in Seq(1 .. ids')  BY <1>2, <1>10, <1>11, SeqMonotonic
  <2>4. RowsIds(rows', TRUE) \in Seq(1 .. ids')
    <3>1. \A j \in DOMAIN calls' : calls'[j].id \in 1 .. ids'  BY <1>2, <1>3, <1>4
    <3>2. IdsOf(calls', TRUE) \in Seq(1 .. ids')  BY <1>2, <1>5, <3>1, IdsWithin
    <3>3. RowsIds(rows, TRUE) \in Seq(1 .. ids')  BY <1>10, <1>11, SeqMonotonic
    <3>4. RowsIds(rows, TRUE) \o IdsOf(calls', TRUE) \in Seq(1 .. ids')
      BY <3>2, <3>3, ConcatProperties
    <3> QED  BY <1>5, <1>7, <3>4
  <2>5. \A i \in DOMAIN terminal' : terminal'[i] <= ids' - n + announced'
    <3>1. \A i \in DOMAIN terminal : terminal[i] \in 1 .. ids  BY <1>10, OfSeq
    <3>2. \A i \in DOMAIN terminal : terminal[i] <= ids  BY <1>3, <3>1
    <3>3. ids' - n + announced' = ids
      <4>1. ids' = ids + n /\ announced' = 0  BY <1>2
      <4>2. \A i \in Nat, k \in Nat : i + k - k + 0 = i  OBVIOUS
      <4> HIDE DEF n
      <4> QED  BY <1>3, <1>4, <4>1, <4>2
    <3> QED  BY <1>2, <3>2, <3>3
  <2> QED  BY <2>1, <2>2, <2>3, <2>4, <2>5 DEF NumbersFit
<1>13. IdsOf(<<>>, TRUE) = <<>> /\ IdsOf(<<>>, FALSE) = <<>> /\ AsksOf(<<>>) = <<>>
  BY <1>5, NoneShown
<1>14. terminal \in Seq(Nat) /\ msgs \in Seq(Messages)  BY DEF PageInv, BrowserFits
<1>15. TerminalFits'
  <2>1. SUFFICES ASSUME ~ stopped
                 PROVE  terminal \o IdsOf(calls', TRUE) = RowsIds(rows', TRUE)
    BY <1>2, <1>6, <1>9 DEF TerminalFits
  <2>2. terminal \o <<>> = RowsIds(rows, TRUE)  BY <1>1, <1>3, <1>9, <1>13, <2>1 DEF TerminalFits
  <2>3. terminal = RowsIds(rows, TRUE)  BY <1>14, <2>2, ConcatEmptySeq
  <2> QED  BY <1>5, <1>7, <2>3
<1>16. CallsFit'
  <2>1. SUFFICES ASSUME ~ stopped, early = {}
                 PROVE  /\ CallIds(msgs) \o IdsOf(calls', FALSE) = RowsIds(rows', FALSE)
                        /\ Trail(msgs) \o AsksOf(calls') = RowsAsks(rows')
                        /\ BubbleHas' /\ Stubs(msgs)
    BY <1>2, <1>6 DEF CallsFit
  <2>2. /\ CallIds(msgs) \o <<>> = RowsIds(rows, FALSE)
        /\ Trail(msgs) \o <<>> = RowsAsks(rows) /\ Stubs(msgs)
    BY <1>1, <1>3, <1>13, <2>1 DEF CallsFit
  <2>3. CallIds(msgs) \in Seq(Nat) /\ Trail(msgs) \in Seq(Nat)
    BY <1>14, CallIdsFit, TrailFit
  <2>4. CallIds(msgs) = RowsIds(rows, FALSE) /\ Trail(msgs) = RowsAsks(rows)
    BY <2>2, <2>3, ConcatEmptySeq
  <2>5. BubbleHas'
    <3>1. finished' + 1 .. announced' = {}  BY <1>2
    <3> QED  BY <3>1 DEF BubbleHas
  <2> QED  BY <1>5, <1>7, <1>8, <2>2, <2>4, <2>5
<1>17. UsersAsk(msgs')  BY <1>1, <1>2
<1> QED  BY <1>12, <1>15, <1>16, <1>17 DEF CallsInv

\* What is announced is shown, in the bubble or in the terminal; the terminal has it once.
LEMMA AnnounceCalls == ASSUME PageInv, TextFits, CallsInv, Announce PROVE CallsInv'
<1>1. UsersAsk(msgs) /\ NumbersFit /\ TerminalFits /\ CallsFit  BY DEF CallsInv
<1> DEFINE c == calls[announced + 1]
<1>2. /\ pc = "calls" /\ announced + 1 \in DOMAIN calls /\ announced' = announced + 1
      /\ c \in Calls
      /\ (stream = "none" \/ Resumed) => UNCHANGED <<msgs, terminal>>
      /\ ~ (stream = "none" \/ Resumed) =>
           /\ Patch(ApplyCall(Bubble, c))
           /\ terminal' = IF c.tool = "bash" /\ ~ Contains(terminal, c.id)
                          THEN Append(terminal, c.id) ELSE terminal
      /\ UNCHANGED <<rows, calls, finished, stream>> /\ UNCHANGED spent /\ UNCHANGED noted
  BY AnnounceIs DEF PageInv
<1>3. UNCHANGED <<ids, early, stopped>>  BY <1>2 DEF spent, noted
<1>4. /\ calls \in Seq(Calls) /\ Len(calls) \in Nat /\ announced \in Nat /\ finished \in Nat
      /\ ids \in Nat /\ DOMAIN calls = 1 .. Len(calls)
  BY UpcomingIs DEF PageInv
<1>5. /\ Upcoming' \in Seq(Calls)
      /\ \A b \in BOOLEAN : IdsOf(Upcoming, b) = IdOf(c, b) \o IdsOf(Upcoming', b)
      /\ AsksOf(Upcoming) = AskOf(c) \o AsksOf(Upcoming')
  BY <1>2, UpcomingNext DEF PageInv
<1>6. c.id = ids - Len(calls) + (announced + 1) /\ Len(calls) <= ids /\ c.id \in Nat
      /\ terminal \in Seq(1 .. ids)
  <2>1. Len(calls) <= ids /\ c.id = ids - Len(calls) + (announced + 1) /\ terminal \in Seq(1 .. ids)
    BY <1>1, <1>2 DEF NumbersFit
  <2>2. c.id \in Nat  BY <1>2 DEF Calls
  <2> QED  BY <2>1, <2>2
<1> HIDE DEF c
<1>7. TRUE \in BOOLEAN /\ FALSE \in BOOLEAN  OBVIOUS
<1>8. Resumed' <=> Resumed  BY <1>2, <1>3 DEF Resumed
<1>9. c.id \in 1 .. ids
  <2>1. announced + 1 <= Len(calls)  BY <1>2, <1>4
  <2>2. \A i \in Nat, l \in Nat, a \in Nat : l <= i /\ a + 1 <= l => i - l + (a + 1) \in 1 .. i
    OBVIOUS
  <2> QED  BY <1>4, <1>6, <2>1, <2>2
<1>12. terminal \in Seq(Nat)  BY DEF PageInv, BrowserFits
<1>10. CASE stream = "none" \/ Resumed
  <2>1. msgs' = msgs /\ terminal' = terminal  BY <1>2, <1>10
  <2>2. NumbersFit'
    <3>1. ~ Resumed => \A n \in DOMAIN terminal :
                           terminal[n] <= ids - Len(calls) + (announced + 1)
      <4>1. \A n \in DOMAIN terminal : terminal[n] \in Nat  BY <1>12, OfSeq
      <4>2. \A n \in DOMAIN terminal : ~ Resumed => terminal[n] <= ids - Len(calls) + announced
        BY <1>1 DEF NumbersFit
      <4>3. \A x \in Nat, i \in Nat, l \in Nat, a \in Nat :
              x <= i - l + a => x <= i - l + (a + 1)
        OBVIOUS
      <4> QED  BY <1>4, <4>1, <4>2, <4>3
    <3> QED  BY <1>1, <1>2, <1>3, <1>8, <2>1, <3>1 DEF NumbersFit
  <2>3. ~ stopped => Resumed /\ early # {}
    <3>1. stream = "none" => stopped  BY <1>2 DEF TextFits, TurnShown
    <3>2. Resumed => early # {}  BY DEF Resumed
    <3> QED  BY <1>10, <3>1, <3>2
  <2>4. TerminalFits'  BY <1>1, <1>2, <1>3, <1>8, <2>1, <2>3 DEF TerminalFits
  <2>5. CallsFit'  BY <1>3, <2>3 DEF CallsFit
  <2>6. UsersAsk(msgs')  BY <1>1, <2>1
  <2> QED  BY <2>2, <2>4, <2>5, <2>6 DEF CallsInv
<1>11. CASE ~ (stream = "none" \/ Resumed)
  <2> DEFINE fs == ApplyCall(Bubble, c)
             e == ToolEv(c, "pending")
  <2>1. Patch(fs) /\ terminal' = IF c.tool = "bash" /\ ~ Contains(terminal, c.id)
                                   THEN Append(terminal, c.id) ELSE terminal
    BY <1>2, <1>11
  <2>2. /\ msgs \in Seq(Messages) /\ msgs # <<>> /\ Last(msgs).role = "assistant"
        /\ Bubble = Last(msgs).events /\ Bubble \in Seq(Events)
    BY <1>11, BubbleIs DEF PageInv
  <2>3. /\ fs \in Seq(Events)
        /\ ShownCalls(fs) = ShownCalls(Bubble) \o IdOf(c, FALSE)
        /\ AskedIn(fs) = AskedIn(Bubble) \o AskOf(c)
        /\ \A n \in DOMAIN fs : (n \in DOMAIN Bubble /\ fs[n] = Bubble[n]) \/ fs[n] = e
        /\ \A n \in DOMAIN Bubble : n \in DOMAIN fs /\ fs[n] = Bubble[n]
        /\ c.tool # "bash" => \E n \in DOMAIN fs : fs[n] = e
    BY <1>2, <2>2, ApplyCallTells
  <2> HIDE DEF fs
  <2>4. e.kind = "tool" /\ e.call = c /\ ~ e.stub  BY DEF ToolEv
  <2> HIDE DEF e
  <2>5. msgs' = Renewed(msgs, fs)  BY <1>11, <2>1, <2>3, PatchIs DEF PageInv
  <2>6. Bubble' = fs
    <3>1. Bubble' = Last(msgs').events  BY DEF Bubble
    <3>2. Last(msgs') = Bubbly(fs)  BY <2>2, <2>3, <2>5, RenewedTells
    <3> QED  BY <2>3, <3>1, <3>2, BubblyFits
  <2>7. StubsIn(Bubble) => StubsIn(fs)  BY <2>3, <2>4 DEF StubsIn
  <2>8. UsersAsk(msgs') /\ (Stubs(msgs) => Stubs(msgs'))
    BY <1>1, <2>2, <2>3, <2>5, <2>7, RenewedStubs
  <2>9. IdOf(c, FALSE) \in Seq(Nat) /\ AskOf(c) \in Seq(Nat)
    <3>1. <<>> \in Seq(Nat) /\ <<c.id>> \in Seq(Nat)  BY <1>6
    <3> QED  BY <3>1 DEF IdOf, AskOf
  <2>10. CallIds(msgs') = CallIds(msgs) \o IdOf(c, FALSE)
         /\ Trail(msgs') = Trail(msgs) \o AskOf(c)
    BY <2>2, <2>3, <2>5, <2>9, RenewedShows
  <2>11. \A n \in DOMAIN terminal : terminal[n] < c.id
    <3>1. \A n \in DOMAIN terminal : terminal[n] \in Nat  BY <1>12, OfSeq
    <3>2. \A n \in DOMAIN terminal : terminal[n] <= ids - Len(calls) + announced
      BY <1>1, <1>11 DEF NumbersFit
    <3>3. \A x \in Nat, i \in Nat, l \in Nat, a \in Nat : x <= i - l + a => x < i - l + (a + 1)
      OBVIOUS
    <3> QED  BY <1>4, <1>6, <3>1, <3>2, <3>3
  <2>12. ~ Contains(terminal, c.id)
    <3>1. ASSUME NEW i \in 1 .. Len(terminal), terminal[i] = c.id PROVE FALSE
      <4>1. i \in DOMAIN terminal  BY <1>6
      <4> QED  BY <1>6, <2>11, <3>1, <4>1
    <3> QED  BY <3>1, ContainsMeans
  <2>13. terminal' = terminal \o IdOf(c, TRUE)
    <3>1. terminal' = IF c.tool = "bash" THEN Append(terminal, c.id) ELSE terminal
      BY <2>1, <2>12
    <3>2. Append(terminal, c.id) = terminal \o <<c.id>>  BY <1>6, <1>9, AppendIsConcat
    <3>3. terminal \o <<>> = terminal  BY <1>6, ConcatEmptySeq
    <3> QED  BY <3>1, <3>2, <3>3 DEF IdOf
  <2>14. NumbersFit'
    <3>1. terminal' \in Seq(1 .. ids)
      <4>1. <<>> \in Seq(1 .. ids) /\ <<c.id>> \in Seq(1 .. ids)  BY <1>9
      <4>2. IdOf(c, TRUE) \in Seq(1 .. ids)  BY <4>1 DEF IdOf
      <4> QED  BY <1>6, <2>13, <4>2, ConcatProperties
    <3>2. \A n \in DOMAIN terminal' : terminal'[n] <= ids - Len(calls) + (announced + 1)
      <4>1. \A n \in DOMAIN terminal : terminal[n] \in Nat  BY <1>12, OfSeq
      <4>2. \A n \in DOMAIN terminal : terminal[n] <= c.id  BY <1>6, <2>11, <4>1
      <4>3. CASE terminal' = terminal  BY <1>6, <4>2, <4>3
      <4>4. CASE terminal' = Append(terminal, c.id)
        <5>1. \A n \in DOMAIN terminal' : terminal'[n] <= c.id
          <6>1. /\ Len(terminal') = Len(terminal) + 1 /\ terminal'[Len(terminal) + 1] = c.id
                /\ \A i \in 1 .. Len(terminal) : terminal'[i] = terminal[i]
                /\ terminal' \in Seq(1 .. ids)
            BY <1>6, <1>9, <4>4, AppendFits
          <6>2. /\ Len(terminal) \in Nat /\ DOMAIN terminal = 1 .. Len(terminal)
                /\ DOMAIN terminal' = 1 .. Len(terminal) + 1
            BY <1>6, <6>1
          <6>3. \A n \in 1 .. Len(terminal) + 1 :
                     n \in 1 .. Len(terminal) \/ n = Len(terminal) + 1
            BY <6>2
          <6>4. c.id <= c.id  BY <1>6
          <6> QED  BY <4>2, <6>1, <6>2, <6>3, <6>4
        <5> QED  BY <1>6, <5>1
      <4> QED  BY <2>1, <4>3, <4>4
    <3> QED  BY <1>1, <1>2, <1>3, <3>1, <3>2 DEF NumbersFit
  <2>15. TerminalFits'
    <3>1. SUFFICES ASSUME ~ stopped
                   PROVE  terminal' \o IdsOf(Upcoming', TRUE) = RowsIds(rows, TRUE)
      BY <1>2, <1>3, <1>8, <1>11 DEF TerminalFits
    <3>2. terminal \o (IdOf(c, TRUE) \o IdsOf(Upcoming', TRUE)) = RowsIds(rows, TRUE)
      BY <1>1, <1>5, <1>7, <1>11, <3>1 DEF TerminalFits
    <3>3. terminal \in Seq(Nat) /\ IdOf(c, TRUE) \in Seq(Nat) /\ IdsOf(Upcoming',
      TRUE) \in Seq(Nat)
      <4>1. <<>> \in Seq(Nat) /\ <<c.id>> \in Seq(Nat)  BY <1>6
      <4>2. IdOf(c, TRUE) \in Seq(Nat)  BY <4>1 DEF IdOf
      <4>3. terminal \in Seq(Nat)  BY DEF PageInv, BrowserFits
      <4> QED  BY <1>5, <1>7, <4>2, <4>3, IdsOfFit
    <3>4. (terminal \o IdOf(c, TRUE)) \o IdsOf(Upcoming', TRUE)
          = terminal \o (IdOf(c, TRUE) \o IdsOf(Upcoming', TRUE))
      BY <3>3, ThreeLists
    <3> QED  BY <2>13, <3>2, <3>4
  <2>16. CallsFit'
    <3>1. SUFFICES ASSUME ~ stopped, early = {}
                   PROVE  /\ CallIds(msgs') \o IdsOf(Upcoming', FALSE) = RowsIds(rows, FALSE)
                          /\ Trail(msgs') \o AsksOf(Upcoming') = RowsAsks(rows)
                          /\ BubbleHas' /\ Stubs(msgs')
      BY <1>2, <1>3 DEF CallsFit
    <3>2. /\ CallIds(msgs) \o (IdOf(c, FALSE) \o IdsOf(Upcoming', FALSE)) = RowsIds(rows, FALSE)
          /\ Trail(msgs) \o (AskOf(c) \o AsksOf(Upcoming')) = RowsAsks(rows)
          /\ BubbleHas /\ Stubs(msgs)
      BY <1>1, <1>5, <1>7, <3>1 DEF CallsFit
    <3>3. /\ CallIds(msgs) \in Seq(Nat) /\ Trail(msgs) \in Seq(Nat)
          /\ IdsOf(Upcoming', FALSE) \in Seq(Nat) /\ AsksOf(Upcoming') \in Seq(Nat)
      BY Zenon, <1>5, <1>7, <2>2, CallIdsFit, TrailFit, IdsOfFit, AsksOfFit
    <3>4. CallIds(msgs') \o IdsOf(Upcoming', FALSE) = RowsIds(rows, FALSE)
      <4>1. (CallIds(msgs) \o IdOf(c, FALSE)) \o IdsOf(Upcoming', FALSE)
            = CallIds(msgs) \o (IdOf(c, FALSE) \o IdsOf(Upcoming', FALSE))
        <5>1. IdOf(c, FALSE) \in Seq(Nat)  BY Zenon, <2>9
        <5> QED  BY ZenonT(40), <3>3, <5>1, ThreeLists
      <4> QED  BY <2>10, <3>2, <4>1
    <3>5. Trail(msgs') \o AsksOf(Upcoming') = RowsAsks(rows)
      <4>1. (Trail(msgs) \o AskOf(c)) \o AsksOf(Upcoming')
            = Trail(msgs) \o (AskOf(c) \o AsksOf(Upcoming'))
        <5>1. AskOf(c) \in Seq(Nat)  BY Zenon, <2>9
        <5> QED  BY ZenonT(40), <3>3, <5>1, ThreeLists
      <4> QED  BY <2>10, <3>2, <4>1
    <3>6. BubbleHas'
      <4>1. SUFFICES ASSUME NEW j \in finished + 1 .. announced + 1, calls[j].tool # "bash"
                     PROVE  HasCall(fs, calls[j].id)
        BY <1>2, <2>6 DEF BubbleHas
      <4>2. CASE j = announced + 1
        <5>1. calls[j] = c  BY <4>2 DEF c
        <5> QED  BY <2>3, <2>4, <4>1, <5>1 DEF HasCall
      <4>3. CASE j # announced + 1
        <5>1. j \in finished + 1 .. announced  BY <1>4, <4>3
        <5>2. HasCall(Bubble, calls[j].id)  BY <3>2, <4>1, <5>1 DEF BubbleHas
        <5> QED  BY <2>3, <5>2 DEF HasCall
      <4> QED  BY <4>2, <4>3
    <3> QED  BY <2>8, <3>2, <3>4, <3>5, <3>6
  <2> QED  BY <2>8, <2>14, <2>15, <2>16 DEF CallsInv
<1> QED  BY <1>10, <1>11

\* A result's row adds no call.
LEMMA ResultShows ==
  ASSUME rows \in Seq(Rows), NEW c \in Calls, rows' = Append(rows, ResultRow(c)),
         ResultRow(c) \in Rows
  PROVE  /\ \A b \in BOOLEAN : RowsIds(rows', b) = RowsIds(rows, b)
         /\ RowsAsks(rows') = RowsAsks(rows)
<1> DEFINE r == ResultRow(c)
<1>1. r.role = "tool"  BY DEF ResultRow
<1>2. r \in Rows /\ rows' = Append(rows, r)  OBVIOUS
<1> HIDE DEF r
<1>3. ASSUME NEW b \in BOOLEAN PROVE RowsIds(rows', b) = RowsIds(rows, b)
  <2>1. RowsIds(rows', b) = RowsIds(rows, b) \o RowIds(r, b) /\ RowsIds(rows, b) \in Seq(Nat)
    BY <1>2, RowsIdsFit
  <2>2. RowIds(r, b) = <<>>  BY <1>1 DEF RowIds
  <2> QED  BY <2>1, <2>2, ConcatEmptySeq
<1>4. RowsAsks(rows') = RowsAsks(rows)
  <2>1. RowsAsks(rows') = RowsAsks(rows) \o RowAsks(r) /\ RowsAsks(rows) \in Seq(Nat)
    BY <1>2, RowsAsksFit
  <2>2. RowAsks(r) = <<>>  BY <1>1 DEF RowAsks
  <2> QED  BY <2>1, <2>2, ConcatEmptySeq
<1> QED  BY <1>3, <1>4

\* A result changes the call that is shown, or is the stub of a command.
LEMMA FinishCalls == ASSUME PageInv, CallsInv, Finish PROVE CallsInv'
<1>1. UsersAsk(msgs) /\ NumbersFit /\ TerminalFits /\ CallsFit  BY DEF CallsInv
<1>2. PICK c \in Calls :
        /\ finished' = finished + 1 /\ finished + 1 \in 1 .. announced
        /\ c = calls[finished + 1]
        /\ ResultRow(c) \in Rows /\ rows \in Seq(Rows) /\ rows' = Append(rows, ResultRow(c))
        /\ UNCHANGED msgs \/ (stream # "none" /\ Patch(ApplyResult(Bubble, c)))
        /\ UNCHANGED <<calls, announced, terminal, spent, noted>>
  BY FinishIs DEF PageInv
<1>3. UNCHANGED <<ids, early, stopped>>  BY <1>2 DEF spent, noted
<1>4. /\ \A b \in BOOLEAN : RowsIds(rows', b) = RowsIds(rows, b)
      /\ RowsAsks(rows') = RowsAsks(rows)
  BY <1>2, ResultShows
<1>5. TRUE \in BOOLEAN /\ FALSE \in BOOLEAN  OBVIOUS
<1>6. Upcoming' = Upcoming /\ (Resumed' <=> Resumed)
  BY <1>2, <1>3 DEF Upcoming, Resumed
<1>7. NumbersFit'  BY <1>1, <1>2, <1>3, <1>4, <1>5, <1>6 DEF NumbersFit
<1>8. TerminalFits'  BY <1>1, <1>2, <1>3, <1>4, <1>5, <1>6 DEF TerminalFits
<1>9. /\ finished \in Nat /\ announced \in Nat
      /\ \A j \in finished + 2 .. announced : j \in finished + 1 .. announced
      /\ \A j \in finished + 1 .. announced : calls[j].id \in Nat
  <2>1. /\ calls \in Seq(Calls) /\ finished \in Nat /\ announced \in Nat
        /\ announced <= Len(calls)
    BY DEF PageInv, AgentFits, CallSeqs
  <2>2. ASSUME NEW j \in finished + 1 .. announced PROVE calls[j].id \in Nat
    <3>1. j \in 1 .. Len(calls)  BY <2>1
    <3>2. calls[j] \in Calls  BY <2>1, <3>1
    <3> QED  BY <3>2 DEF Calls
  <2> QED  BY <2>1, <2>2
<1>10. finished' + 1 = finished + 2  BY <1>2, <1>9
<1>11. CASE UNCHANGED msgs
  <2>1. BubbleHas => BubbleHas'
    <3>1. Bubble' = Bubble  BY <1>11 DEF Bubble
    <3> QED  BY <1>2, <1>9, <1>10, <3>1 DEF BubbleHas
  <2>2. CallsFit'  BY <1>1, <1>3, <1>4, <1>5, <1>6, <1>11, <2>1 DEF CallsFit
  <2> QED  BY <1>1, <1>7, <1>8, <1>11, <2>2 DEF CallsInv
<1>12. CASE stream # "none" /\ Patch(ApplyResult(Bubble, c))
  <2> DEFINE fs == ApplyResult(Bubble, c)
  <2>1. Patch(fs)  BY <1>12
  <2>2. /\ msgs \in Seq(Messages) /\ msgs # <<>> /\ Last(msgs).role = "assistant"
        /\ Bubble = Last(msgs).events /\ Bubble \in Seq(Events)
    BY <1>12, BubbleIs DEF PageInv
  <2>3. /\ fs \in Seq(Events)
        /\ HasCall(Bubble, c.id) \/ c.tool = "bash" =>
             ShownCalls(fs) = ShownCalls(Bubble) /\ AskedIn(fs) = AskedIn(Bubble)
        /\ HasCall(Bubble, c.id) \/ c.tool = "bash" =>
             \A n \in DOMAIN fs : fs[n].kind = "tool" =>
               \/ /\ n \in DOMAIN Bubble /\ Bubble[n].kind = "tool"
                  /\ fs[n].call = Bubble[n].call /\ (fs[n].stub => Bubble[n].stub)
               \/ c.tool = "bash" /\ fs[n].call = c
        /\ \A i \in Nat : HasCall(Bubble, i) => HasCall(fs, i)
    BY <2>2, ApplyResultTells
  <2> HIDE DEF fs
  <2>4. msgs' = Renewed(msgs, fs)  BY <1>12, <2>1, <2>3, PatchIs DEF PageInv
  <2>5. Bubble' = fs
    <3>1. Bubble' = Last(msgs').events  BY DEF Bubble
    <3>2. Last(msgs') = Bubbly(fs)  BY <2>2, <2>3, <2>4, RenewedTells
    <3> QED  BY <2>3, <3>1, <3>2, BubblyFits
  <2>6. UsersAsk(msgs')  BY <1>1, <2>2, <2>3, <2>4, RenewedStubs
  <2>7. CallsFit'
    <3>1. SUFFICES ASSUME ~ stopped, early = {}
                   PROVE  /\ CallIds(msgs') \o IdsOf(Upcoming, FALSE) = RowsIds(rows, FALSE)
                          /\ Trail(msgs') \o AsksOf(Upcoming) = RowsAsks(rows)
                          /\ BubbleHas' /\ Stubs(msgs')
      BY <1>3, <1>4, <1>5, <1>6 DEF CallsFit
    <3>2. /\ CallIds(msgs) \o IdsOf(Upcoming, FALSE) = RowsIds(rows, FALSE)
          /\ Trail(msgs) \o AsksOf(Upcoming) = RowsAsks(rows)
          /\ BubbleHas /\ Stubs(msgs)
      BY <1>1, <3>1 DEF CallsFit
    <3>3. HasCall(Bubble, c.id) \/ c.tool = "bash"
      <4>1. finished + 1 \in finished + 1 .. announced  BY <1>2, <1>9
      <4> QED  BY <1>2, <3>2, <4>1 DEF BubbleHas
    <3>4. ShownCalls(fs) = ShownCalls(Last(msgs).events) /\ AskedIn(fs) = AskedIn(Last(msgs).events)
      BY <2>2, <2>3, <3>3
    <3>5. CallIds(msgs') = CallIds(msgs) /\ Trail(msgs') = Trail(msgs)
      BY <2>2, <2>3, <2>4, <3>4, RenewedSame
    <3>6. StubsIn(Bubble)  BY <2>2, <2>3, <3>2, RenewedStubs
    <3>7. StubsIn(fs)
      <4>1. ASSUME NEW n \in DOMAIN fs, fs[n].kind = "tool", fs[n].stub
            PROVE  fs[n].call.tool = "bash"
        BY <2>3, <3>3, <3>6, <4>1 DEF StubsIn
      <4> QED  BY <4>1 DEF StubsIn
    <3>8. Stubs(msgs')  BY <2>2, <2>3, <2>4, <3>2, <3>7, RenewedStubs
    <3>9. BubbleHas'
      <4>1. SUFFICES ASSUME NEW j \in finished + 2 .. announced, calls[j].tool # "bash"
                     PROVE  HasCall(fs, calls[j].id)
        BY <1>2, <1>10, <2>5 DEF BubbleHas
      <4>2. HasCall(Bubble, calls[j].id)  BY <1>9, <3>2, <4>1 DEF BubbleHas
      <4> QED  BY <1>9, <2>3, <4>2
    <3> QED  BY <3>2, <3>5, <3>8, <3>9
  <2> QED  BY <1>7, <1>8, <2>6, <2>7 DEF CallsInv
<1> QED  BY <1>2, <1>11, <1>12

\* A round is over when all of its calls have been announced.
LEMMA AllAnnounced ==
  ASSUME AgentFits, finished >= Len(calls)
  PROVE  announced = Len(calls) /\ finished = announced /\ Upcoming = <<>>
<1>1. /\ Len(calls) \in Nat /\ announced \in Nat /\ finished \in Nat
      /\ finished <= announced /\ announced <= Len(calls)
  BY UpcomingIs DEF AgentFits
<1>2. announced = Len(calls) /\ finished = announced  BY <1>1
<1> QED  BY <1>2, UpcomingIs

\* Then the next round has nothing to announce, and the terminal has all.
LEMMA NextRoundCalls == ASSUME PageInv, CallsInv, NextRound PROVE CallsInv'
<1>1. UsersAsk(msgs) /\ NumbersFit /\ TerminalFits /\ CallsFit  BY DEF CallsInv
<1>2. /\ finished = Len(calls) /\ calls' = <<>> /\ announced' = 0 /\ finished' = 0
      /\ UNCHANGED <<rows, msgs, terminal, ids, early, stopped>>
  BY DEF NextRound, shown, spent, noted
<1>3. Len(calls) \in Nat /\ ids \in Nat  BY UpcomingIs DEF PageInv
<1>4. announced = Len(calls) /\ finished = announced /\ Upcoming = <<>>
  BY <1>2, <1>3, AllAnnounced DEF PageInv
<1>5. Upcoming' = <<>> /\ Len(calls') = 0 /\ DOMAIN calls' = {}
  <2>1. SubSeq(<<>>, 0 + 1, 0) = <<>> /\ Len(<<>>) = 0 /\ DOMAIN <<>> = {}  OBVIOUS
  <2> QED  BY <1>2, <2>1 DEF Upcoming
<1>6. /\ \A b \in BOOLEAN : IdsOf(<<>>, b) = <<>>
      /\ AsksOf(<<>>) = <<>> /\ TRUE \in BOOLEAN /\ FALSE \in BOOLEAN
  BY NoneShown
<1>7. NumbersFit'
  <2>1. terminal \in Seq(1 .. ids)  BY <1>1 DEF NumbersFit
  <2>2. \A n \in DOMAIN terminal : terminal[n] \in 1 .. ids  BY <2>1, OfSeq
  <2>3. \A n \in DOMAIN terminal : terminal[n] <= ids - 0 + 0  BY <1>3, <2>2
  <2>4. 0 <= ids  BY <1>3
  <2> QED  BY <1>1, <1>2, <1>5, <2>3, <2>4 DEF NumbersFit
<1>8. TerminalFits'
  <2>1. IdsOf(Upcoming, TRUE) = <<>> /\ IdsOf(Upcoming', TRUE) = <<>>  BY <1>4, <1>5, <1>6
  <2> QED  BY <1>1, <1>2, <2>1 DEF TerminalFits
<1>9. CallsFit'
  <2>1. BubbleHas'
    <3>1. finished' + 1 .. announced' = {}  BY <1>2
    <3> QED  BY <3>1 DEF BubbleHas
  <2> QED  BY <1>1, <1>2, <1>4, <1>5, <2>1 DEF CallsFit
<1> QED  BY <1>1, <1>2, <1>7, <1>8, <1>9 DEF CallsInv

\* The end of a stream leaves the calls of its bubble in it.
LEMMA BubbleEnds ==
  ASSUME PageInv, stream # "none", NEW flush \in BOOLEAN, Ends(flush)
  PROVE  /\ UsersAsk(msgs) => UsersAsk(msgs')
         /\ Stubs(msgs) => Stubs(msgs')
         /\ CallIds(msgs') = CallIds(msgs) /\ Trail(msgs') = Trail(msgs)
         /\ \A i \in Nat : HasCall(Bubble, i) => HasCall(Bubble', i)
<1> DEFINE es == IF flush THEN Flushed(Bubble, split) ELSE Bubble
           fs == Reconciled(es)
<1>1. Patch(fs)  BY DEF Ends
<1>2. /\ msgs \in Seq(Messages) /\ msgs # <<>> /\ Last(msgs).role = "assistant"
      /\ Bubble = Last(msgs).events /\ Bubble \in Seq(Events)
  BY BubbleIs DEF PageInv
<1>3. split \in Splits  BY DEF PageInv, BrowserFits
<1>4. es \in Seq(Events) /\ SameCalls(es, Bubble)
  <2>1. CASE flush  BY <1>2, <1>3, <2>1, FlushedTells
  <2>2. CASE ~ flush  BY <1>2, <2>2 DEF SameCalls
  <2> QED  BY <2>1, <2>2
<1> HIDE DEF es
<1>5. fs \in Seq(Events) /\ Alike(fs, es)  BY <1>4, ReconciledTells
<1> HIDE DEF fs
<1>6. ShownCalls(fs) = ShownCalls(es) /\ AskedIn(fs) = AskedIn(es)  BY <1>4, <1>5, AlikeTells
<1>7. ShownCalls(fs) = ShownCalls(Last(msgs).events) /\ AskedIn(fs) = AskedIn(Last(msgs).events)
  BY <1>2, <1>4, <1>6 DEF SameCalls
<1>8. msgs' = Renewed(msgs, fs)  BY <1>1, <1>5, PatchIs DEF PageInv
<1>9. CallIds(msgs') = CallIds(msgs) /\ Trail(msgs') = Trail(msgs)
  BY <1>2, <1>5, <1>7, <1>8, RenewedSame
<1>10. /\ \A i \in Nat : HasCall(Bubble, i) => HasCall(es, i)
       /\ StubsIn(Bubble) => StubsIn(es)
  BY <1>4, SameHas
<1>11. /\ DOMAIN fs = DOMAIN es
       /\ \A n \in DOMAIN es : /\ fs[n].kind = es[n].kind
                               /\ es[n].kind = "tool" =>
                                    fs[n].call = es[n].call /\ (fs[n].stub => es[n].stub)
  <2>1. DOMAIN es = 1 .. Len(es) /\ DOMAIN fs = 1 .. Len(fs)  BY <1>4, <1>5
  <2> QED  BY <1>5, <2>1 DEF Alike
<1>12. \A i \in Nat : HasCall(es, i) => HasCall(fs, i)  BY <1>11 DEF HasCall
<1>13. StubsIn(es) => StubsIn(fs)  BY <1>11 DEF StubsIn
<1>14. Bubble' = fs
  <2>1. Bubble' = Last(msgs').events  BY DEF Bubble
  <2>2. Last(msgs') = Bubbly(fs)  BY <1>2, <1>5, <1>8, RenewedTells
  <2> QED  BY <1>5, <2>1, <2>2, BubblyFits
<1>15. /\ UsersAsk(msgs) => UsersAsk(msgs')
       /\ Stubs(msgs) /\ StubsIn(fs) => Stubs(msgs')
       /\ Stubs(msgs) => StubsIn(Last(msgs).events)
  BY <1>2, <1>5, <1>8, RenewedStubs
<1>16. Stubs(msgs) => Stubs(msgs')  BY <1>2, <1>10, <1>13, <1>15
<1>17. ASSUME NEW i \in Nat, HasCall(Bubble, i) PROVE HasCall(Bubble', i)
  <2>1. HasCall(fs, i)  BY <1>10, <1>12, <1>17
  <2> QED  BY <1>14, <2>1
<1>18. \A i \in Nat : HasCall(Bubble, i) => HasCall(Bubble', i)  BY <1>17
<1> QED  BY <1>9, <1>15, <1>16, <1>18

\* The calls are shown when the stream ends, ...
LEMMA StreamEndsCalls == ASSUME PageInv, CallsInv, StreamEnds PROVE CallsInv'
<1>1. /\ stream # "none"
      /\ UNCHANGED <<rows, calls, announced, finished, ids, early, stopped, terminal>>
  BY DEF StreamEnds, server, spent
<1>2. PICK flush \in BOOLEAN : Ends(flush)  BY DEF StreamEnds
<1>3. /\ UsersAsk(msgs) => UsersAsk(msgs')
      /\ Stubs(msgs) => Stubs(msgs')
      /\ CallIds(msgs') = CallIds(msgs) /\ Trail(msgs') = Trail(msgs)
      /\ \A i \in Nat : HasCall(Bubble, i) => HasCall(Bubble', i)
  BY <1>1, <1>2, BubbleEnds
<1>4. UsersAsk(msgs) /\ AgentFits  BY DEF CallsInv, PageInv
<1> QED  BY <1>1, <1>3, <1>4, CallsKept

\* ... and after the turn.
LEMMA TurnEndsCalls == ASSUME PageInv, CallsInv, TurnEnds PROVE CallsInv'
<1>1. UNCHANGED <<rows, msgs, calls, announced, finished, ids, early, stopped, terminal>>
  BY DEF TurnEnds, shown, spent, noted
<1>2. UsersAsk(msgs) /\ AgentFits /\ Bubble' = Bubble
  BY <1>1 DEF CallsInv, PageInv, Bubble
<1> QED  BY <1>1, <1>2, CallsKept

\* Once the browser has stopped a stream, what it shows may lack calls.
LEMMA StopCalls == ASSUME PageInv, CallsInv, Stop PROVE CallsInv'
<1>1. UsersAsk(msgs) /\ NumbersFit  BY DEF CallsInv
<1>2. /\ stream # "none" /\ stopped' = TRUE
      /\ UNCHANGED <<rows, calls, announced, finished, ids, early, terminal>>
  BY DEF Stop, server, spent
<1>3. PICK flush \in BOOLEAN : Ends(flush)  BY DEF Stop
<1>4. UsersAsk(msgs')  BY <1>1, <1>2, <1>3, BubbleEnds
<1>5. Resumed' <=> Resumed  BY <1>2 DEF Resumed
<1>6. NumbersFit'  BY <1>1, <1>2, <1>5 DEF NumbersFit
<1>7. TerminalFits' /\ CallsFit'  BY <1>2 DEF TerminalFits, CallsFit
<1> QED  BY <1>4, <1>6, <1>7 DEF CallsInv

\* What rows are retold as has no stub, and nothing in a message of the user.
LEMMA RetoldFits ==
  ASSUME NEW ms, Retells(ms, rows)
  PROVE  UsersAsk(ms) /\ Stubs(ms)
<1>1. \A e \in Restored : e.kind = "tool" => ~ e.stub
  BY DEF Restored, TextEvents, ToolEv
<1>2. \A i \in DOMAIN ms : /\ ms[i].events \in Seq(Restored)
                           /\ ms[i].role = "user" => ms[i].events = <<>>
  BY DEF Retells
<1>3. ASSUME NEW i \in DOMAIN ms, NEW n \in DOMAIN ms[i].events
      PROVE  ms[i].events[n] \in Restored
  BY <1>2, OfSeq
<1> QED  BY <1>1, <1>2, <1>3 DEF UsersAsk, Stubs

\* What is restored has no stub, and a bubble for the rest of the turn adds nothing.
LEMMA RestoredShows ==
  ASSUME PageInv, Reload
  PROVE  /\ UsersAsk(msgs') /\ Stubs(msgs')
         /\ CallIds(msgs') = RowsIds(rows, FALSE) /\ Trail(msgs') = RowsAsks(rows)
<1> DEFINE ms == Rebuilt
           b == Bubbly(<<>>)
<1>1. /\ Retells(ms, rows) /\ ms \in Seq(Messages)
      /\ msgs' = ms \/ msgs' = Append(ms, b)
  BY ReloadIs DEF PageInv
<1> HIDE DEF ms
<1>2. b \in Messages /\ b.events = <<>> /\ b.role = "assistant" /\ TrailOf(b) = AskedIn(<<>>)
  <2>1. <<>> \in Seq(Events)  BY EmptySeq
  <2> QED  BY <2>1, BubblyFits
<1> HIDE DEF b
<1>3. CallIds(ms) = RowsIds(rows, FALSE) /\ Trail(ms) = RowsAsks(rows)
  BY <1>1 DEF Retells
<1>5. UsersAsk(ms) /\ Stubs(ms)  BY <1>1, RetoldFits
<1>6. \A i \in DOMAIN msgs' : (i \in DOMAIN ms /\ msgs'[i] = ms[i]) \/ msgs'[i] = b
  <2>1. CASE msgs' = ms  BY <2>1
  <2>2. CASE msgs' = Append(ms, b)
    <3>1. /\ Len(msgs') = Len(ms) + 1 /\ msgs'[Len(ms) + 1] = b /\ msgs' \in Seq(Messages)
          /\ \A i \in 1 .. Len(ms) : msgs'[i] = ms[i]
      BY <1>1, <1>2, <2>2, AppendFits
    <3>2. /\ Len(ms) \in Nat /\ DOMAIN ms = 1 .. Len(ms) /\ DOMAIN msgs' = 1 .. Len(ms) + 1
      BY <1>1, <3>1
    <3>3. \A i \in 1 .. Len(ms) + 1 : i \in 1 .. Len(ms) \/ i = Len(ms) + 1  BY <3>2
    <3> QED  BY <3>1, <3>2, <3>3
  <2> QED  BY <1>1, <2>1, <2>2
<1>7. UsersAsk(msgs')  BY <1>2, <1>5, <1>6 DEF UsersAsk
<1>8. Stubs(msgs')
  <2>1. ASSUME NEW i \in DOMAIN msgs', NEW n \in DOMAIN msgs'[i].events,
               msgs'[i].events[n].kind = "tool", msgs'[i].events[n].stub
        PROVE  msgs'[i].events[n].call.tool = "bash"
    <3>1. msgs'[i] # b
      <4>1. DOMAIN <<>> = {}  OBVIOUS
      <4> QED  BY <1>2, <2>1, <4>1
    <3> QED  BY <1>5, <1>6, <2>1, <3>1 DEF Stubs
  <2> QED  BY <2>1 DEF Stubs
<1>9. CallIds(msgs') = CallIds(ms) /\ Trail(msgs') = Trail(ms)
  <2>1. CallIds(Append(ms, b)) = CallIds(ms) \o <<>>
    BY ZenonT(40), <1>1, <1>2, CallIdsFit, ShownFit
  <2>2. Trail(Append(ms, b)) = Trail(ms) \o <<>>  BY <1>1, <1>2, TrailFit, AskedFit
  <2>3. CallIds(ms) \in Seq(Nat) /\ Trail(ms) \in Seq(Nat)  BY <1>1, CallIdsFit, TrailFit
  <2> QED  BY <1>1, <2>1, <2>2, <2>3, ConcatEmptySeq
<1> QED  BY <1>3, <1>7, <1>8, <1>9

\* The rows have the calls of the round, announced or not.
LEMMA ReloadCalls == ASSUME PageInv, CallsInv, Reload PROVE CallsInv'
<1>1. NumbersFit  BY DEF CallsInv
<1>2. /\ terminal' = RowsIds(rows, TRUE) /\ terminal' \in Seq(Nat)
      /\ early' = early \cup {calls[i].id : i \in finished + 1 .. Len(calls)}
      /\ UNCHANGED <<rows, calls, announced, finished, ids>>
  BY ReloadIs DEF PageInv
<1>3. /\ UsersAsk(msgs') /\ Stubs(msgs')
      /\ CallIds(msgs') = RowsIds(rows, FALSE) /\ Trail(msgs') = RowsAsks(rows)
  BY RestoredShows
<1>4. /\ Len(calls) \in Nat /\ announced \in Nat /\ finished \in Nat /\ ids \in Nat
      /\ DOMAIN calls = 1 .. Len(calls) /\ announced <= Len(calls) /\ finished <= announced
  BY UpcomingIs DEF PageInv, AgentFits
<1>5. \A i \in finished + 1 .. Len(calls) : i \in DOMAIN calls  BY <1>4
<1>6. finished < Len(calls) => Resumed' /\ early' # {}
  <2>1. SUFFICES ASSUME finished < Len(calls) PROVE Resumed' /\ early' # {}  OBVIOUS
  <2>2. Len(calls) \in finished + 1 .. Len(calls)  BY <1>4, <2>1
  <2>3. Len(calls) \in DOMAIN calls /\ calls[Len(calls)].id \in early'  BY <1>2, <1>5, <2>2
  <2> QED  BY <1>2, <2>3 DEF Resumed
<1>7. ~ finished < Len(calls) =>
        /\ announced = Len(calls) /\ finished = announced /\ Upcoming = <<>>
  <2>1. ~ finished < Len(calls) => finished >= Len(calls)  BY <1>4
  <2>2. AgentFits  BY DEF PageInv
  <2> QED  BY <2>1, <2>2, AllAnnounced
<1>8. Upcoming' = Upcoming  BY <1>2 DEF Upcoming
<1>9. RowsIds(rows, TRUE) \in Seq(1 .. ids)  BY <1>1 DEF NumbersFit
<1>10. NumbersFit'
  <2>1. early' \subseteq 1 .. ids
    <3>1. ASSUME NEW i \in finished + 1 .. Len(calls) PROVE calls[i].id \in 1 .. ids
      <4>1. calls[i].id = ids - Len(calls) + i /\ Len(calls) <= ids
        BY <1>1, <1>5, <3>1 DEF NumbersFit
      <4>2. i \in Nat /\ i >= 1 /\ i <= Len(calls)  BY <1>4
      <4>3. \A n \in Nat, l \in Nat, j \in Nat :
              l <= n /\ j >= 1 /\ j <= l => n - l + j \in 1 .. n
        OBVIOUS
      <4> QED  BY <1>4, <4>1, <4>2, <4>3
    <3> QED  BY <1>1, <1>2, <3>1 DEF NumbersFit
  <2>2. \A n \in DOMAIN terminal' : terminal'[n] \in 1 .. ids  BY <1>2, <1>9, OfSeq
  <2>3. ~ Resumed' => \A n \in DOMAIN terminal' : terminal'[n] <= ids - Len(calls) + announced
    <3>1. SUFFICES ASSUME ~ Resumed', NEW n \in DOMAIN terminal'
                   PROVE  terminal'[n] <= ids - Len(calls) + announced
      OBVIOUS
    <3>2. announced = Len(calls)  BY <1>6, <1>7, <3>1
    <3>3. terminal'[n] \in 1 .. ids  BY <2>2
    <3>4. \A x \in Nat, l \in Nat : x - l + l = x  OBVIOUS
    <3> QED  BY <1>4, <3>2, <3>3, <3>4
  <2> QED  BY <1>1, <1>2, <1>9, <2>1, <2>3 DEF NumbersFit
<1>11. /\ \A b \in BOOLEAN : IdsOf(<<>>, b) = <<>>
       /\ AsksOf(<<>>) = <<>> /\ TRUE \in BOOLEAN /\ FALSE \in BOOLEAN
  BY NoneShown
<1>12. TerminalFits'
  <2>1. (IF Resumed' THEN <<>> ELSE IdsOf(Upcoming', TRUE)) = <<>>
    BY <1>6, <1>7, <1>8, <1>11
  <2>2. terminal' \o <<>> = terminal'  BY <1>2, ConcatEmptySeq
  <2> QED  BY <1>2, <2>1, <2>2 DEF TerminalFits
<1>13. CallsFit'
  <2>1. SUFFICES ASSUME early' = {}
                 PROVE  /\ CallIds(msgs') \o IdsOf(Upcoming', FALSE) = RowsIds(rows, FALSE)
                        /\ Trail(msgs') \o AsksOf(Upcoming') = RowsAsks(rows)
                        /\ BubbleHas' /\ Stubs(msgs')
    BY <1>2 DEF CallsFit
  <2>2. announced = Len(calls) /\ finished = announced /\ Upcoming = <<>>  BY <1>6, <1>7, <2>1
  <2>3. BubbleHas'
    <3>1. finished' + 1 .. announced' = {}  BY <1>2, <1>4, <2>2
    <3> QED  BY <3>1 DEF BubbleHas
  <2>4. RowsIds(rows, FALSE) \in Seq(Nat) /\ RowsAsks(rows) \in Seq(Nat)
    <3>1. rows \in Seq(Rows)  BY DEF PageInv, AgentFits
    <3> QED  BY <1>11, <3>1, RowsIdsFit, RowsAsksFit
  <2> QED  BY <1>3, <1>8, <1>11, <2>2, <2>3, <2>4, ConcatEmptySeq
<1> QED  BY <1>3, <1>10, <1>12, <1>13 DEF CallsInv

\* Every step keeps what is shown of the calls.
LEMMA NextCalls ==
  ASSUME PageInv, TextFits, CallsInv, [Next]_vars
  PROVE  CallsInv'
<1>1. CASE Next
  BY <1>1, SendCalls, ProduceCalls, DeltaCalls, StoreRowCalls, AnnounceCalls, FinishCalls,
     NextRoundCalls, StreamEndsCalls, TurnEndsCalls, StopCalls, ReloadCalls DEF Next
<1>2. CASE UNCHANGED vars
  <2>1. UNCHANGED <<rows, msgs, calls, announced, finished, ids, early, stopped, terminal>>
    BY <1>2 DEF vars, server, shown, spent, noted
  <2>2. UsersAsk(msgs) /\ AgentFits /\ Bubble' = Bubble
    BY <2>1 DEF CallsInv, PageInv, Bubble
  <2> QED  BY <2>1, <2>2, CallsKept
<1> QED  BY <1>1, <1>2

-----------------------------------------------------------------------------
(* The question that is pending. *)

\* The greatest of some places in a sequence.
LEMMA GreatestPlace ==
  ASSUME NEW n \in Nat, NEW P, P \subseteq 1 .. n, P # {}
  PROVE  Max(P) \in P /\ \A y \in P : y <= Max(P)
<1> DEFINE U == {n - i : i \in P}
<1>1. U \subseteq Nat /\ U # {}
  <2>1. \A i \in P : n - i \in Nat  OBVIOUS
  <2> QED  BY <2>1
<1> HIDE DEF U
<1>2. PICK u \in U : \A v \in U : u <= v  BY <1>1, LeastNumber
<1>3. PICK x \in P : u = n - x  BY DEF U
<1>4. \A y \in P : x >= y
  <2>1. SUFFICES ASSUME NEW y \in P PROVE x >= y  OBVIOUS
  <2>2. n - y \in U  BY DEF U
  <2>3. n - x <= n - y  BY <1>2, <1>3, <2>2
  <2>4. x \in Int /\ y \in Int  OBVIOUS
  <2> QED  BY <2>3, <2>4
<1>5. Max(P) \in P /\ \A y \in P : Max(P) >= y  BY <1>3, <1>4 DEF Max
<1>6. \A y \in P : y \in Nat  OBVIOUS
<1> QED  BY <1>5, <1>6

\* The last number of two lists.
LEMMA LastOfTwo ==
  ASSUME NEW x \in Seq(Nat), NEW y \in Seq(Nat), y # <<>>
  PROVE  x \o y # <<>> /\ Last(x \o y) = Last(y)
<1>1. /\ x \o y \in Seq(Nat) /\ Len(x \o y) = Len(x) + Len(y)
      /\ \A i \in 1 .. Len(y) : (x \o y)[Len(x) + i] = y[i]
  OBVIOUS
<1>2. Len(x) \in Nat /\ Len(y) \in Nat /\ Len(y) >= 1  OBVIOUS
<1>3. Last(y) = y[Len(y)] /\ (x \o y)[Len(x) + Len(y)] = y[Len(y)]
  <2>1. Len(y) \in 1 .. Len(y)  BY <1>2
  <2>2. Last(y) = y[Len(y)]  BY LastIs
  <2> QED  BY <1>1, <2>1, <2>2
<1>4. x \o y # <<>>  BY <1>1, <1>2
<1>5. Last(x \o y) = (x \o y)[Len(x \o y)]  BY <1>1, <1>4, LastIs
<1> QED  BY <1>1, <1>3, <1>4, <1>5

\* A list that is made of what each element gives, in order, ends with what the last
\* of them that gives anything ends with.
EndsWith(F, f, s) ==
  /\ (\A j \in 1 .. Len(s) : f[s[j]] = <<>>) => F[s] = <<>>
  /\ \A m \in 1 .. Len(s) :
       f[s[m]] # <<>> /\ (\A j \in m + 1 .. Len(s) : f[s[j]] = <<>>) =>
         F[s] # <<>> /\ Last(F[s]) = Last(f[s[m]])

\* It is so when an element that is added gives its part at the end.
LEMMA GivesLast ==
  ASSUME NEW S, NEW f \in [S -> Seq(Nat)], NEW F \in [Seq(S) -> Seq(Nat)], F[<<>>] = <<>>,
         \A s \in Seq(S), e \in S : F[Append(s, e)] = F[s] \o f[e]
  PROVE  \A s \in Seq(S) : EndsWith(F, f, s)
<1> DEFINE N == {n \in Nat : \A s \in Seq(S) : Len(s) = n => EndsWith(F, f, s)}
<1>1. 0 \in N
  <2>1. ASSUME NEW s \in Seq(S), Len(s) = 0 PROVE EndsWith(F, f, s)
    <3>1. s = <<>>  BY <2>1
    <3>2. 1 .. Len(s) = {}  BY <2>1
    <3> QED  BY <3>1, <3>2 DEF EndsWith
  <2> QED  BY <2>1
<1>2. ASSUME NEW n \in Nat, n \in N PROVE n + 1 \in N
  <2>1. ASSUME NEW t \in Seq(S), Len(t) = n + 1 PROVE EndsWith(F, f, t)
    <3>1. t # <<>>  BY <2>1
    <3> DEFINE s == Front(t)
               e == Last(t)
    <3>2. /\ s \in Seq(S) /\ Len(s) = n /\ e \in S /\ t = Append(s, e) /\ t[n + 1] = e
          /\ \A i \in 1 .. n : s[i] = t[i]
      <4>1. /\ e = t[Len(t)] /\ e \in S /\ s \in Seq(S) /\ Len(s) = Len(t) - 1
            /\ \A i \in 1 .. Len(t) - 1 : s[i] = t[i]
            /\ t = Append(s, e)
        BY <3>1, LastIs
      <4>2. Len(t) - 1 = n  BY <2>1
      <4> HIDE DEF s, e
      <4> QED  BY <2>1, <4>1, <4>2
    <3> HIDE DEF s, e
    <3>3. EndsWith(F, f, s)  BY <1>2, <3>2
    <3>4. F[t] = F[s] \o f[e] /\ F[s] \in Seq(Nat) /\ f[e] \in Seq(Nat)  BY <3>2
    <3>5. F[s] \o <<>> = F[s]  BY <3>4, ConcatEmptySeq
    <3> HIDE DEF N
    <3>6. ASSUME \A j \in 1 .. n + 1 : f[t[j]] = <<>> PROVE F[t] = <<>>
      <4>1. f[e] = <<>>
        <5>1. n + 1 \in 1 .. n + 1  OBVIOUS
        <5> QED  BY <3>2, <3>6, <5>1
      <4>2. \A j \in 1 .. Len(s) : f[s[j]] = <<>>
        <5>1. \A j \in 1 .. n : j \in 1 .. n + 1  OBVIOUS
        <5> QED  BY <3>2, <3>6, <5>1
      <4>3. F[s] = <<>>  BY <3>3, <4>2 DEF EndsWith
      <4> QED  BY <3>4, <3>5, <4>1, <4>3
    <3>7. ASSUME NEW m \in 1 .. n + 1, f[t[m]] # <<>>,
                 \A j \in m + 1 .. n + 1 : f[t[j]] = <<>>
          PROVE  F[t] # <<>> /\ Last(F[t]) = Last(f[t[m]])
      <4>1. CASE m = n + 1
        <5>1. t[m] = e  BY <3>2, <4>1
        <5>2. f[e] # <<>>  BY <3>7, <5>1
        <5>3. F[s] \o f[e] # <<>> /\ Last(F[s] \o f[e]) = Last(f[e])  BY <3>4, <5>2, LastOfTwo
        <5> QED  BY <3>4, <5>1, <5>3
      <4>2. CASE m # n + 1
        <5>1. m \in 1 .. n /\ n + 1 \in m + 1 .. n + 1
              /\ \A j \in m + 1 .. n : j \in m + 1 .. n + 1 /\ j \in 1 .. n
          BY <4>2
        <5>2. f[e] = <<>>  BY <3>2, <3>7, <5>1
        <5>3. f[s[m]] # <<>> /\ \A j \in m + 1 .. Len(s) : f[s[j]] = <<>>
          BY <3>2, <3>7, <5>1
        <5>4. F[s] # <<>> /\ Last(F[s]) = Last(f[s[m]])
          BY <3>2, <3>3, <5>1, <5>3 DEF EndsWith
        <5>5. F[t] = F[s] /\ s[m] = t[m]  BY <3>2, <3>4, <3>5, <5>1, <5>2
        <5> QED  BY <5>4, <5>5
      <4> QED  BY <4>1, <4>2
    <3> QED  BY <2>1, <3>6, <3>7 DEF EndsWith
  <2> QED  BY <2>1
<1>3. Nat \subseteq N
  <2> HIDE DEF N
  <2> QED  BY <1>1, <1>2, SetInduction
<1>4. ASSUME NEW s \in Seq(S) PROVE EndsWith(F, f, s)
  <2>1. Len(s) \in N  BY <1>3
  <2> QED  BY <2>1
<1> QED  BY <1>4

\* The questions of a bubble, the last of which is the last it asks.
Asks(es) == {n \in DOMAIN es : es[n].kind = "tool" /\ es[n].call.tool = "ask"}

\* It is one of the places, and its call is what the list of questions ends with.
LEMMA AskedLast ==
  ASSUME NEW es \in Seq(Events)
  PROVE  /\ Asks(es) = {} => AskedIn(es) = <<>>
         /\ Asks(es) # {} =>
              /\ AskedIn(es) # <<>> /\ Max(Asks(es)) \in Asks(es)
              /\ Last(AskedIn(es)) = es[Max(Asks(es))].call.id
<1> DEFINE f == [e \in Events |-> Ask(e)]
           F == [s \in Seq(Events) |-> AskedIn(s)]
<1>1. \A e \in Events : Ask(e) = AskedIn(<<e>>)  BY AskedFit
<1>2. \A e \in Events : Ask(e) \in Seq(Nat)
  <2>1. \A e \in Events : <<e>> \in Seq(Events)  OBVIOUS
  <2> QED  BY <1>1, <2>1, AskedFit
<1>3. f \in [Events -> Seq(Nat)] /\ \A e \in Events : f[e] = Ask(e)  BY <1>2
<1>4. F \in [Seq(Events) -> Seq(Nat)] /\ \A s \in Seq(Events) : F[s] = AskedIn(s)
  BY AskedFit
<1> HIDE DEF f, F
<1>5. F[<<>>] = <<>>
  <2>1. <<>> \in Seq(Events)  BY EmptySeq
  <2> QED  BY <1>4, <2>1, AskedFit
<1>6. ASSUME NEW s \in Seq(Events), NEW e \in Events PROVE F[Append(s, e)] = F[s] \o f[e]
  <2>1. Append(s, e) \in Seq(Events)  BY AppendFits
  <2> QED  BY <1>3, <1>4, <2>1, AskedFit
<1>7. EndsWith(F, f, es)  BY <1>3, <1>4, <1>5, <1>6, GivesLast
<1>8. /\ Len(es) \in Nat /\ DOMAIN es = 1 .. Len(es) /\ \A n \in 1 .. Len(es) : es[n] \in Events
  OBVIOUS
<1>9. \A n \in 1 .. Len(es) : f[es[n]] = IF n \in Asks(es) THEN <<es[n].call.id>> ELSE <<>>
  BY <1>3, <1>8 DEF Ask, AskOf, Asks
<1>10. Asks(es) = {} => AskedIn(es) = <<>>  BY <1>4, <1>7, <1>9 DEF EndsWith
<1>11. ASSUME Asks(es) # {}
       PROVE  /\ AskedIn(es) # <<>> /\ Max(Asks(es)) \in Asks(es)
              /\ Last(AskedIn(es)) = es[Max(Asks(es))].call.id
  <2> DEFINE A == Asks(es)
             m == Max(A)
  <2>1. A \subseteq 1 .. Len(es) /\ A # {}  BY <1>8, <1>11 DEF Asks
  <2> HIDE DEF A
  <2>2. m \in A /\ \A y \in A : y <= m  BY <1>8, <2>1, GreatestPlace
  <2> HIDE DEF m
  <2>3. m \in 1 .. Len(es)  BY <2>1, <2>2
  <2>4. f[es[m]] = <<es[m].call.id>>  BY <1>9, <2>2, <2>3 DEF A
  <2>5. \A j \in m + 1 .. Len(es) : j \in 1 .. Len(es) /\ j \notin A
    BY <1>8, <2>2, <2>3
  <2>6. \A j \in m + 1 .. Len(es) : f[es[j]] = <<>>  BY <1>9, <2>5 DEF A
  <2>7. <<es[m].call.id>> # <<>> /\ Last(<<es[m].call.id>>) = es[m].call.id
    BY DEF Last
  <2>8. F[es] # <<>> /\ Last(F[es]) = es[m].call.id
    BY Zenon, <1>7, <2>3, <2>4, <2>6, <2>7 DEF EndsWith
  <2> QED  BY <1>4, <2>2, <2>8 DEF A, m
<1> QED  BY <1>10, <1>11

\* The messages' trail ends with what the last message that leaves any ends with.
LEMMA TrailEnds ==
  ASSUME NEW ms \in Seq(Messages)
  PROVE  /\ (\A j \in 1 .. Len(ms) : TrailOf(ms[j]) = <<>>) => Trail(ms) = <<>>
         /\ \A m \in 1 .. Len(ms) :
              TrailOf(ms[m]) # <<>> /\ (\A j \in m + 1 .. Len(ms) : TrailOf(ms[j]) = <<>>) =>
                Trail(ms) # <<>> /\ Last(Trail(ms)) = Last(TrailOf(ms[m]))
<1> DEFINE f == [e \in Messages |-> TrailOf(e)]
           F == [s \in Seq(Messages) |-> Trail(s)]
<1>1. \A e \in Messages : TrailOf(e) = Trail(<<e>>)  BY TrailFit
<1>2. \A e \in Messages : TrailOf(e) \in Seq(Nat)
  <2>1. \A e \in Messages : <<e>> \in Seq(Messages)  OBVIOUS
  <2> QED  BY <1>1, <2>1, TrailFit
<1>3. f \in [Messages -> Seq(Nat)] /\ \A e \in Messages : f[e] = TrailOf(e)  BY <1>2
<1>4. F \in [Seq(Messages) -> Seq(Nat)] /\ \A s \in Seq(Messages) : F[s] = Trail(s)
  BY TrailFit
<1> HIDE DEF f, F
<1>5. F[<<>>] = <<>>
  <2>1. <<>> \in Seq(Messages)  BY EmptySeq
  <2> QED  BY <1>4, <2>1, TrailFit
<1>6. ASSUME NEW s \in Seq(Messages), NEW e \in Messages PROVE F[Append(s, e)] = F[s] \o f[e]
  <2>1. Append(s, e) \in Seq(Messages)  BY AppendFits
  <2> QED  BY <1>3, <1>4, <2>1, TrailFit
<1>7. EndsWith(F, f, ms)  BY <1>3, <1>4, <1>5, <1>6, GivesLast
<1>8. \A j \in 1 .. Len(ms) : f[ms[j]] = TrailOf(ms[j])
  <2>1. \A j \in 1 .. Len(ms) : ms[j] \in Messages  OBVIOUS
  <2> QED  BY <1>3, <2>1
<1>9. Len(ms) \in Nat /\ \A m \in 1 .. Len(ms) : \A j \in m + 1 .. Len(ms) : j \in 1 .. Len(ms)
  OBVIOUS
<1>10. (\A j \in 1 .. Len(ms) : TrailOf(ms[j]) = <<>>) => Trail(ms) = <<>>
  BY <1>4, <1>7, <1>8 DEF EndsWith
<1>11. ASSUME NEW m \in 1 .. Len(ms), TrailOf(ms[m]) # <<>>,
              \A j \in m + 1 .. Len(ms) : TrailOf(ms[j]) = <<>>
       PROVE  Trail(ms) # <<>> /\ Last(Trail(ms)) = Last(TrailOf(ms[m]))
  <2>1. f[ms[m]] # <<>> /\ f[ms[m]] = TrailOf(ms[m])  BY <1>8, <1>11
  <2>2. \A j \in m + 1 .. Len(ms) : f[ms[j]] = <<>>  BY <1>8, <1>9, <1>11
  <2>3. F[ms] # <<>> /\ Last(F[ms]) = Last(f[ms[m]])  BY Zenon, <1>7, <2>1, <2>2 DEF EndsWith
  <2> QED  BY <1>4, <2>1, <2>3
<1> QED  BY <1>10, <1>11

\* What a list of messages asks, read off its trail.
Asking(ms)  == {i \in DOMAIN ms : Asks(ms[i].events) # {}}
Pending(tr) == IF tr = <<>> THEN 0 ELSE Last(tr)

\* derivePendingQuestion, written with the operators of this module.
LEMMA PendingIs ==
  ASSUME NEW ms
  PROVE  LET at   == Max(Asking(ms))
             last == ms[at].events[Max(Asks(ms[at].events))]
         IN  PendingQuestion(ms) =
               IF Asking(ms) = {} \/ (\E i \in at + 1 .. Len(ms) : ms[i].role = "user")
                  \/ last.stub
               THEN 0 ELSE last.call.id
BY Zenon DEF PendingQuestion, Asking, Asks

\* The user writes without asking, the assistant asks.
LEMMA TrailOfTells ==
  ASSUME NEW ms \in Seq(Messages), UsersAsk(ms), NEW i \in 1 .. Len(ms)
  PROVE  /\ ms[i].role = "user" => TrailOf(ms[i]) = <<0>> /\ i \notin Asking(ms)
         /\ ms[i].role # "user" => TrailOf(ms[i]) = AskedIn(ms[i].events)
         /\ ms[i].events \in Seq(Events)
         /\ ms[i].role # "user" /\ i \notin Asking(ms) => TrailOf(ms[i]) = <<>>
<1>1. ms[i] \in Messages /\ DOMAIN ms = 1 .. Len(ms)  OBVIOUS
<1>2. ms[i].events \in Seq(Events)  BY <1>1, MessageFits
<1>3. ms[i].role = "user" => i \notin Asking(ms)
  <2>1. Asks(<<>>) = {}
    <3>1. DOMAIN <<>> = {}  OBVIOUS
    <3> QED  BY <3>1 DEF Asks
  <2> QED  BY <1>1, <2>1 DEF UsersAsk, Asking
<1>4. i \notin Asking(ms) => AskedIn(ms[i].events) = <<>>
  BY <1>1, <1>2, AskedLast DEF Asking
<1> QED  BY <1>2, <1>3, <1>4 DEF TrailOf

\* What is pending is the last of the trail.
LEMMA PendingTells ==
  ASSUME NEW ms \in Seq(Messages), UsersAsk(ms), Stubs(ms)
  PROVE  PendingQuestion(ms) = Pending(Trail(ms))
<1> DEFINE n  == Len(ms)
           A  == Asking(ms)
           at == Max(A)
           U  == {i \in 1 .. n : ms[i].role = "user"}
           last == ms[at].events[Max(Asks(ms[at].events))]
<1>1. n \in Nat /\ DOMAIN ms = 1 .. n /\ A \subseteq 1 .. n /\ U \subseteq 1 .. n
  BY DEF Asking
<1>2. PendingQuestion(ms) =
        IF A = {} \/ (\E i \in at + 1 .. n : ms[i].role = "user") \/ last.stub
        THEN 0 ELSE last.call.id
  BY PendingIs
<1>3. \A i \in 1 .. n : /\ i \in U => TrailOf(ms[i]) = <<0>> /\ i \notin A
                        /\ i \notin U => TrailOf(ms[i]) = AskedIn(ms[i].events)
                        /\ ms[i].events \in Seq(Events)
                        /\ i \notin U /\ i \notin A => TrailOf(ms[i]) = <<>>
  BY TrailOfTells
<1>4. <<0>> # <<>> /\ Last(<<0>>) = 0  BY DEF Last
<1>5. U # {} => Max(U) \in U /\ \A y \in U : y <= Max(U)
  <2> HIDE DEF n, U
  <2> QED  BY <1>1, GreatestPlace
<1>6. A # {} => at \in A /\ \A y \in A : y <= at
  <2> HIDE DEF n, A
  <2> QED  BY <1>1, GreatestPlace
<1>7. /\ (\A j \in 1 .. n : TrailOf(ms[j]) = <<>>) => Trail(ms) = <<>>
      /\ \A m \in 1 .. n :
           TrailOf(ms[m]) # <<>> /\ (\A j \in m + 1 .. n : TrailOf(ms[j]) = <<>>) =>
             Trail(ms) # <<>> /\ Last(Trail(ms)) = Last(TrailOf(ms[m]))
  BY TrailEnds
<1> DEFINE u == Max(U)
<1> HIDE DEF n, A, at, u
<1>8. CASE A = {} /\ U = {}
  <2>1. \A j \in 1 .. n : TrailOf(ms[j]) = <<>>  BY <1>3, <1>8
  <2> QED  BY <1>2, <1>7, <1>8, <2>1 DEF Pending
<1>9. CASE U # {} /\ (A = {} \/ at < u)
  <2>1. u \in U /\ u \in 1 .. n /\ \A y \in U : y <= u  BY <1>5, <1>9 DEF u
  <2>2. \A j \in u + 1 .. n : j \in 1 .. n /\ j > u  BY <1>1, <2>1
  <2>3. \A j \in u + 1 .. n : j \notin U /\ j \notin A
    <3>1. ASSUME NEW j \in u + 1 .. n PROVE j \notin U
      <4>1. ~ j <= u  BY <1>1, <2>1, <2>2
      <4> QED  BY <2>1, <4>1
    <3>2. ASSUME NEW j \in u + 1 .. n PROVE j \notin A
      <4>1. SUFFICES ASSUME j \in A PROVE FALSE  OBVIOUS
      <4>2. at \in A /\ at < u /\ j <= at  BY <1>6, <1>9, <4>1
      <4>3. at \in Nat /\ j > u  BY <1>1, <2>2, <4>2
      <4> QED  BY <1>1, <2>1, <4>2, <4>3
    <3> QED  BY <3>1, <3>2
  <2>4. Trail(ms) # <<>> /\ Last(Trail(ms)) = 0
    <3>1. TrailOf(ms[u]) = <<0>>  BY <1>3, <2>1
    <3>2. \A j \in u + 1 .. n : TrailOf(ms[j]) = <<>>  BY <1>3, <2>2, <2>3
    <3> QED  BY <1>4, <1>7, <2>1, <3>1, <3>2
  <2>5. A # {} => \E i \in at + 1 .. n : ms[i].role = "user"
    <3>1. SUFFICES ASSUME A # {} PROVE u \in at + 1 .. n /\ ms[u].role = "user"  OBVIOUS
    <3>2. at \in 1 .. n /\ at < u  BY <1>1, <1>6, <1>9, <3>1
    <3> QED  BY <1>1, <2>1, <3>2
  <2> QED  BY <1>2, <2>4, <2>5 DEF Pending
<1>10. CASE A # {} /\ ~ (U # {} /\ at < u)
  <2>1. at \in A /\ at \in 1 .. n /\ \A y \in A : y <= at  BY <1>1, <1>6, <1>10
  <2>2. \A j \in at + 1 .. n : j \in 1 .. n /\ j > at  BY <1>1, <2>1
  <2>3. \A j \in at + 1 .. n : j \notin U /\ j \notin A
    <3>1. ASSUME NEW j \in at + 1 .. n PROVE j \notin U
      <4>1. SUFFICES ASSUME j \in U PROVE FALSE  OBVIOUS
      <4>2. u \in U /\ j <= u /\ u \in 1 .. n  BY <1>1, <1>5, <4>1 DEF u
      <4>3. at < u  BY <1>1, <2>1, <2>2, <4>2
      <4> QED  BY <1>10, <4>1, <4>3
    <3>2. ASSUME NEW j \in at + 1 .. n PROVE j \notin A
      <4>1. ~ j <= at  BY <1>1, <2>1, <2>2
      <4> QED  BY <2>1, <4>1
    <3> QED  BY <3>1, <3>2
  <2> DEFINE es == ms[at].events
             k == Max(Asks(es))
  <2>4. es \in Seq(Events) /\ Asks(es) # {} /\ at \notin U /\ TrailOf(ms[at]) = AskedIn(es)
    BY <1>3, <2>1 DEF A, Asking
  <2>5. AskedIn(es) # <<>> /\ k \in Asks(es) /\ Last(AskedIn(es)) = es[k].call.id
    BY <2>4, AskedLast
  <2>6. last = es[k]  OBVIOUS
  <2>7. ~ es[k].stub
    <3>1. k \in DOMAIN es /\ es[k].kind = "tool" /\ es[k].call.tool = "ask"
      BY Zenon, <2>5 DEF Asks
    <3> QED  BY <1>1, <2>1, <3>1 DEF Stubs
  <2>8. Trail(ms) # <<>> /\ Last(Trail(ms)) = es[k].call.id
    <3>1. \A j \in at + 1 .. n : TrailOf(ms[j]) = <<>>  BY <1>3, <2>2, <2>3
    <3> QED  BY <1>7, <2>1, <2>4, <2>5, <3>1
  <2>9. ~ \E i \in at + 1 .. n : ms[i].role = "user"
    BY <2>2, <2>3
  <2> QED  BY <1>2, <1>10, <2>6, <2>7, <2>8, <2>9 DEF Pending
<1> QED  BY <1>8, <1>9, <1>10

\* After the turn all calls are shown.
LEMMA CallsInvSame == ASSUME PageInv, CallsInv PROVE ReloadShowsTheSame
<1>1. SUFFICES ASSUME pc # "calls", ~ stopped
               PROVE  /\ terminal = RebuiltTerminal
                      /\ early = {} =>
                           /\ CallIds(msgs) = CallIds(Rebuilt)
                           /\ PendingQuestion(msgs) = PendingQuestion(Rebuilt)
  BY DEF ReloadShowsTheSame
<1>2. UsersAsk(msgs) /\ TerminalFits /\ CallsFit  BY DEF CallsInv
<1>3. rows \in Seq(Rows) /\ msgs \in Seq(Messages) /\ terminal \in Seq(Nat)
  BY DEF PageInv, AgentFits, BrowserFits
<1>4. Upcoming = <<>>
  <2>1. Len(calls) = 0 /\ announced = 0  BY <1>1, UpcomingIs DEF PageInv
  <2> QED  BY <2>1, UpcomingIs DEF PageInv
<1>5. /\ \A b \in BOOLEAN : IdsOf(<<>>, b) = <<>>
      /\ AsksOf(<<>>) = <<>> /\ TRUE \in BOOLEAN /\ FALSE \in BOOLEAN
  BY NoneShown
<1>6. terminal = RebuiltTerminal
  <2>1. terminal \o <<>> = RowsIds(rows, TRUE)  BY <1>1, <1>2, <1>4, <1>5 DEF TerminalFits
  <2>2. terminal \o <<>> = terminal  BY <1>3, ConcatEmptySeq
  <2> QED  BY <1>3, <2>1, <2>2, TerminalIs
<1>7. ASSUME early = {}
      PROVE  /\ CallIds(msgs) = CallIds(Rebuilt)
             /\ PendingQuestion(msgs) = PendingQuestion(Rebuilt)
  <2>1. /\ CallIds(msgs) \o <<>> = RowsIds(rows, FALSE)
        /\ Trail(msgs) \o <<>> = RowsAsks(rows) /\ Stubs(msgs)
    BY <1>1, <1>2, <1>4, <1>5, <1>7 DEF CallsFit
  <2>2. CallIds(msgs) \in Seq(Nat) /\ Trail(msgs) \in Seq(Nat)
    BY <1>3, CallIdsFit, TrailFit
  <2>3. CallIds(msgs) = RowsIds(rows, FALSE) /\ Trail(msgs) = RowsAsks(rows)
    BY <2>1, <2>2, ConcatEmptySeq
  <2> DEFINE ms == Rebuilt
  <2>4. Retells(ms, rows)  BY <1>3, RebuiltTells
  <2> HIDE DEF ms
  <2>5. /\ ms \in Seq(Messages) /\ CallIds(ms) = RowsIds(rows, FALSE)
        /\ Trail(ms) = RowsAsks(rows)
    BY <2>4 DEF Retells
  <2>6. UsersAsk(ms) /\ Stubs(ms)  BY <2>4, RetoldFits
  <2>7. PendingQuestion(msgs) = Pending(Trail(msgs))  BY <1>2, <1>3, <2>1, PendingTells
  <2>8. PendingQuestion(ms) = Pending(Trail(ms))  BY <2>5, <2>6, PendingTells
  <2>9. CallIds(msgs) = CallIds(ms) /\ PendingQuestion(msgs) = PendingQuestion(ms)
    BY <2>3, <2>5, <2>7, <2>8
  <2> QED  BY <2>9 DEF ms
<1> QED  BY <1>6, <1>7

\* When the turn is over, what is shown of the calls is what a reload would show
\* (ReloadShowsTheSame: applyEvent, rebuildEventsFromHistory, derivePendingQuestion).
THEOREM TranscriptReloads == Spec => []ReloadShowsTheSame
<1>1. Init => TextFits /\ CallsInv  BY InitText, InitCalls
<1>2. PageInv /\ TextFits /\ CallsInv /\ [Next]_vars => TextFits' /\ CallsInv'
  BY NextText, NextCalls
<1>3. PageInv /\ CallsInv => ReloadShowsTheSame  BY CallsInvSame
<1>4. Spec => []PageInv  BY PageInvariance
<1> QED  BY <1>1, <1>2, <1>3, <1>4, PTL DEF Spec
=============================================================================
