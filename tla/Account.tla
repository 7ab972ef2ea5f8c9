------------------------------ MODULE Account ------------------------------
(***************************************************************************)
(* One user's session and portrait.  The session is kept in three places:   *)
(* the cookie that holds the token, the browser's store, and the page that   *)
(* is shown.  A request refused for its token waits for one refresh, shared  *)
(* by all such requests, and is sent again once (createAuthClient).  The     *)
(* portrait has two fields, which the user edits in the settings             *)
(* (PortraitSection); agents read and rewrite the mutable one               *)
(* (WriteMemoryTool).  A token stays valid after the logout.                 *)
(*                                                                         *)
(* A text is the set of its lines; the limit of its length is left out.      *)
(***************************************************************************)
EXTENDS Naturals, FiniteSets

CONSTANTS
  Calls,         \* requests of the browser that may be under way together
  Agents,        \* turns that write to the user's memory once, a line of their own
  MaxLines,      \* bound: lines typed
  MaxOps,        \* bound: operations of the user
  MaxFailures,   \* bound: requests that fail
  MaxExpiries    \* bound: tokens that expire

ASSUME AccountAssumption ==
  /\ {MaxLines, MaxOps, MaxFailures, MaxExpiries} \subseteq Nat
  /\ Agents \cap (1 .. MaxLines) = {}

Fields    == {"immutable", "mutable"}
Lines     == (1 .. MaxLines) \cup Agents
Portraits == [Fields -> SUBSET Lines]
Empty     == [f \in Fields |-> {}]
Other(f)  == CHOOSE g \in Fields : g # f

VARIABLES
  portrait,      \* users.immutable and users.mutable
  cookie,        \* the token in the browser: none, fresh or expired
  session,       \* authStore.session is set
  page,          \* the page shown: the login form or the app
  leaving,       \* window.location.href was set and the page is still running
  sign,          \* the login or logout request under way
  refresh,       \* inflightRefresh
  call,          \* requests of authedFetch
  form,          \* PortraitSection
  agent,         \* WriteMemoryTool.Invoke of each agent
  lines, ops, failures, expiries,
  \* History.  What the user did last; a refresh was under way then, or a logout
  \* failed with a request under way; a logout failed; a later refresh failed.
  last, crossed, kept, ended,
  \* The lines each field is said to hold; two writes of a field overlapped; a form
  \* behind the server was saved; a field was saved while the other held unsaved
  \* lines; requests overlapped or failed.
  told, together, behind, swept, troubled

store   == <<portrait, cookie>>
client  == <<session, page, leaving, sign, refresh>>
spent   == <<lines, ops, failures, expiries>>
signed  == <<last, crossed, kept, ended>>
written == <<told, together, behind, swept, troubled>>
accountVars == <<store, client, call, form, agent, spent, signed, written>>

NoCall == [pc |-> "idle", op |-> "none", text |-> {}, token |-> "none", retried |-> FALSE,
           heard |-> FALSE, form |-> FALSE, got |-> Empty]
NoForm == [alive |-> FALSE, loading |-> FALSE, text |-> Empty, saved |-> Empty,
           saving |-> {}, typed |-> Empty, outdated |-> FALSE]
NoSign == [pc |-> "none", op |-> "none"]
NoRefresh == [pc |-> "none", token |-> "none"]

Idle(c)        == call[c].pc = "idle"
Saves(f)       == {c \in Calls : ~ Idle(c) /\ call[c].op = f}
Reading        == {a \in Agents : agent[a].pc = "read"}
Dirty(f)       == form.text[f] # form.saved[f]
SetCall(c, r)  == call' = [call EXCEPT ![c] = r]
CallTo(c, pc)  == SetCall(c, [call[c] EXCEPT !.pc = pc])
Failure        == failures < MaxFailures /\ failures' = failures + 1
User           == ~ leaving /\ ops < MaxOps /\ ops' = ops + 1
Unmounted      == [c \in Calls |-> [call[c] EXCEPT !.form = FALSE]]
-----------------------------------------------------------------------------
AccountInit ==
  /\ portrait = Empty /\ cookie = "none" /\ session = FALSE /\ page = "login" /\ leaving = FALSE
  /\ sign = NoSign /\ refresh = NoRefresh
  /\ call = [c \in Calls |-> NoCall] /\ form = NoForm
  /\ agent = [a \in Agents |-> [pc |-> "idle", got |-> {}]]
  /\ lines = 0 /\ ops = 0 /\ failures = 0 /\ expiries = 0
  /\ last = "none" /\ crossed = FALSE /\ kept = FALSE /\ ended = FALSE
  /\ told = Empty /\ together = FALSE /\ behind = FALSE /\ swept = FALSE /\ troubled = FALSE
-----------------------------------------------------------------------------
(* Logging in and out. *)

\* The form of LoginForm or RegisterForm, disabled while its action is pending.
Login ==
  /\ User /\ page = "login" /\ ~ session /\ sign = NoSign
  /\ sign' = [pc |-> "sent", op |-> "in"]
  /\ UNCHANGED <<store, session, page, leaving, refresh, call, form, agent, lines, failures,
                 expiries, signed, written>>

\* logout of SettingsPanel: the button is disabled while it is under way.
Logout ==
  /\ User /\ form.alive /\ sign = NoSign
  /\ sign' = [pc |-> "sent", op |-> "out"]
  /\ UNCHANGED <<store, session, page, leaving, refresh, call, form, agent, lines, failures,
                 expiries, signed, written>>

ServeSign ==
  /\ sign.pc = "sent"
  /\ \/ sign' = [sign EXCEPT !.pc = "ok"] /\ UNCHANGED failures
     \/ sign' = [sign EXCEPT !.pc = "failed"] /\ Failure
  /\ UNCHANGED <<store, session, page, leaving, refresh, call, form, agent, lines, ops,
                 expiries, signed, written>>

\* The session is set and the effect of RedirectIfAuthenticated or router.push shows
\* the app; a failure leaves a message in the form.
LoginAnswered ==
  /\ sign.op = "in" /\ sign.pc \in {"ok", "failed"} /\ sign' = NoSign
  /\ IF sign.pc = "ok"
     THEN /\ cookie' = "fresh" /\ session' = TRUE
          /\ last' = "in" /\ crossed' = (refresh # NoRefresh) /\ kept' = FALSE /\ ended' = FALSE
     ELSE UNCHANGED <<cookie, session, signed>>
  /\ UNCHANGED <<portrait, page, leaving, refresh, call, form, agent, spent, written>>

\* Defect: a failed request keeps the user signed in.
LogoutAnsweredOk ==
  /\ sign.op = "out" /\ sign.pc \in {"ok", "failed"} /\ sign' = NoSign
  /\ cookie' = IF sign.pc = "ok" THEN "none" ELSE cookie
  /\ session' = (session /\ sign.pc = "failed") /\ leaving' = (sign.pc = "ok")
  /\ form' = NoForm /\ call' = Unmounted
  /\ last' = "out" /\ kept' = (sign.pc = "failed") /\ ended' = FALSE
  /\ crossed' = (refresh # NoRefresh \/ (kept' /\ \E c \in Calls : ~ Idle(c)))
  /\ UNCHANGED <<portrait, page, refresh, agent, spent, written>>

\* Whatever became of the request, the session is cleared and the page left.
LogoutAnswered ==
  /\ sign.op = "out" /\ sign.pc \in {"ok", "failed"} /\ sign' = NoSign
  /\ cookie' = IF sign.pc = "ok" THEN "none" ELSE cookie
  /\ session' = FALSE /\ leaving' = TRUE
  /\ form' = NoForm /\ call' = Unmounted
  /\ last' = "out" /\ kept' = (sign.pc = "failed") /\ ended' = FALSE
  /\ crossed' = (refresh # NoRefresh \/ (kept' /\ \E c \in Calls : ~ Idle(c)))
  /\ UNCHANGED <<portrait, page, refresh, agent, spent, written>>

\* AuthGuard and RedirectIfAuthenticated.
Redirect ==
  /\ page' = IF session THEN "app" ELSE "login"
  /\ page' # page
  /\ UNCHANGED <<store, session, leaving, sign, refresh, call, form, agent, spent, signed,
                 written>>

\* The login page is loaded anew: nobody hears the answers any more; the session
\* comes back from localStorage.
Reload ==
  /\ leaving /\ leaving' = FALSE /\ page' = "login"
  /\ sign' = NoSign /\ refresh' = NoRefresh /\ form' = NoForm
  /\ call' = [c \in Calls |-> IF call[c].pc = "sent"
                              THEN [call[c] EXCEPT !.heard = FALSE, !.form = FALSE]
                              ELSE NoCall]
  /\ UNCHANGED <<store, session, agent, spent, signed, written>>

Expire ==
  /\ cookie = "fresh" /\ expiries < MaxExpiries /\ expiries' = expiries + 1
  /\ cookie' = "expired"
  /\ call' = [c \in Calls |-> IF call[c].token = "fresh"
                              THEN [call[c] EXCEPT !.token = "expired"] ELSE call[c]]
  /\ UNCHANGED <<portrait, client, form, agent, lines, ops, failures, signed, written>>
-----------------------------------------------------------------------------
(* A request: served, refused for its token, or failed. *)

Begin(c, r) ==
  /\ Idle(c) /\ SetCall(c, [r EXCEPT !.token = cookie, !.heard = TRUE, !.form = TRUE])
  /\ troubled' = (troubled \/ \E d \in Calls : ~ Idle(d))

\* Defect: a save writes the other field of the form as well.
WrittenBoth(c) == [portrait EXCEPT ![call[c].op] = call[c].text,
                                 ![Other(call[c].op)] = form.text[Other(call[c].op)]]

\* writePortrait writes the one field.
Written(c) == [portrait EXCEPT ![call[c].op] = call[c].text]

Serve(c) ==
  /\ call[c].pc = "sent"
  /\ IF call[c].token = "fresh"
     THEN /\ CallTo(c, "served")
          /\ portrait' = IF call[c].op = "load" THEN portrait ELSE Written(c)
     ELSE UNCHANGED portrait /\ CallTo(c, "refused")
  /\ UNCHANGED <<cookie, client, form, agent, spent, signed, written>>

\* loadPortrait, in a statement of its own.
ReadBack(c) ==
  /\ call[c].pc = "served"
  /\ SetCall(c, [call[c] EXCEPT !.pc = "answered", !.got = portrait])
  /\ form' = [form EXCEPT !.outdated = @ /\ ~ call[c].form]
  /\ UNCHANGED <<store, client, agent, spent, signed, written>>

Break(c) ==
  /\ call[c].pc \in {"sent", "served"} /\ Failure /\ CallTo(c, "failed") /\ troubled' = TRUE
  /\ UNCHANGED <<store, client, form, agent, lines, ops, expiries, signed, told, together,
                 behind, swept>>

\* A 401: the first one waits for the refresh under way, or starts one.
Refused(c) ==
  /\ call[c].pc = "refused" /\ call[c].heard
  /\ IF call[c].retried THEN CallTo(c, "failed") /\ UNCHANGED refresh
     ELSE /\ CallTo(c, "waiting")
          /\ refresh' = IF refresh = NoRefresh THEN [pc |-> "sent", token |-> cookie]
                        ELSE refresh
  /\ troubled' = (troubled \/ call[c].retried)
  /\ UNCHANGED <<store, session, page, leaving, sign, form, agent, spent, signed, told,
                 together, behind, swept>>

\* AuthService.Refresh takes an expired token, and none at all is refused.
ServeRefresh ==
  /\ refresh.pc = "sent"
  /\ \/ refresh.token # "none" /\ refresh' = [refresh EXCEPT !.pc = "ok"] /\ UNCHANGED failures
     \/ refresh.token = "none" /\ refresh' = [refresh EXCEPT !.pc = "failed"]
        /\ UNCHANGED failures
     \/ refresh.token # "none" /\ refresh' = [refresh EXCEPT !.pc = "failed"] /\ Failure
  /\ UNCHANGED <<store, session, page, leaving, sign, call, form, agent, lines, ops, expiries,
                 signed, written>>

Waiting == {c \in Calls : call[c].pc = "waiting"}

\* The waiting requests are sent again with the new cookie.
Refreshed ==
  /\ refresh.pc = "ok" /\ refresh' = NoRefresh
  /\ cookie' = "fresh" /\ session' = TRUE
  /\ call' = [c \in Calls |-> IF c \in Waiting
                THEN [call[c] EXCEPT !.pc = "sent", !.token = "fresh", !.retried = TRUE]
                ELSE call[c]]
  /\ UNCHANGED <<portrait, page, leaving, sign, form, agent, spent, signed, written>>

\* port.clear, which takes the settings away, and a new page unless it is the login's.
RefreshFailed ==
  /\ refresh.pc = "failed" /\ refresh' = NoRefresh
  /\ session' = FALSE /\ form' = NoForm
  /\ leaving' = (leaving \/ (page # "login" /\ Waiting # {}))
  /\ call' = [c \in Calls |-> IF c \in Waiting THEN NoCall ELSE Unmounted[c]]
  /\ ended' = TRUE
  /\ UNCHANGED <<store, page, sign, agent, spent, last, crossed, kept, written>>

\* Nobody hears the answer.
Unheard(c) ==
  /\ ~ Idle(c) /\ call[c].pc # "sent" /\ call[c].pc # "served" /\ ~ call[c].heard
  /\ SetCall(c, NoCall)
  /\ UNCHANGED <<store, client, form, agent, spent, signed, written>>
-----------------------------------------------------------------------------
(* The settings. *)

\* PortraitSection mounts and loads the portrait.
OpenSettings(c) ==
  /\ User /\ page = "app" /\ session /\ ~ form.alive
  /\ Begin(c, [NoCall EXCEPT !.pc = "sent", !.op = "load"])
  /\ form' = [NoForm EXCEPT !.alive = TRUE, !.loading = TRUE]
  /\ UNCHANGED <<store, client, agent, lines, failures, expiries, signed, told, together,
                 behind, swept>>

CloseSettings ==
  /\ User /\ form.alive /\ sign = NoSign /\ form' = NoForm /\ call' = Unmounted
  /\ UNCHANGED <<store, client, agent, lines, failures, expiries, signed, written>>

Enabled(f) == form.alive /\ ~ form.loading /\ f \notin form.saving

\* Every line is typed once.
Edit(f) ==
  /\ ~ leaving /\ Enabled(f) /\ lines < MaxLines /\ lines' = lines + 1
  /\ form' = [form EXCEPT !.text[f] = @ \cup {lines'}, !.typed[f] = @ \cup {lines'}]
  /\ swept' = (swept \/ Other(f) \in form.saving)
  /\ UNCHANGED <<store, client, call, agent, ops, failures, expiries, signed, told, together,
                 behind, troubled>>

\* saveImmutable and saveMutable.
SaveField(c, f) ==
  /\ User /\ form.alive /\ f \notin form.saving /\ Dirty(f)
  /\ Begin(c, [NoCall EXCEPT !.pc = "sent", !.op = f, !.text = form.text[f]])
  /\ form' = [form EXCEPT !.saving = @ \cup {f}]
  /\ together' = (together \/ Saves(f) # {} \/ (f = "mutable" /\ Reading # {}))
  /\ behind' = (behind \/ form.saved[f] # portrait[f])
  /\ swept' = (swept \/ Dirty(Other(f)))
  /\ UNCHANGED <<store, client, agent, lines, failures, expiries, signed, told>>

\* The effect that copies the portrait into the form.
LoadedForm(c) == [form EXCEPT !.loading = FALSE, !.text = call[c].got, !.saved = call[c].got]

\* Defect: the saved field's baseline is not moved.
SavedOther(c, f) ==
  [form EXCEPT !.saving = @ \ {f}, !.typed[f] = {}, !.saved[Other(f)] = call[c].got[Other(f)],
               !.text[Other(f)] = call[c].got[Other(f)]]

\* The answer of a save replaces the other field too, with what the user may have
\* typed there.
Saved(c, f) ==
  [form EXCEPT !.saving = @ \ {f}, !.typed[f] = {}, !.saved = call[c].got,
               !.text[Other(f)] = call[c].got[Other(f)]]

Answered(c) ==
  /\ call[c].pc = "answered" /\ call[c].heard /\ SetCall(c, NoCall)
  /\ form' = IF ~ call[c].form THEN form
             ELSE IF call[c].op = "load" THEN LoadedForm(c) ELSE Saved(c, call[c].op)
  /\ told' = IF call[c].op = "load" THEN told
             ELSE [told EXCEPT ![call[c].op] = @ \cup call[c].text]
  /\ UNCHANGED <<store, client, agent, spent, signed, together, behind, swept, troubled>>

\* Defect: only an answer ends the saving.
FailedStillSaving(c) ==
  /\ call[c].pc = "failed" /\ call[c].heard /\ SetCall(c, NoCall)
  /\ form' = IF call[c].form THEN [form EXCEPT !.loading = @ /\ call[c].op # "load"] ELSE form
  /\ UNCHANGED <<store, client, agent, spent, signed, written>>

\* A failed load leaves the fields empty and enabled.
Failed(c) ==
  /\ call[c].pc = "failed" /\ call[c].heard /\ SetCall(c, NoCall)
  /\ form' = IF call[c].form
             THEN [form EXCEPT !.loading = @ /\ call[c].op # "load", !.saving = @ \ {call[c].op}]
             ELSE form
  /\ UNCHANGED <<store, client, agent, spent, signed, written>>
-----------------------------------------------------------------------------
(* write_memory: read, add, write. *)

AgentRead(a) ==
  /\ agent[a].pc = "idle"
  /\ agent' = [agent EXCEPT ![a] = [pc |-> "read", got |-> portrait["mutable"]]]
  /\ together' = (together \/ Reading # {} \/ Saves("mutable") # {})
  /\ UNCHANGED <<store, client, call, form, spent, signed, told, behind, swept, troubled>>

\* mode 'append'; 'replace' writes the one line, as the user asked.
AgentWrite(a) ==
  /\ agent[a].pc = "read" /\ agent' = [agent EXCEPT ![a] = [pc |-> "done", got |-> {}]]
  /\ \E old \in {agent[a].got, {}} :
       /\ portrait' = [portrait EXCEPT !["mutable"] = old \cup {a}]
       /\ told' = [told EXCEPT !["mutable"] = IF old = {} THEN {a} ELSE @ \cup {a}]
  /\ form' = [form EXCEPT !.outdated = form.alive]
  /\ UNCHANGED <<cookie, client, call, spent, signed, together, behind, swept, troubled>>
-----------------------------------------------------------------------------
AccountNext ==
  \/ Login \/ Logout \/ ServeSign \/ LoginAnswered \/ LogoutAnswered
  \/ Redirect \/ Reload \/ Expire
  \/ ServeRefresh \/ Refreshed \/ RefreshFailed
  \/ CloseSettings \/ \E f \in Fields : Edit(f)
  \/ \E c \in Calls :
       \/ Serve(c) \/ ReadBack(c) \/ Break(c) \/ Refused(c) \/ Unheard(c)
       \/ OpenSettings(c) \/ Answered(c) \/ Failed(c)
       \/ \E f \in Fields : SaveField(c, f)
  \/ \E a \in Agents : AgentRead(a) \/ AgentWrite(a)

AccountSpec == AccountInit /\ [][AccountNext]_accountVars
-----------------------------------------------------------------------------
\* Every variable keeps its type, and a field is disabled exactly while a request of
\* this form saves it.
AccountTypeOK ==
  /\ {portrait, told, form.text, form.saved, form.typed} \subseteq Portraits
  /\ cookie \in {"none", "fresh", "expired"} /\ page \in {"login", "app"}
  /\ {session, leaving, crossed, kept, ended, together, behind, swept, troubled}
       \subseteq BOOLEAN
  /\ form.alive => session
  /\ form.saving = {call[c].op : c \in {d \in Calls : ~ Idle(d) /\ call[d].form}} \ {"load"}

\* A logout ends the session and removes the cookie unless a refresh was under way,
\* or the request failed; a login lasts until a refresh sent after it fails
\* (SettingsPanel.logout, HttpAuthRepository.logout, createAuthClient).
SessionFollowsUser ==
  /\ last = "out" => /\ session => crossed
                     /\ cookie # "none" => crossed \/ kept
  /\ last = "in" /\ ~ session => crossed \/ ended

EditsAreKept == \A f \in Fields : form.typed[f] \subseteq form.text[f] \/ swept
BaselineIsStored ==
  form.alive /\ ~ form.loading /\ (\A c \in Calls : Idle(c)) =>
    form.saved = portrait \/ form.outdated \/ troubled

\* A line typed and not yet saved stays in the form unless the other field was being
\* saved meanwhile; with no request under way the form knows what the server holds
\* unless an agent wrote, or requests overlapped or failed (PortraitSection).
PortraitIsKept == EditsAreKept /\ BaselineIsStored

\* Each field holds the lines the user or an agent was told it holds, unless two
\* writes of it overlapped, a form that was behind the server was saved, or one
\* whose field the other field's answer had replaced
\* (WriteMemoryTool.Invoke, writePortrait).
MemoryIsKept == \A f \in Fields : told[f] \subseteq portrait[f] \/ together \/ behind \/ swept
=============================================================================
