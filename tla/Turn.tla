-------------------------------- MODULE Turn --------------------------------
(***************************************************************************)
(* Turn coordination of one conversation: every Chat request wants to run  *)
(* one agent turn, and ConversationService serialises the turns with a     *)
(* Redis lease (SessionLock), a cancel channel per server process          *)
(* (CancelBus) and a map of the turns the process runs (localTurns).       *)
(*                                                                         *)
(* The lease key holds the owner string of the turn that created it.  The  *)
(* model keeps that turn itself in `holder` and compares owner[holder]     *)
(* where the Lua scripts compare strings, because two turns can build the  *)
(* same string.                                                            *)
(***************************************************************************)
EXTENDS Naturals, FiniteSets

CONSTANTS
  Turns,            \* Chat requests on the conversation
  Instances,        \* values of INSTANCE_ID, one process at a time each
  Counts,           \* values runtime.NumGoroutine() can return
  None,             \* no turn, no instance, no count
  TTL,              \* lease length in clock ticks
  MaxBeats,         \* bound: renewals (AllocTurnSeq calls) per turn
  MaxCrashes,       \* bound: process crashes
  CleanupOnReturn   \* TRUE: Bootstrap's deferred cancelCleanup() runs when
                    \* Bootstrap returns, as written; FALSE: the subscription
                    \* outlives Bootstrap, as its comment says

ASSUME ConstantAssumption ==
  /\ None \notin Turns \cup Instances \cup Counts
  /\ TTL \in Nat \ {0}
  /\ MaxBeats \in Nat
  /\ MaxCrashes \in Nat
  /\ CleanupOnReturn \in BOOLEAN

VARIABLES
  holder,      \* the turn whose SETNX created the lease key, None: no key
  ttl,         \* ticks until Redis drops the key, 0: no key
  proc,        \* "down", "booting" (inside Bootstrap) or "serving"
  listening,   \* the process is subscribed to cancel:<instance>
  inbox,       \* cancels delivered to the process, named by their sender
  listener,    \* where handleRemoteCancel stands, and with which handle
  localTurns,  \* the process's entry for the conversation
  pc, owner, edit, tries, prevOwner, prevTurn, beats, cancelled,
  lost,        \* history: how a running turn lost the lease
  dropped,     \* history: turns gone without their DEL having been applied
  crashes      \* history: crashes so far

redis   == <<holder, ttl>>
procs   == <<proc, listening, inbox, listener, localTurns>>
locals  == <<owner, edit, tries, prevOwner, prevTurn, beats, cancelled>>
history == <<lost, dropped, crashes>>
vars    == <<redis, procs, pc, locals, history>>

NoOwner  == [inst |-> None, count |-> None]
Owners   == [inst : Instances \cup {None}, count : Counts \cup {None}]
Idle     == [stage |-> "idle", turn |-> None]
Waiting  == {"acquire", "readOwner", "publish", "wait", "reacquire"}
Running  == {"store", "setup", "running", "relMap", "relLock"}
Finished == {"refused", "failed", "done", "dead"}
PCs      == {"idle"} \cup Waiting \cup Running \cup Finished

Holding(t)     == pc[t] \in Running
On(t, i)       == owner[t].inst = i
SameOwner(t,u) == owner[t] = owner[u]

Goto(t, label) == pc' = [pc EXCEPT ![t] = label]
-----------------------------------------------------------------------------
Init ==
  /\ holder = None
  /\ ttl = 0
  /\ proc = [i \in Instances |-> "down"]
  /\ listening = [i \in Instances |-> FALSE]
  /\ inbox = [i \in Instances |-> {}]
  /\ listener = [i \in Instances |-> Idle]
  /\ localTurns = [i \in Instances |-> None]
  /\ pc = [t \in Turns |-> "idle"]
  /\ owner = [t \in Turns |-> NoOwner]
  /\ edit = [t \in Turns |-> FALSE]
  /\ tries = [t \in Turns |-> 0]
  /\ prevOwner = [t \in Turns |-> NoOwner]
  /\ prevTurn = [t \in Turns |-> None]
  /\ beats = [t \in Turns |-> 0]
  /\ cancelled = [t \in Turns |-> FALSE]
  /\ lost = [t \in Turns |-> "no"]
  /\ dropped = {}
  /\ crashes = 0
-----------------------------------------------------------------------------
(* SessionLock: the atomic Redis commands. *)

\* Defect: SETNX without an expiry.
GrantForever(t) ==
  /\ holder = None
  /\ holder' = t
  /\ ttl' = 0

Grant(t) ==                              \* SETNX key owner EX ttl, key absent
  /\ holder = None
  /\ holder' = t
  /\ ttl' = TTL

Remove(cause) ==                         \* the key goes, by DEL or by expiry
  /\ holder' = None
  /\ ttl' = 0
  /\ lost' = IF Holding(holder) THEN [lost EXCEPT ![holder] = cause] ELSE lost

KeyIsOwnedBy(t) == holder # None /\ SameOwner(holder, t)

Tick ==
  /\ holder # None
  /\ \/ /\ ttl > 1
        /\ ttl' = ttl - 1
        /\ UNCHANGED <<holder, lost>>
     \/ /\ ttl = 1
        /\ Remove("expired")
  /\ UNCHANGED <<procs, pc, locals, dropped, crashes>>
-----------------------------------------------------------------------------
(* Chat, up to the lease: acquireTurn and tryAcquireAfterCancel. *)

Start(t, i) ==
  /\ pc[t] = "idle"
  /\ proc[i] = "serving"
  /\ \E n \in Counts, e \in BOOLEAN :
       /\ owner' = [owner EXCEPT ![t] = [inst |-> i, count |-> n]]
       /\ edit' = [edit EXCEPT ![t] = e]
  /\ Goto(t, "acquire")
  /\ UNCHANGED <<redis, procs, tries, prevOwner, prevTurn, beats, cancelled, history>>

Acquire(t) ==
  /\ pc[t] = "acquire"
  /\ tries' = [tries EXCEPT ![t] = @ + 1]
  /\ \/ /\ Grant(t)
        /\ Goto(t, "store")
     \/ /\ holder # None
        /\ Goto(t, IF edit[t] THEN "readOwner" ELSE "refused")
        /\ UNCHANGED redis
  /\ UNCHANGED <<procs, owner, edit, prevOwner, prevTurn, beats, cancelled, history>>

\* Acquire returned an error: the command failed, or took effect and its
\* reply was lost (the request's context was cancelled, the connection broke).
AcquireFails(t) ==
  /\ pc[t] \in {"acquire", "reacquire"}
  /\ Goto(t, "failed")
  /\ \/ UNCHANGED <<redis, dropped>>
     \/ Grant(t) /\ dropped' = dropped \cup {t}
  /\ UNCHANGED <<procs, locals, lost, crashes>>

ReadOwner(t) ==
  /\ pc[t] = "readOwner"
  /\ \/ /\ holder = None
        /\ Goto(t, IF tries[t] < 2 THEN "acquire" ELSE "refused")
        /\ UNCHANGED prevOwner
     \/ /\ KeyIsOwnedBy(t)
        /\ Goto(t, "refused")
        /\ UNCHANGED prevOwner
     \/ /\ holder # None /\ ~SameOwner(holder, t)
        /\ prevOwner' = [prevOwner EXCEPT ![t] = owner[holder]]
        /\ Goto(t, "publish")
     \/ /\ Goto(t, "failed")                       \* GET failed
        /\ UNCHANGED prevOwner
  /\ UNCHANGED <<redis, procs, owner, edit, tries, prevTurn, beats, cancelled, history>>

\* The superseded turn as the local handle knows it: ph.prevTurnID, and 0 when
\* the handle is missing or belongs to another owner.
LocalPrevTurn(t) ==
  LET ph == localTurns[owner[t].inst]
  IN  IF ph # None /\ owner[ph] = prevOwner[t] THEN prevTurn[ph] ELSE None

\* PUBLISH reaches the channel of the owner's process, if it is subscribed and
\* the connection does not drop the message; the publisher sees no difference.
Publish(t) ==
  LET target == prevOwner[t].inst IN
  /\ pc[t] = "publish"
  /\ prevTurn' = [prevTurn EXCEPT ![t] = LocalPrevTurn(t)]
  /\ \/ UNCHANGED inbox
     \/ listening[target] /\ inbox' = [inbox EXCEPT ![target] = @ \cup {t}]
  /\ \E next \in {"wait", "failed"} : Goto(t, next)
  /\ UNCHANGED <<redis, proc, listening, listener, localTurns,
                 owner, edit, tries, prevOwner, beats, cancelled, history>>

\* waitLockReleased: the key is seen absent, or the five seconds, the request
\* or Redis end the wait.
WaitReleased(t) ==
  /\ pc[t] = "wait"
  /\ \/ holder = None /\ Goto(t, "reacquire")
     \/ Goto(t, "failed")
  /\ UNCHANGED <<redis, procs, locals, history>>

\* Defect: the waiter overwrites the key that another request set meanwhile.
ReacquireByForce(t) ==
  /\ pc[t] = "reacquire"
  /\ holder' = t /\ ttl' = TTL
  /\ Goto(t, "store")
  /\ UNCHANGED <<procs, locals, history>>

Reacquire(t) ==
  /\ pc[t] = "reacquire"
  /\ \/ Grant(t) /\ Goto(t, "store")
     \/ holder # None /\ Goto(t, "refused") /\ UNCHANGED redis
  /\ UNCHANGED <<procs, locals, history>>

StoreHandle(t) ==
  /\ pc[t] = "store"
  /\ localTurns' = [localTurns EXCEPT ![owner[t].inst] = t]
  /\ Goto(t, "setup")
  /\ UNCHANGED <<redis, proc, listening, inbox, listener, locals, history>>
-----------------------------------------------------------------------------
(* Chat under the lease: numbering, history, user message, agent, release. *)

\* Defect: an error of Chat returns without releaseHandle.
SetupWithoutRelease(t) ==
  /\ pc[t] = "setup"
  /\ \E next \in {"running", "failed"} : Goto(t, next)
  /\ UNCHANGED <<redis, procs, locals, history>>

Setup(t) ==
  /\ pc[t] = "setup"
  /\ \E next \in {"running", "relMap"} : Goto(t, next)   \* relMap: an error
  /\ UNCHANGED <<redis, procs, locals, history>>

\* Defect: a renewal adds to the time left.
HeartbeatAdds(t) ==
  /\ pc[t] = "running"
  /\ ~cancelled[t]
  /\ beats[t] < MaxBeats
  /\ beats' = [beats EXCEPT ![t] = @ + 1]
  /\ ttl' = IF KeyIsOwnedBy(t) THEN ttl + TTL ELSE ttl
  /\ UNCHANGED <<holder, procs, pc, owner, edit, tries, prevOwner, prevTurn,
                 cancelled, history>>

Heartbeat(t) ==
  /\ pc[t] = "running"
  /\ ~cancelled[t]
  /\ beats[t] < MaxBeats
  /\ beats' = [beats EXCEPT ![t] = @ + 1]
  /\ ttl' = IF KeyIsOwnedBy(t) THEN TTL ELSE ttl
  /\ UNCHANGED <<holder, procs, pc, owner, edit, tries, prevOwner, prevTurn,
                 cancelled, history>>

AgentReturns(t) ==
  /\ pc[t] = "running"
  /\ Goto(t, "relMap")
  /\ UNCHANGED <<redis, procs, locals, history>>

DeleteHandle(t) ==
  /\ pc[t] = "relMap"
  /\ localTurns' = [localTurns EXCEPT ![owner[t].inst] = None]
  /\ Goto(t, "relLock")
  /\ UNCHANGED <<redis, proc, listening, inbox, listener, locals, history>>

\* Defect: the release is retried until the owner check succeeds.
ReleaseLockRetries(t) ==
  /\ pc[t] = "relLock"
  /\ KeyIsOwnedBy(t)
  /\ Goto(t, "done")
  /\ holder' = None
  /\ ttl' = 0
  /\ UNCHANGED <<procs, locals, history>>

\* The owner-checked DEL; its error is ignored, so a DEL that never reached
\* Redis ends the turn all the same.
ReleaseLock(t) ==
  /\ pc[t] = "relLock"
  /\ Goto(t, "done")
  /\ \/ /\ KeyIsOwnedBy(t)
        /\ holder' = None
        /\ ttl' = 0
        /\ lost' = IF holder # t /\ Holding(holder)
                   THEN [lost EXCEPT ![holder] = "stolen"] ELSE lost
        /\ UNCHANGED dropped
     \/ /\ dropped' = IF holder = t THEN dropped \cup {t} ELSE dropped
        /\ UNCHANGED <<redis, lost>>
  /\ UNCHANGED <<procs, locals, crashes>>
-----------------------------------------------------------------------------
(* The cancel listener of a process: StartCancelListener, handleRemoteCancel. *)

ReceiveCancel(i) ==
  /\ proc[i] # "down"
  /\ listener[i] = Idle
  /\ \E m \in inbox[i] : inbox' = [inbox EXCEPT ![i] = @ \ {m}]
  /\ listener' = IF localTurns[i] = None THEN listener
                 ELSE [listener EXCEPT ![i] = [stage |-> "release",
                                               turn |-> localTurns[i]]]
  /\ UNCHANGED <<redis, proc, listening, localTurns, pc, locals, history>>

CancelReleases(i) ==
  LET t == listener[i].turn IN
  /\ listener[i].stage = "release"
  /\ listener' = [listener EXCEPT ![i].stage = "cancel"]
  /\ \/ /\ KeyIsOwnedBy(t)
        /\ Remove(IF holder = t THEN "cancelled" ELSE "stolen")
     \/ UNCHANGED <<redis, lost>>
  /\ UNCHANGED <<proc, listening, inbox, localTurns, pc, locals, dropped, crashes>>

\* Defect: the handler loads the map again for the context to cancel.
CancelAgentReloads(i) ==
  /\ listener[i].stage = "cancel"
  /\ cancelled' = [t \in Turns |-> cancelled[t] \/ t = localTurns[i]]
  /\ listener' = [listener EXCEPT ![i] = Idle]
  /\ UNCHANGED <<redis, proc, listening, inbox, localTurns, pc,
                 owner, edit, tries, prevOwner, prevTurn, beats, history>>

CancelAgent(i) ==
  /\ listener[i].stage = "cancel"
  /\ cancelled' = [cancelled EXCEPT ![listener[i].turn] = TRUE]
  /\ listener' = [listener EXCEPT ![i] = Idle]
  /\ UNCHANGED <<redis, proc, listening, inbox, localTurns, pc,
                 owner, edit, tries, prevOwner, prevTurn, beats, history>>
-----------------------------------------------------------------------------
(* The server process. *)

Boot(i) ==
  /\ proc[i] = "down"
  /\ proc' = [proc EXCEPT ![i] = "booting"]
  /\ listening' = [listening EXCEPT ![i] = TRUE]
  /\ UNCHANGED <<redis, inbox, listener, localTurns, pc, locals, history>>

BootstrapReturns(i) ==
  /\ proc[i] = "booting"
  /\ proc' = [proc EXCEPT ![i] = "serving"]
  /\ listening' = [listening EXCEPT ![i] = ~CleanupOnReturn]
  /\ UNCHANGED <<redis, inbox, listener, localTurns, pc, locals, history>>

Crash(i) ==
  LET dies(t) == On(t, i) /\ pc[t] \in Waiting \cup Running IN
  /\ proc[i] # "down"
  /\ crashes < MaxCrashes
  /\ crashes' = crashes + 1
  /\ proc' = [proc EXCEPT ![i] = "down"]
  /\ listening' = [listening EXCEPT ![i] = FALSE]
  /\ inbox' = [inbox EXCEPT ![i] = {}]
  /\ listener' = [listener EXCEPT ![i] = Idle]
  /\ localTurns' = [localTurns EXCEPT ![i] = None]
  /\ pc' = [t \in Turns |-> IF dies(t) THEN "dead" ELSE pc[t]]
  /\ dropped' = dropped \cup {t \in Turns : dies(t) /\ holder = t}
  /\ UNCHANGED <<redis, locals, lost>>
-----------------------------------------------------------------------------
TurnStep(t) ==
  \/ Acquire(t) \/ AcquireFails(t) \/ ReadOwner(t) \/ Publish(t)
  \/ WaitReleased(t) \/ Reacquire(t) \/ StoreHandle(t) \/ Setup(t)
  \/ Heartbeat(t) \/ AgentReturns(t) \/ DeleteHandle(t) \/ ReleaseLock(t)

ListenerStep(i) == ReceiveCancel(i) \/ CancelReleases(i) \/ CancelAgent(i)

Next ==
  \/ Tick
  \/ \E t \in Turns : TurnStep(t) \/ \E i \in Instances : Start(t, i)
  \/ \E i \in Instances :
       ListenerStep(i) \/ Boot(i) \/ BootstrapReturns(i) \/ Crash(i)

Spec == Init /\ [][Next]_vars

\* Time passes; goroutines of a process that does not crash are scheduled.
\* Requests need not arrive and processes need not start or crash.
Fairness ==
  /\ WF_vars(Tick)
  /\ \A t \in Turns : WF_vars(TurnStep(t))
  /\ \A i \in Instances : WF_vars(ListenerStep(i))

FairSpec == Spec /\ Fairness
-----------------------------------------------------------------------------
(* Properties. *)

\* Every variable keeps the type the code gives it.
TypeOK ==
  /\ holder \in Turns \cup {None}
  /\ ttl \in 0 .. TTL
  /\ proc \in [Instances -> {"down", "booting", "serving"}]
  /\ listening \in [Instances -> BOOLEAN]
  /\ inbox \in [Instances -> SUBSET Turns]
  /\ listener \in [Instances -> [stage : {"idle", "release", "cancel"},
                                 turn : Turns \cup {None}]]
  /\ localTurns \in [Instances -> Turns \cup {None}]
  /\ pc \in [Turns -> PCs]
  /\ owner \in [Turns -> Owners]
  /\ edit \in [Turns -> BOOLEAN]
  /\ tries \in [Turns -> 0 .. 2]
  /\ prevOwner \in [Turns -> Owners]
  /\ prevTurn \in [Turns -> Turns \cup {None}]
  /\ beats \in [Turns -> 0 .. MaxBeats]
  /\ cancelled \in [Turns -> BOOLEAN]
  /\ lost \in [Turns -> {"no", "expired", "cancelled", "stolen"}]
  /\ dropped \subseteq Turns
  /\ crashes \in 0 .. MaxCrashes

\* A lease key that exists belongs to a turn still at work that has not lost
\* it, or to one whose DEL never reached Redis: no path of acquireTurn, Chat
\* or releaseHandle returns and leaves the conversation locked behind it.
NoLeakedLease ==
  holder # None => \/ Holding(holder) /\ lost[holder] = "no"
                   \/ holder \in dropped

\* Turns on one conversation are serialised: two are at work together only
\* when one of them lost its lease, to expiry, to a cancel, or to a turn that
\* built the same owner string.
OverlapNeedsLoss ==
  \A t, u \in Turns :
    t # u /\ Holding(t) /\ Holding(u) => lost[t] # "no" \/ lost[u] # "no"

\* A turn that a cancel displaced is being stopped: handleRemoteCancel frees
\* the lease first, but the context is cancelled or is the listener's next step.
CancelledTurnStops ==
  \A t \in Turns :
    Holding(t) /\ lost[t] = "cancelled" =>
      \/ cancelled[t]
      \/ \E i \in Instances : listener[i] = [stage |-> "cancel", turn |-> t]

\* A lease is deleted under a turn it belongs to only by a turn of the same
\* process that read the same goroutine count.
TheftNeedsTwin ==
  \A t \in Turns :
    lost[t] = "stolen" => \E u \in Turns \ {t} : SameOwner(t, u)

\* localTurns never names a finished turn: a cancel never reaches the context
\* of a request that is over when the listener loads the map.
HandleIsLive ==
  \A i \in Instances :
    LET t == localTurns[i]
    IN  t # None => On(t, i) /\ pc[t] \in {"setup", "running", "relMap"}

\* A running turn missing from its process's map, which no later cancel can
\* find, shares the process with a turn that lost its lease while running.
UnregisteredNeedsLoss ==
  \A t \in Turns :
    pc[t] \in {"setup", "running"} /\ localTurns[owner[t].inst] # t =>
      \/ lost[t] # "no"
      \/ \E u \in Turns \ {t} : lost[u] # "no" /\ owner[u].inst = owner[t].inst

\* An agent is cancelled only after an edit request read an owner of the
\* agent's process.
CancelNeedsEdit ==
  \A t \in Turns :
    cancelled[t] => \E u \in Turns : edit[u] /\ prevOwner[u].inst = owner[t].inst

\* What no interleaving, expiry, lost reply or lost cancel may do to the lease: leave
\* it behind, let turns overlap that lost nothing, or hand it to a stranger.
LeaseSafety == NoLeakedLease /\ OverlapNeedsLoss /\ TheftNeedsTwin

\* What a cancel may rely on: it finds the turns that are at work and no other, what it
\* frees the lease of does stop, and nothing stops unless an edit asked for it.
CancelSafety ==
  HandleIsLive /\ UnregisteredNeedsLoss /\ CancelledTurnStops /\ CancelNeedsEdit

\* Every accepted request is answered or dies with its process, and a started
\* turn comes to its end: no wait in acquireTurn is unbounded.
EveryTurnEnds ==
  \A t \in Turns : pc[t] = "acquire" ~> pc[t] \in Finished

\* No conversation stays locked: after a crash or a lost DEL the key expires.
LeaseIsFreed == holder # None ~> holder = None

\* Turn implements the abstract lease: see TurnLease.
Lease == INSTANCE TurnLease WITH
  lease     <- holder,
  working   <- {t \in Turns : Holding(t)},
  displaced <- {t \in Turns : lost[t] # "no"}

\* The refinement itself: every step of the code is a grant, a loss or an end
\* of turns as the abstract lease allows them, or leaves the lease alone.
LeaseRefined == Lease!Spec
=============================================================================
