----------------------------- MODULE TurnProofs -----------------------------
(***************************************************************************)
(* Proofs about Turn, for every set of requests, processes and counts.     *)
(***************************************************************************)
EXTENDS Turn, TLAPS

\* A request that has not arrived has no state; one that has carries the
\* INSTANCE_ID of its process, and acquires at most twice.
Started ==
  \A t \in Turns :
    IF pc[t] = "idle"
    THEN owner[t] = NoOwner /\ tries[t] = 0
    ELSE owner[t].inst \in Instances /\ (pc[t] = "acquire" => tries[t] < 2)

\* A lease can only be lost after it was granted.
LossIsLate ==
  \A t \in Turns : lost[t] # "no" => pc[t] \in Running \cup {"done", "dead"}

\* A turn that left its key behind is over.
DroppedIsOver == \A t \in dropped : pc[t] \in {"failed", "done", "dead"}

\* A working turn that has not lost the lease is the one the key names.
HolderIsNamed ==
  \A t \in Turns : Holding(t) /\ lost[t] = "no" => holder = t

\* The listener of a process acts on turns that process started.
ListenerIsLocal ==
  \A i \in Instances :
    LET t == listener[i].turn
    IN  listener[i].stage # "idle" => t \in Turns /\ On(t, i) /\ pc[t] # "idle"

IInv ==
  /\ TypeOK
  /\ Started
  /\ LossIsLate
  /\ DroppedIsOver
  /\ HolderIsNamed
  /\ ListenerIsLocal
  /\ NoLeakedLease
  /\ HandleIsLive
  /\ TheftNeedsTwin
  /\ CancelledTurnStops

-----------------------------------------------------------------------------
\* The initial state satisfies the inductive invariant.
LEMMA InitIInv == Init => IInv
  BY ConstantAssumption DEF Init, IInv, TypeOK, Started, LossIsLate, DroppedIsOver,
     HolderIsNamed, ListenerIsLocal, NoLeakedLease, HandleIsLive, TheftNeedsTwin,
     CancelledTurnStops, Holding, On, Owners, NoOwner, Idle, PCs, Waiting, Running, Finished

\* Every step keeps the types.
LEMMA TypeStep ==
  IInv /\ [Next]_vars => TypeOK'
<1> SUFFICES ASSUME IInv, [Next]_vars PROVE TypeOK'
  OBVIOUS
<1> USE ConstantAssumption DEF IInv, TypeOK, redis, procs, locals, history, PCs, Waiting,
  Running, Finished, Goto
<1>1. CASE Tick
  <2>1. ttl' \in 0 .. TTL
    BY <1>1 DEF Tick, Remove
  <2>2. lost' \in [Turns -> {"no", "expired", "cancelled", "stolen"}]
    BY <1>1 DEF Tick, Remove
  <2>3. holder' \in Turns \cup {None}
    BY <1>1 DEF Tick, Remove
  <2> QED
    BY <1>1, <2>1, <2>2, <2>3 DEF Tick
<1>2. ASSUME NEW t \in Turns, NEW i \in Instances, Start(t, i) PROVE TypeOK'
  BY <1>2 DEF Start, Owners
<1>3. ASSUME NEW t \in Turns, Acquire(t) PROVE TypeOK'
  <2>1. tries' \in [Turns -> 0 .. 2]
    <3>1. tries[t] < 2 /\ tries[t] \in 0 .. 2
      BY <1>3 DEF Acquire, Started
    <3> QED
      BY <1>3, <3>1 DEF Acquire
  <2>2. pc' \in [Turns -> PCs]
    BY <1>3 DEF Acquire
  <2>3. holder' \in Turns \cup {None} /\ ttl' \in 0 .. TTL
    BY <1>3 DEF Acquire, Grant
  <2> QED
    BY <1>3, <2>1, <2>2, <2>3 DEF Acquire
<1>4. ASSUME NEW t \in Turns, AcquireFails(t) PROVE TypeOK'
  BY <1>4 DEF AcquireFails, Grant
<1>5. ASSUME NEW t \in Turns, ReadOwner(t) PROVE TypeOK'
  <2>1. pc' \in [Turns -> PCs]
    BY <1>5 DEF ReadOwner
  <2>2. prevOwner' \in [Turns -> Owners]
    BY <1>5 DEF ReadOwner
  <2> QED
    BY <1>5, <2>1, <2>2 DEF ReadOwner
<1>6. ASSUME NEW t \in Turns, Publish(t) PROVE TypeOK'
  <2>1. prevTurn' \in [Turns -> Turns \cup {None}]
    <3>1. owner[t].inst \in Instances
      BY <1>6 DEF Publish, Started
    <3>2. LocalPrevTurn(t) \in Turns \cup {None}
      BY <3>1 DEF LocalPrevTurn
    <3> QED
      BY <1>6, <3>2 DEF Publish
  <2>2. pc' \in [Turns -> PCs]
    BY <1>6 DEF Publish
  <2>3. inbox' \in [Instances -> SUBSET Turns]
    BY <1>6 DEF Publish
  <2> QED
    BY <1>6, <2>1, <2>2, <2>3 DEF Publish
<1>7. ASSUME NEW t \in Turns, WaitReleased(t) PROVE TypeOK'
  BY <1>7 DEF WaitReleased
<1>8. ASSUME NEW t \in Turns, Reacquire(t) PROVE TypeOK'
  BY <1>8 DEF Reacquire, Grant
<1>9. ASSUME NEW t \in Turns, StoreHandle(t) PROVE TypeOK'
  BY <1>9 DEF StoreHandle
<1>10. ASSUME NEW t \in Turns, Setup(t) PROVE TypeOK'
  BY <1>10 DEF Setup
<1>11. ASSUME NEW t \in Turns, Heartbeat(t) PROVE TypeOK'
  BY <1>11 DEF Heartbeat
<1>12. ASSUME NEW t \in Turns, AgentReturns(t) PROVE TypeOK'
  BY <1>12 DEF AgentReturns
<1>13. ASSUME NEW t \in Turns, DeleteHandle(t) PROVE TypeOK'
  BY <1>13 DEF DeleteHandle
<1>14. ASSUME NEW t \in Turns, ReleaseLock(t) PROVE TypeOK'
  BY <1>14 DEF ReleaseLock
<1>15. ASSUME NEW i \in Instances, ReceiveCancel(i) PROVE TypeOK'
  BY <1>15 DEF ReceiveCancel
<1>16. ASSUME NEW i \in Instances, CancelReleases(i) PROVE TypeOK'
  <2>1. lost' \in [Turns -> {"no", "expired", "cancelled", "stolen"}]
    BY <1>16 DEF CancelReleases, Remove
  <2>2. holder' \in Turns \cup {None} /\ ttl' \in 0 .. TTL
    BY <1>16 DEF CancelReleases, Remove
  <2>3. listener' \in [Instances -> [stage : {"idle", "release", "cancel"},
                                     turn : Turns \cup {None}]]
    BY <1>16 DEF CancelReleases
  <2> QED
    BY <1>16, <2>1, <2>2, <2>3 DEF CancelReleases
<1>17. ASSUME NEW i \in Instances, CancelAgent(i) PROVE TypeOK'
  BY <1>17 DEF CancelAgent, Idle
<1>18. ASSUME NEW i \in Instances, Boot(i) PROVE TypeOK'
  BY <1>18 DEF Boot
<1>19. ASSUME NEW i \in Instances, BootstrapReturns(i) PROVE TypeOK'
  BY <1>19 DEF BootstrapReturns
<1>20. ASSUME NEW i \in Instances, Crash(i) PROVE TypeOK'
  BY <1>20 DEF Crash, Idle
<1>21. CASE UNCHANGED vars
  BY <1>21 DEF vars
<1> QED
  BY <1>1, <1>2, <1>3, <1>4, <1>5, <1>6, <1>7, <1>8, <1>9, <1>10, <1>11, <1>12, <1>13, <1>14, <1>15, <1>16, <1>17, <1>18, <1>19, <1>20, <1>21 DEF Next, TurnStep, ListenerStep

\* Owners are fixed when the request arrives; the acquire loop is bounded.
LEMMA StartedStep ==
  IInv /\ [Next]_vars => Started'
<1> SUFFICES ASSUME IInv, [Next]_vars PROVE Started'
  OBVIOUS
<1> USE ConstantAssumption DEF IInv, TypeOK, redis, procs, locals, history,
     Goto, PCs, Waiting, Running, Finished, Started
<1>1. CASE Tick
  BY <1>1 DEF Tick, Remove
<1>2. ASSUME NEW t \in Turns, NEW i \in Instances, Start(t, i) PROVE Started'
  BY <1>2 DEF Start, NoOwner
<1>3. ASSUME NEW t \in Turns, Acquire(t)
       PROVE  Started'
  BY <1>3 DEF Acquire, Grant
<1>4. ASSUME NEW t \in Turns, AcquireFails(t)
       PROVE  Started'
  BY <1>4 DEF AcquireFails, Grant
<1>5. ASSUME NEW t \in Turns, ReadOwner(t)
       PROVE  Started'
  BY <1>5 DEF ReadOwner
<1>6. ASSUME NEW t \in Turns, Publish(t)
       PROVE  Started'
  BY <1>6 DEF Publish
<1>7. ASSUME NEW t \in Turns, Reacquire(t)
       PROVE  Started'
  BY <1>7 DEF Reacquire, Grant
<1>8. ASSUME NEW t \in Turns, StoreHandle(t)
       PROVE  Started'
  BY <1>8 DEF StoreHandle
<1>9. ASSUME NEW t \in Turns,
              WaitReleased(t) \/ Setup(t) \/ AgentReturns(t)
       PROVE  Started'
  BY <1>9 DEF WaitReleased, Setup, AgentReturns
<1>10. ASSUME NEW t \in Turns, Heartbeat(t)
       PROVE  Started'
  BY <1>10 DEF Heartbeat
<1>11. ASSUME NEW t \in Turns, DeleteHandle(t)
       PROVE  Started'
  BY <1>11 DEF DeleteHandle
<1>12. ASSUME NEW t \in Turns, ReleaseLock(t)
       PROVE  Started'
  BY <1>12 DEF ReleaseLock
<1>13. ASSUME NEW i \in Instances, ReceiveCancel(i)
       PROVE  Started'
  BY <1>13 DEF ReceiveCancel
<1>14. ASSUME NEW i \in Instances, CancelReleases(i)
       PROVE  Started'
  BY <1>14 DEF CancelReleases, Remove
<1>15. ASSUME NEW i \in Instances, CancelAgent(i)
       PROVE  Started'
  BY <1>15 DEF CancelAgent, Idle
<1>16. ASSUME NEW i \in Instances, Boot(i) \/ BootstrapReturns(i)
       PROVE  Started'
  BY <1>16 DEF Boot, BootstrapReturns
<1>17. ASSUME NEW i \in Instances, Crash(i)
       PROVE  Started'
  BY <1>17 DEF Crash, Idle
<1>18. CASE UNCHANGED vars
  BY <1>18 DEF vars
<1> QED
  BY <1>1, <1>2, <1>3, <1>4, <1>5, <1>6, <1>7, <1>8, <1>9, <1>10, <1>11,
     <1>12, <1>13, <1>14, <1>15, <1>16, <1>17, <1>18 DEF Next, TurnStep, ListenerStep

\* Only a turn that was granted the lease loses it.
LEMMA LossStep ==
  IInv /\ [Next]_vars => LossIsLate'
<1> SUFFICES ASSUME IInv, [Next]_vars PROVE LossIsLate'
  OBVIOUS
<1> USE ConstantAssumption DEF IInv, TypeOK, redis, procs, locals, history,
     Goto, PCs, Waiting, Running, Finished, LossIsLate, NoLeakedLease, Holding
<1>1. CASE Tick
  BY <1>1 DEF Tick, Remove
<1>2. ASSUME NEW t \in Turns, NEW i \in Instances, Start(t, i) PROVE LossIsLate'
  BY <1>2 DEF Start
<1>3. ASSUME NEW t \in Turns, Acquire(t)
       PROVE  LossIsLate'
  BY <1>3 DEF Acquire, Grant
<1>4. ASSUME NEW t \in Turns, AcquireFails(t)
       PROVE  LossIsLate'
  BY <1>4 DEF AcquireFails, Grant
<1>5. ASSUME NEW t \in Turns, ReadOwner(t)
       PROVE  LossIsLate'
  BY <1>5 DEF ReadOwner
<1>6. ASSUME NEW t \in Turns, Publish(t)
       PROVE  LossIsLate'
  BY <1>6 DEF Publish
<1>7. ASSUME NEW t \in Turns, Reacquire(t)
       PROVE  LossIsLate'
  BY <1>7 DEF Reacquire, Grant
<1>8. ASSUME NEW t \in Turns, StoreHandle(t)
       PROVE  LossIsLate'
  BY <1>8 DEF StoreHandle
<1>9. ASSUME NEW t \in Turns,
              WaitReleased(t) \/ Setup(t) \/ AgentReturns(t)
       PROVE  LossIsLate'
  BY <1>9 DEF WaitReleased, Setup, AgentReturns
<1>10. ASSUME NEW t \in Turns, Heartbeat(t)
       PROVE  LossIsLate'
  BY <1>10 DEF Heartbeat
<1>11. ASSUME NEW t \in Turns, DeleteHandle(t)
       PROVE  LossIsLate'
  BY <1>11 DEF DeleteHandle
<1>12. ASSUME NEW t \in Turns, ReleaseLock(t)
       PROVE  LossIsLate'
  BY <1>12 DEF ReleaseLock
<1>13. ASSUME NEW i \in Instances, ReceiveCancel(i)
       PROVE  LossIsLate'
  BY <1>13 DEF ReceiveCancel
<1>14. ASSUME NEW i \in Instances, CancelReleases(i)
       PROVE  LossIsLate'
  BY <1>14 DEF CancelReleases, Remove
<1>15. ASSUME NEW i \in Instances, CancelAgent(i)
       PROVE  LossIsLate'
  BY <1>15 DEF CancelAgent, Idle
<1>16. ASSUME NEW i \in Instances, Boot(i) \/ BootstrapReturns(i)
       PROVE  LossIsLate'
  BY <1>16 DEF Boot, BootstrapReturns
<1>17. ASSUME NEW i \in Instances, Crash(i)
       PROVE  LossIsLate'
  BY <1>17 DEF Crash, Idle
<1>18. CASE UNCHANGED vars
  BY <1>18 DEF vars
<1> QED
  BY <1>1, <1>2, <1>3, <1>4, <1>5, <1>6, <1>7, <1>8, <1>9, <1>10, <1>11,
     <1>12, <1>13, <1>14, <1>15, <1>16, <1>17, <1>18 DEF Next, TurnStep, ListenerStep

\* Turns that leave the key behind do not come back.
LEMMA DroppedStep ==
  IInv /\ [Next]_vars => DroppedIsOver'
<1> SUFFICES ASSUME IInv, [Next]_vars PROVE DroppedIsOver'
  OBVIOUS
<1> USE ConstantAssumption DEF IInv, TypeOK, redis, procs, locals, history,
     Goto, PCs, Waiting, Running, Finished, DroppedIsOver, NoLeakedLease,
     Holding, HolderIsNamed
<1>1. CASE Tick
  BY <1>1 DEF Tick, Remove
<1>2. ASSUME NEW t \in Turns, NEW i \in Instances, Start(t, i) PROVE DroppedIsOver'
  BY <1>2 DEF Start
<1>3. ASSUME NEW t \in Turns, Acquire(t)
       PROVE  DroppedIsOver'
  BY <1>3 DEF Acquire, Grant
<1>4. ASSUME NEW t \in Turns, AcquireFails(t)
       PROVE  DroppedIsOver'
  BY <1>4 DEF AcquireFails, Grant
<1>5. ASSUME NEW t \in Turns, ReadOwner(t)
       PROVE  DroppedIsOver'
  BY <1>5 DEF ReadOwner
<1>6. ASSUME NEW t \in Turns, Publish(t)
       PROVE  DroppedIsOver'
  BY <1>6 DEF Publish
<1>7. ASSUME NEW t \in Turns, Reacquire(t)
       PROVE  DroppedIsOver'
  BY <1>7 DEF Reacquire, Grant
<1>8. ASSUME NEW t \in Turns, StoreHandle(t)
       PROVE  DroppedIsOver'
  BY <1>8 DEF StoreHandle
<1>9. ASSUME NEW t \in Turns,
              WaitReleased(t) \/ Setup(t) \/ AgentReturns(t)
       PROVE  DroppedIsOver'
  BY <1>9 DEF WaitReleased, Setup, AgentReturns
<1>10. ASSUME NEW t \in Turns, Heartbeat(t)
       PROVE  DroppedIsOver'
  BY <1>10 DEF Heartbeat
<1>11. ASSUME NEW t \in Turns, DeleteHandle(t)
       PROVE  DroppedIsOver'
  BY <1>11 DEF DeleteHandle
<1>12. ASSUME NEW t \in Turns, ReleaseLock(t)
       PROVE  DroppedIsOver'
  BY <1>12 DEF ReleaseLock
<1>13. ASSUME NEW i \in Instances, ReceiveCancel(i)
       PROVE  DroppedIsOver'
  BY <1>13 DEF ReceiveCancel
<1>14. ASSUME NEW i \in Instances, CancelReleases(i)
       PROVE  DroppedIsOver'
  BY <1>14 DEF CancelReleases, Remove
<1>15. ASSUME NEW i \in Instances, CancelAgent(i)
       PROVE  DroppedIsOver'
  BY <1>15 DEF CancelAgent, Idle
<1>16. ASSUME NEW i \in Instances, Boot(i) \/ BootstrapReturns(i)
       PROVE  DroppedIsOver'
  BY <1>16 DEF Boot, BootstrapReturns
<1>17. ASSUME NEW i \in Instances, Crash(i)
       PROVE  DroppedIsOver'
  BY <1>17 DEF Crash, Idle
<1>18. CASE UNCHANGED vars
  BY <1>18 DEF vars
<1> QED
  BY <1>1, <1>2, <1>3, <1>4, <1>5, <1>6, <1>7, <1>8, <1>9, <1>10, <1>11,
     <1>12, <1>13, <1>14, <1>15, <1>16, <1>17, <1>18 DEF Next, TurnStep, ListenerStep

\* A grant finds no key, so no undisturbed turn is working.
LEMMA NamedStep ==
  IInv /\ [Next]_vars => HolderIsNamed'
<1> SUFFICES ASSUME IInv, [Next]_vars PROVE HolderIsNamed'
  OBVIOUS
<1> USE ConstantAssumption DEF IInv, TypeOK, redis, procs, locals, history,
     Goto, PCs, Waiting, Running, Finished, HolderIsNamed, Holding, LossIsLate
<1>1. CASE Tick
  BY <1>1 DEF Tick, Remove
<1>2. ASSUME NEW t \in Turns, NEW i \in Instances, Start(t, i) PROVE HolderIsNamed'
  BY <1>2 DEF Start
<1>3. ASSUME NEW t \in Turns, Acquire(t)
       PROVE  HolderIsNamed'
  BY <1>3 DEF Acquire, Grant
<1>4. ASSUME NEW t \in Turns, AcquireFails(t)
       PROVE  HolderIsNamed'
  BY <1>4 DEF AcquireFails, Grant
<1>5. ASSUME NEW t \in Turns, ReadOwner(t)
       PROVE  HolderIsNamed'
  BY <1>5 DEF ReadOwner
<1>6. ASSUME NEW t \in Turns, Publish(t)
       PROVE  HolderIsNamed'
  BY <1>6 DEF Publish
<1>7. ASSUME NEW t \in Turns, Reacquire(t)
       PROVE  HolderIsNamed'
  BY <1>7 DEF Reacquire, Grant
<1>8. ASSUME NEW t \in Turns, StoreHandle(t)
       PROVE  HolderIsNamed'
  BY <1>8 DEF StoreHandle
<1>9. ASSUME NEW t \in Turns,
              WaitReleased(t) \/ Setup(t) \/ AgentReturns(t)
       PROVE  HolderIsNamed'
  BY <1>9 DEF WaitReleased, Setup, AgentReturns
<1>10. ASSUME NEW t \in Turns, Heartbeat(t)
       PROVE  HolderIsNamed'
  BY <1>10 DEF Heartbeat
<1>11. ASSUME NEW t \in Turns, DeleteHandle(t)
       PROVE  HolderIsNamed'
  BY <1>11 DEF DeleteHandle
<1>12. ASSUME NEW t \in Turns, ReleaseLock(t)
       PROVE  HolderIsNamed'
  BY <1>12 DEF ReleaseLock, KeyIsOwnedBy
<1>13. ASSUME NEW i \in Instances, ReceiveCancel(i)
       PROVE  HolderIsNamed'
  BY <1>13 DEF ReceiveCancel
<1>14. ASSUME NEW i \in Instances, CancelReleases(i)
       PROVE  HolderIsNamed'
  BY <1>14 DEF CancelReleases, Remove, KeyIsOwnedBy
<1>15. ASSUME NEW i \in Instances, CancelAgent(i)
       PROVE  HolderIsNamed'
  BY <1>15 DEF CancelAgent, Idle
<1>16. ASSUME NEW i \in Instances, Boot(i) \/ BootstrapReturns(i)
       PROVE  HolderIsNamed'
  BY <1>16 DEF Boot, BootstrapReturns
<1>17. ASSUME NEW i \in Instances, Crash(i)
       PROVE  HolderIsNamed'
  BY <1>17 DEF Crash, Idle
<1>18. CASE UNCHANGED vars
  BY <1>18 DEF vars
<1> QED
  BY <1>1, <1>2, <1>3, <1>4, <1>5, <1>6, <1>7, <1>8, <1>9, <1>10, <1>11,
     <1>12, <1>13, <1>14, <1>15, <1>16, <1>17, <1>18 DEF Next, TurnStep, ListenerStep

\* No step leaves a key behind that nobody is going to delete.
LEMMA LeakStep ==
  IInv /\ [Next]_vars => NoLeakedLease'
<1> SUFFICES ASSUME IInv, [Next]_vars PROVE NoLeakedLease'
  OBVIOUS
<1> USE ConstantAssumption DEF IInv, TypeOK, redis, procs, locals, history,
     Goto, PCs, Waiting, Running, Finished, NoLeakedLease, Holding, LossIsLate
<1>1. CASE Tick
  BY <1>1 DEF Tick, Remove
<1>2. ASSUME NEW t \in Turns, NEW i \in Instances, Start(t, i) PROVE NoLeakedLease'
  BY <1>2 DEF Start
<1>3. ASSUME NEW t \in Turns, Acquire(t)
       PROVE  NoLeakedLease'
  BY <1>3 DEF Acquire, Grant
<1>4. ASSUME NEW t \in Turns, AcquireFails(t)
       PROVE  NoLeakedLease'
  BY <1>4 DEF AcquireFails, Grant
<1>5. ASSUME NEW t \in Turns, ReadOwner(t)
       PROVE  NoLeakedLease'
  BY <1>5 DEF ReadOwner
<1>6. ASSUME NEW t \in Turns, Publish(t)
       PROVE  NoLeakedLease'
  BY <1>6 DEF Publish
<1>7. ASSUME NEW t \in Turns, Reacquire(t)
       PROVE  NoLeakedLease'
  BY <1>7 DEF Reacquire, Grant
<1>8. ASSUME NEW t \in Turns, StoreHandle(t)
       PROVE  NoLeakedLease'
  BY <1>8 DEF StoreHandle
<1>9. ASSUME NEW t \in Turns,
              WaitReleased(t) \/ Setup(t) \/ AgentReturns(t)
       PROVE  NoLeakedLease'
  BY <1>9 DEF WaitReleased, Setup, AgentReturns
<1>10. ASSUME NEW t \in Turns, Heartbeat(t)
       PROVE  NoLeakedLease'
  BY <1>10 DEF Heartbeat
<1>11. ASSUME NEW t \in Turns, DeleteHandle(t)
       PROVE  NoLeakedLease'
  BY <1>11 DEF DeleteHandle
<1>12. ASSUME NEW t \in Turns, ReleaseLock(t)
       PROVE  NoLeakedLease'
  BY <1>12 DEF ReleaseLock, KeyIsOwnedBy, SameOwner
<1>13. ASSUME NEW i \in Instances, ReceiveCancel(i)
       PROVE  NoLeakedLease'
  BY <1>13 DEF ReceiveCancel
<1>14. ASSUME NEW i \in Instances, CancelReleases(i)
       PROVE  NoLeakedLease'
  BY <1>14 DEF CancelReleases, Remove
<1>15. ASSUME NEW i \in Instances, CancelAgent(i)
       PROVE  NoLeakedLease'
  BY <1>15 DEF CancelAgent, Idle
<1>16. ASSUME NEW i \in Instances, Boot(i) \/ BootstrapReturns(i)
       PROVE  NoLeakedLease'
  BY <1>16 DEF Boot, BootstrapReturns
<1>17. ASSUME NEW i \in Instances, Crash(i)
       PROVE  NoLeakedLease'
  BY <1>17 DEF Crash, Idle
<1>18. CASE UNCHANGED vars
  BY <1>18 DEF vars
<1> QED
  BY <1>1, <1>2, <1>3, <1>4, <1>5, <1>6, <1>7, <1>8, <1>9, <1>10, <1>11,
     <1>12, <1>13, <1>14, <1>15, <1>16, <1>17, <1>18 DEF Next, TurnStep, ListenerStep

\* The listener takes its handle from the map of its process.
LEMMA ListenerStepLocal ==
  IInv /\ [Next]_vars => ListenerIsLocal'
<1> SUFFICES ASSUME IInv, [Next]_vars PROVE ListenerIsLocal'
  OBVIOUS
<1> USE ConstantAssumption DEF IInv, TypeOK, redis, procs, locals, history,
     Goto, PCs, Waiting, Running, Finished, ListenerIsLocal, HandleIsLive, On
<1>1. CASE Tick
  BY <1>1 DEF Tick, Remove
<1>2. ASSUME NEW t \in Turns, NEW i \in Instances, Start(t, i) PROVE ListenerIsLocal'
  BY <1>2 DEF Start
<1>3. ASSUME NEW t \in Turns, Acquire(t)
       PROVE  ListenerIsLocal'
  BY <1>3 DEF Acquire, Grant
<1>4. ASSUME NEW t \in Turns, AcquireFails(t)
       PROVE  ListenerIsLocal'
  BY <1>4 DEF AcquireFails, Grant
<1>5. ASSUME NEW t \in Turns, ReadOwner(t)
       PROVE  ListenerIsLocal'
  BY <1>5 DEF ReadOwner
<1>6. ASSUME NEW t \in Turns, Publish(t)
       PROVE  ListenerIsLocal'
  BY <1>6 DEF Publish
<1>7. ASSUME NEW t \in Turns, Reacquire(t)
       PROVE  ListenerIsLocal'
  BY <1>7 DEF Reacquire, Grant
<1>8. ASSUME NEW t \in Turns, StoreHandle(t)
       PROVE  ListenerIsLocal'
  BY <1>8 DEF StoreHandle
<1>9. ASSUME NEW t \in Turns,
              WaitReleased(t) \/ Setup(t) \/ AgentReturns(t)
       PROVE  ListenerIsLocal'
  BY <1>9 DEF WaitReleased, Setup, AgentReturns
<1>10. ASSUME NEW t \in Turns, Heartbeat(t)
       PROVE  ListenerIsLocal'
  BY <1>10 DEF Heartbeat
<1>11. ASSUME NEW t \in Turns, DeleteHandle(t)
       PROVE  ListenerIsLocal'
  BY <1>11 DEF DeleteHandle
<1>12. ASSUME NEW t \in Turns, ReleaseLock(t)
       PROVE  ListenerIsLocal'
  BY <1>12 DEF ReleaseLock
<1>13. ASSUME NEW i \in Instances, ReceiveCancel(i)
       PROVE  ListenerIsLocal'
  BY <1>13 DEF ReceiveCancel
<1>14. ASSUME NEW i \in Instances, CancelReleases(i)
       PROVE  ListenerIsLocal'
  BY <1>14 DEF CancelReleases, Remove
<1>15. ASSUME NEW i \in Instances, CancelAgent(i)
       PROVE  ListenerIsLocal'
  BY <1>15 DEF CancelAgent, Idle
<1>16. ASSUME NEW i \in Instances, Boot(i) \/ BootstrapReturns(i)
       PROVE  ListenerIsLocal'
  BY <1>16 DEF Boot, BootstrapReturns
<1>17. ASSUME NEW i \in Instances, Crash(i)
       PROVE  ListenerIsLocal'
  BY <1>17 DEF Crash, Idle
<1>18. CASE UNCHANGED vars
  BY <1>18 DEF vars
<1> QED
  BY <1>1, <1>2, <1>3, <1>4, <1>5, <1>6, <1>7, <1>8, <1>9, <1>10, <1>11,
     <1>12, <1>13, <1>14, <1>15, <1>16, <1>17, <1>18 DEF Next, TurnStep, ListenerStep

\* A handle is deleted before its turn ends.
LEMMA HandleStep ==
  IInv /\ [Next]_vars => HandleIsLive'
<1> SUFFICES ASSUME IInv, [Next]_vars PROVE HandleIsLive'
  OBVIOUS
<1> USE ConstantAssumption DEF IInv, TypeOK, redis, procs, locals, history,
     Goto, PCs, Waiting, Running, Finished, HandleIsLive, On
<1>1. CASE Tick
  BY <1>1 DEF Tick, Remove
<1>2. ASSUME NEW t \in Turns, NEW i \in Instances, Start(t, i) PROVE HandleIsLive'
  BY <1>2 DEF Start
<1>3. ASSUME NEW t \in Turns, Acquire(t)
       PROVE  HandleIsLive'
  BY <1>3 DEF Acquire, Grant
<1>4. ASSUME NEW t \in Turns, AcquireFails(t)
       PROVE  HandleIsLive'
  BY <1>4 DEF AcquireFails, Grant
<1>5. ASSUME NEW t \in Turns, ReadOwner(t)
       PROVE  HandleIsLive'
  BY <1>5 DEF ReadOwner
<1>6. ASSUME NEW t \in Turns, Publish(t)
       PROVE  HandleIsLive'
  BY <1>6 DEF Publish
<1>7. ASSUME NEW t \in Turns, Reacquire(t)
       PROVE  HandleIsLive'
  BY <1>7 DEF Reacquire, Grant
<1>8. ASSUME NEW t \in Turns, StoreHandle(t)
       PROVE  HandleIsLive'
  BY <1>8 DEF StoreHandle
<1>9. ASSUME NEW t \in Turns,
              WaitReleased(t) \/ Setup(t) \/ AgentReturns(t)
       PROVE  HandleIsLive'
  BY <1>9 DEF WaitReleased, Setup, AgentReturns
<1>10. ASSUME NEW t \in Turns, Heartbeat(t)
       PROVE  HandleIsLive'
  BY <1>10 DEF Heartbeat
<1>11. ASSUME NEW t \in Turns, DeleteHandle(t)
       PROVE  HandleIsLive'
  BY <1>11 DEF DeleteHandle
<1>12. ASSUME NEW t \in Turns, ReleaseLock(t)
       PROVE  HandleIsLive'
  BY <1>12 DEF ReleaseLock
<1>13. ASSUME NEW i \in Instances, ReceiveCancel(i)
       PROVE  HandleIsLive'
  BY <1>13 DEF ReceiveCancel
<1>14. ASSUME NEW i \in Instances, CancelReleases(i)
       PROVE  HandleIsLive'
  BY <1>14 DEF CancelReleases, Remove
<1>15. ASSUME NEW i \in Instances, CancelAgent(i)
       PROVE  HandleIsLive'
  BY <1>15 DEF CancelAgent, Idle
<1>16. ASSUME NEW i \in Instances, Boot(i) \/ BootstrapReturns(i)
       PROVE  HandleIsLive'
  BY <1>16 DEF Boot, BootstrapReturns
<1>17. ASSUME NEW i \in Instances, Crash(i)
       PROVE  HandleIsLive'
  BY <1>17 DEF Crash, Idle
<1>18. CASE UNCHANGED vars
  BY <1>18 DEF vars
<1> QED
  BY <1>1, <1>2, <1>3, <1>4, <1>5, <1>6, <1>7, <1>8, <1>9, <1>10, <1>11,
     <1>12, <1>13, <1>14, <1>15, <1>16, <1>17, <1>18 DEF Next, TurnStep, ListenerStep

\* Only the owner check of a twin lets a turn delete a foreign key.
LEMMA TwinStep ==
  IInv /\ [Next]_vars => TheftNeedsTwin'
<1> SUFFICES ASSUME IInv, [Next]_vars PROVE TheftNeedsTwin'
  OBVIOUS
<1> USE ConstantAssumption DEF IInv, TypeOK, redis, procs, locals, history,
     Goto, PCs, Waiting, Running, Finished, TheftNeedsTwin, Started,
     LossIsLate, SameOwner, NoOwner, KeyIsOwnedBy, Holding, ListenerIsLocal
<1>1. CASE Tick
  BY <1>1 DEF Tick, Remove
<1>2. ASSUME NEW t \in Turns, NEW i \in Instances, Start(t, i) PROVE TheftNeedsTwin'
  <2> SUFFICES ASSUME NEW x \in Turns, lost[x] = "stolen"
               PROVE  \E u \in Turns \ {x} : owner'[x] = owner'[u]
    BY <1>2 DEF Start
  <2>1. PICK u \in Turns \ {x} : owner[x] = owner[u]
    OBVIOUS
  <2>2. pc[x] # "idle" /\ owner[x].inst \in Instances
    OBVIOUS
  <2>3. pc[u] # "idle"
    BY <2>1, <2>2
  <2> QED
    BY <1>2, <2>1, <2>2, <2>3 DEF Start
<1>3. ASSUME NEW t \in Turns, Acquire(t)
       PROVE  TheftNeedsTwin'
  BY <1>3 DEF Acquire, Grant
<1>4. ASSUME NEW t \in Turns, AcquireFails(t)
       PROVE  TheftNeedsTwin'
  BY <1>4 DEF AcquireFails, Grant
<1>5. ASSUME NEW t \in Turns, ReadOwner(t)
       PROVE  TheftNeedsTwin'
  BY <1>5 DEF ReadOwner
<1>6. ASSUME NEW t \in Turns, Publish(t)
       PROVE  TheftNeedsTwin'
  BY <1>6 DEF Publish
<1>7. ASSUME NEW t \in Turns, Reacquire(t)
       PROVE  TheftNeedsTwin'
  BY <1>7 DEF Reacquire, Grant
<1>8. ASSUME NEW t \in Turns, StoreHandle(t)
       PROVE  TheftNeedsTwin'
  BY <1>8 DEF StoreHandle
<1>9. ASSUME NEW t \in Turns,
              WaitReleased(t) \/ Setup(t) \/ AgentReturns(t)
       PROVE  TheftNeedsTwin'
  BY <1>9 DEF WaitReleased, Setup, AgentReturns
<1>10. ASSUME NEW t \in Turns, Heartbeat(t)
       PROVE  TheftNeedsTwin'
  BY <1>10 DEF Heartbeat
<1>11. ASSUME NEW t \in Turns, DeleteHandle(t)
       PROVE  TheftNeedsTwin'
  BY <1>11 DEF DeleteHandle
<1>12. ASSUME NEW t \in Turns, ReleaseLock(t)
       PROVE  TheftNeedsTwin'
  BY <1>12 DEF ReleaseLock
<1>13. ASSUME NEW i \in Instances, ReceiveCancel(i)
       PROVE  TheftNeedsTwin'
  BY <1>13 DEF ReceiveCancel
<1>14. ASSUME NEW i \in Instances, CancelReleases(i)
       PROVE  TheftNeedsTwin'
  BY <1>14 DEF CancelReleases, Remove
<1>15. ASSUME NEW i \in Instances, CancelAgent(i)
       PROVE  TheftNeedsTwin'
  BY <1>15 DEF CancelAgent, Idle
<1>16. ASSUME NEW i \in Instances, Boot(i) \/ BootstrapReturns(i)
       PROVE  TheftNeedsTwin'
  BY <1>16 DEF Boot, BootstrapReturns
<1>17. ASSUME NEW i \in Instances, Crash(i)
       PROVE  TheftNeedsTwin'
  BY <1>17 DEF Crash, Idle
<1>18. CASE UNCHANGED vars
  BY <1>18 DEF vars
<1> QED
  BY <1>1, <1>2, <1>3, <1>4, <1>5, <1>6, <1>7, <1>8, <1>9, <1>10, <1>11,
     <1>12, <1>13, <1>14, <1>15, <1>16, <1>17, <1>18 DEF Next, TurnStep, ListenerStep

\* A step that neither loses a lease nor moves a listener nor cancels, and puts
\* no turn that lost its lease to work, leaves cancelled turns stopping.
LEMMA StopFrame ==
  ASSUME CancelledTurnStops, NEW t \in Turns,
         lost' = lost, cancelled' = cancelled, listener' = listener,
         \A u \in Turns \ {t} : pc'[u] = pc[u],
         Holding(t)' => Holding(t) \/ lost[t] = "no"
  PROVE  CancelledTurnStops'
  BY DEF CancelledTurnStops, Holding

\* Freeing the lease and cancelling the context are steps of one handler.
LEMMA StopStep ==
  IInv /\ [Next]_vars => CancelledTurnStops'
<1> SUFFICES ASSUME IInv, [Next]_vars PROVE CancelledTurnStops'
  OBVIOUS
<1> USE ConstantAssumption DEF IInv, TypeOK, redis, procs, locals, history,
     Goto, PCs, Waiting, Running, Finished
<1>1. CASE Tick
  BY <1>1 DEF Tick, Remove,
     CancelledTurnStops, Holding, LossIsLate, ListenerIsLocal, On
<1>2. ASSUME NEW t \in Turns, NEW i \in Instances, Start(t, i) PROVE CancelledTurnStops'
  BY <1>2 DEF Start,
     CancelledTurnStops, Holding, LossIsLate, ListenerIsLocal, On
<1>3. ASSUME NEW t \in Turns, Acquire(t) PROVE CancelledTurnStops'
  <2>1. lost' = lost /\ cancelled' = cancelled /\ listener' = listener
    BY <1>3 DEF Acquire, Grant
  <2>2. /\ \A u \in Turns \ {t} : pc'[u] = pc[u]
        /\ Holding(t)' => Holding(t) \/ lost[t] = "no"
    BY <1>3 DEF Acquire, Grant, Holding, LossIsLate
  <2> QED
    BY <2>1, <2>2, StopFrame
<1>4. ASSUME NEW t \in Turns, AcquireFails(t) PROVE CancelledTurnStops'
  <2>1. lost' = lost /\ cancelled' = cancelled /\ listener' = listener
    BY <1>4 DEF AcquireFails, Grant
  <2>2. /\ \A u \in Turns \ {t} : pc'[u] = pc[u]
        /\ Holding(t)' => Holding(t) \/ lost[t] = "no"
    BY <1>4 DEF AcquireFails, Grant, Holding, LossIsLate
  <2> QED
    BY <2>1, <2>2, StopFrame
<1>5. ASSUME NEW t \in Turns, ReadOwner(t) PROVE CancelledTurnStops'
  <2>1. lost' = lost /\ cancelled' = cancelled /\ listener' = listener
    BY <1>5 DEF ReadOwner
  <2>2. /\ \A u \in Turns \ {t} : pc'[u] = pc[u]
        /\ Holding(t)' => Holding(t) \/ lost[t] = "no"
    BY <1>5 DEF ReadOwner, Holding, LossIsLate
  <2> QED
    BY <2>1, <2>2, StopFrame
<1>6. ASSUME NEW t \in Turns, Publish(t) PROVE CancelledTurnStops'
  <2>1. lost' = lost /\ cancelled' = cancelled /\ listener' = listener
    BY <1>6 DEF Publish
  <2>2. /\ \A u \in Turns \ {t} : pc'[u] = pc[u]
        /\ Holding(t)' => Holding(t) \/ lost[t] = "no"
    BY <1>6 DEF Publish, Holding, LossIsLate
  <2> QED
    BY <2>1, <2>2, StopFrame
<1>7. ASSUME NEW t \in Turns, Reacquire(t) PROVE CancelledTurnStops'
  <2>1. lost' = lost /\ cancelled' = cancelled /\ listener' = listener
    BY <1>7 DEF Reacquire, Grant
  <2>2. /\ \A u \in Turns \ {t} : pc'[u] = pc[u]
        /\ Holding(t)' => Holding(t) \/ lost[t] = "no"
    BY <1>7 DEF Reacquire, Grant, Holding, LossIsLate
  <2> QED
    BY <2>1, <2>2, StopFrame
<1>8. ASSUME NEW t \in Turns, StoreHandle(t) PROVE CancelledTurnStops'
  <2>1. lost' = lost /\ cancelled' = cancelled /\ listener' = listener
    BY <1>8 DEF StoreHandle
  <2>2. /\ \A u \in Turns \ {t} : pc'[u] = pc[u]
        /\ Holding(t)' => Holding(t) \/ lost[t] = "no"
    BY <1>8 DEF StoreHandle, Holding, LossIsLate
  <2> QED
    BY <2>1, <2>2, StopFrame
<1>9. ASSUME NEW t \in Turns, WaitReleased(t) \/ Setup(t) \/ AgentReturns(t) PROVE CancelledTurnStops'
  <2>1. lost' = lost /\ cancelled' = cancelled /\ listener' = listener
    BY <1>9 DEF WaitReleased, Setup, AgentReturns
  <2>2. /\ \A u \in Turns \ {t} : pc'[u] = pc[u]
        /\ Holding(t)' => Holding(t) \/ lost[t] = "no"
    BY <1>9 DEF WaitReleased, Setup, AgentReturns, Holding, LossIsLate
  <2> QED
    BY <2>1, <2>2, StopFrame
<1>10. ASSUME NEW t \in Turns, Heartbeat(t) PROVE CancelledTurnStops'
  <2>1. lost' = lost /\ cancelled' = cancelled /\ listener' = listener
    BY <1>10 DEF Heartbeat
  <2>2. /\ \A u \in Turns \ {t} : pc'[u] = pc[u]
        /\ Holding(t)' => Holding(t) \/ lost[t] = "no"
    BY <1>10 DEF Heartbeat, Holding, LossIsLate
  <2> QED
    BY <2>1, <2>2, StopFrame
<1>11. ASSUME NEW t \in Turns, DeleteHandle(t) PROVE CancelledTurnStops'
  <2>1. lost' = lost /\ cancelled' = cancelled /\ listener' = listener
    BY <1>11 DEF DeleteHandle
  <2>2. /\ \A u \in Turns \ {t} : pc'[u] = pc[u]
        /\ Holding(t)' => Holding(t) \/ lost[t] = "no"
    BY <1>11 DEF DeleteHandle, Holding, LossIsLate
  <2> QED
    BY <2>1, <2>2, StopFrame
<1>12. ASSUME NEW t \in Turns, ReleaseLock(t)
       PROVE  CancelledTurnStops'
  BY <1>12 DEF ReleaseLock,
     CancelledTurnStops, Holding, LossIsLate, ListenerIsLocal, On
<1>13. ASSUME NEW i \in Instances, ReceiveCancel(i)
       PROVE  CancelledTurnStops'
  BY <1>13 DEF ReceiveCancel, Idle,
     CancelledTurnStops, Holding, LossIsLate, ListenerIsLocal, On
<1>14. ASSUME NEW i \in Instances, CancelReleases(i)
       PROVE  CancelledTurnStops'
  BY <1>14 DEF CancelReleases, Remove,
     CancelledTurnStops, Holding, LossIsLate, ListenerIsLocal, On
<1>15. ASSUME NEW i \in Instances, CancelAgent(i)
       PROVE  CancelledTurnStops'
  BY <1>15 DEF CancelAgent, Idle,
     CancelledTurnStops, Holding, LossIsLate, ListenerIsLocal, On
<1>16. ASSUME NEW i \in Instances, Boot(i) \/ BootstrapReturns(i)
       PROVE  CancelledTurnStops'
  BY <1>16 DEF Boot, BootstrapReturns,
     CancelledTurnStops, Holding, LossIsLate, ListenerIsLocal, On
<1>17. ASSUME NEW i \in Instances, Crash(i)
       PROVE  CancelledTurnStops'
  BY <1>17 DEF Crash, Idle,
     CancelledTurnStops, Holding, LossIsLate, ListenerIsLocal, On
<1>18. CASE UNCHANGED vars
  BY <1>18 DEF vars,
     CancelledTurnStops, Holding, LossIsLate, ListenerIsLocal, On
<1> QED
  BY <1>1, <1>2, <1>3, <1>4, <1>5, <1>6, <1>7, <1>8, <1>9, <1>10, <1>11,
     <1>12, <1>13, <1>14, <1>15, <1>16, <1>17, <1>18 DEF Next, TurnStep, ListenerStep
-----------------------------------------------------------------------------
\* The inductive invariant holds initially, is kept by every step, and so
\* always.
THEOREM Inductive == Spec => []IInv
<1>1. Init => IInv
  BY InitIInv
<1>2. IInv /\ [Next]_vars => IInv'
  BY TypeStep, StartedStep, LossStep, DroppedStep, NamedStep, ListenerStepLocal,
     LeakStep, HandleStep, TwinStep, StopStep DEF IInv
<1> QED
  BY <1>1, <1>2, PTL DEF Spec

\* Every variable of Turn keeps its type.
THEOREM TypeCorrect == Spec => []TypeOK
<1>1. IInv => TypeOK
  BY DEF IInv
<1> QED
  BY <1>1, Inductive, PTL

\* Whatever acquireTurn, Chat and releaseHandle do, a lease key that exists has
\* a turn that will delete it, or its DEL was lost.
THEOREM NoLeak == Spec => []NoLeakedLease
<1>1. IInv => NoLeakedLease
  BY DEF IInv
<1> QED
  BY <1>1, Inductive, PTL

\* Turns of a conversation overlap only after a loss of the lease.
THEOREM Serialised == Spec => []OverlapNeedsLoss
<1>1. IInv => OverlapNeedsLoss
  BY DEF IInv, HolderIsNamed, OverlapNeedsLoss
<1> QED
  BY <1>1, Inductive, PTL

\* localTurns never names a finished turn.
THEOREM HandlesAreLive == Spec => []HandleIsLive
<1>1. IInv => HandleIsLive
  BY DEF IInv
<1> QED
  BY <1>1, Inductive, PTL

\* A lease is stolen only by a turn with the same owner string.
THEOREM TheftHasTwin == Spec => []TheftNeedsTwin
<1>1. IInv => TheftNeedsTwin
  BY DEF IInv
<1> QED
  BY <1>1, Inductive, PTL

\* A cancelled lease stops its turn.
THEOREM CancelStops == Spec => []CancelledTurnStops
<1>1. IInv => CancelledTurnStops
  BY DEF IInv
<1> QED
  BY <1>1, Inductive, PTL
-----------------------------------------------------------------------------
(* What a cancel may rely on (CancelSafety): two invariants beside IInv. *)

\* An edit has read an owner of the process.
Asked(i) == \E u \in Turns : edit[u] /\ prevOwner[u].inst = i

\* Only an edit comes to read an owner, reads it once, and sends what a listener
\* acts on.
CancelsAreAsked ==
  /\ \A t \in Turns :
       /\ pc[t] \in {"readOwner", "publish", "wait", "reacquire"} => edit[t]
       /\ pc[t] \in {"idle", "acquire", "readOwner"} => prevOwner[t] = NoOwner
       /\ cancelled[t] => pc[t] # "idle" /\ Asked(owner[t].inst)
  /\ \A i \in Instances : inbox[i] # {} \/ listener[i].stage # "idle" => Asked(i)

\* A process once asked for stays so.
LEMMA AskedStays ==
  ASSUME IInv, CancelsAreAsked, [Next]_vars, NEW i \in Instances, Asked(i)
  PROVE  Asked(i)'
<1> USE ConstantAssumption DEF IInv, TypeOK, locals
<1>1. PICK u \in Turns : edit[u] /\ prevOwner[u].inst = i
  BY DEF Asked
<1>2. pc[u] \notin {"idle", "acquire", "readOwner"}
  BY <1>1 DEF CancelsAreAsked, NoOwner
<1>3. edit'[u] /\ prevOwner'[u].inst = i
  <2>1. CASE Tick
    BY <2>1, <1>1 DEF Tick
  <2>2. ASSUME NEW t \in Turns, NEW k \in Instances, Start(t, k) PROVE edit'[u] /\ prevOwner'[u].inst = i
    BY <2>2, <1>1, <1>2 DEF Start
  <2>3. ASSUME NEW t \in Turns, ReadOwner(t) PROVE edit'[u] /\ prevOwner'[u].inst = i
    BY <2>3, <1>1, <1>2 DEF ReadOwner
  <2>4. ASSUME NEW t \in Turns, TurnStep(t), ~ ReadOwner(t) PROVE edit'[u] /\ prevOwner'[u].inst = i
    BY <2>4, <1>1 DEF TurnStep, Acquire, AcquireFails, Publish, WaitReleased, Reacquire,
       StoreHandle, Setup, Heartbeat, AgentReturns, DeleteHandle, ReleaseLock
  <2>5. ASSUME NEW k \in Instances, ListenerStep(k) \/ Boot(k) \/ BootstrapReturns(k) \/ Crash(k)
        PROVE  edit'[u] /\ prevOwner'[u].inst = i
    BY <2>5, <1>1 DEF ListenerStep, ReceiveCancel, CancelReleases, CancelAgent, Boot,
       BootstrapReturns, Crash
  <2>6. CASE UNCHANGED vars
    BY <2>6, <1>1 DEF vars
  <2> QED
    BY <2>1, <2>2, <2>3, <2>4, <2>5, <2>6 DEF Next
<1> QED
  BY <1>3 DEF Asked

\* Every step keeps cancels asked for.
LEMMA AskedStep ==
  IInv /\ CancelsAreAsked /\ [Next]_vars => CancelsAreAsked'
<1> SUFFICES ASSUME IInv, CancelsAreAsked, [Next]_vars PROVE CancelsAreAsked'
  OBVIOUS
<1> USE ConstantAssumption DEF IInv, TypeOK, redis, procs, locals, history, Goto,
     PCs, Waiting, Running, Finished
<1>a. \A i \in Instances : Asked(i) => Asked(i)'
  BY AskedStays
<1>b. \A t \in Turns : pc[t] # "idle" => owner[t].inst \in Instances
  BY DEF Started
<1>c. ASSUME \A t \in Turns :
               /\ pc'[t] \in {"readOwner", "publish", "wait", "reacquire"} =>
                    edit'[t] /\ (pc[t] # pc'[t] \/ edit'[t] = edit[t])
               /\ pc'[t] \in {"idle", "acquire", "readOwner"} => prevOwner'[t] = NoOwner
               /\ pc[t] # "idle" => pc'[t] # "idle" /\ owner'[t] = owner[t],
             cancelled' = cancelled,
             \A i \in Instances : inbox'[i] # {} => inbox[i] # {} \/ Asked(i),
             \A i \in Instances : listener'[i].stage # "idle" =>
                                    listener[i].stage # "idle" \/ inbox[i] # {}
      PROVE  CancelsAreAsked'
  BY <1>a, <1>b, <1>c DEF CancelsAreAsked
<1>1. CASE Tick
  BY <1>1, <1>c DEF Tick, CancelsAreAsked
<1>2. ASSUME NEW t \in Turns, NEW i \in Instances, Start(t, i) PROVE CancelsAreAsked'
  BY <1>2, <1>c DEF Start, CancelsAreAsked
<1>3. ASSUME NEW t \in Turns, Acquire(t) PROVE CancelsAreAsked'
  BY <1>3, <1>c DEF Acquire, CancelsAreAsked
<1>4. ASSUME NEW t \in Turns, AcquireFails(t) PROVE CancelsAreAsked'
  BY <1>4, <1>c DEF AcquireFails, CancelsAreAsked
<1>5. ASSUME NEW t \in Turns, ReadOwner(t) PROVE CancelsAreAsked'
  BY <1>5, <1>c DEF ReadOwner, CancelsAreAsked
<1>6. ASSUME NEW t \in Turns, Publish(t) PROVE CancelsAreAsked'
  <2>1. \A i \in Instances : inbox'[i] # {} => inbox[i] # {} \/ Asked(i)
    BY <1>6 DEF Publish, CancelsAreAsked, Asked
  <2> QED
    BY <1>6, <2>1, <1>c DEF Publish, CancelsAreAsked
<1>7. ASSUME NEW t \in Turns, WaitReleased(t) \/ Reacquire(t) PROVE CancelsAreAsked'
  BY <1>7, <1>c DEF WaitReleased, Reacquire, CancelsAreAsked
<1>8. ASSUME NEW t \in Turns, StoreHandle(t) \/ Setup(t) \/ AgentReturns(t) PROVE CancelsAreAsked'
  BY <1>8, <1>c DEF StoreHandle, Setup, AgentReturns, CancelsAreAsked
<1>9. ASSUME NEW t \in Turns, Heartbeat(t) \/ DeleteHandle(t) \/ ReleaseLock(t)
      PROVE  CancelsAreAsked'
  BY <1>9, <1>c DEF Heartbeat, DeleteHandle, ReleaseLock, CancelsAreAsked
<1>10. ASSUME NEW i \in Instances, ReceiveCancel(i) PROVE CancelsAreAsked'
  BY <1>10, <1>c DEF ReceiveCancel, CancelsAreAsked
<1>11. ASSUME NEW i \in Instances, CancelReleases(i) PROVE CancelsAreAsked'
  BY <1>11, <1>c DEF CancelReleases, CancelsAreAsked
<1>12. ASSUME NEW i \in Instances, CancelAgent(i) PROVE CancelsAreAsked'
  <2>1. /\ listener[i].turn \in Turns /\ owner[listener[i].turn].inst = i
        /\ pc[listener[i].turn] # "idle" /\ Asked(i)'
    BY <1>12, <1>a DEF CancelAgent, ListenerIsLocal, On, CancelsAreAsked
  <2>2. \A t \in Turns : cancelled'[t] => cancelled[t] \/ t = listener[i].turn
    BY <1>12 DEF CancelAgent
  <2>3. /\ pc' = pc /\ owner' = owner /\ edit' = edit /\ prevOwner' = prevOwner /\ inbox' = inbox
        /\ \A k \in Instances : listener'[k].stage # "idle" => listener[k].stage # "idle"
    BY <1>12 DEF CancelAgent, Idle
  <2> QED
    BY <1>a, <1>b, <2>1, <2>2, <2>3 DEF CancelsAreAsked
<1>13. ASSUME NEW i \in Instances, Boot(i) \/ BootstrapReturns(i) PROVE CancelsAreAsked'
  BY <1>13, <1>c DEF Boot, BootstrapReturns, CancelsAreAsked
<1>14. ASSUME NEW i \in Instances, Crash(i) PROVE CancelsAreAsked'
  BY <1>14, <1>c DEF Crash, Idle, CancelsAreAsked
<1>15. CASE UNCHANGED vars
  BY <1>15, <1>c DEF vars, CancelsAreAsked
<1> QED
  BY <1>1, <1>2, <1>3, <1>4, <1>5, <1>6, <1>7, <1>8, <1>9, <1>10, <1>11,
     <1>12, <1>13, <1>14, <1>15 DEF Next, TurnStep, ListenerStep

\* A step that moves no turn into the map's care, loses no lease again and leaves the
\* map alone keeps the map's gaps explained.
LEMMA MapFrame ==
  ASSUME IInv, UnregisteredNeedsLoss, localTurns' = localTurns,
         \A u \in Turns :
           /\ lost[u] # "no" => lost'[u] # "no" /\ owner'[u] = owner[u]
           /\ pc'[u] \in {"setup", "running"} =>
                pc[u] \in {"setup", "running"} /\ owner'[u] = owner[u]
  PROVE  UnregisteredNeedsLoss'
  BY DEF UnregisteredNeedsLoss

\* Where the map changes under a turn at work, two turns of the process are at work,
\* and one of them has lost the lease.
LEMMA MapStep ==
  IInv /\ UnregisteredNeedsLoss /\ [Next]_vars => UnregisteredNeedsLoss'
<1> SUFFICES ASSUME IInv, UnregisteredNeedsLoss, [Next]_vars PROVE UnregisteredNeedsLoss'
  OBVIOUS
<1> USE ConstantAssumption DEF IInv, TypeOK, redis, procs, locals, history, Goto,
     PCs, Waiting, Running, Finished
<1>a. ASSUME NEW s \in Turns, Holding(s), owner' = owner, lost' = lost,
             \A u \in Turns : pc'[u] \in {"setup", "running"} => u = s \/ pc[u] = pc'[u],
             \A i \in Instances : i # owner[s].inst => localTurns'[i] = localTurns[i],
             pc'[s] \in {"setup", "running"} => localTurns'[owner[s].inst] = s
      PROVE  UnregisteredNeedsLoss'
  <2> SUFFICES ASSUME NEW t \in Turns, pc'[t] \in {"setup", "running"},
                      localTurns'[owner[t].inst] # t, lost[t] = "no"
               PROVE  \E u \in Turns \ {t} : lost[u] # "no" /\ owner[u].inst = owner[t].inst
    BY <1>a DEF UnregisteredNeedsLoss
  <2>1. t # s /\ pc[t] \in {"setup", "running"}
    BY <1>a
  <2>2. CASE owner[t].inst = owner[s].inst
    <3>1. lost[s] # "no"
      BY <1>a, <2>1 DEF HolderIsNamed, Holding
    <3> QED
      BY <2>1, <2>2, <3>1
  <2>3. CASE owner[t].inst # owner[s].inst
    <3>1. owner[t].inst \in Instances
      BY <2>1 DEF Started
    <3>2. localTurns[owner[t].inst] # t
      BY <1>a, <2>3, <3>1
    <3> QED
      BY <2>1, <3>2 DEF UnregisteredNeedsLoss
  <2> QED
    BY <2>2, <2>3
<1>1. CASE Tick
  BY <1>1, MapFrame DEF Tick, Remove
<1>2. ASSUME NEW t \in Turns, NEW i \in Instances, Start(t, i) PROVE UnregisteredNeedsLoss'
  BY <1>2, MapFrame DEF Start, LossIsLate
<1>3. ASSUME NEW t \in Turns, Acquire(t) \/ AcquireFails(t) \/ ReadOwner(t) \/ Publish(t)
      PROVE  UnregisteredNeedsLoss'
  BY <1>3, MapFrame DEF Acquire, AcquireFails, ReadOwner, Publish
<1>4. ASSUME NEW t \in Turns, WaitReleased(t) \/ Reacquire(t) \/ Setup(t) \/ Heartbeat(t)
      PROVE  UnregisteredNeedsLoss'
  BY <1>4, MapFrame DEF WaitReleased, Reacquire, Setup, Heartbeat
<1>5. ASSUME NEW t \in Turns, AgentReturns(t) \/ ReleaseLock(t) PROVE UnregisteredNeedsLoss'
  BY <1>5, MapFrame DEF AgentReturns, ReleaseLock
<1>6. ASSUME NEW t \in Turns, StoreHandle(t) PROVE UnregisteredNeedsLoss'
  <2>1. owner[t].inst \in Instances
    BY <1>6 DEF StoreHandle, Started
  <2> QED
    BY <1>6, <2>1, <1>a DEF StoreHandle, Holding
<1>7. ASSUME NEW t \in Turns, DeleteHandle(t) PROVE UnregisteredNeedsLoss'
  BY <1>7, <1>a DEF DeleteHandle, Holding
<1>8. ASSUME NEW i \in Instances, ListenerStep(i) PROVE UnregisteredNeedsLoss'
  BY <1>8, MapFrame DEF ListenerStep, ReceiveCancel, CancelReleases, CancelAgent, Remove
<1>9. ASSUME NEW i \in Instances, Boot(i) \/ BootstrapReturns(i) PROVE UnregisteredNeedsLoss'
  BY <1>9, MapFrame DEF Boot, BootstrapReturns
<1>10. ASSUME NEW i \in Instances, Crash(i) PROVE UnregisteredNeedsLoss'
  BY <1>10 DEF Crash, On, UnregisteredNeedsLoss, Started
<1>11. CASE UNCHANGED vars
  BY <1>11, MapFrame DEF vars
<1> QED
  BY <1>1, <1>2, <1>3, <1>4, <1>5, <1>6, <1>7, <1>8, <1>9, <1>10, <1>11
  DEF Next, TurnStep

\* What a cancel finds is at work, what is at work is found unless a lease was lost, what
\* it displaces stops, and an edit asked for it (handleRemoteCancel, releaseHandle).
THEOREM CancelIsSafe == Spec => []CancelSafety
<1> DEFINE J == CancelsAreAsked /\ UnregisteredNeedsLoss
<1>1. Init => J
  BY ConstantAssumption DEF Init, CancelsAreAsked, UnregisteredNeedsLoss, Asked, NoOwner, Idle
<1>2. IInv /\ J /\ [Next]_vars => J'
  BY AskedStep, MapStep
<1>3. IInv /\ J => CancelSafety
  <2> SUFFICES ASSUME IInv, J PROVE CancelNeedsEdit
    BY DEF CancelSafety, IInv
  <2> QED
    BY DEF CancelsAreAsked, Asked, CancelNeedsEdit
<1> QED
  BY <1>1, <1>2, <1>3, Inductive, PTL DEF Spec

\* The lease is left behind by no one, shared by no two, and taken by no stranger
\* (SessionLock, acquireTurn, releaseHandle).
THEOREM LeaseIsSafe == Spec => []LeaseSafety
<1>1. IInv => LeaseSafety
  BY DEF IInv, LeaseSafety, HolderIsNamed, OverlapNeedsLoss
<1> QED
  BY <1>1, Inductive, PTL
-----------------------------------------------------------------------------
\* Each step of Turn is a step of the abstract lease or leaves it unchanged.
LEMMA LeaseStep ==
  IInv /\ [Next]_vars => [Lease!Next]_(Lease!leaseVars)
<1> SUFFICES ASSUME IInv, [Next]_vars PROVE [Lease!Next]_(Lease!leaseVars)
  OBVIOUS
<1> DEFINE Goal == [Lease!Next]_(Lease!leaseVars)
           W == {t \in Turns : Holding(t)}
           D == {t \in Turns : lost[t] # "no"}
<1> USE ConstantAssumption DEF IInv, TypeOK, redis, procs, locals, history, Goto,
     PCs, Waiting, Running, Finished, Holding
<1>a. ASSUME W' = W, D' = D, holder' = holder PROVE Goal
  BY <1>a DEF Lease!leaseVars
<1>b. ASSUME NEW t \in Turns, pc[t] \in Waiting, Grant(t), pc' = [pc EXCEPT ![t] = "store"],
             UNCHANGED lost
      PROVE  Goal
  <2>1. t \notin W \cup D
    BY <1>b DEF LossIsLate
  <2>2. W' = W \cup {t}
    BY <1>b
  <2>3. D' = D
    BY <1>b
  <2>4. Lease!Begin(t)
    BY <1>b, <2>1, <2>2, <2>3 DEF Lease!Begin, Grant
  <2> QED
    BY <2>4 DEF Lease!Next
<1>c. ASSUME NEW cause \in {"expired", "cancelled", "stolen"}, holder # None,
             Remove(cause), UNCHANGED pc
      PROVE  Goal
  <2>1. W' = W
    BY <1>c
  <2>2. D' = D \cup ({holder} \cap W)
    BY <1>c DEF Remove
  <2>3. Lease!Lapse
    BY <1>c, <2>1, <2>2 DEF Lease!Lapse, Remove
  <2> QED
    BY <2>3 DEF Lease!Next
<1>1. CASE Tick
  <2>1. CASE UNCHANGED <<holder, lost, pc>>
    BY <2>1, <1>a
  <2>2. CASE Remove("expired") /\ holder # None /\ UNCHANGED pc
    BY <2>2, <1>c
  <2> QED
    BY <1>1, <2>1, <2>2 DEF Tick
<1>2. ASSUME NEW t \in Turns, NEW i \in Instances, Start(t, i) PROVE Goal
  <2>1. W' = W /\ D' = D /\ holder' = holder
    BY <1>2 DEF Start
  <2> QED
    BY <2>1, <1>a
<1>3. ASSUME NEW t \in Turns, Acquire(t) \/ Reacquire(t) PROVE Goal
  <2>1. CASE Grant(t) /\ pc' = [pc EXCEPT ![t] = "store"]
    BY <1>3, <2>1, <1>b DEF Acquire, Reacquire
  <2>2. CASE holder # None
    <3>1. W' = W /\ D' = D /\ holder' = holder
      BY <1>3, <2>2 DEF Acquire, Reacquire, Grant
    <3> QED
      BY <3>1, <1>a
  <2> QED
    BY <1>3, <2>1, <2>2 DEF Acquire, Reacquire
<1>4. ASSUME NEW t \in Turns, AcquireFails(t) PROVE Goal
  <2>1. W' = W /\ D' = D
    BY <1>4 DEF AcquireFails
  <2>2. CASE Grant(t)
    <3>1. Lease!Strand(t)
      BY <1>4, <2>1, <2>2 DEF Lease!Strand, Grant, AcquireFails
    <3> QED
      BY <3>1 DEF Lease!Next
  <2>3. CASE UNCHANGED redis
    BY <2>1, <2>3, <1>a
  <2> QED
    BY <1>4, <2>2, <2>3 DEF AcquireFails
<1>5. ASSUME NEW t \in Turns,
              ReadOwner(t) \/ Publish(t) \/ WaitReleased(t) \/ StoreHandle(t)
                \/ Setup(t) \/ Heartbeat(t) \/ AgentReturns(t) \/ DeleteHandle(t)
      PROVE  Goal
  <2>1. W' = W /\ D' = D /\ holder' = holder
    BY <1>5 DEF ReadOwner, Publish, WaitReleased, StoreHandle, Setup, Heartbeat,
                AgentReturns, DeleteHandle
  <2> QED
    BY <2>1, <1>a
<1>6. ASSUME NEW t \in Turns, ReleaseLock(t) PROVE Goal
  <2>1. W' = W \ {t} /\ t \in W
    BY <1>6 DEF ReleaseLock
  <2>2. CASE UNCHANGED <<redis, lost>>
    <3>1. Lease!Finish({t})
      BY <2>1, <2>2 DEF Lease!Finish
    <3> QED
      BY <2>1, <3>1 DEF Lease!Next
  <2>3. CASE holder # None /\ holder' = None
               /\ lost' = IF holder # t /\ Holding(holder)
                          THEN [lost EXCEPT ![holder] = "stolen"] ELSE lost
    <3>1. D' = D \cup ({holder} \cap W')
      BY <2>1, <2>3
    <3>2. Lease!Finish({t})
      BY <2>1, <2>3, <3>1 DEF Lease!Finish
    <3> QED
      BY <2>1, <3>2 DEF Lease!Next
  <2> QED
    BY <1>6, <2>2, <2>3 DEF ReleaseLock, KeyIsOwnedBy
<1>7. ASSUME NEW i \in Instances, CancelReleases(i) PROVE Goal
  <2>1. CASE holder # None /\ \E c \in {"cancelled", "stolen"} : Remove(c)
    BY <1>7, <2>1, <1>c DEF CancelReleases
  <2>2. CASE UNCHANGED <<redis, lost>>
    <3>1. W' = W /\ D' = D /\ holder' = holder
      BY <1>7, <2>2 DEF CancelReleases
    <3> QED
      BY <3>1, <1>a
  <2> QED
    BY <1>7, <2>1, <2>2 DEF CancelReleases, KeyIsOwnedBy
<1>8. ASSUME NEW i \in Instances,
              ReceiveCancel(i) \/ CancelAgent(i) \/ Boot(i) \/ BootstrapReturns(i)
      PROVE  Goal
  <2>1. W' = W /\ D' = D /\ holder' = holder
    BY <1>8 DEF ReceiveCancel, CancelAgent, Boot, BootstrapReturns
  <2> QED
    BY <2>1, <1>a
<1>9. ASSUME NEW i \in Instances, Crash(i) PROVE Goal
  <2> DEFINE S == {t \in W : On(t, i)}
  <2>1. W' = W \ S
    BY <1>9 DEF Crash
  <2>2. D' = D /\ holder' = holder
    BY <1>9 DEF Crash
  <2>3. CASE S = {}
    BY <2>1, <2>2, <2>3, <1>a
  <2>4. CASE S # {}
    <3>1. Lease!Finish(S)
      BY <2>1, <2>2, <2>4 DEF Lease!Finish
    <3>2. S \in SUBSET W
      OBVIOUS
    <3>3. \E X \in SUBSET W : Lease!Finish(X)
      <4> HIDE DEF S
      <4> QED
        BY <3>1, <3>2 DEF Lease!Finish
    <3> QED
      BY <3>3 DEF Lease!Next
  <2> QED
    BY <2>3, <2>4
<1>10. CASE UNCHANGED vars
  <2>1. W' = W /\ D' = D /\ holder' = holder
    BY <1>10 DEF vars
  <2> QED
    BY <2>1, <1>a
<1> QED
  BY <1>1, <1>2, <1>3, <1>4, <1>5, <1>6, <1>7, <1>8, <1>9, <1>10
  DEF Next, TurnStep, ListenerStep

\* The code implements the abstract lease of TurnLease.
THEOREM Refinement == Spec => LeaseRefined
<1>1. Init => Lease!Init
  BY DEF Init, Lease!Init, Holding, Running
<1> QED
  BY <1>1, LeaseStep, Inductive, PTL DEF Spec, Lease!Spec, LeaseRefined

\* The abstract lease is exclusive: an undisplaced working turn holds it.
LEMMA LeaseExclusive == Lease!Spec => []Lease!Exclusive
<1>1. Lease!Init => Lease!Exclusive
  BY DEF Lease!Init, Lease!Exclusive
<1>2. Lease!Exclusive /\ [Lease!Next]_(Lease!leaseVars) => Lease!Exclusive'
  BY ConstantAssumption
  DEF Lease!Exclusive, Lease!Next, Lease!leaseVars,
      Lease!Begin, Lease!Strand, Lease!Finish, Lease!Lapse
<1> QED
  BY <1>1, <1>2, PTL DEF Lease!Spec

\* A turn that is at work and lost nothing holds the lease, so the code has the
\* exclusion that every implementation of the abstract lease has.
THEOREM Exclusion == Spec => []Lease!Exclusive
  BY Refinement, LeaseExclusive, PTL DEF LeaseRefined
=============================================================================
