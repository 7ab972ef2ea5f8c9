------------------------------ MODULE TurnLease ------------------------------
(***************************************************************************)
(* What the session lock promises the turns of one conversation, without   *)
(* Redis, processes or cancels: a lease is granted only when there is      *)
(* none, a turn works only from the moment it was granted one, and the     *)
(* turns that work without holding it are exactly those that lost it.      *)
(***************************************************************************)
CONSTANTS Turns, None

VARIABLES
  lease,      \* the turn the lease was granted to, or None
  working,    \* turns between their grant and their release
  displaced   \* turns that lost the lease while they worked

leaseVars == <<lease, working, displaced>>

Init == lease = None /\ working = {} /\ displaced = {}

Begin(t) ==
  /\ lease = None
  /\ t \notin working \cup displaced
  /\ lease' = t
  /\ working' = working \cup {t}
  /\ UNCHANGED displaced

\* A grant nobody learns of.
Strand(t) ==
  /\ lease = None
  /\ t \notin working
  /\ lease' = t
  /\ UNCHANGED <<working, displaced>>

\* Some turns end; the lease may go with them, whoever has it.
Finish(S) ==
  /\ S # {}
  /\ working' = working \ S
  /\ \/ UNCHANGED <<lease, displaced>>
     \/ /\ lease # None
        /\ lease' = None
        /\ displaced' = displaced \cup ({lease} \cap working')

Lapse ==
  /\ lease # None
  /\ lease' = None
  /\ displaced' = displaced \cup ({lease} \cap working)
  /\ UNCHANGED working

Next ==
  \/ \E t \in Turns : Begin(t) \/ Strand(t)
  \/ \E S \in SUBSET working : Finish(S)
  \/ Lapse

Spec == Init /\ [][Next]_leaseVars

\* A working turn that was not displaced is the one the lease names, so at most
\* one turn works undisturbed.
Exclusive == working \ displaced \subseteq {lease} \ {None}
=============================================================================
