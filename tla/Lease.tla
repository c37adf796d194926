------------------------------- MODULE Lease -------------------------------
(***************************************************************************)
(* What a target-scoped lease promises the runs that contend for it        *)
(* (internal/lock/lock.go): the lease has at most one holder, a holder that *)
(* is still working keeps it until it gives it up or its time runs out, and *)
(* nobody else takes it away before that.  GCSLock implements this module.  *)
(***************************************************************************)
EXTENDS Integers

CONSTANTS Token,      \* one token per acquisition
          NoHolder,   \* the lease is not granted
          Deadline,   \* the times a grant may run to
          MaxTime     \* bound of the clock

VARIABLES holder,     \* the token the lease is granted to
          until,      \* when the current grant runs out
          active,     \* tokens whose owner is doing, or winding up, guarded work
          now

vars == <<holder, until, active, now>>

Init == /\ holder = NoHolder
        /\ until = 0
        /\ active = {}
        /\ now = 0

\* A free or expired lease is granted for some time to come.  The grantee may
\* never learn of it, and then it does no work.
Grant(t) == /\ holder = NoHolder \/ until <= now
            /\ t \notin active
            /\ holder' = t
            /\ until' \in Deadline /\ until' > now
            /\ active' \in {active, active \cup {t}}
            /\ UNCHANGED now

\* The holder gives the lease up.
Free(t) == /\ holder = t
           /\ holder' = NoHolder
           /\ until' = 0
           /\ active' = active \ {t}
           /\ UNCHANGED now

\* A worker stops, or dies, and leaves its grant to run out.
Quit(t) == /\ t \in active
           /\ active' = active \ {t}
           /\ UNCHANGED <<holder, until, now>>

\* No owner is active beyond its grant.
Tick == /\ now < MaxTime
        /\ active # {} => now + 1 < until
        /\ now' = now + 1
        /\ UNCHANGED <<holder, until, active>>

Next == Tick \/ \E t \in Token : Grant(t) \/ Free(t) \/ Quit(t)

TypeOK == /\ holder \in Token \cup {NoHolder}
          /\ until \in Int
          /\ active \subseteq Token
          /\ now \in Nat

Spec == Init /\ [][Next]_vars

-----------------------------------------------------------------------------
\* A token that is active has an unexpired grant.
ActiveUnexpired == active # {} => now < until

\* Only the holder is ever active: the guarded work of two runs never overlaps.
Exclusive == active \subseteq {holder}
=============================================================================
