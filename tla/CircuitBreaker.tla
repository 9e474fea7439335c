--------------------------- MODULE CircuitBreaker ---------------------------
(***************************************************************************)
(* createCircuitBreaker of os-flow between several callers, each of whom   *)
(* asks for admission, makes its call and records the result.  Calls take  *)
(* as long as they like: results come back in any state of the breaker,    *)
(* also of calls that were admitted before it opened.                      *)
(***************************************************************************)
EXTENDS Naturals

CONSTANTS
  Callers,
  failureThreshold, resetAfter, halfOpenTarget,  \* the options
  MaxTime                                        \* bound: the clock

ASSUME BreakerAssumption ==
  {failureThreshold, resetAfter, halfOpenTarget, MaxTime} \subseteq Nat \ {0}

VARIABLES
  circuit,              \* "closed", "open", "half-open"
  consecutiveFailures,
  halfOpenSuccesses,
  openedAt,             \* read only while the circuit is not closed
  clock,
  calling,              \* the callers whose call is under way
  openings              \* history: when the circuit opened last, and whether it ever did

breakerVars == <<circuit, consecutiveFailures, halfOpenSuccesses, openedAt, clock, calling,
                 openings>>

BreakerInit ==
  /\ circuit = "closed"
  /\ consecutiveFailures = 0
  /\ halfOpenSuccesses = 0
  /\ openedAt = 0
  /\ clock = 0
  /\ calling = {}
  /\ openings = [at |-> 0, ever |-> FALSE]

Opens ==
  /\ circuit' = "open"
  /\ openedAt' = clock
  /\ openings' = [at |-> clock, ever |-> TRUE]

StaysAsItIs == UNCHANGED <<circuit, openedAt, openings>>

-----------------------------------------------------------------------------
\* tryAcquire, with a call admitted: half-open admits everybody
Admit(c) ==
  /\ c \notin calling
  /\ IF circuit = "open"
     THEN /\ clock - openedAt >= resetAfter
          /\ circuit' = "half-open"
          /\ halfOpenSuccesses' = 0
     ELSE UNCHANGED <<circuit, halfOpenSuccesses>>
  /\ calling' = calling \cup {c}
  /\ UNCHANGED <<consecutiveFailures, openedAt, clock, openings>>

recordSuccess(c) ==
  /\ c \in calling
  /\ calling' = calling \ {c}
  /\ IF circuit # "half-open"
     THEN consecutiveFailures' = 0 /\ StaysAsItIs /\ UNCHANGED halfOpenSuccesses
     ELSE IF halfOpenSuccesses + 1 < halfOpenTarget
     THEN /\ halfOpenSuccesses' = halfOpenSuccesses + 1
          /\ StaysAsItIs
          /\ UNCHANGED consecutiveFailures
     ELSE /\ circuit' = "closed"
          /\ consecutiveFailures' = 0
          /\ halfOpenSuccesses' = 0
          /\ UNCHANGED <<openedAt, openings>>
  /\ UNCHANGED clock

\* Mutant of FailsHalfOpen: the cooldown is not started again.
FailsHalfOpenStale ==
  /\ circuit' = "open"
  /\ openings' = [at |-> clock, ever |-> TRUE]
  /\ halfOpenSuccesses' = 0
  /\ UNCHANGED <<consecutiveFailures, openedAt>>

FailsHalfOpen == Opens /\ halfOpenSuccesses' = 0 /\ UNCHANGED consecutiveFailures

recordFailure(c) ==
  /\ c \in calling
  /\ calling' = calling \ {c}
  /\ IF circuit = "half-open" THEN FailsHalfOpen
     ELSE /\ consecutiveFailures' = consecutiveFailures + 1
          /\ IF circuit = "closed" /\ consecutiveFailures' >= failureThreshold
             THEN Opens ELSE StaysAsItIs
          /\ UNCHANGED halfOpenSuccesses
  /\ UNCHANGED clock

Tick ==
  /\ clock < MaxTime
  /\ clock' = clock + 1
  /\ UNCHANGED <<circuit, consecutiveFailures, halfOpenSuccesses, openedAt, calling, openings>>

BreakerNext ==
  \/ \E c \in Callers : Admit(c) \/ recordSuccess(c) \/ recordFailure(c)
  \/ Tick

BreakerSpec == BreakerInit /\ [][BreakerNext]_breakerVars

-----------------------------------------------------------------------------
BreakerTypeOK ==
  /\ circuit \in {"closed", "open", "half-open"}
  /\ consecutiveFailures \in Nat
  /\ halfOpenSuccesses \in 0 .. halfOpenTarget
  /\ openedAt \in 0 .. clock
  /\ clock \in 0 .. MaxTime
  /\ calling \subseteq Callers
  /\ openings.at \in 0 .. clock

\* Once the circuit has opened, nobody is admitted until the cooldown is over, counted
\* from the last opening, whatever late results arrive in the meantime.
CoolsDown ==
  [][calling \subseteq calling' /\ calling # calling' /\ openings.ever
       => clock - openings.at >= resetAfter]_breakerVars
=============================================================================
