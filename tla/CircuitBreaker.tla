---------------------------- MODULE CircuitBreaker ----------------------------
(***************************************************************************)
(* The two circuit breakers of the backend, as functions of their state.   *)
(*                                                                         *)
(*   - features/whatsapp/infrastructure/circuit-breaker.service.ts keeps   *)
(*     one circuit per key (Trip, Good, Bad);                              *)
(*   - features/instagram/infrastructure/circuit-breaker.service.ts keeps  *)
(*     one circuit for every call (the operators that start with Ig).      *)
(*                                                                         *)
(* A circuit lives in the memory of a process.  Time is abstract: "recent" *)
(* says that the waiting time has not passed since the last failure, and   *)
(* whoever uses a circuit lets the time pass by clearing it.  Counters     *)
(* stop at Ceiling, which is above every threshold they are compared with. *)
(***************************************************************************)
EXTENDS Naturals

CONSTANTS
  FailureThreshold,  \* failures in a row that open a circuit
  SuccessThreshold,  \* successes that close a half-open circuit
  ResetAfter         \* successes after which a closed circuit forgets them

CircuitStates == {"CLOSED", "OPEN", "HALF_OPEN"}

Ceiling == FailureThreshold + SuccessThreshold + ResetAfter

Bump(n) == IF n < Ceiling THEN n + 1 ELSE n

Circuit ==
  [state : CircuitStates, failures : 0..Ceiling, successes : 0..Ceiling, recent : BOOLEAN]

\* A circuit nobody has used yet, and one that reset() has just replaced.
Fresh == [state |-> "CLOSED", failures |-> 0, successes |-> 0, recent |-> FALSE]

-----------------------------------------------------------------------------
(* The circuit of WhatsApp calls.                                          *)

\* execute refuses the call: the circuit is open and has failed recently.
Refuses(c) == c.state = "OPEN" /\ c.recent

\* execute lets the call through; an open circuit becomes half-open.
Entered(c) == IF c.state = "OPEN" THEN [c EXCEPT !.state = "HALF_OPEN"] ELSE c

\* Mutation: only a half-open circuit forgets its failures on a success.
GoodKeepsFailures(c) ==
  LET n == Bump(c.successes)
      closes == c.state = "HALF_OPEN" /\ n >= SuccessThreshold
  IN  [c EXCEPT !.successes = n,
                !.failures = IF closes THEN 0 ELSE @,
                !.state = IF closes THEN "CLOSED" ELSE @]

\* onSuccess: any success, whatever the state in which its call began, counts
\* and clears the failures; enough of them close a half-open circuit.
Good(c) ==
  LET n == Bump(c.successes)
      closed == c.state = "CLOSED" \/ (c.state = "HALF_OPEN" /\ n >= SuccessThreshold)
  IN  [state     |-> IF closed THEN "CLOSED" ELSE c.state,
       failures  |-> 0,
       successes |-> IF closed /\ n > ResetAfter THEN 0 ELSE n,
       recent    |-> c.recent /\ ~(closed /\ n > ResetAfter)]

\* onFailure: enough failures in a row open the circuit.  A failure while
\* half-open does not, unless the failures have not been cleared meanwhile.
Bad(c) ==
  LET n == Bump(c.failures)
  IN  [state     |-> IF n >= FailureThreshold THEN "OPEN" ELSE c.state,
       failures  |-> n,
       successes |-> 0,
       recent    |-> TRUE]

-----------------------------------------------------------------------------
(* The circuit of Instagram calls.                                         *)

IgRefuses(c) == c.state = "OPEN" /\ c.recent

IgEntered(c) == IF c.state = "OPEN" THEN [c EXCEPT !.state = "HALF_OPEN"] ELSE c

\* onSuccess: successes count only while the circuit is half-open.
IgGood(c) ==
  LET n == Bump(c.successes)
      closes == c.state = "HALF_OPEN" /\ n >= SuccessThreshold
  IN  [c EXCEPT !.failures = 0,
                !.state = IF closes THEN "CLOSED" ELSE @,
                !.successes = IF c.state # "HALF_OPEN" THEN @ ELSE IF closes THEN 0 ELSE n]

\* Mutation: a failed trial does not open the circuit again.
IgBadTolerant(c) ==
  LET n == Bump(c.failures)
      opens == n >= FailureThreshold
  IN  [state     |-> IF opens THEN "OPEN" ELSE c.state,
       failures  |-> n,
       successes |-> 0,
       recent    |-> opens \/ c.recent]

\* onFailure: enough failures in a row, or a single one while half-open, open
\* the circuit and start the waiting time.
IgBad(c) ==
  LET n == Bump(c.failures)
      opens == n >= FailureThreshold \/ c.state = "HALF_OPEN"
  IN  [state     |-> IF opens THEN "OPEN" ELSE c.state,
       failures  |-> n,
       successes |-> 0,
       recent    |-> opens \/ c.recent]
=============================================================================
