------------------------------ MODULE Deadline ------------------------------
(***************************************************************************)
(* timeout_to_ms() of fizzpy/_common.py: the conversion of a timeout in    *)
(* seconds (a float, or None) into the millisecond count the core takes,   *)
(* where 0 means that there is no deadline.  A finite timeout is counted   *)
(* in halves of a millisecond, so that some fall between two counts.       *)
(***************************************************************************)
EXTENDS Integers

CONSTANTS
  NoTimeout,    \* None
  Infinite,     \* float("inf")
  NotANumber,   \* float("nan")
  MaxMs         \* _MAX_TIMEOUT_MS

ASSUME DeadlineConstants ==
  /\ MaxMs \in Nat \ {0}
  /\ {NoTimeout, Infinite, NotANumber} \cap Int = {}
  /\ NoTimeout \notin {Infinite, NotANumber}

\* math.ceil() raises for these two (and NaN <= 0 is false).
Convertible(timeout) == timeout \notin {Infinite, NotANumber}

\* Mutant: seconds are truncated to milliseconds.
Truncated(timeout) == IF timeout = NoTimeout THEN 0 ELSE timeout \div 2

TimeoutToMs(timeout) ==
  IF timeout = NoTimeout THEN 0
  ELSE LET ms == (timeout + 1) \div 2 IN     \* math.ceil()
         IF timeout <= 0 \/ ms < 1 THEN 1
         ELSE IF ms > MaxMs THEN MaxMs ELSE ms
=============================================================================
