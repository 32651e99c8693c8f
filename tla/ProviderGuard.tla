--------------------------- MODULE ProviderGuard ---------------------------
(***************************************************************************)
(* The two guards every provider transport carries, each under its own     *)
(* lock: CircuitBreaker and RateLimiter.  Both are values here, and their  *)
(* methods operators on values; a transport's steps apply them.            *)
(*                                                                         *)
(* The code keeps instants and compares their distance with a window; the  *)
(* model keeps that distance, which stops growing at the window (Aged):    *)
(* nothing tells two distances beyond it apart.                            *)
(***************************************************************************)
EXTENDS Integers, Sequences

CONSTANTS
    Threshold,   \* failure_threshold
    Recovery,    \* recovery_timeout, in ticks
    PerMinute, PerHour,   \* calls a window admits
    Minute, Hour          \* the two windows, in ticks

\* CircuitBreaker.__init__ and RateLimiter.__init__ refuse anything else.
ASSUME BreakerAssumption == Threshold \in Nat \ {0} /\ Recovery \in Nat \ {0}
ASSUME LimiterAssumption ==
    /\ PerMinute \in Nat \ {0} /\ PerHour \in Nat /\ PerHour >= PerMinute
    /\ Minute \in Nat \ {0} /\ Hour \in Nat /\ Hour >= Minute

---------------------------------------------------------------------------
\* CircuitBreaker

Never == -1

\* The count is only compared with the threshold: it stops there.
Breakers == [state : {"closed", "open", "half_open"}, failures : 0..Threshold,
             sinceFailure : {Never} \cup 0..Recovery, sinceProbe : {Never} \cup 0..Recovery]

Closed == [state |-> "closed", failures |-> 0, sinceFailure |-> Never, sinceProbe |-> Never]

RecordSuccess(b) == Closed

\* Mutant: the instant of the first failure is kept
RecordFailureOnce(b) ==
    LET n == IF b.failures < Threshold THEN b.failures + 1 ELSE Threshold
    IN  [b EXCEPT !.failures = n, !.sinceProbe = Never,
                  !.sinceFailure = IF @ = Never THEN 0 ELSE @,
                  !.state = IF n >= Threshold THEN "open" ELSE @]

RecordFailure(b) ==
    LET n == IF b.failures < Threshold THEN b.failures + 1 ELSE Threshold
    IN  [state |-> IF n >= Threshold THEN "open" ELSE b.state,
         failures |-> n, sinceFailure |-> 0, sinceProbe |-> Never]

\* Mutant: a probe nobody reports keeps everybody else out
CanExecuteUnlessProbing(b) ==
    \/ b.state = "closed"
    \/ b.state = "open" /\ b.sinceFailure # Never /\ b.sinceFailure >= Recovery
    \/ b.state = "half_open" /\ b.sinceProbe = Never

\* can_execute: whether the caller may go on ...
CanExecute(b) ==
    \/ b.state = "closed"
    \/ b.state = "open" /\ b.sinceFailure # Never /\ b.sinceFailure >= Recovery
    \/ b.state = "half_open" /\ (b.sinceProbe = Never \/ b.sinceProbe >= Recovery)

\* ... and what asking leaves behind: out of a closed circuit, a probe
Executed(b) ==
    IF b.state = "closed" \/ ~CanExecute(b) THEN b
    ELSE [b EXCEPT !.state = "half_open", !.sinceProbe = 0]

---------------------------------------------------------------------------
\* RateLimiter: the ages of the calls in each window, oldest first.  A call
\* leaves a window when its age reaches it (_prune, on every use).

Unused == [minute |-> <<>>, hour |-> <<>>]

Pruned(l) == [minute |-> SelectSeq(l.minute, LAMBDA age : age < Minute),
              hour   |-> SelectSeq(l.hour, LAMBDA age : age < Hour)]

Allow(l) == Len(l.minute) < PerMinute /\ Len(l.hour) < PerHour

Recorded(l) == [minute |-> Append(l.minute, 0), hour |-> Append(l.hour, 0)]

---------------------------------------------------------------------------
\* One tick later

OneTickOn(age) == IF age = Never \/ age >= Recovery THEN age ELSE age + 1

\* (the failure's age is read in an open circuit only, and starts anew with it)
AgedBreaker(b) == [b EXCEPT !.sinceFailure = IF b.state = "open" THEN OneTickOn(@) ELSE @,
                            !.sinceProbe = OneTickOn(@)]

AgedLimiter(l) ==
    Pruned([minute |-> [i \in DOMAIN l.minute |-> l.minute[i] + 1],
            hour   |-> [i \in DOMAIN l.hour |-> l.hour[i] + 1]])
=============================================================================
