------------------------------- MODULE Slots -------------------------------
(***************************************************************************)
(* What WithLimitConcurrentJobs promises, whoever does it and how: "the    *)
(* maximum number of jobs that may be running at a given time"             *)
(* (scheduler.go:1273-1322).  Accepted dispatches wait in line; at most    *)
(* Limit are worked on at a time.  In reschedule mode a dispatch that      *)
(* would have to wait for a slot is not accepted at all; in wait mode it   *)
(* always is.  LimitMode is shown to implement this specification.         *)
(***************************************************************************)
EXTENDS Integers, Sequences, FiniteSets

CONSTANTS
  Jobs,     \* job ids
  Workers,  \* whoever works
  Limit,    \* how many may work at a time
  None

VARIABLES
  mode,     \* "reschedule" or "wait": fixed
  open,     \* the executor's context has not been cancelled
  waiting,  \* accepted, in order
  working   \* what each worker has in hands

vars == <<mode, open, waiting, working>>

Busy == {w \in Workers : working[w] # None}

Init ==
  /\ mode \in {"reschedule", "wait"}
  /\ open = TRUE
  /\ waiting = <<>>
  /\ working = [w \in Workers |-> None]

Accept(j) ==
  /\ mode = "reschedule" => Len(waiting) + Cardinality(Busy) < Limit
  /\ waiting' = Append(waiting, j)
  /\ UNCHANGED <<mode, open, working>>

Begin(w) ==
  /\ open /\ waiting # <<>> /\ working[w] = None
  /\ Cardinality(Busy) < Limit
  /\ working' = [working EXCEPT ![w] = Head(waiting)]
  /\ waiting' = Tail(waiting)
  /\ UNCHANGED <<mode, open>>

End(w) ==
  /\ working[w] # None
  /\ working' = [working EXCEPT ![w] = None]
  /\ UNCHANGED <<mode, open, waiting>>

(* What waits when the executor stops may be lost.                         *)
Lose ==
  /\ ~open /\ waiting # <<>>
  /\ waiting' = Tail(waiting)
  /\ UNCHANGED <<mode, open, working>>

Stop == open /\ open' = FALSE /\ UNCHANGED <<mode, waiting, working>>

Restart == ~open /\ open' = TRUE /\ UNCHANGED <<mode, waiting, working>>

Next ==
  \/ \E j \in Jobs : Accept(j)
  \/ \E w \in Workers : Begin(w) \/ End(w)
  \/ Lose \/ Stop \/ Restart

Spec == Init /\ [][Next]_vars

=============================================================================
