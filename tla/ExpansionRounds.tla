--------------------------- MODULE ExpansionRounds ---------------------------
(***************************************************************************)
(* MessageExpansion in a time that does not end.  The clock is looked at   *)
(* only by comparison with time stamps, so nothing depends on where it     *)
(* starts to count: when it comes to MaxTime, the origin of time moves on  *)
(* by one tick, and the clock and all time stamps with it.  Locks expire   *)
(* again and again, also that of a message nobody can expand.              *)
(***************************************************************************)
EXTENDS MessageExpansion

ASSUME RoomAssumption == MaxTime > 2 * LockDuration

\* The same moment, counted from one tick later; what is older than the new
\* origin has expired anyway.
Earlier(t) == IF t = 0 THEN 0 ELSE t - 1

\* While nobody is late this changes no comparison: whoever has rows in hand
\* has read them since MaxTime - LockDuration, when all that is now at the
\* origin was over.  (Bound: once somebody is late, time ends at MaxTime.)
Transpose ==
    /\ clock = MaxTime
    /\ ~late
    /\ clock' = Earlier(clock)
    /\ message' = [m \in Messages |-> [message[m] EXCEPT !.lock = Earlier(@)]]
    /\ readAt' = [w \in Workers |-> Earlier(readAt[w])]
    /\ batch' = [w \in Workers |-> {[row EXCEPT !.lock = Earlier(@)] : row \in batch[w]}]
    /\ UNCHANGED <<job, stage, run, pc, aborts, at, late>>

RoundsNext == Next \/ Transpose

\* The scheduled executor keeps every worker's beat going and time passes.
RoundsSpec ==
    /\ Init /\ [][RoundsNext]_vars
    /\ WF_vars(Tick) /\ WF_vars(Transpose)
    /\ \A w \in Workers : WF_vars(ExpansionStep(w)) /\ WF_vars(RestOfBeat(w))

------------------------------------------------------------------------------

\* A message without a template was posted: whenever its lock has expired it is
\* in the batch again and ends the beat.
Poisoned == \E u \in Undefined : message[u].state = "EMITTED"

\* Every posted message with a template is expanded in the end, also when
\* the worker that claimed it dies: its lock expires and another one takes
\* over. (LOCK_TS < CURRENT_TIMESTAMP of PICK_EMMITED_MESSAGES.)  Only two things
\* can keep it from that: a message without a template that comes before it in
\* each batch, for ever, and workers that are slower than their locks.
EveryMessageExpanded ==
    \A m \in Messages \ Undefined :
        message[m].state = "EMITTED" ~>
            message[m].state = "IN_PROCESS" \/ late \/ []Poisoned
==============================================================================
