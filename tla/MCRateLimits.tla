---------------------------- MODULE MCRateLimits ----------------------------
(* One limit for the auth endpoints, two in a cascade for agent runs (the  *)
(* third is checked like the second), one for tool calls.                  *)
EXTENDS RateLimits, TLC

MCCascade == [a \in {"auth", "run", "tool"} |->
               CASE a = "auth" -> <<"auth">> [] a = "run" -> <<"minute", "day">> [] a = "tool" -> <<"tool">>]
MCCapacity == [l \in {"auth", "minute", "day", "tool"} |-> IF l = "auth" THEN 2 ELSE 1]
MCWindow == [l \in {"auth", "minute", "day", "tool"} |-> IF l \in {"minute", "tool"} THEN 1 ELSE 2]
(* Entries out of their window have no effect, and of the others only how  *)
(* many of each tick there are in each set: while RejectionsDoNotCount     *)
(* holds, that says which entries the sets share.  LimitHolds stands for   *)
(* the checks let through unchecked, as it compares them with the others.  *)
Ticks(l, S) == [t \in 1..Window[l] |-> Cardinality({e \in S : e.at = now - t + 1})]
Place(r) == IF jobs[r] = NoJob THEN NoJob
            ELSE <<jobs[r].action, jobs[r].step, jobs[r].pc, IF At(r, "undo") THEN jobs[r].entry.at ELSE 0>>
View == <<now, redis, tokens, faults, RejectionsDoNotCount, LimitHolds, [r \in Requests |-> Place(r)],
          [l \in Limits |-> <<Ticks(l, entries[l]), Ticks(l, history[l]), Ticks(l, admitted[l]),
                              Ticks(l, stuck[l])>>]>>
Symmetry == Permutations(Requests)
=============================================================================
