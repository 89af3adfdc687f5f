----------------------------- MODULE MCAccounts -----------------------------
(* Access and API tokens live for a unit of time, refresh tokens for two.  *)
EXTENDS Accounts, TLC

MCLife == [k \in {"access", "refresh", "api"} |-> IF k = "refresh" THEN 2 ELSE 1]
(* What nothing reads any more: the set when its time is over, the times   *)
(* at which an expired token was issued and an API token was used, and the *)
(* credential of a request that has no more use for it.                    *)
Kept(r) == CASE jobs[r] = None -> None
            [] At(r, "more") -> <<"more", jobs[r].body>>
            [] At(r, "issue") -> "issue"
            [] Works(r, "login") \/ Works(r, "create") \/ Works(r, "use") -> jobs[r].op
            [] Works(r, "revoke") -> <<"revoke", jobs[r].body>>
            [] OTHER -> jobs[r]
View == <<now, redis, [r \in Requests |-> Kept(r)], retired, outages,
          [n \in Logins |-> IF n \in Issued /\ exp(<<n, "refresh">>) > now THEN issued[n] ELSE n \in Issued],
          [t \in ApiIds |-> IF t \in Created THEN <<IF apis[t].exp > now THEN apis[t].exp ELSE 0, apis[t].revoked>> ELSE None],
          IF keptTill > now THEN <<{t \in revoked : decode_token(t)}, revoked # {}, keptTill>> ELSE <<>> >>
Symmetry == Permutations(Requests) \cup Permutations(Logins)
=============================================================================
