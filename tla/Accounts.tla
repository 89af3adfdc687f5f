------------------------------ MODULE Accounts ------------------------------
(***************************************************************************)
(* Credentials: JWTs and their revocation in Redis (core/auth.py,          *)
(* routes/auth.py, core/redis_store.py) and API tokens, rows of the        *)
(* database (core/api_tokens.py, routes/api_tokens.py).                    *)
(*                                                                         *)
(* A request is served in steps that end where the code awaits Redis or    *)
(* the database, so requests, the clock and outages of Redis come between. *)
(* Emails, passwords and the accounts are left out: a login succeeds or    *)
(* fails.  The rate limits the endpoints pass first are in RateLimits;     *)
(* here a limit may turn any request away.                                 *)
(***************************************************************************)
EXTENDS Integers, FiniteSets

CONSTANTS Requests,     \* requests served at a time
          Logins,       \* bound: pairs of an access and a refresh token issued
          ApiIds,       \* bound: API tokens created
          Life,         \* [kind -> lifetime of a token]
          MinTTL,       \* least time the revocation set is kept
          MaxTime, MaxOutages, \* bounds
          None

Kinds == {"access", "refresh"}
Jwts == Logins \X Kinds
Forever == 2 * MaxTime + MinTTL + 1

ApiToken == [exp : 0..Forever, used : BOOLEAN, revoked : BOOLEAN]

ASSUME AccountsAssumption ==
  /\ DOMAIN Life = Kinds \cup {"api"} /\ \A k \in DOMAIN Life : Life[k] \in 1..MaxTime
  /\ MaxTime \in Nat /\ MaxOutages \in Nat /\ MinTTL \in 1..Life["refresh"]
  /\ None \notin Jwts \cup ApiIds \cup ApiToken /\ Jwts \cap ApiIds = {}

VARIABLES now,      \* the clock
          redis,    \* "unset", "failed" (no connection at startup), "on" or "lost"
          issued,   \* [login -> None or the time at which its tokens were signed]
          revoked,  \* the revocation set of Redis
          keptTill, \* when that set expires, as a whole
          apis,     \* rows of api_tokens: [id -> None or [exp, used, revoked]]
          jobs,     \* [request -> None or what it is doing]
          retired,  \* history: API tokens whose revocation was answered
          outages

vars == <<now, redis, issued, revoked, keptTill, apis, jobs, retired, outages>>
clock == <<now, redis, outages>>
revocations == <<revoked, keptTill>>

exp(t) == issued[t[1]] + Life[t[2]]
Issued == {n \in Logins : issued[n] # None}
Created == {t \in ApiIds : apis[t] # None}
decode_token(t) == exp(t) > now

(* cred: what the request presents; body: the token it is about. *)
Job == [op : {"login", "refresh", "logout", "create", "revoke", "use"},
        cred : Jwts \cup ApiIds \cup {None}, body : Jwts \cup ApiIds \cup {None},
        pc : {"auth", "touch", "work", "issue", "more"}]

At(r, pc) == IF jobs[r] = None THEN FALSE ELSE jobs[r].pc = pc
Works(r, op) == IF At(r, "work") THEN jobs[r].op = op ELSE FALSE
Goto(r, pc) == jobs' = [jobs EXCEPT ![r].pc = pc]
Answered(r) == jobs' = [jobs EXCEPT ![r] = None]
Proceed(r, ok, pc) == IF ok THEN Goto(r, pc) ELSE Answered(r)

Init == /\ now = 0 /\ outages = 0
        /\ redis \in {"unset", "failed", "on"}
        /\ issued = [n \in Logins |-> None]
        /\ revoked = {} /\ keptTill = 0
        /\ apis = [t \in ApiIds |-> None] /\ retired = {}
        /\ jobs = [r \in Requests |-> None]
----------------------------------------------------------------------------
(* core/redis_store.py: the set and its time *)

InSet(t) == t \in revoked /\ keptTill > now
Stored == IF keptTill > now THEN revoked ELSE {}

(* Adding a value sets the time of the whole set.  A failure is logged     *)
(* only: Redis may be gone, or go after the value and before the time.     *)
set_add(t, ttl) ==
  \/ /\ redis = "on"
     /\ revoked' = Stored \cup {t} /\ keptTill' = now + ttl
     /\ UNCHANGED <<redis, outages>>
  \/ /\ redis = "on" /\ outages < MaxOutages
     /\ revoked' = Stored \cup {t}
     /\ keptTill' = IF Stored = {} THEN Forever ELSE keptTill
     /\ redis' = "lost" /\ outages' = outages + 1
  \/ redis # "on" /\ UNCHANGED <<revocations, redis, outages>>

(* core/auth.py: at least MinTTL; a token that does not decode needs none. *)
ttl_M_absolute(t) == exp(t)
ttl(t) == IF exp(t) - now > MinTTL THEN exp(t) - now ELSE MinTTL
revoke_token(t) ==
  IF decode_token(t) THEN set_add(t, ttl(t)) ELSE UNCHANGED <<revocations, redis, outages>>

(* Without Redis no token is revoked; with a Redis that does not answer    *)
(* every token is.                                                         *)
is_token_revoked_M_open(t) == redis = "on" /\ InSet(t)
is_token_revoked(t) == \/ redis \in {"failed", "lost"}
                       \/ redis = "on" /\ InSet(t)
----------------------------------------------------------------------------
(* A request comes in *)

Arrive(r, op, cred, body, pc) ==
  /\ jobs[r] = None
  /\ jobs' = [jobs EXCEPT ![r] = [op |-> op, cred |-> cred, body |-> body, pc |-> pc]]
  /\ UNCHANGED <<clock, issued, revocations, apis, retired>>

(* A refresh token is refused by the dependency all endpoints share; Use   *)
(* presents one to it.                                                     *)
Creds == (Issued \X {"access"}) \cup Created
Login(r) == Arrive(r, "login", None, None, "work")
Refresh(r) == \E t \in Issued \X Kinds : Arrive(r, "refresh", t, None, "auth")
Logout(r) == \E t \in Issued \X Kinds : \E body \in {None, <<t[1], "refresh">>} :
               Arrive(r, "logout", t, body, "work")
CreateToken(r) == \E t \in Creds : Arrive(r, "create", t, None, "auth")
RevokeToken(r) == \E t \in Creds, body \in Created : Arrive(r, "revoke", t, body, "auth")
Use(r) == \E t \in Creds \cup (Issued \X Kinds) : Arrive(r, "use", t, None, "auth")

(* A limit, an unknown user or a wrong password ends it. *)
Refuse(r) == /\ jobs[r] # None /\ jobs[r].pc \in {"auth", "work"} /\ Answered(r)
             /\ UNCHANGED <<clock, issued, revocations, apis, retired>>

(* get_current_user and refresh: the kind, then the revocation. *)
AuthJwt(r) ==
  /\ At(r, "auth") /\ jobs[r].cred \in Jwts
  /\ LET t == jobs[r].cred IN
       Proceed(r, /\ decode_token(t) /\ ~is_token_revoked(t)
                  /\ t[2] = IF jobs[r].op = "refresh" THEN "refresh" ELSE "access", "work")
  /\ UNCHANGED <<clock, issued, revocations, apis, retired>>

(* verify_api_token: the row is read ... *)
AuthApi(r) ==
  /\ At(r, "auth") /\ jobs[r].cred \in ApiIds
  /\ LET row == apis[jobs[r].cred] IN Proceed(r, ~row.revoked /\ row.exp > now, "touch")
  /\ UNCHANGED <<clock, issued, revocations, apis, retired>>

(* ... and the time of its use is written to it, no other column of it.    *)
Touched_M_row(row) == [row EXCEPT !.used = TRUE, !.revoked = FALSE]
Touched(row) == [row EXCEPT !.used = TRUE]
TouchApi(r) ==
  /\ At(r, "touch") /\ Goto(r, "work")
  /\ apis' = [apis EXCEPT ![jobs[r].cred] = Touched(@)]
  /\ UNCHANGED <<clock, issued, revocations, retired>>
----------------------------------------------------------------------------
(* The endpoints *)

(* An access and a refresh token are signed; nothing is stored. *)
Issue(r) ==
  /\ Works(r, "login") \/ At(r, "issue")
  /\ Answered(r)
  /\ IF Issued = Logins THEN UNCHANGED issued
     ELSE \E n \in Logins \ Issued : issued' = [issued EXCEPT ![n] = now]
  /\ UNCHANGED <<clock, revocations, apis, retired>>

(* The refresh token that was found good is revoked, then replaced. *)
Rotate(r) ==
  /\ Works(r, "refresh") /\ revoke_token(jobs[r].cred) /\ Goto(r, "issue")
  /\ UNCHANGED <<now, issued, apis, retired>>

(* logout: both tokens, one after the other; it needs a token that         *)
(* decodes, and does not ask whether it was revoked.                       *)
LogoutFirst(r) ==
  /\ Works(r, "logout")
  /\ IF decode_token(jobs[r].cred)
     THEN revoke_token(jobs[r].cred) /\ Proceed(r, jobs[r].body # None, "more")
     ELSE Answered(r) /\ UNCHANGED <<revocations, redis, outages>>
  /\ UNCHANGED <<now, issued, apis, retired>>

LogoutSecond(r) ==
  /\ At(r, "more") /\ revoke_token(jobs[r].body) /\ Answered(r)
  /\ UNCHANGED <<now, issued, apis, retired>>

(* A life is optional: without one the row never expires. *)
create_api_token(r) ==
  /\ Works(r, "create") /\ Answered(r)
  /\ IF Created = ApiIds THEN UNCHANGED apis
     ELSE \E t \in ApiIds \ Created, till \in {now + Life["api"], Forever} :
            apis' = [apis EXCEPT ![t] = [exp |-> till, used |-> FALSE, revoked |-> FALSE]]
  /\ UNCHANGED <<clock, issued, revocations, retired>>

revoke_api_token(r) ==
  /\ Works(r, "revoke") /\ Answered(r)
  /\ apis' = [apis EXCEPT ![jobs[r].body].revoked = TRUE]
  /\ retired' = retired \cup {jobs[r].body}
  /\ UNCHANGED <<clock, issued, revocations>>

Served(r) == /\ Works(r, "use") /\ Answered(r)
             /\ UNCHANGED <<clock, issued, revocations, apis, retired>>
----------------------------------------------------------------------------
Tick == /\ now < MaxTime /\ now' = now + 1
        /\ UNCHANGED <<redis, outages, issued, revocations, apis, jobs, retired>>
Lose == /\ redis = "on" /\ outages < MaxOutages
        /\ redis' = "lost" /\ outages' = outages + 1
        /\ UNCHANGED <<now, issued, revocations, apis, jobs, retired>>
Recover == /\ redis = "lost" /\ redis' = "on"
           /\ UNCHANGED <<now, outages, issued, revocations, apis, jobs, retired>>

Next == \/ Tick \/ Lose \/ Recover
        \/ \E r \in Requests :
             \/ Login(r) \/ Refresh(r) \/ Logout(r) \/ CreateToken(r) \/ RevokeToken(r) \/ Use(r)
             \/ Refuse(r) \/ AuthJwt(r) \/ AuthApi(r) \/ TouchApi(r)
             \/ Issue(r) \/ Rotate(r) \/ LogoutFirst(r) \/ LogoutSecond(r)
             \/ create_api_token(r) \/ revoke_api_token(r) \/ Served(r)

Spec == Init /\ [][Next]_vars
----------------------------------------------------------------------------
TypeOK == /\ now \in 0..MaxTime /\ outages \in 0..MaxOutages
          /\ redis \in {"unset", "failed", "on", "lost"}
          /\ issued \in [Logins -> 0..now \cup {None}]
          /\ revoked \subseteq Issued \X Kinds
          /\ keptTill = Forever \/ \E k \in Kinds : keptTill \in 0..(now + Life[k])
          /\ apis \in [ApiIds -> ApiToken \cup {None}]
          /\ jobs \in [Requests -> Job \cup {None}]
          /\ retired \subseteq Created

(* A credential that was revoked is never let through: a JWT while its     *)
(* revocation is stored, whether Redis answers or not; an API token for    *)
(* good, whatever requests with it were under way when it was revoked.     *)
(* (core/auth.py:90 "Fails closed", core/api_tokens.py:134)                *)
RevokedIsRefused ==
  [][\A r \in Requests : At(r, "auth") /\ jobs[r]' \notin {jobs[r], None} =>
       ~InSet(jobs[r].cred) /\ jobs[r].cred \notin retired]_vars

(* What was revoked stays revoked until it expires: core/auth.py:74 keeps  *)
(* it for the "time remaining until token expires", but sets the time of   *)
(* the whole set.                                                          *)
RevocationLasts == [][\A t \in Jwts : InSet(t) /\ exp(t) > now' => InSet(t)']_vars
=============================================================================
