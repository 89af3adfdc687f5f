-------------------------- MODULE Accounts_proofs --------------------------
(***************************************************************************)
(* Proofs about Accounts: no request is let through with a credential      *)
(* whose revocation is stored, whatever Redis, the clock and the other     *)
(* requests do; and about History: no list of messages outside the agent   *)
(* loop ever holds a tool call without its result.                         *)
(***************************************************************************)
EXTENDS Accounts, History, FiniteSetTheorems, WellFoundedInduction, TLAPS

(* What a request presents and is about was issued before.                 *)
Pairs == Issued \X Kinds
JobKnown(job) ==
  /\ {job.cred, job.body} \subseteq Pairs \cup Created \cup {None}
  /\ job.pc = "touch" => job.cred \in Created
  /\ job.pc = "more" => job.body \in Pairs
  /\ job.op = "refresh" => job.cred \in Pairs
  /\ job.op = "logout" => job.cred \in Pairs /\ job.body \in Pairs \cup {None}
  /\ job.op = "revoke" => job.body \in Created
JobsKnown == \A r \in Requests : jobs[r] # None => JobKnown(jobs[r])

ClockOK == /\ now \in 0..MaxTime /\ outages \in 0..MaxOutages
           /\ redis \in {"unset", "failed", "on", "lost"}
RevocationsOK == /\ revoked \subseteq Pairs
                 /\ keptTill = Forever \/ \E k \in Kinds : keptTill \in 0..(now + Life[k])
IssuedOK == issued \in [Logins -> 0..now \cup {None}]
ApisOK == apis \in [ApiIds -> ApiToken \cup {None}] /\ retired \subseteq Created
JobsOK == jobs \in [Requests -> Job \cup {None}] /\ JobsKnown

TypeInv == ClockOK /\ RevocationsOK /\ IssuedOK /\ ApisOK /\ JobsOK

LEMMA TypeInvTypes == TypeInv => TypeOK
  BY DEF TypeInv, TypeOK, ClockOK, RevocationsOK, IssuedOK, ApisOK, JobsOK, Pairs

LEMMA Lifetimes ==
  /\ \A k \in Kinds : Life[k] \in Nat /\ Life[k] \in 1..MaxTime
  /\ Life["api"] \in 1..MaxTime
  /\ MaxTime \in Nat /\ MaxOutages \in Nat /\ MinTTL \in Nat /\ MinTTL <= Life["refresh"]
  /\ Forever \in Nat
  <1>1. DOMAIN Life = Kinds \cup {"api"} /\ \A k \in DOMAIN Life : Life[k] \in 1..MaxTime
    BY AccountsAssumption
  <1>2. MaxTime \in Nat /\ MaxOutages \in Nat /\ MinTTL \in 1..Life["refresh"]
    BY AccountsAssumption
  <1>3. \A k \in Kinds : Life[k] \in 1..MaxTime
    BY <1>1
  <1>4. Life["api"] \in 1..MaxTime /\ Life["refresh"] \in 1..MaxTime
    BY <1>1 DEF Kinds
  <1> QED
    BY <1>2, <1>3, <1>4 DEF Forever

----------------------------------------------------------------------------
(* The revocation set *)

LEMMA Expiry ==
  ASSUME TypeInv, NEW t \in Pairs
  PROVE  exp(t) \in Nat /\ exp(t) <= now + Life[t[2]] /\ t[2] \in Kinds
  <1>1. t[1] \in Issued /\ t[2] \in Kinds
    BY DEF Pairs
  <1>2. issued[t[1]] \in 0..now
    BY <1>1 DEF Issued, TypeInv, IssuedOK
  <1>3. Life[t[2]] \in Nat /\ now \in Nat
    BY <1>1, Lifetimes DEF TypeInv, ClockOK
  <1> QED
    BY <1>1, <1>2, <1>3 DEF exp

LEMMA TTL ==
  ASSUME TypeInv, NEW t \in Pairs
  PROVE  ttl(t) \in Nat /\ \E k \in Kinds : ttl(t) <= Life[k]
  <1>1. exp(t) \in Nat /\ exp(t) <= now + Life[t[2]] /\ t[2] \in Kinds
    BY Expiry
  <1>2. now \in Nat /\ Life[t[2]] \in Nat /\ MinTTL \in Nat /\ MinTTL <= Life["refresh"] /\ "refresh" \in Kinds
    BY <1>1, Lifetimes DEF TypeInv, ClockOK, Kinds
  <1>3. CASE exp(t) - now > MinTTL
    <2>1. ttl(t) = exp(t) - now
      BY <1>3 DEF ttl
    <2>2. ttl(t) \in Nat /\ ttl(t) <= Life[t[2]]
      BY <1>1, <1>2, <1>3, <2>1
    <2> QED
      BY <1>1, <2>2
  <1>4. CASE ~(exp(t) - now > MinTTL)
    BY <1>2, <1>4 DEF ttl
  <1> QED
    BY <1>3, <1>4

(* A revocation changes the set and the state of Redis; without Redis it   *)
(* changes nothing.                                                        *)
LEMMA RevokeEffect ==
  ASSUME TypeInv, NEW t \in Pairs, revoke_token(t), now' = now, issued' = issued
  PROVE  /\ ClockOK' /\ RevocationsOK'
         /\ redis = "unset" => UNCHANGED <<revocations, redis>>
         /\ redis # "unset" => redis' # "unset"
  <1>0. Pairs' = Pairs
    BY DEF Pairs, Issued
  <1>1. CASE UNCHANGED <<revocations, redis, outages>>
    BY <1>0, <1>1 DEF TypeInv, ClockOK, RevocationsOK, revocations
  <1>2. CASE set_add(t, ttl(t)) /\ redis = "on" /\ revoked' = Stored \cup {t} /\ keptTill' = now + ttl(t) /\ UNCHANGED <<redis, outages>>
    <2>1. PICK k \in Kinds : ttl(t) <= Life[k]
      BY TTL
    <2>2. ttl(t) \in Nat /\ now \in Nat /\ Life[k] \in Nat
      BY TTL, Lifetimes DEF TypeInv, ClockOK
    <2>3. keptTill' \in 0..(now' + Life[k])
      BY <1>2, <2>1, <2>2
    <2>4. revoked' \subseteq Pairs'
      BY <1>0, <1>2 DEF TypeInv, RevocationsOK, Stored
    <2> QED
      BY <1>2, <2>3, <2>4 DEF TypeInv, ClockOK, RevocationsOK
  <1>3. CASE /\ redis = "on" /\ outages < MaxOutages
             /\ revoked' = Stored \cup {t}
             /\ keptTill' = IF Stored = {} THEN Forever ELSE keptTill
             /\ redis' = "lost" /\ outages' = outages + 1
    <2>1. revoked' \subseteq Pairs'
      BY <1>0, <1>3 DEF TypeInv, RevocationsOK, Stored
    <2>2. outages' \in 0..MaxOutages
      BY <1>3, Lifetimes DEF TypeInv, ClockOK
    <2>3. keptTill' = Forever \/ \E k \in Kinds : keptTill' \in 0..(now' + Life[k])
      BY <1>3 DEF TypeInv, RevocationsOK
    <2> QED
      BY <1>3, <2>1, <2>2, <2>3 DEF TypeInv, ClockOK, RevocationsOK
  <1> QED
    BY <1>1, <1>2, <1>3 DEF revoke_token, set_add


----------------------------------------------------------------------------
(* Requests *)

LEMMA JobStep ==
  ASSUME TypeInv, NEW r \in Requests, NEW j, jobs' = [jobs EXCEPT ![r] = j],
         Pairs \subseteq Pairs', Created \subseteq Created',
         j = None \/ (j \in Job /\ JobKnown(j)')
  PROVE  JobsOK'
  <1>1. jobs' \in [Requests -> Job \cup {None}]
    BY DEF TypeInv, JobsOK
  <1>2. jobs'[r] = j /\ \A q \in Requests \ {r} : jobs'[q] = jobs[q]
    BY DEF TypeInv, JobsOK
  <1>3. \A q \in Requests \ {r} : jobs[q] # None => JobKnown(jobs[q])
    BY DEF TypeInv, JobsOK, JobsKnown
  <1>4. \A q \in Requests \ {r} : jobs[q] # None => JobKnown(jobs[q])'
    BY <1>2, <1>3 DEF JobKnown
  <1>5. JobsKnown'
    <2>1. jobs'[r] # None => JobKnown(jobs[r])'
      BY <1>2 DEF JobKnown
    <2>2. \A q \in Requests \ {r} : jobs'[q] # None => JobKnown(jobs[q])'
      BY <1>2, <1>4
    <2> QED
      BY <2>1, <2>2 DEF JobsKnown
  <1> QED
    BY <1>1, <1>5 DEF JobsOK

(* A request that goes on keeps its credential; to "touch" and to "more"   *)
(* it goes with what they need.                                            *)
LEMMA GotoStep ==
  ASSUME TypeInv, NEW r \in Requests, jobs[r] # None, NEW pc \in {"auth", "touch", "work", "issue", "more"},
         Goto(r, pc), Pairs \subseteq Pairs', Created \subseteq Created',
         pc = "touch" => jobs[r].cred \in Created,
         pc = "more" => jobs[r].body \in Pairs
  PROVE  JobsOK'
  <1>1. jobs[r] \in Job /\ JobKnown(jobs[r])
    BY DEF TypeInv, JobsOK, JobsKnown
  <1>2. PICK j \in Job : j = [jobs[r] EXCEPT !.pc = pc]
    BY <1>1 DEF Job
  <1>3. j.cred = jobs[r].cred /\ j.body = jobs[r].body /\ j.op = jobs[r].op /\ j.pc = pc
    BY <1>1, <1>2 DEF Job
  <1>4. jobs' = [jobs EXCEPT ![r] = j]
    BY <1>2 DEF Goto
  <1>5. JobKnown(j)'
    BY <1>1, <1>3 DEF JobKnown
  <1> QED
    BY <1>4, <1>5, JobStep

LEMMA AnsweredStep ==
  ASSUME TypeInv, NEW r \in Requests, Answered(r), Pairs \subseteq Pairs', Created \subseteq Created'
  PROVE  JobsOK'
  BY JobStep DEF Answered

LEMMA ProceedStep ==
  ASSUME TypeInv, NEW r \in Requests, jobs[r] # None, NEW pc \in {"auth", "touch", "work", "issue", "more"},
         Goto(r, pc) \/ Answered(r), Pairs \subseteq Pairs', Created \subseteq Created',
         Goto(r, pc) => /\ pc = "touch" => jobs[r].cred \in Created
                        /\ pc = "more" => jobs[r].body \in Pairs
  PROVE  JobsOK'
  BY GotoStep, AnsweredStep

(* The requests that come in. *)
Arrives(r) == Login(r) \/ Refresh(r) \/ Logout(r) \/ CreateToken(r) \/ RevokeToken(r) \/ Use(r)

LEMMA ArriveStep ==
  ASSUME TypeInv, NEW r \in Requests, NEW op \in {"login", "refresh", "logout", "create", "revoke", "use"},
         NEW cred \in Pairs \cup Created \cup {None}, NEW body \in Pairs \cup Created \cup {None},
         NEW pc \in {"auth", "work"}, Arrive(r, op, cred, body, pc),
         op = "refresh" => cred \in Pairs,
         op = "logout" => cred \in Pairs /\ body \in Pairs \cup {None},
         op = "revoke" => body \in Created
  PROVE  JobsOK' /\ jobs[r] = None /\ UNCHANGED <<clock, issued, revocations, apis, retired>>
  <1> DEFINE j == [op |-> op, cred |-> cred, body |-> body, pc |-> pc]
  <1>1. jobs' = [jobs EXCEPT ![r] = j] /\ jobs[r] = None /\ UNCHANGED <<clock, issued, revocations, apis, retired>>
    BY DEF Arrive
  <1>2. Pairs' = Pairs /\ Created' = Created
    BY <1>1 DEF Pairs, Issued, Created
  <1>3. Pairs \subseteq Jwts /\ Created \subseteq ApiIds
    BY DEF Pairs, Issued, Created, Jwts
  <1>4. j \in Job
    BY <1>3 DEF Job
  <1>5. JobKnown(j)'
    BY <1>2 DEF JobKnown
  <1> HIDE DEF j
  <1> QED
    BY <1>1, <1>2, <1>4, <1>5, JobStep

LEMMA ArrivesStep ==
  ASSUME TypeInv, NEW r \in Requests, Arrives(r)
  PROVE  JobsOK' /\ jobs[r] = None /\ UNCHANGED <<clock, issued, revocations, apis, retired>>
  <1>0. Issued \X {"access"} \subseteq Pairs /\ \A t \in Pairs : <<t[1], "refresh">> \in Pairs
    BY DEF Pairs, Kinds
  <1>1. CASE Login(r)
    BY <1>1, ArriveStep DEF Login
  <1>2. CASE Refresh(r)
    <2>1. PICK t \in Pairs : Arrive(r, "refresh", t, None, "auth")
      BY <1>2 DEF Refresh, Pairs
    <2> QED
      BY <2>1, ArriveStep
  <1>3. CASE Logout(r)
    <2>0. PICK t \in Pairs : \E body \in {None, <<t[1], "refresh">>} : Arrive(r, "logout", t, body, "work")
      BY <1>3 DEF Logout, Pairs
    <2>1. PICK body \in {None, <<t[1], "refresh">>} : Arrive(r, "logout", t, body, "work")
      BY <2>0
    <2>2. body \in Pairs \cup {None}
      BY <1>0, <2>1
    <2> QED
      BY <2>1, <2>2, ArriveStep
  <1>4. CASE CreateToken(r)
    <2>1. PICK t \in Pairs \cup Created : Arrive(r, "create", t, None, "auth")
      BY <1>0, <1>4 DEF CreateToken, Creds
    <2> QED
      BY <2>1, ArriveStep
  <1>5. CASE RevokeToken(r)
    <2>1. PICK t \in Pairs \cup Created, body \in Created : Arrive(r, "revoke", t, body, "auth")
      BY <1>0, <1>5 DEF RevokeToken, Creds
    <2> QED
      BY <2>1, ArriveStep
  <1>6. CASE Use(r)
    <2>1. PICK t \in Pairs \cup Created : Arrive(r, "use", t, None, "auth")
      BY <1>0, <1>6 DEF Use, Creds, Pairs
    <2> QED
      BY <2>1, ArriveStep
  <1> QED
    BY <1>1, <1>2, <1>3, <1>4, <1>5, <1>6 DEF Arrives

----------------------------------------------------------------------------
(* Types *)

(* The steps that change neither tokens nor revocations. *)
Quiet(r) == Refuse(r) \/ AuthJwt(r) \/ AuthApi(r) \/ Served(r)
Revokes(r) == Rotate(r) \/ LogoutFirst(r) \/ LogoutSecond(r)

LEMMA NextSplit ==
  Next => \/ Tick \/ Lose \/ Recover
          \/ \E r \in Requests :
               \/ Arrives(r) \/ Quiet(r) \/ TouchApi(r) \/ Issue(r) \/ Revokes(r)
               \/ create_api_token(r) \/ revoke_api_token(r)
  BY DEF Next, Arrives, Quiet, Revokes

LEMMA AtPc == ASSUME NEW r, NEW pc, At(r, pc) PROVE jobs[r] # None /\ jobs[r].pc = pc
  BY DEF At

LEMMA KeptType ==
  ASSUME TypeInv, JobsOK', UNCHANGED <<clock, issued, revocations, apis, retired>>
  PROVE  TypeInv'
  BY DEF TypeInv, ClockOK, RevocationsOK, IssuedOK, ApisOK, clock, revocations, Pairs, Issued, Created

LEMMA QuietType ==
  ASSUME TypeInv, NEW r \in Requests, Quiet(r)
  PROVE  TypeInv'
  <1>1. UNCHANGED <<clock, issued, revocations, apis, retired>>
    BY DEF Quiet, Refuse, AuthJwt, AuthApi, Served
  <1>2. Pairs' = Pairs /\ Created' = Created
    BY <1>1 DEF Pairs, Issued, Created
  <1>3. CASE Refuse(r) \/ Served(r)
    <2>1. Answered(r)
      BY <1>3 DEF Refuse, Served
    <2> QED
      BY <1>1, <1>2, <2>1, AnsweredStep, KeptType
  <1>4. CASE AuthJwt(r)
    <2>1. jobs[r] # None /\ (Goto(r, "work") \/ Answered(r))
      BY <1>4 DEF AuthJwt, At, Proceed
    <2>2. JobsOK'
      BY <1>2, <2>1, ProceedStep
    <2> QED
      BY <1>1, <2>2, KeptType
  <1>5. CASE AuthApi(r)
    <2>1. jobs[r] # None /\ jobs[r].cred \in ApiIds /\ (Goto(r, "touch") \/ Answered(r))
      BY <1>5 DEF AuthApi, At, Proceed
    <2>2. JobKnown(jobs[r])
      BY <2>1 DEF TypeInv, JobsOK, JobsKnown
    <2>3. jobs[r].cred \in Created
      BY <2>1, <2>2, AccountsAssumption DEF JobKnown, Pairs, Issued, Jwts
    <2>4. JobsOK'
      BY <1>2, <2>1, <2>3, ProceedStep
    <2> QED
      BY <1>1, <2>4, KeptType
  <1> QED
    BY <1>3, <1>4, <1>5 DEF Quiet

(* A row that is changed stays a row. *)
LEMMA RowStep ==
  ASSUME TypeInv, NEW t \in ApiIds, NEW row \in ApiToken, apis' = [apis EXCEPT ![t] = row],
         retired' \subseteq retired \cup {t}
  PROVE  ApisOK' /\ Created \subseteq Created'
  <1>1. row # None
    BY AccountsAssumption
  <1>2. apis'[t] # None /\ \A s \in ApiIds \ {t} : apis'[s] = apis[s]
    BY <1>1 DEF TypeInv, ApisOK
  <1>3. Created \subseteq Created' /\ t \in Created'
    BY <1>2 DEF Created
  <1> QED
    BY <1>3 DEF TypeInv, ApisOK

LEMMA ApiStepType ==
  ASSUME TypeInv, NEW r \in Requests, TouchApi(r) \/ create_api_token(r) \/ revoke_api_token(r)
  PROVE  TypeInv'
  <1>1. UNCHANGED <<clock, issued, revocations>>
    BY DEF TouchApi, create_api_token, revoke_api_token
  <1>2. Pairs' = Pairs
    BY <1>1 DEF Pairs, Issued
  <1>3. CASE TouchApi(r)
    <2>1. jobs[r] # None /\ jobs[r].pc = "touch" /\ Goto(r, "work")
      BY <1>3 DEF TouchApi, At
    <2>2. jobs[r].cred \in Created
      BY <2>1 DEF TypeInv, JobsOK, JobsKnown, JobKnown
    <2> DEFINE t == jobs[r].cred
    <2>3. t \in ApiIds /\ apis[t] \in ApiToken
      BY <2>2 DEF Created, TypeInv, ApisOK
    <2>4. apis' = [apis EXCEPT ![t] = Touched(apis[t])] /\ retired' = retired
      BY <1>3 DEF TouchApi
    <2>5. Touched(apis[t]) \in ApiToken
      BY <2>3 DEF Touched, ApiToken
    <2> HIDE DEF t
    <2>6. ApisOK' /\ Created \subseteq Created'
      BY <2>3, <2>4, <2>5, RowStep
    <2>7. JobsOK'
      BY <1>2, <2>1, <2>6, GotoStep
    <2> QED
      BY <1>1, <2>6, <2>7 DEF TypeInv, ClockOK, RevocationsOK, IssuedOK, clock, revocations, Pairs, Issued
  <1>4. CASE create_api_token(r)
    <2>1. Answered(r) /\ retired' = retired
      BY <1>4 DEF create_api_token
    <2>2. ApisOK' /\ Created \subseteq Created'
      <3>1. CASE apis' = apis
        BY <2>1, <3>1 DEF TypeInv, ApisOK, Created
      <3>2. CASE apis' # apis
        <4>1. PICK t \in ApiIds, till \in {now + Life["api"], Forever} :
                apis' = [apis EXCEPT ![t] = [exp |-> till, used |-> FALSE, revoked |-> FALSE]]
          BY <1>4, <3>2 DEF create_api_token
        <4>2. now + Life["api"] \in 0..Forever /\ Forever \in 0..Forever
          BY Lifetimes DEF Forever, TypeInv, ClockOK
        <4>3. [exp |-> till, used |-> FALSE, revoked |-> FALSE] \in ApiToken
          BY <4>1, <4>2 DEF ApiToken
        <4> QED
          BY <2>1, <4>1, <4>3, RowStep
      <3> QED
        BY <3>1, <3>2
    <2>3. JobsOK'
      BY <1>2, <2>1, <2>2, AnsweredStep
    <2> QED
      BY <1>1, <2>2, <2>3 DEF TypeInv, ClockOK, RevocationsOK, IssuedOK, clock, revocations, Pairs, Issued
  <1>5. CASE revoke_api_token(r)
    <2>1. jobs[r] # None /\ jobs[r].op = "revoke" /\ Answered(r)
      BY <1>5 DEF revoke_api_token, Works, At
    <2>2. jobs[r].body \in Created
      BY <2>1 DEF TypeInv, JobsOK, JobsKnown, JobKnown
    <2> DEFINE t == jobs[r].body
    <2>3. t \in ApiIds /\ apis[t] \in ApiToken
      BY <2>2 DEF Created, TypeInv, ApisOK
    <2>4. apis' = [apis EXCEPT ![t] = [apis[t] EXCEPT !.revoked = TRUE]] /\ retired' = retired \cup {t}
      BY <1>5 DEF revoke_api_token
    <2>5. [apis[t] EXCEPT !.revoked = TRUE] \in ApiToken
      BY <2>3 DEF ApiToken
    <2> HIDE DEF t
    <2>6. ApisOK' /\ Created \subseteq Created'
      BY <2>3, <2>4, <2>5, RowStep
    <2>7. JobsOK'
      BY <1>2, <2>1, <2>6, AnsweredStep
    <2> QED
      BY <1>1, <2>6, <2>7 DEF TypeInv, ClockOK, RevocationsOK, IssuedOK, clock, revocations, Pairs, Issued
  <1> QED
    BY <1>3, <1>4, <1>5

LEMMA IssueType ==
  ASSUME TypeInv, NEW r \in Requests, Issue(r)
  PROVE  TypeInv'
  <1>1. Answered(r) /\ UNCHANGED <<clock, revocations, apis, retired>>
    BY DEF Issue
  <1>2. issued' = issued \/ \E n \in Logins \ Issued : issued' = [issued EXCEPT ![n] = now]
    BY DEF Issue
  <1>3. now \in 0..now /\ now' = now
    BY <1>1 DEF TypeInv, ClockOK, clock
  <1>4. IssuedOK' /\ Issued \subseteq Issued'
    BY <1>2, <1>3 DEF TypeInv, IssuedOK, Issued
  <1>5. Pairs \subseteq Pairs' /\ Created' = Created
    BY <1>1, <1>4 DEF Pairs, Created
  <1>6. JobsOK'
    BY <1>1, <1>5, AnsweredStep
  <1> QED
    BY <1>1, <1>4, <1>5, <1>6 DEF TypeInv, ClockOK, RevocationsOK, ApisOK, clock, revocations, Created

(* The token of a revocation was issued. *)
LEMMA RevokesEffect ==
  ASSUME TypeInv, NEW r \in Requests, Revokes(r)
  PROVE  /\ JobsOK' /\ UNCHANGED <<now, issued, apis, retired>>
         /\ \/ UNCHANGED <<revocations, redis, outages>>
            \/ \E t \in Pairs : revoke_token(t)
  <1>0. UNCHANGED <<now, issued, apis, retired>>
    BY DEF Revokes, Rotate, LogoutFirst, LogoutSecond
  <1>1. Pairs' = Pairs /\ Created' = Created
    BY <1>0 DEF Pairs, Issued, Created
  <1>2. jobs[r] # None => JobKnown(jobs[r])
    BY DEF TypeInv, JobsOK, JobsKnown
  <1>3. CASE Rotate(r)
    <2>1. jobs[r] # None /\ jobs[r].op = "refresh" /\ Goto(r, "issue") /\ revoke_token(jobs[r].cred)
      BY <1>3 DEF Rotate, Works, At
    <2>2. JobsOK'
      BY <1>1, <2>1, GotoStep
    <2> QED
      BY <1>0, <1>2, <2>1, <2>2 DEF JobKnown
  <1>4. CASE LogoutFirst(r)
    <2>1. jobs[r] # None /\ jobs[r].op = "logout"
      BY <1>4 DEF LogoutFirst, Works, At
    <2>2. jobs[r].cred \in Pairs /\ jobs[r].body \in Pairs \cup {None}
      BY <1>2, <2>1 DEF JobKnown
    <2>3. CASE decode_token(jobs[r].cred)
      <3>1. revoke_token(jobs[r].cred) /\ Proceed(r, jobs[r].body # None, "more")
        BY <1>4, <2>3 DEF LogoutFirst
      <3>2. JobsOK'
        <4>1. CASE jobs[r].body # None
          <5>1. jobs[r].body \in Pairs /\ Goto(r, "more")
            BY <2>2, <3>1, <4>1 DEF Proceed
          <5> QED
            BY <1>1, <2>1, <5>1, GotoStep
        <4>2. CASE jobs[r].body = None
          <5>1. Answered(r)
            BY <3>1, <4>2 DEF Proceed
          <5> QED
            BY <1>1, <5>1, AnsweredStep
        <4> QED
          BY <4>1, <4>2
      <3> QED
        BY <1>0, <2>2, <3>1, <3>2
    <2>4. CASE ~decode_token(jobs[r].cred)
      <3>1. Answered(r) /\ UNCHANGED <<revocations, redis, outages>>
        BY <1>4, <2>4 DEF LogoutFirst
      <3>2. JobsOK'
        BY <1>1, <3>1, AnsweredStep
      <3> QED
        BY <1>0, <3>1, <3>2
    <2> QED
      BY <2>3, <2>4
  <1>5. CASE LogoutSecond(r)
    <2>1. jobs[r] # None /\ jobs[r].pc = "more" /\ Answered(r) /\ revoke_token(jobs[r].body)
      BY <1>5 DEF LogoutSecond, At
    <2>2. JobsOK'
      BY <1>1, <2>1, AnsweredStep
    <2> QED
      BY <1>0, <1>2, <2>1, <2>2 DEF JobKnown
  <1> QED
    BY <1>3, <1>4, <1>5 DEF Revokes

LEMMA RevokesType ==
  ASSUME TypeInv, NEW r \in Requests, Revokes(r)
  PROVE  TypeInv'
  <1>1. JobsOK' /\ UNCHANGED <<now, issued, apis, retired>>
    BY RevokesEffect
  <1>2. CASE UNCHANGED <<revocations, redis, outages>>
    BY <1>1, <1>2, KeptType DEF clock
  <1>3. ASSUME NEW t \in Pairs, revoke_token(t) PROVE TypeInv'
    <2>1. ClockOK' /\ RevocationsOK'
      BY <1>1, <1>3, RevokeEffect
    <2>2. IssuedOK' /\ ApisOK'
      BY <1>1 DEF TypeInv, IssuedOK, ApisOK, Created
    <2> QED
      BY <1>1, <2>1, <2>2 DEF TypeInv
  <1> QED
    BY <1>2, <1>3, RevokesEffect

LEMMA ClockType ==
  ASSUME TypeInv, Tick \/ Lose \/ Recover
  PROVE  TypeInv'
  <1>1. UNCHANGED <<issued, revocations, apis, jobs, retired>>
    BY DEF Tick, Lose, Recover
  <1>2. ClockOK' /\ now' \in Nat /\ now <= now'
    BY Lifetimes DEF Tick, Lose, Recover, TypeInv, ClockOK
  <1>3. JobsOK' /\ ApisOK'
    BY <1>1 DEF TypeInv, JobsOK, JobsKnown, JobKnown, ApisOK, Pairs, Issued, Created
  <1>4. IssuedOK'
    BY <1>1, <1>2 DEF TypeInv, IssuedOK, ClockOK
  <1>5. keptTill' = Forever \/ \E k \in Kinds : keptTill' \in 0..(now' + Life[k])
    <2>1. CASE keptTill = Forever
      BY <1>1, <2>1 DEF revocations
    <2>2. ASSUME NEW k \in Kinds, keptTill \in 0..(now + Life[k])
          PROVE  keptTill' \in 0..(now' + Life[k])
      BY <1>1, <1>2, <2>2, Lifetimes DEF revocations, TypeInv, ClockOK
    <2> QED
      BY <2>1, <2>2 DEF TypeInv, RevocationsOK
  <1>6. RevocationsOK'
    BY <1>1, <1>5 DEF TypeInv, RevocationsOK, revocations, Pairs, Issued
  <1> QED
    BY <1>2, <1>3, <1>4, <1>6 DEF TypeInv

LEMMA StepType ==
  ASSUME TypeInv, [Next]_vars
  PROVE  TypeInv'
  <1>1. CASE UNCHANGED vars
    <2>1. UNCHANGED <<clock, issued, revocations, apis, retired>> /\ jobs' = jobs
      BY <1>1 DEF vars, clock, revocations
    <2>2. JobsOK'
      BY <2>1 DEF TypeInv, JobsOK, JobsKnown, JobKnown, Pairs, Issued, Created
    <2> QED
      BY <2>1, <2>2, KeptType
  <1>2. ASSUME NEW r \in Requests, Arrives(r) PROVE TypeInv'
    BY <1>2, ArrivesStep, KeptType
  <1> QED
    BY <1>1, <1>2, NextSplit, QuietType, ApiStepType, IssueType, RevokesType, ClockType

LEMMA TypeInvCorrect == Spec => []TypeInv
  <1>1. Init => TypeInv
    <2> SUFFICES ASSUME Init PROVE TypeInv
      OBVIOUS
    <2>1. ClockOK
      BY Lifetimes DEF Init, ClockOK
    <2>2. RevocationsOK
      BY Lifetimes DEF Init, RevocationsOK, Kinds
    <2>3. IssuedOK /\ ApisOK /\ JobsOK
      BY DEF Init, IssuedOK, ApisOK, JobsOK, JobsKnown
    <2> QED
      BY <2>1, <2>2, <2>3 DEF TypeInv
  <1>2. TypeInv /\ [Next]_vars => TypeInv'
    BY StepType
  <1> QED
    BY <1>1, <1>2, PTL DEF Spec

(* What is issued, revoked and kept has its type, whatever fails meanwhile:*)
(* only tokens that were issued are revoked, the revocation set expires no *)
(* later than a token's lifetime from now, and only API tokens that exist  *)
(* were retired.  (core/auth.py:69, core/redis_store.py, core/api_tokens.py)*)
THEOREM TypeCorrect == Spec => []TypeOK
  BY TypeInvCorrect, TypeInvTypes, PTL

----------------------------------------------------------------------------
(* What was revoked *)

(* Nothing is in a set that was never configured, and an API token whose   *)
(* revocation was answered carries it in its row.                          *)
RevokedInv == /\ redis = "unset" => revoked = {}
              /\ \A t \in retired : apis[t].revoked

LEMMA StepRevoked ==
  ASSUME TypeInv, RevokedInv, [Next]_vars
  PROVE  RevokedInv'
  <1>1. CASE UNCHANGED <<redis, revoked, apis, retired>>
    BY <1>1 DEF RevokedInv
  <1>2. ASSUME NEW r \in Requests, Revokes(r) PROVE RevokedInv'
    <2>1. UNCHANGED <<now, issued, apis, retired>>
      BY <1>2, RevokesEffect
    <2>2. redis' = "unset" => revoked' = {}
      <3>1. CASE UNCHANGED <<revocations, redis, outages>>
        BY <3>1 DEF RevokedInv, revocations
      <3>2. ASSUME NEW t \in Pairs, revoke_token(t) PROVE redis' = "unset" => revoked' = {}
        <4>1. /\ redis = "unset" => UNCHANGED <<revocations, redis>>
              /\ redis # "unset" => redis' # "unset"
          BY <2>1, <3>2, RevokeEffect
        <4> QED
          BY <4>1 DEF RevokedInv, revocations
      <3> QED
        BY <1>2, <3>1, <3>2, RevokesEffect
    <2> QED
      BY <2>1, <2>2 DEF RevokedInv
  <1>3. ASSUME NEW r \in Requests, TouchApi(r) PROVE RevokedInv'
    <2> DEFINE t == jobs[r].cred
    <2>1. apis' = [apis EXCEPT ![t] = Touched(apis[t])] /\ UNCHANGED <<redis, revoked, retired>>
      BY <1>3 DEF TouchApi, clock, revocations
    <2>2. t \in Created
      BY <1>3, AtPc DEF TouchApi, TypeInv, JobsOK, JobsKnown, JobKnown
    <2>3. Touched(apis[t]).revoked = apis[t].revoked
      BY <2>2 DEF Touched, TypeInv, ApisOK, ApiToken, Created
    <2> HIDE DEF t
    <2>4. \A s \in retired : apis'[s].revoked = apis[s].revoked
      BY <2>1, <2>3 DEF TypeInv, ApisOK, Created
    <2> QED
      BY <2>1, <2>4 DEF RevokedInv
  <1>4. ASSUME NEW r \in Requests, create_api_token(r) PROVE RevokedInv'
    <2>1. UNCHANGED <<redis, revoked, retired>>
      BY <1>4 DEF create_api_token, clock, revocations
    <2>2. \A s \in Created : apis'[s] = apis[s]
      BY <1>4 DEF create_api_token, TypeInv, ApisOK, Created
    <2> QED
      BY <2>1, <2>2 DEF RevokedInv, TypeInv, ApisOK
  <1>5. ASSUME NEW r \in Requests, revoke_api_token(r) PROVE RevokedInv'
    <2> DEFINE t == jobs[r].body
    <2>1. apis' = [apis EXCEPT ![t] = [apis[t] EXCEPT !.revoked = TRUE]] /\ retired' = retired \cup {t}
          /\ UNCHANGED <<redis, revoked>>
      BY <1>5 DEF revoke_api_token, clock, revocations
    <2>2. t \in Created
      BY <1>5 DEF revoke_api_token, Works, At, TypeInv, JobsOK, JobsKnown, JobKnown
    <2>3. [apis[t] EXCEPT !.revoked = TRUE].revoked = TRUE
      BY <2>2 DEF TypeInv, ApisOK, ApiToken, Created
    <2> HIDE DEF t
    <2>4. apis'[t].revoked /\ \A s \in Created \ {t} : apis'[s] = apis[s]
      BY <2>1, <2>2, <2>3 DEF TypeInv, ApisOK, Created
    <2> QED
      BY <2>1, <2>4 DEF RevokedInv, TypeInv, ApisOK
  <1>6. ASSUME Tick \/ Lose \/ Recover PROVE RevokedInv'
    BY <1>6 DEF Tick, Lose, Recover, RevokedInv, revocations
  <1>7. ASSUME NEW r \in Requests, Arrives(r) \/ Quiet(r) \/ Issue(r) PROVE UNCHANGED <<redis, revoked, apis, retired>>
    <2>1. CASE Arrives(r)
      BY <2>1, ArrivesStep DEF clock, revocations
    <2>2. CASE Quiet(r) \/ Issue(r)
      BY <2>2 DEF Quiet, Refuse, AuthJwt, AuthApi, Served, Issue, clock, revocations
    <2> QED
      BY <1>7, <2>1, <2>2
  <1>8. CASE UNCHANGED vars
    BY <1>1, <1>8 DEF vars, clock, revocations
  <1> QED
    BY <1>1, <1>2, <1>3, <1>4, <1>5, <1>6, <1>7, <1>8, NextSplit

(* Only the check of its credential lets a waiting request go on.          *)
LEMMA PassesByAuth ==
  ASSUME TypeInv, Next, NEW r \in Requests, At(r, "auth"), jobs'[r] \notin {jobs[r], None}
  PROVE  \/ AuthJwt(r) /\ Goto(r, "work")
         \/ AuthApi(r) /\ Goto(r, "touch")
  <1>0. jobs[r] # None /\ jobs[r].pc = "auth" /\ jobs' # jobs
    BY DEF At
  <1>1. ASSUME NEW q \in Requests, q # r, \E j : jobs' = [jobs EXCEPT ![q] = j] PROVE FALSE
    BY <1>1 DEF TypeInv, JobsOK
  <1>2. ASSUME NEW q \in Requests, Arrives(q) PROVE q # r /\ \E j : jobs' = [jobs EXCEPT ![q] = j]
    <2>1. \E j : jobs[q] = None /\ jobs' = [jobs EXCEPT ![q] = j]
      BY <1>2 DEF Arrives, Login, Refresh, Logout, CreateToken, RevokeToken, Use, Arrive
    <2> QED
      BY <1>0, <2>1
  <1>3. ASSUME NEW q \in Requests, Quiet(q) \/ TouchApi(q) \/ Issue(q) \/ Revokes(q) \/ create_api_token(q) \/ revoke_api_token(q)
        PROVE  q = r /\ jobs'[r] # None
    <2>1. Answered(q) \/ \E pc : Goto(q, pc)
      BY <1>3 DEF Quiet, Refuse, AuthJwt, AuthApi, Served, TouchApi, Issue, Revokes, Rotate, LogoutFirst, LogoutSecond,
                  create_api_token, revoke_api_token, Proceed
    <2>2. \E j : jobs' = [jobs EXCEPT ![q] = j]
      BY <2>1 DEF Answered, Goto
    <2> QED
      BY <1>1, <2>2
  <1>4. CASE Quiet(r)
    <2>1. ~Answered(r)
      BY DEF Answered, TypeInv, JobsOK
    <2> QED
      BY <1>0, <1>4, <2>1 DEF Quiet, Refuse, Served, AuthJwt, AuthApi, Proceed
  <1>5. CASE TouchApi(r) \/ Issue(r) \/ Revokes(r) \/ create_api_token(r) \/ revoke_api_token(r)
    BY <1>0, <1>5 DEF TouchApi, Issue, Revokes, Rotate, LogoutFirst, LogoutSecond, create_api_token, revoke_api_token, Works, At
  <1>6. CASE Tick \/ Lose \/ Recover
    BY <1>0, <1>6 DEF Tick, Lose, Recover
  <1> QED
    BY <1>1, <1>2, <1>3, <1>4, <1>5, <1>6, NextSplit

LEMMA StepRefuses ==
  ASSUME TypeInv, RevokedInv, Next, NEW r \in Requests, At(r, "auth"), jobs'[r] \notin {jobs[r], None}
  PROVE  ~InSet(jobs[r].cred) /\ jobs[r].cred \notin retired
  <1>0. revoked \subseteq Jwts /\ retired \subseteq ApiIds
    BY DEF TypeInv, RevocationsOK, ApisOK, Pairs, Issued, Jwts, Created
  <1>1. CASE AuthJwt(r) /\ Goto(r, "work")
    <2> DEFINE t == jobs[r].cred
    <2>1. t \in Jwts
      BY <1>1 DEF AuthJwt
    <2>2. ~is_token_revoked(t)
      <3>1. jobs[r] \in Job /\ jobs' = [jobs EXCEPT ![r].pc = "work"]
        BY <1>1 DEF TypeInv, JobsOK, At, Goto
      <3>2. ~Answered(r)
        BY DEF Answered, TypeInv, JobsOK
      <3> QED
        BY <1>1, <3>2 DEF AuthJwt, Proceed
    <2>3. redis \in {"unset", "failed", "on", "lost"}
      BY DEF TypeInv, ClockOK
    <2>4. ~InSet(t)
      BY <2>2, <2>3 DEF is_token_revoked, InSet, RevokedInv
    <2>5. t \notin retired
      BY <1>0, <2>1, AccountsAssumption
    <2> QED
      BY <2>4, <2>5
  <1>2. CASE AuthApi(r) /\ Goto(r, "touch")
    <2> DEFINE t == jobs[r].cred
    <2>1. t \in ApiIds
      BY <1>2 DEF AuthApi
    <2>2. ~apis[t].revoked
      <3>1. ~Answered(r)
        BY DEF Answered, TypeInv, JobsOK
      <3> QED
        BY <1>2, <3>1 DEF AuthApi, Proceed
    <2>3. t \notin revoked
      BY <1>0, <2>1, AccountsAssumption
    <2> QED
      BY <2>2, <2>3 DEF InSet, RevokedInv
  <1> QED
    BY <1>1, <1>2, PassesByAuth

(* A JWT is let through only while no revocation of it is stored, whether  *)
(* Redis answers or not, and an API token never after its revocation was   *)
(* answered, whatever requests with it are under way.                      *)
(* (core/auth.py:90 "Fails closed", core/api_tokens.py:134)                *)
THEOREM RevokedCorrect == Spec => RevokedIsRefused
  <1>1. Init => RevokedInv
    BY DEF Init, RevokedInv
  <1>2. TypeInv /\ RevokedInv /\ [Next]_vars => RevokedInv'
    BY StepRevoked
  <1>3. TypeInv /\ RevokedInv /\ [Next]_vars =>
          [\A r \in Requests : At(r, "auth") /\ jobs[r]' \notin {jobs[r], None} =>
             ~InSet(jobs[r].cred) /\ jobs[r].cred \notin retired]_vars
    BY StepRefuses
  <1> QED
    BY <1>1, <1>2, <1>3, TypeInvCorrect, PTL DEF Spec, RevokedIsRefused

-----------------------------------------------------------------------------
(* History: messages and lists *)

\* What the program puts into a list: calls are the assistant's, results the
\* user's.
Chat ==
  {m \in Message : (m.role = "user" => m.uses = {}) /\ (m.role = "assistant" => m.results = {})}

Whole(l) == \A i \in DOMAIN l : Missing(l, i) = {}
Sound(l, c) ==
  /\ l \in Seq(Chat) /\ Whole(l)
  /\ \A i \in DOMAIN l : Orphaned(l, i) \subseteq c

\* A list whose last message calls tools that have not returned.
Calling(l, c) ==
  /\ l \in Seq(Chat) /\ l # <<>> /\ l[Len(l)].role = "assistant"
  /\ \A i \in DOMAIN l : i < Len(l) => Missing(l, i) = {}
  /\ \A i \in DOMAIN l : Orphaned(l, i) \subseteq c

LEMMA MessageForms ==
  /\ UserMessage \in Chat /\ AssistantText \in Chat
  /\ UserMessage.uses = {} /\ UserMessage.results = {} /\ UserMessage.role = "user"
  /\ AssistantText.uses = {} /\ AssistantText.results = {}
  /\ \A U \in SUBSET Ids : /\ Calls(U) \in Chat /\ Results(U) \in Chat
                           /\ Calls(U).uses = U /\ Calls(U).results = {}
                           /\ Calls(U).role = "assistant"
                           /\ Results(U).uses = {} /\ Results(U).results = U
                           /\ Results(U).role = "user"
BY DEF Chat, Message, UserMessage, AssistantText, Calls, Results

LEMMA ChatIsMessage == Chat \subseteq Message /\ \A l : l \in Seq(Chat) => l \in Seq(Message)
BY DEF Chat

LEMMA DanglingWhole ==
  ASSUME NEW l
  PROVE  Dangling(l) = {} <=> Whole(l)
BY DEF Dangling, Whole

LEMMA OrphansWithin ==
  ASSUME NEW l, NEW c
  PROVE  Orphans(l) \subseteq c <=> \A i \in DOMAIN l : Orphaned(l, i) \subseteq c
BY DEF Orphans

LEMMA SoundGrows ==
  ASSUME NEW l, NEW c, NEW d, c \subseteq d, Sound(l, c)
  PROVE  Sound(l, d)
BY DEF Sound

LEMMA EmptyIsSound == \A c : Sound(<<>>, c)
BY DEF Sound, Whole

LEMMA AppendFacts ==
  ASSUME NEW l \in Seq(Chat), NEW m \in Chat
  PROVE  LET k == Append(l, m) IN
         /\ k \in Seq(Chat) /\ Len(l) \in Nat /\ Len(k) = Len(l) + 1 /\ DOMAIN l = 1 .. Len(l)
         /\ DOMAIN k = 1 .. (Len(l) + 1)
         /\ k[Len(l) + 1] = m /\ \A i \in DOMAIN l : k[i] = l[i]
         /\ k # <<>>
OBVIOUS

LEMMA AppendPairs ==
  ASSUME NEW l \in Seq(Chat), NEW m \in Chat
  PROVE  LET k == Append(l, m) IN
         /\ \A i \in DOMAIN l : i < Len(l) => Missing(k, i) = Missing(l, i)
         /\ \A i \in DOMAIN l : Orphaned(k, i) = Orphaned(l, i)
         /\ Missing(k, Len(k)) = m.uses
         /\ \A i \in DOMAIN l : i = Len(l) =>
              Missing(k, i) = l[i].uses \ (IF m.role = "user" THEN m.results ELSE {})
         /\ Orphaned(k, Len(k)) = m.results \ (IF l = <<>> THEN {} ELSE l[Len(l)].uses)
<1> DEFINE k == Append(l, m)
<1>1. /\ k \in Seq(Chat) /\ Len(l) \in Nat /\ Len(k) = Len(l) + 1 /\ DOMAIN l = 1 .. Len(l)
      /\ DOMAIN k = 1 .. (Len(l) + 1)
      /\ k[Len(l) + 1] = m /\ \A i \in DOMAIN l : k[i] = l[i]
  BY AppendFacts
<1>2. l = <<>> <=> Len(l) = 0
  OBVIOUS
<1> HIDE DEF k
<1>3. \A i \in DOMAIN l : i < Len(l) => Missing(k, i) = Missing(l, i)
  BY <1>1 DEF Missing
<1>4. \A i \in DOMAIN l : Orphaned(k, i) = Orphaned(l, i)
  BY <1>1 DEF Orphaned
<1>5. Missing(k, Len(k)) = m.uses
  BY <1>1 DEF Missing
<1>6. \A i \in DOMAIN l : i = Len(l) =>
              Missing(k, i) = l[i].uses \ (IF m.role = "user" THEN m.results ELSE {})
  BY <1>1 DEF Missing
<1>7. Orphaned(k, Len(k)) = m.results \ (IF l = <<>> THEN {} ELSE l[Len(l)].uses)
  BY <1>1, <1>2 DEF Orphaned
<1> QED BY <1>3, <1>4, <1>5, <1>6, <1>7 DEF k

LEMMA AppendFollows ==
  ASSUME NEW l \in Seq(Chat), NEW m \in Chat, m.results = {}
  PROVE  LET k == Append(l, m) IN
         /\ \A i \in DOMAIN l : i < Len(l) => Missing(k, i) = Missing(l, i)
         /\ \A i \in DOMAIN l : Orphaned(k, i) = Orphaned(l, i)
         /\ Missing(k, Len(k)) = m.uses
         /\ \A i \in DOMAIN l : i = Len(l) => Missing(k, i) \subseteq l[i].uses
         /\ Orphaned(k, Len(k)) = {}
<1> DEFINE k == Append(l, m)
<1>1. /\ \A i \in DOMAIN l : i < Len(l) => Missing(k, i) = Missing(l, i)
      /\ \A i \in DOMAIN l : Orphaned(k, i) = Orphaned(l, i)
      /\ Missing(k, Len(k)) = m.uses
      /\ \A i \in DOMAIN l : i = Len(l) =>
           Missing(k, i) = l[i].uses \ (IF m.role = "user" THEN m.results ELSE {})
      /\ Orphaned(k, Len(k)) = m.results \ (IF l = <<>> THEN {} ELSE l[Len(l)].uses)
  BY AppendPairs
<1> HIDE DEF k
<1>2. Orphaned(k, Len(k)) = {}
  BY <1>1
<1>3. \A i \in DOMAIN l : i = Len(l) => Missing(k, i) \subseteq l[i].uses
  BY <1>1
<1> QED BY <1>1, <1>2, <1>3 DEF k

LEMMA AppendIsSound ==
  ASSUME NEW l, NEW c, Sound(l, c), NEW m \in Chat, m.uses = {}, m.results = {}
  PROVE  Sound(Append(l, m), c)
<1> DEFINE k == Append(l, m)
<1>1. l \in Seq(Chat)
  BY DEF Sound
<1>2. /\ \A i \in DOMAIN l : i < Len(l) => Missing(k, i) = Missing(l, i)
      /\ \A i \in DOMAIN l : Orphaned(k, i) = Orphaned(l, i)
      /\ Missing(k, Len(k)) = {}
      /\ \A i \in DOMAIN l : i = Len(l) => Missing(k, i) \subseteq l[i].uses
      /\ Orphaned(k, Len(k)) = {}
  BY <1>1, AppendFollows
<1>3. /\ k \in Seq(Chat) /\ Len(l) \in Nat /\ Len(k) = Len(l) + 1 /\ DOMAIN l = 1 .. Len(l)
      /\ DOMAIN k = 1 .. (Len(l) + 1)
  BY <1>1, AppendFacts
<1> HIDE DEF k
<1>4. \A i \in DOMAIN l : i = Len(l) => l[i].uses = {}
  <2>1. \A i \in DOMAIN l : i = Len(l) => Missing(l, i) = l[i].uses
    BY <1>3 DEF Missing
  <2> QED BY <2>1 DEF Sound, Whole
<1>5. \A i \in DOMAIN k : i = Len(k) \/ (i \in DOMAIN l /\ (i < Len(l) \/ i = Len(l)))
  BY <1>3
<1>6. Whole(k)
  BY <1>2, <1>4, <1>5 DEF Sound, Whole
<1>7. \A i \in DOMAIN k : Orphaned(k, i) \subseteq c
  BY <1>2, <1>5 DEF Sound
<1> QED BY <1>3, <1>6, <1>7 DEF Sound, k

LEMMA CallsAreCalling ==
  ASSUME NEW l, NEW c, Sound(l, c), NEW U \in SUBSET Ids
  PROVE  Calling(Append(l, Calls(U)), c)
<1> DEFINE m == Calls(U)
           k == Append(l, m)
<1>1. l \in Seq(Chat) /\ m \in Chat /\ m.results = {} /\ m.role = "assistant"
  BY MessageForms DEF Sound
<1> HIDE DEF m
<1>2. /\ \A i \in DOMAIN l : i < Len(l) => Missing(k, i) = Missing(l, i)
      /\ \A i \in DOMAIN l : Orphaned(k, i) = Orphaned(l, i)
      /\ \A i \in DOMAIN l : i = Len(l) => Missing(k, i) \subseteq l[i].uses
      /\ Orphaned(k, Len(k)) = {}
  BY <1>1, AppendFollows
<1>3. /\ k \in Seq(Chat) /\ Len(l) \in Nat /\ Len(k) = Len(l) + 1 /\ DOMAIN l = 1 .. Len(l)
      /\ DOMAIN k = 1 .. (Len(l) + 1) /\ k # <<>> /\ k[Len(k)] = m
  BY <1>1, AppendFacts
<1> HIDE DEF k
<1>4. \A i \in DOMAIN l : i = Len(l) => l[i].uses = {}
  <2>1. \A i \in DOMAIN l : i = Len(l) => Missing(l, i) = l[i].uses
    BY <1>3 DEF Missing
  <2> QED BY <2>1 DEF Sound, Whole
<1>5. \A i \in DOMAIN k : i = Len(k) \/ (i \in DOMAIN l /\ (i < Len(l) \/ i = Len(l)))
  BY <1>3
<1>6. \A i \in DOMAIN k : i < Len(k) => Missing(k, i) = {}
  BY <1>2, <1>3, <1>4, <1>5 DEF Sound, Whole
<1>7. \A i \in DOMAIN k : Orphaned(k, i) \subseteq c
  BY <1>2, <1>5 DEF Sound
<1> QED BY <1>1, <1>3, <1>6, <1>7 DEF Calling, k, m

LEMMA ResultsAreSound ==
  ASSUME NEW l, NEW c, Calling(l, c)
  PROVE  Sound(Append(l, Results(l[Len(l)].uses)), c)
<1> DEFINE m == Results(l[Len(l)].uses)
           k == Append(l, m)
<1>1. l \in Seq(Chat) /\ Len(l) \in DOMAIN l /\ l[Len(l)].uses \in SUBSET Ids /\ l # <<>>
  BY DEF Calling, Chat, Message
<1>2. m \in Chat /\ m.uses = {} /\ m.results = l[Len(l)].uses /\ m.role = "user"
  BY <1>1, MessageForms
<1> HIDE DEF m
<1>3. /\ \A i \in DOMAIN l : i < Len(l) => Missing(k, i) = Missing(l, i)
      /\ \A i \in DOMAIN l : Orphaned(k, i) = Orphaned(l, i)
      /\ Missing(k, Len(k)) = {}
      /\ \A i \in DOMAIN l : i = Len(l) => Missing(k, i) = {}
      /\ Orphaned(k, Len(k)) = {}
  BY <1>1, <1>2, AppendPairs
<1>4. /\ k \in Seq(Chat) /\ Len(l) \in Nat /\ Len(k) = Len(l) + 1 /\ DOMAIN l = 1 .. Len(l)
      /\ DOMAIN k = 1 .. (Len(l) + 1)
  BY <1>1, <1>2, AppendFacts
<1> HIDE DEF k
<1>5. \A i \in DOMAIN k : i = Len(k) \/ (i \in DOMAIN l /\ (i < Len(l) \/ i = Len(l)))
  BY <1>4
<1> QED BY <1>3, <1>4, <1>5 DEF Sound, Whole, Calling, k, m

LEMMA LeastExists ==
  ASSUME NEW T \in SUBSET Nat, T # {}
  PROVE  \E x \in T : \A y \in T : x <= y
<1>1. PICK x \in T : \A y \in T : ~ (<<y, x>> \in OpToRel(<, Nat))
  BY NatLessThanWellFounded, WFMin
<1>2. \A y \in T : ~(y < x)
  BY <1>1 DEF OpToRel
<1> QED BY <1>2

LEMMA GreatestExists ==
  ASSUME NEW n \in Nat, NEW T \in SUBSET (0 .. n), T # {}
  PROVE  \E x \in T : \A y \in T : y <= x
<1> DEFINE S == {n - t : t \in T}
<1>1. S \in SUBSET Nat /\ S # {}
  <2>1. \A t \in T : n - t \in Nat
    OBVIOUS
  <2> QED BY <2>1
<1>2. PICK m \in S : \A y \in S : m <= y
  BY <1>1, LeastExists
<1>3. PICK x \in T : m = n - x
  OBVIOUS
<1>4. \A y \in T : y <= x
  <2> TAKE y \in T
  <2>1. m <= n - y
    BY <1>2
  <2> QED BY <2>1, <1>3
<1> QED BY <1>4

LEMMA PrefixFacts ==
  ASSUME NEW l \in Seq(Chat), NEW n \in DOMAIN l
  PROVE  LET k == SubSeq(l, 1, n) IN
         /\ k \in Seq(Chat) /\ Len(k) = n /\ DOMAIN k = 1 .. n /\ n \in Nat /\ n <= Len(l)
         /\ k # <<>> /\ \A i \in 1 .. n : k[i] = l[i]
OBVIOUS

LEMMA PopIsSound ==
  ASSUME NEW l, NEW c, Sound(l, c)
  PROVE  /\ Sound(pop_to_user(l), c)
         /\ l # <<>> /\ l[Len(l)].role = "user" => pop_to_user(l) = l
<1> DEFINE users == {i \in DOMAIN l : l[i].role = "user"}
           n == CHOOSE i \in users : \A j \in users : j <= i
           k == SubSeq(l, 1, n)
<1>1. l \in Seq(Chat) /\ Len(l) \in Nat /\ DOMAIN l = 1 .. Len(l)
  BY DEF Sound
<1>2. CASE users = {}
  <2>1. pop_to_user(l) = <<>>
    BY <1>2 DEF pop_to_user
  <2>2. ~(l # <<>> /\ l[Len(l)].role = "user")
    BY <1>1, <1>2
  <2> QED BY <2>1, <2>2, EmptyIsSound
<1>3. CASE users # {}
  <2>1. \E i \in users : \A j \in users : j <= i
    <3>1. users \in SUBSET (0 .. Len(l))
      BY <1>1
    <3> HIDE DEF users
    <3> QED BY <1>1, <1>3, <3>1, GreatestExists
  <2>2. n \in users /\ \A j \in users : j <= n
    <3> HIDE DEF users
    <3> QED BY <2>1
  <2>3. n \in DOMAIN l /\ l[n].role = "user" /\ (\A j \in users : j <= n)
    <3> HIDE DEF n
    <3> QED BY <2>2
  <2>4. pop_to_user(l) = k
    BY <1>3 DEF pop_to_user
  <2> HIDE DEF n
  <2>5. /\ k \in Seq(Chat) /\ Len(k) = n /\ DOMAIN k = 1 .. n /\ n \in Nat /\ n <= Len(l)
        /\ k # <<>> /\ \A i \in 1 .. n : k[i] = l[i]
    BY <1>1, <2>3, PrefixFacts
  <2>6. l[Len(l)].role = "user" => k = l
    <3> SUFFICES ASSUME l[Len(l)].role = "user" PROVE k = l
      OBVIOUS
    <3>1. Len(l) \in users
      BY <1>1, <2>3
    <3>2. n = Len(l)
      BY <1>1, <2>3, <2>5, <3>1
    <3> QED BY <1>1, <3>2
  <2> HIDE DEF k
  <2>7. \A i \in 1 .. n : Missing(k, i) = {}
    <3> TAKE i \in 1 .. n
    <3>1. CASE i < n
      <4>1. Missing(k, i) = Missing(l, i)
        BY <1>1, <2>3, <2>5, <3>1 DEF Missing
      <4> QED BY <1>1, <2>3, <4>1 DEF Sound, Whole
    <3>2. CASE i = n
      <4>1. l[n].uses = {}
        BY <1>1, <2>3 DEF Chat
      <4> QED BY <2>5, <3>2, <4>1 DEF Missing
    <3> QED BY <2>5, <3>1, <3>2
  <2>8. \A i \in 1 .. n : Orphaned(k, i) = Orphaned(l, i)
    BY <1>1, <2>3, <2>5 DEF Orphaned
  <2>9. Sound(k, c)
    BY <1>1, <2>3, <2>5, <2>7, <2>8 DEF Sound, Whole
  <2> QED BY <2>4, <2>6, <2>9
<1> QED BY <1>2, <1>3

LEMMA TailFacts ==
  ASSUME NEW l \in Seq(Chat), NEW s \in DOMAIN l
  PROVE  LET k == SubSeq(l, s, Len(l)) IN
         /\ k \in Seq(Chat) /\ Len(k) = Len(l) - s + 1 /\ Len(l) \in Nat
         /\ DOMAIN k = 1 .. (Len(l) - s + 1) /\ DOMAIN l = 1 .. Len(l) /\ s \in Nat
         /\ \A i \in 1 .. (Len(l) - s + 1) : k[i] = l[s + i - 1]
OBVIOUS

LEMMA ConcatFacts ==
  ASSUME NEW h \in Seq(Chat), NEW t \in Seq(Chat)
  PROVE  LET k == h \o t IN
         /\ k \in Seq(Chat) /\ Len(h) \in Nat /\ Len(t) \in Nat
         /\ Len(k) = Len(h) + Len(t) /\ DOMAIN k = 1 .. (Len(h) + Len(t))
         /\ DOMAIN h = 1 .. Len(h)
         /\ \A i \in 1 .. Len(h) : k[i] = h[i]
         /\ \A i \in Len(h) + 1 .. Len(h) + Len(t) : k[i] = t[i - Len(h)]
<1> DEFINE k == h \o t
<1>1. k \in Seq(Chat) /\ Len(h) \in Nat /\ Len(t) \in Nat /\ DOMAIN h = 1 .. Len(h)
  OBVIOUS
<1>2. Len(k) = Len(h) + Len(t)
  OBVIOUS
<1>3. DOMAIN k = 1 .. Len(k)
  <2> HIDE DEF k
  <2> QED BY <1>1
<1>4. \A i \in 1 .. Len(h) : k[i] = h[i]
  OBVIOUS
<1>5. \A i \in Len(h) + 1 .. Len(h) + Len(t) : k[i] = t[i - Len(h)]
  OBVIOUS
<1> HIDE DEF k
<1> QED BY <1>1, <1>2, <1>3, <1>4, <1>5 DEF k

\* Text only.
Plain(h) == h \in Seq(Chat) /\ Len(h) > 0 /\ \A i \in DOMAIN h : h[i].uses = {} /\ h[i].results = {}

\* A tail behind messages without tool calls and results: nothing is missing,
\* and only its first message can answer what is no longer there.
LEMMA TailPairs ==
  ASSUME NEW l, NEW c, Sound(l, c), NEW s \in DOMAIN l, NEW h, Plain(h)
  PROVE  LET k == h \o SubSeq(l, s, Len(l)) IN
         /\ k \in Seq(Chat) /\ Whole(k)
         /\ \A i \in DOMAIN k : i # Len(h) + 1 => Orphaned(k, i) \subseteq c
         /\ Orphaned(k, Len(h) + 1) = l[s].results
<1> DEFINE t == SubSeq(l, s, Len(l))
           k == h \o t
<1>1. l \in Seq(Chat)
  BY DEF Sound
<1>head. /\ h \in Seq(Chat) /\ Len(h) > 0
      /\ \A i \in DOMAIN h : h[i].uses = {} /\ h[i].results = {}
  BY DEF Plain
<1>2. /\ t \in Seq(Chat) /\ Len(t) = Len(l) - s + 1 /\ Len(l) \in Nat
      /\ DOMAIN l = 1 .. Len(l) /\ s \in Nat
      /\ \A i \in 1 .. (Len(l) - s + 1) : t[i] = l[s + i - 1]
  BY <1>1, TailFacts
<1> HIDE DEF t
<1>3. /\ k \in Seq(Chat) /\ Len(h) \in Nat /\ Len(t) \in Nat
      /\ Len(k) = Len(h) + Len(t) /\ DOMAIN k = 1 .. (Len(h) + Len(t))
      /\ DOMAIN h = 1 .. Len(h)
      /\ \A i \in 1 .. Len(h) : k[i] = h[i]
      /\ \A i \in Len(h) + 1 .. Len(h) + Len(t) : k[i] = t[i - Len(h)]
  BY <1>head, <1>2, ConcatFacts
<1> HIDE DEF k
<1> DEFINE a == Len(h)
           b == Len(k)
           d == s - 1 - a
<1>4. /\ a \in Nat \ {0} /\ b \in Nat /\ d \in Int /\ a < b /\ b + d = Len(l)
      /\ DOMAIN k = 1 .. b /\ DOMAIN h = 1 .. a /\ a + 1 + d = s
  <2>1. a \in Nat /\ a # 0 /\ Len(t) \in Nat /\ Len(t) > 0
    BY <1>head, <1>2, <1>3
  <2>2. b = a + Len(t)
    BY <1>3
  <2> QED BY <1>2, <1>3, <2>1, <2>2
<1>5. /\ \A i \in 1 .. a : k[i] = h[i]
      /\ \A i \in a + 1 .. b : k[i] = l[i + d] /\ i + d \in DOMAIN l
  <2>1. \A i \in a + 1 .. b : /\ i - Len(h) \in 1 .. (Len(l) - s + 1)
                              /\ i - Len(h) + Len(h) = i
                              /\ s + (i - Len(h)) - 1 = i + d /\ i + d \in DOMAIN l
    <3> TAKE i \in a + 1 .. b
    <3>1. i \in Int /\ Len(h) + 1 <= i /\ i <= Len(h) + Len(t)
      BY <1>2, <1>3
    <3>2. i - Len(h) >= 1 /\ i - Len(h) <= Len(l) - s + 1
      BY <1>2, <1>3, <3>1
    <3>3. s + (i - Len(h)) - 1 = i + d
      BY <1>2, <1>3, <3>1
    <3>4. i - Len(h) \in Int /\ i - Len(h) + Len(h) = i
      BY <1>3, <3>1
    <3>5. i + d \in DOMAIN l
      BY <1>2, <1>3, <3>1, <3>2, <3>3
    <3> QED BY <1>2, <3>2, <3>3, <3>4, <3>5
  <2> QED BY <1>2, <1>3, <2>1
<1> HIDE DEF d, a, b
<1>6. \A i \in 1 .. a : Missing(k, i) = {} /\ Orphaned(k, i) = {}
  <2>1. \A i \in 1 .. a : k[i].uses = {} /\ k[i].results = {}
    BY <1>head, <1>4, <1>5
  <2> QED BY <2>1 DEF Missing, Orphaned
<1>7. \A i \in a + 1 .. b : Missing(k, i) = {}
  <2> TAKE i \in a + 1 .. b
  <2>same. k[i] = l[i + d] /\ i + d \in DOMAIN l
    BY <1>5
  <2>1. k[i] = l[i + d] /\ i + d \in DOMAIN l /\ i \in Nat /\ i + d \in Nat
    BY <1>2, <1>4, <2>same
  <2>2. i < b <=> i + d < Len(l)
    BY <1>4, <2>1
  <2>3. i < b => k[i + 1] = l[(i + d) + 1]
    <3> SUFFICES ASSUME i < b PROVE k[i + 1] = l[(i + d) + 1]
      OBVIOUS
    <3>1. i + 1 \in a + 1 .. b /\ (i + 1) + d = (i + d) + 1
      BY <1>4
    <3> QED BY <1>5, <3>1
  <2>4. Missing(k, i) = Missing(l, i + d)
    BY <2>1, <2>2, <2>3 DEF Missing, b
  <2> QED BY <2>1, <2>4 DEF Sound, Whole
<1>8. \A i \in a + 2 .. b : Orphaned(k, i) = Orphaned(l, i + d) /\ i + d \in DOMAIN l
  <2> TAKE i \in a + 2 .. b
  <2>1. k[i] = l[i + d] /\ i + d \in DOMAIN l /\ i # 1 /\ i + d # 1
    BY <1>2, <1>4, <1>5
  <2>2. k[i - 1] = l[(i + d) - 1]
    <3>1. i - 1 \in a + 1 .. b /\ (i - 1) + d = (i + d) - 1
      BY <1>4
    <3> QED BY <1>5, <3>1
  <2> QED BY <2>1, <2>2 DEF Orphaned
<1>9. Orphaned(k, a + 1) = l[s].results
  <2>1. k[a + 1] = l[s]
    BY <1>4, <1>5
  <2>2. k[(a + 1) - 1].uses = {} /\ a + 1 # 1
    <3>1. (a + 1) - 1 = a /\ a \in 1 .. a /\ a + 1 # 1
      BY <1>4
    <3> QED BY <1>head, <1>4, <1>5, <3>1
  <2> QED BY <2>1, <2>2 DEF Orphaned
<1>10. \A i \in DOMAIN k : i \in 1 .. a \/ i = a + 1 \/ i \in a + 2 .. b
  BY <1>4
<1>11. Whole(k)
  <2>1. \A i \in DOMAIN k : i \in 1 .. a \/ i \in a + 1 .. b
    BY <1>4
  <2> QED BY <1>6, <1>7, <2>1 DEF Whole
<1>12. \A i \in DOMAIN k : i # a + 1 => Orphaned(k, i) \subseteq c
  BY <1>6, <1>8, <1>10 DEF Sound
<1> QED BY <1>3, <1>9, <1>11, <1>12 DEF k, t, a

LEMMA CompressIsSound ==
  ASSUME NEW l, NEW c, Sound(l, c), Compressible(l)
  PROVE  Sound(compress(l), c)
<1> DEFINE s == CHOOSE i \in boundaries(l) : \A j \in boundaries(l) : i <= j
           h == <<UserMessage, AssistantText>>
           k == h \o SubSeq(l, s, Len(l))
<1>1. l \in Seq(Chat) /\ Len(l) \in Nat /\ DOMAIN l = 1 .. Len(l)
  BY DEF Sound
<1>2. boundaries(l) \subseteq DOMAIN l /\ boundaries(l) # {}
      /\ \A i \in boundaries(l) : l[i].results = {}
  BY <1>1, ConstantsAssumption DEF Compressible, boundaries, starts_with_tool_result
<1>3. \E i \in boundaries(l) : \A j \in boundaries(l) : i <= j
  <2>1. boundaries(l) \in SUBSET Nat
    BY <1>1, <1>2
  <2> QED BY <1>2, <2>1, LeastExists
<1>4. s \in boundaries(l)
  BY <1>3
<1>5. s \in DOMAIN l /\ l[s].results = {}
  BY <1>2, <1>4
<1>6. compress(l) = k
  BY DEF compress
<1> HIDE DEF s
<1>7. h \in Seq(Chat) /\ Len(h) = 2 /\ Len(h) > 0
      /\ \A i \in DOMAIN h : h[i].uses = {} /\ h[i].results = {}
  <2>1. h \in Seq(Chat) /\ Len(h) = 2 /\ DOMAIN h = 1 .. 2
        /\ h[1] = UserMessage /\ h[2] = AssistantText
    <3> UserMessage \in Chat /\ AssistantText \in Chat
      BY MessageForms
    <3> QED OBVIOUS
  <2>2. \A i \in DOMAIN h : h[i] = UserMessage \/ h[i] = AssistantText
    BY <2>1
  <2> QED BY <2>1, <2>2, MessageForms
<1> HIDE DEF h
<1>plain. Plain(h)
  BY <1>7 DEF Plain
<1>8. /\ k \in Seq(Chat) /\ Whole(k)
      /\ \A i \in DOMAIN k : i # Len(h) + 1 => Orphaned(k, i) \subseteq c
      /\ Orphaned(k, Len(h) + 1) = l[s].results
  <2>1. s \in DOMAIN l
    BY <1>5
  <2> HIDE DEF k
  <2> QED BY <1>plain, <2>1, TailPairs DEF k
<1> HIDE DEF k
<1>9. \A i \in DOMAIN k : Orphaned(k, i) \subseteq c
  BY <1>5, <1>8
<1> QED BY <1>6, <1>8, <1>9 DEF Sound

\* A summary's list may begin with results whose calls it dropped, and with
\* nothing worse.
LEMMA SummaryIsSound ==
  ASSUME NEW l, NEW c, Sound(l, c)
  PROVE  LET k == <<UserMessage>> \o LastN(l, SummaryKeep) IN
         Sound(k, c \cup Orphans(k)) /\ Orphans(k) \subseteq Ids
<1> DEFINE h == <<UserMessage>>
           k == h \o LastN(l, SummaryKeep)
           s == IF Len(l) <= SummaryKeep THEN 1 ELSE Len(l) - SummaryKeep + 1
<1>1. l \in Seq(Chat) /\ Len(l) \in Nat /\ DOMAIN l = 1 .. Len(l)
  BY DEF Sound
<1>2. h \in Seq(Chat) /\ Len(h) = 1 /\ Len(h) > 0
      /\ \A i \in DOMAIN h : h[i].uses = {} /\ h[i].results = {}
  BY MessageForms
<1>plain. Plain(h)
  BY <1>2 DEF Plain
<1>3. k \in Seq(Chat) /\ Whole(k)
  <2>1. CASE l = <<>>
    <3>1. LastN(l, SummaryKeep) = <<>>
      BY <2>1, ConstantsAssumption DEF LastN
    <3>2. k = Append(<<>>, UserMessage)
      <4>1. h \o <<>> = h
        BY <1>2
      <4>2. Append(<<>>, UserMessage) = h
        OBVIOUS
      <4> QED BY <3>1, <4>1, <4>2
    <3>3. Sound(Append(<<>>, UserMessage), c)
      BY EmptyIsSound, AppendIsSound, MessageForms
    <3> HIDE DEF k
    <3> QED BY <3>2, <3>3 DEF Sound
  <2>2. CASE l # <<>>
    <3>1. s \in DOMAIN l
      BY <1>1, <2>2, ConstantsAssumption
    <3>2. LastN(l, SummaryKeep) = SubSeq(l, s, Len(l))
      <4>1. SubSeq(l, 1, Len(l)) = l
        BY <1>1
      <4> QED BY <4>1 DEF LastN
    <3> HIDE DEF s, h
    <3>3. k \in Seq(Chat) /\ Whole(k)
      BY <1>plain, <3>1, <3>2, TailPairs
    <3> QED BY <3>3
  <2> QED BY <2>1, <2>2
<1> HIDE DEF k
<1>4. \A i \in DOMAIN k : Orphaned(k, i) \subseteq Orphans(k) /\ Orphaned(k, i) \subseteq Ids
  <2>1. \A i \in DOMAIN k : k[i] \in Message
    BY <1>3 DEF Chat
  <2>2. \A i \in DOMAIN k : k[i].results \subseteq Ids
    BY <2>1 DEF Message
  <2> QED BY <2>2 DEF Orphans, Orphaned
<1>5. Orphans(k) \subseteq Ids
  BY <1>4, OrphansWithin
<1>6. Sound(k, c \cup Orphans(k))
  BY <1>3, <1>4 DEF Sound
<1> QED BY <1>5, <1>6 DEF k

\* A whole list needs no repair.
LEMMA RepairKeepsWhole ==
  ASSUME NEW l \in Seq(Chat), Whole(l)
  PROVE  repair_tool_use_pairs(l) = l
<1> DEFINE Put(i) == IF i > 1 /\ l[i].role = "user"
                     THEN [l[i] EXCEPT !.results = @ \cup Missing(l, i - 1)] ELSE l[i]
           needing == {i \in DOMAIN l : Missing(l, i) # {} /\ ~(i < Len(l) /\ l[i + 1].role = "user")}
           Place(i) == i + Cardinality({j \in needing : j < i})
           k == [k \in 1 .. Len(l) + Cardinality(needing) |->
                  IF \E i \in DOMAIN l : Place(i) = k
                  THEN Put(CHOOSE i \in DOMAIN l : Place(i) = k)
                  ELSE Results(Missing(l, CHOOSE i \in needing : Place(i) = k - 1))]
<1>repair. repair_tool_use_pairs(l) = k
  BY DEF repair_tool_use_pairs
<1>1. Len(l) \in Nat /\ DOMAIN l = 1 .. Len(l) /\ l = [i \in 1 .. Len(l) |-> l[i]]
  OBVIOUS
<1>2. needing = {}
  BY DEF Whole
<1>3. Cardinality(needing) = 0
  BY <1>2, FS_EmptySet
<1>4. \A i \in DOMAIN l : Place(i) = i
  <2> TAKE i \in DOMAIN l
  <2>1. {j \in needing : j < i} = {}
    BY <1>2
  <2> QED BY <1>1, <2>1, FS_EmptySet
<1>5. \A i \in DOMAIN l : Put(i) = l[i]
  <2> TAKE i \in DOMAIN l
  <2>1. l[i] \in Message
    BY <1>1 DEF Chat
  <2>2. i > 1 => Missing(l, i - 1) = {}
    BY <1>1 DEF Whole
  <2>3. [l[i] EXCEPT !.results = @ \cup {}] = l[i]
    BY <2>1 DEF Message
  <2> QED BY <2>2, <2>3
<1> HIDE DEF Put, needing, Place
<1>6. \A j \in DOMAIN l : (CHOOSE i \in DOMAIN l : Place(i) = j) = j
  <2> TAKE j \in DOMAIN l
  <2>1. \A i \in DOMAIN l : Place(i) = j <=> i = j
    BY <1>4
  <2>2. \E i \in DOMAIN l : Place(i) = j
    BY <2>1
  <2> QED BY <2>1, <2>2
<1>7. Len(l) + Cardinality(needing) = Len(l)
  BY <1>1, <1>3
<1>8. DOMAIN k = DOMAIN l /\ \A j \in DOMAIN l : k[j] = l[j]
  BY <1>1, <1>4, <1>5, <1>6, <1>7
<1>9. k = [j \in DOMAIN k |-> k[j]]
  OBVIOUS
<1> HIDE DEF k
<1>10. k = l
  BY <1>1, <1>8, <1>9
<1> QED BY <1>repair, <1>10

\* The repair of any list: the places its messages move to, and what is put
\* between them.
Needing(l) ==
  {i \in DOMAIN l : Missing(l, i) # {} /\ ~(i < Len(l) /\ l[i + 1].role = "user")}
Before(l, i) == {j \in Needing(l) : j < i}
PlaceOf(l, i) == i + Cardinality(Before(l, i))
Mended(l, i) == IF i > 1 /\ l[i].role = "user"
                THEN [l[i] EXCEPT !.results = @ \cup Missing(l, i - 1)] ELSE l[i]

LEMMA RepairForm ==
  ASSUME NEW l
  PROVE  repair_tool_use_pairs(l) =
           [k \in 1 .. Len(l) + Cardinality(Needing(l)) |->
              IF \E i \in DOMAIN l : PlaceOf(l, i) = k
              THEN Mended(l, CHOOSE i \in DOMAIN l : PlaceOf(l, i) = k)
              ELSE Results(Missing(l, CHOOSE i \in Needing(l) : PlaceOf(l, i) = k - 1))]
BY DEF repair_tool_use_pairs, Needing, Before, PlaceOf, Mended

LEMMA NeedingIsFinite ==
  ASSUME NEW l \in Seq(Chat)
  PROVE  /\ Len(l) \in Nat /\ DOMAIN l = 1 .. Len(l) /\ Needing(l) \subseteq DOMAIN l
         /\ IsFiniteSet(Needing(l)) /\ Cardinality(Needing(l)) \in Nat
         /\ \A i : IsFiniteSet(Before(l, i)) /\ Cardinality(Before(l, i)) \in Nat
<1>1. Len(l) \in Nat /\ DOMAIN l = 1 .. Len(l)
  OBVIOUS
<1>2. Needing(l) \subseteq 1 .. Len(l) /\ \A i : Before(l, i) \subseteq Needing(l)
  BY <1>1 DEF Needing, Before
<1>3. IsFiniteSet(1 .. Len(l))
  BY <1>1, FS_Interval
<1>4. IsFiniteSet(Needing(l))
  BY <1>2, <1>3, FS_Subset
<1>5. \A i : IsFiniteSet(Before(l, i))
  BY <1>2, <1>4, FS_Subset
<1> QED BY <1>1, <1>2, <1>4, <1>5, FS_CardinalityType

LEMMA PlacesStep ==
  ASSUME NEW l \in Seq(Chat), NEW i \in DOMAIN l
  PROVE  PlaceOf(l, i + 1) = PlaceOf(l, i) + (IF i \in Needing(l) THEN 2 ELSE 1)
<1> DEFINE B == Before(l, i)
<1>1. /\ i \in Nat /\ IsFiniteSet(B) /\ Cardinality(B) \in Nat /\ i \notin B
      /\ Needing(l) \subseteq Nat
  <2>1. /\ Len(l) \in Nat /\ DOMAIN l = 1 .. Len(l) /\ Needing(l) \subseteq DOMAIN l
        /\ IsFiniteSet(B) /\ Cardinality(B) \in Nat
    BY NeedingIsFinite
  <2>2. i \in Nat /\ Needing(l) \subseteq Nat
    BY <2>1
  <2>3. i \notin B
    BY <2>2 DEF Before
  <2> QED BY <2>1, <2>2, <2>3
<1>2. Before(l, i + 1) = B \cup (IF i \in Needing(l) THEN {i} ELSE {})
  BY <1>1 DEF Before
<1>3. CASE i \in Needing(l)
  <2>1. Before(l, i + 1) = B \cup {i}
    BY <1>2, <1>3
  <2> HIDE DEF B
  <2>2. Cardinality(B \cup {i}) = Cardinality(B) + 1
    BY <1>1, FS_AddElement
  <2>3. PlaceOf(l, i + 1) = (i + 1) + Cardinality(B \cup {i})
    BY <2>1 DEF PlaceOf
  <2>4. PlaceOf(l, i) = i + Cardinality(B)
    BY DEF PlaceOf, B
  <2> QED BY <1>1, <1>3, <2>2, <2>3, <2>4
<1>4. CASE i \notin Needing(l)
  <2>1. Before(l, i + 1) = B
    BY <1>2, <1>4
  <2> QED BY <1>1, <1>4, <2>1 DEF PlaceOf
<1> QED BY <1>3, <1>4

LEMMA PlacesRange ==
  ASSUME NEW l \in Seq(Chat)
  PROVE  /\ \A i \in 1 .. Len(l) + 1 : PlaceOf(l, i) \in Nat
         /\ PlaceOf(l, 1) = 1
         /\ PlaceOf(l, Len(l) + 1) = Len(l) + 1 + Cardinality(Needing(l))
         /\ \A i, j \in 1 .. Len(l) + 1 : i < j => PlaceOf(l, i) < PlaceOf(l, j)
<1>1. /\ Len(l) \in Nat /\ DOMAIN l = 1 .. Len(l) /\ Needing(l) \subseteq 1 .. Len(l)
      /\ IsFiniteSet(Needing(l)) /\ Cardinality(Needing(l)) \in Nat
      /\ \A i : IsFiniteSet(Before(l, i)) /\ Cardinality(Before(l, i)) \in Nat
  BY NeedingIsFinite
<1>2. \A i \in 1 .. Len(l) + 1 : PlaceOf(l, i) \in Nat
  BY <1>1 DEF PlaceOf
<1>3. PlaceOf(l, 1) = 1
  <2>1. Before(l, 1) = {}
    BY <1>1 DEF Before
  <2> QED BY <2>1, FS_EmptySet DEF PlaceOf
<1>4. PlaceOf(l, Len(l) + 1) = Len(l) + 1 + Cardinality(Needing(l))
  <2>1. Before(l, Len(l) + 1) = Needing(l)
    BY <1>1 DEF Before
  <2> QED BY <2>1 DEF PlaceOf
<1>5. ASSUME NEW i \in 1 .. Len(l) + 1, NEW j \in 1 .. Len(l) + 1, i < j
      PROVE  PlaceOf(l, i) < PlaceOf(l, j)
  <2>1. Before(l, i) \subseteq Before(l, j)
    BY <1>1, <1>5 DEF Before
  <2>2. Cardinality(Before(l, i)) <= Cardinality(Before(l, j))
    BY <1>1, <2>1, FS_Subset
  <2> QED BY <1>1, <1>5, <2>2 DEF PlaceOf
<1> QED BY <1>2, <1>3, <1>4, <1>5

\* Every place is one a message moved to, or the one behind a message whose
\* results are inserted there, and no two of these are the same.
LEMMA PlacesCover ==
  ASSUME NEW l \in Seq(Chat), NEW k \in 1 .. Len(l) + Cardinality(Needing(l))
  PROVE  \E i \in DOMAIN l : k = PlaceOf(l, i) \/ (i \in Needing(l) /\ k = PlaceOf(l, i) + 1)
<1> DEFINE T == {i \in DOMAIN l : PlaceOf(l, i) <= k}
           N == Cardinality(Needing(l))
<1>1. /\ Len(l) \in Nat /\ DOMAIN l = 1 .. Len(l) /\ Needing(l) \subseteq DOMAIN l /\ N \in Nat
  BY NeedingIsFinite
<1>2. /\ \A i \in 1 .. Len(l) + 1 : PlaceOf(l, i) \in Nat
      /\ PlaceOf(l, 1) = 1 /\ PlaceOf(l, Len(l) + 1) = Len(l) + 1 + N
  BY PlacesRange
<1>3. k \in Nat /\ 1 <= k /\ k <= Len(l) + N
  BY <1>1
<1>4. Len(l) # 0
  <2> SUFFICES ASSUME Len(l) = 0 PROVE FALSE
    OBVIOUS
  <2>1. Needing(l) = {}
    BY <1>1
  <2>2. N = 0
    BY <2>1, FS_EmptySet
  <2> QED BY <1>3, <2>2
<1>5. T \subseteq 0 .. Len(l) /\ T # {}
  <2>1. 1 \in T
    BY <1>1, <1>2, <1>3, <1>4
  <2> QED BY <1>1, <2>1
<1>6. PICK i \in T : \A j \in T : j <= i
  <2> HIDE DEF T
  <2> QED BY <1>1, <1>5, GreatestExists
<1>7. i \in DOMAIN l /\ PlaceOf(l, i) <= k /\ i \in Nat /\ i <= Len(l) /\ PlaceOf(l, i) \in Nat
  BY <1>1, <1>2, <1>6
<1>8. k < PlaceOf(l, i + 1)
  <2>1. CASE i = Len(l)
    BY <1>1, <1>2, <1>3, <2>1
  <2>2. CASE i < Len(l)
    <3>1. i + 1 \in DOMAIN l /\ ~(i + 1 <= i) /\ PlaceOf(l, i + 1) \in Nat
      BY <1>1, <1>2, <1>7, <2>2
    <3>2. ~(PlaceOf(l, i + 1) <= k)
      BY <1>6, <3>1
    <3> QED BY <1>3, <3>1, <3>2
  <2> QED BY <1>1, <1>7, <2>1, <2>2
<1>9. PlaceOf(l, i + 1) = PlaceOf(l, i) + (IF i \in Needing(l) THEN 2 ELSE 1)
  BY <1>7, PlacesStep
<1>10. k = PlaceOf(l, i) \/ (i \in Needing(l) /\ k = PlaceOf(l, i) + 1)
  BY <1>3, <1>7, <1>8, <1>9
<1> QED BY <1>7, <1>10

LEMMA PlacesDiffer ==
  ASSUME NEW l \in Seq(Chat), NEW i \in DOMAIN l
  PROVE  /\ PlaceOf(l, i) \in 1 .. Len(l) + Cardinality(Needing(l))
         /\ \A j \in DOMAIN l : PlaceOf(l, j) = PlaceOf(l, i) => j = i
         /\ i \in Needing(l) =>
              /\ PlaceOf(l, i) + 1 \in 1 .. Len(l) + Cardinality(Needing(l))
              /\ \A j \in DOMAIN l : PlaceOf(l, j) # PlaceOf(l, i) + 1
<1> DEFINE N == Cardinality(Needing(l))
           P(j) == PlaceOf(l, j)
<1>1. /\ Len(l) \in Nat /\ DOMAIN l = 1 .. Len(l) /\ N \in Nat
  BY NeedingIsFinite
<1>2. /\ \A j \in 1 .. Len(l) + 1 : P(j) \in Nat
      /\ P(1) = 1 /\ P(Len(l) + 1) = Len(l) + 1 + N
      /\ \A j, m \in 1 .. Len(l) + 1 : j < m => P(j) < P(m)
  BY PlacesRange
<1>3. i \in Nat /\ 1 <= i /\ i <= Len(l) /\ i + 1 \in 1 .. Len(l) + 1 /\ i \in 1 .. Len(l) + 1
      /\ 1 \in 1 .. Len(l) + 1 /\ Len(l) + 1 \in 1 .. Len(l) + 1
  BY <1>1
<1>4. P(i + 1) = P(i) + (IF i \in Needing(l) THEN 2 ELSE 1)
  BY PlacesStep
<1> HIDE DEF N, P
<1>5. P(i) >= 1 /\ P(i + 1) <= Len(l) + 1 + N
  <2>1. i = 1 \/ 1 < i
    BY <1>3
  <2>2. P(i) >= 1
    BY <1>2, <1>3, <2>1
  <2>3. i + 1 = Len(l) + 1 \/ i + 1 < Len(l) + 1
    BY <1>1, <1>3
  <2>4. P(i + 1) <= Len(l) + 1 + N
    <3>1. i + 1 < Len(l) + 1 => P(i + 1) < P(Len(l) + 1)
      BY <1>2, <1>3
    <3>2. P(i + 1) \in Nat
      BY <1>2, <1>3
    <3> QED BY <1>1, <1>2, <2>3, <3>1, <3>2
  <2> QED BY <2>2, <2>4
<1>6. P(i) \in Nat /\ P(i + 1) \in Nat
  BY <1>2, <1>3
<1>7. P(i) \in 1 .. Len(l) + N
  BY <1>1, <1>4, <1>5, <1>6
<1>8. ASSUME NEW j \in DOMAIN l PROVE P(j) = P(i) => j = i
  <2>1. j \in 1 .. Len(l) + 1 /\ P(j) \in Nat /\ (j < i \/ j = i \/ i < j)
    BY <1>1, <1>2, <1>3
  <2>2. (j < i => P(j) < P(i)) /\ (i < j => P(i) < P(j))
    BY <1>2, <1>3, <2>1
  <2> QED BY <1>6, <2>1, <2>2
<1>9. ASSUME i \in Needing(l) PROVE P(i) + 1 \in 1 .. Len(l) + N
  BY <1>1, <1>4, <1>5, <1>6, <1>9
<1>10. ASSUME i \in Needing(l), NEW j \in DOMAIN l PROVE P(j) # P(i) + 1
  <2>1. /\ j \in 1 .. Len(l) + 1 /\ j \in Nat /\ P(j) \in Nat
        /\ (j < i \/ j = i \/ j = i + 1 \/ i + 1 < j)
    BY <1>1, <1>2, <1>3
  <2>2. (j < i => P(j) < P(i)) /\ (i + 1 < j => P(i + 1) < P(j))
    BY <1>2, <1>3, <2>1
  <2> QED BY <1>4, <1>6, <1>10, <2>1, <2>2
<1> QED BY <1>7, <1>8, <1>9, <1>10 DEF P, N

LEMMA MendedFacts ==
  ASSUME NEW l \in Seq(Chat), NEW i \in DOMAIN l
  PROVE  /\ Mended(l, i) \in Chat /\ Mended(l, i).uses = l[i].uses
         /\ Mended(l, i).role = l[i].role
         /\ Mended(l, i).results =
              l[i].results \cup (IF i > 1 /\ l[i].role = "user" THEN Missing(l, i - 1) ELSE {})
         /\ Missing(l, i) \subseteq l[i].uses /\ l[i].uses \subseteq Ids
<1>1. l[i] \in Chat /\ l[i] \in Message
  BY DEF Chat
<1>2. \A j \in DOMAIN l : Missing(l, j) \subseteq l[j].uses /\ l[j].uses \subseteq Ids
  <2>1. \A j \in DOMAIN l : l[j] \in Message
    BY DEF Chat
  <2> QED BY <2>1 DEF Missing, Message
<1>3. CASE i > 1 /\ l[i].role = "user"
  <2> DEFINE M == Missing(l, i - 1)
  <2>1. i - 1 \in DOMAIN l
    BY <1>3
  <2>2. M \subseteq Ids
    BY <1>2, <2>1
  <2>3. Mended(l, i) = [l[i] EXCEPT !.results = @ \cup M]
    BY <1>3 DEF Mended
  <2> HIDE DEF M
  <2>4. /\ [l[i] EXCEPT !.results = @ \cup M] \in Message
        /\ [l[i] EXCEPT !.results = @ \cup M].uses = l[i].uses
        /\ [l[i] EXCEPT !.results = @ \cup M].role = l[i].role
        /\ [l[i] EXCEPT !.results = @ \cup M].results = l[i].results \cup M
    BY <1>1, <2>2 DEF Message
  <2>5. Mended(l, i) \in Chat
    BY <1>1, <1>3, <2>3, <2>4 DEF Chat
  <2> QED BY <1>2, <1>3, <2>3, <2>4, <2>5 DEF M
<1>4. CASE ~(i > 1 /\ l[i].role = "user")
  BY <1>1, <1>2, <1>4 DEF Mended
<1> QED BY <1>3, <1>4

LEMMA RepairPlaces ==
  ASSUME NEW l \in Seq(Chat)
  PROVE  LET k == repair_tool_use_pairs(l)
             n == Len(l) + Cardinality(Needing(l)) IN
         /\ k \in Seq(Chat) /\ Len(k) = n /\ DOMAIN k = 1 .. n
         /\ \A i \in DOMAIN l : PlaceOf(l, i) \in DOMAIN k /\ k[PlaceOf(l, i)] = Mended(l, i)
         /\ \A i \in Needing(l) : /\ PlaceOf(l, i) + 1 \in DOMAIN k
                                  /\ k[PlaceOf(l, i) + 1] = Results(Missing(l, i))
<1> DEFINE n == Len(l) + Cardinality(Needing(l))
           MessageAt(k) == IF \E j \in DOMAIN l : PlaceOf(l, j) = k
                     THEN Mended(l, CHOOSE j \in DOMAIN l : PlaceOf(l, j) = k)
                     ELSE Results(Missing(l, CHOOSE j \in Needing(l) : PlaceOf(l, j) = k - 1))
<1>1. n \in Nat /\ Needing(l) \subseteq DOMAIN l /\ DOMAIN l = 1 .. Len(l) /\ Len(l) \in Nat
  BY NeedingIsFinite
<1>2. ASSUME NEW j \in DOMAIN l PROVE MessageAt(PlaceOf(l, j)) = Mended(l, j)
  <2>1. \A m \in DOMAIN l : PlaceOf(l, m) = PlaceOf(l, j) => m = j
    BY PlacesDiffer
  <2>2. (CHOOSE m \in DOMAIN l : PlaceOf(l, m) = PlaceOf(l, j)) = j
    BY <2>1
  <2> QED BY <2>2
<1>3. ASSUME NEW j \in Needing(l) PROVE MessageAt(PlaceOf(l, j) + 1) = Results(Missing(l, j))
  <2>1. \A m \in DOMAIN l : PlaceOf(l, m) # PlaceOf(l, j) + 1
    BY <1>1, PlacesDiffer
  <2>2. PlaceOf(l, j) \in Nat
    BY <1>1, PlacesRange
  <2>3. (PlaceOf(l, j) + 1) - 1 = PlaceOf(l, j)
    BY <2>2
  <2>4. \A m \in Needing(l) : PlaceOf(l, m) = PlaceOf(l, j) => m = j
    BY <1>1, PlacesDiffer
  <2> DEFINE x == (PlaceOf(l, j) + 1) - 1
             m1 == CHOOSE m \in Needing(l) : PlaceOf(l, m) = x
  <2>5. m1 = j
    <3>1. x = PlaceOf(l, j)
      BY <2>3
    <3> HIDE DEF x
    <3>2. \A m \in Needing(l) : PlaceOf(l, m) = x <=> m = j
      BY <2>4, <3>1
    <3> QED BY <3>2
  <2>6. MessageAt(PlaceOf(l, j) + 1) = Results(Missing(l, m1))
    BY <2>1
  <2> HIDE DEF m1, MessageAt
  <2> QED BY <2>5, <2>6
<1>4. repair_tool_use_pairs(l) = [k \in 1 .. n |-> MessageAt(k)]
  BY RepairForm
<1> HIDE DEF MessageAt
<1>5. ASSUME NEW k \in 1 .. n PROVE MessageAt(k) \in Chat
  <2>1. PICK j \in DOMAIN l : k = PlaceOf(l, j) \/ (j \in Needing(l) /\ k = PlaceOf(l, j) + 1)
    BY PlacesCover
  <2>2. Mended(l, j) \in Chat /\ Missing(l, j) \in SUBSET Ids
    BY MendedFacts
  <2>3. Results(Missing(l, j)) \in Chat
    BY <2>2, MessageForms
  <2> QED BY <1>2, <1>3, <2>1, <2>2, <2>3
<1>6. /\ \A i \in DOMAIN l : PlaceOf(l, i) \in 1 .. n
      /\ \A i \in Needing(l) : PlaceOf(l, i) + 1 \in 1 .. n
  BY <1>1, PlacesDiffer
<1> HIDE DEF n
<1> DEFINE k == [x \in 1 .. n |-> MessageAt(x)]
<1>7. k \in Seq(Chat) /\ Len(k) = n /\ DOMAIN k = 1 .. n
  BY <1>1, <1>5
<1>8. /\ \A i \in DOMAIN l : k[PlaceOf(l, i)] = Mended(l, i)
      /\ \A i \in Needing(l) : k[PlaceOf(l, i) + 1] = Results(Missing(l, i))
  BY <1>2, <1>3, <1>6
<1> HIDE DEF k
<1> QED BY <1>4, <1>6, <1>7, <1>8 DEF n, k

\* Whatever list of calls and results the repair is given, each call of what it
\* returns is answered by the next message, and it leaves no result without its
\* call that had one (agent.py:41, "so the history is always valid to resend").
THEOREM RepairCorrect ==
  \A l \in Seq(Chat) :
    LET k == repair_tool_use_pairs(l) IN
    /\ k \in Seq(Chat) /\ Dangling(k) = {} /\ Orphans(k) \subseteq Orphans(l)
<1> SUFFICES ASSUME NEW l \in Seq(Chat)
             PROVE  LET k == repair_tool_use_pairs(l) IN
                    k \in Seq(Chat) /\ Dangling(k) = {} /\ Orphans(k) \subseteq Orphans(l)
  OBVIOUS
<1> DEFINE k == repair_tool_use_pairs(l)
           n == Len(l) + Cardinality(Needing(l))
           P(i) == PlaceOf(l, i)
<1>1. /\ k \in Seq(Chat) /\ Len(k) = n /\ DOMAIN k = 1 .. n
      /\ \A i \in DOMAIN l : P(i) \in DOMAIN k /\ k[P(i)] = Mended(l, i)
      /\ \A i \in Needing(l) : P(i) + 1 \in DOMAIN k /\ k[P(i) + 1] = Results(Missing(l, i))
  BY RepairPlaces
<1>2. /\ Len(l) \in Nat /\ DOMAIN l = 1 .. Len(l) /\ Needing(l) \subseteq DOMAIN l /\ n \in Nat
  BY NeedingIsFinite
<1>3. /\ \A i \in 1 .. Len(l) + 1 : P(i) \in Nat
      /\ P(1) = 1 /\ P(Len(l) + 1) = n + 1
      /\ \A i \in DOMAIN l : P(i + 1) = P(i) + (IF i \in Needing(l) THEN 2 ELSE 1)
  <2>1. P(Len(l) + 1) = Len(l) + 1 + Cardinality(Needing(l))
    BY PlacesRange
  <2>2. Cardinality(Needing(l)) \in Nat
    BY NeedingIsFinite
  <2>3. P(Len(l) + 1) = n + 1
    BY <1>2, <2>1, <2>2
  <2> QED BY <2>3, PlacesRange, PlacesStep
<1>4. \A x \in 1 .. n : \E i \in DOMAIN l : x = P(i) \/ (i \in Needing(l) /\ x = P(i) + 1)
  BY PlacesCover
<1>5. \A i \in DOMAIN l : /\ Missing(l, i) \in SUBSET Ids
                           /\ Results(Missing(l, i)).uses = {}
                           /\ Results(Missing(l, i)).results = Missing(l, i)
                           /\ Results(Missing(l, i)).role = "user"
  BY MendedFacts, MessageForms
<1> HIDE DEF k, n, P
\* What a message still lacks is in the message behind its new place.
<1>6. ASSUME NEW i \in DOMAIN l PROVE Missing(k, P(i)) = {}
  <2>1. k[P(i)].uses = l[i].uses /\ P(i) \in Nat /\ i \in Nat /\ i <= Len(l)
    BY <1>1, <1>2, <1>3, MendedFacts
  <2>2. CASE i \in Needing(l)
    <3>1. /\ P(i) + 1 \in DOMAIN k /\ k[P(i) + 1].role = "user"
          /\ k[P(i) + 1].results = Missing(l, i)
      BY <1>1, <1>5, <2>2
    <3>2. Missing(l, i) = l[i].uses
      BY <2>2 DEF Needing, Missing
    <3>3. P(i) < Len(k)
      BY <1>1, <2>1, <3>1
    <3> QED BY <2>1, <3>1, <3>2, <3>3 DEF Missing
  <2>3. CASE i \notin Needing(l) /\ i < Len(l) /\ l[i + 1].role = "user"
    <3>1. P(i + 1) = P(i) + 1 /\ i + 1 \in DOMAIN l /\ i + 1 > 1 /\ (i + 1) - 1 = i
      BY <1>2, <1>3, <2>1, <2>3
    <3>2. /\ P(i) + 1 \in DOMAIN k /\ k[P(i) + 1].role = "user"
          /\ k[P(i) + 1].results = l[i + 1].results \cup Missing(l, i)
      <4>1. k[P(i + 1)] = Mended(l, i + 1) /\ P(i + 1) \in DOMAIN k
        BY <1>1, <3>1
      <4>2. /\ Mended(l, i + 1).role = l[i + 1].role
            /\ Mended(l, i + 1).results = l[i + 1].results \cup
                 (IF i + 1 > 1 /\ l[i + 1].role = "user" THEN Missing(l, (i + 1) - 1) ELSE {})
        BY <3>1, MendedFacts
      <4> QED BY <2>3, <3>1, <4>1, <4>2
    <3>3. P(i) < Len(k)
      BY <1>1, <2>1, <3>2
    <3>4. Missing(l, i) = l[i].uses \ l[i + 1].results
      BY <2>3 DEF Missing
    <3> QED BY <2>1, <3>2, <3>3, <3>4 DEF Missing
  <2>4. CASE i \notin Needing(l) /\ ~(i < Len(l) /\ l[i + 1].role = "user")
    <3>1. Missing(l, i) = {}
      BY <2>4 DEF Needing
    <3>2. l[i].uses = {}
      BY <2>4, <3>1 DEF Missing
    <3> QED BY <2>1, <3>2 DEF Missing
  <2> QED BY <2>2, <2>3, <2>4
<1>7. ASSUME NEW i \in Needing(l) PROVE Missing(k, P(i) + 1) = {}
  BY <1>1, <1>2, <1>5 DEF Missing
<1>8. Dangling(k) = {}
  BY <1>4, <1>1, <1>6, <1>7 DEF Dangling
\* The message before an inserted one calls what it answers, and the message
\* before any other is the one it had, or one after which no results come.
<1>9. ASSUME NEW i \in DOMAIN l PROVE Orphaned(k, P(i)) \subseteq Orphaned(l, i)
  <2>1. /\ P(i) \in Nat /\ i \in Nat /\ 1 <= i /\ i <= Len(l) /\ P(i) \in DOMAIN k
    BY <1>1, <1>2, <1>3
  <2>2. k[P(i)].results =
          l[i].results \cup (IF i > 1 /\ l[i].role = "user" THEN Missing(l, i - 1) ELSE {})
    BY <1>1, MendedFacts
  <2>3. CASE i = 1
    BY <1>3, <2>2, <2>3 DEF Orphaned
  <2>4. CASE i > 1 /\ l[i].role = "assistant"
    <3>1. l[i].results = {}
      BY <2>4 DEF Chat
    <3>2. k[P(i)].results = {}
      BY <2>2, <2>4, <3>1
    <3> QED BY <3>2 DEF Orphaned
  <2>5. CASE i > 1 /\ l[i].role = "user"
    <3>1. i - 1 \in DOMAIN l /\ (i - 1) + 1 = i /\ i - 1 < Len(l) /\ i # 1
      BY <1>2, <2>1, <2>5
    <3>2. i - 1 \notin Needing(l)
      BY <2>5, <3>1 DEF Needing
    <3>3. P(i) = P(i - 1) + 1 /\ P(i - 1) \in Nat /\ P(i) # 1
      <4>1. P((i - 1) + 1) = P(i - 1) + 1 /\ P(i - 1) \in Nat
        BY <1>2, <1>3, <3>1, <3>2
      <4>2. P(i - 1) \in 1 .. n
        BY <1>1, <3>1
      <4>3. P(i - 1) + 1 # 1
        BY <4>2
      <4> QED BY <3>1, <4>1, <4>3
    <3>4. k[P(i) - 1].uses = l[i - 1].uses
      <4>1. P(i) - 1 = P(i - 1)
        BY <3>3
      <4> QED BY <1>1, <3>1, <4>1, MendedFacts
    <3>5. Missing(l, i - 1) \subseteq l[i - 1].uses
      BY <3>1, MendedFacts
    <3> QED BY <2>2, <2>5, <3>1, <3>3, <3>4, <3>5 DEF Orphaned
  <2>6. l[i].role \in {"user", "assistant"}
    BY DEF Chat, Message
  <2> QED BY <2>1, <2>3, <2>4, <2>5, <2>6
<1>10. ASSUME NEW i \in Needing(l) PROVE Orphaned(k, P(i) + 1) = {}
  <2>3. i \in DOMAIN l
    BY <1>2
  <2>1. /\ P(i) \in Nat /\ k[P(i)].uses = l[i].uses /\ P(i) \in DOMAIN k
        /\ k[P(i) + 1].results = Missing(l, i) /\ Missing(l, i) \subseteq l[i].uses
    <3>1. P(i) \in Nat
      BY <1>2, <1>3, <2>3
    <3>2. k[P(i)] = Mended(l, i) /\ P(i) \in DOMAIN k /\ k[P(i) + 1] = Results(Missing(l, i))
      BY <1>1, <2>3
    <3>3. Mended(l, i).uses = l[i].uses /\ Missing(l, i) \subseteq l[i].uses
      BY <2>3, MendedFacts
    <3>4. Results(Missing(l, i)).results = Missing(l, i)
      BY <1>5, <2>3
    <3> QED BY <3>1, <3>2, <3>3, <3>4
  <2>2. (P(i) + 1) - 1 = P(i) /\ P(i) + 1 # 1
    BY <1>1, <2>1
  <2> QED BY <2>1, <2>2 DEF Orphaned
<1>11. Orphans(k) \subseteq Orphans(l)
  <2> SUFFICES ASSUME NEW x \in DOMAIN k PROVE Orphaned(k, x) \subseteq Orphans(l)
    BY DEF Orphans
  <2>1. PICK i \in DOMAIN l : x = P(i) \/ (i \in Needing(l) /\ x = P(i) + 1)
    BY <1>4, <1>1
  <2>2. Orphaned(l, i) \subseteq Orphans(l)
    BY DEF Orphans
  <2> QED BY <1>9, <1>10, <2>1, <2>2
<1> QED BY <1>1, <1>8, <1>11 DEF k

-----------------------------------------------------------------------------
(* History: the inductive invariant *)

\* Which lists exist, what each party has in hand, and why the message a
\* failed turn answers is still the last of its list: retry pops nothing from a
\* list that ends with a user's message, and nobody else writes to it.
ListsAreSound ==
  /\ \A r \in Reachable : Sound(heap[r], cut)
  /\ Sound(stored, cut)
  /\ snapshot # NoList => Sound(snapshot, cut)
  /\ loading # NoList => Sound(loading, cut)

LoopIsSound ==
  /\ turn \in {"counting", "compressing", "streaming"} => Sound(working, cut)
  /\ turn = "compressing" => Compressible(working)
  /\ turn = "tools" => Calling(working, cut)
  /\ turn \notin {"counting", "compressing", "streaming", "tools"} => working = <<>>

Answering == {"preparing", "counting", "compressing", "streaming", "tools"}

PromptIsLast ==
  turn \in Answering => heap[own] # <<>> /\ heap[own][Len(heap[own])] = UserMessage

PartiesHaveLists ==
  /\ heap \in [Refs -> Seq(Message)]
  /\ session \in Refs \cup {NoRef} /\ own \in Refs \cup {NoRef}
  /\ summarizing \in Refs \cup {NoRef} /\ detached \in Refs \cup {NoRef}
  /\ turn \in TurnStates
  /\ turn \notin {"idle", "created"} => own \in Refs
  /\ turn \in Saving /\ detached = NoRef => session \in Refs

RoundsAreCounted ==
  /\ round \in 0 .. MaxRounds
  /\ turn \in {"idle", "created", "preparing"} => round = 0
  /\ turn \in InTry \ {"saving", "announcing"} => round < MaxRounds

CountersFit ==
  /\ clearing \in BOOLEAN /\ resending \in BOOLEAN
  /\ nextId \in 1 .. MaxIds + 1 /\ prompts \in Nat /\ edits \in Nat
  /\ cut \subseteq Ids

HistoryInv ==
  /\ ListsAreSound /\ LoopIsSound /\ PromptIsLast
  /\ PartiesHaveLists /\ RoundsAreCounted /\ CountersFit

\* A list written to r, new or in place, when nobody comes to reach another.
LEMMA WriteIsSound ==
  ASSUME HistoryInv, NEW r \in Refs, NEW l, Sound(l, cut'), cut \subseteq cut',
         Reachable' \subseteq Reachable \cup {r}, heap' = [heap EXCEPT ![r] = l]
  PROVE  /\ \A q \in Reachable' : Sound(heap'[q], cut')
         /\ heap' \in [Refs -> Seq(Message)]
         /\ heap'[r] = l /\ \A q \in Refs : q # r => heap'[q] = heap[q]
<1>1. heap \in [Refs -> Seq(Message)] /\ l \in Seq(Message)
  BY ChatIsMessage DEF HistoryInv, PartiesHaveLists, Sound
<1>2. /\ heap' \in [Refs -> Seq(Message)]
      /\ heap'[r] = l /\ \A q \in Refs : q # r => heap'[q] = heap[q]
  BY <1>1
<1>3. Reachable \subseteq Refs
  BY DEF HistoryInv, PartiesHaveLists, Reachable
<1>4. ASSUME NEW q \in Reachable' PROVE Sound(heap'[q], cut')
  <2>1. CASE q = r
    BY <1>2, <2>1
  <2>2. CASE q # r
    <3>1. q \in Reachable /\ heap'[q] = heap[q]
      BY <1>2, <1>3, <1>4, <2>2
    <3>2. Sound(heap[q], cut)
      BY <3>1 DEF HistoryInv, ListsAreSound
    <3> QED BY <3>1, <3>2, SoundGrows
  <2> QED BY <2>1, <2>2
<1> QED BY <1>2, <1>4

LEMMA SameIsSound ==
  ASSUME HistoryInv, Reachable' \subseteq Reachable, UNCHANGED <<heap, cut>>
  PROVE  \A q \in Reachable' : Sound(heap'[q], cut')
BY DEF HistoryInv, ListsAreSound

\* A list that may be written to r is one nobody reaches.
LEMMA FreshIsFree ==
  ASSUME NEW r, Fresh(r)
  PROVE  r \in Refs /\ r # session /\ r # own /\ r # summarizing /\ r # detached
BY DEF Fresh

LEMMA PromptIsSound == \A c : Sound(<<UserMessage>>, c)
<1>1. \A c : Sound(Append(<<>>, UserMessage), c)
  BY EmptyIsSound, AppendIsSound, MessageForms
<1>2. Append(<<>>, UserMessage) = <<UserMessage>>
  OBVIOUS
<1> QED BY <1>1, <1>2

LEMMA HeldIsSound ==
  ASSUME HistoryInv
  PROVE  /\ session # NoRef => Sound(heap[session], cut)
         /\ own # NoRef => Sound(heap[own], cut)
         /\ summarizing # NoRef => Sound(heap[summarizing], cut)
         /\ detached # NoRef => Sound(heap[detached], cut)
         /\ turn \in Saving => Sound(SavedList, cut)
<1>1. \A r \in Reachable : Sound(heap[r], cut)
  BY DEF HistoryInv, ListsAreSound
<1>2. turn \in Saving /\ detached = NoRef => session # NoRef
  BY ConstantsAssumption DEF HistoryInv, PartiesHaveLists
<1> QED BY <1>1, <1>2 DEF Reachable, SavedList

LEMMA InitSound == HistoryInit => HistoryInv
<1> SUFFICES ASSUME HistoryInit PROVE HistoryInv
  OBVIOUS
<1> USE ConstantsAssumption, EmptyIsSound DEF HistoryInit
<1>1. ListsAreSound
  BY DEF ListsAreSound, Reachable
<1>2. LoopIsSound
  BY DEF LoopIsSound
<1>3. PromptIsLast
  BY DEF PromptIsLast, Answering
<1>4. PartiesHaveLists
  <2>1. [r \in Refs |-> <<>>] \in [Refs -> Seq(Message)]
    OBVIOUS
  <2> QED BY <2>1 DEF PartiesHaveLists, TurnStates, Saving
<1>5. RoundsAreCounted
  BY DEF RoundsAreCounted, InTry
<1>6. CountersFit
  <2>1. clearing \in BOOLEAN /\ resending \in BOOLEAN
    OBVIOUS
  <2>2. nextId \in 1 .. MaxIds + 1
    OBVIOUS
  <2> QED BY <2>1, <2>2 DEF CountersFit
<1> QED BY <1>1, <1>2, <1>3, <1>4, <1>5, <1>6 DEF HistoryInv

LEMMA EndUnrecordedKeeps == HistoryInv /\ EndUnrecorded => HistoryInv'
<1> SUFFICES ASSUME HistoryInv, EndUnrecorded PROVE HistoryInv'
  OBVIOUS
<1> USE DEF HistoryInv, EndUnrecorded, Over, lists, coroutine, requests, kept, counters
<1>1. ListsAreSound'
  <2>1. Reachable' \subseteq Reachable /\ UNCHANGED <<heap, cut>>
    BY DEF Reachable
  <2>2. \A q \in Reachable' : Sound(heap'[q], cut')
    BY <2>1, SameIsSound
  <2> QED BY <2>1, <2>2 DEF ListsAreSound, LoopIsSound
<1>2. LoopIsSound'
  BY DEF LoopIsSound
<1>3. PromptIsLast'
  BY DEF PromptIsLast, Answering
<1>4. PartiesHaveLists'
  BY DEF PartiesHaveLists, TurnStates, InTry, Saving
<1>5. RoundsAreCounted'
  BY ConstantsAssumption DEF RoundsAreCounted, InTry
<1>6. CountersFit'
  BY DEF CountersFit
<1> QED BY <1>1, <1>2, <1>3, <1>4, <1>5, <1>6

LEMMA CountSufficesKeeps == HistoryInv /\ CountSuffices => HistoryInv'
<1> SUFFICES ASSUME HistoryInv, CountSuffices PROVE HistoryInv'
  OBVIOUS
<1> USE DEF HistoryInv, CountSuffices, lists, coroutine, requests, kept, counters
<1>1. ListsAreSound'
  <2>1. Reachable' \subseteq Reachable /\ UNCHANGED <<heap, cut>>
    BY DEF Reachable
  <2>2. \A q \in Reachable' : Sound(heap'[q], cut')
    BY <2>1, SameIsSound
  <2> QED BY <2>1, <2>2 DEF ListsAreSound, LoopIsSound
<1>2. LoopIsSound'
  BY DEF LoopIsSound
<1>3. PromptIsLast'
  BY DEF PromptIsLast, Answering
<1>4. PartiesHaveLists'
  BY DEF PartiesHaveLists, TurnStates, InTry, Saving
<1>5. RoundsAreCounted'
  BY DEF RoundsAreCounted, InTry
<1>6. CountersFit'
  BY DEF CountersFit
<1> QED BY <1>1, <1>2, <1>3, <1>4, <1>5, <1>6

LEMMA CountExceedsKeeps == HistoryInv /\ CountExceeds => HistoryInv'
<1> SUFFICES ASSUME HistoryInv, CountExceeds PROVE HistoryInv'
  OBVIOUS
<1> USE DEF HistoryInv, CountExceeds, lists, coroutine, requests, kept, counters
<1>1. ListsAreSound'
  <2>1. Reachable' \subseteq Reachable /\ UNCHANGED <<heap, cut>>
    BY DEF Reachable
  <2>2. \A q \in Reachable' : Sound(heap'[q], cut')
    BY <2>1, SameIsSound
  <2> QED BY <2>1, <2>2 DEF ListsAreSound, LoopIsSound
<1>2. LoopIsSound'
  BY DEF LoopIsSound
<1>3. PromptIsLast'
  BY DEF PromptIsLast, Answering
<1>4. PartiesHaveLists'
  BY DEF PartiesHaveLists, TurnStates, InTry, Saving
<1>5. RoundsAreCounted'
  BY DEF RoundsAreCounted, InTry
<1>6. CountersFit'
  BY DEF CountersFit
<1> QED BY <1>1, <1>2, <1>3, <1>4, <1>5, <1>6

LEMMA CompressionEndsKeeps == HistoryInv /\ CompressionEnds => HistoryInv'
<1> SUFFICES ASSUME HistoryInv, CompressionEnds PROVE HistoryInv'
  OBVIOUS
<1> USE DEF HistoryInv, CompressionEnds, lists, coroutine, requests, kept, counters
<1>1. ListsAreSound'
  <2>1. Reachable' \subseteq Reachable /\ UNCHANGED <<heap, cut>>
    BY DEF Reachable
  <2>2. \A q \in Reachable' : Sound(heap'[q], cut')
    BY <2>1, SameIsSound
  <2> QED BY <2>1, <2>2 DEF ListsAreSound, LoopIsSound
<1>2. LoopIsSound'
  BY CompressIsSound DEF LoopIsSound
<1>3. PromptIsLast'
  BY DEF PromptIsLast, Answering
<1>4. PartiesHaveLists'
  BY DEF PartiesHaveLists, TurnStates, InTry, Saving
<1>5. RoundsAreCounted'
  BY DEF RoundsAreCounted, InTry
<1>6. CountersFit'
  BY DEF CountersFit
<1> QED BY <1>1, <1>2, <1>3, <1>4, <1>5, <1>6

LEMMA TurnCompletesKeeps == HistoryInv /\ TurnCompletes => HistoryInv'
<1> SUFFICES ASSUME HistoryInv, TurnCompletes PROVE HistoryInv'
  OBVIOUS
<1> USE DEF HistoryInv, TurnCompletes, Over, lists, coroutine, requests, kept, counters
<1>1. ListsAreSound'
  <2>1. Reachable' \subseteq Reachable /\ UNCHANGED <<heap, cut>>
    BY DEF Reachable
  <2>2. \A q \in Reachable' : Sound(heap'[q], cut')
    BY <2>1, SameIsSound
  <2> QED BY <2>1, <2>2 DEF ListsAreSound, LoopIsSound
<1>2. LoopIsSound'
  BY DEF LoopIsSound
<1>3. PromptIsLast'
  BY DEF PromptIsLast, Answering
<1>4. PartiesHaveLists'
  BY DEF PartiesHaveLists, TurnStates, InTry, Saving
<1>5. RoundsAreCounted'
  BY ConstantsAssumption DEF RoundsAreCounted, InTry
<1>6. CountersFit'
  BY DEF CountersFit
<1> QED BY <1>1, <1>2, <1>3, <1>4, <1>5, <1>6

LEMMA SummarizeContextKeeps == HistoryInv /\ SummarizeContext => HistoryInv'
<1> SUFFICES ASSUME HistoryInv, SummarizeContext PROVE HistoryInv'
  OBVIOUS
<1> USE DEF HistoryInv, SummarizeContext, Edit, lists, coroutine, requests, kept, counters
<1>1. ListsAreSound'
  <2>1. Reachable' \subseteq Reachable /\ UNCHANGED <<heap, cut>>
    BY DEF Reachable
  <2>2. \A q \in Reachable' : Sound(heap'[q], cut')
    BY <2>1, SameIsSound
  <2> QED BY <2>1, <2>2 DEF ListsAreSound, LoopIsSound
<1>2. LoopIsSound'
  BY DEF LoopIsSound
<1>3. PromptIsLast'
  BY DEF PromptIsLast, Answering
<1>4. PartiesHaveLists'
  BY DEF PartiesHaveLists, TurnStates, InTry, Saving
<1>5. RoundsAreCounted'
  BY DEF RoundsAreCounted, InTry
<1>6. CountersFit'
  BY DEF CountersFit
<1> QED BY <1>1, <1>2, <1>3, <1>4, <1>5, <1>6

LEMMA SummaryFailsKeeps == HistoryInv /\ SummaryFails => HistoryInv'
<1> SUFFICES ASSUME HistoryInv, SummaryFails PROVE HistoryInv'
  OBVIOUS
<1> USE DEF HistoryInv, SummaryFails, lists, coroutine, requests, kept, counters
<1>1. ListsAreSound'
  <2>1. Reachable' \subseteq Reachable /\ UNCHANGED <<heap, cut>>
    BY DEF Reachable
  <2>2. \A q \in Reachable' : Sound(heap'[q], cut')
    BY <2>1, SameIsSound
  <2> QED BY <2>1, <2>2 DEF ListsAreSound, LoopIsSound
<1>2. LoopIsSound'
  BY DEF LoopIsSound
<1>3. PromptIsLast'
  BY DEF PromptIsLast, Answering
<1>4. PartiesHaveLists'
  BY DEF PartiesHaveLists, TurnStates, InTry, Saving
<1>5. RoundsAreCounted'
  BY DEF RoundsAreCounted, InTry
<1>6. CountersFit'
  BY DEF CountersFit
<1> QED BY <1>1, <1>2, <1>3, <1>4, <1>5, <1>6

LEMMA ResendRefusedKeeps == HistoryInv /\ ResendRefused => HistoryInv'
<1> SUFFICES ASSUME HistoryInv, ResendRefused PROVE HistoryInv'
  OBVIOUS
<1> USE DEF HistoryInv, ResendRefused, lists, coroutine, requests, kept, counters
<1>1. ListsAreSound'
  <2>1. Reachable' \subseteq Reachable /\ UNCHANGED <<heap, cut>>
    BY DEF Reachable
  <2>2. \A q \in Reachable' : Sound(heap'[q], cut')
    BY <2>1, SameIsSound
  <2> QED BY <2>1, <2>2 DEF ListsAreSound, LoopIsSound
<1>2. LoopIsSound'
  BY DEF LoopIsSound
<1>3. PromptIsLast'
  BY DEF PromptIsLast, Answering
<1>4. PartiesHaveLists'
  BY DEF PartiesHaveLists, TurnStates, InTry, Saving
<1>5. RoundsAreCounted'
  BY DEF RoundsAreCounted, InTry
<1>6. CountersFit'
  BY DEF CountersFit
<1> QED BY <1>1, <1>2, <1>3, <1>4, <1>5, <1>6

LEMMA SubAgentCompressesKeeps == HistoryInv /\ SubAgentCompresses => HistoryInv'
<1> SUFFICES ASSUME HistoryInv, SubAgentCompresses PROVE HistoryInv'
  OBVIOUS
<1> USE DEF HistoryInv, SubAgentCompresses, Edit, lists, coroutine, requests, kept, counters
<1>1. ListsAreSound'
  <2>1. Reachable' \subseteq Reachable /\ UNCHANGED <<heap, cut>>
    BY DEF Reachable
  <2>2. \A q \in Reachable' : Sound(heap'[q], cut')
    BY <2>1, SameIsSound
  <2> QED BY <2>1, <2>2, PromptIsSound DEF ListsAreSound
<1>2. LoopIsSound'
  BY DEF LoopIsSound
<1>3. PromptIsLast'
  BY DEF PromptIsLast, Answering
<1>4. PartiesHaveLists'
  BY DEF PartiesHaveLists, TurnStates, InTry, Saving
<1>5. RoundsAreCounted'
  BY DEF RoundsAreCounted, InTry
<1>6. CountersFit'
  BY DEF CountersFit
<1> QED BY <1>1, <1>2, <1>3, <1>4, <1>5, <1>6

LEMMA ClearConversationKeeps == HistoryInv /\ ClearConversation => HistoryInv'
<1> SUFFICES ASSUME HistoryInv, ClearConversation PROVE HistoryInv'
  OBVIOUS
<1> USE DEF HistoryInv, ClearConversation, Edit, lists, coroutine, requests, kept, counters
<1>1. ListsAreSound'
  <2>1. Reachable' \subseteq Reachable /\ UNCHANGED <<heap, cut>>
    BY DEF Reachable
  <2>2. \A q \in Reachable' : Sound(heap'[q], cut')
    BY <2>1, SameIsSound
  <2> QED BY <2>1, <2>2 DEF ListsAreSound, LoopIsSound
<1>2. LoopIsSound'
  BY DEF LoopIsSound
<1>3. PromptIsLast'
  BY DEF PromptIsLast, Answering
<1>4. PartiesHaveLists'
  BY DEF PartiesHaveLists, TurnStates, InTry, Saving
<1>5. RoundsAreCounted'
  BY DEF RoundsAreCounted, InTry
<1>6. CountersFit'
  BY DEF CountersFit
<1> QED BY <1>1, <1>2, <1>3, <1>4, <1>5, <1>6

LEMMA ClearSavedKeeps == HistoryInv /\ ClearSaved => HistoryInv'
<1> SUFFICES ASSUME HistoryInv, ClearSaved PROVE HistoryInv'
  OBVIOUS
<1> USE DEF HistoryInv, ClearSaved, lists, coroutine, requests, kept, counters
<1>1. ListsAreSound'
  <2>1. Reachable' \subseteq Reachable /\ UNCHANGED <<heap, cut>>
    BY DEF Reachable
  <2>2. \A q \in Reachable' : Sound(heap'[q], cut')
    BY <2>1, SameIsSound
  <2> QED BY <2>1, <2>2, HeldIsSound DEF ListsAreSound
<1>2. LoopIsSound'
  BY DEF LoopIsSound
<1>3. PromptIsLast'
  BY DEF PromptIsLast, Answering
<1>4. PartiesHaveLists'
  BY DEF PartiesHaveLists, TurnStates, InTry, Saving
<1>5. RoundsAreCounted'
  BY DEF RoundsAreCounted, InTry
<1>6. CountersFit'
  BY DEF CountersFit
<1> QED BY <1>1, <1>2, <1>3, <1>4, <1>5, <1>6

LEMMA ResumeConversationKeeps == HistoryInv /\ ResumeConversation => HistoryInv'
<1> SUFFICES ASSUME HistoryInv, ResumeConversation PROVE HistoryInv'
  OBVIOUS
<1> USE DEF HistoryInv, ResumeConversation, Edit, lists, coroutine, requests, kept, counters
<1>1. ListsAreSound'
  <2>1. Reachable' \subseteq Reachable /\ UNCHANGED <<heap, cut>>
    BY DEF Reachable
  <2>2. \A q \in Reachable' : Sound(heap'[q], cut')
    BY <2>1, SameIsSound
  <2> QED BY <2>1, <2>2 DEF ListsAreSound, LoopIsSound
<1>2. LoopIsSound'
  BY DEF LoopIsSound
<1>3. PromptIsLast'
  BY DEF PromptIsLast, Answering
<1>4. PartiesHaveLists'
  BY DEF PartiesHaveLists, TurnStates, InTry, Saving
<1>5. RoundsAreCounted'
  BY DEF RoundsAreCounted, InTry
<1>6. CountersFit'
  BY DEF CountersFit
<1> QED BY <1>1, <1>2, <1>3, <1>4, <1>5, <1>6

LEMMA SaveTurnKeeps == HistoryInv /\ SaveTurn => HistoryInv'
<1> SUFFICES ASSUME HistoryInv, SaveTurn PROVE HistoryInv'
  OBVIOUS
<1> USE DEF HistoryInv, SaveTurn, lists, coroutine, requests, kept, counters
<1>1. ListsAreSound'
  <2>1. Reachable' \subseteq Reachable /\ UNCHANGED <<heap, cut>>
    BY DEF Reachable
  <2>2. \A q \in Reachable' : Sound(heap'[q], cut')
    BY <2>1, SameIsSound
  <2>3. Sound(SavedList, cut)
    BY HeldIsSound DEF Saving
  <2> QED BY <2>1, <2>2, <2>3 DEF ListsAreSound
<1>2. LoopIsSound'
  BY DEF LoopIsSound
<1>3. PromptIsLast'
  BY DEF PromptIsLast, Answering
<1>4. PartiesHaveLists'
  BY DEF PartiesHaveLists, TurnStates, InTry, Saving
<1>5. RoundsAreCounted'
  BY DEF RoundsAreCounted, InTry
<1>6. CountersFit'
  BY DEF CountersFit
<1> QED BY <1>1, <1>2, <1>3, <1>4, <1>5, <1>6

LEMMA SaveAndEndKeeps == HistoryInv /\ SaveAndEnd => HistoryInv'
<1> SUFFICES ASSUME HistoryInv, SaveAndEnd PROVE HistoryInv'
  OBVIOUS
<1> USE DEF HistoryInv, SaveAndEnd, Over, lists, coroutine, requests, kept, counters
<1>1. ListsAreSound'
  <2>1. Reachable' \subseteq Reachable /\ UNCHANGED <<heap, cut>>
    BY DEF Reachable
  <2>2. \A q \in Reachable' : Sound(heap'[q], cut')
    BY <2>1, SameIsSound
  <2>3. Sound(SavedList, cut)
    BY HeldIsSound DEF Saving
  <2> QED BY <2>1, <2>2, <2>3 DEF ListsAreSound
<1>2. LoopIsSound'
  BY DEF LoopIsSound
<1>3. PromptIsLast'
  BY DEF PromptIsLast, Answering
<1>4. PartiesHaveLists'
  BY DEF PartiesHaveLists, TurnStates, InTry, Saving
<1>5. RoundsAreCounted'
  BY ConstantsAssumption DEF RoundsAreCounted, InTry
<1>6. CountersFit'
  BY DEF CountersFit
<1> QED BY <1>1, <1>2, <1>3, <1>4, <1>5, <1>6

\* What puts a new list into the session.

LEMMA FailInTryKeeps == HistoryInv /\ FailInTry => HistoryInv'
<1> SUFFICES ASSUME HistoryInv, FailInTry PROVE HistoryInv'
  OBVIOUS
<1> USE DEF HistoryInv, FailInTry, PutIntoSession, lists, coroutine, requests, kept, counters
<1>held. own \in Refs /\ own # NoRef
  BY ConstantsAssumption DEF PartiesHaveLists, InTry
<1>whole. Sound(heap[own], cut) /\ repair_tool_use_pairs(heap[own]) = heap[own]
  <2>1. Sound(heap[own], cut)
    BY <1>held, HeldIsSound
  <2> QED BY <2>1, RepairKeepsWhole DEF Sound
<1> DEFINE r == own'
           l == heap[own]
<1>write. /\ r \in Refs /\ cut \subseteq cut' /\ Reachable' \subseteq Reachable \cup {r}
      /\ heap' = [heap EXCEPT ![r] = l]
  BY <1>whole, FreshIsFree DEF New, Reachable, PutIntoSession
<1>sound. Sound(l, cut')
  BY <1>whole
<1> HIDE DEF r, l
<1>1. /\ \A q \in Reachable' : Sound(heap'[q], cut')
      /\ heap' \in [Refs -> Seq(Message)]
      /\ heap'[r] = l /\ \A q \in Refs : q # r => heap'[q] = heap[q]
  BY <1>write, <1>sound, WriteIsSound
<1>2. ListsAreSound'
  BY <1>1 DEF ListsAreSound
<1>3. LoopIsSound'
  BY <1>1 DEF LoopIsSound
<1>4. PromptIsLast'
  BY <1>1 DEF PromptIsLast, Answering
<1>5. PartiesHaveLists'
  BY <1>1, ConstantsAssumption DEF PartiesHaveLists, TurnStates, InTry, Saving
<1>6. RoundsAreCounted'
  BY <1>1 DEF RoundsAreCounted, InTry
<1>7. CountersFit'
  BY <1>1 DEF CountersFit
<1> QED BY <1>2, <1>3, <1>4, <1>5, <1>6, <1>7

LEMMA AnswerTextKeeps == HistoryInv /\ AnswerText => HistoryInv'
<1> SUFFICES ASSUME HistoryInv, AnswerText PROVE HistoryInv'
  OBVIOUS
<1> USE DEF HistoryInv, AnswerText, PutIntoSession, FinishLoop, lists, coroutine, requests, kept, counters
<1> DEFINE r == own'
           l == Append(working, AssistantText)
<1>write. /\ r \in Refs /\ cut \subseteq cut' /\ Reachable' \subseteq Reachable \cup {r}
      /\ heap' = [heap EXCEPT ![r] = l]
  BY FreshIsFree DEF New, Reachable, PutIntoSession, FinishLoop
<1>sound. Sound(l, cut')
  BY AppendIsSound, MessageForms DEF LoopIsSound
<1> HIDE DEF r, l
<1>1. /\ \A q \in Reachable' : Sound(heap'[q], cut')
      /\ heap' \in [Refs -> Seq(Message)]
      /\ heap'[r] = l /\ \A q \in Refs : q # r => heap'[q] = heap[q]
  BY <1>write, <1>sound, WriteIsSound
<1>2. ListsAreSound'
  BY <1>1 DEF ListsAreSound
<1>3. LoopIsSound'
  BY <1>1 DEF LoopIsSound
<1>4. PromptIsLast'
  BY <1>1 DEF PromptIsLast, Answering
<1>5. PartiesHaveLists'
  BY <1>1 DEF PartiesHaveLists, TurnStates, InTry, Saving
<1>6. RoundsAreCounted'
  BY <1>1 DEF RoundsAreCounted, InTry
<1>7. CountersFit'
  BY <1>1 DEF CountersFit
<1> QED BY <1>2, <1>3, <1>4, <1>5, <1>6, <1>7

LEMMA EnterLoopKeeps == HistoryInv /\ EnterLoop => HistoryInv'
<1> SUFFICES ASSUME HistoryInv, EnterLoop PROVE HistoryInv'
  OBVIOUS
<1> USE DEF HistoryInv, EnterLoop, lists, coroutine, requests, kept, counters
<1>1. \A q \in Reachable' : Sound(heap'[q], cut')
  BY SameIsSound DEF Reachable
<1>2. own \in Refs /\ own # NoRef
  BY ConstantsAssumption DEF PartiesHaveLists
<1>3. Sound(heap[own], cut)
  BY <1>2, HeldIsSound
<1>4. working' = heap[own]
  BY <1>3, RepairKeepsWhole DEF Sound
<1>5. ListsAreSound'
  BY <1>1 DEF ListsAreSound
<1>6. LoopIsSound'
  BY <1>3, <1>4 DEF LoopIsSound
<1>7. PromptIsLast'
  BY DEF PromptIsLast, Answering
<1>8. PartiesHaveLists'
  BY DEF PartiesHaveLists, TurnStates, InTry, Saving
<1>9. RoundsAreCounted'
  BY ConstantsAssumption DEF RoundsAreCounted, InTry
<1>10. CountersFit'
  BY DEF CountersFit
<1> QED BY <1>5, <1>6, <1>7, <1>8, <1>9, <1>10

LEMMA AnswerCallsKeeps == \A n \in 1 .. 2 : HistoryInv /\ AnswerCalls(n) => HistoryInv'
<1> SUFFICES ASSUME NEW n \in 1 .. 2, HistoryInv, AnswerCalls(n) PROVE HistoryInv'
  OBVIOUS
<1> USE DEF HistoryInv, AnswerCalls, lists, coroutine, requests, kept, counters
<1>1. \A q \in Reachable' : Sound(heap'[q], cut')
  BY SameIsSound DEF Reachable
<1>2. nextId .. (nextId + n - 1) \in SUBSET Ids /\ nextId' \in 1 .. MaxIds + 1
  BY ConstantsAssumption DEF CountersFit, Ids
<1>3. Calling(working', cut')
  <2> DEFINE U == nextId .. (nextId + n - 1)
  <2>1. Calling(Append(working, Calls(U)), cut)
    <3> HIDE DEF U
    <3>1. U \in SUBSET Ids
      BY <1>2 DEF U
    <3> QED BY <3>1, CallsAreCalling DEF LoopIsSound
  <2> QED BY <2>1
<1>5. ListsAreSound'
  BY <1>1 DEF ListsAreSound
<1>6. LoopIsSound'
  BY <1>3 DEF LoopIsSound
<1>7. PromptIsLast'
  BY DEF PromptIsLast, Answering
<1>8. PartiesHaveLists'
  BY DEF PartiesHaveLists, TurnStates, InTry, Saving
<1>9. RoundsAreCounted'
  BY DEF RoundsAreCounted, InTry
<1>10. CountersFit'
  BY <1>2 DEF CountersFit
<1> QED BY <1>5, <1>6, <1>7, <1>8, <1>9, <1>10

\* Every tool call has its result, the loop goes on or is over.
LEMMA ToolsReturnKeeps == HistoryInv /\ ToolsReturn => HistoryInv'
<1> DEFINE l == Append(working, Results(working[Len(working)].uses))
<1> SUFFICES ASSUME HistoryInv, ToolsReturn PROVE HistoryInv'
  OBVIOUS
<1> USE DEF HistoryInv, lists, coroutine, requests, kept, counters
<1>1. Sound(l, cut) /\ turn = "tools"
  BY ResultsAreSound DEF LoopIsSound, ToolsReturn
<1>2. /\ round' = round + 1
      /\ \/ /\ round' < MaxRounds /\ turn' = "counting" /\ working' = l /\ UNCHANGED lists
         \/ round' = MaxRounds /\ FinishLoop(l)
      /\ UNCHANGED <<requests, kept, counters>>
      /\ round' < MaxRounds => UNCHANGED own
  BY ConstantsAssumption DEF ToolsReturn, RoundsAreCounted, FinishLoop
<1> HIDE DEF l
<1>3. CASE round' < MaxRounds /\ turn' = "counting" /\ working' = l /\ UNCHANGED lists
  <2>1. \A q \in Reachable' : Sound(heap'[q], cut')
    BY <1>2, <1>3, SameIsSound DEF Reachable
  <2>2. ListsAreSound'
    BY <1>2, <2>1 DEF ListsAreSound
  <2>3. LoopIsSound'
    BY <1>1, <1>2, <1>3 DEF LoopIsSound
  <2>4. PromptIsLast'
    BY <1>1, <1>2, <1>3 DEF PromptIsLast, Answering
  <2>5. PartiesHaveLists'
    BY <1>1, <1>2, <1>3 DEF PartiesHaveLists, TurnStates, InTry, Saving
  <2>6. RoundsAreCounted'
    BY <1>1, <1>2, <1>3, ConstantsAssumption DEF RoundsAreCounted, InTry
  <2>7. CountersFit'
    BY <1>2, <1>3 DEF CountersFit
  <2> QED BY <2>2, <2>3, <2>4, <2>5, <2>6, <2>7
<1>4. CASE round' = MaxRounds /\ FinishLoop(l)
  <2> DEFINE r == own'
  <2>1. /\ r \in Refs /\ cut \subseteq cut' /\ Reachable' \subseteq Reachable \cup {r}
        /\ heap' = [heap EXCEPT ![r] = l]
    BY <1>2, <1>4, FreshIsFree DEF New, Reachable, FinishLoop, PutIntoSession
  <2>2. Sound(l, cut')
    BY <1>1, <1>2
  <2> HIDE DEF r
  <2>3. /\ \A q \in Reachable' : Sound(heap'[q], cut')
        /\ heap' \in [Refs -> Seq(Message)]
    BY <2>1, <2>2, WriteIsSound
  <2> USE DEF FinishLoop, PutIntoSession
  <2>4. ListsAreSound'
    BY <1>2, <2>3 DEF ListsAreSound
  <2>5. LoopIsSound'
    BY <1>4 DEF LoopIsSound
  <2>6. PromptIsLast'
    BY <1>4 DEF PromptIsLast, Answering
  <2>7. PartiesHaveLists'
    BY <1>1, <1>2, <1>4, <2>3 DEF PartiesHaveLists, TurnStates, InTry, Saving
  <2>8. RoundsAreCounted'
    BY <1>1, <1>2, <1>4, ConstantsAssumption DEF RoundsAreCounted, InTry
  <2>9. CountersFit'
    BY <1>2, <1>4 DEF CountersFit
  <2> QED BY <2>4, <2>5, <2>6, <2>7, <2>8, <2>9
<1> QED BY <1>2, <1>3, <1>4

LEMMA ReplyDirectlyKeeps == HistoryInv /\ ReplyDirectly => HistoryInv'
<1> SUFFICES ASSUME HistoryInv, ReplyDirectly PROVE HistoryInv'
  OBVIOUS
<1> USE DEF HistoryInv, ReplyDirectly, PutIntoSession, lists, coroutine, requests, kept, counters
<1>held. own \in Refs /\ own # NoRef
  BY ConstantsAssumption DEF PartiesHaveLists
<1> DEFINE r == own
           l == Append(heap[own], AssistantText)
<1>write. /\ r \in Refs /\ cut \subseteq cut' /\ Reachable' \subseteq Reachable \cup {r}
      /\ heap' = [heap EXCEPT ![r] = l]
  BY <1>held DEF PutIntoSession, Reachable, PartiesHaveLists
<1>sound. Sound(l, cut')
  BY <1>held, HeldIsSound, AppendIsSound, MessageForms
<1> HIDE DEF r, l
<1>1. /\ \A q \in Reachable' : Sound(heap'[q], cut')
      /\ heap' \in [Refs -> Seq(Message)]
      /\ heap'[r] = l /\ \A q \in Refs : q # r => heap'[q] = heap[q]
  BY <1>write, <1>sound, WriteIsSound
<1>2. ListsAreSound'
  BY <1>1, <1>held DEF ListsAreSound
<1>3. LoopIsSound'
  BY <1>1 DEF LoopIsSound
<1>4. PromptIsLast'
  BY <1>1 DEF PromptIsLast, Answering
<1>5. PartiesHaveLists'
  BY <1>1, <1>held DEF PartiesHaveLists, TurnStates, InTry, Saving
<1>6. RoundsAreCounted'
  BY <1>1 DEF RoundsAreCounted, InTry
<1>7. CountersFit'
  BY <1>1 DEF CountersFit
<1> QED BY <1>2, <1>3, <1>4, <1>5, <1>6, <1>7

LEMMA RetryKeeps == HistoryInv /\ Retry => HistoryInv'
<1> SUFFICES ASSUME HistoryInv, Retry PROVE HistoryInv'
  OBVIOUS
<1> USE DEF HistoryInv, Retry, Edit, lists, coroutine, requests, kept, counters
<1>held. session \in Refs /\ Sound(heap[session], cut)
  BY HeldIsSound DEF PartiesHaveLists
<1> DEFINE r == session
           l == pop_to_user(heap[session])
<1>write. /\ r \in Refs /\ cut \subseteq cut' /\ Reachable' \subseteq Reachable \cup {r}
      /\ heap' = [heap EXCEPT ![r] = l]
  BY <1>held DEF Reachable
<1>sound. Sound(l, cut')
  BY <1>held, PopIsSound
<1> HIDE DEF r, l
<1>1. /\ \A q \in Reachable' : Sound(heap'[q], cut')
      /\ heap' \in [Refs -> Seq(Message)]
      /\ heap'[r] = l /\ \A q \in Refs : q # r => heap'[q] = heap[q]
  BY <1>write, <1>sound, WriteIsSound
<1>own. turn \in Answering => heap'[own] = heap[own]
  <2> SUFFICES ASSUME turn \in Answering PROVE heap'[own] = heap[own]
    OBVIOUS
  <2>1. own \in Refs /\ heap[own] # <<>> /\ heap[own][Len(heap[own])].role = "user"
    BY MessageForms DEF PartiesHaveLists, PromptIsLast, Answering
  <2>2. CASE own = session
    BY <1>held, <1>1, <2>1, <2>2, PopIsSound DEF l, r
  <2>3. CASE own # session
    BY <1>1, <2>1, <2>3 DEF r
  <2> QED BY <2>2, <2>3
<1>2. ListsAreSound'
  BY <1>1 DEF ListsAreSound
<1>3. LoopIsSound'
  BY <1>1 DEF LoopIsSound
<1>4. PromptIsLast'
  BY <1>1, <1>own DEF PromptIsLast, Answering
<1>5. PartiesHaveLists'
  BY <1>1 DEF PartiesHaveLists, TurnStates, InTry, Saving
<1>6. RoundsAreCounted'
  BY <1>1 DEF RoundsAreCounted, InTry
<1>7. CountersFit'
  BY <1>1 DEF CountersFit
<1> QED BY <1>2, <1>3, <1>4, <1>5, <1>6, <1>7

LEMMA ResumeLoadedKeeps == HistoryInv /\ ResumeLoaded => HistoryInv'
<1> SUFFICES ASSUME HistoryInv, ResumeLoaded PROVE HistoryInv'
  OBVIOUS
<1> USE DEF HistoryInv, ResumeLoaded, lists, coroutine, requests, kept, counters
<1> DEFINE r == session'
           l == loading
<1>write. /\ r \in Refs /\ cut \subseteq cut' /\ Reachable' \subseteq Reachable \cup {r}
      /\ heap' = [heap EXCEPT ![r] = l]
  BY FreshIsFree DEF New, Reachable
<1>sound. Sound(l, cut')
  BY DEF ListsAreSound
<1> HIDE DEF r, l
<1>1. /\ \A q \in Reachable' : Sound(heap'[q], cut')
      /\ heap' \in [Refs -> Seq(Message)]
      /\ heap'[r] = l /\ \A q \in Refs : q # r => heap'[q] = heap[q]
  BY <1>write, <1>sound, WriteIsSound
<1>own. own \in Refs => heap'[own] = heap[own]
  BY <1>1, FreshIsFree DEF r, New
<1>2. ListsAreSound'
  BY <1>1 DEF ListsAreSound
<1>3. LoopIsSound'
  BY <1>1 DEF LoopIsSound
<1>4. PromptIsLast'
  BY <1>1, <1>own DEF PartiesHaveLists, PromptIsLast, Answering
<1>5. PartiesHaveLists'
  BY <1>1, <1>write DEF r, PartiesHaveLists, TurnStates, InTry, Saving
<1>6. RoundsAreCounted'
  BY <1>1 DEF RoundsAreCounted, InTry
<1>7. CountersFit'
  BY <1>1 DEF CountersFit
<1> QED BY <1>2, <1>3, <1>4, <1>5, <1>6, <1>7

\* The facts most steps of the router leave behind, however they change the
\* session's list: every list is sound, and the handler's is as it was.
RouterKeepsLists ==
  /\ \A q \in Reachable' : Sound(heap'[q], cut')
  /\ heap' \in [Refs -> Seq(Message)]
  /\ session' \in Refs \cup {NoRef}
  /\ session' = NoRef => session = NoRef
  /\ own \in Refs => heap'[own] = heap[own]

LEMMA NewSessionKeepsLists ==
  ASSUME HistoryInv, session' \in Refs, NEW l, New(session', l), Sound(l, cut'),
         cut \subseteq cut', UNCHANGED <<own, detached>>,
         summarizing' \in {summarizing, NoRef}
  PROVE  RouterKeepsLists
<1> DEFINE r == session'
<1>1. /\ r \in Refs /\ Reachable' \subseteq Reachable \cup {r}
      /\ heap' = [heap EXCEPT ![r] = l] /\ r # own /\ r # NoRef
  BY FreshIsFree, ConstantsAssumption DEF New, Reachable
<1> HIDE DEF r
<1>2. /\ \A q \in Reachable' : Sound(heap'[q], cut')
      /\ heap' \in [Refs -> Seq(Message)]
      /\ \A q \in Refs : q # r => heap'[q] = heap[q]
  BY <1>1, WriteIsSound
<1> QED BY <1>1, <1>2 DEF RouterKeepsLists, r

LEMMA SameKeepsLists ==
  ASSUME HistoryInv, UNCHANGED <<lists, own, detached, cut>>, summarizing' \in {summarizing, NoRef}
  PROVE  RouterKeepsLists
<1> USE DEF lists
<1>1. \A q \in Reachable' : Sound(heap'[q], cut')
  BY SameIsSound DEF Reachable
<1> QED BY <1>1 DEF RouterKeepsLists, HistoryInv, PartiesHaveLists

LEMMA StartTurnKeeps ==
  ASSUME HistoryInv, StartTurn, UNCHANGED <<summarizing, clearing, loading, kept>>,
         resending' \in BOOLEAN
  PROVE  HistoryInv'
<1> USE DEF HistoryInv, StartTurn, kept
<1>1. RouterKeepsLists
  <2>1. CASE session # NoRef /\ UNCHANGED lists
    BY <2>1, SameKeepsLists
  <2>2. CASE session = NoRef /\ session' \in Refs /\ New(session', <<>>)
    BY <2>2, NewSessionKeepsLists, EmptyIsSound
  <2> QED BY <2>1, <2>2
<1>2. ListsAreSound'
  BY <1>1 DEF ListsAreSound, RouterKeepsLists
<1>3. LoopIsSound'
  BY DEF LoopIsSound
<1>4. PromptIsLast'
  BY DEF PromptIsLast, Answering
<1>5. PartiesHaveLists'
  BY <1>1 DEF PartiesHaveLists, RouterKeepsLists, TurnStates, Saving
<1>6. RoundsAreCounted'
  BY DEF RoundsAreCounted, InTry
<1>7. CountersFit'
  BY DEF CountersFit
<1> QED BY <1>2, <1>3, <1>4, <1>5, <1>6, <1>7

LEMMA SendMessageKeeps == HistoryInv /\ SendMessage => HistoryInv'
BY StartTurnKeeps DEF SendMessage, requests, HistoryInv, CountersFit

LEMMA ResendKeeps == HistoryInv /\ Resend => HistoryInv'
BY StartTurnKeeps DEF Resend

LEMMA SummaryArrivesKeeps == HistoryInv /\ SummaryArrives => HistoryInv'
<1> DEFINE l == <<UserMessage>> \o LastN(heap[summarizing], SummaryKeep)
<1> SUFFICES ASSUME HistoryInv, SummaryArrives PROVE HistoryInv'
  OBVIOUS
<1> USE DEF HistoryInv, coroutine, kept
<1>arrives. /\ summarizing # NoRef /\ summarizing' = NoRef
      /\ \/ session # NoRef /\ session' \in Refs /\ New(session', l) /\ cut' = cut \cup Orphans(l)
         \/ session = NoRef /\ UNCHANGED <<lists, cut>>
      /\ UNCHANGED <<coroutine, clearing, loading, resending, kept, nextId, prompts, edits>>
  BY DEF SummaryArrives
<1>1. Sound(l, cut \cup Orphans(l)) /\ Orphans(l) \subseteq Ids
  BY <1>arrives, HeldIsSound, SummaryIsSound
<1> HIDE DEF l
<1>2. cut \subseteq cut' /\ cut' \subseteq Ids
  BY <1>arrives, <1>1 DEF CountersFit
<1>3. RouterKeepsLists
  <2>1. CASE session # NoRef /\ session' \in Refs /\ New(session', l) /\ cut' = cut \cup Orphans(l)
    <3>1. Sound(l, cut')
      BY <1>1, <2>1
    <3> QED BY <1>arrives, <1>2, <2>1, <3>1, NewSessionKeepsLists
  <2>2. CASE session = NoRef /\ UNCHANGED <<lists, cut>>
    BY <1>arrives, <2>2, SameKeepsLists
  <2> QED BY <1>arrives, <2>1, <2>2
<1>4. ListsAreSound'
  <2>1. \A k : Sound(k, cut) => Sound(k, cut')
    BY <1>2, SoundGrows
  <2> QED BY <1>arrives, <1>3, <2>1 DEF ListsAreSound, RouterKeepsLists
<1>5. LoopIsSound'
  <2>1. \A k : (Sound(k, cut) => Sound(k, cut')) /\ (Calling(k, cut) => Calling(k, cut'))
    BY <1>2, SoundGrows DEF Calling
  <2> QED BY <1>arrives, <2>1 DEF LoopIsSound
<1>6. PromptIsLast'
  BY <1>arrives, <1>3 DEF PromptIsLast, Answering, RouterKeepsLists, PartiesHaveLists
<1>7. PartiesHaveLists'
  BY <1>arrives, <1>3 DEF PartiesHaveLists, RouterKeepsLists, TurnStates, Saving
<1>8. RoundsAreCounted'
  BY <1>arrives DEF RoundsAreCounted, InTry
<1>9. CountersFit'
  BY <1>arrives, <1>2 DEF CountersFit
<1> QED BY <1>4, <1>5, <1>6, <1>7, <1>8, <1>9

LEMMA RollbackCompressionKeeps == HistoryInv /\ RollbackCompression => HistoryInv'
<1> SUFFICES ASSUME HistoryInv, RollbackCompression PROVE HistoryInv'
  OBVIOUS
<1> USE DEF HistoryInv, RollbackCompression, Edit, coroutine, requests
<1>1. RouterKeepsLists
  <2>1. CASE session # NoRef /\ snapshot # <<>> /\ session' \in Refs /\ New(session', snapshot)
    <3>1. Sound(snapshot, cut')
      BY DEF ListsAreSound
    <3> QED BY <2>1, <3>1, NewSessionKeepsLists
  <2>2. CASE UNCHANGED lists
    BY <2>2, SameKeepsLists
  <2> QED BY <2>1, <2>2
<1>2. ListsAreSound'
  BY <1>1 DEF ListsAreSound, RouterKeepsLists
<1>3. LoopIsSound'
  BY DEF LoopIsSound
<1>4. PromptIsLast'
  BY <1>1 DEF PromptIsLast, Answering, RouterKeepsLists, PartiesHaveLists
<1>5. PartiesHaveLists'
  BY <1>1 DEF PartiesHaveLists, RouterKeepsLists, TurnStates, Saving
<1>6. RoundsAreCounted'
  BY DEF RoundsAreCounted, InTry
<1>7. CountersFit'
  BY DEF CountersFit
<1> QED BY <1>2, <1>3, <1>4, <1>5, <1>6, <1>7

\* The user's message goes into the session's list or into one of its own.
LEMMA BeginTurnKeeps == HistoryInv /\ BeginTurn => HistoryInv'
<1> SUFFICES ASSUME HistoryInv, BeginTurn PROVE HistoryInv'
  OBVIOUS
<1> USE DEF HistoryInv, BeginTurn, requests, kept, counters
<1> DEFINE l == IF session # NoRef THEN Append(heap[session], UserMessage) ELSE <<UserMessage>>
           r == own'
<1>1. /\ r \in Refs /\ cut \subseteq cut' /\ Reachable' \subseteq Reachable \cup {r}
      /\ heap' = [heap EXCEPT ![r] = l]
  BY FreshIsFree DEF New, Reachable, PartiesHaveLists
<1>2. Sound(l, cut')
  BY HeldIsSound, AppendIsSound, PromptIsSound, MessageForms
<1>3. l # <<>> /\ l[Len(l)] = UserMessage
  <2>1. CASE session # NoRef
    <3>1. heap[session] \in Seq(Chat)
      BY <2>1, HeldIsSound DEF Sound
    <3> HIDE DEF UserMessage
    <3> QED BY <2>1, <3>1, AppendFacts, MessageForms
  <2>2. CASE session = NoRef
    BY <2>2
  <2> QED BY <2>1, <2>2
<1> HIDE DEF l, r
<1>4. /\ \A q \in Reachable' : Sound(heap'[q], cut')
      /\ heap' \in [Refs -> Seq(Message)] /\ heap'[r] = l
  BY <1>1, <1>2, WriteIsSound
<1>5. ListsAreSound'
  BY <1>4 DEF ListsAreSound
<1>6. LoopIsSound'
  BY DEF LoopIsSound
<1>7. PromptIsLast'
  BY <1>3, <1>4 DEF PromptIsLast, Answering, r
<1>8. PartiesHaveLists'
  BY <1>1, <1>4 DEF PartiesHaveLists, TurnStates, Saving, r
<1>9. RoundsAreCounted'
  BY ConstantsAssumption DEF RoundsAreCounted, InTry
<1>10. CountersFit'
  BY DEF CountersFit
<1> QED BY <1>5, <1>6, <1>7, <1>8, <1>9, <1>10

LEMMA StutterKeeps == HistoryInv /\ UNCHANGED historyVars => HistoryInv'
BY DEF HistoryInv, ListsAreSound, LoopIsSound, PromptIsLast, PartiesHaveLists, RoundsAreCounted,
       CountersFit, Reachable, historyVars, lists, coroutine, requests, kept, counters

LEMMA HistoryInvHolds == HistorySpec => []HistoryInv
<1>1. HistoryInit => HistoryInv
  BY InitSound
<1>2. HistoryInv /\ Turn => HistoryInv'
  BY BeginTurnKeeps, EndUnrecordedKeeps, ReplyDirectlyKeeps, EnterLoopKeeps,
     CountSufficesKeeps, CountExceedsKeeps, CompressionEndsKeeps,
     AnswerTextKeeps, AnswerCallsKeeps, ToolsReturnKeeps, SaveTurnKeeps,
     TurnCompletesKeeps, FailInTryKeeps, SaveAndEndKeeps
     DEF Turn
<1>3. HistoryInv /\ Router => HistoryInv'
  BY SendMessageKeeps, SummarizeContextKeeps, SummaryArrivesKeeps,
     SummaryFailsKeeps, RetryKeeps, ResendKeeps, ResendRefusedKeeps,
     RollbackCompressionKeeps, SubAgentCompressesKeeps, ClearConversationKeeps,
     ClearSavedKeeps, ResumeConversationKeeps, ResumeLoadedKeeps
     DEF Router
<1>4. HistoryInv /\ [HistoryNext]_historyVars => HistoryInv'
  BY <1>2, <1>3, StutterKeeps DEF HistoryNext
<1> QED BY <1>1, <1>4, PTL DEF HistorySpec

\* Every variable of a conversation keeps its shape, and the loop stops after
\* max_turns requests (agent.py), whatever else happens to the conversation.
THEOREM HistoryTypeCorrect == HistorySpec => []HistoryTypeOK
<1>1. HistoryInv => HistoryTypeOK
  <2> SUFFICES ASSUME HistoryInv PROVE HistoryTypeOK
    OBVIOUS
  <2> USE DEF HistoryInv
  <2>1. \A l, c : Sound(l, c) => l \in Seq(Message)
    BY ChatIsMessage DEF Sound
  <2>2. \A l, c : Calling(l, c) => l \in Seq(Message)
    BY ChatIsMessage DEF Calling
  <2>3. working \in Seq(Message)
    <3>1. Sound(working, cut) \/ Calling(working, cut)
      BY EmptyIsSound DEF LoopIsSound
    <3> QED BY <2>1, <2>2, <3>1
  <2>4. {loading, snapshot} \subseteq Seq(Message) \cup {NoList} /\ stored \in Seq(Message)
    BY <2>1 DEF ListsAreSound
  <2> QED BY <2>3, <2>4 DEF HistoryTypeOK, PartiesHaveLists, RoundsAreCounted, CountersFit
<1> QED BY <1>1, HistoryInvHolds, PTL

\* For every number of messages kept, every limit of the loop and every list
\* object: no tool_use outside the loop, and none in a request, is without its
\* result, and a result without its call comes from a summary (agent.py:41,
\* context.py:109).
THEOREM ToolPairsCorrect == HistorySpec => []ToolPairsAreKept
<1>1. HistoryInv => ToolPairsAreKept
  <2> SUFFICES ASSUME HistoryInv PROVE ToolPairsAreKept
    OBVIOUS
  <2> USE DEF HistoryInv
  <2>1. \A l \in Histories : Sound(l, cut)
    BY DEF Histories, ListsAreSound
  <2>2. \A l : Sound(l, cut) => Dangling(l) = {} /\ Orphans(l) \subseteq cut
    BY DanglingWhole, OrphansWithin DEF Sound
  <2>3. \A l : Calling(l, cut) => Orphans(l) \subseteq cut
    BY OrphansWithin DEF Calling
  <2>4. UsesAreAnswered
    BY <2>1, <2>2 DEF UsesAreAnswered, LoopIsSound
  <2>5. Orphans(working) \subseteq cut
    BY <2>2, <2>3, EmptyIsSound DEF LoopIsSound
  <2>6. OrphansComeFromSummaries
    BY <2>1, <2>2, <2>5 DEF OrphansComeFromSummaries
  <2> QED BY <2>4, <2>6 DEF ToolPairsAreKept
<1> QED BY <1>1, HistoryInvHolds, PTL

\* A turn stopped or failed within the loop leaves the list of the handler as
\* the user's message left it: the repair of the except branches finds nothing
\* to repair, and retry can send the message again.
THEOREM RetryCorrect == HistorySpec => FailedTurnCanBeRetried
<1> DEFINE A == turn' \in {"failing", "closing"}
                  /\ turn \in {"counting", "compressing", "streaming", "tools"}
                  => heap'[own'] # <<>> /\ heap'[own'][Len(heap'[own'])] = UserMessage
<1>1. HistoryInv /\ [HistoryNext]_historyVars => [A]_historyVars
  <2> SUFFICES ASSUME HistoryInv, HistoryNext, turn' \in {"failing", "closing"},
                      turn \in {"counting", "compressing", "streaming", "tools"}
               PROVE  heap'[own'] # <<>> /\ heap'[own'][Len(heap'[own'])] = UserMessage
    OBVIOUS
  <2>1. FailInTry
    <3>1. ~Router
      BY DEF Router, SendMessage, StartTurn, SummarizeContext, SummaryArrives, SummaryFails, Retry,
             Resend, ResendRefused, RollbackCompression, SubAgentCompresses, ClearConversation,
             ClearSaved, ResumeConversation, ResumeLoaded, coroutine
    <3>2. Turn => FailInTry
      BY DEF Turn, BeginTurn, EndUnrecorded, Over, ReplyDirectly, EnterLoop, CountSuffices,
             CountExceeds, CompressionEnds, AnswerText, AnswerCalls, ToolsReturn, FinishLoop,
             PutIntoSession, SaveTurn, TurnCompletes, SaveAndEnd
    <3> QED BY <3>1, <3>2 DEF HistoryNext
  <2>2. /\ own \in Refs /\ own # NoRef
        /\ heap[own] # <<>> /\ heap[own][Len(heap[own])] = UserMessage
    BY ConstantsAssumption DEF HistoryInv, PromptIsLast, Answering, PartiesHaveLists
  <2>3. repair_tool_use_pairs(heap[own]) = heap[own]
    BY <2>2, HeldIsSound, RepairKeepsWhole DEF Sound
  <2>4. heap'[own'] = heap[own]
    <3>1. own' \in Refs /\ heap' = [heap EXCEPT ![own'] = heap[own]]
      BY <2>1, <2>3 DEF FailInTry, New
    <3> QED BY <3>1 DEF HistoryInv, PartiesHaveLists
  <2> QED BY <2>2, <2>4
<1>2. HistorySpec => [][A]_historyVars
  BY <1>1, HistoryInvHolds, PTL DEF HistorySpec
<1> QED BY <1>2 DEF FailedTurnCanBeRetried
=============================================================================
