------------------------ MODULE Conversations_proofs ------------------------
(***************************************************************************)
(* Proofs about Conversations for any set of cids and any bounds: a        *)
(* session has one row, what a turn_complete named is saved, and the saved *)
(* histories implement ConversationLog.                                    *)
(***************************************************************************)
EXTENDS Conversations, TLAPS

(* Types and control *)

HistoryOK == /\ created \subseteq Objects \X Convs
             /\ rolled \subseteq Convs
             /\ told \subseteq Exchanges \X Convs

\* The lock of a cid is held by the one save of the cid that is past it.
LockOK ==
    /\ \A k \in Cids : locks[k] # Idle =>
           /\ locks[k][1] = k
           /\ Saving(locks[k]) /\ saves[locks[k]].stage # "lock"
    /\ \A p \in Savers : Saving(p) /\ saves[p].stage # "lock" => locks[p[1]] = p

\* A save has its row when it comes to write it.
StageOK == \A p \in Savers :
    Saving(p) => (saves[p].stage \in {"update", "commit"} <=> saves[p].conv # 0)

\* A caller awaits its save: a turn at its end, or a clear, which drops the
\* session afterwards, or a disconnect.
CallersOK ==
    \A k \in Cids :
        /\ Saving(<<k, "turn">>) => turns[k] # Idle /\ turns[k].stage \in {"save", "resave"}
        /\ turns[k] # Idle /\ turns[k].stage = "save" => Saving(<<k, "turn">>)
        /\ Saving(<<k, "event">>) => sess[k] = saves[<<k, "event">>].obj

\* A turn works on a list with its exchange.
TurnsOK == \A k \in Cids :
    /\ turns[k] # Idle /\ turns[k].stage = "load" => turns[k].hint # 0
    /\ Running(k) => turns[k].exchange \in turns[k].messages \cup dropped

\* What was read from a row is of a row that is there.
ReadOK ==
    /\ \A k \in Cids : turns[k] # Idle /\ turns[k].hint # 0 => rows[turns[k].hint] # NoRow
    /\ router # Idle /\ router.op = "resume" =>
           router.conv \in Convs /\ rows[router.conv] # NoRow

\* What is referred to is there.
LiveOK ==
    /\ \A k \in Cids : /\ sess[k] # 0 => objs[sess[k]] # Idle
                       /\ turns[k] # Idle => objs[turns[k].obj] # Idle
    /\ \A p \in Savers : Saving(p) => objs[saves[p].obj] # Idle

TypeInv == TypeOK /\ HistoryOK /\ LiveOK /\ LockOK /\ StageOK /\ CallersOK /\ TurnsOK /\ ReadOK

----------------------------------------------------------------------------
LEMMA SaverIsPair ==
    /\ \A p \in Savers : p[1] \in Cids /\ p[2] \in {"turn", "event"} /\ p = <<p[1], p[2]>>
    /\ \A k \in Cids, v \in {"turn", "event"} :
           <<k, v>> \in Savers /\ <<k, v>>[1] = k /\ <<k, v>>[2] = v
  BY DEF Savers

LEMMA ContestGrows ==
    ASSUME NEW S, S \subseteq Convs, Contest(S), contested \subseteq Convs
    PROVE  /\ contested \subseteq contested' /\ S \subseteq contested'
           /\ contested' \subseteq Convs
           /\ \A c \in Convs : HeldTwice(c)' => c \in contested'
  BY DEF Contest

LEMMA InitTypeInv == Init => TypeInv
  BY ConstantsAssumption, SaverIsPair
  DEF Init, TypeInv, TypeOK, HistoryOK, LiveOK, LockOK, StageOK, CallersOK, TurnsOK, ReadOK,
      Running, Saving, Convs, Lists

LEMMA ListIsNoRow == \A l \in Lists : l # NoRow
  BY ConstantsAssumption DEF Lists, Cut, Exchanges

\* Rows stay, and who reads one names it at once.
LEMMA ReadStep ==
    ASSUME TypeInv, router' \in {router, Idle},
           \A c \in Convs : rows[c] # NoRow => rows'[c] # NoRow,
           \A k \in Cids : turns'[k] # Idle =>
               turns[k] # Idle /\ turns'[k].hint \in {turns[k].hint, 0}
    PROVE  ReadOK'
<1>1. \A k \in Cids : turns[k] # Idle /\ turns[k].hint # 0 => turns[k].hint \in Convs
  BY DEF TypeInv, TypeOK, Turn, Convs
<1> QED
  BY <1>1 DEF TypeInv, ReadOK


\* Who called a save goes on in one of these ways.
LEMMA ReturnTypes ==
    ASSUME TypeInv, NEW p \in Savers, Saving(p), NEW c \in Convs,
           Release(p), Returned(p, c), UNCHANGED dropped
    PROVE  /\ sess' \in [Cids -> Objects \cup {0}]
           /\ turns' \in [Cids -> Turn \cup {Idle}]
           /\ told' \subseteq Exchanges \X Convs
           /\ saves' \in [Savers -> Save \cup {Idle}]
           /\ locks' \in [Cids -> Savers \cup {Idle}]
           /\ CallersOK' /\ TurnsOK'
           /\ \A k \in Cids : turns'[k] # Idle => turns'[k] = turns[k]
<1> USE SaverIsPair DEF TypeInv, TypeOK, HistoryOK
<1>1. CASE p[2] = "event"
  BY <1>1 DEF Release, Returned, CallersOK, TurnsOK, Running, Saving
<1>2. CASE p[2] = "turn"
  <2> DEFINE k == p[1]
  <2>1. k \in Cids /\ p = <<k, "turn">> /\ turns[k] # Idle /\ turns[k] \in Turn
    <3>1. k \in Cids /\ p = <<k, "turn">>
      BY <1>2
    <3>2. turns[k] # Idle
      BY ZenonT(60), <3>1 DEF CallersOK
    <3> QED
      BY <3>1, <3>2
  <2>2. turns' = [turns EXCEPT ![k] = Idle] /\ UNCHANGED sess
    BY <1>2 DEF Returned
  <2>3. told' = told \cup {<<turns[k].exchange, c>>} \/ told' = told
    BY <1>2 DEF Returned
  <2>4. told' \subseteq Exchanges \X Convs
    BY <2>1, <2>3 DEF Turn
  <2>5. CallersOK' /\ TurnsOK'
    BY <2>1, <2>2 DEF Release, CallersOK, TurnsOK, Running, Saving
  <2> QED
    BY <2>1, <2>2, <2>4, <2>5 DEF Release
<1> QED
  BY <1>1, <1>2


LEMMA SaveTypes ==
    ASSUME TypeInv, NEW p \in Savers, Saving(p)
    PROVE  /\ saves[p] \in Save /\ p[1] \in Cids
           /\ saves[p].obj \in Objects /\ objs[saves[p].obj] \in Session
           /\ objs[saves[p].obj].conv \in 0..MaxConvs
           /\ objs[saves[p].obj].messages \in Lists
<1>1. saves[p] \in Save /\ p[1] \in Cids
  BY SaverIsPair DEF TypeInv, TypeOK, Saving
<1>2. saves[p].obj \in Objects /\ objs[saves[p].obj] \in Session
  BY <1>1 DEF TypeInv, TypeOK, LiveOK, Save
<1> QED
  BY <1>1, <1>2 DEF Session

LEMMA SaveChanges ==
    ASSUME TypeInv, NEW p \in Savers, NEW s \in Save \cup {Idle},
           saves' = [saves EXCEPT ![p] = s]
    PROVE  /\ saves'[p] = s
           /\ \A q \in Savers : q # p => saves'[q] = saves[q]
           /\ saves' \in [Savers -> Save \cup {Idle}]
  BY DEF TypeInv, TypeOK

\* The steps of a save preserve the type invariant.
LEMMA AcquireTypeInv ==
  ASSUME TypeInv, NEW p \in Savers, AcquireSaveLock(p)
  PROVE  TypeInv'
<1> DEFINE o == saves[p].obj
           c == objs[o].conv
           s == [saves[p] EXCEPT !.conv = c, !.stage = IF c = 0 THEN "create" ELSE "update"]
<1>1. Saving(p) /\ saves[p] \in Save /\ p[1] \in Cids /\ c \in 0..MaxConvs
  BY SaveTypes DEF AcquireSaveLock
<1>2. /\ saves' = [saves EXCEPT ![p] = s]
      /\ locks' = [locks EXCEPT ![p[1]] = p]
      /\ UNCHANGED <<sess, objs, turns, rows, fork, snapshots, router, rewrites, dropped, ids, exchanges, faults, created, rolled, told>>
  BY DEF AcquireSaveLock, memory, history, rewriting, counters
<1>3. contested' \subseteq Convs
  BY ContestGrows DEF AcquireSaveLock, TypeInv, TypeOK
<1>4. /\ s \in Save /\ s.conv = c /\ s.obj = o
      /\ s.stage = IF c = 0 THEN "create" ELSE "update"
  BY <1>1 DEF Save
<1> HIDE DEF s
<1>5. /\ saves'[p] = s /\ \A q \in Savers : q # p => saves'[q] = saves[q]
      /\ saves' \in [Savers -> Save \cup {Idle}]
  BY <1>2, <1>4, SaveChanges
<1>6. TypeOK' /\ HistoryOK'
  BY <1>1, <1>2, <1>3, <1>4, <1>5, IdleAssumption DEF TypeInv, TypeOK, HistoryOK
<1>7. LiveOK' /\ StageOK'
  BY <1>1, <1>2, <1>4, <1>5, ConstantsAssumption DEF TypeInv, LiveOK, StageOK, Saving
<1>8. LockOK'
  BY <1>1, <1>2, <1>4, <1>5, IdleAssumption, SaverIsPair
  DEF TypeInv, TypeOK, LockOK, AcquireSaveLock, Saving
<1>9. CallersOK' /\ TurnsOK'
  BY <1>1, <1>2, <1>4, <1>5, IdleAssumption, SaverIsPair DEF TypeInv, CallersOK, TurnsOK, Running, Saving
<1>10. ReadOK'
  BY <1>2, ReadStep
<1> QED
  BY <1>6, <1>7, <1>8, <1>9, <1>10 DEF TypeInv

LEMMA FlushTypeInv ==
  ASSUME TypeInv, NEW p \in Savers, FlushNewRow(p)
  PROVE  TypeInv'
<1> DEFINE o == saves[p].obj
           s == [saves[p] EXCEPT !.conv = ids', !.stage = "commit", !.messages = objs[o].messages]
           n == [objs[o] EXCEPT !.conv = ids']
<1>1. /\ Saving(p) /\ saves[p] \in Save /\ p[1] \in Cids /\ o \in Objects
      /\ objs[o] \in Session /\ objs[o].messages \in Lists
  BY SaveTypes DEF FlushNewRow
<1>2. /\ saves' = [saves EXCEPT ![p] = s] /\ objs' = [objs EXCEPT ![o] = n]
      /\ created' = created \cup {<<o, ids'>>}
      /\ UNCHANGED <<sess, turns, locks, rows, fork, snapshots, router, rewrites, dropped, exchanges, faults, rolled, told>>
  BY DEF FlushNewRow, rewriting
<1>3. ids' \in 1..MaxConvs /\ ids' \in 0..MaxConvs
  BY ConstantsAssumption DEF FlushNewRow, TypeInv, TypeOK
<1>4. contested' \subseteq Convs
  BY <1>3, ContestGrows DEF FlushNewRow, TypeInv, TypeOK, Convs
<1>5. /\ s \in Save /\ s.conv = ids' /\ s.obj = o /\ s.stage = "commit"
      /\ n \in Session
  <2>1. s \in Save /\ s.conv = ids' /\ s.obj = o /\ s.stage = "commit"
    BY <1>1, <1>3 DEF Save
  <2>2. n \in Session
    BY <1>1, <1>3 DEF Session
  <2> QED
    BY <2>1, <2>2
<1> HIDE DEF s, n
<1>6. /\ saves'[p] = s /\ \A q \in Savers : q # p => saves'[q] = saves[q]
      /\ saves' \in [Savers -> Save \cup {Idle}]
  BY <1>2, <1>5, SaveChanges
<1>7. TypeOK' /\ HistoryOK'
  BY <1>1, <1>2, <1>3, <1>4, <1>5, <1>6, IdleAssumption DEF TypeInv, TypeOK, HistoryOK, Convs
<1>8. LiveOK' /\ StageOK'
  BY <1>1, <1>2, <1>3, <1>5, <1>6, IdleAssumption DEF TypeInv, TypeOK, LiveOK, StageOK, Saving
<1>9. LockOK'
  BY <1>1, <1>2, <1>5, <1>6, IdleAssumption, SaverIsPair
  DEF TypeInv, TypeOK, LockOK, FlushNewRow, Saving
<1>10. CallersOK' /\ TurnsOK'
  BY <1>2, <1>5, <1>6, IdleAssumption, SaverIsPair DEF TypeInv, CallersOK, TurnsOK, Running, Saving, FlushNewRow
<1>11. ReadOK'
  BY <1>2, ReadStep
<1> QED
  BY <1>7, <1>8, <1>9, <1>10, <1>11 DEF TypeInv

LEMMA UpdateTypeInv ==
  ASSUME TypeInv, NEW p \in Savers, UpdateRow(p)
  PROVE  TypeInv'
<1> DEFINE s == [saves[p] EXCEPT !.stage = "commit", !.messages = objs[saves[p].obj].messages]
<1>1. Saving(p) /\ saves[p] \in Save /\ objs[saves[p].obj].messages \in Lists
  BY SaveTypes DEF UpdateRow
<1>2. /\ saves' = [saves EXCEPT ![p] = s]
      /\ UNCHANGED <<memory, turns, locks, rows, fork, snapshots, router, rewrites, dropped, ids, exchanges, faults, created, rolled, told>>
  BY DEF UpdateRow, history, rewriting, counters
<1>3. contested' \subseteq Convs
  BY ContestGrows DEF UpdateRow, TypeInv, TypeOK
<1>4. s \in Save /\ s.conv = saves[p].conv /\ s.obj = saves[p].obj /\ s.stage = "commit"
  BY <1>1 DEF Save
<1> HIDE DEF s
<1>5. /\ saves'[p] = s /\ \A q \in Savers : q # p => saves'[q] = saves[q]
      /\ saves' \in [Savers -> Save \cup {Idle}]
  BY <1>2, <1>4, SaveChanges
<1>6. TypeOK' /\ HistoryOK'
  BY <1>1, <1>2, <1>3, <1>4, <1>5, IdleAssumption DEF TypeInv, TypeOK, HistoryOK, memory
<1>7. LiveOK' /\ StageOK'
  BY <1>1, <1>2, <1>4, <1>5 DEF TypeInv, LiveOK, StageOK, Saving, memory, UpdateRow
<1>8. LockOK'
  BY <1>1, <1>2, <1>4, <1>5, IdleAssumption, SaverIsPair
  DEF TypeInv, TypeOK, LockOK, UpdateRow, Saving
<1>9. CallersOK' /\ TurnsOK'
  BY <1>2, <1>4, <1>5, IdleAssumption, SaverIsPair
  DEF TypeInv, CallersOK, TurnsOK, Running, Saving, UpdateRow, memory
<1>10. ReadOK'
  BY <1>2, ReadStep
<1> QED
  BY <1>6, <1>7, <1>8, <1>9, <1>10 DEF TypeInv

\* A save that ends leaves the lock.
LEMMA ReleaseKeepsLocks ==
    ASSUME TypeInv, NEW p \in Savers, Saving(p), saves[p].stage = "commit", Release(p)
    PROVE  /\ LockOK' /\ StageOK'
           /\ saves'[p] = Idle /\ (\A q \in Savers : q # p => saves'[q] = saves[q])
           /\ saves' \in [Savers -> Save \cup {Idle}]
           /\ locks' \in [Cids -> Savers \cup {Idle}]
           /\ \A k \in Cids : locks'[k] # Idle => saves'[locks'[k]] # Idle
<1>1. p[1] \in Cids /\ locks[p[1]] = p
  BY SaverIsPair DEF TypeInv, LockOK
<1>2. /\ saves'[p] = Idle /\ (\A q \in Savers : q # p => saves'[q] = saves[q])
      /\ saves' \in [Savers -> Save \cup {Idle}]
  BY SaveChanges DEF Release
<1>3. /\ locks' \in [Cids -> Savers \cup {Idle}]
      /\ locks'[p[1]] = Idle /\ \A k \in Cids : k # p[1] => locks'[k] = locks[k]
  BY <1>1 DEF TypeInv, TypeOK, Release
<1>4. LockOK'
  <2>1. ASSUME NEW k \in Cids, (locks[k] # Idle)'
        PROVE  (locks[k][1] = k /\ Saving(locks[k]) /\ saves[locks[k]].stage # "lock")'
    <3>1. k # p[1] /\ locks'[k] = locks[k]
      BY <1>3, <2>1
    <3>2. locks[k] \in Savers /\ locks[k][1] = k /\ Saving(locks[k]) /\ saves[locks[k]].stage # "lock"
      BY <2>1, <3>1 DEF TypeInv, TypeOK, LockOK
    <3> QED
      BY <1>2, <3>1, <3>2 DEF Saving
  <2>2. ASSUME NEW q \in Savers, (Saving(q) /\ saves[q].stage # "lock")'
        PROVE  (locks[q[1]] = q)'
    <3>1. q # p /\ saves'[q] = saves[q] /\ Saving(q)
      BY <1>2, <2>2 DEF Saving
    <3>2. locks[q[1]] = q /\ q[1] \in Cids
      BY <2>2, <3>1, SaverIsPair DEF TypeInv, LockOK
    <3> QED
      BY <1>1, <1>3, <3>1, <3>2
  <2> QED
    BY <2>1, <2>2 DEF LockOK
<1>5. StageOK'
  BY <1>2 DEF TypeInv, StageOK, Saving
<1> QED
  BY <1>2, <1>3, <1>4, <1>5 DEF LockOK, Saving

LEMMA CommitTypeInv ==
  ASSUME TypeInv, NEW p \in Savers, CommitSave(p)
  PROVE  TypeInv'
<1> DEFINE c == saves[p].conv
<1>1. Saving(p) /\ saves[p] \in Save /\ p[1] \in Cids /\ saves[p].stage = "commit"
  BY SaveTypes DEF CommitSave
<1>2. c \in Convs /\ saves[p].messages \in Lists
  BY <1>1 DEF TypeInv, StageOK, Save, Convs
<1>3. /\ rows' = [rows EXCEPT ![c] = saves[p].messages]
      /\ Release(p) /\ Returned(p, c)
      /\ UNCHANGED <<objs, fork, snapshots, router, rewrites, dropped, ids, exchanges, faults, created, rolled>>
  BY DEF CommitSave, rewriting, counters
<1>4. contested' \subseteq Convs
  BY ContestGrows DEF CommitSave, TypeInv, TypeOK
<1>5. /\ sess' \in [Cids -> Objects \cup {0}]
      /\ turns' \in [Cids -> Turn \cup {Idle}]
      /\ told' \subseteq Exchanges \X Convs
      /\ CallersOK' /\ TurnsOK'
      /\ \A k \in Cids : turns'[k] # Idle => turns'[k] = turns[k]
  BY <1>1, <1>2, <1>3, ReturnTypes
<1>6. /\ LockOK' /\ StageOK'
      /\ saves'[p] = Idle /\ (\A q \in Savers : q # p => saves'[q] = saves[q])
      /\ saves' \in [Savers -> Save \cup {Idle}]
      /\ locks' \in [Cids -> Savers \cup {Idle}]
      /\ \A k \in Cids : locks'[k] # Idle => saves'[locks'[k]] # Idle
  BY <1>1, <1>3, ReleaseKeepsLocks
<1>7. TypeOK' /\ HistoryOK'
  BY <1>2, <1>3, <1>4, <1>5, <1>6 DEF TypeInv, TypeOK, HistoryOK
<1>8. \A k \in Cids : sess'[k] \in {sess[k], 0}
  BY <1>1, <1>3 DEF Returned, TypeInv, TypeOK
<1>9. LiveOK'
  BY <1>3, <1>5, <1>6, <1>8, ConstantsAssumption DEF TypeInv, LiveOK, Saving
<1>10. saves[p].messages # NoRow
  BY <1>2, ListIsNoRow
<1>11. ReadOK'
  BY <1>2, <1>3, <1>5, <1>10, ReadStep DEF TypeInv, TypeOK
<1> QED
  BY <1>5, <1>6, <1>7, <1>9, <1>11 DEF TypeInv

LEMMA RollBackTypeInv ==
  ASSUME TypeInv, NEW p \in Savers, RollBack(p)
  PROVE  TypeInv'
<1> DEFINE c == saves[p].conv
           k == p[1]
<1>1. Saving(p) /\ saves[p] \in Save /\ k \in Cids /\ saves[p].stage = "commit"
  BY SaveTypes DEF RollBack
<1>2. c \in Convs
  BY <1>1 DEF TypeInv, StageOK, Save, Convs
<1>3. /\ Release(p) /\ Raised(p)
      /\ rolled' \in {rolled, rolled \cup {c}} /\ faults' \in 0..MaxFaults
      /\ UNCHANGED <<sess, objs, rows, fork, snapshots, router, rewrites, dropped, ids, exchanges, created, told>>
  BY ConstantsAssumption DEF RollBack, memory, TypeInv, TypeOK, rewriting, counters
<1>4. contested' \subseteq Convs
  BY ContestGrows DEF RollBack, TypeInv, TypeOK
<1>5. /\ LockOK' /\ StageOK'
      /\ saves'[p] = Idle /\ (\A q \in Savers : q # p => saves'[q] = saves[q])
      /\ saves' \in [Savers -> Save \cup {Idle}]
      /\ locks' \in [Cids -> Savers \cup {Idle}]
      /\ \A j \in Cids : locks'[j] # Idle => saves'[locks'[j]] # Idle
  BY <1>1, <1>3, ReleaseKeepsLocks
<1>6. /\ turns' \in [Cids -> Turn \cup {Idle}]
      /\ \A j \in Cids : turns'[j] # Idle => /\ turns[j] # Idle /\ turns'[j].obj = turns[j].obj
                                             /\ turns'[j].hint = turns[j].hint
      /\ CallersOK' /\ TurnsOK'
  <2>1. CASE p[2] = "event"
    BY <1>1, <1>3, <1>5, <2>1, SaverIsPair
    DEF Raised, TypeInv, TypeOK, CallersOK, TurnsOK, Running, Saving
  <2>2. CASE p[2] = "turn"
    <3>1. p = <<k, "turn">>
      BY <2>2, SaverIsPair
    <3>2. turns[k] # Idle /\ turns[k] \in Turn /\ turns[k].stage \in {"save", "resave"}
      BY <1>1, <3>1 DEF TypeInv, TypeOK, CallersOK
    <3> DEFINE t == IF turns[k].stage = "save" THEN [turns[k] EXCEPT !.stage = "resave"] ELSE Idle
    <3>3. turns' = [turns EXCEPT ![k] = t]
      BY <1>3, <2>2 DEF Raised
    <3>4. /\ t \in Turn \cup {Idle}
          /\ t # Idle => /\ t.obj = turns[k].obj /\ t.stage = "resave" /\ t.hint = turns[k].hint
                         /\ t.exchange = turns[k].exchange /\ t.messages = turns[k].messages
      BY <3>2 DEF Turn
    <3> HIDE DEF t
    <3>5. /\ turns' \in [Cids -> Turn \cup {Idle}]
          /\ turns'[k] = t /\ \A j \in Cids : j # k => turns'[j] = turns[j]
      BY <1>1, <3>3, <3>4 DEF TypeInv, TypeOK
    <3>6. TurnsOK'
      BY <1>3, <3>2, <3>4, <3>5 DEF TypeInv, TurnsOK, Running
    <3>7. CallersOK'
      <4> SUFFICES ASSUME NEW j \in Cids
                   PROVE
            /\ Saving(<<j, "turn">>)' => turns'[j] # Idle /\ turns'[j].stage \in {"save", "resave"}
            /\ turns'[j] # Idle /\ turns'[j].stage = "save" => Saving(<<j, "turn">>)'
            /\ Saving(<<j, "event">>)' => sess'[j] = saves'[<<j, "event">>].obj
        BY DEF CallersOK
      <4>1. <<j, "event">> \in Savers /\ <<j, "turn">> \in Savers /\ <<j, "event">> # p
        BY <3>1, SaverIsPair
      <4>2. saves'[<<j, "event">>] = saves[<<j, "event">>]
        BY <1>5, <4>1
      <4>3. CASE j = k
        BY <1>3, <1>5, <3>1, <3>4, <3>5, <4>2, <4>3 DEF TypeInv, CallersOK, Saving
      <4>4. CASE j # k
        <5>1. <<j, "turn">> # p
          BY <3>1, <4>4
        <5>2. saves'[<<j, "turn">>] = saves[<<j, "turn">>] /\ turns'[j] = turns[j]
          BY <1>5, <3>5, <4>1, <4>4, <5>1
        <5> QED
          BY <1>3, <4>2, <5>2 DEF TypeInv, CallersOK, Saving
      <4> QED
        BY <4>3, <4>4
    <3> QED
      BY <3>2, <3>4, <3>5, <3>6, <3>7
  <2> QED
    BY <2>1, <2>2, SaverIsPair
<1>7. TypeOK' /\ HistoryOK'
  BY <1>2, <1>3, <1>4, <1>5, <1>6 DEF TypeInv, TypeOK, HistoryOK
<1>8. LiveOK'
  BY <1>3, <1>5, <1>6, ConstantsAssumption DEF TypeInv, LiveOK, Saving
<1>9. ReadOK'
  BY <1>3, <1>6, ReadStep
<1> QED
  BY <1>5, <1>6, <1>7, <1>8, <1>9 DEF TypeInv

\* A new session disturbs nobody who has one.
LEMMA CreateTypes ==
    ASSUME TypeInv, NEW k \in Cids, NEW o \in Objects, NEW s \in Session,
           sess[k] = 0, create_conv_session(k, o, s)
    PROVE  /\ sess' \in [Cids -> Objects \cup {0}] /\ objs' \in [Objects -> Session \cup {Idle}]
           /\ objs[o] = Idle /\ sess'[k] = o /\ objs'[o] = s
           /\ \A j \in Cids : j # k => sess'[j] = sess[j]
           /\ \A x \in Objects : x # o => objs'[x] = objs[x]
           /\ \A x \in Objects : objs[x] # Idle => objs'[x] = objs[x]
           /\ ~Saving(<<k, "event">>)
<1>1. ~Saving(<<k, "event">>)
  <2> SUFFICES ASSUME Saving(<<k, "event">>)
               PROVE  FALSE
    OBVIOUS
  <2>1. <<k, "event">> \in Savers
    BY SaverIsPair
  <2>2. saves[<<k, "event">>].obj \in Objects
    BY <2>1, SaveTypes
  <2>3. sess[k] = saves[<<k, "event">>].obj
    BY DEF TypeInv, CallersOK
  <2> QED
    BY <2>2, <2>3, ConstantsAssumption
<1>2. objs[o] = Idle /\ sess' = [sess EXCEPT ![k] = o] /\ objs' = [objs EXCEPT ![o] = s]
  BY DEF create_conv_session, Fresh
<1>3. sess \in [Cids -> Objects \cup {0}] /\ objs \in [Objects -> Session \cup {Idle}]
  BY DEF TypeInv, TypeOK
<1>4. /\ sess' \in [Cids -> Objects \cup {0}]
      /\ sess'[k] = o /\ \A j \in Cids : j # k => sess'[j] = sess[j]
  BY <1>2, <1>3
<1>5. /\ objs' \in [Objects -> Session \cup {Idle}]
      /\ objs'[o] = s /\ \A x \in Objects : x # o => objs'[x] = objs[x]
  BY <1>2, <1>3
<1>6. \A x \in Objects : objs[x] # Idle => objs'[x] = objs[x]
  BY <1>2, <1>5
<1> QED
  BY <1>1, <1>2, <1>4, <1>5, <1>6

LEMMA UserMessageTypeInv ==
  ASSUME TypeInv, NEW k \in Cids, NEW hint \in 0..MaxConvs,
         hint # 0 => rows[hint] # NoRow, UserMessage(k, hint)
  PROVE  TypeInv'
<1> DEFINE s == Blank
           t == [stage |-> "recover", obj |-> sess'[k],
                 hint |-> IF objs'[sess'[k]] = s THEN hint ELSE 0,
                 exchange |-> exchanges', messages |-> {}]
<1>1. /\ turns[k] = Idle /\ turns' = [turns EXCEPT ![k] = t]
      /\ \/ sess[k] # 0 /\ UNCHANGED <<sess, objs>>
         \/ sess[k] = 0 /\ \E o \in Objects : create_conv_session(k, o, s)
      /\ UNCHANGED <<saves, locks, rows, fork, snapshots, router, rewrites, dropped, ids, faults, created, rolled, told>>
  BY DEF UserMessage, saving, memory, history, rewriting, counters
<1>2. exchanges' \in Exchanges /\ exchanges' \in 0..MaxExchanges
  BY ConstantsAssumption DEF UserMessage, NewExchange, TypeInv, TypeOK, Exchanges
<1>3. contested' \subseteq Convs
  BY ContestGrows DEF UserMessage, TypeInv, TypeOK
<1>4. s \in Session
  BY ConstantsAssumption DEF Session, Blank, Lists
<1>5. /\ sess' \in [Cids -> Objects \cup {0}] /\ objs' \in [Objects -> Session \cup {Idle}]
      /\ sess'[k] \in Objects /\ objs'[sess'[k]] # Idle
      /\ \A j \in Cids : j # k => sess'[j] = sess[j]
      /\ \A x \in Objects : objs[x] # Idle => objs'[x] = objs[x]
      /\ Saving(<<k, "event">>) => sess'[k] = sess[k]
  <2>1. CASE sess[k] # 0 /\ UNCHANGED <<sess, objs>>
    BY <2>1 DEF TypeInv, TypeOK, LiveOK
  <2>2. ASSUME sess[k] = 0, NEW o \in Objects, create_conv_session(k, o, s)
        PROVE
      /\ sess' \in [Cids -> Objects \cup {0}] /\ objs' \in [Objects -> Session \cup {Idle}]
      /\ sess'[k] \in Objects /\ objs'[sess'[k]] # Idle
      /\ \A j \in Cids : j # k => sess'[j] = sess[j]
      /\ \A x \in Objects : objs[x] # Idle => objs'[x] = objs[x]
      /\ Saving(<<k, "event">>) => sess'[k] = sess[k]
    <3> HIDE DEF s
    <3>1. /\ sess' \in [Cids -> Objects \cup {0}] /\ objs' \in [Objects -> Session \cup {Idle}]
          /\ sess'[k] = o /\ objs'[o] = s /\ ~Saving(<<k, "event">>)
          /\ \A j \in Cids : j # k => sess'[j] = sess[j]
          /\ \A x \in Objects : objs[x] # Idle => objs'[x] = objs[x]
      BY <1>4, <2>2, CreateTypes
    <3> QED
      BY <1>4, <3>1, IdleAssumption
  <2> HIDE DEF s
  <2> QED
    BY <1>1, <2>1, <2>2
<1> HIDE DEF s
<1>6. /\ t \in Turn /\ t.stage = "recover" /\ t.obj = sess'[k]
      /\ t.hint \in {0, hint}
  BY <1>2, <1>5, ConstantsAssumption DEF Turn, Lists
<1> HIDE DEF t
<1>7. /\ turns' \in [Cids -> Turn \cup {Idle}]
      /\ turns'[k] = t /\ \A j \in Cids : j # k => turns'[j] = turns[j]
  BY <1>1, <1>6 DEF TypeInv, TypeOK
<1>8. TypeOK' /\ HistoryOK'
  BY <1>1, <1>2, <1>3, <1>5, <1>7 DEF TypeInv, TypeOK, HistoryOK
<1>9. LiveOK'
  <2>1. ASSUME NEW j \in Cids
        PROVE  /\ sess'[j] # 0 => objs'[sess'[j]] # Idle
               /\ turns'[j] # Idle => objs'[turns'[j].obj] # Idle
    <3>1. CASE j = k
      BY <1>5, <1>6, <1>7, <3>1
    <3>2. CASE j # k
      <4>1. sess'[j] = sess[j] /\ turns'[j] = turns[j]
        BY <1>5, <1>7, <3>2
      <4>2. turns[j] # Idle => turns[j].obj \in Objects
        BY DEF TypeInv, TypeOK, Turn
      <4> QED
        BY <1>5, <4>1, <4>2 DEF TypeInv, TypeOK, LiveOK
    <3> QED
      BY <3>1, <3>2
  <2>2. ASSUME NEW p \in Savers, saves'[p] # Idle
        PROVE  objs'[saves'[p].obj] # Idle
    BY <1>1, <1>5, <2>2, SaveTypes DEF TypeInv, LiveOK, Saving
  <2> QED
    BY <2>1, <2>2 DEF LiveOK, Saving
<1>10. LockOK' /\ StageOK'
  BY <1>1 DEF TypeInv, LockOK, StageOK, Saving
<1>11. CallersOK' /\ TurnsOK'
  BY <1>1, <1>5, <1>6, <1>7, SaverIsPair DEF TypeInv, CallersOK, TurnsOK, Running, Saving
<1>12. ReadOK'
  BY <1>1, <1>6, <1>7 DEF TypeInv, ReadOK
<1> QED
  BY <1>8, <1>9, <1>10, <1>11, <1>12 DEF TypeInv

LEMMA RecoverTypeInv ==
  ASSUME TypeInv, NEW k \in Cids, Recover(k)
  PROVE  TypeInv'
<1> DEFINE c == turns[k].hint
           t == [turns[k] EXCEPT !.stage = "load", !.messages = rows[c]]
           u == [turns[k] EXCEPT !.hint = 0]
<1>1. /\ turns[k] # Idle /\ turns[k].stage = "recover" /\ c # 0
      /\ turns' = [turns EXCEPT ![k] = t] \/ turns' = [turns EXCEPT ![k] = u]
      /\ UNCHANGED <<sess, objs, saves, locks, rows, fork, snapshots, router, rewrites, dropped,
                    ids, exchanges, faults, created, rolled, told>>
  BY DEF Recover, memory, saving, history, rewriting, counters
<1>2. contested' \subseteq Convs
  BY ContestGrows DEF Recover, TypeInv, TypeOK
<1>3. turns[k] \in Turn /\ turns[k].obj \in Objects /\ c \in Convs /\ rows[c] \in Lists
  BY <1>1 DEF TypeInv, TypeOK, ReadOK, Turn, Convs
<1>4. /\ t \in Turn /\ t.stage = "load" /\ t.obj = turns[k].obj /\ t.hint = c
      /\ u \in Turn /\ u.stage = "recover" /\ u.obj = turns[k].obj /\ u.hint = 0
  <2>1. t \in Turn /\ t.stage = "load" /\ t.obj = turns[k].obj /\ t.hint = c
    BY <1>1, <1>3 DEF Turn
  <2>2. u \in Turn /\ u.stage = "recover" /\ u.obj = turns[k].obj /\ u.hint = 0
    BY <1>1, <1>3, ConstantsAssumption DEF Turn
  <2> QED
    BY <2>1, <2>2
<1> HIDE DEF t, u
<1>5. /\ turns' \in [Cids -> Turn \cup {Idle}]
      /\ turns'[k] \in {t, u} /\ \A j \in Cids : j # k => turns'[j] = turns[j]
  BY <1>1, <1>4 DEF TypeInv, TypeOK
<1>6. TypeOK' /\ HistoryOK'
  BY <1>1, <1>2, <1>5 DEF TypeInv, TypeOK, HistoryOK
<1>7. LiveOK' /\ LockOK' /\ StageOK'
  BY <1>1, <1>4, <1>5 DEF TypeInv, LiveOK, LockOK, StageOK, Saving
<1>8. CallersOK' /\ TurnsOK'
  BY <1>1, <1>4, <1>5, SaverIsPair, IdleAssumption DEF TypeInv, CallersOK, TurnsOK, Running, Saving
<1>9. ReadOK'
  <2>1. \A j \in Cids : turns'[j] # Idle =>
            turns[j] # Idle /\ turns'[j].hint \in {turns[j].hint, 0}
    BY <1>1, <1>4, <1>5
  <2> QED
    BY <1>1, <2>1, ReadStep
<1> QED
  BY <1>6, <1>7, <1>8, <1>9 DEF TypeInv

\* What BeginTurn loads and the list the turn goes on with.
Found(k) == turns[k].stage = "load"
Loaded(k) ==
    IF Found(k)
    THEN [objs EXCEPT ![turns[k].obj] =
             [messages |-> turns[k].messages, conv |-> turns[k].hint]]
    ELSE objs
List(k) ==
    (IF sess[k] = 0 THEN {} ELSE Loaded(k)[sess[k]].messages) \cup {turns[k].exchange}

LEMMA LoadTypes ==
    ASSUME TypeInv, NEW k \in Cids, turns[k] # Idle
    PROVE  /\ turns[k] \in Turn /\ turns[k].obj \in Objects /\ turns[k].exchange \in Exchanges
           /\ objs[turns[k].obj] # Idle
           /\ Loaded(k) \in [Objects -> Session \cup {Idle}]
           /\ \A x \in Objects : Loaded(k)[x] # Idle <=> objs[x] # Idle
           /\ \A x \in Objects : x # turns[k].obj => Loaded(k)[x] = objs[x]
           /\ List(k) \in Lists
<1>1. /\ turns[k] \in Turn /\ turns[k].obj \in Objects /\ turns[k].exchange \in Exchanges
      /\ turns[k].hint \in 0..MaxConvs /\ objs[turns[k].obj] # Idle
  BY DEF TypeInv, TypeOK, LiveOK, Turn
<1>2. /\ Loaded(k) \in [Objects -> Session \cup {Idle}]
      /\ \A x \in Objects : Loaded(k)[x] # Idle <=> objs[x] # Idle
      /\ \A x \in Objects : x # turns[k].obj => Loaded(k)[x] = objs[x]
  <2>1. CASE Found(k)
    <3> DEFINE s == [messages |-> turns[k].messages, conv |-> turns[k].hint]
    <3>1. turns[k].messages \in Lists
      BY <1>1 DEF Turn
    <3>2. s \in Session
      BY <1>1, <3>1 DEF Session
    <3>3. Loaded(k) = [objs EXCEPT ![turns[k].obj] = s]
      BY <2>1 DEF Loaded
    <3> HIDE DEF s
    <3> QED
      BY <1>1, <3>2, <3>3, IdleAssumption DEF TypeInv, TypeOK
  <2>2. CASE ~Found(k)
    BY <2>2 DEF Loaded, TypeInv, TypeOK
  <2> QED
    BY <2>1, <2>2
<1>3. sess[k] # 0 => Loaded(k)[sess[k]] \in Session
  BY <1>2 DEF TypeInv, TypeOK, LiveOK
<1>4. List(k) \in Lists
  BY <1>1, <1>3 DEF List, Session, Lists
<1> QED
  BY <1>1, <1>2, <1>4

LEMMA BeginTurnTypeInv ==
  ASSUME TypeInv, NEW k \in Cids, BeginTurn(k)
  PROVE  TypeInv'
<1> DEFINE t == [turns[k] EXCEPT !.stage = "loop", !.messages = List(k)]
           s == [Loaded(k)[sess[k]] EXCEPT !.messages = List(k)]
<1>1. /\ turns[k] # Idle /\ turns[k].stage \in {"recover", "load"}
      /\ turns' = [turns EXCEPT ![k] = t]
      /\ objs' = IF sess[k] = 0 THEN Loaded(k) ELSE [Loaded(k) EXCEPT ![sess[k]] = s]
      /\ UNCHANGED <<sess, saves, locks, rows, fork, snapshots, router, rewrites, dropped, ids, exchanges, faults, created, rolled, told>>
  BY DEF BeginTurn, List, Loaded, Found, saving, history, rewriting, counters
<1>2. /\ turns[k] \in Turn /\ turns[k].obj \in Objects /\ turns[k].exchange \in Exchanges
      /\ objs[turns[k].obj] # Idle
      /\ Loaded(k) \in [Objects -> Session \cup {Idle}]
      /\ \A x \in Objects : Loaded(k)[x] # Idle <=> objs[x] # Idle
      /\ List(k) \in Lists
  BY <1>1, LoadTypes
<1>3. contested' \subseteq Convs
  <2>1. \A S : Contest(S) /\ S \subseteq Convs => contested' \subseteq Convs
    BY ContestGrows DEF TypeInv, TypeOK
  <2>2. turns[k].hint \in 0..MaxConvs /\ (Found(k) => turns[k].hint # 0)
    BY <1>1 DEF TypeInv, TypeOK, TurnsOK, Turn, Found
  <2> QED
    BY <2>1, <2>2 DEF BeginTurn, Found, Mixed, Convs
<1>4. /\ t \in Turn /\ t.stage = "loop" /\ t.obj = turns[k].obj
      /\ t.exchange = turns[k].exchange /\ t.exchange \in t.messages
      /\ t.hint = turns[k].hint
  BY <1>2 DEF Turn, List
<1>5. sess[k] # 0 => s \in Session
  <2> SUFFICES ASSUME sess[k] # 0
               PROVE  s \in Session
    OBVIOUS
  <2>1. Loaded(k)[sess[k]] \in Session
    BY <1>2 DEF TypeInv, TypeOK, LiveOK
  <2> QED
    BY <1>2, <2>1 DEF Session
<1> HIDE DEF t, s
<1>6. /\ objs' \in [Objects -> Session \cup {Idle}]
      /\ \A x \in Objects : objs'[x] # Idle <=> objs[x] # Idle
  BY <1>1, <1>2, <1>5, IdleAssumption DEF TypeInv, TypeOK, LiveOK
<1>7. /\ turns' \in [Cids -> Turn \cup {Idle}]
      /\ turns'[k] = t /\ \A j \in Cids : j # k => turns'[j] = turns[j]
  BY <1>1, <1>4 DEF TypeInv, TypeOK
<1>8. TypeOK' /\ HistoryOK'
  BY <1>1, <1>3, <1>6, <1>7 DEF TypeInv, TypeOK, HistoryOK
<1>9. LiveOK'
  BY <1>1, <1>2, <1>4, <1>6, <1>7, SaveTypes, IdleAssumption
  DEF TypeInv, TypeOK, LiveOK, Saving, Turn
<1>10. LockOK' /\ StageOK'
  BY <1>1 DEF TypeInv, LockOK, StageOK, Saving
<1>11. CallersOK' /\ TurnsOK'
  BY <1>1, <1>4, <1>7, SaverIsPair DEF TypeInv, CallersOK, TurnsOK, Running, Saving
<1>12. ReadOK'
  BY <1>1, <1>4, <1>7, ReadStep
<1> QED
  BY <1>8, <1>9, <1>10, <1>11, <1>12 DEF TypeInv

\* A save begins, at the end of a turn or in a clear or a disconnect.
LEMMA BeginTypes ==
    ASSUME TypeInv, NEW p \in Savers, NEW o \in Objects, ~Saving(p), saves' = Begin(p, o),
           UNCHANGED locks
    PROVE  /\ saves' \in [Savers -> Save \cup {Idle}]
           /\ saves'[p] \in Save /\ saves'[p].obj = o /\ saves'[p].stage = "lock"
           /\ saves'[p].conv = 0
           /\ \A q \in Savers : q # p => saves'[q] = saves[q]
           /\ LockOK' /\ StageOK' /\ \A k \in Cids : locks[k] # Idle => saves'[locks[k]] # Idle
<1> DEFINE s == [obj |-> o, stage |-> "lock", conv |-> 0, messages |-> {}]
<1>1. s \in Save /\ s.obj = o /\ s.stage = "lock" /\ s.conv = 0
  BY ConstantsAssumption DEF Save, Lists
<1>2. saves' = [saves EXCEPT ![p] = s]
  BY DEF Begin
<1> HIDE DEF s
<1>3. /\ saves'[p] = s /\ \A q \in Savers : q # p => saves'[q] = saves[q]
      /\ saves' \in [Savers -> Save \cup {Idle}]
  BY <1>1, <1>2, SaveChanges
<1>4. LockOK'
  BY <1>1, <1>3, SaverIsPair DEF TypeInv, TypeOK, LockOK, Saving
<1>5. StageOK'
  BY <1>1, <1>3 DEF TypeInv, StageOK, Saving
<1>6. \A k \in Cids : locks[k] # Idle => saves'[locks[k]] # Idle
  BY <1>4 DEF LockOK, Saving
<1> QED
  BY <1>1, <1>3, <1>4, <1>5, <1>6, IdleAssumption

LEMMA SaveTurnTypeInv ==
  ASSUME TypeInv, NEW k \in Cids, NEW v \in {"save", "resave"},
         turns[k] # Idle, turns[k].stage \in {"loop", "resave"}, ~Saving(<<k, "turn">>),
         SaveTurn(k, v), contested' \subseteq Convs,
         UNCHANGED <<sess, locks, rows, fork, snapshots, router, rewrites, dropped, ids, exchanges, faults, history>>
  PROVE  TypeInv'
<1> DEFINE p == <<k, "turn">>
           t == [turns[k] EXCEPT !.stage = v]
           s == [objs[sess[k]] EXCEPT !.messages = turns[k].messages]
<1>1. /\ turns[k] \in Turn /\ turns[k].messages \in Lists
      /\ turns[k].obj \in Objects /\ objs[turns[k].obj] # Idle
  BY DEF TypeInv, TypeOK, LiveOK, Turn
<1>2. /\ p \in Savers /\ p[1] = k /\ p[2] = "turn"
      /\ <<k, "event">> \in Savers /\ <<k, "event">> # p
  BY SaverIsPair
<1>3. CASE sess[k] = 0
  <2>1. /\ turns' = [turns EXCEPT ![k] = Idle]
        /\ UNCHANGED <<sess, objs, saves, locks, rows, fork, snapshots, router, rewrites, dropped, ids, exchanges, faults, created, rolled, told>>
    BY <1>3 DEF SaveTurn, history, rewriting, counters
  <2>2. TypeOK' /\ HistoryOK'
    BY <2>1 DEF TypeInv, TypeOK, HistoryOK
  <2>3. LiveOK' /\ LockOK' /\ StageOK'
    BY <2>1 DEF TypeInv, TypeOK, LiveOK, LockOK, StageOK, Saving
  <2>4. CallersOK' /\ TurnsOK'
    BY <2>1 DEF TypeInv, TypeOK, CallersOK, TurnsOK, Running, Saving
  <2>5. ReadOK'
    BY <2>1, ReadStep DEF TypeInv, TypeOK
  <2> QED
    BY <2>2, <2>3, <2>4, <2>5 DEF TypeInv
<1>4. CASE sess[k] # 0
  <2>1. /\ turns' = [turns EXCEPT ![k] = t] /\ objs' = [objs EXCEPT ![sess[k]] = s]
        /\ saves' = Begin(p, sess[k])
        /\ UNCHANGED <<sess, locks, rows, fork, snapshots, router, rewrites, dropped, ids, exchanges, faults, created, rolled, told>>
    BY <1>4 DEF SaveTurn, history, rewriting, counters
  <2>2. t \in Turn /\ t.stage = v /\ t.obj = turns[k].obj /\ t.hint = turns[k].hint
    BY <1>1 DEF Turn
  <2>3. t.exchange \in t.messages \cup dropped
    BY <1>1 DEF Turn, TypeInv, TurnsOK, Running
  <2>4. sess[k] \in Objects /\ objs[sess[k]] \in Session
    BY <1>4 DEF TypeInv, TypeOK, LiveOK
  <2>5. s \in Session
    BY <1>1, <2>4 DEF Session
  <2> HIDE DEF t, s, p
  <2>6. /\ saves' \in [Savers -> Save \cup {Idle}]
        /\ saves'[p] \in Save /\ saves'[p].obj = sess[k]
        /\ \A q \in Savers : q # p => saves'[q] = saves[q]
        /\ LockOK' /\ StageOK' /\ \A j \in Cids : locks[j] # Idle => saves'[locks[j]] # Idle
    <3>1. ~Saving(p)
      BY DEF p
    <3> QED
      BY <1>2, <2>1, <2>4, <3>1, BeginTypes
  <2>7. /\ turns' \in [Cids -> Turn \cup {Idle}]
        /\ turns'[k] = t /\ \A j \in Cids : j # k => turns'[j] = turns[j]
    BY <2>1, <2>2 DEF TypeInv, TypeOK
  <2>8. /\ objs' \in [Objects -> Session \cup {Idle}]
        /\ \A x \in Objects : objs'[x] # Idle <=> objs[x] # Idle
    BY <2>1, <2>4, <2>5, IdleAssumption DEF TypeInv, TypeOK
  <2>9. TypeOK' /\ HistoryOK'
    BY <2>1, <2>6, <2>7, <2>8 DEF TypeInv, TypeOK, HistoryOK
  <2>10. LiveOK'
    <3>1. \A q \in Savers : saves'[q] # Idle => objs'[saves'[q].obj] # Idle
      BY <2>4, <2>6, <2>8, SaveTypes, IdleAssumption DEF Saving
    <3>2. \A j \in Cids : sess'[j] # 0 => objs'[sess'[j]] # Idle
      BY <2>1, <2>8 DEF TypeInv, TypeOK, LiveOK
    <3>3. \A j \in Cids : turns'[j] # Idle => objs'[turns'[j].obj] # Idle
      BY <1>1, <2>2, <2>7, <2>8 DEF TypeInv, TypeOK, LiveOK, Turn
    <3> QED
      BY <3>1, <3>2, <3>3 DEF LiveOK, Saving
  <2>11. CallersOK'
    <3> SUFFICES ASSUME NEW j \in Cids
                 PROVE
          /\ Saving(<<j, "turn">>)' => turns'[j] # Idle /\ turns'[j].stage \in {"save", "resave"}
          /\ turns'[j] # Idle /\ turns'[j].stage = "save" => Saving(<<j, "turn">>)'
          /\ Saving(<<j, "event">>)' => sess'[j] = saves'[<<j, "event">>].obj
      BY DEF CallersOK
    <3>1. <<j, "event">> \in Savers /\ <<j, "turn">> \in Savers /\ <<j, "event">> # p
      BY <1>2, SaverIsPair
    <3>2. saves'[<<j, "event">>] = saves[<<j, "event">>]
      BY <2>6, <3>1
    <3>3. CASE j = k
      <4>1. saves'[<<j, "turn">>] # Idle
        BY <2>6, <3>3, IdleAssumption DEF p
      <4> QED
        BY <2>1, <2>2, <2>7, <3>2, <3>3, <4>1, IdleAssumption DEF TypeInv, CallersOK, Saving
    <3>4. CASE j # k
      <4>1. <<j, "turn">> # p
        BY <3>4 DEF p
      <4>2. saves'[<<j, "turn">>] = saves[<<j, "turn">>] /\ turns'[j] = turns[j]
        BY <2>6, <2>7, <3>1, <3>4, <4>1
      <4> QED
        BY <2>1, <3>2, <4>2 DEF TypeInv, CallersOK, Saving
    <3> QED
      BY <3>3, <3>4
  <2>12. TurnsOK'
    BY <2>1, <2>2, <2>3, <2>7 DEF TypeInv, TurnsOK, Running
  <2>13. ReadOK'
    BY <2>1, <2>2, <2>7, ReadStep
  <2> QED
    BY <2>6, <2>9, <2>10, <2>11, <2>12, <2>13 DEF TypeInv
<1> QED
  BY <1>3, <1>4

LEMMA EndLoopTypeInv ==
  ASSUME TypeInv, NEW k \in Cids, NEW v \in {"save", "resave"}, EndLoop(k, v)
  PROVE  TypeInv'
<1>1. contested' \subseteq Convs
  BY ContestGrows DEF EndLoop, TypeInv, TypeOK
<1>2. ~Saving(<<k, "turn">>)
  BY DEF EndLoop, TypeInv, CallersOK
<1> QED
  BY <1>1, <1>2, SaveTurnTypeInv DEF EndLoop, rewriting, counters

LEMMA ResaveTypeInv ==
  ASSUME TypeInv, NEW k \in Cids, Resave(k)
  PROVE  TypeInv'
<1>1. contested' \subseteq Convs
  BY ContestGrows DEF Resave, TypeInv, TypeOK
<1>2. /\ turns[k] # Idle /\ turns[k].stage \in {"loop", "resave"} /\ ~Saving(<<k, "turn">>)
      /\ SaveTurn(k, "resave") /\ "resave" \in {"save", "resave"}
      /\ UNCHANGED <<sess, locks, rows, fork, snapshots, router, rewrites, dropped, ids, exchanges, faults, history>>
  BY DEF Resave, rewriting, counters
<1> DEFINE v == "resave"
<1> HIDE DEF v
<1>3. v \in {"save", "resave"} /\ SaveTurn(k, v)
  BY <1>2 DEF v
<1> QED
  BY <1>1, <1>2, <1>3, SaveTurnTypeInv

LEMMA EventTypeInv ==
  ASSUME TypeInv, NEW k \in Cids, Event(k)
  PROVE  TypeInv'
<1> DEFINE p == <<k, "event">>
<1>1. /\ sess[k] # 0 /\ ~Saving(p)
      /\ UNCHANGED <<objs, turns, locks, rows, fork, snapshots, router, rewrites, dropped, ids, exchanges, faults, created, rolled, told>>
  BY DEF Event, history, rewriting, counters
<1>2. contested' \subseteq Convs
  BY ContestGrows DEF Event, TypeInv, TypeOK
<1>3. p \in Savers /\ sess[k] \in Objects /\ objs[sess[k]] # Idle
  <2>1. p \in Savers
    BY SaverIsPair
  <2>2. sess[k] \in Objects /\ objs[sess[k]] # Idle
    BY <1>1 DEF TypeInv, TypeOK, LiveOK
  <2> QED
    BY <2>1, <2>2
<1>4. ReadOK'
  BY <1>1, ReadStep
<1>5. CASE Empty(k)
  <2>1. sess' = [sess EXCEPT ![k] = 0] /\ UNCHANGED saves
    BY <1>5 DEF Event
  <2>2. TypeOK' /\ HistoryOK'
    BY <1>1, <1>2, <2>1 DEF TypeInv, TypeOK, HistoryOK
  <2>3. LiveOK' /\ LockOK' /\ StageOK'
    BY <1>1, <2>1 DEF TypeInv, TypeOK, LiveOK, LockOK, StageOK, Saving
  <2>4. CallersOK' /\ TurnsOK'
    BY <1>1, <2>1 DEF TypeInv, TypeOK, CallersOK, TurnsOK, Running, Saving
  <2> QED
    BY <1>4, <2>2, <2>3, <2>4 DEF TypeInv
<1>6. CASE ~Empty(k)
  <2>1. saves' = Begin(p, sess[k]) /\ UNCHANGED sess
    BY <1>6 DEF Event
  <2> HIDE DEF p
  <2>2. /\ saves' \in [Savers -> Save \cup {Idle}]
        /\ saves'[p] \in Save /\ saves'[p].obj = sess[k]
        /\ \A q \in Savers : q # p => saves'[q] = saves[q]
        /\ LockOK' /\ StageOK' /\ \A j \in Cids : locks[j] # Idle => saves'[locks[j]] # Idle
    BY <1>1, <1>3, <2>1, BeginTypes
  <2>3. TypeOK' /\ HistoryOK'
    BY <1>1, <1>2, <2>1, <2>2 DEF TypeInv, TypeOK, HistoryOK
  <2>4. LiveOK' /\ TurnsOK'
    BY <1>1, <1>3, <2>1, <2>2, SaveTypes DEF TypeInv, LiveOK, Saving, TurnsOK, Running
  <2>5. CallersOK'
    <3> SUFFICES ASSUME NEW j \in Cids
                 PROVE
          /\ Saving(<<j, "turn">>)' => turns'[j] # Idle /\ turns'[j].stage \in {"save", "resave"}
          /\ turns'[j] # Idle /\ turns'[j].stage = "save" => Saving(<<j, "turn">>)'
          /\ Saving(<<j, "event">>)' => sess'[j] = saves'[<<j, "event">>].obj
      BY DEF CallersOK
    <3>1. <<j, "event">> \in Savers /\ <<j, "turn">> \in Savers /\ <<j, "turn">> # p
      BY SaverIsPair DEF p
    <3>2. saves'[<<j, "turn">>] = saves[<<j, "turn">>]
      BY <2>2, <3>1
    <3>3. saves'[<<j, "event">>] # Idle => sess[j] = saves'[<<j, "event">>].obj
      <4>1. CASE j = k
        BY <2>2, <4>1 DEF p
      <4>2. CASE j # k
        <5>1. <<j, "event">> # p
          BY <4>2 DEF p
        <5>2. saves'[<<j, "event">>] = saves[<<j, "event">>]
          BY <2>2, <3>1, <5>1
        <5> QED
          BY <5>2 DEF TypeInv, CallersOK, Saving
      <4> QED
        BY <4>1, <4>2
    <3> QED
      BY <1>1, <2>1, <3>2, <3>3 DEF TypeInv, CallersOK, Saving
  <2> QED
    BY <1>4, <2>2, <2>3, <2>4, <2>5 DEF TypeInv
<1> QED
  BY <1>5, <1>6

\* The steps that only put another session or another list into memory.
LEMMA ListTypeInv ==
  ASSUME TypeInv,
         sess' \in [Cids -> Objects \cup {0}], objs' \in [Objects -> Session \cup {Idle}],
         \A x \in Objects : objs[x] # Idle => objs'[x] # Idle,
         \A k \in Cids : sess'[k] # 0 => objs'[sess'[k]] # Idle,
         \A k \in Cids : Saving(<<k, "event">>) => sess'[k] = sess[k],
         turns' \in [Cids -> Turn \cup {Idle}],
         \A k \in Cids : /\ turns'[k] = Idle <=> turns[k] = Idle
                         /\ turns[k] # Idle => /\ turns'[k].stage = turns[k].stage
                                               /\ turns'[k].obj = turns[k].obj,
         UNCHANGED <<saves, locks, faults, created, rolled, told>>,
         rows' \in [Convs -> Lists \cup {NoRow}], fork' \in Fork \cup {Idle},
         snapshots' \in [Cids -> Lists], router' \in Router \cup {Idle},
         ids' \in 0..MaxConvs, exchanges' \in 0..MaxExchanges, rewrites' \in 0..MaxRewrites,
         dropped' \subseteq {Cut} \cup Exchanges, contested' \subseteq Convs,
         TurnsOK', ReadOK'
  PROVE  TypeInv'
<1>1. TypeOK' /\ HistoryOK'
  BY DEF TypeInv, TypeOK, HistoryOK
<1>2. \A k \in Cids : turns[k] # Idle => turns[k].obj \in Objects
  BY DEF TypeInv, TypeOK, Turn
<1>3. LiveOK'
  BY <1>2, SaveTypes DEF TypeInv, LiveOK, Saving
<1>4. LockOK' /\ StageOK'
  BY DEF TypeInv, LockOK, StageOK, Saving
<1>5. CallersOK'
  BY DEF TypeInv, CallersOK, Saving
<1> QED
  BY <1>1, <1>3, <1>4, <1>5 DEF TypeInv

LEMMA MemoryTypeInv ==
  ASSUME TypeInv,
         sess' \in [Cids -> Objects \cup {0}], objs' \in [Objects -> Session \cup {Idle}],
         \A x \in Objects : objs[x] # Idle => objs'[x] # Idle,
         \A k \in Cids : sess'[k] # 0 => objs'[sess'[k]] # Idle,
         \A k \in Cids : Saving(<<k, "event">>) => sess'[k] = sess[k],
         UNCHANGED <<turns, saves, locks, exchanges, faults, created, rolled, told>>,
         rows' \in [Convs -> Lists \cup {NoRow}], fork' \in Fork \cup {Idle},
         snapshots' \in [Cids -> Lists], router' \in Router \cup {Idle},
         ids' \in 0..MaxConvs, rewrites' \in 0..MaxRewrites, dropped \subseteq dropped',
         dropped' \subseteq {Cut} \cup Exchanges, contested' \subseteq Convs, ReadOK'
  PROVE  TypeInv'
<1>1. TurnsOK'
  BY DEF TypeInv, TurnsOK, Running
<1> QED
  BY <1>1, ListTypeInv DEF TypeInv, TypeOK

LEMMA ResumeTypeInv ==
  ASSUME TypeInv, NEW k \in Cids, NEW c \in Convs, Resume(k, c)
  PROVE  TypeInv'
<1> DEFINE r == [op |-> "resume", cid |-> k, conv |-> c, messages |-> rows[c]]
<1>1. /\ rows[c] # NoRow /\ router' = r /\ rewrites' \in 0..MaxRewrites
      /\ UNCHANGED <<sess, objs, turns, saves, locks, rows, fork, snapshots, dropped,
                    ids, exchanges, faults, created, rolled, told>>
  BY ConstantsAssumption
  DEF Resume, InBudget, TypeInv, TypeOK, memory, saving, history, counters
<1>2. contested' \subseteq Convs
  BY ContestGrows DEF Resume, TypeInv, TypeOK
<1>3. r \in Router /\ r.conv = c
  BY <1>1 DEF TypeInv, TypeOK, Router, Convs
<1> HIDE DEF r
<1>4. ReadOK'
  BY <1>1, <1>3 DEF TypeInv, ReadOK
<1>5. \A j \in Cids : sess'[j] # 0 => objs'[sess'[j]] # Idle
  BY <1>1 DEF TypeInv, LiveOK
<1> QED
  BY <1>1, <1>2, <1>3, <1>4, <1>5, MemoryTypeInv DEF TypeInv, TypeOK

LEMMA InstallTypeInv ==
  ASSUME TypeInv, Install
  PROVE  TypeInv'
<1> DEFINE k == router.cid
           c == router.conv
           s == [messages |-> router.messages, conv |-> c]
<1>1. /\ \/ sess[k] # 0 /\ objs' = [objs EXCEPT ![sess[k]] = s] /\ UNCHANGED sess
         \/ sess[k] = 0 /\ \E o \in Objects : create_conv_session(k, o, s)
      /\ router' = Idle
      /\ UNCHANGED <<turns, saves, locks, rows, fork, snapshots, rewrites, dropped,
                    ids, exchanges, faults, created, rolled, told>>
  BY DEF Install, saving, history, counters
<1>2. router \in Router /\ router.op = "resume"
  BY DEF Install, TypeInv, TypeOK
<1>3. k \in Cids /\ c \in Convs /\ s \in Session
  BY <1>2, IdleAssumption DEF Router, Session, TypeInv, ReadOK
<1>4. contested' \subseteq Convs
  BY <1>3, ContestGrows DEF Install, Mixed, TypeInv, TypeOK
<1>5. ReadOK'
  BY <1>1, ReadStep
<1> HIDE DEF s, k
<1>6. CASE sess[k] # 0 /\ objs' = [objs EXCEPT ![sess[k]] = s] /\ UNCHANGED sess
  <2>1. sess[k] \in Objects
    BY <1>3, <1>6 DEF TypeInv, TypeOK
  <2>2. /\ objs' \in [Objects -> Session \cup {Idle}]
        /\ \A x \in Objects : objs[x] # Idle => objs'[x] # Idle
    BY <1>3, <1>6, <2>1, IdleAssumption DEF TypeInv, TypeOK
  <2>3. \A j \in Cids : sess'[j] # 0 => objs'[sess'[j]] # Idle
    BY <1>6, <2>2 DEF TypeInv, TypeOK, LiveOK
  <2> QED
    BY <1>1, <1>4, <1>5, <1>6, <2>2, <2>3, MemoryTypeInv DEF TypeInv, TypeOK
<1>7. ASSUME sess[k] = 0, NEW o \in Objects, create_conv_session(k, o, s)
      PROVE  TypeInv'
  <2>1. /\ sess' \in [Cids -> Objects \cup {0}] /\ objs' \in [Objects -> Session \cup {Idle}]
        /\ sess'[k] = o /\ objs'[o] = s /\ ~Saving(<<k, "event">>)
        /\ \A j \in Cids : j # k => sess'[j] = sess[j]
        /\ \A x \in Objects : objs[x] # Idle => objs'[x] = objs[x]
    BY <1>3, <1>7, CreateTypes
  <2>2. \A j \in Cids : sess'[j] # 0 => objs'[sess'[j]] # Idle
    BY <1>3, <2>1, IdleAssumption DEF TypeInv, TypeOK, LiveOK
  <2>3. \A j \in Cids : Saving(<<j, "event">>) => sess'[j] = sess[j]
    BY <2>1
  <2> QED
    BY <1>1, <1>4, <1>5, <2>1, <2>2, <2>3, MemoryTypeInv DEF TypeInv, TypeOK
<1> QED
  BY <1>1, <1>6, <1>7

\* The router writes the list of a session.
LEMMA RewriteTypes ==
  ASSUME TypeInv, NEW k \in Cids, NEW l \in Lists, Rewrite(k, l)
  PROVE  /\ objs' \in [Objects -> Session \cup {Idle}]
         /\ \A x \in Objects : objs[x] # Idle <=> objs'[x] # Idle
         /\ dropped \subseteq dropped' /\ dropped' \subseteq {Cut} \cup Exchanges
<1>1. CASE sess[k] = 0
  BY <1>1 DEF Rewrite, TypeInv, TypeOK
<1>2. CASE sess[k] # 0
  <2> DEFINE s == [objs[sess[k]] EXCEPT !.messages = l]
  <2>1. sess[k] \in Objects /\ objs[sess[k]] \in Session
    BY <1>2 DEF TypeInv, TypeOK, LiveOK
  <2>2. objs' = [objs EXCEPT ![sess[k]] = s] /\ s \in Session
    BY <1>2, <2>1 DEF Rewrite, Session
  <2> HIDE DEF s
  <2>3. dropped' \subseteq dropped \cup objs[sess[k]].messages \cup l /\ dropped \subseteq dropped'
    BY <1>2 DEF Rewrite
  <2>4. dropped' \subseteq {Cut} \cup Exchanges
    BY <2>1, <2>3 DEF Session, Lists, TypeInv, TypeOK
  <2> QED
    BY <2>1, <2>2, <2>3, <2>4, IdleAssumption DEF TypeInv, TypeOK
<1> QED
  BY <1>1, <1>2

LEMMA CompressTypeInv ==
  ASSUME TypeInv, NEW k \in Cids, compress_if_needed(k)
  PROVE  TypeInv'
<1>1. turns[k] # Idle /\ turns[k] \in Turn /\ turns[k].messages \in Lists
  BY DEF compress_if_needed, TypeInv, TypeOK, Turn
<1>2. /\ snapshots' = [snapshots EXCEPT ![k] = Answered(k, turns[k].messages)]
      /\ rewrites' \in 0..MaxRewrites
      /\ UNCHANGED <<sess, objs, turns, saves, locks, rows, fork, router, dropped,
                    ids, exchanges, faults, created, rolled, told>>
  BY ConstantsAssumption
  DEF compress_if_needed, InBudget, TypeInv, TypeOK, memory, saving, history, counters
<1>3. contested' \subseteq Convs
  BY ContestGrows DEF compress_if_needed, TypeInv, TypeOK
<1>4. Answered(k, turns[k].messages) \in Lists
  BY <1>1 DEF Answered, Lists
<1>5. snapshots' \in [Cids -> Lists]
  BY <1>2, <1>4 DEF TypeInv, TypeOK
<1>6. \A j \in Cids : sess'[j] # 0 => objs'[sess'[j]] # Idle
  BY <1>2 DEF TypeInv, LiveOK
<1>7. ReadOK'
  BY <1>2, ReadStep
<1> QED
  BY <1>2, <1>3, <1>5, <1>6, <1>7, MemoryTypeInv DEF TypeInv, TypeOK

LEMMA RollbackCompressionTypeInv ==
  ASSUME TypeInv, NEW k \in Cids, rollback_compression(k)
  PROVE  TypeInv'
<1>1. snapshots[k] \in Lists
  BY DEF TypeInv, TypeOK
<1>2. /\ snapshots' = [snapshots EXCEPT ![k] = {}] /\ Rewrite(k, snapshots[k])
      /\ UNCHANGED <<sess, turns, saves, locks, rows, fork, router, rewrites,
                    ids, exchanges, faults, created, rolled, told>>
  BY DEF rollback_compression, saving, history, counters
<1>3. contested' \subseteq Convs
  BY ContestGrows DEF rollback_compression, TypeInv, TypeOK
<1>4. /\ objs' \in [Objects -> Session \cup {Idle}]
      /\ \A x \in Objects : objs[x] # Idle <=> objs'[x] # Idle
      /\ dropped \subseteq dropped' /\ dropped' \subseteq {Cut} \cup Exchanges
  BY <1>1, <1>2, RewriteTypes
<1>5. snapshots' \in [Cids -> Lists]
  BY <1>2 DEF TypeInv, TypeOK, Lists
<1>6. \A j \in Cids : sess'[j] # 0 => objs'[sess'[j]] # Idle
  BY <1>2, <1>4 DEF TypeInv, TypeOK, LiveOK
<1>7. ReadOK'
  BY <1>2, ReadStep
<1> QED
  BY <1>2, <1>3, <1>4, <1>5, <1>6, <1>7, MemoryTypeInv DEF TypeInv, TypeOK

LEMMA SummarizeTypeInv ==
  ASSUME TypeInv, NEW k \in Cids, summarize_context(k)
  PROVE  TypeInv'
<1> DEFINE l == Answered(k, objs[sess[k]].messages)
           r == [op |-> "summarize", cid |-> k, conv |-> 0, messages |-> l]
<1>1. sess[k] # 0 /\ objs[sess[k]] \in Session
  BY DEF summarize_context, Empty, TypeInv, TypeOK, LiveOK
<1>2. l \in Lists
  BY <1>1 DEF Session, Answered, Lists
<1>3. /\ router' = r /\ rewrites' \in 0..MaxRewrites
      /\ UNCHANGED <<sess, objs, turns, saves, locks, rows, fork, snapshots, dropped,
                    ids, exchanges, faults, created, rolled, told>>
  BY ConstantsAssumption
  DEF summarize_context, InBudget, TypeInv, TypeOK, memory, saving, history, counters
<1>4. contested' \subseteq Convs
  BY ContestGrows DEF summarize_context, TypeInv, TypeOK
<1> HIDE DEF l
<1>5. r \in Router /\ r.op = "summarize"
  BY <1>2, ConstantsAssumption DEF Router
<1> HIDE DEF r
<1>6. ReadOK'
  BY <1>3, <1>5 DEF TypeInv, ReadOK
<1>7. \A j \in Cids : sess'[j] # 0 => objs'[sess'[j]] # Idle
  BY <1>3 DEF TypeInv, LiveOK
<1> QED
  BY <1>3, <1>4, <1>5, <1>6, <1>7, MemoryTypeInv DEF TypeInv, TypeOK

LEMMA SummarizedTypeInv ==
  ASSUME TypeInv, Summarized
  PROVE  TypeInv'
<1>1. router \in Router /\ router.cid \in Cids /\ router.messages \in Lists
  BY DEF Summarized, TypeInv, TypeOK, Router
<1>2. /\ router' = Idle /\ Rewrite(router.cid, router.messages)
      /\ UNCHANGED <<sess, turns, saves, locks, rows, fork, snapshots, rewrites,
                    ids, exchanges, faults, created, rolled, told>>
  BY DEF Summarized, saving, history, counters
<1>3. contested' \subseteq Convs
  BY ContestGrows DEF Summarized, TypeInv, TypeOK
<1>4. /\ objs' \in [Objects -> Session \cup {Idle}]
      /\ \A x \in Objects : objs[x] # Idle <=> objs'[x] # Idle
      /\ dropped \subseteq dropped' /\ dropped' \subseteq {Cut} \cup Exchanges
  BY <1>1, <1>2, RewriteTypes
<1>5. \A j \in Cids : sess'[j] # 0 => objs'[sess'[j]] # Idle
  BY <1>2, <1>4 DEF TypeInv, TypeOK, LiveOK
<1>6. ReadOK'
  BY <1>2, ReadStep
<1> QED
  BY <1>2, <1>3, <1>4, <1>5, <1>6, MemoryTypeInv DEF TypeInv, TypeOK

\* What a retry leaves of the list, and of the list of a turn that works on it.
Shorter(k) == {Cut} \cup (objs[sess[k]].messages \ {Last(objs[sess[k]].messages)})
Retried(k) == IF Running(k) /\ turns[k].messages = objs[sess[k]].messages
              THEN [turns[k] EXCEPT !.messages = Shorter(k)] ELSE turns[k]

LEMMA RetryTypes ==
  ASSUME TypeInv, NEW k \in Cids, retry(k)
  PROVE  /\ sess[k] \in Objects /\ objs[sess[k]] \in Session /\ Shorter(k) \in Lists
         /\ Rewrite(k, Shorter(k))
         /\ turns' \in [Cids -> Turn \cup {Idle}] /\ turns'[k] = Retried(k)
         /\ \A j \in Cids : j # k => turns'[j] = turns[j]
         /\ turns[k] # Idle => /\ Retried(k) \in Turn /\ Retried(k).stage = turns[k].stage
                               /\ Retried(k).obj = turns[k].obj /\ Retried(k).hint = turns[k].hint
                               /\ Retried(k).exchange = turns[k].exchange
         /\ turns[k] = Idle => Retried(k) = Idle
<1>1. sess[k] \in Objects /\ objs[sess[k]] \in Session
  BY DEF retry, Empty, TypeInv, TypeOK, LiveOK
<1>2. Shorter(k) \in Lists
  BY <1>1 DEF Shorter, Session, Lists
<1>3. Rewrite(k, Shorter(k))
  BY DEF retry, Shorter
<1>4. /\ turns[k] # Idle => /\ Retried(k) \in Turn /\ Retried(k).stage = turns[k].stage
                            /\ Retried(k).obj = turns[k].obj /\ Retried(k).hint = turns[k].hint
                            /\ Retried(k).exchange = turns[k].exchange
      /\ turns[k] = Idle => Retried(k) = Idle
  BY <1>2 DEF Retried, Running, Turn, TypeInv, TypeOK
<1>5. turns' = [turns EXCEPT ![k] = Retried(k)]
  BY DEF retry, Retried, Shorter, TypeInv, TypeOK
<1> QED
  BY <1>1, <1>2, <1>3, <1>4, <1>5 DEF TypeInv, TypeOK

LEMMA RetryTypeInv ==
  ASSUME TypeInv, NEW k \in Cids, retry(k)
  PROVE  TypeInv'
<1>1. /\ sess[k] \in Objects /\ objs[sess[k]] \in Session /\ Shorter(k) \in Lists
      /\ Rewrite(k, Shorter(k))
      /\ turns' \in [Cids -> Turn \cup {Idle}] /\ turns'[k] = Retried(k)
      /\ \A j \in Cids : j # k => turns'[j] = turns[j]
      /\ turns[k] # Idle => /\ Retried(k) \in Turn /\ Retried(k).stage = turns[k].stage
                            /\ Retried(k).obj = turns[k].obj /\ Retried(k).hint = turns[k].hint
                            /\ Retried(k).exchange = turns[k].exchange
      /\ turns[k] = Idle => Retried(k) = Idle
  BY RetryTypes
<1>2. /\ rewrites' \in 0..MaxRewrites
      /\ UNCHANGED <<sess, saves, locks, rows, fork, snapshots, router,
                    ids, exchanges, faults, created, rolled, told>>
  BY ConstantsAssumption DEF retry, InBudget, TypeInv, TypeOK, saving, history, counters
<1>3. contested' \subseteq Convs
  BY ContestGrows DEF retry, TypeInv, TypeOK
<1>4. /\ objs' \in [Objects -> Session \cup {Idle}]
      /\ \A x \in Objects : objs[x] # Idle <=> objs'[x] # Idle
      /\ dropped \subseteq dropped' /\ dropped' \subseteq {Cut} \cup Exchanges
  BY <1>1, RewriteTypes
<1>5. \A j \in Cids : sess'[j] # 0 => objs'[sess'[j]] # Idle
  BY <1>2, <1>4 DEF TypeInv, TypeOK, LiveOK
<1>6. \A j \in Cids : turns'[j] # Idle => /\ turns[j] # Idle /\ turns'[j].hint = turns[j].hint
                                          /\ turns'[j].stage = turns[j].stage
                                          /\ turns'[j].obj = turns[j].obj
                                          /\ turns'[j].exchange = turns[j].exchange
  BY <1>1, IdleAssumption
<1>7. ReadOK'
  BY <1>2, <1>6, ReadStep
<1>8. \A j \in Cids : /\ turns'[j] = Idle <=> turns[j] = Idle
                      /\ turns[j] # Idle => /\ turns'[j].stage = turns[j].stage
                                            /\ turns'[j].obj = turns[j].obj
  BY <1>1, IdleAssumption
<1>9. TurnsOK'
  <2>1. Running(k) => Retried(k).exchange \in Retried(k).messages \cup dropped'
    <3> SUFFICES ASSUME Running(k)
                 PROVE  Retried(k).exchange \in Retried(k).messages \cup dropped'
      OBVIOUS
    <3>1. turns[k].exchange \in turns[k].messages \cup dropped /\ turns[k] \in Turn
      BY DEF TypeInv, TypeOK, TurnsOK, Running
    <3>2. CASE turns[k].messages = objs[sess[k]].messages
      <4>1. /\ Retried(k).messages = Shorter(k)
            /\ objs[sess[k]].messages \ Shorter(k) \subseteq dropped'
        BY <1>1, <3>1, <3>2, ConstantsAssumption DEF Retried, Rewrite, Turn
      <4> QED
        BY <1>1, <1>4, <3>1, <3>2, <4>1 DEF Running
    <3>3. CASE turns[k].messages # objs[sess[k]].messages
      BY <1>4, <3>1, <3>3 DEF Retried
    <3> QED
      BY <3>2, <3>3
  <2>2. \A j \in Cids : Running(j)' => Running(j)
    BY <1>6 DEF Running
  <2>3. ASSUME NEW j \in Cids, j # k, Running(j)
        PROVE  turns'[j].exchange \in turns'[j].messages \cup dropped'
    BY <1>1, <1>4, <2>3 DEF TypeInv, TurnsOK
  <2>4. \A j \in Cids : turns'[j] # Idle /\ turns'[j].stage = "load" => turns'[j].hint # 0
    BY <1>6 DEF TypeInv, TurnsOK
  <2> QED
    BY <1>1, <2>1, <2>2, <2>3, <2>4 DEF TurnsOK
<1> QED
  BY <1>1, <1>2, <1>3, <1>4, <1>5, <1>7, <1>8, <1>9, ListTypeInv DEF TypeInv, TypeOK

LEMMA StartForkTypeInv ==
  ASSUME TypeInv, NEW k \in Cids, NEW c \in Convs, StartFork(k, c)
  PROVE  TypeInv'
<1>1. /\ rows[c] # NoRow /\ fork' = [cid |-> k, messages |-> rows[c]]
      /\ UNCHANGED <<sess, objs, turns, saves, locks, rows, snapshots, router, rewrites, dropped, ids, exchanges, faults, created, rolled, told>>
  BY DEF StartFork, memory, saving, history, rewriting, counters
<1>2. contested' \subseteq Convs
  BY ContestGrows DEF StartFork, TypeInv, TypeOK
<1>3. fork' \in Fork
  BY <1>1 DEF TypeInv, TypeOK, Fork
<1>4. \A j \in Cids : sess'[j] # 0 => objs'[sess'[j]] # Idle
  BY <1>1 DEF TypeInv, LiveOK
<1>5. ReadOK'
  BY <1>1, ReadStep
<1> QED
  BY <1>1, <1>2, <1>3, <1>4, <1>5, MemoryTypeInv DEF TypeInv, TypeOK

LEMMA CommitForkTypeInv ==
  ASSUME TypeInv, CommitFork, sess[fork.cid] = 0
  PROVE  TypeInv'
<1> DEFINE k == fork.cid
           s == [messages |-> fork.messages, conv |-> ids']
<1>1. fork \in Fork
  BY DEF CommitFork, TypeInv, TypeOK
<1>2. k \in Cids /\ fork.messages \in Lists
  BY <1>1 DEF Fork
<1>3. ids' \in 1..MaxConvs /\ ids' \in 0..MaxConvs
  BY ConstantsAssumption DEF CommitFork, TypeInv, TypeOK
<1>4. /\ rows' = [rows EXCEPT ![ids'] = fork.messages]
      /\ fork' = Idle
      /\ UNCHANGED <<turns, saves, locks, snapshots, router, rewrites, dropped, exchanges, faults, created, rolled, told>>
  BY DEF CommitFork, saving, history, rewriting
<1>5. PICK o \in Objects : create_conv_session(k, o, s)
  BY DEF CommitFork
<1>6. contested' \subseteq Convs
  BY ContestGrows DEF CommitFork, TypeInv, TypeOK
<1>7. s \in Session
  BY <1>2, <1>3 DEF Session
<1> HIDE DEF s, k
<1>8. sess[k] = 0
  BY DEF k
<1>9. /\ sess' \in [Cids -> Objects \cup {0}] /\ objs' \in [Objects -> Session \cup {Idle}]
      /\ sess'[k] = o /\ objs'[o] = s /\ ~Saving(<<k, "event">>)
      /\ \A j \in Cids : j # k => sess'[j] = sess[j]
      /\ \A x \in Objects : objs[x] # Idle => objs'[x] = objs[x]
  BY <1>2, <1>5, <1>7, <1>8, CreateTypes
<1>10. \A j \in Cids : sess'[j] # 0 => objs'[sess'[j]] # Idle
  BY <1>7, <1>9, IdleAssumption DEF TypeInv, TypeOK, LiveOK
<1>11. \A j \in Cids : Saving(<<j, "event">>) => sess'[j] = sess[j]
  BY <1>9
<1>12. rows' \in [Convs -> Lists \cup {NoRow}]
  BY <1>2, <1>3, <1>4 DEF TypeInv, TypeOK, Convs
<1>13. ReadOK'
  BY <1>2, <1>3, <1>4, ReadStep, ListIsNoRow DEF TypeInv, TypeOK
<1> QED
  BY <1>3, <1>4, <1>6, <1>9, <1>10, <1>11, <1>12, <1>13, MemoryTypeInv DEF TypeInv, TypeOK

LEMMA ImportTypeInv ==
  ASSUME TypeInv, import_conversation
  PROVE  TypeInv'
<1>1. /\ ids' \in 1..MaxConvs /\ ids' \in 0..MaxConvs
      /\ exchanges' \in Exchanges /\ exchanges' \in 0..MaxExchanges
  BY ConstantsAssumption DEF import_conversation, NewExchange, Exchanges, TypeInv, TypeOK
<1>2. /\ rows' = [rows EXCEPT ![ids'] = {exchanges'}]
      /\ UNCHANGED <<sess, objs, turns, saves, locks, fork, snapshots, router, rewrites, dropped, faults, created, rolled, told>>
  BY DEF import_conversation, memory, saving, history, rewriting
<1>3. contested' \subseteq Convs
  BY ContestGrows DEF import_conversation, TypeInv, TypeOK
<1>4. {exchanges'} \in Lists
  BY <1>1 DEF Lists
<1>5. TypeOK' /\ HistoryOK'
  BY <1>1, <1>2, <1>3, <1>4 DEF TypeInv, TypeOK, HistoryOK, Convs
<1>6. LiveOK' /\ LockOK' /\ StageOK' /\ CallersOK' /\ TurnsOK'
  BY <1>2 DEF TypeInv, LiveOK, LockOK, StageOK, CallersOK, TurnsOK, Running, Saving
<1>7. ReadOK'
  BY <1>1, <1>2, <1>4, ReadStep, ListIsNoRow DEF TypeInv, TypeOK
<1> QED
  BY <1>5, <1>6, <1>7 DEF TypeInv

----------------------------------------------------------------------------
(* The inductive invariant of the rows *)

\* No row has a number not handed out yet, and nobody asked for it.
NumbersOK ==
    /\ \A c \in Convs : c > ids => rows[c] = NoRow
    /\ \A x \in created : x[2] <= ids
    /\ \A o \in Objects : objs[o] # Idle => objs[o].conv <= ids
    /\ \A p \in Savers : Saving(p) => saves[p].conv <= ids

\* Nothing happens in the cid of a fork before the fork is there.
ForkOK == fork # Idle => /\ sess[fork.cid] = 0 /\ ~Busy(fork.cid)
                         /\ router # Idle => router.cid # fork.cid

\* No two cids ever have the same session object.
Refers(k, o) == \/ sess[k] = o
                \/ turns[k] # Idle /\ turns[k].obj = o
                \/ \E p \in Savers : p[1] = k /\ Saving(p) /\ saves[p].obj = o
RefsOwned == \A j, k \in Cids, o \in Objects : Refers(j, o) /\ Refers(k, o) => j = k

\* An object inserts one row: from then on it has a number.
CreatedOnce ==
    /\ \A x \in created : /\ objs[x[1]] # Idle /\ objs[x[1]].conv # 0
                          /\ \A p \in Savers : Saving(p) /\ saves[p].obj = x[1] =>
                                 saves[p].stage # "create"
    /\ \A x, y \in created : x[1] = y[1] => x = y

\* A number names a row that is there, or one its object inserted.
ConvKnown ==
    /\ \A o \in Objects : objs[o] # Idle /\ objs[o].conv # 0 =>
           rows[objs[o].conv] # NoRow \/ <<o, objs[o].conv>> \in created
    /\ \A p \in Savers : Saving(p) /\ saves[p].conv # 0 =>
           rows[saves[p].conv] # NoRow \/ <<saves[p].obj, saves[p].conv>> \in created

\* The second conjunct of OneRowPerSession, of every object.
Committing(c) == \E p \in Savers : Saving(p) /\ saves[p].conv = c /\ saves[p].stage = "commit"
Named ==
    \A o \in Objects : objs[o] # Idle =>
        LET c == objs[o].conv IN
        c = 0 \/ rows[c] # NoRow \/ c \in rolled \/ Committing(c)

RowInv == TypeInv /\ NumbersOK /\ ForkOK /\ RefsOwned /\ CreatedOnce /\ ConvKnown /\ Named

----------------------------------------------------------------------------
(* What each step does, seen from the invariants *)

ContestOK == /\ contested \subseteq contested' /\ contested' \subseteq Convs
             /\ \A c \in Convs : HeldTwice(c)' => c \in contested'

LEMMA AcquireEffect ==
    ASSUME TypeInv, NEW p \in Savers, AcquireSaveLock(p)
    PROVE  LET o == saves[p].obj  c == objs[o].conv IN
           /\ Saving(p) /\ saves[p] \in Save /\ saves[p].stage = "lock" /\ locks[p[1]] = Idle
           /\ saves'[p] \in Save /\ saves'[p].obj = o /\ saves'[p].conv = c
           /\ saves'[p].stage = IF c = 0 THEN "create" ELSE "update"
           /\ \A q \in Savers : q # p => saves'[q] = saves[q]
           /\ UNCHANGED <<sess, objs, turns, rows, fork, router, dropped, ids, created, rolled, told>>
           /\ ContestOK
<1> DEFINE o == saves[p].obj
           c == objs[o].conv
           s == [saves[p] EXCEPT !.conv = c, !.stage = IF c = 0 THEN "create" ELSE "update"]
<1>1. Saving(p) /\ saves[p] \in Save /\ p[1] \in Cids /\ c \in 0..MaxConvs
  BY SaveTypes DEF AcquireSaveLock
<1>2. /\ saves[p].stage = "lock" /\ locks[p[1]] = Idle
      /\ saves' = [saves EXCEPT ![p] = s]
      /\ UNCHANGED <<sess, objs, turns, rows, fork, router, dropped, ids, created, rolled, told>>
  BY DEF AcquireSaveLock, memory, history, rewriting, counters
<1>3. /\ s \in Save /\ s.conv = c /\ s.obj = o
      /\ s.stage = IF c = 0 THEN "create" ELSE "update"
  BY <1>1 DEF Save
<1>4. ContestOK
  BY ContestGrows DEF ContestOK, AcquireSaveLock, TypeInv, TypeOK
<1> HIDE DEF s
<1> QED
  BY <1>1, <1>2, <1>3, <1>4, SaveChanges

LEMMA FlushEffect ==
    ASSUME TypeInv, NEW p \in Savers, FlushNewRow(p)
    PROVE  LET o == saves[p].obj IN
           /\ Saving(p) /\ saves[p] \in Save /\ saves[p].stage = "create"
           /\ o \in Objects /\ objs[o] \in Session
           /\ ids \in Nat /\ ids' = ids + 1 /\ ids' \in Convs
           /\ saves'[p] \in Save /\ saves'[p].obj = o /\ saves'[p].conv = ids'
           /\ saves'[p].stage = "commit" /\ saves'[p].messages = objs[o].messages
           /\ \A q \in Savers : q # p => saves'[q] = saves[q]
           /\ objs'[o] \in Session /\ objs'[o].conv = ids' /\ objs'[o].messages = objs[o].messages
           /\ \A x \in Objects : x # o => objs'[x] = objs[x]
           /\ created' = created \cup {<<o, ids'>>}
           /\ UNCHANGED <<sess, turns, rows, fork, router, dropped, rolled, told>>
           /\ ContestOK /\ (objs[o].conv # 0 => ids' \in contested')
<1> DEFINE o == saves[p].obj
           s == [saves[p] EXCEPT !.conv = ids', !.stage = "commit", !.messages = objs[o].messages]
           n == [objs[o] EXCEPT !.conv = ids']
<1>1. /\ Saving(p) /\ saves[p] \in Save /\ o \in Objects
      /\ objs[o] \in Session /\ objs[o].messages \in Lists
  BY SaveTypes DEF FlushNewRow
<1>2. /\ saves' = [saves EXCEPT ![p] = s] /\ objs' = [objs EXCEPT ![o] = n]
      /\ saves[p].stage = "create" /\ ids' = ids + 1
      /\ created' = created \cup {<<o, ids'>>}
      /\ UNCHANGED <<sess, turns, rows, fork, router, dropped, rolled, told>>
  BY DEF FlushNewRow, rewriting
<1>3. ids \in Nat /\ ids' \in Convs /\ ids' \in 0..MaxConvs
  BY ConstantsAssumption DEF FlushNewRow, TypeInv, TypeOK, Convs
<1>4. ContestOK /\ (objs[o].conv # 0 => ids' \in contested')
  <2>1. Contest(IF objs[o].conv # 0 THEN {ids'} ELSE {})
    BY DEF FlushNewRow
  <2>2. (IF objs[o].conv # 0 THEN {ids'} ELSE {}) \subseteq Convs
    BY <1>3
  <2>3. contested \subseteq Convs
    BY DEF TypeInv, TypeOK
  <2> QED
    BY <2>1, <2>2, <2>3, ContestGrows DEF ContestOK
<1>5. s \in Save /\ s.conv = ids' /\ s.obj = o /\ s.stage = "commit" /\ s.messages = objs[o].messages
  BY <1>1, <1>3 DEF Save
<1>6. n \in Session /\ n.conv = ids' /\ n.messages = objs[o].messages
  BY <1>1, <1>3 DEF Session
<1> HIDE DEF s, n
<1>7. objs'[o] = n /\ \A x \in Objects : x # o => objs'[x] = objs[x]
  BY <1>1, <1>2 DEF TypeInv, TypeOK
<1>8. saves'[p] = s /\ \A q \in Savers : q # p => saves'[q] = saves[q]
  BY <1>2, <1>5, SaveChanges
<1> QED
  BY <1>1, <1>2, <1>3, <1>4, <1>5, <1>6, <1>7, <1>8

LEMMA UpdateEffect ==
    ASSUME TypeInv, NEW p \in Savers, UpdateRow(p)
    PROVE  /\ Saving(p) /\ saves[p] \in Save /\ saves[p].stage = "update"
           /\ saves'[p] \in Save /\ saves'[p].obj = saves[p].obj /\ saves'[p].conv = saves[p].conv
           /\ saves'[p].stage = "commit" /\ saves'[p].messages = objs[saves[p].obj].messages
           /\ \A q \in Savers : q # p => saves'[q] = saves[q]
           /\ \A q \in Savers : q # p /\ Saving(q) /\ saves[q].stage = "commit" =>
                  saves[q].conv # saves[p].conv
           /\ UNCHANGED <<sess, objs, turns, rows, fork, router, dropped, ids, created, rolled, told>>
           /\ ContestOK
<1> DEFINE s == [saves[p] EXCEPT !.stage = "commit", !.messages = objs[saves[p].obj].messages]
<1>1. Saving(p) /\ saves[p] \in Save /\ objs[saves[p].obj].messages \in Lists
  BY SaveTypes DEF UpdateRow
<1>2. /\ saves[p].stage = "update" /\ saves' = [saves EXCEPT ![p] = s]
      /\ UNCHANGED <<sess, objs, turns, rows, fork, router, dropped, ids, created, rolled, told>>
      /\ \A q \in Savers : q # p /\ Saving(q) /\ saves[q].stage = "commit" =>
             saves[q].conv # saves[p].conv
  BY DEF UpdateRow, memory, history, rewriting, counters
<1>3. /\ s \in Save /\ s.conv = saves[p].conv /\ s.obj = saves[p].obj /\ s.stage = "commit"
      /\ s.messages = objs[saves[p].obj].messages
  BY <1>1 DEF Save
<1>4. ContestOK
  BY ContestGrows DEF ContestOK, UpdateRow, TypeInv, TypeOK
<1> HIDE DEF s
<1>5. saves'[p] = s /\ \A q \in Savers : q # p => saves'[q] = saves[q]
  BY <1>2, <1>3, SaveChanges
<1> QED
  BY <1>1, <1>2, <1>3, <1>4, <1>5

\* What a save that ends does to the cid's session and turn, and to others'.
LEMMA CommitEffect ==
    ASSUME TypeInv, NEW p \in Savers, CommitSave(p)
    PROVE  LET c == saves[p].conv  k == p[1] IN
           /\ Saving(p) /\ saves[p] \in Save /\ saves[p].stage = "commit"
           /\ k \in Cids /\ c \in Convs /\ saves[p].messages \in Lists
           /\ rows'[c] = saves[p].messages /\ saves[p].messages # NoRow
           /\ rows' = [rows EXCEPT ![c] = saves[p].messages]
           /\ \A d \in Convs : d # c => rows'[d] = rows[d]
           /\ saves'[p] = Idle /\ \A q \in Savers : q # p => saves'[q] = saves[q]
           /\ \A j \in Cids : sess'[j] = sess[j] \/ (sess'[j] = 0 /\ j = k /\ p[2] = "event")
           /\ \A j \in Cids : turns'[j] = turns[j] \/ (turns'[j] = Idle /\ j = k /\ p[2] = "turn")
           /\ told' \subseteq told \cup (IF p[2] = "turn" /\ turns[k].stage = "save"
                                         THEN {<<turns[k].exchange, c>>} ELSE {})
           /\ UNCHANGED <<objs, fork, router, dropped, ids, created, rolled>>
           /\ ContestOK
<1> DEFINE c == saves[p].conv
           k == p[1]
<1>1. Saving(p) /\ saves[p] \in Save /\ k \in Cids /\ saves[p].stage = "commit"
  BY SaveTypes DEF CommitSave
<1>2. c \in Convs /\ saves[p].messages \in Lists
  BY <1>1 DEF TypeInv, StageOK, Save, Convs
<1>3. /\ rows' = [rows EXCEPT ![c] = saves[p].messages]
      /\ saves' = [saves EXCEPT ![p] = Idle] /\ Returned(p, c)
      /\ UNCHANGED <<objs, fork, router, dropped, ids, created, rolled>>
  BY DEF CommitSave, Release, rewriting, counters
<1>4. saves[p].messages # NoRow
  BY <1>2, ListIsNoRow
<1>5. rows'[c] = saves[p].messages /\ \A d \in Convs : d # c => rows'[d] = rows[d]
  BY <1>2, <1>3 DEF TypeInv, TypeOK
<1>6. saves'[p] = Idle /\ \A q \in Savers : q # p => saves'[q] = saves[q]
  BY <1>3, SaveChanges
<1>7. ContestOK
  BY ContestGrows DEF ContestOK, CommitSave, TypeInv, TypeOK
<1>8. /\ \A j \in Cids : sess'[j] = sess[j] \/ (sess'[j] = 0 /\ j = k /\ p[2] = "event")
      /\ \A j \in Cids : turns'[j] = turns[j] \/ (turns'[j] = Idle /\ j = k /\ p[2] = "turn")
      /\ told' \subseteq told \cup (IF p[2] = "turn" /\ turns[k].stage = "save"
                                    THEN {<<turns[k].exchange, c>>} ELSE {})
  <2>1. CASE p[2] = "event"
    BY <1>1, <1>3, <2>1 DEF Returned, TypeInv, TypeOK
  <2>2. CASE p[2] = "turn"
    BY <1>1, <1>3, <2>2 DEF Returned, TypeInv, TypeOK
  <2> QED
    BY <2>1, <2>2, SaverIsPair
<1> HIDE DEF c, k
<1>9. QED
  BY <1>1, <1>2, <1>3, <1>4, <1>5, <1>6, <1>7, <1>8 DEF c, k

LEMMA RollBackEffect ==
    ASSUME TypeInv, NEW p \in Savers, RollBack(p)
    PROVE  LET c == saves[p].conv  k == p[1] IN
           /\ Saving(p) /\ saves[p] \in Save /\ saves[p].stage = "commit"
           /\ k \in Cids /\ c \in Convs
           /\ rolled \subseteq rolled' /\ (IsNew(p) => c \in rolled')
           /\ saves'[p] = Idle /\ \A q \in Savers : q # p => saves'[q] = saves[q]
           /\ \A j \in Cids : \/ turns'[j] = turns[j]
                              \/ j = k /\ turns'[j] = Idle
                              \/ /\ j = k /\ turns[j] # Idle /\ turns[j].stage = "save"
                                 /\ turns'[j].stage = "resave" /\ turns'[j].obj = turns[j].obj
                                 /\ turns'[j].messages = turns[j].messages
           /\ UNCHANGED <<sess, objs, rows, fork, router, dropped, ids, created, told>>
           /\ ContestOK
<1> DEFINE c == saves[p].conv
           k == p[1]
<1>1. Saving(p) /\ saves[p] \in Save /\ k \in Cids /\ saves[p].stage = "commit"
  BY SaveTypes DEF RollBack
<1>2. c \in Convs
  BY <1>1 DEF TypeInv, StageOK, Save, Convs
<1>3. /\ saves' = [saves EXCEPT ![p] = Idle] /\ Raised(p)
      /\ rolled \subseteq rolled' /\ (IsNew(p) => c \in rolled')
      /\ UNCHANGED <<sess, objs, rows, fork, router, dropped, ids, created, told>>
  BY DEF RollBack, Release, memory, rewriting, counters
<1>4. saves'[p] = Idle /\ \A q \in Savers : q # p => saves'[q] = saves[q]
  BY <1>3, SaveChanges
<1>5. ContestOK
  BY ContestGrows DEF ContestOK, RollBack, TypeInv, TypeOK
<1>6. \A j \in Cids : \/ turns'[j] = turns[j]
                      \/ j = k /\ turns'[j] = Idle
                      \/ /\ j = k /\ turns[j] # Idle /\ turns[j].stage = "save"
                         /\ turns'[j].stage = "resave" /\ turns'[j].obj = turns[j].obj
                         /\ turns'[j].messages = turns[j].messages
  <2>1. CASE p[2] = "event"
    BY <1>3, <2>1 DEF Raised
  <2>2. CASE p[2] = "turn"
    <3> DEFINE t == [turns[k] EXCEPT !.stage = "resave"]
    <3>1. turns[k] # Idle /\ turns[k] \in Turn
      <4>1. p = <<k, "turn">>
        BY <2>2, SaverIsPair
      <4>2. turns[k] # Idle
        BY <1>1, <4>1 DEF TypeInv, CallersOK
      <4> QED
        BY <1>1, <4>2 DEF TypeInv, TypeOK
    <3>2. t.stage = "resave" /\ t.obj = turns[k].obj /\ t.messages = turns[k].messages
      BY <3>1 DEF Turn
    <3>3. turns' = [turns EXCEPT ![k] = IF turns[k].stage = "save" THEN t ELSE Idle]
      BY <1>1, <1>3, <2>2 DEF Raised, TypeInv, TypeOK
    <3> HIDE DEF t, k
    <3>4. /\ \A j \in Cids : j # k => turns'[j] = turns[j]
          /\ turns'[k] = IF turns[k].stage = "save" THEN t ELSE Idle
      BY <1>1, <3>3 DEF TypeInv, TypeOK
    <3> QED
      BY <3>1, <3>2, <3>4
  <2> QED
    BY <2>1, <2>2, SaverIsPair
<1> HIDE DEF c, k
<1> QED
  BY <1>1, <1>2, <1>3, <1>4, <1>5, <1>6 DEF c, k

LEMMA UserMessageEffect ==
    ASSUME TypeInv, NEW k \in Cids, NEW hint \in 0..MaxConvs, UserMessage(k, hint)
    PROVE  /\ turns[k] = Idle /\ Known(k)
           /\ sess'[k] \in Objects /\ objs'[sess'[k]] \in Session
           /\ \/ UNCHANGED <<sess, objs>>
              \/ /\ sess[k] = 0 /\ objs[sess'[k]] = Idle
                 /\ objs'[sess'[k]].conv = 0 /\ objs'[sess'[k]].messages = {}
                 /\ \A j \in Cids : j # k => sess'[j] = sess[j]
                 /\ \A x \in Objects : x # sess'[k] => objs'[x] = objs[x]
           /\ turns'[k].stage = "recover" /\ turns'[k].obj = sess'[k] /\ turns'[k] # Idle
           /\ \A j \in Cids : j # k => turns'[j] = turns[j]
           /\ UNCHANGED <<saves, rows, fork, router, dropped, ids, created, rolled, told>>
           /\ ContestOK
<1> DEFINE s == Blank
           t == [stage |-> "recover", obj |-> sess'[k],
                 hint |-> IF objs'[sess'[k]] = s THEN hint ELSE 0,
                 exchange |-> exchanges', messages |-> {}]
<1>1. /\ turns[k] = Idle /\ Known(k) /\ turns' = [turns EXCEPT ![k] = t]
      /\ \/ sess[k] # 0 /\ UNCHANGED <<sess, objs>>
         \/ sess[k] = 0 /\ \E o \in Objects : create_conv_session(k, o, s)
      /\ UNCHANGED <<saves, rows, fork, router, dropped, ids, created, rolled, told>>
  BY DEF UserMessage, saving, memory, history, rewriting, counters
<1>2. exchanges' \in Exchanges
  BY ConstantsAssumption DEF UserMessage, NewExchange, TypeInv, TypeOK, Exchanges
<1>3. ContestOK
  BY ContestGrows DEF ContestOK, UserMessage, TypeInv, TypeOK
<1>4. s \in Session /\ s.conv = 0 /\ s.messages = {}
  BY ConstantsAssumption DEF Session, Blank, Lists
<1>5. /\ sess'[k] \in Objects /\ objs'[sess'[k]] \in Session
      /\ \/ UNCHANGED <<sess, objs>>
         \/ /\ sess[k] = 0 /\ objs[sess'[k]] = Idle
            /\ objs'[sess'[k]].conv = 0 /\ objs'[sess'[k]].messages = {}
            /\ \A j \in Cids : j # k => sess'[j] = sess[j]
            /\ \A x \in Objects : x # sess'[k] => objs'[x] = objs[x]
  <2> HIDE DEF s
  <2>1. CASE sess[k] # 0 /\ UNCHANGED <<sess, objs>>
    BY <2>1 DEF TypeInv, TypeOK, LiveOK
  <2>2. CASE sess[k] = 0 /\ \E o \in Objects : create_conv_session(k, o, s)
    <3>1. PICK o \in Objects : create_conv_session(k, o, s)
      BY <2>2
    <3>2. /\ sess'[k] = o /\ objs[o] = Idle /\ objs'[o] = s
          /\ \A j \in Cids : j # k => sess'[j] = sess[j]
          /\ \A x \in Objects : x # o => objs'[x] = objs[x]
      BY ZenonT(60), <1>4, <2>2, <3>1, CreateTypes
    <3> QED
      BY <1>4, <2>2, <3>2
  <2> QED
    BY <1>1, <2>1, <2>2
<1>6. /\ t \in Turn /\ t.stage = "recover" /\ t.obj = sess'[k]
  BY <1>2, <1>5, ConstantsAssumption DEF Turn, Lists
<1> HIDE DEF t, s
<1>7. turns'[k] = t /\ \A j \in Cids : j # k => turns'[j] = turns[j]
  BY <1>1, <1>6 DEF TypeInv, TypeOK
<1> QED
  BY <1>1, <1>3, <1>4, <1>5, <1>6, <1>7, IdleAssumption

\* A session keeps its number and its list grows, unless it is recovered.
LEMMA BeginTurnEffect ==
    ASSUME TypeInv, NEW k \in Cids, BeginTurn(k)
    PROVE  LET t == turns[k] IN
           /\ t # Idle /\ t.stage \in {"recover", "load"} /\ t.obj \in Objects
           /\ turns'[k] # Idle /\ turns'[k].stage = "loop" /\ turns'[k].obj = t.obj
           /\ \A j \in Cids : j # k => turns'[j] = turns[j]
           /\ sess[k] # 0 => /\ objs'[sess[k]].messages = turns'[k].messages
                             /\ objs'[sess[k]].messages # {}
           /\ \A x \in Objects : objs'[x] # Idle <=> objs[x] # Idle
           /\ \A x \in Objects : x # t.obj /\ x # sess[k] => objs'[x] = objs[x]
           /\ \A x \in Objects : objs[x] # Idle =>
                \/ objs'[x].conv = objs[x].conv /\ objs[x].messages \subseteq objs'[x].messages
                \/ /\ x = t.obj /\ Found(k) /\ t.hint \in Convs /\ rows[t.hint] # NoRow
                   /\ objs'[x].conv = t.hint /\ t.messages \subseteq objs'[x].messages
           /\ Found(k) =>
                /\ rows[t.hint] # t.messages => t.hint \in contested'
                /\ (objs[t.obj] = Blank /\ SavesOf(k) = {}) \/ Mixed(k, t.hint) \subseteq contested'
           /\ UNCHANGED <<sess, saves, rows, fork, router, dropped, ids, created, rolled, told>>
           /\ ContestOK
<1> DEFINE t == turns[k]
           u == [turns[k] EXCEPT !.stage = "loop", !.messages = List(k)]
           s == [Loaded(k)[sess[k]] EXCEPT !.messages = List(k)]
<1>1. /\ t # Idle /\ t.stage \in {"recover", "load"}
      /\ turns' = [turns EXCEPT ![k] = u]
      /\ objs' = IF sess[k] = 0 THEN Loaded(k) ELSE [Loaded(k) EXCEPT ![sess[k]] = s]
      /\ UNCHANGED <<sess, saves, rows, fork, router, dropped, ids, created, rolled, told>>
  BY DEF BeginTurn, List, Loaded, Found, saving, history, rewriting, counters
<1>2. /\ t \in Turn /\ t.obj \in Objects /\ t.exchange \in Exchanges /\ t.hint \in 0..MaxConvs
      /\ objs[t.obj] # Idle
      /\ Loaded(k) \in [Objects -> Session \cup {Idle}]
      /\ \A x \in Objects : Loaded(k)[x] # Idle <=> objs[x] # Idle
      /\ \A x \in Objects : x # t.obj => Loaded(k)[x] = objs[x]
      /\ List(k) \in Lists
  BY <1>1, LoadTypes DEF Turn
<1>3. /\ ContestOK
      /\ Found(k) =>
           /\ rows[t.hint] # t.messages => t.hint \in contested'
           /\ (objs[t.obj] = Blank /\ SavesOf(k) = {}) \/ Mixed(k, t.hint) \subseteq contested'
  <2> DEFINE S == IF ~Found(k) THEN {}
                  ELSE (IF rows[t.hint] = t.messages THEN {} ELSE {t.hint})
                       \cup (IF objs[t.obj] = Blank /\ SavesOf(k) = {} THEN {} ELSE Mixed(k, t.hint))
  <2>1. Contest(S)
    BY DEF BeginTurn, Found
  <2>2. S \subseteq Convs /\ contested \subseteq Convs
    BY <1>1, <1>2 DEF TypeInv, TypeOK, TurnsOK, Found, Mixed, Convs
  <2>3. Found(k) => /\ rows[t.hint] # t.messages => t.hint \in S
                    /\ (objs[t.obj] = Blank /\ SavesOf(k) = {}) \/ Mixed(k, t.hint) \subseteq S
    OBVIOUS
  <2> HIDE DEF S, t
  <2>4. ContestOK /\ S \subseteq contested'
    BY <2>1, <2>2, ContestGrows DEF ContestOK
  <2> QED
    BY <2>3, <2>4
<1>4. /\ u \in Turn /\ u.stage = "loop" /\ u.obj = t.obj /\ u.messages = List(k)
  BY <1>2 DEF Turn
<1>5. sess[k] # 0 =>
          /\ sess[k] \in Objects /\ Loaded(k)[sess[k]] \in Session /\ s \in Session
          /\ s.conv = Loaded(k)[sess[k]].conv /\ s.messages = List(k)
          /\ Loaded(k)[sess[k]].messages \subseteq List(k) /\ List(k) # {}
  <2> SUFFICES ASSUME sess[k] # 0
               PROVE
          /\ sess[k] \in Objects /\ Loaded(k)[sess[k]] \in Session /\ s \in Session
          /\ s.conv = Loaded(k)[sess[k]].conv /\ s.messages = List(k)
          /\ Loaded(k)[sess[k]].messages \subseteq List(k) /\ List(k) # {}
    OBVIOUS
  <2>1. sess[k] \in Objects /\ Loaded(k)[sess[k]] \in Session
    BY <1>2 DEF TypeInv, TypeOK, LiveOK
  <2>2. Loaded(k)[sess[k]].messages \subseteq List(k) /\ List(k) # {}
    BY DEF List
  <2> QED
    BY <1>2, <2>1, <2>2 DEF Session
<1>6. \A x \in Objects : objs[x] # Idle =>
        \/ Loaded(k)[x] = objs[x]
        \/ /\ x = t.obj /\ Found(k) /\ t.hint \in Convs /\ rows[t.hint] # NoRow
           /\ Loaded(k)[x].conv = t.hint /\ Loaded(k)[x].messages = t.messages
  <2>1. Found(k) => t.hint \in Convs /\ rows[t.hint] # NoRow
    BY <1>1, <1>2 DEF Found, TypeInv, TurnsOK, ReadOK, Convs
  <2> QED
    BY <1>2, <2>1 DEF Loaded, TypeInv, TypeOK
<1> HIDE DEF t, u, s
<1>7. turns'[k] = u /\ \A j \in Cids : j # k => turns'[j] = turns[j]
  BY <1>1, <1>4 DEF TypeInv, TypeOK
<1>8. /\ sess[k] # 0 => objs'[sess[k]] = s
      /\ \A x \in Objects : x # sess[k] => objs'[x] = Loaded(k)[x]
  BY <1>1, <1>2, <1>5
<1>9. \A x \in Objects : objs[x] # Idle =>
        \/ objs'[x].conv = objs[x].conv /\ objs[x].messages \subseteq objs'[x].messages
        \/ /\ x = t.obj /\ Found(k) /\ t.hint \in Convs /\ rows[t.hint] # NoRow
           /\ objs'[x].conv = t.hint /\ t.messages \subseteq objs'[x].messages
  <2> SUFFICES ASSUME NEW x \in Objects, objs[x] # Idle
               PROVE
        \/ objs'[x].conv = objs[x].conv /\ objs[x].messages \subseteq objs'[x].messages
        \/ /\ x = t.obj /\ Found(k) /\ t.hint \in Convs /\ rows[t.hint] # NoRow
           /\ objs'[x].conv = t.hint /\ t.messages \subseteq objs'[x].messages
    OBVIOUS
  <2>1. x \in Nat /\ x # 0
    BY ConstantsAssumption
  <2>2. objs'[x].conv = Loaded(k)[x].conv /\ Loaded(k)[x].messages \subseteq objs'[x].messages
    BY <1>5, <1>8, <2>1
  <2> QED
    BY <1>6, <2>2
<1>10. \A x \in Objects : objs'[x] # Idle <=> objs[x] # Idle
  <2> SUFFICES ASSUME NEW x \in Objects
               PROVE  objs'[x] # Idle <=> Loaded(k)[x] # Idle
    BY <1>2
  <2>1. x # 0
    BY ConstantsAssumption
  <2>2. CASE x = sess[k]
    BY <1>5, <1>8, <2>1, <2>2, IdleAssumption
  <2>3. CASE x # sess[k]
    BY <1>8, <2>3
  <2> QED
    BY <2>2, <2>3
<1>11. \A x \in Objects : x # t.obj /\ x # sess[k] => objs'[x] = objs[x]
  BY <1>2, <1>8
<1> QED
  BY <1>1, <1>2, <1>3, <1>4, <1>5, <1>7, <1>8, <1>9, <1>10, <1>11, IdleAssumption DEF t

LEMMA SaveTurnEffect ==
    ASSUME TypeInv, NEW k \in Cids, NEW v \in {"save", "resave"},
           turns[k] # Idle, turns[k].stage \in {"loop", "resave"}, ~Saving(<<k, "turn">>),
           SaveTurn(k, v), UNCHANGED <<sess, rows, fork, router, dropped, ids, history>>
    PROVE  LET p == <<k, "turn">> IN
           /\ Running(k) /\ turns[k].exchange \in turns[k].messages \cup dropped
           /\ \A j \in Cids : j # k => turns'[j] = turns[j]
           /\ UNCHANGED <<sess, rows, fork, router, dropped, ids, created, rolled, told>>
           /\ \/ sess[k] = 0 /\ turns'[k] = Idle /\ UNCHANGED <<objs, saves>>
              \/ /\ sess[k] \in Objects /\ objs[sess[k]] \in Session /\ objs'[sess[k]] \in Session
                 /\ objs'[sess[k]].conv = objs[sess[k]].conv
                 /\ objs'[sess[k]].messages = turns[k].messages
                 /\ \A x \in Objects : x # sess[k] => objs'[x] = objs[x]
                 /\ turns'[k] # Idle /\ turns'[k].stage = v /\ turns'[k].obj = turns[k].obj
                 /\ turns'[k].messages = turns[k].messages
                 /\ turns'[k].exchange = turns[k].exchange
                 /\ p \in Savers /\ p[1] = k
                 /\ saves'[p] \in Save /\ saves'[p].obj = sess[k] /\ saves'[p].stage = "lock"
                 /\ saves'[p].conv = 0
                 /\ \A q \in Savers : q # p => saves'[q] = saves[q]
<1> DEFINE p == <<k, "turn">>
           t == [turns[k] EXCEPT !.stage = v]
           s == [objs[sess[k]] EXCEPT !.messages = turns[k].messages]
<1>1. turns[k] \in Turn /\ turns[k].messages \in Lists
  BY DEF TypeInv, TypeOK, Turn
<1>2. Running(k) /\ turns[k].exchange \in turns[k].messages \cup dropped
  BY DEF TypeInv, TurnsOK, Running
<1>3. UNCHANGED <<sess, rows, fork, router, dropped, ids, created, rolled, told>>
  BY DEF history
<1>4. CASE sess[k] = 0
  <2>1. turns' = [turns EXCEPT ![k] = Idle] /\ UNCHANGED <<objs, saves>>
    BY <1>4 DEF SaveTurn
  <2>2. turns'[k] = Idle /\ \A j \in Cids : j # k => turns'[j] = turns[j]
    BY <2>1 DEF TypeInv, TypeOK
  <2> QED
    BY <1>2, <1>3, <1>4, <2>1, <2>2
<1>5. CASE sess[k] # 0
  <2>1. /\ turns' = [turns EXCEPT ![k] = t] /\ objs' = [objs EXCEPT ![sess[k]] = s]
        /\ saves' = [saves EXCEPT ![p] = [obj |-> sess[k], stage |-> "lock",
                                          conv |-> 0, messages |-> {}]]
    BY <1>5 DEF SaveTurn, Begin
  <2>2. /\ t \in Turn /\ t.stage = v /\ t.obj = turns[k].obj
        /\ t.messages = turns[k].messages /\ t.exchange = turns[k].exchange
    BY <1>1 DEF Turn
  <2>3. sess[k] \in Objects /\ objs[sess[k]] \in Session
    BY <1>5 DEF TypeInv, TypeOK, LiveOK
  <2>4. s \in Session /\ s.conv = objs[sess[k]].conv /\ s.messages = turns[k].messages
    BY <1>1, <2>3 DEF Session
  <2>5. p \in Savers /\ p[1] = k
    BY SaverIsPair
  <2> DEFINE w == [obj |-> sess[k], stage |-> "lock", conv |-> 0, messages |-> {}]
  <2>6. w \in Save /\ w.obj = sess[k] /\ w.stage = "lock" /\ w.conv = 0
    BY <2>3, ConstantsAssumption DEF Save, Lists
  <2>7. saves' = [saves EXCEPT ![p] = w]
    BY <2>1
  <2> HIDE DEF t, s, p, w
  <2>8. turns'[k] = t /\ \A j \in Cids : j # k => turns'[j] = turns[j]
    BY <2>1 DEF TypeInv, TypeOK
  <2>9. objs'[sess[k]] = s /\ \A x \in Objects : x # sess[k] => objs'[x] = objs[x]
    BY <2>1, <2>3 DEF TypeInv, TypeOK
  <2>10. saves'[p] = w /\ \A q \in Savers : q # p => saves'[q] = saves[q]
    BY <2>5, <2>6, <2>7, SaveChanges
  <2> HIDE <2>1, <2>7
  <2>11. turns'[k] # Idle
    BY <2>2, <2>8, IdleAssumption
  <2> QED
    BY <1>2, <1>3, <2>2, <2>3, <2>4, <2>5, <2>6, <2>8, <2>9, <2>10, <2>11 DEF p
<1> QED
  BY <1>4, <1>5

LEMMA EventEffect ==
    ASSUME TypeInv, NEW k \in Cids, Event(k)
    PROVE  LET p == <<k, "event">> IN
           /\ UNCHANGED <<objs, turns, rows, fork, router, dropped, ids, created, rolled, told>>
           /\ ContestOK
           /\ sess[k] \in Objects /\ p \in Savers /\ p[1] = k
           /\ \/ /\ UNCHANGED saves /\ sess'[k] = 0
                 /\ \A j \in Cids : j # k => sess'[j] = sess[j]
              \/ /\ UNCHANGED sess /\ objs[sess[k]].messages # {}
                 /\ saves'[p] \in Save /\ saves'[p].obj = sess[k] /\ saves'[p].stage = "lock"
                 /\ saves'[p].conv = 0
                 /\ \A q \in Savers : q # p => saves'[q] = saves[q]
<1> DEFINE p == <<k, "event">>
           w == [obj |-> sess[k], stage |-> "lock", conv |-> 0, messages |-> {}]
<1>1. UNCHANGED <<objs, turns, rows, fork, router, dropped, ids, created, rolled, told>>
  BY DEF Event, history, rewriting, counters
<1>2. ContestOK
  BY ContestGrows DEF ContestOK, Event, TypeInv, TypeOK
<1>3. sess[k] # 0 /\ sess[k] \in Objects
  BY DEF Event, TypeInv, TypeOK
<1>4. p \in Savers /\ p[1] = k
  BY SaverIsPair
<1>5. CASE Empty(k)
  <2>1. sess' = [sess EXCEPT ![k] = 0] /\ UNCHANGED saves
    BY <1>5 DEF Event
  <2> QED
    BY <1>1, <1>2, <1>3, <1>4, <2>1 DEF TypeInv, TypeOK
<1>6. CASE ~Empty(k)
  <2>1. saves' = [saves EXCEPT ![p] = w] /\ UNCHANGED sess
    BY <1>6 DEF Event, Begin
  <2>2. w \in Save /\ w.obj = sess[k] /\ w.stage = "lock" /\ w.conv = 0
    BY <1>3, ConstantsAssumption DEF Save, Lists
  <2> HIDE DEF p, w
  <2>3. saves'[p] = w /\ \A q \in Savers : q # p => saves'[q] = saves[q]
    BY <1>4, <2>1, <2>2, SaveChanges
  <2>4. objs[sess[k]].messages # {}
    BY <1>6 DEF Empty
  <2> QED
    BY <1>1, <1>2, <1>3, <1>4, <2>1, <2>2, <2>3, <2>4 DEF p
<1> QED
  BY <1>5, <1>6

LEMMA RecoverEffect ==
    ASSUME TypeInv, NEW k \in Cids, Recover(k)
    PROVE  /\ turns[k] # Idle /\ turns[k].stage = "recover"
           /\ turns'[k] # Idle /\ turns'[k].stage \in {"recover", "load"}
           /\ turns'[k].obj = turns[k].obj
           /\ \A j \in Cids : j # k => turns'[j] = turns[j]
           /\ UNCHANGED <<sess, objs, saves, rows, fork, router, dropped, ids, created, rolled, told>>
           /\ ContestOK
<1> DEFINE c == turns[k].hint
           t == [turns[k] EXCEPT !.stage = "load", !.messages = rows[c]]
           u == [turns[k] EXCEPT !.hint = 0]
<1>1. /\ turns[k] # Idle /\ turns[k].stage = "recover" /\ c # 0
      /\ turns' = [turns EXCEPT ![k] = t] \/ turns' = [turns EXCEPT ![k] = u]
      /\ UNCHANGED <<sess, objs, saves, rows, fork, router, dropped, ids, created, rolled, told>>
  BY DEF Recover, memory, saving, history, rewriting, counters
<1>2. ContestOK
  BY ContestGrows DEF ContestOK, Recover, TypeInv, TypeOK
<1>3. turns[k] \in Turn /\ c \in Convs /\ rows[c] \in Lists
  BY <1>1 DEF TypeInv, TypeOK, ReadOK, Turn, Convs
<1>4. /\ t \in Turn /\ t.stage = "load" /\ t.obj = turns[k].obj
      /\ u \in Turn /\ u.stage = "recover" /\ u.obj = turns[k].obj
  <2>1. t \in Turn /\ t.stage = "load" /\ t.obj = turns[k].obj
    BY <1>1, <1>3 DEF Turn
  <2>2. u \in Turn /\ u.stage = "recover" /\ u.obj = turns[k].obj
    BY <1>1, <1>3, ConstantsAssumption DEF Turn
  <2> QED
    BY <2>1, <2>2
<1> HIDE DEF t, u
<1>5. turns'[k] \in {t, u} /\ \A j \in Cids : j # k => turns'[j] = turns[j]
  BY <1>1 DEF TypeInv, TypeOK
<1> QED
  BY <1>1, <1>2, <1>4, <1>5, IdleAssumption

\* A handler reads what is saved of a conversation ...
LEMMA ResumeEffect ==
    ASSUME TypeInv, NEW k \in Cids, NEW c \in Convs, Resume(k, c)
    PROVE  /\ Known(k) /\ router' # Idle /\ router'.cid = k
           /\ UNCHANGED <<sess, objs, turns, saves, rows, fork, dropped, ids, created, rolled, told>>
           /\ ContestOK
<1> DEFINE r == [op |-> "resume", cid |-> k, conv |-> c, messages |-> rows[c]]
<1>1. /\ Known(k) /\ rows[c] # NoRow /\ router' = r
      /\ UNCHANGED <<sess, objs, turns, saves, rows, fork, dropped, ids, created, rolled, told>>
  BY DEF Resume, memory, saving, history, counters
<1>2. ContestOK
  BY ContestGrows DEF ContestOK, Resume, TypeInv, TypeOK
<1>3. r \in Router /\ r.cid = k
  BY <1>1 DEF TypeInv, TypeOK, Router, Convs
<1> HIDE DEF r
<1> QED
  BY <1>1, <1>2, <1>3, IdleAssumption

\* ... and the cid gets it, with what was read.
LEMMA InstallEffect ==
    ASSUME TypeInv, Install
    PROVE  LET k == router.cid  c == router.conv  o == sess'[k] IN
           /\ router # Idle /\ router' = Idle
           /\ k \in Cids /\ c \in Convs /\ rows[c] # NoRow
           /\ o \in Objects /\ o # 0
           /\ \/ sess[k] = o
              \/ sess[k] = 0 /\ objs[o] = Idle
           /\ \A j \in Cids : j # k => sess'[j] = sess[j]
           /\ objs'[o] \in Session /\ objs'[o].conv = c /\ objs'[o].messages = router.messages
           /\ \A x \in Objects : x # o => objs'[x] = objs[x]
           /\ UNCHANGED <<turns, saves, rows, fork, dropped, ids, created, rolled, told>>
           /\ ContestOK
           /\ Busy(k) => Mixed(k, c) \subseteq contested'
           /\ rows[c] # router.messages => c \in contested'
<1> DEFINE k == router.cid
           c == router.conv
           s == [messages |-> router.messages, conv |-> c]
<1>1. /\ router # Idle /\ router.op = "resume" /\ router' = Idle
      /\ \/ sess[k] # 0 /\ objs' = [objs EXCEPT ![sess[k]] = s] /\ UNCHANGED sess
         \/ sess[k] = 0 /\ \E o \in Objects : create_conv_session(k, o, s)
      /\ UNCHANGED <<turns, saves, rows, fork, dropped, ids, created, rolled, told>>
  BY DEF Install, saving, history, counters
<1>2. /\ k \in Cids /\ c \in Convs /\ rows[c] # NoRow
      /\ s \in Session /\ s.conv = c /\ s.messages = router.messages
  <2>1. router \in Router /\ router.conv \in Convs /\ rows[c] # NoRow
    BY <1>1 DEF TypeInv, TypeOK, ReadOK
  <2> QED
    BY <2>1 DEF Router, Session
<1>3. /\ ContestOK
      /\ Busy(k) => Mixed(k, c) \subseteq contested'
      /\ rows[c] # router.messages => c \in contested'
  <2> DEFINE S == (IF Busy(k) THEN Mixed(k, c) ELSE {})
                  \cup (IF rows[c] = router.messages THEN {} ELSE {c})
  <2>1. Contest(S)
    BY DEF Install
  <2>2. S \subseteq Convs /\ contested \subseteq Convs
    BY <1>2 DEF TypeInv, TypeOK, Mixed
  <2>3. /\ Busy(k) => Mixed(k, c) \subseteq S
        /\ rows[c] # router.messages => c \in S
    OBVIOUS
  <2> HIDE DEF S, k, c
  <2>4. ContestOK /\ S \subseteq contested'
    BY <2>1, <2>2, ContestGrows DEF ContestOK
  <2> QED
    BY <2>3, <2>4
<1> HIDE DEF s, k
<1>4. CASE sess[k] # 0 /\ objs' = [objs EXCEPT ![sess[k]] = s] /\ UNCHANGED sess
  <2>1. sess[k] \in Objects
    BY <1>2, <1>4 DEF TypeInv, TypeOK
  <2>2. objs'[sess[k]] = s /\ \A x \in Objects : x # sess[k] => objs'[x] = objs[x]
    BY <1>4, <2>1 DEF TypeInv, TypeOK
  <2> QED
    BY <1>1, <1>2, <1>3, <1>4, <2>1, <2>2 DEF k
<1>5. CASE sess[k] = 0 /\ \E o \in Objects : create_conv_session(k, o, s)
  <2>1. PICK o \in Objects : create_conv_session(k, o, s)
    BY <1>5
  <2>2. /\ sess'[k] = o /\ objs[o] = Idle /\ objs'[o] = s
        /\ \A j \in Cids : j # k => sess'[j] = sess[j]
        /\ \A x \in Objects : x # o => objs'[x] = objs[x]
    BY ZenonT(60), <1>2, <1>5, <2>1, CreateTypes
  <2> QED
    BY <1>1, <1>2, <1>3, <1>5, <2>2, ConstantsAssumption DEF k
<1> QED
  BY <1>1, <1>4, <1>5 DEF k

\* The router's handlers write the list of one session, or none.
LEMMA RewriteEffect ==
    ASSUME TypeInv, NEW k \in Cids, NEW l \in Lists, Rewrite(k, l)
    PROVE  /\ dropped \subseteq dropped'
           /\ \/ sess[k] = 0 /\ UNCHANGED <<objs, dropped>>
              \/ LET o == sess[k] IN
                 /\ o \in Objects /\ objs[o] \in Session /\ objs'[o] \in Session
                 /\ objs'[o].conv = objs[o].conv /\ objs'[o].messages = l
                 /\ objs[o].messages \subseteq l \cup dropped'
                 /\ Running(k) => l \subseteq turns[k].messages \cup dropped'
                 /\ \A x \in Objects : x # o => objs'[x] = objs[x]
<1>1. CASE sess[k] = 0
  BY <1>1 DEF Rewrite
<1>2. CASE sess[k] # 0
  <2> DEFINE s == [objs[sess[k]] EXCEPT !.messages = l]
  <2>1. sess[k] \in Objects /\ objs[sess[k]] \in Session
    BY <1>2 DEF TypeInv, TypeOK, LiveOK
  <2>2. /\ objs' = [objs EXCEPT ![sess[k]] = s]
        /\ s \in Session /\ s.conv = objs[sess[k]].conv /\ s.messages = l
    BY <1>2, <2>1 DEF Rewrite, Session
  <2> HIDE DEF s
  <2>3. objs'[sess[k]] = s /\ \A x \in Objects : x # sess[k] => objs'[x] = objs[x]
    BY <2>1, <2>2 DEF TypeInv, TypeOK
  <2>4. /\ dropped \subseteq dropped' /\ objs[sess[k]].messages \subseteq l \cup dropped'
        /\ Running(k) => l \subseteq turns[k].messages \cup dropped'
    BY <1>2 DEF Rewrite
  <2> QED
    BY <2>1, <2>2, <2>3, <2>4
<1> QED
  BY <1>1, <1>2

LEMMA RollbackCompressionEffect ==
    ASSUME TypeInv, NEW k \in Cids, rollback_compression(k)
    PROVE  /\ snapshots[k] # {} /\ snapshots[k] \in Lists /\ Rewrite(k, snapshots[k])
           /\ UNCHANGED <<sess, turns, saves, rows, fork, router, ids, created, rolled, told>>
           /\ ContestOK
<1>1. ContestOK
  BY ContestGrows DEF ContestOK, rollback_compression, TypeInv, TypeOK
<1> QED
  BY <1>1 DEF rollback_compression, saving, history, counters, TypeInv, TypeOK

LEMMA SummarizedEffect ==
    ASSUME TypeInv, Summarized
    PROVE  /\ router # Idle /\ router' = Idle /\ router.cid \in Cids /\ router.messages \in Lists
           /\ Rewrite(router.cid, router.messages)
           /\ UNCHANGED <<sess, turns, saves, rows, fork, ids, created, rolled, told>>
           /\ ContestOK
<1>1. ContestOK
  BY ContestGrows DEF ContestOK, Summarized, TypeInv, TypeOK
<1>2. router \in Router
  BY DEF Summarized, TypeInv, TypeOK
<1> QED
  BY <1>1, <1>2 DEF Summarized, saving, history, counters, Router

LEMMA RetryEffect ==
    ASSUME TypeInv, NEW k \in Cids, retry(k)
    PROVE  /\ UNCHANGED <<sess, saves, rows, fork, router, ids, created, rolled, told>>
           /\ ContestOK
<1>1. ContestOK
  BY ContestGrows DEF ContestOK, retry, TypeInv, TypeOK
<1> QED
  BY <1>1 DEF retry, saving, history, counters

\* A copy of a list that a handler takes changes no list.
LEMMA CopyEffect ==
    ASSUME TypeInv, NEW k \in Cids, compress_if_needed(k) \/ summarize_context(k)
    PROVE  /\ UNCHANGED <<sess, objs, turns, saves, rows, fork, dropped, ids, created, rolled, told>>
           /\ ContestOK
           /\ UNCHANGED router \/ (sess[k] # 0 /\ router' # Idle /\ router'.cid = k)
<1>1. CASE compress_if_needed(k)
  <2>1. ContestOK
    BY <1>1, ContestGrows DEF ContestOK, compress_if_needed, TypeInv, TypeOK
  <2> QED
    BY <1>1, <2>1 DEF compress_if_needed, memory, saving, history, counters
<1>2. CASE summarize_context(k)
  <2> DEFINE l == Answered(k, objs[sess[k]].messages)
             r == [op |-> "summarize", cid |-> k, conv |-> 0, messages |-> l]
  <2>1. ContestOK
    BY <1>2, ContestGrows DEF ContestOK, summarize_context, TypeInv, TypeOK
  <2>2. sess[k] # 0 /\ objs[sess[k]] \in Session
    BY <1>2 DEF summarize_context, Empty, TypeInv, TypeOK, LiveOK
  <2>3. l \in Lists
    BY <2>2 DEF Session, Answered, Lists
  <2> HIDE DEF l
  <2>4. r \in Router /\ r.cid = k
    BY <2>3, ConstantsAssumption DEF Router
  <2>5. /\ router' = r
        /\ UNCHANGED <<sess, objs, turns, saves, rows, fork, dropped, ids, created, rolled, told>>
    BY <1>2 DEF summarize_context, memory, saving, history, counters, l
  <2> HIDE DEF r
  <2> QED
    BY <2>1, <2>2, <2>4, <2>5, IdleAssumption
<1> QED
  BY <1>1, <1>2

LEMMA StartForkEffect ==
    ASSUME TypeInv, NEW k \in Cids, NEW c \in Convs, StartFork(k, c)
    PROVE  /\ fork'.cid = k /\ sess[k] = 0 /\ ~Busy(k) /\ ContestOK
           /\ router # Idle => router.cid # k
           /\ UNCHANGED <<sess, objs, turns, saves, rows, router, dropped, ids, created, rolled, told>>
<1>1. ContestOK
  BY ContestGrows DEF ContestOK, StartFork, TypeInv, TypeOK
<1> QED
  BY <1>1 DEF StartFork, Unused, memory, saving, history, rewriting, counters

LEMMA CommitForkEffect ==
    ASSUME TypeInv, ForkOK, CommitFork
    PROVE  LET k == fork.cid  o == sess'[k] IN
           /\ k \in Cids /\ sess[k] = 0 /\ ~Busy(k) /\ (router # Idle => router.cid # k)
           /\ o \in Objects /\ objs[o] = Idle
           /\ ids \in Nat /\ ids' = ids + 1 /\ ids' \in Convs
           /\ objs'[o] \in Session /\ objs'[o].conv = ids' /\ rows'[ids'] = objs'[o].messages
           /\ rows' = [rows EXCEPT ![ids'] = fork.messages]
           /\ rows'[ids'] \in Lists /\ rows'[ids'] # NoRow
           /\ \A j \in Cids : j # k => sess'[j] = sess[j]
           /\ \A x \in Objects : x # o => objs'[x] = objs[x]
           /\ \A d \in Convs : d # ids' => rows'[d] = rows[d]
           /\ fork' = Idle
           /\ UNCHANGED <<turns, saves, router, dropped, created, rolled, told>>
           /\ ContestOK
<1> DEFINE k == fork.cid
           s == [messages |-> fork.messages, conv |-> ids']
<1>1. /\ k \in Cids /\ fork.messages \in Lists
      /\ sess[k] = 0 /\ ~Busy(k) /\ (router # Idle => router.cid # k)
  BY DEF CommitFork, TypeInv, TypeOK, Fork, ForkOK
<1>2. ids \in Nat /\ ids' = ids + 1 /\ ids' \in Convs
  BY ConstantsAssumption DEF CommitFork, TypeInv, TypeOK, Convs
<1>3. /\ rows' = [rows EXCEPT ![ids'] = fork.messages] /\ fork' = Idle
      /\ UNCHANGED <<turns, saves, router, dropped, created, rolled, told>>
  BY DEF CommitFork, saving, history, rewriting, counters
<1>4. PICK o \in Objects : create_conv_session(k, o, s)
  BY DEF CommitFork
<1>5. ContestOK
  BY ContestGrows DEF ContestOK, CommitFork, TypeInv, TypeOK
<1>6. s \in Session /\ s.conv = ids' /\ s.messages = fork.messages
  BY <1>1, <1>2 DEF Session, Convs
<1>7. fork.messages # NoRow
  BY <1>1, ListIsNoRow
<1>8. rows'[ids'] = fork.messages /\ \A d \in Convs : d # ids' => rows'[d] = rows[d]
  BY <1>2, <1>3 DEF TypeInv, TypeOK
<1> HIDE DEF s, k
<1>9. /\ sess'[k] = o /\ objs[o] = Idle /\ objs'[o] = s
      /\ \A j \in Cids : j # k => sess'[j] = sess[j]
      /\ \A x \in Objects : x # o => objs'[x] = objs[x]
  BY ZenonT(60), <1>1, <1>4, <1>6, CreateTypes
<1> QED
  BY <1>1, <1>2, <1>3, <1>5, <1>6, <1>7, <1>8, <1>9 DEF k

LEMMA ImportEffect ==
    ASSUME TypeInv, import_conversation
    PROVE  /\ ids \in Nat /\ ids' = ids + 1 /\ ids' \in Convs
           /\ \E l \in Lists : rows' = [rows EXCEPT ![ids'] = l]
           /\ rows'[ids'] # NoRow /\ \A d \in Convs : d # ids' => rows'[d] = rows[d]
           /\ UNCHANGED <<sess, objs, turns, saves, fork, router, dropped, created, rolled, told>>
           /\ ContestOK
<1>1. /\ ids \in Nat /\ ids' = ids + 1 /\ ids' \in Convs /\ {exchanges'} \in Lists
  BY ConstantsAssumption DEF import_conversation, NewExchange, Exchanges, Lists, Convs, TypeInv, TypeOK
<1>2. /\ rows' = [rows EXCEPT ![ids'] = {exchanges'}]
      /\ UNCHANGED <<sess, objs, turns, saves, fork, router, dropped, created, rolled, told>>
  BY DEF import_conversation, memory, saving, history, rewriting, counters
<1>3. ContestOK
  BY ContestGrows DEF ContestOK, import_conversation, TypeInv, TypeOK
<1>4. {exchanges'} # NoRow
  BY <1>1, ListIsNoRow
<1>5. rows'[ids'] = {exchanges'} /\ \A d \in Convs : d # ids' => rows'[d] = rows[d]
  BY <1>1, <1>2 DEF TypeInv, TypeOK
<1> QED
  BY <1>1, <1>2, <1>3, <1>4, <1>5

----------------------------------------------------------------------------
(* The rows *)

LEMMA TypeStep ==
    ASSUME TypeInv, ForkOK, Next
    PROVE  TypeInv'
<1>1. ASSUME NEW k \in Cids, NEW hint \in {0} \cup {c \in Convs : rows[c] # NoRow},
             UserMessage(k, hint)
      PROVE  TypeInv'
  <2>1. hint \in 0..MaxConvs /\ (hint # 0 => rows[hint] # NoRow)
    BY ConstantsAssumption DEF Convs
  <2> QED
    BY <1>1, <2>1, UserMessageTypeInv
<1>2. ASSUME NEW k \in Cids, Recover(k) \/ BeginTurn(k)
      PROVE  TypeInv'
  BY <1>2, RecoverTypeInv, BeginTurnTypeInv
<1>3. ASSUME NEW k \in Cids, NEW v \in {"save", "resave"}, EndLoop(k, v)
      PROVE  TypeInv'
  BY <1>3, EndLoopTypeInv
<1>4. ASSUME NEW k \in Cids, Resave(k)
      PROVE  TypeInv'
  BY <1>4, ResaveTypeInv
<1>5. ASSUME NEW k \in Cids, Event(k)
      PROVE  TypeInv'
  BY <1>5, EventTypeInv
<1>6. ASSUME NEW k \in Cids, NEW c \in Convs, Resume(k, c) \/ StartFork(k, c)
      PROVE  TypeInv'
  BY <1>6, ResumeTypeInv, StartForkTypeInv
<1>7. ASSUME NEW p \in Savers, SaveStep(p)
      PROVE  TypeInv'
  BY <1>7, AcquireTypeInv, FlushTypeInv, UpdateTypeInv, CommitTypeInv, RollBackTypeInv DEF SaveStep
<1>8. ASSUME NEW k \in Cids, compress_if_needed(k) \/ rollback_compression(k)
                                  \/ summarize_context(k) \/ retry(k)
      PROVE  TypeInv'
  BY <1>8, CompressTypeInv, RollbackCompressionTypeInv, SummarizeTypeInv, RetryTypeInv
<1>9. Install \/ Summarized => TypeInv'
  BY InstallTypeInv, SummarizedTypeInv
<1>10. CommitFork => TypeInv'
  BY CommitForkTypeInv DEF ForkOK, CommitFork
<1>11. import_conversation => TypeInv'
  BY ImportTypeInv
<1> QED
  BY <1>1, <1>2, <1>3, <1>4, <1>5, <1>6, <1>7, <1>8, <1>9, <1>10, <1>11 DEF Next

LEMMA RefersLive ==
    ASSUME TypeInv, NEW k \in Cids, NEW o \in Objects, Refers(k, o)
    PROVE  objs[o] # Idle
  BY ConstantsAssumption DEF TypeInv, LiveOK, Refers

\* A cid comes to refer to a new object only.
LEMMA RefsStep ==
    ASSUME TypeInv, RefsOwned, NEW k \in Cids,
           \A j \in Cids, o \in Objects :
               Refers(j, o)' => Refers(j, o) \/ (objs[o] = Idle /\ j = k)
    PROVE  RefsOwned'
<1> SUFFICES ASSUME NEW i \in Cids, NEW j \in Cids, NEW o \in Objects,
                    Refers(i, o)', Refers(j, o)'
             PROVE  i = j
  BY DEF RefsOwned
<1>1. CASE objs[o] = Idle
  BY <1>1, RefersLive
<1>2. CASE objs[o] # Idle
  BY <1>2 DEF RefsOwned
<1> QED
  BY <1>1, <1>2

LEMMA SaverRefers ==
    ASSUME TypeInv, NEW p \in Savers, Saving(p)
    PROVE  Refers(p[1], saves[p].obj) /\ p[1] \in Cids /\ saves[p].obj \in Objects
  BY SaveTypes DEF Refers

\* Saves of one object past the lock are one save.
LEMMA OneInside ==
    ASSUME TypeInv, RefsOwned, NEW p \in Savers, NEW q \in Savers, Saving(p), Saving(q),
           saves[p].stage # "lock", saves[q].stage # "lock", saves[p].obj = saves[q].obj
    PROVE  p = q
<1>1. p[1] = q[1]
  BY SaverRefers DEF RefsOwned
<1> QED
  BY <1>1 DEF TypeInv, LockOK

LEMMA AcquireRows ==
    ASSUME RowInv, NEW p \in Savers, AcquireSaveLock(p), TypeInv'
    PROVE  RowInv'
<1> DEFINE o == saves[p].obj
           c == objs[o].conv
<1>1. /\ Saving(p) /\ saves[p] \in Save /\ saves[p].stage = "lock"
      /\ saves'[p] # Idle /\ saves'[p].obj = o /\ saves'[p].conv = c
      /\ saves'[p].stage = IF c = 0 THEN "create" ELSE "update"
      /\ \A q \in Savers : q # p => saves'[q] = saves[q]
      /\ UNCHANGED <<sess, objs, turns, rows, fork, router, dropped, ids, created, rolled, told>>
  BY AcquireEffect, IdleAssumption DEF RowInv
<1>2. o \in Objects /\ objs[o] # Idle /\ p[1] \in Cids
  BY <1>1, SaveTypes DEF RowInv, TypeInv, LiveOK
<1> HIDE DEF o, c
<1>3. NumbersOK'
  BY <1>1, <1>2 DEF RowInv, NumbersOK, Saving, c
<1>4. ForkOK'
  BY <1>1 DEF RowInv, ForkOK, Busy, SavesOf, Saving
<1>5. RefsOwned'
  <2>1. \A j \in Cids, x \in Objects : Refers(j, x)' => Refers(j, x)
    BY <1>1 DEF Refers, Saving, o
  <2> QED
    BY <1>2, <2>1, RefsStep DEF RowInv
<1>6. CreatedOnce'
  BY <1>1, <1>2 DEF RowInv, CreatedOnce, Saving, o, c
<1>7. ConvKnown'
  BY <1>1, <1>2 DEF RowInv, ConvKnown, Saving, o, c
<1>8. Named'
  <2>1. \A d \in Convs : Committing(d) => Committing(d)'
    BY <1>1 DEF Committing, Saving
  <2> QED
    BY <1>1, <2>1 DEF RowInv, TypeInv, TypeOK, Session, Convs, Named
<1> QED
  BY <1>3, <1>4, <1>5, <1>6, <1>7, <1>8 DEF RowInv

LEMMA FlushRows ==
    ASSUME RowInv, NEW p \in Savers, FlushNewRow(p), TypeInv'
    PROVE  RowInv'
<1> DEFINE o == saves[p].obj
           n == ids'
<1>1. /\ Saving(p) /\ saves[p].stage = "create" /\ o \in Objects
      /\ ids \in Nat /\ n = ids + 1 /\ n \in Convs
      /\ saves'[p] # Idle /\ saves'[p].obj = o /\ saves'[p].conv = n
      /\ saves'[p].stage = "commit"
      /\ \A q \in Savers : q # p => saves'[q] = saves[q]
      /\ objs'[o] # Idle /\ objs'[o].conv = n
      /\ \A x \in Objects : x # o => objs'[x] = objs[x]
      /\ created' = created \cup {<<o, n>>}
      /\ UNCHANGED <<sess, turns, rows, fork, router, dropped, rolled, told>>
  BY FlushEffect, IdleAssumption DEF RowInv
<1>2. p[1] \in Cids /\ objs[o] # Idle
  BY <1>1, SaveTypes DEF RowInv, TypeInv, LiveOK
<1>3. \A q \in Savers : q # p /\ Saving(q) /\ saves[q].obj = o => saves[q].stage = "lock"
  BY <1>1, OneInside DEF RowInv
<1>4. \A x \in created : x[1] \in Objects /\ x[1] # o /\ x = <<x[1], x[2]>> /\ x[2] \in Convs
  BY <1>1 DEF RowInv, CreatedOnce, TypeInv, HistoryOK
<1>5. n # 0 /\ n \in Nat
  BY <1>1 DEF Convs
<1> HIDE DEF o, n
<1>6. NumbersOK'
  <2>1. ids' = n
    BY DEF n
  <2>2. \A d \in Convs : d > n => rows'[d] = NoRow
    BY <1>1 DEF RowInv, NumbersOK, Convs
  <2>3. \A x \in created' : x[2] <= n
    BY <1>1, <1>4 DEF RowInv, NumbersOK, Convs
  <2>4. ASSUME NEW x \in Objects, objs'[x] # Idle
        PROVE  objs'[x].conv <= n
    <3>1. CASE x = o
      BY <1>1, <1>5, <3>1
    <3>2. CASE x # o
      <4>1. objs[x] # Idle /\ objs[x] \in Session /\ objs[x].conv <= ids
        BY <1>1, <2>4, <3>2 DEF RowInv, NumbersOK, TypeInv, TypeOK
      <4>2. objs[x].conv \in Int
        BY <4>1, ConstantsAssumption DEF Session
      <4> QED
        BY <1>1, <3>2, <4>1, <4>2
    <3> QED
      BY <3>1, <3>2
  <2>5. ASSUME NEW q \in Savers, saves'[q] # Idle
        PROVE  saves'[q].conv <= n
    <3>1. CASE q = p
      BY <1>1, <1>5, <3>1
    <3>2. CASE q # p
      <4>1. saves[q] # Idle /\ saves[q] \in Save /\ saves[q].conv <= ids
        BY <1>1, <2>5, <3>2 DEF RowInv, NumbersOK, TypeInv, TypeOK, Saving
      <4>2. saves[q].conv \in Int
        BY <4>1, ConstantsAssumption DEF Save
      <4> QED
        BY <1>1, <3>2, <4>1, <4>2
    <3> QED
      BY <3>1, <3>2
  <2> QED
    BY <2>1, <2>2, <2>3, <2>4, <2>5 DEF NumbersOK, Saving
<1>7. ForkOK'
  BY <1>1 DEF RowInv, ForkOK, Busy, SavesOf, Saving
<1>8. RefsOwned'
  <2>1. \A j \in Cids, x \in Objects : Refers(j, x)' => Refers(j, x)
    BY <1>1 DEF Refers, Saving, o
  <2> QED
    BY <1>2, <2>1, RefsStep DEF RowInv
<1>9. CreatedOnce'
  <2>1. ASSUME NEW x \in created'
        PROVE  /\ objs'[x[1]] # Idle /\ objs'[x[1]].conv # 0
               /\ \A q \in Savers : saves'[q] # Idle /\ saves'[q].obj = x[1] =>
                      saves'[q].stage # "create"
    <3>1. CASE x \in created
      BY <1>1, <1>4, <3>1 DEF RowInv, CreatedOnce, Saving
    <3>2. CASE x = <<o, n>>
      BY <1>1, <1>3, <1>5, <3>2 DEF Saving
    <3> QED
      BY <1>1, <2>1, <3>1, <3>2
  <2>2. ASSUME NEW x \in created', NEW y \in created', x[1] = y[1]
        PROVE  x = y
    BY <1>1, <1>4, <2>2 DEF RowInv, CreatedOnce
  <2> QED
    BY <2>1, <2>2 DEF CreatedOnce, Saving
<1>10. ConvKnown'
  BY <1>1, <1>2 DEF RowInv, ConvKnown, Saving, o
<1>11. Named'
  <2>1. \A d \in Convs : Committing(d) => Committing(d)'
    BY <1>1 DEF Committing, Saving
  <2> SUFFICES ASSUME NEW x \in Objects, (objs[x] # Idle)'
               PROVE  (\/ objs[x].conv = 0 \/ rows[objs[x].conv] # NoRow
                       \/ objs[x].conv \in rolled \/ Committing(objs[x].conv))'
    BY DEF Named
  <2>2. CASE x = o
    BY <1>1, <2>2 DEF Committing, Saving
  <2>3. CASE x # o
    <3>1. objs'[x] = objs[x] /\ objs[x] \in Session
      BY <1>1, <2>3 DEF RowInv, TypeInv, TypeOK
    <3>2. objs[x].conv = 0 \/ objs[x].conv \in Convs
      BY <3>1, ConstantsAssumption DEF Session, Convs
    <3> QED
      BY <1>1, <2>1, <3>1, <3>2 DEF RowInv, Named
  <2> QED
    BY <2>2, <2>3
<1> QED
  BY <1>6, <1>7, <1>8, <1>9, <1>10, <1>11 DEF RowInv

LEMMA UpdateRows ==
    ASSUME RowInv, NEW p \in Savers, UpdateRow(p), TypeInv'
    PROVE  RowInv'
<1>1. /\ Saving(p) /\ saves[p].stage = "update" /\ p[1] \in Cids
      /\ saves'[p] # Idle /\ saves'[p].obj = saves[p].obj /\ saves'[p].conv = saves[p].conv
      /\ saves'[p].stage = "commit"
      /\ \A q \in Savers : q # p => saves'[q] = saves[q]
      /\ UNCHANGED <<sess, objs, turns, rows, fork, router, dropped, ids, created, rolled, told>>
  BY UpdateEffect, SaverIsPair, IdleAssumption DEF RowInv
<1>2. NumbersOK' /\ ForkOK'
  BY <1>1 DEF RowInv, NumbersOK, ForkOK, Busy, SavesOf, Saving
<1>3. RefsOwned'
  <2>1. \A j \in Cids, x \in Objects : Refers(j, x)' => Refers(j, x)
    BY <1>1 DEF Refers, Saving
  <2> QED
    BY <1>1, <2>1, RefsStep DEF RowInv
<1>4. CreatedOnce' /\ ConvKnown'
  BY <1>1 DEF RowInv, CreatedOnce, ConvKnown, Saving
<1>5. Named'
  <2>1. \A d : Committing(d) => Committing(d)'
    BY <1>1 DEF Committing, Saving
  <2> QED
    BY <1>1, <2>1 DEF RowInv, Named
<1> QED
  BY <1>2, <1>3, <1>4, <1>5 DEF RowInv

LEMMA CommitRows ==
    ASSUME RowInv, NEW p \in Savers, CommitSave(p), TypeInv'
    PROVE  RowInv'
<1> DEFINE c == saves[p].conv
<1>1. /\ Saving(p) /\ p[1] \in Cids /\ c \in Convs /\ saves[p].stage = "commit"
      /\ rows'[c] # NoRow /\ \A d \in Convs : d # c => rows'[d] = rows[d]
      /\ saves'[p] = Idle /\ \A q \in Savers : q # p => saves'[q] = saves[q]
      /\ \A j \in Cids : sess'[j] = sess[j] \/ sess'[j] = 0
      /\ \A j \in Cids : turns'[j] = turns[j] \/ turns'[j] = Idle
      /\ UNCHANGED <<objs, fork, router, dropped, ids, created, rolled>>
  BY CommitEffect DEF RowInv
<1>2. c <= ids /\ ids \in Int
  BY <1>1 DEF RowInv, NumbersOK, TypeInv, TypeOK
<1> HIDE DEF c
<1>3. NumbersOK'
  <2>1. \A d \in Convs : d > ids => rows'[d] = NoRow
    BY <1>1, <1>2 DEF RowInv, NumbersOK, Convs
  <2> QED
    BY <1>1, <2>1 DEF RowInv, NumbersOK, Saving
<1>4. ForkOK'
  BY <1>1 DEF RowInv, TypeInv, TypeOK, Fork, ForkOK, Busy, SavesOf, Saving
<1>5. RefsOwned'
  <2>1. \A j \in Cids, x \in Objects : Refers(j, x)' => Refers(j, x)
    BY <1>1, ConstantsAssumption DEF Refers, Saving
  <2> QED
    BY <1>1, <2>1, RefsStep DEF RowInv
<1>6. CreatedOnce'
  BY <1>1 DEF RowInv, CreatedOnce, Saving
<1>7. \A d : d # c /\ Committing(d) => Committing(d)'
  BY <1>1 DEF Committing, Saving, c
<1>8. \A d : d = 0 \/ rows'[d] # NoRow \/ d \notin Convs \/ rows[d] = NoRow
  BY <1>1
<1>9. \A o \in Objects : objs[o] # Idle => objs[o].conv = 0 \/ objs[o].conv \in Convs
  BY ConstantsAssumption DEF RowInv, TypeInv, TypeOK, Session, Convs
<1>10. \A q \in Savers : Saving(q) => saves[q].conv = 0 \/ saves[q].conv \in Convs
  BY SaveTypes, ConstantsAssumption DEF RowInv, Save, Convs
<1>11. ConvKnown'
  BY <1>1, <1>8, <1>9, <1>10 DEF RowInv, ConvKnown, Saving
<1>12. Named'
  BY <1>1, <1>7, <1>8, <1>9 DEF RowInv, Named
<1> QED
  BY <1>3, <1>4, <1>5, <1>6, <1>11, <1>12 DEF RowInv

LEMMA RollBackRows ==
    ASSUME RowInv, NEW p \in Savers, RollBack(p), TypeInv'
    PROVE  RowInv'
<1> DEFINE c == saves[p].conv
<1>1. /\ Saving(p) /\ p[1] \in Cids /\ c \in Convs /\ saves[p].stage = "commit"
      /\ rolled \subseteq rolled' /\ (IsNew(p) => c \in rolled')
      /\ saves'[p] = Idle /\ \A q \in Savers : q # p => saves'[q] = saves[q]
      /\ \A j \in Cids : \/ turns'[j] = turns[j] \/ turns'[j] = Idle
                         \/ turns[j] # Idle /\ turns'[j].obj = turns[j].obj
      /\ UNCHANGED <<sess, objs, rows, fork, router, dropped, ids, created, told>>
  BY RollBackEffect DEF RowInv
<1>2. rows[c] # NoRow \/ c \in rolled'
  <2>1. CASE rows[c] = NoRow /\ c \notin rolled
    <3>1. <<saves[p].obj, c>> \in created
      BY <1>1, <2>1 DEF RowInv, ConvKnown, Convs
    <3> QED
      BY <1>1, <2>1, <3>1 DEF IsNew
  <2> QED
    BY <1>1, <2>1
<1> HIDE DEF c
<1>3. NumbersOK'
  BY <1>1 DEF RowInv, NumbersOK, Saving
<1>4. ForkOK'
  <2>1. ASSUME NEW k \in Cids, ~Busy(k)
        PROVE  ~Busy(k)'
    <3>1. turns[k] = Idle /\ \A q \in Savers : q[1] = k => saves[q] = Idle
      BY <2>1 DEF Busy, SavesOf, Saving
    <3>2. k # p[1]
      BY <1>1, <3>1 DEF Saving
    <3>3. turns'[k] = Idle
      BY RollBackEffect, <3>1, <3>2 DEF RowInv
    <3> QED
      BY <1>1, <3>1, <3>3 DEF Busy, SavesOf, Saving
  <2> QED
    BY <1>1, <2>1 DEF RowInv, TypeInv, TypeOK, Fork, ForkOK
<1>5. RefsOwned'
  <2>1. \A j \in Cids, x \in Objects : Refers(j, x)' => Refers(j, x)
    BY <1>1 DEF Refers, Saving
  <2> QED
    BY <1>1, <2>1, RefsStep DEF RowInv
<1>6. CreatedOnce' /\ ConvKnown'
  BY <1>1 DEF RowInv, CreatedOnce, ConvKnown, Saving
<1>7. \A d : d # c /\ Committing(d) => Committing(d)'
  BY <1>1 DEF Committing, Saving, c
<1>8. Named'
  BY <1>1, <1>2, <1>7 DEF RowInv, Named
<1> QED
  BY <1>3, <1>4, <1>5, <1>6, <1>8 DEF RowInv

LEMMA UserMessageRows ==
    ASSUME RowInv, NEW k \in Cids, NEW hint \in 0..MaxConvs, UserMessage(k, hint), TypeInv'
    PROVE  RowInv'
<1> DEFINE o == sess'[k]
<1>1. /\ turns[k] = Idle /\ Known(k) /\ o \in Objects
      /\ \/ UNCHANGED <<sess, objs>>
         \/ /\ sess[k] = 0 /\ objs[o] = Idle /\ objs'[o].conv = 0
            /\ \A j \in Cids : j # k => sess'[j] = sess[j]
            /\ \A x \in Objects : x # o => objs'[x] = objs[x]
      /\ turns'[k].obj = o
      /\ \A j \in Cids : j # k => turns'[j] = turns[j]
      /\ UNCHANGED <<saves, rows, fork, router, dropped, ids, created, rolled, told>>
  BY UserMessageEffect DEF RowInv
<1>2. \A x \in Objects : objs'[x] # Idle => objs'[x] = objs[x] \/ (x = o /\ objs'[x].conv = 0)
  BY <1>1
<1>3. \A x \in Objects : objs[x] # Idle => objs'[x] = objs[x]
  BY <1>1
<1> HIDE DEF o
<1>4. NumbersOK'
  BY <1>1, <1>2, ConstantsAssumption DEF RowInv, TypeInv, TypeOK, NumbersOK, Saving
<1>5. ForkOK'
  <2>1. fork # Idle => fork.cid # k /\ fork.cid \in Cids
    BY <1>1 DEF Known, RowInv, TypeInv, TypeOK, Fork
  <2> QED
    BY <1>1, <2>1 DEF RowInv, ForkOK, Busy, SavesOf, Saving
<1>6. RefsOwned'
  <2>1. ASSUME NEW j \in Cids, NEW x \in Objects, Refers(j, x)'
        PROVE  Refers(j, x) \/ (objs[x] = Idle /\ j = k)
    <3>1. CASE j = k
      <4>1. x = o \/ \E p \in Savers : p[1] = k /\ Saving(p) /\ saves[p].obj = x
        BY <1>1, <2>1, <3>1 DEF Refers, Saving, o
      <4>2. sess[k] = o \/ objs[o] = Idle
        BY <1>1 DEF o
      <4> QED
        BY <3>1, <4>1, <4>2 DEF Refers
    <3>2. CASE j # k
      BY <1>1, <2>1, <3>2 DEF Refers, Saving
    <3> QED
      BY <3>1, <3>2
  <2> QED
    BY <2>1, RefsStep DEF RowInv
<1>7. CreatedOnce'
  BY <1>1, <1>3 DEF RowInv, TypeInv, HistoryOK, CreatedOnce, Saving
<1>8. ConvKnown'
  BY <1>1, <1>2 DEF RowInv, ConvKnown, Saving
<1>9. Named'
  <2>1. \A d : Committing(d) => Committing(d)'
    BY <1>1 DEF Committing, Saving
  <2> QED
    BY <1>1, <1>2, <2>1 DEF RowInv, Named
<1> QED
  BY <1>4, <1>5, <1>6, <1>7, <1>8, <1>9 DEF RowInv

LEMMA BeginTurnRows ==
    ASSUME RowInv, NEW k \in Cids, BeginTurn(k), TypeInv'
    PROVE  RowInv'
<1> DEFINE t == turns[k]
<1>1. /\ t # Idle /\ t.obj \in Objects
      /\ turns'[k] # Idle /\ turns'[k].obj = t.obj
      /\ \A j \in Cids : j # k => turns'[j] = turns[j]
      /\ \A x \in Objects : objs'[x] # Idle <=> objs[x] # Idle
      /\ \A x \in Objects : objs[x] # Idle =>
           \/ objs'[x].conv = objs[x].conv
           \/ objs'[x].conv \in Convs /\ rows[objs'[x].conv] # NoRow
      /\ UNCHANGED <<sess, saves, rows, fork, router, dropped, ids, created, rolled, told>>
  BY BeginTurnEffect DEF RowInv
<1>2. NumbersOK'
  BY <1>1 DEF RowInv, TypeInv, TypeOK, NumbersOK, Saving, Convs
<1>3. ForkOK'
  BY <1>1 DEF RowInv, ForkOK, TypeInv, TypeOK, Fork, Busy, SavesOf, Saving
<1>4. RefsOwned'
  <2>1. \A j \in Cids, x \in Objects : Refers(j, x)' => Refers(j, x)
    BY <1>1 DEF Refers, Saving
  <2> QED
    BY <2>1, RefsStep DEF RowInv
<1>5. CreatedOnce'
  BY <1>1 DEF RowInv, TypeInv, HistoryOK, CreatedOnce, Saving, Convs
<1>6. ConvKnown'
  BY <1>1 DEF RowInv, ConvKnown, Saving
<1>7. Named'
  <2>1. \A d : Committing(d) => Committing(d)'
    BY <1>1 DEF Committing, Saving
  <2> QED
    BY <1>1, <2>1 DEF RowInv, Named
<1> QED
  BY <1>2, <1>3, <1>4, <1>5, <1>6, <1>7 DEF RowInv

LEMMA SaveTurnRows ==
    ASSUME RowInv, NEW k \in Cids, NEW v \in {"save", "resave"},
           turns[k] # Idle, turns[k].stage \in {"loop", "resave"}, ~Saving(<<k, "turn">>),
           SaveTurn(k, v), UNCHANGED <<sess, rows, fork, router, dropped, ids, history>>, TypeInv'
    PROVE  RowInv'
<1> DEFINE p == <<k, "turn">>
           o == sess[k]
<1>1. /\ turns'[k] = Idle \/ turns'[k].obj = turns[k].obj
      /\ \A j \in Cids : j # k => turns'[j] = turns[j]
      /\ UNCHANGED <<sess, rows, fork, router, dropped, ids, created, rolled, told>>
      /\ \A x \in Objects : objs'[x] # Idle <=> objs[x] # Idle
      /\ \A x \in Objects : objs[x] # Idle => objs'[x].conv = objs[x].conv
      /\ p \in Savers /\ p[1] = k /\ saves[p] = Idle
      /\ \/ UNCHANGED saves
         \/ /\ o \in Objects
            /\ saves'[p].obj = o /\ saves'[p].stage = "lock" /\ saves'[p].conv = 0
            /\ \A q \in Savers : q # p => saves'[q] = saves[q]
  <2>1. p \in Savers /\ p[1] = k /\ saves[p] = Idle
    BY SaverIsPair DEF Saving
  <2>2. /\ \A j \in Cids : j # k => turns'[j] = turns[j]
        /\ UNCHANGED <<sess, rows, fork, router, dropped, ids, created, rolled, told>>
        /\ \/ turns'[k] = Idle /\ UNCHANGED <<objs, saves>>
           \/ /\ o \in Objects /\ objs[o] \in Session /\ objs'[o] \in Session
              /\ objs'[o].conv = objs[o].conv
              /\ \A x \in Objects : x # o => objs'[x] = objs[x]
              /\ turns'[k].obj = turns[k].obj
              /\ saves'[p].obj = o /\ saves'[p].stage = "lock" /\ saves'[p].conv = 0
              /\ \A q \in Savers : q # p => saves'[q] = saves[q]
    BY SaveTurnEffect DEF RowInv
  <2> HIDE DEF p, o
  <2>3. \A x \in Objects : objs'[x] # Idle <=> objs[x] # Idle
    BY <2>2, IdleAssumption
  <2>4. \A x \in Objects : objs[x] # Idle => objs'[x].conv = objs[x].conv
    BY <2>2
  <2> QED
    BY <2>1, <2>2, <2>3, <2>4
<1> HIDE DEF p
<1>2. NumbersOK'
  BY <1>1 DEF RowInv, TypeInv, TypeOK, NumbersOK, Saving
<1>3. ForkOK'
  <2>1. ASSUME fork # Idle
        PROVE  fork.cid \in Cids /\ fork.cid # k
    BY <2>1 DEF RowInv, ForkOK, TypeInv, TypeOK, Fork, Busy, SavesOf
  <2> QED
    BY <1>1, <2>1 DEF RowInv, ForkOK, Busy, SavesOf, Saving
<1>4. RefsOwned'
  <2>1. \A j \in Cids, x \in Objects : Refers(j, x)' => Refers(j, x)
    BY <1>1 DEF Refers, Saving
  <2> QED
    BY <2>1, RefsStep DEF RowInv
<1>5. CreatedOnce'
  BY <1>1 DEF RowInv, TypeInv, HistoryOK, CreatedOnce, Saving
<1>6. ConvKnown'
  BY <1>1 DEF RowInv, ConvKnown, Saving
<1>7. Named'
  <2>1. \A d : Committing(d) => Committing(d)'
    BY <1>1 DEF Committing, Saving
  <2> QED
    BY <1>1, <2>1 DEF RowInv, Named
<1> QED
  BY <1>2, <1>3, <1>4, <1>5, <1>6, <1>7 DEF RowInv

LEMMA EventRows ==
    ASSUME RowInv, NEW k \in Cids, Event(k), TypeInv'
    PROVE  RowInv'
<1> DEFINE p == <<k, "event">>
<1>1. /\ UNCHANGED <<objs, turns, rows, fork, router, dropped, ids, created, rolled, told>>
      /\ sess[k] \in Objects /\ p \in Savers /\ p[1] = k /\ saves[p] = Idle
      /\ \A j \in Cids : sess'[j] = sess[j] \/ sess'[j] = 0
      /\ \/ UNCHANGED saves
         \/ /\ saves'[p].obj = sess[k] /\ saves'[p].stage = "lock" /\ saves'[p].conv = 0
            /\ \A q \in Savers : q # p => saves'[q] = saves[q]
  <2>1. saves[p] = Idle
    BY DEF Event, Saving
  <2> QED
    BY <2>1, EventEffect DEF RowInv
<1> HIDE DEF p
<1>2. NumbersOK'
  BY <1>1 DEF RowInv, TypeInv, TypeOK, NumbersOK, Saving
<1>3. ForkOK'
  <2>1. ASSUME fork # Idle
        PROVE  fork.cid \in Cids /\ fork.cid # k
    BY <1>1, <2>1, ConstantsAssumption DEF RowInv, ForkOK, TypeInv, TypeOK, Fork
  <2> QED
    BY <1>1, <2>1 DEF RowInv, ForkOK, Busy, SavesOf, Saving
<1>4. RefsOwned'
  <2>1. \A j \in Cids, x \in Objects : Refers(j, x)' => Refers(j, x)
    BY <1>1, ConstantsAssumption DEF Refers, Saving
  <2> QED
    BY <2>1, RefsStep DEF RowInv
<1>5. CreatedOnce'
  BY <1>1 DEF RowInv, TypeInv, HistoryOK, CreatedOnce, Saving
<1>6. ConvKnown'
  BY <1>1 DEF RowInv, ConvKnown, Saving
<1>7. Named'
  <2>1. \A d : Committing(d) => Committing(d)'
    BY <1>1 DEF Committing, Saving
  <2> QED
    BY <1>1, <2>1 DEF RowInv, Named
<1> QED
  BY <1>2, <1>3, <1>4, <1>5, <1>6, <1>7 DEF RowInv

\* A step that leaves who has which session, and the numbers, as they are.
LEMMA ListRows ==
    ASSUME RowInv, TypeInv',
           \A x \in Objects : /\ objs'[x] # Idle <=> objs[x] # Idle
                              /\ objs[x] # Idle => objs'[x].conv = objs[x].conv,
           \A k \in Cids : turns'[k] # Idle => turns[k] # Idle /\ turns'[k].obj = turns[k].obj,
           router' # Idle => \/ router # Idle /\ router'.cid = router.cid
                             \/ fork # Idle => router'.cid # fork.cid,
           UNCHANGED <<sess, saves, rows, fork, ids, created, rolled>>
    PROVE  RowInv'
<1>1. NumbersOK'
  BY DEF RowInv, NumbersOK, Saving
<1>2. ForkOK'
  BY DEF RowInv, TypeInv, TypeOK, Fork, ForkOK, Busy, SavesOf, Saving
<1>3. RefsOwned'
  BY DEF RowInv, RefsOwned, Refers, Saving
<1>4. CreatedOnce'
  BY DEF RowInv, TypeInv, HistoryOK, CreatedOnce, Saving
<1>5. ConvKnown'
  BY DEF RowInv, ConvKnown, Saving
<1>6. Named'
  <2>1. \A d : Committing(d) => Committing(d)'
    BY DEF Committing, Saving
  <2> QED
    BY <2>1 DEF RowInv, Named
<1> QED
  BY <1>1, <1>2, <1>3, <1>4, <1>5, <1>6 DEF RowInv

LEMMA RecoverRows ==
    ASSUME RowInv, NEW k \in Cids, Recover(k), TypeInv'
    PROVE  RowInv'
<1>1. /\ \A j \in Cids : turns'[j] # Idle => turns[j] # Idle /\ turns'[j].obj = turns[j].obj
      /\ UNCHANGED <<sess, objs, saves, rows, fork, router, ids, created, rolled>>
  BY RecoverEffect DEF RowInv
<1> QED
  BY <1>1, ListRows

LEMMA ResumeRows ==
    ASSUME RowInv, NEW k \in Cids, NEW c \in Convs, Resume(k, c), TypeInv'
    PROVE  RowInv'
<1>1. /\ Known(k) /\ router'.cid = k
      /\ UNCHANGED <<sess, objs, turns, saves, rows, fork, ids, created, rolled>>
  BY ResumeEffect DEF RowInv
<1> QED
  BY <1>1, ListRows DEF Known

LEMMA CopyRows ==
    ASSUME RowInv, NEW k \in Cids, compress_if_needed(k) \/ summarize_context(k), TypeInv'
    PROVE  RowInv'
<1>1. /\ UNCHANGED <<sess, objs, turns, saves, rows, fork, ids, created, rolled>>
      /\ UNCHANGED router \/ (sess[k] # 0 /\ router'.cid = k)
  BY CopyEffect DEF RowInv
<1> QED
  BY <1>1, ListRows DEF RowInv, ForkOK

\* The handlers' writes of a list.
LEMMA RewriteRows ==
    ASSUME RowInv, NEW k \in Cids, NEW l \in Lists, Rewrite(k, l), TypeInv',
           \A j \in Cids : turns'[j] # Idle => turns[j] # Idle /\ turns'[j].obj = turns[j].obj,
           router' \in {router, Idle},
           UNCHANGED <<sess, saves, rows, fork, ids, created, rolled>>
    PROVE  RowInv'
<1>1. \A x \in Objects : /\ objs'[x] # Idle <=> objs[x] # Idle
                         /\ objs[x] # Idle => objs'[x].conv = objs[x].conv
  BY RewriteEffect, IdleAssumption DEF RowInv
<1>2. router' # Idle => router # Idle /\ router'.cid = router.cid
  OBVIOUS
<1> QED
  BY <1>1, <1>2, ListRows

LEMMA WriteRows ==
    ASSUME RowInv, NEW k \in Cids, rollback_compression(k) \/ Summarized \/ retry(k), TypeInv'
    PROVE  RowInv'
<1>1. CASE rollback_compression(k)
  BY <1>1, RollbackCompressionEffect, RewriteRows DEF RowInv
<1>2. CASE Summarized
  BY <1>2, SummarizedEffect, RewriteRows DEF RowInv
<1>3. CASE retry(k)
  <2>1. \A j \in Cids : turns'[j] # Idle => turns[j] # Idle /\ turns'[j].obj = turns[j].obj
    BY <1>3, RetryTypes DEF RowInv
  <2> QED
    BY <1>3, <2>1, RetryTypes, RetryEffect, RewriteRows DEF RowInv
<1> QED
  BY <1>1, <1>2, <1>3

LEMMA InstallRows ==
    ASSUME RowInv, Install, TypeInv'
    PROVE  RowInv'
<1> DEFINE k == router.cid
           c == router.conv
           o == sess'[k]
<1>1. /\ router # Idle /\ router' = Idle
      /\ k \in Cids /\ c \in Convs /\ rows[c] # NoRow /\ o \in Objects
      /\ sess[k] = o \/ objs[o] = Idle
      /\ \A j \in Cids : j # k => sess'[j] = sess[j]
      /\ objs'[o] # Idle /\ objs'[o].conv = c
      /\ \A x \in Objects : x # o => objs'[x] = objs[x]
      /\ UNCHANGED <<turns, saves, rows, fork, dropped, ids, created, rolled, told>>
  BY InstallEffect, IdleAssumption DEF RowInv
<1>2. c <= ids /\ c # 0
  BY <1>1 DEF RowInv, NumbersOK, TypeInv, TypeOK, Convs
<1> HIDE DEF o, k
<1>3. NumbersOK'
  BY <1>1, <1>2 DEF RowInv, TypeInv, TypeOK, NumbersOK, Saving
<1>4. ForkOK'
  <2>1. fork # Idle => fork.cid # k /\ fork.cid \in Cids
    BY <1>1 DEF RowInv, ForkOK, TypeInv, TypeOK, Fork, k
  <2> QED
    BY <1>1, <2>1 DEF RowInv, ForkOK, Busy, SavesOf, Saving
<1>5. RefsOwned'
  <2>1. ASSUME NEW j \in Cids, NEW x \in Objects, Refers(j, x)'
        PROVE  Refers(j, x) \/ (objs[x] = Idle /\ j = k)
    BY <1>1, <2>1 DEF Refers, Saving, o
  <2> QED
    BY <1>1, <2>1, RefsStep DEF RowInv
<1>6. CreatedOnce'
  BY <1>1, <1>2 DEF RowInv, TypeInv, HistoryOK, CreatedOnce, Saving
<1>7. ConvKnown'
  BY <1>1 DEF RowInv, ConvKnown, Saving
<1>8. Named'
  <2>1. \A d : Committing(d) => Committing(d)'
    BY <1>1 DEF Committing, Saving
  <2> QED
    BY <1>1, <2>1 DEF RowInv, Named
<1> QED
  BY <1>3, <1>4, <1>5, <1>6, <1>7, <1>8 DEF RowInv

LEMMA StartForkRows ==
    ASSUME RowInv, NEW k \in Cids, NEW c \in Convs, StartFork(k, c), TypeInv'
    PROVE  RowInv'
<1>1. /\ fork'.cid = k /\ sess[k] = 0 /\ ~Busy(k) /\ (router # Idle => router.cid # k)
      /\ UNCHANGED <<sess, objs, turns, saves, rows, router, ids, created, rolled, told>>
  BY StartForkEffect DEF RowInv
<1>2. NumbersOK' /\ CreatedOnce' /\ ConvKnown'
  BY <1>1 DEF RowInv, NumbersOK, CreatedOnce, ConvKnown, Saving
<1>3. Named' /\ RefsOwned'
  BY <1>1 DEF RowInv, Named, Committing, RefsOwned, Refers, Saving
<1>4. ForkOK'
  BY <1>1 DEF ForkOK, Busy, SavesOf, Saving
<1> QED
  BY <1>2, <1>3, <1>4 DEF RowInv

LEMMA CommitForkRows ==
    ASSUME RowInv, CommitFork, TypeInv'
    PROVE  RowInv'
<1> DEFINE k == fork.cid
           o == sess'[k]
<1>1. /\ k \in Cids /\ sess[k] = 0 /\ o \in Objects /\ objs[o] = Idle
      /\ ids \in Nat /\ ids' = ids + 1 /\ ids' \in Convs
      /\ objs'[o].conv = ids' /\ rows'[ids'] # NoRow
      /\ \A j \in Cids : j # k => sess'[j] = sess[j]
      /\ \A x \in Objects : x # o => objs'[x] = objs[x]
      /\ \A d \in Convs : d # ids' => rows'[d] = rows[d]
      /\ fork' = Idle
      /\ UNCHANGED <<turns, saves, created, rolled, told>>
  BY CommitForkEffect DEF RowInv
<1> HIDE DEF k, o
<1>2. /\ \A x \in Objects : objs'[x] # Idle => objs'[x] = objs[x] \/ (x = o /\ objs'[x].conv = ids')
      /\ \A x \in Objects : objs[x] # Idle => objs'[x] = objs[x]
      /\ \A x \in Objects : objs[x] # Idle => objs[x].conv \in 0..MaxConvs
  BY <1>1 DEF RowInv, TypeInv, TypeOK, Session
<1>3. \A q \in Savers : Saving(q) => saves[q].conv \in 0..MaxConvs
  BY SaveTypes DEF RowInv, Save
<1>4. \A x \in created : x[1] \in Objects /\ x[2] \in Convs
  BY DEF RowInv, TypeInv, HistoryOK
<1>5. NumbersOK'
  <2>1. \A d \in Convs : d > ids' => rows'[d] = NoRow
    BY <1>1 DEF RowInv, NumbersOK, Convs
  <2>2. \A x \in created' : x[2] <= ids'
    BY <1>1, <1>4 DEF RowInv, NumbersOK, Convs
  <2>3. \A x \in Objects : objs'[x] # Idle => objs'[x].conv <= ids'
    BY <1>1, <1>2, ConstantsAssumption DEF RowInv, NumbersOK, Convs
  <2>4. \A q \in Savers : saves'[q] # Idle => saves'[q].conv <= ids'
    BY <1>1, <1>3, ConstantsAssumption DEF RowInv, NumbersOK, Saving
  <2> QED
    BY <2>1, <2>2, <2>3, <2>4 DEF NumbersOK, Saving
<1>6. ForkOK'
  BY <1>1 DEF ForkOK
<1>7. RefsOwned'
  <2>1. ASSUME NEW j \in Cids, NEW x \in Objects, Refers(j, x)'
        PROVE  Refers(j, x) \/ (objs[x] = Idle /\ j = k)
    BY <1>1, <2>1 DEF Refers, Saving, o
  <2> QED
    BY <1>1, <2>1, RefsStep DEF RowInv
<1>8. CreatedOnce'
  BY <1>1, <1>2, <1>4 DEF RowInv, CreatedOnce, Saving
<1>9. \A d \in Convs : rows[d] # NoRow => rows'[d] # NoRow
  BY <1>1
<1>10. \A d \in 0..MaxConvs : d = 0 \/ d \in Convs
  BY ConstantsAssumption DEF Convs
<1>11. ConvKnown'
  BY <1>1, <1>2, <1>3, <1>9, <1>10 DEF RowInv, ConvKnown, Saving
<1>12. Named'
  <2>1. \A d : Committing(d) => Committing(d)'
    BY <1>1 DEF Committing, Saving
  <2> QED
    BY <1>1, <1>2, <1>9, <1>10, <2>1 DEF RowInv, Named
<1> QED
  BY <1>5, <1>6, <1>7, <1>8, <1>11, <1>12 DEF RowInv

LEMMA ImportRows ==
    ASSUME RowInv, import_conversation, TypeInv'
    PROVE  RowInv'
<1>1. /\ ids \in Nat /\ ids' = ids + 1 /\ ids' \in Convs
      /\ rows'[ids'] # NoRow /\ \A d \in Convs : d # ids' => rows'[d] = rows[d]
      /\ UNCHANGED <<sess, objs, turns, saves, fork, router, dropped, created, rolled, told>>
  BY ImportEffect DEF RowInv
<1>2. \A x \in Objects : objs[x] # Idle => objs[x].conv \in 0..MaxConvs
  BY DEF RowInv, TypeInv, TypeOK, Session
<1>3. \A q \in Savers : Saving(q) => saves[q].conv \in 0..MaxConvs
  BY SaveTypes DEF RowInv, Save
<1>4. \A x \in created : x[1] \in Objects /\ x[2] \in Convs
  BY DEF RowInv, TypeInv, HistoryOK
<1>5. NumbersOK'
  <2>1. \A d \in Convs : d > ids' => rows'[d] = NoRow
    BY <1>1 DEF RowInv, NumbersOK, Convs
  <2>2. \A x \in created' : x[2] <= ids'
    BY <1>1, <1>4 DEF RowInv, NumbersOK, Convs
  <2>3. \A x \in Objects : objs'[x] # Idle => objs'[x].conv <= ids'
    <3>1. \A x \in Objects : objs[x] # Idle => objs[x].conv <= ids /\ objs[x].conv \in Int
      BY <1>2 DEF RowInv, NumbersOK
    <3> QED
      BY <1>1, <3>1
  <2>4. \A q \in Savers : saves'[q] # Idle => saves'[q].conv <= ids'
    <3>1. \A q \in Savers : saves[q] # Idle => saves[q].conv <= ids /\ saves[q].conv \in Int
      BY <1>3 DEF RowInv, NumbersOK, Saving
    <3> QED
      BY <1>1, <3>1
  <2> QED
    BY <2>1, <2>2, <2>3, <2>4 DEF NumbersOK, Saving
<1>6. ForkOK' /\ RefsOwned' /\ CreatedOnce'
  <2>1. ForkOK'
    BY <1>1 DEF RowInv, ForkOK, Busy, SavesOf, Saving
  <2>2. RefsOwned'
    BY <1>1 DEF RowInv, RefsOwned, Refers, Saving
  <2>3. CreatedOnce'
    BY <1>1 DEF RowInv, CreatedOnce, Saving
  <2> QED
    BY <2>1, <2>2, <2>3
<1>7. \A d \in Convs : rows[d] # NoRow => rows'[d] # NoRow
  BY <1>1
<1>8. \A d \in 0..MaxConvs : d = 0 \/ d \in Convs
  BY ConstantsAssumption DEF Convs
<1>9. ConvKnown'
  BY <1>1, <1>2, <1>3, <1>7, <1>8 DEF RowInv, ConvKnown, Saving
<1>10. Named'
  <2>1. \A d : Committing(d) => Committing(d)'
    BY <1>1 DEF Committing, Saving
  <2> QED
    BY <1>1, <1>2, <1>7, <1>8, <2>1 DEF RowInv, Named
<1> QED
  BY <1>5, <1>6, <1>9, <1>10 DEF RowInv

LEMMA RowStep ==
    ASSUME RowInv, Next
    PROVE  RowInv'
<1>0. TypeInv'
  BY TypeStep DEF RowInv
<1>1. ASSUME NEW k \in Cids, NEW hint \in {0} \cup {c \in Convs : rows[c] # NoRow},
             UserMessage(k, hint)
      PROVE  RowInv'
  <2>1. hint \in 0..MaxConvs
    BY ConstantsAssumption DEF Convs
  <2> QED
    BY <1>0, <1>1, <2>1, UserMessageRows
<1>2. ASSUME NEW k \in Cids, Recover(k) \/ BeginTurn(k)
      PROVE  RowInv'
  BY <1>0, <1>2, RecoverRows, BeginTurnRows
<1>3. ASSUME NEW k \in Cids, NEW v \in {"save", "resave"}, EndLoop(k, v)
      PROVE  RowInv'
  <2>1. ~Saving(<<k, "turn">>)
    BY <1>3 DEF EndLoop, RowInv, TypeInv, CallersOK
  <2> QED
    BY <1>0, <1>3, <2>1, SaveTurnRows DEF EndLoop, rewriting, counters
<1>4. ASSUME NEW k \in Cids, Resave(k)
      PROVE  RowInv'
  <2> DEFINE v == "resave"
  <2>1. v \in {"save", "resave"} /\ SaveTurn(k, v)
    BY <1>4 DEF Resave
  <2> HIDE DEF v
  <2> QED
    BY <1>0, <1>4, <2>1, SaveTurnRows DEF Resave, rewriting, counters
<1>5. ASSUME NEW k \in Cids, Event(k)
      PROVE  RowInv'
  BY <1>0, <1>5, EventRows
<1>6. ASSUME NEW k \in Cids, NEW c \in Convs, Resume(k, c) \/ StartFork(k, c)
      PROVE  RowInv'
  BY <1>0, <1>6, ResumeRows, StartForkRows
<1>7. ASSUME NEW p \in Savers, SaveStep(p)
      PROVE  RowInv'
  BY <1>0, <1>7, AcquireRows, FlushRows, UpdateRows, CommitRows, RollBackRows DEF SaveStep
<1>8. ASSUME NEW k \in Cids, compress_if_needed(k) \/ rollback_compression(k)
                                 \/ summarize_context(k) \/ retry(k)
      PROVE  RowInv'
  BY <1>0, <1>8, CopyRows, WriteRows
<1>9. Install => RowInv'
  BY <1>0, InstallRows
<1>10. Summarized => RowInv'
  <2> SUFFICES ASSUME Summarized
               PROVE  RowInv'
    OBVIOUS
  <2>1. router.cid \in Cids
    BY SummarizedEffect DEF RowInv
  <2> QED
    BY <1>0, <2>1, WriteRows
<1>11. CommitFork \/ import_conversation => RowInv'
  BY <1>0, CommitForkRows, ImportRows
<1> QED
  BY <1>1, <1>2, <1>3, <1>4, <1>5, <1>6, <1>7, <1>8, <1>9, <1>10, <1>11 DEF Next

LEMMA InitRows == Init => RowInv
<1> SUFFICES ASSUME Init
             PROVE  RowInv
  OBVIOUS
<1>1. TypeInv
  BY InitTypeInv
<1>2. /\ \A k \in Cids : sess[k] = 0 /\ turns[k] = Idle
      /\ \A o \in Objects : objs[o] = Idle
      /\ \A p \in Savers : saves[p] = Idle
      /\ \A c \in Convs : rows[c] = NoRow
      /\ fork = Idle /\ created = {}
  BY DEF Init
<1>3. NumbersOK /\ ForkOK
  BY <1>2 DEF NumbersOK, ForkOK, Saving
<1>4. RefsOwned
  BY <1>2, ConstantsAssumption DEF RefsOwned, Refers, Saving
<1>5. CreatedOnce /\ ConvKnown /\ Named
  BY <1>2 DEF CreatedOnce, ConvKnown, Named, Saving
<1> QED
  BY <1>1, <1>3, <1>4, <1>5 DEF RowInv

LEMMA RowStutter ==
    ASSUME RowInv, UNCHANGED vars
    PROVE  RowInv'
<1> USE DEF RowInv, vars, memory, saving, rewriting, counters, history
<1>1. TypeInv'
  BY DEF TypeInv, TypeOK, HistoryOK, LiveOK, LockOK, StageOK, CallersOK, TurnsOK, ReadOK, Running, Saving
<1>2. NumbersOK' /\ ForkOK' /\ RefsOwned'
  BY DEF NumbersOK, ForkOK, Busy, SavesOf, RefsOwned, Refers, Saving
<1>3. CreatedOnce' /\ ConvKnown' /\ Named'
  BY DEF CreatedOnce, ConvKnown, Named, Committing, Saving
<1> QED
  BY <1>1, <1>2, <1>3

LEMMA RowsHold == Spec => []RowInv
<1>1. RowInv /\ [Next]_vars => RowInv'
  BY RowStep, RowStutter
<1> QED
  BY <1>1, InitRows, PTL DEF Spec

\* Memory, saves, locks and rows stay well-formed for any number of cids,
\* objects and conversations: in particular a held lock is a running save's.
THEOREM TypeCorrect == Spec => []TypeOK
<1>1. RowInv => TypeOK
  BY DEF RowInv, TypeInv
<1> QED
  BY <1>1, RowsHold, PTL

\* Saving a session twice at once, at the end of a turn and in a clear or a
\* disconnect, inserts one conversation only (_save_locks), and the number a
\* session has names a row, or one being committed, or one whose INSERT was
\* rolled back.
THEOREM OneRowCorrect == Spec => []OneRowPerSession
<1>1. RowInv => OneRowPerSession
  <2> SUFFICES ASSUME RowInv
               PROVE  OneRowPerSession
    OBVIOUS
  <2>1. \A k \in Cids : sess[k] # 0 => sess[k] \in Objects /\ objs[sess[k]] # Idle
    BY DEF RowInv, TypeInv, TypeOK, LiveOK
  <2>2. \A x, y \in created : x[1] = y[1] => x = y
    BY DEF RowInv, CreatedOnce
  <2>3. ASSUME NEW k \in Cids, sess[k] # 0
        PROVE  LET c == objs[sess[k]].conv IN
               \/ c = 0 \/ rows[c] # NoRow \/ c \in rolled
               \/ \E p \in Savers : Saving(p) /\ saves[p].conv = c /\ saves[p].stage = "commit"
    BY <2>1, <2>3 DEF RowInv, Named, Committing
  <2> QED
    BY <2>2, <2>3 DEF OneRowPerSession
<1> QED
  BY <1>1, RowsHold, PTL

----------------------------------------------------------------------------
(* The inductive invariant of the saved histories *)

\* What two cids hold is contested.
HeldOnce == \A c \in Convs : HeldTwice(c) => c \in contested

\* A save past its lock writes the conversation that its session has.
SaverConv == \A p \in Savers :
    Saving(p) /\ saves[p].conv # 0 =>
        saves[p].conv = objs[saves[p].obj].conv \/ saves[p].conv \in contested

\* A turn works on a list that is not behind the cid's session, but for what
\* was dropped.
TurnList == \A k \in Cids :
    Running(k) /\ sess[k] # 0 =>
        \/ objs[sess[k]].messages \subseteq turns[k].messages \cup dropped
        \/ objs[sess[k]].conv \in contested

\* A save commits a list that its session still has.
SavedList == \A p \in Savers :
    Saving(p) /\ saves[p].stage = "commit" =>
        \/ saves[p].messages \subseteq objs[saves[p].obj].messages \cup dropped
        \/ saves[p].conv \in contested

\* Nothing saved is missing in a session that can be saved,
Held(k, o) == sess[k] = o \/ \E p \in Savers : p[1] = k /\ Saving(p) /\ saves[p].obj = o
Kept(c, list) == rows[c] = NoRow \/ rows[c] \subseteq list \cup dropped \/ c \in contested
Grows == \A k \in Cids, o \in Objects :
    Held(k, o) => objs[o].conv = 0 \/ Kept(objs[o].conv, objs[o].messages)

\* nor in a list that is being committed,
RowGrows == \A p \in Savers :
    Saving(p) /\ saves[p].stage = "commit" => Kept(saves[p].conv, saves[p].messages)

\* because nobody else commits that row.
OneCommit == \A p, q \in Savers :
    /\ Saving(p) /\ saves[p].stage = "commit"
    /\ Saving(q) /\ saves[q].stage = "commit"
    /\ saves[p].conv = saves[q].conv
    => p = q

\* A turn saves the session of its cid, unless that was replaced.
OldObject == \A p \in Savers :
    p[2] = "turn" /\ Saving(p) /\ sess[p[1]] # 0 /\ sess[p[1]] # saves[p].obj =>
        objs[sess[p[1]]].conv \in contested

\* The exchange that will be told is in what will be saved, or was dropped.
TellOK == \A p \in Savers :
    p[2] = "turn" /\ Saving(p) /\ turns[p[1]].stage = "save" =>
        LET s == saves[p]  o == objs[s.obj]  e == turns[p[1]].exchange IN
        e \notin dropped =>
        /\ s.stage = "lock" => e \in o.messages \/ o.conv \in contested
        /\ s.stage = "create" => e \in o.messages \/ o.conv # 0
        /\ s.stage = "update" => e \in o.messages \/ s.conv \in contested
        /\ s.stage = "commit" => e \in s.messages \/ s.conv \in contested

GrowInv == /\ RowInv /\ HeldOnce /\ SaverConv /\ TurnList /\ SavedList /\ Grows
           /\ RowGrows /\ OneCommit /\ OldObject /\ TellOK /\ ToldIsSaved

----------------------------------------------------------------------------
LEMMA ConvTypes ==
    ASSUME RowInv
    PROVE  /\ \A o \in Objects : objs[o] # Idle =>
                  objs[o].conv \in Nat /\ (objs[o].conv = 0 \/ objs[o].conv \in Convs)
           /\ \A p \in Savers : Saving(p) => /\ saves[p].obj \in Objects /\ objs[saves[p].obj] # Idle
                                             /\ saves[p].conv = 0 \/ saves[p].conv \in Convs
                                             /\ saves[p].stage \in {"lock", "create", "update", "commit"}
                                             /\ saves[p].stage = "commit" => saves[p].conv \in Convs
           /\ \A k \in Cids : /\ sess[k] # 0 => sess[k] \in Objects /\ objs[sess[k]] # Idle
                              /\ turns[k] # Idle => turns[k].obj \in Objects /\ objs[turns[k].obj] # Idle
           /\ 0 \notin contested /\ contested \subseteq Convs /\ 0 \notin Objects
<1>1. \A o \in Objects : objs[o] # Idle =>
          objs[o].conv \in Nat /\ (objs[o].conv = 0 \/ objs[o].conv \in Convs)
  BY ConstantsAssumption DEF RowInv, TypeInv, TypeOK, Session, Convs
<1>2. \A p \in Savers : Saving(p) => saves[p].obj \in Objects /\ objs[saves[p].obj] # Idle
  BY SaveTypes DEF RowInv, TypeInv, LiveOK
<1>3. ASSUME NEW p \in Savers, Saving(p)
      PROVE  /\ saves[p].conv = 0 \/ saves[p].conv \in Convs
             /\ saves[p].stage \in {"lock", "create", "update", "commit"}
             /\ saves[p].stage = "commit" => saves[p].conv \in Convs
  <2>1. saves[p] \in Save
    BY <1>3, SaveTypes DEF RowInv
  <2>2. saves[p].stage = "commit" => saves[p].conv # 0
    BY <1>3 DEF RowInv, TypeInv, StageOK
  <2> QED
    BY <2>1, <2>2, ConstantsAssumption DEF Save, Convs
<1>4. \A k \in Cids : /\ sess[k] # 0 => sess[k] \in Objects /\ objs[sess[k]] # Idle
                      /\ turns[k] # Idle => turns[k].obj \in Objects /\ objs[turns[k].obj] # Idle
  BY DEF RowInv, TypeInv, TypeOK, LiveOK, Turn
<1>5. 0 \notin contested /\ contested \subseteq Convs
  BY DEF RowInv, TypeInv, TypeOK, Convs
<1> QED
  BY <1>1, <1>2, <1>3, <1>4, <1>5, ConstantsAssumption

\* A save of a clear is of the session of its cid.
LEMMA EventSaves ==
    ASSUME TypeInv
    PROVE  \A p \in Savers : p[2] = "event" /\ Saving(p) => sess[p[1]] = saves[p].obj
<1> SUFFICES ASSUME NEW p \in Savers, p[2] = "event", Saving(p)
             PROVE  sess[p[1]] = saves[p].obj
  OBVIOUS
<1>1. p = <<p[1], "event">> /\ p[1] \in Cids
  BY SaverIsPair
<1> QED
  BY <1>1 DEF TypeInv, CallersOK

LEMMA AcquireGrow ==
    ASSUME GrowInv, NEW p \in Savers, AcquireSaveLock(p), RowInv'
    PROVE  GrowInv'
<1> DEFINE o == saves[p].obj
           c == objs[o].conv
<1>1. /\ Saving(p) /\ saves[p].stage = "lock"
      /\ saves'[p] # Idle /\ saves'[p].obj = o /\ saves'[p].conv = c
      /\ saves'[p].stage = IF c = 0 THEN "create" ELSE "update"
      /\ \A q \in Savers : q # p => saves'[q] = saves[q]
      /\ UNCHANGED <<sess, objs, turns, rows, fork, router, dropped, ids, created, rolled, told>>
      /\ contested \subseteq contested' /\ \A d \in Convs : HeldTwice(d)' => d \in contested'
  BY AcquireEffect, IdleAssumption DEF GrowInv, RowInv, ContestOK
<1>2. o \in Objects /\ 0 \notin contested
  BY <1>1, ConvTypes DEF GrowInv
<1>3. \A q \in Savers : saves'[q] # Idle => saves[q] # Idle /\ saves'[q].obj = saves[q].obj
  BY <1>1 DEF Saving
<1>4. \A q \in Savers : saves'[q] # Idle /\ saves'[q].stage = "commit" => saves'[q] = saves[q]
  BY <1>1
<1> HIDE DEF o, c
<1>5. HeldOnce'
  BY <1>1 DEF HeldOnce
<1>7. SaverConv'
  BY <1>1 DEF GrowInv, SaverConv, Saving, o, c
<1>9. TurnList'
  BY <1>1 DEF GrowInv, TurnList, Running
<1>10. SavedList' /\ RowGrows' /\ OneCommit'
  BY <1>1, <1>3, <1>4 DEF GrowInv, SavedList, RowGrows, Kept, OneCommit, Saving
<1>11. Grows'
  <2>1. \A j \in Cids, x \in Objects : Held(j, x)' => Held(j, x)
    BY <1>1, <1>3 DEF Held, Saving
  <2> QED
    BY <1>1, <2>1 DEF GrowInv, Grows, Kept
<1>12. OldObject'
  BY <1>1, <1>3 DEF GrowInv, OldObject, Saving
<1>13. TellOK'
  BY <1>1, <1>2 DEF GrowInv, TellOK, Saving, o, c
<1>14. ToldIsSaved'
  BY <1>1 DEF GrowInv, ToldIsSaved
<1> QED
  BY <1>5, <1>7, <1>9, <1>10, <1>11, <1>12, <1>13, <1>14 DEF GrowInv

LEMMA FlushGrow ==
    ASSUME GrowInv, NEW p \in Savers, FlushNewRow(p), RowInv'
    PROVE  GrowInv'
<1> DEFINE o == saves[p].obj
           n == ids'
<1>1. /\ Saving(p) /\ saves[p].stage = "create" /\ o \in Objects /\ objs[o] # Idle
      /\ ids \in Nat /\ n = ids + 1 /\ n \in Convs
      /\ saves'[p] # Idle /\ saves'[p].obj = o /\ saves'[p].conv = n
      /\ saves'[p].stage = "commit" /\ saves'[p].messages = objs[o].messages
      /\ \A q \in Savers : q # p => saves'[q] = saves[q]
      /\ objs'[o].conv = n /\ objs'[o].messages = objs[o].messages
      /\ \A x \in Objects : x # o => objs'[x] = objs[x]
      /\ UNCHANGED <<sess, turns, rows, fork, router, dropped, rolled, told>>
      /\ contested \subseteq contested' /\ \A d \in Convs : HeldTwice(d)' => d \in contested'
      /\ objs[o].conv # 0 => n \in contested'
  BY FlushEffect, IdleAssumption DEF GrowInv, RowInv, ContestOK
<1>2. /\ 0 \notin contested /\ p[1] \in Cids /\ n # 0
      /\ \A k \in Cids : /\ sess[k] # 0 => sess[k] \in Objects
                         /\ turns[k] # Idle => turns[k].obj \in Objects
      /\ \A q \in Savers : q[1] \in Cids
  BY <1>1, ConvTypes, SaverIsPair DEF GrowInv, Convs
<1>3. \A q \in Savers : q # p /\ Saving(q) /\ saves[q].obj = o => saves[q].stage = "lock"
  BY <1>1, OneInside DEF GrowInv, RowInv
<1>4. /\ \A q \in Savers : saves'[q] # Idle => saves[q] # Idle /\ saves'[q].obj = saves[q].obj
      /\ \A q \in Savers : Saving(q) => saves[q].obj \in Objects
  BY <1>1, ConvTypes DEF Saving, GrowInv
<1>5. rows[n] = NoRow
  BY <1>1 DEF GrowInv, RowInv, NumbersOK, Convs
<1>6. \A q \in Savers : Saving(q) => saves[q].conv # n
  BY <1>1 DEF GrowInv, RowInv, NumbersOK
<1>7. \A q \in Savers : Saving(q) /\ saves[q].stage = "lock" => saves[q].conv = 0
  BY DEF GrowInv, RowInv, TypeInv, StageOK
<1> HIDE DEF o, n
<1>8. HeldOnce'
  BY <1>1 DEF HeldOnce
<1>10. SaverConv'
  BY <1>1, <1>3, <1>4, <1>7 DEF GrowInv, SaverConv, Saving
<1>12. TurnList'
  BY <1>1, <1>2 DEF GrowInv, TurnList, Running
<1>13. SavedList'
  BY <1>1, <1>4 DEF GrowInv, SavedList, Saving
<1>14. Grows'
  <2>1. \A j \in Cids, x \in Objects : Held(j, x)' => Held(j, x)
    BY <1>1, <1>4 DEF Held, Saving
  <2> QED
    BY <1>1, <1>5, <2>1 DEF GrowInv, Grows, Kept
<1>15. RowGrows'
  BY <1>1, <1>5 DEF GrowInv, RowGrows, Kept, Saving
<1>16. OneCommit'
  BY <1>1, <1>6 DEF GrowInv, OneCommit, Saving
<1>17. OldObject'
  BY <1>1, <1>2, <1>4 DEF GrowInv, OldObject, Saving
<1>18. TellOK'
  BY <1>1, <1>2, <1>3, <1>4 DEF GrowInv, TellOK, Saving, o
<1>19. ToldIsSaved'
  BY <1>1 DEF GrowInv, ToldIsSaved
<1> QED
  BY <1>8, <1>10, <1>12, <1>13, <1>14, <1>15, <1>16, <1>17, <1>18, <1>19 DEF GrowInv

LEMMA UpdateGrow ==
    ASSUME GrowInv, NEW p \in Savers, UpdateRow(p), RowInv'
    PROVE  GrowInv'
<1> DEFINE o == saves[p].obj
           c == saves[p].conv
<1>1. /\ Saving(p) /\ saves[p].stage = "update"
      /\ saves'[p] # Idle /\ saves'[p].obj = o /\ saves'[p].conv = c
      /\ saves'[p].stage = "commit" /\ saves'[p].messages = objs[o].messages
      /\ \A q \in Savers : q # p => saves'[q] = saves[q]
      /\ \A q \in Savers : q # p /\ Saving(q) /\ saves[q].stage = "commit" => saves[q].conv # c
      /\ UNCHANGED <<sess, objs, turns, rows, fork, router, dropped, ids, created, rolled, told>>
      /\ contested \subseteq contested' /\ \A d \in Convs : HeldTwice(d)' => d \in contested'
  BY UpdateEffect, IdleAssumption DEF GrowInv, RowInv, ContestOK
<1>2. o \in Objects /\ p[1] \in Cids /\ c # 0
  BY <1>1, ConvTypes, SaverIsPair DEF GrowInv, RowInv, TypeInv, StageOK
<1>3. \A q \in Savers : saves'[q] # Idle =>
          saves[q] # Idle /\ saves'[q].obj = saves[q].obj /\ saves'[q].conv = saves[q].conv
  BY <1>1 DEF Saving
<1>4. c = objs[o].conv \/ c \in contested
  BY <1>1, <1>2 DEF GrowInv, SaverConv
<1>5. Held(p[1], o)
  BY <1>1 DEF Held
<1> HIDE DEF o, c
<1>6. HeldOnce' /\ SaverConv'
  BY <1>1, <1>3 DEF GrowInv, HeldOnce, SaverConv, Saving
<1>8. TurnList' /\ SavedList'
  BY <1>1 DEF GrowInv, TurnList, Running, SavedList, Saving
<1>9. Grows'
  <2>1. \A j \in Cids, x \in Objects : Held(j, x)' => Held(j, x)
    BY <1>1, <1>3 DEF Held, Saving
  <2> QED
    BY <1>1, <2>1 DEF GrowInv, Grows, Kept
<1>10. RowGrows'
  <2>1. Kept(c, objs[o].messages)
    <3>1. CASE c \in contested
      BY <3>1 DEF Kept
    <3>2. CASE c = objs[o].conv
      BY <1>2, <1>5, <3>2 DEF GrowInv, Grows
    <3> QED
      BY <1>4, <3>1, <3>2
  <2> QED
    BY <1>1, <2>1 DEF GrowInv, RowGrows, Kept, Saving
<1>11. OneCommit'
  BY <1>1 DEF GrowInv, OneCommit, Saving
<1>12. OldObject'
  BY <1>1, <1>3 DEF GrowInv, OldObject, Saving
<1>13. TellOK'
  BY <1>1 DEF GrowInv, TellOK, Saving, o, c
<1>14. ToldIsSaved'
  BY <1>1 DEF GrowInv, ToldIsSaved
<1> QED
  BY <1>6, <1>8, <1>9, <1>10, <1>11, <1>12, <1>13, <1>14 DEF GrowInv

\* Whoever holds the conversation that a save writes has what is written.
LEMMA HoldersHaveWritten ==
    ASSUME GrowInv, NEW p \in Savers, Saving(p), saves[p].stage = "commit",
           NEW j \in Cids, NEW x \in Objects, Held(j, x), objs[x].conv = saves[p].conv
    PROVE  saves[p].messages \subseteq objs[x].messages \cup dropped \/ saves[p].conv \in contested
<1> DEFINE c == saves[p].conv
           o == saves[p].obj
           k == p[1]
<1>1. c \in Convs /\ o \in Objects /\ k \in Cids /\ 0 \notin Objects /\ objs[x] # Idle
  <2>1. Refers(j, x)
    BY DEF Held, Refers
  <2> QED
    BY <2>1, ConvTypes, SaverIsPair, RefersLive DEF GrowInv, RowInv
<1> SUFFICES ASSUME c \notin contested
             PROVE  saves[p].messages \subseteq objs[x].messages \cup dropped
  OBVIOUS
<1>2. objs[o].conv = c
  <2>1. c # 0
    BY <1>1 DEF Convs
  <2> QED
    BY <2>1 DEF GrowInv, SaverConv
<1>3. j = k
  <2>1. Holds(k, c)
    BY <1>2 DEF Holds
  <2>2. Holds(j, c)
    BY <1>1, ConstantsAssumption DEF Holds, Held
  <2> QED
    BY <1>1, <2>1, <2>2 DEF GrowInv, HeldOnce, HeldTwice
<1>4. x = o
  <2> SUFFICES ASSUME x # o
               PROVE  FALSE
    OBVIOUS
  <2>1. PICK q \in {p} \cup {q \in Savers : q[1] = k /\ Saving(q) /\ saves[q].obj = x} :
            sess[k] = x \/ saves[q].obj = x
    BY <1>3 DEF Held
  <2>2. q \in Savers /\ q[1] = k /\ Saving(q)
    BY <2>1
  <2>3. \A r \in Savers : r[2] = "event" \/ r[2] = "turn"
    BY SaverIsPair
  <2>4. \A r \in Savers : r[2] = "event" /\ Saving(r) => sess[r[1]] = saves[r].obj
    BY EventSaves DEF GrowInv, RowInv
  <2>5. \A r, w \in Savers : r[1] = w[1] /\ r[2] = w[2] => r = w
    BY SaverIsPair
  <2>6. CASE sess[k] = x
    BY <1>1, <2>3, <2>4, <2>6 DEF GrowInv, OldObject
  <2>7. CASE sess[k] # x
    <3>1. saves[q].obj = x /\ q # p /\ q[2] = "turn" /\ p[2] = "event" /\ sess[k] = o
      BY <2>1, <2>2, <2>3, <2>4, <2>5, <2>7
    <3> QED
      BY <1>1, <1>2, <2>2, <3>1 DEF GrowInv, OldObject
  <2> QED
    BY <2>6, <2>7
<1> QED
  BY <1>4 DEF GrowInv, SavedList

LEMMA CommitGrow ==
    ASSUME GrowInv, NEW p \in Savers, CommitSave(p), RowInv'
    PROVE  GrowInv'
<1> DEFINE c == saves[p].conv
           k == p[1]
           l == saves[p].messages
<1>1. /\ Saving(p) /\ saves[p].stage = "commit" /\ k \in Cids /\ c \in Convs
      /\ rows'[c] = l /\ l # NoRow /\ \A d \in Convs : d # c => rows'[d] = rows[d]
      /\ saves'[p] = Idle /\ \A q \in Savers : q # p => saves'[q] = saves[q]
      /\ \A j \in Cids : sess'[j] = sess[j] \/ sess'[j] = 0
      /\ \A j \in Cids : turns'[j] = turns[j] \/ (turns'[j] = Idle /\ j = k /\ p[2] = "turn")
      /\ told' \subseteq told \cup (IF p[2] = "turn" /\ turns[k].stage = "save"
                                    THEN {<<turns[k].exchange, c>>} ELSE {})
      /\ UNCHANGED <<objs, fork, router, dropped, ids, created, rolled>>
      /\ contested \subseteq contested' /\ \A d \in Convs : HeldTwice(d)' => d \in contested'
  BY CommitEffect DEF GrowInv, RowInv, ContestOK
<1>2. Kept(c, l)
  BY <1>1 DEF GrowInv, RowGrows
<1>3. \A q \in Savers : saves'[q] # Idle => q # p /\ saves[q] # Idle /\ saves'[q] = saves[q]
  BY <1>1
<1>4. \A q \in Savers : Saving(q) /\ saves[q].stage = "commit" => saves[q].conv \in Convs
  BY ConvTypes DEF GrowInv
<1>5. \A x \in Objects : objs[x] # Idle => objs[x].conv = 0 \/ objs[x].conv \in Convs
  BY ConvTypes DEF GrowInv
<1>6. \A q \in Savers : q # p /\ Saving(q) /\ saves[q].stage = "commit" => saves[q].conv # c
  BY <1>1 DEF GrowInv, OneCommit
<1>7. /\ 0 \notin Objects /\ \A q \in Savers : q[1] \in Cids
      /\ \A q, r \in Savers : q[1] = r[1] /\ q[2] = r[2] => q = r
  BY SaverIsPair, ConstantsAssumption
<1>8. ToldIsSaved'
  <2> SUFFICES ASSUME NEW x \in told'
               PROVE  \/ x[2] \in contested' \/ x[1] \in dropped'
                      \/ rows'[x[2]] # NoRow /\ x[1] \in rows'[x[2]]
    BY DEF ToldIsSaved
  <2>1. CASE x \in told
    <3>1. x[2] \in Convs
      BY <2>1 DEF GrowInv, RowInv, TypeInv, HistoryOK
    <3>2. x[2] \in contested \/ x[1] \in dropped \/ (rows[x[2]] # NoRow /\ x[1] \in rows[x[2]])
      BY <2>1 DEF GrowInv, ToldIsSaved
    <3>3. CASE x[2] = c
      BY <1>1, <1>2, <3>2, <3>3 DEF Kept
    <3>4. CASE x[2] # c
      BY <1>1, <3>1, <3>2, <3>4
    <3> QED
      BY <3>3, <3>4
  <2>2. CASE x \notin told
    <3>1. x = <<turns[k].exchange, c>> /\ p[2] = "turn" /\ turns[k].stage = "save"
      BY <1>1, <2>2
    <3>2. turns[k].exchange \in l \cup dropped \/ c \in contested
      BY <1>1, <3>1 DEF GrowInv, TellOK
    <3> QED
      BY <1>1, <3>1, <3>2
  <2> QED
    BY <2>1, <2>2
<1>9. Grows'
  <2> SUFFICES ASSUME NEW j \in Cids, NEW x \in Objects, Held(j, x)'
               PROVE  (objs[x].conv = 0 \/ Kept(objs[x].conv, objs[x].messages))'
    BY DEF Grows
  <2>1. Held(j, x)
    BY <1>1, <1>3, <1>7 DEF Held, Saving
  <2>2. objs[x] # Idle
    <3>1. Refers(j, x)
      BY <2>1 DEF Held, Refers
    <3> QED
      BY <3>1, RefersLive DEF GrowInv, RowInv
  <2>3. CASE objs[x].conv = c
    <3>1. l \subseteq objs[x].messages \cup dropped \/ c \in contested
      BY <1>1, <2>1, <2>3, HoldersHaveWritten
    <3> QED
      BY <1>1, <2>3, <3>1 DEF Kept
  <2>4. CASE objs[x].conv # c
    BY <1>1, <1>5, <2>1, <2>2, <2>4 DEF GrowInv, Grows, Kept
  <2> QED
    BY <2>3, <2>4
<1> HIDE DEF c, k, l
<1>10. RowGrows'
  BY <1>1, <1>3, <1>4, <1>6 DEF GrowInv, RowGrows, Kept, Saving
<1>11. HeldOnce' /\ SaverConv'
  BY <1>1, <1>3 DEF GrowInv, HeldOnce, SaverConv, Saving
<1>13. TurnList' /\ SavedList'
  BY <1>1, <1>3 DEF GrowInv, TurnList, Running, SavedList, Saving
<1>14. OneCommit'
  BY <1>1, <1>3 DEF GrowInv, OneCommit, Saving
<1>15. OldObject'
  BY <1>1, <1>3, <1>7 DEF GrowInv, OldObject, Saving
<1>16. TellOK'
  <2>1. ASSUME NEW q \in Savers, q[2] = "turn", saves'[q] # Idle
        PROVE  turns'[q[1]] = turns[q[1]]
    BY <1>1, <1>3, <1>7, <2>1 DEF k
  <2> QED
    BY <1>1, <1>3, <2>1 DEF GrowInv, TellOK, Saving
<1> QED
  BY <1>8, <1>9, <1>10, <1>11, <1>13, <1>14, <1>15, <1>16 DEF GrowInv

LEMMA RollBackGrow ==
    ASSUME GrowInv, NEW p \in Savers, RollBack(p), RowInv'
    PROVE  GrowInv'
<1> DEFINE k == p[1]
<1>1. /\ Saving(p) /\ k \in Cids
      /\ saves'[p] = Idle /\ \A q \in Savers : q # p => saves'[q] = saves[q]
      /\ \A j \in Cids : \/ turns'[j] = turns[j]
                         \/ j = k /\ turns'[j] = Idle
                         \/ /\ j = k /\ turns[j] # Idle /\ turns[j].stage = "save"
                            /\ turns'[j].stage = "resave" /\ turns'[j].obj = turns[j].obj
                            /\ turns'[j].messages = turns[j].messages
      /\ UNCHANGED <<sess, objs, rows, fork, router, dropped, ids, created, told>>
      /\ contested \subseteq contested' /\ \A d \in Convs : HeldTwice(d)' => d \in contested'
  BY RollBackEffect DEF GrowInv, RowInv, ContestOK
<1>2. \A q \in Savers : saves'[q] # Idle => q # p /\ saves[q] # Idle /\ saves'[q] = saves[q]
  BY <1>1
<1>3. \A q \in Savers : q[1] \in Cids
  BY SaverIsPair
<1> HIDE DEF k
<1>4. HeldOnce' /\ SaverConv'
  BY <1>1, <1>2 DEF GrowInv, HeldOnce, SaverConv, Saving
<1>6. TurnList' /\ SavedList'
  BY <1>1, <1>2 DEF GrowInv, TurnList, Running, SavedList, Saving
<1>7. Grows'
  <2>1. \A j \in Cids, x \in Objects : Held(j, x)' => Held(j, x)
    BY <1>1, <1>2 DEF Held, Saving
  <2> QED
    BY <1>1, <2>1 DEF GrowInv, Grows, Kept
<1>8. RowGrows' /\ OneCommit'
  BY <1>1, <1>2 DEF GrowInv, RowGrows, Kept, OneCommit, Saving
<1>9. OldObject' /\ ToldIsSaved'
  BY <1>1, <1>2 DEF GrowInv, OldObject, ToldIsSaved, Saving
<1>10. TellOK'
  <2>1. \A j \in Cids : turns'[j].stage = "save" => turns'[j] = turns[j] \/ turns'[j] = Idle
    BY <1>1
  <2>2. \A q \in Savers : q[2] = "turn" /\ saves'[q] # Idle => turns'[q[1]] # Idle
    <3> SUFFICES ASSUME NEW q \in Savers, q[2] = "turn", saves'[q] # Idle
                 PROVE  turns'[q[1]] # Idle
      OBVIOUS
    <3>1. q = <<q[1], "turn">> /\ q[1] \in Cids
      BY SaverIsPair
    <3> QED
      BY <3>1 DEF RowInv, TypeInv, CallersOK, Saving
  <2> QED
    BY <1>1, <1>2, <1>3, <2>1, <2>2 DEF GrowInv, TellOK, Saving
<1> QED
  BY <1>4, <1>6, <1>7, <1>8, <1>9, <1>10 DEF GrowInv

LEMMA UserMessageGrow ==
    ASSUME GrowInv, NEW k \in Cids, NEW hint \in 0..MaxConvs, UserMessage(k, hint), RowInv'
    PROVE  GrowInv'
<1> DEFINE o == sess'[k]
<1>1. /\ turns[k] = Idle /\ o \in Objects
      /\ \/ UNCHANGED <<sess, objs>>
         \/ /\ sess[k] = 0 /\ objs[o] = Idle /\ objs'[o].conv = 0
            /\ \A j \in Cids : j # k => sess'[j] = sess[j]
            /\ \A x \in Objects : x # o => objs'[x] = objs[x]
      /\ turns'[k].stage = "recover" /\ turns'[k].obj = o
      /\ \A j \in Cids : j # k => turns'[j] = turns[j]
      /\ UNCHANGED <<saves, rows, fork, router, dropped, ids, created, rolled, told>>
      /\ contested \subseteq contested' /\ \A d \in Convs : HeldTwice(d)' => d \in contested'
  BY UserMessageEffect DEF GrowInv, RowInv, ContestOK
<1>2. /\ \A x \in Objects : objs[x] # Idle => objs'[x] = objs[x]
      /\ \A j \in Cids : j # k => sess'[j] = sess[j]
  BY <1>1
<1>3. /\ \A p \in Savers : Saving(p) => saves[p].obj \in Objects /\ objs[saves[p].obj] # Idle
      /\ \A j \in Cids : /\ sess[j] # 0 => sess[j] \in Objects /\ objs[sess[j]] # Idle
                         /\ turns[j] # Idle => turns[j].obj \in Objects /\ objs[turns[j].obj] # Idle
      /\ \A p \in Savers : p[1] \in Cids
  BY ConvTypes, SaverIsPair DEF GrowInv
<1>4. \A p \in Savers : p[2] = "turn" /\ Saving(p) => p[1] # k
  <2> SUFFICES ASSUME NEW p \in Savers, p[2] = "turn", Saving(p), p[1] = k
               PROVE  FALSE
    OBVIOUS
  <2>1. p = <<k, "turn">>
    BY SaverIsPair
  <2> QED
    BY <1>1, <2>1 DEF GrowInv, RowInv, TypeInv, CallersOK
<1> HIDE DEF o
<1>5. HeldOnce' /\ SaverConv'
  BY <1>1, <1>2, <1>3 DEF GrowInv, HeldOnce, SaverConv, Saving
<1>7. TurnList' /\ SavedList'
  BY <1>1, <1>2, <1>3 DEF GrowInv, TurnList, Running, SavedList, Saving
<1>8. Grows'
  <2> SUFFICES ASSUME NEW j \in Cids, NEW x \in Objects, Held(j, x)'
               PROVE  (objs[x].conv = 0 \/ Kept(objs[x].conv, objs[x].messages))'
    BY DEF Grows
  <2>1. Held(j, x) \/ (x = o /\ objs'[o].conv = 0)
    BY <1>1, <1>2 DEF Held, Saving, o
  <2>2. Held(j, x) => objs[x] # Idle
    BY RefersLive DEF Held, Refers, GrowInv, RowInv
  <2> QED
    BY <1>1, <1>2, <2>1, <2>2 DEF GrowInv, Grows, Kept
<1>9. RowGrows' /\ OneCommit' /\ ToldIsSaved'
  BY <1>1 DEF GrowInv, RowGrows, Kept, OneCommit, ToldIsSaved, Saving
<1>10. OldObject'
  BY <1>1, <1>2, <1>3, <1>4 DEF GrowInv, OldObject, Saving
<1>11. TellOK'
  BY <1>1, <1>2, <1>3, <1>4 DEF GrowInv, TellOK, Saving
<1> QED
  BY <1>5, <1>7, <1>8, <1>9, <1>10, <1>11 DEF GrowInv

LEMMA BeginTurnGrow ==
    ASSUME GrowInv, NEW k \in Cids, BeginTurn(k), RowInv'
    PROVE  GrowInv'
<1> DEFINE t == turns[k]
           o == t.obj
           same(x) == objs'[x].conv = objs[x].conv /\ objs[x].messages \subseteq objs'[x].messages
           recovered(x) == /\ x = o /\ Found(k) /\ t.hint \in Convs
                           /\ objs'[x].conv = t.hint /\ t.messages \subseteq objs'[x].messages
<1>1. /\ t # Idle /\ t.stage \in {"recover", "load"} /\ o \in Objects
      /\ turns'[k] # Idle /\ turns'[k].stage = "loop"
      /\ \A j \in Cids : j # k => turns'[j] = turns[j]
      /\ sess[k] # 0 => objs'[sess[k]].messages = turns'[k].messages
      /\ \A x \in Objects : x # o /\ x # sess[k] => objs'[x] = objs[x]
      /\ \A x \in Objects : objs[x] # Idle => same(x) \/ recovered(x)
      /\ Found(k) =>
           /\ rows[t.hint] # t.messages => t.hint \in contested'
           /\ (objs[o] = Blank /\ SavesOf(k) = {}) \/ Mixed(k, t.hint) \subseteq contested'
      /\ UNCHANGED <<sess, saves, rows, fork, router, dropped, ids, created, rolled, told>>
      /\ contested \subseteq contested' /\ \A d \in Convs : HeldTwice(d)' => d \in contested'
  BY BeginTurnEffect DEF GrowInv, RowInv, ContestOK
<1>2. /\ \A p \in Savers : Saving(p) =>
             /\ saves[p].obj \in Objects /\ objs[saves[p].obj] # Idle
             /\ saves[p].conv = 0 \/ saves[p].conv \in Convs
             /\ saves[p].stage = "commit" => saves[p].conv \in Convs
      /\ \A j \in Cids : /\ sess[j] # 0 => sess[j] \in Objects /\ objs[sess[j]] # Idle
                         /\ turns[j] # Idle => turns[j].obj \in Objects
      /\ \A p \in Savers : p[1] \in Cids
      /\ 0 \notin Convs
  BY ConvTypes, SaverIsPair DEF GrowInv, Convs
<1>3. \A p \in Savers : p[2] = "turn" /\ Saving(p) => p[1] # k
  <2> SUFFICES ASSUME NEW p \in Savers, p[2] = "turn", Saving(p), p[1] = k
               PROVE  FALSE
    OBVIOUS
  <2>1. p = <<k, "turn">>
    BY SaverIsPair
  <2> QED
    BY <1>1, <2>1 DEF GrowInv, RowInv, TypeInv, CallersOK
<1>4. \A j \in Cids, x \in Objects : j # k /\ Refers(j, x) => objs'[x] = objs[x]
  <2>1. Refers(k, o) /\ (sess[k] # 0 => Refers(k, sess[k]))
    BY <1>1 DEF Refers
  <2>2. \A j \in Cids, x \in Objects : j # k /\ Refers(j, x) => x # o /\ x # sess[k]
    BY <1>1, <2>1, ConstantsAssumption DEF GrowInv, RowInv, RefsOwned
  <2> QED
    BY <1>1, <2>2
<1>5. \A p \in Savers, x \in Objects : Saving(p) /\ saves[p].obj = x /\ recovered(x) =>
          saves[p].conv = 0 \/ saves[p].conv \in contested'
  <2> SUFFICES ASSUME NEW p \in Savers, Saving(p), saves[p].obj = o, Found(k), saves[p].conv # 0
               PROVE  saves[p].conv \in contested'
    OBVIOUS
  <2>1. p[1] = k
    <3>1. Refers(k, o) /\ Refers(p[1], o)
      BY <1>1 DEF Refers
    <3> QED
      BY <1>1, <1>2, <3>1 DEF GrowInv, RowInv, RefsOwned
  <2>2. Mixed(k, t.hint) \subseteq contested'
    BY <1>1, <2>1 DEF SavesOf
  <2>3. saves[p].conv = objs[o].conv => saves[p].conv \in Mixed(k, t.hint)
    BY <1>2, <2>1 DEF Mixed, Holds
  <2> QED
    BY <1>1, <2>2, <2>3 DEF GrowInv, SaverConv
<1> HIDE DEF t, o
<1>6. HeldOnce'
  BY <1>1 DEF HeldOnce
<1>8. SaverConv' /\ SavedList'
  <2> SUFFICES ASSUME NEW p \in Savers, Saving(p)
               PROVE  /\ saves[p].conv # 0 =>
                           saves[p].conv = objs'[saves[p].obj].conv \/ saves[p].conv \in contested'
                      /\ saves[p].stage = "commit" =>
                           \/ saves[p].messages \subseteq objs'[saves[p].obj].messages \cup dropped'
                           \/ saves[p].conv \in contested'
    BY <1>1 DEF SaverConv, SavedList, Saving
  <2>1. CASE same(saves[p].obj)
    BY <1>1, <2>1 DEF GrowInv, SaverConv, SavedList
  <2>2. CASE recovered(saves[p].obj)
    BY <1>1, <1>2, <1>5, <2>2
  <2> QED
    BY <1>1, <1>2, <2>1, <2>2
<1>10. TurnList'
  <2>1. \A j \in Cids : j # k /\ sess[j] # 0 => objs'[sess[j]] = objs[sess[j]]
    BY <1>2, <1>4 DEF Refers
  <2> QED
    BY <1>1, <2>1 DEF GrowInv, TurnList, Running
<1>11. Grows'
  <2> SUFFICES ASSUME NEW j \in Cids, NEW x \in Objects, Held(j, x)
               PROVE  objs'[x].conv = 0 \/ Kept(objs[x].conv, objs[x].messages)'
    BY <1>1 DEF Grows, Held, Saving
  <2>1. objs[x] # Idle
    BY RefersLive DEF Held, Refers, GrowInv, RowInv
  <2>2. CASE same(x)
    BY <1>1, <2>2 DEF GrowInv, Grows, Kept
  <2>3. CASE recovered(x)
    BY <1>1, <2>3 DEF Kept
  <2> QED
    BY <1>1, <2>1, <2>2, <2>3
<1>12. RowGrows' /\ OneCommit' /\ ToldIsSaved'
  BY <1>1 DEF GrowInv, RowGrows, Kept, OneCommit, ToldIsSaved, Saving
<1>13. OldObject'
  <2>1. \A j \in Cids : j # k /\ sess[j] # 0 => objs'[sess[j]] = objs[sess[j]]
    BY <1>2, <1>4 DEF Refers
  <2> QED
    BY <1>1, <1>2, <1>3, <2>1 DEF GrowInv, OldObject, Saving
<1>14. TellOK'
  <2>1. \A p \in Savers : p[2] = "turn" /\ Saving(p) =>
            objs'[saves[p].obj] = objs[saves[p].obj] /\ turns'[p[1]] = turns[p[1]]
    BY <1>1, <1>2, <1>3, <1>4 DEF Refers
  <2> QED
    BY <1>1, <2>1 DEF GrowInv, TellOK, Saving
<1> QED
  BY <1>6, <1>8, <1>10, <1>11, <1>12, <1>13, <1>14 DEF GrowInv

LEMMA SaveTurnGrow ==
    ASSUME GrowInv, NEW k \in Cids, NEW v \in {"save", "resave"},
           turns[k] # Idle, turns[k].stage \in {"loop", "resave"}, ~Saving(<<k, "turn">>),
           SaveTurn(k, v), UNCHANGED <<sess, rows, fork, router, dropped, ids, history>>, ContestOK, RowInv'
    PROVE  GrowInv'
<1> DEFINE p == <<k, "turn">>
           o == sess[k]
           t == turns[k]
<1>1. contested \subseteq contested' /\ \A d \in Convs : HeldTwice(d)' => d \in contested'
  BY DEF ContestOK
<1>2. /\ Running(k) /\ t.exchange \in t.messages \cup dropped
      /\ \A j \in Cids : j # k => turns'[j] = turns[j]
      /\ UNCHANGED <<sess, rows, fork, router, dropped, ids, created, rolled, told>>
  BY SaveTurnEffect DEF GrowInv, RowInv
<1>3. CASE o = 0
  <2>1. turns'[k] = Idle /\ UNCHANGED <<objs, saves>>
    <3>1. o \notin Objects
      BY <1>3, ConstantsAssumption
    <3> QED
      BY <1>3, <3>1, SaveTurnEffect DEF GrowInv, RowInv
  <2>2. HeldOnce' /\ SaverConv'
    BY <1>1, <1>2, <2>1 DEF GrowInv, HeldOnce, SaverConv, Saving
  <2>5. TurnList' /\ SavedList'
    BY <1>1, <1>2, <2>1 DEF GrowInv, TurnList, Running, SavedList, Saving
  <2>3. Grows' /\ RowGrows' /\ OneCommit' /\ OldObject' /\ ToldIsSaved'
    BY <1>1, <1>2, <2>1
    DEF GrowInv, Grows, Held, Kept, RowGrows, OneCommit, OldObject, ToldIsSaved, Saving
  <2>4. TellOK'
    <3>1. \A q \in Savers : q[2] = "turn" /\ Saving(q) => q[1] # k /\ q[1] \in Cids
      <4> SUFFICES ASSUME NEW q \in Savers, q[2] = "turn", Saving(q)
                   PROVE  q[1] # k /\ q[1] \in Cids
        OBVIOUS
      <4>1. q = <<q[1], "turn">> /\ q[1] \in Cids
        BY SaverIsPair
      <4> QED
        BY <4>1
    <3> QED
      BY <1>1, <1>2, <2>1, <3>1 DEF GrowInv, TellOK, Saving
  <2> QED
    BY <2>2, <2>3, <2>4, <2>5 DEF GrowInv
<1>4. CASE o # 0
  <2>1. /\ o \in Objects /\ objs'[o].conv = objs[o].conv /\ objs'[o].messages = t.messages
        /\ \A x \in Objects : x # o => objs'[x] = objs[x]
        /\ turns'[k] # Idle /\ turns'[k].stage = v /\ turns'[k].obj = t.obj
        /\ turns'[k].messages = t.messages /\ turns'[k].exchange = t.exchange
        /\ p \in Savers /\ p[1] = k /\ ~Saving(p)
        /\ saves'[p] # Idle /\ saves'[p].obj = o /\ saves'[p].stage = "lock"
        /\ saves'[p].conv = 0
        /\ \A q \in Savers : q # p => saves'[q] = saves[q]
    BY <1>4, SaveTurnEffect, IdleAssumption DEF GrowInv, RowInv
  <2>2. objs[o].messages \subseteq t.messages \cup dropped \/ objs[o].conv \in contested
    BY <1>2, <1>4 DEF GrowInv, TurnList, Running
  <2>3. \A x \in Objects : objs'[x].conv = objs[x].conv
    BY <2>1
  <2>4. /\ \A j \in Cids : /\ sess[j] # 0 => sess[j] \in Objects
                           /\ turns[j] # Idle => turns[j].obj \in Objects
        /\ \A q \in Savers : Saving(q) => saves[q].obj \in Objects
        /\ \A q \in Savers : q[1] \in Cids
    BY ConvTypes, SaverIsPair DEF GrowInv
  <2>5. \A j \in Cids, x \in Objects : j # k /\ Refers(j, x) => x # o
    <3>1. Refers(k, o)
      BY DEF Refers
    <3> QED
      BY <3>1 DEF GrowInv, RowInv, RefsOwned
  <2>6. \A q \in Savers : q[2] = "turn" /\ q # p => q[1] # k
    BY SaverIsPair
  <2>7. p[2] = "turn"
    OBVIOUS
  <2> HIDE DEF p, o, t
  <2>8. HeldOnce'
    BY <1>1 DEF HeldOnce
  <2>10. SaverConv'
    BY <1>1, <2>1, <2>3, <2>4 DEF GrowInv, SaverConv, Saving
  <2>12. TurnList'
    <3>1. \A j \in Cids : j # k /\ sess[j] # 0 => sess[j] # o
      BY <2>4, <2>5 DEF Refers
    <3> QED
      BY <1>1, <1>2, <2>1, <2>4, <3>1 DEF GrowInv, TurnList, Running, o
  <2>13. SavedList'
    <3> SUFFICES ASSUME NEW q \in Savers, Saving(q), saves[q].stage = "commit", q # p
                 PROVE  \/ saves[q].messages \subseteq objs'[saves[q].obj].messages \cup dropped'
                        \/ saves[q].conv \in contested'
      BY <2>1 DEF SavedList, Saving
    <3>1. saves[q].conv # 0
      BY DEF GrowInv, RowInv, TypeInv, StageOK
    <3> QED
      BY <1>1, <2>1, <2>2, <2>4, <3>1 DEF GrowInv, SavedList, SaverConv
  <2>14. Grows'
    <3> SUFFICES ASSUME NEW j \in Cids, NEW x \in Objects, Held(j, x)'
                 PROVE  (objs[x].conv = 0 \/ Kept(objs[x].conv, objs[x].messages))'
      BY DEF Grows
    <3>1. Held(j, x)
      BY <1>2, <2>1 DEF Held, Saving, o
    <3> QED
      BY <1>1, <1>2, <2>1, <2>2, <3>1 DEF GrowInv, Grows, Kept
  <2>15. RowGrows' /\ OneCommit'
    BY <1>1, <1>2, <2>1 DEF GrowInv, RowGrows, Kept, OneCommit, Saving
  <2>16. OldObject'
    BY <1>1, <1>2, <2>1, <2>3, <2>4 DEF GrowInv, OldObject, Saving, o
  <2>17. TellOK'
    <3> SUFFICES ASSUME NEW q \in Savers, q[2] = "turn", Saving(q)', (turns[q[1]].stage = "save")'
                 PROVE  (LET s == saves[q]  x == objs[s.obj]  e == turns[q[1]].exchange IN
                         e \notin dropped =>
                         /\ s.stage = "lock" => e \in x.messages \/ x.conv \in contested
                         /\ s.stage = "create" => e \in x.messages \/ x.conv # 0
                         /\ s.stage = "update" => e \in x.messages \/ s.conv \in contested
                         /\ s.stage = "commit" => e \in s.messages \/ s.conv \in contested)'
      BY DEF TellOK
    <3>1. CASE q = p
      BY <1>2, <2>1, <3>1
    <3>2. CASE q # p
      <4>1. q[1] # k /\ q[1] \in Cids /\ saves'[q] = saves[q] /\ Saving(q)
        BY <2>1, <2>4, <2>6, <3>2 DEF Saving
      <4>2. saves[q].obj \in Objects /\ saves[q].obj # o
        BY <2>4, <2>5, <4>1 DEF Refers
      <4> QED
        BY <1>1, <1>2, <2>1, <4>1, <4>2 DEF GrowInv, TellOK
    <3> QED
      BY <3>1, <3>2
  <2>18. ToldIsSaved'
    BY <1>1, <1>2 DEF GrowInv, ToldIsSaved
  <2> QED
    BY <2>8, <2>10, <2>12, <2>13, <2>14, <2>15, <2>16, <2>17, <2>18 DEF GrowInv
<1> QED
  BY <1>3, <1>4

LEMMA EventGrow ==
    ASSUME GrowInv, NEW k \in Cids, Event(k), RowInv'
    PROVE  GrowInv'
<1> DEFINE p == <<k, "event">>
           o == sess[k]
<1>1. /\ UNCHANGED <<objs, turns, rows, fork, router, dropped, ids, created, rolled, told>>
      /\ contested \subseteq contested' /\ \A d \in Convs : HeldTwice(d)' => d \in contested'
      /\ o \in Objects /\ p \in Savers /\ p[1] = k /\ p[2] = "event" /\ ~Saving(p)
      /\ \/ /\ UNCHANGED saves /\ sess'[k] = 0
            /\ \A j \in Cids : j # k => sess'[j] = sess[j]
         \/ /\ UNCHANGED sess /\ objs[o].messages # {}
            /\ saves'[p] # Idle /\ saves'[p].obj = o /\ saves'[p].stage = "lock"
            /\ saves'[p].conv = 0
            /\ \A q \in Savers : q # p => saves'[q] = saves[q]
  BY EventEffect, IdleAssumption DEF GrowInv, RowInv, ContestOK, Event
<1>2. 0 \notin Objects /\ \A q \in Savers : q[1] \in Cids
  BY ConstantsAssumption, SaverIsPair
<1>3. \A j \in Cids : sess'[j] = sess[j] \/ sess'[j] = 0
  BY <1>1
<1>4. \A q \in Savers : saves'[q] # Idle =>
          \/ saves'[q] = saves[q] /\ saves[q] # Idle
          \/ /\ q = p /\ saves'[q].obj = o /\ saves'[q].stage = "lock" /\ saves'[q].conv = 0
             /\ objs[o].messages # {}
  BY <1>1 DEF Saving
<1>5. p[2] # "turn"
  BY <1>1
<1> HIDE DEF p, o
<1> HIDE <1>1
<1>6. /\ UNCHANGED <<objs, turns, rows, dropped, told>> /\ o \in Objects /\ p[1] = k
      /\ contested \subseteq contested' /\ \A d \in Convs : HeldTwice(d)' => d \in contested'
  BY <1>1
<1>7. HeldOnce' /\ SaverConv'
  BY <1>4, <1>6 DEF GrowInv, HeldOnce, SaverConv, Saving
<1>9. TurnList' /\ SavedList'
  BY <1>3, <1>4, <1>6 DEF GrowInv, TurnList, Running, SavedList, Saving
<1>10. Grows'
  <2>1. \A j \in Cids, x \in Objects : Held(j, x)' => Held(j, x)
    BY <1>2, <1>3, <1>4, <1>6 DEF Held, Saving, o
  <2> QED
    BY <1>6, <2>1 DEF GrowInv, Grows, Kept
<1>11. RowGrows' /\ OneCommit' /\ ToldIsSaved'
  BY <1>4, <1>6 DEF GrowInv, RowGrows, Kept, OneCommit, ToldIsSaved, Saving
<1>12. OldObject'
  BY <1>2, <1>3, <1>4, <1>5, <1>6 DEF GrowInv, OldObject, Saving
<1>13. TellOK'
  BY <1>4, <1>5, <1>6 DEF GrowInv, TellOK, Saving
<1> QED
  BY <1>7, <1>9, <1>10, <1>11, <1>12, <1>13 DEF GrowInv

LEMMA InstallGrow ==
    ASSUME GrowInv, Install, RowInv'
    PROVE  GrowInv'
<1> DEFINE k == router.cid
           c == router.conv
           o == sess'[k]
<1>1. /\ k \in Cids /\ c \in Convs /\ o \in Objects
      /\ sess[k] = o \/ objs[o] = Idle
      /\ \A j \in Cids : j # k => sess'[j] = sess[j]
      /\ objs'[o].conv = c /\ objs'[o].messages = router.messages
      /\ \A x \in Objects : x # o => objs'[x] = objs[x]
      /\ UNCHANGED <<turns, saves, rows, fork, dropped, ids, created, rolled, told>>
      /\ contested \subseteq contested' /\ \A d \in Convs : HeldTwice(d)' => d \in contested'
      /\ Busy(k) => c \in contested' /\ \A d \in Convs : Holds(k, d) => d \in contested'
      /\ rows[c] # router.messages => c \in contested'
  BY InstallEffect DEF GrowInv, RowInv, ContestOK, Mixed
<1>2. /\ \A p \in Savers : Saving(p) =>
             /\ saves[p].obj \in Objects /\ objs[saves[p].obj] # Idle
             /\ saves[p].conv = 0 \/ saves[p].conv \in Convs
             /\ saves[p].stage = "commit" => saves[p].conv \in Convs
      /\ \A j \in Cids : /\ sess[j] # 0 => sess[j] \in Objects /\ objs[sess[j]] # Idle
                         /\ turns[j] # Idle => turns[j].obj \in Objects /\ objs[turns[j].obj] # Idle
      /\ \A p \in Savers : p[1] \in Cids
      /\ c # 0
  BY <1>1, ConvTypes, SaverIsPair DEF GrowInv, Convs
<1>3. \A j \in Cids : Refers(j, o) => j = k
  <2> SUFFICES ASSUME NEW j \in Cids, Refers(j, o)
               PROVE  j = k
    OBVIOUS
  <2>1. objs[o] # Idle
    BY <1>1, RefersLive DEF GrowInv, RowInv
  <2>2. Refers(k, o)
    BY <1>1, <2>1 DEF Refers
  <2> QED
    BY <1>1, <2>2 DEF GrowInv, RowInv, RefsOwned
<1> HIDE DEF o, k, c
\* A save of the session that was replaced is contested.
<1>4. \A p \in Savers : Saving(p) /\ saves[p].obj = o =>
          p[1] = k /\ Busy(k) /\ (saves[p].conv # 0 => saves[p].conv \in contested')
  <2> SUFFICES ASSUME NEW p \in Savers, Saving(p), saves[p].obj = o
               PROVE  p[1] = k /\ Busy(k) /\ (saves[p].conv # 0 => saves[p].conv \in contested')
    OBVIOUS
  <2>1. p[1] = k
    BY <1>1, <1>2, <1>3 DEF Refers
  <2>2. Busy(k)
    BY <2>1 DEF Busy, SavesOf
  <2>3. ASSUME saves[p].conv = objs[o].conv, saves[p].conv # 0
        PROVE  saves[p].conv \in contested'
    <3>1. Holds(k, saves[p].conv)
      BY <2>1, <2>3 DEF Holds
    <3> QED
      BY <1>1, <1>2, <2>2, <2>3, <3>1
  <2>4. saves[p].conv # 0 => saves[p].conv = objs[o].conv \/ saves[p].conv \in contested
    BY DEF GrowInv, SaverConv
  <2> QED
    BY <1>1, <2>1, <2>2, <2>3, <2>4
<1>5. HeldOnce'
  BY <1>1 DEF HeldOnce
<1>7. SaverConv'
  BY <1>1, <1>2, <1>4 DEF GrowInv, SaverConv, Saving
<1>9. TurnList'
  <2>1. \A j \in Cids : j # k /\ sess[j] # 0 => sess[j] # o
    BY <1>3 DEF Refers
  <2>2. turns[k] # Idle => c \in contested'
    BY <1>1 DEF Busy
  <2> QED
    BY <1>1, <1>2, <2>1, <2>2 DEF GrowInv, TurnList, Running, o
<1>10. SavedList'
  <2> SUFFICES ASSUME NEW p \in Savers, Saving(p), saves[p].stage = "commit"
               PROVE  \/ saves[p].messages \subseteq objs'[saves[p].obj].messages \cup dropped'
                      \/ saves[p].conv \in contested'
    BY <1>1 DEF SavedList, Saving
  <2>1. saves[p].conv # 0
    BY DEF GrowInv, RowInv, TypeInv, StageOK
  <2> QED
    BY <1>1, <1>2, <1>4, <2>1 DEF GrowInv, SavedList
<1>11. Grows'
  <2> SUFFICES ASSUME NEW j \in Cids, NEW x \in Objects, Held(j, x)'
               PROVE  (objs[x].conv = 0 \/ Kept(objs[x].conv, objs[x].messages))'
    BY DEF Grows
  <2>1. CASE x = o
    BY <1>1, <2>1 DEF Kept
  <2>2. CASE x # o
    <3>1. Held(j, x)
      BY <1>1, <2>2 DEF Held, Saving, o
    <3> QED
      BY <1>1, <2>2, <3>1 DEF GrowInv, Grows, Kept
  <2> QED
    BY <2>1, <2>2
<1>12. RowGrows' /\ OneCommit' /\ ToldIsSaved'
  BY <1>1 DEF GrowInv, RowGrows, Kept, OneCommit, ToldIsSaved, Saving
<1>13. OldObject'
  <2>1. \A j \in Cids : j # k /\ sess[j] # 0 => sess[j] # o
    BY <1>3 DEF Refers
  <2>2. \A p \in Savers : Saving(p) /\ p[1] = k => c \in contested'
    BY <1>1 DEF Busy, SavesOf
  <2> QED
    BY <1>1, <1>2, <2>1, <2>2 DEF GrowInv, OldObject, Saving, o
<1>14. TellOK'
  <2> SUFFICES ASSUME NEW q \in Savers, q[2] = "turn", Saving(q), turns[q[1]].stage = "save"
               PROVE  LET s == saves[q]  x == objs'[s.obj]  e == turns[q[1]].exchange IN
                      e \notin dropped' =>
                      /\ s.stage = "lock" => e \in x.messages \/ x.conv \in contested'
                      /\ s.stage = "create" => e \in x.messages \/ x.conv # 0
                      /\ s.stage = "update" => e \in x.messages \/ s.conv \in contested'
                      /\ s.stage = "commit" => e \in s.messages \/ s.conv \in contested'
    BY <1>1 DEF TellOK, Saving
  <2>1. CASE saves[q].obj = o
    <3>1. c \in contested' /\ (saves[q].conv # 0 => saves[q].conv \in contested')
      BY <1>1, <1>4, <2>1
    <3>2. saves[q].stage \in {"update", "commit"} => saves[q].conv # 0
      BY DEF GrowInv, RowInv, TypeInv, StageOK
    <3> QED
      BY <1>1, <1>2, <2>1, <3>1, <3>2
  <2>2. CASE saves[q].obj # o
    BY <1>1, <1>2, <2>2 DEF GrowInv, TellOK
  <2> QED
    BY <2>1, <2>2
<1> QED
  BY <1>5, <1>7, <1>9, <1>10, <1>11, <1>12, <1>13, <1>14 DEF GrowInv

LEMMA CommitForkGrow ==
    ASSUME GrowInv, CommitFork, RowInv'
    PROVE  GrowInv'
<1> DEFINE k == fork.cid
           o == sess'[k]
<1>1. /\ k \in Cids /\ sess[k] = 0 /\ ~Busy(k) /\ o \in Objects /\ objs[o] = Idle
      /\ ids' \in Convs /\ ids' > ids
      /\ objs'[o].conv = ids' /\ rows'[ids'] = objs'[o].messages
      /\ \A j \in Cids : j # k => sess'[j] = sess[j]
      /\ \A x \in Objects : x # o => objs'[x] = objs[x]
      /\ \A d \in Convs : d # ids' => rows'[d] = rows[d]
      /\ UNCHANGED <<turns, saves, dropped, created, rolled, told>>
      /\ contested \subseteq contested' /\ \A d \in Convs : HeldTwice(d)' => d \in contested'
  BY CommitForkEffect DEF GrowInv, RowInv, ContestOK
<1>2. /\ \A p \in Savers : Saving(p) =>
             /\ saves[p].obj \in Objects /\ objs[saves[p].obj] # Idle
             /\ saves[p].stage = "commit" => saves[p].conv \in Convs
      /\ \A j \in Cids : /\ sess[j] # 0 => sess[j] \in Objects /\ objs[sess[j]] # Idle
                         /\ turns[j] # Idle => turns[j].obj \in Objects /\ objs[turns[j].obj] # Idle
      /\ \A p \in Savers : p[1] \in Cids
  BY ConvTypes, SaverIsPair DEF GrowInv
<1>3. \A x \in Objects : objs[x] # Idle => objs'[x] = objs[x] /\ x # o
  BY <1>1
<1>4. /\ turns[k] = Idle /\ \A p \in Savers : Saving(p) => p[1] # k
  BY <1>1, SaverIsPair DEF Busy, SavesOf
<1>5. rows[ids'] = NoRow
  BY <1>1 DEF GrowInv, RowInv, NumbersOK
<1>6. /\ \A p \in Savers : Saving(p) => saves[p].conv # ids'
      /\ \A x \in Objects : objs[x] # Idle => objs[x].conv # ids'
  <2>1. /\ \A p \in Savers : Saving(p) => saves[p].conv <= ids
        /\ \A x \in Objects : objs[x] # Idle => objs[x].conv <= ids
    BY DEF GrowInv, RowInv, NumbersOK
  <2>2. ids \in Int /\ ids' \in Int /\ ids < ids'
    BY <1>1 DEF Convs, GrowInv, RowInv, TypeInv, TypeOK
  <2> QED
    BY <2>1, <2>2
<1> HIDE DEF k, o
<1>7. HeldOnce' /\ SaverConv'
  BY <1>1, <1>2, <1>3 DEF GrowInv, HeldOnce, SaverConv, Saving
<1>9. TurnList' /\ SavedList'
  BY <1>1, <1>2, <1>3, <1>4 DEF GrowInv, TurnList, Running, SavedList, Saving
<1>10. Grows'
  <2> SUFFICES ASSUME NEW j \in Cids, NEW x \in Objects, Held(j, x)'
               PROVE  (objs[x].conv = 0 \/ Kept(objs[x].conv, objs[x].messages))'
    BY DEF Grows
  <2>1. CASE x = o
    BY <1>1, <2>1 DEF Kept
  <2>2. CASE x # o
    <3>1. Held(j, x)
      BY <1>1, <2>2 DEF Held, Saving, o
    <3>2. objs[x] # Idle
      BY <3>1, RefersLive DEF Held, Refers, GrowInv, RowInv
    <3>3. objs[x].conv = 0 \/ objs[x].conv \in Convs
      BY <3>2, ConvTypes DEF GrowInv
    <3> QED
      BY <1>1, <1>6, <2>2, <3>1, <3>2, <3>3 DEF GrowInv, Grows, Kept
  <2> QED
    BY <2>1, <2>2
<1>11. RowGrows' /\ OneCommit'
  BY <1>1, <1>2, <1>6 DEF GrowInv, RowGrows, Kept, OneCommit, Saving
<1>12. OldObject' /\ TellOK'
  BY <1>1, <1>2, <1>3, <1>4 DEF GrowInv, OldObject, TellOK, Saving
<1>13. ToldIsSaved'
  <2>1. \A x \in told : x[2] \in Convs
    BY DEF GrowInv, RowInv, TypeInv, HistoryOK
  <2> QED
    BY <1>1, <1>5, <2>1 DEF GrowInv, ToldIsSaved
<1> QED
  BY <1>7, <1>9, <1>10, <1>11, <1>12, <1>13 DEF GrowInv

LEMMA ImportGrow ==
    ASSUME GrowInv, import_conversation, RowInv'
    PROVE  GrowInv'
<1>1. /\ ids' \in Convs /\ ids' > ids
      /\ \A d \in Convs : d # ids' => rows'[d] = rows[d]
      /\ UNCHANGED <<sess, objs, turns, saves, fork, router, dropped, created, rolled, told>>
      /\ contested \subseteq contested' /\ \A d \in Convs : HeldTwice(d)' => d \in contested'
  BY ImportEffect DEF GrowInv, RowInv, ContestOK
<1>2. rows[ids'] = NoRow
  BY <1>1 DEF GrowInv, RowInv, NumbersOK
<1>3. /\ \A p \in Savers : Saving(p) => saves[p].conv # ids'
      /\ \A x \in Objects : objs[x] # Idle => objs[x].conv # ids'
  <2>1. /\ \A p \in Savers : Saving(p) => saves[p].conv <= ids
        /\ \A x \in Objects : objs[x] # Idle => objs[x].conv <= ids
    BY DEF GrowInv, RowInv, NumbersOK
  <2>2. ids \in Int /\ ids' \in Int /\ ids < ids'
    BY <1>1 DEF Convs, GrowInv, RowInv, TypeInv, TypeOK
  <2> QED
    BY <2>1, <2>2
<1>4. HeldOnce' /\ SaverConv'
  BY <1>1 DEF GrowInv, HeldOnce, SaverConv, Saving
<1>5. TurnList' /\ SavedList'
  BY <1>1 DEF GrowInv, TurnList, Running, SavedList, Saving
<1>6. Grows'
  <2> SUFFICES ASSUME NEW j \in Cids, NEW x \in Objects, Held(j, x)
               PROVE  objs[x].conv = 0 \/ Kept(objs[x].conv, objs[x].messages)'
    BY <1>1 DEF Grows, Held, Saving
  <2>1. objs[x] # Idle
    BY RefersLive DEF Held, Refers, GrowInv, RowInv
  <2>2. objs[x].conv = 0 \/ objs[x].conv \in Convs
    BY <2>1, ConvTypes DEF GrowInv
  <2> QED
    BY <1>1, <1>3, <2>1, <2>2 DEF GrowInv, Grows, Kept
<1>7. RowGrows' /\ OneCommit'
  <2>1. \A p \in Savers : Saving(p) /\ saves[p].stage = "commit" => saves[p].conv \in Convs
    BY ConvTypes DEF GrowInv
  <2> QED
    BY <1>1, <1>3, <2>1 DEF GrowInv, RowGrows, Kept, OneCommit, Saving
<1>8. OldObject' /\ TellOK'
  BY <1>1 DEF GrowInv, OldObject, TellOK, Saving
<1>9. ToldIsSaved'
  <2>1. \A x \in told : x[2] \in Convs
    BY DEF GrowInv, RowInv, TypeInv, HistoryOK
  <2> QED
    BY <1>1, <1>2, <2>1 DEF GrowInv, ToldIsSaved
<1> QED
  BY <1>4, <1>5, <1>6, <1>7, <1>8, <1>9 DEF GrowInv

\* Steps of a turn that does not run and is not saving, or of nobody.
LEMMA QuietGrow ==
    ASSUME GrowInv, RowInv', contested \subseteq contested',
           \A d \in Convs : HeldTwice(d)' => d \in contested',
           \A j \in Cids : turns'[j] = turns[j] \/ (turns'[j] # Idle /\ ~Running(j)'),
           UNCHANGED <<sess, objs, saves, rows, dropped, told>>
    PROVE  GrowInv'
<1>1. HeldOnce' /\ SaverConv'
  BY DEF GrowInv, HeldOnce, SaverConv, Saving
<1>2. TurnList' /\ SavedList'
  BY DEF GrowInv, TurnList, Running, SavedList, Saving
<1>3. Grows' /\ RowGrows' /\ OneCommit'
  BY DEF GrowInv, Grows, Held, Kept, RowGrows, OneCommit, Saving
<1>4. OldObject' /\ ToldIsSaved'
  BY DEF GrowInv, OldObject, ToldIsSaved, Saving
<1>5. TellOK'
  <2>1. \A p \in Savers : turns'[p[1]].stage = "save" => turns'[p[1]] = turns[p[1]]
    BY SaverIsPair DEF Running
  <2> QED
    BY <2>1 DEF GrowInv, TellOK, Saving
<1> QED
  BY <1>1, <1>2, <1>3, <1>4, <1>5 DEF GrowInv

\* The router's writes of a list: what they take out is dropped.
LEMMA RewriteGrow ==
    ASSUME GrowInv, NEW k \in Cids, NEW l \in Lists, Rewrite(k, l), RowInv', ContestOK,
           \A j \in Cids : /\ j # k => turns'[j] = turns[j]
                           /\ turns'[j] = Idle <=> turns[j] = Idle
                           /\ turns'[j].stage = turns[j].stage
                           /\ turns'[j].exchange = turns[j].exchange,
           turns'[k] = turns[k] \/ turns'[k].messages = l,
           UNCHANGED <<sess, saves, rows, told>>
    PROVE  GrowInv'
<1>1. /\ dropped \subseteq dropped' /\ contested \subseteq contested'
      /\ \A d \in Convs : HeldTwice(d)' => d \in contested'
  BY RewriteEffect DEF GrowInv, RowInv, ContestOK
<1>2. /\ \A p \in Savers : Saving(p) => saves[p].obj \in Objects /\ objs[saves[p].obj] # Idle
      /\ \A j \in Cids : sess[j] # 0 => sess[j] \in Objects /\ objs[sess[j]] # Idle
      /\ \A p \in Savers : p[1] \in Cids
  BY ConvTypes, SaverIsPair DEF GrowInv
<1>3. \A x \in Objects : objs[x] # Idle =>
          objs'[x].conv = objs[x].conv /\ objs[x].messages \subseteq objs'[x].messages \cup dropped'
  BY RewriteEffect DEF GrowInv, RowInv
<1>4. HeldOnce' /\ SaverConv'
  BY <1>1, <1>2, <1>3 DEF GrowInv, HeldOnce, SaverConv, Saving
<1>5. TurnList'
  <2> SUFFICES ASSUME NEW j \in Cids, Running(j)', sess[j] # 0
               PROVE  \/ objs'[sess[j]].messages \subseteq turns'[j].messages \cup dropped'
                      \/ objs'[sess[j]].conv \in contested'
    BY DEF TurnList
  <2>1. Running(j)
    BY DEF Running
  <2>2. CASE j = k
    <3>1. objs'[sess[k]].messages = l /\ l \subseteq turns[k].messages \cup dropped'
      BY <2>1, <2>2, RewriteEffect DEF GrowInv, RowInv
    <3> QED
      BY <2>2, <3>1
  <2>3. CASE j # k
    <3>1. sess[k] # sess[j]
      BY <1>2, <2>3 DEF GrowInv, RowInv, RefsOwned, Refers
    <3>2. objs'[sess[j]] = objs[sess[j]]
      BY <1>2, <3>1, RewriteEffect DEF GrowInv, RowInv
    <3> QED
      BY <1>1, <2>1, <2>3, <3>2 DEF GrowInv, TurnList
  <2> QED
    BY <2>2, <2>3
<1>6. SavedList'
  BY <1>1, <1>2, <1>3 DEF GrowInv, SavedList, Saving
<1>7. Grows'
  <2> SUFFICES ASSUME NEW j \in Cids, NEW x \in Objects, Held(j, x)
               PROVE  (objs[x].conv = 0 \/ Kept(objs[x].conv, objs[x].messages))'
    BY DEF Grows, Held, Saving
  <2>1. objs[x] # Idle
    BY RefersLive DEF Held, Refers, GrowInv, RowInv
  <2> QED
    BY <1>1, <1>3, <2>1 DEF GrowInv, Grows, Kept
<1>8. RowGrows' /\ OneCommit' /\ ToldIsSaved'
  BY <1>1 DEF GrowInv, RowGrows, Kept, OneCommit, ToldIsSaved, Saving
<1>9. OldObject'
  BY <1>1, <1>2, <1>3 DEF GrowInv, OldObject, Saving
<1>10. TellOK'
  BY <1>1, <1>2, <1>3 DEF GrowInv, TellOK, Saving
<1> QED
  BY <1>4, <1>5, <1>6, <1>7, <1>8, <1>9, <1>10 DEF GrowInv

LEMMA GrowStep ==
    ASSUME GrowInv, Next
    PROVE  GrowInv'
<1>0. RowInv'
  BY RowStep DEF GrowInv
<1>1. ASSUME NEW k \in Cids, NEW hint \in {0} \cup {c \in Convs : rows[c] # NoRow},
             UserMessage(k, hint)
      PROVE  GrowInv'
  <2>1. hint \in 0..MaxConvs
    BY ConstantsAssumption DEF Convs
  <2> QED
    BY <1>0, <1>1, <2>1, UserMessageGrow
<1>2. ASSUME NEW k \in Cids, Recover(k) \/ BeginTurn(k)
      PROVE  GrowInv'
  <2>1. CASE Recover(k)
    <3>1. /\ turns'[k] # Idle /\ ~Running(k)' /\ \A j \in Cids : j # k => turns'[j] = turns[j]
          /\ UNCHANGED <<sess, objs, saves, rows, dropped, told>> /\ ContestOK
      BY <2>1, RecoverEffect DEF Running, GrowInv, RowInv
    <3> QED
      BY <1>0, <3>1, QuietGrow DEF ContestOK
  <2> QED
    BY <1>0, <1>2, <2>1, BeginTurnGrow
<1>3. ASSUME NEW k \in Cids, NEW v \in {"save", "resave"}, EndLoop(k, v)
      PROVE  GrowInv'
  <2>1. ~Saving(<<k, "turn">>)
    BY <1>3 DEF EndLoop, GrowInv, RowInv, TypeInv, CallersOK
  <2>2. ContestOK
    BY <1>3, ContestGrows DEF ContestOK, EndLoop, GrowInv, RowInv, TypeInv, TypeOK
  <2> QED
    BY <1>0, <1>3, <2>1, <2>2, SaveTurnGrow DEF EndLoop, rewriting, counters
<1>4. ASSUME NEW k \in Cids, Resave(k)
      PROVE  GrowInv'
  <2> DEFINE v == "resave"
  <2>1. v \in {"save", "resave"} /\ SaveTurn(k, v)
    BY <1>4 DEF Resave
  <2> HIDE DEF v
  <2>2. ContestOK
    BY <1>4, ContestGrows DEF ContestOK, Resave, GrowInv, RowInv, TypeInv, TypeOK
  <2> QED
    BY <1>0, <1>4, <2>1, <2>2, SaveTurnGrow DEF Resave, rewriting, counters
<1>5. ASSUME NEW k \in Cids, Event(k)
      PROVE  GrowInv'
  BY <1>0, <1>5, EventGrow
<1>6. ASSUME NEW k \in Cids, NEW c \in Convs, Resume(k, c) \/ StartFork(k, c)
      PROVE  GrowInv'
  <2>1. UNCHANGED <<sess, objs, turns, saves, rows, dropped, told>> /\ ContestOK
    BY <1>6, ResumeEffect, StartForkEffect DEF GrowInv, RowInv
  <2> QED
    BY <1>0, <2>1, QuietGrow DEF ContestOK
<1>7. ASSUME NEW p \in Savers, SaveStep(p)
      PROVE  GrowInv'
  BY <1>0, <1>7, AcquireGrow, FlushGrow, UpdateGrow, CommitGrow, RollBackGrow DEF SaveStep
<1>8. ASSUME NEW k \in Cids, compress_if_needed(k) \/ summarize_context(k)
      PROVE  GrowInv'
  <2>1. UNCHANGED <<sess, objs, turns, saves, rows, dropped, told>> /\ ContestOK
    BY <1>8, CopyEffect DEF GrowInv, RowInv
  <2> QED
    BY <1>0, <2>1, QuietGrow DEF ContestOK
<1>9. ASSUME NEW k \in Cids, rollback_compression(k)
      PROVE  GrowInv'
  <2>1. /\ snapshots[k] \in Lists /\ Rewrite(k, snapshots[k]) /\ ContestOK
        /\ UNCHANGED <<sess, turns, saves, rows, told>>
    BY <1>9, RollbackCompressionEffect DEF GrowInv, RowInv
  <2> QED
    BY <1>0, <2>1, RewriteGrow
<1>10. ASSUME NEW k \in Cids, retry(k)
      PROVE  GrowInv'
  <2>1. /\ Shorter(k) \in Lists /\ Rewrite(k, Shorter(k)) /\ ContestOK
        /\ UNCHANGED <<sess, saves, rows, told>>
    BY <1>10, RetryEffect, RetryTypes DEF GrowInv, RowInv
  <2>2. /\ \A j \in Cids : j # k => turns'[j] = turns[j]
        /\ turns'[k] = Idle <=> turns[k] = Idle
        /\ turns'[k].stage = turns[k].stage /\ turns'[k].exchange = turns[k].exchange
        /\ turns'[k] = turns[k] \/ turns'[k].messages = Shorter(k)
    <3>1. turns'[k] = Retried(k)
      BY <1>10, RetryTypes DEF GrowInv, RowInv
    <3>2. turns[k] # Idle => turns[k] \in Turn
      BY DEF GrowInv, RowInv, TypeInv, TypeOK
    <3> QED
      BY <1>10, <3>1, <3>2, RetryTypes, IdleAssumption DEF Retried, Running, Turn, GrowInv, RowInv
  <2> QED
    BY <1>0, <2>1, <2>2, RewriteGrow
<1>11. Install => GrowInv'
  BY <1>0, InstallGrow
<1>12. Summarized => GrowInv'
  BY <1>0, SummarizedEffect, RewriteGrow DEF GrowInv, RowInv
<1>13. CommitFork \/ import_conversation => GrowInv'
  BY <1>0, CommitForkGrow, ImportGrow
<1> QED
  BY <1>1, <1>2, <1>3, <1>4, <1>5, <1>6, <1>7, <1>8, <1>9, <1>10, <1>11, <1>12, <1>13 DEF Next

LEMMA InitGrow == Init => GrowInv
<1> SUFFICES ASSUME Init
             PROVE  GrowInv
  OBVIOUS
<1>1. RowInv
  BY InitRows
<1>2. /\ \A k \in Cids : sess[k] = 0 /\ turns[k] = Idle
      /\ \A p \in Savers : saves[p] = Idle
      /\ told = {} /\ 0 \notin Objects
  BY ConstantsAssumption DEF Init
<1>3. HeldOnce /\ SaverConv
  BY <1>2 DEF HeldOnce, HeldTwice, Holds, SaverConv, Saving
<1>4. TurnList /\ SavedList
  BY <1>2 DEF TurnList, Running, SavedList, Saving
<1>5. Grows /\ RowGrows /\ OneCommit
  BY <1>2 DEF Grows, Held, RowGrows, OneCommit, Saving
<1>6. OldObject /\ TellOK /\ ToldIsSaved
  BY <1>2 DEF OldObject, TellOK, ToldIsSaved, Saving
<1> QED
  BY <1>1, <1>3, <1>4, <1>5, <1>6 DEF GrowInv

LEMMA GrowStutter ==
    ASSUME GrowInv, UNCHANGED vars
    PROVE  GrowInv'
<1>1. UNCHANGED <<sess, objs, turns, saves, rows, dropped, told, contested>>
  BY DEF vars, memory, saving, rewriting, history
<1>2. RowInv'
  BY RowStutter DEF GrowInv
<1>3. \A d \in Convs : HeldTwice(d)' => d \in contested'
  BY <1>1 DEF GrowInv, HeldOnce, HeldTwice, Holds, Saving
<1> QED
  BY <1>1, <1>2, <1>3, QuietGrow

LEMMA HistoriesHold == Spec => []GrowInv
<1>1. GrowInv /\ [Next]_vars => GrowInv'
  BY GrowStep, GrowStutter
<1> QED
  BY <1>1, InitGrow, PTL DEF Spec

\* An exchange whose turn_complete named a conversation stays saved in it,
\* whatever is cleared, resumed, forked, imported or rolled back, unless a
\* retry, a summary or the rollback of a compression dropped it, or the
\* conversation was contested: held by two cids at once, mixed with another
\* one, or installed from a list that was no longer the saved one.
THEOREM ToldCorrect == Spec => []ToldIsSaved
<1>1. GrowInv => ToldIsSaved
  BY DEF GrowInv
<1> QED
  BY <1>1, HistoriesHold, PTL

LEMMA ContestedGrows ==
    ASSUME TypeInv, ForkOK, Next
    PROVE  contested \subseteq contested' /\ dropped \subseteq dropped'
<1>1. Contest({}) => contested \subseteq contested'
  BY DEF Contest
<1>2. ASSUME NEW p \in Savers, SaveStep(p)
      PROVE  contested \subseteq contested' /\ UNCHANGED dropped
  <2>1. CASE FlushNewRow(p)
    BY <2>1, FlushEffect DEF ContestOK
  <2>2. CASE AcquireSaveLock(p) \/ UpdateRow(p) \/ CommitSave(p) \/ RollBack(p)
    BY <1>1, <2>2 DEF AcquireSaveLock, UpdateRow, CommitSave, RollBack, rewriting
  <2> QED
    BY <1>2, <2>1, <2>2 DEF SaveStep
<1>3. ASSUME NEW k \in Cids, NEW hint, UserMessage(k, hint)
      PROVE  contested \subseteq contested' /\ UNCHANGED dropped
  BY <1>1, <1>3 DEF UserMessage, rewriting
<1>4. ASSUME NEW k \in Cids, Recover(k) \/ BeginTurn(k)
      PROVE  contested \subseteq contested' /\ UNCHANGED dropped
  BY <1>4, RecoverEffect, BeginTurnEffect DEF ContestOK
<1>5. ASSUME NEW k \in Cids,
             EndLoop(k, "save") \/ EndLoop(k, "resave") \/ Resave(k) \/ Event(k)
      PROVE  contested \subseteq contested' /\ UNCHANGED dropped
  BY <1>1, <1>5 DEF EndLoop, Resave, Event, rewriting
<1>6. ASSUME NEW k \in Cids, NEW c \in Convs, Resume(k, c) \/ StartFork(k, c)
      PROVE  contested \subseteq contested' /\ UNCHANGED dropped
  BY <1>1, <1>6 DEF Resume, StartFork, rewriting
<1>7. ASSUME NEW k \in Cids, compress_if_needed(k) \/ summarize_context(k)
      PROVE  contested \subseteq contested' /\ UNCHANGED dropped
  BY <1>7, CopyEffect DEF ContestOK
<1>8. ASSUME NEW k \in Cids, rollback_compression(k)
      PROVE  contested \subseteq contested' /\ dropped \subseteq dropped'
  BY <1>8, RollbackCompressionEffect, RewriteEffect DEF ContestOK
<1>9. ASSUME NEW k \in Cids, retry(k)
      PROVE  contested \subseteq contested' /\ dropped \subseteq dropped'
  BY <1>9, RetryEffect, RetryTypes, RewriteEffect DEF ContestOK
<1>10. Summarized => contested \subseteq contested' /\ dropped \subseteq dropped'
  BY SummarizedEffect, RewriteEffect DEF ContestOK
<1>11. Install => contested \subseteq contested' /\ UNCHANGED dropped
  BY InstallEffect DEF ContestOK
<1>12. CommitFork \/ import_conversation => contested \subseteq contested' /\ UNCHANGED dropped
  BY <1>1 DEF CommitFork, import_conversation, rewriting
<1> QED
  BY <1>2, <1>3, <1>4, <1>5, <1>6, <1>7, <1>8, <1>9, <1>10, <1>11, <1>12 DEF Next

\* A step writes one row at most, and writes it whole.
LEMMA LogStep ==
    ASSUME GrowInv, [Next]_vars
    PROVE  [Log!Next]_<<rows, dropped, contested>>
<1>1. CASE UNCHANGED vars
  BY <1>1 DEF vars, rewriting
<1>2. ASSUME Next
      PROVE  Log!Next
  <2>1. dropped \subseteq dropped' /\ contested \subseteq contested'
    BY <1>2, ContestedGrows DEF GrowInv, RowInv
  <2>2. ASSUME NEW c \in Convs, NEW l \in Lists, Kept(c, l),
               rows' = [rows EXCEPT ![c] = l]
        PROVE  Log!Next
    <3>1. Log!Write(c, l)
      BY <2>2 DEF Log!Write, Kept
    <3> QED
      BY <2>1, <3>1 DEF Log!Next, Lists
  <2>3. ASSUME NEW p \in Savers, SaveStep(p)
        PROVE  Log!Next
    <3>1. CASE CommitSave(p)
      <4>1. /\ rows' = [rows EXCEPT ![saves[p].conv] = saves[p].messages]
            /\ saves[p].conv \in Convs /\ saves[p].messages \in Lists
            /\ Kept(saves[p].conv, saves[p].messages)
        BY <3>1, CommitEffect DEF GrowInv, RowInv, RowGrows
      <4> QED
        BY <2>2, <4>1
    <3>2. CASE ~CommitSave(p)
      BY <2>1, <2>3, <3>2
      DEF SaveStep, AcquireSaveLock, FlushNewRow, UpdateRow, RollBack, Log!Next
    <3> QED
      BY <3>1, <3>2
  <2>4. ASSUME CommitFork
        PROVE  Log!Next
    <3>1. /\ ids' \in Convs /\ ids' > ids
          /\ rows' = [rows EXCEPT ![ids'] = fork.messages]
          /\ fork.messages \in Lists
      BY <2>4, CommitForkEffect DEF GrowInv, RowInv, CommitFork, TypeInv, TypeOK, Fork
    <3>2. Kept(ids', fork.messages)
      BY <3>1 DEF Kept, GrowInv, RowInv, NumbersOK
    <3> QED
      BY <2>2, <3>1, <3>2
  <2>5. ASSUME import_conversation
        PROVE  Log!Next
    <3>1. PICK l \in Lists :
              ids' \in Convs /\ ids' > ids /\ rows' = [rows EXCEPT ![ids'] = l]
      <4>1. ids \in Nat /\ ids' = ids + 1
        BY <2>5, ImportEffect DEF GrowInv, RowInv
      <4>2. ids' > ids
        BY <4>1
      <4> QED
        BY <2>5, <4>2, ImportEffect DEF GrowInv, RowInv
    <3>2. Kept(ids', l)
      BY <3>1 DEF Kept, GrowInv, RowInv, NumbersOK
    <3> QED
      BY <2>2, <3>1, <3>2
  <2>6. ASSUME UNCHANGED rows
        PROVE  Log!Next
    BY <2>1, <2>6 DEF Log!Next
  <2>7. ASSUME NEW k \in Cids,
               \/ \E hint \in {0} \cup {c \in Convs : rows[c] # NoRow} : UserMessage(k, hint)
               \/ Recover(k) \/ BeginTurn(k) \/ EndLoop(k, "save") \/ EndLoop(k, "resave")
               \/ Resave(k) \/ Event(k) \/ compress_if_needed(k) \/ rollback_compression(k)
               \/ summarize_context(k) \/ retry(k)
               \/ \E c \in Convs : Resume(k, c) \/ StartFork(k, c)
        PROVE  UNCHANGED rows
    BY <2>7 DEF UserMessage, Recover, BeginTurn, EndLoop, Resave, Event, compress_if_needed,
                rollback_compression, summarize_context, retry, Resume, StartFork
  <2>8. Install \/ Summarized => UNCHANGED rows
    BY DEF Install, Summarized
  <2> QED
    BY <1>2, <2>3, <2>4, <2>5, <2>6, <2>7, <2>8 DEF Next
<1> QED
  BY <1>1, <1>2

\* The saved histories implement ConversationLog: a row is written whole, one
\* at a time, and only grows, but for dropped exchanges and unless its
\* conversation is contested.
THEOREM LogImplemented == Spec => ImplementsLog
<1>1. Init => Log!Init
  BY ConstantsAssumption DEF Init, Log!Init
<1>2. GrowInv /\ [Next]_vars => [Log!Next]_<<rows, dropped, contested>>
  BY LogStep
<1> QED
  BY <1>1, <1>2, HistoriesHold, PTL DEF Spec, ImplementsLog, Log!Spec

=============================================================================
