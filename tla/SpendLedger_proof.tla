-------------------------- MODULE SpendLedger_proof --------------------------
(* Proofs about the spend ledger for every set of calls and processes, every    *)
(* deployment, cap, price and limit: the charges of a day stay within the cap,  *)
(* capped calls of two processes are never outstanding together, and a recorded *)
(* call that was lost stops the spending.                                       *)
EXTENDS SpendLedger, FiniteSetTheorems, WellFoundedInduction, TLAPS

(* A queue holds calls of its own process, each once, and each with an          *)
(* operation to run; whoever got past waiting is its head and has the lock.     *)
QueueOwned ==
  \A p \in Procs : \A i \in 1..Len(queue[p]) :
    owner[queue[p][i]] = p /\ pc[queue[p][i]] \in InQueue
QueueDistinct ==
  \A p \in Procs : \A i, j \in 1..Len(queue[p]) : i < j => queue[p][i] # queue[p][j]
HolderHead == \A p \in Procs : at[p] # "wait" => queue[p] # <<>> /\ lock = p

(* What an object holds as its own live calls are outstanding calls of its      *)
(* process.                                                                     *)
LiveOwned ==
  \A p \in Procs :
    IsFiniteSet(live[p]) /\ \A c \in live[p] : owner[c] = p /\ Outstanding(c)

(* An outstanding call has its admission in the log; a settled one is over, and *)
(* its price, or the one it is about to be settled with, is what was charged.   *)
OutstandingAdmitted == \A c \in Calls : Outstanding(c) => Admitted(c)
SettlementsTrue ==
  \A r \in Recorded("settle") :
    pc[r.call] \in {"settled", "lost", "dead"} /\ (r.cost # Unknown => r.cost = billed[r.call])
UsageTrue ==
  \A c \in Calls : /\ Outstanding(c) => billed[c] \in Bills
                   /\ pc[c] = "settling" => usage[c] \in {billed[c], Unknown}

(* What admit() decided from the file it read still holds when it appends.      *)
DecisionStands ==
  \A p \in Procs :
    at[p] = "write" /\ pc[Head(queue[p])] = "admitting" =>
      /\ Cardinality(live[p]) < MaxLive
      /\ Head(queue[p]) \in capped => \A e \in Calls : Outstanding(e) => owner[e] = p

QueueInv == QueueOwned /\ QueueDistinct /\ HolderHead
LogInv == OutstandingAdmitted /\ SettlementsTrue /\ UsageTrue
IInv == TypeOK /\ QueueInv /\ LiveOwned /\ LogInv /\ DecisionStands /\ OneSpender
-----------------------------------------------------------------------------
(* Every step but the append of an admission and the decision before it: nobody *)
(* becomes outstanding, and a new settlement tells what was charged.            *)
Ended == {"settled", "lost", "dead"}
Deciding(p) == at[p] = "write" /\ pc[Head(queue[p])] = "admitting"
True(r) == pc[r.call] \in Ended /\ (r.cost # Unknown => r.cost = billed[r.call])
Quiet ==
  /\ UNCHANGED <<plan, billed>>
  /\ \A c \in Calls : /\ Outstanding(c)' => Outstanding(c)
                      /\ pc[c] \in Ended => pc'[c] \in Ended
                      /\ pc'[c] = "settling" => usage'[c] \in {billed[c], Unknown}
  /\ log \subseteq log' /\ \A r \in Recorded("settle")' : r \in log \/ True(r)'
  /\ \A p \in Procs : /\ live'[p] \subseteq live[p]
                      /\ \A c \in live'[p] : Outstanding(c)'
                      /\ Deciding(p)' => Deciding(p) /\ Head(queue'[p]) = Head(queue[p])

LEMMA Numbers == MaxLive \in Nat \ {0} /\ MaxWaiting \in Nat \ {0}
BY SpendAssumption

LEMMA FaultBound == ASSUME TypeOK PROVE plan.faults \in Nat /\ plan.midnights \in Nat
BY SpendAssumption DEF TypeOK

LEMMA HeadFacts ==
  ASSUME TypeOK, QueueInv, NEW p \in Procs, queue[p] # <<>>
  PROVE  /\ Head(queue[p]) \in Calls /\ owner[Head(queue[p])] = p
         /\ pc[Head(queue[p])] \in InQueue
         /\ Head(queue[p]) = queue[p][1] /\ Len(queue[p]) \in Nat \ {0}
<1>1. queue[p] \in Seq(Calls)
  BY DEF TypeOK
<1>2. Head(queue[p]) = queue[p][1] /\ Len(queue[p]) \in Nat \ {0} /\ Head(queue[p]) \in Calls
  BY <1>1
<1>3. 1 \in 1..Len(queue[p])
  BY <1>2
<1> QED
  BY <1>2, <1>3 DEF QueueInv, QueueOwned

LEMMA LiveShrinks ==
  ASSUME LiveOwned, NEW p \in Procs, live'[p] \subseteq live[p]
  PROVE  /\ IsFiniteSet(live'[p]) /\ Cardinality(live[p]) \in Nat
         /\ Cardinality(live'[p]) \in Nat /\ Cardinality(live'[p]) <= Cardinality(live[p])
<1>1. IsFiniteSet(live[p])
  BY DEF LiveOwned
<1> QED
  BY <1>1, FS_Subset, FS_CardinalityType

LEMMA LiveBounded ==
  ASSUME TypeOK, LiveOwned, NEW q \in Procs, live'[q] \subseteq live[q]
  PROVE  Cardinality(live'[q]) <= MaxLive
<1>1. /\ Cardinality(live'[q]) <= Cardinality(live[q])
      /\ Cardinality(live[q]) \in Nat /\ Cardinality(live'[q]) \in Nat
  BY LiveShrinks
<1>2. Cardinality(live[q]) <= MaxLive
  BY DEF TypeOK
<1> QED
  BY <1>1, <1>2, Numbers

LEMMA QuietKeeps ==
  ASSUME IInv, TypeOK', Quiet
  PROVE  LiveOwned' /\ LogInv' /\ DecisionStands' /\ OneSpender'
<1> USE SpendAssumption
<1>1. LiveOwned'
  <2> SUFFICES ASSUME NEW p \in Procs
               PROVE  /\ IsFiniteSet(live'[p])
                      /\ \A c \in live'[p] : owner'[c] = p /\ Outstanding(c)'
    BY DEF LiveOwned
  <2>1. live'[p] \subseteq live[p] /\ owner' = owner /\ \A c \in live'[p] : Outstanding(c)'
    BY DEF Quiet, owner
  <2>2. IsFiniteSet(live'[p])
    BY <2>1, LiveShrinks DEF IInv
  <2> QED
    BY <2>1, <2>2 DEF IInv, LiveOwned
<1>2. OutstandingAdmitted'
  <2> SUFFICES ASSUME NEW c \in Calls, Outstanding(c)' PROVE Admitted(c)'
    BY DEF OutstandingAdmitted
  <2>1. Admitted(c)
    BY DEF Quiet, IInv, LogInv, OutstandingAdmitted
  <2> QED
    BY <2>1 DEF Admitted, Recorded, Quiet
<1>3. SettlementsTrue'
  <2> SUFFICES ASSUME NEW r \in Recorded("settle")' PROVE True(r)'
    BY DEF SettlementsTrue, True, Ended
  <2>1. CASE r \in log
    <3>1. r \in Recorded("settle") /\ r.call \in Calls
      BY <2>1 DEF Recorded, IInv, TypeOK, Lines
    <3>2. True(r)
      BY <3>1 DEF IInv, LogInv, SettlementsTrue, True, Ended
    <3> QED
      BY <3>1, <3>2 DEF True, Quiet
  <2> QED
    BY <2>1 DEF Quiet
<1>4. UsageTrue'
  BY DEF UsageTrue, Quiet, IInv, LogInv
<1>5. DecisionStands'
  <2> SUFFICES ASSUME NEW p \in Procs, Deciding(p)'
               PROVE  /\ Cardinality(live'[p]) < MaxLive
                      /\ Head(queue'[p]) \in capped' =>
                           \A e \in Calls : Outstanding(e)' => owner'[e] = p
    BY DEF DecisionStands, Deciding
  <2>1. Deciding(p) /\ Head(queue'[p]) = Head(queue[p]) /\ live'[p] \subseteq live[p]
    BY DEF Quiet
  <2>2. Cardinality(live[p]) < MaxLive
    BY <2>1 DEF IInv, DecisionStands, Deciding
  <2>3. Cardinality(live'[p]) < MaxLive
    BY <2>1, <2>2, LiveShrinks DEF IInv
  <2>4. owner' = owner /\ capped' = capped
    BY DEF Quiet, owner, capped
  <2>5. Head(queue[p]) \in capped => \A e \in Calls : Outstanding(e) => owner[e] = p
    BY <2>1 DEF IInv, DecisionStands, Deciding
  <2> QED
    BY <2>1, <2>3, <2>4, <2>5 DEF Quiet
<1>6. OneSpender'
  <2>1. owner' = owner /\ capped' = capped /\ capped \subseteq Calls
    BY DEF Quiet, owner, capped, IInv, TypeOK
  <2> QED
    BY <2>1 DEF OneSpender, Quiet, IInv
<1> QED
  BY <1>1, <1>2, <1>3, <1>4, <1>5, <1>6 DEF LogInv
-----------------------------------------------------------------------------
(* The head of a queue leaves it for a place where no operation of it is left.  *)
LEMMA QueueDeparts ==
  ASSUME TypeOK, QueueInv, UNCHANGED plan, NEW p \in Procs, queue[p] # <<>>, Leave(p),
         NEW x, pc' = [pc EXCEPT ![Head(queue[p])] = x]
  PROVE  /\ QueueInv'
         /\ queue' \in [Procs -> Seq(Calls)] /\ at' \in [Procs -> {"wait", "read", "write"}]
         /\ lock' \in Procs \cup {NoProc}
         /\ \A q \in Procs : Len(queue'[q]) <= MaxWaiting
<1> USE SpendAssumption
<1> DEFINE h == Head(queue[p])
<1>1. /\ h \in Calls /\ owner[h] = p /\ h = queue[p][1] /\ Len(queue[p]) \in Nat \ {0}
      /\ queue[p] \in Seq(Calls)
  BY HeadFacts DEF TypeOK
<1>2. queue' = [queue EXCEPT ![p] = Tail(queue[p])] /\ queue \in [Procs -> Seq(Calls)]
  BY DEF Leave, TypeOK
<1>3. /\ Tail(queue[p]) \in Seq(Calls) /\ Len(Tail(queue[p])) = Len(queue[p]) - 1
      /\ \A i \in 1..Len(Tail(queue[p])) :
           i + 1 \in 1..Len(queue[p]) /\ Tail(queue[p])[i] = queue[p][i + 1]
  BY <1>1
<1>4. queue'[p] = Tail(queue[p]) /\ \A q \in Procs \ {p} : queue'[q] = queue[q]
  BY <1>2
<1>5. queue' \in [Procs -> Seq(Calls)]
  BY <1>2, <1>3
<1>6. \A q \in Procs : Len(queue'[q]) <= MaxWaiting
  BY <1>1, <1>3, <1>4 DEF TypeOK
<1>7. QueueOwned'
  <2> SUFFICES ASSUME NEW q \in Procs, NEW i \in 1..Len(queue'[q])
               PROVE  owner'[queue'[q][i]] = q /\ pc'[queue'[q][i]] \in InQueue
    BY DEF QueueOwned
  <2>1. PICK j \in 1..Len(queue[q]) : queue'[q][i] = queue[q][j] /\ (q = p => j # 1)
    <3>1. CASE q = p
      <4>1. i \in 1..Len(Tail(queue[p]))
        BY <1>4, <3>1, Zenon
      <4>2. i + 1 \in 1..Len(queue[p]) /\ Tail(queue[p])[i] = queue[p][i + 1]
        BY <1>3, <4>1
      <4>3. i + 1 # 1
        BY <1>1, <1>3, <4>1
      <4> QED
        BY <1>4, <4>2, <4>3, <3>1
    <3>2. CASE q # p
      BY <1>4, <3>2
    <3> QED
      BY <3>1, <3>2
  <2>2. /\ owner[queue[q][j]] = q /\ pc[queue[q][j]] \in InQueue /\ queue[q][j] \in Calls
    BY DEF QueueInv, QueueOwned, TypeOK
  <2>3. queue[q][j] # h
    <3>1. CASE q = p
      <4>1. 1 \in 1..Len(queue[p]) /\ 1 < j
        BY <1>1, <2>1, <3>1
      <4> QED
        BY <1>1, <3>1, <4>1 DEF QueueInv, QueueDistinct
    <3>2. CASE q # p
      BY <1>1, <2>2, <3>2
    <3> QED
      BY <3>1, <3>2
  <2> QED
    BY <2>1, <2>2, <2>3 DEF owner, TypeOK
<1>8. QueueDistinct'
  <2> SUFFICES ASSUME NEW q \in Procs, NEW i \in 1..Len(queue'[q]), NEW j \in 1..Len(queue'[q]),
                      i < j
               PROVE  queue'[q][i] # queue'[q][j]
    BY DEF QueueDistinct
  <2>1. CASE q = p
    <3>1. i \in 1..Len(Tail(queue[p])) /\ j \in 1..Len(Tail(queue[p]))
      BY <1>4, <2>1, Zenon
    <3>2. /\ i + 1 \in 1..Len(queue[p]) /\ Tail(queue[p])[i] = queue[p][i + 1]
          /\ j + 1 \in 1..Len(queue[p]) /\ Tail(queue[p])[j] = queue[p][j + 1]
      BY <1>3, <3>1
    <3>3. i + 1 < j + 1
      BY <1>1, <1>3, <3>1
    <3>4. queue[p][i + 1] # queue[p][j + 1]
      BY <3>2, <3>3 DEF QueueInv, QueueDistinct
    <3> QED
      BY <1>4, <2>1, <3>2, <3>4, Zenon
  <2>2. CASE q # p
    BY <1>4, <2>2 DEF QueueInv, QueueDistinct
  <2> QED
    BY <2>1, <2>2
<1>9. at' = [at EXCEPT ![p] = "wait"] /\ at' \in [Procs -> {"wait", "read", "write"}]
  BY DEF Leave, TypeOK
<1>10. HolderHead' /\ lock' \in Procs \cup {NoProc}
  BY <1>4, <1>9 DEF HolderHead, QueueInv, Leave, Holds, TypeOK
<1> QED
  BY <1>5, <1>6, <1>7, <1>8, <1>9, <1>10 DEF QueueInv

(* A call that is in no queue is appended to the queue of its process.          *)
LEMMA QueueEnters ==
  ASSUME TypeOK, QueueInv, UNCHANGED <<plan, lock, at>>, NEW c \in Calls,
         pc[c] \notin InQueue, Room(owner[c]), Enter(c),
         NEW x \in InQueue, pc' = [pc EXCEPT ![c] = x]
  PROVE  /\ QueueInv' /\ queue' \in [Procs -> Seq(Calls)]
         /\ \A q \in Procs : /\ Len(queue'[q]) <= MaxWaiting
                             /\ queue[q] # <<>> => Head(queue'[q]) = Head(queue[q])
<1> USE SpendAssumption
<1> DEFINE p == owner[c]
<1>1. p \in Procs
  BY DEF TypeOK, owner
<1>2. queue \in [Procs -> Seq(Calls)] /\ queue[p] \in Seq(Calls) /\ Len(queue[p]) \in Nat
  BY <1>1 DEF TypeOK
<1>3. queue' = [queue EXCEPT ![p] = Append(queue[p], c)]
  BY DEF Enter
<1>4. queue'[p] = Append(queue[p], c) /\ \A q \in Procs \ {p} : queue'[q] = queue[q]
  BY <1>1, <1>2, <1>3
<1>5. /\ Append(queue[p], c) \in Seq(Calls) /\ Len(Append(queue[p], c)) = Len(queue[p]) + 1
      /\ \A i \in 1..Len(queue[p]) : Append(queue[p], c)[i] = queue[p][i]
      /\ Append(queue[p], c)[Len(queue[p]) + 1] = c
  BY <1>2
<1>6. queue' \in [Procs -> Seq(Calls)]
  BY <1>2, <1>3, <1>5
<1>7. \A q \in Procs : Len(queue'[q]) <= MaxWaiting
  <2>1. Len(queue'[p]) <= MaxWaiting
    BY <1>2, <1>4, <1>5, <1>1, Numbers DEF Room
  <2> QED
    BY <1>4, <2>1 DEF TypeOK
<1>8. \A q \in Procs : queue[q] # <<>> => Head(queue'[q]) = Head(queue[q])
  <2> SUFFICES ASSUME queue[p] # <<>> PROVE Head(queue'[p]) = Head(queue[p])
    BY <1>4
  <2> QED
    BY <1>2, <1>4
<1>9. \A q \in Procs : \A i \in 1..Len(queue[q]) :
        queue[q][i] \in Calls /\ queue[q][i] # c /\ owner[queue[q][i]] = q
        /\ pc[queue[q][i]] \in InQueue
  BY DEF QueueInv, QueueOwned, TypeOK
<1>10. QueueOwned'
  <2> SUFFICES ASSUME NEW q \in Procs, NEW i \in 1..Len(queue'[q])
               PROVE  owner'[queue'[q][i]] = q /\ pc'[queue'[q][i]] \in InQueue
    BY DEF QueueOwned
  <2>1. CASE q = p /\ i = Len(queue[p]) + 1
    BY <1>4, <1>5, <2>1 DEF owner, TypeOK
  <2>2. CASE ~(q = p /\ i = Len(queue[p]) + 1)
    <3>1. CASE q = p
      <4> DEFINE n == Len(queue[p])
      <4>1. n \in Nat /\ i \in 1..(n + 1) /\ i # n + 1
        BY <1>2, <1>4, <1>5, <2>2, <3>1
      <4>2. i \in 1..n
        <5> HIDE DEF n
        <5> QED
          BY <4>1
      <4>3. queue'[q][i] = queue[q][i]
        BY <1>4, <1>5, <3>1, <4>2
      <4> DEFINE y == queue[q][i]
      <4>4. y \in Calls /\ y # c /\ owner[y] = q /\ pc[y] \in InQueue
        BY <1>9, <3>1, <4>2
      <4>5. owner'[y] = owner[y] /\ pc'[y] = pc[y]
        <5> HIDE DEF y
        <5> QED
          BY <4>4 DEF owner, TypeOK
      <4> QED
        BY <4>3, <4>4, <4>5
    <3>2. CASE q # p
      <4>1. queue'[q] = queue[q]
        BY <1>4, <3>2
      <4> QED
        BY <1>9, <4>1 DEF owner, TypeOK
    <3> QED
      BY <3>1, <3>2
  <2> QED
    BY <2>1, <2>2
<1>11. QueueDistinct'
  <2> SUFFICES ASSUME NEW q \in Procs, NEW i \in 1..Len(queue'[q]), NEW j \in 1..Len(queue'[q]),
                      i < j
               PROVE  queue'[q][i] # queue'[q][j]
    BY DEF QueueDistinct
  <2>1. CASE q = p /\ j = Len(queue[p]) + 1
    <3>1. i \in 1..Len(queue[p])
      BY <1>2, <2>1
    <3>2. queue'[q][i] = queue[q][i] /\ queue'[q][j] = c
      BY <1>4, <1>5, <2>1, <3>1
    <3>3. queue[q][i] # c
      BY <1>9, <2>1, <3>1
    <3> QED
      BY <3>2, <3>3
  <2>2. CASE ~(q = p /\ j = Len(queue[p]) + 1)
    <3>1. i \in 1..Len(queue[q]) /\ j \in 1..Len(queue[q])
      BY <1>2, <1>4, <1>5, <2>2
    <3>2. queue'[q][i] = queue[q][i] /\ queue'[q][j] = queue[q][j]
      BY <1>4, <1>5, <3>1
    <3> QED
      BY <3>1, <3>2 DEF QueueInv, QueueDistinct
  <2> QED
    BY <2>1, <2>2
<1>12. HolderHead'
  BY <1>2, <1>4, <1>5 DEF QueueInv, HolderHead
<1> QED
  BY <1>6, <1>7, <1>8, <1>10, <1>11, <1>12 DEF QueueInv

LEMMA QueueSame ==
  ASSUME TypeOK, QueueInv, UNCHANGED <<plan, queue>>,
         \A c \in Calls : pc[c] \in InQueue => pc'[c] \in InQueue
  PROVE  QueueOwned' /\ QueueDistinct'
<1>1. \A p \in Procs : \A i \in 1..Len(queue[p]) : queue[p][i] \in Calls
  BY DEF TypeOK
<1> QED
  BY <1>1 DEF QueueInv, QueueOwned, QueueDistinct, owner
-----------------------------------------------------------------------------
LEMMA LineTyped ==
  ASSUME TypeOK, NEW p \in Procs, NEW c \in Calls
  PROVE  Line(p, c) \in Lines
<1>1. stamp[p] \in Days /\ usage[c] \in Bills \cup {Unknown}
  BY DEF TypeOK
<1> QED
  BY <1>1 DEF Line, Lines, Admission, Settlement, Gap

(* Only the settlement of a call that was settling is a settlement.             *)
LEMMA LineTrue ==
  ASSUME NEW p \in Procs, NEW c \in Calls, UsageTrue,
         Line(p, c).type = "settle"
  PROVE  /\ pc[c] = "settling" /\ Line(p, c).call = c
         /\ Line(p, c).cost # Unknown => Line(p, c).cost = billed[c]
BY DEF Line, Admission, Settlement, Gap, UsageTrue

(* The steps that end the operation at the head of a queue, save the append of  *)
(* an admission.                                                                *)
LEMMA DepartureQuiet ==
  ASSUME IInv, NEW p \in Procs, Turn(p), Leave(p),
         UNCHANGED <<plan, day, billed, usage>>, torn' \in BOOLEAN, faults' \in 0..plan.faults,
         log \subseteq log', log' \subseteq log \cup {Line(p, Head(queue[p]))},
         NEW x \in {"refused", "unaccounted", "unmetered", "settled", "lost"},
         pc' = [pc EXCEPT ![Head(queue[p])] = x],
         pc[Head(queue[p])] = "settling" =>
           x \in Ended /\ live' = [live EXCEPT ![p] = @ \ {Head(queue[p])}],
         pc[Head(queue[p])] # "settling" => live' = live
  PROVE  TypeOK' /\ QueueInv' /\ Quiet
<1> DEFINE h == Head(queue[p])
<1>1. TypeOK /\ QueueInv /\ queue[p] # <<>>
  BY DEF IInv, Turn
<1>2. h \in Calls /\ owner[h] = p /\ pc[h] \in InQueue
  BY <1>1, HeadFacts
<1>3. /\ QueueInv'
      /\ queue' \in [Procs -> Seq(Calls)] /\ at' \in [Procs -> {"wait", "read", "write"}]
      /\ lock' \in Procs \cup {NoProc}
      /\ \A q \in Procs : Len(queue'[q]) <= MaxWaiting
  BY <1>1, QueueDeparts
<1>4. Line(p, h) \in Lines
  BY <1>1, <1>2, LineTyped
<1>5. /\ live' \in [Procs -> SUBSET Calls]
      /\ \A q \in Procs : live'[q] \subseteq live[q]
      /\ pc[h] = "settling" => h \notin live'[p]
  BY <1>1 DEF TypeOK
<1>6. \A q \in Procs : Cardinality(live'[q]) <= MaxLive
  BY <1>1, <1>5, LiveBounded DEF IInv
<1>7. TypeOK'
  <2>1. stamp' = stamp
    BY DEF Leave
  <2>2. Days' = Days /\ Lines' = Lines
    BY DEF Days, Lines
  <2>3. pc' \in [Calls -> Places]
    BY <1>1 DEF TypeOK, Places, Over
  <2>4. log' \subseteq Lines
    BY <1>1, <1>4 DEF TypeOK
  <2> QED
    BY <1>1, <1>3, <1>5, <1>6, <2>1, <2>2, <2>3, <2>4 DEF TypeOK
<1>8. /\ pc'[h] = x /\ x \notin {"streaming", "settling"} /\ \A c \in Calls \ {h} : pc'[c] = pc[c]
      /\ pc[h] \notin Ended
  BY <1>1, <1>2 DEF TypeOK, InQueue, Ended
<1>9. \A c \in Calls : /\ Outstanding(c)' => Outstanding(c)
                       /\ pc[c] \in Ended => pc'[c] \in Ended
                       /\ pc'[c] = "settling" => usage'[c] \in {billed[c], Unknown}
  BY <1>8 DEF Outstanding, IInv, LogInv, UsageTrue
<1>10. ASSUME NEW r \in Recorded("settle")', r \notin log PROVE True(r)'
  <2>1. r = Line(p, h) /\ r.type = "settle"
    BY <1>10 DEF Recorded
  <2>2. pc[h] = "settling" /\ r.call = h /\ (r.cost # Unknown => r.cost = billed[h])
    BY <1>2, <2>1, LineTrue DEF IInv, LogInv
  <2> QED
    BY <1>8, <2>2 DEF True
<1>11. ASSUME NEW q \in Procs, NEW c \in live'[q] PROVE Outstanding(c)'
  <2>1. c \in live[q] /\ owner[c] = q /\ Outstanding(c) /\ c \in Calls
    BY <1>1, <1>5 DEF IInv, LiveOwned, TypeOK
  <2>2. c # h
    BY <1>2, <1>5, <2>1 DEF Outstanding, InQueue
  <2> QED
    BY <1>8, <2>1, <2>2 DEF Outstanding
<1>12. ASSUME NEW q \in Procs, Deciding(q)'
       PROVE  Deciding(q) /\ Head(queue'[q]) = Head(queue[q])
  <2>1. q # p /\ at'[q] = at[q] /\ queue'[q] = queue[q] /\ at[q] = "write"
    BY <1>1, <1>12 DEF Deciding, Leave, TypeOK
  <2>2. Head(queue[q]) \in Calls /\ owner[Head(queue[q])] = q
    BY <1>1, <2>1, HeadFacts DEF QueueInv, HolderHead
  <2>3. pc'[Head(queue[q])] = pc[Head(queue[q])]
    BY <1>2, <1>8, <2>1, <2>2
  <2> QED
    BY <1>12, <2>1, <2>3 DEF Deciding
<1>13. Quiet
  BY <1>5, <1>9, <1>10, <1>11, <1>12 DEF Quiet
<1> QED
  BY <1>3, <1>7, <1>13

(* Failed() takes the head of a queue where DepartureQuiet needs it.            *)
LEMMA FailureQuiet ==
  ASSUME IInv, NEW p \in Procs, Turn(p), Failed(Head(queue[p])), Leave(p),
         UNCHANGED <<plan, day, billed, usage>>, torn' \in BOOLEAN, faults' \in 0..plan.faults,
         log \subseteq log', log' \subseteq log \cup {Line(p, Head(queue[p]))}
  PROVE  TypeOK' /\ QueueInv' /\ Quiet
<1> DEFINE h == Head(queue[p])
<1>1. h \in Calls /\ owner[h] = p /\ pc[h] \in InQueue
  BY HeadFacts DEF IInv, Turn
<1>2. PICK x \in {"refused", "unaccounted", "unmetered", "settled", "lost"} :
        /\ pc' = [pc EXCEPT ![h] = x]
        /\ pc[h] = "settling" => x \in Ended /\ live' = [live EXCEPT ![p] = @ \ {h}]
        /\ pc[h] # "settling" => live' = live
  <2>1. CASE pc[h] = "settling"
    BY <1>1, <2>1 DEF Failed, Place, Ended
  <2>2. CASE pc[h] = "marking"
    BY <1>1, <2>2 DEF Failed, Place
  <2>3. CASE pc[h] = "admitting"
    BY <1>1, <2>3 DEF Failed, Place
  <2> QED
    BY <1>1, <2>1, <2>2, <2>3 DEF InQueue
<1> QED
  BY <1>2, DepartureQuiet

(* A request that finds room enters the queue; one that does not has failed.    *)
LEMMA RequestQuiet ==
  ASSUME IInv, NEW c \in Calls, NEW kind \in InQueue, Request(c, kind),
         UNCHANGED <<world, ledger, billed>>,
         pc[c] \in {"idle", "unaccounted", "streaming"},
         kind = "settling" <=> pc[c] = "streaming",
         usage' \in [Calls -> Bills \cup {Unknown}],
         \A e \in Calls \ {c} : usage'[e] = usage[e],
         kind = "settling" => usage'[c] \in {billed[c], Unknown}
  PROVE  TypeOK' /\ QueueInv' /\ Quiet
<1> DEFINE o == owner[c]
<1>1. TypeOK /\ QueueInv /\ o \in Procs
  BY SpendAssumption DEF IInv, TypeOK, owner
<1>2. pc[c] \notin InQueue /\ pc[c] \notin Ended
  BY DEF InQueue, Ended
<1>3. PICK x \in Places :
        /\ pc' = [pc EXCEPT ![c] = x]
        /\ x \in {"streaming", "settling"} => x = kind /\ kind = "settling"
        /\ x # "settling" /\ pc[c] = "streaming" => live' = [live EXCEPT ![o] = @ \ {c}]
        /\ ~(x # "settling" /\ pc[c] = "streaming") => live' = live
        /\ IF Room(o) THEN Enter(c) /\ x = kind ELSE queue' = queue
  <2>1. CASE Room(o)
    BY <2>1 DEF Request, Place, Places, InQueue
  <2>2. CASE ~Room(o)
    BY <2>2 DEF Request, Place, Places, InQueue, Over
  <2> QED
    BY <2>1, <2>2
<1>4. UNCHANGED <<plan, lock, at, stamp, day, log, torn, faults, billed>>
  BY DEF Request, world, ledger
<1>5. pc'[c] = x /\ \A e \in Calls \ {c} : pc'[e] = pc[e]
  BY <1>1, <1>3 DEF TypeOK
<1>6. /\ QueueInv' /\ queue' \in [Procs -> Seq(Calls)]
      /\ \A q \in Procs : /\ Len(queue'[q]) <= MaxWaiting
                          /\ queue[q] # <<>> => Head(queue'[q]) = Head(queue[q])
  <2>1. CASE Room(o)
    BY <1>1, <1>2, <1>3, <1>4, <2>1, QueueEnters
  <2>2. CASE ~Room(o)
    <3>1. queue' = queue
      BY <1>3, <2>2
    <3>2. QueueOwned' /\ QueueDistinct'
      BY <1>1, <1>2, <1>4, <1>5, <3>1, QueueSame
    <3> QED
      BY <1>1, <1>4, <3>1, <3>2 DEF QueueInv, HolderHead, TypeOK
  <2> QED
    BY <2>1, <2>2
<1>7. /\ live' \in [Procs -> SUBSET Calls]
      /\ \A q \in Procs : live'[q] \subseteq live[q]
      /\ x # "settling" /\ pc[c] = "streaming" => c \notin live'[o]
  <2>1. live \in [Procs -> SUBSET Calls]
    BY <1>1 DEF TypeOK
  <2>2. CASE x # "settling" /\ pc[c] = "streaming"
    <3>1. live' = [live EXCEPT ![o] = @ \ {c}]
      BY <1>3, <2>2
    <3> QED
      BY <1>1, <2>1, <3>1
  <2>3. CASE ~(x # "settling" /\ pc[c] = "streaming")
    <3>1. live' = live
      BY <1>3, <2>3
    <3> QED
      BY <2>1, <2>3, <3>1
  <2> QED
    BY <2>2, <2>3
<1>8. \A q \in Procs : Cardinality(live'[q]) <= MaxLive
  BY <1>1, <1>7, LiveBounded DEF IInv
<1>9. TypeOK'
  <2>1. Days' = Days /\ Lines' = Lines
    BY <1>4 DEF Days, Lines
  <2>2. pc' \in [Calls -> Places]
    BY <1>1, <1>3 DEF TypeOK
  <2>3. /\ plan' \in Plans /\ log' \subseteq Lines' /\ torn' \in BOOLEAN
        /\ lock' \in Procs \cup {NoProc} /\ at' \in [Procs -> {"wait", "read", "write"}]
        /\ stamp' \in [Procs -> Days'] /\ billed' \in [Calls -> Bills \cup {0}]
        /\ day' \in Days' /\ faults' \in 0..plan'.faults
    BY <1>1, <1>4, <2>1 DEF TypeOK
  <2> QED
    BY <1>6, <1>7, <1>8, <2>2, <2>3 DEF TypeOK
<1>10. \A e \in Calls : /\ Outstanding(e)' => Outstanding(e)
                        /\ pc[e] \in Ended => pc'[e] \in Ended
                        /\ pc'[e] = "settling" => usage'[e] \in {billed[e], Unknown}
  BY <1>2, <1>3, <1>5 DEF Outstanding, IInv, LogInv, UsageTrue
<1>11. ASSUME NEW q \in Procs, NEW e \in live'[q] PROVE Outstanding(e)'
  <2>1. e \in live[q] /\ owner[e] = q /\ Outstanding(e) /\ e \in Calls
    BY <1>1, <1>7 DEF IInv, LiveOwned, TypeOK
  <2>2. CASE e = c
    BY <1>5, <1>7, <2>1, <2>2 DEF Outstanding
  <2>3. CASE e # c
    BY <1>5, <2>1, <2>3 DEF Outstanding
  <2> QED
    BY <2>2, <2>3
<1>12. ASSUME NEW q \in Procs, Deciding(q)'
       PROVE  Deciding(q) /\ Head(queue'[q]) = Head(queue[q])
  <2>1. at[q] = "write" /\ queue[q] # <<>>
    BY <1>1, <1>4, <1>12 DEF Deciding, QueueInv, HolderHead
  <2>2. Head(queue[q]) \in Calls /\ Head(queue[q]) # c /\ Head(queue'[q]) = Head(queue[q])
    <3>1. Head(queue[q]) \in Calls /\ pc[Head(queue[q])] \in InQueue
      BY <1>1, <2>1, HeadFacts
    <3> QED
      BY <1>2, <1>6, <2>1, <3>1
  <2> QED
    BY <1>5, <1>12, <2>1, <2>2 DEF Deciding
<1>13. Quiet
  <2>1. UNCHANGED <<plan, billed>> /\ log \subseteq log'
        /\ \A r \in Recorded("settle")' : r \in log \/ True(r)'
    BY <1>4 DEF Recorded
  <2> QED
    BY <1>7, <1>10, <1>11, <1>12, <2>1 DEF Quiet
<1> QED
  BY <1>6, <1>9, <1>13
-----------------------------------------------------------------------------
(* A crash empties one queue and one object; the dead calls are over.           *)
LEMMA CrashQuiet ==
  ASSUME IInv, NEW p \in Procs, Crash(p)
  PROVE  TypeOK' /\ QueueInv' /\ Quiet
<1>1. TypeOK /\ QueueInv
  BY DEF IInv
<1>2. /\ \A q \in Procs \ {p} : queue'[q] = queue[q] /\ at'[q] = at[q] /\ live'[q] = live[q]
      /\ queue'[p] = <<>> /\ at'[p] = "wait" /\ live'[p] = {}
      /\ queue' \in [Procs -> Seq(Calls)] /\ live' \in [Procs -> SUBSET Calls]
      /\ at' \in [Procs -> {"wait", "read", "write"}]
  BY <1>1 DEF Crash, TypeOK
<1>3. UNCHANGED <<plan, log, lock, stamp, billed, usage, day>>
  BY DEF Crash
<1>4. \A c \in Calls : /\ pc'[c] = pc[c] \/ (owner[c] = p /\ pc[c] \notin Over /\ pc'[c] = "dead")
                       /\ owner[c] = p => pc'[c] \in Over \cup {"idle"}
  BY <1>1 DEF Crash, TypeOK, Over
<1>5. \A q \in Procs : live'[q] \subseteq live[q]
  BY <1>2
<1>6. TypeOK'
  <2>1. Days' = Days /\ Lines' = Lines
    BY <1>3 DEF Days, Lines
  <2>2. pc' \in [Calls -> Places]
    BY <1>1 DEF Crash, TypeOK, Places, Over
  <2>3. \A q \in Procs : Len(queue'[q]) <= MaxWaiting
    <3>1. Len(queue'[p]) = 0
      BY <1>2
    <3>2. \A q \in Procs : Len(queue[q]) <= MaxWaiting
      BY <1>1 DEF TypeOK
    <3>3. Len(queue'[p]) <= MaxWaiting
      BY <3>1, Numbers
    <3>4. \A q \in Procs \ {p} : Len(queue'[q]) <= MaxWaiting
      BY <1>2, <3>2, Zenon
    <3> QED
      BY <3>3, <3>4, Zenon
  <2>4. \A q \in Procs : Cardinality(live'[q]) <= MaxLive
    BY <1>1, <1>5, LiveBounded DEF IInv
  <2>5. torn' \in BOOLEAN /\ faults' \in 0..plan'.faults
    <3>1. torn' \in BOOLEAN
      BY <1>1 DEF Crash, TypeOK
    <3>2. faults' = faults + 1 /\ faults < plan.faults /\ faults \in 0..plan.faults /\ plan' = plan
      BY <1>1 DEF Crash, TypeOK
    <3> QED
      BY <1>1, <3>1, <3>2, FaultBound
  <2> QED
    BY <1>1, <1>2, <1>3, <2>1, <2>2, <2>3, <2>4, <2>5 DEF TypeOK
<1>7. \A q \in Procs : \A i \in 1..Len(queue[q]) : queue[q][i] \in Calls
  BY <1>1 DEF TypeOK
<1>8. QueueInv'
  <2>1. QueueOwned'
    <3> SUFFICES ASSUME NEW q \in Procs, NEW i \in 1..Len(queue'[q])
                 PROVE  owner'[queue'[q][i]] = q /\ pc'[queue'[q][i]] \in InQueue
      BY DEF QueueOwned
    <3>1. q # p /\ queue'[q] = queue[q] /\ i \in 1..Len(queue[q])
      BY <1>2
    <3>2. /\ owner[queue[q][i]] = q /\ pc[queue[q][i]] \in InQueue
          /\ queue[q][i] \in Calls
      BY <1>1, <1>7, <3>1 DEF QueueInv, QueueOwned
    <3> QED
      BY <1>3, <1>4, <3>1, <3>2 DEF owner
  <2>2. QueueDistinct'
    BY <1>1, <1>2 DEF QueueInv, QueueDistinct
  <2>3. HolderHead'
    BY <1>1, <1>2, <1>3 DEF QueueInv, HolderHead
  <2> QED
    BY <2>1, <2>2, <2>3 DEF QueueInv
<1>9. \A c \in Calls : /\ Outstanding(c)' => Outstanding(c)
                       /\ pc[c] \in Ended => pc'[c] \in Ended
                       /\ pc'[c] = "settling" => usage'[c] \in {billed[c], Unknown}
  BY <1>3, <1>4 DEF Outstanding, Ended, IInv, LogInv, UsageTrue
<1>10. ASSUME NEW q \in Procs, NEW c \in live'[q] PROVE Outstanding(c)'
  <2>1. q # p /\ c \in Calls /\ owner[c] = q /\ Outstanding(c)
    BY <1>1, <1>2, <1>10 DEF IInv, LiveOwned, TypeOK
  <2> QED
    BY <1>4, <2>1 DEF Outstanding
<1>11. ASSUME NEW q \in Procs, Deciding(q)'
       PROVE  Deciding(q) /\ Head(queue'[q]) = Head(queue[q])
  <2>1. q # p /\ at[q] = "write" /\ queue'[q] = queue[q]
    BY <1>2, <1>11 DEF Deciding
  <2>2. Head(queue[q]) \in Calls /\ owner[Head(queue[q])] = q
    BY <1>1, <2>1, HeadFacts DEF QueueInv, HolderHead
  <2>3. pc'[Head(queue[q])] = "admitting"
    BY <1>11, <2>1 DEF Deciding
  <2> QED
    BY <1>4, <2>1, <2>2, <2>3 DEF Deciding
<1>12. log \subseteq log' /\ \A r \in Recorded("settle")' : r \in log \/ True(r)'
  BY <1>3 DEF Recorded
<1>13. Quiet
  BY <1>3, <1>5, <1>9, <1>10, <1>11, <1>12 DEF Quiet
<1> QED
  BY <1>6, <1>8, <1>13

(* Taking or removing the lock, and the clock, touch no call.                   *)
LEMMA ClockQuiet ==
  ASSUME IInv, UNCHANGED <<plan, log, torn, queue, stamp, live, pc, billed, usage, faults>>,
         day' \in Days, lock' \in Procs \cup {NoProc}, at' \in [Procs -> {"wait", "read", "write"}],
         HolderHead', \A p \in Procs : at'[p] = "write" => at[p] = "write"
  PROVE  TypeOK' /\ QueueInv' /\ Quiet
<1>1. TypeOK /\ QueueInv
  BY DEF IInv
<1>2. QueueInv'
  BY <1>1, QueueSame DEF QueueInv
<1>3. Days' = Days /\ Lines' = Lines
  BY DEF Days, Lines
<1>4. TypeOK'
  BY <1>1, <1>3 DEF TypeOK
<1>5. \A c \in Calls : /\ Outstanding(c)' => Outstanding(c)
                       /\ pc[c] \in Ended => pc'[c] \in Ended
                       /\ pc'[c] = "settling" => usage'[c] \in {billed[c], Unknown}
  BY DEF Outstanding, IInv, LogInv, UsageTrue
<1>6. \A p \in Procs : /\ live'[p] \subseteq live[p]
                       /\ \A c \in live'[p] : Outstanding(c)'
                       /\ Deciding(p)' => Deciding(p) /\ Head(queue'[p]) = Head(queue[p])
  BY DEF IInv, LiveOwned, Outstanding, Deciding
<1>7. log \subseteq log' /\ \A r \in Recorded("settle")' : r \in log \/ True(r)'
  BY DEF Recorded
<1>8. Quiet
  BY <1>5, <1>6, <1>7 DEF Quiet
<1> QED
  BY <1>2, <1>4, <1>8

(* A capped admission that passes the gate finds no recorded call lost: a call  *)
(* that is not priced is this object's own, of this day.                        *)
LEMMA GateFindsNothingLost ==
  ASSUME IInv, NEW p \in Procs, MayReserve(p)
  PROVE  NothingLost(p)
<1> SUFFICES ASSUME NEW r \in Recorded("admit")
             PROVE  \/ Accounted(r.call)
                    \/ Outstanding(r.call) /\ owner[r.call] = p /\ r.day = day
  BY DEF NothingLost
<1>1. Certain(p, r) /\ \A x \in Priced(r.call) : x <= Reserve
  BY DEF MayReserve
<1>2. CASE Priced(r.call) # {}
  <2>1. PICK s \in Recorded("settle") : s.call = r.call /\ s.cost # Unknown
    BY <1>2 DEF Priced
  <2>2. s.cost = billed[r.call] /\ s.cost \in Priced(r.call)
    BY <2>1 DEF IInv, LogInv, SettlementsTrue, Priced
  <2> QED
    BY <1>1, <2>2 DEF Accounted
<1>3. CASE r.call \in live[p] /\ r.day = day
  BY <1>3 DEF IInv, LiveOwned
<1> QED
  BY <1>1, <1>2, <1>3 DEF Certain

(* Nor a call of another process outstanding: such a call is admitted, has no   *)
(* settlement, and is not this object's own.                                    *)
LEMMA GateFindsNobodyElse ==
  ASSUME IInv, NEW p \in Procs, MayReserve(p), NEW e \in Calls, Outstanding(e)
  PROVE  owner[e] = p
<1>1. PICK r \in Recorded("admit") : r.call = e
  BY DEF IInv, LogInv, OutstandingAdmitted, Admitted
<1>2. Priced(e) = {}
  <2> SUFFICES ASSUME NEW s \in Recorded("settle"), s.call = e PROVE FALSE
    BY DEF Priced
  <2> QED
    BY DEF IInv, LogInv, SettlementsTrue, Outstanding
<1>3. Certain(p, r)
  BY DEF MayReserve
<1> QED
  BY <1>1, <1>2, <1>3 DEF Certain, IInv, LiveOwned
-----------------------------------------------------------------------------
LEMMA ReadKeeps ==
  ASSUME IInv, NEW p \in Procs, Read(p)
  PROVE  IInv'
<1>1. TypeOK /\ QueueInv /\ at[p] = "read" /\ queue[p] # <<>> /\ lock = p
  BY DEF IInv, Read, QueueInv, HolderHead
<1>2. /\ UNCHANGED <<plan, log, torn, lock, queue, live, pc, billed, usage, day, faults>>
      /\ at' = [at EXCEPT ![p] = "write"] /\ stamp' = [stamp EXCEPT ![p] = day]
  BY DEF Read, world, ledger
<1>3. TypeOK'
  <2>1. Days' = Days /\ Lines' = Lines
    BY <1>2 DEF Days, Lines
  <2> QED
    BY <1>1, <1>2, <2>1 DEF TypeOK
<1>4. QueueInv'
  <2>1. QueueOwned' /\ QueueDistinct'
    BY <1>1, <1>2, QueueSame
  <2>2. HolderHead'
    BY <1>1, <1>2 DEF QueueInv, HolderHead, TypeOK
  <2> QED
    BY <2>1, <2>2 DEF QueueInv
<1>5. LiveOwned' /\ OneSpender'
  BY <1>2 DEF IInv, LiveOwned, OneSpender, Outstanding, owner, capped
<1>6. LogInv'
  BY <1>2 DEF IInv, LogInv, OutstandingAdmitted, SettlementsTrue, UsageTrue, Outstanding,
              Admitted, Recorded
<1>7. DecisionStands'
  <2> DEFINE h == Head(queue[p])
  <2>1. \A q \in Procs : at'[q] = "write" => q = p
    BY <1>1, <1>2 DEF QueueInv, HolderHead, TypeOK
  <2>2. h \in Calls /\ Allowed(p, h)
    BY <1>1, HeadFacts DEF Read
  <2>3. ASSUME pc[h] = "admitting"
        PROVE  /\ Cardinality(live[p]) < MaxLive
               /\ h \in capped => \A e \in Calls : Outstanding(e) => owner[e] = p
    <3>1. Cardinality(live[p]) < MaxLive /\ (h \in capped => MayReserve(p))
      BY <2>2, <2>3 DEF Allowed
    <3> QED
      BY <3>1, GateFindsNobodyElse
  <2> QED
    BY <1>2, <2>1, <2>3 DEF DecisionStands, Outstanding, owner, capped
<1> QED
  BY <1>3, <1>4, <1>5, <1>6, <1>7 DEF IInv

LEMMA AdmissionKeeps ==
  ASSUME IInv, NEW p \in Procs, Write(p), pc[Head(queue[p])] = "admitting"
  PROVE  IInv'
<1> DEFINE h == Head(queue[p])
<1>1. TypeOK /\ QueueInv /\ at[p] = "write" /\ queue[p] # <<>> /\ lock = p
  BY DEF IInv, Write, QueueInv, HolderHead
<1>2. h \in Calls /\ owner[h] = p
  BY <1>1, HeadFacts
<1>3. /\ UNCHANGED <<plan, torn, usage, day, faults>> /\ Leave(p)
      /\ log' = log \cup {Admission(h, stamp[p])}
      /\ pc' = [pc EXCEPT ![h] = "streaming"] /\ live' = [live EXCEPT ![p] = @ \cup {h}]
      /\ \E x \in Bills : billed' = [billed EXCEPT ![h] = x]
  BY DEF Write, Place, Line, world
<1>4. /\ pc'[h] = "streaming" /\ h \in live'[p] /\ live'[p] = live[p] \cup {h}
      /\ \A c \in Calls \ {h} : pc'[c] = pc[c] /\ billed'[c] = billed[c]
      /\ \A q \in Procs \ {p} : live'[q] = live[q]
  BY <1>1, <1>2, <1>3 DEF TypeOK
<1>5. /\ QueueInv'
      /\ queue' \in [Procs -> Seq(Calls)] /\ at' \in [Procs -> {"wait", "read", "write"}]
      /\ lock' \in Procs \cup {NoProc}
      /\ \A q \in Procs : Len(queue'[q]) <= MaxWaiting
  BY <1>1, <1>3, QueueDeparts
<1>6. /\ Cardinality(live[p]) < MaxLive
      /\ h \in capped => \A e \in Calls : Outstanding(e) => owner[e] = p
  BY <1>1 DEF IInv, DecisionStands
<1>7. IsFiniteSet(live'[p]) /\ Cardinality(live'[p]) <= MaxLive
  <2>1. IsFiniteSet(live[p]) /\ Cardinality(live[p]) \in Nat
    BY FS_CardinalityType DEF IInv, LiveOwned
  <2>2. /\ IsFiniteSet(live[p] \cup {h})
        /\ \/ Cardinality(live[p] \cup {h}) = Cardinality(live[p])
           \/ Cardinality(live[p] \cup {h}) = Cardinality(live[p]) + 1
    BY <2>1, FS_AddElement
  <2> QED
    BY <1>4, <1>6, <2>1, <2>2, Numbers
<1>8. TypeOK'
  <2>1. Days' = Days /\ Lines' = Lines /\ stamp' = stamp
    BY <1>3 DEF Days, Lines, Leave
  <2>2. Admission(h, stamp[p]) \in Lines
    BY <1>1, <1>2 DEF Admission, Lines, TypeOK
  <2>3. pc' \in [Calls -> Places] /\ live' \in [Procs -> SUBSET Calls]
    BY <1>1, <1>2, <1>3 DEF TypeOK, Places
  <2>4. billed' \in [Calls -> Bills \cup {0}]
    BY <1>1, <1>3 DEF TypeOK
  <2>5. \A q \in Procs : Cardinality(live'[q]) <= MaxLive
    BY <1>1, <1>4, <1>7 DEF TypeOK
  <2>6. log' \subseteq Lines
    BY <1>1, <1>3, <2>2 DEF TypeOK
  <2> QED
    BY <1>1, <1>3, <1>5, <2>1, <2>3, <2>4, <2>5, <2>6 DEF TypeOK
<1>9. owner' = owner /\ capped' = capped /\ capped \subseteq Calls
  BY <1>1, <1>3, SpendAssumption DEF owner, capped, TypeOK
<1>10. \A c \in Calls : Outstanding(c)' <=> c = h \/ Outstanding(c)
  BY <1>4 DEF Outstanding
<1>11. LiveOwned'
  <2> SUFFICES ASSUME NEW q \in Procs
               PROVE  /\ IsFiniteSet(live'[q])
                      /\ \A c \in live'[q] : owner[c] = q /\ Outstanding(c)'
    BY <1>9 DEF LiveOwned
  <2>1. live[q] \subseteq Calls /\ IsFiniteSet(live[q])
    BY <1>1 DEF TypeOK, IInv, LiveOwned
  <2>2. \A c \in live[q] : owner[c] = q /\ Outstanding(c)
    BY DEF IInv, LiveOwned
  <2> QED
    BY <1>2, <1>4, <1>7, <1>10, <2>1, <2>2
<1>12. OutstandingAdmitted'
  <2>1. Admission(h, stamp[p]) \in Recorded("admit")' /\ Admission(h, stamp[p]).call = h
    BY <1>3 DEF Recorded, Admission
  <2>2. \A c \in Calls : Outstanding(c) => Admitted(c)'
    BY <1>3 DEF IInv, LogInv, OutstandingAdmitted, Admitted, Recorded
  <2> QED
    BY <1>10, <2>1, <2>2 DEF OutstandingAdmitted, Admitted
<1>13. SettlementsTrue'
  <2> SUFFICES ASSUME NEW r \in Recorded("settle")' PROVE True(r)'
    BY DEF SettlementsTrue, True, Ended
  <2>1. r \in Recorded("settle") /\ r.call \in Calls
    BY <1>1, <1>3 DEF Recorded, Admission, TypeOK, Lines
  <2>2. True(r)
    BY <2>1 DEF IInv, LogInv, SettlementsTrue, True, Ended
  <2>3. r.call # h
    BY <2>2 DEF True, Ended
  <2> QED
    BY <1>4, <2>1, <2>2, <2>3 DEF True
<1>14. UsageTrue'
  <2>1. billed'[h] \in Bills
    BY <1>1, <1>2, <1>3 DEF TypeOK
  <2> QED
    BY <1>3, <1>4, <1>10, <2>1 DEF IInv, LogInv, UsageTrue
<1>15. DecisionStands'
  <2>1. \A q \in Procs : at'[q] = "wait"
    BY <1>1, <1>3 DEF QueueInv, HolderHead, Leave, TypeOK
  <2> QED
    BY <2>1 DEF DecisionStands
<1>16. OneSpender'
  BY <1>2, <1>6, <1>9, <1>10 DEF IInv, OneSpender
<1> QED
  BY <1>5, <1>8, <1>11, <1>12, <1>13, <1>14, <1>15, <1>16 DEF IInv, LogInv
-----------------------------------------------------------------------------
(* Every step but the decision and the append of an admission is quiet.         *)
LEMMA QueueStepsQuiet ==
  ASSUME IInv, NEW p \in Procs,
         \/ Acquire(p) \/ GiveUp(p) \/ Refuse(p) \/ WriteFails(p) \/ AbortWaiting(p)
         \/ Write(p) /\ pc[Head(queue[p])] # "admitting"
  PROVE  TypeOK' /\ QueueInv' /\ Quiet
<1> DEFINE h == Head(queue[p])
<1> USE DEF world, ledger
<1>1. TypeOK /\ QueueInv /\ (at[p] # "wait" => Turn(p))
  BY DEF IInv, QueueInv, HolderHead, Turn
<1>2. torn \in BOOLEAN /\ faults \in 0..plan.faults
  BY <1>1 DEF TypeOK
<1>3. CASE Acquire(p)
  <2>1. HolderHead'
    BY <1>1, <1>3, SpendAssumption DEF Acquire, Turn, QueueInv, HolderHead, TypeOK
  <2> QED
    BY <1>1, <1>3, <2>1, ClockQuiet DEF Acquire, TypeOK
<1>4. CASE GiveUp(p)
  BY <1>2, <1>4, FailureQuiet DEF GiveUp
<1>5. CASE Refuse(p)
  BY <1>1, <1>2, <1>5, FailureQuiet DEF Refuse
<1>6. CASE WriteFails(p)
  <2>1. /\ Turn(p) /\ Failed(h) /\ Leave(p) /\ UNCHANGED <<plan, day, billed, usage>>
        /\ log \subseteq log' /\ log' \subseteq log \cup {Line(p, h)} /\ torn' \in BOOLEAN
    BY <1>1, <1>2, <1>6 DEF WriteFails
  <2>2. faults' \in 0..plan.faults
    BY <1>1, <1>2, <1>6, FaultBound DEF WriteFails
  <2> QED
    BY <2>1, <2>2, FailureQuiet
<1>7. CASE AbortWaiting(p)
  BY <1>2, <1>7, DepartureQuiet DEF AbortWaiting, Place
<1>8. CASE Write(p) /\ h \in Calls /\ pc[h] = "settling"
  BY <1>1, <1>2, <1>8, DepartureQuiet DEF Write, Place, Ended
<1>9. CASE Write(p) /\ pc[h] = "marking"
  BY <1>1, <1>2, <1>9, DepartureQuiet DEF Write, Place
<1>10. Write(p) => h \in Calls /\ pc[h] \in InQueue
  BY <1>1, HeadFacts DEF Write, Turn
<1> QED
  BY <1>3, <1>4, <1>5, <1>6, <1>7, <1>8, <1>9, <1>10 DEF InQueue

LEMMA CallStepsQuiet ==
  ASSUME IInv, NEW c \in Calls, Ask(c) \/ MarkGap(c) \/ EndStream(c)
  PROVE  TypeOK' /\ QueueInv' /\ Quiet
<1>1. TypeOK /\ usage \in [Calls -> Bills \cup {Unknown}]
  BY DEF IInv, TypeOK
<1>2. CASE Ask(c)
  BY <1>1, <1>2, RequestQuiet DEF Ask, InQueue
<1>3. CASE MarkGap(c)
  BY <1>1, <1>3, RequestQuiet DEF MarkGap, InQueue
<1>4. CASE EndStream(c)
  <2>1. PICK x \in {billed[c], Unknown} : usage' = [usage EXCEPT ![c] = x]
    BY <1>4 DEF EndStream
  <2>2. billed[c] \in Bills
    BY <1>4 DEF EndStream, IInv, LogInv, UsageTrue, Outstanding
  <2> QED
    BY <1>1, <1>4, <2>1, <2>2, RequestQuiet DEF EndStream, InQueue
<1> QED
  BY <1>2, <1>3, <1>4

LEMMA ClockStepsQuiet ==
  ASSUME IInv, RemoveLock \/ Midnight \/ UNCHANGED vars
  PROVE  TypeOK' /\ QueueInv' /\ Quiet
<1> USE DEF world, ledger, memory
<1>1. TypeOK /\ HolderHead
  BY DEF IInv, QueueInv
<1>2. CASE RemoveLock
  <2>1. HolderHead'
    BY <1>2 DEF RemoveLock, HolderHead
  <2> QED
    BY <1>1, <1>2, <2>1, ClockQuiet DEF RemoveLock, TypeOK
<1>3. CASE Midnight
  <2>1. HolderHead'
    BY <1>1, <1>3 DEF Midnight, HolderHead
  <2>2. day' \in Days
    BY <1>1, <1>3, FaultBound DEF Midnight, TypeOK, Days
  <2> QED
    BY <1>1, <1>3, <2>1, <2>2, ClockQuiet DEF Midnight, TypeOK
<1>4. CASE UNCHANGED vars
  <2>1. HolderHead'
    BY <1>1, <1>4 DEF vars, HolderHead
  <2> QED
    BY <1>1, <1>4, <2>1, ClockQuiet DEF vars, TypeOK
<1> QED
  BY <1>2, <1>3, <1>4

LEMMA InvInit == Init => IInv
<1> SUFFICES ASSUME Init PROVE IInv
  OBVIOUS
<1> USE DEF Init
<1>1. \A p \in Procs : queue[p] = <<>> /\ at[p] = "wait" /\ live[p] = {}
  OBVIOUS
<1>2. \A c \in Calls : pc[c] = "idle"
  OBVIOUS
<1>3. TypeOK
  <2>1. plan.faults \in Nat /\ plan.midnights \in Nat
    BY SpendAssumption
  <2>2. \A p \in Procs : Len(queue[p]) <= MaxWaiting
    <3>1. Len(<<>>) = 0
      OBVIOUS
    <3> QED
      BY <1>1, <3>1, Numbers
  <2>3. \A p \in Procs : Cardinality(live[p]) <= MaxLive
    BY <1>1, FS_EmptySet, Numbers
  <2>4. queue \in [Procs -> Seq(Calls)] /\ live \in [Procs -> SUBSET Calls]
    OBVIOUS
  <2>5. day \in Days /\ stamp \in [Procs -> Days] /\ faults \in 0..plan.faults
    BY <2>1 DEF Days
  <2>6. pc \in [Calls -> Places]
    BY DEF Places
  <2> QED
    BY <2>2, <2>3, <2>4, <2>5, <2>6 DEF TypeOK
<1>4. QueueInv
  BY <1>1 DEF QueueInv, QueueOwned, QueueDistinct, HolderHead
<1>5. LiveOwned
  BY <1>1, FS_EmptySet DEF LiveOwned
<1>6. LogInv
  BY <1>2 DEF LogInv, OutstandingAdmitted, SettlementsTrue, UsageTrue, Outstanding, Recorded
<1>7. DecisionStands
  BY <1>1 DEF DecisionStands
<1>8. OneSpender
  BY <1>2, <1>3, SpendAssumption DEF OneSpender, Outstanding, capped, TypeOK
<1> QED
  BY <1>3, <1>4, <1>5, <1>6, <1>7, <1>8 DEF IInv

LEMMA InvNext == IInv /\ [Next]_vars => IInv'
<1> SUFFICES ASSUME IInv, [Next]_vars PROVE IInv'
  OBVIOUS
<1>1. ASSUME TypeOK', QueueInv', Quiet PROVE IInv'
  BY <1>1, QuietKeeps DEF IInv
<1>2. ASSUME NEW p \in Procs, Step(p) \/ AbortWaiting(p) \/ Crash(p) PROVE IInv'
  <2>1. CASE Read(p)
    BY <2>1, ReadKeeps
  <2>2. CASE Write(p) /\ pc[Head(queue[p])] = "admitting"
    BY <2>2, AdmissionKeeps
  <2>3. CASE Crash(p)
    BY <1>1, <2>3, CrashQuiet
  <2>4. CASE \/ Acquire(p) \/ GiveUp(p) \/ Refuse(p) \/ WriteFails(p) \/ AbortWaiting(p)
             \/ Write(p) /\ pc[Head(queue[p])] # "admitting"
    BY <1>1, <2>4, QueueStepsQuiet
  <2> QED
    BY <1>2, <2>1, <2>2, <2>3, <2>4 DEF Step
<1>3. ASSUME NEW c \in Calls, Ask(c) \/ MarkGap(c) \/ EndStream(c) PROVE IInv'
  BY <1>1, <1>3, CallStepsQuiet
<1>4. CASE RemoveLock \/ Midnight \/ UNCHANGED vars
  BY <1>1, <1>4, ClockStepsQuiet
<1> QED
  BY <1>2, <1>3, <1>4 DEF Next, Settled

(* The decision to admit a capped call finds no recorded call lost.             *)
LEMMA PassNothingLost ==
  ASSUME IInv, [Next]_vars, NEW p \in Procs, Passes(p), Head(queue[p]) \in capped
  PROVE  NothingLost(p)
<1>1. at[p] = "read" /\ at'[p] = "write" /\ pc[Head(queue[p])] = "admitting" /\ TypeOK
  BY DEF Passes, IInv
<1>2. CASE Read(p)
  BY <1>1, <1>2, GateFindsNothingLost DEF Read, Allowed
<1>3. ASSUME NEW q \in Procs, Step(q) \/ AbortWaiting(q) \/ Crash(q) PROVE q = p /\ Read(p)
  <2>1. CASE Acquire(q)
    BY <1>1, <2>1 DEF Acquire, TypeOK
  <2>2. CASE GiveUp(q) \/ Refuse(q) \/ Write(q) \/ WriteFails(q) \/ AbortWaiting(q)
    <3>1. Leave(q)
      BY <2>2 DEF GiveUp, Refuse, Write, WriteFails, AbortWaiting
    <3> QED
      BY <1>1, <3>1 DEF Leave, TypeOK
  <2>3. CASE Crash(q)
    BY <1>1, <2>3 DEF Crash, TypeOK
  <2>4. CASE Read(q)
    BY <1>1, <2>4 DEF Read, TypeOK
  <2> QED
    BY <1>3, <2>1, <2>2, <2>3, <2>4 DEF Step
<1>4. ASSUME NEW c \in Calls, Ask(c) \/ MarkGap(c) \/ EndStream(c) PROVE FALSE
  BY <1>1, <1>4 DEF Ask, MarkGap, EndStream, Request
<1>5. CASE RemoveLock \/ Midnight \/ UNCHANGED vars
  BY <1>1, <1>5 DEF RemoveLock, Midnight, vars, memory
<1> QED
  BY <1>2, <1>3, <1>4, <1>5 DEF Next, Settled
-----------------------------------------------------------------------------
(* The sums of the ledger, as numbers of units: what is summed is a natural     *)
(* number f[x] for each x of a finite set S, and Units(f, S) has one element    *)
(* for each unit of it. The number of units of every subset of S obeys the      *)
(* equation of MapThenSumSet, and by the least subset where another function    *)
(* would differ it is the only one that does.                                   *)
Units(f, S) == UNION {{x} \X (1..f[x]) : x \in S}
Summing(f, S, iter) ==
  iter = [s \in SUBSET S |-> IF s = {} THEN 0
            ELSE f[CHOOSE x \in s : TRUE] + iter[s \ {CHOOSE x \in s : TRUE}]]
UnitSums(f, S) == [s \in SUBSET S |-> Cardinality(Units(f, s))]
Short(f, S, iter) == {s \in SUBSET S : iter[s] # Cardinality(Units(f, s))}

LEMMA Least ==
  ASSUME NEW T \in SUBSET Nat, T # {}
  PROVE  \E m \in T : \A k \in T : m <= k
<1> DEFINE R == OpToRel(<, Nat)
<1>1. IsWellFoundedOn(R, Nat)
  BY NatLessThanWellFounded
<1>2. \A x, y \in Nat : x < y => <<x, y>> \in R
  BY DEF OpToRel
<1> HIDE DEF R
<1>3. PICK x \in T : \A y \in T : ~ (<<y, x>> \in R)
  BY <1>1, WFMin
<1>4. ASSUME NEW k \in T PROVE x <= k
  <2>1. k \in Nat /\ x \in Nat
    OBVIOUS
  <2>2. ~(k < x)
    BY <1>2, <1>3, <2>1
  <2> QED
    BY <2>1, <2>2
<1> QED
  BY <1>4

LEMMA UnitsFinite ==
  ASSUME NEW S, IsFiniteSet(S), NEW f, \A x \in S : f[x] \in Nat
  PROVE  IsFiniteSet(Units(f, S)) /\ Cardinality(Units(f, S)) \in Nat
<1> DEFINE T == {{x} \X (1..f[x]) : x \in S}
<1>1. IsFiniteSet(T)
  <2> DEFINE g == [x \in S |-> {x} \X (1..f[x])]
  <2>1. g \in Surjection(S, T)
    BY DEF Surjection
  <2> QED
    BY <2>1, FS_Surjection
<1>2. ASSUME NEW x \in S PROVE IsFiniteSet({x} \X (1..f[x]))
  <2>1. 1 \in Int /\ f[x] \in Int
    OBVIOUS
  <2>2. IsFiniteSet({x}) /\ IsFiniteSet(1..f[x])
    BY <2>1, FS_Singleton, FS_Interval
  <2> QED
    BY <2>2, FS_Product
<1>3. IsFiniteSet(UNION T)
  <2>1. \A t \in T : IsFiniteSet(t)
    BY <1>2
  <2> QED
    BY <1>1, <2>1, FS_UNION
<1> QED
  BY <1>3, FS_CardinalityType DEF Units

LEMMA UnitsSplit ==
  ASSUME NEW S, IsFiniteSet(S), NEW f, \A x \in S : f[x] \in Nat, NEW y \in S
  PROVE  Cardinality(Units(f, S)) = f[y] + Cardinality(Units(f, S \ {y}))
<1> DEFINE own == {y} \X (1..f[y])
           rest == Units(f, S \ {y})
<1>1. Units(f, S) = own \cup rest /\ own \cap rest = {}
  BY DEF Units
<1>2. IsFiniteSet(own) /\ Cardinality(own) = f[y]
  <2> DEFINE some == {y}
             each == 1..f[y]
  <2>1. f[y] \in Nat /\ 1 \in Int /\ f[y] \in Int
    OBVIOUS
  <2>2. IsFiniteSet(each) /\ Cardinality(each) = f[y]
    <3> DEFINE n == f[y]
    <3>1. n \in Nat /\ 1 \in Int /\ n \in Int
      BY <2>1
    <3> HIDE DEF n
    <3>2. IsFiniteSet(1..n) /\ Cardinality(1..n) = IF 1 > n THEN 0 ELSE n - 1 + 1
      BY <3>1, FS_Interval
    <3>3. Cardinality(1..n) = n
      BY <3>1, <3>2
    <3> QED
      BY <3>2, <3>3 DEF n
  <2>3. IsFiniteSet(some) /\ Cardinality(some) = 1
    BY FS_Singleton
  <2>4. IsFiniteSet(own) /\ Cardinality(own) = 1 * f[y]
    <3>1. own = some \X each
      OBVIOUS
    <3> HIDE DEF own, some, each
    <3> QED
      BY <2>2, <2>3, <3>1, FS_Product
  <2> QED
    BY <2>1, <2>4
<1>3. IsFiniteSet(rest) /\ Cardinality(rest) \in Nat
  <2>1. IsFiniteSet(S \ {y})
    BY FS_RemoveElement
  <2> QED
    BY <2>1, UnitsFinite
<1>4. Cardinality(own \cap rest) = 0
  BY <1>1, FS_EmptySet
<1>5. f[y] \in Nat
  OBVIOUS
<1> HIDE DEF own, rest
<1>6. Cardinality(own \cup rest) = Cardinality(own) + Cardinality(rest) - Cardinality(own \cap rest)
  BY <1>2, <1>3, FS_Union
<1>7. Cardinality(Units(f, S)) = f[y] + Cardinality(rest)
  BY <1>1, <1>2, <1>3, <1>4, <1>5, <1>6
<1> QED
  BY <1>7 DEF rest

(* A function that obeys the equation counts the units.                        *)
LEMMA SumUnique ==
  ASSUME NEW S, IsFiniteSet(S), NEW f, \A x \in S : f[x] \in Nat, NEW iter,
         Summing(f, S, iter)
  PROVE  iter[S] = Cardinality(Units(f, S))
<1> DEFINE Bad == {Cardinality(s) : s \in Short(f, S, iter)}
<1>1. ASSUME NEW s \in SUBSET S PROVE IsFiniteSet(s) /\ Cardinality(s) \in Nat
  BY FS_Subset, FS_CardinalityType
<1> SUFFICES ASSUME Bad # {} PROVE FALSE
  <2>1. ASSUME iter[S] # Cardinality(Units(f, S)) PROVE Cardinality(S) \in Bad
    BY <2>1 DEF Short
  <2> QED
    BY <2>1
<1>2. Bad \subseteq Nat
  BY <1>1 DEF Short
<1>3. PICK n \in Bad : \A m \in Bad : n <= m
  BY <1>2, Least
<1>4. PICK s \in Short(f, S, iter) : Cardinality(s) = n
  OBVIOUS
<1>5. s \in SUBSET S /\ IsFiniteSet(s) /\ iter[s] # Cardinality(Units(f, s))
  BY <1>1 DEF Short
<1>6. s # {}
  <2> SUFFICES ASSUME s = {} PROVE FALSE
    OBVIOUS
  <2>1. Units(f, s) = {} /\ iter[s] = 0
    BY <1>5 DEF Units, Summing
  <2> QED
    BY <1>5, <2>1, FS_EmptySet
<1> DEFINE y == CHOOSE x \in s : TRUE
           t == s \ {y}
<1>7. y \in s
  BY <1>6
<1>8. iter[s] = f[y] + iter[t] /\ t \in SUBSET S
  BY <1>5, <1>6 DEF Summing
<1>9. Cardinality(t) = n - 1 /\ n \in Nat
  BY <1>1, <1>4, <1>5, <1>7, FS_RemoveElement
<1> HIDE DEF y
<1>10. t \notin Short(f, S, iter)
  <2> SUFFICES ASSUME t \in Short(f, S, iter) PROVE FALSE
    OBVIOUS
  <2>1. Cardinality(t) \in Bad
    OBVIOUS
  <2>2. n <= Cardinality(t)
    BY <1>3, <2>1
  <2> HIDE DEF t
  <2> QED
    BY <1>9, <2>2
<1>11. iter[t] = Cardinality(Units(f, t))
  BY <1>8, <1>10 DEF Short
<1>12. Cardinality(Units(f, s)) = f[y] + Cardinality(Units(f, t))
  BY <1>5, <1>7, UnitsSplit
<1> QED
  BY <1>5, <1>8, <1>11, <1>12

(* There is such a function, and so MapThenSumSet is one.                       *)
LEMMA SumExists ==
  ASSUME NEW S, IsFiniteSet(S), NEW f, \A x \in S : f[x] \in Nat
  PROVE  Summing(f, S, UnitSums(f, S))
<1> SUFFICES ASSUME NEW s \in SUBSET S
             PROVE  Cardinality(Units(f, s)) = IF s = {} THEN 0
               ELSE f[CHOOSE x \in s : TRUE] + Cardinality(Units(f, s \ {CHOOSE x \in s : TRUE}))
  BY DEF Summing, UnitSums
<1>1. CASE s = {}
  BY <1>1, FS_EmptySet DEF Units
<1>2. CASE s # {}
  <2> DEFINE y == CHOOSE x \in s : TRUE
  <2>1. y \in s
    BY <1>2
  <2>2. IsFiniteSet(s) /\ \A x \in s : f[x] \in Nat
    BY FS_Subset
  <2> HIDE DEF y
  <2>3. Cardinality(Units(f, s)) = f[y] + Cardinality(Units(f, s \ {y}))
    BY <2>1, <2>2, UnitsSplit
  <2> QED
    BY <1>2, <2>3 DEF y
<1> QED
  BY <1>1, <1>2

(* The two sums of the ledger, the one of the property and the one of the gate. *)
Charges == [c \in Calls |-> Charged(c)]
Counts == [r \in log |-> Counted(r.call)]
AdmittedOn(d) == {r \in Recorded("admit") : r.day = d}

LEMMA ChargedUnits ==
  ASSUME NEW S \in SUBSET Calls, IsFiniteSet(S), \A c \in S : Charges[c] \in Nat
  PROVE  MapThenSumSet(Charged, S) = Cardinality(Units(Charges, S))
<1> DEFINE step(g) == [s \in SUBSET S |-> IF s = {} THEN 0
              ELSE Charged(CHOOSE x \in s : TRUE) + g[s \ {CHOOSE x \in s : TRUE}]]
           iter == CHOOSE g : g = step(g)
<1>1. MapThenSumSet(Charged, S) = iter[S]
  BY DEF MapThenSumSet, MapThenFoldSet
<1>2. ASSUME NEW g PROVE Summing(Charges, S, g) <=> g = step(g)
  <2> DEFINE mine(s) == IF s = {} THEN 0
                         ELSE Charged(CHOOSE x \in s : TRUE) + g[s \ {CHOOSE x \in s : TRUE}]
             its(s) == IF s = {} THEN 0
                       ELSE Charges[CHOOSE x \in s : TRUE] + g[s \ {CHOOSE x \in s : TRUE}]
  <2>1. ASSUME NEW s \in SUBSET S PROVE mine(s) = its(s)
    <3>1. CASE s = {}
      BY <3>1
    <3>2. CASE s # {}
      <4>1. Charged(CHOOSE x \in s : TRUE) = Charges[CHOOSE x \in s : TRUE]
        BY <3>2 DEF Charges
      <4> QED
        BY <3>2, <4>1
    <3> QED
      BY <3>1, <3>2
  <2>2. step(g) = [s \in SUBSET S |-> mine(s)]
    OBVIOUS
  <2>3. Summing(Charges, S, g) <=> g = [s \in SUBSET S |-> its(s)]
    BY DEF Summing
  <2> HIDE DEF mine, its, step
  <2>4. [s \in SUBSET S |-> mine(s)] = [s \in SUBSET S |-> its(s)]
    BY <2>1
  <2> QED
    BY <2>2, <2>3, <2>4
<1>3. Summing(Charges, S, UnitSums(Charges, S))
  BY SumExists
<1>4. Summing(Charges, S, iter)
  <2> HIDE DEF step
  <2>1. iter = step(iter)
    BY <1>2, <1>3
  <2> QED
    BY <1>2, <2>1
<1> HIDE DEF iter
<1>5. iter[S] = Cardinality(Units(Charges, S))
  BY <1>4, SumUnique
<1> QED
  BY <1>1, <1>5

LEMMA CountedUnits ==
  ASSUME NEW S \in SUBSET log, IsFiniteSet(S), \A r \in S : Counts[r] \in Nat
  PROVE  MapThenSumSet(LAMBDA r : Counted(r.call), S) = Cardinality(Units(Counts, S))
<1> DEFINE step(g) == [s \in SUBSET S |-> IF s = {} THEN 0
              ELSE Counted((CHOOSE x \in s : TRUE).call) + g[s \ {CHOOSE x \in s : TRUE}]]
           iter == CHOOSE g : g = step(g)
<1>1. MapThenSumSet(LAMBDA r : Counted(r.call), S) = iter[S]
  BY DEF MapThenSumSet, MapThenFoldSet
<1>2. ASSUME NEW g PROVE Summing(Counts, S, g) <=> g = step(g)
  <2> DEFINE mine(s) == IF s = {} THEN 0
                         ELSE Counted((CHOOSE x \in s : TRUE).call) + g[s \ {CHOOSE x \in s : TRUE}]
             its(s) == IF s = {} THEN 0
                       ELSE Counts[CHOOSE x \in s : TRUE] + g[s \ {CHOOSE x \in s : TRUE}]
  <2>1. ASSUME NEW s \in SUBSET S PROVE mine(s) = its(s)
    <3>1. CASE s = {}
      BY <3>1
    <3>2. CASE s # {}
      <4>1. Counted((CHOOSE x \in s : TRUE).call) = Counts[CHOOSE x \in s : TRUE]
        BY <3>2 DEF Counts
      <4> QED
        BY <3>2, <4>1
    <3> QED
      BY <3>1, <3>2
  <2>2. step(g) = [s \in SUBSET S |-> mine(s)]
    OBVIOUS
  <2>3. Summing(Counts, S, g) <=> g = [s \in SUBSET S |-> its(s)]
    BY DEF Summing
  <2> HIDE DEF mine, its, step
  <2>4. [s \in SUBSET S |-> mine(s)] = [s \in SUBSET S |-> its(s)]
    BY <2>1
  <2> QED
    BY <2>2, <2>3, <2>4
<1>3. Summing(Counts, S, UnitSums(Counts, S))
  BY SumExists
<1>4. Summing(Counts, S, iter)
  <2> HIDE DEF step
  <2>1. iter = step(iter)
    BY <1>2, <1>3
  <2> QED
    BY <1>2, <2>1
<1> HIDE DEF iter
<1>5. iter[S] = Cardinality(Units(Counts, S))
  BY <1>4, SumUnique
<1> QED
  BY <1>1, <1>5

(* Units that map one to one to larger amounts are no more.                     *)
LEMMA UnitsBound ==
  ASSUME NEW S, NEW T, IsFiniteSet(T), NEW f, NEW g, NEW m \in Injection(S, T),
         \A x \in S : f[x] \in Nat /\ f[x] <= g[m[x]], \A y \in T : g[y] \in Nat
  PROVE  /\ IsFiniteSet(S)
         /\ Cardinality(Units(f, S)) \in Nat /\ Cardinality(Units(g, T)) \in Nat
         /\ Cardinality(Units(f, S)) <= Cardinality(Units(g, T))
<1> DEFINE A == Units(f, S)
           B == Units(g, T)
           moved == [u \in A |-> <<m[u[1]], u[2]>>]
<1>1. IsFiniteSet(S)
  BY FS_Injection
<1>2. IsFiniteSet(A) /\ IsFiniteSet(B) /\ Cardinality(A) \in Nat /\ Cardinality(B) \in Nat
  BY <1>1, UnitsFinite
<1>3. m \in [S -> T] /\ \A x, y \in S : m[x] = m[y] => x = y
  BY DEF Injection, IsInjective
<1>4. ASSUME NEW u \in A
      PROVE  u[1] \in S /\ u[2] \in 1..f[u[1]] /\ u = <<u[1], u[2]>>
  BY DEF Units
<1>5. ASSUME NEW u \in A PROVE moved[u] \in B
  <2>1. u[1] \in S /\ u[2] \in 1..f[u[1]]
    BY <1>4
  <2>2. m[u[1]] \in T /\ f[u[1]] \in Nat /\ f[u[1]] <= g[m[u[1]]] /\ g[m[u[1]]] \in Nat
    BY <1>3, <2>1
  <2>3. u[2] \in 1..g[m[u[1]]]
    BY <2>1, <2>2
  <2> QED
    BY <2>2, <2>3 DEF Units
<1>6. ASSUME NEW u \in A, NEW v \in A, moved[u] = moved[v] PROVE u = v
  <2>1. m[u[1]] = m[v[1]] /\ u[2] = v[2]
    BY <1>6
  <2>2. u[1] \in S /\ u = <<u[1], u[2]>> /\ v[1] \in S /\ v = <<v[1], v[2]>>
    BY <1>4
  <2>3. u[1] = v[1]
    BY <1>3, <2>1, <2>2
  <2> QED
    BY <2>1, <2>2, <2>3
<1>7. moved \in Injection(A, B)
  <2> HIDE DEF A, B
  <2>1. moved \in [A -> B]
    BY <1>5
  <2>2. \A u, v \in A : moved[u] = moved[v] => u = v
    BY <1>6
  <2> HIDE DEF moved
  <2> QED
    BY <2>1, <2>2 DEF Injection, IsInjective
<1> HIDE DEF A, B, moved
<1>8. Cardinality(A) <= Cardinality(B)
  BY <1>2, <1>7, FS_Injection
<1> QED
  BY <1>1, <1>2, <1>8 DEF A, B
-----------------------------------------------------------------------------
(* The log is finite, a call that was charged has its admission in it, what     *)
(* admit() found below the cap is still so when it appends; and the property,   *)
(* told in units.                                                               *)
ChargedAdmitted == \A c \in Calls : billed[c] # 0 => Admitted(c)
GateStands ==
  \A p \in Procs :
    Deciding(p) /\ Head(queue[p]) \in capped =>
      Cardinality(Units(Counts, AdmittedOn(stamp[p]))) + Reserve <= Cap
ChargesWithin ==
  \A d \in Days : IsFiniteSet(OnDay(d)) /\ Cardinality(Units(Charges, OnDay(d))) <= Cap
CapInv == IsFiniteSet(log) /\ ChargedAdmitted /\ GateStands /\ ChargesWithin

LEMMA BillsNat == \A x \in Bills \cup {0} : x \in Nat
<1>1. \A x \in Bills : x \in Nat
  BY SpendAssumption
<1> QED
  BY <1>1

LEMMA Amounts ==
  ASSUME TypeOK
  PROVE  /\ Reserve \in Nat \ {0} /\ Cap \in Nat \ {0}
         /\ \A c \in Calls : Charges[c] \in Nat /\ Charges[c] <= Reserve /\ billed[c] \in Nat
         /\ \A r \in log : Counts[r] \in Nat
<1>1. Reserve \in Nat \ {0} /\ Cap \in Nat \ {0} /\ Bills \subseteq Nat
  BY SpendAssumption
<1>2. ASSUME NEW c \in Calls PROVE Charges[c] \in Nat /\ Charges[c] <= Reserve /\ billed[c] \in Nat
  <2>1. billed[c] \in Bills \cup {0}
    BY DEF TypeOK
  <2>2. billed[c] \in Nat
    BY <2>1, BillsNat
  <2> QED
    BY <1>1, <2>2 DEF Charges, Charged
<1>3. ASSUME NEW r \in log PROVE Counts[r] \in Nat
  <2>1. \A s \in log : s.cost \in Bills \cup {Unknown}
    BY DEF TypeOK, Lines
  <2>2. \A x \in Priced(r.call) : x \in Nat
    BY <1>1, <2>1 DEF Priced, Recorded
  <2> QED
    BY <1>1, <2>2 DEF Counts, Counted
<1> QED
  BY <1>1, <1>2, <1>3

(* The gate counts no recorded call below what it was charged: a price that was *)
(* recorded is what was charged.                                                *)
LEMMA ChargedCounted ==
  ASSUME IInv, NEW r \in log, r.call \in Calls
  PROVE  Charges[r.call] <= Counts[r]
<1>1. TypeOK
  BY DEF IInv
<1>2. Charges[r.call] <= Reserve /\ billed[r.call] \in Nat /\ Reserve \in Nat
  BY <1>1, Amounts
<1>3. \A x \in Priced(r.call) : x = billed[r.call]
  BY DEF IInv, LogInv, SettlementsTrue, Priced
<1>4. CASE Priced(r.call) = {}
  BY <1>2, <1>4 DEF Counts, Counted
<1>5. CASE Priced(r.call) # {}
  <2>1. Counts[r] = billed[r.call]
    BY <1>3, <1>5 DEF Counts, Counted
  <2> QED
    BY <1>2, <2>1 DEF Charges, Charged
<1> QED
  BY <1>4, <1>5

(* Nobody spends while nothing is admitted: the charges are the same, and there *)
(* may be fewer calls of a day.                                                 *)
LEMMA SpendingKept ==
  ASSUME IInv, CapInv, Quiet, IsFiniteSet(log'),
         \A p \in Procs : Deciding(p)' => log' = log /\ stamp'[p] = stamp[p]
  PROVE  CapInv'
<1>1. /\ UNCHANGED <<plan, billed>> /\ log \subseteq log'
      /\ \A p \in Procs : Deciding(p)' => Deciding(p) /\ Head(queue'[p]) = Head(queue[p])
  BY DEF Quiet
<1>2. Charges' = Charges /\ capped' = capped /\ Days' = Days
  BY <1>1 DEF Charges, Charged, capped, Days
<1>3. ChargedAdmitted'
  BY <1>1 DEF CapInv, ChargedAdmitted, Admitted, Recorded
<1>4. GateStands'
  <2> SUFFICES ASSUME NEW p \in Procs, Deciding(p)', Head(queue'[p]) \in capped
               PROVE  Cardinality(Units(Counts', AdmittedOn(stamp[p])')) + Reserve <= Cap
    BY <1>2 DEF GateStands
  <2>1. log' = log /\ stamp'[p] = stamp[p] /\ Deciding(p) /\ Head(queue[p]) \in capped
    BY <1>1
  <2>2. Counts' = Counts /\ AdmittedOn(stamp[p])' = AdmittedOn(stamp[p])
    BY <2>1 DEF Counts, Counted, Priced, Recorded, AdmittedOn
  <2> QED
    BY <2>1, <2>2 DEF CapInv, GateStands
<1>5. ChargesWithin'
  <2> SUFFICES ASSUME NEW d \in Days
               PROVE  IsFiniteSet(OnDay(d)') /\ Cardinality(Units(Charges, OnDay(d)')) <= Cap
    BY <1>2 DEF ChargesWithin
  <2> DEFINE old == OnDay(d)
             new == OnDay(d)'
             same == [c \in new |-> c]
  <2>1. new \subseteq old /\ old \subseteq Calls
    BY <1>1, <1>2, SpendAssumption DEF OnDay, Recorded, capped, IInv, TypeOK
  <2>2. IsFiniteSet(old) /\ Cardinality(Units(Charges, old)) <= Cap
    BY DEF CapInv, ChargesWithin
  <2>3. \A c \in old : Charges[c] \in Nat
    BY <2>1, Amounts DEF IInv
  <2> HIDE DEF old, new
  <2>4. same \in Injection(new, old)
    BY <2>1 DEF Injection, IsInjective
  <2>5. \A c \in new : Charges[c] \in Nat /\ Charges[c] <= Charges[same[c]]
    BY <2>1, <2>3
  <2>6. Cap \in Nat
    BY SpendAssumption
  <2> HIDE DEF same
  <2>7. /\ IsFiniteSet(new)
        /\ Cardinality(Units(Charges, new)) \in Nat /\ Cardinality(Units(Charges, old)) \in Nat
        /\ Cardinality(Units(Charges, new)) <= Cardinality(Units(Charges, old))
    BY <2>2, <2>3, <2>4, <2>5, UnitsBound
  <2> QED
    BY <2>2, <2>6, <2>7 DEF new
<1> QED
  BY <1>3, <1>4, <1>5 DEF CapInv

(* The decision to admit a capped call leaves room for its reservation.         *)
LEMMA SpendingDecided ==
  ASSUME IInv, CapInv, NEW p \in Procs, Read(p)
  PROVE  CapInv'
<1>1. TypeOK /\ QueueInv /\ at[p] = "read" /\ queue[p] # <<>> /\ lock = p
  BY DEF IInv, Read, QueueInv, HolderHead
<1>2. /\ UNCHANGED <<plan, log, torn, lock, queue, live, pc, billed, usage, day, faults>>
      /\ at' = [at EXCEPT ![p] = "write"] /\ stamp' = [stamp EXCEPT ![p] = day]
  BY DEF Read, world, ledger
<1>3. /\ Charges' = Charges /\ Counts' = Counts /\ capped' = capped /\ Days' = Days
      /\ \A d : OnDay(d)' = OnDay(d) /\ AdmittedOn(d)' = AdmittedOn(d)
  BY <1>2 DEF Charges, Charged, Counts, Counted, Priced, Recorded, capped, Days, OnDay, AdmittedOn
<1>4. ChargedAdmitted' /\ ChargesWithin'
  BY <1>2, <1>3 DEF CapInv, ChargedAdmitted, Admitted, Recorded, ChargesWithin
<1>5. ASSUME NEW q \in Procs, Deciding(q)', Head(queue[q]) \in capped
      PROVE  Cardinality(Units(Counts, AdmittedOn(stamp'[q]))) + Reserve <= Cap
  <2>1. q = p
    BY <1>1, <1>2, <1>5 DEF Deciding, QueueInv, HolderHead, TypeOK
  <2>2. stamp'[q] = day /\ pc[Head(queue[p])] = "admitting"
    BY <1>1, <1>2, <1>5, <2>1 DEF Deciding, TypeOK
  <2>3. Total(day) + Reserve <= Cap
    BY <1>5, <2>1, <2>2 DEF Read, Allowed, MayReserve
  <2>4. AdmittedOn(day) \in SUBSET log /\ IsFiniteSet(AdmittedOn(day))
    BY FS_Subset DEF AdmittedOn, Recorded, CapInv
  <2>5. \A r \in AdmittedOn(day) : Counts[r] \in Nat
    BY <1>1, <2>4, Amounts
  <2>6. Total(day) = Cardinality(Units(Counts, AdmittedOn(day)))
    BY <2>4, <2>5, CountedUnits DEF Total, AdmittedOn
  <2> QED
    BY <2>2, <2>3, <2>6
<1>6. GateStands'
  BY <1>2, <1>3, <1>5 DEF GateStands
<1> QED
  BY <1>2, <1>4, <1>6 DEF CapInv

(* An admission adds at most its reservation to what the gate counted on its    *)
(* day; on another day there are no new charges.                                *)
LEMMA SpendingAdmitted ==
  ASSUME IInv, CapInv, NEW p \in Procs, Write(p), pc[Head(queue[p])] = "admitting", TypeOK'
  PROVE  CapInv'
<1> DEFINE h == Head(queue[p])
           s == stamp[p]
           line == Admission(h, s)
<1>1. TypeOK /\ QueueInv /\ at[p] = "write" /\ queue[p] # <<>> /\ lock = p
  BY DEF IInv, Write, QueueInv, HolderHead
<1>2. h \in Calls /\ owner[h] = p
  BY <1>1, HeadFacts
<1>3. /\ UNCHANGED plan /\ Leave(p) /\ log' = log \cup {line}
      /\ \E x \in Bills : billed' = [billed EXCEPT ![h] = x]
  BY DEF Write, Place, Line, world
<1>4. /\ line \in Recorded("admit")' /\ line.call = h /\ line.day = s
      /\ \A c \in Calls \ {h} : billed'[c] = billed[c] /\ Charges'[c] = Charges[c]
      /\ capped' = capped /\ Days' = Days /\ capped \subseteq Calls
  <2>1. \A c \in Calls \ {h} : billed'[c] = billed[c]
    BY <1>1, <1>2, <1>3 DEF TypeOK
  <2> QED
    BY <1>1, <1>3, <2>1, SpendAssumption
       DEF Recorded, Admission, Charges, Charged, capped, Days, TypeOK
<1>5. IsFiniteSet(log')
  BY <1>3, FS_AddElement DEF CapInv
<1>6. ChargedAdmitted'
  <2> SUFFICES ASSUME NEW c \in Calls, billed'[c] # 0 PROVE Admitted(c)'
    BY DEF ChargedAdmitted
  <2>1. CASE c = h
    BY <1>4, <2>1 DEF Admitted
  <2>2. CASE c # h
    <3>1. Admitted(c)
      BY <1>4, <2>2 DEF CapInv, ChargedAdmitted
    <3> QED
      BY <1>3, <3>1 DEF Admitted, Recorded
  <2> QED
    BY <2>1, <2>2
<1>7. GateStands'
  <2>1. \A q \in Procs : at'[q] = "wait"
    BY <1>1, <1>3 DEF QueueInv, HolderHead, Leave, TypeOK
  <2> QED
    BY <2>1 DEF GateStands, Deciding
<1>8. /\ Reserve \in Nat \ {0} /\ Cap \in Nat \ {0}
      /\ \A c \in Calls : /\ Charges[c] \in Nat
                          /\ Charges'[c] \in Nat /\ Charges'[c] <= Reserve
      /\ \A r \in log : Counts[r] \in Nat
  <2>1. \A c \in Calls : Charges'[c] \in Nat /\ Charges'[c] <= Reserve
    <3> SUFFICES ASSUME NEW c \in Calls
                 PROVE  Charges'[c] \in Nat /\ Charges'[c] <= Reserve
      OBVIOUS
    <3>1. billed'[c] \in Bills \cup {0} /\ Reserve \in Nat
      BY SpendAssumption DEF TypeOK
    <3>2. billed'[c] \in Nat
      BY <3>1, BillsNat
    <3> QED
      BY <3>1, <3>2 DEF Charges, Charged
  <2> QED
    BY <1>1, <2>1, Amounts
<1>9. ASSUME NEW d \in Days
      PROVE  IsFiniteSet(OnDay(d)') /\ Cardinality(Units(Charges', OnDay(d)')) <= Cap
  <2> DEFINE new == OnDay(d)'
             others == new \ {h}
  <2>1. new \subseteq Calls
    BY <1>4 DEF OnDay
  <2>2. ASSUME NEW c \in others
        PROVE  /\ c \in OnDay(d) /\ c \in Calls \ {h} /\ Charges'[c] = Charges[c]
               /\ \A r \in Recorded("admit") : r.call = c => r.day = d
    BY <1>3, <1>4, <2>1 DEF OnDay, Recorded
  <2>3. CASE h \notin new
    <3> DEFINE same == [c \in new |-> c]
    <3>1. new \subseteq OnDay(d) /\ \A c \in new : Charges'[c] = Charges[c] /\ c \in Calls
      BY <2>2, <2>3
    <3>2. IsFiniteSet(OnDay(d)) /\ Cardinality(Units(Charges, OnDay(d))) <= Cap
      BY DEF CapInv, ChargesWithin
    <3>3. \A c \in OnDay(d) : Charges[c] \in Nat
      BY <1>4, <1>8 DEF OnDay
    <3> HIDE DEF new
    <3>4. same \in Injection(new, OnDay(d))
      BY <3>1 DEF Injection, IsInjective
    <3>5. \A c \in new : Charges'[c] \in Nat /\ Charges'[c] <= Charges[same[c]]
      BY <1>8, <3>1
    <3> HIDE DEF same
    <3>6. /\ IsFiniteSet(new)
          /\ Cardinality(Units(Charges', new)) \in Nat
          /\ Cardinality(Units(Charges, OnDay(d))) \in Nat
          /\ Cardinality(Units(Charges', new)) <= Cardinality(Units(Charges, OnDay(d)))
      BY <3>2, <3>3, <3>4, <3>5, UnitsBound
    <3> QED
      BY <1>8, <3>2, <3>6 DEF new
  <2>4. CASE h \in new
    <3> DEFINE T == AdmittedOn(d)
               its == [c \in others |-> CHOOSE r \in Recorded("admit") : r.call = c]
    <3>1. d = s /\ h \in capped
      BY <1>4, <2>4 DEF OnDay
    <3>2. Cardinality(Units(Counts, T)) + Reserve <= Cap
      BY <1>1, <3>1 DEF CapInv, GateStands, Deciding
    <3>3. T \subseteq log /\ IsFiniteSet(T) /\ \A r \in T : Counts[r] \in Nat
      BY <1>8, FS_Subset DEF AdmittedOn, Recorded, CapInv
    <3>4. ASSUME NEW c \in others PROVE its[c] \in T /\ its[c].call = c
      <4>1. Admitted(c)
        BY <2>2 DEF OnDay, CapInv, ChargedAdmitted
      <4>2. its[c] \in Recorded("admit") /\ its[c].call = c
        BY <4>1 DEF Admitted
      <4> QED
        BY <2>2, <4>2 DEF AdmittedOn
    <3> HIDE DEF T
    <3>5. its \in Injection(others, T)
      <4> HIDE DEF others
      <4>1. its \in [others -> T]
        BY <3>4
      <4>2. \A c, e \in others : its[c] = its[e] => c = e
        BY <3>4
      <4> HIDE DEF its
      <4> QED
        BY <4>1, <4>2 DEF Injection, IsInjective
    <3>6. ASSUME NEW c \in others PROVE Charges'[c] \in Nat /\ Charges'[c] <= Counts[its[c]]
      <4>1. its[c] \in log /\ its[c].call = c /\ c \in Calls /\ Charges'[c] = Charges[c]
        BY <2>2, <3>3, <3>4
      <4> HIDE DEF its, others
      <4>2. Charges[c] <= Counts[its[c]]
        BY <4>1, ChargedCounted
      <4> QED
        BY <1>8, <4>1, <4>2
    <3> HIDE DEF its, others
    <3>7. /\ IsFiniteSet(others)
          /\ Cardinality(Units(Charges', others)) \in Nat /\ Cardinality(Units(Counts, T)) \in Nat
          /\ Cardinality(Units(Charges', others)) <= Cardinality(Units(Counts, T))
      BY <3>3, <3>5, <3>6, UnitsBound
    <3>8. IsFiniteSet(new)
      <4>1. new = others \cup {h}
        BY <2>4 DEF others
      <4> QED
        BY <3>7, <4>1, FS_AddElement
    <3>9. Cardinality(Units(Charges', new)) = Charges'[h] + Cardinality(Units(Charges', others))
      <4>1. \A c \in new : Charges'[c] \in Nat
        BY <1>8, <2>1
      <4> HIDE DEF new
      <4> QED
        BY <2>4, <3>8, <4>1, UnitsSplit DEF others
    <3> HIDE DEF new
    <3>10. Charges'[h] \in Nat /\ Charges'[h] <= Reserve /\ Reserve \in Nat /\ Cap \in Nat
      BY <1>2, <1>8
    <3> QED
      BY <3>2, <3>7, <3>8, <3>9, <3>10 DEF new
  <2> QED
    BY <2>3, <2>4
<1>10. ChargesWithin'
  BY <1>4, <1>9 DEF ChargesWithin
<1> QED
  BY <1>5, <1>6, <1>7, <1>10 DEF CapInv

(* Only the process at its append changes the log, and it decides no more.      *)
LEMMA LogHeld ==
  ASSUME IInv, [Next]_vars, NEW q \in Procs, Deciding(q)', at[q] = "write"
  PROVE  log' = log /\ stamp'[q] = stamp[q]
<1>1. TypeOK /\ HolderHead
  BY DEF IInv, QueueInv
<1>2. at[q] = "write" /\ at'[q] = "write"
  BY DEF Deciding
<1>3. ASSUME NEW p \in Procs, Step(p) \/ AbortWaiting(p) \/ Crash(p)
      PROVE  log' = log /\ stamp'[q] = stamp[q]
  <2>1. CASE Write(p) \/ WriteFails(p)
    <3>1. at[p] = "write" /\ at'[p] = "wait"
      BY <1>1, <2>1 DEF Write, WriteFails, Leave, TypeOK
    <3> QED
      BY <1>1, <1>2, <3>1 DEF HolderHead
  <2>2. CASE Read(p)
    <3>1. p # q
      BY <1>2, <2>2 DEF Read
    <3> QED
      BY <1>1, <2>2, <3>1 DEF Read, TypeOK, ledger
  <2>3. CASE Acquire(p) \/ GiveUp(p) \/ Refuse(p) \/ AbortWaiting(p) \/ Crash(p)
    BY <2>3 DEF Acquire, GiveUp, Refuse, AbortWaiting, Crash, Leave, ledger
  <2> QED
    BY <1>3, <2>1, <2>2, <2>3 DEF Step
<1>4. ASSUME NEW c \in Calls, Ask(c) \/ MarkGap(c) \/ EndStream(c)
      PROVE  log' = log /\ stamp'[q] = stamp[q]
  BY <1>4 DEF Ask, MarkGap, EndStream, Request, ledger
<1>5. CASE RemoveLock \/ Midnight \/ UNCHANGED vars
  BY <1>5 DEF RemoveLock, Midnight, vars, ledger, memory
<1> QED
  BY <1>3, <1>4, <1>5 DEF Next, Settled

LEMMA LogGrows ==
  ASSUME IInv, CapInv, [Next]_vars
  PROVE  IsFiniteSet(log')
<1> DEFINE Grows == \E x : log' \subseteq log \cup {x}
<1>1. log' = log => Grows
  OBVIOUS
<1>2. ASSUME NEW p \in Procs, Step(p) \/ AbortWaiting(p) \/ Crash(p) PROVE Grows
  <2>1. log' = log \/ log' = log \cup {Line(p, Head(queue[p]))}
    BY <1>2 DEF Step, Acquire, GiveUp, Read, Refuse, Write, WriteFails, AbortWaiting, Crash, ledger
  <2> QED
    BY <2>1
<1>3. ASSUME NEW c \in Calls, Ask(c) \/ MarkGap(c) \/ EndStream(c) PROVE Grows
  BY <1>1, <1>3 DEF Ask, MarkGap, EndStream, ledger
<1>4. ASSUME RemoveLock \/ Midnight \/ UNCHANGED vars PROVE Grows
  BY <1>1, <1>4 DEF RemoveLock, Midnight, vars, ledger
<1> HIDE DEF Grows
<1>5. Grows
  BY <1>2, <1>3, <1>4 DEF Next, Settled
<1>6. PICK x : log' \subseteq log \cup {x}
  BY <1>5 DEF Grows
<1>7. IsFiniteSet(log \cup {x})
  BY FS_AddElement DEF CapInv
<1> QED
  BY <1>6, <1>7, FS_Subset

LEMMA CapInit == Init => CapInv
<1> SUFFICES ASSUME Init PROVE CapInv
  OBVIOUS
<1>1. log = {} /\ (\A c \in Calls : billed[c] = 0) /\ \A p \in Procs : at[p] = "wait"
  BY DEF Init
<1>2. capped \subseteq Calls /\ Cap \in Nat
  BY SpendAssumption DEF Init, capped
<1>3. ASSUME NEW d \in Days
      PROVE  IsFiniteSet(OnDay(d)) /\ Cardinality(Units(Charges, OnDay(d))) <= Cap
  <2>1. OnDay(d) = {}
    BY <1>1, <1>2 DEF OnDay
  <2>2. Units(Charges, OnDay(d)) = {}
    BY <2>1 DEF Units
  <2> QED
    BY <1>2, <2>1, <2>2, FS_EmptySet
<1> QED
  BY <1>1, <1>3, FS_EmptySet DEF CapInv, ChargedAdmitted, GateStands, Deciding, ChargesWithin

LEMMA CapNext == IInv /\ CapInv /\ [Next]_vars => CapInv'
<1> SUFFICES ASSUME IInv, CapInv, [Next]_vars PROVE CapInv'
  OBVIOUS
<1>1. ASSUME Quiet PROVE CapInv'
  <2>1. ASSUME NEW p \in Procs, Deciding(p)' PROVE log' = log /\ stamp'[p] = stamp[p]
    <3>1. at[p] = "write"
      BY <1>1, <2>1 DEF Quiet, Deciding
    <3> QED
      BY <2>1, <3>1, LogHeld
  <2> QED
    BY <1>1, <2>1, LogGrows, SpendingKept
<1>2. ASSUME NEW p \in Procs, Step(p) \/ AbortWaiting(p) \/ Crash(p) PROVE CapInv'
  <2>1. CASE Read(p)
    BY <2>1, SpendingDecided
  <2>2. CASE Write(p) /\ pc[Head(queue[p])] = "admitting"
    <3>1. TypeOK'
      BY <2>2, AdmissionKeeps DEF IInv
    <3> QED
      BY <2>2, <3>1, SpendingAdmitted
  <2>3. CASE Crash(p)
    BY <1>1, <2>3, CrashQuiet
  <2>4. CASE \/ Acquire(p) \/ GiveUp(p) \/ Refuse(p) \/ WriteFails(p) \/ AbortWaiting(p)
             \/ Write(p) /\ pc[Head(queue[p])] # "admitting"
    BY <1>1, <2>4, QueueStepsQuiet
  <2> QED
    BY <1>2, <2>1, <2>2, <2>3, <2>4 DEF Step
<1>3. ASSUME NEW c \in Calls, Ask(c) \/ MarkGap(c) \/ EndStream(c) PROVE CapInv'
  BY <1>1, <1>3, CallStepsQuiet
<1>4. CASE RemoveLock \/ Midnight \/ UNCHANGED vars
  BY <1>1, <1>4, ClockStepsQuiet
<1> QED
  BY <1>2, <1>3, <1>4 DEF Next, Settled

LEMMA WithinUnits == ASSUME TypeOK, CapInv PROVE WithinCap
<1> SUFFICES ASSUME NEW d \in Days PROVE MapThenSumSet(Charged, OnDay(d)) <= Cap
  BY DEF WithinCap
<1>1. IsFiniteSet(OnDay(d)) /\ Cardinality(Units(Charges, OnDay(d))) <= Cap
  BY DEF CapInv, ChargesWithin
<1>2. OnDay(d) \in SUBSET Calls
  BY SpendAssumption DEF OnDay, capped, TypeOK
<1>3. \A c \in OnDay(d) : Charges[c] \in Nat
  BY <1>2, Amounts
<1> QED
  BY <1>1, <1>2, <1>3, ChargedUnits
-----------------------------------------------------------------------------
(* Whatever the deployment, the invariant that the following theorems rest on.  *)
THEOREM LedgerInvariant == Spec => []IInv
<1> QED
  BY InvInit, InvNext, PTL DEF Spec

(* The variables keep their types: a queue never outgrows MaxWaiting, an object *)
(* never has more than MaxLive live calls (admit(), locked()).                  *)
THEOREM LedgerTypeCorrect == Spec => []TypeOK
<1>1. IInv => TypeOK
  BY DEF IInv
<1> QED
  BY <1>1, LedgerInvariant, PTL

(* Capped calls of two processes are never outstanding together, for any number *)
(* of processes and calls (gate() under the lock).                              *)
THEOREM LedgerOneSpender == Spec => []OneSpender
<1>1. IInv => OneSpender
  BY DEF IInv
<1> QED
  BY <1>1, LedgerInvariant, PTL

(* What the provider charges for the capped calls of one day, each up to its    *)
(* reservation, stays within the cap (gate() and the lock around it).           *)
THEOREM LedgerWithinCap == Spec => []WithinCap
<1>1. IInv /\ CapInv => WithinCap
  BY WithinUnits DEF IInv
<1> QED
  BY <1>1, CapInit, CapNext, LedgerInvariant, PTL DEF Spec

(* No capped call passes the gate once a recorded call was lost (gate(),        *)
(* settle() and the wrapper around each call).                                  *)
THEOREM LedgerLossStops == Spec => LossStopsSpending
<1>1. IInv /\ [Next]_vars =>
        [\A p \in Procs : Passes(p) /\ Head(queue[p]) \in capped => NothingLost(p)]_vars
  BY PassNothingLost
<1> QED
  BY <1>1, LedgerInvariant, PTL DEF Spec, LossStopsSpending
=============================================================================
