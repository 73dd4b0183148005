----------------------- MODULE SupervisorLadder_proof -----------------------
(* Proofs about the supervisor, for every set of incidents, every ladder and   *)
(* cap, and whatever the detectors report: the ladder is climbed in order, an  *)
(* expired question is not put again, and every application has its outcome.   *)
(* One event may show any number of signals, so that the policy's fold needs   *)
(* an induction; it goes over the set of the numbers up to which it holds.     *)
EXTENDS SupervisorLadder, WellFoundedInduction, TLAPS

Decisions == [incident : Incidents, rung : Rungs, does : Rungs, turns : Nat, files : Nat]
Policies == [decided : Seq(Decisions), level : [Types -> Nat],
             lastTurn : [Types -> Nat \cup {Never}], filesAt : [Types -> Nat \cup {Never}]]

(* The policy as the state has it.                                             *)
Now == [decided |-> decided, level |-> level, lastTurn |-> lastTurn, filesAt |-> filesAt]

TypeOK ==
  /\ log \in Seq({"call", "change", "turn", "plan"})
  /\ sess \in {"running", "aborted", "ending", "ended", "settled"}
  /\ obs \in {"read", "prepare", "apply", "ask", "consult", "restore", "returned"}
  /\ pos \in Nat /\ turns \in Nat /\ files \in Nat /\ ladder \in Ladders
  /\ Now \in Policies /\ batch \in Seq(Nat) /\ recorded \subseteq Numbers

TypeAt(p, n) == TypeOf[p.decided[n].incident]

(* What the maps of the policy remember of a type's decisions: the last turn,  *)
(* and the rungs climbed with the files as they were at the last decision.     *)
Remembers(p, t) ==
  /\ p.lastTurn[t] <= turns /\ p.filesAt[t] <= files
  /\ p.level[t] > 0 => p.filesAt[t] # Never
  /\ \A m \in 1..Len(p.decided) : TypeAt(p, m) = t =>
       p.lastTurn[t] # Never /\ p.decided[m].turns <= p.lastTurn[t]
  /\ t \notin Advisory => \A k \in 1..Len(ladder) : k <= p.level[t] =>
       \E m \in 1..Len(p.decided) : /\ TypeAt(p, m) = t /\ p.decided[m].rung = ladder[k]
                                    /\ p.decided[m].files = p.filesAt[t]

(* No rung is listed twice: true of the default ladder and of every part of it.*)
DistinctRungs == \A l \in Ladders : \A i, j \in 1..Len(l) : l[i] = l[j] => i = j

Climbing(p, n) ==
  /\ \A m \in 1..(n - 1) : TypeAt(p, m) = TypeAt(p, n) =>
       p.decided[m].turns + Cooldown <= p.decided[n].turns
  /\ DistinctRungs => \A k \in 2..Len(ladder) : p.decided[n].rung = ladder[k] =>
       \E m \in 1..(n - 1) : /\ TypeAt(p, m) = TypeAt(p, n)
                             /\ p.decided[m].rung = ladder[k - 1]
                             /\ p.decided[m].files = p.decided[n].files

PolicyInv(p) ==
  /\ p \in Policies
  /\ \A t \in Types : Remembers(p, t)
  /\ \A n \in 1..Len(p.decided) : Climbing(p, n)

(* What one event's signals add to the decisions: no two of a type, and no     *)
(* question that expired before.                                               *)
Adds(p) ==
  /\ Len(decided) <= Len(p.decided)
  /\ \A n \in 1..Len(decided) : p.decided[n] = decided[n]
  /\ \A n \in (Len(decided) + 1)..Len(p.decided) :
       /\ p.decided[n].does = "escalate" => p.decided[n].incident \notin expired
       /\ p.lastTurn[TypeAt(p, n)] = turns
  /\ Cooldown > 0 => \A n, m \in (Len(decided) + 1)..Len(p.decided) :
       TypeAt(p, n) = TypeAt(p, m) => n = m

(* The batch is the tail of the decisions; no two of one type are in it.       *)
BatchInv ==
  /\ Len(batch) <= Len(decided)
  /\ \A k \in 1..Len(batch) : batch[k] = Len(decided) - Len(batch) + k
  /\ obs \in {"ask", "consult"} => batch # <<>>
  /\ Cooldown > 0 =>
       /\ \A j, k \in 1..Len(batch) : TypeAt(Now, batch[j]) = TypeAt(Now, batch[k]) => j = k
       /\ \A k \in 1..Len(batch) : decided[batch[k]].does = "escalate" =>
            decided[batch[k]].incident \notin expired

ExpiredInv ==
  \A m \in Numbers : <<m, "expired">> \in outcomes =>
    m \in 1..Len(decided) /\ decided[m].incident \in expired

IInv == TypeOK /\ PolicyInv(Now) /\ BatchInv /\ ExpiredInv /\ OutcomesKnown
-----------------------------------------------------------------------------
LEMMA Parameters ==
  /\ \A i \in Incidents : TypeOf[i] \in Types
  /\ \A l \in Ladders : /\ l \in Seq(Rungs) /\ Len(l) \in Nat \ {0} /\ l[1] = "inject_guidance"
                        /\ \A k \in 1..Len(l) : l[k] \in Rungs
BY LadderAssumption DEF Types

LEMMA Least ==
  ASSUME NEW T \in SUBSET Nat, T # {}
  PROVE  \E m \in T : \A k \in T : m <= k
<1> DEFINE R == OpToRel(<, Nat)
<1>1. IsWellFoundedOn(R, Nat)
  BY NatLessThanWellFounded
<1>2. \A x, y \in Nat : x < y => <<x, y>> \in R
  BY DEF OpToRel
<1> HIDE DEF R
<1>3. PICK x \in T : \A y \in T : ~ (<<y, x>> \in R)
  BY <1>1, WFMin
<1>4. ASSUME NEW k \in T PROVE x <= k
  <2>1. k \in Nat /\ x \in Nat
    OBVIOUS
  <2>2. ~(k < x)
    BY <1>2, <1>3, <2>1
  <2> QED
    BY <2>1, <2>2
<1> QED
  BY <1>4

(* Induction up to a number, over the set of the numbers it holds for.         *)
LEMMA UpTo ==
  ASSUME NEW S, NEW N \in Nat, 0 \in S, \A n \in 0..N : n \in S /\ n < N => n + 1 \in S
  PROVE  0..N \subseteq S
<1> SUFFICES ASSUME NEW x \in 0..N, x \notin S PROVE FALSE
  OBVIOUS
<1> DEFINE T == {n \in Nat : n \in 0..N /\ n \notin S}
<1>1. T \in SUBSET Nat /\ T # {}
  OBVIOUS
<1>2. PICK m \in T : \A k \in T : m <= k
  BY <1>1, Least
<1>3. m # 0
  BY <1>2
<1>4. m - 1 \in 0..N /\ m - 1 \notin T
  BY <1>2, <1>3
<1> QED
  BY <1>2, <1>3, <1>4

(* The policy's loop over the signals: there is a function of what it has      *)
(* after each signal, and Decided is what it has after the last.               *)
LEMMA PolicyLoop ==
  ASSUME NEW signals \in Seq(Incidents)
  PROVE  \E f : /\ f[0] = Now
                /\ \A n \in 1..Len(signals) : f[n] = DecideOne(f[n - 1], signals[n])
                /\ Decided(signals) = f[Len(signals)]
<1> DEFINE Loop(n, f) ==
      f = [k \in 0..n |-> IF k = 0 THEN Now ELSE DecideOne(f[k - 1], signals[k])]
<1> DEFINE S == {n \in 0..Len(signals) : \E f : Loop(n, f)}
<1>0. Len(signals) \in Nat
  OBVIOUS
<1>1. 0 \in S
  <2> DEFINE f == [k \in 0..0 |-> Now]
  <2>1. Loop(0, f)
    OBVIOUS
  <2>2. \E h : Loop(0, h)
    BY <2>1, Zenon
  <2> HIDE DEF Loop
  <2> QED
    BY <1>0, <2>2
<1>2. ASSUME NEW n \in 0..Len(signals), n \in S, n < Len(signals) PROVE n + 1 \in S
  <2>1. PICK f : Loop(n, f)
    BY <1>2
  <2> DEFINE g == [k \in 0..n+1 |-> IF k <= n THEN f[k] ELSE DecideOne(f[n], signals[n+1])]
  <2>2. \A k \in 0..n+1 : g[k] = IF k = 0 THEN Now ELSE DecideOne(g[k-1], signals[k])
    BY <2>1
  <2>3. Loop(n+1, g)
    BY <2>2
  <2>4. \E h : Loop(n+1, h)
    BY <2>3, Zenon
  <2> HIDE DEF Loop
  <2> QED
    BY <1>2, <2>4
<1>3. 0..Len(signals) \subseteq S
  <2> HIDE DEF S
  <2> QED
    BY <1>0, <1>1, <1>2, UpTo
<1>4. PICK f : Loop(Len(signals), f)
  BY <1>0, <1>3
<1> DEFINE after == CHOOSE h : Loop(Len(signals), h)
<1>5. Decided(signals) = after[Len(signals)]
  BY DEF Decided, Now
<1>6. Loop(Len(signals), after)
  <2> HIDE DEF Loop
  <2> QED
    BY <1>4
<1> HIDE DEF after
<1>7. /\ after[0] = Now
      /\ \A n \in 1..Len(signals) : after[n] = DecideOne(after[n - 1], signals[n])
  BY <1>0, <1>6
<1> QED
  BY <1>5, <1>7
-----------------------------------------------------------------------------
LEMMA PolicyTypes ==
  ASSUME NEW p \in Policies
  PROVE  /\ p.decided \in Seq(Decisions) /\ Len(p.decided) \in Nat
         /\ \A m \in 1..Len(p.decided) :
              /\ p.decided[m] \in Decisions /\ p.decided[m].incident \in Incidents
              /\ p.decided[m].turns \in Nat /\ p.decided[m].files \in Nat
              /\ TypeAt(p, m) \in Types
         /\ \A t \in Types : /\ p.level[t] \in Nat /\ p.lastTurn[t] \in Nat \cup {Never}
                             /\ p.filesAt[t] \in Nat \cup {Never}
<1>1. p.decided \in Seq(Decisions)
  BY DEF Policies
<1>2. \A m \in 1..Len(p.decided) : p.decided[m] \in Decisions
  BY <1>1
<1>3. \A m \in 1..Len(p.decided) :
        /\ p.decided[m].incident \in Incidents
        /\ p.decided[m].turns \in Nat /\ p.decided[m].files \in Nat
  BY <1>2 DEF Decisions
<1>4. \A m \in 1..Len(p.decided) : TypeAt(p, m) \in Types
  BY <1>3, Parameters DEF TypeAt
<1>5. \A t \in Types : /\ p.level[t] \in Nat /\ p.lastTurn[t] \in Nat \cup {Never}
                       /\ p.filesAt[t] \in Nat \cup {Never}
  BY DEF Policies
<1> QED
  BY <1>1, <1>2, <1>3, <1>4, <1>5

(* A signal adds one decision to the policy, or none.                          *)
LEMMA OneMore ==
  ASSUME TypeOK, NEW p \in Policies, NEW i \in Incidents, DecideOne(p, i) # p
  PROVE  LET q == DecideOne(p, i)
             t == TypeOf[i]
             N == Len(p.decided)
         IN
         /\ N \in Nat /\ N < MaxInterventions /\ ~CoolsDown(p, t) /\ t \in Types
         /\ q \in Policies /\ Len(q.decided) = N + 1
         /\ \A n \in 1..N : q.decided[n] = p.decided[n] /\ TypeAt(q, n) = TypeAt(p, n)
         /\ q.decided[N + 1] = Decision(p, i) /\ TypeAt(q, N + 1) = t
         /\ Decision(p, i).rung = RungOf(p, t) /\ RungOf(p, t) \in Rungs
         /\ Decision(p, i).turns = turns /\ Decision(p, i).files = files
         /\ Decision(p, i).does = "escalate" => i \notin expired
         /\ Climbed(p, t) \in Nat
         /\ q.level[t] = Climbed(p, t) + 1 /\ q.lastTurn[t] = turns /\ q.filesAt[t] = files
         /\ \A u \in Types \ {t} : /\ q.level[u] = p.level[u] /\ q.lastTurn[u] = p.lastTurn[u]
                                   /\ q.filesAt[u] = p.filesAt[u]
<1> DEFINE t == TypeOf[i]
           q == DecideOne(p, i)
           d == Decision(p, i)
           N == Len(p.decided)
<1>1. /\ t \in Types /\ turns \in Nat /\ files \in Nat /\ ladder \in Ladders
      /\ p.decided \in Seq(Decisions) /\ N \in Nat /\ p.level \in [Types -> Nat]
      /\ p.lastTurn \in [Types -> Nat \cup {Never}] /\ p.filesAt \in [Types -> Nat \cup {Never}]
  BY Parameters DEF TypeOK, Policies
<1>2. Climbed(p, t) \in Nat
  BY <1>1 DEF Climbed
<1>3. RungOf(p, t) \in Rungs
  <2>1. Len(ladder) \in Nat \ {0} /\ \A k \in 1..Len(ladder) : ladder[k] \in Rungs
    BY <1>1, Parameters
  <2> QED
    BY <1>2, <2>1 DEF RungOf, Rungs
<1>4. /\ d = [incident |-> i, rung |-> RungOf(p, t),
              does |-> IF RungOf(p, t) = "escalate" /\ ~Asks(RungOf(p, t), i)
                       THEN "inject_guidance" ELSE RungOf(p, t),
              turns |-> turns, files |-> files]
  BY DEF Decision
<1>5. /\ d \in Decisions /\ d.incident = i /\ d.rung = RungOf(p, t) /\ d.turns = turns
      /\ d.files = files /\ (d.does = "escalate" => i \notin expired)
  BY <1>1, <1>3, <1>4 DEF Decisions, Asks, Rungs
<1>6. /\ N < MaxInterventions /\ ~CoolsDown(p, t)
      /\ q = [decided |-> Append(p.decided, d),
              level |-> [p.level EXCEPT ![t] = Climbed(p, t) + 1],
              lastTurn |-> [p.lastTurn EXCEPT ![t] = turns],
              filesAt |-> [p.filesAt EXCEPT ![t] = files]]
  BY <1>1, LadderAssumption DEF DecideOne
<1> HIDE DEF q, d, t
<1>7. /\ q.decided = Append(p.decided, d) /\ q.level = [p.level EXCEPT ![t] = Climbed(p, t) + 1]
      /\ q.lastTurn = [p.lastTurn EXCEPT ![t] = turns]
      /\ q.filesAt = [p.filesAt EXCEPT ![t] = files]
  BY <1>6
<1>8. q \in Policies
  BY <1>1, <1>2, <1>5, <1>6 DEF Policies
<1>9. /\ Len(q.decided) = N + 1 /\ q.decided[N + 1] = d
      /\ \A n \in 1..N : q.decided[n] = p.decided[n]
  BY <1>1, <1>5, <1>7
<1>10. TypeAt(q, N + 1) = t /\ \A n \in 1..N : TypeAt(q, n) = TypeAt(p, n)
  BY <1>5, <1>9 DEF TypeAt, t
<1>11. /\ q.level[t] = Climbed(p, t) + 1 /\ q.lastTurn[t] = turns /\ q.filesAt[t] = files
       /\ \A u \in Types \ {t} : /\ q.level[u] = p.level[u] /\ q.lastTurn[u] = p.lastTurn[u]
                                 /\ q.filesAt[u] = p.filesAt[u]
  BY <1>1, <1>7
<1> QED
  BY <1>1, <1>2, <1>3, <1>5, <1>6, <1>8, <1>9, <1>10, <1>11 DEF q, d, t

(* The decision takes the first rung after a change to a file, and otherwise   *)
(* the rung after those that were climbed with the files as they are.          *)
LEMMA NextRung ==
  ASSUME TypeOK, NEW p \in Policies, NEW t \in Types, t \notin Advisory, Remembers(p, t)
  PROVE  LET c == Climbed(p, t)
             K == Len(ladder)
         IN
         /\ c \in Nat /\ K \in Nat \ {0}
         /\ \/ c < K /\ RungOf(p, t) = ladder[c + 1]
            \/ c >= K /\ RungOf(p, t) = ladder[K]
         /\ \A k \in 1..K : k <= c =>
              \E m \in 1..Len(p.decided) : /\ TypeAt(p, m) = t /\ p.decided[m].rung = ladder[k]
                                           /\ p.decided[m].files = files
<1>1. /\ turns \in Nat /\ files \in Nat /\ ladder \in Ladders /\ p.level[t] \in Nat
      /\ p.filesAt[t] \in Nat \cup {Never}
  BY DEF TypeOK, Policies
<1>2. Climbed(p, t) \in Nat /\ Len(ladder) \in Nat \ {0}
  BY <1>1, Parameters DEF Climbed
<1>3. \/ Climbed(p, t) < Len(ladder) /\ RungOf(p, t) = ladder[Climbed(p, t) + 1]
      \/ Climbed(p, t) >= Len(ladder) /\ RungOf(p, t) = ladder[Len(ladder)]
  BY <1>2 DEF RungOf
<1>4. ASSUME NEW k \in 1..Len(ladder), k <= Climbed(p, t)
      PROVE  \E m \in 1..Len(p.decided) : /\ TypeAt(p, m) = t /\ p.decided[m].rung = ladder[k]
                                          /\ p.decided[m].files = files
  <2>1. Climbed(p, t) = p.level[t] /\ p.level[t] > 0 /\ ~Progress(p, t)
    BY <1>1, <1>2, <1>4 DEF Climbed
  <2>2. p.filesAt[t] = files
    BY <1>1, <2>1 DEF Remembers, Progress
  <2> QED
    BY <1>4, <2>1, <2>2 DEF Remembers
<1> QED
  BY <1>2, <1>3, <1>4

LEMMA RememberKeeps ==
  ASSUME TypeOK, NEW p, PolicyInv(p), NEW i \in Incidents, DecideOne(p, i) # p,
         NEW u \in Types
  PROVE  Remembers(DecideOne(p, i), u)
<1> DEFINE t == TypeOf[i]
           q == DecideOne(p, i)
           d == Decision(p, i)
           N == Len(p.decided)
<1>1. /\ p \in Policies /\ Remembers(p, u) /\ Remembers(p, t) /\ turns \in Nat /\ files \in Nat
      /\ t \in Types
  BY Parameters DEF PolicyInv, TypeOK
<1>2. /\ N \in Nat /\ Len(q.decided) = N + 1 /\ q.decided[N + 1] = d /\ TypeAt(q, N + 1) = t
      /\ \A n \in 1..N : q.decided[n] = p.decided[n] /\ TypeAt(q, n) = TypeAt(p, n)
      /\ d.rung = RungOf(p, t) /\ d.turns = turns /\ d.files = files /\ Climbed(p, t) \in Nat
      /\ q.level[t] = Climbed(p, t) + 1 /\ q.lastTurn[t] = turns /\ q.filesAt[t] = files
      /\ \A v \in Types \ {t} : /\ q.level[v] = p.level[v] /\ q.lastTurn[v] = p.lastTurn[v]
                                /\ q.filesAt[v] = p.filesAt[v]
  BY <1>1, OneMore
<1> HIDE DEF q, d, t
<1> SUFFICES Remembers(q, u)
  BY DEF q
<1>3. CASE u # t
  <2>1. /\ q.level[u] = p.level[u] /\ q.lastTurn[u] = p.lastTurn[u] /\ q.filesAt[u] = p.filesAt[u]
        /\ \A m \in 1..(N + 1) : TypeAt(q, m) = u => m \in 1..N
        /\ 1..N \subseteq 1..(N + 1)
    BY <1>2, <1>3
  <2>2. ASSUME u \notin Advisory, NEW k \in 1..Len(ladder), k <= q.level[u]
        PROVE  \E m \in 1..(N + 1) : /\ TypeAt(q, m) = u /\ q.decided[m].rung = ladder[k]
                                     /\ q.decided[m].files = q.filesAt[u]
    <3>1. PICK m \in 1..N : /\ TypeAt(p, m) = u /\ p.decided[m].rung = ladder[k]
                            /\ p.decided[m].files = p.filesAt[u]
      BY <1>1, <2>1, <2>2 DEF Remembers
    <3> QED
      BY <1>2, <2>1, <3>1
  <2>3. ASSUME NEW m \in 1..Len(q.decided), TypeAt(q, m) = u
        PROVE  q.lastTurn[u] # Never /\ q.decided[m].turns <= q.lastTurn[u]
    <3>1. m \in 1..N /\ TypeAt(p, m) = u /\ q.decided[m] = p.decided[m]
      BY <1>2, <2>1, <2>3
    <3> QED
      BY <1>1, <2>1, <3>1 DEF Remembers
  <2>4. /\ q.lastTurn[u] <= turns /\ q.filesAt[u] <= files
        /\ q.level[u] > 0 => q.filesAt[u] # Never
    BY <1>1, <2>1 DEF Remembers
  <2> QED
    BY <1>2, <2>2, <2>3, <2>4 DEF Remembers
<1>4. CASE u = t
  <2>1. q.lastTurn[u] <= turns /\ q.filesAt[u] <= files /\ q.filesAt[u] # Never
    BY <1>1, <1>2, <1>4 DEF Never
  <2>2. ASSUME NEW m \in 1..Len(q.decided), TypeAt(q, m) = u
        PROVE  q.lastTurn[u] # Never /\ q.decided[m].turns <= q.lastTurn[u]
    <3>1. CASE m = N + 1
      BY <1>1, <1>2, <1>4, <3>1 DEF Never
    <3>2. CASE m # N + 1
      <4>1. m \in 1..N /\ TypeAt(p, m) = t /\ q.decided[m] = p.decided[m]
        BY <1>2, <1>4, <2>2, <3>2
      <4>2. p.decided[m].turns <= p.lastTurn[t] /\ p.lastTurn[t] <= turns
        BY <1>1, <4>1 DEF Remembers
      <4>3. p.decided[m].turns \in Nat /\ p.lastTurn[t] \in Nat \cup {Never}
        BY <1>1, <4>1, PolicyTypes
      <4>4. p.lastTurn[t] # Never
        BY <1>1, <4>1 DEF Remembers
      <4>5. p.decided[m].turns <= turns
        BY <1>1, <4>2, <4>3, <4>4
      <4> QED
        BY <1>1, <1>2, <1>4, <4>1, <4>5 DEF Never
    <3> QED
      BY <3>1, <3>2
  <2>3. ASSUME u \notin Advisory, NEW k \in 1..Len(ladder), k <= q.level[u]
        PROVE  \E m \in 1..Len(q.decided) : /\ TypeAt(q, m) = u /\ q.decided[m].rung = ladder[k]
                                            /\ q.decided[m].files = q.filesAt[u]
    <3>1. /\ Len(ladder) \in Nat \ {0}
          /\ \/ Climbed(p, t) < Len(ladder) /\ RungOf(p, t) = ladder[Climbed(p, t) + 1]
             \/ Climbed(p, t) >= Len(ladder) /\ RungOf(p, t) = ladder[Len(ladder)]
          /\ \A j \in 1..Len(ladder) : j <= Climbed(p, t) =>
               \E m \in 1..N : /\ TypeAt(p, m) = t /\ p.decided[m].rung = ladder[j]
                               /\ p.decided[m].files = files
      BY <1>1, <1>4, <2>3, NextRung
    <3>2. CASE k <= Climbed(p, t)
      <4>1. PICK m \in 1..N : /\ TypeAt(p, m) = t /\ p.decided[m].rung = ladder[k]
                              /\ p.decided[m].files = files
        BY <3>1, <3>2
      <4>2. m \in 1..Len(q.decided) /\ q.decided[m] = p.decided[m] /\ TypeAt(q, m) = u
        BY <1>2, <1>4, <4>1
      <4> QED
        BY <1>2, <1>4, <4>1, <4>2
    <3>3. CASE k = Climbed(p, t) + 1
      <4>1. k \in Nat /\ k <= Len(ladder) /\ Climbed(p, t) = k - 1
        BY <1>2, <2>3, <3>3
      <4>2. RungOf(p, t) = ladder[k]
        BY <3>1, <4>1
      <4>3. /\ N + 1 \in 1..Len(q.decided) /\ TypeAt(q, N + 1) = u
            /\ q.decided[N + 1].rung = ladder[k]
            /\ q.decided[N + 1].files = q.filesAt[u]
        BY <1>2, <1>4, <4>2
      <4> QED
        BY <4>3
    <3>4. k \in Nat /\ Climbed(p, t) \in Nat /\ k <= Climbed(p, t) + 1
      BY <1>2, <1>4, <2>3, <3>1
    <3>5. k <= Climbed(p, t) \/ k = Climbed(p, t) + 1
      BY <3>4
    <3> QED
      BY <3>2, <3>3, <3>5
  <2> QED
    BY <2>1, <2>2, <2>3 DEF Remembers
<1> QED
  BY <1>3, <1>4

LEMMA ClimbKeeps ==
  ASSUME TypeOK, NEW p, PolicyInv(p), NEW i \in Incidents, DecideOne(p, i) # p,
         NEW n \in 1..Len(DecideOne(p, i).decided)
  PROVE  Climbing(DecideOne(p, i), n)
<1> DEFINE t == TypeOf[i]
           q == DecideOne(p, i)
           d == Decision(p, i)
           N == Len(p.decided)
<1>1. /\ p \in Policies /\ Remembers(p, t) /\ turns \in Nat /\ files \in Nat
      /\ t \in Types /\ ladder \in Ladders /\ Cooldown \in Nat
  BY Parameters, LadderAssumption DEF PolicyInv, TypeOK
<1>2. /\ N \in Nat /\ Len(q.decided) = N + 1 /\ q.decided[N + 1] = d /\ TypeAt(q, N + 1) = t
      /\ \A m \in 1..N : q.decided[m] = p.decided[m] /\ TypeAt(q, m) = TypeAt(p, m)
      /\ d.rung = RungOf(p, t) /\ d.turns = turns /\ d.files = files /\ ~CoolsDown(p, t)
  BY <1>1, OneMore
<1> HIDE DEF q, d, t
<1>3. n \in 1..(N + 1)
  BY <1>2 DEF q
<1> SUFFICES Climbing(q, n)
  BY DEF q
<1>4. CASE n # N + 1
  <2>1. n \in 1..N /\ Climbing(p, n)
    BY <1>2, <1>3, <1>4 DEF PolicyInv
  <2>2. \A m \in 1..n : q.decided[m] = p.decided[m] /\ TypeAt(q, m) = TypeAt(p, m)
    BY <1>2, <2>1
  <2>3. n \in 1..n /\ 1..(n - 1) \subseteq 1..n
    BY <1>2, <2>1
  <2>4. ASSUME DistinctRungs, NEW k \in 2..Len(ladder), q.decided[n].rung = ladder[k]
        PROVE  \E m \in 1..(n - 1) : /\ TypeAt(q, m) = TypeAt(q, n)
                                     /\ q.decided[m].rung = ladder[k - 1]
                                     /\ q.decided[m].files = q.decided[n].files
    <3>1. PICK m \in 1..(n - 1) : /\ TypeAt(p, m) = TypeAt(p, n)
                                  /\ p.decided[m].rung = ladder[k - 1]
                                  /\ p.decided[m].files = p.decided[n].files
      BY <2>1, <2>2, <2>3, <2>4 DEF Climbing
    <3>2. m \in 1..n
      BY <2>3
    <3>3. q.decided[m] = p.decided[m] /\ TypeAt(q, m) = TypeAt(p, m)
      BY <2>2, <3>2
    <3>4. q.decided[n] = p.decided[n] /\ TypeAt(q, n) = TypeAt(p, n)
      BY <2>2, <2>3
    <3> QED
      BY <3>1, <3>3, <3>4
  <2>5. \A m \in 1..(n - 1) : TypeAt(q, m) = TypeAt(q, n) =>
          q.decided[m].turns + Cooldown <= q.decided[n].turns
    BY <2>1, <2>2, <2>3 DEF Climbing
  <2> QED
    BY <2>4, <2>5 DEF Climbing
<1>5. CASE n = N + 1
  <2>1. ASSUME NEW m \in 1..(n - 1), TypeAt(q, m) = TypeAt(q, n)
        PROVE  q.decided[m].turns + Cooldown <= q.decided[n].turns
    <3>1. m \in 1..N /\ TypeAt(p, m) = t /\ q.decided[m] = p.decided[m]
      BY <1>2, <1>5, <2>1
    <3>2. p.lastTurn[t] # Never /\ p.decided[m].turns <= p.lastTurn[t]
      BY <1>1, <3>1 DEF Remembers
    <3>3. p.decided[m].turns \in Nat /\ p.lastTurn[t] \in Nat \cup {Never}
      BY <1>1, <3>1, PolicyTypes
    <3>4. turns - p.lastTurn[t] >= Cooldown
      BY <1>1, <1>2, <3>2, <3>3 DEF CoolsDown
    <3>5. p.decided[m].turns + Cooldown <= turns
      BY <1>1, <3>2, <3>3, <3>4 DEF Never
    <3> QED
      BY <1>2, <1>5, <3>1, <3>5
  <2>2. ASSUME DistinctRungs, NEW k \in 2..Len(ladder), q.decided[n].rung = ladder[k]
        PROVE  \E m \in 1..(n - 1) : /\ TypeAt(q, m) = TypeAt(q, n)
                                     /\ q.decided[m].rung = ladder[k - 1]
                                     /\ q.decided[m].files = q.decided[n].files
    <3>1. /\ RungOf(p, t) = ladder[k] /\ Len(ladder) \in Nat \ {0}
          /\ ladder[1] = "inject_guidance"
          /\ \A a, b \in 1..Len(ladder) : ladder[a] = ladder[b] => a = b
      BY <1>1, <1>2, <1>5, <2>2, Parameters DEF DistinctRungs
    <3>2. t \notin Advisory
      BY <3>1 DEF RungOf
    <3>3. /\ Climbed(p, t) \in Nat
          /\ \/ Climbed(p, t) < Len(ladder) /\ RungOf(p, t) = ladder[Climbed(p, t) + 1]
             \/ Climbed(p, t) >= Len(ladder) /\ RungOf(p, t) = ladder[Len(ladder)]
          /\ \A j \in 1..Len(ladder) : j <= Climbed(p, t) =>
               \E m \in 1..N : /\ TypeAt(p, m) = t /\ p.decided[m].rung = ladder[j]
                               /\ p.decided[m].files = files
      BY <1>1, <3>2, NextRung
    <3>4. k - 1 \in 1..Len(ladder) /\ k - 1 <= Climbed(p, t)
      BY <3>1, <3>3
    <3>5. PICK m \in 1..N : /\ TypeAt(p, m) = t /\ p.decided[m].rung = ladder[k - 1]
                            /\ p.decided[m].files = files
      BY <3>3, <3>4
    <3>6. /\ q.decided[m] = p.decided[m] /\ TypeAt(q, m) = TypeAt(q, n)
          /\ q.decided[n].files = files /\ m \in 1..(n - 1)
      BY <1>2, <1>5, <3>5
    <3> QED
      BY <3>5, <3>6
  <2> QED
    BY <2>1, <2>2 DEF Climbing
<1> QED
  BY <1>4, <1>5

LEMMA AddsKeeps ==
  ASSUME TypeOK, NEW p, PolicyInv(p), Adds(p), NEW i \in Incidents, DecideOne(p, i) # p
  PROVE  Adds(DecideOne(p, i))
<1> DEFINE t == TypeOf[i]
           q == DecideOne(p, i)
           d == Decision(p, i)
           N == Len(p.decided)
           L == Len(decided)
<1>1. /\ p \in Policies /\ turns \in Nat /\ t \in Types /\ L \in Nat /\ Cooldown \in Nat
      /\ \A n \in 1..N : TypeAt(p, n) \in Types
  <2>1. p \in Policies /\ \A n \in 1..N : TypeAt(p, n) \in Types
    BY PolicyTypes DEF PolicyInv
  <2>2. Len(decided) \in Nat /\ turns \in Nat
    BY DEF TypeOK, Now, Policies
  <2> QED
    BY <2>1, <2>2, Parameters, LadderAssumption
<1>2. /\ N \in Nat /\ Len(q.decided) = N + 1 /\ q.decided[N + 1] = d /\ TypeAt(q, N + 1) = t
      /\ \A m \in 1..N : q.decided[m] = p.decided[m] /\ TypeAt(q, m) = TypeAt(p, m)
      /\ ~CoolsDown(p, t) /\ (d.does = "escalate" => i \notin expired) /\ d.incident = i
      /\ q.lastTurn[t] = turns /\ \A u \in Types \ {t} : q.lastTurn[u] = p.lastTurn[u]
  BY <1>1, OneMore DEF Decision
<1> HIDE DEF q, d, t, L
<1>3. L <= N /\ \A n \in 1..L : q.decided[n] = decided[n]
  BY <1>1, <1>2 DEF Adds, L
<1>4. ASSUME NEW n \in (L + 1)..(N + 1)
      PROVE  /\ q.decided[n].does = "escalate" => q.decided[n].incident \notin expired
             /\ q.lastTurn[TypeAt(q, n)] = turns
  <2>1. CASE n = N + 1
    BY <1>2, <2>1
  <2>2. CASE n # N + 1
    <3>1. n \in (L + 1)..N /\ n \in 1..N
      BY <1>1, <1>2, <2>2
    <3>2. /\ p.decided[n].does = "escalate" => p.decided[n].incident \notin expired
          /\ p.lastTurn[TypeAt(p, n)] = turns
      BY <3>1 DEF Adds, L
    <3> QED
      BY <1>1, <1>2, <3>1, <3>2
  <2> QED
    BY <2>1, <2>2
<1>5. ASSUME Cooldown > 0, NEW n \in (L + 1)..N PROVE TypeAt(p, n) # t
  <2>1. p.lastTurn[TypeAt(p, n)] = turns
    BY <1>5 DEF Adds, L
  <2> QED
    BY <1>1, <1>2, <1>5, <2>1 DEF CoolsDown, Never
<1>6. ASSUME Cooldown > 0, NEW n \in (L + 1)..(N + 1), NEW m \in (L + 1)..(N + 1),
             TypeAt(q, n) = TypeAt(q, m)
      PROVE  n = m
  <2>1. \A k \in (L + 1)..(N + 1) : k = N + 1 \/ (k \in (L + 1)..N /\ k \in 1..N)
    BY <1>1, <1>2
  <2>2. \A j, k \in (L + 1)..N : TypeAt(p, j) = TypeAt(p, k) => j = k
    BY <1>6 DEF Adds, L
  <2> QED
    BY <1>2, <1>5, <1>6, <2>1, <2>2
<1> QED
  BY <1>2, <1>3, <1>4, <1>6 DEF Adds, q, L

(* Whatever the signals, the policy keeps its memory in order.                 *)
LEMMA PolicyKeeps ==
  ASSUME TypeOK, PolicyInv(Now), NEW signals \in Seq(Incidents)
  PROVE  PolicyInv(Decided(signals)) /\ Adds(Decided(signals))
<1>1. PICK f : /\ f[0] = Now
               /\ \A n \in 1..Len(signals) : f[n] = DecideOne(f[n - 1], signals[n])
               /\ Decided(signals) = f[Len(signals)]
  BY PolicyLoop
<1> DEFINE S == {n \in 0..Len(signals) : PolicyInv(f[n]) /\ Adds(f[n])}
<1>2. Len(signals) \in Nat
  OBVIOUS
<1>3. 0 \in S
  <2>1. Len(decided) \in Nat /\ Now.decided = decided
    BY DEF TypeOK, Now, Policies
  <2>2. Adds(Now)
    BY <2>1 DEF Adds
  <2> QED
    BY <1>1, <1>2, <2>2
<1>4. ASSUME NEW n \in 0..Len(signals), n \in S, n < Len(signals) PROVE n + 1 \in S
  <2>1. n + 1 \in 1..Len(signals) /\ signals[n + 1] \in Incidents
    BY <1>2, <1>4
  <2>2. f[n + 1] = DecideOne(f[n], signals[n + 1])
    BY <1>1, <1>2, <2>1
  <2>3. PolicyInv(f[n]) /\ Adds(f[n])
    BY <1>4
  <2>4. CASE f[n + 1] = f[n]
    BY <2>1, <2>3, <2>4
  <2>5. CASE f[n + 1] # f[n]
    <3>1. f[n + 1] \in Policies
      BY <2>1, <2>2, <2>3, <2>5, OneMore DEF PolicyInv
    <3>2. \A u \in Types : Remembers(f[n + 1], u)
      BY <2>1, <2>2, <2>3, <2>5, RememberKeeps
    <3>3. \A m \in 1..Len(f[n + 1].decided) : Climbing(f[n + 1], m)
      BY <2>1, <2>2, <2>3, <2>5, ClimbKeeps
    <3>4. Adds(f[n + 1])
      BY <2>1, <2>2, <2>3, <2>5, AddsKeeps
    <3> QED
      BY <2>1, <3>1, <3>2, <3>3, <3>4 DEF PolicyInv
  <2> QED
    BY <2>4, <2>5
<1>5. 0..Len(signals) \subseteq S
  <2> HIDE DEF S
  <2> QED
    BY <1>2, <1>3, <1>4, UpTo
<1> QED
  BY <1>1, <1>2, <1>5
-----------------------------------------------------------------------------
(* The steps that decide nothing.                                              *)
LEMMA Undecided ==
  ASSUME TypeOK, [Next]_vars, ~Decide
  PROVE  /\ UNCHANGED policy /\ Now' = Now
         /\ turns' \in Nat /\ files' \in Nat /\ turns <= turns' /\ files <= files'
<1>1. UNCHANGED policy
  BY DEF Next, SessionStep, ObserverStep, Reply, Over, Work, UserAborts, BeginEnding, EndSession,
     Settle, Detach, Fold, NextEvent, Leave, Restore, Guide, RequirePlan, AbortSession, Ask,
     Consult, Expire, Withdrawn, ConsultFails, Answered, AskFails, Replied, Consulted, vars
<1>2. CASE Fold
  <2>1. PICK a, b \in {0, 1} : turns' = turns + a /\ files' = files + b
    BY <1>2 DEF Fold
  <2>2. turns' \in Nat /\ files' \in Nat /\ turns <= turns' /\ files <= files'
    BY <2>1 DEF TypeOK
  <2> QED
    BY <1>1, <2>2 DEF Now, policy
<1>3. CASE ~Fold
  <2>1. UNCHANGED fold
    BY <1>3 DEF Next, SessionStep, ObserverStep, Reply, Over, Work, UserAborts, BeginEnding,
       EndSession, Settle, Detach, NextEvent, Leave, Restore, Guide, RequirePlan, AbortSession,
       Ask, Consult, Expire, Withdrawn, ConsultFails, Answered, AskFails, Replied, Consulted, vars
  <2> QED
    BY <1>1, <2>1 DEF fold, TypeOK, Now, policy
<1> QED
  BY <1>2, <1>3

LEMMA DecideDone ==
  ASSUME TypeOK, PolicyInv(Now), Decide
  PROVE  /\ Now' \in Policies /\ PolicyInv(Now)' /\ Adds(Now')
         /\ batch' \in Seq(Nat) /\ Len(batch') = Len(decided') - Len(decided)
         /\ Len(decided) \in Nat /\ Len(decided') \in Nat
         /\ \A k \in 1..Len(batch') : batch'[k] = Len(decided) + k
<1>1. PICK signals \in Sightings :
        LET after == Decided(signals) IN
        /\ decided' = after.decided /\ level' = after.level
        /\ lastTurn' = after.lastTurn /\ filesAt' = after.filesAt
        /\ batch' = [n \in 1..(Len(after.decided) - Len(decided)) |-> Len(decided) + n]
        /\ UNCHANGED <<fold, ladder, expired>>
  BY DEF Decide
<1>2. signals \in Seq(Incidents)
  BY LadderAssumption
<1>3. PolicyInv(Decided(signals)) /\ Adds(Decided(signals))
  BY <1>2, PolicyKeeps
<1>4. Now' = Decided(signals)
  BY <1>1, <1>3 DEF Now, PolicyInv, Policies
<1>5. turns' = turns /\ files' = files /\ ladder' = ladder
  BY <1>1 DEF fold
<1>6. PolicyInv(Now)'
  BY <1>3, <1>4, <1>5 DEF PolicyInv, Remembers, Climbing, TypeAt
<1>7. Adds(Now')
  BY <1>3, <1>4
<1>8. Len(decided) \in Nat /\ Len(decided') \in Nat /\ Len(decided) <= Len(decided')
  <2>1. Len(Now.decided) \in Nat /\ Now.decided = decided
    BY PolicyTypes DEF TypeOK, Now
  <2>2. Len(Decided(signals).decided) \in Nat
    BY <1>3, PolicyTypes DEF PolicyInv
  <2> QED
    BY <1>1, <1>3, <2>1, <2>2 DEF Adds
<1>9. /\ batch' \in Seq(Nat) /\ Len(batch') = Len(decided') - Len(decided)
      /\ \A k \in 1..Len(batch') : batch'[k] = Len(decided) + k
  BY <1>1, <1>8
<1> QED
  BY <1>3, <1>4, <1>6, <1>7, <1>8, <1>9 DEF PolicyInv

(* The batch loses its head, or all, or stays.                                 *)
LEMMA BatchShrinks ==
  ASSUME IInv, [Next]_vars, ~Decide
  PROVE  batch' = batch \/ batch' = <<>> \/ (batch # <<>> /\ batch' = Tail(batch))
BY DEF IInv, BatchInv, Next, SessionStep, ObserverStep, Reply, Over, Work, UserAborts,
   BeginEnding, EndSession, Settle, Detach, Fold, NextEvent, Leave, Restore, Guide,
   RequirePlan, AbortSession, Ask, Consult, Expire, Withdrawn, ConsultFails, Answered,
   AskFails, Replied, Consulted, Begin, vars

LEMMA TypeKeeps ==
  ASSUME IInv, [Next]_vars
  PROVE  TypeOK'
<1>0. TypeOK /\ PolicyInv(Now)
  BY DEF IInv
<1>1. CASE Decide
  <2>1. Now' \in Policies /\ batch' \in Seq(Nat)
    BY <1>0, <1>1, DecideDone
  <2> QED
    BY <1>0, <1>1, <2>1 DEF Decide, TypeOK, session, fold
<1>2. CASE ~Decide
  <2>1. Now' = Now /\ ladder' = ladder /\ turns' \in Nat /\ files' \in Nat
    BY <1>0, <1>2, Undecided DEF policy
  <2>2. log' \in Seq({"call", "change", "turn", "plan"})
    <3>1. CASE \E event \in {"call", "change", "turn", "plan"} : Work(event)
      BY <1>0, <3>1 DEF Work, TypeOK
    <3>2. CASE ~ \E event \in {"call", "change", "turn", "plan"} : Work(event)
      BY <1>0, <1>2, <3>2 DEF TypeOK, Next, SessionStep, ObserverStep, Reply, Over, Work,
                              UserAborts, BeginEnding, EndSession, Settle, Detach, Fold,
                              NextEvent, Leave, Restore, Guide, RequirePlan, AbortSession, Ask,
                              Consult, Expire, Withdrawn, ConsultFails, Answered, AskFails,
                              Replied, Consulted, vars, session
    <3> QED
      BY <3>1, <3>2
  <2>3. pos' \in Nat
    BY <1>0, <1>2 DEF TypeOK, Next, SessionStep, ObserverStep, Reply, Over, Work, UserAborts,
       BeginEnding, EndSession, Settle, Detach, Fold, NextEvent, Leave, Restore, Guide,
       RequirePlan, AbortSession, Ask, Consult, Expire, Withdrawn, ConsultFails, Answered,
       AskFails, Replied, Consulted, vars, fold
  <2>4. sess' \in {"running", "aborted", "ending", "ended", "settled"}
    BY <1>0, <1>2 DEF TypeOK, Next, SessionStep, ObserverStep, Reply, Over, Work, UserAborts,
       BeginEnding, EndSession, Settle, Detach, Fold, NextEvent, Leave, Restore, Guide,
       RequirePlan, AbortSession, Ask, Consult, Expire, Withdrawn, ConsultFails, Answered,
       AskFails, Replied, Consulted, vars, session
  <2>5. obs' \in {"read", "prepare", "apply", "ask", "consult", "restore", "returned"}
    BY <1>0, <1>2 DEF TypeOK, Next, SessionStep, ObserverStep, Reply, Over, Work, UserAborts,
       BeginEnding, EndSession, Settle, Detach, Fold, NextEvent, Leave, Restore, Guide,
       RequirePlan, AbortSession, Ask, Consult, Expire, Withdrawn, ConsultFails, Answered,
       AskFails, Replied, Consulted, vars
  <2>6. batch' = batch \/ batch' = <<>> \/ (batch # <<>> /\ batch' = Tail(batch))
    BY <1>2, BatchShrinks
  <2>7. recorded' \subseteq Numbers
    BY <1>0, <1>2 DEF TypeOK, Next, SessionStep, ObserverStep, Reply, Over, Work, UserAborts,
       BeginEnding, EndSession, Settle, Detach, Fold, NextEvent, Leave, Restore, Guide,
       RequirePlan, AbortSession, Ask, Consult, Begin, Expire, Withdrawn, ConsultFails, Answered,
       AskFails, Replied, Consulted, vars
  <2>8. batch' \in Seq(Nat)
    <3>1. batch \in Seq(Nat)
      BY <1>0 DEF TypeOK
    <3>2. batch # <<>> => Tail(batch) \in Seq(Nat)
      BY <3>1
    <3>3. <<>> \in Seq(Nat)
      OBVIOUS
    <3> QED
      BY <2>6, <3>1, <3>2, <3>3
  <2> QED
    BY <1>0, <2>1, <2>2, <2>3, <2>4, <2>5, <2>7, <2>8 DEF TypeOK
<1> QED
  BY <1>1, <1>2

LEMMA PolicyInvKeeps ==
  ASSUME IInv, [Next]_vars
  PROVE  PolicyInv(Now)'
<1>0. TypeOK /\ TypeOK' /\ PolicyInv(Now)
  BY TypeKeeps DEF IInv
<1>1. CASE Decide
  BY <1>0, <1>1, DecideDone
<1>2. CASE ~Decide
  <2>1. /\ Now' = Now /\ ladder' = ladder /\ turns' \in Nat /\ files' \in Nat
        /\ turns \in Nat /\ files \in Nat /\ turns <= turns' /\ files <= files'
    BY <1>0, <1>2, Undecided DEF policy, TypeOK
  <2>2. ASSUME NEW t \in Types PROVE Remembers(Now, t)'
    <3>1. Remembers(Now, t) /\ Now.lastTurn[t] \in Nat \cup {Never}
          /\ Now.filesAt[t] \in Nat \cup {Never}
      BY <1>0, PolicyTypes DEF PolicyInv
    <3>2. Now.lastTurn[t] <= turns' /\ Now.filesAt[t] <= files'
      BY <2>1, <3>1 DEF Remembers, Never
    <3> QED
      BY <2>1, <3>1, <3>2 DEF Remembers, TypeAt
  <2>3. \A n \in 1..Len(Now.decided) : Climbing(Now, n)'
    BY <1>0, <2>1 DEF PolicyInv, Climbing, TypeAt
  <2> QED
    BY <1>0, <2>1, <2>2, <2>3 DEF PolicyInv
<1> QED
  BY <1>1, <1>2

(* Once asked, a question that expires is of an incident that is not waiting.  *)
LEMMA ExpiresNow ==
  ASSUME IInv, [Next]_vars
  PROVE  \/ expired' = expired
         \/ \E n \in Numbers : obs = "ask" /\ n = Head(batch) /\ Expire(n)
BY DEF Next, SessionStep, ObserverStep, Reply, Over, Work, UserAborts,
   BeginEnding, EndSession, Settle, Detach, Fold, Decide, NextEvent, Leave, Restore, Guide,
   RequirePlan, AbortSession, Ask, Consult, Expire, Withdrawn, ConsultFails, Answered,
   AskFails, Replied, Consulted, vars

LEMMA BatchKeeps ==
  ASSUME IInv, [Next]_vars
  PROVE  BatchInv'
<1>0. TypeOK /\ TypeOK' /\ PolicyInv(Now) /\ BatchInv /\ Now.decided = decided
  BY TypeKeeps DEF IInv, Now
<1>a. Now \in Policies /\ Len(decided) \in Nat /\ Len(batch) \in Nat /\ batch \in Seq(Nat)
  BY <1>0, PolicyTypes DEF PolicyInv, TypeOK
<1>1. CASE Decide
  <2>1. /\ Adds(Now') /\ Len(batch') = Len(decided') - Len(decided) /\ Len(decided') \in Nat
        /\ \A k \in 1..Len(batch') : batch'[k] = Len(decided) + k
        /\ batch' \in Seq(Nat) /\ Now'.decided = decided' /\ expired' = expired
        /\ obs' = "apply"
    BY <1>0, <1>1, DecideDone DEF Now, Decide
  <2>2. \A k \in 1..Len(batch') : batch'[k] \in (Len(decided) + 1)..Len(Now'.decided)
    BY <1>a, <2>1
  <2>3. Len(batch') <= Len(decided')
    BY <1>a, <2>1
  <2>4. \A k \in 1..Len(batch') : batch'[k] = Len(decided') - Len(batch') + k
    BY <1>a, <2>1
  <2>5. ASSUME Cooldown > 0, NEW j \in 1..Len(batch'), NEW k \in 1..Len(batch'),
               TypeAt(Now', batch'[j]) = TypeAt(Now', batch'[k])
        PROVE  j = k
    <3>1. batch'[j] = batch'[k]
      BY <2>1, <2>2, <2>5 DEF Adds
    <3> QED
      BY <1>a, <2>1, <3>1
  <2>6. \A k \in 1..Len(batch') : decided'[batch'[k]].does = "escalate" =>
          decided'[batch'[k]].incident \notin expired'
    BY <2>1, <2>2 DEF Adds
  <2> QED
    BY <2>1, <2>3, <2>4, <2>5, <2>6 DEF BatchInv, TypeAt
<1>2. CASE ~Decide
  <2>1. Now' = Now /\ decided' = decided
    BY <1>0, <1>2, Undecided DEF policy
  <2>2. obs' \in {"ask", "consult"} => batch' # <<>>
    BY <1>0, <1>2 DEF BatchInv, Next, SessionStep, ObserverStep, Reply, Over, Work, UserAborts,
       BeginEnding, EndSession, Settle, Detach, Fold, NextEvent, Leave, Restore, Guide,
       RequirePlan, AbortSession, Ask, Consult, Expire, Withdrawn, ConsultFails, Answered,
       AskFails, Replied, Consulted, Begin, vars
  <2>3. PICK c \in {0, 1} : /\ c <= Len(batch) /\ (batch' = <<>> \/ Len(batch') = Len(batch) - c)
                            /\ \A k \in 1..Len(batch') : batch'[k] = batch[k + c]
                                                         /\ k + c \in 1..Len(batch)
                            /\ c = 1 \/ batch' \in {batch, <<>>}
    <3>1. CASE batch' \in {batch, <<>>}
      BY <1>a, <3>1
    <3>2. CASE batch # <<>> /\ batch' = Tail(batch)
      <4>1. /\ Len(batch) >= 1 /\ Len(batch') = Len(batch) - 1
            /\ \A k \in 1..Len(batch') : batch'[k] = batch[k + 1] /\ k + 1 \in 1..Len(batch)
        BY <1>a, <3>2
      <4> QED
        BY <4>1
    <3> QED
      BY <1>2, <3>1, <3>2, BatchShrinks
  <2>4. Len(batch') \in Nat /\ Len(batch') <= Len(decided')
    BY <1>0, <1>a, <2>1, <2>3 DEF BatchInv
  <2>5. ASSUME NEW k \in 1..Len(batch') PROVE batch'[k] = Len(decided') - Len(batch') + k
    <3>1. Len(batch') = Len(batch) - c /\ batch'[k] = batch[k + c] /\ k + c \in 1..Len(batch)
      BY <2>3, <2>5
    <3>2. batch[k + c] = Len(decided) - Len(batch) + (k + c)
      BY <1>0, <3>1 DEF BatchInv
    <3> QED
      BY <1>a, <2>1, <3>1, <3>2
  <2>6. ASSUME Cooldown > 0, NEW j \in 1..Len(batch'), NEW k \in 1..Len(batch'),
               TypeAt(Now', batch'[j]) = TypeAt(Now', batch'[k])
        PROVE  j = k
    <3>1. j + c = k + c
      BY <1>0, <2>1, <2>3, <2>6 DEF BatchInv
    <3> QED
      BY <2>4, <3>1
  <2>7. ASSUME Cooldown > 0, NEW k \in 1..Len(batch'), decided'[batch'[k]].does = "escalate"
        PROVE  decided'[batch'[k]].incident \notin expired'
    <3>1. decided[batch[k + c]].incident \notin expired /\ batch'[k] = batch[k + c]
      BY <1>0, <2>1, <2>3, <2>7 DEF BatchInv
    <3>2. CASE expired' = expired
      BY <2>1, <3>1, <3>2
    <3>3. CASE \E n \in Numbers : obs = "ask" /\ n = Head(batch) /\ Expire(n)
      <4>1. /\ batch # <<>> /\ batch' = Tail(batch)
            /\ expired' = expired \cup {decided[batch[1]].incident}
        BY <1>0, <1>a, <3>3 DEF Expire, Remember, BatchInv
      <4>2. batch'[k] = batch[k + 1] /\ k + 1 \in 1..Len(batch) /\ 1 \in 1..Len(batch)
            /\ k + 1 # 1
        BY <1>a, <4>1
      <4>3. TypeAt(Now, batch[k + 1]) # TypeAt(Now, batch[1])
        BY <1>0, <2>7, <4>2 DEF BatchInv
      <4>4. decided[batch[k + 1]].incident # decided[batch[1]].incident
        BY <1>0, <4>3 DEF TypeAt
      <4> QED
        BY <2>1, <3>1, <4>1, <4>2, <4>4
    <3> QED
      BY <3>2, <3>3, ExpiresNow
  <2> QED
    BY <2>1, <2>2, <2>4, <2>5, <2>6, <2>7 DEF BatchInv, TypeAt
<1> QED
  BY <1>1, <1>2

LEMMA ExpiredKeeps ==
  ASSUME IInv, [Next]_vars
  PROVE  ExpiredInv'
<1>0. TypeOK /\ PolicyInv(Now) /\ BatchInv /\ ExpiredInv /\ Len(decided) \in Nat
  BY PolicyTypes DEF IInv, PolicyInv, Now
<1>1. /\ Len(decided) <= Len(decided') /\ Len(decided') \in Nat
      /\ \A n \in 1..Len(decided) : decided'[n] = decided[n]
  <2>1. CASE Decide
    <3>1. Adds(Now') /\ Now'.decided = decided' /\ Len(decided') \in Nat
      BY <1>0, <2>1, DecideDone DEF Now
    <3> QED
      BY <3>1 DEF Adds
  <2>2. CASE ~Decide
    BY <1>0, <2>2, Undecided DEF policy
  <2> QED
    BY <2>1, <2>2
<1>2. expired \subseteq expired'
  BY ExpiresNow DEF Expire, Remember
<1>3. ASSUME NEW m \in Numbers, <<m, "expired">> \in outcomes'
      PROVE  m \in 1..Len(decided) /\ decided[m].incident \in expired'
  <2>1. CASE <<m, "expired">> \in outcomes
    BY <1>0, <1>2, <2>1 DEF ExpiredInv
  <2>2. CASE <<m, "expired">> \notin outcomes
    <3>1. \E n \in Numbers : Expire(n) /\ m = n /\ n = Head(batch) /\ batch # <<>>
      BY <1>0, <1>3, <2>2 DEF BatchInv, Next, SessionStep, ObserverStep, Reply, Over, Work,
         UserAborts, BeginEnding, EndSession, Settle, Detach, Fold, Decide, NextEvent, Leave,
         Restore, Guide, RequirePlan, AbortSession, Ask, Consult, Expire, Withdrawn, ConsultFails,
         Answered, AskFails, Replied, Consulted, Told, vars
    <3>2. batch \in Seq(Nat) /\ batch # <<>> /\ m = batch[1]
      BY <1>0, <3>1 DEF TypeOK
    <3>3. 1 \in 1..Len(batch) /\ Len(batch) \in Nat /\ Len(batch) >= 1
      BY <3>2
    <3>4. m = Len(decided) - Len(batch) + 1 /\ Len(batch) <= Len(decided)
      BY <1>0, <3>2, <3>3 DEF BatchInv
    <3>5. m \in 1..Len(decided)
      BY <1>0, <3>3, <3>4
    <3> QED
      BY <3>1, <3>5 DEF Expire, Remember
  <2> QED
    BY <2>1, <2>2
<1>4. \A m \in 1..Len(decided) : m \in 1..Len(decided') /\ decided'[m] = decided[m]
  BY <1>0, <1>1
<1> QED
  BY <1>3, <1>4 DEF ExpiredInv

LEMMA OutcomesKeep ==
  ASSUME IInv, [Next]_vars
  PROVE  OutcomesKnown'
<1>0. OutcomesKnown
  BY DEF IInv
<1>1. SUFFICES ASSUME ~Ended', NEW n \in recorded', n \notin {o[1] : o \in outcomes'}
      PROVE  obs' \in {"ask", "consult"} /\ n = Head(batch')
  BY DEF OutcomesKnown
<1>2. ~Ended
  BY <1>1 DEF Ended, Next, SessionStep, ObserverStep, Reply, Over, Work,
     UserAborts, BeginEnding, EndSession, Settle, Detach, Fold, Decide, NextEvent, Leave,
     Restore, Guide, RequirePlan, AbortSession, Ask, Consult, Expire, Withdrawn, ConsultFails,
     Answered, AskFails, Replied, Consulted, vars, session
<1>4. outcomes \subseteq outcomes'
  BY DEF Next, SessionStep, ObserverStep, Reply, Over, Work, UserAborts, BeginEnding,
         EndSession, Settle, Detach, Fold, Decide, NextEvent, Leave, Restore, Guide,
         RequirePlan, AbortSession, Ask, Consult, Expire, Withdrawn, ConsultFails, Answered,
         AskFails, Replied, Consulted, Told, vars
<1>5. n \notin {o[1] : o \in outcomes}
  BY <1>1, <1>4
<1>6. CASE n \in recorded
  <2>1. obs \in {"ask", "consult"} /\ n = Head(batch)
    BY <1>0, <1>2, <1>5, <1>6 DEF OutcomesKnown
  <2>2. CASE obs' = obs /\ batch' = batch
    BY <2>1, <2>2
  <2>3. CASE ~(obs' = obs /\ batch' = batch)
    <3>1. \E how : <<n, how>> \in outcomes'
      BY <1>2, <2>1, <2>3 DEF Next, SessionStep, ObserverStep, Reply, Over, Work,
         UserAborts, BeginEnding, EndSession, Settle, Detach, Fold, Decide, NextEvent, Leave,
         Restore, Guide, RequirePlan, AbortSession, Ask, Consult, Begin, Expire, Withdrawn,
         ConsultFails, Answered, AskFails, Replied, Consulted, Told, vars
    <3> QED
      BY <1>1, <3>1
  <2> QED
    BY <2>2, <2>3
<1>7. CASE n \notin recorded
  <2>1. \/ obs' \in {"ask", "consult"} /\ n = Head(batch')
        \/ \E how : <<n, how>> \in outcomes'
    BY <1>1, <1>2, <1>7 DEF Next, SessionStep, ObserverStep, Reply, Over, Work,
       UserAborts, BeginEnding, EndSession, Settle, Detach, Fold, Decide, NextEvent, Leave,
       Restore, Guide, RequirePlan, AbortSession, Ask, Consult, Begin, Expire, Withdrawn,
       ConsultFails, Answered, AskFails, Replied, Consulted, Told, vars
  <2>2. ASSUME NEW how, <<n, how>> \in outcomes' PROVE FALSE
    <3>1. <<n, how>>[1] = n
      OBVIOUS
    <3>2. <<n, how>>[1] \in {o[1] : o \in outcomes'}
      BY <2>2
    <3> QED
      BY <1>1, <3>1, <3>2
  <2> QED
    BY <2>1, <2>2
<1> QED
  BY <1>6, <1>7
-----------------------------------------------------------------------------
LEMMA InitInv ==
  ASSUME Init
  PROVE  IInv
<1>1. Now = [decided |-> <<>>, level |-> [t \in Types |-> 0],
             lastTurn |-> [t \in Types |-> Never], filesAt |-> [t \in Types |-> Never]]
  BY DEF Init, Now
<1>2. Now \in Policies /\ Len(Now.decided) = 0
  BY <1>1 DEF Policies
<1>3. TypeOK
  BY <1>2 DEF Init, TypeOK
<1>4. PolicyInv(Now)
  BY <1>1, <1>2 DEF PolicyInv, Remembers, Climbing, Init, Never
<1>5. BatchInv /\ ExpiredInv /\ OutcomesKnown
  BY DEF Init, BatchInv, ExpiredInv, OutcomesKnown
<1> QED
  BY <1>3, <1>4, <1>5 DEF IInv

LEMMA InvNext == IInv /\ [Next]_vars => IInv'
BY TypeKeeps, PolicyInvKeeps, BatchKeeps, ExpiredKeeps, OutcomesKeep DEF IInv

(* The inductive invariant holds in every reachable state.                     *)
THEOREM LadderInvariant == Spec => []IInv
BY InitInv, InvNext, PTL DEF Spec

(* What was applied has its outcome in the log, unless the session ended first.*)
THEOREM LadderOutcomes == Spec => []OutcomesKnown
<1>1. IInv => OutcomesKnown
  BY DEF IInv
<1> QED
  BY <1>1, LadderInvariant, PTL

(* A ladder without repeated rungs is climbed one rung at a time, a cooldown   *)
(* apart, and from the first again after a change to a file.                   *)
THEOREM LadderClimbs ==
  ASSUME DistinctRungs
  PROVE  Spec => []ClimbsInOrder
<1>1. ASSUME IInv PROVE ClimbsInOrder
  <2>1. PolicyInv(Now) /\ Now.decided = decided /\ Len(decided) \in Nat
    BY <1>1, PolicyTypes DEF IInv, PolicyInv, Now
  <2>2. DOMAIN decided = 1..Len(decided)
    BY <2>1, PolicyTypes DEF PolicyInv
  <2>3. \A n \in 1..Len(decided) : Climbing(Now, n)
    BY <2>1 DEF PolicyInv
  <2> SUFFICES ASSUME NEW n \in 1..Len(decided)
               PROVE  LET earlier == {m \in 1..(n - 1) :
                                       TypeOf[decided[m].incident] = TypeOf[decided[n].incident]}
                      IN  /\ \A m \in earlier : decided[m].turns + Cooldown <= decided[n].turns
                          /\ \A k \in 2..Len(ladder) : decided[n].rung = ladder[k] =>
                               \E m \in earlier : /\ decided[m].rung = ladder[k - 1]
                                                  /\ decided[m].files = decided[n].files
    BY <2>2 DEF ClimbsInOrder
  <2>4. Climbing(Now, n)
    BY <2>3
  <2> QED
    BY <2>1, <2>4 DEF Climbing, TypeAt
<1>2. IInv => ClimbsInOrder
  BY <1>1
<1> QED
  BY <1>2, LadderInvariant, PTL

(* What the observer asks: never what a question before asked and expired with.*)
AsksNew ==
  \A n \in Numbers : Ask(n) =>
    \A m \in recorded : <<m, "expired">> \in outcomes =>
                          decided[m].incident # decided[n].incident

LEMMA AsksNewStep ==
  ASSUME Cooldown > 0, IInv
  PROVE  AsksNew
<1> SUFFICES ASSUME NEW n \in Numbers, Ask(n), NEW m \in recorded, <<m, "expired">> \in outcomes
             PROVE  decided[m].incident # decided[n].incident
  BY DEF AsksNew
<1>1. batch \in Seq(Nat) /\ batch # <<>> /\ n = batch[1] /\ decided[n].does = "escalate"
  BY DEF Ask, Begin, IInv, TypeOK
<1>2. 1 \in 1..Len(batch)
  BY <1>1
<1>3. decided[n].incident \notin expired
  BY <1>1, <1>2 DEF IInv, BatchInv
<1>4. decided[m].incident \in expired
  BY DEF IInv, ExpiredInv, TypeOK
<1> QED
  BY <1>3, <1>4

(* With a cooldown, a question that expired is not put again, though it may be *)
(* waiting in the batch when the one before it expires.                        *)
THEOREM LadderAsksOnce ==
  ASSUME Cooldown > 0
  PROVE  Spec => ExpiredNotAsked
<1>1. IInv /\ [Next]_vars => [AsksNew]_vars
  BY AsksNewStep
<1> QED
  BY <1>1, LadderInvariant, PTL DEF Spec, ExpiredNotAsked, AsksNew

(* What a step of a closed observer may do to the session.                     *)
Silent ==
  closed /\ obs' # obs => /\ steers' \subseteq steers /\ (gate' => gate)
                          /\ obs' \notin {"ask", "consult"}

(* Once the session is ending or aborted, or the observer detached, nothing    *)
(* the observer has in hand reaches the session.                               *)
THEOREM LadderSilent == Spec => SilentOnceClosed
<1>1. [Next]_vars => [Silent]_vars
  BY DEF Silent, Next, SessionStep, ObserverStep, Reply, Over, Work, UserAborts, BeginEnding,
     EndSession, Settle, Detach, Fold, Decide, NextEvent, Leave, Restore, Guide, RequirePlan,
     AbortSession, Ask, Consult, Begin, Expire, Withdrawn, ConsultFails, Answered, AskFails,
     Replied, Consulted, InTime, vars
<1> QED
  BY <1>1, PTL DEF Spec, SilentOnceClosed, Silent
=============================================================================
