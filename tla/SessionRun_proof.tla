-------------------------- MODULE SessionRun_proof --------------------------
(* Proofs about the runs of a session, for every number of steers, turns,      *)
(* recoveries, continuations and runs, with any of the events around the loop  *)
(* and every length of the conversation.                                       *)
EXTENDS SessionRun, FiniteSetTheorems, WellFoundedInduction, TLAPS

(* ---- Induction over sequences.                                              *)

(* Every non-empty set of numbers has a least one.                             *)
LEMMA Least ==
  ASSUME NEW T \in SUBSET Nat, T # {}
  PROVE  \E m \in T : \A k \in T : m <= k
<1> DEFINE R == OpToRel(<, Nat)
<1>1. IsWellFoundedOn(R, Nat)
  BY NatLessThanWellFounded
<1>2. \A x, y \in Nat : x < y => <<x, y>> \in R
  BY DEF OpToRel
<1> HIDE DEF R
<1>3. PICK x \in T : \A y \in T : ~ (<<y, x>> \in R)
  BY <1>1, WFMin
<1>4. ASSUME NEW k \in T PROVE x <= k
  <2>1. k \in Nat /\ x \in Nat
    OBVIOUS
  <2>2. ~(k < x)
    BY <1>2, <1>3, <2>1
  <2> QED
    BY <2>1, <2>2
<1> QED
  BY <1>4

(* Induction up to a number, over the set of the numbers it holds for.         *)
LEMMA UpTo ==
  ASSUME NEW S, NEW N \in Nat, 0 \in S, \A n \in 0..N : n \in S /\ n < N => n + 1 \in S
  PROVE  0..N \subseteq S
<1> SUFFICES ASSUME NEW x \in 0..N, x \notin S PROVE FALSE
  OBVIOUS
<1> DEFINE T == {n \in Nat : n \in 0..N /\ n \notin S}
<1>1. T \in SUBSET Nat /\ T # {}
  OBVIOUS
<1>2. PICK m \in T : \A k \in T : m <= k
  BY <1>1, Least
<1>3. m # 0
  BY <1>2
<1>4. m - 1 \in 0..N /\ m - 1 \notin T
  BY <1>2, <1>3
<1>5. m - 1 \in S /\ m - 1 < N
  BY <1>4, <1>2
<1> QED
  BY <1>2, <1>4, <1>5

(* What lines say of steers, one line after the other.                         *)
Tells(so, l) == IF l.kind \in {"steer", "undelivered"} THEN Append(so, l.steer) ELSE so

LEMMA ToldLoop ==
  ASSUME NEW s \in Seq(Line)
  PROVE  \E f : /\ f[0] = <<>> /\ \A n \in 1..Len(s) : f[n] = Tells(f[n - 1], s[n])
                /\ Told(s) = f[Len(s)]
<1> DEFINE Loop(n, f) ==
      f = [i \in 0..n |-> IF i = 0 THEN <<>> ELSE Tells(f[i - 1], s[i])]
<1> DEFINE S == {n \in 0..Len(s) : \E f : Loop(n, f)}
<1>0. Len(s) \in Nat
  OBVIOUS
<1>1. 0 \in S
  <2> DEFINE f == [i \in 0..0 |-> <<>>]
  <2>1. Loop(0, f)
    OBVIOUS
  <2>2. \E h : Loop(0, h)
    BY <2>1, Zenon
  <2> HIDE DEF Loop
  <2> QED
    BY <1>0, <2>2
<1>2. ASSUME NEW n \in 0..Len(s), n \in S, n < Len(s) PROVE n + 1 \in S
  <2>1. PICK f : Loop(n, f)
    BY <1>2
  <2> DEFINE g == [i \in 0..n+1 |-> IF i <= n THEN f[i] ELSE Tells(f[n], s[n+1])]
  <2>2. \A i \in 0..n+1 : g[i] = IF i = 0 THEN <<>> ELSE Tells(g[i - 1], s[i])
    BY <2>1
  <2>3. Loop(n+1, g)
    BY <2>2
  <2>4. \E h : Loop(n+1, h)
    BY <2>3, Zenon
  <2> HIDE DEF Loop
  <2> QED
    BY <1>2, <2>4
<1>3. 0..Len(s) \subseteq S
  <2> HIDE DEF S
  <2> QED
    BY <1>0, <1>1, <1>2, UpTo
<1>4. PICK f : Loop(Len(s), f)
  BY <1>0, <1>3
<1> DEFINE told == CHOOSE h : Loop(Len(s), h)
<1>5. Told(s) = told[Len(s)]
  BY DEF Told, Tells
<1>6. Loop(Len(s), told)
  <2> HIDE DEF Loop
  <2> QED
    BY <1>4
<1> HIDE DEF told
<1>7. told[0] = <<>> /\ \A n \in 1..Len(s) : told[n] = Tells(told[n - 1], s[n])
  BY <1>0, <1>6
<1> QED
  BY <1>5, <1>7

LEMMA ToldAppend ==
  ASSUME NEW s \in Seq(Line), NEW l \in Line
  PROVE  Told(Append(s, l)) = Tells(Told(s), l)
<1> DEFINE N == Len(s)
           t == Append(s, l)
<1>1. N \in Nat /\ t \in Seq(Line) /\ Len(t) = N + 1 /\ t[N + 1] = l
      /\ \A n \in 1..N : t[n] = s[n]
  OBVIOUS
<1> HIDE DEF t
<1>2. PICK f : /\ f[0] = <<>> /\ \A n \in 1..N : f[n] = Tells(f[n - 1], s[n])
               /\ Told(s) = f[N]
  BY ToldLoop
<1>3. PICK g : /\ g[0] = <<>> /\ \A n \in 1..Len(t) : g[n] = Tells(g[n - 1], t[n])
               /\ Told(t) = g[Len(t)]
  BY <1>1, ToldLoop
<1> DEFINE S == {n \in 0..N : g[n] = f[n]}
<1>4. 0 \in S
  BY <1>1, <1>2, <1>3
<1>5. ASSUME NEW n \in 0..N, n \in S, n < N PROVE n + 1 \in S
  <2>1. n + 1 \in 1..N /\ n + 1 \in 1..Len(t) /\ (n + 1) - 1 = n
    BY <1>1, <1>5
  <2>2. g[n + 1] = Tells(g[n], t[n + 1]) /\ f[n + 1] = Tells(f[n], s[n + 1])
    BY <1>2, <1>3, <2>1
  <2> QED
    BY <1>1, <1>5, <2>1, <2>2
<1>6. 0..N \subseteq S
  <2> HIDE DEF S
  <2> QED
    BY <1>1, <1>4, <1>5, UpTo
<1>7. g[N] = f[N] /\ N + 1 \in 1..Len(t) /\ (N + 1) - 1 = N
  BY <1>1, <1>6
<1>8. g[N + 1] = Tells(g[N], t[N + 1])
  BY <1>3, <1>7
<1> QED
  BY <1>1, <1>2, <1>3, <1>7, <1>8 DEF t

(* t is s without its k-th line.                                               *)
Without(s, k, t) ==
  /\ s \in Seq(Line) /\ t \in Seq(Line) /\ k \in 1..Len(s) /\ Len(s) = Len(t) + 1
  /\ \A n \in 1..Len(t) : t[n] = IF n < k THEN s[n] ELSE s[n + 1]

LEMMA ToldWithout ==
  ASSUME NEW s, NEW t, NEW k, Without(s, k, t), s[k].kind \notin {"steer", "undelivered"}
  PROVE  Told(t) = Told(s)
<1> DEFINE N == Len(s)
<1>1. s \in Seq(Line) /\ t \in Seq(Line) /\ k \in 1..N /\ N \in Nat /\ Len(t) = N - 1
  BY DEF Without
<1>2. PICK f : /\ f[0] = <<>> /\ \A n \in 1..N : f[n] = Tells(f[n - 1], s[n])
               /\ Told(s) = f[N]
  BY <1>1, ToldLoop
<1>3. PICK g : /\ g[0] = <<>> /\ \A n \in 1..Len(t) : g[n] = Tells(g[n - 1], t[n])
               /\ Told(t) = g[Len(t)]
  BY <1>1, ToldLoop
<1> DEFINE S == {n \in 0..N : f[n] = IF n < k THEN g[n] ELSE g[n - 1]}
<1>4. 0 \in S
  BY <1>1, <1>2, <1>3
<1>5. ASSUME NEW n \in 0..N, n \in S, n < N PROVE n + 1 \in S
  <2>1. n + 1 \in 1..N /\ (n + 1) - 1 = n /\ f[n + 1] = Tells(f[n], s[n + 1])
    <3>1. n + 1 \in 1..N /\ (n + 1) - 1 = n
      BY <1>1, <1>5
    <3> QED
      BY <1>2, <3>1
  <2>2. CASE n + 1 < k
    <3>1. n + 1 \in 1..Len(t) /\ n < k
      BY <1>1, <1>5, <2>2
    <3>2. g[n + 1] = Tells(g[n], t[n + 1]) /\ t[n + 1] = s[n + 1] /\ f[n] = g[n]
      BY <1>3, <1>5, <2>1, <2>2, <3>1 DEF Without
    <3> QED
      BY <2>1, <2>2, <3>2
  <2>3. CASE n + 1 = k
    <3>1. f[n] = g[n] /\ f[n + 1] = f[n] /\ n + 1 >= k
      BY <1>1, <1>5, <2>1, <2>3 DEF Tells
    <3> QED
      BY <2>1, <2>3, <3>1
  <2>4. CASE n + 1 > k
    <3>1. n \in 1..Len(t) /\ n >= k
      BY <1>1, <1>5, <2>4
    <3>2. g[n] = Tells(g[n - 1], t[n]) /\ t[n] = s[n + 1] /\ f[n] = g[n - 1]
      BY <1>1, <1>3, <1>5, <3>1 DEF Without
    <3> QED
      BY <1>1, <2>1, <2>4, <3>2
  <2> QED
    BY <1>1, <2>2, <2>3, <2>4
<1>6. 0..N \subseteq S
  <2> HIDE DEF S
  <2> QED
    BY <1>1, <1>4, <1>5, UpTo
<1>7. f[N] = g[N - 1]
  BY <1>1, <1>6
<1> QED
  BY <1>1, <1>2, <1>3, <1>7

(* What a line makes of what was replayed before it.                           *)
State == [messages : Seq(Blocks), streamed : BOOLEAN, authoritative : BOOLEAN]

LEMMA FoldedIs ==
  ASSUME NEW so \in State, NEW line \in Line
  PROVE  LET f == Folded(so, line)
             popped == IF ~so.authoritative /\ OfAssistant(so.messages) /\ OfAssistant(line.blocks)
                       THEN Front(so.messages) ELSE so.messages
         IN  /\ f \in State
             /\ line.kind = "context.compact" =>
                  f.messages = line.blocks /\ ~f.streamed /\ f.authoritative
             /\ line.kind = "message.append" =>
                  f.messages = popped \o line.blocks /\ ~f.streamed /\ f.authoritative
             /\ line.kind = "model.delta" =>
                  /\ f.messages = so.messages /\ f.authoritative = so.authoritative
                  /\ f.streamed = ~so.authoritative
             /\ line.kind = "model.response" =>
                  /\ f.messages = IF so.streamed THEN Append(so.messages, "assistant") ELSE so.messages
                  /\ f.authoritative = so.authoritative /\ ~f.streamed
             /\ line.kind = "turn.aborted" =>
                  f.messages = so.messages /\ f.authoritative = so.authoritative /\ ~f.streamed
             /\ line.kind \notin {"context.compact", "message.append", "model.delta",
                                  "model.response", "turn.aborted"} =>
                  /\ f.messages = so.messages \o line.blocks
                  /\ f.authoritative = so.authoritative /\ f.streamed = so.streamed
<1> DEFINE popped == IF ~so.authoritative /\ OfAssistant(so.messages) /\ OfAssistant(line.blocks)
                     THEN Front(so.messages) ELSE so.messages
<1>1. /\ so.messages \in Seq(Blocks) /\ so.streamed \in BOOLEAN /\ so.authoritative \in BOOLEAN
      /\ line.blocks \in Seq(Blocks) /\ "assistant" \in Blocks
      /\ so = [messages |-> so.messages, streamed |-> so.streamed, authoritative |-> so.authoritative]
  BY DEF State, Line, Blocks
<1>2. popped \in Seq(Blocks)
  BY <1>1 DEF Front, OfAssistant
<1>3. popped \o line.blocks \in Seq(Blocks) /\ so.messages \o line.blocks \in Seq(Blocks)
      /\ Append(so.messages, "assistant") \in Seq(Blocks)
  BY <1>1, <1>2
<1>4. CASE line.kind = "context.compact"
  BY <1>1, <1>4 DEF Folded, State
<1>5. CASE line.kind = "message.append"
  <2>1. Folded(so, line) = [messages |-> popped \o line.blocks, streamed |-> FALSE, authoritative |-> TRUE]
    BY <1>5 DEF Folded
  <2> HIDE DEF popped
  <2>2. Folded(so, line) \in State
    BY <1>3, <2>1 DEF State
  <2>3. /\ Folded(so, line).messages = popped \o line.blocks
        /\ ~Folded(so, line).streamed /\ Folded(so, line).authoritative
    BY <2>1
  <2> QED
    BY <1>5, <2>2, <2>3 DEF popped
<1>6. CASE line.kind = "model.delta"
  BY <1>1, <1>6 DEF Folded, State
<1>7. CASE line.kind = "model.response"
  BY <1>1, <1>3, <1>7 DEF Folded, State
<1>8. CASE line.kind = "turn.aborted"
  BY <1>1, <1>8 DEF Folded, State
<1>9. CASE line.kind \notin {"context.compact", "message.append", "model.delta",
                            "model.response", "turn.aborted"}
  BY <1>1, <1>3, <1>9 DEF Folded, State
<1> QED
  BY <1>4, <1>5, <1>6, <1>7, <1>8, <1>9

LEMMA SameState ==
  ASSUME NEW a \in State, NEW b \in State, a.messages = b.messages,
         a.streamed = b.streamed, a.authoritative = b.authoritative
  PROVE  a = b
BY DEF State

LEMMA BlankTyped == Blank \in State /\ Blank.messages = <<>> /\ ~Blank.streamed /\ ~Blank.authoritative
BY DEF Blank, State

(* What lines make of it, one after the other.                                 *)
LEMMA ReplayLoop ==
  ASSUME NEW so, NEW s \in Seq(Line)
  PROVE  \E f : /\ f[0] = so /\ \A n \in 1..Len(s) : f[n] = Folded(f[n - 1], s[n])
                /\ Replay(so, s) = f[Len(s)]
<1> DEFINE Loop(n, f) ==
      f = [i \in 0..n |-> IF i = 0 THEN so ELSE Folded(f[i - 1], s[i])]
<1> DEFINE S == {n \in 0..Len(s) : \E f : Loop(n, f)}
<1>0. Len(s) \in Nat
  OBVIOUS
<1>1. 0 \in S
  <2> DEFINE f == [i \in 0..0 |-> so]
  <2>1. Loop(0, f)
    OBVIOUS
  <2>2. \E h : Loop(0, h)
    BY <2>1, Zenon
  <2> HIDE DEF Loop
  <2> QED
    BY <1>0, <2>2
<1>2. ASSUME NEW n \in 0..Len(s), n \in S, n < Len(s) PROVE n + 1 \in S
  <2>1. PICK f : Loop(n, f)
    BY <1>2
  <2> DEFINE g == [i \in 0..n+1 |-> IF i <= n THEN f[i] ELSE Folded(f[n], s[n+1])]
  <2>2. \A i \in 0..n+1 : g[i] = IF i = 0 THEN so ELSE Folded(g[i - 1], s[i])
    BY <2>1
  <2>3. Loop(n+1, g)
    BY <2>2
  <2>4. \E h : Loop(n+1, h)
    BY <2>3, Zenon
  <2> HIDE DEF Loop
  <2> QED
    BY <1>2, <2>4
<1>3. 0..Len(s) \subseteq S
  <2> HIDE DEF S
  <2> QED
    BY <1>0, <1>1, <1>2, UpTo
<1>4. PICK f : Loop(Len(s), f)
  BY <1>0, <1>3
<1> DEFINE at == CHOOSE h : Loop(Len(s), h)
<1>5. Replay(so, s) = at[Len(s)]
  BY DEF Replay
<1>6. Loop(Len(s), at)
  <2> HIDE DEF Loop
  <2> QED
    BY <1>4
<1> HIDE DEF at
<1>7. at[0] = so /\ \A n \in 1..Len(s) : at[n] = Folded(at[n - 1], s[n])
  BY <1>0, <1>6
<1> QED
  BY <1>5, <1>7

LEMMA ReplayAppend ==
  ASSUME NEW so, NEW s \in Seq(Line), NEW l \in Line
  PROVE  Replay(so, Append(s, l)) = Folded(Replay(so, s), l)
<1> DEFINE N == Len(s)
           t == Append(s, l)
<1>1. N \in Nat /\ t \in Seq(Line) /\ Len(t) = N + 1 /\ t[N + 1] = l
      /\ \A n \in 1..N : t[n] = s[n]
  OBVIOUS
<1> HIDE DEF t
<1>2. PICK f : /\ f[0] = so /\ \A n \in 1..N : f[n] = Folded(f[n - 1], s[n])
               /\ Replay(so, s) = f[N]
  BY ReplayLoop
<1>3. PICK g : /\ g[0] = so /\ \A n \in 1..Len(t) : g[n] = Folded(g[n - 1], t[n])
               /\ Replay(so, t) = g[Len(t)]
  BY <1>1, ReplayLoop
<1> DEFINE S == {n \in 0..N : g[n] = f[n]}
<1>4. 0 \in S
  BY <1>1, <1>2, <1>3
<1>5. ASSUME NEW n \in 0..N, n \in S, n < N PROVE n + 1 \in S
  <2>1. n + 1 \in 1..N /\ n + 1 \in 1..Len(t) /\ (n + 1) - 1 = n
    BY <1>1, <1>5
  <2>2. g[n + 1] = Folded(g[n], t[n + 1]) /\ f[n + 1] = Folded(f[n], s[n + 1])
    BY <1>2, <1>3, <2>1
  <2> QED
    BY <1>1, <1>5, <2>1, <2>2
<1>6. 0..N \subseteq S
  <2> HIDE DEF S
  <2> QED
    BY <1>1, <1>4, <1>5, UpTo
<1>7. g[N] = f[N] /\ N + 1 \in 1..Len(t) /\ (N + 1) - 1 = N
  BY <1>1, <1>6
<1>8. g[N + 1] = Folded(g[N], t[N + 1])
  BY <1>3, <1>7
<1> QED
  BY <1>1, <1>2, <1>3, <1>7, <1>8 DEF t

(* Lines before others are replayed first.                                     *)
LEMMA ReplayPrefix ==
  ASSUME NEW so, NEW s \in Seq(Line), NEW u \in Seq(Line), Len(u) <= Len(s),
         \A i \in 1..Len(u) : u[i] = s[i],
         NEW f, f[0] = so, \A n \in 1..Len(s) : f[n] = Folded(f[n - 1], s[n])
  PROVE  f[Len(u)] = Replay(so, u)
<1> DEFINE N == Len(u)
<1>1. N \in Nat /\ Len(s) \in Nat /\ N <= Len(s)
  OBVIOUS
<1>2. PICK g : /\ g[0] = so /\ \A n \in 1..N : g[n] = Folded(g[n - 1], u[n])
               /\ Replay(so, u) = g[N]
  BY ReplayLoop
<1> DEFINE S == {n \in 0..N : g[n] = f[n]}
<1>3. 0 \in S
  BY <1>1, <1>2
<1>4. ASSUME NEW n \in 0..N, n \in S, n < N PROVE n + 1 \in S
  <2>1. n + 1 \in 1..N /\ n + 1 \in 1..Len(s) /\ (n + 1) - 1 = n
    BY <1>1, <1>4
  <2>2. g[n + 1] = Folded(g[n], u[n + 1]) /\ f[n + 1] = Folded(f[n], s[n + 1])
    BY <1>2, <2>1
  <2> QED
    BY <1>4, <2>1, <2>2
<1>5. 0..N \subseteq S
  <2> HIDE DEF S
  <2> QED
    BY <1>1, <1>3, <1>4, UpTo
<1>6. g[N] = f[N]
  BY <1>1, <1>5
<1> QED
  BY <1>2, <1>6

LEMMA ReplayConcat ==
  ASSUME NEW so, NEW s \in Seq(Line), NEW u \in Seq(Line), NEW v \in Seq(Line),
         Len(s) = Len(u) + Len(v), \A i \in 1..Len(u) : s[i] = u[i],
         \A i \in 1..Len(v) : s[Len(u) + i] = v[i]
  PROVE  Replay(so, s) = Replay(Replay(so, u), v)
<1> DEFINE K == Len(u)
           N == Len(v)
<1>1. N \in Nat /\ K \in Nat /\ Len(s) = K + N
  OBVIOUS
<1>2. PICK f : /\ f[0] = so /\ \A n \in 1..Len(s) : f[n] = Folded(f[n - 1], s[n])
               /\ Replay(so, s) = f[Len(s)]
  BY ReplayLoop
<1>3. f[K] = Replay(so, u)
  <2>1. Len(u) <= Len(s)
    BY <1>1
  <2> QED
    BY <1>2, <2>1, ReplayPrefix
<1>4. PICK g : /\ g[0] = Replay(so, u) /\ \A n \in 1..N : g[n] = Folded(g[n - 1], v[n])
               /\ Replay(Replay(so, u), v) = g[N]
  BY ReplayLoop
<1> DEFINE S == {n \in 0..N : g[n] = f[K + n]}
<1>5. 0 \in S
  BY <1>1, <1>3, <1>4
<1>6. ASSUME NEW n \in 0..N, n \in S, n < N PROVE n + 1 \in S
  <2>1. /\ n + 1 \in 1..N /\ (n + 1) - 1 = n
        /\ K + (n + 1) \in 1..Len(s) /\ (K + (n + 1)) - 1 = K + n
    BY <1>1, <1>6
  <2>2. g[n + 1] = Folded(g[n], v[n + 1]) /\ f[K + (n + 1)] = Folded(f[K + n], s[K + (n + 1)])
    BY <1>2, <1>4, <2>1
  <2>3. s[K + (n + 1)] = v[n + 1]
    BY <2>1
  <2> QED
    BY <1>6, <2>1, <2>2, <2>3
<1>7. 0..N \subseteq S
  <2> HIDE DEF S
  <2> QED
    BY <1>1, <1>5, <1>6, UpTo
<1>8. g[N] = f[K + N]
  <2>1. N \in S
    <3> HIDE DEF S
    <3> QED
      BY <1>1, <1>7
  <2> QED
    BY <2>1
<1> QED
  BY <1>1, <1>2, <1>4, <1>8

(* A line that changes nothing can be left out.                                *)
LEMMA ReplayWithout ==
  ASSUME NEW so, NEW s, NEW t, NEW k, Without(s, k, t),
         NEW u \in Seq(Line), Len(u) = k - 1, \A i \in 1..Len(u) : u[i] = s[i],
         Folded(Replay(so, u), s[k]) = Replay(so, u)
  PROVE  Replay(so, t) = Replay(so, s)
<1> DEFINE N == Len(s)
<1>1. s \in Seq(Line) /\ t \in Seq(Line) /\ k \in 1..N /\ N \in Nat /\ Len(t) = N - 1
  BY DEF Without
<1>2. PICK f : /\ f[0] = so /\ \A n \in 1..N : f[n] = Folded(f[n - 1], s[n])
               /\ Replay(so, s) = f[N]
  BY <1>1, ReplayLoop
<1>3. PICK g : /\ g[0] = so /\ \A n \in 1..Len(t) : g[n] = Folded(g[n - 1], t[n])
               /\ Replay(so, t) = g[Len(t)]
  BY <1>1, ReplayLoop
<1>8. f[k - 1] = Replay(so, u)
  <2>1. Len(u) <= Len(s) /\ s \in Seq(Line) /\ Len(u) = k - 1
    BY <1>1
  <2>2. f[Len(u)] = Replay(so, u)
    BY <1>2, <2>1, ReplayPrefix
  <2> QED
    BY <2>1, <2>2
<1> DEFINE S == {n \in 0..N : f[n] = IF n < k THEN g[n] ELSE g[n - 1]}
<1>4. 0 \in S
  BY <1>1, <1>2, <1>3
<1>5. ASSUME NEW n \in 0..N, n \in S, n < N PROVE n + 1 \in S
  <2>1. n + 1 \in 1..N /\ (n + 1) - 1 = n /\ f[n + 1] = Folded(f[n], s[n + 1])
    <3>1. n + 1 \in 1..N /\ (n + 1) - 1 = n
      BY <1>1, <1>5
    <3> QED
      BY <1>2, <3>1
  <2>2. CASE n + 1 < k
    <3>1. n + 1 \in 1..Len(t) /\ n < k
      BY <1>1, <1>5, <2>2
    <3>2. g[n + 1] = Folded(g[n], t[n + 1]) /\ t[n + 1] = s[n + 1] /\ f[n] = g[n]
      BY <1>3, <1>5, <2>1, <2>2, <3>1 DEF Without
    <3> QED
      BY <2>1, <2>2, <3>2
  <2>3. CASE n + 1 = k
    <3>1. f[n] = g[n] /\ n + 1 >= k /\ n = k - 1
      BY <1>1, <1>5, <2>1, <2>3
    <3>2. f[n + 1] = f[n]
      BY <1>8, <2>1, <2>3, <3>1
    <3> QED
      BY <2>1, <2>3, <3>1, <3>2
  <2>4. CASE n + 1 > k
    <3>1. n \in 1..Len(t) /\ n >= k
      BY <1>1, <1>5, <2>4
    <3>2. g[n] = Folded(g[n - 1], t[n]) /\ t[n] = s[n + 1] /\ f[n] = g[n - 1]
      BY <1>1, <1>3, <1>5, <3>1 DEF Without
    <3> QED
      BY <1>1, <2>1, <2>4, <3>2
  <2> QED
    BY <1>1, <2>2, <2>3, <2>4
<1>6. 0..N \subseteq S
  <2> HIDE DEF S
  <2> QED
    BY <1>1, <1>4, <1>5, UpTo
<1>7. f[N] = g[N - 1]
  BY <1>1, <1>6
<1> QED
  BY <1>1, <1>2, <1>3, <1>7

LEMMA ReplayTyped ==
  ASSUME NEW so \in State, NEW s \in Seq(Line)
  PROVE  Replay(so, s) \in State
<1> DEFINE N == Len(s)
<1>1. N \in Nat
  OBVIOUS
<1>2. PICK f : /\ f[0] = so /\ \A n \in 1..N : f[n] = Folded(f[n - 1], s[n])
               /\ Replay(so, s) = f[N]
  BY ReplayLoop
<1> DEFINE S == {n \in 0..N : f[n] \in State}
<1>3. 0 \in S
  BY <1>1, <1>2
<1>4. ASSUME NEW n \in 0..N, n \in S, n < N PROVE n + 1 \in S
  <2>1. n + 1 \in 1..N /\ (n + 1) - 1 = n
    BY <1>1, <1>4
  <2>2. f[n + 1] = Folded(f[n], s[n + 1]) /\ s[n + 1] \in Line /\ f[n] \in State
    BY <1>2, <1>4, <2>1
  <2>3. f[n + 1] \in State
    BY <2>2, FoldedIs
  <2> QED
    BY <2>1, <2>3
<1>5. 0..N \subseteq S
  <2> HIDE DEF S
  <2> QED
    BY <1>1, <1>3, <1>4, UpTo
<1> QED
  BY <1>1, <1>2, <1>5

(* Whether text was streamed, and whether lines carry whole messages, does not *)
(* depend on the conversation they are added to.                               *)
LEMMA ReplayFlags ==
  ASSUME NEW a \in State, NEW b \in State, a.streamed = b.streamed,
         a.authoritative = b.authoritative, NEW s \in Seq(Line)
  PROVE  /\ Replay(a, s).streamed = Replay(b, s).streamed
         /\ Replay(a, s).authoritative = Replay(b, s).authoritative
<1> DEFINE N == Len(s)
           Alike(x, y) == /\ x \in State /\ y \in State
                          /\ x.streamed = y.streamed /\ x.authoritative = y.authoritative
<1>1. N \in Nat
  OBVIOUS
<1>2. PICK f : /\ f[0] = a /\ \A n \in 1..N : f[n] = Folded(f[n - 1], s[n])
               /\ Replay(a, s) = f[N]
  BY ReplayLoop
<1>3. PICK g : /\ g[0] = b /\ \A n \in 1..N : g[n] = Folded(g[n - 1], s[n])
               /\ Replay(b, s) = g[N]
  BY ReplayLoop
<1>4. ASSUME NEW x, NEW y, Alike(x, y), NEW l \in Line PROVE Alike(Folded(x, l), Folded(y, l))
  <2>1. x \in State /\ y \in State /\ x.streamed = y.streamed /\ x.authoritative = y.authoritative
    BY <1>4
  <2>2. Folded(x, l) \in State /\ Folded(y, l) \in State
    BY <2>1, FoldedIs
  <2>3. CASE l.kind \in {"context.compact", "message.append"}
    <3>1. /\ ~Folded(x, l).streamed /\ Folded(x, l).authoritative
          /\ ~Folded(y, l).streamed /\ Folded(y, l).authoritative
      BY <2>1, <2>3, FoldedIs
    <3>2. \A z \in State : z.streamed \in BOOLEAN /\ z.authoritative \in BOOLEAN
      BY DEF State
    <3>3. /\ Folded(x, l).streamed = FALSE /\ Folded(x, l).authoritative = TRUE
          /\ Folded(y, l).streamed = FALSE /\ Folded(y, l).authoritative = TRUE
      BY <2>2, <3>1, <3>2, Zenon
    <3> QED
      BY <2>2, <3>3
  <2>4. CASE l.kind = "model.delta"
    <3>1. /\ Folded(x, l).authoritative = x.authoritative
          /\ Folded(y, l).authoritative = y.authoritative
          /\ Folded(x, l).streamed = ~x.authoritative
          /\ Folded(y, l).streamed = ~y.authoritative
      BY <2>1, <2>4, FoldedIs
    <3> QED
      BY <2>1, <2>2, <3>1, Zenon
  <2>5. CASE l.kind \in {"model.response", "turn.aborted"}
    <3>1. /\ ~Folded(x, l).streamed /\ Folded(x, l).authoritative = x.authoritative
          /\ ~Folded(y, l).streamed /\ Folded(y, l).authoritative = y.authoritative
      BY <2>1, <2>5, FoldedIs
    <3>2. \A z \in State : z.streamed \in BOOLEAN
      BY DEF State
    <3>3. Folded(x, l).streamed = FALSE /\ Folded(y, l).streamed = FALSE
      BY <2>2, <3>1, <3>2, Zenon
    <3> QED
      BY <2>1, <2>2, <3>1, <3>3
  <2>6. CASE l.kind \notin {"context.compact", "message.append", "model.delta",
                           "model.response", "turn.aborted"}
    BY <2>1, <2>2, <2>6, FoldedIs
  <2> QED
    BY <2>3, <2>4, <2>5, <2>6
<1> HIDE DEF Alike
<1> DEFINE S == {n \in 0..N : Alike(f[n], g[n])}
<1>5. 0 \in S
  BY <1>1, <1>2, <1>3 DEF Alike
<1>6. ASSUME NEW n \in 0..N, n \in S, n < N PROVE n + 1 \in S
  <2>1. n + 1 \in 1..N /\ (n + 1) - 1 = n /\ n + 1 \in 0..N
    BY <1>1, <1>6
  <2>2. f[n + 1] = Folded(f[n], s[n + 1]) /\ g[n + 1] = Folded(g[n], s[n + 1]) /\ s[n + 1] \in Line
    BY <1>2, <1>3, <2>1
  <2>3. Alike(f[n + 1], g[n + 1])
    BY <1>4, <1>6, <2>2
  <2> QED
    BY <2>1, <2>3
<1>7. 0..N \subseteq S
  <2> HIDE DEF S
  <2> QED
    BY <1>1, <1>5, <1>6, UpTo
<1>8. Alike(f[N], g[N])
  BY <1>1, <1>7
<1> QED
  BY <1>2, <1>3, <1>8 DEF Alike

(* So what is passed over in one is passed over in the other.                  *)
LEMMA PassesAlike ==
  ASSUME NEW a \in State, NEW b \in State, a.streamed = b.streamed,
         a.authoritative = b.authoritative, NEW l \in Line,
         l.kind \in {"model.delta", "model.response"}, Folded(a, l) = a
  PROVE  Folded(b, l) = b
<1>1. Folded(b, l) \in State /\ Folded(a, l) \in State
      /\ \A z \in State : z.streamed \in BOOLEAN /\ z.authoritative \in BOOLEAN
                         /\ z.messages \in Seq(Blocks)
  BY FoldedIs DEF State
<1>2. CASE l.kind = "model.delta"
  <2>0. /\ Folded(a, l).streamed = ~a.authoritative /\ Folded(b, l).streamed = ~b.authoritative
        /\ Folded(b, l).authoritative = b.authoritative /\ Folded(b, l).messages = b.messages
    BY <1>2, FoldedIs
  <2>1. a.streamed = ~a.authoritative
    BY <2>0, Zenon
  <2>2. /\ Folded(b, l).streamed = b.streamed /\ Folded(b, l).authoritative = b.authoritative
        /\ Folded(b, l).messages = b.messages
    BY <2>0, <2>1, Zenon
  <2> QED
    BY <1>1, <2>2, SameState
<1>3. CASE l.kind = "model.response"
  <2>1. ~Folded(a, l).streamed
    BY <1>3, FoldedIs
  <2>2. ~a.streamed
    BY <2>1
  <2>3. ~b.streamed
    BY <2>2
  <2>4. /\ ~Folded(b, l).streamed /\ Folded(b, l).authoritative = b.authoritative
        /\ Folded(b, l).messages = b.messages
    BY <1>3, <2>3, FoldedIs
  <2>5. Folded(b, l).streamed = b.streamed
    BY <1>1, <2>3, <2>4, Zenon
  <2> QED
    BY <1>1, <2>4, <2>5, SameState
<1> QED
  BY <1>2, <1>3

LEMMA ReplayNothing == \A so : Replay(so, <<>>) = so
<1> SUFFICES ASSUME NEW so PROVE Replay(so, <<>>) = so
  OBVIOUS
<1>1. <<>> \in Seq(Line) /\ Len(<<>>) = 0
  OBVIOUS
<1>2. \A s \in Seq(Line) : \E f : f[0] = so /\ Replay(so, s) = f[Len(s)]
  <2> TAKE s \in Seq(Line)
  <2>1. \E f : /\ f[0] = so /\ \A n \in 1..Len(s) : f[n] = Folded(f[n - 1], s[n])
              /\ Replay(so, s) = f[Len(s)]
    BY ReplayLoop
  <2> QED
    BY <2>1
<1>3. PICK f : f[0] = so /\ Replay(so, <<>>) = f[Len(<<>>)]
  BY <1>1, <1>2, Zenon
<1> QED
  BY <1>1, <1>3

LEMMA ToldNothing == Told(<<>>) = <<>>
<1>1. <<>> \in Seq(Line) /\ Len(<<>>) = 0
  OBVIOUS
<1>2. \A s \in Seq(Line) : \E f : f[0] = <<>> /\ Told(s) = f[Len(s)]
  <2> TAKE s \in Seq(Line)
  <2>1. \E f : /\ f[0] = <<>> /\ \A n \in 1..Len(s) : f[n] = Tells(f[n - 1], s[n])
              /\ Told(s) = f[Len(s)]
    BY ToldLoop
  <2> QED
    BY <2>1
<1>3. PICK f : f[0] = <<>> /\ Told(<<>>) = f[Len(<<>>)]
  BY <1>1, <1>2, Zenon
<1> QED
  BY <1>1, <1>3

LEMMA ToldTyped ==
  ASSUME NEW s \in Seq(Line)
  PROVE  Told(s) \in Seq(Steers \cup {None})
<1> DEFINE N == Len(s)
           X == Steers \cup {None}
<1>1. N \in Nat /\ <<>> \in Seq(X)
  OBVIOUS
<1>2. PICK f : /\ f[0] = <<>> /\ \A n \in 1..N : f[n] = Tells(f[n - 1], s[n])
               /\ Told(s) = f[N]
  BY ToldLoop
<1>3. \A n \in 1..N : s[n].steer \in X
  <2>1. \A n \in 1..N : s[n] \in Line
    OBVIOUS
  <2> QED
    BY <2>1 DEF Line
<1> HIDE DEF X
<1>7. f[0] \in Seq(X)
  BY <1>2
<1> DEFINE S == {n \in 0..N : f[n] \in Seq(X)}
<1>4. 0 \in S
  BY <1>1, <1>7
<1>5. ASSUME NEW n \in 0..N, n \in S, n < N PROVE n + 1 \in S
  <2>1. n + 1 \in 1..N /\ (n + 1) - 1 = n
    BY <1>1, <1>5
  <2>2. f[n + 1] = Tells(f[n], s[n + 1]) /\ s[n + 1].steer \in X /\ f[n] \in Seq(X)
    BY <1>2, <1>3, <1>5, <2>1
  <2>3. f[n + 1] \in Seq(X)
    BY <2>2 DEF Tells
  <2> QED
    BY <2>1, <2>3
<1>6. 0..N \subseteq S
  <2> HIDE DEF S
  <2> QED
    BY <1>1, <1>4, <1>5, UpTo
<1> QED
  BY <1>1, <1>2, <1>6 DEF X

(* A line without messages leaves a conversation as it is; an observer's line  *)
(* is one, and so are several.                                                 *)
LEMMA QuietFolded ==
  ASSUME NEW so \in State, NEW l \in Line, l.blocks = <<>>,
         l.kind \notin {"context.compact", "message.append", "model.delta",
                       "model.response", "turn.aborted"}
  PROVE  Folded(so, l) = so
<1>1. so.messages \in Seq(Blocks) /\ \A m \in Seq(Blocks) : m \o <<>> = m
  BY DEF State
<1>2. /\ Folded(so, l) \in State
      /\ Folded(so, l).messages = so.messages \o <<>>
      /\ Folded(so, l).authoritative = so.authoritative
      /\ Folded(so, l).streamed = so.streamed
  BY FoldedIs
<1> QED
  BY <1>1, <1>2, SameState

LEMMA NoteFolded ==
  ASSUME NEW so \in State
  PROVE  Folded(so, Plain("note")) = so
<1>1. Plain("note") \in Line /\ Plain("note").kind = "note" /\ Plain("note").blocks = <<>>
  BY DEF Plain, Line, Kinds
<1>2. Plain("note").kind \notin {"context.compact", "message.append", "model.delta",
                                "model.response", "turn.aborted"}
  BY <1>1
<1> QED
  BY <1>1, <1>2, QuietFolded

LEMMA ReplayQuiet ==
  ASSUME NEW so \in State, NEW s \in Seq(Line), \A i \in 1..Len(s) : s[i] = Plain("note")
  PROVE  Replay(so, s) = so
<1> DEFINE N == Len(s)
<1>1. N \in Nat
  OBVIOUS
<1>2. PICK f : /\ f[0] = so /\ \A n \in 1..N : f[n] = Folded(f[n - 1], s[n])
               /\ Replay(so, s) = f[N]
  BY ReplayLoop
<1> DEFINE S == {n \in 0..N : f[n] = so}
<1>3. 0 \in S
  BY <1>1, <1>2
<1>4. ASSUME NEW n \in 0..N, n \in S, n < N PROVE n + 1 \in S
  <2>1. n + 1 \in 1..N /\ (n + 1) - 1 = n
    BY <1>1, <1>4
  <2>2. f[n + 1] = Folded(so, Plain("note"))
    BY <1>2, <1>4, <2>1
  <2>3. f[n + 1] = so
    BY <2>2, NoteFolded
  <2> QED
    BY <2>1, <2>3
<1>5. 0..N \subseteq S
  <2> HIDE DEF S
  <2> QED
    BY <1>1, <1>3, <1>4, UpTo
<1> QED
  BY <1>1, <1>2, <1>5

(* ---- Conversations.                                                         *)

(* Results follow their calls; nothing but results follows calls, so that at   *)
(* most the last calls wait; and the task comes first.                         *)
Sound(m) ==
  m \in Seq(Blocks) /\ \A i \in 1..Len(m) : m[i] = "results" => i > 1 /\ m[i - 1] = "calls"
Answered(m) == Sound(m) /\ \A i \in 1..(Len(m) - 1) : m[i] = "calls" => m[i + 1] = "results"
Waits(m) == m # <<>> /\ m[Len(m)] = "calls"
Opens(m) == m # <<>> => m[1] = "user"

LEMMA AppendBlock ==
  ASSUME NEW m, Answered(m), NEW b \in Blocks, b = "results" <=> Waits(m)
  PROVE  /\ Answered(Append(m, b)) /\ (Waits(Append(m, b)) <=> b = "calls")
         /\ m # <<>> => Append(m, b)[1] = m[1]
<1> DEFINE n == Append(m, b)
           N == Len(m)
<1>1. /\ m \in Seq(Blocks) /\ N \in Nat /\ n \in Seq(Blocks) /\ Len(n) = N + 1 /\ n[N + 1] = b
      /\ \A i \in 1..N : n[i] = m[i]
      /\ n # <<>> /\ (m = <<>> <=> N = 0)
  BY DEF Answered, Sound
<1> HIDE DEF n
<1>2. ASSUME NEW i \in 1..Len(n), n[i] = "results" PROVE i > 1 /\ n[i - 1] = "calls"
  <2>1. CASE i = N + 1
    BY <1>1, <1>2, <2>1 DEF Waits
  <2>2. CASE i # N + 1
    <3>1. i \in 1..N /\ m[i] = "results"
      BY <1>1, <1>2, <2>2
    <3>2. i > 1 /\ m[i - 1] = "calls" /\ i - 1 \in 1..N
      BY <1>1, <3>1 DEF Answered, Sound
    <3> QED
      BY <1>1, <3>2
  <2> QED
    BY <2>1, <2>2
<1>3. ASSUME NEW i \in 1..(Len(n) - 1), n[i] = "calls" PROVE n[i + 1] = "results"
  <2>1. i \in 1..N /\ m[i] = "calls"
    BY <1>1, <1>3
  <2>2. CASE i = N
    BY <1>1, <2>1, <2>2 DEF Waits
  <2>3. CASE i # N
    <3>1. i \in 1..(N - 1) /\ i + 1 \in 1..N
      BY <1>1, <2>1, <2>3
    <3> QED
      BY <1>1, <2>1, <3>1 DEF Answered
  <2> QED
    BY <2>2, <2>3
<1>4. Answered(n)
  BY <1>1, <1>2, <1>3 DEF Answered, Sound
<1>5. (Waits(n) <=> b = "calls") /\ (m # <<>> => n[1] = m[1])
  BY <1>1 DEF Waits
<1> QED
  BY <1>4, <1>5 DEF n

(* Answered and not waiting is Paired.                                         *)
LEMMA AnsweredPaired ==
  ASSUME NEW m, Answered(m), ~Waits(m)
  PROVE  Paired(m)
<1>1. m \in Seq(Blocks) /\ Len(m) \in Nat /\ (Len(m) = 0 <=> m = <<>>)
  BY DEF Answered, Sound
<1>4. DOMAIN m = 1..Len(m)
  BY <1>1
<1>2. ASSUME NEW i \in 1..Len(m), m[i] = "calls" PROVE i < Len(m) /\ m[i + 1] = "results"
  <2>1. i \in Nat /\ 1 <= i /\ i <= Len(m) /\ i # Len(m)
    <3>1. i \in Nat /\ 1 <= i /\ i <= Len(m)
      BY <1>1, <1>2
    <3>2. m # <<>>
      BY <1>1, <3>1
    <3> QED
      BY <1>2, <3>1, <3>2 DEF Waits
  <2>2. i \in 1..(Len(m) - 1)
    BY <1>1, <1>2, <2>1
  <2> QED
    BY <1>2, <2>2 DEF Answered
<1>3. ASSUME NEW i \in 1..Len(m), m[i] = "results" PROVE i > 1 /\ m[i - 1] = "calls"
  BY <1>3 DEF Answered, Sound
<1> QED
  BY <1>2, <1>3, <1>4 DEF Paired

LEMMA ResumableWaitsNot ==
  ASSUME NEW m, Answered(m)
  PROVE  /\ Answered(Resumable(m)) /\ ~Waits(Resumable(m))
         /\ m # <<>> => Resumable(m) # <<>> /\ Resumable(m)[1] = m[1]
         /\ m = <<>> => Resumable(m) = <<>>
<1>1. Last(m) = m[Len(m)] /\ m \in Seq(Blocks)
  BY DEF Last, Answered, Sound
<1>2. CASE Waits(m)
  <2>1. Resumable(m) = Append(m, "results") /\ m # <<>> /\ Append(m, "results") # <<>>
    BY <1>1, <1>2 DEF Resumable, Waits
  <2>2. /\ Answered(Append(m, "results")) /\ ~Waits(Append(m, "results"))
        /\ Append(m, "results")[1] = m[1]
    <3>1. "results" \in Blocks /\ "results" # "calls"
      BY DEF Blocks
    <3> QED
      BY <1>2, <2>1, <3>1, AppendBlock
  <2> QED
    BY <2>1, <2>2
<1>3. CASE ~Waits(m)
  <2>1. Resumable(m) = m
    BY <1>1, <1>3 DEF Resumable, Waits
  <2> QED
    BY <1>3, <2>1
<1> QED
  BY <1>2, <1>3

(* The balancing of a conversation, one message after the other.               *)
Balances(m, b) == Append(IF b = "results" THEN m ELSE Resumable(m), b)

LEMMA BalancedLoop ==
  ASSUME NEW s \in Seq(Blocks)
  PROVE  \E f : /\ f[0] = <<>> /\ \A n \in 1..Len(s) : f[n] = Balances(f[n - 1], s[n])
                /\ Balanced(s) = Resumable(f[Len(s)])
<1> DEFINE Loop(n, f) ==
      f = [i \in 0..n |-> IF i = 0 THEN <<>> ELSE Balances(f[i - 1], s[i])]
<1> DEFINE S == {n \in 0..Len(s) : \E f : Loop(n, f)}
<1>0. Len(s) \in Nat
  OBVIOUS
<1>1. 0 \in S
  <2> DEFINE f == [i \in 0..0 |-> <<>>]
  <2>1. Loop(0, f)
    OBVIOUS
  <2>2. \E h : Loop(0, h)
    BY <2>1, Zenon
  <2> HIDE DEF Loop
  <2> QED
    BY <1>0, <2>2
<1>2. ASSUME NEW n \in 0..Len(s), n \in S, n < Len(s) PROVE n + 1 \in S
  <2>1. PICK f : Loop(n, f)
    BY <1>2
  <2> DEFINE g == [i \in 0..n+1 |-> IF i <= n THEN f[i] ELSE Balances(f[n], s[n+1])]
  <2>2. \A i \in 0..n+1 : g[i] = IF i = 0 THEN <<>> ELSE Balances(g[i - 1], s[i])
    BY <2>1
  <2>3. Loop(n+1, g)
    BY <2>2
  <2>4. \E h : Loop(n+1, h)
    BY <2>3, Zenon
  <2> HIDE DEF Loop
  <2> QED
    BY <1>2, <2>4
<1>3. 0..Len(s) \subseteq S
  <2> HIDE DEF S
  <2> QED
    BY <1>0, <1>1, <1>2, UpTo
<1>4. PICK f : Loop(Len(s), f)
  BY <1>0, <1>3
<1> DEFINE at == CHOOSE h : Loop(Len(s), h)
<1>5. Balanced(s) = Resumable(at[Len(s)])
  BY DEF Balanced, Balances
<1>6. Loop(Len(s), at)
  <2> HIDE DEF Loop
  <2> QED
    BY <1>4
<1> HIDE DEF at
<1>7. at[0] = <<>> /\ \A n \in 1..Len(s) : at[n] = Balances(at[n - 1], s[n])
  BY <1>0, <1>6
<1> QED
  BY <1>5, <1>7

LEMMA BalancedTyped ==
  ASSUME NEW m \in Seq(Blocks)
  PROVE  Balanced(m) \in Seq(Blocks)
<1> DEFINE N == Len(m)
<1>1. N \in Nat
  OBVIOUS
<1>2. PICK f : /\ f[0] = <<>> /\ \A n \in 1..N : f[n] = Balances(f[n - 1], m[n])
               /\ Balanced(m) = Resumable(f[N])
  BY BalancedLoop
<1>3. ASSUME NEW c \in Seq(Blocks) PROVE Resumable(c) \in Seq(Blocks)
  BY DEF Resumable, Blocks
<1> DEFINE S == {n \in 0..N : f[n] \in Seq(Blocks)}
<1>4. 0 \in S
  <2>1. f[0] \in Seq(Blocks)
    BY <1>2
  <2> QED
    BY <1>1, <2>1
<1>5. ASSUME NEW n \in 0..N, n \in S, n < N PROVE n + 1 \in S
  <2>1. n + 1 \in 1..N /\ (n + 1) - 1 = n
    BY <1>1, <1>5
  <2>2. f[n + 1] = Balances(f[n], m[n + 1]) /\ m[n + 1] \in Blocks /\ f[n] \in Seq(Blocks)
    BY <1>2, <1>5, <2>1
  <2>3. f[n + 1] \in Seq(Blocks)
    BY <1>3, <2>2 DEF Balances
  <2> QED
    BY <2>1, <2>3
<1>6. 0..N \subseteq S
  <2> HIDE DEF S
  <2> QED
    BY <1>1, <1>4, <1>5, UpTo
<1>7. f[N] \in Seq(Blocks)
  <2>1. N \in S
    <3> HIDE DEF S
    <3> QED
      BY <1>1, <1>6
  <2> QED
    BY <2>1
<1> QED
  BY <1>2, <1>3, <1>7

(* balanceInterruptedExchanges() mends whatever a log of interrupted runs can  *)
(* leave, calls without results, in front of other messages as well.           *)
LEMMA BalancedPaired ==
  ASSUME NEW m, Sound(m), Opens(m)
  PROVE  Answered(Balanced(m)) /\ ~Waits(Balanced(m)) /\ Opens(Balanced(m))
<1> DEFINE N == Len(m)
<1>1. N \in Nat /\ m \in Seq(Blocks) /\ (N = 0 <=> m = <<>>)
  BY DEF Sound
<1>2. PICK f : /\ f[0] = <<>> /\ \A n \in 1..N : f[n] = Balances(f[n - 1], m[n])
               /\ Balanced(m) = Resumable(f[N])
  BY <1>1, BalancedLoop
<1> DEFINE Kept(n) == /\ Answered(f[n]) /\ (n = 0 => f[n] = <<>>)
                      /\ n > 0 => /\ f[n] # <<>> /\ f[n][1] = m[1]
                                  /\ Waits(f[n]) <=> m[n] = "calls"
           S == {n \in 0..N : Kept(n)}
<1>3. 0 \in S
  <2>1. Answered(<<>>)
    BY DEF Answered, Sound
  <2> QED
    BY <1>1, <1>2, <2>1
<1>4. ASSUME NEW n \in 0..N, n \in S, n < N PROVE n + 1 \in S
  <2>1. n + 1 \in 1..N /\ (n + 1) - 1 = n /\ n + 1 > 0
    BY <1>1, <1>4
  <2> DEFINE b == m[n + 1]
             c == IF b = "results" THEN f[n] ELSE Resumable(f[n])
  <2>2. f[n + 1] = Append(c, b) /\ b \in Blocks /\ Kept(n)
    <3>1. f[n + 1] = Balances(f[n], m[n + 1])
      BY <1>2, <2>1
    <3> QED
      BY <1>1, <1>4, <2>1, <3>1 DEF Balances
  <2>3. /\ Answered(c) /\ (b = "results" <=> Waits(c))
        /\ (n = 0 => c = <<>>) /\ (n > 0 => c # <<>> /\ c[1] = m[1])
    <3>1. CASE b = "results"
      <4>1. n > 0 /\ m[n] = "calls"
        BY <1>1, <1>4, <2>1, <3>1 DEF Sound
      <4> QED
        BY <2>2, <3>1, <4>1
    <3>2. CASE b # "results"
      <4>1. c = Resumable(f[n])
        BY <3>2
      <4>2. Answered(f[n]) /\ (n = 0 => f[n] = <<>>) /\ (n > 0 => f[n] # <<>> /\ f[n][1] = m[1])
        BY <2>2
      <4> HIDE DEF c, b
      <4> QED
        BY <3>2, <4>1, <4>2, ResumableWaitsNot
    <3> QED
      BY <3>1, <3>2
  <2> HIDE DEF c, b
  <2>4. /\ Answered(Append(c, b)) /\ (Waits(Append(c, b)) <=> b = "calls")
        /\ (c # <<>> => Append(c, b)[1] = c[1])
    BY <2>2, <2>3, AppendBlock
  <2>5. Append(c, b) # <<>> /\ (c = <<>> => Append(c, b)[1] = b)
    <3>1. c \in Seq(Blocks)
      BY <2>3 DEF Answered, Sound
    <3> QED
      BY <2>2, <3>1
  <2>6. f[n + 1][1] = m[1]
    BY <1>1, <1>4, <2>2, <2>3, <2>4, <2>5 DEF b
  <2>7. Kept(n + 1)
    BY <1>1, <1>4, <2>1, <2>2, <2>4, <2>5, <2>6 DEF b
  <2> HIDE DEF Kept
  <2> QED
    BY <2>1, <2>7
<1>5. 0..N \subseteq S
  <2> HIDE DEF S
  <2> QED
    BY <1>1, <1>3, <1>4, UpTo
<1>6. Kept(N)
  <2>1. N \in S
    <3> HIDE DEF S
    <3> QED
      BY <1>1, <1>5
  <2> QED
    BY <2>1
<1>7. Answered(f[N]) /\ (N = 0 => f[N] = <<>>) /\ (N > 0 => f[N] # <<>> /\ f[N][1] = m[1])
  BY <1>6
<1>8. /\ Answered(Balanced(m)) /\ ~Waits(Balanced(m))
      /\ f[N] # <<>> => Balanced(m)[1] = f[N][1]
      /\ f[N] = <<>> => Balanced(m) = <<>>
  BY <1>2, <1>7, ResumableWaitsNot
<1> QED
  BY <1>1, <1>7, <1>8 DEF Opens

(* The cut of a compaction leaves no results without their calls.              *)
LEMMA CompactedPaired ==
  ASSUME NEW m, Answered(m), ~Waits(m), Opens(m), Cut(m) > 2
  PROVE  LET c == Compacted(m, Cut(m))
         IN  Answered(c) /\ ~Waits(c) /\ Opens(c) /\ c # <<>>
<1> DEFINE N == Len(m)
           k == Cut(m)
           tail == SubSeq(m, k, N)
           c == Compacted(m, k)
<1>1. m \in Seq(Blocks) /\ N \in Nat /\ DOMAIN m = 1..N /\ KeepLast \in Nat
  BY RunAssumption DEF Answered, Sound
<1>2. /\ k \in 3..(N + 1)
      /\ k \in 1..N => m[k] # "results"
  <2> DEFINE j == N + 1 - KeepLast
  <2>1. CASE j \in 1..N /\ m[j] = "results"
    <3>1. k = j - 1
      BY <1>1, <2>1 DEF Cut
    <3>2. j > 1 /\ m[j - 1] = "calls"
      BY <2>1 DEF Answered, Sound
    <3> QED
      BY <1>1, <2>1, <3>1, <3>2
  <2>2. CASE ~(j \in 1..N /\ m[j] = "results")
    <3>1. k = j
      BY <1>1, <2>2 DEF Cut
    <3> QED
      BY <1>1, <2>2, <3>1
  <2> QED
    BY <2>1, <2>2
<1> HIDE DEF k
<1>3. /\ tail \in Seq(Blocks) /\ Len(tail) = N - k + 1
      /\ \A i \in 1..Len(tail) : tail[i] = m[k + i - 1]
  <2>1. k \in Nat /\ 1 <= k /\ k <= N + 1
    BY <1>1, <1>2
  <2>2. tail \in Seq(Blocks)
    BY <1>1, <2>1
  <2>3. Len(tail) = N - k + 1
    BY <1>1, <2>1
  <2>4. \A i \in 1..Len(tail) : tail[i] = m[k + i - 1]
    BY <1>1, <2>1, <2>3
  <2> QED
    BY <2>2, <2>3, <2>4
<1>4. m # <<>> /\ m[1] = "user"
  BY <1>1, <1>2 DEF Opens
<1>5. c = <<"user", "user">> \o tail
  BY <1>4 DEF Compacted
<1> HIDE DEF tail, c
<1>6. /\ c \in Seq(Blocks) /\ Len(c) = N - k + 3 /\ c[1] = "user" /\ c[2] = "user" /\ c # <<>>
      /\ \A i \in 3..Len(c) : c[i] = m[k + i - 3]
  <2>1. <<"user", "user">> \in Seq(Blocks) /\ Len(<<"user", "user">>) = 2
    BY DEF Blocks
  <2>2. c \in Seq(Blocks) /\ Len(c) = Len(tail) + 2
    BY <1>3, <1>5, <2>1
  <2>3. c[1] = "user" /\ c[2] = "user" /\ c # <<>>
    BY <1>3, <1>5
  <2>4. ASSUME NEW i \in 3..Len(c) PROVE c[i] = m[k + i - 3]
    <3>1. i - 2 \in 1..Len(tail) /\ c[i] = tail[i - 2]
      BY <1>3, <1>5, <2>2, <2>4
    <3> QED
      BY <1>1, <1>2, <1>3, <3>1
  <2> QED
    BY <1>1, <1>2, <1>3, <2>2, <2>3, <2>4
<1>7. ASSUME NEW i \in 1..Len(c), c[i] = "results" PROVE i > 1 /\ c[i - 1] = "calls"
  <2>1. i \in 3..Len(c) /\ m[k + i - 3] = "results" /\ k + i - 3 \in 1..N
    BY <1>1, <1>2, <1>6, <1>7
  <2>2. m[k + i - 4] = "calls"
    BY <1>1, <1>2, <2>1 DEF Answered, Sound
  <2>3. i # 3
    BY <1>1, <1>2, <2>1
  <2>4. i - 1 \in 3..Len(c) /\ k + (i - 1) - 3 = k + i - 4
    BY <1>1, <1>2, <1>6, <2>1, <2>3
  <2> QED
    BY <1>6, <2>2, <2>4
<1>8. ASSUME NEW i \in 1..(Len(c) - 1), c[i] = "calls" PROVE c[i + 1] = "results"
  <2>1. i \in 3..Len(c) /\ i + 1 \in 3..Len(c) /\ k + i - 3 \in 1..(N - 1) /\ k + (i + 1) - 3 = k + i - 3 + 1
    BY <1>1, <1>2, <1>6, <1>8
  <2>2. m[k + i - 3] = "calls"
    BY <1>6, <1>8, <2>1
  <2>3. m[k + i - 3 + 1] = "results"
    BY <2>1, <2>2 DEF Answered
  <2> QED
    BY <1>6, <2>1, <2>3
<1>9. ~Waits(c)
  <2>1. CASE k = N + 1
    BY <1>1, <1>6, <2>1 DEF Waits
  <2>2. CASE k # N + 1
    <3>1. Len(c) \in 3..Len(c) /\ k + Len(c) - 3 = N
      BY <1>1, <1>2, <1>6, <2>2
    <3> QED
      BY <1>4, <1>6, <3>1 DEF Waits
  <2> QED
    BY <2>1, <2>2
<1>10. Answered(c)
  BY <1>6, <1>7, <1>8 DEF Answered, Sound
<1>11. Opens(c)
  BY <1>6 DEF Opens
<1> QED
  BY <1>6, <1>9, <1>10, <1>11 DEF c, k

(* The number of turns that a log records is one of its turns, or none.        *)
LEMMA TurnsRecordedTyped ==
  ASSUME log \in Seq(Line)
  PROVE  TurnsRecorded \in Nat
<1> DEFINE N == Len(log)
           Ends(n) == {log[i].turn : i \in {j \in 1..n : log[j].kind = "turn.end"}}
           Topped(n) == Ends(n) = {} \/ \E top \in Ends(n) : \A k \in Ends(n) : k <= top
           S == {n \in 0..N : Topped(n)}
<1>1. N \in Nat /\ DOMAIN log = 1..N /\ \A i \in 1..N : log[i].turn \in Nat
  <2>1. \A i \in 1..N : log[i] \in Line
    OBVIOUS
  <2> QED
    BY <2>1 DEF Line
<1>2. 0 \in S
  BY <1>1
<1>3. ASSUME NEW n \in 0..N, n \in S, n < N PROVE n + 1 \in S
  <2>1. n + 1 \in 1..N /\ n + 1 \in 0..N /\ log[n + 1].turn \in Nat /\ 1..(n + 1) = 1..n \cup {n + 1}
        /\ Ends(n) \subseteq Nat
    BY <1>1, <1>3
  <2>2. CASE log[n + 1].kind # "turn.end"
    <3>1. Ends(n + 1) = Ends(n)
      BY <2>1, <2>2
    <3> QED
      BY <1>3, <2>1, <3>1
  <2>3. CASE log[n + 1].kind = "turn.end"
    <3>1. Ends(n + 1) = Ends(n) \cup {log[n + 1].turn}
      BY <2>1, <2>3
    <3> HIDE DEF Ends
    <3>2. Topped(n + 1)
      <4>1. CASE Ends(n) = {}
        BY <2>1, <3>1, <4>1
      <4>2. CASE Ends(n) # {}
        <5>1. PICK top \in Ends(n) : \A k \in Ends(n) : k <= top
          BY <1>3, <4>2
        <5>2. top \in Nat
          BY <2>1
        <5>3. CASE log[n + 1].turn <= top
          BY <3>1, <5>1, <5>3
        <5>4. CASE ~(log[n + 1].turn <= top)
          <6>1. \A k \in Ends(n + 1) : k <= log[n + 1].turn
            BY <2>1, <3>1, <5>1, <5>2, <5>4
          <6> QED
            BY <3>1, <6>1
        <5> QED
          BY <5>3, <5>4
      <4> QED
        BY <4>1, <4>2
    <3> QED
      BY <2>1, <3>2
  <2> QED
    BY <2>2, <2>3
<1>4. 0..N \subseteq S
  <2> HIDE DEF S
  <2> QED
    BY <1>1, <1>2, <1>3, UpTo
<1>5. Topped(N)
  <2>1. N \in S
    <3> HIDE DEF S
    <3> QED
      BY <1>1, <1>4
  <2> QED
    BY <2>1
<1>6. Ends(N) \subseteq Nat
  BY <1>1
<1>7. TurnsRecorded = IF Ends(N) = {} THEN 0 ELSE CHOOSE n \in Ends(N) : \A k \in Ends(N) : k <= n
  BY <1>1 DEF TurnsRecorded
<1> HIDE DEF Ends
<1> QED
  BY <1>5, <1>6, <1>7
-----------------------------------------------------------------------------
(* ---- What a step does to the chain of lines and to the place of the loop.   *)
LEMMA LineTyped ==
  /\ \A k \in Kinds : Plain(k) \in Line /\ Plain(k).kind = k /\ Plain(k).blocks = <<>>
  /\ \A k \in Kinds, n \in Nat :
       /\ OfTurn(k, n) \in Line /\ OfTurn(k, n).kind = k /\ OfTurn(k, n).turn = n
       /\ OfTurn(k, n).blocks = <<>>
  /\ \A k \in Kinds, b \in Seq(Blocks) :
       Carrying(k, b) \in Line /\ Carrying(k, b).kind = k /\ Carrying(k, b).blocks = b
  /\ \A s \in Steers :
       /\ OfSteer("undelivered", s) \in Line /\ OfSteer("undelivered", s).kind = "undelivered"
       /\ OfSteer("undelivered", s).steer = s /\ OfSteer("undelivered", s).blocks = <<>>
       /\ LET l == [OfSteer("steer", s) EXCEPT !.blocks = <<"user">>]
          IN  l \in Line /\ l.kind = "steer" /\ l.steer = s /\ l.blocks = <<"user">>
<1>1. <<>> \in Seq(Blocks) /\ <<"user">> \in Seq(Blocks)
  BY DEF Blocks
<1>2. "steer" \in Kinds /\ "undelivered" \in Kinds
  BY DEF Kinds
<1> QED
  BY <1>1, <1>2 DEF Line, Plain, OfTurn, Carrying, OfSteer

(* The places the loop goes to without a line ...                              *)
Goes ==
  {<<"begin", "caught">>, <<"started", "gate">>, <<"started", "ending">>,
   <<"gate", "ending">>, <<"gate", "steer">>,
   <<"steered", "steer">>, <<"asking", "vetted">>, <<"vetted", "ending">>, <<"vetted", "requested">>,
   <<"requested", "streaming">>, <<"streaming", "turnFailed">>,
   <<"responded", "heard">>, <<"heard", "decide">>, <<"decide", "truncated">>, <<"decide", "tools">>,
   <<"truncated", "continue">>, <<"tools", "caught">>, <<"answered", "compacting">>,
   <<"compacting", "closing">>, <<"compactFailed", "closing">>, <<"saving", "gate">>,
   <<"caught", "ending">>, <<"ending", "flushed">>, <<"flushed", "orphans">>,
   <<"orphans", "settled">>, <<"hooks", "undelivered">>, <<"release", "closed">>}

(* ... and those where it waits for one: the line, and where it is then.       *)
Emits ==
  {<<"begin", "session.start", "started", "caught">>,
   <<"begin", "session.resume", "started", "caught">>,
   <<"steer", "steer", "steered", "caught">>, <<"steer", "turn.start", "asking", "caught">>,
   <<"asking", "context.delegation", "vetted", "caught">>,
   <<"responded", "context.delegation", "heard", "caught">>,
   <<"requested", "turn.continued", "streaming", "turnFailed">>,
   <<"streaming", "model.delta", "streaming", "turnFailed">>,
   <<"streaming", "turn.aborted", "requested", "caught">>,
   <<"streaming", "model.response", "responded", "caught">>,
   <<"heard", "message.append", "decide", "caught">>,
   <<"truncated", "message.append", "continue", "caught">>,
   <<"continue", "message.append", "compacting", "caught">>,
   <<"tools", "message.append", "answered", "caught">>,
   <<"compacting", "context.compact", "closing", "compactFailed">>,
   <<"closing", "turn.end", "saving", "caught">>,
   <<"turnFailed", "turn.end", "ending", "ending">>,
   <<"ending", "context.delegation", "flushed", "escaped">>,
   <<"flushed", "unattempted", "orphans", "orphans">>,
   <<"orphans", "orphaned", "settled", "settled">>,
   <<"settled", "session.finishing", "hooks", "hooks">>,
   <<"undelivered", "undelivered", "undelivered", "undelivered">>,
   <<"undelivered", "session.end", "release", "release">>}
  \cup {<<p, "turn.end", "ending", "caught">> :
          p \in {"vetted", "requested", "streaming", "decide", "continue", "tools", "answered",
                 "compacting", "compactFailed"}}

(* A line says what the step does: its turn, its steer, what it adds to the    *)
(* conversation, the end.                                                      *)
Marks == {"turn.start", "turn.end"}
Tasks == {"session.start", "session.resume", "steer"}
Speaking == Tasks \cup {"message.append", "context.compact"}
Informs == {"context.delegation", "turn.continued", "model.delta", "turn.aborted", "model.response",
            "unattempted", "orphaned", "session.finishing"}
Said == IF pc = "heard" THEN answer.content ELSE IF pc = "continue" THEN "user" ELSE "results"

SaysTurn(line) == line.kind \in Marks => line = OfTurn(line.kind, turns')
SaysSteer(line) ==
  line.kind \in {"steer", "undelivered"} =>
    /\ delivering # <<>> /\ line.steer = Head(delivering)
    /\ delivering' = IF line.kind = "steer" THEN delivering ELSE Tail(delivering)
SaysBlocks(line) ==
  /\ line.kind \in Tasks => line.blocks = <<"user">> /\ messages' = messages
  /\ line.kind = "message.append" =>
       Said \in Blocks /\ line.blocks = <<Said>> /\ messages' = Append(messages, Said)
  /\ line.kind = "context.compact" =>
       /\ Cut(messages) > 2 /\ line.blocks = Compacted(messages, Cut(messages))
       /\ messages' = Compacted(messages, Cut(messages))
  /\ line.kind \notin Speaking => line.blocks = <<>> /\ messages' = messages
SaysEnd(line) == IF line.kind = "session.end" THEN ended' = TRUE ELSE ended' = ended
Says(line) == SaysTurn(line) /\ SaysSteer(line) /\ SaysBlocks(line) /\ SaysEnd(line)

(* The loop goes on without a line, or waits for one.                          *)
Went ==
  /\ log' = log /\ queue' = queue /\ onFail' = onFail /\ ended' = ended
  /\ <<pc, pc'>> \in Goes
  /\ messages' = IF pc = "started" THEN Append(loaded, "user")
                 ELSE IF pc = "steered" THEN Append(messages, "user") ELSE messages
  /\ pc = "orphans" => ~orphan
Emitted(line) ==
  /\ line \in Line /\ log' = log /\ queue' = Append(queue, [line |-> line, by |-> "loop"])
  /\ <<pc, line.kind, pc', onFail'>> \in Emits
  /\ Says(line)
Moves == Went \/ \E line : Emitted(line)

LEMMA Speaks ==
  ASSUME NEW line \in Line, NEW next, NEW fail, Emit(line, next, fail),
         <<pc, line.kind, next, fail>> \in Emits, Says(line)
  PROVE  Moves
BY DEF Emit, Moves, Emitted

LEMMA SpeaksPlainly ==
  ASSUME NEW kind \in Informs, NEW line, line = Plain(kind) \/ line = OfTurn(kind, turns),
         turns \in Nat, NEW next, NEW fail, Emit(line, next, fail), <<pc, kind, next, fail>> \in Emits,
         messages' = messages, ended' = ended
  PROVE  Moves
<1>1. line \in Line /\ line.kind = kind /\ line.blocks = <<>>
  <2>1. kind \in Kinds
    BY DEF Informs, Kinds
  <2>2. Plain(kind) \in Line /\ Plain(kind).kind = kind /\ Plain(kind).blocks = <<>>
    BY <2>1, LineTyped
  <2>3. /\ OfTurn(kind, turns) \in Line /\ OfTurn(kind, turns).kind = kind
        /\ OfTurn(kind, turns).blocks = <<>>
    BY <2>1, LineTyped
  <2> QED
    BY <2>2, <2>3
<1>2. Says(line)
  BY <1>1 DEF Informs, Marks, Says, SaysTurn, SaysSteer, SaysBlocks, SaysEnd, Speaking, Tasks
<1> QED
  BY <1>1, <1>2, Speaks

LEMMA MarksTurn ==
  ASSUME NEW kind \in Marks, turns' \in Nat, NEW next, NEW fail,
         Emit(OfTurn(kind, turns'), next, fail), <<pc, kind, next, fail>> \in Emits,
         messages' = messages, ended' = ended
  PROVE  Moves
<1> DEFINE line == OfTurn(kind, turns')
<1>0. kind \in Kinds
  BY DEF Kinds, Marks
<1>1. line \in Line /\ line.kind = kind /\ line.blocks = <<>>
  BY <1>0, LineTyped
<1> HIDE DEF line
<1>2. SaysTurn(line)
  BY <1>1 DEF SaysTurn, line
<1>3. Says(line)
  BY <1>1, <1>2 DEF Says, SaysSteer, SaysBlocks, SaysEnd, Speaking, Tasks, Marks
<1> QED
  BY <1>1, <1>3, Speaks DEF line

LEMMA EndsTurn ==
  ASSUME turns \in Nat, EndTurn,
         pc \in {"vetted", "requested", "streaming", "decide", "continue", "tools", "answered",
                "compacting", "compactFailed"},
         turns' = turns, messages' = messages, ended' = ended
  PROVE  Moves
<1>1. <<pc, "turn.end", "ending", "caught">> \in Emits /\ "turn.end" \in Marks
  BY DEF Emits, Marks
<1>2. Emit(OfTurn("turn.end", turns'), "ending", "caught")
  BY DEF EndTurn
<1> QED
  BY <1>1, <1>2, MarksTurn

LEMMA Typed ==
  ASSUME TypeOK
  PROVE  /\ turns \in Nat /\ messages \in Seq(Blocks) /\ loaded \in Seq(Blocks) /\ log \in Seq(Line)
         /\ answer.content # "none" => answer.content \in Blocks /\ <<answer.content>> \in Seq(Blocks)
         /\ <<"user">> \in Seq(Blocks) /\ <<"results">> \in Seq(Blocks)
         /\ "user" \in Blocks /\ "results" \in Blocks
         /\ delivering \in Seq(Steers) /\ (delivering # <<>> => Head(delivering) \in Steers)
BY DEF TypeOK, Blocks

LEMMA CompactedTyped ==
  ASSUME NEW m \in Seq(Blocks), Cut(m) > 2
  PROVE  Compacted(m, Cut(m)) \in Seq(Blocks)
<1> DEFINE k == Cut(m)
<1>1. k \in Nat /\ 2 < k /\ k <= Len(m) + 1 /\ Len(m) \in Nat
  BY RunAssumption DEF Cut
<1> HIDE DEF k
<1>2. SubSeq(m, k, Len(m)) \in Seq(Blocks) /\ m[1] \in Blocks
  BY <1>1
<1>3. <<m[1], "user">> \in Seq(Blocks)
  BY <1>2 DEF Blocks
<1> QED
  BY <1>2, <1>3 DEF Compacted, k

(* A line that adds one message.                                               *)
LEMMA AddsMessage ==
  ASSUME TypeOK, NEW b \in Blocks, b = Said, NEW next, NEW fail,
         Emit(Carrying("message.append", <<b>>), next, fail),
         <<pc, "message.append", next, fail>> \in Emits,
         messages' = Append(messages, b), ended' = ended
  PROVE  Moves
<1> DEFINE line == Carrying("message.append", <<b>>)
<1>1. line \in Line /\ line.kind = "message.append" /\ line.blocks = <<b>>
  <2>1. <<b>> \in Seq(Blocks) /\ "message.append" \in Kinds
    BY DEF Kinds
  <2> QED
    BY <2>1 DEF Carrying, Plain, Line
<1> HIDE DEF line
<1>2. Says(line)
  BY <1>1 DEF Says, SaysTurn, SaysSteer, SaysBlocks, SaysEnd, Speaking, Tasks, Marks
<1> QED
  BY <1>1, <1>2, Speaks DEF line

(* A line that carries a task.                                                 *)
LEMMA AddsTask ==
  ASSUME NEW line \in Line, NEW next, NEW fail, Emit(line, next, fail),
         line.kind \in Tasks, line.blocks = <<"user">>, SaysSteer(line),
         <<pc, line.kind, next, fail>> \in Emits, messages' = messages, ended' = ended
  PROVE  Moves
<1>1. Says(line)
  BY DEF Says, SaysTurn, SaysBlocks, SaysEnd, Speaking, Tasks, Marks
<1> QED
  BY <1>1, Speaks

LEMMA TurnMoves ==
  ASSUME TypeOK, Turn
  PROVE  ~Awaiting /\ Moves
<1>0. {"turn.start", "turn.end", "turn.continued", "turn.aborted", "context.delegation",
       "session.start", "session.resume"} \subseteq Kinds
  BY DEF Kinds
<1>1. CASE Begin
  <2>0. <<"user">> \in Seq(Blocks)
    BY DEF Blocks
  <2>1. At("begin") /\ messages' = messages /\ ended' = ended
    BY <1>1 DEF Begin, conversation, signals
  <2>2. ASSUME NEW kind \in {"session.start", "session.resume"},
               Emit(Carrying(kind, <<"user">>), "started", "caught")
        PROVE  Moves
    <3> DEFINE line == Carrying(kind, <<"user">>)
    <3>1. line \in Line /\ line.kind = kind /\ line.blocks = <<"user">>
      BY <1>0, <2>0 DEF Carrying, Plain, Line
    <3> HIDE DEF line
    <3>2. SaysSteer(line) /\ kind \in Tasks /\ <<pc, kind, "started", "caught">> \in Emits
      BY <2>1, <3>1 DEF SaysSteer, Tasks, Emits, At
    <3> QED
      BY <2>1, <2>2, <3>1, <3>2, AddsTask DEF line
  <2>3. CASE Go("caught")
    BY <2>1, <2>3 DEF At, Go, Went, Moves, Goes
  <2> QED
    BY <1>1, <2>1, <2>2, <2>3 DEF Begin, At
<1>2. CASE Started
  BY <1>2 DEF Started, PromptHook, At, Go, Went, Moves, Goes, conversation, signals
<1>3. CASE PassGate
  BY <1>3 DEF PassGate, At, Go, Went, Moves, Goes, conversation, signals
<1>4. CASE DeliverSteer
  <2> DEFINE line == [OfSteer("steer", Head(delivering)) EXCEPT !.blocks = <<"user">>]
  <2>1. /\ At("steer") /\ delivering # <<>> /\ messages' = messages /\ ended' = ended
        /\ delivering' = delivering /\ Emit(line, "steered", "caught")
    BY <1>4 DEF DeliverSteer, conversation, signals, steers
  <2>2. line \in Line /\ line.kind = "steer" /\ line.steer = Head(delivering) /\ line.blocks = <<"user">>
    BY <2>1, Typed, LineTyped
  <2> HIDE DEF line
  <2>3. SaysSteer(line) /\ "steer" \in Tasks /\ <<pc, "steer", "steered", "caught">> \in Emits
    BY <2>1, <2>2 DEF SaysSteer, Tasks, Emits, At
  <2> QED
    BY <2>1, <2>2, <2>3, AddsTask DEF At
<1>5. CASE Steered
  BY <1>5 DEF Steered, At, Go, Went, Moves, Goes, conversation, signals, Push
<1>6. CASE StartTurn
  <2>1. /\ At("steer") /\ messages' = messages /\ ended' = ended /\ turns' = turns + 1
        /\ Emit(OfTurn("turn.start", turns'), "asking", "caught")
    BY <1>6 DEF StartTurn, conversation, signals
  <2>2. "turn.start" \in Marks /\ <<pc, "turn.start", "asking", "caught">> \in Emits /\ turns' \in Nat
    BY <2>1, Typed DEF Marks, Emits, At
  <2> QED
    BY <2>1, <2>2, MarksTurn DEF At
<1>7. CASE HooksRun("asking", "vetted")
  <2>1. /\ At("asking") /\ messages' = messages /\ ended' = ended
        /\ Emit(Plain("context.delegation"), "vetted", "caught") \/ Go("vetted")
    BY <1>7 DEF HooksRun, conversation, signals
  <2>2. CASE Go("vetted")
    BY <2>1, <2>2 DEF At, Go, Went, Moves, Goes
  <2>3. CASE Emit(Plain("context.delegation"), "vetted", "caught")
    <3>1. <<pc, "context.delegation", "vetted", "caught">> \in Emits
      BY <2>1 DEF At, Emits
    <3>2. turns \in Nat /\ "context.delegation" \in Informs
      BY Typed DEF Informs
    <3> QED
      BY <2>1, <2>3, <3>1, <3>2, SpeaksPlainly DEF At
  <2> QED
    BY <2>1, <2>2, <2>3 DEF At
<1>8. CASE HooksRun("responded", "heard")
  <2>1. /\ At("responded") /\ messages' = messages /\ ended' = ended
        /\ Emit(Plain("context.delegation"), "heard", "caught") \/ Go("heard")
    BY <1>8 DEF HooksRun, conversation, signals
  <2>2. CASE Go("heard")
    BY <2>1, <2>2 DEF At, Go, Went, Moves, Goes
  <2>3. CASE Emit(Plain("context.delegation"), "heard", "caught")
    <3>1. <<pc, "context.delegation", "heard", "caught">> \in Emits
      BY <2>1 DEF At, Emits
    <3>2. turns \in Nat /\ "context.delegation" \in Informs
      BY Typed DEF Informs
    <3> QED
      BY <2>1, <2>3, <3>1, <3>2, SpeaksPlainly DEF At
  <2> QED
    BY <2>1, <2>2, <2>3 DEF At
<1>9. CASE RequestRefused
  BY <1>9 DEF RequestRefused, At, Go, Went, Moves, Goes, conversation, signals
<1>10. CASE BeforeRequest
  <2>1. /\ At("vetted") /\ messages' = messages /\ ended' = ended /\ turns' = turns
        /\ EndTurn \/ Go("requested")
    BY <1>10 DEF BeforeRequest, conversation, turn, signals
  <2>2. CASE EndTurn
    BY <2>1, <2>2, Typed, EndsTurn DEF At
  <2>3. CASE Go("requested")
    BY <2>1, <2>3 DEF At, Go, Went, Moves, Goes
  <2> QED
    BY <2>1, <2>2, <2>3 DEF At
<1>11. CASE Attempt
  <2>1. /\ At("requested") /\ messages' = messages /\ ended' = ended /\ turns' = turns
        /\ \/ EndTurn \/ Go("streaming")
           \/ Emit(OfTurn("turn.continued", turns), "streaming", "turnFailed")
    BY <1>11 DEF Attempt, conversation, signals
  <2>2. CASE EndTurn
    BY <2>1, <2>2, Typed, EndsTurn DEF At
  <2>3. CASE Go("streaming")
    BY <2>1, <2>3 DEF At, Go, Went, Moves, Goes
  <2>4. CASE Emit(OfTurn("turn.continued", turns), "streaming", "turnFailed")
    <3>1. <<pc, "turn.continued", "streaming", "turnFailed">> \in Emits
      BY <2>1 DEF At, Emits
    <3>2. turns \in Nat /\ "turn.continued" \in Informs
      BY Typed DEF Informs
    <3> QED
      BY <2>1, <2>4, <3>1, <3>2, SpeaksPlainly DEF At
  <2> QED
    BY <2>1, <2>2, <2>3, <2>4 DEF At
<1>12. CASE StreamThrows
  <2>1. /\ At("streaming") /\ messages' = messages /\ ended' = ended /\ turns' = turns
        /\ \/ EndTurn \/ Go("turnFailed")
           \/ Emit(OfTurn("turn.aborted", turns), "requested", "caught")
    BY <1>12 DEF StreamThrows, conversation, signals
  <2>2. CASE EndTurn
    BY <2>1, <2>2, Typed, EndsTurn DEF At
  <2>3. CASE Go("turnFailed")
    BY <2>1, <2>3 DEF At, Go, Went, Moves, Goes
  <2>4. CASE Emit(OfTurn("turn.aborted", turns), "requested", "caught")
    <3>1. <<pc, "turn.aborted", "requested", "caught">> \in Emits
      BY <2>1 DEF At, Emits
    <3>2. turns \in Nat /\ "turn.aborted" \in Informs
      BY Typed DEF Informs
    <3> QED
      BY <2>1, <2>4, <3>1, <3>2, SpeaksPlainly DEF At
  <2> QED
    BY <2>1, <2>2, <2>3, <2>4 DEF At
<1>13. CASE Respond
  <2>1. /\ At("streaming") /\ messages' = messages /\ ended' = ended
        /\ Emit(Plain("model.response"), "responded", "caught")
    BY <1>13 DEF Respond, conversation, signals
  <2>2. <<pc, "model.response", "responded", "caught">> \in Emits
    BY <2>1 DEF At, Emits
  <2>3. turns \in Nat /\ "model.response" \in Informs
    BY Typed DEF Informs
  <2> QED
    BY <2>1, <2>2, <2>3, SpeaksPlainly DEF At
<1>14. ASSUME NEW injected, AppendAnswer(injected) PROVE ~Awaiting /\ Moves
  <2>1. At("heard") /\ ended' = ended
    BY <1>14 DEF AppendAnswer, signals
  <2>2. CASE answer.content = "none"
    BY <1>14, <2>1, <2>2 DEF AppendAnswer, At, Go, Went, Moves, Goes, conversation
  <2>3. CASE answer.content # "none"
    <3>1. /\ Emit(Carrying("message.append", <<answer.content>>), "decide", "caught")
          /\ messages' = Append(messages, answer.content)
      BY <1>14, <2>3 DEF AppendAnswer, Push
    <3>2. /\ answer.content \in Blocks /\ answer.content = Said
          /\ <<pc, "message.append", "decide", "caught">> \in Emits
      BY <2>1, <2>3, Typed DEF At, Said, Emits
    <3> QED
      BY <2>1, <3>1, <3>2, AddsMessage DEF At
  <2> QED
    BY <2>2, <2>3
<1>15. CASE Decide
  <2>1. /\ At("decide") /\ messages' = messages /\ ended' = ended /\ turns' = turns
        /\ EndTurn \/ Go("truncated") \/ Go("tools")
    BY <1>15 DEF Decide, conversation, signals
  <2>2. CASE EndTurn
    BY <2>1, <2>2, Typed, EndsTurn DEF At
  <2>3. CASE Go("truncated") \/ Go("tools")
    BY <2>1, <2>3 DEF At, Go, Went, Moves, Goes
  <2> QED
    BY <2>1, <2>2, <2>3 DEF At
<1>16. CASE Truncated
  <2>1. At("truncated") /\ ended' = ended
    BY <1>16 DEF Truncated, signals
  <2>2. CASE answer.content # "calls"
    BY <1>16, <2>1, <2>2 DEF Truncated, At, Go, Went, Moves, Goes, conversation
  <2>3. CASE answer.content = "calls"
    <3>1. /\ Emit(Carrying("message.append", <<"results">>), "continue", "caught")
          /\ messages' = Append(messages, "results")
      BY <1>16, <2>3 DEF Truncated, Push
    <3>2. "results" = Said /\ <<pc, "message.append", "continue", "caught">> \in Emits
      BY <2>1 DEF At, Said, Emits
    <3> QED
      BY <2>1, <3>1, <3>2, Typed, AddsMessage DEF At
  <2> QED
    BY <2>2, <2>3
<1>17. CASE StageContinuation
  <2>1. At("continue") /\ ended' = ended /\ turns' = turns
    BY <1>17 DEF StageContinuation, signals
  <2>2. CASE EndTurn /\ UNCHANGED conversation
    BY <2>1, <2>2, Typed, EndsTurn DEF At, conversation
  <2>3. CASE Emit(Carrying("message.append", <<"user">>), "compacting", "caught") /\ Push("user")
    <3>1. "user" = Said /\ <<pc, "message.append", "compacting", "caught">> \in Emits
      BY <2>1 DEF At, Said, Emits
    <3> QED
      BY <2>1, <2>3, <3>1, Typed, AddsMessage DEF At, Push
  <2> QED
    BY <1>17, <2>1, <2>2, <2>3 DEF StageContinuation, At
<1>18. CASE ToolsReturn
  <2>1. /\ At("tools") /\ ended' = ended /\ messages' = Append(messages, "results")
        /\ Emit(Carrying("message.append", <<"results">>), "answered", "caught")
    BY <1>18 DEF ToolsReturn, signals, Push
  <2>2. "results" = Said /\ <<pc, "message.append", "answered", "caught">> \in Emits
    BY <2>1 DEF At, Said, Emits
  <2> QED
    BY <2>1, <2>2, Typed, AddsMessage DEF At
<1>19. CASE ToolsAnswered
  <2>1. /\ At("answered") /\ messages' = messages /\ ended' = ended /\ turns' = turns
        /\ EndTurn \/ Go("compacting")
    BY <1>19 DEF ToolsAnswered, conversation, turn, signals
  <2>2. CASE EndTurn
    BY <2>1, <2>2, Typed, EndsTurn DEF At
  <2>3. CASE Go("compacting")
    BY <2>1, <2>3 DEF At, Go, Went, Moves, Goes
  <2> QED
    BY <2>1, <2>2, <2>3 DEF At
<1>20. CASE ToolsInterrupted
  <2>1. /\ At("tools") /\ messages' = messages /\ ended' = ended /\ turns' = turns
        /\ EndTurn
    BY <1>20 DEF ToolsInterrupted, conversation, turn, signals
  <2>2. CASE EndTurn
    BY <2>1, <2>2, Typed, EndsTurn DEF At
  <2> QED
    BY <2>1, <2>2 DEF At
<1>21. CASE ToolsReject
  BY <1>21 DEF ToolsReject, At, Go, Went, Moves, Goes, conversation, signals
<1>22. CASE KeepConversation
  BY <1>22 DEF KeepConversation, At, Go, Went, Moves, Goes, conversation, signals
<1>23. CASE Compact
  <2> DEFINE line == Carrying("context.compact", messages')
  <2>1. /\ At("compacting") /\ ended' = ended /\ Cut(messages) > 2
        /\ messages' = Compacted(messages, Cut(messages))
        /\ Emit(line, "closing", "compactFailed")
    BY <1>23 DEF Compact, signals
  <2>2. line \in Line /\ line.kind = "context.compact" /\ line.blocks = messages'
    <3>1. messages' \in Seq(Blocks) /\ "context.compact" \in Kinds
      BY <2>1, Typed, CompactedTyped DEF Kinds
    <3> QED
      BY <3>1, LineTyped
  <2> HIDE DEF line
  <2>3. Says(line) /\ <<pc, "context.compact", "closing", "compactFailed">> \in Emits
    BY <2>1, <2>2 DEF Says, SaysTurn, SaysSteer, SaysBlocks, SaysEnd, Speaking, Tasks, Marks,
       At, Emits
  <2> QED
    BY <2>1, <2>2, <2>3, Speaks DEF At
<1>24. CASE CompactAborted
  <2>1. /\ At("compacting") /\ messages' = messages /\ ended' = ended /\ turns' = turns
        /\ EndTurn
    BY <1>24 DEF CompactAborted, conversation, turn, signals
  <2>2. CASE EndTurn
    BY <2>1, <2>2, Typed, EndsTurn DEF At
  <2> QED
    BY <2>1, <2>2 DEF At
<1>25. CASE CompactFailed
  <2>1. /\ At("compactFailed") /\ messages' = messages /\ ended' = ended /\ turns' = turns
        /\ EndTurn \/ Go("closing")
    BY <1>25 DEF CompactFailed, conversation, turn, signals
  <2>2. CASE EndTurn
    BY <2>1, <2>2, Typed, EndsTurn DEF At
  <2>3. CASE Go("closing")
    BY <2>1, <2>3 DEF At, Go, Went, Moves, Goes
  <2> QED
    BY <2>1, <2>2, <2>3 DEF At
<1>26. CASE CloseTurn
  <2>1. /\ At("closing") /\ messages' = messages /\ ended' = ended /\ turns' = turns
        /\ Emit(OfTurn("turn.end", turns'), "saving", "caught")
    BY <1>26 DEF CloseTurn, conversation, turn, signals
  <2>2. "turn.end" \in Marks /\ <<pc, "turn.end", "saving", "caught">> \in Emits
    BY <2>1 DEF Marks, Emits, At
  <2> QED
    BY <2>1, <2>2, Typed, MarksTurn DEF At
<1>27. CASE SaveSnapshot
  BY <1>27 DEF SaveSnapshot, At, Go, Went, Moves, Goes, Saves, signals
<1>28. CASE StreamText
  <2>1. /\ At("streaming") /\ messages' = messages /\ ended' = ended
        /\ Emit(Plain("model.delta"), "streaming", "turnFailed")
    BY <1>28 DEF StreamText, conversation, signals
  <2>2. <<pc, "model.delta", "streaming", "turnFailed">> \in Emits
    BY <2>1 DEF At, Emits
  <2>3. turns \in Nat /\ "model.delta" \in Informs
    BY Typed DEF Informs
  <2> QED
    BY <2>1, <2>2, <2>3, SpeaksPlainly DEF At
<1> QED
  BY <1>1, <1>2, <1>3, <1>4, <1>5, <1>6, <1>7, <1>8, <1>9, <1>10, <1>11, <1>12, <1>13, <1>14,
     <1>15, <1>16, <1>17, <1>18, <1>19, <1>20, <1>21, <1>22, <1>23, <1>24, <1>25, <1>26, <1>27, <1>28
  DEF Turn

LEMMA EndingMoves ==
  ASSUME TypeOK, Ending
  PROVE  ~Awaiting /\ Moves
<1>0. {"context.delegation", "unattempted", "orphaned", "session.finishing", "undelivered",
       "session.end"} \subseteq Kinds
  BY DEF Kinds
<1>1. CASE Caught
  BY <1>1 DEF Caught, At, Go, Went, Moves, Goes, conversation, signals
<1>2. CASE TurnFailed
  <2>1. /\ At("turnFailed") /\ messages' = messages /\ ended' = ended /\ turns' = turns
        /\ Emit(OfTurn("turn.end", turns'), "ending", "ending")
    BY <1>2 DEF TurnFailed, conversation, turn, signals
  <2>2. "turn.end" \in Marks /\ <<pc, "turn.end", "ending", "ending">> \in Emits
    BY <2>1 DEF Marks, Emits, At
  <2> QED
    BY <2>1, <2>2, Typed, MarksTurn DEF At
<1>3. CASE ClosePrincipals
  <2>1. /\ At("ending") /\ messages' = messages /\ ended' = ended
        /\ Emit(Plain("context.delegation"), "flushed", "escaped") \/ Go("flushed")
    BY <1>3 DEF ClosePrincipals, conversation, signals
  <2>2. <<pc, "context.delegation", "flushed", "escaped">> \in Emits
    BY <2>1 DEF At, Emits
  <2>3. CASE Go("flushed")
    BY <1>3, <2>1, <2>3 DEF ClosePrincipals, At, Go, Went, Moves, Goes
  <2> QED
    BY <1>0, <2>1, <2>2, <2>3, Typed, SpeaksPlainly DEF At, Informs
<1>4. CASE BeginEnding
  <2>1. /\ At("flushed") /\ messages' = messages /\ ended' = ended
        /\ Emit(Plain("unattempted"), "orphans", "orphans") \/ Go("orphans")
    BY <1>4 DEF BeginEnding, conversation, signals
  <2>2. <<pc, "unattempted", "orphans", "orphans">> \in Emits
    BY <2>1 DEF At, Emits
  <2>3. CASE Go("orphans")
    BY <1>4, <2>1, <2>3 DEF BeginEnding, At, Go, Went, Moves, Goes
  <2> QED
    BY <1>0, <2>1, <2>2, <2>3, Typed, SpeaksPlainly DEF At, Informs
<1>5. CASE GraceExpires
  <2>1. /\ At("orphans") /\ messages' = messages /\ ended' = ended
        /\ Emit(Plain("orphaned"), "settled", "settled")
    BY <1>5 DEF GraceExpires, conversation, signals
  <2>2. <<pc, "orphaned", "settled", "settled">> \in Emits
    BY <2>1 DEF At, Emits
  <2> QED
    BY <1>0, <2>1, <2>2, Typed, SpeaksPlainly DEF At, Informs
<1>6. CASE OrphansSettled
  BY <1>6 DEF OrphansSettled, At, Go, Went, Moves, Goes, conversation, signals
<1>7. CASE Finishing
  <2>1. /\ At("settled") /\ messages' = messages /\ ended' = ended
        /\ Emit(Plain("session.finishing"), "hooks", "hooks")
    BY <1>7 DEF Finishing, conversation, signals, Saves
  <2>2. <<pc, "session.finishing", "hooks", "hooks">> \in Emits
    BY <2>1 DEF At, Emits
  <2> QED
    BY <1>0, <2>1, <2>2, Typed, SpeaksPlainly DEF At, Informs
<1>8. CASE EndHooks
  BY <1>8 DEF EndHooks, At, Go, Went, Moves, Goes, conversation, signals
<1>9. CASE ReportSteer
  <2> DEFINE line == OfSteer("undelivered", Head(delivering))
  <2>1. /\ At("undelivered") /\ delivering # <<>> /\ messages' = messages /\ ended' = ended
        /\ delivering' = Tail(delivering) /\ Emit(line, "undelivered", "undelivered")
    BY <1>9 DEF ReportSteer, conversation, signals
  <2>2. line \in Line /\ line.kind = "undelivered" /\ line.steer = Head(delivering) /\ line.blocks = <<>>
    BY <2>1, Typed, LineTyped
  <2> HIDE DEF line
  <2>3. Says(line) /\ <<pc, "undelivered", "undelivered", "undelivered">> \in Emits
    BY <2>1, <2>2 DEF Says, SaysTurn, SaysSteer, SaysBlocks, SaysEnd, Speaking, Tasks, Marks,
       At, Emits
  <2> QED
    BY <2>1, <2>2, <2>3, Speaks DEF At
<1>10. CASE Finish
  <2> DEFINE line == Plain("session.end")
  <2>1. /\ At("undelivered") /\ messages' = messages /\ ended' = TRUE
        /\ Emit(line, "release", "release")
    BY <1>10 DEF Finish, conversation
  <2>2. line \in Line /\ line.kind = "session.end" /\ line.blocks = <<>>
    BY <1>0, LineTyped
  <2> HIDE DEF line
  <2>3. Says(line) /\ <<pc, "session.end", "release", "release">> \in Emits
    BY <2>1, <2>2 DEF Says, SaysTurn, SaysSteer, SaysBlocks, SaysEnd, Speaking, Tasks, Marks,
       At, Emits
  <2> QED
    BY <2>1, <2>2, <2>3, Speaks DEF At
<1>11. CASE Release
  BY <1>11 DEF Release, At, Go, Went, Moves, Goes, conversation
<1> QED
  BY <1>1, <1>2, <1>3, <1>4, <1>5, <1>6, <1>7, <1>8, <1>9, <1>10, <1>11 DEF Ending

(* ---- What a step leaves alone.                                              *)
LEMMA ConversationSteps ==
  ASSUME [Next]_vars
  PROVE  \/ UNCHANGED conversation \/ Begin \/ Started \/ Steered
         \/ AppendAnswer(<<>>) \/ (\E s \in Steers : AppendAnswer(<<s>>))
         \/ Truncated \/ StageContinuation \/ ToolsReturn \/ Compact
         \/ SaveSnapshot \/ Finishing \/ RunAgain
BY DEF Next, Turn, Ending, Host, Begin, Started, PromptHook, PassGate, DeliverSteer, Steered, StartTurn,
       HooksRun, RequestRefused, BeforeRequest, Attempt, StreamText, StreamThrows, Respond,
       AppendAnswer, Decide, Truncated, StageContinuation, ToolsReturn,
       ToolsAnswered, ToolsInterrupted, ToolsReject, KeepConversation, Compact,
       CompactAborted, CompactFailed, CloseTurn, SaveSnapshot, Caught, TurnFailed,
       ClosePrincipals, BeginEnding, GraceExpires, OrphansSettled, Finishing,
       EndHooks, ReportSteer, Finish, Release, Steer, Pause, Resume, Abort, Delegate,
       Note, OrphanSettles, Crash, RunAgain, Settled, Write, WriteFails, vars

LEMMA TurnSteps ==
  ASSUME [Next]_vars
  PROVE  \/ UNCHANGED turn \/ Begin \/ StartTurn \/ Attempt \/ StreamText \/ StreamThrows \/ Respond
         \/ Decide \/ StageContinuation \/ BeginEnding \/ RunAgain
BY DEF Next, Turn, Ending, Host, Begin, Started, PromptHook, PassGate, DeliverSteer, Steered, StartTurn,
       HooksRun, RequestRefused, BeforeRequest, Attempt, StreamText, StreamThrows, Respond,
       AppendAnswer, Decide, Truncated, StageContinuation, ToolsReturn,
       ToolsAnswered, ToolsInterrupted, ToolsReject, KeepConversation, Compact,
       CompactAborted, CompactFailed, CloseTurn, SaveSnapshot, Caught, TurnFailed,
       ClosePrincipals, BeginEnding, GraceExpires, OrphansSettled, Finishing,
       EndHooks, ReportSteer, Finish, Release, Steer, Pause, Resume, Abort, Delegate,
       Note, OrphanSettles, Crash, RunAgain, Settled, Write, WriteFails, vars

LEMMA GateSteps ==
  ASSUME [Next]_vars
  PROVE  UNCHANGED gate \/ Started \/ SaveSnapshot \/ Pause \/ Resume \/ Abort \/ RunAgain
BY DEF Next, Turn, Ending, Host, Begin, Started, PromptHook, PassGate, DeliverSteer, Steered, StartTurn,
       HooksRun, RequestRefused, BeforeRequest, Attempt, StreamText, StreamThrows, Respond,
       AppendAnswer, Decide, Truncated, StageContinuation, ToolsReturn,
       ToolsAnswered, ToolsInterrupted, ToolsReject, KeepConversation, Compact,
       CompactAborted, CompactFailed, CloseTurn, SaveSnapshot, Caught, TurnFailed,
       ClosePrincipals, BeginEnding, GraceExpires, OrphansSettled, Finishing,
       EndHooks, ReportSteer, Finish, Release, Steer, Pause, Resume, Abort, Delegate,
       Note, OrphanSettles, Crash, RunAgain, Settled, Write, WriteFails, vars

LEMMA SignalSteps ==
  ASSUME [Next]_vars
  PROVE  UNCHANGED signals \/ BeginEnding \/ Finish \/ Release \/ Abort \/ RunAgain
BY DEF Next, Turn, Ending, Host, Begin, Started, PromptHook, PassGate, DeliverSteer, Steered, StartTurn,
       HooksRun, RequestRefused, BeforeRequest, Attempt, StreamText, StreamThrows, Respond,
       AppendAnswer, Decide, Truncated, StageContinuation, ToolsReturn,
       ToolsAnswered, ToolsInterrupted, ToolsReject, KeepConversation, Compact,
       CompactAborted, CompactFailed, CloseTurn, SaveSnapshot, Caught, TurnFailed,
       ClosePrincipals, BeginEnding, GraceExpires, OrphansSettled, Finishing,
       EndHooks, ReportSteer, Finish, Release, Steer, Pause, Resume, Abort, Delegate,
       Note, OrphanSettles, Crash, RunAgain, Settled, Write, WriteFails, vars

LEMMA SteerSteps ==
  ASSUME [Next]_vars
  PROVE  \/ UNCHANGED steers \/ PassGate \/ Steered
         \/ AppendAnswer(<<>>) \/ (\E s \in Steers : AppendAnswer(<<s>>))
         \/ EndHooks \/ ReportSteer \/ (\E s \in Steers : Steer(s)) \/ RunAgain
BY DEF Next, Turn, Ending, Host, Begin, Started, PromptHook, PassGate, DeliverSteer, Steered, StartTurn,
       HooksRun, RequestRefused, BeforeRequest, Attempt, StreamText, StreamThrows, Respond,
       AppendAnswer, Decide, Truncated, StageContinuation, ToolsReturn,
       ToolsAnswered, ToolsInterrupted, ToolsReject, KeepConversation, Compact,
       CompactAborted, CompactFailed, CloseTurn, SaveSnapshot, Caught, TurnFailed,
       ClosePrincipals, BeginEnding, GraceExpires, OrphansSettled, Finishing,
       EndHooks, ReportSteer, Finish, Release, Steer, Pause, Resume, Abort, Delegate,
       Note, OrphanSettles, Crash, RunAgain, Settled, Write, WriteFails, vars

LEMMA OtherSteps ==
  ASSUME [Next]_vars
  PROVE  \/ UNCHANGED others \/ HooksRun("asking", "vetted") \/ HooksRun("responded", "heard")
         \/ ToolsReturn \/ ToolsInterrupted \/ CompactAborted \/ ClosePrincipals
         \/ Delegate \/ OrphanSettles \/ Crash \/ RunAgain
BY DEF Next, Turn, Ending, Host, Begin, Started, PromptHook, PassGate, DeliverSteer, Steered, StartTurn,
       HooksRun, RequestRefused, BeforeRequest, Attempt, StreamText, StreamThrows, Respond,
       AppendAnswer, Decide, Truncated, StageContinuation, ToolsReturn,
       ToolsAnswered, ToolsInterrupted, ToolsReject, KeepConversation, Compact,
       CompactAborted, CompactFailed, CloseTurn, SaveSnapshot, Caught, TurnFailed,
       ClosePrincipals, BeginEnding, GraceExpires, OrphansSettled, Finishing,
       EndHooks, ReportSteer, Finish, Release, Steer, Pause, Resume, Abort, Delegate,
       Note, OrphanSettles, Crash, RunAgain, Settled, Write, WriteFails, others, vars

LEMMA WorldSteps ==
  ASSUME [Next]_vars
  PROVE  UNCHANGED world \/ RunAgain
BY DEF Next, Turn, Ending, Host, Begin, Started, PromptHook, PassGate, DeliverSteer, Steered, StartTurn,
       HooksRun, RequestRefused, BeforeRequest, Attempt, StreamText, StreamThrows, Respond,
       AppendAnswer, Decide, Truncated, StageContinuation, ToolsReturn,
       ToolsAnswered, ToolsInterrupted, ToolsReject, KeepConversation, Compact,
       CompactAborted, CompactFailed, CloseTurn, SaveSnapshot, Caught, TurnFailed,
       ClosePrincipals, BeginEnding, GraceExpires, OrphansSettled, Finishing,
       EndHooks, ReportSteer, Finish, Release, Steer, Pause, Resume, Abort, Delegate,
       Note, OrphanSettles, Crash, RunAgain, Settled, Write, WriteFails, vars

LEMMA ChainSteps ==
  ASSUME TypeOK, [Next]_vars
  PROVE  \/ ~Awaiting /\ Moves /\ UNCHANGED <<base, may, run>>
         \/ /\ Write \/ WriteFails \/ Crash \/ Note \/ UNCHANGED <<log, queue, pc, onFail>>
            /\ UNCHANGED <<conversation, turn, ended, delivering, world>>
         \/ RunAgain
<1>1. CASE Turn \/ Ending
  <2>1. ~Awaiting /\ Moves
    BY <1>1, TurnMoves, EndingMoves
  <2>2. UNCHANGED <<base, may, run>>
    BY <1>1 DEF Turn, Ending, Begin, Started, PromptHook, PassGate, DeliverSteer, Steered, StartTurn,
                HooksRun, RequestRefused, BeforeRequest, Attempt, StreamText, StreamThrows, Respond,
                AppendAnswer, Decide, Truncated, StageContinuation, ToolsReturn, ToolsAnswered,
                ToolsInterrupted, ToolsReject, KeepConversation, Compact, CompactAborted,
                CompactFailed, CloseTurn, SaveSnapshot, Caught, TurnFailed, ClosePrincipals,
                BeginEnding, GraceExpires, OrphansSettled, Finishing, EndHooks, ReportSteer,
                Finish, Release, Push, Saves, conversation, world
  <2> QED
    BY <2>1, <2>2
<1>2. CASE Write \/ WriteFails \/ Crash \/ Note
  BY <1>2 DEF Write, WriteFails, Crash, Note, signals, steers
<1>3. CASE RunAgain
  BY <1>3
<1>4. CASE ~(Turn \/ Ending \/ Write \/ WriteFails \/ Crash \/ Note \/ RunAgain)
  <2>1. \/ (\E t \in Steers : Steer(t)) \/ Pause \/ Resume \/ Abort \/ Delegate \/ OrphanSettles
        \/ UNCHANGED vars
    BY <1>4 DEF Next, Host, Settled
  <2> QED
    BY <2>1 DEF Steer, Pause, Resume, Abort, Delegate, OrphanSettles, vars, signals, steers
<1> QED
  BY <1>1, <1>2, <1>3, <1>4
-----------------------------------------------------------------------------
(* ---- Types.                                                                 *)
LEMMA ChainTypes ==
  ASSUME TypeOK, [Next]_vars
  PROVE  /\ log' \in Seq(Line) /\ queue' \in Seq([line : Line, by : {"loop", "other"}])
         /\ pc' \in Places /\ onFail' \in Places
<1>1. CASE Moves
  <2>1. CASE Went
    BY <2>1 DEF TypeOK, Went, Goes, Places
  <2>2. ASSUME NEW line, Emitted(line)
        PROVE  /\ log' \in Seq(Line) /\ queue' \in Seq([line : Line, by : {"loop", "other"}])
               /\ pc' \in Places /\ onFail' \in Places
    <3>1. [line |-> line, by |-> "loop"] \in [line : Line, by : {"loop", "other"}]
      BY <2>2 DEF Emitted
    <3>2. log' \in Seq(Line) /\ queue' \in Seq([line : Line, by : {"loop", "other"}])
      BY <2>2, <3>1 DEF TypeOK, Emitted
    <3>3. pc' \in Places /\ onFail' \in Places
      BY <2>2 DEF Emitted, Emits, Places
    <3> QED
      BY <3>2, <3>3
  <2> QED
    BY <1>1, <2>1, <2>2 DEF Moves
<1>2. CASE Write
  <2>1. /\ queue \in Seq([line : Line, by : {"loop", "other"}]) /\ queue # <<>>
        /\ log \in Seq(Line) /\ pc \in Places /\ onFail \in Places
    BY <1>2 DEF Write, TypeOK
  <2>2. Head(queue) \in [line : Line, by : {"loop", "other"}]
        /\ Tail(queue) \in Seq([line : Line, by : {"loop", "other"}])
    <3> DEFINE E == [line : Line, by : {"loop", "other"}]
    <3>1. queue \in Seq(E) /\ queue # <<>>
      BY <2>1
    <3> HIDE DEF E
    <3>2. Head(queue) \in E /\ Tail(queue) \in Seq(E)
      BY <3>1
    <3> QED
      BY <3>2 DEF E
  <2>3. Append(log, Head(queue).line) \in Seq(Line)
    <3>1. Head(queue).line \in Line
      BY <2>2
    <3> QED
      BY <2>1, <3>1
  <2> QED
    BY <1>2, <2>1, <2>2, <2>3 DEF Write
<1>3. CASE WriteFails
  <2>1. Tail(queue) \in Seq([line : Line, by : {"loop", "other"}])
    BY <1>3 DEF WriteFails, TypeOK
  <2> QED
    BY <1>3, <2>1 DEF WriteFails, TypeOK
<1>4. CASE Crash \/ RunAgain
  <2>1. log \in Seq(Line) /\ onFail \in Places /\ {"dead", "begin", "caught"} \subseteq Places
    BY DEF TypeOK, Places
  <2>2. /\ log' = log /\ queue' = <<>> /\ pc' \in {"dead", "begin"} /\ onFail' \in {onFail, "caught"}
    BY <1>4 DEF Crash, RunAgain
  <2> QED
    BY <2>1, <2>2
<1>5. CASE Note
  <2>1. [line |-> Plain("note"), by |-> "other"] \in [line : Line, by : {"loop", "other"}]
    BY LineTyped DEF Kinds
  <2> QED
    BY <1>5, <2>1 DEF Note, TypeOK
<1>6. CASE UNCHANGED <<log, queue, pc, onFail>>
  BY <1>6 DEF TypeOK
<1> QED
  BY <1>1, <1>2, <1>3, <1>4, <1>5, <1>6, ChainSteps

LEMMA ResumableTyped ==
  ASSUME NEW m \in Seq(Blocks)
  PROVE  Resumable(m) \in Seq(Blocks)
BY DEF Resumable, Blocks

LEMMA ConversationTypes ==
  ASSUME TypeOK, [Next]_vars
  PROVE  /\ messages' \in Seq(Blocks) /\ loaded' \in Seq(Blocks) /\ base' \in Nat
         /\ snapshot' = None \/ snapshot' \in Seq(Blocks)
<1>0. /\ messages \in Seq(Blocks) /\ loaded \in Seq(Blocks) /\ base \in Nat /\ log \in Seq(Line)
      /\ snapshot = None \/ snapshot \in Seq(Blocks)
      /\ <<>> \in Seq(Blocks) /\ {"user", "results"} \subseteq Blocks
  BY DEF TypeOK, Blocks
<1>1. CASE UNCHANGED conversation
  BY <1>0, <1>1 DEF conversation
<1>2. CASE Begin
  <2>1. ResumeSnapshot \in Seq(Blocks)
    <3>1. Replay(Blank, log) \in State
      BY <1>0, BlankTyped, ReplayTyped
    <3>2. Replay(Blank, log).messages \in Seq(Blocks)
      BY <3>1 DEF State
    <3> QED
      BY <1>0, <3>2, BalancedTyped DEF ResumeSnapshot
  <2> QED
    BY <1>0, <1>2, <2>1 DEF Begin, conversation
<1>3. CASE Started
  BY <1>0, <1>3 DEF Started
<1>4. CASE Steered
  BY <1>0, <1>4 DEF Steered, Push
<1>5. ASSUME NEW i, AppendAnswer(i)
      PROVE  messages' \in Seq(Blocks) /\ loaded' = loaded /\ base' = base /\ snapshot' = snapshot
  <2>1. CASE answer.content = "none"
    BY <1>0, <1>5, <2>1 DEF AppendAnswer, conversation
  <2>2. CASE answer.content # "none"
    <3>1. answer.content \in Blocks
      BY <2>2 DEF TypeOK, Blocks
    <3>2. Append(messages, answer.content) \in Seq(Blocks)
      BY <1>0, <3>1
    <3>3. messages' = Append(messages, answer.content) /\ UNCHANGED <<loaded, base, snapshot>>
      BY <1>5, <2>2 DEF AppendAnswer, Push
    <3> QED
      BY <3>2, <3>3
  <2> QED
    BY <2>1, <2>2
<1>6. CASE Truncated
  <2>1. CASE answer.content = "calls"
    BY <1>0, <1>6, <2>1 DEF Truncated, Push
  <2>2. CASE answer.content # "calls"
    BY <1>0, <1>6, <2>2 DEF Truncated, conversation
  <2> QED
    BY <2>1, <2>2
<1>7. CASE StageContinuation
  <2>1. CASE continued >= MaxContinued
    BY <1>0, <1>7, <2>1 DEF StageContinuation, conversation
  <2>2. CASE ~(continued >= MaxContinued)
    BY <1>0, <1>7, <2>2 DEF StageContinuation, Push
  <2> QED
    BY <2>1, <2>2
<1>8. CASE ToolsReturn
  BY <1>0, <1>8 DEF ToolsReturn, Push
<1>9. CASE Compact
  BY <1>0, <1>9, CompactedTyped DEF Compact
<1>10. CASE SaveSnapshot
  BY <1>0, <1>10, ResumableTyped DEF SaveSnapshot, Saves
<1>11. CASE Finishing
  BY <1>0, <1>11, ResumableTyped DEF Finishing, Saves, conversation
<1>12. CASE RunAgain
  BY <1>0, <1>12 DEF RunAgain
<1> QED
  BY <1>0, <1>1, <1>2, <1>3, <1>4, <1>5, <1>6, <1>7, <1>8, <1>9, <1>10, <1>11, <1>12,
     ConversationSteps

LEMMA CounterTypes ==
  ASSUME TypeOK, [Next]_vars
  PROVE  /\ turns' \in Nat /\ before' \in Nat
         /\ answer' \in [text : BOOLEAN, stop : Stops, content : {"none", "assistant", "calls"}]
         /\ recovered' \in BOOLEAN /\ recoveries' \in 0..MaxRecoveries
         /\ continued' \in 0..MaxContinued /\ staged' \in BOOLEAN
<1>0. MaxRecoveries \in Nat /\ MaxContinued \in Nat
      /\ NoAnswer \in [text : BOOLEAN, stop : Stops, content : {"none", "assistant", "calls"}]
      /\ turns \in Nat /\ before \in Nat
      /\ answer \in [text : BOOLEAN, stop : Stops, content : {"none", "assistant", "calls"}]
      /\ recovered \in BOOLEAN /\ recoveries \in 0..MaxRecoveries
      /\ continued \in 0..MaxContinued /\ staged \in BOOLEAN
  BY RunAssumption DEF NoAnswer, Stops, TypeOK
<1>1. CASE UNCHANGED turn
  BY <1>0, <1>1 DEF turn
<1>2. CASE Begin
  BY <1>0, <1>2, TurnsRecordedTyped DEF Begin, turn, TypeOK
<1>3. CASE StartTurn
  <2>1. /\ turns' = turns + 1 /\ recovered' = FALSE /\ before' = before /\ answer' = answer
        /\ recoveries' = recoveries /\ continued' = continued /\ staged' = staged
    BY <1>3 DEF StartTurn
  <2>2. turns + 1 \in Nat
    BY <1>0
  <2> QED
    BY <1>0, <2>1, <2>2, Zenon
<1>4. CASE Attempt
  BY <1>0, <1>4 DEF Attempt
<1>5. CASE StreamThrows
  <2>1. UNCHANGED <<turns, before, answer, continued, staged>>
    BY <1>5 DEF StreamThrows
  <2>2. \/ recovered' = recovered /\ recoveries' = recoveries
        \/ recovered' = TRUE /\ recoveries < MaxRecoveries /\ recoveries' = recoveries + 1
    BY <1>5 DEF StreamThrows
  <2>3. recovered' \in BOOLEAN
    BY <1>0, <2>2, Zenon
  <2>4. recoveries' \in 0..MaxRecoveries
    <3>1. recoveries \in 0..MaxRecoveries /\ MaxRecoveries \in Nat
      BY <1>0
    <3>2. recoveries' = recoveries \/ (recoveries < MaxRecoveries /\ recoveries' = recoveries + 1)
      BY <2>2, Zenon
    <3> QED
      BY <3>1, <3>2
  <2>5. /\ turns' = turns /\ before' = before /\ answer' = answer
        /\ continued' = continued /\ staged' = staged
    BY <2>1
  <2> QED
    BY <1>0, <2>3, <2>4, <2>5, Zenon
<1>6. CASE Respond \/ StreamText
  <2>1. /\ turns' = turns /\ before' = before /\ recovered' = recovered /\ recoveries' = recoveries
        /\ continued' = continued /\ staged' = staged
    BY <1>6 DEF Respond, StreamText
  <2>2. \/ \E stop \in Stops, content \in {"none", "assistant", "calls"} :
             answer' = [answer EXCEPT !.stop = stop, !.content = content]
        \/ answer' = [answer EXCEPT !.text = TRUE]
    BY <1>6 DEF Respond, StreamText
  <2>3. answer' \in [text : BOOLEAN, stop : Stops, content : {"none", "assistant", "calls"}]
    BY <1>0, <2>2
  <2> QED
    BY <1>0, <2>1, <2>3, Zenon
<1>7. CASE Decide
  <2>1. answer' \in {[answer EXCEPT !.text = FALSE], NoAnswer} /\ continued' \in {continued, 0}
    BY <1>7 DEF Decide
  <2>2. answer' \in [text : BOOLEAN, stop : Stops, content : {"none", "assistant", "calls"}]
    BY <1>0, <2>1
  <2>4. continued' \in 0..MaxContinued
    BY <1>0, <2>1
  <2>3. /\ turns' = turns /\ before' = before /\ recovered' = recovered /\ recoveries' = recoveries
        /\ staged' = staged
    BY <1>7 DEF Decide
  <2> QED
    BY <1>0, <2>2, <2>3, <2>4, Zenon
<1>8. CASE StageContinuation
  <2>1. /\ turns' = turns /\ before' = before /\ answer' = answer
        /\ recovered' = recovered /\ recoveries' = recoveries
    BY <1>8 DEF StageContinuation
  <2>2. \/ continued' = continued /\ staged' = staged
        \/ ~(continued >= MaxContinued) /\ continued' = continued + 1 /\ staged' = TRUE
    BY <1>8 DEF StageContinuation
  <2>3. staged' \in BOOLEAN
    BY <1>0, <2>2, Zenon
  <2>4. continued' \in 0..MaxContinued
    <3>1. continued \in 0..MaxContinued /\ MaxContinued \in Nat
      BY <1>0
    <3>2. continued' = continued \/ (~(continued >= MaxContinued) /\ continued' = continued + 1)
      BY <2>2, Zenon
    <3> QED
      BY <3>1, <3>2
  <2> QED
    BY <1>0, <2>1, <2>3, <2>4, Zenon
<1>9. CASE BeginEnding
  BY <1>0, <1>9 DEF BeginEnding
<1>10. CASE RunAgain
  <2>1. /\ turns' = 0 /\ before' = 0 /\ answer' = NoAnswer /\ recovered' = FALSE /\ recoveries' = 0
        /\ continued' = 0 /\ staged' = FALSE
    BY <1>10 DEF RunAgain
  <2>2. 0 \in Nat /\ 0 \in 0..MaxRecoveries /\ 0 \in 0..MaxContinued
    BY <1>0
  <2> QED
    BY <1>0, <2>1, <2>2, Zenon
<1> QED
  BY <1>1, <1>2, <1>3, <1>4, <1>5, <1>6, <1>7, <1>8, <1>9, <1>10, TurnSteps

LEMMA FlagTypes ==
  ASSUME TypeOK, [Next]_vars
  PROVE  (\A flag \in {paused, held, aborted, ending, endAborted, ended, owned, orphan, undrained} :
            flag \in BOOLEAN)'
<1>0. /\ paused \in BOOLEAN /\ held \in BOOLEAN /\ aborted \in BOOLEAN /\ ending \in BOOLEAN
      /\ endAborted \in BOOLEAN /\ ended \in BOOLEAN /\ owned \in BOOLEAN
      /\ orphan \in BOOLEAN /\ undrained \in BOOLEAN
  BY DEF TypeOK
<1>1. paused' \in BOOLEAN /\ held' \in BOOLEAN
  BY <1>0, GateSteps DEF gate, Started, PromptHook, SaveSnapshot, Pause, Resume, Abort, RunAgain
<1>2. /\ aborted' \in BOOLEAN /\ ending' \in BOOLEAN /\ endAborted' \in BOOLEAN
      /\ ended' \in BOOLEAN /\ owned' \in BOOLEAN
  BY <1>0, SignalSteps DEF signals, BeginEnding, Finish, Release, Abort, RunAgain
<1>3. orphan' \in BOOLEAN /\ undrained' \in BOOLEAN
  BY <1>0, OtherSteps DEF others, HooksRun, ToolsReturn, ToolsInterrupted, CompactAborted,
     ClosePrincipals, Delegate, OrphanSettles, Crash, RunAgain
<1> QED
  BY <1>1, <1>2, <1>3

(* A steer is on its way to the log while it is the first in hand.             *)
InHand == pc = "steered" => delivering # <<>>

LEMMA SteerTypes ==
  ASSUME TypeOK, InHand, [Next]_vars
  PROVE  sent' \in Seq(Steers) /\ pendingSteers' \in Seq(Steers) /\ delivering' \in Seq(Steers)
<1>0. /\ sent \in Seq(Steers) /\ pendingSteers \in Seq(Steers) /\ delivering \in Seq(Steers)
      /\ <<>> \in Seq(Steers)
      /\ delivering # <<>> => Tail(delivering) \in Seq(Steers)
  BY DEF TypeOK
<1>1. CASE UNCHANGED steers
  BY <1>0, <1>1 DEF steers
<1>2. CASE PassGate
  BY <1>0, <1>2 DEF PassGate, steers
<1>3. CASE Steered
  <2>1. Tail(delivering) \in Seq(Steers)
    BY <1>0, <1>3 DEF Steered, At, InHand
  <2> QED
    BY <1>0, <1>3, <2>1 DEF Steered
<1>4. CASE AppendAnswer(<<>>)
  BY <1>0, <1>4 DEF AppendAnswer
<1>5. ASSUME NEW s \in Steers, AppendAnswer(<<s>>) \/ Steer(s)
      PROVE  sent' \in Seq(Steers) /\ pendingSteers' \in Seq(Steers) /\ delivering' \in Seq(Steers)
  <2>1. CASE AppendAnswer(<<s>>)
    <3>1. <<s>> \in Seq(Steers)
      BY <1>5
    <3>2. sent \o <<s>> \in Seq(Steers) /\ pendingSteers \o <<s>> \in Seq(Steers)
      BY <1>0, <3>1
    <3> QED
      BY <1>0, <2>1, <3>2 DEF AppendAnswer
  <2>2. CASE Steer(s)
    BY <1>0, <1>5, <2>2 DEF Steer
  <2> QED
    BY <1>5, <2>1, <2>2
<1>6. CASE EndHooks
  BY <1>0, <1>6 DEF EndHooks
<1>7. CASE ReportSteer
  BY <1>0, <1>7 DEF ReportSteer
<1>8. CASE RunAgain
  BY <1>0, <1>8 DEF RunAgain
<1> QED
  BY <1>1, <1>2, <1>3, <1>4, <1>5, <1>6, <1>7, <1>8, SteerSteps

LEMMA TypeKeeps == ASSUME TypeOK, InHand, [Next]_vars PROVE TypeOK'
<1>1. may' \in Scenarios /\ run' \in 1..MaxRuns
  <2>1. may \in Scenarios /\ run \in 1..MaxRuns /\ MaxRuns \in Nat
    BY RunAssumption DEF TypeOK
  <2>2. CASE UNCHANGED world
    BY <2>1, <2>2 DEF world
  <2>3. CASE RunAgain
    BY <2>1, <2>3 DEF RunAgain
  <2> QED
    BY <2>2, <2>3, WorldSteps
<1> QED
  BY <1>1, ChainTypes, ConversationTypes, CounterTypes, FlagTypes, SteerTypes DEF TypeOK
-----------------------------------------------------------------------------
(* ---- The chain.                                                             *)
(* The loop waits for at most one line, the one its place calls for; an        *)
(* observer has at most one more.                                              *)
Awaited(kind, place, fail) == \E p : <<p, kind, place, fail>> \in Emits
Fails == {"caught", "turnFailed", "compactFailed", "ending", "escaped", "orphans", "settled",
          "hooks", "undelivered", "release"}
OneEach == \A i, j \in DOMAIN queue : queue[i].by = queue[j].by => i = j
Expected ==
  \A i \in DOMAIN queue :
    IF queue[i].by = "loop" THEN Awaited(queue[i].line.kind, pc, onFail)
    ELSE queue[i].line = Plain("note")
Silence == \A i \in DOMAIN queue :
             queue[i].line.kind \notin Speaking => queue[i].line.blocks = <<>>
Chained == /\ InHand /\ onFail \in Fails /\ OneEach /\ Expected /\ Silence /\ base <= Len(log)

LEMMA QueueTail ==
  ASSUME TypeOK, queue # <<>>
  PROVE  /\ Len(queue) \in Nat /\ DOMAIN queue = 1..Len(queue) /\ 1 \in DOMAIN queue
         /\ Head(queue) = queue[1] /\ Head(queue).line \in Line
         /\ Head(queue).by \in {"loop", "other"}
         /\ Len(Tail(queue)) = Len(queue) - 1 /\ DOMAIN Tail(queue) = 1..(Len(queue) - 1)
         /\ \A i \in 1..(Len(queue) - 1) : i + 1 \in DOMAIN queue /\ Tail(queue)[i] = queue[i + 1]
         /\ \A i \in DOMAIN queue : /\ queue[i].line \in Line /\ queue[i].by \in {"loop", "other"}
                                    /\ i # 1 => i - 1 \in DOMAIN Tail(queue)
<1> DEFINE E == [line : Line, by : {"loop", "other"}]
<1>1. queue \in Seq(E) /\ \A e \in E : e.line \in Line /\ e.by \in {"loop", "other"}
  BY DEF TypeOK
<1> HIDE DEF E
<1>2. Len(queue) \in Nat /\ Len(queue) > 0 /\ DOMAIN queue = 1..Len(queue) /\ Head(queue) = queue[1]
  BY <1>1
<1>3. /\ Tail(queue) \in Seq(E) /\ Len(Tail(queue)) = Len(queue) - 1
      /\ \A i \in 1..(Len(queue) - 1) : Tail(queue)[i] = queue[i + 1]
  BY <1>1, <1>2
<1>4. \A i \in 1..(Len(queue) - 1) : i + 1 \in 1..Len(queue)
  BY <1>2
<1>5. \A i \in DOMAIN queue : queue[i] \in E
  BY <1>1
<1>6. \A i \in 1..Len(queue) : i # 1 => i - 1 \in 1..(Len(queue) - 1)
  BY <1>2
<1>7. 1 \in DOMAIN queue /\ DOMAIN Tail(queue) = 1..(Len(queue) - 1)
  BY <1>2, <1>3
<1> QED
  BY <1>1, <1>2, <1>3, <1>4, <1>5, <1>6, <1>7

LEMMA QueueAppend ==
  ASSUME TypeOK, NEW e \in [line : Line, by : {"loop", "other"}], queue' = Append(queue, e)
  PROVE  /\ Len(queue) \in Nat /\ DOMAIN queue = 1..Len(queue)
         /\ DOMAIN queue' = 1..(Len(queue) + 1) /\ queue'[Len(queue) + 1] = e
         /\ Len(queue') = Len(queue) + 1
         /\ \A i \in DOMAIN queue : queue'[i] = queue[i] /\ i # Len(queue) + 1
         /\ \A i \in DOMAIN queue' : i \in DOMAIN queue \/ i = Len(queue) + 1
<1> DEFINE E == [line : Line, by : {"loop", "other"}]
<1>1. queue \in Seq(E) /\ e \in E
  BY DEF TypeOK
<1> HIDE DEF E
<1>2. Len(queue) \in Nat /\ DOMAIN queue = 1..Len(queue)
  BY <1>1
<1>3. queue' \in Seq(E) /\ Len(queue') = Len(queue) + 1 /\ queue'[Len(queue) + 1] = e
      /\ \A i \in 1..Len(queue) : queue'[i] = queue[i]
  BY <1>1
<1> QED
  BY <1>2, <1>3

LEMMA ChainKeeps ==
  ASSUME TypeOK, Chained, [Next]_vars
  PROVE  Chained'
<1>0. log \in Seq(Line) /\ base \in Nat /\ Len(log) \in Nat /\ base <= Len(log)
  BY DEF TypeOK, Chained
<1>1. CASE ~Awaiting /\ Moves /\ UNCHANGED <<base, may, run>>
  <2>0. log' = log
    BY <1>1 DEF Moves, Went, Emitted
  <2>1. base' <= Len(log')
    BY <1>0, <1>1, <2>0
  <2>2. CASE Went
    <3>1. InHand'
      BY <2>2 DEF Went, Goes, InHand
    <3>2. queue' = queue /\ onFail' = onFail /\ \A i \in DOMAIN queue : queue[i].by # "loop"
      BY <1>1, <2>2 DEF Went, Awaiting
    <3>3. OneEach' /\ Expected' /\ Silence'
      BY <3>2 DEF Chained, OneEach, Expected, Silence
    <3> QED
      BY <2>1, <3>1, <3>2, <3>3 DEF Chained
  <2>3. ASSUME NEW line, Emitted(line) PROVE Chained'
    <3> DEFINE e == [line |-> line, by |-> "loop"]
    <3>1. e \in [line : Line, by : {"loop", "other"}] /\ queue' = Append(queue, e)
          /\ e.by = "loop" /\ e.line = line
      BY <2>3 DEF Emitted
    <3> HIDE DEF e
    <3>2. /\ Len(queue) \in Nat /\ DOMAIN queue = 1..Len(queue)
          /\ DOMAIN queue' = 1..(Len(queue) + 1) /\ queue'[Len(queue) + 1] = e
          /\ Len(queue') = Len(queue) + 1
          /\ \A i \in DOMAIN queue : queue'[i] = queue[i] /\ i # Len(queue) + 1
          /\ \A i \in DOMAIN queue' : i \in DOMAIN queue \/ i = Len(queue) + 1
      BY <3>1, QueueAppend
    <3>3. \A i \in DOMAIN queue : queue[i].by # "loop"
      BY <1>1 DEF Awaiting
    <3>4. <<pc, line.kind, pc', onFail'>> \in Emits /\ Says(line)
      BY <2>3 DEF Emitted
    <3>5. Awaited(line.kind, pc', onFail') /\ onFail' \in Fails
      <4>1. Awaited(line.kind, pc', onFail')
        BY <3>4 DEF Awaited
      <4>2. onFail' \in Fails
        BY <3>4 DEF Emits, Fails
      <4> QED
        BY <4>1, <4>2
    <3>6. OneEach'
      BY <3>1, <3>2, <3>3 DEF Chained, OneEach
    <3>7. Expected'
      BY <3>1, <3>2, <3>3, <3>5 DEF Chained, Expected
    <3>8. Silence'
      BY <3>1, <3>2, <3>4 DEF Chained, Silence, Says, SaysBlocks
    <3>9. InHand'
      <4>1. pc' = "steered" => line.kind = "steer"
        BY <3>4 DEF Emits
      <4> QED
        BY <3>4, <4>1 DEF InHand, Says, SaysSteer
    <3> QED
      BY <2>1, <3>5, <3>6, <3>7, <3>8, <3>9 DEF Chained
  <2> QED
    BY <1>1, <2>2, <2>3 DEF Moves
<1>2. CASE (Write \/ WriteFails) /\ UNCHANGED <<base, delivering>>
  <2>1. queue # <<>> /\ queue' = Tail(queue) /\ onFail' = onFail
    BY <1>2 DEF Write, WriteFails
  <2>2. /\ Len(queue) \in Nat /\ DOMAIN queue = 1..Len(queue) /\ 1 \in DOMAIN queue
        /\ Head(queue) = queue[1] /\ Head(queue).line \in Line
        /\ DOMAIN queue' = 1..(Len(queue) - 1)
        /\ \A i \in DOMAIN queue' : i + 1 \in DOMAIN queue /\ queue'[i] = queue[i + 1]
    BY <2>1, QueueTail
  <2>3. OneEach' /\ Silence'
    <3>1. \A i, j \in DOMAIN queue' : i + 1 = j + 1 => i = j
      BY <2>2
    <3>2. OneEach'
      BY <2>2, <3>1 DEF Chained, OneEach
    <3>3. Silence'
      BY <2>2 DEF Chained, Silence
    <3> QED
      BY <3>2, <3>3
  <2>4. base' <= Len(log')
    <3>1. log' = log \/ log' = Append(log, Head(queue).line)
      BY <1>2 DEF Write, WriteFails
    <3>2. Len(log') >= Len(log) /\ Len(log') \in Nat
      BY <1>0, <2>2, <3>1
    <3> QED
      BY <1>0, <1>2, <3>2
  <2>5. Expected'
    <3>1. CASE pc' = pc
      BY <2>1, <2>2, <3>1 DEF Chained, Expected
    <3>2. CASE pc' # pc
      <4>1. Head(queue).by = "loop"
        BY <1>2, <3>2 DEF Write, WriteFails
      <4>2. \A i \in DOMAIN queue' : i + 1 # 1
        BY <2>2
      <4>3. \A i \in DOMAIN queue' : queue'[i].by # "loop"
        BY <2>2, <4>1, <4>2 DEF Chained, OneEach
      <4> QED
        BY <2>2, <4>3 DEF Chained, Expected
    <3> QED
      BY <3>1, <3>2
  <2>6. InHand'
    BY <1>2 DEF Write, WriteFails, Chained, Fails, InHand
  <2> QED
    BY <2>1, <2>3, <2>4, <2>5, <2>6 DEF Chained
<1>3. CASE Crash \/ RunAgain
  <2>1. queue' = <<>> /\ pc' # "steered" /\ onFail' \in {onFail, "caught"} /\ log' = log
        /\ base' \in {base, Len(log)}
    BY <1>3 DEF Crash, RunAgain, conversation
  <2>2. DOMAIN queue' = {}
    BY <2>1
  <2>3. base' <= Len(log')
    BY <1>0, <2>1
  <2>4. onFail' \in Fails
    BY <2>1 DEF Chained, Fails
  <2> QED
    BY <2>1, <2>2, <2>3, <2>4 DEF Chained, InHand, OneEach, Expected, Silence
<1>4. CASE Note
  <2> DEFINE e == [line |-> Plain("note"), by |-> "other"]
  <2>1. e \in [line : Line, by : {"loop", "other"}] /\ queue' = Append(queue, e)
        /\ e.by = "other" /\ e.line = Plain("note") /\ e.line.blocks = <<>>
    <3>1. "note" \in Kinds
      BY DEF Kinds
    <3> QED
      BY <1>4, <3>1, LineTyped DEF Note
  <2> HIDE DEF e
  <2>2. /\ Len(queue) \in Nat /\ DOMAIN queue = 1..Len(queue)
        /\ DOMAIN queue' = 1..(Len(queue) + 1) /\ queue'[Len(queue) + 1] = e
        /\ \A i \in DOMAIN queue : queue'[i] = queue[i] /\ i # Len(queue) + 1
        /\ \A i \in DOMAIN queue' : i \in DOMAIN queue \/ i = Len(queue) + 1
    BY <2>1, QueueAppend
  <2>3. /\ \A i \in DOMAIN queue : queue[i].by = "loop"
        /\ log' = log /\ pc' = pc /\ onFail' = onFail /\ base' = base /\ delivering' = delivering
    BY <1>4 DEF Note, conversation, steers
  <2>4. OneEach'
    BY <2>1, <2>2, <2>3 DEF Chained, OneEach
  <2>5. Expected'
    BY <2>1, <2>2, <2>3 DEF Chained, Expected
  <2>6. Silence'
    BY <2>1, <2>2, <2>3 DEF Chained, Silence
  <2> QED
    BY <2>3, <2>4, <2>5, <2>6 DEF Chained, InHand
<1>5. CASE UNCHANGED <<log, queue, pc, onFail, base, delivering>>
  BY <1>5 DEF Chained, InHand, OneEach, Expected, Silence
<1> QED
  BY <1>1, <1>2, <1>3, <1>4, <1>5, ChainSteps DEF conversation

ChainInv == TypeOK /\ Chained

LEMMA ChainInit == Init => ChainInv
<1> SUFFICES ASSUME Init PROVE ChainInv
  OBVIOUS
<1>1. TypeOK
  <2>1. log \in Seq(Line) /\ queue \in Seq([line : Line, by : {"loop", "other"}])
    BY DEF Init
  <2>2. pc \in Places /\ onFail \in Places /\ may \in Scenarios /\ run \in 1..MaxRuns
    BY RunAssumption DEF Init, Places
  <2>3. /\ messages \in Seq(Blocks) /\ loaded \in Seq(Blocks) /\ base \in Nat
        /\ snapshot = None \/ snapshot \in Seq(Blocks)
        /\ turns \in Nat /\ before \in Nat
    BY DEF Init
  <2>4. answer \in [text : BOOLEAN, stop : Stops, content : {"none", "assistant", "calls"}]
    BY DEF Init, NoAnswer, Stops
  <2>5. recovered \in BOOLEAN /\ staged \in BOOLEAN
    BY DEF Init
  <2>6. recoveries \in 0..MaxRecoveries /\ continued \in 0..MaxContinued
    BY RunAssumption DEF Init
  <2>7. \A flag \in {paused, held, aborted, ending, endAborted, ended, owned, orphan, undrained} :
          flag \in BOOLEAN
    BY DEF Init
  <2>8. sent \in Seq(Steers) /\ pendingSteers \in Seq(Steers) /\ delivering \in Seq(Steers)
    BY DEF Init
  <2> QED
    BY <2>1, <2>2, <2>3, <2>4, <2>5, <2>6, <2>7, <2>8 DEF TypeOK
<1>2. Chained
  <2>1. DOMAIN queue = {} /\ pc = "begin" /\ onFail = "caught" /\ base = 0 /\ Len(log) = 0
    BY DEF Init
  <2> QED
    BY <2>1 DEF Chained, InHand, OneEach, Expected, Silence, Fails
<1> QED
  BY <1>1, <1>2 DEF ChainInv

LEMMA ChainNext == ChainInv /\ [Next]_vars => ChainInv'
<1> SUFFICES ASSUME TypeOK, Chained, [Next]_vars PROVE TypeOK' /\ Chained'
  BY DEF ChainInv
<1>1. InHand
  BY DEF Chained
<1> QED
  BY <1>1, TypeKeeps, ChainKeeps

(* The chain of lines: whatever the host, the tools and an observer do, the    *)
(* loop waits for one line at most, of the kind its place calls for, and goes  *)
(* where that place's handler says when the append fails.                      *)
THEOREM RunChained == Spec => [](TypeOK /\ Chained)
<1>1. Spec => []ChainInv
  BY ChainInit, ChainNext, PTL DEF Spec
<1> QED
  BY <1>1, PTL DEF ChainInv
-----------------------------------------------------------------------------
(* ---- The end of the log.                                                    *)
Ends ==
  /\ ended => pc \in {"release", "closed", "dead"}
  /\ \A i \in base + 1..Len(log) : log[i].kind = "session.end" => i = Len(log) /\ ended /\ queue = <<>>
  /\ \A i \in DOMAIN queue : queue[i].line.kind = "session.end" => i = Len(queue) /\ ended

LEMMA EndsKeeps ==
  ASSUME TypeOK, Chained, Ends, [Next]_vars
  PROVE  Ends'
<1>0. log \in Seq(Line) /\ base \in Nat /\ Len(log) \in Nat /\ base <= Len(log) /\ ended \in BOOLEAN
  BY DEF TypeOK, Chained
<1>1. CASE ~Awaiting /\ Moves /\ UNCHANGED <<base, may, run>>
  <2>1. CASE Went
    <3>1. log' = log /\ queue' = queue /\ ended' = ended /\ base' = base
      BY <1>1, <2>1 DEF Went
    <3>2. ended => pc' \in {"release", "closed", "dead"}
      BY <2>1 DEF Ends, Went, Goes
    <3> QED
      BY <3>1, <3>2 DEF Ends
  <2>2. ASSUME NEW line, Emitted(line) PROVE Ends'
    <3>1. ~ended /\ log' = log /\ base' = base
      BY <1>1, <2>2 DEF Ends, Emitted, Emits
    <3>2. (line.kind = "session.end" => pc' = "release") /\ (ended' <=> line.kind = "session.end")
      BY <2>2, <3>1 DEF Emitted, Emits, Says, SaysEnd
    <3>3. \A i \in base + 1..Len(log) : log[i].kind # "session.end"
      BY <3>1 DEF Ends
    <3>4. \A i \in DOMAIN queue : queue[i].line.kind # "session.end"
      BY <3>1 DEF Ends
    <3>5. \A i \in DOMAIN queue' : queue'[i].line.kind = "session.end" => i = Len(queue') /\ ended'
      <4> DEFINE e == [line |-> line, by |-> "loop"]
      <4>1. e \in [line : Line, by : {"loop", "other"}] /\ queue' = Append(queue, e) /\ e.line = line
        BY <2>2 DEF Emitted
      <4> HIDE DEF e
      <4>2. /\ queue'[Len(queue) + 1] = e /\ Len(queue') = Len(queue) + 1
            /\ \A i \in DOMAIN queue : queue'[i] = queue[i]
            /\ \A i \in DOMAIN queue' : i \in DOMAIN queue \/ i = Len(queue) + 1
        BY <4>1, QueueAppend
      <4> QED
        BY <3>2, <3>4, <4>1, <4>2
    <3> QED
      BY <3>1, <3>2, <3>3, <3>5 DEF Ends
  <2> QED
    BY <1>1, <2>1, <2>2 DEF Moves
<1>2. CASE (Write \/ WriteFails) /\ UNCHANGED <<base, ended>>
  <2>1. queue # <<>> /\ queue' = Tail(queue) /\ onFail' = onFail
    BY <1>2 DEF Write, WriteFails
  <2>2. /\ Len(queue) \in Nat /\ DOMAIN queue = 1..Len(queue) /\ 1 \in DOMAIN queue
        /\ Head(queue) = queue[1] /\ Head(queue).line \in Line
        /\ Len(queue') = Len(queue) - 1 /\ DOMAIN queue' = 1..(Len(queue) - 1)
        /\ \A i \in DOMAIN queue' : i + 1 \in DOMAIN queue /\ queue'[i] = queue[i + 1]
    BY <2>1, QueueTail
  <2>3. \A i \in base + 1..Len(log) : log[i].kind # "session.end"
    BY <2>1 DEF Ends
  <2>4. \A i \in base' + 1..Len(log') :
          log'[i].kind = "session.end" => i = Len(log') /\ ended' /\ queue' = <<>>
    <3>1. CASE log' = log
      BY <1>2, <2>3, <3>1
    <3>2. CASE log' = Append(log, Head(queue).line)
      <4>1. /\ Len(log') = Len(log) + 1 /\ log'[Len(log) + 1] = Head(queue).line
            /\ \A i \in 1..Len(log) : log'[i] = log[i]
        BY <1>0, <2>2, <3>2
      <4>2. Head(queue).line.kind = "session.end" => ended /\ Len(queue) = 1
        BY <2>2 DEF Ends
      <4>3. Len(queue) = 1 => queue' = <<>>
        BY <2>1, <2>2 DEF TypeOK
      <4>4. ASSUME NEW i \in base + 1..Len(log'), i # Len(log) + 1 PROVE log'[i].kind # "session.end"
        <5>1. i \in base + 1..Len(log) /\ i \in 1..Len(log)
          BY <1>0, <4>1, <4>4
        <5> QED
          BY <2>3, <4>1, <5>1
      <4> QED
        BY <1>2, <4>1, <4>2, <4>3, <4>4
    <3> QED
      BY <1>2, <3>1, <3>2 DEF Write, WriteFails
  <2>5. \A i \in DOMAIN queue' : queue'[i].line.kind = "session.end" => i = Len(queue') /\ ended'
    <3>1. ASSUME NEW i \in DOMAIN queue', queue'[i].line.kind = "session.end"
          PROVE  i = Len(queue') /\ ended'
      <4>1. i + 1 = Len(queue) /\ ended
        BY <2>2, <3>1 DEF Ends
      <4> QED
        BY <1>2, <2>2, <4>1
    <3> QED
      BY <3>1
  <2>6. ended' => pc' \in {"release", "closed", "dead"}
    <3>1. CASE pc' = pc
      BY <1>2, <3>1 DEF Ends
    <3>2. CASE pc' # pc
      <4>1. Head(queue).by = "loop" /\ pc' = onFail
        BY <1>2, <3>2 DEF Write, WriteFails
      <4>2. PICK p : <<p, Head(queue).line.kind, pc, onFail>> \in Emits
        BY <2>2, <4>1 DEF Chained, Expected, Awaited
      <4>3. pc \in {"release", "closed", "dead"} => onFail = "release"
        BY <4>2 DEF Emits
      <4> QED
        BY <1>2, <4>1, <4>3 DEF Ends
    <3> QED
      BY <3>1, <3>2
  <2> QED
    BY <2>4, <2>5, <2>6 DEF Ends
<1>3. CASE Crash /\ UNCHANGED <<base, ended>>
  <2>1. queue' = <<>> /\ pc' = "dead" /\ log' = log
    BY <1>3 DEF Crash
  <2>2. DOMAIN queue' = {}
    BY <2>1
  <2> QED
    BY <1>3, <2>1, <2>2 DEF Ends
<1>4. CASE RunAgain
  <2>1. queue' = <<>> /\ base' = Len(log) /\ log' = log /\ ended' = FALSE
    BY <1>4 DEF RunAgain
  <2>2. DOMAIN queue' = {} /\ base' + 1..Len(log') = {}
    BY <1>0, <2>1
  <2> QED
    BY <2>1, <2>2 DEF Ends
<1>5. CASE Note /\ UNCHANGED <<base, ended>>
  <2> DEFINE e == [line |-> Plain("note"), by |-> "other"]
  <2>1. e \in [line : Line, by : {"loop", "other"}] /\ queue' = Append(queue, e) /\ e.line.kind = "note"
    <3>1. "note" \in Kinds
      BY DEF Kinds
    <3> QED
      BY <1>5, <3>1, LineTyped DEF Note
  <2> HIDE DEF e
  <2>2. /\ queue'[Len(queue) + 1] = e
        /\ \A i \in DOMAIN queue : queue'[i] = queue[i]
        /\ \A i \in DOMAIN queue' : i \in DOMAIN queue \/ i = Len(queue) + 1
    BY <2>1, QueueAppend
  <2>3. ~ended /\ log' = log /\ pc' = pc
    BY <1>5 DEF Note
  <2> QED
    BY <1>5, <2>1, <2>2, <2>3 DEF Ends
<1>6. CASE UNCHANGED <<log, queue, pc, base, ended>>
  BY <1>6 DEF Ends
<1> QED
  BY <1>1, <1>2, <1>3, <1>4, <1>5, <1>6, ChainSteps DEF conversation

EndInv == ChainInv /\ Ends

LEMMA EndNext == EndInv /\ [Next]_vars => EndInv'
BY ChainNext, EndsKeeps DEF EndInv, ChainInv

LEMMA EndInit == Init => EndInv
<1> SUFFICES ASSUME Init PROVE Ends
  BY ChainInit DEF EndInv
<1>1. DOMAIN queue = {} /\ base = 0 /\ Len(log) = 0 /\ ended = FALSE
  BY DEF Init
<1> QED
  BY <1>1 DEF Ends

(* session.end is the last line of its run: when it is handed over nothing     *)
(* that is still queued comes after it, and nobody queues another line.        *)
THEOREM RunEndIsLast == Spec => []EndIsLast
<1>1. EndInv => EndIsLast
  BY DEF EndInv, Ends, EndIsLast
<1> QED
  BY <1>1, EndInit, EndNext, PTL DEF Spec
-----------------------------------------------------------------------------
(* ---- Work left behind by an abort.                                          *)
Late == {"settled", "hooks", "undelivered", "release", "closed"}
Left ==
  /\ pc = "dead" => ~orphan
  /\ "fail" \notin may /\ orphan /\ pc \in Late =>
       \/ \E i \in base + 1..Len(log) : log[i].kind = "orphaned"
       \/ \E i \in DOMAIN queue : queue[i].line.kind = "orphaned"

LEMMA OrphanSteps ==
  ASSUME [Next]_vars
  PROVE  orphan' = orphan \/ orphan' = FALSE \/ pc' \in {"answered", "ending"}
BY OtherSteps DEF others, HooksRun, ToolsReturn, ToolsInterrupted, CompactAborted,
                  ClosePrincipals, Delegate, OrphanSettles, Crash, RunAgain, Emit, EndTurn

LEMMA LeftKeeps ==
  ASSUME TypeOK, Chained, Left, [Next]_vars
  PROVE  Left'
<1>0. /\ log \in Seq(Line) /\ base \in Nat /\ Len(log) \in Nat /\ base <= Len(log)
      /\ orphan \in BOOLEAN
  BY DEF TypeOK, Chained
<1>1. CASE orphan' = FALSE \/ pc' \in {"answered", "ending"}
  BY <1>1 DEF Left, Late
<1> SUFFICES ASSUME orphan' = orphan, orphan
             PROVE  Left'
  BY <1>0, <1>1, OrphanSteps
<1>2. CASE ~Awaiting /\ Moves /\ UNCHANGED <<base, may, run>>
  <2>1. CASE Went
    <3>1. log' = log /\ queue' = queue /\ base' = base /\ may' = may
      BY <1>2, <2>1 DEF Went
    <3>2. (pc' \in Late => pc \in Late) /\ pc' # "dead"
      BY <2>1 DEF Went, Goes, Late
    <3> QED
      BY <3>1, <3>2 DEF Left
  <2>2. ASSUME NEW line, Emitted(line) PROVE Left'
    <3>1. log' = log /\ base' = base /\ may' = may
      BY <1>2, <2>2 DEF Emitted
    <3>2. (pc' \in Late => pc \in Late \/ line.kind = "orphaned") /\ pc' # "dead"
      BY <2>2 DEF Emitted, Emits, Late
    <3> DEFINE e == [line |-> line, by |-> "loop"]
    <3>3. e \in [line : Line, by : {"loop", "other"}] /\ queue' = Append(queue, e) /\ e.line = line
      BY <2>2 DEF Emitted
    <3> HIDE DEF e
    <3>4. /\ Len(queue) + 1 \in DOMAIN queue' /\ queue'[Len(queue) + 1] = e
          /\ \A i \in DOMAIN queue : i \in DOMAIN queue' /\ queue'[i] = queue[i]
      BY <3>3, QueueAppend
    <3> QED
      BY <3>1, <3>2, <3>3, <3>4 DEF Left
  <2> QED
    BY <1>2, <2>1, <2>2 DEF Moves
<1>3. CASE Write /\ UNCHANGED <<base, may>>
  <2>1. queue # <<>> /\ queue' = Tail(queue) /\ pc' = pc /\ base' = base /\ may' = may
    BY <1>3 DEF Write
  <2>2. /\ 1 \in DOMAIN queue /\ Head(queue) = queue[1] /\ Head(queue).line \in Line
        /\ DOMAIN queue' = 1..(Len(queue) - 1) /\ Len(queue) \in Nat /\ DOMAIN queue = 1..Len(queue)
        /\ \A i \in 1..(Len(queue) - 1) : queue'[i] = queue[i + 1]
    BY <2>1, QueueTail
  <2>3. ASSUME NEW i \in base + 1..Len(log), log[i].kind = "orphaned"
        PROVE  \E k \in base' + 1..Len(log') : log'[k].kind = "orphaned"
    <3>1. i \in base' + 1..Len(log') /\ log'[i] = log[i]
      BY <1>0, <1>3, <2>1, <2>2 DEF Write
    <3> QED
      BY <2>3, <3>1
  <2>4. ASSUME NEW i \in DOMAIN queue, queue[i].line.kind = "orphaned"
        PROVE  \/ \E k \in base' + 1..Len(log') : log'[k].kind = "orphaned"
               \/ \E k \in DOMAIN queue' : queue'[k].line.kind = "orphaned"
    <3>1. CASE i = 1
      <4>1. ~Unread(Head(queue).line)
        BY <2>2, <2>4, <3>1 DEF Unread
      <4>2. log' = Append(log, Head(queue).line)
        BY <1>3, <4>1 DEF Write
      <4>3. Len(log') = Len(log) + 1 /\ log'[Len(log) + 1] = Head(queue).line
        BY <1>0, <2>2, <4>2
      <4>4. Len(log) + 1 \in base' + 1..Len(log')
        BY <1>0, <2>1, <4>3
      <4> QED
        BY <2>2, <2>4, <3>1, <4>3, <4>4
    <3>2. CASE i # 1
      <4>1. i - 1 \in DOMAIN queue' /\ (i - 1) + 1 = i
        BY <2>2, <3>2
      <4> QED
        BY <2>2, <2>4, <4>1
    <3> QED
      BY <3>1, <3>2
  <2> QED
    BY <2>1, <2>3, <2>4 DEF Left
<1>4. CASE WriteFails /\ UNCHANGED <<base, may>>
  <2>1. "fail" \in may' /\ pc' \in {pc, onFail} /\ "dead" \notin Fails
    BY <1>4 DEF WriteFails, Fails
  <2>2. pc' # "dead"
    BY <2>1 DEF Left, Chained
  <2> QED
    BY <2>1, <2>2 DEF Left
<1>5. CASE Crash \/ RunAgain
  BY <1>0, <1>5 DEF Crash, RunAgain
<1>6. CASE Note /\ UNCHANGED <<base, may>>
  <2> DEFINE e == [line |-> Plain("note"), by |-> "other"]
  <2>1. e \in [line : Line, by : {"loop", "other"}] /\ queue' = Append(queue, e)
    <3>1. "note" \in Kinds
      BY DEF Kinds
    <3> QED
      BY <1>6, <3>1, LineTyped DEF Note
  <2> HIDE DEF e
  <2>2. \A i \in DOMAIN queue : i \in DOMAIN queue' /\ queue'[i] = queue[i]
    BY <2>1, QueueAppend
  <2>3. log' = log /\ pc' = pc
    BY <1>6 DEF Note
  <2> QED
    BY <1>6, <2>2, <2>3 DEF Left
<1>7. CASE UNCHANGED <<log, queue, pc, base, may>>
  BY <1>7 DEF Left
<1> QED
  BY <1>2, <1>3, <1>4, <1>5, <1>6, <1>7, ChainSteps DEF conversation, world

LeftInv == EndInv /\ Left

LEMMA LeftNext == LeftInv /\ [Next]_vars => LeftInv'
BY EndNext, LeftKeeps DEF LeftInv, EndInv, ChainInv

(* The loop does not end before the work an abort left running unless the      *)
(* grace is up and the log says so.                                            *)
THEOREM RunEndsAfterOrphans == Spec => []EndsAfterOrphans
<1>1. Init => LeftInv
  BY EndInit DEF Init, LeftInv, Left, Late
<1>2. LeftInv => EndsAfterOrphans
  <2> SUFFICES ASSUME TypeOK, Chained, Ends, Left, ended, orphan, "fail" \notin may
               PROVE  \E l \in ToSet(ThisRun) : l.kind = "orphaned"
    BY DEF LeftInv, EndInv, ChainInv, EndsAfterOrphans
  <2>1. pc \in {"release", "closed"}
    BY DEF Ends, Left
  <2>2. ASSUME NEW i \in DOMAIN queue, queue[i].line.kind = "orphaned" PROVE FALSE
    <3>1. queue[i].by = "loop"
      <4>1. Plain("note").kind = "note"
        BY DEF Plain
      <4> QED
        BY <2>2, <4>1 DEF Chained, Expected
    <3>2. PICK p : <<p, "orphaned", pc, onFail>> \in Emits
      BY <2>2, <3>1 DEF Chained, Expected, Awaited
    <3> QED
      BY <2>1, <3>2 DEF Emits
  <2>3. PICK i \in base + 1..Len(log) : log[i].kind = "orphaned"
    BY <2>1, <2>2 DEF Left, Late
  <2>4. log \in Seq(Line) /\ base \in Nat /\ Len(log) \in Nat /\ base <= Len(log)
    BY DEF TypeOK, Chained
  <2>5. DOMAIN ThisRun = 1..(Len(log) - base) /\ \A k \in 1..(Len(log) - base) : ThisRun[k] = log[base + k]
    BY <2>4 DEF ThisRun
  <2>6. i - base \in DOMAIN ThisRun /\ ThisRun[i - base] = log[i]
    <3>1. i - base \in 1..(Len(log) - base) /\ base + (i - base) = i
      BY <2>4
    <3> QED
      BY <2>5, <3>1
  <2> QED
    BY <2>3, <2>6 DEF ToSet
<1> QED
  BY <1>1, <1>2, LeftNext, PTL DEF Spec
-----------------------------------------------------------------------------
(* ---- Turns.                                                                 *)
(* Inside a turn its start is the last mark of the log, or on its way there;   *)
(* the end that is on its way is that turn's.                                  *)
InTurn == {"asking", "vetted", "requested", "streaming", "responded", "heard", "decide",
           "truncated", "continue", "tools", "answered", "compacting", "compactFailed",
           "closing", "turnFailed"}
Opened(n) ==
  \E j \in 1..Len(log) : /\ log[j] = OfTurn("turn.start", n)
                         /\ \A k \in j + 1..Len(log) : log[k].kind \notin Marks
Turned ==
  /\ TurnsBracketed
  /\ pc \in InTurn => Opened(turns) \/ \E i \in DOMAIN queue : queue[i].line.kind = "turn.start"
  /\ \A i \in DOMAIN queue :
       queue[i].line.kind \in Marks => queue[i].line = OfTurn(queue[i].line.kind, turns)
  /\ \A i \in DOMAIN queue : queue[i].line.kind = "turn.end" => Opened(turns)

LEMMA TurnsSteps ==
  ASSUME [Next]_vars
  PROVE  turns' = turns \/ (pc \in {"begin", "steer"} /\ pc' \notin {"closing", "ending", "saving"})
         \/ RunAgain
BY TurnSteps DEF turn, Begin, StartTurn, Attempt, StreamText, StreamThrows, Respond, Decide,
                 StageContinuation, BeginEnding, At, Emit, Go

(* What an append does to the marks of the log.                                *)
LEMMA MarksAppend ==
  ASSUME log \in Seq(Line), NEW l \in Line, log' = Append(log, l), TurnsBracketed, NEW n \in Nat
  PROVE  /\ l.kind \notin Marks => TurnsBracketed' /\ (Opened(n) => Opened(n)')
         /\ l = OfTurn("turn.start", n) => TurnsBracketed' /\ Opened(n)'
         /\ l = OfTurn("turn.end", n) /\ Opened(n) => TurnsBracketed'
<1> DEFINE N == Len(log)
<1>1. /\ N \in Nat /\ DOMAIN log = 1..N /\ DOMAIN log' = 1..(N + 1) /\ Len(log') = N + 1
      /\ log'[N + 1] = l /\ \A i \in 1..N : log'[i] = log[i]
  OBVIOUS
<1> DEFINE Bracketed(i) == \E j \in 1..(i - 1) :
              /\ log'[j] = OfTurn("turn.start", log'[i].turn)
              /\ \A k \in (j + 1)..(i - 1) : log'[k].kind \notin {"turn.start", "turn.end"}
<1>2. ASSUME NEW i \in 1..N, log'[i].kind = "turn.end" PROVE Bracketed(i)
  <2>1. log'[i] = log[i]
    BY <1>1
  <2>2. PICK j \in 1..(i - 1) :
          /\ log[j] = OfTurn("turn.start", log[i].turn)
          /\ \A k \in (j + 1)..(i - 1) : log[k].kind \notin {"turn.start", "turn.end"}
    BY <1>1, <1>2, <2>1 DEF TurnsBracketed
  <2>3. log'[j] = log[j] /\ \A k \in (j + 1)..(i - 1) : log'[k] = log[k]
    <3>1. j \in 1..N /\ \A k \in (j + 1)..(i - 1) : k \in 1..N
      BY <1>1
    <3> QED
      BY <1>1, <3>1
  <2> QED
    BY <2>1, <2>2, <2>3
<1>3. (l.kind = "turn.end" => Bracketed(N + 1)) => TurnsBracketed'
  <2>1. SUFFICES ASSUME l.kind = "turn.end" => Bracketed(N + 1),
                        NEW i \in DOMAIN log', log'[i].kind = "turn.end"
                 PROVE  Bracketed(i)
    BY DEF TurnsBracketed
  <2> HIDE DEF Bracketed
  <2>2. i \in 1..N \/ i = N + 1
    BY <1>1
  <2> QED
    BY <1>1, <1>2, <2>1, <2>2
<1>4. ASSUME Opened(n) PROVE l.kind \notin Marks => Opened(n)'
  <2>1. PICK j \in 1..N : /\ log[j] = OfTurn("turn.start", n)
                          /\ \A k \in j + 1..N : log[k].kind \notin Marks
    BY <1>4 DEF Opened
  <2>2. j \in 1..Len(log') /\ log'[j] = OfTurn("turn.start", n)
    BY <1>1, <2>1
  <2>3. ASSUME l.kind \notin Marks, NEW k \in j + 1..Len(log') PROVE log'[k].kind \notin Marks
    <3>1. k = N + 1 \/ (k \in j + 1..N /\ k \in 1..N)
      BY <1>1, <2>3
    <3> QED
      BY <1>1, <2>1, <2>3, <3>1
  <2> QED
    BY <2>2, <2>3 DEF Opened
<1>5. OfTurn("turn.start", n).kind = "turn.start" /\ OfTurn("turn.end", n).kind = "turn.end"
      /\ OfTurn("turn.end", n).turn = n
  BY DEF OfTurn, Plain
<1>6. l.kind # "turn.end" => TurnsBracketed'
  BY <1>3
<1>7. l = OfTurn("turn.start", n) => Opened(n)'
  <2>1. N + 1 \in 1..Len(log') /\ (N + 1) + 1..Len(log') = {}
    BY <1>1
  <2> QED
    BY <1>1, <2>1 DEF Opened
<1>8. ASSUME l = OfTurn("turn.end", n), Opened(n) PROVE Bracketed(N + 1)
  <2>1. PICK j \in 1..N : /\ log[j] = OfTurn("turn.start", n)
                          /\ \A k \in j + 1..N : log[k].kind \notin Marks
    BY <1>8 DEF Opened
  <2>2. /\ j \in 1..((N + 1) - 1) /\ log'[j] = OfTurn("turn.start", log'[N + 1].turn)
        /\ \A k \in (j + 1)..((N + 1) - 1) : k \in 1..N /\ k \in j + 1..N
    BY <1>1, <1>5, <1>8, <2>1
  <2>3. \A k \in (j + 1)..((N + 1) - 1) : log'[k].kind \notin {"turn.start", "turn.end"}
    BY <1>1, <2>1, <2>2 DEF Marks
  <2> QED
    BY <2>2, <2>3
<1> HIDE DEF Bracketed
<1>9. l.kind \notin Marks => TurnsBracketed'
  BY <1>6 DEF Marks
<1> QED
  BY <1>3, <1>4, <1>5, <1>6, <1>7, <1>8, <1>9

LEMMA TurnedKeeps ==
  ASSUME TypeOK, Chained, Turned, [Next]_vars
  PROVE  Turned'
<1>0. /\ log \in Seq(Line) /\ turns \in Nat
      /\ Plain("note").kind \notin Marks
  BY DEF TypeOK, Plain, Marks
<1>1. CASE ~Awaiting /\ Moves /\ UNCHANGED <<base, may, run>>
  <2>1. \A i \in DOMAIN queue : queue[i].line.kind \notin Marks
    BY <1>0, <1>1 DEF Awaiting, Chained, Expected
  <2>2. pc \in InTurn => Opened(turns)
    BY <2>1 DEF Turned, Marks
  <2>3. log' = log
    BY <1>1 DEF Moves, Went, Emitted
  <2>4. TurnsBracketed' /\ \A n : Opened(n)' <=> Opened(n)
    BY <2>3 DEF Turned, TurnsBracketed, Opened
  <2>5. pc \in InTurn => turns' = turns
    <3>1. CASE RunAgain
      <4>1. pc \in {"closed", "escaped", "dead"}
        BY <3>1 DEF RunAgain, Returned
      <4> QED
        BY <4>1 DEF InTurn
    <3>2. CASE pc \in {"begin", "steer"}
      BY <3>2 DEF InTurn
    <3> QED
      BY <3>1, <3>2, TurnsSteps
  <2>6. CASE Went
    <3>1. queue' = queue /\ (pc' \in InTurn => pc \in InTurn)
      BY <2>6 DEF Went, Goes, InTurn
    <3> QED
      BY <2>1, <2>2, <2>4, <2>5, <3>1 DEF Turned, Marks
  <2>7. ASSUME NEW line, Emitted(line) PROVE Turned'
    <3> DEFINE e == [line |-> line, by |-> "loop"]
    <3>1. e \in [line : Line, by : {"loop", "other"}] /\ queue' = Append(queue, e) /\ e.line = line
      BY <2>7 DEF Emitted
    <3> HIDE DEF e
    <3>2. /\ Len(queue) + 1 \in DOMAIN queue' /\ queue'[Len(queue) + 1] = e
          /\ \A i \in DOMAIN queue : i \in DOMAIN queue' /\ queue'[i] = queue[i]
          /\ \A i \in DOMAIN queue' : i \in DOMAIN queue \/ i = Len(queue) + 1
      BY <3>1, QueueAppend
    <3>3. /\ pc' \in InTurn => pc \in InTurn \/ line.kind = "turn.start"
          /\ line.kind = "turn.end" => pc \in InTurn
      BY <2>7 DEF Emitted, Emits, InTurn
    <3>4. line.kind \in Marks => line = OfTurn(line.kind, turns')
      BY <2>7 DEF Emitted, Says, SaysTurn
    <3>5. pc' \in InTurn => Opened(turns)' \/ \E i \in DOMAIN queue' : queue'[i].line.kind = "turn.start"
      BY <2>2, <2>4, <2>5, <3>1, <3>2, <3>3
    <3>6. \A i \in DOMAIN queue' :
            queue'[i].line.kind \in Marks => queue'[i].line = OfTurn(queue'[i].line.kind, turns')
      BY <2>1, <3>1, <3>2, <3>4
    <3>7. \A i \in DOMAIN queue' : queue'[i].line.kind = "turn.end" => Opened(turns)'
      <4>1. line.kind = "turn.end" => Opened(turns) /\ turns' = turns
        BY <2>2, <2>5, <3>3
      <4>2. \A i \in DOMAIN queue' : queue'[i].line.kind = "turn.end" => line.kind = "turn.end"
        BY <2>1, <3>1, <3>2 DEF Marks
      <4> QED
        BY <2>4, <4>1, <4>2
    <3> QED
      BY <2>4, <3>5, <3>6, <3>7 DEF Turned
  <2> QED
    BY <1>1, <2>6, <2>7 DEF Moves
<1>2. CASE (Write \/ WriteFails) /\ UNCHANGED turns
  <2> DEFINE h == Head(queue)
  <2>1. queue # <<>> /\ queue' = Tail(queue) /\ onFail' = onFail /\ turns' = turns
    BY <1>2 DEF Write, WriteFails
  <2>2. /\ 1 \in DOMAIN queue /\ h = queue[1] /\ h.line \in Line /\ h.by \in {"loop", "other"}
        /\ DOMAIN queue' = 1..(Len(queue) - 1) /\ Len(queue) \in Nat /\ DOMAIN queue = 1..Len(queue)
        /\ \A i \in 1..(Len(queue) - 1) : i + 1 \in DOMAIN queue /\ queue'[i] = queue[i + 1]
        /\ \A i \in DOMAIN queue : i # 1 => i - 1 \in DOMAIN queue'
    BY <2>1, QueueTail
  <2> HIDE DEF h
  <2>3. h.by # "loop" => h.line.kind \notin Marks
    BY <1>0, <2>2 DEF Chained, Expected
  <2>4. h.by = "loop" => \A i \in DOMAIN queue' : queue'[i].line.kind \notin Marks
    <3>1. ASSUME h.by = "loop", NEW i \in DOMAIN queue' PROVE queue'[i].by # "loop" /\ i + 1 \in DOMAIN queue
      <4>1. i + 1 \in DOMAIN queue /\ i + 1 # 1 /\ queue'[i] = queue[i + 1]
        BY <2>2
      <4> QED
        BY <2>2, <3>1, <4>1 DEF Chained, OneEach
    <3> QED
      BY <1>0, <2>2, <3>1 DEF Chained, Expected
  <2>5. \A i \in DOMAIN queue' :
          queue'[i].line.kind \in Marks => queue'[i].line = OfTurn(queue'[i].line.kind, turns')
    BY <2>1, <2>2 DEF Turned
  <2>6. h.by = "loop" => \E p : <<p, h.line.kind, pc, onFail>> \in Emits
    BY <2>2 DEF Chained, Expected, Awaited
  <2>7. pc' \in InTurn => pc \in InTurn
    <3>1. CASE pc' = pc
      BY <3>1
    <3>2. CASE pc' # pc
      <4>1. h.by = "loop" /\ pc' = onFail
        BY <1>2, <3>2 DEF Write, WriteFails, h
      <4> QED
        BY <2>6, <4>1 DEF Emits, InTurn
    <3> QED
      BY <3>1, <3>2
  <2>8. CASE log' = log
    <3>1. TurnsBracketed' /\ (Opened(turns)' <=> Opened(turns))
      BY <2>1, <2>8 DEF Turned, TurnsBracketed, Opened
    <3>2. \A i \in DOMAIN queue' : queue'[i].line.kind = "turn.end" => Opened(turns)'
      BY <2>2, <3>1 DEF Turned
    <3>3. ASSUME pc' \in InTurn
          PROVE  Opened(turns)' \/ \E i \in DOMAIN queue' : queue'[i].line.kind = "turn.start"
      <4>1. Opened(turns) \/ \E i \in DOMAIN queue : queue[i].line.kind = "turn.start"
        BY <2>7, <3>3 DEF Turned
      <4>2. ASSUME NEW i \in DOMAIN queue, queue[i].line.kind = "turn.start"
            PROVE  \E k \in DOMAIN queue' : queue'[k].line.kind = "turn.start"
        <5>1. CASE i = 1
          <6>1. h.by = "loop" /\ h.line.kind = "turn.start"
            BY <2>2, <2>3, <4>2, <5>1 DEF Marks
          <6>2. pc = "asking" /\ onFail = "caught"
            BY <2>6, <6>1 DEF Emits
          <6>3. pc' = "caught"
            <7>1. ~Unread(h.line)
              BY <6>1 DEF Unread
            <7>2. Len(Append(log, h.line)) = Len(log) + 1 /\ Len(log) \in Nat
              BY <1>0, <2>2
            <7>3. WriteFails
              BY <1>2, <2>8, <7>1, <7>2 DEF Write, h
            <7> QED
              BY <6>1, <6>2, <7>3 DEF WriteFails, h
          <6> QED
            BY <3>3, <6>3 DEF InTurn
        <5>2. CASE i # 1
          <6>1. i - 1 \in 1..(Len(queue) - 1) /\ (i - 1) + 1 = i
            BY <2>2, <5>2
          <6> QED
            BY <2>2, <4>2, <6>1
        <5> QED
          BY <5>1, <5>2
      <4> QED
        BY <3>1, <4>1, <4>2
    <3> QED
      BY <2>5, <3>1, <3>2, <3>3 DEF Turned
  <2>9. CASE log' = Append(log, h.line) /\ pc' = pc
    <3>0. /\ h.line.kind \notin Marks => TurnsBracketed' /\ (Opened(turns) => Opened(turns)')
          /\ h.line = OfTurn("turn.start", turns) => TurnsBracketed' /\ Opened(turns)'
          /\ h.line = OfTurn("turn.end", turns) /\ Opened(turns) => TurnsBracketed'
      <4>1. ASSUME NEW n \in Nat
            PROVE  /\ h.line.kind \notin Marks => TurnsBracketed' /\ (Opened(n) => Opened(n)')
                   /\ h.line = OfTurn("turn.start", n) => TurnsBracketed' /\ Opened(n)'
                   /\ h.line = OfTurn("turn.end", n) /\ Opened(n) => TurnsBracketed'
        BY <1>0, <2>2, <2>9, MarksAppend DEF Turned
      <4>2. turns' = turns /\ turns \in Nat
        BY <1>0, <2>1
      <4> QED
        BY <4>1, <4>2 DEF Opened
    <3>1. CASE h.line.kind \notin Marks
      <4>1. TurnsBracketed' /\ (Opened(turns) => Opened(turns)')
        BY <3>0, <3>1
      <4>2. \A i \in DOMAIN queue' : queue'[i].line.kind = "turn.end" => Opened(turns)'
        BY <2>2, <4>1 DEF Turned
      <4>3. ASSUME NEW i \in DOMAIN queue, queue[i].line.kind = "turn.start"
            PROVE  \E k \in DOMAIN queue' : queue'[k].line.kind = "turn.start"
        <5>1. i # 1
          BY <2>2, <3>1, <4>3 DEF Marks
        <5>2. i - 1 \in 1..(Len(queue) - 1) /\ (i - 1) + 1 = i
          BY <2>2, <5>1
        <5> QED
          BY <2>2, <4>3, <5>2
      <4> QED
        BY <2>5, <2>9, <4>1, <4>2, <4>3 DEF Turned
    <3>2. CASE h.line.kind = "turn.start"
      <4>1. h.line = OfTurn("turn.start", turns)
        BY <2>2, <3>2 DEF Turned, Marks
      <4>2. TurnsBracketed' /\ Opened(turns)'
        BY <3>0, <4>1
      <4> QED
        BY <2>5, <4>2 DEF Turned
    <3>3. CASE h.line.kind = "turn.end"
      <4>1. h.line = OfTurn("turn.end", turns) /\ Opened(turns) /\ h.by = "loop"
        BY <2>2, <2>3, <3>3 DEF Turned, Marks
      <4>2. TurnsBracketed'
        BY <3>0, <4>1
      <4>3. pc \notin InTurn
        BY <2>6, <3>3, <4>1 DEF Emits, InTurn
      <4>4. \A i \in DOMAIN queue' : queue'[i].line.kind # "turn.end"
        BY <2>4, <4>1 DEF Marks
      <4> QED
        BY <2>5, <2>9, <4>2, <4>3, <4>4 DEF Turned
    <3> QED
      BY <3>1, <3>2, <3>3 DEF Marks
  <2> QED
    BY <1>2, <2>8, <2>9 DEF Write, WriteFails, h
<1>3. CASE Crash \/ RunAgain
  <2>1. queue' = <<>> /\ pc' \in {"dead", "begin"} /\ log' = log
    BY <1>3 DEF Crash, RunAgain
  <2>2. DOMAIN queue' = {} /\ pc' \notin InTurn /\ TurnsBracketed'
    BY <2>1 DEF InTurn, Turned, TurnsBracketed
  <2> QED
    BY <2>2 DEF Turned
<1>4. CASE Note /\ UNCHANGED turns
  <2> DEFINE e == [line |-> Plain("note"), by |-> "other"]
  <2>1. e \in [line : Line, by : {"loop", "other"}] /\ queue' = Append(queue, e) /\ e.line = Plain("note")
    <3>1. "note" \in Kinds
      BY DEF Kinds
    <3> QED
      BY <1>4, <3>1, LineTyped DEF Note
  <2> HIDE DEF e
  <2>2. /\ queue'[Len(queue) + 1] = e
        /\ \A i \in DOMAIN queue : i \in DOMAIN queue' /\ queue'[i] = queue[i]
        /\ \A i \in DOMAIN queue' : i \in DOMAIN queue \/ i = Len(queue) + 1
    BY <2>1, QueueAppend
  <2>3. log' = log /\ pc' = pc /\ turns' = turns
    BY <1>4 DEF Note
  <2>4. TurnsBracketed' /\ (Opened(turns)' <=> Opened(turns))
    BY <2>3 DEF Turned, TurnsBracketed, Opened
  <2>5. \A i \in DOMAIN queue' : queue'[i].line.kind \in Marks => i \in DOMAIN queue
    BY <1>0, <2>1, <2>2
  <2> QED
    BY <2>2, <2>3, <2>4, <2>5 DEF Turned, Marks
<1>5. CASE UNCHANGED <<log, queue, pc, turns>>
  BY <1>5 DEF Turned, TurnsBracketed, Opened
<1> QED
  BY <1>1, <1>2, <1>3, <1>4, <1>5, ChainSteps DEF turn

TurnInv == ChainInv /\ Turned

LEMMA TurnNext == TurnInv /\ [Next]_vars => TurnInv'
BY ChainNext, TurnedKeeps DEF TurnInv, ChainInv

(* A turn that ended was started, and ended once, before any other began: the  *)
(* start is in the log before the loop goes on, and every way out of a turn    *)
(* that ends it leads out of its places for good.                              *)
THEOREM RunTurnsBracketed == Spec => []TurnsBracketed
<1>1. Init => TurnInv
  <2> SUFFICES ASSUME Init PROVE Turned
    BY ChainInit DEF TurnInv
  <2>1. DOMAIN queue = {} /\ DOMAIN log = {} /\ pc = "begin"
    BY DEF Init
  <2> QED
    BY <2>1 DEF Turned, TurnsBracketed, InTurn
<1>2. TurnInv => TurnsBracketed
  BY DEF TurnInv, Turned
<1> QED
  BY <1>1, <1>2, TurnNext, PTL DEF Spec
-----------------------------------------------------------------------------
(* ---- The lines of a run: those in the log, then those on their way.         *)
Entry == [line : Line, by : {"loop", "other"}]

LEMMA SameSequence ==
  ASSUME NEW S, NEW s \in Seq(S), NEW t \in Seq(S), Len(s) = Len(t),
         \A i \in 1..Len(s) : s[i] = t[i]
  PROVE  s = t
OBVIOUS

LEMMA Cutting ==
  ASSUME NEW l \in Seq(Line), NEW b \in Nat, b <= Len(l)
  PROVE  /\ Len(l) \in Nat /\ SubSeq(l, b + 1, Len(l)) \in Seq(Line)
         /\ Len(SubSeq(l, b + 1, Len(l))) = Len(l) - b
         /\ \A i \in 1..(Len(l) - b) : SubSeq(l, b + 1, Len(l))[i] = l[b + i]
OBVIOUS

LEMMA Joined ==
  ASSUME NEW u \in Seq(Line), NEW v \in Seq(Line)
  PROVE  /\ u \o v \in Seq(Line) /\ Len(u \o v) = Len(u) + Len(v)
         /\ \A i \in 1..Len(u) : (u \o v)[i] = u[i]
         /\ \A i \in 1..Len(v) : (u \o v)[Len(u) + i] = v[i]
<1>1. u \o v \in Seq(Line) /\ Len(u \o v) = Len(u) + Len(v) /\ Len(u) \in Nat /\ Len(v) \in Nat
  OBVIOUS
<1>2. \A i \in 1..Len(u) : (u \o v)[i] = u[i]
  BY <1>1
<1>3. ASSUME NEW i \in 1..Len(v) PROVE (u \o v)[Len(u) + i] = v[i]
  <2>1. /\ Len(u) + i \in 1..(Len(u) + Len(v)) /\ ~(Len(u) + i <= Len(u))
        /\ (Len(u) + i) - Len(u) = i
    BY <1>1
  <2> QED
    BY <1>1, <2>1
<1> QED
  BY <1>1, <1>2, <1>3

LEMMA LinesNow ==
  ASSUME TypeOK, base <= Len(log)
  PROVE  /\ Lines \in Seq(Line) /\ Len(log) \in Nat /\ Len(queue) \in Nat
         /\ Len(Lines) = (Len(log) - base) + Len(queue)
         /\ \A i \in 1..(Len(log) - base) : Lines[i] = log[base + i]
         /\ \A i \in 1..Len(queue) : Lines[(Len(log) - base) + i] = queue[i].line
<1> DEFINE u == SubSeq(log, base + 1, Len(log))
           v == [i \in DOMAIN queue |-> queue[i].line]
<1>1. log \in Seq(Line) /\ base \in Nat /\ base <= Len(log) /\ queue \in Seq(Entry)
  BY DEF TypeOK, Entry
<1>2. /\ Len(log) \in Nat /\ u \in Seq(Line) /\ Len(u) = Len(log) - base
      /\ \A i \in 1..(Len(log) - base) : u[i] = log[base + i]
  BY <1>1, Cutting
<1>3. /\ Len(queue) \in Nat /\ v \in Seq(Line) /\ Len(v) = Len(queue)
      /\ \A i \in 1..Len(queue) : v[i] = queue[i].line
  <2>1. Len(queue) \in Nat /\ DOMAIN queue = 1..Len(queue) /\ \A i \in 1..Len(queue) : queue[i] \in Entry
    BY <1>1
  <2>2. \A i \in 1..Len(queue) : queue[i].line \in Line
    BY <2>1 DEF Entry
  <2> QED
    BY <2>1, <2>2
<1> HIDE DEF u, v
<1>4. /\ u \o v \in Seq(Line) /\ Len(u \o v) = Len(u) + Len(v)
      /\ \A i \in 1..Len(u) : (u \o v)[i] = u[i]
      /\ \A i \in 1..Len(v) : (u \o v)[Len(u) + i] = v[i]
  BY <1>2, <1>3, Joined
<1>5. Lines = u \o v
  BY DEF Lines, ThisRun, u, v
<1> QED
  BY <1>2, <1>3, <1>4, <1>5

LEMMA LinesThen ==
  ASSUME log' \in Seq(Line), base' \in Nat, base' <= Len(log'), queue' \in Seq(Entry)
  PROVE  /\ Lines' \in Seq(Line) /\ Len(log') \in Nat /\ Len(queue') \in Nat
         /\ Len(Lines') = (Len(log') - base') + Len(queue')
         /\ \A i \in 1..(Len(log') - base') : Lines'[i] = log'[base' + i]
         /\ \A i \in 1..Len(queue') : Lines'[(Len(log') - base') + i] = queue'[i].line
<1> DEFINE u == SubSeq(log', base' + 1, Len(log'))
           v == [i \in DOMAIN queue' |-> queue'[i].line]
<1>1. log' \in Seq(Line) /\ base' \in Nat /\ base' <= Len(log') /\ queue' \in Seq(Entry)
  BY DEF TypeOK, Entry
<1>2. /\ Len(log') \in Nat /\ u \in Seq(Line) /\ Len(u) = Len(log') - base'
      /\ \A i \in 1..(Len(log') - base') : u[i] = log'[base' + i]
  BY <1>1, Cutting
<1>3. /\ Len(queue') \in Nat /\ v \in Seq(Line) /\ Len(v) = Len(queue')
      /\ \A i \in 1..Len(queue') : v[i] = queue'[i].line
  <2>1. Len(queue') \in Nat /\ DOMAIN queue' = 1..Len(queue') /\ \A i \in 1..Len(queue') : queue'[i] \in Entry
    BY <1>1
  <2>2. \A i \in 1..Len(queue') : queue'[i].line \in Line
    BY <2>1 DEF Entry
  <2> QED
    BY <2>1, <2>2
<1> HIDE DEF u, v
<1>4. /\ u \o v \in Seq(Line) /\ Len(u \o v) = Len(u) + Len(v)
      /\ \A i \in 1..Len(u) : (u \o v)[i] = u[i]
      /\ \A i \in 1..Len(v) : (u \o v)[Len(u) + i] = v[i]
  BY <1>2, <1>3, Joined
<1>5. Lines' = u \o v
  BY DEF Lines, ThisRun, u, v
<1> QED
  BY <1>2, <1>3, <1>4, <1>5

LEMMA LinesAppend ==
  ASSUME TypeOK, base <= Len(log), NEW e \in Entry, queue' = Append(queue, e),
         log' = log, base' = base
  PROVE  Lines' = Append(Lines, e.line) /\ Lines \in Seq(Line)
<1> DEFINE K == Len(log) - base
<1>1. /\ log \in Seq(Line) /\ base \in Nat /\ queue \in Seq(Entry) /\ e.line \in Line
      /\ Len(log) \in Nat /\ K \in Nat
  BY DEF TypeOK, Entry
<1>2. /\ queue' \in Seq(Entry) /\ Len(queue') = Len(queue) + 1 /\ queue'[Len(queue) + 1] = e
      /\ \A i \in 1..Len(queue) : queue'[i] = queue[i]
  BY <1>1
<1>3. /\ Lines \in Seq(Line) /\ Len(queue) \in Nat /\ Len(Lines) = K + Len(queue)
      /\ \A i \in 1..K : Lines[i] = log[base + i]
      /\ \A i \in 1..Len(queue) : Lines[K + i] = queue[i].line
  BY LinesNow
<1>4. /\ Lines' \in Seq(Line) /\ Len(Lines') = K + Len(queue')
      /\ \A i \in 1..K : Lines'[i] = log[base + i]
      /\ \A i \in 1..Len(queue') : Lines'[K + i] = queue'[i].line
  BY <1>1, <1>2, LinesThen
<1> HIDE DEF K
<1>5. /\ Append(Lines, e.line) \in Seq(Line) /\ Len(Append(Lines, e.line)) = Len(Lines')
      /\ \A i \in 1..(K + Len(queue)) : Append(Lines, e.line)[i] = Lines[i]
      /\ Append(Lines, e.line)[K + Len(queue) + 1] = e.line
  BY <1>1, <1>2, <1>3, <1>4
<1>6. ASSUME NEW i \in 1..Len(Lines') PROVE Lines'[i] = Append(Lines, e.line)[i]
  <2>1. CASE i \in 1..K
    <3>1. i \in 1..(K + Len(queue))
      BY <1>1, <1>3, <2>1
    <3> QED
      BY <1>3, <1>4, <1>5, <2>1, <3>1
  <2>2. CASE i \notin 1..K
    <3>1. PICK j \in 1..Len(queue') : i = K + j
      <4>1. i - K \in 1..Len(queue') /\ i = K + (i - K)
        BY <1>1, <1>2, <1>3, <1>4, <2>2
      <4> QED
        BY <4>1
    <3>2. CASE j \in 1..Len(queue)
      <4>1. K + j \in 1..(K + Len(queue))
        BY <1>1, <1>3, <3>2
      <4> QED
        BY <1>2, <1>3, <1>4, <1>5, <3>1, <3>2, <4>1
    <3>3. CASE j \notin 1..Len(queue)
      <4>1. j = Len(queue) + 1 /\ i = K + Len(queue) + 1
        BY <1>1, <1>2, <1>3, <3>1, <3>3
      <4> QED
        BY <1>2, <1>4, <1>5, <3>1, <4>1
    <3> QED
      BY <3>2, <3>3
  <2> QED
    BY <2>1, <2>2
<1> QED
  BY <1>3, <1>4, <1>5, <1>6, SameSequence

(* An append moves a line from the chain to the log, or, when nobody reads it, *)
(* takes it out.                                                               *)
LEMMA LinesWrite ==
  ASSUME TypeOK, base <= Len(log), Write, base' = base
  PROVE  /\ Lines \in Seq(Line)
         /\ \/ Lines' = Lines
            \/ \E k \in 1..Len(Lines) :
                 /\ Without(Lines, k, Lines') /\ Unread(Lines[k])
                 /\ \E i \in DOMAIN queue : Lines[k] = queue[i].line
                 /\ k = (Len(log) - base) + 1
<1> DEFINE K == Len(log) - base
           h == Head(queue)
<1>1. /\ log \in Seq(Line) /\ base \in Nat /\ queue \in Seq(Entry)
      /\ Len(log) \in Nat /\ K \in Nat
  BY DEF TypeOK, Entry
<1>2. /\ Len(queue) \in Nat /\ 1 \in DOMAIN queue /\ h = queue[1] /\ h.line \in Line
      /\ Len(queue') = Len(queue) - 1 /\ Len(queue) >= 1
      /\ \A i \in 1..(Len(queue) - 1) : queue'[i] = queue[i + 1]
  <2>1. queue # <<>> /\ queue' = Tail(queue)
    BY DEF Write
  <2>2. Len(queue) >= 1 /\ Len(queue) \in Nat
    BY <1>1, <2>1
  <2> QED
    BY <2>1, <2>2, QueueTail
<1>3. /\ Lines \in Seq(Line) /\ Len(queue) \in Nat /\ Len(Lines) = K + Len(queue)
      /\ \A i \in 1..K : Lines[i] = log[base + i]
      /\ \A i \in 1..Len(queue) : Lines[K + i] = queue[i].line
  BY LinesNow
<1>4. queue' \in Seq(Entry)
  <2>1. queue # <<>> /\ queue' = Tail(queue)
    BY DEF Write
  <2> QED
    BY <1>1, <2>1
<1> HIDE DEF h
<1>5. CASE Unread(h.line)
  <2>1. log' = log
    BY <1>5 DEF Write, h
  <2>2. /\ Lines' \in Seq(Line) /\ Len(Lines') = K + Len(queue')
        /\ \A i \in 1..K : Lines'[i] = log[base + i]
        /\ \A i \in 1..Len(queue') : Lines'[K + i] = queue'[i].line
    BY <1>1, <1>4, <2>1, LinesThen
  <2> HIDE DEF K
  <2>3. K + 1 \in 1..Len(Lines) /\ Lines[K + 1] = queue[1].line
    BY <1>1, <1>2, <1>3
  <2>4. ASSUME NEW n \in 1..Len(Lines')
        PROVE  Lines'[n] = IF n < K + 1 THEN Lines[n] ELSE Lines[n + 1]
    <3>1. CASE n < K + 1
      <4>1. n \in 1..K
        BY <1>1, <1>2, <1>3, <2>2, <3>1
      <4> QED
        BY <1>3, <2>2, <3>1, <4>1
    <3>2. CASE ~(n < K + 1)
      <4>1. /\ n - K \in 1..Len(queue') /\ n = K + (n - K)
            /\ (n - K) + 1 \in 1..Len(queue) /\ n + 1 = K + ((n - K) + 1)
            /\ n - K \in 1..(Len(queue) - 1)
        BY <1>1, <1>2, <1>3, <2>2, <3>2
      <4>2. Lines'[n] = queue'[n - K].line
        BY <2>2, <4>1
      <4>3. Lines[n + 1] = queue[(n - K) + 1].line
        BY <1>3, <4>1
      <4> QED
        BY <1>2, <3>2, <4>1, <4>2, <4>3
    <3> QED
      BY <3>1, <3>2
  <2>5. Len(Lines) = Len(Lines') + 1
    BY <1>1, <1>2, <1>3, <2>2
  <2>6. Without(Lines, K + 1, Lines')
    BY <1>3, <2>2, <2>3, <2>4, <2>5 DEF Without
  <2>7. K + 1 = (Len(log) - base) + 1
    BY DEF K
  <2> QED
    BY <1>2, <1>3, <1>5, <2>3, <2>6, <2>7
<1>6. CASE ~Unread(h.line)
  <2>1. log' = Append(log, h.line)
    BY <1>6 DEF Write, h
  <2>2. /\ log' \in Seq(Line) /\ Len(log') = Len(log) + 1 /\ log'[Len(log) + 1] = h.line
        /\ \A i \in 1..Len(log) : log'[i] = log[i]
    BY <1>1, <1>2, <2>1
  <2>3. /\ Lines' \in Seq(Line) /\ Len(Lines') = (Len(log') - base) + Len(queue')
        /\ \A i \in 1..(Len(log') - base) : Lines'[i] = log'[base + i]
        /\ \A i \in 1..Len(queue') : Lines'[(Len(log') - base) + i] = queue'[i].line
    BY <1>1, <1>4, <2>2, LinesThen
  <2>4. Len(log') - base = K + 1 /\ Len(Lines') = Len(Lines)
    BY <1>1, <1>2, <1>3, <2>2, <2>3
  <2>5. ASSUME NEW n \in 1..Len(Lines) PROVE Lines'[n] = Lines[n]
    <3>1. CASE n \in 1..K
      <4>1. n \in 1..(K + 1) /\ base + n \in 1..Len(log)
        BY <1>1, <3>1
      <4> QED
        BY <1>3, <2>2, <2>3, <2>4, <3>1, <4>1
    <3>2. CASE n = K + 1
      <4>1. n \in 1..(K + 1) /\ base + n = Len(log) + 1 /\ 1 \in 1..Len(queue)
        BY <1>1, <1>2, <3>2
      <4> QED
        BY <1>2, <1>3, <2>2, <2>3, <2>4, <3>2, <4>1
    <3>3. CASE n \notin 1..K /\ n # K + 1
      <4> HIDE DEF K
      <4>1. /\ n - (K + 1) \in 1..Len(queue') /\ n = (K + 1) + (n - (K + 1))
            /\ (n - (K + 1)) + 1 \in 1..Len(queue) /\ n = K + ((n - (K + 1)) + 1)
            /\ n - (K + 1) \in 1..(Len(queue) - 1)
        BY <1>1, <1>2, <1>3, <3>3
      <4>2. Lines'[n] = queue'[n - (K + 1)].line
        BY <2>3, <2>4, <4>1
      <4>3. Lines[n] = queue[(n - (K + 1)) + 1].line
        BY <1>3, <4>1
      <4> QED
        BY <1>2, <4>1, <4>2, <4>3
    <3> QED
      BY <3>1, <3>2, <3>3
  <2>6. Lines' = Lines
    BY <1>3, <2>3, <2>4, <2>5, SameSequence
  <2> QED
    BY <1>3, <2>6
<1> QED
  BY <1>5, <1>6

LEMMA LinesNone ==
  ASSUME log \in Seq(Line), log' = log, base' = Len(log), queue' = <<>>
  PROVE  Lines' = <<>>
<1>1. Len(log) \in Nat /\ queue' \in Seq(Entry) /\ Len(queue') = 0
  OBVIOUS
<1>2. Lines' \in Seq(Line) /\ Len(Lines') = 0
  BY <1>1, LinesThen
<1> QED
  BY <1>2

(* What an append, a hand-over and an observer's line do to the lines.         *)
LEMMA ToldSteps ==
  ASSUME TypeOK, Chained, base' = base
  PROVE  /\ Told(Lines) \in Seq(Steers \cup {None}) /\ Lines \in Seq(Line)
         /\ log' = log /\ queue' = queue => Lines' = Lines
         /\ \A line : Emitted(line) => Lines' = Append(Lines, line) /\ line \in Line
         /\ Write => Told(Lines') = Told(Lines)
         /\ Note => Lines' = Append(Lines, Plain("note")) /\ Plain("note") \in Line
<1>1. base <= Len(log)
  BY DEF Chained
<1>2. Lines \in Seq(Line) /\ Told(Lines) \in Seq(Steers \cup {None})
  BY <1>1, LinesNow, ToldTyped
<1>3. log' = log /\ queue' = queue => Lines' = Lines
  BY DEF Lines, ThisRun
<1>4. ASSUME NEW line, Emitted(line) PROVE Lines' = Append(Lines, line) /\ line \in Line
  <2> DEFINE e == [line |-> line, by |-> "loop"]
  <2>1. /\ e \in Entry /\ e.line = line /\ queue' = Append(queue, e) /\ log' = log
        /\ line \in Line
    BY <1>4 DEF Emitted, Entry
  <2> HIDE DEF e
  <2> QED
    BY <1>1, <2>1, LinesAppend
<1>5. ASSUME Write PROVE Told(Lines') = Told(Lines)
  <2>1. CASE Lines' = Lines
    BY <2>1
  <2>2. ASSUME NEW k \in 1..Len(Lines), Without(Lines, k, Lines'), Unread(Lines[k])
        PROVE  Told(Lines') = Told(Lines)
    <3>1. Lines[k].kind \notin {"steer", "undelivered"}
      BY <2>2 DEF Unread
    <3> QED
      BY <2>2, <3>1, ToldWithout
  <2> QED
    BY <1>1, <1>5, <2>1, <2>2, LinesWrite
<1>6. ASSUME Note PROVE Lines' = Append(Lines, Plain("note")) /\ Plain("note") \in Line
  <2> DEFINE e == [line |-> Plain("note"), by |-> "other"]
  <2>1. Plain("note") \in Line
    BY LineTyped DEF Kinds
  <2>2. e \in Entry /\ e.line = Plain("note") /\ queue' = Append(queue, e) /\ log' = log
    BY <1>6, <2>1 DEF Note, Entry
  <2> HIDE DEF e
  <2> QED
    BY <1>1, <2>1, <2>2, LinesAppend
<1> QED
  BY <1>2, <1>3, <1>4, <1>5, <1>6
-----------------------------------------------------------------------------
(* ---- Steers.                                                                *)
LEMMA SteerPlaces ==
  ASSUME Turn \/ Ending
  PROVE  /\ pc = "steered" => Steered
         /\ pc = "steer" => DeliverSteer \/ StartTurn
         /\ pc = "undelivered" => ReportSteer \/ Finish
         /\ \/ UNCHANGED steers \/ PassGate \/ Steered \/ AppendAnswer(<<>>)
            \/ (\E s \in Steers : AppendAnswer(<<s>>)) \/ EndHooks \/ ReportSteer
<1>1. pc = "steered" => Steered
  BY DEF Turn, Ending, Begin, Started, PromptHook, PassGate, DeliverSteer, Steered, StartTurn,
       HooksRun, RequestRefused, BeforeRequest, Attempt, StreamText, StreamThrows, Respond,
       AppendAnswer, Decide, Truncated, StageContinuation, ToolsReturn,
       ToolsAnswered, ToolsInterrupted, ToolsReject, KeepConversation, Compact,
       CompactAborted, CompactFailed, CloseTurn, SaveSnapshot, Caught, TurnFailed,
       ClosePrincipals, BeginEnding, GraceExpires, OrphansSettled, Finishing,
       EndHooks, ReportSteer, Finish, Release, At
<1>2. pc = "steer" => DeliverSteer \/ StartTurn
  BY DEF Turn, Ending, Begin, Started, PromptHook, PassGate, DeliverSteer, Steered, StartTurn,
       HooksRun, RequestRefused, BeforeRequest, Attempt, StreamText, StreamThrows, Respond,
       AppendAnswer, Decide, Truncated, StageContinuation, ToolsReturn,
       ToolsAnswered, ToolsInterrupted, ToolsReject, KeepConversation, Compact,
       CompactAborted, CompactFailed, CloseTurn, SaveSnapshot, Caught, TurnFailed,
       ClosePrincipals, BeginEnding, GraceExpires, OrphansSettled, Finishing,
       EndHooks, ReportSteer, Finish, Release, At
<1>3. pc = "undelivered" => ReportSteer \/ Finish
  BY DEF Turn, Ending, Begin, Started, PromptHook, PassGate, DeliverSteer, Steered, StartTurn,
       HooksRun, RequestRefused, BeforeRequest, Attempt, StreamText, StreamThrows, Respond,
       AppendAnswer, Decide, Truncated, StageContinuation, ToolsReturn,
       ToolsAnswered, ToolsInterrupted, ToolsReject, KeepConversation, Compact,
       CompactAborted, CompactFailed, CloseTurn, SaveSnapshot, Caught, TurnFailed,
       ClosePrincipals, BeginEnding, GraceExpires, OrphansSettled, Finishing,
       EndHooks, ReportSteer, Finish, Release, At
<1>4. \/ UNCHANGED steers \/ PassGate \/ Steered \/ AppendAnswer(<<>>)
      \/ (\E s \in Steers : AppendAnswer(<<s>>)) \/ EndHooks \/ ReportSteer
  BY DEF Turn, Ending, Begin, Started, PromptHook, PassGate, DeliverSteer, Steered, StartTurn,
       HooksRun, RequestRefused, BeforeRequest, Attempt, StreamText, StreamThrows, Respond,
       AppendAnswer, Decide, Truncated, StageContinuation, ToolsReturn,
       ToolsAnswered, ToolsInterrupted, ToolsReject, KeepConversation, Compact,
       CompactAborted, CompactFailed, CloseTurn, SaveSnapshot, Caught, TurnFailed,
       ClosePrincipals, BeginEnding, GraceExpires, OrphansSettled, Finishing,
       EndHooks, ReportSteer, Finish, Release
<1> QED
  BY <1>1, <1>2, <1>3, <1>4

(* The steers the loop has taken off the queue and not yet logged.             *)
Handed == IF pc = "steered" THEN Tail(delivering) ELSE delivering
Conserved ==
  "fail" \notin may /\ pc # "dead" =>
    /\ delivering # <<>> => pc \in {"steer", "steered", "undelivered"}
    /\ sent = Told(Lines) \o Handed \o pendingSteers

LEMMA Splices ==
  ASSUME NEW X, NEW t \in Seq(X), NEW d \in Seq(X), NEW p \in Seq(X), NEW i \in Seq(X)
  PROVE  /\ d # <<>> => Append(t, Head(d)) \o Tail(d) \o p = t \o d \o p
         /\ t \o <<>> \o p = t \o p \o <<>>
         /\ (t \o d \o p) \o i = t \o d \o (p \o i)
         /\ p \o <<>> = p
<1>1. d # <<>> => Append(t, Head(d)) \o Tail(d) = t \o d
  OBVIOUS
<1>2. t \o <<>> = t /\ (t \o p) \o <<>> = t \o p /\ p \o <<>> = p
  OBVIOUS
<1>3. t \o d \in Seq(X)
  OBVIOUS
<1>4. ((t \o d) \o p) \o i = (t \o d) \o (p \o i)
  BY <1>3
<1> QED
  BY <1>1, <1>2, <1>4

LEMMA ConservedKeeps ==
  ASSUME TypeOK, Chained, Conserved, [Next]_vars
  PROVE  Conserved'
<1> DEFINE X == Steers \cup {None}
           T == Told(Lines)
<1>1. CASE RunAgain
  <2>1. /\ sent' = <<>> /\ delivering' = <<>> /\ pendingSteers' = <<>> /\ pc' = "begin"
        /\ log' = log /\ base' = Len(log) /\ queue' = <<>>
    BY <1>1 DEF RunAgain
  <2>2. Lines' = <<>>
    BY <2>1, LinesNone DEF TypeOK
  <2>3. Told(Lines') = <<>>
    BY <2>2, ToldNothing
  <2> QED
    BY <2>1, <2>3 DEF Conserved, Handed
<1> SUFFICES ASSUME ~RunAgain, "fail" \notin may', pc' # "dead"
             PROVE  /\ delivering' # <<>> => pc' \in {"steer", "steered", "undelivered"}
                    /\ sent' = Told(Lines') \o Handed' \o pendingSteers'
  BY <1>1 DEF Conserved
<1>2. may' = may /\ base' = base /\ "fail" \notin may
  BY ChainSteps DEF conversation, world
<1>3. /\ T \in Seq(X) /\ sent \in Seq(X) /\ delivering \in Seq(X) /\ pendingSteers \in Seq(X)
      /\ <<>> \in Seq(X) /\ \A t \in Steers : t \in X
  <2>1. T \in Seq(X)
    BY <1>2, ToldSteps
  <2>2. \A q \in Seq(Steers) : q \in Seq(X)
    OBVIOUS
  <2> QED
    BY <2>1, <2>2 DEF TypeOK
<1> HIDE DEF X
<1>4. CASE Turn \/ Ending
  <2>1. ~Awaiting /\ Moves
    BY <1>4, TurnMoves, EndingMoves
  <2>2. pc # "dead"
    BY <2>1 DEF Moves, Went, Emitted, Goes, Emits
  <2>3. /\ delivering # <<>> => pc \in {"steer", "steered", "undelivered"}
        /\ sent = T \o Handed \o pendingSteers
    BY <1>2, <2>2 DEF Conserved
  <2>4. CASE pc = "steered"
    <3>1. /\ delivering' = Tail(delivering) /\ sent' = sent /\ pendingSteers' = pendingSteers
          /\ pc' = "steer" /\ log' = log /\ queue' = queue
      BY <1>4, <2>4, SteerPlaces DEF Steered, Go
    <3>2. Lines' = Lines
      BY <1>2, <3>1, ToldSteps
    <3> QED
      BY <2>3, <2>4, <3>1, <3>2 DEF Handed
  <2>5. CASE pc = "steer" /\ DeliverSteer
    <3> DEFINE line == [OfSteer("steer", Head(delivering)) EXCEPT !.blocks = <<"user">>]
    <3>1. /\ delivering # <<>> /\ delivering' = delivering /\ sent' = sent
          /\ pendingSteers' = pendingSteers /\ pc' = "steered" /\ log' = log
          /\ queue' = Append(queue, [line |-> line, by |-> "loop"])
      BY <2>5 DEF DeliverSteer, Emit, steers
    <3>2. line \in Line /\ line.kind = "steer" /\ line.steer = Head(delivering)
      BY <3>1, Typed, LineTyped
    <3> HIDE DEF line
    <3>3. Lines' = Append(Lines, line) /\ Lines \in Seq(Line)
      <4> DEFINE e == [line |-> line, by |-> "loop"]
      <4>1. e \in Entry /\ e.line = line /\ queue' = Append(queue, e)
        BY <3>1, <3>2 DEF Entry
      <4> HIDE DEF e
      <4> QED
        BY <1>2, <3>1, <4>1, LinesAppend DEF Chained
    <3>4. Told(Lines') = Append(T, Head(delivering))
      BY <3>2, <3>3, ToldAppend DEF Tells
    <3>5. Append(T, Head(delivering)) \o Tail(delivering) \o pendingSteers
            = T \o delivering \o pendingSteers
      BY <1>3, <3>1, Splices
    <3> QED
      BY <2>3, <2>5, <3>1, <3>4, <3>5 DEF Handed
  <2>6. CASE pc = "undelivered" /\ ReportSteer
    <3> DEFINE line == OfSteer("undelivered", Head(delivering))
    <3>1. /\ delivering # <<>> /\ delivering' = Tail(delivering) /\ sent' = sent
          /\ pendingSteers' = pendingSteers /\ pc' = "undelivered" /\ log' = log
          /\ queue' = Append(queue, [line |-> line, by |-> "loop"])
      BY <2>6 DEF ReportSteer, Emit
    <3>2. line \in Line /\ line.kind = "undelivered" /\ line.steer = Head(delivering)
      BY <3>1, Typed, LineTyped
    <3> HIDE DEF line
    <3>3. Lines' = Append(Lines, line) /\ Lines \in Seq(Line)
      <4> DEFINE e == [line |-> line, by |-> "loop"]
      <4>1. e \in Entry /\ e.line = line /\ queue' = Append(queue, e)
        BY <3>1, <3>2 DEF Entry
      <4> HIDE DEF e
      <4> QED
        BY <1>2, <3>1, <4>1, LinesAppend DEF Chained
    <3>4. Told(Lines') = Append(T, Head(delivering))
      BY <3>2, <3>3, ToldAppend DEF Tells
    <3>5. Append(T, Head(delivering)) \o Tail(delivering) \o pendingSteers
            = T \o delivering \o pendingSteers
      BY <1>3, <3>1, Splices
    <3> QED
      BY <2>3, <2>6, <3>1, <3>4, <3>5 DEF Handed
  <2>7. CASE delivering = <<>> /\ pc # "steered"
    <3>1. \A line : Emitted(line) => line.kind \notin {"steer", "undelivered"} /\ pc' # "steered"
      <4>1. \A line : Emitted(line) => line.kind \notin {"steer", "undelivered"}
        BY <2>7 DEF Emitted, Says, SaysSteer
      <4>2. \A line : Emitted(line) => (pc' = "steered" => line.kind = "steer")
        BY DEF Emitted, Emits
      <4> QED
        BY <4>1, <4>2
    <3>2. Told(Lines') = T
      <4>1. CASE Went
        <5>1. log' = log /\ queue' = queue
          BY <4>1 DEF Went
        <5> QED
          BY <1>2, <5>1, ToldSteps
      <4>2. ASSUME NEW line, Emitted(line) PROVE Told(Lines') = T
        <5>1. Lines' = Append(Lines, line) /\ line \in Line /\ Lines \in Seq(Line)
          BY <1>2, <4>2, ToldSteps
        <5>2. Told(Append(Lines, line)) = Tells(T, line)
          BY <5>1, ToldAppend
        <5> QED
          BY <3>1, <4>2, <5>1, <5>2 DEF Tells
      <4> QED
        BY <2>1, <4>1, <4>2 DEF Moves
    <3>3. pc' # "steered"
      <4>1. Went => pc' # "steered"
        BY DEF Went, Goes
      <4> QED
        BY <2>1, <3>1, <4>1 DEF Moves
    <3>4. Handed = <<>> /\ Handed' = delivering'
      BY <2>7, <3>3 DEF Handed
    <3>5. CASE UNCHANGED steers
      <4>1. sent' = sent /\ delivering' = <<>> /\ pendingSteers' = pendingSteers
        BY <2>7, <3>5 DEF steers
      <4> QED
        BY <2>3, <3>2, <3>4, <4>1
    <3>6. CASE PassGate \/ EndHooks
      <4>1. \/ UNCHANGED steers
            \/ /\ sent' = sent /\ delivering' = pendingSteers /\ pendingSteers' = <<>>
               /\ pc' \in {"steer", "undelivered"}
        BY <3>6 DEF PassGate, EndHooks, Go
      <4>2. T \o <<>> \o pendingSteers = T \o pendingSteers \o <<>>
        BY <1>3, Splices
      <4> QED
        BY <2>3, <3>2, <3>4, <3>5, <4>1, <4>2
    <3>7. ASSUME NEW i \in Seq(X), AppendAnswer(i)
          PROVE  /\ delivering' # <<>> => pc' \in {"steer", "steered", "undelivered"}
                 /\ sent' = Told(Lines') \o Handed' \o pendingSteers'
      <4>1. /\ sent' = sent \o i /\ pendingSteers' = pendingSteers \o i /\ delivering' = <<>>
        BY <2>7, <3>7 DEF AppendAnswer
      <4>2. (T \o <<>> \o pendingSteers) \o i = T \o <<>> \o (pendingSteers \o i)
        BY <1>3, Splices
      <4> QED
        BY <2>3, <3>2, <3>4, <4>1, <4>2
    <3>8. ~Steered /\ ~ReportSteer
      BY <2>7 DEF Steered, ReportSteer, At
    <3>9. \A t \in Steers : <<t>> \in Seq(X)
      BY <1>3
    <3> QED
      BY <1>3, <1>4, <3>5, <3>6, <3>7, <3>8, <3>9, SteerPlaces
  <2> QED
    BY <1>4, <2>3, <2>4, <2>5, <2>6, <2>7, SteerPlaces DEF StartTurn, Finish
<1>5. CASE ~(Turn \/ Ending)
  <2>1. pc' = pc
    BY <1>2, <1>5 DEF Next, Host, Write, WriteFails, Steer, Pause, Resume, Abort, Delegate, Note,
       OrphanSettles, Crash, Settled, vars
  <2>2. /\ delivering # <<>> => pc \in {"steer", "steered", "undelivered"}
        /\ sent = T \o Handed \o pendingSteers
    BY <1>2, <2>1 DEF Conserved
  <2>3. delivering' = delivering /\ Handed' = Handed
    <3>1. delivering' = delivering
      BY <1>5 DEF Next, Host, Write, WriteFails, Steer, Pause, Resume, Abort, Delegate, Note,
         OrphanSettles, Crash, Settled, vars, steers
    <3> QED
      BY <2>1, <3>1 DEF Handed
  <2>4. CASE Write
    <3>1. sent' = sent /\ pendingSteers' = pendingSteers
      BY <2>4 DEF Write, steers
    <3> QED
      BY <1>2, <2>1, <2>2, <2>3, <2>4, <3>1, ToldSteps
  <2>5. CASE Note
    <3>1. sent' = sent /\ pendingSteers' = pendingSteers
      BY <2>5 DEF Note, steers
    <3>2. Lines' = Append(Lines, Plain("note")) /\ Plain("note") \in Line /\ Lines \in Seq(Line)
      BY <1>2, <2>5, ToldSteps
    <3>3. Told(Lines') = Tells(T, Plain("note"))
      BY <3>2, ToldAppend
    <3>4. Told(Lines') = T
      BY <3>3 DEF Tells, Plain
    <3> QED
      BY <2>1, <2>2, <2>3, <3>1, <3>4
  <2>6. ASSUME NEW t \in Steers, Steer(t)
        PROVE  sent' = Told(Lines') \o Handed' \o pendingSteers'
    <3>1. /\ sent' = Append(sent, t) /\ pendingSteers' = Append(pendingSteers, t)
          /\ log' = log /\ queue' = queue
      BY <2>6 DEF Steer
    <3>2. Told(Lines') = T
      BY <1>2, <3>1, ToldSteps
    <3>3. Handed \in Seq(X) /\ <<t>> \in Seq(X)
      <4>1. pc = "steered" => delivering # <<>>
        BY DEF Chained, InHand
      <4> QED
        BY <1>3, <4>1 DEF Handed
    <3>4. sent' = sent \o <<t>> /\ pendingSteers' = pendingSteers \o <<t>>
      BY <1>3, <3>1
    <3>5. (T \o Handed \o pendingSteers) \o <<t>> = T \o Handed \o (pendingSteers \o <<t>>)
      BY <1>3, <3>3, Splices
    <3> QED
      BY <2>2, <2>3, <3>2, <3>4, <3>5
  <2>7. CASE Pause \/ Resume \/ Abort \/ Delegate \/ OrphanSettles \/ UNCHANGED vars
    <3>1. sent' = sent /\ pendingSteers' = pendingSteers /\ log' = log /\ queue' = queue
      BY <2>7 DEF Pause, Resume, Abort, Delegate, OrphanSettles, vars, steers
    <3>2. Told(Lines') = T
      BY <1>2, <3>1, ToldSteps
    <3> QED
      BY <2>1, <2>2, <2>3, <3>1, <3>2
  <2>8. ~WriteFails /\ ~Crash
    BY <1>2 DEF WriteFails, Crash
  <2> QED
    BY <1>5, <2>1, <2>2, <2>3, <2>4, <2>5, <2>6, <2>7, <2>8 DEF Next, Host, Settled
<1> QED
  BY <1>4, <1>5

SteerInv == ChainInv /\ Conserved

LEMMA SteerNext == SteerInv /\ [Next]_vars => SteerInv'
BY ChainNext, ConservedKeeps DEF SteerInv, ChainInv

(* No steer is lost, doubled or overtaken: those sent are those the run's      *)
(* lines speak of, then those the loop has in hand, then those still queued.   *)
THEOREM RunSteersConserved == Spec => []SteersConserved
<1>1. Init => SteerInv
  <2> SUFFICES ASSUME Init PROVE Conserved
    BY ChainInit DEF SteerInv
  <2>1. /\ log = <<>> /\ queue = <<>> /\ base = 0 /\ sent = <<>> /\ delivering = <<>>
        /\ pendingSteers = <<>> /\ pc = "begin"
    BY DEF Init
  <2>2. Lines = <<>>
    <3>1. TypeOK /\ base <= Len(log)
      BY ChainInit DEF ChainInv, Chained
    <3>2. Lines \in Seq(Line) /\ Len(Lines) = 0
      BY <2>1, <3>1, LinesNow
    <3> QED
      BY <3>2
  <2>3. Told(Lines) = <<>>
    BY <2>2, ToldNothing
  <2> QED
    BY <2>1, <2>3 DEF Conserved, Handed
<1>2. SteerInv => SteersConserved
  BY DEF SteerInv, Conserved, Handed, SteersConserved
<1> QED
  BY <1>1, <1>2, SteerNext, PTL DEF Spec
-----------------------------------------------------------------------------
(* ---- The log is the source of truth.                                        *)
(* The way out of the loop.                                                    *)
Exits == {"caught", "ending", "flushed", "orphans", "settled", "hooks", "undelivered", "release",
          "closed", "escaped", "dead"}

(* A task is in the log one step before it is in memory. The text of an answer *)
(* is there before its message as long as no line carries a message; then the  *)
(* last message in memory is not an assistant's, so that the answer's takes    *)
(* the place of its text and of nothing else.                                  *)
Early == answer.text /\ ~Rebuilt.authoritative /\ pc \in {"responded", "heard"}
Replayed ==
  "fail" \notin may /\ pc # "dead" /\ ~Before.streamed =>
    /\ pc = "begin" => /\ messages = <<>> /\ loaded = <<>>
                       /\ \A i \in 1..Len(Lines) : Lines[i] = Plain("note")
    /\ Rebuilt.messages = IF pc = "started" THEN Append(loaded, "user")
                          ELSE IF pc = "steered" THEN Append(messages, "user")
                          ELSE IF Early THEN Append(messages, "assistant") ELSE messages
    /\ Rebuilt.authoritative \/ ~OfAssistant(messages)
    /\ Rebuilt.streamed => ~Rebuilt.authoritative /\ pc \in {"streaming", "turnFailed"} \cup Exits
    /\ pc = "streaming" /\ ~Rebuilt.authoritative => (Rebuilt.streamed <=> answer.text)
    /\ pc \in {"responded", "heard"} /\ answer.text => answer.content # "none"

LEMMA LoadedSteps ==
  ASSUME [Next]_vars
  PROVE  loaded' = loaded \/ (pc = "begin" /\ pc' = "started") \/ RunAgain
BY ConversationSteps DEF conversation, Begin, Started, Steered, AppendAnswer, Truncated,
   StageContinuation, ToolsReturn, Compact, SaveSnapshot, Finishing, Push, Saves, At, Go, Emit

LEMMA AnswerPlaces ==
  ASSUME Turn \/ Ending
  PROVE  /\ pc = "requested" => Attempt
         /\ pc = "streaming" => StreamText \/ StreamThrows \/ Respond
         /\ pc = "heard" => \E i : AppendAnswer(i)
         /\ pc = "decide" => Decide
         /\ pc = "truncated" => Truncated
         /\ pc \notin {"requested", "streaming", "decide"} => answer' = answer
<1>1. pc = "requested" => Attempt
  BY DEF Turn, Ending, Begin, Started, PromptHook, PassGate, DeliverSteer, Steered, StartTurn,
       HooksRun, RequestRefused, BeforeRequest, Attempt, StreamText, StreamThrows, Respond,
       AppendAnswer, Decide, Truncated, StageContinuation, ToolsReturn,
       ToolsAnswered, ToolsInterrupted, ToolsReject, KeepConversation, Compact,
       CompactAborted, CompactFailed, CloseTurn, SaveSnapshot, Caught, TurnFailed,
       ClosePrincipals, BeginEnding, GraceExpires, OrphansSettled, Finishing,
       EndHooks, ReportSteer, Finish, Release, At
<1>2. pc = "streaming" => StreamText \/ StreamThrows \/ Respond
  BY DEF Turn, Ending, Begin, Started, PromptHook, PassGate, DeliverSteer, Steered, StartTurn,
       HooksRun, RequestRefused, BeforeRequest, Attempt, StreamText, StreamThrows, Respond,
       AppendAnswer, Decide, Truncated, StageContinuation, ToolsReturn,
       ToolsAnswered, ToolsInterrupted, ToolsReject, KeepConversation, Compact,
       CompactAborted, CompactFailed, CloseTurn, SaveSnapshot, Caught, TurnFailed,
       ClosePrincipals, BeginEnding, GraceExpires, OrphansSettled, Finishing,
       EndHooks, ReportSteer, Finish, Release, At
<1>3. pc = "heard" => \E i : AppendAnswer(i)
  BY DEF Turn, Ending, Begin, Started, PromptHook, PassGate, DeliverSteer, Steered, StartTurn,
       HooksRun, RequestRefused, BeforeRequest, Attempt, StreamText, StreamThrows, Respond,
       AppendAnswer, Decide, Truncated, StageContinuation, ToolsReturn,
       ToolsAnswered, ToolsInterrupted, ToolsReject, KeepConversation, Compact,
       CompactAborted, CompactFailed, CloseTurn, SaveSnapshot, Caught, TurnFailed,
       ClosePrincipals, BeginEnding, GraceExpires, OrphansSettled, Finishing,
       EndHooks, ReportSteer, Finish, Release, At
<1>4. pc = "decide" => Decide
  BY DEF Turn, Ending, Begin, Started, PromptHook, PassGate, DeliverSteer, Steered, StartTurn,
       HooksRun, RequestRefused, BeforeRequest, Attempt, StreamText, StreamThrows, Respond,
       AppendAnswer, Decide, Truncated, StageContinuation, ToolsReturn,
       ToolsAnswered, ToolsInterrupted, ToolsReject, KeepConversation, Compact,
       CompactAborted, CompactFailed, CloseTurn, SaveSnapshot, Caught, TurnFailed,
       ClosePrincipals, BeginEnding, GraceExpires, OrphansSettled, Finishing,
       EndHooks, ReportSteer, Finish, Release, At
<1>5. pc = "truncated" => Truncated
  BY DEF Turn, Ending, Begin, Started, PromptHook, PassGate, DeliverSteer, Steered, StartTurn,
       HooksRun, RequestRefused, BeforeRequest, Attempt, StreamText, StreamThrows, Respond,
       AppendAnswer, Decide, Truncated, StageContinuation, ToolsReturn,
       ToolsAnswered, ToolsInterrupted, ToolsReject, KeepConversation, Compact,
       CompactAborted, CompactFailed, CloseTurn, SaveSnapshot, Caught, TurnFailed,
       ClosePrincipals, BeginEnding, GraceExpires, OrphansSettled, Finishing,
       EndHooks, ReportSteer, Finish, Release, At
<1>6. pc \notin {"requested", "streaming", "decide"} => answer' = answer
  BY DEF Turn, Ending, Begin, Started, PromptHook, PassGate, DeliverSteer, Steered, StartTurn,
       HooksRun, RequestRefused, BeforeRequest, Attempt, StreamText, StreamThrows, Respond,
       AppendAnswer, Decide, Truncated, StageContinuation, ToolsReturn,
       ToolsAnswered, ToolsInterrupted, ToolsReject, KeepConversation, Compact,
       CompactAborted, CompactFailed, CloseTurn, SaveSnapshot, Caught, TurnFailed,
       ClosePrincipals, BeginEnding, GraceExpires, OrphansSettled, Finishing,
       EndHooks, ReportSteer, Finish, Release, At, turn
<1> QED
  BY <1>1, <1>2, <1>3, <1>4, <1>5, <1>6

(* How an answer comes about: an attempt has no text; the text is there, in    *)
(* the log and in hand, before the response; and it is part of its message.    *)
LEMMA AnswerComes ==
  ASSUME TypeOK, Turn \/ Ending
  PROVE  /\ pc = "requested" => ~answer'.text
         /\ pc = "streaming" /\ pc' = "streaming" => answer'.text
         /\ pc = "streaming" /\ pc' = "responded" =>
              answer'.text = answer.text /\ (answer.text => answer'.content # "none")
         /\ pc = "heard" /\ Went => answer.content = "none"
<1>0. answer \in [text : BOOLEAN, stop : Stops, content : {"none", "assistant", "calls"}]
  BY DEF TypeOK
<1>1. pc = "requested" => ~answer'.text
  <2>1. Attempt => answer' = NoAnswer
    BY DEF Attempt
  <2>2. pc = "requested" => answer' = NoAnswer
    BY <2>1, AnswerPlaces
  <2> QED
    BY <2>2 DEF NoAnswer
<1>2. ASSUME pc = "streaming", pc' = "streaming" PROVE answer'.text
  <2>1. ~StreamThrows /\ ~Respond
    BY <1>2 DEF StreamThrows, Respond, EndTurn, Emit, Go
  <2>2. StreamText
    BY <1>2, <2>1, AnswerPlaces
  <2> QED
    BY <1>0, <2>2 DEF StreamText
<1>3. ASSUME pc = "streaming", pc' = "responded"
      PROVE  answer'.text = answer.text /\ (answer.text => answer'.content # "none")
  <2>1. ~StreamThrows /\ ~StreamText
    BY <1>3 DEF StreamThrows, StreamText, EndTurn, Emit, Go
  <2>2. Respond
    BY <1>3, <2>1, AnswerPlaces
  <2>3. PICK stop \in Stops, content \in {"none", "assistant", "calls"} :
          /\ answer' = [answer EXCEPT !.stop = stop, !.content = content]
          /\ answer.text => content # "none"
    BY <2>2 DEF Respond
  <2>4. answer'.text = answer.text /\ answer'.content = content
    BY <1>0, <2>3
  <2> QED
    BY <2>3, <2>4
<1>4. ASSUME pc = "heard", Went PROVE answer.content = "none"
  <2>1. PICK i : AppendAnswer(i)
    BY <1>4, AnswerPlaces
  <2>2. answer.content # "none" => \E e : queue' = Append(queue, e)
    BY <2>1 DEF AppendAnswer, Emit
  <2>3. \A e : Append(queue, e) # queue
    <3>1. Len(queue) \in Nat /\ \A e : Len(Append(queue, e)) = Len(queue) + 1
      BY DEF TypeOK
    <3> QED
      BY <3>1
  <2> QED
    BY <1>4, <2>2, <2>3 DEF Went
<1> QED
  BY <1>1, <1>2, <1>3, <1>4

(* What was there before this run stays.                                       *)
LEMMA BeforeSteps ==
  ASSUME TypeOK, Chained
  PROVE  /\ Before \in State
         /\ \A m \in Seq(Blocks) : /\ [Before EXCEPT !.messages = m] \in State
                                   /\ [Before EXCEPT !.messages = m].messages = m
                                   /\ [Before EXCEPT !.messages = m].streamed = Before.streamed
                                   /\ [Before EXCEPT !.messages = m].authoritative = Before.authoritative
         /\ base' = base /\ (log' = log \/ Write) => Before' = Before
<1>1. log \in Seq(Line) /\ base \in Nat /\ base <= Len(log) /\ Len(log) \in Nat
  BY DEF TypeOK, Chained
<1>2. SubSeq(log, 1, base) \in Seq(Line)
  BY <1>1
<1>3. Before \in State
  BY <1>2, BlankTyped, ReplayTyped DEF Before
<1>4. ASSUME NEW m \in Seq(Blocks)
      PROVE  /\ [Before EXCEPT !.messages = m] \in State
             /\ [Before EXCEPT !.messages = m].messages = m
             /\ [Before EXCEPT !.messages = m].streamed = Before.streamed
             /\ [Before EXCEPT !.messages = m].authoritative = Before.authoritative
  BY <1>3 DEF State
<1>5. ASSUME base' = base, log' = log \/ Write PROVE Before' = Before
  <2>1. CASE log' = log
    BY <1>5, <2>1 DEF Before
  <2>2. CASE Write
    <3>1. \E l \in Line : log' = log \/ log' = Append(log, l)
      <4>1. queue \in Seq(Entry) /\ queue # <<>>
        BY <2>2 DEF Write, TypeOK, Entry
      <4>2. Head(queue) \in Entry
        BY <4>1
      <4>3. Head(queue).line \in Line
        BY <4>2 DEF Entry
      <4> QED
        BY <2>2, <4>3 DEF Write
    <3>2. SubSeq(log', 1, base) = SubSeq(log, 1, base)
      <4>1. PICK l \in Line : log' = log \/ log' = Append(log, l)
        BY <3>1
      <4>2. CASE log' = Append(log, l)
        <5>1. /\ SubSeq(log', 1, base) \in Seq(Line) /\ Len(SubSeq(log', 1, base)) = base
              /\ Len(SubSeq(log, 1, base)) = base
              /\ \A i \in 1..base : SubSeq(log', 1, base)[i] = SubSeq(log, 1, base)[i]
          BY <1>1, <4>2
        <5> QED
          BY <1>2, <5>1, SameSequence
      <4> QED
        BY <4>1, <4>2
    <3> QED
      BY <1>5, <3>2 DEF Before
  <2> QED
    BY <1>5, <2>1, <2>2
<1> QED
  BY <1>3, <1>4, <1>5

(* What the log is passed over by, so is what this run rebuilds.               *)
LEMMA PassedOverHere ==
  ASSUME TypeOK, Chained, NEW l \in Line, l.kind \in {"model.delta", "model.response"}, PassedOver(l)
  PROVE  LET so == Replay([Before EXCEPT !.messages = loaded], ThisRun) IN Folded(so, l) = so
<1> DEFINE a == Replay(Blank, log)
           b == Replay([Before EXCEPT !.messages = loaded], ThisRun)
           u == SubSeq(log, 1, base)
<1>1. log \in Seq(Line) /\ base \in Nat /\ base <= Len(log) /\ Len(log) \in Nat
      /\ loaded \in Seq(Blocks)
  BY DEF TypeOK, Chained
<1>2. u \in Seq(Line) /\ Len(u) = base /\ \A i \in 1..base : u[i] = log[i]
  BY <1>1
<1>3. /\ ThisRun \in Seq(Line) /\ Len(ThisRun) = Len(log) - base
      /\ \A i \in 1..(Len(log) - base) : ThisRun[i] = log[base + i]
  BY <1>1, Cutting DEF ThisRun
<1>4. a = Replay(Before, ThisRun)
  <2>1. /\ Len(log) = Len(u) + Len(ThisRun) /\ \A i \in 1..Len(u) : log[i] = u[i]
        /\ \A i \in 1..Len(ThisRun) : log[Len(u) + i] = ThisRun[i]
    <3> HIDE DEF u
    <3> QED
      BY <1>1, <1>2, <1>3
  <2>2. Replay(Blank, log) = Replay(Replay(Blank, u), ThisRun)
    BY <1>1, <1>2, <1>3, <2>1, ReplayConcat
  <2> QED
    BY <2>2 DEF Before
<1>5. /\ Before \in State /\ [Before EXCEPT !.messages = loaded] \in State
      /\ [Before EXCEPT !.messages = loaded].streamed = Before.streamed
      /\ [Before EXCEPT !.messages = loaded].authoritative = Before.authoritative
  BY <1>1, BeforeSteps
<1>6. /\ a \in State /\ b \in State /\ a.streamed = b.streamed
      /\ a.authoritative = b.authoritative
  <2>1. a \in State /\ b \in State
    BY <1>3, <1>4, <1>5, ReplayTyped
  <2>2. /\ Replay(Before, ThisRun).streamed = b.streamed
        /\ Replay(Before, ThisRun).authoritative = b.authoritative
    BY <1>3, <1>5, ReplayFlags
  <2> QED
    BY <1>4, <2>1, <2>2
<1>7. Folded(a, l) = a
  BY DEF PassedOver
<1> HIDE DEF a, b
<1>8. Folded(b, l) = b
  BY <1>6, <1>7, PassesAlike
<1> QED
  BY <1>8 DEF b

(* What a step makes of what a later run would rebuild.                        *)
LEMMA RebuiltSteps ==
  ASSUME TypeOK, Chained, base' = base, loaded' = loaded
  PROVE  /\ Rebuilt \in State
         /\ log' = log /\ queue' = queue => Rebuilt' = Rebuilt
         /\ \A line : Emitted(line) => Rebuilt' = Folded(Rebuilt, line)
         /\ Write \/ Note => Rebuilt' = Rebuilt
<1> DEFINE so == [Before EXCEPT !.messages = loaded]
<1>0. so \in State /\ loaded \in Seq(Blocks)
  BY BeforeSteps DEF TypeOK
<1>1. Lines \in Seq(Line) /\ base <= Len(log)
  BY ToldSteps DEF Chained
<1>2. Rebuilt = Replay(so, Lines)
  BY DEF Rebuilt
<1>3. log' = log \/ Write => Rebuilt' = Replay(so, Lines')
  BY BeforeSteps DEF Rebuilt
<1> HIDE DEF so
<1>4. Rebuilt \in State
  BY <1>0, <1>1, <1>2, ReplayTyped
<1>5. log' = log /\ queue' = queue => Rebuilt' = Rebuilt
  BY <1>2, <1>3, ToldSteps
<1>6. ASSUME NEW line, Emitted(line) PROVE Rebuilt' = Folded(Rebuilt, line)
  <2>1. Lines' = Append(Lines, line) /\ line \in Line /\ log' = log
    BY <1>6, ToldSteps DEF Emitted
  <2> QED
    BY <1>1, <1>2, <1>3, <2>1, ReplayAppend
<1>7. ASSUME Note PROVE Rebuilt' = Rebuilt
  <2>1. Lines' = Append(Lines, Plain("note")) /\ Plain("note") \in Line /\ log' = log
    BY <1>7, ToldSteps DEF Note
  <2>2. Rebuilt' = Folded(Rebuilt, Plain("note"))
    BY <1>1, <1>2, <1>3, <2>1, ReplayAppend
  <2> QED
    BY <1>4, <2>2, NoteFolded
<1>8. ASSUME Write PROVE Rebuilt' = Rebuilt
  <2>1. CASE Lines' = Lines
    BY <1>2, <1>3, <1>8, <2>1
  <2>2. ASSUME NEW k \in 1..Len(Lines), Without(Lines, k, Lines'), Unread(Lines[k]),
               NEW i \in DOMAIN queue, Lines[k] = queue[i].line, k = (Len(log) - base) + 1
        PROVE  Rebuilt' = Rebuilt
    <3>1. /\ ThisRun \in Seq(Line) /\ Len(ThisRun) = k - 1
          /\ \A n \in 1..Len(ThisRun) : ThisRun[n] = Lines[n]
      <4>1. log \in Seq(Line) /\ base \in Nat /\ base <= Len(log) /\ Len(log) \in Nat
        BY DEF TypeOK, Chained
      <4>2. /\ ThisRun \in Seq(Line) /\ Len(ThisRun) = Len(log) - base
            /\ \A n \in 1..(Len(log) - base) : ThisRun[n] = log[base + n]
        BY <4>1, Cutting DEF ThisRun
      <4>3. \A n \in 1..(Len(log) - base) : Lines[n] = log[base + n]
        BY <1>1, LinesNow
      <4> QED
        BY <2>2, <4>1, <4>2, <4>3
    <3>2. Lines[k] \in Line /\ Replay(so, ThisRun) \in State
      BY <1>0, <1>1, <3>1, ReplayTyped
    <3>3. Folded(Replay(so, ThisRun), Lines[k]) = Replay(so, ThisRun)
      <4>1. CASE Lines[k].kind \in {"model.delta", "model.response"}
        <5>1. PassedOver(Lines[k])
          BY <2>2, <4>1 DEF Unread
        <5> QED
          BY <3>2, <4>1, <5>1, PassedOverHere DEF so
      <4>2. CASE Lines[k].kind \notin {"model.delta", "model.response"}
        <5>1. Lines[k].kind \in {"context.delegation", "note"}
          BY <2>2, <4>2 DEF Unread
        <5>2. Lines[k].kind \notin Speaking
          BY <5>1 DEF Speaking, Tasks
        <5>3. Lines[k].blocks = <<>>
          BY <2>2, <5>2 DEF Chained, Silence
        <5> QED
          BY <3>2, <5>1, <5>3, QuietFolded
      <4> QED
        BY <4>1, <4>2
    <3>4. Replay(so, Lines') = Replay(so, Lines)
      BY <2>2, <3>1, <3>3, ReplayWithout
    <3> QED
      BY <1>2, <1>3, <1>8, <3>4
  <2> QED
    BY <1>1, <1>8, <2>1, <2>2, LinesWrite
<1> QED
  BY <1>4, <1>5, <1>6, <1>7, <1>8

(* As long as there are only lines of an observer, that stays so.              *)
LEMMA NotesStay ==
  ASSUME TypeOK, Chained, base' = base, Write \/ Note \/ UNCHANGED <<log, queue, pc>>,
         \A i \in 1..Len(Lines) : Lines[i] = Plain("note")
  PROVE  \A i \in 1..Len(Lines') : Lines'[i] = Plain("note")
<1>0. Lines \in Seq(Line) /\ base <= Len(log)
  BY ToldSteps DEF Chained
<1>1. CASE Lines' = Lines
  BY <1>1
<1>2. CASE Note
  <2>1. Lines' = Append(Lines, Plain("note"))
    BY <1>2, ToldSteps
  <2>2. /\ Len(Lines') = Len(Lines) + 1 /\ Lines'[Len(Lines) + 1] = Plain("note")
        /\ Len(Lines) \in Nat /\ \A i \in 1..Len(Lines) : Lines'[i] = Lines[i]
    BY <1>0, <2>1
  <2> QED
    BY <2>2
<1>3. ASSUME NEW k \in 1..Len(Lines), Without(Lines, k, Lines')
      PROVE  \A i \in 1..Len(Lines') : Lines'[i] = Plain("note")
  <2>1. ASSUME NEW i \in 1..Len(Lines') PROVE Lines'[i] = Plain("note")
    <3>1. Len(Lines) = Len(Lines') + 1 /\ Len(Lines) \in Nat /\ Len(Lines') \in Nat
      BY <1>3 DEF Without
    <3>2. i \in 1..Len(Lines) /\ i + 1 \in 1..Len(Lines)
      BY <3>1
    <3>3. Lines'[i] = Lines[i] \/ Lines'[i] = Lines[i + 1]
      BY <1>3 DEF Without
    <3> QED
      BY <3>2, <3>3
  <2> QED
    BY <2>1
<1> QED
  BY <1>0, <1>1, <1>2, <1>3, LinesWrite, ToldSteps


(* What a line does to a conversation that ends with what is in memory.        *)
LEMMA MessageFolded ==
  ASSUME TypeOK, Replayed, "fail" \notin may, pc # "dead", ~Before.streamed, Rebuilt \in State,
         pc \notin {"begin", "started", "steered"},
         NEW line \in Line, line.kind = "message.append", line.blocks = <<Said>>, Said \in Blocks,
         pc \in {"heard", "truncated", "continue", "tools"}
  PROVE  /\ Folded(Rebuilt, line).messages = Append(messages, Said)
         /\ Folded(Rebuilt, line).authoritative /\ ~Folded(Rebuilt, line).streamed
<1> DEFINE so == Rebuilt
           popped == IF ~so.authoritative /\ OfAssistant(so.messages) /\ OfAssistant(line.blocks)
                     THEN Front(so.messages) ELSE so.messages
<1>1. /\ so.messages = IF Early THEN Append(messages, "assistant") ELSE messages
      /\ so.authoritative \/ ~OfAssistant(messages)
  BY DEF Replayed
<1>2. messages \in Seq(Blocks) /\ Len(messages) \in Nat
  BY DEF TypeOK
<1>3. /\ Folded(so, line).messages = popped \o line.blocks
      /\ Folded(so, line).authoritative /\ ~Folded(so, line).streamed
  BY FoldedIs
<1>4. popped = messages
  <2>1. CASE Early
    <3>1. pc = "heard" /\ ~so.authoritative /\ so.messages = Append(messages, "assistant")
      BY <1>1, <2>1 DEF Early
    <3>2. Said \in {"assistant", "calls"}
      <4>1. Said = answer.content
        BY <3>1 DEF Said
      <4> QED
        BY <4>1 DEF TypeOK, Blocks
    <3>3. OfAssistant(line.blocks)
      BY <3>2 DEF OfAssistant, Last
    <3>4. OfAssistant(so.messages) /\ Front(so.messages) = messages
      <4> DEFINE n == Append(messages, "assistant")
      <4>1. "assistant" \in Blocks
        BY DEF Blocks
      <4>2. /\ n \in Seq(Blocks) /\ n # <<>> /\ Len(n) = Len(messages) + 1
            /\ n[Len(n)] = "assistant" /\ (Len(n) - 1) = Len(messages)
            /\ \A i \in 1..Len(messages) : n[i] = messages[i]
        BY <1>2, <4>1
      <4> HIDE DEF n
      <4>3. /\ SubSeq(n, 1, Len(messages)) \in Seq(Blocks)
            /\ Len(SubSeq(n, 1, Len(messages))) = Len(messages)
            /\ \A i \in 1..Len(messages) : SubSeq(n, 1, Len(messages))[i] = n[i]
        BY <1>2, <4>2
      <4>4. SubSeq(n, 1, Len(messages)) = messages
        BY <1>2, <4>2, <4>3, SameSequence
      <4>5. so.messages = n
        BY <3>1 DEF n
      <4> QED
        BY <4>2, <4>4, <4>5 DEF OfAssistant, Last, Front
    <3> QED
      BY <3>1, <3>3, <3>4
  <2>2. CASE ~Early
    BY <1>1, <2>2
  <2> QED
    BY <2>1, <2>2
<1> HIDE DEF popped
<1>5. messages \o <<Said>> = Append(messages, Said)
  BY <1>2
<1> QED
  BY <1>3, <1>4, <1>5

LEMMA EndsWithUser ==
  ASSUME NEW m \in Seq(Blocks)
  PROVE  /\ ~OfAssistant(Append(m, "user")) /\ ~OfAssistant(<<>>)
         /\ m \o <<"user">> = Append(m, "user")
<1>1. /\ Append(m, "user") # <<>> /\ Len(Append(m, "user")) = Len(m) + 1 /\ Len(m) \in Nat
      /\ Append(m, "user")[Len(m) + 1] = "user" /\ m \o <<"user">> = Append(m, "user")
  BY DEF Blocks
<1> QED
  BY <1>1 DEF OfAssistant, Last

(* The first line of a run.                                                    *)
LEMMA BeginKeeps ==
  ASSUME TypeOK, Chained, Replayed, [Next]_vars, base' = base, "fail" \notin may, ~Before.streamed,
         pc = "begin", NEW line, Emitted(line)
  PROVE  Replayed'
<1>1. /\ Lines' = Append(Lines, line) /\ line \in Line /\ Lines \in Seq(Line)
      /\ <<pc, line.kind, pc', onFail'>> \in Emits /\ SaysBlocks(line) /\ log' = log
  BY ToldSteps DEF Emitted, Says
<1>2. line.kind \in {"session.start", "session.resume"} /\ pc' = "started"
  BY <1>1 DEF Emits
<1>3. line.blocks = <<"user">> /\ messages' = messages /\ messages = <<>>
  BY <1>1, <1>2 DEF SaysBlocks, Tasks, Replayed
<1> DEFINE so == [Before EXCEPT !.messages = loaded']
<1>4. loaded' \in Seq(Blocks) /\ Before' = Before
  BY <1>1, ConversationTypes, BeforeSteps
<1>5. /\ so \in State /\ so.messages = loaded' /\ so.streamed = Before.streamed
      /\ so.authoritative = Before.authoritative
  BY <1>4, BeforeSteps
<1>6. Rebuilt' = Replay(so, Lines')
  BY <1>4 DEF Rebuilt
<1> HIDE DEF so
<1>7. Replay(so, Lines) = so
  BY <1>1, <1>5, ReplayQuiet DEF Replayed
<1>8. Rebuilt' = Folded(so, line)
  BY <1>1, <1>6, <1>7, ReplayAppend
<1>9. /\ Folded(so, line).messages = loaded' \o <<"user">>
      /\ Folded(so, line).authoritative = Before.authoritative
      /\ Folded(so, line).streamed = Before.streamed
  BY <1>1, <1>2, <1>3, <1>5, FoldedIs
<1>10. Rebuilt'.messages = Append(loaded', "user") /\ ~Rebuilt'.streamed
  BY <1>4, <1>8, <1>9, EndsWithUser
<1>11. ~OfAssistant(messages')
  BY <1>3 DEF OfAssistant
<1> QED
  BY <1>2, <1>10, <1>11 DEF Replayed

(* Every other line.                                                           *)
LEMMA LineKeeps ==
  ASSUME TypeOK, Chained, Replayed, [Next]_vars, Turn \/ Ending, base' = base, "fail" \notin may,
         ~Before.streamed, pc # "begin", NEW line, Emitted(line)
  PROVE  Replayed'
<1>1. /\ line \in Line /\ <<pc, line.kind, pc', onFail'>> \in Emits /\ SaysBlocks(line) /\ log' = log
  BY DEF Emitted, Says
<1>2. /\ pc' \notin {"begin", "dead", "started"} /\ pc \notin {"started", "steered", "dead"}
      /\ (pc' = "steered" <=> line.kind = "steer")
      /\ line.kind \notin {"session.start", "session.resume"}
  BY <1>1 DEF Emits
<1>3. ~RunAgain
  BY <1>2 DEF RunAgain
<1>4. loaded' = loaded /\ Before' = Before
  BY <1>1, <1>2, <1>3, LoadedSteps, BeforeSteps
<1>5. Rebuilt \in State /\ Rebuilt' = Folded(Rebuilt, line) /\ messages \in Seq(Blocks)
  BY <1>4, RebuiltSteps DEF TypeOK
<1>6. /\ Rebuilt.messages = IF Early THEN Append(messages, "assistant") ELSE messages
      /\ Rebuilt.authoritative \/ ~OfAssistant(messages)
      /\ Rebuilt.streamed => ~Rebuilt.authoritative /\ pc \in {"streaming", "turnFailed"} \cup Exits
      /\ pc = "streaming" /\ ~Rebuilt.authoritative => (Rebuilt.streamed <=> answer.text)
      /\ pc \in {"responded", "heard"} /\ answer.text => answer.content # "none"
  BY <1>2 DEF Replayed
<1>7. \A z \in State : z.streamed \in BOOLEAN /\ z.authoritative \in BOOLEAN
  BY DEF State
<1>8. CASE line.kind = "steer"
  <2>1. pc = "steer" /\ pc' = "steered" /\ line.blocks = <<"user">> /\ messages' = messages
    BY <1>1, <1>8 DEF Emits, SaysBlocks, Tasks
  <2>2. /\ Rebuilt'.messages = messages \o <<"user">>
        /\ Rebuilt'.authoritative = Rebuilt.authoritative /\ Rebuilt'.streamed = Rebuilt.streamed
    <3>1. Rebuilt.messages = messages
      BY <1>6, <2>1 DEF Early
    <3> QED
      BY <1>1, <1>5, <1>8, <2>1, <3>1, FoldedIs
  <2>3. ~Rebuilt.streamed
    BY <1>6, <2>1 DEF Exits
  <2>4. messages \o <<"user">> = Append(messages, "user")
    BY <1>5, EndsWithUser
  <2> QED
    BY <1>6, <2>1, <2>2, <2>3, <2>4 DEF Replayed
<1>9. CASE line.kind = "message.append"
  <2>1. /\ pc \in {"heard", "truncated", "continue", "tools"}
        /\ pc' \in {"decide", "continue", "compacting", "answered"}
    BY <1>1, <1>9 DEF Emits
  <2>2. Said \in Blocks /\ line.blocks = <<Said>> /\ messages' = Append(messages, Said)
    BY <1>1, <1>9 DEF SaysBlocks
  <2>3. /\ Rebuilt'.messages = messages' /\ Rebuilt'.authoritative /\ ~Rebuilt'.streamed
    BY <1>1, <1>2, <1>5, <1>9, <2>1, <2>2, MessageFolded
  <2> QED
    BY <2>1, <2>3 DEF Replayed, Early
<1>10. CASE line.kind = "context.compact"
  <2>1. pc' = "closing" /\ messages' = line.blocks
    BY <1>1, <1>10 DEF Emits, SaysBlocks
  <2>2. /\ Rebuilt'.messages = messages' /\ Rebuilt'.authoritative /\ ~Rebuilt'.streamed
    BY <1>1, <1>5, <1>10, <2>1, FoldedIs
  <2> QED
    BY <2>1, <2>2 DEF Replayed, Early
<1>11. CASE line.kind = "model.delta"
  <2>1. pc = "streaming" /\ pc' = "streaming" /\ messages' = messages /\ answer'.text
    BY <1>1, <1>11, AnswerComes DEF Emits, SaysBlocks, Speaking, Tasks
  <2>2. /\ Rebuilt'.messages = Rebuilt.messages /\ Rebuilt'.authoritative = Rebuilt.authoritative
        /\ Rebuilt'.streamed = ~Rebuilt.authoritative
    BY <1>1, <1>5, <1>11, FoldedIs
  <2>3. Rebuilt.messages = messages
    BY <1>6, <2>1 DEF Early
  <2>4. Rebuilt'.streamed <=> ~Rebuilt'.authoritative
    BY <2>2, Zenon
  <2> QED
    BY <1>6, <2>1, <2>2, <2>3, <2>4 DEF Replayed, Early
<1>12. CASE line.kind = "model.response"
  <2>1. pc = "streaming" /\ pc' = "responded" /\ messages' = messages
    BY <1>1, <1>12 DEF Emits, SaysBlocks, Speaking, Tasks
  <2>2. answer'.text = answer.text /\ (answer.text => answer'.content # "none")
    BY <2>1, AnswerComes
  <2>3. /\ Rebuilt'.messages = IF Rebuilt.streamed THEN Append(Rebuilt.messages, "assistant") ELSE Rebuilt.messages
        /\ Rebuilt'.authoritative = Rebuilt.authoritative /\ ~Rebuilt'.streamed
    BY <1>1, <1>5, <1>12, FoldedIs
  <2>4. Rebuilt.messages = messages
    BY <1>6, <2>1 DEF Early
  <2>5. Early' <=> Rebuilt.streamed
    <3>1. Early' <=> answer.text /\ ~Rebuilt.authoritative
      BY <2>1, <2>2, <2>3, Zenon DEF Early
    <3> QED
      BY <1>6, <2>1, <3>1, Zenon
  <2>6. Rebuilt'.messages = IF Early' THEN Append(messages', "assistant") ELSE messages'
    BY <2>1, <2>3, <2>4, <2>5
  <2>7. Rebuilt'.authoritative \/ ~OfAssistant(messages')
    BY <1>6, <2>1, <2>3
  <2>8. answer'.text => answer'.content # "none"
    BY <2>2
  <2> QED
    BY <2>1, <2>3, <2>6, <2>7, <2>8 DEF Replayed
<1>13. CASE line.kind = "turn.aborted"
  <2>1. pc = "streaming" /\ pc' = "requested" /\ messages' = messages
    BY <1>1, <1>13 DEF Emits, SaysBlocks, Speaking, Tasks
  <2>2. /\ Rebuilt'.messages = Rebuilt.messages /\ Rebuilt'.authoritative = Rebuilt.authoritative
        /\ ~Rebuilt'.streamed
    BY <1>1, <1>5, <1>13, FoldedIs
  <2>3. Rebuilt.messages = messages
    BY <1>6, <2>1 DEF Early
  <2> QED
    BY <1>6, <2>1, <2>2, <2>3 DEF Replayed, Early
<1>14. CASE line.kind \notin {"steer", "message.append", "context.compact", "model.delta",
                            "model.response", "turn.aborted"}
  <2>1. line.blocks = <<>> /\ messages' = messages
    BY <1>1, <1>2, <1>14 DEF SaysBlocks, Speaking, Tasks
  <2>2. Rebuilt' = Rebuilt
    BY <1>1, <1>5, <1>14, <2>1, QuietFolded
  <2>3. /\ pc \in {"streaming", "turnFailed"} \cup Exits => pc' \in Exits
        /\ pc' \in {"responded", "heard"} <=> pc \in {"responded", "heard"}
        /\ pc' \in {"responded", "heard"} => pc = "responded"
        /\ pc' = "streaming" => pc = "requested"
    BY <1>1, <1>14 DEF Emits, Exits
  <2>4. pc \in {"responded", "heard"} => answer' = answer
    BY AnswerPlaces
  <2>5. Early' <=> Early
    BY <2>2, <2>3, <2>4 DEF Early
  <2>6. pc' = "streaming" => ~Rebuilt.streamed /\ ~answer'.text
    BY <1>6, <2>3, AnswerComes DEF Exits
  <2>7. pc' \in {"responded", "heard"} /\ answer'.text => answer'.content # "none"
    BY <1>6, <2>3, <2>4
  <2> QED
    BY <1>2, <1>6, <1>14, <2>1, <2>2, <2>3, <2>5, <2>6, <2>7 DEF Replayed
<1> QED
  BY <1>8, <1>9, <1>10, <1>11, <1>12, <1>13, <1>14

LEMMA WentKeeps ==
  ASSUME TypeOK, Chained, Replayed, [Next]_vars, Turn \/ Ending, base' = base, "fail" \notin may,
         ~Before.streamed, Went
  PROVE  Replayed'
<1>1. /\ log' = log /\ queue' = queue /\ <<pc, pc'>> \in Goes
      /\ messages' = IF pc = "started" THEN Append(loaded, "user")
                     ELSE IF pc = "steered" THEN Append(messages, "user") ELSE messages
  BY DEF Went
<1>2. pc' \notin {"begin", "started", "steered"} /\ pc # "dead"
  BY <1>1 DEF Goes
<1>3. ~RunAgain
  BY <1>2 DEF RunAgain
<1>4. loaded' = loaded /\ Before' = Before
  BY <1>1, <1>2, <1>3, LoadedSteps, BeforeSteps
<1>5. Rebuilt' = Rebuilt /\ messages \in Seq(Blocks) /\ loaded \in Seq(Blocks)
  BY <1>1, <1>4, RebuiltSteps DEF TypeOK
<1>6. /\ Rebuilt.messages = IF pc = "started" THEN Append(loaded, "user")
                            ELSE IF pc = "steered" THEN Append(messages, "user")
                            ELSE IF Early THEN Append(messages, "assistant") ELSE messages
      /\ Rebuilt.authoritative \/ ~OfAssistant(messages)
      /\ Rebuilt.streamed => ~Rebuilt.authoritative /\ pc \in {"streaming", "turnFailed"} \cup Exits
      /\ pc \in {"responded", "heard"} /\ answer.text => answer.content # "none"
  BY <1>2 DEF Replayed
<1>7. /\ pc \in {"streaming", "turnFailed"} \cup Exits => pc' \in {"turnFailed"} \cup Exits
      /\ pc' \in {"responded", "heard"} => pc' = "heard" /\ pc = "responded"
      /\ pc \in {"responded", "heard"} => pc' \in {"heard", "decide"}
      /\ pc' = "streaming" => pc = "requested"
      /\ pc = "responded" => pc' = "heard"
  BY <1>1 DEF Goes, Exits
<1>8. pc \in {"responded", "heard"} => answer' = answer
  BY AnswerPlaces
<1>9. Early' <=> Early
  <2>1. CASE pc = "responded"
    BY <1>5, <1>7, <1>8, <2>1 DEF Early
  <2>2. CASE pc = "heard"
    <3>1. answer.content = "none"
      BY <2>2, AnswerComes
    <3>2. ~Early /\ pc' \notin {"responded", "heard"}
      BY <1>6, <1>7, <2>2, <3>1 DEF Early
    <3> QED
      BY <3>2 DEF Early
  <2>3. CASE pc \notin {"responded", "heard"}
    BY <1>7, <2>3 DEF Early
  <2> QED
    BY <2>1, <2>2, <2>3
<1>10. Rebuilt'.messages = IF Early' THEN Append(messages', "assistant") ELSE messages'
  <2>1. pc \in {"started", "steered"} => ~Early
    BY DEF Early
  <2> QED
    BY <1>1, <1>5, <1>6, <1>9, <2>1
<1>11. Rebuilt'.authoritative \/ ~OfAssistant(messages')
  BY <1>1, <1>5, <1>6, EndsWithUser
<1>12. Rebuilt'.streamed => ~Rebuilt'.authoritative /\ pc' \in {"streaming", "turnFailed"} \cup Exits
  BY <1>5, <1>6, <1>7
<1>13. pc' = "streaming" => ~Rebuilt'.streamed /\ ~answer'.text
  BY <1>5, <1>6, <1>7, AnswerComes DEF Exits
<1>14. pc' \in {"responded", "heard"} /\ answer'.text => answer'.content # "none"
  BY <1>6, <1>7, <1>8
<1> QED
  BY <1>2, <1>10, <1>11, <1>12, <1>13, <1>14 DEF Replayed

LEMMA ReplayedKeeps ==
  ASSUME TypeOK, Chained, Replayed, [Next]_vars
  PROVE  Replayed'
<1>1. CASE RunAgain
  <2>1. /\ messages' = <<>> /\ loaded' = <<>> /\ pc' = "begin"
        /\ log' = log /\ base' = Len(log) /\ queue' = <<>>
    BY <1>1 DEF RunAgain
  <2>2. Lines' = <<>> /\ Len(Lines') = 0
    BY <2>1, LinesNone DEF TypeOK
  <2>3. Before' \in State
    <3>1. log' \in Seq(Line) /\ base' \in Nat
      BY <2>1 DEF TypeOK
    <3>2. SubSeq(log', 1, base') \in Seq(Line)
      BY <2>1, <3>1
    <3> QED
      BY <3>2, BlankTyped, ReplayTyped DEF Before
  <2>4. Rebuilt' = [Before' EXCEPT !.messages = <<>>]
    BY <2>1, <2>2, ReplayNothing DEF Rebuilt
  <2>5. Rebuilt'.messages = <<>> /\ Rebuilt'.streamed = Before'.streamed
    BY <2>3, <2>4 DEF State
  <2>6. ~OfAssistant(<<>>)
    BY DEF OfAssistant
  <2> QED
    BY <2>1, <2>2, <2>5, <2>6 DEF Replayed, Early
<1>2. CASE ~RunAgain /\ ("fail" \in may' \/ pc' = "dead" \/ Before'.streamed)
  BY <1>2 DEF Replayed
<1>3. CASE ~RunAgain /\ "fail" \notin may' /\ pc' # "dead" /\ ~Before'.streamed
  <2>1. may' = may /\ base' = base /\ "fail" \notin may
    BY <1>3, ChainSteps DEF conversation, world
  <2>2. ~WriteFails /\ ~Crash
    BY <1>3, <2>1 DEF WriteFails, Crash
  <2>3. log' = log \/ Write
    BY <1>3, <2>2, ChainSteps DEF Moves, Went, Emitted, Note
  <2>4. Before' = Before /\ ~Before.streamed
    BY <1>3, <2>1, <2>3, BeforeSteps
  <2>5. CASE Turn \/ Ending
    <3>1. Moves
      BY <2>5, TurnMoves, EndingMoves
    <3> QED
      BY <2>1, <2>4, <2>5, <3>1, BeginKeeps, LineKeeps, WentKeeps DEF Moves
  <2>6. CASE ~(Turn \/ Ending)
    <3>1. /\ Write \/ Note \/ UNCHANGED <<log, queue, pc>>
          /\ UNCHANGED conversation /\ answer' = answer
      <4>1. CASE Write \/ Note
        BY <4>1 DEF Write, Note, turn
      <4>2. CASE ~(Write \/ Note)
        <5>1. \/ (\E s \in Steers : Steer(s)) \/ Pause \/ Resume \/ Abort \/ Delegate \/ OrphanSettles
              \/ UNCHANGED vars
          BY <1>3, <2>2, <2>6, <4>2 DEF Next, Host, Settled
        <5> QED
          BY <5>1 DEF Steer, Pause, Resume, Abort, Delegate, OrphanSettles, vars, turn
      <4> QED
        BY <4>1, <4>2
    <3>2. /\ pc' = pc /\ messages' = messages /\ loaded' = loaded /\ answer' = answer
      BY <3>1 DEF Write, Note, conversation
    <3>3. Rebuilt' = Rebuilt
      BY <2>1, <3>1, <3>2, RebuiltSteps
    <3>4. (\A i \in 1..Len(Lines) : Lines[i] = Plain("note"))
            => \A i \in 1..Len(Lines') : Lines'[i] = Plain("note")
      BY <2>1, <3>1, NotesStay
    <3> QED
      BY <1>3, <2>1, <2>4, <3>2, <3>3, <3>4 DEF Replayed, Early
  <2> QED
    BY <2>5, <2>6
<1> QED
  BY <1>1, <1>2, <1>3

ReplayInv == ChainInv /\ Replayed

LEMMA ReplayNext == ReplayInv /\ [Next]_vars => ReplayInv'
BY ChainNext, ReplayedKeeps DEF ReplayInv, ChainInv

(* Event sourcing: whichever way the turns went, what a later run rebuilds     *)
(* from the lines this one wrote is the conversation it had in memory, and     *)
(* between the response and the message of an answer whose text was streamed   *)
(* before any line carried a message, that conversation and the text. Of a run *)
(* that found the text of a cut-off answer in the log nothing is said.         *)
THEOREM RunReplayMatches == Spec => []ReplayMatches
<1>1. Init => ReplayInv
  <2> SUFFICES ASSUME Init PROVE Replayed
    BY ChainInit DEF ReplayInv
  <2>1. /\ log = <<>> /\ queue = <<>> /\ base = 0 /\ messages = <<>> /\ loaded = <<>>
        /\ pc = "begin"
    BY DEF Init
  <2>2. Lines = <<>>
    <3>1. TypeOK /\ base <= Len(log)
      BY ChainInit DEF ChainInv, Chained
    <3>2. Lines \in Seq(Line) /\ Len(Lines) = 0
      BY <2>1, <3>1, LinesNow
    <3> QED
      BY <3>2
  <2>3. Before \in State /\ Rebuilt = [Before EXCEPT !.messages = <<>>] /\ Len(Lines) = 0
    BY <2>1, <2>2, ChainInit, BeforeSteps, ReplayNothing DEF Rebuilt, ChainInv
  <2>4. Rebuilt.messages = <<>> /\ Rebuilt.streamed = Before.streamed /\ ~OfAssistant(<<>>)
    BY <2>3 DEF State, OfAssistant
  <2> QED
    BY <2>1, <2>3, <2>4 DEF Replayed, Early
<1>2. ReplayInv => ReplayMatches
  <2> SUFFICES ASSUME Replayed, "fail" \notin may, ~Before.streamed,
                      pc \notin {"started", "steered", "dead"}
               PROVE  Rebuilt.messages = IF Early THEN Append(messages, "assistant") ELSE messages
    BY DEF ReplayInv, ReplayMatches, Early
  <2> QED
    BY DEF Replayed
<1> QED
  BY <1>1, <1>2, ReplayNext, PTL DEF Spec
-----------------------------------------------------------------------------
(* ---- The conversation a request or a resumed run reads is paired.           *)
(* The places where the last answer's calls wait.                              *)
Unanswered == pc = "tools" \/ (pc \in {"decide", "truncated"} /\ answer.content = "calls")
Fits(m) == Answered(m) /\ Opens(m)
Disk == Replay(Blank, log)
Spoken == Disk.messages
Simple(m) == \A i \in 1..Len(m) : m[i] \in {"user", "assistant"}

(* In memory calls wait only where the loop is about to answer them; what was  *)
(* saved, or rebuilt for this run, has none waiting.                           *)
InMemory ==
  /\ Fits(messages)
  /\ pc \notin Exits => (Waits(messages) <=> Unanswered)
  /\ pc \notin Exits \cup {"begin", "started"} => messages # <<>>
  /\ Fits(loaded) /\ ~Waits(loaded)
  /\ snapshot # None => Fits(snapshot) /\ ~Waits(snapshot)

(* On disk they may also wait where a run was cut short, but results always    *)
(* follow their calls: a line with results is handed on only then. While an    *)
(* answer may still be there as its text, there are no calls to lose.          *)
Fitting(line, spoken, place, content) ==
  /\ line.kind \in Tasks => line.blocks = <<"user">>
  /\ line.kind = "message.append" =>
       \E b \in Blocks : /\ line.blocks = <<b>>
                         /\ b = "results" => Waits(spoken)
                         /\ place = "decide" => b = content
  /\ line.kind = "context.compact" =>
       Sound(line.blocks) /\ Opens(line.blocks) /\ line.blocks # <<>>
OnDisk ==
  /\ Sound(Spoken) /\ Opens(Spoken) /\ (Disk.authoritative \/ Simple(Spoken))
  /\ Unanswered /\ ~Awaiting => Waits(Spoken)
  /\ pc \in Exits \cup {"begin"} \/ (pc = "started" /\ Awaiting) \/ Spoken # <<>>
  /\ \A i \in DOMAIN queue : Fitting(queue[i].line, Spoken, pc, answer.content)

LEMMA AppendSound ==
  ASSUME NEW m, Sound(m), NEW b \in Blocks, b = "results" => Waits(m)
  PROVE  /\ Sound(Append(m, b)) /\ (Waits(Append(m, b)) <=> b = "calls")
         /\ Append(m, b) # <<>>
         /\ m # <<>> => Append(m, b)[1] = m[1]
         /\ m = <<>> => Append(m, b)[1] = b
<1> DEFINE n == Append(m, b)
           N == Len(m)
<1>1. /\ m \in Seq(Blocks) /\ N \in Nat /\ n \in Seq(Blocks) /\ Len(n) = N + 1 /\ n[N + 1] = b
      /\ \A i \in 1..N : n[i] = m[i]
      /\ n # <<>> /\ (m = <<>> <=> N = 0)
  BY DEF Sound
<1> HIDE DEF n
<1>2. ASSUME NEW i \in 1..Len(n), n[i] = "results" PROVE i > 1 /\ n[i - 1] = "calls"
  <2>1. CASE i = N + 1
    BY <1>1, <1>2, <2>1 DEF Waits
  <2>2. CASE i # N + 1
    <3>1. i \in 1..N /\ m[i] = "results"
      BY <1>1, <1>2, <2>2
    <3>2. i > 1 /\ m[i - 1] = "calls" /\ i - 1 \in 1..N
      BY <1>1, <3>1 DEF Sound
    <3> QED
      BY <1>1, <3>2
  <2> QED
    BY <2>1, <2>2
<1>3. (Waits(n) <=> b = "calls") /\ (m # <<>> => n[1] = m[1]) /\ (m = <<>> => n[1] = b)
  BY <1>1 DEF Waits
<1> QED
  BY <1>1, <1>2, <1>3 DEF n, Sound

(* A message added to a conversation that fits and calls for it.               *)
LEMMA AppendFits ==
  ASSUME NEW m, Fits(m), NEW b \in Blocks, b = "results" <=> Waits(m), m # <<>> \/ b = "user"
  PROVE  Fits(Append(m, b)) /\ (Waits(Append(m, b)) <=> b = "calls") /\ Append(m, b) # <<>>
<1>1. Sound(m) /\ Answered(m)
  BY DEF Fits, Answered
<1>2. Answered(Append(m, b)) /\ (Waits(Append(m, b)) <=> b = "calls")
  BY <1>1, AppendBlock
<1>3. /\ Append(m, b) # <<>>
      /\ m # <<>> => Append(m, b)[1] = m[1]
      /\ m = <<>> => Append(m, b)[1] = b
  BY <1>1, AppendSound
<1> QED
  BY <1>2, <1>3 DEF Fits, Opens

(* What the answer leads to: calls go to the tools, unless the answer was cut  *)
(* short, and a cut answer's calls are answered at once.                       *)
LEMMA AnswerLeads ==
  ASSUME TypeOK, Turn \/ Ending
  PROVE  /\ Went /\ pc' \notin Exits => (Unanswered' <=> Unanswered)
         /\ \A line : Emitted(line) /\ line.kind = "message.append" =>
              /\ Said \in Blocks /\ (Said = "results" <=> Unanswered)
              /\ (Unanswered' <=> Said = "calls")
              /\ pc' = "decide" => Said = answer'.content
<1>0. answer.content \in {"none", "assistant", "calls"} /\ answer.stop \in Stops
  BY DEF TypeOK
<1>1. ASSUME Went, pc' \notin Exits PROVE Unanswered' <=> Unanswered
  <2>0. <<pc, pc'>> \in Goes /\ queue' = queue
    BY <1>1 DEF Went
  <2>1. CASE pc = "heard"
    <3>1. PICK i : AppendAnswer(i)
      BY <2>1, AnswerPlaces
    <3>2. answer' = answer /\ pc' = "decide"
      BY <2>0, <2>1, AnswerPlaces DEF Goes
    <3>3. answer.content = "none"
      <4>1. answer.content # "none" => queue' # queue
        <5>1. queue \in Seq([line : Line, by : {"loop", "other"}])
          BY DEF TypeOK
        <5>2. \A e \in [line : Line, by : {"loop", "other"}] : Append(queue, e) # queue
          BY <5>1
        <5>3. answer.content # "none" => \E e : queue' = Append(queue, e)
          BY <3>1 DEF AppendAnswer, Emit
        <5>4. \A e : Append(queue, e) # queue
          <6>1. Len(queue) \in Nat
            BY <5>1
          <6>2. \A e : Len(Append(queue, e)) = Len(queue) + 1
            BY <5>1
          <6> QED
            BY <6>1, <6>2
        <5> QED
          BY <5>3, <5>4
      <4> QED
        BY <2>0, <4>1
    <3> QED
      BY <2>1, <3>2, <3>3 DEF Unanswered
  <2>2. CASE pc = "decide"
    <3>1. Decide
      BY <2>2, AnswerPlaces
    <3>2. pc' \in {"truncated", "tools"} /\ ~TurnOver
      BY <1>1, <3>1 DEF Decide, EndTurn, Emit, Go, Exits
    <3>3. pc' = "truncated" => answer'.content = answer.content
      <4>1. pc' = "truncated" => answer' = [answer EXCEPT !.text = FALSE]
        BY <3>1, <3>2 DEF Decide, Go
      <4> QED
        BY <4>1 DEF TypeOK
    <3>4. pc' = "tools" => answer.content = "calls"
      BY <1>0, <3>1, <3>2 DEF Decide, Go, TurnOver, Stops
    <3> QED
      BY <2>2, <3>2, <3>3, <3>4 DEF Unanswered
  <2>3. CASE pc = "truncated"
    <3>1. pc' = "continue" /\ Truncated
      BY <2>0, <2>3, AnswerPlaces DEF Goes
    <3>2. answer.content # "calls"
      <4>1. answer.content = "calls" => \E e : queue' = Append(queue, e)
        BY <3>1 DEF Truncated, Emit
      <4>2. \A e : Append(queue, e) # queue
        <5>1. queue \in Seq([line : Line, by : {"loop", "other"}])
          BY DEF TypeOK
        <5>2. Len(queue) \in Nat /\ \A e : Len(Append(queue, e)) = Len(queue) + 1
          BY <5>1
        <5> QED
          BY <5>2
      <4> QED
        BY <2>0, <4>1, <4>2
    <3> QED
      BY <2>3, <3>1, <3>2 DEF Unanswered
  <2>4. CASE pc \notin {"heard", "decide", "truncated"}
    <3>1. pc # "tools" /\ pc' \notin {"tools", "decide", "truncated"}
      BY <1>1, <2>0, <2>4 DEF Goes, Exits
    <3> QED
      BY <2>4, <3>1 DEF Unanswered
  <2> QED
    BY <2>1, <2>2, <2>3, <2>4
<1>2. ASSUME NEW line, Emitted(line), line.kind = "message.append"
      PROVE  /\ Said \in Blocks /\ (Said = "results" <=> Unanswered)
             /\ (Unanswered' <=> Said = "calls")
             /\ pc' = "decide" => Said = answer'.content
  <2>1. <<pc, "message.append", pc', onFail'>> \in Emits /\ Said \in Blocks
    BY <1>2 DEF Emitted, Says, SaysBlocks
  <2>2. /\ pc \in {"heard", "truncated", "continue", "tools"}
        /\ pc = "heard" => pc' = "decide"
        /\ pc # "heard" => pc' \in {"continue", "compacting", "answered"}
    BY <2>1 DEF Emits
  <2>3. CASE pc = "heard"
    <3>1. answer' = answer /\ pc' = "decide" /\ Said = answer.content
      BY <2>2, <2>3, AnswerPlaces DEF Said
    <3> QED
      BY <1>0, <2>1, <2>3, <3>1 DEF Unanswered
  <2>4. CASE pc = "truncated"
    <3>1. Truncated /\ pc' = "continue" /\ queue' # queue
      <4>1. queue' = Append(queue, [line |-> line, by |-> "loop"])
        BY <1>2 DEF Emitted
      <4>2. queue \in Seq([line : Line, by : {"loop", "other"}])
        BY DEF TypeOK
      <4>3. Len(queue) \in Nat /\ Len(queue') = Len(queue) + 1
        BY <4>1, <4>2
      <4>4. <<"truncated", "message.append", pc', onFail'>> \in Emits
        BY <2>1, <2>4
      <4>5. pc' = "continue"
        BY <4>4 DEF Emits
      <4> QED
        BY <2>4, <4>3, <4>5, AnswerPlaces
    <3>2. answer.content = "calls"
      BY <3>1 DEF Truncated, Go
    <3>3. Said = "results"
      BY <2>4 DEF Said
    <3> QED
      BY <2>1, <2>4, <3>1, <3>2, <3>3 DEF Unanswered
  <2>5. CASE pc = "continue"
    BY <2>1, <2>2, <2>5 DEF Said, Unanswered
  <2>6. CASE pc = "tools"
    BY <2>1, <2>2, <2>6 DEF Said, Unanswered
  <2> QED
    BY <2>2, <2>3, <2>4, <2>5, <2>6
<1> QED
  BY <1>1, <1>2

LEMMA CompactedFits ==
  ASSUME NEW m, Fits(m), ~Waits(m), Cut(m) > 2
  PROVE  /\ Fits(Compacted(m, Cut(m))) /\ ~Waits(Compacted(m, Cut(m)))
         /\ Compacted(m, Cut(m)) # <<>>
BY CompactedPaired DEF Fits

LEMMA ResumableFits ==
  ASSUME NEW m, Fits(m)
  PROVE  Fits(Resumable(m)) /\ ~Waits(Resumable(m))
BY ResumableWaitsNot DEF Fits, Opens

LEMMA Nothing == Fits(<<>>) /\ ~Waits(<<>>)
BY DEF Fits, Answered, Sound, Opens, Waits

LEMMA LoadedKeeps ==
  ASSUME TypeOK, InMemory, Sound(Spoken), Opens(Spoken), [Next]_vars
  PROVE  /\ Fits(loaded') /\ ~Waits(loaded')
         /\ snapshot' # None => Fits(snapshot') /\ ~Waits(snapshot')
<1>0. /\ Fits(loaded) /\ ~Waits(loaded) /\ Fits(messages)
      /\ snapshot # None => Fits(snapshot) /\ ~Waits(snapshot)
  BY DEF InMemory
<1>1. CASE UNCHANGED <<loaded, snapshot>>
  BY <1>0, <1>1
<1>2. CASE Begin /\ ~UNCHANGED <<loaded, snapshot>>
  <2>1. loaded' = ResumeSnapshot /\ snapshot' = snapshot
    BY <1>2 DEF Begin, conversation
  <2>2. /\ snapshot # None => Sound(snapshot) /\ Opens(snapshot)
    BY <1>0 DEF Fits, Answered
  <2>3. \A m : Sound(m) /\ Opens(m) => Fits(Balanced(m)) /\ ~Waits(Balanced(m))
    BY BalancedPaired DEF Fits
  <2>4. Fits(ResumeSnapshot) /\ ~Waits(ResumeSnapshot)
    BY <2>2, <2>3 DEF ResumeSnapshot, Spoken, Disk
  <2> QED
    BY <1>0, <2>1, <2>4
<1>3. CASE SaveSnapshot \/ Finishing
  <2>1. loaded' = loaded /\ snapshot' \in {snapshot, Resumable(messages)}
    BY <1>3 DEF SaveSnapshot, Finishing, Saves, conversation
  <2> QED
    BY <1>0, <2>1, ResumableFits
<1>4. CASE RunAgain
  <2>1. loaded' = <<>> /\ snapshot' = snapshot
    BY <1>4 DEF RunAgain
  <2> QED
    BY <1>0, <2>1, Nothing
<1>5. UNCHANGED <<loaded, snapshot>> \/ Begin \/ SaveSnapshot \/ Finishing \/ RunAgain
  BY ConversationSteps DEF conversation, Started, Steered, AppendAnswer, Truncated,
     StageContinuation, ToolsReturn, Compact, Push
<1> QED
  BY <1>1, <1>2, <1>3, <1>4, <1>5

(* What the host and the chain do leaves the conversation and the answer; a    *)
(* failed append takes the loop to its handler.                                *)
LEMMA AsideSteps ==
  ASSUME TypeOK, Chained, [Next]_vars, ~(Turn \/ Ending), ~RunAgain
  PROVE  /\ UNCHANGED conversation /\ answer' = answer
         /\ \/ Write \/ Note
            \/ UNCHANGED <<log, queue, pc>>
            \/ /\ Crash \/ WriteFails
               /\ pc' = "dead" \/ pc' = pc \/ (Head(queue).by = "loop" /\ pc' = onFail)
<1>1. CASE Write \/ WriteFails \/ Crash \/ Note
  BY <1>1 DEF Write, WriteFails, Crash, Note, turn
<1>2. CASE ~(Write \/ WriteFails \/ Crash \/ Note)
  <2>1. \/ (\E t \in Steers : Steer(t)) \/ Pause \/ Resume \/ Abort \/ Delegate \/ OrphanSettles
        \/ UNCHANGED vars
    BY <1>2 DEF Next, Host, Settled
  <2> QED
    BY <2>1 DEF Steer, Pause, Resume, Abort, Delegate, OrphanSettles, vars, turn
<1> QED
  BY <1>1, <1>2

(* Where a failed append leaves the loop in its turn.                          *)
LEMMA FailsTo ==
  ASSUME TypeOK, Chained, queue # <<>>, Head(queue).by = "loop", onFail \notin Exits
  PROVE  /\ pc \in {"streaming", "closing"}
         /\ onFail \in {"turnFailed", "compactFailed"}
<1>1. 1 \in DOMAIN queue /\ queue[1] = Head(queue)
  BY QueueTail
<1>2. Awaited(Head(queue).line.kind, pc, onFail)
  BY <1>1 DEF Chained, Expected
<1>3. PICK p : <<p, Head(queue).line.kind, pc, onFail>> \in Emits
  BY <1>2 DEF Awaited
<1> QED
  BY <1>3 DEF Emits, Exits

LEMMA InMemoryKeeps ==
  ASSUME TypeOK, Chained, InMemory, Sound(Spoken), Opens(Spoken), [Next]_vars
  PROVE  InMemory'
<1> DEFINE Good(m) ==
      /\ Fits(m)
      /\ pc' \notin Exits => (Waits(m) <=> Unanswered')
      /\ pc' \notin Exits \cup {"begin", "started"} => m # <<>>
<1> SUFFICES Good(messages')
  BY LoadedKeeps DEF InMemory
<1>0. /\ Fits(messages) /\ Fits(loaded) /\ ~Waits(loaded) /\ "user" \in Blocks /\ "user" # "results"
      /\ pc \notin Exits => (Waits(messages) <=> Unanswered)
      /\ pc \notin Exits \cup {"begin", "started"} => messages # <<>>
  BY DEF InMemory, Blocks
<1>1. CASE Turn \/ Ending
  <2>1. Moves
    BY <1>1, TurnMoves, EndingMoves
  <2>2. CASE Went
    <3>0. /\ <<pc, pc'>> \in Goes
          /\ messages' = IF pc = "started" THEN Append(loaded, "user")
                         ELSE IF pc = "steered" THEN Append(messages, "user") ELSE messages
      BY <2>2 DEF Went
    <3>1. CASE pc = "started"
      <4>1. pc' \in {"gate", "ending"} /\ ~Unanswered'
        BY <3>0, <3>1 DEF Goes, Unanswered
      <4>2. Fits(messages') /\ ~Waits(messages') /\ messages' # <<>>
        BY <1>0, <3>0, <3>1, AppendFits
      <4> QED
        BY <4>1, <4>2
    <3>2. CASE pc = "steered"
      <4>1. pc' = "steer" /\ ~Unanswered' /\ ~Unanswered
        BY <3>0, <3>2 DEF Goes, Unanswered
      <4>2. Fits(messages') /\ ~Waits(messages') /\ messages' # <<>>
        <5>1. ~Waits(messages) /\ messages' = Append(messages, "user")
          BY <1>0, <3>0, <3>2, <4>1 DEF Exits
        <5> QED
          BY <1>0, <5>1, AppendFits
      <4> QED
        BY <4>1, <4>2
    <3>3. CASE pc \notin {"started", "steered"}
      <4>1. messages' = messages
        BY <3>0, <3>3
      <4>2. pc' \notin Exits => pc \notin Exits \cup {"begin", "started"}
        BY <3>0, <3>3 DEF Goes, Exits
      <4>3. pc' \notin Exits => (Unanswered' <=> Unanswered)
        BY <1>1, <2>2, AnswerLeads
      <4> QED
        BY <1>0, <4>1, <4>2, <4>3
    <3> QED
      BY <3>1, <3>2, <3>3
  <2>3. ASSUME NEW line, Emitted(line) PROVE Good(messages')
    <3>0. /\ <<pc, line.kind, pc', onFail'>> \in Emits /\ SaysBlocks(line)
      BY <2>3 DEF Emitted, Says
    <3>1. CASE line.kind = "message.append"
      <4>1. /\ Said \in Blocks /\ (Said = "results" <=> Unanswered)
            /\ (Unanswered' <=> Said = "calls") /\ messages' = Append(messages, Said)
        BY <1>1, <2>3, <3>0, <3>1, AnswerLeads DEF SaysBlocks
      <4>2. pc \notin Exits \cup {"begin", "started"}
        BY <3>0, <3>1 DEF Emits, Exits
      <4>3. /\ Fits(Append(messages, Said)) /\ Append(messages, Said) # <<>>
            /\ (Waits(Append(messages, Said)) <=> Said = "calls")
        <5>1. Said = "results" <=> Waits(messages)
          BY <1>0, <4>1, <4>2
        <5>2. messages # <<>>
          BY <1>0, <4>2
        <5> QED
          BY <1>0, <4>1, <5>1, <5>2, AppendFits
      <4> QED
        BY <4>1, <4>3
    <3>2. CASE line.kind = "context.compact"
      <4>1. Cut(messages) > 2 /\ messages' = Compacted(messages, Cut(messages))
        BY <3>0, <3>2 DEF SaysBlocks
      <4>2. pc = "compacting" /\ pc' = "closing"
        BY <3>0, <3>2 DEF Emits
      <4>3. ~Waits(messages) /\ ~Unanswered'
        BY <1>0, <4>2 DEF Unanswered, Exits
      <4> QED
        BY <1>0, <4>1, <4>3, CompactedFits
    <3>3. CASE line.kind \notin {"message.append", "context.compact"}
      <4>1. messages' = messages
        BY <3>0, <3>3 DEF SaysBlocks, Speaking
      <4>2. pc' \notin Exits => /\ pc \notin Exits \cup {"started"}
                                /\ pc = "begin" => pc' = "started"
                                /\ ~Unanswered /\ ~Unanswered'
        BY <3>0, <3>3 DEF Emits, Exits, Unanswered
      <4> QED
        BY <1>0, <4>1, <4>2
    <3> QED
      BY <3>1, <3>2, <3>3
  <2> QED
    BY <2>1, <2>2, <2>3 DEF Moves
<1>2. CASE RunAgain
  <2>1. messages' = <<>> /\ pc' = "begin" /\ ~Unanswered'
    BY <1>2 DEF RunAgain, Unanswered
  <2> QED
    BY <2>1, Nothing
<1>3. CASE ~(Turn \/ Ending) /\ ~RunAgain
  <2>1. messages' = messages /\ answer' = answer
    BY <1>3, AsideSteps DEF conversation
  <2>2. pc' = pc => (Unanswered' <=> Unanswered)
    BY <2>1 DEF Unanswered
  <2>3. CASE pc' = pc
    BY <1>0, <2>1, <2>2, <2>3
  <2>4. CASE pc' # pc
    <3>1. CASE pc' \in Exits
      BY <1>0, <2>1, <3>1
    <3>2. CASE pc' \notin Exits
      <4>1. /\ queue # <<>> /\ Head(queue).by = "loop" /\ pc' = onFail
        BY <1>3, <2>4, <3>2, AsideSteps DEF Write, Note, Crash, WriteFails, Exits
      <4>2. pc \in {"streaming", "closing"} /\ pc' \in {"turnFailed", "compactFailed"}
        BY <3>2, <4>1, FailsTo
      <4> QED
        BY <1>0, <2>1, <4>2 DEF Unanswered, Exits
    <3> QED
      BY <3>1, <3>2
  <2> QED
    BY <2>3, <2>4
<1> QED
  BY <1>1, <1>2, <1>3

(* The loop's line at the head of the chain is its only one, and of the kind   *)
(* its place waits for; an observer's says nothing.                            *)
LEMMA HeadOfChain ==
  ASSUME TypeOK, Chained, queue # <<>>, queue' = Tail(queue)
  PROVE  /\ Head(queue).line \in Line
         /\ \A i \in DOMAIN queue' : \E j \in DOMAIN queue : queue'[i] = queue[j]
         /\ \E j \in DOMAIN queue : Head(queue) = queue[j]
         /\ Head(queue).by = "loop" =>
              /\ Awaiting /\ Awaited(Head(queue).line.kind, pc, onFail)
              /\ ~Awaiting' /\ \A i \in DOMAIN queue' : queue'[i].line = Plain("note")
         /\ Head(queue).by # "loop" => Head(queue).line = Plain("note") /\ (Awaiting' <=> Awaiting)
<1>1. /\ Len(queue) \in Nat /\ DOMAIN queue = 1..Len(queue) /\ 1 \in DOMAIN queue
      /\ Head(queue) = queue[1] /\ Head(queue).line \in Line
      /\ DOMAIN queue' = 1..(Len(queue) - 1)
      /\ \A i \in DOMAIN queue' : i + 1 \in DOMAIN queue /\ queue'[i] = queue[i + 1]
      /\ \A i \in DOMAIN queue : i # 1 => i - 1 \in DOMAIN queue'
  BY QueueTail
<1>2. \A i \in DOMAIN queue' : \E j \in DOMAIN queue : queue'[i] = queue[j]
  BY <1>1
<1>3. ASSUME Head(queue).by = "loop"
      PROVE  /\ Awaiting /\ Awaited(Head(queue).line.kind, pc, onFail)
             /\ ~Awaiting' /\ \A i \in DOMAIN queue' : queue'[i].line = Plain("note")
  <2>1. Awaiting /\ Awaited(Head(queue).line.kind, pc, onFail)
    BY <1>1, <1>3 DEF Awaiting, Chained, Expected
  <2>2. \A i \in DOMAIN queue' : i + 1 # 1
    BY <1>1
  <2>3. \A i \in DOMAIN queue' : queue'[i].by # "loop"
    BY <1>1, <1>3, <2>2 DEF Chained, OneEach
  <2>4. \A i \in DOMAIN queue' : queue'[i].line = Plain("note")
    BY <1>1, <2>3 DEF Chained, Expected
  <2> QED
    BY <2>1, <2>3, <2>4 DEF Awaiting
<1>4. ASSUME Head(queue).by # "loop"
      PROVE  Head(queue).line = Plain("note") /\ (Awaiting' <=> Awaiting)
  <2>1. Head(queue).line = Plain("note")
    BY <1>1, <1>4 DEF Chained, Expected
  <2>2. Awaiting' => Awaiting
    BY <1>1 DEF Awaiting
  <2>3. Awaiting => Awaiting'
    <3>1. \A i \in DOMAIN queue : i # 1 => queue'[i - 1] = queue[(i - 1) + 1] /\ (i - 1) + 1 = i
      BY <1>1
    <3> QED
      BY <1>1, <1>4, <3>1 DEF Awaiting
  <2> QED
    BY <2>1, <2>2, <2>3
<1> QED
  BY <1>1, <1>2, <1>3, <1>4

LEMMA NoteFits ==
  ASSUME NEW line, line = Plain("note"), NEW spoken, NEW place, NEW content
  PROVE  Fitting(line, spoken, place, content)
BY DEF Fitting, Plain, Tasks

(* A conversation of the user's messages and answers, without its last answer. *)
LEMMA PoppedSound ==
  ASSUME NEW m \in Seq(Blocks), Opens(m), Simple(m), OfAssistant(m)
  PROVE  /\ Sound(Front(m)) /\ Opens(Front(m)) /\ Front(m) # <<>>
<1> DEFINE N == Len(m)
           f == Front(m)
<1>1. N \in Nat /\ m # <<>> /\ m[N] \in {"assistant", "calls"} /\ m[1] = "user"
  BY DEF OfAssistant, Last, Opens
<1>2. N > 1
  BY <1>1
<1>3. /\ f \in Seq(Blocks) /\ Len(f) = N - 1 /\ \A i \in 1..(N - 1) : f[i] = m[i]
  BY <1>1, <1>2 DEF Front
<1> HIDE DEF f
<1>4. \A i \in 1..Len(f) : f[i] # "results"
  BY <1>1, <1>3 DEF Simple
<1>5. f # <<>> /\ f[1] = "user"
  BY <1>1, <1>2, <1>3
<1> QED
  BY <1>3, <1>4, <1>5 DEF Sound, Opens, f

LEMMA AppendSimple ==
  ASSUME NEW m \in Seq(Blocks), Simple(m), NEW b \in {"user", "assistant"}
  PROVE  Simple(Append(m, b))
<1>1. Len(m) \in Nat /\ Len(Append(m, b)) = Len(m) + 1 /\ Append(m, b)[Len(m) + 1] = b
      /\ \A i \in 1..Len(m) : Append(m, b)[i] = m[i]
  BY DEF Blocks
<1> QED
  BY <1>1 DEF Simple

(* What an appended line makes of the conversation on disk.                    *)
LEMMA SpokenSteps ==
  ASSUME TypeOK, Chained, OnDisk, Write
  PROVE  LET line == Head(queue).line
         IN  /\ line.kind \notin Speaking \cup {"model.response"} => Spoken' = Spoken
             /\ line.kind = "model.response" => Spoken' \in {Spoken, Append(Spoken, "assistant")}
             /\ line.kind \in Tasks => Spoken' = Append(Spoken, "user")
             /\ line.kind = "message.append" =>
                  \E b \in Blocks, m \in Seq(Blocks) :
                    /\ Spoken' = Append(m, b)
                    /\ m = Spoken \/ (b # "results" /\ m = Front(Spoken) /\ Simple(Spoken) /\ OfAssistant(Spoken))
                    /\ b = "results" => Waits(Spoken)
                    /\ pc = "decide" => b = answer.content
             /\ line.kind = "context.compact" =>
                  Sound(Spoken') /\ Opens(Spoken') /\ Spoken' # <<>>
             /\ Disk'.authoritative \/ Simple(Spoken')
<1> DEFINE line == Head(queue).line
<1>1. /\ queue # <<>> /\ queue' = Tail(queue)
      /\ log' = IF Unread(line) THEN log ELSE Append(log, line)
  BY DEF Write
<1>2. line \in Line /\ \E j \in DOMAIN queue : Head(queue) = queue[j]
  BY <1>1, HeadOfChain
<1>3. Fitting(line, Spoken, pc, answer.content) /\ (line.kind \notin Speaking => line.blocks = <<>>)
  BY <1>2 DEF OnDisk, Chained, Silence
<1>4. line.kind \in Speaking => ~Unread(line)
  BY DEF Unread, Speaking, Tasks
<1> HIDE DEF line
<1>5. /\ log \in Seq(Line) /\ Disk \in State /\ Spoken \in Seq(Blocks)
      /\ Disk.authoritative \/ Simple(Spoken)
  BY BlankTyped, ReplayTyped DEF TypeOK, OnDisk, Sound, Disk
<1>6. \/ Disk' = Disk /\ line.kind \notin Speaking
      \/ Disk' = Folded(Disk, line)
  <2>1. log' = log => Disk' = Disk
    BY DEF Disk
  <2>2. log' = Append(log, line) => Disk' = Folded(Disk, line)
    BY <1>2, <1>5, ReplayAppend DEF Disk
  <2> QED
    BY <1>1, <1>4, <2>1, <2>2
<1>7. \A m \in Seq(Blocks) : m \o <<>> = m /\ \A b \in Blocks : m \o <<b>> = Append(m, b)
  OBVIOUS
<1>8. ASSUME line.kind \notin Speaking \cup {"model.response"}
      PROVE  Spoken' = Spoken /\ (Disk'.authoritative \/ Simple(Spoken'))
  <2>1. CASE Disk' = Disk
    BY <1>5, <2>1 DEF Spoken
  <2>2. CASE Disk' = Folded(Disk, line)
    <3>1. line.kind \notin {"context.compact", "message.append"} /\ line.blocks = <<>>
      BY <1>3, <1>8 DEF Speaking
    <3>2. /\ Folded(Disk, line).messages = Disk.messages
          /\ Folded(Disk, line).authoritative = Disk.authoritative
      <4>1. Disk.messages \o <<>> = Disk.messages
        BY <1>5, <1>7 DEF Spoken
      <4>2. CASE line.kind \in {"model.delta", "turn.aborted"}
        BY <1>2, <1>5, <4>2, FoldedIs
      <4>3. CASE line.kind \notin {"model.delta", "turn.aborted"}
        <5>1. Folded(Disk, line) = Disk
          BY <1>2, <1>5, <1>8, <3>1, <4>3, QuietFolded
        <5> QED
          BY <5>1
      <4> QED
        BY <4>2, <4>3
    <3> QED
      BY <1>5, <2>2, <3>2 DEF Spoken
  <2> QED
    BY <1>6, <2>1, <2>2
<1>9. ASSUME line.kind = "model.response"
      PROVE  /\ Spoken' \in {Spoken, Append(Spoken, "assistant")}
             /\ Disk'.authoritative \/ Simple(Spoken')
  <2>1. CASE Disk' = Disk
    BY <1>5, <2>1 DEF Spoken
  <2>2. CASE Disk' = Folded(Disk, line)
    <3>1. /\ Spoken' \in {Spoken, Append(Spoken, "assistant")}
          /\ Disk'.authoritative = Disk.authoritative
      BY <1>2, <1>5, <1>9, <2>2, FoldedIs DEF Spoken
    <3>2. Simple(Spoken) => Simple(Append(Spoken, "assistant"))
      BY <1>5, AppendSimple
    <3> QED
      BY <1>5, <3>1, <3>2
  <2> QED
    BY <1>6, <2>1, <2>2
<1>10. ASSUME line.kind \in Tasks
       PROVE  Spoken' = Append(Spoken, "user") /\ (Disk'.authoritative \/ Simple(Spoken'))
  <2>1. /\ line.kind \in Speaking /\ "user" \in Blocks
        /\ line.kind \notin {"context.compact", "message.append", "model.delta",
                             "model.response", "turn.aborted"}
    BY <1>10 DEF Speaking, Tasks, Blocks
  <2>2. line.blocks = <<"user">>
    BY <1>3, <1>10 DEF Fitting
  <2>3. /\ Spoken' = Spoken \o <<"user">> /\ Disk'.authoritative = Disk.authoritative
    BY <1>2, <1>5, <1>6, <2>1, <2>2, FoldedIs DEF Spoken
  <2>4. Spoken' = Append(Spoken, "user")
    BY <1>5, <1>7, <2>1, <2>3
  <2>5. Simple(Spoken) => Simple(Append(Spoken, "user"))
    BY <1>5, AppendSimple
  <2> QED
    BY <1>5, <2>3, <2>4, <2>5
<1>11. ASSUME line.kind = "message.append"
       PROVE  /\ \E b \in Blocks, m \in Seq(Blocks) :
                   /\ Spoken' = Append(m, b)
                   /\ m = Spoken \/ (b # "results" /\ m = Front(Spoken) /\ Simple(Spoken) /\ OfAssistant(Spoken))
                   /\ b = "results" => Waits(Spoken)
                   /\ pc = "decide" => b = answer.content
              /\ Disk'.authoritative \/ Simple(Spoken')
  <2>1. line.kind \in Speaking /\ Disk' = Folded(Disk, line)
    BY <1>6, <1>11 DEF Speaking
  <2>2. PICK b \in Blocks : /\ line.blocks = <<b>>
                            /\ b = "results" => Waits(Spoken)
                            /\ pc = "decide" => b = answer.content
    BY <1>3, <1>11 DEF Fitting
  <2> DEFINE m == IF ~Disk.authoritative /\ OfAssistant(Disk.messages) /\ OfAssistant(line.blocks)
                  THEN Front(Disk.messages) ELSE Disk.messages
  <2>3. Spoken' = m \o <<b>> /\ Disk'.authoritative
    BY <1>2, <1>5, <1>11, <2>1, <2>2, FoldedIs DEF Spoken
  <2>4. m = Spoken \/ (b # "results" /\ m = Front(Spoken) /\ Simple(Spoken) /\ OfAssistant(Spoken))
    <3>1. OfAssistant(<<b>>) => b # "results"
      BY DEF OfAssistant, Last
    <3> QED
      BY <1>5, <2>2, <3>1 DEF Spoken
  <2>5. m \in Seq(Blocks)
    <3>1. OfAssistant(Spoken) => Front(Spoken) \in Seq(Blocks)
      BY <1>5 DEF OfAssistant, Front
    <3> QED
      BY <1>5, <3>1 DEF Spoken
  <2> HIDE DEF m
  <2>6. Spoken' = Append(m, b)
    BY <1>7, <2>3, <2>5
  <2> QED
    BY <2>2, <2>3, <2>4, <2>5, <2>6
<1>12. ASSUME line.kind = "context.compact"
       PROVE  /\ Sound(Spoken') /\ Opens(Spoken') /\ Spoken' # <<>>
              /\ Disk'.authoritative \/ Simple(Spoken')
  <2>1. line.kind \in Speaking /\ Disk' = Folded(Disk, line)
    BY <1>6, <1>12 DEF Speaking
  <2>2. Spoken' = line.blocks /\ Disk'.authoritative
    BY <1>2, <1>5, <1>12, <2>1, FoldedIs DEF Spoken
  <2> QED
    BY <1>3, <1>12, <2>2 DEF Fitting
<1>13. line.kind \notin Speaking \cup {"model.response"} \/ line.kind = "model.response"
       \/ line.kind \in Tasks \/ line.kind = "message.append" \/ line.kind = "context.compact"
  BY DEF Speaking
<1>14. "model.response" \notin Speaking
  BY DEF Speaking, Tasks
<1> QED
  BY <1>8, <1>9, <1>10, <1>11, <1>12, <1>13 DEF line

LEMMA WrittenKeeps ==
  ASSUME TypeOK, Chained, OnDisk, Write
  PROVE  OnDisk'
<1> DEFINE line == Head(queue).line
<1>0. /\ queue # <<>> /\ queue' = Tail(queue) /\ pc' = pc /\ onFail' = onFail
      /\ answer' = answer /\ (Unanswered' <=> Unanswered)
  BY DEF Write, turn, Unanswered
<1>1. /\ Head(queue).by = "loop" =>
           /\ Awaiting /\ Awaited(line.kind, pc, onFail)
           /\ ~Awaiting' /\ \A i \in DOMAIN queue' : queue'[i].line = Plain("note")
      /\ Head(queue).by # "loop" => line = Plain("note") /\ (Awaiting' <=> Awaiting)
      /\ \A i \in DOMAIN queue' : \E j \in DOMAIN queue : queue'[i] = queue[j]
  BY <1>0, HeadOfChain
<1>2. /\ Sound(Spoken) /\ Opens(Spoken)
      /\ Unanswered /\ ~Awaiting => Waits(Spoken)
      /\ pc \in Exits \cup {"begin"} \/ (pc = "started" /\ Awaiting) \/ Spoken # <<>>
      /\ \A i \in DOMAIN queue : Fitting(queue[i].line, Spoken, pc, answer.content)
  BY DEF OnDisk
<1>3. /\ line.kind \notin Speaking \cup {"model.response"} => Spoken' = Spoken
      /\ line.kind = "model.response" => Spoken' \in {Spoken, Append(Spoken, "assistant")}
      /\ line.kind \in Tasks => Spoken' = Append(Spoken, "user")
      /\ line.kind = "message.append" =>
           \E b \in Blocks, m \in Seq(Blocks) :
             /\ Spoken' = Append(m, b)
             /\ m = Spoken \/ (b # "results" /\ m = Front(Spoken) /\ Simple(Spoken) /\ OfAssistant(Spoken))
             /\ b = "results" => Waits(Spoken)
             /\ pc = "decide" => b = answer.content
      /\ line.kind = "context.compact" =>
           Sound(Spoken') /\ Opens(Spoken') /\ Spoken' # <<>>
      /\ Disk'.authoritative \/ Simple(Spoken')
  BY SpokenSteps
<1> HIDE DEF line
<1>4. CASE line.kind \notin Speaking \cup {"model.response"}
  <2>1. Spoken' = Spoken
    BY <1>3, <1>4
  <2>2. \A l : Fitting(l, Spoken', pc', answer'.content) <=> Fitting(l, Spoken, pc, answer.content)
    BY <1>0, <2>1 DEF Fitting
  <2>3. \A i \in DOMAIN queue' : Fitting(queue'[i].line, Spoken', pc', answer'.content)
    BY <1>1, <1>2, <2>2
  <2>4. Head(queue).by = "loop" => ~Unanswered /\ pc # "started"
    <3>1. SUFFICES ASSUME Head(queue).by = "loop" PROVE ~Unanswered /\ pc # "started"
      OBVIOUS
    <3>2. PICK p : <<p, line.kind, pc, onFail>> \in Emits
      BY <1>1, <3>1 DEF Awaited
    <3> QED
      BY <1>4, <3>2 DEF Emits, Speaking, Tasks, Unanswered
  <2> QED
    BY <1>0, <1>1, <1>2, <1>3, <2>1, <2>3, <2>4 DEF OnDisk
<1>5. CASE line.kind \in Speaking \cup {"model.response"}
  <2>1. Head(queue).by = "loop"
    BY <1>1, <1>5 DEF Speaking, Tasks, Plain
  <2>2. PICK p : <<p, line.kind, pc, onFail>> \in Emits
    BY <1>1, <2>1 DEF Awaited
  <2>4. \A i \in DOMAIN queue' : Fitting(queue'[i].line, Spoken', pc', answer'.content)
    BY <1>1, <2>1, NoteFits
  <2>5. CASE line.kind \in Tasks
    <3>1. Spoken' = Append(Spoken, "user") /\ "user" \in Blocks /\ "user" # "results"
      BY <1>3, <2>5 DEF Blocks
    <3>2. ~Unanswered
      BY <2>2, <2>5 DEF Emits, Tasks, Unanswered
    <3>3. Sound(Spoken') /\ Opens(Spoken') /\ Spoken' # <<>>
      <4>1. /\ Sound(Append(Spoken, "user")) /\ Append(Spoken, "user") # <<>>
            /\ Spoken # <<>> => Append(Spoken, "user")[1] = Spoken[1]
            /\ Spoken = <<>> => Append(Spoken, "user")[1] = "user"
        BY <1>2, <3>1, AppendSound
      <4> QED
        BY <1>2, <3>1, <4>1 DEF Opens
    <3> QED
      BY <1>0, <1>3, <2>4, <3>2, <3>3 DEF OnDisk
  <2>6. CASE line.kind = "message.append"
    <3>1. PICK b \in Blocks, m \in Seq(Blocks) :
            /\ Spoken' = Append(m, b)
            /\ m = Spoken \/ (b # "results" /\ m = Front(Spoken) /\ Simple(Spoken) /\ OfAssistant(Spoken))
            /\ b = "results" => Waits(Spoken)
            /\ pc = "decide" => b = answer.content
      BY <1>3, <2>6
    <3>2. pc \in {"decide", "continue", "compacting", "answered"}
      BY <2>2, <2>6 DEF Emits
    <3>3. Sound(m) /\ Opens(m) /\ m # <<>> /\ (b = "results" => Waits(m))
      <4>1. CASE m = Spoken
        BY <1>2, <3>1, <3>2, <4>1 DEF Exits
      <4>2. CASE b # "results" /\ m = Front(Spoken) /\ Simple(Spoken) /\ OfAssistant(Spoken)
        <5>1. Spoken \in Seq(Blocks)
          BY <1>2 DEF Sound
        <5> QED
          BY <1>2, <4>2, <5>1, PoppedSound
      <4> QED
        BY <3>1, <4>1, <4>2
    <3>4. /\ Sound(Spoken') /\ Spoken' # <<>> /\ Spoken'[1] = m[1]
          /\ (Waits(Spoken') <=> b = "calls")
      <4>1. /\ Sound(Append(m, b)) /\ Append(m, b) # <<>>
            /\ m # <<>> => Append(m, b)[1] = m[1]
            /\ (Waits(Append(m, b)) <=> b = "calls")
        BY <3>1, <3>3, AppendSound
      <4> QED
        BY <3>1, <3>3, <4>1
    <3>5. Opens(Spoken')
      BY <3>3, <3>4 DEF Opens
    <3>6. Unanswered => Waits(Spoken')
      BY <3>1, <3>2, <3>4 DEF Unanswered
    <3> QED
      BY <1>0, <1>3, <2>4, <3>4, <3>5, <3>6 DEF OnDisk, Waits
  <2>7. CASE line.kind = "context.compact"
    <3>1. ~Unanswered
      BY <2>2, <2>7 DEF Emits, Unanswered
    <3> QED
      BY <1>0, <1>3, <2>4, <2>7, <3>1 DEF OnDisk
  <2>8. CASE line.kind = "model.response"
    <3>1. pc = "responded" /\ ~Unanswered
      BY <2>2, <2>8 DEF Emits, Unanswered
    <3>2. Spoken # <<>> /\ Spoken' \in {Spoken, Append(Spoken, "assistant")}
      BY <1>2, <1>3, <2>8, <3>1 DEF Exits
    <3>3. Sound(Spoken') /\ Opens(Spoken') /\ Spoken' # <<>>
      <4>1. /\ Sound(Append(Spoken, "assistant")) /\ Append(Spoken, "assistant") # <<>>
            /\ Append(Spoken, "assistant")[1] = Spoken[1]
        BY <1>2, <3>2, AppendSound DEF Blocks
      <4>2. Opens(Append(Spoken, "assistant"))
        BY <1>2, <3>2, <4>1 DEF Opens
      <4> QED
        BY <1>2, <3>2, <4>1, <4>2
    <3> QED
      BY <1>0, <1>3, <2>4, <3>1, <3>3 DEF OnDisk
  <2> QED
    BY <1>5, <2>5, <2>6, <2>7, <2>8 DEF Speaking
<1> QED
  BY <1>4, <1>5

LEMMA OnDiskKeeps ==
  ASSUME TypeOK, Chained, InMemory, OnDisk, [Next]_vars
  PROVE  OnDisk'
<1>0. /\ Sound(Spoken) /\ Opens(Spoken) /\ (Disk.authoritative \/ Simple(Spoken))
      /\ Unanswered /\ ~Awaiting => Waits(Spoken)
      /\ pc \in Exits \cup {"begin"} \/ (pc = "started" /\ Awaiting) \/ Spoken # <<>>
      /\ \A i \in DOMAIN queue : Fitting(queue[i].line, Spoken, pc, answer.content)
      /\ Fits(messages) /\ (pc \notin Exits => (Waits(messages) <=> Unanswered))
  BY DEF OnDisk, InMemory
<1>1. CASE Turn \/ Ending
  <2>1. ~Awaiting /\ Moves
    BY <1>1, TurnMoves, EndingMoves
  <2>2. log' = log /\ Disk' = Disk /\ Spoken' = Spoken
    BY <2>1 DEF Moves, Went, Emitted, Spoken, Disk
  <2>3. \A i \in DOMAIN queue : queue[i].line = Plain("note")
    BY <2>1 DEF Awaiting, Chained, Expected
  <2>4. \A i \in DOMAIN queue : Fitting(queue[i].line, Spoken', pc', answer'.content)
    BY <2>3, NoteFits
  <2>5. CASE Went
    <3>1. queue' = queue /\ <<pc, pc'>> \in Goes
      BY <2>5 DEF Went
    <3>2. pc' \notin Exits => pc \notin Exits \cup {"begin"}
      BY <3>1 DEF Goes, Exits
    <3>3. Unanswered' => pc' \notin Exits
      BY DEF Unanswered, Exits
    <3>4. Unanswered' => Waits(Spoken)
      BY <1>0, <1>1, <2>1, <2>5, <3>3, AnswerLeads
    <3> QED
      BY <1>0, <2>1, <2>2, <2>4, <3>1, <3>2, <3>4 DEF OnDisk
  <2>6. ASSUME NEW line, Emitted(line) PROVE OnDisk'
    <3> DEFINE e == [line |-> line, by |-> "loop"]
    <3>0. /\ <<pc, line.kind, pc', onFail'>> \in Emits /\ SaysBlocks(line)
          /\ queue' = Append(queue, e) /\ e \in [line : Line, by : {"loop", "other"}]
          /\ e.line = line /\ e.by = "loop"
      BY <2>6 DEF Emitted, Says
    <3> HIDE DEF e
    <3>1. /\ DOMAIN queue' = 1..(Len(queue) + 1) /\ queue'[Len(queue) + 1] = e
          /\ Len(queue) \in Nat
          /\ \A i \in DOMAIN queue : queue'[i] = queue[i]
          /\ \A i \in DOMAIN queue' : i \in DOMAIN queue \/ i = Len(queue) + 1
      BY <3>0, QueueAppend
    <3>2. Awaiting'
      BY <3>0, <3>1 DEF Awaiting
    <3>3. pc' \in Exits \cup {"begin", "started"} \/ Spoken # <<>>
      <4>1. pc' \notin Exits \cup {"begin", "started"} => pc \notin Exits \cup {"begin"}
        BY <3>0 DEF Emits, Exits
      <4> QED
        BY <1>0, <2>1, <4>1
    <3>4. Fitting(line, Spoken', pc', answer'.content)
      <4>1. line.kind \in Tasks => line.blocks = <<"user">>
        BY <3>0 DEF SaysBlocks
      <4>2. line.kind = "message.append" =>
              \E b \in Blocks : /\ line.blocks = <<b>>
                                /\ b = "results" => Waits(Spoken)
                                /\ pc' = "decide" => b = answer'.content
        <5>1. SUFFICES ASSUME line.kind = "message.append"
                       PROVE  \E b \in Blocks : /\ line.blocks = <<b>>
                                                /\ b = "results" => Waits(Spoken)
                                                /\ pc' = "decide" => b = answer'.content
          OBVIOUS
        <5>2. /\ Said \in Blocks /\ (Said = "results" <=> Unanswered)
              /\ pc' = "decide" => Said = answer'.content
          BY <1>1, <2>6, <5>1, AnswerLeads
        <5>3. line.blocks = <<Said>>
          BY <3>0, <5>1 DEF SaysBlocks
        <5> QED
          BY <1>0, <2>1, <5>2, <5>3
      <4>3. line.kind = "context.compact" =>
              Sound(line.blocks) /\ Opens(line.blocks) /\ line.blocks # <<>>
        <5>1. SUFFICES ASSUME line.kind = "context.compact"
                       PROVE  Sound(line.blocks) /\ Opens(line.blocks) /\ line.blocks # <<>>
          OBVIOUS
        <5>2. Cut(messages) > 2 /\ line.blocks = Compacted(messages, Cut(messages))
          BY <3>0, <5>1 DEF SaysBlocks
        <5>3. pc = "compacting"
          BY <3>0, <5>1 DEF Emits
        <5>4. ~Waits(messages)
          BY <1>0, <5>3 DEF Exits, Unanswered
        <5> QED
          BY <1>0, <5>2, <5>4, CompactedFits DEF Fits, Answered
      <4> QED
        BY <2>2, <4>1, <4>2, <4>3 DEF Fitting
    <3>5. \A i \in DOMAIN queue' : Fitting(queue'[i].line, Spoken', pc', answer'.content)
      BY <2>4, <3>0, <3>1, <3>4
    <3> QED
      BY <1>0, <2>2, <3>2, <3>3, <3>5 DEF OnDisk
  <2> QED
    BY <2>1, <2>5, <2>6 DEF Moves
<1>2. CASE RunAgain
  <2>1. pc' = "begin" /\ queue' = <<>> /\ log' = log
    BY <1>2 DEF RunAgain
  <2>2. Disk' = Disk /\ Spoken' = Spoken /\ DOMAIN queue' = {} /\ ~Unanswered'
    BY <2>1 DEF Spoken, Disk, Unanswered
  <2> QED
    BY <1>0, <2>1, <2>2 DEF OnDisk
<1>3. CASE Write
  BY <1>3, WrittenKeeps
<1>4. CASE ~(Turn \/ Ending) /\ ~RunAgain /\ ~Write
  <2>0. answer' = answer
    BY <1>4, AsideSteps
  <2>1. log' = log /\ Disk' = Disk /\ Spoken' = Spoken
    BY <1>4, AsideSteps DEF Note, Crash, WriteFails, Spoken, Disk
  <2>2. pc' = pc => /\ Unanswered' <=> Unanswered
                    /\ \A l : Fitting(l, Spoken, pc, answer.content) => Fitting(l, Spoken', pc', answer'.content)
    BY <2>0, <2>1 DEF Unanswered, Fitting
  <2>3. CASE UNCHANGED <<log, queue, pc>>
    <3>1. Awaiting' <=> Awaiting
      BY <2>3 DEF Awaiting
    <3> QED
      BY <1>0, <2>1, <2>2, <2>3, <3>1 DEF OnDisk
  <2>4. CASE Note
    <3> DEFINE e == [line |-> Plain("note"), by |-> "other"]
    <3>1. e \in [line : Line, by : {"loop", "other"}] /\ queue' = Append(queue, e)
          /\ e.by = "other" /\ e.line = Plain("note") /\ pc' = pc
      <4>1. "note" \in Kinds
        BY DEF Kinds
      <4> QED
        BY <2>4, <4>1, LineTyped DEF Note
    <3> HIDE DEF e
    <3>2. /\ DOMAIN queue' = 1..(Len(queue) + 1) /\ queue'[Len(queue) + 1] = e
          /\ DOMAIN queue = 1..Len(queue) /\ Len(queue) \in Nat
          /\ \A i \in DOMAIN queue : queue'[i] = queue[i]
          /\ \A i \in DOMAIN queue' : i \in DOMAIN queue \/ i = Len(queue) + 1
      BY <3>1, QueueAppend
    <3>3. Awaiting' <=> Awaiting
      BY <3>1, <3>2 DEF Awaiting
    <3>4. \A i \in DOMAIN queue' : Fitting(queue'[i].line, Spoken, pc, answer.content)
      BY <1>0, <3>1, <3>2, NoteFits
    <3> QED
      BY <1>0, <2>1, <2>2, <3>1, <3>3, <3>4 DEF OnDisk
  <2>5. CASE Crash
    <3>1. pc' = "dead" /\ queue' = <<>>
      BY <2>5 DEF Crash
    <3>2. DOMAIN queue' = {} /\ ~Unanswered' /\ pc' \in Exits
      BY <3>1 DEF Unanswered, Exits
    <3> QED
      BY <1>0, <2>1, <3>2 DEF OnDisk
  <2>6. CASE WriteFails
    <3>0. /\ queue # <<>> /\ queue' = Tail(queue)
          /\ pc' = IF Head(queue).by = "loop" THEN onFail ELSE pc
      BY <2>6 DEF WriteFails
    <3>1. /\ Head(queue).by = "loop" =>
               /\ Awaiting /\ Awaited(Head(queue).line.kind, pc, onFail)
               /\ ~Awaiting' /\ \A i \in DOMAIN queue' : queue'[i].line = Plain("note")
          /\ Head(queue).by # "loop" => (Awaiting' <=> Awaiting)
          /\ \A i \in DOMAIN queue' : \E j \in DOMAIN queue : queue'[i] = queue[j]
      BY <3>0, HeadOfChain
    <3>2. CASE Head(queue).by # "loop"
      <4>1. \A i \in DOMAIN queue' : Fitting(queue'[i].line, Spoken, pc, answer.content)
        BY <1>0, <3>1
      <4> QED
        BY <1>0, <2>1, <2>2, <3>0, <3>1, <3>2, <4>1 DEF OnDisk
    <3>3. CASE Head(queue).by = "loop"
      <4>1. \A i \in DOMAIN queue' : Fitting(queue'[i].line, Spoken', pc', answer'.content)
        BY <3>1, <3>3, NoteFits
      <4>2. ~Unanswered'
        BY <3>0, <3>3 DEF Chained, Fails, Unanswered
      <4>3. pc' \in Exits \/ Spoken # <<>>
        <5>1. onFail \notin Exits => pc \in {"streaming", "closing"}
          BY <3>0, <3>3, FailsTo
        <5> QED
          BY <1>0, <3>0, <3>3, <5>1 DEF Exits
      <4> QED
        BY <1>0, <2>1, <4>1, <4>2, <4>3 DEF OnDisk
    <3> QED
      BY <3>2, <3>3
  <2> QED
    BY <1>4, <2>3, <2>4, <2>5, <2>6, AsideSteps
<1> QED
  BY <1>1, <1>2, <1>3, <1>4

PairInv == ChainInv /\ InMemory /\ OnDisk

LEMMA PairNext == PairInv /\ [Next]_vars => PairInv'
<1> SUFFICES ASSUME TypeOK, Chained, InMemory, OnDisk, [Next]_vars
             PROVE  ChainInv' /\ InMemory' /\ OnDisk'
  BY DEF PairInv, ChainInv
<1>1. Sound(Spoken) /\ Opens(Spoken)
  BY DEF OnDisk
<1> QED
  BY <1>1, ChainNext, InMemoryKeeps, OnDiskKeeps DEF ChainInv

(* A request, and the snapshot a later run may resume from, hold no call       *)
(* without its results and no results without their calls: not after an        *)
(* interrupted batch, a cut answer, a compaction, a crash or a failed append,  *)
(* and not in what the next run rebuilds from any of these.                    *)
THEOREM RunConversationPaired == Spec => []ConversationPaired
<1>1. Init => PairInv
  <2> SUFFICES ASSUME Init PROVE InMemory /\ OnDisk
    BY ChainInit DEF PairInv
  <2>1. /\ log = <<>> /\ queue = <<>> /\ messages = <<>> /\ loaded = <<>>
        /\ pc = "begin" /\ snapshot = None
    BY DEF Init
  <2>2. Spoken = <<>> /\ DOMAIN queue = {} /\ ~Unanswered
    BY <2>1, ReplayNothing, BlankTyped DEF Spoken, Disk, Unanswered
  <2>3. Sound(<<>>) /\ Opens(<<>>) /\ Simple(<<>>)
    BY Nothing DEF Fits, Answered, Simple
  <2> QED
    BY <2>1, <2>2, <2>3, Nothing DEF InMemory, OnDisk
<1>2. PairInv => ConversationPaired
  <2> SUFFICES ASSUME InMemory PROVE ConversationPaired
    BY DEF PairInv
  <2>1. pc = "streaming" => ~Waits(messages)
    BY DEF InMemory, Exits, Unanswered
  <2> QED
    BY <2>1, AnsweredPaired DEF InMemory, Fits, ConversationPaired
<1> QED
  BY <1>1, <1>2, PairNext, PTL DEF Spec
-----------------------------------------------------------------------------
(* ---- Every continuation is attempted or disowned.                           *)
Nudge(line) == line.kind = "message.append" /\ line.blocks = <<"user">>
Reply(line) == line.kind \in {"turn.continued", "unattempted"}
NudgesIn(lines) == {i \in DOMAIN lines : Nudge(lines[i])}
RepliesIn(lines) == {i \in DOMAIN lines : Reply(lines[i])}
Nudging == \E i \in DOMAIN queue : Nudge(queue[i].line)
Replying == \E i \in DOMAIN queue : Reply(queue[i].line)
One(fact) == IF fact THEN 1 ELSE 0

(* Places a staged continuation does not reach.                                *)
Unstaged == {"streaming", "responded", "heard", "decide", "truncated", "continue",
             "orphans", "settled", "hooks", "undelivered", "release", "closed"}

(* The continuations in the log or on their way are the answers to them, and   *)
(* the one that is staged.                                                     *)
Balance == Cardinality(NudgesIn(ThisRun)) + One(Nudging)
             = Cardinality(RepliesIn(ThisRun)) + One(Replying) + One(staged)
Continued ==
  "fail" \notin may /\ pc # "dead" => /\ pc \in Unstaged => ~staged
                                      /\ Balance

LEMMA CountAppend ==
  ASSUME NEW s \in Seq(Line), NEW l \in Line
  PROVE  /\ Cardinality(NudgesIn(s)) \in Nat /\ Cardinality(RepliesIn(s)) \in Nat
         /\ Cardinality(NudgesIn(Append(s, l))) = Cardinality(NudgesIn(s)) + One(Nudge(l))
         /\ Cardinality(RepliesIn(Append(s, l))) = Cardinality(RepliesIn(s)) + One(Reply(l))
<1> DEFINE t == Append(s, l)
           N == Len(s)
<1>1. /\ N \in Nat /\ DOMAIN s = 1..N /\ DOMAIN t = 1..(N + 1) /\ t[N + 1] = l
      /\ \A i \in 1..N : t[i] = s[i]
  OBVIOUS
<1> HIDE DEF t
<1>2. IsFiniteSet(1..N)
  BY <1>1, FS_Interval
<1>3. N + 1 \notin 1..N /\ 1..(N + 1) = (1..N) \cup {N + 1}
  BY <1>1
<1>4. IsFiniteSet(NudgesIn(s)) /\ IsFiniteSet(RepliesIn(s))
  <2>1. NudgesIn(s) \in SUBSET (1..N) /\ RepliesIn(s) \in SUBSET (1..N)
    BY <1>1 DEF NudgesIn, RepliesIn
  <2> QED
    BY <1>2, <2>1, FS_Subset
<1>5. NudgesIn(t) = IF Nudge(l) THEN NudgesIn(s) \cup {N + 1} ELSE NudgesIn(s)
  BY <1>1, <1>3 DEF NudgesIn
<1>6. RepliesIn(t) = IF Reply(l) THEN RepliesIn(s) \cup {N + 1} ELSE RepliesIn(s)
  BY <1>1, <1>3 DEF RepliesIn
<1>7. N + 1 \notin NudgesIn(s) /\ N + 1 \notin RepliesIn(s)
  BY <1>1, <1>3 DEF NudgesIn, RepliesIn
<1>8. Cardinality(NudgesIn(s)) \in Nat /\ Cardinality(RepliesIn(s)) \in Nat
  BY <1>4, FS_CardinalityType
<1>9. Cardinality(NudgesIn(t)) = Cardinality(NudgesIn(s)) + One(Nudge(l))
  <2>1. CASE Nudge(l)
    BY <1>4, <1>5, <1>7, <1>8, <2>1, FS_AddElement DEF One
  <2>2. CASE ~Nudge(l)
    BY <1>5, <1>8, <2>2 DEF One
  <2> QED
    BY <2>1, <2>2
<1>10. Cardinality(RepliesIn(t)) = Cardinality(RepliesIn(s)) + One(Reply(l))
  <2>1. CASE Reply(l)
    BY <1>4, <1>6, <1>7, <1>8, <2>1, FS_AddElement DEF One
  <2>2. CASE ~Reply(l)
    BY <1>6, <1>8, <2>2 DEF One
  <2> QED
    BY <2>1, <2>2
<1> QED
  BY <1>8, <1>9, <1>10 DEF t

LEMMA ThisRunWritten ==
  ASSUME TypeOK, base <= Len(log), NEW l \in Line, log' = Append(log, l), base' = base
  PROVE  ThisRun' = Append(ThisRun, l) /\ ThisRun \in Seq(Line)
<1>1. log \in Seq(Line) /\ base \in Nat /\ Len(log) \in Nat
  BY DEF TypeOK
<1>2. /\ log' \in Seq(Line) /\ Len(log') = Len(log) + 1 /\ log'[Len(log) + 1] = l
      /\ \A i \in 1..Len(log) : log'[i] = log[i]
  BY <1>1
<1>3. /\ ThisRun \in Seq(Line) /\ Len(ThisRun) = Len(log) - base
      /\ \A i \in 1..(Len(log) - base) : ThisRun[i] = log[base + i]
  BY <1>1, Cutting DEF ThisRun
<1>4. /\ ThisRun' \in Seq(Line) /\ Len(ThisRun') = Len(log') - base
      /\ \A i \in 1..(Len(log') - base) : ThisRun'[i] = log'[base + i]
  <2>1. base <= Len(log')
    BY <1>1, <1>2
  <2> QED
    BY <1>1, <1>2, <2>1, Cutting DEF ThisRun
<1>5. /\ Append(ThisRun, l) \in Seq(Line) /\ Len(Append(ThisRun, l)) = Len(ThisRun')
      /\ \A i \in 1..(Len(log) - base) : Append(ThisRun, l)[i] = ThisRun[i]
      /\ Append(ThisRun, l)[Len(log) - base + 1] = l
  BY <1>1, <1>2, <1>3, <1>4
<1>6. ASSUME NEW i \in 1..Len(ThisRun') PROVE ThisRun'[i] = Append(ThisRun, l)[i]
  <2>1. CASE i \in 1..(Len(log) - base)
    <3>1. base + i \in 1..Len(log) /\ i \in 1..(Len(log') - base)
      BY <1>1, <1>2, <1>4, <2>1
    <3> QED
      BY <1>2, <1>3, <1>4, <1>5, <2>1, <3>1
  <2>2. CASE i \notin 1..(Len(log) - base)
    <3>0. i \in 1..(Len(log) + 1 - base)
      BY <1>1, <1>2, <1>4, <1>6
    <3>1. i = Len(log) - base + 1 /\ base + i = Len(log) + 1 /\ i \in 1..(Len(log') - base)
      BY <1>1, <1>2, <2>2, <3>0
    <3> QED
      BY <1>2, <1>4, <1>5, <3>1
  <2> QED
    BY <2>1, <2>2
<1> QED
  BY <1>3, <1>4, <1>5, <1>6, SameSequence

LEMMA StagedPlaces ==
  ASSUME Turn \/ Ending
  PROVE  /\ pc = "continue" => StageContinuation
         /\ pc = "requested" => Attempt
         /\ pc = "flushed" => BeginEnding
         /\ pc \notin {"continue", "requested", "flushed"} => staged' = staged
<1>1. pc = "continue" => StageContinuation
  BY DEF Turn, Ending, Begin, Started, PromptHook, PassGate, DeliverSteer, Steered, StartTurn,
       HooksRun, RequestRefused, BeforeRequest, Attempt, StreamText, StreamThrows, Respond,
       AppendAnswer, Decide, Truncated, StageContinuation, ToolsReturn,
       ToolsAnswered, ToolsInterrupted, ToolsReject, KeepConversation, Compact,
       CompactAborted, CompactFailed, CloseTurn, SaveSnapshot, Caught, TurnFailed,
       ClosePrincipals, BeginEnding, GraceExpires, OrphansSettled, Finishing,
       EndHooks, ReportSteer, Finish, Release, At
<1>2. pc = "requested" => Attempt
  BY DEF Turn, Ending, Begin, Started, PromptHook, PassGate, DeliverSteer, Steered, StartTurn,
       HooksRun, RequestRefused, BeforeRequest, Attempt, StreamText, StreamThrows, Respond,
       AppendAnswer, Decide, Truncated, StageContinuation, ToolsReturn,
       ToolsAnswered, ToolsInterrupted, ToolsReject, KeepConversation, Compact,
       CompactAborted, CompactFailed, CloseTurn, SaveSnapshot, Caught, TurnFailed,
       ClosePrincipals, BeginEnding, GraceExpires, OrphansSettled, Finishing,
       EndHooks, ReportSteer, Finish, Release, At
<1>3. pc = "flushed" => BeginEnding
  BY DEF Turn, Ending, Begin, Started, PromptHook, PassGate, DeliverSteer, Steered, StartTurn,
       HooksRun, RequestRefused, BeforeRequest, Attempt, StreamText, StreamThrows, Respond,
       AppendAnswer, Decide, Truncated, StageContinuation, ToolsReturn,
       ToolsAnswered, ToolsInterrupted, ToolsReject, KeepConversation, Compact,
       CompactAborted, CompactFailed, CloseTurn, SaveSnapshot, Caught, TurnFailed,
       ClosePrincipals, BeginEnding, GraceExpires, OrphansSettled, Finishing,
       EndHooks, ReportSteer, Finish, Release, At
<1>4. pc \notin {"continue", "requested", "flushed"} => staged' = staged
  BY DEF Turn, Ending, Begin, Started, PromptHook, PassGate, DeliverSteer, Steered, StartTurn,
       HooksRun, RequestRefused, BeforeRequest, Attempt, StreamText, StreamThrows, Respond,
       AppendAnswer, Decide, Truncated, StageContinuation, ToolsReturn,
       ToolsAnswered, ToolsInterrupted, ToolsReject, KeepConversation, Compact,
       CompactAborted, CompactFailed, CloseTurn, SaveSnapshot, Caught, TurnFailed,
       ClosePrincipals, BeginEnding, GraceExpires, OrphansSettled, Finishing,
       EndHooks, ReportSteer, Finish, Release, At, turn
<1> QED
  BY <1>1, <1>2, <1>3, <1>4

(* A line handed on is the one the action hands on.                            *)
LEMMA OneLine ==
  ASSUME TypeOK, NEW line, Emitted(line)
  PROVE  /\ queue' # queue
         /\ \A l, next, fail : Emit(l, next, fail) => l = line
<1>1. queue \in Seq(Entry) /\ queue' = Append(queue, [line |-> line, by |-> "loop"])
  BY DEF TypeOK, Entry, Emitted
<1>2. \A e : Append(queue, e)[Len(queue) + 1] = e /\ Append(queue, e) # queue
  <2>1. Len(queue) \in Nat /\ \A e : Len(Append(queue, e)) = Len(queue) + 1
    BY <1>1
  <2> QED
    BY <1>1, <2>1
<1>3. ASSUME NEW l, NEW next, NEW fail, Emit(l, next, fail) PROVE l = line
  <2>1. queue' = Append(queue, [line |-> l, by |-> "loop"])
    BY <1>3 DEF Emit
  <2>2. [line |-> l, by |-> "loop"] = [line |-> line, by |-> "loop"]
    BY <1>1, <1>2, <2>1
  <2>3. [line |-> l, by |-> "loop"].line = [line |-> line, by |-> "loop"].line
    BY <2>2
  <2> QED
    BY <2>3
<1> QED
  BY <1>1, <1>2, <1>3

LEMMA StagedLeads ==
  ASSUME TypeOK, Turn \/ Ending
  PROVE  /\ Went => (staged' <=> staged) /\ (pc' \in Unstaged => ~staged' \/ pc \in Unstaged)
         /\ \A line : Emitted(line) =>
              /\ Nudge(line) => pc = "continue" /\ staged' /\ ~Reply(line)
              /\ Reply(line) => staged /\ ~staged'
              /\ ~Nudge(line) /\ ~Reply(line) => (staged' <=> staged)
              /\ pc' \in Unstaged => ~staged' \/ pc \in Unstaged
<1>0. staged \in BOOLEAN /\ answer.content \in {"none", "assistant", "calls"}
  BY DEF TypeOK
<1>1. ASSUME Went
      PROVE  (staged' <=> staged) /\ (pc' \in Unstaged => ~staged' \/ pc \in Unstaged)
  <2>0. <<pc, pc'>> \in Goes /\ queue' = queue
    BY <1>1 DEF Went
  <2>1. \A l, next, fail : ~Emit(l, next, fail)
    <3>1. queue \in Seq(Entry)
      BY DEF TypeOK, Entry
    <3>2. Len(queue) \in Nat /\ \A e : Len(Append(queue, e)) = Len(queue) + 1
      BY <3>1
    <3> QED
      BY <2>0, <3>2 DEF Emit
  <2>2. CASE pc = "continue"
    BY <2>0, <2>2 DEF Goes
  <2>3. CASE pc = "requested"
    <3>1. Attempt
      BY <2>3, StagedPlaces
    <3>2. ~staged /\ staged' = staged
      BY <2>1, <3>1 DEF Attempt, EndTurn
    <3> QED
      BY <3>2
  <2>4. CASE pc = "flushed"
    <3>1. BeginEnding
      BY <2>4, StagedPlaces
    <3>2. ~staged /\ ~staged'
      BY <2>1, <3>1 DEF BeginEnding
    <3> QED
      BY <3>2
  <2>5. CASE pc \notin {"continue", "requested", "flushed"}
    <3>1. staged' = staged
      BY <2>5, StagedPlaces
    <3>2. pc' \in Unstaged => pc \in Unstaged
      BY <2>0, <2>5 DEF Goes, Unstaged
    <3> QED
      BY <3>1, <3>2
  <2> QED
    BY <2>2, <2>3, <2>4, <2>5
<1>2. ASSUME NEW line, Emitted(line)
      PROVE  /\ Nudge(line) => pc = "continue" /\ staged' /\ ~Reply(line)
             /\ Reply(line) => staged /\ ~staged'
             /\ ~Nudge(line) /\ ~Reply(line) => (staged' <=> staged)
             /\ pc' \in Unstaged => ~staged' \/ pc \in Unstaged
  <2>0. /\ <<pc, line.kind, pc', onFail'>> \in Emits /\ SaysBlocks(line) /\ queue' # queue
        /\ \A l, next, fail : Emit(l, next, fail) => l = line
    BY <1>2, OneLine DEF Emitted, Says
  <2>1. /\ Nudge(line) => pc = "continue"
        /\ Nudge(line) => ~Reply(line)
    <3>1. SUFFICES ASSUME Nudge(line) PROVE pc = "continue" /\ ~Reply(line)
      OBVIOUS
    <3>2. line.kind = "message.append" /\ <<Said>> = <<"user">>
      BY <2>0, <3>1 DEF Nudge, SaysBlocks
    <3>3. Said = "user"
      <4>1. <<Said>>[1] = <<"user">>[1]
        BY <3>2
      <4> QED
        BY <4>1
    <3> QED
      BY <1>0, <3>2, <3>3 DEF Said, Reply
  <2>2. CASE pc = "continue"
    <3>1. StageContinuation
      BY <2>2, StagedPlaces
    <3>2. CASE continued >= MaxContinued
      <4>1. EndTurn /\ staged' = staged
        BY <3>1, <3>2 DEF StageContinuation
      <4>2. line = OfTurn("turn.end", turns)
        BY <2>0, <4>1 DEF EndTurn
      <4>3. line.kind = "turn.end" /\ pc' = "ending"
        BY <4>1, <4>2 DEF OfTurn, Plain, EndTurn, Emit
      <4> QED
        BY <4>1, <4>3 DEF Nudge, Reply, Unstaged
    <3>3. CASE ~(continued >= MaxContinued)
      <4>1. /\ Emit(Carrying("message.append", <<"user">>), "compacting", "caught")
            /\ staged' = TRUE
        BY <3>1, <3>3 DEF StageContinuation
      <4>2. line = Carrying("message.append", <<"user">>) /\ pc' = "compacting"
        BY <2>0, <4>1 DEF Emit
      <4>3. line.kind = "message.append" /\ line.blocks = <<"user">>
        BY <4>2 DEF Carrying, Plain
      <4> QED
        BY <2>1, <4>1, <4>2, <4>3 DEF Nudge, Reply, Unstaged
    <3> QED
      BY <3>2, <3>3
  <2>3. CASE pc = "requested"
    <3>1. Attempt /\ ~Nudge(line)
      BY <2>1, <2>3, StagedPlaces
    <3>2. CASE aborted
      <4>1. EndTurn /\ staged' = staged
        BY <3>1, <3>2 DEF Attempt
      <4>2. line = OfTurn("turn.end", turns) /\ pc' = "ending"
        BY <2>0, <4>1 DEF EndTurn, Emit
      <4>3. line.kind = "turn.end"
        BY <4>2 DEF OfTurn, Plain
      <4> QED
        BY <3>1, <4>1, <4>2, <4>3 DEF Reply, Unstaged
    <3>3. CASE ~aborted
      <4>1. staged
        BY <2>0, <3>1, <3>3 DEF Attempt, Go
      <4>2. Emit(OfTurn("turn.continued", turns), "streaming", "turnFailed") /\ staged' = FALSE
        BY <3>1, <3>3, <4>1 DEF Attempt
      <4>3. line = OfTurn("turn.continued", turns)
        BY <2>0, <4>2
      <4>4. line.kind = "turn.continued"
        BY <4>3 DEF OfTurn, Plain
      <4> QED
        BY <3>1, <4>1, <4>2, <4>4 DEF Reply
    <3> QED
      BY <3>2, <3>3
  <2>4. CASE pc = "flushed"
    <3>1. BeginEnding /\ ~Nudge(line)
      BY <2>1, <2>4, StagedPlaces
    <3>2. staged /\ ~staged'
      BY <2>0, <3>1 DEF BeginEnding, Go
    <3>3. line.kind = "unattempted"
      BY <2>0, <2>4 DEF Emits
    <3> QED
      BY <3>1, <3>2, <3>3 DEF Reply
  <2>5. CASE pc \notin {"continue", "requested", "flushed"}
    <3>1. staged' = staged /\ ~Nudge(line)
      BY <2>1, <2>5, StagedPlaces
    <3>2. ~Reply(line)
      BY <2>0, <2>5 DEF Emits, Reply
    <3>3. pc' \in Unstaged => pc \in Unstaged
      BY <2>0, <2>5 DEF Emits, Unstaged
    <3> QED
      BY <3>1, <3>2, <3>3
  <2> QED
    BY <2>2, <2>3, <2>4, <2>5
<1> QED
  BY <1>1, <1>2

LEMMA Numbers ==
  ASSUME TypeOK, Chained
  PROVE  /\ ThisRun \in Seq(Line)
         /\ Cardinality(NudgesIn(ThisRun)) \in Nat /\ Cardinality(RepliesIn(ThisRun)) \in Nat
<1>1. ThisRun \in Seq(Line)
  BY Cutting DEF TypeOK, Chained, ThisRun
<1>2. Plain("note") \in Line
  BY LineTyped DEF Kinds
<1> QED
  BY <1>1, <1>2, CountAppend

LEMMA ContinuedKeeps ==
  ASSUME TypeOK, Chained, Continued, [Next]_vars
  PROVE  Continued'
<1> DEFINE n == Cardinality(NudgesIn(ThisRun))
           r == Cardinality(RepliesIn(ThisRun))
<1>1. CASE RunAgain
  <2>1. /\ log' = log /\ base' = Len(log) /\ queue' = <<>> /\ staged' = FALSE
    BY <1>1 DEF RunAgain
  <2>2. ThisRun' \in Seq(Line) /\ Len(ThisRun') = 0
    <3>1. log \in Seq(Line) /\ Len(log) \in Nat
      BY DEF TypeOK
    <3>2. ThisRun' = SubSeq(log, Len(log) + 1, Len(log))
      BY <2>1 DEF ThisRun
    <3> QED
      BY <3>1, <3>2, Cutting
  <2>3. NudgesIn(ThisRun') = {} /\ RepliesIn(ThisRun') = {} /\ DOMAIN queue' = {}
    BY <2>1, <2>2 DEF NudgesIn, RepliesIn
  <2>4. NudgesIn(ThisRun)' = {} /\ RepliesIn(ThisRun)' = {} /\ ~Nudging' /\ ~Replying'
    BY <2>3 DEF Nudging, Replying
  <2> QED
    BY <2>1, <2>4, FS_EmptySet DEF Continued, Balance, One
<1> SUFFICES ASSUME ~RunAgain, "fail" \notin may', pc' # "dead"
             PROVE  /\ pc' \in Unstaged => ~staged'
                    /\ Balance'
  BY <1>1 DEF Continued
<1>2. may' = may /\ base' = base /\ base \in Nat /\ base <= Len(log) /\ log \in Seq(Line)
  BY ChainSteps DEF conversation, world, TypeOK, Chained
<1>3. /\ pc # "dead" => (pc \in Unstaged => ~staged) /\ Balance
      /\ staged \in BOOLEAN /\ n \in Nat /\ r \in Nat
  BY <1>2, Numbers DEF Continued, TypeOK
<1>4. CASE Turn \/ Ending
  <2>1. ~Awaiting /\ Moves
    BY <1>4, TurnMoves, EndingMoves
  <2>2. pc # "dead" /\ log' = log /\ ThisRun' = ThisRun
    BY <1>2, <2>1 DEF Moves, Went, Emitted, Goes, Emits, ThisRun
  <2>3. \A i \in DOMAIN queue : queue[i].line = Plain("note")
    BY <2>1 DEF Awaiting, Chained, Expected
  <2>4. ~Nudging /\ ~Replying
    BY <2>3 DEF Nudging, Replying, Nudge, Reply, Plain
  <2>5. CASE Went
    <3>1. (staged' <=> staged) /\ (pc' \in Unstaged => ~staged' \/ pc \in Unstaged)
      BY <1>4, <2>5, StagedLeads
    <3>2. ~Nudging' /\ ~Replying'
      BY <2>4, <2>5 DEF Went, Nudging, Replying
    <3> QED
      BY <1>3, <2>2, <2>4, <3>1, <3>2 DEF Balance, One
  <2>6. ASSUME NEW line, Emitted(line)
        PROVE  (pc' \in Unstaged => ~staged') /\ Balance'
    <3>1. /\ Nudge(line) => pc = "continue" /\ staged' /\ ~Reply(line)
          /\ Reply(line) => staged /\ ~staged'
          /\ ~Nudge(line) /\ ~Reply(line) => (staged' <=> staged)
          /\ pc' \in Unstaged => ~staged' \/ pc \in Unstaged
      BY <1>4, <2>6, StagedLeads
    <3> DEFINE e == [line |-> line, by |-> "loop"]
    <3>2. queue' = Append(queue, e) /\ e \in [line : Line, by : {"loop", "other"}] /\ e.line = line
      BY <2>6 DEF Emitted
    <3> HIDE DEF e
    <3>3. /\ DOMAIN queue' = 1..(Len(queue) + 1) /\ queue'[Len(queue) + 1] = e
          /\ Len(queue) \in Nat
          /\ \A i \in DOMAIN queue : queue'[i] = queue[i]
          /\ \A i \in DOMAIN queue' : i \in DOMAIN queue \/ i = Len(queue) + 1
      BY <3>2, QueueAppend
    <3>4. (Nudging' <=> Nudge(line)) /\ (Replying' <=> Reply(line))
      <4>1. Len(queue) + 1 \in DOMAIN queue'
        BY <3>3
      <4>2. Nudging' <=> Nudge(line)
        BY <2>4, <3>2, <3>3, <4>1 DEF Nudging
      <4>3. Replying' <=> Reply(line)
        BY <2>4, <3>2, <3>3, <4>1 DEF Replying
      <4> QED
        BY <4>2, <4>3
    <3>5. Nudge(line) => ~staged
      BY <1>3, <2>2, <3>1 DEF Unstaged
    <3>6. pc' \in Unstaged => ~staged'
      <4>1. pc \in Unstaged /\ Nudge(line) => pc' \notin Unstaged
        <5>1. SUFFICES ASSUME Nudge(line) PROVE pc' \notin Unstaged
          OBVIOUS
        <5>2. <<pc, "message.append", pc', onFail'>> \in Emits /\ pc = "continue"
          BY <2>6, <3>1, <5>1 DEF Emitted, Nudge
        <5> QED
          BY <5>2 DEF Emits, Unstaged
      <4> QED
        BY <1>3, <2>2, <3>1, <4>1
    <3>7. n + One(Nudging') = r + One(Replying') + One(staged')
      <4>1. n = r + One(staged)
        BY <1>3, <2>2, <2>4 DEF Balance, One
      <4>2. CASE Nudge(line)
        <5>1. One(Nudging') = 1 /\ One(Replying') = 0 /\ One(staged') = 1 /\ One(staged) = 0
          BY <3>1, <3>4, <3>5, <4>2 DEF One
        <5> QED
          BY <1>3, <4>1, <5>1
      <4>3. CASE Reply(line)
        <5>1. One(Nudging') = 0 /\ One(Replying') = 1 /\ One(staged') = 0 /\ One(staged) = 1
          BY <3>1, <3>4, <4>3 DEF One
        <5> QED
          BY <1>3, <4>1, <5>1
      <4>4. CASE ~Nudge(line) /\ ~Reply(line)
        <5>1. One(Nudging') = 0 /\ One(Replying') = 0 /\ One(staged') = One(staged)
          BY <3>1, <3>4, <4>4 DEF One
        <5> QED
          BY <1>3, <4>1, <5>1 DEF One
      <4> QED
        BY <4>2, <4>3, <4>4
    <3>8. Balance'
      BY <2>2, <3>7 DEF Balance
    <3> QED
      BY <3>6, <3>8
  <2> QED
    BY <2>1, <2>5, <2>6 DEF Moves
<1>5. CASE Write
  <2> DEFINE line == Head(queue).line
  <2>1. /\ queue # <<>> /\ queue' = Tail(queue) /\ pc' = pc /\ staged' = staged
        /\ log' = IF Unread(line) THEN log ELSE Append(log, line)
    BY <1>5 DEF Write, turn
  <2>2. /\ line \in Line
        /\ Head(queue).by = "loop" =>
             ~Awaiting' /\ \A i \in DOMAIN queue' : queue'[i].line = Plain("note")
        /\ Head(queue).by # "loop" => line = Plain("note")
        /\ \E j \in DOMAIN queue : Head(queue) = queue[j]
        /\ \A i \in DOMAIN queue' : \E j \in DOMAIN queue : queue'[i] = queue[j]
    BY <2>1, HeadOfChain
  <2>3. \A j \in DOMAIN queue : queue[j] = Head(queue) \/ \E i \in DOMAIN queue' : queue'[i] = queue[j]
    <3>1. /\ DOMAIN queue = 1..Len(queue) /\ Head(queue) = queue[1] /\ Len(queue) \in Nat
          /\ \A i \in 1..(Len(queue) - 1) : queue'[i] = queue[i + 1]
          /\ \A i \in DOMAIN queue : i # 1 => i - 1 \in DOMAIN queue'
          /\ DOMAIN queue' = 1..(Len(queue) - 1)
      BY <2>1, QueueTail
    <3>2. \A j \in DOMAIN queue : j # 1 => queue'[j - 1] = queue[(j - 1) + 1] /\ (j - 1) + 1 = j
      BY <3>1
    <3> QED
      BY <3>1, <3>2
  <2> HIDE DEF line
  <2>4. ~Nudge(Plain("note")) /\ ~Reply(Plain("note"))
    BY DEF Nudge, Reply, Plain
  <2>5. /\ Nudging <=> Nudge(line) \/ Nudging'
        /\ Replying <=> Reply(line) \/ Replying'
    BY <2>2, <2>3 DEF Nudging, Replying, line
  <2>6. /\ Nudge(line) => ~Nudging' /\ ~Reply(line)
        /\ Reply(line) => ~Replying'
    <3>1. Nudge(line) \/ Reply(line) => Head(queue).by = "loop"
      BY <2>2, <2>4
    <3>2. Head(queue).by = "loop" => ~Nudging' /\ ~Replying'
      BY <2>2, <2>4 DEF Nudging, Replying
    <3>3. Nudge(line) => ~Reply(line)
      BY DEF Nudge, Reply
    <3> QED
      BY <3>1, <3>2, <3>3
  <2>7. CASE Unread(line)
    <3>1. log' = log /\ ThisRun' = ThisRun
      BY <1>2, <2>1, <2>7 DEF ThisRun
    <3>2. ~Nudge(line) /\ ~Reply(line)
      BY <2>7 DEF Unread, Nudge, Reply
    <3>3. Balance' <=> Balance
      BY <2>1, <2>5, <3>1, <3>2 DEF Balance, One
    <3> QED
      BY <1>3, <2>1, <3>3
  <2>8. CASE ~Unread(line)
    <3>1. ThisRun' = Append(ThisRun, line) /\ ThisRun \in Seq(Line)
      BY <1>2, <2>1, <2>2, <2>8, ThisRunWritten
    <3>2. /\ Cardinality(NudgesIn(Append(ThisRun, line))) = n + One(Nudge(line))
          /\ Cardinality(RepliesIn(Append(ThisRun, line))) = r + One(Reply(line))
      BY <2>2, <3>1, CountAppend
    <3>3. /\ One(Nudging) = One(Nudge(line)) + One(Nudging')
          /\ One(Replying) = One(Reply(line)) + One(Replying')
      BY <2>5, <2>6 DEF One
    <3>4. n + One(Nudging) = r + One(Replying) + One(staged)
      BY <1>3, <2>1 DEF Balance
    <3>5. /\ One(Nudge(line)) \in Nat /\ One(Nudging') \in Nat /\ One(Reply(line)) \in Nat
          /\ One(Replying') \in Nat /\ One(staged) \in Nat
      BY DEF One
    <3>6. (n + One(Nudge(line))) + One(Nudging') = (r + One(Reply(line))) + One(Replying') + One(staged)
      <4> HIDE DEF n, r
      <4> QED
        BY <1>3, <3>3, <3>4, <3>5
    <3>7. Balance'
      BY <2>1, <3>1, <3>2, <3>6 DEF Balance
    <3> QED
      BY <1>3, <2>1, <3>7
  <2> QED
    BY <2>7, <2>8
<1>6. CASE ~(Turn \/ Ending) /\ ~Write
  <2>0. pc' = pc /\ log' = log /\ staged' = staged /\ ThisRun' = ThisRun
        /\ (Note \/ UNCHANGED queue)
    <3>1. Note \/ UNCHANGED <<log, queue, pc>>
      BY <1>2, <1>6, AsideSteps DEF Crash, WriteFails
    <3>2. staged' = staged
      BY <1>6, ChainSteps, TurnSteps DEF turn, Turn, Ending
    <3> QED
      BY <1>2, <3>1, <3>2 DEF Note, ThisRun
  <2>1. CASE UNCHANGED queue
    <3>1. Nudging' = Nudging /\ Replying' = Replying
      BY <2>1 DEF Nudging, Replying
    <3> QED
      BY <1>3, <2>0, <3>1 DEF Balance
  <2>2. CASE Note
    <3> DEFINE e == [line |-> Plain("note"), by |-> "other"]
    <3>1. e \in [line : Line, by : {"loop", "other"}] /\ queue' = Append(queue, e)
          /\ e.line = Plain("note")
      <4>1. "note" \in Kinds
        BY DEF Kinds
      <4> QED
        BY <2>2, <4>1, LineTyped DEF Note
    <3> HIDE DEF e
    <3>2. /\ DOMAIN queue' = 1..(Len(queue) + 1) /\ queue'[Len(queue) + 1] = e
          /\ DOMAIN queue = 1..Len(queue) /\ Len(queue) \in Nat
          /\ \A i \in DOMAIN queue : queue'[i] = queue[i]
          /\ \A i \in DOMAIN queue' : i \in DOMAIN queue \/ i = Len(queue) + 1
      BY <3>1, QueueAppend
    <3>3. ~Nudge(e.line) /\ ~Reply(e.line) /\ DOMAIN queue \subseteq DOMAIN queue'
      BY <3>1, <3>2 DEF Nudge, Reply, Plain
    <3>4. (Nudging' <=> Nudging) /\ (Replying' <=> Replying)
      BY <3>2, <3>3 DEF Nudging, Replying
    <3>5. One(Nudging') = One(Nudging) /\ One(Replying') = One(Replying)
      BY <3>4 DEF One
    <3> QED
      BY <1>3, <2>0, <3>5 DEF Balance
  <2> QED
    BY <2>0, <2>1, <2>2
<1> QED
  BY <1>4, <1>5, <1>6

ContinuedInv == ChainInv /\ Continued

LEMMA ContinuedNext == ContinuedInv /\ [Next]_vars => ContinuedInv'
BY ChainNext, ContinuedKeeps DEF ContinuedInv, ChainInv

(* A message that asks the model to go on is never left hanging: when the run  *)
(* is closed each has its attempt, or the word that none was made, whichever   *)
(* way the run ended.                                                          *)
THEOREM RunContinuationsAnswered == Spec => []ContinuationsAnswered
<1>1. Init => ContinuedInv
  <2> SUFFICES ASSUME Init PROVE Continued
    BY ChainInit DEF ContinuedInv
  <2>1. log = <<>> /\ queue = <<>> /\ base = 0 /\ staged = FALSE
    BY DEF Init
  <2>2. ThisRun = <<>>
    <3>1. <<>> \in Seq(Line) /\ Len(<<>>) = 0
      OBVIOUS
    <3>2. ThisRun \in Seq(Line) /\ Len(ThisRun) = 0
      BY <2>1, <3>1, Cutting DEF ThisRun
    <3> QED
      BY <3>2
  <2>3. NudgesIn(ThisRun) = {} /\ RepliesIn(ThisRun) = {} /\ DOMAIN queue = {}
    BY <2>1, <2>2 DEF NudgesIn, RepliesIn
  <2> QED
    BY <2>1, <2>3, FS_EmptySet DEF Continued, Balance, Nudging, Replying, One
<1>2. ContinuedInv => ContinuationsAnswered
  <2> SUFFICES ASSUME TypeOK, Chained, Continued, "fail" \notin may, pc = "closed"
               PROVE  ContinuationsAnswered
    BY DEF ContinuedInv, ChainInv, ContinuationsAnswered
  <2>1. ~staged /\ Balance
    BY DEF Continued, Unstaged
  <2>2. \A i \in DOMAIN queue : queue[i].line = Plain("note")
    <3>1. \A kind, fail : ~Awaited(kind, "closed", fail)
      BY DEF Awaited, Emits
    <3> QED
      BY <3>1 DEF Chained, Expected
  <2>3. ~Nudging /\ ~Replying
    BY <2>2 DEF Nudging, Replying, Nudge, Reply, Plain
  <2>4. Cardinality(NudgesIn(ThisRun)) = Cardinality(RepliesIn(ThisRun))
    BY <2>1, <2>3, Numbers DEF Balance, One
  <2> DEFINE said(kind) == {i \in DOMAIN ThisRun : ThisRun[i].kind = kind}
             nudges == {i \in said("message.append") : ThisRun[i].blocks = <<"user">>}
  <2>5. nudges = NudgesIn(ThisRun)
    BY DEF NudgesIn, Nudge
  <2>6. said("turn.continued") \cup said("unattempted") = RepliesIn(ThisRun)
    BY DEF RepliesIn, Reply
  <2> QED
    BY <2>4, <2>5, <2>6 DEF ContinuationsAnswered
<1> QED
  BY <1>1, <1>2, ContinuedNext, PTL DEF Spec
=============================================================================
