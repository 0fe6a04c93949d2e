------------------------- MODULE ConsolePage_proofs -------------------------
(***************************************************************************)
(* A page is whole: over any number of messages, sockets, polls and        *)
(* crashes, and with queues of any length, a page that has its snapshot    *)
(* shows what the server has once all that is under way has arrived.       *)
(*                                                                         *)
(* The argument follows an event from stage to stage -- scheduled, queued, *)
(* on the wire, kept back, shown -- none of which changes what the whole   *)
(* chain adds up to; and an event is in the server's state before any      *)
(* snapshot that it may follow, so to hear it again changes nothing.       *)
(*                                                                         *)
(* What a fold adds up to is proved over the length of a sequence, by the  *)
(* least number at which it would fail (Climb).                            *)
(*                                                                         *)
(* And the board of services, which a page draws from the ages of its      *)
(* rows, accuses nobody who works.                                         *)
(*                                                                         *)
(* Last the house: of any plan that is accepted, the robot's legs lie in   *)
(* its rooms, and a page draws the robot no further along than it is.      *)
(***************************************************************************)
EXTENDS ConsolePage, BoardMonitor, HouseView, SequenceTheorems, WellFoundedInduction, NaturalsInduction, TLAPS

-----------------------------------------------------------------------------
(* Folding events into a view, one after the other. *)

(* The least element of a set of numbers.                                  *)
LEMMA Least ==
  ASSUME NEW I, I \subseteq Nat, I # {}
  PROVE  \E i \in I : \A j \in I : i <= j
<1> DEFINE less == OpToRel(<, Nat)
<1>1. \E i \in I : \A j \in I : <<j, i>> \notin less
  BY NatLessThanWellFounded, WFMin
<1>2. \A i, j \in Nat : j < i => <<j, i>> \in less
  BY DEF OpToRel
<1> HIDE DEF less
<1>3. PICK i \in I : \A j \in I : <<j, i>> \notin less
  BY <1>1
<1>4. i \in Nat /\ \A j \in I : j \in Nat /\ ~(j < i)
  BY <1>2, <1>3
<1>5. \A j \in I : i <= j
  BY <1>4
<1> QED BY <1>5

(* Induction up to a bound, over a set in the place of a predicate.        *)
LEMMA Climb ==
  ASSUME NEW N \in Nat, NEW P, 0 \in P, \A n \in 0..N : n < N /\ n \in P => n + 1 \in P
  PROVE  \A n \in 0..N : n \in P
<1> DEFINE Bad == {n \in 0..N : n \notin P}
<1> SUFFICES ASSUME Bad # {} PROVE FALSE
  OBVIOUS
<1>1. Bad \subseteq Nat
  OBVIOUS
<1>2. PICK m \in Bad : \A j \in Bad : m <= j
  BY <1>1, Least
<1>3. m \in 0..N /\ m \notin P /\ m # 0
  OBVIOUS
<1>4. m - 1 \in 0..N /\ m - 1 < N /\ (m - 1) + 1 = m /\ ~(m <= m - 1)
  BY <1>3
<1>5. m - 1 \in P
  BY <1>2, <1>4
<1> QED BY <1>3, <1>4, <1>5

LEMMA MaxIs ==
  ASSUME NEW n \in Nat, NEW s \in SUBSET (1..n), n \in s
  PROVE  Max(s) = n
<1>1. \A y \in s : y \in 1..n /\ n >= y
  OBVIOUS
<1> DEFINE x == CHOOSE x \in s : \A y \in s : x >= y
<1>2. x \in s /\ \A y \in s : x >= y
  BY <1>1
<1>3. x \in 1..n /\ x >= n
  BY <1>1, <1>2
<1>4. x = n
  BY <1>3
<1> QED BY <1>4 DEF Max

(* What the fold of the community module goes through.                     *)
Iterates(base, events, n, f) ==
  f = [s \in SUBSET (1..n) |-> IF s = {} THEN base ELSE ApplyOne(f[s \ {Max(s)}], events[Max(s)])]

LEMMA Iteration ==
  ASSUME NEW base, NEW events, NEW N \in Nat
  PROVE  \E f : Iterates(base, events, N, f)
<1> DEFINE P == {n \in Nat : \E f : Iterates(base, events, n, f)}
<1>1. 0 \in P
  <2> DEFINE f == [s \in SUBSET (1..0) |-> base]
  <2>1. f = [s \in SUBSET (1..0) |-> IF s = {} THEN base ELSE ApplyOne(f[s \ {Max(s)}], events[Max(s)])]
    OBVIOUS
  <2>2. Iterates(base, events, 0, f)
    BY <2>1 DEF Iterates
  <2> QED BY <2>2
<1>2. ASSUME NEW n \in Nat, n \in P
      PROVE  n + 1 \in P
  <2>1. PICK g : Iterates(base, events, n, g)
    BY <1>2
  <2>2. g = [s \in SUBSET (1..n) |-> IF s = {} THEN base ELSE ApplyOne(g[s \ {Max(s)}], events[Max(s)])]
    BY <2>1 DEF Iterates
  <2> DEFINE m == n + 1
             f == [s \in SUBSET (1..m) |-> IF m \in s THEN ApplyOne(g[s \ {m}], events[m]) ELSE g[s]]
             h == [s \in SUBSET (1..m) |-> IF s = {} THEN base ELSE ApplyOne(f[s \ {Max(s)}], events[Max(s)])]
  <2>3. ASSUME NEW s \in SUBSET (1..m)
        PROVE  f[s] = IF s = {} THEN base ELSE ApplyOne(f[s \ {Max(s)}], events[Max(s)])
    <3>1. CASE m \in s
      <4>1. Max(s) = m
        BY <3>1, MaxIs
      <4>2. s \ {m} \in SUBSET (1..m) /\ m \notin s \ {m} /\ s # {}
        BY <3>1
      <4>3. f[s \ {m}] = g[s \ {m}]
        BY <4>2
      <4> QED BY <3>1, <4>1, <4>2, <4>3
    <3>2. CASE m \notin s
      <4>1. s \in SUBSET (1..n)
        BY <3>2
      <4>2. f[s] = g[s]
        BY <3>2
      <4>3. s \ {Max(s)} \in SUBSET (1..m) /\ m \notin s \ {Max(s)}
        BY <3>2
      <4>4. f[s \ {Max(s)}] = g[s \ {Max(s)}]
        BY <4>3
      <4> QED BY <2>2, <4>1, <4>2, <4>4
    <3> QED BY <3>1, <3>2
  <2>4. f = h
    <3> HIDE DEF m
    <3>1. DOMAIN f = SUBSET (1..m) /\ DOMAIN h = SUBSET (1..m)
      OBVIOUS
    <3> QED BY <2>3, Zenon
  <2>5. Iterates(base, events, m, f)
    BY <2>4 DEF Iterates
  <2> QED BY <2>5
<1> HIDE DEF P
<1>3. \A n \in 0..N : n < N /\ n \in P => n + 1 \in P
  BY <1>2
<1>4. N \in P
  BY <1>1, <1>3, Climb
<1> QED BY <1>4 DEF P

(* The views on the way: the first is the one begun with, the last is      *)
(* what is shown.                                                          *)
Stages(base, events, a) ==
  /\ DOMAIN a = 0..Len(events)
  /\ a[0] = base
  /\ \A n \in 0..Len(events) : n # 0 => a[n] = ApplyOne(a[n - 1], events[n])

LEMMA ShownWays ==
  ASSUME NEW base, NEW S, NEW events \in Seq(S)
  PROVE  \E a : Stages(base, events, a) /\ Shown(base, events) = a[Len(events)]
<1> DEFINE N == Len(events)
           f == CHOOSE f : f = [s \in SUBSET DOMAIN events |->
                                  IF s = {} THEN base ELSE ApplyOne(f[s \ {Max(s)}], events[Max(s)])]
<1>1. N \in Nat /\ DOMAIN events = 1..N
  BY LenProperties
<1>2. Shown(base, events) = f[DOMAIN events]
  BY DEF Shown, FoldLeft, MapThenFoldSet
<1>3. f = [s \in SUBSET DOMAIN events |-> IF s = {} THEN base ELSE ApplyOne(f[s \ {Max(s)}], events[Max(s)])]
  <2>1. PICK g : Iterates(base, events, N, g)
    BY <1>1, Iteration
  <2>2. g = [s \in SUBSET DOMAIN events |-> IF s = {} THEN base ELSE ApplyOne(g[s \ {Max(s)}], events[Max(s)])]
    BY <1>1, <2>1 DEF Iterates
  <2> QED BY <2>2, Zenon
<1> HIDE DEF f, N
<1>4. \A s \in SUBSET (1..N) : f[s] = IF s = {} THEN base ELSE ApplyOne(f[s \ {Max(s)}], events[Max(s)])
  BY <1>1, <1>3, Zenon
<1> DEFINE a == [n \in 0..N |-> f[1..n]]
<1>5. ASSUME NEW n \in 0..N, n # 0
      PROVE  a[n] = ApplyOne(a[n - 1], events[n])
  <2>0. n \in Nat /\ 1 <= n /\ n <= N /\ n - 1 \in 0..N
    BY <1>1, <1>5
  <2>1. 1..n \in SUBSET (1..N) /\ 1..n # {} /\ n \in 1..n /\ n \in Nat /\ n - 1 \in 0..N
    <3>1. \A i \in 1..n : i \in 1..N
      BY <1>1, <2>0
    <3>2. n \in 1..n
      BY <2>0
    <3> QED BY <2>0, <3>1, <3>2
  <2>2. Max(1..n) = n
    BY <2>1, MaxIs
  <2>3. (1..n) \ {n} = 1..(n - 1)
    BY <2>1
  <2>4. f[1..n] = ApplyOne(f[1..(n - 1)], events[n])
    BY <1>4, <2>1, <2>2, <2>3
  <2> QED BY <2>1, <2>4
<1>6. a[0] = base
  <2>1. 1..0 = {} /\ {} \in SUBSET (1..N) /\ 0 \in 0..N
    BY <1>1
  <2> QED BY <1>4, <2>1
<1>7. Stages(base, events, a)
  BY <1>5, <1>6 DEF Stages, N
<1>8. Shown(base, events) = a[N]
  BY <1>1, <1>2
<1> QED BY <1>7, <1>8 DEF N

LEMMA ShownEmpty == \A base : Shown(base, <<>>) = base
<1> TAKE base
<1>1. <<>> \in Seq(Nat) /\ Len(<<>>) = 0
  BY EmptySeq
<1>2. PICK a : Stages(base, <<>>, a) /\ Shown(base, <<>>) = a[Len(<<>>)]
  BY <1>1, ShownWays
<1> QED BY <1>1, <1>2 DEF Stages

(* First some events, then the others.                                     *)
LEMMA ShownConcat ==
  ASSUME NEW base, NEW S, NEW s \in Seq(S), NEW t \in Seq(S)
  PROVE  Shown(base, s \o t) = Shown(Shown(base, s), t)
<1> DEFINE st == s \o t
           M == Len(s)
           N == Len(t)
<1>1. /\ st \in Seq(S) /\ Len(st) = M + N /\ M \in Nat /\ N \in Nat
      /\ \A i \in 1..M : st[i] = s[i]
      /\ \A i \in 1..N : st[M + i] = t[i]
  <2>1. st \in Seq(S) /\ Len(st) = M + N /\ M \in Nat /\ N \in Nat
    BY ConcatProperties, LenProperties
  <2>2. \A i \in 1..M + N : st[i] = IF i <= M THEN s[i] ELSE t[i - M]
    BY ConcatProperties
  <2> HIDE DEF st, M, N
  <2>3. \A i \in 1..M : i \in 1..M + N /\ i <= M
    BY <2>1
  <2>4. \A i \in 1..N : M + i \in 1..M + N /\ ~(M + i <= M) /\ (M + i) - M = i
    BY <2>1
  <2> QED BY <2>1, <2>2, <2>3, <2>4
<1>2. PICK a : Stages(base, s, a) /\ Shown(base, s) = a[M]
  BY ShownWays
<1>3. PICK b : Stages(Shown(base, s), t, b) /\ Shown(Shown(base, s), t) = b[N]
  BY ShownWays
<1>4. PICK c : Stages(base, st, c) /\ Shown(base, st) = c[Len(st)]
  BY <1>1, ShownWays
<1>5. /\ a[0] = base /\ \A n \in 0..M : n # 0 => a[n] = ApplyOne(a[n - 1], s[n])
      /\ b[0] = Shown(base, s) /\ \A n \in 0..N : n # 0 => b[n] = ApplyOne(b[n - 1], t[n])
      /\ c[0] = base /\ \A n \in 0..M + N : n # 0 => c[n] = ApplyOne(c[n - 1], st[n])
  BY <1>1, <1>2, <1>3, <1>4 DEF Stages
<1> HIDE DEF st, M, N
<1>6. c[M] = a[M]
  <2> DEFINE P == {n \in 0..M : c[n] = a[n]}
  <2>1. 0 \in P
    BY <1>1, <1>5
  <2>2. ASSUME NEW n \in 0..M, n < M, n \in P
        PROVE  n + 1 \in P
    <3>0. M \in Nat /\ N \in Nat /\ n < M
      BY <1>1, <2>2
    <3> HIDE DEF P
    <3>1. n + 1 \in 0..M /\ n + 1 \in 0..M + N /\ n + 1 # 0 /\ (n + 1) - 1 = n /\ n + 1 \in 1..M
      BY <3>0
    <3> USE DEF P
    <3>2. c[n + 1] = ApplyOne(c[n], st[n + 1]) /\ a[n + 1] = ApplyOne(a[n], s[n + 1])
      BY <1>5, <3>1
    <3> QED BY <1>1, <2>2, <3>1, <3>2
  <2> HIDE DEF P
  <2>3. \A n \in 0..M : n < M /\ n \in P => n + 1 \in P
    BY <2>2
  <2>4. \A n \in 0..M : n \in P
    BY <1>1, <2>1, <2>3, Climb
  <2>5. M \in 0..M
    BY <1>1
  <2> QED BY <2>4, <2>5 DEF P
<1>7. c[M + N] = b[N]
  <2> DEFINE P == {n \in 0..N : c[M + n] = b[n]}
  <2>1. 0 \in P
    BY <1>1, <1>2, <1>5, <1>6
  <2>2. ASSUME NEW n \in 0..N, n < N, n \in P
        PROVE  n + 1 \in P
    <3>0. M \in Nat /\ N \in Nat /\ n < N
      BY <1>1, <2>2
    <3> HIDE DEF P
    <3>1. n + 1 \in 0..N /\ n + 1 # 0 /\ (n + 1) - 1 = n /\ n + 1 \in 1..N
      BY <3>0
    <3>2. M + (n + 1) \in 0..M + N /\ M + (n + 1) # 0 /\ (M + (n + 1)) - 1 = M + n
      BY <3>0
    <3> USE DEF P
    <3>3. c[M + (n + 1)] = ApplyOne(c[M + n], st[M + (n + 1)])
      BY <1>5, <3>2
    <3>4. b[n + 1] = ApplyOne(b[n], t[n + 1]) /\ st[M + (n + 1)] = t[n + 1]
      BY <1>1, <1>5, <3>1
    <3> QED BY <2>2, <3>1, <3>3, <3>4
  <2> HIDE DEF P
  <2>3. \A n \in 0..N : n < N /\ n \in P => n + 1 \in P
    BY <2>2
  <2>4. \A n \in 0..N : n \in P
    BY <1>1, <2>1, <2>3, Climb
  <2>5. N \in 0..N
    BY <1>1
  <2> QED BY <2>4, <2>5 DEF P
<1> QED BY <1>1, <1>3, <1>4, <1>7 DEF st

LEMMA ShownOne ==
  ASSUME NEW base, NEW e
  PROVE  Shown(base, <<e>>) = ApplyOne(base, e)
<1>1. <<e>> \in Seq({e}) /\ Len(<<e>>) = 1 /\ <<e>>[1] = e
  OBVIOUS
<1>2. PICK a : Stages(base, <<e>>, a) /\ Shown(base, <<e>>) = a[1]
  BY <1>1, ShownWays
<1>3. 1 \in 0..Len(<<e>>) /\ 1 # 0 /\ 1 - 1 = 0
  BY <1>1
<1>4. a[1] = ApplyOne(a[1 - 1], <<e>>[1]) /\ a[0] = base
  BY <1>2, <1>3 DEF Stages
<1> QED BY <1>1, <1>2, <1>3, <1>4

LEMMA ShownAppend ==
  ASSUME NEW base, NEW S, NEW s \in Seq(S), NEW e \in S
  PROVE  Shown(base, Append(s, e)) = ApplyOne(Shown(base, s), e)
<1> DEFINE one == <<e>>
<1>1. one \in Seq(S) /\ Append(s, e) = s \o one
  BY AppendIsConcat
<1>2. Shown(Shown(base, s), one) = ApplyOne(Shown(base, s), e)
  BY ShownOne
<1> HIDE DEF one
<1>3. Shown(base, s \o one) = Shown(Shown(base, s), one)
  BY <1>1, ShownConcat
<1> QED BY <1>1, <1>2, <1>3

(* What is at the head of one stage is shown as it passes to the next.     *)
LEMMA ShownHanded ==
  ASSUME NEW base, NEW S, NEW s \in Seq(S), NEW t \in Seq(S), t # <<>>
  PROVE  Shown(Shown(base, Append(s, Head(t))), Tail(t)) = Shown(Shown(base, s), t)
<1> DEFINE one == <<Head(t)>>
           x == Shown(base, s)
<1>1. Head(t) \in S /\ Tail(t) \in Seq(S) /\ one \in Seq(S)
  BY HeadTailProperties
<1>2. t = one \o Tail(t)
  <2> DEFINE u == <<Head(t)>> \o Tail(t)
  <2>1. /\ u \in Seq(S) /\ Len(u) = 1 + Len(Tail(t)) /\ Len(<<Head(t)>>) = 1 /\ <<Head(t)>>[1] = Head(t)
        /\ \A i \in 1..1 + Len(Tail(t)) : u[i] = IF i <= 1 THEN <<Head(t)>>[i] ELSE Tail(t)[i - 1]
    BY <1>1, ConcatProperties
  <2>2. /\ Len(t) \in Nat /\ DOMAIN t = 1..Len(t) /\ Len(Tail(t)) = Len(t) - 1 /\ Head(t) = t[1]
        /\ \A i \in 1..Len(t) - 1 : Tail(t)[i] = t[i + 1]
    BY HeadTailProperties, LenProperties
  <2> HIDE DEF u
  <2>3. Len(u) = Len(t)
    BY <2>1, <2>2
  <2>4. ASSUME NEW i \in 1..Len(t)
        PROVE  u[i] = t[i]
    <3>1. CASE i = 1
      BY <2>1, <2>2, <3>1
    <3>2. CASE i # 1
      <4>1. i - 1 \in 1..Len(t) - 1 /\ (i - 1) + 1 = i /\ ~(i <= 1) /\ i \in 1..1 + Len(Tail(t))
        BY <2>2, <3>2
      <4> QED BY <2>1, <2>2, <4>1
    <3> QED BY <3>1, <3>2
  <2>5. u = t
    BY <2>1, <2>3, <2>4, SeqEqual
  <2> QED BY <2>5 DEF u
<1>3. Shown(x, one) = ApplyOne(x, Head(t))
  BY ShownOne
<1>4. Shown(base, Append(s, Head(t))) = ApplyOne(x, Head(t))
  BY <1>1, ShownAppend
<1> DEFINE rest == Tail(t)
<1>5. one \in Seq(S) /\ rest \in Seq(S) /\ t = one \o rest
  BY <1>1, <1>2
<1> HIDE DEF one, x, rest
<1>6. Shown(x, one \o rest) = Shown(Shown(x, one), rest)
  BY <1>5, ShownConcat
<1> QED BY <1>3, <1>4, <1>5, <1>6 DEF x, rest

-----------------------------------------------------------------------------
(* Views and their content. *)

(* A view whose conversation shows every turn once.                        *)
Whole == {base \in View : IsInjective(base.log)}

LEMMA Ranges == MaxEvents \in Nat /\ MaxFaults \in Nat /\ QueueCap \in Nat \ {0} /\ WireCap \in Nat \ {0}
BY PageAssumption

LEMMA Appended ==
  ASSUME NEW S, NEW list \in Seq(S), NEW x \in S
  PROVE  /\ Append(list, x) \in Seq(S)
         /\ DOMAIN Append(list, x) = 1..Len(list) + 1 /\ DOMAIN list = 1..Len(list) /\ Len(list) \in Nat
         /\ Len(Append(list, x)) = Len(list) + 1
         /\ \A i \in 1..Len(list) : Append(list, x)[i] = list[i]
         /\ Append(list, x)[Len(list) + 1] = x
         /\ ToSet(Append(list, x)) = ToSet(list) \cup {x}
<1>1. Len(list) \in Nat /\ DOMAIN list = 1..Len(list)
  BY LenProperties
<1>2. /\ Append(list, x) \in Seq(S) /\ Len(Append(list, x)) = Len(list) + 1
      /\ \A i \in 1..Len(list) : Append(list, x)[i] = list[i]
      /\ Append(list, x)[Len(list) + 1] = x
  BY AppendProperties
<1>3. DOMAIN Append(list, x) = 1..Len(list) + 1
  BY <1>2, LenProperties
<1> DEFINE more == Append(list, x)
<1> HIDE DEF more
<1>4. \A i \in 1..Len(list) + 1 : i \in 1..Len(list) \/ i = Len(list) + 1
  BY <1>1
<1>5. Len(list) + 1 \in 1..Len(list) + 1 /\ \A i \in 1..Len(list) : i \in 1..Len(list) + 1
  BY <1>1
<1>6. ToSet(more) = ToSet(list) \cup {x}
  BY <1>1, <1>2, <1>3, <1>4, <1>5 DEF ToSet, more
<1> QED BY <1>1, <1>2, <1>3, <1>6 DEF more

(* What one event does, by its kind.                                       *)
LEMMA Applied ==
  ASSUME NEW base \in View, NEW e \in Event
  PROVE  /\ e.n \in 1..MaxEvents
         /\ ApplyOne(base, e) \in View
         /\ e.kind = "row" =>
              /\ ApplyOne(base, e).row = e.n /\ ApplyOne(base, e).log = base.log
              /\ ApplyOne(base, e).points = base.points
         /\ e.kind = "log" =>
              /\ ApplyOne(base, e).row = base.row /\ ApplyOne(base, e).points = base.points
              /\ ApplyOne(base, e).log = IF Contains(base.log, e.n) THEN base.log ELSE Append(base.log, e.n)
         /\ e.kind = "point" =>
              /\ ApplyOne(base, e).row = base.row /\ ApplyOne(base, e).log = base.log
              /\ ApplyOne(base, e).points = Append(base.points, e.n)
         /\ e.kind \in Kind
<1>1. e.n \in 1..MaxEvents /\ e.kind \in Kind
  BY DEF Event
<1>2. e.n \in 0..MaxEvents /\ base.row \in 0..MaxEvents /\ base.log \in Seq(1..MaxEvents)
      /\ base.points \in Seq(1..MaxEvents)
  BY <1>1, Ranges DEF View
<1>3. Append(base.log, e.n) \in Seq(1..MaxEvents) /\ Append(base.points, e.n) \in Seq(1..MaxEvents)
  BY <1>1, <1>2, Appended
<1>4. CASE e.kind = "row"
  <2>1. ApplyOne(base, e) = [base EXCEPT !.row = e.n]
    BY <1>4 DEF ApplyOne
  <2> QED BY <1>1, <1>2, <1>4, <2>1 DEF View
<1>5. CASE e.kind = "log"
  <2>1. ApplyOne(base, e) = IF Contains(base.log, e.n) THEN base ELSE [base EXCEPT !.log = Append(base.log, e.n)]
    BY <1>5 DEF ApplyOne
  <2> QED BY <1>1, <1>2, <1>3, <1>5, <2>1 DEF View
<1>6. CASE e.kind = "point"
  <2>1. ApplyOne(base, e) = [base EXCEPT !.points = Append(base.points, e.n)]
    BY <1>6 DEF ApplyOne
  <2> QED BY <1>1, <1>2, <1>3, <1>6, <2>1 DEF View
<1> QED BY <1>1, <1>4, <1>5, <1>6 DEF Kind

LEMMA ApplyKeepsWhole ==
  ASSUME NEW base \in Whole, NEW e \in Event
  PROVE  ApplyOne(base, e) \in Whole
<1>1. base \in View /\ IsInjective(base.log) /\ base.log \in Seq(1..MaxEvents)
  BY DEF Whole, View
<1>2. ApplyOne(base, e) \in View
  BY <1>1, Applied
<1>3. CASE ApplyOne(base, e).log = base.log
  BY <1>1, <1>2, <1>3 DEF Whole
<1>4. CASE ~Contains(base.log, e.n) /\ ApplyOne(base, e).log = Append(base.log, e.n)
  <2> DEFINE list == base.log
             more == Append(list, e.n)
  <2>1. /\ DOMAIN more = 1..Len(list) + 1 /\ DOMAIN list = 1..Len(list) /\ Len(list) \in Nat
        /\ \A i \in 1..Len(list) : more[i] = list[i]
        /\ more[Len(list) + 1] = e.n
    BY <1>1, Applied, Appended
  <2>2. \A i \in 1..Len(list) : list[i] # e.n
    BY <1>4 DEF Contains
  <2>3. \A i, j \in 1..Len(list) : list[i] = list[j] => i = j
    BY <1>1, <2>1 DEF IsInjective
  <2> HIDE DEF list, more
  <2>4. \A i \in 1..Len(list) + 1 : i \in 1..Len(list) \/ i = Len(list) + 1
    BY <2>1
  <2>5. IsInjective(more)
    BY <2>1, <2>2, <2>3, <2>4 DEF IsInjective
  <2> QED BY <1>2, <1>4, <2>5 DEF Whole, more, list
<1> QED BY <1>1, <1>3, <1>4, Applied DEF Kind

LEMMA ApplyKeepsContent ==
  ASSUME NEW v \in View, NEW b \in View, SameContent(v, b), NEW e \in Event
  PROVE  SameContent(ApplyOne(v, e), ApplyOne(b, e))
<1>1. v.row = b.row /\ v.log = b.log /\ ToSet(v.points) = ToSet(b.points)
  BY DEF SameContent
<1>2. v.points \in Seq(1..MaxEvents) /\ b.points \in Seq(1..MaxEvents) /\ e.n \in 1..MaxEvents /\ e.kind \in Kind
  BY Applied DEF View
<1> DEFINE S == 1..MaxEvents
<1>2a. v.points \in Seq(S) /\ b.points \in Seq(S) /\ e.n \in S
  BY <1>2
<1> HIDE DEF S
<1>3. /\ ToSet(Append(v.points, e.n)) = ToSet(v.points) \cup {e.n}
      /\ ToSet(Append(b.points, e.n)) = ToSet(b.points) \cup {e.n}
  <2>1. ToSet(Append(v.points, e.n)) = ToSet(v.points) \cup {e.n}
    BY <1>2a, Appended
  <2>2. ToSet(Append(b.points, e.n)) = ToSet(b.points) \cup {e.n}
    BY <1>2a, Appended
  <2> QED BY <2>1, <2>2
<1>4. CASE e.kind = "row"
  BY <1>1, <1>4, Applied DEF SameContent
<1>5. CASE e.kind = "log"
  BY <1>1, <1>5, Applied DEF SameContent
<1>6. CASE e.kind = "point"
  <2>1. ApplyOne(v, e).points = Append(v.points, e.n) /\ ApplyOne(b, e).points = Append(b.points, e.n)
    BY <1>6, Applied
  <2>2. ToSet(ApplyOne(v, e).points) = ToSet(ApplyOne(b, e).points)
    BY <1>1, <1>3, <2>1
  <2> QED BY <1>1, <1>6, <2>2, Applied DEF SameContent
<1> QED BY <1>2, <1>4, <1>5, <1>6 DEF Kind

LEMMA ShownIsWhole ==
  ASSUME NEW base \in Whole, NEW events \in Seq(Event)
  PROVE  Shown(base, events) \in Whole
<1> DEFINE N == Len(events)
<1>1. N \in Nat /\ \A i \in 1..N : events[i] \in Event
  BY LenProperties
<1>2. PICK a : Stages(base, events, a) /\ Shown(base, events) = a[N]
  BY ShownWays
<1>3. a[0] = base /\ \A n \in 0..N : n # 0 => a[n] = ApplyOne(a[n - 1], events[n])
  BY <1>2 DEF Stages
<1> HIDE DEF N
<1> DEFINE P == {n \in 0..N : a[n] \in Whole}
<1>4. 0 \in P
  BY <1>1, <1>3
<1>5. ASSUME NEW n \in 0..N, n < N, n \in P
      PROVE  n + 1 \in P
  <2>1. n + 1 \in 0..N /\ n + 1 # 0 /\ (n + 1) - 1 = n /\ n + 1 \in 1..N
    BY <1>1, <1>5
  <2>2. a[n + 1] = ApplyOne(a[n], events[n + 1])
    BY <1>3, <2>1
  <2>3. a[n] \in Whole /\ events[n + 1] \in Event
    BY <1>1, <1>5, <2>1
  <2>4. a[n + 1] \in Whole
    BY <2>2, <2>3, ApplyKeepsWhole
  <2> QED BY <2>1, <2>4
<1>6. \A n \in 0..N : n < N /\ n \in P => n + 1 \in P
  BY <1>5
<1> HIDE DEF P
<1>7. \A n \in 0..N : n \in P
  BY <1>1, <1>4, <1>6, Climb
<1>8. N \in P
  BY <1>1, <1>7
<1> QED BY <1>2, <1>8 DEF P

-----------------------------------------------------------------------------
(* What is scheduled is in the state already: a snapshot taken before it is *)
(* fanned out is not spoilt by it.                                          *)

Echoes(b, events) ==
  \A i \in 1..Len(events) :
    /\ events[i].kind = "log" => Contains(b.log, events[i].n)
    /\ events[i].kind = "point" => events[i].n \in ToSet(b.points)
    /\ events[i].kind = "row" => \/ events[i].n = b.row
                                \/ \E j \in 1..Len(events) : j > i /\ events[j].kind = "row"

LEMMA EchoChangesNothing ==
  ASSUME NEW b \in Whole, NEW events \in Seq(Event), Echoes(b, events)
  PROVE  SameContent(Shown(b, events), b)
<1> DEFINE N == Len(events)
           S == 1..MaxEvents
<1>1. N \in Nat /\ \A i \in 1..N : events[i] \in Event
  BY LenProperties
<1>2. PICK a : Stages(b, events, a) /\ Shown(b, events) = a[N]
  BY ShownWays
<1>3. a[0] = b /\ \A n \in 0..N : n # 0 => a[n] = ApplyOne(a[n - 1], events[n])
  BY <1>2 DEF Stages
<1>4. \A i \in 1..N :
        /\ events[i].kind = "log" => Contains(b.log, events[i].n)
        /\ events[i].kind = "point" => events[i].n \in ToSet(b.points)
        /\ events[i].kind = "row" => events[i].n = b.row \/ \E j \in 1..N : j > i /\ events[j].kind = "row"
  BY DEF Echoes
<1>5. b \in View
  BY DEF Whole
<1> HIDE DEF N
<1> DEFINE Late(n) == \E j \in 1..N : j > n /\ events[j].kind = "row"
           Alike(n) == /\ a[n] \in View /\ a[n].log = b.log /\ ToSet(a[n].points) = ToSet(b.points)
                       /\ a[n].row = b.row \/ Late(n)
           P == {n \in 0..N : Alike(n)}
<1>6. 0 \in P
  BY <1>1, <1>3, <1>5
<1>7. ASSUME NEW n \in 0..N, n < N, n \in P
      PROVE  n + 1 \in P
  <2>0. /\ a[n] \in View /\ a[n].log = b.log /\ ToSet(a[n].points) = ToSet(b.points)
        /\ a[n].row = b.row \/ \E j \in 1..N : j > n /\ events[j].kind = "row"
    BY <1>7
  <2> DEFINE m == n + 1
             e == events[m]
             u == a[n]
             w == a[m]
  <2>1. m \in 0..N /\ m # 0 /\ m - 1 = n /\ m \in 1..N
    BY <1>1, <1>7
  <2>2. w = ApplyOne(u, e) /\ e \in Event
    BY <1>1, <1>3, <2>1
  <2>3. /\ u \in View /\ u.log = b.log /\ ToSet(u.points) = ToSet(b.points)
        /\ u.row = b.row \/ \E j \in 1..N : j > n /\ events[j].kind = "row"
    BY <2>0
  <2>4. u.points \in Seq(S)
    BY <2>3 DEF View
  <2>5. /\ e.kind = "log" => Contains(b.log, e.n)
        /\ e.kind = "point" => e.n \in ToSet(b.points)
        /\ e.kind = "row" => e.n = b.row \/ \E j \in 1..N : j > m /\ events[j].kind = "row"
    BY <1>4, <2>1
  <2>6. e.kind # "row" => u.row = b.row \/ \E j \in 1..N : j > m /\ events[j].kind = "row"
    BY <1>1, <2>1, <2>3
  <2> HIDE DEF m, e, u, w
  <2>7. w \in View
    BY <2>2, <2>3, Applied
  <2>8. e.kind \in Kind
    BY <2>2 DEF Event
  <2>9. /\ w \in View /\ w.log = b.log /\ ToSet(w.points) = ToSet(b.points)
        /\ w.row = b.row \/ \E j \in 1..N : j > m /\ events[j].kind = "row"
    <3>1. CASE e.kind = "row"
      <4>1. w.row = e.n /\ w.log = u.log /\ w.points = u.points
        BY <2>2, <2>3, <3>1, Applied
      <4> QED BY <2>3, <2>5, <2>7, <3>1, <4>1
    <3>2. CASE e.kind = "log"
      <4>1. w.row = u.row /\ w.points = u.points /\ w.log = u.log
        BY <2>2, <2>3, <2>5, <3>2, Applied
      <4> QED BY <2>3, <2>6, <2>7, <3>2, <4>1
    <3>3. CASE e.kind = "point"
      <4>1. w.points = Append(u.points, e.n) /\ w.row = u.row /\ w.log = u.log /\ e.n \in S
        BY <2>2, <2>3, <3>3, Applied
      <4> HIDE DEF S
      <4>2. ToSet(w.points) = ToSet(u.points) \cup {e.n}
        BY <2>4, <4>1, Appended
      <4>3. e.n \in ToSet(b.points)
        BY <2>5, <3>3
      <4>4. ToSet(w.points) = ToSet(b.points)
        BY <2>3, <4>2, <4>3
      <4> QED BY <2>3, <2>6, <2>7, <3>3, <4>1, <4>4
    <3> QED BY <2>8, <3>1, <3>2, <3>3 DEF Kind
  <2> QED BY <2>1, <2>9 DEF m, w
<1>8. \A n \in 0..N : n < N /\ n \in P => n + 1 \in P
  BY <1>7
<1> HIDE DEF P
<1>9. \A n \in 0..N : n \in P
  BY <1>1, <1>6, <1>8, Climb
<1>10. N \in P
  BY <1>1, <1>9
<1>11. \A j \in 1..N : ~(j > N)
  BY <1>1
<1> QED BY <1>2, <1>10, <1>11 DEF P, SameContent

-----------------------------------------------------------------------------
(* The invariant, in five parts. *)

Message == Event \cup [kind : {"snapshot"}, view : View]

ServerInv ==
  /\ up \in BOOLEAN /\ board \in Whole
  /\ seq \in Nat /\ folds \in Nat /\ seq + folds <= MaxEvents
  /\ faults \in 0..MaxFaults
  /\ scheduled \in Seq(Event) /\ Echoes(board, scheduled)

PollInv ==
  /\ poll \in [Polls -> PollState]
  /\ \A p \in Polls : poll[p].at = "answered" => poll[p].view \in Whole

(* The socket and what is on it: before its snapshot has been shown, the   *)
(* snapshot is the head of the wire, and nothing else is one.              *)
SocketInv ==
  /\ sock \in {"closed", "connecting", "accepted", "open"}
  /\ queue = None <=> sock \in {"closed", "connecting"}
  /\ queue # None => queue \in Seq(Event) /\ Len(queue) <= QueueCap
  /\ wire \in Seq(Message) /\ Len(wire) <= WireCap
  /\ seeded \in BOOLEAN /\ spoilt \subseteq {"dropped", "unsaid", "overwritten"}
  /\ seeded => sock = "open" /\ wire \in Seq(Event)
  /\ ~seeded /\ queue # None => /\ wire # <<>> /\ Head(wire).kind = "snapshot" /\ Head(wire).view \in Whole
                               /\ Tail(wire) \in Seq(Event)

LinkInv ==
  /\ link \in {"connecting", "live", "polling", "offline"} /\ polling \in BOOLEAN /\ retry \in BOOLEAN
  /\ NeverStranded
  /\ retry => sock = "closed"

StoreInv ==
  /\ store \in Whole \cup {None} /\ pending \in Seq(Event) /\ flushing \in BOOLEAN
  /\ seeded => store # None

(* What a page with its snapshot shows, or will show once it has it, when  *)
(* all that is under way has arrived.                                      *)
Base == IF seeded THEN Shown(store, pending) ELSE Head(wire).view
Rest == IF seeded THEN wire ELSE Tail(wire)
Fed == up /\ queue # None /\ spoilt = {} => SameContent(Shown(Shown(Shown(Base, Rest), queue), scheduled), board)

PageInv == ServerInv /\ PollInv /\ SocketInv /\ LinkInv /\ StoreInv /\ Fed

LEMMA NoneIsNothing == None \notin View /\ None \notin Whole /\ None \notin Seq(Event)
BY NoneAssumption DEF Whole

(* What is under way, and the views it leads to.                           *)
LEMMA UnderWayIsWhole ==
  ASSUME ServerInv, SocketInv, StoreInv, queue # None
  PROVE  /\ Base \in Whole /\ Rest \in Seq(Event) /\ queue \in Seq(Event) /\ scheduled \in Seq(Event)
         /\ Shown(Base, Rest) \in Whole
         /\ Shown(Shown(Base, Rest), queue) \in Whole
         /\ Shown(Shown(Shown(Base, Rest), queue), scheduled) \in Whole
<1>1. queue \in Seq(Event) /\ scheduled \in Seq(Event)
  BY DEF SocketInv, ServerInv
<1>2. Rest \in Seq(Event)
  BY DEF SocketInv, Rest
<1>3. Base \in Whole
  <2>1. CASE seeded
    <3>1. store \in Whole /\ pending \in Seq(Event)
      BY <2>1 DEF StoreInv
    <3> QED BY <2>1, <3>1, ShownIsWhole DEF Base
  <2>2. CASE ~seeded
    BY <2>2 DEF SocketInv, Base
  <2> QED BY <2>1, <2>2
<1>4. Shown(Base, Rest) \in Whole
  BY <1>2, <1>3, ShownIsWhole
<1>5. Shown(Shown(Base, Rest), queue) \in Whole
  BY <1>1, <1>4, ShownIsWhole
<1>6. Shown(Shown(Shown(Base, Rest), queue), scheduled) \in Whole
  BY <1>1, <1>5, ShownIsWhole
<1> QED BY <1>1, <1>2, <1>3, <1>4, <1>5, <1>6

LEMMA ServerRests == ServerInv /\ UNCHANGED <<up, server, folds, faults>> => ServerInv'
BY DEF ServerInv, server, Whole, Echoes

LEMMA PollRests == PollInv /\ UNCHANGED poll => PollInv'
BY DEF PollInv

LEMMA SocketRests == SocketInv /\ UNCHANGED <<queue, wire, sock, seeded>> /\ spoilt' \subseteq {"dropped", "unsaid", "overwritten"} => SocketInv'
BY DEF SocketInv

LEMMA LinkRests == LinkInv /\ UNCHANGED <<sock, link, polling, retry>> => LinkInv'
BY DEF LinkInv, NeverStranded

LEMMA StoreRests == StoreInv /\ UNCHANGED <<store, pending, flushing, seeded>> => StoreInv'
BY DEF StoreInv

LEMMA FedRests ==
  Fed /\ UNCHANGED <<up, queue, wire, scheduled, board, store, pending, history>> => Fed'
BY DEF Fed, Base, Rest, history

LEMMA EmptyIsWhole == Empty \in Whole
<1>1. <<>> \in Seq(1..MaxEvents) /\ DOMAIN <<>> = {} /\ 0 \in 0..MaxEvents
  BY EmptySeq, Ranges
<1> QED BY <1>1 DEF Empty, Whole, View, IsInjective

LEMMA PageStarts == Init => PageInv
<1> SUFFICES ASSUME Init PROVE PageInv
  OBVIOUS
<1>1. ServerInv
  <2>1. PICK b \in Budgets : folds = b.folds /\ faults = b.faults
    BY DEF Init
  <2>2. folds \in 0..MaxEvents /\ faults \in 0..MaxFaults
    BY <2>1, PageAssumption
  <2>3. Len(<<>>) = 0 /\ <<>> \in Seq(Event) /\ 1..0 = {}
    BY EmptySeq
  <2>4. Echoes(board, scheduled)
    BY <2>3 DEF Echoes, Init
  <2>5. seq + folds <= MaxEvents
    BY <2>2, Ranges DEF Init
  <2> QED BY <2>2, <2>3, <2>4, <2>5, EmptyIsWhole DEF ServerInv, Init
<1>2. PollInv
  BY DEF PollInv, Init, Free, PollState
<1>3. SocketInv
  <2>1. wire \in Seq(Message) /\ Len(wire) <= WireCap
    BY EmptySeq, Ranges DEF Init
  <2> QED BY <2>1 DEF SocketInv, Init
<1>4. LinkInv
  BY DEF LinkInv, Init, NeverStranded
<1>5. StoreInv
  BY EmptySeq DEF StoreInv, Init
<1>6. Fed
  BY DEF Fed, Init
<1> QED BY <1>1, <1>2, <1>3, <1>4, <1>5, <1>6 DEF PageInv

-----------------------------------------------------------------------------
(* The server's steps. *)

LEMMA EchoesStay ==
  ASSUME NEW b \in Whole, NEW events \in Seq(Event), Echoes(b, events), NEW e \in Event, e.kind # "row"
  PROVE  Echoes(ApplyOne(b, e), events)
<1> DEFINE c == ApplyOne(b, e)
           S == 1..MaxEvents
<1>1. b \in View /\ b.log \in Seq(S) /\ b.points \in Seq(S) /\ e.n \in S /\ e.kind \in Kind
  BY Applied DEF Whole, View
<1>2. /\ c.row = b.row
      /\ c.log \in {b.log, Append(b.log, e.n)}
      /\ c.points \in {b.points, Append(b.points, e.n)}
  BY <1>1, Applied DEF Kind
<1> HIDE DEF c, S
<1>3. /\ Len(b.log) \in Nat /\ Len(Append(b.log, e.n)) = Len(b.log) + 1
      /\ \A i \in 1..Len(b.log) : Append(b.log, e.n)[i] = b.log[i]
  BY <1>1, Appended
<1>4. ToSet(Append(b.points, e.n)) = ToSet(b.points) \cup {e.n}
  BY <1>1, Appended
<1>5. \A x : Contains(b.log, x) => Contains(c.log, x)
  <2>1. \A i \in 1..Len(b.log) : i \in 1..Len(b.log) + 1
    BY <1>3
  <2> QED BY <1>2, <1>3, <2>1 DEF Contains
<1>6. ToSet(b.points) \subseteq ToSet(c.points)
  BY <1>2, <1>4
<1>7. Echoes(c, events)
  BY <1>2, <1>5, <1>6 DEF Echoes
<1> QED BY <1>7 DEF c

LEMMA EchoesGrow ==
  ASSUME NEW b \in Whole, NEW events \in Seq(Event), Echoes(b, events), NEW e \in Event
  PROVE  Echoes(ApplyOne(b, e), Append(events, e))
<1> DEFINE c == ApplyOne(b, e)
           more == Append(events, e)
           S == 1..MaxEvents
<1>1. b \in View /\ b.log \in Seq(S) /\ b.points \in Seq(S) /\ e.n \in S /\ e.kind \in Kind
  BY Applied DEF Whole, View
<1>2. /\ Len(more) = Len(events) + 1 /\ Len(events) \in Nat
      /\ \A i \in 1..Len(events) : more[i] = events[i]
      /\ more[Len(events) + 1] = e
  BY Appended
<1>3. \A i \in 1..Len(events) + 1 : i \in 1..Len(events) \/ i = Len(events) + 1
  BY <1>2
<1>4. /\ \A i \in 1..Len(events) : i \in 1..Len(events) + 1 /\ Len(events) + 1 > i
      /\ Len(events) + 1 \in 1..Len(events) + 1
  BY <1>2
<1>5. CASE e.kind = "row"
  <2>1. c.row = e.n /\ c.log = b.log /\ c.points = b.points
    BY <1>1, <1>5, Applied
  <2> HIDE DEF c, more
  <2>2. ASSUME NEW i \in 1..Len(events)
        PROVE  /\ more[i].kind = "log" => Contains(c.log, more[i].n)
               /\ more[i].kind = "point" => more[i].n \in ToSet(c.points)
               /\ \E j \in 1..Len(more) : j > i /\ more[j].kind = "row"
    BY <1>2, <1>4, <1>5, <2>1 DEF Echoes
  <2>3. Echoes(c, more)
    BY <1>2, <1>3, <1>5, <2>1, <2>2 DEF Echoes
  <2> QED BY <2>3 DEF c, more
<1>6. CASE e.kind # "row"
  <2>1. Echoes(c, events)
    BY <1>6, EchoesStay
  <2>2. e.kind = "log" => Contains(c.log, e.n)
    <3>1. SUFFICES ASSUME e.kind = "log" PROVE Contains(c.log, e.n)
      OBVIOUS
    <3>2. c.log = IF Contains(b.log, e.n) THEN b.log ELSE Append(b.log, e.n)
      BY <1>1, <3>1, Applied
    <3> HIDE DEF S
    <3>3. /\ Len(b.log) \in Nat /\ Len(Append(b.log, e.n)) = Len(b.log) + 1
          /\ Append(b.log, e.n)[Len(b.log) + 1] = e.n
      BY <1>1, Appended
    <3>4. Len(b.log) + 1 \in 1..Len(Append(b.log, e.n))
      BY <3>3
    <3>5. Contains(Append(b.log, e.n), e.n)
      BY <3>3, <3>4 DEF Contains
    <3> QED BY <3>2, <3>5
  <2>3. e.kind = "point" => e.n \in ToSet(c.points)
    <3>1. e.kind = "point" => c.points = Append(b.points, e.n)
      BY <1>1, Applied
    <3> HIDE DEF S
    <3>2. ToSet(Append(b.points, e.n)) = ToSet(b.points) \cup {e.n}
      BY <1>1, Appended
    <3> QED BY <3>1, <3>2
  <2> HIDE DEF c, more
  <2>4. ASSUME NEW i \in 1..Len(events)
        PROVE  /\ more[i].kind = "log" => Contains(c.log, more[i].n)
               /\ more[i].kind = "point" => more[i].n \in ToSet(c.points)
               /\ more[i].kind = "row" => \/ more[i].n = c.row
                                         \/ \E j \in 1..Len(more) : j > i /\ more[j].kind = "row"
    BY <1>2, <1>4, <2>1 DEF Echoes
  <2>5. Echoes(c, more)
    BY <1>2, <1>3, <1>6, <2>2, <2>3, <2>4 DEF Echoes
  <2> QED BY <2>5 DEF c, more
<1> QED BY <1>5, <1>6

LEMMA EchoesFall ==
  ASSUME NEW b, NEW events \in Seq(Event), events # <<>>, Echoes(b, events)
  PROVE  Echoes(b, Tail(events))
<1> DEFINE rest == Tail(events)
<1>1. /\ Len(events) \in Nat /\ Len(rest) = Len(events) - 1 /\ Len(rest) \in Nat
      /\ \A i \in 1..Len(rest) : rest[i] = events[i + 1]
  BY HeadTailProperties, LenProperties
<1> HIDE DEF rest
<1>2. \A i \in 1..Len(rest) : i + 1 \in 1..Len(events)
  BY <1>1
<1>3. \A i \in 1..Len(rest), j \in 1..Len(events) : j > i + 1 => j - 1 \in 1..Len(rest) /\ j - 1 > i /\ rest[j - 1] = events[j]
  <2> TAKE i \in 1..Len(rest), j \in 1..Len(events)
  <2> SUFFICES ASSUME j > i + 1 PROVE j - 1 \in 1..Len(rest) /\ j - 1 > i /\ rest[j - 1] = events[j]
    OBVIOUS
  <2>1. j - 1 \in 1..Len(rest) /\ j - 1 > i /\ (j - 1) + 1 = j
    BY <1>1
  <2> QED BY <1>1, <2>1
<1>4. ASSUME NEW i \in 1..Len(rest)
      PROVE  /\ rest[i].kind = "log" => Contains(b.log, rest[i].n)
             /\ rest[i].kind = "point" => rest[i].n \in ToSet(b.points)
             /\ rest[i].kind = "row" => \/ rest[i].n = b.row
                                       \/ \E j \in 1..Len(rest) : j > i /\ rest[j].kind = "row"
  <2>1. rest[i] = events[i + 1] /\ i + 1 \in 1..Len(events)
    BY <1>1, <1>2
  <2> QED BY <1>3, <2>1 DEF Echoes
<1>5. Echoes(b, rest)
  BY <1>4 DEF Echoes
<1> QED BY <1>5 DEF rest

LEMMA DispatchStep ==
  ASSUME PageInv, NEW kind \in Kind, Dispatch(kind)
  PROVE  PageInv'
<1>0. ServerInv /\ PollInv /\ SocketInv /\ LinkInv /\ StoreInv /\ Fed
  BY DEF PageInv
<1> DEFINE e == [kind |-> kind, n |-> seq + 1]
<1>1. /\ up /\ folds > 0 /\ folds' = folds - 1 /\ seq' = seq + 1
      /\ board' = ApplyOne(board, e) /\ scheduled' = Append(scheduled, e)
      /\ UNCHANGED <<up, queue, wire, sock, page, poll, faults, history>>
  BY DEF Dispatch
<1>2. seq \in Nat /\ folds \in Nat /\ seq + folds <= MaxEvents
  BY <1>0 DEF ServerInv
<1>3. seq' \in Nat /\ folds' \in Nat /\ seq' + folds' <= MaxEvents /\ seq + 1 \in 1..MaxEvents
  BY <1>1, <1>2, Ranges
<1>4. e \in Event
  BY <1>3 DEF Event
<1> HIDE DEF e
<1>5. board \in Whole /\ scheduled \in Seq(Event) /\ Echoes(board, scheduled)
  BY <1>0 DEF ServerInv
<1>6. board' \in Whole /\ scheduled' \in Seq(Event) /\ Echoes(board', scheduled')
  BY <1>1, <1>4, <1>5, ApplyKeepsWhole, EchoesGrow, Appended
<1>7. ServerInv'
  BY <1>0, <1>1, <1>3, <1>6 DEF ServerInv
<1>8. PollInv' /\ SocketInv' /\ LinkInv' /\ StoreInv'
  <2>1. SocketInv'
    BY <1>0, <1>1 DEF SocketInv, history
  <2> QED BY <1>0, <1>1, <2>1, PollRests, LinkRests, StoreRests DEF page, history
<1>9. Fed'
  <2> SUFFICES ASSUME queue # None, spoilt = {}
               PROVE  SameContent(Shown(Shown(Shown(Base, Rest), queue), scheduled), board)'
    BY <1>1 DEF Fed, history
  <2>1. Base' = Base /\ Rest' = Rest /\ queue' = queue
    BY <1>1 DEF Base, Rest, page, history
  <2> DEFINE v == Shown(Shown(Base, Rest), queue)
  <2>2. SameContent(Shown(v, scheduled), board)
    BY <1>0, <1>1 DEF Fed
  <2>3. Shown(v, scheduled) \in Whole
    BY <1>0, UnderWayIsWhole
  <2> HIDE DEF v
  <2>4. Shown(v, scheduled') = ApplyOne(Shown(v, scheduled), e)
    BY <1>1, <1>4, <1>5, ShownAppend
  <2>5. SameContent(Shown(v, scheduled'), board')
    BY <1>1, <1>4, <1>5, <2>2, <2>3, <2>4, ApplyKeepsContent DEF Whole
  <2> QED BY <2>1, <2>5 DEF v
<1> QED BY <1>7, <1>8, <1>9 DEF PageInv

LEMMA PostAnswerStep ==
  ASSUME PageInv, PostAnswer
  PROVE  PageInv'
<1>0. ServerInv /\ PollInv /\ SocketInv /\ LinkInv /\ StoreInv /\ Fed
  BY DEF PageInv
<1> DEFINE said == [kind |-> "log", n |-> seq + 1]
           row == [kind |-> "row", n |-> seq + 2]
<1>1. /\ up /\ folds > 1 /\ folds' = folds - 2 /\ seq' = seq + 2
      /\ board' = ApplyOne(ApplyOne(board, said), row) /\ scheduled' = Append(scheduled, row)
      /\ spoilt' = IF queue = None THEN spoilt ELSE spoilt \cup {"unsaid"}
      /\ UNCHANGED <<up, queue, wire, sock, page, poll, faults, seeded>>
  BY DEF PostAnswer
<1>2. seq \in Nat /\ folds \in Nat /\ seq + folds <= MaxEvents
  BY <1>0 DEF ServerInv
<1>3. seq' \in Nat /\ folds' \in Nat /\ seq' + folds' <= MaxEvents /\ seq + 1 \in 1..MaxEvents /\ seq + 2 \in 1..MaxEvents
  BY <1>1, <1>2, Ranges
<1>4. said \in Event /\ row \in Event /\ said.kind # "row"
  BY <1>3 DEF Event, Kind
<1> HIDE DEF said, row
<1>5. board \in Whole /\ scheduled \in Seq(Event) /\ Echoes(board, scheduled)
  BY <1>0 DEF ServerInv
<1>6. ApplyOne(board, said) \in Whole /\ Echoes(ApplyOne(board, said), scheduled)
  BY <1>4, <1>5, ApplyKeepsWhole, EchoesStay
<1>7. board' \in Whole /\ scheduled' \in Seq(Event) /\ Echoes(board', scheduled')
  BY <1>1, <1>4, <1>5, <1>6, ApplyKeepsWhole, EchoesGrow, Appended
<1>8. ServerInv'
  BY <1>0, <1>1, <1>3, <1>7 DEF ServerInv
<1>9. spoilt' \subseteq {"dropped", "unsaid", "overwritten"} /\ (queue # None => spoilt' # {})
  BY <1>0, <1>1 DEF SocketInv
<1>10. PollInv' /\ SocketInv' /\ LinkInv' /\ StoreInv'
  BY <1>0, <1>1, <1>9, PollRests, SocketRests, LinkRests, StoreRests DEF page
<1>11. Fed'
  BY <1>1, <1>9 DEF Fed
<1> QED BY <1>8, <1>10, <1>11 DEF PageInv

LEMMA OfferFacts ==
  ASSUME NEW line \in Seq(Event), Len(line) <= QueueCap, NEW e \in Event
  PROVE  Offered(line, e) \in Seq(Event) /\ Len(Offered(line, e)) <= QueueCap
<1>1. QueueCap \in Nat \ {0} /\ Len(line) \in Nat
  BY Ranges, LenProperties
<1>2. CASE Len(line) = QueueCap
  <2>1. line # <<>>
    BY <1>1, <1>2
  <2> DEFINE rest == Tail(line)
  <2>2. rest \in Seq(Event) /\ Len(rest) = Len(line) - 1
    BY <2>1, HeadTailProperties
  <2>3. Offered(line, e) = Append(rest, e)
    BY <1>2 DEF Offered
  <2> HIDE DEF rest
  <2>4. Append(rest, e) \in Seq(Event) /\ Len(Append(rest, e)) = Len(rest) + 1
    BY <2>2, Appended
  <2> QED BY <1>1, <1>2, <2>2, <2>3, <2>4
<1>3. CASE Len(line) # QueueCap
  <2>1. Offered(line, e) = Append(line, e)
    BY <1>3 DEF Offered
  <2>2. Append(line, e) \in Seq(Event) /\ Len(Append(line, e)) = Len(line) + 1
    BY Appended
  <2> QED BY <1>1, <1>3, <2>1, <2>2
<1> QED BY <1>2, <1>3

LEMMA FanOutStep ==
  ASSUME PageInv, FanOut
  PROVE  PageInv'
<1>0. ServerInv /\ PollInv /\ SocketInv /\ LinkInv /\ StoreInv /\ Fed
  BY DEF PageInv
<1>1. /\ up /\ scheduled # <<>> /\ scheduled' = Tail(scheduled)
      /\ UNCHANGED <<up, board, seq, wire, sock, page, poll, folds, faults, seeded>>
      /\ queue = None => UNCHANGED <<queue, spoilt>>
      /\ queue # None => /\ queue' = Offered(queue, Head(scheduled))
                        /\ spoilt' = IF Len(queue) = QueueCap THEN spoilt \cup {"dropped"} ELSE spoilt
  BY DEF FanOut
<1>2. board \in Whole /\ scheduled \in Seq(Event) /\ Echoes(board, scheduled)
  BY <1>0 DEF ServerInv
<1>3. Head(scheduled) \in Event /\ scheduled' \in Seq(Event) /\ Echoes(board, scheduled')
  BY <1>1, <1>2, HeadTailProperties, EchoesFall
<1>4. ServerInv'
  BY <1>0, <1>1, <1>3 DEF ServerInv
<1>5. queue # None => queue' \in Seq(Event) /\ Len(queue') <= QueueCap /\ queue' # None
  BY <1>0, <1>1, <1>3, OfferFacts, NoneIsNothing DEF SocketInv
<1>6. spoilt' \subseteq {"dropped", "unsaid", "overwritten"}
  BY <1>0, <1>1 DEF SocketInv
<1>7. SocketInv'
  BY <1>0, <1>1, <1>5, <1>6 DEF SocketInv
<1>8. PollInv' /\ LinkInv' /\ StoreInv'
  BY <1>0, <1>1, PollRests, LinkRests, StoreRests DEF page
<1>9. Fed'
  <2> SUFFICES ASSUME queue' # None, spoilt' = {}
               PROVE  SameContent(Shown(Shown(Shown(Base, Rest), queue), scheduled), board)'
    BY DEF Fed
  <2>1. queue # None /\ spoilt = {} /\ Len(queue) # QueueCap
    BY <1>1
  <2>2. Base' = Base /\ Rest' = Rest /\ queue' = Append(queue, Head(scheduled))
    BY <1>1, <2>1 DEF Base, Rest, page, Offered
  <2> DEFINE v == Shown(Base, Rest)
  <2>3. SameContent(Shown(Shown(v, queue), scheduled), board)
    BY <1>0, <1>1, <2>1 DEF Fed
  <2>4. queue \in Seq(Event)
    BY <1>0, <2>1 DEF SocketInv
  <2> HIDE DEF v
  <2>5. Shown(Shown(v, Append(queue, Head(scheduled))), Tail(scheduled)) = Shown(Shown(v, queue), scheduled)
    BY <1>1, <1>2, <2>4, ShownHanded
  <2>6. SameContent(Shown(Shown(v, queue'), scheduled'), board')
    BY <1>1, <2>2, <2>3, <2>5
  <2> QED BY <2>2, <2>6 DEF v
<1> QED BY <1>4, <1>7, <1>8, <1>9 DEF PageInv

LEMMA AcceptStep ==
  ASSUME PageInv, Accept
  PROVE  PageInv'
<1>0. ServerInv /\ PollInv /\ SocketInv /\ LinkInv /\ StoreInv /\ Fed
  BY DEF PageInv
<1>1. /\ up /\ sock = "connecting" /\ sock' = "accepted" /\ queue' = <<>>
      /\ wire' = <<Snapshot(board)>> /\ spoilt' = {}
      /\ UNCHANGED <<up, server, page, poll, folds, faults, seeded>>
  BY DEF Accept
<1>2. board \in Whole /\ board \in View /\ scheduled \in Seq(Event) /\ Echoes(board, scheduled)
  BY <1>0 DEF ServerInv, Whole
<1>3. ~seeded /\ ~seeded'
  BY <1>0, <1>1 DEF SocketInv
<1> DEFINE greeting == Snapshot(board)
<1>4. greeting \in Message /\ greeting.kind = "snapshot" /\ greeting.view = board
  BY <1>2 DEF Snapshot, Message
<1>5. wire' = <<greeting>>
  BY <1>1
<1> HIDE DEF greeting
<1>6. /\ wire' \in Seq(Message) /\ Len(wire') = 1 /\ wire' # <<>> /\ Head(wire') = greeting /\ Tail(wire') = <<>>
  BY <1>4, <1>5
<1>7. /\ <<>> \in Seq(Event) /\ Len(<<>>) = 0 /\ <<>> # None
  BY EmptySeq, NoneIsNothing
<1>8. SocketInv'
  <2>1. Len(wire') <= WireCap /\ Len(queue') <= QueueCap
    BY <1>1, <1>6, <1>7, Ranges
  <2> QED BY <1>0, <1>1, <1>2, <1>3, <1>4, <1>6, <1>7, <2>1 DEF SocketInv
<1>9. ServerInv' /\ PollInv' /\ StoreInv'
  BY <1>0, <1>1, ServerRests, PollRests, StoreRests DEF page
<1>10. LinkInv'
  BY <1>0, <1>1 DEF LinkInv, NeverStranded, page
<1>11. Fed'
  <2>1. Base' = board /\ Rest' = <<>>
    BY <1>3, <1>4, <1>6 DEF Base, Rest
  <2>2. Shown(Shown(Shown(Base', Rest'), queue'), scheduled') = Shown(board, scheduled)
    BY <1>1, <2>1, ShownEmpty DEF server
  <2>3. SameContent(Shown(board, scheduled), board)
    BY <1>2, EchoChangesNothing
  <2> QED BY <1>1, <2>2, <2>3 DEF Fed, server
<1> QED BY <1>8, <1>9, <1>10, <1>11 DEF PageInv

LEMMA SendStep ==
  ASSUME PageInv, Send
  PROVE  PageInv'
<1>0. ServerInv /\ PollInv /\ SocketInv /\ LinkInv /\ StoreInv /\ Fed
  BY DEF PageInv
<1>1. /\ up /\ queue # None /\ queue # <<>> /\ Len(wire) < WireCap
      /\ wire' = Append(wire, Head(queue)) /\ queue' = Tail(queue)
      /\ UNCHANGED <<up, server, sock, page, poll, folds, faults, history>>
  BY DEF Send
<1>2. queue \in Seq(Event) /\ Len(queue) <= QueueCap /\ wire \in Seq(Message)
  BY <1>0, <1>1 DEF SocketInv
<1>3. /\ Head(queue) \in Event /\ Head(queue) \in Message /\ queue' \in Seq(Event)
      /\ Len(queue') = Len(queue) - 1 /\ queue' # None
  BY <1>1, <1>2, HeadTailProperties, NoneIsNothing DEF Message
<1>4. Len(queue') <= QueueCap
  BY <1>2, <1>3, LenProperties, Ranges
<1>5. wire' \in Seq(Message) /\ Len(wire') = Len(wire) + 1 /\ Len(wire) \in Nat /\ wire' # <<>>
  <2>1. wire' = Append(wire, Head(queue)) /\ Head(queue) \in Message /\ wire \in Seq(Message)
    BY <1>1, <1>2, <1>3
  <2>2. Append(wire, Head(queue)) \in Seq(Message) /\ Append(wire, Head(queue)) # <<>>
        /\ Len(Append(wire, Head(queue))) = Len(wire) + 1
    BY <2>1, AppendProperties
  <2>3. Len(wire) \in Nat
    BY <2>1, LenProperties
  <2> QED BY <2>1, <2>2, <2>3
<1>6. Len(wire') <= WireCap
  BY <1>1, <1>5, Ranges
<1>7. seeded => wire' \in Seq(Event) /\ wire \in Seq(Event)
  BY <1>0, <1>1, <1>3, AppendProperties DEF SocketInv
<1>8. ~seeded => /\ wire # <<>> /\ Head(wire') = Head(wire)
                 /\ Tail(wire) \in Seq(Event) /\ Tail(wire') = Append(Tail(wire), Head(queue))
                 /\ Tail(wire') \in Seq(Event)
  <2> SUFFICES ASSUME ~seeded
               PROVE  /\ wire # <<>> /\ Head(wire') = Head(wire)
                      /\ Tail(wire) \in Seq(Event) /\ Tail(wire') = Append(Tail(wire), Head(queue))
                      /\ Tail(wire') \in Seq(Event)
    OBVIOUS
  <2>1. wire # <<>> /\ Tail(wire) \in Seq(Event)
    BY <1>0, <1>1 DEF SocketInv
  <2>2. Head(wire') = Head(wire) /\ Tail(wire') = Append(Tail(wire), Head(queue))
    BY <1>1, <1>2, <2>1, HeadTailAppend
  <2> DEFINE rest == Tail(wire)
  <2>3. rest \in Seq(Event)
    BY <2>1
  <2> HIDE DEF rest
  <2>4. Append(rest, Head(queue)) \in Seq(Event)
    BY <1>3, <2>3, AppendProperties
  <2> QED BY <2>1, <2>2, <2>4 DEF rest
<1>9. SocketInv'
  BY <1>0, <1>1, <1>3, <1>4, <1>5, <1>6, <1>7, <1>8 DEF SocketInv, history
<1>10. ServerInv' /\ PollInv' /\ LinkInv' /\ StoreInv'
  BY <1>0, <1>1, ServerRests, PollRests, LinkRests, StoreRests DEF page, history
<1>11. Fed'
  <2> SUFFICES ASSUME spoilt = {}
               PROVE  SameContent(Shown(Shown(Shown(Base, Rest), queue), scheduled), board)'
    BY <1>1 DEF Fed, history
  <2>1. Base' = Base /\ Rest' = Append(Rest, Head(queue)) /\ Rest \in Seq(Event)
    <3>1. CASE seeded
      BY <1>1, <1>7, <3>1 DEF Base, Rest, page, history
    <3>2. CASE ~seeded
      BY <1>1, <1>8, <3>2 DEF Base, Rest, page, history
    <3> QED BY <3>1, <3>2
  <2> DEFINE v == Base
             r == Rest
  <2>2. SameContent(Shown(Shown(Shown(v, r), queue), scheduled), board) /\ r \in Seq(Event)
    BY <1>0, <1>1, <2>1 DEF Fed
  <2> HIDE DEF v, r
  <2>3. Shown(Shown(v, Append(r, Head(queue))), Tail(queue)) = Shown(Shown(v, r), queue)
    BY <1>1, <1>2, <2>2, ShownHanded
  <2>4. SameContent(Shown(Shown(Shown(v, Append(r, Head(queue))), queue'), scheduled), board)
    BY <1>1, <2>2, <2>3
  <2> QED BY <1>1, <2>1, <2>4 DEF v, r, server
<1> QED BY <1>9, <1>10, <1>11 DEF PageInv

LEMMA RestOfServer ==
  ASSUME PageInv, (\E p \in Polls : GetState(p)) \/ Crash \/ Start
  PROVE  PageInv'
<1>0. ServerInv /\ PollInv /\ SocketInv /\ LinkInv /\ StoreInv /\ Fed
  BY DEF PageInv
<1>1. ASSUME NEW p \in Polls, GetState(p)
      PROVE  PageInv'
  <2>1. /\ up /\ poll' = [poll EXCEPT ![p] = [at |-> "answered", view |-> board]]
        /\ UNCHANGED <<up, server, queue, wire, sock, page, folds, faults, history>>
    BY <1>1 DEF GetState
  <2>2. board \in Whole /\ board \in View
    BY <1>0 DEF ServerInv, Whole
  <2>3. [at |-> "answered", view |-> board] \in PollState
    BY <2>2 DEF PollState
  <2>4. PollInv'
    BY <1>0, <2>1, <2>2, <2>3 DEF PollInv
  <2>5. SocketInv'
    BY <1>0, <2>1 DEF SocketInv, history
  <2> QED BY <1>0, <2>1, <2>4, <2>5, ServerRests, LinkRests, StoreRests, FedRests DEF PageInv, server, page, history
<1>2. CASE Crash
  <2>1. /\ faults > 0 /\ faults' = faults - 1 /\ up' = FALSE
        /\ board' = Empty /\ seq' = 0 /\ scheduled' = <<>>
        /\ UNCHANGED <<queue, wire, sock, page, poll, folds, history>>
    BY <1>2 DEF Crash
  <2>2. folds \in Nat /\ seq \in Nat /\ seq + folds <= MaxEvents /\ faults \in 0..MaxFaults
    BY <1>0 DEF ServerInv
  <2>3. faults' \in 0..MaxFaults /\ 0 + folds <= MaxEvents
    BY <2>1, <2>2, Ranges
  <2>4. <<>> \in Seq(Event) /\ Len(<<>>) = 0 /\ 1..0 = {}
    BY EmptySeq
  <2>5. Echoes(board', scheduled')
    BY <2>1, <2>4 DEF Echoes
  <2>6. ServerInv'
    BY <2>1, <2>2, <2>3, <2>4, <2>5, EmptyIsWhole DEF ServerInv
  <2>7. SocketInv'
    BY <1>0, <2>1 DEF SocketInv, history
  <2>8. Fed'
    BY <2>1 DEF Fed
  <2> QED BY <1>0, <2>1, <2>6, <2>7, <2>8, PollRests, LinkRests, StoreRests DEF PageInv, page, history
<1>3. CASE Start
  <2>1. /\ sock \in {"closed", "connecting"} /\ up' = TRUE
        /\ UNCHANGED <<server, queue, wire, sock, page, poll, folds, faults, history>>
    BY <1>3 DEF Start
  <2>2. ServerInv'
    BY <1>0, <2>1 DEF ServerInv, server, Echoes
  <2>3. SocketInv' /\ queue' = None
    BY <1>0, <2>1 DEF SocketInv, history
  <2>4. Fed'
    BY <2>3 DEF Fed
  <2> QED BY <1>0, <2>1, <2>2, <2>3, <2>4, PollRests, LinkRests, StoreRests DEF PageInv, page, history
<1> QED BY <1>1, <1>2, <1>3

LEMMA ShowingStep ==
  ASSUME PageInv, OnOpen \/ OnSnapshot
  PROVE  PageInv'
<1>0. ServerInv /\ PollInv /\ SocketInv /\ LinkInv /\ StoreInv /\ Fed
  BY DEF PageInv
<1>1. CASE OnOpen
  <2>1. /\ sock = "accepted" /\ sock' = "open" /\ polling' = FALSE /\ link' = "live"
        /\ UNCHANGED <<up, server, queue, wire, store, pending, flushing, retry, poll, folds, faults, history>>
    BY <1>1 DEF OnOpen
  <2>2. LinkInv'
    BY <1>0, <2>1 DEF LinkInv, NeverStranded
  <2>3. SocketInv'
    BY <1>0, <2>1 DEF SocketInv, history
  <2>4. Fed'
    BY <1>0, <2>1, FedRests DEF server
  <2> QED BY <1>0, <2>1, <2>2, <2>3, <2>4, ServerRests, PollRests, StoreRests DEF PageInv, history
<1>2. CASE OnSnapshot
  <2>1. /\ sock = "open" /\ wire # <<>> /\ Head(wire).kind = "snapshot"
        /\ wire' = Tail(wire) /\ pending' = <<>> /\ store' = Head(wire).view /\ seeded' = TRUE
        /\ UNCHANGED <<up, server, queue, sock, flushing, link, polling, retry, poll, folds, faults, spoilt>>
    BY <1>2 DEF OnSnapshot
  <2>2. ~seeded
    <3> SUFFICES ASSUME seeded PROVE FALSE
      OBVIOUS
    <3>1. wire \in Seq(Event)
      BY <1>0 DEF SocketInv
    <3>2. Head(wire) \in Event
      BY <2>1, <3>1, HeadTailProperties
    <3> QED BY <2>1, <3>2 DEF Event, Kind
  <2>3. queue # None
    BY <1>0, <2>1 DEF SocketInv
  <2>4. store' \in Whole /\ wire' \in Seq(Event) /\ Len(wire') <= WireCap /\ wire' \in Seq(Message)
    <3>1. store' \in Whole /\ wire' \in Seq(Event)
      BY <1>0, <2>1, <2>2, <2>3 DEF SocketInv
    <3>2. wire \in Seq(Message) /\ Len(wire) <= WireCap
      BY <1>0 DEF SocketInv
    <3>3. Tail(wire) \in Seq(Message) /\ Len(Tail(wire)) = Len(wire) - 1 /\ Len(wire) \in Nat
      BY <2>1, <3>2, HeadTailProperties, LenProperties
    <3> QED BY <2>1, <3>1, <3>2, <3>3, Ranges
  <2>5. <<>> \in Seq(Event)
    BY EmptySeq
  <2>6. store' # None
    BY <2>4, NoneIsNothing
  <2>7. StoreInv'
    BY <1>0, <2>1, <2>4, <2>5, <2>6 DEF StoreInv
  <2>8. SocketInv'
    BY <1>0, <2>1, <2>4 DEF SocketInv
  <2>9. Fed'
    <3>1. Base' = Base /\ Rest' = Rest
      BY <2>1, <2>2, ShownEmpty DEF Base, Rest
    <3> QED BY <1>0, <2>1, <3>1 DEF Fed, server
  <2> QED BY <1>0, <2>1, <2>7, <2>8, <2>9, ServerRests, PollRests, LinkRests DEF PageInv
<1> QED BY <1>1, <1>2

LEMMA OnEventStep ==
  ASSUME PageInv, OnEvent
  PROVE  PageInv'
<1>0. ServerInv /\ PollInv /\ SocketInv /\ LinkInv /\ StoreInv /\ Fed
  BY DEF PageInv
<1>1. /\ sock = "open" /\ wire # <<>> /\ Head(wire).kind # "snapshot"
      /\ wire' = Tail(wire) /\ pending' = Append(pending, Head(wire)) /\ flushing' = TRUE
      /\ UNCHANGED <<up, server, queue, sock, store, link, polling, retry, poll, folds, faults, history>>
  BY DEF OnEvent
<1>2. seeded /\ wire \in Seq(Event)
  BY <1>0, <1>1 DEF SocketInv
<1>3. pending \in Seq(Event) /\ store # None
  BY <1>0, <1>2 DEF StoreInv
<1>4. Head(wire) \in Event /\ wire' \in Seq(Event) /\ Len(wire') = Len(wire) - 1 /\ Len(wire) \in Nat
  BY <1>1, <1>2, HeadTailProperties, LenProperties
<1>5. pending' \in Seq(Event)
  BY <1>1, <1>3, <1>4, Appended
<1>6. Len(wire') <= WireCap /\ wire' \in Seq(Message)
  <2>1. Len(wire) <= WireCap /\ wire \in Seq(Message)
    BY <1>0 DEF SocketInv
  <2>2. Tail(wire) \in Seq(Message)
    BY <1>1, <2>1, HeadTailProperties
  <2> QED BY <1>1, <1>4, <2>1, <2>2, Ranges
<1>7. SocketInv'
  BY <1>0, <1>1, <1>2, <1>4, <1>6 DEF SocketInv, history
<1>8. StoreInv'
  BY <1>0, <1>1, <1>5 DEF StoreInv, history
<1>9. Fed'
  <2> SUFFICES ASSUME up, queue # None, spoilt = {}
               PROVE  SameContent(Shown(Shown(Shown(Base, Rest), queue), scheduled), board)'
    BY <1>1 DEF Fed, history
  <2>1. SameContent(Shown(Shown(Shown(Shown(store, pending), wire), queue), scheduled), board)
    BY <1>0, <1>2 DEF Fed, Base, Rest
  <2>2. Shown(Shown(store, Append(pending, Head(wire))), Tail(wire)) = Shown(Shown(store, pending), wire)
    BY <1>1, <1>2, <1>3, ShownHanded
  <2>3. Base' = Shown(store, Append(pending, Head(wire))) /\ Rest' = Tail(wire)
    BY <1>1, <1>2 DEF Base, Rest, history
  <2> QED BY <1>1, <2>1, <2>2, <2>3 DEF server
<1> QED BY <1>0, <1>1, <1>7, <1>8, <1>9, ServerRests, PollRests, LinkRests DEF PageInv, history

LEMMA FlushStep ==
  ASSUME PageInv, Flush
  PROVE  PageInv'
<1>0. ServerInv /\ PollInv /\ SocketInv /\ LinkInv /\ StoreInv /\ Fed
  BY DEF PageInv
<1>1. /\ flushing' = FALSE /\ pending' = <<>>
      /\ store' = IF store = None THEN None ELSE Shown(store, pending)
      /\ UNCHANGED <<up, server, queue, wire, sock, link, polling, retry, poll, folds, faults, history>>
  BY DEF Flush
<1>2. store # None => store \in Whole /\ pending \in Seq(Event) /\ store' \in Whole /\ store' # None
  <2> SUFFICES ASSUME store # None PROVE store \in Whole /\ pending \in Seq(Event) /\ store' \in Whole /\ store' # None
    OBVIOUS
  <2>1. store \in Whole /\ pending \in Seq(Event)
    BY <1>0 DEF StoreInv
  <2>2. Shown(store, pending) \in Whole
    BY <2>1, ShownIsWhole
  <2> QED BY <1>1, <2>1, <2>2, NoneIsNothing
<1>3. <<>> \in Seq(Event)
  BY EmptySeq
<1>4. StoreInv'
  BY <1>0, <1>1, <1>2, <1>3 DEF StoreInv, history
<1>5. SocketInv'
  BY <1>0, <1>1 DEF SocketInv, history
<1>6. Fed'
  <2>1. Rest' = Rest
    BY <1>1 DEF Rest, history
  <2>2. Base' = Base
    <3>1. CASE seeded
      <4>1. store' = Shown(store, pending)
        BY <1>0, <1>1, <3>1 DEF StoreInv
      <4> QED BY <1>1, <3>1, <4>1, ShownEmpty DEF Base, history
    <3>2. CASE ~seeded
      BY <1>1, <3>2 DEF Base, history
    <3> QED BY <3>1, <3>2
  <2> QED BY <1>0, <1>1, <2>1, <2>2 DEF Fed, server, history
<1> QED BY <1>0, <1>1, <1>4, <1>5, <1>6, ServerRests, PollRests, LinkRests DEF PageInv, history

(* A request that is made takes a free slot, and no answer with it.        *)
LEMMA AskedIsOfPolls == PollInv => Asked \in [Polls -> PollState] /\ \A p \in Polls : Asked[p].at = "answered" => Asked[p].view \in Whole
<1> SUFFICES ASSUME PollInv
             PROVE  Asked \in [Polls -> PollState] /\ \A p \in Polls : Asked[p].at = "answered" => Asked[p].view \in Whole
  OBVIOUS
<1>1. poll \in [Polls -> PollState] /\ \A p \in Polls : poll[p].at = "answered" => poll[p].view \in Whole
  BY DEF PollInv
<1>2. [at |-> "asked"] \in PollState
  BY DEF PollState
<1>3. CASE \E p \in Polls : poll[p] = Free
  <2> DEFINE c == CHOOSE p \in Polls : poll[p] = Free
  <2>1. c \in Polls
    BY <1>3
  <2>2. Asked = [poll EXCEPT ![c] = [at |-> "asked"]]
    BY <1>3 DEF Asked
  <2> HIDE DEF c
  <2> QED BY <1>1, <1>2, <2>1, <2>2
<1>4. CASE ~\E p \in Polls : poll[p] = Free
  BY <1>1, <1>4 DEF Asked
<1> QED BY <1>3, <1>4

LEMMA SocketLost ==
  ASSUME PageInv, OnClose \/ Connect
  PROVE  PageInv'
<1>0. ServerInv /\ PollInv /\ SocketInv /\ LinkInv /\ StoreInv /\ Fed
  BY DEF PageInv
<1>1. CASE OnClose
  <2>1. /\ up => faults > 0
        /\ faults' = IF up THEN faults - 1 ELSE faults
        /\ sock' = "closed" /\ queue' = None /\ wire' = <<>>
        /\ link' = IF link = "live" THEN "polling" ELSE link
        /\ polling' = TRUE /\ poll' = IF polling THEN poll ELSE Asked
        /\ retry' = TRUE /\ seeded' = FALSE
        /\ UNCHANGED <<up, server, store, pending, flushing, folds, spoilt>>
    BY <1>1 DEF OnClose
  <2>2. faults \in 0..MaxFaults
    BY <1>0 DEF ServerInv
  <2>3. faults' \in 0..MaxFaults
    BY <2>1, <2>2, Ranges
  <2>4. ServerInv'
    BY <1>0, <2>1, <2>3 DEF ServerInv, server, Whole, Echoes
  <2>5. PollInv'
    BY <1>0, <2>1, AskedIsOfPolls DEF PollInv
  <2>6. <<>> \in Seq(Message) /\ Len(<<>>) = 0
    BY EmptySeq
  <2>7. SocketInv'
    <3>1. wire' \in Seq(Message) /\ Len(wire') <= WireCap
      BY <2>1, <2>6, Ranges
    <3>2. spoilt' \subseteq {"dropped", "unsaid", "overwritten"} /\ seeded' \in BOOLEAN
      BY <1>0, <2>1 DEF SocketInv
    <3> QED BY <2>1, <3>1, <3>2 DEF SocketInv
  <2>8. LinkInv'
    BY <1>0, <2>1 DEF LinkInv, NeverStranded
  <2>9. StoreInv'
    BY <1>0, <2>1 DEF StoreInv
  <2>10. Fed'
    BY <2>1 DEF Fed
  <2> QED BY <2>4, <2>5, <2>7, <2>8, <2>9, <2>10 DEF PageInv
<1>2. CASE Connect
  <2>1. /\ retry /\ retry' = FALSE /\ sock' = "connecting"
        /\ UNCHANGED <<up, server, queue, wire, store, pending, flushing, link, polling, poll, folds, faults, history>>
    BY <1>2 DEF Connect
  <2>2. sock = "closed"
    BY <1>0, <2>1 DEF LinkInv
  <2>3. LinkInv'
    BY <1>0, <2>1, <2>2 DEF LinkInv, NeverStranded
  <2>4. SocketInv'
    BY <1>0, <2>1, <2>2 DEF SocketInv, history
  <2>5. Fed'
    BY <1>0, <2>1, FedRests DEF server
  <2> QED BY <1>0, <2>1, <2>3, <2>4, <2>5, ServerRests, PollRests, StoreRests DEF PageInv, history
<1> QED BY <1>1, <1>2

LEMMA PollStep ==
  ASSUME PageInv, PollTick \/ \E p \in Polls : PollFails(p) \/ PollRefused(p)
  PROVE  PageInv'
<1>0. ServerInv /\ PollInv /\ SocketInv /\ LinkInv /\ StoreInv /\ Fed
  BY DEF PageInv
<1>1. CASE PollTick
  <2>1. poll' = Asked /\ UNCHANGED <<up, server, queue, wire, sock, page, folds, faults, history>>
    BY <1>1 DEF PollTick
  <2>2. PollInv'
    BY <1>0, <2>1, AskedIsOfPolls DEF PollInv
  <2>3. SocketInv'
    BY <1>0, <2>1 DEF SocketInv, history
  <2>4. Fed'
    BY <1>0, <2>1, FedRests DEF page, server
  <2> QED BY <1>0, <2>1, <2>2, <2>3, <2>4, ServerRests, LinkRests, StoreRests DEF PageInv, page, history
<1>2. ASSUME NEW p \in Polls, PollFails(p)
      PROVE  PageInv'
  <2>1. /\ faults' = faults \/ (faults > 0 /\ faults' = faults - 1)
        /\ poll' = [poll EXCEPT ![p] = [at |-> "failed"]]
        /\ UNCHANGED <<up, server, queue, wire, sock, page, folds, history>>
    BY <1>2 DEF PollFails
  <2>2. faults \in 0..MaxFaults
    BY <1>0 DEF ServerInv
  <2>3. faults' \in 0..MaxFaults
    BY <2>1, <2>2, Ranges
  <2>4. ServerInv'
    BY <1>0, <2>1, <2>3 DEF ServerInv, server, Whole, Echoes
  <2>5. [at |-> "failed"] \in PollState
    BY DEF PollState
  <2>6. PollInv'
    BY <1>0, <2>1, <2>5 DEF PollInv
  <2>7. SocketInv'
    BY <1>0, <2>1 DEF SocketInv, history
  <2>8. Fed'
    BY <1>0, <2>1, FedRests DEF page, server
  <2> QED BY <1>0, <2>1, <2>4, <2>6, <2>7, <2>8, LinkRests, StoreRests DEF PageInv, page, history
<1>3. ASSUME NEW p \in Polls, PollRefused(p)
      PROVE  PageInv'
  <2>1. /\ poll' = [poll EXCEPT ![p] = Free]
        /\ link' = IF link = "live" THEN link ELSE "offline"
        /\ UNCHANGED <<up, server, queue, wire, sock, store, pending, flushing, polling, retry, folds, faults, history>>
    BY <1>3 DEF PollRefused
  <2>2. Free \in PollState
    BY DEF PollState, Free
  <2>3. Free.at # "answered"
    BY DEF Free
  <2>4. PollInv'
    BY <1>0, <2>1, <2>2, <2>3 DEF PollInv
  <2>5. LinkInv'
    BY <1>0, <2>1 DEF LinkInv, NeverStranded
  <2>6. SocketInv'
    BY <1>0, <2>1 DEF SocketInv, history
  <2>7. Fed'
    BY <1>0, <2>1, FedRests DEF server
  <2> QED BY <1>0, <2>1, <2>4, <2>5, <2>6, <2>7, ServerRests, StoreRests DEF PageInv, history
<1> QED BY <1>1, <1>2, <1>3

LEMMA PollShownStep ==
  ASSUME PageInv, NEW p \in Polls, PollShown(p)
  PROVE  PageInv'
<1>0. ServerInv /\ PollInv /\ SocketInv /\ LinkInv /\ StoreInv /\ Fed
  BY DEF PageInv
<1>1. /\ poll[p].at = "answered" /\ poll' = [poll EXCEPT ![p] = Free]
      /\ store' = poll[p].view
      /\ link' = IF link = "live" THEN link ELSE "polling"
      /\ spoilt' = IF seeded THEN spoilt \cup {"overwritten"} ELSE spoilt
      /\ UNCHANGED <<up, server, queue, wire, sock, pending, flushing, polling, retry, folds, faults, seeded>>
  BY DEF PollShown
<1>2. Free \in PollState /\ Free.at # "answered"
  BY DEF PollState, Free
<1>3. PollInv'
  BY <1>0, <1>1, <1>2 DEF PollInv
<1>4. store' \in Whole /\ store' # None
  BY <1>0, <1>1, NoneIsNothing DEF PollInv
<1>5. StoreInv'
  BY <1>0, <1>1, <1>4 DEF StoreInv
<1>6. LinkInv'
  BY <1>0, <1>1 DEF LinkInv, NeverStranded
<1>7. spoilt' \subseteq {"dropped", "unsaid", "overwritten"}
  BY <1>0, <1>1 DEF SocketInv
<1>8. Fed'
  <2>1. CASE seeded
    BY <1>1, <2>1 DEF Fed
  <2>2. CASE ~seeded
    BY <1>0, <1>1, <2>2 DEF Fed, Base, Rest, server
  <2> QED BY <2>1, <2>2
<1> QED BY <1>0, <1>1, <1>3, <1>5, <1>6, <1>7, <1>8, ServerRests, SocketRests DEF PageInv

LEMMA PageStep == PageInv /\ [Next]_vars => PageInv'
<1> SUFFICES ASSUME PageInv, [Next]_vars PROVE PageInv'
  OBVIOUS
<1>1. CASE \E kind \in Kind : Dispatch(kind)
  BY <1>1, DispatchStep
<1>2. CASE PostAnswer
  BY <1>2, PostAnswerStep
<1>3. CASE Serve
  BY <1>3, FanOutStep, AcceptStep, SendStep, RestOfServer DEF Serve
<1>4. CASE Browse
  BY <1>4, ShowingStep, OnEventStep, FlushStep, SocketLost, PollStep, PollShownStep DEF Browse
<1>5. CASE Fail
  BY <1>5, RestOfServer, SocketLost, PollStep DEF Fail
<1>6. CASE UNCHANGED vars
  <2>1. /\ UNCHANGED <<up, server, folds, faults>> /\ UNCHANGED poll
        /\ UNCHANGED <<queue, wire, sock, seeded>> /\ spoilt' = spoilt
        /\ UNCHANGED <<sock, link, polling, retry>>
        /\ UNCHANGED <<store, pending, flushing, seeded>>
        /\ UNCHANGED <<up, queue, wire, scheduled, board, store, pending, history>>
    BY <1>6 DEF vars, page, server, history
  <2>2. spoilt' \subseteq {"dropped", "unsaid", "overwritten"}
    BY <2>1 DEF PageInv, SocketInv
  <2> QED BY <2>1, <2>2, ServerRests, PollRests, SocketRests, LinkRests, StoreRests, FedRests DEF PageInv
<1> QED BY <1>1, <1>2, <1>3, <1>4, <1>5, <1>6 DEF Next

(* What the invariant says of everything that is under way.                *)
LEMMA NothingMissed == PageInv => NothingIsMissed
<1> SUFFICES ASSUME PageInv, up, seeded, spoilt = {}
             PROVE  SameContent(Shown(store, InFlight), board)
  BY DEF NothingIsMissed
<1>0. ServerInv /\ SocketInv /\ StoreInv /\ Fed
  BY DEF PageInv
<1>1. queue # None /\ queue \in Seq(Event) /\ wire \in Seq(Event)
  BY <1>0 DEF SocketInv
<1>2. pending \in Seq(Event) /\ scheduled \in Seq(Event)
  BY <1>0 DEF StoreInv, ServerInv
<1>3. SameContent(Shown(Shown(Shown(Shown(store, pending), wire), queue), scheduled), board)
  BY <1>0, <1>1 DEF Fed, Base, Rest
<1>4. InFlight = ((pending \o wire) \o queue) \o scheduled
  BY <1>1 DEF InFlight
<1> DEFINE two == pending \o wire
           three == two \o queue
<1>5. two \in Seq(Event) /\ Shown(store, two) = Shown(Shown(store, pending), wire)
  BY <1>1, <1>2, ShownConcat, ConcatProperties
<1> HIDE DEF two
<1>6. three \in Seq(Event) /\ Shown(store, three) = Shown(Shown(store, two), queue)
  BY <1>1, <1>5, ShownConcat, ConcatProperties
<1> HIDE DEF three
<1>7. Shown(store, three \o scheduled) = Shown(Shown(store, three), scheduled)
  BY <1>2, <1>6, ShownConcat
<1> QED BY <1>3, <1>4, <1>5, <1>6, <1>7 DEF three, two

LEMMA PageTyped == PageInv => TypeOK
<1> SUFFICES ASSUME PageInv PROVE TypeOK
  OBVIOUS
<1>0. ServerInv /\ PollInv /\ SocketInv /\ LinkInv /\ StoreInv
  BY DEF PageInv
<1>1. seq \in 0..MaxEvents /\ folds \in 0..MaxEvents
  <2>1. seq \in Nat /\ folds \in Nat /\ seq + folds <= MaxEvents
    BY <1>0 DEF ServerInv
  <2> QED BY <2>1, Ranges
<1>2. board \in View /\ store \in View \cup {None}
  BY <1>0 DEF ServerInv, StoreInv, Whole
<1>3. wire \in Seq(Event \cup [kind : {"snapshot"}, view : View]) /\ Len(wire) <= WireCap
  BY <1>0 DEF SocketInv, Message
<1>4. queue = None \/ (queue \in Seq(Event) /\ Len(queue) <= QueueCap)
  BY <1>0 DEF SocketInv
<1> QED BY <1>0, <1>1, <1>2, <1>3, <1>4 DEF TypeOK, ServerInv, PollInv, SocketInv, LinkInv, StoreInv

(* What a page holds is whole: once all that is under way has arrived it   *)
(* shows what the server has, no turn twice, and it always has a way to    *)
(* hear more (useConsole.tsx, server.py).                                  *)
THEOREM PageKept == Spec => []PageIsWhole
<1>1. Init => PageInv
  BY PageStarts
<1>2. PageInv /\ [Next]_vars => PageInv'
  BY PageStep
<1>3. PageInv => PageIsWhole
  <2> SUFFICES ASSUME PageInv PROVE PageIsWhole
    OBVIOUS
  <2>1. NoTurnTwice
    BY DEF PageInv, StoreInv, Whole, NoTurnTwice
  <2>2. NeverStranded
    BY DEF PageInv, LinkInv
  <2> QED BY <2>1, <2>2, PageTyped, NothingMissed DEF PageIsWhole
<1> QED BY <1>1, <1>2, <1>3, PTL DEF Spec

-----------------------------------------------------------------------------
(* The board of services. *)

(* The topics that the services with a clock speak on.                      *)
LEMMA Timely ==
  /\ Timed = {"simulator", "estimator", "speech"}
  /\ Services["simulator"].cadence = 5 /\ Services["estimator"].cadence = 5 /\ Services["speech"].cadence = 15
<1>1. Services["simulator"].cadence = 5 /\ Services["estimator"].cadence = 5 /\ Services["speech"].cadence = 15
  BY DEF Services
<1> QED BY <1>1 DEF Timed

LEMMA SpeakersTopics ==
  /\ Indoor \in Attributed["simulator"] /\ Thermal \in Attributed["estimator"] /\ Status \in Attributed["speech"]
<1>1. /\ TopicMatches(<<"sensor", "+", "state">>, Indoor)
      /\ TopicMatches(<<"estimate", "thermal">>, Thermal)
      /\ TopicMatches(<<"speech", "status">>, Status)
  <2>1. TopicMatches(<<"sensor", "+", "state">>, Indoor)
    BY DEF TopicMatches, Indoor
  <2>2. TopicMatches(<<"estimate", "thermal">>, Thermal)
    BY DEF TopicMatches, Thermal
  <2>3. TopicMatches(<<"speech", "status">>, Status)
    BY DEF TopicMatches, Status
  <2> QED BY <2>1, <2>2, <2>3
<1>2. /\ "simulator" \in DOMAIN Services /\ <<"sensor", "+", "state">> \in Services["simulator"].publishes
      /\ "estimator" \in DOMAIN Services /\ <<"estimate", "thermal">> \in Services["estimator"].publishes
      /\ "speech" \in DOMAIN Services /\ <<"speech", "status">> \in Services["speech"].publishes
  BY DEF Services
<1>3. Indoor \in Topics /\ Thermal \in Topics /\ Status \in Topics
  <2>1. ASSUME NEW c \in Contract PROVE Concrete(c.pattern) \in AllTopics
    BY DEF AllTopics
  <2>2. Spec1(<<"estimate", "thermal">>, 0, TRUE, {"estimator"}) \in Contract
    BY DEF Contract, PlantContract
  <2>3. Spec1(<<"speech", "status">>, 1, TRUE, {"speech"}) \in Contract
    BY DEF Contract, PeopleContract
  <2>4. Concrete(<<"estimate", "thermal">>) = Thermal
    BY DEF Concrete, Thermal
  <2>5. Concrete(<<"speech", "status">>) = Status
    BY DEF Concrete, Status
  <2>6. Thermal \in AllTopics
    BY <2>1, <2>2, <2>4 DEF Spec1
  <2>7. Status \in AllTopics
    BY <2>1, <2>3, <2>5 DEF Spec1
  <2> QED BY <2>6, <2>7 DEF Topics
<1> QED BY <1>1, <1>2, <1>3 DEF Attributed
Health == <<"sensor", "x", "health">>
Passing == {<<"fault", "x">>, <<"diagnosis", "x">>, <<"context", "profile", "x">>, <<"message", "status", "x">>, <<"inject", "x">>}

LEMMA TopicsSpoken ==
  /\ {Indoor, Outdoor, Relay, Thermal, Status, Health} \subseteq Topics
  /\ \A w \in Writes : w[2] \in Topics
  /\ Passing \cap {Indoor, Thermal, Status} = {}
  /\ Indoor # Thermal
<1>1. ASSUME NEW c \in Contract PROVE Concrete(c.pattern) \in Topics
  BY DEF AllTopics, Topics
<1>2. Relay \in Topics
  <2>1. Spec1(<<"actuator", "+", "state">>, 1, TRUE, {"simulator", "devices"}) \in Contract
    BY DEF Contract, PlantContract
  <2>2. Concrete(<<"actuator", "+", "state">>) = Relay
    BY DEF Concrete, Relay
  <2> QED BY <1>1, <2>1, <2>2 DEF Spec1
<1>3. Health \in Topics
  <2>1. Spec1(<<"sensor", "+", "health">>, 1, TRUE, {"detectors"}) \in Contract
    BY DEF Contract, PlantContract
  <2>2. Concrete(<<"sensor", "+", "health">>) = Health
    BY DEF Concrete, Health
  <2> QED BY <1>1, <2>1, <2>2 DEF Spec1
<1>4. Indoor \in Topics /\ Outdoor \in Topics /\ Thermal \in Topics /\ Status \in Topics
  BY SpeakersTopics DEF Attributed, Topics, Services
<1>5. ASSUME NEW w \in Writes PROVE w[2] \in Topics
  <2>1. PICK c \in Contract : w \in {<<by, Concrete(c.pattern)>> : by \in c.writers}
    BY DEF Writes
  <2>2. w[2] = Concrete(c.pattern)
    BY <2>1
  <2> QED BY <1>1, <2>2
<1>6. Passing \cap {Indoor, Thermal, Status} = {}
  BY DEF Passing, Indoor, Thermal, Status
<1>7. Indoor # Thermal
  BY DEF Indoor, Thermal
<1> QED BY <1>2, <1>3, <1>4, <1>5, <1>6, <1>7

(* Ages are counted to a number.                                            *)
LEMMA OldestIs ==
  ASSUME scene \in SceneType
  PROVE  Oldest \in Nat /\ Oldest >= 5
<1> DEFINE S == {5} \cup {Services[s].cadence : s \in scene.running \cap Timed}
           top == CHOOSE x \in S : \A y \in S : x >= y
<1>1. S \subseteq {5, 15} /\ 5 \in S
  BY Timely
<1>2. top \in S /\ \A y \in S : top >= y
  <2>1. \E x \in S : \A y \in S : x >= y
    <3>1. CASE 15 \in S
      BY <1>1, <3>1
    <3>2. CASE 15 \notin S
      BY <1>1, <3>2
    <3> QED BY <3>1, <3>2
  <2> HIDE DEF S
  <2> QED BY <2>1
<1>3. Max(S) = top
  BY DEF Max
<1>4. Oldest = 2 + 12 * (Max(S) \div 5)
  BY DEF Oldest, Unit
<1> HIDE DEF S, top
<1>5. Max(S) = 5 \/ Max(S) = 15
  BY <1>1, <1>2, <1>3
<1>6. 5 \div 5 = 1 /\ 15 \div 5 = 3
  OBVIOUS
<1> QED BY <1>4, <1>5, <1>6

LEMMA LesserIs ==
  ASSUME NEW a \in Nat, NEW b \in Nat
  PROVE  Min({a, b}) = IF a <= b THEN a ELSE b
<1> DEFINE c == CHOOSE x \in {a, b} : \A y \in {a, b} : x <= y
<1>1. \E x \in {a, b} : \A y \in {a, b} : x <= y
  OBVIOUS
<1>2. c \in {a, b} /\ \A y \in {a, b} : c <= y
  BY <1>1
<1>3. Min({a, b}) = c
  BY DEF Min
<1> HIDE DEF c
<1> QED BY <1>2, <1>3

(* The youngest of some ages is no older than any of them.                  *)
LEMMA YoungestIs ==
  ASSUME NEW I, I \subseteq Nat, NEW a \in I
  PROVE  Min(I) \in Nat /\ Min(I) <= a
<1> DEFINE c == CHOOSE x \in I : \A y \in I : x <= y
<1>1. \E x \in I : \A y \in I : x <= y
  BY Least
<1>2. c \in I /\ \A y \in I : c <= y
  BY <1>1
<1>3. Min(I) = c
  BY DEF Min
<1> HIDE DEF c
<1> QED BY <1>2, <1>3
-----------------------------------------------------------------------------
(* Who has been heard. *)

Recent(topic, age) == topic \in DOMAIN rows /\ rows[topic] <= age
Measured == "simulator" \in running
Modelled == Measured /\ "estimator" \in running /\ ~est.open

(* A service that runs speaks in time; only the estimator owes a word.      *)
Clocked ==
  /\ Measured => /\ waited.simulator <= 1 /\ waited.simulator <= waited.outdoor
                 /\ waited.simulator = 0 => waited.outdoor < Outdoors
  /\ "speech" \in running => waited.speech <= 3
  /\ est.open \/ est.owes => "estimator" \in running

(* Once nothing has started, died or been cut off for longer than a service *)
(* has been waiting to speak, its row is as old as its wait.                *)
PlantHeard == Measured /\ calm > waited.simulator => Recent(Indoor, waited.simulator)
SpeechHeard == "speech" \in running /\ calm > waited.speech => Recent(Status, waited.speech)
OutdoorsKnown == Measured /\ "estimator" \in running /\ calm > waited.outdoor => est.outdoor

(* The estimator in open loop speaks by its own clock; from readings, at    *)
(* the second that follows another by a step with the air outside known.    *)
OpenHeard ==
  /\ est.open /\ ~est.outdoor /\ Measured => waited.simulator = 1 /\ waited.outdoor = Outdoors /\ calm = 0
  /\ est.open /\ est.outdoor => /\ calm > 0 => waited.estimator <= 1
                                /\ calm > waited.estimator => Recent(Thermal, waited.estimator)
ModelHeard ==
  /\ Modelled /\ calm > waited.simulator => est.gap = waited.simulator
  /\ Modelled /\ est.outdoor /\ calm > waited.simulator + 1
       /\ (waited.outdoor > waited.simulator \/ calm > Outdoors + waited.simulator)
     => est.owes \/ Recent(Thermal, waited.simulator)
  /\ Modelled /\ calm = Settled => Recent(Thermal, 1)

HeardInv == Clocked /\ PlantHeard /\ SpeechHeard /\ OutdoorsKnown /\ OpenHeard /\ ModelHeard

ServicesOK ==
  /\ running \subseteq Actors
  /\ waited \in [Clocks -> 0..Outdoors]
  /\ est \in [known : BOOLEAN, gap : 0..2, outdoor : BOOLEAN, open : BOOLEAN, owes : BOOLEAN]
  /\ est.gap < 2 => est.known
  /\ distrusted \in BOOLEAN
  /\ scene \in SceneType /\ scene.skew \in {s.skew : s \in Scenes}
  /\ calm \in 0..Settled
RowsOK ==
  /\ kept \subseteq Topics
  /\ RowsType(rows) /\ RowsType(shown)
  /\ kept \subseteq DOMAIN rows
  /\ linked => shown = rows
  /\ linked \in BOOLEAN
  /\ DOMAIN writer \subseteq Topics

BoardInv == ServicesOK /\ RowsOK /\ HeardInv

LEMMA WaitsAre ==
  ASSUME ServicesOK
  PROVE  /\ waited.simulator \in Nat /\ waited.outdoor \in Nat /\ waited.estimator \in Nat /\ waited.speech \in Nat
         /\ waited.simulator \in 0..12 /\ waited.outdoor \in 0..12 /\ waited.estimator \in 0..12 /\ waited.speech \in 0..12
         /\ calm \in Nat /\ calm \in 0..14
BY DEF ServicesOK, Clocks, Outdoors, Settled

(* What is announced is fresh, and nothing else grows older by it.          *)
LEMMA Announced ==
  ASSUME ServicesOK, RowsOK, NEW by, NEW said, said \subseteq Topics, Announce(by, said),
         linked' = linked, scene'.running = scene.running
  PROVE  /\ RowsOK'
         /\ \A t \in said : t \in DOMAIN rows' /\ rows'[t] = 0
         /\ \A t, a : a >= 0 /\ Recent(t, a) => t \in DOMAIN rows' /\ rows'[t] <= a
<1>1. Oldest' = Oldest
  BY DEF Oldest
<1>2. 0 \in 0..Oldest
  BY OldestIs DEF ServicesOK
<1>3. /\ kept' = kept \cup (said \cap Retained) /\ rows' = Rowed(rows, said)
      /\ shown' = (IF linked THEN Rowed(shown, said) ELSE shown)
      /\ DOMAIN writer' = said \cup DOMAIN writer
  BY DEF Announce
<1>4. ASSUME NEW ages, RowsType(ages)
      PROVE  /\ DOMAIN Rowed(ages, said) = said \cup DOMAIN ages
             /\ \A t \in said : Rowed(ages, said)[t] = 0
             /\ \A t \in DOMAIN ages : Rowed(ages, said)[t] = IF t \in said THEN 0 ELSE ages[t]
             /\ DOMAIN Rowed(ages, said) \subseteq Topics /\ \A t \in DOMAIN Rowed(ages, said) : Rowed(ages, said)[t] \in 0..Oldest
  BY <1>2, <1>4 DEF Rowed, RowsType
<1>5. RowsType(rows)' /\ RowsType(shown)'
  BY <1>1, <1>3, <1>4 DEF RowsType, RowsOK
<1>6. kept' \subseteq Topics /\ kept' \subseteq DOMAIN rows' /\ DOMAIN writer' \subseteq Topics
  BY <1>3, <1>4 DEF RowsOK
<1>7. linked' \in BOOLEAN /\ (linked' => shown' = rows')
  BY <1>3 DEF RowsOK
<1>8. RowsOK'
  BY <1>5, <1>6, <1>7 DEF RowsOK
<1>9. \A t \in said : t \in DOMAIN rows' /\ rows'[t] = 0
  BY <1>3, <1>4 DEF RowsOK
<1>10. ASSUME NEW t, NEW a, a >= 0, Recent(t, a) PROVE t \in DOMAIN rows' /\ rows'[t] <= a
  BY <1>3, <1>4, <1>10 DEF RowsOK, Recent
<1> QED BY <1>8, <1>9, <1>10

(* Nothing started, ended or grew older.                                    *)
LEMMA StillHeard ==
  ASSUME ServicesOK, HeardInv, UNCHANGED services, UNCHANGED calm,
         \A t \in {Indoor, Thermal, Status} : \A a \in Nat : Recent(t, a) => t \in DOMAIN rows' /\ rows'[t] <= a
  PROVE  HeardInv'
<1>1. UNCHANGED <<running, waited, est, calm>>
  BY DEF services
<1>2. \A t \in {Indoor, Thermal, Status} : \A a \in Nat : Recent(t, a) => Recent(t, a)'
  BY DEF Recent
<1>3. /\ waited.simulator \in Nat /\ waited.estimator \in Nat /\ waited.speech \in Nat
  BY WaitsAre
<1>4. Clocked' /\ OutdoorsKnown'
  BY <1>1 DEF HeardInv, Clocked, OutdoorsKnown, Measured
<1>5. PlantHeard' /\ SpeechHeard'
  BY <1>1, <1>2, <1>3 DEF HeardInv, PlantHeard, SpeechHeard, Measured
<1>6. OpenHeard'
  BY <1>1, <1>2, <1>3 DEF HeardInv, OpenHeard, Measured
<1>7. ModelHeard'
  BY <1>1, <1>2, <1>3 DEF HeardInv, ModelHeard, Modelled, Measured
<1> QED BY <1>4, <1>5, <1>6, <1>7 DEF HeardInv

(* Something started, died or was cut off: all is to be heard anew.         *)
LEMMA Disturbed ==
  ASSUME ServicesOK', calm' = 0, Clocked',
         (est.open /\ ~est.outdoor /\ Measured)' => waited'.simulator = 1 /\ waited'.outdoor = Outdoors
  PROVE  HeardInv'
<1>1. /\ waited'.simulator \in Nat /\ waited'.outdoor \in Nat /\ waited'.estimator \in Nat /\ waited'.speech \in Nat
  BY DEF ServicesOK, Clocks, Outdoors
<1>2. ~(0 > waited'.simulator) /\ ~(0 > waited'.outdoor) /\ ~(0 > waited'.estimator) /\ ~(0 > waited'.speech)
  BY <1>1
<1>3. ~(0 > 0) /\ ~(0 > waited'.simulator + 1) /\ 0 # Settled
  BY <1>1 DEF Settled, Outdoors
<1>4. PlantHeard' /\ SpeechHeard' /\ OutdoorsKnown'
  BY <1>2 DEF PlantHeard, SpeechHeard, OutdoorsKnown
<1>5. OpenHeard'
  BY <1>2, <1>3 DEF OpenHeard
<1>6. ModelHeard'
  BY <1>2, <1>3 DEF ModelHeard
<1> QED BY <1>4, <1>5, <1>6 DEF HeardInv

LEMMA BoardStarts == BoardInit => BoardInv
<1> SUFFICES ASSUME BoardInit PROVE BoardInv
  OBVIOUS
<1> DEFINE none == << >>
<1>1. /\ scene \in Scenes /\ running = scene.running /\ waited = Period /\ est = Nothing
      /\ distrusted = FALSE /\ linked = TRUE /\ kept = {} /\ rows = none /\ shown = none /\ writer = none /\ calm = 0
  BY DEF BoardInit
<1>2. DOMAIN none = {}
  OBVIOUS
<1> HIDE DEF none
<1>3. scene \in SceneType /\ scene.skew \in {s.skew : s \in Scenes}
  BY <1>1, BoardAssumption
<1>4. waited \in [Clocks -> 0..12] /\ waited.simulator = 1 /\ waited.outdoor = 12 /\ waited.estimator = 1 /\ waited.speech = 3
  BY <1>1 DEF Period, Clocks, Outdoors
<1>5. est \in [known : BOOLEAN, gap : 0..2, outdoor : BOOLEAN, open : BOOLEAN, owes : BOOLEAN] /\ est.gap = 2
      /\ ~est.open /\ ~est.owes /\ ~est.outdoor
  BY <1>1 DEF Nothing
<1>6. ServicesOK
  <2>1. running \subseteq Actors
    BY <1>1, <1>3 DEF SceneType
  <2>2. 0 \in 0..Settled
    BY DEF Settled, Outdoors
  <2>3. calm \in 0..Settled /\ distrusted \in BOOLEAN
    BY <1>1, <2>2
  <2>4. est.gap < 2 => est.known
    BY <1>5
  <2>5. waited \in [Clocks -> 0..Outdoors]
    BY <1>4 DEF Outdoors
  <2> QED BY <1>3, <1>5, <2>1, <2>3, <2>4, <2>5 DEF ServicesOK
<1>7. RowsOK
  BY <1>1, <1>2 DEF RowsOK, RowsType
<1>8. HeardInv
  <2>1. Clocked
    BY <1>4, <1>5 DEF Clocked, Outdoors
  <2>2. PlantHeard /\ SpeechHeard /\ OutdoorsKnown
    BY <1>1, <1>4 DEF PlantHeard, SpeechHeard, OutdoorsKnown
  <2>3. OpenHeard /\ ModelHeard
    BY <1>1, <1>4, <1>5 DEF OpenHeard, ModelHeard, Settled, Outdoors
  <2> QED BY <2>1, <2>2, <2>3 DEF HeardInv
<1> QED BY <1>6, <1>7, <1>8 DEF BoardInv

(* What is said now and then, and withdrawn.                                *)
LEMMA Says ==
  ASSUME BoardInv, NEW by, NEW topic, Say(by, topic)
  PROVE  BoardInv'
<1>1. /\ <<by, topic>> \in scene.says /\ scene.words > 0 /\ scene' = [scene EXCEPT !.words = @ - 1]
      /\ Announce(by, {topic}) /\ UNCHANGED services /\ linked' = linked /\ calm' = calm
  BY DEF Say
<1>2. ServicesOK /\ RowsOK /\ HeardInv /\ scene \in SceneType
  BY DEF BoardInv, ServicesOK
<1>3. scene.words - 1 \in Nat
  <2>1. scene.words \in Nat
    BY <1>2 DEF SceneType
  <2> QED BY <1>1, <2>1
<1>4. scene' \in SceneType /\ scene'.running = scene.running /\ scene'.skew = scene.skew
  BY <1>1, <1>2, <1>3 DEF SceneType
<1>5. ServicesOK'
  BY <1>1, <1>2, <1>4 DEF ServicesOK, services
<1>6. topic \in Topics
  <2>1. <<by, topic>> \in Writes
    BY <1>1, <1>2 DEF SceneType
  <2>2. <<by, topic>>[2] \in Topics
    BY <2>1, TopicsSpoken
  <2> QED BY <2>2
<1>7. RowsOK' /\ \A t, a : a >= 0 /\ Recent(t, a) => t \in DOMAIN rows' /\ rows'[t] <= a
  BY <1>1, <1>2, <1>4, <1>6, Announced
<1>8. HeardInv'
  BY <1>1, <1>2, <1>7, StillHeard
<1> QED BY <1>5, <1>7, <1>8 DEF BoardInv

LEMMA Withdraws ==
  ASSUME BoardInv, NEW topic, Withdraw(topic)
  PROVE  BoardInv'
<1>1. /\ topic \in kept /\ topic \in Passing
      /\ kept' = kept \ {topic} /\ rows' = Removed(rows, topic)
      /\ shown' = (IF linked THEN Removed(shown, topic) ELSE shown)
      /\ UNCHANGED services /\ UNCHANGED <<linked, scene, writer, calm>>
  BY DEF Withdraw, Passing, Filtered
<1>2. ServicesOK /\ RowsOK /\ HeardInv
  BY DEF BoardInv
<1>3. ServicesOK'
  BY <1>1, <1>2 DEF ServicesOK, services
<1>4. ASSUME NEW ages, RowsType(ages)
      PROVE  RowsType(Removed(ages, topic))
  BY <1>4 DEF Removed, RowsType
<1>5. Oldest' = Oldest
  BY <1>1 DEF Oldest
<1>6. RowsType(rows)' /\ RowsType(shown)'
  BY <1>1, <1>2, <1>4, <1>5 DEF RowsOK, RowsType
<1>7. DOMAIN rows' = DOMAIN rows \ {topic} /\ \A t \in DOMAIN rows \ {topic} : rows'[t] = rows[t]
  BY <1>1 DEF Removed
<1>8. RowsOK'
  BY <1>1, <1>2, <1>6, <1>7 DEF RowsOK
<1>9. \A t \in {Indoor, Thermal, Status} : \A a \in Nat : Recent(t, a) => t \in DOMAIN rows' /\ rows'[t] <= a
  <2>1. topic \notin {Indoor, Thermal, Status}
    BY <1>1, TopicsSpoken
  <2> QED BY <1>7, <2>1 DEF Recent
<1>10. HeardInv'
  BY <1>1, <1>2, <1>9, StillHeard
<1> QED BY <1>3, <1>8, <1>10 DEF BoardInv

(* The console restarts, and the page is cut off and comes back.            *)
LEMMA Links ==
  ASSUME BoardInv, RestartConsole \/ Unlink \/ Link
  PROVE  BoardInv'
<1>1. ServicesOK /\ RowsOK /\ HeardInv /\ scene \in SceneType /\ UNCHANGED services /\ UNCHANGED <<kept, writer>>
  BY DEF BoardInv, ServicesOK, RestartConsole, Unlink, Link
<1>2. /\ scene' \in SceneType /\ scene'.running = scene.running /\ scene'.skew = scene.skew
  <2>1. scene.restarts \in Nat /\ scene.cuts \in Nat
    BY <1>1 DEF SceneType
  <2>2. CASE RestartConsole
    <3>1. scene.restarts - 1 \in Nat /\ scene' = [scene EXCEPT !.restarts = @ - 1]
      BY <2>1, <2>2 DEF RestartConsole
    <3> QED BY <1>1, <3>1 DEF SceneType
  <2>3. CASE Unlink
    <3>1. scene.cuts - 1 \in Nat /\ scene' = [scene EXCEPT !.cuts = @ - 1]
      BY <2>1, <2>3 DEF Unlink
    <3> QED BY <1>1, <3>1 DEF SceneType
  <2>4. CASE Link
    BY <1>1, <2>4 DEF Link
  <2> QED BY <2>2, <2>3, <2>4
<1>3. calm' \in 0..Settled
  <2>1. 0 \in 0..Settled
    BY DEF Settled, Outdoors
  <2> QED BY <1>1, <2>1 DEF RestartConsole, Unlink, Link, ServicesOK
<1>4. ServicesOK'
  BY <1>1, <1>2, <1>3 DEF ServicesOK, services
<1>5. Oldest' = Oldest /\ 0 \in 0..Oldest
  BY <1>1, <1>2, OldestIs DEF Oldest
<1>6. RowsOK'
  <2>1. CASE RestartConsole
    <3>1. rows' = [t \in kept |-> 0] /\ shown' = shown /\ linked' = FALSE
      BY <2>1 DEF RestartConsole, Redelivered
    <3>2. RowsType(rows)' /\ RowsType(shown)' /\ DOMAIN rows' = kept
      BY <1>1, <1>5, <3>1 DEF RowsType, RowsOK
    <3> QED BY <1>1, <3>1, <3>2 DEF RowsOK
  <2>2. CASE Unlink
    BY <1>1, <1>5, <2>2 DEF Unlink, RowsOK, RowsType
  <2>3. CASE Link
    BY <1>1, <1>5, <2>3 DEF Link, RowsOK, RowsType
  <2> QED BY <2>1, <2>2, <2>3
<1>7. HeardInv'
  <2>1. CASE calm' = 0
    <3>1. UNCHANGED <<running, waited, est>>
      BY <1>1 DEF services
    <3>2. Clocked'
      BY <1>1, <3>1 DEF HeardInv, Clocked, Measured
    <3>3. (est.open /\ ~est.outdoor /\ Measured)' => waited'.simulator = 1 /\ waited'.outdoor = Outdoors
      BY <1>1, <3>1 DEF HeardInv, OpenHeard, Measured
    <3> QED BY <1>4, <2>1, <3>2, <3>3, Disturbed
  <2>2. CASE Link
    <3>1. rows' = rows /\ calm' = calm
      BY <2>2 DEF Link
    <3> QED BY <1>1, <3>1, StillHeard DEF Recent
  <2> QED BY <2>1, <2>2 DEF RestartConsole, Unlink
<1> QED BY <1>4, <1>6, <1>7 DEF BoardInv

(* A service dies, or starts anew.                                          *)
LEMMA Lives ==
  ASSUME BoardInv, NEW s \in scene.mortal, Die(s) \/ Revive(s)
  PROVE  BoardInv'
<1>1. /\ ServicesOK /\ RowsOK /\ HeardInv /\ scene \in SceneType /\ calm' = 0
      /\ UNCHANGED <<distrusted, kept, rows, shown, linked, writer>>
  BY DEF BoardInv, ServicesOK, Die, Revive
<1>2. scene' \in SceneType /\ scene'.running = scene.running /\ scene'.skew = scene.skew
  <2>1. scene.deaths \in Nat
    BY <1>1 DEF SceneType
  <2>2. CASE Die(s)
    <3>1. scene.deaths - 1 \in Nat /\ scene' = [scene EXCEPT !.deaths = @ - 1]
      BY <2>1, <2>2 DEF Die
    <3> QED BY <1>1, <3>1 DEF SceneType
  <2>3. CASE Revive(s)
    BY <1>1, <2>3 DEF Revive
  <2> QED BY <2>2, <2>3
<1>3. Nothing \in [known : BOOLEAN, gap : 0..2, outdoor : BOOLEAN, open : BOOLEAN, owes : BOOLEAN] /\ Nothing.gap = 2
      /\ ~Nothing.open /\ ~Nothing.owes
  BY DEF Nothing
<1>4. /\ waited' \in [Clocks -> 0..Outdoors] /\ running' \subseteq Actors
  <2>1. \A c \in Clocks : Period[c] \in 0..Outdoors
    BY DEF Clocks, Period, Outdoors
  <2>2. s \in Actors
    BY <1>1 DEF SceneType
  <2> QED BY <1>1, <2>1, <2>2 DEF Die, Revive, ServicesOK
<1>5. /\ est' \in [known : BOOLEAN, gap : 0..2, outdoor : BOOLEAN, open : BOOLEAN, owes : BOOLEAN]
      /\ est'.gap < 2 => est'.known
      /\ est'.open \/ est'.owes => "estimator" \in running'
  <2>1. CASE est' = Nothing
    BY <1>3, <2>1
  <2>2. CASE est' = est /\ (s # "estimator" \/ Revive(s))
    BY <1>1, <2>2 DEF ServicesOK, HeardInv, Clocked, Die, Revive
  <2> QED BY <2>1, <2>2 DEF Die, Revive
<1>6. ServicesOK'
  <2>1. 0 \in 0..Settled
    BY DEF Settled, Outdoors
  <2> QED BY <1>1, <1>2, <1>4, <1>5, <2>1 DEF ServicesOK
<1>7. RowsOK'
  <2>1. Oldest' = Oldest
    BY <1>2 DEF Oldest
  <2> QED BY <1>1, <2>1 DEF RowsOK, RowsType
<1>8. /\ Clocked'
      /\ (est.open /\ ~est.outdoor /\ Measured)' => waited'.simulator = 1 /\ waited'.outdoor = Outdoors
  <2>1. CASE Die(s)
    <3>1. running' \subseteq running /\ waited' = waited /\ (est'.open => est' = est)
      BY <1>3, <2>1 DEF Die
    <3> QED BY <1>1, <1>5, <3>1 DEF HeardInv, Clocked, OpenHeard, Measured
  <2>2. CASE Revive(s)
    <3>1. /\ s \notin running /\ running' = running \cup {s} /\ est' = est
          /\ waited' = [c \in Clocks |-> IF c = s \/ (s = "simulator" /\ c = "outdoor") THEN Period[c] ELSE waited[c]]
      BY <2>2 DEF Revive
    <3>2. {"simulator", "outdoor", "speech"} \subseteq Clocks
      BY DEF Clocks
    <3>3. s # "outdoor"
      <4>1. s \in Actors
        BY <1>1 DEF SceneType
      <4> QED BY <4>1 DEF Actors, Services
    <3>4. CASE s = "simulator"
      <4>1. waited'.simulator = 1 /\ waited'.outdoor = 12 /\ waited'.speech = waited.speech
        BY <3>1, <3>2, <3>4 DEF Period, Outdoors
      <4> QED BY <1>1, <1>5, <3>1, <3>4, <4>1 DEF HeardInv, Clocked, Measured, Outdoors
    <3>5. CASE s # "simulator"
      <4>1. waited'.simulator = waited.simulator /\ waited'.outdoor = waited.outdoor
        BY <3>1, <3>2, <3>3, <3>5
      <4>2. "speech" \in running' => waited'.speech <= 3
        <5>1. CASE s = "speech"
          <6>1. waited'.speech = 3
            BY <3>1, <3>2, <5>1 DEF Period
          <6> QED BY <6>1
        <5>2. CASE s # "speech"
          <6>1. waited'.speech = waited.speech
            BY <3>1, <3>2, <3>5, <5>2
          <6> QED BY <1>1, <3>1, <5>2, <6>1 DEF HeardInv, Clocked
        <5> QED BY <5>1, <5>2
      <4>3. ("simulator" \in running') <=> ("simulator" \in running)
        BY <3>1, <3>5
      <4> QED BY <1>1, <1>5, <3>1, <4>1, <4>2, <4>3 DEF HeardInv, Clocked, OpenHeard, Measured
    <3> QED BY <3>4, <3>5
  <2> QED BY <2>1, <2>2
<1>9. HeardInv'
  BY <1>1, <1>6, <1>8, Disturbed
<1> QED BY <1>6, <1>7, <1>9 DEF BoardInv
(* The detectors' verdict: the estimator's loop opens, or closes.           *)
LEMMA Judges ==
  ASSUME BoardInv, Distrust \/ Trust
  PROVE  BoardInv'
<1>1. /\ ServicesOK /\ RowsOK /\ HeardInv /\ calm' = 0
      /\ Announce("detectors", {Health}) /\ UNCHANGED <<running, waited, linked, scene>>
      /\ distrusted' \in BOOLEAN
  BY DEF BoardInv, Distrust, Trust, Health
<1>2. /\ est' \in [known : BOOLEAN, gap : 0..2, outdoor : BOOLEAN, open : BOOLEAN, owes : BOOLEAN]
      /\ est'.gap < 2 => est'.known
      /\ est'.open \/ est'.owes => "estimator" \in running
      /\ ~(est'.open /\ Measured)  \/ est' = est
  <2>1. CASE Distrust
    <3>1. /\ est' = [est EXCEPT !.open = "estimator" \in running /\ est.known] /\ waited.simulator >= 4
      BY <2>1 DEF Distrust, Patience
    <3>2. ~Measured
      <4>1. ~(waited.simulator <= 1)
        BY <1>1, <3>1, WaitsAre
      <4> QED BY <1>1, <4>1 DEF HeardInv, Clocked
    <3>3. ("estimator" \in running /\ est.known) \in BOOLEAN
      OBVIOUS
    <3>4. /\ est'.gap = est.gap /\ est'.known = est.known /\ est'.owes = est.owes
          /\ est'.open = ("estimator" \in running /\ est.known)
          /\ est' \in [known : BOOLEAN, gap : 0..2, outdoor : BOOLEAN, open : BOOLEAN, owes : BOOLEAN]
      BY <1>1, <3>1, <3>3 DEF ServicesOK
    <3> QED BY <1>1, <3>2, <3>4 DEF ServicesOK, HeardInv, Clocked
  <2>2. CASE Trust /\ est.open
    <3>1. est' = [est EXCEPT !.open = FALSE, !.known = FALSE, !.gap = 2]
      BY <2>2 DEF Trust
    <3>2. /\ est'.gap = 2 /\ est'.owes = est.owes /\ est'.open = FALSE
          /\ est' \in [known : BOOLEAN, gap : 0..2, outdoor : BOOLEAN, open : BOOLEAN, owes : BOOLEAN]
      <4>1. est \in [known : BOOLEAN, gap : 0..2, outdoor : BOOLEAN, open : BOOLEAN, owes : BOOLEAN]
        BY <1>1 DEF ServicesOK
      <4>2. 2 \in 0..2
        OBVIOUS
      <4> QED BY <3>1, <4>1, <4>2
    <3>3. ~(2 < 2)
      OBVIOUS
    <3> QED BY <1>1, <3>2, <3>3 DEF HeardInv, Clocked
  <2>3. CASE Trust /\ ~est.open
    <3>1. est' = est
      BY <2>3 DEF Trust
    <3> QED BY <1>1, <3>1 DEF ServicesOK, HeardInv, Clocked
  <2> QED BY <2>1, <2>2, <2>3
<1>3. ServicesOK'
  <2>1. 0 \in 0..Settled
    BY DEF Settled, Outdoors
  <2> QED BY <1>1, <1>2, <2>1 DEF ServicesOK
<1>4. RowsOK'
  BY <1>1, TopicsSpoken, Announced
<1>5. Clocked'
  BY <1>1, <1>2 DEF HeardInv, Clocked, Measured
<1>6. (est.open /\ ~est.outdoor /\ Measured)' => waited'.simulator = 1 /\ waited'.outdoor = Outdoors
  BY <1>1, <1>2 DEF HeardInv, OpenHeard, Measured
<1>7. HeardInv'
  BY <1>1, <1>3, <1>5, <1>6, Disturbed
<1> QED BY <1>3, <1>4, <1>7 DEF BoardInv

(* Speech restates its status.                                              *)
LEMMA Restates ==
  ASSUME BoardInv, Restate
  PROVE  BoardInv'
<1>1. /\ ServicesOK /\ RowsOK /\ HeardInv
      /\ waited' = [waited EXCEPT !.speech = 0] /\ Announce("speech", {Status})
      /\ UNCHANGED <<running, est, distrusted, linked, scene, calm>>
  BY DEF BoardInv, Restate
<1>2. /\ waited' \in [Clocks -> 0..Outdoors] /\ waited'.speech = 0
      /\ waited'.simulator = waited.simulator /\ waited'.outdoor = waited.outdoor /\ waited'.estimator = waited.estimator
  <2>1. waited \in [Clocks -> 0..12]
    BY <1>1 DEF ServicesOK, Outdoors
  <2> QED BY <1>1, <2>1 DEF Clocks, Outdoors
<1>3. ServicesOK'
  BY <1>1, <1>2 DEF ServicesOK
<1>4. /\ RowsOK' /\ Status \in DOMAIN rows' /\ rows'[Status] = 0
      /\ \A t, a : a >= 0 /\ Recent(t, a) => t \in DOMAIN rows' /\ rows'[t] <= a
  BY <1>1, TopicsSpoken, Announced
<1>5. /\ waited.simulator \in Nat /\ waited.outdoor \in Nat /\ waited.estimator \in Nat
  BY <1>1, WaitsAre
<1>6. Clocked' /\ OutdoorsKnown'
  BY <1>1, <1>2 DEF HeardInv, Clocked, OutdoorsKnown, Measured
<1>7. PlantHeard' /\ SpeechHeard'
  BY <1>1, <1>2, <1>4, <1>5 DEF HeardInv, PlantHeard, SpeechHeard, Recent, Measured
<1>8. OpenHeard' /\ ModelHeard'
  <2>1. \A a \in Nat : Recent(Thermal, a) => Recent(Thermal, a)'
    BY <1>4 DEF Recent
  <2>2. OpenHeard'
    BY <1>1, <1>2, <1>5, <2>1 DEF HeardInv, OpenHeard, Measured
  <2>3. ModelHeard'
    BY <1>1, <1>2, <1>5, <2>1 DEF HeardInv, ModelHeard, Modelled, Measured
  <2> QED BY <2>2, <2>3
<1>9. HeardInv'
  BY <1>6, <1>7, <1>8 DEF HeardInv
<1> QED BY <1>3, <1>4, <1>9 DEF BoardInv

(* The estimator's word: after a reading, or by itself.                     *)
LEMMA Predicts ==
  ASSUME BoardInv, Predict \/ PredictAlone
  PROVE  BoardInv'
<1>1. /\ ServicesOK /\ RowsOK /\ HeardInv /\ Announce("estimator", {Thermal})
      /\ UNCHANGED <<running, distrusted, linked, scene, calm>>
  BY DEF BoardInv, Predict, PredictAlone
<1>2. /\ waited' \in [Clocks -> 0..Outdoors]
      /\ waited'.simulator = waited.simulator /\ waited'.outdoor = waited.outdoor /\ waited'.speech = waited.speech
      /\ waited'.estimator \in {0, waited.estimator}
  <2>1. waited \in [Clocks -> 0..12]
    BY <1>1 DEF ServicesOK, Outdoors
  <2>2. CASE waited' = waited
    BY <2>1, <2>2 DEF Outdoors
  <2>3. CASE waited' = [waited EXCEPT !.estimator = 0]
    BY <2>1, <2>3 DEF Clocks, Outdoors
  <2> QED BY <2>2, <2>3 DEF Predict, PredictAlone
<1>3. /\ est' \in [known : BOOLEAN, gap : 0..2, outdoor : BOOLEAN, open : BOOLEAN, owes : BOOLEAN]
      /\ est'.gap = est.gap /\ est'.known = est.known /\ est'.open = est.open /\ est'.outdoor = est.outdoor
      /\ est'.owes => est.owes
  BY <1>1 DEF Predict, PredictAlone, ServicesOK
<1>4. ServicesOK'
  BY <1>1, <1>2, <1>3 DEF ServicesOK
<1>5. /\ RowsOK' /\ Thermal \in DOMAIN rows' /\ rows'[Thermal] = 0
      /\ \A t, a : a >= 0 /\ Recent(t, a) => t \in DOMAIN rows' /\ rows'[t] <= a
  BY <1>1, TopicsSpoken, Announced
<1>6. /\ waited.simulator \in Nat /\ waited.outdoor \in Nat /\ waited.estimator \in Nat /\ waited.speech \in Nat
      /\ calm \in Nat
  BY <1>1, WaitsAre
<1>7. Clocked' /\ OutdoorsKnown'
  BY <1>1, <1>2, <1>3 DEF HeardInv, Clocked, OutdoorsKnown, Measured
<1>8. PlantHeard' /\ SpeechHeard'
  BY <1>1, <1>2, <1>5, <1>6 DEF HeardInv, PlantHeard, SpeechHeard, Recent, Measured
<1>9. \A a \in Nat : Recent(Thermal, a)'
  BY <1>5 DEF Recent
<1>10. OpenHeard'
  BY <1>1, <1>2, <1>3, <1>6, <1>9 DEF HeardInv, OpenHeard, Measured
<1>11. ModelHeard'
  BY <1>1, <1>2, <1>3, <1>6, <1>9 DEF HeardInv, ModelHeard, Modelled, Measured
<1> QED BY <1>4, <1>5, <1>7, <1>8, <1>10, <1>11 DEF BoardInv, HeardInv

(* The plant is measured: the estimator owes a word of the second reading   *)
(* that follows another by a step.                                          *)
LEMMA Measures ==
  ASSUME BoardInv, Measure
  PROVE  BoardInv'
<1> DEFINE outside == waited.outdoor = Outdoors
           learns == "estimator" \in running /\ ~est.open
           said == {Indoor, Relay} \cup (IF outside THEN {Outdoor} ELSE {})
<1>1. /\ ServicesOK /\ RowsOK /\ HeardInv /\ Measured /\ waited.simulator >= 1
      /\ waited' = [waited EXCEPT !.simulator = 0, !.outdoor = IF outside THEN 0 ELSE @]
      /\ est' = [est EXCEPT !.outdoor = @ \/ ("estimator" \in running /\ outside),
                            !.known = @ \/ learns,
                            !.gap = IF learns THEN 0 ELSE @,
                            !.owes = learns /\ est.gap = 1 /\ est.outdoor]
      /\ Announce("simulator", said)
      /\ UNCHANGED <<running, distrusted, linked, scene, calm>>
  BY DEF BoardInv, Measure, Measured, Period
<1>2. waited.simulator = 1 /\ waited.outdoor \in 0..12 /\ waited.outdoor >= 1
  BY <1>1, WaitsAre DEF HeardInv, Clocked
<1>3. /\ waited' \in [Clocks -> 0..Outdoors]
      /\ waited'.simulator = 0 /\ waited'.outdoor = (IF outside THEN 0 ELSE waited.outdoor)
      /\ waited'.speech = waited.speech /\ waited'.estimator = waited.estimator
  <2>1. waited \in [Clocks -> 0..12] /\ Outdoors = 12
    BY <1>1 DEF ServicesOK, Outdoors
  <2>2. (IF outside THEN 0 ELSE waited.outdoor) \in 0..12 /\ 0 \in 0..12
    BY <1>2
  <2> HIDE DEF outside
  <2> QED BY <1>1, <2>1, <2>2 DEF Clocks
<1>4. /\ est' \in [known : BOOLEAN, gap : 0..2, outdoor : BOOLEAN, open : BOOLEAN, owes : BOOLEAN]
      /\ est'.known = (est.known \/ learns) /\ est'.gap = (IF learns THEN 0 ELSE est.gap)
      /\ est'.owes = (learns /\ est.gap = 1 /\ est.outdoor)
      /\ est'.outdoor = (est.outdoor \/ ("estimator" \in running /\ outside)) /\ est'.open = est.open
  <2>1. /\ (est.outdoor \/ ("estimator" \in running /\ outside)) \in BOOLEAN
        /\ (est.known \/ learns) \in BOOLEAN /\ (learns /\ est.gap = 1 /\ est.outdoor) \in BOOLEAN
        /\ (IF learns THEN 0 ELSE est.gap) \in 0..2
    BY <1>1 DEF ServicesOK
  <2> HIDE DEF learns, outside
  <2> QED BY <1>1, <2>1 DEF ServicesOK
<1>5. ServicesOK'
  BY <1>1, <1>3, <1>4 DEF ServicesOK
<1>6. /\ RowsOK' /\ Indoor \in DOMAIN rows' /\ rows'[Indoor] = 0
      /\ \A t, a : a >= 0 /\ Recent(t, a) => t \in DOMAIN rows' /\ rows'[t] <= a
  BY <1>1, TopicsSpoken, Announced
<1>7. waited.speech \in Nat /\ waited.estimator \in Nat /\ calm \in Nat /\ outside \in BOOLEAN /\ learns \in BOOLEAN
      /\ Outdoors = 12 /\ Settled = 14
      /\ (outside <=> waited.outdoor = 12)
      /\ learns = ("estimator" \in running /\ ~est.open)
  BY <1>1, WaitsAre DEF Outdoors, Settled
<1> HIDE DEF outside, learns, said
<1>8. Clocked'
  <2>1. waited'.outdoor \in Nat /\ waited'.outdoor < 12
    BY <1>2, <1>3, <1>7
  <2>2. waited'.simulator <= 1 /\ waited'.simulator <= waited'.outdoor
    BY <1>3, <2>1
  <2>3. waited'.simulator = 0 => waited'.outdoor < Outdoors
    BY <1>7, <2>1
  <2>4. "speech" \in running' => waited'.speech <= 3
    BY <1>1, <1>3 DEF HeardInv, Clocked
  <2>5. est'.open \/ est'.owes => "estimator" \in running'
    BY <1>1, <1>4, <1>7 DEF HeardInv, Clocked
  <2> QED BY <2>2, <2>3, <2>4, <2>5 DEF Clocked
<1>9. PlantHeard' /\ SpeechHeard'
  <2>1. \A a \in Nat : Recent(Status, a) => Recent(Status, a)'
    BY <1>6 DEF Recent
  <2> QED BY <1>1, <1>3, <1>6, <1>7, <2>1 DEF HeardInv, PlantHeard, SpeechHeard, Recent, Measured
<1>10. OutdoorsKnown'
  <2>1. CASE outside
    BY <1>1, <1>4, <2>1 DEF OutdoorsKnown
  <2>2. CASE ~outside
    BY <1>1, <1>3, <1>4, <2>2 DEF HeardInv, OutdoorsKnown, Measured
  <2> QED BY <1>7, <2>1, <2>2
<1>11. \A a \in Nat : Recent(Thermal, a) => Recent(Thermal, a)'
  BY <1>6 DEF Recent
<1>12. OpenHeard'
  <2>1. CASE ~est.open
    BY <1>4, <2>1 DEF OpenHeard
  <2>2. CASE est.open /\ est.outdoor
    BY <1>1, <1>3, <1>4, <1>7, <1>11, <2>2 DEF HeardInv, OpenHeard
  <2>3. CASE est.open /\ ~est.outdoor
    <3>1. waited.outdoor = 12 /\ calm = 0 /\ "estimator" \in running
      BY <1>1, <1>7, <2>3 DEF HeardInv, OpenHeard, Clocked
    <3>2. est'.outdoor /\ calm' = 0
      BY <1>1, <1>4, <1>7, <3>1
    <3>3. ~(0 > 0) /\ ~(0 > waited.estimator)
      BY <1>7
    <3> QED BY <1>3, <3>2, <3>3 DEF OpenHeard
  <2> QED BY <2>1, <2>2, <2>3
<1>13. ModelHeard'
  <2> SUFFICES ASSUME Modelled' PROVE ModelHeard'
    BY DEF ModelHeard
  <2>1. Modelled /\ learns /\ calm' = calm
    BY <1>1, <1>4, <1>7 DEF Modelled, Measured
  <2>2. est'.gap = 0
    BY <1>4, <2>1
  <2>3. ASSUME est'.outdoor, calm > 1, waited'.outdoor > 0 \/ calm > 12
        PROVE  est'.owes
    <3>1. est.gap = 1
      BY <1>1, <1>2, <2>1, <2>3 DEF HeardInv, ModelHeard
    <3>2. est.outdoor
      <4>1. CASE outside
        <5>1. calm > waited.outdoor
          BY <1>3, <1>7, <2>3, <4>1
        <5> QED BY <1>1, <1>7, <2>1, <5>1 DEF HeardInv, OutdoorsKnown, Measured
      <4>2. CASE ~outside
        BY <1>4, <2>3, <4>2
      <4> QED BY <4>1, <4>2
    <3> QED BY <1>4, <2>1, <3>1, <3>2
  <2>4. calm = Settled => Recent(Thermal, 1)'
    BY <1>1, <1>11, <2>1 DEF HeardInv, ModelHeard
  <2> QED BY <1>3, <1>7, <2>1, <2>2, <2>3, <2>4 DEF ModelHeard
<1> QED BY <1>5, <1>6, <1>8, <1>9, <1>10, <1>12, <1>13 DEF BoardInv, HeardInv
(* Time passes: everybody who could speak in it has.                        *)
LEMMA Ticks ==
  ASSUME BoardInv, Tick
  PROVE  BoardInv'
<1>1. /\ ServicesOK /\ RowsOK /\ HeardInv /\ ~est.owes
      /\ UNCHANGED <<running, distrusted, kept, linked, scene, writer>>
      /\ rows' = Older(rows) /\ shown' = Older(shown)
  BY DEF BoardInv, Tick
<1>2. /\ Outdoors = 12 /\ Settled = 14 /\ Patience = 4
      /\ waited.simulator \in 0..12 /\ waited.outdoor \in 0..12 /\ waited.estimator \in 0..12 /\ waited.speech \in 0..12
      /\ calm \in 0..14
  BY <1>1, WaitsAre DEF Outdoors, Settled, Patience
<1>3. /\ "simulator" \in running => waited.simulator = 0
      /\ "speech" \in running => waited.speech < 3
      /\ est.open /\ est.outdoor => waited.estimator = 0
  <2>1. /\ "simulator" \in running => waited.simulator < 1
        /\ "speech" \in running => waited.speech < 3
        /\ est.open /\ est.outdoor => waited.estimator < 1
    BY DEF Tick, Period
  <2> QED BY <1>2, <2>1
<1>4. /\ waited' \in [Clocks -> 0..Outdoors]
      /\ waited'.simulator = (IF waited.simulator + 1 <= 4 THEN waited.simulator + 1 ELSE 4)
      /\ waited'.speech = (IF waited.speech + 1 <= 4 THEN waited.speech + 1 ELSE 4)
      /\ waited'.estimator = (IF waited.estimator + 1 <= 4 THEN waited.estimator + 1 ELSE 4)
      /\ waited'.outdoor = (IF waited.outdoor + 1 <= 12 THEN waited.outdoor + 1 ELSE 12)
  <2>1. waited' = [c \in Clocks |-> Min({waited[c] + 1, IF c = "outdoor" THEN 12 ELSE 4})]
    BY <1>2 DEF Tick
  <2>2. \A c \in Clocks : waited[c] \in 0..12
    BY <1>1, <1>2 DEF ServicesOK
  <2>3. ASSUME NEW c \in Clocks, NEW n \in {4, 12}
        PROVE  /\ Min({waited[c] + 1, n}) = (IF waited[c] + 1 <= n THEN waited[c] + 1 ELSE n)
               /\ Min({waited[c] + 1, n}) \in 0..12
    <3>1. waited[c] \in 0..12 /\ waited[c] + 1 \in Nat /\ n \in Nat
      BY <2>2
    <3>2. Min({waited[c] + 1, n}) = (IF waited[c] + 1 <= n THEN waited[c] + 1 ELSE n)
      BY <3>1, LesserIs
    <3> QED BY <3>1, <3>2
  <2>4. {"simulator", "outdoor", "estimator", "speech"} = Clocks
    BY DEF Clocks
  <2>5. waited' \in [Clocks -> 0..12]
    BY <2>1, <2>3
  <2> QED BY <1>2, <2>1, <2>3, <2>4, <2>5
<1>5. /\ est' \in [known : BOOLEAN, gap : 0..2, outdoor : BOOLEAN, open : BOOLEAN, owes : BOOLEAN]
      /\ est'.gap = (IF est.gap + 1 <= 2 THEN est.gap + 1 ELSE 2)
      /\ est'.known = est.known /\ est'.open = est.open /\ est'.outdoor = est.outdoor /\ est'.owes = est.owes
  <2>1. est \in [known : BOOLEAN, gap : 0..2, outdoor : BOOLEAN, open : BOOLEAN, owes : BOOLEAN]
    BY <1>1 DEF ServicesOK
  <2>2. est.gap \in 0..2 /\ est.gap + 1 \in Nat /\ 2 \in Nat
    BY <2>1
  <2>3. Min({est.gap + 1, 2}) = (IF est.gap + 1 <= 2 THEN est.gap + 1 ELSE 2)
    BY <2>2, LesserIs
  <2>4. Min({est.gap + 1, 2}) \in 0..2
    BY <2>2, <2>3
  <2>5. est' = [est EXCEPT !.gap = Min({@ + 1, 2})]
    BY DEF Tick
  <2> QED BY <2>1, <2>3, <2>4, <2>5
<1>6. calm' = (IF calm + 1 <= 14 THEN calm + 1 ELSE 14)
  <2>1. calm' = Min({calm + 1, 14}) /\ calm + 1 \in Nat /\ 14 \in Nat
    BY <1>2 DEF Tick
  <2> QED BY <2>1, LesserIs
<1>7. ServicesOK'
  <2>1. est'.gap < 2 => est'.known
    <3>1. est.gap \in 0..2
      BY <1>1 DEF ServicesOK
    <3> QED BY <1>1, <1>5, <3>1 DEF ServicesOK
  <2>2. calm' \in 0..Settled
    BY <1>2, <1>6
  <2> QED BY <1>1, <1>4, <1>5, <2>1, <2>2 DEF ServicesOK
<1>8. Oldest' = Oldest /\ Oldest \in Nat /\ Oldest >= 5
  BY <1>1, OldestIs DEF Oldest, ServicesOK
<1>9. ASSUME NEW ages, RowsType(ages)
      PROVE  /\ DOMAIN Older(ages) = DOMAIN ages
             /\ \A t \in DOMAIN ages : Older(ages)[t] \in 0..Oldest /\ Older(ages)[t] <= ages[t] + 1
  <2>1. ASSUME NEW t \in DOMAIN ages
        PROVE  Min({ages[t] + 1, Oldest}) \in 0..Oldest /\ Min({ages[t] + 1, Oldest}) <= ages[t] + 1
    <3>1. ages[t] \in 0..Oldest /\ ages[t] + 1 \in Nat
      BY <1>8, <1>9 DEF RowsType
    <3>2. Min({ages[t] + 1, Oldest}) = (IF ages[t] + 1 <= Oldest THEN ages[t] + 1 ELSE Oldest)
      BY <1>8, <3>1, LesserIs
    <3> QED BY <1>8, <3>1, <3>2
  <2> QED BY <2>1 DEF Older
<1>10. RowsOK'
  <2>1. RowsType(rows)' /\ RowsType(shown)'
    BY <1>1, <1>8, <1>9 DEF RowsOK, RowsType
  <2>2. DOMAIN rows' = DOMAIN rows
    BY <1>1, <1>9 DEF RowsOK
  <2> QED BY <1>1, <2>1, <2>2 DEF RowsOK
<1>11. ASSUME NEW t, NEW a \in Nat, NEW b \in Nat, b >= a + 1, Recent(t, a)
       PROVE  t \in DOMAIN rows' /\ rows'[t] <= b
  <2>1. t \in DOMAIN rows /\ rows[t] <= a /\ rows[t] \in 0..Oldest
    BY <1>1, <1>11 DEF Recent, RowsOK, RowsType
  <2>2. t \in DOMAIN rows' /\ rows'[t] <= rows[t] + 1 /\ rows'[t] \in 0..Oldest
    BY <1>1, <1>9, <2>1 DEF RowsOK
  <2>3. rows[t] \in Nat /\ rows'[t] \in Nat
    BY <1>8, <2>1, <2>2
  <2> QED BY <1>11, <2>1, <2>2, <2>3
<1>12. ASSUME NEW t, NEW a \in Nat, NEW b \in Nat, b >= a + 1
       PROVE  Recent(t, a) => t \in DOMAIN rows' /\ rows'[t] <= b
  BY <1>11, <1>12
<1>13. Clocked'
  <2>1. Measured' => waited'.simulator = 1 /\ waited'.outdoor >= 1
    BY <1>1, <1>2, <1>3, <1>4 DEF Measured
  <2>2. "speech" \in running' => waited'.speech <= 3
    BY <1>1, <1>2, <1>3, <1>4
  <2>3. waited'.outdoor \in 0..12
    BY <1>2, <1>4
  <2> QED BY <1>1, <1>5, <2>1, <2>2, <2>3 DEF HeardInv, Clocked
<1>14. PlantHeard'
  <2> SUFFICES ASSUME Measured', calm' > waited'.simulator PROVE Recent(Indoor, waited.simulator)'
    BY DEF PlantHeard
  <2>1. Measured /\ waited.simulator = 0 /\ waited'.simulator = 1 /\ calm > 0
    BY <1>1, <1>2, <1>3, <1>4, <1>6 DEF Measured
  <2>2. Recent(Indoor, 0)
    BY <1>1, <2>1 DEF HeardInv, PlantHeard
  <2> QED BY <1>12, <2>1, <2>2 DEF Recent
<1>15. SpeechHeard'
  <2> SUFFICES ASSUME "speech" \in running', calm' > waited'.speech PROVE Recent(Status, waited.speech)'
    BY DEF SpeechHeard
  <2>1. "speech" \in running /\ waited'.speech = waited.speech + 1 /\ calm > waited.speech
    BY <1>1, <1>2, <1>3, <1>4, <1>6
  <2>2. Recent(Status, waited.speech)
    BY <1>1, <2>1 DEF HeardInv, SpeechHeard
  <2>3. waited.speech \in Nat /\ waited.speech + 1 \in Nat /\ waited.speech + 1 >= waited.speech + 1
    BY <1>2
  <2> QED BY <1>12, <2>1, <2>2, <2>3 DEF Recent
<1>16. OutdoorsKnown'
  <2> SUFFICES ASSUME Measured', "estimator" \in running', calm' > waited'.outdoor PROVE est'.outdoor
    BY DEF OutdoorsKnown
  <2>1. Measured /\ waited.simulator = 0 /\ waited.outdoor < 12
    BY <1>1, <1>2, <1>3 DEF Measured, HeardInv, Clocked
  <2>2. calm > waited.outdoor
    BY <1>2, <1>4, <1>6, <2>1
  <2> QED BY <1>1, <1>5, <2>1, <2>2 DEF HeardInv, OutdoorsKnown
<1>17. OpenHeard'
  <2>1. ~(est.open /\ ~est.outdoor /\ Measured)
    BY <1>1, <1>3 DEF HeardInv, OpenHeard, Measured
  <2>2. ASSUME est.open, est.outdoor
        PROVE  waited'.estimator = 1 /\ (calm' > waited'.estimator => Recent(Thermal, waited.estimator)')
    <3>1. waited.estimator = 0 /\ waited'.estimator = 1
      BY <1>3, <1>4, <2>2
    <3>2. ASSUME calm' > 1 PROVE Recent(Thermal, 0)
      <4>1. calm > 0
        BY <1>2, <1>6, <3>2
      <4> QED BY <1>1, <2>2, <3>1, <4>1 DEF HeardInv, OpenHeard
    <3> QED BY <1>12, <3>1, <3>2 DEF Recent
  <2>3. (est'.open => est.open) /\ est'.outdoor = est.outdoor /\ (Measured' => Measured)
    BY <1>1, <1>5 DEF Measured
  <2> QED BY <2>1, <2>2, <2>3 DEF OpenHeard
<1>18. ModelHeard'
  <2> SUFFICES ASSUME Modelled' PROVE ModelHeard'
    BY DEF ModelHeard
  <2>1. Modelled /\ Measured /\ waited.simulator = 0 /\ waited'.simulator = 1 /\ waited.outdoor < 12
        /\ waited'.outdoor = waited.outdoor + 1
    BY <1>1, <1>2, <1>3, <1>4, <1>5 DEF Modelled, Measured, HeardInv, Clocked
  <2>2. calm' > 1 => est'.gap = 1
    <3> SUFFICES ASSUME calm' > 1 PROVE est'.gap = 1
      OBVIOUS
    <3>1. calm > 0
      BY <1>2, <1>6
    <3>2. est.gap = 0
      BY <1>1, <2>1, <3>1 DEF HeardInv, ModelHeard
    <3> QED BY <1>5, <3>2
  <2>3. ASSUME est.outdoor, calm' > 2, waited'.outdoor > 1 \/ calm' > 13
        PROVE  Recent(Thermal, 1)'
    <3>1. calm > 1 /\ (waited.outdoor > 0 \/ calm > 12)
      BY <1>2, <1>6, <2>1, <2>3
    <3>2. Recent(Thermal, 0)
      BY <1>1, <1>2, <2>1, <2>3, <3>1 DEF HeardInv, ModelHeard
    <3> QED BY <1>12, <3>2 DEF Recent
  <2>4. calm' = 14 => est.outdoor /\ calm' > 2 /\ calm' > 13
    <3> SUFFICES ASSUME calm' = 14 PROVE est.outdoor /\ calm' > 2 /\ calm' > 13
      OBVIOUS
    <3>1. calm > waited.outdoor
      BY <1>2, <1>6, <2>1
    <3>2. est.outdoor
      BY <1>1, <2>1, <3>1 DEF HeardInv, OutdoorsKnown, Modelled
    <3> QED BY <3>2
  <2>5. est'.outdoor = est.outdoor
    BY <1>5
  <2> QED BY <1>2, <2>1, <2>2, <2>3, <2>4, <2>5 DEF ModelHeard
<1> QED BY <1>7, <1>10, <1>13, <1>14, <1>15, <1>16, <1>17, <1>18 DEF BoardInv, HeardInv

LEMMA BoardSteps == BoardInv /\ [BoardNext]_boardVars => BoardInv'
<1> SUFFICES ASSUME BoardInv, [BoardNext]_boardVars PROVE BoardInv'
  OBVIOUS
<1>1. CASE Measure
  BY <1>1, Measures
<1>2. CASE Predict \/ PredictAlone
  BY <1>2, Predicts
<1>3. CASE Distrust \/ Trust
  BY <1>3, Judges
<1>4. CASE Restate
  BY <1>4, Restates
<1>5. CASE Tick
  BY <1>5, Ticks
<1>6. CASE \E w \in Writes : Say(w[1], w[2])
  BY <1>6, Says
<1>7. CASE \E t \in kept : Withdraw(t)
  BY <1>7, Withdraws
<1>8. CASE \E s \in scene.mortal : Die(s) \/ Revive(s)
  BY <1>8, Lives
<1>9. CASE RestartConsole \/ Unlink \/ Link
  BY <1>9, Links
<1>10. CASE UNCHANGED boardVars
  <2>1. UNCHANGED services /\ UNCHANGED <<kept, rows, shown, linked, scene, writer, calm>>
    BY <1>10 DEF boardVars, services
  <2>2. ServicesOK'
    BY <2>1 DEF BoardInv, ServicesOK, services
  <2>3. Oldest' = Oldest
    BY <2>1 DEF Oldest
  <2>4. RowsOK'
    BY <2>1, <2>3 DEF BoardInv, RowsOK, RowsType
  <2>5. HeardInv'
    BY <2>1, StillHeard DEF BoardInv, Recent
  <2> QED BY <2>2, <2>4, <2>5 DEF BoardInv
<1> QED BY <1>1, <1>2, <1>3, <1>4, <1>5, <1>6, <1>7, <1>8, <1>9, <1>10 DEF BoardNext
-----------------------------------------------------------------------------
(* What the board says of what has been heard. *)

(* A service is called live by one of its rows, if it is young enough.      *)
LEMMA LiveBy ==
  ASSUME ServicesOK, RowsOK, linked, scene.skew <= 10,
         NEW s \in Timed, NEW topic \in Attributed[s], NEW age \in Nat, Recent(topic, age),
         5 * age + 10 <= 3 * Services[s].cadence
  PROVE  Word(s) = "live"
<1> DEFINE ages == {shown[t] : t \in RowsOf(s)}
           cadence == Services[s].cadence
<1>1. cadence \in {5, 15}
  BY Timely
<1>2. shown = rows /\ topic \in RowsOf(s) /\ shown[topic] <= age
  BY DEF RowsOK, Recent, RowsOf
<1>3. ages \subseteq Nat /\ shown[topic] \in ages
  <2>1. Oldest \in Nat
    BY OldestIs DEF ServicesOK
  <2>2. \A t \in DOMAIN shown : shown[t] \in 0..Oldest
    BY DEF RowsOK, RowsType
  <2> QED BY <1>2, <2>1, <2>2 DEF RowsOf
<1> HIDE DEF ages
<1>4. Min(ages) \in Nat /\ Min(ages) <= shown[topic] /\ shown[topic] \in Nat
  BY <1>3, YoungestIs
<1>5. Since(s) = Min(ages) * 5 + scene.skew
  BY DEF Since, ages, Unit
<1>6. scene.skew \in Int
  BY DEF ServicesOK, SceneType
<1>7. Since(s) <= 3 * cadence
  BY <1>1, <1>2, <1>4, <1>5, <1>6
<1>8. RowsOf(s) # {} /\ cadence # 0
  BY <1>1, <1>2
<1> QED BY <1>7, <1>8 DEF Word

LEMMA NobodyAccused ==
  ASSUME BoardInv, scene.skew <= 10
  PROVE  NobodyAliveIsAccused
<1> SUFFICES ASSUME linked, calm = Settled, NEW s \in Timed \cap running, CanSpeak(s)
    PROVE  Word(s) = "live"
  BY DEF NobodyAliveIsAccused
<1>1. ServicesOK /\ RowsOK /\ HeardInv /\ calm = 14 /\ Settled = 14
  BY DEF BoardInv, Settled, Outdoors
<1>2. /\ waited.simulator \in 0..12 /\ waited.outdoor \in 0..12 /\ waited.estimator \in 0..12 /\ waited.speech \in 0..12
  BY <1>1, WaitsAre
<1>3. CASE s = "simulator"
  <2>1. Measured /\ waited.simulator <= 1 /\ Recent(Indoor, waited.simulator)
    BY <1>1, <1>2, <1>3 DEF HeardInv, Clocked, PlantHeard, Measured
  <2>2. waited.simulator \in Nat /\ 5 * waited.simulator + 10 <= 3 * 5
    BY <1>2, <2>1
  <2> QED BY <1>1, <1>3, <2>1, <2>2, Timely, SpeakersTopics, LiveBy
<1>4. CASE s = "speech"
  <2>1. waited.speech <= 3 /\ Recent(Status, waited.speech)
    BY <1>1, <1>2, <1>4 DEF HeardInv, Clocked, SpeechHeard
  <2>2. waited.speech \in Nat /\ 5 * waited.speech + 10 <= 3 * 15
    BY <1>2, <2>1
  <2> QED BY <1>1, <1>4, <2>1, <2>2, Timely, SpeakersTopics, LiveBy
<1>5. CASE s = "estimator"
  <2>1. \E age \in 0..1 : Recent(Thermal, age)
    <3>1. CASE est.open /\ est.outdoor
      <4>1. waited.estimator <= 1 /\ Recent(Thermal, waited.estimator)
        BY <1>1, <1>2, <3>1 DEF HeardInv, OpenHeard
      <4> QED BY <1>2, <4>1
    <3>2. CASE ~(est.open /\ est.outdoor)
      <4>1. Measured
        BY <1>5, <3>2 DEF CanSpeak, Measured
      <4>2. ~est.open
        BY <1>1, <3>2, <4>1 DEF HeardInv, OpenHeard
      <4>3. Recent(Thermal, 1)
        BY <1>1, <1>5, <4>1, <4>2 DEF HeardInv, ModelHeard, Modelled
      <4> QED BY <4>3
    <3> QED BY <3>1, <3>2
  <2>2. PICK age \in 0..1 : Recent(Thermal, age)
    BY <2>1
  <2>3. age \in Nat /\ 5 * age + 10 <= 3 * 5
    OBVIOUS
  <2> QED BY <1>1, <1>5, <2>2, <2>3, Timely, SpeakersTopics, LiveBy
<1> QED BY <1>3, <1>4, <1>5, Timely

(* The board's state is well formed, nobody who works is accused, and what  *)
(* the broker keeps the board has a row of.                                 *)
LEMMA BoardInvImplies ==
  ASSUME \A s \in Scenes : s.skew <= 10
  PROVE  BoardInv => BoardIsTrue
<1> SUFFICES ASSUME BoardInv PROVE BoardIsTrue
  OBVIOUS
<1>1. ServicesOK /\ RowsOK
  BY DEF BoardInv
<1>2. BoardTypeOK
  BY <1>1 DEF ServicesOK, RowsOK, BoardTypeOK
<1>3. scene.skew <= 10
  BY <1>1 DEF ServicesOK
<1>4. SilenceIsTrue
  BY <1>1 DEF RowsOK, SilenceIsTrue, NeverHeard, Live
<1> QED BY <1>2, <1>3, <1>4, NobodyAccused DEF BoardIsTrue

(* Whoever runs, dies, returns or says anything else, and however often the *)
(* console restarts or the page is cut off: on a page whose clock is no     *)
(* more than ten seconds ahead of the console's, each service with a clock  *)
(* of its own that runs is called live once all has been up for a minute,   *)
(* and a topic never heard only while the broker keeps nothing on it        *)
(* (services.ts, state.py).                                                 *)
THEOREM BoardKept ==
  ASSUME \A s \in Scenes : s.skew <= 10
  PROVE  BoardSpec => []BoardIsTrue
<1>1. BoardInit => BoardInv
  BY BoardStarts
<1>2. BoardInv /\ [BoardNext]_boardVars => BoardInv'
  BY BoardSteps
<1>3. BoardInv => BoardIsTrue
  BY BoardInvImplies
<1> QED BY <1>1, <1>2, <1>3, PTL DEF BoardSpec

-----------------------------------------------------------------------------
(* The robot's legs lie in the rooms of the plan. *)

InARoom(a) == \E r \in RoomsOf(plan) : Encloses(r, a)
Legs == [phase : Phases, to : Points]
Chained(at, steps) ==
  \A i \in DOMAIN steps : InOneRoom(IF i = 1 THEN at ELSE steps[i - 1].to, steps[i].to)

(* The room of a point holds it, and an id is of one room.                   *)
LEMMA RoomAtHolds ==
  ASSUME plan \in Plans, NEW a, InARoom(a)
  PROVE  \E r \in RoomsOf(plan) : r.id = RoomAt(plan, a) /\ Encloses(r, a)
<1> DEFINE at == {i \in DOMAIN plan.rooms : Encloses(plan.rooms[i], a)}
<1>1. plan.rooms \in Seq(RoomsOf(plan))
  BY FloorPlanAssumption
<1>2. at \subseteq Nat /\ at # {}
  BY <1>1 DEF InARoom, RoomsOf
<1>3. \E i \in at : \A j \in at : i <= j
  BY <1>2, Least
<1> DEFINE lowest == CHOOSE i \in at : \A j \in at : i <= j
<1>4. lowest \in at
  BY <1>3
<1>5. RoomAt(plan, a) = plan.rooms[lowest].id
  BY DEF RoomAt
<1> HIDE DEF lowest
<1> QED BY <1>4, <1>5 DEF RoomsOf

LEMMA IdsAreDistinct ==
  ASSUME plan \in Plans, NEW r \in RoomsOf(plan), NEW s \in RoomsOf(plan), r.id = s.id
  PROVE  r = s
BY FloorPlanAssumption DEF IsWhole, RoomsOf

LEMMA DoorIsInRooms ==
  ASSUME plan \in Plans, NEW d \in plan.doors, NEW r \in RoomsOf(plan), r.id \in d.between
  PROVE  Encloses(r, Point(d.x, d.y)) /\ Point(d.x, d.y) \in Points
<1>1. Encloses(RoomCalled(plan, r.id), d)
  BY FloorPlanAssumption DEF IsWhole
<1>2. RoomCalled(plan, r.id) = r
  BY IdsAreDistinct DEF RoomCalled
<1>3. Encloses(r, d)
  BY <1>1, <1>2
<1>4. d.x \in Int /\ d.y \in Int
  BY <1>3 DEF Encloses
<1> QED BY <1>3, <1>4 DEF Encloses, Point, Points

LEMMA WaysLieInRooms ==
  ASSUME plan \in Plans, NEW a \in Points, NEW b \in Points, InARoom(a), InARoom(b), NEW w \in Ways(a, b)
  PROVE  w \in Seq(Legs) /\ w # <<>> /\ Chained(a, w) /\ w[Len(w)].to = b
<1>1. PICK doors \in DoorsBetween(plan, RoomAt(plan, a), RoomAt(plan, b)) :
        w = [i \in DOMAIN doors |-> Walk(Point(doors[i].x, doors[i].y))] \o <<Walk(b)>>
  BY DEF Ways
<1>2. PICK n \in 0..(Len(plan.rooms) - 1) : doors \in DoorWays(plan, RoomAt(plan, a), RoomAt(plan, b), n)
  BY DEF DoorsBetween
<1>3. n \in Nat
  BY <1>2
<1>4. doors \in [1..n -> plan.doors]
  BY <1>2 DEF DoorWays
<1>5. PICK through \in [1..(n + 1) -> RoomIds(plan)] :
        /\ through[1] = RoomAt(plan, a) /\ through[n + 1] = RoomAt(plan, b)
        /\ \A i \in 1..n : doors[i].between = {through[i], through[i + 1]}
  BY <1>2 DEF DoorWays
<1>6. \A i \in 1..(n + 1) : \E r \in RoomsOf(plan) : r.id = through[i]
  BY DEF RoomIds
<1> DEFINE legs == [i \in DOMAIN doors |-> Walk(Point(doors[i].x, doors[i].y))]
           P(i) == IF i = n + 1 THEN b ELSE Point(doors[i].x, doors[i].y)
<1>7. \A i \in 1..n : /\ Point(doors[i].x, doors[i].y) \in Points
                      /\ \A r \in RoomsOf(plan) :
                           r.id \in {through[i], through[i + 1]} => Encloses(r, Point(doors[i].x, doors[i].y))
  <2> TAKE i \in 1..n
  <2>1. doors[i] \in plan.doors /\ doors[i].between = {through[i], through[i + 1]}
    BY <1>4, <1>5
  <2>2. PICK r \in RoomsOf(plan) : r.id = through[i]
    BY <1>3, <1>6
  <2> QED BY <2>1, <2>2, DoorIsInRooms
<1>8. legs \in Seq(Legs) /\ Len(legs) = n
  <2>1. \A i \in 1..n : Walk(Point(doors[i].x, doors[i].y)) \in Legs
    BY <1>7 DEF Walk, Step, Legs, Phases
  <2> QED BY <1>3, <1>4, <2>1
<1>9. <<Walk(b)>> \in Seq(Legs)
  BY DEF Walk, Step, Legs, Phases
<1>10. w \in Seq(Legs) /\ Len(w) = n + 1
  BY <1>1, <1>8, <1>9
<1>11. \A i \in 1..(n + 1) : w[i].to = P(i)
  <2>1. \A i \in 1..n : w[i] = legs[i]
    BY <1>1, <1>8, <1>9, <1>3
  <2>2. w[n + 1] = Walk(b)
    BY <1>1, <1>8, <1>9, <1>3
  <2>3. \A i \in 1..n : legs[i].to = Point(doors[i].x, doors[i].y)
    BY <1>4 DEF Walk, Step
  <2>4. Walk(b).to = b
    BY DEF Walk, Step
  <2> HIDE DEF legs
  <2> SUFFICES ASSUME NEW i \in 1..(n + 1) PROVE w[i].to = P(i)
    OBVIOUS
  <2>5. CASE i = n + 1
    BY <2>5, <2>2, <2>4
  <2>6. CASE i # n + 1
    <3>1. i \in 1..n
      BY <2>6, <1>3
    <3> QED BY <3>1, <2>6, <2>1, <2>3
  <2> QED BY <2>5, <2>6
<1> HIDE DEF legs, P
<1>12. ASSUME NEW i \in 1..(n + 1)
       PROVE  InOneRoom(IF i = 1 THEN a ELSE w[i - 1].to, w[i].to)
  <2>1. PICK r \in RoomsOf(plan) : r.id = through[i]
    BY <1>6
  <2>2. i = 1 => Encloses(r, a)
    BY <2>1, <1>5, RoomAtHolds, IdsAreDistinct
  <2>3. i # 1 => w[i - 1].to = Point(doors[i - 1].x, doors[i - 1].y) /\ Encloses(r, Point(doors[i - 1].x, doors[i - 1].y))
    <3> SUFFICES ASSUME i # 1 PROVE w[i - 1].to = Point(doors[i - 1].x, doors[i - 1].y)
                                    /\ Encloses(r, Point(doors[i - 1].x, doors[i - 1].y))
      OBVIOUS
    <3>1. i - 1 \in 1..n /\ i - 1 \in 1..(n + 1) /\ i - 1 # n + 1 /\ (i - 1) + 1 = i
      BY <1>3
    <3> QED BY <3>1, <1>7, <1>11, <2>1 DEF P
  <2>4. i # n + 1 => Encloses(r, w[i].to)
    <3> SUFFICES ASSUME i # n + 1 PROVE Encloses(r, w[i].to)
      OBVIOUS
    <3>1. i \in 1..n
      BY <1>3
    <3> QED BY <3>1, <1>7, <1>11, <2>1 DEF P
  <2>5. i = n + 1 => Encloses(r, w[i].to)
    BY <2>1, <1>5, <1>11, RoomAtHolds, IdsAreDistinct DEF P
  <2> QED BY <2>2, <2>3, <2>4, <2>5 DEF InOneRoom
<1> QED BY <1>3, <1>10, <1>11, <1>12 DEF Chained, P

(* One way after another. *)
LEMMA ChainedOn ==
  ASSUME NEW a, NEW v \in Seq(Legs), NEW w \in Seq(Legs), v # <<>>, Chained(a, v), Chained(v[Len(v)].to, w)
  PROVE  v \o w \in Seq(Legs) /\ v \o w # <<>> /\ Chained(a, v \o w) /\ (w # <<>> => (v \o w)[Len(v \o w)] = w[Len(w)])
<1> DEFINE u == v \o w
<1>1. u \in Seq(Legs) /\ Len(u) = Len(v) + Len(w) /\ Len(v) \in Nat /\ Len(w) \in Nat /\ Len(v) > 0
  OBVIOUS
<1>2. /\ \A i \in 1..Len(v) : u[i] = v[i]
      /\ \A i \in 1..Len(w) : u[Len(v) + i] = w[i]
  OBVIOUS
<1> HIDE DEF u
<1>3. ASSUME NEW i \in 1..Len(u)
      PROVE  InOneRoom(IF i = 1 THEN a ELSE u[i - 1].to, u[i].to)
  <2>1. CASE i <= Len(v)
    <3>1. i \in DOMAIN v /\ u[i] = v[i] /\ (i # 1 => u[i - 1] = v[i - 1])
      BY <1>1, <1>2, <2>1
    <3> QED BY <3>1 DEF Chained
  <2>2. CASE i > Len(v)
    <3> DEFINE j == i - Len(v)
    <3>1. j \in 1..Len(w) /\ i = Len(v) + j /\ i # 1
      BY <1>1, <2>2
    <3>2. u[i] = w[j]
      BY <1>2, <3>1
    <3>3. u[i - 1] = IF j = 1 THEN v[Len(v)] ELSE w[j - 1]
      <4>1. CASE j = 1
        BY <4>1, <1>1, <1>2, <3>1
      <4>2. CASE j # 1
        <5>1. j - 1 \in 1..Len(w) /\ i - 1 = Len(v) + (j - 1)
          BY <4>2, <1>1, <3>1
        <5> QED BY <5>1, <4>2, <1>2
      <4> QED BY <4>1, <4>2
    <3> HIDE DEF j
    <3>4. InOneRoom(IF j = 1 THEN v[Len(v)].to ELSE w[j - 1].to, w[j].to)
      <4>1. j \in DOMAIN w
        BY <3>1
      <4> QED BY <4>1 DEF Chained
    <3> QED BY <3>1, <3>2, <3>3, <3>4
  <2> QED BY <2>1, <2>2, <1>1
<1>4. Chained(a, u)
  BY <1>1, <1>3 DEF Chained
<1>5. w # <<>> => u[Len(u)] = w[Len(w)]
  BY <1>1, <1>2
<1> QED BY <1>1, <1>4, <1>5 DEF u

LEMMA SpotsLieInRooms ==
  ASSUME plan \in Plans, NEW name \in {"dock", "dog_bowl", "corner", "far_corner"}
  PROVE  plan.spots[name] \in Points /\ InARoom(plan.spots[name])
BY FloorPlanAssumption, HouseViewAssumption DEF IsWhole, InARoom

LEMMA CentreLiesInRoom ==
  ASSUME plan \in Plans, NEW r \in RoomsOf(plan)
  PROVE  Centre(r) \in Points /\ InARoom(Centre(r))
<1>1. r.x \in Int /\ r.y \in Int /\ r.width \in Nat /\ r.depth \in Nat
  BY FloorPlanAssumption
<1>2. r.width \div 2 \in 0..r.width /\ r.depth \div 2 \in 0..r.depth
  BY <1>1
<1>3. Centre(r).x = r.x + r.width \div 2 /\ Centre(r).y = r.y + r.depth \div 2
  BY DEF Centre, Point
<1>4. Encloses(r, Centre(r))
  BY <1>1, <1>2, <1>3 DEF Encloses
<1>5. Centre(r) \in Points
  BY <1>1, <1>2 DEF Centre, Point, Points
<1> QED BY <1>4, <1>5 DEF InARoom

Errands(at) == Feeding(at) \cup Cleaning(at) \cup Visits(at) \cup Ways(at, Home) \cup {<<>>}

(* Whatever is asked of the robot, wherever it is. *)
LEMMA ErrandsLieInRooms ==
  ASSUME plan \in Plans, NEW a \in Points, InARoom(a), NEW steps \in Errands(a)
  PROVE  steps \in Seq(Legs) /\ Chained(a, steps)
<1>1. Home \in Points /\ InARoom(Home)
  BY SpotsLieInRooms DEF Home
<1>2. CASE steps = <<>>
  BY <1>2 DEF Chained
<1>3. CASE steps \in Ways(a, Home)
  BY <1>1, <1>3, WaysLieInRooms
<1>4. CASE steps \in Visits(a)
  <2>1. PICK r \in RoomsOf(plan) : steps \in Ways(a, Centre(r))
    BY <1>4 DEF Visits
  <2> QED BY <2>1, CentreLiesInRoom, WaysLieInRooms
<1>5. CASE steps \in Feeding(a)
  <2> DEFINE bowl == plan.spots["dog_bowl"]
             work == <<Step("feeding", bowl)>>
  <2>1. PICK out \in Ways(a, bowl), back \in Ways(bowl, Home) : steps = out \o work \o back
    BY <1>5 DEF Feeding
  <2>2. bowl \in Points /\ InARoom(bowl)
    BY SpotsLieInRooms
  <2>3. work \in Seq(Legs) /\ work # <<>> /\ Len(work) = 1 /\ work[1].to = bowl
    BY <2>2 DEF Step, Legs, Phases
  <2> HIDE DEF bowl, work
  <2>4. out \in Seq(Legs) /\ out # <<>> /\ Chained(a, out) /\ out[Len(out)].to = bowl
    BY <2>2, WaysLieInRooms
  <2>5. back \in Seq(Legs) /\ Chained(bowl, back)
    BY <1>1, <2>2, WaysLieInRooms
  <2>6. Chained(bowl, work)
    BY <2>2, <2>3 DEF Chained, InOneRoom, InARoom
  <2>7. out \o work \in Seq(Legs) /\ out \o work # <<>> /\ Chained(a, out \o work) /\ (out \o work)[Len(out \o work)].to = bowl
    BY <2>3, <2>4, <2>6, ChainedOn
  <2> QED BY <2>1, <2>5, <2>7, ChainedOn
<1>6. CASE steps \in Cleaning(a)
  <2> DEFINE corner == plan.spots["corner"]
             far == plan.spots["far_corner"]
             work == <<Step("cleaning", far)>>
  <2>1. PICK out \in Ways(a, corner), back \in Ways(far, Home) : steps = out \o work \o back
    BY <1>6 DEF Cleaning
  <2>2. corner \in Points /\ InARoom(corner) /\ far \in Points /\ InARoom(far) /\ InOneRoom(corner, far)
    BY SpotsLieInRooms, HouseViewAssumption DEF InOneRoom
  <2>3. work \in Seq(Legs) /\ work # <<>> /\ Len(work) = 1 /\ work[1].to = far
    BY <2>2 DEF Step, Legs, Phases
  <2> HIDE DEF corner, far, work
  <2>4. out \in Seq(Legs) /\ out # <<>> /\ Chained(a, out) /\ out[Len(out)].to = corner
    BY <2>2, WaysLieInRooms
  <2>5. back \in Seq(Legs) /\ Chained(far, back)
    BY <1>1, <2>2, WaysLieInRooms
  <2>6. Chained(corner, work)
    BY <2>2, <2>3 DEF Chained
  <2>7. out \o work \in Seq(Legs) /\ out \o work # <<>> /\ Chained(a, out \o work) /\ (out \o work)[Len(out \o work)].to = far
    BY <2>3, <2>4, <2>6, ChainedOn
  <2> QED BY <2>1, <2>5, <2>7, ChainedOn
<1> QED BY <1>2, <1>3, <1>4, <1>5, <1>6 DEF Errands

(* A part of a way between two places, rounded, is between them.             *)
LEMMA PartOfWay ==
  ASSUME NEW a \in Int, NEW b \in Int, NEW w \in Nat, NEW l \in Nat, l > 0, w <= l,
         NEW lo \in Int, NEW hi \in Int, lo <= a, a <= hi, lo <= b, b <= hi
  PROVE  /\ a + ((b - a) * w) \div l \in Int
         /\ lo <= a + ((b - a) * w) \div l
         /\ a + ((b - a) * w) \div l <= hi
         /\ w = l => a + ((b - a) * w) \div l = b
<1> DEFINE d == (b - a) * w
           q == d \div l
<1>1. d \in Int /\ q \in Int /\ l * q <= d /\ d < l * q + l
  OBVIOUS
<1>2. CASE b >= a
  <2>1. 0 <= d /\ d <= (b - a) * l
    BY <1>2
  <2>2. l * q <= l * (b - a) /\ l * (q + 1) > 0
    BY <1>1, <2>1
  <2> HIDE DEF d, q
  <2>3. q <= b - a
    BY <1>1, <2>2
  <2>4. q >= 0
    BY <1>1, <2>2
  <2>5. w = l => d = l * (b - a)
    BY DEF d
  <2>6. w = l => l * (b - a) < l * (q + 1)
    BY <1>1, <2>5
  <2>7. w = l => b - a < q + 1
    BY <1>1, <2>6
  <2> QED BY <1>1, <2>3, <2>4, <2>7 DEF d, q
<1>3. CASE b < a
  <2>1. (b - a) * l <= d /\ d <= 0
    BY <1>3
  <2>2. l * (b - a) < l * (q + 1) /\ l * q <= 0
    BY <1>1, <2>1
  <2> HIDE DEF d, q
  <2>3. b - a < q + 1
    BY <1>1, <2>2
  <2>4. q <= 0
    BY <1>1, <2>2
  <2>5. w = l => d = l * (b - a)
    BY DEF d
  <2>6. w = l => l * q <= l * (b - a)
    BY <1>1, <2>5
  <2>7. w = l => q <= b - a
    BY <1>1, <2>6
  <2> QED BY <1>1, <2>3, <2>4, <2>7 DEF d, q
<1> QED BY <1>2, <1>3

LEMMA PlaceLiesInRoom ==
  ASSUME plan \in Plans, NEW a \in Points, NEW b \in Points, InOneRoom(a, b),
         NEW l \in Nat, l > 0, NEW w \in 0..l
  PROVE  /\ Between(a, b, w, l) \in Points /\ InARoom(Between(a, b, w, l))
         /\ w = l => Between(a, b, w, l) = b
<1>1. PICK r \in RoomsOf(plan) : Encloses(r, a) /\ Encloses(r, b)
  BY DEF InOneRoom
<1>2. r.x \in Int /\ r.y \in Int /\ r.width \in Nat /\ r.depth \in Nat
  BY FloorPlanAssumption
<1> DEFINE x == a.x + ((b.x - a.x) * w) \div l
           y == a.y + ((b.y - a.y) * w) \div l
<1>3. a.x \in Int /\ a.y \in Int /\ b.x \in Int /\ b.y \in Int
  BY DEF Points
<1>4. /\ r.x <= a.x /\ a.x <= r.x + r.width /\ r.x <= b.x /\ b.x <= r.x + r.width
      /\ r.y <= a.y /\ a.y <= r.y + r.depth /\ r.y <= b.y /\ b.y <= r.y + r.depth
      /\ r.x + r.width \in Int /\ r.y + r.depth \in Int
  BY <1>1, <1>2, <1>3 DEF Encloses
<1>5. w \in Nat /\ w <= l
  OBVIOUS
<1>6. x \in Int /\ r.x <= x /\ x <= r.x + r.width /\ (w = l => x = b.x)
  <2> DEFINE lo == r.x
             hi == r.x + r.width
             from == a.x
             to == b.x
  <2>1. from \in Int /\ to \in Int /\ lo \in Int /\ hi \in Int /\ lo <= from /\ from <= hi /\ lo <= to /\ to <= hi
    BY <1>2, <1>3, <1>4
  <2>2. x = from + ((to - from) * w) \div l
    OBVIOUS
  <2> HIDE DEF lo, hi, from, to, x
  <2>3. x \in Int /\ lo <= x /\ x <= hi /\ (w = l => x = to)
    BY <1>5, <2>1, <2>2, PartOfWay
  <2> QED BY <2>3 DEF lo, hi, to
<1>7. y \in Int /\ r.y <= y /\ y <= r.y + r.depth /\ (w = l => y = b.y)
  <2> DEFINE lo == r.y
             hi == r.y + r.depth
             from == a.y
             to == b.y
  <2>1. from \in Int /\ to \in Int /\ lo \in Int /\ hi \in Int /\ lo <= from /\ from <= hi /\ lo <= to /\ to <= hi
    BY <1>2, <1>3, <1>4
  <2>2. y = from + ((to - from) * w) \div l
    OBVIOUS
  <2> HIDE DEF lo, hi, from, to, y
  <2>3. y \in Int /\ lo <= y /\ y <= hi /\ (w = l => y = to)
    BY <1>5, <2>1, <2>2, PartOfWay
  <2> QED BY <2>3 DEF lo, hi, to
<1>8. Between(a, b, w, l) = Point(x, y)
  BY DEF Between
<1> HIDE DEF x, y
<1>9. Point(x, y).x = x /\ Point(x, y).y = y /\ Point(x, y) \in Points
  BY <1>6, <1>7 DEF Point, Points
<1>10. Encloses(r, Point(x, y))
  BY <1>2, <1>4, <1>6, <1>7, <1>9 DEF Encloses
<1>11. w = l => Point(x, y) = b
  BY <1>6, <1>7 DEF Point, Points
<1> QED BY <1>8, <1>9, <1>10, <1>11 DEF InARoom

-----------------------------------------------------------------------------
(* The robot. *)

Robots ==
  [alive : BOOLEAN, from : Points, to : Points, walked : 0..LegTicks, lasts : {0, LegTicks}, steps : Seq(Legs),
   phase : Phases, leg : Nat, bowl : BOOLEAN, cleaned : Nat]

(* A robot stands in a room or walks a leg that lies in one, and so do the   *)
(* legs it has before it; it has not cleaned later than the clock says.      *)
Sound(r, clock) ==
  /\ r \in Robots
  /\ r.lasts = 0 => r.walked = 0
  /\ r.lasts > 0 => r.walked < r.lasts /\ InOneRoom(r.from, r.to)
  /\ InARoom(r.to) /\ Chained(r.to, r.steps)
  /\ r.cleaned <= clock

LEMMA HereIs ==
  ASSUME plan \in Plans, NEW r, NEW clock, Sound(r, clock)
  PROVE  Here(r) \in Points /\ InARoom(Here(r))
<1>1. CASE r.lasts = 0
  BY <1>1 DEF Here, Place, Sound, Robots
<1>2. CASE r.lasts # 0
  <2>1. r.lasts = LegTicks /\ r.lasts \in Nat /\ r.lasts > 0
    BY <1>2, HouseViewAssumption DEF Sound, Robots
  <2>2. r.walked \in 0..r.lasts /\ r.from \in Points /\ r.to \in Points /\ InOneRoom(r.from, r.to)
    BY <2>1 DEF Sound, Robots
  <2>3. Here(r) = Between(r.from, r.to, r.walked, r.lasts)
    BY <1>2 DEF Here, Place
  <2> QED BY <2>1, <2>2, <2>3, PlaceLiesInRoom
<1> QED BY <1>1, <1>2

(* A leg that begins. *)
LEMMA TakeIsSound ==
  ASSUME plan \in Plans, NEW clock \in Nat, NEW r \in Robots, r.cleaned <= clock, Here(r) \in Points, InARoom(Here(r)),
         NEW steps \in Seq(Legs), Chained(Here(r), steps)
  PROVE  /\ Sound(Take(r, steps), clock)
         /\ Take(r, steps).leg = r.leg + 1 /\ Take(r, steps).alive = r.alive /\ Take(r, steps).cleaned = r.cleaned
<1> DEFINE at == Here(r)
           n == Take(r, steps)
<1>0. at \in Points /\ 0 \in 0..LegTicks /\ LegTicks \in {0, LegTicks} /\ r.leg + 1 \in Nat /\ LegTicks \in Nat /\ LegTicks > 0
  BY HouseViewAssumption DEF Robots
<1>1. CASE steps = <<>>
  <2>1. n = [r EXCEPT !.from = at, !.to = at, !.walked = 0, !.lasts = 0, !.steps = <<>>, !.phase = "idle", !.leg = @ + 1]
    BY <1>1 DEF Take
  <2>2. n \in Robots /\ n.to = at /\ n.walked = 0 /\ n.lasts = 0 /\ n.steps = <<>> /\ n.leg = r.leg + 1
        /\ n.alive = r.alive /\ n.cleaned = r.cleaned
    <3>1. <<>> \in Seq(Legs) /\ "idle" \in Phases
      BY DEF Phases
    <3> HIDE DEF n, at
    <3> QED BY <1>0, <2>1, <3>1 DEF Robots
  <2> HIDE DEF n, at
  <2>3. Chained(n.to, n.steps)
    BY <2>2 DEF Chained
  <2> QED BY <2>2, <2>3 DEF Sound, n, at
<1>2. CASE steps # <<>>
  <2>1. Head(steps) \in Legs /\ Tail(steps) \in Seq(Legs) /\ Len(Tail(steps)) = Len(steps) - 1 /\ Head(steps) = steps[1]
        /\ \A i \in 1..(Len(steps) - 1) : Tail(steps)[i] = steps[i + 1]
    BY <1>2
  <2>2. n = [r EXCEPT !.from = at, !.to = Head(steps).to, !.walked = 0, !.lasts = LegTicks, !.steps = Tail(steps),
                      !.phase = Head(steps).phase, !.leg = @ + 1]
    BY <1>2 DEF Take, Robots
  <2>3. n \in Robots /\ n.from = at /\ n.to = steps[1].to /\ n.walked = 0 /\ n.lasts = LegTicks /\ n.steps = Tail(steps)
        /\ n.leg = r.leg + 1 /\ n.alive = r.alive /\ n.cleaned = r.cleaned
    <3>1. Head(steps).to \in Points /\ Head(steps).phase \in Phases /\ Head(steps).to = steps[1].to
      BY <2>1 DEF Legs
    <3> HIDE DEF n, at
    <3> QED BY <1>0, <2>1, <2>2, <3>1 DEF Robots
  <2> HIDE DEF n, at
  <2>4. InOneRoom(at, steps[1].to)
    <3>1. 1 \in DOMAIN steps
      BY <1>2
    <3> QED BY <3>1 DEF Chained, at
  <2>5. Chained(n.to, n.steps)
    <3>1. ASSUME NEW i \in DOMAIN Tail(steps)
          PROVE  InOneRoom(IF i = 1 THEN steps[1].to ELSE Tail(steps)[i - 1].to, Tail(steps)[i].to)
      <4>1. i \in 1..(Len(steps) - 1) /\ i + 1 \in DOMAIN steps /\ i + 1 # 1 /\ (i + 1) - 1 = i
        BY <2>1
      <4>2. InOneRoom(steps[i].to, steps[i + 1].to)
        BY <4>1 DEF Chained
      <4>3. Tail(steps)[i] = steps[i + 1] /\ (i # 1 => Tail(steps)[i - 1] = steps[i])
        BY <2>1, <4>1
      <4> QED BY <4>2, <4>3
    <3> QED BY <2>3, <3>1 DEF Chained
  <2>6. InARoom(n.to)
    BY <2>3, <2>4 DEF InOneRoom, InARoom
  <2>7. n.walked < n.lasts
    BY <2>3, HouseViewAssumption
  <2> QED BY <2>3, <2>4, <2>5, <2>6, <2>7, HouseViewAssumption DEF Sound, n
<1> QED BY <1>1, <1>2

(* A tick: nothing, a bit of the leg, or the next leg; what is done at the   *)
(* end of one may be a cleaning, which is later than any before it.          *)
LEMMA AdvanceIsSound ==
  ASSUME plan \in Plans, stamp \in Nat, NEW r, Sound(r, stamp)
  PROVE  LET n == Advance(r) IN
         /\ Sound(n, IF n.cleaned > stamp THEN stamp + 1 ELSE stamp)
         /\ n.alive = r.alive /\ n.cleaned \in {r.cleaned, stamp + 1}
         /\ \/ n = r /\ r.lasts = 0
            \/ n.leg = r.leg /\ n.lasts = r.lasts /\ n.walked = r.walked + 1
            \/ n.leg = r.leg + 1
<1> DEFINE n == Advance(r)
<1>0. r \in Robots /\ r.cleaned \in Nat /\ r.cleaned <= stamp
  BY DEF Sound, Robots
<1>1. CASE r.lasts = 0
  BY <1>0, <1>1 DEF Advance
<1>2. CASE r.lasts # 0 /\ r.walked + 1 < r.lasts
  <2>1. n = [r EXCEPT !.walked = @ + 1]
    BY <1>2 DEF Advance
  <2>2. n \in Robots /\ n.lasts = r.lasts /\ n.walked = r.walked + 1 /\ n.leg = r.leg /\ n.alive = r.alive
        /\ n.cleaned = r.cleaned /\ n.from = r.from /\ n.to = r.to /\ n.steps = r.steps
    <3>1. r.walked \in 0..LegTicks /\ r.lasts \in {0, LegTicks} /\ LegTicks \in Nat
      BY <1>0, HouseViewAssumption DEF Robots
    <3>2. r.walked + 1 \in 0..LegTicks
      BY <1>2, <3>1
    <3> QED BY <1>0, <2>1, <3>2 DEF Robots
  <2> HIDE DEF n
  <2>3. Sound(n, stamp)
    BY <1>2, <2>2, HouseViewAssumption DEF Sound, Robots
  <2> QED BY <1>0, <2>2, <2>3 DEF n
<1>3. CASE r.lasts # 0 /\ ~(r.walked + 1 < r.lasts)
  <2> DEFINE e == [r EXCEPT !.walked = r.lasts]
             d == Finish(e)
  <2>1. r.lasts = LegTicks /\ LegTicks \in Nat /\ LegTicks > 0
    BY <1>0, <1>3, HouseViewAssumption DEF Robots
  <2>2. e \in Robots /\ e.walked = LegTicks /\ e.lasts = LegTicks /\ e.from = r.from /\ e.to = r.to /\ e.leg = r.leg
        /\ e.alive = r.alive /\ e.cleaned = r.cleaned /\ e.steps = r.steps
    BY <1>0, <2>1 DEF Robots
  <2> HIDE DEF e
  <2>3. d \in Robots /\ d.walked = LegTicks /\ d.lasts = LegTicks /\ d.from = r.from /\ d.to = r.to /\ d.leg = r.leg
        /\ d.alive = r.alive /\ d.cleaned \in {r.cleaned, stamp + 1}
    <3> DEFINE bowl == r.bowl \/ e.phase = "feeding"
               done == IF e.phase = "cleaning" THEN stamp + 1 ELSE r.cleaned
    <3>1. e.bowl = r.bowl /\ e.cleaned = r.cleaned
      BY <1>0 DEF e, Robots
    <3>2. d = [e EXCEPT !.bowl = e.bowl \/ e.phase = "feeding", !.cleaned = IF e.phase = "cleaning" THEN stamp + 1 ELSE e.cleaned]
      BY <2>2 DEF Finish, Robots
    <3>3. (e.bowl \/ e.phase = "feeding") \in BOOLEAN
      OBVIOUS
    <3>4. done \in Nat /\ done \in {r.cleaned, stamp + 1}
      BY <1>0
    <3>5. d = [e EXCEPT !.bowl = bowl, !.cleaned = done]
      BY <3>1, <3>2
    <3>6. bowl \in BOOLEAN
      OBVIOUS
    <3> HIDE DEF d, bowl, done
    <3> QED BY <2>2, <3>4, <3>5, <3>6 DEF Robots
  <2>4. n = Take(d, r.steps)
    BY <1>3 DEF Advance, d, e
  <2> HIDE DEF d, n
  <2>5. InOneRoom(r.from, r.to) /\ r.from \in Points /\ r.to \in Points /\ InARoom(r.to) /\ Chained(r.to, r.steps)
        /\ r.steps \in Seq(Legs)
    BY <2>1 DEF Sound, Robots
  <2>6. Here(d) = Between(r.from, r.to, LegTicks, LegTicks)
    BY <2>1, <2>3 DEF Here, Place
  <2>7. Here(d) = r.to
    BY <2>1, <2>5, <2>6, PlaceLiesInRoom
  <2> DEFINE clock == IF d.cleaned > stamp THEN stamp + 1 ELSE stamp
  <2>8. clock \in Nat /\ d.cleaned <= clock
    BY <1>0, <2>3
  <2> HIDE DEF clock
  <2>9. Sound(n, clock) /\ n.leg = r.leg + 1 /\ n.alive = r.alive /\ n.cleaned = d.cleaned
    BY <2>3, <2>4, <2>5, <2>7, <2>8, TakeIsSound
  <2> QED BY <2>3, <2>9 DEF clock, n
<1> QED BY <1>1, <1>2, <1>3

(* What the robot tells. *)
LEMMA TellingIs ==
  ASSUME plan \in Plans, NEW clock, NEW r, Sound(r, clock)
  PROVE  /\ Telling(r) \in States
         /\ Telling(r).leg = r.leg /\ Telling(r).cleaned = r.cleaned
         /\ Telling(r).walked <= Telling(r).lasts /\ Telling(r).walked <= r.walked
         /\ Telling(r).lasts > 0 => r.lasts > 0
<1>1. r \in Robots /\ (r.lasts > 0 => r.walked < r.lasts)
  BY DEF Sound
<1>2. Here(r) \in Points
  BY HereIs
<1>3. LegTicks \in Nat /\ LegTicks > 0
  BY HouseViewAssumption
<1>4. CASE r.lasts > 0 /\ r.phase # "feeding"
  BY <1>1, <1>3, <1>4 DEF Telling, States, Robots
<1>5. CASE ~(r.lasts > 0 /\ r.phase # "feeding")
  BY <1>1, <1>2, <1>3, <1>5 DEF Telling, States, Robots
<1> QED BY <1>4, <1>5

-----------------------------------------------------------------------------
(* Cleanings, in the order they are told: the one the page knew of when it   *)
(* was opened, the one it knows of, those on their way and the robot's own.  *)
(* One is none (of a robot started anew), the one before again, or later     *)
(* than any so far; so one that has been passed does not come back.          *)

Rising(places, done) ==
  \A i, j, k \in places : i <= j /\ j <= k =>
    done[k] = 0 \/ (done[i] <= done[k] /\ (done[i] = done[k] => done[j] = done[k]))

Places(line) ==
  {0, 1} \cup {i + 1 : i \in {j \in DOMAIN line : line[j].state # Unseen}} \cup {Len(line) + 2}
Cleanings(opened, knows, line, own) ==
  [i \in Nat |-> IF i = 0 THEN opened ELSE IF i = 1 THEN knows
                ELSE IF i = Len(line) + 2 THEN own ELSE line[i - 1].state.cleaned]
InOrder(opened, knows, line, own) == Rising(Places(line), Cleanings(opened, knows, line, own))

Items == [online : BOOLEAN, state : States \cup {Unseen}]

LEMMA RisingAlong ==
  ASSUME NEW places \in SUBSET Nat, NEW done, Rising(places, done), NEW others \in SUBSET Nat, NEW also,
         NEW old \in [others -> places],
         \A i, j \in others : i <= j => old[i] <= old[j], \A i \in others : also[i] = done[old[i]]
  PROVE  Rising(others, also)
<1> SUFFICES ASSUME NEW i \in others, NEW j \in others, NEW k \in others, i <= j, j <= k
             PROVE  also[k] = 0 \/ (also[i] <= also[k] /\ (also[i] = also[k] => also[j] = also[k]))
  BY DEF Rising
<1> DEFINE a == old[i]
           b == old[j]
           c == old[k]
<1>1. a \in places /\ b \in places /\ c \in places /\ a <= b /\ b <= c
  OBVIOUS
<1>2. also[i] = done[a] /\ also[j] = done[b] /\ also[k] = done[c]
  OBVIOUS
<1> HIDE DEF a, b, c
<1>3. done[c] = 0 \/ (done[a] <= done[c] /\ (done[a] = done[c] => done[b] = done[c]))
  BY <1>1 DEF Rising
<1> QED BY <1>2, <1>3

(* The robot tells something: that it is gone, what it has told before, that *)
(* it was started anew, or a cleaning later than all.                        *)
LEMMA OrderAppended ==
  ASSUME NEW o \in Nat, NEW k \in Nat, NEW line \in Seq(Items), NEW r \in Nat, InOrder(o, k, line, r),
         NEW item \in Items, NEW own \in Nat,
         item.state # Unseen => item.state.cleaned = own,
         \/ own = r
         \/ own = 0
         \/ o < own /\ k < own /\ r < own /\ \A i \in DOMAIN line : line[i].state # Unseen => line[i].state.cleaned < own
  PROVE  InOrder(o, k, Append(line, item), own)
<1> DEFINE n == Len(line)
           wire2 == Append(line, item)
           done == Cleanings(o, k, line, r)
           also == Cleanings(o, k, wire2, own)
           old == [i \in Places(wire2) |-> IF i >= n + 2 THEN n + 2 ELSE i]
<1>1. /\ n \in Nat /\ n = Len(line) /\ DOMAIN line = 1..n
      /\ Len(wire2) = n + 1 /\ DOMAIN wire2 = 1..(n + 1) /\ wire2[n + 1] = item /\ \A i \in 1..n : wire2[i] = line[i]
  OBVIOUS
<1> HIDE DEF n, wire2
<1>2. Places(line) \subseteq Nat /\ Places(wire2) \subseteq Nat
  BY <1>1 DEF Places
<1>3. \A i \in Places(wire2) : i \in {n + 2, n + 3} \/ (i \in Places(line) /\ i < n + 2)
  <2> SUFFICES ASSUME NEW i \in Places(wire2) PROVE i \in {n + 2, n + 3} \/ (i \in Places(line) /\ i < n + 2)
    OBVIOUS
  <2>1. CASE i \in {0, 1}
    BY <1>1, <2>1 DEF Places
  <2>2. CASE i = n + 3
    BY <2>2
  <2>3. CASE i \notin {0, 1} /\ i # n + 3
    <3>1. PICK j \in 1..(n + 1) : i = j + 1 /\ wire2[j].state # Unseen
      BY <1>1, <2>3 DEF Places
    <3>2. CASE j = n + 1
      BY <1>1, <3>1, <3>2
    <3>3. CASE j # n + 1
      BY <1>1, <3>1, <3>3 DEF Places
    <3> QED BY <3>2, <3>3
  <2> QED BY <2>1, <2>2, <2>3
<1>4. ASSUME NEW i \in Places(wire2), i < n + 2
      PROVE  i \in Places(line) /\ also[i] = done[i]
  <2>1. i \in Places(line) /\ i \in Nat
    BY <1>1, <1>2, <1>3, <1>4
  <2>2. i \notin {0, 1} => i - 1 \in 1..n
    BY <1>1, <1>4, <2>1
  <2>3. i \notin {0, 1} => wire2[i - 1] = line[i - 1]
    BY <1>1, <2>2
  <2> QED BY <1>1, <1>4, <2>1, <2>3 DEF Cleanings
<1>5. \A i \in Places(wire2) : i >= n + 2 => also[i] = own
  <2>1. also[n + 3] = own
    BY <1>1 DEF Cleanings
  <2>2. n + 2 \in Places(wire2) => also[n + 2] = own
    <3>1. n + 2 \in Places(wire2) => item.state # Unseen
      BY <1>1 DEF Places
    <3>2. also[n + 2] = wire2[n + 1].state.cleaned
      BY <1>1 DEF Cleanings
    <3> QED BY <1>1, <3>1, <3>2
  <2> QED BY <1>1, <1>2, <1>3, <2>1, <2>2
<1>6. done[n + 2] = r /\ n + 2 \in Places(line)
  BY <1>1 DEF Cleanings, Places
<1>7. CASE own = r
  <2>1. old \in [Places(wire2) -> Places(line)]
    BY <1>1, <1>2, <1>4, <1>6
  <2>2. \A i, j \in Places(wire2) : i <= j => old[i] <= old[j]
    BY <1>1, <1>2
  <2>3. \A i \in Places(wire2) : also[i] = done[old[i]]
    BY <1>1, <1>2, <1>4, <1>5, <1>6, <1>7
  <2> HIDE DEF old, also, done, wire2
  <2>4. Rising(Places(line), done)
    BY DEF InOrder, done
  <2>5. Rising(Places(wire2), also)
    BY <1>2, <2>1, <2>2, <2>3, <2>4, RisingAlong
  <2> QED BY <2>5 DEF InOrder, also, wire2
<1>8. CASE own # r
  <2>1. own # 0 => \A i \in Places(wire2) : i < n + 2 => also[i] < own
    <3> SUFFICES ASSUME own # 0, NEW i \in Places(wire2), i < n + 2 PROVE also[i] < own
      OBVIOUS
    <3>1. i \in Places(line) /\ also[i] = done[i] /\ i \in Nat
      BY <1>2, <1>4
    <3>2. CASE i \in {0, 1}
      BY <1>8, <3>1, <3>2 DEF Cleanings
    <3>3. CASE i \notin {0, 1}
      <4>1. i - 1 \in DOMAIN line /\ line[i - 1].state # Unseen
        BY <1>1, <3>1, <3>3 DEF Places
      <4>2. done[i] = line[i - 1].state.cleaned
        BY <1>1, <3>1, <3>3 DEF Cleanings
      <4> QED BY <1>8, <3>1, <4>1, <4>2
    <3> QED BY <3>2, <3>3
  <2>2. ASSUME NEW a \in Places(wire2), NEW b \in Places(wire2), NEW c \in Places(wire2), a <= b, b <= c
        PROVE  also[c] = 0 \/ (also[a] <= also[c] /\ (also[a] = also[c] => also[b] = also[c]))
    <3>0. a \in Nat /\ b \in Nat /\ c \in Nat
      BY <1>2
    <3>1. CASE c < n + 2
      <4>1. a < n + 2 /\ b < n + 2
        BY <1>1, <2>2, <3>0, <3>1
      <4>2. Rising(Places(line), done)
        BY DEF InOrder
      <4> HIDE DEF also, done, wire2
      <4> QED BY <1>4, <2>2, <3>1, <4>1, <4>2 DEF Rising
    <3>2. CASE c >= n + 2 /\ own # 0
      <4>1. also[c] = own
        BY <1>5, <3>2
      <4>2. a < n + 2 => also[a] < own
        BY <2>1, <3>2
      <4>3. a >= n + 2 => also[a] = own /\ also[b] = own
        BY <1>1, <1>5, <2>2, <3>0
      <4>4. a < n + 2 => also[a] \in Nat
        <5>1. a < n + 2 => a \in Places(line) /\ also[a] = done[a]
          BY <1>4
        <5>2. a \in Places(line) /\ a < n + 2 => done[a] \in Nat
          <6>1. a \in Places(line) /\ a < n + 2 /\ a \notin {0, 1} => a - 1 \in DOMAIN line /\ line[a - 1].state # Unseen
            BY <1>1, <3>0 DEF Places
          <6>2. \A i \in DOMAIN line : line[i].state # Unseen => line[i].state.cleaned \in Nat
            <7>1. \A i \in DOMAIN line : line[i] \in Items
              OBVIOUS
            <7>2. \A s \in States : s.cleaned \in Nat
              BY DEF States
            <7>3. \A i \in DOMAIN line : line[i].state \in States \cup {Unseen}
              BY <7>1 DEF Items
            <7> QED BY <7>2, <7>3
          <6> QED BY <1>1, <3>0, <6>1, <6>2 DEF Cleanings
        <5> QED BY <5>1, <5>2
      <4> HIDE DEF also, done
      <4>5. a < n + 2 \/ a >= n + 2
        BY <1>1, <3>0
      <4>6. CASE a < n + 2
        BY <4>1, <4>2, <4>4, <4>6
      <4>7. CASE a >= n + 2
        BY <4>1, <4>3, <4>7
      <4> QED BY <4>5, <4>6, <4>7
    <3>3. CASE c >= n + 2 /\ own = 0
      BY <1>5, <3>3
    <3> QED BY <1>1, <3>0, <3>1, <3>2, <3>3
  <2> HIDE DEF also, wire2
  <2>3. Rising(Places(wire2), also)
    BY <2>2 DEF Rising
  <2> QED BY <2>3 DEF InOrder, also, wire2
<1> QED BY <1>7, <1>8

(* The page hears the first. *)
LEMMA OrderDelivered ==
  ASSUME NEW o \in Nat, NEW k \in Nat, NEW line \in Seq(Items), line # <<>>, NEW r \in Nat, InOrder(o, k, line, r),
         NEW k2, k2 = (IF line[1].state = Unseen THEN k ELSE line[1].state.cleaned), NEW o2 \in {o, k2}
  PROVE  InOrder(o2, k2, Tail(line), r)
<1> DEFINE n == Len(line)
           rest == Tail(line)
           at == IF line[1].state = Unseen THEN 1 ELSE 2
           done == Cleanings(o, k, line, r)
           also == Cleanings(o2, k2, rest, r)
           old == [i \in Places(rest) |-> IF i = 0 THEN IF o2 = o THEN 0 ELSE at ELSE IF i = 1 THEN at ELSE i + 1]
<1>1. n \in Nat /\ n >= 1 /\ Len(rest) = n - 1 /\ \A i \in 1..(n - 1) : rest[i] = line[i + 1]
  OBVIOUS
<1>2. Places(line) \subseteq Nat /\ Places(rest) \subseteq Nat
  BY <1>1 DEF Places
<1>3. at \in Places(line) /\ done[at] = k2
  BY <1>1 DEF Places, Cleanings
<1>4. done[0] = o /\ 0 \in Places(line) /\ also[0] = o2 /\ also[1] = k2
  BY <1>1 DEF Places, Cleanings
<1>5. ASSUME NEW i \in Places(rest), i \notin {0, 1}
      PROVE  i + 1 \in Places(line) /\ also[i] = done[i + 1]
  <2>1. CASE i = n + 1
    BY <1>1, <2>1 DEF Places, Cleanings
  <2>2. CASE i # n + 1
    <3>1. PICK j \in 1..(n - 1) : i = j + 1 /\ rest[j].state # Unseen
      BY <1>1, <1>5, <2>2 DEF Places
    <3>2. rest[j] = line[j + 1] /\ j + 1 \in 1..n /\ i + 1 = (j + 1) + 1
      BY <1>1, <3>1
    <3>3. i + 1 \in Places(line)
      BY <1>1, <3>1, <3>2 DEF Places
    <3>4. also[i] = rest[j].state.cleaned
      BY <1>1, <3>1 DEF Cleanings
    <3>5. done[i + 1] = line[j + 1].state.cleaned
      BY <1>1, <3>1 DEF Cleanings
    <3> QED BY <3>2, <3>3, <3>4, <3>5
  <2> QED BY <2>1, <2>2
<1>6. old \in [Places(rest) -> Places(line)]
  BY <1>3, <1>4, <1>5
<1>7. \A i, j \in Places(rest) : i <= j => old[i] <= old[j]
  <2>1. at \in {1, 2}
    OBVIOUS
  <2> HIDE DEF at
  <2> QED BY <1>2, <2>1
<1>8. \A i \in Places(rest) : also[i] = done[old[i]]
  BY <1>2, <1>3, <1>4, <1>5
<1> HIDE DEF old, also, done, rest
<1>9. Rising(Places(line), done)
  BY DEF InOrder, done
<1>10. Rising(Places(rest), also)
  BY <1>2, <1>6, <1>7, <1>8, <1>9, RisingAlong
<1> QED BY <1>10 DEF InOrder, also, rest

(* A cleaning that is news is later than the one the page was opened on.     *)
LEMMA NewsIsLater ==
  ASSUME NEW o \in Nat, NEW k \in Nat, NEW line \in Seq(Items), line # <<>>, NEW r \in Nat, InOrder(o, k, line, r),
         line[1].state # Unseen, line[1].state.cleaned \in Nat, line[1].state.cleaned # k, line[1].state.cleaned # 0
  PROVE  line[1].state.cleaned > o
<1> DEFINE done == Cleanings(o, k, line, r)
<1>1. {0, 1, 2} \subseteq Places(line)
  <2>1. 1 \in DOMAIN line
    OBVIOUS
  <2> QED BY <2>1 DEF Places
<1>2. done[0] = o /\ done[1] = k /\ done[2] = line[1].state.cleaned
  BY DEF Cleanings
<1>3. Rising(Places(line), done)
  BY DEF InOrder
<1> HIDE DEF done
<1>4. done[2] = 0 \/ (done[0] <= done[2] /\ (done[0] = done[2] => done[1] = done[2]))
  BY <1>1, <1>3 DEF Rising
<1> QED BY <1>2, <1>4

-----------------------------------------------------------------------------
(* What was told of the robot, and how long ago. *)

(* A state told of the leg the robot is on tells no more than there is.      *)
IsBehind(s, r, clock) ==
  /\ s.walked <= s.lasts /\ s.leg <= r.leg /\ s.cleaned <= clock
  /\ r.alive /\ s.leg = r.leg => s.walked <= r.walked /\ (s.lasts > 0 => r.lasts > 0)
InTime(s, ago, r) == r.alive /\ s.leg = r.leg /\ s.lasts > 0 => s.walked + ago <= r.walked

GoesOn(r, n) ==
  \/ n.leg > r.leg
  \/ n.leg = r.leg /\ n.walked >= r.walked /\ (n.alive => r.alive) /\ (r.lasts > 0 => n.lasts > 0)

Opened == IF open THEN first ELSE CleanedOf(view)

HouseTyped ==
  /\ plan \in Plans /\ open \in BOOLEAN /\ online \in BOOLEAN /\ robot \in Robots
  /\ view \in States \cup {Unseen} /\ since \in 0..LegTicks /\ dog \in 0..2
  /\ onWire \in Seq(Items) /\ Len(onWire) <= MaxWire
  /\ sparkle \in [fresh : BOOLEAN, timer : BOOLEAN]
  /\ known \in 0..stamp /\ first \in 0..stamp /\ stamp \in Nat /\ orders \in 0..MaxOrders
ViewInv ==
  /\ view # Unseen => IsBehind(view, robot, stamp) /\ InTime(view, since, robot)
  /\ view = Unseen => "console" \in lapses /\ \E i \in DOMAIN onWire : onWire[i].state # Unseen
WireInv == \A i \in DOMAIN onWire : onWire[i].state # Unseen => IsBehind(onWire[i].state, robot, stamp)
NewsInv ==
  /\ open => known = CleanedOf(view)
  /\ ~open => known = 0 /\ sparkle = Stale
  /\ "console" \notin lapses => InOrder(Opened, CleanedOf(view), onWire, robot.cleaned)
  /\ SparklesAreEarned

HouseInv == HouseTyped /\ Sound(robot, stamp) /\ ViewInv /\ WireInv /\ NewsInv

LEMMA CleanedIs ==
  ASSUME HouseInv
  PROVE  /\ CleanedOf(view) \in 0..stamp /\ Opened \in 0..stamp /\ robot.cleaned \in 0..stamp
         /\ \A i \in DOMAIN onWire : onWire[i] \in Items
         /\ \A i \in DOMAIN onWire : onWire[i].state # Unseen => onWire[i].state \in States /\ onWire[i].state.cleaned \in 0..stamp
<1>1. \A i \in DOMAIN onWire : onWire[i] \in Items
  BY DEF HouseInv, HouseTyped
<1>2. \A s \in States : s.cleaned \in Nat
  BY DEF States
<1>3. \A i \in DOMAIN onWire : onWire[i].state # Unseen => onWire[i].state \in States
  BY <1>1 DEF Items
<1>4. stamp \in Nat /\ view \in States \cup {Unseen} /\ first \in 0..stamp
  BY DEF HouseInv, HouseTyped
<1>5. CleanedOf(view) \in 0..stamp
  BY <1>2, <1>4 DEF CleanedOf, HouseInv, ViewInv, IsBehind
<1>6. \A i \in DOMAIN onWire : onWire[i].state # Unseen => onWire[i].state.cleaned \in 0..stamp
  BY <1>2, <1>3, <1>4 DEF HouseInv, WireInv, IsBehind
<1>7. robot.cleaned \in 0..stamp
  BY <1>4 DEF HouseInv, Sound, Robots
<1> QED BY <1>1, <1>3, <1>4, <1>5, <1>6, <1>7 DEF Opened

LEMMA StillBehind ==
  ASSUME NEW s \in States, NEW r \in Robots, NEW n \in Robots, NEW clock \in Nat, NEW later \in Nat,
         IsBehind(s, r, clock), GoesOn(r, n), clock <= later
  PROVE  IsBehind(s, n, later)
<1>1. s.leg \in Nat /\ s.walked \in Nat /\ s.cleaned \in Nat
  BY HouseViewAssumption DEF States
<1>2. r.leg \in Nat /\ n.leg \in Nat /\ r.walked \in Nat /\ n.walked \in Nat
  BY HouseViewAssumption DEF Robots
<1> QED BY <1>1, <1>2 DEF IsBehind, GoesOn

LEMMA SoundPrime ==
  ASSUME plan' = plan, Sound(robot', stamp')
  PROVE  Sound(robot, stamp)'
BY DEF Sound, InARoom, InOneRoom, Chained

(* The robot does something and tells it. *)
LEMMA PublishStep ==
  ASSUME HouseInv, plan' = plan, Len(onWire) < MaxWire, Publish(robot'),
         Sound(robot', stamp'), stamp' \in {stamp, stamp + 1}, GoesOn(robot, robot'),
         robot'.cleaned \in {robot.cleaned, 0} \/ robot'.cleaned = stamp + 1,
         UNCHANGED <<view, online, open, known, sparkle, dog, first, lapses>>,
         orders' \in 0..MaxOrders, since' \in 0..LegTicks,
         view # Unseen => InTime(view, since', robot')
  PROVE  HouseInv'
<1> DEFINE item == Item(TRUE, Telling(robot'))
<1>1. HouseTyped /\ Sound(robot, stamp) /\ ViewInv /\ WireInv /\ NewsInv
  BY DEF HouseInv
<1>2. stamp \in Nat /\ stamp' \in Nat /\ stamp <= stamp' /\ onWire \in Seq(Items) /\ robot \in Robots /\ robot' \in Robots
  BY <1>1 DEF HouseTyped, Sound
<1>3. /\ Telling(robot') \in States /\ Telling(robot').cleaned = robot'.cleaned
      /\ IsBehind(Telling(robot'), robot', stamp')
  <2>1. /\ Telling(robot') \in States
        /\ Telling(robot').leg = robot'.leg /\ Telling(robot').cleaned = robot'.cleaned
        /\ Telling(robot').walked <= Telling(robot').lasts /\ Telling(robot').walked <= robot'.walked
        /\ Telling(robot').lasts > 0 => robot'.lasts > 0
    BY <1>1, TellingIs DEF HouseTyped
  <2>2. robot'.leg \in Nat
    BY <1>2 DEF Robots
  <2>3. robot'.cleaned <= stamp'
    BY DEF Sound
  <2> QED BY <2>1, <2>2, <2>3 DEF IsBehind
<1>4. item \in Items /\ item.state = Telling(robot') /\ item.state # Unseen
  BY <1>3, HouseViewAssumption DEF Item, Items
<1>5. onWire' = Append(onWire, item)
  BY DEF Publish
<1> HIDE DEF item
<1>6. /\ Len(onWire) \in Nat /\ onWire' \in Seq(Items) /\ Len(onWire') = Len(onWire) + 1 /\ DOMAIN onWire = 1..Len(onWire)
      /\ DOMAIN onWire' = 1..(Len(onWire) + 1)
      /\ onWire'[Len(onWire) + 1] = item /\ \A i \in DOMAIN onWire : onWire'[i] = onWire[i]
  BY <1>2, <1>4, <1>5
<1>7. HouseTyped'
  <2>1. Len(onWire') <= MaxWire
    BY <1>6, HouseViewAssumption
  <2>2. known \in 0..stamp' /\ first \in 0..stamp'
    BY <1>1, <1>2 DEF HouseTyped
  <2> QED BY <1>1, <1>2, <1>6, <2>1, <2>2 DEF HouseTyped
<1>8. Sound(robot, stamp)'
  BY SoundPrime
<1>9. WireInv'
  <2> SUFFICES ASSUME NEW i \in DOMAIN onWire', onWire'[i].state # Unseen
               PROVE  IsBehind(onWire'[i].state, robot', stamp')
    BY DEF WireInv
  <2>1. CASE i = Len(onWire) + 1
    BY <1>3, <1>4, <1>6, <2>1
  <2>2. CASE i # Len(onWire) + 1
    <3>1. i \in DOMAIN onWire /\ onWire'[i] = onWire[i]
      BY <1>6, <2>2
    <3>2. onWire[i].state \in States /\ IsBehind(onWire[i].state, robot, stamp)
      BY <1>1, <3>1, CleanedIs DEF WireInv
    <3> QED BY <1>2, <3>1, <3>2, StillBehind
  <2> QED BY <2>1, <2>2
<1>10. ViewInv'
  <2>1. view # Unseen => IsBehind(view, robot', stamp')
    BY <1>1, <1>2, StillBehind DEF ViewInv, HouseTyped
  <2>2. view = Unseen => "console" \in lapses /\ \E i \in DOMAIN onWire' : onWire'[i].state # Unseen
    BY <1>1, <1>6 DEF ViewInv
  <2> QED BY <2>1, <2>2 DEF ViewInv
<1>11. NewsInv'
  <2>1. CleanedOf(view)' = CleanedOf(view) /\ Opened' = Opened
    BY DEF CleanedOf, Opened
  <2>2. ASSUME "console" \notin lapses
        PROVE  InOrder(Opened, CleanedOf(view), Append(onWire, item), robot'.cleaned)
    <3>1. InOrder(Opened, CleanedOf(view), onWire, robot.cleaned)
      BY <1>1, <2>2 DEF NewsInv
    <3>2. Opened \in 0..stamp /\ CleanedOf(view) \in 0..stamp /\ robot.cleaned \in 0..stamp
          /\ \A i \in DOMAIN onWire : onWire[i].state # Unseen => onWire[i].state.cleaned \in 0..stamp
      BY CleanedIs
    <3>3. robot'.cleaned \in Nat /\ item.state.cleaned = robot'.cleaned
      BY <1>2, <1>3, <1>4 DEF Robots
    <3>4. \/ robot'.cleaned = robot.cleaned
          \/ robot'.cleaned = 0
          \/ /\ Opened < robot'.cleaned /\ CleanedOf(view) < robot'.cleaned /\ robot.cleaned < robot'.cleaned
             /\ \A i \in DOMAIN onWire : onWire[i].state # Unseen => onWire[i].state.cleaned < robot'.cleaned
      BY <1>2, <3>2
    <3>5. Opened \in Nat /\ CleanedOf(view) \in Nat /\ robot.cleaned \in Nat
      BY <3>2
    <3> DEFINE o == Opened
               k == CleanedOf(view)
    <3> HIDE DEF o, k
    <3> QED BY <1>2, <1>4, <3>1, <3>3, <3>4, <3>5, OrderAppended
  <2>3. SparklesAreEarned'
    BY <1>1 DEF NewsInv, SparklesAreEarned
  <2> QED BY <1>1, <1>5, <2>1, <2>2, <2>3 DEF NewsInv, Stale
<1> QED BY <1>7, <1>8, <1>9, <1>10, <1>11 DEF HouseInv

LEMMA HouseStarts == HouseInit => HouseInv
<1> SUFFICES ASSUME HouseInit PROVE HouseInv
  OBVIOUS
<1>1. plan \in Plans /\ Home \in Points /\ InARoom(Home)
  BY SpotsLieInRooms DEF HouseInit, Home
<1>2. LegTicks \in Nat /\ MaxWire \in Nat /\ MaxOrders \in Nat
  BY HouseViewAssumption
<1>3. robot = Booted(0) /\ stamp = 0 /\ onWire = <<>> /\ view = Telling(robot) /\ since = 0 /\ open = FALSE /\ known = 0
      /\ first = 0 /\ sparkle = Stale /\ lapses = {} /\ dog = 0 /\ orders = 0 /\ online = TRUE
  BY DEF HouseInit
<1>4. Sound(robot, stamp) /\ robot.leg = 0 /\ robot.cleaned = 0 /\ robot.walked = 0 /\ robot.lasts = 0
  <2>1. Booted(0) \in Robots
    <3>1. <<>> \in Seq(Legs) /\ "idle" \in Phases
      BY DEF Phases
    <3> QED BY <1>1, <1>2, <3>1 DEF Booted, Robots
  <2> QED BY <1>1, <1>3, <2>1 DEF Sound, Booted, Chained
<1>5. /\ view \in States /\ view.leg = 0 /\ view.cleaned = 0 /\ view.walked <= view.lasts /\ view.walked <= 0
      /\ (view.lasts > 0 => robot.lasts > 0)
  BY <1>1, <1>3, <1>4, TellingIs
<1>6. view # Unseen
  BY <1>5, HouseViewAssumption
<1>7. HouseTyped
  <2>1. onWire \in Seq(Items) /\ Len(onWire) = 0
    BY <1>3
  <2>2. robot \in Robots
    BY <1>4 DEF Sound
  <2>3. sparkle \in [fresh : BOOLEAN, timer : BOOLEAN]
    BY <1>3 DEF Stale
  <2>4. /\ since \in 0..LegTicks /\ dog \in 0..2 /\ orders \in 0..MaxOrders
        /\ known \in 0..stamp /\ first \in 0..stamp /\ stamp \in Nat /\ 0 <= MaxWire
    BY <1>2, <1>3
  <2>5. open \in BOOLEAN /\ online \in BOOLEAN
    BY <1>3
  <2> QED BY <1>1, <1>2, <1>5, <2>1, <2>2, <2>3, <2>4, <2>5 DEF HouseTyped
<1>8. ViewInv /\ WireInv
  BY <1>3, <1>4, <1>5, <1>6 DEF ViewInv, WireInv, IsBehind, InTime
<1>9. InOrder(Opened, CleanedOf(view), onWire, robot.cleaned)
  <2>1. CleanedOf(view) = 0 /\ Opened = 0
    BY <1>3, <1>5, <1>6 DEF CleanedOf, Opened
  <2>2. Places(<<>>) = {0, 1, 2}
    BY DEF Places
  <2>3. \A i \in {0, 1, 2} : Cleanings(0, 0, <<>>, 0)[i] = 0
    BY DEF Cleanings
  <2> QED BY <1>3, <1>4, <2>1, <2>2, <2>3 DEF InOrder, Rising
<1>10. NewsInv
  BY <1>3, <1>9 DEF NewsInv, SparklesAreEarned, Stale
<1> QED BY <1>4, <1>7, <1>8, <1>10 DEF HouseInv

LEMMA DoStep ==
  ASSUME HouseInv, NEW steps \in Errands(Here(robot)), Do(steps)
  PROVE  HouseInv'
<1>1. HouseTyped /\ Sound(robot, stamp) /\ ViewInv
  BY DEF HouseInv
<1>2. plan \in Plans /\ robot \in Robots /\ stamp \in Nat /\ robot.cleaned <= stamp /\ robot.leg \in Nat
  BY <1>1 DEF HouseTyped, Sound, Robots
<1>3. Here(robot) \in Points /\ InARoom(Here(robot))
  BY <1>1, <1>2, HereIs
<1>4. steps \in Seq(Legs) /\ Chained(Here(robot), steps)
  BY <1>2, <1>3, ErrandsLieInRooms
<1>5. robot' = Take(robot, steps) /\ stamp' = stamp /\ UNCHANGED <<plan, lapses, pageOnly>> /\ Publish(robot')
      /\ Len(onWire) < MaxWire /\ orders' = orders + 1 /\ orders < MaxOrders
  BY DEF Do, Room4One
<1>6. Sound(robot', stamp') /\ robot'.leg = robot.leg + 1 /\ robot'.cleaned = robot.cleaned
  BY <1>2, <1>3, <1>4, <1>5, TakeIsSound
<1>7. GoesOn(robot, robot')
  BY <1>2, <1>6 DEF GoesOn
<1>8. view # Unseen => InTime(view, since', robot')
  <2>1. view # Unseen => view.leg \in Nat /\ view.leg <= robot.leg
    BY <1>1 DEF HouseTyped, ViewInv, IsBehind, States
  <2> QED BY <1>2, <1>6, <2>1 DEF InTime
<1>9. orders' \in 0..MaxOrders /\ since' \in 0..LegTicks
  BY <1>1, <1>5, HouseViewAssumption DEF HouseTyped, pageOnly
<1> QED BY <1>2, <1>5, <1>6, <1>7, <1>8, <1>9, PublishStep DEF pageOnly

LEMMA ErrandSteps ==
  ASSUME HouseInv, Errand \/ ReturnToDock \/ Stop
  PROVE  HouseInv'
BY DoStep DEF Errand, ReturnToDock, Stop, Errands

LEMMA BowlEmptiesStep ==
  ASSUME HouseInv, BowlEmpties
  PROVE  HouseInv'
<1>1. HouseTyped /\ Sound(robot, stamp) /\ ViewInv
  BY DEF HouseInv
<1>2. /\ robot' = [robot EXCEPT !.bowl = FALSE] /\ Publish(robot') /\ Len(onWire) < MaxWire
      /\ UNCHANGED <<plan, orders, stamp, lapses, pageOnly>>
  BY DEF BowlEmpties, Room4One
<1>3. robot \in Robots
  BY <1>1 DEF Sound
<1>4. /\ robot' \in Robots /\ robot'.from = robot.from /\ robot'.to = robot.to /\ robot'.walked = robot.walked
      /\ robot'.lasts = robot.lasts /\ robot'.steps = robot.steps /\ robot'.leg = robot.leg /\ robot'.alive = robot.alive
      /\ robot'.cleaned = robot.cleaned
  BY <1>2, <1>3 DEF Robots
<1>5. Sound(robot', stamp')
  BY <1>1, <1>2, <1>4 DEF Sound
<1>6. robot.walked \in Nat /\ robot.leg \in Nat
  BY <1>3, HouseViewAssumption DEF Robots
<1>7. GoesOn(robot, robot')
  BY <1>4, <1>6 DEF GoesOn
<1>8. view # Unseen => InTime(view, since', robot')
  BY <1>1, <1>2, <1>4 DEF ViewInv, InTime, pageOnly
<1>9. orders' \in 0..MaxOrders /\ since' \in 0..LegTicks /\ stamp' = stamp
  BY <1>1, <1>2 DEF HouseTyped, pageOnly
<1> QED BY <1>2, <1>4, <1>5, <1>7, <1>8, <1>9, PublishStep DEF pageOnly

LEMMA RobotReturnsStep ==
  ASSUME HouseInv, RobotReturns
  PROVE  HouseInv'
<1>1. HouseTyped /\ Sound(robot, stamp) /\ ViewInv
  BY DEF HouseInv
<1>2. /\ robot' = Booted(robot.leg + 1) /\ Publish(robot') /\ Len(onWire) < MaxWire
      /\ UNCHANGED <<plan, orders, stamp, lapses, pageOnly>>
  BY DEF RobotReturns, Room4One
<1>3. robot.leg \in Nat /\ stamp \in Nat /\ plan \in Plans /\ LegTicks \in Nat
  BY <1>1, HouseViewAssumption DEF HouseTyped, Robots
<1>4. Home \in Points /\ InARoom(Home)
  BY <1>3, SpotsLieInRooms DEF Home
<1>5. Sound(robot', stamp') /\ robot'.leg = robot.leg + 1 /\ robot'.cleaned = 0
  <2>1. <<>> \in Seq(Legs) /\ "idle" \in Phases
    BY DEF Phases
  <2>2. robot' \in Robots
    BY <1>2, <1>3, <1>4, <2>1 DEF Booted, Robots
  <2> QED BY <1>2, <1>3, <1>4, <2>2 DEF Sound, Booted, Chained
<1>6. GoesOn(robot, robot')
  BY <1>3, <1>5 DEF GoesOn
<1>7. view # Unseen => InTime(view, since', robot')
  <2>1. view # Unseen => view.leg \in Nat /\ view.leg <= robot.leg
    BY <1>1 DEF HouseTyped, ViewInv, IsBehind, States
  <2> QED BY <1>3, <1>5, <2>1 DEF InTime
<1>8. orders' \in 0..MaxOrders /\ since' \in 0..LegTicks /\ stamp' = stamp
  BY <1>1, <1>2 DEF HouseTyped, pageOnly
<1> QED BY <1>2, <1>5, <1>6, <1>7, <1>8, PublishStep DEF pageOnly

LEMMA TickStep ==
  ASSUME HouseInv, TickOfRobot
  PROVE  HouseInv'
<1>1. HouseTyped /\ Sound(robot, stamp) /\ ViewInv /\ WireInv /\ NewsInv
  BY DEF HouseInv
<1>2. /\ robot' = (IF robot.alive THEN Advance(robot) ELSE robot)
      /\ stamp' = (IF robot'.cleaned > stamp THEN stamp + 1 ELSE stamp)
      /\ since' = (IF since < LegTicks THEN since + 1 ELSE since)
      /\ UNCHANGED <<plan, view, online, open, known, sparkle, dog, orders, lapses, first>>
  BY DEF TickOfRobot
<1>3. stamp \in Nat /\ plan \in Plans /\ robot \in Robots /\ since \in 0..LegTicks /\ LegTicks \in Nat /\ LegTicks > 0
  BY <1>1, HouseViewAssumption DEF HouseTyped
<1>4. /\ robot.leg \in Nat /\ robot.walked \in Nat /\ robot.lasts \in {0, LegTicks} /\ robot.cleaned \in Nat /\ robot.cleaned <= stamp
      /\ (robot.lasts = 0 => robot.walked = 0) /\ (robot.lasts > 0 => robot.walked < robot.lasts)
  BY <1>1, <1>3 DEF Sound, Robots
<1>5. since' \in 0..LegTicks
  BY <1>2, <1>3
<1>6. CASE robot.alive
  <2>1. /\ Sound(robot', stamp')
        /\ robot'.alive = robot.alive /\ robot'.cleaned \in {robot.cleaned, stamp + 1}
        /\ \/ robot' = robot /\ robot.lasts = 0
           \/ robot'.leg = robot.leg /\ robot'.lasts = robot.lasts /\ robot'.walked = robot.walked + 1
           \/ robot'.leg = robot.leg + 1
    BY <1>1, <1>2, <1>3, <1>6, AdvanceIsSound
  <2>2. view # Unseen => InTime(view, since', robot')
    <3> SUFFICES ASSUME view # Unseen, robot'.alive, view.leg = robot'.leg, view.lasts > 0
                 PROVE  view.walked + since' <= robot'.walked
      BY DEF InTime
    <3>1. view.leg \in Nat /\ view.walked \in Nat /\ view.leg <= robot.leg
      BY <1>1, <1>3 DEF HouseTyped, ViewInv, IsBehind, States
    <3>2. view.leg = robot.leg /\ robot'.leg = robot.leg
      BY <1>4, <2>1, <3>1
    <3>3. view.walked + since <= robot.walked /\ robot.lasts > 0
      BY <1>1, <1>6, <3>2 DEF ViewInv, IsBehind, InTime
    <3>4. robot'.walked = robot.walked + 1
      BY <1>4, <2>1, <3>2, <3>3
    <3> QED BY <1>2, <1>3, <1>4, <3>1, <3>3, <3>4
  <2>3. CASE robot.lasts > 0
    <3>1. Publish(robot') /\ Len(onWire) < MaxWire
      BY <1>6, <2>3 DEF TickOfRobot, Room4One
    <3>2. GoesOn(robot, robot')
      BY <1>4, <2>1, <2>3 DEF GoesOn
    <3>3. stamp' \in {stamp, stamp + 1} /\ (robot'.cleaned \in {robot.cleaned, 0} \/ robot'.cleaned = stamp + 1)
      BY <1>2, <2>1
    <3>4. orders' \in 0..MaxOrders
      BY <1>1, <1>2 DEF HouseTyped
    <3> QED BY <1>2, <1>5, <2>1, <2>2, <3>1, <3>2, <3>3, <3>4, PublishStep
  <2>4. CASE ~(robot.lasts > 0)
    <3>1. robot' = robot /\ onWire' = onWire
      <4>1. robot.lasts = 0
        BY <1>3, <1>4, <2>4
      <4> QED BY <1>2, <1>6, <2>4, <4>1 DEF TickOfRobot, Advance
    <3>2. stamp' = stamp
      BY <1>2, <1>3, <1>4, <3>1
    <3> HIDE DEF ViewInv
    <3>3. HouseTyped' /\ Sound(robot, stamp)' /\ WireInv' /\ NewsInv'
      BY <1>1, <1>2, <1>5, <3>1, <3>2, SoundPrime
        DEF HouseTyped, WireInv, NewsInv, CleanedOf, Opened, SparklesAreEarned, Stale
    <3>4. ViewInv'
      BY <1>1, <1>2, <2>2, <3>1, <3>2 DEF ViewInv
    <3> QED BY <3>3, <3>4 DEF HouseInv
  <2> QED BY <2>3, <2>4
<1>7. CASE ~robot.alive
  <2>1. robot' = robot /\ onWire' = onWire
    BY <1>2, <1>7 DEF TickOfRobot
  <2>2. stamp' = stamp
    BY <1>2, <1>3, <1>4, <2>1
  <2>3. HouseTyped' /\ Sound(robot, stamp)' /\ WireInv' /\ NewsInv'
    BY <1>1, <1>2, <1>5, <2>1, <2>2, SoundPrime
      DEF HouseTyped, WireInv, NewsInv, CleanedOf, Opened, SparklesAreEarned, Stale
  <2>4. ViewInv'
    BY <1>1, <1>2, <1>7, <2>1, <2>2 DEF ViewInv, InTime
  <2> QED BY <2>3, <2>4 DEF HouseInv
<1> QED BY <1>6, <1>7

(* The broker says that the robot is gone. *)
LEMMA RobotDiesStep ==
  ASSUME HouseInv, RobotDies
  PROVE  HouseInv'
<1> DEFINE item == Item(FALSE, Unseen)
<1>1. HouseTyped /\ Sound(robot, stamp) /\ ViewInv /\ WireInv /\ NewsInv
  BY DEF HouseInv
<1>2. /\ robot' = [robot EXCEPT !.alive = FALSE] /\ onWire' = Append(onWire, item) /\ Len(onWire) < MaxWire
      /\ lapses' = lapses \cup {"robot"} /\ UNCHANGED <<plan, orders, stamp, pageOnly>>
  BY DEF RobotDies, Room4One
<1>3. robot \in Robots /\ onWire \in Seq(Items) /\ item \in Items /\ item.state = Unseen
  BY <1>1 DEF HouseTyped, Item, Items
<1>4. /\ robot' \in Robots /\ robot'.from = robot.from /\ robot'.to = robot.to /\ robot'.walked = robot.walked
      /\ robot'.lasts = robot.lasts /\ robot'.steps = robot.steps /\ robot'.leg = robot.leg /\ ~robot'.alive
      /\ robot'.cleaned = robot.cleaned
  BY <1>2, <1>3 DEF Robots
<1> HIDE DEF item
<1>5. /\ Len(onWire) \in Nat /\ onWire' \in Seq(Items) /\ Len(onWire') = Len(onWire) + 1 /\ DOMAIN onWire = 1..Len(onWire)
      /\ DOMAIN onWire' = 1..(Len(onWire) + 1)
      /\ onWire'[Len(onWire) + 1] = item /\ \A i \in DOMAIN onWire : onWire'[i] = onWire[i]
  BY <1>2, <1>3
<1>6. HouseTyped'
  <2>1. Len(onWire') <= MaxWire
    BY <1>2, <1>5, HouseViewAssumption
  <2> QED BY <1>1, <1>2, <1>4, <1>5, <2>1 DEF HouseTyped, pageOnly
<1>7. Sound(robot, stamp)'
  <2>1. Sound(robot', stamp')
    BY <1>1, <1>2, <1>4 DEF Sound
  <2> QED BY <1>2, <2>1, SoundPrime
<1>8. \A s : IsBehind(s, robot, stamp) => IsBehind(s, robot', stamp')
  BY <1>2, <1>4 DEF IsBehind, pageOnly
<1>9. WireInv'
  <2> SUFFICES ASSUME NEW i \in DOMAIN onWire', onWire'[i].state # Unseen
               PROVE  IsBehind(onWire'[i].state, robot', stamp')
    BY DEF WireInv
  <2>1. i \in DOMAIN onWire /\ onWire'[i] = onWire[i]
    BY <1>3, <1>5
  <2> QED BY <1>1, <1>8, <2>1 DEF WireInv
<1>10. ViewInv'
  <2>1. view' = view /\ (view # Unseen => IsBehind(view, robot', stamp') /\ InTime(view, since', robot'))
    BY <1>1, <1>2, <1>4, <1>8 DEF ViewInv, InTime, pageOnly
  <2>2. view = Unseen => "console" \in lapses' /\ \E i \in DOMAIN onWire' : onWire'[i].state # Unseen
    BY <1>1, <1>2, <1>5 DEF ViewInv
  <2> QED BY <2>1, <2>2 DEF ViewInv
<1>11. NewsInv'
  <2>1. CleanedOf(view)' = CleanedOf(view) /\ Opened' = Opened /\ ("console" \in lapses' <=> "console" \in lapses)
    BY <1>2 DEF CleanedOf, Opened, pageOnly
  <2>2. "console" \notin lapses => InOrder(Opened, CleanedOf(view), Append(onWire, item), robot.cleaned)
    <3>1. Opened \in 0..stamp /\ CleanedOf(view) \in 0..stamp /\ robot.cleaned \in 0..stamp
      BY CleanedIs
    <3>2. Opened \in Nat /\ CleanedOf(view) \in Nat /\ robot.cleaned \in Nat
      BY <3>1
    <3> DEFINE o == Opened
               k == CleanedOf(view)
    <3>3. "console" \notin lapses => InOrder(o, k, onWire, robot.cleaned)
      BY <1>1 DEF NewsInv
    <3> HIDE DEF o, k
    <3>4. o \in Nat /\ k \in Nat
      BY <3>2 DEF o, k
    <3>5. "console" \notin lapses => InOrder(o, k, Append(onWire, item), robot.cleaned)
      BY <1>3, <3>2, <3>3, <3>4, OrderAppended
    <3> QED BY <3>5 DEF o, k
  <2>3. SparklesAreEarned'
    BY <1>1, <1>2 DEF NewsInv, SparklesAreEarned, pageOnly
  <2> QED BY <1>1, <1>2, <1>4, <2>1, <2>2, <2>3 DEF NewsInv, Stale, pageOnly
<1> QED BY <1>6, <1>7, <1>9, <1>10, <1>11 DEF HouseInv

(* The page hears of the robot. *)
LEMMA DeliverStep ==
  ASSUME HouseInv, Deliver
  PROVE  HouseInv'
<1> DEFINE head == onWire[1]
<1>1. HouseTyped /\ Sound(robot, stamp) /\ ViewInv /\ WireInv /\ NewsInv
  BY DEF HouseInv
<1>2. onWire \in Seq(Items) /\ onWire # <<>> /\ Head(onWire) = head /\ head \in Items /\ 1 \in DOMAIN onWire
  BY <1>1 DEF HouseTyped, Deliver
<1>3. /\ onWire' = Tail(onWire) /\ online' = head.online
      /\ view' = (IF head.state = Unseen THEN view ELSE head.state)
      /\ since' = (IF head.state = Unseen THEN since ELSE 0)
      /\ (IF open THEN Notice(CleanedOf(view')) ELSE UNCHANGED <<known, sparkle>>)
      /\ UNCHANGED <<plan, robot, open, dog, orders, stamp, lapses, first>>
  BY <1>2 DEF Deliver
<1>4. /\ head.state \in States \cup {Unseen} /\ head.online \in BOOLEAN
      /\ head.state # Unseen => head.state.cleaned \in 0..stamp /\ IsBehind(head.state, robot, stamp)
  BY <1>1, <1>2, CleanedIs DEF WireInv, Items
<1>5. CleanedOf(view) \in 0..stamp /\ Opened \in 0..stamp /\ robot.cleaned \in 0..stamp /\ stamp \in Nat
  BY <1>1, CleanedIs DEF HouseTyped
<1> HIDE DEF head
<1>6. CleanedOf(view') = IF head.state = Unseen THEN CleanedOf(view) ELSE head.state.cleaned
  BY <1>3 DEF CleanedOf
<1>7. CleanedOf(view') \in 0..stamp
  BY <1>4, <1>5, <1>6
<1>8. /\ Len(onWire) \in Nat /\ Len(onWire) >= 1 /\ onWire' \in Seq(Items) /\ Len(onWire') = Len(onWire) - 1
      /\ DOMAIN onWire = 1..Len(onWire) /\ DOMAIN onWire' = 1..(Len(onWire) - 1)
      /\ \A i \in DOMAIN onWire' : onWire'[i] = onWire[i + 1]
  BY <1>2, <1>3
<1>9. /\ known' \in 0..stamp /\ (known' = known \/ known' = CleanedOf(view'))
      /\ open => known' = CleanedOf(view')
      /\ ~open => known' = known /\ sparkle' = sparkle
      /\ sparkle' \in [fresh : BOOLEAN, timer : BOOLEAN]
      /\ sparkle'.fresh => sparkle.fresh \/ (known' # 0 /\ known' # known)
  <2>1. known \in 0..stamp /\ sparkle \in [fresh : BOOLEAN, timer : BOOLEAN]
    BY <1>1 DEF HouseTyped
  <2>2. CASE ~open \/ CleanedOf(view') = known
    BY <1>3, <2>1, <2>2 DEF Notice
  <2>3. CASE open /\ CleanedOf(view') # known
    <3>1. known' = CleanedOf(view') /\ sparkle' = (IF CleanedOf(view') # 0 THEN Fresh ELSE [sparkle EXCEPT !.timer = FALSE])
      BY <1>3, <2>3 DEF Notice
    <3>2. Fresh \in [fresh : BOOLEAN, timer : BOOLEAN] /\ [sparkle EXCEPT !.timer = FALSE] \in [fresh : BOOLEAN, timer : BOOLEAN]
          /\ [sparkle EXCEPT !.timer = FALSE].fresh = sparkle.fresh
      BY <2>1 DEF Fresh
    <3> QED BY <1>7, <2>3, <3>1, <3>2
  <2> QED BY <2>2, <2>3
<1>10. HouseTyped'
  <2>1. Len(onWire') <= MaxWire
    BY <1>1, <1>8, HouseViewAssumption DEF HouseTyped
  <2>2. since' \in 0..LegTicks
    BY <1>1, <1>3, HouseViewAssumption DEF HouseTyped
  <2>3. view' \in States \cup {Unseen} /\ online' \in BOOLEAN
    BY <1>1, <1>3, <1>4 DEF HouseTyped
  <2> QED BY <1>1, <1>3, <1>8, <1>9, <2>1, <2>2, <2>3 DEF HouseTyped
<1>11. Sound(robot, stamp)'
  BY <1>1, <1>3, SoundPrime
<1>12. WireInv'
  BY <1>1, <1>3, <1>8 DEF WireInv
<1>13. ViewInv'
  <2>1. CASE head.state = Unseen
    <3>1. view' = view /\ since' = since
      BY <1>3, <2>1
    <3>2. view = Unseen => \E i \in DOMAIN onWire' : onWire'[i].state # Unseen
      <4> SUFFICES ASSUME view = Unseen PROVE \E i \in DOMAIN onWire' : onWire'[i].state # Unseen
        OBVIOUS
      <4>1. PICK i \in DOMAIN onWire : onWire[i].state # Unseen
        BY <1>1 DEF ViewInv
      <4>2. i # 1
        BY <2>1, <4>1 DEF head
      <4>3. i - 1 \in DOMAIN onWire' /\ onWire'[i - 1] = onWire[i]
        BY <1>8, <4>2
      <4> QED BY <4>1, <4>3
    <3> QED BY <1>1, <1>3, <3>1, <3>2 DEF ViewInv
  <2>2. CASE head.state # Unseen
    <3>1. view' = head.state /\ since' = 0 /\ IsBehind(head.state, robot, stamp) /\ head.state \in States
      BY <1>3, <1>4, <2>2
    <3>2. head.state.walked \in Nat
      BY <3>1, HouseViewAssumption DEF States
    <3>3. InTime(head.state, 0, robot)
      BY <3>1, <3>2 DEF IsBehind, InTime
    <3> QED BY <1>3, <2>2, <3>1, <3>3 DEF ViewInv
  <2> QED BY <2>1, <2>2
<1>14. NewsInv'
  <2> DEFINE o == Opened
             k == CleanedOf(view)
             k2 == CleanedOf(view')
             o2 == IF open THEN first ELSE CleanedOf(view')
  <2>1. Opened' = o2 /\ CleanedOf(view)' = k2
    BY <1>3 DEF Opened, CleanedOf
  <2>2. o2 \in {o, k2} /\ o \in Nat /\ k \in Nat /\ robot.cleaned \in Nat
    BY <1>5 DEF Opened
  <2>3. k2 = IF onWire[1].state = Unseen THEN k ELSE onWire[1].state.cleaned
    BY <1>6 DEF head
  <2>4. "console" \notin lapses => InOrder(o, k, onWire, robot.cleaned)
    BY <1>1 DEF NewsInv
  <2> HIDE DEF o, k, k2, o2
  <2>5. "console" \notin lapses => InOrder(o2, k2, Tail(onWire), robot.cleaned)
    BY <1>2, <2>2, <2>3, <2>4, OrderDelivered
  <2>6. SparklesAreEarned'
    <3> SUFFICES ASSUME sparkle'.fresh, known' # 0, "console" \notin lapses
                 PROVE  known' > first
      BY <1>3 DEF SparklesAreEarned
    <3>1. CASE known' = known
      <4>1. sparkle.fresh
        BY <1>9, <3>1
      <4> QED BY <1>1, <3>1, <4>1 DEF NewsInv, SparklesAreEarned
    <3>2. CASE known' # known
      <4>1. open /\ known' = k2 /\ known = k /\ o = first
        BY <1>1, <1>9, <3>2 DEF NewsInv, k, k2, o, Opened
      <4>2. onWire[1].state # Unseen /\ onWire[1].state.cleaned = k2
        BY <2>3, <3>2, <4>1
      <4>3. k2 \in Nat
        BY <1>7 DEF k2
      <4> QED BY <1>2, <2>2, <2>4, <3>2, <4>1, <4>2, <4>3, NewsIsLater
    <3> QED BY <3>1, <3>2
  <2>7. /\ open' => known' = CleanedOf(view)'
        /\ ~open' => known' = 0 /\ sparkle' = Stale
    BY <1>1, <1>3, <1>9, <2>1 DEF NewsInv, k2
  <2> QED BY <1>3, <2>1, <2>5, <2>6, <2>7 DEF NewsInv, Stale
<1> QED BY <1>10, <1>11, <1>12, <1>13, <1>14 DEF HouseInv

(* What the broker retains is the last state that was told, and it is true.  *)
LEMMA RetainedIsTrue ==
  ASSUME HouseInv
  PROVE  /\ LastSaid.online \in BOOLEAN
         /\ LastTold.state \in States /\ IsBehind(LastTold.state, robot, stamp)
<1> DEFINE all == Tellings
           n == Len(onWire)
           told(i) == /\ all[i].state # Unseen
                      /\ \A j \in DOMAIN all : j > i => all[j].state = Unseen
<1>1. HouseTyped /\ ViewInv /\ WireInv
  BY DEF HouseInv
<1>2. /\ onWire \in Seq(Items) /\ n \in Nat /\ DOMAIN onWire = 1..n /\ Item(online, view) \in Items
      /\ Item(online, view).state = view
  BY <1>1 DEF HouseTyped, Item, Items
<1>3. /\ all \in Seq(Items) /\ Len(all) = n + 1 /\ DOMAIN all = 1..(n + 1)
      /\ all[1] = Item(online, view) /\ \A i \in 1..n : all[i + 1] = onWire[i]
  BY <1>2 DEF Tellings
<1> HIDE DEF all
<1>4. \A i \in 1..(n + 1) : all[i] \in Items
  BY <1>3
<1>5. ASSUME NEW i \in 1..(n + 1), all[i].state # Unseen
      PROVE  all[i].state \in States /\ IsBehind(all[i].state, robot, stamp)
  <2>1. all[i].state \in States
    BY <1>4, <1>5 DEF Items
  <2>2. CASE i = 1
    BY <1>1, <1>2, <1>3, <1>5, <2>1, <2>2 DEF ViewInv
  <2>3. CASE i # 1
    <3>1. i - 1 \in 1..n /\ all[i] = onWire[i - 1]
      <4>1. i - 1 \in 1..n
        BY <1>2, <2>3
      <4>2. all[(i - 1) + 1] = onWire[i - 1]
        BY <1>3, <4>1
      <4> QED BY <4>1, <4>2
    <3> QED BY <1>1, <1>2, <1>5, <2>1, <3>1 DEF WireInv
  <2> QED BY <2>2, <2>3
<1>6. \E i \in 1..(n + 1) : all[i].state # Unseen
  <2>1. CASE view = Unseen
    <3>1. PICK i \in 1..n : onWire[i].state # Unseen
      BY <1>1, <1>2, <2>1 DEF ViewInv
    <3>2. i + 1 \in 1..(n + 1) /\ all[i + 1] = onWire[i]
      BY <1>2, <1>3
    <3> QED BY <3>1, <3>2
  <2>2. CASE view # Unseen
    <3>1. 1 \in 1..(n + 1) /\ all[1].state = view
      BY <1>2, <1>3
    <3> QED BY <2>2, <3>1
  <2> QED BY <2>1, <2>2
<1>7. \E i \in DOMAIN all : told(i)
  <2> DEFINE I == {m \in Nat : \E i \in 1..(n + 1) : all[i].state # Unseen /\ m = (n + 1) - i}
  <2>1. I # {}
    <3>1. PICK i \in 1..(n + 1) : all[i].state # Unseen
      BY <1>6
    <3>2. (n + 1) - i \in Nat
      BY <1>2
    <3> QED BY <3>1, <3>2
  <2>2. PICK m \in I : \A k \in I : m <= k
    <3>1. I \subseteq Nat
      OBVIOUS
    <3> HIDE DEF I
    <3> QED BY <2>1, <3>1, Least
  <2>3. PICK i \in 1..(n + 1) : all[i].state # Unseen /\ m = (n + 1) - i
    BY <2>2
  <2>4. ASSUME NEW j \in 1..(n + 1), j > i
        PROVE  all[j].state = Unseen
    <3> SUFFICES ASSUME all[j].state # Unseen PROVE FALSE
      OBVIOUS
    <3>1. (n + 1) - j \in I
      BY <1>2
    <3>2. m <= (n + 1) - j
      BY <2>2, <3>1
    <3> QED BY <1>2, <2>3, <2>4, <3>2
  <2> QED BY <1>3, <2>3, <2>4
<1>8. LET last == CHOOSE i \in DOMAIN all : told(i) IN last \in DOMAIN all /\ told(last) /\ LastTold = all[last]
  BY <1>7 DEF LastTold, all
<1>9. LastTold.state \in States /\ IsBehind(LastTold.state, robot, stamp)
  BY <1>3, <1>5, <1>8
<1>10. LastSaid.online \in BOOLEAN
  <2>1. LastSaid = all[n + 1]
    BY <1>3 DEF LastSaid, all
  <2>2. all[n + 1] \in Items
    BY <1>2, <1>4
  <2> QED BY <2>1, <2>2 DEF Items
<1> QED BY <1>9, <1>10

LEMMA ConsoleRestartsStep ==
  ASSUME HouseInv, ConsoleRestarts
  PROVE  HouseInv'
<1> DEFINE item == Item(LastSaid.online, LastTold.state)
<1>1. HouseTyped /\ Sound(robot, stamp) /\ NewsInv
  BY DEF HouseInv
<1>2. /\ onWire' = <<item>> /\ view' = Unseen /\ online' = FALSE /\ since' = 0 /\ "console" \in lapses'
      /\ (IF open THEN Notice(0) ELSE UNCHANGED <<known, sparkle>>)
      /\ UNCHANGED <<plan, robot, open, dog, orders, stamp, first>>
  BY DEF ConsoleRestarts
<1>3. item \in Items /\ item.state \in States /\ item.state # Unseen /\ IsBehind(item.state, robot, stamp)
  BY RetainedIsTrue, HouseViewAssumption DEF Item, Items
<1> HIDE DEF item
<1>4. /\ onWire' \in Seq(Items) /\ Len(onWire') = 1 /\ DOMAIN onWire' = {1} /\ onWire'[1] = item
  BY <1>2, <1>3
<1>5. known' = 0 /\ sparkle' \in [fresh : BOOLEAN, timer : BOOLEAN] /\ (~open => sparkle' = sparkle)
  <2>1. sparkle \in [fresh : BOOLEAN, timer : BOOLEAN]
    BY <1>1 DEF HouseTyped
  <2>2. CASE ~open
    BY <1>1, <1>2, <2>1, <2>2 DEF NewsInv
  <2>3. CASE open
    BY <1>2, <2>1, <2>3 DEF Notice
  <2> QED BY <2>2, <2>3
<1>6. HouseTyped'
  <2>1. 1 <= MaxWire /\ 0 \in 0..LegTicks
    BY HouseViewAssumption
  <2>2. 0 \in 0..stamp
    BY <1>1 DEF HouseTyped
  <2> QED BY <1>1, <1>2, <1>4, <1>5, <2>1, <2>2 DEF HouseTyped
<1>7. Sound(robot, stamp)'
  BY <1>1, <1>2, SoundPrime
<1>8. WireInv' /\ ViewInv'
  BY <1>2, <1>3, <1>4 DEF WireInv, ViewInv
<1>9. NewsInv'
  BY <1>1, <1>2, <1>5 DEF NewsInv, SparklesAreEarned, CleanedOf, Stale
<1> QED BY <1>6, <1>7, <1>8, <1>9 DEF HouseInv

LEMMA OpenPageStep ==
  ASSUME HouseInv, OpenPage
  PROVE  HouseInv'
<1>1. HouseTyped /\ Sound(robot, stamp) /\ ViewInv /\ WireInv /\ NewsInv
  BY DEF HouseInv
<1>2. /\ ~open /\ open' = TRUE /\ known' = CleanedOf(view) /\ sparkle' = Stale /\ first' = CleanedOf(view)
      /\ dog' = 0 /\ since' = 0 /\ UNCHANGED <<plan, robot, onWire, view, online, orders, stamp, lapses>>
  BY DEF OpenPage, Mounted
<1>3. CleanedOf(view) \in 0..stamp
  BY CleanedIs
<1>4. HouseTyped'
  BY <1>1, <1>2, <1>3, HouseViewAssumption DEF HouseTyped, Stale
<1>5. Sound(robot, stamp)'
  BY <1>1, <1>2, SoundPrime
<1>6. WireInv'
  BY <1>1, <1>2 DEF WireInv
<1>7. ViewInv'
  <2>1. view # Unseen => InTime(view, 0, robot)
    <3> SUFFICES ASSUME view # Unseen PROVE InTime(view, 0, robot)
      OBVIOUS
    <3>1. view \in States /\ IsBehind(view, robot, stamp)
      BY <1>1 DEF HouseTyped, ViewInv
    <3>2. view.walked \in Nat
      BY <3>1, HouseViewAssumption DEF States
    <3> QED BY <3>1, <3>2 DEF IsBehind, InTime
  <2> QED BY <1>1, <1>2, <2>1 DEF ViewInv
<1>8. NewsInv'
  BY <1>1, <1>2 DEF NewsInv, SparklesAreEarned, Opened, CleanedOf, Stale
<1> QED BY <1>4, <1>5, <1>6, <1>7, <1>8 DEF HouseInv

(* The dog walks, the timer fires, or nothing happens. *)
LEMMA PageSteps ==
  ASSUME HouseInv, Frame \/ TimerFires \/ UNCHANGED houseVars
  PROVE  HouseInv'
<1>1. HouseTyped /\ Sound(robot, stamp) /\ ViewInv /\ WireInv /\ NewsInv
  BY DEF HouseInv
<1>2. /\ UNCHANGED <<plan, robot, onWire, view, online, since, open, known, orders, stamp, lapses, first>>
      /\ sparkle' = sparkle \/ (sparkle.timer /\ sparkle' = Stale)
      /\ dog' = dog \/ (dog < DogGoal /\ dog' = dog + 1) \/ (dog # DogGoal /\ ~(dog < DogGoal) /\ dog' = dog - 1)
  BY DEF Frame, TimerFires, houseVars
<1>3. dog' \in 0..2
  BY <1>1, <1>2 DEF HouseTyped, DogGoal
<1>4. sparkle' \in [fresh : BOOLEAN, timer : BOOLEAN]
  <2>1. sparkle \in [fresh : BOOLEAN, timer : BOOLEAN] /\ Stale \in [fresh : BOOLEAN, timer : BOOLEAN]
    BY <1>1 DEF HouseTyped, Stale
  <2>2. sparkle' \in {sparkle, Stale}
    BY <1>2
  <2> QED BY <2>1, <2>2
<1>5. HouseTyped'
  BY <1>1, <1>2, <1>3, <1>4 DEF HouseTyped
<1>6. Sound(robot, stamp)'
  BY <1>1, <1>2, SoundPrime
<1>7. WireInv' /\ ViewInv'
  BY <1>1, <1>2 DEF WireInv, ViewInv
<1>8. NewsInv'
  <2>1. Opened' = Opened /\ CleanedOf(view)' = CleanedOf(view)
    BY <1>2 DEF Opened, CleanedOf
  <2>2. sparkle'.fresh => sparkle.fresh
    BY <1>2 DEF Stale
  <2> QED BY <1>1, <1>2, <2>1, <2>2 DEF NewsInv, SparklesAreEarned, Stale
<1> QED BY <1>5, <1>6, <1>7, <1>8 DEF HouseInv

LEMMA HouseSteps == HouseInv /\ [HouseNext]_houseVars => HouseInv'
<1> SUFFICES ASSUME HouseInv, [HouseNext]_houseVars PROVE HouseInv'
  OBVIOUS
<1>1. CASE Errand \/ ReturnToDock \/ Stop
  BY <1>1, ErrandSteps
<1>2. CASE TickOfRobot
  BY <1>2, TickStep
<1>3. CASE BowlEmpties
  BY <1>3, BowlEmptiesStep
<1>4. CASE RobotDies
  BY <1>4, RobotDiesStep
<1>5. CASE RobotReturns
  BY <1>5, RobotReturnsStep
<1>6. CASE ConsoleRestarts
  BY <1>6, ConsoleRestartsStep
<1>7. CASE Deliver
  BY <1>7, DeliverStep
<1>8. CASE OpenPage
  BY <1>8, OpenPageStep
<1>9. CASE Frame \/ TimerFires \/ UNCHANGED houseVars
  BY <1>9, PageSteps
<1> QED BY <1>1, <1>2, <1>3, <1>4, <1>5, <1>6, <1>7, <1>8, <1>9 DEF HouseNext

(* How far along its leg the page draws the robot. *)
LEMMA DrawnIs ==
  ASSUME HouseInv, view # Unseen
  PROVE  DrawnAlong \in 0..view.lasts /\ DrawnAlong <= view.walked + since /\ (view.lasts = 0 => DrawnAlong = view.walked)
<1>1. view \in States /\ since \in Nat /\ IsBehind(view, robot, stamp)
  BY HouseViewAssumption DEF HouseInv, HouseTyped, ViewInv
<1>2. view.walked \in Nat /\ view.lasts \in Nat /\ view.walked <= view.lasts
  BY <1>1, HouseViewAssumption DEF States, IsBehind
<1> QED BY <1>1, <1>2 DEF DrawnAlong, Elapsed

LEMMA HouseInvKeeps == HouseInv => HouseIsTrue
<1> SUFFICES ASSUME HouseInv PROVE HouseIsTrue
  OBVIOUS
<1>1. HouseTyped /\ Sound(robot, stamp) /\ ViewInv /\ NewsInv
  BY DEF HouseInv
<1>2. HouseTypeOK
  <2>1. robot \in Robots /\ view # Unseen => DrawnAlong \in 0..view.lasts
    BY <1>1, DrawnIs DEF HouseTyped
  <2> QED BY <1>1, <2>1, DrawnIs DEF HouseTyped, HouseTypeOK, Robots, Legs, Items
<1>3. LegsLieInRooms
  BY <1>1 DEF Sound, Chained, LegsLieInRooms
<1>4. DrawnIsNotAhead
  <2> SUFFICES ASSUME view # Unseen, robot.alive, view.leg = robot.leg
               PROVE  DrawnAlong <= robot.walked
    BY DEF DrawnIsNotAhead
  <2>1. IsBehind(view, robot, stamp) /\ InTime(view, since, robot)
    BY <1>1 DEF ViewInv
  <2>2. view.walked <= robot.walked /\ (view.lasts > 0 => view.walked + since <= robot.walked)
    BY <2>1 DEF IsBehind, InTime
  <2>3. DrawnAlong <= view.walked + since /\ (view.lasts = 0 => DrawnAlong = view.walked) /\ DrawnAlong \in 0..view.lasts
    BY DrawnIs
  <2>4. view.walked \in Nat /\ view.lasts \in Nat /\ robot.walked \in Nat /\ since \in Nat
    BY <1>1, HouseViewAssumption DEF HouseTyped, States, Robots
  <2> QED BY <2>2, <2>3, <2>4
<1> QED BY <1>1, <1>2, <1>3, <1>4 DEF HouseIsTrue, NewsInv

(* Of any plan of the rooms that the configuration accepts: every leg of the *)
(* robot lies in one room, the page never draws it further along its leg     *)
(* than it is, and the bathroom sparkles for no cleaning that was done before*)
(* the page was opened (devices/robot, Scene.tsx).                           *)
THEOREM HouseKept == HouseSpec => []HouseIsTrue
<1>1. HouseInit => HouseInv
  BY HouseStarts
<1>2. HouseInv /\ [HouseNext]_houseVars => HouseInv'
  BY HouseSteps
<1>3. HouseInv => HouseIsTrue
  BY HouseInvKeeps
<1> QED BY <1>1, <1>2, <1>3, PTL DEF HouseSpec
==============================================================================
