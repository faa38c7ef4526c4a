----------------------------- MODULE StreamProofs -----------------------------
(***************************************************************************)
(* Proofs about EventStream and StreamFilter, for any browsers, any sizes  *)
(* of the buffers, any markers and texts of any length; and before them    *)
(* what recursive functions need to be reasoned about.                     *)
(***************************************************************************)
EXTENDS EventStream, StreamFilter, SequenceTheorems, WellFoundedInduction, TLAPS

-----------------------------------------------------------------------------
(***************************************************************************)
(* Induction and recursion.  Predicates are sets, and the right-hand side  *)
(* of a recursive definition is a function Step from functions to          *)
(* functions, so that the facts below can be used of any of them.          *)
(***************************************************************************)
LEMMA SmallestNat ==
  ASSUME NEW S \in SUBSET Nat, S # {}
  PROVE  \E n \in S : \A m \in S : n <= m
<1> DEFINE R == {ss \in Nat \X Nat : ss[1] < ss[2]}
<1>0. IsWellFoundedOn(R, Nat)
  BY NatLessThanWellFounded DEF OpToRel
<1> HIDE DEF R
<1>1. PICK n \in S : \A m \in S : <<m, n>> \notin R
  BY <1>0, WFMin
<1>2. \A m \in S : ~ (m < n)
  BY <1>1 DEF R
<1> QED  BY <1>2

LEMMA NatSetInduction ==
  ASSUME NEW S, 0 \in S, \A n \in Nat : n \in S => n + 1 \in S
  PROVE  \A n \in Nat : n \in S
<1> DEFINE T == {n \in Nat : n \notin S}
<1>1. CASE T = {}
  BY <1>1
<1>2. CASE T # {}
  <2>1. PICK n \in T : \A m \in T : n <= m
    BY <1>2, SmallestNat
  <2>2. n # 0 /\ n - 1 \in Nat /\ n - 1 \notin T
    BY <2>1
  <2> QED  BY <2>1, <2>2
<1> QED  BY <1>1, <1>2

\* The same by the size of the elements of any set.
LEMMA SizeInduction ==
  ASSUME NEW D, NEW P, NEW Size \in [D -> Nat],
         \A x \in D : (\A y \in D : Size[y] < Size[x] => y \in P) => x \in P
  PROVE  \A x \in D : x \in P
<1> DEFINE S == {n \in Nat : \A x \in D : Size[x] < n => x \in P}
<1>1. 0 \in S
  OBVIOUS
<1>2. \A n \in Nat : n \in S => n + 1 \in S
  <2> SUFFICES ASSUME NEW n \in Nat, n \in S, NEW x \in D, Size[x] < n + 1 PROVE x \in P
    OBVIOUS
  <2>1. \A y \in D : Size[y] < Size[x] => Size[y] < n
    OBVIOUS
  <2> QED  BY <2>1
<1>3. \A n \in Nat : n \in S
  <2> HIDE DEF S
  <2> QED  BY <1>1, <1>2, NatSetInduction
<1>4. \A x \in D : Size[x] + 1 \in S /\ Size[x] < Size[x] + 1
  BY <1>3
<1> QED  BY <1>4

IsRecursion(D, V, Size, Step) ==
  /\ [D -> V] # {}
  /\ Size \in [D -> Nat]
  /\ Step \in [[D -> V] -> [D -> V]]
  /\ \A g, h \in [D -> V] : \A x \in D :
       (\A y \in D : Size[y] < Size[x] => g[y] = h[y]) => Step[g][x] = Step[h][x]

HasSolution(D, V, Step) == \E f \in [D -> V] : f = Step[f]

LEMMA RecursiveFunction ==
  ASSUME NEW D, NEW V, NEW Size, NEW Step, IsRecursion(D, V, Size, Step)
  PROVE  HasSolution(D, V, Step)
<1> USE DEF IsRecursion, HasSolution
<1> DEFINE Below(n) == {x \in D : Size[x] < n}
           Solves(g, n) == g \in [D -> V] /\ \A x \in Below(n) : g[x] = Step[g][x]
           Solved == {n \in Nat : \E g : Solves(g, n)}
           Agreeing == {n \in Nat : \A g, h : Solves(g, n) /\ Solves(h, n) =>
                                      \A x \in Below(n) : g[x] = h[x]}
<1>1. 0 \in Solved
  <2>1. PICK g \in [D -> V] : TRUE
    OBVIOUS
  <2>2. Below(0) = {}
    OBVIOUS
  <2>3. Solves(g, 0)
    BY <2>2
  <2> QED  BY <2>3
<1>2. ASSUME NEW n \in Nat, n \in Solved PROVE n + 1 \in Solved
  <2>1. PICK g : Solves(g, n)
    BY <1>2
  <2> DEFINE h == [x \in D |-> IF Size[x] < n THEN g[x] ELSE Step[g][x]]
  <2>2. h \in [D -> V] /\ \A x \in Below(n) : h[x] = g[x]
    BY <2>1
  <2>3. ASSUME NEW x \in Below(n + 1) PROVE h[x] = Step[h][x]
    <3>1. \A y \in D : Size[y] < Size[x] => g[y] = h[y]
      BY <2>3
    <3>2. Step[g][x] = Step[h][x]
      BY <2>1, <2>2, <3>1
    <3>3. h[x] = Step[g][x]
      BY <2>1
    <3> QED  BY <3>2, <3>3
  <2> HIDE DEF h
  <2>4. Solves(h, n + 1)
    BY <2>2, <2>3
  <2> QED  BY <2>4
<1>3. 0 \in Agreeing
  OBVIOUS
<1>4. ASSUME NEW n \in Nat, n \in Agreeing PROVE n + 1 \in Agreeing
  <2>1. ASSUME NEW g, NEW h, Solves(g, n + 1), Solves(h, n + 1), NEW x \in Below(n + 1)
        PROVE  g[x] = h[x]
    <3>1. Solves(g, n) /\ Solves(h, n)
      BY <2>1
    <3>2. \A y \in D : Size[y] < Size[x] => g[y] = h[y]
      BY <1>4, <3>1
    <3>3. Step[g][x] = Step[h][x]
      BY <2>1, <3>2
    <3> QED  BY <2>1, <3>3
  <2> QED  BY <2>1
<1>5. \A n \in Nat : n \in Solved /\ n \in Agreeing
  <2> HIDE DEF Solved, Agreeing
  <2>1. \A n \in Nat : n \in Solved
    BY <1>1, <1>2, NatSetInduction
  <2>2. \A n \in Nat : n \in Agreeing
    BY <1>3, <1>4, NatSetInduction
  <2> QED  BY <2>1, <2>2
<1> DEFINE G == [n \in Nat |-> CHOOSE g : Solves(g, n)]
           f == [x \in D |-> G[Size[x] + 1][x]]
<1>6. \A n \in Nat : Solves(G[n], n)
  BY <1>5
<1> HIDE DEF G
<1>7. f \in [D -> V]
  BY <1>6
<1>8. ASSUME NEW x \in D PROVE f[x] = Step[f][x]
  <2> DEFINE n == Size[x] + 1
  <2>1. n \in Nat /\ Solves(G[n], n) /\ x \in Below(n)
    BY <1>6
  <2>2. ASSUME NEW y \in D, Size[y] < Size[x] PROVE G[n][y] = f[y]
    <3> DEFINE m == Size[y] + 1
    <3>1. m \in Nat /\ m < n /\ y \in Below(m)
      BY <2>1, <2>2
    <3>2. Below(m) \subseteq Below(n)
      BY <2>1, <3>1
    <3>3. Solves(G[m], m) /\ Solves(G[n], m)
      BY <1>6, <2>1, <3>1, <3>2
    <3>4. m \in Agreeing
      BY <1>5, <3>1
    <3>5. G[n][y] = G[m][y]
      BY <3>1, <3>3, <3>4
    <3>6. f[y] = G[m][y]
      BY <2>2
    <3> QED  BY <3>5, <3>6
  <2> HIDE DEF f
  <2>3. Step[G[n]][x] = Step[f][x]
    BY <1>7, <2>1, <2>2
  <2>4. f[x] = G[n][x]
    BY DEF f
  <2> QED  BY <1>1, <2>1, <2>3, <2>4
<1>9. Step[f] \in [D -> V]
  BY <1>7
<1> HIDE DEF f
<1>10. f = Step[f]
  BY <1>7, <1>8, <1>9
<1> QED  BY <1>7, <1>10


\* A loop: Body[i] is what its i-th iteration makes of a value.
Iterates(f, n, first, Body) == f = [i \in 0 .. n |-> IF i = 0 THEN first ELSE Body[i][f[i - 1]]]

HasIteration(n, V, first, Body) == \E f \in [0 .. n -> V] : Iterates(f, n, first, Body)

LEMMA Iteration ==
  ASSUME NEW n \in Nat, NEW V, NEW first \in V, NEW Body \in [1 .. n -> [V -> V]]
  PROVE  HasIteration(n, V, first, Body)
<1> DEFINE D == 0 .. n
           Loop(f) == [i \in D |-> IF i = 0 THEN first ELSE Body[i][f[i - 1]]]
           Step == [f \in [D -> V] |-> Loop(f)]
           Size == [i \in D |-> i]
<1>1. ASSUME NEW f \in [D -> V] PROVE Loop(f) \in [D -> V]
  <2>1. \A i \in D : i # 0 => i \in 1 .. n /\ i - 1 \in D
    OBVIOUS
  <2> QED  BY <2>1
<1>2. [D -> V] # {}
  <2>1. [i \in D |-> first] \in [D -> V]
    OBVIOUS
  <2> QED  BY <2>1
<1>3. \A f \in [D -> V] : Step[f] = Loop(f)
  OBVIOUS
<1>4. Step \in [[D -> V] -> [D -> V]]
  BY <1>1
<1>5. Size \in [D -> Nat]
  OBVIOUS
<1>6. ASSUME NEW g \in [D -> V], NEW h \in [D -> V], NEW i \in D,
             \A j \in D : Size[j] < Size[i] => g[j] = h[j]
      PROVE  Step[g][i] = Step[h][i]
  <2>1. i # 0 => i - 1 \in D /\ Size[i - 1] < Size[i]
    OBVIOUS
  <2>2. Step[g] = Loop(g) /\ Step[h] = Loop(h)
    BY <1>3
  <2>3. Loop(g)[i] = Loop(h)[i]
    BY <1>6, <2>1
  <2> QED  BY <2>2, <2>3
<1> HIDE DEF Step, Size, D
<1>7. IsRecursion(D, V, Size, Step)
  BY <1>2, <1>4, <1>5, <1>6 DEF IsRecursion
<1>8. PICK f \in [D -> V] : f = Step[f]
  BY <1>7, RecursiveFunction DEF HasSolution
<1>9. f = Loop(f)
  BY <1>3, <1>8
<1> QED  BY <1>8, <1>9 DEF HasIteration, Iterates, D

-----------------------------------------------------------------------------
(***************************************************************************)
(* The event stream.  The events kept are the last ones (Kept); what waits *)
(* for a browser follows what it got, and reaches up to the last event as  *)
(* long as its channel is open (Waits).                                    *)
(***************************************************************************)
Kept ==
  /\ lastID \in Nat /\ replay \in Seq(Nat)
  /\ Len(replay) = IF lastID < MaxReplay THEN lastID ELSE MaxReplay
  /\ \A i \in 1 .. Len(replay) : replay[i] = lastID - Len(replay) + i

\* The event a browser is sent next, and s: the events from n on.
Due(h) == IF h.emitted = 0 THEN h.due ELSE h.emitted + 1
Consecutive(s, n) == \A i \in 1 .. Len(s) : s[i] = n + i - 1

Handlers ==
  [pc : {"off", "replay", "live"}, open : BOOLEAN, queue : Seq(Nat), backlog : Seq(Nat),
   emitted : Nat, due : Nat, seen : Nat]

Waits(h, last) ==
  /\ h.seen <= last /\ h.emitted <= last
  /\ h.pc = "off" => h = NoHandler(h.seen)
  /\ h.pc # "off" =>
       /\ Due(h) >= 1
       /\ Consecutive(h.backlog, Due(h))
       /\ Consecutive(h.queue, Due(h) + Len(h.backlog))
       /\ Due(h) + Len(h.backlog) + Len(h.queue) <= last + 1
       /\ h.open => Due(h) + Len(h.backlog) + Len(h.queue) = last + 1
  /\ h.pc = "live" => h.backlog = <<>>

StreamInv ==
  /\ Kept
  /\ handler \in [Browsers -> Handlers]
  /\ \A b \in Browsers : Waits(handler[b], lastID)

LEMMA Sizes == MaxReplay \in Nat /\ MaxReplay >= 1 /\ Buffer \in Nat /\ Buffer >= 1
BY StreamAssumption

\* What Missed returns: of consecutive events those after `last'.
LEMMA MissedOf ==
  ASSUME Kept, NEW last \in Nat, last <= lastID
  PROVE  LET first == 1 + IF last < lastID - MaxReplay THEN lastID - MaxReplay ELSE last IN
         /\ Missed(last) \in Seq(Nat)
         /\ Consecutive(Missed(last), first)
         /\ first + Len(Missed(last)) = lastID + 1
<1> DEFINE n == Len(replay)
           base == lastID - n
           first == 1 + IF last < lastID - MaxReplay THEN lastID - MaxReplay ELSE last
           Body == [i \in 1 .. n |-> [s \in Seq(Nat) |->
                      IF replay[i] > last THEN Append(s, replay[i]) ELSE s]]
           Rec(f) == [i \in 0 .. n |-> IF i = 0 THEN <<>> ELSE
                        IF replay[i] > last THEN Append(f[i - 1], replay[i]) ELSE f[i - 1]]
           missed == CHOOSE f : f = Rec(f)
<1>1. /\ n \in Nat /\ base \in Nat /\ lastID \in Nat /\ first \in Nat /\ first > base
      /\ \A i \in 1 .. n : replay[i] \in Nat /\ replay[i] = base + i
      /\ first = IF last < base THEN base + 1 ELSE last + 1
  <2>1. n \in Nat /\ lastID \in Nat /\ \A i \in 1 .. n : replay[i] \in Nat /\ replay[i] = base + i
    BY DEF Kept
  <2>2. n = IF lastID < MaxReplay THEN lastID ELSE MaxReplay
    BY DEF Kept
  <2> HIDE DEF n
  <2> QED  BY Sizes, <2>1, <2>2
<1>2. Body \in [1 .. n -> [Seq(Nat) -> Seq(Nat)]]
  BY <1>1
<1>3. HasIteration(n, Seq(Nat), <<>>, Body)
  <2>1. n \in Nat /\ <<>> \in Seq(Nat)
    BY <1>1
  <2> HIDE DEF n, Body
  <2> QED  BY <1>2, <2>1, Iteration
<1>4. PICK f \in [0 .. n -> Seq(Nat)] : Iterates(f, n, <<>>, Body)
  BY <1>3 DEF HasIteration
<1>5. f = Rec(f)
  <2>0. \A i \in 1 .. n : i - 1 \in 0 .. n
    BY <1>1
  <2>1. \A i \in 1 .. n : f[i - 1] \in Seq(Nat)
    BY <1>4, <2>0
  <2>2. \A i \in 1 .. n : Body[i][f[i - 1]] = IF replay[i] > last THEN Append(f[i - 1], replay[i]) ELSE f[i - 1]
    BY <2>1
  <2>3. f = [i \in 0 .. n |-> IF i = 0 THEN <<>> ELSE Body[i][f[i - 1]]]
    BY <1>4 DEF Iterates
  <2> HIDE DEF Body
  <2>4. \A i \in 0 .. n : i # 0 => i \in 1 .. n
    BY <1>1
  <2> QED  BY <2>2, <2>3, <2>4
<1>6. missed = Rec(missed)
  BY <1>5
<1>7. Missed(last) = missed[n]
  BY DEF Missed
<1> HIDE DEF missed, n, base, first
<1> DEFINE Good == {i \in Nat : i <= n =>
             /\ missed[i] \in Seq(Nat) /\ Consecutive(missed[i], first)
             /\ Len(missed[i]) = IF base + i < first THEN 0 ELSE base + i - first + 1}
<1>8. 0 \in Good
  <2>1. missed[0] = <<>>
    <3>1. 0 \in 0 .. n
      BY <1>1
    <3> QED  BY <1>6, <3>1
  <2>3. <<>> \in Seq(Nat) /\ Len(<<>>) = 0 /\ Consecutive(<<>>, first)
    BY DEF Consecutive
  <2>4. base + 0 < first
    BY <1>1
  <2>5. /\ missed[0] \in Seq(Nat) /\ Consecutive(missed[0], first)
        /\ Len(missed[0]) = IF base + 0 < first THEN 0 ELSE base + 0 - first + 1
    BY <2>1, <2>3, <2>4
  <2> QED  BY <2>5
<1>9. ASSUME NEW i \in Nat, i \in Good PROVE i + 1 \in Good
  <2> SUFFICES ASSUME i + 1 <= n PROVE i + 1 \in Good
    OBVIOUS
  <2> DEFINE s == missed[i]
  <2>1. missed[i + 1] = IF replay[i + 1] > last THEN Append(s, replay[i + 1]) ELSE s
    <3>1. i + 1 \in 0 .. n /\ i + 1 # 0 /\ (i + 1) - 1 = i
      BY <1>1
    <3> QED  BY <1>6, <3>1
  <2>2. /\ s \in Seq(Nat) /\ Consecutive(s, first)
        /\ Len(s) = IF base + i < first THEN 0 ELSE base + i - first + 1
    <3>1. i <= n
      BY <1>1
    <3> QED  BY <1>9, <3>1
  <2>3. replay[i + 1] = base + i + 1 /\ replay[i + 1] \in Nat
    BY <1>1
  <2> HIDE DEF s
  <2>4. CASE base + i + 1 > last
    <3>1. missed[i + 1] = Append(s, base + i + 1)
      BY <2>1, <2>3, <2>4
    <3>2. Len(s) = base + i + 1 - first
      BY <1>1, <2>2, <2>4
    <3>0. base + i + 1 \in Nat
      BY <1>1
    <3>3. /\ Append(s, base + i + 1) \in Seq(Nat) /\ Len(Append(s, base + i + 1)) = Len(s) + 1
          /\ \A j \in 1 .. Len(s) : Append(s, base + i + 1)[j] = s[j]
          /\ Append(s, base + i + 1)[Len(s) + 1] = base + i + 1
      <4> QED  BY <2>2, <3>0, AppendProperties
    <3>4. Consecutive(missed[i + 1], first)
      <4> DEFINE m == Len(s)
      <4>0. m \in Nat
        BY <2>2
      <4> HIDE DEF m
      <4>1. \A j \in 1 .. m + 1 : j \in 1 .. m \/ j = m + 1
        BY <4>0
      <4>2. base + i + 1 = first + (m + 1) - 1
        BY <1>1, <3>2 DEF m
      <4>3. \A j \in 1 .. m : s[j] = first + j - 1
        BY <2>2 DEF m, Consecutive
      <4>4. Len(missed[i + 1]) = m + 1 /\ missed[i + 1][m + 1] = base + i + 1
            /\ \A j \in 1 .. m : missed[i + 1][j] = s[j]
        BY <3>1, <3>3 DEF m
      <4> QED  BY <4>1, <4>2, <4>3, <4>4 DEF Consecutive
    <3>5. ~(base + (i + 1) < first)
      BY <1>1, <2>4
    <3>6. Len(missed[i + 1]) = base + (i + 1) - first + 1
      BY <1>1, <3>1, <3>2, <3>3
    <3>7. missed[i + 1] \in Seq(Nat)
      BY <3>1, <3>3
    <3> QED  BY <3>4, <3>5, <3>6, <3>7
  <2>5. CASE base + i + 1 <= last
    <3>1. missed[i + 1] = s
      BY <1>1, <2>1, <2>3, <2>5
    <3> QED  BY <1>1, <2>2, <2>5, <3>1
  <2> QED  BY <1>1, <2>4, <2>5
<1> HIDE DEF Good
<1>10. n \in Good
  BY <1>1, <1>8, <1>9, NatSetInduction
<1>11. /\ Missed(last) \in Seq(Nat) /\ Consecutive(Missed(last), first)
       /\ Len(Missed(last)) = IF lastID < first THEN 0 ELSE lastID - first + 1
  <2>1. base + n = lastID
    BY <1>1 DEF base
  <2> QED  BY <1>1, <1>7, <1>10, <2>1 DEF Good
<1>12. first + Len(Missed(last)) = lastID + 1
  <2>1. first <= lastID + 1
    BY <1>1 DEF first, base
  <2> QED  BY <1>1, <1>11, <2>1
<1> QED  BY <1>11, <1>12 DEF first

LEMMA ConsecutiveAppend ==
  ASSUME NEW s \in Seq(Nat), NEW n \in Nat, Consecutive(s, n)
  PROVE  /\ Append(s, n + Len(s)) \in Seq(Nat) /\ Consecutive(Append(s, n + Len(s)), n)
         /\ Len(Append(s, n + Len(s))) = Len(s) + 1
<1> DEFINE t == Append(s, n + Len(s))
<1>1. /\ t \in Seq(Nat) /\ Len(t) = Len(s) + 1 /\ Len(s) \in Nat
      /\ \A i \in 1 .. Len(s) : t[i] = s[i]
      /\ t[Len(s) + 1] = n + Len(s)
  BY AppendProperties
<1> HIDE DEF t
<1> DEFINE l == Len(s)
<1>2. /\ l \in Nat /\ Len(t) = l + 1 /\ t[l + 1] = n + (l + 1) - 1
      /\ \A i \in 1 .. l : t[i] = n + i - 1
  BY <1>1 DEF Consecutive
<1> HIDE DEF l
<1>3. \A i \in 1 .. Len(t) : i \in 1 .. l \/ i = l + 1
  BY <1>2
<1>4. \A i \in 1 .. Len(t) : t[i] = n + i - 1
  BY <1>2, <1>3
<1> QED  BY <1>1, <1>4 DEF Consecutive, t

LEMMA ConsecutiveTail ==
  ASSUME NEW s \in Seq(Nat), NEW n \in Nat, Consecutive(s, n), s # <<>>
  PROVE  /\ Head(s) = n /\ Tail(s) \in Seq(Nat) /\ Consecutive(Tail(s), n + 1)
         /\ Len(Tail(s)) = Len(s) - 1
<1>1. /\ Head(s) = s[1] /\ Tail(s) \in Seq(Nat) /\ Len(Tail(s)) = Len(s) - 1
      /\ Len(s) \in Nat /\ Len(s) >= 1
      /\ \A i \in 1 .. Len(Tail(s)) : Tail(s)[i] = s[i + 1]
  BY HeadTailProperties, EmptySeq
<1>2. s[1] = n
  BY <1>1 DEF Consecutive
<1>3. \A i \in 1 .. Len(Tail(s)) : i + 1 \in 1 .. Len(s)
  BY <1>1
<1>4. \A i \in 1 .. Len(Tail(s)) : Tail(s)[i] = (n + 1) + i - 1
  BY <1>1, <1>3 DEF Consecutive
<1> QED  BY <1>1, <1>2, <1>4 DEF Consecutive

LEMMA KeptByPublish ==
  ASSUME Kept, publish
  PROVE  Kept'
<1> DEFINE n == Len(replay)
           r == Append(replay, lastID + 1)
<1>1. /\ lastID \in Nat /\ lastID' = lastID + 1 /\ n \in Nat
      /\ n = IF lastID < MaxReplay THEN lastID ELSE MaxReplay
  BY DEF Kept, publish
<1>2. /\ r \in Seq(Nat) /\ Len(r) = n + 1
      /\ \A i \in 1 .. n : r[i] = replay[i]
      /\ r[n + 1] = lastID + 1
  BY <1>1, AppendProperties DEF Kept
<1>3. \A i \in 1 .. n + 1 : r[i] = lastID + 1 - (n + 1) + i
  <2>1. \A i \in 1 .. n : replay[i] = lastID - n + i
    BY DEF Kept
  <2> HIDE DEF n, r
  <2>2. \A i \in 1 .. n : r[i] = lastID + 1 - (n + 1) + i
    BY <1>1, <1>2, <2>1
  <2>3. r[n + 1] = lastID + 1 - (n + 1) + (n + 1)
    BY <1>1, <1>2
  <2>4. \A i \in 1 .. n + 1 : i \in 1 .. n \/ i = n + 1
    BY <1>1
  <2> QED  BY <2>2, <2>3, <2>4
<1>4. replay' = Trimmed(r)
  BY DEF publish
<1> HIDE DEF n, r
<1>5. CASE n + 1 <= MaxReplay
  <2>1. replay' = r
    BY <1>2, <1>4, <1>5 DEF Trimmed
  <2>2. n + 1 = IF lastID + 1 < MaxReplay THEN lastID + 1 ELSE MaxReplay
    BY Sizes, <1>1, <1>5
  <2> QED  BY <1>1, <1>2, <1>3, <2>1, <2>2 DEF Kept
<1>6. CASE n + 1 > MaxReplay
  <2>0. n = MaxReplay /\ lastID >= MaxReplay
    BY Sizes, <1>1, <1>6
  <2>1. replay' = SubSeq(r, 2, n + 1)
    <3>1. Len(r) - MaxReplay + 1 = 2 /\ ~(Len(r) <= MaxReplay)
      BY Sizes, <1>1, <1>2, <2>0
    <3> QED  BY <1>2, <1>4, <3>1 DEF Trimmed
  <2>2. /\ SubSeq(r, 2, n + 1) \in Seq(Nat) /\ Len(SubSeq(r, 2, n + 1)) = n
        /\ \A i \in 1 .. n : SubSeq(r, 2, n + 1)[i] = r[i + 1]
    <3>1. n >= 1 /\ n + 1 \in Int
      BY Sizes, <1>1, <2>0
    <3>2. \A i \in 2 .. n + 1 : r[i] \in Nat
      <4>1. \A i \in 2 .. n + 1 : i \in 1 .. Len(r)
        BY <1>1, <1>2
      <4> QED  BY <1>2, <4>1, ElementOfSeq
    <3>3. /\ SubSeq(r, 2, n + 1) \in Seq(Nat)
          /\ Len(SubSeq(r, 2, n + 1)) = IF 2 <= n + 1 THEN (n + 1) - 2 + 1 ELSE 0
          /\ \A i \in 1 .. (n + 1) - 2 + 1 : SubSeq(r, 2, n + 1)[i] = r[2 + i - 1]
      BY <3>1, <3>2, SubSeqProperties
    <3>4. (n + 1) - 2 + 1 = n /\ 2 <= n + 1 /\ \A i \in 1 .. n : 2 + i - 1 = i + 1
      BY <1>1, <3>1
    <3> QED  BY <3>3, <3>4
  <2>3. \A i \in 1 .. n : replay'[i] = lastID + 1 - n + i
    <3>1. \A i \in 1 .. n : r[i + 1] = lastID + 1 - (n + 1) + (i + 1)
      BY <1>1, <1>3
    <3> QED  BY <1>1, <2>1, <2>2, <3>1
  <2>4. n = IF lastID + 1 < MaxReplay THEN lastID + 1 ELSE MaxReplay
    BY Sizes, <1>1, <2>0
  <2>5. replay' \in Seq(Nat) /\ Len(replay') = n
    BY <2>1, <2>2
  <2>6. lastID' = lastID + 1 /\ lastID' \in Nat
    BY <1>1
  <2>7. \A i \in 1 .. n : replay'[i] = lastID' - n + i
    <3>1. ASSUME NEW i \in 1 .. n PROVE replay'[i] = lastID' - n + i
      <4>1. replay'[i] = lastID + 1 - n + i
        BY <2>3
      <4> QED  BY <1>1, <4>1
    <3> QED  BY <3>1
  <2>8. n = IF lastID' < MaxReplay THEN lastID' ELSE MaxReplay
    BY <2>4, <2>6
  <2> QED  BY <2>5, <2>6, <2>7, <2>8 DEF Kept
<1> QED  BY Sizes, <1>1, <1>5, <1>6

\* What a handler's guards and numbers are, whatever waits for it.
LEMMA WaitsTypes ==
  ASSUME NEW h \in Handlers
  PROVE  /\ h.queue \in Seq(Nat) /\ h.backlog \in Seq(Nat) /\ h.emitted \in Nat /\ h.due \in Nat
         /\ h.seen \in Nat /\ h.open \in BOOLEAN /\ Due(h) \in Nat
         /\ Len(h.queue) \in Nat /\ Len(h.backlog) \in Nat
BY DEF Handlers, Due

\* A subscriber's handler after an event, and the others'.
LEMMA OfferedKeeps ==
  ASSUME NEW h \in Handlers, NEW id \in Nat, Waits(h, id), h.pc # "off", h.open
  PROVE  /\ Offered(h, id + 1) \in Handlers /\ Waits(Offered(h, id + 1), id + 1)
         /\ Offered(h, id + 1).emitted = h.emitted
<1>1. /\ Due(h) \in Nat /\ h.queue \in Seq(Nat) /\ h.backlog \in Seq(Nat)
      /\ Len(h.backlog) \in Nat /\ Len(h.queue) \in Nat
      /\ h.seen \in Nat /\ h.emitted \in Nat
  BY WaitsTypes
<1>2. /\ Due(h) >= 1 /\ Consecutive(h.backlog, Due(h))
      /\ Consecutive(h.queue, Due(h) + Len(h.backlog))
      /\ Due(h) + Len(h.backlog) + Len(h.queue) = id + 1
      /\ (h.pc = "live" => h.backlog = <<>>)
      /\ h.seen <= id /\ h.emitted <= id
  BY DEF Waits
<1> DEFINE q == Append(h.queue, id + 1)
<1>3. CASE Len(h.queue) < Buffer
  <2> DEFINE k == [h EXCEPT !.queue = q]
  <2>1. Offered(h, id + 1) = k
    BY <1>3 DEF Offered
  <2>2. /\ q \in Seq(Nat) /\ Consecutive(q, Due(h) + Len(h.backlog))
        /\ Len(q) = Len(h.queue) + 1
    <3> DEFINE n == Due(h) + Len(h.backlog)
               l == Len(h.queue)
    <3>1. n \in Nat /\ l \in Nat
      BY <1>1
    <3>2. Consecutive(h.queue, n) /\ n + l = id + 1
      BY <1>2
    <3> HIDE DEF n
    <3>3. /\ Append(h.queue, n + l) \in Seq(Nat) /\ Consecutive(Append(h.queue, n + l), n)
          /\ Len(Append(h.queue, n + l)) = l + 1
      BY <1>1, <3>1, <3>2, ConsecutiveAppend
    <3> HIDE DEF l
    <3>4. q \in Seq(Nat) /\ Consecutive(q, n) /\ Len(q) = l + 1
      BY <3>2, <3>3
    <3> QED  BY <3>4 DEF n, l
  <2>3. /\ k \in Handlers /\ k.pc = h.pc /\ k.open = h.open /\ k.queue = q
        /\ k.backlog = h.backlog /\ k.emitted = h.emitted /\ k.due = h.due /\ k.seen = h.seen
    BY <2>2 DEF Handlers
  <2> HIDE DEF q, k
  <2>4. Due(k) = Due(h)
    BY <2>3 DEF Due
  <2>5. Due(k) + Len(k.backlog) + Len(k.queue) = (id + 1) + 1
    <3> DEFINE m == Len(h.backlog)
               n == Len(h.queue)
    <3>1. m \in Nat /\ n \in Nat /\ Due(h) + m + n = id + 1
      BY <1>1, <1>2
    <3>2. Len(k.backlog) = m /\ Len(k.queue) = n + 1
      BY <2>2, <2>3
    <3> HIDE DEF m, n
    <3> QED  BY <1>1, <2>4, <3>1, <3>2
  <2>6. Waits(k, id + 1)
    <3>1. k.seen <= id + 1 /\ k.emitted <= id + 1
      BY <1>1, <1>2, <2>3
    <3>2. Due(k) + Len(k.backlog) + Len(k.queue) <= (id + 1) + 1
      BY <2>5
    <3> QED  BY <1>2, <2>2, <2>3, <2>4, <2>5, <3>1, <3>2 DEF Waits
  <2> QED  BY <2>1, <2>3, <2>6
<1>4. CASE ~(Len(h.queue) < Buffer)
  <2> DEFINE k == [h EXCEPT !.open = FALSE]
  <2>1. Offered(h, id + 1) = k
    BY <1>4 DEF Offered
  <2>3. /\ k \in Handlers /\ k.pc = h.pc /\ k.open = FALSE /\ k.queue = h.queue
        /\ k.backlog = h.backlog /\ k.emitted = h.emitted /\ k.due = h.due /\ k.seen = h.seen
    BY DEF Handlers
  <2> HIDE DEF k
  <2>4. Due(k) = Due(h)
    BY <2>3 DEF Due
  <2>6. Waits(k, id + 1)
    <3>1. k.seen <= id + 1 /\ k.emitted <= id + 1
      BY <1>1, <1>2, <2>3
    <3>2. Due(k) + Len(k.backlog) + Len(k.queue) <= (id + 1) + 1
      BY <1>1, <1>2, <2>3, <2>4
    <3> QED  BY <1>2, <2>3, <2>4, <3>1, <3>2 DEF Waits
  <2> QED  BY <2>1, <2>3, <2>6
<1> QED  BY <1>3, <1>4

LEMMA UnsubscribedKeeps ==
  ASSUME NEW h \in Handlers, NEW id \in Nat, Waits(h, id), h.pc = "off" \/ ~h.open
  PROVE  Waits(h, id + 1)
<1>1. /\ Due(h) \in Nat /\ Len(h.backlog) \in Nat /\ Len(h.queue) \in Nat
      /\ h.seen \in Nat /\ h.emitted \in Nat
  BY WaitsTypes
<1>2. h.seen <= id + 1 /\ h.emitted <= id + 1
  BY <1>1 DEF Waits
<1>3. h.pc # "off" => Due(h) + Len(h.backlog) + Len(h.queue) <= (id + 1) + 1
  <2>1. h.pc # "off" => Due(h) + Len(h.backlog) + Len(h.queue) <= id + 1
    BY DEF Waits
  <2> QED  BY <1>1, <2>1
<1> QED  BY <1>2, <1>3 DEF Waits

LEMMA PublishKeeps ==
  ASSUME StreamInv, publish
  PROVE  StreamInv' /\ \A b \in Browsers : handler'[b].emitted = handler[b].emitted
<1>1. Kept'
  BY KeptByPublish DEF StreamInv
<1>2. ASSUME NEW b \in Browsers
      PROVE  /\ handler'[b] \in Handlers /\ Waits(handler'[b], lastID')
             /\ handler'[b].emitted = handler[b].emitted
  <2>1. /\ handler[b] \in Handlers /\ Waits(handler[b], lastID) /\ lastID \in Nat
        /\ lastID' = lastID + 1
        /\ handler'[b] = IF Subscribed(b) THEN Offered(handler[b], lastID + 1) ELSE handler[b]
    BY DEF StreamInv, Kept, publish
  <2>2. CASE Subscribed(b)
    BY <2>1, <2>2, OfferedKeeps DEF Subscribed
  <2>3. CASE ~Subscribed(b)
    <3>1. handler[b].pc = "off" \/ ~handler[b].open
      BY <2>3 DEF Subscribed
    <3> QED  BY <2>1, <2>3, <3>1, UnsubscribedKeeps
  <2> QED  BY <2>2, <2>3
<1>3. handler' \in [Browsers -> Handlers]
  BY <1>2 DEF publish
<1> QED  BY <1>1, <1>2, <1>3 DEF StreamInv

\* What a step sends a browser, if it sends anything, is what is due.
EmitsDue(h, k) == k.emitted \notin {h.emitted, 0} => k.emitted = Due(h)

LEMMA NoHandlerWaits ==
  ASSUME NEW last \in Nat, NEW seen \in Nat, seen <= last
  PROVE  NoHandler(seen) \in Handlers /\ Waits(NoHandler(seen), last)
<1>1. <<>> \in Seq(Nat)
  OBVIOUS
<1>2. NoHandler(seen) \in Handlers
  BY <1>1 DEF NoHandler, Handlers
<1>3. /\ NoHandler(seen).seen = seen /\ NoHandler(seen).emitted = 0
      /\ NoHandler(seen).pc = "off"
  BY DEF NoHandler
<1> QED  BY <1>2, <1>3 DEF Waits

LEMMA SubscribedWaits ==
  ASSUME Kept, NEW h \in Handlers, Waits(h, lastID)
  PROVE  LET from == IF h.seen = 0 THEN lastID ELSE h.seen
             k == [NoHandler(h.seen) EXCEPT
                    !.pc = "replay", !.open = TRUE, !.backlog = Missed(from),
                    !.due = 1 + IF from < lastID - MaxReplay THEN lastID - MaxReplay ELSE from]
         IN  k \in Handlers /\ Waits(k, lastID) /\ k.emitted = 0
<1> DEFINE from == IF h.seen = 0 THEN lastID ELSE h.seen
           first == 1 + IF from < lastID - MaxReplay THEN lastID - MaxReplay ELSE from
           k == [NoHandler(h.seen) EXCEPT
                  !.pc = "replay", !.open = TRUE, !.backlog = Missed(from), !.due = first]
<1>1. lastID \in Nat /\ h.seen \in Nat /\ h.seen <= lastID
  BY WaitsTypes DEF Kept, Waits
<1>2. from \in Nat /\ from <= lastID /\ first \in Nat /\ first >= 1
  BY <1>1, Sizes
<1> HIDE DEF from
<1>3. /\ Missed(from) \in Seq(Nat) /\ Consecutive(Missed(from), first)
      /\ first + Len(Missed(from)) = lastID + 1
  BY <1>2, MissedOf
<1> HIDE DEF first
<1>4. /\ k \in Handlers /\ k.pc = "replay" /\ k.open /\ k.queue = <<>> /\ k.seen = h.seen
      /\ k.backlog = Missed(from) /\ k.due = first /\ k.emitted = 0
  <2>1. <<>> \in Seq(Nat)
    OBVIOUS
  <2> QED  BY <1>1, <1>2, <1>3, <2>1 DEF NoHandler, Handlers
<1> HIDE DEF k
<1>5. Due(k) = first
  BY <1>4 DEF Due
<1>6. Len(<<>>) = 0 /\ Consecutive(k.queue, Due(k) + Len(k.backlog))
  BY <1>4 DEF Consecutive
<1>7. Due(k) + Len(k.backlog) + Len(k.queue) = lastID + 1
  <2> DEFINE m == Len(Missed(from))
  <2>1. m \in Nat /\ first + m = lastID + 1 /\ Len(k.backlog) = m /\ Len(k.queue) = 0
    BY <1>3, <1>4, <1>6
  <2> HIDE DEF m
  <2> QED  BY <1>2, <1>5, <2>1
<1>8. Waits(k, lastID)
  <2>1. Due(k) + Len(k.backlog) + Len(k.queue) <= lastID + 1
    BY <1>1, <1>7
  <2> QED  BY <1>1, <1>2, <1>3, <1>4, <1>5, <1>6, <1>7, <2>1 DEF Waits
<1> QED  BY <1>4, <1>8 DEF k, first, from

LEMMA ReplayWaits ==
  ASSUME NEW h \in Handlers, NEW last \in Nat, Waits(h, last), h.pc = "replay"
  PROVE  LET k == IF h.backlog = <<>> THEN [h EXCEPT !.pc = "live"]
                  ELSE [h EXCEPT !.emitted = Head(h.backlog), !.backlog = Tail(h.backlog)]
         IN  k \in Handlers /\ Waits(k, last) /\ EmitsDue(h, k)
<1>1. /\ Due(h) \in Nat /\ h.queue \in Seq(Nat) /\ h.backlog \in Seq(Nat)
      /\ Len(h.backlog) \in Nat /\ Len(h.queue) \in Nat
      /\ h.seen \in Nat /\ h.emitted \in Nat
  BY WaitsTypes
<1>2. /\ Due(h) >= 1 /\ Consecutive(h.backlog, Due(h))
      /\ Consecutive(h.queue, Due(h) + Len(h.backlog))
      /\ Due(h) + Len(h.backlog) + Len(h.queue) <= last + 1
      /\ (h.open => Due(h) + Len(h.backlog) + Len(h.queue) = last + 1)
      /\ h.seen <= last /\ h.emitted <= last
  BY DEF Waits
<1>3. CASE h.backlog = <<>>
  <2> DEFINE k == [h EXCEPT !.pc = "live"]
  <2>1. /\ k \in Handlers /\ k.pc = "live" /\ k.open = h.open /\ k.queue = h.queue
        /\ k.backlog = h.backlog /\ k.emitted = h.emitted /\ k.due = h.due /\ k.seen = h.seen
    BY DEF Handlers
  <2> HIDE DEF k
  <2>2. Due(k) = Due(h)
    BY <2>1 DEF Due
  <2>3. Waits(k, last) /\ EmitsDue(h, k)
    BY <1>2, <1>3, <2>1, <2>2 DEF Waits, EmitsDue
  <2> QED  BY <1>3, <2>1, <2>3 DEF k
<1>4. CASE h.backlog # <<>>
  <2> DEFINE k == [h EXCEPT !.emitted = Head(h.backlog), !.backlog = Tail(h.backlog)]
  <2>1. /\ Head(h.backlog) = Due(h) /\ Tail(h.backlog) \in Seq(Nat)
        /\ Consecutive(Tail(h.backlog), Due(h) + 1)
        /\ Len(Tail(h.backlog)) = Len(h.backlog) - 1
    BY <1>1, <1>2, <1>4, ConsecutiveTail
  <2>2. /\ k \in Handlers /\ k.pc = "replay" /\ k.open = h.open /\ k.queue = h.queue
        /\ k.backlog = Tail(h.backlog) /\ k.emitted = Due(h) /\ k.due = h.due /\ k.seen = h.seen
    BY <1>1, <2>1 DEF Handlers
  <2> HIDE DEF k
  <2>3. Due(k) = Due(h) + 1
    <3>1. Due(h) # 0
      BY <1>1, <1>2
    <3> QED  BY <2>2, <3>1 DEF Due
  <2>4. Due(k) + Len(k.backlog) = Due(h) + Len(h.backlog)
    <3> DEFINE m == Len(h.backlog)
    <3>1. m \in Nat /\ Len(k.backlog) = m - 1
      BY <1>1, <2>1, <2>2
    <3> HIDE DEF m
    <3>2. Due(k) + Len(k.backlog) = Due(h) + m
      BY <1>1, <2>3, <3>1
    <3> QED  BY <3>2 DEF m
  <2>5. k.emitted <= last /\ Due(k) >= 1
    <3> DEFINE m == Len(h.backlog)
               n == Len(h.queue)
    <3>1. m \in Nat /\ n \in Nat /\ m >= 1 /\ Due(h) + m + n <= last + 1
      BY <1>1, <1>2, <1>4, EmptySeq
    <3> HIDE DEF m, n
    <3> QED  BY <1>1, <2>2, <2>3, <3>1
  <2>6. Waits(k, last) /\ EmitsDue(h, k)
    BY <1>2, <2>1, <2>2, <2>3, <2>4, <2>5 DEF Waits, EmitsDue
  <2> QED  BY <1>4, <2>2, <2>6 DEF k
<1> QED  BY <1>3, <1>4

LEMMA LiveWaits ==
  ASSUME NEW h \in Handlers, NEW last \in Nat, Waits(h, last), h.pc = "live", h.queue # <<>>
  PROVE  LET k == [h EXCEPT !.emitted = Head(h.queue), !.queue = Tail(h.queue)]
         IN  k \in Handlers /\ Waits(k, last) /\ EmitsDue(h, k)
<1>1. /\ Due(h) \in Nat /\ h.queue \in Seq(Nat) /\ h.backlog \in Seq(Nat)
      /\ Len(h.queue) \in Nat /\ h.seen \in Nat /\ h.emitted \in Nat
  BY WaitsTypes
<1>2. h.backlog = <<>> /\ Len(h.backlog) = 0
  BY DEF Waits
<1>3. /\ Due(h) >= 1 /\ Consecutive(h.queue, Due(h))
      /\ Due(h) + Len(h.queue) <= last + 1
      /\ (h.open => Due(h) + Len(h.queue) = last + 1)
      /\ h.seen <= last
  <2>1. Due(h) + Len(h.backlog) = Due(h)
    BY <1>1, <1>2
  <2> QED  BY <2>1 DEF Waits
<1> DEFINE k == [h EXCEPT !.emitted = Head(h.queue), !.queue = Tail(h.queue)]
<1>4. /\ Head(h.queue) = Due(h) /\ Tail(h.queue) \in Seq(Nat)
      /\ Consecutive(Tail(h.queue), Due(h) + 1)
      /\ Len(Tail(h.queue)) = Len(h.queue) - 1
  BY <1>1, <1>3, ConsecutiveTail
<1>5. /\ k \in Handlers /\ k.pc = "live" /\ k.open = h.open /\ k.queue = Tail(h.queue)
      /\ k.backlog = <<>> /\ k.emitted = Due(h) /\ k.due = h.due /\ k.seen = h.seen
  BY <1>1, <1>2, <1>4 DEF Handlers
<1> HIDE DEF k
<1>6. Due(k) = Due(h) + 1 /\ Len(k.backlog) = 0
  <2>1. Due(h) # 0
    BY <1>1, <1>3
  <2> QED  BY <1>2, <1>5, <2>1 DEF Due
<1>7. /\ Due(k) + Len(k.backlog) + Len(k.queue) = Due(h) + Len(h.queue)
      /\ Due(k) + Len(k.backlog) = Due(h) + 1 /\ k.emitted <= last /\ Due(k) >= 1
  <2> DEFINE n == Len(h.queue)
  <2>1. n \in Nat /\ n >= 1 /\ Due(h) + n <= last + 1 /\ Len(k.queue) = n - 1
    BY <1>1, <1>3, <1>4, <1>5, EmptySeq
  <2> HIDE DEF n
  <2>2. Due(k) + Len(k.backlog) + Len(k.queue) = Due(h) + n
    BY <1>1, <1>6, <2>1
  <2>3. Due(k) + Len(k.backlog) = Due(h) + 1 /\ k.emitted <= last /\ Due(k) >= 1
    BY <1>1, <1>3, <1>5, <1>6, <2>1
  <2> QED  BY <2>2, <2>3 DEF n
<1>8. Consecutive(k.backlog, Due(k))
  BY <1>2, <1>5 DEF Consecutive
<1>9. Waits(k, last) /\ EmitsDue(h, k)
  BY <1>3, <1>4, <1>5, <1>7, <1>8 DEF Waits, EmitsDue
<1> QED  BY <1>5, <1>9 DEF k

LEMMA StreamNextKeeps ==
  ASSUME StreamInv, NEW b \in Browsers,
         subscribe(b) \/ EmitReplay(b) \/ EmitLive(b) \/ Leave(b)
  PROVE  StreamInv' /\ \A c \in Browsers : EmitsDue(handler[c], handler'[c])
<1> DEFINE h == handler[b]
<1>1. /\ h \in Handlers /\ Waits(h, lastID) /\ Kept /\ lastID \in Nat
      /\ handler \in [Browsers -> Handlers] /\ h.seen \in Nat /\ h.emitted \in Nat
  BY WaitsTypes DEF StreamInv, Kept
<1>2. lastID' = lastID /\ replay' = replay
  BY DEF subscribe, EmitReplay, EmitLive, Leave
<1>3. PICK k \in Handlers : /\ handler' = [handler EXCEPT ![b] = k]
                            /\ Waits(k, lastID) /\ EmitsDue(h, k)
  <2>1. CASE subscribe(b)
    <3> DEFINE from == IF h.seen = 0 THEN lastID ELSE h.seen
               k == [NoHandler(h.seen) EXCEPT
                      !.pc = "replay", !.open = TRUE, !.backlog = Missed(from),
                      !.due = 1 + IF from < lastID - MaxReplay THEN lastID - MaxReplay ELSE from]
    <3>1. handler' = [handler EXCEPT ![b] = k]
      BY <2>1 DEF subscribe
    <3>2. k \in Handlers /\ Waits(k, lastID) /\ k.emitted = 0
      BY <1>1, SubscribedWaits
    <3>3. EmitsDue(h, k)
      BY <3>2 DEF EmitsDue
    <3> HIDE DEF k
    <3> QED  BY <3>1, <3>2, <3>3
  <2>2. CASE EmitReplay(b)
    <3> DEFINE k == IF h.backlog = <<>> THEN [h EXCEPT !.pc = "live"]
                    ELSE [h EXCEPT !.emitted = Head(h.backlog), !.backlog = Tail(h.backlog)]
    <3>1. handler' = [handler EXCEPT ![b] = k] /\ h.pc = "replay"
      BY <1>1, <2>2 DEF EmitReplay
    <3>2. k \in Handlers /\ Waits(k, lastID) /\ EmitsDue(h, k)
      BY <1>1, <3>1, ReplayWaits
    <3> QED  BY <3>1, <3>2
  <2>3. CASE EmitLive(b)
    <3> DEFINE k == [h EXCEPT !.emitted = Head(h.queue), !.queue = Tail(h.queue)]
    <3>1. handler' = [handler EXCEPT ![b] = k] /\ h.pc = "live" /\ h.queue # <<>>
      BY <1>1, <2>3 DEF EmitLive, Handlers
    <3>2. k \in Handlers /\ Waits(k, lastID) /\ EmitsDue(h, k)
      BY <1>1, <3>1, LiveWaits
    <3> QED  BY <3>1, <3>2
  <2>4. CASE Leave(b)
    <3>1. PICK seen \in {h.seen, h.emitted} :
            handler' = [handler EXCEPT ![b] = NoHandler(IF seen = 0 THEN h.seen ELSE seen)]
      BY <2>4 DEF Leave
    <3> DEFINE s == IF seen = 0 THEN h.seen ELSE seen
    <3>2. s \in Nat /\ s <= lastID
      BY <1>1 DEF Waits
    <3> HIDE DEF s
    <3>3. NoHandler(s) \in Handlers /\ Waits(NoHandler(s), lastID)
      BY <1>1, <3>2, NoHandlerWaits
    <3>4. NoHandler(s).emitted = 0
      BY DEF NoHandler
    <3> QED  BY <3>1, <3>3, <3>4 DEF EmitsDue, s
  <2> QED  BY <2>1, <2>2, <2>3, <2>4
<1>4. \A c \in Browsers : handler'[c] = IF c = b THEN k ELSE handler[c]
  BY <1>1, <1>3
<1>5. Kept'
  BY <1>1, <1>2 DEF Kept
<1>6. handler' \in [Browsers -> Handlers]
  BY <1>1, <1>3
<1>7. \A c \in Browsers : Waits(handler'[c], lastID')
  BY <1>2, <1>3, <1>4 DEF StreamInv
<1>8. \A c \in Browsers : EmitsDue(handler[c], handler'[c])
  BY <1>3, <1>4 DEF EmitsDue
<1> QED  BY <1>5, <1>6, <1>7, <1>8 DEF StreamInv

LEMMA StreamInitInv ==
  ASSUME StreamInit
  PROVE  StreamInv
<1>1. Kept
  <2>1. <<>> \in Seq(Nat) /\ Len(<<>>) = 0 /\ lastID = 0 /\ replay = <<>>
    BY DEF StreamInit
  <2>2. Len(replay) = IF lastID < MaxReplay THEN lastID ELSE MaxReplay
    BY Sizes, <2>1
  <2> QED  BY <2>1, <2>2 DEF Kept
<1>2. NoHandler(0) \in Handlers /\ Waits(NoHandler(0), lastID)
  BY NoHandlerWaits DEF StreamInit
<1> QED  BY <1>1, <1>2 DEF StreamInit, StreamInv

\* Whatever is published and whenever browsers come and go, one request sends
\* consecutive events, the first the one after the last that was seen or the
\* oldest kept (EmittedInOrder).
THEOREM StreamOrder == StreamSpec => []StreamInv /\ EmittedInOrder
<1>1. ASSUME StreamInv, publish \/ StreamNext PROVE StreamInv'
  BY <1>1, PublishKeeps, StreamNextKeeps DEF StreamNext
<1>2. ASSUME StreamInv, UNCHANGED streamVars PROVE StreamInv'
  BY <1>2 DEF streamVars, StreamInv, Kept
<1>3. ASSUME StreamInv, publish \/ StreamNext
      PROVE  \A b \in Browsers : EmitsDue(handler[b], handler'[b])
  BY <1>3, PublishKeeps, StreamNextKeeps DEF StreamNext, EmitsDue
<1>4. ASSUME StreamInv, [publish \/ StreamNext]_streamVars
      PROVE  [\A b \in Browsers :
                LET old == handler[b].emitted  new == handler'[b].emitted IN
                new \notin {old, 0} => new = IF old = 0 THEN handler[b].due ELSE old + 1]_handler
  BY <1>3, <1>4 DEF streamVars, EmitsDue, Due
<1> QED  BY <1>1, <1>2, <1>4, StreamInitInv, PTL DEF StreamSpec, EmittedInOrder

-----------------------------------------------------------------------------
(***************************************************************************)
(* Texts, cut and joined.                                                  *)
(***************************************************************************)
Take(x, n) == SubSeq(x, 1, n)
Drop(x, n) == SubSeq(x, n + 1, Len(x))

LEMMA Cut ==
  ASSUME NEW x \in Seq(Letters), NEW n \in 0 .. Len(x)
  PROVE  /\ Take(x, n) \in Seq(Letters) /\ Len(Take(x, n)) = n
         /\ \A i \in 1 .. n : Take(x, n)[i] = x[i]
         /\ Drop(x, n) \in Seq(Letters) /\ Len(Drop(x, n)) = Len(x) - n
         /\ \A i \in 1 .. Len(x) - n : Drop(x, n)[i] = x[n + i]
         /\ n \in Nat /\ Len(x) \in Nat
<1>1. Len(x) \in Nat /\ n \in Nat /\ n <= Len(x) /\ \A i \in 1 .. Len(x) : x[i] \in Letters
  BY LenProperties, ElementOfSeq
<1>2. /\ Take(x, n) \in Seq(Letters) /\ Len(Take(x, n)) = n
      /\ \A i \in 1 .. n : Take(x, n)[i] = x[i]
  <2>1. \A i \in 1 .. n : x[i] \in Letters
    BY <1>1
  <2>2. /\ Take(x, n) \in Seq(Letters) /\ Len(Take(x, n)) = IF 1 <= n THEN n - 1 + 1 ELSE 0
        /\ \A i \in 1 .. n - 1 + 1 : Take(x, n)[i] = x[1 + i - 1]
    BY <1>1, <2>1, SubSeqProperties DEF Take
  <2>3. n - 1 + 1 = n /\ \A i \in 1 .. n : 1 + i - 1 = i
    BY <1>1
  <2> QED  BY <1>1, <2>2, <2>3
<1>3. /\ Drop(x, n) \in Seq(Letters) /\ Len(Drop(x, n)) = Len(x) - n
      /\ \A i \in 1 .. Len(x) - n : Drop(x, n)[i] = x[n + i]
  <2> DEFINE l == Len(x)
  <2>1. l \in Nat /\ \A i \in n + 1 .. l : x[i] \in Letters
    BY <1>1
  <2>2. n <= l
    BY <1>1
  <2> HIDE DEF l
  <2>3. /\ SubSeq(x, n + 1, l) \in Seq(Letters)
        /\ Len(SubSeq(x, n + 1, l)) = IF n + 1 <= l THEN l - (n + 1) + 1 ELSE 0
        /\ \A i \in 1 .. l - (n + 1) + 1 : SubSeq(x, n + 1, l)[i] = x[n + 1 + i - 1]
    BY <1>1, <2>1, SubSeqProperties
  <2>4. l - (n + 1) + 1 = l - n /\ \A i \in 1 .. l - n : n + 1 + i - 1 = n + i
    BY <1>1, <2>1
  <2>5. (IF n + 1 <= l THEN l - (n + 1) + 1 ELSE 0) = l - n
    BY <1>1, <2>1, <2>2
  <2> QED  BY <2>3, <2>4, <2>5 DEF Drop, l
<1> QED  BY <1>1, <1>2, <1>3

LEMMA Associative == \A a, b, c \in Seq(Letters) : (a \o b) \o c = a \o (b \o c)
BY ConcatAssociative

LEMMA TakeDrop ==
  ASSUME NEW x \in Seq(Letters), NEW n \in 0 .. Len(x)
  PROVE  Take(x, n) \o Drop(x, n) = x
<1> DEFINE y == Take(x, n)
           z == Drop(x, n)
           l == Len(x)
<1>1. /\ y \in Seq(Letters) /\ Len(y) = n /\ \A i \in 1 .. n : y[i] = x[i]
      /\ z \in Seq(Letters) /\ Len(z) = l - n /\ \A i \in 1 .. l - n : z[i] = x[n + i]
      /\ n \in Nat /\ l \in Nat /\ n <= l
  BY Cut
<1> HIDE DEF y, z, l
<1>2. /\ y \o z \in Seq(Letters) /\ Len(y \o z) = n + (l - n)
      /\ \A i \in 1 .. n + (l - n) : (y \o z)[i] = IF i <= n THEN y[i] ELSE z[i - n]
  <2>1. /\ y \o z \in Seq(Letters) /\ Len(y \o z) = Len(y) + Len(z)
        /\ \A i \in 1 .. Len(y) + Len(z) : (y \o z)[i] = IF i <= Len(y) THEN y[i] ELSE z[i - Len(y)]
    BY <1>1, ConcatProperties
  <2> QED  BY <1>1, <2>1
<1>3. n + (l - n) = l
  BY <1>1
<1>4. \A i \in 1 .. l : (y \o z)[i] = x[i]
  <2> SUFFICES ASSUME NEW i \in 1 .. l PROVE (y \o z)[i] = x[i]
    OBVIOUS
  <2>1. CASE i <= n
    BY <1>1, <1>2, <1>3, <2>1
  <2>2. CASE ~(i <= n)
    <3>1. i - n \in 1 .. l - n /\ n + (i - n) = i
      BY <1>1, <2>2
    <3>2. z[i - n] = x[n + (i - n)]
      BY <1>1, <3>1
    <3> QED  BY <1>2, <1>3, <2>2, <3>1, <3>2
  <2> QED  BY <2>1, <2>2
<1>5. Len(y \o z) = Len(x)
  BY <1>2, <1>3 DEF l
<1> QED  BY <1>2, <1>4, <1>5, SeqEqual DEF y, z, l

LEMMA CutJoined ==
  ASSUME NEW x \in Seq(Letters), NEW r \in Seq(Letters), NEW n \in 0 .. Len(x)
  PROVE  /\ Take(x \o r, n) = Take(x, n)
         /\ Drop(x \o r, n) = Drop(x, n) \o r
         /\ n \in 0 .. Len(x \o r) /\ x \o r \in Seq(Letters)
<1> DEFINE l == Len(x)
           k == Len(r)
           w == x \o r
           y == Drop(x, n)
<1>1. l \in Nat /\ k \in Nat /\ n \in Nat /\ n <= l
  BY LenProperties
<1>2. /\ w \in Seq(Letters) /\ Len(w) = l + k
      /\ \A i \in 1 .. l + k : w[i] = IF i <= l THEN x[i] ELSE r[i - l]
  BY ConcatProperties
<1>3. n \in 0 .. Len(w)
  BY <1>1, <1>2
<1>4. /\ Take(x, n) \in Seq(Letters) /\ Len(Take(x, n)) = n /\ \A i \in 1 .. n : Take(x, n)[i] = x[i]
      /\ y \in Seq(Letters) /\ Len(y) = l - n /\ \A i \in 1 .. l - n : y[i] = x[n + i]
  BY Cut
<1> HIDE DEF w, l, k, y
<1>5. /\ Take(w, n) \in Seq(Letters) /\ Len(Take(w, n)) = n /\ \A i \in 1 .. n : Take(w, n)[i] = w[i]
      /\ Drop(w, n) \in Seq(Letters) /\ Len(Drop(w, n)) = Len(w) - n
      /\ \A i \in 1 .. Len(w) - n : Drop(w, n)[i] = w[n + i]
  BY <1>2, <1>3, Cut
<1>6. Take(w, n) = Take(x, n)
  <2>1. \A i \in 1 .. n : i \in 1 .. l + k /\ i <= l
    BY <1>1
  <2>2. \A i \in 1 .. n : w[i] = x[i]
    BY <1>2, <2>1
  <2>3. \A i \in 1 .. n : Take(w, n)[i] = Take(x, n)[i]
    <3> HIDE DEF Take
    <3> QED  BY <1>4, <1>5, <2>2
  <2> HIDE DEF Take
  <2> QED  BY <1>4, <1>5, <2>3, SeqEqual
<1>7. Drop(w, n) = y \o r
  <2>1. /\ y \o r \in Seq(Letters) /\ Len(y \o r) = (l - n) + k
        /\ \A i \in 1 .. (l - n) + k : (y \o r)[i] = IF i <= l - n THEN y[i] ELSE r[i - (l - n)]
    <3>1. /\ y \o r \in Seq(Letters) /\ Len(y \o r) = Len(y) + Len(r)
          /\ \A i \in 1 .. Len(y) + Len(r) : (y \o r)[i] = IF i <= Len(y) THEN y[i] ELSE r[i - Len(y)]
      BY <1>4, ConcatProperties
    <3>2. Len(r) = k
      BY DEF k
    <3> QED  BY <1>4, <3>1, <3>2
  <2>2. Len(w) - n = (l - n) + k
    BY <1>1, <1>2
  <2>3. ASSUME NEW i \in 1 .. (l - n) + k PROVE Drop(w, n)[i] = (y \o r)[i]
    <3>1. n + i \in 1 .. l + k /\ i \in 1 .. Len(w) - n
      BY <1>1, <2>2
    <3>2. Drop(w, n)[i] = w[n + i]
      BY <1>5, <3>1
    <3>3. CASE i <= l - n
      <4>1. n + i <= l /\ i \in 1 .. l - n
        BY <1>1, <3>3
      <4> QED  BY <1>2, <1>4, <2>1, <3>1, <3>2, <3>3, <4>1
    <3>4. CASE ~(i <= l - n)
      <4>1. ~(n + i <= l) /\ (n + i) - l = i - (l - n)
        BY <1>1, <3>4
      <4> QED  BY <1>2, <2>1, <3>1, <3>2, <3>4, <4>1
    <3> QED  BY <3>3, <3>4
  <2> HIDE DEF Drop
  <2> QED  BY <1>5, <2>1, <2>2, <2>3, SeqEqual
<1> QED  BY <1>2, <1>3, <1>6, <1>7 DEF w, y

LEMMA DropDrop ==
  ASSUME NEW x \in Seq(Letters), NEW m \in Nat, NEW n \in Nat, m + n <= Len(x)
  PROVE  /\ Drop(Drop(x, m), n) = Drop(x, m + n)
         /\ m \in 0 .. Len(x) /\ m + n \in 0 .. Len(x) /\ n \in 0 .. Len(Drop(x, m))
<1> DEFINE l == Len(x)
           y == Drop(x, m)
           z == Drop(x, m + n)
<1>1. l \in Nat /\ m \in 0 .. l /\ m + n \in 0 .. l
  BY LenProperties
<1>2. /\ y \in Seq(Letters) /\ Len(y) = l - m /\ \A i \in 1 .. l - m : y[i] = x[m + i]
      /\ z \in Seq(Letters) /\ Len(z) = l - (m + n) /\ \A i \in 1 .. l - (m + n) : z[i] = x[(m + n) + i]
  BY <1>1, Cut
<1>3. m + n <= l
  OBVIOUS
<1> HIDE DEF l, y, z
<1>4. n \in 0 .. Len(y) /\ Len(y) - n = l - (m + n)
  BY <1>1, <1>2, <1>3
<1>5. /\ Drop(y, n) \in Seq(Letters) /\ Len(Drop(y, n)) = l - (m + n)
      /\ \A i \in 1 .. l - (m + n) : Drop(y, n)[i] = y[n + i]
  <2>1. /\ Drop(y, n) \in Seq(Letters) /\ Len(Drop(y, n)) = Len(y) - n
        /\ \A i \in 1 .. Len(y) - n : Drop(y, n)[i] = y[n + i]
    BY <1>2, <1>4, Cut
  <2> QED  BY <1>4, <2>1
<1>6. ASSUME NEW i \in 1 .. l - (m + n) PROVE Drop(y, n)[i] = z[i]
  <2>1. n + i \in 1 .. l - m /\ m + (n + i) = (m + n) + i
    BY <1>1, <1>3
  <2> QED  BY <1>2, <1>5, <2>1
<1>7. Drop(y, n) = z
  BY <1>2, <1>5, <1>6, SeqEqual
<1> QED  BY <1>1, <1>4, <1>7 DEF y, z, l

-----------------------------------------------------------------------------
(***************************************************************************)
(* Where a marker occurs in a text, and the first place where it does.     *)
(***************************************************************************)
Markers == Seq(Letters) \ {<<>>}

Occurs(x, m, i) ==
  /\ i \in Nat /\ i >= 1 /\ i + Len(m) - 1 <= Len(x)
  /\ \A k \in 1 .. Len(m) : x[i + k - 1] = m[k]

LEMMA MarkerFacts ==
  /\ Start \in Markers /\ End \in Markers
  /\ MaxHidden \in Nat /\ MaxHidden >= Len(End) - 1 /\ MaxText \in Nat
  /\ \A m \in Markers : m \in Seq(Letters) /\ Len(m) \in Nat /\ Len(m) >= 1
BY FilterAssumption, EmptySeq DEF Markers

LEMMA AtOccurs ==
  ASSUME NEW x \in Seq(Letters), NEW m \in Markers
  PROVE  At(x, m) \subseteq Nat /\ \A i : i \in At(x, m) <=> Occurs(x, m, i)
<1> DEFINE l == Len(x)
           k == Len(m)
<1>1. l \in Nat /\ k \in Nat /\ k >= 1 /\ m \in Seq(Letters)
  BY LenProperties, MarkerFacts
<1>2. ASSUME NEW i \in 1 .. l - k + 1
      PROVE  SubSeq(x, i, i + k - 1) = m <=> \A j \in 1 .. k : x[i + j - 1] = m[j]
  <2>1. i \in Nat /\ i >= 1 /\ i + k - 1 \in Nat /\ i + k - 1 <= l
    BY <1>1
  <2>2. \A j \in i .. i + k - 1 : x[j] \in Letters
    BY <1>1, <2>1, ElementOfSeq
  <2> DEFINE e == i + k - 1
             y == SubSeq(x, i, e)
  <2>3. /\ y \in Seq(Letters) /\ Len(y) = IF i <= e THEN e - i + 1 ELSE 0
        /\ \A j \in 1 .. e - i + 1 : y[j] = x[i + j - 1]
    <3>1. e \in Int /\ i \in Int
      BY <2>1
    <3> HIDE DEF e
    <3> QED  BY <2>2, <3>1, SubSeqProperties DEF e
  <2>4. e - i + 1 = k /\ i <= e
    BY <1>1, <2>1
  <2> HIDE DEF y, e
  <2>5. /\ Len(y) = k /\ \A j \in 1 .. k : y[j] = x[i + j - 1]
    BY <2>3, <2>4
  <2>6. y = m <=> \A j \in 1 .. k : y[j] = m[j]
    <3>1. Len(m) = k
      BY DEF k
    <3> HIDE DEF k
    <3> QED  BY <1>1, <2>3, <2>5, <3>1, SeqEqual
  <2> QED  BY <2>5, <2>6 DEF y, e
<1>3. At(x, m) = {i \in 1 .. l - k + 1 : \A j \in 1 .. k : x[i + j - 1] = m[j]}
  BY <1>2 DEF At
<1>4. \A i : i \in 1 .. l - k + 1 <=> i \in Nat /\ i >= 1 /\ i + k - 1 <= l
  BY <1>1
<1>5. 1 .. l - k + 1 \subseteq Nat
  BY <1>1
<1> QED  BY <1>3, <1>4, <1>5 DEF Occurs

LEMMA FirstAt ==
  ASSUME NEW x \in Seq(Letters), NEW m \in Markers
  PROVE  /\ Has(x, m) <=> \E i \in Nat : Occurs(x, m, i)
         /\ Has(x, m) =>
              /\ Min(At(x, m)) \in Nat /\ Occurs(x, m, Min(At(x, m)))
              /\ \A j \in Nat : Occurs(x, m, j) => Min(At(x, m)) <= j
<1> DEFINE S == At(x, m)
<1>1. S \subseteq Nat /\ \A i : i \in S <=> Occurs(x, m, i)
  BY AtOccurs
<1>2. Has(x, m) <=> S # {}
  BY DEF Has
<1> HIDE DEF S
<1>3. Has(x, m) <=> \E i \in Nat : Occurs(x, m, i)
  BY <1>1, <1>2
<1>4. S # {} => Min(S) \in S /\ \A j \in S : Min(S) <= j
  <2> SUFFICES ASSUME S # {} PROVE Min(S) \in S /\ \A j \in S : Min(S) <= j
    OBVIOUS
  <2>1. \E n \in S : \A j \in S : n <= j
    BY <1>1, SmallestNat
  <2> QED  BY <2>1 DEF Min
<1> QED  BY <1>1, <1>2, <1>3, <1>4 DEF S

LEMMA FirstIs ==
  ASSUME NEW x \in Seq(Letters), NEW m \in Markers, NEW i \in Nat,
         Occurs(x, m, i), \A j \in Nat : Occurs(x, m, j) => i <= j
  PROVE  Has(x, m) /\ Min(At(x, m)) = i
<1>1. /\ Has(x, m) /\ Min(At(x, m)) \in Nat /\ Occurs(x, m, Min(At(x, m)))
      /\ \A j \in Nat : Occurs(x, m, j) => Min(At(x, m)) <= j
  BY FirstAt
<1> HIDE DEF Has
<1>2. Min(At(x, m)) <= i /\ i <= Min(At(x, m))
  BY <1>1
<1> QED  BY <1>1, <1>2

\* The parts of a text before and after a marker.
LEMMA AroundFirst ==
  ASSUME NEW x \in Seq(Letters), NEW m \in Markers, Has(x, m)
  PROVE  LET i == Min(At(x, m)) IN
         /\ i \in Nat /\ i >= 1 /\ i - 1 + Len(m) <= Len(x)
         /\ i - 1 \in 0 .. Len(x) /\ i - 1 + Len(m) \in 0 .. Len(x)
         /\ Before(x, m) = Take(x, i - 1) /\ Before(x, m) \in Seq(Letters)
         /\ Len(Before(x, m)) = i - 1
         /\ After(x, m) = Drop(x, i - 1 + Len(m)) /\ After(x, m) \in Seq(Letters)
         /\ Len(After(x, m)) = Len(x) - (i - 1 + Len(m))
<1> DEFINE i == Min(At(x, m))
           k == Len(m)
           l == Len(x)
<1>1. l \in Nat /\ k \in Nat /\ k >= 1
  BY LenProperties, MarkerFacts
<1>2. i \in Nat /\ i >= 1 /\ i + k - 1 <= l
  BY FirstAt DEF Occurs
<1>0. Before(x, m) = Take(x, i - 1) /\ After(x, m) = SubSeq(x, i + k, l)
  BY DEF Before, After, Take
<1> HIDE DEF i, k, l
<1>3. i - 1 \in 0 .. l /\ i - 1 + k \in 0 .. l /\ i - 1 + k <= l /\ i - 1 + k + 1 = i + k
  BY <1>1, <1>2
<1>4. After(x, m) = Drop(x, i - 1 + k)
  BY <1>0, <1>3 DEF Drop, l
<1>5. /\ Take(x, i - 1) \in Seq(Letters) /\ Len(Take(x, i - 1)) = i - 1
      /\ Drop(x, i - 1 + k) \in Seq(Letters) /\ Len(Drop(x, i - 1 + k)) = l - (i - 1 + k)
  <2> HIDE DEF Take, Drop
  <2> QED  BY <1>3, Cut DEF l
<1> QED  BY <1>0, <1>2, <1>3, <1>4, <1>5 DEF i, k, l

LEMMA OccursJoined ==
  ASSUME NEW x \in Seq(Letters), NEW r \in Seq(Letters), NEW m \in Markers, NEW i \in Nat
  PROVE  /\ Occurs(x, m, i) => Occurs(x \o r, m, i)
         /\ Occurs(x \o r, m, i) /\ i + Len(m) - 1 <= Len(x) => Occurs(x, m, i)
<1> DEFINE k == Len(m)
           l == Len(x)
           n == Len(r)
<1>1. l \in Nat /\ k \in Nat /\ k >= 1 /\ n \in Nat
  BY LenProperties, MarkerFacts
<1>2. /\ x \o r \in Seq(Letters) /\ Len(x \o r) = l + n
      /\ \A j \in 1 .. l + n : (x \o r)[j] = IF j <= l THEN x[j] ELSE r[j - l]
  BY ConcatProperties
<1>0. k = Len(m) /\ l = Len(x)
  OBVIOUS
<1> HIDE DEF k, l, n
<1>3. i >= 1 /\ i + k - 1 <= l => \A j \in 1 .. k : (x \o r)[i + j - 1] = x[i + j - 1]
  <2> SUFFICES ASSUME i >= 1, i + k - 1 <= l, NEW j \in 1 .. k
               PROVE  (x \o r)[i + j - 1] = x[i + j - 1]
    OBVIOUS
  <2>1. i + j - 1 \in 1 .. l + n /\ i + j - 1 <= l
    BY <1>1
  <2> QED  BY <1>2, <2>1
<1>4. i + k - 1 <= l => i + k - 1 <= l + n
  BY <1>1
<1> QED  BY <1>0, <1>2, <1>3, <1>4 DEF Occurs

LEMMA OccursDropped ==
  ASSUME NEW x \in Seq(Letters), NEW n \in 0 .. Len(x), NEW m \in Markers, NEW i \in Nat, i >= 1
  PROVE  Occurs(Drop(x, n), m, i) <=> Occurs(x, m, n + i)
<1> DEFINE k == Len(m)
           l == Len(x)
           y == Drop(x, n)
<1>1. l \in Nat /\ k \in Nat /\ k >= 1 /\ n \in Nat /\ n <= l
  BY LenProperties, MarkerFacts
<1>2. Len(y) = l - n /\ \A j \in 1 .. l - n : y[j] = x[n + j]
  BY Cut
<1>0. k = Len(m) /\ l = Len(x)
  OBVIOUS
<1> HIDE DEF k, l, y
<1>3. i + k - 1 <= l - n <=> (n + i) + k - 1 <= l
  BY <1>1
<1>4. i + k - 1 <= l - n => \A j \in 1 .. k : y[i + j - 1] = x[(n + i) + j - 1]
  <2> SUFFICES ASSUME i + k - 1 <= l - n, NEW j \in 1 .. k
               PROVE  y[i + j - 1] = x[(n + i) + j - 1]
    OBVIOUS
  <2>1. i + j - 1 \in 1 .. l - n /\ n + (i + j - 1) = (n + i) + j - 1
    BY <1>1
  <2> QED  BY <1>2, <2>1
<1>5. n + i \in Nat /\ n + i >= 1
  BY <1>1
<1>6. Occurs(y, m, i) <=> i + k - 1 <= l - n /\ \A j \in 1 .. k : y[i + j - 1] = m[j]
  BY <1>0, <1>2 DEF Occurs
<1>7. Occurs(x, m, n + i) <=>
        (n + i) + k - 1 <= l /\ \A j \in 1 .. k : x[(n + i) + j - 1] = m[j]
  BY <1>0, <1>5 DEF Occurs
<1> QED  BY <1>3, <1>4, <1>6, <1>7 DEF y

LEMMA FirstJoined ==
  ASSUME NEW x \in Seq(Letters), NEW r \in Seq(Letters), NEW m \in Markers, Has(x, m)
  PROVE  /\ Has(x \o r, m) /\ Before(x \o r, m) = Before(x, m)
         /\ After(x \o r, m) = After(x, m) \o r
<1> DEFINE i == Min(At(x, m))
           k == Len(m)
           w == x \o r
<1>1. /\ i \in Nat /\ i >= 1 /\ i - 1 + k <= Len(x)
      /\ i - 1 \in 0 .. Len(x) /\ i - 1 + k \in 0 .. Len(x)
      /\ Before(x, m) = Take(x, i - 1) /\ After(x, m) = Drop(x, i - 1 + k)
  BY AroundFirst
<1>2. /\ Occurs(x, m, i) /\ \A j \in Nat : Occurs(x, m, j) => i <= j
      /\ k \in Nat /\ Len(x) \in Nat /\ w \in Seq(Letters)
  BY FirstAt, MarkerFacts, LenProperties, ConcatProperties
<1> HIDE DEF i
<1>3. Occurs(w, m, i)
  BY <1>1, <1>2, OccursJoined
<1>4. ASSUME NEW j \in Nat, Occurs(w, m, j), j < i PROVE FALSE
  <2>1. j + k - 1 <= Len(x)
    <3> HIDE DEF k
    <3> QED  BY <1>1, <1>2, <1>4
  <2>2. Occurs(x, m, j)
    BY <1>4, <2>1, OccursJoined
  <2> QED  BY <1>1, <1>2, <1>4, <2>2
<1>5. Has(w, m) /\ Min(At(w, m)) = i
  <2>1. \A j \in Nat : Occurs(w, m, j) => i <= j
    BY <1>1, <1>4
  <2> HIDE DEF w
  <2> QED  BY <1>1, <1>2, <1>3, <2>1, FirstIs
<1>6. Before(w, m) = Take(w, i - 1) /\ After(w, m) = Drop(w, i - 1 + k)
  <2> HIDE DEF w
  <2> QED  BY <1>2, <1>5, AroundFirst
<1>7. Take(w, i - 1) = Take(x, i - 1) /\ Drop(w, i - 1 + k) = Drop(x, i - 1 + k) \o r
  <2> HIDE DEF k, Take, Drop
  <2> QED  BY <1>1, CutJoined
<1> QED  BY <1>1, <1>5, <1>6, <1>7

\* Letters before the first marker can be dropped.
LEMMA FirstDropped ==
  ASSUME NEW x \in Seq(Letters), NEW n \in 0 .. Len(x), NEW m \in Markers,
         \A i \in 1 .. n : ~Occurs(x, m, i)
  PROVE  /\ Has(x, m) <=> Has(Drop(x, n), m)
         /\ Has(x, m) => After(x, m) = After(Drop(x, n), m)
<1> DEFINE y == Drop(x, n)
           k == Len(m)
<1>1. /\ y \in Seq(Letters) /\ n \in Nat /\ Len(x) \in Nat /\ k \in Nat /\ k >= 1
      /\ Len(y) = Len(x) - n
  BY Cut, MarkerFacts
<1>2. \A i \in Nat : i >= 1 => (Occurs(y, m, i) <=> Occurs(x, m, n + i))
  <2> HIDE DEF Drop
  <2> QED  BY OccursDropped
<1>3. \A i \in Nat : Occurs(x, m, i) => i >= 1 /\ i - n \in Nat /\ i - n >= 1 /\ Occurs(y, m, i - n)
  <2> SUFFICES ASSUME NEW i \in Nat, Occurs(x, m, i)
               PROVE  i >= 1 /\ i - n \in Nat /\ i - n >= 1 /\ Occurs(y, m, i - n)
    OBVIOUS
  <2>1. i >= 1
    BY DEF Occurs
  <2>2. i > n
    BY <1>1, <2>1
  <2>3. i - n \in Nat /\ i - n >= 1 /\ n + (i - n) = i
    BY <1>1, <2>2
  <2> QED  BY <1>2, <2>1, <2>3
<1>4. \A i \in Nat : Occurs(y, m, i) => i >= 1 /\ n + i \in Nat /\ Occurs(x, m, n + i)
  <2>1. \A i \in Nat : Occurs(y, m, i) => i >= 1
    BY DEF Occurs
  <2> QED  BY <1>1, <1>2, <2>1
<1> HIDE DEF y
<1>5. Has(x, m) <=> Has(y, m)
  <2>1. Has(x, m) <=> \E i \in Nat : Occurs(x, m, i)
    BY FirstAt
  <2>2. Has(y, m) <=> \E i \in Nat : Occurs(y, m, i)
    BY <1>1, FirstAt
  <2> QED  BY <1>3, <1>4, <2>1, <2>2
<1>6. ASSUME Has(x, m) PROVE After(x, m) = After(y, m)
  <2> DEFINE i == Min(At(y, m))
  <2>1. i \in Nat /\ Occurs(y, m, i) /\ \A j \in Nat : Occurs(y, m, j) => i <= j
    BY <1>1, <1>5, <1>6, FirstAt
  <2>2. i - 1 + k <= Len(y) /\ After(y, m) = Drop(y, i - 1 + k) /\ i >= 1
    BY <1>1, <1>5, <1>6, AroundFirst
  <2> HIDE DEF i
  <2>3. n + i \in Nat /\ Occurs(x, m, n + i) /\ \A j \in Nat : Occurs(x, m, j) => n + i <= j
    <3>1. ASSUME NEW j \in Nat, Occurs(x, m, j) PROVE n + i <= j
      <4>1. j - n \in Nat /\ Occurs(y, m, j - n)
        BY <1>3, <3>1
      <4>2. i <= j - n
        BY <2>1, <4>1
      <4> QED  BY <1>1, <2>1, <4>1, <4>2
    <3> QED  BY <1>1, <1>4, <2>1, <3>1
  <2>4. Min(At(x, m)) = n + i
    BY <2>3, FirstIs
  <2>5. After(x, m) = Drop(x, n + i - 1 + k)
    <3>1. After(x, m) = Drop(x, Min(At(x, m)) - 1 + k)
      BY <1>6, AroundFirst
    <3>2. Min(At(x, m)) - 1 + k = n + i - 1 + k
      BY <1>1, <2>1, <2>4
    <3> HIDE DEF k
    <3> QED  BY <3>1, <3>2
  <2>6. i - 1 + k \in Nat /\ n + (i - 1 + k) = n + i - 1 + k /\ n + (i - 1 + k) <= Len(x)
    BY <1>1, <2>1, <2>2
  <2>7. Drop(Drop(x, n), i - 1 + k) = Drop(x, n + (i - 1 + k))
    <3> HIDE DEF k, Drop
    <3> QED  BY <1>1, <2>6, DropDrop
  <2> QED  BY <2>2, <2>5, <2>6, <2>7 DEF y
<1> QED  BY <1>5, <1>6 DEF y

-----------------------------------------------------------------------------
(***************************************************************************)
(* What is outside the blocks, one step at a time.                         *)
(***************************************************************************)
Results == [text : Seq(Letters), closed : BOOLEAN]

Unclosed == [text |-> <<>>, closed |-> FALSE]

LEMMA PrefixOccurs ==
  ASSUME NEW x \in Seq(Letters), NEW m \in Markers
  PROVE  IsPrefix(m, x) <=> Occurs(x, m, 1)
<1> DEFINE k == Len(m)
<1>1. k \in Nat /\ k >= 1 /\ Len(x) \in Nat /\ m \in Seq(Letters) /\ 1 + k - 1 = k
      /\ \A j \in 1 .. k : 1 + j - 1 = j
  BY MarkerFacts, LenProperties
<1>2. Occurs(x, m, 1) <=> k <= Len(x) /\ \A j \in 1 .. k : x[j] = m[j]
  BY <1>1 DEF Occurs
<1>3. IsPrefix(m, x) <=> k <= Len(x) /\ Take(x, k) = m
  <2>1. SubSeq(m, 1, Len(m)) = m
    BY <1>1, SubSeqFull
  <2> QED  BY <2>1 DEF IsPrefix, Take
<1>4. ASSUME k <= Len(x) PROVE Take(x, k) = m <=> \A j \in 1 .. k : x[j] = m[j]
  <2>1. k \in 0 .. Len(x) /\ k = Len(m)
    BY <1>1, <1>4
  <2>2. Take(x, k) \in Seq(Letters) /\ Len(Take(x, k)) = k /\ \A j \in 1 .. k : Take(x, k)[j] = x[j]
    <3> HIDE DEF k, Take
    <3> QED  BY <2>1, Cut
  <2> HIDE DEF k, Take
  <2> QED  BY <1>1, <2>1, <2>2, SeqEqual
<1> QED  BY <1>2, <1>3, <1>4

\* What follows a text: Outside, and inside a block.
Inside(x) == IF Has(x, End) THEN Outside[After(x, End)] ELSE Unclosed

LEMMA OutsideUnfolds ==
  ASSUME NEW x \in Seq(Letters)
  PROVE  /\ Outside[x] \in Results
         /\ x = <<>> => Outside[x] = [text |-> <<>>, closed |-> TRUE]
         /\ Occurs(x, Start, 1) => Outside[x] = Inside(Drop(x, Len(Start)))
         /\ x # <<>> /\ ~Occurs(x, Start, 1) =>
              /\ Outside[x].text = <<x[1]>> \o Outside[Drop(x, 1)].text
              /\ Outside[x].closed = Outside[Drop(x, 1)].closed
<1> DEFINE D == Seq(Letters)
           V == Results
           Size == [y \in D |-> Len(y)]
           Value(g, text) ==
             CASE text = <<>> -> [text |-> <<>>, closed |-> TRUE]
               [] text # <<>> /\ IsPrefix(Start, text) ->
                    LET rest == SubSeq(text, Len(Start) + 1, Len(text)) IN
                    IF Has(rest, End) THEN g[After(rest, End)] ELSE [text |-> <<>>, closed |-> FALSE]
               [] OTHER -> LET rest == g[Tail(text)] IN
                           [rest EXCEPT !.text = <<Head(text)>> \o @]
           Rec(g) == [text \in D |-> Value(g, text)]
           Step == [g \in [D -> V] |-> Rec(g)]
<1>1. <<>> \in D /\ [text |-> <<>>, closed |-> TRUE] \in V /\ Unclosed \in V
  BY DEF Unclosed, Results
<1>2. ASSUME NEW y \in D, y # <<>>
      PROVE  /\ Drop(y, 1) \in D /\ Len(Drop(y, 1)) < Len(y) /\ Tail(y) = Drop(y, 1)
             /\ Head(y) = y[1] /\ y[1] \in Letters /\ Len(y) \in Nat
  <2>1. Len(y) \in Nat /\ 1 \in 0 .. Len(y) /\ 1 \in 1 .. Len(y)
    BY <1>2, EmptySeq
  <2>2. Drop(y, 1) \in D /\ Len(Drop(y, 1)) = Len(y) - 1
    <3> HIDE DEF Drop
    <3> QED  BY <2>1, Cut
  <2>3. Tail(y) = SubSeq(y, 2, Len(y)) /\ y[1] \in Letters
    BY <1>2, <2>1, TailIsSubSeq, ElementOfSeq
  <2> QED  BY <1>2, <2>1, <2>2, <2>3 DEF Drop
<1>3. ASSUME NEW y \in D, IsPrefix(Start, y)
      PROVE  LET rest == Drop(y, Len(Start)) IN
             /\ y # <<>> /\ rest \in D
             /\ Has(rest, End) => After(rest, End) \in D /\ Len(After(rest, End)) < Len(y)
  <2> DEFINE k == Len(Start)
             rest == Drop(y, k)
  <2>1. /\ k \in Nat /\ k >= 1 /\ Len(y) \in Nat /\ k <= Len(y) /\ k \in 0 .. Len(y)
        /\ Start \in Markers /\ End \in Markers
    BY <1>3, MarkerFacts, LenProperties DEF IsPrefix
  <2>2. rest \in D /\ Len(rest) = Len(y) - k
    <3> HIDE DEF Drop, k
    <3> QED  BY <2>1, Cut
  <2>3. ASSUME Has(rest, End) PROVE After(rest, End) \in D /\ Len(After(rest, End)) < Len(y)
    <3> DEFINE i == Min(At(rest, End))
    <3>1. /\ i \in Nat /\ i >= 1 /\ After(rest, End) \in D
          /\ Len(After(rest, End)) = Len(rest) - (i - 1 + Len(End)) /\ Len(End) \in Nat
      <4> HIDE DEF rest
      <4> QED  BY <2>1, <2>2, <2>3, AroundFirst, MarkerFacts
    <3> HIDE DEF i, rest, k
    <3> QED  BY <2>1, <2>2, <3>1
  <2> QED  BY <2>1, <2>2, <2>3, EmptySeq
<1>4. ASSUME NEW g, NEW y \in D, \A z \in D : Len(z) < Len(y) => g[z] \in V
      PROVE  Value(g, y) \in V
  <2>1. CASE y = <<>>
    BY <1>1, <2>1
  <2>2. CASE y # <<>> /\ IsPrefix(Start, y)
    <3> DEFINE rest == Drop(y, Len(Start))
    <3>1. Value(g, y) = IF Has(rest, End) THEN g[After(rest, End)] ELSE Unclosed
      BY <2>2 DEF Drop, Unclosed
    <3> QED  BY <1>1, <1>3, <1>4, <2>2, <3>1
  <2>3. CASE y # <<>> /\ ~IsPrefix(Start, y)
    <3>1. Value(g, y) = [g[Tail(y)] EXCEPT !.text = <<Head(y)>> \o @]
      BY <2>3
    <3>2. g[Tail(y)] \in Results /\ Head(y) \in Letters
      BY <1>2, <1>4, <2>3
    <3>3. g[Tail(y)].text \in Seq(Letters) /\ <<Head(y)>> \in Seq(Letters)
      BY <3>2 DEF Results
    <3>4. <<Head(y)>> \o g[Tail(y)].text \in Seq(Letters)
      BY <3>3, ConcatProperties
    <3> QED  BY <3>1, <3>2, <3>4 DEF Results
  <2> QED  BY <2>1, <2>2, <2>3
<1>5. ASSUME NEW g \in [D -> V], NEW h \in [D -> V], NEW y \in D,
             \A z \in D : Size[z] < Size[y] => g[z] = h[z]
      PROVE  Value(g, y) = Value(h, y)
  <2>0. \A z \in D : Len(z) < Len(y) => g[z] = h[z]
    BY <1>5
  <2>1. CASE y = <<>>
    BY <2>1
  <2>2. CASE y # <<>> /\ IsPrefix(Start, y)
    <3> DEFINE rest == Drop(y, Len(Start))
    <3>1. /\ Value(g, y) = IF Has(rest, End) THEN g[After(rest, End)] ELSE Unclosed
          /\ Value(h, y) = IF Has(rest, End) THEN h[After(rest, End)] ELSE Unclosed
      BY <2>2 DEF Drop, Unclosed
    <3> QED  BY <1>3, <2>0, <2>2, <3>1
  <2>3. CASE y # <<>> /\ ~IsPrefix(Start, y)
    <3>1. /\ Value(g, y) = [g[Tail(y)] EXCEPT !.text = <<Head(y)>> \o @]
          /\ Value(h, y) = [h[Tail(y)] EXCEPT !.text = <<Head(y)>> \o @]
      BY <2>3
    <3>2. g[Tail(y)] = h[Tail(y)]
      BY <1>2, <2>0, <2>3
    <3> QED  BY <3>1, <3>2
  <2> QED  BY <2>1, <2>2, <2>3
<1> HIDE DEF Value
<1>6. IsRecursion(D, V, Size, Step)
  <2>1. [D -> V] # {}
    <3>1. [y \in D |-> Unclosed] \in [D -> V]
      BY <1>1
    <3> QED  BY <3>1
  <2>2. Size \in [D -> Nat]
    BY LenProperties
  <2>3. Step \in [[D -> V] -> [D -> V]]
    BY <1>4
  <2>4. \A g, h \in [D -> V] : \A y \in D :
          (\A z \in D : Size[z] < Size[y] => g[z] = h[z]) => Step[g][y] = Step[h][y]
    BY <1>5
  <2> HIDE DEF Size, Step, D, V
  <2> QED  BY <2>1, <2>2, <2>3, <2>4 DEF IsRecursion
<1>7. PICK f \in [D -> V] : f = Step[f]
  <2> HIDE DEF Size, Step, D, V
  <2> QED  BY <1>6, RecursiveFunction DEF HasSolution
<1>8. f = Rec(f)
  BY <1>7
<1>9. Outside = Rec(Outside)
  <2> DEFINE c == CHOOSE g : g = Rec(g)
  <2>1. c = Rec(c)
    BY <1>8
  <2>2. Outside = c
    BY DEF Outside, Value
  <2> HIDE DEF c, Rec
  <2> QED  BY <2>1, <2>2
<1>10. \A y \in D : Outside[y] = Value(Outside, y)
  BY <1>9
<1>11. \A y \in D : Outside[y] \in V
  <2> DEFINE P == {y \in D : Outside[y] \in V}
  <2>1. Size \in [D -> Nat] /\ \A y \in D : Size[y] = Len(y)
    BY LenProperties
  <2> HIDE DEF D, V, Size
  <2>2. \A y \in D : (\A z \in D : Size[z] < Size[y] => z \in P) => y \in P
    BY <1>4, <1>10, <2>1
  <2>3. \A y \in D : y \in P
    <3> HIDE DEF P
    <3> QED  BY <2>1, <2>2, SizeInduction
  <2> QED  BY <2>3
<1>12. x = <<>> => Outside[x] = [text |-> <<>>, closed |-> TRUE]
  BY <1>10 DEF Value
<1>13. ASSUME Occurs(x, Start, 1) PROVE Outside[x] = Inside(Drop(x, Len(Start)))
  <2>1. IsPrefix(Start, x) /\ x # <<>>
    BY <1>3, <1>13, PrefixOccurs, MarkerFacts
  <2> QED  BY <1>10, <2>1 DEF Value, Inside, Unclosed, Drop
<1>14. ASSUME x # <<>>, ~Occurs(x, Start, 1)
       PROVE  /\ Outside[x].text = <<x[1]>> \o Outside[Drop(x, 1)].text
              /\ Outside[x].closed = Outside[Drop(x, 1)].closed
  <2>1. ~IsPrefix(Start, x)
    BY <1>14, PrefixOccurs, MarkerFacts
  <2>2. Value(Outside, x) = [Outside[Tail(x)] EXCEPT !.text = <<Head(x)>> \o @]
    BY <1>14, <2>1 DEF Value
  <2>3. Outside[x] = [Outside[Drop(x, 1)] EXCEPT !.text = <<x[1]>> \o @]
    BY <1>2, <1>10, <1>14, <2>2
  <2>4. Outside[Drop(x, 1)] \in Results
    BY <1>2, <1>11, <1>14
  <2> QED  BY <2>3, <2>4 DEF Results
<1> QED  BY <1>11, <1>12, <1>13, <1>14

\* Letters before the first start marker are outside.
LEMMA OutsideSkips ==
  ASSUME NEW x \in Seq(Letters), NEW n \in 0 .. Len(x), \A i \in 1 .. n : ~Occurs(x, Start, i)
  PROVE  /\ Outside[x].text = Take(x, n) \o Outside[Drop(x, n)].text
         /\ Outside[x].closed = Outside[Drop(x, n)].closed
<1> DEFINE Skipped(j) ==
             /\ Outside[x].text = Take(x, j) \o Outside[Drop(x, j)].text
             /\ Outside[x].closed = Outside[Drop(x, j)].closed
           Good == {j \in Nat : j <= n => Skipped(j)}
<1>1. n \in Nat /\ n <= Len(x) /\ Len(x) \in Nat /\ Start \in Markers
  BY LenProperties, MarkerFacts
<1>2. \A y \in Seq(Letters) : Outside[y].text \in Seq(Letters)
  BY OutsideUnfolds DEF Results
<1>3. 0 \in Good
  <2>1. Take(x, 0) = <<>> /\ Drop(x, 0) = x
    BY SubSeqEmpty, SubSeqFull DEF Take, Drop
  <2> HIDE DEF Take, Drop
  <2>2. <<>> \o Outside[x].text = Outside[x].text
    BY <1>2, ConcatEmptySeq
  <2> QED  BY <2>1, <2>2
<1> HIDE DEF Skipped
<1>4. ASSUME NEW j \in Nat, j \in Good PROVE j + 1 \in Good
  <2> SUFFICES ASSUME j + 1 <= n PROVE Skipped(j + 1)
    OBVIOUS
  <2> DEFINE y == Drop(x, j)
             o == Outside[Drop(x, j + 1)].text
  <2>1. j \in 0 .. Len(x) /\ j <= n /\ j + 1 \in 1 .. n /\ j + 1 \in 1 .. Len(x) /\ j + 1 <= Len(x)
        /\ j + 1 \in 0 .. Len(x)
    BY <1>1
  <2>2. Skipped(j)
    BY <1>4, <2>1
  <2>3. y \in Seq(Letters) /\ Len(y) = Len(x) - j /\ y # <<>> /\ y[1] = x[j + 1]
    <3>1. y \in Seq(Letters) /\ Len(y) = Len(x) - j /\ \A i \in 1 .. Len(x) - j : y[i] = x[j + i]
      <4> HIDE DEF Drop
      <4> QED  BY <2>1, Cut
    <3>2. 1 \in 1 .. Len(x) - j /\ Len(x) - j # 0
      BY <1>1, <2>1
    <3> HIDE DEF y
    <3> QED  BY <3>1, <3>2, EmptySeq
  <2>4. ~Occurs(y, Start, 1)
    <3> HIDE DEF Drop
    <3> QED  BY <1>1, <2>1, OccursDropped
  <2>5. Drop(y, 1) = Drop(x, j + 1)
    <3> HIDE DEF Drop
    <3> QED  BY <1>1, <2>1, DropDrop
  <2>6. Outside[y].text = <<x[j + 1]>> \o o /\ Outside[y].closed = Outside[Drop(x, j + 1)].closed
    <3> HIDE DEF y
    <3> QED  BY <2>3, <2>4, <2>5, OutsideUnfolds
  <2>7. /\ Take(x, j) \in Seq(Letters) /\ x[j + 1] \in Letters /\ <<x[j + 1]>> \in Seq(Letters)
        /\ o \in Seq(Letters)
    <3>1. Take(x, j) \in Seq(Letters) /\ Drop(x, j + 1) \in Seq(Letters)
      <4> HIDE DEF Take, Drop
      <4> QED  BY <2>1, Cut
    <3>2. x[j + 1] \in Letters
      BY <2>1, ElementOfSeq
    <3> QED  BY <1>2, <3>1, <3>2
  <2>8. Take(x, j + 1) = Take(x, j) \o <<x[j + 1]>>
    <3>1. 1 \in 1 .. Len(x) /\ j + 1 \in 1 .. Len(x) /\ (j + 1) - 1 = j
      BY <1>1, <2>1
    <3> QED  BY <3>1, SubSeqRecursiveSecond DEF Take
  <2>9. Outside[x].text = Take(x, j) \o (<<x[j + 1]>> \o o)
    BY <2>2, <2>6 DEF Skipped
  <2>10. Outside[x].text = Take(x, j + 1) \o o
    <3> DEFINE p == Take(x, j)
               e == <<x[j + 1]>>
    <3>1. p \in Seq(Letters) /\ e \in Seq(Letters) /\ o \in Seq(Letters)
      BY <2>7
    <3> HIDE DEF p, e, o
    <3>2. (p \o e) \o o = p \o (e \o o)
      BY <3>1, Associative
    <3> QED  BY <2>8, <2>9, <3>2 DEF p, e
  <2> QED  BY <2>2, <2>6, <2>10 DEF Skipped
<1>5. \A j \in Nat : j \in Good
  <2> HIDE DEF Good
  <2> QED  BY <1>3, <1>4, NatSetInduction
<1> QED  BY <1>1, <1>5 DEF Skipped

LEMMA OutsidePlain ==
  ASSUME NEW x \in Seq(Letters), ~Has(x, Start)
  PROVE  Outside[x] = [text |-> x, closed |-> TRUE]
<1>1. Len(x) \in Nat /\ Len(x) \in 0 .. Len(x) /\ Start \in Markers
  BY LenProperties, MarkerFacts
<1>2. \A i \in 1 .. Len(x) : ~Occurs(x, Start, i)
  <2>1. \A i \in 1 .. Len(x) : i \in Nat
    BY <1>1
  <2> QED  BY <1>1, <2>1, FirstAt
<1>3. Take(x, Len(x)) = x /\ Drop(x, Len(x)) = <<>>
  BY <1>1, SubSeqFull, SubSeqEmpty DEF Take, Drop
<1>4. <<>> \in Seq(Letters) /\ Outside[<<>>] = [text |-> <<>>, closed |-> TRUE]
  <2>1. <<>> \in Seq(Letters)
    OBVIOUS
  <2> QED  BY <2>1, OutsideUnfolds
<1>5. /\ Outside[x].text = Take(x, Len(x)) \o Outside[Drop(x, Len(x))].text
      /\ Outside[x].closed = Outside[Drop(x, Len(x))].closed
  BY <1>1, <1>2, OutsideSkips
<1>6. Outside[x].text = x \o <<>> /\ Outside[x].closed = TRUE
  BY <1>3, <1>4, <1>5
<1>7. Outside[x].text = x
  BY <1>6, ConcatEmptySeq
<1> QED  BY <1>6, <1>7, OutsideUnfolds DEF Results

\* The first start marker begins a block.
LEMMA OutsideBlock ==
  ASSUME NEW x \in Seq(Letters), Has(x, Start)
  PROVE  /\ Outside[x].text = Before(x, Start) \o Inside(After(x, Start)).text
         /\ Outside[x].closed = Inside(After(x, Start)).closed
<1> DEFINE i == Min(At(x, Start))
           k == Len(Start)
           y == Drop(x, i - 1)
<1>1. /\ i \in Nat /\ i >= 1 /\ i - 1 + k <= Len(x) /\ i - 1 \in 0 .. Len(x)
      /\ Before(x, Start) = Take(x, i - 1) /\ After(x, Start) = Drop(x, i - 1 + k)
  BY AroundFirst, MarkerFacts
<1>2. Occurs(x, Start, i) /\ \A j \in Nat : Occurs(x, Start, j) => i <= j
  BY FirstAt, MarkerFacts
<1>0. k \in Nat /\ Start \in Markers /\ i - 1 \in Nat
  BY <1>1, MarkerFacts
<1> HIDE DEF i
<1>3. \A j \in 1 .. i - 1 : ~Occurs(x, Start, j)
  <2>1. \A j \in 1 .. i - 1 : j \in Nat /\ ~(i <= j)
    BY <1>1
  <2> QED  BY <1>2, <2>1
<1>4. Outside[x].text = Take(x, i - 1) \o Outside[y].text /\ Outside[x].closed = Outside[y].closed
  BY <1>1, <1>3, OutsideSkips
<1>5. y \in Seq(Letters) /\ Occurs(y, Start, 1)
  <2>1. i - 1 + 1 = i
    BY <1>1
  <2>2. y \in Seq(Letters)
    <3> HIDE DEF Drop
    <3> QED  BY <1>1, Cut
  <2>3. Occurs(y, Start, 1) <=> Occurs(x, Start, i - 1 + 1)
    <3> DEFINE n == i - 1
    <3>1. n \in 0 .. Len(x) /\ 1 \in Nat /\ 1 >= 1
      BY <1>1
    <3> HIDE DEF Drop, n
    <3>2. Occurs(Drop(x, n), Start, 1) <=> Occurs(x, Start, n + 1)
      BY <1>0, <3>1, OccursDropped
    <3> QED  BY <3>2 DEF n
  <2> QED  BY <1>2, <2>1, <2>2, <2>3
<1>6. Drop(y, k) = Drop(x, i - 1 + k)
  <2> HIDE DEF Drop, k
  <2> QED  BY <1>0, <1>1, DropDrop
<1>7. Outside[y] = Inside(After(x, Start))
  <2> HIDE DEF y
  <2> QED  BY <1>1, <1>5, <1>6, OutsideUnfolds
<1> QED  BY <1>1, <1>4, <1>7

LEMMA InsideResults ==
  ASSUME NEW x \in Seq(Letters)
  PROVE  Inside(x) \in Results
<1>1. Has(x, End) => After(x, End) \in Seq(Letters)
  BY AroundFirst, MarkerFacts
<1>2. CASE Has(x, End)
  <2>1. Inside(x) = Outside[After(x, End)]
    BY <1>2 DEF Inside
  <2> QED  BY <1>1, <1>2, <2>1, OutsideUnfolds
<1>3. CASE ~Has(x, End)
  BY <1>3 DEF Inside, Unclosed, Results
<1> QED  BY <1>2, <1>3

-----------------------------------------------------------------------------
(***************************************************************************)
(* The filter.  What of its buffer it gives up can not be part of a marker.*)
(***************************************************************************)
LEMMA HiddenKeeps ==
  ASSUME NEW b \in Seq(Letters), ~Has(b, End)
  PROVE  /\ Hidden(b) \in Seq(Letters) /\ ~Has(Hidden(b), End)
         /\ \A r \in Seq(Letters) : Inside(Hidden(b) \o r) = Inside(b \o r)
<1> DEFINE k == Len(End)
           n == Len(b) - (k - 1)
<1>1. Len(b) \in Nat /\ k \in Nat /\ k >= 1 /\ End \in Markers /\ MaxHidden \in Nat /\ MaxHidden >= k - 1
  BY LenProperties, MarkerFacts
<1>2. CASE ~(Len(b) > MaxHidden)
  BY <1>2 DEF Hidden
<1>3. CASE Len(b) > MaxHidden
  <2>1. n \in 0 .. Len(b) /\ n \in Nat /\ \A i \in 1 .. n : i \in Nat /\ i + k - 1 <= Len(b)
    BY <1>1, <1>3
  <2>2. Hidden(b) = Drop(b, n)
    BY <1>3 DEF Hidden, Ending, Drop
  <2> HIDE DEF n
  <2>3. Drop(b, n) \in Seq(Letters)
    <3> HIDE DEF Drop
    <3> QED  BY <2>1, Cut
  <2>4. \A i \in 1 .. n : ~Occurs(b, End, i)
    BY <1>1, <2>1, FirstAt
  <2>5. ~Has(Drop(b, n), End)
    <3> HIDE DEF Drop
    <3> QED  BY <1>1, <2>1, <2>4, FirstDropped
  <2>6. ASSUME NEW r \in Seq(Letters) PROVE Inside(Drop(b, n) \o r) = Inside(b \o r)
    <3> DEFINE w == b \o r
    <3>1. /\ w \in Seq(Letters) /\ n \in 0 .. Len(w) /\ Drop(w, n) = Drop(b, n) \o r
      <4> HIDE DEF Drop
      <4> QED  BY <2>1, CutJoined
    <3>2. \A i \in 1 .. n : ~Occurs(w, End, i)
      BY <1>1, <2>1, <2>4, OccursJoined
    <3> HIDE DEF w
    <3>3. (Has(w, End) <=> Has(Drop(w, n), End)) /\ (Has(w, End) => After(w, End) = After(Drop(w, n), End))
      <4> HIDE DEF Drop
      <4> QED  BY <1>1, <3>1, <3>2, FirstDropped
    <3>4. Inside(w) = Inside(Drop(w, n))
      BY <3>3 DEF Inside
    <3> QED  BY <3>1, <3>4 DEF w
  <2> QED  BY <2>2, <2>3, <2>5, <2>6
<1> QED  BY <1>2, <1>3

LEMMA SuffixOf ==
  ASSUME NEW s \in Seq(Letters), NEW t \in Seq(Letters)
  PROVE  IsSuffix(s, t) <=>
           Len(s) <= Len(t) /\ \A i \in 1 .. Len(s) : s[i] = t[Len(t) - Len(s) + i]
<1> DEFINE m == Len(s)
           n == Len(t)
           x == Reverse(s)
           y == Reverse(t)
<1>1. m \in Nat /\ n \in Nat
  BY LenProperties
<1>2. /\ x \in Seq(Letters) /\ Len(x) = m /\ \A i \in 1 .. m : x[i] = s[m - i + 1]
      /\ y \in Seq(Letters) /\ Len(y) = n /\ \A i \in 1 .. n : y[i] = t[n - i + 1]
  <2>1. (\A i \in 1 .. m : s[m - i + 1] \in Letters) /\ (\A i \in 1 .. n : t[n - i + 1] \in Letters)
    <3>1. (\A i \in 1 .. m : m - i + 1 \in 1 .. m) /\ (\A i \in 1 .. n : n - i + 1 \in 1 .. n)
      BY <1>1
    <3> QED  BY <3>1, ElementOfSeq
  <2>2. x = [i \in 1 .. m |-> s[m - i + 1]] /\ y = [i \in 1 .. n |-> t[n - i + 1]]
    BY DEF Reverse
  <2> HIDE DEF m, n, x, y
  <2> QED  BY <1>1, <2>1, <2>2
<1>3. IsSuffix(s, t) <=> m <= n /\ SubSeq(x, 1, m) = Take(y, m)
  <2>1. IsSuffix(s, t) <=> Len(x) <= Len(y) /\ SubSeq(x, 1, Len(x)) = SubSeq(y, 1, Len(x))
    BY DEF IsSuffix, IsPrefix
  <2> HIDE DEF x, y, m, n
  <2> QED  BY <1>2, <2>1 DEF Take
<1>4. m = Len(s) /\ n = Len(t)
  OBVIOUS
<1> HIDE DEF x, y, m, n
<1>5. SubSeq(x, 1, m) = x
  BY <1>2, SubSeqFull
<1>6. ASSUME m <= n
      PROVE  x = Take(y, m) <=> \A i \in 1 .. m : s[i] = t[n - m + i]
  <2>1. m \in 0 .. Len(y)
    BY <1>1, <1>2, <1>6
  <2>2. Take(y, m) \in Seq(Letters) /\ Len(Take(y, m)) = m /\ \A i \in 1 .. m : Take(y, m)[i] = y[i]
    <3> HIDE DEF Take
    <3> QED  BY <1>2, <2>1, Cut
  <2>3. \A i \in 1 .. m : i \in 1 .. n
    BY <1>1, <1>6
  <2>4. x = Take(y, m) <=> \A i \in 1 .. m : x[i] = y[i]
    <3> HIDE DEF Take
    <3> QED  BY <1>1, <1>2, <2>2, SeqEqual
  <2>5. (\A i \in 1 .. m : x[i] = y[i]) <=> \A i \in 1 .. m : s[m - i + 1] = t[n - i + 1]
    BY <1>2, <2>3
  <2>6. (\A i \in 1 .. m : s[m - i + 1] = t[n - i + 1]) => \A i \in 1 .. m : s[i] = t[n - m + i]
    <3> SUFFICES ASSUME \A i \in 1 .. m : s[m - i + 1] = t[n - i + 1], NEW i \in 1 .. m
                 PROVE  s[i] = t[n - m + i]
      OBVIOUS
    <3>1. m - i + 1 \in 1 .. m /\ m - (m - i + 1) + 1 = i /\ n - (m - i + 1) + 1 = n - m + i
      BY <1>1
    <3>2. s[m - (m - i + 1) + 1] = t[n - (m - i + 1) + 1]
      BY <3>1
    <3> QED  BY <3>1, <3>2
  <2>7. (\A i \in 1 .. m : s[i] = t[n - m + i]) => \A i \in 1 .. m : s[m - i + 1] = t[n - i + 1]
    <3> SUFFICES ASSUME \A i \in 1 .. m : s[i] = t[n - m + i], NEW i \in 1 .. m
                 PROVE  s[m - i + 1] = t[n - i + 1]
      OBVIOUS
    <3>1. m - i + 1 \in 1 .. m /\ n - m + (m - i + 1) = n - i + 1
      BY <1>1
    <3>2. s[m - i + 1] = t[n - m + (m - i + 1)]
      BY <3>1
    <3> QED  BY <3>1, <3>2
  <2> QED  BY <2>4, <2>5, <2>6, <2>7
<1> QED  BY <1>3, <1>4, <1>5, <1>6

\* The letters kept are the longest end of the text a start marker begins with.
LEMMA Longest ==
  ASSUME NEW b \in Seq(Letters)
  PROVE  LET keep == longestMarkerPrefixSuffix(b, Start) IN
         /\ keep \in Nat /\ keep <= Len(Start) - 1 /\ keep <= Len(b)
         /\ \A m \in 0 .. Len(Start) - 1 :
              m <= Len(b) /\ (\A i \in 1 .. m : Start[i] = b[Len(b) - m + i]) => m <= keep
<1> DEFINE k == Len(Start)
           l == Len(b)
           S == {n \in 0 .. k - 1 : IsSuffix(SubSeq(Start, 1, n), b)}
<1>1. k \in Nat /\ k >= 1 /\ l \in Nat /\ Start \in Seq(Letters)
  BY LenProperties, MarkerFacts
<1>2. ASSUME NEW n \in 0 .. k - 1
      PROVE  n \in S <=> n <= l /\ \A i \in 1 .. n : Start[i] = b[l - n + i]
  <2> DEFINE s == Take(Start, n)
  <2>1. n \in 0 .. Len(Start)
    BY <1>1
  <2>2. s \in Seq(Letters) /\ Len(s) = n /\ \A i \in 1 .. n : s[i] = Start[i]
    <3> HIDE DEF Take
    <3> QED  BY <1>1, <2>1, Cut
  <2>3. n \in S <=> IsSuffix(s, b)
    BY DEF Take
  <2> HIDE DEF s, S
  <2> QED  BY <2>2, <2>3, SuffixOf
<1>3. 0 \in S
  <2>1. 0 \in 0 .. k - 1 /\ 0 <= l
    BY <1>1
  <2> HIDE DEF S
  <2> QED  BY <1>2, <2>1
<1>4. S \subseteq 0 .. k - 1
  OBVIOUS
<1> HIDE DEF S
<1>5. \E n \in S : \A j \in S : n >= j
  <2> DEFINE R == {k - 1 - n : n \in S}
  <2>1. R \subseteq Nat /\ R # {}
    BY <1>1, <1>3, <1>4
  <2> HIDE DEF k
  <2>2. PICK r \in R : \A j \in R : r <= j
    <3> HIDE DEF R
    <3> QED  BY <2>1, SmallestNat
  <2>3. PICK n \in S : r = k - 1 - n
    BY <2>2
  <2>4. ASSUME NEW j \in S PROVE n >= j
    <3>1. r <= k - 1 - j
      BY <2>2
    <3>2. n \in Nat /\ j \in Nat /\ k \in Nat
      BY <1>1, <1>4
    <3> QED  BY <2>3, <3>1, <3>2
  <2> QED  BY <2>4
<1>6. Max(S) \in S /\ \A j \in S : Max(S) >= j
  BY <1>5 DEF Max
<1>7. longestMarkerPrefixSuffix(b, Start) = Max(S)
  BY DEF longestMarkerPrefixSuffix, S
<1>8. Max(S) \in 0 .. k - 1
  BY <1>4, <1>6
<1>9. Max(S) <= l
  BY <1>2, <1>6, <1>8
<1>10. ASSUME NEW m \in 0 .. k - 1, m <= l, \A i \in 1 .. m : Start[i] = b[l - m + i] PROVE m <= Max(S)
  <2>1. m \in S
    BY <1>2, <1>10
  <2>2. Max(S) >= m /\ Max(S) \in Nat /\ m \in Nat
    BY <1>1, <1>6, <1>8, <2>1
  <2> QED  BY <2>2
<1> QED  BY <1>1, <1>7, <1>8, <1>9, <1>10

\* No start marker begins in what becomes visible, whatever follows.
LEMMA KeepSkips ==
  ASSUME NEW b \in Seq(Letters), ~Has(b, Start), NEW r \in Seq(Letters)
  PROVE  LET n == Len(b) - longestMarkerPrefixSuffix(b, Start) IN
         n \in 0 .. Len(b) /\ \A i \in 1 .. n : ~Occurs(b \o r, Start, i)
<1> DEFINE keep == longestMarkerPrefixSuffix(b, Start)
           k == Len(Start)
           l == Len(b)
           n == l - keep
           w == b \o r
<1>1. k \in Nat /\ k >= 1 /\ l \in Nat /\ Start \in Markers
  BY LenProperties, MarkerFacts
<1>2. /\ keep \in Nat /\ keep <= k - 1 /\ keep <= l
      /\ \A m \in 0 .. k - 1 : m <= l /\ (\A i \in 1 .. m : Start[i] = b[l - m + i]) => m <= keep
  BY Longest
<1>0. k = Len(Start) /\ l = Len(b)
  OBVIOUS
<1> HIDE DEF keep, k, l
<1>3. ASSUME NEW i \in 1 .. n, Occurs(w, Start, i) PROVE FALSE
  <2>1. i \in Nat /\ i >= 1 /\ i <= l - keep
    BY <1>1, <1>2
  <2>2. CASE i + k - 1 <= l
    <3>1. Occurs(b, Start, i)
      BY <1>0, <1>1, <1>3, <2>1, <2>2, OccursJoined
    <3> QED  BY <1>1, <2>1, <3>1, FirstAt
  <2>3. CASE ~(i + k - 1 <= l)
    <3> DEFINE m == l - i + 1
    <3>1. m \in 0 .. k - 1 /\ m <= l /\ m > keep
      BY <1>1, <1>2, <2>1, <2>3
    <3>2. ASSUME NEW j \in 1 .. m PROVE Start[j] = b[l - m + j]
      <4>1. j \in 1 .. k /\ i + j - 1 \in 1 .. l /\ i + j - 1 = l - m + j
        BY <1>1, <2>1, <3>1
      <4>2. w[i + j - 1] = Start[j]
        BY <1>0, <1>3, <4>1 DEF Occurs
      <4>3. w[i + j - 1] = b[i + j - 1]
        <5>1. \A a \in 1 .. Len(b) + Len(r) : w[a] = IF a <= Len(b) THEN b[a] ELSE r[a - Len(b)]
          BY ConcatProperties
        <5>2. Len(r) \in Nat /\ i + j - 1 \in 1 .. l + Len(r) /\ i + j - 1 <= l
          BY <1>1, <4>1, LenProperties
        <5> HIDE DEF w
        <5> QED  BY <1>0, <5>1, <5>2
      <4> QED  BY <4>1, <4>2, <4>3
    <3> HIDE DEF m
    <3>3. m <= keep
      BY <1>2, <3>1, <3>2
    <3> QED  BY <1>2, <3>1, <3>3
  <2> QED  BY <2>2, <2>3
<1>4. n \in 0 .. l
  BY <1>1, <1>2
<1> QED  BY <1>0, <1>3, <1>4 DEF keep

\* What has become and will become visible if `r' is all that is still to come.
Cont(f, r) ==
  f.output \o (IF f.inside THEN Inside(f.buffer \o r).text ELSE Outside[f.buffer \o r].text)

\* There is nothing left in the buffer to be found.
Settled(f) == IF f.inside THEN ~Has(f.buffer, End) ELSE ~Has(f.buffer, Start)

\* The four cases of the loop.
LEMMA MarkerEnds ==
  ASSUME NEW f \in Filters, f.inside, Has(f.buffer, End)
  PROVE  LET g == [f EXCEPT !.buffer = After(f.buffer, End), !.inside = FALSE] IN
         /\ g \in Filters /\ Len(g.buffer) < Len(f.buffer)
         /\ \A r \in Seq(Letters) : Cont(g, r) = Cont(f, r)
<1> DEFINE b == f.buffer
           g == [f EXCEPT !.buffer = After(b, End), !.inside = FALSE]
<1>1. b \in Seq(Letters) /\ f.output \in Seq(Letters) /\ End \in Markers /\ Len(b) \in Nat
  BY MarkerFacts, LenProperties DEF Filters
<1>2. Has(b, End)
  OBVIOUS
<1> HIDE DEF b
<1>3. After(b, End) \in Seq(Letters) /\ Len(After(b, End)) < Len(b)
  <2> DEFINE i == Min(At(b, End))
             k == Len(End)
  <2>1. /\ i \in Nat /\ i >= 1 /\ After(b, End) \in Seq(Letters)
        /\ Len(After(b, End)) = Len(b) - (i - 1 + k) /\ k \in Nat /\ k >= 1
    BY <1>1, <1>2, AroundFirst, MarkerFacts
  <2> HIDE DEF i, k
  <2> QED  BY <1>1, <2>1
<1>4. /\ g \in Filters /\ g.buffer = After(b, End) /\ ~g.inside /\ g.output = f.output
  BY <1>3 DEF Filters
<1>5. ASSUME NEW r \in Seq(Letters) PROVE Cont(g, r) = Cont(f, r)
  <2>1. Has(b \o r, End) /\ After(b \o r, End) = After(b, End) \o r
    BY <1>1, <1>2, FirstJoined
  <2>2. Inside(b \o r) = Outside[After(b, End) \o r]
    BY <2>1 DEF Inside
  <2>3. Cont(f, r) = f.output \o Inside(b \o r).text
    BY DEF Cont, b
  <2>4. Cont(g, r) = f.output \o Outside[After(b, End) \o r].text
    <3> HIDE DEF g
    <3> QED  BY <1>4 DEF Cont
  <2> QED  BY <2>2, <2>3, <2>4
<1> QED  BY <1>3, <1>4, <1>5 DEF b

LEMMA MarkerStarts ==
  ASSUME NEW f \in Filters, ~f.inside, Has(f.buffer, Start)
  PROVE  LET g == [buffer |-> After(f.buffer, Start), inside |-> TRUE,
                   output |-> f.output \o Before(f.buffer, Start)] IN
         /\ g \in Filters /\ Len(g.buffer) < Len(f.buffer)
         /\ \A r \in Seq(Letters) : Cont(g, r) = Cont(f, r)
<1> DEFINE b == f.buffer
           o == f.output
           g == [buffer |-> After(b, Start), inside |-> TRUE, output |-> o \o Before(b, Start)]
<1>1. b \in Seq(Letters) /\ o \in Seq(Letters) /\ Start \in Markers /\ Len(b) \in Nat
  BY MarkerFacts, LenProperties DEF Filters
<1>2. Has(b, Start)
  OBVIOUS
<1> HIDE DEF b, o
<1>3. /\ After(b, Start) \in Seq(Letters) /\ Len(After(b, Start)) < Len(b)
      /\ Before(b, Start) \in Seq(Letters)
  <2> DEFINE i == Min(At(b, Start))
             k == Len(Start)
  <2>1. /\ i \in Nat /\ i >= 1 /\ After(b, Start) \in Seq(Letters) /\ Before(b, Start) \in Seq(Letters)
        /\ Len(After(b, Start)) = Len(b) - (i - 1 + k) /\ k \in Nat /\ k >= 1
    BY <1>1, <1>2, AroundFirst, MarkerFacts
  <2> HIDE DEF i, k
  <2> QED  BY <1>1, <2>1
<1>4. /\ g \in Filters /\ g.buffer = After(b, Start) /\ g.inside
      /\ g.output = o \o Before(b, Start)
  BY <1>1, <1>3, ConcatProperties DEF Filters
<1>5. ASSUME NEW r \in Seq(Letters) PROVE Cont(g, r) = Cont(f, r)
  <2> DEFINE i == Inside(After(b, Start) \o r).text
  <2>1. /\ Has(b \o r, Start) /\ After(b \o r, Start) = After(b, Start) \o r
        /\ Before(b \o r, Start) = Before(b, Start)
        /\ b \o r \in Seq(Letters) /\ After(b, Start) \o r \in Seq(Letters)
    BY <1>1, <1>2, <1>3, FirstJoined, ConcatProperties
  <2>2. Outside[b \o r].text = Before(b, Start) \o i
    BY <2>1, OutsideBlock
  <2>3. Cont(f, r) = o \o Outside[b \o r].text
    BY DEF Cont, b, o
  <2>4. Cont(g, r) = (o \o Before(b, Start)) \o i
    <3> HIDE DEF g
    <3> QED  BY <1>4 DEF Cont
  <2>5. i \in Seq(Letters)
    BY <2>1, InsideResults DEF Results
  <2>6. (o \o Before(b, Start)) \o i = o \o (Before(b, Start) \o i)
    <3> DEFINE p == Before(b, Start)
    <3>1. o \in Seq(Letters) /\ p \in Seq(Letters) /\ i \in Seq(Letters)
      BY <1>1, <1>3, <2>5
    <3> HIDE DEF i, p
    <3>2. (o \o p) \o i = o \o (p \o i)
      BY <3>1, Associative
    <3> QED  BY <3>2 DEF p
  <2> QED  BY <2>2, <2>3, <2>4, <2>6
<1> QED  BY <1>3, <1>4, <1>5 DEF b, o

LEMMA NoMarkerEnds ==
  ASSUME NEW f \in Filters, f.inside, ~Has(f.buffer, End)
  PROVE  LET g == [f EXCEPT !.buffer = Hidden(f.buffer)] IN
         g \in Filters /\ Settled(g) /\ \A r \in Seq(Letters) : Cont(g, r) = Cont(f, r)
<1> DEFINE b == f.buffer
           g == [f EXCEPT !.buffer = Hidden(b)]
<1>1. /\ Hidden(b) \in Seq(Letters) /\ ~Has(Hidden(b), End)
      /\ \A r \in Seq(Letters) : Inside(Hidden(b) \o r) = Inside(b \o r)
  BY HiddenKeeps DEF Filters
<1> HIDE DEF b
<1>2. g \in Filters /\ g.buffer = Hidden(b) /\ g.inside /\ g.output = f.output
  BY <1>1 DEF Filters
<1> HIDE DEF g
<1>3. ASSUME NEW r \in Seq(Letters) PROVE Cont(g, r) = Cont(f, r)
  BY <1>1, <1>2 DEF Cont, b
<1> QED  BY <1>1, <1>2, <1>3 DEF Settled, g, b

LEMMA NoMarkerStarts ==
  ASSUME NEW f \in Filters, ~f.inside, ~Has(f.buffer, Start)
  PROVE  LET keep == longestMarkerPrefixSuffix(f.buffer, Start)
             g == [f EXCEPT !.buffer = Ending(f.buffer, keep),
                            !.output = @ \o SubSeq(f.buffer, 1, Len(f.buffer) - keep)] IN
         g \in Filters /\ Settled(g) /\ \A r \in Seq(Letters) : Cont(g, r) = Cont(f, r)
<1> DEFINE b == f.buffer
           o == f.output
           keep == longestMarkerPrefixSuffix(b, Start)
           n == Len(b) - keep
           g == [f EXCEPT !.buffer = Ending(b, keep), !.output = @ \o SubSeq(b, 1, n)]
<1>1. b \in Seq(Letters) /\ o \in Seq(Letters) /\ ~Has(b, Start) /\ Len(b) \in Nat /\ Start \in Markers
  BY MarkerFacts, LenProperties DEF Filters
<1> HIDE DEF b, o
<1>2. n \in 0 .. Len(b) /\ \A r \in Seq(Letters) : \A i \in 1 .. n : ~Occurs(b \o r, Start, i)
  BY <1>1, KeepSkips
<1>3. keep \in Nat
  BY <1>1, Longest
<1>4. Ending(b, keep) = Drop(b, n) /\ SubSeq(b, 1, n) = Take(b, n)
  BY DEF Ending, Drop, Take
<1> HIDE DEF keep, n
<1>5. Take(b, n) \in Seq(Letters) /\ Drop(b, n) \in Seq(Letters)
  <2> HIDE DEF Take, Drop
  <2> QED  BY <1>1, <1>2, Cut
<1>6. o \o Take(b, n) \in Seq(Letters)
  BY <1>1, <1>5, ConcatProperties
<1>7. g \in Filters /\ g.buffer = Drop(b, n) /\ ~g.inside /\ g.output = o \o Take(b, n)
  BY <1>4, <1>5, <1>6 DEF Filters, o
<1>8. ~Has(Drop(b, n), Start)
  <2>1. \A i \in 1 .. n : ~Occurs(b, Start, i)
    <3>1. \A i \in 1 .. n : i \in Nat
      BY <1>1, <1>2
    <3> QED  BY <1>1, <3>1, FirstAt
  <2> HIDE DEF Drop
  <2> QED  BY <1>1, <1>2, <2>1, FirstDropped
<1> HIDE DEF g
<1>9. ASSUME NEW r \in Seq(Letters) PROVE Cont(g, r) = Cont(f, r)
  <2> DEFINE w == b \o r
             e == Outside[Drop(b, n) \o r].text
  <2>1. /\ w \in Seq(Letters) /\ n \in 0 .. Len(w) /\ Take(w, n) = Take(b, n)
        /\ Drop(w, n) = Drop(b, n) \o r
    <3> HIDE DEF Take, Drop
    <3> QED  BY <1>1, <1>2, CutJoined
  <2>2. \A i \in 1 .. n : ~Occurs(w, Start, i)
    BY <1>2
  <2> HIDE DEF w
  <2>3. Outside[w].text = Take(w, n) \o Outside[Drop(w, n)].text
    <3> HIDE DEF Take, Drop
    <3> QED  BY <2>1, <2>2, OutsideSkips
  <2>4. Cont(f, r) = o \o (Take(b, n) \o e)
    <3>1. Cont(f, r) = o \o Outside[w].text
      BY DEF Cont, b, o, w
    <3> QED  BY <2>1, <2>3, <3>1
  <2>5. Cont(g, r) = (o \o Take(b, n)) \o e
    BY <1>7 DEF Cont
  <2>6. e \in Seq(Letters)
    <3>1. Drop(b, n) \o r \in Seq(Letters)
      BY <1>5, ConcatProperties
    <3> QED  BY <3>1, OutsideUnfolds DEF Results
  <2> DEFINE p == Take(b, n)
  <2>7. o \in Seq(Letters) /\ p \in Seq(Letters) /\ e \in Seq(Letters)
    BY <1>1, <1>5, <2>6
  <2> HIDE DEF e, p
  <2>8. (o \o p) \o e = o \o (p \o e)
    BY <2>7, Associative
  <2> QED  BY <2>4, <2>5, <2>8 DEF p
<1>10. Settled(g)
  BY <1>7, <1>8 DEF Settled
<1> QED  BY <1>7, <1>9, <1>10 DEF g, keep, n, b, o

\* The loop ends with nothing left to be found, and shows what Cont says.
LEMMA Scanned ==
  ASSUME NEW f \in Filters
  PROVE  /\ Scan[f] \in Filters /\ Settled(Scan[f])
         /\ \A r \in Seq(Letters) : Cont(Scan[f], r) = Cont(f, r)
<1> DEFINE D == Filters
           Size == [h \in D |-> Len(h.buffer)]
           Value(g, filter) ==
             LET buffer == filter.buffer IN
             CASE filter.inside /\ Has(buffer, End) ->
                    g[[filter EXCEPT !.buffer = After(buffer, End), !.inside = FALSE]]
               [] filter.inside /\ ~Has(buffer, End) -> [filter EXCEPT !.buffer = Hidden(buffer)]
               [] ~filter.inside /\ Has(buffer, Start) ->
                    g[[buffer |-> After(buffer, Start), inside |-> TRUE,
                       output |-> filter.output \o Before(buffer, Start)]]
               [] OTHER ->
                    LET keep == longestMarkerPrefixSuffix(buffer, Start) IN
                    [filter EXCEPT !.buffer = Ending(buffer, keep),
                                   !.output = @ \o SubSeq(buffer, 1, Len(buffer) - keep)]
           Rec(g) == [filter \in D |-> Value(g, filter)]
           Step == [g \in [D -> D] |-> Rec(g)]
           Ended(h) == [h EXCEPT !.buffer = After(h.buffer, End), !.inside = FALSE]
           Started(h) == [buffer |-> After(h.buffer, Start), inside |-> TRUE,
                          output |-> h.output \o Before(h.buffer, Start)]
           Hides(h) == [h EXCEPT !.buffer = Hidden(h.buffer)]
           Shows(h) == LET keep == longestMarkerPrefixSuffix(h.buffer, Start) IN
                       [h EXCEPT !.buffer = Ending(h.buffer, keep),
                                 !.output = @ \o SubSeq(h.buffer, 1, Len(h.buffer) - keep)]
<1>1. ASSUME NEW g, NEW h \in D
      PROVE  /\ h.inside \in BOOLEAN
             /\ h.inside /\ Has(h.buffer, End) => Value(g, h) = g[Ended(h)]
             /\ h.inside /\ ~Has(h.buffer, End) => Value(g, h) = Hides(h)
             /\ ~h.inside /\ Has(h.buffer, Start) => Value(g, h) = g[Started(h)]
             /\ ~h.inside /\ ~Has(h.buffer, Start) => Value(g, h) = Shows(h)
  <2>1. h.inside \in BOOLEAN
    BY DEF Filters
  <2>2. ASSUME h.inside, Has(h.buffer, End) PROVE Value(g, h) = g[Ended(h)]
    BY <2>2
  <2>3. ASSUME h.inside, ~Has(h.buffer, End) PROVE Value(g, h) = Hides(h)
    BY <2>3
  <2>4. ASSUME ~h.inside, Has(h.buffer, Start) PROVE Value(g, h) = g[Started(h)]
    BY <2>4
  <2>5. ASSUME ~h.inside, ~Has(h.buffer, Start) PROVE Value(g, h) = Shows(h)
    BY <2>5
  <2> HIDE DEF Value, Ended, Hides, Started, Shows
  <2> QED  BY <2>1, <2>2, <2>3, <2>4, <2>5
<1>2. ASSUME NEW h \in D
      PROVE  /\ h.inside /\ Has(h.buffer, End) =>
                  /\ Ended(h) \in D /\ Size[Ended(h)] < Size[h]
                  /\ \A r \in Seq(Letters) : Cont(Ended(h), r) = Cont(h, r)
             /\ ~h.inside /\ Has(h.buffer, Start) =>
                  /\ Started(h) \in D /\ Size[Started(h)] < Size[h]
                  /\ \A r \in Seq(Letters) : Cont(Started(h), r) = Cont(h, r)
  BY MarkerEnds, MarkerStarts
<1>3. ASSUME NEW h \in D
      PROVE  /\ h.inside /\ ~Has(h.buffer, End) =>
                  /\ Hides(h) \in D /\ Settled(Hides(h))
                  /\ \A r \in Seq(Letters) : Cont(Hides(h), r) = Cont(h, r)
             /\ ~h.inside /\ ~Has(h.buffer, Start) =>
                  /\ Shows(h) \in D /\ Settled(Shows(h))
                  /\ \A r \in Seq(Letters) : Cont(Shows(h), r) = Cont(h, r)
  BY NoMarkerEnds, NoMarkerStarts
<1>4. Size \in [D -> Nat]
  BY LenProperties DEF Filters
<1> HIDE DEF Size, Value, Ended, Started, Hides, Shows
<1>5. ASSUME NEW g \in [D -> D], NEW h \in D PROVE Value(g, h) \in D
  BY <1>1, <1>2, <1>3
<1>6. IsRecursion(D, D, Size, Step)
  <2>1. [D -> D] # {}
    <3>1. [h \in D |-> h] \in [D -> D]
      OBVIOUS
    <3> QED  BY <3>1
  <2>2. Step \in [[D -> D] -> [D -> D]]
    BY <1>5
  <2>3. ASSUME NEW g \in [D -> D], NEW k \in [D -> D], NEW h \in D,
               \A j \in D : Size[j] < Size[h] => g[j] = k[j]
        PROVE  Value(g, h) = Value(k, h)
    BY <1>1, <1>2, <2>3
  <2>4. \A g, k \in [D -> D] : \A h \in D :
          (\A j \in D : Size[j] < Size[h] => g[j] = k[j]) => Step[g][h] = Step[k][h]
    BY <2>3
  <2> HIDE DEF Step, D
  <2> QED  BY <1>4, <2>1, <2>2, <2>4 DEF IsRecursion
<1>7. PICK s \in [D -> D] : s = Step[s]
  <2> HIDE DEF Step, D
  <2> QED  BY <1>6, RecursiveFunction DEF HasSolution
<1>8. s = Rec(s)
  BY <1>7
<1>9. Scan = Rec(Scan)
  <2> DEFINE c == CHOOSE g : g = Rec(g)
  <2>1. c = Rec(c)
    BY <1>8
  <2>2. Scan = c
    BY DEF Scan, Value
  <2> HIDE DEF c, Rec
  <2> QED  BY <2>1, <2>2
<1>10. \A h \in D : Scan[h] = Value(Scan, h)
  BY <1>9
<1> DEFINE P == {h \in D : /\ Scan[h] \in D /\ Settled(Scan[h])
                           /\ \A r \in Seq(Letters) : Cont(Scan[h], r) = Cont(h, r)}
<1>11. ASSUME NEW h \in D, \A j \in D : Size[j] < Size[h] => j \in P PROVE h \in P
  BY <1>1, <1>2, <1>3, <1>10, <1>11
<1>12. \A h \in D : h \in P
  <2> HIDE DEF P, D
  <2> QED  BY <1>4, <1>11, SizeInduction
<1> QED  BY <1>12

LEMMA Fed ==
  ASSUME NEW f \in Filters, NEW d \in Seq(Letters)
  PROVE  /\ Feed(f, d) \in Filters /\ Settled(Feed(f, d))
         /\ \A r \in Seq(Letters) : Cont(Feed(f, d), r) = Cont(f, d \o r)
<1> DEFINE g == [f EXCEPT !.buffer = @ \o d]
<1>1. f.buffer \in Seq(Letters) /\ f.buffer \o d \in Seq(Letters)
  BY ConcatProperties DEF Filters
<1>2. /\ g \in Filters /\ g.buffer = f.buffer \o d /\ g.inside = f.inside /\ g.output = f.output
  BY <1>1 DEF Filters
<1>3. Feed(f, d) = Scan[g]
  BY DEF Feed
<1> HIDE DEF g
<1>4. ASSUME NEW r \in Seq(Letters) PROVE Cont(g, r) = Cont(f, d \o r)
  <2>1. (f.buffer \o d) \o r = f.buffer \o (d \o r)
    <3> DEFINE b == f.buffer
    <3>1. b \in Seq(Letters)
      BY <1>1
    <3> HIDE DEF b
    <3>2. (b \o d) \o r = b \o (d \o r)
      BY <3>1, Associative
    <3> QED  BY <3>2 DEF b
  <2> QED  BY <1>2, <2>1 DEF Cont
<1> QED  BY <1>2, <1>3, <1>4, Scanned

LEMMA Flushed ==
  ASSUME NEW f \in Filters, Settled(f)
  PROVE  Flush(f) = Cont(f, <<>>)
<1> DEFINE b == f.buffer
           o == f.output
<1>1. b \in Seq(Letters) /\ o \in Seq(Letters) /\ f.inside \in BOOLEAN
  BY DEF Filters
<1> HIDE DEF b, o
<1>2. b \o <<>> = b /\ o \o <<>> = o
  BY <1>1, ConcatEmptySeq
<1>3. CASE f.inside
  <2>1. Inside(b).text = <<>>
    BY <1>3 DEF Settled, Inside, Unclosed, b
  <2> QED  BY <1>2, <1>3, <2>1 DEF Flush, Cont, b, o
<1>4. CASE ~f.inside
  <2>1. Outside[b].text = b
    <3>1. ~Has(b, Start)
      BY <1>4 DEF Settled, b
    <3>2. Outside[b] = [text |-> b, closed |-> TRUE]
      BY <1>1, <3>1, OutsidePlain
    <3> QED  BY <3>2
  <2> QED  BY <1>2, <1>4, <2>1 DEF Flush, Cont, b, o
<1> QED  BY <1>1, <1>3, <1>4

LEMMA NothingFound ==
  ASSUME NEW m \in Markers
  PROVE  ~Has(<<>>, m)
<1>1. <<>> \in Seq(Letters) /\ Len(<<>>) = 0 /\ Len(m) \in Nat /\ Len(m) >= 1
  BY MarkerFacts
<1>2. \A i \in Nat : ~Occurs(<<>>, m, i)
  <2> SUFFICES ASSUME NEW i \in Nat, i >= 1, i + Len(m) - 1 <= Len(<<>>) PROVE FALSE
    BY DEF Occurs
  <2> DEFINE k == Len(m)
  <2>1. k \in Nat /\ k >= 1 /\ i + k - 1 <= 0
    BY <1>1
  <2> HIDE DEF k
  <2> QED  BY <2>1
<1> QED  BY <1>1, <1>2, FirstAt

\* internalStreamFilter shows what is outside the blocks, all of it, into however
\* many deltas of whatever length a text is split: whole[i] is what the first i
\* deltas have brought (assistant_runtime.go:924-962).
THEOREM StreamedIsOutside ==
  ASSUME NEW deltas \in Seq(Seq(Letters)), NEW whole \in [0 .. Len(deltas) -> Seq(Letters)],
         whole[0] = <<>>, \A i \in 1 .. Len(deltas) : whole[i] = whole[i - 1] \o deltas[i]
  PROVE  Streamed(deltas) = Outside[whole[Len(deltas)]].text
<1> DEFINE n == Len(deltas)
           Body == [i \in 1 .. n |-> [f \in Filters |-> Feed(f, deltas[i])]]
           Rec(g) == [i \in 0 .. n |-> IF i = 0 THEN NewFilter ELSE Feed(g[i - 1], deltas[i])]
           fed == CHOOSE g : g = Rec(g)
<1>1. n \in Nat /\ \A i \in 1 .. n : deltas[i] \in Seq(Letters)
  BY LenProperties, ElementOfSeq
<1>2. NewFilter \in Filters /\ NewFilter.buffer = <<>> /\ NewFilter.output = <<>> /\ ~NewFilter.inside
  <2>1. <<>> \in Seq(Letters)
    OBVIOUS
  <2> QED  BY <2>1 DEF NewFilter, Filters
<1>3. Body \in [1 .. n -> [Filters -> Filters]]
  BY <1>1, Fed
<1>4. Streamed(deltas) = Flush(fed[n])
  BY DEF Streamed
<1>5. HasIteration(n, Filters, NewFilter, Body)
  <2> HIDE DEF n, Body
  <2> QED  BY <1>1, <1>2, <1>3, Iteration
<1>6. PICK g \in [0 .. n -> Filters] : Iterates(g, n, NewFilter, Body)
  BY <1>5 DEF HasIteration
<1>7. g = Rec(g)
  <2>1. \A i \in 0 .. n : i # 0 => i \in 1 .. n /\ i - 1 \in 0 .. n
    BY <1>1
  <2>2. \A i \in 1 .. n : g[i - 1] \in Filters
    <3>1. \A i \in 1 .. n : i - 1 \in 0 .. n
      BY <1>1
    <3> QED  BY <1>6, <3>1
  <2>3. \A i \in 1 .. n : Body[i][g[i - 1]] = Feed(g[i - 1], deltas[i])
    BY <2>2
  <2>4. g = [i \in 0 .. n |-> IF i = 0 THEN NewFilter ELSE Body[i][g[i - 1]]]
    BY <1>6 DEF Iterates
  <2> HIDE DEF Body
  <2> QED  BY <2>1, <2>3, <2>4
<1>8. fed = Rec(fed)
  BY <1>7
<1> HIDE DEF fed
<1>9. fed[0] = NewFilter /\ \A i \in 1 .. n : fed[i] = Feed(fed[i - 1], deltas[i])
  <2>1. 0 \in 0 .. n /\ \A i \in 1 .. n : i \in 0 .. n /\ i # 0
    BY <1>1
  <2> QED  BY <1>8, <2>1
<1> DEFINE Good == {i \in Nat : i <= n =>
                      /\ fed[i] \in Filters /\ Settled(fed[i])
                      /\ \A r \in Seq(Letters) : Cont(fed[i], r) = Outside[whole[i] \o r].text}
<1> HIDE DEF n
<1>10. 0 \in Good
  <2>1. Settled(NewFilter)
    BY <1>2, NothingFound, MarkerFacts DEF Settled
  <2>2. ASSUME NEW r \in Seq(Letters) PROVE Cont(NewFilter, r) = Outside[whole[0] \o r].text
    <3>1. Outside[<<>> \o r].text \in Seq(Letters)
      BY ConcatEmptySeq, OutsideUnfolds DEF Results
    <3>2. <<>> \o Outside[<<>> \o r].text = Outside[<<>> \o r].text
      BY <3>1, ConcatEmptySeq
    <3> QED  BY <1>2, <3>2 DEF Cont
  <2> QED  BY <1>2, <1>9, <2>1, <2>2
<1>11. ASSUME NEW i \in Nat, i \in Good PROVE i + 1 \in Good
  <2> SUFFICES ASSUME i + 1 <= n PROVE i + 1 \in Good
    OBVIOUS
  <2>1. i <= n /\ i + 1 \in 1 .. n /\ i \in 0 .. n /\ (i + 1) - 1 = i
    BY <1>1
  <2>2. /\ fed[i] \in Filters
        /\ \A r \in Seq(Letters) : Cont(fed[i], r) = Outside[whole[i] \o r].text
    BY <1>11, <2>1
  <2> DEFINE d == deltas[i + 1]
  <2>3. d \in Seq(Letters) /\ fed[i + 1] = Feed(fed[i], d) /\ whole[i + 1] = whole[i] \o d
        /\ whole[i] \in Seq(Letters)
    BY <1>1, <1>9, <2>1 DEF n
  <2> HIDE DEF d
  <2>4. ASSUME NEW r \in Seq(Letters) PROVE Cont(fed[i + 1], r) = Outside[whole[i + 1] \o r].text
    <3>1. d \o r \in Seq(Letters)
      BY <2>3, ConcatProperties
    <3> DEFINE f == fed[i]
               w == whole[i]
    <3>2. /\ f \in Filters /\ w \in Seq(Letters) /\ Cont(f, d \o r) = Outside[w \o (d \o r)].text
          /\ fed[i + 1] = Feed(f, d) /\ whole[i + 1] = w \o d
      BY <2>2, <2>3, <3>1
    <3> HIDE DEF f, w
    <3>3. Cont(Feed(f, d), r) = Cont(f, d \o r)
      BY <2>3, <3>2, Fed
    <3>4. (w \o d) \o r = w \o (d \o r)
      <4>1. w \in Seq(Letters) /\ d \in Seq(Letters)
        BY <2>3, <3>2
      <4> QED  BY <4>1, Associative
    <3> QED  BY <3>2, <3>3, <3>4
  <2>5. fed[i + 1] \in Filters /\ Settled(fed[i + 1])
    BY <2>2, <2>3, Fed
  <2> QED  BY <2>4, <2>5
<1>12. n \in Good
  <2> HIDE DEF Good
  <2> QED  BY <1>1, <1>10, <1>11, NatSetInduction
<1>13. /\ fed[n] \in Filters /\ Settled(fed[n])
       /\ Cont(fed[n], <<>>) = Outside[whole[n] \o <<>>].text
  <2>1. <<>> \in Seq(Letters) /\ n <= n
    BY <1>1
  <2> QED  BY <1>12, <2>1
<1>14. whole[n] \o <<>> = whole[n]
  <2>1. whole[n] \in Seq(Letters)
    BY <1>1 DEF n
  <2> QED  BY <2>1, ConcatEmptySeq
<1> QED  BY <1>4, <1>13, <1>14, Flushed DEF n

-----------------------------------------------------------------------------
(***************************************************************************)
(* A complete text: where blocks are cut out of it.                        *)
(***************************************************************************)
LEMMA StripUnfolds ==
  ASSUME NEW x \in Seq(Letters)
  PROVE  /\ stripInternalMarkers[x] =
              IF Has(x, Start) /\ Has(FromStart(x), End)
              THEN stripInternalMarkers[Before(x, Start) \o After(FromStart(x), End)]
              ELSE x
         /\ Has(x, Start) /\ Has(FromStart(x), End) =>
              /\ Before(x, Start) \o After(FromStart(x), End) \in Seq(Letters)
              /\ Len(Before(x, Start) \o After(FromStart(x), End)) < Len(x)
<1> DEFINE D == Seq(Letters)
           Size == [y \in D |-> Len(y)]
           Cuts(y) == Has(y, Start) /\ Has(FromStart(y), End)
           Less(y) == Before(y, Start) \o After(FromStart(y), End)
           Rec(g) == [text \in D |-> IF Cuts(text) THEN g[Less(text)] ELSE text]
           Step == [g \in [D -> D] |-> Rec(g)]
<1>1. ASSUME NEW y \in D, Cuts(y) PROVE Less(y) \in D /\ Len(Less(y)) < Len(y)
  <2> DEFINE i == Min(At(y, Start))
             z == FromStart(y)
             j == Min(At(z, End))
  <2>1. /\ i \in Nat /\ i >= 1 /\ i - 1 \in 0 .. Len(y) /\ i - 1 + Len(Start) <= Len(y)
        /\ Before(y, Start) \in D /\ Len(Before(y, Start)) = i - 1
        /\ Len(Start) \in Nat /\ Len(y) \in Nat /\ End \in Markers
    BY <1>1, AroundFirst, MarkerFacts, LenProperties
  <2>2. z = Drop(y, i - 1)
    <3>1. i - 1 + 1 = i
      BY <2>1
    <3> HIDE DEF i
    <3>2. FromStart(y) = SubSeq(y, i, Len(y))
      BY DEF FromStart, i
    <3> QED  BY <3>1, <3>2 DEF Drop
  <2> HIDE DEF i
  <2>3. z \in D /\ Len(z) = Len(y) - (i - 1)
    <3> HIDE DEF Drop, z
    <3> QED  BY <2>1, <2>2, Cut
  <2>4. Has(z, End)
    BY <1>1
  <2> HIDE DEF z
  <2>5. /\ j \in Nat /\ j >= 1 /\ After(z, End) \in D /\ Len(After(z, End)) = Len(z) - (j - 1 + Len(End))
        /\ Len(End) \in Nat /\ Len(End) >= 1
    BY <2>1, <2>3, <2>4, AroundFirst, MarkerFacts
  <2> HIDE DEF j
  <2> DEFINE p == Before(y, Start)
             s == After(z, End)
  <2>6. Less(y) = p \o s
    BY DEF z
  <2>7. p \in D /\ s \in D /\ Len(p) = i - 1 /\ Len(s) = Len(y) - (i - 1) - (j - 1 + Len(End))
    BY <2>1, <2>3, <2>5
  <2> HIDE DEF p, s
  <2>8. p \o s \in D /\ Len(p \o s) = Len(p) + Len(s)
    BY <2>7, ConcatProperties
  <2>9. Len(p) + Len(s) < Len(y)
    <3> DEFINE l == Len(y)
               k == Len(End)
    <3>1. l \in Nat /\ k \in Nat /\ k >= 1 /\ Len(p) = i - 1 /\ Len(s) = l - (i - 1) - (j - 1 + k)
      BY <2>1, <2>5, <2>7
    <3> HIDE DEF l, k
    <3>2. Len(p) + Len(s) < l
      BY <2>1, <2>5, <3>1
    <3> QED  BY <3>2 DEF l
  <2> QED  BY <2>6, <2>8, <2>9
<1> HIDE DEF Cuts, Less
<1>2. IsRecursion(D, D, Size, Step)
  <2>1. [D -> D] # {}
    <3>1. [y \in D |-> y] \in [D -> D]
      OBVIOUS
    <3> QED  BY <3>1
  <2>2. Size \in [D -> Nat]
    BY LenProperties
  <2>3. Step \in [[D -> D] -> [D -> D]]
    BY <1>1
  <2>4. \A g, k \in [D -> D] : \A h \in D :
          (\A j \in D : Size[j] < Size[h] => g[j] = k[j]) => Step[g][h] = Step[k][h]
    BY <1>1
  <2> HIDE DEF Size, Step, D
  <2> QED  BY <2>1, <2>2, <2>3, <2>4 DEF IsRecursion
<1>3. PICK s \in [D -> D] : s = Step[s]
  <2> HIDE DEF Size, Step, D
  <2> QED  BY <1>2, RecursiveFunction DEF HasSolution
<1>4. s = Rec(s)
  BY <1>3
<1>5. stripInternalMarkers = Rec(stripInternalMarkers)
  <2> DEFINE c == CHOOSE g : g = Rec(g)
  <2>1. c = Rec(c)
    BY <1>4
  <2>2. stripInternalMarkers = c
    BY DEF stripInternalMarkers, Cuts, Less
  <2> HIDE DEF c, Rec
  <2> QED  BY <2>1, <2>2
<1>6. stripInternalMarkers[x] = IF Cuts(x) THEN stripInternalMarkers[Less(x)] ELSE x
  BY <1>5
<1> QED  BY <1>1, <1>6 DEF Cuts, Less

\* No marker begins where a text goes on as a start marker does from n on.
LEMMA Clash ==
  ASSUME NEW n \in 1 .. Len(Start), NEW m \in Markers,
         Differ(SubSeq(Start, n, Len(Start)), m), NEW y, NEW j \in Nat,
         \A a \in 1 .. Len(Start) - n + 1 : y[j + a - 1] = Start[n + a - 1]
  PROVE  ~Occurs(y, m, j)
<1> DEFINE k == Len(Start)
           s == SubSeq(Start, n, k)
<1>1. k \in Nat /\ Start \in Seq(Letters) /\ m \in Seq(Letters)
  BY MarkerFacts
<1>2. /\ s \in Seq(Letters) /\ Len(s) = k - n + 1
      /\ \A a \in 1 .. k - n + 1 : s[a] = Start[n + a - 1]
  <2>1. \A i \in n .. k : Start[i] \in Letters
    BY <1>1, ElementOfSeq
  <2>2. n \in Int /\ k \in Int /\ n <= k
    BY <1>1
  <2> HIDE DEF k
  <2> QED  BY <2>1, <2>2, SubSeqProperties
<1>3. PICK i \in DOMAIN s \cap DOMAIN m : s[i] # m[i]
  BY DEF Differ
<1> HIDE DEF s
<1>4. i \in 1 .. k - n + 1 /\ i \in 1 .. Len(m)
  BY <1>1, <1>2, <1>3, LenProperties
<1>5. y[j + i - 1] = s[i]
  BY <1>2, <1>4
<1> QED  BY <1>3, <1>4, <1>5 DEF Occurs

\* The first end marker after a start marker is not within it.
LEMMA EndAfterStart ==
  ASSUME NEW x \in Seq(Letters), Has(x, Start)
  PROVE  /\ Has(FromStart(x), End) <=> Has(After(x, Start), End)
         /\ Has(FromStart(x), End) => After(FromStart(x), End) = After(After(x, Start), End)
<1> DEFINE i == Min(At(x, Start))
           k == Len(Start)
           y == FromStart(x)
<1>1. /\ i \in Nat /\ i >= 1 /\ i - 1 \in Nat /\ i - 1 \in 0 .. Len(x) /\ i - 1 + k <= Len(x)
      /\ After(x, Start) = Drop(x, i - 1 + k) /\ k \in Nat /\ k >= 1 /\ Len(x) \in Nat
      /\ Start \in Markers /\ End \in Markers
  BY AroundFirst, MarkerFacts, LenProperties
<1>2. Occurs(x, Start, i)
  BY FirstAt, MarkerFacts
<1>3. y = Drop(x, i - 1)
  <2>1. i - 1 + 1 = i
    BY <1>1
  <2>2. FromStart(x) = SubSeq(x, i, Len(x))
    BY DEF FromStart
  <2> HIDE DEF i
  <2> QED  BY <2>1, <2>2 DEF Drop
<1> HIDE DEF i, y
<1>4. /\ y \in Seq(Letters) /\ Len(y) = Len(x) - (i - 1)
      /\ \A a \in 1 .. Len(x) - (i - 1) : y[a] = x[i - 1 + a]
  <2> HIDE DEF Drop
  <2> QED  BY <1>1, <1>3, Cut
<1>5. k \in 0 .. Len(y)
  BY <1>1, <1>4
<1>6. \A a \in 1 .. k : y[a] = Start[a]
  <2> SUFFICES ASSUME NEW a \in 1 .. k PROVE y[a] = Start[a]
    OBVIOUS
  <2>1. a \in 1 .. Len(x) - (i - 1) /\ i - 1 + a = i + a - 1
    BY <1>1
  <2>2. x[i + a - 1] = Start[a]
    BY <1>2 DEF Occurs
  <2> QED  BY <1>4, <2>1, <2>2
<1>7. ASSUME NEW n \in 1 .. k PROVE ~Occurs(y, End, n)
  <2>1. Differ(SubSeq(Start, n, Len(Start)), End)
    BY FilterAssumption
  <2>2. ASSUME NEW a \in 1 .. k - n + 1 PROVE y[n + a - 1] = Start[n + a - 1]
    <3>1. n + a - 1 \in 1 .. k
      BY <1>1
    <3> QED  BY <1>6, <3>1
  <2>3. n \in Nat
    BY <1>1
  <2> QED  BY <1>1, <2>1, <2>2, <2>3, Clash
<1>8. /\ Has(y, End) <=> Has(Drop(y, k), End)
      /\ Has(y, End) => After(y, End) = After(Drop(y, k), End)
  <2> HIDE DEF Drop, k
  <2> QED  BY <1>1, <1>4, <1>5, <1>7, FirstDropped
<1>9. Drop(y, k) = After(x, Start)
  <2>1. Drop(Drop(x, i - 1), k) = Drop(x, i - 1 + k)
    <3> HIDE DEF Drop, k
    <3> QED  BY <1>1, DropDrop
  <2> QED  BY <1>1, <1>3, <2>1
<1> QED  BY <1>8, <1>9 DEF y

\* Cutting a block out joins what is around it: if that makes no start marker
\* once the other blocks are gone, it makes none before.
LEMMA Joined ==
  ASSUME NEW p \in Seq(Letters), NEW z \in Seq(Letters), ~Has(p, Start),
         ~Has(p \o Outside[z].text, Start)
  PROVE  /\ Outside[p \o z].text = p \o Outside[z].text
         /\ Outside[p \o z].closed = Outside[z].closed
<1> DEFINE o == Outside[z].text
           k == Len(Start)
           l == Len(p)
           w == p \o z
           v == p \o o
<1>1. /\ k \in Nat /\ k >= 1 /\ l \in Nat /\ Start \in Markers /\ Len(z) \in Nat
      /\ o \in Seq(Letters) /\ Len(o) \in Nat
  <2>1. o \in Seq(Letters)
    BY OutsideUnfolds DEF Results
  <2> QED  BY <2>1, LenProperties, MarkerFacts
<1>2. /\ w \in Seq(Letters) /\ Len(w) = l + Len(z)
      /\ \A a \in 1 .. l + Len(z) : w[a] = IF a <= l THEN p[a] ELSE z[a - l]
  BY ConcatProperties
<1>3. /\ v \in Seq(Letters) /\ Len(v) = l + Len(o)
      /\ \A a \in 1 .. l + Len(o) : v[a] = IF a <= l THEN p[a] ELSE o[a - l]
  BY <1>1, ConcatProperties
<1>4. ~Has(v, Start) /\ ~Has(p, Start)
  OBVIOUS
<1> HIDE DEF v, w, o
<1>5. ASSUME NEW j \in 1 .. l, Occurs(w, Start, j) PROVE FALSE
  <2> DEFINE q == l - j + 1
  <2>1. j \in Nat /\ j >= 1 /\ j <= l /\ q \in Nat /\ q >= 1
    BY <1>1
  <2>2. j + k - 1 <= l + Len(z) /\ \A b \in 1 .. k : w[j + b - 1] = Start[b]
    BY <1>2, <1>5 DEF Occurs
  <2>3. CASE q >= k
    <3>1. j + k - 1 <= l
      BY <1>1, <2>1, <2>3
    <3>2. Occurs(p, Start, j)
      BY <1>1, <1>5, <2>1, <3>1, OccursJoined DEF w
    <3> QED  BY <1>1, <1>4, <2>1, <3>2, FirstAt
  <2>4. CASE q < k
    <3> DEFINE e == k - q
    <3>1. e \in 0 .. Len(z) /\ e \in Nat /\ q \in Nat /\ e = k - q
      BY <1>1, <2>1, <2>2, <2>4
    <3>2. ASSUME NEW a \in 1 .. e PROVE z[a] = Start[q + a]
      <4>1. /\ q + a \in 1 .. k /\ j + (q + a) - 1 = l + a /\ l + a \in 1 .. l + Len(z)
            /\ ~(l + a <= l) /\ (l + a) - l = a
        BY <1>1, <2>1, <3>1
      <4>2. w[j + (q + a) - 1] = Start[q + a]
        BY <2>2, <4>1
      <4>3. w[l + a] = z[(l + a) - l]
        BY <1>2, <4>1
      <4> QED  BY <4>1, <4>2, <4>3
    <3> HIDE DEF e, q
    <3>3. ASSUME NEW c \in 1 .. e PROVE ~Occurs(z, Start, c)
      <4>1. q + c \in 1 .. k /\ q + c > 1 /\ c \in Nat
        BY <1>1, <2>1, <2>4, <3>1
      <4>2. Differ(SubSeq(Start, q + c, Len(Start)), Start)
        BY <4>1, FilterAssumption
      <4>3. ASSUME NEW a \in 1 .. k - (q + c) + 1 PROVE z[c + a - 1] = Start[(q + c) + a - 1]
        <5>1. c + a - 1 \in 1 .. e /\ q + (c + a - 1) = (q + c) + a - 1
          BY <1>1, <2>1, <3>1, <4>1
        <5>2. z[c + a - 1] = Start[q + (c + a - 1)]
          BY <3>2, <5>1
        <5> QED  BY <5>1, <5>2
      <4> DEFINE n == q + c
      <4>4. n \in 1 .. Len(Start) /\ \A a \in 1 .. Len(Start) - n + 1 : z[c + a - 1] = Start[n + a - 1]
        BY <4>1, <4>3
      <4>5. Differ(SubSeq(Start, n, Len(Start)), Start)
        BY <4>2
      <4> HIDE DEF n
      <4> QED  BY <1>1, <4>1, <4>4, <4>5, Clash
    <3>4. o = Take(z, e) \o Outside[Drop(z, e)].text
      <4> HIDE DEF Take, Drop
      <4> QED  BY <3>1, <3>3, OutsideSkips DEF o
    <3>5. /\ Take(z, e) \in Seq(Letters) /\ Len(Take(z, e)) = e
          /\ \A a \in 1 .. e : Take(z, e)[a] = z[a]
          /\ Outside[Drop(z, e)].text \in Seq(Letters)
      <4>1. /\ Take(z, e) \in Seq(Letters) /\ Len(Take(z, e)) = e
            /\ \A a \in 1 .. e : Take(z, e)[a] = z[a] /\ Drop(z, e) \in Seq(Letters)
        <5> HIDE DEF Take, Drop
        <5> QED  BY <3>1, Cut
      <4>2. Drop(z, e) \in Seq(Letters)
        <5> HIDE DEF Take, Drop
        <5> QED  BY <3>1, Cut
      <4> QED  BY <4>1, <4>2, OutsideUnfolds DEF Results
    <3>6. e <= Len(o) /\ \A a \in 1 .. e : o[a] = z[a]
      <4> DEFINE s == Take(z, e)
                 t == Outside[Drop(z, e)].text
      <4>1. o = s \o t /\ s \in Seq(Letters) /\ t \in Seq(Letters) /\ Len(s) = e
            /\ \A a \in 1 .. e : s[a] = z[a]
        BY <3>4, <3>5
      <4> HIDE DEF s, t
      <4>2. /\ Len(s \o t) = Len(s) + Len(t) /\ Len(t) \in Nat
            /\ \A a \in 1 .. Len(s) + Len(t) : (s \o t)[a] = IF a <= Len(s) THEN s[a] ELSE t[a - Len(s)]
        BY <4>1, ConcatProperties, LenProperties
      <4>3. e <= e + Len(t) /\ \A a \in 1 .. e : a \in 1 .. e + Len(t) /\ a <= e
        BY <3>1, <4>2
      <4> QED  BY <4>1, <4>2, <4>3
    <3>7. ASSUME NEW b \in 1 .. k PROVE v[j + b - 1] = Start[b]
      <4>1. CASE b <= q
        <5>1. /\ j + b - 1 \in 1 .. l + Len(z) /\ j + b - 1 \in 1 .. l + Len(o)
              /\ j + b - 1 <= l
          BY <1>1, <2>1, <4>1 DEF q
        <5>2. v[j + b - 1] = p[j + b - 1] /\ w[j + b - 1] = p[j + b - 1]
          BY <1>2, <1>3, <5>1
        <5> QED  BY <2>2, <5>2
      <4>2. CASE b > q
        <5>1. /\ b - q \in 1 .. e /\ j + b - 1 \in 1 .. l + Len(o) /\ ~(j + b - 1 <= l)
              /\ (j + b - 1) - l = b - q /\ q + (b - q) = b
          BY <1>1, <2>1, <3>1, <3>6, <4>2 DEF q
        <5>2. v[j + b - 1] = o[b - q]
          BY <1>3, <5>1
        <5>3. o[b - q] = z[b - q] /\ z[b - q] = Start[q + (b - q)]
          BY <3>2, <3>6, <5>1
        <5> QED  BY <5>1, <5>2, <5>3
      <4>3. b <= q \/ b > q
        BY <1>1, <2>1
      <4> QED  BY <4>1, <4>2, <4>3
    <3>8. j + k - 1 <= l + Len(o)
      BY <1>1, <2>1, <3>1, <3>6 DEF q
    <3>9. Occurs(v, Start, j)
      BY <1>3, <2>1, <3>7, <3>8 DEF Occurs
    <3> QED  BY <1>1, <1>3, <1>4, <2>1, <3>9, FirstAt
  <2> QED  BY <1>1, <2>1, <2>3, <2>4
<1>6. l \in 0 .. Len(w)
  BY <1>1, <1>2
<1>7. Take(w, l) = p /\ Drop(w, l) = z
  <2>1. l \in 0 .. Len(p)
    BY <1>1
  <2>2. Take(w, l) = Take(p, l) /\ Drop(w, l) = Drop(p, l) \o z
    <3> HIDE DEF Take, Drop, l
    <3> QED  BY <2>1, CutJoined DEF w
  <2>3. Take(p, l) = p /\ Drop(p, l) = <<>>
    BY <1>1, SubSeqFull, SubSeqEmpty DEF Take, Drop
  <2>4. <<>> \o z = z
    BY ConcatEmptySeq
  <2> QED  BY <2>2, <2>3, <2>4
<1>8. /\ Outside[w].text = Take(w, l) \o Outside[Drop(w, l)].text
      /\ Outside[w].closed = Outside[Drop(w, l)].closed
  <2> HIDE DEF Take, Drop, l
  <2> QED  BY <1>2, <1>5, <1>6, OutsideSkips
<1> QED  BY <1>7, <1>8 DEF w

\* A complete text keeps what is outside its blocks.
LEMMA StrippedIsOutside ==
  ASSUME NEW x \in Seq(Letters), Outside[x].closed, ~Has(Outside[x].text, Start)
  PROVE  stripInternalMarkers[x] = Outside[x].text
<1> DEFINE D == Seq(Letters)
           Size == [y \in D |-> Len(y)]
           Clean(y) == Outside[y].closed /\ ~Has(Outside[y].text, Start)
           P == {y \in D : Clean(y) => stripInternalMarkers[y] = Outside[y].text}
<1>1. ASSUME NEW y \in D, \A z \in D : Len(z) < Len(y) => z \in P, Clean(y)
      PROVE  stripInternalMarkers[y] = Outside[y].text
  <2>1. CASE ~Has(y, Start)
    <3>1. Outside[y] = [text |-> y, closed |-> TRUE]
      BY <2>1, OutsidePlain
    <3>2. stripInternalMarkers[y] = y
      BY <2>1, StripUnfolds
    <3> QED  BY <3>1, <3>2
  <2>2. CASE Has(y, Start)
    <3> DEFINE p == Before(y, Start)
               rest == After(y, Start)
               z == After(rest, End)
    <3>1. Outside[y].text = p \o Inside(rest).text /\ Outside[y].closed = Inside(rest).closed
      BY <2>2, OutsideBlock
    <3>2. Has(rest, End)
      <4>1. Inside(rest).closed
        BY <1>1, <3>1
      <4> QED  BY <4>1 DEF Inside, Unclosed
    <3>3. Inside(rest) = Outside[z]
      BY <3>2 DEF Inside
    <3>4. p \in D /\ rest \in D /\ z \in D
      <4>1. p \in D /\ rest \in D
        BY <2>2, AroundFirst, MarkerFacts
      <4> QED  BY <3>2, <4>1, AroundFirst, MarkerFacts
    <3>5. Has(FromStart(y), End) /\ After(FromStart(y), End) = z
      BY <2>2, <3>2, EndAfterStart
    <3>6. /\ stripInternalMarkers[y] = stripInternalMarkers[p \o z]
          /\ p \o z \in D /\ Len(p \o z) < Len(y)
      BY <2>2, <3>5, StripUnfolds
    <3>7. ~Has(p, Start)
      <4> DEFINE i == Min(At(y, Start))
      <4>1. /\ i \in Nat /\ i >= 1 /\ i - 1 \in 0 .. Len(y) /\ p = Take(y, i - 1) /\ Start \in Markers
            /\ \A j \in Nat : Occurs(y, Start, j) => i <= j
        BY <2>2, AroundFirst, FirstAt, MarkerFacts
      <4> HIDE DEF i
      <4>2. /\ p \in Seq(Letters) /\ Len(p) = i - 1 /\ Drop(y, i - 1) \in Seq(Letters)
            /\ Take(y, i - 1) \o Drop(y, i - 1) = y
        <5> DEFINE n == i - 1
        <5>1. n \in 0 .. Len(y) /\ p = Take(y, n)
          BY <4>1
        <5> HIDE DEF n, p
        <5>2. /\ Take(y, n) \in Seq(Letters) /\ Len(Take(y, n)) = n /\ Drop(y, n) \in Seq(Letters)
              /\ Take(y, n) \o Drop(y, n) = y
          BY <5>1, Cut, TakeDrop
        <5> QED  BY <5>1, <5>2 DEF n
      <4> HIDE DEF p
      <4>3. ASSUME NEW j \in Nat, Occurs(p, Start, j) PROVE FALSE
        <5>1. Occurs(y, Start, j)
          <6>1. Occurs(p \o Drop(y, i - 1), Start, j)
            <7> DEFINE r == Drop(y, i - 1)
            <7>1. r \in Seq(Letters)
              BY <4>2
            <7> HIDE DEF r
            <7> QED  BY <4>1, <4>2, <4>3, <7>1, OccursJoined DEF r
          <6> QED  BY <4>1, <4>2, <6>1
        <5>2. j + Len(Start) - 1 <= i - 1 /\ Len(Start) \in Nat /\ Len(Start) >= 1
          BY <4>2, <4>3, MarkerFacts DEF Occurs
        <5>3. i <= j
          BY <4>1, <5>1
        <5> DEFINE k == Len(Start)
        <5>4. k \in Nat /\ k >= 1 /\ j + k - 1 <= i - 1
          BY <5>2
        <5> HIDE DEF k
        <5> QED  BY <4>1, <5>3, <5>4
      <4> QED  BY <4>1, <4>2, <4>3, FirstAt
    <3> HIDE DEF p, z, rest
    <3>8. ~Has(p \o Outside[z].text, Start) /\ Outside[z].closed
      BY <1>1, <3>1, <3>3
    <3>9. Outside[p \o z].text = p \o Outside[z].text /\ Outside[p \o z].closed = Outside[z].closed
      BY <3>4, <3>7, <3>8, Joined
    <3>10. stripInternalMarkers[p \o z] = Outside[p \o z].text
      BY <1>1, <3>6, <3>8, <3>9
    <3> QED  BY <3>1, <3>3, <3>6, <3>9, <3>10
  <2> QED  BY <2>1, <2>2
<1>2. Size \in [D -> Nat] /\ \A y \in D : Size[y] = Len(y)
  BY LenProperties
<1> HIDE DEF Size, Clean
<1>3. \A y \in D : (\A z \in D : Size[z] < Size[y] => z \in P) => y \in P
  BY <1>1, <1>2
<1>4. \A y \in D : y \in P
  <2> HIDE DEF D, P
  <2> QED  BY <1>2, <1>3, SizeInduction
<1> QED  BY <1>4 DEF Clean

LEMMA SplitText ==
  ASSUME NEW x \in Seq(Letters), NEW i \in 0 .. Len(x), NEW j \in i .. Len(x)
  PROVE  Streamed(Split(x, i, j)) = Outside[x].text
<1> DEFINE l == Len(x)
           a == SubSeq(x, 1, i)
           b == SubSeq(x, i + 1, j)
           c == SubSeq(x, j + 1, l)
           deltas == <<a, b, c>>
           whole == [n \in 0 .. 3 |-> IF n = 0 THEN <<>> ELSE IF n = 1 THEN a
                                      ELSE IF n = 2 THEN a \o b ELSE x]
<1>1. l \in Nat /\ i \in Nat /\ j \in Nat /\ i <= j /\ j <= l /\ j \in 0 .. Len(x)
  BY LenProperties
<1>2. a \in Seq(Letters) /\ c \in Seq(Letters)
  <2>1. Take(x, i) \in Seq(Letters) /\ Drop(x, j) \in Seq(Letters)
    <3> HIDE DEF Take, Drop
    <3> QED  BY <1>1, Cut
  <2> QED  BY <2>1 DEF Take, Drop
<1>3. b \in Seq(Letters)
  <2>1. \A n \in i + 1 .. j : x[n] \in Letters
    BY <1>1, ElementOfSeq
  <2> QED  BY <1>1, <2>1, SubSeqProperties
<1>4. a \o b = Take(x, j)
  <2>1. 1 \in 1 .. Len(x) + 1 /\ i \in 1 - 1 .. Len(x) /\ j \in i .. Len(x)
    BY <1>1
  <2> QED  BY <2>1, ConcatAdjacentSubSeq DEF Take
<1>5. (a \o b) \o c = x
  <2>1. Take(x, j) \o Drop(x, j) = x
    <3> HIDE DEF Take, Drop
    <3> QED  BY <1>1, TakeDrop
  <2>2. c = Drop(x, j)
    BY DEF Drop
  <2> QED  BY <1>4, <2>1, <2>2
<1>6. Split(x, i, j) = deltas
  BY DEF Split
<1> HIDE DEF a, b, c
<1>7. /\ deltas \in Seq(Seq(Letters)) /\ Len(deltas) = 3
      /\ deltas[1] = a /\ deltas[2] = b /\ deltas[3] = c
  BY <1>2, <1>3
<1>8. <<>> \o a = a /\ a \o b \in Seq(Letters) /\ <<>> \in Seq(Letters)
  BY <1>2, <1>3, ConcatEmptySeq, ConcatProperties
<1>9. /\ whole \in [0 .. 3 -> Seq(Letters)]
      /\ whole[0] = <<>> /\ whole[1] = a /\ whole[2] = a \o b /\ whole[3] = x
  BY <1>2, <1>8
<1> HIDE DEF whole, deltas
<1>10. \A n \in 1 .. Len(deltas) : whole[n] = whole[n - 1] \o deltas[n]
  <2>1. \A n \in 1 .. 3 : n = 1 \/ n = 2 \/ n = 3
    OBVIOUS
  <2>2. 1 - 1 = 0 /\ 2 - 1 = 1 /\ 3 - 1 = 2
    OBVIOUS
  <2> QED  BY <1>5, <1>7, <1>8, <1>9, <2>1, <2>2
<1>11. Streamed(deltas) = Outside[whole[Len(deltas)]].text
  BY <1>7, <1>9, <1>10, StreamedIsOutside
<1> QED  BY <1>6, <1>7, <1>9, <1>11

\* A text of any length, split anywhere, also within a marker: what is shown
\* as it arrives, and again when it is complete or loaded from the history, is
\* what is outside the internal blocks (AnswerIsOutside).
THEOREM AnswerOutside == AnswerIsOutside
<1> SUFFICES ASSUME NEW x \in Texts
             PROVE  LET outside == Outside[x] IN
                    /\ \A i \in 0 .. Len(x) : \A j \in i .. Len(x) :
                         /\ Streamed(Split(x, i, j)) = outside.text
                         /\ outside.closed => Answer(Split(x, i, j), x) = outside.text
                    /\ outside.closed /\ ~Has(outside.text, Start) =>
                         stripInternalMarkers[x] = outside.text
  BY DEF AnswerIsOutside
<1>1. x \in Seq(Letters)
  <2>1. PICK n \in 0 .. MaxText : x \in [1 .. n -> Letters]
    BY DEF Texts
  <2>2. n \in Nat
    BY <2>1, MarkerFacts
  <2> QED  BY <2>1, <2>2, SeqDef
<1>2. ASSUME Outside[x].closed, ~Has(Outside[x].text, Start)
      PROVE  stripInternalMarkers[x] = Outside[x].text
  BY <1>1, <1>2, StrippedIsOutside
<1>3. ASSUME NEW i \in 0 .. Len(x), NEW j \in i .. Len(x)
      PROVE  /\ Streamed(Split(x, i, j)) = Outside[x].text
             /\ Outside[x].closed => Answer(Split(x, i, j), x) = Outside[x].text
  <2>1. Streamed(Split(x, i, j)) = Outside[x].text
    BY <1>1, SplitText
  <2>2. CASE Outside[x].text # <<>>
    BY <2>1, <2>2 DEF Answer
  <2>3. CASE Outside[x].text = <<>>
    <3>1. ~Has(Outside[x].text, Start)
      BY <2>3, NothingFound, MarkerFacts
    <3> QED  BY <1>2, <2>1, <2>3, <3>1 DEF Answer
  <2> QED  BY <2>1, <2>2, <2>3
<1> QED  BY <1>2, <1>3
=============================================================================
